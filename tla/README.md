# A TLA+ model of rag-server

rag-server is the backend of a documentation site: it copies markdown
repositories, cuts them into chunks, stores the chunks with their embeddings in
PostgreSQL, and answers questions from them. Around that core it has an
endpoint that edits a permission matrix, a middleware that checks access tokens
and keeps a cache of them, and an endpoint that brings a repository up to date
through a configured proxy.

This directory holds TLA+ modules translated from the Go source, TLC
configurations that check them on small instances, and proofs for TLAPS.
`PROJECT.json` maps every definition to the lines it stands for, and lists the
runs, the mutants that show each property can fail, the hazards of the code and
the findings. Paths below are relative to the repository's root.

    tlc -workers 2 -config MCDocuments.cfg MCDocuments
    tlapm DocumentsProofs.tla

## 1. The system

| component | code | state it keeps | what changes it |
|---|---|---|---|
| markdown and chunking | `internal/rag/ingest/markdown.go`, `chunk.go`, `hash.go` | a buffer and an open section; a list, a set of hashes, a counter, a cursor | `ParseMarkdown`, `BuildChunks` |
| document store | `internal/rag/store/store.go`, `Service.Upsert` | table `documents`, its schema | `EnsureSchema`, `UpsertDocuments` |
| ingestion | `internal/rag/ingest/ingest.go`, `walk.go`, `cmd/rag-cli`, `cmd/ingest` | working copy, statistics of a run | `IngestRepo`, `ingestFile`, the loop of rag-cli |
| retrieval and answering | `Service.Query`, `api/rag.go`, `api/askai.go` | the lazily constructed `ragSvc` | `/rag/query`, `/askai` |
| admin settings | `api/admin_settings.go`, `internal/service/admin_settings.go` | table `admin_settings` | `GET`/`POST /api/admin/settings` |
| token authentication | `internal/auth`, `internal/cache/postgres.go` | tokens in circulation, table of cached validations | `TokenService`, the middlewares, `TokenCache` |
| repository sync and proxy | `internal/rag/sync`, `proxy/proxy.go`, `api/knowledge.go` | working copies; `http.DefaultTransport` and go-git's protocols, both process-wide | `SyncRepo`, `proxy.With`, `proxy.Set` |
| embedding clients, reranker | `internal/rag/embed`, `internal/rag/rerank` | none | a call each |
| configuration | `config`, `internal/rag/config`, `api/askai.go` | the file, three environment variables, what was read of them | `LoadServer`, `ToConfig`, `loadConfig`, `server.New` |
| server assembly | `cmd/rag-server/main.go`, `server.go`, `cors.go` | what the start found | the start |
| users, nodes, models, benchmark, stubs | `api/users.go`, `internal/bench`, ... | none of its own | — |

How they interact:

    markdown repository --SyncRepo--> working copy --ParseMarkdown, BuildChunks--> rows
      rows --embedding service--> rows with vectors
      rows --UpsertDocuments (cmd/ingest), or POST /api/rag/upsert (rag-cli)--> table documents
    table documents --two SELECTs--> Query --rerank--> /rag/query, /askai --> chat model
    POST /api/sync --> proxy.With( SyncRepo )
    configuration file --at the start--> main;  --at the first use, once--> ragSvc;
                       --at each question--> callLLM

A run of an ingestion program is sequential. The server is not: every request
is a goroutine, `Service` opens a connection for each call, and two requests
meet in the rows of a table, in a working copy, or in a process-wide variable.
Nothing but `initRAG` is protected by a mutex. The configuration file is read
three times on three ways: by `main`, by the RAG service when it is first used,
and by `callLLM` for each question; they can see different files, and differ in
what they make of the same one.

### What is hard about it, and what makes it correct

* **Markdown and chunking.** One buffer holds what several blocks of the syntax
  tree wrote, and is cut at headings; then a loop whose step depends on two
  settings must neither skip tokens nor stop making progress; ids are positions,
  so the ids of a file must not move when text is added behind them. Correct:
  the chunks are those a definition without loops and buffers gives; it ends.
* **Document store.** Eight statements that each commit alone and look before
  they create, run by callers that race; then a pipelined batch in one implicit
  transaction, with row locks taken in the caller's order, so callers can
  deadlock; a caller can lose the connection after the server received
  everything. Correct: a batch is atomic, the count is the number of rows it
  changed, the embedding of a row belongs to its content, and everybody is
  answered.
* **Ingestion.** Each file can fail at each of five calls, an answer can be
  lost and the batch sent again while the first is still being applied, the
  repository changes between runs, and the server restarts or its configuration
  comes and goes in the middle of one. A batch that a run gave up may arrive when
  the next run is under way. Correct: a file that a run listed is stored or met
  an error, unless the server that answered had stored nothing yet; a row is
  always a chunk its file once had, with that chunk's vector; old content returns
  only with a batch that an earlier run gave up. Not every loss is reported: see
  section 5.
* **Retrieval and answering.** Two reads of a table that is written between
  them, merged by key; a search that fails without the question failing; two
  layers that try again; a configuration that changes between construction and
  question. Correct: what is handed out was stored, is the best of the rows
  that were read, and the model is asked as often as the file said when the
  question reached it.
* **Admin settings.** Optimistic versions checked with a SELECT at READ
  COMMITTED, then DELETE of everything and INSERT of every cell; keys that are
  the same once trimmed and lowered; matrices without a cell; a COMMIT that takes
  effect though its answer is lost, and is answered 500. Correct: a matrix is
  replaced as a whole, by a save that names its version.
* **Token authentication.** A validation is remembered until a time computed
  from one reading of the clock and counted from another, in a table that
  outlives the server. Correct: the cache says what validation says, but for the
  delay of a write; what goes back to a login, and the roles of it, end.
* **Sync and proxy.** Two process-wide variables exchanged without a lock, and
  directories shared without a lock. Correct: `With` restores what it found,
  though `initRAG` may run meanwhile; "synced" means that there is a clone with
  the commits of its own remote, which need not be the one that was asked for
  (section 5).

## 2. Modules

| module | models | composed with |
|---|---|---|
| `WindowArith` | defaults and arithmetic of the window loop | extended by `Windows`, `Chunking` |
| `Windows` | the window loop for one part and one size, over token positions | `WindowsProofs` proves about it |
| `Chunking` | all of `BuildChunks`: toc, headings, paragraphs, sizes, windows, duplicates | extended by `Markdown` |
| `Markdown` | `ParseMarkdown`, whose sections `BuildChunks` then works on | over `Chunking` |
| `DocumentRows` | rows, batches and what a batch does to a table | used by the next three |
| `DocumentTable` | abstract: a batch takes effect at one instant or never | implemented by `Documents` |
| `Documents` | `Service.Upsert`, `EnsureSchema`, `UpsertDocuments` over PostgreSQL | `Ingestion` uses its abstract batch |
| `Ingestion` | `IngestRepo`; rag-cli's loop with `ingestFile`; the server's `getRAG` | over `DocumentRows` |
| `ServerConfig` | what `LoadServer`, `ToConfig`, `loadConfig` and `server.New` make of a file and the environment | extended by `Answering` |
| `Answering` | `/rag/query`, `/askai`, `Query`, `callLLM`, `initRAG` | over `ServerConfig` |
| `VersionedMatrix` | abstract: a matrix with a version | implemented by `AdminSettings` without overlap |
| `AdminSettings` | the two handlers and the transaction | |
| `TokenAuth` | `TokenService`, the middlewares, `TokenCache`, `PostgresStore`, restarts | |
| `RepoSync` | `POST /api/sync`: `SyncRepo` inside `proxy.With`, with `initRAG`'s `proxy.Set` | |
| `WindowsProofs`, `DocumentsProofs`, `IngestionProofs`, `AdminSettingsProofs`, `TokenAuthProofs`, `RepoSyncProofs`, `AnsweringProofs` | theorems about the module of that name | |
| `ChunkingProofs` | theorems about `Markdown`, which extends `Chunking` | |
| `MC...` | values of the constants for TLC | |

An operator named `X_Y` is operator or action `X` with a plausible bug `Y`. It
is used by no specification; the mutation runs of `PROJECT.json` put it in the
place of `X` and a property must then fail.

### How state and actions correspond to the code

**Windows** (`chunk.go:108-131`). `len`, `step`, `overlap` are the locals after
`ResolveChunking` and BuildChunks' own corrections; `start` is the loop
variable; `windows` is what was cut. `WholePart` is the branch for a part that
fits, `CutWindow` one turn of the `for` loop with its `break`.

**Chunking** (`chunk.go`). A text is a sequence of lines and a line a sequence
of words, because `strings.Fields` forgets where lines end but the hash of the
text does not: a part that fits is kept with its lines, a window is joined by
spaces. `seen` holds the texts for which the code holds hashes (SHA-256 is taken
to be injective). One action per block of the nested loops. Words are made of
`Pieces`, any values there are.

**Markdown** (`markdown.go`). A file is a sequence of blocks as goldmark's walk
enters them: headings, prose, indented code, and blocks that write nothing
(fenced code and HTML have no `*ast.Text` and are no `*ast.CodeBlock`); only
these have no text at all, an empty heading has one blank line. `buf` is
the code's `strings.Builder`, `cur` the section that is open; a word is the
sequence of its pieces, since the last word of one block and the first of the
next have nothing between them. After the walk the steps are those of
`Chunking`, and a run also starts from sections, as the tests of `BuildChunks`
do.

**Documents** (`store.go`, `service.go:30-60`). Per connection: `pc`, the index
`at` of the next statement or row, and the transaction's `pending` rows and
`locks`. A statement with IF NOT EXISTS is two steps, finding the object missing
and creating it, because PostgreSQL does not lock in between and the second of
two racing callers gets an error. `PutRow` locks the key even if the row is the
same and nothing is written, as ON CONFLICT does. `Disconnect` is the caller's
end; the server may go on (`Commit`) or roll back (`ServerAbort`).

**Ingestion** (`ingest.go`, `cmd/rag-cli/main.go`, `api/rag.go:28-74`). Steps of
the per-file loop, with an error path each. `Files` is the order of the walk, a
listing is a set of places in it, and `todo` those the loop has not left: the
file it is at is the one at the least of them. A batch is applied at once (what
`Documents` shows it is), and `inflight` are the batches whose sender got no
answer, each with the run and the attempt that sent it: it may take effect later,
in another run too, or not at all. `Start` waits for none of them. A chunk's vector is
represented by the hash of the text it was computed from. `configFile` is the
server's file, `ragSvc` what its service was constructed from: a server without
either answers 200 and stores nothing (`Serving`). `Upset` edits the file or
restarts the server. `unserved` (files that were answered so by a server that
had not stored anything since it started), `storing`, `versions`, `changes`
and `overtaken` (keys a batch of an earlier run changed since this one began) are
history. So is `failed`: the files at which the loop met an error.
`IngestRepo` keeps these errors as `Stats.Errors`, which need not name the file,
and `cmd/ingest` prints none of them; rag-cli logs each. `Sync` lists any part of
the markdown there is, since the walk passes over what it cannot look at.

**ServerConfig**. A file is a record of the settings that searches and questions
read; the operators are the functions that read them. `HasDSN` stands for
`VectorDB.DSN`, `Embedder` for the switch by which `Query`, `IngestRepo` and
rag-cli choose a client.

**Answering** (`service.go:62-167`, `api/rag.go`, `api/askai.go`). `vrows` and
`trows` are what the two statements returned, each from the table at its own
time. Scores are small integers and `alpha` counts halves. A statement may end
early without anybody noticing, because the code does not look at `rows.Err()`:
`ReadByVector` and `ReadByText` may return any shorter list of the best rows.
`ragSvc` is the configuration the service was constructed from, which stays;
`asking` is the file as `callLLM` read it, which is that of the moment. `Edit`
changes the file, `Construct` is another request's `getRAG`.

**AdminSettings**. Rows carry the save that wrote them (`by`), which no row of
the database does: it tells an old row from a new one with the same content, as
PostgreSQL does by the row's version. `snap` is the snapshot of the DELETE. A
save that sent COMMIT and lost the answer is answered 500 and `"unheard"`, until
the server commits it (`CommitLate`) or rolls it back (`RollbackLate`). A
request is its method, its two role headers and a body of entries whose keys may
collide in normal form: which one then wins is Go's order of iteration, any.

**TokenAuth**. `Slots` are requests that are in progress at the same time; a slot
is used again when its request was answered. `outcome` is the answer given in
the last step. `PostgresStore.Get` is a read, a comparison with the clock and
possibly a deletion, with time between them; `Set` counts the lifetime from its
own clock reading, later than the one it was computed from. `issued` are all
tokens there are; a token is what its claims say of use, time, login, roles,
secret and service. `sameSecret` covers a configuration with one secret for both
kinds, or with none, which is what `main.go` builds. `Foreign` are tokens that
others signed, with any secret: with the server's own they validate. What sets
them apart is only that they go back to no login. `caching` is whether the start
found a database; `Restart` may change it, and keeps the table, the secrets and
the configured lifetime.

**RepoSync**. `transport` and `protocols` are the two globals; each is written by
a step of its own, since they are separate assignments. `disk` holds for each
path whether it is missing, unusable, or a clone of a remote at a commit of one
of its branches; `Tracked` says which branch `ResolveRevision` finds after a
fetch. `overlap` (what ran beside a call of `With`, ever), `shared` (which
requests met in one directory), `since` and `before` (the remotes and the
directory when a request arrived) are history.

## 3. Runs

Every property has a mutant in `PROJECT.json` that violates it.

| run | states | what it shows |
|---|---|---|
| `windows` | 772 | no token lost, windows full and overlapping as configured, none inside another |
| `windows_stall` | violation | with overlap ≥ size the loop never ends |
| `chunking` | 415 k | from a file's blocks or from sections, walk and loops compute what a definition without them says; no token of a part is missing under any size, whatever was dropped as a repetition; a chunk is counted as many tokens as its text has; ids are stable when text is appended; every turn takes from what is left, and it ends |
| `documents` | 81 k | `Documents` implements `DocumentTable`; rows only after the whole schema; one dimension; embedding of the content; all answered |
| `admin_settings` | 265 k | no half matrix, no trace of a save that failed otherwise than by losing the answer to its COMMIT, no survivor of what a save deleted, all answered; without overlap it implements `VersionedMatrix` |
| `admin_merge` | violation | two overlapping saves leave a mixture |
| `token_auth` | 261 k | the cache agrees with validation; logins end and so do their roles, beside tokens others signed with the server's own secret; all answered or lost in a restart |
| `ingestion` | 722 k | a file that was listed and met no error is stored, rows are sound, the count is real, old content comes only with a batch that an earlier run gave up |
| `answering` | 480 k | chunks were stored, the best of the rows read come first, the chat model is asked as often as configured, all answered unless the database never answers |
| `repo_sync` | 4.1 M | the proxy is scoped to the call, "synced" leaves a clone that is fresh with respect to its own remote |
| `sync_other_remote` | violation | "synced" leaves a clone of another remote than the one asked for |
| `proxy_overlap` | violation | two overlapping calls leave the proxy of one installed |

### Bounds, and why they are enough

* `windows`: lengths 1–16 with sizes 4, 5, 7 and overlaps 0–3 pass every
  boundary of the loop (below, at and one above the size; last window full,
  short, and of one token), and seven lengths around 800 and 1520 check the
  defaults. The proofs drop the bound.
* `chunking`: up to two sections over eight texts chosen for what the code
  distinguishes (repeated windows, repeated paragraphs, text equal to a
  heading, leading, trailing and double blank lines, lines that differ only in
  breaks, no text), and files of up to three blocks of each kind, or four
  headings and proses, all under all switches. Two sections are what a duplicate
  across sections and a prefix need; four blocks are text before the first
  heading and two sections, of which one has two blocks.
* `documents`: two callers, two keys. Deadlock, a schema race and an overtaken
  batch need two; a row is decided per key. The batches contain opposite orders,
  a key three times, a wrong dimension half way, no dimension, and no rows.
* `admin_settings`: three savers (a third can commit between two others' steps),
  three roles, two modules, matrices that share cells, that have none, and whose
  keys collide. Malformed and refused requests, reads, and a server without a
  database come when requests do not overlap.
* `token_auth`: two requests at a time, lifetimes of 1 for both kinds of token, a
  cache lifetime of 1 beside a delay of 1, one login with the role "admin" at
  time 0, one refresh, time to 3: past the expiry of the first tokens, of the
  refreshed one, and of their entries. From the start there is one token with the
  role "admin" that others signed with the server's secret for access tokens,
  which is that of refresh tokens too in half of the initial states.
* `ingestion`: two runs and one event (a push, an edit of the configuration or a
  restart) before, during or between them, three files of which one is
  excluded, contents that grow, shrink and change in place. Three attempts to
  post are the code's own bound. One batch that was given up may be on its way
  at a time (`MaxLate`), into the next run too; the proofs drop that bound. Four
  programs: each of the two with a service that takes a batch, each of the
  clients that ask for one text at a time, and a server that starts with a
  configuration, with one that names no database, and with none.
* `answering`: one request: requests meet only in `ragSvc`, which `Construct`
  may make at any time. Three keys, a limit of two and one event (a write or an
  edit) between any two steps. Six files: each client, `alpha` out of range and
  at both ends, a database by its url, by fields and by too few of them, each
  kind of chat endpoint, retries below, at and above the cap.
* `repo_sync`: two requests, one directory, two remotes with one more commit
  each. The server has an http proxy, the repository another one, a socks proxy
  or none: the two kinds that `Set` treats differently, and among them the pair
  that does not replace each other as a whole (`Mixed`). At first the directory
  is missing, unusable, or a clone of the other remote; the second request may
  find the clone of the first. The remote asked for has no main or master, the
  other one has a main beside its default branch.

`MaxRuns`, `MaxEvents`, `MaxLate`, `MaxTime`, `LastLogin`, `MaxLogins`, `MaxRefreshes`,
`MaxHead` and `MaxChunks` are the bounds. `CHECK_DEADLOCK FALSE` stands where a
bounded number of requests or runs is all there is and the system comes to rest;
`TokenAuth`, whose slots are used again, is checked for deadlock.

### Fairness

* `Windows`, `Chunking`, `Markdown`: weak fairness of the next step; sequential
  code that nothing suspends.
* `Documents`, `AdminSettings`: weak fairness of each caller's steps: a handler
  goroutine runs on, PostgreSQL executes what it was sent or the connection
  fails, and its deadlock detector picks a victim. None of these calls has a
  deadline, so their `Answered` is about a database that answers. Nobody has to
  call and no connection has to fail.
* `TokenAuth`: weak fairness of each request's next step; it takes for granted
  that a query of the cache returns, with an error or without. The clock may
  stand still, the cache may fail or not, and nobody has to send a request.
* `Answering`: weak fairness of the steps that do not wait for the database. The
  clients of the embedding service, the reranker and the chat model have a
  timeout (30 seconds, or the configured one); `pgx.Connect` and the two
  statements (`service.go:89`, `112`, `134`) wait under the request's context,
  which has none. So `Answered` says that a question is answered unless it stays
  at the database forever.
* `Ingestion` and `RepoSync` claim no liveness and assume no fairness: go-git and
  pgx are called without a deadline by `IngestRepo`, and by the handler of
  `/api/sync`; rag-cli gives its run 30 minutes, but `BuildChunks`, which looks at
  no context, may never return (`windows_stall`).

## 4. Proofs

Every invariant and action property of the runs is a theorem here, for every
value of the constants; so are the two refinements. Each module proves an
inductive invariant `IInv` by one lemma for each action (or group of actions that
disturb the same part), and then what follows from it. TLC finds every `IInv` to
hold on the instance of that module's run.

### Windows

For every part length, size and overlap (`WindowsAssumption`: a length of at
least 1, any integers as settings):

| theorem | states |
|---|---|
| `TypeCorrect` | `Spec => []TypeOK`: the slice `tokens[start:end]` is in range |
| `NothingLost` | `Spec => []Covered` |
| `WindowShape` | `Spec => []WellCut` |
| `Progress` | `Spec => Advances`; the run `chunking` checks `GetsOn`, which has it for the whole of BuildChunks |

None of these is inductive. `IInv` adds `Frontier` (every token before the next
start is in a window), `StartFromWindow` (a start after 0 is the overlap before
the end of some window, and then the overlap is below the size) and `Behind`
(while the loop runs, no window reaches the end, and all begin before the next
one, unless the overlap keeps the start at 0). `Covered` needs `Frontier`, since
the last window covers only what lies after its own start; `NoNestedWindow`
needs `Behind`: that the loop stops at the end of the part is what keeps a tail
from being cut twice. `Progress` has the condition `overlap < step`, without
which it is false (`windows_stall`).

### Chunking and Markdown

For every file, every sequence of sections and all settings.
`ChunkingAssumption` and `MarkdownAssumption` only say of what kind the constants
are: documents are sequences of sections, sizes and overlap are integers of
either sign, files are sequences of blocks, `"fence"` is a piece, and `NoFile`
is no file.

| theorem | states |
|---|---|
| `TypeCorrect` | `MDSpec => []TypeOK`: the cursor is inside its part, the counter and the table of hashes agree with the chunks |
| `AgreesWithReference` | `MDSpec => []MatchesReference` |
| `KeysKept` | `MDSpec => []AppendKeepsKeys` |
| `TokensCounted` | `MDSpec => []Counted` |
| `EveryTokenKept` | `MDSpec => []NothingDropped` |
| `TakesFromWhatIsLeft` | `MDSpec => GetsOn` |

`IInv` says how far the walk and the four loops are, and that what is there is
what the definitions without a walk or a loop give up to that place:

* `Parsed`: while the file is walked (`Walked`), the closed sections are those
  the headings so far cut off, the last heading's is open, and the buffer holds
  what was written since its heading, or, before the first heading, all that was
  written. Afterwards the sections are `Sections`.
* `Numbered`: ids are positions, and `seen` is the set of texts of the chunks.
* `Placed`: `parts` and `sizes` are what remains of the section's parts and of
  the sorted sizes, from some element on, and a start after 0 belongs to a part
  that is longer than the window.
* `Passed`: what the loops have left behind had an end. An overlap that is not
  below a size leaves a part longer than that size without one (`Stuck`): the loop
  cuts its first window forever, which is the finding of `windows_stall`. Such a
  document never comes to `"done"`, and `MatchesReference` says nothing of it;
  that is all it leaves out, and `GetsOn` names the same case (`Endless`).
* `Kept`: the texts are the first occurrences of what was due up to the cursor:
  the table of contents, the sections left behind, and of the open one its
  heading, its parts and sizes so far and the first windows under this size.

None of `MatchesReference`, `AppendKeepsKeys` and `NothingDropped` says anything
of the time between two windows, and so none is inductive. One lemma for each
action shows that it moves the cursor and what is due alike. `TokensCounted` adds
that trimming blank lines loses no token (`TokensTrimmed`). `EveryTokenKept` goes
from the texts that were due to the tokens: every token is in some window of a
size (`TokenInWindow`), sorting loses no size (`SortedHas`), and a text dropped
as seen is one that is stored. `TakesFromWhatIsLeft` is by the lexicographic
measure `Remaining`: a lemma for each step says which component it lowers, the
innermost being the tokens that follow the next start.

The operators fold over sequences, and what a fold gives for all of them takes
induction. Instead of the library's theorems, which take an operator, two
lemmas state it for a set (`Inductive`, and `Along` for an interval), proved
from the well-foundedness of `<`; each use takes the set of numbers for which
the claim holds. A recursive function is known to its definition only once there
is one: `Recursion` shows it from that induction, `FlatExists` and
`WrittenExists` for the two that are used. `InOrder` and `Sorted` are written
with CHOOSE and Cardinality, since tlapm does not expand SelectSeq and SortSeq.

### Documents

For any number of callers, any batches and any database they find
(`DocumentAssumption` and `DimAssumption`: batches are sequences of rows, a
dimension is a natural number, and `NoRow` is no row):

| theorem | states |
|---|---|
| `TypeCorrect` | `Spec => []TypeOK`: locks and uncommitted rows only inside a transaction |
| `SchemaFirst` | `Spec => []SchemaBeforeRows` |
| `NoMixture` | `Spec => []EmbeddingsFit`: `OneDimension` and `EmbeddingOfContent` |
| `Implements` | `Spec => Refines`: a batch takes effect at one instant or never |

`IInv` has these parts of its own. `Callers`: a call in progress carries rows, so
its first row exists when `EnsureSchema` is over. `StatementsDone`: the objects
of all earlier statements exist, whoever created them; objects are never
dropped, which gives `SchemaBeforeRows` at the last statement. `Dimensions`:
rows exist only after the column, and have its dimension; it is stronger than
`OneDimension`, which says nothing when there is no caller, and it is why the
creation of the table, the only step that sets the dimension, finds no rows.
`Origins`: pending rows come from the transaction's own batch, which is what a
commit needs for `EmbeddingOfContent`.

The refinement needs `RInv`. `Exclusive`: no two transactions have locked the
same key, and one has locked the keys of all rows it has done, those it did not
have to write included. `Prefixes`: what a transaction sees of the table is the
committed table with the rows it has done applied, and its count is their
`ChangeCount`. The second is kept when another transaction commits, because that
changes only keys it has locked itself: this is where ON CONFLICT's lock on a row
that stays the same matters. At the commit the rows done are the whole batch, so
the step is the abstract `Apply`; every other step is the caller's end or a
stutter.

### Ingestion

For any files, contents, limits, programs and number of runs
(`IngestionAssumption`: contents are sequences of at most `MaxChunks` hashes, an
empty file is one of them, files have an order):

| theorem | states |
|---|---|
| `TypeCorrect` | `Spec => []TypeOK`: the loop has left just the first of the files it listed |
| `NothingMadeUp` | `Spec => []RowsSound` |
| `CountsChanges` | `Spec => []CountIsReal` |
| `ListedFilesStored` | `Spec => []StoredOrFailed` |
| `OldOnlyLate` | `Spec => OldRowsComeLate` |

`InHand` is the heart of it: the rows in hand, and every batch that this run gave
up and that may still be applied, are exactly the rows of a file as the working
copy has it; those of earlier runs are the rows of a file as it once was. From it
follow `OldRowsComeLate`, and with `Remembered` (the working copy holds versions
its files had) `RowsSound`. `AllKept` says of the files the loop has left what
`StoredOrFailed` says at the end; a late batch of one file does not disturb
another, having no key in common, one of the same run and file puts there what is
there, and the keys that one of an earlier run changes are `overtaken`.
`StoringIsServing` is why a server that has stored a batch keeps the later
ones: its service was constructed with a database and is never constructed
again. `Counted` is `CountIsReal` while the run goes on; that `ChangeCount` of a
batch is the number of keys it changes is a lemma (`RowsOfCount`), which needs
that the chunks of a file have different keys.

### AdminSettings

For any number of requests, overlapping in any way, with any matrices
(`AdminAssumption`: bodies and initial tables are finite, versions are natural
numbers, "" is no module, and no save is called `Initially`):

| theorem | states |
|---|---|
| `TypeCorrect` | `Spec => []TypeOK` |
| `SavesAreAtomic` | `Spec => []SavesAreWhole`: `AllOrNothing` and `NoTraceOfFailures` |
| `SavesReplace` | `Spec => ReplacesWhatItSaw` |
| `VersionedWithoutOverlap` | `Spec => Refines`: without overlap, a `VersionedMatrix` |

`AllWhole`: of each save the table, and each set of rows that some DELETE saw or
removes, has all rows or none. A commit removes what its DELETE locked, so the
saves in there must be whole for those that stay to be. `CellsApart`: what two
transactions delete and insert has no cell in common, nor do a transaction's new
rows with rows it does not delete; that is what the unique index gives, and why
a commit leaves each cell once. `Seen`: what a DELETE saw and is still there is
locked by it. `Once`: the cells that are still to be inserted are listed once.
`Unheard`: a save whose COMMIT may still take effect was answered 500.
For the refinement, `Asked` says what is known of a request in each phase, and
`Alone` that, as long as nothing overlapped, one request is under way at most and
its snapshot is the table: the version it compared is the version it replaces.
One that lost the answer to its COMMIT counts as under way until the server has
made up its mind, which is `Settle` of `VersionedMatrix`.

### TokenAuth

For any number of requests at a time, any lifetimes, delays, logins and restarts
(`AuthAssumption`: lifetimes are positive, "user" is a role, and what others
sign, with any secret, goes back to no login):

| theorem | states |
|---|---|
| `TypeCorrect` | `Spec => []TypeOK`: a lifetime that is written is positive |
| `CachedAnswersAgree` | `Spec => CacheAgrees` |
| `LoginsEnd` | `Spec => SessionEnds` |
| `LoginRolesEnd` | `Spec => RolesEnd` |

`EntriesSound`: a cached token is one that validation accepts, and its entry ends
by the token's expiry and a delay, and by the configured lifetime from now.
`FoundOut` carries that through the steps of a request: in its write phase the
lifetime, counted from when it was computed, ends by the token's expiry, and the
clock has gone on by a delay at most; when it signs, its refresh token had not
expired a delay ago. `AllGenuine`: an access token of a login was signed either
with it or before its refresh token expired (and a delay), and then it has the
role "user" only. That an access token cannot refresh itself, though both
secrets may be the same, is a matter of the claims alone (the uses in
`Refreshable`). `LoginsEnd` and `LoginRolesEnd` are about what `TokenService`
issues; they do not keep anybody from signing tokens of their own (section 5).

### RepoSync

For any requests, remotes and directories, and any proxies of the server and of
the repository (`RepoSyncAssumption`: types only):

| theorem | states |
|---|---|
| `TypeCorrect` | `Spec => []TypeOK` |
| `ScopedProxy` | `Spec => []ProxyScoped` |
| `FreshWhenSynced` | `Spec => SyncedIsFresh` |

`Proxied` describes a call of `With` that is alone in its time: what it saved is
what `main` set (`Saved`); the transport is its own proxy's or, when `initRAG`
came in between, the server's (`Transport`); what `initRAG` has yet to install is
the server's too (`Late`), so it may do so when the call has ended. The proof of
`Late` failed for one pair of proxies, and TLC then found the trace: a server
with an http proxy, a repository with a socks proxy. `Set` clones the transport
of the moment, and for an http proxy it leaves the dialer alone; so in the middle
of the call `initRAG` builds a transport with the server's proxy over the
repository's socks dialer, and if it installs the protocols after `With` has put
the old ones back, git goes on through both. `ProxyScoped` had claimed otherwise,
with an instance in which the server had no proxy, or one of the same kind. It
now names the exception (`Mixed`), holds for every other pair, and is checked
with this one.

`Sound` is about a request that is alone in its directory: what it fetched is not
older than the request, and the directory is a clone of the url asked for or of
the url it was a clone of before: that it need not be the former is
`sync_other_remote`. `Marked` says that a request not in `shared` is
alone indeed, and `NotAhead` that no arrival is ahead of its remote.

### Answering

For any number of questions at a time, any files, scores and limits, and any
writes and edits (`AnsweringAssumption`: scores are integers, and the keys are
finitely many, as the rows of a table are, for ORDER BY and LIMIT mean nothing
otherwise):

| theorem | states |
|---|---|
| `TypeCorrect` | `Spec => []TypeOK`: three attempts at an embedding, four at the chat model |
| `StoredChunks` | `Spec => []ChunksWereStored` |
| `BestComeFirst` | `Spec => []BestFirst` |
| `EnoughAsked` | `Spec => []AskedEnough` |

`ReadSoundly`: the rows of each statement are of different keys, and were stored
since the question came. `ChunksFound`: the merge takes each key once from what
was read. `Candidates` and `Handed` follow the order from the merge through the
cut and the reranker: a sequence in order is still in order after a cut, what is
cut off is no better than what stays, and keys are left out only of a full list.
`Served`: the service does not change while it searches, nor while there are
chunks, so the merge and the limits are those of one configuration. `Asked` is
what `AskedEnough` says, of the file as it was when the question came to
`callLLM`, and `Attempts` counts up to it.

### What stays with TLC

* Liveness: `Windows!Terminates` and `Markdown!Terminates`, `Answered` of
  `Documents`, `AdminSettings`, `TokenAuth` and `Answering`. They
  rest on fairness, and so on ENABLED, which the provers do not have. Of
  `Markdown!Terminates` the half without fairness is proved: `GetsOn`, that no
  run goes on forever unless a window is not above the overlap.
* What the four runs with violations show are counterexamples.

## 5. Where the code disagrees with what is said of it

Shown by a run:

1. `windows_stall`: `BuildChunks` does not return when a part is longer than a
   window that is not above the overlap. `max_tokens: 64` alone is enough, since
   the overlap then defaults to 80.
2. `admin_merge`: `SaveAdminSettings` "replaces the permission matrix if the
   provided version matches"; two overlapping saves both succeed and leave the
   union of their cells.
3. `proxy_overlap`: `With` "restores previous settings afterwards"; of two
   overlapping calls the second restores the first one's.
4. `sync_other_remote`: `SyncRepo` "ensures the repository at workdir matches the
   remote url" (`sync.go:12`); a directory that is a clone already is fetched from
   the remote it was cloned from, whatever url the call names.

Seen while modelling, and built into the models as the code has it:

* `DATABASE_URL` "overrides Postgres DSN" (`docs/usage/config.md:145`, and a
  remedy for an empty answer in `docs/operations/troubleshooting.md:22`): `main`
  puts it into its own reading of the file; the RAG service reads the file again
  and never sees it. Without a database in the file, searches find nothing and
  upserts store nothing, both with 200 (`NothingToSearch`, `Serving`).
* `CHUTES_API_TOKEN` overrides a setting (`docs/usage/config.md:147`): `callLLM`'s
  `loadConfig` reads it nowhere. And `server/config/server.yaml`, where it is
  there, overrides `CHUTES_API_URL` from the environment (`SetEnvironment`).
* `models` "can be a single string or a list" (`docs/usage/config.md:124`):
  `loadConfig` of `api/askai.go` has `[]string`, and one string makes the whole
  file count for nothing there (`single` in `LoadConfig`).
* `ParseMarkdown` "preserves code fences" (`markdown.go:19`): it drops fenced
  code and fences indented code. It writes nothing between two paragraphs, so
  `by_paragraph`, which splits at blank lines, seldom finds one.
* An empty matrix: the save is answered with version v + 1, and the next read
  with 0, for no row is left to carry it, while a test expects the version that
  was answered (`api/admin_settings_test.go:87`, with cells). A conflict carries
  the current matrix (`docs/api/endpoints.md:150`) only if a second read, outside
  the transaction, succeeds (`RereadFails`).
* `SyncRepo` resets to "origin/HEAD" (`sync.go:37`), which a clone by go-git does
  not have: a fetch resets to `main` or `master`, whatever the clone had checked
  out. A remote without either is cloned anew each time.
* `EnsureSchema` ignores its `migrate` flag (`store.go:26`, `_ bool`); the comment
  at `internal/rag/service.go:42` says the dimension can be updated. The column
  keeps its first dimension and refuses rows of another (`PutRowFails`).
* The configuration guide says that "JWT verification uses internal secrets"
  (`docs/usage/config.md:103`): `main.go:152` gives `TokenService` no secret, and
  the configuration has no field for one (`config/config.go:163`). Both secrets are
  the empty one, which is nobody's secret: tokens signed elsewhere, with any role,
  validate too. `Foreign` has such tokens.
* `rag-cli` "logs embedding and upsert counts" (`docs/appendix/faq.md:13`): it logs
  the number of chunks it sent, looking at the status of the answer only, also of
  a file that a server without a database answered with 200 and `rows` 0
  (`unserved`).
* Not every file that is lost is reported. `ListMarkdown` returns nil for each
  error of the walk (`walk.go:24`), so a file it cannot look at is in no list
  (`Sync`); `IngestRepo` appends errors that need not name the file, and
  `cmd/ingest` prints none of them, nor how many there are (`failed`).
* A save of the admin settings answered 500 may have replaced the matrix:
  `Transaction` returns the error of a COMMIT whose answer was lost
  (`CommitLate`).
* `rag-cli` sends no `X-Service-Token`, which `api/register.go` asks for on all of
  `/api`: used as in `docs/getting-started/quickstart.md:64`, every file is
  refused with 401 (`PostRefused`). `Post` is about a server behind something
  that adds the header.
* `main.go` installs the token middleware and CORS with `Use` after the routes of
  `/api` were registered, and gin gives a middleware to routes registered later.
  `TokenAuth` is about requests on routes that have it.

## 6. What the models leave out, and what they assume

* PostgreSQL, go-git, the embedding services and the chat model are modelled
  from how the code uses them. Embedding services are taken to answer in the
  order of the texts: the `index` field of their answers is not read.
* `Chunking` and `Markdown`: a line of nothing but spaces is not modelled; the code
  splits paragraphs at `"\n\n"` only (`chunk.go:144`) and would not split there. A
  heading is one line: of one underlined under several lines the code takes all
  of its text (`markdown.go:42`).
* `Documents`: a server without a configuration or a database answers an upsert
  before it connects (`service.go:28-34`); that is `Serving` of `Ingestion`.
* `Documents`: a text that stays the same keeps the vector of the old embedding
  model. That is what the code does; `Ingestion` has one model.
* `Ingestion`: one datasource. With several, rag-cli goes on to the next when one
  cannot be synced and fails in the end; and `ingestFile` takes the first
  datasource whose directory is a prefix of the file's path, so a file of
  `docs-v2` is stored under the repository of a `docs` listed before it.
  `bge.go` accepts `[]` for no vectors, and the program dies (`EmbedPanics`).
  Chunks of a file that has become shorter stay in the table, beside the others:
  `RowsSound` says they are chunks the file had, not that it still has them.
  `StoredOrFailed` is about files the run listed, and leaves out keys that a batch
  of an earlier run has taken back meanwhile: nothing in the code keeps that batch
  from arriving, and the next run repairs it. That a run ends is not claimed.
* `Answering`: `/askai` reads `ragSvc` without the mutex; a data race with the
  construction has the two outcomes of seeing a service or none. `callLLM` reads
  the file once more to word an error; that is not modelled. `BestFirst` compares
  with the rows that were read: a statement that fails after some rows passes for
  a short result.
* `AdminSettings`: the in-memory store of the tests does not overlap
  transactions; the model is PostgreSQL's READ COMMITTED. A COMMIT whose answer is
  lost takes effect or not, at any later time.
* `RepoSync`: `SyncedIsFresh` is about requests that were alone in their
  directory; `ProxyScoped` about times when no two calls of `With` overlapped, and
  `initRAG` did not mix its proxy with a call's (`Mixed`).
  The file's proxy is the same at the start and when `initRAG` reads it. A
  concurrent write to the Go map of protocols can also crash the process; the
  model has the two orders of the writes only. Branches that the remote renamed
  or deleted after the clone are not modelled, nor the contents of commits.
* `TokenAuth`: `WithAuth` and `HealthCheckHandler` are not modelled; the first is
  not used and the second answers what a remote service says. `SessionEnds` and
  `RolesEnd` are about the tokens of logins, which `TokenService` signed. Tokens that
  others signed without an expiry are not modelled: `CacheAgrees` says nothing of
  those. A restart keeps the secrets and the configured lifetime.

### Not modelled

* The server's assembly beyond what the modules name: log levels, addresses,
  timeouts, CORS headers. It runs once, before requests.
* Reading YAML and expanding variables, settings that only name addresses and
  credentials, `ResolveServerURL`: functions of their input without a step that
  could interleave, and strings character by character.
* Lists of users and nodes: one SELECT without a condition, and constants.
* The benchmark: sequential, offline, floating point.
* Stubs: packages without code.
* Wording of prompts and answers, logging, formats of requests.

## 7. Plan

Done: the core (`Windows`, `Chunking`, `Documents`), the components around it,
what they read of the configuration, their runs, and the proofs of every
invariant and action property of these runs, with the refinements of
`DocumentTable` and `VersionedMatrix`.

What could be added: that `Chunking` without repeated texts implements `Windows`
for each part and size. `NothingLost` and `WindowShape` would then hold of each
window `BuildChunks` cuts; of the document as a whole `NothingDropped` and
`MatchesReference` say it already.
