------------------------------ MODULE Ingestion ------------------------------
(***************************************************************************)
(* Ingesting the markdown files of a datasource, again and again while the *)
(* repository changes, by either program: IngestRepo                       *)
(* (internal/rag/ingest/ingest.go), which writes to the database itself,   *)
(* or rag-cli (cmd/rag-cli/main.go), which posts each file's rows to the   *)
(* server and sends them again when no answer comes.                       *)
(*                                                                         *)
(* What a batch of rows does to the table is that of DocumentTable, which  *)
(* Documents implements: all of it takes effect at one instant, and an     *)
(* error leaves open whether it did, or still will, even while later runs  *)
(* are under way.                                                          *)
(***************************************************************************)
EXTENDS Integers, Sequences, FiniteSetsExt, SequencesExt

CONSTANTS Files,      \* the files of the repository, in the order of WalkDir
          Included,   \* those whose extension and directory are not excluded
          Shas,       \* hashes of chunk texts
          Contents,   \* the chunks a file can have, as sequences of Shas
          MaxChunks,  \* bound on their length
          NoFile, NoRow,
          ConfigFiles, \* what the server's configuration may be: subset of
                      \* {"none", "bare", "db"}; "bare" names no database
          Programs,   \* <<driver, embedder, configFile>>: "ingest" or "rag-cli";
                      \* "batch" (openai, chutes), "bge" or "ollama"; what it is at first
          Limits,     \* values of -max-files, 0 for no limit
          MaxRuns, MaxEvents, MaxLate   \* bounds, for model checking

FileSet == ToSet(Files)
Keys == FileSet \X (0 .. MaxChunks - 1)
(* Of the files that are never looked at only the presence matters. *)
Repositories ==
    {r \in [FileSet -> Contents \cup {NoFile}] : \A f \in FileSet \ Included : r[f] = <<>>}

NoCheckout == [f \in FileSet |-> NoFile]

(* A chunk's vector is represented by the hash of the text it was computed *)
(* from, so a row's sha and vec agree when the row is sound.               *)
INSTANCE DocumentRows WITH Conns <- {}, Vectors <- Shas, Batches <- {}

ASSUME IngestionAssumption ==
    /\ Files \in Seq(FileSet) /\ Included \subseteq FileSet
    /\ MaxChunks \in Nat
    /\ <<>> \in Contents /\ Contents \subseteq Seq(Shas) /\ \A c \in Contents : Len(c) <= MaxChunks
    /\ NoFile \notin Contents /\ NoRow \notin Stored
    /\ ConfigFiles \subseteq {"none", "bare", "db"}
    /\ Programs \subseteq {"ingest", "rag-cli"} \X {"batch", "bge", "ollama"} \X ConfigFiles
    /\ Limits \subseteq Nat

VARIABLES driver, embedder, \* which program runs, and with what
          configFile, \* the server's configuration, "none" if it cannot be read
          ragSvc,     \* the one its RAG service was constructed from, "none" before
          remote,     \* the repository
          checkout,   \* the working copy
          table,      \* the documents table
          inflight,   \* batches given up on that may still take effect, each
                      \* with the run and the attempt it was sent by
          dry, limit, \* the options of the run
          listed,     \* the files the run has to do, by their place in the walk
          pc, todo,   \* where the run is, and those of them that remain
          rows,       \* the rows of the current file
          attempt,    \* how often they were posted
          connected,  \* whether the run's database connection works
          upserted,   \* Stats.RowsUpserted
          outcome     \* "none" | "finished" | "aborted"
VARIABLES failed,         \* files the run left because of an error
          changes,        \* rows of the table its own batches changed
          overtaken,      \* keys that a batch of an earlier run changed since
          versions,       \* what each file ever was
          storing,        \* whether the server stored anything since it started
          unserved,       \* files answered with rows 0 by one that had not
          runs, events   \* bounds; events are what Push and Upset do

config == <<driver, embedder>>
server == <<configFile, ragSvc, storing, unserved>>
repository == <<remote, versions>>
options == <<dry, limit>>
stats == <<failed, upserted>>
effects == <<changes, overtaken>>
bounds == <<runs, events>>
vars == <<config, server, repository, checkout, table, inflight, options, listed, pc, todo,
          rows, attempt, connected, stats, outcome, effects, bounds>>

Init ==
    /\ \E program \in Programs :
        driver = program[1] /\ embedder = program[2] /\ configFile = program[3]
    /\ ragSvc = "none" /\ storing = FALSE /\ unserved = {}
    /\ remote \in Repositories /\ versions = [f \in FileSet |-> {remote[f]} \ {NoFile}]
    /\ checkout = NoCheckout
    /\ table = [k \in Keys |-> NoRow]
    /\ inflight = {} /\ rows = <<>> /\ attempt = 0 /\ connected = FALSE
    /\ dry = FALSE /\ limit = 0 /\ pc = "idle" /\ listed = {} /\ todo = {}
    /\ failed = {} /\ upserted = 0 /\ outcome = "none" /\ changes = 0 /\ overtaken = {}
    /\ runs = 0 /\ events = 0

-----------------------------------------------------------------------------
(* Somebody pushes to the repository. *)
Push ==
    /\ events < MaxEvents
    /\ \E f \in Included, c \in Contents \cup {NoFile} :
        /\ c # remote[f]
        /\ remote' = [remote EXCEPT ![f] = c]
        /\ versions' = [versions EXCEPT ![f] = @ \cup ({c} \ {NoFile})]
    /\ events' = events + 1
    /\ UNCHANGED <<config, server, checkout, table, inflight, options, listed, pc, todo,
                   rows, attempt, connected, stats, outcome, effects, runs>>

(* Somebody edits the server's configuration, or the server restarts. *)
Upset ==
    /\ driver = "rag-cli" /\ events < MaxEvents /\ events' = events + 1
    /\ \/ /\ configFile' \in ConfigFiles \ {configFile}
          /\ UNCHANGED <<ragSvc, storing>>
       \/ ragSvc' = "none" /\ storing' = FALSE /\ UNCHANGED configFile
    /\ UNCHANGED <<config, unserved, repository, checkout, table, inflight, options, listed, pc,
                   todo, rows, attempt, connected, stats, outcome, effects, runs>>

(* A run begins, whatever an earlier one left with the database. *)
Start ==
    /\ pc = "idle" /\ runs < MaxRuns
    /\ dry' \in IF driver = "ingest" THEN BOOLEAN ELSE {FALSE}
    /\ limit' \in IF driver = "ingest" THEN Limits ELSE {0}
    /\ pc' = "sync" /\ outcome' = "none" /\ runs' = runs + 1
    /\ failed' = {} /\ unserved' = {} /\ upserted' = 0 /\ changes' = 0 /\ overtaken' = {}
    /\ listed' = {}
    /\ UNCHANGED <<config, configFile, ragSvc, storing, repository, checkout, table, inflight,
                   todo, rows, attempt, connected, events>>

(* The markdown files of a repository, by their place in the walk. *)
Markdowns(repo) == {i \in DOMAIN Files : Files[i] \in Included /\ repo[Files[i]] # NoFile}

(* ListMarkdown: the first of the walk, as many as the limit allows, each  *)
(* by its place in it.  The walk passes over what it cannot look at.       *)
Listing(repo, n, seen) ==
    LET found == seen \cap Markdowns(repo)
    IN  IF n = 0 THEN found
        ELSE {i \in found : Cardinality({j \in found : j < i}) < n}

(* The run is over; its connection and what it had in memory are gone. *)
End(how) ==
    /\ pc' = "idle" /\ outcome' = how
    /\ todo' = {} /\ rows' = <<>> /\ attempt' = 0 /\ connected' = FALSE

(* SyncRepo, then ListMarkdown. *)
Sync ==
    /\ pc = "sync"
    /\ checkout' = remote
    /\ \E seen \in SUBSET DOMAIN Files : listed' = Listing(remote, limit, seen)
    /\ todo' = listed'
    /\ pc' = IF driver = "ingest" THEN "connect" ELSE "file"
    /\ UNCHANGED <<config, server, repository, table, inflight, options, rows, attempt, connected,
                   stats, outcome, effects, bounds>>

(* Both attempts failed; the working copy was removed, unless that failed. *)
SyncFails ==
    /\ pc = "sync"
    /\ checkout' \in {checkout, NoCheckout}
    /\ End("aborted")
    /\ UNCHANGED <<config, server, repository, table, inflight, options, listed, stats, effects,
                   bounds>>

(* IngestRepo connects to the database and runs EnsureSchema. *)
Connect ==
    /\ pc = "connect"
    /\ connected' = TRUE
    /\ pc' = "file"
    /\ UNCHANGED <<config, server, repository, checkout, table, inflight, options, listed, todo,
                   rows, attempt, stats, outcome, effects, bounds>>

ConnectFails ==
    /\ pc = "connect"
    /\ End("aborted")
    /\ UNCHANGED <<config, server, repository, checkout, table, inflight, options, listed, stats,
                   effects, bounds>>

-----------------------------------------------------------------------------
(* The file the loop is at. *)
Current == Files[Min(todo)]

(* On to the next file. *)
NextFile ==
    /\ pc' = "file" /\ todo' = todo \ {Min(todo)}
    /\ rows' = <<>> /\ attempt' = 0

(* An error: appended to Stats.Errors, which need not name the file and     *)
(* which cmd/ingest does not print, or logged; and the file is left.       *)
Skip ==
    /\ NextFile
    /\ failed' = failed \cup {Current}

(* The rows of a file of that content: BuildChunks numbers its chunks      *)
(* from 0.  A bug: they are numbered from 1 (up to the bound). *)
RowsOf_FromOne(f, content) ==
    [i \in DOMAIN content |->
        [key |-> <<f, i % MaxChunks>>, sha |-> content[i], vec |-> content[i]]]
RowsOf(f, content) ==
    [i \in DOMAIN content |-> [key |-> <<f, i - 1>>, sha |-> content[i], vec |-> content[i]]]
CurrentRows == RowsOf(Current, checkout[Current])

(* ParseMarkdown and BuildChunks.  A file without chunks has nothing to    *)
(* embed; rag-cli sends its empty list all the same.                       *)
Parse ==
    /\ pc = "file" /\ todo # {}
    /\ IF CurrentRows = <<>> /\ driver = "ingest" THEN NextFile
       ELSE /\ rows' = CurrentRows
            /\ pc' = "embed"
            /\ UNCHANGED <<todo, attempt>>
    /\ UNCHANGED <<config, server, repository, checkout, table, inflight, options, listed,
                   connected, stats, outcome, effects, bounds>>

(* The file cannot be read. *)
ParseFails ==
    /\ pc = "file" /\ todo # {}
    /\ Skip
    /\ UNCHANGED <<config, server, repository, checkout, table, inflight, options, listed,
                   connected, upserted, outcome, effects, bounds>>

(* bge.go and ollama.go ask for the texts one at a time. *)
OneByOne == embedder \in {"bge", "ollama"}

(* What an embedding service may answer to the texts of the rows: their    *)
(* vectors, or (when it drops a text or answers one twice) one less or one *)
(* more than was asked for.                                                *)
Answers ==
    LET vecs == [i \in DOMAIN rows |-> rows[i].sha]
    IN  IF rows = <<>> \/ OneByOne THEN {vecs}
        ELSE {vecs, Tail(vecs), <<Head(vecs)>> \o vecs}

(* openai.go and chutes.go compare the numbers.                            *)
(* A bug: the numbers are not compared. *)
Accepts_Any(vecs) == Len(vecs) >= Len(rows)
Accepts(vecs) == Len(vecs) = Len(rows)

Embed ==
    /\ pc = "embed"
    /\ \E vecs \in Answers :
        /\ Accepts(vecs)
        /\ rows' = [i \in DOMAIN rows |-> [rows[i] EXCEPT !.vec = vecs[i]]]
    /\ pc' = "store"
    /\ UNCHANGED <<config, server, repository, checkout, table, inflight, options, listed, todo,
                   attempt, connected, stats, outcome, effects, bounds>>

(* No answer, an error status, or the wrong number of vectors. *)
EmbedFails ==
    /\ pc = "embed"
    /\ Skip
    /\ UNCHANGED <<config, server, repository, checkout, table, inflight, options, listed,
                   connected, upserted, outcome, effects, bounds>>

(* bge.go takes "[]" for no vectors and no error: vecs[i] is out of range  *)
(* and the program dies.                                                   *)
EmbedPanics ==
    /\ pc = "embed" /\ embedder = "bge" /\ rows # <<>>
    /\ End("aborted")
    /\ UNCHANGED <<config, server, repository, checkout, table, inflight, options, listed, stats,
                   effects, bounds>>

-----------------------------------------------------------------------------
(* A batch of the last run takes effect. *)
TakeEffect(batch) ==
    /\ table' = Applied(table, batch, Len(batch))
    /\ changes' = changes + Cardinality({k \in Keys : table'[k] # table[k]})
    /\ overtaken' = overtaken \ {batch[i].key : i \in DOMAIN batch}

(* One that an earlier run gave up does, late. *)
TakeBack(batch) ==
    /\ table' = Applied(table, batch, Len(batch))
    /\ changes' = changes
    /\ overtaken' = overtaken \cup {k \in Keys : table'[k] # table[k]}

(* Nobody waits any more for the batch in hand, one of MaxLate at most. *)
GiveUp ==
    /\ Cardinality(inflight) < MaxLate
    /\ inflight' = inflight \cup {[rows |-> rows, run |-> runs, attempt |-> attempt]}

(* The rest of IngestRepo's loop: -dry-run, then UpsertDocuments. *)
DryRun ==
    /\ pc = "store" /\ driver = "ingest" /\ dry
    /\ NextFile
    /\ UNCHANGED <<config, server, repository, checkout, table, inflight, options, listed,
                   connected, stats, outcome, effects, bounds>>

Upsert ==
    /\ pc = "store" /\ driver = "ingest" /\ ~dry /\ connected
    /\ TakeEffect(rows)
    /\ upserted' = upserted + ChangeCount(table, rows, Len(rows))
    /\ NextFile
    /\ UNCHANGED <<config, server, repository, checkout, inflight, options, listed, connected,
                   failed, outcome, bounds>>

(* A statement fails, which rolls the batch back; or the connection is     *)
(* lost, and with it all later upserts of the run, while the server may    *)
(* still go on with what it received.                                      *)
UpsertFails ==
    /\ pc = "store" /\ driver = "ingest" /\ ~dry
    /\ \/ UNCHANGED <<connected, inflight>>
       \/ /\ connected
          /\ connected' = FALSE
          /\ GiveUp
    /\ Skip
    /\ UNCHANGED <<config, server, repository, checkout, table, options, listed, upserted,
                   outcome, effects, bounds>>

-----------------------------------------------------------------------------
(* getRAG, as a request comes: the service there is, or one constructed    *)
(* from the configuration file of the moment; without one, none.           *)
(* A bug: the file is read for every request. *)
Serving_Reread == configFile
Serving == IF ragSvc = "none" THEN configFile ELSE ragSvc

Reached ==
    /\ ragSvc' = Serving
    /\ storing' = (storing \/ Serving = "db")

(* ingestFile's post to /api/rag/upsert, answered with 200, once something *)
(* on the way adds the X-Service-Token that rag-cli does not send.         *)
(* A server that finds no configuration answers that too, and stores       *)
(* nothing; nor does one whose configuration names no database.            *)
Post ==
    /\ pc = "store" /\ driver = "rag-cli"
    /\ Reached
    /\ IF Serving = "db" THEN TakeEffect(rows) ELSE UNCHANGED <<table, effects>>
    /\ unserved' = IF Serving = "db" \/ storing THEN unserved ELSE unserved \cup {Current}
    /\ NextFile
    /\ UNCHANGED <<config, configFile, repository, checkout, inflight, options, listed,
                   connected, stats, outcome, bounds>>

(* What the server may leave behind when the caller is not told of success:*)
(* nothing; the batch, applied; or the batch on its way.                   *)
Aftermath ==
    \/ UNCHANGED <<ragSvc, storing, table, effects, inflight>>
    \/ Reached /\ UNCHANGED <<table, effects, inflight>>
    \/ Reached /\ Serving = "db" /\ TakeEffect(rows) /\ UNCHANGED inflight
    \/ /\ Reached /\ Serving = "db" /\ UNCHANGED <<table, effects>>
       /\ GiveUp

(* Another status: the file is given up. *)
PostRefused ==
    /\ pc = "store" /\ driver = "rag-cli"
    /\ Aftermath
    /\ Skip
    /\ UNCHANGED <<config, configFile, unserved, repository, checkout, options, listed,
                   connected, upserted, outcome, bounds>>

(* No answer: the same rows are posted again, three times in all. *)
(* A bug: the attempts are not counted. *)
LastAttempt_Never == FALSE
LastAttempt == attempt = 2

PostUnanswered ==
    /\ pc = "store" /\ driver = "rag-cli"
    /\ Aftermath
    /\ IF LastAttempt THEN Skip
       ELSE /\ attempt' = attempt + 1
            /\ UNCHANGED <<pc, todo, rows, failed>>
    /\ UNCHANGED <<config, configFile, unserved, repository, checkout, options, listed,
                   connected, upserted, outcome, bounds>>

-----------------------------------------------------------------------------
(* A batch nobody waits for any more takes effect, or is rolled back. *)
Settle ==
    /\ \E b \in inflight :
        /\ inflight' = inflight \ {b}
        /\ \/ IF b.run = runs THEN TakeEffect(b.rows) ELSE TakeBack(b.rows)
           \/ UNCHANGED <<table, effects>>
    /\ UNCHANGED <<config, server, repository, checkout, options, listed, pc, todo, rows,
                   attempt, connected, stats, outcome, bounds>>

Finish ==
    /\ pc = "file" /\ todo = {}
    /\ End("finished")
    /\ UNCHANGED <<config, server, repository, checkout, table, inflight, options, listed, stats,
                   effects, bounds>>

(* The program is killed. *)
Crash ==
    /\ pc # "idle"
    /\ End("aborted")
    /\ \/ UNCHANGED <<ragSvc, storing, inflight>>
       \/ /\ pc = "store" /\ ~dry
          /\ IF driver = "rag-cli" THEN Reached ELSE UNCHANGED <<ragSvc, storing>>
          /\ IF driver = "rag-cli" THEN Serving = "db" ELSE connected
          /\ GiveUp
    /\ UNCHANGED <<config, configFile, unserved, repository, checkout, table, options, listed,
                   stats, effects, bounds>>

Step ==
    \/ Sync \/ SyncFails \/ Connect \/ ConnectFails \/ Parse \/ ParseFails
    \/ Embed \/ EmbedFails \/ EmbedPanics \/ DryRun \/ Upsert \/ UpsertFails
    \/ Post \/ PostRefused \/ PostUnanswered \/ Finish

Next == Step \/ Start \/ Push \/ Upset \/ Settle \/ Crash

Spec == Init /\ [][Next]_vars

-----------------------------------------------------------------------------
Listed == {Files[i] : i \in listed}
Chunks(f) == IF checkout[f] = NoFile THEN {} ELSE DOMAIN checkout[f]

(* What each variable holds; a run works through what it listed, in order, *)
(* sends a batch of its own only once it has synchronized, and only        *)
(* IngestRepo keeps a connection.                                          *)
TypeOK ==
    /\ <<driver, embedder>> \in {"ingest", "rag-cli"} \X {"batch", "bge", "ollama"}
    /\ {configFile, ragSvc} \subseteq ConfigFiles \cup {"none"} /\ storing \in BOOLEAN
    /\ remote \in Repositories /\ checkout \in Repositories \cup {NoCheckout}
    /\ versions \in [FileSet -> SUBSET Contents]
    /\ table \in Tables /\ rows \in Seq(Rows)
    /\ \A b \in inflight : b.rows \in Seq(Rows) /\ b.run \in 0 .. runs /\ b.attempt \in 0 .. 2
    /\ pc = "sync" => \A b \in inflight : b.run < runs
    /\ dry \in BOOLEAN /\ limit \in Nat /\ runs \in Nat
    /\ pc \in {"idle", "sync", "connect", "file", "embed", "store"}
    /\ attempt \in 0 .. 2
    /\ failed \subseteq FileSet /\ unserved \subseteq FileSet
    /\ {upserted, changes} \subseteq Nat /\ overtaken \subseteq Keys
    /\ outcome \in {"none", "finished", "aborted"}
    /\ pc = "sync" => listed = {}
    /\ pc \notin {"idle", "sync"} \/ outcome = "finished" => listed \subseteq Markdowns(checkout)
    /\ pc \in {"idle", "sync"} => todo = {}
    /\ todo \subseteq listed
    /\ \A i \in todo, j \in listed : i < j => j \in todo
    /\ pc \in {"embed", "store"} => todo # {}
    /\ connected \in BOOLEAN
    /\ pc = "connect" => driver = "ingest"
    /\ connected => driver = "ingest" /\ pc \notin {"idle", "sync", "connect"}

(* The chunks of f are stored as they are in the working copy, those apart *)
(* that a batch of an earlier run has taken back since this one began.     *)
Kept(f) ==
    \A i \in Chunks(f) : <<f, i - 1>> \notin overtaken =>
        table[<<f, i - 1>>] # NoRow /\ table[<<f, i - 1>>].sha = checkout[f][i]

(* After a run that went through, each file that it listed and at which it *)
(* met no error is stored: retries, lost answers, lost connections, late   *)
(* batches, and what earlier runs left, notwithstanding.  A server that    *)
(* has stored nothing since it started may have answered for one it did    *)
(* not keep; once it has, losing its configuration does no harm.           *)
StoredOrFailed ==
    outcome = "finished" /\ ~dry => \A f \in Listed \ (failed \cup unserved) : Kept(f)

(* Every row is a chunk that its file had at that place in some version,   *)
(* with the vector of that very text: whatever runs leave behind when they *)
(* fail, or when a file shrinks or goes, is old but never made up.         *)
RowsSound ==
    \A k \in Keys : table[k] # NoRow =>
        /\ \E c \in versions[k[1]] : k[2] < Len(c) /\ c[k[2] + 1] = table[k].sha
        /\ table[k].vec = table[k].sha

(* A row only ever changes to what the working copy of the last run has:   *)
(* no retry, late answer or restart of that run brings back old content,   *)
(* which takes a batch given up in an earlier run, each batch doing so     *)
(* once at most.                                                           *)
OldRowsComeLate ==
    [][\A k \in Keys : table'[k] # table[k] =>
          \/ k[2] + 1 \in Chunks(k[1]) /\ table'[k].sha = checkout[k[1]][k[2] + 1]
          \/ \E b \in inflight \ inflight' : b.run < runs /\ k \in {r.key : r \in ToSet(b.rows)}]_vars

(* The rows a run of IngestRepo reports are rows its own batches changed,  *)
(* all of them if it meets no error, so that a run on an unchanged         *)
(* repository reports none.                                                *)
CountIsReal ==
    /\ upserted <= changes
    /\ outcome = "finished" /\ driver = "ingest" /\ failed = {} => upserted = changes
=============================================================================
