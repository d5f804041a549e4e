------------------------------ MODULE Answering ------------------------------
(***************************************************************************)
(* Questions to the server: POST /rag/query (api/rag.go) and POST /askai   *)
(* (api/askai.go), with Service.Query (internal/rag/service.go), which     *)
(* embeds the question, reads the best rows by vector and by text in two   *)
(* statements, merges their scores and has them reranked, and callLLM,     *)
(* which asks the chat model a bounded number of times.  Meanwhile rows    *)
(* are upserted, and the configuration file is edited: the RAG service is  *)
(* constructed once from what it was at the first search, while callLLM    *)
(* reads it anew for each question.                                        *)
(***************************************************************************)
EXTENDS ServerConfig, SequencesExt

CONSTANTS Requests,    \* one question each
          Keys, Contents, NoRow,
          Distance,    \* inner product of a content's embedding and the question's
          Rank,        \* tscore of a content, 0 if its text does not match
          Reranked,    \* what the reranker scores a content
          Files,       \* what the configuration file may be, besides NoFile;
                       \* alpha is in halves
          Environments, \* <<CHUTES_API_URL, server/config/server.yaml>>
          NoService,
          Limit,       \* chunks the handlers ask for
          InitialTables, \* what the table may hold at first
          MaxEvents    \* bound on writes and edits, for model checking

Stored == [key : Keys, content : Contents]

ASSUME AnsweringAssumption ==
    /\ Distance \in [Contents -> Int] /\ Rank \in [Contents -> Nat]
    /\ Reranked \in [Contents -> Int] /\ NoRow \notin Contents
    /\ \A f \in Files : {f.alpha, f.candidates, f.retries} \subseteq Int /\ NoFile # f
    /\ IsFiniteSet(Keys) /\ InitialTables \subseteq [Keys -> Contents \cup {NoRow}]
    /\ Limit \in Nat /\ MaxEvents \in Nat

VARIABLES file,      \* the configuration file
          url,       \* CHUTES_API_URL
          ragSvc,    \* the configuration of the RAG service, once there is one
          table,     \* content stored under each key
          kind,      \* "query" or "askai", for each request
          pc,
          attempt,   \* requests made to the service being called
          status,    \* outcome of the last of them
          vrows,     \* rows read by vector
          trows,     \* rows read by text
          chunks,    \* the candidates, then the chunks, in order
          reranked,  \* whether the reranker put them in order
          asking,    \* the file as callLLM read it
          reply,     \* status code of the answer, 0 before it
          events, seen   \* bound on the events; rows stored since each request

found == <<vrows, trows>>
result == <<chunks, reranked>>
calls == <<attempt, status, asking>>
env == <<file, url, ragSvc, table, events, seen>>
vars == <<env, kind, pc, calls, found, result, reply>>

RowsOf(t) == {row \in Stored : t[row.key] = row.content}

(* Query: alpha and candidates out of range take their defaults. *)
Alpha == IF ragSvc.alpha \in 0 .. 2 THEN ragSvc.alpha ELSE 1
Cand == IF ragSvc.candidates <= 0 THEN 50 ELSE ragSvc.candidates

(* initRAG: no service without a configuration file. *)
InitRAG == IF file = NoFile THEN NoService ELSE ToConfig(LoadServer(file))

(* loadConfig, at the beginning of callLLM. *)
(* A bug: it is called again for each attempt. *)
Settings_Reread(r) == LoadConfig(file, url)
Settings(r) == LoadConfig(asking[r], url)

Init ==
    /\ file \in Files \cup {NoFile}
    /\ \E e \in Environments : url = SetEnvironment(e[1], e[2])
    /\ ragSvc \in {NoService, InitRAG}
    /\ asking = [r \in Requests |-> NoFile]
    /\ table \in InitialTables
    /\ kind \in [Requests -> {"query", "askai"}]
    /\ pc = [r \in Requests |-> "new"]
    /\ attempt = [r \in Requests |-> 0] /\ status = [r \in Requests |-> "none"]
    /\ vrows = [r \in Requests |-> {}] /\ trows = [r \in Requests |-> {}]
    /\ chunks = [r \in Requests |-> <<>>] /\ reranked = [r \in Requests |-> FALSE]
    /\ reply = [r \in Requests |-> 0]
    /\ events = 0 /\ seen = [r \in Requests |-> {}]

Goto(r, label) == pc' = [pc EXCEPT ![r] = label]

Answer(r, code) ==
    /\ reply' = [reply EXCEPT ![r] = code]
    /\ Goto(r, "done")

(* Query is over; askai goes on to the chat model, whatever became of it.  *)
GoOn(r, code) ==
    IF kind[r] = "askai"
    THEN /\ Goto(r, "ask") /\ UNCHANGED reply
         /\ attempt' = [attempt EXCEPT ![r] = 0]
         /\ asking' = [asking EXCEPT ![r] = file]
    ELSE Answer(r, code) /\ UNCHANGED <<attempt, asking>>
Leave(r, code) ==
    /\ chunks' = [chunks EXCEPT ![r] = <<>>]
    /\ GoOn(r, code)

(* One more request to the service.  A bug: it is not counted. *)
Again_Uncounted(r) == attempt' = attempt
Again(r) == attempt' = [attempt EXCEPT ![r] = @ + 1]

-----------------------------------------------------------------------------
(* /rag/query constructs the service if need be, under the mutex; without  *)
(* a configuration there is none and the answer has no chunks, nor has it  *)
(* any without an embedding endpoint.  /askai takes the service that is    *)
(* there, without the mutex: one under construction is none to it.         *)
Receive(r) ==
    /\ pc[r] = "new"
    /\ seen' = [seen EXCEPT ![r] = RowsOf(table)]
    /\ ragSvc' = IF kind[r] = "query" /\ ragSvc = NoService THEN InitRAG ELSE ragSvc
    /\ LET search == IF ragSvc' = NoService THEN FALSE
                     ELSE ResolveEmbedding(ragSvc').endpoint # ""
       IN  IF search THEN Goto(r, "embed") /\ UNCHANGED <<attempt, asking, chunks, reply>>
           ELSE Leave(r, 200)
    /\ UNCHANGED <<file, url, table, events, kind, status, found, reranked>>

(* The body is not JSON. *)
Refuse(r) ==
    /\ pc[r] = "new"
    /\ status' = [status EXCEPT ![r] = "refused"]
    /\ Answer(r, 400)
    /\ UNCHANGED <<env, kind, attempt, asking, found, result>>

(* A transaction of somebody else commits. *)
Write ==
    /\ events < MaxEvents
    /\ \E k \in Keys, c \in Contents :
        /\ table[k] # c
        /\ table' = [table EXCEPT ![k] = c]
    /\ seen' = [r \in Requests |-> IF pc[r] \in {"new", "done"} THEN seen[r]
                                   ELSE seen[r] \cup RowsOf(table')]
    /\ events' = events + 1
    /\ UNCHANGED <<file, url, ragSvc, kind, pc, calls, found, result, reply>>

(* Somebody edits the file, or another request constructs the service. *)
Edit ==
    /\ events < MaxEvents
    /\ file' \in (Files \cup {NoFile}) \ {file}
    /\ events' = events + 1
    /\ UNCHANGED <<url, ragSvc, table, seen, kind, pc, calls, found, result, reply>>
Construct ==
    /\ ragSvc = NoService /\ ragSvc' = InitRAG
    /\ UNCHANGED <<file, url, table, events, seen, kind, pc, calls, found, result, reply>>

-----------------------------------------------------------------------------
(* Whether an outcome is worth another try, and whether there is one.      *)
Retryable(s) == s \in {"unreachable", "overloaded"}

(* A bug: the number of attempts is not looked at. *)
EmbedTries_Any(r) == 50
EmbedTries(r) ==
    IF Embedder(ResolveEmbedding(ragSvc)) \in {"chutes", "openai"} THEN 3 ELSE 1

(* A request to the embedding service: no answer, 429 or 5xx, another      *)
(* error status, or an answer of the wrong form.  postWithRetry tries the  *)
(* former two again after a pause.                                         *)
EmbedFails(r) ==
    /\ pc[r] = "embed"
    /\ \E s \in {"unreachable", "overloaded", "rejected", "garbled"} :
        /\ status' = [status EXCEPT ![r] = s]
        /\ IF Retryable(s) /\ attempt[r] + 1 < EmbedTries(r)
           THEN Again(r) /\ UNCHANGED <<pc, asking, chunks, reply>>
           ELSE Leave(r, CASE s = "overloaded" -> 503 [] s = "rejected" -> 400
                           [] OTHER -> 500)
    /\ UNCHANGED <<env, kind, found, reranked>>

(* The client went away during the pause: the error is the context's.      *)
EmbedCancelled(r) ==
    /\ pc[r] = "embed" /\ attempt[r] > 0
    /\ Leave(r, 500)
    /\ UNCHANGED <<env, kind, status, found, reranked>>

(* No vector and no error (bge.go, for an answer "[]"), or no database:    *)
(* Query returns nothing.                                                  *)
NothingToSearch(r) ==
    /\ pc[r] = "embed"
    /\ \/ Embedder(ResolveEmbedding(ragSvc)) = "bge"
       \/ ~HasDSN(ragSvc.db)
    /\ Leave(r, 200)
    /\ UNCHANGED <<env, kind, status, found, reranked>>

Embedded(r) ==
    /\ pc[r] = "embed" /\ HasDSN(ragSvc.db)
    /\ Goto(r, "vector")
    /\ UNCHANGED <<env, kind, calls, found, result, reply>>

-----------------------------------------------------------------------------
(* The n best of S (ties broken in any way): ORDER BY score DESC LIMIT n.  *)
Best(S, score, n) ==
    {T \in SUBSET S : /\ Cardinality(T) = Min({n, Cardinality(S)})
                      /\ \A x \in T, y \in S \ T : score[x] >= score[y]}

VScore == [row \in Stored |-> Distance[row.content]]
TScore == [row \in Stored |-> Rank[row.content]]
Matching == {row \in RowsOf(table) : Rank[row.content] > 0}

(* The connection, or a statement before its first row, fails. *)
ReadFails(r) ==
    /\ pc[r] \in {"vector", "text"}
    /\ Leave(r, 500)
    /\ UNCHANGED <<env, kind, status, found, reranked>>

(* The first statement.  An error after some rows is not looked at: they   *)
(* pass for all there are.                                                 *)
ReadByVector(r) ==
    /\ pc[r] = "vector"
    /\ \E n \in {Cand} \cup 0 .. Cardinality(RowsOf(table)) :
        \E T \in Best(RowsOf(table), VScore, Min({n, Cand})) :
            vrows' = [vrows EXCEPT ![r] = T]
    /\ Goto(r, "text")
    /\ UNCHANGED <<env, kind, calls, trows, result, reply>>

(* The second, on the table as it is by now. *)
ReadByText(r) ==
    /\ pc[r] = "text"
    /\ \E n \in {Cand} \cup 0 .. Cardinality(Matching) :
        \E T \in Best(Matching, TScore, Min({n, Cand})) :
            trows' = [trows EXCEPT ![r] = T]
    /\ Goto(r, "merge")
    /\ UNCHANGED <<env, kind, calls, vrows, result, reply>>

KeysOf(rows) == {row.key : row \in rows}
RowAt(rows, k) == CHOOSE row \in rows : row.key = k

(* docsMap: a key read by vector keeps that content and gets the other     *)
(* score; one read by text alone has no vector score.                      *)
(* A bug: the row read by text takes the place of the other. *)
Merged_Replace(r) ==
    {[row |-> row, v |-> 0, t |-> TScore[row]] : row \in trows[r]} \cup
    {[row |-> row, v |-> VScore[row], t |-> 0] :
        row \in {x \in vrows[r] : x.key \notin KeysOf(trows[r])}}
Merged(r) ==
    {[row |-> row, v |-> VScore[row],
      t |-> IF row.key \in KeysOf(trows[r]) THEN TScore[RowAt(trows[r], row.key)] ELSE 0] :
        row \in vrows[r]} \cup
    {[row |-> row, v |-> 0, t |-> TScore[row]] :
        row \in {x \in trows[r] : x.key \notin KeysOf(vrows[r])}}

(* The orders sort.Slice may leave S in: descending, ties in any order. *)
Orders(S, score) ==
    {s \in SetToSeqs(S) : \A i, j \in DOMAIN s : i < j => score[s[i]] >= score[s[j]]}

Hybrid(entries) == [e \in entries |-> Alpha * e.v + (2 - Alpha) * e.t]

MergeAndSort(r) ==
    /\ pc[r] = "merge"
    /\ \E s \in Orders(Merged(r), Hybrid(Merged(r))) :
        chunks' = [chunks EXCEPT ![r] =
            [i \in 1 .. Min({Cand, Len(s)}) |-> s[i].row]]
    /\ Goto(r, "rerank")
    /\ UNCHANGED <<env, kind, calls, found, reranked, reply>>

(* The first Limit candidates are the result of Query. *)
(* A bug: the candidates are all handed out. *)
Return_All(r, candidateList) ==
    /\ chunks' = [chunks EXCEPT ![r] = candidateList]
    /\ GoOn(r, 200)
Return(r, candidateList) ==
    /\ chunks' = [chunks EXCEPT ![r] =
            SubSeq(candidateList, 1, Min({Limit, Len(candidateList)}))]
    /\ GoOn(r, 200)

RerankScore == [row \in Stored |-> Reranked[row.content]]

Rerank(r) ==
    /\ pc[r] = "rerank" /\ ragSvc.reranker
    /\ \E s \in Orders(ToSet(chunks[r]), RerankScore) : Return(r, s)
    /\ reranked' = [reranked EXCEPT ![r] = TRUE]
    /\ UNCHANGED <<env, kind, status, found>>

(* There is no reranker, it fails, or it answers too few scores. *)
SkipRerank(r) ==
    /\ pc[r] = "rerank"
    /\ Return(r, chunks[r])
    /\ UNCHANGED <<env, kind, status, found, reranked>>

-----------------------------------------------------------------------------
(* callLLM: an attempt fails with an error, or succeeds without choices.   *)
(* It does not depend on the request, so a client that goes away changes   *)
(* nothing.                                                                *)
AskFails(r) ==
    /\ pc[r] = "ask"
    /\ \E s \in {"error", "no choices"} : status' = [status EXCEPT ![r] = s]
    /\ Again(r)
    /\ Settings(r).endpoint # "garbled"
    /\ Settings(r).endpoint = "" => status'[r] = "error"
    /\ IF attempt[r] < Settings(r).retries THEN UNCHANGED <<pc, reply>> ELSE Answer(r, 500)
    /\ UNCHANGED <<env, kind, asking, found, result>>

(* The endpoint is not a URL: no request can be built, and none is made.    *)
AskMalformed(r) ==
    /\ pc[r] = "ask" /\ Settings(r).endpoint = "garbled"
    /\ status' = [status EXCEPT ![r] = "malformed"]
    /\ Answer(r, 500)
    /\ UNCHANGED <<env, kind, attempt, asking, found, result>>

AskSucceeds(r) ==
    /\ pc[r] = "ask" /\ Settings(r).endpoint = "url"
    /\ status' = [status EXCEPT ![r] = "choices"]
    /\ Again(r)
    /\ Answer(r, 200)
    /\ UNCHANGED <<env, kind, asking, found, result>>

Step(r) ==
    \/ EmbedFails(r) \/ EmbedCancelled(r) \/ NothingToSearch(r) \/ Embedded(r)
    \/ ReadFails(r) \/ ReadByVector(r) \/ ReadByText(r) \/ MergeAndSort(r)
    \/ Rerank(r) \/ SkipRerank(r) \/ AskFails(r) \/ AskSucceeds(r)
    \/ AskMalformed(r)

Next ==
    \/ Write \/ Edit \/ Construct
    \/ \E r \in Requests : Receive(r) \/ Refuse(r) \/ Step(r)

Spec == Init /\ [][Next]_vars

(* Connecting to the database and both statements wait under the request's *)
(* context, which has no deadline (service.go:89, 112 and 134).            *)
AtDatabase(r) == pc[r] \in {"vector", "text"}

(* Handlers keep running, and the clients of the three services have a     *)
(* timeout; of the database nothing is assumed.                            *)
FairSpec == Spec /\ \A r \in Requests : WF_vars(~AtDatabase(r) /\ Step(r))

-----------------------------------------------------------------------------
Phases == {"new", "embed", "vector", "text", "merge", "rerank", "ask", "done"}

(* What each variable holds; the embedding service is asked three times at *)
(* most, the chat model four times, once the search is over.               *)
TypeOK ==
    /\ file \in Files \cup {NoFile} /\ asking \in [Requests -> Files \cup {NoFile}]
    /\ ragSvc \in {NoService} \cup {ToConfig(LoadServer(f)) : f \in Files}
    /\ table \in [Keys -> Contents \cup {NoRow}]
    /\ pc \in [Requests -> Phases]
    /\ reply \in [Requests -> {0, 200, 400, 500, 503}]
    /\ \A r \in Requests :
        /\ vrows[r] \subseteq Stored /\ trows[r] \subseteq Stored
        /\ ToSet(chunks[r]) \subseteq vrows[r] \cup trows[r]
        /\ pc[r] = "embed" => attempt[r] < 3
        /\ pc[r] = "ask" => kind[r] = "askai" /\ attempt[r] <= 3
        /\ reply[r] # 0 <=> pc[r] = "done"

Searched(r) == reply[r] = 200 /\ chunks[r] # <<>>

(* Every chunk handed out was stored under its key at some time since the  *)
(* question came, though two statements read the table; no key is handed   *)
(* out twice, and no more than were asked for.                             *)
ChunksWereStored ==
    \A r \in Requests : Searched(r) =>
        /\ ToSet(chunks[r]) \subseteq seen[r]
        /\ \A i, j \in DOMAIN chunks[r] : chunks[r][i].key = chunks[r][j].key => i = j
        /\ Len(chunks[r]) <= Min({Limit, Cand})

(* The hybrid score of a key, from what the statements returned.           *)
ScoreOf(r, k) ==
    LET v == IF k \in KeysOf(vrows[r]) THEN VScore[RowAt(vrows[r], k)] ELSE 0
        t == IF k \in KeysOf(trows[r]) THEN TScore[RowAt(trows[r], k)] ELSE 0
    IN  Alpha * v + (2 - Alpha) * t

(* Of the rows that were read: without a reranker no chunk handed out is   *)
(* outranked by one after it or by one left out, counting both scores of a *)
(* row that both statements read; with one, the order is the reranker's,   *)
(* among the best candidates.                                              *)
BestFirst ==
    \A r \in Requests : Searched(r) =>
        LET n == Len(chunks[r])
            left == (KeysOf(vrows[r]) \cup KeysOf(trows[r])) \ KeysOf(ToSet(chunks[r]))
            score(i) == IF reranked[r] THEN RerankScore[chunks[r][i]]
                        ELSE ScoreOf(r, chunks[r][i].key)
        IN  /\ \A i, j \in 1 .. n : i < j => score(i) >= score(j)
            /\ ~reranked[r] => \A k \in left : ScoreOf(r, k) <= score(n)
            /\ left # {} => n = Min({Limit, Cand})

(* api.askai.retries: 3 when it is not set, and at most.                   *)
RetriesIn(f) ==
    IF f = NoFile THEN 3
    ELSE IF ~f.single /\ f.retries \in 1 .. 3 THEN f.retries ELSE 3

(* A question to the chat model fails only after every attempt did, as     *)
(* many as the file said when the question came to it and at most four,    *)
(* whatever became of the search and of the file; and it is answered as    *)
(* soon as one succeeds.  Only an endpoint that is no URL is not tried     *)
(* again, and what the environment says comes before any file.             *)
AskedEnough ==
    \A r \in Requests : pc[r] = "done" /\ kind[r] = "askai" /\ status[r] # "refused" =>
        /\ reply[r] \in {200, 500}
        /\ reply[r] = 200 <=> status[r] = "choices"
        /\ status[r] = "malformed" => url = "garbled" \/ (url = "" /\ asking[r] # NoFile)
        /\ reply[r] = 500 /\ status[r] # "malformed" => attempt[r] = 1 + RetriesIn(asking[r])

(* Every question is answered, however often the services fail, unless the *)
(* database never answers it.                                              *)
Answered ==
    \A r \in Requests : pc[r] # "new" ~> pc[r] = "done" \/ []AtDatabase(r)
=============================================================================
