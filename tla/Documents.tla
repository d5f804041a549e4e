------------------------------ MODULE Documents ------------------------------
(***************************************************************************)
(* Service.Upsert (internal/rag/service.go) with EnsureSchema and          *)
(* UpsertDocuments (internal/rag/store/store.go): callers that each open a *)
(* connection, create what is missing of the schema, and send their rows   *)
(* as one pipelined batch.                                                 *)
(*                                                                         *)
(* PostgreSQL is modelled from how the code uses it: every statement of    *)
(* EnsureSchema commits on its own and looks for its object before it      *)
(* creates it; the batch is one implicit transaction that locks the row of *)
(* each key in turn, waits for other transactions' locks, and commits once *)
(* all of it was processed.  The batch is sent whole, so the server may go *)
(* on with it after the caller lost the connection and was told of an      *)
(* error.                                                                  *)
(***************************************************************************)
EXTENDS DocumentRows

CONSTANTS Dim,      \* the dimension of each vector
          Fresh     \* whether the database may start without the schema

ASSUME DimAssumption == Dim \in [Vectors -> Nat] /\ Fresh \subseteq BOOLEAN

VARIABLES table,      \* the committed rows
          batch,      \* what each connection carries, <<>> before it does
          applied,    \* connections that committed
          reply,      \* what each caller was told
          schema,     \* objects that exist, of those EnsureSchema creates
          tableDim,   \* dimension of the embedding column, 0 without it
          pc,         \* where each connection is
          at,         \* its next statement or row
          pending,    \* rows its transaction wrote and did not commit
          locks,      \* keys its transaction has locked
          count       \* rows affected so far

conn == <<pc, at, pending, locks, count>>
vars == <<table, batch, applied, reply, schema, tableDim, conn>>

Statements ==
    <<"vector", "zhparser", "zhcn_search", "documents", "documents_doc_key_uk",
      "documents_embedding_idx", "idx_documents_tsv", "idx_documents_repo_path">>

Objects == {Statements[i] : i \in DOMAIN Statements}

NoRows == [k \in Keys |-> NoRow]

(* The dimension Upsert passes to EnsureSchema: that of the first row. *)
RequestDim(c) == Dim[batch[c][1].vec]

Init ==
    /\ table = NoRows
    /\ batch = [c \in Conns |-> <<>>]
    /\ applied = {}
    /\ reply = [c \in Conns |-> NoReply]
    /\ \E fresh \in Fresh :
        IF fresh THEN schema = {} /\ tableDim = 0
        ELSE schema = Objects /\ tableDim \in {Dim[v] : v \in Vectors} \ {0}
    /\ pc = [c \in Conns |-> "new"]
    /\ at = [c \in Conns |-> 1]
    /\ pending = [c \in Conns |-> NoRows]
    /\ locks = [c \in Conns |-> {}]
    /\ count = [c \in Conns |-> 0]

-----------------------------------------------------------------------------
(* Upsert is called.  Without rows it returns 0 before it connects.  (So it *)
(* does without a configured database: that is Serving of Ingestion.)      *)
Upsert(c) ==
    /\ pc[c] = "new"
    /\ \E b \in Batches :
        /\ batch' = [batch EXCEPT ![c] = b]
        /\ reply' = [reply EXCEPT ![c] = IF b = <<>> THEN Success(0) ELSE NoReply]
        /\ pc' = [pc EXCEPT ![c] = IF b = <<>> THEN "closed" ELSE "check"]
    /\ UNCHANGED <<table, applied, schema, tableDim, at, pending, locks, count>>

(* The connection is over: locks are released, uncommitted rows are gone.  *)
(* A bug: the locks stay.                                                  *)
Close_KeepLocks(c) ==
    /\ pc' = [pc EXCEPT ![c] = "closed"]
    /\ pending' = [pending EXCEPT ![c] = NoRows]
    /\ UNCHANGED <<at, locks, count>>
Close(c) ==
    /\ pc' = [pc EXCEPT ![c] = "closed"]
    /\ pending' = [pending EXCEPT ![c] = NoRows]
    /\ locks' = [locks EXCEPT ![c] = {}]
    /\ UNCHANGED <<at, count>>

(* The caller gets the error, unless it already got one. *)
Error(c) ==
    /\ Close(c)
    /\ reply' = [reply EXCEPT ![c] = IF @ = NoReply THEN Failure ELSE @]

(* On to the next statement, or to the rows after the last one; a caller   *)
(* that is gone sends nothing more.                                        *)
(* A bug: EnsureSchema returns one statement early.                        *)
Advance_Short(c) ==
    /\ LET last == at[c] = Len(Statements) - 1 IN
        /\ at' = [at EXCEPT ![c] = IF last THEN 1 ELSE @ + 1]
        /\ pc' = [pc EXCEPT ![c] = IF reply[c] # NoReply THEN "closed"
                                   ELSE IF last THEN "row" ELSE "check"]
    /\ UNCHANGED <<pending, locks, count>>
Advance(c) ==
    /\ LET last == at[c] = Len(Statements) IN
        /\ at' = [at EXCEPT ![c] = IF last THEN 1 ELSE @ + 1]
        /\ pc' = [pc EXCEPT ![c] = IF reply[c] # NoReply THEN "closed"
                                   ELSE IF last THEN "row" ELSE "check"]
    /\ UNCHANGED <<pending, locks, count>>

(* IF NOT EXISTS: an object that is there is left as it is, the documents  *)
(* table with the dimension it was created with.                           *)
SkipExisting(c) ==
    /\ pc[c] = "check"
    /\ Statements[at[c]] \in schema
    /\ Advance(c)
    /\ UNCHANGED <<table, batch, applied, reply, schema, tableDim>>

FindMissing(c) ==
    /\ pc[c] = "check"
    /\ Statements[at[c]] \notin schema
    /\ pc' = [pc EXCEPT ![c] = "create"]
    /\ UNCHANGED <<table, batch, applied, reply, schema, tableDim,
                   at, pending, locks, count>>

(* VECTOR(0) is not a type. *)
Creatable(c) ==
    /\ Statements[at[c]] \notin schema
    /\ Statements[at[c]] = "documents" => RequestDim(c) > 0

Create(c) ==
    /\ pc[c] = "create"
    /\ Creatable(c)
    /\ schema' = schema \cup {Statements[at[c]]}
    /\ tableDim' = IF Statements[at[c]] = "documents" THEN RequestDim(c) ELSE tableDim
    /\ Advance(c)
    /\ UNCHANGED <<table, batch, applied, reply>>

(* Another connection created the object since it was found missing, or it *)
(* cannot be created: the statement fails, and Upsert with it.             *)
CreateFails(c) ==
    /\ pc[c] = "create"
    /\ ~Creatable(c)
    /\ Error(c)
    /\ UNCHANGED <<table, batch, applied, schema, tableDim>>

-----------------------------------------------------------------------------
NextRow(c) == batch[c][at[c]]

(* Who holds the lock the next row needs. *)
Blocker(c) == {d \in Conns \ {c} : NextRow(c).key \in locks[d]}

(* What the transaction sees under a key: its own row or the committed one.*)
Current(c, k) == IF pending[c][k] # NoRow THEN pending[c][k] ELSE table[k]

(* ON CONFLICT ... WHERE documents.content_sha <> EXCLUDED.content_sha.    *)
(* A bug: the condition is forgotten.                                      *)
Differs_Always(old, row) == TRUE
Differs(old, row) == old = NoRow \/ old.sha # row.sha

(* The row as the statement leaves it.  A bug: SET forgets the embedding.  *)
Written_OldEmbedding(old, row) ==
    IF old = NoRow THEN Content(row) ELSE [sha |-> row.sha, vec |-> old.vec]
Written(old, row) == Content(row)

RightDim(row) == Dim[row.vec] = tableDim

(* One INSERT of the batch.  The row's lock is taken even when its content *)
(* is the same and nothing is written.                                     *)
PutRow(c) ==
    /\ pc[c] = "row"
    /\ RightDim(NextRow(c))
    /\ Blocker(c) = {}
    /\ LET row == NextRow(c)
           old == Current(c, row.key)
       IN  /\ locks' = [locks EXCEPT ![c] = @ \cup {row.key}]
           /\ IF Differs(old, row)
              THEN /\ pending' = [pending EXCEPT ![c][row.key] = Written(old, row)]
                   /\ count' = [count EXCEPT ![c] = @ + 1]
              ELSE UNCHANGED <<pending, count>>
    /\ at' = [at EXCEPT ![c] = @ + 1]
    /\ pc' = [pc EXCEPT ![c] = IF at[c] = Len(batch[c]) THEN "sync" ELSE "row"]
    /\ UNCHANGED <<table, batch, applied, reply, schema, tableDim>>

(* A vector of another dimension than the column's: the transaction rolls  *)
(* back and UpsertDocuments returns the error.                             *)
PutRowFails(c) ==
    /\ pc[c] = "row"
    /\ ~RightDim(NextRow(c))
    /\ Error(c)
    /\ UNCHANGED <<table, batch, applied, schema, tableDim>>

(* Each transaction waits for one other at most, so a set in which each    *)
(* waits for a member and is waited for by one consists of cycles.         *)
(* A bug: waiting transactions are never told of the deadlock.             *)
InDeadlock_Never(c) == FALSE
InDeadlock(c) ==
    \E D \in SUBSET {d \in Conns : pc[d] = "row" /\ RightDim(NextRow(d))} :
        /\ c \in D
        /\ \A d \in D : Blocker(d) \cap D # {}
        /\ \A d \in D : \E e \in D : d \in Blocker(e)

DeadlockVictim(c) ==
    /\ pc[c] = "row"
    /\ InDeadlock(c)
    /\ Error(c)
    /\ UNCHANGED <<table, batch, applied, schema, tableDim>>

(* A bug: rows of which nothing was pending are removed. *)
Merged_Whole(c) == pending[c]
Merged(c) == [k \in Keys |-> Current(c, k)]

(* The end of the batch: the implicit transaction commits. *)
Commit(c) ==
    /\ pc[c] = "sync"
    /\ table' = Merged(c)
    /\ applied' = applied \cup {c}
    /\ pending' = [pending EXCEPT ![c] = NoRows]
    /\ locks' = [locks EXCEPT ![c] = {}]
    /\ pc' = [pc EXCEPT ![c] = IF reply[c] = NoReply THEN "committed" ELSE "closed"]
    /\ UNCHANGED <<batch, reply, schema, tableDim, at, count>>

(* The results have all arrived: Upsert returns their sum. *)
Return(c) ==
    /\ pc[c] = "committed"
    /\ reply' = [reply EXCEPT ![c] = Success(count[c])]
    /\ Close(c)
    /\ UNCHANGED <<table, batch, applied, schema, tableDim>>

-----------------------------------------------------------------------------
(* The caller's end of the connection is lost (the request is cancelled, a *)
(* timeout, the network): Upsert returns an error.  What was sent stays    *)
(* with the server.                                                        *)
Disconnect(c) ==
    /\ pc[c] \in {"check", "create", "row", "sync", "committed"}
    /\ reply[c] = NoReply
    /\ reply' = [reply EXCEPT ![c] = Failure]
    /\ pc' = [pc EXCEPT ![c] = IF @ \in {"check", "committed"} THEN "closed" ELSE @]
    /\ UNCHANGED <<table, batch, applied, schema, tableDim, at, pending, locks, count>>

(* The server notices, or never got the end of the batch: it rolls back. *)
ServerAbort(c) ==
    /\ pc[c] \in {"create", "row", "sync"}
    /\ reply[c] # NoReply
    /\ Close(c)
    /\ UNCHANGED <<table, batch, applied, reply, schema, tableDim>>

-----------------------------------------------------------------------------
Step(c) ==
    \/ SkipExisting(c) \/ FindMissing(c) \/ Create(c) \/ CreateFails(c)
    \/ PutRow(c) \/ PutRowFails(c) \/ DeadlockVictim(c)
    \/ Commit(c) \/ Return(c)

Next == \E c \in Conns : Upsert(c) \/ Step(c) \/ Disconnect(c) \/ ServerAbort(c)

Spec == Init /\ [][Next]_vars

(* A handler goroutine keeps running, PostgreSQL executes what it was sent *)
(* and its deadlock detector picks a victim; nobody has to call, and no    *)
(* connection has to break.                                                *)
FairSpec == Spec /\ \A c \in Conns : WF_vars(Step(c))

-----------------------------------------------------------------------------
(* What a connection has affected counts once it has committed. *)
Table == INSTANCE DocumentTable
    WITH changed <- [c \in Conns |-> IF c \in applied THEN count[c] ELSE 0]

Phases == {"new", "check", "create", "row", "sync", "committed", "closed"}

(* What each variable holds; a transaction has locks and uncommitted rows  *)
(* only between its first row and its end.                                 *)
TypeOK ==
    /\ table \in Tables
    /\ batch \in [Conns -> Batches \cup {<<>>}]
    /\ applied \subseteq Conns
    /\ reply \in [Conns -> [ok : BOOLEAN, rows : Int]]
    /\ schema \subseteq Objects /\ tableDim \in Nat
    /\ pc \in [Conns -> Phases]
    /\ at \in [Conns -> Nat \ {0}]
    /\ pending \in [Conns -> Tables]
    /\ locks \in [Conns -> SUBSET Keys]
    /\ count \in [Conns -> Nat]
    /\ \A c \in Conns :
        /\ pc[c] \in {"check", "create"} => at[c] \in DOMAIN Statements
        /\ pc[c] = "row" => at[c] \in DOMAIN batch[c]
        /\ pc[c] \notin {"row", "sync"} => locks[c] = {} /\ pending[c] = NoRows

(* Whatever the interleaving of statements, lost connections and deadlock  *)
(* victims, each batch takes effect whole and at one instant, in the order *)
(* of the commits, and the count a caller is told is the number of rows    *)
(* its batch changed at that instant.                                      *)
Refines == Table!ASpec

(* Rows are only sent once every object of the schema exists, also when    *)
(* other callers created some of them or failed half way.                  *)
SchemaBeforeRows == \A c \in Conns : pc[c] \in {"row", "sync", "committed"} => schema = Objects

(* All embeddings, stored or pending, have the dimension of the column,    *)
(* whichever caller created the table.                                     *)
OneDimension ==
    \A c \in Conns, k \in Keys : Current(c, k) # NoRow => Dim[Current(c, k).vec] = tableDim

(* A stored embedding was computed from the stored content: the row is one *)
(* of an applied batch, never a mixture of two.                            *)
EmbeddingOfContent ==
    \A k \in Keys : table[k] # NoRow =>
        \E c \in applied : \E i \in DOMAIN batch[c] :
            batch[c][i].key = k /\ Content(batch[c][i]) = table[k]

(* Every embedding can be compared with the others and is of its content,  *)
(* whoever created the table and whoever wrote the row before.             *)
EmbeddingsFit == OneDimension /\ EmbeddingOfContent

(* Every call of Upsert ends with an answer and its transaction with it,   *)
(* deadlocks and schema races included.                                    *)
Answered ==
    \A c \in Conns : pc[c] # "new" ~> (pc[c] = "closed" /\ reply[c] # NoReply)
=============================================================================
