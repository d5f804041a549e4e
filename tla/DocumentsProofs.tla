-------------------------- MODULE DocumentsProofs --------------------------
(* Safety of module Documents, for any number of callers, any batches and  *)
(* any database they may find.                                             *)
EXTENDS Documents, FiniteSetTheorems, TLAPS

(* Before its call a connection has done nothing; after it, and until it is *)
(* closed, it carries at least one row.                                     *)
Callers ==
    \A c \in Conns :
        /\ pc[c] = "new" => at[c] = 1 /\ c \notin applied
        /\ pc[c] \in {"check", "create", "row", "sync", "committed"} => batch[c] # <<>>

(* EnsureSchema works through its statements in order, and nothing is ever *)
(* dropped.                                                                *)
StatementsDone ==
    \A c \in Conns : pc[c] \in {"check", "create"} =>
        \A i \in DOMAIN Statements : i < at[c] => Statements[i] \in schema

(* The column is there before any row, and all have its dimension.         *)
Dimensions ==
    /\ \A k \in Keys : table[k] # NoRow =>
        "documents" \in schema /\ Dim[table[k].vec] = tableDim
    /\ \A c \in Conns, k \in Keys : pending[c][k] # NoRow =>
        Dim[pending[c][k].vec] = tableDim

(* What a transaction wrote it took from its batch.                        *)
IsRowOf(b, k, content) == \E i \in DOMAIN b : b[i].key = k /\ Content(b[i]) = content
Origins ==
    \A c \in Conns, k \in Keys :
        pending[c][k] # NoRow => IsRowOf(batch[c], k, pending[c][k])

IInv ==
    TypeOK /\ Callers /\ StatementsDone /\ SchemaBeforeRows
        /\ Dimensions /\ Origins /\ EmbeddingOfContent

-----------------------------------------------------------------------------
(* The statements of EnsureSchema as the provers need them. *)
LEMMA StatementFacts ==
    /\ DOMAIN Statements = 1 .. 8 /\ Len(Statements) = 8
    /\ Objects = {Statements[i] : i \in 1 .. 8}
    /\ \A i \in 1 .. 8 : Statements[i] \in Objects
    /\ "documents" \in Objects
<1>1. DOMAIN Statements = 1 .. 8 /\ Len(Statements) = 8
  BY DEF Statements
<1>2. Statements[4] = "documents"
  BY DEF Statements
<1> QED
  BY <1>1, <1>2 DEF Objects

(* A batch is a sequence of rows, and the current row is one of them. *)
LEMMA BatchFacts ==
    ASSUME TypeOK, NEW c \in Conns
    PROVE  /\ batch[c] \in Seq(Rows)
           /\ \A i \in DOMAIN batch[c] : batch[c][i] \in Rows
           /\ batch[c] # <<>> => 1 \in DOMAIN batch[c] /\ RequestDim(c) \in Nat
           /\ pc[c] = "row" => NextRow(c) \in Rows
<1>1. batch[c] \in Seq(Rows)
  <2>1. batch[c] \in Batches \cup {<<>>}
    BY DEF TypeOK
  <2>2. <<>> \in Seq(Rows)
    OBVIOUS
  <2> QED
    BY <2>1, <2>2, DocumentAssumption
<1>2. \A i \in DOMAIN batch[c] : batch[c][i] \in Rows
  BY <1>1
<1>3. batch[c] # <<>> => 1 \in DOMAIN batch[c]
  BY <1>1
<1>4. ASSUME batch[c] # <<>> PROVE RequestDim(c) \in Nat
  BY <1>2, <1>3, <1>4, DimAssumption DEF RequestDim, Rows
<1>5. pc[c] = "row" => NextRow(c) \in Rows
  BY <1>2 DEF NextRow, TypeOK
<1> QED
  BY <1>1, <1>2, <1>3, <1>4, <1>5

(* A row has content that can be stored. *)
LEMMA RowFacts ==
    /\ NoRows \in Tables
    /\ \A r \in Rows : /\ r.key \in Keys /\ r.vec \in Vectors
                       /\ Content(r) \in Stored /\ Content(r) # NoRow
                       /\ Content(r).vec = r.vec
BY DocumentAssumption DEF NoRows, Tables, Rows, Stored, Content

(* The invariant holds of a database with and without the schema. *)
THEOREM InitInv == Init => IInv
<1> SUFFICES ASSUME Init PROVE IInv
  OBVIOUS
<1>1. /\ table = NoRows /\ pending = [c \in Conns |-> NoRows]
      /\ batch = [c \in Conns |-> <<>>] /\ applied = {}
      /\ pc = [c \in Conns |-> "new"] /\ at = [c \in Conns |-> 1]
  BY DEF Init
<1>2. schema \subseteq Objects /\ tableDim \in Nat
  BY DimAssumption DEF Init
<1>3. TypeOK
  BY <1>1, <1>2, RowFacts DEF Init, TypeOK, Phases, NoReply
<1>4. Callers /\ StatementsDone /\ SchemaBeforeRows
  BY <1>1 DEF Callers, StatementsDone, SchemaBeforeRows
<1>5. Dimensions /\ Origins /\ EmbeddingOfContent
  BY <1>1 DEF Dimensions, Origins, EmbeddingOfContent, NoRows
<1> QED
  BY <1>3, <1>4, <1>5 DEF IInv

-----------------------------------------------------------------------------

(* The statement after the last is the first row of the batch. *)
LEMMA AdvanceType ==
    ASSUME TypeOK, Callers, NEW c \in Conns, pc[c] \in {"check", "create"}, Advance(c)
    PROVE  /\ at' \in [Conns -> Nat \ {0}] /\ pc' \in [Conns -> Phases]
           /\ pc'[c] \in {"check", "create"} => at'[c] \in DOMAIN Statements
           /\ pc'[c] = "row" => at'[c] \in DOMAIN batch[c]
           /\ pc'[c] \in {"closed", "row", "check"}
           /\ \A d \in Conns \ {c} : pc'[d] = pc[d] /\ at'[d] = at[d]
<1>1. at[c] \in 1 .. 8 /\ batch[c] # <<>>
  BY StatementFacts DEF TypeOK, Callers
<1>2. 1 \in DOMAIN batch[c]
  BY <1>1, BatchFacts
<1>3. /\ at' = [at EXCEPT ![c] = IF at[c] = 8 THEN 1 ELSE at[c] + 1]
      /\ pc' = [pc EXCEPT ![c] = IF reply[c] # NoReply THEN "closed"
                                 ELSE IF at[c] = 8 THEN "row" ELSE "check"]
  BY StatementFacts DEF Advance
<1> QED
  BY <1>1, <1>2, <1>3, StatementFacts DEF TypeOK, Phases

(* The type invariant, action by action. *)
LEMMA UpsertType ==
    ASSUME TypeOK, Callers, NEW c \in Conns, Upsert(c)
    PROVE  TypeOK' /\ Callers'
<1>1. TypeOK'
  BY StatementFacts DEF TypeOK, Callers, Phases, Upsert, Success, NoReply
<1>2. Callers'
  BY DEF TypeOK, Callers, Phases, Upsert, Success, NoReply
<1> QED
  BY <1>1, <1>2

LEMMA SkipExistingType ==
    ASSUME TypeOK, Callers, NEW c \in Conns, SkipExisting(c)
    PROVE  TypeOK' /\ Callers'
<1>1. TypeOK'
  <2>1. /\ Advance(c) /\ pc[c] = "check" /\ schema' = schema /\ tableDim' = tableDim
        /\ table' = table /\ batch' = batch /\ applied' = applied /\ reply' = reply
        /\ pending' = pending /\ locks' = locks /\ count' = count
    BY DEF SkipExisting, Advance
  <2> QED
    BY <2>1, AdvanceType DEF TypeOK
<1>2. Callers'
  BY DEF TypeOK, Callers, Phases, SkipExisting, Advance
<1> QED
  BY <1>1, <1>2

LEMMA FindMissingType ==
    ASSUME TypeOK, Callers, NEW c \in Conns, FindMissing(c)
    PROVE  TypeOK' /\ Callers'
<1>1. TypeOK'
  BY DEF TypeOK, Phases, FindMissing
<1>2. Callers'
  BY DEF TypeOK, Callers, Phases, FindMissing
<1> QED
  BY <1>1, <1>2

LEMMA CreateType ==
    ASSUME TypeOK, Callers, NEW c \in Conns, Create(c)
    PROVE  TypeOK' /\ Callers'
<1>1. TypeOK'
  <2>1. /\ Advance(c) /\ pc[c] = "create"
        /\ table' = table /\ batch' = batch /\ applied' = applied /\ reply' = reply
        /\ pending' = pending /\ locks' = locks /\ count' = count
    BY DEF Create, Advance
  <2>2. schema' \subseteq Objects /\ tableDim' \in Nat
    BY <2>1, StatementFacts, BatchFacts DEF Create, TypeOK, Callers
  <2> QED
    BY <2>1, <2>2, AdvanceType DEF TypeOK
<1>2. Callers'
  BY DEF TypeOK, Callers, Phases, Create, Advance
<1> QED
  BY <1>1, <1>2

LEMMA CreateFailsType ==
    ASSUME TypeOK, Callers, NEW c \in Conns, CreateFails(c)
    PROVE  TypeOK' /\ Callers'
<1>1. TypeOK'
  BY RowFacts DEF TypeOK, Phases, CreateFails, Error, Close, Failure
<1>2. Callers'
  BY DEF TypeOK, Callers, Phases, CreateFails, Error, Close, Failure
<1> QED
  BY <1>1, <1>2

LEMMA PutRowType ==
    ASSUME TypeOK, Callers, NEW c \in Conns, PutRow(c)
    PROVE  TypeOK' /\ Callers'
<1>1. TypeOK'
  <2>1. /\ pc[c] = "row" /\ at[c] \in DOMAIN batch[c] /\ NextRow(c) \in Rows
        /\ table' = table /\ batch' = batch /\ applied' = applied /\ reply' = reply
        /\ schema' = schema /\ tableDim' = tableDim
    BY BatchFacts DEF PutRow, TypeOK
  <2>2. pending' = pending \/ \E k \in Keys : \E w \in Stored :
            pending' = [pending EXCEPT ![c] = [pending[c] EXCEPT ![k] = w]]
    BY <2>1, RowFacts DEF PutRow, Written
  <2>3. pending' \in [Conns -> Tables] /\ count' \in [Conns -> Nat]
    <3>1. pending[c] \in [Keys -> Stored \cup {NoRow}]
      BY DEF TypeOK, Tables
    <3>2. \A k \in Keys, w \in Stored : [pending[c] EXCEPT ![k] = w] \in Tables
      BY <3>1 DEF Tables
    <3>3. pending \in [Conns -> Tables] /\ count \in [Conns -> Nat]
      BY DEF TypeOK
    <3>4. pending' \in [Conns -> Tables]
      BY <2>2, <3>2, <3>3
    <3>5. count' = count \/ count' = [count EXCEPT ![c] = count[c] + 1]
      BY DEF PutRow
    <3> QED
      BY <3>3, <3>4, <3>5
  <2>4. /\ locks' \in [Conns -> SUBSET Keys]
        /\ \A d \in Conns \ {c} : locks'[d] = locks[d] /\ pending'[d] = pending[d]
    BY <2>1, <2>2, RowFacts DEF PutRow, TypeOK
  <2>5. /\ at' = [at EXCEPT ![c] = at[c] + 1]
        /\ pc' = [pc EXCEPT ![c] = IF at[c] = Len(batch[c]) THEN "sync" ELSE "row"]
    BY DEF PutRow
  <2>6. at[c] # Len(batch[c]) => at[c] + 1 \in DOMAIN batch[c]
    BY <2>1, BatchFacts
  <2> QED
    BY <2>1, <2>3, <2>4, <2>5, <2>6 DEF TypeOK, Phases
<1>2. Callers'
  BY DEF TypeOK, Callers, Phases, PutRow
<1> QED
  BY <1>1, <1>2

LEMMA PutRowFailsType ==
    ASSUME TypeOK, Callers, NEW c \in Conns, PutRowFails(c)
    PROVE  TypeOK' /\ Callers'
<1>1. TypeOK'
  BY RowFacts DEF TypeOK, Phases, PutRowFails, Error, Close, Failure
<1>2. Callers'
  BY DEF TypeOK, Callers, Phases, PutRowFails, Error, Close, Failure
<1> QED
  BY <1>1, <1>2

LEMMA DeadlockVictimType ==
    ASSUME TypeOK, Callers, NEW c \in Conns, DeadlockVictim(c)
    PROVE  TypeOK' /\ Callers'
<1>1. TypeOK'
  BY RowFacts DEF TypeOK, Phases, DeadlockVictim, Error, Close, Failure
<1>2. Callers'
  BY DEF TypeOK, Callers, Phases, DeadlockVictim, Error, Close, Failure
<1> QED
  BY <1>1, <1>2

LEMMA CommitType ==
    ASSUME TypeOK, Callers, NEW c \in Conns, Commit(c)
    PROVE  TypeOK' /\ Callers'
<1>1. TypeOK'
  <2>1. Merged(c) \in Tables
    BY DEF Merged, Current, TypeOK, Tables
  <2> QED
    BY <2>1, RowFacts DEF Commit, TypeOK, Phases
<1>2. Callers'
  BY DEF TypeOK, Callers, Phases, Commit
<1> QED
  BY <1>1, <1>2

LEMMA ReturnType ==
    ASSUME TypeOK, Callers, NEW c \in Conns, Return(c)
    PROVE  TypeOK' /\ Callers'
<1>1. TypeOK'
  BY RowFacts DEF TypeOK, Phases, Return, Close, Success
<1>2. Callers'
  BY DEF TypeOK, Callers, Phases, Return, Close, Success
<1> QED
  BY <1>1, <1>2

LEMMA DisconnectType ==
    ASSUME TypeOK, Callers, NEW c \in Conns, Disconnect(c)
    PROVE  TypeOK' /\ Callers'
<1>1. TypeOK'
  BY DEF TypeOK, Phases, Disconnect, Failure
<1>2. Callers'
  BY DEF TypeOK, Callers, Phases, Disconnect, Failure
<1> QED
  BY <1>1, <1>2

LEMMA ServerAbortType ==
    ASSUME TypeOK, Callers, NEW c \in Conns, ServerAbort(c)
    PROVE  TypeOK' /\ Callers'
<1>1. TypeOK'
  BY RowFacts DEF TypeOK, Phases, ServerAbort, Close
<1>2. Callers'
  BY DEF TypeOK, Callers, Phases, ServerAbort, Close
<1> QED
  BY <1>1, <1>2

LEMMA TypeInv ==
    ASSUME TypeOK, Callers, [Next]_vars
    PROVE  TypeOK' /\ Callers'
<1>0. CASE UNCHANGED vars
  BY <1>0 DEF TypeOK, Callers, vars, conn
<1> SUFFICES ASSUME NEW c \in Conns, Upsert(c) \/ Step(c) \/ Disconnect(c) \/ ServerAbort(c)
             PROVE  TypeOK' /\ Callers'
  BY <1>0 DEF Next
<1> QED
  BY UpsertType, SkipExistingType, FindMissingType, CreateType, CreateFailsType, PutRowType,
     PutRowFailsType, DeadlockVictimType, CommitType, ReturnType, DisconnectType,
     ServerAbortType DEF Step

-----------------------------------------------------------------------------
(* EnsureSchema is the only way to the rows. *)
LEMMA SchemaInv ==
    ASSUME TypeOK, Callers, StatementsDone, SchemaBeforeRows, [Next]_vars
    PROVE  StatementsDone' /\ SchemaBeforeRows'
<1>0. CASE UNCHANGED vars
  BY <1>0 DEF StatementsDone, SchemaBeforeRows, vars, conn
<1> SUFFICES ASSUME NEW c \in Conns, Upsert(c) \/ Step(c) \/ Disconnect(c) \/ ServerAbort(c)
             PROVE  StatementsDone' /\ SchemaBeforeRows'
  BY <1>0 DEF Next
<1>1. CASE (SkipExisting(c) \/ Create(c)) /\ Advance(c)
  <2>1. /\ at[c] \in 1 .. 8 /\ pc[c] \in {"check", "create"}
        /\ schema \subseteq schema' /\ schema' \subseteq Objects /\ Statements[at[c]] \in schema'
    BY <1>1, StatementFacts DEF SkipExisting, Create, TypeOK
  <2>2. /\ at' = [at EXCEPT ![c] = IF at[c] = 8 THEN 1 ELSE at[c] + 1]
        /\ pc' = [pc EXCEPT ![c] = IF reply[c] # NoReply THEN "closed"
                                   ELSE IF at[c] = 8 THEN "row" ELSE "check"]
    BY <1>1, StatementFacts DEF Advance
  <2>3. \A i \in 1 .. 8 : i < at[c] => Statements[i] \in schema
    BY <2>1, StatementFacts DEF StatementsDone
  <2>4. at[c] = 8 => schema' = Objects
    <3> SUFFICES ASSUME at[c] = 8, NEW i \in 1 .. 8 PROVE Statements[i] \in schema'
      BY <2>1, StatementFacts
    <3> QED
      BY <2>1, <2>3
  <2>5. StatementsDone'
    <3> SUFFICES ASSUME NEW d \in Conns, pc'[d] \in {"check", "create"},
                        NEW i \in 1 .. 8, i < at'[d]
                 PROVE  Statements[i] \in schema'
      BY StatementFacts DEF StatementsDone
    <3>1. CASE d = c
      <4>1. at[c] # 8 /\ i < at[c] + 1
        BY <2>1, <2>2, <3>1 DEF TypeOK
      <4>2. i < at[c] \/ i = at[c]
        BY <4>1, <2>1
      <4> QED
        BY <2>1, <2>3, <4>2
    <3>2. CASE d # c
      BY <2>1, <2>2, <3>2, StatementFacts DEF TypeOK, StatementsDone
    <3> QED
      BY <3>1, <3>2
  <2>6. SchemaBeforeRows'
    BY <2>1, <2>2, <2>4 DEF TypeOK, SchemaBeforeRows
  <2> QED
    BY <2>5, <2>6
<1> DEFINE Stays ==
        /\ schema' = schema
        /\ \A d \in Conns \ {c} : pc'[d] = pc[d] /\ at'[d] = at[d]
        /\ pc'[c] \in {"check", "create"} =>
              at'[c] = at[c] /\ (pc[c] \in {"check", "create"} \/ at[c] = 1)
        /\ pc'[c] \in {"row", "sync", "committed"} => pc[c] \in {"row", "sync", "committed"}
<1>2. Upsert(c) => Stays
  BY DEF Upsert, TypeOK, Callers
<1>3. FindMissing(c) => Stays
  BY DEF FindMissing, TypeOK, Callers
<1>4. CreateFails(c) => Stays
  BY DEF CreateFails, Error, Close, TypeOK, Callers
<1>5. PutRow(c) => Stays
  BY DEF PutRow, TypeOK, Callers
<1>6. PutRowFails(c) => Stays
  BY DEF PutRowFails, Error, Close, TypeOK, Callers
<1>7. DeadlockVictim(c) => Stays
  BY DEF DeadlockVictim, Error, Close, TypeOK, Callers
<1>8. Commit(c) => Stays
  BY DEF Commit, TypeOK, Callers
<1>9. Return(c) => Stays
  BY DEF Return, Close, TypeOK, Callers
<1>10. Disconnect(c) => Stays
  BY DEF Disconnect, TypeOK, Callers
<1>11. ServerAbort(c) => Stays
  BY DEF ServerAbort, Close, TypeOK, Callers
<1>12. CASE Stays
  <2>2. SchemaBeforeRows'
    BY <1>12 DEF SchemaBeforeRows
  <2>3. StatementsDone'
    <3> SUFFICES ASSUME NEW d \in Conns, pc'[d] \in {"check", "create"},
                        NEW i \in 1 .. 8, i < at'[d]
                 PROVE  Statements[i] \in schema
      BY <1>12, StatementFacts DEF StatementsDone
    <3>1. pc[d] \in {"check", "create"} /\ i < at[d]
      <4>1. CASE d # c
        BY <1>12, <4>1
      <4>2. CASE d = c
        <5>1. at'[c] = at[c] /\ ~(i < 1)
          BY <1>12, <4>2
        <5> QED
          BY <1>12, <4>2, <5>1
      <4> QED
        BY <4>1, <4>2
    <3> QED
      BY <3>1, StatementFacts DEF StatementsDone
  <2> QED
    BY <2>2, <2>3
<1> HIDE DEF Stays
<1>13. SkipExisting(c) \/ Create(c) => Advance(c)
  BY DEF SkipExisting, Create
<1> QED
  BY <1>1, <1>2, <1>3, <1>4, <1>5, <1>6, <1>7, <1>8, <1>9, <1>10, <1>11, <1>12, <1>13 DEF Step

-----------------------------------------------------------------------------
(* All actions but three leave the rows that are stored, and only drop     *)
(* rows that are not.                                                      *)
Quiet(c) ==
    \/ Upsert(c) \/ SkipExisting(c) \/ FindMissing(c) \/ CreateFails(c)
    \/ PutRowFails(c) \/ DeadlockVictim(c) \/ Return(c) \/ Disconnect(c) \/ ServerAbort(c)

LEMMA QuietRows ==
    ASSUME TypeOK, Callers, NEW c \in Conns, Quiet(c)
    PROVE  /\ table' = table /\ applied' = applied
           /\ schema' = schema /\ tableDim' = tableDim
           /\ \A d \in Conns, k \in Keys : pending'[d][k] \in {pending[d][k], NoRow}
           /\ \A d \in Conns : batch'[d] = batch[d] \/ (d \notin applied /\ pending[d] = NoRows)
<1> DEFINE Goal ==
        /\ table' = table /\ applied' = applied
        /\ schema' = schema /\ tableDim' = tableDim
        /\ \A d \in Conns, k \in Keys : pending'[d][k] \in {pending[d][k], NoRow}
        /\ \A d \in Conns : batch'[d] = batch[d] \/ (d \notin applied /\ pending[d] = NoRows)
<1>1. Upsert(c) => Goal
  BY DEF Upsert, TypeOK, Callers, NoRows
<1>2. SkipExisting(c) => Goal
  BY DEF SkipExisting, Advance, TypeOK, Callers, NoRows
<1>3. FindMissing(c) => Goal
  BY DEF FindMissing, TypeOK, Callers, NoRows
<1>4. CreateFails(c) => Goal
  BY DEF CreateFails, Error, Close, TypeOK, Callers, NoRows
<1>5. PutRowFails(c) => Goal
  BY DEF PutRowFails, Error, Close, TypeOK, Callers, NoRows
<1>6. DeadlockVictim(c) => Goal
  BY DEF DeadlockVictim, Error, Close, TypeOK, Callers, NoRows
<1>7. Return(c) => Goal
  BY DEF Return, Close, TypeOK, Callers, NoRows
<1>8. Disconnect(c) => Goal
  BY DEF Disconnect, TypeOK, Callers, NoRows
<1>9. ServerAbort(c) => Goal
  BY DEF ServerAbort, Close, TypeOK, Callers, NoRows
<1> QED
  BY <1>1, <1>2, <1>3, <1>4, <1>5, <1>6, <1>7, <1>8, <1>9 DEF Quiet

(* One row of the batch is written, or none. *)
LEMMA PutRowRows ==
    ASSUME TypeOK, NEW c \in Conns, PutRow(c)
    PROVE  /\ table' = table /\ applied' = applied /\ batch' = batch
           /\ schema' = schema /\ tableDim' = tableDim
           /\ NextRow(c) \in Rows /\ RightDim(NextRow(c)) /\ at[c] \in DOMAIN batch[c]
           /\ \A d \in Conns, k \in Keys :
                \/ pending'[d][k] = pending[d][k]
                \/ d = c /\ k = NextRow(c).key /\ pending'[d][k] = Content(NextRow(c))
<1>1. NextRow(c) \in Rows /\ at[c] \in DOMAIN batch[c] /\ NextRow(c).key \in Keys
  BY BatchFacts, RowFacts DEF PutRow, TypeOK
<1>2. \/ pending' = pending
      \/ pending' = [pending EXCEPT
            ![c] = [pending[c] EXCEPT ![NextRow(c).key] = Content(NextRow(c))]]
  BY DEF PutRow, Written
<1>3. pending \in [Conns -> Tables] /\ pending[c] \in [Keys -> Stored \cup {NoRow}]
  BY DEF TypeOK, Tables
<1>4. \A d \in Conns, k \in Keys :
        \/ pending'[d][k] = pending[d][k]
        \/ d = c /\ k = NextRow(c).key /\ pending'[d][k] = Content(NextRow(c))
  BY <1>1, <1>2, <1>3
<1> QED
  BY <1>1, <1>4 DEF PutRow

(* What was pending is stored. *)
LEMMA CommitRows ==
    ASSUME TypeOK, NEW c \in Conns, Commit(c)
    PROVE  /\ applied' = applied \cup {c} /\ batch' = batch
           /\ schema' = schema /\ tableDim' = tableDim /\ pc[c] = "sync"
           /\ \A k \in Keys : table'[k] = IF pending[c][k] # NoRow THEN pending[c][k] ELSE table[k]
           /\ \A d \in Conns, k \in Keys : pending'[d][k] \in {pending[d][k], NoRow}
<1>1. \A k \in Keys : table'[k] = IF pending[c][k] # NoRow THEN pending[c][k] ELSE table[k]
  BY DEF Commit, Merged, Current
<1>2. \A d \in Conns, k \in Keys : pending'[d][k] \in {pending[d][k], NoRow}
  BY DEF Commit, TypeOK, NoRows
<1> QED
  BY <1>1, <1>2 DEF Commit

(* The dimension is set with the table and never again. *)
LEMMA CreateRows ==
    ASSUME TypeOK, NEW c \in Conns, Create(c)
    PROVE  /\ table' = table /\ applied' = applied /\ batch' = batch /\ pending' = pending
           /\ schema \subseteq schema'
           /\ tableDim' = tableDim \/ "documents" \notin schema
BY DEF Create, Creatable, Advance

(* The column is created before the first row, with one dimension for all. *)
LEMMA DimensionsInv ==
    ASSUME TypeOK, Callers, SchemaBeforeRows, Dimensions, [Next]_vars
    PROVE  Dimensions'
<1>0. CASE UNCHANGED vars
  BY <1>0 DEF Dimensions, vars, conn
<1> SUFFICES ASSUME NEW c \in Conns, Upsert(c) \/ Step(c) \/ Disconnect(c) \/ ServerAbort(c)
             PROVE  Dimensions'
  BY <1>0 DEF Next
<1>1. CASE Quiet(c)
  BY <1>1, QuietRows DEF Dimensions
<1>2. CASE PutRow(c)
  <2>1. Dim[Content(NextRow(c)).vec] = tableDim
    BY <1>2, PutRowRows, RowFacts DEF RightDim
  <2> QED
    BY <1>2, <2>1, PutRowRows DEF Dimensions
<1>3. CASE Commit(c)
  <2>1. "documents" \in schema
    BY <1>3, CommitRows, StatementFacts DEF SchemaBeforeRows
  <2> QED
    BY <1>3, <2>1, CommitRows DEF Dimensions
<1>4. CASE Create(c)
  <2>1. CASE tableDim' = tableDim
    BY <1>4, <2>1, CreateRows DEF Dimensions
  <2>2. CASE "documents" \notin schema
    <3>1. \A d \in Conns : pending[d] = NoRows
      BY <2>2, StatementFacts DEF TypeOK, SchemaBeforeRows
    <3>2. \A d \in Conns, k \in Keys : pending[d][k] = NoRow /\ table[k] = NoRow
      BY <2>2, <3>1 DEF Dimensions, NoRows
    <3> QED
      BY <1>4, <3>2, CreateRows DEF Dimensions
  <2> QED
    BY <1>4, <2>1, <2>2, CreateRows
<1> QED
  BY <1>1, <1>2, <1>3, <1>4 DEF Step, Quiet

(* Rows go from a batch to its transaction and from there to the table.    *)
LEMMA OriginsInv ==
    ASSUME TypeOK, Callers, Origins, EmbeddingOfContent, [Next]_vars
    PROVE  Origins' /\ EmbeddingOfContent'
<1>0. CASE UNCHANGED vars
  BY <1>0 DEF Origins, EmbeddingOfContent, IsRowOf, vars, conn
<1> SUFFICES ASSUME NEW c \in Conns, Upsert(c) \/ Step(c) \/ Disconnect(c) \/ ServerAbort(c)
             PROVE  Origins' /\ EmbeddingOfContent'
  BY <1>0 DEF Next
<1> DEFINE Sound == \A k \in Keys : table[k] # NoRow => \E d \in applied : IsRowOf(batch[d], k, table[k])
<1>e. (EmbeddingOfContent <=> Sound) /\ (EmbeddingOfContent' <=> Sound')
  BY DEF EmbeddingOfContent, IsRowOf
<1>1. CASE Quiet(c)
  <2>1. Origins'
    BY <1>1, QuietRows DEF Origins, NoRows
  <2>2. \A d \in applied : batch'[d] = batch[d]
    BY <1>1, QuietRows DEF TypeOK
  <2>3. Sound'
    BY <1>1, <1>e, <2>2, QuietRows
  <2> QED
    BY <1>e, <2>1, <2>3
<1>2. CASE PutRow(c)
  <2>1. IsRowOf(batch[c], NextRow(c).key, Content(NextRow(c)))
    BY <1>2, PutRowRows DEF IsRowOf, NextRow
  <2>2. Origins'
    BY <1>2, <2>1, PutRowRows DEF Origins
  <2>3. Sound'
    BY <1>2, <1>e, PutRowRows
  <2> QED
    BY <1>e, <2>2, <2>3
<1>3. CASE Commit(c)
  <2>1. Origins'
    BY <1>3, CommitRows DEF Origins
  <2>2. Sound'
    BY <1>3, <1>e, CommitRows DEF Origins
  <2> QED
    BY <1>e, <2>1, <2>2
<1>4. CASE Create(c)
  <2>1. Origins'
    BY <1>4, CreateRows DEF Origins
  <2>2. Sound'
    BY <1>4, <1>e, CreateRows
  <2> QED
    BY <1>e, <2>1, <2>2
<1> QED
  BY <1>1, <1>2, <1>3, <1>4 DEF Step, Quiet

-----------------------------------------------------------------------------
(* Every step of every caller keeps it. *)
THEOREM NextInv == IInv /\ [Next]_vars => IInv'
BY TypeInv, SchemaInv, DimensionsInv, OriginsInv DEF IInv

LEMMA Invariance == Spec => []IInv
BY InitInv, NextInv, PTL DEF Spec

LEMMA Consequences == IInv => TypeOK /\ SchemaBeforeRows /\ EmbeddingsFit
<1> SUFFICES ASSUME IInv PROVE OneDimension
  BY DEF IInv, EmbeddingsFit
<1> QED
  BY DEF IInv, Dimensions, OneDimension, Current

(* Every call works on rows and statements that exist, and holds locks and *)
(* uncommitted rows only between its first row and its end, so none is     *)
(* left behind by a failure.                                               *)
THEOREM TypeCorrect == Spec => []TypeOK
BY Invariance, Consequences, PTL

(* No caller sends a row before the whole schema is there, however many    *)
(* callers create it together and wherever some of them fail.              *)
THEOREM SchemaFirst == Spec => []SchemaBeforeRows
BY Invariance, Consequences, PTL

(* All embeddings that are stored or pending have the column's dimension,  *)
(* and every stored row is a row of a batch that was applied, with the     *)
(* embedding that came with its content.                                   *)
THEOREM NoMixture == Spec => []EmbeddingsFit
BY Invariance, Consequences, PTL

-----------------------------------------------------------------------------
(* Documents implements DocumentTable, for any number of callers, any      *)
(* batches and any database they may find: however statements, deadlocks   *)
(* and lost connections interleave, each batch takes effect at one instant. *)

(* How many rows of its batch a transaction has done. *)
Done(c) == at[c] - 1
InTransaction(c) == pc[c] \in {"row", "sync"}

(* What a caller was told and has counted, by where it is. *)
Progress ==
    \A c \in Conns :
        /\ pc[c] = "new" => batch[c] = <<>> /\ reply[c] = NoReply
        /\ pc[c] \in {"new", "check", "create"} => count[c] = 0
        /\ pc[c] \in {"new", "check", "create", "row", "sync"} => c \notin applied
        /\ pc[c] = "committed" => c \in applied /\ reply[c] = NoReply
        /\ pc[c] = "sync" => Done(c) = Len(batch[c])

(* No two transactions have locked the same key, and they write only keys   *)
(* they have locked: those of the rows they have done.                      *)
Exclusive ==
    /\ \A c, d \in Conns : c # d => locks[c] \cap locks[d] = {}
    /\ \A c \in Conns, k \in Keys : pending[c][k] # NoRow => k \in locks[c]
    /\ \A c \in Conns : InTransaction(c) =>
        \A i \in 1 .. Done(c) : batch[c][i].key \in locks[c]

(* A transaction sees the committed table with the rows it has done applied *)
(* to it, under each key the content of the last of them.                   *)
Prefix(c) ==
    /\ \A k \in Keys : Current(c, k) = Applied(table, batch[c], Done(c))[k]
    /\ \A k \in Keys : KeyRows(batch[c], Done(c), k) # {} =>
        /\ Current(c, k) # NoRow
        /\ Current(c, k).sha = batch[c][Max(KeyRows(batch[c], Done(c), k))].sha
    /\ count[c] = ChangeCount(table, batch[c], Done(c))
Prefixes == \A c \in Conns : InTransaction(c) => Prefix(c)

RInv == IInv /\ Progress /\ Exclusive /\ Prefixes

-----------------------------------------------------------------------------
(* The last of the rows up to n + 1 is n + 1, if it is one of them. *)
LEMMA MaxOfNext ==
    ASSUME NEW n \in Nat, NEW S \in SUBSET (1 .. n)
    PROVE  Max(S \cup {n + 1}) = n + 1
<1> DEFINE T == S \cup {n + 1}
<1>1. n + 1 \in T /\ \A y \in T : n + 1 >= y
  OBVIOUS
<1>2. \A x \in T : (\A y \in T : x >= y) => x = n + 1
  OBVIOUS
<1> QED
  BY <1>1, <1>2 DEF Max

(* Without a row there is nothing to apply. *)
LEMMA NothingApplied ==
    ASSUME NEW t \in Tables, NEW b \in Seq(Rows)
    PROVE  /\ \A k \in Keys : KeyRows(b, 0, k) = {}
           /\ Applied(t, b, 0) = t
           /\ ChangeCount(t, b, 0) = 0
<1>1. \A k \in Keys : KeyRows(b, 0, k) = {}
  BY DEF KeyRows
<1>2. \A k \in Keys : Effective(t, b, 0, k) = {}
  BY <1>1 DEF Effective
<1>3. Applied(t, b, 0) = t
  BY <1>2 DEF Applied, Tables
<1>4. {i \in 1 .. 0 : Changes(t, b, i)} = {}
  OBVIOUS
<1> QED
  BY <1>1, <1>3, <1>4, FS_EmptySet DEF ChangeCount

(* What one more row of a batch adds to what its first n come to. *)
LEMMA KeyRowsStep ==
    ASSUME NEW b, NEW n \in Nat, NEW k
    PROVE  /\ KeyRows(b, n + 1, k) = IF b[n + 1].key = k THEN KeyRows(b, n, k) \cup {n + 1}
                                     ELSE KeyRows(b, n, k)
           /\ KeyRows(b, n, k) \subseteq 1 .. n
<1>1. 1 .. (n + 1) = (1 .. n) \cup {n + 1}
  OBVIOUS
<1> QED
  BY <1>1 DEF KeyRows

LEMMA AppliedStep ==
    ASSUME NEW t, NEW b, NEW n \in Nat
    PROVE  /\ \A k \in Keys : Applied(t, b, n + 1)[k] =
                IF Changes(t, b, n + 1) /\ k = b[n + 1].key THEN Content(b[n + 1])
                ELSE Applied(t, b, n)[k]
           /\ ChangeCount(t, b, n + 1) =
                ChangeCount(t, b, n) + IF Changes(t, b, n + 1) THEN 1 ELSE 0
           /\ ChangeCount(t, b, n) \in Nat
<1>1. ASSUME NEW k \in Keys
      PROVE  Applied(t, b, n + 1)[k] =
                IF Changes(t, b, n + 1) /\ k = b[n + 1].key THEN Content(b[n + 1])
                ELSE Applied(t, b, n)[k]
  <2>1. Effective(t, b, n, k) \subseteq 1 .. n
    BY KeyRowsStep DEF Effective
  <2>2. CASE Changes(t, b, n + 1) /\ k = b[n + 1].key
    <3>0. KeyRows(b, n + 1, k) = KeyRows(b, n, k) \cup {n + 1}
      BY <2>2, KeyRowsStep
    <3>1. Effective(t, b, n + 1, k) = Effective(t, b, n, k) \cup {n + 1}
      BY <2>2, <3>0 DEF Effective
    <3>2. Max(Effective(t, b, n + 1, k)) = n + 1
      BY <3>1, <2>1, MaxOfNext
    <3> QED
      BY <2>2, <3>1, <3>2 DEF Applied
  <2>3. CASE ~(Changes(t, b, n + 1) /\ k = b[n + 1].key)
    <3>1. Effective(t, b, n + 1, k) = Effective(t, b, n, k)
      BY <2>3, KeyRowsStep DEF Effective
    <3> QED
      BY <2>3, <3>1 DEF Applied
  <2> QED
    BY <2>2, <2>3
<1> DEFINE Changing(m) == {i \in 1 .. m : Changes(t, b, i)}
<1>2. IsFiniteSet(Changing(n)) /\ Cardinality(Changing(n)) \in Nat
  <2>1. IsFiniteSet(1 .. n)
    BY FS_Interval
  <2>2. IsFiniteSet(Changing(n))
    BY <2>1, FS_Subset
  <2> QED
    BY <2>2, FS_CardinalityType
<1>3. Changing(n + 1) = IF Changes(t, b, n + 1) THEN Changing(n) \cup {n + 1} ELSE Changing(n)
  <2>1. 1 .. (n + 1) = (1 .. n) \cup {n + 1}
    OBVIOUS
  <2> QED
    BY <2>1
<1>4. n + 1 \notin Changing(n)
  OBVIOUS
<1>5. ChangeCount(t, b, n) = Cardinality(Changing(n))
      /\ ChangeCount(t, b, n + 1) = Cardinality(Changing(n + 1))
  BY DEF ChangeCount
<1>6. Cardinality(Changing(n + 1)) = Cardinality(Changing(n)) + IF Changes(t, b, n + 1) THEN 1 ELSE 0
  <2> HIDE DEF Changing
  <2>1. CASE Changes(t, b, n + 1)
    BY <1>2, <1>3, <1>4, <2>1, FS_AddElement
  <2>2. CASE ~Changes(t, b, n + 1)
    BY <1>2, <1>3, <2>2
  <2> QED
    BY <2>1, <2>2
<1> QED
  BY <1>1, <1>2, <1>5, <1>6

(* The content a batch's first n rows leave under a key does not depend on *)
(* what the table held under others.                                       *)
LEMMA AppliedLocal ==
    ASSUME NEW t \in Tables, NEW u \in Tables, NEW b \in Seq(Rows), NEW n \in Nat,
           \A i \in 1 .. n : b[i].key \in Keys /\ t[b[i].key] = u[b[i].key]
    PROVE  /\ \A k \in Keys : t[k] = u[k] => Applied(t, b, n)[k] = Applied(u, b, n)[k]
           /\ \A k \in Keys : KeyRows(b, n, k) = {} => Applied(t, b, n)[k] = t[k]
           /\ ChangeCount(t, b, n) = ChangeCount(u, b, n)
<1>1. \A i \in 1 .. n : Changes(t, b, i) <=> Changes(u, b, i)
  BY DEF Changes
<1>2. \A k \in Keys : Effective(t, b, n, k) = Effective(u, b, n, k)
  BY <1>1 DEF Effective, KeyRows
<1>3. {i \in 1 .. n : Changes(t, b, i)} = {i \in 1 .. n : Changes(u, b, i)}
  BY <1>1
<1>4. \A k \in Keys : t[k] = u[k] => Applied(t, b, n)[k] = Applied(u, b, n)[k]
  BY <1>2 DEF Applied
<1>5. \A k \in Keys : KeyRows(b, n, k) = {} => Applied(t, b, n)[k] = t[k]
  BY DEF Applied, Effective
<1> QED
  BY <1>3, <1>4, <1>5 DEF ChangeCount

-----------------------------------------------------------------------------
(* A caller's step leaves the other connections where they are; only a     *)
(* commit changes the table.                                               *)
Acts(c) == Upsert(c) \/ Step(c) \/ Disconnect(c) \/ ServerAbort(c)
Untouched(d) ==
    /\ pc'[d] = pc[d] /\ at'[d] = at[d] /\ batch'[d] = batch[d] /\ reply'[d] = reply[d]
    /\ pending'[d] = pending[d] /\ locks'[d] = locks[d] /\ count'[d] = count[d]
    /\ d \in applied' <=> d \in applied

LEMMA OthersUntouched ==
    ASSUME TypeOK, NEW c \in Conns, Acts(c), NEW d \in Conns \ {c}
    PROVE  Untouched(d) /\ (table' = table \/ Commit(c))
<1>1. Upsert(c) => Untouched(d) /\ table' = table
  BY DEF Upsert, TypeOK, Untouched
<1>2. SkipExisting(c) => Untouched(d) /\ table' = table
  BY DEF SkipExisting, Advance, TypeOK, Untouched
<1>3. FindMissing(c) => Untouched(d) /\ table' = table
  BY DEF FindMissing, TypeOK, Untouched
<1>4. Create(c) => Untouched(d) /\ table' = table
  BY DEF Create, Advance, TypeOK, Untouched
<1>5. CreateFails(c) => Untouched(d) /\ table' = table
  BY DEF CreateFails, Error, Close, TypeOK, Untouched
<1>6. PutRow(c) => Untouched(d) /\ table' = table
  <2>1. locks' = [locks EXCEPT ![c] = @ \cup {NextRow(c).key}] => locks'[d] = locks[d]
    BY DEF TypeOK
  <2>2. \/ pending' = pending /\ count' = count
        \/ /\ pending' = [pending EXCEPT ![c][NextRow(c).key] = Content(NextRow(c))]
           /\ count' = [count EXCEPT ![c] = @ + 1]
        => pending'[d] = pending[d] /\ count'[d] = count[d]
    BY DEF TypeOK
  <2> QED
    BY <2>1, <2>2 DEF PutRow, Written, TypeOK, Untouched
<1>7. PutRowFails(c) => Untouched(d) /\ table' = table
  BY DEF PutRowFails, Error, Close, TypeOK, Untouched
<1>8. DeadlockVictim(c) => Untouched(d) /\ table' = table
  BY DEF DeadlockVictim, Error, Close, TypeOK, Untouched
<1>9. Commit(c) => Untouched(d)
  BY DEF Commit, TypeOK, Untouched
<1>10. Return(c) => Untouched(d) /\ table' = table
  BY DEF Return, Close, TypeOK, Untouched
<1>11. Disconnect(c) => Untouched(d) /\ table' = table
  BY DEF Disconnect, TypeOK, Untouched
<1>12. ServerAbort(c) => Untouched(d) /\ table' = table
  BY DEF ServerAbort, Close, TypeOK, Untouched
<1> QED
  BY <1>1, <1>2, <1>3, <1>4, <1>5, <1>6, <1>7, <1>8, <1>9, <1>10, <1>11, <1>12 DEF Acts, Step

(* What each action does to the connection it is a step of. *)
LEMMA PutRowOwn ==
    ASSUME TypeOK, NEW c \in Conns, PutRow(c)
    PROVE  /\ pc[c] = "row" /\ pc'[c] = IF at[c] = Len(batch[c]) THEN "sync" ELSE "row"
           /\ at[c] \in DOMAIN batch[c] /\ at'[c] = at[c] + 1
           /\ NextRow(c) \in Rows /\ NextRow(c).key \in Keys
           /\ batch' = batch /\ reply' = reply /\ applied' = applied /\ table' = table
           /\ locks'[c] = locks[c] \cup {NextRow(c).key}
           /\ \A d \in Conns \ {c} : NextRow(c).key \notin locks[d]
           /\ \A k \in Keys : pending'[c][k] =
                IF Differs(Current(c, NextRow(c).key), NextRow(c)) /\ k = NextRow(c).key
                THEN Content(NextRow(c)) ELSE pending[c][k]
           /\ count'[c] = count[c] +
                IF Differs(Current(c, NextRow(c).key), NextRow(c)) THEN 1 ELSE 0
<1>1. NextRow(c) \in Rows /\ at[c] \in DOMAIN batch[c] /\ NextRow(c).key \in Keys
  BY BatchFacts, RowFacts DEF PutRow, TypeOK
<1>2. IF Differs(Current(c, NextRow(c).key), NextRow(c))
      THEN /\ pending' = [pending EXCEPT
                    ![c] = [pending[c] EXCEPT ![NextRow(c).key] = Content(NextRow(c))]]
           /\ count' = [count EXCEPT ![c] = count[c] + 1]
      ELSE pending' = pending /\ count' = count
  BY DEF PutRow, Written
<1>3. pending \in [Conns -> Tables] /\ pending[c] \in [Keys -> Stored \cup {NoRow}]
      /\ count \in [Conns -> Nat]
  BY DEF TypeOK, Tables
<1>4. /\ \A k \in Keys : pending'[c][k] =
            IF Differs(Current(c, NextRow(c).key), NextRow(c)) /\ k = NextRow(c).key
            THEN Content(NextRow(c)) ELSE pending[c][k]
      /\ count'[c] = count[c] + IF Differs(Current(c, NextRow(c).key), NextRow(c)) THEN 1 ELSE 0
  BY <1>1, <1>2, <1>3
<1>5. \A d \in Conns \ {c} : NextRow(c).key \notin locks[d]
  BY DEF PutRow, Blocker
<1> QED
  BY <1>1, <1>4, <1>5 DEF PutRow, TypeOK

LEMMA CommitOwn ==
    ASSUME TypeOK, NEW c \in Conns, Commit(c)
    PROVE  /\ pc[c] = "sync" /\ pc'[c] = IF reply[c] = NoReply THEN "committed" ELSE "closed"
           /\ batch' = batch /\ reply' = reply /\ count' = count
           /\ applied' = applied \cup {c} /\ locks'[c] = {} /\ pending'[c] = NoRows
           /\ table' \in Tables /\ \A k \in Keys : table'[k] = Current(c, k)
<1>1. table' \in Tables
  BY DEF Commit, Merged, Current, TypeOK, Tables
<1> QED
  BY <1>1 DEF Commit, Merged, TypeOK

(* The steps that leave the rows alone either leave the transaction as it  *)
(* is, or begin it, or end it.                                             *)
LEMMA OtherOwn ==
    ASSUME TypeOK, Callers, NEW c \in Conns, Quiet(c) \/ Create(c)
    PROVE  /\ table' = table /\ applied' = applied /\ count' = count
           /\ \/ locks'[c] = locks[c] /\ pending'[c] = pending[c]
              \/ locks'[c] = {} /\ pending'[c] = NoRows
           /\ InTransaction(c)' =>
                \/ /\ pc'[c] = pc[c] /\ at'[c] = at[c] /\ batch' = batch
                   /\ locks'[c] = locks[c] /\ pending'[c] = pending[c]
                \/ pc'[c] = "row" /\ pc[c] \in {"check", "create"} /\ at'[c] = 1 /\ batch' = batch
<1> DEFINE Goal ==
        /\ table' = table /\ applied' = applied /\ count' = count
        /\ \/ locks'[c] = locks[c] /\ pending'[c] = pending[c]
           \/ locks'[c] = {} /\ pending'[c] = NoRows
        /\ InTransaction(c)' =>
            \/ /\ pc'[c] = pc[c] /\ at'[c] = at[c] /\ batch' = batch
               /\ locks'[c] = locks[c] /\ pending'[c] = pending[c]
            \/ pc'[c] = "row" /\ pc[c] \in {"check", "create"} /\ at'[c] = 1 /\ batch' = batch
<1>1. Upsert(c) => Goal
  BY DEF Upsert, TypeOK, InTransaction
<1>2. SkipExisting(c) \/ Create(c) => Goal
  <2>1. SkipExisting(c) \/ Create(c) => Advance(c)
    BY DEF SkipExisting, Create
  <2>2. Advance(c) => pc'[c] \in {"closed", "row", "check"} /\ (pc'[c] = "row" => at'[c] = 1)
    BY DEF Advance, TypeOK
  <2> QED
    BY <2>1, <2>2 DEF SkipExisting, Create, Advance, InTransaction
<1>3. FindMissing(c) => Goal
  BY DEF FindMissing, TypeOK, InTransaction
<1>4. CreateFails(c) => Goal
  BY DEF CreateFails, Error, Close, TypeOK, InTransaction
<1>5. PutRowFails(c) => Goal
  BY DEF PutRowFails, Error, Close, TypeOK, InTransaction
<1>6. DeadlockVictim(c) => Goal
  BY DEF DeadlockVictim, Error, Close, TypeOK, InTransaction
<1>7. Return(c) => Goal
  BY DEF Return, Close, TypeOK, InTransaction
<1>8. Disconnect(c) => Goal
  BY DEF Disconnect, TypeOK, InTransaction
<1>9. ServerAbort(c) => Goal
  BY DEF ServerAbort, Close, TypeOK, InTransaction
<1> QED
  BY <1>1, <1>2, <1>3, <1>4, <1>5, <1>6, <1>7, <1>8, <1>9 DEF Quiet

-----------------------------------------------------------------------------
(* The strengthened invariant, part by part. *)
THEOREM RInitInv == Init => RInv
<1> SUFFICES ASSUME Init PROVE Progress /\ Exclusive /\ Prefixes
  BY InitInv DEF RInv
<1> QED
  BY DEF Init, Progress, Exclusive, Prefixes, InTransaction, NoRows

LEMMA ProgressInv ==
    ASSUME TypeOK, Callers, Progress, [Next]_vars
    PROVE  Progress'
<1>0. CASE UNCHANGED vars
  BY <1>0 DEF Progress, Done, vars, conn
<1> SUFFICES ASSUME NEW c \in Conns, Acts(c) PROVE Progress'
  BY <1>0 DEF Next, Acts
<1> DEFINE P(d) ==
        /\ pc[d] = "new" => batch[d] = <<>> /\ reply[d] = NoReply
        /\ pc[d] \in {"new", "check", "create"} => count[d] = 0
        /\ pc[d] \in {"new", "check", "create", "row", "sync"} => d \notin applied
        /\ pc[d] = "committed" => d \in applied /\ reply[d] = NoReply
        /\ pc[d] = "sync" => Done(d) = Len(batch[d])
<1>1. \A d \in Conns : P(d)
  BY DEF Progress
<1>2. \A d \in Conns \ {c} : P(d)'
  BY <1>1, OthersUntouched DEF Untouched, Done
<1>3. Upsert(c) => P(c)'
  BY <1>1 DEF Upsert, TypeOK
<1>4. SkipExisting(c) \/ Create(c) => P(c)'
  <2>1. Advance(c) => pc'[c] \in {"closed", "row", "check"}
    BY DEF Advance, TypeOK
  <2> QED
    BY <1>1, <2>1 DEF SkipExisting, Create, Advance
<1>5. FindMissing(c) => P(c)'
  BY <1>1 DEF FindMissing, TypeOK
<1>6. CreateFails(c) => P(c)'
  BY <1>1 DEF CreateFails, Error, Close, TypeOK
<1>7. PutRow(c) => P(c)'
  <2> SUFFICES ASSUME PutRow(c) PROVE P(c)'
    OBVIOUS
  <2>1. at[c] \in Nat
    BY DEF TypeOK
  <2>2. pc'[c] = "sync" => Done(c)' = Len(batch[c])
    BY <2>1, PutRowOwn DEF Done
  <2> QED
    BY <1>1, <2>2, PutRowOwn
<1>8. PutRowFails(c) \/ DeadlockVictim(c) => P(c)'
  BY <1>1 DEF PutRowFails, DeadlockVictim, Error, Close, TypeOK
<1>9. Commit(c) => P(c)'
  BY <1>1, CommitOwn
<1>10. Return(c) => P(c)'
  BY <1>1 DEF Return, Close, TypeOK
<1>11. Disconnect(c) => P(c)'
  BY <1>1 DEF Disconnect, TypeOK, Done
<1>12. ServerAbort(c) => P(c)'
  BY <1>1 DEF ServerAbort, Close, TypeOK
<1>13. P(c)'
  BY <1>3, <1>4, <1>5, <1>6, <1>7, <1>8, <1>9, <1>10, <1>11, <1>12 DEF Acts, Step
<1> QED
  BY <1>2, <1>13 DEF Progress

LEMMA ActsCases ==
    ASSUME NEW c \in Conns, Acts(c)
    PROVE  PutRow(c) \/ Commit(c) \/ Quiet(c) \/ Create(c)
BY DEF Acts, Step, Quiet

LEMMA DoneRange ==
    ASSUME TypeOK, Progress, NEW c \in Conns, InTransaction(c)
    PROVE  Done(c) \in Nat /\ 1 .. Done(c) \subseteq DOMAIN batch[c]
           /\ \A i \in 1 .. Done(c) : batch[c][i] \in Rows /\ batch[c][i].key \in Keys
<1>1. Done(c) \in Nat /\ batch[c] \in Seq(Rows)
  BY BatchFacts DEF TypeOK, Done
<1>2. Done(c) <= Len(batch[c])
  BY <1>1 DEF InTransaction, Progress, TypeOK, Done
<1>3. 1 .. Done(c) \subseteq DOMAIN batch[c]
  BY <1>1, <1>2
<1> QED
  BY <1>1, <1>3, BatchFacts, RowFacts

LEMMA ExclusiveInv ==
    ASSUME TypeOK, Callers, Progress, Exclusive, [Next]_vars
    PROVE  Exclusive'
<1>0. CASE UNCHANGED vars
  BY <1>0 DEF Exclusive, InTransaction, Done, vars, conn
<1> SUFFICES ASSUME NEW c \in Conns, Acts(c) PROVE Exclusive'
  BY <1>0 DEF Next, Acts
<1> DEFINE Own(d) ==
        /\ \A k \in Keys : pending[d][k] # NoRow => k \in locks[d]
        /\ InTransaction(d) => \A i \in 1 .. Done(d) : batch[d][i].key \in locks[d]
<1>1. \A d \in Conns : Own(d)
  BY DEF Exclusive
<1>2. \A d \in Conns \ {c} : Untouched(d)
  BY OthersUntouched
<1>3. \A d \in Conns \ {c} : Own(d)'
  BY <1>1, <1>2 DEF Untouched, InTransaction, Done
<1>4. (\A d \in Conns \ {c} : locks'[c] \cap locks[d] = {}) /\ Own(c)'
  <2>1. CASE PutRow(c)
    <3>1. \A d \in Conns \ {c} : locks'[c] \cap locks[d] = {}
      BY <2>1, PutRowOwn DEF Exclusive
    <3>2. ASSUME NEW i \in 1 .. Done(c)' PROVE batch'[c][i].key \in locks'[c]
      <4>1. at[c] \in Nat /\ at'[c] = at[c] + 1 /\ InTransaction(c)
        BY <2>1, PutRowOwn DEF TypeOK, InTransaction
      <4>2. i \in 1 .. Done(c) \/ i = at[c]
        BY <4>1 DEF Done
      <4> QED
        BY <1>1, <2>1, <4>1, <4>2, PutRowOwn DEF NextRow
    <3>3. \A k \in Keys : pending'[c][k] # NoRow => k \in locks'[c]
      BY <1>1, <2>1, PutRowOwn
    <3> QED
      BY <3>1, <3>2, <3>3
  <2>2. CASE Commit(c)
    <3>1. ~InTransaction(c)'
      BY <2>2, CommitOwn DEF InTransaction
    <3> QED
      BY <2>2, <3>1, CommitOwn DEF NoRows
  <2>3. CASE Quiet(c) \/ Create(c)
    <3>1. /\ \A d \in Conns \ {c} : locks'[c] \cap locks[d] = {}
          /\ \A k \in Keys : pending'[c][k] # NoRow => k \in locks'[c]
      BY <1>1, <2>3, OtherOwn DEF Exclusive, NoRows
    <3>2. ASSUME InTransaction(c)' PROVE \A i \in 1 .. Done(c)' : batch'[c][i].key \in locks'[c]
      <4>1. CASE pc'[c] = pc[c] /\ at'[c] = at[c] /\ batch' = batch /\ locks'[c] = locks[c]
        BY <1>1, <3>2, <4>1 DEF InTransaction, Done
      <4>2. CASE at'[c] = 1
        BY <4>2 DEF Done
      <4> QED
        BY <2>3, <3>2, <4>1, <4>2, OtherOwn
    <3> QED
      BY <3>1, <3>2
  <2> QED
    BY <2>1, <2>2, <2>3, ActsCases
<1>5. \A d, e \in Conns : d # e => locks'[d] \cap locks'[e] = {}
  <2> SUFFICES ASSUME NEW d \in Conns, NEW e \in Conns, d # e PROVE locks'[d] \cap locks'[e] = {}
    OBVIOUS
  <2>1. CASE d # c /\ e # c
    BY <1>2, <2>1 DEF Untouched, Exclusive
  <2>2. CASE d = c
    BY <1>2, <1>4, <2>2 DEF Untouched
  <2>3. CASE e = c
    BY <1>2, <1>4, <2>3 DEF Untouched
  <2> QED
    BY <2>1, <2>2, <2>3
<1> QED
  BY <1>3, <1>4, <1>5 DEF Exclusive

-----------------------------------------------------------------------------
(* The row a transaction does next changes the table, applied after those  *)
(* it has done, exactly when the statement finds its content different.    *)
LEMMA ChangesIsDiffers ==
    ASSUME TypeOK, NEW c \in Conns, Prefix(c), pc[c] = "row"
    PROVE  Changes(table, batch[c], at[c]) <=> Differs(Current(c, NextRow(c).key), NextRow(c))
<1> DEFINE k == NextRow(c).key
           earlier == KeyRows(batch[c], at[c] - 1, k)
<1>1. NextRow(c) = batch[c][at[c]] /\ k \in Keys /\ Done(c) = at[c] - 1
  BY BatchFacts, RowFacts DEF NextRow, Done
<1>2. CASE earlier = {}
  <2>1. Current(c, k) = table[k]
    BY <1>1, <1>2 DEF Prefix, Applied, Effective
  <2> QED
    BY <1>1, <1>2, <2>1 DEF Changes, Differs
<1>3. CASE earlier # {}
  <2>1. Current(c, k) # NoRow /\ Current(c, k).sha = batch[c][Max(earlier)].sha
    BY <1>1, <1>3 DEF Prefix
  <2> QED
    BY <1>1, <1>3, <2>1 DEF Changes, Differs
<1> QED
  BY <1>2, <1>3

(* One more row done. *)
LEMMA PutRowPrefix ==
    ASSUME TypeOK, Progress, NEW c \in Conns, Prefix(c), PutRow(c)
    PROVE  Prefix(c)'
<1> DEFINE n == Done(c)
           r == NextRow(c)
<1>1. /\ n \in Nat /\ at[c] = n + 1 /\ Done(c)' = n + 1 /\ batch[c][n + 1] = r
      /\ batch' = batch /\ table' = table /\ r \in Rows /\ r.key \in Keys
  <2>1. at[c] \in Nat /\ at[c] # 0 /\ at'[c] = at[c] + 1
    BY PutRowOwn DEF TypeOK
  <2>2. n \in Nat /\ at[c] = n + 1 /\ Done(c)' = n + 1
    BY <2>1 DEF Done
  <2> HIDE DEF n
  <2>3. batch[c][n + 1] = r
    BY <2>2 DEF NextRow
  <2> QED
    BY <2>2, <2>3, PutRowOwn
<1>2. Changes(table, batch[c], n + 1) <=> Differs(Current(c, r.key), r)
  BY <1>1, ChangesIsDiffers, PutRowOwn
<1> HIDE DEF n, r
<1>3. Content(r) # NoRow /\ Content(r).sha = r.sha
  BY <1>1, RowFacts DEF Content
<1>4. ASSUME NEW k \in Keys
      PROVE  Current(c, k)' = IF Differs(Current(c, r.key), r) /\ k = r.key THEN Content(r)
                              ELSE Current(c, k)
  BY <1>1, <1>3, PutRowOwn DEF Current, r
<1>5. \A k \in Keys : Current(c, k)' = Applied(table, batch[c], n + 1)[k]
  <2>1. \A k \in Keys : Current(c, k) = Applied(table, batch[c], n)[k]
    BY DEF Prefix, n
  <2> QED
    BY <1>1, <1>2, <1>4, <2>1, AppliedStep
<1>6. ASSUME NEW k \in Keys, KeyRows(batch[c], n + 1, k) # {}
      PROVE  /\ Current(c, k)' # NoRow
             /\ Current(c, k)'.sha = batch[c][Max(KeyRows(batch[c], n + 1, k))].sha
  <2>1. CASE k = r.key
    <3>1. Max(KeyRows(batch[c], n + 1, k)) = n + 1
      <4>1. /\ KeyRows(batch[c], n + 1, k) = KeyRows(batch[c], n, k) \cup {n + 1}
            /\ KeyRows(batch[c], n, k) \in SUBSET (1 .. n)
        BY <1>1, <2>1, KeyRowsStep
      <4> QED
        BY <1>1, <4>1, MaxOfNext
    <3>2. Current(c, k)' # NoRow /\ Current(c, k)'.sha = r.sha
      BY <1>3, <1>4, <2>1 DEF Differs
    <3> QED
      BY <1>1, <3>1, <3>2
  <2>2. CASE k # r.key
    <3>1. KeyRows(batch[c], n + 1, k) = KeyRows(batch[c], n, k)
      BY <1>1, <2>2, KeyRowsStep
    <3>2. Current(c, k)' = Current(c, k)
      BY <1>4, <2>2
    <3> QED
      BY <1>6, <3>1, <3>2 DEF Prefix, n
  <2> QED
    BY <2>1, <2>2
<1>7. count'[c] = ChangeCount(table, batch[c], n + 1)
  <2>1. count[c] = ChangeCount(table, batch[c], n)
    BY DEF Prefix, n
  <2>2. count'[c] = count[c] + IF Differs(Current(c, r.key), r) THEN 1 ELSE 0
    BY PutRowOwn DEF r
  <2> QED
    BY <1>1, <1>2, <2>1, <2>2, AppliedStep
<1> QED
  BY <1>1, <1>5, <1>6, <1>7 DEF Prefix

(* Another transaction's commit writes no key this one has locked, and     *)
(* those are all its rows so far depend on.                                *)
LEMMA CommitPrefix ==
    ASSUME TypeOK, Progress, Exclusive, NEW c \in Conns, Commit(c), NEW d \in Conns \ {c},
           InTransaction(d), Prefix(d)
    PROVE  Prefix(d)'
<1> DEFINE n == Done(d)
           b == batch[d]
<1>1. /\ n \in Nat /\ b \in Seq(Rows) /\ Done(d)' = n /\ batch' = batch
      /\ pending'[d] = pending[d] /\ count'[d] = count[d]
      /\ table \in Tables /\ table' \in Tables
  BY OthersUntouched, CommitOwn, DoneRange, BatchFacts DEF Untouched, Done, Acts, Step, TypeOK
<1>2. \A i \in 1 .. n : b[i].key \in Keys /\ b[i].key \in locks[d]
  BY DoneRange DEF Exclusive
<1>3. \A k \in Keys : table'[k] # table[k] => k \notin locks[d] /\ pending[d][k] = NoRow
  BY CommitOwn DEF Exclusive, Current
<1>4. \A i \in 1 .. n : b[i].key \in Keys /\ table[b[i].key] = table'[b[i].key]
  BY <1>2, <1>3
<1> HIDE DEF n, b
<1>5. \A k \in Keys : k \notin locks[d] => KeyRows(b, n, k) = {}
  BY <1>2 DEF KeyRows
<1>6. /\ \A k \in Keys : table[k] = table'[k] => Applied(table, b, n)[k] = Applied(table', b, n)[k]
      /\ \A k \in Keys : KeyRows(b, n, k) = {} => Applied(table', b, n)[k] = table'[k]
      /\ ChangeCount(table, b, n) = ChangeCount(table', b, n)
  <2>1. \A i \in 1 .. n : b[i].key \in Keys /\ table'[b[i].key] = table[b[i].key]
    BY <1>4
  <2>2. \A k \in Keys : KeyRows(b, n, k) = {} => Applied(table', b, n)[k] = table'[k]
    BY ONLY <1>1, <2>1, AppliedLocal
  <2>3. /\ \A k \in Keys : table[k] = table'[k] => Applied(table, b, n)[k] = Applied(table', b, n)[k]
        /\ ChangeCount(table, b, n) = ChangeCount(table', b, n)
    BY ONLY <1>1, <1>4, AppliedLocal
  <2> QED
    BY <2>2, <2>3
<1>7. ASSUME NEW k \in Keys PROVE Current(d, k)' = Applied(table', b, n)[k]
  <2>1. CASE table'[k] = table[k]
    BY <1>1, <1>6, <2>1 DEF Prefix, Current, n, b
  <2>2. CASE table'[k] # table[k]
    BY <1>1, <1>3, <1>5, <1>6, <2>2 DEF Current
  <2> QED
    BY <2>1, <2>2
<1>8. ASSUME NEW k \in Keys, KeyRows(b, n, k) # {} PROVE Current(d, k)' = Current(d, k)
  BY <1>1, <1>3, <1>5, <1>8 DEF Current
<1>9. count'[d] = ChangeCount(table', b, n)
  BY <1>1, <1>6 DEF Prefix, n, b
<1> QED
  BY <1>1, <1>7, <1>8, <1>9 DEF Prefix, n, b

LEMMA PrefixesInv ==
    ASSUME TypeOK, Callers, Progress, Exclusive, Prefixes, [Next]_vars
    PROVE  Prefixes'
<1>0. CASE UNCHANGED vars
  BY <1>0 DEF Prefixes, Prefix, InTransaction, Current, Done, vars, conn
<1> SUFFICES ASSUME NEW c \in Conns, Acts(c) PROVE Prefixes'
  BY <1>0 DEF Next, Acts
<1>1. ASSUME NEW d \in Conns \ {c}, InTransaction(d)' PROVE Prefix(d)'
  <2>1. Untouched(d) /\ InTransaction(d) /\ Prefix(d)
    BY <1>1, OthersUntouched DEF Untouched, InTransaction, Prefixes
  <2>2. CASE table' = table
    BY <2>1, <2>2 DEF Untouched, Prefix, Current, Done
  <2>3. CASE Commit(c)
    BY <2>1, <2>3, CommitPrefix
  <2> QED
    BY <2>2, <2>3, OthersUntouched
<1>2. ASSUME InTransaction(c)' PROVE Prefix(c)'
  <2>1. CASE PutRow(c)
    <3>1. Prefix(c)
      BY <2>1, PutRowOwn DEF InTransaction, Prefixes
    <3> QED
      BY <2>1, <3>1, PutRowPrefix
  <2>2. CASE Commit(c)
    BY <1>2, <2>2, CommitOwn DEF InTransaction
  <2>3. CASE Quiet(c) \/ Create(c)
    <3>1. table' = table /\ count' = count /\ batch' = batch
      BY <1>2, <2>3, OtherOwn
    <3>2. CASE pc'[c] = pc[c] /\ at'[c] = at[c] /\ pending'[c] = pending[c]
      <4>1. InTransaction(c)
        BY <1>2, <3>2 DEF InTransaction
      <4>2. Done(c)' = Done(c) /\ \A k : Current(c, k)' = Current(c, k)
        BY <3>1, <3>2 DEF Current, Done
      <4> QED
        BY <3>1, <4>1, <4>2 DEF Prefixes, Prefix
    <3>3. CASE pc'[c] = "row" /\ pc[c] \in {"check", "create"} /\ at'[c] = 1
      <4>1. pending[c] = NoRows /\ count[c] = 0 /\ pending'[c] = NoRows
        BY <2>3, <3>3, OtherOwn DEF TypeOK, Progress
      <4>2. Done(c)' = 0
        BY <3>3 DEF Done
      <4>3. \A k \in Keys : Current(c, k)' = table[k]
        BY <3>1, <4>1 DEF Current, NoRows
      <4>4. table \in Tables /\ batch[c] \in Seq(Rows)
        BY BatchFacts DEF TypeOK
      <4> QED
        BY <3>1, <4>1, <4>2, <4>3, <4>4, NothingApplied DEF Prefix
    <3> QED
      BY <1>2, <2>3, <3>2, <3>3, OtherOwn
  <2> QED
    BY <2>1, <2>2, <2>3, ActsCases
<1> QED
  BY <1>1, <1>2 DEF Prefixes

THEOREM RNextInv == RInv /\ [Next]_vars => RInv'
BY NextInv, ProgressInv, ExclusiveInv, PrefixesInv DEF RInv, IInv

-----------------------------------------------------------------------------
(* The abstract specification speaks of the same tables and batches. *)
LEMMA SameTerms ==
    /\ \A t, b, n : /\ Table!Applied(t, b, n) = Applied(t, b, n)
                    /\ Table!ChangeCount(t, b, n) = ChangeCount(t, b, n)
    /\ Table!Failure = Failure /\ Table!NoReply = NoReply /\ Table!Tables = Tables
    /\ \A n : Table!Success(n) = Success(n)
<1>1. \A b, n, k : Table!KeyRows(b, n, k) = KeyRows(b, n, k)
  BY DEF Table!KeyRows, KeyRows
<1>2. \A S : Table!Max(S) = Max(S)
  BY DEF Table!Max, Max
<1>3. \A t, b, i : Table!Changes(t, b, i) <=> Changes(t, b, i)
  BY <1>1, <1>2 DEF Table!Changes, Changes
<1>4. \A t, b, n, k : Table!Effective(t, b, n, k) = Effective(t, b, n, k)
  BY <1>1, <1>3 DEF Table!Effective, Effective
<1>5. \A row : Table!Content(row) = Content(row)
  BY DEF Table!Content, Content
<1>6. \A t, b, n : Table!Applied(t, b, n) = Applied(t, b, n)
  <2> SUFFICES ASSUME NEW t, NEW b, NEW n PROVE Table!Applied(t, b, n) = Applied(t, b, n)
    OBVIOUS
  <2>1. ASSUME NEW k \in Keys
        PROVE  (IF Table!Effective(t, b, n, k) = {} THEN t[k]
                ELSE Table!Content(b[Table!Max(Table!Effective(t, b, n, k))]))
               = IF Effective(t, b, n, k) = {} THEN t[k]
                 ELSE Content(b[Max(Effective(t, b, n, k))])
    BY <1>2, <1>4, <1>5
  <2> QED
    BY ONLY <2>1 DEF Table!Applied, Applied
<1>7. \A t, b, n : Table!ChangeCount(t, b, n) = ChangeCount(t, b, n)
  <2> SUFFICES ASSUME NEW t, NEW b, NEW n
               PROVE  Table!ChangeCount(t, b, n) = ChangeCount(t, b, n)
    OBVIOUS
  <2>1. {i \in 1 .. n : Table!Changes(t, b, i)} = {i \in 1 .. n : Changes(t, b, i)}
    BY <1>3
  <2> QED
    BY ONLY <2>1 DEF Table!ChangeCount, ChangeCount, Table!Cardinality, Cardinality
<1> QED
  BY <1>6, <1>7 DEF Table!Failure, Failure, Table!NoReply, NoReply, Table!Success, Success,
     Table!Tables, Tables, Table!Stored, Stored

changed == [c \in Conns |-> IF c \in applied THEN count[c] ELSE 0]
AbstractVars == <<table, batch, applied, changed, reply>>

LEMMA InitRefines == Init => Table!AInit
<1>1. NoRows \in Tables
  BY RowFacts
<1> QED
  BY <1>1, SameTerms DEF Init, Table!AInit

(* A batch is submitted. *)
LEMMA UpsertSubmits ==
    ASSUME RInv, NEW c \in Conns, Upsert(c)
    PROVE  Table!Submit(c)
<1>1. batch[c] = <<>> /\ reply[c] = NoReply
  BY DEF RInv, Progress, Upsert
<1> QED
  BY <1>1, SameTerms DEF Upsert, Table!Submit

(* It takes effect, whole, when it is committed. *)
LEMMA CommitApplies ==
    ASSUME RInv, NEW c \in Conns, Commit(c)
    PROVE  Table!Apply(c)
<1>1. /\ pc[c] = "sync" /\ Prefix(c) /\ Done(c) = Len(batch[c]) /\ c \notin applied
      /\ batch[c] # <<>>
  BY CommitOwn DEF RInv, IInv, TypeOK, Progress, Prefixes, InTransaction, Callers
<1>2. table' = Applied(table, batch[c], Len(batch[c]))
  BY <1>1 DEF Commit, Merged, Prefix, Applied
<1>3. changed' = [changed EXCEPT ![c] = ChangeCount(table, batch[c], Len(batch[c]))]
  BY <1>1, CommitOwn DEF RInv, IInv, changed, Prefix
<1> QED
  BY <1>1, <1>2, <1>3, SameTerms DEF Commit, Table!Apply, changed

(* The caller is told what was counted. *)
LEMMA ReturnSucceeds ==
    ASSUME RInv, NEW c \in Conns, Return(c)
    PROVE  Table!Succeed(c)
<1>1. c \in applied /\ reply[c] = NoReply
  BY DEF RInv, Progress, Return
<1> QED
  BY <1>1, SameTerms DEF Return, Close, Table!Succeed

(* It is told of an error, once. *)
LEMMA ErrorFails ==
    ASSUME RInv, NEW c \in Conns,
           CreateFails(c) \/ PutRowFails(c) \/ DeadlockVictim(c) \/ Disconnect(c)
    PROVE  Table!Fail(c) \/ UNCHANGED AbstractVars
<1>1. batch[c] # <<>>
  BY DEF RInv, IInv, Callers, CreateFails, PutRowFails, DeadlockVictim, Disconnect
<1>2. UNCHANGED <<table, batch, applied, count>>
  BY DEF CreateFails, PutRowFails, DeadlockVictim, Error, Close, Disconnect
<1>3. reply' = [reply EXCEPT ![c] = IF reply[c] = NoReply THEN Failure ELSE reply[c]]
  BY DEF CreateFails, PutRowFails, DeadlockVictim, Error, Disconnect
<1>4. reply[c] # NoReply => reply' = reply
  BY <1>3 DEF RInv, IInv, TypeOK
<1> QED
  BY <1>1, <1>2, <1>3, <1>4, SameTerms DEF Table!Fail, AbstractVars, changed

(* All other steps are the server's own affair. *)
LEMMA RestStutters ==
    ASSUME RInv, NEW c \in Conns,
           SkipExisting(c) \/ FindMissing(c) \/ Create(c) \/ PutRow(c) \/ ServerAbort(c)
    PROVE  UNCHANGED AbstractVars
<1>1. CASE PutRow(c)
  <2>1. c \notin applied
    BY <1>1, PutRowOwn DEF RInv, IInv, Progress
  <2>2. \A d \in applied : count'[d] = count[d]
    BY <1>1, <2>1, OthersUntouched DEF Untouched, Acts, Step, RInv, IInv, TypeOK
  <2> QED
    BY <1>1, <2>2 DEF PutRow, AbstractVars, changed
<1>2. CASE SkipExisting(c) \/ FindMissing(c) \/ Create(c) \/ ServerAbort(c)
  BY <1>2 DEF SkipExisting, FindMissing, Create, ServerAbort, Advance, Close, AbstractVars, changed
<1> QED
  BY <1>1, <1>2

LEMMA StepRefines == RInv /\ [Next]_vars => [Table!ANext]_AbstractVars
<1> SUFFICES ASSUME RInv, [Next]_vars PROVE [Table!ANext]_AbstractVars
  OBVIOUS
<1>1. CASE UNCHANGED vars
  BY <1>1 DEF vars, conn, AbstractVars, changed
<1>2. ASSUME NEW c \in Conns, Acts(c)
      PROVE  [Table!ANext]_AbstractVars
  BY <1>2, UpsertSubmits, CommitApplies, ReturnSucceeds, ErrorFails, RestStutters
     DEF Acts, Step, Table!ANext
<1> QED
  BY <1>1, <1>2 DEF Next, Acts

(* Documents implements DocumentTable: whatever the interleaving of        *)
(* statements, waits for locks, deadlock victims and lost connections,     *)
(* each batch takes effect whole, at the instant of its commit, and a      *)
(* caller that is told a count is told how many rows changed at that       *)
(* instant.                                                                *)
THEOREM Implements == Spec => Refines
<1>1. Spec => []RInv
  BY RInitInv, RNextInv, PTL DEF Spec
<1>2. RInv /\ [Next]_vars => [Table!ANext]_(Table!avars)
  BY StepRefines DEF AbstractVars, Table!avars, changed
<1> QED
  BY <1>1, <1>2, InitRefines, PTL DEF Spec, Refines, Table!ASpec
=============================================================================
