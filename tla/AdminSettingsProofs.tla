------------------------- MODULE AdminSettingsProofs -------------------------
(* Safety of module AdminSettings, for any number of requests, overlapping *)
(* in any way, with any matrices.                                          *)
EXTENDS AdminSettings, FiniteSetTheorems, WellFoundedInduction, TLAPS

(* Of each save a set of rows has all rows or none, and none before it is  *)
(* over: so it is of the table, and so it is of what a DELETE saw or   *)
(* removes, however old it is.                                             *)
Whole(t) == \A w \in Savers : By(t, w) = {} \/ (By(t, w) = RowsOf(w) /\ pc[w] \in Over)
AllWhole == Whole(table) /\ \A w \in Savers : Whole(snap[w]) /\ Whole(dels[w])

(* What two transactions lock is apart: the rows they delete, the cells    *)
(* they insert, and the cells that others have.                            *)
CellsApart ==
    /\ \A w \in Savers : \A d \in Savers \ {w} :
        /\ dels[w] \cap dels[d] = {}
        /\ \A r \in ins[w], s \in ins[d] \cup dels[d] : r.cell # s.cell
    /\ \A w \in Savers : \A r \in ins[w], s \in table \ dels[w] : r.cell # s.cell

(* The rows a DELETE saw are locked or gone when it has ended. *)
Seen == \A w \in Savers : pc[w] \in {"insert", "unheard"} => snap[w] \cap table \subseteq dels[w]

(* The cells of a save are finitely many, and each is listed once. *)
NoRepeats(s) == \A i, j \in DOMAIN s : s[i] = s[j] => i = j
Once ==
    \A w \in Savers :
        /\ IsFiniteSet(DOMAIN matrix[w])
        /\ NoRepeats(order[w]) /\ Listed(order[w]) \subseteq CellsSent(w)

(* Who does not hear of its COMMIT has been told of a failure. *)
Unheard == \A w \in Savers : pc[w] = "unheard" => reply[w].code = 500

IInv ==
    /\ TypeOK /\ AllWhole /\ CellsApart /\ Seen /\ Once
    /\ AllOrNothing /\ NoTraceOfFailures /\ Unheard

(* What is known of a request in each phase. *)
Asked ==
    \A w \in Savers :
        /\ pc[w] \notin {"unheard"} \cup Over => reply[w] = NoReply
        /\ pc[w] = "new" => req[w] = NoRequest /\ matrix[w] = NoMatrix
        /\ pc[w] = "read" => req[w].method = "GET"
        /\ pc[w] \notin {"new", "read", "done"} => req[w].method = "POST"

(* Without overlap the one request under way finds what it found before.   *)
Alone ==
    ~overlap =>
        /\ \A w, d \in Savers : {pc[w], pc[d]} \cap ({"new"} \cup Over) = {} => w = d
        /\ \A w \in Savers :
            /\ pc[w] = "conflict" => ~VersionMatches(w)
            /\ pc[w] \in {"delete", "deleting", "insert", "unheard"} => VersionMatches(w)
            /\ pc[w] = "deleting" => snap[w] = table
            /\ pc[w] \in {"insert", "unheard"} => dels[w] = table

-----------------------------------------------------------------------------
(* The cells of a matrix, and the rows of a save.                          *)
LEMMA CellsOfMatrix ==
    ASSUME NEW m \in Matrices
    PROVE  /\ CellsOf(m) \subseteq Cells
           /\ \A c \in CellsOf(m) :
                /\ c = <<c[1], c[2]>> /\ c[1] \in DOMAIN m /\ c[2] \in DOMAIN m[c[1]]
                /\ m[c[1]][c[2]] \in BOOLEAN
           /\ \A k \in DOMAIN m : \A o \in DOMAIN m[k] : <<k, o>> \in CellsOf(m)
<1>1. DOMAIN m \subseteq Modules /\ \A k \in DOMAIN m : m[k] \in RolesMatrix
  BY DEF Matrices
<1>2. \A k \in DOMAIN m :
        DOMAIN m[k] \subseteq allowedRoles /\ \A o \in DOMAIN m[k] : m[k][o] \in BOOLEAN
  BY <1>1 DEF RolesMatrix
<1>3. \A c \in CellsOf(m) : c = <<c[1], c[2]>> /\ c[1] \in DOMAIN m /\ c[2] \in DOMAIN m[c[1]]
  BY DEF CellsOf
<1>4. \A k \in DOMAIN m : \A o \in DOMAIN m[k] : <<k, o>> \in CellsOf(m)
  BY DEF CellsOf
<1> QED
  BY <1>1, <1>2, <1>3, <1>4 DEF Cells

LEMMA RowFacts ==
    ASSUME TypeOK, NEW w \in Savers
    PROVE  /\ RowsOf(w) \subseteq Rows
           /\ \A c \in CellsSent(w) : RowFor(w, c) \in RowsOf(w) /\ RowFor(w, c).cell = c
           /\ \A r \in RowsOf(w) :
                /\ r.by = w /\ r.cell \in CellsSent(w) /\ r = RowFor(w, r.cell)
                /\ r.version = NextVersion(w)
           /\ \A r, s \in RowsOf(w) : r.cell = s.cell => r = s
<1>1. NextVersion(w) \in Nat
  <2>1. overlap \in DOMAIN Requests /\ req[w] \in Requests[overlap] \cup {NoRequest}
    BY DEF TypeOK
  <2>2. \A r \in Requests[overlap] : r.version \in Nat
    BY <2>1, AdminAssumption
  <2>3. NoRequest.version \in Nat
    BY DEF NoRequest
  <2> QED
    BY <2>1, <2>2, <2>3 DEF NextVersion
<1>2. matrix[w] \in Matrices
  BY DEF TypeOK
<1>3. \A c \in CellsSent(w) : c \in Cells /\ matrix[w][c[1]][c[2]] \in BOOLEAN
  BY <1>2, CellsOfMatrix DEF CellsSent
<1>4. \A c \in CellsSent(w) :
        /\ RowFor(w, c) \in Rows /\ RowFor(w, c).cell = c /\ RowFor(w, c).by = w
        /\ RowFor(w, c).version = NextVersion(w)
  BY <1>1, <1>3 DEF RowFor, Rows
<1> QED
  BY <1>4 DEF RowsOf

LEMMA RowsStay ==
    ASSUME NEW w \in Savers, req'[w] = req[w], matrix'[w] = matrix[w]
    PROVE  RowsOf(w)' = RowsOf(w) /\ CellsSent(w)' = CellsSent(w)
BY DEF RowsOf, RowFor, CellsSent, NextVersion

(* One request takes a step, and the others stay as they are. *)
SaverStep(w) ==
    Receive(w) \/ Step(w) \/ ReadFails(w) \/ RereadFails(w) \/ Abort(w) \/ LoseCommit(w)

(* Its rows are committed, whether it hears of it or not. *)
Committing(w) == Commit(w) \/ CommitLate(w)

Same(d) ==
    /\ pc'[d] = pc[d] /\ req'[d] = req[d] /\ matrix'[d] = matrix[d]
    /\ reply'[d] = reply[d] /\ snap'[d] = snap[d] /\ dels'[d] = dels[d]
    /\ order'[d] = order[d] /\ ins'[d] = ins[d]

LEMMA Frame ==
    ASSUME TypeOK, NEW w \in Savers, SaverStep(w), NEW d \in Savers \ {w}
    PROVE  Same(d)
<1>1. ASSUME Receive(w) PROVE Same(d)
  BY <1>1 DEF Same, TypeOK, Receive, Answer, Goto, tx
<1>2. ASSUME AnswerRead(w) \/ ReadFails(w) \/ SelectVersion(w) \/ AnswerConflict(w) \/ RereadFails(w)
      PROVE Same(d)
  BY <1>2 
     DEF Same, TypeOK, AnswerRead, ReadFails, SelectVersion, AnswerConflict, RereadFails, Answer,
         Goto, tx
<1>3. ASSUME BeginDelete(w) \/ Delete(w) \/ InsertRow(w) \/ Commit(w) PROVE Same(d)
  BY <1>3 DEF Same, TypeOK, BeginDelete, Delete, InsertRow, Commit, CommitRows, Answer, Goto
<1>4. ASSUME Rollback(w) PROVE Same(d)
  BY <1>4 DEF Same, TypeOK, Rollback, Answer, Goto
<1>5. ASSUME LoseCommit(w) \/ CommitLate(w) \/ RollbackLate(w) PROVE Same(d)
  BY <1>5 DEF Same, TypeOK, LoseCommit, CommitLate, RollbackLate, CommitRows, Goto, tx
<1> QED
  BY <1>1, <1>2, <1>3, <1>4, <1>5 DEF SaverStep, Step, DuplicateCell, DeadlockVictim, Abort

-----------------------------------------------------------------------------
(* What normalizeMatrix makes of a body it does not refuse is a matrix.    *)
LEMMA Normalizes ==
    ASSUME NEW body, body \subseteq Entries, IsFiniteSet(body), ~Refused(body),
           NEW m \in normalizeMatrix(body)
    PROVE  m \in Matrices /\ IsFiniteSet(DOMAIN m)
<1> DEFINE D == {e.module : e \in body}
<1>1. DOMAIN m = D /\ \A k \in D : \E e \in body : e.module = k /\ m[k] \in RolesRead(e)
  BY DEF normalizeMatrix
<1>2. \A e \in body : e.module \in Modules /\ {x.role : x \in e.roles} \subseteq allowedRoles
  BY DEF Refused, Entries
<1>3. ASSUME NEW k \in D PROVE m[k] \in RolesMatrix
  <2>1. PICK e \in body : m[k] \in RolesRead(e)
    BY <1>1
  <2> DEFINE R == {x.role : x \in e.roles}
  <2>2. m[k] \in [R -> BOOLEAN]
    BY <2>1 DEF RolesRead
  <2>3. R \in SUBSET allowedRoles
    BY <1>2
  <2> HIDE DEF R
  <2> QED
    BY <2>2, <2>3 DEF RolesMatrix
<1>4. m = [k \in D |-> m[k]]
  BY <1>1 DEF normalizeMatrix
<1>5. m \in Matrices
  <2>1. D \in SUBSET Modules
    BY <1>2
  <2> HIDE DEF D
  <2>2. m \in [D -> RolesMatrix]
    BY <1>3, <1>4
  <2> QED
    BY <2>1, <2>2 DEF Matrices
<1>6. [e \in body |-> e.module] \in Surjection(body, D)
  BY DEF Surjection
<1> QED
  BY <1>1, <1>5, <1>6, FS_Surjection

(* Counting off finitely many cells lists each of them once. *)
LEMMA CountedOff ==
    ASSUME NEW S \in SUBSET Cells, IsFiniteSet(S),
           NEW s \in [1 .. Cardinality(S) -> S],
           \A c \in S : \E i \in DOMAIN s : s[i] = c
    PROVE  s \in Seq(Cells) /\ NoRepeats(s) /\ Listed(s) = S
<1>1. Cardinality(S) \in Nat
  BY FS_CardinalityType
<1>2. IsFiniteSet(1 .. Cardinality(S)) /\ Cardinality(1 .. Cardinality(S)) = Cardinality(S)
  BY <1>1, FS_Interval
<1>3. s \in Surjection(1 .. Cardinality(S), S)
  BY DEF Surjection
<1>4. s \in Injection(1 .. Cardinality(S), S)
  BY <1>2, <1>3, FS_SurjSameCardinalityImpliesInj
<1>5. NoRepeats(s)
  BY <1>4 DEF Injection, IsInjective, NoRepeats
<1>6. s \in Seq(Cells)
  BY <1>1
<1> QED
  BY <1>5, <1>6 DEF Listed

LEMMA FirstListed ==
    ASSUME NEW s \in Seq(Cells), s # <<>>
    PROVE  /\ Head(s) \in Cells /\ Tail(s) \in Seq(Cells)
           /\ Listed(s) = {Head(s)} \cup Listed(Tail(s))
           /\ NoRepeats(s) => NoRepeats(Tail(s)) /\ Head(s) \notin Listed(Tail(s))
<1>1. Len(s) \in Nat \ {0} /\ DOMAIN s = 1 .. Len(s) /\ Head(s) = s[1]
  OBVIOUS
<1>2. /\ Tail(s) \in Seq(Cells) /\ DOMAIN Tail(s) = 1 .. Len(s) - 1
      /\ \A i \in 1 .. Len(s) - 1 : Tail(s)[i] = s[i + 1]
  OBVIOUS
<1>4. Listed(s) = {Head(s)} \cup Listed(Tail(s))
  <2>1. ASSUME NEW x \in Listed(s) PROVE x = Head(s) \/ x \in Listed(Tail(s))
    <3>1. PICK i \in 1 .. Len(s) : x = s[i]
      BY <1>1 DEF Listed
    <3>2. i = 1 \/ (i - 1 \in 1 .. Len(s) - 1 /\ Tail(s)[i - 1] = s[i])
      BY <1>1, <1>2
    <3> QED
      BY <1>1, <1>2, <3>1, <3>2 DEF Listed
  <2>2. Head(s) \in Listed(s)
    BY <1>1 DEF Listed
  <2>3. ASSUME NEW x \in Listed(Tail(s)) PROVE x \in Listed(s)
    <3>1. PICK i \in 1 .. Len(s) - 1 : x = s[i + 1]
      BY <1>2 DEF Listed
    <3>2. i + 1 \in 1 .. Len(s)
      BY <1>1
    <3> QED
      BY <1>1, <3>1, <3>2 DEF Listed
  <2> QED
    BY <2>1, <2>2, <2>3
<1>5. NoRepeats(s) => NoRepeats(Tail(s)) /\ Head(s) \notin Listed(Tail(s))
  BY <1>1, <1>2 DEF Listed, NoRepeats
<1> QED
  BY <1>1, <1>2, <1>4, <1>5

-----------------------------------------------------------------------------
(* The type invariant, as what there is and what holds of each request.    *)
Sorts ==
    /\ overlap \in DOMAIN Requests /\ ready \in {TRUE, overlap}
    /\ table \subseteq Rows
    /\ req \in [Savers -> Requests[overlap] \cup {NoRequest}]
    /\ pc \in [Savers -> Phases]
    /\ matrix \in [Savers -> Matrices]
    /\ {snap, dels, ins} \subseteq [Savers -> SUBSET Rows]
    /\ order \in [Savers -> Seq(Cells)] /\ DOMAIN reply = Savers
TxOK(w) ==
    /\ dels[w] \subseteq table /\ ins[w] \subseteq RowsOf(w)
    /\ pc[w] \in {"insert", "unheard"} =>
        ins[w] = {r \in RowsOf(w) : r.cell \notin Listed(order[w])}
    /\ pc[w] \notin {"insert", "unheard"} => dels[w] = {} /\ ins[w] = {}
    /\ pc[w] # "insert" => order[w] = <<>>
ReplyOK(w) ==
    /\ reply[w].code \in {0, 200, 400, 403, 409, 500, 503}
    /\ (reply[w].code = 0) <=> (pc[w] \notin {"unheard"} \cup Over)

LEMMA TypeParts == TypeOK <=> Sorts /\ \A w \in Savers : TxOK(w) /\ ReplyOK(w)
BY DEF TypeOK, Sorts, TxOK, ReplyOK

LEMMA TypePartsNext == TypeOK' <=> Sorts' /\ \A w \in Savers : TxOK(w)' /\ ReplyOK(w)'
BY DEF TypeOK, Sorts, TxOK, ReplyOK

LEMMA InitInv == Init => IInv
<1> SUFFICES ASSUME Init PROVE IInv
  OBVIOUS
<1>1. table \in InitialTables /\ overlap \in DOMAIN Requests /\ ready \in {TRUE, overlap}
      /\ matrix = [w \in Savers |-> NoMatrix] /\ req = [w \in Savers |-> NoRequest]
      /\ reply = [w \in Savers |-> NoReply] /\ pc = [w \in Savers |-> "new"]
      /\ snap = [w \in Savers |-> {}] /\ dels = [w \in Savers |-> {}]
      /\ order = [w \in Savers |-> <<>>] /\ ins = [w \in Savers |-> {}]
  BY DEF Init
<1>2. /\ table \subseteq Rows /\ \A r \in table : r.by = Initially
      /\ \A r, s \in table : r.cell = s.cell => r = s
  BY <1>1, AdminAssumption
<1>3. NoMatrix \in Matrices /\ IsFiniteSet(DOMAIN NoMatrix) /\ DOMAIN NoMatrix = {}
  <2>1. DOMAIN NoMatrix = {} /\ NoMatrix \in [{} -> RolesMatrix]
    BY DEF NoMatrix
  <2>2. {} \in SUBSET Modules
    OBVIOUS
  <2> QED
    BY <2>1, <2>2, FS_EmptySet DEF Matrices
<1>4. <<>> \in Seq(Cells) /\ Listed(<<>>) = {} /\ NoRepeats(<<>>)
  BY DEF Listed, NoRepeats
<1>5. Sorts
  BY <1>1, <1>2, <1>3, <1>4 DEF Sorts, Phases
<1>6. \A w \in Savers : TxOK(w) /\ ReplyOK(w)
  BY <1>1 DEF TxOK, ReplyOK, NoReply, Reply, Over
<1>7. ASSUME NEW w \in Savers PROVE By(table, w) = {} /\ By({}, w) = {}
  <2>1. w # Initially
    BY AdminAssumption
  <2> QED
    BY <1>2, <2>1 DEF By
<1>8. AllWhole /\ AllOrNothing /\ NoTraceOfFailures /\ Unheard
  BY <1>1, <1>2, <1>7 DEF AllWhole, Whole, AllOrNothing, NoTraceOfFailures, Unheard
<1>9. CellsApart /\ Seen
  BY <1>1 DEF CellsApart, Seen
<1>10. Once
  BY <1>1, <1>3, <1>4 DEF Once
<1> QED
  BY <1>5, <1>6, <1>8, <1>9, <1>10, TypeParts DEF IInv

-----------------------------------------------------------------------------
(* What the steps of one request do.  Some only concern the client.        *)
Talk(w) ==
    Receive(w) \/ AnswerRead(w) \/ ReadFails(w) \/ SelectVersion(w)
    \/ AnswerConflict(w) \/ RereadFails(w)

LEMMA Talking ==
    ASSUME TypeOK, NEW w \in Savers, Talk(w)
    PROVE  /\ UNCHANGED <<setting, table, tx>>
           /\ pc[w] \notin {"insert", "unheard"} \cup Over /\ pc'[w] \notin {"insert", "unheard", "late"}
           /\ pc[w] # "new" => UNCHANGED <<req, matrix>>
<1>1. ASSUME Receive(w)
      PROVE  /\ pc[w] = "new" /\ pc'[w] \in {"read", "select", "done"}
             /\ UNCHANGED <<setting, table, tx>>
  BY <1>1 DEF TypeOK, Receive, Answer, Goto
<1>2. ASSUME AnswerRead(w) \/ ReadFails(w) \/ SelectVersion(w) \/ AnswerConflict(w) \/ RereadFails(w)
      PROVE  /\ UNCHANGED <<setting, table, tx, req, matrix>>
             /\ pc[w] \in {"read", "select", "conflict"}
             /\ pc'[w] \in {"done", "delete", "conflict"}
  BY <1>2 DEF TypeOK, AnswerRead, ReadFails, SelectVersion, AnswerConflict, RereadFails, Answer, Goto
<1> QED
  BY <1>1, <1>2 DEF Talk, Over

LEMMA Kinds ==
    ASSUME NEW w \in Savers, SaverStep(w)
    PROVE  \/ Talk(w) \/ BeginDelete(w) \/ Delete(w) \/ InsertRow(w)
           \/ Committing(w) \/ LoseCommit(w) \/ RollbackLate(w)
           \/ (Rollback(w) /\ pc[w] \in {"select", "delete", "deleting", "insert"})
BY DEF SaverStep, Talk, Step, Committing, DuplicateCell, DeadlockVictim, Abort

LEMMA Received ==
    ASSUME TypeOK, NEW w \in Savers, Receive(w)
    PROVE  /\ req' \in [Savers -> Requests[overlap] \cup {NoRequest}]
           /\ matrix' \in [Savers -> Matrices]
           /\ matrix'[w] = matrix[w] \/ IsFiniteSet(DOMAIN matrix'[w])
<1>1. PICK r \in Requests[overlap] :
        /\ req' = [req EXCEPT ![w] = r]
        /\ \/ UNCHANGED matrix
           \/ /\ Refusal(r) = 0 /\ r.method = "POST"
              /\ \E m \in normalizeMatrix(r.body) : matrix' = [matrix EXCEPT ![w] = m]
  BY DEF Receive
<1>2. req' \in [Savers -> Requests[overlap] \cup {NoRequest}]
  BY <1>1 DEF TypeOK
<1>3. CASE UNCHANGED matrix
  BY <1>2, <1>3 DEF TypeOK
<1>4. CASE /\ Refusal(r) = 0 /\ r.method = "POST"
           /\ \E m \in normalizeMatrix(r.body) : matrix' = [matrix EXCEPT ![w] = m]
  <2>1. PICK m \in normalizeMatrix(r.body) : matrix' = [matrix EXCEPT ![w] = m]
    BY <1>4
  <2>2. r.body # NotJSON /\ ~Refused(r.body)
    BY <1>4 DEF Refusal
  <2>0. overlap \in DOMAIN Requests
    BY DEF TypeOK
  <2>3. r.body \subseteq Entries /\ IsFiniteSet(r.body)
    BY <2>0, <2>2, AdminAssumption
  <2>4. m \in Matrices /\ IsFiniteSet(DOMAIN m)
    BY <2>2, <2>3, Normalizes
  <2> QED
    BY <1>2, <2>1, <2>4 DEF TypeOK
<1> QED
  BY <1>1, <1>3, <1>4

(* The steps of a transaction, by what they change of it. *)
LEMMA Transacting ==
    ASSUME TypeOK, NEW w \in Savers
    PROVE  /\ BeginDelete(w) =>
                /\ pc[w] = "delete" /\ pc'[w] = "deleting" /\ snap'[w] = table
                /\ UNCHANGED <<setting, table, req, matrix, reply, dels, order, ins>>
           /\ Delete(w) =>
                /\ pc[w] = "deleting" /\ pc'[w] = "insert" /\ dels'[w] = Deleted(w)
                /\ DeleteWaitsFor(w) = {}
                /\ UNCHANGED <<setting, table, req, matrix, reply, snap, ins>>
           /\ InsertRow(w) =>
                /\ pc[w] = "insert" /\ order[w] # <<>>
                /\ InsertWaitsFor(w) = {} /\ ~Taken(w)
                /\ ins'[w] = ins[w] \cup {RowFor(w, Head(order[w]))}
                /\ order'[w] = Tail(order[w])
                /\ UNCHANGED <<setting, table, req, matrix, reply, pc, snap, dels>>
           /\ Committing(w) =>
                /\ pc[w] \in {"insert", "unheard"} /\ pc'[w] \in Over /\ order[w] = <<>>
                /\ table' = (table \ dels[w]) \cup ins[w]
                /\ dels'[w] = {} /\ ins'[w] = {}
                /\ \/ pc'[w] = "done" /\ reply'[w] = Reply(200, NextVersion(w), matrix[w])
                   \/ pc[w] = "unheard" /\ pc'[w] = "late" /\ UNCHANGED reply
                /\ UNCHANGED <<setting, req, matrix, snap, order>>
           /\ LoseCommit(w) =>
                /\ pc[w] = "insert" /\ pc'[w] = "unheard" /\ order[w] = <<>>
                /\ reply'[w] = Reply(500, 0, NoMatrix)
                /\ UNCHANGED <<setting, table, req, matrix, tx>>
           /\ RollbackLate(w) =>
                /\ pc[w] = "unheard" /\ pc'[w] = "done" /\ dels'[w] = {} /\ ins'[w] = {}
                /\ UNCHANGED <<setting, table, req, matrix, reply, snap, order>>
           /\ Rollback(w) =>
                /\ pc'[w] = "done" /\ dels'[w] = {} /\ ins'[w] = {} /\ order'[w] = <<>>
                /\ reply'[w] = Reply(500, 0, NoMatrix)
                /\ UNCHANGED <<setting, table, req, matrix, snap>>
<1>1. /\ DOMAIN pc = Savers /\ DOMAIN reply = Savers
      /\ {snap, dels, ins} \subseteq [Savers -> SUBSET Rows] /\ DOMAIN order = Savers
  BY DEF TypeOK
<1>2. pc[w] # "insert" => order[w] = <<>>
  BY TypeParts DEF TxOK
<1>4. /\ Commit(w) => /\ pc[w] = "insert" /\ pc'[w] = "done" /\ order[w] = <<>>
                      /\ reply'[w] = Reply(200, NextVersion(w), matrix[w])
                      /\ CommitRows(w)
      /\ CommitLate(w) => /\ pc[w] = "unheard" /\ pc'[w] = "late" /\ UNCHANGED reply
                          /\ CommitRows(w)
  BY <1>1 DEF Commit, CommitLate, Answer, Goto
<1>5. CommitRows(w) => /\ table' = (table \ dels[w]) \cup ins[w] /\ dels'[w] = {} /\ ins'[w] = {}
                       /\ UNCHANGED <<setting, req, matrix, snap, order>>
  BY <1>1 DEF CommitRows
<1>6. LoseCommit(w) =>
                /\ pc[w] = "insert" /\ pc'[w] = "unheard" /\ order[w] = <<>>
                /\ reply'[w] = Reply(500, 0, NoMatrix)
                /\ UNCHANGED <<setting, table, req, matrix, tx>>
  BY <1>1 DEF LoseCommit, Goto
<1>7. RollbackLate(w) =>
                /\ pc[w] = "unheard" /\ pc'[w] = "done" /\ dels'[w] = {} /\ ins'[w] = {}
                /\ UNCHANGED <<setting, table, req, matrix, reply, snap, order>>
  BY <1>1 DEF RollbackLate, Goto
<1>8. /\ BeginDelete(w) =>
                /\ pc[w] = "delete" /\ pc'[w] = "deleting" /\ snap'[w] = table
                /\ UNCHANGED <<setting, table, req, matrix, reply, dels, order, ins>>
      /\ Delete(w) =>
                /\ pc[w] = "deleting" /\ pc'[w] = "insert" /\ dels'[w] = Deleted(w)
                /\ DeleteWaitsFor(w) = {}
                /\ UNCHANGED <<setting, table, req, matrix, reply, snap, ins>>
      /\ InsertRow(w) =>
                /\ pc[w] = "insert" /\ order[w] # <<>>
                /\ InsertWaitsFor(w) = {} /\ ~Taken(w)
                /\ ins'[w] = ins[w] \cup {RowFor(w, Head(order[w]))}
                /\ order'[w] = Tail(order[w])
                /\ UNCHANGED <<setting, table, req, matrix, reply, pc, snap, dels>>
      /\ Rollback(w) =>
                /\ pc'[w] = "done" /\ dels'[w] = {} /\ ins'[w] = {} /\ order'[w] = <<>>
                /\ reply'[w] = Reply(500, 0, NoMatrix)
                /\ UNCHANGED <<setting, table, req, matrix, snap>>
  BY <1>1 DEF BeginDelete, Delete, InsertRow, Rollback, Answer, Goto
<1> QED
  BY <1>2, <1>4, <1>5, <1>6, <1>7, <1>8 DEF Committing, Over

LEMMA NotDone ==
    ASSUME TypeOK, NEW w \in Savers, SaverStep(w)
    PROVE  pc[w] \notin Over
BY Kinds, Talking, Transacting DEF Over

(* The order in which the cells of a save will be inserted. *)
LEMMA Ordering ==
    ASSUME TypeOK, Once, NEW w \in Savers, Delete(w)
    PROVE  /\ order' \in [Savers -> Seq(Cells)]
           /\ NoRepeats(order'[w]) /\ Listed(order'[w]) = CellsSent(w)
<1>1. matrix[w] \in Matrices /\ IsFiniteSet(DOMAIN matrix[w])
  BY DEF TypeOK, Once
<1>2. CellsSent(w) \subseteq Cells
      /\ CellsSent(w) \in SUBSET ((DOMAIN matrix[w]) \X allowedRoles)
  <2>1. \A c \in CellsSent(w) : c \in Cells /\ c = <<c[1], c[2]>> /\ c[1] \in DOMAIN matrix[w]
    BY <1>1, CellsOfMatrix DEF CellsSent
  <2>2. \A c \in Cells : c[2] \in allowedRoles
    BY DEF Cells
  <2>3. ASSUME NEW c \in CellsSent(w) PROVE c \in (DOMAIN matrix[w]) \X allowedRoles
    <3>1. <<c[1], c[2]>> \in (DOMAIN matrix[w]) \X allowedRoles
      BY <2>1, <2>2
    <3> QED
      BY <2>1, <3>1
  <2> QED
    BY <2>1, <2>3
<1>3. IsFiniteSet(allowedRoles)
  <2>1. allowedRoles = ({} \cup {"admin"} \cup {"operator"}) \cup {"user"}
    BY DEF allowedRoles
  <2>2. IsFiniteSet({} \cup {"admin"})
    BY FS_EmptySet, FS_AddElement
  <2>3. IsFiniteSet({} \cup {"admin"} \cup {"operator"})
    BY <2>2, FS_AddElement
  <2> QED
    BY <2>1, <2>3, FS_AddElement
<1>4. IsFiniteSet(CellsSent(w))
  <2>1. IsFiniteSet((DOMAIN matrix[w]) \X allowedRoles)
    BY <1>1, <1>3, FS_Product
  <2> QED
    BY <1>2, <2>1, FS_Subset
<1>5. PICK s \in [1 .. Cardinality(CellsSent(w)) -> CellsSent(w)] :
        /\ \A c \in CellsSent(w) : \E i \in DOMAIN s : s[i] = c
        /\ order' = [order EXCEPT ![w] = s]
  BY DEF Delete
<1>6. s \in Seq(Cells) /\ NoRepeats(s) /\ Listed(s) = CellsSent(w)
  BY <1>2, <1>4, <1>5, CountedOff
<1> QED
  BY <1>5, <1>6 DEF TypeOK

LEMMA HeadSent ==
    ASSUME TypeOK, Once, NEW w \in Savers, order[w] # <<>>
    PROVE  Head(order[w]) \in CellsSent(w)
<1>1. order[w] \in Seq(Cells) /\ Listed(order[w]) \subseteq CellsSent(w)
  BY DEF TypeOK, Once
<1> QED
  BY <1>1, FirstListed

LEMMA SortsNext ==
    ASSUME TypeOK, Once, NEW w \in Savers, SaverStep(w)
    PROVE  Sorts' /\ Once'
<1>1. CASE Talk(w)
  <2>0. DOMAIN reply = Savers /\ pc \in [Savers -> Phases] /\ {"read", "select", "delete", "conflict", "done"} \subseteq Phases
    BY DEF TypeOK, Phases, Over
  <2>1. /\ UNCHANGED <<setting, table, tx>>
        /\ pc' \in [Savers -> Phases] /\ DOMAIN reply' = Savers
        /\ Receive(w) \/ UNCHANGED <<req, matrix>>
    <3>1. CASE Receive(w)
      <4>1. /\ Goto(w, "read") \/ Goto(w, "select") \/ Goto(w, "done")
            /\ UNCHANGED reply \/ \E r : reply' = [reply EXCEPT ![w] = r]
        BY <3>1 DEF Receive, Answer
      <4>2. UNCHANGED <<setting, table, tx>>
        BY <3>1 DEF Receive
      <4> QED
        BY <3>1, <4>1, <4>2, <2>0 DEF Goto
    <3>2. CASE AnswerRead(w) \/ ReadFails(w) \/ SelectVersion(w)
      BY <3>2, <2>0 DEF AnswerRead, ReadFails, SelectVersion, Answer, Goto
    <3>3. CASE AnswerConflict(w) \/ RereadFails(w)
      BY <3>3, <2>0 DEF AnswerConflict, RereadFails, Answer, Goto
    <3> QED
      BY <1>1, <3>1, <3>2, <3>3 DEF Talk
  <2>2. /\ req' \in [Savers -> Requests[overlap] \cup {NoRequest}]
        /\ matrix' \in [Savers -> Matrices]
    <3>1. CASE Receive(w)
      BY <3>1, Received
    <3>2. CASE UNCHANGED <<req, matrix>>
      BY <3>2 DEF TypeOK
    <3> QED
      BY <2>1, <3>1, <3>2
  <2>3. Sorts'
    BY <2>1, <2>2 DEF Sorts, TypeOK, setting, tx
  <2>4. ASSUME NEW d \in Savers
        PROVE  /\ IsFiniteSet(DOMAIN matrix'[d])
               /\ NoRepeats(order'[d]) /\ Listed(order'[d]) \subseteq CellsSent(d)'
    <3>1. order'[d] = order[d]
      BY <2>1 DEF tx
    <3>2. CASE d # w \/ pc[w] # "new"
      <4>1. req'[d] = req[d] /\ matrix'[d] = matrix[d]
        BY <3>2, <1>1, Talking, Frame DEF SaverStep, Talk, Step, Same
      <4> QED
        BY <3>1, <4>1, RowsStay DEF Once
    <3>3. CASE d = w /\ pc[w] = "new"
      <4>1. order[w] = <<>> /\ Listed(<<>>) = {} /\ NoRepeats(<<>>)
        BY <3>3 DEF TypeOK, Listed, NoRepeats
      <4>2. IsFiniteSet(DOMAIN matrix'[d])
        BY <2>1, <3>3, Received DEF Once
      <4> QED
        BY <3>1, <3>3, <4>1, <4>2
    <3> QED
      BY <3>2, <3>3
  <2> QED
    BY <2>3, <2>4 DEF Once
<1>2. CASE ~ Talk(w)
  <2>0. /\ DOMAIN reply = Savers /\ pc \in [Savers -> Phases]
        /\ {"deleting", "insert", "unheard", "late", "done"} \subseteq Phases
        /\ snap \in [Savers -> SUBSET Rows] /\ dels \in [Savers -> SUBSET Rows]
        /\ ins \in [Savers -> SUBSET Rows] /\ table \subseteq Rows
    BY DEF TypeOK, Phases, Over
  <2>1. /\ UNCHANGED <<setting, req, matrix>> /\ pc' \in [Savers -> Phases] /\ DOMAIN reply' = Savers
        /\ snap' \in [Savers -> SUBSET Rows] /\ dels' \in [Savers -> SUBSET Rows]
        /\ ins' \in [Savers -> SUBSET Rows] /\ table' \subseteq Rows
    <3>1. CASE BeginDelete(w)
      BY <3>1, <2>0 DEF BeginDelete, Goto
    <3>2. CASE Delete(w)
      BY <3>2, <2>0 DEF Delete, Deleted, Goto
    <3>3. CASE InsertRow(w)
      <4>1. RowFor(w, Head(order[w])) \in Rows
        BY <3>3, HeadSent, RowFacts DEF InsertRow
      <4> QED
        BY <3>3, <4>1, <2>0 DEF InsertRow
    <3>4. CASE Committing(w)
      BY <3>4, <2>0 DEF Committing, Commit, CommitLate, CommitRows, Answer, Goto
    <3>5. CASE Rollback(w)
      BY <3>5, <2>0 DEF Rollback, Answer, Goto
    <3>6. CASE LoseCommit(w) \/ RollbackLate(w)
      BY <3>6, <2>0 DEF LoseCommit, RollbackLate, Goto, tx
    <3> QED
      BY <1>2, <3>1, <3>2, <3>3, <3>4, <3>5, <3>6, Kinds
  <2>2. /\ order' \in [Savers -> Seq(Cells)]
        /\ NoRepeats(order'[w]) /\ Listed(order'[w]) \subseteq CellsSent(w)
    <3>0. order \in [Savers -> Seq(Cells)] /\ NoRepeats(order[w]) /\ Listed(order[w]) \subseteq CellsSent(w)
      BY DEF TypeOK, Once
    <3>1. CASE BeginDelete(w) \/ Committing(w) \/ LoseCommit(w) \/ RollbackLate(w)
      BY <3>1, <3>0, Transacting DEF tx
    <3>2. CASE Delete(w)
      BY <3>2, Ordering
    <3>3. CASE InsertRow(w)
      <4>1. order' = [order EXCEPT ![w] = Tail(order[w])] /\ order[w] # <<>> /\ order[w] \in Seq(Cells)
        BY <3>0, <3>3 DEF InsertRow
      <4>2. /\ Tail(order[w]) \in Seq(Cells) /\ NoRepeats(Tail(order[w]))
            /\ Listed(Tail(order[w])) \subseteq CellsSent(w)
        BY <3>0, <4>1, FirstListed
      <4> QED
        BY <3>0, <4>1, <4>2
    <3>5. CASE Rollback(w)
      BY <3>5, <3>0 DEF Rollback, Listed, NoRepeats
    <3> QED
      BY <1>2, <3>1, <3>2, <3>3, <3>5, Kinds
  <2>3. Sorts'
    <3>1. /\ overlap \in DOMAIN Requests /\ ready \in {TRUE, overlap}
          /\ req \in [Savers -> Requests[overlap] \cup {NoRequest}] /\ matrix \in [Savers -> Matrices]
      BY DEF TypeOK
    <3> QED
      BY <2>1, <2>2, <3>1 DEF Sorts, setting
  <2>4. ASSUME NEW d \in Savers
        PROVE  /\ IsFiniteSet(DOMAIN matrix'[d])
               /\ NoRepeats(order'[d]) /\ Listed(order'[d]) \subseteq CellsSent(d)'
    <3>1. IsFiniteSet(DOMAIN matrix'[d]) /\ CellsSent(d)' = CellsSent(d)
      BY <2>1, RowsStay DEF Once
    <3>2. d = w \/ order'[d] = order[d]
      BY Frame DEF Same
    <3> QED
      BY <2>2, <3>1, <3>2 DEF Once
  <2> QED
    BY <2>3, <2>4 DEF Once
<1> QED
  BY <1>1, <1>2

(* Rows are committed and removed by commits alone, and what others have   *)
(* locked stays.                                                           *)
LEMMA TableStep ==
    ASSUME TypeOK, NEW w \in Savers, SaverStep(w)
    PROVE  table' = table \/ Committing(w)
BY Kinds, Talking, Transacting

LEMMA TxNext ==
    ASSUME TypeOK, Once, CellsApart, NEW w \in Savers, SaverStep(w), NEW d \in Savers
    PROVE  TxOK(d)'
<1>1. CASE d # w
  <2>1. Same(d) /\ RowsOf(d)' = RowsOf(d)
    BY <1>1, Frame, RowsStay DEF Same
  <2>2. dels[d] \subseteq table'
    <3>1. CASE table' = table
      BY <3>1 DEF TypeOK
    <3>2. CASE Committing(w)
      <4>1. table' = (table \ dels[w]) \cup ins[w]
        BY <3>2, Transacting
      <4>2. dels[d] \subseteq table /\ dels[d] \cap dels[w] = {}
        BY <1>1 DEF TypeOK, CellsApart
      <4> QED
        BY <4>1, <4>2
    <3> QED
      BY <3>1, <3>2, TableStep
  <2>3. TxOK(d)
    BY TypeParts
  <2> QED
    BY <2>1, <2>2, <2>3 DEF TxOK, Same
<1>2. CASE d = w
  <2>0. TxOK(w)
    BY TypeParts
  <2>1. CASE Talk(w)
    <3>1. /\ {pc[w], pc'[w]} \cap {"insert", "unheard"} = {} /\ table' = table
          /\ dels'[w] = dels[w] /\ ins'[w] = ins[w] /\ order'[w] = order[w]
      BY <2>1, Talking DEF tx
    <3> QED
      BY <1>2, <2>0, <3>1 DEF TxOK
  <2>2. CASE BeginDelete(w)
    BY <1>2, <2>0, <2>2, RowsStay, Transacting DEF TxOK
  <2>3. CASE Delete(w)
    <3>1. /\ pc[w] = "deleting" /\ pc'[w] = "insert" /\ ins'[w] = {} /\ table' = table
          /\ dels'[w] = snap[w] \cap table
      BY <2>0, <2>3, Transacting DEF TxOK, Deleted
    <3>2. RowsOf(w)' = RowsOf(w) /\ Listed(order'[w]) = CellsSent(w)
      BY <2>3, Ordering, Transacting, RowsStay
    <3>3. \A r \in RowsOf(w) : r.cell \in Listed(order'[w])
      BY <3>2, RowFacts
    <3> QED
      BY <1>2, <3>1, <3>2, <3>3 DEF TxOK
  <2>4. CASE InsertRow(w)
    <3>1. /\ pc[w] = "insert" /\ pc'[w] = pc[w] /\ order[w] # <<>> /\ table' = table
          /\ ins'[w] = ins[w] \cup {RowFor(w, Head(order[w]))} /\ dels'[w] = dels[w]
          /\ order'[w] = Tail(order[w]) /\ RowsOf(w)' = RowsOf(w)
      BY <2>4, Transacting, RowsStay
    <3>2. /\ Listed(order[w]) = {Head(order[w])} \cup Listed(order'[w])
          /\ Head(order[w]) \notin Listed(order'[w])
      BY <3>1, FirstListed DEF TypeOK, Once
    <3>3. ins[w] = {r \in RowsOf(w) : r.cell \notin Listed(order[w])}
      BY <2>0, <3>1 DEF TxOK
    <3>4. /\ RowFor(w, Head(order[w])) \in RowsOf(w)
          /\ \A r \in RowsOf(w) : r.cell = Head(order[w]) <=> r = RowFor(w, Head(order[w]))
      BY <3>1, HeadSent, RowFacts
    <3>5. ins'[w] = {r \in RowsOf(w) : r.cell \notin Listed(order'[w])}
      BY <3>1, <3>2, <3>3, <3>4
    <3> QED
      BY <1>2, <2>0, <3>1, <3>5 DEF TxOK
  <2>5. CASE Committing(w) \/ Rollback(w) \/ RollbackLate(w)
    <3>1. pc'[w] \in Over /\ dels'[w] = {} /\ ins'[w] = {} /\ order'[w] = <<>>
      BY <2>0, <2>5, Transacting DEF TxOK, Over
    <3> QED
      BY <1>2, <3>1 DEF TxOK, Over
  <2>6. CASE LoseCommit(w)
    <3>1. /\ pc[w] = "insert" /\ pc'[w] = "unheard" /\ order[w] = <<>>
          /\ UNCHANGED <<table, tx>> /\ RowsOf(w)' = RowsOf(w)
      BY <2>6, Transacting, RowsStay
    <3> QED
      BY <1>2, <2>0, <3>1 DEF TxOK, tx
  <2> QED
    BY <2>1, <2>2, <2>3, <2>4, <2>5, <2>6, Kinds
<1> QED
  BY <1>1, <1>2

LEMMA ReplyNext ==
    ASSUME TypeOK, NEW w \in Savers, SaverStep(w), NEW d \in Savers
    PROVE  ReplyOK(d)'
<1>0. ReplyOK(d)
  BY TypeParts
<1>1. CASE d # w
  BY <1>0, <1>1, Frame DEF ReplyOK, Same
<1>2. CASE d = w
  <2> DEFINE answered == {"unheard"} \cup Over
  <2>1. \/ reply'[w].code \in {200, 400, 403, 409, 500, 503} /\ pc'[w] \in answered
        \/ reply'[w] = reply[w] /\ (pc'[w] \in answered <=> pc[w] \in answered)
    <3>1. CASE Receive(w)
      BY <3>1 DEF Receive, Refusal, Answer, Goto, Reply, TypeOK, Over
    <3>2. CASE AnswerRead(w) \/ ReadFails(w) \/ AnswerConflict(w) \/ RereadFails(w)
      BY <3>2 DEF AnswerRead, ReadFails, AnswerConflict, RereadFails, ConflictBody, Answer, Goto,
                  Reply, TypeOK, Over
    <3>3. CASE SelectVersion(w)
      BY <3>3 DEF SelectVersion, Goto, TypeOK, Over
    <3>4. CASE BeginDelete(w) \/ Delete(w) \/ InsertRow(w)
      BY <3>4, Transacting DEF Over
    <3>5. CASE Committing(w) \/ Rollback(w) \/ LoseCommit(w) \/ RollbackLate(w)
      <4>1. /\ pc'[w] \in answered
            /\ \/ reply'[w] \in {Reply(200, NextVersion(w), matrix[w]), Reply(500, 0, NoMatrix)}
               \/ reply'[w] = reply[w] /\ pc[w] = "unheard"
        BY <3>5, Transacting DEF Over
      <4>2. \A v, m : Reply(200, v, m).code = 200 /\ Reply(500, v, m).code = 500
        BY DEF Reply
      <4> QED
        BY <4>1, <4>2
    <3> QED
      BY <3>1, <3>2, <3>3, <3>4, <3>5, Kinds DEF Talk
  <2> HIDE DEF answered
  <2>2. ReplyOK(w)' <=> /\ reply'[w].code \in {0, 200, 400, 403, 409, 500, 503}
                        /\ (reply'[w].code = 0) <=> (pc'[w] \notin answered)
    BY DEF ReplyOK, answered
  <2>3. ReplyOK(w) <=> /\ reply[w].code \in {0, 200, 400, 403, 409, 500, 503}
                       /\ (reply[w].code = 0) <=> (pc[w] \notin answered)
    BY DEF ReplyOK, answered
  <2> QED
    BY <1>0, <1>2, <2>1, <2>2, <2>3
<1> QED
  BY <1>1, <1>2

LEMMA TypeNext ==
    ASSUME TypeOK, Once, CellsApart, NEW w \in Savers, SaverStep(w)
    PROVE  TypeOK'
BY SortsNext, TxNext, ReplyNext, TypePartsNext

(* What is whole stays whole: a save whose rows are somewhere is over.     *)
WholeNext(t) ==
    \A d \in Savers : By(t, d) = {} \/ (By(t, d) = RowsOf(d)' /\ pc'[d] \in Over)

LEMMA WholeStays ==
    ASSUME TypeOK, NEW w \in Savers, SaverStep(w), NEW t, Whole(t)
    PROVE  WholeNext(t)
<1> SUFFICES ASSUME NEW d \in Savers, By(t, d) # {}
             PROVE  By(t, d) = RowsOf(d)' /\ pc'[d] \in Over
  BY DEF WholeNext
<1>1. By(t, d) = RowsOf(d) /\ pc[d] \in Over
  BY DEF Whole
<1>2. d # w
  BY <1>1, NotDone
<1>3. Same(d) /\ RowsOf(d)' = RowsOf(d)
  BY <1>2, Frame, RowsStay DEF Same
<1> QED
  BY <1>1, <1>3 DEF Same

LEMMA CommittedWhole ==
    ASSUME IInv, NEW w \in Savers, Committing(w)
    PROVE  /\ \A d \in Savers \ {w} : By(table', d) \in {{}, By(table, d)}
           /\ By(table', w) = RowsOf(w) /\ By(table, w) = {}
<1>1. /\ pc[w] \in {"insert", "unheard"} /\ order[w] = <<>>
      /\ table' = (table \ dels[w]) \cup ins[w]
  BY Transacting DEF IInv
<1>2. ins[w] = RowsOf(w)
  <2>1. ins[w] = {r \in RowsOf(w) : r.cell \notin Listed(order[w])}
    BY <1>1 DEF IInv, TypeOK
  <2> QED
    BY <1>1, <2>1 DEF Listed
<1>3. \A r \in ins[w] : r.by = w
  BY <1>2, RowFacts DEF IInv
<1>4. ASSUME NEW d \in Savers
      PROVE  /\ By(table, d) = {} \/ (By(table, d) = RowsOf(d) /\ pc[d] \in Over)
             /\ By(dels[w], d) = {} \/ (By(dels[w], d) = RowsOf(d) /\ pc[d] \in Over)
  BY DEF IInv, AllWhole, Whole
<1>5. ASSUME NEW d \in Savers \ {w} PROVE By(table', d) \in {{}, By(table, d)}
  <2>1. By(table', d) = By(table, d) \ By(dels[w], d)
    BY <1>1, <1>3 DEF By
  <2> QED
    BY <1>4, <2>1
<1>6. By(table, w) = {}
  BY <1>1, <1>4 DEF Over
<1>7. By(table', w) = RowsOf(w)
  BY <1>1, <1>2, <1>3, <1>6 DEF By
<1> QED
  BY <1>5, <1>6, <1>7

LEMMA WholeAfter ==
    ASSUME IInv, NEW w \in Savers, SaverStep(w)
    PROVE  AllWhole'
<1>0. TypeOK /\ Whole(table) /\ \A d \in Savers : Whole(snap[d]) /\ Whole(dels[d])
  BY DEF IInv, AllWhole
<1>1. WholeNext(table')
  <2>1. CASE table' = table
    BY <1>0, <2>1, WholeStays
  <2>2. CASE Committing(w)
    <3>1. WholeNext(table)
      BY <1>0, WholeStays
    <3>2. RowsOf(w)' = RowsOf(w) /\ pc'[w] \in Over
      BY <1>0, <2>2, Transacting, RowsStay
    <3> QED
      BY <2>2, <3>1, <3>2, CommittedWhole DEF WholeNext
  <2> QED
    BY <1>0, <2>1, <2>2, TableStep
<1>2. ASSUME NEW d \in Savers PROVE WholeNext(snap'[d])
  <2>1. snap'[d] \in {snap[d], table}
    <3>1. d # w => snap'[d] = snap[d]
      BY <1>0, Frame DEF Same
    <3>2. snap'[w] = snap[w] \/ snap'[w] = table
      BY <1>0, Kinds, Talking, Transacting DEF tx
    <3> QED
      BY <3>1, <3>2
  <2> QED
    BY <1>0, <2>1, WholeStays
<1>3. ASSUME NEW d \in Savers PROVE WholeNext(dels'[d])
  <2>1. dels'[d] \in {dels[d], {}, snap[d] \cap table}
    <3>1. d # w => dels'[d] = dels[d]
      BY <1>0, Frame DEF Same
    <3>2. dels'[w] \in {dels[w], {}, snap[w] \cap table}
      BY <1>0, Kinds, Talking, Transacting DEF tx, Deleted
    <3> QED
      BY <3>1, <3>2
  <2>2. Whole({}) /\ Whole(snap[d] \cap table)
    <3>1. \A x \in Savers : By({}, x) = {} /\ By(snap[d] \cap table, x) = By(snap[d], x) \cap By(table, x)
      BY DEF By
    <3> QED
      BY <1>0, <3>1, ZenonT(40) DEF Whole
  <2> QED
    BY <1>0, <2>1, <2>2, WholeStays
<1> QED
  BY <1>1, <1>2, <1>3 DEF WholeNext, AllWhole, Whole, By

(* What the locks of one transaction may do to those of the others.        *)
LEMMA ApartAfter ==
    ASSUME IInv, NEW w \in Savers, SaverStep(w)
    PROVE  CellsApart'
<1>0. TypeOK /\ CellsApart /\ Once
  BY DEF IInv
<1>1. ASSUME NEW d \in Savers \ {w} PROVE dels'[d] = dels[d] /\ ins'[d] = ins[d]
  BY <1>0, Frame DEF Same
<1>2. CASE dels'[w] = dels[w] /\ ins'[w] = ins[w] /\ table' = table
  BY <1>0, <1>1, <1>2 DEF CellsApart
<1>3. CASE Delete(w)
  <2>1. /\ dels'[w] = snap[w] \cap table /\ ins'[w] = ins[w] /\ table' = table
        /\ DeleteWaitsFor(w) = {} /\ ins[w] = {}
    BY <1>0, <1>3, Transacting, TypeParts DEF Deleted, TxOK
  <2>2. ASSUME NEW d \in Savers \ {w}
        PROVE  /\ dels'[w] \cap dels[d] = {}
               /\ \A r \in ins[d], s \in dels'[w] : r.cell # s.cell
    <3>1. snap[w] \cap table \cap dels[d] = {}
      BY <2>1 DEF DeleteWaitsFor
    <3>2. \A r \in ins[d], s \in table \ dels[d] : r.cell # s.cell
      BY <1>0 DEF CellsApart
    <3> QED
      BY <2>1, <3>1, <3>2
  <2> QED
    BY <1>0, <1>1, <2>1, <2>2 DEF CellsApart
<1>4. CASE InsertRow(w)
  <2> DEFINE row == RowFor(w, Head(order[w]))
  <2>1. /\ dels'[w] = dels[w] /\ ins'[w] = ins[w] \cup {row} /\ table' = table
        /\ InsertWaitsFor(w) = {} /\ ~Taken(w)
    BY <1>0, <1>4, Transacting
  <2>2. row.cell = Head(order[w])
    BY DEF RowFor
  <2>3. /\ \A d \in Savers \ {w} : \A s \in ins[d] \cup dels[d] : s.cell # row.cell
        /\ \A s \in table \ dels[w] : s.cell # row.cell
    BY <2>1, <2>2 DEF InsertWaitsFor, Taken
  <2> HIDE DEF row
  <2>4. ASSUME NEW a \in Savers, NEW d \in Savers \ {a}
        PROVE  /\ dels'[a] \cap dels'[d] = {}
               /\ \A r \in ins'[a], s \in ins'[d] \cup dels'[d] : r.cell # s.cell
    <3>1. /\ dels[a] \cap dels[d] = {}
          /\ \A r \in ins[a], s \in ins[d] \cup dels[d] : r.cell # s.cell
      BY <1>0 DEF CellsApart
    <3>2. dels'[a] = dels[a] /\ dels'[d] = dels[d]
      BY <1>1, <2>1
    <3>3. CASE a = w
      BY <1>1, <2>1, <2>3, <3>1, <3>2, <3>3
    <3>4. CASE a # w /\ d = w
      BY <1>1, <2>1, <2>3, <3>1, <3>2, <3>4
    <3>5. CASE a # w /\ d # w
      BY <1>1, <3>1, <3>2, <3>5
    <3> QED
      BY <3>3, <3>4, <3>5
  <2>5. ASSUME NEW a \in Savers
        PROVE  \A r \in ins'[a], s \in table' \ dels'[a] : r.cell # s.cell
    BY <1>0, <1>1, <2>1, <2>3 DEF CellsApart
  <2> QED
    BY <2>4, <2>5 DEF CellsApart
<1>5. CASE Committing(w) \/ Rollback(w) \/ RollbackLate(w)
  <2>1. /\ dels'[w] = {} /\ ins'[w] = {}
        /\ table' = table \/ table' = (table \ dels[w]) \cup ins[w]
    BY <1>0, <1>5, Transacting
  <2>2. ASSUME NEW a \in Savers, NEW d \in Savers \ {a}
        PROVE  /\ dels'[a] \cap dels'[d] = {}
               /\ \A r \in ins'[a], s \in ins'[d] \cup dels'[d] : r.cell # s.cell
    BY <1>0, <1>1, <2>1 DEF CellsApart
  <2>3. ASSUME NEW a \in Savers, NEW r \in ins'[a], NEW s \in table' \ dels'[a]
        PROVE  r.cell # s.cell
    <3>1. a # w /\ r \in ins[a] /\ s \notin dels[a]
      BY <1>1, <2>1, <2>3
    <3>2. s \in table \/ s \in ins[w]
      BY <2>1, <2>3
    <3> QED
      BY <1>0, <3>1, <3>2 DEF CellsApart
  <2> QED
    BY <2>2, <2>3 DEF CellsApart
<1> QED
  BY <1>0, <1>2, <1>3, <1>4, <1>5, Kinds, Talking, Transacting DEF tx

LEMMA SeenAfter ==
    ASSUME IInv, NEW w \in Savers, SaverStep(w)
    PROVE  Seen'
<1>0. TypeOK /\ Seen /\ AllWhole
  BY DEF IInv
<1> SUFFICES ASSUME NEW d \in Savers, pc'[d] \in {"insert", "unheard"}
             PROVE  snap'[d] \cap table' \subseteq dels'[d]
  BY DEF Seen
<1>1. CASE d # w
  <2>1. /\ snap'[d] = snap[d] /\ dels'[d] = dels[d] /\ pc[d] \in {"insert", "unheard"}
        /\ snap[d] \cap table \subseteq dels[d]
    BY <1>0, <1>1, Frame DEF Same, Seen
  <2>2. CASE table' = table
    BY <2>1, <2>2
  <2>3. CASE Committing(w)
    <3>1. table' = (table \ dels[w]) \cup ins[w] /\ pc[w] \notin Over /\ ins[w] \subseteq RowsOf(w)
      BY <1>0, <2>3, Transacting, TypeParts DEF TxOK, Over
    <3>2. By(snap[d], w) = {}
      BY <1>0, <3>1 DEF AllWhole, Whole
    <3>3. snap[d] \cap ins[w] = {}
      BY <1>0, <3>1, <3>2, RowFacts DEF By
    <3> QED
      BY <2>1, <3>1, <3>3
  <2> QED
    BY <1>0, <2>2, <2>3, TableStep
<1>2. CASE d = w
  <2>1. Delete(w) \/ InsertRow(w) \/ LoseCommit(w)
    BY <1>0, <1>2, Kinds, Talking, Transacting DEF Over
  <2> QED
    BY <1>0, <1>2, <2>1, Transacting DEF Seen, Deleted, tx
<1> QED
  BY <1>1, <1>2

LEMMA AllOrNothingAfter ==
    ASSUME IInv, NEW w \in Savers, SaverStep(w)
    PROVE  AllOrNothing'
<1>0. TypeOK /\ AllOrNothing /\ CellsApart
  BY DEF IInv
<1>1. AllWhole'
  BY WholeAfter
<1>2. \A d \in Savers : By(table', d) = {} \/ By(table', d) = RowsOf(d)'
  BY <1>1 DEF AllWhole, Whole, By
<1>3. ASSUME NEW r \in table', NEW s \in table', r.cell = s.cell PROVE r = s
  <2>1. CASE table' = table
    BY <1>0, <1>3, <2>1 DEF AllOrNothing
  <2>2. CASE Committing(w)
    <3>1. table' = (table \ dels[w]) \cup ins[w] /\ ins[w] \subseteq RowsOf(w)
      BY <1>0, <2>2, Transacting, TypeParts DEF TxOK
    <3>2. \A x \in ins[w], y \in table \ dels[w] : x.cell # y.cell
      BY <1>0 DEF CellsApart
    <3>3. \A x, y \in ins[w] : x.cell = y.cell => x = y
      BY <1>0, <3>1, RowFacts
    <3>4. \A x, y \in table : x.cell = y.cell => x = y
      BY <1>0 DEF AllOrNothing
    <3> QED
      BY <1>3, <3>1, <3>2, <3>3, <3>4
  <2> QED
    BY <1>0, <2>1, <2>2, TableStep
<1> QED
  BY <1>2, <1>3 DEF AllOrNothing, By

LEMMA UnheardAfter ==
    ASSUME TypeOK, Unheard, NEW w \in Savers, SaverStep(w)
    PROVE  Unheard'
<1>1. \A d \in Savers \ {w} : pc'[d] = pc[d] /\ reply'[d] = reply[d]
  BY Frame DEF Same
<1>2. ASSUME pc'[w] = "unheard" PROVE reply'[w].code = 500
  <2>1. LoseCommit(w)
    BY <1>2, Kinds, Talking, Transacting DEF Over
  <2>2. reply'[w] = Reply(500, 0, NoMatrix)
    BY <2>1, Transacting
  <2> QED
    BY <2>2 DEF Reply
<1> QED
  BY <1>1, <1>2 DEF Unheard

LEMMA NoTraceAfter ==
    ASSUME IInv, NEW w \in Savers, SaverStep(w)
    PROVE  NoTraceOfFailures'
<1>0. TypeOK /\ NoTraceOfFailures /\ AllWhole
  BY DEF IInv
<1> SUFFICES ASSUME NEW d \in Savers, By(table', d) # {}
             PROVE  \/ pc'[d] = "done" /\ reply'[d] = Reply(200, req'[d].version + 1, matrix'[d])
                    \/ pc'[d] = "late" /\ reply'[d].code = 500
  BY DEF NoTraceOfFailures, By, Reply
<1>1. CASE d # w
  <2>1. By(table, d) # {}
    BY <1>0, <1>1, TableStep, CommittedWhole
  <2> QED
    BY <1>0, <1>1, <2>1, Frame DEF NoTraceOfFailures, Same
<1>2. CASE d = w
  <2>1. By(table, w) = {}
    BY <1>0, NotDone DEF AllWhole, Whole
  <2>2. Committing(w)
    BY <1>0, <1>2, <2>1, TableStep
  <2>3. pc[w] = "unheard" => reply[w].code = 500
    BY DEF IInv, Unheard
  <2> QED
    BY <1>0, <1>2, <2>2, <2>3, Transacting DEF NextVersion
<1> QED
  BY <1>1, <1>2

-----------------------------------------------------------------------------
LEMMA NextInv == IInv /\ [Next]_vars => IInv'
<1> SUFFICES ASSUME IInv, [Next]_vars PROVE IInv'
  OBVIOUS
<1>1. CASE UNCHANGED vars
  <2>1. /\ UNCHANGED <<overlap, ready, table, req, reply, pc, matrix, snap, dels, order, ins>>
        /\ \A w \in Savers : RowsOf(w)' = RowsOf(w) /\ CellsSent(w)' = CellsSent(w)
    BY <1>1, RowsStay DEF vars, setting, tx
  <2>2. TypeOK'
    <3>1. Sorts /\ \A w \in Savers : TxOK(w) /\ ReplyOK(w)
      BY TypeParts DEF IInv
    <3>2. Sorts'
      BY <2>1, <3>1 DEF Sorts
    <3>3. \A w \in Savers : TxOK(w)' /\ ReplyOK(w)'
      BY <2>1, <3>1 DEF TxOK, ReplyOK
    <3> QED
      BY <3>2, <3>3, TypePartsNext
  <2>3. AllWhole' /\ AllOrNothing' /\ NoTraceOfFailures' /\ Unheard'
    BY <2>1 DEF IInv, AllWhole, Whole, AllOrNothing, NoTraceOfFailures, Unheard, By
  <2>4. CellsApart' /\ Seen' /\ Once'
    BY <2>1 DEF IInv, CellsApart, Seen, Once
  <2> QED
    BY <2>2, <2>3, <2>4 DEF IInv
<1>2. CASE Next
  <2>1. PICK w \in Savers : SaverStep(w)
    BY <1>2 DEF Next, SaverStep
  <2>2. TypeOK' /\ Once'
    BY <2>1, TypeNext, SortsNext DEF IInv
  <2> QED
    BY <2>1, <2>2, WholeAfter, ApartAfter, SeenAfter, AllOrNothingAfter, NoTraceAfter,
       UnheardAfter DEF IInv
<1> QED
  BY <1>1, <1>2

(* IInv holds in every reachable state. *)
THEOREM Invariance == Spec => []IInv
BY InitInv, NextInv, PTL DEF Spec

(* Every variable keeps its type, and a transaction's own rows are those   *)
(* of its request that are no longer listed.                               *)
THEOREM TypeCorrect == Spec => []TypeOK
BY Invariance, PTL DEF IInv

(* However saves overlap, fail or deadlock (SaveAdminSettings), the cells  *)
(* of one are in the table all together or not at all, no two rows have    *)
(* the same cell, and rows are only there of saves that were answered 200, *)
(* with the version and the matrix of the answer, or 500 after a COMMIT    *)
(* whose answer was lost: a save that was refused, conflicted or failed    *)
(* before it leaves none.                                                  *)
THEOREM SavesAreAtomic == Spec => []SavesAreWhole
<1>1. IInv => SavesAreWhole
  BY DEF IInv, SavesAreWhole
<1> QED
  BY <1>1, Invariance, PTL

(* What a save found when its DELETE began is gone when it has committed,  *)
(* even if other saves deleted or wrote rows in between.                   *)
THEOREM SavesReplace == Spec => ReplacesWhatItSaw
<1>1. IInv /\ [Next]_vars =>
        [\A w \in Savers : By(table', w) # By(table, w) /\ By(table', w) # {} =>
            snap[w] \cap table' = {}]_vars
  <2> SUFFICES ASSUME IInv, Next, NEW d \in Savers,
                      By(table', d) # By(table, d), By(table', d) # {}
               PROVE  snap[d] \cap table' = {}
    OBVIOUS
  <2>0. TypeOK /\ AllWhole /\ Seen
    BY DEF IInv
  <2>1. PICK w \in Savers : SaverStep(w)
    BY DEF Next, SaverStep
  <2>2. Committing(w) /\ d = w
    BY <2>0, <2>1, TableStep, CommittedWhole
  <2>3. /\ table' = (table \ dels[w]) \cup ins[w] /\ pc[w] \in {"insert", "unheard"}
        /\ ins[w] \subseteq RowsOf(w)
    BY <2>0, <2>2, Transacting, TypeParts DEF TxOK
  <2>4. snap[w] \cap table \subseteq dels[w]
    BY <2>0, <2>3 DEF Seen
  <2>5. By(snap[w], w) = {}
    BY <2>0, <2>3 DEF AllWhole, Whole, Over
  <2>6. snap[w] \cap ins[w] = {}
    BY <2>0, <2>3, <2>5, RowFacts DEF By
  <2> QED
    BY <2>2, <2>3, <2>4, <2>6
<1> QED
  BY <1>1, Invariance, PTL DEF Spec, ReplacesWhatItSaw

-----------------------------------------------------------------------------
(* Requests that do not overlap see a versioned matrix.  Of the version and *)
(* the matrix of a table: of finitely many numbers there is a greatest.    *)
LEMMA GreatestExists ==
    ASSUME NEW S \in SUBSET Nat, IsFiniteSet(S), S # {}
    PROVE  Max(S) \in S /\ \A x \in S : Max(S) >= x
<1> DEFINE Bounded(T) == \E m \in T : \A x \in T : m >= x
           Bad == {T \in FiniteSubsetsOf(S) : T # {} /\ ~ Bounded(T)}
           R == StrictSubsetOrdering(S)
<1>1. Bounded(S)
  <2> SUFFICES ASSUME ~ Bounded(S) PROVE FALSE
    OBVIOUS
  <2>1. S \in Bad /\ Bad \subseteq FiniteSubsetsOf(S)
    BY DEF FiniteSubsetsOf
  <2>2. PICK T \in Bad : \A U \in Bad : ~ (<<U, T>> \in R)
    BY <2>1, FS_StrictSubsetOrderingWellFounded, WFMin
  <2>3. T \subseteq S /\ T # {} /\ ~ Bounded(T) /\ IsFiniteSet(T)
    BY <2>2 DEF FiniteSubsetsOf
  <2>4. PICK x \in T : TRUE
    BY <2>3
  <2>5. T \ {x} \in FiniteSubsetsOf(S) /\ <<T \ {x}, T>> \in R
    BY <2>3, <2>4, FS_RemoveElement DEF FiniteSubsetsOf, StrictSubsetOrdering
  <2>6. T \ {x} = {} \/ Bounded(T \ {x})
    BY <2>2, <2>5
  <2>7. Bounded(T)
    BY <2>3, <2>4, <2>6
  <2> QED
    BY <2>3, <2>7
<1> QED
  BY <1>1 DEF Max

LEMMA InitialVersion ==
    ASSUME NEW t \in InitialTables
    PROVE  StoredVersion(t) \in Nat
<1> DEFINE S == {r.version : r \in t}
<1>1. t \subseteq Rows /\ IsFiniteSet(t)
  BY AdminAssumption
<1>2. S \subseteq Nat
  BY <1>1 DEF Rows
<1>3. [r \in t |-> r.version] \in Surjection(t, S)
  BY DEF Surjection
<1>4. IsFiniteSet(S)
  BY <1>1, <1>3, FS_Surjection
<1>5. t # {} => S # {}
  OBVIOUS
<1>6. StoredVersion(t) = IF t = {} THEN 0 ELSE Max(S)
  BY DEF StoredVersion
<1> HIDE DEF S
<1>7. S # {} => Max(S) \in Nat
  BY <1>2, <1>4, GreatestExists
<1> QED
  BY <1>5, <1>6, <1>7

(* A table with the rows of one save alone. *)
LEMMA OneSave ==
    ASSUME TypeOK, NEW w \in Savers
    PROVE  /\ StoredMatrix(RowsOf(w)) = Versioned!Kept(matrix[w])
           /\ StoredVersion(RowsOf(w)) =
                IF Versioned!Kept(matrix[w]) = NoMatrix THEN 0 ELSE NextVersion(w)
<1> DEFINE m == matrix[w]
           t == RowsOf(w)
           D == {k \in DOMAIN m : DOMAIN m[k] # {}}
<1>1. m \in Matrices
  BY DEF TypeOK
<1>2. /\ \A k \in DOMAIN m : \A o \in DOMAIN m[k] : RowFor(w, <<k, o>>) \in t
      /\ \A r \in t : /\ r.cell = <<r.cell[1], r.cell[2]>> /\ r.cell[1] \in DOMAIN m
                      /\ r.cell[2] \in DOMAIN m[r.cell[1]]
                      /\ r = RowFor(w, r.cell) /\ r.version = NextVersion(w)
      /\ \A r, s \in t : r.cell = s.cell => r = s
  BY <1>1, CellsOfMatrix, RowFacts DEF CellsSent
<1>3. \A k, o : RowFor(w, <<k, o>>).cell = <<k, o>> /\ RowFor(w, <<k, o>>).enabled = m[k][o]
  BY DEF RowFor
<1> HIDE DEF t
<1>4. D = {r.cell[1] : r \in t}
  <2>1. ASSUME NEW k \in D PROVE \E r \in t : r.cell[1] = k
    <3>1. PICK o \in DOMAIN m[k] : TRUE
      OBVIOUS
    <3>2. RowFor(w, <<k, o>>) \in t /\ RowFor(w, <<k, o>>).cell[1] = k
      BY <1>2, <1>3
    <3> QED
      BY <3>2
  <2>2. \A r \in t : r.cell[1] \in D
    BY <1>2
  <2> QED
    BY <2>1, <2>2
<1>5. ASSUME NEW k \in D
      PROVE  [o \in {r.cell[2] : r \in {x \in t : x.cell[1] = k}} |->
                 (CHOOSE r \in t : r.cell = <<k, o>>).enabled] = m[k]
  <2>1. {r.cell[2] : r \in {x \in t : x.cell[1] = k}} = DOMAIN m[k]
    <3>1. ASSUME NEW o \in DOMAIN m[k] PROVE \E r \in t : r.cell[1] = k /\ r.cell[2] = o
      <4>1. RowFor(w, <<k, o>>) \in t /\ RowFor(w, <<k, o>>).cell = <<k, o>>
        BY <1>2, <1>3
      <4> QED
        BY <4>1
    <3>2. \A r \in t : r.cell[1] = k => r.cell[2] \in DOMAIN m[k]
      BY <1>2
    <3> QED
      BY <3>1, <3>2
  <2>2. ASSUME NEW o \in DOMAIN m[k]
        PROVE  (CHOOSE r \in t : r.cell = <<k, o>>).enabled = m[k][o]
    <3>1. RowFor(w, <<k, o>>) \in t
      BY <1>2
    <3>2. (CHOOSE r \in t : r.cell = <<k, o>>) = RowFor(w, <<k, o>>)
      BY <1>2, <1>3, <3>1
    <3> QED
      BY <1>3, <3>2
  <2>3. m[k] = [o \in DOMAIN m[k] |-> m[k][o]]
    BY <1>1 DEF Matrices, RolesMatrix
  <2> QED
    BY <2>1, <2>2, <2>3
<1>6. StoredMatrix(t) = [k \in D |-> m[k]]
  BY <1>4, <1>5 DEF StoredMatrix
<1>7. Versioned!Kept(m) = [k \in D |-> m[k]]
  BY DEF Versioned!Kept
<1>8. Versioned!Kept(m) = NoMatrix <=> t = {}
  <2>1. DOMAIN Versioned!Kept(m) = D /\ DOMAIN NoMatrix = {}
    BY <1>7 DEF NoMatrix
  <2>2. D = {} <=> t = {}
    BY <1>4
  <2>3. D = {} => Versioned!Kept(m) = NoMatrix
    BY <1>7 DEF NoMatrix
  <2> QED
    BY <2>1, <2>2, <2>3
<1>9. t # {} => StoredVersion(t) = NextVersion(w)
  <2> SUFFICES ASSUME t # {} PROVE StoredVersion(t) = NextVersion(w)
    OBVIOUS
  <2>1. {r.version : r \in t} = {NextVersion(w)}
    BY <1>2
  <2>2. PICK r \in t : r \in Rows /\ r.version = NextVersion(w)
    BY <1>2, RowFacts DEF t
  <2>3. NextVersion(w) \in Nat
    BY <2>2 DEF Rows
  <2>4. Max({NextVersion(w)}) = NextVersion(w)
    BY <2>3 DEF Max
  <2> QED
    BY <2>1, <2>4 DEF StoredVersion
<1> QED
  BY <1>6, <1>7, <1>8, <1>9 DEF StoredVersion, t

RInv == IInv /\ Asked /\ Alone

LEMMA InitRInv == Init => RInv
<1> SUFFICES ASSUME Init PROVE RInv
  OBVIOUS
<1>1. /\ matrix = [w \in Savers |-> NoMatrix] /\ req = [w \in Savers |-> NoRequest]
      /\ reply = [w \in Savers |-> NoReply] /\ pc = [w \in Savers |-> "new"]
  BY DEF Init
<1> QED
  BY <1>1, InitInv DEF RInv, Asked, Alone, Over

LEMMA Replying ==
    ASSUME TypeOK, NEW w \in Savers,
           AnswerRead(w) \/ ReadFails(w) \/ AnswerConflict(w) \/ RereadFails(w)
    PROVE  pc'[w] = "done" /\ UNCHANGED <<setting, table, req, matrix, tx>>
<1>1. \E r : Answer(w, r)
  BY DEF AnswerRead, ReadFails, AnswerConflict, RereadFails
<1>2. DOMAIN pc = Savers
  BY DEF TypeOK
<1> QED
  BY <1>1, <1>2 DEF Answer, Goto, AnswerRead, ReadFails, AnswerConflict, RereadFails

LEMMA AskedAfter ==
    ASSUME TypeOK, Asked, NEW w \in Savers, SaverStep(w)
    PROVE  Asked'
<1>1. ASSUME NEW d \in Savers \ {w}
      PROVE  /\ pc'[d] \notin {"unheard"} \cup Over => reply'[d] = NoReply
             /\ pc'[d] = "new" => req'[d] = NoRequest /\ matrix'[d] = NoMatrix
             /\ pc'[d] = "read" => req'[d].method = "GET"
             /\ pc'[d] \notin {"new", "read", "done"} => req'[d].method = "POST"
  BY Frame DEF Same, Asked
<1>2. /\ pc'[w] \notin {"unheard"} \cup Over => reply'[w] = NoReply
      /\ pc'[w] # "new"
      /\ pc'[w] = "read" => req'[w].method = "GET"
      /\ pc'[w] \notin {"new", "read", "done"} => req'[w].method = "POST"
  <2>1. CASE Receive(w)
    <3>0. pc[w] = "new" /\ DOMAIN pc = Savers /\ DOMAIN req = Savers
      BY <2>1 DEF Receive, TypeOK
    <3>1. pc[w] = "new" /\ reply[w] = NoReply /\ DOMAIN pc = Savers /\ DOMAIN req = Savers
      BY <3>0 DEF Asked, Over
    <3>2. PICK r \in Requests[overlap] :
            /\ req' = [req EXCEPT ![w] = r]
            /\ \/ Goto(w, "done")
               \/ r.method = "GET" /\ Goto(w, "read") /\ UNCHANGED reply
               \/ r.method = "POST" /\ Goto(w, "select") /\ UNCHANGED reply
      BY <2>1 DEF Receive, Answer
    <3> QED
      BY <3>1, <3>2 DEF Goto, Over
  <2>2. CASE AnswerRead(w) \/ ReadFails(w) \/ AnswerConflict(w) \/ RereadFails(w)
    BY <2>2, Replying DEF Over
  <2>3. CASE SelectVersion(w)
    <3>1. /\ pc[w] = "select" /\ pc'[w] \in {"delete", "conflict"} /\ req' = req
          /\ reply' = reply
      BY <2>3 DEF SelectVersion, Goto, TypeOK
    <3> QED
      BY <3>1 DEF Asked, Over
  <2>4. CASE BeginDelete(w) \/ Delete(w) \/ InsertRow(w) \/ LoseCommit(w)
    BY <2>4, Transacting DEF Asked, Over
  <2>5. CASE Committing(w)
    <3>1. req' = req /\ pc'[w] \in Over /\ req[w].method = "POST"
      BY <2>5, Transacting DEF Asked
    <3> QED
      BY <3>1 DEF Over
  <2>6. CASE Rollback(w) \/ RollbackLate(w)
    BY <2>6, Transacting DEF Over
  <2> QED
    BY <2>1, <2>2, <2>3, <2>4, <2>5, <2>6, Kinds DEF Talk
<1> QED
  BY <1>1, <1>2 DEF Asked

(* Without overlap the others are not under way. *)
LEMMA OthersRest ==
    ASSUME TypeOK, Alone, ~overlap, NEW w \in Savers, SaverStep(w), NEW d \in Savers \ {w}
    PROVE  pc[d] \in {"new"} \cup Over
<1>1. CASE Receive(w)
  BY <1>1 DEF Receive
<1>2. CASE ~ Receive(w)
  <2>1. pc[w] \notin {"new"} \cup Over
    BY <1>2, Kinds, Transacting
       DEF Talk, AnswerRead, ReadFails, SelectVersion, AnswerConflict, RereadFails, Over
  <2> QED
    BY <2>1 DEF Alone
<1> QED
  BY <1>1, <1>2

LEMMA AloneAfter ==
    ASSUME TypeOK, Alone, NEW w \in Savers, SaverStep(w)
    PROVE  Alone'
<1>0. overlap' = overlap
  BY Kinds, Talking, Transacting DEF setting
<1> SUFFICES ASSUME ~overlap PROVE Alone'
  BY <1>0 DEF Alone
<1>1. ASSUME NEW d \in Savers \ {w} PROVE pc'[d] = pc[d] /\ pc[d] \in {"new"} \cup Over
  BY OthersRest, Frame DEF Same
<1>2. \A a, d \in Savers : {pc'[a], pc'[d]} \cap ({"new"} \cup Over) = {} => a = d
  BY <1>1
<1>3. /\ pc'[w] = "conflict" => ~VersionMatches(w)'
      /\ pc'[w] \in {"delete", "deleting", "insert", "unheard"} => VersionMatches(w)'
      /\ pc'[w] = "deleting" => snap'[w] = table'
      /\ pc'[w] \in {"insert", "unheard"} => dels'[w] = table'
  <2>1. CASE Receive(w)
    <3>1. Goto(w, "done") \/ Goto(w, "read") \/ Goto(w, "select")
      BY <2>1 DEF Receive, Answer
    <3> QED
      BY <3>1 DEF Goto, TypeOK
  <2>2. CASE AnswerRead(w) \/ ReadFails(w) \/ AnswerConflict(w) \/ RereadFails(w)
    BY <2>2, Replying
  <2>3. CASE SelectVersion(w)
    <3>1. /\ pc'[w] = (IF VersionMatches(w) THEN "delete" ELSE "conflict")
          /\ table' = table /\ req' = req
      BY <2>3 DEF SelectVersion, Goto, TypeOK
    <3> QED
      BY <3>1 DEF VersionMatches
  <2>4. CASE BeginDelete(w)
    BY <2>4, Transacting DEF Alone, VersionMatches
  <2>5. CASE Delete(w)
    <3>1. /\ pc[w] = "deleting" /\ pc'[w] = "insert" /\ dels'[w] = snap[w] \cap table
          /\ table' = table /\ req' = req
      BY <2>5, Transacting DEF Deleted
    <3>2. VersionMatches(w) /\ snap[w] = table
      BY <3>1 DEF Alone
    <3> QED
      BY <3>1, <3>2 DEF VersionMatches
  <2>6. CASE InsertRow(w) \/ LoseCommit(w)
    BY <2>6, Transacting DEF Alone, VersionMatches, tx
  <2>7. CASE Committing(w) \/ Rollback(w) \/ RollbackLate(w)
    <3>1. pc'[w] \in Over
      BY <2>7, Transacting DEF Over
    <3> QED
      BY <3>1 DEF Over
  <2>8. \/ Receive(w) \/ AnswerRead(w) \/ ReadFails(w) \/ AnswerConflict(w) \/ RereadFails(w)
        \/ SelectVersion(w) \/ BeginDelete(w) \/ Delete(w) \/ InsertRow(w) \/ LoseCommit(w)
        \/ Committing(w) \/ Rollback(w) \/ RollbackLate(w)
    BY Kinds DEF Talk
  <2> QED
    BY <2>1, <2>2, <2>3, <2>4, <2>5, <2>6, <2>7, <2>8, Zenon
<1>4. \A d \in Savers \ {w} :
        pc'[d] \notin {"conflict", "delete", "deleting", "insert", "unheard"}
  BY <1>1 DEF Over
<1> QED
  BY <1>2, <1>3, <1>4 DEF Alone

LEMMA NextRInv == RInv /\ [Next]_vars => RInv'
<1> SUFFICES ASSUME RInv, [Next]_vars PROVE RInv'
  OBVIOUS
<1>0. IInv' /\ TypeOK
  BY NextInv DEF RInv, IInv
<1>1. CASE UNCHANGED vars
  BY <1>0, <1>1 DEF vars, setting, tx, RInv, Asked, Alone, VersionMatches
<1>2. CASE Next
  <2>1. PICK w \in Savers : SaverStep(w)
    BY <1>2 DEF Next, SaverStep
  <2> QED
    BY <1>0, <2>1, AskedAfter, AloneAfter DEF RInv
<1> QED
  BY <1>1, <1>2

(* The abstract requests, and what stands for them of w. *)
Sent(w) == [method |-> req[w].method, version |-> req[w].version, matrix |-> matrix[w]]
AllSent == [w \in Savers |-> Sent(w)]

(* The savers whose COMMIT may yet take effect. *)
Open == {w \in Savers : pc[w] = "unheard"}

LEMMA OpenStays ==
    ASSUME TypeOK, NEW w \in Savers, SaverStep(w),
           ~ (LoseCommit(w) \/ CommitLate(w) \/ RollbackLate(w))
    PROVE  Open' = Open
<1>1. \A d \in Savers \ {w} : pc'[d] = pc[d]
  BY Frame DEF Same
<1>2. pc[w] # "unheard" /\ pc'[w] # "unheard"
  <2>1. CASE Talk(w)
    BY <2>1, Talking
  <2>2. CASE BeginDelete(w) \/ Delete(w) \/ InsertRow(w)
    BY <2>2, Transacting
  <2>3. CASE Commit(w)
    BY <2>3, Transacting DEF Committing, Commit, Over
  <2>4. CASE Rollback(w) /\ pc[w] \in {"select", "delete", "deleting", "insert"}
    BY <2>4, Transacting
  <2> QED
    BY <2>1, <2>2, <2>3, <2>4, Kinds DEF Committing
<1> QED
  BY <1>1, <1>2 DEF Open

(* Of one whose outcome becomes open, or is settled. *)
LEMMA OpenChanges ==
    ASSUME TypeOK, NEW w \in Savers
    PROVE  /\ LoseCommit(w) => Open' = Open \cup {w}
           /\ CommitLate(w) \/ RollbackLate(w) => w \in Open /\ Open' = Open \ {w}
<1>1. ASSUME LoseCommit(w) PROVE Open' = Open \cup {w}
  BY <1>1 DEF LoseCommit, Goto, TypeOK, Open
<1>2. ASSUME CommitLate(w) \/ RollbackLate(w) PROVE w \in Open /\ Open' = Open \ {w}
  BY <1>2 DEF CommitLate, RollbackLate, Goto, TypeOK, Open
<1> QED
  BY <1>1, <1>2

LEMMA Stutters ==
    ASSUME UNCHANGED <<table, req, matrix, reply>>, Open' = Open
    PROVE  UNCHANGED Versioned!avars
BY DEF Versioned!avars, StoredVersion, StoredMatrix, Open

LEMMA SentStays ==
    ASSUME UNCHANGED <<req, matrix>>
    PROVE  AllSent' = AllSent
BY DEF AllSent, Sent

LEMMA InitRefines == Init => Versioned!AInit
<1> SUFFICES ASSUME Init PROVE Versioned!AInit
  OBVIOUS
<1>1. StoredVersion(table) \in Nat
  BY InitialVersion DEF Init
<1>2. AllSent = [w \in Savers |-> [method |-> "", version |-> 0, matrix |-> NoMatrix]]
  BY DEF Init, AllSent, Sent, NoRequest
<1>3. reply = [w \in Savers |-> NoReply] /\ Open = {}
  BY DEF Init, Open
<1> QED
  BY <1>1, <1>2, <1>3
     DEF Open, Versioned!AInit, AllSent, Sent, NoReply, Versioned!NoReply, Reply, Versioned!Reply

(* An answer to a request that has none yet is one of the abstract system. *)
LEMMA AnswerRefines ==
    ASSUME TypeOK, Asked, NEW w \in Savers, pc[w] \notin {"unheard"} \cup Over,
           NEW code, NEW version, NEW m, Answer(w, Reply(code, version, m))
    PROVE  Versioned!Answer(w, Versioned!Reply(code, version, m))
BY DEF Asked, Answer, Versioned!Answer, NoReply, Versioned!NoReply, Reply, Versioned!Reply

LEMMA ReceiveRefines ==
    ASSUME TypeOK, Asked, NEW w \in Savers, Receive(w), Open' = Open
    PROVE  Versioned!Ask(w)
<1> DEFINE All == UNION {Normalized(r) : r \in UNION {Requests[o] : o \in DOMAIN Requests}}
<1>0. /\ pc[w] = "new" /\ overlap \in DOMAIN Requests
      /\ req[w] = NoRequest /\ matrix[w] = NoMatrix
  BY DEF Receive, TypeOK, Asked
<1>1. PICK r \in Requests[overlap] :
        /\ req' = [req EXCEPT ![w] = r]
        /\ \/ /\ Refusal(r) # 0
              /\ Answer(w, Reply(Refusal(r), 0, NoMatrix))
              /\ UNCHANGED matrix
           \/ /\ Refusal(r) = 0
              /\ UNCHANGED reply
              /\ \/ UNCHANGED matrix
                 \/ /\ r.method = "POST"
                    /\ \E m \in normalizeMatrix(r.body) : matrix' = [matrix EXCEPT ![w] = m]
  BY DEF Receive
<1>2. req'[w] = r /\ \A d \in Savers \ {w} : req'[d] = req[d] /\ matrix'[d] = matrix[d]
  BY <1>1 DEF TypeOK
<1>3. matrix'[w] \in IF r.body = NotJSON THEN {NoMatrix} ELSE normalizeMatrix(r.body) \cup {NoMatrix}
  <2>1. CASE UNCHANGED matrix
    BY <1>0, <2>1
  <2>2. CASE ~ UNCHANGED matrix
    <3>1. /\ Refusal(r) = 0 /\ r.method = "POST"
          /\ \E m \in normalizeMatrix(r.body) : matrix' = [matrix EXCEPT ![w] = m]
      BY <1>1, <2>2
    <3>2. r.body # NotJSON
      BY <3>1 DEF Refusal
    <3>3. matrix'[w] \in normalizeMatrix(r.body)
      BY <3>1 DEF TypeOK
    <3> QED
      BY <3>2, <3>3
  <2> QED
    BY <2>1, <2>2
<1>4. Sent(w)' \in All
  <2>1. Sent(w)' \in Normalized(r)
    BY <1>2, <1>3 DEF Sent, Normalized
  <2> QED
    BY <1>0, <2>1
<1>5. AllSent' = [AllSent EXCEPT ![w] = Sent(w)']
  <2>1. \A d \in Savers \ {w} : Sent(d)' = Sent(d)
    BY <1>2 DEF Sent
  <2> QED
    BY <2>1 DEF AllSent
<1>6. Sent(w) = [method |-> "", version |-> 0, matrix |-> NoMatrix]
  <2>1. NoRequest.method = "" /\ NoRequest.version = 0
    BY DEF NoRequest
  <2> QED
    BY <1>0, <2>1 DEF Sent
<1>7. UNCHANGED reply \/ \E code \in {400, 403, 503} :
                            Versioned!Answer(w, Versioned!Reply(code, 0, NoMatrix))
  <2>1. UNCHANGED reply \/ (Refusal(r) # 0 /\ Answer(w, Reply(Refusal(r), 0, NoMatrix)))
    BY <1>1
  <2>2. Refusal(r) \in {0, 400, 403, 503}
    BY DEF Refusal
  <2>3. pc[w] \notin {"unheard"} \cup Over
    BY <1>0 DEF Over
  <2> QED
    BY <2>1, <2>2, <2>3, AnswerRefines
<1>8. UNCHANGED <<StoredVersion(table), StoredMatrix(table)>>
  BY DEF Receive, StoredVersion, StoredMatrix
<1> QED
  BY <1>4, <1>5, <1>6, <1>7, <1>8, ZenonT(40) DEF Versioned!Ask, AllSent, Sent, Open

LEMMA ReplyRefines ==
    ASSUME TypeOK, Asked, Alone, ~overlap, NEW w \in Savers,
           AnswerRead(w) \/ ReadFails(w) \/ AnswerConflict(w) \/ RereadFails(w), Open' = Open
    PROVE  Versioned!Read(w) \/ Versioned!Fail(w) \/ Versioned!Reject(w)
<1>0. /\ pc[w] \notin {"unheard"} \cup Over /\ UNCHANGED <<table, req, matrix>>
      /\ UNCHANGED <<StoredVersion(table), StoredMatrix(table)>> /\ AllSent' = AllSent
      /\ AllSent[w].method = req[w].method /\ AllSent[w].version = req[w].version
      /\ AllSent[w].matrix = matrix[w]
  <2>1. pc[w] \notin {"unheard"} \cup Over /\ UNCHANGED <<table, req, matrix>>
    BY DEF AnswerRead, ReadFails, AnswerConflict, RereadFails, Over
  <2>2. UNCHANGED <<StoredVersion(table), StoredMatrix(table)>>
    BY <2>1 DEF StoredVersion, StoredMatrix
  <2> QED
    BY <2>1, <2>2, SentStays DEF AllSent, Sent
<1>1. CASE AnswerRead(w)
  <2>1. Versioned!Answer(w, Versioned!Reply(200, StoredVersion(table), StoredMatrix(table)))
    BY <1>0, <1>1, AnswerRefines DEF AnswerRead
  <2>2. req[w].method = "GET"
    BY <1>1 DEF AnswerRead, Asked
  <2> QED
    BY <1>0, <2>1, <2>2 DEF Versioned!Read, AllSent, Sent, Open
<1>2. CASE ReadFails(w)
  <2>1. Versioned!Answer(w, Versioned!Reply(500, 0, NoMatrix))
    BY <1>0, <1>2, AnswerRefines DEF ReadFails
  <2> QED
    BY <1>0, <2>1 DEF Versioned!Fail, AllSent, Sent, Open
<1>3. CASE AnswerConflict(w) \/ RereadFails(w)
  <2>1. \/ Versioned!Answer(w, Versioned!Reply(409, StoredVersion(table), StoredMatrix(table)))
        \/ Versioned!Answer(w, Versioned!Reply(409, 0, matrix[w]))
    BY <1>0, <1>3, AnswerRefines DEF AnswerConflict, RereadFails, ConflictBody
  <2>2. pc[w] = "conflict"
    BY <1>3 DEF AnswerConflict, RereadFails
  <2>3. req[w].method = "POST" /\ req[w].version # StoredVersion(table)
    BY <2>2 DEF Asked, Alone, VersionMatches
  <2> QED
    BY <1>0, <2>1, <2>3 DEF Versioned!Reject, AllSent, Sent, Open
<1> QED
  BY <1>1, <1>2, <1>3

LEMMA Replaces ==
    ASSUME RInv, ~overlap, NEW w \in Savers, Committing(w)
    PROVE  /\ Versioned!Replace(w)
           /\ req[w].version = StoredVersion(table) /\ AllSent[w].matrix = matrix[w]
<1>0. TypeOK /\ Asked /\ Alone
  BY DEF RInv, IInv
<1>1. /\ pc[w] \in {"insert", "unheard"} /\ order[w] = <<>>
      /\ table' = (table \ dels[w]) \cup ins[w] /\ UNCHANGED <<req, matrix>>
  BY <1>0, Transacting
<1>2. /\ req[w].method = "POST" /\ req[w].version = StoredVersion(table) /\ dels[w] = table
  BY <1>0, <1>1 DEF Asked, Alone, VersionMatches
<1>3. ins[w] = RowsOf(w)
  <2>1. ins[w] = {r \in RowsOf(w) : r.cell \notin Listed(order[w])}
    BY <1>0, <1>1, TypeParts DEF TxOK
  <2> QED
    BY <1>1, <2>1 DEF Listed
<1>4. table' = RowsOf(w)
  BY <1>1, <1>2, <1>3
<1>5. /\ StoredMatrix(table') = Versioned!Kept(matrix[w])
      /\ StoredVersion(table') =
            IF StoredMatrix(table') = NoMatrix THEN 0 ELSE StoredVersion(table) + 1
  BY <1>0, <1>2, <1>4, OneSave DEF NextVersion
<1>6. /\ AllSent' = AllSent /\ AllSent[w].method = "POST"
      /\ AllSent[w].version = StoredVersion(table) /\ AllSent[w].matrix = matrix[w]
  BY <1>1, <1>2, SentStays DEF AllSent, Sent
<1>7. StoredMatrix(table)' = StoredMatrix(table') /\ StoredVersion(table)' = StoredVersion(table')
  BY DEF StoredMatrix, StoredVersion
<1> QED
  BY <1>2, <1>5, <1>6, <1>7 DEF Versioned!Replace, AllSent, Sent

LEMMA CommitRefines ==
    ASSUME RInv, ~overlap, NEW w \in Savers, Commit(w), Open' = Open
    PROVE  Versioned!Save(w)
<1>0. TypeOK /\ Asked
  BY DEF RInv, IInv
<1>1. /\ Versioned!Replace(w) /\ req[w].version = StoredVersion(table)
      /\ AllSent[w].matrix = matrix[w]
  BY Replaces DEF Committing
<1>2. pc[w] \notin {"unheard"} \cup Over /\ Answer(w, Reply(200, NextVersion(w), matrix[w]))
  BY DEF Commit, Over
<1>3. Versioned!Answer(w, Versioned!Reply(200, StoredVersion(table) + 1, matrix[w]))
  BY <1>0, <1>1, <1>2, AnswerRefines DEF NextVersion
<1> QED
  BY <1>1, <1>3 DEF Versioned!Save, AllSent, Sent, Open

(* A COMMIT that is not heard of leaves the outcome open, and settles it   *)
(* by replacing the matrix or leaving all as it was.                       *)
LEMMA LoseRefines ==
    ASSUME RInv, ~overlap, NEW w \in Savers, LoseCommit(w)
    PROVE  Versioned!Lose(w)
<1>0. TypeOK /\ Asked /\ Alone
  BY DEF RInv, IInv
<1>1. /\ pc[w] = "insert" /\ reply' = [reply EXCEPT ![w] = Reply(500, 0, NoMatrix)]
      /\ UNCHANGED <<table, req, matrix>> /\ reply[w] = NoReply
  BY <1>0 DEF LoseCommit, Asked, Over
<1>2. req[w].method = "POST" /\ req[w].version = StoredVersion(table)
  BY <1>0, <1>1 DEF Asked, Alone, VersionMatches
<1>3. Versioned!Answer(w, Versioned!Reply(500, 0, NoMatrix))
  BY <1>1 DEF Versioned!Answer, NoReply, Versioned!NoReply, Reply, Versioned!Reply
<1>4. Open' = Open \cup {w}
  BY <1>0, OpenChanges
<1>5. /\ AllSent' = AllSent /\ AllSent[w].method = "POST"
      /\ AllSent[w].version = StoredVersion(table)
      /\ UNCHANGED <<StoredVersion(table), StoredMatrix(table)>>
  BY <1>1, <1>2, SentStays DEF AllSent, Sent, StoredVersion, StoredMatrix
<1> QED
  BY <1>3, <1>4, <1>5 DEF Versioned!Lose, AllSent, Sent, Open

LEMMA SettleRefines ==
    ASSUME RInv, ~overlap, NEW w \in Savers, CommitLate(w) \/ RollbackLate(w)
    PROVE  Versioned!Settle(w)
<1>0. TypeOK
  BY DEF RInv, IInv
<1>1. w \in Open /\ Open' = Open \ {w} /\ UNCHANGED reply
  BY <1>0, OpenChanges DEF CommitLate, RollbackLate
<1>2. CASE CommitLate(w)
  <2>1. Versioned!Replace(w)
    BY <1>2, Replaces DEF Committing
  <2> QED
    BY <1>1, <2>1 DEF Versioned!Settle, Open
<1>3. CASE RollbackLate(w)
  <2>1. UNCHANGED <<table, req, matrix>>
    BY <1>3 DEF RollbackLate
  <2>2. AllSent' = AllSent /\ UNCHANGED <<StoredVersion(table), StoredMatrix(table)>>
    BY <2>1, SentStays DEF StoredVersion, StoredMatrix
  <2> QED
    BY <1>1, <2>2 DEF Versioned!Settle, AllSent, Sent, Open
<1> QED
  BY <1>2, <1>3

LEMMA RollbackRefines ==
    ASSUME TypeOK, Asked, NEW w \in Savers, pc[w] \notin {"unheard"} \cup Over, Rollback(w),
           Open' = Open
    PROVE  Versioned!Fail(w)
<1>1. Versioned!Answer(w, Versioned!Reply(500, 0, NoMatrix)) /\ UNCHANGED <<table, req, matrix>>
  BY AnswerRefines DEF Rollback
<1> QED
  BY <1>1, SentStays DEF Versioned!Fail, AllSent, Sent, StoredVersion, StoredMatrix, Open

LEMMA StepRefines ==
    ASSUME RInv, [Next]_vars, ~overlap
    PROVE  [Versioned!ANext]_Versioned!avars
<1>0. TypeOK /\ Asked /\ Alone
  BY DEF RInv, IInv
<1>1. CASE UNCHANGED vars
  BY <1>1, Stutters DEF vars, Open
<1>2. CASE Next
  <2>1. PICK w \in Savers : SaverStep(w)
    BY <1>2 DEF Next, SaverStep
  <2>2. CASE LoseCommit(w) \/ CommitLate(w) \/ RollbackLate(w)
    <3>1. Versioned!Lose(w) \/ Versioned!Settle(w)
      BY <2>2, LoseRefines, SettleRefines
    <3> QED
      BY <3>1 DEF Versioned!ANext
  <2>3. CASE ~ (LoseCommit(w) \/ CommitLate(w) \/ RollbackLate(w))
    <3>0. Open' = Open
      BY <1>0, <2>1, <2>3, OpenStays
    <3>1. CASE SelectVersion(w) \/ BeginDelete(w) \/ Delete(w) \/ InsertRow(w)
      BY <3>0, <3>1, Stutters DEF SelectVersion, BeginDelete, Delete, InsertRow
    <3>2. CASE ~ (SelectVersion(w) \/ BeginDelete(w) \/ Delete(w) \/ InsertRow(w))
      <4>1. \/ Receive(w) \/ Commit(w)
            \/ AnswerRead(w) \/ ReadFails(w) \/ AnswerConflict(w) \/ RereadFails(w)
            \/ Rollback(w) /\ pc[w] \notin {"unheard"} \cup Over
        BY <2>1, <2>3, <3>2, Kinds DEF Talk, Committing, Over
      <4>2. \/ Versioned!Ask(w) \/ Versioned!Read(w) \/ Versioned!Save(w) \/ Versioned!Reject(w)
            \/ Versioned!Fail(w)
        BY <1>0, <3>0, <4>1, ReceiveRefines, ReplyRefines, CommitRefines, RollbackRefines
      <4> QED
        BY <4>2 DEF Versioned!ANext
    <3> QED
      BY <3>1, <3>2
  <2> QED
    BY <2>2, <2>3
<1> QED
  BY <1>1, <1>2

(* As long as requests do not overlap, GET and POST /api/admin/settings    *)
(* are those of a versioned matrix: the first table has a version, and     *)
(* every step is one of VersionedMatrix or changes nothing of it; also     *)
(* those that end a transaction whose COMMIT was sent and not answered.    *)
THEOREM VersionedWithoutOverlap == Spec => Refines
<1>1. RInv /\ [Next]_vars => [~overlap => [Versioned!ANext]_Versioned!avars]_vars
  BY StepRefines
<1> QED
  BY <1>1, InitRInv, NextRInv, InitRefines, PTL DEF Spec, Refines

=============================================================================
