---------------------------- MODULE AdminSettings ----------------------------
(***************************************************************************)
(* GET and POST /api/admin/settings: api/admin_settings.go over            *)
(* internal/service/admin_settings.go, which keep the permission matrix as *)
(* one row per cell, each with the version of the save that wrote it.  The *)
(* highest version is that of the matrix, so a matrix without a cell has   *)
(* version 0 whatever its save was answered.                               *)
(*                                                                         *)
(* PostgreSQL runs the transaction at READ COMMITTED: a statement sees     *)
(* what was committed when it began, DELETE waits for transactions that    *)
(* are deleting the same rows and skips the rows they removed, INSERT      *)
(* waits for transactions that are writing the same cell and fails if a    *)
(* row has it in the end.                                                  *)
(***************************************************************************)
EXTENDS Integers, Sequences, FiniteSetsExt, Relation

CONSTANTS Savers,         \* one per request
          Modules,        \* module keys, trimmed; "" is none
          Requests,       \* what clients send, by whether they overlap in time:
                          \* sets of [method, userRole, role, version, body]
          NotJSON,        \* a body BindJSON refuses
          InitialTables   \* what a request may find

allowedRoles == {"admin", "operator", "user"}

(* A matrix is a function from modules to functions from roles to BOOLEAN. *)
RolesMatrix == UNION {[D -> BOOLEAN] : D \in SUBSET allowedRoles}
Matrices == UNION {[D -> RolesMatrix] : D \in SUBSET Modules}
Cells == Modules \X allowedRoles
CellsOf(m) == UNION {{k} \X DOMAIN m[k] : k \in DOMAIN m}

(* A body is a set of entries.  The keys of two entries, or of two roles   *)
(* of one, may differ as they are sent and be the same in normal form.     *)
Entries ==
    [module : Modules \cup {""}, roles : SUBSET [role : STRING, enabled : BOOLEAN]]

Initially == "initially"
Rows == [cell : Cells, enabled : BOOLEAN, version : Nat, by : Savers \cup {Initially}]

ASSUME AdminAssumption ==
    /\ DOMAIN Requests \subseteq BOOLEAN
    /\ \A o \in DOMAIN Requests : \A r \in Requests[o] :
        /\ r.method \in {"GET", "POST"} /\ r.userRole \in STRING /\ r.role \in STRING
        /\ r.version \in Nat
        /\ r.body = NotJSON \/ (r.body \subseteq Entries /\ IsFiniteSet(r.body))
    /\ "" \notin Modules
    /\ Initially \notin Savers
    /\ \A t \in InitialTables :
        /\ t \subseteq {r \in Rows : r.by = Initially} /\ IsFiniteSet(t)
        /\ \A r, s \in t : r.cell = s.cell => r = s

NoMatrix == [k \in {} |-> FALSE]
NoRequest == [method |-> "", userRole |-> "", role |-> "", version |-> 0, body |-> {}]
Reply(code, version, m) == [code |-> code, version |-> version, matrix |-> m]
NoReply == Reply(0, 0, NoMatrix)

VARIABLES overlap, \* whether clients send requests before others are answered
          ready,   \* whether the service database was configured at startup
          table,   \* committed rows
          req, reply, pc,
          matrix,  \* the normalized matrix of each request
          snap,    \* rows the DELETE of each transaction saw
          dels,    \* rows it deleted and did not commit
          order,   \* cells it has yet to insert, in the order of its INSERT
          ins      \* rows it inserted and did not commit

tx == <<snap, dels, order, ins>>
setting == <<overlap, ready>>
vars == <<setting, table, req, reply, pc, matrix, tx>>

(* GetAdminSettings: the matrix of the rows, and the highest version.      *)
StoredVersion(t) == IF t = {} THEN 0 ELSE Max({r.version : r \in t})
StoredMatrix(t) ==
    [k \in {r.cell[1] : r \in t} |->
        [o \in {r.cell[2] : r \in {x \in t : x.cell[1] = k}} |->
            (CHOOSE r \in t : r.cell = <<k, o>>).enabled]]

NextVersion(w) == req[w].version + 1

RowFor(w, c) ==
    [cell |-> c, enabled |-> matrix[w][c[1]][c[2]], version |-> NextVersion(w), by |-> w]
CellsSent(w) == CellsOf(matrix[w])
RowsOf(w) == {RowFor(w, c) : c \in CellsSent(w)}

(* normalizeMatrix refuses an empty key and a role it does not know.       *)
Refused(body) ==
    \E e \in body : e.module = "" \/ \E x \in e.roles : x.role \notin allowedRoles

(* It iterates over maps: of entries that collide any may be the last one, *)
(* which then replaces the others, roles and all.                          *)
RolesRead(e) ==
    {f \in [{x.role : x \in e.roles} -> BOOLEAN] :
        \A o \in DOMAIN f : [role |-> o, enabled |-> f[o]] \in e.roles}
normalizeMatrix(body) ==
    {m \in [{e.module : e \in body} -> UNION {RolesRead(e) : e \in body}] :
        \A k \in DOMAIN m : \E e \in body : e.module = k /\ m[k] \in RolesRead(e)}

(* X-User-Role decides, X-Role when it is missing. *)
RoleOf(r) == IF r.userRole = "" THEN r.role ELSE r.userRole
Allowed(r) == RoleOf(r) \in {"admin", "operator"}

Init ==
    /\ overlap \in DOMAIN Requests
    /\ ready \in {TRUE, overlap}
    /\ matrix = [w \in Savers |-> NoMatrix]
    /\ table \in InitialTables
    /\ req = [w \in Savers |-> NoRequest]
    /\ reply = [w \in Savers |-> NoReply]
    /\ pc = [w \in Savers |-> "new"]
    /\ snap = [w \in Savers |-> {}]
    /\ dels = [w \in Savers |-> {}]
    /\ order = [w \in Savers |-> <<>>]
    /\ ins = [w \in Savers |-> {}]

Goto(w, label) == pc' = [pc EXCEPT ![w] = label]
Answer(w, r) == reply' = [reply EXCEPT ![w] = r] /\ Goto(w, "done")

Over == {"done", "late"}

-----------------------------------------------------------------------------
(* What is refused before the database is asked. *)
Refusal(r) ==
    CASE ~Allowed(r) -> 403
      [] Allowed(r) /\ r.method = "POST" /\ (r.body = NotJSON \/ Refused(r.body)) -> 400
      [] OTHER -> IF ready THEN 0 ELSE 503

(* A request arrives and passes the checks that precede the database, or   *)
(* is refused by them.  Without overlap the next one comes when the last   *)
(* one was answered and has no transaction open at the server any more;    *)
(* which saver sends it makes no difference then.                          *)
Receive(w) ==
    /\ pc[w] = "new"
    /\ \/ overlap
       \/ /\ \A d \in Savers : pc[d] \in {"new"} \cup Over
          /\ w = CHOOSE d \in Savers : pc[d] = "new"
    /\ \E r \in Requests[overlap] :
        /\ req' = [req EXCEPT ![w] = r]
        /\ \/ /\ Refusal(r) # 0
              /\ Answer(w, Reply(Refusal(r), 0, NoMatrix))
              /\ UNCHANGED matrix
           \/ /\ Refusal(r) = 0 /\ r.method = "GET"
              /\ Goto(w, "read")
              /\ UNCHANGED <<reply, matrix>>
           \/ /\ Refusal(r) = 0 /\ r.method = "POST"
              /\ \E m \in normalizeMatrix(r.body) : matrix' = [matrix EXCEPT ![w] = m]
              /\ Goto(w, "select")
              /\ UNCHANGED reply
    /\ UNCHANGED <<setting, table, tx>>

(* GetAdminSettings is one statement. *)
AnswerRead(w) ==
    /\ pc[w] = "read"
    /\ Answer(w, Reply(200, StoredVersion(table), StoredMatrix(table)))
    /\ UNCHANGED <<setting, table, req, matrix, tx>>

ReadFails(w) ==
    /\ pc[w] = "read"
    /\ Answer(w, Reply(500, 0, NoMatrix))
    /\ UNCHANGED <<setting, table, req, matrix, tx>>

(* A bug: the versions are not compared. *)
VersionMatches_Any(w) == TRUE
VersionMatches(w) == StoredVersion(table) = req[w].version

(* SELECT COALESCE(MAX(version), 0); another version ends the transaction. *)
SelectVersion(w) ==
    /\ pc[w] = "select"
    /\ Goto(w, IF VersionMatches(w) THEN "delete" ELSE "conflict")
    /\ UNCHANGED <<setting, table, req, matrix, reply, tx>>

(* The conflict is answered with what is stored by now; if reading it      *)
(* fails, with version 0 and the matrix that was sent.                     *)
ConflictBody(w) == Reply(409, StoredVersion(table), StoredMatrix(table))

AnswerConflict(w) ==
    /\ pc[w] = "conflict"
    /\ Answer(w, ConflictBody(w))
    /\ UNCHANGED <<setting, table, req, matrix, tx>>

RereadFails(w) ==
    /\ pc[w] = "conflict"
    /\ Answer(w, Reply(409, 0, matrix[w]))
    /\ UNCHANGED <<setting, table, req, matrix, tx>>

(* DELETE of all rows begins: it will delete those it sees. *)
BeginDelete(w) ==
    /\ pc[w] = "delete"
    /\ snap' = [snap EXCEPT ![w] = table]
    /\ Goto(w, "deleting")
    /\ UNCHANGED <<setting, table, req, matrix, reply, dels, order, ins>>

(* Transactions a statement waits for. *)
DeleteWaitsFor(w) ==
    {d \in Savers \ {w} : snap[w] \cap table \cap dels[d] # {}}
InsertWaitsFor(w) ==
    {d \in Savers \ {w} : \E r \in ins[d] \cup dels[d] : r.cell = Head(order[w])}

(* A bug: only some of the rows go. *)
Deleted_Some(w) == {r \in snap[w] \cap table : ~r.enabled}
Deleted(w) == snap[w] \cap table

(* The rows another transaction removed meanwhile are skipped.  The rows   *)
(* to insert are then listed in the order of two map iterations: any.      *)
Delete(w) ==
    /\ pc[w] = "deleting"
    /\ DeleteWaitsFor(w) = {}
    /\ dels' = [dels EXCEPT ![w] = Deleted(w)]
    /\ \E s \in {f \in [1 .. Cardinality(CellsSent(w)) -> CellsSent(w)] :
                    \A c \in CellsSent(w) : \E i \in DOMAIN f : f[i] = c} :
        order' = [order EXCEPT ![w] = s]
    /\ Goto(w, "insert")
    /\ UNCHANGED <<setting, table, req, matrix, reply, snap, ins>>

(* The unique index on module and role. *)
Taken(w) == \E r \in table \ dels[w] : r.cell = Head(order[w])

InsertRow(w) ==
    /\ pc[w] = "insert"
    /\ order[w] # <<>>
    /\ InsertWaitsFor(w) = {}
    /\ ~Taken(w)
    /\ ins' = [ins EXCEPT ![w] = @ \cup {RowFor(w, Head(order[w]))}]
    /\ order' = [order EXCEPT ![w] = Tail(@)]
    /\ UNCHANGED <<setting, table, req, matrix, reply, pc, snap, dels>>

(* The transaction is rolled back and the request answered with 500.       *)
(* Bugs: rows inserted before the failure are kept; its locks are. *)
Rollback_KeepLocks(w) ==
    /\ ins' = [ins EXCEPT ![w] = {}]
    /\ order' = [order EXCEPT ![w] = <<>>]
    /\ Answer(w, Reply(500, 0, NoMatrix))
    /\ UNCHANGED <<setting, table, req, matrix, snap, dels>>
Rollback_KeepRows(w) ==
    /\ table' = table \cup ins[w]
    /\ dels' = [dels EXCEPT ![w] = {}]
    /\ ins' = [ins EXCEPT ![w] = {}]
    /\ order' = [order EXCEPT ![w] = <<>>]
    /\ Answer(w, Reply(500, 0, NoMatrix))
    /\ UNCHANGED <<setting, req, matrix, snap>>
Rollback(w) ==
    /\ dels' = [dels EXCEPT ![w] = {}]
    /\ ins' = [ins EXCEPT ![w] = {}]
    /\ order' = [order EXCEPT ![w] = <<>>]
    /\ Answer(w, Reply(500, 0, NoMatrix))
    /\ UNCHANGED <<setting, table, req, matrix, snap>>

(* A row another save committed meanwhile has the cell. *)
DuplicateCell(w) ==
    /\ pc[w] = "insert"
    /\ order[w] # <<>>
    /\ InsertWaitsFor(w) = {}
    /\ Taken(w)
    /\ Rollback(w)

WaitsFor ==
    [p \in Savers \X Savers |->
        \/ pc[p[1]] = "deleting" /\ p[2] \in DeleteWaitsFor(p[1])
        \/ pc[p[1]] = "insert" /\ order[p[1]] # <<>> /\ p[2] \in InsertWaitsFor(p[1])]

(* A bug: waiting transactions are never told of the deadlock. *)
InDeadlock_Never(w) == FALSE
InDeadlock(w) ==
    LET waits == WaitsFor
    IN  (\E d \in Savers : waits[w, d]) /\ TransitiveClosure(waits, Savers)[w, w]

DeadlockVictim(w) ==
    /\ pc[w] \in {"deleting", "insert"}
    /\ InDeadlock(w)
    /\ Rollback(w)

CommitRows(w) ==
    /\ table' = (table \ dels[w]) \cup ins[w]
    /\ dels' = [dels EXCEPT ![w] = {}]
    /\ ins' = [ins EXCEPT ![w] = {}]
    /\ UNCHANGED <<setting, req, matrix, snap, order>>

Commit(w) ==
    /\ pc[w] = "insert"
    /\ order[w] = <<>>
    /\ CommitRows(w)
    /\ Answer(w, Reply(200, NextVersion(w), matrix[w]))

(* COMMIT is sent and its answer does not come: the connection is lost, or *)
(* the request is cancelled.  Transaction returns the error, answered 500, *)
(* and what becomes of the transaction is up to the server.                *)
LoseCommit(w) ==
    /\ pc[w] = "insert"
    /\ order[w] = <<>>
    /\ reply' = [reply EXCEPT ![w] = Reply(500, 0, NoMatrix)]
    /\ Goto(w, "unheard")
    /\ UNCHANGED <<setting, table, req, matrix, tx>>

(* It received the COMMIT, and the save answered 500 takes effect, *)
CommitLate(w) ==
    /\ pc[w] = "unheard"
    /\ CommitRows(w)
    /\ Goto(w, "late")
    /\ UNCHANGED reply

(* or it did not, and ends the transaction when it finds the client gone. *)
RollbackLate(w) ==
    /\ pc[w] = "unheard"
    /\ dels' = [dels EXCEPT ![w] = {}]
    /\ ins' = [ins EXCEPT ![w] = {}]
    /\ Goto(w, "done")
    /\ UNCHANGED <<setting, table, req, matrix, reply, snap, order>>

(* A statement fails, or the request is cancelled, before COMMIT is sent:  *)
(* the transaction has no effect.                                          *)
Abort(w) ==
    /\ pc[w] \in {"select", "delete", "deleting", "insert"}
    /\ Rollback(w)

Step(w) ==
    \/ AnswerRead(w) \/ SelectVersion(w) \/ AnswerConflict(w) \/ BeginDelete(w) \/ Delete(w)
    \/ InsertRow(w) \/ DuplicateCell(w) \/ DeadlockVictim(w) \/ Commit(w)
    \/ CommitLate(w) \/ RollbackLate(w)

Next ==
    \E w \in Savers :
        Receive(w) \/ Step(w) \/ ReadFails(w) \/ RereadFails(w) \/ Abort(w)
        \/ LoseCommit(w)

Spec == Init /\ [][Next]_vars

(* Handlers keep running; PostgreSQL executes statements, detects deadlocks *)
(* and ends what has lost its client.  Nobody has to send a request and    *)
(* nothing has to fail.                                                    *)
FairSpec == Spec /\ \A w \in Savers : WF_vars(Step(w))

-----------------------------------------------------------------------------
Phases ==
    {"new", "read", "select", "conflict", "delete", "deleting", "insert", "unheard"}
        \cup Over
Listed(s) == {s[i] : i \in DOMAIN s}

(* What each variable holds.  A transaction's own rows are those of its    *)
(* request that are no longer listed, and it has locks only while it runs. *)
TypeOK ==
    /\ overlap \in DOMAIN Requests /\ ready \in {TRUE, overlap}
    /\ table \subseteq Rows
    /\ req \in [Savers -> Requests[overlap] \cup {NoRequest}]
    /\ pc \in [Savers -> Phases]
    /\ matrix \in [Savers -> Matrices]
    /\ {snap, dels, ins} \subseteq [Savers -> SUBSET Rows]
    /\ order \in [Savers -> Seq(Cells)] /\ DOMAIN reply = Savers
    /\ \A w \in Savers :
        /\ dels[w] \subseteq table /\ ins[w] \subseteq RowsOf(w)
        /\ pc[w] \in {"insert", "unheard"} =>
            ins[w] = {r \in RowsOf(w) : r.cell \notin Listed(order[w])}
        /\ pc[w] \notin {"insert", "unheard"} => dels[w] = {} /\ ins[w] = {}
        /\ pc[w] # "insert" => order[w] = <<>>
        /\ reply[w].code \in {0, 200, 400, 403, 409, 500, 503}
        /\ (reply[w].code = 0) <=> (pc[w] \notin {"unheard"} \cup Over)

By(t, w) == {r \in t : r.by = w}

(* The cells of a save are in the table all together or not at all, and no *)
(* cell is both granted and denied.                                        *)
AllOrNothing ==
    /\ \A w \in Savers : By(table, w) \in {{}, RowsOf(w)}
    /\ \A r, s \in table : r.cell = s.cell => r = s

(* A save that was refused, conflicted or failed has no cell in the table, *)
(* unless what failed was to hear of the COMMIT that took effect.          *)
NoTraceOfFailures ==
    \A w \in Savers : By(table, w) # {} =>
        \/ pc[w] = "done" /\ reply[w] = Reply(200, req[w].version + 1, matrix[w])
        \/ pc[w] = "late" /\ reply[w].code = 500

(* However saves overlap, fail or deadlock, a reader never sees half a     *)
(* matrix, and what it sees is of a save that was answered with success,   *)
(* this version and this matrix, or that sent COMMIT and lost the answer.  *)
SavesAreWhole == AllOrNothing /\ NoTraceOfFailures

(* No row that was there when a save began to replace the matrix survives  *)
(* its commit, even if others replaced the matrix in between.              *)
ReplacesWhatItSaw ==
    [][\A w \in Savers : By(table', w) # By(table, w) /\ By(table', w) # {} =>
          snap[w] \cap table' = {}]_vars

(* Every request is answered, though saves wait for each other's rows.     *)
Answered == \A w \in Savers : pc[w] # "new" ~> reply[w] # NoReply

(* Requests that do not overlap see a versioned matrix: a save with the    *)
(* current version replaces all of it, any other is turned away, and a read *)
(* is answered with the matrix of the last save.  A save that lost the     *)
(* answer to its COMMIT may yet replace it, all of it too.                 *)
Normalized(r) ==
    {[method |-> r.method, version |-> r.version, matrix |-> m] :
        m \in IF r.body = NotJSON THEN {NoMatrix} ELSE normalizeMatrix(r.body) \cup {NoMatrix}}
Versioned == INSTANCE VersionedMatrix
    WITH version <- StoredVersion(table), matrix <- StoredMatrix(table),
         open <- {w \in Savers : pc[w] = "unheard"},
         req <- [w \in Savers |-> [method |-> req[w].method, version |-> req[w].version,
                                   matrix |-> matrix[w]]],
         NoRequest <- [method |-> "", version |-> 0, matrix |-> NoMatrix],
         Requests <- UNION {Normalized(r) : r \in UNION {Requests[o] : o \in DOMAIN Requests}}
Refines ==
    /\ Versioned!AInit
    /\ [][~overlap => [Versioned!ANext]_Versioned!avars]_vars

(* "SaveAdminSettings replaces the permission matrix if the provided       *)
(* version matches the stored version": after a save the matrix is the one *)
(* it sent.                                                                *)
ReplacesMatrix ==
    [][\A w \in Savers : reply[w] # reply'[w] /\ reply'[w].code = 200 =>
          table' = RowsOf(w)]_vars
=============================================================================
