--------------------------- MODULE VersionedMatrix ---------------------------
(***************************************************************************)
(* What the admin settings endpoints promise: a matrix with a version.  A  *)
(* save that names the current version replaces the matrix and raises the  *)
(* version by one; any other is told of the conflict and changes nothing.  *)
(* A save that fails changes nothing, or may do so once after its answer,  *)
(* as long as its version is current: then it did not hear of its COMMIT.  *)
(* Modules without a role are not kept, and a matrix of which nothing is   *)
(* kept starts over at version 0.                                          *)
(***************************************************************************)
EXTENDS Integers

CONSTANTS Savers, Requests, NoRequest, NoMatrix

Reply(code, version, matrix) == [code |-> code, version |-> version, matrix |-> matrix]
NoReply == Reply(0, 0, NoMatrix)

VARIABLES version, matrix,   \* what is stored
          req, reply,        \* of each saver
          open               \* savers that failed and may still take effect
avars == <<version, matrix, req, reply, open>>

AInit ==
    /\ version \in Nat
    /\ req = [w \in Savers |-> NoRequest]
    /\ reply = [w \in Savers |-> NoReply]
    /\ open = {}

Answer(w, r) ==
    /\ reply[w] = NoReply
    /\ reply' = [reply EXCEPT ![w] = r]

(* A request arrives; one that is not allowed, malformed or comes without  *)
(* a database is refused.                                                  *)
Ask(w) ==
    /\ req[w] = NoRequest
    /\ \E r \in Requests : req' = [req EXCEPT ![w] = r]
    /\ UNCHANGED reply \/ \E code \in {400, 403, 503} : Answer(w, Reply(code, 0, NoMatrix))
    /\ UNCHANGED <<version, matrix, open>>

Read(w) ==
    /\ req[w].method = "GET"
    /\ Answer(w, Reply(200, version, matrix))
    /\ UNCHANGED <<version, matrix, req, open>>

Kept(m) == [k \in {d \in DOMAIN m : DOMAIN m[d] # {}} |-> m[k]]

Replace(w) ==
    /\ req[w].method = "POST" /\ req[w].version = version
    /\ matrix' = Kept(req[w].matrix)
    /\ version' = IF matrix' = NoMatrix THEN 0 ELSE version + 1
    /\ UNCHANGED req

Save(w) ==
    /\ Replace(w)
    /\ Answer(w, Reply(200, version + 1, req[w].matrix))
    /\ UNCHANGED open

(* The current state is sent along, unless it cannot be read. *)
Reject(w) ==
    /\ req[w].method = "POST" /\ req[w].version # version
    /\ \/ Answer(w, Reply(409, version, matrix))
       \/ Answer(w, Reply(409, 0, req[w].matrix))
    /\ UNCHANGED <<version, matrix, req, open>>

Fail(w) ==
    /\ Answer(w, Reply(500, 0, NoMatrix))
    /\ UNCHANGED <<version, matrix, req, open>>

(* A save fails whose outcome is open; later it takes effect or does not. *)
Lose(w) ==
    /\ req[w].method = "POST" /\ req[w].version = version
    /\ Answer(w, Reply(500, 0, NoMatrix))
    /\ open' = open \cup {w}
    /\ UNCHANGED <<version, matrix, req>>

Settle(w) ==
    /\ w \in open
    /\ open' = open \ {w}
    /\ Replace(w) \/ UNCHANGED <<version, matrix, req>>
    /\ UNCHANGED reply

ANext ==
    \E w \in Savers : Ask(w) \/ Read(w) \/ Save(w) \/ Reject(w) \/ Fail(w)
        \/ Lose(w) \/ Settle(w)

ASpec == AInit /\ [][ANext]_avars
=============================================================================
