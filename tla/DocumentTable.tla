---------------------------- MODULE DocumentTable ----------------------------
(***************************************************************************)
(* What POST /rag/upsert promises of the documents table, without SQL: a   *)
(* batch is applied at one instant or not at all, a success reports how    *)
(* many rows it changed, and an error leaves open whether the batch was,   *)
(* or still will be, applied.                                              *)
(***************************************************************************)
EXTENDS DocumentRows

VARIABLES table,     \* the committed rows
          batch,     \* what each connection carries, <<>> before it does
          applied,   \* connections whose batch took effect
          changed,   \* how many rows it changed then
          reply      \* what each caller was told

avars == <<table, batch, applied, changed, reply>>

AInit ==
    /\ table \in Tables
    /\ batch = [c \in Conns |-> <<>>]
    /\ applied = {}
    /\ changed = [c \in Conns |-> 0]
    /\ reply = [c \in Conns |-> NoReply]

(* A caller submits a batch; an empty one is answered on the spot. *)
Submit(c) ==
    /\ batch[c] = <<>> /\ reply[c] = NoReply
    /\ \E b \in Batches :
        /\ batch' = [batch EXCEPT ![c] = b]
        /\ reply' = [reply EXCEPT ![c] = IF b = <<>> THEN Success(0) ELSE NoReply]
    /\ UNCHANGED <<table, applied, changed>>

(* The whole batch takes effect. *)
Apply(c) ==
    /\ batch[c] # <<>>
    /\ c \notin applied
    /\ table' = Applied(table, batch[c], Len(batch[c]))
    /\ applied' = applied \cup {c}
    /\ changed' = [changed EXCEPT ![c] = ChangeCount(table, batch[c], Len(batch[c]))]
    /\ UNCHANGED <<batch, reply>>

Succeed(c) ==
    /\ reply[c] = NoReply
    /\ c \in applied
    /\ reply' = [reply EXCEPT ![c] = Success(changed[c])]
    /\ UNCHANGED <<table, batch, applied, changed>>

Fail(c) ==
    /\ reply[c] = NoReply
    /\ batch[c] # <<>>
    /\ reply' = [reply EXCEPT ![c] = Failure]
    /\ UNCHANGED <<table, batch, applied, changed>>

ANext == \E c \in Conns : Submit(c) \/ Apply(c) \/ Succeed(c) \/ Fail(c)

ASpec == AInit /\ [][ANext]_avars
=============================================================================
