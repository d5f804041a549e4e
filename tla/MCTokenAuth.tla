----------------------------- MODULE MCTokenAuth -----------------------------
(* An instance of TokenAuth for TLC. *)
EXTENDS TokenAuth

(* Signed by others with the server's own secret, which passes for both     *)
(* kinds of token if there is one secret.                                   *)
Others == {[use |-> "access", at |-> 0, login |-> Absent, roles |-> {"admin"},
            key |-> "access", service |-> "rag-server"]}

SomeRoles == {{"admin"}}
=============================================================================
