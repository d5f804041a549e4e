----------------------------- MODULE MCRepoSync -----------------------------
(* Instances of RepoSync for TLC. *)
EXTENDS RepoSync, TLC

CONSTANTS r1, r2, u1, u2, p1, web, web2, socks, broken

Symmetric == Permutations({r1, r2})

SomeKinds == (web :> "http") @@ (web2 :> "http") @@ (socks :> "socks") @@ (broken :> "bad")

(* One directory that is missing, holds other files, or is a clone made of  *)
(* another remote; the second request may find the clone of the first.      *)
SomeRequests == {u1} \X {p1}
SomeDisks == [{p1} -> {NoDir, Unusable, [origin |-> u2, on |-> "default", head |-> 0]}]

(* The remote asked for has no main or master; the other has one beside its *)
(* default branch.                                                          *)
SomeBranches == (u1 :> "none") @@ (u2 :> "other")

(* A directory that is not there yet, for two remotes with a main branch.   *)
BothRemotes == {u1, u2} \X {p1}
EmptyDisks == {[p \in {p1} |-> NoDir]}
MainBranches == (u1 :> "default") @@ (u2 :> "default")
=============================================================================
