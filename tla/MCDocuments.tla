---------------------------- MODULE MCDocuments ----------------------------
(* Instances of Documents for TLC. *)
EXTENDS Documents

CONSTANTS c1, c2, k1, k2

Row(k, s, v) == [key |-> k, sha |-> s, vec |-> v]

(* v and w have the dimension of the model in use, x that of another model *)
(* and none no components at all.                                          *)
Vectors4 == {"v", "w", "x", "none"}
Dim4 == [v \in Vectors4 |-> CASE v = "x" -> 3 [] v = "none" -> 0 [] OTHER -> 2]

(* Two batches over the same keys in opposite orders. *)
Forth == <<Row(k1, 1, "v"), Row(k2, 1, "v")>>
Back == <<Row(k2, 2, "w"), Row(k1, 1, "w")>>
(* One key three times, the last row with the content of the first. *)
Repeats == <<Row(k1, 1, "v"), Row(k1, 2, "w"), Row(k1, 1, "w")>>
(* Another dimension half way, and vectors without one. *)
Mixed == <<Row(k1, 2, "v"), Row(k2, 2, "x")>>
Other == <<Row(k1, 1, "x")>>
Bare == <<Row(k2, 1, "none")>>

SomeBatches == {<<>>, Forth, Back, Repeats, Mixed, Other, Bare}
=============================================================================
