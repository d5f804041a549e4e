------------------------------ MODULE MCWindows ------------------------------
(* Instances of Windows for TLC. *)
EXTENDS Windows

(* Lengths around every boundary of the loop, each overlap below each      *)
(* size (-1 is no overlap); then parts around the 800 tokens that stand in *)
(* for an unset or negative size, under the default overlap of 80.         *)
Advancing ==
    [length : 1 .. 16, maxTokens : {4, 5, 7}, overlap : {-1, 1, 2, 3}]
        \cup [length : {799, 800, 801, 1519, 1520, 1521, 2300},
              maxTokens : {-1, 0}, overlap : {-1, 0, 1}]

(* 65 tokens under max_tokens 64 with overlap_tokens left at its default,  *)
(* and the boundary case of an overlap equal to the size.                  *)
Stalling ==
    {[length |-> 65, maxTokens |-> 64, overlap |-> 0],
     [length |-> 5, maxTokens |-> 4, overlap |-> 4]}
=============================================================================
