---------------------------- MODULE WindowArith ----------------------------
(***************************************************************************)
(* The arithmetic of the chunking settings and of one turn of the window   *)
(* loop of BuildChunks, shared by modules Windows and Chunking.  Operators *)
(* named X_Y are faulty variants of operator X, for mutation runs.         *)
(***************************************************************************)
EXTENDS Integers

(* ResolveChunking: a setting left at zero takes its default. *)
ResolvedMax(max) == IF max = 0 THEN 800 ELSE max
ResolvedOverlap(o) == IF o = 0 THEN 80 ELSE o

StepOf(max) == IF max <= 0 THEN 800 ELSE max

(* A bug the type invariant rejects: negative overlaps pass through. *)
OverlapOf_Unclamped(o) == o
OverlapOf(o) == IF o < 0 THEN 0 ELSE o

(* A bug: the window takes one token more than configured. *)
WindowEnd_OneMore(from, size, n) == IF from + size + 1 > n THEN n ELSE from + size + 1
WindowEnd(from, size, n) == IF from + size > n THEN n ELSE from + size

(* Bugs: the overlap is skipped instead of repeated; forgotten; counted    *)
(* one too large.                                                          *)
NextStart_Skip(end, o) == end + o
NextStart_None(end, o) == end
NextStart_OneBack(end, o) == IF end - o - 1 < 0 THEN 0 ELSE end - o - 1
NextStart(end, o) == IF end - o < 0 THEN 0 ELSE end - o

(* Bugs: the loop goes on after the window that reaches the end; ends with *)
(* the window before the last token.                                       *)
LastWindow_Never(end, n) == FALSE
LastWindow_Early(end, n) == end + 1 >= n
LastWindow(end, n) == end = n
=============================================================================
