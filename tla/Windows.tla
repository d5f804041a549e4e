------------------------------- MODULE Windows -------------------------------
(***************************************************************************)
(* The sliding windows BuildChunks (internal/rag/ingest/chunk.go) cuts a   *)
(* part of a section into, for one window size.  Tokens are the positions  *)
(* 0 .. len-1; what they spell is the business of module Chunking.         *)
(***************************************************************************)
EXTENDS WindowArith

CONSTANT Inputs   \* tokens in the part, max_tokens and overlap_tokens as configured

ASSUME WindowsAssumption ==
    Inputs \subseteq [length : Nat \ {0}, maxTokens : Int, overlap : Int]

VARIABLES len, step, overlap,   \* the part and the effective settings
          start,                \* where the next window begins
          windows,              \* the windows cut so far, as [from, to)
          pc                    \* "split" while cutting, then "done"

settings == <<len, step, overlap>>
vars == <<len, step, overlap, start, windows, pc>>

Window(from, to) == [from |-> from, to |-> to]

Init ==
    /\ \E in \in Inputs :
        /\ len = in.length
        /\ step = StepOf(ResolvedMax(in.maxTokens))
        /\ overlap = OverlapOf(ResolvedOverlap(in.overlap))
    /\ start = 0
    /\ windows = {}
    /\ pc = "split"

(* A part that fits in one window is kept whole. *)
WholePart ==
    /\ pc = "split"
    /\ len <= step
    /\ windows' = {Window(0, len)}
    /\ pc' = "done"
    /\ UNCHANGED <<settings, start>>

(* One turn of the loop: cut a window, then stop at the end of the part or *)
(* step back by the overlap.                                               *)
CutWindow ==
    /\ pc = "split"
    /\ len > step
    /\ start < len
    /\ LET end == WindowEnd(start, step, len) IN
        /\ windows' = windows \cup {Window(start, end)}
        /\ \/ /\ LastWindow(end, len)
              /\ pc' = "done"
              /\ UNCHANGED start
           \/ /\ ~LastWindow(end, len)
              /\ start' = NextStart(end, overlap)
              /\ UNCHANGED pc
    /\ UNCHANGED settings

Done == pc = "done" /\ UNCHANGED vars

Next == WholePart \/ CutWindow \/ Done

Spec == Init /\ [][Next]_vars

(* The loop is sequential code that nothing suspends. *)
FairSpec == Spec /\ WF_vars(WholePart \/ CutWindow)

-----------------------------------------------------------------------------
(* The effective overlap is never negative and every window lies in the    *)
(* part: chunk.go's slice tokens[start:end] cannot panic.                  *)
TypeOK ==
    /\ len \in Nat \ {0} /\ step \in Nat \ {0} /\ overlap \in Nat
    /\ start \in 0 .. (len - 1)
    /\ windows \subseteq [from : 0 .. (len - 1), to : 1 .. len]
    /\ pc \in {"split", "done"}

Holds(w, i) == w.from <= i /\ i < w.to

(* No token is lost: when the loop ends, every token of the part is in a   *)
(* window, whatever the size and the overlap.                              *)
Covered ==
    pc = "done" => \A i \in 0 .. (len - 1) : \E w \in windows : Holds(w, i)

FullWindows ==
    \A w \in windows :
        /\ w.from < w.to
        /\ w.to - w.from <= step
        /\ w.to < len => w.to - w.from = step

RepeatsOverlap ==
    \A w \in windows :
        w.from = 0 \/ \E v \in windows \ {w} : w.from = v.to - overlap

NoNestedWindow ==
    \A v, w \in windows : v.from <= w.from /\ w.to <= v.to => v = w

(* A window never exceeds the configured size and only the one that        *)
(* reaches the end may be shorter; every window but the first repeats      *)
(* exactly the overlap of some other; and none is a piece of another: the  *)
(* loop stops at the end of the part instead of cutting a tail whose       *)
(* tokens were all embedded already.                                       *)
WellCut == FullWindows /\ RepeatsOverlap /\ NoNestedWindow

(* With an overlap below the window size each turn of the loop either ends *)
(* it or moves the start forward, which is why it cannot run forever.      *)
Advances ==
    [][overlap < step => pc' = "done" \/ start' > start]_vars

(* BuildChunks returns. *)
Terminates == <>(pc = "done")
=============================================================================
