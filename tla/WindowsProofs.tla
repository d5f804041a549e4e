---------------------------- MODULE WindowsProofs ----------------------------
(* Safety of the windows of module Windows, for every part length, window  *)
(* size and overlap.                                                       *)
EXTENDS Windows, TLAPS

(* Every token before the next start is in some window. *)
Frontier == \A i \in 0 .. (start - 1) : \E w \in windows : Holds(w, i)

(* The start is not at 0 only because some window that stops short of the  *)
(* end was cut and the start is the overlap before its end.                *)
StartFromWindow ==
    start > 0 =>
        /\ overlap < step
        /\ \E v \in windows : v.to < len /\ start = v.to - overlap

(* While the loop runs no window reaches the end, and all of them begin    *)
(* before the next one unless the overlap keeps the start at 0.            *)
Behind ==
    pc = "split" =>
        \A w \in windows :
            /\ w.to < len
            /\ w.from < start \/ (overlap >= step /\ w.from = start)

IInv ==
    TypeOK /\ FullWindows /\ Frontier /\ Covered /\ StartFromWindow
        /\ Behind /\ RepeatsOverlap /\ NoNestedWindow

(* What the effective settings are, whatever is configured. *)
LEMMA SettingsType ==
    ASSUME NEW m \in Int, NEW o \in Int
    PROVE  StepOf(ResolvedMax(m)) \in Nat \ {0} /\ OverlapOf(ResolvedOverlap(o)) \in Nat
BY DEF StepOf, ResolvedMax, OverlapOf, ResolvedOverlap

(* A turn of the loop cuts a window inside the part that is full unless it *)
(* reaches the end, and the next start stays inside what was cut.          *)
LEMMA TurnBounds ==
    ASSUME TypeOK, len > step,
           NEW e, e = WindowEnd(start, step, len)
    PROVE  /\ e \in Nat /\ start < e /\ e <= len /\ e - start <= step
           /\ e < len => e - start = step
           /\ e # len => NextStart(e, overlap) \in 0 .. (len - 1)
           /\ NextStart(e, overlap) <= e
BY DEF TypeOK, WindowEnd, NextStart

THEOREM InitInv == Init => IInv
<1> SUFFICES ASSUME Init PROVE IInv
  OBVIOUS
<1>1. PICK in \in Inputs : /\ len = in.length
                           /\ step = StepOf(ResolvedMax(in.maxTokens))
                           /\ overlap = OverlapOf(ResolvedOverlap(in.overlap))
  BY DEF Init
<1>2. in \in [length : Nat \ {0}, maxTokens : Int, overlap : Int]
  BY <1>1, WindowsAssumption
<1>3. in.length \in Nat \ {0} /\ in.maxTokens \in Int /\ in.overlap \in Int
  BY <1>2
<1>4. len \in Nat \ {0} /\ step \in Nat \ {0} /\ overlap \in Nat
  BY <1>1, <1>3, SettingsType
<1>5. start = 0 /\ windows = {} /\ pc = "split"
  BY DEF Init
<1>6. TypeOK
  BY <1>4, <1>5 DEF TypeOK
<1> QED
  BY <1>4, <1>5, <1>6 DEF IInv, FullWindows, Frontier, Covered, StartFromWindow,
     Behind, RepeatsOverlap, NoNestedWindow

LEMMA WholePartInv == IInv /\ WholePart => IInv'
<1> SUFFICES ASSUME IInv, WholePart PROVE IInv'
  OBVIOUS
<1> DEFINE new == Window(0, len)
<1>1. /\ TypeOK /\ len <= step /\ pc' = "done" /\ windows' = {new}
      /\ len' = len /\ step' = step /\ overlap' = overlap /\ start' = start
  BY DEF IInv, WholePart, settings
<1>2. new.from = 0 /\ new.to = len /\ new \in [from : 0 .. (len - 1), to : 1 .. len]
  BY <1>1 DEF TypeOK, Window
<1>3. TypeOK'
  BY <1>1, <1>2 DEF TypeOK
<1>4. FullWindows'
  BY <1>1, <1>2 DEF TypeOK, FullWindows
<1>5. Frontier' /\ Covered'
  BY <1>1, <1>2 DEF TypeOK, Frontier, Covered, Holds
<1>6. start = 0
  <2>1. ASSUME start > 0 PROVE FALSE
    <3>1. PICK v \in windows : v.to < len /\ start = v.to - overlap
      BY <2>1 DEF IInv, StartFromWindow
    <3>2. v.to - v.from = step /\ v.from \in Nat /\ v.to \in Nat
      BY <3>1 DEF IInv, TypeOK, FullWindows
    <3> QED
      BY <1>1, <3>1, <3>2 DEF TypeOK
  <2> QED
    BY <1>1, <2>1 DEF TypeOK
<1>7. StartFromWindow' /\ Behind'
  BY <1>1, <1>6 DEF StartFromWindow, Behind
<1>8. RepeatsOverlap' /\ NoNestedWindow'
  BY <1>1, <1>2 DEF RepeatsOverlap, NoNestedWindow
<1> QED
  BY <1>3, <1>4, <1>5, <1>7, <1>8 DEF IInv

LEMMA CutWindowInv == IInv /\ CutWindow => IInv'
<1> SUFFICES ASSUME IInv, CutWindow PROVE IInv'
  OBVIOUS
<1>0. PICK end : end = WindowEnd(start, step, len)
  OBVIOUS
<1> DEFINE new == Window(start, end)
<1>1. /\ TypeOK /\ len > step /\ start < len /\ pc = "split"
      /\ windows' = windows \cup {new}
      /\ len' = len /\ step' = step /\ overlap' = overlap
  BY <1>0 DEF IInv, CutWindow, settings
<1>2. /\ end \in Nat /\ start < end /\ end <= len /\ end - start <= step
      /\ end < len => end - start = step
      /\ end # len => NextStart(end, overlap) \in 0 .. (len - 1)
      /\ NextStart(end, overlap) <= end
  BY <1>0, <1>1, TurnBounds
<1>3. new.from = start /\ new.to = end
  BY DEF Window
<1>4. \/ end = len /\ pc' = "done" /\ start' = start
      \/ end # len /\ pc' = pc /\ start' = NextStart(end, overlap)
  BY <1>0 DEF CutWindow, LastWindow
<1>5. len \in Nat \ {0} /\ step \in Nat \ {0} /\ overlap \in Nat /\ start \in Nat
  BY <1>1 DEF TypeOK
<1>6. start' = IF end = len THEN start ELSE IF end - overlap < 0 THEN 0 ELSE end - overlap
  BY <1>4 DEF NextStart
<1>7. TypeOK'
  <2>1. new \in [from : 0 .. (len - 1), to : 1 .. len]
    BY <1>1, <1>2, <1>5 DEF Window
  <2>2. start' \in 0 .. (len - 1)
    BY <1>1, <1>2, <1>4, <1>5
  <2>3. windows' \subseteq [from : 0 .. (len' - 1), to : 1 .. len']
    BY <1>1, <2>1 DEF TypeOK
  <2> QED
    BY <1>1, <1>4, <1>5, <2>2, <2>3 DEF TypeOK
<1>8. FullWindows'
  BY <1>1, <1>2, <1>3, <1>5 DEF IInv, FullWindows
<1>9. ASSUME NEW i \in 0 .. (end - 1) PROVE \E w \in windows' : Holds(w, i)
  <2>1. CASE i < start
    <3>1. i \in 0 .. (start - 1)
      BY <2>1, <1>2, <1>5
    <3> QED
      BY <3>1, <1>1 DEF IInv, Frontier
  <2>2. CASE start <= i
    BY <2>2, <1>1, <1>2, <1>3, <1>5 DEF Holds
  <2> QED
    BY <2>1, <2>2, <1>2, <1>5
<1>10. Frontier' /\ Covered'
  <2>1. start' <= end
    BY <1>2, <1>4, <1>5
  <2>2. Frontier'
    <3>1. PICK s : s = start'
      OBVIOUS
    <3>2. s \in Nat /\ end \in Nat /\ s <= end
      BY <1>2, <1>7, <2>1, <3>1 DEF TypeOK
    <3>3. \A i \in 0 .. (s - 1) : i \in 0 .. (end - 1)
      BY <3>2
    <3>4. \A i \in 0 .. (s - 1) : \E w \in windows' : Holds(w, i)
      BY <3>3, <1>9
    <3> QED
      BY <3>1, <3>4 DEF Frontier, Holds
  <2>3. Covered'
    BY <1>1, <1>4, <1>9 DEF Covered
  <2> QED
    BY <2>2, <2>3
<1>11. StartFromWindow'
  <2>1. CASE end = len
    BY <2>1, <1>1, <1>4 DEF IInv, StartFromWindow
  <2>2. CASE end # len /\ start' > 0
    <3>1. end < len /\ end = start + step /\ start' = end - overlap
      BY <2>2, <1>2, <1>4, <1>5, <1>6
    <3>2. overlap < step
      <4>1. CASE start = 0
        BY <4>1, <3>1, <2>2, <1>5
      <4>2. CASE start > 0
        BY <4>2 DEF IInv, StartFromWindow
      <4> QED
        BY <4>1, <4>2, <1>5
    <3> QED
      BY <1>1, <1>3, <3>1, <3>2 DEF StartFromWindow
  <2>3. CASE ~(start' > 0)
    BY <2>3 DEF StartFromWindow
  <2> QED
    BY <2>1, <2>2, <2>3
<1>12. Behind'
  <2> SUFFICES ASSUME pc' = "split", NEW w \in windows'
               PROVE  /\ w.to < len
                      /\ w.from < start' \/ (overlap >= step /\ w.from = start')
    BY <1>1 DEF Behind
  <2>1. end < len /\ end = start + step
    BY <1>2, <1>4, <1>5
  <2>2. w = new \/ (w \in windows /\ w.to < len
                    /\ (w.from < start \/ (overlap >= step /\ w.from = start)))
    BY <1>1 DEF IInv, Behind
  <2>3. w.from \in Nat /\ w.to \in Nat
    BY <1>7 DEF TypeOK
  <2>4. overlap >= step => start = 0
    BY <1>5 DEF IInv, StartFromWindow
  <2>5. start' >= start /\ (overlap < step => start' > start)
    BY <2>1, <2>4, <1>5, <1>6
  <2>6. overlap >= step => start' = 0
    BY <2>1, <2>4, <1>5, <1>6
  <2>7. start' \in Nat
    BY <1>7 DEF TypeOK
  <2> QED
    BY <2>1, <2>2, <2>3, <2>4, <2>5, <2>6, <2>7, <1>3, <1>5
<1>13. RepeatsOverlap'
  <2> SUFFICES ASSUME NEW w \in windows'
               PROVE  w.from = 0 \/ \E v \in windows' \ {w} : w.from = v.to - overlap
    BY <1>1 DEF RepeatsOverlap
  <2>1. CASE w \in windows
    BY <2>1, <1>1 DEF IInv, RepeatsOverlap
  <2>2. CASE w = new /\ start > 0
    <3>1. PICK v \in windows : v.to < len /\ start = v.to - overlap
      BY <2>2 DEF IInv, StartFromWindow
    <3>2. v.to - v.from = step /\ v.from \in Nat /\ v.to \in Nat
      BY <3>1 DEF IInv, TypeOK, FullWindows
    <3>3. overlap < step
      BY <2>2 DEF IInv, StartFromWindow
    <3>4. v.from # new.from
      BY <3>1, <3>2, <3>3, <1>3, <1>5
    <3> QED
      BY <3>1, <3>4, <2>2, <1>1, <1>3
  <2>3. CASE w = new /\ start = 0
    BY <2>3, <1>3
  <2> QED
    BY <2>1, <2>2, <2>3, <1>1, <1>5
<1>14. NoNestedWindow'
  <2> SUFFICES ASSUME NEW v \in windows', NEW w \in windows', v.from <= w.from, w.to <= v.to
               PROVE  v = w
    BY DEF NoNestedWindow
  <2>1. ASSUME NEW x \in windows
        PROVE  /\ x.from \in Nat /\ x.to \in Nat /\ x.to < len /\ x.to - x.from = step
               /\ x = Window(x.from, x.to)
               /\ x.from < start \/ (overlap >= step /\ x.from = start)
    <3>1. x \in [from : 0 .. (len - 1), to : 1 .. len]
      BY <1>1 DEF TypeOK
    <3>2. x.from \in Nat /\ x.to \in Nat /\ x = Window(x.from, x.to)
      BY <3>1, <1>5 DEF Window
    <3> QED
      BY <3>2, <1>1 DEF IInv, Behind, FullWindows
  <2>2. overlap >= step => start = 0
    BY <1>5 DEF IInv, StartFromWindow
  <2>3. overlap >= step => end < len /\ end - start = step
    BY <2>2, <1>0, <1>1, <1>2, <1>5 DEF WindowEnd
  <2>4. CASE v \in windows /\ w \in windows
    BY <2>4, <1>1 DEF IInv, NoNestedWindow
  <2>5. CASE v \in windows /\ w = new
    <3>1. v.from <= start /\ end <= v.to /\ v.to < len
      BY <2>1, <2>5, <1>3
    <3>2. end - start = step
      BY <3>1, <2>1, <2>5, <1>2, <1>5
    <3>3. v.from = start /\ v.to = end
      BY <3>1, <3>2, <2>1, <2>5, <1>2, <1>5
    <3> QED
      BY <3>3, <2>1, <2>5
  <2>6. CASE v = new /\ w \in windows
    <3>1. start <= w.from
      BY <2>6, <1>3
    <3>2. overlap >= step /\ w.from = start
      BY <3>1, <2>1, <2>6, <1>5
    <3>3. w.to = end
      BY <3>2, <2>1, <2>3, <2>6, <1>2, <1>5
    <3> QED
      BY <3>2, <3>3, <2>1, <2>6
  <2>7. CASE v = new /\ w = new
    BY <2>7
  <2> QED
    BY <2>4, <2>5, <2>6, <2>7, <1>1
<1> QED
  BY <1>7, <1>8, <1>10, <1>11, <1>12, <1>13, <1>14 DEF IInv

THEOREM NextInv == IInv /\ [Next]_vars => IInv'
<1> SUFFICES ASSUME IInv, [Next]_vars PROVE IInv'
  OBVIOUS
<1>1. CASE WholePart
  BY <1>1, WholePartInv
<1>2. CASE CutWindow
  BY <1>2, CutWindowInv
<1>3. CASE UNCHANGED vars
  BY <1>3 DEF vars, IInv, TypeOK, FullWindows, Frontier, Covered, StartFromWindow,
     Behind, RepeatsOverlap, NoNestedWindow
<1> QED
  BY <1>1, <1>2, <1>3 DEF Next, Done

LEMMA Invariance == Spec => []IInv
BY InitInv, NextInv, PTL DEF Spec

(* The slices the loop takes are in range, for every configuration. *)
THEOREM TypeCorrect == Spec => []TypeOK
<1>1. IInv => TypeOK
  BY DEF IInv
<1> QED
  BY <1>1, Invariance, PTL

(* No token of a part is lost, even for an overlap of at least the size. *)
THEOREM NothingLost == Spec => []Covered
<1>1. IInv => Covered
  BY DEF IInv
<1> QED
  BY <1>1, Invariance, PTL

(* Windows are full, overlap as configured and never nest. *)
THEOREM WindowShape == Spec => []WellCut
<1>1. IInv => WellCut
  BY DEF IInv, WellCut
<1> QED
  BY <1>1, Invariance, PTL

(* With an overlap below the size every turn ends the loop or moves the    *)
(* start forward; TypeOK bounds the start by len, so at most len turns run.*)
THEOREM Progress == Spec => Advances
<1>1. IInv /\ [Next]_vars => [overlap < step => pc' = "done" \/ start' > start]_vars
  <2> SUFFICES ASSUME IInv, Next, overlap < step
               PROVE  pc' = "done" \/ start' > start \/ UNCHANGED vars
    OBVIOUS
  <2>1. CASE CutWindow /\ pc' # "done"
    <3> DEFINE e == WindowEnd(start, step, len)
    <3>1. TypeOK /\ len > step
      BY <2>1 DEF IInv, CutWindow
    <3>2. e # len /\ start' = NextStart(e, overlap)
      BY <2>1 DEF CutWindow, LastWindow
    <3>3. e \in Nat /\ e - start = step
      BY <3>1, <3>2, TurnBounds DEF TypeOK
    <3> QED
      BY <3>1, <3>2, <3>3 DEF TypeOK, NextStart
  <2> QED
    BY <2>1 DEF Next, WholePart, Done
<1> QED
  BY <1>1, Invariance, PTL DEF Spec, Advances
=============================================================================
