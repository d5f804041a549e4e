--------------------------- MODULE ChunkingProofs ---------------------------
(***************************************************************************)
(* Safety of module Markdown, and with it of Chunking: for any files and   *)
(* documents and any settings, walking the blocks of a file and looping    *)
(* over sections, parts, sizes and windows gives what the definitions      *)
(* without a walk or a loop say.                                           *)
(*                                                                         *)
(* First what the operators of the two modules return: sequences put       *)
(* together, indices in order, texts trimmed, split and sorted, first      *)
(* occurrences, the windows of a part, what blocks write. Then the state   *)
(* between two blocks and between two windows, the invariant, and one      *)
(* lemma for each step.                                                    *)
(*                                                                         *)
(* The induction theorems of the library take an operator; the first two   *)
(* lemmas state induction for a set, from the well-foundedness of <.       *)
(***************************************************************************)
EXTENDS Markdown, SequenceTheorems, FiniteSetTheorems, WellFoundedInduction, TLAPS

(* Induction, for a set instead of a predicate. *)
LEMMA Inductive ==
    ASSUME NEW S, 0 \in S, \A n \in Nat : n \in S => n + 1 \in S
    PROVE  Nat \subseteq S
<1> DEFINE R == OpToRel(<, Nat)
           T == Nat \ S
<1>1. \A x \in Nat, y \in Nat : <<y, x>> \in R <=> y < x
  BY DEF OpToRel
<1>2. IsWellFoundedOn(R, Nat)
  BY NatLessThanWellFounded
<1> HIDE DEF R
<1> SUFFICES ASSUME T # {} PROVE FALSE
  OBVIOUS
<1>3. T \subseteq Nat
  OBVIOUS
<1>4. PICK m \in T : \A y \in T : ~ (<<y, m>> \in R)
  BY <1>2, <1>3, WFMin
<1>5. \A y \in T : ~ (y < m)
  BY <1>1, <1>3, <1>4, Zenon
<1>6. m \in Nat /\ m # 0
  BY <1>4
<1>7. m - 1 \in Nat /\ m - 1 < m /\ (m - 1) + 1 = m
  BY <1>6
<1>8. m - 1 \in S
  BY <1>5, <1>7
<1> QED
  BY <1>4, <1>7, <1>8

(* The same from a to n. *)
LEMMA Along ==
    ASSUME NEW S, NEW a \in Int, NEW n \in Int, a \in S,
           \A i \in a .. n : i # a /\ i - 1 \in S => i \in S
    PROVE  \A i \in a .. n : i \in S
<1> DEFINE D == {k \in Nat : a + k <= n => a + k \in S}
<1>1. 0 \in D
  OBVIOUS
<1>2. ASSUME NEW k \in Nat, k \in D PROVE k + 1 \in D
  <2> SUFFICES ASSUME a + (k + 1) <= n PROVE a + (k + 1) \in S
    OBVIOUS
  <2>1. a + (k + 1) \in a .. n /\ a + (k + 1) # a /\ (a + (k + 1)) - 1 = a + k /\ a + k <= n
    OBVIOUS
  <2> QED
    BY <2>1, <1>2
<1>3. Nat \subseteq D
  BY <1>1, <1>2, Inductive
<1>4. ASSUME NEW i \in a .. n PROVE i \in S
  <2>1. i - a \in Nat /\ a + (i - a) = i /\ i <= n
    OBVIOUS
  <2>2. i - a \in D
    BY <1>3, <2>1
  <2> QED
    BY <2>1, <2>2
<1> QED
  BY <1>4

Follows(g, F, base, a, n) ==
    \A i \in a .. n : g[i] = IF i = a THEN base ELSE F[i][g[i - 1]]

(* What is defined from the value before it is defined everywhere. *)
LEMMA Recursion ==
    ASSUME NEW T, NEW base \in T, NEW a \in Int, NEW n \in Int, a <= n,
           NEW F \in [a .. n -> [T -> T]]
    PROVE  \E g \in [a .. n -> T] : Follows(g, F, base, a, n)
<1> DEFINE G(g, i) == IF i = a THEN base ELSE F[i][g[i - 1]]
           Upto(m, g) == \A i \in a .. m : g[i] = G(g, i)
           P(m) == \E g \in [a .. m -> T] : Upto(m, g)
           S == {m \in a .. n : P(m)}
<1>1. P(a)
  <2> DEFINE g == [i \in a .. a |-> base]
  <2>1. g \in [a .. a -> T] /\ \A i \in a .. a : i = a /\ g[i] = base
    OBVIOUS
  <2> HIDE DEF g
  <2>2. Upto(a, g)
    BY <2>1
  <2> HIDE DEF Upto
  <2> QED
    BY <2>1, <2>2
<1>2. ASSUME NEW m \in a .. n, m # a, P(m - 1) PROVE P(m)
  <2> HIDE DEF Upto
  <2>1. PICK g \in [a .. m - 1 -> T] : Upto(m - 1, g)
    BY <1>2
  <2>2. g[m - 1] \in T /\ m - 1 \in a .. m - 1
    BY <1>2
  <2> DEFINE e == F[m][g[m - 1]]
             h == [i \in a .. m |-> IF i = m THEN e ELSE g[i]]
  <2>3. e \in T
    BY <2>2
  <2> HIDE DEF e
  <2>4. \A i \in a .. m - 1 : i \in a .. m /\ i # m /\ g[i] \in T
    OBVIOUS
  <2>5. h \in [a .. m -> T] /\ h[m] = e /\ \A i \in a .. m - 1 : h[i] = g[i]
    BY <2>3, <2>4
  <2> HIDE DEF h
  <2>6. ASSUME NEW i \in a .. m PROVE h[i] = G(h, i)
    <3>1. CASE i = m
      <4>1. h[m - 1] = g[m - 1] /\ m # a
        BY <1>2, <2>2, <2>5
      <4> QED
        BY <4>1, <3>1, <2>5 DEF e
    <3>2. CASE i # m
      <4>1. h[i] = g[i] /\ g[i] = G(g, i)
        BY <3>2, <2>1, <2>5 DEF Upto
      <4>2. CASE i = a
        BY <4>1, <4>2
      <4>3. CASE i # a
        <5>1. h[i - 1] = g[i - 1]
          BY <4>3, <3>2, <2>5
        <5> QED
          BY <4>1, <4>3, <5>1
      <4> QED
        BY <4>2, <4>3
    <3> QED
      BY <3>1, <3>2
  <2> HIDE DEF G
  <2>7. Upto(m, h)
    BY <2>6 DEF Upto
  <2> QED
    BY <2>5, <2>7
<1> HIDE DEF P
<1>3. a \in S /\ \A m \in a .. n : m # a /\ m - 1 \in S => m \in S
  BY <1>1, <1>2
<1>4. n \in S
  <2> HIDE DEF S
  <2>1. n \in a .. n
    OBVIOUS
  <2> QED
    BY <1>3, <2>1, Along
<1> QED
  BY <1>4 DEF P, Follows

(* Pieces put together from the first on. *)
IsFlat(f, s) == f = [i \in 1 .. Len(s) |-> IF i = 1 THEN s[i] ELSE f[i - 1] \o s[i]]

LEMMA FlatDef ==
    ASSUME NEW s
    PROVE  FlattenSeq(s) = IF Len(s) = 0 THEN s ELSE (CHOOSE f : IsFlat(f, s))[Len(s)]
BY DEF FlattenSeq, IsFlat

LEMMA FlatStep ==
    ASSUME NEW s, NEW f, IsFlat(f, s), NEW i \in 1 .. Len(s)
    PROVE  f[i] = IF i = 1 THEN s[i] ELSE f[i - 1] \o s[i]
<1> DEFINE G(j) == IF j = 1 THEN s[j] ELSE f[j - 1] \o s[j]
<1>1. f = [j \in 1 .. Len(s) |-> G(j)]
  BY DEF IsFlat
<1> HIDE DEF G
<1>2. f[i] = G(i)
  BY <1>1
<1> QED
  BY <1>2 DEF G

LEMMA FlatExists ==
    ASSUME NEW X, NEW s \in Seq(Seq(X)), s # <<>>
    PROVE  \E f : IsFlat(f, s)
<1> DEFINE F == [i \in 1 .. Len(s) |-> [x \in Seq(X) |-> x \o s[i]]]
<1>1. Len(s) \in Nat \ {0} /\ \A i \in 1 .. Len(s) : s[i] \in Seq(X)
  OBVIOUS
<1>2. \A i \in 1 .. Len(s) : [x \in Seq(X) |-> x \o s[i]] \in [Seq(X) -> Seq(X)]
  BY <1>1, ConcatProperties
<1>3. F \in [1 .. Len(s) -> [Seq(X) -> Seq(X)]]
  BY <1>2
<1> HIDE DEF F
<1>4. PICK g \in [1 .. Len(s) -> Seq(X)] :
                  Follows(g, F, s[1], 1, Len(s))
  <2>1. s[1] \in Seq(X) /\ 1 <= Len(s) /\ 1 \in Int /\ Len(s) \in Int
    BY <1>1
  <2> QED
    BY ONLY <1>3, <2>1, Recursion, Zenon
<1>5. ASSUME NEW i \in 1 .. Len(s) PROVE g[i] = IF i = 1 THEN s[i] ELSE g[i - 1] \o s[i]
  <2>1. CASE i = 1
    BY <2>1, <1>4 DEF Follows
  <2>2. CASE i # 1
    <3>1. g[i - 1] \in Seq(X)
      <4>1. i - 1 \in 1 .. Len(s)
        BY <2>2, <1>1
      <4> QED
        BY <4>1
    <3>2. g[i] = F[i][g[i - 1]]
      BY <2>2, <1>4 DEF Follows
    <3>3. F[i][g[i - 1]] = g[i - 1] \o s[i]
      BY <3>1 DEF F
    <3> QED
      BY <3>2, <3>3, <2>2
  <2> QED
    BY <2>1, <2>2
<1> DEFINE G(i) == IF i = 1 THEN s[i] ELSE g[i - 1] \o s[i]
<1>6. \A i \in 1 .. Len(s) : g[i] = G(i)
  BY <1>5
<1> HIDE DEF G
<1>7. g = [i \in 1 .. Len(s) |-> G(i)]
  BY <1>6
<1> QED
  BY <1>7 DEF IsFlat, G
(* Two sequences that begin alike are flattened alike so far. *)
LEMMA FlatAgree ==
    ASSUME NEW s, NEW t, NEW g, NEW h, IsFlat(g, s), IsFlat(h, t),
           Len(s) \in Nat \ {0}, Len(t) \in Nat, Len(s) <= Len(t),
           \A i \in 1 .. Len(s) : s[i] = t[i]
    PROVE  g[Len(s)] = h[Len(s)]
<1> DEFINE S == {i \in Int : g[i] = h[i]}
<1>1. 1 \in S
  <2>1. 1 \in 1 .. Len(s) /\ 1 \in 1 .. Len(t)
    OBVIOUS
  <2>2. g[1] = s[1] /\ h[1] = t[1]
    BY ONLY <2>1, FlatStep, IsFlat(g, s), IsFlat(h, t)
  <2> QED
    BY <2>1, <2>2
<1>2. ASSUME NEW i \in 1 .. Len(s), i # 1, i - 1 \in S PROVE i \in S
  <2>1. i \in 1 .. Len(t)
    OBVIOUS
  <2>2. g[i] = g[i - 1] \o s[i] /\ h[i] = h[i - 1] \o t[i]
    BY ONLY <1>2, <2>1, FlatStep, IsFlat(g, s), IsFlat(h, t)
  <2>3. g[i - 1] = h[i - 1]
    BY <1>2
  <2>4. i \in Int /\ s[i] = t[i]
    OBVIOUS
  <2>5. g[i] = h[i]
    BY ONLY <2>2, <2>3, <2>4, Zenon
  <2> QED
    BY <2>4, <2>5
<1> HIDE DEF S
<1>3. \A i \in 1 .. Len(s) : i \in S
  <2>1. 1 \in Int /\ Len(s) \in Int
    OBVIOUS
  <2> QED
    BY <2>1, <1>1, <1>2, Along, Zenon
<1> QED
  BY <1>3 DEF S

LEMMA FlatType ==
    ASSUME NEW X, NEW s \in Seq(Seq(X)), NEW g, IsFlat(g, s), s # <<>>
    PROVE  g[Len(s)] \in Seq(X)
<1> DEFINE S == {i \in Int : g[i] \in Seq(X)}
<1>0. Len(s) \in Nat \ {0} /\ \A i \in 1 .. Len(s) : s[i] \in Seq(X)
  OBVIOUS
<1>1. 1 \in S
  <2>1. 1 \in 1 .. Len(s)
    BY <1>0
  <2>2. g[1] = s[1]
    BY ONLY <2>1, FlatStep, IsFlat(g, s)
  <2> QED
    BY <1>0, <2>1, <2>2
<1>2. ASSUME NEW i \in 1 .. Len(s), i # 1, i - 1 \in S PROVE i \in S
  <2>2. g[i] = g[i - 1] \o s[i]
    BY ONLY <1>2, FlatStep, IsFlat(g, s)
  <2>3. g[i - 1] \in Seq(X)
    BY <1>2
  <2>4. g[i] \in Seq(X)
    BY <2>2, <2>3, <1>0, ConcatProperties
  <2> QED
    BY <2>4
<1> HIDE DEF S
<1>3. \A i \in 1 .. Len(s) : i \in S
  <2>1. 1 \in Int /\ Len(s) \in Int
    BY <1>0
  <2> QED
    BY <2>1, <1>1, <1>2, Along, Zenon
<1> QED
  BY <1>0, <1>3 DEF S

LEMMA FlattenEmpty == FlattenSeq(<<>>) = <<>>
BY FlatDef

LEMMA FlattenType ==
    ASSUME NEW X, NEW s \in Seq(Seq(X))
    PROVE  FlattenSeq(s) \in Seq(X)
<1>1. CASE Len(s) = 0
  <2>1. FlattenSeq(s) = s /\ s = <<>>
    BY <1>1, FlatDef
  <2> QED
    BY <2>1
<1>2. CASE Len(s) # 0
  <2>1. s # <<>>
    BY <1>2
  <2>2. IsFlat(CHOOSE f : IsFlat(f, s), s)
    BY <2>1, FlatExists
  <2> QED
    BY <2>1, <2>2, <1>2, FlatType, FlatDef
<1> QED
  BY <1>1, <1>2

LEMMA FlattenNext ==
    ASSUME NEW X, NEW s \in Seq(Seq(X)), NEW e \in Seq(X)
    PROVE  FlattenSeq(Append(s, e)) = FlattenSeq(s) \o e
<1> DEFINE t == Append(s, e)
<1>1. /\ t \in Seq(Seq(X)) /\ Len(t) = Len(s) + 1 /\ Len(s) \in Nat
      /\ t[Len(s) + 1] = e
      /\ \A i \in 1 .. Len(s) : t[i] = s[i]
  BY AppendProperties
<1> HIDE DEF t
<1>3. PICK h : IsFlat(h, t) /\ FlattenSeq(t) = h[Len(t)]
  <2>1. t # <<>> /\ Len(t) # 0
    BY <1>1
  <2> QED
    BY <1>1, <2>1, FlatExists, FlatDef
<1>4. h[Len(t)] = IF Len(t) = 1 THEN t[1] ELSE h[Len(t) - 1] \o t[Len(t)]
  <2>1. Len(t) \in 1 .. Len(t)
    BY <1>1
  <2> QED
    BY <2>1, <1>3, FlatStep
<1>5. CASE Len(s) = 0
  <2>1. s = <<>>
    BY <1>5
  <2>2. FlattenSeq(s) = <<>>
    BY <2>1, FlattenEmpty
  <2>3. FlattenSeq(t) = e
    BY <1>1, <1>3, <1>4, <1>5
  <2> QED
    BY <2>2, <2>3 DEF t
<1>6. CASE Len(s) # 0
  <2>1. PICK g : IsFlat(g, s) /\ FlattenSeq(s) = g[Len(s)]
    <3>1. s # <<>>
      BY <1>6
    <3> QED
      BY <3>1, <1>6, FlatExists, FlatDef
  <2>2. /\ Len(s) \in Nat \ {0} /\ Len(t) \in Nat /\ Len(s) <= Len(t)
        /\ \A i \in 1 .. Len(s) : s[i] = t[i]
    BY <1>1, <1>6
  <2>3. g[Len(s)] = h[Len(s)]
    BY ONLY <2>1, <2>2, <1>3, FlatAgree
  <2>4. Len(t) # 1 /\ Len(t) - 1 = Len(s) /\ t[Len(t)] = e
    BY <1>1, <1>6
  <2> QED
    BY <2>1, <2>3, <2>4, <1>3, <1>4 DEF t
<1> QED
  BY <1>1, <1>5, <1>6

-----------------------------------------------------------------------------
(* The first n of a sequence of sequences put together, one more at a time. *)
Upto(s, n) == FlattenSeq(SubSeq(s, 1, n))

LEMMA UptoZero == ASSUME NEW s PROVE Upto(s, 0) = <<>>
<1>1. SubSeq(s, 1, 0) = <<>>
  BY SubSeqEmpty
<1> QED
  BY <1>1, FlattenEmpty DEF Upto

LEMMA UptoType ==
    ASSUME NEW X, NEW s, NEW n \in Nat, \A i \in 1 .. n : s[i] \in Seq(X)
    PROVE  Upto(s, n) \in Seq(X)
<1>1. SubSeq(s, 1, n) \in Seq(Seq(X))
  <2>1. 1 \in Int /\ n \in Int
    OBVIOUS
  <2> QED
    BY <2>1, SubSeqProperties
<1> QED
  BY <1>1, FlattenType DEF Upto

LEMMA UptoNext ==
    ASSUME NEW X, NEW s, NEW n \in Nat, \A i \in 1 .. n : s[i] \in Seq(X), s[n + 1] \in Seq(X)
    PROVE  /\ Upto(s, n) \in Seq(X)
           /\ Upto(s, n + 1) = Upto(s, n) \o s[n + 1]
<1> DEFINE a == SubSeq(s, 1, n)
           b == SubSeq(s, 1, n + 1)
           e == s[n + 1]
           Y == Seq(X)
<1>1. 1 \in Int /\ n \in Int /\ n + 1 \in Int
      /\ \A i \in 1 .. n + 1 : i \in 1 .. n \/ i = n + 1
  OBVIOUS
<1>2. \A i \in 1 .. n + 1 : s[i] \in Y
  BY <1>1
<1> HIDE DEF Y
<1>3. /\ a \in Seq(Y) /\ Len(a) = n
      /\ \A i \in 1 .. n : a[i] = s[i]
  <2>1. /\ a \in Seq(Y) /\ Len(a) = IF 1 <= n THEN n - 1 + 1 ELSE 0
        /\ \A i \in 1 .. n - 1 + 1 : a[i] = s[1 + i - 1]
    <3>1. \A i \in 1 .. n : s[i] \in Y
      BY <1>2
    <3> QED
      BY <1>1, <3>1, SubSeqProperties
  <2> HIDE DEF a
  <2> QED
    BY <2>1
<1>4. /\ b \in Seq(Y) /\ Len(b) = n + 1
      /\ \A i \in 1 .. n + 1 : b[i] = s[i]
  <2>1. /\ b \in Seq(Y) /\ Len(b) = IF 1 <= n + 1 THEN (n + 1) - 1 + 1 ELSE 0
        /\ \A i \in 1 .. (n + 1) - 1 + 1 : b[i] = s[1 + i - 1]
    BY <1>1, <1>2, SubSeqProperties
  <2> HIDE DEF b
  <2> QED
    BY <2>1
<1>5. e \in Y
  BY <1>2
<1> HIDE DEF a, b, e
<1>6. b = Append(a, e)
  <2>1. /\ Append(a, e) \in Seq(Y) /\ Len(Append(a, e)) = n + 1
        /\ \A i \in 1 .. n : Append(a, e)[i] = a[i]
        /\ Append(a, e)[n + 1] = e
    BY <1>3, <1>5, AppendProperties
  <2>2. \A i \in 1 .. n + 1 : b[i] = Append(a, e)[i]
    BY <1>1, <1>3, <1>4, <2>1 DEF e
  <2> QED
    BY <1>4, <2>1, <2>2, SeqEqual
<1>7. FlattenSeq(b) = FlattenSeq(a) \o e /\ FlattenSeq(a) \in Seq(X)
  BY <1>3, <1>5, <1>6, FlattenNext, FlattenType DEF Y
<1> QED
  BY <1>7 DEF Upto, a, b, e

LEMMA UptoAll ==
    ASSUME NEW X, NEW s \in Seq(Seq(X))
    PROVE  Upto(s, Len(s)) = FlattenSeq(s)
<1> DEFINE Y == Seq(X)
<1> HIDE DEF Y
<1>1. s \in Seq(Y)
  BY DEF Y
<1>2. SubSeq(s, 1, Len(s)) = s
  BY ONLY <1>1, SubSeqFull
<1> QED
  BY <1>2 DEF Upto

LEMMA UptoGrows ==
    ASSUME NEW X, NEW b \in Seq(X), NEW s, NEW n \in Nat,
           \A i \in 1 .. n : s[i] \in Seq(X), s[n + 1] \in Seq(X)
    PROVE  /\ b \o Upto(s, n + 1) = (b \o Upto(s, n)) \o s[n + 1]
           /\ b \o Upto(s, n) \in Seq(X)
<1>1. Upto(s, n) \in Seq(X) /\ Upto(s, n + 1) = Upto(s, n) \o s[n + 1]
  BY UptoNext
<1>2. (b \o Upto(s, n)) \o s[n + 1] = b \o (Upto(s, n) \o s[n + 1])
  <2> DEFINE u == Upto(s, n)
             e == s[n + 1]
  <2>1. u \in Seq(X) /\ e \in Seq(X)
    BY <1>1
  <2> HIDE DEF u, e
  <2>2. (b \o u) \o e = b \o (u \o e)
    BY <2>1, ConcatAssociative
  <2> QED
    BY <2>2 DEF u, e
<1> QED
  BY <1>1, <1>2, ConcatProperties

LEMMA UptoStart ==
    ASSUME NEW X, NEW b \in Seq(X), NEW s
    PROVE  b \o Upto(s, 0) = b
BY UptoZero, ConcatEmptySeq

-----------------------------------------------------------------------------
(* The elements of sequences put together. *)

LEMMA InConcat ==
    ASSUME NEW X, NEW a \in Seq(X), NEW b \in Seq(X)
    PROVE  ToSet(a \o b) = ToSet(a) \cup ToSet(b)
<1>1. /\ Len(a) \in Nat /\ Len(b) \in Nat /\ DOMAIN a = 1 .. Len(a) /\ DOMAIN b = 1 .. Len(b)
      /\ DOMAIN (a \o b) = 1 .. Len(a) + Len(b)
      /\ \A i \in 1 .. Len(a) + Len(b) :
            (a \o b)[i] = IF i <= Len(a) THEN a[i] ELSE b[i - Len(a)]
  BY ConcatProperties, LenProperties
<1>2. ASSUME NEW i \in 1 .. Len(a) PROVE a[i] \in ToSet(a \o b)
  <2>1. i \in 1 .. Len(a) + Len(b) /\ (a \o b)[i] = a[i]
    BY <1>1
  <2> QED
    BY <1>1, <2>1 DEF ToSet
<1>3. ASSUME NEW i \in 1 .. Len(b) PROVE b[i] \in ToSet(a \o b)
  <2>1. /\ Len(a) + i \in 1 .. Len(a) + Len(b) /\ ~(Len(a) + i <= Len(a))
        /\ (Len(a) + i) - Len(a) = i
    BY <1>1
  <2>2. (a \o b)[Len(a) + i] = b[i]
    BY <1>1, <2>1
  <2> QED
    BY <1>1, <2>1, <2>2 DEF ToSet
<1>4. ASSUME NEW i \in 1 .. Len(a) + Len(b) PROVE (a \o b)[i] \in ToSet(a) \cup ToSet(b)
  <2>1. CASE i <= Len(a)
    <3>1. i \in 1 .. Len(a) /\ (a \o b)[i] = a[i]
      BY <1>1, <2>1
    <3> QED
      BY <1>1, <3>1 DEF ToSet
  <2>2. CASE ~(i <= Len(a))
    <3>1. i - Len(a) \in 1 .. Len(b) /\ (a \o b)[i] = b[i - Len(a)]
      BY <1>1, <2>2
    <3> QED
      BY <1>1, <3>1 DEF ToSet
  <2> QED
    BY <2>1, <2>2
<1> QED
  BY <1>1, <1>2, <1>3, <1>4 DEF ToSet

LEMMA FlattenOne ==
    ASSUME NEW X, NEW e \in Seq(X)
    PROVE  FlattenSeq(<<e>>) = e
<1> DEFINE none == <<>>
<1>1. none \in Seq(Seq(X)) /\ Append(none, e) = <<e>>
  OBVIOUS
<1>2. FlattenSeq(none) = <<>> /\ <<>> \o e = e
  BY FlattenEmpty, ConcatEmptySeq
<1> HIDE DEF none
<1> QED
  BY <1>1, <1>2, FlattenNext

(* What is due up to an element has that element's. *)
LEMMA UptoHas ==
    ASSUME NEW X, NEW s \in Seq(Seq(X)), NEW i \in 1 .. Len(s)
    PROVE  ToSet(s[i]) \subseteq ToSet(FlattenSeq(s))
<1> DEFINE D == {n \in i .. Len(s) : ToSet(s[i]) \subseteq ToSet(Upto(s, n))}
<1>1. /\ i \in Int /\ Len(s) \in Int /\ i >= 1
      /\ \A n \in 1 .. Len(s) : s[n] \in Seq(X)
  OBVIOUS
<1>2. ASSUME NEW n \in i .. Len(s)
      PROVE  /\ Upto(s, n - 1) \in Seq(X) /\ s[n] \in Seq(X)
             /\ Upto(s, n) = Upto(s, n - 1) \o s[n]
  <2> DEFINE m == n - 1
  <2>1. m \in Nat /\ m + 1 = n /\ \A k \in 1 .. m : k \in 1 .. Len(s)
    BY <1>1
  <2>2. s[m + 1] \in Seq(X) /\ \A k \in 1 .. m : s[k] \in Seq(X)
    BY <1>1, <2>1
  <2> HIDE DEF m
  <2>3. Upto(s, m) \in Seq(X) /\ Upto(s, m + 1) = Upto(s, m) \o s[m + 1]
    BY <2>1, <2>2, UptoNext
  <2> QED
    BY <2>1, <2>2, <2>3 DEF m
<1>3. ASSUME NEW n \in i .. Len(s)
      PROVE  ToSet(Upto(s, n)) = ToSet(Upto(s, n - 1)) \cup ToSet(s[n])
  <2> DEFINE a == Upto(s, n - 1)
             b == s[n]
  <2>1. a \in Seq(X) /\ b \in Seq(X) /\ Upto(s, n) = a \o b
    BY <1>2
  <2> HIDE DEF a, b
  <2>2. ToSet(a \o b) = ToSet(a) \cup ToSet(b)
    BY ONLY <2>1, InConcat
  <2> QED
    BY <2>1, <2>2 DEF a, b
<1>4. i \in D
  BY <1>1, <1>3
<1>5. \A n \in i .. Len(s) : n # i /\ n - 1 \in D => n \in D
  BY <1>3
<1> HIDE DEF D
<1>6. \A n \in i .. Len(s) : n \in D
  BY <1>1, <1>4, <1>5, Along
<1>7. Len(s) \in i .. Len(s)
  OBVIOUS
<1>8. ToSet(s[i]) \subseteq ToSet(Upto(s, Len(s)))
  BY <1>6, <1>7 DEF D
<1> QED
  BY <1>8, UptoAll

(* Empty sequences at either end add nothing. *)
LEMMA UptoNothing ==
    ASSUME NEW X, NEW s \in Seq(Seq(X)), NEW a \in 0 .. Len(s), NEW n \in a .. Len(s),
           \A i \in a + 1 .. n : s[i] = <<>>
    PROVE  Upto(s, n) = Upto(s, a) /\ Upto(s, a) \in Seq(X)
<1> DEFINE D == {i \in a .. n : Upto(s, i) = Upto(s, a)}
<1>1. \A i \in 1 .. Len(s) : s[i] \in Seq(X)
  OBVIOUS
<1>2. ASSUME NEW i \in a .. n, i # a, i - 1 \in D PROVE i \in D
  <2> DEFINE m == i - 1
  <2>1. m \in Nat /\ m + 1 = i /\ i \in a + 1 .. n /\ \A k \in 1 .. m : k \in 1 .. Len(s)
    BY <1>2
  <2>2. s[m + 1] \in Seq(X) /\ s[m + 1] = <<>> /\ \A k \in 1 .. m : s[k] \in Seq(X)
    BY <1>1, <2>1
  <2> HIDE DEF m
  <2>3. Upto(s, m) \in Seq(X) /\ Upto(s, m + 1) = Upto(s, m) \o s[m + 1]
    BY <2>1, <2>2, UptoNext
  <2>4. Upto(s, m + 1) = Upto(s, m)
    BY <2>2, <2>3, ConcatEmptySeq
  <2> QED
    BY <1>2, <2>1, <2>4 DEF m
<1>3. a \in D /\ a \in Int /\ n \in Int
  OBVIOUS
<1> HIDE DEF D
<1>4. \A i \in a .. n : i \in D
  BY <1>2, <1>3, Along
<1>5. n \in a .. n
  OBVIOUS
<1>6. Upto(s, n) = Upto(s, a)
  BY <1>4, <1>5 DEF D
<1>7. a \in Nat /\ \A i \in 1 .. a : s[i] \in Seq(X)
  BY <1>1
<1> QED
  BY <1>6, <1>7, UptoType

LEMMA UptoFrom ==
    ASSUME NEW X, NEW s \in Seq(Seq(X)), NEW m \in 1 .. Len(s) + 1, NEW n \in m - 1 .. Len(s),
           Upto(s, m - 1) = <<>>
    PROVE  FlattenSeq(SubSeq(s, m, n)) = Upto(s, n)
<1> DEFINE D == {i \in m - 1 .. n : FlattenSeq(SubSeq(s, m, i)) = Upto(s, i)}
           Y == Seq(X)
<1>1. \A i \in 1 .. Len(s) : s[i] \in Seq(X)
  OBVIOUS
<1>2. m - 1 \in D
  <2>1. SubSeq(s, m, m - 1) = <<>>
    <3>1. m \in Int /\ m - 1 \in Int /\ m - 1 < m
      OBVIOUS
    <3> QED
      BY <3>1, SubSeqEmpty
  <2>2. m - 1 \in m - 1 .. n
    OBVIOUS
  <2> QED
    BY <2>1, <2>2, FlattenEmpty
<1>3. ASSUME NEW i \in m - 1 .. n, i # m - 1, i - 1 \in D PROVE i \in D
  <2> DEFINE k == i - 1
             u == SubSeq(s, m, k)
             e == s[i]
  <2>1. /\ k \in Nat /\ k + 1 = i /\ i \in 1 .. Len(s)
        /\ i \in m .. Len(s) /\ m \in 1 .. Len(s)
        /\ \A j \in 1 .. k : j \in 1 .. Len(s)
        /\ m \in Int /\ k \in Int /\ \A j \in m .. k : j \in 1 .. Len(s)
    BY <1>3
  <2>2. s[k + 1] \in Seq(X) /\ \A j \in 1 .. k : s[j] \in Seq(X)
    BY <1>1, <2>1
  <2>3. Upto(s, k + 1) = Upto(s, k) \o s[k + 1]
    <3> HIDE DEF k
    <3> QED
      BY <2>1, <2>2, UptoNext
  <2>4. u \in Seq(Y) /\ e \in Y
    <3>1. \A j \in m .. k : s[j] \in Y
      BY <1>1, <2>1
    <3>2. e \in Y
      BY <1>1, <2>1
    <3> HIDE DEF Y, k, e
    <3> QED
      BY <2>1, <3>1, <3>2, SubSeqProperties
  <2>5. SubSeq(s, m, i) = u \o <<e>>
    <3>1. s \in Seq(Y)
      OBVIOUS
    <3> HIDE DEF Y
    <3> QED
      BY <2>1, <3>1, SubSeqRecursiveSecond
  <2>6. SubSeq(s, m, i) = Append(u, e)
    <3> HIDE DEF Y, u, e
    <3> QED
      BY <2>4, <2>5, AppendIsConcat
  <2>7. FlattenSeq(Append(u, e)) = FlattenSeq(u) \o e
    <3> HIDE DEF u, e
    <3> QED
      BY <2>4, FlattenNext DEF Y
  <2>8. FlattenSeq(u) = Upto(s, k)
    BY <1>3
  <2> QED
    BY <1>3, <2>1, <2>3, <2>6, <2>7, <2>8
<1>4. m - 1 \in Int /\ n \in Int /\ n \in m - 1 .. n
  OBVIOUS
<1> HIDE DEF D
<1>5. \A i \in m - 1 .. n : i \in D
  BY <1>2, <1>3, <1>4, Along
<1> QED
  BY <1>4, <1>5 DEF D

LEMMA NoElements ==
    ASSUME NEW X, NEW s \in Seq(X)
    PROVE  /\ Len(s) \in Nat /\ (s = <<>> <=> Len(s) = 0)
           /\ (s = <<>> <=> ToSet(s) = {})
<1>1. Len(s) \in Nat /\ DOMAIN s = 1 .. Len(s) /\ (s = <<>> <=> Len(s) = 0)
  OBVIOUS
<1>2. CASE Len(s) = 0
  <2>1. DOMAIN s = {}
    BY <1>1, <1>2
  <2> QED
    BY <1>1, <1>2, <2>1 DEF ToSet
<1>3. CASE Len(s) # 0
  <2>1. 1 \in DOMAIN s
    BY <1>1, <1>3
  <2>2. s[1] \in ToSet(s)
    BY <2>1 DEF ToSet
  <2> QED
    BY <1>1, <1>3, <2>2
<1> QED
  BY <1>2, <1>3

-----------------------------------------------------------------------------
(* What remains of a sequence from some element on. *)
RestOf(r, s) == Len(r) \in 0 .. Len(s) /\ r = SubSeq(s, Len(s) - Len(r) + 1, Len(s))

LEMMA RestAll ==
    ASSUME NEW X, NEW s \in Seq(X)
    PROVE  RestOf(s, s) /\ Len(s) - Len(s) = 0
<1>1. Len(s) \in Nat /\ SubSeq(s, 1, Len(s)) = s
  BY SubSeqFull
<1> QED
  BY <1>1 DEF RestOf

LEMMA RestType ==
    ASSUME NEW X, NEW s \in Seq(X), NEW r, RestOf(r, s)
    PROVE  /\ r \in Seq(X) /\ Len(r) \in Nat /\ Len(s) \in Nat
           /\ Len(s) - Len(r) \in 0 .. Len(s)
           /\ r = <<>> <=> Len(r) = 0
<1>1. Len(r) \in 0 .. Len(s) /\ Len(s) \in Nat /\ r = SubSeq(s, Len(s) - Len(r) + 1, Len(s))
  BY DEF RestOf
<1>2. r \in Seq(X)
  <2> DEFINE m == Len(s) - Len(r) + 1
             n == Len(s)
  <2>1. m \in Int /\ n \in Int /\ \A i \in m .. n : s[i] \in X
    BY <1>1
  <2>2. SubSeq(s, m, n) \in Seq(X)
    BY <2>1, SubSeqProperties
  <2> QED
    BY <1>1, <2>2
<1> QED
  BY <1>1, <1>2

LEMMA RestTail ==
    ASSUME NEW X, NEW s \in Seq(X), NEW r, RestOf(r, s), r # <<>>
    PROVE  LET d == Len(s) - Len(r)
           IN  /\ RestOf(Tail(r), s) /\ Len(s) - Len(Tail(r)) = d + 1
               /\ d \in Nat /\ d + 1 \in 1 .. Len(s)
               /\ Head(r) = s[d + 1] /\ s[d + 1] \in X
<1> DEFINE d == Len(s) - Len(r)
<1>1. /\ r \in Seq(X) /\ Len(r) \in Nat \ {0} /\ Len(s) \in Nat
      /\ d \in Nat /\ d + 1 \in 1 .. Len(s)
  BY RestType
<1>2. r = SubSeq(s, d + 1, Len(s))
  BY DEF RestOf
<1>3. Len(Tail(r)) = Len(r) - 1
  BY <1>1
<1>4. Len(s) \in d + 1 .. Len(s)
  BY <1>1
<1>5. Head(r) = s[d + 1] /\ Tail(r) = SubSeq(s, (d + 1) + 1, Len(s))
  BY <1>1, <1>2, <1>4, HeadTailOfSubSeq
<1>6. Len(s) - Len(Tail(r)) = d + 1 /\ Len(Tail(r)) \in 0 .. Len(s)
  BY <1>1, <1>3
<1>7. s[d + 1] \in X
  BY <1>1
<1> QED
  BY <1>1, <1>5, <1>6, <1>7 DEF RestOf

-----------------------------------------------------------------------------
(* Finite sets of integers in ascending order. *)

Rank(S, i) == Cardinality({j \in S : j <= i})

LEMMA InOrderDef ==
    ASSUME NEW S
    PROVE  InOrder(S) = [k \in 1 .. Cardinality(S) |-> CHOOSE i \in S : Rank(S, i) = k]
BY DEF InOrder, Rank

LEMMA RankStrict ==
    ASSUME NEW S \in SUBSET Int, IsFiniteSet(S), NEW i \in S
    PROVE  /\ Rank(S, i) \in 1 .. Cardinality(S)
           /\ \A j \in S : i < j => Rank(S, i) < Rank(S, j)
<1> DEFINE Below(x) == {y \in S : y <= x}
<1>1. \A x \in S : /\ Below(x) \in SUBSET S /\ x \in Below(x)
                   /\ Rank(S, x) = Cardinality(Below(x))
  BY DEF Rank
<1>2. Cardinality(S) \in Nat
  BY FS_CardinalityType
<1>3. \A x \in S : IsFiniteSet(Below(x)) /\ Cardinality(Below(x)) <= Cardinality(S)
                   /\ Cardinality(Below(x)) \in Nat
  <2> SUFFICES ASSUME NEW x \in S
               PROVE  IsFiniteSet(Below(x)) /\ Cardinality(Below(x)) <= Cardinality(S)
                      /\ Cardinality(Below(x)) \in Nat
    OBVIOUS
  <2> HIDE DEF Below
  <2>1. IsFiniteSet(Below(x)) /\ Cardinality(Below(x)) <= Cardinality(S)
    BY <1>1, FS_Subset
  <2> QED
    BY <2>1, FS_CardinalityType
<1>4. Rank(S, i) # 0
  <2>1. Below(i) # {}
    BY <1>1
  <2> HIDE DEF Below
  <2> QED
    BY <1>1, <1>3, <2>1, FS_EmptySet
<1>5. ASSUME NEW j \in S, i < j PROVE Rank(S, i) < Rank(S, j)
  <2>0. i \in Int /\ j \in Int /\ \A y \in S : y \in Int
    OBVIOUS
  <2>1. Below(i) \in SUBSET Below(j) /\ j \in Below(j) /\ j \notin Below(i)
    <3>1. \A y \in Below(i) : y \in S /\ y <= j
      BY <1>5, <2>0
    <3>2. j \in Below(j) /\ j \notin Below(i)
      BY <1>5, <2>0
    <3>3. \A y \in Below(i) : y \in Below(j)
      BY <3>1
    <3> HIDE DEF Below
    <3> QED
      BY <3>2, <3>3
  <2>2. Below(i) # Below(j)
    BY <2>1
  <2> HIDE DEF Below
  <2>3. /\ Cardinality(Below(i)) <= Cardinality(Below(j))
        /\ Cardinality(Below(j)) = Cardinality(Below(i)) => Below(j) = Below(i)
    BY <1>3, <2>1, FS_Subset
  <2> QED
    BY <1>1, <1>3, <2>2, <2>3
<1> HIDE DEF Below
<1> QED
  BY <1>1, <1>2, <1>3, <1>4, <1>5

LEMMA RankOnto ==
    ASSUME NEW S \in SUBSET Int, IsFiniteSet(S)
    PROVE  \A k \in 1 .. Cardinality(S) : \E i \in S : Rank(S, i) = k
<1> DEFINE T == 1 .. Cardinality(S)
           f == [i \in S |-> Rank(S, i)]
<1>1. Cardinality(S) \in Nat
  BY FS_CardinalityType
<1>2. IsFiniteSet(T) /\ Cardinality(T) = Cardinality(S)
  BY <1>1, FS_Interval
<1>3. f \in [S -> T] /\ \A i, j \in S : f[i] = f[j] => i = j
  <2>1. \A i \in S : Rank(S, i) \in T
    BY RankStrict
  <2>2. ASSUME NEW i \in S, NEW j \in S, Rank(S, i) = Rank(S, j) PROVE i = j
    <3>1. ~ (i < j) /\ ~ (j < i)
      BY <1>1, <2>1, <2>2, RankStrict
    <3> QED
      BY <3>1
  <2> QED
    BY <2>1, <2>2
<1> HIDE DEF T, f
<1>4. f \in Injection(S, T)
  BY <1>3 DEF Injection, IsInjective
<1>5. f \in Surjection(S, T)
  BY <1>2, <1>4, FS_Injection
<1> QED
  BY <1>5 DEF Surjection, f, T

LEMMA InOrderAt ==
    ASSUME NEW S \in SUBSET Int, IsFiniteSet(S)
    PROVE  /\ Cardinality(S) \in Nat
           /\ DOMAIN InOrder(S) = 1 .. Cardinality(S)
           /\ InOrder(S) \in Seq(S) /\ Len(InOrder(S)) = Cardinality(S)
           /\ \A k \in 1 .. Cardinality(S) :
                 InOrder(S)[k] \in S /\ Rank(S, InOrder(S)[k]) = k
<1> DEFINE At(k) == CHOOSE i \in S : Rank(S, i) = k
<1>1. Cardinality(S) \in Nat
  BY FS_CardinalityType
<1>2. \A k \in 1 .. Cardinality(S) : At(k) \in S /\ Rank(S, At(k)) = k
  BY RankOnto
<1>3. InOrder(S) = [k \in 1 .. Cardinality(S) |-> At(k)]
  BY InOrderDef
<1> HIDE DEF At
<1>4. InOrder(S) \in [1 .. Cardinality(S) -> S]
  BY <1>2, <1>3
<1>5. InOrder(S) \in Seq(S) /\ Len(InOrder(S)) = Cardinality(S)
  BY <1>1, <1>4
<1> QED
  BY <1>1, <1>2, <1>3, <1>5

LEMMA InOrderIs ==
    ASSUME NEW S \in SUBSET Int, IsFiniteSet(S), NEW k \in 1 .. Cardinality(S),
           NEW i \in S, Rank(S, i) = k
    PROVE  i = InOrder(S)[k]
<1> DEFINE j == InOrder(S)[k]
<1>1. j \in S /\ Rank(S, j) = k /\ Cardinality(S) \in Nat
  BY InOrderAt
<1> HIDE DEF j
<1>2. ~ (i < j) /\ ~ (j < i)
  BY <1>1, RankStrict
<1>3. i \in Int /\ j \in Int
  BY <1>1
<1>4. j = i
  BY <1>2, <1>3
<1> QED
  BY <1>4 DEF j

LEMMA InOrderEmpty == InOrder({}) = <<>>
<1>1. Cardinality({}) = 0
  BY FS_EmptySet
<1> QED
  BY <1>1 DEF InOrder

(* A new greatest element comes last. *)
LEMMA InOrderNext ==
    ASSUME NEW S \in SUBSET Int, IsFiniteSet(S), NEW n \in Int, \A i \in S : i < n
    PROVE  InOrder(S \cup {n}) = Append(InOrder(S), n)
<1> DEFINE T == S \cup {n}
           c == Cardinality(S)
<1>1. /\ T \in SUBSET Int /\ IsFiniteSet(T)
      /\ c \in Nat /\ Cardinality(T) = c + 1
  BY FS_AddElement, FS_CardinalityType
<1>2. /\ Len(InOrder(S)) = c /\ InOrder(S) \in Seq(Int)
      /\ \A k \in 1 .. c : InOrder(S)[k] \in S /\ Rank(S, InOrder(S)[k]) = k
  <2>1. InOrder(S) \in Seq(S)
    BY InOrderAt
  <2>2. InOrder(S) \in Seq(Int)
    BY <2>1, SeqMonotonic
  <2> QED
    BY <2>2, InOrderAt
<1>3. Rank(T, n) = c + 1
  <2>1. \A j \in T : j <= n
    <3>1. \A j \in S : j \in Int /\ j < n
      OBVIOUS
    <3> QED
      BY <3>1
  <2>2. {j \in T : j <= n} = T
    BY <2>1
  <2> QED
    BY <1>1, <2>2 DEF Rank
<1>4. \A i \in S : Rank(T, i) = Rank(S, i)
  <2>1. \A i \in S : {j \in T : j <= i} = {j \in S : j <= i}
    BY <1>1
  <2> QED
    BY <2>1 DEF Rank
<1> HIDE DEF T
<1>5. InOrder(T) \in Seq(T) /\ Len(InOrder(T)) = c + 1
  BY <1>1, InOrderAt
<1>6. InOrder(T) \in Seq(Int)
  BY <1>1, <1>5, SeqMonotonic
<1>7. ASSUME NEW k \in 1 .. c PROVE InOrder(T)[k] = InOrder(S)[k]
  <2>1. InOrder(S)[k] \in T /\ Rank(T, InOrder(S)[k]) = k
    BY <1>2, <1>4 DEF T
  <2>2. k \in 1 .. Cardinality(T)
    BY <1>1
  <2> DEFINE i == InOrder(S)[k]
  <2>3. i \in T /\ Rank(T, i) = k
    BY <2>1
  <2> HIDE DEF i
  <2>4. i = InOrder(T)[k]
    BY ONLY <1>1, <2>2, <2>3, InOrderIs
  <2> QED
    BY <2>4 DEF i
<1>8. InOrder(T)[c + 1] = n
  <2>1. n \in T /\ c + 1 \in 1 .. Cardinality(T)
    BY <1>1 DEF T
  <2> QED
    BY <1>1, <1>3, <2>1, InOrderIs
<1>9. /\ Append(InOrder(S), n) \in Seq(Int)
      /\ Len(Append(InOrder(S), n)) = c + 1
      /\ \A k \in 1 .. c : Append(InOrder(S), n)[k] = InOrder(S)[k]
      /\ Append(InOrder(S), n)[c + 1] = n
  BY <1>2, AppendProperties
<1>10. \A k \in 1 .. c + 1 : InOrder(T)[k] = Append(InOrder(S), n)[k]
  BY <1>1, <1>7, <1>8, <1>9
<1> HIDE DEF c
<1>11. InOrder(T) = Append(InOrder(S), n)
  BY ONLY <1>5, <1>6, <1>9, <1>10, SeqEqual
<1> QED
  BY <1>11 DEF T

LEMMA InOrderIncreasing ==
    ASSUME NEW S \in SUBSET Int, IsFiniteSet(S),
           NEW k \in 1 .. Cardinality(S), k + 1 \in 1 .. Cardinality(S)
    PROVE  InOrder(S)[k] < InOrder(S)[k + 1]
<1> DEFINE i == InOrder(S)[k]
           j == InOrder(S)[k + 1]
<1>1. /\ i \in S /\ j \in S /\ Rank(S, i) = k /\ Rank(S, j) = k + 1
      /\ Cardinality(S) \in Nat
  BY InOrderAt
<1> HIDE DEF i, j
<1>2. i \in Int /\ j \in Int /\ k \in Int
  BY <1>1
<1>3. ~ (j < i)
  <2>1. j < i => Rank(S, j) < Rank(S, i)
    BY <1>1, RankStrict
  <2> QED
    BY <1>1, <1>2, <2>1
<1>4. i # j
  BY <1>1, <1>2
<1> QED
  BY <1>2, <1>3, <1>4 DEF i, j

LEMMA MinMax ==
    ASSUME NEW S \in SUBSET Int, IsFiniteSet(S), S # {}
    PROVE  /\ Min(S) \in S /\ \A y \in S : Min(S) <= y
           /\ Max(S) \in S /\ \A y \in S : y <= Max(S)
<1>1. Cardinality(S) \in Nat \ {0}
  BY FS_CardinalityType, FS_EmptySet
<1>2. PICK a \in S : Rank(S, a) = 1
  BY <1>1, RankOnto
<1>3. PICK b \in S : Rank(S, b) = Cardinality(S)
  BY <1>1, RankOnto
<1>4. \A y \in S : Rank(S, y) \in 1 .. Cardinality(S) /\ y \in Int
  BY RankStrict
<1>5. ASSUME NEW y \in S PROVE a <= y /\ y <= b
  <2>1. ~ (y < a)
    BY <1>1, <1>2, <1>4, RankStrict
  <2>2. ~ (b < y)
    BY <1>1, <1>3, <1>4, RankStrict
  <2> QED
    BY <1>4, <2>1, <2>2
<1>6. \A y \in S : b >= y
  BY <1>4, <1>5
<1>7. Min(S) \in S /\ \A y \in S : Min(S) <= y
  BY <1>5 DEF Min
<1>8. Max(S) \in S /\ \A y \in S : Max(S) >= y
  BY <1>6 DEF Max
<1> QED
  BY <1>4, <1>7, <1>8

LEMMA SubsetOfDomain ==
    ASSUME NEW X, NEW s \in Seq(X), NEW S \in SUBSET (DOMAIN s)
    PROVE  S \in SUBSET Int /\ IsFiniteSet(S)
<1>1. DOMAIN s = 1 .. Len(s) /\ Len(s) \in Nat
  OBVIOUS
<1>2. IsFiniteSet(1 .. Len(s))
  BY <1>1, FS_Interval
<1>3. IsFiniteSet(S)
  BY <1>1, <1>2, FS_Subset
<1> QED
  BY <1>1, <1>3

-----------------------------------------------------------------------------
(* What BuildChunks' helpers return. *)

LEMMA tokenizeType ==
    ASSUME NEW t \in Text
    PROVE  tokenize(t) \in Line /\ Len(tokenize(t)) \in Nat
<1>1. tokenize(t) \in Seq(Word)
  BY FlattenType DEF tokenize, Text, Line
<1> QED
  BY <1>1 DEF Line

LEMMA TrimSpaceType ==
    ASSUME NEW t \in Text
    PROVE  TrimSpace(t) \in Text
<1>1. CASE NonBlank(t) = {}
  BY <1>1 DEF TrimSpace, Text
<1>2. CASE NonBlank(t) # {}
  <2>1. NonBlank(t) \in SUBSET (DOMAIN t)
    BY DEF NonBlank
  <2>2. NonBlank(t) \in SUBSET Int /\ IsFiniteSet(NonBlank(t))
    BY <2>1, SubsetOfDomain DEF Text
  <2>3. Min(NonBlank(t)) \in DOMAIN t /\ Max(NonBlank(t)) \in DOMAIN t
    BY <1>2, <2>1, <2>2, MinMax
  <2>4. /\ Min(NonBlank(t)) \in Int /\ Max(NonBlank(t)) \in Int
        /\ \A i \in Min(NonBlank(t)) .. Max(NonBlank(t)) : t[i] \in Line
    BY <2>3 DEF Text
  <2>5. SubSeq(t, Min(NonBlank(t)), Max(NonBlank(t))) \in Seq(Line)
    BY <2>4, SubSeqProperties
  <2> QED
    BY <1>2, <2>5 DEF TrimSpace, Text
<1> QED
  BY <1>1, <1>2

LEMMA splitParagraphsType ==
    ASSUME NEW t \in Text
    PROVE  splitParagraphs(t) \in Seq(Text)
<1> DEFINE Lasts(i) == {j \in i .. Len(t) : j + 1 \notin NonBlank(t)}
           S == {i \in NonBlank(t) : i - 1 \notin NonBlank(t)}
           starts == InOrder(S)
           Paragraph(i) == SubSeq(t, i, Min(Lasts(i)))
<1>1. /\ Len(t) \in Nat /\ DOMAIN t = 1 .. Len(t)
      /\ \A i \in 1 .. Len(t) : t[i] \in Line
      /\ NonBlank(t) \in SUBSET (DOMAIN t)
  BY DEF Text, NonBlank
<1>2. S \in SUBSET (DOMAIN t)
  BY <1>1
<1>3. S \in SUBSET Int /\ IsFiniteSet(S)
  BY <1>2, SubsetOfDomain DEF Text
<1>4. ASSUME NEW i \in DOMAIN t PROVE Paragraph(i) \in Text
  <2>1. Lasts(i) \in SUBSET (DOMAIN t) /\ Len(t) \in Lasts(i)
    BY <1>1
  <2> HIDE DEF Lasts
  <2>2. Lasts(i) \in SUBSET Int /\ IsFiniteSet(Lasts(i)) /\ Lasts(i) # {}
    BY <2>1, SubsetOfDomain DEF Text
  <2>3. Min(Lasts(i)) \in DOMAIN t
    BY <2>1, <2>2, MinMax
  <2>4. i \in Int /\ Min(Lasts(i)) \in Int /\ \A k \in i .. Min(Lasts(i)) : t[k] \in Line
    BY <1>1, <2>3
  <2> QED
    BY <2>4, SubSeqProperties DEF Text
<1>5. splitParagraphs(t) = [k \in DOMAIN starts |-> Paragraph(starts[k])]
  BY DEF splitParagraphs
<1> HIDE DEF S, Paragraph
<1>6. /\ Cardinality(S) \in Nat /\ DOMAIN starts = 1 .. Cardinality(S)
      /\ \A k \in 1 .. Cardinality(S) : starts[k] \in S
  BY <1>3, InOrderAt
<1> HIDE DEF starts
<1>7. \A k \in 1 .. Cardinality(S) : Paragraph(starts[k]) \in Text
  BY <1>2, <1>4, <1>6
<1> QED
  BY <1>5, <1>6, <1>7

(* A value as often as it occurs in s. *)
Copies(s, v) == [n \in 1 .. Cardinality({i \in DOMAIN s : s[i] = v}) |-> v]
Groups(s) == [k \in DOMAIN InOrder(ToSet(s)) |-> Copies(s, InOrder(ToSet(s))[k])]

LEMMA SortedIs ==
    ASSUME NEW s \in Seq(Int)
    PROVE  /\ ToSet(s) \in SUBSET Int /\ IsFiniteSet(ToSet(s))
           /\ Groups(s) \in Seq(Seq(Int)) /\ Sorted(s) = FlattenSeq(Groups(s))
<1> DEFINE V == ToSet(s)
           values == InOrder(V)
<1>1. V \in SUBSET Int /\ IsFiniteSet(V)
  <2>1. DOMAIN s = 1 .. Len(s) /\ Len(s) \in Nat
    OBVIOUS
  <2>2. IsFiniteSet(DOMAIN s)
    BY <2>1, FS_Interval
  <2> DEFINE f == [i \in DOMAIN s |-> s[i]]
  <2>3. f \in Surjection(DOMAIN s, V)
    BY DEF Surjection, ToSet
  <2>4. IsFiniteSet(V)
    BY <2>2, <2>3, FS_Surjection
  <2> QED
    BY <2>4 DEF ToSet
<1>2. \A v \in Int : Copies(s, v) \in Seq(Int)
  <2> SUFFICES ASSUME NEW v \in Int PROVE Copies(s, v) \in Seq(Int)
    OBVIOUS
  <2> DEFINE D == {i \in DOMAIN s : s[i] = v}
  <2>1. D \in SUBSET (DOMAIN s)
    OBVIOUS
  <2>2. IsFiniteSet(D)
    BY <2>1, SubsetOfDomain
  <2>3. Cardinality(D) \in Nat
    BY <2>2, FS_CardinalityType
  <2> QED
    BY <2>3 DEF Copies
<1>3. Sorted(s) = FlattenSeq(Groups(s))
  BY DEF Sorted, Groups, Copies
<1>4. Groups(s) = [k \in DOMAIN values |-> Copies(s, values[k])]
  BY DEF Groups
<1> HIDE DEF V
<1>5. /\ Cardinality(V) \in Nat /\ DOMAIN values = 1 .. Cardinality(V)
      /\ \A k \in 1 .. Cardinality(V) : values[k] \in V
  BY <1>1, InOrderAt
<1> HIDE DEF values
<1>6. \A k \in 1 .. Cardinality(V) : Copies(s, values[k]) \in Seq(Int)
  BY <1>1, <1>2, <1>5
<1>7. [k \in DOMAIN values |-> Copies(s, values[k])] \in Seq(Seq(Int))
  BY <1>5, <1>6
<1> QED
  BY <1>1, <1>3, <1>4, <1>7 DEF V

LEMMA SortedType ==
    ASSUME NEW s \in Seq(Int)
    PROVE  Sorted(s) \in Seq(Int)
BY SortedIs, FlattenType

LEMMA TOCType ==
    ASSUME NEW ss \in Seq(Section)
    PROVE  TOC(ss) \in Text
<1> DEFINE S == {i \in DOMAIN ss : ss[i].heading # <<>>}
           at1 == InOrder(S)
<1>1. S \in SUBSET (DOMAIN ss)
  OBVIOUS
<1>2. S \in SUBSET Int /\ IsFiniteSet(S)
  BY <1>1, SubsetOfDomain
<1>3. TOC(ss) = [k \in DOMAIN at1 |-> ss[at1[k]].heading]
  BY DEF TOC
<1> HIDE DEF S
<1>4. /\ Cardinality(S) \in Nat /\ DOMAIN at1 = 1 .. Cardinality(S)
      /\ \A k \in 1 .. Cardinality(S) : at1[k] \in S
  BY <1>2, InOrderAt
<1> HIDE DEF at1
<1>5. \A i \in S : ss[i].heading \in Line
  <2>1. \A i \in DOMAIN ss : ss[i] \in Section
    OBVIOUS
  <2> QED
    BY <1>1, <2>1 DEF Section
<1>6. \A k \in 1 .. Cardinality(S) : ss[at1[k]].heading \in Line
  BY <1>4, <1>5
<1> QED
  BY <1>3, <1>4, <1>6 DEF Text

(* Sorting loses no value. *)
LEMMA SortedHas ==
    ASSUME NEW s \in Seq(Int), NEW v \in ToSet(s)
    PROVE  v \in ToSet(Sorted(s))
<1> DEFINE V == ToSet(s)
           D == {i \in DOMAIN s : s[i] = v}
           k == Rank(V, v)
           f == Groups(s)
<1>1. V \in SUBSET Int /\ IsFiniteSet(V) /\ f \in Seq(Seq(Int)) /\ Sorted(s) = FlattenSeq(f)
  BY SortedIs
<1>2. v \in V
  OBVIOUS
<1>3. D \in SUBSET (DOMAIN s) /\ D # {}
  BY DEF ToSet
<1>4. Cardinality(D) \in Nat /\ Cardinality(D) # 0
  <2>1. IsFiniteSet(D)
    BY <1>3, SubsetOfDomain
  <2> QED
    BY <1>3, <2>1, FS_CardinalityType, FS_EmptySet
<1>5. Copies(s, v) = [n \in 1 .. Cardinality(D) |-> v]
  BY DEF Copies
<1>6. v \in ToSet(Copies(s, v))
  <2> HIDE DEF D
  <2>1. 1 \in 1 .. Cardinality(D)
    BY <1>4
  <2> QED
    BY <1>5, <2>1 DEF ToSet
<1>7. f = [j \in DOMAIN InOrder(V) |-> Copies(s, InOrder(V)[j])]
  BY DEF Groups
<1> HIDE DEF V, f
<1>8. k \in DOMAIN InOrder(V) /\ InOrder(V)[k] = v
  <2>1. k \in 1 .. Cardinality(V) /\ DOMAIN InOrder(V) = 1 .. Cardinality(V)
    BY <1>1, <1>2, RankStrict, InOrderAt
  <2> QED
    BY <1>1, <1>2, <2>1, InOrderIs
<1> HIDE DEF k
<1>9. k \in DOMAIN f /\ f[k] = Copies(s, v)
  BY <1>7, <1>8
<1>10. k \in 1 .. Len(f)
  BY <1>1, <1>9
<1>11. ToSet(f[k]) \subseteq ToSet(FlattenSeq(f))
  BY <1>1, <1>10, UptoHas
<1> QED
  BY <1>1, <1>6, <1>9, <1>11

(* Trimming blank lines off a text keeps its words. *)
LEMMA TokensTrimmed ==
    ASSUME NEW t \in Text
    PROVE  tokenize(TrimSpace(t)) = tokenize(t)
<1> DEFINE B == NonBlank(t)
           len == Len(t)
<1>1. /\ t \in Seq(Line) /\ t \in Seq(Seq(Word)) /\ len \in Nat /\ DOMAIN t = 1 .. len
      /\ B \in SUBSET (DOMAIN t)
  BY DEF NonBlank, Text, Line
<1>2. \A i \in 1 .. len : i \notin B => t[i] = <<>>
  BY <1>1 DEF NonBlank
<1>3. Upto(t, len) = tokenize(t) /\ Upto(t, 0) = <<>>
  BY <1>1, UptoAll, UptoZero DEF tokenize
<1>4. CASE B = {}
  <2>1. Upto(t, len) = Upto(t, 0)
    <3>1. 0 \in 0 .. len /\ len \in 0 .. len /\ \A i \in 0 + 1 .. len : t[i] = <<>>
      BY <1>1, <1>2, <1>4
    <3> QED
      BY <1>1, <3>1, UptoNothing
  <2> QED
    BY <1>3, <1>4, <2>1, FlattenEmpty DEF TrimSpace, tokenize
<1>5. CASE B # {}
  <2> DEFINE m == Min(B)
             n == Max(B)
  <2>1. B \in SUBSET Int /\ IsFiniteSet(B)
    BY <1>1, SubsetOfDomain
  <2>2. m \in B /\ n \in B /\ \A y \in B : m <= y /\ y <= n
    BY <1>5, <2>1, MinMax
  <2>3. TrimSpace(t) = SubSeq(t, m, n)
    BY <1>5 DEF TrimSpace
  <2> HIDE DEF m, n, B
  <2>4. m \in 1 .. len /\ n \in m .. len
    BY <1>1, <2>2
  <2>5. Upto(t, m - 1) = <<>>
    <3>1. /\ 0 \in 0 .. len /\ m - 1 \in 0 .. len
          /\ \A i \in 0 + 1 .. m - 1 : i \in 1 .. len /\ ~(m <= i)
      BY <2>4
    <3>2. \A i \in 0 + 1 .. m - 1 : t[i] = <<>>
      BY <1>2, <2>2, <3>1
    <3> QED
      BY <1>1, <1>3, <3>1, <3>2, UptoNothing
  <2>6. Upto(t, len) = Upto(t, n)
    <3>1. /\ n \in 0 .. len /\ len \in n .. len
          /\ \A i \in n + 1 .. len : i \in 1 .. len /\ ~(i <= n)
      BY <1>1, <2>4
    <3>2. \A i \in n + 1 .. len : t[i] = <<>>
      BY <1>2, <2>2, <3>1
    <3> QED
      BY <1>1, <3>1, <3>2, UptoNothing
  <2>7. FlattenSeq(SubSeq(t, m, n)) = Upto(t, n)
    <3>1. m \in 1 .. len + 1 /\ n \in m - 1 .. len
      BY <1>1, <2>4
    <3> QED
      BY <1>1, <2>5, <3>1, UptoFrom
  <2> QED
    BY <1>3, <2>3, <2>6, <2>7 DEF tokenize
<1> QED
  BY <1>4, <1>5

LEMMA TOCHasWords ==
    ASSUME NEW ss \in Seq(Section), TOC(ss) # <<>>
    PROVE  Len(tokenize(TOC(ss))) \in Nat /\ Len(tokenize(TOC(ss))) > 0
<1> DEFINE S == {i \in DOMAIN ss : ss[i].heading # <<>>}
           t == TOC(ss)
<1>1. t \in Text /\ t \in Seq(Line) /\ t \in Seq(Seq(Word)) /\ Len(t) \in Nat
  BY TOCType DEF Text, Line
<1>2. S \in SUBSET (DOMAIN ss) /\ S \in SUBSET Int /\ IsFiniteSet(S)
  BY SubsetOfDomain
<1>3. t = [k \in DOMAIN InOrder(S) |-> ss[InOrder(S)[k]].heading]
  BY DEF TOC
<1> HIDE DEF t
<1>4. 1 \in 1 .. Len(t) /\ 1 \in DOMAIN t
  BY <1>1 DEF t
<1>5. t[1] # <<>>
  <2> HIDE DEF S
  <2>1. DOMAIN InOrder(S) = 1 .. Cardinality(S)
        /\ \A k \in 1 .. Cardinality(S) : InOrder(S)[k] \in S
    BY <1>2, InOrderAt
  <2>2. InOrder(S)[1] \in S /\ t[1] = ss[InOrder(S)[1]].heading
    BY <1>3, <1>4, <2>1
  <2> QED
    BY <2>2 DEF S
<1>6. t[1] \in Seq(Word)
  BY <1>1, <1>4
<1>7. ToSet(t[1]) # {} /\ ToSet(t[1]) \subseteq ToSet(FlattenSeq(t))
  <2>1. ToSet(t[1]) # {}
    BY <1>5, <1>6, NoElements
  <2> QED
    BY <1>1, <1>4, <2>1, UptoHas
<1>8. tokenize(t) \in Seq(Word) /\ Len(tokenize(t)) \in Nat
  BY <1>1, tokenizeType DEF Line
<1>9. Len(tokenize(t)) # 0
  BY <1>7, <1>8, NoElements DEF tokenize
<1> QED
  BY <1>8, <1>9 DEF t

LEMMA OneLine ==
    ASSUME NEW e \in Line
    PROVE  <<e>> \in Text /\ tokenize(<<e>>) = e
<1>1. e \in Seq(Word) /\ <<e>> \in Seq(Line)
  BY DEF Line
<1> QED
  BY <1>1, FlattenOne DEF tokenize, Text

-----------------------------------------------------------------------------
(* Texts kept at their first occurrence. *)

Firsts(s) == {i \in DOMAIN s : \A j \in 1 .. i - 1 : s[j] # s[i]}

LEMMA FirstOccurrencesDef ==
    ASSUME NEW X, NEW s \in Seq(X)
    PROVE  /\ Firsts(s) \in SUBSET (DOMAIN s) /\ Firsts(s) \in SUBSET Int
           /\ IsFiniteSet(Firsts(s)) /\ Cardinality(Firsts(s)) \in Nat
           /\ FirstOccurrences(s) \in Seq(X)
           /\ Len(FirstOccurrences(s)) = Cardinality(Firsts(s))
           /\ \A k \in 1 .. Cardinality(Firsts(s)) :
                 /\ InOrder(Firsts(s))[k] \in Firsts(s)
                 /\ FirstOccurrences(s)[k] = s[InOrder(Firsts(s))[k]]
<1> DEFINE S == Firsts(s)
           firsts == InOrder(S)
<1>1. S \in SUBSET (DOMAIN s)
  BY DEF Firsts
<1>2. S \in SUBSET Int /\ IsFiniteSet(S)
  BY <1>1, SubsetOfDomain
<1>3. FirstOccurrences(s) = [k \in DOMAIN firsts |-> s[firsts[k]]]
  BY DEF FirstOccurrences, Firsts
<1> HIDE DEF S
<1>4. /\ Cardinality(S) \in Nat /\ DOMAIN firsts = 1 .. Cardinality(S)
      /\ \A k \in 1 .. Cardinality(S) : firsts[k] \in S
  BY <1>2, InOrderAt
<1> HIDE DEF firsts
<1>5. \A k \in 1 .. Cardinality(S) : s[firsts[k]] \in X
  BY <1>1, <1>4
<1>6. /\ FirstOccurrences(s) \in Seq(X) /\ Len(FirstOccurrences(s)) = Cardinality(S)
      /\ \A k \in 1 .. Cardinality(S) : FirstOccurrences(s)[k] = s[firsts[k]]
  BY <1>3, <1>4, <1>5
<1> QED
  BY <1>1, <1>2, <1>4, <1>6 DEF S, firsts

LEMMA FirstOccurrencesEmpty == FirstOccurrences(<<>>) = <<>>
<1>1. <<>> \in Seq({}) /\ DOMAIN <<>> = {}
  OBVIOUS
<1>2. Firsts(<<>>) = {}
  BY <1>1 DEF Firsts
<1>3. FirstOccurrences(<<>>) \in Seq({}) /\ Len(FirstOccurrences(<<>>)) = Cardinality({})
  BY <1>1, <1>2, FirstOccurrencesDef
<1> QED
  BY <1>3, FS_EmptySet

(* No text is missing: each has a first occurrence. *)
LEMMA FirstOccurrencesSet ==
    ASSUME NEW X, NEW s \in Seq(X)
    PROVE  ToSet(FirstOccurrences(s)) = ToSet(s)
<1> DEFINE S == Firsts(s)
           firsts == InOrder(S)
           c == Cardinality(S)
<1>1. /\ S \in SUBSET (DOMAIN s) /\ S \in SUBSET Int /\ IsFiniteSet(S) /\ c \in Nat
      /\ DOMAIN FirstOccurrences(s) = 1 .. c
      /\ \A k \in 1 .. c : firsts[k] \in S /\ FirstOccurrences(s)[k] = s[firsts[k]]
  <2>1. FirstOccurrences(s) \in Seq(X) /\ Len(FirstOccurrences(s)) = c
    BY FirstOccurrencesDef
  <2>2. DOMAIN FirstOccurrences(s) = 1 .. c
    BY <2>1
  <2> QED
    BY <2>2, FirstOccurrencesDef
<1>2. ASSUME NEW k \in 1 .. c PROVE FirstOccurrences(s)[k] \in ToSet(s)
  BY <1>1 DEF ToSet
<1>3. ASSUME NEW i \in DOMAIN s PROVE \E k \in 1 .. c : FirstOccurrences(s)[k] = s[i]
  <2> DEFINE D == {j \in DOMAIN s : s[j] = s[i]}
             m == Min(D)
  <2>1. D \in SUBSET (DOMAIN s) /\ D # {}
    OBVIOUS
  <2>2. D \in SUBSET Int /\ IsFiniteSet(D)
    BY <2>1, SubsetOfDomain
  <2> HIDE DEF D
  <2>3. m \in D /\ \A y \in D : m <= y
    BY <2>1, <2>2, MinMax
  <2> HIDE DEF m
  <2>4. m \in DOMAIN s /\ s[m] = s[i] /\ DOMAIN s = 1 .. Len(s) /\ Len(s) \in Nat
    BY <2>3 DEF D
  <2>5. \A j \in 1 .. m - 1 : s[j] # s[m]
    <3> SUFFICES ASSUME NEW j \in 1 .. m - 1, s[j] = s[m] PROVE FALSE
      OBVIOUS
    <3>1. j \in D
      BY <2>4 DEF D
    <3> QED
      BY <3>1, <2>3, <2>4
  <2>6. m \in S
    BY <2>4, <2>5 DEF Firsts
  <2> HIDE DEF S, c
  <2>7. Rank(S, m) \in 1 .. Cardinality(S)
    BY <2>6, <1>1, RankStrict
  <2>8. m = InOrder(S)[Rank(S, m)]
    BY <2>6, <2>7, <1>1, InOrderIs
  <2> QED
    BY <2>4, <2>7, <2>8, <1>1 DEF c
<1> HIDE DEF S, c, firsts
<1>4. ToSet(FirstOccurrences(s)) \subseteq ToSet(s)
  BY <1>1, <1>2 DEF ToSet
<1>5. ToSet(s) \subseteq ToSet(FirstOccurrences(s))
  BY <1>1, <1>3 DEF ToSet
<1> QED
  BY <1>4, <1>5

(* A text at the end is kept if it is new. *)
LEMMA FirstOccurrencesNext ==
    ASSUME NEW X, NEW s \in Seq(X), NEW t \in X
    PROVE  FirstOccurrences(Append(s, t)) =
              IF t \in ToSet(s) THEN FirstOccurrences(s)
              ELSE Append(FirstOccurrences(s), t)
<1> DEFINE u == Append(s, t)
           n == Len(s)
           S == Firsts(s)
           c == Cardinality(S)
<1>1. /\ u \in Seq(X) /\ Len(u) = n + 1 /\ n \in Nat /\ u[n + 1] = t
      /\ DOMAIN u = 1 .. n + 1 /\ DOMAIN s = 1 .. n
      /\ \A i \in 1 .. n : u[i] = s[i]
  BY AppendProperties
<1> HIDE DEF u, n
<1>2. \A i \in 1 .. n : i \in Firsts(u) <=> i \in S
  <2> SUFFICES ASSUME NEW i \in 1 .. n PROVE i \in Firsts(u) <=> i \in S
    OBVIOUS
  <2>1. u[i] = s[i] /\ \A j \in 1 .. i - 1 : u[j] = s[j]
    BY <1>1
  <2> QED
    BY <1>1, <2>1 DEF Firsts
<1>3. n + 1 \in Firsts(u) <=> t \notin ToSet(s)
  <2>1. (n + 1) - 1 = n
    BY <1>1
  <2>2. n + 1 \in Firsts(u) <=> \A j \in 1 .. n : s[j] # t
    BY <1>1, <2>1 DEF Firsts
  <2> QED
    BY <1>1, <2>2 DEF ToSet
<1>4. /\ S \in SUBSET (1 .. n) /\ S \in SUBSET Int /\ IsFiniteSet(S)
      /\ FirstOccurrences(s) \in Seq(X) /\ Len(FirstOccurrences(s)) = c /\ c \in Nat
      /\ \A k \in 1 .. c : /\ InOrder(S)[k] \in S
                           /\ FirstOccurrences(s)[k] = s[InOrder(S)[k]]
  BY <1>1, FirstOccurrencesDef
<1>5. /\ Firsts(u) \in SUBSET (1 .. n + 1)
      /\ FirstOccurrences(u) \in Seq(X)
      /\ Len(FirstOccurrences(u)) = Cardinality(Firsts(u))
      /\ \A k \in 1 .. Cardinality(Firsts(u)) :
            FirstOccurrences(u)[k] = u[InOrder(Firsts(u))[k]]
  BY <1>1, FirstOccurrencesDef
<1> HIDE DEF S, c
<1>6. CASE t \in ToSet(s)
  <2>1. Firsts(u) = S
    <3>1. n + 1 \notin Firsts(u)
      BY <1>3, <1>6
    <3>2. \A i \in 1 .. n + 1 : i \in 1 .. n \/ i = n + 1
      BY <1>1
    <3> QED
      BY <1>2, <1>4, <1>5, <3>1, <3>2
  <2>2. \A k \in 1 .. c : FirstOccurrences(u)[k] = FirstOccurrences(s)[k]
    <3> SUFFICES ASSUME NEW k \in 1 .. c
                 PROVE  FirstOccurrences(u)[k] = FirstOccurrences(s)[k]
      OBVIOUS
    <3>1. k \in 1 .. Cardinality(Firsts(u))
      BY <2>1 DEF c
    <3>2. FirstOccurrences(u)[k] = u[InOrder(S)[k]]
      BY <1>5, <2>1, <3>1
    <3> QED
      BY <1>1, <1>4, <3>2
  <2>3. Len(FirstOccurrences(u)) = Len(FirstOccurrences(s))
    BY <1>4, <1>5, <2>1 DEF c
  <2>4. FirstOccurrences(u) = FirstOccurrences(s)
    BY <1>4, <1>5, <2>2, <2>3, SeqEqual
  <2> QED
    BY <1>6, <2>4 DEF u
<1>7. CASE t \notin ToSet(s)
  <2>1. Firsts(u) = S \cup {n + 1}
    <3>1. n + 1 \in Firsts(u) /\ n + 1 \notin 1 .. n
      BY <1>1, <1>3, <1>7
    <3>2. \A i \in 1 .. n + 1 : i \in 1 .. n \/ i = n + 1
      BY <1>1
    <3> QED
      BY <1>2, <1>4, <1>5, <3>1, <3>2
  <2>2. InOrder(Firsts(u)) = Append(InOrder(S), n + 1)
    <3>1. n + 1 \in Int /\ \A i \in S : i < n + 1
      BY <1>1, <1>4
    <3> QED
      BY <1>4, <2>1, <3>1, InOrderNext
  <2>3. Cardinality(Firsts(u)) = c + 1
    <3>1. n + 1 \notin S
      BY <1>1, <1>4
    <3>2. Cardinality(S \cup {n + 1}) = Cardinality(S) + 1
      BY <1>4, <3>1, FS_AddElement
    <3> QED
      BY <2>1, <3>2 DEF c
  <2>4. InOrder(S) \in Seq(Int) /\ Len(InOrder(S)) = c
    <3>1. InOrder(S) \in Seq(S) /\ Len(InOrder(S)) = Cardinality(S)
      BY <1>4, InOrderAt
    <3>2. InOrder(S) \in Seq(Int)
      BY <3>1, <1>4, SeqMonotonic
    <3> QED
      BY <3>1, <3>2 DEF c
  <2>5. /\ \A k \in 1 .. c : Append(InOrder(S), n + 1)[k] = InOrder(S)[k]
        /\ Append(InOrder(S), n + 1)[c + 1] = n + 1
    <3>1. n + 1 \in Int
      BY <1>1
    <3> QED
      BY <2>4, <3>1, AppendProperties
  <2>6. \A k \in 1 .. c : FirstOccurrences(u)[k] = FirstOccurrences(s)[k]
    <3> SUFFICES ASSUME NEW k \in 1 .. c
                 PROVE  FirstOccurrences(u)[k] = FirstOccurrences(s)[k]
      OBVIOUS
    <3>1. k \in 1 .. Cardinality(Firsts(u))
      BY <1>4, <2>3
    <3>2. FirstOccurrences(u)[k] = u[InOrder(S)[k]]
      BY <1>5, <2>2, <2>5, <3>1
    <3> QED
      BY <1>1, <1>4, <3>2
  <2>7. FirstOccurrences(u)[c + 1] = t
    <3>1. c + 1 \in 1 .. Cardinality(Firsts(u))
      BY <1>4, <2>3
    <3>2. FirstOccurrences(u)[c + 1] = u[InOrder(Firsts(u))[c + 1]]
      BY <1>5, <3>1
    <3>3. InOrder(Firsts(u))[c + 1] = n + 1
      BY <2>2, <2>5
    <3> QED
      BY <1>1, <3>2, <3>3
  <2> DEFINE w == Append(FirstOccurrences(s), t)
  <2>8. /\ w \in Seq(X) /\ Len(w) = c + 1 /\ w[c + 1] = t
        /\ \A k \in 1 .. c : w[k] = FirstOccurrences(s)[k]
    BY <1>4, AppendProperties
  <2> HIDE DEF w
  <2>9. \A k \in 1 .. c + 1 : FirstOccurrences(u)[k] = w[k]
    BY <1>4, <2>6, <2>7, <2>8
  <2>10. FirstOccurrences(u) = w
    <3>1. Len(FirstOccurrences(u)) = c + 1
      BY <1>5, <2>3
    <3> QED
      BY ONLY <1>5, <2>8, <2>9, <3>1, SeqEqual
  <2> QED
    BY <1>7, <2>10 DEF u, w
<1> QED
  BY <1>6, <1>7

-----------------------------------------------------------------------------
(* The windows of one part under one size. *)

LEMMA MinOfTwo ==
    ASSUME NEW a \in Int, NEW b \in Int
    PROVE  Min({a, b}) = IF a > b THEN b ELSE a
<1>1. {a, b} \in SUBSET Int /\ IsFiniteSet({a, b}) /\ {a, b} # {}
  <2>1. {a, b} = ({} \cup {a}) \cup {b}
    OBVIOUS
  <2>2. IsFiniteSet(({} \cup {a}) \cup {b})
    BY FS_EmptySet, FS_AddElement
  <2> QED
    BY <2>1, <2>2
<1>2. Min({a, b}) \in {a, b} /\ \A y \in {a, b} : Min({a, b}) <= y
  BY <1>1, MinMax
<1> QED
  BY <1>2

LEMMA MaxWithZero ==
    ASSUME NEW a \in Int
    PROVE  Max({0, a}) = OverlapOf(a) /\ OverlapOf(a) \in Nat
<1>1. {0, a} \in SUBSET Int /\ IsFiniteSet({0, a}) /\ {0, a} # {}
  <2>1. {0, a} = ({} \cup {0}) \cup {a}
    OBVIOUS
  <2>2. IsFiniteSet(({} \cup {0}) \cup {a})
    BY FS_EmptySet, FS_AddElement
  <2> QED
    BY <2>1, <2>2
<1>2. Max({0, a}) \in {0, a} /\ \A y \in {0, a} : y <= Max({0, a})
  BY <1>1, MinMax
<1> QED
  BY <1>2 DEF OverlapOf

(* How many windows follow the first one. *)
Extra(n, step, overlap) == (n - step + (step - overlap) - 1) \div (step - overlap)

LEMMA Quotient ==
    ASSUME NEW x \in Nat, NEW d \in Nat \ {0}
    PROVE  /\ x \div d \in Nat
           /\ (x \div d) * d <= x /\ x < (x \div d) * d + d
OBVIOUS

(* Multiples of d up to the q-th. *)
LEMMA Multiples ==
    ASSUME NEW d \in Nat \ {0}, NEW j \in Nat, NEW q \in Nat
    PROVE  /\ j * d \in Nat /\ q * d \in Nat
           /\ (j + 1) * d = j * d + d
           /\ j < q => j * d + d <= q * d
           /\ j <= q => j * d <= q * d
<1>1. j * d \in Nat /\ q * d \in Nat /\ (j + 1) * d = j * d + d
  OBVIOUS
<1>2. ASSUME j <= q PROVE j * d <= q * d
  <2>1. q - j \in Nat /\ q = j + (q - j)
    BY <1>2
  <2>2. (q - j) * d \in Nat /\ q * d = j * d + (q - j) * d
    BY <2>1
  <2> QED
    BY <1>1, <2>2
<1>3. ASSUME j < q PROVE j * d + d <= q * d
  <2>1. q - (j + 1) \in Nat /\ q = (j + 1) + (q - (j + 1))
    BY <1>3
  <2>2. (q - (j + 1)) * d \in Nat /\ q * d = (j + 1) * d + (q - (j + 1)) * d
    BY <2>1
  <2> QED
    BY <1>1, <2>2
<1> QED
  BY <1>1, <1>2, <1>3

(* The j-th window after the first starts j strides in; only the last one  *)
(* reaches the end, and the loop gets from each of the others to the next. *)
LEMMA WindowLoop ==
    ASSUME NEW n \in Nat, NEW step \in Nat \ {0}, NEW overlap \in Nat,
           step < n, overlap < step, NEW j \in 0 .. Extra(n, step, overlap)
    PROVE  LET d == step - overlap
               end == WindowEnd(j * d, step, n)
           IN  /\ Extra(n, step, overlap) \in Nat
               /\ d \in Nat \ {0} /\ j * d \in Nat /\ j * d < n
               /\ end \in Nat /\ j * d < end /\ end <= n
               /\ end = n <=> j = Extra(n, step, overlap)
               /\ end # n => NextStart(end, overlap) = (j + 1) * d
<1> DEFINE d == step - overlap
           x == n - step + d - 1
           q == Extra(n, step, overlap)
           end == WindowEnd(j * d, step, n)
<1>1. d \in Nat \ {0} /\ x \in Nat /\ q = x \div d
  BY DEF Extra
<1>2. q \in Nat /\ q * d <= x /\ x < q * d + d
  BY <1>1, Quotient
<1>3. j \in Nat /\ j <= q
  BY <1>2
<1> DEFINE a == j * d
           z == q * d
<1>4. /\ a \in Nat /\ z \in Nat /\ (j + 1) * d = a + d
      /\ j < q => a + d <= z
      /\ a <= z
  BY <1>1, <1>2, <1>3, Multiples
<1>5. z <= n - step + d - 1 /\ n - step - 1 < z
  <2> HIDE DEF d, q, z
  <2>1. z <= x /\ x < z + d
    BY <1>2 DEF z
  <2> QED
    BY <1>1, <1>4, <2>1
<1> HIDE DEF q, x, a, z
<1>6. d < step \/ d = step
  OBVIOUS
<1>7. a < n
  BY <1>1, <1>4, <1>5, <1>6
<1>8. j < q => a + step < n
  BY <1>1, <1>4, <1>5
<1>9. j = q => a + step >= n
  <2>1. j = q => a = z
    BY DEF a, z
  <2> QED
    BY <1>4, <1>5, <2>1
<1>10. end = IF a + step > n THEN n ELSE a + step
  BY DEF WindowEnd, a
<1> HIDE DEF end
<1>11. end \in Nat /\ a < end /\ end <= n /\ (end = n <=> j = q)
  BY <1>2, <1>3, <1>4, <1>7, <1>8, <1>9, <1>10
<1>12. end # n => NextStart(end, overlap) = a + d
  <2>1. end # n => end = a + step
    BY <1>10
  <2> QED
    BY <1>1, <1>4, <2>1 DEF NextStart
<1> QED
  BY <1>1, <1>2, <1>4, <1>7, <1>11, <1>12 DEF q, a, end

LEMMA WindowTextsShape ==
    ASSUME NEW part \in Text, NEW step \in Nat \ {0}, NEW overlap \in Nat
    PROVE  LET tokens == tokenize(part)
               n == Len(tokens)
               q == Extra(n, step, overlap)
               W == WindowTexts(part, step, overlap)
           IN  /\ n <= step => W = <<TrimSpace(part)>> /\ W \in Seq(Text)
               /\ n > step /\ overlap < step =>
                     /\ W \in Seq(Text) /\ q \in Nat /\ Len(W) = q + 1
                     /\ \A j \in 0 .. q :
                           W[j + 1] = <<SubSeq(tokens, j * (step - overlap) + 1,
                                        WindowEnd(j * (step - overlap), step, n))>>
<1> DEFINE tokens == tokenize(part)
           n == Len(tokens)
           d == step - overlap
           q == Extra(n, step, overlap)
           W == WindowTexts(part, step, overlap)
<1>1. tokens \in Line /\ n \in Nat
  BY tokenizeType
<1>2. ASSUME n <= step PROVE W = <<TrimSpace(part)>> /\ W \in Seq(Text)
  BY <1>2, TrimSpaceType DEF WindowTexts
<1>3. ASSUME n > step, overlap < step
      PROVE  /\ W \in Seq(Text) /\ q \in Nat /\ Len(W) = q + 1
             /\ \A j \in 0 .. q :
                   W[j + 1] = <<SubSeq(tokens, j * d + 1, WindowEnd(j * d, step, n))>>
  <2> DEFINE Cut(j) == <<SubSeq(tokens, j * d + 1, WindowEnd(j * d, step, n))>>
             To(k) == <<SubSeq(tokens, (k - 1) * d + 1, Min({(k - 1) * d + step, n}))>>
  <2>1. W = [k \in 1 .. q + 1 |-> To(k)]
    BY <1>1, <1>3 DEF WindowTexts, Extra
  <2>2. q \in Nat
    <3>1. d \in Nat \ {0} /\ n - step + d - 1 \in Nat
      BY <1>1, <1>3
    <3> QED
      BY <3>1, Quotient DEF Extra
  <2>3. ASSUME NEW j \in 0 .. q PROVE To(j + 1) = Cut(j) /\ Cut(j) \in Text
    <3>1. /\ d \in Nat \ {0} /\ j * d \in Nat /\ j * d < n
          /\ WindowEnd(j * d, step, n) \in Nat /\ WindowEnd(j * d, step, n) <= n
      BY <1>1, <1>3, WindowLoop
    <3>2. (j + 1) - 1 = j
      BY <2>2
    <3>3. Min({j * d + step, n}) = WindowEnd(j * d, step, n)
      <4>1. j * d + step \in Int /\ n \in Int
        BY <1>1, <3>1
      <4> QED
        BY <4>1, MinOfTwo DEF WindowEnd
    <3>4. SubSeq(tokens, j * d + 1, WindowEnd(j * d, step, n)) \in Line
      <4> DEFINE a == j * d + 1
                 b == WindowEnd(j * d, step, n)
      <4>1. a \in Int /\ b \in Int /\ a >= 1 /\ b <= n
        BY <3>1
      <4> HIDE DEF a, b
      <4>2. \A i \in a .. b : tokens[i] \in Word
        BY <1>1, <4>1 DEF Line
      <4>3. SubSeq(tokens, a, b) \in Seq(Word)
        BY <4>1, <4>2, SubSeqProperties
      <4> QED
        BY <4>3 DEF Line, a, b
    <3>5. Cut(j) \in Text
      BY <3>4 DEF Text
    <3>6. To(j + 1) = Cut(j)
      BY <3>2, <3>3
    <3> QED
      BY <3>5, <3>6
  <2> HIDE DEF To, Cut, q
  <2>4. \A k \in 1 .. q + 1 : k - 1 \in 0 .. q /\ (k - 1) + 1 = k
    BY <2>2
  <2>5. \A k \in 1 .. q + 1 : To(k) \in Text
    BY <2>3, <2>4
  <2>6. W \in Seq(Text) /\ Len(W) = q + 1
    BY <2>1, <2>2, <2>5
  <2>7. \A j \in 0 .. q : W[j + 1] = Cut(j)
    BY <2>1, <2>2, <2>3
  <2> QED
    BY <2>2, <2>6, <2>7 DEF Cut
<1> QED
  BY <1>2, <1>3

(* What is cut from a line of words is a line. *)
LEMMA CutType ==
    ASSUME NEW tokens \in Line, NEW a \in Nat, NEW b \in Nat, b <= Len(tokens)
    PROVE  <<SubSeq(tokens, a + 1, b)>> \in Text /\ SubSeq(tokens, a + 1, b) \in Line
<1>1. a + 1 \in Int /\ b \in Int /\ \A i \in a + 1 .. b : tokens[i] \in Word
  BY DEF Line
<1>2. SubSeq(tokens, a + 1, b) \in Seq(Word)
  BY <1>1, SubSeqProperties
<1> QED
  BY <1>2 DEF Line, Text

(* Each token is in a window, or in the part that is kept whole. *)
LEMMA TokenInWindow ==
    ASSUME NEW part \in Text, NEW step \in Nat \ {0}, NEW overlap \in Nat,
           Len(tokenize(part)) <= step \/ overlap < step,
           NEW k \in 1 .. Len(tokenize(part))
    PROVE  \E first \in 1 .. k, last \in k .. Len(tokenize(part)) :
              /\ last - first < step
              /\ \E text \in ToSet(WindowTexts(part, step, overlap)) :
                    tokenize(text) = SubSeq(tokenize(part), first, last)
<1> DEFINE tokens == tokenize(part)
           n == Len(tokens)
           W == WindowTexts(part, step, overlap)
<1>1. tokens \in Line /\ tokens \in Seq(Word) /\ n \in Nat /\ k \in 1 .. n
  BY tokenizeType DEF Line
<1>2. CASE n <= step
  <2>1. W = <<TrimSpace(part)>>
    BY <1>1, <1>2, WindowTextsShape
  <2>2. TrimSpace(part) \in ToSet(W)
    BY <2>1 DEF ToSet
  <2>3. tokenize(TrimSpace(part)) = SubSeq(tokens, 1, n)
    BY <1>1, TokensTrimmed, SubSeqFull
  <2>4. 1 \in 1 .. k /\ n \in k .. n /\ n - 1 < step
    BY <1>1, <1>2
  <2> QED
    BY <2>2, <2>3, <2>4
<1>3. CASE n > step
  <2> DEFINE d == step - overlap
             q == Extra(n, step, overlap)
             m == (k - 1) \div d
             j == IF m <= q THEN m ELSE q
             end == WindowEnd(j * d, step, n)
             line == SubSeq(tokens, j * d + 1, end)
  <2>1. overlap < step /\ d \in Nat \ {0} /\ k - 1 \in Nat
    BY <1>1, <1>3
  <2>2. /\ q \in Nat /\ Len(W) = q + 1 /\ DOMAIN W = 1 .. q + 1
        /\ \A i \in 0 .. q :
              W[i + 1] = <<SubSeq(tokens, i * d + 1, WindowEnd(i * d, step, n))>>
    <3>1. /\ W \in Seq(Text) /\ q \in Nat /\ Len(W) = q + 1
          /\ \A i \in 0 .. q :
                W[i + 1] = <<SubSeq(tokens, i * d + 1, WindowEnd(i * d, step, n))>>
      BY <1>3, <2>1, WindowTextsShape
    <3> HIDE DEF W, q
    <3>2. DOMAIN W = 1 .. q + 1
      BY <3>1
    <3> QED
      BY <3>1, <3>2
  <2>3. m \in Nat /\ m * d <= k - 1 /\ k - 1 < m * d + d
    <3> HIDE DEF d
    <3> QED
      BY <2>1, Quotient
  <2> HIDE DEF q, m
  <2>4. j \in 0 .. q /\ j \in Nat
    BY <2>2, <2>3
  <2>5. /\ j * d \in Nat /\ j * d < n /\ end \in Nat /\ j * d < end /\ end <= n
        /\ (end = n <=> j = q)
    <3> HIDE DEF j
    <3> QED
      BY <1>1, <1>3, <2>1, <2>4, WindowLoop DEF q
  <2>6. m * d \in Nat /\ j * d <= m * d
    <3>1. j <= m
      BY <2>2, <2>3
    <3> HIDE DEF j, d
    <3> QED
      BY <2>1, <2>3, <2>4, <3>1, Multiples
  <2>7. k <= end
    <3>1. CASE m <= q
      <4> DEFINE a == m * d
      <4>1. a \in Nat /\ k - 1 < a + d /\ d <= step /\ end = WindowEnd(a, step, n)
        BY <2>1, <2>3, <2>6, <3>1
      <4> HIDE DEF a, end
      <4> QED
        BY <1>1, <2>1, <4>1 DEF WindowEnd
    <3>2. CASE ~(m <= q)
      BY <1>1, <2>5, <3>2
    <3> QED
      BY <3>1, <3>2
  <2> DEFINE a == j * d
  <2>8. a + 1 \in 1 .. k /\ end \in k .. n
    <3>1. a \in Nat /\ a <= k - 1
      <4> DEFINE b == m * d
      <4>1. a \in Nat /\ b \in Nat /\ a <= b /\ b <= k - 1
        BY <2>3, <2>5, <2>6
      <4> HIDE DEF a, b
      <4> QED
        BY <2>1, <4>1
    <3> HIDE DEF a, end
    <3> QED
      BY <1>1, <2>5, <2>7, <3>1
  <2>9. end - (a + 1) < step
    <3>1. a \in Nat /\ end = WindowEnd(a, step, n)
      BY <2>5
    <3> HIDE DEF a, end
    <3> QED
      BY <1>1, <3>1 DEF WindowEnd
  <2>10. <<line>> \in ToSet(W)
    <3>1. j + 1 \in DOMAIN W /\ W[j + 1] = <<line>>
      <4> HIDE DEF W, j, d
      <4> QED
        BY <2>2, <2>4
    <3> HIDE DEF W, j
    <3> QED
      BY <3>1 DEF ToSet
  <2>11. tokenize(<<line>>) = line
    <3>1. a \in Nat /\ end \in Nat /\ end <= Len(tokens)
      BY <2>5
    <3>2. line = SubSeq(tokens, a + 1, end)
      OBVIOUS
    <3> HIDE DEF a, end, tokens
    <3>3. SubSeq(tokens, a + 1, end) \in Line
      BY <1>1, <3>1, CutType
    <3> HIDE DEF line
    <3> QED
      BY <3>2, <3>3, OneLine
  <2>12. tokenize(<<line>>) = SubSeq(tokens, a + 1, end)
    BY <2>11
  <2> HIDE DEF a, end, line, d
  <2> QED
    BY <2>8, <2>9, <2>10, <2>12
<1>4. n <= step \/ n > step
  BY <1>1
<1> QED
  BY <1>2, <1>3, <1>4

-----------------------------------------------------------------------------
(* What a file's blocks write, and the sections that are cut from it. *)

Lines == Text \ {<<>>}

LEMMA JoinWordsType ==
    ASSUME NEW l \in Line, NEW m \in Line
    PROVE  JoinWords(l, m) \in Line
<1>1. CASE l = <<>> \/ m = <<>>
  BY <1>1, ConcatProperties DEF JoinWords, Line
<1>2. CASE l # <<>> /\ m # <<>>
  <2>1. l \in Seq(Word) /\ m \in Seq(Word) /\ Len(l) \in Nat \ {0} /\ Len(m) \in Nat \ {0}
    BY <1>2 DEF Line
  <2>2. Front(l) \in Seq(Word)
    <3>1. \A i \in 1 .. Len(l) - 1 : l[i] \in Word
      BY <2>1
    <3>2. 1 \in Int /\ Len(l) - 1 \in Int
      BY <2>1
    <3> QED
      BY <3>1, <3>2, SubSeqProperties DEF Front
  <2>3. Last(l) \in Word /\ Head(m) \in Word /\ Tail(m) \in Seq(Word)
    BY <1>2, <2>1, HeadTailProperties DEF Last
  <2>4. Last(l) \o Head(m) \in Word
    BY <2>3, ConcatProperties DEF Word
  <2>5. <<Last(l) \o Head(m)>> \in Seq(Word)
    BY <2>4
  <2>6. Front(l) \o <<Last(l) \o Head(m)>> \in Seq(Word)
    BY <2>2, <2>5, ConcatProperties
  <2>7. (Front(l) \o <<Last(l) \o Head(m)>>) \o Tail(m) \in Seq(Word)
    BY <2>3, <2>6, ConcatProperties
  <2> QED
    BY <1>2, <2>7 DEF JoinWords, Line
<1> QED
  BY <1>1, <1>2

LEMMA JoinLinesType ==
    ASSUME NEW b \in Lines, NEW t \in Lines
    PROVE  JoinLines(b, t) \in Lines
<1>1. /\ b \in Seq(Line) /\ t \in Seq(Line) /\ b # <<>> /\ t # <<>>
      /\ Len(b) \in Nat \ {0} /\ Len(t) \in Nat \ {0}
  BY DEF Lines, Text
<1>2. Front(b) \in Seq(Line)
  <2>1. \A i \in 1 .. Len(b) - 1 : b[i] \in Line
    BY <1>1
  <2>2. 1 \in Int /\ Len(b) - 1 \in Int
    BY <1>1
  <2> QED
    BY <2>1, <2>2, SubSeqProperties DEF Front
<1>3. Last(b) \in Line /\ Head(t) \in Line /\ Tail(t) \in Seq(Line)
  BY <1>1, HeadTailProperties DEF Last
<1> DEFINE w == JoinWords(Last(b), Head(t))
<1>4. w \in Line
  BY <1>3, JoinWordsType
<1> HIDE DEF w
<1>5. <<w>> \in Seq(Line) /\ Len(<<w>>) = 1
  BY <1>4
<1>6. /\ Front(b) \o <<w>> \in Seq(Line)
      /\ Len(Front(b) \o <<w>>) = Len(Front(b)) + 1 /\ Len(Front(b)) \in Nat
  BY <1>2, <1>5, ConcatProperties
<1>7. /\ (Front(b) \o <<w>>) \o Tail(t) \in Seq(Line)
      /\ Len((Front(b) \o <<w>>) \o Tail(t)) = Len(Front(b)) + 1 + Len(Tail(t))
      /\ Len(Tail(t)) \in Nat
  BY <1>3, <1>6, ConcatProperties
<1>8. (Front(b) \o <<w>>) \o Tail(t) # <<>>
  BY <1>6, <1>7
<1>9. JoinLines(b, t) = (Front(b) \o <<w>>) \o Tail(t)
  BY DEF JoinLines, w
<1> QED
  BY <1>7, <1>8, <1>9 DEF Lines, Text

LEMMA EmptyType == Empty \in Lines
<1>1. <<>> \in Line
  BY DEF Line
<1> QED
  BY <1>1 DEF Empty, Lines, Text

LEMMA WrittenType ==
    ASSUME NEW b \in Block
    PROVE  /\ Written(b) \in Lines
           /\ b.kind = "heading" => Written(b) = b.text /\ Head(b.text) \in Line
<1>1. /\ b.kind \in {"heading", "prose", "code", "silent"} /\ b.text \in Text
      /\ b.kind # "silent" => b.text # <<>>
  BY DEF Block
<1>2. CASE b.kind = "silent"
  BY <1>2, EmptyType DEF Written
<1>3. CASE b.kind = "code"
  <2>1. Fence \in Line
    <3>1. <<"fence">> \in Word
      BY MarkdownAssumption DEF Word
    <3> QED
      BY <3>1 DEF Fence, Line
  <2>2. <<>> \in Line
    BY DEF Line
  <2>3. <<Fence>> \in Seq(Line) /\ <<<<>>, Fence, <<>>>> \in Seq(Line) /\ b.text \in Seq(Line)
        /\ Len(<<Fence>>) = 1
    BY <1>1, <2>1, <2>2 DEF Text
  <2>4. /\ <<Fence>> \o b.text \in Seq(Line)
        /\ Len(<<Fence>> \o b.text) = 1 + Len(b.text) /\ Len(b.text) \in Nat
    BY <2>3, ConcatProperties
  <2>5. /\ (<<Fence>> \o b.text) \o <<<<>>, Fence, <<>>>> \in Seq(Line)
        /\ Len((<<Fence>> \o b.text) \o <<<<>>, Fence, <<>>>>)
              = 1 + Len(b.text) + Len(<<<<>>, Fence, <<>>>>)
        /\ Len(<<<<>>, Fence, <<>>>>) \in Nat
    BY <2>3, <2>4, ConcatProperties
  <2>6. (<<Fence>> \o b.text) \o <<<<>>, Fence, <<>>>> # <<>>
    BY <2>4, <2>5
  <2>7. Written(b) = (<<Fence>> \o b.text) \o <<<<>>, Fence, <<>>>>
    BY <1>3 DEF Written
  <2> QED
    BY <1>3, <2>5, <2>6, <2>7 DEF Lines, Text
<1>4. CASE b.kind = "heading" \/ b.kind = "prose"
  <2>1. Written(b) = b.text
    BY <1>4 DEF Written
  <2>2. Head(b.text) \in Line
    BY <1>1, <1>4, HeadTailProperties DEF Text
  <2> QED
    BY <1>1, <1>4, <2>1, <2>2 DEF Lines
<1> QED
  BY <1>1, <1>2, <1>3, <1>4

(* What is written, line by line, from block m on. *)
IsWritten(g, f, m, n) ==
    g = [i \in m - 1 .. n |-> IF i = m - 1 THEN Empty ELSE JoinLines(g[i - 1], Written(f[i]))]

LEMMA WrittenByDef ==
    ASSUME NEW f, NEW m, NEW n
    PROVE  WrittenBy(f, m, n) = (CHOOSE g : IsWritten(g, f, m, n))[n]
BY DEF WrittenBy, IsWritten

LEMMA WrittenStep ==
    ASSUME NEW f, NEW m, NEW n, NEW g, IsWritten(g, f, m, n), NEW i \in m - 1 .. n
    PROVE  g[i] = IF i = m - 1 THEN Empty ELSE JoinLines(g[i - 1], Written(f[i]))
<1> DEFINE G(j) == IF j = m - 1 THEN Empty ELSE JoinLines(g[j - 1], Written(f[j]))
<1>1. g = [j \in m - 1 .. n |-> G(j)]
  BY DEF IsWritten
<1> HIDE DEF G
<1>2. g[i] = G(i)
  BY <1>1
<1> QED
  BY <1>2 DEF G

LEMMA WrittenExists ==
    ASSUME NEW f \in Seq(Block), NEW m \in 1 .. Len(f) + 1, NEW n \in m - 1 .. Len(f)
    PROVE  \E g : IsWritten(g, f, m, n)
<1> DEFINE a == m - 1
           F == [i \in a .. n |-> [x \in Lines |->
                    IF i = a THEN x ELSE JoinLines(x, Written(f[i]))]]
<1>1. /\ a \in Int /\ n \in Int /\ a <= n
      /\ \A i \in a .. n : i # a => f[i] \in Block
  OBVIOUS
<1>2. \A i \in a .. n : \A x \in Lines :
          (IF i = a THEN x ELSE JoinLines(x, Written(f[i]))) \in Lines
  BY <1>1, WrittenType, JoinLinesType
<1>3. F \in [a .. n -> [Lines -> Lines]]
  BY <1>2
<1> HIDE DEF F
<1>4. PICK g \in [a .. n -> Lines] : Follows(g, F, Empty, a, n)
  BY ONLY <1>1, <1>3, EmptyType, Recursion, Zenon
<1>5. ASSUME NEW i \in a .. n
      PROVE  g[i] = IF i = a THEN Empty ELSE JoinLines(g[i - 1], Written(f[i]))
  <2>1. CASE i = a
    BY <2>1, <1>4 DEF Follows
  <2>2. CASE i # a
    <3>1. g[i - 1] \in Lines
      <4>1. i - 1 \in a .. n
        BY <1>1, <2>2
      <4> QED
        BY <4>1
    <3>2. g[i] = F[i][g[i - 1]]
      BY <2>2, <1>4 DEF Follows
    <3>3. F[i][g[i - 1]] = JoinLines(g[i - 1], Written(f[i]))
      BY <2>2, <3>1 DEF F
    <3> QED
      BY <3>2, <3>3, <2>2
  <2> QED
    BY <2>1, <2>2
<1> DEFINE G(i) == IF i = a THEN Empty ELSE JoinLines(g[i - 1], Written(f[i]))
<1>6. \A i \in a .. n : g[i] = G(i)
  BY <1>5
<1> HIDE DEF G
<1>7. g = [i \in a .. n |-> G(i)]
  BY <1>6
<1> QED
  BY <1>7 DEF IsWritten, G

LEMMA WrittenByEmpty ==
    ASSUME NEW f \in Seq(Block), NEW m \in 1 .. Len(f) + 1
    PROVE  WrittenBy(f, m, m - 1) = Empty
<1>1. m - 1 \in m - 1 .. Len(f) /\ m - 1 \in m - 1 .. m - 1
  OBVIOUS
<1>2. PICK g : IsWritten(g, f, m, m - 1) /\ WrittenBy(f, m, m - 1) = g[m - 1]
  BY <1>1, WrittenExists, WrittenByDef
<1> QED
  BY <1>1, <1>2, WrittenStep

LEMMA WrittenByNext ==
    ASSUME NEW f \in Seq(Block), NEW m \in 1 .. Len(f) + 1, NEW n \in m .. Len(f)
    PROVE  WrittenBy(f, m, n) = JoinLines(WrittenBy(f, m, n - 1), Written(f[n]))
<1>1. n \in m - 1 .. Len(f) /\ n - 1 \in m - 1 .. Len(f) /\ m - 1 \in Int /\ n - 1 \in Int
  OBVIOUS
<1>2. PICK g : IsWritten(g, f, m, n) /\ WrittenBy(f, m, n) = g[n]
  BY <1>1, WrittenExists, WrittenByDef
<1>3. PICK h : IsWritten(h, f, m, n - 1) /\ WrittenBy(f, m, n - 1) = h[n - 1]
  BY <1>1, WrittenExists, WrittenByDef
<1> DEFINE S == {i \in Int : g[i] = h[i]}
<1>4. m - 1 \in S
  <2>1. m - 1 \in m - 1 .. n /\ m - 1 \in m - 1 .. n - 1
    OBVIOUS
  <2>2. g[m - 1] = Empty
    BY <1>2, <2>1, WrittenStep
  <2>3. h[m - 1] = Empty
    BY <1>3, <2>1, WrittenStep
  <2> QED
    BY <1>1, <2>2, <2>3
<1>5. ASSUME NEW i \in m - 1 .. n - 1, i # m - 1, i - 1 \in S PROVE i \in S
  <2>1. i \in m - 1 .. n /\ i \in Int
    OBVIOUS
  <2>2. g[i] = JoinLines(g[i - 1], Written(f[i]))
    BY ONLY <1>2, <1>5, <2>1, WrittenStep
  <2>3. h[i] = JoinLines(h[i - 1], Written(f[i]))
    BY ONLY <1>3, <1>5, WrittenStep
  <2>4. g[i - 1] = h[i - 1]
    BY <1>5
  <2> QED
    BY <2>1, <2>2, <2>3, <2>4
<1> HIDE DEF S
<1>6. \A i \in m - 1 .. n - 1 : i \in S
  BY <1>1, <1>4, <1>5, Along, Zenon
<1>7. g[n - 1] = h[n - 1]
  <2>1. n - 1 \in m - 1 .. n - 1
    OBVIOUS
  <2> QED
    BY <1>6, <2>1 DEF S
<1>8. g[n] = JoinLines(g[n - 1], Written(f[n]))
  <2>1. n \in m - 1 .. n /\ n # m - 1
    OBVIOUS
  <2> QED
    BY ONLY <1>2, <2>1, WrittenStep
<1> QED
  BY <1>2, <1>3, <1>7, <1>8

LEMMA WrittenByType ==
    ASSUME NEW f \in Seq(Block), NEW m \in 1 .. Len(f) + 1, NEW n \in m - 1 .. Len(f)
    PROVE  WrittenBy(f, m, n) \in Lines
<1> DEFINE S == {i \in Int : WrittenBy(f, m, i) \in Lines}
<1>1. m - 1 \in S
  BY WrittenByEmpty, EmptyType
<1>2. ASSUME NEW i \in m - 1 .. Len(f), i # m - 1, i - 1 \in S PROVE i \in S
  <2>1. i \in m .. Len(f) /\ i \in Int /\ f[i] \in Block
    BY <1>2
  <2>2. WrittenBy(f, m, i) = JoinLines(WrittenBy(f, m, i - 1), Written(f[i]))
    BY <2>1, WrittenByNext
  <2>3. WrittenBy(f, m, i - 1) \in Lines /\ Written(f[i]) \in Lines
    BY <1>2, <2>1, WrittenType
  <2> QED
    BY <2>1, <2>2, <2>3, JoinLinesType
<1> HIDE DEF S
<1>3. \A i \in m - 1 .. Len(f) : i \in S
  <2>1. m - 1 \in Int /\ Len(f) \in Int
    OBVIOUS
  <2> QED
    BY <1>1, <1>2, <2>1, Along, Zenon
<1> QED
  BY <1>3 DEF S

-----------------------------------------------------------------------------
(* The state between two blocks of a file, and between two windows. *)

HeadsTo(f, n) == InOrder({i \in 1 .. n : f[i].kind = "heading"})
From(heads, k) == IF k = 1 THEN 1 ELSE heads[k]
SectionAt(f, heads, k, last) ==
    [heading |-> Head(f[heads[k]].text),
     text    |-> TrimSpace(WrittenBy(f, From(heads, k), last))]

(* The sections the walk has closed; the last heading's is still open. *)
ClosedTo(f, n) ==
    LET heads == HeadsTo(f, n)
    IN  [k \in 1 .. Len(heads) - 1 |-> SectionAt(f, heads, k, heads[k + 1] - 1)]

(* The buffer holds what the open section has so far, or what precedes the *)
(* first heading.                                                          *)
Walked ==
    LET heads == HeadsTo(file, at - 1)
    IN  /\ file \in Files /\ at \in 1 .. Len(file) + 1
        /\ IF heads = <<>>
           THEN /\ cur = <<>> /\ secs = <<>>
                /\ buf = WrittenBy(file, 1, at - 1)
           ELSE /\ cur = <<Head(file[heads[Len(heads)]].text)>>
                /\ secs = ClosedTo(file, at - 1)
                /\ buf = WrittenBy(file, From(heads, Len(heads)), at - 1)

Parsed ==
    /\ secs \in Seq(Section) /\ cfg \in Settings
    /\ pc \in {"parse", "failed"} => Walked
    /\ pc \notin {"parse", "failed"} => secs = Sections

Chunk == [id : Nat, text : Text, tokens : Nat, size : Nat]

Numbered ==
    /\ chunks \in Seq(Chunk) /\ nextID = Len(chunks) /\ seen = ToSet(Texts)
    /\ \A i \in DOMAIN chunks : chunks[i].id = i - 1

-----------------------------------------------------------------------------
(* How far the loops are, in the sequences they run over. *)
Ps == PartsOf(secs[sec])
Sz == SizesOf(cfg)
PartsDone == Len(Ps) - Len(parts)
SizesDone == Len(Sz) - Len(sizes)
Tokens == tokenize(Head(parts))
Size == StepOf(Head(sizes))
Overlap == OverlapOf(cfg.overlap)
Stride == Size - Overlap

(* The part needs windows that do not get on: the code runs forever. *)
Stuck == sizes # <<>> /\ Len(Tokens) > Size /\ Overlap >= Size

InSection == sec <= Len(secs) /\ RestOf(parts, Ps)

InPart ==
    /\ parts # <<>> /\ Tokens # <<>>
    /\ RestOf(sizes, Sz)
    /\ start \in 0 .. Len(Tokens) - 1
    /\ sizes = <<>> \/ Stuck \/ Len(Tokens) <= Size => start = 0

Placed ==
    /\ pc \in {"parse", "failed", "toc", "section", "part", "size", "done"}
    /\ sec \in 1 .. Len(secs) + 1
    /\ pc \in {"parse", "failed", "toc"} => sec = 1 /\ chunks = <<>>
    /\ pc = "done" => sec = Len(secs) + 1
    /\ pc \in {"part", "size"} => InSection
    /\ pc = "size" => InPart

(* The texts that were due so far, repeated ones included. *)
TocTexts == IF cfg.embedTOC /\ TOC(secs) # <<>> THEN <<TOC(secs)>> ELSE <<>>
HeadTexts(section) ==
    IF cfg.embedHeadings /\ section.heading # <<>> THEN <<<<section.heading>>>> ELSE <<>>
BySection == [i \in DOMAIN secs |-> SectionTexts(secs[i])]
ByPart(ps) == [i \in DOMAIN ps |-> PartTexts(ps[i])]
BySize(part) == [i \in DOMAIN Sz |-> WindowTexts(part, StepOf(Sz[i]), Overlap)]

BeforeSection == TocTexts \o Upto(BySection, sec - 1)
BeforePart == (BeforeSection \o HeadTexts(secs[sec])) \o Upto(ByPart(Ps), PartsDone)
BeforeSize == BeforePart \o Upto(BySize(Head(parts)), SizesDone)
Window == WindowTexts(Head(parts), Size, Overlap)

(* What was passed had an end: its windows get on, under every size. *)
SizeEnds(part, size) == Len(tokenize(part)) <= StepOf(size) \/ Overlap < StepOf(size)
PartEnds(part) == \A i \in DOMAIN Sz : SizeEnds(part, Sz[i])
SectionEnds(section) == \A k \in DOMAIN PartsOf(section) : PartEnds(PartsOf(section)[k])
Passed ==
    /\ \A i \in 1 .. sec - 1 : SectionEnds(secs[i])
    /\ pc \in {"part", "size"} => \A i \in 1 .. PartsDone : PartEnds(Ps[i])
    /\ pc = "size" => \A i \in 1 .. SizesDone : SizeEnds(Head(parts), Sz[i])

(* Each of them was kept once. *)
Kept ==
    /\ pc \in {"section", "done"} => Texts = FirstOccurrences(BeforeSection)
    /\ pc = "part" => Texts = FirstOccurrences(BeforePart)
    /\ pc = "size" /\ start = 0 /\ ~Stuck => Texts = FirstOccurrences(BeforeSize)
    /\ pc = "size" /\ start > 0 =>
          \E j \in 1 .. Extra(Len(Tokens), Size, Overlap) :
              /\ start = j * Stride
              /\ Texts = FirstOccurrences(BeforeSize \o SubSeq(Window, 1, j))

IInv == Parsed /\ Numbered /\ Placed /\ Passed /\ Kept

-----------------------------------------------------------------------------
(* The headings among the first n blocks, and what is cut at them. *)

LEMMA HeadsType ==
    ASSUME NEW f \in Seq(Block), NEW n \in 0 .. Len(f)
    PROVE  /\ Len(HeadsTo(f, n)) \in Nat /\ DOMAIN HeadsTo(f, n) = 1 .. Len(HeadsTo(f, n))
           /\ HeadsTo(f, n) \in Seq(1 .. n)
           /\ \A k \in 1 .. Len(HeadsTo(f, n)) :
                 /\ HeadsTo(f, n)[k] \in 1 .. n
                 /\ f[HeadsTo(f, n)[k]] \in Block
                 /\ f[HeadsTo(f, n)[k]].kind = "heading"
                 /\ k + 1 <= Len(HeadsTo(f, n)) => HeadsTo(f, n)[k] < HeadsTo(f, n)[k + 1]
<1> DEFINE S == {i \in 1 .. n : f[i].kind = "heading"}
           heads == InOrder(S)
<1>1. S \in SUBSET (1 .. n) /\ S \in SUBSET Int /\ S \in SUBSET (DOMAIN f)
      /\ \A i \in S : f[i].kind = "heading" /\ f[i] \in Block
  OBVIOUS
<1>2. IsFiniteSet(S)
  BY <1>1, SubsetOfDomain
<1>3. heads = HeadsTo(f, n)
  BY DEF HeadsTo
<1> HIDE DEF S
<1>4. /\ Cardinality(S) \in Nat
      /\ DOMAIN heads = 1 .. Cardinality(S)
      /\ heads \in Seq(S) /\ Len(heads) = Cardinality(S)
      /\ \A k \in 1 .. Cardinality(S) : heads[k] \in S
  BY <1>1, <1>2, InOrderAt
<1>5. heads \in Seq(1 .. n)
  BY <1>1, <1>4, SeqMonotonic
<1>6. ASSUME NEW k \in 1 .. Cardinality(S), k + 1 <= Cardinality(S)
      PROVE  heads[k] < heads[k + 1]
  <2>1. k + 1 \in 1 .. Cardinality(S)
    BY <1>4, <1>6
  <2> QED
    BY <1>1, <1>2, <2>1, InOrderIncreasing
<1> HIDE DEF heads
<1> QED
  BY <1>1, <1>3, <1>4, <1>5, <1>6

LEMMA HeadsNone == ASSUME NEW f PROVE HeadsTo(f, 0) = <<>>
<1>1. {i \in 1 .. 0 : f[i].kind = "heading"} = {}
  OBVIOUS
<1> QED
  BY <1>1, InOrderEmpty DEF HeadsTo

LEMMA HeadsNext ==
    ASSUME NEW f \in Seq(Block), NEW n \in 1 .. Len(f)
    PROVE  HeadsTo(f, n) = IF f[n].kind = "heading" THEN Append(HeadsTo(f, n - 1), n)
                           ELSE HeadsTo(f, n - 1)
<1> DEFINE S == {i \in 1 .. n - 1 : f[i].kind = "heading"}
           T == {i \in 1 .. n : f[i].kind = "heading"}
<1>1. n \in Int /\ \A i \in 1 .. n : i \in 1 .. n - 1 \/ i = n
  OBVIOUS
<1>2. S \in SUBSET Int /\ S \in SUBSET (DOMAIN f) /\ \A i \in S : i < n
  OBVIOUS
<1>3. IsFiniteSet(S)
  BY <1>2, SubsetOfDomain
<1>4. CASE f[n].kind = "heading"
  <2>1. T = S \cup {n}
    BY <1>1, <1>4
  <2> HIDE DEF S, T
  <2>2. InOrder(T) = Append(InOrder(S), n)
    BY <1>1, <1>2, <1>3, <2>1, InOrderNext
  <2> QED
    BY <1>4, <2>2 DEF HeadsTo, S, T
<1>5. CASE f[n].kind # "heading"
  <2>1. T = S
    BY <1>1, <1>5
  <2> QED
    BY <1>5, <2>1 DEF HeadsTo
<1> QED
  BY <1>4, <1>5

LEMMA SectionAtType ==
    ASSUME NEW f \in Seq(Block), NEW n \in 0 .. Len(f), NEW k \in 1 .. Len(HeadsTo(f, n)),
           NEW last \in Int, From(HeadsTo(f, n), k) - 1 <= last, last <= n
    PROVE  /\ From(HeadsTo(f, n), k) \in 1 .. n
           /\ SectionAt(f, HeadsTo(f, n), k, last) \in Section
<1> DEFINE heads == HeadsTo(f, n)
           m == From(heads, k)
<1>1. heads[k] \in 1 .. n /\ f[heads[k]] \in Block /\ f[heads[k]].kind = "heading"
  BY HeadsType
<1>2. m \in 1 .. n
  BY <1>1 DEF From
<1> HIDE DEF m
<1>3. m \in 1 .. Len(f) + 1 /\ last \in m - 1 .. Len(f)
  BY <1>2 DEF m
<1>4. WrittenBy(f, m, last) \in Lines
  BY <1>3, WrittenByType
<1>5. TrimSpace(WrittenBy(f, m, last)) \in Text
  BY <1>4, TrimSpaceType DEF Lines
<1>6. Head(f[heads[k]].text) \in Line
  BY <1>1, WrittenType
<1> QED
  BY <1>2, <1>5, <1>6 DEF SectionAt, Section, m

LEMMA ClosedType ==
    ASSUME NEW f \in Seq(Block), NEW n \in 0 .. Len(f), HeadsTo(f, n) # <<>>
    PROVE  /\ ClosedTo(f, n) \in Seq(Section)
           /\ Len(ClosedTo(f, n)) = Len(HeadsTo(f, n)) - 1
<1> DEFINE heads == HeadsTo(f, n)
           c == Len(heads) - 1
           At(k) == SectionAt(f, heads, k, heads[k + 1] - 1)
<1>1. c \in Nat
  <2>1. heads \in Seq(1 .. n)
    BY HeadsType
  <2> QED
    BY <2>1
<1>2. ASSUME NEW k \in 1 .. c PROVE At(k) \in Section
  <2>1. k \in 1 .. Len(heads) /\ k + 1 \in 1 .. Len(heads) /\ k + 1 <= Len(heads)
    BY <1>1
  <2>2. heads[k] \in 1 .. n /\ heads[k + 1] \in 1 .. n /\ heads[k] < heads[k + 1]
    BY <2>1, HeadsType
  <2>3. heads[k + 1] - 1 \in Int /\ From(heads, k) - 1 <= heads[k + 1] - 1
        /\ heads[k + 1] - 1 <= n
    BY <2>2 DEF From
  <2> QED
    BY <2>1, <2>3, SectionAtType
<1>3. ClosedTo(f, n) = [k \in 1 .. c |-> At(k)]
  BY DEF ClosedTo
<1> HIDE DEF At, c
<1> QED
  BY <1>1, <1>2, <1>3 DEF c

LEMMA ClosedNext ==
    ASSUME NEW f \in Seq(Block), NEW n \in 1 .. Len(f), HeadsTo(f, n - 1) # <<>>,
           f[n].kind = "heading"
    PROVE  LET heads == HeadsTo(f, n - 1)
           IN  ClosedTo(f, n) =
                  Append(ClosedTo(f, n - 1), SectionAt(f, heads, Len(heads), n - 1))
<1> DEFINE heads == HeadsTo(f, n - 1)
           next == HeadsTo(f, n)
           c == Len(heads)
           new == SectionAt(f, heads, c, n - 1)
<1>1. n - 1 \in 0 .. Len(f) /\ n \in 0 .. Len(f)
  OBVIOUS
<1>2. /\ heads \in Seq(Int) /\ c \in Nat \ {0}
      /\ \A k \in 1 .. c : heads[k] \in 1 .. n - 1
  <2>1. heads \in Seq(1 .. n - 1) /\ \A k \in 1 .. c : heads[k] \in 1 .. n - 1
    BY <1>1, HeadsType
  <2>2. heads \in Seq(Int)
    BY <2>1, SeqMonotonic
  <2> QED
    BY <2>1, <2>2
<1>3. next = Append(heads, n)
  BY HeadsNext
<1> HIDE DEF heads, next
<1>4. /\ Len(next) = c + 1 /\ next[c + 1] = n
      /\ \A k \in 1 .. c : next[k] = heads[k]
  BY <1>2, <1>3, AppendProperties
<1> DEFINE At(k) == SectionAt(f, next, k, next[k + 1] - 1)
<1>5. ClosedTo(f, n) = [k \in 1 .. c |-> At(k)]
  <2>1. Len(next) - 1 = c
    BY <1>2, <1>4
  <2> QED
    BY <2>1 DEF ClosedTo, next
<1>6. /\ ClosedTo(f, n - 1) \in Seq(Section) /\ Len(ClosedTo(f, n - 1)) = c - 1
      /\ \A k \in 1 .. c - 1 : ClosedTo(f, n - 1)[k] = SectionAt(f, heads, k, heads[k + 1] - 1)
  <2>1. ClosedTo(f, n - 1) \in Seq(Section) /\ Len(ClosedTo(f, n - 1)) = c - 1
    BY <1>1, ClosedType DEF heads
  <2> QED
    BY <2>1 DEF ClosedTo, heads
<1>7. new \in Section
  <2>1. c \in 1 .. c
    BY <1>2
  <2>2. n - 1 \in Int /\ From(heads, c) - 1 <= n - 1 /\ n - 1 <= n - 1
    BY <1>2, <2>1 DEF From
  <2> QED
    BY <1>1, <2>1, <2>2, SectionAtType DEF heads
<1>8. \A k \in 1 .. c : From(next, k) = From(heads, k) /\ f[next[k]] = f[heads[k]]
  BY <1>4 DEF From
<1>9. \A k \in 1 .. c : \A last : SectionAt(f, next, k, last) = SectionAt(f, heads, k, last)
  BY <1>8 DEF SectionAt
<1>10. ASSUME NEW k \in 1 .. c - 1 PROVE At(k) = ClosedTo(f, n - 1)[k]
  <2>1. k \in 1 .. c /\ k + 1 \in 1 .. c
    BY <1>2
  <2>2. next[k + 1] = heads[k + 1]
    BY <1>4, <2>1
  <2> QED
    BY <1>6, <1>9, <2>1, <2>2
<1>11. At(c) = new
  <2>1. c \in 1 .. c
    BY <1>2
  <2> QED
    BY <1>4, <1>9, <2>1
<1> DEFINE w == Append(ClosedTo(f, n - 1), new)
<1>12. /\ w \in Seq(Section) /\ Len(w) = c /\ w[c] = new
       /\ \A k \in 1 .. c - 1 : w[k] = ClosedTo(f, n - 1)[k]
  <2>1. /\ w \in Seq(Section) /\ Len(w) = (c - 1) + 1 /\ w[(c - 1) + 1] = new
        /\ \A k \in 1 .. c - 1 : w[k] = ClosedTo(f, n - 1)[k]
    BY <1>6, <1>7, AppendProperties
  <2> QED
    BY <1>2, <2>1
<1> HIDE DEF w, At, new
<1>13. \A k \in 1 .. c : w[k] = At(k)
  <2>1. \A k \in 1 .. c : k \in 1 .. c - 1 \/ k = c
    BY <1>2
  <2> QED
    BY <1>10, <1>11, <1>12, <2>1
<1>14. w = [k \in 1 .. c |-> At(k)]
  BY <1>12, <1>13
<1> QED
  BY <1>5, <1>14 DEF w, new, heads

LEMMA SectionsDone ==
    ASSUME NEW f \in Seq(Block), NEW n \in 0 .. Len(f)
    PROVE  LET heads == HeadsTo(f, n)
           IN  /\ heads = <<>> => SectionsTo(f, n) = <<>>
               /\ heads # <<>> =>
                     SectionsTo(f, n) =
                        Append(ClosedTo(f, n), SectionAt(f, heads, Len(heads), n))
<1> DEFINE heads == HeadsTo(f, n)
           c == Len(heads)
           At(k) == SectionAt(f, heads, k, IF k = c THEN n ELSE heads[k + 1] - 1)
           new == SectionAt(f, heads, c, n)
<1>1. heads \in Seq(1 .. n) /\ c \in Nat /\ DOMAIN heads = 1 .. c
      /\ \A k \in 1 .. c : heads[k] \in 1 .. n
  BY HeadsType
<1>2. SectionsTo(f, n) = [k \in 1 .. c |-> At(k)]
  BY <1>1 DEF SectionsTo, HeadsTo, SectionAt, From
<1>3. CASE heads = <<>>
  BY <1>2, <1>3
<1>4. CASE heads # <<>>
  <2>1. c \in Nat \ {0} /\ c \in 1 .. c
    BY <1>1, <1>4
  <2>2. /\ ClosedTo(f, n) \in Seq(Section) /\ Len(ClosedTo(f, n)) = c - 1
        /\ \A k \in 1 .. c - 1 : ClosedTo(f, n)[k] = SectionAt(f, heads, k, heads[k + 1] - 1)
    <3>1. ClosedTo(f, n) \in Seq(Section) /\ Len(ClosedTo(f, n)) = c - 1
      BY <1>4, ClosedType
    <3> QED
      BY <3>1 DEF ClosedTo
  <2>3. new \in Section
    <3>1. n \in Int /\ From(heads, c) - 1 <= n /\ n <= n
      BY <1>1, <2>1 DEF From
    <3> QED
      BY <2>1, <3>1, SectionAtType
  <2> DEFINE w == Append(ClosedTo(f, n), new)
  <2>4. /\ w \in Seq(Section) /\ Len(w) = c /\ w[c] = new
        /\ \A k \in 1 .. c - 1 : w[k] = ClosedTo(f, n)[k]
    <3>1. /\ w \in Seq(Section) /\ Len(w) = (c - 1) + 1 /\ w[(c - 1) + 1] = new
          /\ \A k \in 1 .. c - 1 : w[k] = ClosedTo(f, n)[k]
      BY <2>2, <2>3, AppendProperties
    <3> QED
      BY <2>1, <3>1
  <2>5. ASSUME NEW k \in 1 .. c PROVE w[k] = At(k)
    <3>1. CASE k = c
      BY <2>4, <3>1
    <3>2. CASE k # c
      <4>1. k \in 1 .. c - 1
        BY <2>1, <3>2
      <4> QED
        BY <2>2, <2>4, <3>2, <4>1
    <3> QED
      BY <3>1, <3>2
  <2> HIDE DEF w, At, new
  <2>6. w = [k \in 1 .. c |-> At(k)]
    BY <2>4, <2>5
  <2> QED
    BY <1>2, <1>4, <2>6 DEF w, new
<1> QED
  BY <1>3, <1>4

-----------------------------------------------------------------------------
(* One chunk more. *)

LEMMA TextsType ==
    ASSUME Numbered
    PROVE  Texts \in Seq(Text) /\ Len(Texts) = Len(chunks) /\ Len(chunks) \in Nat
<1>1. chunks \in Seq(Chunk) /\ DOMAIN chunks = 1 .. Len(chunks) /\ Len(chunks) \in Nat
  BY DEF Numbered
<1>2. \A i \in 1 .. Len(chunks) : chunks[i].text \in Text
  <2>1. \A i \in 1 .. Len(chunks) : chunks[i] \in Chunk
    BY <1>1
  <2>2. \A c \in Chunk : c.text \in Text
    BY DEF Chunk
  <2> QED
    BY <2>1, <2>2
<1>3. Texts = [i \in 1 .. Len(chunks) |-> chunks[i].text]
  BY <1>1 DEF Texts
<1> QED
  BY <1>1, <1>2, <1>3

LEMMA EmitNothing ==
    ASSUME Numbered, UNCHANGED output
    PROVE  Numbered' /\ Texts' = Texts
BY DEF Numbered, output, Texts

LEMMA EmitOne ==
    ASSUME Numbered, NEW t \in Text, NEW n \in Nat, NEW size \in Nat, Emit(t, n, size)
    PROVE  /\ Numbered'
           /\ Texts' = IF t \in ToSet(Texts) THEN Texts ELSE Append(Texts, t)
<1>1. seen = ToSet(Texts) /\ nextID = Len(chunks) /\ Len(chunks) \in Nat
      /\ Texts \in Seq(Text) /\ Len(Texts) = Len(chunks)
      /\ chunks \in Seq(Chunk) /\ DOMAIN chunks = 1 .. Len(chunks)
      /\ \A i \in 1 .. Len(chunks) : Texts[i] = chunks[i].text /\ chunks[i].id = i - 1
  BY TextsType DEF Numbered, Texts
<1>2. CASE t \in seen
  <2>1. UNCHANGED output
    BY <1>2 DEF Emit
  <2> QED
    BY <1>1, <1>2, <2>1, EmitNothing
<1>3. CASE t \notin seen
  <2> DEFINE c == [id |-> nextID, text |-> t, tokens |-> n, size |-> size]
             m == Len(chunks)
  <2>1. chunks' = Append(chunks, c) /\ seen' = seen \cup {t} /\ nextID' = nextID + 1
    BY <1>3 DEF Emit
  <2>2. c \in Chunk /\ c.text = t /\ c.id = m
    BY <1>1 DEF Chunk
  <2> HIDE DEF c
  <2>3. /\ chunks' \in Seq(Chunk) /\ Len(chunks') = m + 1 /\ DOMAIN chunks' = 1 .. m + 1
        /\ \A i \in 1 .. m : chunks'[i] = chunks[i]
        /\ chunks'[m + 1] = c
    BY <1>1, <2>1, <2>2, AppendProperties, LenProperties
  <2>4. m \in Nat /\ \A i \in 1 .. m + 1 : i \in 1 .. m \/ i = m + 1
    BY <1>1
  <2> HIDE DEF m
  <2>5. Texts' = [i \in 1 .. m + 1 |-> chunks'[i].text]
    BY <2>3 DEF Texts
  <2>6. /\ Append(Texts, t) \in Seq(Text) /\ Len(Append(Texts, t)) = m + 1
        /\ DOMAIN Append(Texts, t) = 1 .. m + 1
        /\ \A i \in 1 .. m : Append(Texts, t)[i] = Texts[i]
        /\ Append(Texts, t)[m + 1] = t
    BY <1>1, AppendProperties, LenProperties DEF m
  <2>7. \A i \in 1 .. m + 1 : chunks'[i].text = Append(Texts, t)[i]
    <3>1. \A i \in 1 .. m : chunks'[i].text = Append(Texts, t)[i]
      BY <1>1, <2>3, <2>6 DEF m
    <3>2. chunks'[m + 1].text = Append(Texts, t)[m + 1]
      BY <2>2, <2>3, <2>6
    <3> QED
      BY ONLY <2>4, <3>1, <3>2
  <2>8. Texts' = Append(Texts, t)
    <3> DEFINE w == Append(Texts, t)
               G(i) == chunks'[i].text
    <3>1. w \in Seq(Text) /\ Len(w) = m + 1 /\ \A i \in 1 .. m + 1 : G(i) = w[i]
      BY <2>6, <2>7
    <3>2. Texts' = [i \in 1 .. m + 1 |-> G(i)]
      BY <2>5
    <3> HIDE DEF w, G
    <3>3. w = [i \in 1 .. m + 1 |-> G(i)]
      BY <3>1
    <3> QED
      BY <3>2, <3>3 DEF w
  <2>9. ToSet(Append(Texts, t)) = ToSet(Texts) \cup {t}
    <3>1. DOMAIN Texts = 1 .. m
      BY <1>1 DEF m
    <3> QED
      BY <2>4, <2>6, <3>1 DEF ToSet
  <2>10. \A i \in DOMAIN chunks' : chunks'[i].id = i - 1
    <3>1. \A i \in 1 .. m : chunks'[i].id = i - 1
      BY <1>1, <2>3 DEF m
    <3>2. chunks'[m + 1].id = (m + 1) - 1
      BY <2>2, <2>3, <2>4
    <3> QED
      BY <2>3, <2>4, <3>1, <3>2
  <2>11. nextID' = Len(chunks')
    BY <1>1, <2>1, <2>3 DEF m
  <2>12. seen' = ToSet(Texts')
    BY <1>1, <2>1, <2>8, <2>9
  <2>13. Numbered'
    BY <2>3, <2>10, <2>11, <2>12 DEF Numbered
  <2> QED
    BY <1>1, <1>3, <2>8, <2>13
<1> QED
  BY <1>2, <1>3

(* A text that is due is kept unless it was due before. *)
LEMMA EmitDue ==
    ASSUME Numbered, NEW s \in Seq(Text), Texts = FirstOccurrences(s),
           NEW t \in Text, NEW n \in Nat, NEW size \in Nat, Emit(t, n, size)
    PROVE  /\ Numbered' /\ s \o <<t>> \in Seq(Text)
           /\ Texts' = FirstOccurrences(s \o <<t>>)
<1>1. Numbered' /\ Texts' = IF t \in ToSet(Texts) THEN Texts ELSE Append(Texts, t)
  BY EmitOne
<1>2. Append(s, t) = s \o <<t>> /\ Append(s, t) \in Seq(Text)
  BY AppendIsConcat, AppendProperties
<1>3. ToSet(Texts) = ToSet(s)
  BY FirstOccurrencesSet
<1>4. FirstOccurrences(Append(s, t)) =
        IF t \in ToSet(s) THEN FirstOccurrences(s) ELSE Append(FirstOccurrences(s), t)
  BY FirstOccurrencesNext
<1> QED
  BY <1>1, <1>2, <1>3, <1>4

(* The same when something is due only if a condition holds. *)
LEMMA EmitIf ==
    ASSUME Numbered, NEW s \in Seq(Text), Texts = FirstOccurrences(s),
           NEW P \in BOOLEAN, NEW t, P => t \in Text, NEW n, P => n \in Nat,
           IF P THEN Emit(t, n, 0) ELSE UNCHANGED output
    PROVE  /\ Numbered' /\ s \o (IF P THEN <<t>> ELSE <<>>) \in Seq(Text)
           /\ Texts' = FirstOccurrences(s \o (IF P THEN <<t>> ELSE <<>>))
<1>1. CASE P
  <2>1. 0 \in Nat
    OBVIOUS
  <2> QED
    BY <1>1, <2>1, EmitDue
<1>2. CASE ~P
  <2>1. s \o <<>> = s
    BY ConcatEmptySeq
  <2> QED
    BY <1>2, <2>1, EmitNothing
<1> QED
  BY <1>1, <1>2

-----------------------------------------------------------------------------
(* The walk over a file's blocks. *)

LEMMA FileType ==
    ASSUME Walked
    PROVE  /\ file \in Seq(Block) /\ file # NoFile
           /\ at \in 1 .. Len(file) + 1 /\ Len(file) \in Nat
BY MarkdownAssumption DEF Walked

LEMMA WalkHeading ==
    ASSUME Parsed, EnterHeading
    PROVE  Walked' /\ secs' \in Seq(Section)
<1> DEFINE heads == HeadsTo(file, at - 1)
           next == HeadsTo(file, at)
           c == Len(heads)
           t == file[at].text
<1>1. /\ Walked /\ pc = "parse" /\ at <= Len(file) /\ file[at].kind = "heading"
      /\ secs' = IF cur = <<>> THEN secs ELSE Closed
      /\ cur' = <<Head(t)>>
      /\ buf' = JoinLines(IF cur = <<>> THEN buf ELSE Empty, t)
      /\ at' = at + 1 /\ file' = file
  BY DEF EnterHeading, Parsed
<1>2. /\ file \in Seq(Block) /\ file \in Files /\ Len(file) \in Nat
      /\ at \in 1 .. Len(file) /\ at - 1 \in 0 .. Len(file) /\ at \in 0 .. Len(file)
  BY <1>1, FileType DEF Walked
<1>3. /\ heads \in Seq(1 .. at - 1) /\ c \in Nat /\ DOMAIN heads = 1 .. c
      /\ \A k \in 1 .. c : heads[k] \in 1 .. at - 1
  BY <1>2, HeadsType
<1>4. next = Append(heads, at)
  BY <1>1, <1>2, HeadsNext
<1>5. Len(next) = c + 1 /\ next[c + 1] = at /\ next # <<>>
  <2>1. heads \in Seq(Int)
    BY <1>3, SeqMonotonic
  <2>2. at \in Int
    BY <1>2
  <2> HIDE DEF heads, next
  <2> QED
    BY <1>4, <2>1, <2>2, AppendProperties
<1>6. Written(file[at]) = t
  <2>1. file[at] \in Block
    BY <1>2
  <2> QED
    BY <1>1, <2>1, WrittenType
<1> HIDE DEF t
<1>7. at' - 1 = at
  BY <1>1, <1>2
<1>8. /\ cur' = <<Head(file[next[Len(next)]].text)>>
      /\ secs' = ClosedTo(file, at)
      /\ buf' = WrittenBy(file, From(next, Len(next)), at)
      /\ secs' \in Seq(Section)
  <2>1. cur' = <<Head(file[next[Len(next)]].text)>>
    BY <1>1, <1>5 DEF t
  <2>2. CASE heads = <<>>
    <3>1. cur = <<>> /\ secs = <<>> /\ buf = WrittenBy(file, 1, at - 1)
      BY <1>1, <2>2 DEF Walked
    <3>2. c = 0
      BY <2>2
    <3>3. Len(next) = 1 /\ Len(next) - 1 = 0
      BY <1>5, <3>2
    <3>4. ClosedTo(file, at) = <<>>
      BY <3>3 DEF ClosedTo
    <3>5. secs' = <<>>
      BY <1>1, <3>1
    <3>6. buf' = WrittenBy(file, 1, at)
      <4>1. buf' = JoinLines(WrittenBy(file, 1, at - 1), Written(file[at]))
        BY <1>1, <1>6, <3>1
      <4>2. 1 \in 1 .. Len(file) + 1 /\ at \in 1 .. Len(file)
        BY <1>2
      <4> QED
        BY <1>2, <4>1, <4>2, WrittenByNext
    <3>7. From(next, Len(next)) = 1
      BY <3>3 DEF From
    <3>8. <<>> \in Seq(Section)
      OBVIOUS
    <3> QED
      BY <2>1, <3>4, <3>5, <3>6, <3>7, <3>8
  <2>3. CASE heads # <<>>
    <3>1. /\ cur = <<Head(file[heads[c]].text)>>
          /\ secs = ClosedTo(file, at - 1)
          /\ buf = WrittenBy(file, From(heads, c), at - 1)
      BY <1>1, <2>3 DEF Walked
    <3>2. cur # <<>> /\ Head(cur) = Head(file[heads[c]].text)
      BY <3>1
    <3>3. Closed = 
          Append(ClosedTo(file, at - 1), SectionAt(file, heads, c, at - 1))
      BY <3>1, <3>2 DEF Closed, SectionAt
    <3>4. ClosedTo(file, at) = Append(ClosedTo(file, at - 1), SectionAt(file, heads, c, at - 1))
      BY <1>1, <1>2, <2>3, ClosedNext
    <3>5. secs' = ClosedTo(file, at)
      BY <1>1, <3>2, <3>3, <3>4
    <3>6. ClosedTo(file, at) \in Seq(Section)
      BY <1>2, <1>5, ClosedType
    <3>7. c # 0
      BY <1>3, <2>3
    <3>8. From(next, Len(next)) = at
      BY <1>3, <1>5, <3>7 DEF From
    <3>9. buf' = WrittenBy(file, at, at)
      <4>1. at \in 1 .. Len(file) + 1 /\ at \in at .. Len(file)
        BY <1>2
      <4>2. WrittenBy(file, at, at - 1) = Empty
        BY <1>2, <4>1, WrittenByEmpty
      <4>3. WrittenBy(file, at, at) = JoinLines(WrittenBy(file, at, at - 1), Written(file[at]))
        BY <1>2, <4>1, WrittenByNext
      <4> QED
        BY <1>1, <1>6, <3>2, <4>2, <4>3
    <3> QED
      BY <2>1, <3>5, <3>6, <3>8, <3>9
  <2> QED
    BY <2>2, <2>3
<1>9. at' \in 1 .. Len(file) + 1
  BY <1>1, <1>2
<1> QED
  BY <1>1, <1>2, <1>5, <1>7, <1>8, <1>9 DEF Walked

LEMMA WalkBlock ==
    ASSUME Parsed, EnterBlock
    PROVE  Walked'
<1> DEFINE heads == HeadsTo(file, at - 1)
           c == Len(heads)
           b == Written(file[at])
<1>1. /\ Walked /\ pc = "parse" /\ at <= Len(file) /\ file[at].kind # "heading"
      /\ buf' = JoinLines(buf, b)
      /\ at' = at + 1 /\ file' = file /\ cur' = cur /\ secs' = secs
  BY DEF EnterBlock, Parsed, args
<1>2. /\ file \in Seq(Block) /\ file \in Files /\ Len(file) \in Nat
      /\ at \in 1 .. Len(file) /\ at - 1 \in 0 .. Len(file)
  BY <1>1, FileType DEF Walked
<1>3. heads \in Seq(1 .. at - 1) /\ c \in Nat /\ \A k \in 1 .. c : heads[k] \in 1 .. at - 1
  BY <1>2, HeadsType
<1>4. HeadsTo(file, at) = heads
  BY <1>1, <1>2, HeadsNext
<1>5. ASSUME NEW m \in 1 .. at, buf = WrittenBy(file, m, at - 1)
      PROVE  buf' = WrittenBy(file, m, at)
  <2>1. m \in 1 .. Len(file) + 1 /\ at \in m .. Len(file)
    BY <1>2
  <2> QED
    BY <1>1, <1>2, <1>5, <2>1, WrittenByNext
<1> HIDE DEF b
<1>6. at' - 1 = at /\ at' \in 1 .. Len(file) + 1
  BY <1>1, <1>2
<1>7. CASE heads = <<>>
  <2>1. cur = <<>> /\ secs = <<>> /\ buf = WrittenBy(file, 1, at - 1)
    BY <1>1, <1>7 DEF Walked
  <2>2. buf' = WrittenBy(file, 1, at)
    BY <1>2, <1>5, <2>1
  <2> QED
    BY <1>1, <1>2, <1>4, <1>6, <1>7, <2>1, <2>2 DEF Walked
<1>8. CASE heads # <<>>
  <2>1. /\ cur = <<Head(file[heads[c]].text)>>
        /\ secs = ClosedTo(file, at - 1)
        /\ buf = WrittenBy(file, From(heads, c), at - 1)
    BY <1>1, <1>8 DEF Walked
  <2>2. From(heads, c) \in 1 .. at
    <3>1. c \in 1 .. c
      BY <1>3, <1>8
    <3>2. heads[c] \in 1 .. at - 1
      BY <1>3, <3>1
    <3> QED
      BY <1>2, <3>2 DEF From
  <2>3. buf' = WrittenBy(file, From(heads, c), at)
    BY <1>5, <2>1, <2>2
  <2>4. ClosedTo(file, at) = ClosedTo(file, at - 1)
    BY <1>4 DEF ClosedTo
  <2> QED
    BY <1>1, <1>2, <1>4, <1>6, <1>8, <2>1, <2>3, <2>4 DEF Walked
<1> QED
  BY <1>7, <1>8

LEMMA WalkEnd ==
    ASSUME Parsed, LeaveDocument
    PROVE  secs' = Sections' /\ secs' \in Seq(Section)
<1> DEFINE heads == HeadsTo(file, at - 1)
           c == Len(heads)
           n == Len(file)
<1>1. /\ Walked /\ pc = "parse" /\ at > Len(file) /\ file' = file
      /\ secs' = IF cur = <<>> THEN secs ELSE Closed
  BY DEF LeaveDocument, Parsed, walk
<1>2. /\ file \in Seq(Block) /\ file # NoFile /\ n \in Nat
      /\ at - 1 = n /\ n \in 0 .. Len(file)
  BY <1>1, FileType
<1>3. Sections' = SectionsTo(file, n)
  BY <1>1, <1>2 DEF Sections
<1>4. heads = HeadsTo(file, n)
  BY <1>2
<1>5. CASE heads = <<>>
  <2>1. secs' = <<>>
    BY <1>1, <1>5 DEF Walked
  <2>2. SectionsTo(file, n) = <<>>
    BY <1>2, <1>4, <1>5, SectionsDone
  <2>3. <<>> \in Seq(Section)
    OBVIOUS
  <2> QED
    BY <1>3, <2>1, <2>2, <2>3
<1>6. CASE heads # <<>>
  <2>1. /\ cur = <<Head(file[heads[c]].text)>>
        /\ secs = ClosedTo(file, n)
        /\ buf = WrittenBy(file, From(heads, c), n)
    BY <1>1, <1>2, <1>6 DEF Walked
  <2>2. cur # <<>> /\ Head(cur) = Head(file[heads[c]].text)
    BY <2>1
  <2> DEFINE new == SectionAt(file, heads, c, n)
  <2>3. Closed = Append(ClosedTo(file, n), new)
    BY <2>1, <2>2 DEF Closed, SectionAt
  <2>4. SectionsTo(file, n) = Append(ClosedTo(file, n), new)
    BY <1>2, <1>4, <1>6, SectionsDone
  <2>5. c \in Nat /\ c \in 1 .. c /\ heads[c] \in 1 .. n
    <3>1. /\ heads \in Seq(1 .. n) /\ c \in Nat
          /\ \A k \in 1 .. c : heads[k] \in 1 .. n
      BY <1>2, <1>4, HeadsType
    <3> QED
      BY <1>6, <3>1
  <2>6. new \in Section
    <3>1. n \in Int /\ From(heads, c) - 1 <= n /\ n <= n
      BY <1>2, <2>5 DEF From
    <3> QED
      BY <1>2, <1>4, <2>5, <3>1, SectionAtType
  <2>7. ClosedTo(file, n) \in Seq(Section)
    BY <1>2, <1>4, <1>6, ClosedType
  <2> HIDE DEF new
  <2>8. Append(ClosedTo(file, n), new) \in Seq(Section)
    BY <2>6, <2>7, AppendProperties
  <2> QED
    BY <1>1, <1>3, <2>2, <2>3, <2>4, <2>8
<1> QED
  BY <1>5, <1>6

LEMMA ParseInv ==
    ASSUME IInv, Parse
    PROVE  IInv'
<1> USE DEF Parse
<1>1. Parsed /\ Numbered /\ Placed /\ sec = 1 /\ pc = "parse" /\ chunks = <<>>
  BY DEF IInv, Placed, ReadFails, EnterHeading, EnterBlock, LeaveDocument
<1>2. Numbered'
  <2>1. UNCHANGED output
    BY DEF ReadFails, EnterHeading, EnterBlock, LeaveDocument
  <2> QED
    BY <1>1, <2>1, EmitNothing
<1>3. sec' = 1 /\ chunks' = <<>> /\ pc' \in {"parse", "failed", "toc"} /\ cfg' = cfg
  BY <1>1 DEF ReadFails, EnterHeading, EnterBlock, LeaveDocument, output, args
<1>4. Parsed'
  <2>1. CASE ReadFails
    BY <1>1, <2>1 DEF ReadFails, Parsed, Walked, walk, args
  <2>2. CASE EnterHeading
    <3>1. pc' = "parse"
      BY <1>1, <2>2 DEF EnterHeading
    <3> QED
      BY <1>1, <1>3, <2>2, <3>1, WalkHeading DEF Parsed
  <2>3. CASE EnterBlock
    <3>1. pc' = "parse" /\ secs' = secs
      BY <1>1, <2>3 DEF EnterBlock, args
    <3> QED
      BY <1>1, <1>3, <2>3, <3>1, WalkBlock DEF Parsed
  <2>4. CASE LeaveDocument
    <3>1. pc' = "toc"
      BY <2>4 DEF LeaveDocument
    <3> QED
      BY <1>1, <1>3, <2>4, <3>1, WalkEnd DEF Parsed
  <2> QED
    BY <2>1, <2>2, <2>3, <2>4
<1>5. Placed'
  <2>1. Len(secs') \in Nat
    BY <1>4 DEF Parsed
  <2> QED
    BY <1>3, <2>1 DEF Placed
<1>6. Passed'
  BY <1>3 DEF Passed
<1>7. Kept'
  BY <1>3 DEF Kept
<1> QED
  BY <1>2, <1>4, <1>5, <1>6, <1>7 DEF IInv

-----------------------------------------------------------------------------
(* What the loops run over. *)

LEMMA PartsOfType ==
    ASSUME NEW section \in Section
    PROVE  PartsOf(section) \in Seq(Text)
<1>1. section.text \in Text
  BY DEF Section
<1> QED
  BY <1>1, splitParagraphsType DEF PartsOf

LEMMA SettingsType ==
    ASSUME cfg \in Settings
    PROVE  /\ Sz \in Seq(Int) /\ Overlap \in Nat
           /\ \A i \in 1 .. Len(Sz) : StepOf(Sz[i]) \in Nat \ {0}
<1>1. cfg.maxTokens \in Int /\ cfg.additional \in Seq(Int) /\ cfg.overlap \in Int
  BY DEF Settings
<1>2. <<cfg.maxTokens>> \o cfg.additional \in Seq(Int)
  BY <1>1
<1>3. Sz \in Seq(Int)
  BY <1>2, SortedType DEF Sz, SizesOf
<1>4. Overlap \in Nat
  BY <1>1, MaxWithZero DEF Overlap
<1>5. \A n \in Int : StepOf(n) \in Nat \ {0}
  BY DEF StepOf
<1>6. \A i \in 1 .. Len(Sz) : Sz[i] \in Int
  BY <1>3
<1> QED
  BY <1>3, <1>4, <1>5, <1>6

(* The reference, in the terms of the invariant. *)
LEMMA SectionTextsIs ==
    ASSUME NEW section
    PROVE  SectionTexts(section) = HeadTexts(section) \o FlattenSeq(ByPart(PartsOf(section)))
BY DEF SectionTexts, HeadTexts, ByPart, PartsOf

LEMMA PartTextsIs ==
    ASSUME NEW part, cfg \in Settings
    PROVE  PartTexts(part) = IF tokenize(part) = <<>> THEN <<>> ELSE FlattenSeq(BySize(part))
<1>1. cfg.overlap \in Int
  BY DEF Settings
<1>2. Max({0, cfg.overlap}) = Overlap
  BY <1>1, MaxWithZero DEF Overlap
<1>3. Sz = Sorted(<<cfg.maxTokens>> \o cfg.additional)
  BY DEF Sz, SizesOf
<1> QED
  BY <1>2, <1>3 DEF PartTexts, BySize

LEMMA HeadTextsType ==
    ASSUME NEW section \in Section
    PROVE  /\ HeadTexts(section) \in Seq(Text)
           /\ section.heading \in Line /\ <<section.heading>> \in Text
           /\ Len(section.heading) \in Nat
<1>1. section.heading \in Line
  BY DEF Section
<1>2. <<section.heading>> \in Text
  BY <1>1 DEF Text
<1> QED
  BY <1>1, <1>2 DEF HeadTexts, Line

LEMMA TocTextsType ==
    ASSUME secs \in Seq(Section)
    PROVE  /\ TocTexts \in Seq(Text) /\ TOC(secs) \in Text
           /\ Len(tokenize(TOC(secs))) \in Nat
<1>1. TOC(secs) \in Text
  BY TOCType
<1> QED
  BY <1>1, tokenizeType DEF TocTexts

(* What has an end is a sequence of texts. *)
LEMMA SizeTextsType ==
    ASSUME cfg \in Settings, NEW part \in Text, NEW i \in 1 .. Len(Sz), SizeEnds(part, Sz[i])
    PROVE  BySize(part)[i] \in Seq(Text)
<1>1. StepOf(Sz[i]) \in Nat \ {0} /\ Overlap \in Nat /\ Sz \in Seq(Int)
  BY SettingsType
<1>2. BySize(part)[i] = WindowTexts(part, StepOf(Sz[i]), Overlap)
  BY <1>1 DEF BySize
<1>3. Len(tokenize(part)) \in Nat
  BY tokenizeType
<1>4. WindowTexts(part, StepOf(Sz[i]), Overlap) \in Seq(Text)
  BY <1>1, <1>3, WindowTextsShape DEF SizeEnds
<1> QED
  BY <1>2, <1>4

LEMMA PartTextsType ==
    ASSUME cfg \in Settings, NEW part \in Text, PartEnds(part)
    PROVE  PartTexts(part) \in Seq(Text)
<1> DEFINE f == BySize(part)
<1>1. Sz \in Seq(Int) /\ DOMAIN Sz = 1 .. Len(Sz) /\ Len(Sz) \in Nat
  BY SettingsType
<1>2. \A i \in 1 .. Len(Sz) : f[i] \in Seq(Text)
  BY <1>1, SizeTextsType DEF PartEnds
<1>3. f = [i \in 1 .. Len(Sz) |-> f[i]]
  BY <1>1 DEF BySize
<1> HIDE DEF f
<1>4. f \in Seq(Seq(Text))
  BY <1>1, <1>2, <1>3
<1>5. FlattenSeq(f) \in Seq(Text) /\ <<>> \in Seq(Text)
  BY <1>4, FlattenType
<1> QED
  BY <1>5, PartTextsIs DEF f

LEMMA SectionTextsType ==
    ASSUME cfg \in Settings, NEW section \in Section, SectionEnds(section)
    PROVE  SectionTexts(section) \in Seq(Text)
<1> DEFINE ps == PartsOf(section)
           f == ByPart(ps)
<1>1. ps \in Seq(Text) /\ DOMAIN ps = 1 .. Len(ps) /\ Len(ps) \in Nat
  BY PartsOfType
<1>2. \A k \in 1 .. Len(ps) : PartTexts(ps[k]) \in Seq(Text)
  BY <1>1, PartTextsType DEF SectionEnds
<1>3. f = [k \in 1 .. Len(ps) |-> f[k]] /\ \A k \in 1 .. Len(ps) : f[k] \in Seq(Text)
  BY <1>1, <1>2 DEF ByPart
<1> HIDE DEF f
<1>4. f \in Seq(Seq(Text))
  BY <1>1, <1>3
<1>5. FlattenSeq(f) \in Seq(Text)
  BY <1>4, FlattenType
<1>6. HeadTexts(section) \in Seq(Text)
  BY HeadTextsType
<1> QED
  <2>1. HeadTexts(section) \o FlattenSeq(f) \in Seq(Text)
    BY <1>5, <1>6, ConcatProperties
  <2> QED
    BY <2>1, SectionTextsIs DEF f

LEMMA PassedTexts ==
    ASSUME IInv
    PROVE  /\ \A i \in 1 .. sec - 1 : SectionTexts(secs[i]) \in Seq(Text)
           /\ pc \in {"part", "size"} =>
                 \A i \in 1 .. PartsDone : PartTexts(Ps[i]) \in Seq(Text)
           /\ pc = "size" =>
                 \A i \in 1 .. SizesDone : BySize(Head(parts))[i] \in Seq(Text)
<1>1. /\ secs \in Seq(Section) /\ Len(secs) \in Nat /\ cfg \in Settings
      /\ sec \in 1 .. Len(secs) + 1 /\ Passed
  BY DEF IInv, Parsed, Placed
<1>2. ASSUME NEW i \in 1 .. sec - 1 PROVE SectionTexts(secs[i]) \in Seq(Text)
  <2>1. secs[i] \in Section
    BY <1>1
  <2> QED
    BY <1>1, <2>1, SectionTextsType DEF Passed
<1>3. ASSUME pc \in {"part", "size"}
      PROVE  /\ RestOf(parts, Ps) /\ Ps \in Seq(Text)
             /\ \A i \in 1 .. PartsDone : PartTexts(Ps[i]) \in Seq(Text)
  <2>1. RestOf(parts, Ps) /\ sec <= Len(secs)
    BY <1>3 DEF IInv, Placed, InSection
  <2>2. secs[sec] \in Section
    BY <1>1, <2>1
  <2>3. Ps \in Seq(Text)
    BY <2>2, PartsOfType DEF Ps
  <2>4. PartsDone \in 0 .. Len(Ps)
    BY <2>1, <2>3, RestType DEF PartsDone
  <2>5. \A i \in 1 .. PartsDone : Ps[i] \in Text /\ PartEnds(Ps[i])
    BY <1>1, <1>3, <2>3, <2>4 DEF Passed
  <2> QED
    BY <1>1, <2>1, <2>3, <2>5, PartTextsType
<1>4. ASSUME pc = "size"
      PROVE  \A i \in 1 .. SizesDone : BySize(Head(parts))[i] \in Seq(Text)
  <2>1. RestOf(sizes, Sz) /\ parts # <<>>
    BY <1>4 DEF IInv, Placed, InPart
  <2>2. Head(parts) \in Text
    BY <1>3, <1>4, <2>1, RestTail
  <2>3. SizesDone \in 0 .. Len(Sz) /\ Len(Sz) \in Nat
    BY <1>1, <2>1, SettingsType, RestType DEF SizesDone
  <2>4. \A i \in 1 .. SizesDone : i \in 1 .. Len(Sz) /\ SizeEnds(Head(parts), Sz[i])
    BY <1>1, <1>4, <2>3 DEF Passed
  <2> QED
    BY <1>1, <2>2, <2>4, SizeTextsType
<1> QED
  BY <1>2, <1>3, <1>4

(* What was due is a sequence of texts as long as every part of it is. *)
LEMMA Due ==
    ASSUME IInv
    PROVE  /\ pc \in {"toc", "section", "part", "size", "done"} => BeforeSection \in Seq(Text)
           /\ pc \in {"part", "size"} =>
                 /\ Ps \in Seq(Text) /\ secs[sec] \in Section
                 /\ BeforePart \in Seq(Text)
           /\ pc = "size" => BeforeSize \in Seq(Text)
<1>1. /\ secs \in Seq(Section) /\ Len(secs) \in Nat /\ cfg \in Settings
      /\ sec \in 1 .. Len(secs) + 1 /\ sec - 1 \in Nat
  BY DEF IInv, Parsed, Placed
<1>2. BeforeSection \in Seq(Text)
  <2>1. TocTexts \in Seq(Text)
    BY <1>1, TocTextsType
  <2>2. \A i \in 1 .. sec - 1 : BySection[i] \in Seq(Text)
    BY <1>1, PassedTexts DEF BySection
  <2>3. Upto(BySection, sec - 1) \in Seq(Text)
    BY <1>1, <2>2, UptoType
  <2> QED
    BY <2>1, <2>3 DEF BeforeSection
<1>3. ASSUME pc \in {"part", "size"}
      PROVE  Ps \in Seq(Text) /\ secs[sec] \in Section /\ BeforePart \in Seq(Text)
  <2>1. InSection
    BY <1>3 DEF IInv, Placed
  <2>2. secs[sec] \in Section
    BY <1>1, <2>1 DEF InSection
  <2>3. Ps \in Seq(Text)
    BY <2>2, PartsOfType DEF Ps
  <2>4. PartsDone \in 0 .. Len(Ps) /\ Len(Ps) \in Nat
    BY <2>1, <2>3, RestType DEF InSection, PartsDone
  <2>5. \A i \in 1 .. PartsDone : ByPart(Ps)[i] \in Seq(Text)
    <3>1. \A i \in 1 .. PartsDone : PartTexts(Ps[i]) \in Seq(Text)
      BY <1>3, PassedTexts
    <3>2. DOMAIN Ps = 1 .. Len(Ps)
      BY <2>3
    <3> QED
      BY <2>4, <3>1, <3>2 DEF ByPart
  <2>6. Upto(ByPart(Ps), PartsDone) \in Seq(Text)
    BY <2>4, <2>5, UptoType
  <2>7. HeadTexts(secs[sec]) \in Seq(Text)
    BY <2>2, HeadTextsType
  <2> QED
    BY <1>2, <2>2, <2>3, <2>6, <2>7 DEF BeforePart
<1>4. ASSUME pc = "size" PROVE BeforeSize \in Seq(Text)
  <2>1. RestOf(sizes, Sz)
    BY <1>4 DEF IInv, Placed, InPart
  <2>2. SizesDone \in Nat
    BY <1>1, <2>1, SettingsType, RestType DEF SizesDone
  <2>3. \A i \in 1 .. SizesDone : BySize(Head(parts))[i] \in Seq(Text)
    BY <1>4, PassedTexts
  <2>4. Upto(BySize(Head(parts)), SizesDone) \in Seq(Text)
    BY <2>2, <2>3, UptoType
  <2> QED
    BY <1>3, <1>4, <2>4 DEF BeforeSize
<1> QED
  BY <1>2, <1>3, <1>4

-----------------------------------------------------------------------------
(* The steps of BuildChunks. *)

LEMMA SameArgs ==
    ASSUME UNCHANGED args
    PROVE  /\ secs' = secs /\ cfg' = cfg /\ Sz' = Sz /\ Overlap' = Overlap
           /\ TocTexts' = TocTexts /\ BySection' = BySection
           /\ \A section : /\ PartsOf(section)' = PartsOf(section)
                           /\ HeadTexts(section)' = HeadTexts(section)
                           /\ SectionTexts(section)' = SectionTexts(section)
           /\ \A part : PartTexts(part)' = PartTexts(part) /\ BySize(part)' = BySize(part)
           /\ \A ps : ByPart(ps)' = ByPart(ps)
           /\ \A part, size : SizeEnds(part, size)' <=> SizeEnds(part, size)
           /\ \A part : PartEnds(part)' <=> PartEnds(part)
           /\ \A section : SectionEnds(section)' <=> SectionEnds(section)
<1>1. secs' = secs /\ cfg' = cfg
  BY DEF args
<1>2. Sz' = Sz /\ Overlap' = Overlap /\ TocTexts' = TocTexts
  BY <1>1 DEF Sz, Overlap, TocTexts
<1>3. \A part : PartTexts(part)' = PartTexts(part) /\ BySize(part)' = BySize(part)
  BY <1>1, <1>2 DEF PartTexts, BySize
<1>4. \A section : /\ PartsOf(section)' = PartsOf(section)
                    /\ HeadTexts(section)' = HeadTexts(section)
  BY <1>1 DEF PartsOf, HeadTexts
<1>5. \A section : SectionTexts(section)' = SectionTexts(section)
  BY <1>1 DEF SectionTexts, PartTexts
<1>6. \A ps : ByPart(ps)' = ByPart(ps)
  BY <1>1 DEF ByPart, PartTexts
<1>7. BySection' = BySection
  BY <1>1 DEF BySection, SectionTexts, PartTexts
<1>8. /\ \A part, size : SizeEnds(part, size)' <=> SizeEnds(part, size)
      /\ \A part : PartEnds(part)' <=> PartEnds(part)
  BY <1>2 DEF SizeEnds, PartEnds
<1>9. \A section : SectionEnds(section)' <=> SectionEnds(section)
  BY <1>1, <1>2 DEF SectionEnds, PartEnds, SizeEnds, PartsOf
<1> QED
  BY <1>1, <1>2, <1>3, <1>4, <1>5, <1>6, <1>7, <1>8, <1>9

LEMMA StepFacts ==
    ASSUME IInv, Step, UNCHANGED walk
    PROVE  /\ UNCHANGED args /\ Parsed'
           /\ secs \in Seq(Section) /\ Len(secs) \in Nat /\ cfg \in Settings
           /\ sec \in 1 .. Len(secs) + 1 /\ sec - 1 \in Nat
           /\ Numbered /\ Placed /\ Passed /\ Kept
           /\ BeforeSection \in Seq(Text)
<1>1. /\ pc \in {"toc", "section", "part", "size", "done"}
      /\ pc' \in {"toc", "section", "part", "size", "done"}
      /\ secs' = secs /\ cfg' = cfg
  BY DEF Step, EmbedTOC, EnterSection, SkipEmptyPart, EnterPart, WholePart, CutWindow,
         LeavePart, LeaveSection, Return, args
<1>2. Sections' = Sections
  BY <1>1 DEF Sections, walk
<1>3. Parsed'
  BY <1>1, <1>2 DEF IInv, Parsed
<1>4. BeforeSection \in Seq(Text)
  BY <1>1, Due
<1> QED
  BY <1>1, <1>3, <1>4 DEF IInv, Parsed, Placed, args

LEMMA TocStep ==
    ASSUME IInv, EmbedTOC, UNCHANGED walk
    PROVE  IInv'
<1>1. /\ UNCHANGED args /\ Parsed' /\ secs \in Seq(Section) /\ Len(secs) \in Nat
      /\ cfg \in Settings /\ Numbered /\ Placed
  BY StepFacts DEF Step
<1>2. pc = "toc" /\ pc' = "section" /\ sec = 1 /\ sec' = 1 /\ chunks = <<>>
      /\ IF cfg.embedTOC /\ TOC(secs) # <<>>
         THEN Emit(TOC(secs), Len(tokenize(TOC(secs))), 0)
         ELSE UNCHANGED output
  BY <1>1 DEF EmbedTOC, Placed
<1>3. Texts = FirstOccurrences(<<>>) /\ <<>> \in Seq(Text)
  <2>1. Texts = <<>>
    BY <1>2 DEF Texts
  <2> QED
    BY <2>1, FirstOccurrencesEmpty
<1>4. TocTexts \in Seq(Text) /\ TOC(secs) \in Text /\ Len(tokenize(TOC(secs))) \in Nat
  BY <1>1, TocTextsType
<1>5. Numbered' /\ Texts' = FirstOccurrences(<<>> \o TocTexts)
  <2> DEFINE P == cfg.embedTOC /\ TOC(secs) # <<>>
             t == TOC(secs)
             n == Len(tokenize(TOC(secs)))
  <2>1. P \in BOOLEAN
    OBVIOUS
  <2>2. t \in Text /\ n \in Nat /\ IF P THEN Emit(t, n, 0) ELSE UNCHANGED output
    BY <1>2, <1>4
  <2>3. TocTexts = IF P THEN <<t>> ELSE <<>>
    BY DEF TocTexts
  <2> HIDE DEF P, t, n
  <2>4. Numbered' /\ Texts' = FirstOccurrences(<<>> \o (IF P THEN <<t>> ELSE <<>>))
    BY ONLY <1>1, <1>3, <2>1, <2>2, EmitIf
  <2> QED
    BY <2>3, <2>4
<1>6. BeforeSection' = TocTexts
  <2>1. BeforeSection' = TocTexts \o Upto(BySection, 0)
    BY <1>1, <1>2, SameArgs DEF BeforeSection
  <2> QED
    BY <1>4, <2>1, UptoStart
<1>7. Kept'
  <2>1. Texts' = FirstOccurrences(BeforeSection')
    BY <1>4, <1>5, <1>6, ConcatEmptySeq
  <2> QED
    BY <1>2, <2>1 DEF Kept
<1>8. Placed' /\ Passed'
  BY <1>1, <1>2 DEF Placed, Passed, args
<1> QED
  BY <1>1, <1>5, <1>7, <1>8 DEF IInv

LEMMA SectionStep ==
    ASSUME IInv, EnterSection, UNCHANGED walk
    PROVE  IInv'
<1>1. /\ UNCHANGED args /\ Parsed' /\ secs \in Seq(Section) /\ Len(secs) \in Nat
      /\ cfg \in Settings /\ sec \in 1 .. Len(secs) + 1
      /\ Numbered /\ Passed /\ Kept /\ BeforeSection \in Seq(Text)
  BY StepFacts DEF Step
<1> DEFINE head == secs[sec].heading
<1>2. /\ pc = "section" /\ pc' = "part" /\ sec <= Len(secs) /\ sec' = sec
      /\ parts' = PartsOf(secs[sec])
      /\ IF cfg.embedHeadings /\ head # <<>>
         THEN Emit(<<head>>, Len(head), 0) ELSE UNCHANGED output
  BY DEF EnterSection
<1>3. secs[sec] \in Section
  BY <1>1, <1>2
<1>4. HeadTexts(secs[sec]) \in Seq(Text) /\ <<head>> \in Text /\ Len(head) \in Nat
  BY <1>3, HeadTextsType
<1>5. Numbered' /\ Texts' = FirstOccurrences(BeforeSection \o HeadTexts(secs[sec]))
      /\ BeforeSection \o HeadTexts(secs[sec]) \in Seq(Text)
  <2> DEFINE P == cfg.embedHeadings /\ head # <<>>
             t == <<head>>
             n == Len(head)
             b == BeforeSection
  <2>1. P \in BOOLEAN
    OBVIOUS
  <2>2. t \in Text /\ n \in Nat /\ IF P THEN Emit(t, n, 0) ELSE UNCHANGED output
    BY <1>2, <1>4
  <2>3. HeadTexts(secs[sec]) = IF P THEN <<t>> ELSE <<>>
    BY DEF HeadTexts
  <2>4. b \in Seq(Text) /\ Texts = FirstOccurrences(b)
    BY <1>1, <1>2 DEF Kept
  <2> HIDE DEF P, t, n, b
  <2>5. Numbered' /\ Texts' = FirstOccurrences(b \o (IF P THEN <<t>> ELSE <<>>))
        /\ b \o (IF P THEN <<t>> ELSE <<>>) \in Seq(Text)
    BY ONLY <1>1, <2>1, <2>2, <2>4, EmitIf
  <2> QED
    BY <2>3, <2>5 DEF b
<1>6. Ps' = Ps /\ Ps = parts' /\ Ps \in Seq(Text)
  <2>1. Ps \in Seq(Text)
    BY <1>3, PartsOfType DEF Ps
  <2> QED
    BY <1>1, <1>2, <2>1, SameArgs DEF Ps
<1>7. RestOf(Ps, Ps) /\ Len(Ps) - Len(Ps) = 0
  BY <1>6, RestAll
<1>8. PartsDone' = 0
  BY <1>6, <1>7 DEF PartsDone
<1>9. BeforePart' = BeforeSection \o HeadTexts(secs[sec])
  <2>1. BeforeSection' = BeforeSection
    BY <1>1, <1>2, SameArgs DEF BeforeSection
  <2>2. HeadTexts(secs[sec])' = HeadTexts(secs[sec])
    BY <1>1, <1>2, SameArgs
  <2>3. ByPart(Ps)' = ByPart(Ps)
    BY <1>1, <1>6 DEF ByPart, PartTexts, args
  <2>4. BeforePart' = (BeforeSection \o HeadTexts(secs[sec])) \o Upto(ByPart(Ps), 0)
    BY <1>8, <2>1, <2>2, <2>3 DEF BeforePart
  <2> QED
    BY <1>5, <2>4, UptoStart
<1>10. Kept'
  BY <1>2, <1>5, <1>9 DEF Kept
<1>11. Placed'
  <2>1. InSection'
    BY <1>1, <1>2, <1>6, <1>7 DEF InSection, args
  <2> QED
    BY <1>1, <1>2, <2>1 DEF Placed, args
<1>12. Passed'
  <2>1. (\A i \in 1 .. sec - 1 : SectionEnds(secs[i]))'
    BY <1>1, <1>2, SameArgs DEF Passed
  <2>2. 1 .. PartsDone' = {}
    BY <1>8
  <2> QED
    BY <1>2, <2>1, <2>2 DEF Passed
<1> QED
  BY <1>1, <1>5, <1>10, <1>11, <1>12 DEF IInv

(* The steps that stay in the section. *)
LEMMA PartFacts ==
    ASSUME IInv, pc \in {"part", "size"}, UNCHANGED <<args, sec>>
    PROVE  /\ Ps' = Ps /\ Ps \in Seq(Text) /\ DOMAIN Ps = 1 .. Len(Ps) /\ Len(Ps) \in Nat
           /\ secs[sec] \in Section
           /\ ByPart(Ps)' = ByPart(Ps)
           /\ BeforeSection' = BeforeSection
           /\ BeforeSection \o HeadTexts(secs[sec]) \in Seq(Text)
           /\ HeadTexts(secs[sec])' = HeadTexts(secs[sec])
           /\ BeforePart \in Seq(Text)
           /\ RestOf(parts, Ps) /\ sec <= Len(secs)
           /\ (\A i \in 1 .. sec - 1 : SectionEnds(secs[i]))'
           /\ \A i \in 1 .. PartsDone : PartEnds(Ps[i])
           /\ \A i \in 1 .. PartsDone : (PartEnds(Ps[i]))'
<1>1. Ps \in Seq(Text) /\ secs[sec] \in Section /\ BeforePart \in Seq(Text)
      /\ BeforeSection \in Seq(Text)
  BY Due
<1>2. Ps' = Ps /\ HeadTexts(secs[sec])' = HeadTexts(secs[sec])
  BY DEF Ps, PartsOf, HeadTexts, args
<1>3. ByPart(Ps)' = ByPart(Ps)
  BY <1>2 DEF ByPart, PartTexts, args
<1>4. BeforeSection' = BeforeSection
  BY SameArgs DEF BeforeSection
<1>5. BeforeSection \o HeadTexts(secs[sec]) \in Seq(Text)
  BY <1>1, HeadTextsType, ConcatProperties
<1>6. RestOf(parts, Ps) /\ sec <= Len(secs)
  BY DEF IInv, Placed, InSection
<1>7. /\ (\A i \in 1 .. sec - 1 : SectionEnds(secs[i]))'
      /\ \A i \in 1 .. PartsDone : PartEnds(Ps[i])
  <2>1. Passed
    BY DEF IInv
  <2> QED
    BY <2>1, SameArgs DEF Passed
<1>8. \A i \in 1 .. PartsDone : (PartEnds(Ps[i]))'
  BY <1>2, <1>7 DEF PartEnds, SizeEnds, Sz, Overlap, args
<1>9. DOMAIN Ps = 1 .. Len(Ps) /\ Len(Ps) \in Nat
  BY <1>1
<1> QED
  BY <1>1, <1>2, <1>3, <1>4, <1>5, <1>6, <1>7, <1>8, <1>9

(* One part is done, all it was due is kept. *)
LEMMA PartDone ==
    ASSUME IInv, pc \in {"part", "size"}, parts # <<>>, Step, UNCHANGED walk,
           UNCHANGED <<args, output, sec>>, parts' = Tail(parts), pc' = "part",
           PartEnds(Head(parts)),
           Texts = FirstOccurrences(BeforePart \o PartTexts(Head(parts)))
    PROVE  IInv'
<1>1. /\ UNCHANGED args /\ Parsed' /\ Len(secs) \in Nat
      /\ sec \in 1 .. Len(secs) + 1 /\ Numbered /\ secs' = secs /\ sec' = sec
  BY StepFacts DEF args
<1> DEFINE d == PartsDone
           base == BeforeSection \o HeadTexts(secs[sec])
           f == ByPart(Ps)
<1>2. /\ Ps' = Ps /\ Ps \in Seq(Text) /\ DOMAIN Ps = 1 .. Len(Ps) /\ Len(Ps) \in Nat
      /\ f' = f /\ base' = base /\ base \in Seq(Text)
      /\ RestOf(parts, Ps) /\ sec <= Len(secs)
      /\ (\A i \in 1 .. sec - 1 : SectionEnds(secs[i]))'
      /\ \A i \in 1 .. d : PartEnds(Ps[i])
      /\ \A i \in 1 .. d : (PartEnds(Ps[i]))'
  BY PartFacts
<1>3. /\ RestOf(parts', Ps) /\ PartsDone' = d + 1 /\ d \in Nat /\ d + 1 \in 1 .. Len(Ps)
      /\ Head(parts) = Ps[d + 1]
  BY <1>2, RestTail DEF PartsDone
<1>4. \A i \in 1 .. d : f[i] \in Seq(Text)
  BY <1>2, <1>3, PassedTexts DEF ByPart
<1>5. f[d + 1] = PartTexts(Head(parts)) /\ PartTexts(Head(parts)) \in Seq(Text)
  <2>1. Head(parts) \in Text /\ cfg \in Settings
    BY <1>2, <1>3 DEF IInv, Parsed
  <2> QED
    BY <1>2, <1>3, <2>1, PartTextsType DEF ByPart
<1>6. Numbered' /\ Texts' = Texts
  BY <1>1, EmitNothing
<1>7. BeforePart = base \o Upto(f, d) /\ BeforePart' = base \o Upto(f, d + 1)
  BY <1>2, <1>3 DEF BeforePart
<1> HIDE DEF base, f, d
<1>8. Texts' = FirstOccurrences(BeforePart')
  <2>1. base \o Upto(f, d + 1) = (base \o Upto(f, d)) \o f[d + 1]
    <3>1. f[d + 1] \in Seq(Text)
      BY <1>5
    <3>2. base \in Seq(Text) /\ d \in Nat
      BY <1>2, <1>3
    <3> QED
      BY ONLY <1>4, <3>1, <3>2, UptoGrows
  <2> QED
    BY <1>5, <1>6, <1>7, <2>1
<1>9. Kept'
  BY <1>8 DEF Kept
<1>10. Placed'
  <2>1. InSection'
    BY <1>1, <1>2, <1>3 DEF InSection
  <2> QED
    BY <1>1, <2>1 DEF Placed
<1>11. Passed'
  <2>1. PartEnds(Ps[d + 1])
    BY <1>3
  <2>2. \A i \in 1 .. d + 1 : i \in 1 .. d \/ i = d + 1
    BY <1>3
  <2>3. \A i \in 1 .. d + 1 : PartEnds(Ps[i])
    BY <1>2, <2>1, <2>2
  <2>4. \A i \in 1 .. d + 1 : (PartEnds(Ps[i]))'
    BY <1>1, <1>2, <2>3 DEF PartEnds, SizeEnds, Sz, Overlap, args
  <2>5. \A i \in 1 .. PartsDone' : (PartEnds(Ps[i]))'
    BY <1>3, <2>4
  <2> QED
    BY <1>2, <2>5 DEF Passed
<1> QED
  BY <1>1, <1>6, <1>9, <1>10, <1>11 DEF IInv

LEMMA SkipStep ==
    ASSUME IInv, SkipEmptyPart, UNCHANGED walk
    PROVE  IInv'
<1>1. /\ pc = "part" /\ parts # <<>> /\ tokenize(Head(parts)) = <<>>
      /\ parts' = Tail(parts) /\ pc' = "part" /\ UNCHANGED <<args, output, sec>> /\ Step
  BY DEF SkipEmptyPart, Step
<1>2. cfg \in Settings /\ Kept
  BY DEF IInv, Parsed
<1>3. PartTexts(Head(parts)) = <<>> /\ PartEnds(Head(parts))
  <2>1. PartTexts(Head(parts)) = <<>>
    BY <1>1, <1>2, PartTextsIs
  <2>2. Len(tokenize(Head(parts))) = 0
    BY <1>1
  <2>3. \A i \in DOMAIN Sz : 0 <= StepOf(Sz[i])
    BY <1>2, SettingsType
  <2> QED
    BY <2>1, <2>2, <2>3 DEF PartEnds, SizeEnds
<1>4. BeforePart \in Seq(Text) /\ Texts = FirstOccurrences(BeforePart)
  BY <1>1, <1>2, Due DEF Kept
<1>5. BeforePart \o PartTexts(Head(parts)) = BeforePart
  BY <1>3, <1>4, ConcatEmptySeq
<1> QED
  BY <1>1, <1>3, <1>4, <1>5, PartDone

LEMMA EnterStep ==
    ASSUME IInv, EnterPart, UNCHANGED walk
    PROVE  IInv'
<1>1. /\ pc = "part" /\ parts # <<>> /\ tokenize(Head(parts)) # <<>>
      /\ sizes' = SizesOf(cfg) /\ start' = 0 /\ pc' = "size"
      /\ UNCHANGED <<args, output, sec, parts>> /\ Step
  BY DEF EnterPart, Step
<1>2. /\ Parsed' /\ cfg \in Settings /\ Kept /\ Numbered /\ sec \in 1 .. Len(secs) + 1
      /\ Len(secs) \in Nat /\ secs' = secs /\ sec' = sec /\ parts' = parts /\ cfg' = cfg
  BY <1>1, StepFacts DEF args
<1>3. /\ Ps' = Ps /\ Ps \in Seq(Text) /\ Len(Ps) \in Nat
      /\ ByPart(Ps)' = ByPart(Ps)
      /\ BeforeSection' = BeforeSection /\ HeadTexts(secs[sec])' = HeadTexts(secs[sec])
      /\ BeforePart \in Seq(Text) /\ RestOf(parts, Ps) /\ sec <= Len(secs)
      /\ (\A i \in 1 .. sec - 1 : SectionEnds(secs[i]))'
      /\ \A i \in 1 .. PartsDone : (PartEnds(Ps[i]))'
  BY <1>1, PartFacts
<1>4. PartsDone' = PartsDone /\ BeforePart' = BeforePart
  BY <1>2, <1>3 DEF PartsDone, BeforePart
<1>5. Sz \in Seq(Int) /\ sizes' = Sz /\ Sz' = Sz
  BY <1>1, <1>2, SettingsType DEF Sz
<1>6. RestOf(Sz, Sz) /\ SizesDone' = 0
  BY <1>5, RestAll DEF SizesDone
<1>7. Head(parts) \in Text /\ Tokens' = Tokens
  <2>1. Head(parts) \in Text
    BY <1>1, <1>3, RestTail
  <2> QED
    BY <1>2, <2>1 DEF Tokens
<1>8. Tokens # <<>> /\ Len(Tokens) \in Nat \ {0}
  <2>1. Tokens \in Line
    BY <1>7, tokenizeType DEF Tokens
  <2> QED
    BY <1>1, <2>1 DEF Tokens, Line
<1>9. BeforeSize' = BeforePart
  <2>1. BeforeSize' = BeforePart \o Upto(BySize(Head(parts))', 0)
    BY <1>2, <1>4, <1>6 DEF BeforeSize
  <2> QED
    BY <1>3, <2>1, UptoStart
<1>10. Numbered' /\ Texts' = Texts /\ Texts = FirstOccurrences(BeforePart)
  BY <1>1, <1>2, EmitNothing DEF Kept
<1>11. Kept'
  BY <1>1, <1>9, <1>10 DEF Kept
<1>12. Placed'
  <2>1. InSection'
    BY <1>2, <1>3 DEF InSection
  <2>2. InPart'
    BY <1>1, <1>2, <1>5, <1>6, <1>7, <1>8 DEF InPart
  <2> QED
    BY <1>1, <1>2, <2>1, <2>2 DEF Placed
<1>13. Passed'
  <2>1. 1 .. SizesDone' = {}
    BY <1>6
  <2> QED
    BY <1>1, <1>3, <1>4, <2>1 DEF Passed
<1> QED
  BY <1>2, <1>10, <1>11, <1>12, <1>13 DEF IInv

(* The steps that stay in the part. *)
LEMMA SizeFacts ==
    ASSUME IInv, pc = "size", Step, UNCHANGED walk, UNCHANGED <<args, sec, parts>>
    PROVE  /\ cfg' = cfg /\ parts' = parts /\ Head(parts) \in Text /\ parts # <<>>
           /\ Tokens \in Line /\ Tokens' = Tokens /\ Tokens # <<>> /\ Len(Tokens) \in Nat \ {0}
           /\ Sz \in Seq(Int) /\ Sz' = Sz /\ RestOf(sizes, Sz)
           /\ Overlap \in Nat /\ Overlap' = Overlap
           /\ BySize(Head(parts))' = BySize(Head(parts))
           /\ BeforePart' = BeforePart /\ BeforePart \in Seq(Text) /\ BeforeSize \in Seq(Text)
           /\ InSection' /\ Parsed' /\ Numbered
           /\ sec \in 1 .. Len(secs) + 1 /\ sec' = sec /\ secs' = secs
           /\ (\A i \in 1 .. sec - 1 : SectionEnds(secs[i]))'
           /\ (\A i \in 1 .. PartsDone : PartEnds(Ps[i]))'
           /\ \A i \in 1 .. SizesDone : SizeEnds(Head(parts), Sz[i])
           /\ start \in 0 .. Len(Tokens) - 1
           /\ (sizes = <<>> \/ Stuck \/ Len(Tokens) <= Size) => start = 0
<1>1. /\ Parsed' /\ cfg \in Settings /\ Kept /\ Numbered /\ sec \in 1 .. Len(secs) + 1
      /\ Len(secs) \in Nat /\ secs' = secs /\ sec' = sec /\ parts' = parts /\ cfg' = cfg
  BY StepFacts DEF args
<1>2. /\ Ps' = Ps /\ Ps \in Seq(Text) /\ Len(Ps) \in Nat
      /\ ByPart(Ps)' = ByPart(Ps)
      /\ BeforeSection' = BeforeSection /\ HeadTexts(secs[sec])' = HeadTexts(secs[sec])
      /\ BeforePart \in Seq(Text) /\ RestOf(parts, Ps) /\ sec <= Len(secs)
      /\ (\A i \in 1 .. sec - 1 : SectionEnds(secs[i]))'
      /\ \A i \in 1 .. PartsDone : (PartEnds(Ps[i]))'
  BY PartFacts
<1>3. PartsDone' = PartsDone /\ BeforePart' = BeforePart
  BY <1>1, <1>2 DEF PartsDone, BeforePart
<1>4. (\A i \in 1 .. PartsDone : PartEnds(Ps[i]))'
  BY <1>2, <1>3
<1>5. InSection'
  BY <1>1, <1>2 DEF InSection
<1>6. InPart
  BY DEF IInv, Placed
<1>7. Head(parts) \in Text /\ parts # <<>> /\ Tokens' = Tokens
  <2>1. parts # <<>>
    BY <1>6 DEF InPart
  <2>2. Head(parts) \in Text
    BY <1>2, <2>1, RestTail
  <2> QED
    BY <1>1, <2>1, <2>2 DEF Tokens
<1>8. Tokens \in Line /\ Tokens # <<>> /\ Len(Tokens) \in Nat \ {0}
  <2>1. Tokens \in Line
    BY <1>7, tokenizeType DEF Tokens
  <2> QED
    BY <1>6, <2>1 DEF InPart, Line
<1>9. /\ Sz \in Seq(Int) /\ Sz' = Sz /\ RestOf(sizes, Sz)
      /\ Overlap \in Nat /\ Overlap' = Overlap
      /\ start \in 0 .. Len(Tokens) - 1
      /\ (sizes = <<>> \/ Stuck \/ Len(Tokens) <= Size) => start = 0
  BY <1>1, <1>6, SettingsType, SameArgs DEF InPart
<1>10. BySize(Head(parts))' = BySize(Head(parts))
  BY <1>1, <1>9 DEF BySize
<1>11. BeforeSize \in Seq(Text)
  BY Due
<1>12. \A i \in 1 .. SizesDone : SizeEnds(Head(parts), Sz[i])
  BY DEF IInv, Passed
<1> QED
  BY <1>1, <1>2, <1>3, <1>4, <1>5, <1>7, <1>8, <1>9, <1>10, <1>11, <1>12

LEMMA SizeAt ==
    ASSUME IInv, pc = "size", Step, UNCHANGED walk, UNCHANGED <<args, sec, parts>>,
           sizes # <<>>
    PROVE  /\ RestOf(Tail(sizes), Sz) /\ Len(Sz) - Len(Tail(sizes)) = SizesDone + 1
           /\ SizesDone \in Nat
           /\ Head(sizes) \in Int /\ Head(sizes) = Sz[SizesDone + 1] /\ Size \in Nat \ {0}
           /\ BySize(Head(parts))[SizesDone + 1] = Window
<1>1. /\ Sz \in Seq(Int) /\ RestOf(sizes, Sz) /\ cfg \in Settings
  BY SizeFacts, StepFacts
<1>2. /\ RestOf(Tail(sizes), Sz) /\ Len(Sz) - Len(Tail(sizes)) = SizesDone + 1
      /\ SizesDone \in Nat /\ SizesDone + 1 \in 1 .. Len(Sz)
      /\ Head(sizes) = Sz[SizesDone + 1] /\ Head(sizes) \in Int
  BY <1>1, RestTail DEF SizesDone
<1>3. DOMAIN Sz = 1 .. Len(Sz)
  BY <1>1
<1>4. BySize(Head(parts))[SizesDone + 1] = Window
  BY <1>2, <1>3 DEF BySize, Window, Size
<1>5. Size \in Nat \ {0}
  BY <1>2 DEF Size, StepOf
<1> QED
  BY <1>2, <1>4, <1>5

(* One size is done, all its windows are kept. *)
LEMMA SizeDone ==
    ASSUME IInv, pc = "size", Step, UNCHANGED walk, UNCHANGED <<args, sec, parts>>,
           sizes # <<>>, sizes' = Tail(sizes), start' = 0, pc' = "size", Numbered',
           SizeEnds(Head(parts), Head(sizes)), Window \in Seq(Text),
           Texts' = FirstOccurrences(BeforeSize \o Window)
    PROVE  IInv'
<1> DEFINE d == SizesDone
           f == BySize(Head(parts))
<1>1. /\ parts' = parts /\ parts # <<>>
      /\ Tokens' = Tokens /\ Tokens # <<>> /\ Len(Tokens) \in Nat \ {0}
      /\ Sz' = Sz /\ f' = f
      /\ BeforePart' = BeforePart /\ BeforePart \in Seq(Text)
      /\ InSection' /\ Parsed' /\ sec \in 1 .. Len(secs) + 1 /\ sec' = sec /\ secs' = secs
      /\ (\A i \in 1 .. sec - 1 : SectionEnds(secs[i]))'
      /\ (\A i \in 1 .. PartsDone : PartEnds(Ps[i]))'
      /\ \A i \in 1 .. d : SizeEnds(Head(parts), Sz[i])
      /\ \A i \in 1 .. d : f[i] \in Seq(Text)
  BY SizeFacts, PassedTexts
<1>2. /\ RestOf(sizes', Sz) /\ SizesDone' = d + 1 /\ d \in Nat /\ f[d + 1] = Window
      /\ Head(sizes) = Sz[d + 1]
  BY <1>1, SizeAt DEF SizesDone
<1>3. BeforeSize = BeforePart \o Upto(f, d) /\ BeforeSize' = BeforePart \o Upto(f, d + 1)
  BY <1>1, <1>2 DEF BeforeSize
<1> HIDE DEF f, d
<1>4. f[d + 1] \in Seq(Text)
  BY <1>2
<1>5. Texts' = FirstOccurrences(BeforeSize')
  <2>1. BeforePart \o Upto(f, d + 1) = (BeforePart \o Upto(f, d)) \o f[d + 1]
    <3>1. BeforePart \in Seq(Text) /\ d \in Nat /\ \A i \in 1 .. d : f[i] \in Seq(Text)
      BY <1>1, <1>2
    <3> QED
      BY ONLY <1>4, <3>1, UptoGrows
  <2> QED
    BY <1>2, <1>3, <2>1
<1>6. Kept'
  BY <1>5 DEF Kept
<1>7. Placed'
  <2>1. InPart'
    BY <1>1, <1>2 DEF InPart
  <2> QED
    BY <1>1, <2>1 DEF Placed
<1>8. Passed'
  <2>1. \A i \in 1 .. d + 1 : i \in 1 .. d \/ i = d + 1
    BY <1>2
  <2>2. \A i \in 1 .. d + 1 : SizeEnds(Head(parts), Sz[i])
    BY <1>1, <1>2, <2>1
  <2>3. (\A i \in 1 .. SizesDone : SizeEnds(Head(parts), Sz[i]))'
    BY <1>1, <1>2, <2>2, SameArgs
  <2> QED
    BY <1>1, <2>3 DEF Passed
<1> QED
  BY <1>1, <1>6, <1>7, <1>8 DEF IInv

LEMMA WholeStep ==
    ASSUME IInv, WholePart, UNCHANGED walk
    PROVE  IInv'
<1>1. /\ pc = "size" /\ sizes # <<>> /\ Len(Tokens) <= Size
      /\ Emit(TrimSpace(Head(parts)), Len(Tokens), Size)
      /\ sizes' = Tail(sizes) /\ pc' = "size" /\ start' = start
      /\ UNCHANGED <<args, sec, parts>> /\ Step
  BY DEF WholePart, Step, Tokens, Size
<1>2. /\ Head(parts) \in Text /\ Len(Tokens) \in Nat \ {0} /\ Overlap \in Nat
      /\ BeforeSize \in Seq(Text) /\ Numbered /\ start = 0
  BY <1>1, SizeFacts
<1>3. Size \in Nat \ {0}
  BY <1>1, SizeAt
<1>4. ~Stuck
  BY <1>1, <1>2, <1>3 DEF Stuck
<1>5. Texts = FirstOccurrences(BeforeSize)
  BY <1>1, <1>2, <1>4 DEF IInv, Kept
<1>6. Window = <<TrimSpace(Head(parts))>> /\ Window \in Seq(Text)
      /\ TrimSpace(Head(parts)) \in Text
  BY <1>1, <1>2, <1>3, WindowTextsShape, TrimSpaceType DEF Window, Tokens
<1>7. Numbered' /\ Texts' = FirstOccurrences(BeforeSize \o Window)
  <2> DEFINE t == TrimSpace(Head(parts))
             n == Len(Tokens)
  <2>1. t \in Text /\ n \in Nat /\ Size \in Nat /\ Emit(t, n, Size) /\ Window = <<t>>
    BY <1>1, <1>2, <1>3, <1>6
  <2> HIDE DEF t, n
  <2>2. Numbered' /\ Texts' = FirstOccurrences(BeforeSize \o <<t>>)
    BY ONLY <1>2, <1>5, <2>1, EmitDue
  <2> QED
    BY <2>1, <2>2
<1>8. SizeEnds(Head(parts), Head(sizes))
  BY <1>1 DEF SizeEnds, Tokens, Size
<1> QED
  BY <1>1, <1>2, <1>6, <1>7, <1>8, SizeDone

LEMMA CutStep ==
    ASSUME IInv, CutWindow, UNCHANGED walk
    PROVE  IInv'
<1> DEFINE n == Len(Tokens)
           end == WindowEnd(start, Size, n)
           text == SubSeq(Tokens, start + 1, end)
<1>1. /\ pc = "size" /\ sizes # <<>> /\ n > Size /\ start < n
      /\ Emit(<<text>>, end - start, Size)
      /\ IF end = n THEN sizes' = Tail(sizes) /\ start' = 0
         ELSE sizes' = sizes /\ start' = NextStart(end, Overlap)
      /\ pc' = "size" /\ UNCHANGED <<args, sec, parts>> /\ Step
  BY DEF CutWindow, Step, Tokens, Size, Overlap, LastWindow
<1>2. /\ cfg' = cfg /\ parts' = parts /\ Head(parts) \in Text /\ parts # <<>>
      /\ Tokens \in Line /\ Tokens' = Tokens /\ Tokens # <<>> /\ n \in Nat \ {0}
      /\ Sz' = Sz /\ RestOf(sizes, Sz) /\ Overlap \in Nat /\ Overlap' = Overlap
      /\ BySize(Head(parts))' = BySize(Head(parts))
      /\ BeforePart' = BeforePart /\ BeforeSize \in Seq(Text)
      /\ InSection' /\ Parsed' /\ Numbered
      /\ sec \in 1 .. Len(secs) + 1 /\ sec' = sec /\ secs' = secs
      /\ (\A i \in 1 .. sec - 1 : SectionEnds(secs[i]))'
      /\ (\A i \in 1 .. PartsDone : PartEnds(Ps[i]))'
      /\ \A i \in 1 .. SizesDone : SizeEnds(Head(parts), Sz[i])
      /\ start \in 0 .. n - 1
      /\ Stuck => start = 0
  BY <1>1, SizeFacts
<1>3. Size \in Nat \ {0} /\ start \in Nat
  BY <1>1, <1>2, SizeAt
<1>4. end \in Nat /\ start < end /\ end <= n /\ end - start \in Nat
  BY <1>1, <1>2, <1>3 DEF WindowEnd
<1>5. <<text>> \in Text
  BY <1>2, <1>3, <1>4, CutType
<1> HIDE DEF text, end, n
<1>6. Numbered'
  BY <1>1, <1>2, <1>3, <1>4, <1>5, EmitOne
(* While the size is not done. *)
<1>7. ASSUME end # n, start' \in 0 .. n - 1, Stuck => start' = 0,
             start' > 0 =>
               \E j \in 1 .. Extra(n, Size, Overlap) :
                  /\ start' = j * Stride
                  /\ Texts' = FirstOccurrences(BeforeSize \o SubSeq(Window, 1, j)),
             start' = 0 => Stuck
      PROVE  IInv'
  <2>1. sizes' = sizes
    BY <1>1, <1>7
  <2>2. /\ Size' = Size /\ SizesDone' = SizesDone /\ Stride' = Stride
        /\ Stuck' <=> Stuck
        /\ n' = n
    BY <1>2, <2>1 DEF Size, SizesDone, Stride, Stuck, n
  <2>3. Window' = Window /\ BeforeSize' = BeforeSize
    BY <1>2, <2>1, <2>2 DEF Window, BeforeSize
  <2>4. Kept'
    BY <1>1, <1>2, <1>7, <2>2, <2>3 DEF Kept, n
  <2>5. Placed'
    <3>1. ~(n <= Size) /\ sizes # <<>>
      BY <1>1, <1>2, <1>3
    <3>2. InPart'
      BY <1>2, <1>7, <2>1, <2>2, <3>1 DEF InPart, n
    <3> QED
      BY <1>1, <1>2, <3>2 DEF Placed, InSection
  <2>6. Passed'
    BY <1>1, <1>2, <2>2, SameArgs DEF Passed
  <2> QED
    BY <1>2, <1>6, <2>4, <2>5, <2>6 DEF IInv
<1>8. CASE Overlap >= Size
  <2>1. Stuck /\ start = 0
    BY <1>1, <1>2, <1>8 DEF Stuck, n
  <2>2. end = Size /\ end # n
    BY <1>1, <1>2, <1>3, <2>1 DEF end, WindowEnd
  <2>3. start' = 0
    BY <1>1, <1>2, <1>3, <1>8, <2>2 DEF NextStart
  <2> QED
    BY <1>2, <1>7, <2>1, <2>2, <2>3
<1>9. CASE Overlap < Size
  <2> DEFINE q == Extra(n, Size, Overlap)
  <2>1. /\ Window \in Seq(Text) /\ q \in Nat /\ Len(Window) = q + 1
        /\ \A j \in 0 .. q :
              Window[j + 1] =
                 <<SubSeq(Tokens, j * Stride + 1, WindowEnd(j * Stride, Size, n))>>
    BY <1>1, <1>2, <1>3, <1>9, WindowTextsShape DEF Window, Tokens, Stride, n
  <2> HIDE DEF q
  <2>2. ~Stuck
    BY <1>2, <1>3, <1>9 DEF Stuck
  <2>3. PICK j \in 0 .. q : start = j * Stride
                          /\ Texts = FirstOccurrences(BeforeSize \o SubSeq(Window, 1, j))
    <3>1. CASE start = 0
      <4>1. Texts = FirstOccurrences(BeforeSize)
        BY <1>1, <2>2, <3>1 DEF IInv, Kept
      <4>2. SubSeq(Window, 1, 0) = <<>>
        BY SubSeqEmpty
      <4>3. BeforeSize \o SubSeq(Window, 1, 0) = BeforeSize
        BY <1>2, <4>2, ConcatEmptySeq
      <4>4. 0 * Stride = 0
        BY <1>2, <1>3 DEF Stride
      <4>5. 0 \in 0 .. q
        BY <2>1
      <4> QED
        BY <3>1, <4>1, <4>3, <4>4, <4>5
    <3>2. CASE start > 0
      <4>1. \E j \in 1 .. q : start = j * Stride
                          /\ Texts = FirstOccurrences(BeforeSize \o SubSeq(Window, 1, j))
        BY <1>1, <3>2 DEF IInv, Kept, q, n
      <4>2. 1 .. q \subseteq 0 .. q
        BY <2>1
      <4> QED
        BY <4>1, <4>2
    <3> QED
      BY <1>3, <3>1, <3>2
  <2>4. /\ Stride \in Nat \ {0} /\ j * Stride = start
        /\ (end = n <=> j = q)
        /\ (end # n => NextStart(end, Overlap) = (j + 1) * Stride)
    BY <1>1, <1>2, <1>3, <1>9, <2>3, WindowLoop DEF Stride, end, q
  <2>5. j \in Nat /\ j + 1 \in 1 .. q + 1
    BY <2>1
  <2>6. Window[j + 1] = <<text>>
    BY <2>1, <2>3 DEF text, end
  <2>7. SubSeq(Window, 1, j) \in Seq(Text)
        /\ SubSeq(Window, 1, j + 1) = SubSeq(Window, 1, j) \o <<<<text>>>>
    <3>1. 1 \in 1 .. Len(Window) /\ j + 1 \in 1 .. Len(Window) /\ (j + 1) - 1 = j
      BY <2>1, <2>5
    <3>2. SubSeq(Window, 1, j + 1) = SubSeq(Window, 1, (j + 1) - 1) \o <<Window[j + 1]>>
      BY <2>1, <3>1, SubSeqRecursiveSecond
    <3>3. 1 \in Int /\ j \in Int /\ \A i \in 1 .. j : Window[i] \in Text
      BY <2>1, <2>5
    <3>4. SubSeq(Window, 1, j) \in Seq(Text)
      BY <3>3, SubSeqProperties
    <3> QED
      BY <2>6, <3>1, <3>2, <3>4
  <2>8. Texts' = FirstOccurrences(BeforeSize \o SubSeq(Window, 1, j + 1))
    <3> DEFINE w == SubSeq(Window, 1, j)
               t == <<text>>
               c == end - start
    <3>1. /\ w \in Seq(Text) /\ t \in Text /\ c \in Nat /\ Size \in Nat
          /\ BeforeSize \in Seq(Text)
          /\ Emit(t, c, Size) /\ Numbered /\ Texts = FirstOccurrences(BeforeSize \o w)
          /\ SubSeq(Window, 1, j + 1) = w \o <<t>>
      BY <1>1, <1>2, <1>3, <1>4, <1>5, <2>3, <2>7
    <3> HIDE DEF w, t, c
    <3>2. BeforeSize \o w \in Seq(Text)
      BY <3>1, ConcatProperties
    <3>3. Texts' = FirstOccurrences((BeforeSize \o w) \o <<t>>)
      BY ONLY <3>1, <3>2, EmitDue
    <3>4. (BeforeSize \o w) \o <<t>> = BeforeSize \o (w \o <<t>>)
      <4>1. <<t>> \in Seq(Text)
        BY <3>1
      <4> QED
        BY ONLY <3>1, <4>1, ConcatAssociative
    <3> QED
      BY <3>1, <3>3, <3>4
  <2>9. CASE end = n
    <3>1. j + 1 = Len(Window)
      BY <2>1, <2>4, <2>9
    <3>2. SubSeq(Window, 1, j + 1) = Window
      BY <2>1, <3>1, SubSeqFull
    <3>3. sizes' = Tail(sizes) /\ start' = 0
      BY <1>1, <2>9
    <3>4. SizeEnds(Head(parts), Head(sizes))
      BY <1>9 DEF SizeEnds, Size
    <3> QED
      BY <1>1, <1>6, <2>1, <2>8, <3>2, <3>3, <3>4, SizeDone
  <2>10. CASE end # n
    <3>1. start' = (j + 1) * Stride /\ j # q
      BY <1>1, <2>4, <2>10
    <3>2. j + 1 \in 1 .. q /\ j + 1 \in 0 .. q
      BY <2>1, <2>3, <2>5, <3>1
    <3>3. start' \in Nat /\ start' < n
      BY <1>1, <1>2, <1>3, <1>9, <3>1, <3>2, WindowLoop DEF Stride, q
    <3>4. start' > 0
      <4>1. (j + 1) * Stride = j * Stride + Stride
        BY <2>4, <2>5
      <4> QED
        BY <1>3, <2>4, <3>1, <4>1
    <3>5. start' \in 0 .. n - 1
      BY <1>2, <3>3
    <3>6. \E i \in 1 .. Extra(n, Size, Overlap) :
             /\ start' = i * Stride
             /\ Texts' = FirstOccurrences(BeforeSize \o SubSeq(Window, 1, i))
      BY <2>8, <3>1, <3>2 DEF q
    <3> QED
      BY <1>7, <2>2, <2>10, <3>4, <3>5, <3>6
  <2> QED
    BY <2>9, <2>10
<1> QED
  BY <1>2, <1>3, <1>8, <1>9

LEMMA LeavePartStep ==
    ASSUME IInv, LeavePart, UNCHANGED walk
    PROVE  IInv'
<1> DEFINE f == BySize(Head(parts))
<1>1. /\ pc = "size" /\ sizes = <<>> /\ parts' = Tail(parts) /\ pc' = "part"
      /\ UNCHANGED <<args, output, sec>> /\ Step
  BY DEF LeavePart, Step
<1>2. /\ pc \in {"part", "size"} /\ cfg \in Settings /\ Kept /\ Passed /\ InPart
  BY <1>1 DEF IInv, Parsed, Placed
<1>3. /\ RestOf(sizes, Sz) /\ Sz \in Seq(Int) /\ Len(sizes) = 0
      /\ parts # <<>> /\ Tokens # <<>> /\ start = 0
  BY <1>1, <1>2, SettingsType DEF InPart
<1>4. SizesDone = Len(Sz) /\ Len(Sz) \in Nat /\ DOMAIN Sz = 1 .. Len(Sz)
  BY <1>3 DEF SizesDone
<1>5. \A i \in 1 .. Len(Sz) : f[i] \in Seq(Text)
  BY <1>1, <1>4, PassedTexts
<1>6. f \in Seq(Seq(Text)) /\ Len(f) = Len(Sz)
  <2>1. f = [i \in 1 .. Len(Sz) |-> f[i]]
    BY <1>4 DEF BySize
  <2> HIDE DEF f
  <2> QED
    BY <1>4, <1>5, <2>1
<1>7. PartTexts(Head(parts)) = FlattenSeq(f)
  BY <1>2, <1>3, PartTextsIs DEF Tokens
<1>8. PartEnds(Head(parts))
  BY <1>1, <1>2, <1>4 DEF Passed, PartEnds
<1>9. BeforeSize = BeforePart \o PartTexts(Head(parts))
  <2>1. Upto(f, Len(f)) = FlattenSeq(f)
    <3> HIDE DEF f
    <3> QED
      BY <1>6, UptoAll
  <2> QED
    BY <1>4, <1>6, <1>7, <2>1 DEF BeforeSize
<1>10. Texts = FirstOccurrences(BeforeSize)
  <2>1. ~Stuck
    BY <1>1 DEF Stuck
  <2> QED
    BY <1>1, <1>2, <1>3, <2>1 DEF Kept
<1> QED
  BY <1>1, <1>2, <1>3, <1>8, <1>9, <1>10, PartDone

LEMMA LeaveSectionStep ==
    ASSUME IInv, LeaveSection, UNCHANGED walk
    PROVE  IInv'
<1>1. /\ pc = "part" /\ parts = <<>> /\ sec' = sec + 1 /\ pc' = "section"
      /\ UNCHANGED <<args, output>> /\ Step
  BY DEF LeaveSection, Step
<1>2. /\ Parsed' /\ secs \in Seq(Section) /\ Len(secs) \in Nat /\ cfg \in Settings
      /\ sec \in 1 .. Len(secs) + 1 /\ sec - 1 \in Nat
      /\ Numbered /\ Placed /\ Passed /\ Kept /\ secs' = secs /\ cfg' = cfg
  BY <1>1, StepFacts DEF args
<1> DEFINE f == ByPart(Ps)
           h == HeadTexts(secs[sec])
           s == SectionTexts(secs[sec])
           g == BySection
<1>3. /\ Ps \in Seq(Text) /\ DOMAIN Ps = 1 .. Len(Ps) /\ Len(Ps) \in Nat
      /\ RestOf(parts, Ps) /\ sec <= Len(secs)
      /\ \A i \in 1 .. PartsDone : PartTexts(Ps[i]) \in Seq(Text)
  <2>1. InSection /\ secs[sec] \in Section
    BY <1>1, <1>2, Due DEF Placed
  <2>2. Ps \in Seq(Text)
    BY <2>1, PartsOfType DEF Ps
  <2> QED
    BY <1>1, <1>2, <2>1, <2>2, PassedTexts DEF InSection
<1>4. PartsDone = Len(Ps)
  BY <1>1, <1>3 DEF PartsDone
<1>5. f \in Seq(Seq(Text)) /\ Len(f) = Len(Ps)
  <2>1. f = [i \in 1 .. Len(Ps) |-> f[i]] /\ \A i \in 1 .. Len(Ps) : f[i] \in Seq(Text)
    BY <1>3, <1>4 DEF ByPart
  <2> HIDE DEF f
  <2> QED
    BY <1>3, <2>1
<1>6. BeforeSection \in Seq(Text) /\ h \in Seq(Text)
  BY <1>1, <1>2, <1>3, Due, HeadTextsType
<1>7. s = h \o FlattenSeq(f)
  BY SectionTextsIs DEF Ps
<1>8. Upto(f, PartsDone) = FlattenSeq(f) /\ FlattenSeq(f) \in Seq(Text)
  <2> HIDE DEF f
  <2> QED
    BY <1>4, <1>5, UptoAll, FlattenType
<1>9. s \in Seq(Text) /\ BeforePart = BeforeSection \o s
  <2>1. BeforePart = (BeforeSection \o h) \o FlattenSeq(f)
    BY <1>8 DEF BeforePart
  <2> DEFINE u == FlattenSeq(f)
  <2> HIDE DEF u, h
  <2>2. (BeforeSection \o h) \o u = BeforeSection \o (h \o u)
    BY <1>6, <1>8, ConcatAssociative DEF u
  <2>3. h \o u \in Seq(Text)
    BY <1>6, <1>8, ConcatProperties DEF u
  <2> QED
    BY <1>7, <2>1, <2>2, <2>3 DEF u
<1>10. /\ \A i \in 1 .. sec - 1 : g[i] \in Seq(Text)
       /\ g[sec] = s
  BY <1>2, <1>3, PassedTexts DEF BySection
<1>11. TocTexts \in Seq(Text)
  BY <1>2, TocTextsType
<1>12. BeforeSection' = BeforeSection \o s
  <2>1. BeforeSection' = TocTexts \o Upto(g, (sec - 1) + 1)
    <3>1. sec' - 1 = (sec - 1) + 1
      BY <1>1, <1>2
    <3> QED
      BY <1>1, <3>1, SameArgs DEF BeforeSection
  <2>2. BeforeSection = TocTexts \o Upto(g, sec - 1)
    BY DEF BeforeSection
  <2>3. g[(sec - 1) + 1] = s
    BY <1>2, <1>10
  <2> HIDE DEF g, s
  <2>4. TocTexts \o Upto(g, (sec - 1) + 1) = (TocTexts \o Upto(g, sec - 1)) \o g[(sec - 1) + 1]
    <3> DEFINE m == sec - 1
    <3>1. m \in Nat /\ g[m + 1] \in Seq(Text) /\ \A i \in 1 .. m : g[i] \in Seq(Text)
      BY <1>2, <1>9, <1>10, <2>3
    <3> HIDE DEF m
    <3>2. TocTexts \o Upto(g, m + 1) = (TocTexts \o Upto(g, m)) \o g[m + 1]
      BY ONLY <1>11, <3>1, UptoGrows
    <3> QED
      BY <3>2 DEF m
  <2> QED
    BY <2>1, <2>2, <2>3, <2>4
<1>13. Numbered' /\ Texts' = Texts
  BY <1>1, <1>2, EmitNothing
<1>14. Kept'
  <2>1. Texts = FirstOccurrences(BeforePart)
    BY <1>1, <1>2 DEF Kept
  <2> QED
    BY <1>1, <1>9, <1>12, <1>13, <2>1 DEF Kept
<1>15. Placed'
  BY <1>1, <1>2, <1>3 DEF Placed
<1>16. Passed'
  <2>1. \A i \in 1 .. sec : i \in 1 .. sec - 1 \/ i = sec
    BY <1>2
  <2>2. \A i \in 1 .. sec : SectionEnds(secs[i])
    <3>1. SectionEnds(secs[sec])
      BY <1>1, <1>2, <1>3, <1>4 DEF SectionEnds, Ps, Passed
    <3> QED
      BY <1>2, <2>1, <3>1 DEF Passed
  <2>3. \A i \in 1 .. sec' - 1 : i \in 1 .. sec
    BY <1>1, <1>2
  <2>4. (\A i \in 1 .. sec - 1 : SectionEnds(secs[i]))'
    BY <1>1, <1>2, <2>2, <2>3, SameArgs
  <2> QED
    BY <1>1, <2>4 DEF Passed
<1> QED
  BY <1>2, <1>13, <1>14, <1>15, <1>16 DEF IInv

LEMMA ReturnStep ==
    ASSUME IInv, Return, UNCHANGED walk
    PROVE  IInv'
<1>1. /\ pc = "section" /\ sec > Len(secs) /\ pc' = "done"
      /\ UNCHANGED <<args, output>> /\ sec' = sec /\ Step
  BY DEF Return, Step
<1>2. /\ Parsed' /\ secs \in Seq(Section) /\ Len(secs) \in Nat
      /\ sec \in 1 .. Len(secs) + 1
      /\ Numbered /\ Passed /\ Kept /\ secs' = secs
  BY <1>1, StepFacts DEF args
<1>3. Numbered' /\ Texts' = Texts
  BY <1>1, <1>2, EmitNothing
<1>4. BeforeSection' = BeforeSection
  BY <1>1, SameArgs DEF BeforeSection
<1>5. Kept'
  BY <1>1, <1>2, <1>3, <1>4 DEF Kept
<1>6. Placed'
  BY <1>1, <1>2 DEF Placed
<1>7. Passed'
  BY <1>1, <1>2, SameArgs DEF Passed
<1> QED
  BY <1>2, <1>3, <1>5, <1>6, <1>7 DEF IInv

-----------------------------------------------------------------------------
(* The invariant. *)

LEMMA InitInv == MDInit => IInv
<1> SUFFICES ASSUME MDInit PROVE IInv
  OBVIOUS
<1>1. /\ cur = <<>> /\ buf = Empty /\ at = 1 /\ chunks = <<>> /\ seen = {} /\ nextID = 0
      /\ sec = 1 /\ cfg \in Configs /\ pc \in {"parse", "toc"}
  BY DEF MDInit
<1>2. cfg \in Settings
  BY <1>1, ChunkingAssumption
<1>3. ASSUME file = NoFile, secs \in Documents, pc = "toc" PROVE Parsed
  BY <1>2, <1>3, ChunkingAssumption DEF Parsed, Sections
<1>4. ASSUME file \in Files, secs = <<>>, pc = "parse" PROVE Parsed
  <2>1. file \in Seq(Block) /\ Len(file) \in Nat
    BY <1>4, MarkdownAssumption
  <2>2. HeadsTo(file, at - 1) = <<>> /\ at - 1 = 0
    BY <1>1, HeadsNone
  <2>3. buf = WrittenBy(file, 1, at - 1)
    <3>1. 1 \in 1 .. Len(file) + 1
      BY <2>1
    <3> QED
      BY <1>1, <2>1, <3>1, WrittenByEmpty
  <2>4. Walked
    BY <1>1, <1>4, <2>1, <2>2, <2>3 DEF Walked
  <2> QED
    BY <1>2, <1>4, <2>4 DEF Parsed
<1>5. Parsed
  BY <1>3, <1>4 DEF MDInit
<1>6. Numbered
  <2>1. Texts = <<>>
    BY <1>1 DEF Texts
  <2>2. ToSet(<<>>) = {}
    BY DEF ToSet
  <2>3. <<>> \in Seq(Chunk) /\ Len(<<>>) = 0 /\ DOMAIN <<>> = {}
    OBVIOUS
  <2> QED
    BY <1>1, <2>1, <2>2, <2>3 DEF Numbered
<1>7. Placed
  <2>1. Len(secs) \in Nat
    BY <1>5 DEF Parsed
  <2> QED
    BY <1>1, <2>1 DEF Placed
<1>8. Passed /\ Kept
  BY <1>1 DEF Passed, Kept
<1> QED
  BY <1>5, <1>6, <1>7, <1>8 DEF IInv

LEMMA NoStep ==
    ASSUME IInv, UNCHANGED mdvars
    PROVE  IInv'
<1>1. UNCHANGED <<args, output, walk, pc, sec, parts, sizes, start>>
  BY DEF mdvars, vars
<1>2. Parsed'
  BY <1>1 DEF IInv, Parsed, Walked, Sections, args, walk
<1>3. Numbered' /\ Texts' = Texts
  BY <1>1, EmitNothing DEF IInv
<1>4. /\ Ps' = Ps /\ PartsDone' = PartsDone /\ Sz' = Sz /\ SizesDone' = SizesDone
      /\ Tokens' = Tokens /\ Size' = Size /\ Overlap' = Overlap /\ Stride' = Stride
      /\ Stuck' = Stuck /\ Window' = Window
      /\ BeforeSection' = BeforeSection /\ BeforePart' = BeforePart /\ BeforeSize' = BeforeSize
  <2>1. Ps' = Ps /\ PartsDone' = PartsDone /\ Sz' = Sz /\ SizesDone' = SizesDone
    BY <1>1 DEF Ps, PartsDone, PartsOf, Sz, SizesDone, args
  <2>2. Tokens' = Tokens /\ Size' = Size /\ Overlap' = Overlap /\ Stride' = Stride
    BY <1>1 DEF Tokens, Size, Overlap, Stride, args
  <2>3. Stuck' = Stuck /\ Window' = Window
    BY <1>1, <2>2 DEF Stuck, Window
  <2>4. BeforeSection' = BeforeSection
    BY <1>1, SameArgs DEF BeforeSection
  <2>5. HeadTexts(secs[sec])' = HeadTexts(secs[sec]) /\ ByPart(Ps)' = ByPart(Ps)
    BY <1>1, <2>1 DEF HeadTexts, ByPart, PartTexts, args
  <2>6. BeforePart' = BeforePart
    BY <2>1, <2>4, <2>5 DEF BeforePart
  <2>7. BySize(Head(parts))' = BySize(Head(parts))
    BY <1>1, <2>1, <2>2 DEF BySize
  <2>8. BeforeSize' = BeforeSize
    BY <2>1, <2>6, <2>7 DEF BeforeSize
  <2> QED
    BY <2>1, <2>2, <2>3, <2>4, <2>6, <2>8
<1>5. Placed'
  <2>1. secs' = secs /\ sec' = sec /\ parts' = parts /\ sizes' = sizes /\ start' = start
        /\ pc' = pc /\ chunks' = chunks
    BY <1>1 DEF args, output
  <2>2. InSection => InSection'
    BY <1>4, <2>1 DEF InSection
  <2>3. InPart => InPart'
    BY <1>4, <2>1 DEF InPart
  <2> QED
    BY <2>1, <2>2, <2>3 DEF IInv, Placed
<1>6. Passed'
  <2>1. Passed
    BY DEF IInv
  <2>2. (\A i \in 1 .. sec - 1 : SectionEnds(secs[i]))'
    BY <1>1, <2>1, SameArgs DEF Passed
  <2>3. (pc \in {"part", "size"} => \A i \in 1 .. PartsDone : PartEnds(Ps[i]))'
    BY <1>1, <1>4, <2>1 DEF Passed, PartEnds, SizeEnds, args
  <2>4. (pc = "size" => \A i \in 1 .. SizesDone : SizeEnds(Head(parts), Sz[i]))'
    BY <1>1, <1>4, <2>1 DEF Passed, SizeEnds
  <2> QED
    BY <2>2, <2>3, <2>4 DEF Passed
<1>7. Kept'
  BY <1>1, <1>3, <1>4 DEF IInv, Kept
<1> QED
  BY <1>2, <1>3, <1>5, <1>6, <1>7 DEF IInv

LEMMA BuildInv ==
    ASSUME IInv, Build
    PROVE  IInv'
<1>1. UNCHANGED walk
  BY DEF Build
<1>2. CASE EmbedTOC      BY <1>1, <1>2, TocStep
<1>3. CASE EnterSection  BY <1>1, <1>3, SectionStep
<1>4. CASE SkipEmptyPart BY <1>1, <1>4, SkipStep
<1>5. CASE EnterPart     BY <1>1, <1>5, EnterStep
<1>6. CASE WholePart     BY <1>1, <1>6, WholeStep
<1>7. CASE CutWindow     BY <1>1, <1>7, CutStep
<1>8. CASE LeavePart     BY <1>1, <1>8, LeavePartStep
<1>9. CASE LeaveSection  BY <1>1, <1>9, LeaveSectionStep
<1>10. CASE Return       BY <1>1, <1>10, ReturnStep
<1> QED
  BY <1>2, <1>3, <1>4, <1>5, <1>6, <1>7, <1>8, <1>9, <1>10 DEF Build, Step

(* IInv holds in every reachable state, whatever the files, the documents  *)
(* and the settings, those under which a part has no last window included. *)
THEOREM Invariance == MDSpec => []IInv
<1>1. MDInit => IInv
  BY InitInv
<1>2. IInv /\ [MDNext]_mdvars => IInv'
  <2> SUFFICES ASSUME IInv, [MDNext]_mdvars PROVE IInv'
    OBVIOUS
  <2>1. CASE Parse
    BY <2>1, ParseInv
  <2>2. CASE Build
    BY <2>2, BuildInv
  <2>3. CASE UNCHANGED mdvars
    BY <2>3, NoStep
  <2> QED
    BY <2>1, <2>2, <2>3 DEF MDNext, Ended
<1> QED
  BY <1>1, <1>2, PTL DEF MDSpec

(* The cursor of BuildChunks stays inside the section and the part it      *)
(* points into, and its two indexes of what it emitted agree with it.      *)
THEOREM TypeCorrect == MDSpec => []TypeOK
<1>1. IInv => TypeOK
  <2> SUFFICES ASSUME IInv PROVE TypeOK
    OBVIOUS
  <2>1. pc = "size" => parts # <<>> /\ start \in 0 .. Len(tokenize(Head(parts))) - 1
    BY DEF IInv, Placed, InPart, Tokens
  <2> QED
    BY <2>1 DEF IInv, Placed, Numbered, TypeOK
<1> QED
  BY <1>1, Invariance, PTL

(* What BuildChunks returns for a file is the reference: every window of   *)
(* every part of every section under every size, in order, each text once. *)
THEOREM AgreesWithReference == MDSpec => []MatchesReference
<1>1. IInv => MatchesReference
  <2> SUFFICES ASSUME IInv, pc = "done" PROVE Texts = Reference(Sections)
    BY DEF MatchesReference
  <2>1. /\ secs \in Seq(Section) /\ Len(secs) \in Nat /\ secs = Sections
        /\ sec = Len(secs) + 1 /\ DOMAIN secs = 1 .. Len(secs)
    BY DEF IInv, Parsed, Placed
  <2>2. Texts = FirstOccurrences(TocTexts \o Upto(BySection, Len(secs)))
    <3>1. sec - 1 = Len(secs)
      BY <2>1
    <3> QED
      BY <3>1 DEF IInv, Kept, BeforeSection
  <2>3. BySection \in Seq(Seq(Text)) /\ Len(BySection) = Len(secs)
    <3>1. sec - 1 = Len(secs)
      BY <2>1
    <3>2. /\ BySection = [i \in 1 .. Len(secs) |-> BySection[i]]
          /\ \A i \in 1 .. Len(secs) : BySection[i] \in Seq(Text)
      BY <2>1, <3>1, PassedTexts DEF BySection
    <3> QED
      BY <2>1, <3>2
  <2>4. Upto(BySection, Len(secs)) = FlattenSeq(BySection)
    BY <2>3, UptoAll
  <2> QED
    BY <2>1, <2>2, <2>4 DEF Reference, TocTexts, BySection
<1> QED
  BY <1>1, Invariance, PTL

(* Between two sections, and without a table of contents, what was stored  *)
(* is what the sections so far would have given by themselves, numbered    *)
(* from 0: later sections change no key.                                   *)
THEOREM KeysKept == MDSpec => []AppendKeepsKeys
<1>1. IInv => AppendKeepsKeys
  <2> SUFFICES ASSUME IInv, pc = "section", ~cfg.embedTOC
               PROVE  /\ Texts = Reference(SubSeq(Sections, 1, sec - 1))
                      /\ \A i \in DOMAIN chunks : chunks[i].id = i - 1
    BY DEF AppendKeepsKeys
  <2> DEFINE n == sec - 1
             u == SubSeq(secs, 1, n)
             g == [i \in DOMAIN u |-> SectionTexts(u[i])]
  <2>1. /\ secs \in Seq(Section) /\ Len(secs) \in Nat /\ secs = Sections
        /\ n \in Nat /\ n <= Len(secs) /\ DOMAIN secs = 1 .. Len(secs)
    BY DEF IInv, Parsed, Placed
  <2>2. Texts = FirstOccurrences(<<>> \o Upto(BySection, n))
    BY DEF IInv, Kept, BeforeSection, TocTexts
  <2>3. \A i \in 1 .. n : BySection[i] \in Seq(Text) /\ BySection[i] = SectionTexts(secs[i])
    BY <2>1, PassedTexts DEF BySection
  <2> HIDE DEF n
  <2>4. /\ u \in Seq(Section) /\ Len(u) = n /\ DOMAIN u = 1 .. n
        /\ \A i \in 1 .. n : u[i] = secs[i]
    <3>1. 1 \in Int /\ n \in Int /\ \A i \in 1 .. n : secs[i] \in Section
      BY <2>1
    <3>2. /\ u \in Seq(Section) /\ Len(u) = IF 1 <= n THEN n - 1 + 1 ELSE 0
          /\ \A i \in 1 .. n - 1 + 1 : u[i] = secs[1 + i - 1]
      BY <3>1, SubSeqProperties
    <3> HIDE DEF u
    <3> QED
      BY <2>1, <3>2
  <2> DEFINE v == SubSeq(BySection, 1, n)
             Y == Seq(Text)
  <2>5. v \in Seq(Y) /\ Len(v) = n /\ \A i \in 1 .. n : v[i] = BySection[i]
    <3>1. 1 \in Int /\ n \in Int /\ \A i \in 1 .. n : BySection[i] \in Y
      BY <2>1, <2>3
    <3> HIDE DEF Y
    <3>2. /\ v \in Seq(Y) /\ Len(v) = IF 1 <= n THEN n - 1 + 1 ELSE 0
          /\ \A i \in 1 .. n - 1 + 1 : v[i] = BySection[1 + i - 1]
      BY <3>1, SubSeqProperties
    <3> HIDE DEF v
    <3> QED
      BY <2>1, <3>2
  <2>6. g = v
    <3>1. g = [i \in 1 .. n |-> SectionTexts(u[i])]
      BY <2>4
    <3> DEFINE S(i) == SectionTexts(u[i])
    <3>2. \A i \in 1 .. n : v[i] = S(i)
      BY <2>3, <2>4, <2>5
    <3> HIDE DEF S, v, Y
    <3>3. v = [i \in 1 .. n |-> S(i)]
      BY <2>1, <2>5, <3>2
    <3> QED
      BY <3>1, <3>3 DEF S
  <2>7. Texts = FirstOccurrences(<<>> \o FlattenSeq(g))
    BY <2>2, <2>6 DEF Upto
  <2>8. Reference(u) = FirstOccurrences(<<>> \o FlattenSeq(g))
    BY DEF Reference
  <2>9. \A i \in DOMAIN chunks : chunks[i].id = i - 1
    BY DEF IInv, Numbered
  <2> QED
    BY <2>1, <2>7, <2>8, <2>9 DEF n
<1> QED
  BY <1>1, Invariance, PTL

-----------------------------------------------------------------------------
(* What a chunk says of its text. *)

(* Emitting what is counted right. *)
LEMMA EmitCounted ==
    ASSUME Numbered, Counted, NEW t \in Text, NEW n \in Nat, NEW size \in Nat,
           Emit(t, n, size),
           n = Len(tokenize(t)), n > 0, size > 0 => n <= size
    PROVE  Counted'
<1>1. CASE UNCHANGED output
  BY <1>1 DEF Counted, output
<1>2. CASE ~(t \in seen)
  <2> DEFINE c == [id |-> nextID, text |-> t, tokens |-> n, size |-> size]
             len == Len(chunks)
  <2>1. chunks' = Append(chunks, c)
    BY <1>2 DEF Emit
  <2>2. /\ chunks \in Seq(Chunk) /\ len \in Nat /\ DOMAIN chunks = 1 .. len
        /\ nextID = len
    BY DEF Numbered
  <2>3. c \in Chunk
    BY <2>2 DEF Chunk
  <2>4. c.tokens = Len(tokenize(c.text)) /\ c.tokens > 0 /\ (c.size > 0 => c.tokens <= c.size)
    OBVIOUS
  <2> HIDE DEF c
  <2>5. /\ DOMAIN chunks' = 1 .. len + 1
        /\ \A i \in 1 .. len + 1 : chunks'[i] = IF i = len + 1 THEN c ELSE chunks[i]
    BY <2>1, <2>2, <2>3
  <2>6. \A i \in DOMAIN chunks' :
           \/ chunks'[i] = c
           \/ i \in DOMAIN chunks /\ chunks'[i] = chunks[i]
    BY <2>2, <2>5
  <2> QED
    BY <2>4, <2>6 DEF Counted
<1> QED
  BY <1>1, <1>2 DEF Emit

LEMMA CountedToc ==
    ASSUME IInv, Counted, EmbedTOC
    PROVE  Counted'
<1> DEFINE t == TOC(secs)
           n == Len(tokenize(t))
<1>1. /\ secs \in Seq(Section) /\ Numbered
      /\ IF cfg.embedTOC /\ t # <<>> THEN Emit(t, n, 0) ELSE UNCHANGED output
  BY DEF EmbedTOC, IInv, Parsed
<1>2. CASE UNCHANGED output
  BY <1>2 DEF Counted, output
<1>3. CASE t # <<>> /\ Emit(t, n, 0)
  <2>1. t \in Text /\ n \in Nat /\ n > 0
    BY <1>1, <1>3, TOCType, TOCHasWords
  <2>2. n = Len(tokenize(t)) /\ 0 \in Nat /\ (0 > 0 => n <= 0)
    OBVIOUS
  <2>3. Emit(t, n, 0)
    BY <1>3
  <2> HIDE DEF t, n
  <2> QED
    BY ONLY <1>1, <2>1, <2>2, <2>3, Counted, EmitCounted
<1> QED
  BY <1>1, <1>2, <1>3

LEMMA CountedHeading ==
    ASSUME IInv, Counted, EnterSection
    PROVE  Counted'
<1> DEFINE head == secs[sec].heading
           t == <<head>>
           n == Len(head)
<1>1. /\ secs \in Seq(Section) /\ sec \in 1 .. Len(secs) + 1 /\ sec <= Len(secs) /\ Numbered
      /\ IF cfg.embedHeadings /\ head # <<>> THEN Emit(t, n, 0) ELSE UNCHANGED output
  BY DEF EnterSection, IInv, Parsed, Placed
<1>2. CASE UNCHANGED output
  BY <1>2 DEF Counted, output
<1>3. CASE head # <<>> /\ Emit(t, n, 0)
  <2>1. head \in Line
    <3>1. secs[sec] \in Section
      BY <1>1
    <3> QED
      BY <3>1 DEF Section
  <2>2. n \in Nat /\ n > 0
    BY <1>3, <2>1 DEF Line
  <2>3. t \in Text /\ n = Len(tokenize(t))
    BY <2>1, OneLine
  <2>4. 0 \in Nat /\ (0 > 0 => n <= 0) /\ Emit(t, n, 0)
    BY <1>3
  <2> HIDE DEF t, n
  <2> QED
    BY ONLY <1>1, <2>2, <2>3, <2>4, Counted, EmitCounted
<1> QED
  BY <1>1, <1>2, <1>3

LEMMA CountedWhole ==
    ASSUME IInv, Counted, WholePart, UNCHANGED walk
    PROVE  Counted'
<1> DEFINE t == TrimSpace(Head(parts))
           n == Len(Tokens)
<1>1. /\ pc = "size" /\ sizes # <<>> /\ n <= Size /\ Emit(t, n, Size) /\ Numbered
      /\ UNCHANGED <<args, sec, parts>> /\ Step
  BY DEF WholePart, Step, Tokens, Size, IInv
<1>2. Head(parts) \in Text /\ n \in Nat /\ n > 0
  BY <1>1, SizeFacts
<1>3. Size \in Nat
  BY <1>1, SizeAt
<1>4. t \in Text /\ n = Len(tokenize(t))
  BY <1>2, TrimSpaceType, TokensTrimmed DEF Tokens
<1>5. (Size > 0 => n <= Size) /\ Emit(t, n, Size)
  BY <1>1
<1> HIDE DEF t, n
<1> QED
  BY ONLY <1>1, <1>2, <1>3, <1>4, <1>5, Counted, EmitCounted

LEMMA CountedWindow ==
    ASSUME IInv, Counted, CutWindow, UNCHANGED walk
    PROVE  Counted'
<1> DEFINE end == WindowEnd(start, Size, Len(Tokens))
           line == SubSeq(Tokens, start + 1, end)
           t == <<line>>
           n == end - start
<1>1. /\ pc = "size" /\ sizes # <<>> /\ Len(Tokens) > Size /\ start < Len(Tokens)
      /\ Emit(t, n, Size) /\ Numbered
      /\ UNCHANGED <<args, sec, parts>> /\ Step
  BY DEF CutWindow, Step, Tokens, Size, IInv
<1>2. /\ Tokens \in Line /\ Len(Tokens) \in Nat \ {0} /\ start \in 0 .. Len(Tokens) - 1
  BY <1>1, SizeFacts
<1>3. Size \in Nat \ {0}
  BY <1>1, SizeAt
<1>4. start \in Nat /\ end \in Nat /\ end <= Len(Tokens) /\ n \in Nat /\ n > 0 /\ n <= Size
  BY <1>1, <1>2, <1>3 DEF WindowEnd
<1> HIDE DEF end
<1>5. line \in Line /\ Len(line) = n
  <2>1. line \in Line
    BY <1>2, <1>4, CutType
  <2>2. start + 1 \in Int /\ end \in Int /\ \A i \in start + 1 .. end : Tokens[i] \in Word
    BY <1>2, <1>4 DEF Line
  <2>3. Len(line) = IF start + 1 <= end THEN end - (start + 1) + 1 ELSE 0
    BY <2>2, SubSeqProperties
  <2> QED
    BY <1>4, <2>1, <2>3
<1>6. t \in Text /\ n = Len(tokenize(t))
  <2> HIDE DEF line
  <2> QED
    BY <1>5, OneLine
<1>7. Size \in Nat /\ (Size > 0 => n <= Size) /\ Emit(t, n, Size)
  BY <1>1, <1>3, <1>4
<1> HIDE DEF t, n
<1> QED
  BY ONLY <1>1, <1>4, <1>6, <1>7, Counted, EmitCounted

(* Every chunk, whatever the file and the settings, says of its text how   *)
(* many tokens it has; it has one, and no more than the window it was cut  *)
(* for.                                                                    *)
THEOREM TokensCounted == MDSpec => []Counted
<1>1. MDInit => Counted
  BY DEF MDInit, Counted
<1>2. IInv /\ Counted /\ [MDNext]_mdvars => Counted'
  <2> SUFFICES ASSUME IInv, Counted, [MDNext]_mdvars PROVE Counted'
    OBVIOUS
  <2>1. CASE UNCHANGED output
    BY <2>1 DEF Counted, output
  <2>2. CASE Parse \/ UNCHANGED mdvars
    <3>1. UNCHANGED output
      BY <2>2 DEF Parse, ReadFails, EnterHeading, EnterBlock, LeaveDocument, mdvars, vars
    <3> QED
      BY <2>1, <3>1
  <2>3. CASE Build
    <3>1. UNCHANGED walk /\ Step
      BY <2>3 DEF Build
    <3>2. CASE EmbedTOC     BY <3>2, CountedToc
    <3>3. CASE EnterSection BY <3>3, CountedHeading
    <3>4. CASE WholePart    BY <3>1, <3>4, CountedWhole
    <3>5. CASE CutWindow    BY <3>1, <3>5, CountedWindow
    <3>6. CASE SkipEmptyPart \/ EnterPart \/ LeavePart \/ LeaveSection \/ Return
      <4>1. UNCHANGED output
        BY <3>6 DEF SkipEmptyPart, EnterPart, LeavePart, LeaveSection, Return
      <4> QED
        BY <2>1, <4>1
    <3> QED
      BY <3>1, <3>2, <3>3, <3>4, <3>5, <3>6 DEF Step
  <2> QED
    BY <2>2, <2>3 DEF MDNext, Ended
<1> QED
  BY <1>1, <1>2, Invariance, PTL DEF MDSpec

-----------------------------------------------------------------------------
(* What is left of a run. *)

LEMMA EightNumbers ==
    ASSUME NEW a \in Nat, NEW b \in Nat, NEW c \in Nat, NEW d \in Nat,
           NEW e \in Nat, NEW f \in Nat, NEW g \in Nat, NEW h \in Nat
    PROVE  <<a, b, c, d, e, f, g, h>> \in [1 .. 8 -> Nat]
OBVIOUS

LEMMA RemainingType ==
    ASSUME IInv
    PROVE  Remaining \in [1 .. 8 -> Nat]
<1> DEFINE a == Stage
           b == IF pc = "parse" THEN Len(file) + 1 - at ELSE 0
           c == Len(secs) + 1 - sec
           d == IF pc = "section" THEN 1 ELSE 0
           e == IF pc \in {"part", "size"} THEN Len(parts) ELSE 0
           f == IF pc = "part" THEN 1 ELSE 0
           g == IF pc = "size" THEN Len(sizes) ELSE 0
           h == IF pc = "size" THEN Len(tokenize(Head(parts))) - start ELSE 0
<1>1. /\ secs \in Seq(Section) /\ Len(secs) \in Nat /\ sec \in 1 .. Len(secs) + 1
      /\ cfg \in Settings
  BY DEF IInv, Parsed, Placed
<1>2. a \in Nat
  BY DEF Stage
<1>3. b \in Nat
  <2>1. CASE pc = "parse"
    <3>1. Walked
      BY <2>1 DEF IInv, Parsed
    <3> QED
      BY <2>1, <3>1, FileType
  <2> QED
    BY <2>1
<1>4. c \in Nat /\ d \in Nat /\ f \in Nat
  BY <1>1
<1>5. e \in Nat
  <2>1. CASE pc \in {"part", "size"}
    <3>1. Ps \in Seq(Text) /\ RestOf(parts, Ps)
      BY <2>1, Due DEF IInv, Placed, InSection
    <3> QED
      BY <2>1, <3>1, RestType
  <2> QED
    BY <2>1
<1>6. g \in Nat
  <2>1. CASE pc = "size"
    <3>1. Sz \in Seq(Int) /\ RestOf(sizes, Sz)
      BY <1>1, <2>1, SettingsType DEF IInv, Placed, InPart
    <3> QED
      BY <2>1, <3>1, RestType
  <2> QED
    BY <2>1
<1>7. h \in Nat
  <2>1. CASE pc = "size"
    <3>1. /\ Ps \in Seq(Text) /\ RestOf(parts, Ps) /\ parts # <<>>
          /\ start \in 0 .. Len(Tokens) - 1
      BY <2>1, Due DEF IInv, Placed, InSection, InPart
    <3>2. Head(parts) \in Text
      BY <3>1, RestTail
    <3>3. Len(Tokens) \in Nat
      BY <3>2, tokenizeType DEF Tokens
    <3> QED
      BY <2>1, <3>1, <3>3 DEF Tokens
  <2> QED
    BY <2>1
<1>8. Remaining = <<a, b, c, d, e, f, g, h>>
  BY DEF Remaining
<1> HIDE DEF a, b, c, d, e, f, g, h
<1> QED
  BY <1>2, <1>3, <1>4, <1>5, <1>6, <1>7, <1>8, EightNumbers

LEMMA RemainingIs ==
    /\ Remaining[1] = Stage
    /\ Remaining[2] = IF pc = "parse" THEN Len(file) + 1 - at ELSE 0
    /\ Remaining[3] = Len(secs) + 1 - sec
    /\ Remaining[4] = IF pc = "section" THEN 1 ELSE 0
    /\ Remaining[5] = IF pc \in {"part", "size"} THEN Len(parts) ELSE 0
    /\ Remaining[6] = IF pc = "part" THEN 1 ELSE 0
    /\ Remaining[7] = IF pc = "size" THEN Len(sizes) ELSE 0
    /\ Remaining[8] = IF pc = "size" THEN Len(Tokens) - start ELSE 0
BY DEF Remaining, Tokens

LEMMA RemainingNext ==
    /\ Remaining'[1] = Stage'
    /\ Remaining'[2] = IF pc' = "parse" THEN Len(file') + 1 - at' ELSE 0
    /\ Remaining'[3] = Len(secs') + 1 - sec'
    /\ Remaining'[4] = IF pc' = "section" THEN 1 ELSE 0
    /\ Remaining'[5] = IF pc' \in {"part", "size"} THEN Len(parts') ELSE 0
    /\ Remaining'[6] = IF pc' = "part" THEN 1 ELSE 0
    /\ Remaining'[7] = IF pc' = "size" THEN Len(sizes') ELSE 0
    /\ Remaining'[8] = IF pc' = "size" THEN Len(Tokens') - start' ELSE 0
BY DEF Remaining, Tokens

LEMMA StageIs ==
    /\ Stage = IF pc = "parse" THEN 3 ELSE IF pc = "toc" THEN 2
               ELSE IF pc \in {"section", "part", "size"} THEN 1 ELSE 0
    /\ Stage' = IF pc' = "parse" THEN 3 ELSE IF pc' = "toc" THEN 2
                ELSE IF pc' \in {"section", "part", "size"} THEN 1 ELSE 0
BY DEF Stage

LEMMA SmallerAt ==
    ASSUME NEW x, NEW y, NEW k \in 1 .. 8, x[k] < y[k], \A j \in 1 .. k - 1 : x[j] = y[j]
    PROVE  Smaller(x, y)
BY DEF Smaller

LEMMA ParseGetsOn ==
    ASSUME IInv, Parse
    PROVE  Smaller(Remaining', Remaining)
<1> DEFINE x == Remaining'
           y == Remaining
<1>1. Walked /\ pc = "parse"
  BY DEF Parse, ReadFails, EnterHeading, EnterBlock, LeaveDocument, IInv, Parsed
<1>2. Len(file) \in Nat /\ at \in 1 .. Len(file) + 1
  BY <1>1, FileType
<1>3. CASE ReadFails \/ LeaveDocument
  <2>1. pc' \in {"failed", "toc"}
    BY <1>3 DEF ReadFails, LeaveDocument
  <2>2. x[1] < y[1]
    BY <1>1, <2>1, RemainingIs, RemainingNext, StageIs
  <2>3. 1 \in 1 .. 8 /\ \A j \in 1 .. 1 - 1 : x[j] = y[j]
    OBVIOUS
  <2> HIDE DEF x, y
  <2>4. Smaller(x, y)
    BY <2>2, <2>3, SmallerAt
  <2> QED
    BY <2>4 DEF x, y
<1>4. CASE EnterHeading \/ EnterBlock
  <2>1. pc' = "parse" /\ file' = file /\ at' = at + 1
    BY <1>1, <1>4 DEF EnterHeading, EnterBlock
  <2>2. x[1] = y[1] /\ x[2] < y[2]
    BY <1>1, <1>2, <2>1, RemainingIs, RemainingNext, StageIs
  <2> HIDE DEF x, y
  <2>3. 2 \in 1 .. 8 /\ \A j \in 1 .. 2 - 1 : x[j] = y[j]
    BY <2>2
  <2>4. Smaller(x, y)
    BY <2>2, <2>3, SmallerAt
  <2> QED
    BY <2>4 DEF x, y
<1> QED
  BY <1>3, <1>4 DEF Parse

LEMMA TailIsShorter ==
    ASSUME NEW X, NEW s \in Seq(X), s # <<>>
    PROVE  Len(s) \in Nat /\ Len(Tail(s)) = Len(s) - 1
OBVIOUS

LEMMA BuildGetsOn ==
    ASSUME IInv, Build, ~Endless
    PROVE  Smaller(Remaining', Remaining)
<1> DEFINE x == Remaining'
           y == Remaining
<1>1. /\ Step /\ UNCHANGED walk /\ secs' = secs
      /\ Len(secs) \in Nat /\ sec \in 1 .. Len(secs) + 1 /\ cfg \in Settings
  BY StepFacts DEF Build, args
<1>2. ASSUME pc \in {"part", "size"} PROVE Len(parts) \in Nat /\ parts \in Seq(Text)
  <2>1. Ps \in Seq(Text) /\ RestOf(parts, Ps)
    BY <1>2, Due DEF IInv, Placed, InSection
  <2> QED
    BY <2>1, RestType
<1>3. pc = "size" => /\ Len(sizes) \in Nat /\ sizes \in Seq(Int)
                     /\ Head(parts) \in Text /\ Len(Tokens) \in Nat
                     /\ start \in 0 .. Len(Tokens) - 1
  <2> SUFFICES ASSUME pc = "size"
               PROVE  /\ Len(sizes) \in Nat /\ sizes \in Seq(Int)
                      /\ Head(parts) \in Text /\ Len(Tokens) \in Nat
                      /\ start \in 0 .. Len(Tokens) - 1
    OBVIOUS
  <2>1. InPart /\ Sz \in Seq(Int)
    BY <1>1, SettingsType DEF IInv, Placed
  <2>2. Len(sizes) \in Nat /\ sizes \in Seq(Int) /\ start \in 0 .. Len(Tokens) - 1
    BY <2>1, RestType DEF InPart
  <2>3. Head(parts) \in Text
    BY <1>2, <2>1 DEF InPart
  <2> QED
    BY <2>2, <2>3, tokenizeType DEF Tokens
<1>4. CASE EmbedTOC \/ Return
  <2>1. \/ pc = "toc" /\ pc' = "section"
        \/ pc = "section" /\ pc' = "done"
    BY <1>4 DEF EmbedTOC, Return
  <2>2. x[1] < y[1]
    <3>1. Stage' < Stage
      BY <2>1, StageIs
    <3> QED
      BY <3>1, RemainingIs, RemainingNext
  <2>3. 1 \in 1 .. 8 /\ \A j \in 1 .. 1 - 1 : x[j] = y[j]
    OBVIOUS
  <2> HIDE DEF x, y
  <2>4. Smaller(x, y)
    BY <2>2, <2>3, SmallerAt
  <2> QED
    BY <2>4 DEF x, y
<1>5. CASE EnterSection
  <2>1. pc = "section" /\ pc' = "part" /\ sec' = sec
    BY <1>5 DEF EnterSection
  <2>2. x[1] = y[1] /\ x[2] = y[2] /\ x[3] = y[3] /\ x[4] < y[4]
    BY <1>1, <2>1, RemainingIs, RemainingNext, StageIs
  <2> HIDE DEF x, y
  <2>3. 4 \in 1 .. 8 /\ \A j \in 1 .. 4 - 1 : x[j] = y[j]
    BY <2>2
  <2>4. Smaller(x, y)
    BY <2>2, <2>3, SmallerAt
  <2> QED
    BY <2>4 DEF x, y
<1>6. CASE SkipEmptyPart \/ LeavePart
  <2>1. pc \in {"part", "size"} /\ pc' = "part" /\ parts' = Tail(parts) /\ sec' = sec
    BY <1>6 DEF SkipEmptyPart, LeavePart
  <2>2. parts # <<>>
    BY <1>6 DEF SkipEmptyPart, LeavePart, IInv, Placed, InPart
  <2>3. Len(parts') < Len(parts)
    BY <1>2, <2>1, <2>2, TailIsShorter
  <2>4. x[1] = y[1] /\ x[2] = y[2] /\ x[3] = y[3] /\ x[4] = y[4] /\ x[5] < y[5]
    BY <1>1, <2>1, <2>3, RemainingIs, RemainingNext, StageIs
  <2> HIDE DEF x, y
  <2>5. 5 \in 1 .. 8 /\ \A j \in 1 .. 5 - 1 : x[j] = y[j]
    BY <2>4
  <2>6. Smaller(x, y)
    BY <2>4, <2>5, SmallerAt
  <2> QED
    BY <2>6 DEF x, y
<1>7. CASE EnterPart
  <2>1. pc = "part" /\ pc' = "size" /\ parts' = parts /\ sec' = sec
    BY <1>7 DEF EnterPart
  <2>2. x[1] = y[1] /\ x[2] = y[2] /\ x[3] = y[3] /\ x[4] = y[4] /\ x[5] = y[5] /\ x[6] < y[6]
    BY <1>1, <2>1, RemainingIs, RemainingNext, StageIs
  <2> HIDE DEF x, y
  <2>3. 6 \in 1 .. 8 /\ \A j \in 1 .. 6 - 1 : x[j] = y[j]
    BY <2>2
  <2>4. Smaller(x, y)
    BY <2>2, <2>3, SmallerAt
  <2> QED
    BY <2>4 DEF x, y
<1>8. ASSUME pc = "size", pc' = "size", UNCHANGED <<parts, sec>>
      PROVE  /\ x[1] = y[1] /\ x[2] = y[2] /\ x[3] = y[3]
             /\ x[4] = y[4] /\ x[5] = y[5] /\ x[6] = y[6]
  BY <1>1, <1>8, RemainingIs, RemainingNext, StageIs
<1>9. ASSUME pc = "size", pc' = "size", UNCHANGED <<parts, sec>>,
             sizes # <<>>, sizes' = Tail(sizes)
      PROVE  Smaller(x, y)
  <2>1. Len(sizes') < Len(sizes)
    BY <1>3, <1>9, TailIsShorter
  <2>2. x[7] < y[7]
    BY <1>9, <2>1, RemainingIs, RemainingNext
  <2>3. /\ x[1] = y[1] /\ x[2] = y[2] /\ x[3] = y[3]
        /\ x[4] = y[4] /\ x[5] = y[5] /\ x[6] = y[6]
    BY <1>8, <1>9
  <2> HIDE DEF x, y
  <2>4. 7 \in 1 .. 8 /\ \A j \in 1 .. 7 - 1 : x[j] = y[j]
    BY <2>3
  <2> QED
    BY <2>2, <2>4, SmallerAt
<1>10. CASE WholePart
  <2>1. pc = "size" /\ pc' = "size" /\ UNCHANGED <<parts, sec>> /\ sizes # <<>>
        /\ sizes' = Tail(sizes)
    BY <1>10 DEF WholePart
  <2> QED
    BY <1>9, <2>1
<1>11. CASE CutWindow
  <2> DEFINE n == Len(Tokens)
             end == WindowEnd(start, Size, n)
  <2>1. /\ pc = "size" /\ pc' = "size" /\ UNCHANGED <<parts, sec>> /\ sizes # <<>>
        /\ n > Size /\ start < n
        /\ IF end = n THEN sizes' = Tail(sizes)
           ELSE sizes' = sizes /\ start' = NextStart(end, Overlap)
    BY <1>11 DEF CutWindow, Tokens, Size, Overlap, LastWindow
  <2>2. CASE end = n
    BY <1>9, <2>1, <2>2
  <2>3. CASE end # n
    <3>1. Overlap \in Nat /\ Size \in Nat \ {0}
      BY <1>1, <1>3, <2>1, SettingsType DEF Size, StepOf
    <3>2. ~(Overlap >= Size)
      BY <2>1 DEF Endless, Tokens, Size, Overlap
    <3>3. n \in Nat /\ start \in Nat
      BY <1>3, <2>1
    <3>4. start' > start /\ start' \in Nat
      BY <2>1, <2>3, <3>1, <3>2, <3>3 DEF WindowEnd, NextStart
    <3>5. Tokens' = Tokens
      BY <2>1 DEF Tokens
    <3>6. x[7] = y[7] /\ x[8] < y[8]
      <4>1. sizes' = sizes
        BY <2>1, <2>3
      <4> QED
        BY <2>1, <3>3, <3>4, <3>5, <4>1, RemainingIs, RemainingNext
    <3>7. /\ x[1] = y[1] /\ x[2] = y[2] /\ x[3] = y[3]
          /\ x[4] = y[4] /\ x[5] = y[5] /\ x[6] = y[6]
      BY <1>8, <2>1
    <3> HIDE DEF x, y
    <3>8. 8 \in 1 .. 8 /\ \A j \in 1 .. 8 - 1 : x[j] = y[j]
      BY <3>6, <3>7
    <3>9. Smaller(x, y)
      BY <3>6, <3>8, SmallerAt
    <3> QED
      BY <3>9 DEF x, y
  <2> QED
    BY <2>2, <2>3
<1>12. CASE LeaveSection
  <2>1. pc = "part" /\ pc' = "section" /\ sec' = sec + 1
    BY <1>12 DEF LeaveSection
  <2>2. x[1] = y[1] /\ x[2] = y[2] /\ x[3] < y[3]
    BY <1>1, <2>1, RemainingIs, RemainingNext, StageIs
  <2> HIDE DEF x, y
  <2>3. 3 \in 1 .. 8 /\ \A j \in 1 .. 3 - 1 : x[j] = y[j]
    BY <2>2
  <2>4. Smaller(x, y)
    BY <2>2, <2>3, SmallerAt
  <2> QED
    BY <2>4 DEF x, y
<1> QED
  BY <1>1, <1>4, <1>5, <1>6, <1>7, <1>10, <1>11, <1>12 DEF Step

(* Every step of the walk and of the loops of BuildChunks takes from what  *)
(* is left of the run, and what is left cannot be taken from for ever; the *)
(* one exception is a window that is not above the overlap.                *)
THEOREM TakesFromWhatIsLeft == MDSpec => GetsOn
<1> DEFINE Takes == /\ Remaining \in [1 .. 8 -> Nat]
                    /\ Endless \/ Smaller(Remaining', Remaining)
<1>1. IInv /\ [MDNext]_mdvars => [Takes]_mdvars
  <2> SUFFICES ASSUME IInv, [MDNext]_mdvars, ~UNCHANGED mdvars PROVE Takes
    OBVIOUS
  <2>1. Remaining \in [1 .. 8 -> Nat]
    BY RemainingType
  <2>2. CASE Parse
    BY <2>1, <2>2, ParseGetsOn
  <2>3. CASE Build
    BY <2>1, <2>3, BuildGetsOn
  <2> QED
    BY <2>2, <2>3 DEF MDNext, Ended
<1> QED
  BY <1>1, Invariance, PTL DEF MDSpec, GetsOn

-----------------------------------------------------------------------------
(* What one level is due, the level above is. *)

LEMMA SectionHas ==
    ASSUME cfg \in Settings, NEW section \in Section, SectionEnds(section),
           NEW m \in DOMAIN PartsOf(section)
    PROVE  ToSet(PartTexts(PartsOf(section)[m])) \subseteq ToSet(SectionTexts(section))
<1> DEFINE ps == PartsOf(section)
           f == ByPart(ps)
           h == HeadTexts(section)
           u == FlattenSeq(f)
<1>1. ps \in Seq(Text) /\ DOMAIN ps = 1 .. Len(ps) /\ Len(ps) \in Nat
  BY PartsOfType
<1>2. \A i \in 1 .. Len(ps) : PartTexts(ps[i]) \in Seq(Text)
  BY <1>1, PartTextsType DEF SectionEnds
<1>3. f = [i \in 1 .. Len(ps) |-> f[i]] /\ \A i \in 1 .. Len(ps) : f[i] \in Seq(Text)
  BY <1>1, <1>2 DEF ByPart
<1>4. f[m] = PartTexts(ps[m])
  BY DEF ByPart
<1>5. SectionTexts(section) = h \o u
  BY SectionTextsIs
<1>6. m \in 1 .. Len(ps)
  BY <1>1
<1> HIDE DEF f
<1>7. f \in Seq(Seq(Text)) /\ m \in 1 .. Len(f)
  BY <1>1, <1>3, <1>6
<1>8. ToSet(f[m]) \subseteq ToSet(u) /\ u \in Seq(Text)
  BY <1>7, UptoHas, FlattenType
<1>9. h \in Seq(Text)
  BY HeadTextsType
<1> HIDE DEF h, u
<1>10. ToSet(h \o u) = ToSet(h) \cup ToSet(u)
  BY ONLY <1>8, <1>9, InConcat
<1> QED
  BY <1>4, <1>5, <1>8, <1>10

LEMMA PartHas ==
    ASSUME cfg \in Settings, NEW part \in Text, PartEnds(part), tokenize(part) # <<>>,
           NEW i \in 1 .. Len(Sz)
    PROVE  ToSet(WindowTexts(part, StepOf(Sz[i]), Overlap)) \subseteq ToSet(PartTexts(part))
<1> DEFINE f == BySize(part)
<1>1. Sz \in Seq(Int) /\ DOMAIN Sz = 1 .. Len(Sz) /\ Len(Sz) \in Nat
  BY SettingsType
<1>2. \A k \in 1 .. Len(Sz) : f[k] \in Seq(Text)
  BY <1>1, SizeTextsType DEF PartEnds
<1>3. f = [k \in 1 .. Len(Sz) |-> f[k]]
  BY <1>1 DEF BySize
<1>4. f[i] = WindowTexts(part, StepOf(Sz[i]), Overlap)
  BY <1>1 DEF BySize
<1>5. PartTexts(part) = FlattenSeq(f)
  BY PartTextsIs
<1> HIDE DEF f
<1>6. f \in Seq(Seq(Text)) /\ i \in 1 .. Len(f)
  BY <1>1, <1>2, <1>3
<1>7. ToSet(f[i]) \subseteq ToSet(FlattenSeq(f))
  BY <1>6, UptoHas
<1> QED
  BY <1>4, <1>5, <1>7

LEMMA DocumentHas ==
    ASSUME IInv, pc = "done", NEW i \in DOMAIN secs
    PROVE  /\ secs[i] \in Section /\ SectionEnds(secs[i]) /\ cfg \in Settings
           /\ ToSet(SectionTexts(secs[i])) \subseteq ToSet(Texts)
<1> DEFINE g == BySection
           u == FlattenSeq(g)
           t == TocTexts
<1>1. /\ secs \in Seq(Section) /\ Len(secs) \in Nat /\ cfg \in Settings
      /\ sec - 1 = Len(secs) /\ DOMAIN secs = 1 .. Len(secs) /\ Passed
  BY DEF IInv, Parsed, Placed
<1>2. secs[i] \in Section /\ SectionEnds(secs[i])
  BY <1>1 DEF Passed
<1>3. Texts = FirstOccurrences(t \o Upto(g, Len(secs)))
  BY <1>1 DEF IInv, Kept, BeforeSection
<1>4. /\ g = [k \in 1 .. Len(secs) |-> g[k]]
      /\ \A k \in 1 .. Len(secs) : g[k] \in Seq(Text)
  BY <1>1, PassedTexts DEF BySection
<1>5. g[i] = SectionTexts(secs[i])
  BY DEF BySection
<1>6. t \in Seq(Text)
  BY <1>1, TocTextsType
<1>7. i \in 1 .. Len(secs)
  BY <1>1
<1> HIDE DEF g, t
<1>8. g \in Seq(Seq(Text)) /\ Len(g) = Len(secs) /\ i \in 1 .. Len(g)
  BY <1>1, <1>4, <1>7
<1>9. Upto(g, Len(secs)) = u /\ u \in Seq(Text) /\ ToSet(g[i]) \subseteq ToSet(u)
  <2>1. Upto(g, Len(g)) = FlattenSeq(g)
    BY <1>8, UptoAll
  <2>2. FlattenSeq(g) \in Seq(Text) /\ ToSet(g[i]) \subseteq ToSet(FlattenSeq(g))
    BY <1>8, FlattenType, UptoHas
  <2> QED
    BY <1>8, <2>1, <2>2
<1> HIDE DEF u
<1>10. ToSet(t \o u) = ToSet(t) \cup ToSet(u) /\ t \o u \in Seq(Text)
  <2>1. ToSet(t \o u) = ToSet(t) \cup ToSet(u)
    BY ONLY <1>6, <1>9, InConcat
  <2> QED
    BY <1>6, <1>9, <2>1, ConcatProperties
<1>11. ToSet(Texts) = ToSet(t \o u)
  BY <1>3, <1>9, <1>10, FirstOccurrencesSet
<1> QED
  BY <1>1, <1>2, <1>5, <1>9, <1>10, <1>11

LEMMA SizeIsTried ==
    ASSUME cfg \in Settings, NEW size \in {cfg.maxTokens} \cup ToSet(cfg.additional)
    PROVE  \E r \in 1 .. Len(Sz) : Sz[r] = size
<1> DEFINE a == <<cfg.maxTokens>>
           b == cfg.additional
<1>1. cfg.maxTokens \in Int /\ b \in Seq(Int) /\ a \in Seq(Int)
  BY DEF Settings
<1>2. a \o b \in Seq(Int)
  BY <1>1, ConcatProperties
<1>3. Sz = Sorted(a \o b) /\ Sz \in Seq(Int)
  BY SettingsType DEF Sz, SizesOf
<1>4. size \in ToSet(a) \cup ToSet(b)
  <2>1. cfg.maxTokens \in ToSet(a)
    BY DEF ToSet
  <2> QED
    BY <2>1
<1> HIDE DEF a, b
<1>5. size \in ToSet(a \o b)
  <2>1. ToSet(a \o b) = ToSet(a) \cup ToSet(b)
    BY ONLY <1>1, InConcat
  <2> QED
    BY <1>4, <2>1
<1>6. size \in ToSet(Sz)
  <2> DEFINE s == a \o b
  <2>1. s \in Seq(Int) /\ size \in ToSet(s) /\ Sz = Sorted(s)
    BY <1>2, <1>3, <1>5
  <2> HIDE DEF s
  <2>2. size \in ToSet(Sorted(s))
    BY ONLY <2>1, SortedHas
  <2> QED
    BY <2>1, <2>2
<1> QED
  BY <1>3, <1>6 DEF ToSet

(* Of every document that is chunked to the end no token is missing from   *)
(* the chunks, under any of the sizes: it is where a window of that size   *)
(* can have it, with the tokens around it.                                 *)
THEOREM EveryTokenKept == MDSpec => []NothingDropped
<1>1. IInv => NothingDropped
  <2> SUFFICES ASSUME IInv, pc = "done", NEW i \in DOMAIN secs,
                      NEW part \in ToSet(PartsOf(secs[i])),
                      NEW size \in {cfg.maxTokens} \cup ToSet(cfg.additional),
                      NEW k \in DOMAIN tokenize(part)
               PROVE  \E first \in 1 .. k, last \in k .. Len(tokenize(part)) :
                         /\ last - first < StepOf(size)
                         /\ \E text \in ToSet(Texts) :
                               tokenize(text) = SubSeq(tokenize(part), first, last)
    BY DEF NothingDropped
  <2>1. /\ secs[i] \in Section /\ SectionEnds(secs[i]) /\ cfg \in Settings
        /\ ToSet(SectionTexts(secs[i])) \subseteq ToSet(Texts)
    BY DocumentHas
  <2>2. PICK m \in DOMAIN PartsOf(secs[i]) : part = PartsOf(secs[i])[m]
    BY DEF ToSet
  <2>3. part \in Text /\ PartEnds(part)
    <3>1. PartsOf(secs[i]) \in Seq(Text)
      BY <2>1, PartsOfType
    <3> QED
      BY <2>1, <2>2, <3>1 DEF SectionEnds
  <2>4. tokenize(part) \in Seq(Word) /\ k \in 1 .. Len(tokenize(part)) /\ tokenize(part) # <<>>
    <3>1. tokenize(part) \in Seq(Word)
      BY <2>3, tokenizeType DEF Line
    <3> QED
      BY <3>1
  <2>5. PICK r \in 1 .. Len(Sz) : Sz[r] = size
    BY <2>1, SizeIsTried
  <2>6. /\ StepOf(size) \in Nat \ {0} /\ Overlap \in Nat
        /\ Len(tokenize(part)) <= StepOf(size) \/ Overlap < StepOf(size)
    BY <2>1, <2>3, <2>5, SettingsType DEF PartEnds, SizeEnds
  <2>7. \E first \in 1 .. k, last \in k .. Len(tokenize(part)) :
           /\ last - first < StepOf(size)
           /\ \E text \in ToSet(WindowTexts(part, StepOf(size), Overlap)) :
                 tokenize(text) = SubSeq(tokenize(part), first, last)
    BY <2>3, <2>4, <2>6, TokenInWindow
  <2>8. ToSet(WindowTexts(part, StepOf(size), Overlap)) \subseteq ToSet(Texts)
    <3>1. ToSet(WindowTexts(part, StepOf(size), Overlap)) \subseteq ToSet(PartTexts(part))
      BY <2>1, <2>3, <2>4, <2>5, PartHas
    <3>2. ToSet(PartTexts(part)) \subseteq ToSet(SectionTexts(secs[i]))
      BY <2>1, <2>2, SectionHas
    <3> QED
      BY <2>1, <3>1, <3>2
  <2> QED
    BY <2>7, <2>8
<1> QED
  BY <1>1, Invariance, PTL
=============================================================================
