--------------------------- MODULE IngestionProofs ---------------------------
(* Safety of module Ingestion, for any repository, any limit, any number   *)
(* of runs and any pushes, restarts and failures between and during them.  *)
EXTENDS Ingestion, FiniteSetTheorems, WellFoundedInduction, TLAPS

(* The batch in hand, and those of the run that it gave up, have exactly   *)
(* the rows of a file as it is in the working copy, which is not replaced  *)
(* while one of them is under way; those of earlier runs, of a file as it  *)
(* once was.                                                               *)
Sent(b) ==
    \E f \in FileSet, c \in Contents :
        /\ b.rows = RowsOf(f, c) /\ c \in versions[f]
        /\ b.run = runs => c = checkout[f]
InHand ==
    /\ rows = IF pc \in {"embed", "store"} THEN CurrentRows ELSE <<>>
    /\ \A b \in inflight : Sent(b)

(* The working copy and the repository hold versions their files had. *)
Remembered ==
    \A f \in FileSet : {remote[f], checkout[f]} \ {NoFile} \subseteq versions[f]

(* Until something fails, a run of IngestRepo leaves no batch behind, and  *)
(* counts what changes.                                                    *)
Counted ==
    /\ pc # "idle" => outcome = "none"
    /\ upserted <= changes
    /\ driver = "ingest" /\ failed = {} /\ outcome # "aborted" =>
        /\ \A b \in inflight : b.run # runs
        /\ upserted = changes

(* A server that stored something is one that found its database. *)
StoringIsServing == storing => ragSvc = "db"

(* What the run is through with is stored or accounted for. *)
Through == outcome = "finished" \/ pc \in {"connect", "file", "embed", "store"}
Remaining == {Files[i] : i \in todo}
AllKept ==
    Through /\ ~dry => \A f \in Listed \ (failed \cup unserved \cup Remaining) : Kept(f)

IInv ==
    TypeOK /\ InHand /\ Remembered /\ Counted /\ StoringIsServing /\ RowsSound /\ AllKept

-----------------------------------------------------------------------------
(* Of any numbers there is a least. *)
LEMMA LeastExists ==
    ASSUME NEW S \in SUBSET Nat, S # {}
    PROVE  Min(S) \in S /\ \A x \in S : Min(S) <= x
<1> DEFINE R == OpToRel(<, Nat)
<1>1. \A x \in Nat, y \in Nat : <<y, x>> \in R <=> y < x
  BY DEF OpToRel
<1>2. IsWellFoundedOn(R, Nat)
  BY NatLessThanWellFounded
<1> HIDE DEF R
<1>3. PICK m \in S : \A y \in S : ~ (<<y, m>> \in R)
  BY <1>2, WFMin
<1>4. \A y \in S : ~ (y < m)
  BY <1>1, <1>3, Zenon
<1>5. \A y \in S : m <= y
  BY <1>4
<1> QED
  BY <1>5 DEF Min

(* A run that has files left is at one of those it listed. *)
LEMMA CurrentFacts ==
    ASSUME TypeOK, todo # {}
    PROVE  /\ Min(todo) \in todo /\ \A i \in todo : Min(todo) <= i
           /\ listed \subseteq DOMAIN Files
           /\ Current \in FileSet /\ checkout[Current] \in Contents
<1>1. Files \in Seq(FileSet) /\ NoFile \notin Contents
  BY IngestionAssumption
<1>2. listed \subseteq Markdowns(checkout) /\ todo \subseteq listed
  BY DEF TypeOK
<1>3. todo \in SUBSET Nat /\ todo \subseteq DOMAIN Files /\ listed \subseteq DOMAIN Files
      /\ \A i \in todo : checkout[Files[i]] # NoFile
  BY <1>1, <1>2 DEF Markdowns
<1>4. Min(todo) \in todo /\ \A i \in todo : Min(todo) <= i
  BY <1>3, LeastExists
<1>5. Current \in FileSet /\ checkout[Current] # NoFile
  <2>1. \A i \in DOMAIN Files : Files[i] \in FileSet
    BY <1>1
  <2>2. Min(todo) \in DOMAIN Files /\ checkout[Files[Min(todo)]] # NoFile
    BY <1>3, <1>4
  <2> QED
    BY <2>1, <2>2 DEF Current
<1>6. checkout[Current] \in Contents \cup {NoFile}
  BY <1>5, IngestionAssumption DEF TypeOK, Repositories, NoCheckout
<1> QED
  BY <1>3, <1>4, <1>5, <1>6

(* What a file of the working copy holds. *)
LEMMA FileFacts ==
    ASSUME TypeOK, NEW f \in FileSet
    PROVE  /\ checkout[f] \in Contents \cup {NoFile}
           /\ checkout[f] # NoFile => checkout[f] \in Contents /\ Chunks(f) = DOMAIN checkout[f]
           /\ checkout[f] = NoFile => Chunks(f) = {}
           /\ Chunks(f) \subseteq 1 .. MaxChunks
<1>1. checkout[f] \in Contents \cup {NoFile}
  BY IngestionAssumption DEF TypeOK, Repositories, NoCheckout
<1>2. \A c \in Contents : DOMAIN c = 1 .. Len(c) /\ Len(c) \in Nat /\ Len(c) <= MaxChunks
  BY IngestionAssumption
<1>3. MaxChunks \in Nat
  BY IngestionAssumption
<1> QED
  BY <1>1, <1>2, <1>3 DEF Chunks

(* The key of a file's i-th chunk. *)
Place(f, i) == <<f, i - 1>>

LEMMA PlaceFacts ==
    /\ \A f \in FileSet, i \in 1 .. MaxChunks :
        Place(f, i) \in Keys /\ Place(f, i)[1] = f /\ Place(f, i)[2] + 1 = i
    /\ \A k \in Keys : /\ k[1] \in FileSet /\ k[2] + 1 \in 1 .. MaxChunks
                       /\ k = Place(k[1], k[2] + 1)
<1>1. MaxChunks \in Nat
  BY IngestionAssumption
<1>2. ASSUME NEW f \in FileSet, NEW i \in 1 .. MaxChunks
      PROVE  Place(f, i) \in Keys /\ Place(f, i)[1] = f /\ Place(f, i)[2] + 1 = i
  <2>1. i - 1 \in 0 .. MaxChunks - 1 /\ i - 1 + 1 = i
    BY <1>1
  <2> QED
    BY <2>1 DEF Place, Keys
<1>3. ASSUME NEW k \in Keys
      PROVE  k[1] \in FileSet /\ k[2] + 1 \in 1 .. MaxChunks /\ k = Place(k[1], k[2] + 1)
  <2>1. PICK f \in FileSet, j \in 0 .. MaxChunks - 1 : k = <<f, j>>
    BY DEF Keys
  <2>2. j + 1 \in 1 .. MaxChunks /\ j + 1 - 1 = j
    BY <1>1
  <2> QED
    BY <2>1, <2>2 DEF Place
<1> QED
  BY <1>2, <1>3

LEMMA RowsOfFacts ==
    ASSUME NEW f \in FileSet, NEW c \in Contents
    PROVE  /\ RowsOf(f, c) \in Seq(Rows)
           /\ DOMAIN RowsOf(f, c) = DOMAIN c /\ Len(RowsOf(f, c)) = Len(c)
           /\ DOMAIN c = 1 .. Len(c) /\ Len(c) \in Nat /\ DOMAIN c \subseteq 1 .. MaxChunks
           /\ \A i \in DOMAIN c :
                /\ c[i] \in Shas /\ RowsOf(f, c)[i] \in Rows
                /\ RowsOf(f, c)[i].key = Place(f, i) /\ RowsOf(f, c)[i].sha = c[i]
                /\ RowsOf(f, c)[i].vec = c[i]
<1>1. c \in Seq(Shas) /\ Len(c) <= MaxChunks /\ MaxChunks \in Nat
      /\ DOMAIN c = 1 .. Len(c) /\ Len(c) \in Nat
  BY IngestionAssumption
<1>2. DOMAIN c \subseteq 1 .. MaxChunks
  BY <1>1
<1>3. RowsOf(f, c) =
        [i \in 1 .. Len(c) |-> [key |-> Place(f, i), sha |-> c[i], vec |-> c[i]]]
  BY <1>1 DEF RowsOf, Place
<1>4. ASSUME NEW i \in DOMAIN c
      PROVE  /\ c[i] \in Shas /\ RowsOf(f, c)[i] \in Rows
             /\ RowsOf(f, c)[i].key = Place(f, i) /\ RowsOf(f, c)[i].sha = c[i]
             /\ RowsOf(f, c)[i].vec = c[i]
  <2>1. c[i] \in Shas /\ Place(f, i) \in Keys
    BY <1>1, <1>2, PlaceFacts
  <2>2. RowsOf(f, c)[i] = [key |-> Place(f, i), sha |-> c[i], vec |-> c[i]]
    BY <1>1, <1>3
  <2> QED
    BY <2>1, <2>2 DEF Rows
<1>5. RowsOf(f, c) \in Seq(Rows) /\ Len(RowsOf(f, c)) = Len(c)
      /\ DOMAIN RowsOf(f, c) = 1 .. Len(c)
  <2>1. DOMAIN RowsOf(f, c) = 1 .. Len(c)
        /\ RowsOf(f, c) = [i \in 1 .. Len(c) |-> RowsOf(f, c)[i]]
    BY <1>3
  <2>2. RowsOf(f, c) \in [1 .. Len(c) -> Rows]
    BY <1>1, <1>4, <2>1
  <2>3. \A n \in Nat : \A g \in [1 .. n -> Rows] : g \in Seq(Rows) /\ Len(g) = n
    OBVIOUS
  <2> QED
    BY <1>1, <2>1, <2>2, <2>3
<1> QED
  BY <1>1, <1>2, <1>4, <1>5

-----------------------------------------------------------------------------
(* What the rows of a file do to a table: each place of the file is        *)
(* replaced that is missing or differs, and each such place counts.        *)
Stale(t, f, c, i) == t[Place(f, i)] = NoRow \/ t[Place(f, i)].sha # c[i]
ChunkOf(c, i) == [sha |-> c[i], vec |-> c[i]]

LEMMA ChunkFacts ==
    ASSUME NEW c \in Contents, NEW i \in DOMAIN c
    PROVE  ChunkOf(c, i) \in Stored /\ ChunkOf(c, i) # NoRow /\ ChunkOf(c, i).sha = c[i]
           /\ ChunkOf(c, i).vec = c[i]
<1>1. c[i] \in Shas /\ NoRow \notin Stored
  BY IngestionAssumption
<1> QED
  BY <1>1 DEF ChunkOf, Stored

LEMMA RowsOfChanges ==
    ASSUME NEW f \in FileSet, NEW c \in Contents, NEW i \in DOMAIN c
    PROVE  Changes(table, RowsOf(f, c), i) <=> Stale(table, f, c, i)
<1>1. ASSUME NEW j \in 1 .. (i - 1) PROVE RowsOf(f, c)[j].key # Place(f, i)
  <2>1. j \in DOMAIN c /\ j # i
    BY RowsOfFacts
  <2> QED
    BY <2>1, RowsOfFacts, PlaceFacts
<1>2. KeyRows(RowsOf(f, c), i - 1, Place(f, i)) = {}
  BY <1>1 DEF KeyRows
<1> QED
  BY <1>2, RowsOfFacts DEF Changes, Stale

LEMMA RowsOfApplied ==
    ASSUME NEW f \in FileSet, NEW c \in Contents
    PROVE  LET after == Applied(table, RowsOf(f, c), Len(RowsOf(f, c))) IN
           /\ \A i \in DOMAIN c : after[Place(f, i)] =
                IF Stale(table, f, c, i) THEN ChunkOf(c, i) ELSE table[Place(f, i)]
           /\ \A k \in Keys : k[1] # f \/ k[2] + 1 \notin DOMAIN c => after[k] = table[k]
<1> DEFINE b == RowsOf(f, c)
           n == Len(b)
<1>1. \A i \in DOMAIN c : KeyRows(b, n, Place(f, i)) = {i}
  <2> SUFFICES ASSUME NEW i \in DOMAIN c, NEW j \in 1 .. n
               PROVE  b[j].key = Place(f, i) <=> j = i
    BY RowsOfFacts DEF KeyRows
  <2> QED
    BY RowsOfFacts, PlaceFacts
<1>2. ASSUME NEW k \in Keys, k[1] # f \/ k[2] + 1 \notin DOMAIN c
      PROVE  KeyRows(b, n, k) = {}
  <2> SUFFICES ASSUME NEW i \in 1 .. n, b[i].key = k PROVE FALSE
    BY DEF KeyRows
  <2>1. i \in DOMAIN c /\ k = Place(f, i)
    BY RowsOfFacts
  <2> QED
    BY <1>2, <2>1, RowsOfFacts, PlaceFacts
<1> HIDE DEF b, n
<1>3. ASSUME NEW i \in DOMAIN c
      PROVE  Applied(table, b, n)[Place(f, i)] =
                IF Stale(table, f, c, i) THEN ChunkOf(c, i) ELSE table[Place(f, i)]
  <2>1. Effective(table, b, n, Place(f, i)) = IF Stale(table, f, c, i) THEN {i} ELSE {}
    BY <1>1, RowsOfChanges DEF Effective, b
  <2>2. Max({i}) = i
    BY RowsOfFacts DEF Max
  <2>3. Content(b[i]) = ChunkOf(c, i) /\ Place(f, i) \in Keys
    BY RowsOfFacts, PlaceFacts DEF Content, ChunkOf, b
  <2> QED
    BY <2>1, <2>2, <2>3 DEF Applied
<1>4. ASSUME NEW k \in Keys, k[1] # f \/ k[2] + 1 \notin DOMAIN c
      PROVE  Applied(table, b, n)[k] = table[k]
  BY <1>2, <1>4 DEF Applied, Effective
<1> QED
  BY <1>3, <1>4 DEF b, n

LEMMA RowsOfCount ==
    ASSUME NEW f \in FileSet, NEW c \in Contents
    PROVE  LET after == Applied(table, RowsOf(f, c), Len(RowsOf(f, c))) IN
           /\ ChangeCount(table, RowsOf(f, c), Len(RowsOf(f, c))) =
                Cardinality({k \in Keys : after[k] # table[k]})
           /\ ChangeCount(table, RowsOf(f, c), Len(RowsOf(f, c))) \in Nat
<1> DEFINE b == RowsOf(f, c)
           n == Len(b)
           after == Applied(table, b, n)
           I == {i \in 1 .. n : Changes(table, b, i)}
           K == {k \in Keys : after[k] # table[k]}
           g == [i \in I |-> Place(f, i)]
<1>1. n \in Nat /\ 1 .. n = DOMAIN c
  BY RowsOfFacts
<1>2. I = {i \in DOMAIN c : Stale(table, f, c, i)}
  BY <1>1, RowsOfChanges
<1>3. IsFiniteSet(I)
  <2>1. IsFiniteSet(1 .. n)
    BY <1>1, FS_Interval
  <2> QED
    BY <2>1, FS_Subset
<1>4. \A i \in DOMAIN c : after[Place(f, i)] # table[Place(f, i)] <=> Stale(table, f, c, i)
  <2> SUFFICES ASSUME NEW i \in DOMAIN c, Stale(table, f, c, i)
               PROVE  ChunkOf(c, i) # table[Place(f, i)]
    BY RowsOfApplied
  <2> QED
    BY ChunkFacts DEF Stale
<1>5. \A k \in K : \E i \in I : g[i] = k
  <2> SUFFICES ASSUME NEW k \in K PROVE \E i \in I : g[i] = k
    OBVIOUS
  <2>1. k[1] = f /\ k[2] + 1 \in DOMAIN c
    BY RowsOfApplied
  <2>2. k = Place(f, k[2] + 1)
    BY <2>1, PlaceFacts
  <2>3. k[2] + 1 \in I
    BY <1>2, <1>4, <2>1, <2>2
  <2> QED
    BY <2>2, <2>3
<1>6. g \in [I -> K]
  BY <1>2, <1>4, RowsOfFacts, PlaceFacts
<1>7. \A i, j \in I : g[i] = g[j] => i = j
  BY <1>2, RowsOfFacts, PlaceFacts
<1> HIDE DEF I, K, g
<1>8. ExistsBijection(I, K)
  BY <1>5, <1>6, <1>7 DEF ExistsBijection, Bijection, Injection, Surjection, IsInjective
<1>9. Cardinality(K) = Cardinality(I) /\ Cardinality(I) \in Nat
  BY <1>3, <1>8, FS_Bijection, FS_CardinalityType
<1> QED
  BY <1>9 DEF ChangeCount, I, K

(* The effect of a batch, whenever it comes: on the table, and on the      *)
(* history of the run.                                                     *)
LEMMA Effect ==
    ASSUME TypeOK, NEW f \in FileSet, NEW c \in Contents,
           table' = Applied(table, RowsOf(f, c), Len(RowsOf(f, c)))
    PROVE  /\ table' \in Tables
           /\ \A i \in DOMAIN c : table'[Place(f, i)] =
                IF Stale(table, f, c, i) THEN ChunkOf(c, i) ELSE table[Place(f, i)]
           /\ \A k \in Keys : k[1] # f \/ k[2] + 1 \notin DOMAIN c => table'[k] = table[k]
           /\ \A k \in Keys : table'[k] # table[k] =>
                k[1] = f /\ k[2] + 1 \in DOMAIN c /\ table'[k] = ChunkOf(c, k[2] + 1)
<1>1. table' = Applied(table, RowsOf(f, c), Len(RowsOf(f, c)))
  OBVIOUS
<1>2. table' = [k \in Keys |-> table'[k]]
  BY <1>1 DEF Applied
<1>3. ASSUME NEW k \in Keys PROVE table'[k] \in Stored \cup {NoRow}
  <2>1. CASE k[1] # f \/ k[2] + 1 \notin DOMAIN c
    BY <1>1, <2>1, RowsOfApplied DEF TypeOK, Tables
  <2>2. CASE k[1] = f /\ k[2] + 1 \in DOMAIN c
    <3>1. k = Place(f, k[2] + 1)
      BY <2>2, PlaceFacts
    <3>2. ChunkOf(c, k[2] + 1) \in Stored
      BY <2>2, ChunkFacts
    <3>3. table'[k] = IF Stale(table, f, c, k[2] + 1) THEN ChunkOf(c, k[2] + 1) ELSE table[k]
      BY <1>1, <2>2, <3>1, RowsOfApplied
    <3> QED
      BY <3>2, <3>3 DEF TypeOK, Tables
  <2> QED
    BY <2>1, <2>2
<1>4. table' \in Tables
  BY <1>2, <1>3 DEF Tables
<1>5. ASSUME NEW k \in Keys, table'[k] # table[k]
      PROVE  /\ k[1] = f /\ k[2] + 1 \in DOMAIN c /\ table'[k] = ChunkOf(c, k[2] + 1)
  <2>1. k[1] = f /\ k[2] + 1 \in DOMAIN c
    BY <1>1, <1>5, RowsOfApplied
  <2>2. k = Place(f, k[2] + 1)
    BY <2>1, PlaceFacts
  <2> QED
    BY <1>1, <1>5, <2>1, <2>2, RowsOfApplied
<1> QED
  BY <1>1, <1>4, <1>5, RowsOfApplied

LEMMA OwnHistory ==
    ASSUME TypeOK, NEW f \in FileSet, NEW c \in Contents, TakeEffect(RowsOf(f, c))
    PROVE  /\ table' = Applied(table, RowsOf(f, c), Len(RowsOf(f, c)))
           /\ changes' = changes + ChangeCount(table, RowsOf(f, c), Len(RowsOf(f, c)))
           /\ changes' \in Nat /\ changes' >= changes
           /\ overtaken' = overtaken \ {Place(f, i) : i \in DOMAIN c} /\ overtaken' \subseteq Keys
<1>1. {RowsOf(f, c)[i].key : i \in DOMAIN RowsOf(f, c)} = {Place(f, i) : i \in DOMAIN c}
  BY RowsOfFacts
<1>2. table' = Applied(table, RowsOf(f, c), Len(RowsOf(f, c)))
  BY DEF TakeEffect
<1>3. overtaken' = overtaken \ {Place(f, i) : i \in DOMAIN c}
  BY <1>1 DEF TakeEffect
<1>4. changes' = changes + ChangeCount(table, RowsOf(f, c), Len(RowsOf(f, c)))
  BY RowsOfCount DEF TakeEffect
<1>5. changes \in Nat /\ overtaken \subseteq Keys
  BY DEF TypeOK
<1>6. ChangeCount(table, RowsOf(f, c), Len(RowsOf(f, c))) \in Nat
  BY RowsOfCount
<1> QED
  BY <1>2, <1>3, <1>4, <1>5, <1>6

LEMMA OldHistory ==
    ASSUME TypeOK, NEW f \in FileSet, NEW c \in Contents, TakeBack(RowsOf(f, c))
    PROVE  /\ table' = Applied(table, RowsOf(f, c), Len(RowsOf(f, c)))
           /\ changes' = changes
           /\ overtaken' = overtaken \cup {k \in Keys : table'[k] # table[k]}
           /\ overtaken' \subseteq Keys
<1>1. overtaken \subseteq Keys
  BY DEF TypeOK
<1> QED
  BY <1>1 DEF TakeBack

-----------------------------------------------------------------------------
(* The rows in hand are those of the file the loop is at. *)
LEMMA HandFacts ==
    ASSUME TypeOK, InHand, pc \in {"embed", "store"}
    PROVE  /\ todo # {} /\ Current \in FileSet /\ checkout[Current] \in Contents
           /\ rows = RowsOf(Current, checkout[Current]) /\ rows \in Seq(Rows)
BY CurrentFacts DEF TypeOK, InHand, CurrentRows

(* An embedder that answers with as many vectors as it was asked for has   *)
(* answered with the right ones.                                           *)
LEMMA EmbedKeepsRows ==
    ASSUME TypeOK, InHand, Embed
    PROVE  rows' = rows
<1> DEFINE asked == [i \in DOMAIN rows |-> rows[i].sha]
<1>1. rows \in Seq(Rows) /\ pc = "embed" /\ rows = RowsOf(Current, checkout[Current])
      /\ Current \in FileSet /\ checkout[Current] \in Contents
  BY HandFacts DEF Embed
<1>2. PICK vecs \in Answers : /\ Len(vecs) = Len(rows)
                              /\ rows' = [i \in DOMAIN rows |-> [rows[i] EXCEPT !.vec = vecs[i]]]
  BY DEF Embed, Accepts
<1>3. Len(asked) = Len(rows) /\ asked \in Seq(Shas)
  <2>1. \A i \in DOMAIN rows : rows[i].sha \in Shas
    BY <1>1, RowsOfFacts
  <2>2. asked \in [1 .. Len(rows) -> Shas] /\ Len(rows) \in Nat
    BY <1>1, <2>1
  <2>3. \A n \in Nat : \A g \in [1 .. n -> Shas] : g \in Seq(Shas) /\ Len(g) = n
    OBVIOUS
  <2> QED
    BY <2>2, <2>3
<1>4. vecs = asked
  <2>1. rows = <<>> \/ OneByOne => vecs = asked
    BY <1>2 DEF Answers
  <2>2. rows # <<>> => Len(asked) # 0
    BY <1>1, <1>3
  <2> HIDE DEF asked
  <2>3. asked # <<>> => Len(Tail(asked)) = Len(asked) - 1
                        /\ Len(<<Head(asked)>> \o asked) = Len(asked) + 1
    BY <1>3
  <2>4. rows # <<>> /\ ~OneByOne => vecs \in {asked, Tail(asked), <<Head(asked)>> \o asked}
    BY <1>2 DEF Answers, asked
  <2>5. Len(rows) \in Nat
    BY <1>1
  <2>6. rows # <<>> => asked # <<>>
    BY <2>2
  <2> QED
    BY <1>2, <1>3, <2>1, <2>3, <2>4, <2>5, <2>6
<1>5. \A i \in DOMAIN rows : [rows[i] EXCEPT !.vec = rows[i].sha] = rows[i]
  <2> SUFFICES ASSUME NEW i \in DOMAIN rows
               PROVE  [rows[i] EXCEPT !.vec = rows[i].sha] = rows[i]
    OBVIOUS
  <2>1. rows[i] \in Rows /\ rows[i].vec = rows[i].sha
    BY <1>1, RowsOfFacts
  <2> QED
    BY <2>1 DEF Rows
<1>6. rows = [i \in DOMAIN rows |-> rows[i]]
  BY <1>1
<1> QED
  BY <1>2, <1>4, <1>5, <1>6

(* The table changes only by the rows of a file as it is in the working    *)
(* copy or, late, as it was in an earlier run.                             *)
OwnTakesEffect ==
    \E f \in FileSet, c \in Contents :
        TakeEffect(RowsOf(f, c)) /\ c \in versions[f] /\ c = checkout[f]
Late(k) == \E b \in inflight \ inflight' : b.run < runs /\ k \in {r.key : r \in ToSet(b.rows)}
OldTakesEffect ==
    /\ \E f \in FileSet, c \in Contents : TakeBack(RowsOf(f, c)) /\ c \in versions[f]
    /\ \A k \in Keys : table'[k] # table[k] => Late(k)

LEMMA OwnEffect ==
    ASSUME TypeOK, InHand, Remembered, pc = "store", TakeEffect(rows)
    PROVE  OwnTakesEffect
<1>1. /\ Current \in FileSet /\ checkout[Current] \in Contents
      /\ rows = RowsOf(Current, checkout[Current])
  BY HandFacts
<1>2. checkout[Current] \in versions[Current]
  BY <1>1, IngestionAssumption DEF Remembered
<1> QED
  BY <1>1, <1>2 DEF OwnTakesEffect

LEMMA LateStep ==
    ASSUME TypeOK, InHand, NEW b \in inflight, inflight' = inflight \ {b}, b.run # runs,
           TakeBack(b.rows)
    PROVE  OldTakesEffect
<1>1. PICK f \in FileSet, c \in Contents : b.rows = RowsOf(f, c) /\ c \in versions[f]
  BY DEF InHand, Sent
<1>2. TakeBack(RowsOf(f, c))
  BY <1>1
<1>4. b.run < runs
  <2>1. b.run \in 0 .. runs /\ runs \in Nat
    BY DEF TypeOK
  <2> QED
    BY <2>1
<1>5. ASSUME NEW k \in Keys, table'[k] # table[k]
      PROVE  k \in {r.key : r \in ToSet(b.rows)}
  <2>1. k[1] = f /\ k[2] + 1 \in DOMAIN c
    BY <1>2, <1>5, OldHistory, Effect
  <2>2. b.rows[k[2] + 1].key = k /\ k[2] + 1 \in DOMAIN b.rows
    BY <1>1, <2>1, RowsOfFacts, PlaceFacts
  <2> QED
    BY <2>2 DEF ToSet
<1>6. b \in inflight \ inflight'
  OBVIOUS
<1> QED
  BY <1>1, <1>2, <1>4, <1>5, <1>6 DEF OldTakesEffect, Late

LEMMA SettleEffect ==
    ASSUME TypeOK, InHand, Settle
    PROVE  UNCHANGED <<table, effects>> \/ OwnTakesEffect \/ OldTakesEffect
<1>1. PICK b \in inflight : /\ inflight' = inflight \ {b}
                            /\ \/ IF b.run = runs THEN TakeEffect(b.rows) ELSE TakeBack(b.rows)
                               \/ UNCHANGED <<table, effects>>
  BY DEF Settle
<1>2. CASE UNCHANGED <<table, effects>>
  BY <1>2
<1>3. CASE TakeEffect(b.rows) /\ b.run = runs
  <2>1. PICK f \in FileSet, c \in Contents :
          b.rows = RowsOf(f, c) /\ c \in versions[f] /\ c = checkout[f]
    BY <1>3 DEF InHand, Sent
  <2> QED
    BY <1>3, <2>1 DEF OwnTakesEffect
<1>4. CASE TakeBack(b.rows) /\ b.run # runs
  BY <1>1, <1>4, LateStep
<1> QED
  BY <1>1, <1>2, <1>3, <1>4

LEMMA TableStep ==
    ASSUME TypeOK, InHand, Remembered, [Next]_vars
    PROVE  \/ table' = table /\ (UNCHANGED effects \/ Start)
           \/ /\ OwnTakesEffect \/ (OldTakesEffect /\ Settle)
              /\ UNCHANGED <<checkout, options, listed>>
<1> DEFINE Goal == \/ table' = table /\ (UNCHANGED effects \/ Start)
                   \/ /\ OwnTakesEffect \/ (OldTakesEffect /\ Settle)
                      /\ UNCHANGED <<checkout, options, listed>>
<1>3. Upsert => Goal
  BY OwnEffect DEF Upsert
<1>4. Post => Goal
  BY OwnEffect DEF Post
<1>5. PostRefused \/ PostUnanswered => Goal
  BY OwnEffect DEF PostRefused, PostUnanswered, Aftermath
<1>6. Settle => Goal
  BY SettleEffect DEF Settle
<1>7. Sync \/ SyncFails \/ Connect \/ ConnectFails \/ Parse \/ ParseFails
        \/ Embed \/ EmbedFails \/ EmbedPanics \/ DryRun \/ UpsertFails \/ Finish => Goal
  BY DEF Sync, SyncFails, Connect, ConnectFails, Parse, ParseFails, Embed, EmbedFails,
     EmbedPanics, DryRun, UpsertFails, Finish
<1>8. Start \/ Push \/ Upset \/ Crash \/ UNCHANGED vars => Goal
  BY DEF Start, Push, Upset, Crash, vars
<1> QED
  BY <1>3, <1>4, <1>5, <1>6, <1>7, <1>8 DEF Next, Step

LEMMA FileEffect ==
    ASSUME TypeOK, OwnTakesEffect \/ OldTakesEffect
    PROVE  /\ table' \in Tables /\ changes' \in Nat /\ changes' >= changes
           /\ overtaken' \subseteq Keys
           /\ \A k \in Keys : table'[k] # table[k] =>
                \E c \in versions[k[1]] \cap Contents :
                    k[2] + 1 \in DOMAIN c /\ table'[k] = ChunkOf(c, k[2] + 1)
<1>1. PICK f \in FileSet, c \in Contents :
        c \in versions[f] /\ (TakeEffect(RowsOf(f, c)) \/ TakeBack(RowsOf(f, c)))
  BY DEF OwnTakesEffect, OldTakesEffect
<1>2. changes \in Nat
  BY DEF TypeOK
<1>3. /\ table' = Applied(table, RowsOf(f, c), Len(RowsOf(f, c)))
      /\ changes' \in Nat /\ changes' >= changes /\ overtaken' \subseteq Keys
  <2>1. CASE TakeEffect(RowsOf(f, c))
    BY <2>1, OwnHistory
  <2>2. CASE TakeBack(RowsOf(f, c))
    BY <1>2, <2>2, OldHistory
  <2> QED
    BY <1>1, <2>1, <2>2
<1>4. /\ table' \in Tables
      /\ \A k \in Keys : table'[k] # table[k] =>
            k[1] = f /\ k[2] + 1 \in DOMAIN c /\ table'[k] = ChunkOf(c, k[2] + 1)
  BY <1>3, Effect
<1> QED
  BY <1>1, <1>3, <1>4

-----------------------------------------------------------------------------
(* The parts of the type invariant: what data there is, the batches that   *)
(* are under way, where the run and the server are, and which files remain. *)
Data ==
    /\ remote \in Repositories /\ checkout \in Repositories \cup {NoCheckout}
    /\ versions \in [FileSet -> SUBSET Contents]
    /\ table \in Tables /\ rows \in Seq(Rows)
    /\ failed \subseteq FileSet /\ unserved \subseteq FileSet
    /\ {upserted, changes} \subseteq Nat /\ overtaken \subseteq Keys
Pending ==
    /\ runs \in Nat
    /\ \A b \in inflight : b.rows \in Seq(Rows) /\ b.run \in 0 .. runs /\ b.attempt \in 0 .. 2
    /\ pc = "sync" => \A b \in inflight : b.run < runs
Control ==
    /\ <<driver, embedder>> \in {"ingest", "rag-cli"} \X {"batch", "bge", "ollama"}
    /\ {configFile, ragSvc} \subseteq ConfigFiles \cup {"none"}
    /\ pc \in {"idle", "sync", "connect", "file", "embed", "store"}
    /\ attempt \in 0 .. 2 /\ limit \in Nat
    /\ outcome \in {"none", "finished", "aborted"}
    /\ pc = "connect" => driver = "ingest"
Flags ==
    /\ storing \in BOOLEAN /\ dry \in BOOLEAN /\ connected \in BOOLEAN
    /\ connected => driver = "ingest" /\ pc \notin {"idle", "sync", "connect"}
Walk ==
    /\ pc = "sync" => listed = {}
    /\ pc \notin {"idle", "sync"} \/ outcome = "finished" => listed \subseteq Markdowns(checkout)
    /\ pc \in {"idle", "sync"} => todo = {}
    /\ todo \subseteq listed
    /\ \A i \in todo, j \in listed : i < j => j \in todo
    /\ pc \in {"embed", "store"} => todo # {}

LEMMA TypeParts == TypeOK <=> Data /\ Pending /\ Control /\ Flags /\ Walk
BY DEF TypeOK, Data, Pending, Control, Flags, Walk

LEMMA TypePartsNext == TypeOK' <=> Data' /\ Pending' /\ Control' /\ Flags' /\ Walk'
BY DEF TypeOK, Data, Pending, Control, Flags, Walk

(* What is given up is what was in hand, and is of this run. *)
InHandNow == [rows |-> rows, run |-> runs, attempt |-> attempt]

LEMMA InflightStep ==
    ASSUME [Next]_vars
    PROVE  /\ inflight' \subseteq inflight \cup {InHandNow}
           /\ inflight' \subseteq inflight \/ (pc = "store" /\ runs' = runs)
           /\ (runs' = runs \/ Start)
           /\ pc' = "sync" => Start \/ (pc = "sync" /\ inflight' \subseteq inflight)
<1>1. ASSUME Start \/ Push \/ Upset \/ UNCHANGED vars
      PROVE  inflight' = inflight /\ (Start \/ (runs' = runs /\ pc' = pc))
  BY <1>1 DEF Start, Push, Upset, vars, bounds
<1>2. ASSUME Sync \/ SyncFails \/ Connect \/ ConnectFails \/ Parse \/ ParseFails \/ Embed
             \/ EmbedFails \/ EmbedPanics \/ DryRun \/ Upsert \/ Post \/ Finish
      PROVE  inflight' = inflight /\ pc' # "sync" /\ runs' = runs
  BY <1>2 DEF Sync, SyncFails, Connect, ConnectFails, Parse, ParseFails, Embed,
     EmbedFails, EmbedPanics, DryRun, Upsert, Post, Finish, NextFile, Skip, End, bounds
<1>3. ASSUME UpsertFails \/ PostRefused \/ PostUnanswered
      PROVE  /\ inflight' \subseteq inflight \cup {InHandNow}
             /\ pc = "store" /\ pc' # "sync" /\ runs' = runs
  BY <1>3 DEF UpsertFails, PostRefused, PostUnanswered, Aftermath, GiveUp, InHandNow, Skip,
     NextFile, bounds
<1>4. ASSUME Settle PROVE inflight' \subseteq inflight /\ pc' = pc /\ runs' = runs
  BY <1>4 DEF Settle, bounds
<1>5. ASSUME Crash
      PROVE  /\ inflight' \subseteq inflight \cup {InHandNow}
             /\ inflight' \subseteq inflight \/ pc = "store"
             /\ pc' # "sync" /\ runs' = runs
  BY <1>5 DEF Crash, End, GiveUp, InHandNow, bounds
<1> QED
  BY <1>1, <1>2, <1>3, <1>4, <1>5 DEF Next, Step

LEMMA PendingInv ==
    ASSUME TypeOK, InHand, [Next]_vars
    PROVE  Pending'
<1>1. /\ runs \in Nat /\ attempt \in 0 .. 2
      /\ \A b \in inflight : b.rows \in Seq(Rows) /\ b.run \in 0 .. runs /\ b.attempt \in 0 .. 2
      /\ pc = "sync" => \A b \in inflight : b.run < runs
  BY DEF TypeOK
<1>2. runs' \in Nat /\ runs' >= runs /\ (Start => runs' = runs + 1)
  <2>1. Start => runs' = runs + 1
    BY DEF Start
  <2>2. runs' = runs \/ Start
    BY InflightStep
  <2> QED
    BY <1>1, <2>1, <2>2
<1>3. ASSUME NEW b \in inflight'
      PROVE  b.rows \in Seq(Rows) /\ b.run \in 0 .. runs' /\ b.attempt \in 0 .. 2
  <2>1. CASE b \in inflight
    BY <1>1, <1>2, <2>1
  <2>2. CASE b = InHandNow /\ pc = "store"
    <3>1. rows \in Seq(Rows)
      BY DEF TypeOK
    <3>2. b.rows = rows /\ b.run = runs /\ b.attempt = attempt
      BY <2>2 DEF InHandNow
    <3> QED
      BY <1>1, <1>2, <3>1, <3>2
  <2> QED
    BY <2>1, <2>2, InflightStep
<1>4. ASSUME pc' = "sync", NEW b \in inflight' PROVE b.run < runs'
  <2>1. CASE Start
    <3>1. b \in inflight
      BY <1>4, <2>1 DEF Start
    <3> QED
      BY <1>1, <1>2, <2>1, <3>1
  <2>2. CASE ~Start
    BY <1>1, <1>4, <2>2, InflightStep
  <2> QED
    BY <2>1, <2>2
<1> QED
  BY <1>2, <1>3, <1>4 DEF Pending

(* The type invariant, action by action. *)
LEMMA NextFileType ==
    ASSUME TypeOK, todo # {}, NextFile
    PROVE  /\ todo' \subseteq todo /\ todo \subseteq todo' \cup {Min(todo)}
           /\ todo' \subseteq listed
           /\ \A i \in todo', j \in listed : i < j => j \in todo'
           /\ pc' = "file" /\ rows' = <<>> /\ rows' \in Seq(Rows) /\ attempt' = 0
<1>1. listed \subseteq Nat
  <2>1. Files \in Seq(FileSet)
    BY IngestionAssumption
  <2> QED
    BY <2>1, CurrentFacts
<1>2. /\ todo \subseteq listed
      /\ \A i \in todo, j \in listed : i < j => j \in todo
  BY DEF TypeOK
<1>3. Min(todo) \in todo /\ \A i \in todo : Min(todo) <= i
  BY CurrentFacts
<1>4. todo' = todo \ {Min(todo)} /\ pc' = "file" /\ rows' = <<>> /\ attempt' = 0
  BY DEF NextFile
<1>5. ASSUME NEW i \in todo', NEW j \in listed, i < j PROVE j \in todo'
  <2>1. i \in Nat /\ j \in Nat /\ Min(todo) \in Nat /\ i \in todo
    BY <1>1, <1>2, <1>3, <1>4
  <2>2. j \in todo /\ Min(todo) <= i
    BY <1>2, <1>3, <1>5, <2>1
  <2> QED
    BY <1>4, <1>5, <2>1, <2>2
<1> QED
  BY <1>2, <1>4, <1>5

LEMMA LoopType ==
    ASSUME TypeOK, Pending', todo # {}, NextFile, checkout' = checkout, limit' = limit,
           listed' = listed,
           UNCHANGED <<driver, embedder, configFile, remote, versions, dry, outcome>>,
           connected' \in BOOLEAN, connected' => connected,
           table' \in Tables, changes' \in Nat, overtaken' \subseteq Keys,
           ragSvc' \in ConfigFiles \cup {"none"}, storing' \in BOOLEAN,
           failed' \subseteq FileSet, unserved' \subseteq FileSet, upserted' \in Nat
    PROVE  TypeOK'
<1>1. /\ todo' \subseteq listed
      /\ \A i \in todo', j \in listed : i < j => j \in todo'
      /\ pc' = "file" /\ rows' \in Seq(Rows) /\ attempt' = 0
  BY NextFileType
<1>2. Data'
  BY <1>1, TypeParts DEF Data
<1>3. Control'
  BY <1>1, TypeParts DEF Control
<1>4. Flags'
  BY <1>1, TypeParts DEF Flags
<1>5. Walk'
  BY <1>1, TypeParts DEF Walk, Markdowns
<1> QED
  BY <1>2, <1>3, <1>4, <1>5, TypePartsNext

(* A run that is over has nothing left. *)
LEMMA EndType ==
    ASSUME TypeOK, Pending', NEW how \in {"finished", "aborted"}, End(how),
           UNCHANGED <<driver, embedder, configFile, remote, versions, table, dry, limit, listed,
                       unserved, failed, upserted, changes, overtaken>>,
           checkout' \in {checkout, NoCheckout},
           how = "finished" => listed \subseteq Markdowns(checkout) /\ checkout' = checkout,
           ragSvc' \in ConfigFiles \cup {"none"}, storing' \in BOOLEAN
    PROVE  TypeOK'
<1>1. rows' \in Seq(Rows) /\ pc' = "idle" /\ todo' = {} /\ attempt' = 0 /\ connected' = FALSE
      /\ outcome' \in {"finished", "aborted"} /\ outcome' = how
  BY DEF End
<1>2. Data'
  BY <1>1, TypeParts DEF Data
<1>3. Control'
  BY <1>1, TypeParts DEF Control
<1>5. Flags'
  BY <1>1, TypeParts DEF Flags
<1>4. Walk'
  <2>1. listed' \subseteq Markdowns(checkout)' \/ outcome' # "finished"
    BY <1>1 DEF Markdowns
  <2> QED
    BY <1>1, <2>1, TypeParts DEF Walk
<1> QED
  BY <1>2, <1>3, <1>4, <1>5, TypePartsNext

(* What getRAG leaves is a configuration. *)
LEMMA ReachedType ==
    ASSUME TypeOK, Reached
    PROVE  ragSvc' \in ConfigFiles \cup {"none"} /\ storing' \in BOOLEAN
BY DEF TypeOK, Reached, Serving

LEMMA AftermathType ==
    ASSUME TypeOK, InHand, Remembered, pc = "store", Aftermath
    PROVE  /\ table' \in Tables /\ changes' \in Nat /\ overtaken' \subseteq Keys
           /\ ragSvc' \in ConfigFiles \cup {"none"} /\ storing' \in BOOLEAN
<1>1. TakeEffect(rows) => table' \in Tables /\ changes' \in Nat /\ overtaken' \subseteq Keys
  BY OwnEffect, FileEffect
<1>2. table \in Tables /\ changes \in Nat /\ overtaken \subseteq Keys
      /\ ragSvc \in ConfigFiles \cup {"none"} /\ storing \in BOOLEAN
  BY DEF TypeOK
<1> QED
  BY <1>1, <1>2, ReachedType DEF Aftermath, effects

LEMMA OutsideType ==
    ASSUME TypeOK, Pending', Push \/ Upset \/ Start \/ UNCHANGED vars
    PROVE  TypeOK'
<1>1. ASSUME Push PROVE TypeOK'
  <2>1. PICK f \in Included, c \in Contents \cup {NoFile} :
            /\ remote' = [remote EXCEPT ![f] = c]
            /\ versions' = [versions EXCEPT ![f] = @ \cup ({c} \ {NoFile})]
    BY <1>1 DEF Push
  <2>2. remote' \in Repositories
    BY <2>1, IngestionAssumption DEF TypeOK, Repositories
  <2>3. versions' \in [FileSet -> SUBSET Contents]
    BY <2>1, IngestionAssumption DEF TypeOK
  <2> QED
    BY <1>1, <2>2, <2>3 DEF TypeOK, Pending, Push, config, server, options, stats, effects
<1>2. ASSUME Upset PROVE TypeOK'
  BY <1>2 DEF TypeOK, Pending, Upset, config, repository, options, stats, effects
<1>3. ASSUME Start PROVE TypeOK'
  <2>0. limit' \in Nat
    <3>1. limit' \in IF driver = "ingest" THEN Limits ELSE {0}
      BY <1>3 DEF Start
    <3> QED
      BY <3>1, IngestionAssumption
  <2>1. dry' \in BOOLEAN
    <3>1. dry' \in IF driver = "ingest" THEN BOOLEAN ELSE {FALSE}
      BY <1>3 DEF Start
    <3> QED
      BY <3>1
  <2>2. todo' = {} /\ listed' = {} /\ pc' = "sync" /\ outcome' = "none" /\ connected' = FALSE
    BY <1>3 DEF TypeOK, Start
  <2> QED
    BY <1>3, <2>0, <2>1, <2>2 DEF TypeOK, Pending, Start, config, repository
<1>4. ASSUME UNCHANGED vars PROVE TypeOK'
  BY <1>4 DEF TypeOK, vars, config, server, repository, options, stats, effects, bounds
<1> QED
  BY <1>1, <1>2, <1>3, <1>4

LEMMA SyncType ==
    ASSUME TypeOK, Pending', Sync \/ SyncFails \/ Connect \/ ConnectFails
    PROVE  TypeOK'
<1>1. ASSUME Sync PROVE TypeOK'
  <2>1. connected = FALSE /\ rows' = rows /\ attempt' = attempt /\ inflight' = inflight
    BY <1>1 DEF TypeOK, Sync
  <2>2. checkout' = remote /\ todo' = listed' /\ limit' = limit /\ pc' \in {"connect", "file"}
        /\ listed' \subseteq Markdowns(remote)
    BY <1>1 DEF Sync, Listing, options
  <2>3. Data'
    BY <1>1, <2>1, <2>2, TypeParts DEF Data, Sync, server, repository, stats, effects
  <2>4. Control'
    BY <1>1, <2>1, <2>2, TypeParts DEF Control, Sync, config, server, options
  <2>5. Flags'
    BY <1>1, <2>1, <2>2, TypeParts DEF Flags, Sync, config, server, options
  <2>6. Walk'
    BY <2>2 DEF Walk
  <2> QED
    BY <2>3, <2>4, <2>5, <2>6, TypePartsNext
<1>2. ASSUME SyncFails \/ ConnectFails PROVE TypeOK'
  <2>1. ragSvc \in ConfigFiles \cup {"none"} /\ storing \in BOOLEAN
    BY DEF TypeOK
  <2> QED
    BY <1>2, <2>1, EndType
    DEF SyncFails, ConnectFails, config, server, repository, options, stats, effects
<1>3. ASSUME Connect PROVE TypeOK'
  BY <1>3 DEF TypeOK, Pending, Connect, config, server, repository, options, stats, effects
<1> QED
  BY <1>1, <1>2, <1>3

(* What has its type and stays is still of its type. *)
LEMMA Kinds ==
    ASSUME TypeOK
    PROVE  /\ table \in Tables /\ changes \in Nat /\ overtaken \subseteq Keys
           /\ ragSvc \in ConfigFiles \cup {"none"} /\ storing \in BOOLEAN /\ connected \in BOOLEAN
           /\ failed \subseteq FileSet /\ unserved \subseteq FileSet /\ upserted \in Nat
BY DEF TypeOK

LEMMA SkipType ==
    ASSUME TypeOK, Pending', todo # {}, Skip, checkout' = checkout, limit' = limit,
           listed' = listed,
           UNCHANGED <<driver, embedder, configFile, remote, versions, dry, unserved,
                       upserted, outcome>>,
           connected' \in BOOLEAN, connected' => connected,
           table' \in Tables, changes' \in Nat, overtaken' \subseteq Keys,
           ragSvc' \in ConfigFiles \cup {"none"}, storing' \in BOOLEAN
    PROVE  TypeOK'
<1>1. failed' \subseteq FileSet /\ unserved' \subseteq FileSet /\ upserted' \in Nat
  BY Kinds, CurrentFacts DEF Skip
<1> QED
  BY <1>1, LoopType DEF Skip

LEMMA FileType ==
    ASSUME TypeOK, Pending', InHand, Parse \/ ParseFails \/ Embed \/ EmbedFails \/ EmbedPanics \/ DryRun
    PROVE  TypeOK'
<1>1. ASSUME Parse PROVE TypeOK'
  <2>1. pc = "file" /\ todo # {}
        /\ UNCHANGED <<config, server, repository, checkout, table, inflight, options, listed,
                       connected, stats, outcome, effects, bounds>>
    BY <1>1 DEF Parse
  <2>2. CASE NextFile
    BY <2>1, <2>2, Kinds, LoopType
    DEF config, server, repository, options, stats, effects
  <2>3. CASE rows' = CurrentRows /\ pc' = "embed" /\ todo' = todo /\ attempt' = attempt
    <3>1. rows' \in Seq(Rows)
      BY <2>1, <2>3, CurrentFacts, RowsOfFacts DEF CurrentRows
    <3>2. pc' = "embed" /\ todo' = todo /\ attempt' = attempt
      BY <2>3
    <3>3. Data'
      BY <2>1, <3>1, TypeParts DEF Data, repository, stats, server, effects
    <3>4. Control'
      BY <2>1, <3>2, TypeParts DEF Control, config, server, options
    <3>5. Flags'
      BY <2>1, <3>2, TypeParts DEF Flags, config, server, options
    <3>6. Walk'
      BY <2>1, <3>2, TypeParts DEF Walk, options
    <3> QED
      BY <3>3, <3>4, <3>5, <3>6, TypePartsNext
  <2> QED
    BY <1>1, <2>2, <2>3 DEF Parse
<1>2. ASSUME ParseFails PROVE TypeOK'
  BY <1>2, Kinds, SkipType
  DEF ParseFails, config, server, repository, options, effects
<1>3. ASSUME Embed PROVE TypeOK'
  <2>1. rows' = rows
    BY <1>3, EmbedKeepsRows
  <2>2. pc = "embed" /\ pc' = "store"
        /\ UNCHANGED <<config, server, repository, checkout, table, inflight, options, listed, todo,
                       attempt, connected, stats, outcome, effects, bounds>>
    BY <1>3 DEF Embed
  <2>3. Data'
    BY <2>1, <2>2, TypeParts DEF Data, repository, stats, server, effects
  <2>4. Control'
    BY <2>2, TypeParts DEF Control, config, server, options
  <2>5. Flags'
    BY <2>2, TypeParts DEF Flags, config, server, options
  <2>6. Walk'
    BY <2>2, TypeParts DEF Walk, options
  <2> QED
    BY <2>3, <2>4, <2>5, <2>6, TypePartsNext
<1>4. ASSUME EmbedFails PROVE TypeOK'
  <2>1. todo # {}
    BY <1>4, HandFacts DEF EmbedFails
  <2> QED
    BY <1>4, <2>1, Kinds, SkipType
    DEF EmbedFails, config, server, repository, options, effects
<1>5. ASSUME EmbedPanics PROVE TypeOK'
  BY <1>5, Kinds, EndType
  DEF EmbedPanics, config, server, repository, options, stats, effects
<1>6. ASSUME DryRun PROVE TypeOK'
  <2>1. todo # {}
    BY <1>6, HandFacts DEF DryRun
  <2> QED
    BY <1>6, <2>1, Kinds, LoopType
    DEF DryRun, config, server, repository, options, stats, effects
<1> QED
  BY <1>1, <1>2, <1>3, <1>4, <1>5, <1>6

LEMMA StoreType ==
    ASSUME TypeOK, Pending', InHand, Remembered,
           Upsert \/ UpsertFails \/ Post \/ PostRefused \/ PostUnanswered
    PROVE  TypeOK'
<1>1. /\ pc = "store" /\ todo # {} /\ Current \in FileSet /\ checkout[Current] \in Contents
      /\ rows = RowsOf(Current, checkout[Current]) /\ rows \in Seq(Rows)
  BY HandFacts DEF Upsert, UpsertFails, Post, PostRefused, PostUnanswered
<1>2. TakeEffect(rows) => table' \in Tables /\ changes' \in Nat /\ overtaken' \subseteq Keys
  BY <1>1, OwnEffect, FileEffect
<1>3. ASSUME Upsert PROVE TypeOK'
  <2>1. TakeEffect(rows) /\ NextFile
        /\ upserted' = upserted + ChangeCount(table, rows, Len(rows))
        /\ UNCHANGED <<config, server, repository, checkout, inflight, options, listed,
                       connected, failed, outcome, bounds>>
    BY <1>3 DEF Upsert
  <2>2. upserted' \in Nat
    <3>1. ChangeCount(table, rows, Len(rows)) \in Nat
      BY <1>1, RowsOfCount
    <3>2. upserted \in Nat
      BY Kinds
    <3> QED
      BY <2>1, <3>1, <3>2
  <2> QED
    BY <1>1, <1>2, <2>1, <2>2, Kinds, LoopType DEF config, server, repository, options
<1>4. ASSUME UpsertFails PROVE TypeOK'
  <2>1. /\ Skip
        /\ UNCHANGED <<config, server, repository, checkout, table, options, listed, upserted,
                       outcome, effects, bounds>>
    BY <1>4 DEF UpsertFails
  <2>3. connected' \in BOOLEAN /\ (connected' => connected)
    <3>1. connected' = connected \/ connected' = FALSE
      BY <1>4 DEF UpsertFails
    <3>2. CASE connected' = connected
      BY <3>2, Kinds
    <3>3. CASE connected' = FALSE
      BY <3>3
    <3> QED
      BY <3>1, <3>2, <3>3
  <2> QED
    BY <1>1, <2>1, <2>3, Kinds, SkipType DEF config, server, repository, options, effects
<1>5. ASSUME Post PROVE TypeOK'
  <2>1. /\ Reached /\ NextFile
        /\ UNCHANGED <<config, configFile, repository, checkout, inflight, options, listed,
                       connected, stats, outcome, bounds>>
    BY <1>5 DEF Post
  <2>2. table' \in Tables /\ changes' \in Nat /\ overtaken' \subseteq Keys
    BY <1>2, <1>5, Kinds DEF Post, effects
  <2>3. unserved' \subseteq FileSet
    BY <1>1, <1>5, Kinds DEF Post
  <2> QED
    BY <1>1, <2>1, <2>2, <2>3, Kinds, ReachedType, LoopType DEF config, repository, options, stats
<1>6. ASSUME PostRefused PROVE TypeOK'
  BY <1>1, <1>6, AftermathType, Kinds, SkipType DEF PostRefused, config, repository, options
<1>7. ASSUME PostUnanswered PROVE TypeOK'
  <2>1. /\ table' \in Tables /\ changes' \in Nat /\ overtaken' \subseteq Keys
        /\ ragSvc' \in ConfigFiles \cup {"none"} /\ storing' \in BOOLEAN
        /\ UNCHANGED <<config, configFile, unserved, repository, checkout, options, listed,
                       connected, upserted, outcome, bounds>>
    BY <1>1, <1>7, AftermathType DEF PostUnanswered
  <2>2. CASE Skip
    BY <1>1, <2>1, <2>2, Kinds, SkipType DEF config, repository, options
  <2>3. CASE attempt # 2 /\ attempt' = attempt + 1 /\ UNCHANGED <<pc, todo, rows, failed>>
    <3>1. attempt' \in 0 .. 2
      BY <2>3, TypeParts DEF Control
    <3>2. UNCHANGED <<pc, todo, rows, failed>>
      BY <2>3
    <3>3. Data'
      BY <2>1, <3>2, TypeParts DEF Data, repository
    <3>4. Control'
      BY <2>1, <3>1, <3>2, TypeParts DEF Control, config, options
    <3>5. Flags'
      BY <2>1, <3>2, TypeParts DEF Flags, config, options
    <3>6. Walk'
      BY <2>1, <3>2, TypeParts DEF Walk, options
    <3> QED
      BY <3>3, <3>4, <3>5, <3>6, TypePartsNext
  <2> QED
    BY <1>7, <2>2, <2>3 DEF PostUnanswered, LastAttempt
<1> QED
  BY <1>3, <1>4, <1>5, <1>6, <1>7

LEMMA AfterType ==
    ASSUME TypeOK, Pending', InHand, Remembered, Settle \/ Finish \/ Crash
    PROVE  TypeOK'
<1>1. ASSUME Settle PROVE TypeOK'
  <2>1. UNCHANGED <<config, server, repository, checkout, options, listed, pc, todo, rows,
                    attempt, connected, stats, outcome, bounds>>
    BY <1>1 DEF Settle
  <2>3. table' \in Tables /\ changes' \in Nat /\ overtaken' \subseteq Keys
    BY <1>1, SettleEffect, FileEffect, Kinds DEF effects, OldTakesEffect
  <2>4. Data'
    BY <2>1, <2>3, TypeParts DEF Data, repository, stats, server
  <2>5. Control'
    BY <2>1, TypeParts DEF Control, config, server, options
  <2>6. Flags'
    BY <2>1, TypeParts DEF Flags, config, server, options
  <2>7. Walk'
    BY <2>1, TypeParts DEF Walk, options
  <2> QED
    BY <2>4, <2>5, <2>6, <2>7, TypePartsNext
<1>2. ASSUME Finish PROVE TypeOK'
  <2>1. listed \subseteq Markdowns(checkout)
    BY <1>2 DEF Finish, TypeOK
  <2> QED
    BY <1>2, <2>1, Kinds, EndType
    DEF Finish, config, server, repository, options, stats, effects
<1>3. ASSUME Crash PROVE TypeOK'
  <2>1. /\ End("aborted")
        /\ UNCHANGED <<config, configFile, unserved, repository, checkout, table, options, listed,
                       stats, effects, bounds>>
    BY <1>3 DEF Crash
  <2>2. ragSvc' \in ConfigFiles \cup {"none"} /\ storing' \in BOOLEAN
    BY <1>3, ReachedType, Kinds DEF Crash
  <2> QED
    BY <2>1, <2>2, EndType DEF config, repository, options, stats, effects
<1> QED
  BY <1>1, <1>2, <1>3

LEMMA TypeInv ==
    ASSUME TypeOK, InHand, Remembered, [Next]_vars
    PROVE  TypeOK'
BY PendingInv, OutsideType, SyncType, FileType, StoreType, AfterType DEF Next, Step

-----------------------------------------------------------------------------
(* The working copy is replaced only while a run synchronizes. *)
LEMMA CheckoutStep ==
    ASSUME [Next]_vars, ~Sync, ~SyncFails
    PROVE  checkout' = checkout
BY DEF Next, Step, Start, Push, Upset, Settle, Crash, Connect, ConnectFails, Parse, ParseFails,
   Embed, EmbedFails, EmbedPanics, DryRun, Upsert, UpsertFails, Post, PostRefused,
   PostUnanswered, Finish, vars

LEMMA VersionsGrow ==
    ASSUME TypeOK, [Next]_vars, NEW f \in FileSet
    PROVE  versions[f] \subseteq versions'[f]
<1>1. CASE Push
  BY <1>1 DEF Push, TypeOK
<1>2. CASE ~Push
  BY <1>2 DEF Next, Step, Sync, SyncFails, Start, Upset, Settle, Crash, Connect, ConnectFails,
     Parse, ParseFails, Embed, EmbedFails, EmbedPanics, DryRun, Upsert, UpsertFails, Post,
     PostRefused, PostUnanswered, Finish, vars, repository
<1> QED
  BY <1>1, <1>2

(* What is given up is what was in hand. *)
LEMMA InHandInv ==
    ASSUME TypeOK, InHand, Remembered, [Next]_vars
    PROVE  InHand'
<1>1. ASSUME NEW b \in inflight PROVE Sent(b)'
  <2>1. PICK f \in FileSet, c \in Contents :
            b.rows = RowsOf(f, c) /\ c \in versions[f] /\ (b.run = runs => c = checkout[f])
    BY <1>1 DEF InHand, Sent
  <2>2. c \in versions'[f]
    BY <2>1, VersionsGrow
  <2>3. ASSUME b.run = runs' PROVE c = checkout'[f]
    <3>1. b.run \in 0 .. runs /\ runs \in Nat /\ (pc = "sync" => b.run < runs)
      BY <1>1 DEF TypeOK
    <3>2. ~Start
      <4>1. Start => runs' = runs + 1
        BY DEF Start
      <4> QED
        BY <2>3, <3>1, <4>1
    <3>3. runs' = runs
      BY <3>2, InflightStep
    <3>4. ~Sync /\ ~SyncFails
      BY <2>3, <3>1, <3>3 DEF Sync, SyncFails
    <3> QED
      BY <2>1, <2>3, <3>3, <3>4, CheckoutStep
  <2>4. (b.rows = RowsOf(f, c))'
    BY <2>1 DEF RowsOf
  <2> QED
    BY <2>2, <2>3, <2>4 DEF Sent
<1>2. ASSUME pc = "store", runs' = runs, NEW b, b = InHandNow PROVE Sent(b)'
  <2>1. PICK f \in FileSet, c \in Contents : c = checkout[f] /\ rows = RowsOf(f, c)
    BY <1>2, HandFacts
  <2>2. c \in versions'[f]
    BY <2>1, VersionsGrow, IngestionAssumption DEF Remembered
  <2>3. ~Sync /\ ~SyncFails
    BY <1>2 DEF Sync, SyncFails
  <2>4. c = checkout'[f]
    BY <2>1, <2>3, CheckoutStep
  <2>5. (b.rows = RowsOf(f, c))'
    BY <1>2, <2>1 DEF InHandNow, RowsOf
  <2> QED
    BY <2>2, <2>4, <2>5 DEF Sent
<1>3. \A b \in inflight' : Sent(b)'
  BY <1>1, <1>2, InflightStep
<1>4. rows' = IF pc' \in {"embed", "store"} THEN CurrentRows' ELSE <<>>
  <2>0. rows = IF pc \in {"embed", "store"} THEN CurrentRows ELSE <<>>
    BY DEF InHand
  <2>1. ASSUME checkout' = checkout, todo' = todo PROVE CurrentRows' = CurrentRows
    BY <2>1 DEF CurrentRows, RowsOf, Current
  <2>2. ASSUME NextFile \/ End("aborted") \/ End("finished") PROVE rows' = <<>> /\ pc' \in {"file", "idle"}
    BY <2>2 DEF NextFile, End
  <2>3. ASSUME UNCHANGED <<pc, todo, rows, checkout>>
        PROVE  rows' = IF pc' \in {"embed", "store"} THEN CurrentRows' ELSE <<>>
    BY <2>0, <2>1, <2>3
  <2>4. ASSUME Push \/ Upset \/ Settle \/ UNCHANGED vars PROVE UNCHANGED <<pc, todo, rows, checkout>>
    BY <2>4 DEF Push, Upset, Settle, vars
  <2>5. ASSUME Start \/ Sync \/ Connect PROVE rows' = <<>> /\ pc' \notin {"embed", "store"}
    BY <2>0, <2>5 DEF Start, Sync, Connect
  <2>6. ASSUME SyncFails \/ ConnectFails \/ ParseFails \/ EmbedFails \/ EmbedPanics \/ DryRun \/ Upsert
               \/ UpsertFails \/ Post \/ PostRefused \/ Finish \/ Crash
        PROVE  NextFile \/ End("aborted") \/ End("finished")
    BY <2>6 DEF SyncFails, ConnectFails, ParseFails, EmbedFails, EmbedPanics, DryRun, Upsert,
       UpsertFails, Post, PostRefused, Finish, Crash, Skip
  <2>7. ASSUME PostUnanswered PROVE NextFile \/ UNCHANGED <<pc, todo, rows, checkout>>
    BY <2>7 DEF PostUnanswered, Skip
  <2>8. ASSUME Parse
        PROVE  NextFile \/ (rows' = CurrentRows /\ pc' = "embed" /\ todo' = todo /\ checkout' = checkout)
    BY <2>8 DEF Parse
  <2>9. ASSUME Embed
        PROVE  rows' = rows /\ pc = "embed" /\ pc' = "store" /\ todo' = todo /\ checkout' = checkout
    BY <2>9, EmbedKeepsRows DEF Embed
  <2>10. CASE NextFile \/ End("aborted") \/ End("finished")
    BY <2>2, <2>10
  <2>11. CASE Parse
    BY <2>1, <2>8, <2>10, <2>11
  <2>12. CASE Embed
    BY <2>0, <2>1, <2>9, <2>12
  <2> QED
    BY <2>3, <2>4, <2>5, <2>6, <2>7, <2>10, <2>11, <2>12 DEF Next, Step
<1> QED
  BY <1>3, <1>4 DEF InHand

(* Whatever is checked out was pushed. *)
LEMMA RememberedInv ==
    ASSUME TypeOK, Remembered, [Next]_vars
    PROVE  Remembered'
<1>1. CASE Push
  <2>1. PICK f \in Included, c \in Contents \cup {NoFile} :
            /\ remote' = [remote EXCEPT ![f] = c]
            /\ versions' = [versions EXCEPT ![f] = @ \cup ({c} \ {NoFile})]
    BY <1>1 DEF Push
  <2>2. checkout' = checkout /\ f \in FileSet
    BY <1>1, IngestionAssumption DEF Push
  <2>3. remote \in [FileSet -> Contents \cup {NoFile}] /\ versions \in [FileSet -> SUBSET Contents]
    BY DEF TypeOK, Repositories
  <2> QED
    BY <2>1, <2>2, <2>3 DEF Remembered
<1>2. CASE Sync \/ SyncFails
  BY <1>2 DEF Sync, SyncFails, repository, NoCheckout, Remembered
<1>3. CASE ~Push /\ ~Sync /\ ~SyncFails
  <2>1. checkout' = checkout
    BY <1>3, CheckoutStep
  <2>2. UNCHANGED repository
    BY <1>3 DEF Next, Step, Start, Upset, Settle, Crash, Connect, ConnectFails, Parse, ParseFails,
       Embed, EmbedFails, EmbedPanics, DryRun, Upsert, UpsertFails, Post, PostRefused,
       PostUnanswered, Finish, vars
  <2> QED
    BY <2>1, <2>2 DEF Remembered, repository
<1> QED
  BY <1>1, <1>2, <1>3

LEMMA StoringInv ==
    ASSUME StoringIsServing, [Next]_vars
    PROVE  StoringIsServing'
<1>1. Reached => StoringIsServing'
  BY DEF Reached, Serving, StoringIsServing
<1>2. UNCHANGED <<ragSvc, storing>> => StoringIsServing'
  BY DEF StoringIsServing
<1>3. Upset => StoringIsServing'
  BY DEF Upset, StoringIsServing
<1>4. PostRefused \/ PostUnanswered \/ Post \/ Crash => Reached \/ UNCHANGED <<ragSvc, storing>>
  BY DEF PostRefused, PostUnanswered, Post, Crash, Aftermath
<1>5. [Next]_vars /\ ~(PostRefused \/ PostUnanswered \/ Post \/ Crash \/ Upset)
        => UNCHANGED <<ragSvc, storing>>
  BY DEF Next, Step, Sync, SyncFails, Start, Push, Settle, Connect, ConnectFails,
     Parse, ParseFails, Embed, EmbedFails, EmbedPanics, DryRun, Upsert, UpsertFails,
     Finish, vars, server
<1> QED
  BY <1>1, <1>2, <1>3, <1>4, <1>5

-----------------------------------------------------------------------------
(* Every step by which a row of IngestRepo is counted changes it, and a    *)
(* batch is left behind only with an error.                                *)
LEMMA CountedInv ==
    ASSUME TypeOK, InHand, Remembered, Counted, [Next]_vars
    PROVE  Counted'
<1> DEFINE NoneOwn == \A b \in inflight : b.run # runs
           Third == driver = "ingest" /\ failed = {} /\ outcome # "aborted" =>
                        NoneOwn /\ upserted = changes
<1>0. (pc # "idle" => outcome = "none") /\ upserted <= changes /\ Third
      /\ upserted \in Nat /\ changes \in Nat
  BY Kinds DEF Counted
<1>1. ASSUME Start PROVE Counted'
  <2>1. NoneOwn'
    BY <1>1 DEF Start, TypeOK
  <2>2. upserted' = 0 /\ changes' = 0 /\ outcome' = "none"
    BY <1>1 DEF Start
  <2> QED
    BY <2>1, <2>2 DEF Counted
<1>2. ASSUME Upsert PROVE Counted'
  <2>1. /\ pc = "store" /\ Current \in FileSet /\ checkout[Current] \in Contents
        /\ TakeEffect(rows) /\ rows = RowsOf(Current, checkout[Current])
    BY <1>2, HandFacts DEF Upsert
  <2>2. /\ changes' = changes + ChangeCount(table, rows, Len(rows))
        /\ upserted' = upserted + ChangeCount(table, rows, Len(rows))
        /\ ChangeCount(table, rows, Len(rows)) \in Nat
    BY <1>2, <2>1, OwnHistory, RowsOfCount DEF Upsert
  <2>3. /\ pc # "idle" /\ outcome' = outcome /\ failed' = failed /\ inflight' = inflight
        /\ driver' = driver /\ runs' = runs
    BY <1>2, <2>1 DEF Upsert, config, bounds
  <2> QED
    BY <1>0, <2>2, <2>3 DEF Counted
<1>3. ASSUME Post \/ PostRefused \/ PostUnanswered PROVE Counted'
  <2>1. driver' # "ingest" /\ upserted' = upserted /\ outcome' = outcome /\ pc # "idle"
    BY <1>3 DEF Post, PostRefused, PostUnanswered, config, stats
  <2>2. ~Start
    BY <1>3 DEF Start, Post, PostRefused, PostUnanswered
  <2>3. changes' \in Nat /\ changes' >= changes
    BY <1>0, <2>2, TableStep, FileEffect DEF effects
  <2> QED
    BY <1>0, <2>1, <2>3 DEF Counted
<1>4. ASSUME Settle PROVE Counted'
  <2>1. /\ pc' = pc /\ outcome' = outcome /\ upserted' = upserted
        /\ failed' = failed /\ driver' = driver /\ runs' = runs /\ inflight' \subseteq inflight
    BY <1>4 DEF Settle, stats, config, bounds
  <2>2. changes' \in Nat /\ changes' >= changes
    BY <1>0, <1>4, SettleEffect, FileEffect DEF effects
  <2>3. NoneOwn => changes' = changes
    <3>1. NoneOwn => \E b \in inflight : TakeBack(b.rows) \/ UNCHANGED <<table, effects>>
      BY <1>4 DEF Settle
    <3> QED
      BY <3>1 DEF TakeBack, effects
  <2> QED
    BY <1>0, <2>1, <2>2, <2>3 DEF Counted
<1>5. ASSUME UpsertFails PROVE Counted'
  <2>1. failed' # {} /\ UNCHANGED <<upserted, changes, outcome>> /\ pc # "idle"
    BY <1>5 DEF UpsertFails, Skip, effects
  <2> QED
    BY <1>0, <2>1 DEF Counted
<1>6. ASSUME SyncFails \/ ConnectFails \/ EmbedPanics \/ Crash PROVE Counted'
  <2>1. outcome' = "aborted" /\ pc' = "idle" /\ UNCHANGED <<upserted, changes>>
    BY <1>6 DEF SyncFails, ConnectFails, EmbedPanics, Crash, End, stats, effects
  <2> QED
    BY <1>0, <2>1 DEF Counted
<1>7. ASSUME Finish PROVE Counted'
  <2>1. /\ outcome' = "finished" /\ pc' = "idle" /\ outcome = "none"
        /\ UNCHANGED <<driver, inflight, failed, upserted, changes, runs>>
    BY <1>0, <1>7 DEF Finish, End, stats, config, effects, bounds
  <2> QED
    BY <1>0, <2>1 DEF Counted
<1>8. ASSUME Sync \/ Connect \/ Parse \/ Embed \/ DryRun \/ Push \/ Upset \/ UNCHANGED vars
             \/ ParseFails \/ EmbedFails
      PROVE  Counted'
  <2>1. /\ UNCHANGED <<driver, inflight, upserted, changes, outcome, runs>>
        /\ (pc' # "idle" => pc # "idle")
        /\ failed \subseteq failed'
    BY <1>8 DEF Sync, Connect, Parse, Embed, DryRun, Push, Upset, ParseFails, EmbedFails, Skip,
       NextFile, vars, config, stats, effects, bounds
  <2> QED
    BY <1>0, <2>1 DEF Counted
<1> QED
  BY <1>1, <1>2, <1>3, <1>4, <1>5, <1>6, <1>7, <1>8 DEF Next, Step

(* What is stored was pushed, with its own vector. *)
LEMMA RowsSoundInv ==
    ASSUME TypeOK, InHand, Remembered, RowsSound, [Next]_vars
    PROVE  RowsSound'
<1> SUFFICES ASSUME NEW k \in Keys, table'[k] # NoRow
             PROVE  /\ \E c \in versions'[k[1]] : k[2] < Len(c) /\ c[k[2] + 1] = table'[k].sha
                    /\ table'[k].vec = table'[k].sha
  BY DEF RowsSound
<1>1. versions[k[1]] \subseteq versions'[k[1]] /\ k[1] \in FileSet /\ k[2] + 1 \in 1 .. MaxChunks
  BY VersionsGrow, PlaceFacts
<1>2. CASE table'[k] = table[k]
  BY <1>1, <1>2 DEF RowsSound
<1>3. CASE table'[k] # table[k]
  <2>1. OwnTakesEffect \/ OldTakesEffect
    BY <1>3, TableStep
  <2>2. PICK c \in versions[k[1]] \cap Contents :
            k[2] + 1 \in DOMAIN c /\ table'[k] = ChunkOf(c, k[2] + 1)
    BY <1>3, <2>1, FileEffect
  <2>3. k[2] < Len(c)
    <3>1. k[2] \in Nat
      BY DEF Keys
    <3>2. DOMAIN c = 1 .. Len(c) /\ Len(c) \in Nat
      BY <2>2, RowsOfFacts, <1>1
    <3> QED
      BY <2>2, <3>1, <3>2
  <2>4. table'[k].sha = c[k[2] + 1] /\ table'[k].vec = table'[k].sha
    BY <2>2, ChunkFacts
  <2> QED
    BY <1>1, <2>3, <2>4
<1> QED
  BY <1>2, <1>3

-----------------------------------------------------------------------------
(* After its batch took effect a file is stored. *)
LEMMA EffectKeeps ==
    ASSUME TypeOK, NEW f \in FileSet, checkout[f] \in Contents,
           TakeEffect(RowsOf(f, checkout[f])), checkout' = checkout
    PROVE  Kept(f)'
<1> SUFFICES ASSUME NEW i \in DOMAIN checkout[f]
             PROVE  table'[Place(f, i)] # NoRow /\ table'[Place(f, i)].sha = checkout[f][i]
  BY IngestionAssumption DEF Kept, Chunks, Place
<1>1. table'[Place(f, i)] =
        IF Stale(table, f, checkout[f], i) THEN ChunkOf(checkout[f], i) ELSE table[Place(f, i)]
  BY OwnHistory, Effect
<1> QED
  BY <1>1, ChunkFacts DEF Stale

(* What is stored as the working copy has it stays so, until the working   *)
(* copy is replaced or an old batch takes it back.                         *)
LEMMA KeptStays ==
    ASSUME TypeOK, InHand, Remembered, [Next]_vars, ~Start, checkout' = checkout,
           NEW f \in FileSet, Kept(f)
    PROVE  Kept(f)'
<1> SUFFICES ASSUME NEW i \in Chunks(f), Place(f, i) \notin overtaken'
             PROVE  table'[Place(f, i)] # NoRow /\ table'[Place(f, i)].sha = checkout[f][i]
  BY DEF Kept, Chunks, Place
<1>1. Place(f, i) \notin overtaken =>
        table[Place(f, i)] # NoRow /\ table[Place(f, i)].sha = checkout[f][i]
  BY DEF Kept, Place
<1>2. checkout[f] \in Contents /\ i \in DOMAIN checkout[f]
  BY FileFacts
<1>3. Place(f, i) \in Keys /\ Place(f, i)[1] = f /\ Place(f, i)[2] + 1 = i
  BY FileFacts, PlaceFacts
<1>4. CASE UNCHANGED <<table, effects>>
  BY <1>1, <1>4 DEF effects
<1>5. CASE OldTakesEffect
  <2>1. PICK g \in FileSet, c \in Contents : TakeBack(RowsOf(g, c))
    BY <1>5 DEF OldTakesEffect
  <2>2. overtaken' = overtaken \cup {k \in Keys : table'[k] # table[k]}
    BY <2>1, OldHistory
  <2> QED
    BY <1>1, <1>3, <2>2
<1>6. CASE OwnTakesEffect
  <2>1. PICK g \in FileSet, c \in Contents : TakeEffect(RowsOf(g, c)) /\ c = checkout[g]
    BY <1>6 DEF OwnTakesEffect
  <2>2. CASE g = f
    <3>1. table'[Place(f, i)] =
            IF Stale(table, f, c, i) THEN ChunkOf(c, i) ELSE table[Place(f, i)]
      BY <1>2, <2>1, <2>2, OwnHistory, Effect
    <3> QED
      BY <1>2, <2>1, <2>2, <3>1, ChunkFacts DEF Stale
  <2>3. CASE g # f
    <3>1. table'[Place(f, i)] = table[Place(f, i)]
      BY <1>3, <2>1, <2>3, OwnHistory, Effect
    <3>2. overtaken' = overtaken \ {Place(g, n) : n \in DOMAIN c}
      BY <2>1, OwnHistory
    <3>3. Place(f, i) \notin {Place(g, n) : n \in DOMAIN c}
      BY <2>3 DEF Place
    <3> QED
      BY <1>1, <3>1, <3>2, <3>3
  <2> QED
    BY <2>2, <2>3
<1> QED
  BY <1>4, <1>5, <1>6, TableStep

(* On to the next file: the one before is stored or accounted for. *)
LEMMA NextFileKeeps ==
    ASSUME TypeOK, InHand, Remembered, AllKept, [Next]_vars, NextFile, todo # {},
           pc \in {"connect", "file", "embed", "store"},
           checkout' = checkout, listed' = listed, dry' = dry,
           failed \subseteq failed', unserved \subseteq unserved',
           NEW g \in FileSet, g = Current, dry \/ g \in failed' \cup unserved' \/ Kept(g)'
    PROVE  AllKept'
<1> SUFFICES ASSUME ~dry', NEW f \in Listed', f \notin failed' \cup unserved' \cup Remaining'
             PROVE  Kept(f)'
  BY DEF AllKept
<1>1. f \in Listed /\ f \in FileSet
  BY CurrentFacts, IngestionAssumption DEF Listed
<1>2. f \in Remaining => f = g
  BY NextFileType DEF Remaining, Current
<1>3. CASE f = g
  BY <1>3
<1>4. CASE f \notin Remaining
  <2>1. Kept(f)
    BY <1>1, <1>4 DEF AllKept, Through
  <2>2. ~Start
    BY DEF Start
  <2> QED
    BY <1>1, <2>1, <2>2, KeptStays
<1> QED
  BY <1>2, <1>3, <1>4

(* What a run listed are files of the repository. *)
LEMMA ListedFacts ==
    ASSUME TypeOK, Through
    PROVE  Listed \subseteq FileSet
<1>1. Files \in Seq(FileSet)
  BY IngestionAssumption
<1>2. listed \subseteq Markdowns(checkout)
  BY DEF TypeOK, Through
<1> QED
  BY <1>1, <1>2 DEF Listed, Markdowns

(* A file of which the run lets go is stored, or there is an error, or the *)
(* server that answered for it had stored nothing yet.                     *)
LEMMA AllKeptInv ==
    ASSUME TypeOK, InHand, Remembered, StoringIsServing, AllKept, [Next]_vars
    PROVE  AllKept'
<1>1. ASSUME UNCHANGED <<checkout, listed, dry, failed, unserved, todo>>, Through' => Through
      PROVE  AllKept'
  <2> SUFFICES ASSUME Through', ~dry', NEW f \in Listed', f \notin failed' \cup unserved' \cup Remaining'
               PROVE  Kept(f)'
    BY DEF AllKept
  <2>1. f \in Listed /\ f \notin failed \cup unserved \cup Remaining /\ Through /\ ~dry
    BY <1>1 DEF Listed, Remaining
  <2>2. f \in FileSet /\ ~Start
    BY <2>1, ListedFacts DEF Start, Through
  <2>3. Kept(f)
    BY <2>1 DEF AllKept
  <2> QED
    BY <1>1, <2>2, <2>3, KeptStays
<1>2. ASSUME Start \/ SyncFails \/ ConnectFails \/ EmbedPanics \/ Crash PROVE AllKept'
  <2>1. pc' \in {"idle", "sync"} /\ outcome' \in {"none", "aborted"}
    BY <1>2 DEF Start, SyncFails, ConnectFails, EmbedPanics, Crash, End
  <2> QED
    BY <2>1 DEF AllKept, Through
<1>3. ASSUME Sync PROVE AllKept'
  <2>1. Listed' = Remaining'
    BY <1>3 DEF Sync, Listed, Remaining, options
  <2> QED
    BY <2>1 DEF AllKept
<1>4. ASSUME Connect \/ Embed \/ Push \/ Upset \/ Settle \/ UNCHANGED vars PROVE AllKept'
  <2>1. UNCHANGED <<checkout, listed, dry, failed, unserved, todo>> /\ (Through' => Through)
    BY <1>4 DEF Connect, Embed, Push, Upset, Settle, vars, options, stats, server, Through
  <2> QED
    BY <1>1, <2>1
<1>5. ASSUME Finish PROVE AllKept'
  <2>1. UNCHANGED <<checkout, listed, dry, failed, unserved, todo>> /\ Through
    BY <1>5 DEF Finish, End, options, stats, server, Through
  <2> QED
    BY <1>1, <2>1
<1>6. ASSUME ParseFails \/ EmbedFails \/ UpsertFails \/ PostRefused \/ (PostUnanswered /\ Skip)
      PROVE  AllKept'
  <2>1. /\ Skip /\ pc \in {"file", "store", "embed"} /\ todo # {}
        /\ checkout' = checkout /\ listed' = listed /\ dry' = dry /\ unserved' = unserved
    BY <1>6, HandFacts DEF ParseFails, EmbedFails, UpsertFails, PostRefused, PostUnanswered,
       options, server
  <2>2. NextFile /\ Current \in FileSet /\ Current \in failed' /\ failed \subseteq failed'
    BY <2>1, CurrentFacts DEF Skip
  <2> QED
    BY <2>1, <2>2, NextFileKeeps
<1>7. ASSUME PostUnanswered, ~Skip PROVE AllKept'
  <2>1. UNCHANGED <<checkout, listed, dry, failed, unserved, todo>> /\ (Through' => Through)
    BY <1>7 DEF PostUnanswered, options, Through
  <2> QED
    BY <1>1, <2>1
<1>8. ASSUME Parse PROVE AllKept'
  <2>0. /\ pc = "file" /\ todo # {} /\ UNCHANGED <<checkout, listed, dry, failed, unserved, table>>
    BY <1>8 DEF Parse, options, stats, server
  <2>1. CASE NextFile /\ CurrentRows = <<>>
    <3>1. Current \in FileSet /\ checkout[Current] \in Contents
      BY <2>0, CurrentFacts
    <3>2. PICK g \in FileSet : g = Current
      BY <3>1
    <3>3. Chunks(g) = {}
      BY <2>1, <3>1, <3>2, RowsOfFacts, FileFacts, IngestionAssumption DEF CurrentRows
    <3>4. Kept(g)'
      BY <2>0, <3>3 DEF Kept, Chunks
    <3> QED
      BY <2>0, <2>1, <3>2, <3>4, NextFileKeeps
  <2>2. CASE todo' = todo /\ pc' = "embed"
    BY <1>1, <2>0, <2>2 DEF Through
  <2> QED
    BY <1>8, <2>1, <2>2 DEF Parse
<1>9. ASSUME DryRun PROVE AllKept'
  <2>1. dry' = dry /\ dry
    BY <1>9 DEF DryRun, options
  <2> QED
    BY <2>1 DEF AllKept
<1>10. ASSUME Upsert \/ Post PROVE AllKept'
  <2>1. /\ pc = "store" /\ todo # {} /\ Current \in FileSet /\ checkout[Current] \in Contents
        /\ rows = RowsOf(Current, checkout[Current])
    BY <1>10, HandFacts DEF Upsert, Post
  <2>2. PICK g \in FileSet : g = Current
    BY <2>1
  <2>3. /\ NextFile /\ checkout' = checkout /\ listed' = listed /\ dry' = dry
        /\ failed' = failed /\ unserved \subseteq unserved'
    BY <1>10 DEF Upsert, Post, options, stats, server
  <2>4. TakeEffect(rows) \/ Current \in unserved'
    BY <1>10 DEF Upsert, Post, Serving, StoringIsServing
  <2>5. TakeEffect(rows) => Kept(g)'
    BY <2>1, <2>2, <2>3, EffectKeeps
  <2> QED
    BY <2>1, <2>2, <2>3, <2>4, <2>5, NextFileKeeps
<1> QED
  BY <1>2, <1>3, <1>4, <1>5, <1>6, <1>7, <1>8, <1>9, <1>10 DEF Next, Step

-----------------------------------------------------------------------------
THEOREM InitInv == Init => IInv
<1> SUFFICES ASSUME Init PROVE IInv
  OBVIOUS
<1>1. /\ ragSvc = "none" /\ storing = FALSE /\ unserved = {}
      /\ remote \in Repositories /\ versions = [f \in FileSet |-> {remote[f]} \ {NoFile}]
      /\ checkout = NoCheckout /\ table = [k \in Keys |-> NoRow]
      /\ inflight = {} /\ rows = <<>> /\ attempt = 0 /\ connected = FALSE
      /\ dry = FALSE /\ limit = 0 /\ pc = "idle" /\ listed = {} /\ todo = {}
      /\ failed = {} /\ upserted = 0 /\ outcome = "none" /\ changes = 0 /\ overtaken = {}
      /\ runs = 0
  BY DEF Init
<1>2. Data
  <2>1. \A f \in FileSet : remote[f] \in Contents \cup {NoFile}
    BY <1>1 DEF Repositories
  <2>2. versions \in [FileSet -> SUBSET Contents]
    BY <1>1, <2>1
  <2>3. table \in Tables /\ rows \in Seq(Rows)
    BY <1>1 DEF Tables
  <2> QED
    BY <1>1, <2>2, <2>3 DEF Data
<1>3. Control
  <2>1. PICK program \in Programs :
            driver = program[1] /\ embedder = program[2] /\ configFile = program[3]
    BY DEF Init
  <2>2. /\ driver \in {"ingest", "rag-cli"} /\ embedder \in {"batch", "bge", "ollama"}
        /\ configFile \in ConfigFiles
    BY <2>1, IngestionAssumption
  <2> QED
    BY <1>1, <2>2 DEF Control
<1>4. Flags
  <2>1. storing \in BOOLEAN /\ dry \in BOOLEAN /\ connected \in BOOLEAN
    BY <1>1
  <2>2. ~connected
    BY <1>1
  <2> QED
    BY <2>1, <2>2 DEF Flags
<1>5. Walk /\ Pending
  BY <1>1 DEF Walk, Pending
<1>6. InHand /\ Counted
  BY <1>1 DEF InHand, Counted
<1>7. Remembered
  BY <1>1 DEF Remembered, NoCheckout
<1>8. StoringIsServing /\ AllKept
  BY <1>1 DEF StoringIsServing, AllKept, Through
<1>9. RowsSound
  BY <1>1 DEF RowsSound
<1> QED
  BY <1>2, <1>3, <1>4, <1>5, <1>6, <1>7, <1>8, <1>9, TypeParts DEF IInv

THEOREM NextInv == IInv /\ [Next]_vars => IInv'
BY TypeInv, InHandInv, RememberedInv, CountedInv, StoringInv, RowsSoundInv, AllKeptInv DEF IInv

LEMMA Invariance == Spec => []IInv
BY InitInv, NextInv, PTL DEF Spec

LEMMA Consequences == IInv => TypeOK /\ RowsSound /\ CountIsReal /\ StoredOrFailed
<1> SUFFICES ASSUME IInv PROVE CountIsReal /\ StoredOrFailed
  BY DEF IInv
<1>1. CountIsReal
  BY DEF IInv, Counted, CountIsReal
<1>2. StoredOrFailed
  <2> SUFFICES ASSUME outcome = "finished", ~dry, NEW f \in Listed \ (failed \cup unserved)
               PROVE  Kept(f)
    BY DEF StoredOrFailed
  <2>1. todo = {}
    BY TypeParts DEF IInv, Walk, Counted
  <2>2. Remaining = {}
    BY <2>1 DEF Remaining
  <2> QED
    BY <2>2 DEF IInv, AllKept, Through
<1> QED
  BY <1>1, <1>2

(* Every run works through the files it listed, in the order of the walk,  *)
(* and posts no file more than three times.                                *)
THEOREM TypeCorrect == Spec => []TypeOK
BY Invariance, Consequences, PTL

(* A row of the table is what some version of its file had at that place,  *)
(* with the vector of that very text.                                      *)
THEOREM NothingMadeUp == Spec => []RowsSound
BY Invariance, Consequences, PTL

(* IngestRepo reports rows that its batches changed, and all of them when  *)
(* it meets no error.                                                      *)
THEOREM CountsChanges == Spec => []CountIsReal
BY Invariance, Consequences, PTL

(* After a run that went through, each file that it listed and at which it *)
(* met no error is stored, unless a server answered for it that had stored *)
(* nothing since it started, or a batch of an earlier run has since taken  *)
(* a chunk back.                                                           *)
THEOREM ListedFilesStored == Spec => []StoredOrFailed
BY Invariance, Consequences, PTL

(* No batch of the last run, late or repeated, replaces a row by anything  *)
(* but what its working copy has; one given up in an earlier run may.      *)
THEOREM OldOnlyLate == Spec => OldRowsComeLate
<1>1. IInv /\ [Next]_vars =>
        [\A k \in Keys : table'[k] # table[k] =>
            \/ k[2] + 1 \in Chunks(k[1]) /\ table'[k].sha = checkout[k[1]][k[2] + 1]
            \/ \E b \in inflight \ inflight' :
                  b.run < runs /\ k \in {r.key : r \in ToSet(b.rows)}]_vars
  <2> SUFFICES ASSUME IInv, [Next]_vars, NEW k \in Keys, table'[k] # table[k]
               PROVE  \/ k[2] + 1 \in Chunks(k[1]) /\ table'[k].sha = checkout[k[1]][k[2] + 1]
                      \/ Late(k)
    BY DEF Late
  <2>1. OwnTakesEffect \/ OldTakesEffect
    BY TableStep DEF IInv
  <2>2. CASE OldTakesEffect
    BY <2>2 DEF OldTakesEffect
  <2>3. CASE OwnTakesEffect
    <3>1. PICK f \in FileSet, c \in Contents :
            TakeEffect(RowsOf(f, c)) /\ c = checkout[f]
      BY <2>3 DEF OwnTakesEffect
    <3>3. k[1] = f /\ k[2] + 1 \in DOMAIN c /\ table'[k] = ChunkOf(c, k[2] + 1)
      BY <3>1, OwnHistory, Effect DEF IInv
    <3>2. k[2] + 1 \in Chunks(k[1])
      BY <3>1, <3>3, IngestionAssumption DEF Chunks
    <3> QED
      BY <3>1, <3>2, <3>3 DEF ChunkOf
  <2> QED
    BY <2>1, <2>2, <2>3
<1> QED
  BY <1>1, Invariance, PTL DEF Spec, OldRowsComeLate

=============================================================================
