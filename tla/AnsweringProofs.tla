--------------------------- MODULE AnsweringProofs ---------------------------
(* Safety of module Answering, for any number of questions at a time, any  *)
(* configuration files, scores and limits.                                 *)
EXTENDS Answering, FiniteSetTheorems, SequenceTheorems, TLAPS

FoundRows(r) == vrows[r] \cup trows[r]
FoundKeys(r) == KeysOf(vrows[r]) \cup KeysOf(trows[r])
OneEach(rows) == \A x, y \in rows : x.key = y.key => x = y

(* Where a question is before its search is over, and while there is a     *)
(* service that searches.                                                  *)
Searching == {"embed", "vector", "text", "merge", "rerank"}

(* The rows that a search read are of one time each, and were stored since *)
(* the question came; until the second statement there are none by text.   *)
ReadSoundly(r) ==
    /\ OneEach(vrows[r]) /\ OneEach(trows[r])
    /\ FoundRows(r) \subseteq seen[r]
    /\ pc[r] \notin {"new", "done"} => RowsOf(table) \subseteq seen[r]
    /\ pc[r] = "new" => vrows[r] = {} /\ trows[r] = {}

(* The service does not change under a search, or under its result.        *)
Served(r) == pc[r] \in Searching \/ chunks[r] # <<>> => ragSvc # NoService

(* No chunks before the merge; then rows that were read, each key once.    *)
Distinct(c) == \A i, j \in DOMAIN c : c[i].key = c[j].key => i = j
Among(c, rows) == \A i \in DOMAIN c : c[i] \in rows
ChunksFound(r) ==
    /\ pc[r] \in {"new", "embed", "vector", "text", "merge"} => chunks[r] = <<>>
    /\ Among(chunks[r], FoundRows(r)) /\ Distinct(chunks[r])

(* Of a sequence c of rows, by the points p of their keys: it is in order, *)
(* better than what it leaves out of the keys, and leaves none out unless  *)
(* it has n rows, which is as many as may be.                              *)
Points(r) == [k \in Keys |-> ScoreOf(r, k)]
LeftOut(c, keys) == keys \ KeysOf(ToSet(c))
InOrder(c, p) == \A i, j \in DOMAIN c : i < j => p[c[i].key] >= p[c[j].key]
TheBest(c, keys, p) == \A k \in LeftOut(c, keys) : \A i \in DOMAIN c : p[k] <= p[c[i].key]
AsManyAs(c, keys, n) == Len(c) <= n /\ (LeftOut(c, keys) # {} => Len(c) = n)
ByReranker(c) == \A i, j \in DOMAIN c : i < j => RerankScore[c[i]] >= RerankScore[c[j]]

(* What the merge hands to the reranker, and what Query returns.           *)
Candidates(r) ==
    /\ InOrder(chunks[r], Points(r)) /\ TheBest(chunks[r], FoundKeys(r), Points(r))
    /\ AsManyAs(chunks[r], FoundKeys(r), Cand)
Handed(r) ==
    /\ IF reranked[r] THEN ByReranker(chunks[r])
       ELSE InOrder(chunks[r], Points(r)) /\ TheBest(chunks[r], FoundKeys(r), Points(r))
    /\ AsManyAs(chunks[r], FoundKeys(r), Min({Limit, Cand}))
Ordered(r) ==
    /\ pc[r] \notin {"ask", "done"} => ~reranked[r]
    /\ pc[r] = "rerank" => Candidates(r)
    /\ pc[r] \in {"ask", "done"} /\ chunks[r] # <<>> => Handed(r)

(* The attempts at each service, as many as its configuration allows.      *)
Attempts(r) ==
    /\ pc[r] = "new" => attempt[r] = 0
    /\ pc[r] = "ask" => attempt[r] <= RetriesIn(asking[r])

(* What AskedEnough says of one question, answered with code after the     *)
(* outcome s of the last of n attempts, by file f and environment u.       *)
Deserved(code, s, u, f, n) ==
    /\ code \in {200, 500}
    /\ code = 200 <=> s = "choices"
    /\ s = "malformed" => u = "garbled" \/ (u = "" /\ f # NoFile)
    /\ code = 500 /\ s # "malformed" => n = 1 + RetriesIn(f)
Decided(r) == pc[r] = "done" /\ kind[r] = "askai" /\ status[r] # "refused"
Asked(r) == Decided(r) => Deserved(reply[r], status[r], url, asking[r], attempt[r])

Codes == {0, 200, 400, 500, 503}
FileTypes ==
    /\ file \in Files \cup {NoFile} /\ asking \in [Requests -> Files \cup {NoFile}]
    /\ ragSvc \in {NoService} \cup {ToConfig(LoadServer(f)) : f \in Files}
    /\ table \in [Keys -> Contents \cup {NoRow}]
    /\ seen \in [Requests -> SUBSET Stored]
Arrays ==
    /\ pc \in [Requests -> Phases] /\ reply \in [Requests -> Codes]
    /\ kind \in [Requests -> {"query", "askai"}] /\ attempt \in [Requests -> Nat]
    /\ DOMAIN status = Requests /\ reranked \in [Requests -> BOOLEAN]
    /\ vrows \in [Requests -> SUBSET Stored] /\ trows \in [Requests -> SUBSET Stored]
    /\ chunks \in [Requests -> Seq(Stored)]
Progress(r) ==
    /\ pc[r] = "embed" => attempt[r] < 3
    /\ pc[r] = "ask" => kind[r] = "askai" /\ attempt[r] <= 3
    /\ reply[r] # 0 <=> pc[r] = "done"

Sound(r) ==
    /\ Progress(r) /\ ReadSoundly(r) /\ Served(r) /\ ChunksFound(r) /\ Ordered(r)
    /\ Attempts(r) /\ Asked(r)
IInv == FileTypes /\ Arrays /\ \A r \in Requests : Sound(r)

-----------------------------------------------------------------------------
(* What the helpers of the model return.                                   *)
LEMMA MinOfTwo ==
    ASSUME NEW a \in Int, NEW b \in Int
    PROVE  Min({a, b}) = IF a <= b THEN a ELSE b
BY DEF Min

(* loadConfig takes its attempts as RetriesIn reads them off the file, and *)
(* has an endpoint that is no URL from the environment or from a file.     *)
LEMMA Loaded ==
    ASSUME NEW f \in Files \cup {NoFile}, NEW u
    PROVE  /\ RetriesIn(f) \in 1 .. 3
           /\ LoadConfig(f, u).retries = RetriesIn(f)
           /\ LoadConfig(f, u).endpoint = "garbled" => u = "garbled" \/ (u = "" /\ f # NoFile)
<1>1. CASE f = NoFile
  BY <1>1 DEF LoadConfig, RetriesIn
<1>2. CASE f # NoFile
  <2>1. f.retries \in Int
    BY <1>2, AnsweringAssumption
  <2>2. Min({3, f.retries}) = IF 3 <= f.retries THEN 3 ELSE f.retries
    BY <2>1, MinOfTwo
  <2>3. RetriesIn(f) = IF f.single THEN 3 ELSE IF f.retries \in 1 .. 3 THEN f.retries ELSE 3
    BY <1>2 DEF RetriesIn
  <2>4. LoadConfig(f, u).retries =
            IF f.single THEN 3 ELSE IF f.retries > 0 THEN Min({3, f.retries}) ELSE 3
    BY <1>2 DEF LoadConfig
  <2>5. LoadConfig(f, u).endpoint = IF u = "" /\ ~f.single THEN f.generator ELSE u
    BY <1>2 DEF LoadConfig
  <2>6. RetriesIn(f) \in 1 .. 3 /\ LoadConfig(f, u).retries = RetriesIn(f)
    BY <2>1, <2>2, <2>3, <2>4
  <2> QED
    BY <1>2, <2>5, <2>6
<1> QED
  BY <1>1, <1>2

LEMMA Tries ==
    ASSUME NEW r \in Requests
    PROVE  EmbedTries(r) \in 1 .. 3
BY DEF EmbedTries

(* A service has usable settings.                                          *)
LEMMA Configured ==
    ASSUME FileTypes, ragSvc # NoService
    PROVE  Cand \in Nat \ {0} /\ Alpha \in 0 .. 2 /\ Min({Limit, Cand}) \in Nat
           /\ Min({Limit, Cand}) = (IF Limit <= Cand THEN Limit ELSE Cand)
<1>1. PICK f \in Files : ragSvc = ToConfig(LoadServer(f))
  BY DEF FileTypes
<1>2. ragSvc.candidates = f.candidates /\ f.candidates \in Int
  BY <1>1, AnsweringAssumption DEF ToConfig, LoadServer
<1>3. Cand \in Nat \ {0} /\ Alpha \in 0 .. 2
  BY <1>2 DEF Cand, Alpha
<1>4. Limit \in Int
  BY AnsweringAssumption
<1> QED
  BY <1>3, <1>4, MinOfTwo, AnsweringAssumption

LEMMA ScoreTypes ==
    ASSUME NEW row \in Stored
    PROVE  /\ VScore[row] \in Int /\ TScore[row] \in Int /\ RerankScore[row] \in Int
           /\ row.key \in Keys
BY AnsweringAssumption DEF VScore, TScore, RerankScore, Stored

LEMMA RowFound ==
    ASSUME NEW rows \in SUBSET Stored, NEW k
    PROVE  /\ k \in KeysOf(rows) => RowAt(rows, k) \in rows /\ RowAt(rows, k).key = k
           /\ \A row \in rows : row.key \in KeysOf(rows)
           /\ OneEach(rows) => \A row \in rows : RowAt(rows, row.key) = row
<1>1. k \in KeysOf(rows) => RowAt(rows, k) \in rows /\ RowAt(rows, k).key = k
  BY DEF KeysOf, RowAt
<1>2. \A row \in rows : row.key \in KeysOf(rows)
  BY DEF KeysOf
<1>3. ASSUME OneEach(rows), NEW row \in rows PROVE RowAt(rows, row.key) = row
  <2>1. RowAt(rows, row.key) \in rows /\ RowAt(rows, row.key).key = row.key
    BY DEF RowAt
  <2> QED
    BY <1>3, <2>1 DEF OneEach
<1> QED
  BY <1>1, <1>2, <1>3

(* sort.Slice leaves every entry in its place, once, and none behind one   *)
(* of a lower score.                                                       *)
LEMMA SortedSeq ==
    ASSUME NEW S, IsFiniteSet(S), NEW score, NEW s \in Orders(S, score)
    PROVE  /\ Len(s) = Cardinality(S) /\ Len(s) \in Nat /\ DOMAIN s = 1 .. Len(s)
           /\ s \in Seq(S)
           /\ \A x \in S : \E i \in DOMAIN s : s[i] = x
           /\ \A i \in DOMAIN s : s[i] \in S
           /\ \A i, j \in DOMAIN s : s[i] = s[j] => i = j
           /\ \A i, j \in DOMAIN s : i < j => score[s[i]] >= score[s[j]]
<1> DEFINE n == Cardinality(S)
<1>1. n \in Nat
  BY FS_CardinalityType
<1>2. s \in [1 .. n -> S] /\ \A i, j \in 1 .. n : i # j => s[i] # s[j]
  BY DEF Orders, SetToSeqs
<1>3. \A i, j \in DOMAIN s : i < j => score[s[i]] >= score[s[j]]
  BY DEF Orders
<1>4. Len(s) = n /\ s \in Seq(S)
  BY <1>1, <1>2
<1>5. s \in Injection(1 .. n, S)
  BY <1>2 DEF Injection, IsInjective
<1>6. Cardinality(1 .. n) = n
  BY <1>1, FS_Interval
<1>7. s \in Surjection(1 .. n, S)
  BY <1>5, <1>6, FS_Injection
<1>8. \A x \in S : \E i \in 1 .. n : s[i] = x
  BY <1>7 DEF Surjection
<1> QED
  BY <1>1, <1>2, <1>3, <1>4, <1>8

(* Points are numbers, whatever alpha is.                                  *)
LEMMA PointTypes ==
    ASSUME FileTypes, Arrays, ragSvc # NoService, NEW r \in Requests
    PROVE  Points(r) \in [Keys -> Int]
<1> SUFFICES ASSUME NEW k \in Keys PROVE ScoreOf(r, k) \in Int
  BY DEF Points
<1> DEFINE v == IF k \in KeysOf(vrows[r]) THEN VScore[RowAt(vrows[r], k)] ELSE 0
           t == IF k \in KeysOf(trows[r]) THEN TScore[RowAt(trows[r], k)] ELSE 0
<1>1. vrows[r] \in SUBSET Stored /\ trows[r] \in SUBSET Stored
  BY DEF Arrays
<1>2. k \in KeysOf(vrows[r]) => RowAt(vrows[r], k) \in Stored
  BY <1>1, RowFound
<1>3. k \in KeysOf(trows[r]) => RowAt(trows[r], k) \in Stored
  BY <1>1, RowFound
<1>4. v \in Int /\ t \in Int
  BY <1>2, <1>3, ScoreTypes
<1>5. ScoreOf(r, k) = Alpha * v + (2 - Alpha) * t
  BY DEF ScoreOf
<1>6. Alpha \in 0 .. 2
  BY Configured
<1> HIDE DEF v, t
<1> QED
  BY <1>4, <1>5, <1>6

(* docsMap has an entry for every key that was read, with both its scores. *)
LEMMA MergedEntries ==
    ASSUME FileTypes, Arrays, NEW r \in Requests, OneEach(vrows[r]), OneEach(trows[r])
    PROVE  /\ \A e \in Merged(r) :
                 /\ e.row \in FoundRows(r) /\ e.row \in Stored
                 /\ Hybrid(Merged(r))[e] = Points(r)[e.row.key]
           /\ \A d, e \in Merged(r) : d.row.key = e.row.key => d = e
           /\ \A k \in FoundKeys(r) : \E e \in Merged(r) : e.row.key = k
           /\ IsFiniteSet(Merged(r))
<1> DEFINE V == vrows[r]
           T == trows[r]
           both(row) == IF row.key \in KeysOf(T) THEN TScore[RowAt(T, row.key)] ELSE 0
           fromV(row) == [row |-> row, v |-> VScore[row], t |-> both(row)]
           fromT(row) == [row |-> row, v |-> 0, t |-> TScore[row]]
           alone == {x \in T : x.key \notin KeysOf(V)}
<1>1. V \in SUBSET Stored /\ T \in SUBSET Stored
  BY DEF Arrays
<1>2. Merged(r) = {fromV(row) : row \in V} \cup {fromT(row) : row \in alone}
  BY DEF Merged
<1>3. \A row \in V : row.key \in KeysOf(V) /\ RowAt(V, row.key) = row
  BY <1>1, RowFound
<1>4. \A row \in T : row.key \in KeysOf(T) /\ RowAt(T, row.key) = row
  BY <1>1, RowFound
<1>5. \A e \in Merged(r) : \/ e.row \in V /\ e = fromV(e.row)
                           \/ e.row \in alone /\ e = fromT(e.row)
  BY <1>2
<1>6. \A e \in Merged(r) : e.row \in FoundRows(r) /\ e.row \in Stored /\ e.row.key \in Keys
  BY <1>1, <1>5, ScoreTypes DEF FoundRows
<1>7. ASSUME NEW e \in Merged(r) PROVE Hybrid(Merged(r))[e] = Points(r)[e.row.key]
  <2>1. Hybrid(Merged(r))[e] = Alpha * e.v + (2 - Alpha) * e.t
    BY DEF Hybrid
  <2>2. Points(r)[e.row.key] = ScoreOf(r, e.row.key)
    BY <1>6 DEF Points
  <2>3. CASE e.row \in V /\ e = fromV(e.row)
    <3>1. e.v = VScore[e.row] /\ e.t = both(e.row)
      BY <2>3
    <3>2. ScoreOf(r, e.row.key) = Alpha * VScore[e.row] + (2 - Alpha) * both(e.row)
      BY <1>3, <2>3 DEF ScoreOf
    <3> QED
      BY <2>1, <2>2, <3>1, <3>2
  <2>4. CASE e.row \in alone /\ e = fromT(e.row)
    <3>1. e.v = 0 /\ e.t = TScore[e.row]
      BY <2>4
    <3>2. ScoreOf(r, e.row.key) = Alpha * 0 + (2 - Alpha) * TScore[e.row]
      BY <1>4, <2>4 DEF ScoreOf
    <3> QED
      BY <2>1, <2>2, <3>1, <3>2
  <2> QED
    BY <1>5, <2>3, <2>4
<1>8. ASSUME NEW d \in Merged(r), NEW e \in Merged(r), d.row.key = e.row.key
      PROVE  d = e
  <2>1. CASE d.row \in V /\ e.row \in V
    BY <1>3, <1>5, <1>8, <2>1 DEF OneEach
  <2>2. CASE d.row \in alone /\ e.row \in alone
    BY <1>3, <1>5, <1>8, <2>2 DEF OneEach
  <2>3. ~(d.row \in V /\ e.row \in alone) /\ ~(d.row \in alone /\ e.row \in V)
    BY <1>3, <1>8
  <2> QED
    BY <1>5, <2>1, <2>2, <2>3
<1>9. ASSUME NEW k \in FoundKeys(r) PROVE \E e \in Merged(r) : e.row.key = k
  <2>1. CASE \E row \in V : row.key = k
    <3>1. PICK row \in V : row.key = k
      BY <2>1
    <3>2. fromV(row) \in Merged(r)
      BY <1>2
    <3> QED
      BY <3>1, <3>2
  <2>2. CASE \E row \in alone : row.key = k
    <3>1. PICK row \in alone : row.key = k
      BY <2>2
    <3>2. fromT(row) \in Merged(r)
      BY <1>2
    <3> QED
      BY <3>1, <3>2
  <2>3. (\E row \in V : row.key = k) \/ (\E row \in alone : row.key = k)
    BY DEF FoundKeys, KeysOf
  <2> QED
    BY <2>1, <2>2, <2>3
<1>10. IsFiniteSet(Merged(r))
  <2> DEFINE f == [e \in Merged(r) |-> e.row.key]
  <2>1. f \in Injection(Merged(r), Keys)
    BY <1>6, <1>8 DEF Injection, IsInjective
  <2> QED
    BY <2>1, FS_Injection, AnsweringAssumption
<1> QED
  BY <1>6, <1>7, <1>8, <1>9, <1>10

(* Cutting a sequence off keeps what is said of it.                        *)
First(c, l) == SubSeq(c, 1, Min({l, Len(c)}))

LEMMA CutOff ==
    ASSUME NEW c \in Seq(Stored), NEW l \in Nat
    PROVE  /\ First(c, l) \in Seq(Stored)
           /\ Len(First(c, l)) = (IF l <= Len(c) THEN l ELSE Len(c))
           /\ Len(c) \in Nat /\ DOMAIN c = 1 .. Len(c) /\ Len(First(c, l)) \in Nat
           /\ DOMAIN First(c, l) = 1 .. Len(First(c, l)) /\ DOMAIN First(c, l) \subseteq DOMAIN c
           /\ \A i \in DOMAIN First(c, l) : First(c, l)[i] = c[i]
<1> DEFINE m == Min({l, Len(c)})
<1>1. Len(c) \in Nat /\ DOMAIN c = 1 .. Len(c)
  OBVIOUS
<1>2. m = (IF l <= Len(c) THEN l ELSE Len(c))
  BY <1>1, MinOfTwo
<1>3. m \in Nat /\ m <= Len(c)
  BY <1>1, <1>2
<1>4. First(c, l) = SubSeq(c, 1, m)
  BY DEF First
<1> HIDE DEF m
<1>5. 1 \in 1 .. Len(c) + 1 /\ m \in 1 - 1 .. Len(c)
  BY <1>1, <1>3
<1>6. /\ SubSeq(c, 1, m) \in Seq(Stored)
      /\ Len(SubSeq(c, 1, m)) = IF 1 <= m THEN m - 1 + 1 ELSE 0
      /\ \A i \in 1 .. m - 1 + 1 : SubSeq(c, 1, m)[i] = c[1 + i - 1]
  BY <1>5, SubSeqProperties
<1>7. First(c, l) \in Seq(Stored)
  BY <1>4, <1>6
<1>8. DOMAIN First(c, l) = 1 .. Len(First(c, l))
  BY <1>7
<1>9. Len(First(c, l)) = m
  BY <1>3, <1>4, <1>6
<1>10. \A i \in 1 .. m : First(c, l)[i] = c[i]
  <2> SUFFICES ASSUME NEW i \in 1 .. m PROVE First(c, l)[i] = c[i]
    OBVIOUS
  <2>1. i \in 1 .. m - 1 + 1 /\ 1 + i - 1 = i
    BY <1>3
  <2> QED
    BY <1>4, <1>6, <2>1
<1>11. 1 .. m \subseteq 1 .. Len(c)
  BY <1>1, <1>3
<1> QED
  BY <1>1, <1>2, <1>3, <1>7, <1>8, <1>9, <1>10, <1>11

LEMMA CutOffCount ==
    ASSUME NEW c \in Seq(Stored), NEW l \in Nat, NEW n \in Nat, NEW keys,
           Distinct(c), AsManyAs(c, keys, n)
    PROVE  AsManyAs(First(c, l), keys, Min({l, n}))
<1> DEFINE d == First(c, l)
<1>1. /\ Len(d) = (IF l <= Len(c) THEN l ELSE Len(c)) /\ Len(c) \in Nat
      /\ DOMAIN d = 1 .. Len(d) /\ DOMAIN d \subseteq DOMAIN c
      /\ \A i \in DOMAIN d : d[i] = c[i]
  BY CutOff
<1>2. Min({l, n}) = IF l <= n THEN l ELSE n
  BY MinOfTwo
<1>3. Len(c) <= n /\ (LeftOut(c, keys) # {} => Len(c) = n)
  BY DEF AsManyAs
<1>4. Len(d) = Len(c) => LeftOut(d, keys) = LeftOut(c, keys)
  <2> SUFFICES ASSUME Len(d) = Len(c) PROVE ToSet(d) = ToSet(c)
    BY DEF LeftOut
  <2>1. DOMAIN c = 1 .. Len(c)
    OBVIOUS
  <2> QED
    BY <1>1, <2>1 DEF ToSet
<1>5. Len(d) <= Min({l, n})
  BY <1>1, <1>2, <1>3
<1>6. ASSUME LeftOut(d, keys) # {} PROVE Len(d) = Min({l, n})
  BY <1>1, <1>2, <1>3, <1>4, <1>6
<1> QED
  BY <1>5, <1>6 DEF AsManyAs

LEMMA CutOffOrder ==
    ASSUME NEW c \in Seq(Stored), NEW l \in Nat, NEW keys \in SUBSET Keys, NEW p \in [Keys -> Int],
           InOrder(c, p), TheBest(c, keys, p)
    PROVE  InOrder(First(c, l), p) /\ TheBest(First(c, l), keys, p)
<1> DEFINE d == First(c, l)
<1>1. /\ Len(d) \in Nat /\ Len(c) \in Nat
      /\ DOMAIN d = 1 .. Len(d) /\ DOMAIN d \subseteq DOMAIN c /\ DOMAIN c = 1 .. Len(c)
      /\ \A i \in DOMAIN d : d[i] = c[i]
  BY CutOff
<1>2. InOrder(d, p)
  BY <1>1 DEF InOrder
<1>3. ASSUME NEW k \in LeftOut(d, keys), NEW i \in DOMAIN d PROVE p[k] <= p[d[i].key]
  <2>1. CASE k \in LeftOut(c, keys)
    BY <1>1, <2>1 DEF TheBest
  <2>2. CASE k \notin LeftOut(c, keys)
    <3>1. PICK j \in DOMAIN c : c[j].key = k
      BY <2>2 DEF LeftOut, KeysOf, ToSet
    <3>2. j \notin DOMAIN d
      <4>1. ASSUME j \in DOMAIN d PROVE k \in KeysOf(ToSet(d))
        BY <1>1, <3>1, <4>1 DEF KeysOf, ToSet
      <4> QED
        BY <4>1 DEF LeftOut
    <3>3. i < j
      BY <1>1, <3>2
    <3>4. p[c[i].key] >= p[c[j].key]
      BY <1>1, <3>3 DEF InOrder
    <3>5. p[k] \in Int /\ p[d[i].key] \in Int
      <4>1. d[i] \in Stored
        BY <1>1
      <4> QED
        BY <4>1, ScoreTypes DEF LeftOut
    <3> QED
      BY <1>1, <3>1, <3>4, <3>5
  <2> QED
    BY <2>1, <2>2
<1> QED
  BY <1>2, <1>3 DEF TheBest

(* The reranker puts the candidates in another order, each once.           *)
LEMMA Reordered ==
    ASSUME NEW c \in Seq(Stored), Distinct(c), NEW s \in Orders(ToSet(c), RerankScore)
    PROVE  /\ s \in Seq(Stored) /\ Len(s) = Len(c) /\ ToSet(s) = ToSet(c)
           /\ Distinct(s) /\ ByReranker(s)
<1>1. DOMAIN c = 1 .. Len(c) /\ Len(c) \in Nat /\ \A i \in DOMAIN c : c[i] \in Stored
  OBVIOUS
<1>2. c \in Bijection(1 .. Len(c), ToSet(c))
  <2>1. c \in [1 .. Len(c) -> ToSet(c)] /\ \A x \in ToSet(c) : \E i \in 1 .. Len(c) : c[i] = x
    BY <1>1 DEF ToSet
  <2>2. \A i, j \in 1 .. Len(c) : c[i] = c[j] => i = j
    BY <1>1 DEF Distinct
  <2> QED
    BY <2>1, <2>2 DEF Bijection, Injection, Surjection, IsInjective
<1>3. ExistsBijection(1 .. Len(c), ToSet(c))
  BY <1>2 DEF ExistsBijection
<1>4. IsFiniteSet(ToSet(c)) /\ Cardinality(ToSet(c)) = Len(c)
  BY <1>1, <1>3, FS_CountingElements, FS_NatBijection
<1>5. /\ Len(s) = Len(c) /\ DOMAIN s = 1 .. Len(s) /\ s \in Seq(ToSet(c))
      /\ \A x \in ToSet(c) : \E i \in DOMAIN s : s[i] = x
      /\ \A i \in DOMAIN s : s[i] \in ToSet(c)
      /\ \A i, j \in DOMAIN s : s[i] = s[j] => i = j
      /\ \A i, j \in DOMAIN s : i < j => RerankScore[s[i]] >= RerankScore[s[j]]
  BY <1>4, SortedSeq
<1>6. ToSet(s) = ToSet(c)
  <2>1. ToSet(s) = {s[i] : i \in DOMAIN s}
    BY DEF ToSet
  <2> QED
    BY <1>5, <2>1
<1>7. ToSet(c) \subseteq Stored
  BY <1>1 DEF ToSet
<1>8. s \in Seq(Stored)
  BY <1>1, <1>5, <1>7
<1>9. Distinct(s)
  <2>1. \A x, y \in ToSet(c) : x.key = y.key => x = y
    BY DEF Distinct, ToSet
  <2> QED
    BY <1>5, <2>1 DEF Distinct
<1>10. ByReranker(s)
  BY <1>5 DEF ByReranker
<1> QED
  BY <1>5, <1>6, <1>8, <1>9, <1>10

-----------------------------------------------------------------------------
(* A question that a step leaves alone stays sound, while the table and    *)
(* the configuration change and a service is constructed.                  *)
Kept(s) ==
    /\ pc'[s] = pc[s] /\ kind'[s] = kind[s] /\ reply'[s] = reply[s]
    /\ attempt'[s] = attempt[s] /\ status'[s] = status[s] /\ asking'[s] = asking[s]
    /\ vrows'[s] = vrows[s] /\ trows'[s] = trows[s]
    /\ chunks'[s] = chunks[s] /\ reranked'[s] = reranked[s]
Only(r) == \A s \in Requests \ {r} : Kept(s)

LEMMA Framed ==
    ASSUME NEW s \in Requests, Sound(s), Kept(s), url' = url,
           ragSvc' = ragSvc \/ ragSvc = NoService, seen[s] \subseteq seen'[s],
           pc[s] \notin {"new", "done"} => RowsOf(table') \subseteq seen'[s]
    PROVE  Sound(s)'
<1>1. Progress(s)' /\ Attempts(s)' /\ Asked(s)'
  <2>1. Progress(s)'
    BY DEF Sound, Kept, Progress
  <2>2. Attempts(s)'
    BY DEF Sound, Kept, Attempts
  <2>3. Asked(s)'
    BY DEF Sound, Kept, Asked, Decided
  <2> QED
    BY <2>1, <2>2, <2>3
<1>2. ReadSoundly(s)'
  BY DEF Sound, Kept, ReadSoundly, FoundRows
<1>3. ChunksFound(s)'
  BY DEF Sound, Kept, ChunksFound, FoundRows
<1>4. CASE ragSvc' = ragSvc
  <2>1. Served(s)'
    BY <1>4 DEF Sound, Kept, Served
  <2>2. Points(s)' = Points(s) /\ FoundKeys(s)' = FoundKeys(s) /\ Cand' = Cand
    BY <1>4 DEF Kept, Points, ScoreOf, Alpha, FoundKeys, Cand
  <2>3. Ordered(s)'
    BY <2>2 DEF Sound, Kept, Ordered, Candidates, Handed
  <2> QED
    BY <1>1, <1>2, <1>3, <2>1, <2>3 DEF Sound
<1>5. CASE ragSvc = NoService
  <2>1. pc[s] \notin Searching /\ chunks[s] = <<>>
    BY <1>5 DEF Sound, Served
  <2>2. Served(s)'
    BY <2>1 DEF Kept, Served
  <2>3. Ordered(s)'
    BY <2>1 DEF Sound, Kept, Ordered, Searching
  <2> QED
    BY <1>1, <1>2, <1>3, <2>2, <2>3 DEF Sound
<1> QED
  BY <1>4, <1>5

LEMMA Elsewhere ==
    ASSUME IInv, NEW r \in Requests, Only(r), url' = url, table' = table,
           ragSvc' = ragSvc \/ ragSvc = NoService, \A s \in Requests \ {r} : seen'[s] = seen[s]
    PROVE  \A s \in Requests \ {r} : Sound(s)'
<1> SUFFICES ASSUME NEW s \in Requests \ {r} PROVE Sound(s)'
  OBVIOUS
<1>1. Sound(s) /\ Kept(s) /\ seen'[s] = seen[s]
  BY DEF IInv, Only
<1>2. pc[s] \notin {"new", "done"} => RowsOf(table) \subseteq seen[s]
  BY <1>1 DEF Sound, ReadSoundly
<1>3. pc[s] \notin {"new", "done"} => RowsOf(table') \subseteq seen'[s]
  BY <1>1, <1>2
<1> QED
  BY <1>1, <1>3, Framed

(* The end of Query: the answer, or the question to the chat model.        *)
LEMMA Going ==
    ASSUME FileTypes, Arrays, NEW r \in Requests, NEW code \in Codes \ {0}, GoOn(r, code)
    PROVE  /\ pc' \in [Requests -> Phases] /\ reply' \in [Requests -> Codes]
           /\ attempt' \in [Requests -> Nat] /\ asking' \in [Requests -> Files \cup {NoFile}]
           /\ \A s \in Requests \ {r} :
                 /\ pc'[s] = pc[s] /\ reply'[s] = reply[s]
                 /\ attempt'[s] = attempt[s] /\ asking'[s] = asking[s]
           /\ \/ /\ kind[r] = "askai" /\ pc'[r] = "ask" /\ reply'[r] = reply[r]
                 /\ attempt'[r] = 0 /\ asking'[r] = file
              \/ kind[r] = "query" /\ pc'[r] = "done" /\ reply'[r] = code
<1>1. CASE kind[r] = "askai"
  <2>1. /\ pc' = [pc EXCEPT ![r] = "ask"] /\ reply' = reply
        /\ attempt' = [attempt EXCEPT ![r] = 0] /\ asking' = [asking EXCEPT ![r] = file]
    BY <1>1 DEF GoOn, Goto
  <2>2. "ask" \in Phases
    BY DEF Phases
  <2> QED
    BY <1>1, <2>1, <2>2 DEF FileTypes, Arrays
<1>2. CASE kind[r] # "askai"
  <2>1. kind[r] = "query"
    BY <1>2 DEF Arrays
  <2>2. /\ pc' = [pc EXCEPT ![r] = "done"] /\ reply' = [reply EXCEPT ![r] = code]
        /\ attempt' = attempt /\ asking' = asking
    BY <1>2 DEF GoOn, Goto, Answer
  <2>3. "done" \in Phases
    BY DEF Phases
  <2> QED
    BY <2>1, <2>2, <2>3 DEF FileTypes, Arrays
<1> QED
  BY <1>1, <1>2

LEMMA Gone ==
    ASSUME IInv, NEW r \in Requests, NEW code \in Codes \ {0}, GoOn(r, code),
           pc[r] \in Searching \cup {"new"}, kind' = kind,
           vrows'[r] = vrows[r], trows'[r] = trows[r],
           FoundRows(r) \subseteq seen'[r], RowsOf(table') \subseteq seen'[r],
           Among(chunks'[r], FoundRows(r)), Distinct(chunks'[r]),
           chunks'[r] # <<>> => ragSvc' # NoService /\ Handed(r)'
    PROVE  Sound(r)'
<1>1. \/ /\ kind[r] = "askai" /\ pc'[r] = "ask" /\ reply'[r] = reply[r]
         /\ attempt'[r] = 0 /\ asking'[r] = file
      \/ kind[r] = "query" /\ pc'[r] = "done" /\ reply'[r] = code
  BY Going DEF IInv
<1>2. Sound(r) /\ reply[r] = 0
  BY DEF IInv, Sound, Progress, Searching
<1>3. Progress(r)'
  BY <1>1, <1>2 DEF Progress
<1>4. ReadSoundly(r)'
  BY <1>1, <1>2 DEF Sound, ReadSoundly, FoundRows
<1>5. Served(r)' /\ Ordered(r)'
  BY <1>1 DEF Served, Ordered, Searching
<1>6. ChunksFound(r)'
  BY <1>1 DEF ChunksFound, FoundRows
<1>7. Attempts(r)' /\ Asked(r)'
  <2>1. RetriesIn(file) \in 1 .. 3
    BY Loaded DEF IInv, FileTypes
  <2>2. Attempts(r)'
    BY <1>1, <2>1 DEF Attempts
  <2>3. Asked(r)'
    BY <1>1 DEF Asked, Decided
  <2> QED
    BY <2>2, <2>3
<1> QED
  BY <1>3, <1>4, <1>5, <1>6, <1>7 DEF Sound

-----------------------------------------------------------------------------
LEMMA Stepped ==
    ASSUME IInv, NEW r \in Requests, UNCHANGED env, Only(r), Arrays',
           asking' \in [Requests -> Files \cup {NoFile}], Sound(r)'
    PROVE  IInv'
<1>1. /\ file' = file /\ url' = url /\ ragSvc' = ragSvc /\ table' = table
      /\ events' = events /\ seen' = seen
  BY DEF env
<1>2. FileTypes'
  BY <1>1 DEF IInv, FileTypes
<1>3. \A s \in Requests \ {r} : Sound(s)'
  BY <1>1, Elsewhere
<1> QED
  BY <1>2, <1>3 DEF IInv

(* The search ends early, without chunks.                                  *)
LEMMA Left ==
    ASSUME IInv, NEW r \in Requests, NEW code \in Codes \ {0}, Leave(r, code),
           pc[r] \in Searching, UNCHANGED <<env, kind, found, reranked>>,
           DOMAIN status' = Requests, \A s \in Requests \ {r} : status'[s] = status[s]
    PROVE  IInv'
<1>1. GoOn(r, code) /\ chunks' = [chunks EXCEPT ![r] = <<>>]
  BY DEF Leave
<1>2. /\ pc' \in [Requests -> Phases] /\ reply' \in [Requests -> Codes]
      /\ attempt' \in [Requests -> Nat] /\ asking' \in [Requests -> Files \cup {NoFile}]
      /\ \A s \in Requests \ {r} :
            /\ pc'[s] = pc[s] /\ reply'[s] = reply[s]
            /\ attempt'[s] = attempt[s] /\ asking'[s] = asking[s]
  BY <1>1, Going DEF IInv
<1>3. Arrays /\ vrows' = vrows /\ trows' = trows /\ kind' = kind /\ reranked' = reranked
  BY DEF IInv, found
<1>4. chunks' \in [Requests -> Seq(Stored)] /\ chunks'[r] = <<>>
      /\ \A s \in Requests \ {r} : chunks'[s] = chunks[s]
  BY <1>1, <1>3 DEF Arrays
<1>5. Arrays'
  BY <1>2, <1>3, <1>4 DEF Arrays
<1>6. Only(r)
  BY <1>2, <1>3, <1>4 DEF Only, Kept
<1>7. Sound(r)'
  <2>1. seen' = seen /\ table' = table
    BY DEF env
  <2>2. FoundRows(r) \subseteq seen[r] /\ RowsOf(table) \subseteq seen[r]
    BY DEF IInv, Sound, ReadSoundly, Searching
  <2>3. Among(chunks'[r], FoundRows(r)) /\ Distinct(chunks'[r])
    BY <1>4 DEF Among, Distinct
  <2> QED
    BY <1>1, <1>3, <1>4, <2>1, <2>2, <2>3, Gone
<1>8. UNCHANGED env
  OBVIOUS
<1> QED
  BY <1>2, <1>5, <1>6, <1>7, <1>8, Stepped

LEMMA EmbedFailsStep ==
    ASSUME IInv, NEW r \in Requests, EmbedFails(r)
    PROVE  IInv'
<1>1. PICK s \in {"unreachable", "overloaded", "rejected", "garbled"} :
        /\ status' = [status EXCEPT ![r] = s]
        /\ IF Retryable(s) /\ attempt[r] + 1 < EmbedTries(r)
           THEN Again(r) /\ UNCHANGED <<pc, asking, chunks, reply>>
           ELSE Leave(r, CASE s = "overloaded" -> 503 [] s = "rejected" -> 400
                           [] OTHER -> 500)
  BY DEF EmbedFails
<1>2. pc[r] = "embed" /\ UNCHANGED <<env, kind, found, reranked>>
  BY DEF EmbedFails
<1>3. Arrays /\ FileTypes /\ Sound(r)
  BY DEF IInv
<1>4. DOMAIN status' = Requests /\ \A q \in Requests \ {r} : status'[q] = status[q]
  BY <1>1, <1>3 DEF Arrays
<1>5. CASE Retryable(s) /\ attempt[r] + 1 < EmbedTries(r)
  <2>1. /\ attempt' = [attempt EXCEPT ![r] = attempt[r] + 1]
        /\ UNCHANGED <<pc, asking, chunks, reply>>
    BY <1>1, <1>5 DEF Again
  <2>2. attempt[r] + 1 < 3 /\ attempt[r] + 1 \in Nat
    <3>1. attempt[r] \in Nat /\ EmbedTries(r) \in 1 .. 3
      BY <1>3, Tries DEF Arrays
    <3> QED
      BY <1>5, <3>1
  <2>3. attempt' \in [Requests -> Nat] /\ attempt'[r] < 3
        /\ \A q \in Requests \ {r} : attempt'[q] = attempt[q]
    BY <1>3, <2>1, <2>2 DEF Arrays
  <2>4. vrows' = vrows /\ trows' = trows /\ kind' = kind /\ reranked' = reranked
    BY <1>2 DEF found
  <2>5. Arrays'
    BY <1>3, <1>4, <2>1, <2>3, <2>4 DEF Arrays
  <2>6. Only(r)
    BY <1>4, <2>1, <2>3, <2>4 DEF Only, Kept
  <2>7. ragSvc' = ragSvc /\ seen' = seen /\ table' = table
    BY <1>2 DEF env
  <2>8. Sound(r)'
    <3>1. Progress(r)' /\ Attempts(r)'
      BY <1>2, <1>3, <2>1, <2>3 DEF Sound, Progress, Attempts
    <3>2. ReadSoundly(r)' /\ Served(r)' /\ ChunksFound(r)'
      BY <1>3, <2>1, <2>4, <2>7 DEF Sound, ReadSoundly, Served, ChunksFound, FoundRows
    <3>3. Ordered(r)' /\ Asked(r)'
      BY <1>2, <1>3, <2>1, <2>4 DEF Sound, Ordered, Asked, Decided
    <3> QED
      BY <3>1, <3>2, <3>3 DEF Sound
  <2>9. asking' \in [Requests -> Files \cup {NoFile}]
    BY <1>3, <2>1 DEF FileTypes
  <2> QED
    BY <1>2, <2>5, <2>6, <2>8, <2>9, Stepped
<1>6. CASE ~(Retryable(s) /\ attempt[r] + 1 < EmbedTries(r))
  <2>1. \E code \in {400, 500, 503} : Leave(r, code)
    BY <1>1, <1>6
  <2>2. PICK code \in Codes \ {0} : Leave(r, code)
    BY <2>1 DEF Codes
  <2>3. pc[r] \in Searching
    BY <1>2 DEF Searching
  <2> QED
    BY <1>2, <1>4, <2>2, <2>3, Left
<1> QED
  BY <1>5, <1>6

(* The other ways out of the search with nothing.                          *)
LEMMA NothingFoundStep ==
    ASSUME IInv, NEW r \in Requests,
           EmbedCancelled(r) \/ NothingToSearch(r) \/ ReadFails(r)
    PROVE  IInv'
<1>1. \E code \in {200, 500} : Leave(r, code)
  BY DEF EmbedCancelled, NothingToSearch, ReadFails
<1>2. PICK code \in Codes \ {0} : Leave(r, code)
  BY <1>1 DEF Codes
<1>3. pc[r] \in Searching
  BY DEF EmbedCancelled, NothingToSearch, ReadFails, Searching
<1>4. UNCHANGED <<env, kind, found, reranked>> /\ status' = status
  BY DEF EmbedCancelled, NothingToSearch, ReadFails
<1>5. DOMAIN status = Requests
  BY DEF IInv, Arrays
<1> QED
  BY <1>2, <1>3, <1>4, <1>5, Left

-----------------------------------------------------------------------------
(* The two statements: each reads a set of rows that are stored now, and a *)
(* key has one row at a time.                                              *)
LEMMA ReadRows ==
    ASSUME FileTypes, NEW T \in SUBSET RowsOf(table)
    PROVE  T \subseteq Stored /\ OneEach(T)
BY DEF RowsOf, OneEach, Stored

LEMMA SearchStep ==
    ASSUME IInv, NEW r \in Requests, Embedded(r) \/ ReadByVector(r) \/ ReadByText(r)
    PROVE  IInv'
<1>1. UNCHANGED <<env, kind, calls, result, reply>> /\ pc[r] \in {"embed", "vector", "text"}
      /\ \E p \in {"vector", "text", "merge"} : pc' = [pc EXCEPT ![r] = p]
  BY DEF Embedded, ReadByVector, ReadByText, Goto
<1>2. PICK p \in {"vector", "text", "merge"} : pc' = [pc EXCEPT ![r] = p]
  BY <1>1
<1>3. /\ kind' = kind /\ reply' = reply /\ attempt' = attempt /\ status' = status
      /\ asking' = asking /\ chunks' = chunks /\ reranked' = reranked
      /\ ragSvc' = ragSvc /\ seen' = seen /\ table' = table
  BY <1>1 DEF env, calls, result
<1>4. Arrays /\ FileTypes /\ Sound(r)
  BY DEF IInv
<1>5. \E V \in {vrows[r]} \cup SUBSET RowsOf(table), T \in {trows[r]} \cup SUBSET RowsOf(table) :
        vrows' = [vrows EXCEPT ![r] = V] /\ trows' = [trows EXCEPT ![r] = T]
  <2>1. vrows = [vrows EXCEPT ![r] = vrows[r]] /\ trows = [trows EXCEPT ![r] = trows[r]]
    BY <1>4 DEF Arrays
  <2>2. CASE Embedded(r)
    BY <2>1, <2>2 DEF Embedded, found
  <2>3. CASE ReadByVector(r)
    <3>1. PICK V \in SUBSET RowsOf(table) : vrows' = [vrows EXCEPT ![r] = V]
      BY <2>3 DEF ReadByVector, Best
    <3>2. trows' = trows
      BY <2>3 DEF ReadByVector
    <3> QED
      BY <2>1, <3>1, <3>2
  <2>4. CASE ReadByText(r)
    <3>1. PICK T \in SUBSET Matching : trows' = [trows EXCEPT ![r] = T]
      BY <2>4 DEF ReadByText, Best
    <3>2. vrows' = vrows /\ T \in SUBSET RowsOf(table)
      BY <2>4 DEF ReadByText, Matching
    <3> QED
      BY <2>1, <3>1, <3>2
  <2> QED
    BY <2>2, <2>3, <2>4
<1>6. PICK V \in {vrows[r]} \cup SUBSET RowsOf(table), T \in {trows[r]} \cup SUBSET RowsOf(table) :
        vrows' = [vrows EXCEPT ![r] = V] /\ trows' = [trows EXCEPT ![r] = T]
  BY <1>5
<1>7. /\ OneEach(vrows[r]) /\ OneEach(trows[r]) /\ vrows[r] \subseteq seen[r]
      /\ trows[r] \subseteq seen[r] /\ RowsOf(table) \subseteq seen[r]
  BY <1>1, <1>4 DEF Sound, ReadSoundly, FoundRows
<1>8. /\ V \subseteq Stored /\ OneEach(V) /\ V \subseteq seen[r]
      /\ T \subseteq Stored /\ OneEach(T) /\ T \subseteq seen[r]
  BY <1>4, <1>7, ReadRows DEF Arrays
<1>9. /\ vrows' \in [Requests -> SUBSET Stored] /\ trows' \in [Requests -> SUBSET Stored]
      /\ vrows'[r] = V /\ trows'[r] = T
      /\ \A q \in Requests \ {r} : vrows'[q] = vrows[q] /\ trows'[q] = trows[q]
  BY <1>4, <1>6, <1>8 DEF Arrays
<1>10. /\ pc' \in [Requests -> Phases] /\ pc'[r] = p
       /\ \A q \in Requests \ {r} : pc'[q] = pc[q]
  BY <1>2, <1>4 DEF Arrays, Phases
<1>11. Arrays'
  BY <1>3, <1>4, <1>9, <1>10 DEF Arrays
<1>12. Only(r)
  BY <1>3, <1>9, <1>10 DEF Only, Kept
<1>13. Sound(r)'
  <2>1. Progress(r)' /\ Attempts(r)' /\ Asked(r)'
    BY <1>1, <1>3, <1>4, <1>10 DEF Sound, Progress, Attempts, Asked, Decided
  <2>2. ReadSoundly(r)'
    BY <1>3, <1>7, <1>8, <1>9, <1>10 DEF ReadSoundly, FoundRows
  <2>3. chunks[r] = <<>> /\ ragSvc # NoService /\ ~reranked[r]
    BY <1>1, <1>4 DEF Sound, ChunksFound, Served, Searching, Ordered
  <2>4. Served(r)' /\ Ordered(r)'
    BY <1>3, <1>10, <2>3 DEF Served, Ordered
  <2>5. ChunksFound(r)'
    BY <1>3, <1>10, <2>3 DEF ChunksFound, Among, Distinct
  <2> QED
    BY <2>1, <2>2, <2>4, <2>5 DEF Sound
<1>14. asking' \in [Requests -> Files \cup {NoFile}]
  BY <1>3, <1>4 DEF FileTypes
<1> QED
  BY <1>1, <1>11, <1>12, <1>13, <1>14, Stepped

(* The best candidates in order: what the merge makes of the rows read.    *)
TopRows(s) == [i \in 1 .. Min({Cand, Len(s)}) |-> s[i].row]

LEMMA BestCandidates ==
    ASSUME FileTypes, Arrays, ragSvc # NoService,
           NEW r \in Requests, OneEach(vrows[r]), OneEach(trows[r]),
           NEW s \in Orders(Merged(r), Hybrid(Merged(r)))
    PROVE  /\ TopRows(s) \in Seq(Stored) /\ Among(TopRows(s), FoundRows(r))
           /\ Distinct(TopRows(s)) /\ InOrder(TopRows(s), Points(r))
           /\ TheBest(TopRows(s), FoundKeys(r), Points(r))
           /\ AsManyAs(TopRows(s), FoundKeys(r), Cand)
<1> DEFINE c == TopRows(s)
           M == Merged(r)
           p == Points(r)
           n == Min({Cand, Len(s)})
<1>1. /\ \A e \in M : e.row \in FoundRows(r) /\ e.row \in Stored
                      /\ Hybrid(M)[e] = p[e.row.key]
      /\ \A d, e \in M : d.row.key = e.row.key => d = e
      /\ \A k \in FoundKeys(r) : \E e \in M : e.row.key = k
      /\ IsFiniteSet(M)
  BY MergedEntries
<1>2. /\ Len(s) \in Nat /\ DOMAIN s = 1 .. Len(s)
      /\ \A e \in M : \E i \in DOMAIN s : s[i] = e
      /\ \A i \in DOMAIN s : s[i] \in M
      /\ \A i, j \in DOMAIN s : s[i] = s[j] => i = j
      /\ \A i, j \in DOMAIN s : i < j => Hybrid(M)[s[i]] >= Hybrid(M)[s[j]]
  BY <1>1, SortedSeq
<1>3. PICK l \in Nat : l = Len(s) /\ DOMAIN s = 1 .. l
  BY <1>2
<1>4. DOMAIN s = 1 .. l
  BY <1>3
<1>5. Cand \in Nat \ {0} /\ p \in [Keys -> Int]
  BY Configured, PointTypes
<1>6. n = (IF Cand <= l THEN Cand ELSE l)
  <2>1. n = Min({Cand, l})
    BY <1>3
  <2> QED
    BY <1>5, <2>1, MinOfTwo
<1>7. c = [i \in 1 .. n |-> s[i].row]
  BY DEF TopRows
<1> HIDE DEF M, p, n, c
<1>8. n \in Nat /\ n <= l /\ n <= Cand /\ (n = Cand \/ n = l)
  BY <1>5, <1>6
<1>9. \A i \in 1 .. n : i \in DOMAIN s /\ s[i] \in M
  <2>1. 1 .. n \subseteq DOMAIN s
    BY <1>4, <1>8
  <2> QED
    BY <1>2, <2>1
<1>10. \A i \in 1 .. n : s[i].row \in Stored /\ s[i].row \in FoundRows(r)
  BY <1>1, <1>9
<1>11. c \in Seq(Stored) /\ Len(c) = n /\ DOMAIN c = 1 .. n /\ \A i \in 1 .. n : c[i] = s[i].row
  <2>1. c \in [1 .. n -> Stored] /\ \A i \in 1 .. n : c[i] = s[i].row
    BY <1>7, <1>10
  <2> QED
    BY <1>8, <2>1
<1>12. Among(c, FoundRows(r))
  BY <1>10, <1>11 DEF Among
<1>13. Distinct(c)
  <2> SUFFICES ASSUME NEW i \in 1 .. n, NEW j \in 1 .. n, c[i].key = c[j].key PROVE i = j
    BY <1>11 DEF Distinct
  <2>1. s[i] \in M /\ s[j] \in M /\ s[i].row.key = s[j].row.key
    BY <1>9, <1>11
  <2>2. s[i] = s[j]
    BY <1>1, <2>1
  <2> QED
    BY <1>2, <1>9, <2>2
<1>14. \A i \in DOMAIN s : Hybrid(M)[s[i]] = p[s[i].row.key] /\ p[s[i].row.key] \in Int
  <2> SUFFICES ASSUME NEW i \in DOMAIN s
               PROVE  Hybrid(M)[s[i]] = p[s[i].row.key] /\ p[s[i].row.key] \in Int
    OBVIOUS
  <2>1. s[i] \in M /\ s[i].row \in Stored
    BY <1>1, <1>2
  <2>2. s[i].row.key \in Keys
    BY <2>1, ScoreTypes
  <2> QED
    BY <1>1, <1>5, <2>1, <2>2
<1>15. \A i, j \in DOMAIN s : i < j => p[s[i].row.key] >= p[s[j].row.key]
  BY <1>2, <1>14
<1>16. InOrder(c, p)
  BY <1>9, <1>11, <1>15 DEF InOrder
<1>17. ASSUME NEW k \in LeftOut(c, FoundKeys(r))
       PROVE  \E j \in DOMAIN s : s[j].row.key = k /\ j > n
  <2>1. k \in FoundKeys(r) /\ k \notin KeysOf(ToSet(c))
    BY DEF LeftOut
  <2>2. PICK e \in M : e.row.key = k
    BY <1>1, <2>1
  <2>3. PICK j \in DOMAIN s : s[j] = e
    BY <1>2
  <2>4. j \notin 1 .. n
    <3>1. ASSUME j \in 1 .. n PROVE k \in KeysOf(ToSet(c))
      <4>1. c[j] \in ToSet(c) /\ c[j].key = k
        BY <1>11, <2>2, <2>3, <3>1 DEF ToSet
      <4> QED
        BY <4>1 DEF KeysOf
    <3> QED
      BY <2>1, <3>1
  <2>5. j > n
    BY <1>4, <1>8, <2>4
  <2> QED
    BY <2>2, <2>3, <2>5
<1>18. TheBest(c, FoundKeys(r), p)
  <2> SUFFICES ASSUME NEW k \in LeftOut(c, FoundKeys(r)), NEW i \in DOMAIN c
               PROVE  p[k] <= p[c[i].key]
    BY DEF TheBest
  <2>1. PICK j \in DOMAIN s : s[j].row.key = k /\ j > n
    BY <1>17
  <2>2. i \in 1 .. n /\ i \in DOMAIN s /\ c[i] = s[i].row
    BY <1>9, <1>11
  <2>3. i < j
    BY <1>4, <1>8, <2>1, <2>2
  <2>4. p[s[i].row.key] >= p[s[j].row.key]
    BY <1>15, <2>2, <2>3
  <2> QED
    BY <1>14, <2>1, <2>2, <2>4
<1>19. AsManyAs(c, FoundKeys(r), Cand)
  <2>1. ASSUME LeftOut(c, FoundKeys(r)) # {} PROVE n = Cand
    <3>1. PICK j \in DOMAIN s : j > n
      BY <1>17, <2>1
    <3> QED
      BY <1>4, <1>8, <3>1
  <2> QED
    BY <1>8, <1>11, <2>1 DEF AsManyAs
<1> QED
  BY <1>11, <1>12, <1>13, <1>16, <1>18, <1>19 DEF p, c

LEMMA MergeStep ==
    ASSUME IInv, NEW r \in Requests, MergeAndSort(r)
    PROVE  IInv'
<1>1. PICK s \in Orders(Merged(r), Hybrid(Merged(r))) :
        chunks' = [chunks EXCEPT ![r] = [i \in 1 .. Min({Cand, Len(s)}) |-> s[i].row]]
  BY DEF MergeAndSort
<1>2. pc[r] = "merge" /\ pc' = [pc EXCEPT ![r] = "rerank"]
      /\ UNCHANGED <<env, kind, calls, found, reranked, reply>>
  BY DEF MergeAndSort, Goto
<1>3. /\ kind' = kind /\ reply' = reply /\ attempt' = attempt /\ status' = status
      /\ asking' = asking /\ vrows' = vrows /\ trows' = trows /\ reranked' = reranked
      /\ ragSvc' = ragSvc /\ seen' = seen /\ table' = table
  BY <1>2 DEF env, calls, found
<1>4. Arrays /\ FileTypes /\ Sound(r)
  BY DEF IInv
<1> DEFINE c == TopRows(s)
<1>5. /\ c \in Seq(Stored) /\ Among(c, FoundRows(r)) /\ Distinct(c)
      /\ InOrder(c, Points(r)) /\ TheBest(c, FoundKeys(r), Points(r))
      /\ AsManyAs(c, FoundKeys(r), Cand)
  <2>1. ragSvc # NoService /\ OneEach(vrows[r]) /\ OneEach(trows[r])
    BY <1>2, <1>4 DEF Sound, Served, ReadSoundly, Searching
  <2> QED
    BY <1>4, <2>1, BestCandidates
<1> HIDE DEF c
<1>6. chunks' \in [Requests -> Seq(Stored)] /\ chunks'[r] = c
      /\ \A q \in Requests \ {r} : chunks'[q] = chunks[q]
  <2>1. chunks' = [chunks EXCEPT ![r] = c]
    BY <1>1 DEF c, TopRows
  <2> QED
    BY <1>4, <1>5, <2>1 DEF Arrays
<1>7. /\ pc' \in [Requests -> Phases] /\ pc'[r] = "rerank"
      /\ \A q \in Requests \ {r} : pc'[q] = pc[q]
  BY <1>2, <1>4 DEF Arrays, Phases
<1>8. Arrays' /\ Only(r)
  BY <1>3, <1>4, <1>6, <1>7 DEF Arrays, Only, Kept
<1>9. Sound(r)'
  <2>1. Progress(r)' /\ Attempts(r)' /\ Asked(r)'
    BY <1>2, <1>3, <1>4, <1>7 DEF Sound, Progress, Attempts, Asked, Decided
  <2>2. ReadSoundly(r)'
    BY <1>2, <1>3, <1>4, <1>7 DEF Sound, ReadSoundly, FoundRows
  <2>3. ragSvc # NoService /\ ~reranked[r]
    BY <1>2, <1>4 DEF Sound, Served, Searching, Ordered
  <2>4. Served(r)'
    BY <1>3, <2>3 DEF Served
  <2>5. ChunksFound(r)'
    BY <1>3, <1>5, <1>6, <1>7 DEF ChunksFound, FoundRows
  <2>6. Points(r)' = Points(r) /\ FoundKeys(r)' = FoundKeys(r) /\ Cand' = Cand
    BY <1>3 DEF Points, ScoreOf, Alpha, FoundKeys, Cand
  <2>7. Ordered(r)'
    BY <1>3, <1>5, <1>6, <1>7, <2>3, <2>6 DEF Ordered, Candidates
  <2> QED
    BY <2>1, <2>2, <2>4, <2>5, <2>7 DEF Sound
<1>10. asking' \in [Requests -> Files \cup {NoFile}]
  BY <1>3, <1>4 DEF FileTypes
<1> QED
  BY <1>2, <1>8, <1>9, <1>10, Stepped

LEMMA CutOffRows ==
    ASSUME NEW c \in Seq(Stored), NEW l \in Nat, NEW rows, Distinct(c), Among(c, rows)
    PROVE  /\ First(c, l) \in Seq(Stored) /\ Distinct(First(c, l)) /\ Among(First(c, l), rows)
           /\ ByReranker(c) => ByReranker(First(c, l))
<1> DEFINE d == First(c, l)
<1>1. /\ d \in Seq(Stored) /\ DOMAIN d \subseteq DOMAIN c
      /\ \A i \in DOMAIN d : d[i] = c[i]
  BY CutOff
<1> HIDE DEF d
<1>2. Distinct(d)
  BY <1>1 DEF Distinct
<1>3. Among(d, rows)
  BY <1>1 DEF Among
<1>4. ByReranker(c) => ByReranker(d)
  BY <1>1 DEF ByReranker
<1> QED
  BY <1>1, <1>2, <1>3, <1>4 DEF d

(* Query returns d.                                                        *)
LEMMA Returned ==
    ASSUME IInv, NEW r \in Requests, pc[r] = "rerank", NEW d \in Seq(Stored), GoOn(r, 200),
           chunks' = [chunks EXCEPT ![r] = d], UNCHANGED <<env, kind, status, found>>,
           reranked' \in [Requests -> BOOLEAN],
           \A s \in Requests \ {r} : reranked'[s] = reranked[s],
           Among(d, FoundRows(r)), Distinct(d),
           AsManyAs(d, FoundKeys(r), Min({Limit, Cand})),
           IF reranked'[r] THEN ByReranker(d)
           ELSE InOrder(d, Points(r)) /\ TheBest(d, FoundKeys(r), Points(r))
    PROVE  IInv'
<1>1. 200 \in Codes \ {0}
  BY DEF Codes
<1>2. /\ pc' \in [Requests -> Phases] /\ reply' \in [Requests -> Codes]
      /\ attempt' \in [Requests -> Nat] /\ asking' \in [Requests -> Files \cup {NoFile}]
      /\ \A s \in Requests \ {r} :
            /\ pc'[s] = pc[s] /\ reply'[s] = reply[s]
            /\ attempt'[s] = attempt[s] /\ asking'[s] = asking[s]
  BY <1>1, Going DEF IInv
<1>3. Arrays /\ vrows' = vrows /\ trows' = trows /\ kind' = kind /\ status' = status
  BY DEF IInv, found
<1>4. ragSvc' = ragSvc /\ seen' = seen /\ table' = table
  BY DEF env
<1>5. chunks' \in [Requests -> Seq(Stored)] /\ chunks'[r] = d
      /\ \A s \in Requests \ {r} : chunks'[s] = chunks[s]
  BY <1>3 DEF Arrays
<1>6. Arrays'
  BY <1>2, <1>3, <1>5 DEF Arrays
<1>7. Only(r)
  BY <1>2, <1>3, <1>5 DEF Only, Kept
<1>8. ragSvc' # NoService
  BY <1>4 DEF IInv, Sound, Served, Searching
<1>9. Handed(r)'
  <2>1. Points(r)' = Points(r) /\ FoundKeys(r)' = FoundKeys(r) /\ Cand' = Cand
    BY <1>3, <1>4 DEF Points, ScoreOf, Alpha, FoundKeys, Cand
  <2> QED
    BY <1>5, <2>1 DEF Handed
<1>10. FoundRows(r) \subseteq seen'[r] /\ RowsOf(table') \subseteq seen'[r]
  BY <1>4 DEF IInv, Sound, ReadSoundly
<1>11. Sound(r)'
  <2>1. pc[r] \in Searching \cup {"new"} /\ vrows'[r] = vrows[r] /\ trows'[r] = trows[r]
    BY <1>3 DEF Searching
  <2> QED
    BY <1>1, <1>3, <1>5, <1>8, <1>9, <1>10, <2>1, Gone
<1>12. UNCHANGED env
  OBVIOUS
<1> QED
  BY <1>2, <1>6, <1>7, <1>11, <1>12, Stepped

LEMMA RerankStep ==
    ASSUME IInv, NEW r \in Requests, Rerank(r) \/ SkipRerank(r)
    PROVE  IInv'
<1> DEFINE c == chunks[r]
<1>1. pc[r] = "rerank" /\ UNCHANGED <<env, kind, status, found>>
  BY DEF Rerank, SkipRerank
<1>2. Arrays /\ FileTypes /\ Sound(r) /\ Limit \in Nat
  BY AnsweringAssumption DEF IInv
<1>3. ragSvc # NoService /\ ~reranked[r]
  BY <1>1, <1>2 DEF Sound, Served, Searching, Ordered
<1>4. Cand \in Nat
  BY <1>2, <1>3, Configured
<1>5. /\ c \in Seq(Stored) /\ Distinct(c) /\ Among(c, FoundRows(r))
      /\ InOrder(c, Points(r)) /\ TheBest(c, FoundKeys(r), Points(r))
      /\ AsManyAs(c, FoundKeys(r), Cand)
  BY <1>1, <1>2 DEF Arrays, Sound, ChunksFound, Ordered, Candidates
<1> HIDE DEF c
<1>6. CASE SkipRerank(r)
  <2> DEFINE d == First(c, Limit)
  <2>1. chunks' = [chunks EXCEPT ![r] = d] /\ GoOn(r, 200) /\ reranked' = reranked
    BY <1>6 DEF SkipRerank, Return, First, c
  <2>2. d \in Seq(Stored) /\ Distinct(d) /\ Among(d, FoundRows(r))
    BY <1>2, <1>5, CutOffRows
  <2>3. AsManyAs(d, FoundKeys(r), Min({Limit, Cand}))
    BY <1>2, <1>4, <1>5, CutOffCount
  <2>4. InOrder(d, Points(r)) /\ TheBest(d, FoundKeys(r), Points(r))
    <3>1. FoundKeys(r) \in SUBSET Keys
      BY <1>2, ScoreTypes DEF FoundKeys, KeysOf, Arrays
    <3>2. Points(r) \in [Keys -> Int]
      BY <1>2, <1>3, PointTypes
    <3> QED
      BY <1>2, <1>5, <3>1, <3>2, CutOffOrder
  <2> HIDE DEF d
  <2>5. reranked' \in [Requests -> BOOLEAN] /\ ~reranked'[r]
        /\ \A s \in Requests \ {r} : reranked'[s] = reranked[s]
    BY <1>2, <1>3, <2>1 DEF Arrays
  <2> QED
    BY <1>1, <2>1, <2>2, <2>3, <2>4, <2>5, Returned
<1>7. CASE Rerank(r)
  <2>1. PICK s \in Orders(ToSet(c), RerankScore) : Return(r, s)
    BY <1>7 DEF Rerank, c
  <2>2. reranked' = [reranked EXCEPT ![r] = TRUE]
    BY <1>7 DEF Rerank
  <2> DEFINE d == First(s, Limit)
  <2>3. chunks' = [chunks EXCEPT ![r] = d] /\ GoOn(r, 200)
    BY <2>1 DEF Return, First
  <2>4. /\ s \in Seq(Stored) /\ Len(s) = Len(c) /\ ToSet(s) = ToSet(c)
        /\ Distinct(s) /\ ByReranker(s)
    BY <1>5, Reordered
  <2>5. AsManyAs(s, FoundKeys(r), Cand)
    BY <1>5, <2>4 DEF AsManyAs, LeftOut
  <2>6. Among(s, FoundRows(r))
    <3>1. ToSet(c) \subseteq FoundRows(r)
      BY <1>5 DEF Among, ToSet
    <3>2. \A i \in DOMAIN s : s[i] \in ToSet(s)
      BY DEF ToSet
    <3> QED
      BY <2>4, <3>1, <3>2 DEF Among
  <2>7. d \in Seq(Stored) /\ Distinct(d) /\ Among(d, FoundRows(r)) /\ ByReranker(d)
    BY <1>2, <2>4, <2>6, CutOffRows
  <2>8. AsManyAs(d, FoundKeys(r), Min({Limit, Cand}))
    BY <1>2, <1>4, <2>4, <2>5, CutOffCount
  <2> HIDE DEF d
  <2>9. reranked' \in [Requests -> BOOLEAN] /\ reranked'[r]
        /\ \A q \in Requests \ {r} : reranked'[q] = reranked[q]
    BY <1>2, <2>2 DEF Arrays
  <2> QED
    BY <1>1, <2>3, <2>7, <2>8, <2>9, Returned
<1> QED
  BY <1>6, <1>7

-----------------------------------------------------------------------------
(* What a step of callLLM changes: the outcome, the attempts, the answer.  *)
LEMMA AskStep ==
    ASSUME IInv, NEW r \in Requests, pc[r] = "ask", UNCHANGED <<env, kind, asking, found, result>>,
           NEW o, status' = [status EXCEPT ![r] = o],
           NEW n \in Nat, attempt' = [attempt EXCEPT ![r] = n],
           \/ UNCHANGED <<pc, reply>> /\ n <= RetriesIn(asking[r])
           \/ \E code \in Codes \ {0} :
                 Answer(r, code) /\ Deserved(code, o, url, asking[r], n)
    PROVE  IInv'
<1>1. Arrays /\ FileTypes /\ Sound(r)
  BY DEF IInv
<1>2. /\ kind' = kind /\ asking' = asking /\ vrows' = vrows /\ trows' = trows
      /\ chunks' = chunks /\ reranked' = reranked
      /\ ragSvc' = ragSvc /\ seen' = seen /\ table' = table /\ url' = url
  BY DEF env, found, result
<1>3. /\ DOMAIN status' = Requests /\ status'[r] = o
      /\ \A q \in Requests \ {r} : status'[q] = status[q]
  BY <1>1 DEF Arrays
<1>4. /\ attempt' \in [Requests -> Nat] /\ attempt'[r] = n
      /\ \A q \in Requests \ {r} : attempt'[q] = attempt[q]
  BY <1>1 DEF Arrays
<1>5. kind[r] = "askai"
  BY <1>1 DEF Sound, Progress
<1>6. asking[r] \in Files \cup {NoFile} /\ RetriesIn(asking[r]) \in 1 .. 3
  BY <1>1, Loaded DEF FileTypes
<1>7. Points(r)' = Points(r) /\ FoundKeys(r)' = FoundKeys(r) /\ Cand' = Cand
  BY <1>2 DEF Points, ScoreOf, Alpha, FoundKeys, Cand
<1>8. UNCHANGED env /\ asking' \in [Requests -> Files \cup {NoFile}]
  BY <1>1, <1>2 DEF FileTypes
<1>9. CASE UNCHANGED <<pc, reply>> /\ n <= RetriesIn(asking[r])
  <2>1. Arrays'
    BY <1>1, <1>2, <1>3, <1>4, <1>9 DEF Arrays
  <2>2. Only(r)
    BY <1>2, <1>3, <1>4, <1>9 DEF Only, Kept
  <2>3. Progress(r)'
    <3>1. n <= 3
      BY <1>6, <1>9
    <3> QED
      BY <1>1, <1>2, <1>4, <1>5, <1>9, <3>1 DEF Sound, Progress
  <2>4. Attempts(r)' /\ Asked(r)'
    BY <1>2, <1>4, <1>9 DEF Attempts, Asked, Decided
  <2>5. ReadSoundly(r)' /\ Served(r)' /\ ChunksFound(r)'
    BY <1>1, <1>2, <1>9 DEF Sound, ReadSoundly, Served, ChunksFound, FoundRows
  <2>6. Ordered(r)'
    BY <1>1, <1>2, <1>7, <1>9 DEF Sound, Ordered, Handed
  <2>7. Sound(r)'
    BY <2>3, <2>4, <2>5, <2>6 DEF Sound
  <2> QED
    BY <1>8, <2>1, <2>2, <2>7, Stepped
<1>10. CASE \E code \in Codes \ {0} :
               Answer(r, code) /\ Deserved(code, o, url, asking[r], n)
  <2>1. PICK code \in Codes \ {0} : Answer(r, code) /\ Deserved(code, o, url, asking[r], n)
    BY <1>10
  <2>2. pc' = [pc EXCEPT ![r] = "done"] /\ reply' = [reply EXCEPT ![r] = code]
    BY <2>1 DEF Answer, Goto
  <2>3. /\ pc' \in [Requests -> Phases] /\ pc'[r] = "done"
        /\ \A q \in Requests \ {r} : pc'[q] = pc[q]
    BY <1>1, <2>2 DEF Arrays, Phases
  <2>4. /\ reply' \in [Requests -> Codes] /\ reply'[r] = code
        /\ \A q \in Requests \ {r} : reply'[q] = reply[q]
    BY <1>1, <2>2 DEF Arrays
  <2>5. Arrays'
    BY <1>1, <1>2, <1>3, <1>4, <2>3, <2>4 DEF Arrays
  <2>6. Only(r)
    BY <1>2, <1>3, <1>4, <2>3, <2>4 DEF Only, Kept
  <2>7. Progress(r)' /\ Attempts(r)'
    BY <2>3, <2>4 DEF Progress, Attempts
  <2>8. Asked(r)'
    BY <1>2, <1>3, <1>4, <2>1, <2>4 DEF Asked
  <2>9. ReadSoundly(r)' /\ Served(r)' /\ ChunksFound(r)'
    BY <1>1, <1>2, <2>3 DEF Sound, ReadSoundly, Served, ChunksFound, FoundRows, Searching
  <2>10. Ordered(r)'
    BY <1>1, <1>2, <1>7, <2>3 DEF Sound, Ordered, Handed
  <2>11. Sound(r)'
    BY <2>7, <2>8, <2>9, <2>10 DEF Sound
  <2> QED
    BY <1>8, <2>5, <2>6, <2>11, Stepped
<1> QED
  BY <1>9, <1>10

LEMMA Answers ==
    ASSUME NEW u, NEW f, NEW n
    PROVE  Deserved(200, "choices", u, f, n)
BY DEF Deserved

LEMMA Distinguished ==
    /\ 500 \in {200, 500} /\ 500 # 200 /\ "malformed" # "choices"
    /\ \A s \in {"error", "no choices"} : s # "choices" /\ s # "malformed"
OBVIOUS

LEMMA Malformed ==
    ASSUME NEW u, NEW f, NEW n, u = "garbled" \/ (u = "" /\ f # NoFile)
    PROVE  Deserved(500, "malformed", u, f, n)
BY Distinguished DEF Deserved

LEMMA Exhausted ==
    ASSUME NEW u, NEW f, NEW s \in {"error", "no choices"}
    PROVE  Deserved(500, s, u, f, 1 + RetriesIn(f))
<1>1. s # "choices" /\ s # "malformed"
  BY Distinguished
<1> QED
  BY <1>1, Distinguished DEF Deserved

LEMMA AskingStep ==
    ASSUME IInv, NEW r \in Requests, AskFails(r) \/ AskMalformed(r) \/ AskSucceeds(r)
    PROVE  IInv'
<1>1. pc[r] = "ask" /\ UNCHANGED <<env, kind, asking, found, result>>
  BY DEF AskFails, AskMalformed, AskSucceeds
<1>2. Arrays /\ FileTypes /\ attempt[r] <= RetriesIn(asking[r])
  BY <1>1 DEF IInv, Sound, Attempts
<1>3. attempt[r] \in Nat /\ asking[r] \in Files \cup {NoFile}
  BY <1>2 DEF Arrays, FileTypes
<1>4. PICK k \in 1 .. 3 : k = RetriesIn(asking[r]) /\ Settings(r).retries = k
  BY <1>3, Loaded DEF Settings
<1>5. attempt[r] < k => attempt[r] + 1 \in Nat /\ attempt[r] + 1 <= k
  BY <1>3
<1>6. ~(attempt[r] < k) => attempt[r] + 1 \in Nat /\ attempt[r] + 1 = 1 + k
  <2>1. attempt[r] <= k
    BY <1>2, <1>4
  <2> QED
    BY <1>3, <2>1
<1>7. attempt[r] + 1 = 1 + k =>
        \A o \in {"error", "no choices"} : Deserved(500, o, url, asking[r], attempt[r] + 1)
  <2> SUFFICES ASSUME attempt[r] + 1 = 1 + k, NEW o \in {"error", "no choices"}
               PROVE  Deserved(500, o, url, asking[r], attempt[r] + 1)
    OBVIOUS
  <2>1. attempt[r] + 1 = 1 + RetriesIn(asking[r])
    BY <1>4
  <2>2. Deserved(500, o, url, asking[r], 1 + RetriesIn(asking[r]))
    BY Exhausted, ZenonT(40)
  <2> QED
    BY <2>1, <2>2
<1>8. Settings(r).endpoint = "garbled" => Deserved(500, "malformed", url, asking[r], attempt[r])
  <2> SUFFICES ASSUME Settings(r).endpoint = "garbled"
               PROVE  Deserved(500, "malformed", url, asking[r], attempt[r])
    OBVIOUS
  <2>1. url = "garbled" \/ (url = "" /\ asking[r] # NoFile)
    BY <1>3, Loaded DEF Settings
  <2> QED
    BY <2>1, Malformed, ZenonT(40)
<1>9. 200 \in Codes \ {0} /\ 500 \in Codes \ {0}
  BY DEF Codes
<1>10. CASE AskFails(r)
  <2>1. PICK o \in {"error", "no choices"} : status' = [status EXCEPT ![r] = o]
    BY <1>10 DEF AskFails
  <2>2. attempt' = [attempt EXCEPT ![r] = attempt[r] + 1]
    BY <1>10 DEF AskFails, Again
  <2>3. CASE attempt[r] < k
    <3>1. UNCHANGED <<pc, reply>>
      BY <1>4, <1>10, <2>3 DEF AskFails
    <3>2. attempt[r] + 1 \in Nat /\ attempt[r] + 1 <= RetriesIn(asking[r])
      BY <1>4, <1>5, <2>3
    <3> QED
      BY <1>1, <2>1, <2>2, <3>1, <3>2, AskStep
  <2>4. CASE ~(attempt[r] < k)
    <3>1. Answer(r, 500)
      BY <1>4, <1>10, <2>4 DEF AskFails
    <3>2. attempt[r] + 1 \in Nat /\ Deserved(500, o, url, asking[r], attempt[r] + 1)
      BY <1>6, <1>7, <2>4
    <3> QED
      BY <1>1, <1>9, <2>1, <2>2, <3>1, <3>2, AskStep, ZenonT(40)
  <2> QED
    BY <2>3, <2>4
<1>11. CASE AskMalformed(r)
  <2>1. status' = [status EXCEPT ![r] = "malformed"] /\ Answer(r, 500)
    BY <1>11 DEF AskMalformed
  <2>2. attempt' = [attempt EXCEPT ![r] = attempt[r]]
    BY <1>2, <1>11 DEF AskMalformed, Arrays
  <2>3. Deserved(500, "malformed", url, asking[r], attempt[r])
    BY <1>8, <1>11 DEF AskMalformed
  <2>4. \E code \in Codes \ {0} :
            Answer(r, code) /\ Deserved(code, "malformed", url, asking[r], attempt[r])
    BY <1>9, <2>1, <2>3
  <2>5. attempt[r] \in Nat
    BY <1>3
  <2> QED
    BY <1>1, <2>1, <2>2, <2>4, <2>5, AskStep
<1>12. CASE AskSucceeds(r)
  <2>1. /\ status' = [status EXCEPT ![r] = "choices"] /\ Answer(r, 200)
        /\ attempt' = [attempt EXCEPT ![r] = attempt[r] + 1]
    BY <1>12 DEF AskSucceeds, Again
  <2>2. Deserved(200, "choices", url, asking[r], attempt[r] + 1)
    BY Answers
  <2>3. attempt[r] + 1 \in Nat
    BY <1>3
  <2> QED
    BY <1>1, <1>9, <2>1, <2>2, <2>3, AskStep
<1> QED
  BY <1>10, <1>11, <1>12

-----------------------------------------------------------------------------
LEMMA Constructed ==
    ASSUME FileTypes
    PROVE  InitRAG \in {NoService} \cup {ToConfig(LoadServer(f)) : f \in Files}
BY DEF FileTypes, InitRAG

LEMMA ReceiveStep ==
    ASSUME IInv, NEW r \in Requests, Receive(r)
    PROVE  IInv'
<1>1. /\ pc[r] = "new" /\ seen' = [seen EXCEPT ![r] = RowsOf(table)]
      /\ UNCHANGED <<file, url, table, events, kind, status, found, reranked>>
  BY DEF Receive
<1>2. ragSvc' = ragSvc \/ (ragSvc = NoService /\ ragSvc' = InitRAG)
  BY DEF Receive
<1>3. \/ /\ ragSvc' # NoService /\ pc' = [pc EXCEPT ![r] = "embed"]
         /\ UNCHANGED <<attempt, asking, chunks, reply>>
      \/ Leave(r, 200)
  BY DEF Receive, Goto
<1>4. Arrays /\ FileTypes /\ Sound(r)
  BY DEF IInv
<1>5. vrows' = vrows /\ trows' = trows /\ kind' = kind /\ reranked' = reranked
      /\ status' = status /\ table' = table /\ url' = url /\ file' = file
  BY <1>1 DEF found
<1>6. RowsOf(table) \in SUBSET Stored
  BY DEF RowsOf
<1>7. /\ seen' \in [Requests -> SUBSET Stored] /\ seen'[r] = RowsOf(table)
      /\ \A s \in Requests \ {r} : seen'[s] = seen[s]
  BY <1>1, <1>4, <1>6 DEF FileTypes
<1>8. /\ vrows[r] = {} /\ trows[r] = {} /\ chunks[r] = <<>> /\ attempt[r] = 0
      /\ ~reranked[r]
  BY <1>1, <1>4 DEF Sound, ReadSoundly, ChunksFound, Attempts, Ordered
<1>9. FoundRows(r) = {}
  BY <1>8 DEF FoundRows
<1>10. ragSvc' \in {NoService} \cup {ToConfig(LoadServer(f)) : f \in Files}
  BY <1>2, <1>4, Constructed DEF FileTypes
<1>11. ASSUME Arrays', asking' \in [Requests -> Files \cup {NoFile}], Only(r), Sound(r)'
       PROVE  IInv'
  <2>1. FileTypes'
    BY <1>4, <1>5, <1>7, <1>10, <1>11 DEF FileTypes
  <2>2. \A s \in Requests \ {r} : Sound(s)'
    BY <1>2, <1>5, <1>7, <1>11, Elsewhere
  <2> QED
    BY <1>11, <2>1, <2>2 DEF IInv
<1>12. CASE /\ ragSvc' # NoService /\ pc' = [pc EXCEPT ![r] = "embed"]
            /\ UNCHANGED <<attempt, asking, chunks, reply>>
  <2>1. /\ pc' \in [Requests -> Phases] /\ pc'[r] = "embed"
        /\ \A s \in Requests \ {r} : pc'[s] = pc[s]
    BY <1>4, <1>12 DEF Arrays, Phases
  <2>2. attempt' = attempt /\ asking' = asking /\ chunks' = chunks /\ reply' = reply
    BY <1>12
  <2>3. Arrays' /\ asking' \in [Requests -> Files \cup {NoFile}]
    BY <1>4, <1>5, <2>1, <2>2 DEF Arrays, FileTypes
  <2>4. Only(r)
    BY <1>5, <2>1, <2>2 DEF Only, Kept
  <2>5. Progress(r)'
    BY <1>1, <1>4, <1>8, <2>1, <2>2 DEF Sound, Progress
  <2>6. ReadSoundly(r)'
    BY <1>5, <1>7, <1>8, <2>1 DEF ReadSoundly, FoundRows, OneEach
  <2>7. Served(r)' /\ Ordered(r)'
    BY <1>5, <1>8, <1>12, <2>1, <2>2 DEF Served, Ordered
  <2>8. ChunksFound(r)'
    BY <1>8, <2>2 DEF ChunksFound, Among, Distinct
  <2>9. Attempts(r)' /\ Asked(r)'
    BY <2>1 DEF Attempts, Asked, Decided
  <2> QED
    BY <1>11, <2>3, <2>4, <2>5, <2>6, <2>7, <2>8, <2>9 DEF Sound
<1>13. CASE Leave(r, 200)
  <2>1. 200 \in Codes \ {0}
    BY DEF Codes
  <2>2. GoOn(r, 200) /\ chunks' = [chunks EXCEPT ![r] = <<>>]
    BY <1>13 DEF Leave
  <2>3. /\ pc' \in [Requests -> Phases] /\ reply' \in [Requests -> Codes]
        /\ attempt' \in [Requests -> Nat] /\ asking' \in [Requests -> Files \cup {NoFile}]
        /\ \A s \in Requests \ {r} :
              /\ pc'[s] = pc[s] /\ reply'[s] = reply[s]
              /\ attempt'[s] = attempt[s] /\ asking'[s] = asking[s]
    BY <1>4, <2>1, <2>2, Going
  <2>4. chunks' \in [Requests -> Seq(Stored)] /\ chunks'[r] = <<>>
        /\ \A s \in Requests \ {r} : chunks'[s] = chunks[s]
    BY <1>4, <2>2 DEF Arrays
  <2>5. Arrays'
    BY <1>4, <1>5, <2>3, <2>4 DEF Arrays
  <2>6. Only(r)
    BY <1>5, <2>3, <2>4 DEF Only, Kept
  <2>7. Sound(r)'
    <3>1. FoundRows(r) \subseteq seen'[r] /\ RowsOf(table') \subseteq seen'[r]
      BY <1>5, <1>7, <1>9
    <3>2. Among(chunks'[r], FoundRows(r)) /\ Distinct(chunks'[r])
      BY <2>4 DEF Among, Distinct
    <3>3. pc[r] \in Searching \cup {"new"}
      BY <1>1
    <3> QED
      BY <1>5, <2>1, <2>2, <2>4, <3>1, <3>2, <3>3, Gone
  <2> QED
    BY <1>11, <2>3, <2>5, <2>6, <2>7
<1> QED
  BY <1>3, <1>12, <1>13

LEMMA RefuseStep ==
    ASSUME IInv, NEW r \in Requests, Refuse(r)
    PROVE  IInv'
<1>1. /\ pc[r] = "new" /\ status' = [status EXCEPT ![r] = "refused"]
      /\ reply' = [reply EXCEPT ![r] = 400] /\ pc' = [pc EXCEPT ![r] = "done"]
      /\ UNCHANGED <<env, kind, attempt, asking, found, result>>
  BY DEF Refuse, Answer, Goto
<1>2. Arrays /\ FileTypes /\ Sound(r)
  BY DEF IInv
<1>3. /\ kind' = kind /\ attempt' = attempt /\ asking' = asking /\ vrows' = vrows
      /\ trows' = trows /\ chunks' = chunks /\ reranked' = reranked
      /\ ragSvc' = ragSvc /\ seen' = seen /\ table' = table
  BY <1>1 DEF env, found, result
<1>4. /\ pc' \in [Requests -> Phases] /\ pc'[r] = "done"
      /\ \A q \in Requests \ {r} : pc'[q] = pc[q]
  BY <1>1, <1>2 DEF Arrays, Phases
<1>5. /\ reply' \in [Requests -> Codes] /\ reply'[r] = 400
      /\ \A q \in Requests \ {r} : reply'[q] = reply[q]
  BY <1>1, <1>2 DEF Arrays, Codes
<1>6. /\ DOMAIN status' = Requests /\ status'[r] = "refused"
      /\ \A q \in Requests \ {r} : status'[q] = status[q]
  BY <1>1, <1>2 DEF Arrays
<1>7. Arrays'
  BY <1>2, <1>3, <1>4, <1>5, <1>6 DEF Arrays
<1>8. Only(r)
  BY <1>3, <1>4, <1>5, <1>6 DEF Only, Kept
<1>9. chunks[r] = <<>>
  BY <1>1, <1>2 DEF Sound, ChunksFound
<1>10. Sound(r)'
  <2>1. Progress(r)'
    BY <1>4, <1>5 DEF Progress
  <2>2. ReadSoundly(r)'
    BY <1>2, <1>3, <1>4 DEF Sound, ReadSoundly, FoundRows
  <2>3. Served(r)' /\ Ordered(r)'
    BY <1>3, <1>4, <1>9 DEF Served, Ordered, Searching
  <2>4. ChunksFound(r)'
    BY <1>3, <1>9 DEF ChunksFound, Among, Distinct
  <2>5. Attempts(r)' /\ Asked(r)'
    BY <1>4, <1>6 DEF Attempts, Asked, Decided
  <2> QED
    BY <2>1, <2>2, <2>3, <2>4, <2>5 DEF Sound
<1>11. UNCHANGED env /\ asking' \in [Requests -> Files \cup {NoFile}]
  BY <1>1, <1>2 DEF FileTypes
<1> QED
  BY <1>7, <1>8, <1>10, <1>11, Stepped

(* What happens around the questions.                                      *)
LEMMA AroundStep ==
    ASSUME IInv, Write \/ Edit \/ Construct
    PROVE  IInv'
<1>1. FileTypes /\ Arrays
  BY DEF IInv
<1>2. UNCHANGED <<url, kind, pc, calls, found, result, reply>>
  BY DEF Write, Edit, Construct
<1>3. Arrays' /\ \A s \in Requests : Kept(s)
  BY <1>1, <1>2 DEF Arrays, Kept, calls, found, result
<1>4. asking' = asking /\ url' = url
  BY <1>2 DEF calls
<1>5. CASE Write
  <2>1. PICK k \in Keys, c \in Contents : table' = [table EXCEPT ![k] = c]
    BY <1>5 DEF Write
  <2>2. table' \in [Keys -> Contents \cup {NoRow}]
    BY <1>1, <2>1 DEF FileTypes
  <2>3. seen' = [r \in Requests |-> IF pc[r] \in {"new", "done"} THEN seen[r]
                                    ELSE seen[r] \cup RowsOf(table')]
        /\ file' = file /\ ragSvc' = ragSvc
    BY <1>5 DEF Write
  <2>4. RowsOf(table') \in SUBSET Stored
    BY DEF RowsOf
  <2>5. seen' \in [Requests -> SUBSET Stored]
    BY <1>1, <2>3, <2>4 DEF FileTypes
  <2>6. FileTypes'
    BY <1>1, <1>4, <2>2, <2>3, <2>5 DEF FileTypes
  <2>7. ASSUME NEW s \in Requests
        PROVE  /\ seen[s] \subseteq seen'[s]
               /\ pc[s] \notin {"new", "done"} => RowsOf(table') \subseteq seen'[s]
    BY <2>3
  <2>8. \A s \in Requests : Sound(s)'
    BY <1>3, <1>4, <2>3, <2>7, Framed DEF IInv
  <2> QED
    BY <1>3, <2>6, <2>8 DEF IInv
<1>6. CASE Edit \/ Construct
  <2>1. table' = table /\ seen' = seen
    BY <1>6 DEF Edit, Construct
  <2>2. file' \in Files \cup {NoFile}
    BY <1>1, <1>6 DEF Edit, Construct, FileTypes
  <2>3. ragSvc' = ragSvc \/ (ragSvc = NoService /\ ragSvc' = InitRAG)
    BY <1>6 DEF Edit, Construct
  <2>4. FileTypes'
    BY <1>1, <1>4, <2>1, <2>2, <2>3, Constructed DEF FileTypes
  <2>5. ASSUME NEW s \in Requests PROVE Sound(s)'
    <3>1. Sound(s) /\ Kept(s)
      BY <1>3 DEF IInv
    <3>2. pc[s] \notin {"new", "done"} => RowsOf(table') \subseteq seen'[s]
      BY <2>1, <3>1 DEF Sound, ReadSoundly
    <3> QED
      BY <1>4, <2>1, <2>3, <3>1, <3>2, Framed
  <2> QED
    BY <1>3, <2>4, <2>5 DEF IInv
<1> QED
  BY <1>5, <1>6

LEMMA Initially ==
    ASSUME Init
    PROVE  IInv
<1>1. FileTypes
  <2>1. file \in Files \cup {NoFile}
    BY DEF Init
  <2>2. InitRAG \in {NoService} \cup {ToConfig(LoadServer(f)) : f \in Files}
    BY <2>1 DEF InitRAG
  <2>3. table \in [Keys -> Contents \cup {NoRow}]
    BY AnsweringAssumption DEF Init
  <2> QED
    BY <2>1, <2>2, <2>3 DEF Init, FileTypes
<1>2. Arrays
  BY DEF Init, Arrays, Phases, Codes
<1>3. ASSUME NEW r \in Requests PROVE Sound(r)
  <2>1. /\ pc[r] = "new" /\ attempt[r] = 0 /\ vrows[r] = {} /\ trows[r] = {}
        /\ chunks[r] = <<>> /\ reranked[r] = FALSE /\ reply[r] = 0 /\ seen[r] = {}
    BY DEF Init
  <2>2. Progress(r) /\ Attempts(r) /\ Asked(r)
    BY <2>1 DEF Progress, Attempts, Asked, Decided
  <2>3. ReadSoundly(r)
    BY <2>1 DEF ReadSoundly, FoundRows, OneEach
  <2> QED
    BY <2>1, <2>2, <2>3 DEF Sound, Served, Searching, ChunksFound, Among, Distinct, Ordered
<1> QED
  BY <1>1, <1>2, <1>3 DEF IInv

THEOREM Invariance == Spec => []IInv
<1>1. Init => IInv
  BY Initially
<1>2. IInv /\ [Next]_vars => IInv'
  <2> SUFFICES ASSUME IInv, [Next]_vars PROVE IInv'
    OBVIOUS
  <2>1. CASE Write \/ Edit \/ Construct
    BY <2>1, AroundStep
  <2>2. ASSUME NEW r \in Requests, Receive(r) \/ Refuse(r) \/ Step(r) PROVE IInv'
    <3>1. CASE EmbedFails(r)
      BY <3>1, EmbedFailsStep
    <3>2. CASE EmbedCancelled(r) \/ NothingToSearch(r) \/ ReadFails(r)
      BY <3>2, NothingFoundStep
    <3>3. CASE Embedded(r) \/ ReadByVector(r) \/ ReadByText(r)
      BY <3>3, SearchStep
    <3>4. CASE MergeAndSort(r)
      BY <3>4, MergeStep
    <3>5. CASE Rerank(r) \/ SkipRerank(r)
      BY <3>5, RerankStep
    <3>6. CASE AskFails(r) \/ AskMalformed(r) \/ AskSucceeds(r)
      BY <3>6, AskingStep
    <3> QED
      BY <2>2, <3>1, <3>2, <3>3, <3>4, <3>5, <3>6, ReceiveStep, RefuseStep DEF Step
  <2>3. CASE UNCHANGED vars
    <3>1. /\ FileTypes' /\ Arrays' /\ url' = url /\ ragSvc' = ragSvc /\ seen' = seen
          /\ table' = table /\ \A s \in Requests : Kept(s)
      BY <2>3 DEF IInv, FileTypes, Arrays, Kept, vars, env, calls, found, result
    <3>2. ASSUME NEW s \in Requests PROVE Sound(s)'
      <4>1. Sound(s)
        BY DEF IInv
      <4>2. pc[s] \notin {"new", "done"} => RowsOf(table') \subseteq seen'[s]
        BY <3>1, <4>1 DEF Sound, ReadSoundly
      <4> QED
        BY <3>1, <4>1, <4>2, Framed
    <3> QED
      BY <3>1, <3>2 DEF IInv
  <2> QED
    BY <2>1, <2>2, <2>3 DEF Next
<1> QED
  BY <1>1, <1>2, PTL DEF Spec

(* TypeOK: every variable holds what it should; the embedding service is   *)
(* asked three times at most, the chat model four times, and only for      *)
(* /askai.                                                                 *)
THEOREM TypeCorrect == Spec => []TypeOK
<1>1. IInv => TypeOK
  <2> SUFFICES ASSUME IInv PROVE TypeOK
    OBVIOUS
  <2>1. FileTypes /\ Arrays /\ \A r \in Requests : Sound(r)
    BY DEF IInv
  <2>2. ASSUME NEW r \in Requests
        PROVE  /\ vrows[r] \subseteq Stored /\ trows[r] \subseteq Stored
               /\ ToSet(chunks[r]) \subseteq vrows[r] \cup trows[r]
    BY <2>1 DEF Arrays, Sound, ChunksFound, Among, FoundRows, ToSet
  <2>3. ASSUME NEW r \in Requests PROVE Progress(r)
    BY <2>1 DEF Sound
  <2> QED
    BY <2>1, <2>2, <2>3 DEF TypeOK, FileTypes, Arrays, Progress, Codes
<1> QED
  BY <1>1, Invariance, PTL

(* ChunksWereStored: every chunk handed out was stored under its key since *)
(* the question came, none of them twice, and no more than were asked for. *)
THEOREM StoredChunks == Spec => []ChunksWereStored
<1>1. IInv => ChunksWereStored
  <2> SUFFICES ASSUME IInv, NEW r \in Requests, Searched(r)
               PROVE  /\ ToSet(chunks[r]) \subseteq seen[r]
                      /\ \A i, j \in DOMAIN chunks[r] :
                            chunks[r][i].key = chunks[r][j].key => i = j
                      /\ Len(chunks[r]) <= Min({Limit, Cand})
    BY DEF ChunksWereStored
  <2>1. Sound(r) /\ chunks[r] # <<>> /\ pc[r] = "done"
    BY DEF IInv, Searched, Sound, Progress
  <2>2. ToSet(chunks[r]) \subseteq seen[r]
    BY <2>1 DEF Sound, ReadSoundly, ChunksFound, Among, ToSet
  <2>3. Distinct(chunks[r]) /\ AsManyAs(chunks[r], FoundKeys(r), Min({Limit, Cand}))
    BY <2>1 DEF Sound, ChunksFound, Ordered, Handed
  <2> QED
    BY <2>2, <2>3 DEF Distinct, AsManyAs
<1> QED
  BY <1>1, Invariance, PTL

(* BestFirst: no chunk handed out is outranked by one after it or by one   *)
(* left out, counting both scores of a row that both statements read; with *)
(* a reranker the order is the reranker's.                                 *)
THEOREM BestComeFirst == Spec => []BestFirst
<1>1. IInv => BestFirst
  <2> SUFFICES ASSUME IInv, NEW r \in Requests, Searched(r)
               PROVE  LET n == Len(chunks[r])
                          left == (KeysOf(vrows[r]) \cup KeysOf(trows[r])) \ KeysOf(ToSet(chunks[r]))
                          score(i) == IF reranked[r] THEN RerankScore[chunks[r][i]]
                                      ELSE ScoreOf(r, chunks[r][i].key)
                      IN  /\ \A i, j \in 1 .. n : i < j => score(i) >= score(j)
                          /\ ~reranked[r] => \A k \in left : ScoreOf(r, k) <= score(n)
                          /\ left # {} => n = Min({Limit, Cand})
    BY DEF BestFirst
  <2> DEFINE c == chunks[r]
             left == (KeysOf(vrows[r]) \cup KeysOf(trows[r])) \ KeysOf(ToSet(c))
  <2>1. Sound(r) /\ Arrays /\ c # <<>> /\ pc[r] = "done"
    BY DEF IInv, Searched, Sound, Progress
  <2>2. Handed(r)
    BY <2>1 DEF Sound, Ordered
  <2>3. c \in Seq(Stored)
    BY <2>1 DEF Arrays
  <2>4. PICK n \in Nat : n = Len(c) /\ DOMAIN c = 1 .. n /\ n \in 1 .. n
    BY <2>1, <2>3
  <2>5. \A i \in 1 .. n : c[i].key \in Keys
    BY <2>3, <2>4, ScoreTypes
  <2>6. left = LeftOut(c, FoundKeys(r)) /\ left \subseteq Keys
    <3>1. KeysOf(vrows[r]) \subseteq Keys /\ KeysOf(trows[r]) \subseteq Keys
      BY <2>1, ScoreTypes DEF KeysOf, Arrays
    <3> QED
      BY <3>1 DEF LeftOut, FoundKeys
  <2>7. \A k \in Keys : Points(r)[k] = ScoreOf(r, k)
    BY DEF Points
  <2>8. AsManyAs(c, FoundKeys(r), Min({Limit, Cand}))
    BY <2>2 DEF Handed
  <2> HIDE DEF c, left
  <2>9. left # {} => n = Min({Limit, Cand})
    BY <2>4, <2>6, <2>8 DEF AsManyAs
  <2>10. CASE reranked[r]
    <3>1. ByReranker(c)
      BY <2>2, <2>10 DEF Handed, c
    <3>2. \A i, j \in 1 .. n : i < j => RerankScore[c[i]] >= RerankScore[c[j]]
      BY <2>4, <3>1 DEF ByReranker
    <3> QED
      BY <2>4, <2>9, <2>10, <3>2 DEF c, left
  <2>11. CASE ~reranked[r]
    <3>1. InOrder(c, Points(r)) /\ TheBest(c, FoundKeys(r), Points(r))
      BY <2>2, <2>11 DEF Handed, c
    <3>2. \A i, j \in 1 .. n : i < j => ScoreOf(r, c[i].key) >= ScoreOf(r, c[j].key)
      BY <2>4, <2>5, <2>7, <3>1 DEF InOrder
    <3>3. \A k \in left : ScoreOf(r, k) <= ScoreOf(r, c[n].key)
      BY <2>4, <2>5, <2>6, <2>7, <3>1 DEF TheBest
    <3> QED
      BY <2>4, <2>9, <2>11, <3>2, <3>3 DEF c, left
  <2> QED
    BY <2>10, <2>11
<1> QED
  BY <1>1, Invariance, PTL

(* AskedEnough: a question to the chat model fails only after as many      *)
(* attempts as the file said when the question came to it, and is answered *)
(* as soon as one succeeds.                                                *)
THEOREM EnoughAsked == Spec => []AskedEnough
<1>1. IInv => AskedEnough
  <2> SUFFICES ASSUME IInv, NEW r \in Requests,
                      pc[r] = "done", kind[r] = "askai", status[r] # "refused"
               PROVE  Deserved(reply[r], status[r], url, asking[r], attempt[r])
    BY DEF AskedEnough, Deserved
  <2> QED
    BY DEF IInv, Sound, Asked, Decided
<1> QED
  BY <1>1, Invariance, PTL
==============================================================================
