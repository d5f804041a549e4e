---------------------------- MODULE DocumentRows ----------------------------
(***************************************************************************)
(* Rows of the documents table, and what applying a batch of them to a     *)
(* table comes to.                                                         *)
(***************************************************************************)
EXTENDS Integers, Sequences, FiniteSetsExt

CONSTANTS Conns,     \* one per call of Upsert: every call opens a connection
          Keys,      \* doc_key, that is repo, path and chunk id
          Shas,      \* content hashes, standing for the contents
          Vectors,   \* embeddings
          Batches,   \* rows a caller may send together
          NoRow      \* a key that is not in the table

Rows == [key : Keys, sha : Shas, vec : Vectors]
Stored == [sha : Shas, vec : Vectors]
Tables == [Keys -> Stored \cup {NoRow}]

ASSUME DocumentAssumption ==
    /\ Batches \subseteq Seq(Rows)
    /\ NoRow \notin Stored

Content(row) == [sha |-> row.sha, vec |-> row.vec]

(* The rows of a batch's first n that carry key k. *)
KeyRows(b, n, k) == {i \in 1 .. n : b[i].key = k}

(* Whether row i changes the table when b is applied to t row by row: its  *)
(* hash differs from that of the row with the same key before it, in the   *)
(* batch or else in the table.                                             *)
Changes(t, b, i) ==
    LET k == b[i].key
        earlier == KeyRows(b, i - 1, k)
    IN  IF earlier = {} THEN t[k] = NoRow \/ t[k].sha # b[i].sha
        ELSE b[Max(earlier)].sha # b[i].sha

Effective(t, b, n, k) == {i \in KeyRows(b, n, k) : Changes(t, b, i)}

(* The table after the first n rows: each key holds the row that last      *)
(* changed it.                                                             *)
Applied(t, b, n) ==
    [k \in Keys |-> IF Effective(t, b, n, k) = {} THEN t[k]
                    ELSE Content(b[Max(Effective(t, b, n, k))])]

(* A bug: rows are counted that the table had already. *)
ChangeCount_All(t, b, n) == n
ChangeCount(t, b, n) == Cardinality({i \in 1 .. n : Changes(t, b, i)})

NoReply == [ok |-> FALSE, rows |-> -1]
Failure == [ok |-> FALSE, rows |-> 0]
Success(n) == [ok |-> TRUE, rows |-> n]
=============================================================================
