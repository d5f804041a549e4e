----------------------------- MODULE MCAnswering -----------------------------
(* An instance of Answering for TLC. *)
EXTENDS Answering

(* "near" is close to the question but says it in other words, "word" the  *)
(* opposite, and "both" is both.                                           *)
AllContents == {"near", "word", "both"}
SomeDistance == [c \in AllContents |-> CASE c = "near" -> 2 [] c = "word" -> -1 [] c = "both" -> 1]
SomeRank == [c \in AllContents |-> CASE c = "near" -> 0 [] c = "word" -> 2 [] c = "both" -> 1]
SomeScores == [c \in AllContents |-> CASE c = "near" -> 1 [] c = "word" -> 2 [] c = "both" -> 2]

File(p, m, e, d, rr, a, c, g, one, n) ==
    [provider |-> p, models |-> m, endpoint |-> e, db |-> d, reranker |-> rr, alpha |-> a,
     candidates |-> c, generator |-> g, single |-> one, retries |-> n]

(* Each embedder; alpha out of range, for text only (also when unset) and  *)
(* for vectors only; a database by its url or by fields, too few of them in *)
(* one; each kind of generator.                                            *)
SomeFiles ==
    {File("chutes", <<>>, "url", {"pgurl"}, TRUE, -1, 0, "url", FALSE, 0),
     File("OpenAI", <<"m">>, "url", {"pg_host", "pg_user", "pg_db_name"}, FALSE, 0, 2, "", FALSE, 5),
     File("ollama", <<"m">>, "url", {"pgurl"}, FALSE, 2, 2, "garbled", FALSE, 3),
     File("", <<"">>, "url", {"pgurl"}, FALSE, -1, 2, "url", TRUE, 1),
     File("chutes", <<>>, "url", {"pg_host", "pg_user"}, TRUE, 1, 2, "url", FALSE, 1),
     File("OpenAI", <<"m">>, "/", {"pgurl"}, TRUE, 1, 2, "url", FALSE, 2)}
SomeEnvironments ==
    {<<"", [provider |-> "OpenAI", endpoint |-> "url"]>>,
     <<"garbled", [provider |-> "chutes", endpoint |-> "url"]>>}

Table(a, b, c) == [k \in {"k1", "k2", "k3"} |-> CASE k = "k1" -> a [] k = "k2" -> b [] k = "k3" -> c]
SomeTables ==
    {Table("near", "word", "both"), Table("word", "word", NoRow), Table("both", "near", "near")}
=============================================================================
