---------------------------- MODULE MCIngestion ----------------------------
(* An instance of Ingestion for TLC. *)
EXTENDS Ingestion

(* Files without chunks, with one and with two, which can grow, shrink and *)
(* change in either place.                                                 *)
SomeContents == {<<>>, <<1>>, <<2, 1>>}
ThreeFiles == <<"a.md", "b.png", "c.md">>
Markdown == {"a.md", "c.md"}

(* Each program, each kind of embedder, and a server that finds what it     *)
(* needs, nothing, or no database.                                          *)
SomePrograms ==
    {<<"ingest", "batch", "none">>, <<"rag-cli", "batch", "db">>,
     <<"rag-cli", "ollama", "bare">>, <<"rag-cli", "bge", "none">>}
=============================================================================
