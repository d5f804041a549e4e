---------------------------- MODULE ServerConfig ----------------------------
(***************************************************************************)
(* What the requests of rag-server read of its configuration, by two ways: *)
(* the RAG service through LoadServer and ToConfig (internal/rag/config),  *)
(* the questions to the chat model through loadConfig (api/askai.go).  The *)
(* two parse the same file on their own; DATABASE_URL, which main.go puts  *)
(* into a third reading of it, is seen by neither.                         *)
(*                                                                         *)
(* A file is a record of the settings in question: provider, models and    *)
(* endpoint of models.embedder; db, the fields of global.vectordb that are *)
(* filled in; reranker, whether there is an endpoint; alpha, candidates;   *)
(* generator, the endpoint of models.generator; single, whether the models *)
(* of the generator are one string; retries of api.askai.                  *)
(***************************************************************************)
EXTENDS Integers, Sequences, FiniteSetsExt

CONSTANT NoFile   \* the file is missing, or is not YAML of the right types

(* VectorDB.DSN: a url, or else the three fields there is no default for.  *)
HasDSN(db) == "pgurl" \in db \/ {"pg_host", "pg_user", "pg_db_name"} \subseteq db

(* ResolveEmbedding: the first model, the endpoint without trailing "/".   *)
ResolveEmbedding(c) ==
    [provider |-> c.provider,
     model    |-> IF c.models = <<>> THEN "" ELSE Head(c.models),
     endpoint |-> IF c.endpoint = "/" THEN "" ELSE c.endpoint]

(* LoadServer, then ToConfig: what a search needs, with the embedder as it *)
(* was resolved.  A single string is a list of models to this reader.      *)
LoadServer(file) ==
    [embedding |-> ResolveEmbedding(file), db |-> file.db, reranker |-> file.reranker,
     alpha |-> file.alpha, candidates |-> file.candidates]
ToConfig(rt) ==
    [provider   |-> rt.embedding.provider,
     models     |-> IF rt.embedding.model = "" THEN <<>> ELSE <<rt.embedding.model>>,
     endpoint   |-> rt.embedding.endpoint,
     db         |-> rt.db,
     reranker   |-> rt.reranker,
     alpha      |-> rt.alpha,
     candidates |-> rt.candidates]

(* The embedder that Query, IngestRepo and rag-cli choose.                 *)
Embedder(e) ==
    IF e.provider \in {"ollama", "chutes"} THEN e.provider
    ELSE IF e.model # "" THEN "openai" ELSE "bge"

(* loadConfig: CHUTES_API_URL comes before the file; a file that cannot be *)
(* read, or names a single model, counts for nothing.  No retries are 3,   *)
(* and 3 is the most.                                                      *)
LoadConfig(file, url) ==
    LET read == IF file = NoFile THEN FALSE ELSE ~file.single
        n    == IF read THEN file.retries ELSE 0
    IN  [endpoint |-> IF url = "" /\ read THEN file.generator ELSE url,
         retries  |-> IF n > 0 THEN Min({3, n}) ELSE 3]

(* server.New, before the routes: the generator of server/config/          *)
(* server.yaml, when it is of chutes, becomes CHUTES_API_URL.              *)
SetEnvironment(url, legacy) ==
    IF legacy.provider = "chutes" /\ legacy.endpoint # "" THEN legacy.endpoint ELSE url
=============================================================================
