\* Two callers race to create the schema and then to store their rows.
CONSTANTS
    c1 = c1  c2 = c2  k1 = k1  k2 = k2
    NoRow = NoRow
    Conns = {c1, c2}
    Keys = {k1, k2}
    Shas = {1, 2}
    Vectors <- Vectors4
    Dim <- Dim4
    Batches <- SomeBatches
    Fresh = {TRUE, FALSE}
SPECIFICATION FairSpec
\* The calls are bounded: when all have been made the system rests.
CHECK_DEADLOCK FALSE
INVARIANTS
    TypeOK
    SchemaBeforeRows
    EmbeddingsFit
PROPERTIES
    Refines
    Answered
