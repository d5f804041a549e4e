\* A search or a question while a row is written or the file is edited.
CONSTANTS
    Requests = {"r1"}
    Keys = {"k1", "k2", "k3"}
    Contents <- AllContents
    NoRow = NoRow
    Distance <- SomeDistance
    Rank <- SomeRank
    Reranked <- SomeScores
    Files <- SomeFiles
    Environments <- SomeEnvironments
    NoFile = NoFile
    NoService = NoService
    Limit = 2
    InitialTables <- SomeTables
    MaxEvents = 1
SPECIFICATION FairSpec
\* Requests are bounded: when all are answered the system rests.
CHECK_DEADLOCK FALSE
INVARIANTS
    TypeOK
    ChunksWereStored
    BestFirst
    AskedEnough
PROPERTY Answered
