\* Saves that overlap on the same cells at the same version, and requests of
\* all kinds one after the other.
CONSTANTS
    Savers = {"s1", "s2", "s3"}
    Modules <- TwoModules
    Requests <- Clients
    NotJSON = NotJSON
    InitialTables <- Tables
SPECIFICATION FairSpec
\* Every saver sends one request; when all are answered the system rests.
CHECK_DEADLOCK FALSE
INVARIANTS
    TypeOK
    SavesAreWhole
PROPERTIES
    Refines
    ReplacesWhatItSaw
    Answered
