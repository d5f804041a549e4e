\* Two saves with the same version overlap.
CONSTANTS
    Savers = {"s1", "s2"}
    Modules <- TwoModules
    Requests <- Overlapping
    NotJSON = NotJSON
    InitialTables <- Tables
SPECIFICATION Spec
\* Every saver sends one request; when all are answered the system rests.
CHECK_DEADLOCK FALSE
PROPERTY ReplacesMatrix
