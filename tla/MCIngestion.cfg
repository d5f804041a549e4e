\* Two runs of either program over a repository that changes between them.
CONSTANTS
    Files <- ThreeFiles
    Included <- Markdown
    Shas = {1, 2}
    Contents <- SomeContents
    MaxChunks = 2
    NoFile = NoFile
    NoRow = NoRow
    ConfigFiles = {"none", "bare", "db"}
    Programs <- SomePrograms
    Limits = {0, 1}
    MaxRuns = 2
    MaxEvents = 1
    MaxLate = 1
SPECIFICATION Spec
\* Runs are bounded: after the last one the system rests.
CHECK_DEADLOCK FALSE
INVARIANTS
    TypeOK
    RowsSound
    CountIsReal
    StoredOrFailed
PROPERTIES
    OldRowsComeLate
