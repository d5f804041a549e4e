CONSTANTS
    Pieces <- SomePieces
    Documents <- SomeDocuments
    Configs <- SomeConfigs
    Files <- SomeFiles
    NoFile = NoFile
SPECIFICATION MDSpec
INVARIANTS
    TypeOK
    Counted
    NothingDropped
    MatchesReference
    AppendKeepsKeys
PROPERTIES
    GetsOn
    Terminates
