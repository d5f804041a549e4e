\* Every overlap is below the window size: the loop ends.
CONSTANT Inputs <- Advancing
SPECIFICATION Spec
INVARIANTS
    TypeOK
    Covered
    WellCut
