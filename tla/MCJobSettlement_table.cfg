SPECIFICATION FairSpec
CONSTANTS
    Jobs = {"provision", "deploy", "destroy"}
    Kind <- MCKind
    Lossy = TRUE
    Mortal = TRUE
CHECK_DEADLOCK FALSE
INVARIANTS
    TypeOK
    StatusMatchesRow
    ObservedIsDurable
PROPERTY
    FinishedJobSettles
