SPECIFICATION Spec
CONSTANTS
    Jobs <- MCJobs
    Owners = {o1}
    Gens = {g1}
    Windows <- MCWindows
    Type <- MCType
    Targets <- MCTargets
    NodeOf <- MCNodeOf
    Marked <- MCMarked
    NoGen = NoGen
    NoOwner = NoOwner
    NoLease = NoLease
    NoName = ""
    TTL = 1
    Grace = 1
    MaxLag = 0
    MaxSkew = 0
INVARIANTS
    TypeOK
    OneExecutionPerTarget
    UnresolvedMoveFences
    LeaseExactlyWhileRunning
    WindowExcludesExecution
PROPERTIES
    SettledRowRestartsOnlyToRecover
    ImplementsFence
