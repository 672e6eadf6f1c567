SPECIFICATION ExecSpec
CONSTANTS
    MCJobs = {"deploy", "landing", "move"}
    Jobs = {"deploy", "landing", "move"}
    Owners = {b1}
    Gens = {g1, g2}
    Windows = {}
    Type <- MCType
    Targets <- MCTargets
    TargetID <- MCTargetID
    NodeOf <- MCNodeOf
    Marked <- MCMarked
    Managed <- MCManaged
    Steady = {b1}
    Cancels = {}
    Abandons = {}
    Commanding = {}
    NoGen = NoGen
    NoOwner = NoOwner
    NoLease = NoLease
    NoName = ""
    TTL = 1
    Grace = 1
    MaxLag = 0
    MaxSkew = 0
CONSTRAINT OneContention
SYMMETRY GenSymmetry
CHECK_DEADLOCK FALSE
INVARIANTS
    OneHandlerPerStack
PROPERTIES
    LiveExecutionKeepsRow
