SPECIFICATION ExecSpec
CONSTANTS
    MCJobs = {"deploy"}
    Jobs = {"deploy"}
    Owners = {b1, b2}
    Gens = {g1, g2}
    Windows = {}
    Type <- MCType
    Targets <- MCTargets
    TargetID <- MCTargetID
    NodeOf <- MCNodeOf
    Marked <- MCMarked
    Managed <- MCManaged
    Steady = {b2}
    Cancels = {}
    Abandons = {}
    Commanding = {}
    NoGen = NoGen
    NoOwner = NoOwner
    NoLease = NoLease
    NoName = ""
    TTL = 1
    Grace = 1
    MaxLag = 0
    MaxSkew = 0
SYMMETRY GenSymmetry
CHECK_DEADLOCK FALSE
INVARIANTS
    ExecTypeOK
    OnlyOwnerWritesRunningRow
    AckedWaitIsDurable
PROPERTIES
    LiveExecutionKeepsRow
    SettledStaysSettled
