SPECIFICATION ExecSpec
CONSTANTS
    MCJobs = {"destroy", "provision"}
    Jobs = {"destroy", "provision"}
    Owners = {b1, b2}
    Gens = {g1, g2}
    Windows = {}
    Type <- MCType
    Targets <- MCTargets
    TargetID <- MCTargetID
    NodeOf <- MCNodeOf
    Marked <- MCMarked
    Managed <- MCManaged
    Steady = {b2}
    Cancels = {"provision"}
    Abandons = {"provision"}
    Commanding = {"provision"}
    NoGen = NoGen
    NoOwner = NoOwner
    NoLease = NoLease
    NoName = ""
    TTL = 2
    Grace = 1
    MaxLag = 0
    MaxSkew = 0
CONSTRAINT OneJob
SYMMETRY GenSymmetry
CHECK_DEADLOCK FALSE
INVARIANTS
    OnlyOwnerWritesRunningRow
PROPERTIES
    LiveExecutionKeepsRow
    SettledStaysSettled
