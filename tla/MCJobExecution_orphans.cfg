SPECIFICATION FairSpec
CONSTANTS
    MCJobs = {"deploy"}
    Jobs = {"deploy"}
    Owners = {b1, b2}
    Gens = {g1}
    Windows = {}
    Type <- MCType
    Targets <- MCTargets
    TargetID <- MCTargetID
    NodeOf <- MCNodeOf
    Marked <- MCMarked
    Managed <- MCManaged
    Steady = {b2}
    Cancels = {}
    Abandons = {}
    Commanding = {}
    NoGen = NoGen
    NoOwner = NoOwner
    NoLease = NoLease
    NoName = ""
    TTL = 1
    Grace = 1
    MaxLag = 0
    MaxSkew = 0
CHECK_DEADLOCK FALSE
PROPERTIES
    OrphansReleased
    ZombieDetached
