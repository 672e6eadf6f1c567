SPECIFICATION FairSpec
CONSTANTS
    Runners = {r1, r2}
    Steady = {r1}
    Actions = {"reboot", "os_update"}
    Flaky = TRUE
    Execution = 1
    Horizon = 1
    Extension = 1
    Grace = 1
    Queueing = 1
    Return = 1
    MaxApply = 3
CHECK_DEADLOCK FALSE
INVARIANTS
    TypeOK
    OneSender
    CompletedMeansDone
PROPERTIES
    SettledForGood
    NodeReleased
