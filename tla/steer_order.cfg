SPECIFICATION Spec
CONSTANTS
    Msgs = {1, 2, 3}
    Users = {"alice"}
    Sender <- OneUser
    Triggers = {"t1"}
    Events = {"e1"}
    NoUser = "nobody"
    NoTrigger = "none"
    GroupChat = FALSE
    Modes = {"after_tool"}
    MaxWaitPasses = 0
    Commands = {}
    MaxAdmitting = 2
    MaxRuns = 8
    MaxCommands = 0
    SetupTurns = FALSE
CHECK_DEADLOCK FALSE
INVARIANTS
    ArrivalOrder
    MutedExactlyForSteer
