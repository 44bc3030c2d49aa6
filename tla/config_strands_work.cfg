SPECIFICATION Spec
CONSTANTS
    Msgs = {1, 2}
    Users = {"alice"}
    Sender <- OneUser
    Triggers = {"t1"}
    Events = {}
    NoUser = "nobody"
    NoTrigger = "none"
    GroupChat = FALSE
    Modes = {"immediate", "after_tool"}
    MaxWaitPasses = 1
    Commands = {"skill"}
    MaxAdmitting = 1
    MaxRuns = 8
    MaxCommands = 1
    SetupTurns = FALSE
CHECK_DEADLOCK FALSE
INVARIANTS
    QueuedWorkHasWaker
