SPECIFICATION Spec
CONSTANTS
    Msgs = {1, 2, 3}
    Users = {"alice", "bob"}
    Sender <- TwoUsers
    Triggers = {"t1"}
    Events = {"e1"}
    NoUser = "nobody"
    NoTrigger = "none"
    GroupChat = TRUE
    Modes = {"immediate", "after_tool"}
    MaxWaitPasses = 1
    Commands = {}
    MaxAdmitting = 2
    MaxRuns = 8
    MaxCommands = 0
    SetupTurns = FALSE
CHECK_DEADLOCK FALSE
INVARIANTS
    OneEntryPerMember
    QueuedWorkHasWaker
PROPERTIES
    BackgroundWaitsForChat
