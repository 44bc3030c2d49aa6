SPECIFICATION Spec
CONSTANTS
    Msgs = {1, 2}
    Users = {"alice", "bob"}
    Sender <- TwoUsers
    Triggers = {}
    Events = {}
    NoUser = "nobody"
    NoTrigger = "none"
    GroupChat = TRUE
    Modes = {"immediate", "after_tool"}
    MaxWaitPasses = 0
    Commands = {}
    MaxAdmitting = 2
    MaxRuns = 8
    MaxCommands = 0
    SetupTurns = FALSE
CHECK_DEADLOCK FALSE
INVARIANTS
    OneThreadPerBatch
