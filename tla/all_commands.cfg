SPECIFICATION Spec
CONSTANTS
    Msgs = {1, 2}
    Users = {"alice"}
    Sender <- OneUser
    Triggers = {}
    Events = {}
    NoUser = "nobody"
    NoTrigger = "none"
    GroupChat = FALSE
    Modes = {"immediate", "after_tool"}
    MaxWaitPasses = 1
    Commands = {"stop", "config", "reset", "confirm", "debug"}
    MaxAdmitting = 1
    MaxRuns = 8
    MaxCommands = 3
    SetupTurns = TRUE
CHECK_DEADLOCK FALSE
INVARIANTS
    TypeOK
    MessageConservation
