SPECIFICATION FairSpec
CONSTANTS
    Msgs = {1, 2}
    Users = {"alice"}
    Sender <- OneUser
    Triggers = {"t1"}
    Events = {}
    NoUser = "nobody"
    NoTrigger = "none"
    GroupChat = FALSE
    Modes = {"immediate", "after_tool"}
    MaxWaitPasses = 1
    Commands = {"skill", "clear"}
    MaxAdmitting = 2
    MaxRuns = 8
    MaxCommands = 2
    SetupTurns = FALSE
CHECK_DEADLOCK FALSE
INVARIANTS
    CoherentSession
PROPERTIES
    StaleRunIsInert
    TurnsEnd
