SPECIFICATION FairSpec
CONSTANTS
    Msgs = {1, 2}
    Users = {"alice"}
    Sender <- OneUser
    Triggers = {"t1"}
    Events = {"e1"}
    NoUser = "nobody"
    NoTrigger = "none"
    GroupChat = FALSE
    Modes = {"immediate", "after_tool"}
    MaxWaitPasses = 1
    Commands = {}
    MaxAdmitting = 2
    MaxRuns = 8
    MaxCommands = 0
    SetupTurns = FALSE
CHECK_DEADLOCK FALSE
PROPERTIES
    MessagesAreDealtWith
    TriggersSettle
