SPECIFICATION ServicesSpec
CONSTANTS
  MaxChunks = 3
  MaxResponses = 2
  MaxMutes = 1
  MaxItems = 3
  MaxCancels = 1
  Sends = {s1}
  MaxMessages = 1
  ProactiveFallback = TRUE
  MaxFragments = 2
  Messages = {m1, m2}
  MaxReceipts = 1
  a = a
  b = b
  ToolEffects <- MCToolEffects
  NumCalls = 3
  MaxConcurrency = 2
  MaxTime = 4
  MaxEdits = 1
  c1 = c1
  c2 = c2
  u = u
  QueueKeys <- MCQueueKeys
  MaxTurnsPerBatch = 2
  MaxPendingTurns = 2
  MaxTurns = 3
  MaxReloads = 2
  MaxStates = 3
INVARIANT ServicesTypeOK SendsInOrder HistoryMatchesChat ItemsKeepOrder NothingIsShownTwice BudgetCountsHeldSlots StreamShowsWhatWasSaid NeverStranded MessagesCountOnce ConflictsKeepOrder AnswerIsComplete HistoryIsWhole DeletedTurnsAreForgotten StoreIsCurrent
PROPERTY MutedChunksStayUnsent EnqueuedChunksSettle InterruptionGetsThrough InterruptedAddsNothing SilentPeersAreLeft ToolCallsAreAnswered WaitingTurnsAreTaken
CHECK_DEADLOCK FALSE
