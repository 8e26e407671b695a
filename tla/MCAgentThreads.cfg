SPECIFICATION FairSpec
CONSTANTS
  Kind = {"plain", "approval", "client", "spawn"}
  IterationLimit = 2
  Parallel = 2
  MaxPerMessage = 3
  MaxCalls = 3
  MaxThreads = 4
  MaxTurns = 2
  MaxFaults = 2
INVARIANTS
  ParentReady
  OneSubAgentPerCall
  PlainRunsOnce
  WaitingIsAnnounced
  MetricsCountedOnce
PROPERTIES
  KeepsConversation
  TurnEnds
CHECK_DEADLOCK FALSE
