SPECIFICATION FairSpec
CONSTANTS
  c1 = c1
  c2 = c2
  Client = {c1, c2}
  Creator = {c1}
  Backend = {"memory", "redis"}
  PollItems = 1
  RunTTL = 2
  DoneTTL = 1
  ExecutionLimit = 1
  Threshold = 1
  MaxEvents = 3
  MaxFaults = 2
INVARIANTS
  ParkedHasSeenAll
  StreamSpansRun
PROPERTIES
  KeepsFeed
  SubscriptionsEnd
CHECK_DEADLOCK FALSE
