SPECIFICATION FairSpec
CONSTANTS
  MaxRequests = 2
  MaxThreads = 2
  MaxDiffs = 1
  Policies = TRUE
  SlowEntries = TRUE
INVARIANTS BooksAgree CardsOfBoundThread CardShowsDiff DrainingHasClear
PROPERTIES GrantsForBoundThread QueueServed
CHECK_DEADLOCK FALSE
