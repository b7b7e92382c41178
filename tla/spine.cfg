SPECIFICATION FairSpec
CONSTANTS
  w1 = w1
  NoOwner = NoOwner
  NoMsg = NoMsg
  Events <- MCEvents
  Workers <- MCWorkers
  Stock = 5
  Limit = 2
  MaxForeign = 1
  MaxFaults = 1
CHECK_DEADLOCK FALSE
INVARIANTS
  PublishedNotLost
  CommittedIsDecided
  AppliedIsPrefix
PROPERTIES
  EventuallyProjected
