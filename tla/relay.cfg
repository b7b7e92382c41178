SPECIFICATION FairSpec
CONSTANTS
  w1 = w1
  w2 = w2
  NoOwner = NoOwner
  Events <- MCEvents
  Bad <- MCBad
  Workers <- MCWorkers
  Limit = 2
  MaxFaults = 3
CHECK_DEADLOCK FALSE
INVARIANTS
  PublishedWasAcked
PROPERTIES
  SupersededNeverWrites
  EventuallySettled
