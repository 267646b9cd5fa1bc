\* Both packages: with and without CountBolt's acknowledgement.
SPECIFICATION FairSpec
CONSTANTS
  m1 = m1
  m2 = m2
  Messages <- TwoMessages
  Sentence <- SharedWord
  MaxRetry = 0
\* The sentences are few: in the end nothing is left to do.
CHECK_DEADLOCK FALSE
INVARIANTS
  TypeOK
  AckedMeansCounted
  ReplayHasValues
  CountsBounded
PROPERTIES
  NotDroppedEarly
  EveryTupleLeavesCache
