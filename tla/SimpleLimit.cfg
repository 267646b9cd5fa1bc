\* Twice as many requests as tokens: the count falls below zero.
SPECIFICATION FairSpec
CONSTANTS
  Threads = {t1, t2, t3, t4}
  Limit = 2
PROPERTIES
  EveryoneAnswered
  ImplementsGate
