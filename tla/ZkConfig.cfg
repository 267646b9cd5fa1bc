\* Changes and removals after a quiet start.  The client waits for ever.
SPECIFICATION FairSpec
CONSTANTS
  QuietStart = TRUE
  Kinds = {"set", "remove"}
  MaxChanges = 2
  MaxFailures = 2
CHECK_DEADLOCK FALSE
INVARIANTS
  TypeOK
  FollowsCredentials
  FollowsConfig
  LapseCostsOneWatch
PROPERTIES
  CatchesUp
