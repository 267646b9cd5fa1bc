\* A change may come while the client starts.  The client waits for ever.
SPECIFICATION Spec
CONSTANTS
  QuietStart = FALSE
  Kinds = {"set"}
  MaxChanges = 1
  MaxFailures = 0
CHECK_DEADLOCK FALSE
INVARIANTS
  FollowsCredentials
