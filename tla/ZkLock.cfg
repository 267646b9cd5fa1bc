\* getLock called as Main calls it, by three processes on two hosts.
\* Processes that are down stay down once the sessions are used up.
SPECIFICATION Spec
CONSTANTS
  p1 = p1
  p2 = p2
  p3 = p3
  Procs <- ThreeProcs
  Ip <- SharedHost
  IpArg <- MainArgument
  NoNode = NoNode
  MaxSessions = 4
  MaxVersion = 1
CHECK_DEADLOCK FALSE
INVARIANTS
  TypeOK
  OneLiveHolder
  DataNamesOwner
PROPERTY
  OnlyExpiryReleases
