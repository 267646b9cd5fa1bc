SPECIFICATION Spec
CONSTANTS
  Requests = {r1, r2, r3}
  Sessions = {s1, s2}
  Names = {a, b}
  Null = Null
  NoUser = NoUser
SYMMETRY Symmetry
\* When all requests are answered and all sessions expired nothing is left.
CHECK_DEADLOCK FALSE
INVARIANTS
  TypeOK
  ListMatchesSessions
  ListingComplete
