\* Four nodes, every graph of at most two neighbours per node, every target.
SPECIFICATION FairSpec
CONSTANTS
  Names <- FourNames
  StartNode = 1
  Graphs <- InputFiles
  MaxValue = 1000
  MaxRounds = 4
\* With MaxRounds jobs run, or the target found, nothing is left to do.
CHECK_DEADLOCK FALSE
INVARIANTS
  TypeOK
  DistancesShortest
  PathsReal
  EndsAtDistance
PROPERTY
  LoopEnds
