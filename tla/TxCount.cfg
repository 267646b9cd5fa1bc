\* Two batches of two records for two tasks, three attempts at each batch
\* and one crash; a third batch begins beyond the end of the source.
SPECIFICATION Spec
CONSTANTS
  NumRecords = 4
  BatchNum = 2
  Tasks = {k1, k2}
  Attempts = {a1, a2, a3}
  NoAttempt = NoAttempt
  MaxCrashes = 1
SYMMETRY Symmetry
INVARIANTS
  TypeOK
  CountsEachBatchOnce
  NothingSkipped
  BatchesTile
  WholeBatchesCommitted
PROPERTY
  ImplementsTotal
