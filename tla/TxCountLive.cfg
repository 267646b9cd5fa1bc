\* Batches of three records for two tasks: one task gets the larger share.
SPECIFICATION FairSpec
CONSTANTS
  NumRecords = 6
  BatchNum = 3
  Tasks = {k1, k2}
  Attempts = {a1, a2}
  NoAttempt = NoAttempt
  MaxCrashes = 0
PROPERTY AllRecordsCounted
