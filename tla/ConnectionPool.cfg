\* Three task threads share two connections; among their schedules are those of
\* PersistWordCount's own configuration, where one thread runs all the tasks.
SPECIFICATION Spec
CONSTANTS
  Threads = {t1, t2, t3}
  NoThread = NoThread
  PoolSize = 2
  MaxTasks = 2
INVARIANTS
  TypeOK
  ExclusiveUse
  LostOnlyByRace
  NullOnlyWhenEmpty
