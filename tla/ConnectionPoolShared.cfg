\* Two task threads: the unsynchronized returnConnection loses connections.
SPECIFICATION Spec
CONSTANTS
  Threads = {t1, t2}
  NoThread = NoThread
  PoolSize = 2
  MaxTasks = 1
INVARIANT
  PoolComplete
