SPECIFICATION Spec
CONSTANTS
  t1 = t1
  t2 = t2
  e1 = e1
  e2 = e2
  m1 = m1
  m2 = m2
  None = None
  Tasks <- TwoTasks
  Executors <- OneExecutor
  Threads <- TwoThreads
  MAX_QUEUED_TASKS = 2
  WAITING_TASKS_CAP = 2
  MaxThreadCalls = 4
  MaxPollCalls = 2
  MaxPanics = 1
SYMMETRY Symmetry
INVARIANT ExecutorsSurvive
CHECK_DEADLOCK FALSE
