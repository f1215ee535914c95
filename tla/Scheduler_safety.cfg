SPECIFICATION Spec
CONSTANTS
  t1 = t1
  t2 = t2
  e1 = e1
  e2 = e2
  m1 = m1
  m2 = m2
  None = None
  Tasks <- TwoTasks
  Executors <- TwoExecutors
  Threads <- TwoThreads
  MAX_QUEUED_TASKS = 2
  WAITING_TASKS_CAP = 2
  MaxThreadCalls = 3
  MaxPollCalls = 3
  MaxPanics = 1
SYMMETRY Symmetry
INVARIANTS
  TypeOK
  ExecutorAccounted
  SendFindsRoom
  PollExclusive
  NoStrandedTask
PROPERTIES
  AbortDrains
  RegistrationKept
CHECK_DEADLOCK FALSE
