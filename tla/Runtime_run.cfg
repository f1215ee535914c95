SPECIFICATION RuntimeFairSpec
CONSTANTS
  t1 = t1
  t2 = t2
  e1 = e1
  e2 = e2
  Main = Main
  None = None
  Tasks <- TwoTasks
  Executors <- TwoExecutors
  Threads <- OneThread
  MAX_QUEUED_TASKS = 2
  WAITING_TASKS_CAP = 1
  MaxThreadCalls = 2
  MaxPollCalls = 2
  MaxPanics = 4
  MaxTaskPanics = 2
INVARIANTS
  RuntimeTypeOK
  NoticeAccounted
  FailedRunIsOver
PROPERTIES
  EndlessWaitExcused
  RegisteredIsTaken
CHECK_DEADLOCK FALSE
