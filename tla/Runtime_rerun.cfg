SPECIFICATION RuntimeSpec
CONSTANTS
  t1 = t1
  t2 = t2
  e1 = e1
  e2 = e2
  Main = Main
  None = None
  Tasks <- TwoTasks
  Executors <- OneExecutor
  Threads <- OneThread
  MAX_QUEUED_TASKS = 2
  WAITING_TASKS_CAP = 1
  MaxThreadCalls = 2
  MaxPollCalls = 1
  MaxPanics = 4
  MaxTaskPanics = 1
INVARIANT RunIsTaken
CHECK_DEADLOCK FALSE
