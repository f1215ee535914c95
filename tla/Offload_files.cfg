SPECIFICATION FairSpec
CONSTANTS
  f1 = f1
  f2 = f2
  n1 = n1
  None = None
  Files <- TwoFiles
  Nets <- NoOps
  num_threads = 1
  ChannelBound = 2
  MaxOther = 0
  MaxPanics = 0
PROPERTY FileCompletes
CHECK_DEADLOCK FALSE
