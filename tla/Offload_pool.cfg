SPECIFICATION FairSpec
CONSTANTS
  f1 = f1
  f2 = f2
  n1 = n1
  None = None
  Files <- OneFile
  Nets <- OneNet
  num_threads = 2
  ChannelBound = 1
  MaxOther = 2
  MaxPanics = 1
INVARIANTS
  TypeOK
  ClosureOnce
  NetNoLostWake
  TagServed
PROPERTY NetCompletes
CHECK_DEADLOCK FALSE
