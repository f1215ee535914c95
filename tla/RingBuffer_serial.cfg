SPECIFICATION SerialSpec
CONSTANTS
  p1 = p1
  c1 = c1
  v1 = v1
  v2 = v2
  v3 = v3
  Uninit = Uninit
  Producers <- TwoThreads
  Consumers <- TwoThreads
  Values <- ThreeValues
  Cap = 3
  USIZE = 16
INVARIANTS
  TypeOK
  NoUninitRead
  NoOverwrite
PROPERTY IsFifo
