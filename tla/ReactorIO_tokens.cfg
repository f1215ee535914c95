SPECIFICATION FairSpec
CONSTANTS
  l1 = l1
  s1 = s1
  o1 = o1
  o2 = o2
  Sockets <- Both
  Shared <- Listener
  Listeners <- Listener
  Ops <- TwoOps
  Timed <- OneOp
  MaxReady = 1
  MaxMoves = 1
INVARIANTS
  TypeOK
  NoLostEvent
  NoLostTimer
  NothingLost
PROPERTIES
  NeverEarly
  CallGoesOn
  TimedEnds
CHECK_DEADLOCK FALSE
