SPECIFICATION FairSpec
CONSTANTS
  s1 = s1
  s2 = s2
  Senders <- OneSender
  First = s1
  Bound = 1
  MaxSends = 1
  MaxTryRecvs = 0
PROPERTY MessageWakesReceiver
CHECK_DEADLOCK FALSE
