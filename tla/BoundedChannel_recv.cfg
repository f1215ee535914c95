SPECIFICATION FairSpec
CONSTANTS
  s1 = s1
  s2 = s2
  Senders <- TwoSenders
  First = s1
  Bound = 2
  MaxSends = 4
  MaxTryRecvs = 1
INVARIANTS
  TypeOK
  SpuriousErrorNeedsTryRecv
  NoLostWake
PROPERTY ParkedIsPolled
CHECK_DEADLOCK FALSE
