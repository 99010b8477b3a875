SPECIFICATION Spec
CONSTANTS
  g1 = g1
  g2 = g2
  x1 = x1
  Gi = {g1}
  NoGi = noGi
  Xid = {x1}
  NoXid = noXid
  Never = never
  Unsaid = unsaid
  Frames <- BusyPlant
  Flows = {1, 2, 3, 4}
  Window = 2
  ReportEvery = 2
  Allowed <- MCPatient
  MinRequests = 2
  Enough <- MCHalf
  ResendAfter = 3
  Receivers <- TrapAndMail
  Adaptations = {TRUE, FALSE}
  AdaptFor = 5
  RunFor = never
  PendingFor = 3
  SweepEvery = 1
  MaxPending = 1
  MaxBlock = 1
  Backlog = 2
  MaxPackets = 3
  LastArrival = 3
  MaxClock = 12
  MaxBack = 1
CHECK_DEADLOCK FALSE
INVARIANTS
  ReadersAreCurrent
  EveryReceiverTried
  CountsAgree
PROPERTIES
  SilenceIsTold
  RunEnds
