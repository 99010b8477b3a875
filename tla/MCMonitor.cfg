SPECIFICATION Spec
CONSTANTS
  g1 = g1
  g2 = g2
  x1 = x1
  Gi = {g1, g2}
  NoGi = noGi
  Xid = {x1}
  NoXid = noXid
  Never = never
  Unsaid = unsaid
  Frames <- AskingPlant
  Flows = {1}
  Window = 2
  ReportEvery = 2
  Allowed <- MCAllowed
  MinRequests = 2
  Enough <- MCEnough
  ResendAfter = 3
  Receivers <- TrapAndMail
  Adaptations = {FALSE}
  AdaptFor = 5
  RunFor = never
  PendingFor = 3
  SweepEvery = 1
  MaxPending = 1
  MaxBlock = 2
  Backlog = 2
  MaxPackets = 5
  LastArrival = 3
  MaxClock = 8
  MaxBack = 2
INVARIANTS
  SilenceToldInTime
  WindowStaysSmall
PROPERTY
  QuietIsTrue
