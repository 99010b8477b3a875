SPECIFICATION Spec
CONSTANTS
  g1 = g1
  g2 = g2
  x1 = x1
  Gi = {g1}
  NoGi = noGi
  Xid = {x1}
  NoXid = noXid
  Never = never
  Unsaid = unsaid
  Frames <- AnsweredPlant
  Flows = {1, 2}
  Window = 2
  ReportEvery = 2
  Allowed <- MCAllowed
  MinRequests = 2
  Enough <- MCEnough
  ResendAfter = 3
  Receivers <- MailOnly
  Adaptations = {FALSE}
  AdaptFor = 5
  RunFor = never
  PendingFor = 3
  SweepEvery = 1
  MaxPending = 1
  MaxBlock = 0
  Backlog = 2
  MaxPackets = 8
  LastArrival = 9
  MaxClock = 12
  MaxBack = 0
PROPERTY
  OutageInWindowIsJudged
