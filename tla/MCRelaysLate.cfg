SPECIFICATION SteadySpec
CONSTANTS
  Gi = {g1}
  NoGi = noGi
  Xid = {x1, x2}
  NoXid = noXid
  Never = never
  Second = 2
  PendingFor = 3
  SweepEvery = 2
  MaxPending = 2
  MaxClock = 9
  MaxStep = 3
  MaxPackets = 4
CHECK_DEADLOCK FALSE
INVARIANT LateAnswersAreNotTimed
