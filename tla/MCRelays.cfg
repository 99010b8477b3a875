SPECIFICATION Spec
CONSTANTS
  Gi = {g1, g2}
  NoGi = noGi
  Xid = {x1, x2}
  NoXid = noXid
  Never = never
  Second = 2
  PendingFor = 3
  SweepEvery = 2
  MaxPending = 1
  MaxClock = 5
  MaxStep = 3
  MaxPackets = 4
CHECK_DEADLOCK FALSE
SYMMETRY MCSymmetry
INVARIANTS
  TypeOK
  PendingBounded
  AnswersEarned
  TimesAddUp
