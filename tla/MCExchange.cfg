SPECIFICATION Spec
CONSTANTS
  m1 = m1
  m2 = m2
  g1 = g1
  Modems = {m1, m2}
  Way <- MCWay
  Interface <- MCInterface
  Patient = {m1}
  Movers = {m2}
  Wrappings <- MCWrappings
  Gi = {g1}
  NoGi = noGi
  NoXid = noXid
  Never = never
  Empty = empty
  Unread = unread
  MaxClock = 3
  MaxAsks = 2
CHECK_DEADLOCK FALSE
INVARIANTS
  CountsAreTrue
  AnswerTimesAreTrue
