SPECIFICATION SteadySpec
CONSTANTS
  Gi = {g1}
  NoGi = noGi
  Xid = {x1, x2}
  NoXid = noXid
  Never = never
  Second = 2
  PendingFor = 3
  SweepEvery = 2
  MaxPending = 2
  MaxClock = 9
  MaxStep = 3
  MaxPackets = 4
  Floor = 1
  Ceiling = 5
  Headroom = 2
  Fallback = 1
  NoSuggestion = noSuggestion
  MinRequests = 3
  Enough <- MCEnough
CHECK_DEADLOCK FALSE
SYMMETRY MCSymmetry
INVARIANTS
  GapFitsSpan
  PendingFresh
PROPERTIES
  AnswerTimesBounded
  SuggestionHasRoom
  SuggestionsOnlyLoosen
