SPECIFICATION Spec
CONSTANTS
  Never = never
  MinRequests = 3
  Enough <- MCEnough
  ResendAfter = 2
  Unsaid = unsaid
  MaxNow = 5
INVARIANTS
  TypeOK
  DecisionIsCurrent
  JudgementIsMonotone
PROPERTIES
  RepeatsAreSpaced
  ReaderIsTold
