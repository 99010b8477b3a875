SPECIFICATION Spec
CONSTANTS
  Instances = {a, b}
  Blank = blank
  NoPath = noPath
  Commands <- MCCommands
  Disks <- MCDisks
  Host = {"eth0", "lo"}
  LogsStates = {"absent", "good", "unwritable", "pidless"}
  Heartbeat = 2
  MaxClock = 4
  NoConfig = noConfig
  NoFile = noFile
  Empty = empty
  NoBeat = noBeat
CHECK_DEADLOCK FALSE
INVARIANTS
  TypeOK
  OnlyTheKilledStayNamed
  RunnerIsNamed
  InabilityIsTold
  SomebodyCanRead
  MailIsWhole
PROPERTY
  FreshMeansAlive
