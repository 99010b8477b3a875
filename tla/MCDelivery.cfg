SPECIFICATION DeliverySpec
CONSTANTS
  To <- MCTo
  Auth = TRUE
  NoOne = noOne
  Step = 2
  MaxPieces = 3
  Octet = 16
  Enterprise <- MCEnterprise
  Word <- MCWord
  Targets <- MCTargets
  Traps <- MCTraps
  NoTrap = noTrap
  NoDatagram = noDatagram
CHECK_DEADLOCK FALSE
INVARIANTS
  TypeOK
  DoubtOnlyAtTheEnd
  ReadsAsSaid
PROPERTIES
  SmtpIsOneSend
  SendEnds
