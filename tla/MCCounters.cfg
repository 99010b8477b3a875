SPECIFICATION Spec
CONSTANTS
  Kinds = {"ClientRequest", "ServerReply"}
  Flows <- MCFlows
  Window = 3
  MaxTime = 7
  MaxStep = 4
  MaxPackets = 2
INVARIANTS
  TypeOK
  OneBucketPerSecond
  FlowsAccountForWindow
PROPERTY
  WindowIsExact
