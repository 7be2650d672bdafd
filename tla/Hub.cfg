SPECIFICATION FairSpec
CONSTANTS
  NPorts = 3
  PerPacket = 2
  Broadcast = Broadcast
  None = None
  RediscoverAfter = 4
  DiscoverEvery = 2
  ReadEvery = 1
  KeepaliveEvery = 3
  Gateways = {g1, g2}
INVARIANTS TypeOK Addressed ReportedInTime AnswersCurrent
PROPERTIES NoSilentGateway KeepsCalling LastCommandAnswered
