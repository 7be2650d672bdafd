SPECIFICATION Spec
CONSTANTS
  h1 = h1 c1 = c1 c2 = c2
  NPorts = 1
  PerPacket = 2
  Broadcast = Broadcast
  None = None
  RediscoverAfter = 2
  DiscoverEvery = 1
  ReadEvery = 1
  KeepaliveEvery = 1
  Hubs = {h1}
  Gateway = g1
  Commands = {c1, c2}
  CommandFor <- SameRelay
  QueueCap = 2
  FifoDepth = 2
  MaxStray = 0
  MaxFaults = 0
INVARIANT SettledExecuted
