SPECIFICATION Spec
CONSTANTS
  h1 = h1  s1 = s1 c1 = c1 c2 = c2
  Hubs = {h1}
  Sensors = {s1}
  Commands = {c1, c2}
  SensorOf <- SensorOfSame
  NoSensor = NoSensor
  None = None
  QueueCap = 2
  MaxStray = 1
  Paced = FALSE
INVARIANTS TypeOK NoCommandLost HeldOnce LockDiscipline
PROPERTIES PassSeesStableTasks LedgerSpec
CHECK_DEADLOCK FALSE
