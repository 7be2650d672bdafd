SPECIFICATION FairSpec
CONSTANTS
  h1 = h1  s1 = s1 c1 = c1 c2 = c2
  Hubs = {h1}
  Sensors = {s1}
  Commands = {c1, c2}
  SensorOf <- SensorOfSame
  NoSensor = NoSensor
  None = None
  QueueCap = 3
  MaxStray = 1
  Paced = TRUE
PROPERTIES CommandTransmitted Retransmitted RegistrationSent
