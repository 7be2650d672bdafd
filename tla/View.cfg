SPECIFICATION ViewFairSpec
CONSTANTS
  low = low high = high
  Sensors = {s1}
  Values = {low, high}
  None = None Undefined = Undefined NaN = NaN
  Initial <- AllLow Opposite <- TheOther
  InFlight = 1
  MaxWrites = 0
  MaxChanges = 1
  MaxDeaths = 1
  MaxVisits = 2
  MaxClicks = 1
  MaxFaults = 1
INVARIANTS ViewTypeOK SettledShown ConnectionTold DatabaseCurrent
PROPERTIES ServesAsAlone ViewCatchesUp DatabaseCatchesUp
