SPECIFICATION ViewSpec
CONSTANTS
  low = low high = high
  Sensors = {s1, s2}
  Values = {low, high}
  None = None Undefined = Undefined NaN = NaN
  Initial <- AllLow Opposite <- TheOther
  InFlight = 1
  MaxWrites = 0
  MaxChanges = 0
  MaxDeaths = 1
  MaxVisits = 2
  MaxClicks = 0
  MaxFaults = 1
INVARIANT EventsShownAtOwn
