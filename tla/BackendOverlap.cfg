SPECIFICATION Spec
CONSTANTS
  low = low high = high
  Sensors = {s1}
  Values = {low, high}
  None = None
  Initial <- AllLow
  InFlight = 2
  MaxWrites = 2
  MaxChanges = 2
  MaxDeaths = 0
INVARIANT DatabaseCurrent
