SPECIFICATION RadioFairSpec
CONSTANTS
  Depth = 3
  MaxArrivals = 5
  MaxSends = 3
INVARIANTS RadioTypeOK PhantomsAccounted SendsSettled HandledInOrder
PROPERTIES NothingOverlooked SendReturns
