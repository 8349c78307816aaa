SPECIFICATION WindowSpec
CONSTANTS
  Keys = {k1}
  Plans = {"starter", "pro"}
  Capacity <- CapacityMC
  Refill <- RefillMC
  Scale = 3
  MaxTime = 6
  NoBucket = NoBucket
  LowRefill = 1
  MaxBoots = 2
INVARIANTS
  BurstBound
  DenialsAreJustified
