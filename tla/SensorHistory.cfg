CONSTANTS
  r1 = r1
  r2 = r2
  bad = bad
  Readings <- MCReadings
  Plottable <- MCPlottable
  MaxClock = 9
SPECIFICATION Spec
INVARIANTS TypeOK NoIndexTrap Aligned SavedDraws
