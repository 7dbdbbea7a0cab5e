\* Measurements with pulses and load changes at any time.
SPECIFICATION Spec
CONSTANTS
  Depth = 2
  Timeout = 1
  Settle = 1
  Sleep = 1
  Zero = Zero
INVARIANTS
  TypeOK
  StalenessIsBounded
  SelMatchesRead
  CycleIsBounded
PROPERTIES
  NoLoadShowsZero
  KeepsPublishing
