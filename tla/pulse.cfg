\* Pulses of one clock to far beyond the counter, at any distance.
SPECIFICATION Spec
CONSTANTS
  MaxX = 15
  Slowest = 11
  MinLow = 6
  MaxHigh = 80
  Zero = Zero
INVARIANTS
  TypeOK
  ReadsThePulse
PROPERTIES
  OncePerPulse
