\* Measurements are left in the FIFO when SEL changes.
SPECIFICATION Safety
CONSTANTS
  Depth = 2
  Timeout = 2
  Settle = 1
  Sleep = 1
  Zero = Zero
INVARIANTS
  ReadingsInTheirMode
