\* Two names, a write and a crash
SPECIFICATION Spec
CONSTANTS
  a = a
  b = b
  Names <- TwoNames
  None = None
  MaxWrites = 1
  MaxCrashes = 1
  MaxFailures = 0
INVARIANTS
  SwapSurvivesCrash
