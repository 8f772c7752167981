SPECIFICATION Spec
CONSTANTS
  TimeoutMs = 1
  TickFreq = 1000
  IdModulus = 3
  MaxLate = 1
INVARIANTS
  SuccessIsReal
