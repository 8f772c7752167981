SPECIFICATION Spec
CONSTANTS
  TimeoutMs = 2
  TickFreq = 1000
  IdModulus = 3
  MaxLate = 0
INVARIANTS
  NoLostWakeup
  FailureKeepsItsError
  ErrorTellsBusState
PROPERTIES
  ImplementsSyncTransfer
