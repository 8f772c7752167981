SPECIFICATION FairSpec
CONSTANTS
  TimeoutMs = 2
  TickFreq = 1000
  IdModulus = 3
  MaxLate = 1
PROPERTIES
  CallReturns
