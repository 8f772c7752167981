CONSTANTS
  quick = quick
  slow = slow
  None = None
  Devices <- MCDevices
  Period <- MCPeriod
  Phase <- MCPhase
  Conversion <- MCConversion
  MaxDevices = 2
  MaxSleep = 3
  TickRange = 32
  MaxBusy = 4
  TickFreq = 1000
  MaxLag = 8
SPECIFICATION Spec
PROPERTY NotSqueezedOut
CHECK_DEADLOCK FALSE
