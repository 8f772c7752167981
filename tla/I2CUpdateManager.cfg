CONSTANTS
  quick = quick
  slow = slow
  None = None
  Devices <- MCDevices
  Period <- MCPeriod
  Phase <- MCPhase
  Conversion <- MCConversion
  MaxDevices = 2
  MaxSleep = 3
  TickRange = 16
  MaxBusy = 1
  TickFreq = 500
  MaxLag = 3
SPECIFICATION FairSpec
INVARIANTS ConversionWaited OnSchedule
PROPERTIES YieldsToTheWaiting StopEnds
CHECK_DEADLOCK FALSE
