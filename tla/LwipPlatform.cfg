CONSTANTS
  Modes = {"Half", "Full"}
  MaxFaults = 1
  PollDelay = 2
  TickRange = 6
  MaxBusy = 1
SPECIFICATION FairSpec
INVARIANTS UpMeansRunning NoTxForgotten PollsOnTime
PROPERTY LinkFollowed
CHECK_DEADLOCK FALSE
