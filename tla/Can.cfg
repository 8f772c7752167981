SPECIFICATION CanSpec
CONSTANTS
  Plans <- MCPlans
  Handles = {can1, can2, can3}
  can1 = can1
  can2 = can2
  can3 = can3
  CanNum = 2
  MaxCallbacks = 2
  Slots = 2
  QueueSize = 2
  Uses <- MCUses
INVARIANTS
  Faithful
  HalStaysInside
  RoutedAsDocumented
  NothingStranded
  SubmissionOrder
  AcceptedIsKept
  DispatchedToAll
  BankMeansTheSame
PROPERTY QueueDrains
CHECK_DEADLOCK FALSE
