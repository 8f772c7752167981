CONSTANTS
  first = first  heir = heir  other = other
  h1 = h1  h2 = h2  can1 = can1  can2 = can2
  Cans = {first, heir, other}
  Handles = {h1, h2}
  Peripherals = {can1, can2}
  HandleOf <- MCHandleOf
  Wirings <- MCWirings
  Pair = {can1, can2}
  Host = Host
  MaxInstances = 2
  MaxCallbacks = 1
  MaxFrames = 1
SPECIFICATION Spec
INVARIANT RegistryExact
PROPERTIES StopsItsOwn ConfigFrozen DeliveredByItsBus
CHECK_DEADLOCK FALSE
