CONSTANTS
  Slots = 3
  Overwrite = FALSE
  MaxPushes = 5
  Threads = {t1, t2}
  ArenaSize = 8
  Requests <- MCRequests
  MaxClears = 1
  Inputs <- MCInputs
  Gains = {0, 1}
  Limits = {1, 3}
  Dogs = {d1, d2, d3}
  MaxDogs = 2
  Snacks = {2}
  MaxScans = 2
  Capacity = 3
  WordSize = 16
  DequeValues = {1, 2}
  Fds = {0, 1}
  PortByte = 4
  Ports = {1, 6}
  Lengths = {0, 1, 3}
  Buffers = {0, 2}
  Mailbox = 2
  MaxArrivals = 2
  MaxAddress = 1
  Modes = {"10H", "10F", "100H", "100F"}
  Boards <- SetupBoards
  LinkConfigs <- SetupConfigs
  Bytes = {"A", "B", "C", "x", "y"}
  Header <- UartHeader
  Data = {"x", "y"}
  FrameLen = 5
  MaxNoise = 2
  StableMs = 2
  TickModulus = 8
  CountModulus = 4
  MaxGap = 2
  Variants <- CrcVariants
  Messages <- CrcMessages
SPECIFICATION PartsSpec
INVARIANTS
  Delivered
  BlocksDisjoint
  DecodesWhole
  Resyncs
  AsConfigured
  EveryDogEatsOnce
  WindowKept
  CrcRight
  OutputBounded
  SocketTruthful
PROPERTIES
  Debounced
  Settles
CHECK_DEADLOCK FALSE
