-------------------------------- MODULE MCParts --------------------------------
(***************************************************************************)
(* The parts of the library that meet nobody but their caller, their       *)
(* interrupt or their chip, each on its own small instance.  A behaviour   *)
(* is a behaviour of one part: part says of which one, and the others      *)
(* stay as they are.                                                       *)
(***************************************************************************)
EXTENDS RingBufferShared, StaticArena, Controllers, Watchdog, Deque,
  UdpSocket, DP83822Setup, UartRxSync, Button, Crc

VARIABLE part

-----------------------------------------------------------------------------
MCRequests == {<<1, 1>>, <<2, 2>>, <<3, 4>>}
MCInputs == -1 .. 1

(* Bytes A, B and C; a payload byte is never a byte of the header.         *)
UartHeader == <<"A", "B", "C">>

(* One, two or no DP83822 at two addresses; address 2 asks for a search, 3 *)
(* does not exist.                                                         *)
Config(auto, modes) == [auto |-> auto, modes |-> modes]

SetupBoards ==
  LET Board(dps, requested, pinsOk, pins, modes, canAuto) ==
        [dps |-> dps, requested |-> requested, pinsOk |-> pinsOk,
         resetPin |-> pins, intPin |-> pins, modes |-> modes, canAuto |-> canAuto,
         strap |-> [auto |-> TRUE, mode |-> {"10H"}]]
  IN  {Board({0}, 0, FALSE, TRUE, {"10H", "100F"}, TRUE)} \cup
      {Board(dps, requested, TRUE, TRUE, {"10H", "100F"}, TRUE) :
         dps \in SUBSET {0, 1}, requested \in {1, 2, 3}} \cup
      {Board({0}, 2, TRUE, FALSE, modes, canAuto) :
         modes \in {{}, {"10H", "100F"}}, canAuto \in BOOLEAN}

SetupConfigs ==
  {Config(TRUE, {"10H", "100F"}), Config(TRUE, {"100F"}), Config(TRUE, {"10F"}),
   Config(FALSE, {"100F"}), Config(FALSE, {"10H", "100F"})}

CrcVariants ==
  LET V(bits, poly, init, reflect, xorOut) ==
        [bits |-> bits, poly |-> poly, init |-> init, rin |-> reflect, rout |-> reflect,
         xorOut |-> xorOut]
  IN  {V(8, 7, 1, FALSE, 0), V(8, 49, 1, TRUE, 0), V(8, 155, 255, TRUE, 255),
       V(16, 4129, 7439, FALSE, 0)}

CrcMessages == UNION {[1 .. n -> {0, 1, 128, 165, 255}] : n \in 0 .. 3}

-----------------------------------------------------------------------------
(* One host, controller, board, frame and message stand for all of them    *)
(* while another part runs.                                                *)
OneHost       == serialised /\ inOrder
OneController == kind = "PD" /\ cfg = [Kp |-> 0, Ki |-> 0, Kd |-> 0, max |-> 1]
OneBoard      == CHOOSE b \in Boards : TRUE
OneFrame      == frame = (CHOOSE p \in Payloads : TRUE) /\ rx = [i \in BufferPlaces |-> "x"]
OneButton     == ~both /\ ~level
OneMessage    == message = <<>> /\ variant = CHOOSE v \in Variants : TRUE

PartsInit ==
  /\ part \in {"ring", "arena", "control", "watchdog", "deque", "udp", "setup", "uart", "button",
              "crc"}
  /\ Init /\ (part # "ring" => OneHost) /\ ArenaInit /\ DogsInit /\ DequeInit
  /\ ControlInit /\ (part # "control" => OneController)
  /\ UdpInit     /\ (part # "udp" => others = {})
  /\ SetupInit   /\ (part # "setup" => board = OneBoard)
  /\ UartInit    /\ (part # "uart" => OneFrame /\ ~withHeader)
  /\ ButtonInit  /\ (part # "button" => OneButton)
  /\ CrcInit     /\ (part # "crc" => OneMessage)

(* What the parts before and after one of them leave alone. *)
memoryVars == <<vars, arenaVars, dequeVars>>
netVars    == <<udpVars, setupVars, uartVars>>
boardVars  == <<controlVars, dogVars, buttonVars>>
partsVars  == <<part, memoryVars, netVars, boardVars, crcVars>>

Memory ==
  \/ part = "ring"  /\ Next      /\ UNCHANGED <<arenaVars, dequeVars>>
  \/ part = "arena" /\ ArenaNext /\ UNCHANGED <<vars, dequeVars>>
  \/ part = "deque" /\ DequeNext /\ UNCHANGED <<vars, arenaVars>>

Net ==
  \/ part = "udp"   /\ UdpNext   /\ UNCHANGED <<setupVars, uartVars>>
  \/ part = "setup" /\ SetupNext /\ UNCHANGED <<udpVars, uartVars>>
  \/ part = "uart"  /\ UartNext  /\ UNCHANGED <<udpVars, setupVars>>

Board ==
  \/ part = "control"  /\ ControlNext /\ UNCHANGED <<dogVars, buttonVars>>
  \/ part = "watchdog" /\ DogsNext    /\ UNCHANGED <<controlVars, buttonVars>>
  \/ part = "button"   /\ ButtonNext  /\ UNCHANGED <<controlVars, dogVars>>

PartsNext ==
  /\ UNCHANGED part
  /\ \/ Memory /\ UNCHANGED <<netVars, boardVars, crcVars>>
     \/ Net    /\ UNCHANGED <<memoryVars, boardVars, crcVars>>
     \/ Board  /\ UNCHANGED <<memoryVars, netVars, crcVars>>
     \/ part = "crc" /\ CrcNext /\ UNCHANGED <<memoryVars, netVars, boardVars>>

(* Only the button is promised anything in the end: Button's FairButtonSpec. *)
Pressing(A) == part = "button" /\ A /\ UNCHANGED <<part, controlVars, dogVars>>
                              /\ UNCHANGED <<memoryVars, netVars, crcVars>>

PartsSpec ==
  /\ PartsInit /\ [][PartsNext]_partsVars
  /\ WF_buttonVars(Pressing(Tick)) /\ WF_buttonVars(Pressing(Dispatch))
  /\ WF_buttonVars(Pressing(Snapshot)) /\ WF_buttonVars(Pressing(ReadPin))
  /\ WF_buttonVars(Pressing(CandidateChanges \/ Confirm \/ NotYet))

(* What each part promises is stated in its module: RingBufferShared's     *)
(* Delivered, StaticArena's BlocksDisjoint, Controllers' OutputBounded,    *)
(* Watchdog's EveryDogEatsOnce, Deque's WindowKept, UdpSocket's            *)
(* SocketTruthful, DP83822Setup's AsConfigured, UartRxSync's DecodesWhole  *)
(* and Resyncs, Button's Debounced and Settles, Crc's CrcRight.            *)
=============================================================================
