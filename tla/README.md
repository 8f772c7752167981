# BasicComponents: specifications, checks and proofs

TLA+ modules for BasicComponents, a C++ component library for STM32 firmware: bus
drivers whose calls block a thread while interrupts finish the work, a scheduler
for sensors, two generations of CAN driver from the filter registers to the
callbacks, the thread that follows an Ethernet link and the PHY driver under it, a
receiver that searches headers in a stream, and the smaller parts they are built
of: queues, an allocator, a watchdog table, a button, a socket, CRCs, controllers.
TLC checks every module on small instances; TLAPS proves most of the safety
properties for every value of the constants.

The repository has no tests. Its promises are its comments, headers and package
READMEs, which is where the four findings below come from.

    tlc -workers 2 -config I2CBusDMA.cfg I2CBusDMA.tla     # one run
    tlapm I2CBusDMA_proofs.tla                             # one proof module

PROJECT.json lists components, runs, mutants (for each property a plausible bug
in the code that breaks it), the map from definitions to source lines, findings,
hazards and theorems.

## 1. Inventory

### Modelled

**I2C bus** (`bsp/i2c_driver`, `bsp::I2CDriver::I2CBusDMA`).
State: the current transfer id, the completion record (`completed_transfer_id_`,
`transfer_success_`), the waiting thread, `last_error_`, the registry entry, and
behind them HAL state, DMA and a pending interrupt. Operations: `memRead()`,
`memWrite()`, `read()`, `write()`, all of which prepare, start the DMA, wait for a
thread flag and, on failure, recover; `recover()`; two HAL callbacks from the
interrupt. Hard: the interrupt races the wait, the timeout races the interrupt,
recovery breaks off in the middle, interrupts of aborted transfers come late.
Correct when TRUE means the transfer ended well and nothing moves any more, no
wake-up is lost, every call returns, and the error left behind tells the state of
the controller.

**I2C update manager** (`services/i2c_update_manager`, `I2CUpdateManager` and
`I2CDevice`). State: the entry table (due time, cycle start, pending,
initialised), `run_flag_`, `task_handle_`, and in each device a phase and a
trigger time. Operations: `registerDevice()`, `start()`, `stop()`; the thread's
loop (select, init or update, reschedule, sleep). It calls the devices, and
through them the I2C bus. Hard: stop and restart in the middle of a round,
`osThreadNew()` before its result is stored, a tick that wraps, delays, devices whose
own transfers take time, sleeps rounded up to the kernel's tick. Correct
when there is one thread, the table is frozen under it, devices keep their phase,
conversions are waited for, nobody oversleeps by more than the rounding or is
overtaken, a stop is obeyed.

**CAN driver 2, objects** (`bsp/can_driver2`). State: a registry of pointers, per
object `starting_`, `started_`, callbacks and hardware ownership; the filter banks
that two controllers share. Operations: construction, filter and delay
compensation, `add_callback()`, `start()` with its rollback, the receive
interrupt, destruction. Hard: `start()` opens interrupts between its two guarded
regions, any step may fail, another owner may hold the handle. Correct when a
peripheral has one owner, the registry is exact, a rollback stops only its own
hardware, the configuration is frozen and frames go to their owner.

**CAN driver 2, transmit path.** State: a software queue (RingBuffer that
overwrites), hardware mailboxes, bus-off. Operations: `send()`, the transmit
interrupt, both under one interrupt guard. Hard: order between the two, a full
queue, hardware that refuses. Correct when frames leave in order, none is lost
unreported and the queue drains by itself.

**CAN driver 2, frames, filters and the link.** State: filter registers (list
elements and a global filter, or banks), receive FIFOs and buffers, their interrupt
flags. Operations: `validate_frame()`, `validate_hardware_frame()`, `write()`,
`configure_filter()`, the receive bridges, `on_receive()`, `read()`. Hard: lengths and
codes that are not linear, payloads that end inside a word the HAL reads, one filter
vocabulary over two kinds of hardware, frames that arrive while the interrupt drains,
frames that cannot be delivered. Correct when a callback is given what was sent, a
filter takes what its comment describes and no storage is left without an interrupt.

**CAN driver 1** (`bsp/can_driver`), the predecessor: free functions over a table of
handles with callbacks and a queue each, in three builds (bxCAN, FDCAN with and
without a queue). Operations: `RegisterCallback()`, `CAN_Start()`,
`CAN_SendMessage()`, the transmit callback, `RxDispatch`, `HAL_CAN_ConfigFilter()` on
FDCAN hardware. Hard: order between queue and hardware, a HAL that refuses a frame
which has left the queue, a bounded table, the transmit interrupt of FDCAN that comes
only when the Tx FIFO is empty, bank words taken apart into elements of two lists, and
banks that are changed or switched off. Correct when frames leave in order, none is lost
but as its README says, every callback hears its frames and the elements in force are
those of the banks.

**RingBuffer** (`libs/utils/ring_buffer`). Two indices and an array;
`push()`, `pop()`, `clear()`, `size()`. Used by the CAN queue under a guard. Its README
asks every host to serialise whole calls: the indices are volatile, the slots are not, and
that publishes nothing. Correct when what goes in comes out, in order and whole, wherever
a host provides that much.

**LwIP link platform** (`bsp/ethernet/lwip_platform`). State: the published thread
id, two thread flags, a poll deadline, `mac_started_`, `applied_state_`, the
network interface. Operations: `start()`, the thread (initialise, hook the
callback, snapshot, loop, fail), `notifyTxComplete()`, the PHY's callback. Hard:
edges lost before the callback is there, an interrupt pin that stays low,
transmit notifications that keep waking the thread, failures half way through a
mode switch. Correct when the stack is never told of a link over a MAC in another
mode, buffers are released, the poll is on time and the link is followed.

**DP83822** (`bsp/ethernet/phy_drivers/dp83822`). State: `status_`, `address_`, the
cached capabilities, the EXTI registration, and in the chip the latched link bit,
events, the control and advertisement registers. Operations: `start()` with the search
for the chip's address, reset and configuration; `configureLink()`,
`restartAutoNegotiation()`; `readLink()`, `acknowledgeInterrupt()`,
`interruptAsserted()`, `onInterrupt()`. Hard: the link changes between two register
accesses; bits latch and clear on reading; an access fails half way, and nobody knows
whether a failed write arrived.

**UartRxSync** (`protocol/UartRxSync`). State: `state_`, `hdr_idx_`, the buffer the HAL
writes into. Operations: `startReceive()`, `receiveCallback()`, `errorHandler()`, called
from the UART's interrupts. It searches a header byte by byte in a window that runs
around, receives the rest of that frame by DMA, then whole frames by circular DMA;
it feeds a Watchdog. Hard: `hdr_idx_` after the search, old bytes in the window, restarts
whose answer nobody looks at, a DMA that goes on while a frame is decoded. Correct when
frames are decoded whole, and are decoded again soon after any disturbance.

**Small parts.** *Watchdog* (`services/watchdog`): a table that constructors append to
from any thread and `EatAll()` scans. *StaticArena*: a bump allocator over one
compare-and-exchange. *Button* over the *GPIO driver*'s EXTI table: an interrupt counts,
a task samples and debounces. *UdpSocket*: one LwIP socket, its failures and
time-outs. *Deque*: an array that turns both ways. *CRC*: a table of remainders.
*Controllers* (PIDMotor, PD, MITPD): limits and an integral that gets what the other
terms leave.

### Not modelled

- **FixedPointerMap**: its README already says that `erase()` drops the last entry,
  whichever one it was asked for. A sequential table otherwise.
- **AtomicFlagLock**: one atomic access per operation. **StaticObject**: storage
  constructed once by its owner. **DMABuffer**, **traits**: compile-time only.
- **Math** (EKF, matrices, geometry): floating-point arithmetic.
- **printf** is third-party code, the **Ethernet example** wiring for one board.
- PWM and GPIO outputs: single register writes. Of the GPIO driver the EXTI table is
  modelled, in Button.
- Of modelled parts: builds with `CAN_DRIVER_TX_QUEUE_SIZE` = 0 or
  `CAN_DRIVER_VALIDATE_TX_FRAME` = 0; an Rx buffer of FDCAN whose copy is torn by a frame that
  lands in the middle of it; a receive interrupt that is taken again and again because it finds
  `started_` still false; a UART HAL that refuses to restart a reception when nothing is under
  way; an `lwip_close()` that fails, at whose answer the code does not look; the ring's
  pointers into its slots (`emplace()`, `front()`); reflected CRCs wider than eight bits, those that
  reflect on one side only and all CRCs of more than 16 bits, of which the CRC README says that
  they must not be relied on; rounding in the controllers.

### How the parts interact

    application --> I2CUpdateManager --> I2CDevice --> I2CBusDMA <-- HAL interrupt
    application --> Can (driver 2) --> RingBuffer, mailboxes   <-- CAN interrupts
    application --> can_driver (1) --> RingBuffer, mailboxes   <-- CAN interrupts
    LwIP, HAL   --> LwipPlatform thread --> DP83822 --> MDIO   <-- EXTI interrupt
    UART interrupts --> UartRxSync --> Watchdog <-- timer
    application --> UdpSocket --> LwIP;  Button <-- EXTI interrupt

Each arrow into a component from a second context (thread, interrupt) is where
the models interleave.

## 2. Modules

| Module | Models | Extends / instantiates |
|---|---|---|
| SyncTransfer | what a blocking bus promises: abstract | |
| I2CBusDMA | the I2C bus, its caller, the HAL, the kernel | SyncTransfer (refinement) |
| I2CBusDMA_proofs | theorems | I2CBusDMA |
| I2CUpdateManager | manager, thread, devices, clock | |
| I2CUpdateManager_proofs | theorems | I2CUpdateManager |
| MCI2CUpdateManager | a quick and a slow device | I2CUpdateManager |
| RingBuffer | push, pop, size as operators on a record | |
| RingBuffer_proofs | what they do to the contents | RingBuffer |
| RingBufferShared | push and pop between two contexts, one memory access at a time | RingBuffer |
| TxFifo | an ordered, bounded, lossy queue: abstract | |
| CanTransmit | send(), the transmit interrupt, the hardware | RingBuffer, TxFifo (refinement) |
| CanTransmit_proofs | theorems | CanTransmit, RingBuffer_proofs |
| CanFrames | one frame: validations, encodings, what the HAL touches | |
| CanFilters | filters in registers, and what the hardware makes of them | CanFrames |
| CanLink | two nodes, the bus, receive storages and interrupts | CanFilters |
| LegacyCan | CAN driver 1 in its three builds | CanFilters |
| MCCan | scenes of driver 2 (every frame, every filter, filters that meet, races) and of driver 1 (sending, receiving, registering, filters) | CanLink, LegacyCan |
| Can_proofs | theorems: the queue of driver 1, the link of driver 2 | LegacyCan, CanLink |
| CanDriver | life and registry of Can objects | |
| MCCanDriver | three Cans, two handles, two wirings | CanDriver |
| CanDriver_proofs | theorems | CanDriver |
| DP83822 | the chip and its driver as the link thread meets them, no specification of its own | |
| DP83822Setup | start(), configureLink(), restartAutoNegotiation() | |
| LwipPlatform | link thread, interrupts, clock, cable | DP83822 |
| LwipPlatform_proofs | theorems | LwipPlatform |
| UartRxSync | the receiver, the HAL's reception, the sender and its noise | |
| MCUartRxSync | a header of three bytes | UartRxSync |
| StaticArena | allocate() between threads | |
| Watchdog, Button, Deque, Crc, UdpSocket | the parts of these names | |
| Controllers | the control laws | |
| MCParts | the ten parts that meet nobody else | RingBufferShared, StaticArena, Controllers, Watchdog, Deque, UdpSocket, DP83822Setup, UartRxSync, Button, Crc |
| Parts_proofs | theorems: all of them but the CRC | the same without Crc, RingBuffer_proofs |

How state corresponds to code. Variables carry the names of the fields they
stand for; `pc`, `phase`, `worker` and `app` say where a thread stands between two
points at which another context may run. A region under an interrupt guard
(`ISRGuard`) or LwIP's core lock is one action; code outside one is split at
every access to shared state. HAL functions, register accesses and RTOS calls
have the results the code distinguishes, chosen freely.

- **I2CBusDMA.** The caller's actions are `Call`, `ResetRecord`, `ClearFlag`, `Start` or
  `StartFails`, `EnterWait`, `Block` and what ends the wait, `Accept`, `ReturnTrue` or `Fail`,
  and the recovery from `RecoverBegin` over `AbortDma` and `DeInit` to `Recovered`; the
  hardware's are the end of a transfer and the callbacks. Addresses, buffers and the four kinds
  of transfer are one. `StrayFlag` is another part of the program setting the thread flag the
  bus uses. `late` counts interrupts of aborted transfers that are still to be served.
- **I2CUpdateManager.** The application's `start()` is split where the new thread
  may run before `task_handle_` is stored. A device's `update()` is `trigger`, `wait`,
  `read`, and a hook takes time: the clock runs at every one of these places. The
  trigger's time is the turn's sample, as in the code; the ghost `waited` counts from where the
  trigger was really sent. `SleepMs` is in ticks of the HAL, `KernelTicksFromMs` rounds it up
  to the kernel's, of any frequency, and `DelayMs` is what `osDelay()` may take of those, in
  ticks of the HAL. `trigger_ms_` and `cycle_start_ms` are reset to 0 outside a round, where
  the code never reads them. Each device is registered at most once.
- **CanTransmit.** Mailboxes are a set (the hardware may send any of them first);
  `out` is the order in which frames were handed over. The build with
  `CAN_DRIVER_TX_QUEUE_SIZE` = 0 is not modelled.
- **CanDriver.** `start()` is `Claim`, `CheckReady`, `InstallCallbacks`, `StartHardware`,
  `Publish`, with `RollbackStart` and `GiveUp`. A Host is other firmware that uses
  the HAL behind the driver's back.
- **RingBufferShared.** An element is two words. After its look at the indices a call has
  three accesses to make, two to the slot's words and one to its index. Nothing in the code
  keeps these in order, so they come in any order, unless the host orders them (`inOrder`);
  and the other side's come in between, unless the host runs calls one at a time
  (`serialised`). A behaviour is of one of the four hosts. `Overwrite` is FALSE: a push() that
  overwrites moves both indices, which CanTransmit has, under a guard.
- **LwipPlatform.** `pc` walks through `run()`, `handleLinkEvent()`, `poll()` and
  `fail()`; `caller` says for whom a poll runs. `remaining` is the unsigned difference
  next_poll − now, so it wraps as in the code. A DP83822 operation is a sequence of
  its register accesses (`step`) between which the cable may change. `edge` is the
  pending EXTI interrupt. `Negotiating` is a link with a signal but no agreed mode.
  Results that a DP83822 cannot give are left out, and so is a thread that could
  not be created: that platform is never started.
- **UartRxSync.** One action per branch of `receiveCallback()`. `hal` is what the HAL was
  asked for: it refuses a second reception, as the real one does, and the code ignores
  the answer. `irq` is a completed reception whose callback has not run; `isr` holds the
  callback before `decode()`, while the DMA goes on. Interrupts of one UART do not nest.
  `startReceive()` is called once, since it resets nothing. Payloads are such that no
  header appears inside a frame or across two: otherwise no receiver of this kind can
  tell a frame's beginning. `decode()`'s answer only feeds the Watchdog and is left out.
- **CanFrames, CanFilters.** An identifier is the set of its one bits, and so are words,
  keys and masks, at their real places: a shift moves them, an `or` is a union. A payload
  is a length and a tag for its bytes. `HalReads` and `Source` are how many bytes the HAL
  reads and how many somebody wrote. What the code does not do, the hardware's comparison
  of a filter with a frame, is external and written from the registers' meaning.
- **CanLink.** One `read()` of a FIFO is one step; one of an Rx buffer is three, `QueryBuffer`
  (the question takes the new-data bit down and so lets the next frame in), `CopyBuffer` (the
  HAL's copy) and `ClearNewData` (the HAL takes the bit down again), and frames arrive between
  any two. The ghost `overrun` marks a buffer whose frame lost its bit unread. The copy itself
  is one step. On FDCAN the flag is down before the drain begins; on bxCAN the interrupt is up
  as long as the FIFO holds anything.
- **LegacyCan.** Sends come from threads with interrupts masked and interrupts are not
  preempted by senders, so both are one step. `Replay` moves the queue to the hardware frame by
  frame; the HAL may refuse any of them, and that one is gone (`lost`), because it left
  the queue before the HAL was asked. `Error_Handler()`, which follows, belongs to the
  board and does not come back (`stopped`); `SendRefused` is the same of a frame that was
  never queued. `element` is what bank number i is in the standard and in the extended list: a
  configuration writes one of the two, and one that switches off always writes the
  standard one. `wanted` is the ghost of the last bank accepted for each. A use says how often
  the filters are configured and how many elements each list has. A callback is a name and a
  style: those of bxCAN's style are spared CAN FD frames.
- **DP83822Setup.** One action per register access, each of which may fail; a write that
  fails may have reached the chip. Registers are reduced to the bits the driver changes.
  It and DP83822 model one driver from two sides: the link thread never calls
  `configureLink()`, and what the registers hold does not concern `readLink()`.
- **StaticArena.** The compare-and-exchange is the weak one, and fails for no reason too.
  Alignments are powers of two, sizes do not overflow `size_t`, and `clear()` is called
  with nobody at work: preconditions of its README and comments.
- **Watchdog.** The constructor is `Construct` (count), then `Store` or `GiveBack`. Its
  README asks that nobody scans while an object is being constructed; feeding goes on
  during a scan, which moves one object at a time.
- **Button.** `update()` is `Snapshot`, `ReadPin` and the decision; level, interrupt and
  clock move in between. Registration writes the table's two fields one after the other.
- **UdpSocket.** One LwIP call is one step. Ports are two digits of a small base, so that
  the byte swap is a real one. One task uses the object, as its comment asks. `lwip_close()`
  succeeds.
- **Deque** carries the sequence it stands for as a ghost. **Crc** is compared with the division
  bit by bit; `Init` is what the code's register begins with, so that the division of a
  reflected variant begins with Init reflected. **Controllers** computes with integers and
  limits that are not negative.

## 3. Runs

| Run | Question | States | Result |
|---|---|---|---|
| i2c_bus | safety and refinement, no late interrupt | 24 thousand | holds |
| i2c_bus_late | does every call return, late interrupts included | 89 thousand | holds |
| i2c_bus_stale | is a late completion discarded | | finding 1 |
| i2c_manager | scheduling, restart, stop | 756 thousand | holds |
| i2c_manager_early | is a sensor ever read before it has converted | | finding 2 |
| i2c_manager_squeezed | is a short period ever squeezed out | | finding 3 |
| can_transmit | refinement of an ordered, lossy queue; drain | 113 thousand | holds |
| can_driver | registry, rollback, configuration | 2.2 million | holds |
| can_bus | driver 2: frames, filters, receive interrupts; driver 1: order, loss, drain, dispatch, filters | 393 thousand | holds |
| ethernet_link | truth to the stack, poll, link followed | 330 thousand | holds |
| parts | ten parts on their own | 2.2 million | holds |
| uart_header | does a bad header mean an interrupted stream | | finding 4 |

The parts of the run of that name share no state. `part` says which of them a behaviour
is a behaviour of; the state space is the sum of theirs, not the product, and each
property speaks of its part alone. can_bus joins the two CAN drivers in the same way, by
`driver`.

### What the properties say

*i2c_bus.* `NoLostWakeup`: a recorded completion never meets a blocked thread without
its flag. `FailureKeepsItsError`: recovery does not erase the cause. `ErrorTellsBusState`:
after a success or an ordinary failure the controller is ready; Busy means that an
earlier recovery broke off. `ImplementsSyncTransfer`: the whole call is start,
finish or abort, answer. *i2c_bus_late.* `CallReturns`. *i2c_bus_stale.*
`SuccessIsReal`: TRUE only for a transfer that ended well and is over (proved where no
interrupt is late, refuted here with one).

*i2c_manager.* `OnSchedule`: no second thread, devices keep their phase on their own
grid, nobody oversleeps by more than the time of the turn and one kernel tick
(`WakesForTheNext`). `ConversionWaited`: a read comes no earlier after the trigger was sent
than the conversion time less the time of one turn, after any delay, stop and wrap.
`YieldsToTheWaiting` (nobody is overtaken twice), `StopEnds`. *i2c_manager_early.*
`NeverReadEarly`: the conversion time in full, as the header promises it; refuted.
*i2c_manager_squeezed.* `NotSqueezedOut`: refuted.

*can_transmit.* `ImplementsTxFifo`: frames leave in order, a full queue loses its oldest
and says so, nothing else is lost. `Drains`: without another `send()`.

*can_driver.* `RegistryExact`, `StopsItsOwn`, `ConfigFrozen`, `DeliveredByItsBus`.

*can_bus, driver 2.* `Faithful`: what a callback is given is what the sender gave, every field of
it, through both backends, the queue's copy and classic codes above 8. `HalStaysInside`:
no HAL call reads bytes nobody wrote, or leaves an element or a buffer.
`RoutedAsDocumented`: a frame goes where the comments of the filters in force say,
whichever hardware expresses them. `NothingStranded`: no frame lies in a storage with no
interrupt to come, but for the one case the code has and the property names: a frame that
came into an Rx buffer between the HAL's copy of the one before and the HAL's second
clearing of the bit (`overrun`, see below).

*can_bus, driver 1.* `SubmissionOrder` (on FDCAN; bxCAN's mailboxes are filled past the queue).
`AcceptedIsKept`: an accepted frame is with the hardware or waits, or was replaced in a full
queue, or is the one that the HAL refused when it had left the queue; exactly one of these is
true of it. `QueueDrains`, unless the program has ended. `DispatchedToAll`.
`BankMeansTheSame`: after any configurations, changes and switching off, FDCAN takes the frames
that bxCAN takes by the banks in force, of those the translation can express; in force are the
last bank written to the standard list and the last to the extended one, which is more than the
caller asked for when a bank changes its kind or was extended and is switched off.

*ethernet_link.* `UpMeansRunning`: the interface is up only over a MAC running in the
applied mode, and never after the thread has ended. `NoTxForgotten`: a blocked thread
has nothing to release without a flag. `PollsOnTime`: notifications do not postpone the
poll, across the wrap. `LinkFollowed`: unless the cable changes for ever or the thread
failed, MAC and interface come to follow it.

*parts.* `Delivered` (ring): accepted = returned, then what the ring holds, between calls that
the host serialises and, where it keeps accesses in order, at every moment; of a host that does
neither, which the run includes, nothing is claimed, and there the library's README is right
that elements come out half written. `BlocksDisjoint` (arena). `DecodesWhole` (UART): what
`decode()` reads is the last frame sent, unless the stream was disturbed since its header was
found; `Resyncs`: whatever happened, of five undisturbed frames one is decoded, where no byte of
the header is there twice or in a payload. `AsConfigured` (PHY): after any history of failures,
an object that is ready drives the one chip there is, which does what the last successful call
asked for. `EveryDogEatsOnce` (watchdog): no gap below the count, nobody turned away while there
is room, one snack each. `WindowKept` (deque). `CrcRight`: the table gives the remainder of the
division, for Init as the register holds it. `OutputBounded` (controllers): output and integral
within the limit. `SocketTruthful`: no socket leaks, datagrams are answered once, in order, with
their port and length. `Debounced` and `Settles` (button): a state is confirmed only after it
held, and a state that holds is confirmed in the end.

A type invariant is stated in the modules of the core (`TypeOK`) and proved where section
4 says so; the runs spend their properties on what is harder to get right.

### Findings

1. **A late completion is taken for the current one** (`I2CBusDMA.cpp:339`). The callback
   stamps the record with the id that is current when it runs, so the comparison
   that the comments at 295 and 319 rely on never rejects anything. One interrupt of
   an aborted transfer, served after the next one is prepared, makes that call
   return TRUE while its DMA still moves.
2. **A sensor is read before its conversion time has passed** (`I2CDevice.cpp:22`).
   `update()` takes for the time of the trigger the sample of the clock that `run()` took before
   `onTrigger()` talked to the device, so what the trigger's transfer takes (up to its
   time-out) counts as conversion. `conversionMs()` promises the shortest time to wait after the
   trigger (`I2CDevice.hpp:120`). `ConversionWaited` says by how much it may be missed.
3. **A device that fails to initialise replays missed periods**
   (`I2CUpdateManager.cpp:147`) and stays ahead of a working device with a shorter
   period, against the comment at 106. The update path skips missed periods.
4. **A whole frame is rejected although nothing disturbed it** (`UartRxSync.hpp:128`):
   its header is compared in the rotation the search ended with, which is the wrong one
   unless the bytes before the first header were a multiple of its length. The comment
   at 101 says that a rejection means an interrupted stream. One more search repairs
   it where the header cannot be mistaken: `Resyncs`.

Found by the proof of `Resyncs`: where a payload may begin with a byte of the header, a lost byte
can shift every later frame (`UartRxSync.hpp:219`). In the rotation that the search ended with,
`check_header()` accepts a frame that begins at the wrong byte if the first bytes of the payload
complete the rotated header: with the header A B C, payloads that begin with A and hdr_idx_ = 1,
a receiver that is one byte late takes B C A for the header of every frame, and `decode()` gets
each payload shifted, for as long as payloads begin so. The package's README (line 15) relies
on later headers for the recovery. With `Data = {"A", "x"}` and one disturbance in
`UartRxSync_header.cfg`, TLC gives such a behaviour for `missed <= 10` in 93 states. An earlier
`Resyncs`, with no condition on the header, held in the run and is false.

Seen while modelling, without a run of its own: `send()` flushes the queue itself
(`can_driver.cpp:329`), which the comment at `can_driver_fdcan.cpp:517` says it never does
(harmless: the order is kept). The bxCAN build of driver 1 answers CAN_SEND_FAILED for a
frame it has queued and will send, so that a caller who retries sends it twice. A UART
restart that the HAL refuses is not noticed (`UartRxSync.hpp:107`). A manager thread that
ends before `osThreadNew()`'s result is stored leaves `task_handle_` naming a dead thread
(`I2CUpdateManager.cpp:79`), and the manager cannot be started again. An Rx buffer of FDCAN is
unlocked by the question at `can_driver_fdcan.cpp:778`, so a frame may land after the HAL's copy
and lose its new-data bit to the HAL's second clearing (line 791): it lies there until the
next one replaces it, although the comment at 711 says that asking once loses nothing; a frame
that lands before the copy replaces the one about to be read. Driver 1 loses the frame that the
HAL refuses (`can_driver.cpp:264`), as its README (line 38) and the comment at 266 say. In
driver 1 on FDCAN a bank that was extended goes on taking frames after it was switched off,
because what is written is a standard element, always (`can_driver.cpp:442`).

### Bounds

- I2C bus: TimeoutMs 2 lets an interrupt come before, at and after the timeout;
  IdModulus 3 wraps within a few calls; TickFreq 1000 is the usual one (the
  proofs take any). MaxLate is 0 or 1: one late interrupt is enough for all they can do.
- Manager: periods 2 and 4, phases 0 and 1, conversions 0 and 2, so that one device
  is polled while the other converts. TickRange 16 wraps and is a multiple of both
  periods, so that a grid is a few times that come round again (proved for any). MaxSleep 3
  (`max_sleep_ms`) exceeds one period and not the other. TickFreq 500 makes a kernel tick two of
  the HAL's, so that sleeps of an odd number are rounded up. MaxBusy 1, the time of one turn,
  its hooks included, is enough for a trigger that takes time; MaxLag 3 lets a thread be late by
  more than a period. Without these two nothing would be true of time. The proofs take
  any of these within `SpanAssumption`.
- CAN transmit: a queue of 2 and 2 mailboxes fill, overflow and drain within 6 frames.
- CAN driver: two Cans share a handle, a third shares the controller or the banks;
  the registry (2) is smaller than the number of Cans, so it overflows too.
- Ethernet: two modes to switch between; one failing access at any place, since a
  second only meets a thread that has already failed, or a polling one that has
  forgotten the first; PollDelay 2, one tick of lateness, TickRange 6 wraps.
- CAN link: FDCAN with element sizes from 2 to 18 words, with and without CAN FD, a
  receiver with small elements, one with a single FIFO, one with fixed RAM, and bxCAN.
  Single frames take every combination of lengths around each limit and every code; single filters
  every mode and action with identifiers inside, at and past the limit; up to three
  filters meet; races have five frames for FIFOs of two or three. A receiver has up to
  two Rx buffers, in the model and in the proofs; FDCAN allows 64.
- Legacy CAN: two slots and a queue of two fill, overflow and drain within eight sends;
  three handles meet a table of two, two callbacks a limit of two. Every kind of bank is
  configured alone; up to three configurations of six banks, masks and lists of both kinds, one
  switched off and one refused, follow one another; two with a list that has no elements.
- Ethernet setup: boards with one, two or no chip, fixed, searched and impossible
  addresses, with and without pins; addresses 0 and 1 make a search.
- Parts: the ring's 3 slots wrap within 5 pushes. Two threads share an arena of 8
  bytes with sizes 1 to 3 and alignments 1, 2 and 4, and one `clear()`. Three watchdogs
  meet a table of two. The button's clock wraps at 8 and its count at 4, with a debounce
  of 2. The deque holds 3 and `size_t` has four bits. CRC messages have up to three bytes of
  five values; one of the two reflected variants has an Init that is not its own reflection.
  Two sockets, a mailbox of two datagrams, buffers shorter and empty.
- UART: a header of three bytes has three rotations; two bytes of payload, one of which
  would not show a payload put together from two frames; two disturbances, so that
  one meets the receiver while it still recovers from the other. A callback may be late
  by less than a header while whole frames are received; a later one is a disturbance.

### Fairness

- I2CBusDMA: the calling thread runs and the kernel ticks. An interrupt need not
  come and a wait need not fail.
- I2CUpdateManager: its thread runs, device hooks return, the tick goes on. The
  application owes nothing.
- CanTransmit: a pending transmit interrupt is served and a mailbox of a bus that
  works empties. Nobody need call `send()` again and no bus need recover.
- LegacyCan, in MCCan: a raised transmit interrupt is served and a slot of a started handle
  empties. The HAL need neither refuse a frame nor go on accepting them: the program may
  end in `Error_Handler()`.
- Button, in MCParts: the clock ticks, an interrupt is served, the task keeps calling
  `update()`. Every other part of MCParts is checked for safety only.
- LwipPlatform: the thread runs, a raised EXTI interrupt is served, the kernel ticks. A
  blocked thread's wait need not fail, so that no property holds because a fault had
  to come.
- CanDriver, CanLink and UartRxSync are checked for safety only.

The RTOS, its priorities and the interrupt controller provide this. Deadlock is
checked for the I2C bus and for the UART receiver by itself (uart_header). The other
systems may stop: an application need not do anything more, frames and pushes are
bounded, a link thread waits for an event that need not come.

## 4. Proofs

| Module | Theorems |
|---|---|
| I2CBusDMA_proofs | TypeCorrect; Invariance, SuccessThm, WakeupThm, FailureThm, BusStateThm, Refinement |
| I2CUpdateManager_proofs | Invariance, TypeCorrect, ConversionWaitedThm, OneThreadThm, WakesForTheNextThm, OnGridThm, OnScheduleThm; NearInvariance, YieldsToTheWaitingThm |
| CanTransmit_proofs | TypeCorrect, TxFifoImplemented |
| CanDriver_proofs | CanInvariance, OnePerPeripheralThm, RegistryExactThm, StopsItsOwnThm, ConfigFrozenThm, DeliveredByItsBusThm |
| Can_proofs | TxInvariance, SubmissionOrderThm, AcceptedIsKeptThm; TableInvariance, DispatchedToAllThm; BankMeansTheSameThm; LinkInvariance, FaithfulThm, HalStaysInsideThm, NothingStrandedThm; RoutingInvariance, RoutedAsDocumentedThm |
| LwipPlatform_proofs | LinkInvariance, UpMeansRunningThm, NoTxForgottenThm, PollsOnTimeThm |
| RingBuffer_proofs | SizeTells, PopRemovesOldest, PushAppends |
| Parts_proofs | RingTypeCorrect, DeliveredThm; ArenaInvariance, BlocksDisjointThm; ControlInvariance, OutputBoundedThm; DogsInvariance, EveryDogEatsOnceThm; DequeInvariance, WindowKeptThm; UdpInvariance, SocketTruthfulThm; SetupInvariance, AsConfiguredThm; ButtonInvariance, DebouncedThm; UartInvariance, DecodesWholeThm; ResyncInvariance, ResyncsThm |

Every module with an assumption on its constants is extended by the module of a run,
so that TLC evaluates what the proofs assume.

**I2C bus.** For every timeout, tick frequency and id width. All but TypeCorrect assume
MaxLate = 0: no interrupt outlives an abort. Finding 1 shows that they are false
without it. SuccessIsReal is not inductive: when the thread believes a completion
record, one must know that it was written for this transfer and by which outcome.
`IInv` adds `InterruptIsCurrent` (a pending interrupt tells the running call's outcome),
`Quiet` (where the thread is before the start or after the end, nothing moves and
nothing is pending), `RecordIsCurrent` (a record of the current id agrees with the
outcome), `Aftermath` (what each stage of the recovery may assume of the HAL and of
`last_error_`) and `ErrorTellsBusState` itself, which one call hands to the next.
Refinement follows step by step from it: every action is a step of SyncTransfer or a
stutter.

**I2C update manager.** For any devices, periods, phases, conversion times, delays and tick
range. The invariant has layers, each of which needs those before it. `Threads`: from
`osThreadNew()` until the thread clears the handle, the handle is stored or about to be.
`Phases`: where the device in service and all others stand between their turns. `Conversions`:
ticks wrap, so a difference of two counts says less than what really passed, never more; a
trigger time hands that from the turn that took it to the turn that compares it, short by what
the turn had taken when the trigger was sent. `Clocks`: since a turn began no more ticks have
passed than a turn may take, and a sleep computed from its beginning is late by at most that and
the rounding, together `WakeLag`: `DelayBound` shows that n kernel ticks, n the sleep rounded
up, never take `Oversleep` more than the sleep, at any tick frequency. That a due time is over
when the thread wakes, and not to come, is told by the sign of a difference, which needs
`SpanAssumption`: periods, phases and conversion times, each with the bound on lateness, are
less than half the tick range (in the code 2^31 ms, which is 24 days). `Grid`: a due time is
reached from the phase by whole periods. The skip over missed periods divides by the period, and
the period need not divide the tick range: the grid is the set `PeriodsFrom`, closed under
adding periods, and not a remainder. `YieldsToTheWaiting`, an action property, needs `Near`
besides, and `SpanAssumption` again: with more between two due times the one that is over would
be taken for one to come. `Near` says that no due time is further from the clock than that, and
that a sleep ends close to the first of them; offsets from the clock, positive and negative,
then add up like integers, and a device just served, which is due after the turn's sample, comes
after every device that was due at the sample.

**CAN transmit path.** `TxFifoImplemented` is the refinement that can_transmit checks,
for every queue, number of mailboxes and number of frames, on both backends. The ring's lemmas
turn indices into sequences: handing over k frames and moving the tail by k splits what
waits in two, a push is an Append, and a push into a full ring drops the head first.
Each branch of `send()` is then one step of TxFifo. The invariant adds that only frames
wait and that no frame has an answer before it is sent.

**CAN driver 2, objects.** For any set of Cans, handles, wirings and any registry size.
Registry and exclusion are inductive with `StartingRuns` (who is starting stands inside
`start()`, and nobody else does) and `OwnsHardware` (a Can past `StartHardware` owns its
handle).

**CAN driver 2, the link.** For any scene: any pair of nodes, frames, filters and arrivals
within `LinkAssumption`, which gives the types, keeps CAN FD frames off a bus with a
bxCAN node, gives a frame without bytes no content and a foreign frame an identifier of
its kind. `Faithful` rests on the operators
alone: of what a successful `send()` tells of its frame (`ValidSend`), a backend's `write()`
and the receiving backend's `read()` are inverse (`SentAsMeant`), for which the sixteen
length codes are taken one by one (`DlcOfLength`). `HalStaysInside` is `WideEnough` (a
controller that runs has elements for what can arrive), `ProgramFits` (a filter that is
accepted has its place) and `ReadsInside`. `NothingStranded` is inductive with the state of
the interrupt: what is still to drain, how far the read of an Rx buffer has come (asked,
copied, cleared) and what that says of the buffer (`BuffersHold`: a frame without its bit is
about to be read or was overrun), and `SetUp`.

`RoutedAsDocumented` compares two readings of the filters: what the comments say of those in
force, and what the registers, found by rank, index or first match, do with a frame.
`RoutingInv` holds them together: `Written` says that every register holds the filter last
asked for at its place, and the others none; `LandedRight` that each frame in a storage got
there by the filters there were. On bxCAN a filter is words and half words of bits shifted into
a key: `UnshiftedBit`, `WordIsKey` and `HalfTakesOne` bring a bank back to the identifiers
it was made of, bit by bit, and so for any identifiers.

**CAN driver 1.** For any handles, slots and queue, in the three builds. The frames
handed to the hardware and those queued are one line per handle; `OneLineEach` says that
every accepted frame is in one line, once, or was replaced or lost, and that lines rise on FDCAN.
Each operation changes one line: its oldest queued frame leaves, a new one joins at the
end or, where bxCAN fills a free mailbox past the queue, in between. `LinesStep` is the
argument common to all; lemmas on sequences say what each change does. A refusal by the HAL is
one frame less, taken from between those that were handed over and those that stay (`Replayed`,
`Joined`); it happens once, since the program ends with it (`LostOnce`).

`DispatchedToAll` needs `TableInv`: each handle has one entry, the table is frozen once frames
can come, and the calls of the latest dispatch are those of the loop. What the loop over
callbacks has called after n of them (`AllCalled`) is shown without an induction theorem: if it
failed for some n there would be a least such n, by the order on the naturals
(`LeastIsThere`), which is not 0, and the step before it refutes it.

`BankMeansTheSame` is proved for any banks and frames that `LegacyAssumption` types, of which
the run checks a few: a bank is two words of bits, an element two identifiers, and shifting one
into the other changes no comparison. `FilterInv` carries it over any sequence of
configurations: each list's element is the translation of the last bank accepted for it. The
proof narrowed the statement: a standard bank that names bits 16 to 20, which a standard
identifier does not have, takes nothing on bxCAN and something on FDCAN, and is now left out by
the hypothesis that a bank names bits of its kind only.

**LwIP link platform.** For any modes, faults, delay and lateness, and any tick range that
exceeds the delay and two latenesses. `MacKnown`: the two fields that tell the MAC's state
tell it. `UpIsBacked` adds to `UpMeansRunning` where the thread may stand meanwhile.
`TxIsNotified` follows a notification from the flag through the set a wait has returned.
`OnDeadline` relates the time since the latest poll, the deadline in ticks and the
time-out of the wait.

**Ring buffer.** For every capacity. `SizeTells` shows why one slot stays free;
`PopRemovesOldest` and `PushAppends` say what the operations do to `Contents`, the
sequence between the indices. DeliveredThm uses them in two arguments, one for each thing a host
may provide. In order: `ProducerOwns` and `ConsumerOwns`, the slot a side works on is seen by no
other, because its own last access gives it up. Serialised, in any order: `Pushing` and `Popping`,
the ring is what it was when the call began, but for the accesses that the call has made, which
after the last one is what the operation does.

**Static arena.** For any threads, buffer and requests. `BlocksDisjoint` is not inductive
by itself: `ArenaInv` adds that every block ends below the offset, so that a block that
begins at or above it, as `AlignedRounds` shows of the next one, meets none of them. A
thread's old copy of the offset needs no more than its type: the exchange compares it.

**Controllers.** For any integer gains and inputs and any limits. `OutputBounded` needs
the types and that only a PIDMotor integrates: a PD whose limit is lowered keeps its
integral, which is 0.

**Watchdogs.** For any number of objects and any table. Constructors count before they
store: `Counted` says by how many the count may exceed the table, `NoGap` gives each
index below it one owner, `Stored` is what the table holds, `Scanning` whom a scan has
passed.

**Deque.** For every capacity of which an object is at most half the address space.
A place behind the front is found without division (`PlaceIs`); the index from the back
wraps `size_t` twice, which cancels (`BackIs`).

**UDP socket.** For any sockets, ports, lengths, buffers and mailbox. `Owned`: which
sockets the object has before each call it makes of LwIP; `Waiting`: what waits is what
came and was not answered, in order; `Told`: what the last answer said. Two byte swaps
change no two-byte port (`SwappedTwice`).

**PHY configuration.** For any boards, straps, requested addresses and link
configurations. `AsConfigured` speaks of an object between operations; `SetupInv` says
before every register access what the operation has reached. `Searched`: the search has
found each DP83822 below its address, so that a single match at its end is the only chip
(`TheOnly`). `Prepared`, `Linking` and `Wiring`: what each access may rely on of those
before it; a read of BMCR stays good because the chip changes nothing by itself but the
restart bit. `Kept`: a usable object's chip does what was asked until an operation writes
to it, and a write that fails (`Written`) leaves the object unusable.

**Button.** For any stable time and any width of the clock and the count. `Timed` is what
`Debounced` needs: while a candidate waits and has not yet held long enough, the difference
of the wrapping clock says no more than what really passed.

**UART receiver.** For any header, any bytes and payload bytes among them, and any lengths
that leave room for a payload. `SearchesHeader`: the search has one reception on or one
callback due. `FirstFrame`: on a stream undisturbed since the header was found, the payload
goes behind the window and waits there. `WholeFrames`: from then on the DMA stands where the
sender stands, and behind that place the buffer still holds the frame before; as long as a
callback is due or at work the sender has not come past the header, which is why the payload
is whole. That no header appears inside a frame is not used: the invariant begins where the
header of a whole frame was found.

`Resyncs` needs to know where a receiver can be that has lost its place, and how long.
`Undisturbed` counts the bytes of undisturbed frames since one was decoded; `ResyncInv` bounds it
for every place. In the search, after three frames, what was sent of a fourth is in the
window in order (`Looking`), and its last byte completes the header. A first frame behind a false
header is shorter than a frame (`Beginning`). Of the rounds of the circular DMA, the first is
of unknown bytes (`Round1`), the next is all sent (`Round2`); at its end the callback looks at a
whole round (`Round3`), in which a header found is where the sender sent it, because its bytes are
nowhere else (`CheckedIsAligned`), so that the frame is decoded (`Round4`), and otherwise the search
begins again. The only assumption is in the property, `HeaderStandsOut`: section 3 tells
what happens without it.

Only model-checked:

- liveness (`CallReturns`, `StopEnds`, `Drains`, `QueueDrains`, `LinkFollowed`,
  `Settles`): fairness and ENABLED are out of this prover's reach;
- `CrcRight`: its module uses Bitwise, and what a fold computes for every message needs
  an induction over data, which the prover cannot do.

Every other property of a run that passes is a theorem, those of the I2C bus with MaxLate = 0.

## 5. Plan

Done: the I2C bus with its promise and proofs, the manager, ring buffer, both CAN
drivers down to their encodings, the link platform over its PHY, the PHY's
configuration, the UART receiver and the small parts; all their safety properties for every
value of the constants.

What is left is outside of what these tools do well (the filter algebra of `Math`, which is
floating point, and `printf`), or small: `FixedMap`, and the receive interrupt of driver 2 that
returns while `started_` is still false (`can_driver.cpp:375`), which needs a model of a
level-triggered line.
