--------------------------------- MODULE MCCan ---------------------------------
(***************************************************************************)
(* CAN frames and filters in both drivers.  A behaviour is a behaviour of  *)
(* one of them: driver says of which, and the other stays as it is.        *)
(*                                                                         *)
(* can_driver2: what happens on the bus, one scene for each question: what *)
(* becomes of one frame of every kind, what every single filter takes, how *)
(* filters meet, and how the receive interrupts race with the arrivals.    *)
(*                                                                         *)
(* can_driver: three handles and room for two.  The frames that arrive:    *)
(* identifiers of both kinds, data and remote, classic with a code above   *)
(* 8, and CAN FD.                                                          *)
(***************************************************************************)
EXTENDS CanLink, LegacyCan

CONSTANTS can1, can2, can3

VARIABLE driver

(* One scene and one use stand for all of them while the other driver runs. *)
CanInit ==
  /\ driver \in {"can_driver", "can_driver2"}
  /\ Init       /\ (driver = "can_driver" => scene = CHOOSE s \in DOMAIN Plans : TRUE)
  /\ LegacyInit /\ (driver = "can_driver2" => chosen = "again" /\ build = "bxcan")

CanNext ==
  /\ UNCHANGED driver
  /\ \/ driver = "can_driver2" /\ Next       /\ UNCHANGED legacyVars
     \/ driver = "can_driver"  /\ LegacyNext /\ UNCHANGED vars

(* FairLegacySpec's fairness. *)
Legacy(A) == driver = "can_driver" /\ A /\ UNCHANGED <<driver, vars>>

CanSpec ==
  /\ CanInit /\ [][CanNext]_<<driver, vars, legacyVars>>
  /\ \A h \in Handles :
       /\ WF_legacyVars(Legacy(TxInterrupt(h)))
       /\ WF_legacyVars(Legacy(\E f \in slots[h] : SlotEmpties(h, f)))

-----------------------------------------------------------------------------
(* can_driver2: the controllers. *)

FdcanTx == {[backend |-> "fdcan", format |-> f[1], elements |-> 3, words |-> f[2]] :
              f \in {<<"classic", 4>>, <<"fd", 18>>, <<"brs", 18>>, <<"brs", 6>>, <<"brs", 2>>}}
BxcanTx == {[backend |-> "bxcan", format |-> "classic", elements |-> 3, words |-> 4]}

FdcanHw == [backend |-> "fdcan", fixed |-> FALSE, standard |-> 2, extended |-> 2, fifo0 |-> 2,
            fifo1 |-> 2, buffers |-> 1, words |-> 18, banks |-> 0]
BxcanHw == [backend |-> "bxcan", fixed |-> FALSE, standard |-> 0, extended |-> 0, fifo0 |-> 3,
            fifo1 |-> 3, buffers |-> 0, words |-> 0, banks |-> 2]
FixedHw == [FdcanHw EXCEPT !.fixed = TRUE]
SmallHw == [FdcanHw EXCEPT !.words = 4]
OneFifoHw == [FdcanHw EXCEPT !.fifo1 = 0]

Scene(about, txs, hws) == {[about |-> about, tx |-> t, hw |-> h] : t \in txs, h \in hws}

Scenes ==
  Scene("one frame", FdcanTx \cup BxcanTx, {FdcanHw, BxcanHw, SmallHw})
    \cup Scene("one filter", BxcanTx, {OneFifoHw, FixedHw, BxcanHw})
    \cup Scene("filters", BxcanTx, {FdcanHw, BxcanHw})
    \cup Scene("race", BxcanTx, {FdcanHw, BxcanHw})

-----------------------------------------------------------------------------
(* Views and frames. *)

Known == {<<FALSE, {0, 10}>>, <<TRUE, {0, 28}>>}

Views ==
  {[id |-> i[2], ext |-> i[1], fd |-> fd, remote |-> remote, brs |-> brs, esi |-> esi,
    rlen |-> rlen, len |-> len, tag |-> IF len = 0 THEN 0 ELSE 1] :
     i \in Known \cup {<<FALSE, {11}>>}, fd \in BOOLEAN, remote \in BOOLEAN, brs \in BOOLEAN,
     esi \in BOOLEAN, rlen \in {0, 3, 8, 9}, len \in {0, 1, 4, 7, 8, 9, 12, 20, 64}}

ClassicViews == {v \in Views : ~v.fd}

Wires(ids, dlcs, kinds) ==
  {[id |-> i[2], ext |-> i[1], fd |-> k[1], remote |-> k[2], brs |-> FALSE, esi |-> FALSE,
    dlc |-> dlc, tag |-> 1] : i \in ids, dlc \in dlcs, k \in kinds}

Classic == {<<FALSE, FALSE>>, <<FALSE, TRUE>>}

AnyWire == Wires(Known, 0 .. 15, BOOLEAN \X BOOLEAN)
ClassicWire == Wires(Known, 0 .. 15, Classic)

Probes == Wires({<<FALSE, id>> : id \in {{}, {0}, {0, 10}, {3}}}
                \cup {<<TRUE, id>> : id \in {{}, {14, 28}, {0, 15, 18}, {18}, {28}}}, {1}, Classic)

(* One for each storage, and for FDCAN one that cannot be delivered. *)
Racers(backend) ==
  Wires({<<FALSE, {0}>>, <<FALSE, {3}>>, <<FALSE, {}>>}, {2}, {<<FALSE, FALSE>>})
    \cup (IF backend = "fdcan" THEN Wires({<<FALSE, {}>>}, {2}, {<<TRUE, TRUE>>}) ELSE {})

-----------------------------------------------------------------------------
(* Filters. *)

IdFilter(index, ext, mode, action, id1, id2) ==
  [kind |-> "id", index |-> index, ext |-> ext, mode |-> mode, action |-> action,
   id1 |-> id1, id2 |-> id2, buffer |-> 0, calibration |-> FALSE]

AllModes == {"Mask", "List", "Range", "RangeWithoutExtendedMask"}
AllActions ==
  {"Disable", "Fifo0", "Fifo1", "Reject", "PriorityFifo0", "PriorityFifo1", "RxBuffer"}

Pairs(ids) == {<<i, j>> : i \in ids, j \in ids}

EveryFilter ==
  {[IdFilter(index, x[1], mode, action, x[2][1], x[2][2])
      EXCEPT !.buffer = b[1], !.calibration = b[2]] :
     index \in {0, 2}, mode \in AllModes, action \in AllActions,
     x \in ({FALSE} \X Pairs({{}, {0}, {0, 10}, {11}}))
             \cup ({TRUE} \X Pairs({{}, {14, 28}, {0, 15, 18}, {29}})),
     b \in {0, 1} \X BOOLEAN}

Bank0 == [kind |-> "bank", index |-> 0, on |-> TRUE, scale |-> 32, list |-> FALSE,
          fifo |-> "fifo1", idLow |-> {}, idHigh |-> {}, maskLow |-> {}, maskHigh |-> {}]

Global(standard, extended, reject) ==
  [kind |-> "global", standard |-> standard, extended |-> extended,
   rejectStandardRemote |-> reject, rejectExtendedRemote |-> ~reject]

Common ==
  {IdFilter(0, FALSE, "Mask", "Fifo1", {0}, {0}), IdFilter(1, FALSE, "List", "Fifo0", {0}, {3}),
   IdFilter(1, FALSE, "Mask", "Disable", {}, {}), IdFilter(0, TRUE, "Mask", "Fifo1", {18}, {18}),
   Global("Reject", "Fifo1", TRUE), [kind |-> "mask", mask |-> {18, 28}]}

FdcanFilters ==
  {IdFilter(0, TRUE, "Range", "Fifo1", {14}, {0, 28}),
   IdFilter(1, TRUE, "RangeWithoutExtendedMask", "Reject", {14, 28}, {15, 28}),
   IdFilter(1, TRUE, "List", "PriorityFifo0", {18}, {28}),
   [kind |-> "mask", mask |-> {29}], Global("Fifo1", "Reject", FALSE), Bank0}

BxcanFilters ==
  {IdFilter(1, TRUE, "List", "Fifo0", {0, 15, 18}, {0, 15, 18}),
   [Bank0 EXCEPT !.index = 1], [Bank0 EXCEPT !.index = 2],
   [Bank0 EXCEPT !.index = 1, !.list = TRUE, !.idHigh = {5}],
   [Bank0 EXCEPT !.scale = 16, !.list = TRUE, !.fifo = "fifo0", !.idLow = {5},
                 !.maskHigh = {5, 3, 0}],
   [Bank0 EXCEPT !.scale = 16, !.maskLow = {3, 5}, !.idLow = {3, 5},
                 !.maskHigh = {4}, !.idHigh = {4}]}

RaceFilters(backend) ==
  {IdFilter(0, FALSE, "Mask", "Fifo1", {0}, {0}),
   IF backend = "fdcan" THEN IdFilter(1, FALSE, "Mask", "RxBuffer", {3}, {})
                        ELSE [Bank0 EXCEPT !.index = 1, !.fifo = "fifo0"]}

-----------------------------------------------------------------------------
MCPlans ==
  [s \in Scenes |->
    [filters |-> CASE s.about = "one frame" -> IF s.hw = BxcanHw THEN {Bank0} ELSE {}
                   [] s.about = "one filter" -> EveryFilter
                   [] s.about = "filters" ->
                        Common \cup (IF s.hw = BxcanHw THEN BxcanFilters ELSE FdcanFilters)
                   [] s.about = "race" -> RaceFilters(s.hw.backend),
     calls |-> CASE s.about = "race" -> 2 [] s.about = "filters" -> 3 [] OTHER -> 1,
     views |-> IF s.about # "one frame" THEN {}
               ELSE IF s.hw = BxcanHw THEN ClassicViews ELSE Views,
     foreign |-> CASE s.about = "one frame" -> IF s.hw = BxcanHw THEN ClassicWire ELSE AnyWire
                   [] s.about = "race" -> Racers(s.hw.backend) [] OTHER -> Probes,
     frames |-> IF s.about = "race" THEN 5 ELSE 1]]

-----------------------------------------------------------------------------
(* can_driver. *)

Wire(ext, id, fd, remote, dlc) ==
  [id |-> id, ext |-> ext, fd |-> fd, remote |-> remote, brs |-> FALSE, esi |-> FALSE,
   dlc |-> dlc, tag |-> 1]

Arrivals ==
  {Wire(FALSE, {0, 10}, FALSE, FALSE, 8), Wire(TRUE, {0, 28}, FALSE, TRUE, 3),
   Wire(FALSE, {0}, TRUE, FALSE, 12), Wire(TRUE, {}, FALSE, FALSE, 9)}

BankProbes ==
  {Wire(ext, id, FALSE, remote, 8) : ext \in BOOLEAN, id \in {{}, {0}, {10}, {0, 10}},
                                     remote \in BOOLEAN}
    \cup {Wire(TRUE, id, FALSE, FALSE, 8) : id \in {{18}, {28}, {18, 28}, {0, 18, 28}}}

AllBanks ==
  {[on |-> on, scale |-> scale, list |-> list, fifo |-> f, idHigh |-> ih, idLow |-> il,
    maskHigh |-> mh, maskLow |-> ml] :
     on \in BOOLEAN, scale \in {16, 32}, list \in BOOLEAN, f \in {"fifo0", "fifo1"},
     ih \in {{}, {0}, {5}, {5, 15}}, il \in {{}, {2}, {0, 2}, {2, 3}}, mh \in {{}, {0, 5}, {5, 15}},
     ml \in {{}, {2}, {0, 2, 3}, {1, 2}}}

(* A mask and a list of each kind; one off, one that cannot be told. *)
Standard0 == [on |-> TRUE, scale |-> 32, list |-> FALSE, fifo |-> "fifo0", idHigh |-> {5},
              idLow |-> {}, maskHigh |-> {5, 15}, maskLow |-> {2}]
Extended0 == [Standard0 EXCEPT !.idLow = {2}, !.fifo = "fifo1"]
SomeBanks ==
  {Standard0, Extended0, [Standard0 EXCEPT !.on = FALSE], [Standard0 EXCEPT !.scale = 16],
   [Standard0 EXCEPT !.list = TRUE, !.maskLow = {}],
   [Extended0 EXCEPT !.list = TRUE, !.maskHigh = {5, 15}]}

Any == [name : {"a", "b"}, style : {"bxcan", "fdcan"}]
Allocated(standard, extended) == [ext \in BOOLEAN |-> IF ext THEN extended ELSE standard]
Quiet == [handles |-> {can1}, callbacks |-> {}, sends |-> 0, wires |-> {}, arrivals |-> 0,
          banks |-> {}, configs |-> 0, capacity |-> Allocated(1, 1)]

One == {[name |-> "a", style |-> "bxcan"]}

Filters == [Quiet EXCEPT !.handles = {}, !.wires = BankProbes, !.banks = SomeBanks, !.configs = 2]

MCUses ==
  [sending   |-> [Quiet EXCEPT !.callbacks = One, !.sends = 8],
   two       |-> [Quiet EXCEPT !.callbacks = One, !.sends = 4, !.handles = {can1, can2}],
   receiving |-> [Quiet EXCEPT !.callbacks = Any, !.wires = Arrivals, !.arrivals = 2],
   many      |-> [Quiet EXCEPT !.callbacks = One, !.wires = Arrivals, !.arrivals = 2,
                               !.handles = Handles],
   filtering |-> [Filters EXCEPT !.banks = AllBanks, !.configs = 1],
   again     |-> [Filters EXCEPT !.configs = 3],
   standard  |-> [Filters EXCEPT !.capacity = Allocated(1, 0)],
   extended  |-> [Filters EXCEPT !.capacity = Allocated(0, 1)]]
=============================================================================
