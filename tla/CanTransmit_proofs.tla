--------------------------- MODULE CanTransmit_proofs ---------------------------
(***************************************************************************)
(* A bus's software queue and its mailboxes implement TxFifo, for every    *)
(* queue length, every number of mailboxes and every number of frames.     *)
(* The ring lemmas turn indices into sequences: handing over k frames and  *)
(* moving the tail by k splits the waiting sequence in two, and a push is  *)
(* an Append.  Each branch of send() is then one step of TxFifo.           *)
(***************************************************************************)
EXTENDS CanTransmit, SequenceTheorems, FiniteSetTheorems, TLAPS

RP == INSTANCE RingBuffer_proofs WITH Slots <- QueueSize + 1, Overwrite <- TRUE

V == 0 .. MaxFrames

-----------------------------------------------------------------------------
(* The inductive invariant. *)

(* Only frames wait: the value of a new slot is never read. *)
OnlyFramesWait == Waiting \in Seq(Frames)

(* A frame not sent yet has no answer. *)
NotAnsweredYet == \A f \in Frames : f > sends => reply[f] = "none"

IInv == TypeOK /\ OnlyFramesWait /\ NotAnsweredYet

-----------------------------------------------------------------------------
(* The lemmas of RingBuffer, for the ring of this module. *)

(* The slots of a queue satisfy what RingBuffer assumes of them. *)
LEMMA QueueSlots == QueueSize + 1 \in Nat /\ QueueSize + 1 >= 2 /\ TRUE \in BOOLEAN
  BY SizeAssumption

(* The operators of CanTransmit's ring are those the lemmas speak of. *)
LEMMA SameRing ==
  /\ \A W : Ring!Rings(W) = RP!Rings(W)
  /\ \A r : /\ Ring!Size(r) = RP!Size(r)
            /\ Ring!IsFull(r) <=> RP!IsFull(r)
            /\ Ring!Contents(r) = RP!Contents(r)
  /\ \A r, f : Ring!Push(r, f) = RP!Push(r, f)
  BY DEF Ring!Rings, RP!Rings, Ring!Index, RP!Index, Ring!Size, RP!Size,
     Ring!IsFull, RP!IsFull, Ring!After, RP!After, Ring!Contents, RP!Contents,
     Ring!Push, RP!Push

(* The ring's size, and its contents as a sequence (RingBuffer::size). *)
LEMMA RingContents ==
  \A r \in Ring!Rings(V) :
    /\ Ring!Size(r) \in Counts
    /\ Ring!IsFull(r) <=> Ring!Size(r) = QueueSize
    /\ Ring!Contents(r) \in Seq(V) /\ Len(Ring!Contents(r)) = Ring!Size(r)
  <1>1. \A r \in RP!Rings(V) :
          /\ RP!Size(r) \in 0 .. ((QueueSize + 1) - 1)
          /\ RP!IsFull(r) <=> RP!Size(r) = (QueueSize + 1) - 1
    BY RP!SizeTells, QueueSlots
  <1>2. \A r \in RP!Rings(V) :
          RP!Contents(r) \in Seq(V) /\ Len(RP!Contents(r)) = RP!Size(r)
    BY RP!ContentsSeq, QueueSlots
  <1>3. (QueueSize + 1) - 1 = QueueSize
    BY SizeAssumption
  <1>. QED BY <1>1, <1>2, <1>3, SameRing DEF Counts

(* push_overwrite() on this ring. *)
LEMMA RingPush ==
  \A r \in Ring!Rings(V), f \in V :
    /\ Ring!Push(r, f) \in Ring!Rings(V)
    /\ Ring!Contents(Ring!Push(r, f)) =
         Append(IF Ring!IsFull(r) THEN Tail(Ring!Contents(r)) ELSE Ring!Contents(r), f)
  <1>1. \A r \in RP!Rings(V) : \A f \in V :
          /\ RP!Push(r, f) \in RP!Rings(V)
          /\ RP!Contents(RP!Push(r, f)) =
               Append(IF RP!IsFull(r) THEN Tail(RP!Contents(r)) ELSE RP!Contents(r), f)
    BY RP!PushAppends, QueueSlots
  <1>. QED BY <1>1, SameRing

(* The k oldest frames leave: the others still wait, in their order.       *)
LEMMA RingDrop ==
  ASSUME ring \in Ring!Rings(V), NEW k \in 0 .. Ring!Size(ring)
  PROVE  /\ Popped(k) \in Ring!Rings(V)
         /\ Ring!Size(Popped(k)) = Ring!Size(ring) - k
         /\ Ring!Contents(Popped(k)) = SubSeq(Waiting, k + 1, Len(Waiting))
  <1>1. \A r \in RP!Rings(V) : \A j \in 0 .. RP!Size(r) :
          /\ RP!Dropped(r, j) \in RP!Rings(V)
          /\ RP!Size(RP!Dropped(r, j)) = RP!Size(r) - j
          /\ RP!Contents(RP!Dropped(r, j)) = SubSeq(RP!Contents(r), j + 1, RP!Size(r))
    BY RP!DropKeepsTheRest, QueueSlots
  <1>2. Popped(k) = RP!Dropped(ring, k)
    BY DEF Popped, RP!Dropped
  <1>3. Len(Waiting) = Ring!Size(ring)
    BY RingContents DEF Waiting
  <1>. QED BY <1>1, <1>2, <1>3, SameRing DEF Waiting

-----------------------------------------------------------------------------
(* What flush_tx() takes. *)

(* As many frames as there are distinct elements, or more. *)
LEMMA ElementsBound ==
  ASSUME NEW S, NEW s \in Seq(S)
  PROVE  /\ Elements(s) \subseteq S /\ IsFiniteSet(Elements(s))
         /\ Cardinality(Elements(s)) <= Len(s)
  <1>1. Len(s) \in Nat /\ DOMAIN s = 1 .. Len(s) /\ s \in [1 .. Len(s) -> S]
    BY LenProperties
  <1>2. s \in Surjection(1 .. Len(s), Elements(s))
    BY <1>1 DEF Surjection, Elements
  <1>3. IsFiniteSet(1 .. Len(s)) /\ Cardinality(1 .. Len(s)) = Len(s)
    BY <1>1, FS_Interval
  <1>4. /\ IsFiniteSet(Elements(s))
        /\ Cardinality(Elements(s)) <= Cardinality(1 .. Len(s))
    BY <1>2, <1>3, FS_Surjection
  <1>. QED BY <1>1, <1>3, <1>4 DEF Elements

(* The waiting frames, split where the flush stopped. *)
LEMMA Split ==
  ASSUME IInv, NEW k \in 0 .. Ring!Size(ring)
  PROVE  /\ Len(Waiting) = Ring!Size(ring) /\ Ring!Size(ring) \in Counts
         /\ Oldest(k) \in Seq(Frames) /\ Len(Oldest(k)) = k
         /\ k = Ring!Size(ring) => Oldest(k) = Waiting
         /\ Popped(k) \in Ring!Rings(V)
         /\ Ring!Contents(Popped(k)) = SubSeq(Waiting, k + 1, Len(Waiting))
         /\ Ring!Contents(Popped(k)) \in Seq(Frames)
         /\ Len(Ring!Contents(Popped(k))) = Ring!Size(ring) - k
         /\ Ring!IsFull(Popped(k)) <=> Ring!Size(ring) - k = QueueSize
         /\ k = Ring!Size(ring) => Ring!Contents(Popped(k)) = <<>>
  <1>1. ring \in Ring!Rings(V) /\ Waiting \in Seq(Frames)
    BY DEF IInv, TypeOK, V, OnlyFramesWait
  <1>2. Len(Waiting) = Ring!Size(ring) /\ Ring!Size(ring) \in Counts
    BY <1>1, RingContents DEF Waiting
  <1>3. k \in Nat /\ k <= Len(Waiting) /\ Len(Waiting) \in Nat
    BY <1>2, SizeAssumption DEF Counts
  <1>4. Oldest(k) \in Seq(Frames) /\ Len(Oldest(k)) = k
    <2>1. \A i \in 1 .. k : Waiting[i] \in Frames
      BY <1>1, <1>3, ElementOfSeq
    <2>. QED BY <1>3, <2>1, SubSeqProperties DEF Oldest
  <1>5. k = Ring!Size(ring) => Oldest(k) = Waiting
    BY <1>1, <1>2, SubSeqFull DEF Oldest
  <1>6. /\ Popped(k) \in Ring!Rings(V) /\ Ring!Size(Popped(k)) = Ring!Size(ring) - k
        /\ Ring!Contents(Popped(k)) = SubSeq(Waiting, k + 1, Len(Waiting))
    BY <1>1, RingDrop
  <1>7. SubSeq(Waiting, k + 1, Len(Waiting)) \in Seq(Frames)
    <2>1. \A i \in k + 1 .. Len(Waiting) : Waiting[i] \in Frames
      BY <1>1, <1>3, ElementOfSeq
    <2>. QED BY <1>3, <2>1, SubSeqProperties
  <1>8. /\ Ring!IsFull(Popped(k)) <=> Ring!Size(ring) - k = QueueSize
        /\ Len(Ring!Contents(Popped(k))) = Ring!Size(ring) - k
    BY <1>6, RingContents
  <1>9. k = Ring!Size(ring) => SubSeq(Waiting, k + 1, Len(Waiting)) = <<>>
    BY <1>2, <1>3, SubSeqEmpty
  <1>. QED BY <1>2, <1>4, <1>5, <1>6, <1>7, <1>8, <1>9

(* The mailboxes that are free are counted by a natural number. *)
LEMMA FreeNat ==
  ASSUME IInv
  PROVE  /\ IsFiniteSet(pending) /\ Cardinality(pending) \in Nat
         /\ Free \in Nat /\ Cardinality(pending) + Free = Mailboxes
  <1>1. IsFiniteSet(Frames)
    BY FS_Interval, SizeAssumption DEF Frames
  <1>2. IsFiniteSet(pending) /\ Cardinality(pending) \in Nat
    BY <1>1, FS_Subset, FS_CardinalityType DEF IInv, TypeOK
  <1>. QED BY <1>2, SizeAssumption DEF IInv, TypeOK, Free

(* A flush takes no more than there are, nor more than there is room for.  *)
LEMMA FlushBound ==
  ASSUME IInv, NEW k \in Counts, NEW status, Flushes(k, status)
  PROVE  /\ k \in 0 .. Ring!Size(ring) /\ k <= Free
         /\ status = "Ok" => k = Ring!Size(ring)
         /\ status \in {"Ok", "Busy"} \cup Refusals
  <1>1. Ring!Size(ring) \in Nat
    BY RingContents DEF IInv, TypeOK, V, Counts
  <1>2. Free \in Nat /\ k \in Nat
    BY FreeNat, SizeAssumption DEF Counts
  <1>3. Blocked \in {"InvalidState", "HardwareError", "BusOff", "None"}
    BY DEF Blocked
  <1>. QED BY <1>1, <1>2, <1>3 DEF Flushes, Refusals

(* What is handed over fits the mailboxes. *)
LEMMA HandOverFits ==
  ASSUME IInv, NEW s \in Seq(Frames), Len(s) <= Free, HandOver(s)
  PROVE  /\ out' \in Seq(Frames)
         /\ pending' \subseteq Frames /\ Cardinality(pending') <= Mailboxes
  <1>. DEFINE e == Elements(s)
  <1>1. e \subseteq Frames /\ IsFiniteSet(e) /\ Cardinality(e) <= Len(s)
    BY ElementsBound
  <1>. HIDE DEF e
  <1>2. /\ IsFiniteSet(pending) /\ Cardinality(pending) \in Nat
        /\ Free \in Nat /\ Cardinality(pending) + Free = Mailboxes
    BY FreeNat
  <1>3. /\ IsFiniteSet(pending \cup e)
        /\ Cardinality(pending \cup e) =
             Cardinality(pending) + Cardinality(e) - Cardinality(pending \cap e)
    BY <1>1, <1>2, FS_Union
  <1>4. Cardinality(pending \cap e) \in Nat /\ Cardinality(e) \in Nat
    <2>1. IsFiniteSet(pending \cap e)
      BY <1>1, FS_Subset
    <2>. QED BY <1>1, <2>1, FS_CardinalityType
  <1>5. Len(s) \in Nat
    BY LenProperties
  <1>6. Cardinality(pending \cup e) <= Mailboxes
    BY <1>1, <1>2, <1>3, <1>4, <1>5, SizeAssumption
  <1>7. out' = out \o s /\ pending' = pending \cup e
    BY DEF HandOver, e
  <1>8. out \o s \in Seq(Frames)
    BY ConcatProperties DEF IInv, TypeOK
  <1>. QED BY <1>1, <1>6, <1>7, <1>8 DEF IInv, TypeOK

-----------------------------------------------------------------------------
(* Every step preserves the invariant. *)

Flags ==
  /\ started \in BOOLEAN /\ busOff \in BOOLEAN /\ irq \in BOOLEAN /\ refused \in BOOLEAN

Ready ==
  backend \in {"bxcan", "fdcan"} /\ hal \in {"ready", "running"}

(* Flags and the HAL's state keep their types. *)
LEMMA StepFlags ==
  ASSUME Flags, Ready, [Next]_vars
  PROVE  Flags' /\ Ready'
  <1>1. CASE Start
    BY <1>1 DEF Start, Flags, Ready
  <1>2. CASE Send
    BY <1>2 DEF Send, SendTooEarly, SendBehindRefused, SendNow, SendRefused, SendQueued,
       Answer, bus, Flags, Ready
  <1>3. CASE OnTxAvailable
    <2>1. (refused' = TRUE \/ refused' = FALSE) /\ irq' = FALSE /\ UNCHANGED bus
      BY <1>3 DEF OnTxAvailable
    <2>. QED BY <2>1 DEF bus, Flags, Ready
  <1>4. CASE \E f \in pending : MailboxEmpties(f)
    BY <1>4 DEF MailboxEmpties, bus, Flags, Ready
  <1>5. CASE GoBusOff
    BY <1>5 DEF GoBusOff, Flags, Ready
  <1>6. CASE Recover
    BY <1>6 DEF Recover, Flags, Ready
  <1>7. CASE HostStops
    BY <1>7 DEF HostStops, Flags, Ready
  <1>8. CASE UNCHANGED vars
    BY <1>8 DEF vars, bus, Flags, Ready
  <1>. QED BY <1>1, <1>2, <1>3, <1>4, <1>5, <1>6, <1>7, <1>8 DEF Next

Answers == {"Submitted", "Queued", "ReplacedOldest", "NotStarted", "BusOff", "HardwareError"}

(* A call of send() answers for the next frame, and only for that. *)
LEMMA Answered ==
  ASSUME IInv, NEW status \in Answers \cup {"InvalidState"}, Answer(status)
  PROVE  /\ sends' \in 0 .. MaxFrames /\ sends + 1 \in Frames
         /\ reply[sends + 1] = "none"
         /\ reply' \in [Frames -> {"none"} \cup Answers]
         /\ NotAnsweredYet'
         /\ reply' = [reply EXCEPT ![sends + 1] =
                        IF status = "InvalidState" THEN "NotStarted" ELSE status]
  <1>1. sends \in 0 .. MaxFrames /\ reply \in [Frames -> {"none"} \cup Answers]
    BY DEF IInv, TypeOK, Answers
  <1>2. sends < MaxFrames /\ sends' = sends + 1
    BY DEF Answer
  <1>3. sends + 1 \in Frames /\ sends' \in 0 .. MaxFrames
    BY <1>1, <1>2, SizeAssumption DEF Frames
  <1>4. reply[sends + 1] = "none"
    BY <1>1, <1>3, SizeAssumption DEF IInv, NotAnsweredYet, Frames
  <1>5. reply' = [reply EXCEPT ![sends + 1] =
                    IF status = "InvalidState" THEN "NotStarted" ELSE status]
    BY DEF Answer
  <1>6. (IF status = "InvalidState" THEN "NotStarted" ELSE status) \in Answers
    BY DEF Answers
  <1>7. reply' \in [Frames -> {"none"} \cup Answers]
    BY <1>1, <1>3, <1>5, <1>6
  <1>8. ASSUME NEW f \in Frames, f > sends' PROVE reply'[f] = "none"
    <2>1. f # sends + 1 /\ f > sends
      BY <1>1, <1>2, <1>8, SizeAssumption DEF Frames
    <2>. QED BY <1>1, <1>3, <1>5, <2>1 DEF IInv, NotAnsweredYet
  <1>. QED BY <1>3, <1>4, <1>5, <1>7, <1>8 DEF NotAnsweredYet

(* A flush leaves the queue, the mailboxes and what left well formed. *)
LEMMA Flushed ==
  ASSUME IInv, NEW k \in Counts, NEW status, Flushes(k, status), HandOver(Oldest(k))
  PROVE  /\ out' \in Seq(Frames)
         /\ pending' \subseteq Frames /\ Cardinality(pending') <= Mailboxes
  <1>1. k \in 0 .. Ring!Size(ring) /\ k <= Free
    BY FlushBound
  <1>2. Oldest(k) \in Seq(Frames) /\ Len(Oldest(k)) = k
    BY <1>1, Split
  <1>. QED BY <1>1, <1>2, HandOverFits

(* The parts of the invariant that are about the frames. *)
Data ==
  /\ ring \in Ring!Rings(V) /\ Waiting \in Seq(Frames)
  /\ out \in Seq(Frames)
  /\ pending \subseteq Frames /\ Cardinality(pending) <= Mailboxes

Calls ==
  /\ sends \in 0 .. MaxFrames
  /\ reply \in [Frames -> {"none"} \cup Answers]
  /\ NotAnsweredYet

(* The invariant, by the parts that steps disturb separately. *)
LEMMA Parts == IInv <=> Flags /\ Ready /\ Data /\ Calls
  BY DEF IInv, TypeOK, OnlyFramesWait, Flags, Ready, Data, Calls, Answers, V

(* Frames moved from the queue to the hardware stay in order. *)
LEMMA PoppedData ==
  ASSUME IInv, NEW k \in Counts, NEW status, Flushes(k, status),
         HandOver(Oldest(k)), ring' = Popped(k)
  PROVE  Data'
  <1>1. k \in 0 .. Ring!Size(ring)
    BY FlushBound
  <1>2. Popped(k) \in Ring!Rings(V) /\ Ring!Contents(Popped(k)) \in Seq(Frames)
    BY <1>1, Split
  <1>3. Waiting' = Ring!Contents(Popped(k))
    BY DEF Waiting
  <1>. QED BY <1>2, <1>3, Flushed DEF Data

(* send() keeps order and account: directly, queued, or refused. *)
LEMMA SendStep ==
  ASSUME IInv, Send
  PROVE  Data' /\ Calls'
  <1>t. Data
    BY Parts
  <1>1. CASE SendTooEarly
    <2>1. Data'
      BY <1>1, <1>t DEF SendTooEarly, Data, Waiting
    <2>2. Calls'
      BY <1>1, Answered DEF SendTooEarly, Calls, Answers
    <2>. QED BY <2>1, <2>2
  <1>2. CASE SendBehindRefused
    <2>1. PICK k \in Counts, status \in Refusals :
            /\ Flushes(k, status) /\ HandOver(Oldest(k)) /\ ring' = Popped(k)
            /\ Answer(status)
      BY <1>2 DEF SendBehindRefused
    <2>2. Data'
      BY <2>1, PoppedData
    <2>3. status \in Answers \cup {"InvalidState"}
      BY DEF Refusals, Answers
    <2>4. Calls'
      BY <2>1, <2>3, Answered DEF Calls
    <2>. QED BY <2>2, <2>4
  <1>3. CASE SendNow
    <2>1. PICK k \in Counts :
            /\ Flushes(k, "Ok") /\ k < Free
            /\ HandOver(Oldest(k) \o <<sends + 1>>) /\ ring' = Popped(k)
            /\ Answer("Submitted")
      BY <1>3 DEF SendNow
    <2>2. sends + 1 \in Frames /\ Calls'
      BY <2>1, Answered DEF Calls, Answers
    <2>3. k \in 0 .. Ring!Size(ring) /\ Free \in Nat
      BY <2>1, FlushBound, FreeNat
    <2>4. /\ Oldest(k) \in Seq(Frames) /\ Len(Oldest(k)) = k
          /\ Popped(k) \in Ring!Rings(V) /\ Ring!Contents(Popped(k)) \in Seq(Frames)
      BY <2>3, Split
    <2>5. /\ Oldest(k) \o <<sends + 1>> \in Seq(Frames)
          /\ Len(Oldest(k) \o <<sends + 1>>) = k + 1
      BY <2>2, <2>4, ConcatProperties
    <2>6. k + 1 <= Free
      BY <2>1, <2>3 DEF Counts
    <2>7. /\ out' \in Seq(Frames)
          /\ pending' \subseteq Frames /\ Cardinality(pending') <= Mailboxes
      BY <2>1, <2>5, <2>6, HandOverFits
    <2>8. Waiting' = Ring!Contents(Popped(k))
      BY <2>1 DEF Waiting
    <2>. QED BY <2>1, <2>2, <2>4, <2>7, <2>8 DEF Data
  <1>4. CASE SendRefused
    <2>1. PICK k \in Counts, status \in Refusals :
            /\ Flushes(k, "Ok") /\ HandOver(Oldest(k)) /\ ring' = Popped(k)
            /\ Answer(status)
      BY <1>4 DEF SendRefused
    <2>2. Data'
      BY <2>1, PoppedData
    <2>3. status \in Answers \cup {"InvalidState"}
      BY DEF Refusals, Answers
    <2>4. Calls'
      BY <2>1, <2>3, Answered DEF Calls
    <2>. QED BY <2>2, <2>4
  <1>5. CASE SendQueued
    <2>1. PICK k \in Counts :
            /\ Flushes(k, "Busy") \/ Flushes(k, "Ok")
            /\ HandOver(Oldest(k)) /\ ring' = Enqueue(Popped(k), sends + 1)
            /\ Answer(IF Ring!IsFull(Popped(k)) THEN "ReplacedOldest" ELSE "Queued")
      BY <1>5 DEF SendQueued
    <2>2. sends + 1 \in Frames /\ Calls'
      BY <2>1, Answered DEF Calls, Answers
    <2>3. k \in 0 .. Ring!Size(ring)
      BY <2>1, FlushBound
    <2>4. /\ Popped(k) \in Ring!Rings(V) /\ Ring!Contents(Popped(k)) \in Seq(Frames)
          /\ Len(Ring!Contents(Popped(k))) = Ring!Size(ring) - k
          /\ Ring!IsFull(Popped(k)) <=> Ring!Size(ring) - k = QueueSize
      BY <2>3, Split
    <2>5. sends + 1 \in V
      BY <2>2 DEF Frames, V
    <2>6. ring' \in Ring!Rings(V)
      BY <2>1, <2>4, <2>5, RingPush DEF Enqueue
    <2>7. Waiting' = Append(IF Ring!IsFull(Popped(k)) THEN Tail(Ring!Contents(Popped(k)))
                            ELSE Ring!Contents(Popped(k)), sends + 1)
      BY <2>1, <2>4, <2>5, RingPush DEF Enqueue, Waiting
    <2>8. Ring!IsFull(Popped(k)) => Tail(Ring!Contents(Popped(k))) \in Seq(Frames)
      BY <2>4, HeadTailProperties, EmptySeq, SizeAssumption
    <2>9. Waiting' \in Seq(Frames)
      BY <2>2, <2>4, <2>7, <2>8
    <2>. QED BY <2>1, <2>2, <2>6, <2>9, Flushed DEF Data
  <1>. QED BY <1>1, <1>2, <1>3, <1>4, <1>5 DEF Send

(* It holds of a driver that has sent nothing. *)
LEMMA InitInv == Init => IInv
  <1>. SUFFICES ASSUME Init PROVE IInv
    OBVIOUS
  <1>2. ring \in Ring!Rings(V)
    BY SizeAssumption DEF Init, Ring!New, Ring!Rings, Ring!Index, V
  <1>3. Ring!Size(ring) = 0
    BY DEF Init, Ring!New, Ring!Size
  <1>4. Waiting = <<>>
    BY <1>2, <1>3, RingContents, EmptySeq DEF Waiting
  <1>5. pending = {} /\ Cardinality(pending) = 0
    BY FS_EmptySet DEF Init
  <1>6. Flags /\ Ready
    BY DEF Init, Flags, Ready
  <1>7. Data
    BY <1>2, <1>4, <1>5, SizeAssumption DEF Init, Data
  <1>8. Calls
    BY SizeAssumption DEF Init, Calls, NotAnsweredYet, Answers
  <1>. QED BY <1>6, <1>7, <1>8, Parts

(* Every step keeps it. *)
LEMMA StepInv == IInv /\ [Next]_vars => IInv'
  <1>. SUFFICES ASSUME IInv, [Next]_vars PROVE IInv'
    OBVIOUS
  <1>2. Flags /\ Ready /\ Data /\ Calls
    BY Parts
  <1>3. Flags' /\ Ready'
    BY <1>2, StepFlags
  <1>4. Data' /\ Calls'
    <2>1. CASE Send
      BY <2>1, SendStep
    <2>2. CASE OnTxAvailable
      <3>1. PICK k \in Counts, status \in Refusals \cup {"Ok", "Busy"} :
              Flushes(k, status) /\ HandOver(Oldest(k)) /\ ring' = Popped(k)
        BY <2>2 DEF OnTxAvailable
      <3>2. Data'
        BY <3>1, PoppedData
      <3>3. Calls'
        BY <1>2, <2>2 DEF OnTxAvailable, Calls, NotAnsweredYet
      <3>. QED BY <3>2, <3>3
    <2>3. ASSUME pending' \subseteq pending, UNCHANGED <<ring, sends, reply, out>>
          PROVE  Data' /\ Calls'
      <3>1. Cardinality(pending') <= Cardinality(pending)
        BY <2>3, FreeNat, FS_Subset
      <3>2. Cardinality(pending') \in Nat /\ Cardinality(pending) \in Nat
        BY <2>3, FreeNat, FS_Subset, FS_CardinalityType
      <3>3. Cardinality(pending') <= Mailboxes
        BY <1>2, <3>1, <3>2, SizeAssumption DEF Data
      <3>4. Data'
        BY <1>2, <2>3, <3>3 DEF Data, Waiting
      <3>5. Calls'
        BY <1>2, <2>3 DEF Calls, NotAnsweredYet
      <3>. QED BY <3>4, <3>5
    <2>4. CASE Start \/ Recover \/ HostStops \/ GoBusOff \/ UNCHANGED vars
      <3>1. pending' \subseteq pending /\ UNCHANGED <<ring, sends, reply, out>>
        BY <2>4 DEF Start, Recover, HostStops, GoBusOff, vars
      <3>. QED BY <2>3, <3>1
    <2>5. CASE \E f \in pending : MailboxEmpties(f)
      <3>1. pending' \subseteq pending /\ UNCHANGED <<ring, sends, reply, out>>
        BY <2>5 DEF MailboxEmpties
      <3>. QED BY <2>3, <3>1
    <2>. QED BY <2>1, <2>2, <2>4, <2>5 DEF Next
  <1>5. QED
    <2>1. IInv' <=> (Flags' /\ Ready' /\ Data' /\ Calls')
      BY Parts, PTL
    <2>. QED BY <1>3, <1>4, <2>1

(* Types, the mailboxes' capacity among them: no flush and no send() hands *)
(* a frame to a bus that has no mailbox free for it.                       *)
THEOREM TypeCorrect == Spec => []TypeOK
  <1>1. IInv => TypeOK
    BY DEF IInv
  <1>. QED BY InitInv, StepInv, <1>1, PTL DEF Spec

-----------------------------------------------------------------------------
(* Every step is one of TxFifo, or none of its business. *)

(* What a flush of k frames is to TxFifo. *)
LEMMA FlushLeaves ==
  ASSUME IInv, NEW k \in Counts, NEW status, Flushes(k, status)
  PROVE  /\ k \in 0 .. Len(Waiting) /\ Len(Fifo!Kept(k)) = Len(Waiting) - k
         /\ HandOver(Oldest(k)) => Fifo!Leave(k)
         /\ Ring!Contents(Popped(k)) = Fifo!Kept(k) /\ Fifo!Kept(k) \in Seq(Frames)
         /\ Ring!IsFull(Popped(k)) <=> Len(Fifo!Kept(k)) = QueueSize
         /\ Len(Fifo!Kept(k)) <= QueueSize
         /\ status = "Ok" => Oldest(k) = Waiting /\ Fifo!Kept(k) = <<>>
  <1>1. k \in 0 .. Ring!Size(ring) /\ (status = "Ok" => k = Ring!Size(ring))
    BY FlushBound
  <1>2. /\ Len(Waiting) = Ring!Size(ring) /\ Ring!Size(ring) \in Counts
        /\ k = Ring!Size(ring) => Oldest(k) = Waiting
        /\ Ring!Contents(Popped(k)) = SubSeq(Waiting, k + 1, Len(Waiting))
        /\ Ring!Contents(Popped(k)) \in Seq(Frames)
        /\ Len(Ring!Contents(Popped(k))) = Ring!Size(ring) - k
        /\ Ring!IsFull(Popped(k)) <=> Ring!Size(ring) - k = QueueSize
        /\ k = Ring!Size(ring) => Ring!Contents(Popped(k)) = <<>>
    BY <1>1, Split
  <1>3. Ring!Contents(Popped(k)) = Fifo!Kept(k)
    BY <1>2 DEF Fifo!Kept
  <1>4. HandOver(Oldest(k)) => Fifo!Leave(k)
    BY DEF HandOver, Oldest, Fifo!Leave
  <1>5. Ring!Size(ring) - k <= QueueSize
    BY <1>1, <1>2, SizeAssumption DEF Counts
  <1>. QED BY <1>1, <1>2, <1>3, <1>4, <1>5

(* send() is an offer to the abstract queue, whichever path it takes. *)
LEMMA SendIsAStep ==
  ASSUME IInv, Send
  PROVE  Fifo!Next
  <1>. DEFINE f == sends + 1
  <1>. SUFFICES f \in Frames /\ (Fifo!Pass(f) \/ Fifo!Queue(f) \/ Fifo!Replace(f) \/ Fifo!Refuse(f))
    BY DEF Fifo!Next
  <1>1. CASE SendTooEarly
    <2>1. f \in Frames /\ Fifo!Answer(f, "NotStarted")
      BY <1>1, Answered DEF SendTooEarly, Answers, Fifo!Answer
    <2>2. Waiting \in Seq(Frames) /\ out \in Seq(Frames) /\ Waiting' = Waiting /\ out' = out
      BY <1>1 DEF SendTooEarly, IInv, TypeOK, OnlyFramesWait, Waiting
    <2>3. Len(Waiting) \in Nat
      BY <2>2, LenProperties
    <2>4. 0 \in 0 .. Len(Waiting) /\ Fifo!Leave(0) /\ Waiting' = Fifo!Kept(0)
      BY <2>2, <2>3, SubSeqEmpty, SubSeqFull, ConcatEmptySeq DEF Fifo!Leave, Fifo!Kept
    <2>. QED BY <2>1, <2>4 DEF Fifo!Refuse
  <1>2. ASSUME NEW k \in Counts, NEW status \in Refusals,
               Flushes(k, status) \/ Flushes(k, "Ok"),
               HandOver(Oldest(k)), ring' = Popped(k), Answer(status)
        PROVE  f \in Frames /\ Fifo!Refuse(f)
    <2>. DEFINE told == IF status = "InvalidState" THEN "NotStarted" ELSE status
    <2>1. told \in {"NotStarted", "BusOff", "HardwareError"}
      BY DEF Refusals
    <2>2. status \in Answers \cup {"InvalidState"}
      BY DEF Refusals, Answers
    <2>. HIDE DEF told
    <2>3. f \in Frames /\ Fifo!Answer(f, told)
      BY <1>2, <2>2, Answered DEF Fifo!Answer, told
    <2>4. /\ k \in 0 .. Len(Waiting) /\ Fifo!Leave(k)
          /\ Ring!Contents(Popped(k)) = Fifo!Kept(k)
      BY <1>2, FlushLeaves
    <2>5. Waiting' = Fifo!Kept(k)
      BY <1>2, <2>4 DEF Waiting
    <2>. QED BY <2>1, <2>3, <2>4, <2>5 DEF Fifo!Refuse
  <1>3. CASE SendBehindRefused
    BY <1>2, <1>3 DEF SendBehindRefused
  <1>4. CASE SendRefused
    BY <1>2, <1>4 DEF SendRefused
  <1>5. CASE SendNow
    <2>1. PICK k \in Counts :
            /\ Flushes(k, "Ok")
            /\ HandOver(Oldest(k) \o <<f>>) /\ ring' = Popped(k)
            /\ Answer("Submitted")
      BY <1>5 DEF SendNow
    <2>2. f \in Frames /\ Fifo!Answer(f, "Submitted")
      BY <2>1, Answered DEF Answers, Fifo!Answer
    <2>3. Oldest(k) = Waiting /\ Ring!Contents(Popped(k)) = <<>>
      BY <2>1, FlushLeaves
    <2>4. Waiting' = <<>>
      BY <2>1, <2>3 DEF Waiting
    <2>5. Waiting \in Seq(Frames) /\ out \in Seq(Frames) /\ <<f>> \in Seq(Frames)
      BY <2>2 DEF IInv, TypeOK, OnlyFramesWait
    <2>6. out' = (out \o Waiting) \o <<f>>
      <3>1. out' = out \o (Waiting \o <<f>>)
        BY <2>1, <2>3 DEF HandOver
      <3>. QED BY <2>5, <3>1, ConcatAssociative
    <2>. QED BY <2>2, <2>4, <2>6 DEF Fifo!Pass
  <1>6. CASE SendQueued
    <2>1. PICK k \in Counts :
            /\ Flushes(k, "Busy") \/ Flushes(k, "Ok")
            /\ HandOver(Oldest(k)) /\ ring' = Enqueue(Popped(k), f)
            /\ Answer(IF Ring!IsFull(Popped(k)) THEN "ReplacedOldest" ELSE "Queued")
      BY <1>6 DEF SendQueued
    <2>2. /\ f \in Frames
          /\ Fifo!Answer(f, IF Ring!IsFull(Popped(k)) THEN "ReplacedOldest" ELSE "Queued")
      BY <2>1, Answered DEF Answers, Fifo!Answer
    <2>3. /\ k \in 0 .. Len(Waiting) /\ Fifo!Leave(k)
          /\ Ring!Contents(Popped(k)) = Fifo!Kept(k) /\ Fifo!Kept(k) \in Seq(Frames)
          /\ Ring!IsFull(Popped(k)) <=> Len(Fifo!Kept(k)) = QueueSize
          /\ Len(Fifo!Kept(k)) <= QueueSize
      BY <2>1, FlushLeaves
    <2>4. Popped(k) \in Ring!Rings(V) /\ f \in V
      <3>1. k \in 0 .. Ring!Size(ring)
        BY <2>1, FlushBound
      <3>. QED BY <2>2, <3>1, Split DEF Frames, V
    <2>5. Waiting' = Append(IF Ring!IsFull(Popped(k)) THEN Tail(Fifo!Kept(k)) ELSE Fifo!Kept(k), f)
      BY <2>1, <2>3, <2>4, RingPush DEF Enqueue, Waiting
    <2>6. CASE Ring!IsFull(Popped(k))
      <3>1. Len(Fifo!Kept(k)) = QueueSize
        BY <2>3, <2>6
      <3>2. Tail(Fifo!Kept(k)) = Fifo!Kept(k + 1)
        <4>1. Waiting \in Seq(Frames) /\ Len(Waiting) \in Nat
          BY LenProperties DEF IInv, OnlyFramesWait
        <4>2. Len(Fifo!Kept(k)) = Len(Waiting) - k
          BY <2>1, FlushLeaves
        <4>3. k + 1 \in 1 .. Len(Waiting) /\ Len(Waiting) \in k + 1 .. Len(Waiting)
          BY <2>3, <3>1, <4>1, <4>2, SizeAssumption
        <4>. QED BY <4>1, <4>3, HeadTailOfSubSeq DEF Fifo!Kept
      <3>. QED BY <2>2, <2>3, <2>5, <2>6, <3>1, <3>2 DEF Fifo!Replace
    <2>7. CASE ~Ring!IsFull(Popped(k))
      <3>1. Len(Fifo!Kept(k)) < QueueSize
        BY <2>3, <2>7, LenProperties, SizeAssumption
      <3>. QED BY <2>2, <2>3, <2>5, <2>7, <3>1 DEF Fifo!Queue
    <2>. QED BY <2>2, <2>6, <2>7
  <1>. QED BY <1>1, <1>3, <1>4, <1>5, <1>6 DEF Send

(* Every step is one of the abstract queue, or is not seen by it. *)
LEMMA StepFifo == IInv /\ [Next]_vars => [Fifo!Next]_(Fifo!vars)
  <1>. SUFFICES ASSUME IInv, [Next]_vars PROVE [Fifo!Next]_(Fifo!vars)
    OBVIOUS
  <1>1. CASE Send
    BY <1>1, SendIsAStep
  <1>2. CASE OnTxAvailable
    <2>1. PICK k \in Counts, status \in Refusals \cup {"Ok", "Busy"} :
            Flushes(k, status) /\ HandOver(Oldest(k)) /\ ring' = Popped(k)
      BY <1>2 DEF OnTxAvailable
    <2>2. /\ k \in 0 .. Len(Waiting) /\ Fifo!Leave(k)
          /\ Ring!Contents(Popped(k)) = Fifo!Kept(k)
      BY <2>1, FlushLeaves
    <2>3. Waiting' = Fifo!Kept(k) /\ UNCHANGED reply
      BY <1>2, <2>1, <2>2 DEF Waiting, OnTxAvailable
    <2>4. Waiting \in Seq(Frames) /\ out \in Seq(Frames) /\ Len(Waiting) \in Nat
      BY LenProperties DEF IInv, TypeOK, OnlyFramesWait
    <2>5. CASE k = 0
      <3>1. Waiting' = Waiting /\ out' = out
        BY <2>2, <2>3, <2>4, <2>5, SubSeqEmpty, SubSeqFull, ConcatEmptySeq
           DEF Fifo!Leave, Fifo!Kept
      <3>. QED BY <2>3, <3>1 DEF Fifo!vars
    <2>6. CASE k # 0
      <3>1. k \in 1 .. Len(Waiting)
        BY <2>2, <2>4, <2>6
      <3>. QED BY <2>2, <2>3, <3>1 DEF Fifo!Next, Fifo!Advance
    <2>. QED BY <2>5, <2>6
  <1>3. CASE Start \/ Recover \/ HostStops \/ GoBusOff \/ UNCHANGED vars
    <2>1. UNCHANGED <<ring, reply, out>>
      BY <1>3 DEF Start, Recover, HostStops, GoBusOff, vars
    <2>. QED BY <2>1 DEF Fifo!vars, Waiting
  <1>4. CASE \E f \in pending : MailboxEmpties(f)
    <2>1. UNCHANGED <<ring, reply, out>>
      BY <1>4 DEF MailboxEmpties
    <2>. QED BY <2>1 DEF Fifo!vars, Waiting
  <1>. QED BY <1>1, <1>2, <1>3, <1>4 DEF Next

(* send() and the transmit interrupt implement TxFifo: frames leave in the *)
(* order they were given, each once; a refused one never leaves; a waiting *)
(* one is lost only to a newer one, the oldest first, when the queue is    *)
(* full.  It holds at every bus state, and for either backend.             *)
THEOREM TxFifoImplemented == Spec => ImplementsTxFifo
  <1>1. Init => Fifo!Init
    <2>. SUFFICES ASSUME Init PROVE Fifo!Init
      OBVIOUS
    <2>1. IInv /\ Ring!Size(ring) = 0
      BY InitInv DEF Init, Ring!New, Ring!Size
    <2>2. Waiting = <<>>
      BY <2>1, RingContents, EmptySeq DEF IInv, TypeOK, V, Waiting
    <2>. QED BY <2>2 DEF Init, Fifo!Init
  <1>. QED BY InitInv, StepInv, StepFifo, <1>1, PTL DEF Spec, ImplementsTxFifo, Fifo!Spec
=============================================================================
