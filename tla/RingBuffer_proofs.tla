--------------------------- MODULE RingBuffer_proofs ---------------------------
(***************************************************************************)
(* The ring is a bounded queue, for every capacity and every element set:  *)
(* push() appends, a full one giving up its oldest element, pop() removes  *)
(* the oldest and front() shows it.  The argument is one of indices: each  *)
(* position of the queue is a slot of the array, tail plus the position    *)
(* taken modulo Slots, and head is the slot behind the last of them.       *)
(***************************************************************************)
EXTENDS RingBuffer, TLAPS

(* An index that has gone once around the array comes back by Slots. *)
LEMMA Around ==
  ASSUME NEW a \in Nat, a < 2 * Slots
  PROVE  a % Slots = IF a < Slots THEN a ELSE a - Slots
  <1>1. CASE a < Slots
    BY <1>1, SlotsAssumption
  <1>2. CASE a >= Slots
    BY <1>2, SlotsAssumption
  <1>. QED BY <1>1, <1>2, SlotsAssumption

(* next() stays in the array (RingBuffer::next). *)
LEMMA AfterIndex ==
  ASSUME NEW i \in Index
  PROVE  /\ After(i) \in Index
         /\ After(i) = IF i = Slots - 1 THEN 0 ELSE i + 1
  <1>. DEFINE a == i + 1
  <1>1. a \in Nat /\ a < 2 * Slots
    BY SlotsAssumption DEF Index
  <1>2. After(i) = a % Slots
    BY DEF After
  <1>. HIDE DEF a
  <1>3. After(i) = IF a < Slots THEN a ELSE a - Slots
    BY <1>1, <1>2, Around
  <1>. QED BY <1>3, SlotsAssumption DEF a, Index

(* The size is that of the free slot kept back: empty at 0, full at one    *)
(* less than the array (size(), empty() and full()).                       *)
THEOREM SizeTells ==
  ASSUME NEW V, NEW r \in Rings(V)
  PROVE  /\ Size(r) \in 0 .. (Slots - 1)
         /\ IsEmpty(r) <=> Size(r) = 0
         /\ IsFull(r) <=> Size(r) = Slots - 1
  <1>1. r.head \in Index /\ r.tail \in Index
    BY DEF Rings
  <1>2. After(r.head) = IF r.head = Slots - 1 THEN 0 ELSE r.head + 1
    BY <1>1, AfterIndex
  <1>. QED BY <1>1, <1>2, SlotsAssumption DEF Size, IsEmpty, IsFull, Index

(* Where position i of the queue is kept. *)
Slot(r, i) == (r.tail + (i - 1)) % Slots

(* A position of the queue is a slot of the array. *)
LEMMA SlotIndex ==
  ASSUME NEW V, NEW r \in Rings(V), NEW i \in 1 .. Slots
  PROVE  /\ Slot(r, i) \in Index
         /\ Slot(r, i) = IF r.tail + (i - 1) < Slots THEN r.tail + (i - 1)
                         ELSE r.tail + (i - 1) - Slots
  <1>1. r.tail \in Index
    BY DEF Rings
  <1>. DEFINE a == r.tail + (i - 1)
  <1>2. a \in Nat /\ a < 2 * Slots
    BY <1>1, SlotsAssumption DEF Index
  <1>3. Slot(r, i) = a % Slots
    BY DEF Slot
  <1>. HIDE DEF a
  <1>4. Slot(r, i) = IF a < Slots THEN a ELSE a - Slots
    BY <1>2, <1>3, Around
  <1>5. Slot(r, i) \in Index
    BY <1>2, <1>4, SlotsAssumption DEF Index
  <1>. QED BY <1>1, <1>4, <1>5, SlotsAssumption DEF a, Index

(* The contents are a sequence of elements, as long as the ring's size. *)
LEMMA ContentsSeq ==
  ASSUME NEW V, NEW r \in Rings(V)
  PROVE  /\ Contents(r) \in Seq(V)
         /\ Len(Contents(r)) = Size(r)
         /\ \A i \in 1 .. Size(r) : Contents(r)[i] = r.buffer[Slot(r, i)]
  <1>1. Size(r) \in Nat /\ Size(r) < Slots
    BY SizeTells, SlotsAssumption
  <1>2. Contents(r) = [i \in 1 .. Size(r) |-> r.buffer[Slot(r, i)]]
    BY DEF Contents, Slot
  <1>3. ASSUME NEW i \in 1 .. Size(r) PROVE r.buffer[Slot(r, i)] \in V
    <2>1. i \in 1 .. Slots
      BY <1>1, SlotsAssumption
    <2>2. Slot(r, i) \in Index
      BY <2>1, SlotIndex
    <2>3. r.buffer \in [Index -> V]
      BY DEF Rings
    <2>. QED BY <2>2, <2>3
  <1>. QED BY <1>1, <1>2, <1>3

(* pop() of a ring that is not empty removes the oldest element, the one   *)
(* front() shows.                                                          *)
THEOREM PopRemovesOldest ==
  ASSUME NEW V, NEW r \in Rings(V), ~IsEmpty(r)
  PROVE  /\ Pop(r) \in Rings(V)
         /\ Contents(Pop(r)) = Tail(Contents(r))
         /\ Front(r) = Head(Contents(r))
  <1>. DEFINE p == Pop(r)
  <1>1. r.head \in Index /\ r.tail \in Index /\ r.buffer \in [Index -> V]
    BY DEF Rings
  <1>2. /\ p \in Rings(V)
        /\ p.buffer = r.buffer /\ p.head = r.head /\ p.tail = After(r.tail)
    BY <1>1, AfterIndex DEF Pop, Rings
  <1>3. After(r.tail) = IF r.tail = Slots - 1 THEN 0 ELSE r.tail + 1
    BY <1>1, AfterIndex
  <1>4. Size(r) \in 1 .. (Slots - 1) /\ Size(p) = Size(r) - 1
    <2>1. r.head # r.tail
      BY DEF IsEmpty
    <2>. QED BY <1>1, <1>2, <1>3, <2>1, SlotsAssumption DEF Size, Index
  <1>5. ASSUME NEW i \in 1 .. Size(p) PROVE Slot(p, i) = Slot(r, i + 1)
    <2>1. i \in 1 .. Slots /\ i + 1 \in 1 .. Slots
      BY <1>4, SlotsAssumption
    <2>2. Slot(p, i) = IF p.tail + (i - 1) < Slots THEN p.tail + (i - 1)
                       ELSE p.tail + (i - 1) - Slots
      BY <1>2, <2>1, SlotIndex
    <2>3. Slot(r, i + 1) = IF r.tail + (i + 1 - 1) < Slots THEN r.tail + (i + 1 - 1)
                           ELSE r.tail + (i + 1 - 1) - Slots
      BY <2>1, SlotIndex
    <2>4. p.tail = IF r.tail = Slots - 1 THEN 0 ELSE r.tail + 1
      BY <1>2, <1>3
    <2>. HIDE DEF p
    <2>. QED BY <1>1, <1>4, <2>2, <2>3, <2>4, SlotsAssumption DEF Index
  <1>6. Contents(p) = Tail(Contents(r))
    <2>1. /\ Contents(r) \in Seq(V) /\ Len(Contents(r)) = Size(r)
          /\ \A i \in 1 .. Size(r) : Contents(r)[i] = r.buffer[Slot(r, i)]
      BY ContentsSeq
    <2>2. /\ Contents(p) \in Seq(V) /\ Len(Contents(p)) = Size(p)
          /\ \A i \in 1 .. Size(p) : Contents(p)[i] = r.buffer[Slot(p, i)]
      BY <1>2, ContentsSeq
    <2>3. Tail(Contents(r)) \in Seq(V) /\ Len(Tail(Contents(r))) = Size(r) - 1
      BY <1>4, <2>1
    <2>4. \A i \in 1 .. Size(p) : Contents(p)[i] = Tail(Contents(r))[i]
      BY <1>4, <1>5, <2>1, <2>2, <2>3
    <2>. HIDE DEF p
    <2>. QED BY <1>4, <2>2, <2>3, <2>4
  <1>7. Front(r) = Head(Contents(r))
    <2>1. Slot(r, 1) = r.tail
      BY <1>1, SlotIndex, SlotsAssumption DEF Index
    <2>. QED BY <1>4, <2>1, ContentsSeq DEF Front
  <1>. QED BY <1>2, <1>6, <1>7

(* push() appends; a full ring gives up its oldest element first, and only *)
(* then.  The other elements and their order do not change.                *)
THEOREM PushAppends ==
  ASSUME NEW V, NEW r \in Rings(V), NEW v \in V
  PROVE  /\ Push(r, v) \in Rings(V)
         /\ Contents(Push(r, v)) =
              Append(IF IsFull(r) THEN Tail(Contents(r)) ELSE Contents(r), v)
  <1>. DEFINE p == Push(r, v)
  <1>1. r.head \in Index /\ r.tail \in Index /\ r.buffer \in [Index -> V]
    BY DEF Rings
  <1>2. /\ After(r.head) = IF r.head = Slots - 1 THEN 0 ELSE r.head + 1
        /\ After(r.tail) = IF r.tail = Slots - 1 THEN 0 ELSE r.tail + 1
        /\ After(r.head) \in Index /\ After(r.tail) \in Index
    BY <1>1, AfterIndex
  <1>3. /\ p.buffer = [r.buffer EXCEPT ![r.head] = v]
        /\ p.head = After(r.head)
        /\ p.tail = IF IsFull(r) THEN After(r.tail) ELSE r.tail
    BY DEF Push
  <1>4. p \in Rings(V)
    BY <1>1, <1>2 DEF Push, Rings
  <1>5. \A i \in Index : p.buffer[i] = IF i = r.head THEN v ELSE r.buffer[i]
    BY <1>1, <1>3
  <1>. HIDE DEF p
  <1>c. /\ Contents(r) \in Seq(V) /\ Len(Contents(r)) = Size(r)
        /\ \A i \in 1 .. Size(r) : Contents(r)[i] = r.buffer[Slot(r, i)]
    BY ContentsSeq
  <1>d. /\ Contents(p) \in Seq(V) /\ Len(Contents(p)) = Size(p)
        /\ \A i \in 1 .. Size(p) : Contents(p)[i] = p.buffer[Slot(p, i)]
    BY <1>4, ContentsSeq
  <1>e. Size(r) \in 0 .. (Slots - 1) /\ Size(p) \in 0 .. (Slots - 1)
    BY <1>4, SizeTells
  <1>6. CASE IsFull(r)
    <2>1. After(r.head) = r.tail
      BY <1>6 DEF IsFull
    <2>t. p.tail = IF r.tail = Slots - 1 THEN 0 ELSE r.tail + 1
      BY <1>2, <1>3, <1>6
    <2>h. p.head = r.tail
      BY <1>3, <2>1
    <2>2. Size(r) = Slots - 1 /\ Size(p) = Slots - 1
      <3>1. Size(r) = Slots - 1
        BY <1>6, SizeTells
      <3>2. p.tail \in Index
        BY <1>1, <2>t, SlotsAssumption DEF Index
      <3>3. Size(p) = Slots - 1
        BY <1>1, <2>t, <2>h, <3>2, SlotsAssumption DEF Size, Index
      <3>. QED BY <3>1, <3>3
    <2>3. Slot(p, Slots - 1) = r.head
      <3>1. Slots - 1 \in 1 .. Slots
        BY SlotsAssumption
      <3>2. Slot(p, Slots - 1) =
              IF p.tail + (Slots - 1 - 1) < Slots THEN p.tail + (Slots - 1 - 1)
              ELSE p.tail + (Slots - 1 - 1) - Slots
        BY <1>4, <3>1, SlotIndex
      <3>. QED BY <1>1, <1>2, <2>1, <2>t, <3>2, SlotsAssumption DEF Index
    <2>4. ASSUME NEW i \in 1 .. (Slots - 2)
          PROVE  /\ Slot(p, i) = Slot(r, i + 1) /\ Slot(p, i) \in Index
                 /\ Slot(p, i) # r.head
      <3>1. i \in 1 .. Slots /\ i + 1 \in 1 .. Slots
        BY SlotsAssumption
      <3>2. /\ Slot(p, i) \in Index
            /\ Slot(p, i) = IF p.tail + (i - 1) < Slots THEN p.tail + (i - 1)
                            ELSE p.tail + (i - 1) - Slots
        BY <1>4, <3>1, SlotIndex
      <3>3. Slot(r, i + 1) = IF r.tail + (i + 1 - 1) < Slots THEN r.tail + (i + 1 - 1)
                             ELSE r.tail + (i + 1 - 1) - Slots
        BY <3>1, SlotIndex
      <3>4. r.head = IF r.tail = 0 THEN Slots - 1 ELSE r.tail - 1
        BY <1>1, <1>2, <2>1, SlotsAssumption DEF Index
      <3>5. Slot(p, i) = Slot(r, i + 1)
        BY <1>1, <2>t, <3>2, <3>3, SlotsAssumption DEF Index
      <3>6. Slot(p, i) # r.head
        BY <1>1, <2>t, <3>2, <3>4, SlotsAssumption DEF Index
      <3>. QED BY <3>2, <3>5, <3>6
    <2>5. /\ Tail(Contents(r)) \in Seq(V) /\ Len(Tail(Contents(r))) = Slots - 2
          /\ \A i \in 1 .. (Slots - 2) : Tail(Contents(r))[i] = Contents(r)[i + 1]
      BY <1>c, <2>2, SlotsAssumption
    <2>6. \A i \in 1 .. (Slots - 2) : Contents(p)[i] = Tail(Contents(r))[i]
      BY <1>5, <1>c, <1>d, <2>2, <2>4, <2>5, SlotsAssumption
    <2>7. Contents(p)[Slots - 1] = v
      BY <1>1, <1>5, <1>d, <2>2, <2>3, SlotsAssumption
    <2>. HIDE DEF Contents
    <2>. DEFINE kept == Tail(Contents(r))
    <2>8. Contents(p) = Append(kept, v)
      BY <1>d, <2>2, <2>5, <2>6, <2>7, SlotsAssumption
    <2>. QED BY <1>4, <1>6, <2>8 DEF p
  <1>7. CASE ~IsFull(r)
    <2>1. After(r.head) # r.tail
      BY <1>7 DEF IsFull
    <2>2. Size(p) = Size(r) + 1
      BY <1>1, <1>2, <1>3, <1>7, <2>1, SlotsAssumption DEF Size, Index
    <2>3. Slot(p, Size(p)) = r.head
      <3>1. Size(p) \in 1 .. Slots
        BY <1>e, <2>2, SlotsAssumption
      <3>2. p.tail = r.tail
        BY <1>3, <1>7
      <3>3. Size(p) - 1 = IF r.head >= r.tail THEN r.head - r.tail ELSE Slots - (r.tail - r.head)
        BY <1>e, <2>2 DEF Size
      <3>4. Slot(p, Size(p)) =
              IF p.tail + (Size(p) - 1) < Slots THEN p.tail + (Size(p) - 1)
              ELSE p.tail + (Size(p) - 1) - Slots
        BY <1>4, <3>1, SlotIndex
      <3>. QED BY <1>1, <1>e, <3>2, <3>3, <3>4, SlotsAssumption DEF Index
    <2>4. ASSUME NEW i \in 1 .. Size(r)
          PROVE  /\ Slot(p, i) = Slot(r, i) /\ Slot(p, i) \in Index
                 /\ Slot(p, i) # r.head
      <3>1. i \in 1 .. Slots
        BY <1>e, SlotsAssumption
      <3>2. p.tail = r.tail
        BY <1>3, <1>7
      <3>3. i <= IF r.head >= r.tail THEN r.head - r.tail ELSE Slots - (r.tail - r.head)
        BY <1>e DEF Size
      <3>4. /\ Slot(p, i) \in Index
            /\ Slot(p, i) = IF p.tail + (i - 1) < Slots THEN p.tail + (i - 1)
                            ELSE p.tail + (i - 1) - Slots
        BY <1>4, <3>1, SlotIndex
      <3>5. Slot(r, i) = IF r.tail + (i - 1) < Slots THEN r.tail + (i - 1)
                         ELSE r.tail + (i - 1) - Slots
        BY <3>1, SlotIndex
      <3>. QED BY <1>1, <3>2, <3>3, <3>4, <3>5, SlotsAssumption DEF Index
    <2>5. \A i \in 1 .. Size(r) : Contents(p)[i] = Contents(r)[i]
      BY <1>5, <1>c, <1>d, <1>e, <2>2, <2>4
    <2>6. Contents(p)[Size(r) + 1] = v
      BY <1>1, <1>5, <1>d, <1>e, <2>2, <2>3
    <2>. HIDE DEF Contents
    <2>7. Contents(p) = Append(Contents(r), v)
      BY <1>c, <1>d, <1>e, <2>2, <2>5, <2>6
    <2>. QED BY <1>4, <1>7, <2>7 DEF p
  <1>. QED BY <1>6, <1>7

(* Popping several: the k oldest elements leave together. *)
Dropped(r, k) == [r EXCEPT !.tail = (@ + k) % Slots]

(* Popping k elements leaves the others, in their order.                   *)
LEMMA DropKeepsTheRest ==
  ASSUME NEW V, NEW r \in Rings(V), NEW k \in 0 .. Size(r)
  PROVE  /\ Dropped(r, k) \in Rings(V)
         /\ Size(Dropped(r, k)) = Size(r) - k
         /\ Contents(Dropped(r, k)) = SubSeq(Contents(r), k + 1, Size(r))
  <1>. DEFINE p == Dropped(r, k)
              a == r.tail + k
  <1>1. r.head \in Index /\ r.tail \in Index /\ r.buffer \in [Index -> V]
    BY DEF Rings
  <1>2. Size(r) \in 0 .. (Slots - 1)
    BY SizeTells
  <1>3. /\ p.buffer = r.buffer /\ p.head = r.head /\ p.tail = a % Slots
        /\ p = [buffer |-> r.buffer, head |-> r.head, tail |-> a % Slots]
    BY DEF Dropped, Rings
  <1>4. a \in Nat /\ a < 2 * Slots
    BY <1>1, <1>2, SlotsAssumption DEF Index
  <1>. HIDE DEF a, p
  <1>5. p.tail = IF a < Slots THEN a ELSE a - Slots
    BY <1>3, <1>4, Around
  <1>6. p.tail \in Index
    BY <1>4, <1>5, SlotsAssumption DEF Index
  <1>7. p \in Rings(V)
    BY <1>1, <1>3, <1>6 DEF Rings
  <1>8. Size(p) = Size(r) - k
    <2>1. Size(p) = IF r.head >= p.tail THEN r.head - p.tail ELSE Slots - (p.tail - r.head)
      BY <1>3 DEF Size
    <2>2. Size(r) = IF r.head >= r.tail THEN r.head - r.tail ELSE Slots - (r.tail - r.head)
      BY DEF Size
    <2>3. k \in Nat /\ k <= Size(r)
      BY <1>2
    <2>. QED BY <1>1, <1>5, <1>6, <2>1, <2>2, <2>3, SlotsAssumption DEF Index, a
  <1>9. ASSUME NEW i \in 1 .. Size(p) PROVE Slot(p, i) = Slot(r, i + k)
    <2>1. i \in 1 .. Slots /\ i + k \in 1 .. Slots
      BY <1>2, <1>8, SlotsAssumption
    <2>2. Slot(p, i) = IF p.tail + (i - 1) < Slots THEN p.tail + (i - 1)
                       ELSE p.tail + (i - 1) - Slots
      BY <1>7, <2>1, SlotIndex
    <2>3. Slot(r, i + k) = IF r.tail + (i + k - 1) < Slots THEN r.tail + (i + k - 1)
                           ELSE r.tail + (i + k - 1) - Slots
      BY <2>1, SlotIndex
    <2>4. i + k <= Size(r) /\ i \in Nat /\ k \in Nat
      BY <1>2, <1>8
    <2>5. i + k <= Slots - 1
      BY <1>2, <2>4, SlotsAssumption
    <2>. QED BY <1>1, <1>5, <2>2, <2>3, <2>4, <2>5, SlotsAssumption DEF Index, a
  <1>10. Contents(p) = SubSeq(Contents(r), k + 1, Size(r))
    <2>1. /\ Contents(r) \in Seq(V) /\ Len(Contents(r)) = Size(r)
          /\ \A i \in 1 .. Size(r) : Contents(r)[i] = r.buffer[Slot(r, i)]
      BY ContentsSeq
    <2>2. /\ Contents(p) \in Seq(V) /\ Len(Contents(p)) = Size(p)
          /\ \A i \in 1 .. Size(p) : Contents(p)[i] = p.buffer[Slot(p, i)]
      BY <1>7, ContentsSeq
    <2>. DEFINE c == Contents(r)
    <2>3. c \in Seq(V) /\ Len(c) = Size(r)
      BY <2>1
    <2>4. ASSUME NEW i \in 1 .. Size(p) PROVE Contents(p)[i] = c[i + k]
      <3>1. i + k \in 1 .. Size(r)
        BY <1>2, <1>8
      <3>. QED BY <1>3, <1>9, <2>1, <2>2, <3>1
    <2>. HIDE DEF c, Contents
    <2>5. Contents(p) = SubSeq(c, k + 1, Size(r))
      BY <1>2, <1>8, <2>2, <2>3, <2>4
    <2>. QED BY <2>5 DEF c
  <1>. QED BY <1>7, <1>8, <1>10 DEF p
=============================================================================
