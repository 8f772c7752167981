------------------------------ MODULE Parts_proofs ------------------------------
(***************************************************************************)
(* The small parts that meet nobody but their caller or one another: the   *)
(* ring between a producer and a consumer, the arena, the controllers, the *)
(* watchdogs, the deque, the socket, the configuration of the PHY, the     *)
(* button and the UART receiver, each for every value of its constants.    *)
(***************************************************************************)
EXTENDS RingBufferShared, StaticArena, Controllers, Watchdog, Deque, UdpSocket,
        DP83822Setup, UartRxSync, Button, RingBuffer_proofs, SequenceTheorems, FiniteSetTheorems

-----------------------------------------------------------------------------
(***************************************************************************)
(* RingBufferShared: the ring loses, repeats and tears nothing, for every  *)
(* capacity, where the host serialises the calls or keeps their accesses   *)
(* in order.  In order, each side owns a slot while it copies, the         *)
(* producer the free slot at head, the consumer the one at tail, and only  *)
(* its own last access gives it up.  Serialised, the ring is what it was   *)
(* before the call that is under way but for what that call has done.      *)
(***************************************************************************)
Elements == [Words -> Values]

(* Program order leaves the last accesses of a call. *)
Suffixes == {{}, {3}, {2, 3}, Accesses}

(* The producer's slot is free, and holds what was written of the element. *)
ProducerOwns ==
  /\ putting \in Suffixes
  /\ putting # {} => /\ into = ring.head /\ ~IsFull(ring)
                     /\ \A w \in Words \ putting : ring.buffer[into][w] = offered

(* The consumer's slot is taken, and what it copied is still there. *)
ConsumerOwns ==
  /\ taking \in Suffixes
  /\ taking # {} => /\ from = ring.tail /\ ~IsEmpty(ring)
                    /\ \A w \in Words \ taking : got[w] = ring.buffer[from][w]

Balanced(r) == sent = received \o Contents(r)

Ordered == inOrder => ProducerOwns /\ ConsumerOwns /\ Balanced(ring)

(* What push() has done to the ring r it was called on. *)
Pushing(r) ==
  /\ ~IsFull(r) /\ into = r.head /\ ring.tail = r.tail
  /\ ring.head = IF 3 \in putting THEN r.head ELSE After(r.head)
  /\ \A i \in Index \ {into} : ring.buffer[i] = r.buffer[i]
  /\ \A w \in Words \ putting : ring.buffer[into][w] = offered

(* What pop() has done to the ring r it was called on. *)
Popping(r) ==
  /\ ~IsEmpty(r) /\ from = r.tail /\ ring.head = r.head /\ ring.buffer = r.buffer
  /\ ring.tail = IF 3 \in taking THEN r.tail ELSE After(r.tail)
  /\ \A w \in Words \ taking : got[w] = r.buffer[from][w]

Alone ==
  serialised =>
    /\ putting = {} \/ taking = {}
    /\ putting = {} /\ taking = {} => Balanced(ring)
    /\ putting # {} => \E r \in Rings(Elements) : Balanced(r) /\ Pushing(r)
    /\ taking # {} => \E r \in Rings(Elements) : Balanced(r) /\ Popping(r)

RingInv == TypeOK /\ Ordered /\ Alone

(* An element moved from the front of one sequence to the end of another. *)
LEMMA MoveHead ==
  ASSUME NEW V, NEW s \in Seq(V), NEW t \in Seq(V), t # <<>>
  PROVE  s \o t = Append(s, Head(t)) \o Tail(t)
  BY SMTT(60)

LEMMA MoveLast ==
  ASSUME NEW V, NEW s \in Seq(V), NEW t \in Seq(V), NEW v \in V
  PROVE  s \o Append(t, v) = Append(s \o t, v)
  OBVIOUS

(* What is written to the free slot behind the newest element is not seen  *)
(* (the store before push() moves head_).                                  *)
LEMMA WriteBehind ==
  ASSUME NEW V, NEW r \in Rings(V), NEW v \in V
  PROVE  LET w == [r EXCEPT !.buffer[r.head] = v]
         IN  /\ w \in Rings(V) /\ w.head = r.head /\ w.tail = r.tail
             /\ w.buffer[r.head] = v
             /\ r.tail # r.head => w.buffer[r.tail] = r.buffer[r.tail]
             /\ Contents(w) = Contents(r)
  <1>. DEFINE w == [r EXCEPT !.buffer[r.head] = v]
  <1>1. r.head \in Index /\ r.tail \in Index /\ r.buffer \in [Index -> V]
    BY DEF Rings
  <1>2. w = [buffer |-> [r.buffer EXCEPT ![r.head] = v], head |-> r.head, tail |-> r.tail]
    BY DEF Rings
  <1>. HIDE DEF w
  <1>3. /\ w \in Rings(V) /\ w.head = r.head /\ w.tail = r.tail
        /\ w.buffer = [r.buffer EXCEPT ![r.head] = v]
    BY <1>1, <1>2 DEF Rings
  <1>4. Size(w) = Size(r) /\ Size(r) \in 0 .. (Slots - 1)
    BY <1>3, SizeTells DEF Size
  <1>5. ASSUME NEW i \in 1 .. Size(r)
        PROVE  w.buffer[Slot(w, i)] = r.buffer[Slot(r, i)]
    <2>1. i \in 1 .. Slots
      BY <1>4, SlotsAssumption
    <2>2. /\ Slot(r, i) \in Index
          /\ Slot(r, i) = IF r.tail + (i - 1) < Slots THEN r.tail + (i - 1)
                          ELSE r.tail + (i - 1) - Slots
      BY <2>1, SlotIndex
    <2>3. i <= IF r.head >= r.tail THEN r.head - r.tail ELSE Slots - (r.tail - r.head)
      BY <1>4 DEF Size
    <2>4. Slot(r, i) # r.head
      BY <1>1, <2>1, <2>2, <2>3, SlotsAssumption DEF Index
    <2>5. Slot(w, i) = Slot(r, i)
      BY <1>3 DEF Slot
    <2>. QED BY <1>1, <1>3, <2>2, <2>4, <2>5
  <1>6. Contents(w) = Contents(r)
    BY <1>3, <1>4, <1>5 DEF Contents, Slot
  <1>7. w.buffer[r.head] = v
    BY <1>1, <1>3
  <1>8. r.tail # r.head => w.buffer[r.tail] = r.buffer[r.tail]
    BY <1>1, <1>3
  <1>. QED BY <1>3, <1>6, <1>7, <1>8 DEF w

(* An empty ring is where both sides begin. *)
LEMMA RingInitInv == Init => RingInv
  <1>. SUFFICES ASSUME Init PROVE RingInv
    OBVIOUS
  <1>1. 0 \in Index /\ 0 \in Values /\ Whole(0) \in Elements
    BY SlotsAssumption, RingNeverOverwrites DEF Index, Values, Whole, Elements
  <1>2. ring \in Rings(Elements) /\ ring.head = 0 /\ ring.tail = 0
    BY <1>1 DEF Init, New, Rings
  <1>3. TypeOK
    BY <1>1, <1>2 DEF Init, TypeOK, Elements
  <1>4. Contents(ring) = <<>>
    <2>1. Size(ring) = 0
      BY <1>2 DEF Size
    <2>2. Contents(ring) \in Seq(Elements) /\ Len(Contents(ring)) = 0
      BY <1>2, <2>1, ContentsSeq
    <2>. QED BY <2>2
  <1>5. Balanced(ring)
    BY <1>4 DEF Init, Balanced
  <1>6. ProducerOwns /\ ConsumerOwns
    BY DEF Init, ProducerOwns, ConsumerOwns, Suffixes
  <1>7. Alone
    BY <1>5 DEF Init, Alone
  <1>. QED BY <1>3, <1>5, <1>6, <1>7 DEF RingInv, Ordered

(* A word is written to the slot, a word is read from it. *)
LEMMA RingTypes == TypeOK /\ [Next]_vars => TypeOK'
  <1>. SUFFICES ASSUME TypeOK, [Next]_vars PROVE TypeOK'
    OBVIOUS
  <1>1. /\ ring \in Rings(Elements) /\ ring.head \in Index /\ ring.tail \in Index
        /\ ring.buffer \in [Index -> Elements]
        /\ into \in Index /\ from \in Index /\ offered \in Values
    BY DEF TypeOK, Rings, Elements
  <1>2. CASE Offer
    BY <1>1, <1>2, RingNeverOverwrites
    DEF Offer, TypeOK, host, consuming, Values, Accesses
  <1>3. Whole(offered) \in Elements
    BY <1>1 DEF Whole, Elements
  <1>4. ASSUME NEW a \in Accesses, PutOne(a), ring' \in Rings(Elements) PROVE TypeOK'
    <2>1. sent \in Seq(Elements)
      BY DEF TypeOK, Elements
    <2>2. Append(sent, Whole(offered)) \in Seq(Elements)
      BY <1>3, <2>1
    <2>3. sent' \in Seq(Elements)
      BY <1>4, <2>1, <2>2 DEF PutOne
    <2>. QED BY <1>4, <2>3 DEF PutOne, TypeOK, host, consuming, Elements
  <1>5. ASSUME NEW w \in Words, CopyIn(w) PROVE TypeOK'
    <2>. DEFINE v == [ring.buffer[into] EXCEPT ![w] = offered]
    <2>1. v \in Elements
      BY <1>1 DEF Elements
    <2>. HIDE DEF v
    <2>2. ring' = [ring EXCEPT !.buffer = [ring.buffer EXCEPT ![into] = v]]
      BY <1>5 DEF CopyIn, v
    <2>3. ring' \in Rings(Elements)
      BY <1>1, <2>1, <2>2 DEF Rings
    <2>4. w \in Accesses
      BY DEF Words, Accesses
    <2>. QED BY <1>4, <1>5, <2>3, <2>4 DEF CopyIn
  <1>6. CASE Publish
    <2>1. After(into) \in Index
      BY <1>1, AfterIndex
    <2>2. ring' \in Rings(Elements)
      BY <1>1, <1>6, <2>1 DEF Publish, Rings
    <2>3. 3 \in Accesses
      BY DEF Accesses
    <2>. QED BY <1>4, <1>6, <2>2, <2>3 DEF Publish
  <1>7. CASE Look
    BY <1>1, <1>7 DEF Look, TypeOK, host, producing, Accesses
  <1>8. ASSUME NEW a \in Accesses, TakeOne(a), got' \in Elements, ring' \in Rings(Elements)
        PROVE  TypeOK'
    <2>1. received \in Seq(Elements)
      BY DEF TypeOK, Elements
    <2>2. Append(received, got') \in Seq(Elements)
      BY <1>8, <2>1
    <2>3. received' \in Seq(Elements)
      BY <1>8, <2>1, <2>2 DEF TakeOne
    <2>. QED BY <1>8, <2>3 DEF TakeOne, TypeOK, host, producing, Elements
  <1>9. ASSUME NEW w \in Words, CopyOut(w) PROVE TypeOK'
    <2>1. ring.buffer[from][w] \in Values
      BY <1>1 DEF Elements
    <2>2. got' \in Elements
      BY <1>9, <2>1 DEF CopyOut, TypeOK, Elements
    <2>3. w \in Accesses /\ ring' \in Rings(Elements)
      BY <1>1, <1>9 DEF CopyOut, Words, Accesses
    <2>. QED BY <1>8, <1>9, <2>2, <2>3 DEF CopyOut
  <1>10. CASE Release
    <2>1. After(from) \in Index
      BY <1>1, AfterIndex
    <2>2. ring' \in Rings(Elements)
      BY <1>1, <1>10, <2>1 DEF Release, Rings
    <2>3. 3 \in Accesses /\ got' \in Elements
      BY <1>10 DEF Release, Accesses, TypeOK, Elements
    <2>. QED BY <1>8, <1>10, <2>2, <2>3 DEF Release
  <1>11. CASE UNCHANGED vars
    BY <1>11 DEF vars, host, producing, consuming, TypeOK
  <1>. QED BY <1>2, <1>5, <1>6, <1>7, <1>9, <1>10, <1>11 DEF Next, Produce, Consume

(* In program order: the access that is due, and what is left after it. *)
LEMMA InOrder ==
  ASSUME inOrder, NEW left \in Suffixes, NEW a \in Accesses, Due(a, left)
  PROVE  /\ left \ {a} \in Suffixes /\ 3 \in left
         /\ a = 3 => left = {3}
         /\ a \in Words => left \ {a} # {}
         /\ a = 1 => Words \ (left \ {a}) = {1} /\ Words \ left = {}
         /\ a = 2 => Words \ (left \ {a}) = {1, 2} /\ Words \ left = {1}
         /\ a = 3 => Words \ left = Words
  BY DEF Due, Suffixes, Accesses, Words

(* Balanced in order, no access of either side breaks what the two own. *)
LEMMA OrderedStep == TypeOK /\ Ordered /\ [Next]_vars => Ordered'
  <1>. SUFFICES ASSUME TypeOK, Ordered, [Next]_vars, inOrder' PROVE Ordered'
    BY DEF Ordered
  <1>1. inOrder
    BY DEF Next, Produce, Consume, Offer, CopyIn, Publish, PutOne, Look, CopyOut, Release, TakeOne,
           vars, host
  <1>2. /\ ProducerOwns /\ ConsumerOwns /\ Balanced(ring)
        /\ ring \in Rings(Elements) /\ ring.head \in Index /\ ring.tail \in Index
        /\ ring.buffer \in [Index -> Elements] /\ offered \in Values
        /\ Contents(ring) \in Seq(Elements) /\ received \in Seq(Elements)
    BY <1>1, ContentsSeq DEF Ordered, TypeOK, Rings, Elements
  <1>3. CASE Offer
    <2>1. ring' = ring /\ taking' = taking /\ from' = from /\ got' = got /\ Balanced(ring)'
      BY <1>2, <1>3 DEF Offer, consuming, Balanced, Contents, Size
    <2>2. ConsumerOwns'
      BY <1>2, <2>1 DEF ConsumerOwns, IsEmpty
    <2>3. ProducerOwns'
      <3>1. CASE Accepts(ring)
        <4>1. putting' = Accesses /\ into' = ring.head /\ ~IsFull(ring)
          BY <1>3, <3>1, RingNeverOverwrites DEF Offer, Accepts
        <4>2. Words \ Accesses = {}
          BY DEF Words, Accesses
        <4>. QED BY <2>1, <4>1, <4>2 DEF ProducerOwns, Suffixes, IsFull
      <3>2. CASE ~Accepts(ring)
        <4>1. putting' = {}
          BY <1>3, <3>2 DEF Offer
        <4>. QED BY <4>1 DEF ProducerOwns, Suffixes
      <3>. QED BY <3>1, <3>2
    <2>. QED BY <2>1, <2>2, <2>3 DEF Ordered
  <1>4. ASSUME NEW w \in Words, CopyIn(w) PROVE Ordered'
    <2>. DEFINE v == [ring.buffer[into] EXCEPT ![w] = offered]
    <2>1. /\ Due(w, putting) /\ w \in Accesses /\ putting \in Suffixes /\ putting # {}
          /\ into = ring.head /\ ~IsFull(ring)
          /\ \A u \in Words \ putting : ring.buffer[into][u] = offered
      BY <1>2, <1>4 DEF CopyIn, PutOne, Due, ProducerOwns, Words, Accesses
    <2>2. /\ putting \ {w} \in Suffixes /\ putting \ {w} # {}
      BY <1>1, <2>1, InOrder
    <2>3. v \in Elements /\ v[w] = offered /\ \A u \in Words \ {w} : v[u] = ring.buffer[into][u]
      BY <1>2, <2>1 DEF Elements
    <2>4. /\ ring' = [ring EXCEPT !.buffer[ring.head] = v]
          /\ putting' = putting \ {w} /\ into' = into /\ offered' = offered
          /\ sent' = sent /\ UNCHANGED consuming
      BY <1>4, <2>1, <2>2 DEF CopyIn, PutOne
    <2>. HIDE DEF v
    <2>5. /\ ring' \in Rings(Elements) /\ ring'.head = ring.head /\ ring'.tail = ring.tail
          /\ ring'.buffer[ring.head] = v
          /\ ring.tail # ring.head => ring'.buffer[ring.tail] = ring.buffer[ring.tail]
          /\ Contents(ring') = Contents(ring)
      BY <1>2, <2>3, <2>4, WriteBehind
    <2>6. ProducerOwns'
      <3>1. \A u \in Words \ putting' : ring'.buffer[into'][u] = offered'
        BY <2>1, <2>3, <2>4, <2>5
      <3>. QED BY <2>1, <2>2, <2>4, <2>5, <3>1 DEF ProducerOwns, IsFull
    <2>7. ConsumerOwns'
      BY <1>2, <2>4, <2>5 DEF ConsumerOwns, IsEmpty, consuming
    <2>8. Balanced(ring)'
      BY <1>2, <2>4, <2>5 DEF Balanced, consuming
    <2>. QED BY <2>6, <2>7, <2>8 DEF Ordered
  <1>5. CASE Publish
    <2>1. /\ putting = {3} /\ into = ring.head /\ ~IsFull(ring)
          /\ \A u \in Words : ring.buffer[into][u] = offered
      <3>1. /\ Due(3, putting) /\ 3 \in Accesses /\ putting \in Suffixes /\ putting # {}
        BY <1>2, <1>5 DEF Publish, PutOne, Due, ProducerOwns, Accesses
      <3>2. putting = {3} /\ Words \ putting = Words
        BY <1>1, <3>1, InOrder
      <3>. QED BY <1>2, <3>1, <3>2 DEF ProducerOwns
    <2>2. /\ putting' = {} /\ sent' = Append(sent, Whole(offered))
          /\ ring' = [ring EXCEPT !.head = After(into)] /\ UNCHANGED consuming
      BY <1>5, <2>1 DEF Publish, PutOne
    <2>3. ring.buffer[ring.head] = Whole(offered) /\ Whole(offered) \in Elements
      BY <1>2, <2>1 DEF Whole, Elements
    <2>4. ring' = Push(ring, Whole(offered))
      <3>1. [ring.buffer EXCEPT ![ring.head] = Whole(offered)] = ring.buffer
        BY <1>2, <2>3
      <3>2. ring = [buffer |-> ring.buffer, head |-> ring.head, tail |-> ring.tail]
        BY <1>2 DEF Rings
      <3>3. ring' = [buffer |-> ring.buffer, head |-> After(ring.head), tail |-> ring.tail]
        BY <2>1, <2>2, <3>2
      <3>. QED BY <2>1, <3>1, <3>3 DEF Push
    <2>5. Contents(ring') = Append(Contents(ring), Whole(offered))
      BY <1>2, <2>1, <2>3, <2>4, PushAppends
    <2>6. /\ ring'.buffer = ring.buffer /\ ring'.head = After(ring.head)
          /\ ring'.tail = ring.tail
      BY <1>2, <2>1, <2>2 DEF Rings
    <2>7. ProducerOwns'
      BY <2>2 DEF ProducerOwns, Suffixes
    <2>8. ConsumerOwns'
      BY <1>2, <2>1, <2>2, <2>6 DEF ConsumerOwns, IsFull, IsEmpty, consuming
    <2>9. Balanced(ring)'
      <3>1. received \o Append(Contents(ring), Whole(offered))
              = Append(received \o Contents(ring), Whole(offered))
        BY <1>2, <2>3, MoveLast
      <3>. QED BY <1>2, <2>2, <2>5, <3>1 DEF Balanced, consuming
    <2>. QED BY <2>7, <2>8, <2>9 DEF Ordered
  <1>6. CASE Look
    <2>1. ring' = ring /\ UNCHANGED producing /\ Balanced(ring)'
      BY <1>2, <1>6 DEF Look, Balanced, Contents, Size, producing
    <2>2. ProducerOwns'
      BY <1>2, <2>1 DEF ProducerOwns, IsFull, producing
    <2>3. ConsumerOwns'
      <3>1. CASE IsEmpty(ring)
        <4>1. taking' = {}
          BY <1>6, <3>1 DEF Look
        <4>. QED BY <4>1 DEF ConsumerOwns, Suffixes
      <3>2. CASE ~IsEmpty(ring)
        <4>1. taking' = Accesses /\ from' = ring.tail
          BY <1>6, <3>2 DEF Look
        <4>2. Words \ Accesses = {}
          BY DEF Words, Accesses
        <4>. QED BY <2>1, <3>2, <4>1, <4>2 DEF ConsumerOwns, Suffixes, IsEmpty
      <3>. QED BY <3>1, <3>2
    <2>. QED BY <2>1, <2>2, <2>3 DEF Ordered
  <1>7. ASSUME NEW w \in Words, CopyOut(w) PROVE Ordered'
    <2>1. /\ Due(w, taking) /\ w \in Accesses /\ taking \in Suffixes /\ taking # {}
          /\ from = ring.tail /\ ~IsEmpty(ring)
          /\ \A u \in Words \ taking : got[u] = ring.buffer[from][u]
      BY <1>2, <1>7 DEF CopyOut, TakeOne, Due, ConsumerOwns, Words, Accesses
    <2>2. taking \ {w} \in Suffixes /\ taking \ {w} # {}
      BY <1>1, <2>1, InOrder
    <2>3. /\ ring' = ring /\ taking' = taking \ {w} /\ from' = from /\ received' = received
          /\ UNCHANGED producing /\ got' = [got EXCEPT ![w] = ring.buffer[from][w]]
      BY <1>7, <2>2 DEF CopyOut, TakeOne
    <2>4. \A u \in Words \ taking' : got'[u] = ring.buffer[from][u]
      BY <2>1, <2>3 DEF TypeOK
    <2>5. ConsumerOwns'
      BY <2>1, <2>2, <2>3, <2>4 DEF ConsumerOwns, IsEmpty
    <2>6. ProducerOwns'
      BY <1>2, <2>3 DEF ProducerOwns, IsFull, producing
    <2>7. Balanced(ring)'
      BY <1>2, <2>3 DEF Balanced, Contents, Size, producing
    <2>. QED BY <2>5, <2>6, <2>7 DEF Ordered
  <1>8. CASE Release
    <2>1. /\ taking = {3} /\ from = ring.tail /\ ~IsEmpty(ring)
          /\ \A u \in Words : got[u] = ring.buffer[from][u]
      <3>1. /\ Due(3, taking) /\ 3 \in Accesses /\ taking \in Suffixes /\ taking # {}
        BY <1>2, <1>8 DEF Release, TakeOne, Due, ConsumerOwns, Accesses
      <3>2. taking = {3} /\ Words \ taking = Words
        BY <1>1, <3>1, InOrder
      <3>. QED BY <1>2, <3>1, <3>2 DEF ConsumerOwns
    <2>2. /\ taking' = {} /\ got' = got /\ received' = Append(received, got)
          /\ ring' = [ring EXCEPT !.tail = After(from)] /\ UNCHANGED producing
      BY <1>8, <2>1 DEF Release, TakeOne
    <2>3. got = Front(ring)
      <3>1. got \in Elements /\ ring.buffer[ring.tail] \in Elements
        BY <1>2 DEF TypeOK, Elements
      <3>. QED BY <2>1, <3>1 DEF Front, Elements
    <2>4. ring' = Pop(ring)
      BY <2>1, <2>2 DEF Pop
    <2>5. Contents(ring') = Tail(Contents(ring)) /\ got = Head(Contents(ring))
      BY <1>2, <2>1, <2>3, <2>4, PopRemovesOldest
    <2>6. /\ ring'.buffer = ring.buffer /\ ring'.head = ring.head
          /\ ring'.tail = After(ring.tail)
      BY <1>2, <2>1, <2>2 DEF Rings
    <2>7. ProducerOwns'
      <3>1. /\ After(ring.head) = IF ring.head = Slots - 1 THEN 0 ELSE ring.head + 1
            /\ After(ring.tail) = IF ring.tail = Slots - 1 THEN 0 ELSE ring.tail + 1
        BY <1>2, AfterIndex
      <3>2. ~IsFull(ring')
        BY <1>2, <2>1, <2>6, <3>1, SlotsAssumption DEF IsFull, IsEmpty, Index
      <3>. QED BY <1>2, <2>2, <2>6, <3>2 DEF ProducerOwns, producing
    <2>8. ConsumerOwns'
      BY <2>2 DEF ConsumerOwns, Suffixes
    <2>9. Balanced(ring)'
      <3>1. Len(Contents(ring)) = Size(ring) /\ Size(ring) # 0
        BY <1>2, <2>1, ContentsSeq, SizeTells
      <3>2. Contents(ring) # <<>>
        BY <3>1
      <3>3. received \o Contents(ring)
              = Append(received, Head(Contents(ring))) \o Tail(Contents(ring))
        BY <1>2, <3>2, MoveHead
      <3>. QED BY <1>2, <2>2, <2>5, <3>3 DEF Balanced, producing
    <2>. QED BY <2>7, <2>8, <2>9 DEF Ordered
  <1>9. CASE UNCHANGED vars
    BY <1>2, <1>9
    DEF vars, producing, consuming, Ordered, ProducerOwns, ConsumerOwns, Balanced, IsFull, IsEmpty,
        Contents, Size
  <1>. QED
    BY <1>3, <1>4, <1>5, <1>6, <1>7, <1>8, <1>9 DEF Next, Produce, Consume

(* Serialised, the call that is under way ends with the ring pushed or     *)
(* popped as a whole, whichever order its accesses come in.                *)
LEMMA AloneStep == TypeOK /\ Alone /\ [Next]_vars => Alone'
  <1>. SUFFICES ASSUME TypeOK, Alone, [Next]_vars, serialised' PROVE Alone'
    BY DEF Alone
  <1>1. serialised
    BY DEF Next, Produce, Consume, Offer, CopyIn, Publish, PutOne, Look, CopyOut, Release, TakeOne,
           vars, host
  <1>2. /\ ring \in Rings(Elements) /\ ring.head \in Index /\ ring.tail \in Index
        /\ ring.buffer \in [Index -> Elements] /\ offered \in Values
        /\ into \in Index /\ from \in Index /\ received \in Seq(Elements)
    BY DEF TypeOK, Rings, Elements
  <1>3. CASE Offer
    <2>1. putting = {} /\ taking = {} /\ Balanced(ring)
      BY <1>1, <1>3 DEF Offer, Alone
    <2>2. ring' = ring /\ sent' = sent /\ received' = received /\ taking' = {}
      BY <1>3, <2>1 DEF Offer, consuming
    <2>3. CASE Accepts(ring)
      <3>1. putting' = Accesses /\ into' = ring.head /\ ~IsFull(ring)
        BY <1>3, <2>3, RingNeverOverwrites DEF Offer, Accepts
      <3>2. Words \ Accesses = {} /\ Accesses # {} /\ 3 \in Accesses
        BY DEF Words, Accesses
      <3>3. Pushing(ring)'
        BY <2>2, <3>1, <3>2 DEF Pushing, IsFull
      <3>4. Balanced(ring)'
        BY <2>1, <2>2 DEF Balanced, Contents, Size
      <3>5. \E r \in Rings(Elements) : Balanced(r)' /\ Pushing(r)'
        BY <1>2, <2>2, <3>3, <3>4
      <3>. QED BY <2>2, <3>1, <3>2, <3>5 DEF Alone
    <2>4. CASE ~Accepts(ring)
      <3>1. putting' = {}
        BY <1>3, <2>1, <2>4 DEF Offer
      <3>. QED BY <2>1, <2>2, <3>1 DEF Alone, Balanced, Contents, Size
    <2>. QED BY <2>3, <2>4
  <1>4. ASSUME NEW a \in Accesses, PutOne(a), NEW r \in Rings(Elements), Balanced(r),
               ring' \in Rings(Elements), Pushing(r)', taking = {}
        PROVE  Alone'
    <2>1. /\ taking' = {} /\ received' = received /\ offered' = offered
          /\ sent' = IF putting' = {} THEN Append(sent, Whole(offered)) ELSE sent
      BY <1>4 DEF PutOne, consuming
    <2>2. CASE putting' # {}
      BY <1>4, <2>1, <2>2 DEF Alone, Balanced
    <2>3. CASE putting' = {}
      <3>1. /\ ~IsFull(r) /\ into' = r.head /\ ring'.tail = r.tail /\ ring'.head = After(r.head)
            /\ \A i \in Index \ {r.head} : ring'.buffer[i] = r.buffer[i]
            /\ \A w \in Words : ring'.buffer[r.head][w] = offered
        BY <1>4, <2>1, <2>3 DEF Pushing
      <3>2. Whole(offered) \in Elements /\ r.head \in Index /\ r.buffer \in [Index -> Elements]
            /\ ring'.buffer \in [Index -> Elements]
        BY <1>2, <1>4 DEF Whole, Elements, Rings
      <3>3. ring'.buffer[r.head] = Whole(offered)
        BY <3>1, <3>2 DEF Whole, Elements
      <3>4. ring'.buffer = [r.buffer EXCEPT ![r.head] = Whole(offered)]
        BY <3>1, <3>2, <3>3
      <3>5. ring' = [buffer |-> ring'.buffer, head |-> ring'.head, tail |-> ring'.tail]
        BY <1>4 DEF Rings
      <3>6. ring' = Push(r, Whole(offered))
        BY <3>1, <3>4, <3>5 DEF Push
      <3>7. Contents(ring') = Append(Contents(r), Whole(offered)) /\ Contents(r) \in Seq(Elements)
        BY <3>1, <3>2, <3>6, PushAppends, ContentsSeq
      <3>8. received \o Append(Contents(r), Whole(offered))
              = Append(received \o Contents(r), Whole(offered))
        BY <1>2, <3>2, <3>7, MoveLast
      <3>9. Balanced(ring)'
        BY <1>4, <2>1, <2>3, <3>7, <3>8 DEF Balanced
      <3>. QED BY <2>1, <2>3, <3>9 DEF Alone
    <2>. QED BY <2>2, <2>3
  <1>5. ASSUME NEW w \in Words, CopyIn(w) PROVE Alone'
    <2>1. w \in Accesses /\ PutOne(w) /\ putting # {} /\ taking = {} /\ w # 3
      BY <1>1, <1>5 DEF CopyIn, PutOne, Due, Alone, Words, Accesses
    <2>2. PICK r \in Rings(Elements) : Balanced(r) /\ Pushing(r)
      BY <1>1, <2>1 DEF Alone
    <2>. DEFINE v == [ring.buffer[into] EXCEPT ![w] = offered]
    <2>3. v \in Elements /\ v[w] = offered /\ \A u \in Words \ {w} : v[u] = ring.buffer[into][u]
      BY <1>2 DEF Elements
    <2>4. ring' = [ring EXCEPT !.buffer = [ring.buffer EXCEPT ![into] = v]]
      BY <1>5 DEF CopyIn
    <2>. HIDE DEF v
    <2>5. /\ ring' \in Rings(Elements) /\ ring'.head = ring.head /\ ring'.tail = ring.tail
          /\ ring'.buffer[into] = v /\ \A i \in Index \ {into} : ring'.buffer[i] = ring.buffer[i]
      BY <1>2, <2>3, <2>4 DEF Rings
    <2>6. putting' = putting \ {w} /\ into' = into /\ offered' = offered
      BY <2>1 DEF PutOne
    <2>7. 3 \in putting' <=> 3 \in putting
      BY <2>1, <2>6
    <2>8. \A u \in Words \ putting' : ring'.buffer[into][u] = offered
      BY <2>2, <2>3, <2>5, <2>6 DEF Pushing
    <2>9. Pushing(r)'
      BY <2>2, <2>5, <2>6, <2>7, <2>8 DEF Pushing
    <2>. QED BY <1>4, <2>1, <2>2, <2>5, <2>9
  <1>6. CASE Publish
    <2>1. 3 \in Accesses /\ PutOne(3) /\ 3 \in putting /\ taking = {}
      BY <1>1, <1>6 DEF Publish, PutOne, Due, Alone, Accesses
    <2>2. PICK r \in Rings(Elements) : Balanced(r) /\ Pushing(r)
      BY <1>1, <2>1 DEF Alone
    <2>3. After(into) \in Index
      BY <1>2, AfterIndex
    <2>4. /\ ring' \in Rings(Elements) /\ ring'.buffer = ring.buffer /\ ring'.tail = ring.tail
          /\ ring'.head = After(into)
      BY <1>2, <1>6, <2>3 DEF Publish, Rings
    <2>5. putting' = putting \ {3} /\ into' = into /\ offered' = offered
      BY <2>1 DEF PutOne
    <2>6. Words \ putting' = Words \ putting
      BY <2>5 DEF Words
    <2>7. Pushing(r)'
      BY <2>2, <2>4, <2>5, <2>6 DEF Pushing
    <2>. QED BY <1>4, <2>1, <2>2, <2>4, <2>7
  <1>7. CASE Look
    <2>1. putting = {} /\ taking = {} /\ Balanced(ring)
      BY <1>1, <1>7 DEF Look, Alone
    <2>2. ring' = ring /\ sent' = sent /\ received' = received /\ putting' = {}
      BY <1>7, <2>1 DEF Look, producing
    <2>3. CASE ~IsEmpty(ring)
      <3>1. taking' = Accesses /\ from' = ring.tail
        BY <1>7, <2>3 DEF Look
      <3>2. Words \ Accesses = {} /\ Accesses # {} /\ 3 \in Accesses
        BY DEF Words, Accesses
      <3>3. Popping(ring)'
        BY <2>2, <2>3, <3>1, <3>2 DEF Popping, IsEmpty
      <3>4. Balanced(ring)'
        BY <2>1, <2>2 DEF Balanced, Contents, Size
      <3>5. \E r \in Rings(Elements) : Balanced(r)' /\ Popping(r)'
        BY <1>2, <2>2, <3>3, <3>4
      <3>. QED BY <2>2, <3>1, <3>2, <3>5 DEF Alone
    <2>4. CASE IsEmpty(ring)
      <3>1. taking' = {}
        BY <1>7, <2>1, <2>4 DEF Look
      <3>. QED BY <2>1, <2>2, <3>1 DEF Alone, Balanced, Contents, Size
    <2>. QED BY <2>3, <2>4
  <1>8. ASSUME NEW a \in Accesses, TakeOne(a), NEW r \in Rings(Elements), Balanced(r),
               ring' \in Rings(Elements), got' \in Elements, Popping(r)', putting = {}
        PROVE  Alone'
    <2>1. /\ putting' = {} /\ sent' = sent
          /\ received' = IF taking' = {} THEN Append(received, got') ELSE received
      BY <1>8 DEF TakeOne, producing
    <2>2. CASE taking' # {}
      BY <1>8, <2>1, <2>2 DEF Alone, Balanced
    <2>3. CASE taking' = {}
      <3>1. /\ ~IsEmpty(r) /\ ring'.head = r.head /\ ring'.buffer = r.buffer
            /\ ring'.tail = After(r.tail) /\ from' = r.tail
            /\ \A w \in Words : got'[w] = r.buffer[r.tail][w]
        BY <1>8, <2>3 DEF Popping
      <3>2. r.buffer[r.tail] \in Elements
        BY <1>8 DEF Rings
      <3>3. got' = Front(r)
        BY <1>8, <3>1, <3>2 DEF Front, Elements
      <3>4. ring' = [buffer |-> ring'.buffer, head |-> ring'.head, tail |-> ring'.tail]
        BY <1>8 DEF Rings
      <3>5. r = [buffer |-> r.buffer, head |-> r.head, tail |-> r.tail]
        BY DEF Rings
      <3>6. ring' = Pop(r)
        BY <3>1, <3>4, <3>5 DEF Pop
      <3>7. Contents(ring') = Tail(Contents(r)) /\ got' = Head(Contents(r))
        BY <3>1, <3>3, <3>6, PopRemovesOldest
      <3>8. Contents(r) \in Seq(Elements) /\ Contents(r) # <<>>
        <4>1. Contents(r) \in Seq(Elements) /\ Len(Contents(r)) = Size(r) /\ Size(r) # 0
          BY <3>1, ContentsSeq, SizeTells
        <4>. QED BY <4>1
      <3>9. received \o Contents(r) = Append(received, Head(Contents(r))) \o Tail(Contents(r))
        BY <1>2, <3>8, MoveHead
      <3>10. Balanced(ring)'
        BY <1>8, <2>1, <2>3, <3>7, <3>9 DEF Balanced
      <3>. QED BY <2>1, <2>3, <3>10 DEF Alone
    <2>. QED BY <2>2, <2>3
  <1>9. ASSUME NEW w \in Words, CopyOut(w) PROVE Alone'
    <2>1. w \in Accesses /\ TakeOne(w) /\ taking # {} /\ putting = {} /\ w # 3
      BY <1>1, <1>9 DEF CopyOut, TakeOne, Due, Alone, Words, Accesses
    <2>2. PICK r \in Rings(Elements) : Balanced(r) /\ Popping(r)
      BY <1>1, <2>1 DEF Alone
    <2>3. /\ ring' = ring /\ taking' = taking \ {w} /\ from' = from
          /\ got' = [got EXCEPT ![w] = ring.buffer[from][w]]
      BY <1>9 DEF CopyOut, TakeOne
    <2>4. got' \in Elements
      BY <1>2, <2>3 DEF TypeOK, Elements
    <2>5. 3 \in taking' <=> 3 \in taking
      BY <2>1, <2>3
    <2>6. \A u \in Words \ taking' : got'[u] = r.buffer[from][u]
      BY <2>2, <2>3 DEF Popping, TypeOK
    <2>7. Popping(r)'
      BY <2>2, <2>3, <2>5, <2>6 DEF Popping
    <2>. QED BY <1>2, <1>8, <2>1, <2>2, <2>3, <2>4, <2>7
  <1>10. CASE Release
    <2>1. 3 \in Accesses /\ TakeOne(3) /\ 3 \in taking /\ putting = {}
      BY <1>1, <1>10 DEF Release, TakeOne, Due, Alone, Accesses
    <2>2. PICK r \in Rings(Elements) : Balanced(r) /\ Popping(r)
      BY <1>1, <2>1 DEF Alone
    <2>3. After(from) \in Index
      BY <1>2, AfterIndex
    <2>4. /\ ring' \in Rings(Elements) /\ ring'.buffer = ring.buffer /\ ring'.head = ring.head
          /\ ring'.tail = After(from) /\ got' = got /\ got' \in Elements
      BY <1>2, <1>10, <2>3 DEF Release, Rings, TypeOK, Elements
    <2>5. taking' = taking \ {3} /\ from' = from
      BY <2>1 DEF TakeOne
    <2>6. Words \ taking' = Words \ taking
      BY <2>5 DEF Words
    <2>7. Popping(r)'
      BY <2>2, <2>4, <2>5, <2>6 DEF Popping
    <2>. QED BY <1>8, <2>1, <2>2, <2>4, <2>7
  <1>11. CASE UNCHANGED vars
    BY <1>11
    DEF vars, host, producing, consuming, Alone, Balanced, Pushing, Popping, Contents, Size
  <1>. QED
    BY <1>3, <1>5, <1>6, <1>7, <1>9, <1>10, <1>11 DEF Next, Produce, Consume

LEMMA RingStepInv == RingInv /\ [Next]_vars => RingInv'
  BY RingTypes, OrderedStep, AloneStep DEF RingInv

(* The types, and with them the indices of the ring, hold in every state. *)
THEOREM RingTypeCorrect == Spec => []TypeOK
  <1>1. RingInv => TypeOK
    BY DEF RingInv
  <1>. QED BY <1>1, RingInitInv, RingStepInv, PTL DEF Spec

(* What pop() returned and what the ring holds is what push() accepted, in *)
(* order and whole, for every capacity: between calls that the host        *)
(* serialises, and at any time where the accesses of a call are in order.  *)
THEOREM DeliveredThm == Spec => []Delivered
  <1>1. RingInv => Delivered
    BY DEF RingInv, Ordered, Alone, Balanced, Delivered
  <1>. QED BY <1>1, RingInitInv, RingStepInv, PTL DEF Spec

-----------------------------------------------------------------------------
(***************************************************************************)
(* StaticArena: its blocks are disjoint for any threads and requests.      *)
(***************************************************************************)
(* Euclid's division, which the provers know of separate facts.            *)
LEMMA Euclid ==
  ASSUME NEW x \in Nat, NEW a \in Nat \ {0}
  PROVE  /\ x \div a \in Nat
         /\ x = a * (x \div a) + (x % a)
         /\ x % a \in 0..(a - 1)
<1>1. x \div a \in Nat
  BY SMT
<1>2. x = a * (x \div a) + (x % a)
  BY SMT
<1>3. x % a \in 0..(a - 1)
  BY SMT
<1> QED
  BY <1>1, <1>2, <1>3

(* A factor is not above its product.                                      *)
LEMMA FactorBound ==
  ASSUME NEW a \in Nat \ {0}, NEW k \in Nat
  PROVE  a * k \in Nat /\ k <= a * k
  BY SMT

(* Rounding up reaches a multiple of the alignment and loses nothing.      *)
LEMMA AlignedRounds ==
  ASSUME NEW at \in Nat, NEW alignment \in Nat \ {0}
  PROVE  /\ Aligned(at, alignment) \in Nat
         /\ at <= Aligned(at, alignment)
         /\ \E k \in 0..Aligned(at, alignment) : Aligned(at, alignment) = alignment * k
<1> DEFINE x == at + (alignment - 1)
           k == x \div alignment
<1>1. x \in Nat
  OBVIOUS
<1>2. k \in Nat /\ x = alignment * k + (x % alignment) /\ x % alignment \in 0..(alignment - 1)
  BY <1>1, Euclid
<1>3. alignment * k \in Nat /\ k <= alignment * k
  BY <1>2, FactorBound
<1>4. Aligned(at, alignment) = alignment * k
  BY DEF Aligned
<1>5. at <= alignment * k
  <2> HIDE DEF k
  <2> QED
    BY <1>2, <1>3
<1> HIDE DEF k
<1> QED
  BY <1>2, <1>3, <1>4, <1>5

Block == [start : Nat, size : Nat \ {0}, align : Nat \ {0}]

(* What every thread and block keeps to: a copy of the offset is a number, *)
(* and the blocks lie below the offset.                                    *)
ArenaInv ==
  /\ offset \in Nat /\ offset <= ArenaSize
  /\ request \in [Threads -> Requests \cup {<<>>}]
  /\ expected \in [Threads -> Nat]
  /\ blocks \subseteq Block
  /\ \A b \in blocks : /\ b.start + b.size <= offset
                       /\ OnItsAlignment(b)
  /\ \A b, c \in blocks : b = c \/ b.start + b.size <= c.start \/ c.start + c.size <= b.start

(* Blocks stay apart below the offset, in whatever order threads race. *)
THEOREM ArenaInvariance == ArenaSpec => []ArenaInv
<1> USE ArenaAssumption
<1>1. ArenaInit => ArenaInv
  BY DEF ArenaInit, ArenaInv
<1>2. ArenaInv /\ [ArenaNext]_arenaVars => ArenaInv'
  <2> SUFFICES ASSUME ArenaInv, [ArenaNext]_arenaVars PROVE ArenaInv'
    OBVIOUS
  <2>1. CASE ClearArena
    BY <2>1 DEF ClearArena, ArenaInv
  <2>2. ASSUME NEW t \in Threads, NEW r \in Requests, Call(t, r) PROVE ArenaInv'
    BY <2>2 DEF Call, ArenaInv
  <2>3. ASSUME NEW t \in Threads, Exhausted(t) PROVE ArenaInv'
    BY <2>3 DEF Exhausted, ArenaInv
  <2>4. ASSUME NEW t \in Threads, Retry(t) PROVE ArenaInv'
    BY <2>4 DEF Retry, ArenaInv
  <2>5. ASSUME NEW t \in Threads, Exchange(t) PROVE ArenaInv'
    <3> DEFINE new == [start |-> Start(t), size |-> request[t][1], align |-> request[t][2]]
    <3>1. request[t][1] \in Nat \ {0} /\ request[t][2] \in Nat \ {0}
      BY <2>5 DEF Exchange, ArenaInv
    <3>2. /\ Start(t) \in Nat /\ offset <= Start(t)
          /\ \E k \in 0..Start(t) : Start(t) = request[t][2] * k
      BY <2>5, <3>1, AlignedRounds DEF Exchange, ArenaInv, Start
    <3>3. /\ offset' = Start(t) + request[t][1] /\ offset' <= ArenaSize
          /\ blocks' = blocks \cup {new}
      BY <2>5 DEF Exchange, Desired
    <3>4. new \in Block
      BY <3>1, <3>2 DEF Block
    <3>5. \A b \in blocks' : /\ b.start + b.size <= offset'
                             /\ OnItsAlignment(b)
      <4>1. new.start + new.size <= offset' /\ OnItsAlignment(new)
        BY <3>1, <3>2, <3>3 DEF OnItsAlignment
      <4>2. \A b \in blocks : b.start + b.size <= offset'
        BY <3>1, <3>2, <3>3, SMTT(30) DEF ArenaInv, Block
      <4> QED
        BY <3>3, <4>1, <4>2 DEF ArenaInv
    <3>6. \A b \in blocks : b.start + b.size <= new.start
      BY <3>2 DEF ArenaInv, Block
    <3>7. \A b, c \in blocks' :
            b = c \/ b.start + b.size <= c.start \/ c.start + c.size <= b.start
      BY <3>3, <3>6 DEF ArenaInv
    <3>8. request' \in [Threads -> Requests \cup {<<>>}] /\ expected' \in [Threads -> Nat]
      BY <2>5 DEF Exchange, ArenaInv
    <3>9. offset' \in Nat /\ offset' <= ArenaSize /\ blocks' \subseteq Block
      BY <3>1, <3>2, <3>3, <3>4 DEF ArenaInv
    <3> QED
      BY <3>5, <3>7, <3>8, <3>9 DEF ArenaInv
  <2>6. CASE UNCHANGED arenaVars
    BY <2>6 DEF arenaVars, ArenaInv
  <2> QED
    BY <2>1, <2>2, <2>3, <2>4, <2>5, <2>6 DEF ArenaNext
<1> QED
  BY <1>1, <1>2, PTL DEF ArenaSpec

(* static_arena.hpp: the compare-and-exchange gives concurrent callers     *)
(* disjoint, aligned blocks inside the buffer.                             *)
THEOREM BlocksDisjointThm == ArenaSpec => []BlocksDisjoint
<1>1. ArenaInv => BlocksDisjoint
  BY ArenaAssumption DEF ArenaInv, BlocksDisjoint, Block
<1> QED
  BY <1>1, ArenaInvariance, PTL

-----------------------------------------------------------------------------
(***************************************************************************)
(* Controllers: outputs stay within their limits for any integer inputs,   *)
(* gains and limits.                                                       *)
(***************************************************************************)
LEMMA ClampBounds ==
  ASSUME NEW x \in Int, NEW max \in Nat
  PROVE  Clamp(x, max) \in Int /\ Abs(Clamp(x, max)) <= max
  BY DEF Clamp, Abs

(* The types, the bound, and why a new limit cannot undercut an integral   *)
(* that a calc() leaves alone: only a PIDMotor has one.                    *)
ControlInv ==
  /\ cfg \in Configs
  /\ prevError \in Int /\ integral \in Int /\ output \in Int /\ limit \in Nat
  /\ kind # "PIDMotor" => integral = 0
  /\ OutputBounded

(* Limits, integral and output agree after every call. *)
THEOREM ControlInvariance == ControlSpec => []ControlInv
<1>1. ControlInit => ControlInv
  BY DEF ControlInit, ControlInv, OutputBounded, Abs
<1>2. ControlInv /\ [ControlNext]_controlVars => ControlInv'
  <2> SUFFICES ASSUME ControlInv, [ControlNext]_controlVars PROVE ControlInv'
    OBVIOUS
  <2>1. /\ cfg.Kp \in Int /\ cfg.Ki \in Int /\ cfg.Kd \in Int /\ cfg.max \in Nat
        /\ Inputs \subseteq Int /\ Errors \subseteq Int
    <3>1. /\ cfg.Kp \in Gains /\ cfg.Ki \in Gains /\ cfg.Kd \in Gains /\ cfg.max \in Limits
      BY DEF ControlInv, Configs
    <3>2. Inputs \subseteq Int /\ Gains \subseteq Int /\ Limits \subseteq Nat
      BY ControlAssumption
    <3>3. \A x, y \in Inputs : x - y \in Int
      BY <3>2
    <3>4. Errors \subseteq Int
      BY <3>3 DEF Errors
    <3> QED
      BY <3>1, <3>2, <3>4
  <2>2. ASSUME NEW e \in Errors, NEW ff \in Int
        PROVE  Main(e, ff) \in Int /\ Abs(Main(e, ff)) <= cfg.max
    <3>1. cfg.Kp * e + cfg.Kd * (e - prevError) + ff \in Int
      BY <2>1 DEF ControlInv
    <3> QED
      BY <2>1, <3>1, ClampBounds DEF Main
  <2>3. ASSUME NEW e \in Errors, NEW ff \in Inputs, PidCalc(e, ff) PROVE ControlInv'
    <3>1. cfg.max - Abs(Main(e, ff)) \in Nat
      BY <2>1, <2>2 DEF Abs
    <3>2. integral + cfg.Ki * e \in Int
      BY <2>1 DEF ControlInv
    <3>3. Integral(e, ff) \in Int /\ Abs(Integral(e, ff)) <= cfg.max - Abs(Main(e, ff))
      BY <3>1, <3>2, ClampBounds DEF Integral
    <3>4. /\ output' = Main(e, ff) + Integral(e, ff) /\ integral' = Integral(e, ff)
          /\ limit' = cfg.max /\ cfg' = cfg /\ prevError' = e /\ kind' = "PIDMotor"
      BY <2>3 DEF PidCalc, Put
    <3>5. Abs(output') <= cfg.max /\ Abs(integral') <= cfg.max
      BY <2>1, <2>2, <3>3, <3>4 DEF Abs
    <3> QED
      BY <2>1, <2>2, <3>3, <3>4, <3>5 DEF ControlInv, OutputBounded
  <2>4. ASSUME NEW e \in Errors, PdCalc(e) PROVE ControlInv'
    <3>1. Main(e, 0) \in Int /\ Abs(Main(e, 0)) <= cfg.max
      BY <2>2
    <3>2. /\ output' = Main(e, 0) /\ limit' = cfg.max /\ cfg' = cfg /\ prevError' = e
          /\ kind' = kind /\ kind = "PD" /\ integral' = integral /\ integral = 0
      BY <2>4 DEF PdCalc, Put, ControlInv
    <3> QED
      BY <2>1, <3>1, <3>2 DEF ControlInv, OutputBounded, Abs
  <2>5. ASSUME NEW e \in Errors, NEW v \in Errors, NEW ff \in Inputs, MitCalc(e, v, ff)
        PROVE  ControlInv'
    <3>1. PICK x \in Int : x = ff + cfg.Kp * e + cfg.Kd * v
      <4>1. cfg.Kp * e \in Int /\ cfg.Kd * v \in Int /\ ff \in Int
        BY <2>1
      <4> QED
        BY <4>1
    <3>2. /\ output' = Clamp(x, cfg.max) /\ limit' = cfg.max
          /\ cfg' = cfg /\ prevError' = prevError /\ kind' = kind /\ kind = "MITPD"
          /\ integral' = integral /\ integral = 0
      BY <2>5, <3>1 DEF MitCalc, Put, ControlInv
    <3>3. output' \in Int /\ Abs(output') <= cfg.max
      BY <2>1, <3>2, ClampBounds
    <3>4. Abs(integral') <= cfg.max
      BY <2>1, <3>2 DEF Abs
    <3> QED
      BY <2>1, <3>2, <3>3, <3>4 DEF ControlInv, OutputBounded
  <2>6. ASSUME NEW c \in Configs, SetConfig(c) PROVE ControlInv'
    BY <2>6 DEF SetConfig, ControlInv, OutputBounded
  <2>7. CASE Reset
    BY <2>7 DEF Reset, ControlInv, OutputBounded, Abs
  <2>8. CASE UNCHANGED controlVars
    BY <2>8 DEF controlVars, ControlInv, OutputBounded
  <2> QED
    BY <2>3, <2>4, <2>5, <2>6, <2>7, <2>8 DEF ControlNext
<1> QED
  BY <1>1, <1>2, PTL DEF ControlSpec

(* pid_motor.cpp, pid_pd.cpp and mit_pd.cpp: the output is within the      *)
(* limit, and PIDMotor integrates no more than it may give.                *)
THEOREM OutputBoundedThm == ControlSpec => []OutputBounded
<1>1. ControlInv => OutputBounded
  BY DEF ControlInv
<1> QED
  BY <1>1, ControlInvariance, PTL

-----------------------------------------------------------------------------
(***************************************************************************)
(* Watchdog: every registered object loses one snack in a scan, for any    *)
(* number of objects and any table.  The indices below the table's size    *)
(* are handed out once each and without a gap; what is counted above it is *)
(* what still has to give its count back.                                  *)
(***************************************************************************)

Lives == {"unborn", "counted", "registered", "stray"}

DogsTypes ==
  /\ count \in Nat /\ scan \in Int
  /\ table \in [0 .. (MaxDogs - 1) -> Dogs \cup {None}]
  /\ life \in [Dogs -> Lives] /\ id \in [Dogs -> Nat]
  /\ snacks \in [Dogs -> Int] /\ before \in [Dogs -> Int]

(* The objects with an index in the table, stored there or about to be. *)
Member(d) == life[d] \in {"counted", "registered"} /\ id[d] < MaxDogs

(* The objects that found it full and have not given their count back. *)
Over == {d \in Dogs : life[d] = "counted" /\ id[d] >= MaxDogs}

NoGap ==
  /\ \A d, e \in Dogs : Member(d) /\ Member(e) /\ id[d] = id[e] => d = e
  /\ \A d \in Dogs : Member(d) => id[d] < count
  /\ \A i \in 0 .. (MaxDogs - 1) : i < count => \E d \in Dogs : Member(d) /\ id[d] = i

Counted ==
  /\ IsFiniteSet(Over)
  /\ count = MaxDogs + Cardinality(Over) \/ (Over = {} /\ count <= MaxDogs)
  /\ \A d \in Dogs : life[d] = "stray" => count >= MaxDogs

Stored ==
  \A d \in Dogs : life[d] = "registered" => id[d] < MaxDogs /\ table[id[d]] = d

Scanning ==
  scan # -1 =>
    /\ scan \in 0 .. count /\ \A d \in Dogs : life[d] # "counted"
    /\ \A d \in Dogs : d \notin fed =>
         snacks[d] = before[d] - (IF life[d] = "registered" /\ id[d] < scan THEN 1 ELSE 0)

DogsInv == DogsTypes /\ NoGap /\ Counted /\ Stored /\ Scanning

(* When nobody is about to give a count back, all that is counted fits.    *)
LEMMA NobodyOver ==
  ASSUME DogsInv, \A d \in Dogs : life[d] # "counted"
  PROVE  Over = {} /\ count <= MaxDogs
  <1>1. Over = {}
    BY DEF Over
  <1>. QED BY <1>1, FS_EmptySet, WatchdogAssumption DEF DogsInv, Counted, DogsTypes

(* A constructor takes the next place, which may be past the end. *)
LEMMA ConstructStep ==
  ASSUME DogsInv, NEW d \in Dogs, Construct(d)
  PROVE  DogsInv'
  <1>. USE WatchdogAssumption
  <1>1. /\ DogsTypes /\ NoGap /\ Counted /\ Stored
        /\ life[d] = "unborn" /\ scan = -1 /\ scan' = -1
        /\ life' = [life EXCEPT ![d] = "counted"]
        /\ id' = [id EXCEPT ![d] = count] /\ count' = count + 1
        /\ UNCHANGED <<table, snacks, before>>
    BY DEF Construct, DogsInv
  <1>2. /\ life'[d] = "counted" /\ id'[d] = count
        /\ \A e \in Dogs : e # d => life'[e] = life[e] /\ id'[e] = id[e]
    BY <1>1 DEF DogsTypes
  <1>3. DogsTypes' /\ Scanning'
    BY <1>1 DEF DogsTypes, Scanning, Lives
  <1>4. \A e \in Dogs : Member(e)' <=> IF e = d THEN count < MaxDogs ELSE Member(e)
    BY <1>2 DEF Member
  <1>5. ~Member(d)
    BY <1>1 DEF Member
  <1>6. NoGap'
    <2>1. \A e \in Dogs : Member(e) => e # d /\ id[e] < count /\ id'[e] = id[e]
      BY <1>1, <1>2, <1>5 DEF NoGap
    <2>2. count \in Nat /\ \A e \in Dogs : id[e] \in Nat
      BY <1>1 DEF DogsTypes
    <2>3. ASSUME NEW e \in Dogs, NEW f \in Dogs, Member(e)', Member(f)', id'[e] = id'[f]
          PROVE  e = f
      <3>1. (e # d => Member(e)) /\ (f # d => Member(f))
        BY <1>4, <2>3
      <3>2. CASE e # d /\ f # d
        BY <1>1, <2>1, <2>3, <3>1, <3>2 DEF NoGap
      <3>3. CASE e = d \/ f = d
        BY <1>2, <2>1, <2>2, <2>3, <3>1, <3>3
      <3>. QED BY <3>2, <3>3
    <2>4. ASSUME NEW e \in Dogs, Member(e)' PROVE id'[e] < count'
      BY <1>1, <1>2, <1>4, <2>1, <2>2, <2>4
    <2>5. ASSUME NEW i \in 0 .. (MaxDogs - 1), i < count'
          PROVE  \E e \in Dogs : Member(e)' /\ id'[e] = i
      <3>1. CASE i = count
        BY <1>2, <1>4, <2>5, <3>1
      <3>2. CASE i < count
        <4>1. PICK e \in Dogs : Member(e) /\ id[e] = i
          BY <1>1, <3>2 DEF NoGap
        <4>. QED BY <1>4, <2>1, <4>1
      <3>. QED BY <1>1, <2>2, <2>5, <3>1, <3>2
    <2>. QED BY <2>3, <2>4, <2>5 DEF NoGap
  <1>7. Stored'
    BY <1>1, <1>2 DEF Stored
  <1>8. Counted'
    <2>1. \A e \in Dogs : life'[e] = "stray" => count' >= MaxDogs
      BY <1>1, <1>2 DEF Counted, DogsTypes
    <2>2. CASE count < MaxDogs
      <3>1. Over = {} /\ count' <= MaxDogs
        <4>1. Cardinality(Over) \in Nat
          BY <1>1, FS_CardinalityType DEF Counted
        <4>. QED BY <1>1, <2>2, <4>1 DEF Counted, DogsTypes
      <3>2. Over' = {}
        <4>1. ASSUME NEW e \in Dogs PROVE ~(life'[e] = "counted" /\ id'[e] >= MaxDogs)
          <5>1. CASE e = d
            BY <1>1, <1>2, <2>2, <5>1 DEF DogsTypes
          <5>2. CASE e # d
            BY <1>2, <3>1, <5>2 DEF Over
          <5>. QED BY <5>1, <5>2
        <4>. QED BY <4>1 DEF Over
      <3>. QED BY <2>1, <3>1, <3>2, FS_EmptySet DEF Counted
    <2>3. CASE count >= MaxDogs
      <3>1. Over' = Over \cup {d} /\ d \notin Over
        BY <1>1, <1>2, <2>3 DEF Over
      <3>2. IsFiniteSet(Over') /\ Cardinality(Over') = Cardinality(Over) + 1
        BY <1>1, <3>1, FS_AddElement DEF Counted
      <3>3. count = MaxDogs + Cardinality(Over)
        <4>1. Over = {} => Cardinality(Over) = 0
          BY FS_EmptySet
        <4>. QED BY <1>1, <2>3, <4>1 DEF Counted, DogsTypes
      <3>4. Cardinality(Over) \in Nat
        BY <1>1, FS_CardinalityType DEF Counted
      <3>. QED BY <1>1, <2>1, <3>2, <3>3, <3>4 DEF Counted
    <2>. QED BY <1>1, <2>2, <2>3 DEF DogsTypes
  <1>. QED BY <1>3, <1>6, <1>7, <1>8 DEF DogsInv

(* It stores itself at a place that was its own. *)
LEMMA StoreStep ==
  ASSUME DogsInv, NEW d \in Dogs, Store(d)
  PROVE  DogsInv'
  <1>. USE WatchdogAssumption
  <1>1. /\ DogsTypes /\ NoGap /\ Counted /\ Stored /\ Scanning
        /\ life[d] = "counted" /\ id[d] < MaxDogs
        /\ table' = [table EXCEPT ![id[d]] = d]
        /\ life' = [life EXCEPT ![d] = "registered"]
        /\ UNCHANGED <<count, id, snacks, scan, before>>
    BY DEF Store, DogsInv
  <1>2. /\ life'[d] = "registered" /\ id[d] \in 0 .. (MaxDogs - 1)
        /\ \A e \in Dogs : e # d => life'[e] = life[e]
    BY <1>1 DEF DogsTypes
  <1>3. DogsTypes'
    BY <1>1, <1>2 DEF DogsTypes, Lives
  <1>4. scan = -1
    BY <1>1 DEF Scanning
  <1>5. \A e \in Dogs : Member(e)' <=> Member(e)
    BY <1>1, <1>2 DEF Member
  <1>6. NoGap'
    BY <1>1, <1>5 DEF NoGap
  <1>7. Over' = Over
    BY <1>1, <1>2 DEF Over
  <1>8. Counted'
    BY <1>1, <1>2, <1>7 DEF Counted
  <1>9. Stored'
    <2>1. \A e \in Dogs : e # d /\ life[e] = "registered" => id[e] # id[d]
      BY <1>1 DEF NoGap, Stored, Member
    <2>2. table'[id[d]] = d /\ \A i \in 0 .. (MaxDogs - 1) : i # id[d] => table'[i] = table[i]
      BY <1>1, <1>2 DEF DogsTypes
    <2>3. \A e \in Dogs : id[e] \in Nat /\ id'[e] = id[e]
      BY <1>1 DEF DogsTypes
    <2>4. ASSUME NEW e \in Dogs, life'[e] = "registered"
          PROVE  id'[e] < MaxDogs /\ table'[id'[e]] = e
      <3>1. CASE e = d
        BY <1>1, <2>2, <2>3, <3>1
      <3>2. CASE e # d
        <4>1. life[e] = "registered"
          BY <1>2, <2>4, <3>2
        <4>2. id[e] \in 0 .. (MaxDogs - 1) /\ table[id[e]] = e
          BY <1>1, <2>3, <4>1 DEF Stored
        <4>. QED BY <2>1, <2>2, <2>3, <3>2, <4>1, <4>2
      <3>. QED BY <3>1, <3>2
    <2>. QED BY <2>4 DEF Stored
  <1>. QED BY <1>1, <1>3, <1>4, <1>6, <1>8, <1>9 DEF DogsInv, Scanning

(* It gives back a place past the end. *)
LEMMA GiveBackStep ==
  ASSUME DogsInv, NEW d \in Dogs, GiveBack(d)
  PROVE  DogsInv'
  <1>. USE WatchdogAssumption
  <1>1. /\ DogsTypes /\ NoGap /\ Counted /\ Stored /\ Scanning
        /\ life[d] = "counted" /\ id[d] >= MaxDogs
        /\ count' = count - 1
        /\ life' = [life EXCEPT ![d] = "stray"]
        /\ UNCHANGED <<table, id, snacks, scan, before>>
    BY DEF GiveBack, DogsInv
  <1>2. /\ life'[d] = "stray"
        /\ \A e \in Dogs : e # d => life'[e] = life[e]
    BY <1>1 DEF DogsTypes
  <1>3. d \in Over /\ Over' = Over \ {d}
    BY <1>1, <1>2 DEF Over
  <1>4. /\ IsFiniteSet(Over') /\ Cardinality(Over') = Cardinality(Over) - 1
        /\ Cardinality(Over') \in Nat /\ count = MaxDogs + Cardinality(Over)
    BY <1>1, <1>3, FS_RemoveElement, FS_CardinalityType DEF Counted
  <1>5. count' = MaxDogs + Cardinality(Over') /\ count' >= MaxDogs
    BY <1>1, <1>3, <1>4, FS_CardinalityType DEF Counted
  <1>6. Counted'
    BY <1>4, <1>5 DEF Counted
  <1>7. DogsTypes'
    BY <1>1, <1>4, <1>5 DEF DogsTypes, Lives
  <1>8. scan = -1
    BY <1>1 DEF Scanning
  <1>9. \A e \in Dogs : Member(e)' <=> Member(e)
    BY <1>1, <1>2 DEF Member, DogsTypes
  <1>10. NoGap'
    BY <1>1, <1>5, <1>9 DEF NoGap, Member, DogsTypes
  <1>11. Stored'
    BY <1>1, <1>2 DEF Stored
  <1>. QED BY <1>1, <1>6, <1>7, <1>8, <1>10, <1>11 DEF DogsInv, Scanning

(* EatAll() reaches the next dog, and each of them once. *)
LEMMA EatStep ==
  ASSUME DogsInv, Eat
  PROVE  DogsInv'
  <1>. USE WatchdogAssumption
  <1>1. /\ DogsTypes /\ NoGap /\ Counted /\ Stored /\ Scanning
        /\ scan >= 0 /\ scan < count
        /\ snacks' = [snacks EXCEPT ![table[scan]] = @ - 1]
        /\ scan' = scan + 1
        /\ UNCHANGED <<count, table, life, id, before, fed>>
    BY DEF Eat, DogsInv
  <1>2. scan # -1 /\ \A d \in Dogs : life[d] # "counted"
    BY <1>1 DEF Scanning, DogsTypes
  <1>3. scan \in 0 .. (MaxDogs - 1)
    BY <1>1, <1>2, NobodyOver DEF DogsTypes
  <1>4. PICK d \in Dogs : Member(d) /\ id[d] = scan
    BY <1>1, <1>3 DEF NoGap
  <1>5. life[d] = "registered" /\ table[scan] = d
    BY <1>1, <1>2, <1>4 DEF Member, Stored
  <1>6. /\ snacks'[d] = snacks[d] - 1
        /\ \A e \in Dogs : e # d => snacks'[e] = snacks[e]
    BY <1>1, <1>5 DEF DogsTypes
  <1>7. \A e \in Dogs : e # d /\ life[e] = "registered" => id[e] # scan
    BY <1>1, <1>4 DEF NoGap, Stored, Member
  <1>8. DogsTypes'
    BY <1>1, <1>5 DEF DogsTypes
  <1>9. Scanning'
    <2>1. scan' \in 0 .. count' /\ \A e \in Dogs : life'[e] # "counted"
      BY <1>1, <1>2 DEF DogsTypes
    <2>2. ASSUME NEW e \in Dogs, e \notin fed'
          PROVE  snacks'[e] = before'[e] -
                   (IF life'[e] = "registered" /\ id'[e] < scan' THEN 1 ELSE 0)
      <3>1. snacks[e] = before[e] -
              (IF life[e] = "registered" /\ id[e] < scan THEN 1 ELSE 0)
        BY <1>1, <1>2, <2>2 DEF Scanning
      <3>2. snacks[e] \in Int /\ before[e] \in Int /\ id[e] \in Nat /\ scan \in Int
        BY <1>1 DEF DogsTypes
      <3>3. /\ life'[e] = life[e] /\ id'[e] = id[e] /\ before'[e] = before[e]
            /\ scan' = scan + 1
        BY <1>1
      <3>4. CASE e = d
        BY <1>4, <1>5, <1>6, <3>1, <3>2, <3>3, <3>4
      <3>5. CASE e # d
        BY <1>6, <1>7, <3>1, <3>2, <3>3, <3>5
      <3>. QED BY <3>4, <3>5
    <2>. QED BY <2>1, <2>2 DEF Scanning
  <1>10. NoGap' /\ Counted' /\ Stored'
    BY <1>1 DEF NoGap, Counted, Stored, Member, Over
  <1>. QED BY <1>8, <1>9, <1>10 DEF DogsInv

(* The objects with an index below the count are those in the table, once  *)
(* each, whatever the constructors' order.                                 *)
THEOREM DogsInvariance == DogsSpec => []DogsInv
  <1>. USE WatchdogAssumption
  <1>1. DogsInit => DogsInv
    <2>. SUFFICES ASSUME DogsInit PROVE DogsInv
      OBVIOUS
    <2>1. Over = {}
      BY DEF DogsInit, Over
    <2>2. Counted
      BY <2>1, FS_EmptySet DEF DogsInit, Counted
    <2>. QED BY <2>2
      DEF DogsInit, DogsInv, DogsTypes, NoGap, Stored, Scanning, Member, Lives
  <1>2. DogsInv /\ [DogsNext]_dogVars => DogsInv'
    <2>. SUFFICES ASSUME DogsInv, [DogsNext]_dogVars PROVE DogsInv'
      OBVIOUS
    <2>1. ASSUME NEW d \in Dogs, NEW n \in Snacks, Feed(d, n) PROVE DogsInv'
      <3>1. DogsTypes' /\ Scanning'
        BY <2>1 DEF Feed, DogsInv, DogsTypes, Scanning
      <3>2. NoGap' /\ Counted' /\ Stored'
        BY <2>1 DEF Feed, DogsInv, NoGap, Counted, Stored, Member, Over
      <3>. QED BY <3>1, <3>2 DEF DogsInv
    <2>2. CASE EatAll
      <3>1. DogsTypes' /\ Scanning'
        BY <2>2 DEF EatAll, DogsInv, DogsTypes, Scanning
      <3>2. NoGap' /\ Counted' /\ Stored'
        BY <2>2 DEF EatAll, DogsInv, NoGap, Counted, Stored, Member, Over
      <3>. QED BY <3>1, <3>2 DEF DogsInv
    <2>3. CASE Scanned
      <3>1. DogsTypes' /\ Scanning'
        BY <2>3 DEF Scanned, DogsInv, DogsTypes, Scanning
      <3>2. NoGap' /\ Counted' /\ Stored'
        BY <2>3 DEF Scanned, DogsInv, NoGap, Counted, Stored, Member, Over
      <3>. QED BY <3>1, <3>2 DEF DogsInv
    <2>4. CASE UNCHANGED dogVars
      BY <2>4 DEF dogVars, DogsInv, DogsTypes, NoGap, Counted, Stored, Scanning, Member, Over
    <2>. QED BY <2>1, <2>2, <2>3, <2>4, ConstructStep, StoreStep, GiveBackStep, EatStep
      DEF DogsNext
  <1>. QED BY <1>1, <1>2, PTL DEF DogsSpec

(* Watchdog.cpp: constructors that overtake each other leave no hole for   *)
(* EatAll() to step into, and a scan takes one snack from each registered  *)
(* object.                                                                 *)
THEOREM EveryDogEatsOnceThm == DogsSpec => []EveryDogEatsOnce
  <1>1. DogsInv => EveryDogEatsOnce
    <2>. SUFFICES ASSUME DogsInv PROVE EveryDogEatsOnce
      OBVIOUS
    <2>1. DogsTypes /\ NoGap /\ Counted /\ Stored /\ Scanning
      BY DEF DogsInv
    <2>2. ASSUME scan >= 0, scan < count PROVE scan < MaxDogs /\ table[scan] # None
      <3>1. scan # -1 /\ \A d \in Dogs : life[d] # "counted"
        BY <2>1, <2>2 DEF Scanning, DogsTypes
      <3>2. scan \in 0 .. (MaxDogs - 1)
        BY <2>1, <2>2, <3>1, NobodyOver, WatchdogAssumption DEF DogsTypes
      <3>3. PICK d \in Dogs : Member(d) /\ id[d] = scan
        BY <2>1, <2>2, <3>2 DEF NoGap
      <3>4. table[scan] = d
        BY <2>1, <3>1, <3>3 DEF Member, Stored
      <3>. QED BY <3>2, <3>4, WatchdogAssumption
    <2>3. ASSUME scan >= 0, scan >= count, NEW d \in Dogs, d \notin fed
          PROVE  snacks[d] = before[d] - (IF life[d] = "registered" THEN 1 ELSE 0)
      <3>1. /\ scan = count
            /\ snacks[d] = before[d] -
                 (IF life[d] = "registered" /\ id[d] < scan THEN 1 ELSE 0)
        BY <2>1, <2>3 DEF Scanning, DogsTypes
      <3>2. life[d] = "registered" => id[d] < count
        BY <2>1 DEF Stored, NoGap, Member
      <3>. QED BY <3>1, <3>2
    <2>4. \A d \in Dogs : life[d] = "stray" => count >= MaxDogs
      BY <2>1 DEF Counted
    <2>. QED BY <2>2, <2>3, <2>4 DEF EveryDogEatsOnce
  <1>. QED BY <1>1, DogsInvariance, PTL

-----------------------------------------------------------------------------
(***************************************************************************)
(* Deque: the window survives every turn of the array, for any capacity of *)
(* which an object fits the address space.                                 *)
(***************************************************************************)
Places == 0 .. (Capacity - 1)

(* The place i steps behind the front, without the division. *)
PlaceAt(h, i) == IF h + i < Capacity THEN h + i ELSE h + i - Capacity

(* A sum that has gone once around comes back by the divisor (Around, for  *)
(* any divisor).                                                           *)
LEMMA Wrapped ==
  ASSUME NEW x \in Nat, NEW a \in Nat \ {0}, x < 2 * a
  PROVE  x % a = IF x < a THEN x ELSE x - a
  <1>1. CASE x < a
    BY <1>1
  <1>2. CASE x >= a
    BY <1>2
  <1>. QED BY <1>1, <1>2

DequeTypes ==
  /\ head \in Places /\ size \in 0 .. Capacity
  /\ data \in [Places -> DequeValues \cup {0}]
  /\ window \in Seq(DequeValues)

FromTheFront ==
  /\ size = Len(window)
  /\ \A i \in 1 .. size : data[PlaceAt(head, i - 1)] = window[i]

DequeInv == DequeTypes /\ FromTheFront

(* (head_ + i) % N stays in the array. *)
LEMMA PlaceIs ==
  ASSUME DequeTypes, NEW i \in 0 .. Capacity
  PROVE  (head + i) % Capacity = PlaceAt(head, i) /\ PlaceAt(head, i) \in Places
  <1>1. PICK x \in Nat : x = head + i
    BY DEF DequeTypes, Places
  <1>2. x < 2 * Capacity /\ Capacity \in Nat \ {0}
    BY <1>1, DequeAssumption DEF DequeTypes, Places
  <1>3. x % Capacity = IF x < Capacity THEN x ELSE x - Capacity
    BY <1>1, <1>2, Wrapped, Zenon
  <1>4. PlaceAt(head, i) \in Places
    BY DequeAssumption DEF DequeTypes, Places, PlaceAt
  <1>5. PlaceAt(head, i) = IF x < Capacity THEN x ELSE x - Capacity
    BY <1>1, <1>2 DEF PlaceAt, DequeTypes, Places
  <1>6. (head + i) % Capacity = x % Capacity
    BY <1>1, Zenon
  <1>. QED BY <1>3, <1>4, <1>5, <1>6, Zenon

(* The index from the front (Deque::index) is that place. *)
LEMMA PositionIs ==
  ASSUME DequeTypes, NEW i \in 0 .. Capacity
  PROVE  Position(i) = PlaceAt(head, i) /\ Position(i) \in Places
  BY PlaceIs, Zenon DEF Position

(* -i from the back is size - i from the front: the wrap of size_t cancels *)
(* the one of the negative index.                                          *)
LEMMA BackIs ==
  ASSUME DequeTypes, NEW i \in 1 .. size
  PROVE  PositionFromBack(i) = PlaceAt(head, size - i)
  <1>. DEFINE x == head + size + (WordSize - i)
  <1>. USE DequeAssumption
  <1>1. x \in Nat /\ WordSize <= x /\ x < 2 * WordSize /\ WordSize \in Nat \ {0}
    BY DEF DequeTypes, Places
  <1>2. x % WordSize = x - WordSize
    <2>. HIDE DEF x
    <2>1. x % WordSize = IF x < WordSize THEN x ELSE x - WordSize
      BY <1>1, Wrapped, Zenon
    <2>. QED BY <1>1, <2>1
  <1>3. x - WordSize = head + (size - i)
    BY DEF DequeTypes, Places
  <1>4. (head + (size - i)) % Capacity = PlaceAt(head, size - i)
    <2>1. size - i \in 0 .. Capacity
      BY DEF DequeTypes
    <2>. QED BY <2>1, PlaceIs, Zenon
  <1>. HIDE DEF x
  <1>5. PositionFromBack(i) = (x % WordSize) % Capacity
    BY DEF PositionFromBack, x
  <1>. QED BY <1>2, <1>3, <1>4, <1>5

(* A full deque turns by one and writes over its front. *)
LEMMA PushBackStep ==
  ASSUME DequeInv, NEW v \in DequeValues, PushBack(v)
  PROVE  DequeInv'
  <1>. USE DequeAssumption
  <1>1. Position(size) = PlaceAt(head, size) /\ Position(size) \in Places
        /\ Position(1) = PlaceAt(head, 1) /\ Position(1) \in Places
    BY PositionIs DEF DequeInv, DequeTypes
  <1>2. data' = [data EXCEPT ![PlaceAt(head, size)] = v]
    BY <1>1 DEF PushBack
  <1>3. Append(window, v) \in Seq(DequeValues) /\ Len(Append(window, v)) = size + 1
    BY DEF DequeInv, DequeTypes, FromTheFront
  <1>4. CASE ~Full
    <2>1. head' = head /\ size' = size + 1 /\ window' = Append(window, v)
      BY <1>3, <1>4 DEF PushBack, Full, KeepBack, DequeInv, DequeTypes
    <2>2. DequeTypes'
      BY <1>1, <1>2, <1>3, <1>4, <2>1 DEF DequeInv, DequeTypes, Full
    <2>3. ASSUME NEW i \in 1 .. size' PROVE data'[PlaceAt(head', i - 1)] = window'[i]
      <3>1. CASE i = size + 1
        BY <1>1, <1>2, <1>3, <2>1, <3>1 DEF DequeInv, DequeTypes, FromTheFront
      <3>2. CASE i # size + 1
        <4>1. i \in 1 .. size /\ window'[i] = window[i]
          BY <2>1, <3>2 DEF DequeInv, DequeTypes, FromTheFront
        <4>2. data[PlaceAt(head, i - 1)] = window[i]
          BY <4>1 DEF DequeInv, FromTheFront
        <4>3. PlaceAt(head, i - 1) # PlaceAt(head, size) /\ PlaceAt(head, i - 1) \in Places
          BY <1>4, <4>1 DEF PlaceAt, Places, Full, DequeInv, DequeTypes
        <4>. QED BY <2>1, <4>1, <4>2, <4>3, <1>2 DEF DequeInv, DequeTypes
      <3>. QED BY <3>1, <3>2
    <2>. QED BY <2>1, <2>2, <2>3, <1>3 DEF DequeInv, FromTheFront
  <1>5. CASE Full
    <2>1. /\ head' = PlaceAt(head, 1) /\ size' = Capacity /\ size = Capacity
          /\ window' = Tail(Append(window, v))
      BY <1>1, <1>3, <1>5 DEF PushBack, Full, KeepBack, DequeInv, DequeTypes
    <2>2. DequeTypes'
      BY <1>1, <1>2, <1>3, <1>5, <2>1 DEF DequeInv, DequeTypes, Full
    <2>3. Len(window') = size' /\ \A i \in 1 .. size' : window'[i] = Append(window, v)[i + 1]
      BY <1>3, <2>1 DEF DequeInv, DequeTypes
    <2>4. ASSUME NEW i \in 1 .. size' PROVE data'[PlaceAt(head', i - 1)] = window'[i]
      <3>. i \in 1 .. Capacity
        BY <2>1
      <3>1. PlaceAt(head', i - 1) = PlaceAt(head, i)
        BY <2>1 DEF PlaceAt, Places, DequeInv, DequeTypes
      <3>2. CASE i = Capacity
        <4>1. PlaceAt(head, i) = PlaceAt(head, size) /\ window'[i] = v
          BY <2>1, <2>3, <1>3, <3>2 DEF DequeInv, DequeTypes, FromTheFront
        <4>. QED BY <3>1, <4>1, <1>1, <1>2 DEF DequeInv, DequeTypes
      <3>3. CASE i < Capacity
        <4>1. i + 1 \in 1 .. size /\ window'[i] = window[i + 1]
          BY <2>1, <2>3, <1>3, <3>3 DEF DequeInv, DequeTypes, FromTheFront
        <4>2. data[PlaceAt(head, i)] = window[i + 1]
          <5>1. data[PlaceAt(head, (i + 1) - 1)] = window[i + 1] /\ (i + 1) - 1 = i
            BY <4>1 DEF DequeInv, FromTheFront
          <5>. QED BY <5>1
        <4>3. PlaceAt(head, i) # PlaceAt(head, size) /\ PlaceAt(head, i) \in Places
          BY <2>1, <3>3 DEF PlaceAt, Places, DequeInv, DequeTypes
        <4>. QED BY <3>1, <4>1, <4>2, <4>3, <1>2 DEF DequeInv, DequeTypes
      <3>4. i = Capacity \/ i < Capacity
        OBVIOUS
      <3>. QED BY <3>2, <3>3, <3>4
    <2>. QED BY <2>2, <2>3, <2>4 DEF DequeInv, FromTheFront
  <1>. QED BY <1>4, <1>5

(* The front steps back, and in a full deque over the last element. *)
LEMMA PushFrontStep ==
  ASSUME DequeInv, NEW v \in DequeValues, PushFront(v)
  PROVE  DequeInv'
  <1>. USE DequeAssumption
  <1>. DEFINE longer == <<v>> \o window
  <1>1. head' = PlaceAt(head, Capacity - 1) /\ head' \in Places
    BY PositionIs DEF DequeInv, DequeTypes, PushFront
  <1>2. data' = [data EXCEPT ![head'] = v]
    BY DEF PushFront
  <1>3. /\ longer \in Seq(DequeValues) /\ Len(longer) = size + 1
        /\ longer[1] = v /\ \A i \in 2 .. size + 1 : longer[i] = window[i - 1]
    BY DEF DequeInv, DequeTypes, FromTheFront
  <1>4. window' = IF size + 1 > Capacity THEN SubSeq(longer, 1, Capacity) ELSE longer
    BY <1>3 DEF PushFront, KeepFront
  <1>. HIDE DEF longer
  <1>5. size' = IF size = Capacity THEN size ELSE size + 1
    BY DEF PushFront, Full
  <1>6. /\ window' \in Seq(DequeValues) /\ Len(window') = size'
        /\ \A i \in 1 .. size' : window'[i] = longer[i]
    BY <1>3, <1>4, <1>5 DEF DequeInv, DequeTypes
  <1>7. DequeTypes'
    BY <1>1, <1>2, <1>5, <1>6 DEF DequeInv, DequeTypes
  <1>8. ASSUME NEW i \in 1 .. size' PROVE data'[PlaceAt(head', i - 1)] = window'[i]
    <2>1. CASE i = 1
      <3>1. PlaceAt(head', i - 1) = head'
        BY <1>1, <2>1 DEF PlaceAt, Places
      <3>. QED BY <3>1, <2>1, <1>1, <1>2, <1>3, <1>6 DEF DequeInv, DequeTypes
    <2>2. CASE i > 1
      <3>1. i - 1 \in 1 .. size /\ i <= Capacity
        BY <2>2, <1>5 DEF DequeInv, DequeTypes
      <3>2. /\ PlaceAt(head', i - 1) = PlaceAt(head, (i - 1) - 1)
            /\ PlaceAt(head', i - 1) # head' /\ PlaceAt(head', i - 1) \in Places
        BY <3>1, <1>1, <2>2 DEF PlaceAt, Places, DequeInv, DequeTypes
      <3>3. data[PlaceAt(head, (i - 1) - 1)] = window[i - 1]
        BY <3>1 DEF DequeInv, FromTheFront
      <3>4. window'[i] = window[i - 1]
        BY <3>1, <1>3, <1>6, <2>2 DEF DequeInv, DequeTypes
      <3>. QED BY <3>2, <3>3, <3>4, <1>2 DEF DequeInv, DequeTypes
    <2>. QED BY <2>1, <2>2, <1>5 DEF DequeInv, DequeTypes
  <1>. QED BY <1>6, <1>7, <1>8 DEF DequeInv, FromTheFront

(* Taking an element from either end, or all of them, moves no other. *)
LEMMA PopStep ==
  ASSUME DequeInv, PopBack \/ PopFront \/ ClearDeque
  PROVE  DequeInv'
  <1>. USE DequeAssumption
  <1>1. CASE PopBack
    <2>1. /\ size' = size - 1 /\ size > 0 /\ head' = head /\ data' = data
          /\ window' \in Seq(DequeValues) /\ Len(window') = size'
          /\ \A i \in 1 .. size' : window'[i] = window[i]
      BY <1>1 DEF PopBack, DequeInv, DequeTypes, FromTheFront
    <2>2. \A i \in 1 .. size' : data'[PlaceAt(head', i - 1)] = window'[i]
      BY <2>1 DEF DequeInv, DequeTypes, FromTheFront, PlaceAt
    <2>. QED BY <2>1, <2>2 DEF DequeInv, DequeTypes, FromTheFront
  <1>2. CASE PopFront
    <2>1. /\ size' = size - 1 /\ size > 0 /\ head' = PlaceAt(head, 1) /\ head' \in Places
          /\ data' = data
      BY <1>2, PositionIs DEF PopFront, DequeInv, DequeTypes
    <2>2. /\ window' \in Seq(DequeValues) /\ Len(window') = size'
          /\ \A i \in 1 .. size' : window'[i] = window[i + 1]
      BY <1>2, <2>1 DEF PopFront, DequeInv, DequeTypes, FromTheFront
    <2>3. ASSUME NEW i \in 1 .. size' PROVE data'[PlaceAt(head', i - 1)] = window'[i]
      <3>1. i + 1 \in 1 .. size /\ (i + 1) - 1 = i
        BY <2>1 DEF DequeInv, DequeTypes
      <3>2. data[PlaceAt(head, (i + 1) - 1)] = window[i + 1]
        BY <3>1 DEF DequeInv, FromTheFront
      <3>3. PlaceAt(head', i - 1) = PlaceAt(head, i)
        BY <2>1, <3>1 DEF PlaceAt, Places, DequeInv, DequeTypes
      <3>. QED BY <3>1, <3>2, <3>3, <2>1, <2>2
    <2>. QED BY <2>1, <2>2, <2>3 DEF DequeInv, DequeTypes, FromTheFront
  <1>3. CASE ClearDeque
    BY <1>3 DEF ClearDeque, DequeInv, DequeTypes, FromTheFront, Places
  <1>. QED BY <1>1, <1>2, <1>3

(* The deque is the window it stands for, seen from the front. *)
THEOREM DequeInvariance == DequeSpec => []DequeInv
  <1>1. DequeInit => DequeInv
    BY DequeAssumption DEF DequeInit, DequeInv, DequeTypes, FromTheFront, Places
  <1>2. DequeInv /\ [DequeNext]_dequeVars => DequeInv'
    <2>1. DequeInv /\ UNCHANGED dequeVars => DequeInv'
      BY DEF dequeVars, DequeInv, DequeTypes, FromTheFront
    <2>. QED BY <2>1, PushBackStep, PushFrontStep, PopStep DEF DequeNext
  <1>. QED BY <1>1, <1>2, PTL DEF DequeSpec

(* Both operators of indexing, the one with negative indices too, find     *)
(* every element of the window (Deque::idx).                               *)
THEOREM WindowKeptThm == DequeSpec => []WindowKept
  <1>1. ASSUME DequeInv PROVE WindowKept
    <2>1. ASSUME NEW i \in 1 .. size
          PROVE  data[Position(i - 1)] = window[i]
      <3>1. i - 1 \in 0 .. Capacity
        BY <1>1, DequeAssumption DEF DequeInv, DequeTypes
      <3>. QED BY <1>1, <3>1, PositionIs DEF DequeInv, FromTheFront
    <2>2. ASSUME NEW i \in 1 .. size
          PROVE  data[PositionFromBack(i)] = window[size + 1 - i]
      <3>1. size + 1 - i \in 1 .. size /\ (size + 1 - i) - 1 = size - i
        BY <1>1 DEF DequeInv, DequeTypes
      <3>2. data[PlaceAt(head, (size + 1 - i) - 1)] = window[size + 1 - i]
        BY <1>1, <3>1 DEF DequeInv, FromTheFront
      <3>. QED BY <1>1, <3>1, <3>2, BackIs DEF DequeInv
    <2>. QED BY <1>1, <2>1, <2>2 DEF WindowKept, DequeInv, FromTheFront
  <1>. QED BY <1>1, DequeInvariance, PTL

-----------------------------------------------------------------------------
(***************************************************************************)
(* UdpSocket: no socket leaks and every datagram is answered once, for any *)
(* sockets, ports, lengths and buffers.                                    *)
(***************************************************************************)
(* The digits of a number below the square of its base are found again.    *)
LEMMA Digits ==
  ASSUME NEW a \in Nat \ {0}, NEW high \in 0 .. (a - 1), NEW low \in 0 .. (a - 1)
  PROVE  (a * high + low) \div a = high /\ (a * high + low) % a = low
  <1>. DEFINE x == a * high + low
  <1>1. x \in Nat
    <2>1. a * high \in Nat
      OBVIOUS
    <2>. QED BY <2>1
  <1>2. PICK q \in Nat, r \in 0 .. (a - 1) : /\ q = x \div a /\ r = x % a
                                             /\ x = a * q + r
    BY <1>1, Euclid
  <1>3. a * high + low = a * q + r
    BY <1>2
  <1>4. q <= high
    <2>1. SUFFICES ASSUME q > high PROVE FALSE
      OBVIOUS
    <2>2. a * q = a * high + a * (q - high) /\ a * (q - high) >= a
      <3>1. PICK d \in Nat \ {0} : q = high + d
        BY <2>1
      <3>2. a * q = a * high + a * d /\ a * d >= a
        BY <3>1
      <3>. QED BY <3>1, <3>2
    <2>. QED BY <2>2, <1>3
  <1>5. high <= q
    <2>1. SUFFICES ASSUME high > q PROVE FALSE
      OBVIOUS
    <2>2. PICK d \in Nat \ {0} : high = q + d
      BY <2>1
    <2>3. a * high = a * q + a * d /\ a * d >= a
      BY <2>2
    <2>. QED BY <2>3, <1>3
  <1>6. q = high
    BY <1>4, <1>5
  <1>. QED BY <1>2, <1>3, <1>6

(* Both byte swaps together change no port.                                *)
LEMMA SwappedTwice ==
  ASSUME NEW p \in 1 .. (PortByte * PortByte - 1)
  PROVE  Swapped(Swapped(p)) = p /\ Swapped(p) \in Nat
  <1>. DEFINE high == p \div PortByte  low == p % PortByte
  <1>. USE UdpAssumption
  <1>1. high \in Nat /\ low \in 0 .. (PortByte - 1) /\ p = PortByte * high + low
    BY Euclid
  <1>2. high <= PortByte - 1
    <2>1. SUFFICES ASSUME high >= PortByte PROVE FALSE
      BY <1>1
    <2>2. PortByte * high >= PortByte * PortByte
      <3>1. PICK d \in Nat : high = PortByte + d
        BY <1>1, <2>1
      <3>2. PortByte * high = PortByte * PortByte + PortByte * d /\ PortByte * d >= 0
        BY <3>1
      <3>. QED BY <3>2
    <2>. QED BY <2>2, <1>1
  <1>3. Swapped(p) = PortByte * low + high
    BY <1>1 DEF Swapped
  <1>. HIDE DEF high, low
  <1>4. (PortByte * low + high) \div PortByte = low /\ (PortByte * low + high) % PortByte = high
    BY <1>1, <1>2, Digits
  <1>5. Swapped(Swapped(p)) = high * PortByte + low
    BY <1>3, <1>4 DEF Swapped
  <1>6. high * PortByte + low = p
    BY <1>1
  <1>7. PortByte * low + high \in Nat
    BY <1>1
  <1>. QED BY <1>3, <1>5, <1>6, <1>7

-----------------------------------------------------------------------------
Steps == {"none", "socket", "bind", "select", "recv"}

Datagram == [port : Ports, length : Lengths]

(* What a datagram is to LwIP, its port in the order of the network.       *)
Wire(d) == [source |-> Swapped(d.port), length |-> d.length]

Given(d, buffer) ==
  [error |-> "0",
   size |-> IF d.length > buffer THEN buffer ELSE d.length,
   source |-> d.port, truncated |-> d.length > buffer]

UdpTypes ==
  /\ fd \in Fds \cup {-1} /\ mine \in SUBSET Fds /\ step \in Steps
  /\ call \in [buffer : Buffers \cup {0}, timeout : {0, 1, WaitForever}]
  /\ accepted \in Seq(Datagram) /\ queue \in Seq([source : Nat, length : Lengths])
  /\ answered \in Nat

(* Which sockets the object owns, before each of the calls it makes.       *)
Owned ==
  /\ step \in {"none", "select", "recv"} => mine = IF fd >= 0 THEN {fd} ELSE {}
  /\ step = "socket" => fd < 0 /\ mine = {}
  /\ step = "bind" => fd < 0 /\ \E s \in Fds : mine = {s}
  /\ step \in {"select", "recv"} => fd >= 0

(* What waits is what came and was not answered, in its order.             *)
Waiting ==
  /\ Len(accepted) = answered + Len(queue)
  /\ \A i \in 1 .. Len(queue) : queue[i] = Wire(accepted[answered + i])

(* What the caller was told, when it is told anything.                     *)
Told ==
  /\ step = "none" /\ result.source # 0 =>
       answered \in 1 .. Len(accepted) /\ result = Given(accepted[answered], call.buffer)
  /\ step = "select" => call.timeout # WaitForever
  /\ step = "none" /\ result.error \in {"ETIMEDOUT", "EWOULDBLOCK"} => call.timeout # WaitForever

UdpInv == UdpTypes /\ Owned /\ Waiting /\ Told

(* What LwIP accepts waits behind what it has accepted before. *)
LEMMA ArriveStep ==
  ASSUME UdpInv, NEW p \in Ports, NEW n \in Lengths, Arrive(p, n)
  PROVE  UdpInv'
  <1>. DEFINE d == [port |-> p, length |-> n]
  <1>1. d \in Datagram /\ Wire(d) \in [source : Nat, length : Lengths]
        /\ Wire(d) = [source |-> Swapped(p), length |-> n]
    BY SwappedTwice, UdpAssumption DEF Datagram, Wire
  <1>. HIDE DEF d
  <1>2. /\ queue' = Append(queue, Wire(d)) /\ accepted' = Append(accepted, d)
        /\ UNCHANGED <<others, mine, fd, step, call, result, answered>>
    BY <1>1 DEF Arrive, d
  <1>3. /\ queue' \in Seq([source : Nat, length : Lengths]) /\ accepted' \in Seq(Datagram)
        /\ Len(queue') = Len(queue) + 1 /\ Len(accepted') = Len(accepted) + 1
        /\ \A i \in 1 .. Len(queue) : queue'[i] = queue[i]
        /\ queue'[Len(queue) + 1] = Wire(d)
        /\ \A i \in 1 .. Len(accepted) : accepted'[i] = accepted[i]
        /\ accepted'[Len(accepted) + 1] = d
    BY <1>1, <1>2 DEF UdpInv, UdpTypes
  <1>4. Waiting'
    <2>1. ASSUME NEW i \in 1 .. Len(queue') PROVE queue'[i] = Wire(accepted'[answered + i])
      <3>1. CASE i = Len(queue) + 1
        BY <3>1, <1>3 DEF UdpInv, Waiting, UdpTypes
      <3>2. CASE i \in 1 .. Len(queue)
        <4>1. answered + i \in 1 .. Len(accepted)
          BY <3>2 DEF UdpInv, Waiting, UdpTypes
        <4>. QED BY <4>1, <3>2, <1>3 DEF UdpInv, Waiting
      <3>. QED BY <3>1, <3>2, <1>3 DEF UdpInv, UdpTypes
    <2>2. Len(accepted') = answered' + Len(queue')
      <3>1. answered' = answered /\ answered \in Nat /\ Len(queue) \in Nat
        BY <1>2 DEF UdpInv, UdpTypes
      <3>2. Len(accepted) = answered + Len(queue)
        BY DEF UdpInv, Waiting
      <3>. QED BY <3>1, <3>2, <1>3
    <2>3. answered' = answered
      BY <1>2
    <2>. QED BY <2>1, <2>2, <2>3 DEF Waiting
  <1>5. Told'
    <2>1. ASSUME answered \in 1 .. Len(accepted)
          PROVE  answered' \in 1 .. Len(accepted') /\ accepted'[answered'] = accepted[answered]
      BY <2>1, <1>2, <1>3 DEF UdpInv, UdpTypes
    <2>. QED BY <2>1, <1>2 DEF UdpInv, Told
  <1>. QED BY <1>2, <1>3, <1>4, <1>5 DEF UdpInv, UdpTypes, Owned

(* The datagram at the head goes to the caller, as it came.                *)
LEMMA ReceiveStep ==
  ASSUME UdpInv, Receive
  PROVE  UdpInv'
  <1>. USE UdpAssumption
  <1>. DEFINE d == accepted[answered + 1]
  <1>1. /\ Len(queue) \in Nat /\ Len(queue) >= 1 /\ Len(accepted) = answered + Len(queue)
        /\ answered + 1 \in 1 .. Len(accepted)
        /\ Head(queue) = queue[1]
    BY DEF Receive, UdpInv, UdpTypes, Waiting
  <1>2. d \in Datagram /\ queue[1] = Wire(d)
    BY <1>1 DEF UdpInv, UdpTypes, Waiting
  <1>. HIDE DEF d
  <1>3. d.port \in 1 .. (PortByte * PortByte - 1) /\ d.length \in Nat /\ call.buffer \in Nat
    <2>1. d.port \in Ports /\ d.length \in Lengths /\ call.buffer \in Buffers \cup {0}
      BY <1>2 DEF Datagram, UdpInv, UdpTypes
    <2>2. d.port \in 1 .. (PortByte * PortByte - 1)
      BY <2>1, Zenon
    <2>3. d.length \in Nat
      BY <2>1, Zenon
    <2>4. Buffers \cup {0} \subseteq Nat
      OBVIOUS
    <2>5. call.buffer \in Nat
      BY <2>1, <2>4, Zenon
    <2>. QED BY <2>2, <2>3, <2>5, Zenon
  <1>4. /\ Head(queue).length = d.length
        /\ Swapped(Head(queue).source) = d.port
    BY <1>1, <1>2, <1>3, SwappedTwice DEF Wire
  <1>5. result' = Given(d, call.buffer)
    <2>. DEFINE vector == IF call.buffer = 0 THEN 1 ELSE call.buffer
    <2>1. result' = [error |-> "0",
                     size |-> IF d.length < call.buffer THEN d.length ELSE call.buffer,
                     source |-> d.port,
                     truncated |-> d.length > call.buffer \/ d.length > vector]
      BY <1>4, Zenon DEF Receive, Return
    <2>2. (d.length > call.buffer \/ d.length > vector) <=> d.length > call.buffer
      BY <1>3
    <2>3. (IF d.length < call.buffer THEN d.length ELSE call.buffer)
            = (IF d.length > call.buffer THEN call.buffer ELSE d.length)
      BY <1>3
    <2>4. (d.length > call.buffer \/ d.length > vector) = (d.length > call.buffer)
      BY <2>2
    <2>. HIDE DEF vector
    <2>. QED BY <2>1, <2>3, <2>4, Zenon DEF Given
  <1>6. /\ step' = "none" /\ answered' = answered + 1 /\ step = "recv"
        /\ queue' = Tail(queue)
        /\ UNCHANGED <<others, mine, accepted, fd, call>>
    BY DEF Receive, Return
  <1>7. /\ queue' \in Seq([source : Nat, length : Lengths]) /\ Len(queue') = Len(queue) - 1
        /\ \A i \in 1 .. Len(queue') : queue'[i] = queue[i + 1]
    BY <1>1, <1>6 DEF UdpInv, UdpTypes
  <1>8. Waiting'
    <2>1. ASSUME NEW i \in 1 .. Len(queue') PROVE queue'[i] = Wire(accepted'[answered' + i])
      <3>1. /\ answered \in Nat /\ answered' = answered + 1
            /\ queue \in Seq([source : Nat, length : Lengths])
        BY <1>6 DEF UdpInv, UdpTypes
      <3>2. Len(queue) \in Nat /\ Len(queue') = Len(queue) - 1
        BY <1>7, <3>1
      <3>3. i + 1 \in 1 .. Len(queue)
        BY <3>2
      <3>4. answered' + i = answered + (i + 1)
        BY <3>1, <3>2
      <3>. QED BY <3>3, <3>4, <1>6, <1>7 DEF UdpInv, Waiting
    <2>2. Len(accepted') = answered' + Len(queue')
      <3>1. answered \in Nat /\ answered' = answered + 1 /\ Len(queue') = Len(queue) - 1
        BY <1>6, <1>7 DEF UdpInv, UdpTypes
      <3>2. accepted' = accepted
        BY <1>6
      <3>. QED BY <3>1, <3>2, <1>1
    <2>. QED BY <2>1, <2>2 DEF Waiting
  <1>9. Told'
    <2>1. answered' \in 1 .. Len(accepted') /\ accepted'[answered'] = d /\ call' = call
      BY <1>1, <1>6 DEF d
    <2>2. result'.error = "0"
      BY <1>5 DEF Given
    <2>. QED BY <2>1, <2>2, <1>5, <1>6 DEF Told
  <1>. QED BY <1>1, <1>6, <1>7, <1>8, <1>9 DEF UdpInv, UdpTypes, Owned, Steps

(* The steps of the calls that touch no datagram.                          *)
LEMMA CallStep ==
  ASSUME UdpInv,
         \/ OthersChange \/ Open \/ Socket \/ BindFails \/ Bind \/ SendTo
         \/ \E b \in Buffers, t \in {0, 1, WaitForever} : ReceiveFrom(b, t)
         \/ Select \/ WouldBlock \/ ReceiveFails \/ UNCHANGED udpVars
  PROVE  UdpInv'
  <1>. USE UdpAssumption
  <1>0. ASSUME UNCHANGED <<accepted, queue, answered>>
        PROVE  Waiting' /\ (accepted \in Seq(Datagram))' /\ (answered \in Nat)'
               /\ (queue \in Seq([source : Nat, length : Lengths]))'
    BY <1>0 DEF UdpInv, UdpTypes, Waiting
  <1>1. ASSUME NEW error, Fail(error), step # "bind",
               error \in {"ETIMEDOUT", "EWOULDBLOCK"} => call.timeout # WaitForever
        PROVE  UdpInv'
    <2>1. /\ step' = "none" /\ result' = Answer(error)
          /\ UNCHANGED <<mine, queue, accepted, fd, call, answered>>
      BY <1>1 DEF Fail, Return, lwip
    <2>2. result'.source = 0 /\ result'.error = error
      BY <2>1 DEF Answer
    <2>3. Told'
      BY <2>1, <2>2, <1>1 DEF Told
    <2>4. Owned'
      BY <2>1, <1>1 DEF UdpInv, UdpTypes, Owned, Steps
    <2>. QED BY <2>1, <2>3, <2>4, <1>0 DEF UdpInv, UdpTypes, Steps
  <1>2. CASE OthersChange \/ UNCHANGED udpVars
    BY <1>0, <1>2 DEF OthersChange, udpVars, lwip, UdpInv, UdpTypes, Owned, Told
  <1>3. CASE Open
    <2>1. CASE Fail("EALREADY")
      BY <1>1, <1>3, <2>1 DEF Open
    <2>2. CASE fd < 0 /\ Goto("socket") /\ UNCHANGED <<lwip, call>>
      BY <1>0, <1>3, <2>2 DEF Open, Goto, lwip, UdpInv, UdpTypes, Owned, Told, Steps
    <2>. QED BY <1>3, <2>1, <2>2 DEF Open
  <1>4. CASE Socket
    <2>1. ASSUME NEW s \in Fds, mine' = mine \cup {s}, Goto("bind"),
                 UNCHANGED <<others, queue, accepted, call>>
          PROVE  UdpInv'
      <3>1. mine' = {s}
        BY <1>4, <2>1 DEF Socket, UdpInv, Owned
      <3>. QED BY <3>1, <1>0, <1>4, <2>1 DEF Socket, Goto, UdpInv, UdpTypes, Owned, Told, Steps
    <2>2. CASE Fail("errno")
      BY <1>1, <1>4, <2>2 DEF Socket
    <2>. QED BY <1>4, <2>1, <2>2 DEF Socket
  <1>5. CASE BindFails
    <2>1. result'.source = 0 /\ result'.error = "errno"
      BY <1>5 DEF BindFails, Return, Answer
    <2>. QED BY <2>1, <1>0, <1>5 DEF BindFails, Return, UdpInv, UdpTypes, Owned, Told, Steps
  <1>6. CASE Bind
    <2>1. result'.source = 0 /\ result'.error = "0"
      BY <1>6 DEF Bind, Return, Answer
    <2>2. fd' \in Fds /\ fd' >= 0 /\ mine' = {fd'}
      BY <1>6 DEF Bind, lwip, UdpInv, Owned
    <2>. QED BY <2>1, <2>2, <1>0, <1>6 DEF Bind, Return, lwip, UdpInv, UdpTypes, Owned, Told, Steps
  <1>7. CASE SendTo
    BY <1>1, <1>7 DEF SendTo
  <1>8. ASSUME NEW b \in Buffers, NEW t \in {0, 1, WaitForever}, ReceiveFrom(b, t)
        PROVE  UdpInv'
    <2>1. CASE Fail("EBADF")
      BY <1>1, <1>8, <2>1 DEF ReceiveFrom
    <2>2. CASE /\ fd >= 0 /\ Goto(IF t \in {0, WaitForever} THEN "recv" ELSE "select")
               /\ call' = [buffer |-> b, timeout |-> t] /\ UNCHANGED lwip
      <3>1. /\ call' \in [buffer : Buffers \cup {0}, timeout : {0, 1, WaitForever}]
            /\ call'.timeout = t
        BY <2>2
      <3>2. /\ step' \in {"recv", "select"} /\ (step' = "select" => t # WaitForever)
            /\ UNCHANGED <<mine, queue, accepted, fd, answered>>
        BY <2>2 DEF Goto, lwip
      <3>. QED BY <3>1, <3>2, <2>2, <1>0, <1>8
               DEF ReceiveFrom, UdpInv, UdpTypes, Owned, Told, Steps
    <2>. QED BY <1>8, <2>1, <2>2 DEF ReceiveFrom
  <1>9. CASE Select
    <2>1. CASE Fail("errno") \/ Fail("ETIMEDOUT")
      BY <1>1, <1>9, <2>1 DEF Select, UdpInv, Told
    <2>2. CASE Goto("recv") /\ UNCHANGED <<lwip, call>>
      BY <1>0, <1>9, <2>2 DEF Select, Goto, lwip, UdpInv, UdpTypes, Owned, Told, Steps
    <2>. QED BY <1>9, <2>1, <2>2 DEF Select
  <1>10. CASE WouldBlock
    BY <1>1, <1>10 DEF WouldBlock
  <1>11. CASE ReceiveFails
    BY <1>1, <1>11 DEF ReceiveFails
  <1>. QED BY <1>2, <1>3, <1>4, <1>5, <1>6, <1>7, <1>8, <1>9, <1>10, <1>11

(* close() gives up the socket and what waits for it. *)
LEMMA CloseStep ==
  ASSUME UdpInv, Close
  PROVE  UdpInv'
  <1>1. /\ step' = "none" /\ fd' = -1 /\ mine' = {} /\ queue' = <<>> /\ accepted' = <<>>
        /\ answered' = 0 /\ call' = call
    BY DEF Close, Return, UdpInv, Owned
  <1>2. result'.source = 0 /\ result'.error = "0"
    BY DEF Close, Return, Answer
  <1>. QED BY <1>1, <1>2 DEF UdpInv, UdpTypes, Owned, Waiting, Told, Steps

(* Sockets, datagrams and answers agree between all calls of LwIP. *)
THEOREM UdpInvariance == UdpSpec => []UdpInv
  <1>1. UdpInit => UdpInv
    BY DEF UdpInit, Answer, UdpInv, UdpTypes, Owned, Waiting, Told, Steps, WaitForever
  <1>2. UdpInv /\ [UdpNext]_udpVars => UdpInv'
    BY ArriveStep, ReceiveStep, CallStep, CloseStep DEF UdpNext
  <1>. QED BY <1>1, <1>2, PTL DEF UdpSpec

(* No socket leaks, and the caller of receiveFrom() is told of every       *)
(* datagram once, in order, with its port and its length.                  *)
THEOREM SocketTruthfulThm == UdpSpec => []SocketTruthful
  <1>1. UdpInv => SocketTruthful
    BY DEF UdpInv, Owned, Waiting, Told, Given, SocketTruthful
  <1>. QED BY <1>1, UdpInvariance, PTL

-----------------------------------------------------------------------------
(***************************************************************************)
(* DP83822Setup: a usable object drives the right chip, and the chip does  *)
(* what it was asked for, for any boards, straps, addresses and requests.  *)
(* AsConfigured speaks of an object between its operations; the inductive  *)
(* invariant says what each access of an operation has made of the chip,   *)
(* and that nothing of it is relied on after an operation that failed.     *)
(***************************************************************************)
(* What a mode field may hold: what the boards and their straps offer, what is asked for. *)
ModeSets ==
  {{}} \cup {b.modes : b \in Boards} \cup {b.strap.mode : b \in Boards}
       \cup {c.modes : c \in LinkConfigs}

BmcrValues == [auto : BOOLEAN, mode : ModeSets, restarting : BOOLEAN]

ChipValues ==
  [auto : BOOLEAN, mode : ModeSets, restarting : BOOLEAN, anar : ModeSets, negotiated : ModeSets,
   mdix : SUBSET {"auto", "robust"}, resetting : BOOLEAN,
   events : {"none", "link"}, output : BOOLEAN]

(* What PhyStatus tells the status from. *)
PhyResults ==
  {"Ok", "NotInitialized", "InvalidArgument", "AmbiguousAddress", "NotFound", "ResetTimeout",
   "Unsupported", "ReadError", "WriteError"}

PhyValues ==
  [status : PhyResults, address : Addresses, supported : ModeSets, canAuto : BOOLEAN,
   registered : BOOLEAN]

(* The accesses, by the function that makes them. *)
Searching     == {"id1", "id2"}
Resetting     == {"phyrcr", "reset", "poll"}
Crossing      == {"phycr", "mdix", "cr1", "robust"}
Applying      == {"bmcr", "anar", "force", "advertise", "negotiate"}
Interrupting  == {"misr1", "misr2", "noevents", "events", "physcr", "output"}
Renegotiating == {"renegotiate", "restart", "restarted"}

(* Boards, registers and the fields of the object have their types. *)
SetupTypes ==
  /\ board \in Boards /\ config \in LinkConfigs /\ applied \subseteq LinkConfigs
  /\ regs \in [Addresses -> ChipValues] /\ phy \in PhyValues
  /\ bmcr \in BmcrValues /\ found \subseteq Addresses

(* A chip that is no DP83822 is as its straps left it. *)
OnlyChips == \A a \in Addresses \ board.dps : regs[a] = Strapped

(* probeAddress() has found every DP83822 below the address it is at, and no chip was
   written to since the pin reset them. *)
Searched ==
  /\ access \in Searching =>
       /\ IF board.requested = AutoAddress THEN found = {a \in board.dps : a < phy.address}
                                           ELSE found = {} /\ phy.address = board.requested
       /\ board.resetPin => \A a \in Addresses : regs[a] = Strapped
  /\ access \notin Searching => found = {}

(* The address is the only DP83822's, or the one asked for and a DP83822's. *)
TheChip ==
  IF board.requested = AutoAddress THEN board.dps = {phy.address}
                                   ELSE phy.address = board.requested /\ phy.address \in board.dps

(* From the search on, and as long as the object is usable, it drives that chip. *)
Chosen == access \notin Searching \cup {"none"} \/ phy.status = "Ok" => TheChip

(* Each access belongs to the operation that makes it: start() makes its own on an object
   that is not usable, the other two theirs on one that is. *)
InOperation ==
  /\ access \in {"none", "bmsr", "done"} \cup Searching \cup Resetting \cup Crossing
               \cup Applying \cup Interrupting \cup Renegotiating
  /\ access \in Searching \cup Resetting \cup Crossing \cup {"bmsr"} \cup Interrupting =>
       op = "start"
  /\ access \in Renegotiating => op = "restart"
  /\ access \in Applying \cup {"done"} => op \in {"start", "configure"}
  /\ access # "none" => (phy.status = "Ok" <=> op # "start")
  /\ phy.status = "Ok" => phy.registered = board.intPin
  /\ access \in Interrupting => board.intPin

(* The chip is out of reset, and what it negotiated is what it advertises. *)
Fresh == ~Register.resetting /\ (Register.auto => Register.anar = Register.negotiated)

(* The chip is out of reset, and the cable may be crossed. *)
Fit == ~Register.resetting /\ Register.mdix = {"auto", "robust"}

(* Link events reach the pin. *)
Wired == Register.events = "link" /\ Register.output

(* The chip does what c asks for. *)
LinkAs(c) ==
  IF c.auto THEN Register.auto /\ Register.anar = c.modes /\ Register.negotiated = c.modes
            ELSE ~Register.auto /\ Register.mode = c.modes /\ ~Register.restarting

(* What softReset() and configureAutoMdix() have left before each access. *)
Prepared ==
  /\ access = "poll" => Register.resetting \/ Fresh
  /\ access \in Crossing \cup {"bmsr", "bmcr", "anar"} => Fresh
  /\ access \in {"cr1", "robust"} => "auto" \in Register.mdix
  /\ access \in {"bmsr", "done"} \cup Applying \cup Interrupting => Fit

(* What applyConfig() and restartAutoNegotiation() have read or written before each access. *)
Linking ==
  /\ access = "anar" =>
       /\ bmcr.auto = Register.auto /\ bmcr.mode = Register.mode
       /\ Register.restarting => bmcr.restarting
  /\ access = "force" => ~config.auto
  /\ access \in {"advertise", "negotiate"} => config.auto
  /\ access = "negotiate" => Register.anar = config.modes
  /\ access = "restart" => Register.auto /\ bmcr.auto
  /\ access \in Interrupting \cup {"done"} => LinkAs(config)

(* What configureInterrupt() has written before each access. *)
Wiring ==
  /\ access \in {"physcr", "output"} => Register.events = "link"
  /\ access = "done" /\ board.intPin => Wired

(* A usable object's chip is fit and wired, and does what the latest successful call asked
   for until an operation writes to it. *)
Kept ==
  phy.status = "Ok" =>
    /\ Fit /\ (board.intPin => Wired)
    /\ access \in {"none", "bmcr", "anar"} \cup Renegotiating => \E c \in applied : LinkAs(c)

(* What the register accesses have made of the chip. *)
StageInv == Prepared /\ Linking /\ Wiring /\ Kept

(* The inductive invariant. *)
SetupInv == SetupTypes /\ OnlyChips /\ Searched /\ Chosen /\ InOperation /\ StageInv

(* What the types and the assumption on boards say of the chip the object drives. *)
LEMMA SetupTyped ==
  ASSUME SetupTypes
  PROVE  /\ phy.address \in Addresses /\ phy.address \in Nat
         /\ Register \in ChipValues /\ Strapped \in ChipValues
         /\ config.auto \in BOOLEAN /\ config.modes \in ModeSets
         /\ board.intPin \in BOOLEAN /\ board.resetPin \in BOOLEAN /\ board.canAuto \in BOOLEAN
         /\ board.modes \in ModeSets /\ board.dps \subseteq Addresses
         /\ NoBmcr \in BmcrValues /\ NoPhy \in PhyValues
  <1>1. /\ phy.address \in Addresses /\ regs \in [Addresses -> ChipValues]
    BY DEF SetupTypes, PhyValues
  <1>2. phy.address \in Nat
    BY <1>1, SetupAssumption DEF Addresses
  <1>3. Register \in ChipValues
    BY <1>1 DEF Register
  <1>4. board \in Boards /\ config \in LinkConfigs
    BY DEF SetupTypes
  <1>5. /\ board.dps \subseteq Addresses
        /\ {board.resetPin, board.intPin, board.canAuto, board.strap.auto} \subseteq BOOLEAN
        /\ config.auto \in BOOLEAN
    BY <1>4, SetupAssumption, Zenon DEF Addresses
  <1>6. board.modes \in ModeSets /\ board.strap.mode \in ModeSets /\ config.modes \in ModeSets
        /\ {} \in ModeSets
    BY <1>4, Zenon DEF ModeSets
  <1>7. Strapped \in ChipValues
    BY <1>5, <1>6 DEF Strapped, ChipValues
  <1>8. NoBmcr \in BmcrValues
    BY <1>6 DEF NoBmcr, BmcrValues
  <1>9. NoPhy \in PhyValues
    <2>1. 0 \in Addresses
      BY SetupAssumption DEF Addresses
    <2>. QED BY <1>6, <2>1 DEF NoPhy, PhyValues, PhyResults
  <1>. QED BY <1>1, <1>2, <1>3, <1>5, <1>6, <1>7, <1>8, <1>9

(* An object that gives up has a status and an address of their types. *)
LEMMA Unusable ==
  ASSUME NEW p \in PhyValues, NEW outcome \in PhyResults
  PROVE  /\ [p EXCEPT !.status = outcome, !.address = 0] \in PhyValues
         /\ [p EXCEPT !.status = outcome, !.address = 0].status = outcome
  <1>1. 0 \in Addresses
    BY SetupAssumption DEF Addresses
  <1>. QED BY <1>1 DEF PhyValues

(* An operation that fails and leaves the object unusable promises nothing of the chip. *)
LEMMA Failed ==
  ASSUME SetupInv, NEW outcome, Finish(outcome), applied' = applied,
         regs' \in [Addresses -> ChipValues], OnlyChips',
         phy' \in PhyValues, phy'.status # "Ok"
  PROVE  SetupInv'
  <1>. USE DEF SetupInv
  <1>1. SetupTypes'
    BY SetupTyped DEF SetupTypes, Finish, inputs
  <1>2. Searched' /\ Chosen' /\ InOperation'
    BY DEF Searched, Chosen, InOperation, Finish, Searching, Resetting, Crossing, Applying,
           Interrupting, Renegotiating
  <1>3. StageInv'
    BY DEF StageInv, Prepared, Linking, Wiring, Kept, Finish, Crossing, Applying,
           Interrupting
  <1>. QED BY <1>1, <1>2, <1>3

(* An operation that stops at a read writes nothing: start() leaves the object unusable, the
   others leave it and its chip as they were. *)
LEMMA StoppedAt ==
  ASSUME SetupInv, NEW outcome \in PhyResults, outcome # "Ok", StopWith(outcome), UNCHANGED regs,
         access \in {"bmcr", "anar", "renegotiate"} \/ op = "start"
  PROVE  SetupInv'
  <1>. USE DEF SetupInv
  <1>1. Finish(outcome) /\ applied' = applied /\ access' = "none" /\ board' = board
    BY DEF StopWith, Finish
  <1>2. OnlyChips' /\ regs' \in [Addresses -> ChipValues]
    BY <1>1 DEF OnlyChips, Strapped, SetupTypes
  <1>3. CASE op = "start"
    <2>1. phy' \in PhyValues /\ phy'.status = outcome
      BY <1>3, Unusable DEF StopWith, SetupTypes
    <2>. QED BY <1>1, <1>2, <2>1, Failed
  <1>4. CASE op # "start"
    <2>1. phy' = phy /\ Register' = Register
      BY <1>4 DEF StopWith, Register
    <2>2. SetupTypes'
      BY <1>1, <1>2, <2>1, SetupTyped DEF SetupTypes, Finish, inputs
    <2>3. Searched' /\ Chosen' /\ InOperation'
      BY <1>1, <1>4, <2>1
      DEF Searched, Chosen, TheChip, InOperation, Finish, Searching, Resetting, Crossing,
          Applying, Interrupting, Renegotiating
    <2>4. Prepared' /\ Linking' /\ Wiring'
      BY <1>1 DEF Prepared, Linking, Wiring, Crossing, Applying, Interrupting
    <2>5. access \in {"bmcr", "anar"} \cup Renegotiating
      BY <1>4 DEF Renegotiating
    <2>6. Kept'
      BY <1>1, <2>1, <2>5 DEF StageInv, Kept, Fit, Wired, LinkAs
    <2>. QED BY <1>2, <2>2, <2>3, <2>4, <2>6 DEF StageInv
  <1>. QED BY <1>3, <1>4

(* A write reaches the chosen chip, and no other, or fails and leaves the object unusable. *)
LEMMA Written ==
  ASSUME SetupInv, NEW s, NEW r \in ChipValues, NEW next, Write(s, r, next),
         s \notin Searching \cup {"none"}, next \notin Searching
  PROVE  \/ SetupInv'
         \/ /\ access = s /\ access' = next /\ Register' = r
            /\ UNCHANGED <<board, op, config, phy, found, bmcr, anar, applied>>
            /\ SetupTypes' /\ OnlyChips' /\ Searched' /\ Chosen'
  <1>. USE DEF SetupInv
  <1>1. access = s /\ board' = board /\ TheChip /\ phy.address \in Addresses
    BY SetupTyped DEF Write, Chosen, GoOn, Finish
  <1>2. phy.address \in board.dps
    BY <1>1 DEF TheChip
  <1>3. ASSUME regs' \in {regs, [regs EXCEPT ![phy.address] = r]}
        PROVE  OnlyChips' /\ regs' \in [Addresses -> ChipValues]
    <2>1. regs' \in [Addresses -> ChipValues]
      BY <1>1, <1>3 DEF SetupTypes
    <2>2. \A a \in Addresses \ board.dps : regs'[a] = regs[a]
      BY <1>1, <1>2, <1>3 DEF SetupTypes
    <2>. QED BY <1>1, <2>1, <2>2 DEF OnlyChips, Strapped
  <1>4. CASE /\ regs' = [regs EXCEPT ![phy.address] = r]
             /\ GoOn(next) /\ UNCHANGED <<phy, locals>>
    <2>1. /\ access' = next
          /\ UNCHANGED <<board, op, config, phy, found, bmcr, anar, applied>>
      BY <1>4 DEF GoOn, inputs, locals
    <2>2. Register' = r
      BY <1>1, <1>4 DEF Register, SetupTypes
    <2>3. SetupTypes'
      BY <1>3, <1>4, <2>1 DEF SetupTypes
    <2>4. Searched' /\ Chosen'
      BY <1>1, <2>1 DEF Searched, Chosen, TheChip
    <2>. QED BY <1>1, <1>3, <1>4, <2>1, <2>2, <2>3, <2>4
  <1>5. CASE /\ regs' \in {regs, [regs EXCEPT ![phy.address] = r]}
             /\ Finish("WriteError")
             /\ phy' = [phy EXCEPT !.status = "WriteError", !.address = 0]
             /\ UNCHANGED applied
    <2>1. phy' \in PhyValues /\ phy'.status # "Ok"
      BY <1>5, Unusable DEF SetupTypes, PhyResults
    <2>. QED BY <1>3, <1>5, <2>1, Failed
  <1>. QED BY <1>4, <1>5 DEF Write

(* A chip that resets itself was told to, and no operation relies on its registers then;
   one that begins to negotiate clears a bit that only applyConfig() asks about. *)
LEMMA ChipOnItsOwn ==
  ASSUME SetupInv, NEW a \in Addresses, ChipResets(a) \/ ChipRestarts(a)
  PROVE  SetupInv'
  <1>. USE DEF SetupInv
  <1>1. UNCHANGED <<board, phy, op, config, access, found, bmcr, anar, applied>>
    BY DEF ChipResets, ChipRestarts, Chip, inputs, locals
  <1>2. PICK r \in ChipValues :
          /\ regs' = [regs EXCEPT ![a] = r]
          /\ \/ regs[a].resetting /\ r = Strapped
             \/ regs[a].restarting /\ r = [regs[a] EXCEPT !.restarting = FALSE]
    <2>1. regs[a] \in ChipValues
      BY DEF SetupTypes
    <2>2. [regs[a] EXCEPT !.restarting = FALSE] \in ChipValues
      BY <2>1 DEF ChipValues
    <2>. QED BY <2>2, SetupTyped DEF ChipResets, ChipRestarts, Chip
  <1>3. SetupTypes'
    BY <1>1, <1>2 DEF SetupTypes
  <1>4. Strapped' = Strapped /\ ~Strapped.resetting /\ ~Strapped.restarting
    BY <1>1 DEF Strapped
  <1>5. \A b \in Addresses : regs'[b] = IF b = a THEN r ELSE regs[b]
    BY <1>2 DEF SetupTypes
  <1>6. \A b \in Addresses : regs[b] = Strapped => regs'[b] = Strapped
    BY <1>2, <1>4, <1>5
  <1>7. OnlyChips' /\ Searched' /\ Chosen'
    BY <1>1, <1>4, <1>6 DEF OnlyChips, Searched, Chosen, TheChip, AutoAddress
  <1>8. InOperation'
    BY <1>1 DEF InOperation
  <1>9. Register' = IF phy.address = a THEN r ELSE Register
    BY <1>1, <1>5, SetupTyped DEF Register
  <1>10. CASE Register' = Register
    BY <1>1, <1>3, <1>7, <1>8, <1>10
    DEF StageInv, Prepared, Linking, Wiring, Kept, Fresh, Fit, Wired, LinkAs
  <1>11. CASE Register.resetting /\ Register' = Strapped
    <2>1. Fresh'
      BY <1>4, <1>11 DEF Fresh, Strapped
    <2>2. StageInv'
      BY <1>1, <1>11, <2>1
      DEF StageInv, Prepared, Linking, Wiring, Kept, Fresh, Fit, InOperation, Crossing,
          Applying, Interrupting, Renegotiating, Searching, Resetting
    <2>. QED BY <1>3, <1>7, <1>8, <2>2
  <1>12. CASE Register' = [Register EXCEPT !.restarting = FALSE]
    <2>1. /\ Register'.auto = Register.auto /\ Register'.mode = Register.mode
          /\ Register'.anar = Register.anar /\ Register'.negotiated = Register.negotiated
          /\ Register'.mdix = Register.mdix /\ Register'.resetting = Register.resetting
          /\ Register'.events = Register.events /\ Register'.output = Register.output
          /\ Register'.restarting = FALSE
      BY <1>12, SetupTyped DEF ChipValues
    <2>2. Prepared' /\ Wiring'
      BY <1>1, <2>1 DEF StageInv, Prepared, Wiring, Fresh, Fit, Wired
    <2>3. \A c : LinkAs(c) => LinkAs(c)'
      BY <2>1 DEF LinkAs
    <2>4. Linking' /\ Kept'
      BY <1>1, <2>1, <2>3 DEF StageInv, Linking, Kept, Fit, Wired, LinkAs
    <2>. QED BY <1>3, <1>7, <1>8, <2>2, <2>4 DEF StageInv
  <1>. QED
    <2>1. CASE phy.address # a BY <1>9, <1>10, <2>1
    <2>2. CASE phy.address = a BY <1>2, <1>9, <1>11, <1>12, <2>2 DEF Register
    <2>. QED BY <2>1, <2>2

(* Before start() nothing is promised, and no chip was written to. *)
LEMMA SetupStarts == SetupInit => SetupInv
  <1>. SUFFICES ASSUME SetupInit PROVE SetupInv
    OBVIOUS
  <1>1. board \in Boards /\ applied = {} /\ access = "none" /\ found = {} /\ bmcr = NoBmcr
        /\ phy = NoPhy
    BY DEF SetupInit
  <1>2. config \in LinkConfigs
    BY SetupAssumption DEF SetupInit
  <1>3. Strapped \in ChipValues /\ NoBmcr \in BmcrValues /\ NoPhy \in PhyValues
    <2>1. {} \in ModeSets /\ board.modes \in ModeSets /\ board.strap.mode \in ModeSets
      BY <1>1, Zenon DEF ModeSets
    <2>2. 0 \in Addresses /\ board.strap.auto \in BOOLEAN
      BY <1>1, SetupAssumption DEF Addresses
    <2>3. Strapped \in ChipValues
      BY <2>1, <2>2 DEF Strapped, ChipValues
    <2>4. NoBmcr \in BmcrValues
      BY <2>1 DEF NoBmcr, BmcrValues
    <2>. QED BY <2>1, <2>2, <2>3, <2>4 DEF NoPhy, PhyValues, PhyResults
  <1>4. SetupTypes
    BY <1>1, <1>2, <1>3 DEF SetupTypes, SetupInit
  <1>5. OnlyChips
    BY DEF SetupInit, OnlyChips
  <1>6. phy.status # "Ok"
    BY <1>1 DEF NoPhy
  <1>7. Searched /\ Chosen /\ InOperation
    BY <1>1, <1>6
    DEF Searched, Chosen, InOperation, Searching, Resetting, Crossing, Applying,
        Interrupting, Renegotiating
  <1>8. StageInv
    BY <1>1, <1>6
    DEF StageInv, Prepared, Linking, Wiring, Kept, Crossing, Applying, Interrupting
  <1>. QED BY <1>4, <1>5, <1>7, <1>8 DEF SetupInv

(* A read between two accesses of an operation moves only the access. *)
LEMMA OnlyRead ==
  ASSUME SetupInv, NEW s, NEW next, Read(s, next),
         s \notin Searching \cup {"none"}, next \notin Searching
  PROVE  /\ access = s /\ access' = next
         /\ UNCHANGED <<board, op, config, phy, found, bmcr, anar, applied, regs, Register>>
         /\ SetupTypes' /\ OnlyChips' /\ Searched' /\ Chosen'
  <1>. USE DEF SetupInv
  <1>1. /\ access = s /\ access' = next
        /\ UNCHANGED <<board, op, config, phy, found, bmcr, anar, applied, regs>>
    BY DEF Read, Reading, GoOn, inputs, locals
  <1>2. Register' = Register
    BY <1>1 DEF Register
  <1>3. SetupTypes' /\ OnlyChips' /\ Searched'
    BY <1>1 DEF SetupTypes, OnlyChips, Strapped, Searched
  <1>4. Chosen'
    BY <1>1 DEF Chosen, TheChip
  <1>. QED BY <1>1, <1>2, <1>3, <1>4

(* The reads that decide nothing: softReset(), configureAutoMdix(), configureInterrupt(). *)
LEMMA ReadsKeep ==
  ASSUME SetupInv,
         \/ ReadPhyrcr \/ ReadPhycr \/ ReadCr1 \/ ReadMisr1 \/ ReadMisr2 \/ ReadPhyscr
  PROVE  SetupInv'
  <1>. USE DEF SetupInv
  <1>1. PICK s, next : 
          /\ Read(s, next)
          /\ \/ s = "phyrcr" /\ next = "reset"
             \/ s = "phycr" /\ next = "mdix"
             \/ s = "cr1" /\ next = "robust"
             \/ s = "misr1" /\ next = "misr2"
             \/ s = "misr2" /\ next = "noevents"
             \/ s = "physcr" /\ next = "output"
    BY DEF ReadPhyrcr, ReadPhycr, ReadCr1, ReadMisr1, ReadMisr2, ReadPhyscr
  <1>2. /\ access = s /\ access' = next
        /\ UNCHANGED <<board, op, config, phy, found, bmcr, anar, applied, regs, Register>>
        /\ SetupTypes' /\ OnlyChips' /\ Searched' /\ Chosen'
    BY <1>1, OnlyRead DEF Searching
  <1>3. InOperation'
    BY <1>1, <1>2
    DEF InOperation, Searching, Resetting, Crossing, Applying, Interrupting, Renegotiating
  <1>4. Prepared'
    BY <1>1, <1>2 DEF StageInv, Prepared, Crossing, Applying, Interrupting, Fresh, Fit
  <1>5. Linking' /\ Wiring'
    BY <1>1, <1>2 DEF StageInv, Linking, Wiring, Interrupting, LinkAs
  <1>6. Kept'
    BY <1>1, <1>2
    DEF InOperation, StageInv, Kept, Searching, Resetting, Crossing, Interrupting
  <1>. QED BY <1>2, <1>3, <1>4, <1>5, <1>6 DEF StageInv

(* The writes of the same three functions, each adding its bit. *)
LEMMA WritesKeep ==
  ASSUME SetupInv,
         \/ WriteReset \/ WriteMdix \/ WriteRobust \/ WriteMisr2 \/ WriteMisr1 \/ WritePhyscr
  PROVE  SetupInv'
  <1>. USE DEF SetupInv
  <1>. DEFINE Case(s, r, next) ==
        \/ s = "reset" /\ next = "poll" /\ r = [Register EXCEPT !.resetting = TRUE]
        \/ s = "mdix" /\ next = "cr1" /\ r = [Register EXCEPT !.mdix = @ \cup {"auto"}]
        \/ s = "robust" /\ next = "bmsr" /\ r = [Register EXCEPT !.mdix = @ \cup {"robust"}]
        \/ s = "noevents" /\ next = "events" /\ r = Register
        \/ s = "events" /\ next = "physcr" /\ r = [Register EXCEPT !.events = "link"]
        \/ s = "output" /\ next = "done" /\ r = [Register EXCEPT !.output = TRUE]
  <1>1. PICK s, r, next : Write(s, r, next) /\ Case(s, r, next)
    BY DEF WriteReset, WriteMdix, WriteRobust, WriteMisr2, WriteMisr1, WritePhyscr
  <1>2. r \in ChipValues
    <2>1. Register \in ChipValues
      BY SetupTyped
    <2>2. Register.mdix \cup {"auto"} \in SUBSET {"auto", "robust"}
          /\ Register.mdix \cup {"robust"} \in SUBSET {"auto", "robust"}
      BY <2>1 DEF ChipValues
    <2>3. /\ [Register EXCEPT !.resetting = TRUE] \in ChipValues
          /\ [Register EXCEPT !.output = TRUE] \in ChipValues
      BY <2>1, Zenon DEF ChipValues
    <2>4. [Register EXCEPT !.events = "link"] \in ChipValues
      BY <2>1, Zenon DEF ChipValues
    <2>5. /\ [Register EXCEPT !.mdix = @ \cup {"auto"}] \in ChipValues
          /\ [Register EXCEPT !.mdix = @ \cup {"robust"}] \in ChipValues
      BY <2>1, <2>2, Zenon DEF ChipValues
    <2>. QED BY <1>1, <2>1, <2>3, <2>4, <2>5, Zenon
  <1>3. CASE SetupInv'
    BY <1>3
  <1>4. CASE /\ access = s /\ access' = next /\ Register' = r
             /\ UNCHANGED <<board, op, config, phy, found, bmcr, anar, applied>>
             /\ SetupTypes' /\ OnlyChips' /\ Searched' /\ Chosen'
    <2>1. InOperation'
      BY <1>1, <1>4
      DEF InOperation, Searching, Resetting, Crossing, Applying, Interrupting, Renegotiating
    <2>2. phy.status # "Ok"
      BY <1>1, <1>4 DEF InOperation, Searching, Resetting, Crossing, Interrupting
    <2>3. Kept'
      BY <1>4, <2>2 DEF Kept
    <2>4. Register \in ChipValues
      BY SetupTyped
    <2>5. Prepared'
      BY <1>1, <1>4, <2>4
      DEF StageInv, Prepared, Crossing, Applying, Interrupting, Fresh, Fit, ChipValues
    <2>6. Linking'
      BY <1>1, <1>4, <2>4 DEF StageInv, Linking, Interrupting, LinkAs, ChipValues
    <2>7. Wiring'
      BY <1>1, <1>4, <2>4 DEF StageInv, Wiring, Wired, ChipValues
    <2>. QED BY <1>4, <2>1, <2>3, <2>5, <2>6, <2>7 DEF StageInv
  <1>. QED
    BY <1>1, <1>2, <1>3, <1>4, Written DEF Searching

(* start() begins afresh: with every chip reset, if there is a pin for it. *)
LEMMA StartsKeep ==
  ASSUME SetupInv, NEW c \in LinkConfigs, StartRefused(c) \/ StartBegins(c)
  PROVE  SetupInv'
  <1>. USE DEF SetupInv
  <1>1. /\ access = "none" /\ op' = "start" /\ config' = c /\ found = {}
        /\ UNCHANGED <<board, found, bmcr, anar, applied>>
    BY DEF StartRefused, StartBegins, Begin, locals, Searched, Searching
  <1>2. CASE StartRefused(c)
    <2>1. UNCHANGED <<regs, access>> /\ phy' = [NoPhy EXCEPT !.status = "InvalidArgument"]
      BY <1>2 DEF StartRefused
    <2>2. phy' \in PhyValues /\ phy'.status # "Ok"
      BY <2>1, SetupTyped DEF PhyValues, PhyResults
    <2>3. SetupTypes' /\ OnlyChips'
      BY <1>1, <2>1, <2>2 DEF SetupTypes, OnlyChips, Strapped
    <2>4. Searched' /\ Chosen' /\ InOperation'
      BY <1>1, <2>1, <2>2
      DEF Searched, Chosen, InOperation, Searching, Resetting, Crossing, Applying,
          Interrupting, Renegotiating
    <2>5. StageInv'
      BY <1>1, <2>1, <2>2
      DEF StageInv, Prepared, Linking, Wiring, Kept, Crossing, Applying, Interrupting
    <2>. QED BY <2>3, <2>4, <2>5
  <1>3. CASE StartBegins(c)
    <2>1. /\ access' = "id1" /\ ValidAddress
          /\ phy' = [NoPhy EXCEPT !.address =
                      IF board.requested = AutoAddress THEN 0 ELSE board.requested]
          /\ regs' = IF board.resetPin THEN [a \in Addresses |-> Strapped] ELSE regs
      BY <1>3 DEF StartBegins
    <2>2. NoPhy \in PhyValues /\ Strapped \in ChipValues /\ board.dps \subseteq Addresses
      BY SetupTyped
    <2>3. phy'.address \in Addresses
      BY <2>1, SetupAssumption DEF ValidAddress, Addresses, NoPhy
    <2>4. phy' \in PhyValues /\ phy'.status = "NotInitialized"
      BY <2>1, <2>2, <2>3 DEF PhyValues, NoPhy
    <2>5. SetupTypes' /\ OnlyChips'
      BY <1>1, <2>1, <2>2, <2>4 DEF SetupTypes, OnlyChips, Strapped
    <2>6. board.requested = AutoAddress => {a \in board.dps : a < phy'.address} = {}
      BY <2>1, <2>2, SetupAssumption DEF Addresses, NoPhy
    <2>7. board.requested # AutoAddress => phy'.address = board.requested
      BY <2>1 DEF NoPhy
    <2>8. board.resetPin => \A a \in Addresses : regs'[a] = Strapped
      BY <2>1
    <2>9. Strapped' = Strapped
      BY <1>1 DEF Strapped
    <2>10. Searched'
      BY <1>1, <2>1, <2>6, <2>7, <2>8, <2>9 DEF Searched, Searching, AutoAddress
    <2>11. Chosen' /\ InOperation'
      BY <1>1, <2>1, <2>4
      DEF Chosen, InOperation, Searching, Resetting, Crossing, Applying, Interrupting,
          Renegotiating
    <2>12. StageInv'
      BY <1>1, <2>1, <2>4
      DEF StageInv, Prepared, Linking, Wiring, Kept, Crossing, Applying, Interrupting
    <2>. QED BY <2>5, <2>10, <2>11, <2>12
  <1>. QED BY <1>2, <1>3

(* configureLink() and restartAutoNegotiation() begin from what the object kept. *)
LEMMA AsksKeep ==
  ASSUME SetupInv, (\E c \in LinkConfigs : ConfigureLink(c)) \/ RestartAutoNegotiation
  PROVE  SetupInv'
  <1>. USE DEF SetupInv
  <1>1. /\ access = "none" /\ config' \in LinkConfigs
        /\ UNCHANGED <<board, regs, phy, found, bmcr, anar, applied>>
        /\ \/ access' = "none"
           \/ access' = "bmcr" /\ op' = "configure" /\ phy.status = "Ok"
           \/ access' = "renegotiate" /\ op' = "restart" /\ phy.status = "Ok"
    BY DEF ConfigureLink, RestartAutoNegotiation, Begin, locals, Refusal, SetupTypes
  <1>2. Register' = Register
    BY <1>1 DEF Register
  <1>3. SetupTypes' /\ OnlyChips' /\ Searched'
    BY <1>1 DEF SetupTypes, OnlyChips, Strapped, Searched, Searching
  <1>4. Chosen'
    BY <1>1 DEF Chosen, TheChip, Searching
  <1>5. InOperation'
    BY <1>1
    DEF InOperation, Searching, Resetting, Crossing, Applying, Interrupting, Renegotiating
  <1>6. Kept' /\ Linking' /\ Wiring'
    BY <1>1, <1>2
    DEF StageInv, Kept, Linking, Wiring, Fit, Wired, LinkAs, Renegotiating, Interrupting
  <1>7. Prepared'
    <2>1. CASE access' = "bmcr"
      <3>1. Fit /\ \E c \in applied : LinkAs(c)
        BY <1>1, <2>1 DEF StageInv, Kept
      <3>2. Fresh
        BY <3>1 DEF Fit, Fresh, LinkAs
      <3>. QED BY <1>2, <2>1, <3>1, <3>2 DEF Prepared, Fit, Fresh
    <2>2. CASE access' # "bmcr"
      BY <1>1, <2>2 DEF Prepared, Crossing, Applying, Interrupting
    <2>. QED BY <2>1, <2>2
  <1>. QED BY <1>3, <1>4, <1>5, <1>6, <1>7 DEF StageInv

(* A read may fail at any access. *)
LEMMA ReadFailsKeep ==
  ASSUME SetupInv, ReadFails
  PROVE  SetupInv'
  <1>1. /\ StopWith("ReadError") /\ UNCHANGED regs
        /\ access \in {"id1", "id2", "phyrcr", "poll", "phycr", "cr1", "bmsr", "bmcr", "anar",
                       "misr1", "misr2", "physcr", "renegotiate"}
    BY DEF ReadFails, Reading
  <1>2. access \in {"bmcr", "anar", "renegotiate"} \/ op = "start"
    BY <1>1 DEF SetupInv, InOperation, Searching, Resetting, Crossing, Interrupting
  <1>3. "ReadError" \in PhyResults
    BY DEF PhyResults
  <1>. QED BY <1>1, <1>2, <1>3, StoppedAt

(* The first identifier decides nothing without the second. *)
LEMMA ReadId1Keeps ==
  ASSUME SetupInv, ReadId1
  PROVE  SetupInv'
  <1>. USE DEF SetupInv
  <1>1. /\ access = "id1" /\ access' = "id2"
        /\ UNCHANGED <<board, op, config, phy, found, bmcr, anar, applied, regs>>
    BY DEF ReadId1, Read, Reading, GoOn, inputs, locals
  <1>2. SetupTypes' /\ OnlyChips' /\ Searched'
    BY <1>1 DEF SetupTypes, OnlyChips, Strapped, Searched, Searching, AutoAddress
  <1>3. op = "start" /\ phy.status # "Ok"
    BY <1>1 DEF InOperation, Searching
  <1>4. Chosen' /\ InOperation'
    BY <1>1, <1>3
    DEF Chosen, InOperation, Searching, Resetting, Crossing, Applying, Interrupting,
        Renegotiating
  <1>5. StageInv'
    BY <1>1, <1>3
    DEF StageInv, Prepared, Linking, Wiring, Kept, Crossing, Applying, Interrupting
  <1>. QED BY <1>2, <1>4, <1>5

(* Of a set of at most one element, any element is the only one. *)
LEMMA TheOnly ==
  ASSUME NEW S, IsFiniteSet(S), Cardinality(S) <= 1, NEW a \in S
  PROVE  S = {a}
  <1>. SUFFICES ASSUME NEW b \in S, b # a PROVE FALSE
    OBVIOUS
  <1>1. IsFiniteSet({a}) /\ Cardinality({a}) = 1
    BY FS_Singleton
  <1>2. IsFiniteSet({a} \cup {b}) /\ Cardinality({a} \cup {b}) = 2
    BY <1>1, FS_AddElement
  <1>3. {a} \cup {b} \subseteq S
    OBVIOUS
  <1>4. Cardinality({a} \cup {b}) <= Cardinality(S)
    BY <1>3, FS_Subset
  <1>5. Cardinality(S) \in Nat
    BY FS_CardinalityType
  <1>. QED BY <1>2, <1>4, <1>5

(* The second identifier adds its address to the matches; when the search is over, one
   match is the chip. *)
LEMMA ReadId2Keeps ==
  ASSUME SetupInv, ReadId2
  PROVE  SetupInv'
  <1>. USE DEF SetupInv
  <1>1. /\ access = "id2" /\ regs' = regs
        /\ op = "start" /\ phy.status # "Ok"
    BY DEF ReadId2, Reading, InOperation, Searching
  <1>2. /\ phy.address \in Addresses /\ phy.address \in Nat /\ board.dps \subseteq Addresses
        /\ board.resetPin \in BOOLEAN
    BY SetupTyped
  <1>3. /\ IF board.requested = AutoAddress THEN found = {a \in board.dps : a < phy.address}
                                            ELSE found = {} /\ phy.address = board.requested
        /\ board.resetPin => \A a \in Addresses : regs[a] = Strapped
    BY <1>1 DEF Searched, Searching
  <1>4. CASE StopWith("AmbiguousAddress") \/ StopWith("NotFound")
    BY <1>1, <1>4, StoppedAt DEF PhyResults
  <1>5. CASE /\ board.requested = AutoAddress /\ phy.address < MaxAddress
             /\ GoOn("id1") /\ found' = Matches
             /\ phy' = [phy EXCEPT !.address = phy.address + 1]
             /\ UNCHANGED <<bmcr, anar>>
    <2>1. access' = "id1" /\ UNCHANGED <<board, op, config, applied, bmcr>>
      BY <1>5 DEF GoOn, inputs
    <2>2. phy.address + 1 \in Addresses
      BY <1>2, <1>5, SetupAssumption DEF Addresses
    <2>3. /\ phy' \in PhyValues /\ phy'.address = phy.address + 1 /\ phy'.status # "Ok"
          /\ phy'.registered = phy.registered
      BY <1>1, <1>5, <2>2 DEF SetupTypes, PhyValues
    <2>4. found' = {a \in board.dps : a < phy.address + 1}
      BY <1>2, <1>3, <1>5 DEF Matches, Addresses
    <2>5. SetupTypes' /\ OnlyChips'
      BY <1>1, <1>2, <2>1, <2>3, <2>4 DEF SetupTypes, OnlyChips, Strapped
    <2>6. Strapped' = Strapped
      BY <2>1 DEF Strapped
    <2>7. Searched'
      BY <1>1, <1>3, <1>5, <2>1, <2>3, <2>4, <2>6 DEF Searched, Searching, AutoAddress
    <2>8. Chosen' /\ InOperation'
      BY <1>1, <2>1, <2>3
      DEF Chosen, InOperation, Searching, Resetting, Crossing, Applying, Interrupting,
          Renegotiating
    <2>9. StageInv'
      BY <2>1, <2>3
      DEF StageInv, Prepared, Linking, Wiring, Kept, Crossing, Applying, Interrupting
    <2>. QED BY <2>5, <2>7, <2>8, <2>9
  <1>6. ASSUME NEW a \in Matches, Selected(a), Cardinality(Matches) <= 1,
               board.requested = AutoAddress => phy.address = MaxAddress
        PROVE  SetupInv'
    <2>1. /\ access' = IF board.resetPin THEN "phycr" ELSE "phyrcr"
          /\ UNCHANGED <<board, op, config, applied, bmcr>> /\ found' = {}
          /\ phy' = [phy EXCEPT !.address = a]
      BY <1>6 DEF Selected, GoOn, inputs
    <2>2. Matches = IF board.requested = AutoAddress THEN board.dps
                                                    ELSE {phy.address} \cap board.dps
      BY <1>2, <1>3, <1>6, SetupAssumption DEF Matches, Addresses
    <2>3. a \in Addresses
      BY <1>2, <2>2
    <2>4. phy' \in PhyValues /\ phy'.address = a /\ phy'.status # "Ok"
          /\ phy'.registered = phy.registered
      BY <1>1, <2>1, <2>3 DEF SetupTypes, PhyValues
    <2>5. SetupTypes' /\ OnlyChips'
      BY <1>1, <2>1, <2>4 DEF SetupTypes, OnlyChips, Strapped
    <2>6. IsFiniteSet(board.dps)
      <3>1. IsFiniteSet(0 .. MaxAddress)
        BY SetupAssumption, FS_Interval
      <3>. QED BY <1>2, <3>1, FS_Subset DEF Addresses
    <2>7. board.requested = AutoAddress => board.dps = {a}
      BY <1>6, <2>2, <2>6, TheOnly
    <2>8. TheChip'
      BY <1>3, <1>6, <2>1, <2>2, <2>4, <2>7 DEF TheChip, AutoAddress
    <2>9. Searched' /\ Chosen'
      BY <1>2, <2>1, <2>8 DEF Searched, Chosen, Searching
    <2>10. InOperation'
      BY <1>1, <1>2, <2>1, <2>4
      DEF InOperation, Searching, Resetting, Crossing, Applying, Interrupting, Renegotiating
    <2>11. access' = "phycr" => Register' = Strapped
      BY <1>1, <1>2, <1>3, <2>1, <2>3, <2>4 DEF Register
    <2>12. access' = "phycr" => Fresh'
      BY <2>11 DEF Fresh, Strapped
    <2>13. Prepared'
      BY <1>2, <2>1, <2>12 DEF Prepared, Crossing, Applying, Interrupting
    <2>14. Linking' /\ Wiring' /\ Kept'
      BY <1>2, <2>1, <2>4 DEF Linking, Wiring, Kept, Interrupting
    <2>. QED BY <2>5, <2>9, <2>10, <2>13, <2>14 DEF StageInv
  <1>. QED BY <1>4, <1>5, <1>6 DEF ReadId2

(* softReset() goes on when the chip says that it has reset itself. *)
LEMMA PollKeeps ==
  ASSUME SetupInv, PollReset
  PROVE  SetupInv'
  <1>. USE DEF SetupInv
  <1>1. access = "poll" /\ regs' = regs /\ op = "start" /\ phy.status # "Ok"
    BY DEF PollReset, Reading, InOperation, Resetting
  <1>2. CASE StopWith("ResetTimeout")
    BY <1>1, <1>2, StoppedAt DEF PhyResults
  <1>3. ASSUME NEW next, GoOn(next), UNCHANGED <<phy, locals>>,
               next = "poll" \/ (next = "phycr" /\ ~Register.resetting)
        PROVE  SetupInv'
    <2>1. Read("poll", next)
      BY <1>1, <1>3 DEF Read, Reading
    <2>2. /\ access = "poll" /\ access' = next
          /\ UNCHANGED <<board, op, config, phy, found, bmcr, anar, applied, regs, Register>>
          /\ SetupTypes' /\ OnlyChips' /\ Searched' /\ Chosen'
      BY <1>3, <2>1, OnlyRead DEF Searching
    <2>3. InOperation'
      BY <1>1, <1>3, <2>2
      DEF InOperation, Searching, Resetting, Crossing, Applying, Interrupting, Renegotiating
    <2>4. Prepared'
      BY <1>3, <2>2 DEF StageInv, Prepared, Crossing, Applying, Interrupting, Fresh
    <2>5. Linking' /\ Wiring' /\ Kept'
      BY <1>1, <1>3, <2>2 DEF Linking, Wiring, Kept, Interrupting
    <2>. QED BY <2>2, <2>3, <2>4, <2>5 DEF StageInv
  <1>. QED BY <1>2, <1>3 DEF PollReset

(* What the chip supports is kept, or start() ends there. *)
LEMMA ReadBmsrKeeps ==
  ASSUME SetupInv, ReadBmsr
  PROVE  SetupInv'
  <1>. USE DEF SetupInv
  <1>. DEFINE known == [phy EXCEPT !.supported = board.modes,
                                  !.canAuto = board.modes # {} /\ board.canAuto]
  <1>1. access = "bmsr" /\ regs' = regs /\ op = "start" /\ phy.status # "Ok" /\ board' = board
    BY DEF ReadBmsr, Reading, InOperation, GoOn, Finish
  <1>2. /\ known \in PhyValues /\ known.address = phy.address /\ known.status = phy.status
        /\ known.registered = phy.registered
    BY SetupTyped DEF SetupTypes, PhyValues
  <1>3. OnlyChips' /\ regs' \in [Addresses -> ChipValues]
    BY <1>1 DEF OnlyChips, Strapped, SetupTypes
  <1>4. CASE /\ phy' = [known EXCEPT !.status = "Unsupported", !.address = 0]
             /\ Finish("Unsupported") /\ UNCHANGED applied
    <2>1. phy' \in PhyValues /\ phy'.status # "Ok"
      BY <1>2, <1>4, Unusable DEF PhyResults
    <2>. QED BY <1>3, <1>4, <2>1, Failed
  <1>5. CASE phy' = known /\ GoOn("bmcr") /\ UNCHANGED locals
    <2>1. access' = "bmcr" /\ UNCHANGED <<op, config, applied, found, bmcr, anar>>
      BY <1>5 DEF GoOn, inputs, locals
    <2>2. Register' = Register
      BY <1>1, <1>2, <1>5 DEF Register
    <2>3. SetupTypes'
      BY <1>1, <1>2, <1>3, <1>5, <2>1 DEF SetupTypes
    <2>4. Searched' /\ Chosen'
      BY <1>1, <1>2, <1>5, <2>1 DEF Searched, Chosen, TheChip, Searching, AutoAddress
    <2>5. InOperation'
      BY <1>1, <1>2, <1>5, <2>1
      DEF InOperation, Searching, Resetting, Crossing, Applying, Interrupting, Renegotiating
    <2>6. Prepared'
      BY <1>1, <2>1, <2>2
      DEF StageInv, Prepared, Crossing, Applying, Interrupting, Fresh, Fit
    <2>7. Linking' /\ Wiring' /\ Kept'
      BY <1>1, <1>2, <1>5, <2>1 DEF Linking, Wiring, Kept, Interrupting
    <2>. QED BY <1>3, <2>3, <2>4, <2>5, <2>6, <2>7 DEF StageInv
  <1>. QED BY <1>4, <1>5 DEF ReadBmsr

(* What is read of the mode agrees with the chip until the next access. *)
LEMMA ReadBmcrKeeps ==
  ASSUME SetupInv, ReadBmcr \/ (ReadForRestart /\ Register.auto)
  PROVE  SetupInv'
  <1>. USE DEF SetupInv
  <1>1. /\ \/ access = "bmcr" /\ access' = "anar"
           \/ access = "renegotiate" /\ access' = "restart" /\ Register.auto
        /\ UNCHANGED <<board, op, config, phy, found, anar, applied, regs>>
        /\ bmcr' = Bmcr(Register)
    BY DEF ReadBmcr, ReadForRestart, Reading, GoOn, inputs
  <1>2. Register' = Register /\ Register \in ChipValues
    BY <1>1, SetupTyped DEF Register
  <1>3. bmcr' \in BmcrValues /\ bmcr'.auto = Register.auto /\ bmcr'.mode = Register.mode
        /\ bmcr'.restarting = Register.restarting
    BY <1>1, <1>2 DEF Bmcr, BmcrValues, ChipValues
  <1>4. SetupTypes' /\ OnlyChips'
    BY <1>1, <1>3 DEF SetupTypes, OnlyChips, Strapped
  <1>5. Searched' /\ Chosen'
    BY <1>1 DEF Searched, Chosen, TheChip, Searching
  <1>6. InOperation'
    BY <1>1
    DEF InOperation, Searching, Resetting, Crossing, Applying, Interrupting, Renegotiating
  <1>7. Prepared'
    BY <1>1, <1>2 DEF StageInv, Prepared, Crossing, Applying, Interrupting, Fresh, Fit
  <1>8. Linking' /\ Wiring'
    BY <1>1, <1>2, <1>3 DEF Linking, Wiring, Interrupting
  <1>9. Kept'
    BY <1>1, <1>2 DEF StageInv, Kept, Fit, Wired, LinkAs, Renegotiating
  <1>. QED BY <1>4, <1>5, <1>6, <1>7, <1>8, <1>9 DEF StageInv

(* applyConfig() writes nothing only where the chip does already what is asked for. *)
LEMMA ReadAnarKeeps ==
  ASSUME SetupInv, ReadAnar
  PROVE  SetupInv'
  <1>. USE DEF SetupInv
  <1>1. /\ access = "anar" /\ Fit /\ Fresh
        /\ UNCHANGED <<board, op, config, phy, found, bmcr, applied, regs>>
        /\ \/ ~config.auto /\ access' = IF bmcr = Forced THEN Applied ELSE "force"
           \/ config.auto /\ access' = "advertise"
           \/ /\ config.auto /\ Register.anar = config.modes
              /\ access' = IF bmcr.auto THEN Applied ELSE "negotiate"
    BY DEF ReadAnar, Reading, GoOn, inputs, StageInv, Prepared, Crossing, Applying
  <1>2. /\ op \in {"start", "configure"} /\ (phy.status = "Ok" <=> op # "start")
        /\ phy.status = "Ok" => phy.registered = board.intPin
    BY <1>1 DEF InOperation, Applying
  <1>3. Register' = Register /\ Register \in ChipValues /\ config.auto \in BOOLEAN
        /\ board.intPin \in BOOLEAN
    BY <1>1, SetupTyped DEF Register
  <1>4. bmcr.auto = Register.auto /\ bmcr.mode = Register.mode
        /\ (Register.restarting => bmcr.restarting)
    BY <1>1 DEF StageInv, Linking
  <1>5. /\ Applied \in {"misr1", "done"}
        /\ Applied = "misr1" => op = "start" /\ board.intPin
        /\ Applied = "done" /\ board.intPin => phy.status = "Ok"
    BY <1>2, <1>3 DEF Applied
  <1>6. bmcr = Forced => ~bmcr.auto /\ bmcr.mode = config.modes /\ ~bmcr.restarting
    BY DEF Forced
  <1>7. access' \in {Applied, "force", "advertise", "negotiate"}
    BY <1>1
  <1>8. SetupTypes' /\ OnlyChips' /\ Searched' /\ Chosen'
    BY <1>1, <1>5, <1>7
    DEF SetupTypes, OnlyChips, Strapped, Searched, Chosen, TheChip, Searching
  <1>9. InOperation'
    BY <1>1, <1>2, <1>5, <1>7
    DEF InOperation, Searching, Resetting, Crossing, Applying, Interrupting, Renegotiating
  <1>10. Prepared'
    BY <1>1, <1>3, <1>5, <1>7 DEF Prepared, Crossing, Fit
  <1>11. access' = Applied => LinkAs(config)'
    BY <1>1, <1>3, <1>4, <1>5, <1>6 DEF LinkAs, Fresh
  <1>12. Linking'
    BY <1>1, <1>3, <1>5, <1>7, <1>11 DEF Linking, Interrupting
  <1>13. Wiring' /\ Kept'
    BY <1>1, <1>3, <1>5, <1>7 DEF StageInv, Wiring, Kept, Fit, Wired, Renegotiating
  <1>. QED BY <1>8, <1>9, <1>10, <1>12, <1>13 DEF StageInv

(* applyConfig()'s writes make the chip do what is asked for; a new advertisement is
   always followed by a restart. *)
LEMMA LinkWritesKeep ==
  ASSUME SetupInv, WriteForced \/ WriteAdvertisement \/ WriteNegotiate
  PROVE  SetupInv'
  <1>. USE DEF SetupInv
  <1>. DEFINE asked == [bmcr EXCEPT !.auto = TRUE, !.restarting = TRUE]
  <1>. DEFINE Case(s, r, next) ==
        \/ s = "force" /\ next = Applied /\ r = WithBmcr(Register, Forced)
        \/ s = "advertise" /\ next = "negotiate" /\ r = [Register EXCEPT !.anar = config.modes]
        \/ s = "negotiate" /\ next = Applied /\ r = WithBmcr(Register, asked)
  <1>1. PICK s, r, next : Write(s, r, next) /\ Case(s, r, next)
    BY DEF WriteForced, WriteAdvertisement, WriteNegotiate
  <1>2. /\ Register \in ChipValues /\ config.modes \in ModeSets /\ config.auto \in BOOLEAN
        /\ bmcr \in BmcrValues /\ board.intPin \in BOOLEAN
    BY SetupTyped DEF SetupTypes
  <1>3. /\ Forced.auto = FALSE /\ Forced.mode = config.modes /\ Forced.restarting = FALSE
        /\ asked.auto = TRUE /\ asked.mode \in ModeSets /\ asked.restarting = TRUE
    BY <1>2 DEF Forced, BmcrValues
  <1>4. /\ r \in ChipValues /\ r.mdix = Register.mdix /\ r.resetting = Register.resetting
        /\ r.events = Register.events /\ r.output = Register.output
        /\ s = "force" => ~r.auto /\ r.mode = config.modes /\ ~r.restarting
        /\ s = "advertise" => r.anar = config.modes
        /\ s = "negotiate" => r.auto /\ r.anar = Register.anar /\ r.negotiated = Register.anar
    <2>1. CASE s = "advertise"
      BY <1>1, <1>2, <2>1 DEF ChipValues
    <2>2. CASE s = "force"
      <3>1. r = WithBmcr(Register, Forced)
        BY <1>1, <2>2
      <3>2. r = [Register EXCEPT !.auto = FALSE, !.mode = config.modes, !.restarting = FALSE,
                                 !.negotiated = Register.negotiated]
        BY <1>3, <3>1 DEF WithBmcr
      <3>. HIDE DEF asked
      <3>. QED BY <1>2, <2>2, <3>2 DEF ChipValues
    <2>3. CASE s = "negotiate"
      <3>1. r = WithBmcr(Register, asked)
        BY <1>1, <2>3
      <3>2. r = [Register EXCEPT !.auto = TRUE, !.mode = asked.mode, !.restarting = TRUE,
                                 !.negotiated = Register.anar]
        BY <1>3, <3>1 DEF WithBmcr
      <3>3. PICK m \in ModeSets : m = asked.mode
        BY <1>3
      <3>. HIDE DEF asked
      <3>. QED BY <1>2, <2>3, <3>2, <3>3 DEF ChipValues
    <2>. QED BY <1>1, <2>1, <2>2, <2>3
  <1>5. /\ Applied \in {"misr1", "done"}
        /\ Applied = "misr1" => op = "start" /\ board.intPin
        /\ Applied = "done" /\ board.intPin => op # "start"
    BY <1>2 DEF Applied
  <1>6. CASE /\ access = s /\ access' = next /\ Register' = r
             /\ UNCHANGED <<board, op, config, phy, found, bmcr, anar, applied>>
             /\ SetupTypes' /\ OnlyChips' /\ Searched' /\ Chosen'
    <2>1. /\ s \in {"force", "advertise", "negotiate"} /\ next \in {Applied, "negotiate"}
          /\ s = "advertise" <=> next = "negotiate"
      BY <1>1, <1>5
    <2>2. /\ op \in {"start", "configure"} /\ (phy.status = "Ok" <=> op # "start") /\ Fit
          /\ phy.status = "Ok" => phy.registered = board.intPin
      BY <1>6, <2>1 DEF InOperation, Applying, StageInv, Prepared
    <2>3. InOperation'
      BY <1>5, <1>6, <2>1, <2>2
      DEF InOperation, Searching, Resetting, Crossing, Applying, Interrupting, Renegotiating
    <2>4. Prepared'
      BY <1>4, <1>5, <1>6, <2>1, <2>2 DEF Prepared, Crossing, Fit
    <2>5. s \in {"force", "negotiate"} => LinkAs(config)'
      BY <1>4, <1>6 DEF LinkAs, StageInv, Linking
    <2>6. Linking'
      BY <1>4, <1>5, <1>6, <2>1, <2>5 DEF StageInv, Linking, Interrupting
    <2>7. Wiring' /\ Kept'
      BY <1>4, <1>5, <1>6, <2>1, <2>2 DEF StageInv, Wiring, Kept, Fit, Wired, Renegotiating
    <2>. QED BY <1>6, <2>3, <2>4, <2>6, <2>7 DEF StageInv
  <1>. QED
    BY <1>1, <1>4, <1>5, <1>6, Written DEF Searching

(* A restart negotiates again with the modes that are advertised. *)
LEMMA RestartWriteKeeps ==
  ASSUME SetupInv, WriteRestart
  PROVE  SetupInv'
  <1>. USE DEF SetupInv
  <1>. DEFINE asked == [bmcr EXCEPT !.restarting = TRUE]
  <1>. DEFINE r == WithBmcr(Register, asked)
  <1>1. Write("restart", r, "restarted")
    BY DEF WriteRestart
  <1>2. Register \in ChipValues /\ bmcr \in BmcrValues
    BY SetupTyped DEF SetupTypes
  <1>3. /\ asked.restarting = TRUE /\ asked.mode \in ModeSets
        /\ asked.auto = bmcr.auto /\ asked.auto \in BOOLEAN
    BY <1>2 DEF BmcrValues
  <1>4. r = [Register EXCEPT !.auto = asked.auto, !.mode = asked.mode, !.restarting = TRUE,
                             !.negotiated = Register.anar]
    BY <1>3 DEF WithBmcr
  <1>5. PICK m \in ModeSets, on \in BOOLEAN : m = asked.mode /\ on = asked.auto
    BY <1>3
  <1>6. /\ r \in ChipValues /\ r.mdix = Register.mdix /\ r.resetting = Register.resetting
        /\ r.events = Register.events /\ r.output = Register.output
        /\ r.anar = Register.anar /\ r.negotiated = Register.anar /\ r.auto = on
    <2>. HIDE DEF asked, r
    <2>. QED BY <1>2, <1>4, <1>5 DEF ChipValues
  <1>. HIDE DEF asked, r
  <1>7. CASE /\ access = "restart" /\ access' = "restarted" /\ Register' = r
             /\ UNCHANGED <<board, op, config, phy, found, bmcr, anar, applied>>
             /\ SetupTypes' /\ OnlyChips' /\ Searched' /\ Chosen'
    <2>1. Register.auto /\ on
      BY <1>3, <1>5, <1>7 DEF StageInv, Linking
    <2>2. InOperation'
      BY <1>7
      DEF InOperation, Searching, Resetting, Crossing, Applying, Interrupting, Renegotiating
    <2>3. Prepared' /\ Linking' /\ Wiring'
      BY <1>7 DEF Prepared, Linking, Wiring, Crossing, Applying, Interrupting
    <2>4. \A c : LinkAs(c) => LinkAs(c)'
      BY <1>6, <1>7, <2>1 DEF LinkAs
    <2>5. Kept'
      BY <1>6, <1>7, <2>4 DEF StageInv, Kept, Fit, Wired, Renegotiating
    <2>. QED BY <1>7, <2>2, <2>3, <2>5 DEF StageInv
  <1>. QED
    BY <1>1, <1>6, <1>7, Written DEF Searching

(* An operation that answers Ok leaves what it promised. *)
LEMMA EndsKeep ==
  ASSUME SetupInv, Done \/ Restarted
  PROVE  SetupInv'
  <1>. USE DEF SetupInv
  <1>1. /\ access' = "none" /\ found' = {} /\ bmcr' = NoBmcr
        /\ UNCHANGED <<board, op, config, regs>>
    BY DEF Done, Restarted, Finish, inputs
  <1>2. OnlyChips' /\ regs' \in [Addresses -> ChipValues]
    BY <1>1 DEF OnlyChips, Strapped, SetupTypes
  <1>3. board.intPin \in BOOLEAN /\ NoBmcr \in BmcrValues
    BY SetupTyped
  <1>4. CASE Restarted
    <2>1. access = "restarted" /\ UNCHANGED <<phy, applied>>
      BY <1>4 DEF Restarted
    <2>2. Register' = Register
      BY <1>1, <2>1 DEF Register
    <2>3. SetupTypes'
      BY <1>1, <1>2, <1>3, <2>1 DEF SetupTypes
    <2>4. Searched' /\ Chosen' /\ InOperation'
      BY <1>1, <2>1
      DEF Searched, Chosen, TheChip, InOperation, Searching, Resetting, Crossing, Applying,
          Interrupting, Renegotiating
    <2>5. Prepared' /\ Linking' /\ Wiring'
      BY <1>1 DEF Prepared, Linking, Wiring, Crossing, Applying, Interrupting
    <2>6. Kept'
      BY <1>1, <2>1, <2>2 DEF StageInv, Kept, Fit, Wired, LinkAs, Renegotiating
    <2>. QED BY <1>2, <2>3, <2>4, <2>5, <2>6 DEF StageInv
  <1>5. CASE Done
    <2>1. /\ access = "done" /\ applied' = {config}
          /\ phy' = IF op = "start" THEN [phy EXCEPT !.status = "Ok", !.registered = board.intPin]
                                  ELSE phy
      BY <1>5 DEF Done
    <2>2. op = "start" \/ phy.status = "Ok"
      BY <2>1 DEF InOperation
    <2>3. /\ phy' \in PhyValues /\ phy'.status = "Ok" /\ phy'.registered = board.intPin
          /\ phy'.address = phy.address
      BY <1>3, <2>1, <2>2 DEF SetupTypes, PhyValues, PhyResults, InOperation
    <2>4. Register' = Register
      BY <1>1, <2>3 DEF Register
    <2>5. SetupTypes'
      BY <1>1, <1>2, <1>3, <2>1, <2>3 DEF SetupTypes
    <2>6. TheChip
      BY <2>1 DEF Chosen, Searching
    <2>7. Searched' /\ Chosen' /\ InOperation'
      BY <1>1, <2>3, <2>6
      DEF Searched, Chosen, TheChip, InOperation, Searching, Resetting, Crossing, Applying,
          Interrupting, Renegotiating, AutoAddress
    <2>8. Prepared' /\ Linking' /\ Wiring'
      BY <1>1 DEF Prepared, Linking, Wiring, Crossing, Applying, Interrupting
    <2>9. Fit /\ LinkAs(config) /\ (board.intPin => Wired)
      BY <2>1 DEF StageInv, Prepared, Linking, Wiring
    <2>10. Kept'
      BY <1>1, <2>1, <2>4, <2>9 DEF Kept, Fit, Wired, LinkAs
    <2>. QED BY <1>2, <2>5, <2>7, <2>8, <2>10 DEF StageInv
  <1>. QED BY <1>4, <1>5

(* restartAutoNegotiation() stops where nothing is negotiated. *)
LEMMA ReadForRestartKeeps ==
  ASSUME SetupInv, ReadForRestart
  PROVE  SetupInv'
  <1>1. CASE Register.auto
    BY <1>1, ReadBmcrKeeps
  <1>2. CASE ~Register.auto
    <2>1. access = "renegotiate" /\ UNCHANGED regs /\ StopWith("Unsupported")
      BY <1>2 DEF ReadForRestart, Reading
    <2>. QED BY <2>1, StoppedAt DEF PhyResults
  <1>. QED BY <1>1, <1>2

(* Nothing moves when nothing does. *)
LEMMA SetupRests ==
  ASSUME SetupInv, UNCHANGED setupVars
  PROVE  SetupInv'
  <1>1. /\ UNCHANGED <<board, regs, phy, op, config, access, found, bmcr, anar, applied>>
    BY DEF setupVars, inputs, locals
  <1>2. UNCHANGED <<Register, Strapped>>
    BY <1>1 DEF Register, Strapped
  <1>3. (SetupTypes /\ OnlyChips /\ Searched /\ Chosen /\ InOperation)'
    BY <1>1, <1>2
    DEF SetupInv, SetupTypes, OnlyChips, Searched, Chosen, TheChip, InOperation, AutoAddress
  <1>4. StageInv'
    BY <1>1, <1>2
    DEF SetupInv, StageInv, Prepared, Linking, Wiring, Kept, Fresh, Fit, Wired, LinkAs
  <1>. QED BY <1>3, <1>4 DEF SetupInv

(* The object and the chip it drives agree before every register access, whatever fails. *)
THEOREM SetupInvariance == SetupSpec => []SetupInv
  <1>1. ASSUME SetupInv, [SetupNext]_setupVars PROVE SetupInv'
    <2>1. CASE \E a \in Addresses : ChipResets(a) \/ ChipRestarts(a)
      BY <1>1, <2>1, ChipOnItsOwn
    <2>2. CASE \E c \in LinkConfigs : StartRefused(c) \/ StartBegins(c)
      BY <1>1, <2>2, StartsKeep
    <2>3. CASE (\E c \in LinkConfigs : ConfigureLink(c)) \/ RestartAutoNegotiation
      BY <1>1, <2>3, AsksKeep
    <2>4. CASE ReadFails
      BY <1>1, <2>4, ReadFailsKeep
    <2>5. CASE ReadId1 \/ ReadId2
      BY <1>1, <2>5, ReadId1Keeps, ReadId2Keeps
    <2>6. CASE \/ ReadPhyrcr \/ ReadPhycr \/ ReadCr1 \/ ReadMisr1 \/ ReadMisr2 \/ ReadPhyscr
      BY <1>1, <2>6, ReadsKeep
    <2>7. CASE \/ WriteReset \/ WriteMdix \/ WriteRobust
               \/ WriteMisr2 \/ WriteMisr1 \/ WritePhyscr
      BY <1>1, <2>7, WritesKeep
    <2>8. CASE PollReset \/ ReadBmsr \/ ReadBmcr \/ ReadAnar
      BY <1>1, <2>8, PollKeeps, ReadBmsrKeeps, ReadBmcrKeeps, ReadAnarKeeps
    <2>9. CASE WriteForced \/ WriteAdvertisement \/ WriteNegotiate
      BY <1>1, <2>9, LinkWritesKeep
    <2>10. CASE Done \/ Restarted \/ ReadForRestart \/ WriteRestart
      BY <1>1, <2>10, EndsKeep, ReadForRestartKeeps, RestartWriteKeeps
    <2>11. CASE UNCHANGED setupVars
      BY <1>1, <2>11, SetupRests
    <2>. QED
      BY <1>1, <2>1, <2>2, <2>3, <2>4, <2>5, <2>6, <2>7, <2>8, <2>9, <2>10, <2>11
      DEF SetupNext
  <1>. QED
    BY <1>1, SetupStarts, PTL DEF SetupSpec

(* After any history of failed accesses, time-outs and restarts, a usable object drives the
   one DP83822 there is, or the one asked for, and the chip does what the latest
   successful call asked for; no other chip is ever written to. *)
THEOREM AsConfiguredThm == SetupSpec => []AsConfigured
  <1>1. ASSUME SetupInv PROVE AsConfigured
    <2>. USE DEF SetupInv
    <2>1. \A a \in Addresses \ board.dps : regs[a] = Strapped
      BY <1>1 DEF OnlyChips
    <2>2. ASSUME PhyReady
          PROVE  \E c \in applied :
            /\ IF board.requested = AutoAddress
                 THEN board.dps = {phy.address}
                 ELSE phy.address = board.requested /\ phy.address \in board.dps
            /\ Register.mdix = {"auto", "robust"} /\ ~Register.resetting
            /\ phy.registered = board.intPin
            /\ board.intPin => Register.events = "link" /\ Register.output
            /\ IF c.auto
                 THEN Register.auto /\ Register.anar = c.modes /\ Register.negotiated = c.modes
                 ELSE Bmcr(Register) = [auto |-> FALSE, mode |-> c.modes, restarting |-> FALSE]
      <3>1. access = "none" /\ phy.status = "Ok"
        BY <2>2 DEF PhyReady
      <3>2. TheChip /\ phy.registered = board.intPin
        BY <1>1, <3>1 DEF Chosen, InOperation
      <3>3. PICK c \in applied : LinkAs(c)
        BY <1>1, <3>1 DEF StageInv, Kept
      <3>4. Fit /\ (board.intPin => Wired)
        BY <1>1, <3>1 DEF StageInv, Kept
      <3>5. Register \in ChipValues
        BY <1>1, SetupTyped
      <3>6. ~c.auto => Bmcr(Register) = [auto |-> FALSE, mode |-> c.modes, restarting |-> FALSE]
        BY <3>3, <3>5 DEF LinkAs, Bmcr, ChipValues
      <3>. QED BY <3>2, <3>3, <3>4, <3>6 DEF TheChip, Fit, Wired, LinkAs
    <2>. QED BY <2>1, <2>2 DEF AsConfigured
  <1>. QED BY <1>1, SetupInvariance, PTL

-----------------------------------------------------------------------------
(***************************************************************************)
(* Button: a level is confirmed only when the samples have agreed for long *)
(* enough, for any stable time and any width of the clock and the count.   *)
(* The clock's difference wraps, so it may say less than what passed,      *)
(* never more.                                                             *)
(***************************************************************************)
TickCounts  == 0 .. (TickModulus - 1)
PressCounts == 0 .. (CountModulus - 1)

ButtonTypes ==
  /\ tick \in TickCounts /\ notification \in PressCounts
  /\ sample \in BOOLEAN /\ level \in BOOLEAN /\ held \in Nat
  /\ button \in [observed : PressCounts, changedAt : TickCounts,
                 sampling : BOOLEAN, candidate : BOOLEAN, stable : BOOLEAN]

(* The candidate waits to be confirmed: its age is no more than its time.  *)
Timed == button.candidate # button.stable /\ held < StableMs => Elapsed <= held

ButtonInv == ButtonTypes /\ Timed

(* The clock goes on by one, and wraps. *)
LEMMA NextCount ==
  ASSUME NEW m \in Nat \ {0}, NEW t \in 0 .. (m - 1)
  PROVE  (t + 1) % m \in 0 .. (m - 1) /\ (t + 1) % m = IF t + 1 < m THEN t + 1 ELSE 0
  <1>. DEFINE x == t + 1
  <1>1. x \in Nat /\ x < 2 * m /\ (x < m \/ x = m)
    OBVIOUS
  <1>2. x % m = IF x < m THEN x ELSE x - m
    BY <1>1, Wrapped
  <1>. QED BY <1>1, <1>2

(* How long ago a count was, as the difference of two counts tells it. *)
LEMMA Since ==
  ASSUME NEW m \in Nat \ {0}, NEW t \in 0 .. (m - 1), NEW c \in 0 .. (m - 1)
  PROVE  (t + m - c) % m = IF t >= c THEN t - c ELSE t + m - c
  <1>. DEFINE x == t + m - c
  <1>1. x \in Nat /\ x < 2 * m /\ (x < m <=> t < c)
    OBVIOUS
  <1>2. x % m = IF x < m THEN x ELSE x - m
    BY <1>1, Wrapped
  <1>. QED BY <1>1, <1>2

(* A tick makes the candidate one millisecond older, or young again. *)
LEMMA OneOlder ==
  ASSUME ButtonTypes, tick' = (tick + 1) % TickModulus, button' = button
  PROVE  Elapsed' <= Elapsed + 1 /\ tick' \in TickCounts
  <1>. DEFINE c == button.changedAt
  <1>1. /\ TickModulus \in Nat \ {0} /\ tick \in 0 .. (TickModulus - 1)
        /\ c \in 0 .. (TickModulus - 1) /\ c' = c
    BY ButtonAssumption DEF ButtonTypes, TickCounts
  <1>2. /\ tick' \in 0 .. (TickModulus - 1)
        /\ tick' = IF tick + 1 < TickModulus THEN tick + 1 ELSE 0
    BY <1>1, NextCount
  <1>3. Elapsed = IF tick >= c THEN tick - c ELSE tick + TickModulus - c
    BY <1>1, Since DEF Elapsed
  <1>4. Elapsed' = IF tick' >= c THEN tick' - c ELSE tick' + TickModulus - c
    <2>1. (tick' + TickModulus - c) % TickModulus
            = IF tick' >= c THEN tick' - c ELSE tick' + TickModulus - c
      BY <1>1, <1>2, Since
    <2>. QED BY <1>1, <2>1 DEF Elapsed
  <1>. HIDE DEF c
  <1>. QED BY <1>1, <1>2, <1>3, <1>4 DEF TickCounts

(* A candidate taken now is of no age. *)
LEMMA JustNow ==
  ASSUME NEW m \in Nat \ {0}, NEW t \in 0 .. (m - 1)
  PROVE  (t + m - t) % m = 0
  BY Since

(* The object begins anew, and nothing waits to be confirmed. *)
LEMMA LifeKeeps ==
  ASSUME ButtonInv, ConstructButton \/ Constructed \/ Destroy \/ Destroyed
  PROVE  ButtonInv' /\ Steady
  <1>1. updating = "idle" /\ UNCHANGED <<tick, sample, level>>
    BY DEF ConstructButton, Constructed, Destroy, Destroyed, Life
  <1>2. CASE UNCHANGED <<button, notification, held>>
    BY <1>1, <1>2 DEF ButtonInv, ButtonTypes, Timed, Elapsed, Steady
  <1>3. CASE ConstructButton
    <2>1. button' = NewButton /\ notification' = 0 /\ held' = 0
      BY <1>3 DEF ConstructButton
    <2>2. 0 \in TickCounts /\ 0 \in PressCounts
      BY ButtonAssumption DEF TickCounts, PressCounts
    <2>. QED BY <1>1, <2>1, <2>2 DEF NewButton, ButtonInv, ButtonTypes, Timed, Steady
  <1>. QED BY <1>2, <1>3 DEF Constructed, Destroy, Destroyed

(* update() moves the fields of the object, and the clock stands still. *)
LEMMA UpdateKeeps ==
  ASSUME ButtonInv, Snapshot \/ ReadPin \/ CandidateChanges \/ Confirm \/ NotYet
  PROVE  ButtonInv' /\ Steady
  <1>1. UNCHANGED <<tick, notification, level>>
    BY DEF Snapshot, ReadPin, CandidateChanges, Confirm, NotYet, Decide, Update
  <1>2. CASE Snapshot \/ ReadPin
    <2>1. /\ sample' \in BOOLEAN /\ held' = held
          /\ updating # "decide"
          /\ button' \in {button, [button EXCEPT !.observed = notification,
                                                 !.sampling = @ \/ Notified]}
      BY <1>2 DEF Snapshot, ReadPin, Update, ButtonInv, ButtonTypes
    <2>2. Notified \in BOOLEAN
      BY DEF Notified
    <2>3. /\ button' \in [observed : PressCounts, changedAt : TickCounts,
                          sampling : BOOLEAN, candidate : BOOLEAN, stable : BOOLEAN]
          /\ button'.candidate = button.candidate /\ button'.stable = button.stable
          /\ button'.changedAt = button.changedAt
      BY <2>1, <2>2 DEF ButtonInv, ButtonTypes
    <2>. QED BY <1>1, <2>1, <2>3 DEF ButtonInv, ButtonTypes, Timed, Elapsed, Steady
  <1>3. CASE CandidateChanges
    <2>1. /\ button' = [button EXCEPT !.candidate = sample, !.changedAt = tick]
          /\ held' = 0 /\ sample' = FALSE
      BY <1>3 DEF CandidateChanges, Decide
    <2>2. /\ button' \in [observed : PressCounts, changedAt : TickCounts,
                          sampling : BOOLEAN, candidate : BOOLEAN, stable : BOOLEAN]
          /\ button'.stable = button.stable /\ button'.changedAt = tick
      BY <2>1 DEF ButtonInv, ButtonTypes
    <2>3. Elapsed' = 0
      BY <1>1, <2>2, JustNow, ButtonAssumption DEF Elapsed, ButtonInv, ButtonTypes, TickCounts
    <2>4. Timed'
      BY <2>1, <2>3 DEF Timed
    <2>. QED BY <1>1, <2>1, <2>2, <2>4 DEF ButtonInv, ButtonTypes, Steady
  <1>4. CASE Confirm
    <2>1. /\ button' = [button EXCEPT !.stable = sample, !.sampling = sample]
          /\ held' = held /\ sample' = FALSE
          /\ sample = button.candidate /\ sample # button.stable /\ Elapsed >= StableMs
      BY <1>4 DEF Confirm, Decide, Changed
    <2>2. held >= StableMs
      <3>1. Elapsed \in Nat /\ held \in Nat /\ StableMs \in Nat
        <4>1. TickModulus \in Nat \ {0} /\ tick \in Nat /\ button.changedAt \in TickCounts
          BY ButtonAssumption DEF ButtonInv, ButtonTypes, TickCounts
        <4>2. Elapsed = IF tick >= button.changedAt
                          THEN tick - button.changedAt ELSE tick + TickModulus - button.changedAt
          BY <4>1, Since DEF Elapsed, ButtonInv, ButtonTypes, TickCounts
        <4>. QED BY <4>1, <4>2, ButtonAssumption DEF TickCounts, ButtonInv, ButtonTypes
      <3>. QED BY <2>1, <3>1 DEF ButtonInv, Timed
    <2>3. button'.candidate = button'.stable
      BY <2>1 DEF ButtonInv, ButtonTypes
    <2>. QED BY <1>1, <2>1, <2>2, <2>3 DEF ButtonInv, ButtonTypes, Timed, Steady
  <1>5. CASE NotYet
    <2>1. /\ button' = [button EXCEPT !.sampling = @ /\ (sample \/ button.stable)]
          /\ held' = held /\ sample' = FALSE
      BY <1>5 DEF NotYet, Decide
    <2>2. /\ button' \in [observed : PressCounts, changedAt : TickCounts,
                          sampling : BOOLEAN, candidate : BOOLEAN, stable : BOOLEAN]
          /\ button'.candidate = button.candidate /\ button'.stable = button.stable
          /\ button'.changedAt = button.changedAt
      BY <2>1 DEF ButtonInv, ButtonTypes
    <2>. QED BY <1>1, <2>1, <2>2 DEF ButtonInv, ButtonTypes, Timed, Elapsed, Steady
  <1>. QED BY <1>2, <1>3, <1>4, <1>5

(* The pin, the interrupt and the clock. *)
LEMMA OutsideKeeps ==
  ASSUME ButtonInv, LevelChanges \/ Dispatch \/ Tick \/ UNCHANGED buttonVars
  PROVE  ButtonInv' /\ Steady
  <1>1. button' = button
    BY DEF LevelChanges, Dispatch, Tick, buttonVars
  <1>2. CASE LevelChanges \/ UNCHANGED buttonVars
    <2>1. UNCHANGED <<tick, notification, sample, held>> /\ level' \in BOOLEAN
      BY <1>2 DEF LevelChanges, buttonVars, ButtonInv, ButtonTypes
    <2>. QED BY <1>1, <2>1 DEF ButtonInv, ButtonTypes, Timed, Elapsed, Steady
  <1>3. CASE Dispatch
    <2>1. /\ UNCHANGED <<tick, level, sample, held>>
          /\ notification' \in {notification, (notification + 1) % CountModulus}
      BY <1>3 DEF Dispatch
    <2>2. notification' \in PressCounts
      BY <2>1, NextCount, ButtonAssumption DEF PressCounts, ButtonInv, ButtonTypes
    <2>. QED BY <1>1, <2>1, <2>2 DEF ButtonInv, ButtonTypes, Timed, Elapsed, Steady
  <1>4. CASE Tick
    <2>1. /\ UNCHANGED <<notification, level, sample>>
          /\ tick' = (tick + 1) % TickModulus
          /\ held' = IF held < StableMs THEN held + 1 ELSE held
      BY <1>4 DEF Tick
    <2>2. Elapsed' <= Elapsed + 1 /\ tick' \in TickCounts
      BY <1>1, <2>1, OneOlder DEF ButtonInv
    <2>3. Elapsed \in Int /\ Elapsed' \in Int /\ held \in Nat /\ StableMs \in Nat
      BY <1>1, <2>2, ButtonAssumption DEF Elapsed, ButtonInv, ButtonTypes, TickCounts
    <2>4. Timed'
      BY <1>1, <2>1, <2>2, <2>3 DEF ButtonInv, Timed
    <2>. QED BY <1>1, <2>1, <2>2, <2>4 DEF ButtonInv, ButtonTypes, Steady
  <1>. QED BY <1>2, <1>3, <1>4

(* How long the samples agreed, and what the clock says of it. *)
THEOREM ButtonInvariance == ButtonSpec => []ButtonInv
  <1>1. ButtonInit => ButtonInv
    <2>1. 0 \in TickCounts /\ 0 \in PressCounts
      BY ButtonAssumption DEF TickCounts, PressCounts
    <2>2. NewButton \in [observed : PressCounts, changedAt : TickCounts,
                         sampling : BOOLEAN, candidate : BOOLEAN, stable : BOOLEAN]
      BY <2>1 DEF NewButton
    <2>3. NewButton.candidate = NewButton.stable
      BY DEF NewButton
    <2>4. ButtonInit => ButtonTypes
      <3>1. ButtonInit => sample \in BOOLEAN /\ level \in BOOLEAN /\ button = NewButton
        BY Zenon DEF ButtonInit
      <3>2. ButtonInit => tick = 0 /\ notification = 0 /\ held = 0
        BY DEF ButtonInit
      <3>. QED BY <2>1, <2>2, <3>1, <3>2 DEF ButtonTypes
    <2>5. ButtonInit => Timed
      BY <2>3 DEF ButtonInit, Timed
    <2>. QED BY <2>4, <2>5 DEF ButtonInv
  <1>2. ButtonInv /\ [ButtonNext]_buttonVars => ButtonInv'
    BY OutsideKeeps, LifeKeeps, UpdateKeeps DEF ButtonNext
  <1>. QED BY <1>1, <1>2, PTL DEF ButtonSpec

(* A level is confirmed only when every sample of at least StableMs agreed *)
(* with it, however the clock wraps and the task is delayed.               *)
THEOREM DebouncedThm == ButtonSpec => Debounced
  <1>1. ButtonInv /\ [ButtonNext]_buttonVars => [Steady]_buttonVars
    BY OutsideKeeps, LifeKeeps, UpdateKeeps DEF ButtonNext
  <1>. QED BY <1>1, ButtonInvariance, PTL DEF ButtonSpec, Debounced

-----------------------------------------------------------------------------
(***************************************************************************)
(* UartRxSync: on a stream that nothing disturbed since its header was     *)
(* found, decode() gets the frame that ended last, whole, for any header,  *)
(* bytes and lengths.  The DMA writes the next frame around the payload    *)
(* that is decoded: the invariant says which place of the buffer holds a   *)
(* byte of which frame, and that the interrupt's lateness bounds how far   *)
(* the DMA has come.                                                       *)
(***************************************************************************)
UartTypes ==
  /\ rx \in [BufferPlaces -> Bytes] /\ atByte \in BufferPlaces
  /\ frame \in [1 .. PayloadLen -> Data] /\ last \in [1 .. PayloadLen -> Data]
  /\ irq \in BOOLEAN /\ lag \in Nat
  /\ state \in {"Stopped", "WaitHead", "Receiving", "DMAActive"}
  /\ isr = "decode" => state = "DMAActive"

(* The search has one reception on, or one callback due. *)
SearchesHeader ==
  /\ state = "Stopped" => hal = Ready /\ ~irq /\ interrupted
  /\ state = "WaitHead" => IF irq THEN hal = Ready
                                  ELSE hal.mode = "it" /\ hal.len = 1 /\ hal.pos = 0

(* The first frame after its header: its payload goes behind the window, and waits there. *)
FirstFrame ==
  ~interrupted /\ state = "Receiving" =>
    /\ hal = [mode |-> "dma", base |-> HeaderLen, len |-> PayloadLen, pos |-> hal.pos]
    /\ IF irq THEN atByte = 0 /\ lag = 0 /\ \A i \in 1 .. PayloadLen : rx[HeaderLen + i - 1] = last[i]
              ELSE /\ atByte = HeaderLen + hal.pos /\ hal.pos \in 0 .. (PayloadLen - 1)
                   /\ \A i \in 1 .. PayloadLen : i <= hal.pos => rx[HeaderLen + i - 1] = frame[i]

(* Whole frames: the DMA stands where the sender stands. *)
WholeFrames ==
  ~interrupted /\ state = "DMAActive" =>
    /\ hal = [mode |-> "dma", base |-> 0, len |-> FrameLen, pos |-> atByte]
    /\ \A i \in 1 .. PayloadLen :
         rx[HeaderLen + i - 1] = IF HeaderLen + i - 1 < atByte THEN frame[i] ELSE last[i]
    /\ irq \/ isr = "decode" => lag = atByte /\ atByte <= HeaderLen

UartInv == UartTypes /\ SearchesHeader /\ FirstFrame /\ WholeFrames

(* Lengths, and which byte of a frame comes next. *)
LEMMA FrameBytes ==
  ASSUME UartTypes
  PROVE  /\ HeaderLen \in Nat \ {0} /\ PayloadLen \in Nat \ {0} /\ FrameLen = HeaderLen + PayloadLen
         /\ Current \in Bytes
         /\ atByte >= HeaderLen => Current = frame[atByte - HeaderLen + 1]
  <1>1. /\ Header \in Seq(Bytes) /\ HeaderLen \in Nat /\ HeaderLen > 0
        /\ FrameLen \in Nat /\ FrameLen > HeaderLen /\ Data \subseteq Bytes
    BY UartAssumption DEF HeaderLen
  <1>2. PayloadLen \in Nat \ {0} /\ FrameLen = HeaderLen + PayloadLen
    BY <1>1 DEF PayloadLen
  <1>3. frame \in Seq(Bytes) /\ Len(frame) = PayloadLen
    BY <1>1, <1>2 DEF UartTypes
  <1>4. atByte \in Nat /\ atByte + 1 \in 1 .. (HeaderLen + PayloadLen)
    BY <1>1, <1>2 DEF UartTypes, BufferPlaces
  <1>5. Current \in Bytes
    BY <1>1, <1>3, <1>4 DEF Current, HeaderLen
  <1>6. atByte >= HeaderLen => Current = frame[atByte - HeaderLen + 1]
    BY <1>1, <1>3, <1>4 DEF Current, HeaderLen
  <1>. QED BY <1>1, <1>2, <1>5, <1>6

(* Wherever a byte comes from, the HAL puts it where it was asked to, once. *)
LEMMA Received ==
  ASSUME UartInv, NEW b \in Bytes, ByteComes(b), interrupted' = interrupted \/ interrupted' = TRUE
  PROVE  /\ rx' \in [BufferPlaces -> Bytes] /\ irq' \in BOOLEAN /\ lag' \in Nat
         /\ state' = state /\ isr' = isr /\ SearchesHeader'
  <1>1. /\ rx' = IF hal = Ready THEN rx ELSE [rx EXCEPT ![hal.base + hal.pos] = b]
        /\ lag' = IF irq \/ isr = "decode" THEN lag + 1 ELSE 0
        /\ state' = state /\ isr' = isr
    BY DEF ByteComes
  <1>2. rx' \in [BufferPlaces -> Bytes]
    BY <1>1 DEF UartInv, UartTypes
  <1>3. lag' \in Nat
    BY <1>1 DEF UartInv, UartTypes
  <1>4. irq' = (irq \/ (hal # Ready /\ hal.pos + 1 = hal.len))
    BY DEF ByteComes
  <1>5. irq' \in BOOLEAN
    BY <1>4, Zenon
  <1>6. hal' = IF hal.mode = "dma" THEN [hal EXCEPT !.pos = (hal.pos + 1) % hal.len] ELSE Ready
    BY DEF ByteComes
  <1>7. Ready.mode = "ready"
    BY DEF Ready
  <1>8. hal = Ready => hal' = Ready /\ (irq' <=> irq)
    BY <1>4, <1>6, <1>7
  <1>9. hal.mode = "it" /\ hal.len = 1 /\ hal.pos = 0 => hal' = Ready /\ irq'
    <2>1. SUFFICES ASSUME hal.mode = "it", hal.len = 1, hal.pos = 0 PROVE hal' = Ready /\ irq'
      OBVIOUS
    <2>2. hal.mode # "ready" /\ hal.mode # "dma" /\ hal.pos + 1 = hal.len
      BY <2>1
    <2>3. hal # Ready
      BY <1>7, <2>2, Zenon
    <2>4. hal' = Ready
      BY <1>6, <2>2, Zenon
    <2>5. irq'
      BY <1>4, <2>2, <2>3, Zenon
    <2>. QED BY <2>4, <2>5
  <1>10. SearchesHeader'
    BY <1>1, <1>8, <1>9 DEF UartInv, UartTypes, SearchesHeader
  <1>. QED BY <1>1, <1>2, <1>3, <1>5, <1>10

(* A stream that was disturbed promises nothing until the next header. *)
LEMMA NoiseKeeps ==
  ASSUME UartInv, Drop \/ Junk \/ Late \/ ErrorHandler
  PROVE  UartInv'
  <1>1. interrupted' = TRUE
    BY DEF Drop, Junk, Late, ErrorHandler, Disturbed
  <1>2. FirstFrame' /\ WholeFrames'
    BY <1>1 DEF FirstFrame, WholeFrames
  <1>3. /\ HeaderLen \in Nat \ {0} /\ FrameLen \in Nat \ {0} /\ Current \in Bytes
    BY FrameBytes DEF UartInv
  <1>4. Onward => /\ atByte' \in BufferPlaces
                  /\ frame' \in [1 .. PayloadLen -> Data] /\ last' \in [1 .. PayloadLen -> Data]
    BY <1>3 DEF Onward, UartInv, UartTypes, BufferPlaces, Payloads
  <1>5. ASSUME NEW b \in Bytes, ByteComes(b)
        PROVE  /\ rx' \in [BufferPlaces -> Bytes] /\ irq' \in BOOLEAN /\ lag' \in Nat
               /\ state' = state /\ isr' = isr /\ SearchesHeader'
    <2>. QED BY <1>1, <1>5, Received
  <1>6. CASE Drop
    <2>1. UNCHANGED <<rx, hdrIdx, state, hal, irq, isr, lag>> /\ Onward
      BY <1>6 DEF Drop, receiver
    <2>. QED BY <1>1, <1>2, <1>4, <2>1 DEF UartInv, UartTypes, SearchesHeader
  <1>7. CASE Junk
    <2>1. UNCHANGED <<frame, atByte, last>> /\ \E b \in Bytes : ByteComes(b)
      BY <1>7 DEF Junk
    <2>. QED BY <1>2, <1>5, <2>1 DEF UartInv, UartTypes
  <1>8. CASE Late
    <2>1. ByteComes(Current) /\ Onward
      BY <1>8 DEF Late
    <2>. QED BY <1>2, <1>3, <1>4, <1>5, <2>1 DEF UartInv, UartTypes
  <1>9. CASE ErrorHandler
    <2>1. /\ state' = "WaitHead" /\ irq' = FALSE /\ hal' = ReceiveIT(Ready, 0)
          /\ isr' = "none" /\ UNCHANGED <<rx, lag, frame, atByte, last>>
      BY <1>9 DEF ErrorHandler
    <2>. QED BY <1>2, <2>1 DEF UartInv, UartTypes, SearchesHeader, ReceiveIT, Ready
  <1>. QED BY <1>6, <1>7, <1>8, <1>9

(* A byte of the sender's arrives where it belongs. *)
LEMMA SendKeeps ==
  ASSUME UartInv, Send
  PROVE  UartInv'
  <1>1. /\ HeaderLen \in Nat \ {0} /\ PayloadLen \in Nat \ {0} /\ FrameLen = HeaderLen + PayloadLen
        /\ Current \in Bytes
        /\ atByte >= HeaderLen => Current = frame[atByte - HeaderLen + 1]
    BY FrameBytes DEF UartInv
  <1>2. InTime /\ ByteComes(Current) /\ Onward /\ interrupted' = interrupted
    BY DEF Send
  <1>3. /\ atByte \in 0 .. (FrameLen - 1)
        /\ atByte' = IF atByte + 1 = FrameLen THEN 0 ELSE atByte + 1
        /\ atByte + 1 = FrameLen => last' = frame
        /\ atByte + 1 # FrameLen => frame' = frame /\ last' = last
    BY <1>1, <1>2 DEF Onward, UartInv, UartTypes, BufferPlaces
  <1>4. /\ state' = state /\ isr' = isr
        /\ rx' = IF hal = Ready THEN rx ELSE [rx EXCEPT ![hal.base + hal.pos] = Current]
        /\ hal' = IF hal.mode = "dma" THEN [hal EXCEPT !.pos = (hal.pos + 1) % hal.len] ELSE Ready
        /\ irq' = (irq \/ (hal # Ready /\ hal.pos + 1 = hal.len))
        /\ lag' = IF irq \/ isr = "decode" THEN lag + 1 ELSE 0
    BY <1>2 DEF ByteComes
  <1>5. /\ atByte' \in BufferPlaces
        /\ frame' \in [1 .. PayloadLen -> Data] /\ last' \in [1 .. PayloadLen -> Data]
    BY <1>1, <1>2, <1>3 DEF Onward, UartInv, UartTypes, BufferPlaces, Payloads
  <1>6. UartTypes'
    BY <1>1, <1>2, <1>5, Received DEF UartInv, UartTypes
  <1>7. SearchesHeader'
    BY <1>1, <1>2, Received
  <1>8. FirstFrame'
    <2>1. SUFFICES ASSUME ~interrupted, state = "Receiving"
                   PROVE  FirstFrame'
      BY <1>2, <1>4 DEF FirstFrame
    <2>2. ~irq /\ isr # "decode"
      BY <1>2, <2>1 DEF InTime, UartInv, UartTypes
    <2>3. /\ hal = [mode |-> "dma", base |-> HeaderLen, len |-> PayloadLen, pos |-> hal.pos]
          /\ atByte = HeaderLen + hal.pos /\ hal.pos \in 0 .. (PayloadLen - 1)
          /\ \A i \in 1 .. PayloadLen : i <= hal.pos => rx[HeaderLen + i - 1] = frame[i]
      BY <2>1, <2>2 DEF UartInv, FirstFrame
    <2>4. hal.mode = "dma" /\ hal.base = HeaderLen /\ hal.len = PayloadLen /\ hal # Ready
      BY <2>3 DEF Ready
    <2>5. /\ rx' = [rx EXCEPT ![atByte] = Current]
          /\ hal' = [hal EXCEPT !.pos = (hal.pos + 1) % PayloadLen]
          /\ irq' = (hal.pos + 1 = PayloadLen) /\ lag' = 0
      BY <1>4, <2>2, <2>3, <2>4
    <2>6. PICK p \in 0 .. (PayloadLen - 1) : p = hal.pos
      BY <2>3
    <2>7. hal' = [mode |-> "dma", base |-> HeaderLen, len |-> PayloadLen,
                  pos |-> IF p + 1 = PayloadLen THEN 0 ELSE p + 1]
      <3>1. (p + 1) % PayloadLen = IF p + 1 = PayloadLen THEN 0 ELSE p + 1
        BY <1>1, NextCount
      <3>. QED BY <2>3, <2>5, <2>6, <3>1
    <2>8. \A i \in 1 .. PayloadLen : i <= p + 1 => rx'[HeaderLen + i - 1] = frame[i]
      <3>1. SUFFICES ASSUME NEW i \in 1 .. PayloadLen, i <= p + 1
                     PROVE  rx'[HeaderLen + i - 1] = frame[i]
        OBVIOUS
      <3>2. atByte \in BufferPlaces /\ HeaderLen + i - 1 \in BufferPlaces
        BY <1>1, <1>3 DEF BufferPlaces
      <3>3. CASE i = p + 1
        <4>1. HeaderLen + i - 1 = atByte /\ atByte - HeaderLen + 1 = i /\ atByte >= HeaderLen
          BY <1>1, <2>3, <2>6, <3>3
        <4>2. Current = frame[i]
          BY <1>1, <4>1
        <4>. QED BY <2>5, <3>2, <4>1, <4>2 DEF UartInv, UartTypes
      <3>4. CASE i <= p
        <4>1. HeaderLen + i - 1 # atByte
          BY <1>1, <2>3, <2>6, <3>4
        <4>2. rx'[HeaderLen + i - 1] = rx[HeaderLen + i - 1]
          BY <2>5, <3>2, <4>1 DEF UartInv, UartTypes
        <4>. QED BY <2>3, <2>6, <3>4, <4>2
      <3>. QED BY <3>1, <3>3, <3>4
    <2>9. hal' = [mode |-> "dma", base |-> HeaderLen, len |-> PayloadLen, pos |-> hal'.pos]
      BY <2>7
    <2>10. CASE p + 1 = PayloadLen
      <3>1. atByte + 1 = FrameLen
        BY <1>1, <2>3, <2>6, <2>10
      <3>2. irq' /\ atByte' = 0 /\ last' = frame
        BY <1>3, <2>5, <2>6, <2>10, <3>1
      <3>3. \A i \in 1 .. PayloadLen : rx'[HeaderLen + i - 1] = last'[i]
        BY <2>8, <2>10, <3>2
      <3>. QED BY <2>5, <3>2, <3>3, <2>9 DEF FirstFrame
    <2>11. CASE p + 1 # PayloadLen
      <3>1. atByte + 1 # FrameLen
        BY <1>1, <2>3, <2>6, <2>11
      <3>2. atByte' = HeaderLen + (p + 1) /\ frame' = frame
        BY <1>1, <1>3, <2>3, <2>6, <3>1
      <3>3. ~irq' /\ hal'.pos = p + 1
        <4>1. hal'.pos = p + 1
          BY <2>7, <2>11
        <4>2. hal.pos + 1 # PayloadLen
          BY <2>6, <2>11
        <4>3. ~irq'
          BY <2>5, <4>2, Zenon
        <4>. QED BY <4>1, <4>3
      <3>4. p + 1 \in 0 .. (PayloadLen - 1)
        BY <1>1, <2>11
      <3>. QED BY <2>8, <3>2, <3>3, <3>4, <2>9 DEF FirstFrame
    <2>. QED BY <2>10, <2>11
  <1>9. WholeFrames'
    <2>1. SUFFICES ASSUME ~interrupted, state = "DMAActive"
                   PROVE  WholeFrames'
      BY <1>2, <1>4 DEF WholeFrames
    <2>2. /\ hal = [mode |-> "dma", base |-> 0, len |-> FrameLen, pos |-> atByte]
          /\ \A i \in 1 .. PayloadLen :
               rx[HeaderLen + i - 1] = IF HeaderLen + i - 1 < atByte THEN frame[i] ELSE last[i]
          /\ irq \/ isr = "decode" => lag = atByte /\ atByte <= HeaderLen
      BY <2>1 DEF UartInv, WholeFrames
    <2>3. hal.mode = "dma" /\ hal.base = 0 /\ hal.len = FrameLen /\ hal.pos = atByte /\ hal # Ready
      BY <2>2 DEF Ready
    <2>4. /\ rx' = [rx EXCEPT ![atByte] = Current]
          /\ hal' = [hal EXCEPT !.pos = (atByte + 1) % FrameLen]
          /\ irq' = (irq \/ atByte + 1 = FrameLen)
      <3>1. 0 + atByte = atByte
        BY <1>3
      <3>. QED BY <1>4, <2>3, <3>1
    <2>5. hal' = [mode |-> "dma", base |-> 0, len |-> FrameLen, pos |-> atByte']
      <3>1. (atByte + 1) % FrameLen = atByte'
        BY <1>2 DEF Onward
      <3>. QED BY <2>2, <2>4, <3>1
    <2>6. \A i \in 1 .. PayloadLen :
            rx'[HeaderLen + i - 1] = IF HeaderLen + i - 1 < atByte + 1 THEN frame[i] ELSE last[i]
      <3>1. SUFFICES ASSUME NEW i \in 1 .. PayloadLen
                     PROVE  rx'[HeaderLen + i - 1]
                              = IF HeaderLen + i - 1 < atByte + 1 THEN frame[i] ELSE last[i]
        OBVIOUS
      <3>2. atByte \in BufferPlaces /\ HeaderLen + i - 1 \in BufferPlaces
        BY <1>1, <1>3 DEF BufferPlaces
      <3>3. CASE HeaderLen + i - 1 = atByte
        <4>1. atByte - HeaderLen + 1 = i /\ atByte >= HeaderLen /\ HeaderLen + i - 1 < atByte + 1
          BY <1>1, <1>3, <3>3
        <4>2. Current = frame[i]
          BY <1>1, <4>1
        <4>. QED BY <2>4, <3>2, <3>3, <4>1, <4>2 DEF UartInv, UartTypes
      <3>4. CASE HeaderLen + i - 1 # atByte
        <4>1. rx'[HeaderLen + i - 1] = rx[HeaderLen + i - 1]
          BY <2>4, <3>2, <3>4 DEF UartInv, UartTypes
        <4>2. HeaderLen + i - 1 < atByte + 1 <=> HeaderLen + i - 1 < atByte
          BY <1>1, <1>3, <3>4
        <4>. QED BY <2>2, <4>1, <4>2
      <3>. QED BY <3>1, <3>3, <3>4
    <2>7. irq \/ isr = "decode" => atByte < HeaderLen /\ lag' = atByte + 1
      BY <1>2, <1>4, <2>2 DEF InTime
    <2>8. CASE atByte + 1 = FrameLen
      <3>1. ~irq /\ isr # "decode" /\ lag' = 0 /\ atByte' = 0 /\ last' = frame
        BY <1>1, <1>3, <1>4, <2>7, <2>8
      <3>2. \A i \in 1 .. PayloadLen :
              rx'[HeaderLen + i - 1]
                = IF HeaderLen + i - 1 < atByte' THEN frame'[i] ELSE last'[i]
        BY <1>1, <2>6, <2>8, <3>1
      <3>. QED BY <1>1, <2>5, <3>1, <3>2 DEF WholeFrames
    <2>9. CASE atByte + 1 # FrameLen
      <3>1. atByte' = atByte + 1 /\ frame' = frame /\ last' = last /\ (irq' <=> irq)
        BY <1>3, <2>4, <2>9
      <3>2. irq' \/ isr' = "decode" => lag' = atByte' /\ atByte' <= HeaderLen
        BY <1>1, <1>3, <1>4, <2>7, <3>1
      <3>. QED BY <2>5, <2>6, <3>1, <3>2 DEF WholeFrames
    <2>. QED BY <2>8, <2>9
  <1>. QED BY <1>6, <1>7, <1>8, <1>9 DEF UartInv

(* The callbacks of the search, and what begins it. *)
LEMMA SearchKeeps ==
  ASSUME UartInv, StartReceive \/ NextByte \/ HeaderFound \/ HeaderError
  PROVE  UartInv'
  <1>1. UNCHANGED <<rx, frame, atByte, last, lag, isr>> /\ isr # "decode"
    BY DEF StartReceive, NextByte, HeaderFound, HeaderError, SameB, Same, line, Callback,
           UartInv, UartTypes
  <1>2. /\ HeaderLen \in Nat \ {0} /\ PayloadLen \in Nat \ {0}
    BY FrameBytes DEF UartInv
  <1>3. CASE HeaderFound
    <2>1. /\ hal' = ReceiveDMA(hal, HeaderLen, PayloadLen) /\ state' = "Receiving"
          /\ interrupted' = ~(whole /\ atByte = HeaderLen) /\ irq' = FALSE
          /\ state = "WaitHead" /\ irq
      BY <1>3 DEF HeaderFound, Callback
    <2>2. hal' = [mode |-> "dma", base |-> HeaderLen, len |-> PayloadLen, pos |-> 0]
      BY <2>1 DEF UartInv, SearchesHeader, ReceiveDMA
    <2>3. ~interrupted' => atByte = HeaderLen + 0
      <3>1. ~interrupted' => atByte = HeaderLen
        BY <2>1, Zenon
      <3>. QED BY <1>2, <3>1
    <2>4. FirstFrame'
      BY <1>1, <1>2, <2>1, <2>2, <2>3 DEF FirstFrame
    <2>. QED BY <1>1, <2>1, <2>4 DEF UartInv, UartTypes, SearchesHeader, WholeFrames
  <1>4. CASE StartReceive \/ NextByte \/ HeaderError
    <2>1. /\ state' = "WaitHead" /\ irq' = FALSE
          /\ \E h \in {0, (hdrIdx + 1) % HeaderLen} : hal' = ReceiveIT(Ready, h)
      BY <1>4 DEF StartReceive, NextByte, HeaderError, Callback, UartInv, SearchesHeader
    <2>2. hal'.mode = "it" /\ hal'.len = 1 /\ hal'.pos = 0
      BY <2>1 DEF ReceiveIT, Ready
    <2>3. SearchesHeader' /\ FirstFrame' /\ WholeFrames'
      BY <2>1, <2>2 DEF SearchesHeader, FirstFrame, WholeFrames
    <2>. QED BY <1>1, <2>1, <2>3 DEF UartInv, UartTypes
  <1>. QED BY <1>3, <1>4

(* A frame is handed to decode(), and decoded. *)
LEMMA DecodeKeeps ==
  ASSUME UartInv, FirstReceived \/ FrameReceived \/ Decode
  PROVE  UartInv'
  <1>1. UNCHANGED <<frame, atByte, last, lag, interrupted>>
    BY DEF FirstReceived, FrameReceived, Decode, Same, line
  <1>2. /\ HeaderLen \in Nat \ {0} /\ PayloadLen \in Nat \ {0} /\ FrameLen = HeaderLen + PayloadLen
        /\ Header \in Seq(Bytes) /\ HeaderLen = Len(Header)
    BY FrameBytes, UartAssumption DEF UartInv, HeaderLen
  <1>3. CASE Decode
    <2>1. UNCHANGED <<rx, state, hal, irq>> /\ isr = "decode" /\ isr' = "none"
      BY <1>3 DEF Decode, receiver
    <2>. QED BY <1>1, <2>1 DEF UartInv, UartTypes, SearchesHeader, FirstFrame, WholeFrames
  <1>4. CASE FirstReceived \/ FrameReceived
    <2>1. /\ irq /\ irq' = FALSE /\ isr' = "decode" /\ state' = "DMAActive" /\ isr = "none"
          /\ rx' = [s \in BufferPlaces |-> IF withHeader /\ s < HeaderLen THEN Header[s + 1]
                                                                        ELSE rx[s]]
      BY <1>4 DEF FirstReceived, FrameReceived, Callback, BeginDecode
    <2>2. rx' \in [BufferPlaces -> Bytes]
      <3>1. ASSUME NEW s \in BufferPlaces, s < HeaderLen PROVE Header[s + 1] \in Bytes
        BY <1>2, <3>1 DEF BufferPlaces
      <3>. QED BY <2>1, <3>1 DEF UartInv, UartTypes
    <2>3. \A i \in 1 .. PayloadLen : rx'[HeaderLen + i - 1] = rx[HeaderLen + i - 1]
      <3>1. \A i \in 1 .. PayloadLen : /\ HeaderLen + i - 1 \in BufferPlaces
                                       /\ ~(HeaderLen + i - 1 < HeaderLen)
        BY <1>2 DEF BufferPlaces
      <3>. QED BY <2>1, <3>1
    <2>4. CASE FirstReceived
      <3>1. hal' = [mode |-> "dma", base |-> 0, len |-> FrameLen, pos |-> 0] /\ state = "Receiving"
        BY <2>4 DEF FirstReceived, ReceiveDMA, Callback
      <3>2. ~interrupted => /\ atByte = 0 /\ lag = 0
                            /\ \A i \in 1 .. PayloadLen : rx[HeaderLen + i - 1] = last[i]
        BY <2>1, <3>1 DEF UartInv, FirstFrame
      <3>3. \A i \in 1 .. PayloadLen : ~(HeaderLen + i - 1 < 0)
        BY <1>2
      <3>4. WholeFrames'
        <4>1. SUFFICES ASSUME ~interrupted PROVE WholeFrames'
          BY <1>1 DEF WholeFrames
        <4>2. atByte' = 0 /\ lag' = 0 /\ HeaderLen >= 0
          BY <1>1, <1>2, <3>2, <4>1
        <4>3. \A i \in 1 .. PayloadLen : rx'[HeaderLen + i - 1] = last'[i]
          BY <1>1, <2>3, <3>2, <4>1
        <4>. QED BY <3>1, <3>3, <4>2, <4>3 DEF WholeFrames
      <3>. QED BY <1>1, <2>1, <2>2, <3>4 DEF UartInv, UartTypes, SearchesHeader, FirstFrame
    <2>5. CASE FrameReceived
      <3>1. hal' = hal /\ state = "DMAActive"
        BY <2>5 DEF FrameReceived, Callback
      <3>2. WholeFrames'
        BY <1>1, <2>1, <2>3, <3>1 DEF UartInv, WholeFrames
      <3>. QED BY <1>1, <2>1, <2>2, <3>2 DEF UartInv, UartTypes, SearchesHeader, FirstFrame
    <2>. QED BY <1>4, <2>4, <2>5
  <1>. QED BY <1>3, <1>4

(* Where each byte of the stream is, from the header on. *)
THEOREM UartInvariance == UartSpec => []UartInv
  <1>1. UartInit => UartInv
    <2>1. SUFFICES ASSUME UartInit PROVE UartInv
      OBVIOUS
    <2>2. 0 \in BufferPlaces
      BY UartAssumption DEF BufferPlaces, HeaderLen
    <2>3. rx \in [BufferPlaces -> Bytes] /\ frame \in [1 .. PayloadLen -> Data] /\ last = frame
      BY <2>1 DEF UartInit, Payloads
    <2>4. /\ atByte = 0 /\ irq = FALSE /\ lag = 0 /\ state = "Stopped" /\ isr = "none"
          /\ hal = Ready /\ interrupted = TRUE
      BY <2>1 DEF UartInit
    <2>. QED BY <2>2, <2>3, <2>4 DEF UartInv, UartTypes, SearchesHeader, FirstFrame, WholeFrames
  <1>2. UartInv /\ UNCHANGED uartVars => UartInv'
    BY DEF uartVars, receiver, line, UartInv, UartTypes, SearchesHeader, FirstFrame, WholeFrames
  <1>3. UartInv /\ [UartNext]_uartVars => UartInv'
    BY <1>2, NoiseKeeps, SendKeeps, SearchKeeps, DecodeKeeps DEF UartNext
  <1>. QED BY <1>1, <1>3, PTL DEF UartSpec

(* At every such moment. *)
LEMMA DecodesWholeHere ==
  ASSUME UartInv
  PROVE  DecodesWhole
  <1>1. SUFFICES ASSUME isr = "decode", ~interrupted PROVE Payload = last
    BY DEF DecodesWhole
  <1>2. HeaderLen \in Nat /\ atByte \in Nat
    BY FrameBytes DEF UartInv, UartTypes, BufferPlaces
  <1>3. /\ atByte <= HeaderLen
        /\ \A i \in 1 .. PayloadLen :
             rx[HeaderLen + i - 1] = IF HeaderLen + i - 1 < atByte THEN frame[i] ELSE last[i]
    BY <1>1 DEF UartInv, UartTypes, WholeFrames
  <1>4. \A i \in 1 .. PayloadLen : rx[HeaderLen + i - 1] = last[i]
    BY <1>2, <1>3
  <1>. QED BY <1>4 DEF Payload, UartInv, UartTypes

(* decode() gets the frame that ended last, whole, although the next one   *)
(* already arrives in the same buffer.                                     *)
THEOREM DecodesWholeThm == UartSpec => []DecodesWhole
  BY DecodesWholeHere, UartInvariance, PTL

-----------------------------------------------------------------------------
(* UartRxSync finds the frames again after any disturbance.  What is known is how many bytes of *)
(* undisturbed frames came (Undisturbed), against where the receiver is: in the search a third  *)
(* frame puts the header into the window; with whole frames each round of the DMA either ends   *)
(* in a frame that is decoded, or the receiver has lost one round more, of at most three.       *)

(* How many bytes of undisturbed frames came since one was decoded. *)
Undisturbed ==
  IF ~whole THEN 0
  ELSE atByte + (IF missed = 0 THEN 0 ELSE IF missed = 1 THEN FrameLen
                 ELSE IF missed = 2 THEN 2 * FrameLen ELSE IF missed = 3 THEN 3 * FrameLen
                 ELSE 4 * FrameLen)

(* The latest byte but d - 1 that the sender sent. *)
Sent(d) == IF d <= atByte THEN (Header \o frame)[atByte - d + 1]
                          ELSE (Header \o last)[FrameLen + atByte - d + 1]

(* Place s holds it, or what DecodeWithHeader wrote there, in another order *)
(* than the one the header is looked for in.                                *)
Holds(s, d) == \/ rx[s] = Sent(d)
               \/ hdrIdx < HeaderLen - 1 /\ s < HeaderLen /\ rx[s] = Header[s + 1]

(* The places behind the DMA: of this round, of a whole round. *)
Behind(d) == IF d <= hal.pos THEN hal.pos - d ELSE hal.pos - d + FrameLen
Round == \A d \in 1 .. hal.pos : Holds(hal.pos - d, d)
WholeRound == \A d \in 1 .. FrameLen : Holds(Behind(d), d)

(* The place of the latest byte but d - 1 in the window. *)
Window(d) == LET k == IF irq THEN hdrIdx + 1 ELSE hdrIdx IN IF d <= k THEN k - d ELSE k - d + HeaderLen

(* What is counted has its type, and only begins with the search. *)
CountedFrames ==
  /\ missed \in 0 .. 4 /\ (missed # 0 => whole = TRUE) /\ whole \in BOOLEAN
  /\ hdrIdx \in 0 .. (HeaderLen - 1) /\ (state = "Stopped" => missed = 0 /\ hdrIdx = 0)

(* The search: after three frames without a decode, what was sent of the next one is in the     *)
(* window, in order, and the callback for the last byte of its header finds it there.           *)
Looking ==
  state = "WaitHead" =>
    /\ ~irq => hal.base = hdrIdx
    /\ irq /\ Undisturbed > 0 => rx[hdrIdx] = Sent(1)
    /\ missed <= 3
    /\ missed = 3 => /\ atByte <= HeaderLen /\ (~irq => atByte < HeaderLen)
                     /\ \A d \in 1 .. atByte : rx[Window(d)] = Header[atByte - d + 1]

(* The rest of the first frame, behind a header that was not one when something disturbed it.   *)
Beginning ==
  state = "Receiving" =>
    /\ hal = [mode |-> "dma", base |-> HeaderLen, len |-> PayloadLen, pos |-> hal.pos]
    /\ hal.pos \in 0 .. (PayloadLen - 1)
    /\ interrupted => Undisturbed <= IF irq THEN PayloadLen ELSE hal.pos
    /\ ~interrupted => missed <= IF irq THEN 4 ELSE 3

(* Nothing is known of this round; *)
Round1 == Undisturbed <= hal.pos
(* it is undisturbed; *)
Round2 == Undisturbed <= FrameLen + hal.pos /\ Round
(* and so was the whole one that the callback is due for; *)
Round3 == /\ irq = TRUE /\ Undisturbed <= 2 * FrameLen + hal.pos /\ WholeRound
          /\ hal.pos <= lag /\ lag <= HeaderLen
(* which was found to begin with the header. *)
Round4 == /\ isr = "decode" /\ irq = FALSE /\ Undisturbed <= 2 * FrameLen + hal.pos
          /\ Payload = last /\ hal.pos = atByte /\ hal.pos <= lag /\ lag <= HeaderLen

(* Whole frames: each round of the DMA that is not decoded is known of one step better.         *)
Following ==
  state = "DMAActive" =>
    /\ hal = [mode |-> "dma", base |-> 0, len |-> FrameLen, pos |-> hal.pos]
    /\ hal.pos \in 0 .. (FrameLen - 1)
    /\ interrupted => Round1 \/ Round2 \/ Round3 \/ Round4
    /\ ~interrupted /\ isr # "decode" => missed <= IF irq THEN 1 ELSE 0

(* The inductive invariant. *)
ResyncInv == CountedFrames /\ Looking /\ Beginning /\ Following

(* The lengths are lengths, and the indices are in them. *)
LEMMA UartNumbers ==
  ASSUME UartTypes
  PROVE  /\ HeaderLen \in Nat \ {0} /\ PayloadLen \in Nat \ {0} /\ FrameLen = HeaderLen + PayloadLen
         /\ FrameLen \in Nat /\ atByte \in 0 .. (FrameLen - 1) /\ lag \in Nat
         /\ irq \in BOOLEAN
  BY FrameBytes DEF UartTypes, BufferPlaces

(* So many undisturbed bytes, so many missed frames. *)
LEMMA UndisturbedCounts ==
  ASSUME UartTypes, CountedFrames
  PROVE  /\ Undisturbed \in Nat
         /\ Undisturbed < FrameLen => missed = 0
         /\ Undisturbed < 2 * FrameLen => missed <= 1
         /\ Undisturbed < 3 * FrameLen => missed <= 2
         /\ missed = 0 => Undisturbed <= atByte
         /\ Undisturbed > 0 => whole = TRUE
  BY UartNumbers DEF Undisturbed, CountedFrames

(* Each byte that was sent is one of the header's, or of the payload of its frame. *)
LEMMA SentBytes ==
  ASSUME UartTypes, NEW d \in 1 .. FrameLen
  PROVE  LET n == IF d <= atByte THEN atByte - d ELSE FrameLen + atByte - d
         IN  /\ n \in 0 .. (FrameLen - 1)
             /\ n < HeaderLen => Sent(d) = Header[n + 1]
             /\ n >= HeaderLen => Sent(d) = (IF d <= atByte THEN frame ELSE last)[n + 1 - HeaderLen]
             /\ n >= HeaderLen => Sent(d) \in Data
  <1>. DEFINE n == IF d <= atByte THEN atByte - d ELSE FrameLen + atByte - d
              p == IF d <= atByte THEN frame ELSE last
  <1>1. /\ HeaderLen \in Nat \ {0} /\ PayloadLen \in Nat \ {0} /\ FrameLen = HeaderLen + PayloadLen
        /\ FrameLen \in Nat /\ atByte \in 0 .. (FrameLen - 1)
    BY UartNumbers
  <1>2. n \in 0 .. (FrameLen - 1)
    BY <1>1
  <1>3. Header \in Seq(Bytes) /\ Len(Header) = HeaderLen /\ Data \subseteq Bytes
    BY UartAssumption DEF HeaderLen
  <1>4. p \in [1 .. PayloadLen -> Data]
    BY DEF UartTypes
  <1>5. p \in Seq(Bytes) /\ Len(p) = PayloadLen
    <2>. HIDE DEF p
    <2>. QED BY <1>1, <1>3, <1>4
  <1>6. Sent(d) = (Header \o p)[n + 1]
    BY DEF Sent
  <1>. HIDE DEF n, p
  <1>7. (Header \o p)[n + 1] = IF n < HeaderLen THEN Header[n + 1] ELSE p[n + 1 - HeaderLen]
    BY <1>1, <1>2, <1>3, <1>5
  <1>8. n >= HeaderLen => n + 1 - HeaderLen \in 1 .. PayloadLen
    BY <1>1, <1>2
  <1>9. n >= HeaderLen => p[n + 1 - HeaderLen] \in Data
    BY <1>4, <1>8
  <1>10. /\ n < HeaderLen => Sent(d) = Header[n + 1]
         /\ n >= HeaderLen => Sent(d) = p[n + 1 - HeaderLen]
    BY <1>1, <1>2, <1>6, <1>7
  <1>11. n >= HeaderLen => Sent(d) \in Data
    BY <1>9, <1>10
  <1>. QED BY <1>2, <1>10, <1>11 DEF n, p

(* One byte more was sent. *)
LEMMA SentMoves ==
  ASSUME UartTypes, Onward
  PROVE  /\ atByte' = IF atByte + 1 = FrameLen THEN 0 ELSE atByte + 1
         /\ atByte + 1 # FrameLen => last' = last
         /\ Sent(1)' = Current
         /\ \A d \in 1 .. (FrameLen - 1) : Sent(d + 1)' = Sent(d)
  <1>1. /\ HeaderLen \in Nat \ {0} /\ PayloadLen \in Nat \ {0} /\ FrameLen = HeaderLen + PayloadLen
        /\ FrameLen \in Nat /\ atByte \in 0 .. (FrameLen - 1)
    BY UartNumbers
  <1>2. /\ atByte' = IF atByte + 1 = FrameLen THEN 0 ELSE atByte + 1
        /\ atByte + 1 = FrameLen => last' = frame
        /\ atByte + 1 # FrameLen => frame' = frame /\ last' = last
    BY <1>1 DEF Onward
  <1>3. Sent(1)' = Current
    <2>1. CASE atByte + 1 = FrameLen
      <3>1. ~(1 <= 0) /\ FrameLen + 0 - 1 + 1 = atByte + 1
        BY <1>1, <2>1
      <3>. QED BY <1>2, <2>1, <3>1 DEF Sent, Current
    <2>2. CASE atByte + 1 # FrameLen
      <3>1. 1 <= atByte + 1 /\ (atByte + 1) - 1 + 1 = atByte + 1
        BY <1>1
      <3>. QED BY <1>2, <2>2, <3>1 DEF Sent, Current
    <2>. QED BY <2>1, <2>2
  <1>4. ASSUME NEW d \in 1 .. (FrameLen - 1) PROVE Sent(d + 1)' = Sent(d)
    <2>1. CASE atByte + 1 = FrameLen
      <3>1. d <= atByte /\ ~(d + 1 <= 0)
        BY <1>1, <2>1
      <3>2. FrameLen + 0 - (d + 1) + 1 = atByte - d + 1
        BY <1>1, <2>1
      <3>. QED BY <1>2, <2>1, <3>1, <3>2 DEF Sent
    <2>2. CASE atByte + 1 # FrameLen
      <3>1. (d + 1 <= atByte + 1 <=> d <= atByte) /\ (atByte + 1) - (d + 1) + 1 = atByte - d + 1
            /\ FrameLen + (atByte + 1) - (d + 1) + 1 = FrameLen + atByte - d + 1
        BY <1>1
      <3>. QED BY <1>2, <2>2, <3>1 DEF Sent
    <2>. QED BY <2>1, <2>2
  <1>. QED BY <1>2, <1>3, <1>4

(* A byte sent is one more that is undisturbed. *)
LEMMA OneMoreSent ==
  ASSUME UartTypes, CountedFrames, Send, state # "Stopped", missed <= 3 \/ atByte + 1 # FrameLen
  PROVE  /\ Undisturbed' <= Undisturbed + 1 /\ Undisturbed' \in Nat
         /\ missed' \in 0 .. 4 /\ (missed' # 0 => whole' = TRUE) /\ whole' \in BOOLEAN
         /\ missed' = IF whole /\ atByte + 1 = FrameLen THEN missed + 1 ELSE missed
  <1>1. /\ FrameLen \in Nat /\ FrameLen # 0 /\ atByte \in 0 .. (FrameLen - 1)
    BY UartNumbers
  <1>2. atByte' = IF atByte + 1 = FrameLen THEN 0 ELSE atByte + 1
    BY SentMoves DEF Send
  <1>3. missed' = IF whole /\ atByte + 1 = FrameLen THEN missed + 1 ELSE missed
    BY DEF Send
  <1>4. whole' = (whole \/ atByte + 1 = FrameLen)
    BY DEF Send
  <1>5. whole \in BOOLEAN /\ missed \in 0 .. 4 /\ (missed # 0 => whole = TRUE)
    BY DEF CountedFrames
  <1>6. whole' = IF atByte + 1 = FrameLen THEN TRUE ELSE whole
    BY <1>4, <1>5, Zenon
  <1>7. CASE whole = TRUE
    BY <1>1, <1>2, <1>3, <1>5, <1>6, <1>7 DEF Undisturbed
  <1>8. CASE whole = FALSE
    <2>1. missed = 0 /\ missed' = 0 /\ whole' \in BOOLEAN
      BY <1>3, <1>5, <1>6, <1>8
    <2>2. CASE atByte + 1 = FrameLen
      BY <1>1, <1>2, <1>6, <1>8, <2>1, <2>2 DEF Undisturbed
    <2>3. CASE atByte + 1 # FrameLen
      BY <1>1, <1>2, <1>6, <1>8, <2>1, <2>3 DEF Undisturbed
    <2>. QED BY <1>1, <2>1, <2>2, <2>3
  <1>. QED BY <1>3, <1>5, <1>7, <1>8

(* A disturbance leaves none. *)
LEMMA NoneUndisturbed ==
  ASSUME Disturbed
  PROVE  missed' = 0 /\ Undisturbed' = 0 /\ whole' \in BOOLEAN
  <1>1. missed' = 0 /\ whole' = (atByte' = 0)
    BY DEF Disturbed
  <1>2. whole' \in BOOLEAN
    BY <1>1, Zenon
  <1>3. ASSUME atByte' = 0 PROVE Undisturbed' = 0
    BY <1>1, <1>3 DEF Undisturbed
  <1>4. ASSUME atByte' # 0 PROVE Undisturbed' = 0
    <2>1. whole' = FALSE
      BY <1>1, <1>2, <1>4
    <2>. QED BY <2>1 DEF Undisturbed
  <1>5. Undisturbed' = 0
    BY <1>3, <1>4
  <1>. QED BY <1>1, <1>2, <1>5

(* The DMA takes a byte. *)
LEMMA DmaStores ==
  ASSUME NEW b \in Nat, NEW n \in Nat \ {0}, NEW p \in 0 .. (n - 1), NEW x, ByteComes(x),
         hal = [mode |-> "dma", base |-> b, len |-> n, pos |-> p]
  PROVE  /\ rx' = [rx EXCEPT ![b + p] = x]
         /\ hal' = [mode |-> "dma", base |-> b, len |-> n, pos |-> IF p + 1 = n THEN 0 ELSE p + 1]
         /\ hal' = [mode |-> "dma", base |-> b, len |-> n, pos |-> hal'.pos]
         /\ hal'.pos = (IF p + 1 = n THEN 0 ELSE p + 1) /\ hal'.pos \in 0 .. (n - 1)
         /\ irq' = IF p + 1 = n THEN TRUE ELSE (irq \/ FALSE)
         /\ lag' = (IF irq \/ isr = "decode" THEN lag + 1 ELSE 0)
         /\ UNCHANGED <<hdrIdx, state, isr, withHeader>>
  <1>1. hal.mode = "dma" /\ hal.base = b /\ hal.len = n /\ hal.pos = p /\ hal # Ready
    BY DEF Ready
  <1>2. rx' = [rx EXCEPT ![b + p] = x] /\ hal' = [hal EXCEPT !.pos = (p + 1) % n]
    BY <1>1 DEF ByteComes
  <1>3. (p + 1) % n = IF p + 1 = n THEN 0 ELSE p + 1
    BY NextCount
  <1>4. hal' = [mode |-> "dma", base |-> b, len |-> n, pos |-> IF p + 1 = n THEN 0 ELSE p + 1]
    BY <1>2, <1>3
  <1>5. irq' = (irq \/ (hal # Ready /\ hal.pos + 1 = hal.len))
    BY DEF ByteComes
  <1>6. irq' = IF p + 1 = n THEN TRUE ELSE (irq \/ FALSE)
    BY <1>1, <1>5, Zenon
  <1>7. /\ lag' = (IF irq \/ isr = "decode" THEN lag + 1 ELSE 0)
        /\ UNCHANGED <<hdrIdx, state, isr, withHeader>>
    BY DEF ByteComes
  <1>8. hal'.pos = IF p + 1 = n THEN 0 ELSE p + 1
    BY <1>4
  <1>9. hal' = [mode |-> "dma", base |-> b, len |-> n, pos |-> hal'.pos]
    BY <1>4, <1>8
  <1>. QED BY <1>2, <1>4, <1>6, <1>7, <1>8, <1>9

(* While the header is looked for one byte comes for each callback. *)
LEMMA ByteInSearch ==
  ASSUME UartInv, ResyncInv, state = "WaitHead", NEW x, ByteComes(x)
  PROVE  /\ irq' = TRUE /\ UNCHANGED <<state, hdrIdx, isr>>
         /\ irq = FALSE => rx' = [rx EXCEPT ![hdrIdx] = x]
  <1>1. irq \in BOOLEAN
    BY DEF UartInv, UartTypes
  <1>2. irq' = (irq \/ (hal # Ready /\ hal.pos + 1 = hal.len))
    BY DEF ByteComes
  <1>3. UNCHANGED <<state, hdrIdx, isr>>
    BY DEF ByteComes
  <1>4. ASSUME irq = FALSE PROVE irq' = TRUE /\ rx' = [rx EXCEPT ![hdrIdx] = x]
    <2>1. hal.mode = "it" /\ hal.len = 1 /\ hal.pos = 0 /\ hal.base = hdrIdx
      BY <1>4 DEF UartInv, SearchesHeader, UartTypes, ResyncInv, Looking
    <2>2. hdrIdx + 0 = hdrIdx
      BY DEF ResyncInv, CountedFrames
    <2>3. hal # Ready
      BY <2>1 DEF Ready
    <2>4. hal.pos + 1 = hal.len
      BY <2>1
    <2>5. irq' = TRUE
      BY <1>2, <2>3, <2>4, Zenon
    <2>6. rx' = [rx EXCEPT ![hdrIdx] = x]
      BY <2>1, <2>2, <2>3 DEF ByteComes
    <2>. QED BY <2>5, <2>6
  <1>5. ASSUME irq = TRUE PROVE irq' = TRUE
    BY <1>2, <1>5, Zenon
  <1>. QED BY <1>1, <1>3, <1>4, <1>5

(* After a disturbance nothing is counted and nothing need be known. *)
LEMMA NoiseResyncs ==
  ASSUME UartInv, ResyncInv, Drop \/ Junk \/ Late \/ ErrorHandler
  PROVE  ResyncInv'
  <1>1. Disturbed /\ interrupted' = TRUE
    BY DEF Drop, Junk, Late, ErrorHandler, Disturbed
  <1>2. missed' = 0 /\ Undisturbed' = 0 /\ whole' \in BOOLEAN
    BY <1>1, NoneUndisturbed
  <1>3. UartTypes /\ CountedFrames
    BY DEF UartInv, ResyncInv
  <1>4. /\ HeaderLen \in Nat \ {0} /\ PayloadLen \in Nat \ {0} /\ FrameLen = HeaderLen + PayloadLen
        /\ FrameLen \in Nat /\ atByte \in 0 .. (FrameLen - 1)
    BY <1>3, UartNumbers
  <1>5. state = "Receiving" =>
          /\ hal = [mode |-> "dma", base |-> HeaderLen, len |-> PayloadLen, pos |-> hal.pos]
          /\ hal.pos \in 0 .. (PayloadLen - 1)
    BY DEF ResyncInv, Beginning
  <1>6. state = "DMAActive" =>
          /\ hal = [mode |-> "dma", base |-> 0, len |-> FrameLen, pos |-> hal.pos]
          /\ hal.pos \in 0 .. (FrameLen - 1)
    BY DEF ResyncInv, Following
  <1>7. ASSUME NEW x, ByteComes(x)
        PROVE  ResyncInv'
    <2>1. UNCHANGED <<state, hdrIdx>>
      BY <1>7 DEF ByteComes
    <2>2. CountedFrames'
      BY <1>2, <1>3, <2>1 DEF CountedFrames
    <2>3. Looking'
      <3>1. SUFFICES ASSUME state = "WaitHead" PROVE Looking'
        BY <2>1 DEF Looking
      <3>2. irq' = TRUE
        BY <1>7, <3>1, ByteInSearch
      <3>. QED BY <1>2, <3>2 DEF Looking
    <2>4. Beginning'
      <3>1. SUFFICES ASSUME state = "Receiving" PROVE Beginning'
        BY <2>1 DEF Beginning
      <3>2. hal' = [mode |-> "dma", base |-> HeaderLen, len |-> PayloadLen, pos |-> hal'.pos]
            /\ hal'.pos \in 0 .. (PayloadLen - 1)
        <4>1. HeaderLen \in Nat
          BY <1>4
        <4>. QED BY <1>4, <1>5, <1>7, <3>1, <4>1, DmaStores
      <3>. QED BY <1>1, <1>2, <1>4, <3>2 DEF Beginning
    <2>5. Following'
      <3>1. SUFFICES ASSUME state = "DMAActive" PROVE Following'
        BY <2>1 DEF Following
      <3>2. hal' = [mode |-> "dma", base |-> 0, len |-> FrameLen, pos |-> hal'.pos]
            /\ hal'.pos \in 0 .. (FrameLen - 1)
        <4>1. PICK zero \in Nat : zero = 0
          OBVIOUS
        <4>2. FrameLen \in Nat \ {0}
          BY <1>4
        <4>3. /\ hal = [mode |-> "dma", base |-> zero, len |-> FrameLen, pos |-> hal.pos]
              /\ hal.pos \in 0 .. (FrameLen - 1)
          BY <1>6, <3>1, <4>1
        <4>4. /\ hal' = [mode |-> "dma", base |-> zero, len |-> FrameLen, pos |-> hal'.pos]
              /\ hal'.pos \in 0 .. (FrameLen - 1)
          <5>1. PICK p \in 0 .. (FrameLen - 1) : p = hal.pos
            BY <4>3
          <5>. QED BY <1>7, <4>2, <4>3, <5>1, DmaStores
        <4>. QED BY <4>1, <4>4
      <3>3. Round1'
        BY <1>2, <3>2 DEF Round1
      <3>. QED BY <1>1, <3>2, <3>3 DEF Following
    <2>. QED BY <2>2, <2>3, <2>4, <2>5 DEF ResyncInv
  <1>8. CASE Drop
    <2>1. UNCHANGED <<rx, hdrIdx, state, hal, irq, isr, lag>>
      BY <1>8 DEF Drop, receiver
    <2>2. CountedFrames' /\ Looking'
      BY <1>2, <1>3, <2>1 DEF CountedFrames, ResyncInv, Looking
    <2>3. Beginning'
      BY <1>1, <1>2, <1>4, <1>5, <2>1 DEF Beginning
    <2>4. Following'
      <3>1. state = "DMAActive" => Round1'
        BY <1>2, <1>4, <1>6, <2>1 DEF Round1
      <3>. QED BY <1>1, <1>6, <2>1, <3>1 DEF Following
    <2>. QED BY <2>2, <2>3, <2>4 DEF ResyncInv
  <1>9. CASE Junk
    BY <1>7, <1>9 DEF Junk
  <1>10. CASE Late
    BY <1>7, <1>10 DEF Late
  <1>11. CASE ErrorHandler
    <2>1. state' = "WaitHead" /\ hdrIdx' = 0 /\ hal' = ReceiveIT(Ready, 0) /\ irq' = FALSE
      BY <1>11 DEF ErrorHandler
    <2>2. hal'.base = 0
      BY <2>1 DEF ReceiveIT, Ready
    <2>3. CountedFrames' /\ Looking' /\ Beginning' /\ Following'
      BY <1>2, <1>4, <2>1, <2>2 DEF CountedFrames, Looking, Beginning, Following
    <2>. QED BY <2>3 DEF ResyncInv
  <1>. QED BY <1>8, <1>9, <1>10, <1>11

(* The last byte of the header is sent nowhere else. *)
LEMMA LastOfHeader ==
  ASSUME UartTypes, HeaderStandsOut, Sent(1) = Header[HeaderLen]
  PROVE  atByte = HeaderLen
  <1>1. /\ HeaderLen \in Nat \ {0} /\ PayloadLen \in Nat \ {0} /\ FrameLen = HeaderLen + PayloadLen
        /\ FrameLen \in Nat /\ atByte \in 0 .. (FrameLen - 1)
    BY UartNumbers
  <1>. DEFINE n == IF 1 <= atByte THEN atByte - 1 ELSE FrameLen + atByte - 1
  <1>2. /\ n \in 0 .. (FrameLen - 1) /\ (n < HeaderLen => Sent(1) = Header[n + 1])
        /\ (n >= HeaderLen => Sent(1) \in Data)
    <2>1. 1 \in 1 .. FrameLen
      BY <1>1
    <2>. QED BY <2>1, SentBytes
  <1>. HIDE DEF n
  <1>3. n < HeaderLen
    BY <1>1, <1>2 DEF HeaderStandsOut
  <1>4. n + 1 = HeaderLen
    BY <1>1, <1>2, <1>3 DEF HeaderStandsOut
  <1>. QED BY <1>1, <1>4 DEF n

(* check_header() finds a header that is in the window. *)
LEMMA WindowIsFound ==
  ASSUME UartTypes, CountedFrames, irq = TRUE,
         \A d \in 1 .. HeaderLen : rx[Window(d)] = Header[HeaderLen - d + 1]
  PROVE  Found
  <1>1. HeaderLen \in Nat \ {0} /\ hdrIdx \in 0 .. (HeaderLen - 1)
    BY UartNumbers DEF CountedFrames
  <1>2. ASSUME NEW i \in 0 .. (HeaderLen - hdrIdx - 1 - 1)
        PROVE  rx[hdrIdx + 1 + i] = Header[i + 1]
    <2>1. HeaderLen - i \in 1 .. HeaderLen /\ HeaderLen - (HeaderLen - i) + 1 = i + 1
      BY <1>1
    <2>2. Window(HeaderLen - i) = hdrIdx + 1 + i
      BY <1>1, <2>1 DEF Window
    <2>. QED BY <2>1, <2>2
  <1>3. ASSUME NEW i \in 0 .. hdrIdx
        PROVE  rx[i] = Header[HeaderLen - hdrIdx - 1 + i + 1]
    <2>1. /\ hdrIdx + 1 - i \in 1 .. HeaderLen
          /\ HeaderLen - (hdrIdx + 1 - i) + 1 = HeaderLen - hdrIdx - 1 + i + 1
      BY <1>1
    <2>2. Window(hdrIdx + 1 - i) = i
      BY <1>1, <2>1 DEF Window
    <2>. QED BY <2>1, <2>2
  <1>4. rx[hdrIdx] = Header[HeaderLen]
    <2>1. hdrIdx \in 0 .. hdrIdx /\ HeaderLen - hdrIdx - 1 + hdrIdx + 1 = HeaderLen
      BY <1>1
    <2>. QED BY <1>3, <2>1
  <1>. QED BY <1>2, <1>3, <1>4 DEF Found, CheckHeader

(* The search begins, goes on, ends, and begins again. *)
LEMMA SearchResyncs ==
  ASSUME UartInv, ResyncInv, HeaderStandsOut, StartReceive \/ NextByte \/ HeaderFound \/ HeaderError
  PROVE  ResyncInv'
  <1>1. UartTypes /\ CountedFrames
    BY DEF UartInv, ResyncInv
  <1>2. /\ HeaderLen \in Nat \ {0} /\ PayloadLen \in Nat \ {0} /\ FrameLen = HeaderLen + PayloadLen
        /\ FrameLen \in Nat /\ atByte \in 0 .. (FrameLen - 1) /\ irq \in BOOLEAN
    BY <1>1, UartNumbers
  <1>3. /\ hdrIdx \in 0 .. (HeaderLen - 1) /\ missed \in 0 .. 4
        /\ whole \in BOOLEAN /\ (missed # 0 => whole = TRUE)
    BY <1>1 DEF CountedFrames
  <1>4. /\ Undisturbed \in Nat
        /\ Undisturbed < FrameLen => missed = 0
        /\ Undisturbed < 2 * FrameLen => missed <= 1
        /\ Undisturbed < 3 * FrameLen => missed <= 2
        /\ Undisturbed > 0 => whole = TRUE
    BY <1>1, UndisturbedCounts
  <1>5. CASE StartReceive
    <2>1. /\ state = "Stopped" /\ state' = "WaitHead" /\ hal' = ReceiveIT(hal, 0)
          /\ whole' = (atByte = 0) /\ UNCHANGED <<hdrIdx, atByte, irq, missed>>
      BY <1>5 DEF StartReceive
    <2>2. hal = Ready /\ irq = FALSE
      BY <1>2, <2>1 DEF UartInv, SearchesHeader
    <2>3. missed = 0 /\ hdrIdx = 0
      BY <1>1, <2>1 DEF CountedFrames
    <2>4. hal'.base = 0
      BY <2>1, <2>2 DEF ReceiveIT, Ready
    <2>5. whole' \in BOOLEAN
      BY <2>1, Zenon
    <2>6. CountedFrames' /\ Looking' /\ Beginning' /\ Following'
      BY <1>2, <2>1, <2>2, <2>3, <2>4, <2>5 DEF CountedFrames, Looking, Beginning, Following
    <2>. QED BY <2>6 DEF ResyncInv
  <1>6. CASE NextByte
    <2>1. /\ state = "WaitHead" /\ irq = TRUE /\ irq' = FALSE /\ ~Found
          /\ hdrIdx' = (hdrIdx + 1) % HeaderLen /\ hal' = ReceiveIT(hal, (hdrIdx + 1) % HeaderLen)
          /\ UNCHANGED <<rx, state, isr, interrupted, atByte, whole, missed>>
      BY <1>2, <1>6 DEF NextByte, Callback, SameB, Same, line
    <2>2. hal = Ready
      BY <2>1 DEF UartInv, SearchesHeader
    <2>3. hal'.base = hdrIdx'
      BY <2>1, <2>2 DEF ReceiveIT
    <2>4. hdrIdx' \in 0 .. (HeaderLen - 1) /\ hdrIdx' = IF hdrIdx + 1 < HeaderLen THEN hdrIdx + 1 ELSE 0
      BY <1>2, <1>3, <2>1, NextCount
    <2>5. missed <= 3
      BY <2>1 DEF ResyncInv, Looking
    <2>6. ASSUME missed = 3
          PROVE  atByte < HeaderLen /\ \A d \in 1 .. atByte : rx'[Window(d)'] = Header[atByte - d + 1]
      <3>1. atByte <= HeaderLen /\ \A d \in 1 .. atByte : rx[Window(d)] = Header[atByte - d + 1]
        BY <2>1, <2>6 DEF ResyncInv, Looking
      <3>2. atByte # HeaderLen
        BY <1>1, <2>1, <3>1, WindowIsFound
      <3>3. \A d \in 1 .. atByte : Window(d)' = Window(d)
        BY <1>2, <1>3, <2>1, <2>4, <3>1, <3>2 DEF Window
      <3>. QED BY <1>2, <2>1, <3>1, <3>2, <3>3
    <2>7. CountedFrames' /\ Beginning' /\ Following'
      BY <1>1, <2>1, <2>4 DEF CountedFrames, Beginning, Following
    <2>8. Looking'
      BY <2>1, <2>3, <2>5, <2>6, <1>2 DEF Looking
    <2>. QED BY <2>7, <2>8 DEF ResyncInv
  <1>7. CASE HeaderFound
    <2>1. /\ state = "WaitHead" /\ irq = TRUE /\ irq' = FALSE /\ Found
          /\ hal' = ReceiveDMA(hal, HeaderLen, PayloadLen) /\ state' = "Receiving"
          /\ interrupted' = ~(whole /\ atByte = HeaderLen)
          /\ UNCHANGED <<rx, hdrIdx, isr, atByte, whole, missed>>
      BY <1>2, <1>7 DEF HeaderFound, Callback, SameB, Same, line
    <2>2. hal = Ready
      BY <2>1 DEF UartInv, SearchesHeader
    <2>3. hal' = [mode |-> "dma", base |-> HeaderLen, len |-> PayloadLen, pos |-> 0] /\ hal'.pos = 0
      BY <2>1, <2>2 DEF ReceiveDMA
    <2>4. missed <= 3 /\ (Undisturbed > 0 => rx[hdrIdx] = Sent(1))
      BY <2>1 DEF ResyncInv, Looking
    <2>5. Undisturbed > 0 => ~interrupted'
      <3>1. SUFFICES ASSUME Undisturbed > 0 PROVE ~interrupted'
        OBVIOUS
      <3>2. Sent(1) = Header[HeaderLen]
        BY <2>1, <2>4, <3>1 DEF Found
      <3>3. whole /\ atByte = HeaderLen
        BY <1>1, <1>4, <3>1, <3>2, LastOfHeader
      <3>. QED BY <2>1, <3>3, Zenon
    <2>6. Undisturbed' = Undisturbed
      BY <2>1 DEF Undisturbed
    <2>7. CountedFrames' /\ Looking' /\ Following'
      BY <1>1, <2>1 DEF CountedFrames, Looking, Following
    <2>8. Beginning'
      <3>1. interrupted' => Undisturbed' <= 0
        BY <1>4, <2>5, <2>6
      <3>. QED BY <1>2, <2>1, <2>3, <2>4, <3>1 DEF Beginning
    <2>. QED BY <2>7, <2>8 DEF ResyncInv
  <1>8. CASE HeaderError
    <2>1. /\ state = "DMAActive" /\ irq = TRUE /\ irq' = FALSE /\ isr = "none"
          /\ state' = "WaitHead" /\ hdrIdx' = 0 /\ hal' = ReceiveIT(Ready, 0)
          /\ UNCHANGED <<rx, isr, atByte, whole, missed>>
      BY <1>2, <1>8 DEF HeaderError, Callback, SameB, Same, line
    <2>2. missed <= 2
      <3>1. CASE interrupted
        <4>1. hal.pos \in 0 .. (FrameLen - 1) /\ (Round1 \/ Round2 \/ Round3)
          BY <2>1, <3>1 DEF ResyncInv, Following, Round4
        <4>2. Undisturbed <= 2 * FrameLen + HeaderLen
          <5>1. lag \in Nat
            BY <1>1 DEF UartTypes
          <5>2. CASE Round1
            BY <1>2, <1>4, <4>1, <5>2 DEF Round1
          <5>3. CASE Round2
            BY <1>2, <1>4, <4>1, <5>3 DEF Round2
          <5>4. CASE Round3
            BY <1>2, <1>4, <4>1, <5>1, <5>4 DEF Round3
          <5>. QED BY <4>1, <5>2, <5>3, <5>4
        <4>. QED BY <1>2, <1>4, <4>2
      <3>2. CASE ~interrupted
        BY <1>3, <2>1, <3>2 DEF ResyncInv, Following
      <3>. QED BY <3>1, <3>2
    <2>3. hal'.base = 0
      BY <2>1 DEF ReceiveIT, Ready
    <2>4. CountedFrames' /\ Looking' /\ Beginning' /\ Following'
      BY <1>2, <1>3, <2>1, <2>2, <2>3 DEF CountedFrames, Looking, Beginning, Following
    <2>. QED BY <2>4 DEF ResyncInv
  <1>. QED BY <1>5, <1>6, <1>7, <1>8

(* Where a byte of the header stands in the buffer it was sent to. *)
LEMMA PlaceOfHeader ==
  ASSUME UartTypes, HeaderStandsOut, NEW p \in 0 .. (FrameLen - 1), hal.pos = p, WholeRound,
         NEW s \in 0 .. (HeaderLen - 1), NEW j \in 1 .. HeaderLen, rx[s] = Header[j],
         hdrIdx < HeaderLen - 1 => s + 1 # j
  PROVE  atByte - p + s = j - 1 \/ atByte - p + s = j - 1 + FrameLen
         \/ atByte - p + s = j - 1 - FrameLen
  <1>1. /\ HeaderLen \in Nat \ {0} /\ PayloadLen \in Nat \ {0} /\ FrameLen = HeaderLen + PayloadLen
        /\ FrameLen \in Nat /\ atByte \in 0 .. (FrameLen - 1)
    BY UartNumbers
  <1>. DEFINE d == IF s < p THEN p - s ELSE p - s + FrameLen
              n == IF d <= atByte THEN atByte - d ELSE FrameLen + atByte - d
  <1>2. d \in 1 .. FrameLen /\ (IF d <= p THEN p - d ELSE p - d + FrameLen) = s
    BY <1>1
  <1>3. atByte - p + s = n \/ atByte - p + s = n + FrameLen \/ atByte - p + s = n - FrameLen
    BY <1>1
  <1>. HIDE DEF d
  <1>4. Behind(d) = s
    BY <1>2 DEF Behind
  <1>5. Holds(s, d)
    BY <1>2, <1>4 DEF WholeRound
  <1>6. s + 1 \in 1 .. HeaderLen
    BY <1>1
  <1>7. rx[s] = Sent(d)
    BY <1>5, <1>6 DEF Holds, HeaderStandsOut
  <1>8. /\ n \in 0 .. (FrameLen - 1) /\ (n < HeaderLen => Sent(d) = Header[n + 1])
        /\ (n >= HeaderLen => Sent(d) \in Data)
    BY <1>2, SentBytes
  <1>. HIDE DEF n
  <1>9. n < HeaderLen
    <2>1. Header[j] \notin Data
      BY DEF HeaderStandsOut
    <2>2. ~(n >= HeaderLen)
      BY <1>7, <1>8, <2>1, Zenon
    <2>. QED BY <1>1, <1>8, <2>2
  <1>10. n + 1 \in 1 .. HeaderLen /\ Header[n + 1] = Header[j]
    BY <1>1, <1>7, <1>8, <1>9
  <1>11. n + 1 = j
    <2>1. \A i, k \in 1 .. HeaderLen : Header[i] = Header[k] => i = k
      BY DEF HeaderStandsOut
    <2>. QED BY <1>10, <2>1, Zenon
  <1>12. n = j - 1
    BY <1>8, <1>11
  <1>. QED BY <1>3, <1>12

(* A whole undisturbed round in which the header is found is a frame. *)
LEMMA CheckedIsAligned ==
  ASSUME UartTypes, CountedFrames, HeaderStandsOut, NEW p \in 0 .. (FrameLen - 1), hal.pos = p,
         WholeRound, CheckHeader
  PROVE  hdrIdx = HeaderLen - 1 /\ atByte = p
  <1>1. /\ HeaderLen \in Nat \ {0} /\ PayloadLen \in Nat \ {0} /\ FrameLen = HeaderLen + PayloadLen
        /\ FrameLen \in Nat /\ atByte \in 0 .. (FrameLen - 1) /\ hdrIdx \in 0 .. (HeaderLen - 1)
    BY UartNumbers DEF CountedFrames
  <1>2. rx[hdrIdx] = Header[HeaderLen]
    <2>1. hdrIdx \in 0 .. hdrIdx /\ HeaderLen - hdrIdx - 1 + hdrIdx + 1 = HeaderLen
      BY <1>1
    <2>. QED BY <2>1 DEF CheckHeader
  <1>3. \/ atByte - p + hdrIdx = HeaderLen - 1
        \/ atByte - p + hdrIdx = HeaderLen - 1 + FrameLen
        \/ atByte - p + hdrIdx = HeaderLen - 1 - FrameLen
    <2>1. HeaderLen \in 1 .. HeaderLen /\ (hdrIdx < HeaderLen - 1 => hdrIdx + 1 # HeaderLen)
      BY <1>1
    <2>. QED BY <1>1, <1>2, <2>1, PlaceOfHeader
  <1>4. hdrIdx = HeaderLen - 1
    <2>1. SUFFICES ASSUME hdrIdx < HeaderLen - 1 PROVE FALSE
      BY <1>1
    <2>2. 0 \in 0 .. (HeaderLen - hdrIdx - 1 - 1) /\ hdrIdx + 1 + 0 = hdrIdx + 1
      BY <1>1, <2>1
    <2>3. rx[hdrIdx + 1] = Header[0 + 1]
      BY <2>2 DEF CheckHeader
    <2>4. PICK s \in 0 .. (HeaderLen - 1) : s = hdrIdx + 1
      BY <1>1, <2>1
    <2>5. PICK j \in 1 .. HeaderLen : j = 1
      BY <1>1
    <2>6. rx[s] = Header[j] /\ s + 1 # j
      BY <1>1, <2>3, <2>4, <2>5
    <2>7. \/ atByte - p + s = j - 1 \/ atByte - p + s = j - 1 + FrameLen
          \/ atByte - p + s = j - 1 - FrameLen
      BY <2>6, PlaceOfHeader
    <2>. QED BY <1>1, <1>3, <2>4, <2>5, <2>7
  <1>. QED BY <1>1, <1>3, <1>4

(* A frame that the receiver may decode is decoded, after a disturbance and without one. *)
LEMMA DecodeResyncs ==
  ASSUME UartInv, ResyncInv, HeaderStandsOut, FirstReceived \/ FrameReceived \/ Decode
  PROVE  ResyncInv'
  <1>1. UartTypes /\ CountedFrames /\ DecodesWhole
    BY DecodesWholeHere DEF UartInv, ResyncInv
  <1>2. /\ HeaderLen \in Nat \ {0} /\ PayloadLen \in Nat \ {0} /\ FrameLen = HeaderLen + PayloadLen
        /\ FrameLen \in Nat /\ atByte \in 0 .. (FrameLen - 1) /\ irq \in BOOLEAN /\ lag \in Nat
    BY <1>1, UartNumbers
  <1>3. /\ hdrIdx \in 0 .. (HeaderLen - 1) /\ missed \in 0 .. 4
        /\ whole \in BOOLEAN /\ (missed # 0 => whole = TRUE)
    BY <1>1 DEF CountedFrames
  <1>4. Undisturbed \in Nat /\ (missed = 0 => Undisturbed <= atByte)
    BY <1>1, UndisturbedCounts
  <1>5. CASE FirstReceived
    <2>1. /\ state = "Receiving" /\ state' = "DMAActive" /\ hal' = ReceiveDMA(Ready, 0, FrameLen)
          /\ irq = TRUE /\ irq' = FALSE /\ isr' = "decode"
          /\ UNCHANGED <<hdrIdx, interrupted, atByte, whole, missed>>
      BY <1>2, <1>5 DEF FirstReceived, Callback, BeginDecode, Same, line
    <2>2. hal' = [mode |-> "dma", base |-> 0, len |-> FrameLen, pos |-> 0] /\ hal'.pos = 0
      BY <2>1 DEF ReceiveDMA
    <2>3. Undisturbed' = Undisturbed
      BY <2>1 DEF Undisturbed
    <2>4. interrupted => Undisturbed <= PayloadLen
      BY <2>1 DEF ResyncInv, Beginning
    <2>5. interrupted => Round2'
      BY <1>2, <1>4, <2>2, <2>3, <2>4 DEF Round2, Round
    <2>6. CountedFrames' /\ Looking' /\ Beginning'
      BY <1>1, <2>1 DEF CountedFrames, Looking, Beginning
    <2>7. Following'
      BY <1>2, <2>1, <2>2, <2>5 DEF Following
    <2>. QED BY <2>6, <2>7 DEF ResyncInv
  <1>6. CASE FrameReceived
    <2>1. /\ state = "DMAActive" /\ CheckHeader /\ irq = TRUE /\ irq' = FALSE /\ isr' = "decode"
          /\ rx' = [s \in BufferPlaces |-> IF withHeader /\ s < HeaderLen THEN Header[s + 1] ELSE rx[s]]
          /\ UNCHANGED <<state, hal, hdrIdx, interrupted, atByte, frame, last, lag, whole, missed>>
      BY <1>2, <1>6 DEF FrameReceived, Callback, BeginDecode, Same, line
    <2>2. Undisturbed' = Undisturbed
      BY <2>1 DEF Undisturbed
    <2>3. /\ hal = [mode |-> "dma", base |-> 0, len |-> FrameLen, pos |-> hal.pos]
          /\ hal.pos \in 0 .. (FrameLen - 1)
          /\ interrupted => Round1 \/ Round2 \/ Round3
      BY <2>1 DEF ResyncInv, Following, Round4
    <2>4. PICK p \in 0 .. (FrameLen - 1) : p = hal.pos
      BY <2>3
    <2>5. ASSUME hdrIdx = HeaderLen - 1, NEW s \in 0 .. (FrameLen - 1)
          PROVE  rx'[s] = rx[s]
      <3>1. CASE s < HeaderLen
        <4>1. s \in 0 .. hdrIdx /\ HeaderLen - hdrIdx - 1 + s + 1 = s + 1
          BY <1>2, <2>5, <3>1
        <4>2. rx[s] = Header[s + 1]
          BY <2>1, <4>1 DEF CheckHeader
        <4>. QED BY <2>1, <4>2 DEF BufferPlaces
      <3>2. CASE ~(s < HeaderLen)
        BY <2>1, <3>2 DEF BufferPlaces
      <3>. QED BY <3>1, <3>2
    <2>6. Round1 => Round1'
      BY <2>1, <2>2 DEF Round1
    <2>7. ASSUME NEW d, NEW s \in 0 .. (FrameLen - 1), Holds(s, d) PROVE Holds(s, d)'
      <3>1. Sent(d)' = Sent(d)
        BY <2>1 DEF Sent
      <3>2. CASE hdrIdx = HeaderLen - 1
        BY <1>2, <2>1, <2>5, <2>7, <3>1, <3>2 DEF Holds
      <3>3. CASE hdrIdx # HeaderLen - 1
        <4>1. hdrIdx < HeaderLen - 1
          BY <1>2, <1>3, <3>3
        <4>2. rx'[s] = rx[s] \/ (s < HeaderLen /\ rx'[s] = Header[s + 1])
          BY <2>1 DEF BufferPlaces
        <4>. QED BY <2>1, <2>7, <3>1, <4>1, <4>2 DEF Holds
      <3>. QED BY <3>2, <3>3
    <2>8. ASSUME Round2 PROVE Round2'
      <3>1. ASSUME NEW d \in 1 .. p PROVE Holds(p - d, d)'
        <4>1. Holds(p - d, d)
          BY <2>4, <2>8 DEF Round2, Round
        <4>2. p - d \in 0 .. (FrameLen - 1)
          BY <1>2
        <4>. QED BY <2>7, <4>1, <4>2
      <3>2. Round'
        BY <2>1, <2>4, <3>1 DEF Round
      <3>. QED BY <2>1, <2>2, <2>8, <3>2 DEF Round2
    <2>9. ASSUME Round3 PROVE Round4'
      <3>1. hdrIdx = HeaderLen - 1 /\ atByte = p
        BY <1>1, <2>1, <2>4, <2>9, CheckedIsAligned DEF Round3
      <3>2. p <= lag /\ lag <= HeaderLen /\ Undisturbed <= 2 * FrameLen + p
        BY <2>4, <2>9 DEF Round3
      <3>3. ASSUME NEW i \in 1 .. PayloadLen PROVE rx'[HeaderLen + i - 1] = last[i]
        <4>. DEFINE s == HeaderLen + i - 1
                    d == p - s + FrameLen
        <4>1. /\ s \in 0 .. (FrameLen - 1) /\ ~(s < HeaderLen) /\ d \in 1 .. FrameLen
              /\ ~(d <= p) /\ p - d + FrameLen = s
          BY <1>2, <3>2
        <4>2. Behind(d) = s
          BY <2>4, <4>1 DEF Behind
        <4>3. Holds(s, d)
          BY <2>9, <4>1, <4>2 DEF Round3, WholeRound
        <4>4. rx[s] = Sent(d)
          BY <4>1, <4>3 DEF Holds
        <4>5. Sent(d) = last[FrameLen + atByte - d + 1 - HeaderLen]
          <5>1. ~(d <= atByte) /\ FrameLen + atByte - d >= HeaderLen
            BY <1>2, <3>1, <4>1
          <5>2. \A e \in 1 .. FrameLen : ~(e <= atByte) /\ FrameLen + atByte - e >= HeaderLen
                     => Sent(e) = last[FrameLen + atByte - e + 1 - HeaderLen]
            BY <1>1, SentBytes
          <5>. QED BY <4>1, <5>1, <5>2
        <4>6. FrameLen + atByte - d + 1 - HeaderLen = i
          BY <1>2, <3>1
        <4>7. rx'[s] = rx[s]
          BY <2>5, <3>1, <4>1
        <4>. QED BY <4>4, <4>5, <4>6, <4>7
      <3>4. Payload' = last'
        BY <1>1, <2>1, <3>3 DEF Payload, UartTypes
      <3>. QED BY <2>1, <2>2, <2>4, <3>1, <3>2, <3>4 DEF Round4
    <2>10. CountedFrames' /\ Looking' /\ Beginning'
      BY <1>1, <2>1 DEF CountedFrames, Looking, Beginning
    <2>11. Following'
      BY <2>1, <2>3, <2>6, <2>8, <2>9 DEF Following
    <2>. QED BY <2>10, <2>11 DEF ResyncInv
  <1>7. CASE Decode
    <2>1. /\ isr = "decode" /\ isr' = "none" /\ missed' = IF Payload = last THEN 0 ELSE missed
          /\ UNCHANGED <<rx, hdrIdx, state, hal, irq, lag, frame, atByte, last, whole, interrupted>>
      BY <1>7 DEF Decode, receiver, line
    <2>2. state = "DMAActive"
      BY <1>1, <2>1 DEF UartTypes
    <2>3. /\ hal = [mode |-> "dma", base |-> 0, len |-> FrameLen, pos |-> hal.pos]
          /\ hal.pos \in 0 .. (FrameLen - 1)
          /\ interrupted => Round1 \/ Round2 \/ Round3 \/ Round4
      BY <2>2 DEF ResyncInv, Following
    <2>4. /\ missed' \in 0 .. 4 /\ (missed' # 0 => whole' = TRUE) /\ whole' \in BOOLEAN
          /\ Undisturbed' <= Undisturbed /\ Undisturbed' \in Nat
          /\ missed' = 0 => Undisturbed' <= atByte
      BY <1>2, <1>3, <2>1 DEF Undisturbed
    <2>5. ~interrupted => missed' = 0
      BY <1>1, <2>1 DEF DecodesWhole
    <2>6. Round1 => Round1'
      BY <1>2, <1>4, <2>1, <2>3, <2>4 DEF Round1
    <2>7. ASSUME Round2 PROVE Round2'
      <3>1. Round'
        BY <2>1, <2>7 DEF Round2, Round, Holds, Sent
      <3>. QED BY <1>2, <1>4, <2>1, <2>3, <2>4, <2>7, <3>1 DEF Round2
    <2>8. ASSUME Round3 PROVE Round3'
      <3>1. WholeRound'
        BY <2>1, <2>8 DEF Round3, WholeRound, Behind, Holds, Sent
      <3>. QED BY <1>2, <1>4, <2>1, <2>3, <2>4, <2>8, <3>1 DEF Round3
    <2>9. ASSUME Round4 PROVE Round1'
      BY <1>2, <2>1, <2>3, <2>4, <2>9 DEF Round4, Round1
    <2>10. CountedFrames' /\ Looking' /\ Beginning'
      BY <1>1, <2>1, <2>2, <2>4 DEF CountedFrames, Looking, Beginning
    <2>11. Following'
      BY <2>1, <2>3, <2>5, <2>6, <2>7, <2>8, <2>9 DEF Following
    <2>. QED BY <2>10, <2>11 DEF ResyncInv
  <1>. QED BY <1>5, <1>6, <1>7

(* A place that holds the latest byte but d - 1 holds the latest but d when one more came, and *)
(* the place the DMA is at holds that one.                                                     *)
LEMMA HoldsOneLater ==
  ASSUME UartTypes, Onward, hdrIdx' = hdrIdx,
         NEW p \in 0 .. (FrameLen - 1), rx' = [rx EXCEPT ![p] = Current]
  PROVE  /\ Holds(p, 1)'
         /\ \A d \in 1 .. (FrameLen - 1), s \in 0 .. (FrameLen - 1) :
              s # p /\ Holds(s, d) => Holds(s, d + 1)'
  <1>1. /\ Sent(1)' = Current
        /\ \A d \in 1 .. (FrameLen - 1) : Sent(d + 1)' = Sent(d)
    BY SentMoves
  <1>2. rx \in [BufferPlaces -> Bytes]
    BY DEF UartTypes
  <1>3. rx'[p] = Current /\ \A s \in 0 .. (FrameLen - 1) : s # p => rx'[s] = rx[s]
    BY <1>2 DEF BufferPlaces
  <1>4. Holds(p, 1)'
    BY <1>1, <1>3 DEF Holds
  <1>5. ASSUME NEW d \in 1 .. (FrameLen - 1), NEW s \in 0 .. (FrameLen - 1), s # p, Holds(s, d)
        PROVE  Holds(s, d + 1)'
    BY <1>1, <1>3, <1>5 DEF Holds
  <1>. QED BY <1>4, <1>5

(* A byte comes while the header is looked for: a whole one in the window is there in order. *)
LEMMA SendSearching ==
  ASSUME UartInv, ResyncInv, Send, state = "WaitHead"
  PROVE  ResyncInv'
  <1>1. UartTypes /\ CountedFrames /\ Onward /\ ByteComes(Current)
    BY DEF UartInv, ResyncInv, Send
  <1>2. /\ HeaderLen \in Nat \ {0} /\ PayloadLen \in Nat \ {0} /\ FrameLen = HeaderLen + PayloadLen
        /\ FrameLen \in Nat /\ atByte \in 0 .. (FrameLen - 1)
    BY <1>1, UartNumbers
  <1>3. irq = FALSE
    BY <1>1 DEF Send, InTime, UartTypes
  <1>4. /\ irq' = TRUE /\ UNCHANGED <<state, hdrIdx, isr>>
        /\ rx' = [rx EXCEPT ![hdrIdx] = Current]
    BY <1>1, <1>3, ByteInSearch
  <1>5. hdrIdx \in 0 .. (HeaderLen - 1) /\ missed \in 0 .. 4
    BY <1>1 DEF CountedFrames
  <1>6. /\ missed <= 3
        /\ missed = 3 => /\ atByte < HeaderLen
                         /\ \A d \in 1 .. atByte : rx[Window(d)] = Header[atByte - d + 1]
    BY <1>3 DEF ResyncInv, Looking
  <1>7. /\ missed' \in 0 .. 4 /\ (missed' # 0 => whole' = TRUE) /\ whole' \in BOOLEAN
        /\ missed' = IF whole /\ atByte + 1 = FrameLen THEN missed + 1 ELSE missed
    BY <1>1, <1>6, OneMoreSent
  <1>8. atByte' = IF atByte + 1 = FrameLen THEN 0 ELSE atByte + 1
    BY <1>1, SentMoves
  <1>9. rx'[hdrIdx] = Current /\ \A s \in 0 .. (FrameLen - 1) : s # hdrIdx => rx'[s] = rx[s]
    BY <1>1, <1>2, <1>4, <1>5 DEF UartTypes, BufferPlaces
  <1>10. rx'[hdrIdx'] = Sent(1)'
    BY <1>1, <1>4, <1>9, SentMoves
  <1>11. missed' <= 3
    BY <1>2, <1>5, <1>6, <1>7
  <1>12. ASSUME missed' = 3
         PROVE  /\ atByte' <= HeaderLen
                /\ \A d \in 1 .. atByte' : rx'[Window(d)'] = Header[atByte' - d + 1]
    <2>1. CASE missed = 3
      <3>1. atByte < HeaderLen /\ atByte' = atByte + 1
        BY <1>2, <1>6, <1>8, <2>1
      <3>2. Current = Header[atByte + 1]
        <4>1. Header \in Seq(Bytes) /\ Len(Header) = HeaderLen
          BY UartAssumption DEF HeaderLen
        <4>2. frame \in Seq(Bytes)
          BY <1>1, <1>2, UartAssumption DEF UartTypes
        <4>. QED BY <1>2, <3>1, <4>1, <4>2 DEF Current
      <3>3. ASSUME NEW d \in 1 .. atByte' PROVE rx'[Window(d)'] = Header[atByte' - d + 1]
        <4>1. CASE d = 1
          <5>1. Window(1)' = hdrIdx
            BY <1>4, <1>5 DEF Window
          <5>2. atByte' - 1 + 1 = atByte + 1
            BY <1>2, <3>1
          <5>. QED BY <1>9, <3>2, <4>1, <5>1, <5>2
        <4>2. CASE d # 1
          <5>1. PICK e \in 1 .. atByte : d = e + 1
            <6>1. d - 1 \in 1 .. atByte /\ d = (d - 1) + 1
              BY <1>2, <3>1, <4>2
            <6>. QED BY <6>1
          <5>2. /\ Window(d)' = Window(e) /\ Window(e) # hdrIdx
                /\ Window(e) \in 0 .. (FrameLen - 1)
            BY <1>2, <1>3, <1>4, <1>5, <3>1, <5>1 DEF Window
          <5>3. rx[Window(e)] = Header[atByte - e + 1]
            BY <1>6, <2>1
          <5>4. atByte' - d + 1 = atByte - e + 1
            BY <1>2, <3>1, <5>1
          <5>. QED BY <1>9, <5>2, <5>3, <5>4
        <4>. QED BY <4>1, <4>2
      <3>. QED BY <1>2, <3>1, <3>3
    <2>2. CASE missed # 3
      <3>1. atByte' = 0
        BY <1>2, <1>5, <1>7, <1>8, <1>12, <2>2
      <3>. QED BY <1>2, <3>1
    <2>. QED BY <2>1, <2>2
  <1>13. Looking'
    BY <1>4, <1>10, <1>11, <1>12 DEF Looking
  <1>14. CountedFrames' /\ Beginning' /\ Following'
    BY <1>4, <1>5, <1>7 DEF CountedFrames, Beginning, Following
  <1>. QED BY <1>13, <1>14 DEF ResyncInv

(* A byte of the first frame comes. *)
LEMMA SendBeginning ==
  ASSUME UartInv, ResyncInv, Send, state = "Receiving"
  PROVE  ResyncInv'
  <1>1. UartTypes /\ CountedFrames /\ Onward /\ ByteComes(Current)
    BY DEF UartInv, ResyncInv, Send
  <1>2. /\ HeaderLen \in Nat \ {0} /\ PayloadLen \in Nat \ {0} /\ FrameLen = HeaderLen + PayloadLen
        /\ FrameLen \in Nat /\ atByte \in 0 .. (FrameLen - 1)
    BY <1>1, UartNumbers
  <1>3. irq = FALSE
    BY <1>1 DEF Send, InTime, UartTypes
  <1>4. /\ hal = [mode |-> "dma", base |-> HeaderLen, len |-> PayloadLen, pos |-> hal.pos]
        /\ hal.pos \in 0 .. (PayloadLen - 1)
        /\ interrupted => Undisturbed <= hal.pos
        /\ ~interrupted => missed <= 3
    BY <1>3 DEF ResyncInv, Beginning
  <1>5. PICK p \in 0 .. (PayloadLen - 1) : p = hal.pos
    BY <1>4
  <1>6. PICK h \in Nat : h = HeaderLen
    BY <1>2
  <1>7. /\ hal' = [mode |-> "dma", base |-> HeaderLen, len |-> PayloadLen, pos |-> hal'.pos]
        /\ hal'.pos = (IF p + 1 = PayloadLen THEN 0 ELSE p + 1)
        /\ irq' = IF p + 1 = PayloadLen THEN TRUE ELSE (irq \/ FALSE)
        /\ UNCHANGED <<hdrIdx, state>>
    <2>1. hal = [mode |-> "dma", base |-> h, len |-> PayloadLen, pos |-> p]
      BY <1>4, <1>5, <1>6
    <2>2. /\ hal' = [mode |-> "dma", base |-> h, len |-> PayloadLen, pos |-> hal'.pos]
          /\ hal'.pos = (IF p + 1 = PayloadLen THEN 0 ELSE p + 1)
      BY <1>1, <1>2, <2>1, DmaStores
    <2>3. irq' = IF p + 1 = PayloadLen THEN TRUE ELSE (irq \/ FALSE)
      BY <1>1, <1>2, <2>1, DmaStores
    <2>4. UNCHANGED <<hdrIdx, state>>
      BY <1>1 DEF ByteComes
    <2>. QED BY <1>6, <2>2, <2>3, <2>4
  <1>8. irq' = IF p + 1 = PayloadLen THEN TRUE ELSE FALSE
    BY <1>3, <1>7
  <1>9. hal'.pos \in 0 .. (PayloadLen - 1)
    BY <1>2, <1>7
  <1>10. interrupted' = interrupted
    BY DEF Send
  <1>11. Undisturbed \in Nat /\ (Undisturbed < FrameLen => missed = 0) /\ missed \in 0 .. 4
    BY <1>1, UndisturbedCounts DEF CountedFrames
  <1>12. missed <= 3
    BY <1>2, <1>4, <1>5, <1>11
  <1>13. /\ Undisturbed' <= Undisturbed + 1 /\ Undisturbed' \in Nat
         /\ missed' \in 0 .. 4 /\ (missed' # 0 => whole' = TRUE) /\ whole' \in BOOLEAN
         /\ missed' = IF whole /\ atByte + 1 = FrameLen THEN missed + 1 ELSE missed
    BY <1>1, <1>12, OneMoreSent
  <1>14. interrupted => Undisturbed' <= IF irq' THEN PayloadLen ELSE hal'.pos
    BY <1>2, <1>4, <1>5, <1>7, <1>8, <1>11, <1>13
  <1>15. ~interrupted => missed' <= IF irq' THEN 4 ELSE 3
    <2>1. ASSUME ~interrupted, p + 1 # PayloadLen PROVE missed' <= 3
      <3>1. atByte = HeaderLen + p
        BY <1>3, <1>5, <2>1 DEF UartInv, FirstFrame
      <3>. QED BY <1>2, <1>12, <1>13, <2>1, <3>1
    <2>2. p + 1 = PayloadLen => irq' = TRUE
      BY <1>8
    <2>. QED BY <1>13, <2>1, <2>2
  <1>16. CountedFrames' /\ Looking' /\ Following'
    BY <1>1, <1>7, <1>13 DEF CountedFrames, Looking, Following
  <1>17. Beginning'
    BY <1>7, <1>9, <1>10, <1>14, <1>15 DEF Beginning
  <1>. QED BY <1>16, <1>17 DEF ResyncInv

(* A byte of a whole frame comes: what is known of the round is known of one byte more. *)
LEMMA SendFollowing ==
  ASSUME UartInv, ResyncInv, Send, state = "DMAActive"
  PROVE  ResyncInv'
  <1>1. UartTypes /\ CountedFrames /\ Onward /\ ByteComes(Current)
    BY DEF UartInv, ResyncInv, Send
  <1>2. /\ HeaderLen \in Nat \ {0} /\ PayloadLen \in Nat \ {0} /\ FrameLen = HeaderLen + PayloadLen
        /\ FrameLen \in Nat \ {0} /\ atByte \in 0 .. (FrameLen - 1) /\ lag \in Nat /\ irq \in BOOLEAN
    BY <1>1, UartNumbers
  <1>3. irq \/ isr = "decode" => lag < HeaderLen
    BY DEF Send, InTime
  <1>4. /\ hal = [mode |-> "dma", base |-> 0, len |-> FrameLen, pos |-> hal.pos]
        /\ hal.pos \in 0 .. (FrameLen - 1)
        /\ interrupted => Round1 \/ Round2 \/ Round3 \/ Round4
        /\ ~interrupted /\ isr # "decode" => missed <= IF irq THEN 1 ELSE 0
    BY DEF ResyncInv, Following
  <1>5. PICK p \in 0 .. (FrameLen - 1) : p = hal.pos
    BY <1>4
  <1>6. /\ rx' = [rx EXCEPT ![p] = Current]
        /\ hal' = [mode |-> "dma", base |-> 0, len |-> FrameLen, pos |-> hal'.pos]
        /\ hal'.pos = (IF p + 1 = FrameLen THEN 0 ELSE p + 1)
        /\ irq' = IF p + 1 = FrameLen THEN TRUE ELSE (irq \/ FALSE)
        /\ lag' = (IF irq \/ isr = "decode" THEN lag + 1 ELSE 0)
        /\ UNCHANGED <<hdrIdx, state, isr>>
    <2>1. PICK zero \in Nat : zero = 0
      OBVIOUS
    <2>2. hal = [mode |-> "dma", base |-> zero, len |-> FrameLen, pos |-> p]
      BY <1>4, <1>5, <2>1
    <2>3. zero + p = p
      BY <2>1
    <2>4. /\ rx' = [rx EXCEPT ![zero + p] = Current]
          /\ hal' = [mode |-> "dma", base |-> zero, len |-> FrameLen, pos |-> hal'.pos]
          /\ hal'.pos = (IF p + 1 = FrameLen THEN 0 ELSE p + 1)
          /\ irq' = IF p + 1 = FrameLen THEN TRUE ELSE (irq \/ FALSE)
          /\ lag' = (IF irq \/ isr = "decode" THEN lag + 1 ELSE 0)
          /\ UNCHANGED <<hdrIdx, state, isr>>
      <3>1. FrameLen \in Nat \ {0}
        BY <1>2
      <3>2. rx' = [rx EXCEPT ![zero + p] = Current]
        <4>1. hal.mode = "dma" /\ hal.base = zero /\ hal.pos = p /\ hal # Ready
          BY <2>2 DEF Ready
        <4>. QED BY <1>1, <4>1 DEF ByteComes
      <3>3. /\ hal' = [mode |-> "dma", base |-> zero, len |-> FrameLen, pos |-> hal'.pos]
            /\ hal'.pos = (IF p + 1 = FrameLen THEN 0 ELSE p + 1)
        BY <1>1, <2>2, <3>1, DmaStores
      <3>4. irq' = IF p + 1 = FrameLen THEN TRUE ELSE (irq \/ FALSE)
        BY <1>1, <2>2, <3>1, DmaStores
      <3>5. lag' = (IF irq \/ isr = "decode" THEN lag + 1 ELSE 0) /\ UNCHANGED <<hdrIdx, state, isr>>
        BY <1>1 DEF ByteComes
      <3>. QED BY <3>2, <3>3, <3>4, <3>5
    <2>. QED BY <2>1, <2>3, <2>4
  <1>7. irq' = IF p + 1 = FrameLen THEN TRUE ELSE irq
    BY <1>2, <1>6
  <1>8. hal'.pos \in 0 .. (FrameLen - 1)
    BY <1>2, <1>6
  <1>9. lag' \in Nat /\ lag' <= HeaderLen
    BY <1>2, <1>3, <1>6
  <1>10. interrupted' = interrupted
    BY DEF Send
  <1>11. /\ Undisturbed \in Nat /\ missed \in 0 .. 4
         /\ Undisturbed < 3 * FrameLen => missed <= 2
    BY <1>1, UndisturbedCounts DEF CountedFrames
  <1>12. /\ atByte' = IF atByte + 1 = FrameLen THEN 0 ELSE atByte + 1
         /\ atByte + 1 # FrameLen => last' = last
    BY <1>1, SentMoves
  <1>13. CASE ~interrupted
    <2>1. p = atByte /\ (irq \/ isr = "decode" => lag = atByte)
      <3>1. /\ hal = [mode |-> "dma", base |-> 0, len |-> FrameLen, pos |-> atByte]
            /\ irq \/ isr = "decode" => lag = atByte
        BY <1>13 DEF UartInv, WholeFrames
      <3>. QED BY <1>5, <3>1
    <2>2. irq \/ isr = "decode" => atByte + 1 # FrameLen
      BY <1>2, <1>3, <2>1
    <2>3. missed <= 3 \/ atByte + 1 # FrameLen
      BY <1>4, <1>11, <1>13, <2>2
    <2>4. /\ missed' \in 0 .. 4 /\ (missed' # 0 => whole' = TRUE) /\ whole' \in BOOLEAN
          /\ missed' = IF whole /\ atByte + 1 = FrameLen THEN missed + 1 ELSE missed
      BY <1>1, <2>3, OneMoreSent
    <2>5. isr # "decode" => missed' <= IF irq' THEN 1 ELSE 0
      <3>1. SUFFICES ASSUME isr # "decode" PROVE missed' <= IF irq' THEN 1 ELSE 0
        OBVIOUS
      <3>2. CASE irq = TRUE
        <4>1. irq' = TRUE /\ missed <= 1 /\ missed' = missed
          BY <1>4, <1>7, <1>13, <2>2, <2>4, <3>1, <3>2
        <4>. QED BY <4>1
      <3>3. CASE irq = FALSE
        <4>1. missed = 0
          BY <1>4, <1>11, <1>13, <3>1, <3>3
        <4>2. p + 1 = FrameLen => irq' = TRUE /\ missed' <= 1
          BY <1>7, <2>4, <4>1
        <4>3. p + 1 # FrameLen => missed' = 0
          BY <2>1, <2>4, <4>1
        <4>. QED BY <2>4, <4>2, <4>3
      <3>. QED BY <1>2, <3>2, <3>3
    <2>6. CountedFrames' /\ Looking' /\ Beginning'
      BY <1>1, <1>6, <2>4 DEF CountedFrames, Looking, Beginning
    <2>7. Following'
      BY <1>6, <1>8, <1>10, <1>13, <2>5 DEF Following
    <2>. QED BY <2>6, <2>7 DEF ResyncInv
  <1>14. CASE interrupted
    <2>1. Undisturbed <= 2 * FrameLen + p
      <3>1. CASE Round1
        BY <1>2, <1>5, <1>11, <3>1 DEF Round1
      <3>2. CASE Round2
        BY <1>2, <1>5, <1>11, <3>2 DEF Round2
      <3>3. CASE Round3
        BY <1>5, <3>3 DEF Round3
      <3>4. CASE Round4
        BY <1>5, <3>4 DEF Round4
      <3>. QED BY <1>4, <1>14, <3>1, <3>2, <3>3, <3>4
    <2>2. missed <= 3
      BY <1>2, <1>11, <2>1
    <2>3. /\ Undisturbed' <= Undisturbed + 1 /\ Undisturbed' \in Nat
          /\ missed' \in 0 .. 4 /\ (missed' # 0 => whole' = TRUE) /\ whole' \in BOOLEAN
      BY <1>1, <2>2, OneMoreSent
    <2>4. /\ Holds(p, 1)'
          /\ \A d \in 1 .. (FrameLen - 1), s \in 0 .. (FrameLen - 1) :
               s # p /\ Holds(s, d) => Holds(s, d + 1)'
      BY <1>1, <1>6, HoldsOneLater
    <2>5. ASSUME Round1 PROVE Round1' \/ Round2'
      <3>1. Undisturbed <= p
        BY <1>5, <2>5 DEF Round1
      <3>2. CASE p + 1 = FrameLen
        <4>1. hal'.pos = 0
          BY <1>6, <3>2
        <4>2. Round'
          BY <4>1 DEF Round
        <4>3. Undisturbed' <= FrameLen + hal'.pos
          BY <1>2, <1>11, <2>3, <3>1, <3>2, <4>1
        <4>. QED BY <4>2, <4>3 DEF Round2
      <3>3. CASE p + 1 # FrameLen
        <4>1. Undisturbed' <= hal'.pos
          BY <1>2, <1>6, <1>11, <2>3, <3>1, <3>3
        <4>. QED BY <4>1 DEF Round1
      <3>. QED BY <3>2, <3>3
    <2>6. ASSUME Round2 PROVE Round2' \/ Round3'
      <3>1. Undisturbed <= FrameLen + p /\ \A d \in 1 .. p : Holds(p - d, d)
        BY <1>5, <2>6 DEF Round2, Round
      <3>2. ASSUME NEW d \in 1 .. (p + 1) PROVE Holds(p + 1 - d, d)'
        <4>1. CASE d = 1
          <5>1. p + 1 - 1 = p
            OBVIOUS
          <5>. QED BY <2>4, <4>1, <5>1
        <4>2. CASE d # 1
          <5>1. PICK e \in 1 .. p : d = e + 1
            <6>1. d - 1 \in 1 .. p /\ d = (d - 1) + 1
              BY <4>2
            <6>. QED BY <6>1
          <5>2. /\ p + 1 - d = p - e /\ p - e # p /\ p - e \in 0 .. (FrameLen - 1)
                /\ e \in 1 .. (FrameLen - 1)
            BY <1>2, <5>1
          <5>3. Holds(p - e, e)
            BY <3>1
          <5>. QED BY <2>4, <5>1, <5>2, <5>3
        <4>. QED BY <4>1, <4>2
      <3>3. CASE p + 1 = FrameLen
        <4>1. hal'.pos = 0 /\ irq' = TRUE
          BY <1>6, <1>7, <3>3
        <4>2. ASSUME NEW d \in 1 .. FrameLen PROVE Holds(Behind(d), d)'
          <5>1. Behind(d)' = p + 1 - d
            BY <1>2, <3>3, <4>1 DEF Behind
          <5>2. d \in 1 .. (p + 1)
            BY <3>3
          <5>3. Holds(p + 1 - d, d)'
            BY <3>2, <5>2
          <5>. QED BY <5>1, <5>3 DEF Holds, Behind
        <4>3. WholeRound'
          BY <4>2 DEF WholeRound
        <4>4. Undisturbed' <= 2 * FrameLen + hal'.pos
          BY <1>2, <1>11, <2>3, <3>1, <3>3, <4>1
        <4>5. hal'.pos <= lag' /\ lag' <= HeaderLen
          BY <1>9, <4>1
        <4>. QED BY <4>1, <4>3, <4>4, <4>5 DEF Round3
      <3>4. CASE p + 1 # FrameLen
        <4>1. hal'.pos = p + 1
          BY <1>6, <3>4
        <4>2. Round'
          BY <3>2, <4>1 DEF Round
        <4>3. Undisturbed' <= FrameLen + hal'.pos
          BY <1>2, <1>11, <2>3, <3>1, <4>1
        <4>. QED BY <4>2, <4>3 DEF Round2
      <3>. QED BY <3>3, <3>4
    <2>7. ASSUME Round3 PROVE Round3'
      <3>1. /\ irq = TRUE /\ Undisturbed <= 2 * FrameLen + p /\ p <= lag
            /\ \A d \in 1 .. FrameLen : Holds(Behind(d), d)
        BY <1>2, <1>5, <2>7 DEF Round3, WholeRound
      <3>2. lag < HeaderLen /\ lag' = lag + 1
        BY <1>3, <1>6, <3>1
      <3>3. p + 1 # FrameLen /\ hal'.pos = p + 1 /\ irq' = TRUE
        <4>1. p + 1 # FrameLen
          BY <1>2, <3>1, <3>2
        <4>. QED BY <1>6, <1>7, <3>1, <4>1
      <3>4. ASSUME NEW d \in 1 .. FrameLen PROVE Holds(Behind(d), d)'
        <4>1. CASE d = 1
          <5>1. Behind(1)' = p
            BY <3>3 DEF Behind
          <5>. QED BY <2>4, <4>1, <5>1 DEF Holds, Behind
        <4>2. CASE d # 1
          <5>1. PICK e \in 1 .. (FrameLen - 1) : d = e + 1
            <6>1. d - 1 \in 1 .. (FrameLen - 1) /\ d = (d - 1) + 1
              BY <1>2, <4>2
            <6>. QED BY <6>1
          <5>2. Behind(d)' = Behind(e) /\ Behind(e) # p /\ Behind(e) \in 0 .. (FrameLen - 1)
            BY <1>2, <1>5, <3>3, <5>1 DEF Behind
          <5>3. PICK s \in 0 .. (FrameLen - 1) : s = Behind(e)
            BY <5>2
          <5>4. Holds(s, d)'
            <6>1. e \in 1 .. FrameLen
              BY <1>2
            <6>2. Holds(s, e)
              BY <3>1, <5>3, <6>1
            <6>. QED BY <2>4, <5>1, <5>2, <5>3, <6>2
          <5>. QED BY <5>2, <5>3, <5>4 DEF Holds, Behind
        <4>. QED BY <4>1, <4>2
      <3>5. WholeRound'
        BY <3>4 DEF WholeRound
      <3>6. Undisturbed' <= 2 * FrameLen + hal'.pos /\ hal'.pos <= lag' /\ lag' <= HeaderLen
        BY <1>2, <1>9, <1>11, <2>3, <3>1, <3>2, <3>3
      <3>. QED BY <3>3, <3>5, <3>6 DEF Round3
    <2>8. ASSUME Round4 PROVE Round4'
      <3>1. /\ isr = "decode" /\ irq = FALSE /\ Undisturbed <= 2 * FrameLen + p
            /\ Payload = last /\ p = atByte /\ p <= lag
        BY <1>5, <2>8 DEF Round4
      <3>2. lag < HeaderLen /\ lag' = lag + 1
        BY <1>3, <1>6, <3>1
      <3>3. p + 1 # FrameLen /\ hal'.pos = p + 1 /\ irq' = FALSE /\ p < HeaderLen
        <4>1. p + 1 # FrameLen /\ p < HeaderLen
          BY <1>2, <3>1, <3>2
        <4>. QED BY <1>6, <1>7, <3>1, <4>1
      <3>4. Payload' = last'
        <4>1. \A i \in 1 .. PayloadLen : rx'[HeaderLen + i - 1] = rx[HeaderLen + i - 1]
          BY <1>1, <1>2, <1>6, <3>3 DEF UartTypes, BufferPlaces
        <4>2. Payload' = Payload
          BY <4>1 DEF Payload
        <4>. QED BY <1>12, <3>1, <3>3, <4>2
      <3>5. Undisturbed' <= 2 * FrameLen + hal'.pos /\ hal'.pos <= lag' /\ lag' <= HeaderLen
            /\ hal'.pos = atByte'
        BY <1>2, <1>9, <1>11, <1>12, <2>3, <3>1, <3>2, <3>3
      <3>. QED BY <1>6, <3>1, <3>3, <3>4, <3>5 DEF Round4
    <2>9. CountedFrames' /\ Looking' /\ Beginning'
      BY <1>1, <1>6, <2>3 DEF CountedFrames, Looking, Beginning
    <2>10. Round1' \/ Round2' \/ Round3' \/ Round4'
      BY <1>4, <1>14, <2>5, <2>6, <2>7, <2>8
    <2>11. Following'
      BY <1>6, <1>8, <1>10, <1>14, <2>10 DEF Following
    <2>. QED BY <2>9, <2>11 DEF ResyncInv
  <1>. QED BY <1>13, <1>14

(* The sender sends on, whatever the receiver does. *)
LEMMA SendResyncs ==
  ASSUME UartInv, ResyncInv, Send
  PROVE  ResyncInv'
  <1>1. CASE state = "Stopped"
    <2>1. ByteComes(Current) /\ UNCHANGED <<state, hdrIdx>>
      BY DEF Send, ByteComes
    <2>2. missed' = missed
      BY <1>1 DEF Send
    <2>3. whole' \in BOOLEAN
      <3>1. whole' = (whole \/ atByte + 1 = FrameLen)
        BY DEF Send
      <3>. QED BY <3>1, Zenon
    <2>4. CountedFrames' /\ Looking' /\ Beginning' /\ Following'
      BY <1>1, <2>1, <2>2, <2>3 DEF ResyncInv, CountedFrames, Looking, Beginning, Following
    <2>. QED BY <2>4 DEF ResyncInv
  <1>. QED BY <1>1, SendSearching, SendBeginning, SendFollowing DEF UartInv, UartTypes

(* The inductive invariant of the receiver's finding the frames again, for every header that    *)
(* stands out, every frame length and any number of disturbances.                               *)
THEOREM ResyncInvariance == HeaderStandsOut => (UartSpec => []ResyncInv)
  <1>. SUFFICES ASSUME HeaderStandsOut PROVE UartSpec => []ResyncInv
    OBVIOUS
  <1>1. UartInit => ResyncInv
    <2>1. SUFFICES ASSUME UartInit PROVE ResyncInv
      OBVIOUS
    <2>2. HeaderLen \in Nat \ {0}
      BY UartAssumption DEF HeaderLen
    <2>. QED BY <2>1, <2>2 DEF UartInit, ResyncInv, CountedFrames, Looking, Beginning, Following
  <1>2. UartInv /\ ResyncInv /\ UNCHANGED uartVars => ResyncInv'
    <2>1. SUFFICES ASSUME ResyncInv, UNCHANGED uartVars PROVE ResyncInv'
      OBVIOUS
    <2>2. UNCHANGED <<rx, hdrIdx, state, hal, irq, isr, lag>>
          /\ UNCHANGED <<frame, atByte, last, whole, interrupted, missed>>
      BY <2>1 DEF uartVars, receiver, line
    <2>3. Undisturbed' = Undisturbed /\ Payload' = Payload
      BY <2>2 DEF Undisturbed, Payload
    <2>4. CountedFrames' /\ Beginning'
      BY <2>1, <2>2, <2>3 DEF ResyncInv, CountedFrames, Beginning
    <2>5. Looking'
      BY <2>1, <2>2, <2>3 DEF ResyncInv, Looking, Window, Sent
    <2>6. Round' = Round /\ WholeRound' = WholeRound
      BY <2>2 DEF Round, WholeRound, Behind, Holds, Sent
    <2>7. Round1' = Round1 /\ Round2' = Round2 /\ Round3' = Round3 /\ Round4' = Round4
      BY <2>2, <2>3, <2>6 DEF Round1, Round2, Round3, Round4
    <2>8. Following'
      BY <2>1, <2>2, <2>7 DEF ResyncInv, Following
    <2>. QED BY <2>4, <2>5, <2>8 DEF ResyncInv
  <1>3. UartInv /\ ResyncInv /\ [UartNext]_uartVars => ResyncInv'
    BY <1>2, NoiseResyncs, SendResyncs, SearchResyncs, DecodeResyncs DEF UartNext
  <1>. QED BY <1>1, <1>3, UartInvariance, PTL DEF UartSpec

(* Of five undisturbed frames in a row one is decoded (receiveCallback(), check_header() and    *)
(* errorHandler() together), when the header cannot be mistaken.                                *)
THEOREM ResyncsThm == UartSpec => []Resyncs
  <1>1. CASE HeaderStandsOut
    <2>1. ResyncInv => Resyncs
      BY DEF ResyncInv, CountedFrames, Resyncs
    <2>. QED BY <1>1, <2>1, ResyncInvariance, PTL
  <1>2. CASE ~HeaderStandsOut
    <2>1. Resyncs
      BY <1>2 DEF Resyncs
    <2>. QED BY <2>1, PTL
  <1>. QED BY <1>1, <1>2
=============================================================================
