------------------------- MODULE EventBufferProofs -------------------------
(***************************************************************************)
(* Proofs about the event ring, for every capacity, every width of the     *)
(* sequence numbers and every set of payloads.                             *)
(***************************************************************************)
EXTENDS EventBuffer, TLAPS

(* The slot an offset of at most the capacity names. *)
LEMMA RingIndex ==
  ASSUME NEW C \in Nat \ {0}, NEW h \in 0..(C - 1), NEW i \in 0..C
  PROVE  (h + i) % C = IF h + i < C THEN h + i ELSE h + i - C
<1>1. CASE h + i < C
  BY <1>1, SMT
<1>2. CASE h + i >= C
  BY <1>2, SMT
<1> QED
  BY <1>1, <1>2

(* Moving the head by k and then reading the i-th slot is reading slot k+i. *)
LEMMA RingShift ==
  ASSUME NEW C \in Nat \ {0}, NEW h \in 0..(C - 1),
         NEW k \in 0..C, NEW i \in 0..(C - 1), k + i <= C
  PROVE  (((h + k) % C) + i) % C = (h + (k + i)) % C
<1>1. (h + k) % C = IF h + k < C THEN h + k ELSE h + k - C
  BY RingIndex
<1>2. (h + (k + i)) % C = IF h + (k + i) < C THEN h + (k + i) ELSE h + (k + i) - C
  <2>1. k + i \in 0..C
    OBVIOUS
  <2> QED
    BY <2>1, RingIndex
<1>3. (h + k) % C \in 0..(C - 1) /\ i \in 0..C
  BY <1>1
<1>4. (((h + k) % C) + i) % C
        = IF ((h + k) % C) + i < C THEN ((h + k) % C) + i ELSE ((h + k) % C) + i - C
  BY <1>3, RingIndex
<1> QED
  BY <1>1, <1>2, <1>4

(* Two different offsets below the capacity name two different slots. *)
LEMMA RingInjective ==
  ASSUME NEW C \in Nat \ {0}, NEW h \in 0..(C - 1),
         NEW i \in 0..(C - 1), NEW j \in 0..(C - 1), i # j
  PROVE  (h + i) % C # (h + j) % C
<1>1. i \in 0..C /\ j \in 0..C
  OBVIOUS
<1>2. (h + i) % C = IF h + i < C THEN h + i ELSE h + i - C
  BY <1>1, RingIndex
<1>3. (h + j) % C = IF h + j < C THEN h + j ELSE h + j - C
  BY <1>1, RingIndex
<1> QED
  BY <1>2, <1>3

(* A slot index is an index of the array. *)
LEMMA SlotInRange ==
  ASSUME NEW C \in Nat \ {0}, NEW x \in Nat
  PROVE  x % C \in 0..(C - 1)
BY SMT

Inv == TypeOK /\ ContiguousWindow

LEMMA InitInv == Init => Inv
<1> USE BufferAssumption
<1> SUFFICES ASSUME Init PROVE Inv
  OBVIOUS
<1>1. TypeOK
  BY DEF Init, TypeOK, Slots, DeviceEvent
<1>2. ContiguousWindow
  BY DEF Init, ContiguousWindow, Issued
<1> QED
  BY <1>1, <1>2 DEF Inv

(* What giving out the next number does to the sequence fields. *)
LEMMA TakeSequenceStep ==
  ASSUME TypeOK, ContiguousWindow, sequenceAvailable, TakeSequence
  PROVE  /\ nextSequence' \in 1..MaxSeq
         /\ sequenceAvailable' \in BOOLEAN
         /\ ~sequenceAvailable' => nextSequence' = MaxSeq
         /\ Issued = nextSequence - 1
         /\ Issued' = nextSequence
         /\ nextSequence \in 1..MaxSeq
<1> USE BufferAssumption
<1>1. CASE nextSequence = MaxSeq
  BY <1>1 DEF TakeSequence, TypeOK, Issued
<1>2. CASE nextSequence # MaxSeq
  BY <1>2 DEF TakeSequence, TypeOK, Issued
<1> QED
  BY <1>1, <1>2

(* A drop keeps the counter within its width. *)
LEMMA WrapInRange == ASSUME TypeOK PROVE Wrap(dropped) \in 0..MaxSeq
<1>1. MaxSeq + 1 \in Nat \ {0} /\ dropped + 1 \in Nat
  BY BufferAssumption DEF TypeOK
<1>2. (dropped + 1) % (MaxSeq + 1) \in 0..((MaxSeq + 1) - 1)
  BY <1>1, SlotInRange
<1> QED
  BY <1>2, BufferAssumption DEF Wrap

(* Writing an event to a slot leaves an array of events. *)
LEMMA WriteKeepsType ==
  ASSUME TypeOK, NEW p \in Payload, NEW tail, WriteAt(tail, p)
  PROVE  events' \in [Slots -> DeviceEvent]
<1>1. PICK e \in DeviceEvent : events' = [events EXCEPT ![tail] = e]
  <2>1. [seq |-> nextSequence, payload |-> p] \in DeviceEvent
    BY BufferAssumption DEF TypeOK, DeviceEvent
  <2> QED
    BY <2>1 DEF WriteAt
<1>2. events \in [Slots -> DeviceEvent]
  BY DEF TypeOK
<1> QED
  BY <1>1, <1>2

(* append with room: the slots in use keep their events, the tail gets the new one. *)
LEMMA AppendRoomSlots ==
  ASSUME Inv, NEW p \in Payload, AppendRoom(p)
  PROVE  /\ Slot(count) \in Slots
         /\ \A i \in 0..(count - 1) : Get(i)' = Get(i)
         /\ events'[(head' + count) % Capacity]
              = [seq |-> nextSequence, payload |-> p]
<1> USE BufferAssumption
<1> USE DEF Inv
<1>1. count \in 0..(Capacity - 1) /\ head \in 0..(Capacity - 1) /\ head' = head
  BY DEF TypeOK, Slots, AppendRoom
<1>2. Slot(count) \in Slots
  BY <1>1, SlotInRange DEF Slot, Slots
<1>3. ASSUME NEW i \in 0..(count - 1) PROVE Get(i)' = Get(i)
  <2>1. i \in 0..(Capacity - 1) /\ i # count
    BY <1>1
  <2>2. Slot(i) # Slot(count)
    BY <1>1, <2>1, RingInjective DEF Slot
  <2>3. Slot(i) \in Slots
    <3>1. head + i \in Nat
      BY <1>1, <2>1
    <3> QED
      BY <3>1, SlotInRange DEF Slot, Slots
  <2> QED
    BY <1>1, <2>2, <2>3 DEF Get, Slot, AppendRoom, WriteAt, TypeOK
<1>4. events'[Slot(count)] = [seq |-> nextSequence, payload |-> p]
  BY <1>2 DEF AppendRoom, WriteAt, TypeOK
<1> QED
  BY <1>1, <1>2, <1>3, <1>4 DEF Slot

(* append into a full ring: every event moves one place towards the head. *)
LEMMA AppendFullSlots ==
  ASSUME Inv, NEW p \in Payload, AppendFull(p)
  PROVE  /\ head' \in Slots
         /\ (head' + (count - 1)) % Capacity = head
         /\ \A i \in 0..(count - 2) : Get(i)' = Get(i + 1)
         /\ events'[(head' + (count - 1)) % Capacity]
              = [seq |-> nextSequence, payload |-> p]
<1> USE BufferAssumption
<1> USE DEF Inv
<1>1. count = Capacity /\ count' = Capacity /\ head \in 0..(Capacity - 1)
  BY DEF TypeOK, Slots, AppendFull
<1>2. head' = IF head + 1 < Capacity THEN head + 1 ELSE head + 1 - Capacity
  <2>1. 1 \in 0..Capacity
    OBVIOUS
  <2> QED
    BY <1>1, <2>1, RingIndex DEF AppendFull, Slot
<1>3. head' \in 0..(Capacity - 1)
  BY <1>1, <1>2
<1>4. (head' + (Capacity - 1)) % Capacity = head
  <2>1. Capacity - 1 \in 0..Capacity
    OBVIOUS
  <2>2. (head' + (Capacity - 1)) % Capacity
          = IF head' + (Capacity - 1) < Capacity THEN head' + (Capacity - 1)
            ELSE head' + (Capacity - 1) - Capacity
    BY <1>3, <2>1, RingIndex
  <2> QED
    BY <1>1, <1>2, <2>2
<1>5. events' = [events EXCEPT ![head] = [seq |-> nextSequence, payload |-> p]]
  BY <1>1, <1>4 DEF AppendFull, WriteAt
<1>6. ASSUME NEW i \in 0..(count - 2) PROVE Get(i)' = Get(i + 1)
  <2>1. i \in 0..(Capacity - 1) /\ i + 1 \in 0..(Capacity - 1) /\ 1 + i = i + 1
    BY <1>1
  <2>2. (head' + i) % Capacity = (head + (i + 1)) % Capacity
    <3>1. head' = (head + 1) % Capacity
      BY DEF AppendFull, Slot
    <3>2. 1 \in 0..Capacity /\ 1 + i <= Capacity
      BY <2>1
    <3> QED
      BY <1>1, <2>1, <3>1, <3>2, RingShift
  <2>3. (head + (i + 1)) % Capacity # head
    <3>1. (head + (i + 1)) % Capacity
           = IF head + (i + 1) < Capacity THEN head + (i + 1)
             ELSE head + (i + 1) - Capacity
      <4>1. i + 1 \in 0..Capacity
        BY <2>1
      <4> QED
        BY <1>1, <4>1, RingIndex
    <3> QED
      BY <1>1, <2>1, <3>1
  <2>4. (head + (i + 1)) % Capacity \in Slots
    <3>1. head + (i + 1) \in Nat
      BY <1>1, <2>1
    <3> QED
      BY <3>1, SlotInRange DEF Slots
  <2> QED
    BY <1>5, <2>2, <2>3, <2>4 DEF Get, Slot, TypeOK
<1> QED
  BY <1>1, <1>3, <1>4, <1>5, <1>6 DEF Slots, TypeOK

(* acknowledgeThrough: what stays is what was behind the k removed events. *)
LEMMA AcknowledgeSlots ==
  ASSUME Inv, NEW k \in 0..count, head' = Slot(k), count' = count - k,
         UNCHANGED events
  PROVE  /\ head' \in Slots
         /\ \A i \in 0..(count - k - 1) : Get(i)' = Get(k + i)
<1> USE BufferAssumption
<1> USE DEF Inv
<1>1. count \in 0..Capacity /\ head \in 0..(Capacity - 1) /\ k \in 0..Capacity
  BY DEF TypeOK, Slots
<1>2. head' \in Slots
  <2>1. head + k \in Nat
    BY <1>1
  <2> QED
    BY <2>1, SlotInRange DEF Slot, Slots
<1>3. ASSUME NEW i \in 0..(count - k - 1) PROVE Get(i)' = Get(k + i)
  <2>1. i \in 0..(Capacity - 1) /\ k + i <= Capacity
    BY <1>1
  <2>2. (head' + i) % Capacity = (head + (k + i)) % Capacity
    BY <1>1, <2>1, RingShift DEF Slot
  <2> QED
    BY <2>2 DEF Get, Slot
<1> QED
  BY <1>2, <1>3

-----------------------------------------------------------------------------
(* Each operation keeps the invariant. *)

LEMMA AppendExhaustedInv ==
  ASSUME Inv, NEW p \in Payload, AppendExhausted(p) PROVE Inv'
<1> USE DEF Inv
<1>1. TypeOK'
  BY WrapInRange DEF TypeOK, AppendExhausted
<1>2. Issued' = Issued /\ \A i \in 0..(count - 1) : Get(i)' = Get(i)
  BY DEF AppendExhausted, Issued, Get, Slot
<1>3. ContiguousWindow'
  BY <1>2 DEF ContiguousWindow, AppendExhausted
<1> QED
  BY <1>1, <1>3

LEMMA AppendRoomInv ==
  ASSUME Inv, NEW p \in Payload, AppendRoom(p) PROVE Inv'
<1> USE BufferAssumption
<1>0. TypeOK /\ ContiguousWindow
  BY DEF Inv
<1>1. /\ nextSequence' \in 1..MaxSeq /\ sequenceAvailable' \in BOOLEAN
      /\ ~sequenceAvailable' => nextSequence' = MaxSeq
      /\ Issued = nextSequence - 1 /\ Issued' = nextSequence
      /\ nextSequence \in 1..MaxSeq
  BY <1>0, TakeSequenceStep DEF AppendRoom
<1>2. /\ Slot(count) \in Slots
      /\ \A i \in 0..(count - 1) : Get(i)' = Get(i)
      /\ events'[(head' + count) % Capacity] = [seq |-> nextSequence, payload |-> p]
  BY AppendRoomSlots
<1>3. count' = count + 1 /\ count \in 0..(Capacity - 1)
  BY <1>0 DEF AppendRoom, TypeOK
<1>4. TypeOK'
  <2>1. events' \in [Slots -> DeviceEvent]
    BY <1>0, WriteKeepsType DEF AppendRoom
  <2> QED
    BY <1>0, <1>1, <1>3, <2>1 DEF AppendRoom, TypeOK
<1>5. ContiguousWindow'
  <2>1. count' <= Issued'
    BY <1>0, <1>1, <1>3 DEF ContiguousWindow
  <2>2. ASSUME NEW i \in 0..(count' - 1)
        PROVE  Get(i)'.seq = Issued' - count' + 1 + i
    <3>1. CASE i = count
      <4>1. Get(i)'.seq = nextSequence
        BY <1>2, <3>1 DEF Get, Slot
      <4> QED
        BY <1>1, <1>3, <3>1, <4>1
    <3>2. CASE i # count
      <4>1. i \in 0..(count - 1)
        BY <1>3, <3>2
      <4>2. Get(i)'.seq = Issued - count + 1 + i
        BY <1>0, <1>2, <4>1 DEF ContiguousWindow
      <4> QED
        BY <1>1, <1>3, <4>2
    <3> QED
      BY <3>1, <3>2
  <2> QED
    BY <1>1, <2>1, <2>2 DEF ContiguousWindow
<1> QED
  BY <1>4, <1>5 DEF Inv

LEMMA AppendFullInv ==
  ASSUME Inv, NEW p \in Payload, AppendFull(p) PROVE Inv'
<1> USE BufferAssumption
<1>0. TypeOK /\ ContiguousWindow
  BY DEF Inv
<1>1. /\ nextSequence' \in 1..MaxSeq /\ sequenceAvailable' \in BOOLEAN
      /\ ~sequenceAvailable' => nextSequence' = MaxSeq
      /\ Issued = nextSequence - 1 /\ Issued' = nextSequence
      /\ nextSequence \in 1..MaxSeq
  BY <1>0, TakeSequenceStep DEF AppendFull
<1>2. /\ head' \in Slots
      /\ (head' + (count - 1)) % Capacity = head
      /\ \A i \in 0..(count - 2) : Get(i)' = Get(i + 1)
      /\ events'[(head' + (count - 1)) % Capacity]
           = [seq |-> nextSequence, payload |-> p]
  BY AppendFullSlots
<1>3. count' = count /\ count = Capacity /\ count \in Nat \ {0}
  BY <1>0 DEF AppendFull
<1>4. TypeOK'
  <2>1. events' \in [Slots -> DeviceEvent]
    BY <1>0, WriteKeepsType DEF AppendFull
  <2>2. dropped' \in 0..MaxSeq
    BY <1>0, WrapInRange DEF AppendFull
  <2> QED
    BY <1>0, <1>1, <1>2, <1>3, <2>1, <2>2 DEF AppendFull, TypeOK
<1>5. ContiguousWindow'
  <2>1. count' <= Issued'
    BY <1>0, <1>1, <1>3 DEF ContiguousWindow
  <2>2. ASSUME NEW i \in 0..(count' - 1)
        PROVE  Get(i)'.seq = Issued' - count' + 1 + i
    <3>1. CASE i = count - 1
      <4>1. Get(i)'.seq = nextSequence
        BY <1>2, <3>1 DEF Get, Slot
      <4> QED
        BY <1>1, <1>3, <3>1, <4>1
    <3>2. CASE i # count - 1
      <4>1. i \in 0..(count - 2) /\ i + 1 \in 0..(count - 1)
        BY <1>3, <3>2
      <4>2. Get(i)'.seq = Issued - count + 1 + (i + 1)
        BY <1>0, <1>2, <4>1 DEF ContiguousWindow
      <4> QED
        BY <1>1, <1>3, <4>2
    <3> QED
      BY <3>1, <3>2
  <2> QED
    BY <1>1, <2>1, <2>2 DEF ContiguousWindow
<1> QED
  BY <1>4, <1>5 DEF Inv

LEMMA AcknowledgeInv ==
  ASSUME Inv, NEW n \in 1..MaxSeq, AcknowledgeThrough(n) PROVE Inv'
<1> USE BufferAssumption
<1>0. TypeOK /\ ContiguousWindow
  BY DEF Inv
<1>1. PICK k \in 0..count : head' = Slot(k) /\ count' = count - k
  BY DEF AcknowledgeThrough
<1>2. UNCHANGED <<events, nextSequence, sequenceAvailable, dropped>>
  BY DEF AcknowledgeThrough
<1>3. /\ head' \in Slots
      /\ \A i \in 0..(count - k - 1) : Get(i)' = Get(k + i)
  BY <1>1, <1>2, AcknowledgeSlots
<1>4. TypeOK'
  <2>1. lastAcknowledged' \in 0..MaxSeq
    BY <1>0 DEF AcknowledgeThrough, TypeOK
  <2> QED
    BY <1>0, <1>1, <1>2, <1>3, <2>1 DEF TypeOK
<1>5. Issued' = Issued
  BY <1>2 DEF Issued
<1>6. ContiguousWindow'
  <2>1. count' <= Issued' /\ (~sequenceAvailable' => nextSequence' = MaxSeq)
    BY <1>0, <1>1, <1>2, <1>5 DEF ContiguousWindow, TypeOK, Issued
  <2>2. ASSUME NEW i \in 0..(count' - 1)
        PROVE  Get(i)'.seq = Issued' - count' + 1 + i
    <3>1. i \in 0..(count - k - 1) /\ k + i \in 0..(count - 1)
      BY <1>0, <1>1 DEF TypeOK
    <3>2. Get(i)'.seq = Issued - count + 1 + (k + i)
      BY <1>0, <1>3, <3>1 DEF ContiguousWindow
    <3>3. Issued \in Int /\ count \in Int /\ k \in Int /\ i \in Int
      BY <1>0, <3>1 DEF TypeOK, Issued
    <3> QED
      BY <1>1, <1>5, <3>2, <3>3
  <2> QED
    BY <2>1, <2>2 DEF ContiguousWindow
<1> QED
  BY <1>4, <1>6 DEF Inv

LEMMA NextInv == Inv /\ [Next]_vars => Inv'
<1> SUFFICES ASSUME Inv, [Next]_vars PROVE Inv'
  OBVIOUS
<1>1. ASSUME NEW p \in Payload, AppendExhausted(p) PROVE Inv'
  BY <1>1, AppendExhaustedInv
<1>2. ASSUME NEW p \in Payload, AppendRoom(p) PROVE Inv'
  BY <1>2, AppendRoomInv
<1>3. ASSUME NEW p \in Payload, AppendFull(p) PROVE Inv'
  BY <1>3, AppendFullInv
<1>4. ASSUME NEW n \in 1..MaxSeq, AcknowledgeThrough(n) PROVE Inv'
  BY <1>4, AcknowledgeInv
<1>5. CASE UNCHANGED vars
  BY <1>5 DEF Inv, TypeOK, ContiguousWindow, Issued, Get, Slot, vars
<1> QED
  BY <1>1, <1>2, <1>3, <1>4, <1>5 DEF Next

(* The ring's fields stay in range: no read or write leaves the array. *)
THEOREM RingTypeCorrect == Spec => []TypeOK
<1>1. Inv => TypeOK
  BY DEF Inv
<1> QED
  BY InitInv, NextInv, <1>1, PTL DEF Spec

(* The buffered events are a gap-free run of the newest numbers, in order. *)
THEOREM RingContiguous == Spec => []ContiguousWindow
<1>1. Inv => ContiguousWindow
  BY DEF Inv
<1> QED
  BY InitInv, NextInv, <1>1, PTL DEF Spec
-----------------------------------------------------------------------------
(* Each operation of the ring is the operation of the queue. *)

Mapped == [i \in 1..count |-> Get(i - 1)]

LEMMA MappedIsSeq ==
  ASSUME Inv
  PROVE  /\ Mapped \in Seq(DeviceEvent)
         /\ Len(Mapped) = count
         /\ count \in Nat
         /\ \A i \in 1..count : Mapped[i] = Get(i - 1)
<1> USE BufferAssumption
<1>1. count \in 0..Capacity /\ head \in 0..(Capacity - 1) /\ events \in [Slots -> DeviceEvent]
  BY DEF Inv, TypeOK, Slots
<1>2. ASSUME NEW i \in 1..count PROVE Get(i - 1) \in DeviceEvent
  <2>1. head + (i - 1) \in Nat
    BY <1>1
  <2>2. Slot(i - 1) \in Slots
    BY <2>1, SlotInRange DEF Slot, Slots
  <2> QED
    BY <1>1, <2>2 DEF Get
<1> QED
  BY <1>1, <1>2 DEF Mapped

LEMMA InitRefines == Init => Queue!Init
BY DEF Init, Queue!Init, Issued, Mapped

LEMMA AppendExhaustedRefines ==
  ASSUME Inv, NEW p \in Payload, AppendExhausted(p) PROVE Queue!Refuse(p)
<1>1. Mapped' = Mapped
  BY DEF Mapped, Get, Slot, AppendExhausted
<1> QED
  BY <1>1 DEF Queue!Refuse, Queue!DropCount, Wrap, AppendExhausted, Issued, Mapped, Get, Slot

LEMMA AppendRoomRefines ==
  ASSUME Inv, NEW p \in Payload, AppendRoom(p) PROVE Queue!Push(p)
<1> USE BufferAssumption
<1> DEFINE e == [seq |-> nextSequence, payload |-> p]
<1>0. TypeOK /\ ContiguousWindow /\ Inv'
  BY AppendRoomInv DEF Inv
<1>1. Issued = nextSequence - 1 /\ Issued' = nextSequence /\ nextSequence \in 1..MaxSeq
  BY <1>0, TakeSequenceStep DEF AppendRoom
<1>2. /\ \A i \in 0..(count - 1) : Get(i)' = Get(i)
      /\ events'[(head' + count) % Capacity] = e
  BY AppendRoomSlots
<1>3. count' = count + 1 /\ count \in Nat /\ count # Capacity
  BY <1>0 DEF AppendRoom, TypeOK
<1>4. Mapped \in Seq(DeviceEvent) /\ Len(Mapped) = count
      /\ \A i \in 1..count : Mapped[i] = Get(i - 1)
  BY MappedIsSeq
<1>5. Mapped' = Append(Mapped, e)
  <2>1. Mapped' = [i \in 1..(count + 1) |-> events'[(head' + (i - 1)) % Capacity]]
    BY <1>3 DEF Mapped, Get, Slot
  <2>2. Append(Mapped, e) = [i \in 1..(count + 1) |-> IF i = count + 1 THEN e ELSE Mapped[i]]
    BY <1>3, <1>4
  <2>3. ASSUME NEW i \in 1..(count + 1)
        PROVE  events'[(head' + (i - 1)) % Capacity]
                 = IF i = count + 1 THEN e ELSE Mapped[i]
    <3>1. CASE i = count + 1
      <4>1. i - 1 = count
        BY <1>3, <3>1
      <4> QED
        BY <1>2, <3>1, <4>1
    <3>2. CASE i # count + 1
      <4>1. i \in 1..count /\ i - 1 \in 0..(count - 1)
        BY <1>3, <3>2
      <4>2. events'[(head' + (i - 1)) % Capacity] = Get(i - 1)
        BY <1>2, <4>1 DEF Get, Slot
      <4> QED
        BY <1>4, <3>2, <4>1, <4>2
    <3> QED
      BY <3>1, <3>2
  <2> HIDE DEF e
  <2> QED
    BY <2>1, <2>2, <2>3
<1>6. Queue!Pushed(Mapped, e) = Append(Mapped, e)
  BY <1>3, <1>4 DEF Queue!Pushed
<1>7. e = [seq |-> Issued + 1, payload |-> p] /\ Issued < MaxSeq /\ Issued' = Issued + 1
  BY <1>1
<1>8. UNCHANGED <<dropped, lastAcknowledged>> /\ Len(Mapped) # Capacity
  BY <1>3, <1>4 DEF AppendRoom
<1> HIDE DEF e
<1>9. Mapped' = Queue!Pushed(Mapped, [seq |-> Issued + 1, payload |-> p])
  BY <1>5, <1>6, <1>7
<1> QED
  BY <1>7, <1>8, <1>9 DEF Queue!Push, Mapped

LEMMA AppendFullRefines ==
  ASSUME Inv, NEW p \in Payload, AppendFull(p) PROVE Queue!Push(p)
<1> USE BufferAssumption
<1> DEFINE e == [seq |-> nextSequence, payload |-> p]
<1>0. TypeOK /\ ContiguousWindow
  BY DEF Inv
<1>1. Issued = nextSequence - 1 /\ Issued' = nextSequence /\ nextSequence \in 1..MaxSeq
  BY <1>0, TakeSequenceStep DEF AppendFull
<1>2. /\ \A i \in 0..(count - 2) : Get(i)' = Get(i + 1)
      /\ events'[(head' + (count - 1)) % Capacity] = e
  BY AppendFullSlots
<1>3. count' = count /\ count \in Nat \ {0} /\ count = Capacity
  BY <1>0 DEF AppendFull, TypeOK
<1>4. Mapped \in Seq(DeviceEvent) /\ Len(Mapped) = count
      /\ \A i \in 1..count : Mapped[i] = Get(i - 1)
  BY MappedIsSeq
<1>5. Mapped' = Append(Tail(Mapped), e)
  <2>1. Mapped' = [i \in 1..count |-> events'[(head' + (i - 1)) % Capacity]]
    BY <1>3 DEF Mapped, Get, Slot
  <2>2. Tail(Mapped) \in Seq(DeviceEvent) /\ Len(Tail(Mapped)) = count - 1
        /\ \A i \in 1..(count - 1) : Tail(Mapped)[i] = Mapped[i + 1]
    BY <1>3, <1>4
  <2>3. Append(Tail(Mapped), e)
          = [i \in 1..count |-> IF i = count THEN e ELSE Tail(Mapped)[i]]
    BY <1>3, <2>2
  <2>4. ASSUME NEW i \in 1..count
        PROVE  events'[(head' + (i - 1)) % Capacity]
                 = IF i = count THEN e ELSE Tail(Mapped)[i]
    <3>1. CASE i = count
      BY <1>2, <3>1
    <3>2. CASE i # count
      <4>1. i \in 1..(count - 1) /\ i - 1 \in 0..(count - 2) /\ (i - 1) + 1 = i
            /\ i + 1 \in 1..count /\ (i + 1) - 1 = i
        BY <1>3, <3>2
      <4>2. events'[(head' + (i - 1)) % Capacity] = Get(i)
        BY <1>2, <4>1 DEF Get, Slot
      <4>3. Mapped[i + 1] = Get(i)
        BY <1>4, <4>1
      <4> QED
        BY <2>2, <3>2, <4>1, <4>2, <4>3
    <3> QED
      BY <3>1, <3>2
  <2> HIDE DEF e
  <2> QED
    BY <2>1, <2>3, <2>4
<1>6. Queue!Pushed(Mapped, e) = Append(Tail(Mapped), e)
  BY <1>3, <1>4 DEF Queue!Pushed
<1>7. e = [seq |-> Issued + 1, payload |-> p] /\ Issued < MaxSeq /\ Issued' = Issued + 1
  BY <1>1
<1>8. /\ Len(Mapped) = Capacity
      /\ dropped' = Queue!DropCount(dropped)
      /\ UNCHANGED lastAcknowledged
  BY <1>3, <1>4 DEF AppendFull, Wrap, Queue!DropCount
<1> HIDE DEF e
<1>9. Mapped' = Queue!Pushed(Mapped, [seq |-> Issued + 1, payload |-> p])
  BY <1>5, <1>6, <1>7
<1> QED
  BY <1>7, <1>8, <1>9 DEF Queue!Push, Mapped

LEMMA AcknowledgeRefines ==
  ASSUME Inv, NEW n \in 1..MaxSeq, AcknowledgeThrough(n) PROVE Queue!Acknowledge(n)
<1> USE BufferAssumption
<1>0. TypeOK /\ ContiguousWindow
  BY DEF Inv
<1>1. PICK k \in 0..count : StopsAfter(n, k) /\ head' = Slot(k) /\ count' = count - k
  BY DEF AcknowledgeThrough
<1>2. UNCHANGED <<events, nextSequence, sequenceAvailable, dropped>>
  BY DEF AcknowledgeThrough
<1>3. \A i \in 0..(count - k - 1) : Get(i)' = Get(k + i)
  BY <1>1, <1>2, AcknowledgeSlots
<1>4. Mapped \in Seq(DeviceEvent) /\ Len(Mapped) = count /\ count \in Nat
      /\ \A i \in 1..count : Mapped[i] = Get(i - 1)
  BY MappedIsSeq
<1>5. Issued \in Int
  BY <1>0 DEF TypeOK, Issued
<1>6. ASSUME NEW i \in 1..count PROVE Mapped[i].seq <= n <=> i <= k
  <2>1. i - 1 \in 0..(count - 1) /\ Mapped[i].seq = Issued - count + 1 + (i - 1)
    BY <1>0, <1>4 DEF ContiguousWindow
  <2>2. CASE i <= k
    <3>1. i - 1 \in 0..(k - 1)
      BY <2>2, <2>1, <1>1
    <3>2. Get(i - 1).seq <= n
      BY <1>1, <3>1 DEF StopsAfter
    <3> QED
      BY <1>4, <2>2, <3>2
  <2>3. CASE i > k
    <3>1. k < count /\ k \in 0..(count - 1)
      BY <2>3, <1>1, <1>4
    <3>2. Get(k).seq > n /\ Get(k).seq = Issued - count + 1 + k
      BY <1>0, <1>1, <3>1 DEF StopsAfter, ContiguousWindow
    <3> QED
      BY <1>1, <1>4, <1>5, <2>1, <2>3, <3>2
  <2> QED
    BY <2>2, <2>3, <1>1, <1>4
<1>7. Mapped' = SubSeq(Mapped, k + 1, Len(Mapped))
  <2>1. Mapped' = [i \in 1..(count - k) |-> events'[(head' + (i - 1)) % Capacity]]
    BY <1>1 DEF Mapped, Get, Slot
  <2>2. SubSeq(Mapped, k + 1, Len(Mapped))
          = [i \in 1..(count - k) |-> Mapped[k + i]]
    <3>1. Len(Mapped) - (k + 1) + 1 = count - k
      BY <1>4, <1>1
    <3>2. SubSeq(Mapped, k + 1, Len(Mapped))
            = [i \in 1..(Len(Mapped) - (k + 1) + 1) |-> Mapped[(k + 1) + i - 1]]
      BY <1>4, <1>1
    <3>3. \A i \in 1..(count - k) : (k + 1) + i - 1 = k + i
      BY <1>1, <1>4
    <3> QED
      BY <3>1, <3>2, <3>3
  <2>3. ASSUME NEW i \in 1..(count - k)
        PROVE  events'[(head' + (i - 1)) % Capacity] = Mapped[k + i]
    <3>1. i - 1 \in 0..(count - k - 1) /\ k + i \in 1..count /\ k + (i - 1) = (k + i) - 1
      BY <1>1, <1>4
    <3>2. events'[(head' + (i - 1)) % Capacity] = Get(k + (i - 1))
      BY <1>3, <3>1 DEF Get, Slot
    <3> QED
      BY <1>4, <3>1, <3>2
  <2> QED
    BY <2>1, <2>2, <2>3
<1>8. Issued' = Issued
  BY <1>2 DEF Issued
<1>9. \E j \in 0..Len(Mapped) :
        /\ \A i \in 1..Len(Mapped) : Mapped[i].seq <= n <=> i <= j
        /\ Mapped' = SubSeq(Mapped, j + 1, Len(Mapped))
  BY <1>1, <1>4, <1>6, <1>7
<1>10. lastAcknowledged' = IF n > lastAcknowledged THEN n ELSE lastAcknowledged
  BY DEF AcknowledgeThrough
<1> QED
  BY <1>2, <1>8, <1>9, <1>10 DEF Queue!Acknowledge, Queue!Covers, Mapped

LEMMA NextRefines == Inv /\ [Next]_vars => [Queue!Next]_(Queue!queueVars)
<1> SUFFICES ASSUME Inv, [Next]_vars PROVE [Queue!Next]_(Queue!queueVars)
  OBVIOUS
<1>1. ASSUME NEW p \in Payload, AppendExhausted(p) PROVE Queue!Next
  BY <1>1, AppendExhaustedRefines DEF Queue!Next
<1>2. ASSUME NEW p \in Payload, AppendRoom(p) PROVE Queue!Next
  BY <1>2, AppendRoomRefines DEF Queue!Next
<1>3. ASSUME NEW p \in Payload, AppendFull(p) PROVE Queue!Next
  BY <1>3, AppendFullRefines DEF Queue!Next
<1>4. ASSUME NEW n \in 1..MaxSeq, AcknowledgeThrough(n) PROVE Queue!Next
  BY <1>4, AcknowledgeRefines DEF Queue!Next
<1>5. CASE UNCHANGED vars
  BY <1>5 DEF vars, Queue!queueVars, Issued, Get, Slot
<1> QED
  BY <1>1, <1>2, <1>3, <1>4, <1>5 DEF Next

(* The ring implements the bounded queue: wrap-around, overflow, partial and *)
(* out-of-range acknowledgements and exhausted numbers never reorder, skip   *)
(* or resurrect an event.                                                    *)
THEOREM RingImplementsQueue == Spec => ImplementsQueue
<1>1. Init => Queue!Init
  BY InitRefines
<1> QED
  BY <1>1, InitInv, NextInv, NextRefines, PTL DEF Spec, ImplementsQueue, Queue!Spec
=============================================================================
