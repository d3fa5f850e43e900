-------------------------- MODULE BlockQueueProofs --------------------------
(***************************************************************************)
(* Theorems about BlockQueue, for every capacity, every set of items and   *)
(* every number of consumers.                                              *)
(***************************************************************************)
EXTENDS BlockQueue, TLAPS

Places == {"out", "woken", "timedwoken", "timedout"} \cup Asleep

\* The next index stays inside the ring.
LEMMA AfterInRing == ASSUME NEW i \in Int PROVE After(i) \in 0..m_max_size - 1
BY SizeAssumption DEF After

\* Waking a consumer leaves it at a place of its own, and awake.
LEMMA WakeType ==
  ASSUME NEW p \in Places PROVE Wake(p) \in Places \ Asleep
BY DEF Places, Wake, Asleep

LEMMA BroadcastType ==
  ASSUME TypeOK, Broadcast
  PROVE  cpc' \in [Consumers -> Places] /\ Sleepers' = {}
<1>1. \A c \in Consumers : Wake(cpc[c]) \in Places \ Asleep
  BY WakeType DEF TypeOK, Places
<1>2. cpc' = [c \in Consumers |-> Wake(cpc[c])]
  BY DEF Broadcast
<1> QED
  BY <1>1, <1>2 DEF Sleepers

\* Taking an item off a queue that has one.
LEMMA TakeType ==
  ASSUME TypeOK, NEW c \in Consumers, m_size > 0, TakeFront(c)
  PROVE  TypeOK' /\ m_size' < m_size /\ Sleepers' \subseteq Sleepers
<1>1. m_front' \in 0..m_max_size - 1
  BY AfterInRing DEF TypeOK, TakeFront
<1>2. m_size' \in 0..m_max_size /\ m_size' < m_size
  BY SizeAssumption DEF TypeOK, TakeFront
<1>3. m_front' \in -1..m_max_size - 1
  BY <1>1, SizeAssumption
<1>4. m_array[m_front'] \in Items \cup {NoItem}
  BY <1>1 DEF TypeOK
<1>5. value' \in [Consumers -> Items \cup {NoItem}]
  BY <1>4 DEF TypeOK, TakeFront
<1>6. cpc' = [cpc EXCEPT ![c] = "out"] /\ UNCHANGED <<m_array, m_back>>
  BY DEF TakeFront
<1>7. TypeOK'
  BY <1>2, <1>3, <1>5, <1>6 DEF TypeOK
<1>8. Sleepers' \subseteq Sleepers
  BY <1>6 DEF TypeOK, Sleepers, Asleep
<1> QED
  BY <1>2, <1>7, <1>8

LEMMA FalseType ==
  ASSUME TypeOK, NEW c \in Consumers, ReturnFalse(c)
  PROVE  TypeOK' /\ Sleepers' \subseteq Sleepers /\ m_size' = m_size
BY DEF TypeOK, ReturnFalse, ring, Sleepers, Asleep

Inv == TypeOK /\ NoLostWakeup

LEMMA InvInit == Init => Inv
BY SizeAssumption DEF Init, Inv, TypeOK, NoLostWakeup

LEMMA InvStep == Inv /\ [Next]_vars => Inv'
<1> SUFFICES ASSUME Inv, [Next]_vars PROVE Inv'
  OBVIOUS
<1> USE DEF Inv
<1>0. m_size \in Nat
  BY SizeAssumption DEF TypeOK
<1>1. CASE clear
  BY <1>1, SizeAssumption DEF clear, TypeOK, NoLostWakeup
<1>2. ASSUME NEW i \in Items, push(i) PROVE Inv'
  <2>1. cpc' \in [Consumers -> Places] /\ Sleepers' = {}
    BY <1>2, BroadcastType DEF push
  <2>2. m_array' \in [0..m_max_size - 1 -> Items \cup {NoItem}]
    BY <1>2 DEF push, ring, TypeOK
  <2>3. After(m_back) \in -1..m_max_size - 1
    BY AfterInRing, SizeAssumption DEF TypeOK
  <2>4. m_back' \in -1..m_max_size - 1 /\ m_front' = m_front /\ value' = value
    BY <1>2, <2>3 DEF push, ring, TypeOK
  <2>5. m_size' \in 0..m_max_size
    BY <1>2, SizeAssumption DEF push, ring, full, TypeOK
  <2> QED
    BY <2>1, <2>2, <2>4, <2>5 DEF TypeOK, NoLostWakeup, Places
<1>3. ASSUME NEW c \in Consumers, NEW sleep \in Asleep, pop(c, sleep) PROVE Inv'
  <2>1. CASE m_size > 0
    BY <1>0, <1>3, <2>1, TakeType DEF pop, NoLostWakeup
  <2>2. CASE ~(m_size > 0)
    BY <1>3, <2>2 DEF pop, ring, TypeOK, NoLostWakeup
  <2> QED
    BY <2>1, <2>2
<1>4. ASSUME NEW c \in Consumers, popWoken(c) PROVE Inv'
  BY <1>4, FalseType DEF popWoken, NoLostWakeup
<1>5. ASSUME NEW c \in Consumers, popTimedOut(c) PROVE Inv'
  <2>1. CASE m_size > 0
    BY <1>0, <1>5, <2>1, TakeType DEF popTimedOut, NoLostWakeup
  <2>2. CASE ~(m_size > 0)
    BY <1>5, <2>2, FalseType DEF popTimedOut, NoLostWakeup
  <2> QED
    BY <2>1, <2>2
<1>6. ASSUME NEW c \in Consumers, SpuriousWakeup(c) PROVE Inv'
  <2>1. c \in Sleepers /\ cpc' = [cpc EXCEPT ![c] = Wake(cpc[c])]
    BY <1>6 DEF SpuriousWakeup
  <2>2. ~(m_size > 0)
    BY <2>1 DEF NoLostWakeup
  <2>3. Wake(cpc[c]) \in Places
    BY WakeType DEF TypeOK, Places
  <2> QED
    BY <1>6, <2>1, <2>2, <2>3 DEF SpuriousWakeup, ring, TypeOK, NoLostWakeup, Places
<1>7. ASSUME NEW c \in Consumers, TimeOut(c) PROVE Inv'
  <2>1. Sleepers' \subseteq Sleepers
    BY <1>7 DEF TimeOut, TypeOK, Sleepers, Asleep
  <2> QED
    BY <1>7, <2>1 DEF TimeOut, ring, TypeOK, NoLostWakeup
<1>8. CASE UNCHANGED vars
  BY <1>8 DEF vars, TypeOK, NoLostWakeup, Sleepers
<1> QED
  BY <1>1, <1>2, <1>3, <1>4, <1>5, <1>6, <1>7, <1>8 DEF Next, popStep

\* In every reachable state the ring's indices and size are in bounds and every
\* slot, and every popped value, is an item or empty.
THEOREM TypeCorrect == Spec => []TypeOK
<1>1. Inv => TypeOK
  BY DEF Inv
<1> QED
  BY InvInit, InvStep, <1>1, PTL DEF Spec

\* A pop never sleeps while the queue holds an item: the broadcast of push,
\* made under the mutex that pop tests the size under, loses no wakeup.
THEOREM NoWakeupLost == Spec => []NoLostWakeup
<1>1. Inv => NoLostWakeup
  BY DEF Inv
<1> QED
  BY InvInit, InvStep, <1>1, PTL DEF Spec
-----------------------------------------------------------------------------
(***************************************************************************)
(* The refinement. The indices m_front and m_back are -1 or in the ring,   *)
(* and m_back is m_size places behind m_front, once round at most.         *)
(***************************************************************************)

RingFacts == m_back = m_front + m_size \/ m_back = m_front + m_size - m_max_size
RingInv == Inv /\ RingFacts

Slot(k) == (m_front + k) % m_max_size

\* The index k places after f, at most once round.
LEMMA SlotValue ==
  ASSUME NEW f \in -1..m_max_size - 1, NEW k \in 1..m_max_size
  PROVE  (f + k) % m_max_size = IF f + k < m_max_size THEN f + k ELSE f + k - m_max_size
<1>1. m_max_size \in Nat /\ m_max_size > 0 /\ f \in Int /\ k \in Int /\ f + k >= 0
  BY SizeAssumption
<1>2. ASSUME NEW n \in Nat, n > 0, NEW a \in Int, NEW b \in Int, a + b >= 0, a + b < n
      PROVE  (a + b) % n = a + b
  BY <1>2
<1>3. ASSUME NEW n \in Nat, n > 0, NEW a \in Int, NEW b \in Int, n <= a + b, a + b < 2 * n
      PROVE  (a + b) % n = a + b - n
  BY <1>3
<1> QED
  BY <1>1, <1>2, <1>3

\* Where the k-th queued item is, and where After leads.
LEMMA SlotPlaces ==
  ASSUME TypeOK
  PROVE  /\ \A k \in 1..m_max_size :
              /\ Slot(k) = IF m_front + k < m_max_size THEN m_front + k
                           ELSE m_front + k - m_max_size
              /\ Slot(k) \in 0..m_max_size - 1
         /\ \A i \in -1..m_max_size - 1 : After(i) = IF i + 1 < m_max_size THEN i + 1 ELSE 0
<1> USE SizeAssumption
<1>1. ASSUME NEW k \in 1..m_max_size
      PROVE  Slot(k) = IF m_front + k < m_max_size THEN m_front + k
                       ELSE m_front + k - m_max_size
  <2>1. m_front \in -1..m_max_size - 1
    BY DEF TypeOK
  <2> QED
    BY <2>1, SlotValue DEF Slot
<1>2. \A k \in 1..m_max_size : Slot(k) \in 0..m_max_size - 1
  BY <1>1 DEF TypeOK
<1>3. ASSUME NEW i \in -1..m_max_size - 1
      PROVE  After(i) = IF i + 1 < m_max_size THEN i + 1 ELSE 0
  BY SlotValue DEF After
<1> QED
  BY <1>1, <1>2, <1>3

LEMMA QueuedSeq ==
  ASSUME TypeOK
  PROVE  /\ Queued \in Seq(Items \cup {NoItem}) /\ Len(Queued) = m_size
         /\ m_size \in Nat /\ m_size <= m_max_size
         /\ \A k \in 1..m_size : Queued[k] = m_array[Slot(k)]
<1>1. m_size \in Nat /\ m_size <= m_max_size
  BY SizeAssumption DEF TypeOK
<1>2. \A k \in 1..m_size : m_array[Slot(k)] \in Items \cup {NoItem}
  BY <1>1, SizeAssumption, SlotPlaces DEF TypeOK
<1> QED
  BY <1>1, <1>2 DEF Queued, Slot

\* push writes behind the last item.
LEMMA PushAppends ==
  ASSUME RingInv, NEW i \in Items, ~full, push(i)
  PROVE  RingFacts' /\ Queued' = Append(Queued, i) /\ Len(Queued) < m_max_size
<1> USE SizeAssumption DEF RingInv, Inv
<1>1. /\ m_size \in Nat /\ m_size < m_max_size /\ m_size + 1 \in 1..m_max_size
      /\ m_front \in -1..m_max_size - 1 /\ m_back \in -1..m_max_size - 1
  BY DEF TypeOK, full
<1>2. /\ m_back' = After(m_back) /\ m_size' = m_size + 1 /\ m_front' = m_front
      /\ m_array' = [m_array EXCEPT ![m_back'] = i] /\ value' = value
  BY DEF push
<1>3. m_back' = Slot(m_size + 1) /\ RingFacts'
  BY <1>1, <1>2, SlotPlaces DEF RingFacts
<1>4. \A k \in 1..m_size : Slot(k) # Slot(m_size + 1)
  BY <1>1, SlotPlaces
<1>5. \A k \in 1..m_size : m_array'[Slot(k)] = m_array[Slot(k)]
  BY <1>1, <1>2, <1>3, <1>4, SlotPlaces DEF TypeOK
<1>6. m_array'[Slot(m_size + 1)] = i
  BY <1>1, <1>2, <1>3, SlotPlaces DEF TypeOK
<1>7. Queued' = [k \in 1..m_size + 1 |-> m_array'[Slot(k)]]
  BY <1>2 DEF Queued, Slot
<1>8. Queued' = Append(Queued, i)
  <2> DEFINE all == Append(Queued, i)
  <2>1. /\ all \in Seq(Items \cup {NoItem}) /\ Len(all) = m_size + 1
        /\ \A k \in 1..m_size : all[k] = Queued[k]
        /\ all[m_size + 1] = i
    BY QueuedSeq
  <2>2. \A k \in 1..m_size + 1 : all[k] = m_array'[Slot(k)]
    BY <1>1, <1>5, <1>6, <2>1, QueuedSeq
  <2> HIDE DEF all
  <2>3. all = [k \in 1..m_size + 1 |-> all[k]]
    BY <2>1
  <2>4. all = Queued'
    BY <1>7, <2>2, <2>3
  <2> QED
    BY <2>4 DEF all
<1> QED
  BY <1>1, <1>3, <1>8, QueuedSeq

\* pop takes the first item.
LEMMA PopTakesHead ==
  ASSUME RingInv, NEW c \in Consumers, m_size > 0, TakeFront(c)
  PROVE  /\ RingFacts'
         /\ Queued # <<>> /\ Queued' = Tail(Queued)
         /\ value' = [value EXCEPT ![c] = Head(Queued)]
<1> USE SizeAssumption DEF RingInv, Inv
<1>1. /\ m_size \in Nat /\ m_size <= m_max_size /\ 1 \in 1..m_max_size
      /\ m_front \in -1..m_max_size - 1 /\ m_back \in -1..m_max_size - 1
  BY DEF TypeOK
<1>2. /\ m_front' = After(m_front) /\ m_size' = m_size - 1
      /\ UNCHANGED <<m_array, m_back>> /\ value' = [value EXCEPT ![c] = m_array[m_front']]
  BY DEF TakeFront
<1>3. m_front' = Slot(1) /\ RingFacts'
  <2>1. /\ Slot(1) = IF m_front + 1 < m_max_size THEN m_front + 1 ELSE m_front + 1 - m_max_size
        /\ After(m_front) = IF m_front + 1 < m_max_size THEN m_front + 1 ELSE 0
    BY <1>1, SlotPlaces
  <2>2. m_front' = Slot(1)
    BY <1>1, <1>2, <2>1
  <2> QED
    BY <1>1, <1>2, <2>1, <2>2, SlotPlaces DEF RingFacts
<1>4. TypeOK'
  BY TakeType
<1>5. \A k \in 1..m_size - 1 : Slot(k)' = Slot(k + 1)
  <2>1. ASSUME NEW k \in 1..m_max_size
        PROVE  Slot(k)' = IF m_front' + k < m_max_size THEN m_front' + k
                          ELSE m_front' + k - m_max_size
    <3>1. m_front' \in -1..m_max_size - 1
      BY <1>1, <1>2, SlotPlaces
    <3> QED
      BY <3>1, SlotValue DEF Slot
  <2>2. m_front' = IF m_front + 1 < m_max_size THEN m_front + 1 ELSE 0
    BY <1>1, <1>2, SlotPlaces
  <2>3. ASSUME NEW k \in 1..m_size - 1 PROVE Slot(k)' = Slot(k + 1)
    <3>1. k \in 1..m_max_size /\ k + 1 \in 1..m_max_size
      BY <1>1
    <3>2. Slot(k)' = IF m_front' + k < m_max_size THEN m_front' + k ELSE m_front' + k - m_max_size
      BY <2>1, <3>1
    <3>3. Slot(k + 1) = IF m_front + (k + 1) < m_max_size THEN m_front + (k + 1)
                        ELSE m_front + (k + 1) - m_max_size
      BY <3>1, SlotPlaces
    <3> QED
      BY <1>1, <2>2, <3>1, <3>2, <3>3
  <2> QED
    BY <2>3
<1>6. Queued[1] = m_array[m_front']
  BY <1>1, <1>3, QueuedSeq
<1>7. Queued' = [k \in 1..m_size - 1 |-> Queued[k + 1]]
  <2>1. Queued' = [k \in 1..m_size - 1 |-> m_array[Slot(k)']]
    BY <1>2 DEF Queued, Slot
  <2>2. \A k \in 1..m_size - 1 : m_array[Slot(k)'] = Queued[k + 1]
    BY <1>1, <1>5, QueuedSeq
  <2> QED
    BY <2>1, <2>2
<1>8. Queued' = Tail(Queued) /\ Queued # <<>> /\ Head(Queued) = Queued[1]
  <2>1. /\ Queued \in Seq(Items \cup {NoItem}) /\ Len(Queued) = m_size
        /\ Len(Queued) > 0 /\ Queued # <<>>
    BY <1>1, QueuedSeq
  <2> HIDE DEF Queued
  <2> DEFINE rest == Tail(Queued)
  <2>2. /\ rest \in Seq(Items \cup {NoItem}) /\ Len(rest) = m_size - 1
        /\ \A k \in 1..m_size - 1 : rest[k] = Queued[k + 1]
        /\ Head(Queued) = Queued[1]
    BY <1>1, <2>1
  <2> HIDE DEF rest
  <2>3. rest = [k \in 1..m_size - 1 |-> rest[k]]
    BY <2>2
  <2>4. rest = Queued'
    BY <1>7, <2>2, <2>3
  <2> QED
    BY <2>1, <2>2, <2>4 DEF rest
<1> QED
  BY <1>2, <1>3, <1>6, <1>8

LEMMA RingInit == Init => RingFacts /\ FF!Init
<1> SUFFICES ASSUME Init PROVE RingFacts /\ FF!Init
  OBVIOUS
<1>1. Queued = <<>>
  BY DEF Init, Queued
<1> QED
  BY <1>1 DEF Init, RingFacts, FF!Init

\* A step that leaves the ring alone, and the items popped.
LEMMA RingStutters ==
  ASSUME RingFacts, UNCHANGED ring PROVE RingFacts' /\ Queued' = Queued
BY DEF RingFacts, ring, Queued

LEMMA RingStep == RingInv /\ [Next]_vars => RingFacts' /\ [FF!Next]_(FF!vars)
<1> SUFFICES ASSUME RingInv, [Next]_vars PROVE RingFacts' /\ [FF!Next]_(FF!vars)
  OBVIOUS
<1> USE DEF RingInv
<1>1. CASE clear
  <2>1. Queued' = <<>>
    BY <1>1 DEF clear, Queued
  <2> QED
    BY <1>1, <2>1 DEF clear, RingFacts, FF!Empty, FF!Next
<1>2. ASSUME NEW i \in Items, push(i) PROVE RingFacts' /\ [FF!Next]_(FF!vars)
  <2>1. CASE full
    BY <1>2, <2>1, RingStutters DEF push, FF!vars
  <2>2. CASE ~full
    BY <1>2, <2>2, PushAppends DEF push, FF!Put, FF!Next
  <2> QED
    BY <2>1, <2>2
<1>3. ASSUME NEW c \in Consumers, TakeFront(c), m_size > 0
      PROVE  RingFacts' /\ [FF!Next]_(FF!vars)
  BY <1>3, PopTakesHead DEF FF!Take, FF!Next
<1>4. ASSUME NEW c \in Consumers, ReturnFalse(c) PROVE RingFacts' /\ [FF!Next]_(FF!vars)
  BY <1>4, RingStutters DEF ReturnFalse, FF!GiveUp, FF!Next
<1>5. CASE UNCHANGED <<ring, value>>
  BY <1>5, RingStutters DEF FF!vars
<1>6. ASSUME NEW c \in Consumers, NEW sleep \in Asleep, pop(c, sleep)
      PROVE  RingFacts' /\ [FF!Next]_(FF!vars)
  BY <1>3, <1>5, <1>6 DEF pop
<1>7. ASSUME NEW c \in Consumers,
             popWoken(c) \/ TimeOut(c) \/ popTimedOut(c) \/ SpuriousWakeup(c)
      PROVE  RingFacts' /\ [FF!Next]_(FF!vars)
  BY <1>3, <1>4, <1>5, <1>7 DEF popWoken, TimeOut, popTimedOut, SpuriousWakeup
<1>8. CASE UNCHANGED vars
  BY <1>5, <1>8 DEF vars, ring
<1> QED
  BY <1>1, <1>2, <1>6, <1>7, <1>8 DEF Next, popStep

\* Through wrap-around, a full ring and clear, the ring of any capacity is a
\* bounded first-in first-out queue.
THEOREM RingIsFifo == Spec => ImplementsFifo
<1>1. Init => RingInv /\ FF!Init
  BY InvInit, RingInit DEF RingInv
<1>2. RingInv /\ [Next]_vars => RingInv' /\ [FF!Next]_(FF!vars)
  BY InvStep, RingStep DEF RingInv
<1>3. Spec => FF!Spec
  BY <1>1, <1>2, PTL DEF Spec, FF!Spec
<1> QED
  BY <1>3 DEF ImplementsFifo
=============================================================================
