----------------------------- MODULE BlockQueue -----------------------------
(***************************************************************************)
(* block_queue<T>: a ring of m_max_size items under m_mutex, with one      *)
(* condition variable on which pop waits for an item. What a thread does   *)
(* between lock and unlock, or between lock and wait, is one action.       *)
(***************************************************************************)
EXTENDS Integers, Sequences, FiniteSets

CONSTANTS
  Items,       \* what is queued
  NoItem,      \* the contents of a slot never written; the result of a failed pop
  Consumers,   \* the threads that call pop
  m_max_size

ASSUME SizeAssumption == m_max_size \in Nat \ {0}
ASSUME ItemAssumption == NoItem \notin Items

VARIABLES
  m_array, m_size, m_front, m_back,
  cpc,    \* a consumer: "out", in the wait of pop or of the timed pop, woken there,
          \* or past its timeout and on its way back to m_mutex
  value   \* the item the last pop of a consumer gave, or NoItem for false

vars == <<m_array, m_size, m_front, m_back, cpc, value>>
ring == <<m_array, m_size, m_front, m_back>>

Asleep == {"wait", "timedwait"}
Sleepers == {c \in Consumers : cpc[c] \in Asleep}

Init ==
  /\ m_array = [k \in 0..m_max_size - 1 |-> NoItem]
  /\ m_size = 0 /\ m_front = -1 /\ m_back = -1
  /\ cpc = [c \in Consumers |-> "out"]
  /\ value = [c \in Consumers |-> NoItem]
-----------------------------------------------------------------------------
Wake(pc) == IF pc = "wait" THEN "woken" ELSE IF pc = "timedwait" THEN "timedwoken" ELSE pc

\* m_cond.broadcast(), by both outcomes of push.
Broadcast_None == cpc' = cpc
Broadcast == cpc' = [c \in Consumers |-> Wake(cpc[c])]

full_OffByOne == m_size > m_max_size
full == m_size >= m_max_size

After(i) == (i + 1) % m_max_size

push_KeepBack(i) ==
  /\ IF full THEN UNCHANGED ring
     ELSE /\ m_array' = [m_array EXCEPT ![After(m_back)] = i]
          /\ m_size' = m_size + 1
          /\ UNCHANGED <<m_back, m_front>>
  /\ Broadcast
  /\ UNCHANGED value
push(i) ==
  /\ IF full THEN UNCHANGED ring
     ELSE /\ m_back' = After(m_back)
          /\ m_array' = [m_array EXCEPT ![m_back'] = i]
          /\ m_size' = m_size + 1
          /\ UNCHANGED m_front
  /\ Broadcast
  /\ UNCHANGED value

\* The end of a pop that takes an item, and of one that returns false.
TakeFront_Newest(c) ==
  /\ m_back' = (m_back + m_max_size - 1) % m_max_size
  /\ value' = [value EXCEPT ![c] = m_array[m_back]]
  /\ m_size' = m_size - 1
  /\ cpc' = [cpc EXCEPT ![c] = "out"]
  /\ UNCHANGED <<m_array, m_front>>
TakeFront(c) ==
  /\ m_front' = After(m_front)
  /\ value' = [value EXCEPT ![c] = m_array[m_front']]
  /\ m_size' = m_size - 1
  /\ cpc' = [cpc EXCEPT ![c] = "out"]
  /\ UNCHANGED <<m_array, m_back>>

ReturnFalse(c) ==
  /\ value' = [value EXCEPT ![c] = NoItem]
  /\ cpc' = [cpc EXCEPT ![c] = "out"]
  /\ UNCHANGED ring

\* A call of pop(item) or pop(item, ms_timeout), up to its return or its wait.
pop(c, sleep) ==
  /\ cpc[c] = "out"
  /\ IF m_size > 0 THEN TakeFront(c)
     ELSE cpc' = [cpc EXCEPT ![c] = sleep] /\ UNCHANGED <<ring, value>>

\* cond::wait returns ret == 0, and both pops take 0 != wait() for a failure:
\* after any wakeup they return false.
popWoken(c) == cpc[c] \in {"woken", "timedwoken"} /\ ReturnFalse(c)

\* The timeout passes: the thread is out of the wait before it has m_mutex
\* again, and a push in between neither wakes it nor is missed.
TimeOut(c) ==
  /\ cpc[c] = "timedwait"
  /\ cpc' = [cpc EXCEPT ![c] = "timedout"]
  /\ UNCHANGED <<ring, value>>

\* Only after its timeout does the timed pop look at the queue again.
popTimedOut(c) ==
  /\ cpc[c] = "timedout"
  /\ IF m_size > 0 THEN TakeFront(c) ELSE ReturnFalse(c)

\* A condition variable may wake a waiter for no reason.
SpuriousWakeup(c) ==
  /\ c \in Sleepers
  /\ cpc' = [cpc EXCEPT ![c] = Wake(cpc[c])]
  /\ UNCHANGED <<ring, value>>

clear_KeepBack ==
  /\ m_size' = 0 /\ m_front' = -1
  /\ UNCHANGED <<m_back, m_array, cpc, value>>
clear ==
  /\ m_size' = 0 /\ m_front' = -1 /\ m_back' = -1
  /\ UNCHANGED <<m_array, cpc, value>>

popStep(c) ==
  (\E sleep \in Asleep : pop(c, sleep)) \/ popWoken(c) \/ TimeOut(c) \/ popTimedOut(c) \/ SpuriousWakeup(c)

Next == clear \/ (\E i \in Items : push(i)) \/ \E c \in Consumers : popStep(c)

Spec == Init /\ [][Next]_vars
-----------------------------------------------------------------------------
\* Every variable holds a value of its type.
TypeOK ==
  /\ m_array \in [0..m_max_size - 1 -> Items \cup {NoItem}]
  /\ m_size \in 0..m_max_size
  /\ m_front \in -1..m_max_size - 1 /\ m_back \in -1..m_max_size - 1
  /\ cpc \in [Consumers -> {"out", "woken", "timedwoken", "timedout"} \cup Asleep]
  /\ value \in [Consumers -> Items \cup {NoItem}]

\* No wakeup is lost: a consumer sleeps only while the queue is empty, so a
\* pushed item never waits behind a sleeping consumer.
NoLostWakeup == m_size > 0 => Sleepers = {}

\* The two indices and the size, kept by different methods, describe the queue:
\* through wrap-around, a full ring and clear, the ring is the bounded first-in
\* first-out queue of Fifo.
Queued == [k \in 1..m_size |-> m_array[(m_front + k) % m_max_size]]
FF == INSTANCE Fifo WITH Capacity <- m_max_size, items <- Queued, got <- value
ImplementsFifo == FF!Spec

=============================================================================
