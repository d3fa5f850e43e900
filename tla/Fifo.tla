------------------------------- MODULE Fifo --------------------------------
(***************************************************************************)
(* What block_queue promises its users: a bounded first-in first-out       *)
(* queue. A call of pop hands over the oldest item or gives none; an item  *)
(* is handed over once.                                                    *)
(***************************************************************************)
EXTENDS Integers, Sequences

CONSTANTS Items, NoItem, Consumers, Capacity

VARIABLES
  items,
  got      \* what the last pop of a consumer returned
vars == <<items, got>>

Init == items = <<>> /\ got = [c \in Consumers |-> NoItem]

Put(i) == Len(items) < Capacity /\ items' = Append(items, i) /\ UNCHANGED got

Take(c) ==
  /\ items # <<>>
  /\ got' = [got EXCEPT ![c] = Head(items)]
  /\ items' = Tail(items)

\* A pop that gives up; the code may do so although there is an item.
GiveUp(c) == got' = [got EXCEPT ![c] = NoItem] /\ UNCHANGED items

Empty == items' = <<>> /\ UNCHANGED got

Next == Empty \/ (\E i \in Items : Put(i)) \/ \E c \in Consumers : Take(c) \/ GiveUp(c)

Spec == Init /\ [][Next]_vars
=============================================================================
