------------------------------ MODULE TimerSet ------------------------------
(***************************************************************************)
(* What sort_timer_lst promises the event loop: a set of timers, each with *)
(* the time at which it expires; a tick fires exactly those that are due,  *)
(* the earlier ones first, and removes them.                               *)
(***************************************************************************)
EXTENDS Integers, Sequences, Functions

CONSTANTS Timers, Times, Off   \* Off: the timer is not set

VARIABLES deadline, fired      \* fired: the callbacks of the last call of tick
vars == <<deadline, fired>>

Init == deadline = [t \in Timers |-> Off] /\ fired = <<>>

Add(t, e) ==
  /\ deadline[t] = Off
  /\ deadline' = [deadline EXCEPT ![t] = e] /\ fired' = <<>>

Adjust(t, e) ==
  /\ deadline[t] # Off
  /\ deadline' = [deadline EXCEPT ![t] = e] /\ fired' = <<>>

Remove(t) ==
  /\ deadline[t] # Off
  /\ deadline' = [deadline EXCEPT ![t] = Off] /\ fired' = <<>>

Due(now) == {t \in Timers : deadline[t] # Off /\ deadline[t] <= now}

Tick(now) ==
  /\ fired' \in [1..Len(fired') -> Timers] /\ IsInjective(fired')
  /\ Range(fired') = Due(now)
  /\ \A i, j \in DOMAIN fired' : i < j => deadline[fired'[i]] <= deadline[fired'[j]]
  /\ deadline' = [t \in Timers |-> IF t \in Due(now) THEN Off ELSE deadline[t]]

Next ==
  \/ \E t \in Timers : Remove(t) \/ \E e \in Times : Add(t, e) \/ Adjust(t, e)
  \/ \E now \in Times : Tick(now)

Spec == Init /\ [][Next]_vars
=============================================================================
