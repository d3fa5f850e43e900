----------------------------- MODULE TaskQueue -----------------------------
(***************************************************************************)
(* What the event loop relies on: a bounded queue of tasks, handed out in  *)
(* the order they were accepted, each to one worker that was free. Server  *)
(* uses it in this form; ThreadPool implements it with a mutex and a       *)
(* semaphore.                                                              *)
(***************************************************************************)
EXTENDS Integers, Sequences

CONSTANTS Workers, Tasks, MaxRequest, NoTask

VARIABLES
  queue, running,
  over      \* the queue has been destroyed
vars == <<queue, running, over>>

Init == queue = <<>> /\ running = [w \in Workers |-> NoTask] /\ over = FALSE

Accept(k) ==
  /\ ~over /\ Len(queue) < MaxRequest
  /\ queue' = Append(queue, k)
  /\ UNCHANGED <<running, over>>

Start(w) ==
  /\ ~over /\ running[w] = NoTask /\ queue # <<>>
  /\ running' = [running EXCEPT ![w] = Head(queue)]
  /\ queue' = Tail(queue)
  /\ UNCHANGED over

Finish(w) ==
  /\ running[w] # NoTask
  /\ running' = [running EXCEPT ![w] = NoTask]
  /\ UNCHANGED <<queue, over>>

\* Only with the whole queue are tasks lost.
End == ~over /\ over' = TRUE /\ queue' = <<>> /\ UNCHANGED running

Next == End \/ (\E k \in Tasks : Accept(k)) \/ \E w \in Workers : Start(w) \/ Finish(w)

Spec == Init /\ [][Next]_vars
=============================================================================
