---------------------------- MODULE ServerProofs ----------------------------
(***************************************************************************)
(* Theorems about Server, for every number of descriptors, connections and *)
(* workers and every bound; none of them has another hypothesis.           *)
(***************************************************************************)
EXTENDS Server, FiniteSetTheorems, SequenceTheorems, TLAPS

-----------------------------------------------------------------------------
(***************************************************************************)
(* Types. One lemma per shared piece of a handler, then one step per       *)
(* action, which proves the groups of variables the action changes.        *)
(***************************************************************************)

\* A worker that is not idle holds a task.
WorkingHasTask == \A w \in Workers : wpc[w] # "idle" => wjob[w] \in Tasks

TypeInv == TypeOK /\ WorkingHasTask

LEMMA TypeInit == Init => TypeInv
<1> SUFFICES ASSUME Init PROVE TypeInv
  OBVIOUS
<1>1. KernelType /\ BatchType /\ SignalType /\ MainType
  BY DEF Init, KernelType, BatchType, SignalType, MainType, Sources, Reports, Marks
<1>2. TimerType
  BY BoundsAssumption DEF Init, TimerType, Freed
<1>3. ConnType
  <2>1. m_user_count \in Int /\ doubles \in Nat
    BY DEF Init
  <2>2. m_sockfd \in [Fds -> BOOLEAN] /\ pending \in [Fds -> BOOLEAN] /\ raced \in BOOLEAN
    BY DEF Init
  <2> QED
    BY <2>1, <2>2 DEF ConnType
<1>4. PoolType /\ WorkingHasTask
  BY DEF Init, PoolType, WorkingHasTask
<1> QED
  BY <1>1, <1>2, <1>3, <1>4 DEF TypeInv, TypeOK

\* modfd leaves a set of events armed.
LEMMA ModfdType ==
  ASSUME KernelType, NEW fd \in Fds, NEW ev \in {"in", "out"}
  PROVE  Modfd(fd, ev) \in [Fds -> SUBSET {"in", "out"}]
BY DEF KernelType, Modfd

\* close keeps the types of the kernel's side.
LEMMA CloseType == ASSUME KernelType, NEW fd, Close(fd) PROVE KernelType'
BY DEF KernelType, Close, Marks

\* del_timer keeps the types of the timers, whatever pointer it is given.
LEMMA DelTimerType ==
  ASSUME TimerType, NEW t, DelTimer(t), UNCHANGED timer, orphans' \in SUBSET Ids
  PROVE  TimerType'
<1>1. user_data' \in [Ids -> Fds \cup {None}]
  BY DEF TimerType, DelTimer
<1>2. Freed \in Freed..Slots
  BY BoundsAssumption DEF Freed
<1>3. expire' \in [Ids -> Freed..Slots]
  BY <1>2 DEF TimerType, DelTimer
<1> QED
  BY <1>1, <1>3 DEF TimerType

\* So does pushing back the expiry of a connection's timer.
LEMMA RefreshType ==
  ASSUME TimerType, NEW fd \in Fds, Refresh(fd), UNCHANGED <<timer, user_data, orphans>>
  PROVE  TimerType'
<1>1. Slots \in Freed..Slots
  BY BoundsAssumption DEF Freed
<1> QED
  BY <1>1 DEF TimerType, Refresh

\* Firing a timer upon a descriptor keeps the types.
LEMMA FireType ==
  ASSUME TypeOK, NEW t, NEW fd, Fire(t, fd), UNCHANGED timer
  PROVE  KernelType' /\ TimerType' /\ m_user_count' \in Int /\ doubles' \in Nat /\ raced' \in BOOLEAN
<1>1. KernelType'
  BY CloseType DEF TypeOK, Fire, CbFunc
<1>2. orphans' \in SUBSET Ids
  BY DEF TypeOK, KernelType, TimerType, Fire
<1>3. TimerType'
  BY <1>2, DelTimerType DEF TypeOK, Fire
<1>4. m_user_count' \in Int /\ doubles' \in Nat
  BY DEF TypeOK, ConnType, Fire, CbFunc, CountTwice
<1>5. raced' \in BOOLEAN
  BY DEF TypeOK, ConnType, Fire, CbFunc
<1> QED
  BY <1>1, <1>3, <1>4, <1>5

\* Consuming an entry of events[] keeps the types of the batch.
LEMMA HandledType == ASSUME BatchType, NEW fd, Handled(fd) PROVE BatchType'
BY DEF BatchType, Handled

\* A worker that becomes idle leaves the other workers their tasks.
LEMMA DoneType ==
  ASSUME PoolType, WorkingHasTask, NEW w \in Workers, Done(w), UNCHANGED queue
  PROVE  PoolType' /\ WorkingHasTask'
BY DEF PoolType, WorkingHasTask, Done

LEMMA TypeStep == TypeInv /\ [Next]_vars => TypeInv'
<1> SUFFICES ASSUME TypeInv, [Next]_vars PROVE TypeInv'
  OBVIOUS
<1> USE DEF TypeInv, TypeOK
<1>1. CASE TimePasses
  <2>1. expire' \in [Ids -> Freed..Slots]
    BY <1>1, BoundsAssumption DEF TimePasses, TimerType, Freed
  <2>2. SignalType'
    BY <1>1 DEF TimePasses, SignalType
  <2>3. TimerType'
    BY <1>1, <2>1 DEF TimePasses, TimerType
  <2>4. KernelType' /\ BatchType' /\ MainType' /\ ConnType' /\ PoolType' /\ WorkingHasTask'
    BY <1>1 DEF TimePasses, KernelType, BatchType, MainType, ConnType, PoolType,
       WorkingHasTask, kernelVars, batchVars, mainVars, connVars, countVars, poolVars
  <2> QED
    BY <2>2, <2>3, <2>4
<1>2. CASE EpollWait
  <2>1. KernelType'
    BY <1>2 DEF EpollWait, KernelType, OneShot
  <2>2. BatchType' /\ MainType'
    BY <1>2 DEF EpollWait, BatchType, MainType
  <2>3. SignalType'
    BY <1>2 DEF EpollWait, SignalType, Report, Reports
  <2>4. TimerType' /\ ConnType' /\ PoolType' /\ WorkingHasTask'
    BY <1>2 DEF EpollWait, TimerType, ConnType, PoolType, WorkingHasTask,
       timerVars, connVars, countVars, poolVars
  <2> QED
    BY <2>1, <2>2, <2>3, <2>4
<1>3. CASE HandleAccept
  <2>1. BatchType' /\ SignalType' /\ MainType' /\ PoolType' /\ WorkingHasTask'
    BY <1>3 DEF HandleAccept, BatchType, SignalType, MainType, PoolType, WorkingHasTask,
       signalVars, mainVars, poolVars
  <2>2. CASE UNCHANGED <<kernelVars, timerVars, connVars>>
    BY <2>1, <2>2 DEF KernelType, TimerType, ConnType, kernelVars, timerVars, connVars,
       countVars
  <2>3. CASE \E fd \in Fds \ Open, id \in Ids : Fresh(id) /\ AcceptConn(fd, id)
    <3> PICK fd \in Fds, id \in Ids : AcceptConn(fd, id)
      BY <2>3
    <3>1. PICK events \in {{"in"}, {"in", "out"}, {}} :
            /\ armed' = [armed EXCEPT ![fd] = events]
            /\ mark' = [mark EXCEPT ![fd] = {m \in {"refused", "intruded"} :
                      IF m = "refused" THEN events = {} ELSE InUse(fd) \/ ready[fd] # "none"}]
      BY DEF AcceptConn
    <3>2. armed' \in [Fds -> SUBSET {"in", "out"}] /\ sock' \in [Fds -> Ids \cup {None}]
      BY <3>1 DEF AcceptConn, KernelType
    <3>3. \A S \in SUBSET {"refused", "intruded"} : S \in SUBSET Marks
      BY DEF Marks
    <3>4. {m \in {"refused", "intruded"} :
             IF m = "refused" THEN events = {} ELSE InUse(fd) \/ ready[fd] # "none"}
            \in SUBSET Marks
      BY <3>3
    <3>5. mark' \in [Fds -> SUBSET Marks]
      BY <3>1, <3>4 DEF KernelType
    <3>6. timer' \in [Fds -> Ids \cup {None}] /\ user_data' \in [Ids -> Fds \cup {None}]
      BY DEF AcceptConn, BindTimer, TimerType
    <3>7. expire' \in [Ids -> Freed..Slots] /\ orphans' \in SUBSET Ids
      BY BoundsAssumption DEF AcceptConn, TimerType, Freed
    <3>8. ConnType'
      BY DEF AcceptConn, ConnType
    <3> QED
      BY <2>1, <3>2, <3>5, <3>6, <3>7, <3>8 DEF TimerType, KernelType
  <2> QED
    BY <1>3, <2>2, <2>3 DEF HandleAccept
<1>4. ASSUME NEW fd \in Fds, HandleHup(fd) PROVE TypeInv'
  <2>1. /\ KernelType' /\ TimerType'
        /\ m_user_count' \in Int /\ doubles' \in Nat /\ raced' \in BOOLEAN
    BY <1>4, FireType DEF HandleHup, Drop
  <2>2. BatchType'
    BY <1>4, HandledType DEF HandleHup
  <2> QED
    BY <1>4, <2>1, <2>2 DEF HandleHup, SignalType, MainType, ConnType, PoolType,
       WorkingHasTask, signalVars, mainVars, poolVars
<1>5. CASE HandleSignal
  BY <1>5 DEF HandleSignal, KernelType, BatchType, SignalType, MainType, TimerType,
     ConnType, PoolType, WorkingHasTask, kernelVars, timerVars, connVars, countVars, poolVars
<1>6. ASSUME NEW fd \in Fds, HandleRead(fd) PROVE TypeInv'
  <2>1. BatchType'
    BY <1>6, HandledType DEF HandleRead
  <2>2. SignalType' /\ MainType'
    BY <1>6 DEF HandleRead, SignalType, MainType, signalVars, mainVars
  <2>3. CASE Drop(fd) /\ UNCHANGED queue
    <3>1. /\ KernelType' /\ TimerType'
          /\ m_user_count' \in Int /\ doubles' \in Nat /\ raced' \in BOOLEAN
      BY <1>6, <2>3, FireType DEF HandleRead, Drop
    <3> QED
      BY <1>6, <2>1, <2>2, <2>3, <3>1 DEF HandleRead, ConnType, PoolType, WorkingHasTask
  <2>4. CASE /\ Connected(fd) /\ AppendTask(fd) /\ Refresh(fd)
             /\ UNCHANGED <<sock, armed, user_data, orphans, countVars>>
    <3>1. [fd |-> fd, id |-> sock[fd]] \in Tasks
      BY <2>4 DEF Connected, Tasks, KernelType
    <3>2. queue \in Seq(Tasks)
      BY DEF PoolType
    <3>3. queue' = queue \/ queue' = Append(queue, [fd |-> fd, id |-> sock[fd]])
      BY <2>4 DEF AppendTask
    <3>4. queue' \in Seq(Tasks)
      BY <3>1, <3>2, <3>3
    <3>5. TimerType'
      BY <1>6, <2>4, RefreshType DEF HandleRead
    <3>6. KernelType'
      BY <2>4 DEF AppendTask, KernelType, Marks
    <3>7. ConnType'
      BY <1>6, <2>4 DEF HandleRead, ConnType, countVars
    <3> QED
      BY <1>6, <2>1, <2>2, <3>4, <3>5, <3>6, <3>7 DEF HandleRead, PoolType, WorkingHasTask
  <2> QED
    BY <1>6, <2>3, <2>4 DEF HandleRead
<1>7. ASSUME NEW fd \in Fds, HandleWrite(fd) PROVE TypeInv'
  <2>1. BatchType'
    BY <1>7, HandledType DEF HandleWrite
  <2>2. SignalType' /\ MainType' /\ PoolType' /\ WorkingHasTask'
    BY <1>7 DEF HandleWrite, SignalType, MainType, PoolType, WorkingHasTask,
       signalVars, mainVars, poolVars
  <2>3. KernelType' /\ TimerType' /\ ConnType'
    <3>1. CASE WriteNothing(fd)
      BY <1>7, <3>1, ModfdType, RefreshType
      DEF HandleWrite, WriteNothing, KernelType, ConnType, countVars
    <3>2. CASE WriteKeep(fd)
      BY <1>7, <3>2, ModfdType, RefreshType
      DEF HandleWrite, WriteKeep, KernelType, ConnType, countVars
    <3>3. CASE WriteBlocked(fd)
      BY <1>7, <3>3, ModfdType, RefreshType
      DEF HandleWrite, WriteBlocked, KernelType, ConnType, countVars
    <3>4. CASE WriteDrop(fd)
      BY <1>7, <3>4, FireType DEF HandleWrite, WriteDrop, Drop, ConnType
    <3> QED
      BY <1>7, <3>1, <3>2, <3>3, <3>4 DEF HandleWrite
  <2> QED
    BY <2>1, <2>2, <2>3
<1>8. ASSUME NEW fd \in Fds, WriteSpins(fd) PROVE TypeInv'
  <2>1. BatchType' /\ MainType'
    BY <1>8 DEF WriteSpins, BatchType, MainType
  <2> QED
    BY <1>8, <2>1 DEF WriteSpins, KernelType, SignalType, TimerType, ConnType, PoolType,
       WorkingHasTask, kernelVars, signalVars, timerVars, connVars, countVars, poolVars
<1>9. ASSUME NEW fd \in Fds, SpinEnds(fd) PROVE TypeInv'
  <2>1. /\ KernelType' /\ TimerType'
        /\ m_user_count' \in Int /\ doubles' \in Nat /\ raced' \in BOOLEAN
    BY <1>9, FireType DEF SpinEnds, Drop
  <2>2. BatchType'
    BY <1>9, HandledType DEF SpinEnds
  <2> QED
    BY <1>9, <2>1, <2>2 DEF SpinEnds, SignalType, MainType, ConnType, PoolType,
       WorkingHasTask, signalVars, poolVars
<1>10. ASSUME NEW fd \in Fds, BrokenPipe(fd) PROVE TypeInv'
  BY <1>10 DEF BrokenPipe, KernelType, BatchType, SignalType, MainType, TimerType, ConnType,
     PoolType, WorkingHasTask, kernelVars, batchVars, signalVars, timerVars, connVars,
     countVars, poolVars
<1>11. CASE EndBatch
  BY <1>11 DEF EndBatch, Expired, KernelType, BatchType, SignalType, MainType, TimerType,
     ConnType, PoolType, WorkingHasTask, kernelVars, batchVars, signalVars, timerVars,
     connVars, countVars, poolVars
<1>12. CASE TickEnd
  BY <1>12 DEF TickEnd, NextAlarm, KernelType, BatchType, SignalType, MainType, TimerType,
     ConnType, PoolType, WorkingHasTask, kernelVars, batchVars, timerVars, connVars, countVars,
     poolVars
<1>13. ASSUME NEW t \in Ids, TickOne(t) PROVE TypeInv'
  <2>1. /\ KernelType' /\ TimerType'
        /\ m_user_count' \in Int /\ doubles' \in Nat /\ raced' \in BOOLEAN
    BY <1>13, FireType DEF TickOne
  <2>2. ConnType' /\ MainType'
    BY <1>13, <2>1 DEF TickOne, ConnType, MainType
  <2> QED
    BY <1>13, <2>1, <2>2 DEF TickOne, BatchType, SignalType, PoolType, WorkingHasTask,
       batchVars, signalVars, poolVars
<1>14. ASSUME NEW w \in Workers, Take(w) PROVE TypeInv'
  <2>1. Head(queue) \in Tasks /\ Tail(queue) \in Seq(Tasks)
    BY <1>14 DEF Take, PoolType
  <2>2. PoolType' /\ WorkingHasTask'
    BY <1>14, <2>1 DEF Take, PoolType, WorkingHasTask
  <2> QED
    BY <1>14, <2>2 DEF Take, KernelType, BatchType, SignalType, MainType, TimerType,
       ConnType, kernelVars, batchVars, signalVars, mainVars, timerVars, connVars, countVars
<1>15. ASSUME NEW w \in Workers, Again(w) \/ Rearm(w) PROVE TypeInv'
  <2>1. wjob[w].fd \in Fds
    BY <1>15 DEF Again, Rearm, WorkingHasTask, Tasks
  <2>2. KernelType'
    BY <1>15, <2>1, ModfdType DEF Again, Rearm, KernelType
  <2>3. PoolType' /\ WorkingHasTask'
    BY <1>15, DoneType DEF Again, Rearm
  <2>4. BatchType' /\ SignalType' /\ MainType' /\ TimerType' /\ ConnType'
    BY <1>15 DEF Again, Rearm, BatchType, SignalType, MainType, TimerType, ConnType, batchVars,
       signalVars, mainVars, timerVars, connVars, countVars
  <2> QED
    BY <2>2, <2>3, <2>4
<1>16. ASSUME NEW w \in Workers, Respond(w) PROVE TypeInv'
  <2>1. ConnType' /\ PoolType' /\ WorkingHasTask'
    BY <1>16 DEF Respond, ConnType, PoolType, WorkingHasTask, countVars
  <2> QED
    BY <1>16, <2>1 DEF Respond, KernelType, BatchType, SignalType, MainType, TimerType,
       kernelVars, batchVars, signalVars, mainVars, timerVars
<1>17. ASSUME NEW w \in Workers, Fail(w) PROVE TypeInv'
  <2>1. KernelType'
    BY <1>17, CloseType DEF Fail, KernelType, kernelVars
  <2>2. PoolType' /\ WorkingHasTask'
    <3>1. m_user_count \in Int
      BY DEF ConnType
    <3>2. wcount' \in [Workers -> Int] /\ wjob' = wjob /\ queue' = queue /\ wpc[w] # "idle"
      BY <1>17, <3>1 DEF Fail, PoolType
    <3>3. wpc' = [wpc EXCEPT ![w] = "close"] \/ wpc' = [wpc EXCEPT ![w] = "arm"]
      BY <1>17 DEF Fail
    <3> QED
      BY <3>2, <3>3 DEF PoolType, WorkingHasTask
  <2>3. orphans' \in SUBSET Ids /\ doubles' \in Nat
    BY <1>17 DEF Fail, CountTwice, TimerType, ConnType
  <2> QED
    BY <1>17, <2>1, <2>2, <2>3 DEF Fail, BatchType, SignalType, MainType, TimerType, ConnType,
       batchVars, signalVars, mainVars
<1>18. ASSUME NEW w \in Workers, CloseStore(w) PROVE TypeInv'
  <2>1. m_user_count' \in Int
    BY <1>18 DEF CloseStore, ConnType, PoolType
  <2>2. raced' \in BOOLEAN
    BY <1>18 DEF CloseStore, ConnType
  <2>3. ConnType' /\ PoolType' /\ WorkingHasTask'
    BY <1>18, <2>1, <2>2 DEF CloseStore, ConnType, PoolType, WorkingHasTask
  <2> QED
    BY <1>18, <2>3 DEF CloseStore, KernelType, BatchType, SignalType, MainType,
       TimerType, kernelVars, batchVars, signalVars, mainVars, timerVars
<1>19. CASE UNCHANGED vars
  BY <1>19 DEF vars, KernelType, BatchType, SignalType, MainType, TimerType, ConnType,
     PoolType, WorkingHasTask, kernelVars, batchVars, signalVars, mainVars, timerVars,
     connVars, countVars, poolVars
<1> QED
  BY <1>1, <1>2, <1>3, <1>4, <1>5, <1>6, <1>7, <1>8, <1>9, <1>10, <1>11, <1>12,
     <1>13, <1>14, <1>15, <1>16, <1>17, <1>18, <1>19
  DEF Next, Batch, Handle, Tick, Worker

\* Every variable keeps its type: TypeOK for every value of the constants.
THEOREM TypeCorrect == Spec => []TypeOK
<1>1. Spec => []TypeInv
  BY TypeInit, TypeStep, PTL DEF Spec
<1> QED
  BY <1>1, PTL DEF TypeInv
-----------------------------------------------------------------------------
(***************************************************************************)
(* No handler follows a dangling timer. The invariant needs two more facts *)
(* to be inductive: epoll watches open descriptors only, so a new event    *)
(* belongs to an open one; and a tick runs with an empty batch, so the     *)
(* timers it deletes are not wanted by an event still to be handled.       *)
(***************************************************************************)

ArmedOpen == \A fd \in Fds : armed[fd] # {} => sock[fd] # None
TickQuiet == mpc = "tick" => \A fd \in Fds : ready[fd] = "none"
WatchInv == TypeInv /\ NoDanglingTimer /\ ArmedOpen /\ TickQuiet

\* The timer of a connection is a timer, and this descriptor's.
LEMMA TimerThere ==
  ASSUME WatchInv, NEW fd \in Fds, sock[fd] # None \/ ready[fd] # "none"
  PROVE  timer[fd] \in Ids /\ expire[timer[fd]] # Freed /\ user_data[timer[fd]] = fd
BY DEF WatchInv, TypeInv, TypeOK, TimerType, NoDanglingTimer, Alive

\* Steps that leave the timers alone, and neither open a connection nor put a
\* new event into the batch.
LEMMA WatchKept ==
  ASSUME WatchInv, UNCHANGED <<timer, user_data, expire>>,
         \A fd \in Fds : sock'[fd] # None => sock[fd] # None,
         \A fd \in Fds : ready'[fd] # "none" => ready[fd] # "none",
         ArmedOpen', TickQuiet'
  PROVE  NoDanglingTimer' /\ ArmedOpen' /\ TickQuiet'
BY DEF WatchInv, NoDanglingTimer, Alive

\* modfd arms nothing that is closed.
LEMMA ModfdOpen ==
  ASSUME WatchInv, NEW fd \in Fds, NEW ev, armed' = Modfd(fd, ev), UNCHANGED sock
  PROVE  ArmedOpen'
BY DEF WatchInv, TypeInv, TypeOK, KernelType, ArmedOpen, Modfd, Connected

\* Neither does close.
LEMMA CloseOpen ==
  ASSUME WatchInv, NEW fd, Close(fd)
  PROVE  ArmedOpen' /\ \A g \in Fds : sock'[g] # None => sock[g] # None /\ g # fd
BY DEF WatchInv, TypeInv, TypeOK, KernelType, ArmedOpen, Close

\* Dropping a connection deletes no other connection's timer.
LEMMA DropWatched ==
  ASSUME WatchInv, NEW fd \in Fds, ready[fd] # "none", Handled(fd), Drop(fd),
         UNCHANGED timer, mpc' # "tick"
  PROVE  NoDanglingTimer' /\ ArmedOpen' /\ TickQuiet'
<1>1. ArmedOpen' /\ \A g \in Fds : sock'[g] # None => sock[g] # None /\ g # fd
  BY CloseOpen DEF Drop, Fire, CbFunc
<1>2. \A g \in Fds : g # fd => ready'[g] = ready[g]
  BY DEF WatchInv, TypeInv, TypeOK, BatchType, Handled
<1>3. ready'[fd] = "none" /\ TickQuiet'
  BY DEF WatchInv, TypeInv, TypeOK, BatchType, Handled, TickQuiet
<1>4. timer[fd] \in Ids /\ user_data[timer[fd]] = fd
  BY TimerThere
<1>5. \A t \in Ids : t # timer[fd] => expire'[t] = expire[t] /\ user_data'[t] = user_data[t]
  BY DEF WatchInv, TypeInv, TypeOK, TimerType, Drop, Fire, DelTimer
<1>6. ASSUME NEW g \in Fds, sock'[g] # None \/ ready'[g] # "none"
      PROVE  timer'[g] # None /\ Alive(timer[g])' /\ user_data'[timer'[g]] = g
  <2>1. g # fd /\ (sock[g] # None \/ ready[g] # "none")
    BY <1>1, <1>2, <1>3, <1>6
  <2>2. timer[g] \in Ids /\ expire[timer[g]] # Freed /\ user_data[timer[g]] = g
    BY <2>1, TimerThere
  <2>3. timer[g] # timer[fd]
    BY <1>4, <2>1, <2>2
  <2> QED
    BY <1>5, <2>2, <2>3, NoneAssumption DEF Alive
<1> QED
  BY <1>1, <1>3, <1>6 DEF NoDanglingTimer

\* Handling an event without closing: only an expiry is pushed back.
LEMMA RefreshWatched ==
  ASSUME WatchInv, NEW fd \in Fds, Handled(fd), Refresh(fd), ArmedOpen',
         UNCHANGED <<sock, mpc, timer, user_data>>
  PROVE  NoDanglingTimer' /\ ArmedOpen' /\ TickQuiet'
<1>1. \A g \in Fds : ready'[g] # "none" => ready[g] # "none"
  BY DEF WatchInv, TypeInv, TypeOK, BatchType, Handled
<1>2. \A t \in Ids : expire[t] # Freed => expire'[t] # Freed
  BY BoundsAssumption DEF WatchInv, TypeInv, TypeOK, TimerType, Refresh, Freed
<1>3. TickQuiet'
  BY <1>1 DEF WatchInv, TickQuiet
<1>4. ASSUME NEW g \in Fds, sock'[g] # None \/ ready'[g] # "none"
      PROVE  timer'[g] # None /\ Alive(timer[g])' /\ user_data'[timer'[g]] = g
  <2>1. timer[g] \in Ids /\ expire[timer[g]] # Freed /\ user_data[timer[g]] = g
    BY <1>1, <1>4, TimerThere
  <2> QED
    BY <1>2, <2>1, NoneAssumption DEF Alive
<1> QED
  BY <1>3, <1>4 DEF NoDanglingTimer

\* A tick deletes no open connection's timer but the one it closes.
LEMMA TickWatched ==
  ASSUME WatchInv, NEW t \in Ids, TickOne(t)
  PROVE  NoDanglingTimer' /\ ArmedOpen' /\ TickQuiet'
<1>1. ArmedOpen' /\ \A g \in Fds : sock'[g] # None => sock[g] # None /\ g # user_data[t]
  BY CloseOpen DEF TickOne, Fire, CbFunc
<1>2. TickQuiet' /\ \A g \in Fds : ready'[g] = "none"
  BY DEF TickOne, WatchInv, TickQuiet, batchVars
<1>3. \A u \in Ids : u # t => expire'[u] = expire[u] /\ user_data'[u] = user_data[u]
  BY DEF TickOne, Fire, DelTimer, WatchInv, TypeInv, TypeOK, TimerType
<1>4. ASSUME NEW g \in Fds, sock'[g] # None \/ ready'[g] # "none"
      PROVE  timer'[g] # None /\ Alive(timer[g])' /\ user_data'[timer'[g]] = g
  <2>1. sock[g] # None /\ g # user_data[t]
    BY <1>1, <1>2, <1>4
  <2>2. timer[g] \in Ids /\ expire[timer[g]] # Freed /\ user_data[timer[g]] = g
    BY <2>1, TimerThere
  <2>3. timer' = timer
    BY DEF TickOne
  <2> QED
    BY <1>3, <2>1, <2>2, <2>3, NoneAssumption DEF Alive
<1> QED
  BY <1>1, <1>2, <1>4 DEF NoDanglingTimer

\* A new connection gets a new timer.
LEMMA AcceptWatched ==
  ASSUME WatchInv, NEW fd \in Fds, NEW id \in Ids, Fresh(id), AcceptConn(fd, id),
         UNCHANGED ready, TickQuiet'
  PROVE  NoDanglingTimer' /\ ArmedOpen' /\ TickQuiet'
<1>1. \A g \in Fds : g # fd =>
        sock'[g] = sock[g] /\ armed'[g] = armed[g] /\ timer'[g] = timer[g]
  BY DEF AcceptConn, BindTimer, WatchInv, TypeInv, TypeOK, KernelType, TimerType
<1>2. \A t \in Ids : t # id => expire'[t] = expire[t] /\ user_data'[t] = user_data[t]
  BY DEF AcceptConn, WatchInv, TypeInv, TypeOK, TimerType
<1>3. sock'[fd] = id /\ timer'[fd] = id /\ expire'[id] = Slots /\ user_data'[id] = fd
  BY DEF AcceptConn, BindTimer, WatchInv, TypeInv, TypeOK, KernelType, TimerType
<1>4. id # None /\ expire[id] = Freed /\ Slots # Freed
  BY NoneAssumption, BoundsAssumption DEF Fresh, Alive, Freed
<1>5. ArmedOpen'
  BY <1>1, <1>3, <1>4 DEF WatchInv, ArmedOpen
<1>6. ASSUME NEW g \in Fds, sock'[g] # None \/ ready'[g] # "none"
      PROVE  timer'[g] # None /\ Alive(timer[g])' /\ user_data'[timer'[g]] = g
  <2>1. CASE g = fd
    BY <1>3, <1>4, <2>1 DEF Alive
  <2>2. CASE g # fd
    <3>1. timer[g] \in Ids /\ expire[timer[g]] # Freed /\ user_data[timer[g]] = g
      BY <1>1, <1>6, <2>2, TimerThere
    <3> QED
      BY <1>1, <1>2, <1>4, <2>2, <3>1, NoneAssumption DEF Alive
  <2> QED
    BY <2>1, <2>2
<1> QED
  BY <1>5, <1>6 DEF NoDanglingTimer

LEMMA WatchInit == Init => NoDanglingTimer /\ ArmedOpen /\ TickQuiet
BY DEF Init, NoDanglingTimer, ArmedOpen, TickQuiet

LEMMA WatchStep ==
  WatchInv /\ [Next]_vars => NoDanglingTimer' /\ ArmedOpen' /\ TickQuiet'
<1> DEFINE Goal == NoDanglingTimer' /\ ArmedOpen' /\ TickQuiet'
<1> SUFFICES ASSUME WatchInv, [Next]_vars PROVE Goal
  OBVIOUS
<1>1. CASE TimePasses
  <2>1. \A t \in Ids : expire[t] # Freed => expire'[t] # Freed
    BY <1>1, BoundsAssumption DEF TimePasses, WatchInv, TypeInv, TypeOK, TimerType, Freed
  <2>2. \A fd \in Fds : timer[fd] # None => timer[fd] \in Ids
    BY DEF WatchInv, TypeInv, TypeOK, TimerType
  <2> QED
    BY <1>1, <2>1, <2>2 DEF TimePasses, WatchInv, NoDanglingTimer, ArmedOpen, TickQuiet,
       Alive, kernelVars, batchVars, mainVars
<1>2. CASE EpollWait
  <2>1. ArmedOpen'
    BY <1>2 DEF EpollWait, WatchInv, ArmedOpen, TypeInv, TypeOK, KernelType, OneShot
  <2>2. \A fd \in Fds : ready'[fd] # "none" => sock[fd] # None
    BY <1>2 DEF EpollWait, WatchInv, ArmedOpen
  <2> QED
    BY <1>2, <2>1, <2>2 DEF EpollWait, WatchInv, NoDanglingTimer, TickQuiet, Alive, timerVars
<1>3. CASE HandleAccept
  <2>1. TickQuiet'
    BY <1>3 DEF HandleAccept, mainVars, TickQuiet
  <2>2. CASE UNCHANGED <<kernelVars, timerVars, connVars>>
    BY <1>3, <2>1, <2>2, WatchKept DEF HandleAccept, WatchInv, ArmedOpen, kernelVars, timerVars
  <2>3. CASE \E fd \in Fds \ Open, id \in Ids : Fresh(id) /\ AcceptConn(fd, id)
    BY <1>3, <2>1, <2>3, AcceptWatched DEF HandleAccept
  <2> QED
    BY <1>3, <2>2, <2>3 DEF HandleAccept
<1>4. ASSUME NEW fd \in Fds, HandleHup(fd) PROVE Goal
  BY <1>4, DropWatched DEF HandleHup, mainVars
<1>5. CASE HandleSignal
  BY <1>5, WatchKept DEF HandleSignal, WatchInv, ArmedOpen, TickQuiet, kernelVars, timerVars
<1>6. ASSUME NEW fd \in Fds, HandleRead(fd) PROVE Goal
  <2>1. CASE Drop(fd) /\ UNCHANGED queue
    BY <1>6, <2>1, DropWatched DEF HandleRead, mainVars
  <2>2. CASE /\ Connected(fd) /\ AppendTask(fd) /\ Refresh(fd)
             /\ UNCHANGED <<sock, armed, user_data, orphans, countVars>>
    <3>1. ArmedOpen'
      BY <2>2 DEF ArmedOpen, WatchInv
    <3> QED
      BY <1>6, <2>2, <3>1, RefreshWatched DEF HandleRead, mainVars
  <2> QED
    BY <1>6, <2>1, <2>2 DEF HandleRead
<1>7. ASSUME NEW fd \in Fds, HandleWrite(fd) PROVE Goal
  <2>1. /\ Handled(fd) /\ ready[fd] = "out" /\ mpc = "handle"
        /\ UNCHANGED <<mpc, timer>>
    BY <1>7 DEF HandleWrite, mainVars
  <2>2. CASE WriteNothing(fd)
    BY <2>1, <2>2, ModfdOpen, RefreshWatched DEF WriteNothing
  <2>3. CASE WriteKeep(fd)
    BY <2>1, <2>3, ModfdOpen, RefreshWatched DEF WriteKeep
  <2>4. CASE WriteBlocked(fd)
    BY <2>1, <2>4, ModfdOpen, RefreshWatched DEF WriteBlocked
  <2>5. CASE WriteDrop(fd)
    BY <2>1, <2>5, DropWatched DEF WriteDrop
  <2> QED
    BY <1>7, <2>2, <2>3, <2>4, <2>5 DEF HandleWrite
<1>8. ASSUME NEW fd \in Fds, WriteSpins(fd) PROVE Goal
  <2>1. \A g \in Fds : ready'[g] # "none" => ready[g] # "none"
    BY <1>8 DEF WriteSpins, WatchInv, TypeInv, TypeOK, BatchType
  <2> QED
    BY <1>8, <2>1, WatchKept DEF WriteSpins, WatchInv, ArmedOpen, TickQuiet, kernelVars,
       timerVars
<1>9. ASSUME NEW fd \in Fds, SpinEnds(fd) PROVE Goal
  BY <1>9, DropWatched DEF SpinEnds
<1>10. ASSUME NEW fd \in Fds, BrokenPipe(fd) PROVE Goal
  BY <1>10, WatchKept DEF BrokenPipe, WatchInv, ArmedOpen, TickQuiet, kernelVars, batchVars,
     timerVars
<1>11. CASE EndBatch
  BY <1>11, WatchKept DEF EndBatch, WatchInv, ArmedOpen, TickQuiet, kernelVars, batchVars,
     timerVars
<1>12. CASE TickEnd
  BY <1>12, WatchKept DEF TickEnd, WatchInv, ArmedOpen, TickQuiet, kernelVars, batchVars,
     timerVars
<1>13. ASSUME NEW t \in Ids, TickOne(t) PROVE Goal
  BY <1>13, TickWatched
<1>14. ASSUME NEW w \in Workers, Take(w) PROVE Goal
  BY <1>14, WatchKept DEF Take, WatchInv, ArmedOpen, TickQuiet, kernelVars, batchVars,
     mainVars, timerVars
<1>15. ASSUME NEW w \in Workers, Again(w) \/ Rearm(w) PROVE Goal
  <2>1. wjob[w].fd \in Fds
    BY <1>15 DEF Again, Rearm, WatchInv, TypeInv, WorkingHasTask, Tasks
  <2>2. ArmedOpen'
    BY <1>15, <2>1, ModfdOpen DEF Again, Rearm
  <2> QED
    BY <1>15, <2>2, WatchKept DEF Again, Rearm, WatchInv, TickQuiet, batchVars, mainVars,
       timerVars
<1>16. ASSUME NEW w \in Workers, Respond(w) \/ CloseStore(w) PROVE Goal
  BY <1>16, WatchKept DEF Respond, CloseStore, WatchInv, ArmedOpen, TickQuiet, kernelVars,
     batchVars, mainVars, timerVars
<1>17. ASSUME NEW w \in Workers, Fail(w) PROVE Goal
  <2>1. ArmedOpen' /\ \A g \in Fds : sock'[g] # None => sock[g] # None
    BY <1>17, CloseOpen DEF Fail, WatchInv, ArmedOpen, kernelVars
  <2> QED
    BY <1>17, <2>1, WatchKept DEF Fail, WatchInv, TickQuiet, batchVars, mainVars
<1>18. CASE UNCHANGED vars
  BY <1>18, WatchKept DEF vars, WatchInv, ArmedOpen, TickQuiet, kernelVars, batchVars,
     mainVars, timerVars
<1> QED
  BY <1>1, <1>2, <1>3, <1>4, <1>5, <1>6, <1>7, <1>8, <1>9, <1>10, <1>11, <1>12,
     <1>13, <1>14, <1>15, <1>16, <1>17, <1>18
  DEF Next, Batch, Handle, Tick, Worker

LEMMA WatchInvariant == Spec => []WatchInv
<1>1. Init => WatchInv
  BY TypeInit, WatchInit DEF WatchInv
<1>2. WatchInv /\ [Next]_vars => WatchInv'
  BY TypeStep, WatchStep DEF WatchInv
<1> QED
  BY <1>1, <1>2, PTL DEF Spec

\* Whatever the workers do and however late they are, the timer a handler
\* calls through users_timer[fd].timer exists and is this descriptor's.
THEOREM TimersNeverDangle == Spec => []NoDanglingTimer
<1>1. WatchInv => NoDanglingTimer
  BY DEF WatchInv
<1> QED
  BY <1>1, WatchInvariant, PTL
-----------------------------------------------------------------------------
(***************************************************************************)
(* Connections and timers. A timer that has lost its connection, to a      *)
(* worker's close_conn or to another timer, stays in the list: the         *)
(* pairing has to account for those, and they are in orphans. What a tick  *)
(* is about to fire has expired, whatever it fires upon.                   *)
(***************************************************************************)

DueExpired == mpc = "tick" => \A t \in due : expire[t] = 0
PairInv == WatchInv /\ TimerPerConnection /\ DueExpired

\* The two halves of TimerPerConnection, for one connection and one timer.
Watches(fd) == timer[fd] = sock[fd] /\ expire[sock[fd]] # Freed /\ user_data[sock[fd]] = fd
Accounted(t) == user_data[t] \in Fds /\ (sock[user_data[t]] = t \/ t \in orphans)

LEMMA PairHalves ==
  TimerPerConnection <=>
    /\ \A fd \in Fds : sock[fd] # None => Watches(fd)
    /\ \A t \in Ids : expire[t] # Freed => Accounted(t)
BY DEF TimerPerConnection, Watches, Accounted, Alive, Open

\* Steps that neither open nor close a connection, nor free a timer.
LEMMA PairKept ==
  ASSUME PairInv, UNCHANGED <<sock, timer, user_data, orphans>>,
         \A t \in Ids : (expire'[t] = Freed) <=> (expire[t] = Freed)
  PROVE  TimerPerConnection'
<1>1. \A fd \in Fds : sock[fd] # None => sock[fd] \in Ids
  BY DEF PairInv, WatchInv, TypeInv, TypeOK, KernelType
<1>2. \A fd \in Fds : sock'[fd] # None => Watches(fd)'
  BY <1>1, PairHalves DEF PairInv, Watches
<1>3. \A t \in Ids : expire'[t] # Freed => Accounted(t)'
  BY PairHalves DEF PairInv, Accounted
<1> QED
  BY <1>2, <1>3 DEF TimerPerConnection, Watches, Accounted, Alive, Open

\* close() leaves the other connections alone, and the timer of the one it
\* closes, unless it is the one that fires, becomes an orphan.
LEMMA PairClosed ==
  ASSUME PairInv, NEW fd \in Fds, Close(fd), UNCHANGED timer, NEW gone,
         \A t \in Ids : t # gone => expire'[t] = expire[t] /\ user_data'[t] = user_data[t],
         gone \in Ids => expire'[gone] = Freed /\ user_data[gone] = fd,
         \A t \in Ids : t # gone /\ (t \in orphans \/ t = sock[fd]) => t \in orphans'
  PROVE  TimerPerConnection'
<1>1. sock'[fd] = None /\ \A g \in Fds : g # fd => sock'[g] = sock[g]
  BY DEF Close, PairInv, WatchInv, TypeInv, TypeOK, KernelType
<1>2. ASSUME NEW g \in Fds, sock'[g] # None PROVE Watches(g)'
  <2>1. g # fd /\ sock'[g] = sock[g] /\ sock[g] # None
    BY <1>1, <1>2
  <2>2. Watches(g) /\ sock[g] \in Ids
    BY <2>1, PairHalves DEF PairInv, WatchInv, TypeInv, TypeOK, KernelType
  <2>3. sock[g] # gone
    BY <2>1, <2>2 DEF Watches
  <2> QED
    BY <2>1, <2>2, <2>3 DEF Watches
<1>3. ASSUME NEW t \in Ids, expire'[t] # Freed PROVE Accounted(t)'
  <2>1. t # gone
    BY <1>3
  <2>2. Accounted(t) /\ user_data'[t] = user_data[t]
    BY <1>3, <2>1, PairHalves DEF PairInv
  <2> QED
    BY <1>1, <2>1, <2>2 DEF Accounted
<1> QED
  BY <1>2, <1>3 DEF TimerPerConnection, Watches, Accounted, Alive, Open

\* A timer fires upon its own descriptor.
LEMMA PairFired ==
  ASSUME PairInv, NEW t \in Ids, NEW fd \in Fds, user_data[t] = fd, Fire(t, fd),
         UNCHANGED timer
  PROVE  TimerPerConnection'
<1>1. expire'[t] = Freed
  BY DEF Fire, DelTimer, PairInv, WatchInv, TypeInv, TypeOK, TimerType
<1>2. \A u \in Ids : u # t => expire'[u] = expire[u] /\ user_data'[u] = user_data[u]
  BY DEF Fire, DelTimer, PairInv, WatchInv, TypeInv, TypeOK, TimerType
<1>3. \A u \in Ids : u # t /\ (u \in orphans \/ u = sock[fd]) => u \in orphans'
  BY DEF Fire
<1>4. Close(fd)
  BY DEF Fire, CbFunc
<1> QED
  BY <1>1, <1>2, <1>3, <1>4, PairClosed

\* A handler drops the connection of its event: that timer is its own.
LEMMA PairDrop ==
  ASSUME PairInv, NEW fd \in Fds, ready[fd] # "none", Drop(fd), UNCHANGED timer
  PROVE  TimerPerConnection'
<1>1. timer[fd] \in Ids /\ user_data[timer[fd]] = fd
  BY TimerThere DEF PairInv
<1> QED
  BY <1>1, PairFired DEF Drop

\* A handler keeps the connection of its event and pushes its timer back.
LEMMA PairRefresh ==
  ASSUME PairInv, NEW fd \in Fds, ready[fd] # "none", Refresh(fd),
         UNCHANGED <<sock, timer, user_data, orphans>>
  PROVE  TimerPerConnection'
<1>1. timer[fd] \in Ids /\ expire[timer[fd]] # Freed
  BY TimerThere DEF PairInv
<1>2. \A t \in Ids : (expire'[t] = Freed) <=> (expire[t] = Freed)
  BY <1>1, BoundsAssumption
  DEF PairInv, WatchInv, TypeInv, TypeOK, TimerType, Refresh, Freed
<1> QED
  BY <1>2, PairKept

\* A new connection gets a timer of its own.
LEMMA PairAccept ==
  ASSUME PairInv, NEW fd \in Fds \ Open, NEW id \in Ids, Fresh(id), AcceptConn(fd, id)
  PROVE  TimerPerConnection'
<1> USE DEF PairInv, WatchInv, TypeInv, TypeOK, KernelType, TimerType
<1>1. sock'[fd] = id /\ timer'[fd] = id /\ expire'[id] = Slots /\ user_data'[id] = fd
  BY DEF AcceptConn, BindTimer
<1>2. \A g \in Fds : g # fd => sock'[g] = sock[g] /\ timer'[g] = timer[g]
  BY DEF AcceptConn, BindTimer
<1>3. \A t \in Ids : t # id => expire'[t] = expire[t] /\ user_data'[t] = user_data[t]
  BY DEF AcceptConn
<1>4. id # None /\ sock[fd] = None /\ (\A g \in Fds : sock[g] # id) /\ Slots # Freed
  BY NoneAssumption, BoundsAssumption DEF Fresh, Open, Freed
<1>5. ASSUME NEW g \in Fds, sock'[g] # None PROVE Watches(g)'
  <2>1. CASE g = fd
    BY <1>1, <1>4, <2>1 DEF Watches
  <2>2. CASE g # fd
    <3>1. sock'[g] = sock[g] /\ sock[g] \in Ids /\ sock[g] # id
      BY <1>2, <1>4, <1>5, <2>2
    <3>2. Watches(g)
      BY <1>5, <3>1, PairHalves
    <3> QED
      BY <1>2, <1>3, <2>2, <3>1, <3>2 DEF Watches
  <2> QED
    BY <2>1, <2>2
<1>6. ASSUME NEW t \in Ids, expire'[t] # Freed PROVE Accounted(t)'
  <2>1. CASE t = id
    BY <1>1, <2>1 DEF Accounted
  <2>2. CASE t # id
    <3>1. Accounted(t) /\ user_data'[t] = user_data[t]
      BY <1>3, <1>6, <2>2, PairHalves
    <3>2. orphans' = orphans
      BY DEF AcceptConn
    <3> QED
      BY <1>2, <1>4, <3>1, <3>2, NoneAssumption DEF Accounted
  <2> QED
    BY <2>1, <2>2
<1> QED
  BY <1>5, <1>6 DEF TimerPerConnection, Watches, Accounted, Alive, Open

LEMMA PairInit == Init => TimerPerConnection /\ DueExpired
BY DEF Init, TimerPerConnection, Alive, Open, DueExpired

\* Of what is due, a step can only fire one, which is not due any more.
LEMMA DueStep == PairInv /\ [Next]_vars => DueExpired'
<1> SUFFICES ASSUME PairInv, [Next]_vars, mpc' = "tick", NEW t \in due' PROVE expire'[t] = 0
  BY DEF DueExpired
<1> USE DEF PairInv, WatchInv, TypeInv, TypeOK, MainType, TimerType
<1>1. CASE TimePasses
  <2>1. t \in Ids /\ expire[t] = 0
    BY <1>1 DEF TimePasses, DueExpired, mainVars
  <2> QED
    BY <1>1, <2>1 DEF TimePasses
<1>2. CASE EndBatch
  BY <1>2 DEF EndBatch, DueExpired, Expired, timerVars
<1>3. ASSUME NEW u \in Ids, TickOne(u) PROVE expire'[t] = 0
  <2>1. t \in due /\ t # u /\ mpc = "tick"
    BY <1>3 DEF TickOne
  <2> QED
    BY <1>3, <2>1 DEF TickOne, Fire, DelTimer, DueExpired
<1>4. CASE \/ EpollWait \/ HandleAccept \/ HandleSignal \/ TickEnd
           \/ \E fd \in Fds : Handle(fd)
  BY <1>4 DEF EpollWait, HandleAccept, HandleSignal, TickEnd, Handle, HandleHup, HandleRead,
     HandleWrite, WriteSpins, SpinEnds, BrokenPipe, mainVars
<1>5. ASSUME NEW w \in Workers, Worker(w) PROVE expire'[t] = 0
  BY <1>5 DEF Worker, Take, Again, Respond, Fail, CloseStore, Rearm, DueExpired, mainVars,
     timerVars
<1>6. CASE UNCHANGED vars
  BY <1>6 DEF vars, DueExpired, mainVars, timerVars
<1> QED
  BY <1>1, <1>2, <1>3, <1>4, <1>5, <1>6 DEF Next, Batch, Tick

LEMMA PairStep == PairInv /\ [Next]_vars => TimerPerConnection'
<1> SUFFICES ASSUME PairInv, [Next]_vars PROVE TimerPerConnection'
  OBVIOUS
<1>1. CASE TimePasses
  <2>1. \A t \in Ids : (expire'[t] = Freed) <=> (expire[t] = Freed)
    BY <1>1, BoundsAssumption
    DEF TimePasses, PairInv, WatchInv, TypeInv, TypeOK, TimerType, Freed
  <2> QED
    BY <1>1, <2>1, PairKept DEF TimePasses, kernelVars
<1>2. ASSUME UNCHANGED <<sock, timerVars>> PROVE TimerPerConnection'
  BY <1>2, PairKept DEF timerVars
<1>3. CASE HandleAccept
  BY <1>2, <1>3, PairAccept DEF HandleAccept, kernelVars
<1>4. ASSUME NEW fd \in Fds, HandleHup(fd) PROVE TimerPerConnection'
  BY <1>4, PairDrop DEF HandleHup
<1>5. ASSUME NEW fd \in Fds, HandleRead(fd) PROVE TimerPerConnection'
  BY <1>5, PairDrop, PairRefresh DEF HandleRead
<1>6. ASSUME NEW fd \in Fds, HandleWrite(fd) PROVE TimerPerConnection'
  <2>1. ready[fd] # "none" /\ UNCHANGED timer
    BY <1>6 DEF HandleWrite
  <2>2. CASE WriteDrop(fd)
    BY <2>1, <2>2, PairDrop DEF WriteDrop
  <2>3. CASE WriteNothing(fd) \/ WriteKeep(fd) \/ WriteBlocked(fd)
    BY <2>1, <2>3, PairRefresh DEF WriteNothing, WriteKeep, WriteBlocked
  <2> QED
    BY <1>6, <2>2, <2>3 DEF HandleWrite
<1>7. ASSUME NEW fd \in Fds, SpinEnds(fd) PROVE TimerPerConnection'
  BY <1>7, PairDrop DEF SpinEnds
<1>8. ASSUME NEW t \in Ids, TickOne(t) PROVE TimerPerConnection'
  <2>1. expire[t] # Freed
    BY <1>8 DEF TickOne, PairInv, DueExpired, Freed
  <2>2. user_data[t] \in Fds
    BY <2>1, PairHalves DEF PairInv, Accounted
  <2> QED
    BY <1>8, <2>2, PairFired DEF TickOne
<1>9. ASSUME NEW w \in Workers, Fail(w) PROVE TimerPerConnection'
  <2> DEFINE fd == wjob[w].fd
  <2>1. fd \in Fds
    BY <1>9 DEF Fail, PairInv, WatchInv, TypeInv, WorkingHasTask, Tasks
  <2>2. CASE UNCHANGED <<kernelVars, orphans>>
    BY <1>2, <1>9, <2>2 DEF Fail, kernelVars, timerVars
  <2>3. CASE Close(fd) /\ orphans' = orphans \cup ({sock[fd]} \cap Ids)
    BY <1>9, <2>1, <2>3, PairClosed, NoneAssumption DEF Fail
  <2> QED
    BY <1>9, <2>2, <2>3 DEF Fail
<1>10. CASE EpollWait \/ HandleSignal \/ EndBatch \/ TickEnd \/ UNCHANGED vars
  BY <1>2, <1>10 DEF EpollWait, HandleSignal, EndBatch, TickEnd, vars, kernelVars
<1>11. ASSUME NEW fd \in Fds, WriteSpins(fd) \/ BrokenPipe(fd) PROVE TimerPerConnection'
  BY <1>2, <1>11 DEF WriteSpins, BrokenPipe, kernelVars
<1>12. ASSUME NEW w \in Workers, Take(w) \/ Again(w) \/ Respond(w) \/ CloseStore(w) \/ Rearm(w)
       PROVE  TimerPerConnection'
  BY <1>2, <1>12 DEF Take, Again, Respond, CloseStore, Rearm, kernelVars
<1> QED
  BY <1>1, <1>3, <1>4, <1>5, <1>6, <1>7, <1>8, <1>9, <1>10, <1>11, <1>12
  DEF Next, Batch, Handle, Tick, Worker

LEMMA PairInvariant == Spec => []PairInv
<1>1. Init => TimerPerConnection /\ DueExpired
  BY PairInit
<1>2. WatchInv /\ TimerPerConnection /\ DueExpired /\ [Next]_vars
        => TimerPerConnection' /\ DueExpired'
  BY PairStep, DueStep DEF PairInv
<1> QED
  BY <1>1, <1>2, WatchInvariant, PTL DEF Spec, PairInv

\* Connections and timers pair off, but for the timers that are left behind.
THEOREM TimersPairOff == Spec => []TimerPerConnection
<1>1. PairInv => TimerPerConnection
  BY DEF PairInv
<1> QED
  BY <1>1, PairInvariant, PTL

\* A tick closes a connection when its timer has run out, or else by the timer
\* of an earlier connection, which close_conn has left behind.
THEOREM TickSparesActive == Spec => TickSpares
<1> DEFINE Spared(fd) ==
      mpc = "tick" /\ due' # due /\ sock'[fd] = None =>
         \/ expire[sock[fd]] = 0
         \/ \E t \in (due \ due') \cap orphans : user_data[t] = fd
<1>1. ASSUME PairInv, [Next]_vars PROVE [\A fd \in Open : Spared(fd)]_vars
  <2> SUFFICES ASSUME NEW fd \in Open, mpc = "tick", due' # due, sock'[fd] = None
               PROVE  \/ expire[sock[fd]] = 0
                      \/ \E t \in (due \ due') \cap orphans : user_data[t] = fd
    OBVIOUS
  <2>1. PICK t \in Ids : TickOne(t)
    BY <1>1 DEF Next, TimePasses, EpollWait, Batch, HandleAccept, HandleSignal, Handle,
       HandleHup, HandleRead, HandleWrite, WriteSpins, SpinEnds, BrokenPipe, EndBatch, Tick,
       TickEnd, Worker, Take, Again, Respond, Fail, CloseStore, Rearm, vars, mainVars
  <2>2. expire[t] = 0 /\ t \in due \ due'
    BY <1>1, <2>1 DEF TickOne, PairInv, DueExpired
  <2>3. Accounted(t)
    BY <1>1, <2>2, PairHalves DEF PairInv, Freed
  <2>4. fd = user_data[t]
    BY <1>1, <2>1
    DEF TickOne, Fire, CbFunc, Close, Open, PairInv, WatchInv, TypeInv, TypeOK, KernelType
  <2> QED
    BY <2>2, <2>3, <2>4 DEF Accounted
<1> QED
  BY <1>1, PairInvariant, PTL DEF Spec, TickSpares
-----------------------------------------------------------------------------
(***************************************************************************)
(* m_user_count. Every close() is followed by one decrement, at once in    *)
(* cb_func and later in close_conn; a close() of what was closed already   *)
(* makes one more. What the main thread and a worker do to the count at    *)
(* the same time is beyond it, and there raced says so.                    *)
(***************************************************************************)

LEMMA OpenFinite == IsFiniteSet(Open) /\ Cardinality(Open) \in Nat
BY FdsAssumption, FS_Subset, FS_CardinalityType DEF Open

LEMMA ClosingFinite == IsFiniteSet(Closing) /\ Cardinality(Closing) \in Nat
BY WorkersAssumption, FS_Subset, FS_CardinalityType DEF Closing

\* The count is right for a number of open and of closing connections.
Counts(open, closing, count, twice) ==
  count + twice = open + closing /\ open <= MaxUsers + twice

LEMMA CountRead ==
  CountMatchesOpen <=>
    (~raced => Counts(Cardinality(Open), Cardinality(Closing), m_user_count, doubles))
BY DEF CountMatchesOpen, Counts

\* The four ways in which the numbers move.
LEMMA CountsDown ==
  ASSUME NEW open \in Nat, NEW closing \in Nat, NEW count \in Int, NEW twice \in Nat,
         Counts(open, closing, count, twice)
  PROVE  /\ Counts(open - 1, closing, count - 1, twice)
         /\ Counts(open, closing, count - 1, twice + 1)
         /\ Counts(open - 1, closing + 1, count, twice)
         /\ Counts(open, closing + 1, count, twice + 1)
         /\ Counts(open, closing - 1, count - 1, twice)
BY BoundsAssumption DEF Counts

LEMMA CountsUp ==
  ASSUME NEW open \in Nat, NEW closing \in Nat, NEW count \in Int, NEW twice \in Nat,
         Counts(open, closing, count, twice), ~(count >= MaxUsers)
  PROVE  Counts(open + 1, closing, count + 1, twice)
BY BoundsAssumption DEF Counts

LEMMA CountTypes ==
  ASSUME TypeInv PROVE m_user_count \in Int /\ doubles \in Nat
BY DEF TypeInv, TypeOK, ConnType

\* Closing an open descriptor leaves one fewer open, a closed one as many.
LEMMA OpenClosed ==
  ASSUME TypeInv, NEW fd \in Fds, Close(fd)
  PROVE  /\ sock[fd] # None => Cardinality(Open') = Cardinality(Open) - 1
         /\ sock[fd] = None => Open' = Open
<1>1. Open' = Open \ {fd}
  BY DEF Open, Close, TypeInv, TypeOK, KernelType
<1>2. CASE sock[fd] # None
  <2>1. fd \in Open
    BY <1>2 DEF Open
  <2>2. Cardinality(Open \ {fd}) = Cardinality(Open) - 1
    BY <2>1, OpenFinite, FS_RemoveElement
  <2> QED
    BY <1>1, <1>2, <2>2
<1>3. CASE sock[fd] = None
  BY <1>1, <1>3 DEF Open
<1> QED
  BY <1>2, <1>3

\* Steps that neither open nor close, nor begin or end a close_conn.
LEMMA CountKept ==
  ASSUME CountMatchesOpen, UNCHANGED <<sock, m_user_count, doubles>>, raced' = raced,
         Closing' = Closing
  PROVE  CountMatchesOpen'
<1>1. Open' = Open
  BY DEF Open
<1> QED
  BY <1>1 DEF CountMatchesOpen

\* cb_func counts down what it closes.
LEMMA CountFired ==
  ASSUME TypeInv, CountMatchesOpen, NEW fd \in Fds, CbFunc(fd), UNCHANGED wpc
  PROVE  CountMatchesOpen'
<1> SUFFICES ASSUME ~raced' PROVE CountMatchesOpen'
  BY DEF CountMatchesOpen
<1>1. ~raced /\ Closing' = Closing
  BY DEF CbFunc, Closing
<1>2. Counts(Cardinality(Open), Cardinality(Closing), m_user_count, doubles)
  BY <1>1, CountRead
<1>3. m_user_count' = m_user_count - 1
  BY DEF CbFunc
<1>4. CASE sock[fd] # None
  <2>1. Cardinality(Open') = Cardinality(Open) - 1 /\ doubles' = doubles
    BY <1>4, OpenClosed DEF CbFunc, CountTwice
  <2>2. Counts(Cardinality(Open) - 1, Cardinality(Closing), m_user_count - 1, doubles)
    BY <1>2, CountsDown, OpenFinite, ClosingFinite, CountTypes
  <2>3. Counts(Cardinality(Open'), Cardinality(Closing'), m_user_count', doubles')
    BY <1>1, <1>3, <2>1, <2>2
  <2> QED
    BY <2>3 DEF CountMatchesOpen, Counts
<1>5. CASE sock[fd] = None
  <2>1. Open' = Open /\ doubles' = doubles + 1
    BY <1>1, <1>5, OpenClosed DEF CbFunc, CountTwice
  <2>2. Counts(Cardinality(Open), Cardinality(Closing), m_user_count - 1, doubles + 1)
    BY <1>2, CountsDown, OpenFinite, ClosingFinite, CountTypes
  <2>3. Counts(Cardinality(Open'), Cardinality(Closing'), m_user_count', doubles')
    BY <1>1, <1>3, <2>1, <2>2
  <2> QED
    BY <2>3 DEF CountMatchesOpen, Counts
<1> QED
  BY <1>4, <1>5

\* accept counts up, below MAX_FD only.
LEMMA CountAccepted ==
  ASSUME TypeInv, CountMatchesOpen, ~Full, NEW fd \in Fds \ Open, NEW id \in Ids,
         AcceptConn(fd, id), UNCHANGED wpc
  PROVE  CountMatchesOpen'
<1> SUFFICES ASSUME ~raced' PROVE CountMatchesOpen'
  BY DEF CountMatchesOpen
<1>1. ~raced /\ doubles' = doubles /\ m_user_count' = m_user_count + 1 /\ Closing' = Closing
  BY DEF AcceptConn, Closing
<1>2. Open' = Open \cup {fd}
  BY NoneAssumption DEF Open, AcceptConn, TypeInv, TypeOK, KernelType
<1>3. Cardinality(Open \cup {fd}) = Cardinality(Open) + 1
  BY OpenFinite, FS_AddElement
<1>4. Counts(Cardinality(Open), Cardinality(Closing), m_user_count, doubles)
  BY <1>1, CountRead
<1>5. Counts(Cardinality(Open) + 1, Cardinality(Closing), m_user_count + 1, doubles)
  BY <1>4, CountsUp, OpenFinite, ClosingFinite, CountTypes DEF Full
<1>6. Counts(Cardinality(Open'), Cardinality(Closing'), m_user_count', doubles')
  BY <1>1, <1>2, <1>3, <1>5
<1> QED
  BY <1>6 DEF CountMatchesOpen, Counts

\* close_conn closes now and counts down later; until then it is closing.
LEMMA CountFailed ==
  ASSUME TypeInv, CountMatchesOpen, NEW w \in Workers, Fail(w)
  PROVE  CountMatchesOpen'
<1> DEFINE fd == wjob[w].fd
<1>1. fd \in Fds /\ m_user_count' = m_user_count /\ raced' = raced
  BY DEF Fail, TypeInv, WorkingHasTask, Tasks
<1>2. CASE UNCHANGED <<kernelVars, doubles>> /\ wpc' = [wpc EXCEPT ![w] = "arm"]
  <2>1. Closing' = Closing
    BY <1>2 DEF Fail, Closing, TypeInv, TypeOK, PoolType
  <2> QED
    BY <1>1, <1>2, <2>1, CountKept DEF kernelVars
<1>3. CASE Close(fd) /\ CountTwice(fd) /\ wpc' = [wpc EXCEPT ![w] = "close"]
  <2> HIDE DEF fd
  <2> SUFFICES ASSUME ~raced' PROVE CountMatchesOpen'
    BY DEF CountMatchesOpen
  <2>1. w \notin Closing /\ Closing' = Closing \cup {w}
    BY <1>3 DEF Fail, Closing, TypeInv, TypeOK, PoolType
  <2>2. Cardinality(Closing \cup {w}) = Cardinality(Closing) + 1
    BY <2>1, ClosingFinite, FS_AddElement
  <2>3. Cardinality(Closing') = Cardinality(Closing) + 1
    BY <2>1, <2>2
  <2>4. ~raced /\ Counts(Cardinality(Open), Cardinality(Closing), m_user_count, doubles)
    BY <1>1, CountRead
  <2>5. CASE sock[fd] # None
    <3>1. Cardinality(Open') = Cardinality(Open) - 1 /\ doubles' = doubles
      BY <1>1, <1>3, <2>5, OpenClosed DEF CountTwice
    <3>2. Counts(Cardinality(Open) - 1, Cardinality(Closing) + 1, m_user_count, doubles)
      BY <2>4, CountsDown, OpenFinite, ClosingFinite, CountTypes
    <3>3. Counts(Cardinality(Open'), Cardinality(Closing'), m_user_count', doubles')
      BY <1>1, <2>3, <3>1, <3>2
    <3> QED
      BY <3>3 DEF CountMatchesOpen, Counts
  <2>6. CASE sock[fd] = None
    <3>1. Open' = Open /\ doubles' = doubles + 1
      BY <1>1, <1>3, <2>4, <2>6, OpenClosed DEF CountTwice
    <3>2. Counts(Cardinality(Open), Cardinality(Closing) + 1, m_user_count, doubles + 1)
      BY <2>4, CountsDown, OpenFinite, ClosingFinite, CountTypes
    <3>3. Counts(Cardinality(Open'), Cardinality(Closing'), m_user_count', doubles')
      BY <1>1, <2>3, <3>1, <3>2
    <3> QED
      BY <3>3 DEF CountMatchesOpen, Counts
  <2> QED
    BY <2>5, <2>6
<1> QED
  BY <1>2, <1>3 DEF Fail

\* The end of close_conn counts one down, or else it has raced.
LEMMA CountStored ==
  ASSUME TypeInv, CountMatchesOpen, NEW w \in Workers, CloseStore(w)
  PROVE  CountMatchesOpen'
<1> SUFFICES ASSUME ~raced' PROVE CountMatchesOpen'
  BY DEF CountMatchesOpen
<1>1. ~raced /\ m_user_count' = m_user_count - 1
  BY DEF CloseStore
<1>2. doubles' = doubles /\ Open' = Open
  BY DEF CloseStore, Open, kernelVars
<1>3. w \in Closing /\ Closing' = Closing \ {w}
  BY DEF CloseStore, Closing, TypeInv, TypeOK, PoolType
<1>4. Cardinality(Closing \ {w}) = Cardinality(Closing) - 1
  BY <1>3, ClosingFinite, FS_RemoveElement
<1>5. Counts(Cardinality(Open), Cardinality(Closing), m_user_count, doubles)
  BY <1>1, CountRead
<1>6. Counts(Cardinality(Open), Cardinality(Closing) - 1, m_user_count - 1, doubles)
  BY <1>5, CountsDown, OpenFinite, ClosingFinite, CountTypes
<1>7. Counts(Cardinality(Open'), Cardinality(Closing'), m_user_count', doubles')
  BY <1>1, <1>2, <1>3, <1>4, <1>6
<1> QED
  BY <1>7 DEF CountMatchesOpen, Counts

LEMMA CountInit == Init => CountMatchesOpen
<1> SUFFICES ASSUME Init PROVE CountMatchesOpen
  OBVIOUS
<1>1. Open = {} /\ Closing = {}
  BY DEF Init, Open, Closing
<1>2. m_user_count = 0 /\ doubles = 0
  BY DEF Init
<1> QED
  BY <1>1, <1>2, FS_EmptySet, BoundsAssumption DEF CountMatchesOpen

LEMMA CountStep == PairInv /\ CountMatchesOpen /\ [Next]_vars => CountMatchesOpen'
<1> SUFFICES ASSUME PairInv, CountMatchesOpen, [Next]_vars PROVE CountMatchesOpen'
  OBVIOUS
<1>0. TypeInv
  BY DEF PairInv, WatchInv
<1>1. ASSUME UNCHANGED <<sock, wpc>>, UNCHANGED <<m_user_count, doubles>>, raced' = raced
      PROVE  CountMatchesOpen'
  BY <1>1, CountKept DEF Closing
<1>2. CASE TimePasses \/ EpollWait \/ HandleSignal \/ EndBatch \/ TickEnd \/ UNCHANGED vars
  <2>1. UNCHANGED <<sock, wpc>> /\ UNCHANGED <<m_user_count, doubles>>
    BY <1>2 DEF TimePasses, EpollWait, HandleSignal, EndBatch, TickEnd, vars, kernelVars,
       connVars, countVars, poolVars
  <2>2. raced' = raced
    BY <1>2 DEF TimePasses, EpollWait, HandleSignal, EndBatch, TickEnd, vars, connVars, countVars
  <2> QED
    BY <1>1, <2>1, <2>2
<1>3. CASE HandleAccept
  <2>1. UNCHANGED wpc
    BY <1>3 DEF HandleAccept, poolVars
  <2>2. CASE UNCHANGED <<kernelVars, timerVars, connVars>>
    <3>1. UNCHANGED <<sock, m_user_count, doubles>> /\ raced' = raced
      BY <2>2 DEF kernelVars, connVars, countVars
    <3> QED
      BY <1>1, <2>1, <3>1
  <2>3. CASE ~Full /\ \E fd \in Fds \ Open, id \in Ids : Fresh(id) /\ AcceptConn(fd, id)
    BY <1>0, <2>1, <2>3, CountAccepted
  <2> QED
    BY <1>3, <2>2, <2>3 DEF HandleAccept
<1>4. ASSUME NEW fd \in Fds, Drop(fd), UNCHANGED wpc PROVE CountMatchesOpen'
  BY <1>0, <1>4, CountFired DEF Drop, Fire
<1>5. ASSUME NEW fd \in Fds, HandleHup(fd) \/ SpinEnds(fd) PROVE CountMatchesOpen'
  BY <1>4, <1>5 DEF HandleHup, SpinEnds, poolVars
<1>6. ASSUME NEW fd \in Fds, HandleRead(fd) PROVE CountMatchesOpen'
  <2>1. UNCHANGED wpc
    BY <1>6 DEF HandleRead
  <2>2. CASE Drop(fd)
    BY <1>4, <2>1, <2>2
  <2>3. CASE UNCHANGED <<sock, countVars>>
    <3>1. UNCHANGED <<sock, m_user_count, doubles>> /\ raced' = raced
      BY <2>3 DEF countVars
    <3> QED
      BY <1>1, <2>1, <3>1
  <2> QED
    BY <1>6, <2>2, <2>3 DEF HandleRead
<1>7. ASSUME NEW fd \in Fds, HandleWrite(fd) PROVE CountMatchesOpen'
  <2>1. UNCHANGED wpc
    BY <1>7 DEF HandleWrite, poolVars
  <2>2. CASE WriteDrop(fd)
    BY <1>4, <2>1, <2>2 DEF WriteDrop
  <2>3. CASE UNCHANGED <<sock, countVars>>
    <3>1. UNCHANGED <<sock, m_user_count, doubles>> /\ raced' = raced
      BY <2>3 DEF countVars
    <3> QED
      BY <1>1, <2>1, <3>1
  <2> QED
    BY <1>7, <2>2, <2>3 DEF HandleWrite, WriteNothing, WriteKeep, WriteBlocked
<1>8. ASSUME NEW fd \in Fds, WriteSpins(fd) \/ BrokenPipe(fd) PROVE CountMatchesOpen'
  <2>1. UNCHANGED <<sock, wpc>> /\ UNCHANGED <<m_user_count, doubles>> /\ raced' = raced
    BY <1>8 DEF WriteSpins, BrokenPipe, kernelVars, connVars, countVars, poolVars
  <2> QED
    BY <1>1, <2>1
<1>9. ASSUME NEW t \in Ids, TickOne(t) PROVE CountMatchesOpen'
  <2>1. expire[t] # Freed
    BY <1>9 DEF TickOne, PairInv, DueExpired, Freed
  <2>2. user_data[t] \in Fds
    BY <2>1, PairHalves DEF PairInv, Accounted
  <2> QED
    BY <1>0, <1>9, <2>2, CountFired DEF TickOne, Fire, poolVars
<1>10. ASSUME NEW w \in Workers, Take(w) \/ Again(w) \/ Respond(w) \/ Rearm(w)
       PROVE  CountMatchesOpen'
  <2>1. Closing' = Closing
    BY <1>0, <1>10 DEF Take, Again, Respond, Rearm, Done, Closing, TypeInv, TypeOK, PoolType
  <2>2. UNCHANGED <<sock, m_user_count, doubles>>
    BY <1>10 DEF Take, Again, Respond, Rearm, kernelVars, connVars, countVars
  <2>3. raced' = raced
    BY <1>10 DEF Take, Again, Respond, Rearm, connVars, countVars
  <2> QED
    BY <2>1, <2>2, <2>3, CountKept
<1>11. ASSUME NEW w \in Workers, Fail(w) \/ CloseStore(w) PROVE CountMatchesOpen'
  BY <1>0, <1>11, CountFailed, CountStored
<1> QED
  BY <1>2, <1>3, <1>5, <1>6, <1>7, <1>8, <1>9, <1>10, <1>11
  DEF Next, Batch, Handle, Tick, Worker

\* m_user_count counts the connections, until two threads update it at once.
THEOREM UsersCounted == Spec => []CountMatchesOpen
BY CountInit, CountStep, PairInvariant, PTL DEF Spec
-----------------------------------------------------------------------------
(***************************************************************************)
(* Which thread may touch users[fd]. A connection belongs to its task from *)
(* the append in the EPOLLIN handler to the worker's modfd, and to epoll   *)
(* and the main thread the rest of the time. A worker may keep its task    *)
(* beyond the connection, and the descriptor may then be given to another: *)
(* from its first day on that one is intruded, and nothing is claimed.     *)
(***************************************************************************)

Mine(fd) == sock[fd] # None /\ "intruded" \notin mark[fd]

\* What a task finds: the connection that was read is still the one on the
\* descriptor, epoll and the batch do not know it.
Undisturbed(fd) ==
  \A task \in InFlight :
    task.fd = fd => task.id = sock[fd] /\ armed[fd] = {} /\ ready[fd] = "none"

\* No two tasks have the descriptor.
OneTask(fd) ==
  /\ \A i, j \in DOMAIN queue : queue[i].fd = fd /\ queue[j].fd = fd => i = j
  /\ \A v, w \in Working : wjob[v].fd = fd /\ wjob[w].fd = fd => v = w
  /\ \A i \in DOMAIN queue, w \in Working : ~(queue[i].fd = fd /\ wjob[w].fd = fd)

\* Nobody has called close_conn upon it, and it can be re-armed.
Reachable(fd) == m_sockfd[fd] /\ \A w \in Closing : wjob[w].fd # fd

\* EPOLLONESHOT: what is in the batch is not armed any more.
Disarmed(fd) == ready[fd] # "none" => armed[fd] = {}

Own(fd) == Undisturbed(fd) /\ OneTask(fd) /\ Reachable(fd) /\ Disarmed(fd)
OwnFacts == \A fd \in Fds : Mine(fd) => Own(fd)
OwnInv == TypeInv /\ OwnFacts

\* The tasks in flight, one by one.
LEMMA InFlightMembers ==
  ASSUME TypeInv
  PROVE  /\ InFlight \subseteq Tasks
         /\ \A i \in DOMAIN queue : queue[i] \in InFlight
         /\ \A w \in Working : wjob[w] \in InFlight
         /\ \A task \in InFlight :
              \/ \E i \in DOMAIN queue : task = queue[i]
              \/ \E w \in Working : task = wjob[w]
<1>1. \A i \in DOMAIN queue : queue[i] \in Tasks
  BY DEF TypeInv, TypeOK, PoolType
<1>2. \A w \in Working : wjob[w] \in Tasks
  BY DEF TypeInv, WorkingHasTask, Working
<1> QED
  BY <1>1, <1>2 DEF InFlight, Range

\* The tasks of the next state are those of this one.
SameTasks == Working' = Working /\ UNCHANGED <<queue, wjob>>

LEMMA SameInFlight ==
  ASSUME SameTasks
  PROVE  InFlight' = InFlight /\ \A fd \in Fds : OneTask(fd) => OneTask(fd)'
BY DEF SameTasks, InFlight, Range, OneTask

\* A descriptor nobody has a task of.
LEMMA NoTaskOwn ==
  ASSUME TypeInv, NEW fd \in Fds, ~InUse(fd)
  PROVE  Undisturbed(fd) /\ OneTask(fd) /\ \A w \in Closing : wjob[w].fd # fd
<1>1. \A w \in Closing : w \in Working
  BY DEF Closing, Working
<1> QED
  BY <1>1, InFlightMembers DEF InUse, Undisturbed, OneTask

\* The connection of an event of the batch has no task.
LEMMA EventApart ==
  ASSUME OwnInv, NEW fd \in Fds, Mine(fd), ready[fd] # "none"
  PROVE  ~InUse(fd) /\ armed[fd] = {} /\ m_sockfd[fd]
BY DEF OwnInv, OwnFacts, Own, Undisturbed, Disarmed, Reachable, InUse

\* A step of the main thread, which leaves the tasks alone: what it changes of
\* a connection is one that no task has.
LEMMA OwnKept ==
  ASSUME OwnInv, UNCHANGED <<queue, wpc, wjob, m_sockfd>>,
         \A fd \in Fds : Mine(fd)' =>
           /\ Mine(fd) /\ sock'[fd] = sock[fd]
           /\ \/ armed'[fd] = armed[fd] /\ ready'[fd] = ready[fd]
              \/ ~InUse(fd) /\ (ready'[fd] # "none" => armed'[fd] = {})
  PROVE  OwnFacts'
<1> SUFFICES ASSUME NEW fd \in Fds, Mine(fd)' PROVE Own(fd)'
  BY DEF OwnFacts
<1>1. SameTasks /\ Closing' = Closing
  BY DEF SameTasks, Working, Closing
<1>2. Own(fd) /\ sock'[fd] = sock[fd] /\ InFlight' = InFlight
  BY <1>1, SameInFlight DEF OwnInv, OwnFacts
<1>3. OneTask(fd)' /\ Reachable(fd)'
  BY <1>1, <1>2, SameInFlight DEF Own, Reachable
<1>4. CASE armed'[fd] = armed[fd] /\ ready'[fd] = ready[fd]
  BY <1>2, <1>3, <1>4 DEF Own, Undisturbed, Disarmed
<1>5. CASE ~InUse(fd) /\ (ready'[fd] # "none" => armed'[fd] = {})
  BY <1>2, <1>3, <1>5 DEF Own, Undisturbed, Disarmed, InUse
<1> QED
  BY <1>4, <1>5

\* What a step does to one descriptor, it does to no other.
LEMMA HandledElse ==
  ASSUME TypeInv, NEW fd, Handled(fd)
  PROVE  \A g \in Fds : /\ g # fd => ready'[g] = ready[g]
                        /\ g = fd => ready'[g] = "none"
BY DEF Handled, TypeInv, TypeOK, BatchType

LEMMA ModfdElse ==
  ASSUME TypeInv, NEW fd, NEW ev, armed' = Modfd(fd, ev)
  PROVE  \A g \in Fds : g # fd => armed'[g] = armed[g]
BY DEF Modfd, TypeInv, TypeOK, KernelType

LEMMA CloseElse ==
  ASSUME TypeInv, NEW fd, Close(fd)
  PROVE  \A g \in Fds : /\ g # fd => sock'[g] = sock[g] /\ armed'[g] = armed[g] /\ mark'[g] = mark[g]
                        /\ g = fd => sock'[g] = None
BY DEF Close, TypeInv, TypeOK, KernelType

\* A handler drops its connection.
LEMMA DropOwned ==
  ASSUME OwnInv, NEW fd \in Fds, Handled(fd), Drop(fd), UNCHANGED <<queue, wpc, wjob, m_sockfd>>
  PROVE  OwnFacts'
<1>1. Close(fd)
  BY DEF Drop, Fire, CbFunc
<1>2. ASSUME NEW g \in Fds, Mine(g)'
      PROVE  Mine(g) /\ sock'[g] = sock[g] /\ armed'[g] = armed[g] /\ ready'[g] = ready[g]
  BY <1>1, <1>2, CloseElse, HandledElse DEF Mine, OwnInv
<1> QED
  BY <1>2, OwnKept

\* A handler keeps its connection, perhaps re-arms it.
LEMMA RearmOwned ==
  ASSUME OwnInv, NEW fd \in Fds, ready[fd] # "none", Handled(fd), NEW ev, armed' = Modfd(fd, ev),
         UNCHANGED <<sock, mark, queue, wpc, wjob, m_sockfd>>
  PROVE  OwnFacts'
<1>1. ASSUME NEW g \in Fds, Mine(g)'
      PROVE  /\ Mine(g) /\ sock'[g] = sock[g]
             /\ \/ armed'[g] = armed[g] /\ ready'[g] = ready[g]
                \/ ~InUse(g) /\ (ready'[g] # "none" => armed'[g] = {})
  <2>1. Mine(g) /\ sock'[g] = sock[g]
    BY <1>1 DEF Mine
  <2>2. CASE g = fd
    BY <2>1, <2>2, EventApart, HandledElse DEF OwnInv
  <2>3. CASE g # fd
    BY <2>1, <2>3, ModfdElse, HandledElse DEF OwnInv
  <2> QED
    BY <2>2, <2>3
<1> QED
  BY <1>1, OwnKept

\* A new connection has no task, or it is intruded.
LEMMA AcceptOwned ==
  ASSUME OwnInv, NEW fd \in Fds, NEW id \in Ids, AcceptConn(fd, id),
         UNCHANGED <<ready, queue, wpc, wjob>>
  PROVE  OwnFacts'
<1> USE DEF OwnInv, TypeInv, TypeOK, KernelType, ConnType
<1>1. SameTasks /\ Closing' = Closing /\ InFlight' = InFlight
  BY SameInFlight DEF SameTasks, Working, Closing
<1>2. ASSUME NEW g \in Fds, Mine(g)', g # fd PROVE Own(g)'
  <2>1. /\ sock'[g] = sock[g] /\ mark'[g] = mark[g] /\ armed'[g] = armed[g]
        /\ m_sockfd'[g] = m_sockfd[g]
    BY <1>2 DEF AcceptConn
  <2>2. Own(g)
    BY <1>2, <2>1 DEF OwnFacts, Mine
  <2> QED
    BY <1>1, <2>1, <2>2, SameInFlight DEF Own, Undisturbed, Reachable, Disarmed
<1>3. ASSUME Mine(fd)' PROVE Own(fd)'
  <2>1. mark'[fd] = {m \in {"refused", "intruded"} :
          IF m = "refused" THEN armed'[fd] = {} ELSE InUse(fd) \/ ready[fd] # "none"}
    BY DEF AcceptConn
  <2>2. ~InUse(fd) /\ ready[fd] = "none"
    BY <1>3, <2>1 DEF Mine
  <2>3. m_sockfd'[fd]
    BY DEF AcceptConn
  <2>4. ~InUse(fd)'
    BY <1>1, <2>2 DEF InUse
  <2>5. OneTask(fd)' /\ \A w \in Closing' : wjob'[w].fd # fd
    BY <1>1, <2>2, NoTaskOwn, SameInFlight DEF SameTasks
  <2> QED
    BY <2>2, <2>3, <2>4, <2>5 DEF Own, Undisturbed, Reachable, Disarmed, InUse
<1> QED
  BY <1>2, <1>3 DEF OwnFacts

\* read() has drained the socket: the connection gets a task, if there is room.
LEMMA AppendOwned ==
  ASSUME OwnInv, NEW fd \in Fds, ready[fd] # "none", Handled(fd), AppendTask(fd),
         UNCHANGED <<sock, armed, wpc, wjob, m_sockfd>>
  PROVE  OwnFacts'
<1> DEFINE new == [fd |-> fd, id |-> sock[fd]]
<1>0. TypeInv
  BY DEF OwnInv
<1>1. CASE queue' = queue
  <2>1. ASSUME NEW g \in Fds, Mine(g)'
        PROVE  /\ Mine(g) /\ sock'[g] = sock[g]
               /\ \/ armed'[g] = armed[g] /\ ready'[g] = ready[g]
                  \/ ~InUse(g) /\ (ready'[g] # "none" => armed'[g] = {})
    <3>1. Mine(g) /\ sock'[g] = sock[g]
      BY <1>0, <2>1 DEF AppendTask, Mine, TypeInv, TypeOK, KernelType
    <3>2. CASE g = fd
      BY <1>0, <3>1, <3>2, EventApart, HandledElse
    <3>3. CASE g # fd
      BY <1>0, <3>1, <3>3, HandledElse
    <3> QED
      BY <3>2, <3>3
  <2> QED
    BY <1>1, <2>1, OwnKept
<1>2. CASE queue' = Append(queue, new) /\ UNCHANGED mark
  <2>1. queue \in Seq(Tasks)
    BY <1>0 DEF TypeInv, TypeOK, PoolType
  <2>2. /\ DOMAIN queue' = 1..Len(queue) + 1 /\ DOMAIN queue = 1..Len(queue)
        /\ Len(queue) \in Nat /\ queue'[Len(queue) + 1] = new
        /\ \A i \in 1..Len(queue) : queue'[i] = queue[i]
    BY <1>2, <2>1
  <2>3. InFlight' \subseteq InFlight \cup {new} /\ Working' = Working /\ Closing' = Closing
    BY <2>2 DEF InFlight, Range, Working, Closing
  <2> SUFFICES ASSUME NEW g \in Fds, Mine(g)' PROVE Own(g)'
    BY DEF OwnFacts
  <2>4. Mine(g) /\ Own(g)
    BY <1>2 DEF Mine, OwnInv, OwnFacts
  <2>5. Reachable(g)'
    BY <2>3, <2>4 DEF Own, Reachable
  <2>6. CASE g # fd
    <3>1. ready'[g] = ready[g]
      BY <1>0, <2>6, HandledElse
    <3>2. Undisturbed(g)' /\ Disarmed(g)'
      BY <2>3, <2>4, <2>6, <3>1 DEF Own, Undisturbed, Disarmed
    <3>3. OneTask(g)'
      BY <2>2, <2>3, <2>4, <2>6 DEF Own, OneTask
    <3> QED
      BY <2>5, <3>2, <3>3 DEF Own
  <2>7. CASE g = fd
    <3>1. ~InUse(fd) /\ armed'[fd] = {} /\ ready'[fd] = "none"
      BY <1>0, <2>4, <2>7, EventApart, HandledElse
    <3>2. Undisturbed(fd)' /\ Disarmed(fd)'
      BY <2>3, <3>1 DEF Undisturbed, Disarmed, InUse
    <3>3. \A i \in 1..Len(queue) : queue[i].fd # fd
      BY <1>0, <2>2, <3>1, InFlightMembers DEF InUse
    <3>4. \A w \in Working : wjob[w].fd # fd
      BY <1>0, <3>1, InFlightMembers DEF InUse
    <3>5. OneTask(fd)'
      BY <2>2, <2>3, <3>3, <3>4 DEF OneTask
    <3> QED
      BY <2>5, <2>7, <3>2, <3>5 DEF Own
  <2> QED
    BY <2>6, <2>7
<1> QED
  BY <1>1, <1>2 DEF AppendTask

\* A worker that is done re-arms its descriptor; the connection on it, unless
\* intruded, is its own, and no other task has it.
LEMMA DoneOwned ==
  ASSUME OwnInv, NEW w \in Working, Done(w), UNCHANGED <<sock, mark, ready, m_sockfd, queue>>,
         wpc[w] # "close", NEW ev, armed' = Modfd(wjob[w].fd, ev)
  PROVE  OwnFacts'
<1>0. TypeInv
  BY DEF OwnInv
<1>1. Working' = Working \ {w} /\ \A v \in Working' : wjob'[v] = wjob[v]
  BY <1>0 DEF Done, Working, TypeInv, TypeOK, PoolType
<1>2. \A v \in Closing' : v \in Closing /\ wjob'[v] = wjob[v]
  BY <1>0 DEF Done, Working, Closing, TypeInv, TypeOK, PoolType
<1>3. InFlight' \subseteq InFlight
  BY <1>1 DEF InFlight, Range
<1> SUFFICES ASSUME NEW g \in Fds, Mine(g)' PROVE Own(g)'
  BY DEF OwnFacts
<1>4. Mine(g) /\ Own(g)
  BY DEF Mine, OwnInv, OwnFacts
<1>5. OneTask(g)' /\ Reachable(g)'
  BY <1>1, <1>2, <1>4 DEF Own, OneTask, Reachable
<1>6. CASE g # wjob[w].fd
  BY <1>0, <1>3, <1>4, <1>5, <1>6, ModfdElse DEF Own, Undisturbed, Disarmed
<1>7. CASE g = wjob[w].fd
  <2>1. ready[g] = "none"
    BY <1>0, <1>4, <1>7, InFlightMembers DEF Own, Undisturbed
  <2>2. ASSUME NEW task \in InFlight' PROVE task.fd # g
    <3>1. CASE \E i \in DOMAIN queue : task = queue[i]
      BY <1>4, <1>7, <3>1 DEF Own, OneTask
    <3>2. CASE \E v \in Working' : task = wjob'[v]
      BY <1>1, <1>4, <1>7, <3>2 DEF Own, OneTask
    <3> QED
      BY <2>2, <3>1, <3>2 DEF InFlight, Range
  <2> QED
    BY <1>5, <2>1, <2>2 DEF Own, Undisturbed, Disarmed
<1> QED
  BY <1>6, <1>7

\* The oldest task leaves the queue for a worker.
LEMMA Taken ==
  ASSUME TypeInv, NEW w \in Workers, Take(w)
  PROVE  /\ Len(queue) \in Nat /\ Len(queue) > 0
         /\ DOMAIN queue = 1..Len(queue) /\ DOMAIN queue' = 1..Len(queue) - 1
         /\ \A i \in 1..Len(queue) - 1 : queue'[i] = queue[i + 1]
         /\ w \notin Working /\ Working' = Working \cup {w} /\ Closing' = Closing
         /\ wjob'[w] = queue[1] /\ \A v \in Working : wjob'[v] = wjob[v]
<1>1. queue \in Seq(Tasks) /\ queue # <<>>
  BY DEF Take, TypeInv, TypeOK, PoolType
<1>2. /\ Len(queue) \in Nat /\ Len(queue) > 0
      /\ DOMAIN queue = 1..Len(queue) /\ DOMAIN queue' = 1..Len(queue) - 1
      /\ \A i \in 1..Len(queue) - 1 : queue'[i] = queue[i + 1]
      /\ Head(queue) = queue[1]
  BY <1>1 DEF Take
<1>3. /\ w \notin Working /\ Working' = Working \cup {w} /\ Closing' = Closing
      /\ wjob'[w] = queue[1] /\ \A v \in Working : wjob'[v] = wjob[v]
  BY <1>2 DEF Take, Working, Closing, TypeInv, TypeOK, PoolType
<1> QED
  BY <1>2, <1>3

LEMMA TakeOwned ==
  ASSUME OwnInv, NEW w \in Workers, Take(w) PROVE OwnFacts'
<1>1. TypeInv
  BY DEF OwnInv
<1>2. InFlight' \subseteq InFlight
  BY <1>1, Taken DEF InFlight, Range
<1>3. UNCHANGED <<sock, armed, mark, ready, m_sockfd>>
  BY DEF Take, kernelVars, batchVars, connVars
<1> SUFFICES ASSUME NEW g \in Fds, Mine(g)' PROVE Own(g)'
  BY DEF OwnFacts
<1>4. Own(g)
  BY <1>3 DEF Mine, OwnInv, OwnFacts
<1>5. Undisturbed(g)' /\ Disarmed(g)'
  BY <1>2, <1>3, <1>4 DEF Own, Undisturbed, Disarmed
<1>6. \A i \in DOMAIN queue' : queue'[i] = queue[i + 1] /\ i + 1 \in DOMAIN queue /\ i + 1 # 1
  BY <1>1, Taken
<1>7. \A i, j \in DOMAIN queue' : queue'[i].fd = g /\ queue'[j].fd = g => i = j
  <2>1. \A i, j \in DOMAIN queue' : i + 1 = j + 1 => i = j
    BY <1>1, Taken
  <2> QED
    BY <1>4, <1>6, <2>1 DEF Own, OneTask
<1>8. \A v, u \in Working' : wjob'[v].fd = g /\ wjob'[u].fd = g => v = u
  <2>1. 1 \in DOMAIN queue
    BY <1>1, Taken
  <2> QED
    BY <1>1, <1>4, <2>1, Taken DEF Own, OneTask
<1>9. \A i \in DOMAIN queue', v \in Working' : ~(queue'[i].fd = g /\ wjob'[v].fd = g)
  <2>1. 1 \in DOMAIN queue
    BY <1>1, Taken
  <2>2. ASSUME NEW i \in DOMAIN queue', NEW v \in Working', queue'[i].fd = g, wjob'[v].fd = g
        PROVE  FALSE
    <3>1. CASE v = w
      BY <1>1, <1>4, <1>6, <2>1, <2>2, <3>1, Taken DEF Own, OneTask
    <3>2. CASE v # w
      BY <1>1, <1>4, <1>6, <2>2, <3>2, Taken DEF Own, OneTask
    <3> QED
      BY <3>1, <3>2
  <2> QED
    BY <2>2
<1>10. Reachable(g)'
  <2>1. \A v \in Closing : v \in Working
    BY DEF Closing, Working
  <2> QED
    BY <1>1, <1>3, <1>4, <2>1, Taken DEF Own, Reachable
<1> QED
  BY <1>5, <1>7, <1>8, <1>9, <1>10 DEF Own, OneTask

\* close_conn closes the connection, and m_sockfd is -1 only afterwards.
LEMMA CloseConnOwned ==
  ASSUME OwnInv, NEW w \in Workers, Fail(w) \/ CloseStore(w) PROVE OwnFacts'
<1> DEFINE fd == wjob[w].fd
<1> USE DEF OwnInv, TypeInv, TypeOK, PoolType
<1>1. Working' = Working
  BY DEF Fail, CloseStore, Working
<1>2. SameTasks /\ ready' = ready /\ InFlight' = InFlight
  BY <1>1, SameInFlight DEF SameTasks, Fail, CloseStore, batchVars
<1> SUFFICES ASSUME NEW g \in Fds, Mine(g)' PROVE Own(g)'
  BY DEF OwnFacts
<1>3. ASSUME Mine(g), sock'[g] = sock[g], armed'[g] = armed[g], m_sockfd'[g] = m_sockfd[g],
             \A v \in Closing' : v \in Closing \/ wjob[v].fd # g
      PROVE  Own(g)'
  BY <1>2, <1>3, SameInFlight
  DEF OwnFacts, Own, Undisturbed, Reachable, Disarmed, SameTasks
<1>4. CASE Fail(w) /\ Close(fd)
  <2>1. g # fd /\ Mine(g) /\ sock'[g] = sock[g] /\ armed'[g] = armed[g]
    BY <1>4, CloseElse DEF Mine
  <2>2. \A v \in Closing' : v \in Closing \/ v = w
    BY <1>4 DEF Fail, Closing
  <2>3. m_sockfd' = m_sockfd
    BY <1>4 DEF Fail
  <2> QED
    BY <1>3, <2>1, <2>2, <2>3
<1>5. CASE Fail(w) /\ UNCHANGED kernelVars /\ wpc' = [wpc EXCEPT ![w] = "arm"]
  <2>1. \A v \in Closing' : v \in Closing
    BY <1>5 DEF Closing
  <2>2. Mine(g) /\ sock'[g] = sock[g] /\ armed'[g] = armed[g] /\ m_sockfd'[g] = m_sockfd[g]
    BY <1>5 DEF Fail, Mine, kernelVars
  <2> QED
    BY <1>3, <2>1, <2>2
<1>6. CASE CloseStore(w)
  <2>1. Mine(g) /\ sock'[g] = sock[g] /\ armed'[g] = armed[g]
    BY <1>6 DEF CloseStore, Mine, kernelVars
  <2>2. w \in Closing /\ \A v \in Closing' : v \in Closing
    BY <1>6 DEF CloseStore, Closing
  <2>3. g # fd
    BY <2>1, <2>2 DEF OwnFacts, Own, Reachable
  <2>4. m_sockfd'[g] = m_sockfd[g]
    BY <1>6, <2>3 DEF CloseStore, ConnType
  <2> QED
    BY <1>3, <2>1, <2>2, <2>4
<1> QED
  BY <1>4, <1>5, <1>6 DEF Fail

LEMMA OwnInit == Init => OwnFacts
BY DEF Init, OwnFacts, Mine

LEMMA OwnStep == OwnInv /\ [Next]_vars => OwnFacts'
<1> SUFFICES ASSUME OwnInv, [Next]_vars PROVE OwnFacts'
  OBVIOUS
<1>0. TypeInv
  BY DEF OwnInv
<1>1. ASSUME UNCHANGED <<kernelVars, ready, m_sockfd, queue, wpc, wjob>> PROVE OwnFacts'
  <2>1. \A fd \in Fds : Mine(fd)' => /\ Mine(fd) /\ sock'[fd] = sock[fd]
                                     /\ armed'[fd] = armed[fd] /\ ready'[fd] = ready[fd]
    BY <1>1 DEF Mine, kernelVars
  <2> QED
    BY <1>1, <2>1, OwnKept
<1>2. CASE TimePasses \/ HandleSignal \/ EndBatch \/ TickEnd \/ UNCHANGED vars
  BY <1>1, <1>2 DEF TimePasses, HandleSignal, EndBatch, TickEnd, vars, batchVars, connVars,
     poolVars
<1>3. CASE EpollWait
  <2>1. ASSUME NEW fd \in Fds, Mine(fd)'
        PROVE  /\ Mine(fd) /\ sock'[fd] = sock[fd]
               /\ \/ armed'[fd] = armed[fd] /\ ready'[fd] = ready[fd]
                  \/ ~InUse(fd) /\ (ready'[fd] # "none" => armed'[fd] = {})
    <3>1. Mine(fd) /\ sock'[fd] = sock[fd]
      BY <1>3, <2>1 DEF EpollWait, Mine
    <3>2. ready'[fd] # "none" => armed'[fd] = {} /\ armed[fd] # {}
      BY <1>3 DEF EpollWait, OneShot
    <3>3. ready'[fd] = "none" => armed'[fd] = armed[fd]
      BY <1>3 DEF EpollWait
    <3>4. InUse(fd) => armed[fd] = {} /\ ready[fd] = "none"
      BY <3>1 DEF OwnInv, OwnFacts, Own, Undisturbed, InUse
    <3> QED
      BY <3>1, <3>2, <3>3, <3>4
  <2> QED
    BY <1>3, <2>1, OwnKept DEF EpollWait, connVars, poolVars
<1>4. CASE HandleAccept
  <2>1. CASE UNCHANGED <<kernelVars, timerVars, connVars>>
    BY <1>1, <1>4, <2>1 DEF HandleAccept, connVars, poolVars
  <2>2. CASE \E fd \in Fds \ Open, id \in Ids : Fresh(id) /\ AcceptConn(fd, id)
    BY <1>4, <2>2, AcceptOwned DEF HandleAccept, poolVars
  <2> QED
    BY <1>4, <2>1, <2>2 DEF HandleAccept
<1>5. ASSUME NEW fd \in Fds, HandleHup(fd) \/ SpinEnds(fd) PROVE OwnFacts'
  BY <1>5, DropOwned DEF HandleHup, SpinEnds, poolVars
<1>6. ASSUME NEW fd \in Fds, HandleRead(fd) PROVE OwnFacts'
  BY <1>6, DropOwned, AppendOwned DEF HandleRead
<1>7. ASSUME NEW fd \in Fds, HandleWrite(fd) PROVE OwnFacts'
  <2>1. Handled(fd) /\ ready[fd] # "none" /\ UNCHANGED <<queue, wpc, wjob, m_sockfd>>
    BY <1>7 DEF HandleWrite, poolVars
  <2>2. CASE WriteDrop(fd)
    BY <2>1, <2>2, DropOwned DEF WriteDrop
  <2>3. CASE WriteNothing(fd) \/ WriteKeep(fd) \/ WriteBlocked(fd)
    BY <2>1, <2>3, RearmOwned DEF WriteNothing, WriteKeep, WriteBlocked
  <2> QED
    BY <1>7, <2>2, <2>3 DEF HandleWrite
<1>8. ASSUME NEW fd \in Fds, WriteSpins(fd) PROVE OwnFacts'
  <2>1. ASSUME NEW g \in Fds, Mine(g)'
        PROVE  /\ Mine(g) /\ sock'[g] = sock[g]
               /\ \/ armed'[g] = armed[g] /\ ready'[g] = ready[g]
                  \/ ~InUse(g) /\ (ready'[g] # "none" => armed'[g] = {})
    <3>1. Mine(g) /\ sock'[g] = sock[g] /\ armed'[g] = armed[g]
      BY <1>8, <2>1 DEF WriteSpins, Mine, kernelVars
    <3>2. CASE g # fd
      BY <1>0, <1>8, <3>1, <3>2 DEF WriteSpins, TypeInv, TypeOK, BatchType
    <3>3. CASE g = fd
      BY <1>8, <3>1, <3>3, EventApart DEF WriteSpins
    <3> QED
      BY <3>2, <3>3
  <2> QED
    BY <1>8, <2>1, OwnKept DEF WriteSpins, connVars, poolVars
<1>9. ASSUME NEW fd \in Fds, BrokenPipe(fd) PROVE OwnFacts'
  BY <1>1, <1>9 DEF BrokenPipe, batchVars, connVars, poolVars
<1>10. ASSUME NEW t \in Ids, TickOne(t) PROVE OwnFacts'
  <2>1. Close(user_data[t]) /\ UNCHANGED <<ready, m_sockfd, queue, wpc, wjob>>
    BY <1>10 DEF TickOne, Fire, CbFunc, batchVars, poolVars
  <2>2. ASSUME NEW g \in Fds, Mine(g)'
        PROVE  Mine(g) /\ sock'[g] = sock[g] /\ armed'[g] = armed[g] /\ ready'[g] = ready[g]
    BY <1>0, <2>1, <2>2, CloseElse DEF Mine
  <2> QED
    BY <2>1, <2>2, OwnKept
<1>11. ASSUME NEW w \in Workers, Take(w) PROVE OwnFacts'
  BY <1>11, TakeOwned
<1>12. ASSUME NEW w \in Workers, Again(w) \/ Rearm(w) PROVE OwnFacts'
  BY <1>12, DoneOwned DEF Again, Rearm, Working, batchVars, connVars
<1>13. ASSUME NEW w \in Workers, Respond(w) PROVE OwnFacts'
  <2>1. Working' = Working /\ Closing' = Closing
    BY <1>0, <1>13 DEF Respond, Working, Closing, TypeInv, TypeOK, PoolType
  <2>2. SameTasks /\ UNCHANGED <<kernelVars, ready, m_sockfd>>
    BY <1>13, <2>1 DEF Respond, SameTasks, batchVars
  <2> QED
    BY <2>1, <2>2, SameInFlight
    DEF OwnInv, OwnFacts, Mine, Own, Undisturbed, Reachable, Disarmed, SameTasks, kernelVars
<1>14. ASSUME NEW w \in Workers, Fail(w) \/ CloseStore(w) PROVE OwnFacts'
  BY <1>14, CloseConnOwned
<1> QED
  BY <1>2, <1>3, <1>4, <1>5, <1>6, <1>7, <1>8, <1>9, <1>10, <1>11, <1>12, <1>13, <1>14
  DEF Next, Batch, Handle, Tick, Worker

LEMMA OwnInvariant == Spec => []OwnInv
<1>1. Init => OwnInv
  BY TypeInit, OwnInit DEF OwnInv
<1>2. OwnInv /\ [Next]_vars => OwnInv'
  BY TypeStep, OwnStep DEF OwnInv
<1> QED
  BY <1>1, <1>2, PTL DEF Spec

\* At most one element, so at most one in number.
LEMMA AtMostOne ==
  ASSUME NEW S, \A x, y \in S : x = y
  PROVE  Cardinality(S) \in {0, 1} /\ (Cardinality(S) = 0 <=> S = {})
<1>1. CASE S = {}
  BY <1>1, FS_EmptySet
<1>2. CASE S # {}
  <2> PICK x \in S : TRUE
    BY <1>2
  <2>1. S = {x}
    OBVIOUS
  <2> QED
    BY <2>1, FS_Singleton
<1> QED
  BY <1>1, <1>2

\* While a task of a connection is queued or processed, epoll and the main
\* thread leave the connection alone and no other task has it: users[fd] is
\* used by one thread at a time, unless an earlier connection's task intruded.
THEOREM OneThreadAtATime == Spec => []ExclusiveConn
<1>1. OwnInv => ExclusiveConn
  <2> SUFFICES ASSUME OwnInv, NEW fd \in Open, "intruded" \notin mark[fd]
               PROVE  /\ \A task \in InFlight : task.fd = fd =>
                           task.id = sock[fd] /\ armed[fd] = {} /\ ready[fd] = "none"
                      /\ Cardinality({i \in DOMAIN queue : queue[i].fd = fd})
                           + Cardinality({w \in Working : wjob[w].fd = fd}) <= 1
    BY DEF ExclusiveConn
  <2> DEFINE Queued == {i \in DOMAIN queue : queue[i].fd = fd}
             Held == {w \in Working : wjob[w].fd = fd}
  <2>1. Own(fd)
    BY DEF OwnInv, OwnFacts, Mine, Open
  <2>2. \A i, j \in Queued : i = j
    BY <2>1 DEF Own, OneTask
  <2>3. \A v, w \in Held : v = w
    BY <2>1 DEF Own, OneTask
  <2>4. Queued = {} \/ Held = {}
    BY <2>1 DEF Own, OneTask
  <2>5. Undisturbed(fd)
    BY <2>1 DEF Own
  <2>6. Cardinality(Queued) + Cardinality(Held) <= 1
    <3> HIDE DEF Queued, Held
    <3> QED
      BY <2>2, <2>3, <2>4, AtMostOne
  <2> QED
    BY <2>5, <2>6 DEF Undisturbed
<1> QED
  BY <1>1, OwnInvariant, PTL
-----------------------------------------------------------------------------
(***************************************************************************)
(* No connection is forgotten. One that nothing has befallen can always be *)
(* re-armed: m_sockfd is the descriptor, and epoll has it.                 *)
(***************************************************************************)

WaitQuiet == mpc = "wait" => \A fd \in Fds : ready[fd] = "none"
Known(fd) == armed[fd] # {} \/ ready[fd] # "none" \/ InUse(fd)
Sound(fd) == sock[fd] # None /\ mark[fd] = {}

KeepFacts == WaitQuiet /\ \A fd \in Fds : Sound(fd) => Known(fd)
KeepInv == WatchInv /\ OwnInv /\ KeepFacts

LEMMA SoundMine == ASSUME KeepInv, NEW fd \in Fds, Sound(fd) PROVE Mine(fd) /\ Known(fd) /\ Own(fd)
BY DEF KeepInv, KeepFacts, Sound, Mine, OwnInv, OwnFacts

\* The batch is empty when main calls epoll_wait again.
LEMMA QuietStep == KeepInv /\ [Next]_vars => WaitQuiet'
<1> SUFFICES ASSUME KeepInv, [Next]_vars PROVE WaitQuiet'
  OBVIOUS
<1> USE DEF WaitQuiet
<1>1. CASE UNCHANGED <<mpc, ready>>
  BY <1>1 DEF KeepInv, KeepFacts
<1>2. CASE mpc' # "wait"
  BY <1>2
<1>3. CASE TimePasses \/ \E w \in Workers : Worker(w) \/ UNCHANGED vars
  BY <1>1, <1>3 DEF TimePasses, Worker, Take, Again, Respond, Fail, CloseStore, Rearm, vars,
     batchVars, mainVars
<1>4. CASE EpollWait \/ HandleAccept \/ HandleSignal \/ \E fd \in Fds : Handle(fd)
  BY <1>2, <1>4 DEF EpollWait, HandleAccept, HandleSignal, Handle, HandleHup, HandleRead,
     HandleWrite, WriteSpins, SpinEnds, BrokenPipe, mainVars
<1>5. CASE EndBatch
  BY <1>5 DEF EndBatch, batchVars
<1>6. CASE TickEnd
  BY <1>6 DEF TickEnd, batchVars, KeepInv, WatchInv, TickQuiet
<1>7. ASSUME NEW t \in Ids, TickOne(t) PROVE WaitQuiet'
  BY <1>2, <1>7 DEF TickOne
<1>8. CASE UNCHANGED vars
  BY <1>1, <1>8 DEF vars, batchVars, mainVars
<1> QED
  BY <1>3, <1>4, <1>5, <1>6, <1>7, <1>8 DEF Next, Batch, Tick

\* A step under which every sound connection was sound, and is as known.
LEMMA KnownKept ==
  ASSUME KeepInv, WaitQuiet', \A fd \in Fds : Sound(fd)' => Sound(fd) /\ (Known(fd) => Known(fd)')
  PROVE  KeepFacts'
BY DEF KeepInv, KeepFacts

\* A handler drops its connection, and no other.
LEMMA KnownDrop ==
  ASSUME KeepInv, WaitQuiet', NEW fd \in Fds, Handled(fd), Drop(fd), UNCHANGED <<queue, wpc, wjob>>
  PROVE  KeepFacts'
<1>1. TypeInv /\ Close(fd)
  BY DEF KeepInv, WatchInv, Drop, Fire, CbFunc
<1>2. SameTasks
  BY DEF SameTasks, Working
<1>3. ASSUME NEW g \in Fds, Sound(g)' PROVE Sound(g) /\ (Known(g) => Known(g)')
  <2>1. g # fd /\ Sound(g) /\ armed'[g] = armed[g]
    BY <1>1, <1>3, CloseElse DEF Sound
  <2>2. ready'[g] = ready[g]
    BY <1>1, <2>1, HandledElse
  <2> QED
    BY <1>2, <2>1, <2>2, SameInFlight DEF Known, InUse
<1> QED
  BY <1>3, KnownKept

\* A sound connection that is re-armed is watched by epoll.
LEMMA ModfdArms ==
  ASSUME KeepInv, NEW fd \in Fds, Sound(fd), NEW ev, armed' = Modfd(fd, ev)
  PROVE  armed'[fd] = {ev}
<1>1. m_sockfd[fd]
  BY SoundMine DEF Own, Reachable
<1> QED
  BY <1>1 DEF Sound, Modfd, Connected, KeepInv, WatchInv, TypeInv, TypeOK, KernelType

\* A handler keeps its connection and hands it back to epoll.
LEMMA KnownRearm ==
  ASSUME KeepInv, WaitQuiet', NEW fd \in Fds, Handled(fd), NEW ev, armed' = Modfd(fd, ev),
         UNCHANGED <<sock, mark, queue, wpc, wjob>>
  PROVE  KeepFacts'
<1>1. TypeInv
  BY DEF KeepInv, WatchInv
<1>2. SameTasks
  BY DEF SameTasks, Working
<1>3. ASSUME NEW g \in Fds, Sound(g)' PROVE Sound(g) /\ (Known(g) => Known(g)')
  <2>1. Sound(g)
    BY <1>3 DEF Sound
  <2>2. CASE g = fd
    BY <2>1, <2>2, ModfdArms DEF Known
  <2>3. CASE g # fd
    BY <1>1, <1>2, <2>1, <2>3, ModfdElse, HandledElse, SameInFlight DEF Known, InUse
  <2> QED
    BY <2>2, <2>3
<1> QED
  BY <1>3, KnownKept

\* read() has drained the socket: the connection has a task now, or a mark.
LEMMA KnownAppend ==
  ASSUME KeepInv, WaitQuiet', NEW fd \in Fds, Handled(fd), AppendTask(fd),
         UNCHANGED <<sock, armed, wpc, wjob>>
  PROVE  KeepFacts'
<1> DEFINE new == [fd |-> fd, id |-> sock[fd]]
<1>1. TypeInv /\ queue \in Seq(Tasks)
  BY DEF KeepInv, WatchInv, TypeInv, TypeOK, PoolType
<1>2. InFlight \subseteq InFlight'
  <2>1. CASE queue' = queue
    BY <2>1 DEF InFlight, Range, Working
  <2>2. CASE queue' = Append(queue, new)
    <3>1. /\ DOMAIN queue' = 1..Len(queue) + 1 /\ DOMAIN queue = 1..Len(queue)
          /\ Len(queue) \in Nat /\ \A i \in 1..Len(queue) : queue'[i] = queue[i]
      BY <1>1, <2>2
    <3> QED
      BY <3>1 DEF InFlight, Range, Working
  <2> QED
    BY <2>1, <2>2 DEF AppendTask
<1>3. Sound(fd)' => InUse(fd)'
  <2>1. CASE queue' = queue /\ mark' = [mark EXCEPT ![fd] = @ \cup {"dropped"}]
    <3>1. "dropped" \in mark'[fd]
      BY <1>1, <2>1 DEF TypeInv, TypeOK, KernelType
    <3> QED
      BY <3>1 DEF Sound
  <2>2. CASE queue' = Append(queue, new)
    <3>1. /\ DOMAIN queue' = 1..Len(queue) + 1 /\ Len(queue) \in Nat
          /\ queue'[Len(queue) + 1] = new
      BY <1>1, <2>2
    <3>2. new \in InFlight'
      BY <3>1 DEF InFlight, Range
    <3> QED
      BY <3>2 DEF InUse
  <2> QED
    BY <2>1, <2>2 DEF AppendTask
<1>4. ASSUME NEW g \in Fds, Sound(g)' PROVE Sound(g) /\ (Known(g) => Known(g)')
  <2>1. CASE g = fd
    <3>1. mark[fd] \subseteq mark'[fd]
      BY <1>1 DEF AppendTask, TypeInv, TypeOK, KernelType
    <3> QED
      BY <1>3, <1>4, <2>1, <3>1 DEF Sound, Known
  <2>2. CASE g # fd
    <3>1. mark'[g] = mark[g]
      BY <1>1, <2>2 DEF AppendTask, TypeInv, TypeOK, KernelType
    <3>2. ready'[g] = ready[g]
      BY <1>1, <2>2, HandledElse
    <3> QED
      BY <1>2, <1>4, <3>1, <3>2 DEF Sound, Known, InUse
  <2> QED
    BY <2>1, <2>2
<1> QED
  BY <1>4, KnownKept

\* A worker that is done hands its connection back to epoll.
LEMMA KnownDone ==
  ASSUME KeepInv, WaitQuiet', NEW w \in Working, Done(w), NEW ev, armed' = Modfd(wjob[w].fd, ev),
         UNCHANGED <<sock, mark, ready, queue>>
  PROVE  KeepFacts'
<1>1. TypeInv
  BY DEF KeepInv, WatchInv
<1>2. Working' = Working \ {w} /\ \A v \in Working' : wjob'[v] = wjob[v]
  BY <1>1 DEF Done, Working, TypeInv, TypeOK, PoolType
<1>3. \A task \in InFlight : task \in InFlight' \/ task = wjob[w]
  BY <1>2 DEF InFlight, Range
<1>4. ASSUME NEW g \in Fds, Sound(g)' PROVE Sound(g) /\ (Known(g) => Known(g)')
  <2>1. Sound(g)
    BY <1>4 DEF Sound
  <2>2. CASE g = wjob[w].fd
    BY <2>1, <2>2, ModfdArms DEF Known
  <2>3. CASE g # wjob[w].fd
    BY <1>1, <1>3, <2>1, <2>3, ModfdElse DEF Known, InUse
  <2> QED
    BY <2>2, <2>3
<1> QED
  BY <1>4, KnownKept

LEMMA KeepStep == KeepInv /\ [Next]_vars => KeepFacts'
<1> SUFFICES ASSUME KeepInv, [Next]_vars PROVE KeepFacts'
  OBVIOUS
<1>0. WaitQuiet' /\ TypeInv
  BY QuietStep DEF KeepInv, WatchInv
<1>1. ASSUME UNCHANGED <<kernelVars, ready>>, SameTasks PROVE KeepFacts'
  <2>1. \A fd \in Fds : Sound(fd)' => Sound(fd) /\ (Known(fd) => Known(fd)')
    BY <1>1, SameInFlight DEF Sound, Known, InUse, kernelVars
  <2> QED
    BY <1>0, <2>1, KnownKept
<1>2. CASE TimePasses \/ HandleSignal \/ EndBatch \/ TickEnd \/ UNCHANGED vars
  <2>1. UNCHANGED <<kernelVars, ready>> /\ SameTasks
    BY <1>2 DEF TimePasses, HandleSignal, EndBatch, TickEnd, vars, batchVars, poolVars,
       SameTasks, Working
  <2> QED
    BY <1>1, <2>1
<1>3. CASE EpollWait
  <2>1. SameTasks /\ UNCHANGED <<sock, mark>>
    BY <1>3 DEF EpollWait, SameTasks, Working, poolVars
  <2>2. \A fd \in Fds : ready[fd] = "none"
    BY <1>3 DEF EpollWait, KeepInv, KeepFacts, WaitQuiet
  <2>3. ASSUME NEW fd \in Fds, Known(fd) PROVE Known(fd)'
    BY <1>3, <2>1, <2>2, <2>3, SameInFlight DEF EpollWait, Known, InUse
  <2>4. \A fd \in Fds : Sound(fd)' => Sound(fd)
    BY <2>1 DEF Sound
  <2> QED
    BY <1>0, <2>3, <2>4, KnownKept
<1>4. CASE HandleAccept
  <2>1. SameTasks /\ ready' = ready
    BY <1>4 DEF HandleAccept, SameTasks, Working, poolVars
  <2>2. CASE UNCHANGED kernelVars
    BY <1>1, <2>1, <2>2
  <2>3. CASE \E fd \in Fds \ Open, id \in Ids : Fresh(id) /\ AcceptConn(fd, id)
    <3> PICK fd \in Fds \ Open, id \in Ids : Fresh(id) /\ AcceptConn(fd, id)
      BY <2>3
    <3>1. mark'[fd] = {m \in {"refused", "intruded"} :
            IF m = "refused" THEN armed'[fd] = {} ELSE InUse(fd) \/ ready[fd] # "none"}
      BY <1>0 DEF AcceptConn, TypeInv, TypeOK, KernelType
    <3>2. Sound(fd)' => Known(fd)'
      BY <3>1 DEF Sound, Known
    <3>3. ASSUME NEW g \in Fds, g # fd, Sound(g)' PROVE Known(g)'
      <4>1. sock'[g] = sock[g] /\ armed'[g] = armed[g] /\ mark'[g] = mark[g]
        BY <1>0, <3>3 DEF AcceptConn, TypeInv, TypeOK, KernelType
      <4>2. Known(g)
        BY <3>3, <4>1, SoundMine DEF Sound
      <4> QED
        BY <2>1, <4>1, <4>2, SameInFlight DEF Known, InUse
    <3> QED
      BY <1>0, <3>2, <3>3 DEF KeepFacts
  <2> QED
    BY <1>4, <2>2, <2>3 DEF HandleAccept
<1>5. ASSUME NEW fd \in Fds, HandleHup(fd) \/ SpinEnds(fd) PROVE KeepFacts'
  BY <1>0, <1>5, KnownDrop DEF HandleHup, SpinEnds, poolVars
<1>6. ASSUME NEW fd \in Fds, HandleRead(fd) PROVE KeepFacts'
  BY <1>0, <1>6, KnownDrop, KnownAppend DEF HandleRead
<1>7. ASSUME NEW fd \in Fds, HandleWrite(fd) PROVE KeepFacts'
  <2>1. Handled(fd) /\ UNCHANGED <<queue, wpc, wjob>>
    BY <1>7 DEF HandleWrite, poolVars
  <2>2. CASE WriteDrop(fd)
    BY <1>0, <2>1, <2>2, KnownDrop DEF WriteDrop
  <2>3. CASE WriteNothing(fd) \/ WriteKeep(fd) \/ WriteBlocked(fd)
    BY <1>0, <2>1, <2>3, KnownRearm DEF WriteNothing, WriteKeep, WriteBlocked
  <2> QED
    BY <1>7, <2>2, <2>3 DEF HandleWrite
<1>8. ASSUME NEW fd \in Fds, WriteSpins(fd) PROVE KeepFacts'
  <2>1. SameTasks /\ UNCHANGED kernelVars
    BY <1>8 DEF WriteSpins, SameTasks, Working, poolVars
  <2>2. \A g \in Fds : ready[g] # "none" => ready'[g] # "none"
    BY <1>0, <1>8 DEF WriteSpins, TypeInv, TypeOK, BatchType
  <2>3. \A g \in Fds : Sound(g)' => Sound(g) /\ (Known(g) => Known(g)')
    BY <2>1, <2>2, SameInFlight DEF Sound, Known, InUse, kernelVars
  <2> QED
    BY <1>0, <2>3, KnownKept
<1>9. ASSUME NEW fd \in Fds, BrokenPipe(fd) PROVE KeepFacts'
  BY <1>1, <1>9 DEF BrokenPipe, batchVars, poolVars, SameTasks, Working
<1>10. ASSUME NEW t \in Ids, TickOne(t) PROVE KeepFacts'
  <2>1. Close(user_data[t]) /\ ready' = ready /\ SameTasks
    BY <1>10 DEF TickOne, Fire, CbFunc, batchVars, poolVars, SameTasks, Working
  <2>2. ASSUME NEW g \in Fds, Sound(g)' PROVE Sound(g) /\ (Known(g) => Known(g)')
    <3>1. Sound(g) /\ armed'[g] = armed[g]
      BY <1>0, <2>1, <2>2, CloseElse DEF Sound
    <3> QED
      BY <2>1, <3>1, SameInFlight DEF Known, InUse
  <2> QED
    BY <1>0, <2>2, KnownKept
<1>11. ASSUME NEW w \in Workers, Take(w) PROVE KeepFacts'
  <2>1. ASSUME NEW i \in 1..Len(queue) PROVE queue[i] \in InFlight'
    <3>1. CASE i = 1
      BY <1>0, <1>11, <3>1, Taken DEF InFlight
    <3>2. CASE i # 1
      <4>1. i - 1 \in DOMAIN queue' /\ queue'[i - 1] = queue[i]
        BY <1>0, <1>11, <3>2, Taken
      <4> QED
        BY <4>1 DEF InFlight, Range
    <3> QED
      BY <3>1, <3>2
  <2>2. InFlight \subseteq InFlight'
    BY <1>0, <1>11, <2>1, Taken DEF InFlight, Range
  <2>3. UNCHANGED <<sock, armed, mark, ready>>
    BY <1>11 DEF Take, kernelVars, batchVars
  <2>4. \A g \in Fds : Sound(g)' => Sound(g) /\ (Known(g) => Known(g)')
    BY <2>2, <2>3 DEF Sound, Known, InUse
  <2> QED
    BY <1>0, <2>4, KnownKept
<1>12. ASSUME NEW w \in Workers, Again(w) \/ Rearm(w) PROVE KeepFacts'
  BY <1>0, <1>12, KnownDone DEF Again, Rearm, Working, batchVars
<1>13. ASSUME NEW w \in Workers, Respond(w) \/ CloseStore(w) PROVE KeepFacts'
  <2>1. Working' = Working
    BY <1>0, <1>13 DEF Respond, CloseStore, Working, TypeInv, TypeOK, PoolType
  <2>2. SameTasks /\ UNCHANGED <<kernelVars, ready>>
    BY <1>13, <2>1 DEF Respond, CloseStore, SameTasks, batchVars
  <2> QED
    BY <1>1, <2>2
<1>14. ASSUME NEW w \in Workers, Fail(w) PROVE KeepFacts'
  <2>1. Working' = Working
    BY <1>0, <1>14 DEF Fail, Working, TypeInv, TypeOK, PoolType
  <2>2. SameTasks /\ ready' = ready
    BY <1>14, <2>1 DEF Fail, SameTasks, batchVars
  <2>3. CASE UNCHANGED kernelVars
    BY <1>1, <2>2, <2>3
  <2>4. CASE Close(wjob[w].fd)
    <3>1. ASSUME NEW g \in Fds, Sound(g)' PROVE Sound(g) /\ (Known(g) => Known(g)')
      <4>1. Sound(g) /\ armed'[g] = armed[g]
        BY <1>0, <2>4, <3>1, CloseElse DEF Sound
      <4> QED
        BY <2>2, <4>1, SameInFlight DEF Known, InUse
    <3> QED
      BY <1>0, <3>1, KnownKept
  <2> QED
    BY <1>14, <2>3, <2>4 DEF Fail
<1> QED
  BY <1>2, <1>3, <1>4, <1>5, <1>6, <1>7, <1>8, <1>9, <1>10, <1>11, <1>12, <1>13, <1>14
  DEF Next, Batch, Handle, Tick, Worker

\* Every open connection is watched by epoll, in the batch or with the workers,
\* unless epoll_ctl, a full queue or an earlier connection's task lost it.
THEOREM NoConnectionStranded == Spec => []NoneStranded
<1>1. Init => KeepFacts
  BY DEF Init, KeepFacts, WaitQuiet, Sound
<1>2. WatchInv /\ OwnInv /\ KeepFacts /\ [Next]_vars => KeepFacts'
  BY KeepStep DEF KeepInv
<1>3. KeepFacts => NoneStranded
  BY DEF KeepFacts, NoneStranded, Sound, Known, Open
<1> QED
  BY <1>1, <1>2, <1>3, WatchInvariant, OwnInvariant, PTL DEF Spec
=============================================================================
