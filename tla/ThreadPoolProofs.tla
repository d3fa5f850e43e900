-------------------------- MODULE ThreadPoolProofs --------------------------
(***************************************************************************)
(* Theorems about ThreadPool, for every number of workers, connections and *)
(* tasks and every queue length: the types, the semaphore of the queue,    *)
(* that the pool is the task queue Server uses, and - with what            *)
(* ConnPoolProofs shows of the connection pool - that every request has a  *)
(* database connection.                                                    *)
(***************************************************************************)
EXTENDS ThreadPool, FiniteSetTheorems, SequenceTheorems, TLAPS

CPP == INSTANCE ConnPoolProofs WITH Threads <- Workers

-----------------------------------------------------------------------------
(***************************************************************************)
(* The connection pool inside the thread pool. Operators of the standard   *)
(* modules have a name of their own in every instance.                     *)
(***************************************************************************)

LEMMA SameOperators ==
  /\ \A S : CPP!IsFiniteSet(S) <=> IsFiniteSet(S)
  /\ \A S : CP!Cardinality(S) = Cardinality(S) /\ CPP!Cardinality(S) = Cardinality(S)
  /\ \A f : CP!Range(f) = CPP!Range(f)
<1>1. \A S : CPP!IsFiniteSet(S) <=> IsFiniteSet(S)
  BY DEF CPP!IsFiniteSet, IsFiniteSet
<1>2. \A S : CP!Cardinality(S) = Cardinality(S)
  BY DEF CP!Cardinality, Cardinality
<1>3. \A S : CPP!Cardinality(S) = Cardinality(S)
  BY DEF CPP!Cardinality, Cardinality
<1>4. \A f : CP!Range(f) = CPP!Range(f)
  BY DEF CP!Range, CPP!Range
<1> QED
  BY <1>1, <1>2, <1>3, <1>4

LEMMA ConnInit == Init => CPP!Inv
<1>1. CP!Init => CPP!Init
  BY SameOperators DEF CP!Init, CPP!Init
<1>2. CPP!Init => CPP!Inv
  BY PoolAssumption, SameOperators, CPP!InvInit
<1> QED
  BY <1>1, <1>2 DEF Init

\* A step of the thread pool is at most one step of the connection pool.
LEMMA ConnNext == [Next]_vars => [CPP!Next]_(CPP!vars)
<1> SUFFICES ASSUME [Next]_vars PROVE [CPP!Next]_(CPP!vars)
  OBVIOUS
<1>1. CASE UNCHANGED connVars
  BY <1>1 DEF connVars, CPP!vars, CPP!counts, CPP!ending
<1>2. ASSUME NEW w \in Workers, Connect(w) PROVE CPP!Next
  BY <1>2 DEF Connect, CP!Check, CP!Wait, CP!Take, CP!Goto, CP!counts, CP!ending, CP!Usable,
     CPP!Check, CPP!Wait, CPP!Take, CPP!Goto, CPP!counts, CPP!ending, CPP!Usable, CPP!Step,
     CPP!Next
<1>3. ASSUME NEW w \in Workers, Disconnect(w) PROVE CPP!Next
  BY <1>3 DEF Disconnect, CP!Release, CP!Post, CP!Goto, CP!counts, CP!ending, CP!Usable,
     CPP!Release, CPP!Post, CPP!Goto, CPP!counts, CPP!ending, CPP!Usable, CPP!Step, CPP!Next
<1> QED
  BY <1>1, <1>2, <1>3 DEF Next, Main, AppendTask, PostTask, Leave, Destructor, DestroyMembers,
     Work, Loop, WaitTask, Dequeue, Process, Undefined, vars

LEMMA ConnStep == CPP!Inv /\ [Next]_vars => CPP!Inv'
BY ConnNext, PoolAssumption, SameOperators, CPP!InvStep

LEMMA ConnInvariant == Spec => []CPP!Inv
BY ConnInit, ConnStep, PTL DEF Spec

\* The types of the connection pool, label by label of getConnection.
LEMMA ConnTypes ==
  ASSUME CPP!Inv
  PROVE  /\ CP!TypeOK
         /\ pc \in [Workers -> {"idle", "wait", "take", "use", "post", "undefined"}]
BY DEF CPP!Inv, CPP!TypeOK, CP!TypeOK
-----------------------------------------------------------------------------
(***************************************************************************)
(* Types, and the task of a worker that serves.                            *)
(***************************************************************************)

QueueType == m_workqueue \in Seq(Tasks) /\ m_queuesem \in Nat
MainType ==
  /\ submitted \in 0..MaxTasks /\ m_shotdown \in BOOLEAN
  /\ mpc \in {"free", "post", "leaving", "shutdown", "gone"}
WorkType ==
  /\ wpc \in [Workers -> {"loop", "wait", "dequeue", "serve", "served", "exit", "undefined"}]
  /\ request \in [Workers -> Tasks \cup {NoTask}]
  /\ processed \in Seq(Tasks)

\* A worker has its task from the pop to the end of process().
Serving(w) == wpc[w] \in {"serve", "served"}
ServesTask == \A w \in Workers : Serving(w) => request[w] \in Tasks

PoolInv == QueueType /\ MainType /\ WorkType /\ ServesTask

LEMMA PoolInit == Init => PoolInv
<1> SUFFICES ASSUME Init PROVE PoolInv
  OBVIOUS
<1>1. QueueType
  BY DEF Init, QueueType
<1>2. MainType
  <2>1. m_shotdown = FALSE
    BY DEF Init
  <2>2. submitted = 0 /\ 0 \in 0..MaxTasks /\ mpc = "free"
    BY SizesAssumption DEF Init
  <2> QED
    BY <2>1, <2>2 DEF MainType
<1>3. WorkType /\ ServesTask
  BY DEF Init, WorkType, ServesTask, Serving, NoTask
<1> QED
  BY <1>1, <1>2, <1>3 DEF PoolInv

LEMMA PoolStep == PoolInv /\ [Next]_vars => PoolInv'
<1> SUFFICES ASSUME PoolInv, [Next]_vars PROVE PoolInv'
  OBVIOUS
<1> USE DEF PoolInv, Goto
<1>1. CASE AppendTask
  <2>1. submitted' \in Tasks
    BY <1>1, SizesAssumption DEF AppendTask, MainType, Tasks
  <2>2. QueueType'
    BY <1>1, <2>1 DEF AppendTask, QueueType
  <2>3. MainType'
    BY <1>1, <2>1 DEF AppendTask, MainType, Tasks
  <2> QED
    BY <1>1, <2>2, <2>3 DEF AppendTask, workVars, WorkType, ServesTask, Serving
<1>2. CASE PostTask
  BY <1>2 DEF PostTask, workVars, QueueType, MainType, WorkType, ServesTask, Serving
<1>3. CASE Leave \/ Destructor \/ DestroyMembers
  <2>1. UNCHANGED workVars /\ MainType'
    BY <1>3 DEF Leave, Destructor, DestroyMembers, MainType
  <2>2. <<>> \in Seq(Tasks) /\ 0 \in Nat
    OBVIOUS
  <2>3. QueueType'
    BY <1>3, <2>2 DEF Leave, Destructor, DestroyMembers, queueVars, QueueType
  <2> QED
    BY <2>1, <2>3 DEF workVars, WorkType, ServesTask, Serving
<1>4. ASSUME NEW w \in Workers, Loop(w) \/ WaitTask(w) \/ Undefined(w) PROVE PoolInv'
  <2>1. QueueType' /\ MainType'
    BY <1>4 DEF Loop, WaitTask, Undefined, queueVars, mainVars, QueueType, MainType
  <2>2. WorkType' /\ ServesTask'
    BY <1>4 DEF Loop, WaitTask, Undefined, WorkType, ServesTask, Serving
  <2> QED
    BY <2>1, <2>2
<1>5. ASSUME NEW w \in Workers, Dequeue(w) PROVE PoolInv'
  <2>1. MainType'
    BY <1>5 DEF Dequeue, mainVars, MainType
  <2>2. CASE m_workqueue = <<>>
    BY <1>5, <2>1, <2>2 DEF Dequeue, QueueType, WorkType, ServesTask, Serving
  <2>3. CASE m_workqueue # <<>>
    <3>1. Head(m_workqueue) \in Tasks /\ Tail(m_workqueue) \in Seq(Tasks)
      BY <2>3 DEF QueueType
    <3>2. QueueType'
      BY <1>5, <2>3, <3>1 DEF Dequeue, QueueType
    <3>3. WorkType' /\ ServesTask'
      BY <1>5, <2>3, <3>1 DEF Dequeue, WorkType, ServesTask, Serving
    <3> QED
      BY <2>1, <3>2, <3>3
  <2> QED
    BY <2>2, <2>3
<1>6. ASSUME NEW w \in Workers, Connect(w) PROVE PoolInv'
  BY <1>6 DEF Connect, queueVars, mainVars, workVars, QueueType, MainType, WorkType,
     ServesTask, Serving
<1>7. ASSUME NEW w \in Workers, Process(w) PROVE PoolInv'
  <2>1. request[w] \in Tasks
    BY <1>7 DEF Process, ServesTask, Serving
  <2>2. WorkType' /\ ServesTask'
    BY <1>7, <2>1 DEF Process, WorkType, ServesTask, Serving
  <2> QED
    BY <1>7, <2>2 DEF Process, queueVars, mainVars, QueueType, MainType
<1>8. ASSUME NEW w \in Workers, Disconnect(w) PROVE PoolInv'
  <2>1. WorkType' /\ ServesTask'
    BY <1>8 DEF Disconnect, WorkType, ServesTask, Serving, NoTask
  <2> QED
    BY <1>8, <2>1 DEF Disconnect, queueVars, mainVars, QueueType, MainType
<1>9. CASE UNCHANGED vars
  BY <1>9 DEF vars, queueVars, mainVars, workVars, QueueType, MainType, WorkType, ServesTask,
     Serving
<1> QED
  BY <1>1, <1>2, <1>3, <1>4, <1>5, <1>6, <1>7, <1>8, <1>9 DEF Next, Main, Work

LEMMA PoolInvariant == Spec => []PoolInv
BY PoolInit, PoolStep, PTL DEF Spec

\* Every variable of the thread pool, and of the connection pool its workers
\* use, holds a value of its type.
THEOREM PoolTypes == Spec => []TypeOK
<1>1. PoolInv /\ CPP!Inv => TypeOK
  BY ConnTypes DEF PoolInv, QueueType, MainType, WorkType, TypeOK
<1> QED
  BY <1>1, PoolInvariant, ConnInvariant, PTL
-----------------------------------------------------------------------------
(***************************************************************************)
(* The semaphore of the queue counts the tasks no worker has claimed: the  *)
(* queue holds one task per unit, one per worker between wait and pop, and *)
(* one if append has pushed but not yet posted - as long as it exists.     *)
(***************************************************************************)

Unposted == IF mpc = "post" THEN 1 ELSE 0
SemCounts ==
  PoolExists => Len(m_workqueue) = m_queuesem + Cardinality(At("dequeue")) + Unposted

LEMMA ClaimsFinite == IsFiniteSet(At("dequeue")) /\ Cardinality(At("dequeue")) \in Nat
BY PoolAssumption, FS_Subset, FS_CardinalityType DEF At

\* A worker between wait and pop finds a task.
LEMMA ClaimedIsThere == PoolInv /\ SemCounts => NeverEmptyHanded
<1> SUFFICES ASSUME PoolInv, SemCounts, PoolExists, NEW w \in At("dequeue")
             PROVE  m_workqueue # <<>>
  BY DEF NeverEmptyHanded
<1>1. Cardinality(At("dequeue")) # 0
  BY ClaimsFinite, FS_EmptySet
<1>2. Len(m_workqueue) > 0
  BY <1>1, ClaimsFinite DEF PoolInv, QueueType, SemCounts, Unposted
<1> QED
  BY <1>2

LEMMA SemInit == Init => SemCounts
<1> SUFFICES ASSUME Init PROVE SemCounts
  OBVIOUS
<1>1. Cardinality(At("dequeue")) = 0
  <2>1. At("dequeue") = {}
    BY DEF Init, At
  <2> QED
    BY <2>1, FS_EmptySet
<1>2. Len(m_workqueue) = 0 /\ m_queuesem = 0 /\ Unposted = 0
  BY DEF Init, Unposted
<1> QED
  BY <1>1, <1>2 DEF SemCounts

LEMMA SemStep == PoolInv /\ SemCounts /\ [Next]_vars => SemCounts'
<1> SUFFICES ASSUME PoolInv, SemCounts, [Next]_vars PROVE SemCounts'
  OBVIOUS
<1> USE DEF PoolInv, QueueType, MainType, WorkType
<1>0. Cardinality(At("dequeue")) \in Nat /\ Len(m_workqueue) \in Nat
  BY ClaimsFinite
<1> SUFFICES ASSUME PoolExists' PROVE SemCounts'
  BY DEF SemCounts
<1> SUFFICES ASSUME PoolExists PROVE SemCounts'
  BY DEF Next, Main, AppendTask, PostTask, Leave, Destructor, DestroyMembers, Work, Loop,
     WaitTask, Dequeue, Connect, Process, Disconnect, Undefined, mainVars, vars, PoolExists
<1>1. CASE UNCHANGED <<wpc, queueVars>> /\ (mpc' = "post") = (mpc = "post")
  <2>1. At("dequeue")' = At("dequeue")
    BY <1>1 DEF At
  <2> QED
    BY <1>1, <2>1 DEF SemCounts, Unposted, queueVars
<1>2. CASE AppendTask \/ PostTask
  <2>1. At("dequeue")' = At("dequeue")
    BY <1>2 DEF AppendTask, PostTask, workVars, At
  <2>2. CASE AppendTask /\ m_workqueue' = m_workqueue
    BY <2>1, <2>2, SizesAssumption, <1>0 DEF AppendTask, SemCounts, Unposted
  <2>3. CASE AppendTask /\ m_workqueue' = Append(m_workqueue, submitted')
    <3>1. submitted' \in Tasks
      BY <2>3, SizesAssumption DEF AppendTask, Tasks
    <3>2. Len(m_workqueue') = Len(m_workqueue) + 1
      BY <2>3, <3>1
    <3> QED
      BY <1>0, <2>1, <2>3, <3>2 DEF AppendTask, SemCounts, Unposted
  <2>4. CASE PostTask
    BY <1>0, <2>1, <2>4 DEF PostTask, SemCounts, Unposted
  <2> QED
    BY <1>2, <2>2, <2>3, <2>4 DEF AppendTask
<1>3. ASSUME NEW w \in Workers, WaitTask(w) PROVE SemCounts'
  <2>1. w \notin At("dequeue") /\ At("dequeue")' = At("dequeue") \cup {w}
    BY <1>3 DEF WaitTask, Goto, At
  <2>2. Cardinality(At("dequeue")') = Cardinality(At("dequeue")) + 1
    BY <2>1, ClaimsFinite, FS_AddElement
  <2> QED
    BY <1>0, <1>3, <2>2 DEF WaitTask, SemCounts, Unposted, mainVars
<1>4. ASSUME NEW w \in Workers, Dequeue(w) PROVE SemCounts'
  <2>1. w \in At("dequeue") /\ At("dequeue")' = At("dequeue") \ {w}
    BY <1>4 DEF Dequeue, Goto, At
  <2>2. Cardinality(At("dequeue")') = Cardinality(At("dequeue")) - 1
    BY <2>1, ClaimsFinite, FS_RemoveElement
  <2>3. m_workqueue # <<>>
    BY <2>1, ClaimedIsThere DEF NeverEmptyHanded
  <2>4. Len(m_workqueue') = Len(m_workqueue) - 1
    BY <1>4, <2>3 DEF Dequeue
  <2> QED
    BY <1>0, <1>4, <2>2, <2>4 DEF Dequeue, SemCounts, Unposted, mainVars
<1>5. ASSUME NEW w \in Workers, Loop(w) \/ Process(w) \/ Disconnect(w) PROVE SemCounts'
  <2>1. At("dequeue")' = At("dequeue")
    BY <1>5 DEF Loop, Process, Disconnect, Goto, At
  <2> QED
    BY <1>5, <2>1 DEF Loop, Process, Disconnect, SemCounts, Unposted, queueVars, mainVars
<1>6. CASE Leave \/ Destructor \/ DestroyMembers \/ \E w \in Workers : Undefined(w)
  <2>1. CASE Leave \/ Destructor
    BY <1>1, <2>1 DEF Leave, Destructor, workVars
  <2>2. ~DestroyMembers
    BY DEF DestroyMembers, PoolExists
  <2>3. ASSUME NEW w \in Workers, Undefined(w) PROVE SemCounts'
    <3>1. At("dequeue")' = At("dequeue")
      BY <2>3 DEF Undefined, Touches, Goto, At
    <3> QED
      BY <2>3, <3>1 DEF Undefined, SemCounts, Unposted, queueVars, mainVars
  <2> QED
    BY <1>6, <2>1, <2>2, <2>3
<1>7. ASSUME NEW w \in Workers, Connect(w) PROVE SemCounts'
  BY <1>1, <1>7 DEF Connect, workVars, mainVars
<1>8. CASE UNCHANGED vars
  BY <1>1, <1>8 DEF vars, workVars, mainVars
<1> QED
  BY <1>2, <1>3, <1>4, <1>5, <1>6, <1>7, <1>8 DEF Next, Main, Work

LEMMA SemInvariant == Spec => []SemCounts
BY SemInit, SemStep, PoolInvariant, PTL DEF Spec

\* Whatever the order of push, post, wait and pop, a woken worker finds a task
\* under the lock: the size() == 0 branch of work is dead code.
THEOREM WokenForATask == Spec => []NeverEmptyHanded
BY ClaimedIsThere, PoolInvariant, SemInvariant, PTL
-----------------------------------------------------------------------------
(***************************************************************************)
(* The refinement: push is Accept, the pop that finds a task is Start, the *)
(* end of ~connectionRAII (or of a worker whose task main has deleted) is  *)
(* Finish, the end of ~threadpool is End, and all else is invisible.       *)
(***************************************************************************)

LEMMA TaskInit == Init => TQ!Init
BY DEF Init, TQ!Init, Running, PoolExists

\* Only the end of ~threadpool ends the queue.
LEMMA OverKept == ASSUME [Next]_vars, ~DestroyMembers PROVE (~PoolExists)' = ~PoolExists
<1>1. PoolExists' <=> PoolExists
  BY DEF Next, Main, AppendTask, PostTask, Leave, Destructor, Work, Loop, WaitTask, Dequeue,
     Connect, Process, Disconnect, Undefined, mainVars, vars, PoolExists
<1> QED
  BY <1>1

\* A step that moves no worker into or out of its task, and not the queue.
LEMMA TaskStutters ==
  ASSUME UNCHANGED <<m_workqueue, request>>, (~PoolExists)' = ~PoolExists,
         \A w \in Workers : Serving(w)' = Serving(w)
  PROVE  UNCHANGED TQ!vars
<1>1. Running' = Running
  BY DEF Running, Serving
<1> HIDE DEF Running, PoolExists
<1> DEFINE over == ~PoolExists
<1>2. over' = over
  OBVIOUS
<1> HIDE DEF over
<1>3. UNCHANGED <<m_workqueue, Running, over>>
  BY <1>1, <1>2
<1> QED
  BY <1>3 DEF TQ!vars, over

LEMMA TaskStep == PoolInv /\ [Next]_vars => [TQ!Next]_(TQ!vars)
<1> SUFFICES ASSUME PoolInv, [Next]_vars PROVE [TQ!Next]_(TQ!vars)
  OBVIOUS
<1> USE DEF PoolInv, QueueType, MainType, WorkType
<1>1. CASE DestroyMembers
  <2>1. Running' = Running
    BY <1>1 DEF DestroyMembers, workVars, Running
  <2>2. ~(~PoolExists) /\ (~PoolExists)' = TRUE
    BY <1>1 DEF DestroyMembers, PoolExists
  <2>3. m_workqueue' = <<>>
    BY <1>1 DEF DestroyMembers
  <2>4. TQ!End
    BY <2>1, <2>2, <2>3, Zenon DEF TQ!End
  <2> QED
    BY <2>4 DEF TQ!Next
<1>2. ASSUME AppendTask, ~DestroyMembers PROVE [TQ!Next]_(TQ!vars)
  <2>1. Running' = Running /\ (~PoolExists)' = ~PoolExists /\ PoolExists
    BY <1>2, OverKept DEF AppendTask, workVars, Running, PoolExists
  <2>2. submitted' \in Tasks
    BY <1>2, SizesAssumption DEF AppendTask, Tasks
  <2>3. CASE Len(m_workqueue) < MaxRequest /\ m_workqueue' = Append(m_workqueue, submitted')
    <3>1. TQ!Accept(submitted')
      BY <2>1, <2>3, Zenon DEF TQ!Accept
    <3> QED
      BY <2>2, <3>1 DEF TQ!Next
  <2>4. CASE UNCHANGED m_workqueue
    BY <2>1, <2>4, Zenon DEF TQ!vars
  <2> QED
    BY <1>2, <2>3, <2>4 DEF AppendTask
<1>3. ASSUME NEW w \in Workers, Dequeue(w), ~DestroyMembers PROVE [TQ!Next]_(TQ!vars)
  <2>0. (~PoolExists)' = ~PoolExists /\ PoolExists
    BY <1>3, OverKept DEF Dequeue
  <2>1. CASE m_workqueue = <<>>
    <3>1. \A v \in Workers : Serving(v)' = Serving(v)
      BY <1>3, <2>1 DEF Dequeue, Goto, Serving
    <3>2. UNCHANGED <<m_workqueue, request>>
      BY <1>3, <2>1 DEF Dequeue
    <3> QED
      BY <2>0, <3>1, <3>2, TaskStutters
  <2>2. CASE m_workqueue # <<>>
    <3>1. Running[w] = NoTask /\ Running' = [Running EXCEPT ![w] = Head(m_workqueue)]
      BY <1>3, <2>2 DEF Dequeue, Goto, Running
    <3>2. m_workqueue' = Tail(m_workqueue)
      BY <1>3, <2>2 DEF Dequeue
    <3>3. TQ!Start(w)
      BY <2>0, <2>2, <3>1, <3>2, Zenon DEF TQ!Start
    <3> QED
      BY <3>3 DEF TQ!Next
  <2> QED
    BY <2>1, <2>2
<1>4. ASSUME NEW w \in Workers, UNCHANGED m_workqueue, ~DestroyMembers,
             Serving(w), wpc' = [wpc EXCEPT ![w] = wpc'[w]], ~Serving(w)',
             \A v \in Workers : v # w => request'[v] = request[v]
      PROVE  [TQ!Next]_(TQ!vars)
  <2>1. Running[w] # NoTask
    BY <1>4 DEF Running, ServesTask, Serving, Tasks, NoTask
  <2>2. Running' = [Running EXCEPT ![w] = NoTask]
    BY <1>4 DEF Running, Serving
  <2>3. TQ!Finish(w)
    BY <1>4, <2>1, <2>2, OverKept, Zenon DEF TQ!Finish
  <2> QED
    BY <2>3 DEF TQ!Next
<1>5. ASSUME NEW w \in Workers, Disconnect(w), ~DestroyMembers PROVE [TQ!Next]_(TQ!vars)
  <2>1. CASE pc'[w] = "idle"
    BY <1>4, <1>5, <2>1 DEF Disconnect, Goto, queueVars, Serving
  <2>2. CASE pc'[w] # "idle"
    <3>1. UNCHANGED <<m_workqueue, request>> /\ \A v \in Workers : Serving(v)' = Serving(v)
      BY <1>5, <2>2 DEF Disconnect, queueVars, Serving
    <3> QED
      BY <1>5, <3>1, OverKept, TaskStutters
  <2> QED
    BY <2>1, <2>2
<1>6. ASSUME NEW w \in Workers, Undefined(w), ~DestroyMembers PROVE [TQ!Next]_(TQ!vars)
  <2>1. UNCHANGED <<m_workqueue, request>> /\ wpc' = [wpc EXCEPT ![w] = wpc'[w]]
    BY <1>6 DEF Undefined, Goto, queueVars
  <2>2. ~Serving(w)' /\ \A v \in Workers : v # w => Serving(v)' = Serving(v)
    BY <1>6 DEF Undefined, Goto, Serving
  <2>3. CASE Serving(w)
    BY <1>4, <1>6, <2>1, <2>2, <2>3
  <2>4. CASE ~Serving(w)
    <3>1. \A v \in Workers : Serving(v)' = Serving(v)
      BY <2>2, <2>4 DEF Serving
    <3> QED
      BY <1>6, <2>1, <3>1, OverKept, TaskStutters
  <2> QED
    BY <2>3, <2>4
<1>7. ASSUME NEW w \in Workers, Loop(w) \/ WaitTask(w) \/ Connect(w) \/ Process(w),
             ~DestroyMembers
      PROVE  [TQ!Next]_(TQ!vars)
  <2>1. \A v \in Workers : Serving(v)' = Serving(v)
    BY <1>7 DEF Loop, WaitTask, Connect, Process, Goto, Serving, workVars
  <2>2. UNCHANGED <<m_workqueue, request>>
    BY <1>7 DEF Loop, WaitTask, Connect, Process, queueVars, workVars
  <2> QED
    BY <1>7, <2>1, <2>2, OverKept, TaskStutters
<1>8. ASSUME PostTask \/ Leave \/ Destructor \/ UNCHANGED vars, ~DestroyMembers
      PROVE  [TQ!Next]_(TQ!vars)
  <2>1. UNCHANGED <<m_workqueue, request>> /\ \A w \in Workers : Serving(w)' = Serving(w)
    BY <1>8 DEF PostTask, Leave, Destructor, vars, queueVars, workVars, Serving
  <2> QED
    BY <1>8, <2>1, OverKept, TaskStutters
<1> QED
  BY <1>1, <1>2, <1>3, <1>5, <1>6, <1>7, <1>8 DEF Next, Main, Work

\* The thread pool is the bounded first-in first-out queue of tasks, each
\* handed to one free worker, that the event loop model uses.
THEOREM PoolIsTaskQueue == Spec => ImplementsTaskQueue
<1>1. Spec => TQ!Spec
  BY TaskInit, TaskStep, PoolInvariant, PTL DEF Spec, TQ!Spec
<1> QED
  BY <1>1 DEF ImplementsTaskQueue
-----------------------------------------------------------------------------
\* With at least as many connections as workers, no request is processed
\* without a connection and no worker that has its task waits for another.
THEOREM EveryRequestConnected ==
  ASSUME Cardinality(Workers) <= Cardinality(Conns) PROVE Spec => []ConnectionForEach
<1>1. CPP!Ample
  BY SameOperators DEF CPP!Ample
<1>2. Init => CPP!NeverNull
  BY DEF Init, CP!Init, CPP!NeverNull
<1>3. CPP!Inv /\ CPP!NeverNull /\ [Next]_vars => CPP!NeverNull'
  BY <1>1, ConnNext, PoolAssumption, SameOperators, CPP!NeverNullStep
<1>4. CPP!Inv => CPP!NeverBlocks
  BY <1>1, PoolAssumption, SameOperators, CPP!NothingToWaitFor
<1>5. CPP!NeverNull /\ CPP!NeverBlocks => ConnectionForEach
  BY DEF ConnectionForEach, CPP!NeverNull, CPP!NeverBlocks, CPP!Usable, CP!NeverNull,
     CP!NeverBlocks, CP!Usable
<1> QED
  BY <1>2, <1>3, <1>4, <1>5, ConnInvariant, PTL DEF Spec
=============================================================================
