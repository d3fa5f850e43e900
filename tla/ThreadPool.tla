----------------------------- MODULE ThreadPool -----------------------------
(***************************************************************************)
(* threadpool<http_conn>: the main thread appends tasks, the workers wait  *)
(* on m_queuesem, take one under m_queuelocker, and hold a database        *)
(* connection of ConnPool while they process it. Tasks are numbered in the *)
(* order main submits them.                                                *)
(***************************************************************************)
EXTENDS Integers, Sequences, FiniteSets, Functions

CONSTANTS
  Workers,     \* the threads the constructor starts
  Conns, Null, \* of the connection pool
  MaxRequest,  \* m_max_request
  MaxTasks     \* bound: tasks main submits in a run

ASSUME SizesAssumption == MaxRequest \in Nat \ {0} /\ MaxTasks \in Nat
ASSUME PoolAssumption == IsFiniteSet(Workers) /\ IsFiniteSet(Conns) /\ Null \notin Conns

VARIABLES
  m_workqueue, m_queuesem, m_shotdown,
  submitted,  \* tasks main has tried to append
  mpc,        \* main: "free", "post" inside append, then on its way out: "leaving",
              \* "shutdown" inside ~threadpool, "gone" after it
  wpc,        \* where a worker is in work()
  request,    \* the task a worker has
  processed,  \* tasks process() was run for, in order
  connList, reserve, m_FreeConn, m_CurConn, pc, con, closed, phase

queueVars == <<m_workqueue, m_queuesem>>
mainVars == <<submitted, mpc, m_shotdown>>
connVars == <<connList, reserve, m_FreeConn, m_CurConn, pc, con, closed, phase>>
workVars == <<wpc, request, processed>>
vars == <<queueVars, mainVars, connVars, workVars>>

NoTask == 0
Tasks == 1..MaxTasks

CP == INSTANCE ConnPool WITH Threads <- Workers

Init ==
  /\ m_workqueue = <<>> /\ m_queuesem = 0 /\ m_shotdown = FALSE
  /\ submitted = 0 /\ mpc = "free"
  /\ wpc = [w \in Workers |-> "loop"]
  /\ request = [w \in Workers |-> NoTask]
  /\ processed = <<>>
  /\ CP!Init
-----------------------------------------------------------------------------
\* append: refused when the queue is full, else pushed under the lock.
AppendTask ==
  /\ mpc = "free" /\ submitted < MaxTasks
  /\ submitted' = submitted + 1
  /\ \/ Len(m_workqueue) >= MaxRequest /\ UNCHANGED <<m_workqueue, mpc>>
     \/ /\ Len(m_workqueue) < MaxRequest
        /\ m_workqueue' = Append(m_workqueue, submitted')
        /\ mpc' = "post"
  /\ UNCHANGED <<m_queuesem, m_shotdown, connVars, workVars>>

\* and the semaphore posted after the unlock.
PostTask_Lost ==
  /\ mpc = "post" /\ mpc' = "free"
  /\ UNCHANGED <<queueVars, submitted, m_shotdown, connVars, workVars>>
PostTask_Twice ==
  /\ mpc = "post"
  /\ m_queuesem' = m_queuesem + 2
  /\ mpc' = "free"
  /\ UNCHANGED <<m_workqueue, submitted, m_shotdown, connVars, workVars>>
PostTask ==
  /\ mpc = "post"
  /\ m_queuesem' = m_queuesem + 1
  /\ mpc' = "free"
  /\ UNCHANGED <<m_workqueue, submitted, m_shotdown, connVars, workVars>>

\* epoll_wait fails: main breaks out of its loop and deletes users, the tasks'
\* own memory. (SIGTERM makes it return past this and the next.)
Leave ==
  /\ mpc = "free" /\ mpc' = "leaving"
  /\ UNCHANGED <<queueVars, submitted, m_shotdown, connVars, workVars>>

\* ~threadpool: m_threads is deleted (nobody reads it) and m_shotdown set; no
\* semaphore is posted, and the threads are detached.
Destructor ==
  /\ mpc = "leaving" /\ mpc' = "shutdown"
  /\ m_shotdown' = TRUE
  /\ UNCHANGED <<queueVars, submitted, connVars, workVars>>

\* Then its members m_workqueue, m_queuesem and m_queuelocker.
DestroyMembers ==
  /\ mpc = "shutdown" /\ mpc' = "gone"
  /\ m_workqueue' = <<>> /\ m_queuesem' = 0
  /\ UNCHANGED <<submitted, m_shotdown, connVars, workVars>>
-----------------------------------------------------------------------------
Goto(w, label) == wpc' = [wpc EXCEPT ![w] = label]

PoolExists == mpc # "gone"
TasksExist == mpc \in {"free", "post"}

\* while (!pool->m_shotdown)
Loop(w) ==
  /\ PoolExists /\ wpc[w] = "loop"
  /\ Goto(w, IF m_shotdown THEN "exit" ELSE "wait")
  /\ UNCHANGED <<queueVars, mainVars, connVars, request, processed>>

\* m_queuesem.wait()
WaitTask_Polls(w) ==
  /\ PoolExists /\ wpc[w] = "wait"
  /\ m_queuesem' = m_queuesem - 1
  /\ Goto(w, "dequeue")
  /\ UNCHANGED <<m_workqueue, mainVars, connVars, request, processed>>
WaitTask(w) ==
  /\ PoolExists /\ wpc[w] = "wait" /\ m_queuesem > 0
  /\ m_queuesem' = m_queuesem - 1
  /\ Goto(w, "dequeue")
  /\ UNCHANGED <<m_workqueue, mainVars, connVars, request, processed>>

\* The locked part: front and pop_front, or back to the loop if there is none.
Dequeue_Newest(w) ==
  /\ PoolExists /\ wpc[w] = "dequeue"
  /\ m_workqueue # <<>>
  /\ request' = [request EXCEPT ![w] = m_workqueue[Len(m_workqueue)]]
  /\ m_workqueue' = SubSeq(m_workqueue, 1, Len(m_workqueue) - 1)
  /\ Goto(w, "serve")
  /\ UNCHANGED <<m_queuesem, mainVars, connVars, processed>>
Dequeue(w) ==
  /\ PoolExists /\ wpc[w] = "dequeue"
  /\ IF m_workqueue = <<>>
     THEN Goto(w, "loop") /\ UNCHANGED <<m_workqueue, request>>
     ELSE /\ request' = [request EXCEPT ![w] = Head(m_workqueue)]
          /\ m_workqueue' = Tail(m_workqueue)
          /\ Goto(w, "serve")
  /\ UNCHANGED <<m_queuesem, mainVars, connVars, processed>>

\* connectionRAII mysqlcon(&request->mysql, pool->m_connPool): getConnection.
Connect(w) ==
  /\ wpc[w] = "serve"
  /\ (PoolExists /\ CP!Check(w)) \/ CP!Wait(w) \/ CP!Take(w)
  /\ UNCHANGED <<queueVars, mainVars, workVars>>

\* request->process(), with whatever getConnection returned.
Process(w) ==
  /\ TasksExist /\ wpc[w] = "serve" /\ pc[w] = "use"
  /\ processed' = Append(processed, request[w])
  /\ Goto(w, "served")
  /\ UNCHANGED <<queueVars, mainVars, connVars, request>>

\* ~connectionRAII: releaseConnection, then the next turn of the loop.
Disconnect(w) ==
  /\ wpc[w] = "served"
  /\ CP!Release(w) \/ CP!Post(w)
  /\ IF pc'[w] = "idle"
     THEN Goto(w, "loop") /\ request' = [request EXCEPT ![w] = NoTask]
     ELSE UNCHANGED <<wpc, request>>
  /\ UNCHANGED <<queueVars, mainVars, processed>>

\* A worker that touches the destroyed pool, or its task once users is deleted:
\* undefined behaviour, and nothing is said of the worker any more.
Touches(w) ==
  \/ /\ ~PoolExists
     /\ wpc[w] \in {"loop", "wait", "dequeue"} \/ (wpc[w] = "serve" /\ pc[w] = "idle")
  \/ ~TasksExist /\ wpc[w] = "serve" /\ pc[w] = "use"
Undefined(w) ==
  /\ Touches(w)
  /\ Goto(w, "undefined")
  /\ UNCHANGED <<queueVars, mainVars, connVars, request, processed>>

Main == AppendTask \/ PostTask \/ Leave \/ Destructor \/ DestroyMembers
Work(w) ==
  \/ Loop(w) \/ WaitTask(w) \/ Dequeue(w)
  \/ Connect(w) \/ Process(w) \/ Disconnect(w) \/ Undefined(w)

Next == Main \/ \E w \in Workers : Work(w)

Spec == Init /\ [][Next]_vars

\* Every thread runs whenever it is not blocked; main need not submit or stop.
Fairness == WF_vars(PostTask) /\ \A w \in Workers : WF_vars(Work(w))
FairSpec == Spec /\ Fairness
-----------------------------------------------------------------------------
\* Every variable holds a value of its type.
TypeOK ==
  /\ m_workqueue \in Seq(Tasks) /\ m_queuesem \in Nat /\ m_shotdown \in BOOLEAN
  /\ submitted \in 0..MaxTasks /\ mpc \in {"free", "post", "leaving", "shutdown", "gone"}
  /\ wpc \in [Workers -> {"loop", "wait", "dequeue", "serve", "served", "exit", "undefined"}]
  /\ request \in [Workers -> Tasks \cup {NoTask}]
  /\ processed \in Seq(Tasks)
  /\ CP!TypeOK

At(label) == {w \in Workers : wpc[w] = label}
\* As long as there is a queue no worker wakes for nothing: the size() == 0
\* branch of work is never taken.
NeverEmptyHanded == PoolExists => \A w \in At("dequeue") : m_workqueue # <<>>

\* The pool is the bounded first-in first-out queue that Server uses, until main
\* destroys it and what is in it.
Running == [w \in Workers |-> IF wpc[w] \in {"serve", "served"} THEN request[w] ELSE NoTask]
TQ == INSTANCE TaskQueue WITH queue <- m_workqueue, running <- Running, over <- ~PoolExists
ImplementsTaskQueue == TQ!Spec

\* With a connection for every worker, as main sets the pools up, no request is
\* processed without one and no worker that has its task waits for another:
\* getConnection looks at the size of the list without its lock.
ConnectionForEach == CP!NeverNull /\ CP!NeverBlocks

\* A task that append accepted is processed, unless main leaves its loop first.
AcceptedIsProcessed ==
  \A k \in Tasks : k \in Range(m_workqueue) ~> (k \in Range(processed) \/ ~TasksExist)

=============================================================================
