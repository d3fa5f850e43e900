------------------------------ MODULE ConnPool ------------------------------
(***************************************************************************)
(* connection_pool and connectionRAII: threads take a database connection, *)
(* use it and give it back. The list is guarded by lock and counted by the *)
(* semaphore reserve, but getConnection first looks at the list's size     *)
(* without the lock and gives up when it is 0. A critical section is one   *)
(* action: what an unlocked reader sees is the list before or after it.    *)
(***************************************************************************)
EXTENDS Integers, Sequences, FiniteSets, Functions

CONSTANTS
  Threads,   \* the callers: the workers of the pool
  Conns,     \* the connections opened by init
  Null       \* the NULL connection

ASSUME ThreadsAssumption == IsFiniteSet(Threads)
ASSUME ConnsAssumption == IsFiniteSet(Conns)
ASSUME NullAssumption == Null \notin Conns

VARIABLES
  connList,             \* idle connections, first out first
  reserve,              \* the semaphore
  m_FreeConn, m_CurConn,
  pc,                   \* where a thread is in getConnection / releaseConnection
  con,                  \* the connection a thread has, or Null
  closed,               \* connections destroyPool has closed
  phase                 \* the pool is "up", its destroyPool is over, or it is "destroyed"

counts == <<m_FreeConn, m_CurConn>>
ending == <<closed, phase>>
vars == <<connList, reserve, counts, pc, con, ending>>

At(label) == {t \in Threads : pc[t] = label}
Using(c) == {t \in Threads : con[t] = c}
-----------------------------------------------------------------------------
\* init opens every connection; reserve = sem(m_FreeConn).
Init ==
  /\ connList \in {s \in [1..Cardinality(Conns) -> Conns] : Range(s) = Conns}
  /\ reserve = Cardinality(Conns)
  /\ m_FreeConn = Cardinality(Conns) /\ m_CurConn = 0
  /\ pc = [t \in Threads |-> "idle"]
  /\ con = [t \in Threads |-> Null]
  /\ closed = {} /\ phase = "up"

Goto(t, label) == pc' = [pc EXCEPT ![t] = label]

Usable == phase # "destroyed"

\* getConnection: if (0 == connList.size()) return NULL, unlocked.
Check(t) ==
  /\ Usable /\ pc[t] = "idle"
  /\ Goto(t, IF connList = <<>> THEN "use" ELSE "wait")
  /\ UNCHANGED <<connList, reserve, counts, con, ending>>

\* reserve.wait()
Wait_Skipped(t) ==
  /\ Usable /\ pc[t] = "wait"
  /\ Goto(t, "take")
  /\ UNCHANGED <<connList, reserve, counts, con, ending>>
Wait(t) ==
  /\ Usable /\ pc[t] = "wait" /\ reserve > 0
  /\ reserve' = reserve - 1
  /\ Goto(t, "take")
  /\ UNCHANGED <<connList, counts, con, ending>>

\* The locked part: front, pop_front and the counters.
Take_NoPop(t) ==
  /\ Usable /\ pc[t] = "take" /\ connList # <<>>
  /\ con' = [con EXCEPT ![t] = Head(connList)]
  /\ m_FreeConn' = m_FreeConn - 1 /\ m_CurConn' = m_CurConn + 1
  /\ Goto(t, "use")
  /\ UNCHANGED <<connList, reserve, ending>>
Take(t) ==
  /\ Usable /\ pc[t] = "take" /\ connList # <<>>
  /\ con' = [con EXCEPT ![t] = Head(connList)]
  /\ connList' = Tail(connList)
  /\ m_FreeConn' = m_FreeConn - 1 /\ m_CurConn' = m_CurConn + 1
  /\ Goto(t, "use")
  /\ UNCHANGED <<reserve, ending>>

\* releaseConnection from ~connectionRAII: a NULL connection is not given back.
Release_Null(t) ==
  /\ Usable /\ pc[t] = "use"
  /\ Goto(t, "post")
  /\ con' = [con EXCEPT ![t] = Null]
  /\ connList' = Append(connList, con[t])
  /\ m_FreeConn' = m_FreeConn + 1 /\ m_CurConn' = m_CurConn - 1
  /\ UNCHANGED <<reserve, ending>>
Release_Leak(t) ==
  /\ Usable /\ pc[t] = "use"
  /\ Goto(t, "idle")
  /\ con' = [con EXCEPT ![t] = Null]
  /\ UNCHANGED <<connList, counts, reserve, ending>>
Release(t) ==
  /\ pc[t] = "use"
  /\ con' = [con EXCEPT ![t] = Null]
  /\ \/ con[t] = Null /\ Goto(t, "idle") /\ UNCHANGED <<connList, counts>>
     \/ /\ Usable /\ con[t] # Null
        /\ connList' = Append(connList, con[t])
        /\ m_FreeConn' = m_FreeConn + 1 /\ m_CurConn' = m_CurConn - 1
        /\ Goto(t, "post")
  /\ UNCHANGED <<reserve, ending>>

\* reserve.post()
Post(t) ==
  /\ Usable /\ pc[t] = "post"
  /\ reserve' = reserve + 1
  /\ Goto(t, "idle")
  /\ UNCHANGED <<connList, counts, con, ending>>

\* The static destructor, when main returns and the workers still run. First
\* destroyPool: it closes what is in the list but leaves it there.
Destroy ==
  /\ phase = "up"
  /\ phase' = "closed"
  /\ closed' = Range(connList)
  /\ IF connList = <<>> THEN UNCHANGED counts ELSE m_FreeConn' = 0 /\ m_CurConn' = 0
  /\ UNCHANGED <<connList, reserve, pc, con>>

\* Then the members: reserve, connList and lock are gone.
DestroyMembers ==
  /\ phase = "closed"
  /\ phase' = "destroyed"
  /\ connList' = <<>> /\ reserve' = 0
  /\ UNCHANGED <<counts, pc, con, closed>>

\* A thread that touches the destroyed pool: the behaviour of the program is
\* undefined, and nothing is said of the thread any more.
Undefined(t) ==
  /\ ~Usable
  /\ pc[t] = "use" => con[t] # Null
  /\ Goto(t, "undefined")
  /\ UNCHANGED <<connList, reserve, counts, con, ending>>

Step(t) == Check(t) \/ Wait(t) \/ Take(t) \/ Release(t) \/ Post(t) \/ Undefined(t)

Next == Destroy \/ DestroyMembers \/ \E t \in Threads : Step(t)

Spec == Init /\ [][Next]_vars
-----------------------------------------------------------------------------
\* Every variable holds a value of its type.
TypeOK ==
  /\ connList \in Seq(Conns)
  /\ reserve \in Nat
  /\ m_FreeConn \in Int /\ m_CurConn \in Int
  /\ pc \in [Threads -> {"idle", "wait", "take", "use", "post", "undefined"}]
  /\ con \in [Threads -> Conns \cup {Null}]
  /\ closed \in SUBSET Conns /\ phase \in {"up", "closed", "destroyed"}

\* The semaphore and the list agree up to the threads between the two: those
\* that have waited but not popped, and those that have pushed but not posted.
Conserved ==
  Usable => Len(connList) = reserve + Cardinality(At("take")) + Cardinality(At("post"))

\* So front() is never called on an empty list (getConnection does not look
\* again under the lock), as long as there is a list.
FrontExists == Usable => \A t \in Threads : pc[t] = "take" => connList # <<>>

\* As long as there is a pool a connection is idle or has exactly one user:
\* never lost, never shared.
Exclusive ==
  Usable =>
    /\ \A c \in Conns :
         Cardinality(Using(c)) + Cardinality({i \in DOMAIN connList : connList[i] = c}) = 1
    /\ \A t \in Threads : con[t] # Null => pc[t] = "use"

\* A thread that waits on the semaphore in vain waits for another that has a
\* connection or is on its way with one, never for threads that wait as well.
WaitsForAHolder ==
  \A t \in Threads :
    Usable /\ pc[t] = "wait" /\ reserve = 0
      => \E s \in Threads : con[s] # Null \/ pc[s] \in {"take", "post"}

\* getConnection hands out a connection and never NULL (sql_connection_pool.cpp
\* 41). True of a pool with a connection for every thread, as main sets it up.
NeverNull == \A t \in Threads : pc[t] = "use" => con[t] # Null

\* In such a pool reserve.wait() never blocks either, so a worker that has its
\* task is never held up by the others.
NeverBlocks == \A t \in Threads : Usable /\ pc[t] = "wait" => reserve > 0

=============================================================================
