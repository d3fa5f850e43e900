------------------------------- MODULE Server -------------------------------
(***************************************************************************)
(* The event loop of main.cpp and everything it drives: the epoll set, the *)
(* http_conn slots users[fd], the connection timers users_timer[fd], the   *)
(* signal pipe and the worker threads that run http_conn::process.         *)
(*                                                                         *)
(* One action is one stretch of code that no other thread can observe      *)
(* half-way: a whole event handler of the main thread, one timer of a      *)
(* tick, or the part of a worker between two accesses to shared state.     *)
(* The list order of the timers, the hand-over of tasks and the contents   *)
(* of requests are modelled in modules of their own; here a request may    *)
(* have any outcome of process(), and a response any outcome of write().   *)
(***************************************************************************)
EXTENDS Integers, Sequences, FiniteSets, Functions

CONSTANTS
  Fds,         \* descriptors accept() can return
  Ids,         \* identities of connections; the util_timer of one has its identity
  Workers,     \* threads of the pool
  None,        \* no connection, no timer
  Slots,       \* expire = cur + 3 * TIMESLOT is 3 slots
  MaxUsers,    \* MAX_FD
  MaxRequest,  \* m_max_request
  MaxDrift     \* bound: no close_conn while m_user_count is off by more

ASSUME FdsAssumption == IsFiniteSet(Fds)
ASSUME WorkersAssumption == IsFiniteSet(Workers)
ASSUME NoneAssumption == None \notin Ids /\ None \notin Fds
ASSUME BoundsAssumption ==
  Slots \in Nat \ {0} /\ MaxUsers \in Nat \ {0} /\ MaxRequest \in Nat \ {0} /\ MaxDrift \in Nat

VARIABLES
  sock,          \* the connection open on a descriptor, or None
  armed,         \* the events epoll still reports for it ({} after a one-shot)
  watch,         \* how epoll reports pipefd[0] and listenfd: always, once or never
  ready,         \* the descriptor's unhandled entry of events[], or "none";
                 \* "spin" is an EPOLLOUT that write() has not returned from
  newconn,       \* events[] holds an unhandled entry of listenfd
  sigEv,         \* events[] holds an unhandled entry of pipefd[0]
  pipe,          \* the socket pair holds a SIGALRM byte
  alarm,         \* an alarm() is pending
  timeout,       \* main's flag: a tick is due after this batch
  mpc,           \* where the main thread is
  due,           \* the timers the running tick has yet to fire
  timer,         \* users_timer[fd].timer
  user_data,     \* the fd of a timer's client_data, None for a freed timer
  expire,        \* slots of TIMESLOT left to a timer, Freed once deleted
  m_sockfd,      \* users[fd].m_sockfd is fd (TRUE) or -1 (FALSE)
  pending,       \* users[fd].bytes_to_send > 0
  m_user_count,  \* http_conn::m_user_count
  queue,         \* m_workqueue; the id of a task is history, not code
  wpc, wjob,     \* where a worker is, and its task
  wcount,        \* the m_user_count a worker has loaded in close_conn
  mark,          \* what has befallen the open connection of a descriptor
  orphans,       \* history: timers whose connection another's close() closed
  doubles,       \* history: connections that were counted down twice
  raced          \* history: two threads have updated m_user_count at once

kernelVars == <<sock, armed, mark>>
batchVars  == <<ready, newconn, sigEv>>
signalVars == <<pipe, alarm, watch>>
mainVars   == <<timeout, mpc, due>>
timerVars  == <<timer, user_data, expire, orphans>>
countVars  == <<m_user_count, doubles, raced>>
connVars   == <<m_sockfd, pending, countVars>>
poolVars   == <<queue, wpc, wjob, wcount>>
vars == <<kernelVars, batchVars, signalVars, mainVars, timerVars, connVars, poolVars>>

Freed == -1

Sources == {"pipe", "listen"}
Reports == {"always", "once", "never"}

\* epoll_ctl refused the connection; a full queue has dropped its request; a
\* task or an event of an earlier connection was still about when it came.
Marks == {"refused", "dropped", "intruded"}

Tasks == [fd : Fds, id : Ids]
NoTask == [fd |-> None, id |-> None]

Working == {w \in Workers : wpc[w] # "idle"}

\* The tasks the workers have not finished with.
InFlight == Range(queue) \cup {wjob[w] : w \in Working}
InUse(fd) == \E task \in InFlight : task.fd = fd
Closing == {w \in Workers : wpc[w] = "close"}

Alive(t) == expire[t] # Freed
Open == {fd \in Fds : sock[fd] # None}

\* How far m_user_count is off.
Drift == Cardinality(Open) + Cardinality(Closing) - m_user_count
-----------------------------------------------------------------------------
\* addfd ors EPOLLIN into an uninitialised event mask, for pipefd[0] and
\* listenfd too. EPOLLONESHOT may be in it, and then they are reported once;
\* or never, if EPOLLEXCLUSIVE beside it makes epoll_ctl fail, or if EPOLLOUT
\* beside it has used up the one report of the pipe.
Init ==
  /\ watch \in [Sources -> Reports]
  /\ sock = [fd \in Fds |-> None]
  /\ armed = [fd \in Fds |-> {}]
  /\ ready = [fd \in Fds |-> "none"]
  /\ newconn = FALSE /\ sigEv = FALSE
  /\ pipe = FALSE /\ alarm = TRUE
  /\ timeout = FALSE /\ mpc = "wait" /\ due = {}
  /\ timer = [fd \in Fds |-> None]
  /\ user_data = [t \in Ids |-> None]
  /\ expire = [t \in Ids |-> Freed]
  /\ m_sockfd = [fd \in Fds |-> FALSE]
  /\ pending = [fd \in Fds |-> FALSE]
  /\ m_user_count = 0
  /\ queue = <<>>
  /\ wpc = [w \in Workers |-> "idle"]
  /\ wjob = [w \in Workers |-> NoTask]
  /\ wcount = [w \in Workers |-> 0]
  /\ mark = [fd \in Fds |-> {}] /\ orphans = {} /\ doubles = 0 /\ raced = FALSE
-----------------------------------------------------------------------------
(***************************************************************************)
(* Calls shared by several handlers, as the new value of what they change. *)
(***************************************************************************)

\* recv, writev and epoll_ctl reach a peer only through an open m_sockfd.
Connected(fd) == m_sockfd[fd] /\ sock[fd] # None

\* modfd through users[fd].m_sockfd: EPOLL_CTL_MOD fails on -1, on a closed
\* descriptor and on one that was never added, and otherwise re-arms one kind
\* of event, once.
Modfd_Never(fd, ev) == armed
Modfd(fd, ev) ==
  IF Connected(fd) /\ "refused" \notin mark[fd]
  THEN [armed EXCEPT ![fd] = {ev}] ELSE armed

\* close(fd): the kernel drops the descriptor from the epoll set with it.
\* (cb_func's own EPOLL_CTL_DEL names the global epollfd, never an epoll.)
Close(fd) ==
  /\ sock' = [sock EXCEPT ![fd] = None]
  /\ armed' = [armed EXCEPT ![fd] = {}]
  /\ mark' = [mark EXCEPT ![fd] = {}]

\* One more is counted down that is no connection any more.
CountTwice(fd) == doubles' = IF sock[fd] = None /\ ~raced THEN doubles + 1 ELSE doubles

\* cb_func closes the descriptor of the client data and counts one less,
\* whether or not the descriptor was still open.
CbFunc(fd) ==
  Close(fd) /\ CountTwice(fd) /\ m_user_count' = m_user_count - 1 /\ UNCHANGED raced

DelTimer_Never(t) == UNCHANGED <<user_data, expire>>
DelTimer(t) ==
  /\ expire' = [expire EXCEPT ![t] = Freed]
  /\ user_data' = [user_data EXCEPT ![t] = None]

\* timer->cb_func on a descriptor, then the end of that timer. Closed with the
\* wrong timer, a connection leaves its own behind.
Fire(t, fd) ==
  /\ CbFunc(fd) /\ DelTimer(t)
  /\ orphans' = (orphans \cup ({sock[fd]} \cap Ids)) \ {t}

\* The tail of EPOLLIN and EPOLLOUT: timer->expire = cur + 3 * TIMESLOT.
Refresh_Adds(fd) == expire' = [expire EXCEPT ![timer[fd]] = @ + Slots]
Refresh(fd) == expire' = [expire EXCEPT ![timer[fd]] = Slots]

\* The failure branch of every handler: timer->cb_func, then del_timer.
Drop(fd) == Fire(timer[fd], fd)

\* The answer of a tick to "which timers have expired".
Expired_Early == {t \in Ids : Alive(t) /\ expire[t] <= 1}
Expired == {t \in Ids : Alive(t) /\ expire[t] = 0}

\* The entry of events[] is consumed.
Handled(fd) == ready' = [ready EXCEPT ![fd] = "none"] /\ UNCHANGED <<newconn, sigEv>>
-----------------------------------------------------------------------------
(***************************************************************************)
(* Time, signals and the peers.                                            *)
(***************************************************************************)

Busy(t) == \E task \in InFlight : task.id = t

\* An identity nothing in the state mentions any more.
Fresh(id) == ~Alive(id) /\ id \notin {sock[fd] : fd \in Fds} /\ ~Busy(id)

\* One TIMESLOT goes by; a pending alarm sends its byte down the pipe.
TimePasses ==
  /\ mpc # "exit"
  /\ expire' = [t \in Ids |-> IF expire[t] > 0 THEN expire[t] - 1 ELSE expire[t]]
  /\ pipe' = (pipe \/ alarm)
  /\ alarm' = FALSE
  /\ UNCHANGED <<kernelVars, batchVars, watch, mainVars, timer, user_data, orphans,
                 connVars, poolVars>>

\* What epoll still reports of a connection after it has reported once: every
\* connection is registered with EPOLLONESHOT.
OneShot_Missing(events) == events
OneShot(events) == {}

Watched(source) == watch[source] # "never"
Report(source) == IF watch[source] = "once" THEN "never" ELSE watch[source]

\* epoll_wait returns a batch: the pipe if it holds bytes, perhaps the
\* listening socket, and any armed descriptors whose peer did something. A
\* SIGTERM byte may be in the pipe at any time; it is not a state of its own.
EpollWait ==
  /\ mpc = "wait"
  /\ \E batch \in [Fds -> {"none", "hup", "in", "out"}], conn \in BOOLEAN :
       /\ \A fd \in Fds :
            batch[fd] = "none" \/ (armed[fd] # {} /\ batch[fd] \in armed[fd] \cup {"hup"})
       /\ conn => Watched("listen")
       /\ conn => Open # Fds /\ \E id \in Ids : Fresh(id)   \* bound: room for it
       /\ sigEv' \in BOOLEAN
       /\ sigEv' => Watched("pipe")
       /\ pipe /\ Watched("pipe") => sigEv'
       /\ conn \/ sigEv' \/ \E fd \in Fds : batch[fd] # "none"
       /\ ready' = batch
       /\ newconn' = conn
       /\ armed' = [fd \in Fds |-> IF batch[fd] # "none" THEN OneShot(armed[fd]) ELSE armed[fd]]
       /\ watch' = [source \in Sources |->
                      IF (source = "pipe" /\ sigEv') \/ (source = "listen" /\ conn)
                      THEN Report(source) ELSE watch[source]]
  /\ mpc' = "handle"
  /\ UNCHANGED <<sock, mark, pipe, alarm, timeout, due, timerVars, connVars, poolVars>>
-----------------------------------------------------------------------------
(***************************************************************************)
(* The handlers of the main thread, in the order of its if-else chain.     *)
(***************************************************************************)

\* users_timer[connfd].timer = timer, the timer just allocated for it.
BindTimer_Omitted(fd, id) == UNCHANGED timer
BindTimer(fd, id) == timer' = [timer EXCEPT ![fd] = id]

\* accept, then init: in the uninitialised event mask of addfd EPOLLOUT may
\* happen to be set, or EPOLLEXCLUSIVE, with which EPOLLONESHOT is refused.
AcceptConn(fd, id) ==
  /\ sock' = [sock EXCEPT ![fd] = id]
  /\ \E events \in {{"in"}, {"in", "out"}, {}} :
       /\ armed' = [armed EXCEPT ![fd] = events]
       /\ mark' = [mark EXCEPT ![fd] = {m \in {"refused", "intruded"} :
                      IF m = "refused" THEN events = {} ELSE InUse(fd) \/ ready[fd] # "none"}]
  /\ m_sockfd' = [m_sockfd EXCEPT ![fd] = TRUE]
  /\ pending' = [pending EXCEPT ![fd] = FALSE]
  /\ m_user_count' = m_user_count + 1
  /\ BindTimer(fd, id)
  /\ user_data' = [user_data EXCEPT ![id] = fd]
  /\ expire' = [expire EXCEPT ![id] = Slots]
  /\ UNCHANGED <<orphans, doubles, raced>>

\* The two ends of the accept branch; a refused connection is closed at once.
Full_OffByOne == m_user_count > MaxUsers
Full == m_user_count >= MaxUsers

HandleAccept ==
  /\ mpc = "handle" /\ newconn
  /\ newconn' = FALSE
  /\ \/ Full /\ UNCHANGED <<kernelVars, timerVars, connVars>>
     \/ /\ ~Full
        /\ \E fd \in Fds \ Open, id \in Ids : Fresh(id) /\ AcceptConn(fd, id)
  /\ UNCHANGED <<ready, sigEv, signalVars, mainVars, poolVars>>

HandleHup(fd) ==
  /\ mpc = "handle" /\ ready[fd] = "hup"
  /\ Handled(fd) /\ Drop(fd)
  /\ UNCHANGED <<signalVars, mainVars, timer, m_sockfd, pending, poolVars>>

\* Any SIGTERM byte makes main return; the others only set the flag.
HandleSignal ==
  /\ mpc = "handle" /\ sigEv
  /\ sigEv' = FALSE
  /\ pipe' = FALSE
  /\ \/ mpc' = "exit" /\ UNCHANGED timeout
     \/ pipe /\ timeout' = TRUE /\ UNCHANGED mpc
  /\ UNCHANGED <<kernelVars, ready, newconn, alarm, watch, due, timerVars, connVars, poolVars>>

\* append drops the task when the queue is full, and main does not look.
AppendTask(fd) ==
  IF Len(queue) >= MaxRequest
  THEN UNCHANGED queue /\ mark' = [mark EXCEPT ![fd] = @ \cup {"dropped"}]
  ELSE queue' = Append(queue, [fd |-> fd, id |-> sock[fd]]) /\ UNCHANGED mark

HandleRead(fd) ==
  /\ mpc = "handle" /\ ready[fd] = "in"
  /\ Handled(fd)
  /\ \/ \* read() drained the socket
        /\ Connected(fd)
        /\ AppendTask(fd) /\ Refresh(fd)
        /\ UNCHANGED <<sock, armed, user_data, orphans, countVars>>
     \/ \* end of file, an error, or m_read_buf already full
        /\ Drop(fd)
        /\ UNCHANGED queue
  /\ UNCHANGED <<signalVars, mainVars, timer, m_sockfd, pending, wpc, wjob, wcount>>

\* write() with nothing to send: modfd(EPOLLIN) and init().
WriteNothing(fd) ==
  /\ ~pending[fd]
  /\ armed' = Modfd(fd, "in") /\ Refresh(fd)
  /\ UNCHANGED <<sock, mark, pending, user_data, orphans, countVars>>

\* writev took all of it, the connection is kept: modfd(EPOLLIN) and init().
WriteKeep(fd) ==
  /\ pending[fd] /\ Connected(fd)
  /\ armed' = Modfd(fd, "in") /\ Refresh(fd)
  /\ pending' = [pending EXCEPT ![fd] = FALSE]
  /\ UNCHANGED <<sock, mark, user_data, orphans, countVars>>

\* writev would block.
WriteBlocked(fd) ==
  /\ pending[fd] /\ Connected(fd)
  /\ armed' = Modfd(fd, "out") /\ Refresh(fd)
  /\ UNCHANGED <<sock, mark, pending, user_data, orphans, countVars>>

\* writev failed, or took all of it and the connection is not kept.
WriteDrop(fd) ==
  /\ pending[fd]
  /\ Drop(fd)
  /\ \E left \in BOOLEAN : pending' = [pending EXCEPT ![fd] = left]

HandleWrite(fd) ==
  /\ mpc = "handle" /\ ready[fd] = "out"
  /\ Handled(fd)
  /\ WriteNothing(fd) \/ WriteKeep(fd) \/ WriteBlocked(fd) \/ WriteDrop(fd)
  /\ UNCHANGED <<signalVars, mainVars, timer, m_sockfd, poolVars>>

\* A header cut twice leaves both pieces empty with bytes_to_send > 0: writev
\* returns 0, and the loop of write() has no way out,
WriteSpins(fd) ==
  /\ mpc = "handle" /\ ready[fd] = "out"
  /\ pending[fd] /\ Connected(fd)
  /\ ready' = [ready EXCEPT ![fd] = "spin"] /\ mpc' = "spin"
  /\ UNCHANGED <<kernelVars, newconn, sigEv, signalVars, timeout, due, timerVars, connVars,
                 poolVars>>

\* unless a worker closes the descriptor under it, and writev fails.
SpinEnds(fd) ==
  /\ mpc = "spin" /\ ready[fd] = "spin" /\ ~Connected(fd)
  /\ Handled(fd) /\ Drop(fd)
  /\ mpc' = "handle"
  /\ UNCHANGED <<signalVars, timeout, due, timer, m_sockfd, pending, poolVars>>

\* writev to a peer that has closed and then reset the connection: SIGPIPE,
\* which addsig leaves at its default, ends the whole process.
BrokenPipe(fd) ==
  /\ mpc = "handle" /\ ready[fd] = "out"
  /\ pending[fd] /\ Connected(fd)
  /\ mpc' = "exit"
  /\ UNCHANGED <<kernelVars, batchVars, signalVars, timeout, due, timerVars, connVars, poolVars>>

\* The batch is over: run timer_handler if a SIGALRM byte was among it.
EndBatch ==
  /\ mpc = "handle" /\ ~newconn /\ ~sigEv
  /\ \A fd \in Fds : ready[fd] = "none"
  /\ IF timeout THEN mpc' = "tick" /\ due' = Expired
                ELSE mpc' = "wait" /\ UNCHANGED due
  /\ UNCHANGED <<kernelVars, batchVars, signalVars, timeout, timerVars, connVars, poolVars>>

\* One timer of sort_timer_lst::tick: its callback, then its removal.
TickOne(t) ==
  /\ mpc = "tick" /\ t \in due
  /\ due' = due \ {t}
  /\ Fire(t, user_data[t])
  /\ UNCHANGED <<batchVars, signalVars, timeout, mpc, timer, m_sockfd, pending, poolVars>>

\* timer_handler sets the next alarm.
NextAlarm_Forgotten == UNCHANGED alarm
NextAlarm == alarm' = TRUE
TickEnd ==
  /\ mpc = "tick" /\ due = {}
  /\ NextAlarm
  /\ timeout' = FALSE
  /\ mpc' = "wait"
  /\ UNCHANGED <<kernelVars, batchVars, pipe, watch, due, timerVars, connVars, poolVars>>
-----------------------------------------------------------------------------
(***************************************************************************)
(* A worker: take a task, process it, re-arm the descriptor.               *)
(***************************************************************************)

Take(w) ==
  /\ mpc # "exit" /\ wpc[w] = "idle" /\ queue # <<>>
  /\ wjob' = [wjob EXCEPT ![w] = Head(queue)]
  /\ queue' = Tail(queue)
  /\ wpc' = [wpc EXCEPT ![w] = "run"]
  /\ UNCHANGED <<kernelVars, batchVars, signalVars, mainVars, timerVars, connVars, wcount>>

Done(w) ==
  /\ wpc' = [wpc EXCEPT ![w] = "idle"]
  /\ wjob' = [wjob EXCEPT ![w] = NoTask]
  /\ wcount' = [wcount EXCEPT ![w] = 0]

\* process_read came to NO_REQUEST: wait for the rest of the request.
Again(w) ==
  /\ mpc # "exit" /\ wpc[w] = "run"
  /\ armed' = Modfd(wjob[w].fd, "in")
  /\ Done(w)
  /\ UNCHANGED <<sock, mark, batchVars, signalVars, mainVars, timerVars, connVars, queue>>

\* process_write filled the response: bytes_to_send is not 0 any more.
Respond(w) ==
  /\ mpc # "exit" /\ wpc[w] = "run"
  /\ pending' = [pending EXCEPT ![wjob[w].fd] = TRUE]
  /\ wpc' = [wpc EXCEPT ![w] = "arm"]
  /\ UNCHANGED <<kernelVars, batchVars, signalVars, mainVars, timerVars,
                 m_sockfd, countVars, queue, wjob, wcount>>

\* process_write returned false: close_conn, up to the load of m_user_count.
\* The timer of the connection is not touched.
Fail(w) ==
  /\ mpc # "exit" /\ wpc[w] = "run"
  /\ Drift \in -MaxDrift..MaxDrift
  /\ LET fd == wjob[w].fd
     IN \/ /\ m_sockfd[fd]
           /\ Close(fd) /\ CountTwice(fd)
           /\ orphans' = orphans \cup ({sock[fd]} \cap Ids)
           /\ wcount' = [wcount EXCEPT ![w] = m_user_count]
           /\ wpc' = [wpc EXCEPT ![w] = "close"]
        \/ /\ ~m_sockfd[fd]
           /\ wpc' = [wpc EXCEPT ![w] = "arm"]
           /\ UNCHANGED <<kernelVars, doubles, orphans, wcount>>
  /\ UNCHANGED <<batchVars, signalVars, mainVars, timer, user_data, expire,
                 m_sockfd, pending, m_user_count, raced, queue, wjob>>

\* The rest of close_conn. The decrement is a plain load and store: what the
\* main thread counted in between is lost, and while the main thread is in a
\* handler its own store may bury this one.
CloseStore(w) ==
  /\ mpc # "exit" /\ wpc[w] = "close"
  /\ \/ m_user_count' = wcount[w] - 1
     \/ mpc \in {"handle", "tick"} /\ UNCHANGED m_user_count
  /\ raced' = (raced \/ m_user_count' # m_user_count - 1)
  /\ m_sockfd' = [m_sockfd EXCEPT ![wjob[w].fd] = FALSE]
  /\ wpc' = [wpc EXCEPT ![w] = "arm"]
  /\ UNCHANGED <<kernelVars, batchVars, signalVars, mainVars, timerVars, pending, doubles,
                 queue, wjob, wcount>>

\* The modfd(EPOLLOUT) that ends process(), after a failure too.
Rearm(w) ==
  /\ mpc # "exit" /\ wpc[w] = "arm"
  /\ armed' = Modfd(wjob[w].fd, "out")
  /\ Done(w)
  /\ UNCHANGED <<sock, mark, batchVars, signalVars, mainVars, timerVars, connVars, queue>>
-----------------------------------------------------------------------------
Handle(fd) ==
  \/ HandleHup(fd) \/ HandleRead(fd)
  \/ HandleWrite(fd) \/ WriteSpins(fd) \/ SpinEnds(fd) \/ BrokenPipe(fd)
Batch == HandleAccept \/ HandleSignal \/ \E fd \in Fds : Handle(fd)
Tick == TickEnd \/ \E t \in Ids : TickOne(t)
Worker(w) ==
  Take(w) \/ Again(w) \/ Respond(w) \/ Fail(w) \/ CloseStore(w) \/ Rearm(w)

Next ==
  \/ TimePasses
  \/ EpollWait \/ Batch \/ EndBatch \/ Tick
  \/ \E w \in Workers : Worker(w)

Spec == Init /\ [][Next]_vars

\* The scheduler runs every thread, time goes on, and epoll_wait returns when
\* the pipe holds a byte and is watched. Nothing is assumed of the peers.
Fairness ==
  /\ WF_vars(TimePasses)
  /\ WF_vars(pipe /\ Watched("pipe") /\ EpollWait)
  /\ WF_vars(Batch) /\ WF_vars(EndBatch) /\ WF_vars(Tick)
  /\ \A w \in Workers : WF_vars(Worker(w))

FairSpec == Spec /\ Fairness
-----------------------------------------------------------------------------
(***************************************************************************)
(* Properties.                                                             *)
(***************************************************************************)

KernelType ==
  /\ sock \in [Fds -> Ids \cup {None}] /\ armed \in [Fds -> SUBSET {"in", "out"}]
  /\ mark \in [Fds -> SUBSET Marks]
BatchType ==
  /\ ready \in [Fds -> {"none", "hup", "in", "out", "spin"}]
  /\ newconn \in BOOLEAN /\ sigEv \in BOOLEAN
SignalType ==
  /\ pipe \in BOOLEAN /\ alarm \in BOOLEAN
  /\ watch \in [Sources -> Reports]
MainType ==
  /\ timeout \in BOOLEAN /\ mpc \in {"wait", "handle", "spin", "tick", "exit"}
  /\ due \in SUBSET Ids
TimerType ==
  /\ timer \in [Fds -> Ids \cup {None}]
  /\ user_data \in [Ids -> Fds \cup {None}]
  /\ expire \in [Ids -> Freed..Slots]
  /\ orphans \in SUBSET Ids
ConnType ==
  /\ m_sockfd \in [Fds -> BOOLEAN] /\ pending \in [Fds -> BOOLEAN]
  /\ m_user_count \in Int /\ doubles \in Nat /\ raced \in BOOLEAN
PoolType ==
  /\ queue \in Seq(Tasks)
  /\ wpc \in [Workers -> {"idle", "run", "arm", "close"}]
  /\ wjob \in [Workers -> Tasks \cup {NoTask}]
  /\ wcount \in [Workers -> Int]

\* Every variable holds a value of its type.
TypeOK ==
  KernelType /\ BatchType /\ SignalType /\ MainType /\ TimerType /\ ConnType /\ PoolType

\* The handlers call users_timer[fd].timer->cb_func without checking it
\* (main.cpp 196-200, 239-258, 262-279): whenever a descriptor is open or its
\* event waits in the batch, that pointer is a timer that has not been deleted
\* and whose client_data is this descriptor's. Workers closing descriptors,
\* ticks and the reuse of descriptors all happen in between.
NoDanglingTimer ==
  \A fd \in Fds :
    sock[fd] # None \/ ready[fd] # "none" =>
      /\ timer[fd] # None
      /\ Alive(timer[fd]) /\ user_data[timer[fd]] = fd

\* Connections and timers pair off: every open connection is watched by its
\* own timer, whatever the workers, the ticks and the reuse of descriptors do;
\* and every timer in the list watches an open connection, or else it is one
\* that close_conn left behind, or that lost its connection to such a timer.
TimerPerConnection ==
  /\ \A fd \in Open :
       timer[fd] = sock[fd] /\ Alive(sock[fd]) /\ user_data[sock[fd]] = fd
  /\ \A t \in Ids :
       Alive(t) => user_data[t] \in Fds /\ (sock[user_data[t]] = t \/ t \in orphans)

\* m_user_count, which decides whether the server is full, counts the open
\* connections and those close_conn is about to count down, less the ones that
\* were counted down twice; no more than MAX_FD and those are ever open. It
\* takes an update that two threads make at once to break this.
CountMatchesOpen ==
  ~raced =>
    /\ m_user_count + doubles = Cardinality(Open) + Cardinality(Closing)
    /\ Cardinality(Open) <= MaxUsers + doubles

\* EPOLLONESHOT gives a connection to one thread at a time: while a task of it
\* is queued or processed it is still the connection that was read, epoll
\* cannot report it, no event of it is in the batch, and no other task has it.
\* Then neither read() nor write() nor another process() touches users[fd].
\* This fails only for a connection that came upon the task or the event of an
\* earlier one on its descriptor, closed while a worker was still at it.
ExclusiveConn ==
  \A fd \in Open :
    "intruded" \notin mark[fd] =>
      /\ \A task \in InFlight :
           task.fd = fd => task.id = sock[fd] /\ armed[fd] = {} /\ ready[fd] = "none"
      /\ Cardinality({i \in DOMAIN queue : queue[i].fd = fd})
           + Cardinality({w \in Working : wjob[w].fd = fd}) <= 1

\* No open connection is forgotten: epoll watches it, or its event is in the
\* batch, or a worker has or will have its request - or it is one of those that
\* epoll_ctl refused, append dropped or an earlier connection's task took from.
NoneStranded ==
  \A fd \in Open :
    armed[fd] # {} \/ ready[fd] # "none" \/ InUse(fd) \/ mark[fd] # {}

\* What tick closes is a connection whose own timer has run out: the callback
\* "removes inactive connections" (main.cpp 66).
TickClosesOnlyInactive ==
  [][\A fd \in Open :
       mpc = "tick" /\ due' # due /\ sock'[fd] = None => expire[sock[fd]] = 0]_vars

\* The same, with the one exception there is: a timer that has lost its own
\* connection to close_conn fires upon the next one on the descriptor.
TickSpares ==
  [][\A fd \in Open :
       mpc = "tick" /\ due' # due /\ sock'[fd] = None =>
         \/ expire[sock[fd]] = 0
         \/ \E t \in (due \ due') \cap orphans : user_data[t] = fd]_vars

\* Whatever becomes of its request - dropped by a full queue, answered too
\* late, never completed by the peer - no connection stays open for ever
\* without an event: the chain alarm, pipe, tick reaches it. Only a write() that
\* never returns, and an addfd that has lost the pipe, stop the ticks.
IdleReaped ==
  \A fd \in Fds :
    []<>(sock[fd] = None \/ ready[fd] # "none" \/ mpc \in {"spin", "exit"} \/ ~Watched("pipe"))
=============================================================================
