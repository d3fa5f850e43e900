# MyWebServer in TLA+

TLA+ models of the web server in `src/`, the TLC runs that check them, and
theorems about them with proofs checked by TLAPS. The server is one process: a
main thread with an `epoll` loop, eight detached worker threads, a log thread,
a MySQL connection pool and a list of timers that closes idle connections.

Sections: 1 inventory, 2 modules, 3 runs, 4 proofs, 5 where the code departs
from its comments, 6 what is left out, 7 plan, 8 how to run it.

## 1. Inventory

| component (source) | state | operations | used by |
|---|---|---|---|
| event loop (`main.cpp`) | `events[]`, `users[]`, `users_timer[]`, `timeout`, the signal pipe | one branch per kind of event, `timer_handler`, `cb_func`, `sig_handler` | the process itself |
| connection (`http_conn`) | `m_sockfd`, read and write buffers, parse state, iovecs, static `m_user_count`, `m_epollfd` | `init`, `read`, `write`, `process`, `close_conn` | main: `init`, `read`, `write`; workers: `process` |
| timer list (`lst_timer`) | doubly linked list, ascending in `expire` | `add_timer`, `adjust_timer`, `del_timer`, `tick` | main only |
| thread pool (`threadpool.h`) | `m_workqueue`, `m_queuesem`, `m_shotdown` | `append`, `work`, the destructor | main appends, workers take |
| connection pool (`sql_connection_pool`) | `connList`, `reserve`, counters | `getConnection`, `releaseConnection`, `destroyPool` | workers, through `connectionRAII` |
| users (`http_conn.cpp`: `users`, `m_lock`, `do_request`) | map of names to passwords; table `webdb` | register, log in, `initmysql_result` | workers |
| log (`log.cpp`, `log.h`) | `m_today`, `m_count`, `m_fp`, `m_log_queue` | `write_log`, `async_write_log` | every thread |
| blocking queue (`block_queue.h`) | ring, `m_size`, `m_front`, `m_back`, condition variable | `push`, two `pop`s, `clear`, `full`, ... | the log |
| lock wrappers (`locker.h`) | `sem`, `locker`, `cond` | `wait`, `post`, `lock`, `broadcast`, ... | all of the above |

How they meet:

* main and the workers share `users[fd]` and the epoll set. `EPOLLONESHOT` and
  `modfd` hand a connection back and forth; there is no lock on a connection.
* main gives a connection to the workers by `pool->append`, whose result it does
  not look at. A worker takes a database connection for each task.
* a connection can be closed by four parties: main after a failed read or write,
  main after a hang-up, a tick of the timer list, and a worker in `close_conn`.
  The first three go through `cb_func` and the timer; the last does not.
* signals reach the loop as bytes in a socket pair: SIGALRM makes the loop run
  `tick` after the batch and set the next alarm, SIGTERM makes `main` return. An
  `epoll_wait` that fails breaks out of the loop instead, and then `main` deletes
  `users`, `users_timer` and the thread pool; its workers are detached and go on.
* the log queue has many producers and one consumer, the log thread.

What is hard, and what makes each part correct:

| part | hard behaviour | what must hold |
|---|---|---|
| event loop and connections | descriptors are reused while events, tasks and timers still name them; workers close connections and leave their timers; answers come late; batches hold stale entries; the queue may be full; the limit `MAX_FD` | no handler follows a pointer to a deleted timer; timers and connections pair off, but for those `close_conn` leaves behind; `m_user_count` is off by no more than races and double counts make it; a tick closes idle connections only, and gets to each of them; one thread at a time has a connection; no connection is left without an event unnoticed |
| timer list | pointers at head, tail and middle; equal expiries; a tail that dangles after the last node is fired | the list is well linked and a tick fires exactly what is due |
| thread pool | queue and semaphore change in separate steps | a bounded first-in first-out queue; nobody wakes for nothing; accepted tasks are processed |
| connection pool | the size is read without the lock | `front()` always exists; a connection has one user; those who wait, wait for a holder; with enough connections nobody gets `NULL` |
| users | lookups outside `m_lock`, insert after a failed query, `users[name]` that inserts | a name is registered once; map and table agree, but for the names a failed query has spoiled |
| log | full and push are two critical sections; the file is chosen in a third; the log thread can end | each line once and in order; a file is not overfilled; a writer is never stuck, and its line gets into a file |
| blocking queue | wake-ups, wrap-around, `clear` | first-in first-out; no lost wake-up |
| one connection, parser | requests follow one another on a kept connection, each cut anywhere | what is answered is what was asked, whatever was asked before; every request is answered, in order, at most once |
| one connection, response writer | `writev` takes any part of two pieces; the main thread loops until it is done | the peer gets the response and nothing else; the loop ends |

`PROJECT.json` lists the hazards at their lines, each with the properties that
would catch it.

## 2. Modules

Each module translates its source: an action is one critical section, one
handler or one stretch of code that no other thread can see half-way. The name
of an action is the name of the function, or says which part of it it is.

**Server** (`main.cpp`, `http_conn::init/read/write/process/close_conn`).
A connection is an identity from `Ids`; `sock[fd]` says which one is open on a
descriptor, so a reused descriptor is visible as such. `EpollWait` chooses a
batch; `HandleAccept`, `HandleHup`, `HandleSignal`, `HandleRead` and
`HandleWrite` are the branches of the loop, in any order, since the order of
`events[]` is the kernel's; `EndBatch`, `TickOne`, `TickEnd` are what follows a
batch. A worker's `process` is `Take`, then `Again` (NO_REQUEST), or `Respond`
and `Rearm`, or `Fail`, `CloseStore` and `Rearm`: `Fail` closes the descriptor
and loads `m_user_count`, `CloseStore` stores it and sets `m_sockfd` to -1, so
lost updates and the reuse of the descriptor in between are in the model.
`expire` counts slots of `TIMESLOT`; `TimePasses` takes one from every timer and
delivers a pending alarm. Nothing bounds the time a worker takes, so a tick may
close a connection under its task. `append` drops the task when the queue is full.

`WriteSpins` is a `write()` whose loop has nothing to offer to `writev` and
`bytes_to_send > 0`: the main thread stays in it until a worker closes that
descriptor (`SpinEnds`). When a response gets there is in HttpWrite; here any may.
`BrokenPipe` is a `writev` to a peer that has gone: SIGPIPE keeps its default
action and ends the process. `HandleSignal` ends the loop on a SIGTERM byte, which
any event of the pipe may hold.

`addfd` ors into an uninitialised `event.events`. For the pipe and the listening
socket `watch` says what came of it: reported always, once, or never. For a
connection `armed` may contain EPOLLOUT at the start, or nothing, when `epoll_ctl`
has refused the mask.

Four variables are history, or nearly so. `mark[fd]` says what has befallen the connection open on
a descriptor: `epoll_ctl` refused it, `append` dropped its request, or it came while
a task or an event of its predecessor on the descriptor was still about
(`intruded`). `orphans` are the timers whose connection another's `close` closed,
`doubles` counts the connections counted down twice, `raced` says that two threads
have updated `m_user_count` at the same time. Of these only "refused" has an effect
(`Modfd` fails on it, as the kernel's `EPOLL_CTL_MOD` does); the properties except by
them what does not hold of the code, and nothing else.

**TaskQueue**, **ThreadPool** (`threadpool.h`). TaskQueue is what Server assumes
of the pool: accept if there is room, start the oldest, finish. ThreadPool has
the code: the push under the mutex and the post after it, the wait and the pop, and
the end. `Leave` is `main` breaking out of its loop and deleting `users`,
`Destructor` sets `m_shotdown`, `DestroyMembers` takes queue, semaphore and mutex. A
worker that touches what is gone is `Undefined`: the program may do anything, so
the model says nothing of that worker any more. It contains ConnPool
(`INSTANCE ConnPool WITH Threads <- Workers`): a worker goes through `getConnection` before and `releaseConnection`
after `process`. `ImplementsTaskQueue` is the refinement.

**ConnPool** (`sql_connection_pool.cpp`). `Check` is the unlocked test of the
size, `Wait` the semaphore, `Take` the locked part; `Release` and `Post` give
back. `Destroy` is the `destroyPool` of the static destructor that runs when `main`
returns, `DestroyMembers` the end of list, lock and semaphore, `Undefined` a thread
that touches them afterwards.

**TimerSet**, **TimerList** (`lst_timer.cpp`). TimerSet is a set of deadlines of
which a tick fires those that are due, earliest first. TimerList has the
pointers `head`, `tail`, `prev`, `next`, with the case distinctions of the code;
its methods are called by main only, so each is an action. The module assumes
that an adjusted timer is not moved back, as in `main.cpp`.

**Fifo**, **BlockQueue** (`block_queue.h`). Fifo is a bounded queue; BlockQueue
the ring with its indices. A `pop` that finds nothing sleeps and is woken by a
broadcast or for no reason; a woken `pop` returns false, because
`cond::wait` returns true for success and `pop` takes non-zero for a failure. A
timed `pop` whose time is up (`TimeOut`) is out of the wait before it has the mutex
again, and may find an item pushed in between (`popTimedOut`).
`ImplementsFifo` is the refinement.

**AsyncLog** (`log.cpp`, `log.h`) with the queue as `INSTANCE BlockQueue`. The
parts of `write_log` between its locks are the actions `Stamp`, `CountLine`,
`Choose`, `Push` or `Direct`; `LogPop` and `LogWrite` are the log thread. The
variable `m_is_async` is chosen at the start; a line is a number, a day and a
writer. `raced` and `written` are history.

**HttpParse** (`read`, `init`, `process_read`, `parse_*`). What the peer sends on
the connection is a sequence of requests, `requests`; `base` counts what `init`
has forgotten of it. The buffer holds one symbol for the text of a line, and CR,
LF and the bytes of the body one by one. `Receive` lets any further part of the
stream arrive, over the end of a request too, perhaps with the end of the peer's
side, and until the buffer is full, which `read` takes for the end of the
connection. No body spells a request line (section 4). `ParseLine`, `ParseContent` and `EndParse` are the turns of the loop
of `process_read`. `cut` is history.

**HttpWrite** (the file part of `do_request`, `process_write`, `write`, `unmap`).
A byte is its place in the header or in the file. `do_request` maps the file or
fails, `process_write` lays out a response or refuses; `WriteMore(n)`,
`WriteLast(n)` and `WriteKept(n)` are a `writev` that takes n bytes, with the
arithmetic that follows and what the loop does next. `response`, `delivered` and
`headCuts` are history.

**HttpConn** puts the two together: one connection from accept to close. The
shared `pc` is where the connection is; since its event is one-shot, main and the
worker never have it at the same time (that is `ExclusiveConn` of Server). Each
action is one of HttpParse or of `W == INSTANCE HttpWrite` and says what the
other side keeps; `WriteKept` includes `init` of both.

**Exchange** is the connection as peer and event loop see it: reading, working,
sending, closed; requests begun, arrived and answered. It has the outcomes Server
gives `process` (go on reading, respond, fail), and it says what becomes of a
request that came together with the one before. `ImplementsExchange` is the
refinement.

**UserTable** (`do_request`, `initmysql_result`). The worker's steps around
`m_lock`: `LookUp`, `Lock`, `Query`, `Insert`. A login is two lookups without the
lock, `Find` and `Compare`. The database is external: an INSERT of a name the table
has fails (no schema is in the repository; that names are unique is an assumption
about it), and any INSERT may fail for a reason of its own. A lookup while another
thread changes the map may miss a name (`MayMiss`); when it is that of
`users[name]`, it adds the name with an empty password (`Plant`). `spoiled` is
history: the names whose map entry such an INSERT or such a lookup has made.

`MCServer`, `MCConnPool`, `MCTimerList`, `MCBlockQueue`, `MCHttpConn` and
`MCUserTable` define symmetry sets and the requests TLC sends; the other runs
use the module itself. Symmetry is used in runs without liveness properties
only. `MCServer` also has a constraint, `UpToARace` (section 3). A definition with a suffix (`Refresh_Adds`, `Full_OffByOne`) is the
definition without the suffix with a plausible bug in it; `PROJECT.json`
("mutants") says which property notices it.

## 3. Runs

| run | bounds | what it shows |
|---|---|---|
| `server` | 2 descriptors, 2 identities, 1 worker, `MAX_FD` 1, queue of 1, a timer lasts one slot; every outcome of `process` and `write`, answers at any time; up to a race | `TimerPerConnection`, `CountMatchesOpen`, `TickSpares`, `ExclusiveConn`, `NoneStranded` |
| `server_live` | 1 descriptor, 2 identities, 1 worker, queue of 1, every outcome, answers at any time; fairness | `NoDanglingTimer`, `IdleReaped` |
| `server_orphan` | as `server_live`, no fairness | **violated**: `TickClosesOnlyInactive` (section 5) |
| `connpool` | 5 threads, 3 connections, destroyed at any time | `FrontExists`, `Exclusive`, `WaitsForAHolder` |
| `threadpool` | 2 workers, 2 connections, queue of 2, 4 tasks, destroyed at any time; fairness | `NeverEmptyHanded`, `ConnectionForEach`, `ImplementsTaskQueue`, `AcceptedIsProcessed` |
| `timerlist` | 5 timers, times 0 to 3 | `WellLinked`, `ImplementsTimerSet` |
| `blockqueue` | 3 items, 2 consumers, ring of 3 | `NoLostWakeup`, `ImplementsFifo` |
| `log` | 2 writers, 3 lines, queue of 2, files of 1 line, 2 days, both modes; fairness | `EveryLineOnce`, `WriterOrder`, `FileLimit`, `LinesArrive` |
| `http_conn` | one request: 3 request lines, up to 2 headers, 4 bodies, both line ends; two or three requests: GET and POST, kept or not, or a malformed one; a cut body that the next request completes; every way to cut them; buffer of 12 symbols; headers of 1 and 3 bytes, files of 0 and 2; fairness | `OutcomeRight`, `StallsOnCutBodyOnly`, `SentIsResponse`, `IsAnswered`, `WriteEnds`, `ImplementsExchange` |
| `http_split` | one request with proper line ends | **violated**: `NoRequestMeansIncomplete` (section 5) |
| `http_unmap` | as `http_conn`, no fairness | **violated**: `NothingMapped` (section 5) |
| `users` | 2 names, 3 passwords, one of them empty, 3 workers, every initial table, any INSERT may fail | `MapMatchesTable`, `RegisteredCanLogin`, `NameRegisteredOnce`, `LoginChecksTable` |

Every module's `TypeOK` is checked in the run of its name.

Why the bounds are enough. In `server` a limit of one with two descriptors makes
the server full and refuses a connection, while an orphaned timer or a stale task of
one descriptor is still about when the other is in use; with two identities a
descriptor passes from a connection to its successor while the worker still has a
task of the first. A queue of one is full as soon as one task waits, so requests are
dropped. A state after two updates of `m_user_count` have met is checked and not
continued (`UpToARace`): the count drifts from there on, and the state space with
it. `server_live`, with one descriptor, does continue, and the theorems of
section 4 hold without any of these bounds. One descriptor is the worst case for reuse: every new
connection meets what the one before left behind. `MaxDrift` bounds how far
double counts drive `m_user_count`: beyond it no worker fails.

Five threads with three connections make two of them get NULL or wait, three take
what the others give back. Two
workers with two connections and four tasks make every connection come back and
be taken again, and fill the task queue. Five timers put one at the
head, one at the tail, and adjust a middle one past another middle one. A ring of
three wraps in either direction with two items in it. The log's queue of two and
three lines are the least with which two writers race for the last slot and a direct
write overtakes the queue; files of one line change with every count, so that a
line finds another file than it was counted for. With three lines the first bound
of `FileLimit` is reached exactly and the second is not: that one rests on the
theorem. A header
of three bytes can be cut twice, a file of two once more; an empty file has a case
of its own in the code. A buffer of 12 symbols holds every request but the
longest, which fills it exactly, and two of the shorter ones at once; with three
requests a connection is kept after one that was itself the second. Two workers suffice for the race of find and insert;
the third looks up meanwhile; the empty password tells what `users[name]` adds from
what a registration does. `MaxTasks`, `MaxLines`, `MaxDay`, `MaxTime`
bound what would grow for ever. `EpollWait` reports a new
connection only if a descriptor and an identity are free for it.

Deadlock is checked for the connection pool, the timer list, the queue and the
users. It is not for `server*` (the process exits), `threadpool` (all tasks done,
or shut down), `log` (all lines written), `http_*` (the connection is closed).

Fairness. The kernel schedules every thread that can run, so weak fairness of
each worker, of the log thread and of a writer inside `write_log` is justified;
a thread that waits for a semaphore or sleeps in a condition variable is not
enabled. In Server time goes on (`TimePasses`) and `epoll_wait` returns when the
pipe holds a byte and is watched (`pipe /\ Watched("pipe") /\ EpollWait`); nothing is
assumed of the peers, nor that a worker closes the descriptor `write()` spins on. The handlers of a batch are
one thread, so fairness is on their disjunction. In HttpConn the peer sends its
requests to their end (`Arrival`) and goes on reading (`Write`), and nothing makes
it go away: `IsAnswered` and `WriteEnds` say what happens then. No run assumes strong fairness.

Conditions inside properties are mostly history, so the case they exclude occurs in
the same run: `mark`, `orphans`, `doubles`, `raced` and the place "spin" (Server),
`raced` and the end of the log thread (AsyncLog), `spoiled` and `MayMiss`
(UserTable), `cut` (a body in two parts), `headCuts < 2`, `Overread` (more has come
than the request to be answered), the pool that exists no more (ConnPool,
ThreadPool). `FileLimit` is about the first day: a line stamped before
midnight and counted after another of the new day reopens the old file and starts its
count again. Each condition is there because the property without it does not hold of
the code (section 5).

## 4. Proofs

TLAPS proves, for every value of the constants that satisfies the `ASSUME`s:

* **ServerProofs.** No theorem has a hypothesis beyond the `ASSUME`s: every outcome
  of `process` and `write`, late answers, full queues and refused descriptors are
  in the specification they are about.
  - `TypeCorrect` (`TypeInv`: a worker that is not idle has a task).
  - `TimersNeverDangle`: no handler follows a dangling timer pointer, whatever the
    workers close. `WatchInv` is `NoDanglingTimer` with two facts that make it
    inductive: epoll watches open descriptors only (`ArmedOpen`), so an event
    that arrives belongs to an open one; and a tick runs with an empty batch
    (`TickQuiet`), so the timers it deletes are not wanted by an event of the batch.
  - `TimersPairOff` and `TickSparesActive` from `PairInv`, which adds that the
    timers a tick has yet to fire have run out. Fired, a timer closes whatever is on
    its descriptor: its own connection, or, if it is an orphan, that of another,
    whose timer becomes an orphan in turn.
  - `UsersCounted`: `m_user_count + doubles` is the number of open connections and
    of workers inside `close_conn`, until two updates meet; one case for each way
    to close (open, already closed, by main, by a worker).
  - `OneThreadAtATime` from `OwnInv`: a connection that is not intruded upon belongs to
    its task from `append` to the worker's `modfd`, and to epoll and main the rest
    of the time (`Own`). A tick or a worker may take the connection away
    from under a task; who comes next on the descriptor is intruded, and nothing is
    claimed of it.
  - `NoConnectionStranded` from `KeepInv`, which joins `WatchInv` and `OwnInv`: the
    worker of a connection nothing has befallen can always re-arm it, since
    `m_sockfd` is its descriptor and epoll has it.
* **ConnPoolProofs.** `SemaphoreConserved`: the length of the list is the
  semaphore's value plus the threads between the two. It is inductive with the
  type invariant and the count of connections in use; `FrontAlwaysExists` follows,
  and, for a pool with at least as many connections as threads (`Ample`, as in
  `main`: 10 and 8), `AlwaysAConnection` and `NeverWaits`. `WaitingEnds`: with any
  connection at all, who waits in vain waits for one that has a connection; for if
  nobody had, the list would hold them all and the semaphore would not be zero. Lemma `Moves` counts
  the threads at a label when one of them moves. `NeverSharedNorLost`: a
  connection is in the list once, or with one thread. All are about the time before
  the pool is destroyed.
* **ThreadPoolProofs** uses these through `INSTANCE ConnPoolProofs WITH Threads <-
  Workers`. `WokenForATask`: the tasks in the queue are the posts not yet taken,
  the workers on their way to the pop and the one task main has pushed and not
  posted. `PoolIsTaskQueue` is the step simulation of TaskQueue;
  `EveryRequestConnected` assumes no more workers than connections.
* **BlockQueueProofs.** `TypeCorrect`; `NoWakeupLost`, which is inductive
  with the type invariant; `RingIsFifo`: the items between `m_front` and `m_back`
  are the abstract queue, `m_size` its length, and a push or pop at the wrap-around
  is an `Append` or a `Tail` of it.
* **AsyncLogProofs** uses BlockQueueProofs for the queue between the writers and
  the log thread. `LogTypes` needs that `m_count` and the writers about to count
  are at most the lines, which bounds the suffixes of the files. `LinesInOrder`
  follows the way of a line: what a writer has in hand is its newest line, the
  line the log thread has popped comes before those in the queue (`Trail`), and
  what is written comes before both. `LinesOnce`: from that order no line is in
  two places; it is in one because `push` finds room, unless two writers have
  raced for it. `FilesBounded`: on the first day the current file is the
  one of the quotient of `m_count`. Lines counted and not yet in a file are with a
  writer, in the queue or with the log thread (`Underway`), of which there is
  room for so many (`Spare`). What is in files and under way together is at most
  `m_count`; what is in the current file and under way at most the remainder of
  `m_count` and `Spare`; files yet to be opened are empty (`FirstDay`).
* **TimerListProofs.** `Links_WellLinked` and `Refinement` follow a list of any
  length. The invariant (`ListInv`) does not walk: there is a sequence of
  timers, without repetition and ascending in `expire`, of which `head` and `tail`
  are the ends and `next` and `prev` the neighbours; one case for each branch of
  `add_timer`, `adjust_timer`, `del_timer` and `tick` says what becomes of the
  sequence. That the walk of `WellLinked` yields just this sequence is proved by
  taking the least place where it would not (`Least`), since the prover cannot
  instantiate an induction principle.
* **HttpConnProofs.** First what `FlattenSeq` makes of a sequence of requests and
  of their lines, by the same argument from a least counterexample; hence which
  symbol is at which place of `m_read_buf` (`BufferLaidOut`, `TornBuffer`). The
  invariant of the parser is `ParserInv`: between two turns of `process_read`
  it stands at the start of line l of the request that the buffer begins with
  (`AtLine`) or at its body (`AtBody`), and its fields are what the lines before
  say; in a buffer that begins inside a request, nothing has been understood.
  `OutcomeRight` and `StallsOnCutBodyOnly` are parts of it, not consequences: an
  outcome is right because the fields were right when the empty line, or the whole
  body, was found. `Outcome` and `Stalls` are these two as theorems.
  `ResponseIsSent`: as long as the header has been cut at most
  once, the iovecs hold exactly what is left of the response (`IovecsLeft`), with
  `bytes_have_send + bytes_to_send` its length; the second assignment of the code
  to `iov_len` keeps that once and not twice. It holds over kept connections, since
  a new response starts with `init`. After a second cut the places are wrong, but
  the iovecs never offer more than is to be sent (`WriterInv`), so that no count
  falls below zero: `TypeCorrect`. `Refinement` is the step simulation of Exchange.
  The requests that end by a place of the stream, and those that begin before it,
  are each the first so many (`CountUpTo`, `CountBefore`), and at most one is under way
  (`OneUnderWay`); with `ParserInv` this gives which request a page or an error
  answers, and which one comes next when `init` forgets the buffer.
* **UserTableProofs.** `TypeCorrect`, `MapAndTableAgree`, `RegistrationsLast`,
  `NamesRegisteredOnce` and `LoginsFollowTable`, with INSERTs that may always fail. The invariant: the holder of `m_lock` is between
  query and insert; map and table differ at most in the spoiled names and the name
  that worker is about to insert; the outcome of its query is still true, and a name
  it has inserted was never confirmed to anybody before.

Every invariant, action property and refinement of a passing run is stated by one of
these theorems. Two need a condition on the constants that `main` and the run satisfy, named
above and in the theorem: as many connections as workers (`EveryRequestConnected`), and
at least one connection (`WaitingEnds`). Only model-checked are the five liveness properties `IdleReaped`,
`AcceptedIsProcessed`, `LinesArrive`, `IsAnswered` and `WriteEnds`:
the prover has no reasoning about fairness and ENABLED. The three runs that end
in a violation show what cannot be proved.

The assumptions on constants. TimerList: finitely many timers, and `NULL` is neither a
timer nor a time. HttpParse: conversations are sequences of requests whose body is
announced by `Content-Length` if there is one, and consists of CR, LF and other
symbols. A body that spells a request line is left out: what `init` leaves of a
request whose beginning it has forgotten would be answered like one, and
`OutcomeRight` and the refinement would have to count it among the requests.
HttpWrite: headers are not empty; files may be. The other modules assume positive
sizes, finite sets of descriptors, threads and connections, and that the values which
stand for nothing (`None`, `Null`, `NoItem`, `Absent`) are not among those that
stand for something.

## 5. Where the code departs from its comments

Three disagreements are runs of their own and listed as findings:

* `server_orphan`: when `process_write` fails, `process` calls `close_conn`,
  which closes the descriptor and leaves `users_timer[fd].timer` in the list.
  After `accept` has returned the same descriptor the old timer fires and closes
  the new, active connection.
* `http_split`: after an incomplete body `process_read` calls `parse_line`, which
  moves `m_check_index` over what has arrived. A body in two parts is complete
  and still NO_REQUEST.
* `http_unmap`: `unmap` calls `munmap` when `m_file_address` is 0
  (`http_conn.cpp:692`), that is never when there is a mapping. Each file served
  leaves one behind.

The others shaped the models and the conditions of the properties:

* main ignores the result of `append` (`main.cpp:242`): a dropped request leaves its
  connection with no event armed until its timer closes it (`NoneStranded` excepts
  it, `IdleReaped` says that it is closed).
* a connection that is closed under its task leaves the worker with `users[fd]`,
  which is the next connection's when the descriptor is reused (`main.cpp:288`,
  `http_conn.cpp:215`): what `mark` calls intruded.
* `m_user_count` is decremented by main and workers without a lock
  (`http_conn.cpp:112`), and a closed connection may be counted down twice.
* `addfd` ors into an uninitialised mask (`http_conn.cpp:37-44`). With EPOLLONESHOT
  in it the signal pipe is reported once and the ticks end.
* `getConnection` returns `NULL` rather than wait when the list is empty
  (`sql_connection_pool.cpp:44`); `destroyPool` leaves closed connections in it, and
  the static destructor then destroys list, lock and semaphore while detached
  workers run (`sql_connection_pool.cpp:92`).
* `~threadpool` wakes no worker and destroys the queue, the semaphore and the mutex they
  use (`threadpool.h:50-54`); before it main has deleted `users`.
  `AcceptedIsProcessed` stops where main leaves its loop.
* `pop` returns false after every wake-up (`block_queue.h:115`), so the log
  thread ends with its first one (`log.h:35`), and what is in the queue then is
  never written: `LinesArrive` excepts it.
  `front()` reads the slot before the first item (`block_queue.h:62`).
* two writers race for the last slot and one line is lost (`log.cpp:157-159`).
  In the asynchronous mode that `main.cpp:87` sets up, lines written around midnight
  can be in the file of another day, and files get more than `m_split_lines` lines
  (`log.cpp:80-107`): "日志的最大行数" (`log.h:48`) and "按天分类" (`log.h:54`) hold
  only for one thread without a queue. `FileLimit` bounds by how much the first is
  missed.
* a header sent in three parts is continued at the wrong place, and then
  `bytes_to_send` can be positive with nothing left in the iovecs: `writev`
  returns 0 and the loop of `write`, in the main thread, does not end
  (`http_conn.cpp:154-181`). No event is handled and no tick runs any more:
  `WriteSpins` of Server, and the exception in `IdleReaped`.
* what has been received of a further request when the one before is answered is
  forgotten by `init` (`http_conn.cpp:190`), and the rest of it is parsed as a
  request of its own.
* a request that arrives together with the end of the peer's side is dropped: `read`
  returns false for the 0 after it (`http_conn.cpp:134`).
* an empty file and a missing one are refused, not answered
  (`http_conn.cpp:338-350`).
* `users.insert` runs after a failed query too (`http_conn.cpp:549`): a login then
  succeeds with a name the table does not have. `users[name]` (`http_conn.cpp:564`)
  adds a name if its lookup misses it. These are the names called spoiled.

## 6. Not modelled

* the choice of a page from the URL, the spelling of lines and headers, the text
  of responses and log lines: data no property depends on. Two cases depend on
  such data and are hazards without a property: a POST to a CGI page without a
  body (`m_string` is null in `do_request`), and a file that shrinks while it is mapped;
* a failing `accept` (its -1 is an index into `users`: what follows is undefined
  behaviour), `malloc` or pool initialisation, and in Server a failing `epoll_wait`
  (ThreadPool has what follows it);
* the other bits of `addfd`'s uninitialised mask: EPOLLET and EPOLLRDHUP add no
  event that the model has not, and an EPOLLOUT report of the pipe runs `write()` of
  an entry of `users` that no connection has, with nothing to send;
* what happens after undefined behaviour: a worker that touches a destroyed pool or
  deleted `users` takes no further step;
* a clock that is set back: it makes an adjusted timer expire earlier, which
  `adjust_timer` does not provide for;
* the 1024 bytes of the header buffer, which no response of the code comes near;
* the crash a data race on `std::map` may cause, and the buffer `localtime`
  shares between threads;
* stdio buffering of the log files;
* `webbench` in `test_presure` (vendored), the pages in `root`, the build files.

## 7. Plan

Done first, because the rest depends on it: Server with its proofs, then the
pools and the timer list behind it with the abstract specifications Server
relies on (TaskQueue, TimerSet), then queue and log, then what a request does
(HttpParse, HttpWrite, UserTable). Then the composition of parser and writer
over one connection (HttpConn, Exchange) with pipelined and kept requests, SIGPIPE
in Server, and the proofs of ownership, thread pool, ring, log and response. Last
the proofs about lists and streams of any length: TimerList and its refinement,
the parser, and the refinement of Exchange.

Open:

1. The failing `accept` in Server, a clock that may be set back in TimerList.
2. A composition of Server with HttpConn, one per descriptor, in place of the
   choice between `Again`, `Respond` and `Fail` and among the ends of `write`.
3. Theorems beyond the checked properties: what a response that is cut in the
   header a second time still keeps, a bound on `doubles` in terms of the orphaned
   timers, what files hold on later days.

## 8. Running it

    tlc -workers 2 -config server.cfg MCServer
    tlc -workers 2 -config log.cfg AsyncLog
    tlapm ServerProofs.tla

`PROJECT.json` names the module and the cfg of every run. Each run ends within
about two minutes.
