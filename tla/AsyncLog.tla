------------------------------ MODULE AsyncLog ------------------------------
(***************************************************************************)
(* Log: the threads of the server write lines with LOG_INFO and LOG_ERROR; *)
(* in asynchronous mode a log thread takes them from a block_queue and     *)
(* writes them to the current file. Files are changed by the writers, when *)
(* the day has changed and after every m_split_lines lines.                *)
(*                                                                         *)
(* m_mutex is taken and given up several times in one write_log; what it   *)
(* guards each time is one action. The text of a line is abstracted to its *)
(* number, its day and its writer.                                         *)
(***************************************************************************)
EXTENDS Integers, Sequences, FiniteSets, Functions

CONSTANTS
  Writers,        \* threads that log: main and the workers
  LogThread,      \* the thread of flush_log_thread
  NoLine,
  m_max_size,     \* the capacity of m_log_queue
  m_split_lines,
  MaxLines,       \* bound: lines written in a run
  MaxDay          \* bound: the last day of a run

ASSUME WritersAssumption == IsFiniteSet(Writers) /\ LogThread \notin Writers
ASSUME SplitAssumption == m_split_lines \in Nat \ {0}
ASSUME SizeAssumption == m_max_size \in Nat \ {0}
ASSUME BoundsAssumption == MaxLines \in Nat /\ MaxDay \in Nat \ {0}

VARIABLES
  m_is_async,        \* whether init was given a queue size; never changed
  today,             \* what localtime would say
  m_today, m_count,
  m_fp,              \* the open file: its day and the number it has as suffix
  lines,             \* history: the lines of all calls of write_log so far
  wpc, line,         \* where a writer is in write_log, and its line
  lpc,               \* where the log thread is: "pop", "write" or "exit"
  written,           \* history: every line in a file, the file, and who wrote it, in order
  raced,             \* history: two writers have been between full() and push
  m_array, m_size, m_front, m_back, cpc, value   \* m_log_queue

queueVars == <<m_array, m_size, m_front, m_back, cpc, value>>
fileVars == <<m_today, m_count, m_fp>>
writerVars == <<lines, wpc, line>>
vars == <<m_is_async, today, fileVars, writerVars, lpc, written, raced, queueVars>>

Days == 1..MaxDay
Lines == [n : 1..MaxLines, day : Days, by : Writers]
ASSUME LineAssumption == NoLine \notin Lines
Files == [day : Days, suffix : 0..(MaxLines \div m_split_lines)]
File(day, suffix) == [day |-> day, suffix |-> suffix]

LQ == INSTANCE BlockQueue WITH
        Items <- Lines, NoItem <- NoLine, Consumers <- {LogThread}

\* After Log::init, called by main before any other thread logs.
Init ==
  /\ m_is_async \in BOOLEAN
  /\ today = 1 /\ m_today = 1 /\ m_count = 0 /\ m_fp = File(1, 0)
  /\ lines = <<>>
  /\ wpc = [w \in Writers |-> "out"]
  /\ line = [w \in Writers |-> NoLine]
  /\ lpc = IF m_is_async THEN "pop" ELSE "exit"
  /\ written = <<>> /\ raced = FALSE
  /\ LQ!Init

Midnight ==
  /\ today < MaxDay /\ today' = today + 1
  /\ UNCHANGED <<m_is_async, fileVars, writerVars, lpc, written, raced, queueVars>>
-----------------------------------------------------------------------------
Goto(w, label) == wpc' = [wpc EXCEPT ![w] = label]

Put(l, thread) == written' = Append(written, [line |-> l, file |-> m_fp, thread |-> thread])

\* write_log takes the time before it takes m_mutex.
Stamp(w) ==
  /\ wpc[w] = "out" /\ Len(lines) < MaxLines
  /\ line' = [line EXCEPT ![w] = [n |-> Len(lines) + 1, day |-> today, by |-> w]]
  /\ lines' = Append(lines, line'[w])
  /\ Goto(w, "count")
  /\ UNCHANGED <<m_is_async, today, fileVars, lpc, written, raced, queueVars>>

\* The first locked part: m_count++, and the file changed if the line's day is
\* not m_today or the count has come to a multiple of m_split_lines.
DayChanged(day) == m_today # day
SplitDue_OneLate(count) == count % (m_split_lines + 1) = 0
SplitDue(count) == count % m_split_lines = 0
Suffix(count) == count \div m_split_lines

Rotate(day) ==
  \/ DayChanged(day) /\ m_fp' = File(day, 0) /\ m_today' = day /\ m_count' = 0
  \/ /\ ~DayChanged(day)
     /\ m_count' = m_count + 1
     /\ m_fp' = IF SplitDue(m_count') THEN File(day, Suffix(m_count')) ELSE m_fp
     /\ UNCHANGED m_today

CountLine(w) ==
  /\ wpc[w] = "count"
  /\ Rotate(line[w].day)
  /\ Goto(w, "choose")
  /\ UNCHANGED <<m_is_async, today, lines, line, lpc, written, raced, queueVars>>

Pushing(at) == \E v, w \in Writers : v # w /\ at[v] = "push" /\ at[w] = "push"

\* m_is_async && !m_log_queue->full(), of which push takes no notice later.
Choose(w) ==
  /\ wpc[w] = "choose"
  /\ Goto(w, IF m_is_async /\ ~LQ!full THEN "push" ELSE "direct")
  /\ raced' = (raced \/ Pushing(wpc'))
  /\ UNCHANGED <<m_is_async, today, fileVars, lines, line, lpc, written, queueVars>>

Return(w) == Goto(w, "out") /\ line' = [line EXCEPT ![w] = NoLine]

\* The result of push is ignored.
Push(w) ==
  /\ wpc[w] = "push"
  /\ LQ!push(line[w])
  /\ Return(w)
  /\ UNCHANGED <<m_is_async, today, fileVars, lines, lpc, written, raced>>

\* The synchronous mode, and the way round a full queue.
Direct(w) ==
  /\ wpc[w] = "direct"
  /\ Put(line[w], w)
  /\ Return(w)
  /\ UNCHANGED <<m_is_async, today, fileVars, lines, lpc, raced, queueVars>>
-----------------------------------------------------------------------------
\* while (m_log_queue->pop(single_log)): the thread ends when pop returns false.
LogPop ==
  /\ lpc = "pop"
  /\ LQ!pop(LogThread, "wait") \/ LQ!popWoken(LogThread)
  /\ lpc' = IF cpc'[LogThread] # "out" THEN "pop"
            ELSE IF value'[LogThread] # NoLine THEN "write" ELSE "exit"
  /\ UNCHANGED <<m_is_async, today, fileVars, writerVars, written, raced>>

LogSpurious ==
  /\ LQ!SpuriousWakeup(LogThread)
  /\ UNCHANGED <<m_is_async, today, fileVars, writerVars, lpc, written, raced>>

LogWrite_Skipped ==
  /\ lpc = "write"
  /\ lpc' = "pop"
  /\ UNCHANGED <<m_is_async, today, fileVars, writerVars, written, raced, queueVars>>
LogWrite ==
  /\ lpc = "write"
  /\ Put(value[LogThread], LogThread)
  /\ lpc' = "pop"
  /\ UNCHANGED <<m_is_async, today, fileVars, writerVars, raced, queueVars>>

Write(w) == Stamp(w) \/ CountLine(w) \/ Choose(w) \/ Push(w) \/ Direct(w)
LogLoop == LogPop \/ LogWrite

Next == Midnight \/ LogSpurious \/ LogLoop \/ \E w \in Writers : Write(w)

Spec == Init /\ [][Next]_vars

\* Threads that can run do run; nobody has to start a call of write_log.
Fairness ==
  WF_vars(LogLoop) /\ \A w \in Writers : WF_vars(wpc[w] # "out" /\ Write(w))
FairSpec == Spec /\ Fairness
-----------------------------------------------------------------------------
\* Every variable holds a value of its type.
TypeOK ==
  /\ today \in Days /\ m_today \in Days /\ m_count \in 0..MaxLines
  /\ m_fp \in Files
  /\ lines \in Seq(Lines) /\ Len(lines) <= MaxLines
  /\ wpc \in [Writers -> {"out", "count", "choose", "push", "direct"}]
  /\ line \in [Writers -> Lines \cup {NoLine}]
  /\ lpc \in {"pop", "write", "exit"}
  /\ written \in Seq([line : Lines, file : Files, thread : Writers \cup {LogThread}])
  /\ m_is_async \in BOOLEAN /\ raced \in BOOLEAN
  /\ LQ!TypeOK

\* How many times a line is still with its writer, in the queue, with the log
\* thread, and in a file.
Copies(l) ==
    Cardinality({w \in Writers : line[w] = l})
  + Cardinality({k \in 1..m_size : LQ!Queued[k] = l})
  + (IF lpc = "write" /\ value[LogThread] = l THEN 1 ELSE 0)
  + Cardinality({k \in DOMAIN written : written[k].line = l})

\* "If asynchronous, put the line into the queue; else write it to the file"
\* (log.cpp 156): a line is in one place, never in two, and it is not lost.
\* full() and push lock the queue each for itself, and this costs lines, but
\* only if two writers are between the two at the same time.
EveryLineOnce ==
  \A l \in Range(lines) : Copies(l) <= 1 /\ (raced \/ Copies(l) = 1)

\* The lines of one thread that go the same way, through the queue or past it,
\* are in the files in the order it wrote them. (A direct write does overtake
\* the lines in a full queue.)
WriterOrder ==
  \A i, j \in DOMAIN written :
    i < j /\ written[i].line.by = written[j].line.by
          /\ written[i].thread = written[j].thread
      => written[i].line.n < written[j].line.n

\* How many lines a file holds.
Held(f) == Cardinality({i \in DOMAIN written : written[i].file = f})

\* "The maximum number of lines of a log" (log.h 48) is what m_count is for,
\* but it counts calls, and a line goes to the file that is open when it gets
\* there: the one it was counted for, or a later one. So the first files have
\* no more lines than their turns, and a later one has, on top of m_split_lines,
\* the lines that were on their way when it was opened: with the other writers,
\* in the queue and with the log thread. (After the first midnight a line that
\* was stamped before it reopens the old file, and starts its count again.)
FileLimit ==
  today = 1 =>
    \A f \in {written[i].file : i \in DOMAIN written} :
      /\ Held(f) <= (f.suffix + 1) * m_split_lines - 1
      /\ Held(f) <= m_split_lines + m_max_size + Cardinality(Writers)

\* "Take a line from the queue and write it to the file" (log.h 34): the call
\* of write_log for a line returns, whatever has become of the log thread, as a
\* full queue diverts the writer and never blocks it; and the line comes into a
\* file, unless the log thread has ended, as it does when a wakeup finds the
\* queue empty, or push has dropped it after a race.
LinesArrive ==
  \A n \in 1..MaxLines :
    Len(lines) >= n ~>
      /\ \A w \in Writers : line[w] = NoLine \/ line[w].n # n
      /\ \/ \E k \in DOMAIN written : written[k].line.n = n
         \/ m_is_async /\ lpc = "exit"
         \/ /\ raced
            /\ ~\E k \in 1..m_size : LQ!Queued[k].n = n
            /\ ~(lpc = "write" /\ value[LogThread].n = n)
=============================================================================
