--------------------------- MODULE AsyncLogProofs ---------------------------
(***************************************************************************)
(* Theorems about AsyncLog, for every number of writers, queue length,     *)
(* file size and number of lines: the types, the way of a line from        *)
(* write_log to a file, and how much a file holds. What the queue does on  *)
(* a push or a pop is taken from BlockQueueProofs.                         *)
(***************************************************************************)
EXTENDS AsyncLog, FiniteSetTheorems, SequenceTheorems, TLAPS

BP == INSTANCE BlockQueueProofs WITH
        Items <- Lines, NoItem <- NoLine, Consumers <- {LogThread}

-----------------------------------------------------------------------------
(***************************************************************************)
(* The queue inside the log.                                               *)
(***************************************************************************)

LEMMA SameQueue ==
  /\ LQ!Init => BP!Init
  /\ LQ!full <=> BP!full
  /\ LQ!Queued = BP!Queued
  /\ \A l : LQ!push(l) => BP!push(l)
  /\ \A c, sleep : LQ!pop(c, sleep) => BP!pop(c, sleep)
  /\ \A c : LQ!popWoken(c) => BP!popWoken(c)
  /\ \A c : LQ!SpuriousWakeup(c) => BP!SpuriousWakeup(c)
<1>1. LQ!Init => BP!Init
  BY DEF LQ!Init, BP!Init
<1>2. LQ!full <=> BP!full
  BY DEF LQ!full, BP!full
<1>3. LQ!Queued = BP!Queued
  BY DEF LQ!Queued, BP!Queued
<1>4. \A l : LQ!push(l) => BP!push(l)
  BY <1>2 DEF LQ!push, BP!push, LQ!ring, BP!ring, LQ!After, BP!After, LQ!Broadcast, BP!Broadcast,
     LQ!Wake, BP!Wake
<1>5. \A c, sleep : LQ!pop(c, sleep) => BP!pop(c, sleep)
  BY DEF LQ!pop, BP!pop, LQ!TakeFront, BP!TakeFront, LQ!ring, BP!ring, LQ!After, BP!After
<1>6. \A c : LQ!popWoken(c) => BP!popWoken(c)
  BY DEF LQ!popWoken, BP!popWoken, LQ!ReturnFalse, BP!ReturnFalse, LQ!ring, BP!ring
<1>7. \A c : LQ!SpuriousWakeup(c) => BP!SpuriousWakeup(c)
  BY DEF LQ!SpuriousWakeup, BP!SpuriousWakeup, LQ!Sleepers, BP!Sleepers, LQ!Asleep, BP!Asleep,
     LQ!Wake, BP!Wake, LQ!ring, BP!ring
<1> QED
  BY <1>1, <1>2, <1>3, <1>4, <1>5, <1>6, <1>7

\* Sequences with one element put in front.
LEMMA Cons ==
  ASSUME NEW S, NEW x, NEW q \in Seq(S)
  PROVE  /\ <<>> \o q = q
         /\ Head(<<x>> \o q) = x /\ Tail(<<x>> \o q) = q /\ <<x>> \o q # <<>>
         /\ q # <<>> => <<Head(q)>> \o Tail(q) = q
OBVIOUS

LEMMA AppendBehind ==
  ASSUME NEW S, NEW p \in Seq(S), NEW q \in Seq(S), NEW x \in S
  PROVE  p \o Append(q, x) = Append(p \o q, x)
OBVIOUS

-----------------------------------------------------------------------------
(***************************************************************************)
(* Types, the line of a writer, and the lines on their way: the one the    *)
(* log thread has popped, if any, and behind it those in the queue.        *)
(***************************************************************************)

ThreadType ==
  /\ today \in Days
  /\ lines \in Seq(Lines) /\ Len(lines) <= MaxLines
  /\ wpc \in [Writers -> {"out", "count", "choose", "push", "direct"}]
  /\ line \in [Writers -> Lines \cup {NoLine}]
  /\ lpc \in {"pop", "write", "exit"}
  /\ m_is_async \in BOOLEAN /\ raced \in BOOLEAN

OwnLine ==
  \A w \in Writers :
    IF wpc[w] = "out" THEN line[w] = NoLine ELSE line[w] \in Lines /\ line[w].by = w

Popped == IF lpc = "write" THEN <<value[LogThread]>> ELSE <<>>
Trail == Popped \o BP!Queued

WayInv == ThreadType /\ OwnLine /\ BP!RingInv /\ Trail \in Seq(Lines)

\* The queue holds lines only.
LEMMA QueueOfLines ==
  ASSUME BP!RingInv, Trail \in Seq(Lines)
  PROVE  BP!Queued \in Seq(Lines) /\ (lpc = "write" => value[LogThread] \in Lines)
<1>1. BP!Queued \in Seq(Lines \cup {NoLine})
  BY SizeAssumption, LineAssumption, BP!QueuedSeq DEF BP!RingInv, BP!Inv
<1>2. CASE lpc # "write"
  BY <1>1, <1>2, Cons DEF Trail, Popped
<1>3. CASE lpc = "write"
  <2>1. Trail = <<value[LogThread]>> \o BP!Queued
    BY <1>3 DEF Trail, Popped
  <2>2. Head(Trail) = value[LogThread] /\ Tail(Trail) = BP!Queued /\ Trail # <<>>
    BY <1>1, <2>1, Cons
  <2> QED
    BY <2>2
<1> QED
  BY <1>2, <1>3

\* A step of the log is at most one step of its queue.
LEMMA QueueStep == ASSUME WayInv, [Next]_vars PROVE BP!RingInv'
<1>1. ASSUME NEW w \in Writers, Push(w) PROVE BP!Next
  <2>1. line[w] \in Lines
    BY <1>1 DEF Push, WayInv, OwnLine
  <2> QED
    BY <1>1, <2>1, SameQueue DEF Push, BP!Next
<1>2. ASSUME LQ!pop(LogThread, "wait") PROVE BP!Next
  BY <1>2, SameQueue DEF BP!popStep, BP!Asleep, BP!Next
<1>3. ASSUME LQ!popWoken(LogThread) \/ LQ!SpuriousWakeup(LogThread) PROVE BP!Next
  BY <1>3, SameQueue DEF BP!popStep, BP!Next
<1>4. BP!Next \/ UNCHANGED BP!vars
  BY <1>1, <1>2, <1>3 DEF Next, Midnight, LogSpurious, LogLoop, LogPop, LogWrite, Write, Stamp,
     CountLine, Choose, Push, Direct, vars, queueVars, BP!vars
<1>5. BP!Inv' /\ BP!RingFacts'
  BY <1>4, SizeAssumption, LineAssumption, BP!InvStep, BP!RingStep DEF WayInv, BP!RingInv
<1> QED
  BY <1>5 DEF BP!RingInv

\* What becomes of the lines on their way.
LEMMA PushTrail ==
  ASSUME WayInv, NEW w \in Writers, Push(w)
  PROVE  IF LQ!full THEN Trail' = Trail ELSE Trail' = Append(Trail, line[w])
<1>1. line[w] \in Lines /\ Popped' = Popped
  <2>1. value' = value /\ lpc' = lpc
    BY DEF Push, LQ!push
  <2> QED
    BY <2>1 DEF Push, WayInv, OwnLine, Popped
<1>2. CASE LQ!full
  <2>1. UNCHANGED BP!ring
    BY <1>2 DEF Push, LQ!push, LQ!ring, BP!ring
  <2> QED
    BY <1>1, <1>2, <2>1, SizeAssumption, LineAssumption, BP!RingStutters
    DEF Trail, WayInv, BP!RingInv
<1>3. CASE ~LQ!full
  <2>1. BP!Queued' = Append(BP!Queued, line[w])
    BY <1>1, <1>3, SameQueue, SizeAssumption, LineAssumption, BP!PushAppends DEF Push, WayInv
  <2>2. Popped \in Seq(Lines) /\ BP!Queued \in Seq(Lines)
    BY QueueOfLines DEF WayInv, Popped
  <2> QED
    BY <1>1, <1>3, <2>1, <2>2, AppendBehind DEF Trail
<1> QED
  BY <1>2, <1>3

LEMMA PopTrail ==
  ASSUME WayInv, LogPop PROVE Trail' = Trail /\ (lpc' = "write" => value'[LogThread] \in Lines)
<1>1. BP!Queued \in Seq(Lines) /\ Trail = BP!Queued
  BY QueueOfLines, Cons DEF WayInv, LogPop, Trail, Popped
<1>2. LogThread \in DOMAIN value /\ LogThread \in DOMAIN cpc
  BY DEF WayInv, BP!RingInv, BP!Inv, BP!TypeOK, BP!Asleep
<1>3. CASE LQ!TakeFront(LogThread) /\ m_size > 0
  <2>1. /\ BP!Queued # <<>> /\ BP!Queued' = Tail(BP!Queued)
        /\ value'[LogThread] = Head(BP!Queued)
    <3>1. BP!TakeFront(LogThread)
      BY <1>3 DEF LQ!TakeFront, BP!TakeFront, LQ!After, BP!After
    <3> QED
      BY <1>2, <1>3, <3>1, SizeAssumption, LineAssumption, BP!PopTakesHead DEF WayInv
  <2>2. Head(BP!Queued) \in Lines /\ Head(BP!Queued) # NoLine
    BY <1>1, <2>1, LineAssumption
  <2>3. cpc'[LogThread] = "out"
    BY <1>2, <1>3 DEF LQ!TakeFront
  <2>4. lpc' = "write"
    BY <2>1, <2>2, <2>3 DEF LogPop
  <2> QED
    BY <1>1, <2>1, <2>2, <2>4, Cons DEF Trail, Popped
<1>4. CASE UNCHANGED LQ!ring /\ lpc' # "write"
  <2>1. BP!Queued' = BP!Queued
    BY <1>4, SizeAssumption, LineAssumption, BP!RingStutters
    DEF LQ!ring, BP!ring, WayInv, BP!RingInv
  <2> QED
    BY <1>1, <1>4, <2>1, Cons DEF Trail, Popped
<1>5. CASE LQ!pop(LogThread, "wait") /\ ~(m_size > 0)
  <2>1. cpc'[LogThread] = "wait" /\ UNCHANGED LQ!ring
    BY <1>2, <1>5 DEF LQ!pop
  <2> QED
    BY <1>4, <2>1 DEF LogPop
<1>6. CASE LQ!popWoken(LogThread)
  <2>1. cpc'[LogThread] = "out" /\ value'[LogThread] = NoLine /\ UNCHANGED LQ!ring
    BY <1>2, <1>6 DEF LQ!popWoken, LQ!ReturnFalse
  <2> QED
    BY <1>4, <2>1 DEF LogPop
<1> QED
  BY <1>3, <1>5, <1>6 DEF LogPop, LQ!pop

LEMMA WriteTrail ==
  ASSUME WayInv, LogWrite
  PROVE  Trail # <<>> /\ Trail' = Tail(Trail) /\ Head(Trail) = value[LogThread]
<1>1. BP!Queued \in Seq(Lines) /\ Trail = <<value[LogThread]>> \o BP!Queued
  BY QueueOfLines DEF WayInv, LogWrite, Trail, Popped
<1>2. BP!Queued' = BP!Queued
  BY DEF LogWrite, queueVars, BP!Queued
<1>3. Trail' = BP!Queued
  BY <1>1, <1>2, Cons DEF LogWrite, Trail, Popped
<1> QED
  BY <1>1, <1>3, Cons

LEMMA StillTrail == ASSUME UNCHANGED <<queueVars, lpc>> PROVE Trail' = Trail
BY DEF queueVars, Trail, Popped, BP!Queued

LEMMA OtherTrail ==
  ASSUME WayInv, [Next]_vars, ~LogWrite, \A w \in Writers : ~Push(w) PROVE Trail' = Trail
<1>1. CASE UNCHANGED <<queueVars, lpc>>
  BY <1>1, StillTrail
<1>2. CASE LogSpurious
  BY <1>2 DEF LogSpurious, LQ!SpuriousWakeup, LQ!ring, Trail, Popped, BP!Queued
<1>3. CASE LogPop
  BY <1>3, PopTrail
<1> QED
  BY <1>1, <1>2, <1>3 DEF Next, Midnight, LogLoop, Write, Stamp, CountLine, Choose, Direct,
     vars
-----------------------------------------------------------------------------
LEMMA WayInit == Init => WayInv
<1> SUFFICES ASSUME Init PROVE WayInv
  OBVIOUS
<1>1. BP!RingInv
  BY SameQueue, SizeAssumption, LineAssumption, BP!InvInit, BP!RingInit DEF Init, BP!RingInv
<1>2. ThreadType /\ OwnLine
  <2>1. lpc \in {"pop", "write", "exit"} /\ m_is_async \in BOOLEAN /\ raced \in BOOLEAN
    BY DEF Init
  <2>2. today \in Days /\ lines \in Seq(Lines) /\ Len(lines) <= MaxLines
    BY BoundsAssumption DEF Init, Days
  <2>3. /\ wpc \in [Writers -> {"out", "count", "choose", "push", "direct"}]
        /\ line \in [Writers -> Lines \cup {NoLine}] /\ OwnLine
    BY DEF Init, OwnLine
  <2> QED
    BY <2>1, <2>2, <2>3 DEF ThreadType
<1>3. Trail \in Seq(Lines)
  <2>1. BP!Queued = <<>> /\ lpc # "write"
    BY DEF Init, LQ!Init, BP!Queued
  <2> QED
    BY <2>1 DEF Trail, Popped
<1> QED
  BY <1>1, <1>2, <1>3 DEF WayInv

\* A new line is a line of its writer, with the number of calls so far.
LEMMA StampedLine ==
  ASSUME WayInv, NEW w \in Writers, Stamp(w)
  PROVE  /\ line'[w] \in Lines /\ line'[w].by = w /\ line'[w].n = Len(lines) + 1
         /\ line' = [line EXCEPT ![w] = line'[w]] /\ wpc' = [wpc EXCEPT ![w] = "count"]
         /\ lines' \in Seq(Lines) /\ Len(lines') = Len(lines) + 1 /\ Len(lines') <= MaxLines
<1> DEFINE new == [n |-> Len(lines) + 1, day |-> today, by |-> w]
<1>1. Len(lines) \in Nat /\ Len(lines) + 1 \in 1..MaxLines
  BY BoundsAssumption DEF WayInv, ThreadType, Stamp
<1>2. line' = [line EXCEPT ![w] = new] /\ w \in DOMAIN line
  BY DEF WayInv, ThreadType, Stamp
<1>3. new \in Lines /\ line'[w] = new
  BY <1>1, <1>2 DEF WayInv, ThreadType, Lines
<1>4. lines' = Append(lines, new)
  BY <1>3 DEF Stamp
<1> QED
  BY <1>1, <1>2, <1>3, <1>4 DEF WayInv, ThreadType, Stamp, Goto

LEMMA ThreadStep == ASSUME WayInv, [Next]_vars PROVE ThreadType' /\ OwnLine'
<1> USE DEF WayInv
<1>1. CASE UNCHANGED <<today, writerVars, lpc, m_is_async, raced>>
  BY <1>1 DEF ThreadType, OwnLine, writerVars
<1>2. CASE Midnight
  BY <1>2, BoundsAssumption DEF Midnight, ThreadType, OwnLine, writerVars, Days
<1>3. CASE LogSpurious \/ LogLoop
  BY <1>3 DEF LogSpurious, LogLoop, LogPop, LogWrite, ThreadType, OwnLine, writerVars
<1>4. ASSUME NEW w \in Writers, Stamp(w) PROVE ThreadType' /\ OwnLine'
  <2>1. PICK l \in Lines : l.by = w /\ line' = [line EXCEPT ![w] = l]
    BY <1>4, StampedLine
  <2>2. wpc' = [wpc EXCEPT ![w] = "count"] /\ UNCHANGED <<today, lpc, m_is_async, raced>>
    BY <1>4, StampedLine DEF Stamp
  <2>3. lines' \in Seq(Lines) /\ Len(lines') <= MaxLines
    BY <1>4, StampedLine
  <2> QED
    BY <2>1, <2>2, <2>3 DEF ThreadType, OwnLine
<1>5. ASSUME NEW w \in Writers, CountLine(w) \/ Choose(w) PROVE ThreadType' /\ OwnLine'
  BY <1>5 DEF CountLine, Choose, Goto, ThreadType, OwnLine
<1>6. ASSUME NEW w \in Writers, Push(w) \/ Direct(w) PROVE ThreadType' /\ OwnLine'
  BY <1>6 DEF Push, Direct, Return, Goto, ThreadType, OwnLine
<1> QED
  BY <1>1, <1>2, <1>3, <1>4, <1>5, <1>6 DEF Next, Write, vars

LEMMA WayStep == ASSUME WayInv, [Next]_vars PROVE WayInv'
<1>1. ASSUME NEW w \in Writers, Push(w) PROVE Trail' \in Seq(Lines)
  <2>1. line[w] \in Lines
    BY <1>1 DEF Push, WayInv, OwnLine
  <2> QED
    BY <1>1, <2>1, PushTrail DEF WayInv
<1>2. ASSUME LogWrite PROVE Trail' \in Seq(Lines)
  BY <1>2, WriteTrail DEF WayInv
<1>3. ASSUME ~LogWrite, \A w \in Writers : ~Push(w) PROVE Trail' \in Seq(Lines)
  BY <1>3, OtherTrail DEF WayInv
<1>4. Trail' \in Seq(Lines)
  BY <1>1, <1>2, <1>3
<1> QED
  BY <1>4, ThreadStep, QueueStep DEF WayInv


-----------------------------------------------------------------------------
(***************************************************************************)
(* The files. m_count is behind the number of calls by the writers that    *)
(* have yet to count their line, so no suffix is larger than the bound.    *)
(***************************************************************************)

Entries == [line : Lines, file : Files, thread : Writers \cup {LogThread}]
Counting == {w \in Writers : wpc[w] = "count"}

FileInv ==
  /\ m_today \in Days /\ m_fp \in Files
  /\ m_count \in Nat /\ m_count + Cardinality(Counting) <= Len(lines)
  /\ written \in Seq(Entries)

LEMMA SmallerQuotient ==
  ASSUME NEW a \in Nat, NEW b \in Nat, a <= b, NEW s \in Nat \ {0}
  PROVE  a \div s \in 0..(b \div s)
<1> DEFINE q == a \div s
           r == b \div s
<1>1. q \in Nat /\ r \in Nat
  OBVIOUS
<1>2. s * q <= a /\ b < s * r + s
  OBVIOUS
<1>3. ~(q >= r + 1)
  <2> SUFFICES ASSUME q >= r + 1 PROVE FALSE
    OBVIOUS
  <2>1. s * q >= s * (r + 1)
    BY <1>1
  <2>2. s * (r + 1) = s * r + s
    BY <1>1
  <2> QED
    BY <1>1, <1>2, <2>1, <2>2
<1> QED
  BY <1>1, <1>3

LEMMA FileOfDay ==
  ASSUME NEW d \in Days, NEW c \in Nat, c <= MaxLines
  PROVE  File(d, 0) \in Files /\ File(d, Suffix(c)) \in Files
<1>1. Suffix(c) \in 0..(MaxLines \div m_split_lines)
  <2>1. MaxLines \in Nat /\ m_split_lines \in Nat \ {0}
    BY BoundsAssumption, SplitAssumption
  <2>2. c \div m_split_lines \in 0..(MaxLines \div m_split_lines)
    BY <2>1, SmallerQuotient
  <2> QED
    BY <2>2 DEF Suffix
<1>2. 0 \in 0..(MaxLines \div m_split_lines)
  BY BoundsAssumption, SplitAssumption
<1> QED
  BY <1>1, <1>2 DEF File, Files

LEMMA CountingFinite ==
  IsFiniteSet(Counting) /\ IsFiniteSet(Counting') /\ Cardinality(Counting) \in Nat
<1>1. Counting \subseteq Writers /\ Counting' \subseteq Writers
  BY DEF Counting
<1> QED
  BY <1>1, WritersAssumption, FS_Subset, FS_CardinalityType

\* Only Stamp and CountLine change who is counting.
LEMMA CountingStep ==
  ASSUME WayInv, [Next]_vars
  PROVE  /\ \A w \in Writers :
              /\ Stamp(w) => Cardinality(Counting') = Cardinality(Counting) + 1
              /\ CountLine(w) => Cardinality(Counting') = Cardinality(Counting) - 1
         /\ (\A w \in Writers : ~Stamp(w) /\ ~CountLine(w))
              => Counting' = Counting /\ lines' = lines
<1>1. ASSUME NEW w \in Writers, Stamp(w)
      PROVE  Cardinality(Counting') = Cardinality(Counting) + 1
  <2>1. wpc[w] = "out" /\ wpc' = [wpc EXCEPT ![w] = "count"]
    BY <1>1 DEF Stamp, Goto
  <2>2. w \notin Counting /\ Counting' = Counting \cup {w}
    BY <2>1 DEF Counting, WayInv, ThreadType
  <2> QED
    BY <2>2, CountingFinite, FS_AddElement
<1>2. ASSUME NEW w \in Writers, CountLine(w)
      PROVE  Cardinality(Counting') = Cardinality(Counting) - 1
  <2>1. w \in Counting /\ Counting' = Counting \ {w}
    BY <1>2 DEF CountLine, Goto, Counting, WayInv, ThreadType
  <2> QED
    BY <2>1, CountingFinite, FS_RemoveElement
<1>3. ASSUME \A w \in Writers : ~Stamp(w) /\ ~CountLine(w)
      PROVE  Counting' = Counting /\ lines' = lines
  <2>1. CASE UNCHANGED <<wpc, lines>>
    BY <2>1 DEF Counting
  <2>2. ASSUME NEW w \in Writers, Choose(w) \/ Push(w) \/ Direct(w)
        PROVE  Counting' = Counting /\ lines' = lines
    BY <2>2 DEF Choose, Push, Direct, Return, Goto, Counting, WayInv, ThreadType
  <2> QED
    BY <1>3, <2>1, <2>2 DEF Next, Midnight, LogSpurious, LogLoop, LogPop, LogWrite, Write,
       writerVars, vars
<1> QED
  BY <1>1, <1>2, <1>3

\* What a writer or the log thread puts into a file.
LEMMA PutEntry ==
  ASSUME FileInv, NEW l \in Lines, NEW t \in Writers \cup {LogThread}, Put(l, t)
  PROVE  written' \in Seq(Entries)
<1>1. [line |-> l, file |-> m_fp, thread |-> t] \in Entries
  BY DEF FileInv, Entries
<1> QED
  BY <1>1 DEF FileInv, Put

LEMMA FileStep == ASSUME WayInv, FileInv, [Next]_vars PROVE FileInv'
<1>1. written' \in Seq(Entries)
  <2>1. ASSUME NEW w \in Writers, Direct(w) PROVE written' \in Seq(Entries)
    <3>1. line[w] \in Lines /\ Put(line[w], w)
      BY <2>1 DEF Direct, WayInv, OwnLine
    <3> QED
      BY <3>1, PutEntry
  <2>2. ASSUME LogWrite PROVE written' \in Seq(Entries)
    <3>1. value[LogThread] \in Lines /\ Put(value[LogThread], LogThread)
      BY <2>2, QueueOfLines DEF LogWrite, WayInv
    <3> QED
      BY <3>1, PutEntry
  <2>3. ASSUME UNCHANGED written PROVE written' \in Seq(Entries)
    BY <2>3 DEF FileInv
  <2> QED
    BY <2>1, <2>2, <2>3 DEF Next, Midnight, LogSpurious, LogLoop, LogPop, Write, Stamp,
       CountLine, Choose, Push, vars
<1>2. ASSUME NEW w \in Writers, CountLine(w)
      PROVE  /\ m_today' \in Days /\ m_fp' \in Files
             /\ m_count' \in Nat /\ m_count' + Cardinality(Counting') <= Len(lines')
  <2>1. line[w].day \in Days /\ Rotate(line[w].day) /\ lines' = lines
    BY <1>2 DEF CountLine, WayInv, OwnLine, Lines
  <2>2. /\ Len(lines) \in Nat /\ Len(lines) <= MaxLines
        /\ Cardinality(Counting') = Cardinality(Counting) - 1
        /\ Cardinality(Counting') \in Nat
    BY <1>2, CountingStep, CountingFinite, FS_CardinalityType DEF WayInv, ThreadType
  <2>3. CASE DayChanged(line[w].day)
    <3>1. m_count' = 0 /\ m_today' = line[w].day /\ m_fp' = File(line[w].day, 0)
      BY <2>1, <2>3 DEF Rotate
    <3>2. m_fp' \in Files
      BY <2>1, <3>1, FileOfDay, BoundsAssumption
    <3>3. m_count' + Cardinality(Counting') <= Len(lines)
      BY <2>2, <3>1, CountingFinite DEF FileInv
    <3> QED
      BY <2>1, <3>1, <3>2, <3>3
  <2>4. CASE ~DayChanged(line[w].day)
    <3>1. m_count' = m_count + 1 /\ m_today' = m_today
      BY <2>1, <2>4 DEF Rotate
    <3>2. m_count' \in Nat /\ m_count' + Cardinality(Counting') <= Len(lines)
      BY <2>2, <3>1, CountingFinite DEF FileInv
    <3>3. m_count' <= MaxLines
      BY <2>2, <3>2, BoundsAssumption
    <3>4. m_fp' \in Files
      BY <2>1, <2>4, <3>2, <3>3, FileOfDay DEF Rotate, FileInv
    <3> QED
      BY <2>1, <3>1, <3>2, <3>4 DEF FileInv
  <2> QED
    BY <2>1, <2>3, <2>4 DEF Rotate
<1>3. ASSUME NEW w \in Writers, Stamp(w)
      PROVE  UNCHANGED fileVars /\ m_count + Cardinality(Counting') <= Len(lines')
  <2>1. UNCHANGED fileVars
    BY <1>3 DEF Stamp
  <2>2. /\ Len(lines') = Len(lines) + 1 /\ Len(lines) \in Nat
        /\ Cardinality(Counting') = Cardinality(Counting) + 1
    BY <1>3, StampedLine, CountingStep DEF WayInv, ThreadType
  <2> QED
    BY <2>1, <2>2, CountingFinite DEF FileInv
<1>4. ASSUME \A w \in Writers : ~Stamp(w) /\ ~CountLine(w)
      PROVE  UNCHANGED fileVars /\ Counting' = Counting /\ lines' = lines
  <2>1. UNCHANGED fileVars
    BY <1>4 DEF Next, Midnight, LogSpurious, LogLoop, LogPop, LogWrite, Write, Choose, Push,
       Direct, vars
  <2> QED
    BY <1>4, <2>1, CountingStep
<1> QED
  BY <1>1, <1>2, <1>3, <1>4 DEF FileInv, fileVars

LEMMA FileInit == Init => FileInv
<1> SUFFICES ASSUME Init PROVE FileInv
  OBVIOUS
<1>1. Counting = {} /\ Cardinality(Counting) = 0
  BY FS_EmptySet DEF Init, Counting
<1>2. 1 \in Days
  BY BoundsAssumption DEF Days
<1>3. File(1, 0) \in Files
  BY <1>2, FileOfDay, BoundsAssumption
<1> QED
  BY <1>1, <1>2, <1>3 DEF Init, FileInv

\* Every variable of the log holds a value of its type, and no file has a
\* suffix the lines written so far could not have given it.
THEOREM LogTypes == Spec => []TypeOK
<1>1. WayInv /\ FileInv => TypeOK
  <2> SUFFICES ASSUME WayInv, FileInv PROVE TypeOK
    OBVIOUS
  <2>1. m_count \in 0..MaxLines
    BY CountingFinite, BoundsAssumption DEF FileInv, WayInv, ThreadType
  <2>2. LQ!TypeOK
    BY DEF WayInv, BP!RingInv, BP!Inv, BP!TypeOK, LQ!TypeOK, BP!Asleep, LQ!Asleep
  <2> QED
    BY <2>1, <2>2 DEF TypeOK, WayInv, ThreadType, FileInv, Entries
<1>2. WayInv /\ FileInv /\ [Next]_vars => WayInv' /\ FileInv'
  BY WayStep, FileStep
<1> QED
  BY WayInit, FileInit, <1>1, <1>2, PTL DEF Spec

-----------------------------------------------------------------------------
(***************************************************************************)
(* The order of the lines of one writer. A line that is still with its     *)
(* writer is the newest of that writer: everything of it that is on the    *)
(* trail or in a file is older. A line on the trail is newer than what the *)
(* log thread has written of the same writer; it may be older than what    *)
(* the writer itself has written past a full queue.                        *)
(***************************************************************************)

Earlier(l, m) == l.by = m.by => l.n < m.n

Newest(l) ==
  /\ \A i \in DOMAIN written : Earlier(written[i].line, l)
  /\ \A j \in DOMAIN Trail : Earlier(Trail[j], l)

NewestInHand == \A w \in Writers : wpc[w] # "out" => Newest(line[w]) /\ line[w].n <= Len(lines)
TrailInOrder == \A i, j \in DOMAIN Trail : i < j => Earlier(Trail[i], Trail[j])
TrailBehindWritten ==
  \A i \in DOMAIN written, j \in DOMAIN Trail :
    written[i].thread = LogThread => Earlier(written[i].line, Trail[j])
Numbered ==
  /\ \A i \in DOMAIN written : written[i].line.n <= Len(lines)
  /\ \A j \in DOMAIN Trail : Trail[j].n <= Len(lines)

OrderInv == NewestInHand /\ TrailInOrder /\ TrailBehindWritten /\ Numbered /\ WriterOrder

\* The members of a sequence with one more, or without its first.
LEMMA AppendMembers ==
  ASSUME NEW S, NEW q \in Seq(S), NEW x \in S
  PROVE  /\ DOMAIN Append(q, x) = 1..Len(q) + 1 /\ DOMAIN q = 1..Len(q) /\ Len(q) \in Nat
         /\ \A i \in DOMAIN q : Append(q, x)[i] = q[i]
         /\ Append(q, x)[Len(q) + 1] = x
OBVIOUS

LEMMA TailMembers ==
  ASSUME NEW S, NEW q \in Seq(S), q # <<>>
  PROVE  /\ DOMAIN Tail(q) = 1..Len(q) - 1 /\ DOMAIN q = 1..Len(q) /\ Len(q) \in Nat \ {0}
         /\ \A i \in DOMAIN Tail(q) : i + 1 \in DOMAIN q /\ Tail(q)[i] = q[i + 1]
         /\ Head(q) = q[1] /\ 1 \in DOMAIN q
         /\ \A j \in DOMAIN q : j = 1 \/ (j - 1 \in DOMAIN Tail(q) /\ Tail(q)[j - 1] = q[j])
OBVIOUS

\* The lines of the trail and of the files, by place.
LEMMA Places ==
  ASSUME WayInv, FileInv
  PROVE  /\ \A i \in DOMAIN written : written[i] \in Entries /\ written[i].line \in Lines
         /\ \A j \in DOMAIN Trail : Trail[j] \in Lines
         /\ \A l \in Lines : l.n \in Nat /\ l.by \in Writers
         /\ Len(lines) \in Nat
<1>1. \A i \in DOMAIN written : written[i] \in Entries /\ written[i].line \in Lines
  <2>1. \A i \in DOMAIN written : written[i] \in Entries
    BY DEF FileInv
  <2> QED
    BY <2>1 DEF Entries
<1>2. \A j \in DOMAIN Trail : Trail[j] \in Lines
  BY DEF WayInv
<1>3. \A l \in Lines : l.n \in Nat /\ l.by \in Writers
  BY BoundsAssumption DEF Lines
<1> QED
  BY <1>1, <1>2, <1>3 DEF WayInv, ThreadType

LEMMA OrderInit == Init => OrderInv
<1> SUFFICES ASSUME Init PROVE OrderInv
  OBVIOUS
<1>1. DOMAIN written = {} /\ DOMAIN Trail = {}
  <2>1. BP!Queued = <<>> /\ lpc # "write"
    BY DEF Init, LQ!Init, BP!Queued
  <2>2. Trail = <<>> /\ written = <<>>
    BY <2>1 DEF Trail, Popped, Init
  <2> QED
    BY <2>2
<1>2. \A w \in Writers : wpc[w] = "out"
  BY DEF Init
<1> QED
  BY <1>1, <1>2 DEF OrderInv, NewestInHand, TrailInOrder, TrailBehindWritten, Numbered, WriterOrder

\* A line that its writer takes no further is nowhere yet.
LEMMA StampOrder ==
  ASSUME WayInv, FileInv, OrderInv, NEW w \in Writers, Stamp(w), Trail' = Trail
  PROVE  OrderInv'
<1> USE DEF OrderInv
<1>1. written' = written /\ Len(lines') = Len(lines) + 1
  BY StampedLine DEF Stamp
<1>2. PICK l \in Lines :
        /\ l.by = w /\ l.n = Len(lines) + 1
        /\ line' = [line EXCEPT ![w] = l] /\ wpc' = [wpc EXCEPT ![w] = "count"]
  BY StampedLine
<1>3. Numbered'
  BY <1>1, Places DEF Numbered
<1>4. Newest(l)'
  BY <1>1, <1>2, Places DEF Newest, Earlier, Numbered
<1>5. \A v \in Writers \ {w} :
        wpc'[v] # "out" => Newest(line[v])' /\ line'[v] = line[v] /\ line[v].n <= Len(lines')
  <2>1. \A v \in Writers \ {w} : wpc'[v] = wpc[v] /\ line'[v] = line[v]
    BY <1>2 DEF WayInv, ThreadType
  <2>2. \A v \in Writers : wpc[v] # "out" => line[v] \in Lines
    BY DEF WayInv, OwnLine
  <2> QED
    BY <1>1, <2>1, <2>2, Places DEF NewestInHand, Newest
<1>6. line'[w] = l /\ l.n <= Len(lines')
  BY <1>1, <1>2, Places DEF WayInv, ThreadType
<1>7. NewestInHand'
  BY <1>4, <1>5, <1>6 DEF NewestInHand
<1>8. TrailInOrder' /\ TrailBehindWritten' /\ WriterOrder'
  BY <1>1 DEF TrailInOrder, TrailBehindWritten, WriterOrder
<1> QED
  BY <1>3, <1>7, <1>8

\* The line of a writer that returns goes behind the trail, into a file, or
\* is lost; the other writers keep theirs.
LEMMA ReturnOthers ==
  ASSUME WayInv, NEW w \in Writers, wpc[w] # "out", Return(w)
  PROVE  /\ line[w] \in Lines /\ line[w].by = w /\ wpc'[w] = "out"
         /\ \A v \in Writers : wpc'[v] # "out" =>
              /\ v # w /\ wpc[v] # "out" /\ line'[v] = line[v]
              /\ line[v] \in Lines /\ line[v].by = v
BY DEF Return, Goto, WayInv, ThreadType, OwnLine

LEMMA PushOrder ==
  ASSUME WayInv, FileInv, OrderInv, NEW w \in Writers, Push(w)
  PROVE  OrderInv'
<1> USE DEF OrderInv
<1>1. written' = written /\ lines' = lines /\ wpc[w] # "out" /\ Return(w)
  BY DEF Push
<1>2. CASE Trail' = Trail
  <2>1. NewestInHand'
    BY <1>1, <1>2, ReturnOthers DEF NewestInHand, Newest
  <2> QED
    BY <1>1, <1>2, <2>1 DEF TrailInOrder, TrailBehindWritten, WriterOrder, Numbered
<1>3. CASE Trail' = Append(Trail, line[w])
  <2>1. line[w] \in Lines /\ Newest(line[w]) /\ line[w].n <= Len(lines)
    BY <1>1, ReturnOthers DEF NewestInHand
  <2>2. \A j \in DOMAIN Trail' :
          \/ j \in DOMAIN Trail /\ Trail'[j] = Trail[j]
          \/ j = Len(Trail) + 1 /\ Trail'[j] = line[w]
    BY <1>3, <2>1, AppendMembers DEF WayInv
  <2>3. \A j \in DOMAIN Trail : j < Len(Trail) + 1 /\ j \in Nat
    BY DEF WayInv
  <2>4. NewestInHand'
    BY <1>1, <2>2, ReturnOthers DEF NewestInHand, Newest, Earlier
  <2>5. TrailInOrder'
    BY <2>1, <2>2, <2>3 DEF TrailInOrder, Newest, WayInv
  <2>6. TrailBehindWritten'
    BY <1>1, <2>1, <2>2 DEF TrailBehindWritten, Newest
  <2>7. Numbered' /\ WriterOrder'
    BY <1>1, <2>1, <2>2 DEF Numbered, WriterOrder
  <2> QED
    BY <2>4, <2>5, <2>6, <2>7
<1> QED
  BY <1>2, <1>3, PushTrail

\* A line put into a file, by its writer or by the log thread.
LEMMA PutMembers ==
  ASSUME WayInv, FileInv, NEW l \in Lines, NEW t \in Writers \cup {LogThread}, Put(l, t)
  PROVE  /\ \A i \in DOMAIN written' :
              \/ i \in DOMAIN written /\ written'[i] = written[i]
              \/ i = Len(written) + 1 /\ written'[i].line = l /\ written'[i].thread = t
         /\ \A i \in DOMAIN written : i < Len(written) + 1 /\ i \in Nat
         /\ \A i \in DOMAIN written : i \in DOMAIN written' /\ written'[i] = written[i]
         /\ Len(written) + 1 \in DOMAIN written' /\ written'[Len(written) + 1].line = l
<1> DEFINE e == [line |-> l, file |-> m_fp, thread |-> t]
<1>1. e \in Entries /\ written \in Seq(Entries) /\ written' = Append(written, e)
  BY DEF FileInv, Entries, Put
<1> HIDE DEF e
<1>2. e.line = l /\ e.thread = t
  BY DEF e
<1> QED
  BY <1>1, <1>2, AppendMembers

LEMMA DirectOrder ==
  ASSUME WayInv, FileInv, OrderInv, NEW w \in Writers, Direct(w), Trail' = Trail
  PROVE  OrderInv'
<1> USE DEF OrderInv
<1>1. lines' = lines /\ wpc[w] # "out" /\ Return(w) /\ Put(line[w], w)
  BY DEF Direct
<1>2. /\ line[w] \in Lines /\ line[w].by = w /\ Newest(line[w]) /\ line[w].n <= Len(lines)
      /\ w # LogThread
  BY <1>1, ReturnOthers, WritersAssumption DEF NewestInHand
<1>3. NewestInHand'
  BY <1>1, <1>2, PutMembers, ReturnOthers DEF NewestInHand, Newest, Earlier
<1>4. TrailBehindWritten'
  BY <1>1, <1>2, PutMembers DEF TrailBehindWritten
<1>5. Numbered'
  BY <1>1, <1>2, PutMembers DEF Numbered
<1>6. WriterOrder'
  <2> SUFFICES ASSUME NEW i \in DOMAIN written', NEW j \in DOMAIN written', i < j,
                      written'[i].line.by = written'[j].line.by,
                      written'[i].thread = written'[j].thread
               PROVE  written'[i].line.n < written'[j].line.n
    BY DEF WriterOrder
  <2>1. i \in DOMAIN written /\ written'[i] = written[i]
    BY <1>1, <1>2, PutMembers
  <2> QED
    BY <1>1, <1>2, <2>1, PutMembers DEF WriterOrder, Newest, Earlier
<1> QED
  BY <1>3, <1>4, <1>5, <1>6 DEF TrailInOrder

LEMMA LogWriteOrder ==
  ASSUME WayInv, FileInv, OrderInv, LogWrite
  PROVE  OrderInv'
<1> USE DEF OrderInv
<1> DEFINE l == value[LogThread]
<1>1. lines' = lines /\ wpc' = wpc /\ line' = line /\ Put(l, LogThread)
  BY DEF LogWrite, writerVars
<1>2. l = Trail[1] /\ l \in Lines /\ 1 \in DOMAIN Trail
  BY WriteTrail, TailMembers DEF WayInv
<1>3. \A j \in DOMAIN Trail' :
        j \in Nat /\ j + 1 \in DOMAIN Trail /\ 1 < j + 1 /\ Trail'[j] = Trail[j + 1]
  BY WriteTrail, TailMembers DEF WayInv
<1> HIDE DEF l
<1>4. \A i \in DOMAIN written' :
        \/ i \in DOMAIN written /\ written'[i] = written[i]
        \/ i = Len(written) + 1 /\ written'[i].line = l /\ written'[i].thread = LogThread
  BY <1>1, <1>2, PutMembers
<1>5. NewestInHand'
  <2> SUFFICES ASSUME NEW w \in Writers, wpc'[w] # "out"
               PROVE  Newest(line[w])' /\ line'[w].n <= Len(lines')
    BY <1>1 DEF NewestInHand
  <2>1. Newest(line[w]) /\ line'[w].n <= Len(lines')
    BY <1>1 DEF NewestInHand
  <2> QED
    BY <1>1, <1>2, <1>3, <1>4, <2>1 DEF Newest
<1>6. TrailInOrder'
  BY <1>3 DEF TrailInOrder
<1>7. TrailBehindWritten'
  BY <1>2, <1>3, <1>4 DEF TrailBehindWritten, TrailInOrder
<1>8. Numbered'
  BY <1>1, <1>2, <1>3, <1>4 DEF Numbered
<1>9. WriterOrder'
  <2> SUFFICES ASSUME NEW i \in DOMAIN written', NEW j \in DOMAIN written', i < j,
                      written'[i].line.by = written'[j].line.by,
                      written'[i].thread = written'[j].thread
               PROVE  written'[i].line.n < written'[j].line.n
    BY DEF WriterOrder
  <2>1. i \in DOMAIN written /\ written'[i] = written[i]
    BY <1>1, <1>2, PutMembers
  <2> QED
    BY <1>2, <1>4, <2>1 DEF WriterOrder, TrailBehindWritten, Earlier
<1> QED
  BY <1>5, <1>6, <1>7, <1>8, <1>9

LEMMA OrderStep == ASSUME WayInv, FileInv, OrderInv, [Next]_vars PROVE OrderInv'
<1>1. ASSUME NEW w \in Writers, Push(w) PROVE OrderInv'
  BY <1>1, PushOrder
<1>2. ASSUME LogWrite PROVE OrderInv'
  BY <1>2, LogWriteOrder
<1>3. ASSUME ~LogWrite, \A w \in Writers : ~Push(w) PROVE OrderInv'
  <2>1. Trail' = Trail
    BY <1>3, OtherTrail
  <2>2. ASSUME NEW w \in Writers, Stamp(w) \/ Direct(w) PROVE OrderInv'
    BY <2>1, <2>2, StampOrder, DirectOrder
  <2>3. ASSUME /\ UNCHANGED <<written, lines, line>>
               /\ \A w \in Writers : wpc[w] # "out" <=> wpc'[w] # "out"
        PROVE  OrderInv'
    BY <2>1, <2>3 DEF OrderInv, NewestInHand, Newest, TrailInOrder, TrailBehindWritten, Numbered,
       WriterOrder
  <2>4. ASSUME NEW w \in Writers, CountLine(w) \/ Choose(w)
        PROVE  \A v \in Writers : wpc[v] # "out" <=> wpc'[v] # "out"
    BY <2>4 DEF CountLine, Choose, Goto, WayInv, ThreadType
  <2> QED
    BY <1>3, <2>2, <2>3, <2>4 DEF Next, Midnight, LogSpurious, LogLoop, LogPop, Write, CountLine,
       Choose, writerVars, vars
<1> QED
  BY <1>1, <1>2, <1>3

\* The lines of a thread that go the same way, through the queue or past it,
\* come into the files in the order it wrote them (log.cpp 156), whatever the
\* other threads and the log thread do, and although the queue is looked at
\* and filled under two locks.
THEOREM LinesInOrder == Spec => []WriterOrder
<1>1. Init => WayInv /\ FileInv /\ OrderInv
  BY WayInit, FileInit, OrderInit
<1>2. WayInv /\ FileInv /\ OrderInv /\ [Next]_vars => WayInv' /\ FileInv' /\ OrderInv'
  BY WayStep, FileStep, OrderStep
<1>3. OrderInv => WriterOrder
  BY DEF OrderInv
<1> QED
  BY <1>1, <1>2, <1>3, PTL DEF Spec

-----------------------------------------------------------------------------
(***************************************************************************)
(* A line is in one place. That it is never in two follows from the order  *)
(* above; that it is in one needs the queue not to be full for a writer    *)
(* that has found it not full, and this holds as long as no two writers    *)
(* are between full() and push.                                            *)
(***************************************************************************)

OnceInv ==
  /\ \A i, j \in DOMAIN written : i # j => written[i].line # written[j].line
  /\ \A i \in DOMAIN written, j \in DOMAIN Trail : written[i].line # Trail[j]

InHand(l) == \E w \in Writers : wpc[w] # "out" /\ line[w] = l
OnTrail(l) == \E j \in DOMAIN Trail : Trail[j] = l
InFile(l) == \E i \in DOMAIN written : written[i].line = l

RoomForPush ==
  ~raced => \A w \in Writers : wpc[w] = "push" =>
              ~LQ!full /\ \A v \in Writers : wpc[v] = "push" => v = w

NoneLost == ~raced => \A l \in Range(lines) : InHand(l) \/ OnTrail(l) \/ InFile(l)

\* A line in the hands of its writer is nowhere else.
LEMMA HandOnly ==
  ASSUME WayInv, FileInv, OrderInv, NEW l, InHand(l) PROVE ~OnTrail(l) /\ ~InFile(l)
<1>1. PICK w \in Writers : wpc[w] # "out" /\ line[w] = l
  BY DEF InHand
<1>2. l \in Lines /\ l.n \in Nat /\ Newest(l)
  BY <1>1, Places DEF WayInv, OwnLine, OrderInv, NewestInHand
<1>3. ~(l.n < l.n)
  BY <1>2
<1> QED
  BY <1>2, <1>3 DEF Newest, Earlier, OnTrail, InFile

LEMMA TrailDistinct ==
  ASSUME WayInv, FileInv, OrderInv, NEW i \in DOMAIN Trail, NEW j \in DOMAIN Trail, i # j
  PROVE  Trail[i] # Trail[j]
<1>1. i \in Nat /\ j \in Nat /\ Trail[i].n \in Nat
  BY Places DEF WayInv
<1>2. i < j \/ j < i
  BY <1>1
<1> QED
  BY <1>1, <1>2 DEF OrderInv, TrailInOrder, Earlier

LEMMA OnceStep ==
  ASSUME WayInv, FileInv, OrderInv, OnceInv, [Next]_vars PROVE OnceInv'
<1>1. ASSUME NEW w \in Writers, Push(w) PROVE OnceInv'
  <2>1. written' = written /\ InHand(line[w]) /\ line[w] \in Lines
    BY <1>1 DEF Push, InHand, WayInv, OwnLine
  <2>2. ~InFile(line[w])
    BY <2>1, HandOnly
  <2>3. \A j \in DOMAIN Trail' :
          \/ j \in DOMAIN Trail /\ Trail'[j] = Trail[j]
          \/ Trail'[j] = line[w]
    BY <1>1, <2>1, PushTrail, AppendMembers DEF WayInv
  <2> QED
    BY <2>1, <2>2, <2>3 DEF OnceInv, InFile
<1>2. ASSUME NEW w \in Writers, Direct(w) PROVE OnceInv'
  <2>1. InHand(line[w]) /\ line[w] \in Lines /\ Put(line[w], w)
    BY <1>2 DEF Direct, InHand, WayInv, OwnLine
  <2>2. ~OnTrail(line[w]) /\ ~InFile(line[w])
    BY <2>1, HandOnly
  <2>3. Trail' = Trail
    BY <1>2, StillTrail DEF Direct
  <2> QED
    BY <2>1, <2>2, <2>3, PutMembers DEF OnceInv, OnTrail, InFile
<1>3. ASSUME LogWrite PROVE OnceInv'
  <2>1. /\ 1 \in DOMAIN Trail /\ value[LogThread] = Trail[1] /\ Trail[1] \in Lines
        /\ Put(Trail[1], LogThread)
    BY <1>3, WriteTrail, TailMembers DEF LogWrite, WayInv
  <2>2. \A j \in DOMAIN Trail' : j + 1 \in DOMAIN Trail /\ 1 # j + 1 /\ Trail'[j] = Trail[j + 1]
    BY <1>3, WriteTrail, TailMembers DEF WayInv
  <2>3. \A i \in DOMAIN written :
          written[i].line # Trail[1] /\ \A j \in DOMAIN Trail' : written[i].line # Trail'[j]
    BY <2>1, <2>2 DEF OnceInv
  <2>4. \A j \in DOMAIN Trail' : Trail'[j] # Trail[1]
    BY <2>1, <2>2, TrailDistinct
  <2> QED
    BY <2>1, <2>3, <2>4, PutMembers DEF OnceInv
<1>4. ASSUME ~LogWrite, \A w \in Writers : ~Push(w) /\ ~Direct(w) PROVE OnceInv'
  <2>1. Trail' = Trail
    BY <1>4, OtherTrail
  <2>2. written' = written
    BY <1>4 DEF Next, Midnight, LogSpurious, LogLoop, LogPop, Write, Stamp, CountLine, Choose, vars
  <2> QED
    BY <2>1, <2>2 DEF OnceInv
<1> QED
  BY <1>1, <1>2, <1>3, <1>4

\* The queue can be filled by the writer alone that found room in it.
LEMMA RoomStep == ASSUME WayInv, RoomForPush, [Next]_vars PROVE RoomForPush'
<1>1. m_size \in Nat
  BY SizeAssumption DEF WayInv, BP!RingInv, BP!Inv, BP!TypeOK
<1>2. ASSUME UNCHANGED <<m_size, wpc, raced>> PROVE RoomForPush'
  BY <1>2 DEF RoomForPush, LQ!full
<1>3. ASSUME NEW w \in Writers, Stamp(w) \/ CountLine(w) \/ Direct(w) PROVE RoomForPush'
  <2>1. \A v \in Writers : wpc'[v] = "push" => wpc[v] = "push"
    BY <1>3 DEF Stamp, CountLine, Direct, Return, Goto, WayInv, ThreadType
  <2>2. UNCHANGED <<m_size, raced>>
    BY <1>3 DEF Stamp, CountLine, Direct, queueVars
  <2> QED
    BY <2>1, <2>2 DEF RoomForPush, LQ!full
<1>4. ASSUME NEW w \in Writers, Choose(w) PROVE RoomForPush'
  <2>1. /\ \A v \in Writers \ {w} : wpc'[v] = wpc[v]
        /\ wpc'[w] = "push" => ~LQ!full
        /\ raced' = (raced \/ Pushing(wpc')) /\ m_size' = m_size
    BY <1>4 DEF Choose, Goto, WayInv, ThreadType, queueVars
  <2> QED
    BY <2>1 DEF RoomForPush, LQ!full, Pushing
<1>5. ASSUME NEW w \in Writers, Push(w) PROVE RoomForPush'
  <2>1. wpc[w] = "push" /\ raced' = raced /\ wpc'[w] = "out"
        /\ \A v \in Writers \ {w} : wpc'[v] = wpc[v]
    BY <1>5 DEF Push, Return, Goto, WayInv, ThreadType
  <2> QED
    BY <2>1 DEF RoomForPush
<1>6. ASSUME LogPop \/ LogSpurious PROVE RoomForPush'
  <2>1. wpc' = wpc /\ raced' = raced
    BY <1>6 DEF LogPop, LogSpurious, writerVars
  <2>2. m_size' = m_size \/ m_size' = m_size - 1
    BY <1>6 DEF LogPop, LogSpurious, LQ!pop, LQ!popWoken, LQ!TakeFront, LQ!ReturnFalse, LQ!ring,
       LQ!SpuriousWakeup
  <2>3. LQ!full' => LQ!full
    BY <1>1, <2>2, SizeAssumption DEF LQ!full
  <2> QED
    BY <2>1, <2>3 DEF RoomForPush
<1> QED
  BY <1>2, <1>3, <1>4, <1>5, <1>6 DEF Next, Midnight, LogLoop, LogWrite, Write, writerVars,
     queueVars, vars

LEMMA LostStep ==
  ASSUME WayInv, FileInv, RoomForPush, NoneLost, [Next]_vars PROVE NoneLost'
<1> SUFFICES ASSUME ~raced', NEW l \in Range(lines')
             PROVE  InHand(l)' \/ OnTrail(l)' \/ InFile(l)'
  BY DEF NoneLost
<1>1. ~raced
  BY DEF Next, Midnight, LogSpurious, LogLoop, LogPop, LogWrite, Write, Stamp, CountLine, Choose,
     Push, Direct, vars, WayInv, ThreadType
<1>2. ASSUME NEW w \in Writers, Stamp(w) PROVE InHand(l)' \/ OnTrail(l)' \/ InFile(l)'
  <2>1. Trail' = Trail /\ written' = written
    BY <1>2, StillTrail DEF Stamp
  <2>2. PICK x \in Lines :
          /\ line' = [line EXCEPT ![w] = x] /\ lines' = Append(lines, x)
          /\ wpc[w] = "out" /\ wpc' = [wpc EXCEPT ![w] = "count"]
    BY <1>2, StampedLine DEF Stamp
  <2>3. /\ line'[w] = x /\ wpc'[w] = "count"
        /\ \A v \in Writers \ {w} : wpc'[v] = wpc[v] /\ line'[v] = line[v]
    BY <2>2 DEF WayInv, ThreadType
  <2>4. l \in Range(lines) \/ l = x
    BY <2>2, AppendMembers DEF Range, WayInv, ThreadType
  <2>5. CASE l = x
    BY <2>3, <2>5 DEF InHand
  <2>6. CASE l \in Range(lines)
    <3>1. InHand(l) \/ OnTrail(l) \/ InFile(l)
      BY <1>1, <2>6 DEF NoneLost
    <3> QED
      BY <2>1, <2>2, <2>3, <3>1 DEF InHand, OnTrail, InFile
  <2> QED
    BY <2>4, <2>5, <2>6
<1>3. ASSUME lines' = lines PROVE InHand(l) \/ OnTrail(l) \/ InFile(l)
  BY <1>1, <1>3 DEF NoneLost
<1>4. ASSUME NEW w \in Writers, Push(w) PROVE InHand(l)' \/ OnTrail(l)' \/ InFile(l)'
  <2>1. InHand(l) \/ OnTrail(l) \/ InFile(l)
    BY <1>3, <1>4 DEF Push
  <2>2. PICK x \in Lines : x = line[w]
    BY <1>4 DEF Push, WayInv, OwnLine
  <2>3. /\ ~LQ!full /\ written' = written
        /\ \A v \in Writers \ {w} : wpc'[v] = wpc[v] /\ line'[v] = line[v]
    BY <1>1, <1>4 DEF Push, Return, Goto, RoomForPush, WayInv, ThreadType
  <2>4. Trail' = Append(Trail, x)
    BY <1>4, <2>2, <2>3, PushTrail
  <2>5. OnTrail(x)' /\ (OnTrail(l) => OnTrail(l)')
    BY <2>2, <2>4, AppendMembers DEF OnTrail, WayInv
  <2>6. InHand(l) => l = x \/ InHand(l)'
    BY <2>2, <2>3 DEF InHand
  <2> QED
    BY <2>1, <2>3, <2>5, <2>6 DEF InFile
<1>5. ASSUME NEW w \in Writers, Direct(w) PROVE InHand(l)' \/ OnTrail(l)' \/ InFile(l)'
  <2>1. InHand(l) \/ OnTrail(l) \/ InFile(l)
    BY <1>3, <1>5 DEF Direct
  <2>2. PICK x \in Lines : x = line[w]
    BY <1>5 DEF Direct, WayInv, OwnLine
  <2>3. Put(x, w) /\ \A v \in Writers \ {w} : wpc'[v] = wpc[v] /\ line'[v] = line[v]
    BY <1>5, <2>2 DEF Direct, Return, Goto, WayInv, ThreadType
  <2>4. Trail' = Trail
    BY <1>5, StillTrail DEF Direct
  <2>5. InFile(x)' /\ (InFile(l) => InFile(l)')
    BY <2>3, PutMembers DEF InFile
  <2>6. InHand(l) => l = x \/ InHand(l)'
    BY <2>2, <2>3 DEF InHand
  <2> QED
    BY <2>1, <2>4, <2>5, <2>6 DEF OnTrail
<1>6. ASSUME LogWrite PROVE InHand(l)' \/ OnTrail(l)' \/ InFile(l)'
  <2>1. InHand(l) \/ OnTrail(l) \/ InFile(l)
    BY <1>3, <1>6 DEF LogWrite, writerVars
  <2>2. PICK x \in Lines : x = Trail[1] /\ Put(x, LogThread) /\ UNCHANGED <<wpc, line>>
    BY <1>6, WriteTrail, TailMembers DEF LogWrite, WayInv, writerVars
  <2>3. InFile(x)' /\ (InFile(l) => InFile(l)')
    BY <2>2, PutMembers DEF InFile
  <2>4. OnTrail(l) => l = x \/ OnTrail(l)'
    BY <1>6, <2>2, WriteTrail, TailMembers DEF OnTrail, WayInv
  <2> QED
    BY <2>1, <2>2, <2>3, <2>4 DEF InHand
<1>7. ASSUME \A w \in Writers : ~Stamp(w) /\ ~Push(w) /\ ~Direct(w), ~LogWrite
      PROVE InHand(l)' \/ OnTrail(l)' \/ InFile(l)'
  <2>1. Trail' = Trail
    BY <1>7, OtherTrail
  <2>2. UNCHANGED <<written, lines, line>>
    BY <1>7 DEF Next, Midnight, LogSpurious, LogLoop, LogPop, Write, CountLine, Choose, writerVars,
       vars
  <2>3. \A w \in Writers : wpc[w] # "out" => wpc'[w] # "out"
    BY <1>7 DEF Next, Midnight, LogSpurious, LogLoop, LogPop, Write, CountLine, Choose, Goto,
       writerVars, vars, WayInv, ThreadType
  <2> QED
    BY <1>3, <1>7, <2>1, <2>2, <2>3 DEF InHand, OnTrail, InFile
<1> QED
  BY <1>2, <1>4, <1>5, <1>6, <1>7

\* Sets with at most one member.
LEMMA AtMostOne ==
  ASSUME NEW S, \A x, y \in S : x = y
  PROVE  Cardinality(S) = IF S = {} THEN 0 ELSE 1
<1>1. S = {} \/ \E x : S = {x}
  OBVIOUS
<1> QED
  BY <1>1, FS_EmptySet, FS_Singleton

\* The places of the trail are the line in the hands of the log thread and the
\* places of the queue.
LEMMA TrailPlaces ==
  ASSUME WayInv
  PROVE  /\ lpc # "write" =>
              DOMAIN Trail = 1..m_size /\ \A k \in 1..m_size : Trail[k] = LQ!Queued[k]
         /\ lpc = "write" =>
              /\ 1 \in DOMAIN Trail /\ Trail[1] = value[LogThread]
              /\ \A k \in 1..m_size : k + 1 \in DOMAIN Trail /\ Trail[k + 1] = LQ!Queued[k]
              /\ \A j \in DOMAIN Trail : j = 1 \/ j - 1 \in 1..m_size
         /\ m_size \in Nat
<1>1. LQ!Queued \in Seq(Lines) /\ Len(LQ!Queued) = m_size /\ m_size \in Nat
  BY SizeAssumption, LineAssumption, SameQueue, QueueOfLines, BP!QueuedSeq
  DEF WayInv, BP!RingInv, BP!Inv
<1>2. CASE lpc # "write"
  BY <1>1, <1>2, SameQueue, Cons DEF Trail, Popped
<1>3. CASE lpc = "write"
  <2>1. value[LogThread] \in Lines /\ Trail = <<value[LogThread]>> \o LQ!Queued
    BY <1>3, SameQueue, QueueOfLines DEF WayInv, Trail, Popped
  <2> QED
    BY <1>1, <1>3, <2>1
<1> QED
  BY <1>1, <1>2, <1>3

\* Copies counts the hand, the trail and the files, each at most once.
LEMMA CopiesCount ==
  ASSUME WayInv, FileInv, OrderInv, OnceInv, NEW l \in Lines
  PROVE  Copies(l) = (IF InHand(l) THEN 1 ELSE 0) + (IF OnTrail(l) THEN 1 ELSE 0)
                       + (IF InFile(l) THEN 1 ELSE 0)
<1> DEFINE H == {w \in Writers : line[w] = l}
           Q == {k \in 1..m_size : LQ!Queued[k] = l}
           F == {k \in DOMAIN written : written[k].line = l}
<1>1. Cardinality(H) = IF InHand(l) THEN 1 ELSE 0
  <2>1. \A w \in H : wpc[w] # "out" /\ l.by = w
    BY LineAssumption DEF WayInv, OwnLine
  <2>2. InHand(l) <=> H # {}
    BY <2>1 DEF InHand
  <2> QED
    BY <2>1, <2>2, AtMostOne
<1>2. Cardinality(F) = IF InFile(l) THEN 1 ELSE 0
  <2>1. \A i, j \in F : i = j
    BY DEF OnceInv
  <2>2. InFile(l) <=> F # {}
    BY DEF InFile
  <2> QED
    BY <2>1, <2>2, AtMostOne
<1>3. Cardinality(Q) + (IF lpc = "write" /\ value[LogThread] = l THEN 1 ELSE 0)
        = IF OnTrail(l) THEN 1 ELSE 0
  <2>1. CASE lpc # "write"
    <3>1. \A i, j \in Q : i = j
      BY <2>1, TrailPlaces, TrailDistinct
    <3>2. OnTrail(l) <=> Q # {}
      BY <2>1, TrailPlaces DEF OnTrail
    <3> QED
      BY <2>1, <3>1, <3>2, AtMostOne
  <2>2. CASE lpc = "write"
    <3>1. \A i, j \in Q : i = j
      <4>1. ASSUME NEW i \in Q, NEW j \in Q PROVE ~(i + 1 # j + 1)
        BY <2>2, TrailPlaces, TrailDistinct
      <4> QED
        BY <4>1, TrailPlaces
    <3>2. value[LogThread] = l => Q = {}
      <4>1. ASSUME value[LogThread] = l, NEW k \in Q PROVE ~(k + 1 # 1)
        BY <2>2, <4>1, TrailPlaces, TrailDistinct
      <4> QED
        BY <4>1, TrailPlaces
    <3>3. OnTrail(l) <=> value[LogThread] = l \/ Q # {}
      <4>1. ASSUME OnTrail(l), value[LogThread] # l PROVE Q # {}
        <5>1. PICK j \in DOMAIN Trail : Trail[j] = l
          BY <4>1 DEF OnTrail
        <5>2. j \in Int /\ j - 1 \in 1..m_size /\ (j - 1) + 1 = j
          BY <2>2, <4>1, <5>1, TrailPlaces DEF WayInv
        <5>3. LQ!Queued[j - 1] = l
          BY <2>2, <5>1, <5>2, TrailPlaces
        <5> QED
          BY <5>2, <5>3
      <4>2. value[LogThread] = l \/ Q # {} => OnTrail(l)
        BY <2>2, TrailPlaces DEF OnTrail
      <4> QED
        BY <4>1, <4>2
    <3> QED
      BY <2>2, <3>1, <3>2, <3>3, AtMostOne
  <2> QED
    BY <2>1, <2>2
<1>4. Cardinality(Q) \in Int
  <2>1. Q \subseteq 1..m_size /\ IsFiniteSet(1..m_size)
    BY TrailPlaces, FS_Interval
  <2>2. IsFiniteSet(Q)
    BY <2>1, FS_Subset
  <2> HIDE DEF Q
  <2> QED
    BY <2>2, FS_CardinalityType
<1> QED
  BY <1>1, <1>2, <1>3, <1>4 DEF Copies

LEMMA OnceInit == Init => OnceInv /\ RoomForPush /\ NoneLost
<1> SUFFICES ASSUME Init PROVE OnceInv /\ RoomForPush /\ NoneLost
  OBVIOUS
<1>1. DOMAIN written = {} /\ Range(lines) = {}
  BY DEF Init, Range
<1>2. \A w \in Writers : wpc[w] = "out"
  BY DEF Init
<1> QED
  BY <1>1, <1>2 DEF OnceInv, RoomForPush, NoneLost

\* "If asynchronous, put the line into the queue; else write it to the file"
\* (log.cpp 156): a line is in one place, with its writer, in the queue, with
\* the log thread or in a file, and never in two; and unless two writers have
\* been between full() and push at the same time, none is lost.
THEOREM LinesOnce == Spec => []EveryLineOnce
<1> DEFINE IInv == WayInv /\ FileInv /\ OrderInv /\ OnceInv /\ RoomForPush /\ NoneLost
<1>1. Init => IInv
  BY WayInit, FileInit, OrderInit, OnceInit
<1>2. IInv /\ [Next]_vars => IInv'
  BY WayStep, FileStep, OrderStep, OnceStep, RoomStep, LostStep
<1>3. IInv => EveryLineOnce
  <2> SUFFICES ASSUME IInv, NEW l \in Range(lines)
               PROVE  Copies(l) <= 1 /\ (raced \/ Copies(l) = 1)
    BY DEF EveryLineOnce
  <2>1. l \in Lines
    BY DEF Range, WayInv, ThreadType
  <2>2. OnTrail(l) => ~InFile(l)
    BY DEF OnceInv, OnTrail, InFile
  <2>3. InHand(l) => ~OnTrail(l) /\ ~InFile(l)
    BY HandOnly
  <2>4. raced \/ InHand(l) \/ OnTrail(l) \/ InFile(l)
    BY DEF NoneLost
  <2> QED
    BY <2>1, <2>2, <2>3, <2>4, CopiesCount
<1> QED
  BY <1>1, <1>2, <1>3, PTL DEF Spec

-----------------------------------------------------------------------------
(***************************************************************************)
(* What a file holds on the first day. The lines that have been counted    *)
(* and are not in a file are with a writer, in the queue or with the log   *)
(* thread. With those in the files they are no more than m_count, and with *)
(* those of the current file no more than its part of m_count and what may *)
(* have been on its way when it was opened. No line is in a file that is   *)
(* yet to be opened.                                                       *)
(***************************************************************************)

Counted == {w \in Writers : wpc[w] \in {"choose", "push", "direct"}}
Underway == Len(Trail) + Cardinality(Counted)
Spare == m_max_size + Cardinality(Writers) + 1

FileRight(f) ==
  /\ Held(f) <= (f.suffix + 1) * m_split_lines - 1
  /\ Held(f) < m_split_lines + Spare
  /\ f.suffix > m_count \div m_split_lines => Held(f) = 0

FirstDay ==
  /\ m_today = 1 /\ m_fp = File(1, m_count \div m_split_lines)
  /\ \A w \in Writers : wpc[w] # "out" => line[w].day = 1
  /\ Len(written) + Underway <= m_count
  /\ Held(m_fp) + Underway <= (m_count % m_split_lines) + Spare
  /\ \A f \in Files : FileRight(f)

DayInv == today = 1 => FirstDay

LEMMA CountUp ==
  ASSUME NEW c \in Nat, NEW s \in Nat \ {0}
  PROVE  /\ c % s \in 0..(s - 1) /\ c \div s \in Nat
         /\ IF (c + 1) % s = 0 THEN (c + 1) \div s = c \div s + 1
            ELSE (c + 1) \div s = c \div s /\ (c + 1) % s = (c % s) + 1
         /\ c <= (c \div s + 1) * s - 1
<1> DEFINE q == c \div s
           r == c % s
           p == (c + 1) \div s
           t == (c + 1) % s
<1>1. q \in Nat /\ p \in Nat /\ r \in 0..(s - 1) /\ t \in 0..(s - 1)
  OBVIOUS
<1>2. c = s * q + r /\ c + 1 = s * p + t
  OBVIOUS
<1>3. p \in q..(q + 1)
  <2> HIDE DEF q, p, r, t
  <2>1. ~(p >= q + 2)
    <3> SUFFICES ASSUME p >= q + 2 PROVE FALSE
      OBVIOUS
    <3>1. s * p >= s * (q + 2) /\ s * (q + 2) = s * q + s + s
      BY <1>1
    <3> QED
      BY <1>1, <1>2, <3>1
  <2>2. ~(q >= p + 1)
    <3> SUFFICES ASSUME q >= p + 1 PROVE FALSE
      OBVIOUS
    <3>1. s * q >= s * (p + 1) /\ s * (p + 1) = s * p + s
      BY <1>1
    <3> QED
      BY <1>1, <1>2, <3>1
  <2> QED
    BY <1>1, <2>1, <2>2
<1>4. IF t = 0 THEN p = q + 1 ELSE p = q /\ t = r + 1
  <2> HIDE DEF q, p, r, t
  <2>1. CASE p = q
    <3>1. t = r + 1
      BY <1>1, <1>2, <2>1
    <3> QED
      BY <1>1, <2>1, <3>1
  <2>2. CASE p = q + 1
    <3>1. s * p = s * q + s
      BY <1>1, <2>2
    <3>2. r + 1 = s + t
      BY <1>1, <1>2, <3>1
    <3> QED
      BY <1>1, <2>2, <3>2
  <2> QED
    BY <1>1, <1>3, <2>1, <2>2
<1>5. c <= (q + 1) * s - 1
  <2> HIDE DEF q, p, r, t
  <2>1. (q + 1) * s = s * q + s
    BY <1>1
  <2> QED
    BY <1>1, <1>2, <2>1
<1> QED
  BY <1>1, <1>4, <1>5

LEMMA HeldNat ==
  ASSUME FileInv, NEW f PROVE Held(f) \in Nat /\ Held(f) <= Len(written)
<1>1. {i \in DOMAIN written : written[i].file = f} \subseteq 1..Len(written)
  BY DEF FileInv
<1>2. IsFiniteSet(1..Len(written)) /\ Cardinality(1..Len(written)) = Len(written)
  BY FS_Interval DEF FileInv
<1>3. /\ IsFiniteSet({i \in DOMAIN written : written[i].file = f})
      /\ Cardinality({i \in DOMAIN written : written[i].file = f}) <= Len(written)
  BY <1>1, <1>2, FS_Subset
<1> QED
  BY <1>3, FS_CardinalityType DEF Held

\* Writing a line adds it to the current file and to no other.
LEMMA HeldPut ==
  ASSUME FileInv, NEW l \in Lines, NEW t \in Writers \cup {LogThread}, Put(l, t), NEW f
  PROVE  Held(f)' = IF f = m_fp THEN Held(f) + 1 ELSE Held(f)
<1> DEFINE new == [line |-> l, file |-> m_fp, thread |-> t]
           n == Len(written) + 1
           before == {i \in DOMAIN written : written[i].file = f}
           after == {i \in DOMAIN written' : written'[i].file = f}
<1>1. written' = Append(written, new) /\ new \in Entries
  BY DEF Put, FileInv, Entries
<1>2. /\ DOMAIN written' = 1..n /\ DOMAIN written = 1..Len(written) /\ Len(written) \in Nat
      /\ \A i \in DOMAIN written : written'[i] = written[i]
      /\ written'[n] = new
  BY <1>1, AppendMembers DEF FileInv
<1>3. n \notin before /\ IsFiniteSet(before)
  <2>1. before \subseteq 1..Len(written) /\ n \notin 1..Len(written)
    BY <1>2
  <2>2. IsFiniteSet(1..Len(written))
    BY <1>2, FS_Interval
  <2> QED
    BY <2>1, <2>2, FS_Subset
<1>4. CASE f = m_fp
  <2>1. after = before \cup {n}
    BY <1>2, <1>4
  <2> QED
    BY <1>3, <1>4, <2>1, FS_AddElement DEF Held
<1>5. CASE f # m_fp
  <2>1. after = before
    BY <1>2, <1>5
  <2> QED
    BY <1>5, <2>1 DEF Held
<1> QED
  BY <1>4, <1>5

UnderwayRight == Underway \in Nat /\ Underway <= Spare /\ Spare \in Nat

LEMMA UnderwayNat == ASSUME WayInv PROVE UnderwayRight
<1>1. /\ IsFiniteSet(Counted) /\ Cardinality(Counted) \in Nat /\ Cardinality(Writers) \in Nat
      /\ Cardinality(Counted) <= Cardinality(Writers)
  <2>1. Counted \subseteq Writers
    BY DEF Counted
  <2> QED
    BY <2>1, WritersAssumption, FS_Subset, FS_CardinalityType
<1>2. Len(Trail) \in Nat /\ Len(Trail) <= m_max_size + 1
  <2>1. BP!Queued \in Seq(Lines) /\ Len(BP!Queued) = m_size /\ m_size \in Nat /\ m_size <= m_max_size
    BY QueueOfLines, SizeAssumption, LineAssumption, BP!QueuedSeq DEF WayInv, BP!RingInv, BP!Inv
  <2>2. Popped \in Seq(Lines) /\ Len(Popped) <= 1
    BY QueueOfLines DEF WayInv, Popped
  <2>3. Len(Trail) = Len(Popped) + Len(BP!Queued) /\ Len(Popped) \in Nat
    BY <2>1, <2>2 DEF Trail
  <2> QED
    BY <2>1, <2>2, <2>3, SizeAssumption
<1> QED
  BY <1>1, <1>2, SizeAssumption DEF Underway, Spare, UnderwayRight

\* So it is after a step.
LEMMA UnderwayNext == WayInv' => UnderwayRight'
<1>1. WayInv => UnderwayRight
  BY UnderwayNat
<1> QED
  BY <1>1, PTL

\* Who has counted a line and not yet given it away.
LEMMA CountedStep ==
  ASSUME WayInv, [Next]_vars
  PROVE  /\ \A w \in Writers :
              /\ CountLine(w) => Cardinality(Counted') = Cardinality(Counted) + 1
              /\ Push(w) \/ Direct(w) => Cardinality(Counted') = Cardinality(Counted) - 1
         /\ (\A w \in Writers : ~CountLine(w) /\ ~Push(w) /\ ~Direct(w)) => Counted' = Counted
         /\ Cardinality(Counted) \in Nat
<1>1. IsFiniteSet(Counted) /\ Cardinality(Counted) \in Nat
  <2>1. Counted \subseteq Writers
    BY DEF Counted
  <2> QED
    BY <2>1, WritersAssumption, FS_Subset, FS_CardinalityType
<1>2. ASSUME NEW w \in Writers, CountLine(w)
      PROVE  Cardinality(Counted') = Cardinality(Counted) + 1
  <2>1. wpc[w] = "count" /\ wpc' = [wpc EXCEPT ![w] = "choose"]
    BY <1>2 DEF CountLine, Goto
  <2>2. w \notin Counted /\ Counted' = Counted \cup {w}
    BY <2>1 DEF Counted, WayInv, ThreadType
  <2> QED
    BY <1>1, <2>2, FS_AddElement
<1>3. ASSUME NEW w \in Writers, Push(w) \/ Direct(w)
      PROVE  Cardinality(Counted') = Cardinality(Counted) - 1
  <2>1. wpc[w] \in {"push", "direct"} /\ wpc' = [wpc EXCEPT ![w] = "out"]
    BY <1>3 DEF Push, Direct, Return, Goto
  <2>2. w \in Counted /\ Counted' = Counted \ {w}
    BY <2>1 DEF Counted, WayInv, ThreadType
  <2> QED
    BY <1>1, <2>2, FS_RemoveElement
<1>4. ASSUME \A w \in Writers : ~CountLine(w) /\ ~Push(w) /\ ~Direct(w) PROVE Counted' = Counted
  <2>1. CASE UNCHANGED wpc
    BY <2>1 DEF Counted
  <2>2. ASSUME NEW w \in Writers, Stamp(w) \/ Choose(w) PROVE Counted' = Counted
    BY <2>2 DEF Stamp, Choose, Goto, Counted, WayInv, ThreadType
  <2> QED
    BY <1>4, <2>1, <2>2 DEF Next, Midnight, LogSpurious, LogLoop, LogPop, LogWrite, Write,
       writerVars, vars
<1> QED
  BY <1>1, <1>2, <1>3, <1>4

\* Counting a line adds it to those under way, writing it takes it off.
LEMMA UnderwayStep ==
  ASSUME WayInv, [Next]_vars
  PROVE  /\ \A w \in Writers : CountLine(w) => Underway' = Underway + 1
         /\ (LogWrite \/ \E w \in Writers : Direct(w)) => Underway' = Underway - 1
         /\ (~LogWrite /\ \A w \in Writers : ~CountLine(w) /\ ~Direct(w))
              => Underway' <= Underway
<1>1. Trail \in Seq(Lines) /\ Len(Trail) \in Nat
  BY DEF WayInv
<1>2. ASSUME NEW w \in Writers, CountLine(w) PROVE Underway' = Underway + 1
  <2>1. Trail' = Trail
    BY <1>2, StillTrail DEF CountLine
  <2>2. Cardinality(Counted') = Cardinality(Counted) + 1 /\ Cardinality(Counted) \in Nat
    BY <1>2, CountedStep
  <2> QED
    BY <1>1, <2>1, <2>2 DEF Underway
<1>3. ASSUME NEW w \in Writers, Direct(w) PROVE Underway' = Underway - 1
  <2>1. Trail' = Trail
    BY <1>3, StillTrail DEF Direct
  <2>2. Cardinality(Counted') = Cardinality(Counted) - 1 /\ Cardinality(Counted) \in Nat
    BY <1>3, CountedStep
  <2> QED
    BY <1>1, <2>1, <2>2 DEF Underway
<1>4. ASSUME LogWrite PROVE Underway' = Underway - 1
  <2>1. Counted' = Counted /\ Cardinality(Counted) \in Nat
    BY <1>4, CountedStep DEF LogWrite, Counted, writerVars
  <2>2. Len(Trail') = Len(Trail) - 1
    BY <1>1, <1>4, WriteTrail
  <2> QED
    BY <1>1, <2>1, <2>2 DEF Underway
<1>5. ASSUME NEW w \in Writers, Push(w) PROVE Underway' <= Underway
  <2>1. Cardinality(Counted') = Cardinality(Counted) - 1 /\ Cardinality(Counted) \in Nat
    BY <1>5, CountedStep
  <2>2. line[w] \in Lines
    BY <1>5 DEF Push, WayInv, OwnLine
  <2>3. Len(Trail') <= Len(Trail) + 1 /\ Len(Trail') \in Nat
    BY <1>1, <1>5, <2>2, PushTrail
  <2> QED
    BY <1>1, <2>1, <2>3 DEF Underway
<1>6. ASSUME ~LogWrite, \A w \in Writers : ~CountLine(w) /\ ~Direct(w) /\ ~Push(w)
      PROVE  Underway' <= Underway
  <2>1. Trail' = Trail /\ Counted' = Counted
    BY <1>6, OtherTrail, CountedStep
  <2> QED
    BY <2>1, UnderwayNat DEF Underway, UnderwayRight
<1> QED
  BY <1>2, <1>3, <1>4, <1>5, <1>6

LEMMA FilesDay == \A f \in Files : f.day \in Nat /\ f.suffix \in Nat
<1>1. Days \subseteq Nat /\ 0..(MaxLines \div m_split_lines) \subseteq Nat
  BY BoundsAssumption DEF Days
<1> QED
  BY <1>1 DEF Files

\* m_count is a natural number, and the file open on the first day is the one
\* its turn is for.
LEMMA CountParts ==
  ASSUME FileInv
  PROVE  /\ m_count \in Nat /\ Len(written) \in Nat /\ m_split_lines \in Nat \ {0}
         /\ m_count % m_split_lines \in 0..(m_split_lines - 1) /\ m_count \div m_split_lines \in Nat
         /\ m_count <= (m_count \div m_split_lines + 1) * m_split_lines - 1
         /\ \A k \in Nat : (k + 1) * m_split_lines - 1 \in Nat
<1>1. m_count \in Nat /\ m_split_lines \in Nat \ {0} /\ Len(written) \in Nat
  BY SplitAssumption DEF FileInv
<1>2. ASSUME NEW k \in Nat PROVE (k + 1) * m_split_lines - 1 \in Nat
  <2>1. (k + 1) * m_split_lines = k * m_split_lines + m_split_lines /\ k * m_split_lines \in Nat
    BY <1>1
  <2> QED
    BY <1>1, <2>1
<1> QED
  BY <1>1, <1>2, CountUp

LEMMA DayInit == Init => DayInv
<1> SUFFICES ASSUME Init PROVE FirstDay
  BY DEF DayInv
<1>1. DOMAIN written = {} /\ Len(written) = 0 /\ \A w \in Writers : wpc[w] = "out"
  BY DEF Init
<1>2. \A f : Held(f) = 0
  BY <1>1, FS_EmptySet DEF Held
<1>3. m_count = 0 /\ m_count \div m_split_lines = 0 /\ m_count % m_split_lines = 0
  BY SplitAssumption DEF Init
<1>4. Underway = 0
  <2>1. Counted = {} /\ Cardinality(Counted) = 0
    BY <1>1, FS_EmptySet DEF Counted
  <2>2. Trail = <<>>
    BY DEF Init, LQ!Init, Trail, Popped, BP!Queued
  <2> QED
    BY <2>1, <2>2 DEF Underway
<1>5. Spare \in Nat
  BY WayInit, UnderwayNat DEF UnderwayRight
<1>6. ASSUME NEW f \in Files PROVE FileRight(f)
  <2> DEFINE turn == (f.suffix + 1) * m_split_lines - 1
  <2>1. turn \in Nat /\ m_split_lines \in Nat \ {0}
    BY FilesDay, CountParts, FileInit
  <2> HIDE DEF turn
  <2>2. Held(f) <= turn /\ Held(f) < m_split_lines + Spare /\ Held(f) = 0
    BY <1>2, <1>5, <2>1
  <2> QED
    BY <2>2 DEF turn, FileRight
<1>7. m_today = 1 /\ m_fp = File(1, 0)
  BY DEF Init
<1> QED
  BY <1>1, <1>2, <1>3, <1>4, <1>5, <1>6, <1>7 DEF FirstDay

\* A step that neither counts nor writes a line.
LEMMA QuietDay ==
  ASSUME WayInv, FileInv, FirstDay, [Next]_vars, today' = 1,
         ~LogWrite, \A w \in Writers : ~CountLine(w) /\ ~Direct(w)
  PROVE  FirstDay'
<1>1. UNCHANGED <<fileVars, written>> /\ today = 1
  <2>1. today \in Nat /\ today >= 1
    BY BoundsAssumption DEF WayInv, ThreadType, Days
  <2> QED
    BY <2>1 DEF Next, Midnight, LogSpurious, LogLoop, LogPop, Write, Stamp, Choose, Push, vars
<1>2. Underway' <= Underway /\ Underway \in Nat /\ Underway' \in Nat /\ Spare' = Spare
      /\ Spare \in Nat
  BY UnderwayStep, UnderwayNat, UnderwayNext, WayStep DEF Spare, UnderwayRight
<1>3. UNCHANGED <<m_today, m_count, m_fp, written>> /\ \A f : Held(f)' = Held(f)
  BY <1>1 DEF fileVars, Held
<1>4. ASSUME NEW w \in Writers, wpc'[w] # "out" PROVE line'[w].day = 1
  <2>1. CASE wpc[w] # "out" /\ line'[w] = line[w]
    BY <2>1 DEF FirstDay
  <2>2. CASE Stamp(w)
    BY <1>1, <2>2, StampedLine DEF Stamp, WayInv, ThreadType
  <2>3. ASSUME NEW v \in Writers, Stamp(v), v # w PROVE wpc[w] # "out" /\ line'[w] = line[w]
    BY <1>4, <2>3 DEF Stamp, Goto, WayInv, ThreadType
  <2>4. ASSUME NEW v \in Writers, Push(v) PROVE wpc[w] # "out" /\ line'[w] = line[w]
    BY <1>4, <2>4 DEF Push, Return, Goto, WayInv, ThreadType
  <2>5. ASSUME NEW v \in Writers, Choose(v) PROVE wpc[w] # "out" /\ line'[w] = line[w]
    BY <1>4, <2>5 DEF Choose, Goto, WayInv, ThreadType
  <2>6. CASE UNCHANGED writerVars
    BY <1>4, <2>1, <2>6 DEF writerVars
  <2> QED
    BY <2>1, <2>2, <2>3, <2>4, <2>5, <2>6
    DEF Next, Midnight, LogSpurious, LogLoop, LogPop, Write, vars
<1>5. /\ Len(written') + Underway' <= m_count'
      /\ Held(m_fp)' + Underway' <= (m_count' % m_split_lines) + Spare'
  <2>1. Held(m_fp)' = Held(m_fp) /\ Held(m_fp) \in Nat
    BY <1>3, HeldNat
  <2>2. Len(written) + Underway <= m_count
        /\ Held(m_fp) + Underway <= (m_count % m_split_lines) + Spare
    BY DEF FirstDay
  <2>3. m_count \in Nat /\ Len(written) \in Nat /\ m_count % m_split_lines \in Nat
    BY CountParts
  <2>4. Len(written') + Underway' <= m_count'
    BY <1>2, <1>3, <2>2, <2>3
  <2>5. Held(m_fp)' + Underway' <= (m_count' % m_split_lines) + Spare'
    BY <1>2, <1>3, <2>1, <2>2, <2>3
  <2> QED
    BY <2>4, <2>5
<1>6. \A f \in Files : FileRight(f)'
  BY <1>2, <1>3 DEF FirstDay, FileRight
<1> QED
  BY <1>3, <1>4, <1>5, <1>6 DEF FirstDay

LEMMA CountDay ==
  ASSUME WayInv, FileInv, FirstDay, NEW w \in Writers, CountLine(w) PROVE FirstDay'
<1>1. /\ m_count' = m_count + 1 /\ m_today' = m_today
      /\ m_fp' = IF m_count' % m_split_lines = 0
                 THEN File(1, m_count' \div m_split_lines) ELSE m_fp
  <2>1. line[w].day = 1 /\ m_today = 1
    BY DEF CountLine, FirstDay
  <2>2. Rotate(1)
    BY <2>1 DEF CountLine
  <2> QED
    BY <2>1, <2>2 DEF Rotate, DayChanged, SplitDue, Suffix
<1>2. /\ m_count % m_split_lines \in 0..(m_split_lines - 1) /\ m_count \div m_split_lines \in Nat
      /\ IF m_count' % m_split_lines = 0
         THEN m_count' \div m_split_lines = m_count \div m_split_lines + 1
         ELSE /\ m_count' \div m_split_lines = m_count \div m_split_lines
              /\ m_count' % m_split_lines = (m_count % m_split_lines) + 1
  BY <1>1, CountUp, CountParts
<1>3. m_today' = 1 /\ m_fp' = File(1, m_count' \div m_split_lines)
  BY <1>1, <1>2 DEF FirstDay
<1>4. written' = written /\ (\A f : Held(f)' = Held(f)) /\ Spare' = Spare
  BY DEF CountLine, Held, Spare
<1>5. /\ Underway' = Underway + 1 /\ Underway \in Nat /\ Spare \in Nat
      /\ Underway' <= Spare /\ Underway' \in Nat
  <2>1. [Next]_vars
    BY DEF Next, Write
  <2> QED
    BY <1>4, <2>1, UnderwayStep, UnderwayNat, UnderwayNext, WayStep DEF UnderwayRight
<1>6. Len(written') + Underway' <= m_count'
  BY <1>1, <1>4, <1>5, CountParts DEF FirstDay
<1>7. \A f \in Files : FileRight(f)'
  <2> SUFFICES ASSUME NEW f \in Files PROVE FileRight(f)'
    OBVIOUS
  <2>1. FileRight(f) /\ f.suffix \in Nat
    BY FilesDay DEF FirstDay
  <2>2. f.suffix > m_count' \div m_split_lines => f.suffix > m_count \div m_split_lines
    BY <1>2, <2>1
  <2> QED
    BY <1>4, <2>1, <2>2 DEF FileRight
<1>8. Held(m_fp)' + Underway' <= (m_count' % m_split_lines) + Spare'
  <2>1. CASE m_count' % m_split_lines = 0
    <3>1. m_fp' \in Files /\ m_fp'.suffix = m_count \div m_split_lines + 1
      <4>1. m_fp' \in Files
        BY FileStep DEF FileInv, Next, Write
      <4> QED
        BY <1>2, <1>3, <2>1, <4>1 DEF File
    <3>2. m_fp'.suffix > m_count \div m_split_lines /\ FileRight(m_fp')
      BY <1>2, <3>1 DEF FirstDay
    <3>3. Held(m_fp') = 0
      BY <3>2 DEF FileRight
    <3>4. Held(m_fp)' = 0
      BY <1>4, <3>3
    <3> QED
      BY <1>4, <1>5, <2>1, <3>4
  <2>2. CASE m_count' % m_split_lines # 0
    <3>1. Held(m_fp)' = Held(m_fp) /\ Held(m_fp) \in Nat
      BY <1>1, <1>4, <2>2, HeldNat
    <3>2. m_count' % m_split_lines = (m_count % m_split_lines) + 1
      BY <1>2, <2>2
    <3>3. Held(m_fp) + Underway <= (m_count % m_split_lines) + Spare
      BY DEF FirstDay
    <3> QED
      BY <1>2, <1>4, <1>5, <3>1, <3>2, <3>3
  <2> QED
    BY <2>1, <2>2
<1>9. ASSUME NEW v \in Writers, wpc'[v] # "out" PROVE line'[v].day = 1
  BY <1>9 DEF CountLine, Goto, WayInv, ThreadType, FirstDay
<1> QED
  BY <1>3, <1>6, <1>7, <1>8, <1>9 DEF FirstDay

\* A line that was under way is written to the current file.
LEMMA PutDay ==
  ASSUME WayInv, FileInv, FirstDay, [Next]_vars, UNCHANGED fileVars,
         NEW l \in Lines, NEW t \in Writers \cup {LogThread}, Put(l, t),
         Underway' = Underway - 1,
         \A w \in Writers : wpc'[w] # "out" => wpc[w] # "out" /\ line'[w] = line[w]
  PROVE  FirstDay'
<1>1. UNCHANGED <<m_today, m_count, m_fp>> /\ Spare' = Spare
  BY DEF fileVars, Spare
<1>2. Len(written') = Len(written) + 1 /\ Len(written) \in Nat
  <2>1. [line |-> l, file |-> m_fp, thread |-> t] \in Entries
    BY DEF FileInv, Entries
  <2> QED
    BY <2>1 DEF Put, FileInv
<1>3. Underway \in Nat /\ Underway' \in Nat /\ Underway' = Underway - 1 /\ Spare \in Nat
  BY UnderwayNat, UnderwayNext, WayStep DEF UnderwayRight
<1>4. /\ \A f : Held(f)' = IF f = m_fp THEN Held(f) + 1 ELSE Held(f)
      /\ \A f : Held(f) \in Nat
  BY HeldPut, HeldNat
<1>5. /\ Held(m_fp)' = Held(m_fp) + 1 /\ Held(m_fp) \in Nat /\ Held(m_fp) <= Len(written)
  BY <1>1, <1>4, HeldNat
<1>6. /\ Len(written') + Underway' <= m_count'
      /\ Held(m_fp)' + Underway' <= (m_count' % m_split_lines) + Spare'
  BY <1>1, <1>2, <1>3, <1>5, CountParts DEF FirstDay
<1>7. ASSUME NEW f \in Files PROVE FileRight(f)'
  <2>1. CASE f # m_fp
    BY <1>1, <1>4, <2>1 DEF FirstDay, FileRight
  <2>2. CASE f = m_fp
    <3>1. f.suffix = m_count \div m_split_lines
      BY <2>2 DEF FirstDay, File
    <3>2. Held(f)' = Held(f) + 1 /\ Held(f) + 1 <= m_count
      <4>1. Held(f) + 1 <= Len(written) + Underway
        BY <1>2, <1>3, <1>5, <2>2
      <4>2. Len(written) + Underway <= m_count
        BY DEF FirstDay
      <4>3. Held(f)' = Held(f) + 1
        BY <1>4, <2>2
      <4> QED
        BY <1>2, <1>3, <1>5, <2>2, <4>1, <4>2, <4>3, CountParts
    <3>3. Held(f)' <= (f.suffix + 1) * m_split_lines - 1
      <4> DEFINE turn == (f.suffix + 1) * m_split_lines - 1
      <4>1. m_count <= turn /\ turn \in Nat
        BY <3>1, CountParts
      <4>2. m_count \in Nat /\ Held(f) \in Nat
        BY <1>4, CountParts
      <4> HIDE DEF turn
      <4>3. Held(f)' <= turn
        BY <3>2, <4>1, <4>2
      <4> QED
        BY <4>3 DEF turn
    <3>4. Held(f)' < m_split_lines + Spare
      <4>1. Held(f) + Underway <= (m_count % m_split_lines) + Spare
        BY <2>2 DEF FirstDay
      <4>2. m_count % m_split_lines \in 0..(m_split_lines - 1) /\ m_split_lines \in Nat
        BY CountParts
      <4> QED
        BY <1>3, <1>4, <3>2, <4>1, <4>2
    <3>5. ~(f.suffix > m_count \div m_split_lines)
      BY <3>1, CountParts
    <3> QED
      BY <1>1, <3>3, <3>4, <3>5 DEF FileRight
  <2> QED
    BY <2>1, <2>2
<1>8. ASSUME NEW w \in Writers, wpc'[w] # "out" PROVE line'[w].day = 1
  BY <1>8 DEF FirstDay
<1> QED
  BY <1>1, <1>6, <1>7, <1>8 DEF FirstDay

LEMMA DayStep == ASSUME WayInv, FileInv, DayInv, [Next]_vars PROVE DayInv'
<1> SUFFICES ASSUME today' = 1 PROVE FirstDay'
  BY DEF DayInv
<1>1. FirstDay
  <2>1. today \in Nat /\ today >= 1
    BY BoundsAssumption DEF WayInv, ThreadType, Days
  <2>2. today = 1
    BY <2>1 DEF Next, Midnight, LogSpurious, LogLoop, LogPop, LogWrite, Write, Stamp, CountLine,
       Choose, Push, Direct, vars
  <2> QED
    BY <2>2 DEF DayInv
<1>2. ASSUME NEW w \in Writers, CountLine(w) PROVE FirstDay'
  BY <1>1, <1>2, CountDay
<1>3. ASSUME NEW w \in Writers, Direct(w) PROVE FirstDay'
  <2>1. line[w] \in Lines /\ Put(line[w], w) /\ UNCHANGED fileVars
    BY <1>3 DEF Direct, WayInv, OwnLine
  <2>2. Underway' = Underway - 1
    BY <1>3, UnderwayStep
  <2>3. \A v \in Writers : wpc'[v] # "out" => wpc[v] # "out" /\ line'[v] = line[v]
    BY <1>3 DEF Direct, Return, Goto, WayInv, ThreadType
  <2> QED
    BY <1>1, <2>1, <2>2, <2>3, PutDay
<1>4. CASE LogWrite
  <2>1. value[LogThread] \in Lines /\ Put(value[LogThread], LogThread) /\ UNCHANGED fileVars
    BY <1>4, QueueOfLines DEF LogWrite, WayInv
  <2>2. Underway' = Underway - 1
    BY <1>4, UnderwayStep
  <2>3. \A v \in Writers : wpc'[v] # "out" => wpc[v] # "out" /\ line'[v] = line[v]
    BY <1>4 DEF LogWrite, writerVars
  <2> QED
    BY <1>1, <2>1, <2>2, <2>3, PutDay
<1> QED
  BY <1>1, <1>2, <1>3, <1>4, QuietDay

\* "The maximum number of lines of a log" (log.h 48), for any number of
\* writers, any queue and files of any size, with and without the log thread:
\* on the first day the files up to any one hold no more lines than m_count
\* gives them, and one file, besides its m_split_lines, no more than can have
\* been on the way when it was opened.
THEOREM FilesBounded == Spec => []FileLimit
<1> DEFINE IInv == WayInv /\ FileInv /\ DayInv
<1>1. Init => IInv
  BY WayInit, FileInit, DayInit
<1>2. IInv /\ [Next]_vars => IInv'
  BY WayStep, FileStep, DayStep
<1>3. IInv => FileLimit
  <2> SUFFICES ASSUME IInv, today = 1, NEW f \in {written[i].file : i \in DOMAIN written}
               PROVE  /\ Held(f) <= (f.suffix + 1) * m_split_lines - 1
                      /\ Held(f) <= m_split_lines + m_max_size + Cardinality(Writers)
    BY DEF FileLimit
  <2>1. f \in Files
    BY Places DEF Entries
  <2>2. FileRight(f)
    BY <2>1 DEF DayInv, FirstDay
  <2>3. Held(f) \in Nat /\ Cardinality(Writers) \in Nat /\ m_split_lines \in Nat /\ m_max_size \in Nat
    BY HeldNat, SplitAssumption, SizeAssumption, WritersAssumption, FS_CardinalityType
  <2>4. Held(f) <= m_split_lines + m_max_size + Cardinality(Writers)
    BY <2>2, <2>3 DEF FileRight, Spare
  <2> QED
    BY <2>2, <2>4 DEF FileRight
<1> QED
  BY <1>1, <1>2, <1>3, PTL DEF Spec
=============================================================================
