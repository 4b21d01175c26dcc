--------------------------- MODULE LoggingProofs ---------------------------
(***************************************************************************)
(* Facts about the log for any number of workers and messages.             *)
(*                                                                         *)
(* The file is opened once, because until the pointer is set patching is   *)
(* the only thread that has anything to log.  With a single stream the log *)
(* is the file followed by the stream's buffer, and a line's call puts it  *)
(* there once.  The order of the log then follows from the ranks of the    *)
(* lines each thread still owes, and from the queue, which holds the       *)
(* messages between their append and their dequeue line.                   *)
(***************************************************************************)
EXTENDS Logging, SequenceTheorems, TLAPS

(* What the steps below need to know of the variables' types.              *)
Types ==
  /\ pc \in [Threads -> Places]
  /\ at \in [Threads -> {"level", "open", "print", "flush"}]
  /\ ctx \in [Threads -> 0 .. MaxMessages]
  /\ lastRead \in 0 .. MaxMessages
  /\ waiting \in Seq(0 .. MaxMessages)
  /\ streams \in Seq(Seq(Lines))

(* Before the file is open, no message has left patching, so that only     *)
(* patching can be inside dlog, and it has not printed.                    *)
Unopened ==
  DEBUG_FP = 0 =>
    /\ streams = <<>>
    /\ waiting = <<>>
    /\ pc[Patching] \in {"read", "size", "err"}
    /\ at[Patching] # "flush"
    /\ \A w \in Workers : pc[w] = "lock" /\ at[w] = "level"

(* Afterwards no thread is on its way to open it again.                    *)
Opened ==
  DEBUG_FP # 0 =>
    /\ DEBUG_FP = 1
    /\ Len(streams) = 1
    /\ \A t \in Threads : at[t] # "open"

IInv == Types /\ Unopened /\ Opened

LEMMA LogPlacesAre ==
  LogPlaces = {"size", "append", "warn", "err", "dequeue", "processing", "error",
               "dump_ipq", "dump", "module"}
BY DEF LogPlaces, After

(* A thread that logs may go on in a known place, never in one where it    *)
(* would be with the file unopened.                                        *)
LEMMA AfterPlaces ==
  ASSUME NEW place \in LogPlaces
  PROVE  After[place] \subseteq Places
BY LogPlacesAre DEF After, Places

LEMMA InitIInv == Init => IInv
BY LogThreadsAssumption, LogBoundsAssumption
   DEF Init, IInv, Types, Unopened, Opened, Threads, Places

(* Which threads can be inside dlog, and what is left of the record of     *)
(* places: a thread in "lock" logs nothing.                                *)
LEMMA OnlyPatchingLogs ==
  ASSUME IInv, DEBUG_FP = 0, NEW t \in Threads, pc[t] \in LogPlaces
  PROVE  t = Patching
BY LogPlacesAre DEF IInv, Unopened, Threads

(* DLEVEL is 0 and no level is below it: TestPointer returns to no one.    *)
LEMMA TestPointerStep ==
  ASSUME IInv, NEW t \in Threads, TestPointer(t)
  PROVE  IInv'
<1>1. /\ pc[t] \in LogPlaces
      /\ at' = [at EXCEPT ![t] = IF DEBUG_FP = 0 THEN "open" ELSE "print"]
      /\ UNCHANGED <<threadVars, DEBUG_FP, streams>>
  BY DEF TestPointer, Level, DLEVEL, threadVars
<1>2. Types'
  BY <1>1 DEF IInv, Types, threadVars
<1>3. DEBUG_FP = 0 => t = Patching
  BY <1>1, OnlyPatchingLogs
<1>4. Unopened'
  BY <1>1, <1>3, LogThreadsAssumption DEF IInv, Types, Unopened, threadVars, Threads
<1>5. Opened'
  BY <1>1 DEF IInv, Types, Opened, threadVars
<1> QED
  BY <1>2, <1>4, <1>5 DEF IInv

LEMMA fopenStep ==
  ASSUME IInv, NEW t \in Threads, fopen(t)
  PROVE  IInv'
<1>1. /\ at[t] = "open"
      /\ at' = [at EXCEPT ![t] = "print"]
      /\ pc[t] \in LogPlaces
  BY DEF fopen, InDlog
<1>2. DEBUG_FP = 0 /\ streams = <<>>
  BY <1>1 DEF IInv, Opened, Unopened
<1>3. t = Patching
  BY <1>1, <1>2, OnlyPatchingLogs
<1>4. CASE streams' = Append(streams, <<>>) /\ DEBUG_FP' = Len(streams) + 1
  <2>1. streams' \in Seq(Seq(Lines)) /\ Len(streams') = 1 /\ DEBUG_FP' = 1
    BY <1>2, <1>4
  <2>2. Types'
    BY <1>1, <2>1 DEF IInv, Types, fopen, threadVars
  <2>3. \A u \in Threads : at'[u] # "open"
    BY <1>1, <1>2, <1>3 DEF IInv, Types, Unopened, Threads
  <2> QED
    BY <2>1, <2>2, <2>3 DEF IInv, Unopened, Opened
<1>5. CASE DEBUG_FP' = 0 /\ UNCHANGED streams
  <2>1. Types'
    BY <1>1, <1>5 DEF IInv, Types, fopen, threadVars
  <2>2. Unopened' /\ Opened'
    BY <1>1, <1>2, <1>3, <1>5, LogThreadsAssumption
       DEF IInv, Types, Unopened, Opened, fopen, threadVars, Threads
  <2> QED
    BY <2>1, <2>2 DEF IInv
<1> QED
  BY <1>4, <1>5 DEF fopen

LEMMA vfprintfStep ==
  ASSUME IInv, NEW t \in Threads, vfprintf(t)
  PROVE  IInv'
<1>1. /\ at' = [at EXCEPT ![t] = "flush"]
      /\ pc[t] \in LogPlaces
      /\ DEBUG_FP = 1 /\ Len(streams) = 1
      /\ streams' = [streams EXCEPT ![1] = Append(@, Line(t))]
      /\ DEBUG_FP' = DEBUG_FP
  BY DEF vfprintf, InDlog, IInv, Opened
<1>2. Line(t) \in Lines
  BY <1>1 DEF IInv, Types, Line, Lines
<1>3. streams \in Seq(Seq(Lines)) /\ streams[1] \in Seq(Lines)
  <2>1. streams \in Seq(Seq(Lines)) /\ 1 \in 1 .. Len(streams)
    BY <1>1 DEF IInv, Types
  <2>2. \A n \in 1 .. Len(streams) : streams[n] \in Seq(Lines)
    BY <2>1, ElementOfSeq, Zenon
  <2> QED
    BY <2>1, <2>2
<1>4. Append(streams[1], Line(t)) \in Seq(Lines)
  BY <1>2, <1>3, AppendProperties
<1>5. streams' \in Seq(Seq(Lines)) /\ Len(streams') = 1
  BY <1>1, <1>3, <1>4, ExceptSeq
<1>6. Types'
  BY <1>1, <1>5 DEF IInv, Types, vfprintf, threadVars
<1>7. Unopened' /\ Opened'
  BY <1>1, <1>5 DEF IInv, Types, Unopened, Opened
<1> QED
  BY <1>6, <1>7 DEF IInv

(* The file itself plays no part: only the buffers are emptied.            *)
LEMMA Emptied ==
  ASSUME Types, Len(streams) = 1, NEW fps, WriteOut(fps)
  PROVE  streams' \in Seq(Seq(Lines)) /\ Len(streams') = 1
<1>1. DOMAIN streams = 1 .. 1
  BY DEF Types
<1>2. streams' = [n \in 1 .. 1 |-> IF n \in fps THEN <<>> ELSE streams[n]]
  BY <1>1 DEF WriteOut
<1>3. \A n \in 1 .. 1 : (IF n \in fps THEN <<>> ELSE streams[n]) \in Seq(Lines)
  BY ElementOfSeq, EmptySeq DEF Types
<1> QED
  BY <1>2, <1>3

LEMMA fflushStep ==
  ASSUME IInv, NEW t \in Threads, fflush(t)
  PROVE  IInv'
<1>1. /\ pc[t] \in LogPlaces
      /\ at[t] = "flush"
      /\ at' = [at EXCEPT ![t] = "level"]
      /\ DEBUG_FP' = DEBUG_FP
  BY DEF fflush, InDlog
<1>2. DEBUG_FP = 1 /\ Len(streams) = 1
  <2>1. DEBUG_FP # 0
    BY <1>1, OnlyPatchingLogs DEF IInv, Unopened
  <2> QED
    BY <2>1 DEF IInv, Opened
<1>3. streams' \in Seq(Seq(Lines)) /\ Len(streams') = 1
  BY <1>2, Emptied DEF fflush, IInv
<1>4. PICK place \in After[pc[t]] : pc' = [pc EXCEPT ![t] = place]
  BY DEF fflush, Return
<1>5. place \in Places
  BY <1>1, <1>4, AfterPlaces
<1>6. Types'
  BY <1>1, <1>3, <1>4, <1>5 DEF IInv, Types, fflush
<1>7. Unopened' /\ Opened'
  BY <1>1, <1>2, <1>3 DEF IInv, Types, Unopened, Opened
<1> QED
  BY <1>6, <1>7 DEF IInv

LEMMA CrashStep ==
  ASSUME IInv, NEW t, CrashOnNullStream(t) \/ CrashOnBarePacket(t)
  PROVE  IInv'
BY DEF CrashOnNullStream, CrashOnBarePacket, threadVars, logVars, IInv, Types,
       Unopened, Opened

(* A thread dies after its line is written, when the file is open.         *)
LEMMA DieStep ==
  ASSUME IInv, NEW t \in Threads, Die(t)
  PROVE  IInv'
<1>1. DEBUG_FP = 1 /\ Len(streams) = 1
  BY DEF IInv, Unopened, Opened, Die, Runs, Threads
<1>2. streams' \in Seq(Seq(Lines)) /\ Len(streams') = 1
  BY <1>1, Emptied DEF Die, IInv
<1> QED
  BY <1>1, <1>2 DEF Die, threadVars, IInv, Types, Unopened, Opened

(* patching numbers, checks and queues its messages; before the file is    *)
(* open it can only read.                                                  *)
LEMMA PatchingLemma ==
  ASSUME IInv, PatchingStep
  PROVE  IInv'
<1>1. UNCHANGED logVars
  BY DEF PatchingStep, ReadMessage, ReadFails, CheckBacklog, PatchingLocks, Write
<1>2. Patching \in Threads
  BY DEF Threads
<1>3. CASE ReadMessage
  <2>1. /\ pc' = [pc EXCEPT ![Patching] = "size"]
        /\ ctx' = [ctx EXCEPT ![Patching] = lastRead + 1]
        /\ lastRead' = lastRead + 1 /\ lastRead' \in 0 .. MaxMessages
        /\ UNCHANGED waiting
    BY <1>3, LogBoundsAssumption DEF ReadMessage, Go, IInv, Types
  <2> QED
    BY <1>1, <1>2, <2>1, LogPlacesAre, LogThreadsAssumption
       DEF logVars, IInv, Types, Unopened, Opened, Places, Threads
<1>4. CASE ReadFails
  <2>1. /\ pc' = [pc EXCEPT ![Patching] = "err"]
        /\ ctx' = [ctx EXCEPT ![Patching] = 0]
        /\ UNCHANGED <<lastRead, waiting>>
    BY <1>4 DEF ReadFails, Go
  <2> QED
    BY <1>1, <1>2, <2>1, LogPlacesAre, LogThreadsAssumption, LogBoundsAssumption
       DEF logVars, IInv, Types, Unopened, Opened, Places, Threads
<1>5. CASE CheckBacklog \/ PatchingLocks \/ Write
  <2>1. DEBUG_FP # 0
    BY <1>5 DEF CheckBacklog, PatchingLocks, Write, Go, Runs, IInv, Unopened
  <2>2. \E place \in Places : pc' = [pc EXCEPT ![Patching] = place]
    BY <1>5, LogPlacesAre DEF CheckBacklog, PatchingLocks, Write, Go, Places
  <2>3. waiting' \in Seq(0 .. MaxMessages)
    <3>1. waiting \in Seq(0 .. MaxMessages) /\ ctx[Patching] \in 0 .. MaxMessages
      BY <1>2 DEF IInv, Types
    <3>2. waiting' = waiting \/ waiting' = Append(waiting, ctx[Patching])
      BY <1>5 DEF CheckBacklog, PatchingLocks, Write
    <3>3. Append(waiting, ctx[Patching]) \in Seq(0 .. MaxMessages)
      BY <3>1, AppendProperties, Zenon
    <3> QED
      BY <3>1, <3>2, <3>3, Zenon
  <2>4. UNCHANGED <<ctx, lastRead>>
    BY <1>5 DEF CheckBacklog, PatchingLocks, Write
  <2> QED
    BY <1>1, <2>1, <2>2, <2>3, <2>4 DEF logVars, IInv, Types, Unopened, Opened
<1> QED
  BY <1>3, <1>4, <1>5 DEF PatchingStep

LEMMA WorkerLemma ==
  ASSUME IInv, NEW w \in Workers, WorkerStep(w)
  PROVE  IInv'
<1>1. w \in Threads
  BY DEF Threads
<1>2. CASE WorkerTakes(w)
  <2>1. DEBUG_FP # 0
    BY <1>2 DEF WorkerTakes, IInv, Unopened
  <2>2. /\ pc' = [pc EXCEPT ![w] = "dequeue"]
        /\ ctx' = [ctx EXCEPT ![w] = Head(waiting)]
        /\ waiting # <<>> /\ waiting' = Tail(waiting)
        /\ UNCHANGED <<lastRead, logVars>>
    BY <1>2 DEF WorkerTakes, Go
  <2>3. waiting \in Seq(0 .. MaxMessages)
    BY DEF IInv, Types
  <2>4. Head(waiting) \in 0 .. MaxMessages /\ waiting' \in Seq(0 .. MaxMessages)
    BY <2>2, <2>3, HeadTailProperties
  <2> QED
    BY <1>1, <2>1, <2>2, <2>4, LogPlacesAre DEF logVars, IInv, Types, Unopened, Opened, Places
<1>3. CASE WorkerUnlocks(w)
  <2>1. DEBUG_FP # 0
    BY <1>3 DEF WorkerUnlocks, Go, Runs, IInv, Unopened
  <2>2. /\ pc' = [pc EXCEPT ![w] = "processing"]
        /\ UNCHANGED <<ctx, waiting, lastRead, logVars>>
    BY <1>3 DEF WorkerUnlocks, Go
  <2> QED
    BY <1>1, <2>1, <2>2, LogPlacesAre DEF logVars, IInv, Types, Unopened, Opened, Places
<1> QED
  BY <1>2, <1>3, CrashStep DEF WorkerStep

LEMMA StepIInv == IInv /\ [Next]_vars => IInv'
<1> SUFFICES ASSUME IInv, [Next]_vars PROVE IInv'
  OBVIOUS
<1>1. CASE \E t \in Threads : dlog(t)
  BY <1>1, TestPointerStep, fopenStep, vfprintfStep, fflushStep, CrashStep DEF dlog
<1>2. CASE \E t \in Threads : Die(t)
  BY <1>2, DieStep
<1>3. CASE PatchingStep
  BY <1>3, PatchingLemma
<1>4. CASE \E w \in Workers : WorkerStep(w)
  BY <1>4, WorkerLemma
<1>5. CASE UNCHANGED vars
  BY <1>5 DEF vars, threadVars, logVars, IInv, Types, Unopened, Opened
<1> QED
  BY <1>1, <1>2, <1>3, <1>4, <1>5 DEF Next, Idle

(* The unlocked test of the log pointer opens one file (logging.c:8), with *)
(* any number of workers.                                                  *)
THEOREM OpenedOnceHolds == Spec => []OpenedOnce
<1>1. IInv => OpenedOnce
  <2> SUFFICES ASSUME IInv PROVE OpenedOnce
    OBVIOUS
  <2>1. Len(streams) <= 1
    <3>1. Len(<<>>) = 0
      OBVIOUS
    <3>2. CASE DEBUG_FP = 0
      BY <3>1, <3>2 DEF IInv, Unopened
    <3>3. CASE DEBUG_FP # 0
      BY <3>3 DEF IInv, Opened
    <3> QED
      BY <3>2, <3>3
  <2>2. ASSUME NEW t \in Workers, pc[t] \in LogPlaces PROVE DEBUG_FP # 0
    BY <2>2, OnlyPatchingLogs, LogThreadsAssumption DEF Threads
  <2> QED
    BY <2>1, <2>2 DEF OpenedOnce
<1> QED
  BY <1>1, InitIInv, StepIInv, PTL DEF Spec
-----------------------------------------------------------------------------
(* Every line printed so far: those in the file, then those still in the   *)
(* buffer of the one stream.                                               *)
Buffer == IF streams = <<>> THEN <<>> ELSE streams[1]
Log    == logFile \o Buffer

PatchingPlaces == {"size", "check", "lock", "append", "write", "warn"}
WorkerPlaces   == {"dequeue", "unlock", "processing", "error", "dump_ipq", "dump", "module"}

(* The thread has a message in hand.                                       *)
Working(t) == pc[t] \in IF t = Patching THEN PatchingPlaces ELSE WorkerPlaces

(* No line of its message has this rank yet, or a higher one.              *)
NextRank ==
  [size |-> 1, check |-> 2, lock |-> 2, append |-> 2, warn |-> 2, write |-> 3,
   dequeue |-> 3, unlock |-> 4, processing |-> 4, error |-> 5, dump_ipq |-> 5,
   dump |-> 6, module |-> 7]
Due(t) == NextRank[pc[t]] + (IF at[t] = "flush" THEN 1 ELSE 0)

(* Its append line is printed and the message not yet in ReadyQueue, or it *)
(* is out of it and its dequeue line not yet printed.                      *)
Entering == pc[Patching] = "write" \/ (pc[Patching] = "append" /\ at[Patching] = "flush")
Leaving(w) == pc[w] = "dequeue" /\ at[w] # "flush"

(* The reader has logged that it gives up.                                 *)
GaveUp == pc[Patching] = "die" \/ (pc[Patching] = "err" /\ at[Patching] = "flush")

Control ==
  /\ logFile \in Seq(Lines)
  /\ pc[Patching] \in PatchingPlaces \cup {"read", "err", "die"}
  /\ \A w \in Workers : pc[w] \in WorkerPlaces \cup {"lock", "die"}
  /\ \A t \in Threads : at[t] # "level" => pc[t] \in LogPlaces
  /\ pc[Patching] = "err" => ctx[Patching] = 0
  /\ pc[Patching] \in {"append", "write"} => queueLock = Patching
  /\ \A w \in Workers : pc[w] \in {"dequeue", "unlock"} => queueLock = w

(* Every message is in one thread's hands, in ReadyQueue, or done with.    *)
Hands ==
  /\ \A t \in Threads : Working(t) => ctx[t] \in 1 .. lastRead
  /\ \A t, u \in Threads : Working(t) /\ Working(u) /\ ctx[t] = ctx[u] => t = u
  /\ \A k \in 1 .. Len(waiting) : waiting[k] \in 1 .. lastRead
  /\ \A k, l \in 1 .. Len(waiting) : waiting[k] = waiting[l] => k = l
  /\ \A k \in 1 .. Len(waiting), t \in Threads : Working(t) => waiting[k] # ctx[t]

(* What is printed so far of a message that is not done with.              *)
Ranked ==
  /\ Ordered(Log)
  /\ \A i, j \in DOMAIN Log : Log[i].message = 0 /\ Log[j].message = 0 => i = j
  /\ \A i \in DOMAIN Log :
       /\ Log[i].message <= lastRead
       /\ Log[i].kind = "err" <=> Log[i].message = 0
       /\ Log[i].message = 0 => GaveUp
       /\ \A t \in Threads : Working(t) /\ Log[i].message = ctx[t]
                               => Rank[Log[i].kind] < Due(t)
       /\ \A k \in 1 .. Len(waiting) : Log[i].message = waiting[k]
                                         => Rank[Log[i].kind] < 3

Flushing ==
  /\ returned \subseteq Range(logFile)
  /\ \A t \in Threads : at[t] = "flush" => Line(t) \in Range(Log)

(* The append lines of the messages in ReadyQueue, and of those entering   *)
(* and leaving it, stand in the order of the queue, and the others have    *)
(* their dequeue lines.                                                    *)
Appended(i, m) == Says(Log, i, m, "append")
Dequeued(i, m) == Says(Log, i, m, "dequeue")

AppendLines ==
  /\ \A k \in 1 .. Len(waiting) : \E i \in DOMAIN Log : Appended(i, waiting[k])
  /\ Entering => \E i \in DOMAIN Log : Appended(i, ctx[Patching])
  /\ \A w \in Workers : Leaving(w) => \E i \in DOMAIN Log : Appended(i, ctx[w])

AppendOrder ==
  /\ \A i, j \in DOMAIN Log, k, l \in 1 .. Len(waiting) :
       k < l /\ Appended(i, waiting[k]) /\ Appended(j, waiting[l]) => i < j
  /\ \A i, j \in DOMAIN Log, k \in 1 .. Len(waiting) :
       Entering /\ Appended(i, waiting[k]) /\ Appended(j, ctx[Patching]) => i < j
  /\ \A i, j \in DOMAIN Log, k \in 1 .. Len(waiting), w \in Workers :
       Leaving(w) /\ Appended(i, ctx[w]) /\ Appended(j, waiting[k]) => i < j

Accounted ==
  \A h \in DOMAIN Log : Log[h].kind = "append" =>
    \/ \E g \in DOMAIN Log : Dequeued(g, Log[h].message)
    \/ \E k \in 1 .. Len(waiting) : waiting[k] = Log[h].message
    \/ Entering /\ ctx[Patching] = Log[h].message
    \/ \E w \in Workers : Leaving(w) /\ ctx[w] = Log[h].message

Queued ==
  /\ InQueueOrder(Log)
  /\ AppendLines
  /\ AppendOrder
  /\ Accounted

LogInv == IInv /\ Control /\ Hands /\ Ranked /\ Flushing /\ Queued
-----------------------------------------------------------------------------
(* The lines printed so far change by vfprintf alone.                      *)
LEMMA BufferType ==
  ASSUME Types PROVE Buffer \in Seq(Lines)
<1>1. CASE streams = <<>>
  BY <1>1, EmptySeq DEF Buffer
<1>2. CASE streams # <<>>
  <2>1. streams \in Seq(Seq(Lines)) /\ Len(streams) \in Nat \ {0}
    BY <1>2, EmptySeq DEF Types
  <2>2. 1 \in 1 .. Len(streams)
    BY <2>1
  <2> QED
    BY <1>2, <2>1, <2>2, ElementOfSeq DEF Buffer
<1> QED
  BY <1>1, <1>2

LEMMA LogType ==
  ASSUME Types, logFile \in Seq(Lines)
  PROVE  /\ Log \in Seq(Lines) /\ Len(Log) \in Nat /\ DOMAIN Log = 1 .. Len(Log)
         /\ \A i \in DOMAIN Log : Log[i] \in Lines
<1>1. Log \in Seq(Lines)
  BY BufferType, ConcatProperties DEF Log
<1> HIDE DEF Log
<1> QED
  BY <1>1, LenProperties

LEMMA FlattenOne ==
  ASSUME NEW s, Len(s) = 1 PROVE FlattenSeq(s) = s[1]
<1> DEFINE rec(f) == [i \in 1 .. Len(s) |-> IF i = 1 THEN s[i] ELSE f[i - 1] \o s[i]]
           w == [i \in 1 .. 1 |-> s[1]]
<1>1. FlattenSeq(s) = (CHOOSE f : f = rec(f))[Len(s)]
  BY DEF FlattenSeq
<1>2. w = rec(w)
  <2>1. 1 .. Len(s) = 1 .. 1 /\ \A i \in 1 .. 1 : i = 1
    OBVIOUS
  <2> QED
    BY <2>1
<1>3. ASSUME NEW f, f = rec(f) PROVE f[1] = s[1]
  BY <1>3
<1>4. (CHOOSE f : f = rec(f)) = rec(CHOOSE f : f = rec(f))
  <2> HIDE DEF w, rec
  <2> QED
    BY <1>2
<1> HIDE DEF rec
<1> QED
  BY <1>1, <1>3, <1>4

LEMMA WrittenOut ==
  ASSUME Types, logFile \in Seq(Lines), Len(streams) = 1, NEW fps, 1 \in fps, WriteOut(fps)
  PROVE  logFile' = Log /\ Log' = Log /\ logFile' \in Seq(Lines)
<1> DEFINE s == [n \in DOMAIN streams |-> IF n \in fps THEN streams[n] ELSE <<>>]
<1>1. DOMAIN streams = 1 .. 1 /\ streams # <<>>
  <2>1. DOMAIN streams = 1 .. 1
    BY LenProperties DEF Types
  <2>2. streams = <<>> => Len(streams) = 0
    BY EmptySeq
  <2> QED
    BY <2>1, <2>2
<1>2. Len(s) = 1 /\ s[1] = streams[1]
  BY <1>1
<1>3. FlattenSeq(s) = streams[1]
  <2> HIDE DEF s
  <2> QED
    BY <1>2, FlattenOne
<1>4. logFile' = Log
  BY <1>1, <1>3 DEF WriteOut, Written, Log, Buffer
<1>5. streams' = [n \in 1 .. 1 |-> <<>>]
  BY <1>1 DEF WriteOut
<1>6. Buffer' = <<>>
  BY <1>5 DEF Buffer
<1>7. Log \in Seq(Lines)
  BY LogType
<1>8. Log' = Log \o <<>>
  BY <1>4, <1>6 DEF Log
<1> QED
  BY <1>4, <1>7, <1>8, ConcatEmptySeq

LEMMA Printed ==
  ASSUME IInv, logFile \in Seq(Lines), NEW t \in Threads, vfprintf(t)
  PROVE  /\ Line(t) \in Lines /\ logFile' = logFile
         /\ Log' \in Seq(Lines) /\ Len(Log') = Len(Log) + 1
         /\ DOMAIN Log' = 1 .. Len(Log) + 1
         /\ \A i \in 1 .. Len(Log) : Log'[i] = Log[i]
         /\ Log'[Len(Log) + 1] = Line(t)
<1>1. /\ pc[t] \in LogPlaces /\ logFile' = logFile
      /\ DEBUG_FP = 1 /\ Len(streams) = 1
      /\ streams' = [streams EXCEPT ![1] = Append(@, Line(t))]
  BY DEF vfprintf, InDlog, IInv, Opened
<1>2. Line(t) \in Lines
  BY <1>1 DEF IInv, Types, Line, Lines
<1>3. streams \in Seq(Seq(Lines)) /\ DOMAIN streams = 1 .. 1 /\ streams # <<>>
  BY <1>1, EmptySeq DEF IInv, Types
<1>4. Buffer = streams[1] /\ Buffer \in Seq(Lines)
  BY <1>3, BufferType DEF Buffer, IInv
<1>5. streams' # <<>> /\ streams'[1] = Append(Buffer, Line(t))
  BY <1>1, <1>3, <1>4
<1>6. Buffer' = Append(Buffer, Line(t))
  BY <1>5 DEF Buffer
<1>7. Log' = logFile \o Append(Buffer, Line(t))
  BY <1>1, <1>6 DEF Log
<1> DEFINE b == Append(Buffer, Line(t))
<1>8. /\ b \in Seq(Lines) /\ Len(b) = Len(Buffer) + 1 /\ Len(Buffer) \in Nat
      /\ \A i \in 1 .. Len(Buffer) : b[i] = Buffer[i]
      /\ b[Len(Buffer) + 1] = Line(t)
  BY <1>2, <1>4, AppendProperties, LenProperties
<1> HIDE DEF b
<1>9. /\ Log' \in Seq(Lines) /\ Len(Log') = Len(logFile) + Len(b)
      /\ \A i \in 1 .. Len(logFile) + Len(b) :
           Log'[i] = IF i <= Len(logFile) THEN logFile[i] ELSE b[i - Len(logFile)]
  BY <1>7, <1>8, ConcatProperties DEF b
<1>10. /\ Len(Log) = Len(logFile) + Len(Buffer) /\ Len(logFile) \in Nat
       /\ \A i \in 1 .. Len(logFile) + Len(Buffer) :
            Log[i] = IF i <= Len(logFile) THEN logFile[i] ELSE Buffer[i - Len(logFile)]
  BY <1>4, ConcatProperties, LenProperties DEF Log
<1> HIDE DEF Log, Buffer
<1>11. \A i \in 1 .. Len(Log) : Log'[i] = Log[i]
  <2> SUFFICES ASSUME NEW i \in 1 .. Len(Log) PROVE Log'[i] = Log[i]
    OBVIOUS
  <2>1. CASE i <= Len(logFile)
    BY <1>8, <1>9, <1>10, <2>1
  <2>2. CASE ~(i <= Len(logFile))
    <3>1. i - Len(logFile) \in 1 .. Len(Buffer)
      BY <1>8, <1>10, <2>2
    <3>2. Log[i] = Buffer[i - Len(logFile)]
      BY <1>8, <1>10, <2>2
    <3>3. Log'[i] = b[i - Len(logFile)]
      BY <1>8, <1>9, <1>10, <2>2
    <3> QED
      BY <1>8, <3>1, <3>2, <3>3
  <2> QED
    BY <2>1, <2>2
<1>12. Len(Log') = Len(Log) + 1 /\ Len(Log) \in Nat
  BY <1>8, <1>9, <1>10
<1>13. Log'[Len(Log) + 1] = Line(t)
  <2>1. /\ Len(Log) + 1 \in 1 .. Len(logFile) + Len(b)
        /\ ~(Len(Log) + 1 <= Len(logFile))
        /\ (Len(Log) + 1) - Len(logFile) = Len(Buffer) + 1
    BY <1>8, <1>10
  <2> QED
    BY <1>8, <1>9, <2>1
<1>14. DOMAIN Log' = 1 .. Len(Log) + 1
  BY <1>9, <1>12, LenProperties
<1> QED
  BY <1>1, <1>2, <1>9, <1>11, <1>12, <1>13, <1>14
-----------------------------------------------------------------------------
(* The other steps print nothing.                                          *)
LEMMA LogKept ==
  ASSUME IInv, IInv', logFile \in Seq(Lines), [Next]_vars,
         \A t \in Threads : ~vfprintf(t)
  PROVE  Log' = Log /\ logFile' \in Seq(Lines) /\ logFile' \in {logFile, Log}
<1>1. CASE UNCHANGED <<logFile, streams>>
  BY <1>1 DEF Log, Buffer
<1>2. CASE \E t \in Threads : fopen(t)
  <2>1. logFile' = logFile
    BY <1>2 DEF fopen
  <2>2. DEBUG_FP = 0
    BY <1>2 DEF fopen, InDlog, IInv, Opened
  <2>3. streams = <<>> /\ (streams' = <<>> \/ streams' = Append(<<>>, <<>>))
    BY <1>2, <2>2 DEF fopen, IInv, Unopened
  <2>4. Buffer = <<>> /\ Buffer' = <<>>
    BY <2>3 DEF Buffer
  <2> QED
    BY <2>1, <2>4 DEF Log
<1>3. ASSUME NEW t \in Threads, fflush(t)
      PROVE  Log' = Log /\ logFile' \in Seq(Lines) /\ logFile' \in {logFile, Log}
  <2>1. pc[t] \in LogPlaces /\ at[t] = "flush" /\ WriteOut(flushed(DEBUG_FP))
    BY <1>3 DEF fflush, InDlog
  <2>2. DEBUG_FP # 0
    BY <2>1, OnlyPatchingLogs DEF IInv, Unopened
  <2>3. Len(streams) = 1 /\ 1 \in flushed(DEBUG_FP)
    BY <2>2 DEF IInv, Opened, flushed
  <2> QED
    BY <2>1, <2>3, WrittenOut DEF IInv
<1>4. ASSUME NEW t \in Threads, Die(t)
      PROVE  Log' = Log /\ logFile' \in Seq(Lines) /\ logFile' \in {logFile, Log}
  <2>1. WriteOut(DOMAIN streams) /\ pc[t] = "die"
    BY <1>4 DEF Die, Runs
  <2>2. Len(streams) = 1
    BY <2>1 DEF IInv, Unopened, Opened, Threads
  <2>3. 1 \in DOMAIN streams
    BY <2>2, LenProperties DEF IInv, Types
  <2> QED
    BY <2>1, <2>2, <2>3, WrittenOut DEF IInv
<1>5. ASSUME NEW t \in Threads, dlog(t)
      PROVE  Log' = Log /\ logFile' \in Seq(Lines) /\ logFile' \in {logFile, Log}
  <2>1. TestPointer(t) \/ CrashOnNullStream(t) => UNCHANGED <<logFile, streams>>
    BY DEF TestPointer, CrashOnNullStream, logVars
  <2> QED
    BY <1>1, <1>2, <1>3, <1>5, <2>1 DEF dlog
<1>6. PatchingStep => UNCHANGED <<logFile, streams>>
  BY DEF PatchingStep, ReadMessage, ReadFails, CheckBacklog, PatchingLocks, Write, logVars
<1>7. (\E w \in Workers : WorkerStep(w)) => UNCHANGED <<logFile, streams>>
  BY DEF WorkerStep, WorkerTakes, WorkerUnlocks, CrashOnBarePacket, logVars
<1>8. Idle \/ UNCHANGED vars => UNCHANGED <<logFile, streams>>
  BY DEF Idle, vars, logVars
<1> QED
  BY <1>1, <1>4, <1>5, <1>6, <1>7, <1>8 DEF Next

-----------------------------------------------------------------------------
LEMMA RankIs ==
  /\ Rank["size"] = 1 /\ Rank["warn"] = 2 /\ Rank["append"] = 2 /\ Rank["dequeue"] = 3
  /\ Rank["processing"] = 4 /\ Rank["error"] = 5 /\ Rank["dump_ipq"] = 5
  /\ Rank["dump"] = 6 /\ Rank["module"] = 7
BY DEF Rank

LEMMA NextRankIs ==
  /\ NextRank["size"] = 1 /\ NextRank["check"] = 2 /\ NextRank["lock"] = 2
  /\ NextRank["append"] = 2 /\ NextRank["warn"] = 2 /\ NextRank["write"] = 3
  /\ NextRank["dequeue"] = 3 /\ NextRank["unlock"] = 4 /\ NextRank["processing"] = 4
  /\ NextRank["error"] = 5 /\ NextRank["dump_ipq"] = 5 /\ NextRank["dump"] = 6
  /\ NextRank["module"] = 7
BY DEF NextRank

LEMMA AfterIs ==
  /\ After["size"] = {"check"} /\ After["append"] = {"write"} /\ After["warn"] = {"read"}
  /\ After["err"] = {"die"} /\ After["dequeue"] = {"unlock"}
  /\ After["processing"] = {"dump_ipq", "error", "die"} /\ After["error"] = {"lock"}
  /\ After["dump_ipq"] = {"dump"} /\ After["dump"] = {"module"}
  /\ After["module"] = {"lock", "die"}
BY DEF After

(* A thread's place and what it may be there.                              *)
LEMMA PlaceOf ==
  ASSUME Control, NEW t \in Threads
  PROVE  /\ t = Patching => pc[t] \in PatchingPlaces \cup {"read", "err", "die"}
         /\ t # Patching => t \in Workers /\ pc[t] \in WorkerPlaces \cup {"lock", "die"}
         /\ Patching \in Threads /\ Patching \notin Workers
BY LogThreadsAssumption DEF Control, Threads

-----------------------------------------------------------------------------
(* Steps that leave ReadyQueue alone, and whose message is on its way.     *)
QueueKept ==
  /\ Log' = Log /\ waiting' = waiting
  /\ Entering' = Entering /\ (Entering => ctx'[Patching] = ctx[Patching])
  /\ \A w \in Workers : Leaving(w)' = Leaving(w) /\ (Leaving(w) => ctx'[w] = ctx[w])

(* Steps that leave the messages where they are: no thread gets one or     *)
(* comes to owe an earlier line of it.                                     *)
Steady ==
  /\ QueueKept /\ lastRead' = lastRead
  /\ \A t \in Threads : Working(t)' => Working(t) /\ ctx'[t] = ctx[t] /\ Due(t) <= Due(t)'
  /\ GaveUp => GaveUp'

LEMMA SteadyHands ==
  ASSUME Hands, Steady PROVE Hands'
BY DEF Hands, Steady, QueueKept

(* Ranks and dues are small numbers.                                       *)
LEMMA Numbers ==
  /\ \A kind \in LogPlaces : kind # "err" => Rank[kind] \in Nat
  /\ \A t \in Threads : Working(t) => Due(t) \in Nat
<1>1. \A kind \in LogPlaces : kind # "err" => Rank[kind] \in Nat
  BY LogPlacesAre, RankIs
<1>2. ASSUME NEW t \in Threads, Working(t) PROVE Due(t) \in Nat
  <2>1. pc[t] \in PatchingPlaces \cup WorkerPlaces
    BY <1>2 DEF Working
  <2>2. NextRank[pc[t]] \in Nat
    BY <2>1, NextRankIs DEF PatchingPlaces, WorkerPlaces
  <2> QED
    BY <2>2 DEF Due
<1> QED
  BY <1>1, <1>2

LEMMA SteadyRanked ==
  ASSUME IInv, Control, Hands, Ranked, Steady PROVE Ranked'
<1>1. ASSUME NEW i \in DOMAIN Log, NEW t \in Threads, Working(t)', Log[i].message = ctx'[t]
      PROVE  Rank[Log[i].kind] < Due(t)'
  <2>1. Working(t) /\ ctx'[t] = ctx[t] /\ Due(t) <= Due(t)'
    BY <1>1 DEF Steady, QueueKept
  <2>2. Rank[Log[i].kind] < Due(t)
    BY <1>1, <2>1 DEF Ranked
  <2>3. Log[i].message # 0 /\ Log[i].kind \in LogPlaces
    BY <1>1, <2>1, LogType DEF Hands, IInv, Control, Lines
  <2>4. Rank[Log[i].kind] \in Nat /\ Due(t) \in Nat
    BY <2>1, <2>3, Numbers DEF Ranked
  <2>5. Due(t)' \in Nat
    BY <1>1, NextRankIs DEF Due, Working, PatchingPlaces, WorkerPlaces
  <2> QED
    BY <2>1, <2>2, <2>4, <2>5
<1> QED
  BY <1>1 DEF Ranked, Steady, QueueKept

LEMMA KeptQueued ==
  ASSUME Queued, QueueKept PROVE Queued'
BY DEF Queued, AppendLines, AppendOrder, Accounted, QueueKept, Appended, Dequeued, Says
-----------------------------------------------------------------------------
(* A line on its way to the file stays on its way.                         *)
FlushKept ==
  \A t \in Threads : at'[t] = "flush" => at[t] = "flush" /\ pc'[t] = pc[t] /\ ctx'[t] = ctx[t]

LEMMA TestPointerSteady ==
  ASSUME IInv, Control, NEW t \in Threads, TestPointer(t),
         Log' = Log, logFile' \in Seq(Lines)
  PROVE  Steady /\ Control' /\ FlushKept
<1>1. /\ pc[t] \in LogPlaces /\ at[t] = "level"
      /\ at' = [at EXCEPT ![t] = IF DEBUG_FP = 0 THEN "open" ELSE "print"]
      /\ UNCHANGED threadVars
  BY DEF TestPointer, Level, DLEVEL, threadVars
<1>2. \A u \in Threads : at'[u] = at[u] \/ (u = t /\ at'[u] # "flush" /\ at[u] # "flush")
  BY <1>1 DEF IInv, Types
<1>3. \A u \in Threads : Due(u)' = Due(u) /\ Working(u)' = Working(u)
  BY <1>1, <1>2 DEF Due, Working, threadVars
<1>4. \A u \in Threads : Due(u) <= Due(u)' \/ ~Working(u)
  BY <1>3, Numbers
<1>5. Patching \in Threads /\ Workers \subseteq Threads
  BY DEF Threads
<1>6. Steady
  BY <1>1, <1>2, <1>3, <1>4, <1>5 DEF Steady, QueueKept, GaveUp, Entering, Leaving, threadVars
<1>7. Control'
  BY <1>1, <1>2 DEF Control, threadVars
<1>8. FlushKept
  BY <1>1, <1>2 DEF FlushKept, threadVars
<1> QED
  BY <1>6, <1>7, <1>8

LEMMA fopenSteady ==
  ASSUME IInv, Control, NEW t \in Threads, fopen(t),
         Log' = Log, logFile' \in Seq(Lines)
  PROVE  Steady /\ Control' /\ FlushKept
<1>1. /\ pc[t] \in LogPlaces /\ at[t] = "open"
      /\ at' = [at EXCEPT ![t] = "print"]
      /\ UNCHANGED threadVars
  BY DEF fopen, InDlog
<1>2. \A u \in Threads : at'[u] = at[u] \/ (u = t /\ at'[u] # "flush" /\ at[u] # "flush")
  BY <1>1 DEF IInv, Types
<1>3. \A u \in Threads : Due(u)' = Due(u) /\ Working(u)' = Working(u)
  BY <1>1, <1>2 DEF Due, Working, threadVars
<1>4. \A u \in Threads : Due(u) <= Due(u)' \/ ~Working(u)
  BY <1>3, Numbers
<1>5. Patching \in Threads /\ Workers \subseteq Threads
  BY DEF Threads
<1>6. Steady
  BY <1>1, <1>2, <1>3, <1>4, <1>5 DEF Steady, QueueKept, GaveUp, Entering, Leaving, threadVars
<1>7. Control'
  BY <1>1, <1>2 DEF Control, threadVars
<1>8. FlushKept
  BY <1>1, <1>2 DEF FlushKept, threadVars
<1> QED
  BY <1>6, <1>7, <1>8

LEMMA fflushSteady ==
  ASSUME IInv, Control, NEW t \in Threads, fflush(t),
         Log' = Log, logFile' \in Seq(Lines)
  PROVE  Steady /\ Control' /\ FlushKept
<1>1. /\ pc[t] \in LogPlaces /\ at[t] = "flush"
      /\ at' = [at EXCEPT ![t] = "level"]
      /\ UNCHANGED <<ctx, lastRead, waiting, queueLock>>
  BY DEF fflush, InDlog
<1>2. PICK place \in After[pc[t]] : pc' = [pc EXCEPT ![t] = place]
  BY DEF fflush, Return
<1>3. /\ at \in [Threads -> {"level", "open", "print", "flush"}]
      /\ pc \in [Threads -> Places]
      /\ at'[t] = "level" /\ pc'[t] = place
      /\ \A u \in Threads : u # t => at'[u] = at[u] /\ pc'[u] = pc[u]
  BY <1>1, <1>2 DEF IInv, Types
<1>4. FlushKept
  BY <1>1, <1>3 DEF FlushKept
<1>5. Patching \in Threads /\ Workers \subseteq Threads
  BY DEF Threads
<1>6. /\ Working(t)' => Working(t) /\ Due(t) <= Due(t)'
      /\ t = Patching => /\ place \in PatchingPlaces \cup {"read", "die"}
                         /\ place \in {"append", "write"} <=> pc[t] = "append"
                         /\ place # "append" /\ pc[t] # "write"
                         /\ pc[t] = "err" => place = "die"
                         /\ pc[t] # "die"
      /\ t # Patching => /\ place \in WorkerPlaces \cup {"lock", "die"}
                         /\ place \in {"dequeue", "unlock"} <=> pc[t] = "dequeue"
                         /\ place # "dequeue"
  <2>1. Due(t)' = NextRank[place] + 0 /\ Due(t) = NextRank[pc[t]] + 1
    BY <1>1, <1>3 DEF Due
  <2>2. CASE t = Patching
    <3>1. pc[t] \in {"size", "append", "warn", "err"}
      BY <1>1, <2>2, LogPlacesAre DEF Control, PatchingPlaces
    <3> QED
      BY <1>2, <1>3, <2>1, <2>2, <3>1, AfterIs, NextRankIs DEF Working, PatchingPlaces
  <2>3. CASE t # Patching
    <3>1. pc[t] \in WorkerPlaces \ {"unlock"}
      BY <1>1, <2>3, LogPlacesAre, PlaceOf DEF WorkerPlaces
    <3> QED
      BY <1>2, <1>3, <2>1, <2>3, <3>1, AfterIs, NextRankIs DEF Working, WorkerPlaces
  <2> QED
    BY <2>2, <2>3
<1>7. \A u \in Threads : u # t => Due(u)' = Due(u) /\ Working(u)' = Working(u)
  BY <1>3 DEF Due, Working
<1>8. \A u \in Threads : Working(u)' => Working(u) /\ Due(u) <= Due(u)'
  BY <1>6, <1>7, Numbers
<1>9. GaveUp => GaveUp'
  BY <1>3, <1>5, <1>6 DEF GaveUp
<1>10. Entering' = Entering
  BY <1>1, <1>3, <1>5, <1>6 DEF Entering
<1>11. \A w \in Workers : Leaving(w)' = Leaving(w)
  BY <1>1, <1>3, <1>5, <1>6, LogThreadsAssumption DEF Leaving
<1>12. Steady
  BY <1>1, <1>8, <1>9, <1>10, <1>11 DEF Steady, QueueKept
<1>13. Control'
  <2>1. Patching \notin Workers
    BY LogThreadsAssumption
  <2>2. \A u \in Threads : at'[u] # "level" => pc'[u] \in LogPlaces
    BY <1>3 DEF Control
  <2>3. \A w \in Workers : pc'[w] \in WorkerPlaces \cup {"lock", "die"}
    BY <1>3, <1>5, <1>6, <2>1 DEF Control
  <2>4. \A w \in Workers : pc'[w] \in {"dequeue", "unlock"} => queueLock = w
    BY <1>3, <1>5, <1>6, <2>1 DEF Control
  <2>5. /\ pc'[Patching] \in PatchingPlaces \cup {"read", "err", "die"}
        /\ pc'[Patching] = "err" => ctx[Patching] = 0
        /\ pc'[Patching] \in {"append", "write"} => queueLock = Patching
    BY <1>3, <1>5, <1>6 DEF Control, PatchingPlaces
  <2> QED
    BY <1>1, <2>2, <2>3, <2>4, <2>5 DEF Control
<1> QED
  BY <1>4, <1>12, <1>13

LEMMA DieSteady ==
  ASSUME IInv, Control, UNCHANGED <<threadVars, at>>,
         Log' = Log, logFile' \in Seq(Lines)
  PROVE  Steady /\ Control' /\ FlushKept
<1>1. \A u \in Threads : Due(u)' = Due(u) /\ Working(u)' = Working(u)
  BY DEF Due, Working, threadVars
<1>2. \A u \in Threads : Due(u) <= Due(u)' \/ ~Working(u)
  BY <1>1, Numbers
<1>3. Steady
  BY <1>1, <1>2 DEF Steady, QueueKept, GaveUp, Entering, Leaving, threadVars
<1>4. Control' /\ FlushKept
  BY DEF Control, FlushKept, threadVars
<1> QED
  BY <1>3, <1>4

LEMMA PatchingSteady ==
  ASSUME IInv, Control, ReadFails \/ CheckBacklog \/ PatchingLocks,
         Log' = Log, logFile' \in Seq(Lines)
  PROVE  Steady /\ Control' /\ FlushKept
<1> DEFINE to == pc'[Patching]
<1>1. /\ UNCHANGED <<lastRead, waiting, at>>
      /\ \A t \in Threads : t # Patching => pc'[t] = pc[t] /\ ctx'[t] = ctx[t]
      /\ Patching \in Threads /\ Workers \subseteq Threads /\ Patching \notin Workers
      /\ \/ pc[Patching] = "read" /\ to = "err" /\ ctx'[Patching] = 0 /\ queueLock' = queueLock
         \/ /\ pc[Patching] = "check" /\ to \in {"lock", "warn"}
            /\ ctx' = ctx /\ queueLock' = queueLock
         \/ /\ pc[Patching] = "lock" /\ to = "append"
            /\ ctx' = ctx /\ queueLock = Nobody /\ queueLock' = Patching
  <2>1. Patching \in Threads /\ Workers \subseteq Threads /\ Patching \notin Workers
    BY LogThreadsAssumption DEF Threads
  <2> QED
    BY <2>1 DEF ReadFails, CheckBacklog, PatchingLocks, Go, Runs, lock, logVars, IInv, Types
<1>2. at[Patching] = "level"
  BY <1>1, LogPlacesAre DEF Control
<1>3. \A u \in Threads : u # Patching => Due(u)' = Due(u) /\ Working(u)' = Working(u)
  BY <1>1 DEF Due, Working
<1>4. Working(Patching)' => Working(Patching) /\ Due(Patching) <= Due(Patching)'
                            /\ ctx'[Patching] = ctx[Patching]
  BY <1>1, <1>2, NextRankIs DEF Due, Working, PatchingPlaces
<1>5. \A u \in Threads : Working(u)' => Working(u) /\ Due(u) <= Due(u)' /\ ctx'[u] = ctx[u]
  BY <1>1, <1>3, <1>4, Numbers
<1>6. ~GaveUp /\ ~Entering /\ Entering' = Entering
  BY <1>1, <1>2 DEF GaveUp, Entering
<1>7. \A w \in Workers : Leaving(w)' = Leaving(w) /\ ctx'[w] = ctx[w]
  BY <1>1 DEF Leaving
<1>8. Steady
  BY <1>1, <1>5, <1>6, <1>7 DEF Steady, QueueKept
<1>9. \A w \in Workers : w # Nobody
  BY LogThreadsAssumption
<1>10. Control'
  BY <1>1, <1>2, <1>9 DEF Control, PatchingPlaces
<1>11. FlushKept
  BY <1>1, <1>2 DEF FlushKept
<1> QED
  BY <1>8, <1>10, <1>11

LEMMA WorkerUnlocksSteady ==
  ASSUME IInv, Control, NEW w \in Workers, WorkerUnlocks(w),
         Log' = Log, logFile' \in Seq(Lines)
  PROVE  Steady /\ Control' /\ FlushKept
<1>1. /\ UNCHANGED <<lastRead, waiting, at, ctx>>
      /\ \A t \in Threads : t # w => pc'[t] = pc[t]
      /\ pc[w] = "unlock" /\ pc'[w] = "processing" /\ queueLock = w /\ queueLock' = Nobody
      /\ Patching \in Threads /\ Workers \subseteq Threads
      /\ Patching \notin Workers /\ Patching # w
  <2>1. Patching \in Threads /\ Workers \subseteq Threads /\ Patching \notin Workers
    BY LogThreadsAssumption DEF Threads
  <2> QED
    BY <2>1 DEF WorkerUnlocks, Go, Runs, logVars, IInv, Types, Control
<1>2. at[w] = "level"
  BY <1>1, LogPlacesAre DEF Control
<1>3. \A u \in Threads : u # w => Due(u)' = Due(u) /\ Working(u)' = Working(u)
  BY <1>1 DEF Due, Working
<1>4. Working(w) /\ Due(w) <= Due(w)'
  BY <1>1, <1>2, NextRankIs DEF Due, Working, WorkerPlaces
<1>5. \A u \in Threads : Working(u)' => Working(u) /\ Due(u) <= Due(u)'
  BY <1>3, <1>4, Numbers
<1>6. /\ GaveUp => GaveUp'
      /\ Entering' = Entering
      /\ \A v \in Workers : Leaving(v)' = Leaving(v)
  BY <1>1 DEF GaveUp, Entering, Leaving
<1>7. Steady
  BY <1>1, <1>5, <1>6 DEF Steady, QueueKept
<1>8. \A v \in Workers : pc[v] \in {"dequeue", "unlock"} => v = w
  BY <1>1 DEF Control
<1>9. pc[Patching] \notin {"append", "write"}
  BY <1>1 DEF Control
<1>10. Control'
  BY <1>1, <1>2, <1>8, <1>9 DEF Control, WorkerPlaces
<1>11. FlushKept
  BY <1>1, <1>2 DEF FlushKept
<1> QED
  BY <1>7, <1>10, <1>11
-----------------------------------------------------------------------------
(* A message is read, put into ReadyQueue and taken out of it.             *)
LEMMA ReadMessageStep ==
  ASSUME IInv, Control, Hands, Ranked, Queued, ReadMessage,
         Log' = Log, logFile' \in Seq(Lines)
  PROVE  Control' /\ Hands' /\ Ranked' /\ Queued' /\ FlushKept
<1>1. /\ UNCHANGED <<waiting, queueLock, at>>
      /\ lastRead \in Nat /\ lastRead' = lastRead + 1
      /\ pc[Patching] = "read" /\ pc'[Patching] = "size" /\ ctx'[Patching] = lastRead + 1
      /\ \A t \in Threads : t # Patching => pc'[t] = pc[t] /\ ctx'[t] = ctx[t]
      /\ Patching \in Threads /\ Workers \subseteq Threads /\ Patching \notin Workers
  <2>1. Patching \in Threads /\ Workers \subseteq Threads /\ Patching \notin Workers
    BY LogThreadsAssumption DEF Threads
  <2> QED
    BY <2>1, LogBoundsAssumption DEF ReadMessage, Go, Runs, logVars, IInv, Types
<1>2. at[Patching] = "level"
  BY <1>1, LogPlacesAre DEF Control
<1>3. /\ Working(Patching)'
      /\ \A u \in Threads : u # Patching => Due(u)' = Due(u) /\ Working(u)' = Working(u)
  BY <1>1 DEF Due, Working, PatchingPlaces
<1>4. \A i \in DOMAIN Log : /\ Log[i].message \in Nat /\ Log[i].message <= lastRead
                            /\ Log[i].message # 0
  <2>1. ~GaveUp
    BY <1>1 DEF GaveUp
  <2> QED
    BY <2>1, LogType, LogBoundsAssumption DEF Ranked, IInv, Control, Lines
<1>5. Control'
  BY <1>1, <1>2, LogPlacesAre DEF Control, PatchingPlaces
<1>6. Hands'
  <2>1. \A t \in Threads : Working(t)' => ctx'[t] \in 1 .. lastRead + 1
    BY <1>1, <1>3 DEF Hands
  <2>2. \A t \in Threads : t # Patching /\ Working(t)' => ctx'[t] # ctx'[Patching]
    BY <1>1, <1>3 DEF Hands
  <2>3. \A t, u \in Threads : Working(t)' /\ Working(u)' /\ ctx'[t] = ctx'[u] => t = u
    BY <1>1, <1>3, <2>2 DEF Hands
  <2>4. /\ \A k \in 1 .. Len(waiting) : waiting[k] \in 1 .. lastRead + 1
        /\ \A k \in 1 .. Len(waiting) : waiting[k] # ctx'[Patching]
    BY <1>1 DEF Hands
  <2>5. \A k \in 1 .. Len(waiting), t \in Threads : Working(t)' => waiting[k] # ctx'[t]
    BY <1>1, <1>3, <2>4 DEF Hands
  <2> QED
    BY <1>1, <2>1, <2>3, <2>4, <2>5 DEF Hands
<1>7. Ranked'
  <2>1. \A i \in DOMAIN Log : Log[i].message <= lastRead + 1 /\ Log[i].message # ctx'[Patching]
    BY <1>1, <1>4
  <2>2. \A i \in DOMAIN Log, t \in Threads :
          Working(t)' /\ Log[i].message = ctx'[t] => Rank[Log[i].kind] < Due(t)'
    BY <1>1, <1>3, <2>1 DEF Ranked
  <2> QED
    BY <1>1, <1>4, <2>1, <2>2 DEF Ranked
<1>8. QueueKept
  BY <1>1, <1>2 DEF QueueKept, Entering, Leaving
<1>9. FlushKept
  BY <1>1, <1>2 DEF FlushKept
<1> QED
  BY <1>5, <1>6, <1>7, <1>8, <1>9, KeptQueued

LEMMA WriteStep ==
  ASSUME IInv, Control, Hands, Ranked, Queued, Write,
         Log' = Log, logFile' \in Seq(Lines)
  PROVE  Control' /\ Hands' /\ Ranked' /\ Queued' /\ FlushKept
<1> DEFINE c == ctx[Patching]
           N == Len(waiting)
<1>1. /\ UNCHANGED <<ctx, lastRead, at>>
      /\ pc[Patching] = "write" /\ pc'[Patching] = "read"
      /\ waiting' = Append(waiting, c) /\ queueLock = Patching /\ queueLock' = Nobody
      /\ \A t \in Threads : t # Patching => pc'[t] = pc[t]
      /\ Patching \in Threads /\ Workers \subseteq Threads /\ Patching \notin Workers
  <2>1. Patching \in Threads /\ Workers \subseteq Threads /\ Patching \notin Workers
    BY LogThreadsAssumption DEF Threads
  <2> QED
    BY <2>1 DEF Write, Go, Runs, logVars, IInv, Types, Control
<1>2. at[Patching] = "level"
  BY <1>1, LogPlacesAre DEF Control
<1>3. /\ Working(Patching) /\ ~Working(Patching)' /\ Due(Patching) = 3
      /\ \A u \in Threads : u # Patching => Due(u)' = Due(u) /\ Working(u)' = Working(u)
  BY <1>1, <1>2, NextRankIs DEF Due, Working, PatchingPlaces
<1>4. /\ N \in Nat /\ Len(waiting') = N + 1
      /\ \A k \in 1 .. N : waiting'[k] = waiting[k]
      /\ waiting'[N + 1] = c
      /\ \A k \in 1 .. N + 1 : k \in 1 .. N \/ k = N + 1
  <2>1. waiting \in Seq(0 .. MaxMessages) /\ c \in 0 .. MaxMessages
    BY <1>1 DEF IInv, Types
  <2> QED
    BY <1>1, <2>1, AppendProperties, LenProperties
<1>5. \A v \in Workers : pc[v] \notin {"dequeue", "unlock"} /\ pc'[v] \notin {"dequeue", "unlock"}
  <2>1. \A v \in Workers : v # Patching
    BY <1>1
  <2>2. \A v \in Workers : pc[v] \notin {"dequeue", "unlock"}
    BY <1>1, <2>1 DEF Control
  <2> QED
    BY <1>1, <2>1, <2>2
<1>6. /\ ~GaveUp /\ Entering /\ ~Entering'
      /\ \A v \in Workers : ~Leaving(v) /\ ~Leaving(v)'
  BY <1>1, <1>2, <1>5 DEF GaveUp, Entering, Leaving
<1>7. Control'
  BY <1>1, <1>2, <1>5 DEF Control
<1>8. FlushKept
  BY <1>1, <1>2 DEF FlushKept
<1> HIDE DEF c, N
<1>9. c \in 1 .. lastRead /\ (\A k \in 1 .. N : waiting[k] # c)
      /\ \A t \in Threads : t # Patching /\ Working(t) => ctx[t] # c
  BY <1>1, <1>3 DEF Hands, c, N
<1>10. Hands'
  <2>1. \A k \in 1 .. N + 1 : waiting'[k] \in 1 .. lastRead
    BY <1>4, <1>9 DEF Hands, N
  <2>2. \A k, l \in 1 .. N + 1 : waiting'[k] = waiting'[l] => k = l
    BY <1>4, <1>9 DEF Hands, N
  <2>3. \A k \in 1 .. N + 1, t \in Threads : Working(t)' => waiting'[k] # ctx[t]
    BY <1>3, <1>4, <1>9 DEF Hands, N
  <2>4. /\ \A t \in Threads : Working(t)' => ctx[t] \in 1 .. lastRead
        /\ \A t, u \in Threads : Working(t)' /\ Working(u)' /\ ctx[t] = ctx[u] => t = u
    BY <1>3 DEF Hands
  <2> QED
    BY <1>1, <1>4, <2>1, <2>2, <2>3, <2>4 DEF Hands
<1>11. Ranked'
  <2>1. \A i \in DOMAIN Log : Log[i].message = c => Rank[Log[i].kind] < 3
    BY <1>1, <1>3 DEF Ranked, c
  <2>2. \A i \in DOMAIN Log, k \in 1 .. N + 1 :
          Log[i].message = waiting'[k] => Rank[Log[i].kind] < 3
    BY <1>4, <2>1 DEF Ranked, N
  <2>3. \A i \in DOMAIN Log, t \in Threads :
          Working(t)' /\ Log[i].message = ctx[t] => Rank[Log[i].kind] < Due(t)'
    BY <1>3 DEF Ranked
  <2> QED
    BY <1>1, <1>4, <1>6, <2>2, <2>3 DEF Ranked
<1>12. Queued'
  <2>1. \A k \in 1 .. N + 1 : \E i \in DOMAIN Log : Appended(i, waiting'[k])
    BY <1>4, <1>6 DEF Queued, AppendLines, c, N
  <2>2. \A i, j \in DOMAIN Log, k, l \in 1 .. N + 1 :
          k < l /\ Appended(i, waiting'[k]) /\ Appended(j, waiting'[l]) => i < j
    <3> SUFFICES ASSUME NEW i \in DOMAIN Log, NEW j \in DOMAIN Log,
                        NEW k \in 1 .. N + 1, NEW l \in 1 .. N + 1, k < l,
                        Appended(i, waiting'[k]), Appended(j, waiting'[l])
                 PROVE  i < j
      OBVIOUS
    <3>1. k \in 1 .. N /\ waiting'[k] = waiting[k]
      BY <1>4
    <3>2. CASE l = N + 1
      BY <1>4, <1>6, <3>1, <3>2 DEF Queued, AppendOrder, c, N
    <3>3. CASE l \in 1 .. N
      BY <1>4, <3>1, <3>3 DEF Queued, AppendOrder, N
    <3> QED
      BY <1>4, <3>2, <3>3
  <2>3. \A h \in DOMAIN Log : Log[h].kind = "append" =>
          \/ \E g \in DOMAIN Log : Dequeued(g, Log[h].message)
          \/ \E k \in 1 .. N + 1 : waiting'[k] = Log[h].message
    <3> SUFFICES ASSUME NEW h \in DOMAIN Log, Log[h].kind = "append",
                        ~\E g \in DOMAIN Log : Dequeued(g, Log[h].message)
                 PROVE  \E k \in 1 .. N + 1 : waiting'[k] = Log[h].message
      OBVIOUS
    <3>1. \/ \E k \in 1 .. N : waiting[k] = Log[h].message
          \/ c = Log[h].message
      BY <1>6 DEF Queued, Accounted, c, N
    <3>2. N + 1 \in 1 .. N + 1 /\ \A k \in 1 .. N : k \in 1 .. N + 1
      BY <1>4
    <3> QED
      BY <1>4, <3>1, <3>2
  <2>4. InQueueOrder(Log)
    BY DEF Queued
  <2>5. AppendLines'
    BY <1>1, <1>4, <1>6, <2>1 DEF AppendLines, Appended, Says
  <2>6. AppendOrder'
    BY <1>1, <1>4, <1>6, <2>2 DEF AppendOrder, Appended, Says
  <2>7. Accounted'
    BY <1>1, <1>4, <1>6, <2>3 DEF Accounted, Dequeued, Says
  <2> QED
    BY <2>4, <2>5, <2>6, <2>7 DEF Queued
<1> QED
  BY <1>7, <1>8, <1>10, <1>11, <1>12
LEMMA WorkerTakesStep ==
  ASSUME IInv, Control, Hands, Ranked, Queued, NEW w \in Workers, WorkerTakes(w),
         Log' = Log, logFile' \in Seq(Lines)
  PROVE  Control' /\ Hands' /\ Ranked' /\ Queued' /\ FlushKept
<1> DEFINE c == waiting[1]
           N == Len(waiting)
<1>1. /\ UNCHANGED <<lastRead, at>>
      /\ pc[w] = "lock" /\ pc'[w] = "dequeue" /\ ctx'[w] = Head(waiting)
      /\ waiting # <<>> /\ waiting' = Tail(waiting)
      /\ queueLock = Nobody /\ queueLock' = w
      /\ \A t \in Threads : t # w => pc'[t] = pc[t] /\ ctx'[t] = ctx[t]
      /\ Patching \in Threads /\ Workers \subseteq Threads
      /\ Patching \notin Workers /\ Patching # w
  <2>1. Patching \in Threads /\ Workers \subseteq Threads /\ Patching \notin Workers
    BY LogThreadsAssumption DEF Threads
  <2> QED
    BY <2>1 DEF WorkerTakes, Go, Runs, lock, logVars, IInv, Types
<1>2. at[w] = "level"
  BY <1>1, LogPlacesAre DEF Control
<1>3. /\ ~Working(w) /\ Working(w)' /\ Due(w)' = 3
      /\ \A u \in Threads : u # w => Due(u)' = Due(u) /\ Working(u)' = Working(u)
  BY <1>1, <1>2, NextRankIs DEF Due, Working, WorkerPlaces
<1>4. /\ N \in Nat /\ 1 \in 1 .. N /\ Len(waiting') = N - 1 /\ ctx'[w] = c
      /\ \A k \in 1 .. N - 1 : k + 1 \in 1 .. N /\ waiting'[k] = waiting[k + 1]
  <2>1. waiting \in Seq(0 .. MaxMessages)
    BY DEF IInv, Types
  <2>2. N \in Nat /\ N # 0
    BY <1>1, <2>1, EmptySeq
  <2>3. /\ Len(Tail(waiting)) = N - 1
        /\ \A k \in 1 .. N - 1 : Tail(waiting)[k] = waiting[k + 1]
    BY <1>1, <2>1, <2>2, HeadTailProperties
  <2>4. Head(waiting) = waiting[1]
    BY <1>1, <2>1
  <2> QED
    BY <1>1, <2>2, <2>3, <2>4
<1>5. /\ pc[Patching] \notin {"append", "write"}
      /\ \A v \in Workers : pc[v] \notin {"dequeue", "unlock"}
  BY <1>1, LogThreadsAssumption DEF Control
<1>6. /\ GaveUp => GaveUp'
      /\ ~Entering /\ ~Entering'
      /\ \A v \in Workers : ~Leaving(v) /\ (Leaving(v)' => v = w)
      /\ Leaving(w)'
  BY <1>1, <1>2, <1>5 DEF GaveUp, Entering, Leaving
<1>7. Control'
  <2>1. /\ pc'[Patching] = pc[Patching] /\ ctx'[Patching] = ctx[Patching]
        /\ \A v \in Workers : v # w => pc'[v] = pc[v]
    BY <1>1
  <2>2. \A t \in Threads : at'[t] # "level" => pc'[t] \in LogPlaces
    BY <1>1, <1>2 DEF Control
  <2>3. \A v \in Workers : /\ pc'[v] \in WorkerPlaces \cup {"lock", "die"}
                           /\ pc'[v] \in {"dequeue", "unlock"} => v = w
    BY <1>1, <1>5, <2>1 DEF Control, WorkerPlaces
  <2> QED
    BY <1>1, <1>5, <2>1, <2>2, <2>3 DEF Control
<1>8. FlushKept
  BY <1>1, <1>2 DEF FlushKept
<1> HIDE DEF c, N
<1>9. /\ c \in 1 .. lastRead
      /\ \A k \in 1 .. N - 1 : waiting'[k] # c
      /\ \A t \in Threads : t # w /\ Working(t)' => ctx'[t] # c
  BY <1>1, <1>3, <1>4 DEF Hands, c, N
<1>10. Hands'
  <2>1. \A k \in 1 .. N - 1 : waiting'[k] \in 1 .. lastRead
    BY <1>4 DEF Hands, N
  <2>2. \A k, l \in 1 .. N - 1 : waiting'[k] = waiting'[l] => k = l
    BY <1>4 DEF Hands, N
  <2>3. \A k \in 1 .. N - 1, t \in Threads : Working(t)' => waiting'[k] # ctx'[t]
    BY <1>1, <1>3, <1>4, <1>9 DEF Hands, N
  <2>4. /\ \A t \in Threads : Working(t)' => ctx'[t] \in 1 .. lastRead
        /\ \A t, u \in Threads : Working(t)' /\ Working(u)' /\ ctx'[t] = ctx'[u] => t = u
    BY <1>1, <1>3, <1>4, <1>9 DEF Hands
  <2> QED
    BY <1>1, <1>4, <2>1, <2>2, <2>3, <2>4 DEF Hands
<1>11. Ranked'
  <2>1. \A i \in DOMAIN Log : Log[i].message = c => Rank[Log[i].kind] < 3
    BY <1>4 DEF Ranked, c, N
  <2>2. \A i \in DOMAIN Log, k \in 1 .. N - 1 :
          Log[i].message = waiting'[k] => Rank[Log[i].kind] < 3
    BY <1>4 DEF Ranked, N
  <2>3. \A i \in DOMAIN Log, t \in Threads :
          Working(t)' /\ Log[i].message = ctx'[t] => Rank[Log[i].kind] < Due(t)'
    BY <1>1, <1>3, <1>4, <2>1 DEF Ranked
  <2> QED
    BY <1>1, <1>4, <1>6, <2>2, <2>3 DEF Ranked
<1>12. Queued'
  <2>1. /\ \A k \in 1 .. N - 1 : \E i \in DOMAIN Log : Appended(i, waiting'[k])
        /\ \E i \in DOMAIN Log : Appended(i, c)
    BY <1>4 DEF Queued, AppendLines, c, N
  <2>2. /\ \A i, j \in DOMAIN Log, k, l \in 1 .. N - 1 :
             k < l /\ Appended(i, waiting'[k]) /\ Appended(j, waiting'[l]) => i < j
        /\ \A i, j \in DOMAIN Log, k \in 1 .. N - 1 :
             Appended(i, c) /\ Appended(j, waiting'[k]) => i < j
    <3>1. ASSUME NEW i \in DOMAIN Log, NEW j \in DOMAIN Log,
                 NEW k \in 1 .. N - 1, NEW l \in 1 .. N - 1, k < l,
                 Appended(i, waiting'[k]), Appended(j, waiting'[l])
          PROVE  i < j
      <4>1. k + 1 < l + 1 /\ k + 1 \in 1 .. N /\ l + 1 \in 1 .. N
        BY <1>4, <3>1
      <4>2. Appended(i, waiting[k + 1]) /\ Appended(j, waiting[l + 1])
        BY <1>4, <3>1
      <4> QED
        BY <4>1, <4>2 DEF Queued, AppendOrder, N
    <3>2. ASSUME NEW i \in DOMAIN Log, NEW j \in DOMAIN Log, NEW k \in 1 .. N - 1,
                 Appended(i, c), Appended(j, waiting'[k])
          PROVE  i < j
      <4>1. 1 < k + 1 /\ k + 1 \in 1 .. N
        BY <1>4
      <4>2. Appended(i, waiting[1]) /\ Appended(j, waiting[k + 1])
        BY <1>4, <3>2 DEF c
      <4> QED
        BY <1>4, <4>1, <4>2 DEF Queued, AppendOrder, N
    <3> QED
      BY <3>1, <3>2
  <2>3. \A h \in DOMAIN Log : Log[h].kind = "append" =>
          \/ \E g \in DOMAIN Log : Dequeued(g, Log[h].message)
          \/ \E k \in 1 .. N - 1 : waiting'[k] = Log[h].message
          \/ c = Log[h].message
    <3> SUFFICES ASSUME NEW h \in DOMAIN Log, Log[h].kind = "append",
                        ~\E g \in DOMAIN Log : Dequeued(g, Log[h].message),
                        c # Log[h].message
                 PROVE  \E k \in 1 .. N - 1 : waiting'[k] = Log[h].message
      OBVIOUS
    <3>1. PICK k \in 1 .. N : waiting[k] = Log[h].message
      BY <1>6 DEF Queued, Accounted, N
    <3>2. k # 1
      BY <3>1 DEF c
    <3>3. k - 1 \in 1 .. N - 1 /\ (k - 1) + 1 = k
      BY <1>4, <3>2
    <3> QED
      BY <1>4, <3>1, <3>3
  <2>4. InQueueOrder(Log)
    BY DEF Queued
  <2>5. AppendLines'
    BY <1>1, <1>4, <1>6, <2>1 DEF AppendLines, Appended, Says
  <2>6. AppendOrder'
    BY <1>1, <1>4, <1>6, <2>2 DEF AppendOrder, Appended, Says
  <2>7. Accounted'
    BY <1>1, <1>4, <1>6, <2>3 DEF Accounted, Dequeued, Says
  <2> QED
    BY <2>4, <2>5, <2>6, <2>7 DEF Queued
<1> QED
  BY <1>7, <1>8, <1>10, <1>11, <1>12

-----------------------------------------------------------------------------
(* A line is printed.                                                      *)
LEMMA PrinterIs ==
  ASSUME IInv, Control, Hands, NEW t \in Threads, vfprintf(t)
  PROVE  /\ pc[t] \in LogPlaces /\ at[t] = "print" /\ at'[t] = "flush"
         /\ \A u \in Threads : u # t => at'[u] = at[u]
         /\ UNCHANGED <<pc, ctx, lastRead, waiting, queueLock, returned>>
         /\ \/ /\ Working(t) /\ pc[t] # "err" /\ ctx[t] \in 1 .. lastRead
               /\ Rank[pc[t]] \in Nat
               /\ Due(t) = Rank[pc[t]] /\ Due(t)' = Rank[pc[t]] + 1
            \/ ~Working(t) /\ t = Patching /\ pc[t] = "err" /\ ctx[t] = 0
<1>1. /\ pc[t] \in LogPlaces /\ at[t] = "print" /\ at'[t] = "flush"
      /\ \A u \in Threads : u # t => at'[u] = at[u]
      /\ UNCHANGED <<pc, ctx, lastRead, waiting, queueLock, returned>>
  BY DEF vfprintf, InDlog, threadVars, IInv, Types
<1>2. CASE t = Patching
  <2>1. pc[t] \in {"size", "append", "warn", "err"}
    BY <1>1, <1>2, LogPlacesAre DEF Control, PatchingPlaces
  <2>2. CASE pc[t] = "err"
    BY <1>1, <1>2, <2>2 DEF Working, PatchingPlaces, Control
  <2>3. CASE pc[t] # "err"
    <3>1. Working(t)
      BY <1>2, <2>1, <2>3 DEF Working, PatchingPlaces
    <3>2. Rank[pc[t]] = NextRank[pc[t]] /\ Rank[pc[t]] \in Nat
      BY <2>1, <2>3, RankIs, NextRankIs
    <3> QED
      BY <1>1, <2>3, <3>1, <3>2 DEF Due, Hands
  <2> QED
    BY <2>2, <2>3
<1>3. CASE t # Patching
  <2>1. pc[t] \in WorkerPlaces \ {"unlock"}
    BY <1>1, <1>3, LogPlacesAre, PlaceOf DEF WorkerPlaces
  <2>2. Working(t) /\ pc[t] # "err"
    BY <1>3, <2>1 DEF Working, WorkerPlaces
  <2>3. Rank[pc[t]] = NextRank[pc[t]] /\ Rank[pc[t]] \in Nat
    BY <2>1, RankIs, NextRankIs DEF WorkerPlaces
  <2> QED
    BY <1>1, <2>2, <2>3 DEF Due, Hands
<1> QED
  BY <1>2, <1>3
LEMMA PrintedLine ==
  ASSUME IInv, Control, NEW t \in Threads, vfprintf(t)
  PROVE  /\ Len(Log) \in Nat /\ DOMAIN Log = 1 .. Len(Log)
         /\ DOMAIN Log' = 1 .. Len(Log) + 1
         /\ \A i \in 1 .. Len(Log) : Log'[i] = Log[i] /\ Log[i] \in Lines
         /\ Log'[Len(Log) + 1].message = ctx[t] /\ Log'[Len(Log) + 1].kind = pc[t]
         /\ \A i \in 1 .. Len(Log) + 1 : i \in 1 .. Len(Log) \/ i = Len(Log) + 1
         /\ Len(Log) + 1 \in 1 .. Len(Log) + 1
         /\ \A i \in 1 .. Len(Log) : i \in 1 .. Len(Log) + 1 /\ i < Len(Log) + 1
<1>1. Types /\ logFile \in Seq(Lines)
  BY DEF IInv, Control
<1>2. /\ Len(Log) \in Nat /\ DOMAIN Log = 1 .. Len(Log)
      /\ \A i \in DOMAIN Log : Log[i] \in Lines
  BY <1>1, LogType
<1>3. /\ DOMAIN Log' = 1 .. Len(Log) + 1
      /\ \A i \in 1 .. Len(Log) : Log'[i] = Log[i]
      /\ Log'[Len(Log) + 1] = Line(t)
  BY <1>1, Printed
<1>4. Line(t).message = ctx[t] /\ Line(t).kind = pc[t]
  BY DEF Line
<1> HIDE DEF Log
<1>5. /\ \A i \in 1 .. Len(Log) + 1 : i \in 1 .. Len(Log) \/ i = Len(Log) + 1
      /\ Len(Log) + 1 \in 1 .. Len(Log) + 1
      /\ \A i \in 1 .. Len(Log) : i \in 1 .. Len(Log) + 1 /\ i < Len(Log) + 1
  BY <1>2
<1> QED
  BY <1>2, <1>3, <1>4, <1>5

LEMMA PrintRanked ==
  ASSUME IInv, Control, Hands, Ranked, NEW t \in Threads, vfprintf(t)
  PROVE  Ranked'
<1> DEFINE N == Len(Log)
<1>1. /\ N \in Nat /\ DOMAIN Log = 1 .. N /\ DOMAIN Log' = 1 .. N + 1
      /\ \A i \in 1 .. N : Log'[i] = Log[i] /\ Log[i] \in Lines
      /\ Log'[N + 1].message = ctx[t] /\ Log'[N + 1].kind = pc[t]
      /\ \A i \in 1 .. N + 1 : i \in 1 .. N \/ i = N + 1
  BY PrintedLine
<1>2. /\ pc[t] \in LogPlaces /\ at[t] = "print" /\ at'[t] = "flush"
      /\ \A u \in Threads : u # t => at'[u] = at[u]
      /\ UNCHANGED <<pc, ctx, lastRead, waiting>>
      /\ \/ /\ Working(t) /\ pc[t] # "err" /\ ctx[t] \in 1 .. lastRead
            /\ Rank[pc[t]] \in Nat
            /\ Due(t) = Rank[pc[t]] /\ Due(t)' = Rank[pc[t]] + 1
         \/ ~Working(t) /\ t = Patching /\ pc[t] = "err" /\ ctx[t] = 0
  BY PrinterIs
<1>3. lastRead \in Nat /\ \A i \in 1 .. N : Log[i].message \in Nat /\ Log[i].kind \in LogPlaces
  BY <1>1, LogBoundsAssumption DEF IInv, Types, Lines
<1>4. \A u \in Threads : /\ Working(u)' = Working(u)
                         /\ u # t => Due(u)' = Due(u)
  BY <1>2 DEF Working, Due
<1> HIDE DEF N
<1>5. ASSUME NEW i \in 1 .. N, Log[i].message = ctx[t]
      PROVE  Working(t) /\ Rank[Log[i].kind] \in Nat /\ Rank[Log[i].kind] < Rank[pc[t]]
  <2>1. Log[i].message # 0
    BY <1>1, <1>2, <1>5 DEF Ranked, GaveUp
  <2>2. Working(t)
    BY <1>2, <1>5, <2>1
  <2>3. Rank[Log[i].kind] < Due(t)
    BY <1>1, <1>5, <2>2 DEF Ranked
  <2>4. Rank[Log[i].kind] \in Nat
    BY <1>1, <1>3, <2>1, Numbers DEF Ranked
  <2> QED
    BY <1>2, <2>2, <2>3, <2>4
<1>6. Ordered(Log)'
  <2> SUFFICES ASSUME NEW i \in 1 .. N + 1, NEW j \in 1 .. N + 1, i < j,
                      Log'[i].message = Log'[j].message
               PROVE  Rank[Log'[i].kind] < Rank[Log'[j].kind]
    BY <1>1 DEF Ordered
  <2>1. i \in 1 .. N
    BY <1>1
  <2>2. CASE j \in 1 .. N
    BY <1>1, <2>1, <2>2 DEF Ranked, Ordered
  <2>3. CASE j = N + 1
    BY <1>1, <1>5, <2>1, <2>3
  <2> QED
    BY <1>1, <2>2, <2>3
<1>7. GaveUp => GaveUp'
  BY <1>2 DEF GaveUp, Threads
<1>11. \A i, j \in 1 .. N + 1 : Log'[i].message = 0 /\ Log'[j].message = 0 => i = j
  <2>1. \A i \in 1 .. N : Log[i].message = ctx[t] => ctx[t] # 0
    BY <1>2, <1>5
  <2> QED
    BY <1>1, <2>1 DEF Ranked
<1>8. \A i \in 1 .. N + 1 : /\ Log'[i].message <= lastRead
                            /\ Log'[i].kind = "err" <=> Log'[i].message = 0
                            /\ Log'[i].message = 0 => GaveUp'
  <2>1. ctx[t] = 0 => GaveUp'
    BY <1>2 DEF GaveUp
  <2>2. ctx[t] <= lastRead /\ (pc[t] = "err" <=> ctx[t] = 0)
    BY <1>2, <1>3
  <2> QED
    BY <1>1, <1>7, <2>1, <2>2 DEF Ranked
<1>9. ASSUME NEW i \in 1 .. N + 1, NEW u \in Threads, Working(u), Log'[i].message = ctx[u]
      PROVE  Rank[Log'[i].kind] < Due(u)'
  <2>1. CASE i = N + 1
    <3>1. ctx[u] # 0 /\ ctx[u] = ctx[t]
      BY <1>1, <1>9, <2>1 DEF Hands
    <3>2. Working(t) /\ u = t
      BY <1>2, <1>9, <3>1 DEF Hands
    <3> QED
      BY <1>1, <1>2, <2>1, <3>2
  <2>2. CASE i \in 1 .. N /\ u = t
    BY <1>1, <1>2, <1>5, <1>9, <2>2
  <2>3. CASE i \in 1 .. N /\ u # t
    BY <1>1, <1>4, <1>9, <2>3 DEF Ranked
  <2> QED
    BY <1>1, <2>1, <2>2, <2>3
<1>10. ASSUME NEW i \in 1 .. N + 1, NEW k \in 1 .. Len(waiting), Log'[i].message = waiting[k]
       PROVE  Rank[Log'[i].kind] < 3
  <2>1. i # N + 1
    BY <1>1, <1>2, <1>10 DEF Hands
  <2> QED
    BY <1>1, <1>10, <2>1 DEF Ranked
<1> QED
  BY <1>1, <1>2, <1>4, <1>6, <1>8, <1>9, <1>10, <1>11 DEF Ranked

LEMMA PrintQueued ==
  ASSUME IInv, Control, Hands, Ranked, Queued, NEW t \in Threads, vfprintf(t)
  PROVE  Queued'
<1> DEFINE N == Len(Log)
<1>1. /\ N \in Nat /\ DOMAIN Log = 1 .. N /\ DOMAIN Log' = 1 .. N + 1
      /\ \A i \in 1 .. N : Log'[i] = Log[i]
      /\ Log'[N + 1].message = ctx[t] /\ Log'[N + 1].kind = pc[t]
      /\ \A i \in 1 .. N + 1 : i \in 1 .. N \/ i = N + 1
      /\ N + 1 \in 1 .. N + 1 /\ \A i \in 1 .. N : i \in 1 .. N + 1 /\ i < N + 1
  BY PrintedLine
<1>2. /\ at[t] = "print" /\ at'[t] = "flush"
      /\ \A u \in Threads : u # t => at'[u] = at[u]
      /\ UNCHANGED <<pc, ctx, waiting>>
      /\ ctx[t] # 0 => Working(t) /\ Due(t) = Rank[pc[t]]
      /\ pc[t] = "err" \/ Working(t)
  BY PrinterIs
<1>3. /\ \A i \in 1 .. N : \A m, kind : Says(Log', i, m, kind) <=> Says(Log, i, m, kind)
      /\ \A m, kind : Says(Log', N + 1, m, kind) <=> m = ctx[t] /\ kind = pc[t]
  BY <1>1 DEF Says
<1>4. /\ Patching \in Threads /\ Workers \subseteq Threads /\ Patching \notin Workers
  BY LogThreadsAssumption DEF Threads
<1> HIDE DEF N
<1>5. ASSUME NEW j \in 1 .. N + 1, Log'[j].kind = "dequeue", j # N + 1 \/ pc[t] # "dequeue"
      PROVE  \E i \in DOMAIN Log' :
               /\ i < j /\ Says(Log', i, Log'[j].message, "append")
               /\ \A h \in DOMAIN Log' : h < i /\ Log'[h].kind = "append" =>
                    \E g \in DOMAIN Log' : g < j /\ Says(Log', g, Log'[h].message, "dequeue")
  <2>1. j \in 1 .. N
    BY <1>1, <1>5
  <2>2. PICK i \in 1 .. N :
          /\ i < j /\ Says(Log, i, Log[j].message, "append")
          /\ \A h \in 1 .. N : h < i /\ Log[h].kind = "append" =>
               \E g \in 1 .. N : g < j /\ Says(Log, g, Log[h].message, "dequeue")
    BY <1>1, <1>5, <2>1 DEF Queued, InQueueOrder
  <2>3. ASSUME NEW h \in 1 .. N + 1, h < i, Log'[h].kind = "append"
        PROVE  \E g \in 1 .. N + 1 : g < j /\ Says(Log', g, Log'[h].message, "dequeue")
    BY <1>1, <1>3, <2>2, <2>3
  <2> QED
    BY <1>1, <1>3, <2>1, <2>2, <2>3
<1>6. CASE pc[t] = "append"
  <2>1. t = Patching
    BY <1>4, <1>6, PlaceOf DEF WorkerPlaces
  <2>2. /\ Entering' /\ ~Entering /\ ctx[t] # 0
        /\ \A v \in Workers : ~Leaving(v) /\ ~Leaving(v)'
    <3>1. \A v \in Workers : pc[v] # "dequeue"
      BY <1>4, <1>6, <2>1 DEF Control
    <3>2. Working(t)
      BY <1>2, <1>6
    <3> QED
      BY <1>2, <1>6, <2>1, <3>1, <3>2 DEF Entering, Leaving, Hands
  <2>3. AppendLines'
    BY <1>1, <1>2, <1>3, <1>6, <2>1, <2>2 DEF Queued, AppendLines, Appended
  <2>4. \A i \in 1 .. N, k \in 1 .. Len(waiting) : waiting[k] # ctx[t] /\ ~Appended(i, ctx[t])
    <3>1. Rank["append"] = 2
      BY RankIs
    <3>2. \A i \in 1 .. N : ~Appended(i, ctx[t])
      BY <1>1, <1>2, <1>6, <2>2, <3>1 DEF Ranked, Appended, Says
    <3> QED
      BY <1>2, <2>2, <3>2 DEF Hands
  <2>5. ASSUME NEW i \in 1 .. N + 1, NEW k \in 1 .. Len(waiting), Says(Log', i, waiting[k], "append")
        PROVE  i \in 1 .. N /\ Appended(i, waiting[k])
    <3>1. waiting[k] # ctx[t]
      BY <1>2, <2>2 DEF Hands
    <3> QED
      BY <1>1, <1>3, <2>5, <3>1 DEF Appended
  <2>6. AppendOrder'
    <3>1. \A i, j \in 1 .. N + 1, k, l \in 1 .. Len(waiting) :
            k < l /\ Says(Log', i, waiting[k], "append") /\ Says(Log', j, waiting[l], "append")
              => i < j
      BY <1>1, <2>5 DEF Queued, AppendOrder
    <3>2. \A i, j \in 1 .. N + 1, k \in 1 .. Len(waiting) :
            Says(Log', i, waiting[k], "append") /\ Says(Log', j, ctx[t], "append") => i < j
      BY <1>1, <1>3, <2>4, <2>5 DEF Appended
    <3> QED
      BY <1>1, <1>2, <2>1, <2>2, <3>1, <3>2 DEF AppendOrder, Appended
  <2>7. Accounted'
    BY <1>1, <1>2, <1>3, <2>1, <2>2 DEF Queued, Accounted, Dequeued
  <2>8. InQueueOrder(Log)'
    BY <1>1, <1>5, <1>6 DEF InQueueOrder
  <2> QED
    BY <2>3, <2>6, <2>7, <2>8 DEF Queued
<1>7. CASE pc[t] = "dequeue"
  <2>1. t \in Workers /\ t # Patching
    BY <1>4, <1>7, PlaceOf DEF PatchingPlaces
  <2>2. /\ ~Entering /\ ~Entering' /\ Leaving(t) /\ ctx[t] # 0
        /\ \A v \in Workers : ~Leaving(v)' /\ (Leaving(v) => v = t)
    <3>1. queueLock = t /\ pc[Patching] \notin {"append", "write"}
      BY <1>7, <2>1 DEF Control
    <3>2. \A v \in Workers : pc[v] = "dequeue" => v = t
      BY <3>1 DEF Control
    <3>3. Working(t)
      BY <1>2, <1>7
    <3> QED
      BY <1>2, <1>7, <2>1, <3>1, <3>2, <3>3 DEF Entering, Leaving, Hands
  <2>3. \A i \in 1 .. N + 1 : \A m : Says(Log', i, m, "append") <=> i \in 1 .. N /\ Appended(i, m)
    BY <1>1, <1>3, <1>7 DEF Appended
  <2>4. AppendLines'
    BY <1>1, <1>2, <2>2, <2>3 DEF Queued, AppendLines, Appended
  <2>5. AppendOrder'
    BY <1>1, <1>2, <2>2, <2>3 DEF Queued, AppendOrder, Appended
  <2>6. Accounted'
    <3>1. ASSUME NEW h \in 1 .. N + 1, Log'[h].kind = "append"
          PROVE  \/ \E g \in 1 .. N + 1 : Says(Log', g, Log'[h].message, "dequeue")
                 \/ \E k \in 1 .. Len(waiting) : waiting[k] = Log'[h].message
      <4>1. h \in 1 .. N /\ Log'[h] = Log[h]
        BY <1>1, <1>7, <3>1
      <4> QED
        BY <1>1, <1>3, <1>7, <2>2, <3>1, <4>1 DEF Queued, Accounted, Dequeued
    <3> QED
      BY <1>1, <1>2, <3>1 DEF Accounted, Dequeued
  <2>7. PICK i \in 1 .. N : Appended(i, ctx[t])
    BY <1>1, <2>1, <2>2 DEF Queued, AppendLines
  <2>8. ASSUME NEW h \in 1 .. N, h < i, Log[h].kind = "append"
        PROVE  \E g \in 1 .. N : Dequeued(g, Log[h].message)
    <3>1. Log[h].message # ctx[t]
      <4>1. Rank["append"] = 2
        BY RankIs
      <4> QED
        BY <1>1, <2>7, <2>8, <4>1 DEF Ranked, Ordered, Appended, Says
    <3>2. \A k \in 1 .. Len(waiting) : waiting[k] # Log[h].message
      <4>1. ASSUME NEW k \in 1 .. Len(waiting), waiting[k] = Log[h].message PROVE i < h
        BY <1>1, <2>1, <2>2, <2>7, <2>8, <4>1 DEF Queued, AppendOrder, Appended, Says
      <4> QED
        BY <2>8, <4>1
    <3> QED
      BY <1>1, <2>2, <2>8, <3>1, <3>2 DEF Queued, Accounted
  <2>9. InQueueOrder(Log)'
    <3>1. /\ i \in 1 .. N + 1 /\ i < N + 1 /\ Says(Log', i, Log'[N + 1].message, "append")
          /\ \A h \in 1 .. N + 1 : h < i /\ Log'[h].kind = "append" =>
               \E g \in 1 .. N + 1 : g < N + 1 /\ Says(Log', g, Log'[h].message, "dequeue")
      BY <1>1, <1>3, <2>7, <2>8 DEF Appended, Dequeued
    <3> QED
      BY <1>1, <1>5, <3>1 DEF InQueueOrder
  <2> QED
    BY <2>4, <2>5, <2>6, <2>9 DEF Queued
<1>8. CASE pc[t] \notin {"append", "dequeue"}
  <2>1. /\ Entering' = Entering
        /\ \A v \in Workers : Leaving(v)' = Leaving(v)
    BY <1>2, <1>4, <1>8 DEF Entering, Leaving
  <2>2. \A i \in 1 .. N + 1 : \A m :
          /\ Says(Log', i, m, "append") <=> i \in 1 .. N /\ Appended(i, m)
          /\ Says(Log', i, m, "dequeue") <=> i \in 1 .. N /\ Dequeued(i, m)
    BY <1>1, <1>3, <1>8 DEF Appended, Dequeued
  <2>3. AppendLines'
    BY <1>1, <1>2, <2>1, <2>2 DEF Queued, AppendLines, Appended
  <2>4. AppendOrder'
    BY <1>1, <1>2, <2>1, <2>2 DEF Queued, AppendOrder, Appended
  <2>5. Accounted'
    <3>1. ASSUME NEW h \in 1 .. N + 1, Log'[h].kind = "append"
          PROVE  h \in 1 .. N /\ Log'[h] = Log[h]
      BY <1>1, <1>8, <3>1
    <3> QED
      BY <1>1, <1>2, <2>1, <2>2, <3>1 DEF Queued, Accounted, Dequeued
  <2>6. InQueueOrder(Log)'
    BY <1>1, <1>5, <1>8 DEF InQueueOrder
  <2> QED
    BY <2>3, <2>4, <2>5, <2>6 DEF Queued
<1> QED
  BY <1>6, <1>7, <1>8
-----------------------------------------------------------------------------
LEMMA RangeIs ==
  ASSUME NEW s, NEW x
  PROVE  x \in Range(s) <=> \E i \in DOMAIN s : x = s[i]
BY DEF Range

LEMMA FileInLog ==
  ASSUME Types, logFile \in Seq(Lines)
  PROVE  /\ Range(logFile) \subseteq Range(Log)
         /\ \A i \in DOMAIN logFile : i \in DOMAIN Log /\ Log[i] = logFile[i]
         /\ \A j \in DOMAIN logFile, i \in DOMAIN Log : i < j => i \in DOMAIN logFile
<1>1. Buffer \in Seq(Lines)
  BY BufferType
<1>2. /\ Len(logFile) \in Nat /\ DOMAIN logFile = 1 .. Len(logFile)
      /\ Len(Buffer) \in Nat /\ DOMAIN Log = 1 .. Len(Log)
  BY <1>1, LenProperties, LogType
<1>3. /\ Len(Log) = Len(logFile) + Len(Buffer)
      /\ \A i \in 1 .. Len(logFile) + Len(Buffer) :
           Log[i] = IF i <= Len(logFile) THEN logFile[i] ELSE Buffer[i - Len(logFile)]
  BY <1>1, ConcatProperties DEF Log
<1> HIDE DEF Log, Buffer
<1>4. \A i \in DOMAIN logFile : i \in DOMAIN Log /\ Log[i] = logFile[i]
  BY <1>2, <1>3
<1>5. \A j \in DOMAIN logFile, i \in DOMAIN Log : i < j => i \in DOMAIN logFile
  BY <1>2
<1>6. Range(logFile) \subseteq Range(Log)
  BY <1>4, RangeIs
<1> QED
  BY <1>4, <1>5, <1>6

LEMMA PrintFlushing ==
  ASSUME IInv, Control, Hands, Flushing, NEW t \in Threads, vfprintf(t)
  PROVE  Control' /\ Hands' /\ Flushing'
<1>1. /\ pc[t] \in LogPlaces
      /\ \A u \in Threads : u # t => at'[u] = at[u]
      /\ UNCHANGED <<pc, ctx, lastRead, waiting, queueLock, returned>>
  BY PrinterIs
<1>2. logFile' = logFile
  BY DEF vfprintf
<1>3. Control'
  BY <1>1, <1>2 DEF Control
<1>4. Hands'
  BY <1>1 DEF Hands, Working
<1>5. \A u \in Threads : Line(u)' = Line(u)
  BY <1>1 DEF Line
<1>6. Line(t) \in Range(Log')
  <2>1. /\ DOMAIN Log' = 1 .. Len(Log) + 1 /\ Log'[Len(Log) + 1] = Line(t)
        /\ Len(Log) + 1 \in 1 .. Len(Log) + 1
    BY Printed, PrintedLine DEF Control
  <2> QED
    BY <2>1, RangeIs
<1>7. Range(Log) \subseteq Range(Log')
  <2>1. /\ DOMAIN Log = 1 .. Len(Log) /\ DOMAIN Log' = 1 .. Len(Log) + 1
        /\ \A i \in 1 .. Len(Log) : Log'[i] = Log[i] /\ i \in 1 .. Len(Log) + 1
    BY PrintedLine
  <2>2. ASSUME NEW x \in Range(Log) PROVE x \in Range(Log')
    <3>1. PICK i \in DOMAIN Log : x = Log[i]
      BY <2>2, RangeIs
    <3>2. i \in DOMAIN Log' /\ x = Log'[i]
      BY <2>1, <3>1
    <3> QED
      BY <3>2, RangeIs
  <2> QED
    BY <2>2
<1>8. Flushing'
  BY <1>1, <1>2, <1>5, <1>6, <1>7 DEF Flushing
<1> QED
  BY <1>3, <1>4, <1>8

LEMMA KeptFlushing ==
  ASSUME LogInv, FlushKept, Log' = Log, logFile' \in {logFile, Log},
         \/ returned' = returned
         \/ logFile' = Log /\ \E t \in Threads : returned' = returned \cup {Line(t)}
                                                  /\ at[t] = "flush"
  PROVE  Flushing'
<1>1. Range(logFile) \subseteq Range(Log)
  BY FileInLog DEF LogInv, IInv, Control
<1>2. returned \subseteq Range(logFile) /\ returned \subseteq Range(logFile')
  BY <1>1 DEF LogInv, Flushing
<1>3. returned' \subseteq Range(logFile')
  BY <1>2 DEF LogInv, Flushing
<1>4. \A t \in Threads : at'[t] = "flush" => Line(t)' = Line(t) /\ at[t] = "flush"
  BY DEF FlushKept, Line
<1> QED
  BY <1>3, <1>4 DEF LogInv, Flushing

LEMMA InitLogInv ==
  ASSUME Init PROVE LogInv
<1>1. Log = <<>> /\ DOMAIN Log = {}
  BY DEF Init, Log, Buffer
<1>2. Patching \in Threads /\ Patching \notin Workers /\ Workers \subseteq Threads
  BY LogThreadsAssumption DEF Threads
<1>3. \A t \in Threads : ~Working(t)
  BY DEF Init, Working, PatchingPlaces, WorkerPlaces
<1>4. ~Entering /\ \A w \in Workers : ~Leaving(w)
  BY <1>2 DEF Init, Entering, Leaving
<1>5. Control
  BY <1>2, EmptySeq DEF Init, Control
<1>6. Hands
  BY <1>3 DEF Init, Hands
<1>7. Ranked
  BY <1>1 DEF Ranked, Ordered
<1>8. Flushing
  BY DEF Init, Flushing
<1>9. Queued
  BY <1>1, <1>4 DEF Init, Queued, InQueueOrder, AppendLines, AppendOrder, Accounted
<1> QED
  BY <1>5, <1>6, <1>7, <1>8, <1>9, InitIInv DEF LogInv

LEMMA StepLogInv ==
  ASSUME LogInv, [Next]_vars PROVE LogInv'
<1>1. IInv'
  BY StepIInv DEF LogInv
<1>2. ASSUME NEW t \in Threads, vfprintf(t) PROVE LogInv'
  BY <1>1, <1>2, PrintRanked, PrintQueued, PrintFlushing DEF LogInv
<1>3. ASSUME \A t \in Threads : ~vfprintf(t) PROVE LogInv'
  <2>1. Log' = Log /\ logFile' \in Seq(Lines) /\ logFile' \in {logFile, Log}
    BY <1>1, <1>3, LogKept DEF LogInv, Control
  <2>2. ASSUME Steady, Control', FlushKept,
               \/ returned' = returned
               \/ logFile' = Log /\ \E t \in Threads : returned' = returned \cup {Line(t)}
                                                        /\ at[t] = "flush"
        PROVE  LogInv'
    <3>1. Flushing'
      BY <2>1, <2>2, KeptFlushing
    <3>2. QueueKept
      BY <2>2 DEF Steady
    <3> QED
      BY <1>1, <2>2, <3>1, <3>2, SteadyHands, SteadyRanked, KeptQueued DEF LogInv
  <2>3. ASSUME Control' /\ Hands' /\ Ranked' /\ Queued' /\ FlushKept, returned' = returned
        PROVE  LogInv'
    BY <1>1, <2>1, <2>3, KeptFlushing DEF LogInv
  <2>4. ASSUME NEW t \in Threads, TestPointer(t) PROVE LogInv'
    BY <2>1, <2>2, <2>4, TestPointerSteady DEF LogInv, TestPointer
  <2>5. ASSUME NEW t \in Threads, fopen(t) PROVE LogInv'
    BY <2>1, <2>2, <2>5, fopenSteady DEF LogInv, fopen
  <2>6. ASSUME NEW t \in Threads, fflush(t) PROVE LogInv'
    <3>1. at[t] = "flush" /\ returned' = returned \cup {Line(t)} /\ WriteOut(flushed(DEBUG_FP))
      BY <2>6 DEF fflush, InDlog
    <3>2. logFile' = Log
      <4>1. DEBUG_FP # 0
        BY <2>6, OnlyPatchingLogs DEF fflush, InDlog, LogInv, IInv, Unopened
      <4>2. Len(streams) = 1 /\ 1 \in flushed(DEBUG_FP)
        BY <4>1 DEF LogInv, IInv, Opened, flushed
      <4> QED
        BY <3>1, <4>2, WrittenOut DEF LogInv, IInv, Control
    <3> QED
      BY <2>1, <2>2, <2>6, <3>1, <3>2, fflushSteady DEF LogInv
  <2>7. CASE UNCHANGED <<threadVars, at, returned>>
    BY <2>1, <2>2, <2>7, DieSteady DEF LogInv
  <2>8. ASSUME NEW t \in Threads, CrashOnNullStream(t) \/ Die(t)
        PROVE  UNCHANGED <<threadVars, at, returned>>
    BY <2>8 DEF CrashOnNullStream, Die, logVars
  <2>9. CASE PatchingStep
    <3>1. returned' = returned
      BY <2>9 DEF PatchingStep, ReadMessage, ReadFails, CheckBacklog, PatchingLocks, Write, logVars
    <3>2. CASE ReadMessage
      BY <2>1, <2>3, <3>1, <3>2, ReadMessageStep DEF LogInv
    <3>3. CASE Write
      BY <2>1, <2>3, <3>1, <3>3, WriteStep DEF LogInv
    <3>4. CASE ReadFails \/ CheckBacklog \/ PatchingLocks
      BY <2>1, <2>2, <3>1, <3>4, PatchingSteady DEF LogInv
    <3> QED
      BY <2>9, <3>2, <3>3, <3>4 DEF PatchingStep
  <2>10. ASSUME NEW w \in Workers, WorkerStep(w) PROVE LogInv'
    <3>1. CASE WorkerTakes(w)
      BY <2>1, <2>3, <3>1, WorkerTakesStep DEF LogInv, WorkerTakes, logVars
    <3>2. CASE WorkerUnlocks(w)
      BY <2>1, <2>2, <3>2, WorkerUnlocksSteady DEF LogInv, WorkerUnlocks, logVars
    <3>3. CASE CrashOnBarePacket(w)
      BY <2>7, <3>3 DEF CrashOnBarePacket, logVars
    <3> QED
      BY <2>10, <3>1, <3>2, <3>3 DEF WorkerStep
  <2>11. CASE Idle \/ UNCHANGED vars
    BY <2>7, <2>11 DEF Idle, vars, logVars
  <2> QED
    BY <1>3, <2>4, <2>5, <2>6, <2>7, <2>8, <2>9, <2>10, <2>11 DEF Next, dlog
<1> QED
  BY <1>2, <1>3

(* The inductive invariant: where the threads are, what they still have to *)
(* say of their messages, and how the log and the queue agree with it.     *)
THEOREM LogInvariance == Spec => []LogInv
BY InitLogInv, StepLogInv, PTL DEF Spec

(* A line is in the file, once, when its call returns (logging.c:11-13),   *)
(* so that a crash loses no line that was logged before it.                *)
THEOREM ReturnedIsWrittenHolds == Spec => []ReturnedIsWritten
<1>1. ASSUME LogInv PROVE ReturnedIsWritten
  <2>1. Types /\ logFile \in Seq(Lines)
    BY <1>1 DEF LogInv, IInv, Control
  <2>2. \A i \in DOMAIN logFile : i \in DOMAIN Log /\ Log[i] = logFile[i] /\ i \in Nat
    BY <2>1, FileInLog, LenProperties
  <2>3. ASSUME NEW i \in DOMAIN Log, NEW j \in DOMAIN Log, Log[i] = Log[j], i < j
        PROVE  FALSE
    <3>1. Log[i].message # 0
      BY <1>1, <2>3, <2>1, LogType DEF LogInv, Ranked
    <3>2. Rank[Log[i].kind] \in Nat
      <4>1. Log[i].kind \in LogPlaces
        BY <2>1, LogType DEF Lines
      <4> QED
        BY <1>1, <3>1, <4>1, Numbers DEF LogInv, Ranked
    <3>3. Rank[Log[i].kind] < Rank[Log[j].kind]
      BY <1>1, <2>3 DEF LogInv, Ranked, Ordered
    <3> QED
      BY <2>3, <3>2, <3>3
  <2>4. IsInjective(logFile)
    <3> SUFFICES ASSUME NEW a \in DOMAIN logFile, NEW b \in DOMAIN logFile,
                        logFile[a] = logFile[b]
                 PROVE  a = b
      BY DEF IsInjective
    <3>1. ~(a < b) /\ ~(b < a)
      BY <2>2, <2>3
    <3> QED
      BY <2>2, <3>1
  <2> QED
    BY <1>1, <2>4 DEF ReturnedIsWritten, LogInv, Flushing
<1> QED
  BY <1>1, LogInvariance, PTL

(* The log tells the order of events: the lines of one message stand in    *)
(* the order in which it was handled, and messages are dequeued in the     *)
(* order of their append lines (libero.c:77-87, 108-116, 137-195).         *)
THEOREM LogInOrderHolds == Spec => []LogInOrder
<1>1. ASSUME LogInv PROVE LogInOrder
  <2>1. Types /\ logFile \in Seq(Lines)
    BY <1>1 DEF LogInv, IInv, Control
  <2>2. /\ \A i \in DOMAIN logFile : i \in DOMAIN Log /\ Log[i] = logFile[i]
        /\ \A j \in DOMAIN logFile, i \in DOMAIN Log : i < j => i \in DOMAIN logFile
    BY <2>1, FileInLog
  <2>3. Ordered(logFile)
    BY <1>1, <2>2 DEF LogInv, Ranked, Ordered
  <2>4. InQueueOrder(logFile)
    <3> SUFFICES ASSUME NEW j \in DOMAIN logFile, logFile[j].kind = "dequeue"
                 PROVE  \E i \in DOMAIN logFile :
                          /\ i < j /\ Says(logFile, i, logFile[j].message, "append")
                          /\ \A h \in DOMAIN logFile : h < i /\ logFile[h].kind = "append" =>
                               \E g \in DOMAIN logFile :
                                 g < j /\ Says(logFile, g, logFile[h].message, "dequeue")
      BY DEF InQueueOrder
    <3>1. PICK i \in DOMAIN Log :
            /\ i < j /\ Says(Log, i, Log[j].message, "append")
            /\ \A h \in DOMAIN Log : h < i /\ Log[h].kind = "append" =>
                 \E g \in DOMAIN Log : g < j /\ Says(Log, g, Log[h].message, "dequeue")
      BY <1>1, <2>2 DEF LogInv, Queued, InQueueOrder
    <3>2. i \in DOMAIN logFile /\ Says(logFile, i, logFile[j].message, "append")
      BY <2>2, <3>1 DEF Says
    <3>3. ASSUME NEW h \in DOMAIN logFile, h < i, logFile[h].kind = "append"
          PROVE  \E g \in DOMAIN logFile :
                   g < j /\ Says(logFile, g, logFile[h].message, "dequeue")
      <4>1. PICK g \in DOMAIN Log : g < j /\ Says(Log, g, Log[h].message, "dequeue")
        BY <2>2, <3>1, <3>3
      <4>2. g \in DOMAIN logFile /\ Says(logFile, g, logFile[h].message, "dequeue")
        BY <2>2, <4>1 DEF Says
      <4> QED
        BY <4>1, <4>2
    <3> QED
      BY <3>1, <3>2, <3>3
  <2> QED
    BY <2>3, <2>4 DEF LogInOrder
<1> QED
  BY <1>1, LogInvariance, PTL
=============================================================================
