------------------------------ MODULE Logging ------------------------------
(***************************************************************************)
(* lib/logging.c and its callers in the daemon.  dlog opens the log file   *)
(* when it is first called and tests and sets DEBUG_FP without a lock;     *)
(* every thread calls it.  The threads are here for the order of their     *)
(* calls alone: what a message is and which verdict it gets is in Libero.  *)
(***************************************************************************)
EXTENDS Integers, SequencesExt

CONSTANTS
  Workers, Patching, Nobody,
  Backlog,       \* patching stops queueing here, 30
  MaxMessages    \* bound of the model: messages read before ipq_read blocks

ASSUME LogThreadsAssumption ==
  /\ Patching \notin Workers
  /\ Nobody \notin Workers \cup {Patching}
ASSUME LogBoundsAssumption == Backlog \in Nat /\ MaxMessages \in Nat

VARIABLES
  pc,            \* where each thread is; a place in LogPlaces is a call of dlog
  at,            \* where it is inside dlog
  ctx,           \* the message it works on, 0 for none yet
  lastRead,      \* messages are numbered as they are read
  waiting,       \* ReadyQueue
  queueLock,
  DEBUG_FP,      \* 0 for NULL, or one of the open streams
  streams,       \* for each stream, the lines in its buffer
  logFile,       \* the lines in log.txt
  returned,      \* the lines whose call of dlog has returned
  stopped

threadVars == <<pc, ctx, lastRead, waiting, queueLock>>
logVars    == <<at, DEBUG_FP, streams, logFile, returned>>
vars == <<threadVars, logVars, stopped>>

Threads == Workers \cup {Patching}

-----------------------------------------------------------------------------
(* Mutant: the lines of level 0 turned off.                                *)
DLEVEL_one == 1

DLEVEL == 0

(* dump.c logs with level 1, everyone else with 0.                         *)
Level(place) == IF place \in {"dump_ipq", "dump"} THEN 1 ELSE 0

(* The places that log, and where the thread may go on.  The calls of      *)
(* dump_ipq are one line, and so are those of dump_ip and dump; one module *)
(* is loaded, as in conf/modules.conf.  A thread that dies has found an    *)
(* error, or its module has; a verdict is sent before the next "lock".     *)
(* The call of "warn" passes the pointer stderr where the format belongs,  *)
(* so what it prints is not its text but whatever stderr points to, read   *)
(* as a format (libero.c:116): here a line like any other.                 *)
After ==
  [size |-> {"check"}, append |-> {"write"}, warn |-> {"read"}, err |-> {"die"},
   dequeue |-> {"unlock"}, processing |-> {"dump_ipq", "error", "die"},
   error |-> {"lock"}, dump_ipq |-> {"dump"}, dump |-> {"module"},
   module |-> {"lock", "die"}]

LogPlaces == DOMAIN After

Line(t) == [message |-> ctx[t], kind |-> pc[t]]

Runs(t, place) == stopped = "no" /\ pc[t] = place

Go(t, from, to) == Runs(t, from) /\ pc' = [pc EXCEPT ![t] = to]

Init ==
  /\ pc = [t \in Threads |-> IF t = Patching THEN "read" ELSE "lock"]
  /\ at = [t \in Threads |-> "level"]
  /\ ctx = [t \in Threads |-> 0]
  /\ lastRead = 0
  /\ waiting = <<>>
  /\ queueLock = Nobody
  /\ DEBUG_FP = 0
  /\ streams = <<>>
  /\ logFile = <<>>
  /\ returned = {}
  /\ stopped = "no"

-----------------------------------------------------------------------------
(* dlog.  DEBUG_FP is read once for the test and again for each use.       *)
InDlog(t, from, to) ==
  /\ stopped = "no"
  /\ pc[t] \in LogPlaces
  /\ at[t] = from
  /\ at' = [at EXCEPT ![t] = to]

Return(t) == \E place \in After[pc[t]] : pc' = [pc EXCEPT ![t] = place]

(* A level below DLEVEL returns at once.                                   *)
TestPointer(t) ==
  /\ stopped = "no"
  /\ pc[t] \in LogPlaces /\ at[t] = "level"
  /\ IF Level(pc[t]) < DLEVEL
       THEN Return(t) /\ UNCHANGED at
       ELSE /\ at' = [at EXCEPT ![t] = IF DEBUG_FP = 0 THEN "open" ELSE "print"]
            /\ UNCHANGED pc
  /\ UNCHANGED <<ctx, lastRead, waiting, queueLock, DEBUG_FP, streams, logFile,
                 returned, stopped>>

(* A new stream, appending to the file, or none.                           *)
fopen(t) ==
  /\ InDlog(t, "open", "print")
  /\ \/ streams' = Append(streams, <<>>) /\ DEBUG_FP' = Len(streams) + 1
     \/ DEBUG_FP' = 0 /\ UNCHANGED streams
  /\ UNCHANGED <<threadVars, logFile, returned, stopped>>

vfprintf(t) ==
  /\ InDlog(t, "print", "flush")
  /\ DEBUG_FP # 0
  /\ streams' = [streams EXCEPT ![DEBUG_FP] = Append(@, Line(t))]
  /\ UNCHANGED <<threadVars, DEBUG_FP, logFile, returned, stopped>>

(* Mutant: nothing flushed.                                                *)
flushedForgotten(fp) == {}

(* The streams that fflush writes out: for NULL, all of them.              *)
flushed(fp) == IF fp = 0 THEN DOMAIN streams ELSE {fp}

(* The file once the buffers of some streams are written out.              *)
Written(fps) ==
  logFile \o FlattenSeq([n \in DOMAIN streams |->
                           IF n \in fps THEN streams[n] ELSE <<>>])

WriteOut(fps) ==
  /\ logFile' = Written(fps)
  /\ streams' = [n \in DOMAIN streams |-> IF n \in fps THEN <<>> ELSE streams[n]]

fflush(t) ==
  /\ InDlog(t, "flush", "level")
  /\ WriteOut(flushed(DEBUG_FP))
  /\ returned' = returned \cup {Line(t)}
  /\ Return(t)
  /\ UNCHANGED <<ctx, lastRead, waiting, queueLock, DEBUG_FP, stopped>>

(* The file could not be opened, and the null pointer is printed to.       *)
CrashOnNullStream(t) ==
  /\ stopped = "no"
  /\ pc[t] \in LogPlaces /\ at[t] = "print"
  /\ DEBUG_FP = 0
  /\ stopped' = "crash"
  /\ UNCHANGED <<threadVars, logVars>>

dlog(t) ==
  \/ TestPointer(t) \/ fopen(t) \/ vfprintf(t) \/ fflush(t)
  \/ CrashOnNullStream(t)

-----------------------------------------------------------------------------
(* Mutant: the lock taken whoever holds it.                                *)
lockIgnoringHolder(t) == queueLock' = t

lock(t) == queueLock = Nobody /\ queueLock' = t

(* Thread patching between its calls of dlog.                              *)
ReadMessage ==
  /\ lastRead < MaxMessages
  /\ Go(Patching, "read", "size")
  /\ lastRead' = lastRead + 1
  /\ ctx' = [ctx EXCEPT ![Patching] = lastRead + 1]
  /\ UNCHANGED <<waiting, queueLock, logVars, stopped>>

ReadFails ==
  /\ Go(Patching, "read", "err")
  /\ ctx' = [ctx EXCEPT ![Patching] = 0]
  /\ UNCHANGED <<lastRead, waiting, queueLock, logVars, stopped>>

CheckBacklog ==
  /\ Go(Patching, "check", IF Len(waiting) < Backlog THEN "lock" ELSE "warn")
  /\ UNCHANGED <<ctx, lastRead, waiting, queueLock, logVars, stopped>>

PatchingLocks ==
  /\ Go(Patching, "lock", "append")
  /\ lock(Patching)
  /\ UNCHANGED <<ctx, lastRead, waiting, logVars, stopped>>

Write ==
  /\ Go(Patching, "write", "read")
  /\ waiting' = Append(waiting, ctx[Patching])
  /\ queueLock' = Nobody
  /\ UNCHANGED <<ctx, lastRead, logVars, stopped>>

(* exit ends the threads and writes every buffer out.                      *)
Die(t) ==
  /\ Runs(t, "die")
  /\ stopped' = "exit"
  /\ WriteOut(DOMAIN streams)
  /\ UNCHANGED <<threadVars, at, DEBUG_FP, returned>>

(* A worker between its calls of dlog.                                     *)
WorkerTakes(w) ==
  /\ waiting # <<>>
  /\ Go(w, "lock", "dequeue")
  /\ lock(w)
  /\ ctx' = [ctx EXCEPT ![w] = Head(waiting)]
  /\ waiting' = Tail(waiting)
  /\ UNCHANGED <<lastRead, logVars, stopped>>

WorkerUnlocks(w) ==
  /\ Go(w, "unlock", "processing")
  /\ queueLock' = Nobody
  /\ UNCHANGED <<ctx, lastRead, waiting, logVars, stopped>>

(* ip->protocol is read before dump_ip; with nothing behind the header of  *)
(* the message that crashes.                                               *)
CrashOnBarePacket(w) ==
  /\ Runs(w, "dump")
  /\ at[w] = "level"
  /\ stopped' = "crash"
  /\ UNCHANGED <<threadVars, logVars>>

Idle == (stopped # "no" \/ lastRead = MaxMessages) /\ UNCHANGED vars

PatchingStep ==
  \/ ReadMessage \/ ReadFails \/ CheckBacklog \/ PatchingLocks \/ Write

WorkerStep(w) == WorkerTakes(w) \/ WorkerUnlocks(w) \/ CrashOnBarePacket(w)

Next ==
  \/ \E t \in Threads : dlog(t) \/ Die(t)
  \/ PatchingStep
  \/ \E w \in Workers : WorkerStep(w)
  \/ Idle

Spec == Init /\ [][Next]_vars

-----------------------------------------------------------------------------
Places == LogPlaces \cup {"read", "check", "lock", "write", "unlock", "die"}
Lines  == [message : 0 .. MaxMessages, kind : LogPlaces]

LogTypeOK ==
  /\ pc \in [Threads -> Places]
  /\ at \in [Threads -> {"level", "open", "print", "flush"}]
  /\ ctx \in [Threads -> 0 .. MaxMessages]
  /\ lastRead \in 0 .. MaxMessages
  /\ queueLock \in Threads \cup {Nobody}
  /\ waiting \in Seq(0 .. MaxMessages)
  /\ DEBUG_FP \in 0 .. Len(streams)
  /\ streams \in Seq(Seq(Lines))
  /\ logFile \in Seq(Lines) /\ returned \subseteq Lines
  /\ stopped \in {"no", "exit", "crash"}

(* The file is opened once, although the test and the assignment are not   *)
(* under a lock: patching has logged a message before a worker can see it, *)
(* and by then the pointer is set for good (logging.c:8, libero.c:79,      *)
(* 108, 137-139).                                                          *)
OpenedOnce ==
  /\ Len(streams) <= 1
  /\ (\E t \in Workers : pc[t] \in LogPlaces) => DEBUG_FP # 0

(* A line is in the file when its call returns, so that a crash loses no   *)
(* line that was logged before it, and it is there once (logging.c:11-13). *)
ReturnedIsWritten == returned \subseteq Range(logFile) /\ IsInjective(logFile)

Rank == [size |-> 1, warn |-> 2, append |-> 2, dequeue |-> 3, processing |-> 4,
         error |-> 5, dump_ipq |-> 5, dump |-> 6, module |-> 7]

(* The lines of one message stand in the order in which it was handled.    *)
Ordered(log) ==
  \A i, j \in DOMAIN log : i < j /\ log[i].message = log[j].message
                             => Rank[log[i].kind] < Rank[log[j].kind]

Says(log, i, m, kind) == log[i].message = m /\ log[i].kind = kind

(* A message is dequeued after it was appended, and after every message    *)
(* appended before it.                                                     *)
InQueueOrder(log) ==
  \A j \in DOMAIN log : log[j].kind = "dequeue" =>
    \E i \in DOMAIN log :
      /\ i < j /\ Says(log, i, log[j].message, "append")
      /\ \A h \in DOMAIN log : h < i /\ log[h].kind = "append" =>
           \E g \in DOMAIN log : g < j /\ Says(log, g, log[h].message, "dequeue")

(* The log tells the truth about the order of events: the lines of one     *)
(* message stand in the order in which it was handled, whichever threads   *)
(* wrote them, and messages are dequeued in the order of their append      *)
(* lines (libero.c:77-87, 108-116, 137-195).                               *)
LogInOrder == Ordered(logFile) /\ InQueueOrder(logFile)
=============================================================================
