------------------------------- MODULE Libero -------------------------------
(***************************************************************************)
(* libero.c: the packet filter.  The kernel queues packets for user space  *)
(* and keeps each one until it gets a verdict.  Thread patching reads the  *)
(* messages from the netlink socket and puts them on ReadyQueue; thread    *)
(* processing takes them off, asks the loaded modules and sends a verdict. *)
(*                                                                         *)
(* main starts one processing thread; its comment (libero.c:132-136) and   *)
(* its variables process1..process3 are for several, hence the set Workers.*)
(* Every access to memory the threads share is a step of its own, except   *)
(* inside the section that queueLock protects.                             *)
(***************************************************************************)
EXTENDS GQueue, IpQueue, FiniteSets, Functions

CONSTANTS
  TcpPackets,    \* packets with ip->protocol = 6
  BarePackets,   \* those with data_len <= sizeof(struct iphdr)
  Workers,       \* the processing threads
  Patching,      \* the patching thread
  Nobody,        \* queueLock is free
  ModuleList,    \* the modules in the order of conf/modules.conf
  Reply,         \* Reply[m]: what module m may return
  Exiting,       \* modules with an error path that calls exit
  Backlog,       \* patching stops queueing at this currentSize, 30
  Recorded       \* bound of the history: numbers acceptedEarly may hold

ASSUME ThreadsAssumption ==
  /\ Patching \notin Workers
  /\ Nobody \notin Workers \cup {Patching}
ASSUME PacketsAssumption ==
  /\ TcpPackets \subseteq Packets
  /\ BarePackets \subseteq Packets \ TcpPackets
ASSUME ModulesAssumption ==
  /\ ModuleList \in Seq(DOMAIN Reply)
  /\ Exiting \subseteq DOMAIN Reply
ASSUME BacklogAssumption == Backlog \in Nat /\ Backlog < QueueSize

(* The modules answer with SIN_ACCEPT = 1, SIN_DENY = 2, SIN_CONTINUE = 3  *)
(* (libero.h:13-15) or with NF_DROP, and the kernel reads these numbers as *)
(* its own verdicts.                                                       *)
SIN_DENY     == 2
SIN_CONTINUE == 3

Verdicts == {NF_DROP, NF_ACCEPT, NF_STOLEN, NF_QUEUE}

Threads == Workers \cup {Patching}

ASSUME PointersAssumption == NULL \notin Messages /\ Garbage \notin Messages

(* Positions in ModuleList; 0 is the null GList pointer.                   *)
Nodes     == 0 .. Len(ModuleList)
firstNode == IF ModuleList = <<>> THEN 0 ELSE 1

next(n) == IF n = Len(ModuleList) THEN 0 ELSE n + 1

VARIABLES
  queueLock,     \* holder of the mutex
  pc,            \* where each thread is
  ctx,           \* each thread's packet_ctx pointer
  status,        \* each worker's local status
  result,        \* each worker's local result
  currentNode,   \* cursor of ModuleList, shared by the workers
  tmp,           \* glist_next's local copy of the cursor
  succ,          \* what glist_next is about to store in the cursor
  stopped,       \* "no", or how the process ended
  failed,        \* a call into libipq whose result is tested has failed
  shed,          \* messages dropped by patching
  acceptedEarly, \* history: numbers of the packets accepted at line 190
  asked          \* history: the modules asked about a worker's packet, with
                 \* their replies

packetVars  == <<result, asked>>
cursorVars  == <<currentNode, tmp, succ>>
outcomeVars == <<stopped, failed, shed, acceptedEarly>>
vars == <<queueVars, kernelVars, queueLock, pc, ctx, status, packetVars,
          cursorVars, outcomeVars>>

(* A thread is between lock and unlock.                                    *)
Critical(t) == IF t = Patching THEN pc[t] \in {"write", "unlock"}
                               ELSE pc[t] \in {"take", "empty", "unlock"}

(* The thread's ctx is the message it is working on.  Before and after,    *)
(* ctx is a pointer the code never follows again.                          *)
Busy(t) == IF t = Patching THEN pc[t] \in {"check", "lock", "write"}
                           ELSE pc[t] \notin {"lock", "take", "empty"}

InHand(t, m) == Busy(t) /\ ctx[t] = m

Go(t, from, to) ==
  /\ stopped = "no"
  /\ pc[t] = from
  /\ pc' = [pc EXCEPT ![t] = to]

Stop(why) == stopped' = why /\ UNCHANGED <<failed, shed, acceptedEarly>>

-----------------------------------------------------------------------------
(* init and main.  status is an uninitialised local of processing: the     *)
(* first test reads whatever the stack holds.  Appending to the empty list *)
(* has set the cursor to its first node.                                   *)
Init ==
  /\ queue_init
  /\ ipq_create_handle
  /\ queueLock = Nobody
  /\ pc = [t \in Threads |-> IF t = Patching THEN "read" ELSE "lock"]
  /\ ctx = [t \in Threads |-> Garbage]
  /\ status \in [Workers -> {-1, 0}]
  /\ result = [w \in Workers |-> NF_DROP]
  /\ currentNode = firstNode
  /\ tmp = [w \in Workers |-> 0]
  /\ succ = [w \in Workers |-> 0]
  /\ stopped = "no"
  /\ failed = FALSE
  /\ shed = {}
  /\ acceptedEarly = {}
  /\ asked = [w \in Workers |-> <<>>]

-----------------------------------------------------------------------------
(* The kernel.  The name of a packet is taken for a new one only when      *)
(* nothing speaks of the old one any more; its packet_id is not the name,  *)
(* and free for any packet since the kernel let the old one go.            *)
Mentioned(p) ==
  \/ Packet(p) \in shed
  \/ \E m \in {Packet(p), Error(p)} :
       \/ m \in Range(inbox) \cup Range(Contents)
       \/ \E t \in Threads : InHand(t, m)

Arrive(p) ==
  /\ stopped = "no"
  /\ ~Mentioned(p)
  /\ Enqueue(p)
  /\ UNCHANGED <<queueVars, queueLock, pc, ctx, status, packetVars, cursorVars,
                 outcomeVars>>

-----------------------------------------------------------------------------
(* Thread patching.                                                        *)
ReadMessage ==
  /\ Go(Patching, "read", "check")
  /\ inbox # <<>>
  /\ ctx' = [ctx EXCEPT ![Patching] = Head(inbox)]
  /\ inbox' = Tail(inbox)
  /\ UNCHANGED <<queueVars, heldVars, queueLock, status, packetVars,
                 cursorVars, outcomeVars>>

ReadFails ==
  /\ stopped = "no"
  /\ pc[Patching] = "read"
  /\ stopped' = "die"
  /\ failed' = TRUE
  /\ UNCHANGED <<queueVars, kernelVars, queueLock, pc, ctx, status, packetVars,
                 cursorVars, shed, acceptedEarly>>

(* Mutant: the bound itself let through.                                   *)
BelowBacklogInclusive == currentSize <= Backlog

BelowBacklog == currentSize < Backlog

(* currentSize is read without the lock.                                   *)
CheckBacklog ==
  /\ Go(Patching, "check", "lock")
  /\ BelowBacklog
  /\ UNCHANGED <<queueVars, kernelVars, queueLock, ctx, status, packetVars,
                 cursorVars, outcomeVars>>

(* The message just read is not kept for after the sleep: the loop starts  *)
(* with a new ctx.                                                         *)
Shed ==
  /\ Go(Patching, "check", "sleep")
  /\ ~BelowBacklog
  /\ shed' = shed \cup {ctx[Patching]}
  /\ UNCHANGED <<queueVars, kernelVars, queueLock, ctx, status, packetVars,
                 cursorVars, stopped, failed, acceptedEarly>>

(* malloc at the top of the loop: a packet_ctx nobody has written.         *)
NewCtx == ctx' = [ctx EXCEPT ![Patching] = Garbage]

Wake ==
  /\ Go(Patching, "sleep", "read")
  /\ NewCtx
  /\ UNCHANGED <<queueVars, kernelVars, queueLock, status, packetVars,
                 cursorVars, outcomeVars>>

(* Mutant: the lock taken whoever holds it.                                *)
lockIgnoringHolder(t) == queueLock' = t

lock(t) == queueLock = Nobody /\ queueLock' = t

PatchingLocks ==
  /\ Go(Patching, "lock", "write")
  /\ lock(Patching)
  /\ UNCHANGED <<queueVars, kernelVars, ctx, status, packetVars, cursorVars,
                 outcomeVars>>

(* safe_queue ignores what queue_write returns.                            *)
safe_queue ==
  /\ Go(Patching, "write", "unlock")
  /\ queue_write(ctx[Patching])
  /\ UNCHANGED <<kernelVars, queueLock, ctx, status, packetVars, cursorVars,
                 outcomeVars>>

PatchingUnlocks ==
  /\ Go(Patching, "unlock", "read")
  /\ queueLock' = Nobody
  /\ NewCtx
  /\ UNCHANGED <<queueVars, kernelVars, status, packetVars, cursorVars,
                 outcomeVars>>

-----------------------------------------------------------------------------
(* Thread processing.                                                      *)
WorkerLocks(w) ==
  /\ Go(w, "lock", "take")
  /\ lock(w)
  /\ UNCHANGED <<queueVars, kernelVars, ctx, status, packetVars, cursorVars,
                 outcomeVars>>

(* Mutants: no test of currentSize before the read; the last one missed.   *)
someWaitingUntested == TRUE
severalWaiting == currentSize > 1

someWaiting == currentSize > 0

(* Mutant: the queue read at the wrong end.                                *)
newest == buffer[(rear + QueueSize - 1) % QueueSize]

oldest == buffer[front]

(* queue_read through a pointer the caller has not initialised.            *)
safe_dequeue(w) ==
  /\ Go(w, "take", "unlock")
  /\ someWaiting
  /\ queue_read
  /\ ctx' = [ctx EXCEPT ![w] = IF isEmpty THEN Garbage ELSE oldest]
  /\ UNCHANGED <<kernelVars, queueLock, status, packetVars, cursorVars, outcomeVars>>

NothingWaits(w) ==
  /\ Go(w, "take", "empty")
  /\ ~someWaiting
  /\ UNCHANGED <<queueVars, kernelVars, queueLock, ctx, status, packetVars,
                 cursorVars, outcomeVars>>

WorkerUnlocks(w) ==
  /\ \/ Go(w, "unlock", "inspect")
     \/ Go(w, "empty", "lock")
  /\ queueLock' = Nobody
  /\ UNCHANGED <<queueVars, kernelVars, ctx, status, packetVars, cursorVars,
                 outcomeVars>>

(* The test for an error that reads the local status.                      *)
DieOnStatus(w) ==
  /\ stopped = "no"
  /\ pc[w] = "inspect"
  /\ ctx[w] # NULL
  /\ status[w] < 0
  /\ Stop("die")
  /\ UNCHANGED <<queueVars, kernelVars, queueLock, pc, ctx, status, packetVars,
                 cursorVars>>

(* A null pointer, or a message that is not a packet.                      *)
Skip(w) ==
  /\ Go(w, "inspect", "lock")
  /\ \/ ctx[w] = NULL
     \/ status[w] >= 0 /\ ctx[w].type # "packet"
  /\ UNCHANGED <<queueVars, kernelVars, queueLock, ctx, status, packetVars,
                 cursorVars, outcomeVars>>

HoldsPacket(w) ==
  /\ pc[w] = "inspect"
  /\ ctx[w] # NULL
  /\ status[w] >= 0
  /\ ctx[w].type = "packet"

(* packet stays NULL when the message has no data after the IP header, and *)
(* ip->protocol is read through it.                                        *)
CrashOnBarePacket(w) ==
  /\ stopped = "no"
  /\ HoldsPacket(w)
  /\ ctx[w].packet \in BarePackets
  /\ Stop("crash")
  /\ UNCHANGED <<queueVars, kernelVars, queueLock, pc, ctx, status, packetVars,
                 cursorVars>>

isTcp(p) == p \in TcpPackets

(* A packet that is not TCP is accepted at once; whether that call failed  *)
(* is not looked at, and the code goes on as for a TCP packet: the modules *)
(* are asked and a second verdict is sent with the same packet_id.  result *)
(* is initialised by its declaration: see Verdict.                         *)
AcceptNonTcp(w) ==
  /\ HoldsPacket(w)
  /\ Go(w, "inspect", "rewind")
  /\ ctx[w].packet \notin BarePackets
  /\ ~isTcp(ctx[w].packet)
  /\ \/ /\ set_verdict(ctx[w].packet)
        /\ acceptedEarly' =
             acceptedEarly \cup ({packet_id[ctx[w].packet]} \cap Recorded)
     \/ UNCHANGED <<kernelVars, acceptedEarly>>
  /\ UNCHANGED <<queueVars, queueLock, ctx, status, packetVars, cursorVars,
                 stopped, failed, shed>>

PassTcp(w) ==
  /\ HoldsPacket(w)
  /\ Go(w, "inspect", "rewind")
  /\ isTcp(ctx[w].packet)
  /\ UNCHANGED <<queueVars, kernelVars, queueLock, ctx, status, packetVars,
                 cursorVars, outcomeVars>>

(* Mutant: the cursor left where the last packet's modules put it.         *)
glist_rewind_forgotten == UNCHANGED currentNode

glist_rewind == currentNode' = firstNode

Rewind(w) ==
  /\ Go(w, "rewind", "load")
  /\ glist_rewind
  /\ UNCHANGED <<queueVars, kernelVars, queueLock, ctx, status, packetVars,
                 tmp, succ, outcomeVars>>

(* glist_next: the cursor is read three times and written once.  Its       *)
(* locals are 0 while no call is going on; tmp names the module returned.  *)
LoadCursor(w) ==
  /\ Go(w, "load", "test")
  /\ tmp' = [tmp EXCEPT ![w] = currentNode]
  /\ UNCHANGED <<queueVars, kernelVars, queueLock, ctx, status, packetVars,
                 currentNode, succ, outcomeVars>>

(* Mutant: the end of the list not tested for.                             *)
TestCursorForgotten(w) ==
  /\ Go(w, "test", "next")
  /\ UNCHANGED <<queueVars, kernelVars, queueLock, ctx, status, packetVars,
                 cursorVars, outcomeVars>>

TestCursor(w) ==
  /\ \/ /\ currentNode = 0
        /\ Go(w, "test", "verdict")
        /\ tmp' = [tmp EXCEPT ![w] = 0]
     \/ /\ currentNode # 0
        /\ Go(w, "test", "next")
        /\ UNCHANGED tmp
  /\ UNCHANGED <<queueVars, kernelVars, queueLock, ctx, status, packetVars,
                 currentNode, succ, outcomeVars>>

NextNode(w) ==
  /\ currentNode # 0
  /\ Go(w, "next", "store")
  /\ succ' = [succ EXCEPT ![w] = next(currentNode)]
  /\ UNCHANGED <<queueVars, kernelVars, queueLock, ctx, status, packetVars,
                 currentNode, tmp, outcomeVars>>

StoreCursor(w) ==
  /\ tmp[w] # 0
  /\ Go(w, "store", "call")
  /\ currentNode' = succ[w]
  /\ succ' = [succ EXCEPT ![w] = 0]
  /\ UNCHANGED <<queueVars, kernelVars, queueLock, ctx, status, packetVars,
                 tmp, outcomeVars>>

(* Only with several workers: the cursor was moved between two reads, and  *)
(* a null pointer is followed.                                             *)
CrashInGlistNext(w) ==
  /\ stopped = "no"
  /\ \/ pc[w] = "next" /\ currentNode = 0
     \/ pc[w] = "store" /\ tmp[w] = 0
  /\ Stop("crash")
  /\ UNCHANGED <<queueVars, kernelVars, queueLock, pc, ctx, status, packetVars,
                 cursorVars>>

EndsChain(r) == r = NF_DROP

(* Bound of the history: one worker asks every module at most once, but    *)
(* several may keep rewinding the cursor for each other for ever.          *)
MaxAsked == Len(ModuleList) + 1

Remember(replies, reply) ==
  IF Len(replies) < MaxAsked THEN Append(replies, reply) ELSE replies

CallModule(w, r) ==
  /\ Go(w, "call", IF EndsChain(r) THEN "verdict" ELSE "load")
  /\ r \in Reply[ModuleList[tmp[w]]]
  /\ result' = [result EXCEPT ![w] = r]
  /\ asked' = [asked EXCEPT ![w] = Remember(@, [module |-> tmp[w], reply |-> r])]
  /\ tmp' = [tmp EXCEPT ![w] = 0]
  /\ UNCHANGED <<queueVars, kernelVars, queueLock, ctx, status, currentNode,
                 succ, outcomeVars>>

ModuleExits(w) ==
  /\ stopped = "no"
  /\ pc[w] = "call"
  /\ ModuleList[tmp[w]] \in Exiting
  /\ Stop("exit")
  /\ UNCHANGED <<queueVars, kernelVars, queueLock, pc, ctx, status, packetVars,
                 cursorVars>>

(* The verdict carries no packet data, with or without the change the      *)
(* window-size code made to the daemon's copy.  What is kept per packet    *)
(* goes out of scope and starts afresh with the next one.                  *)
Verdict(w) ==
  /\ Go(w, "verdict", "lock")
  /\ set_verdict(ctx[w].packet)
  /\ status' = [status EXCEPT ![w] = 0]
  /\ result' = [result EXCEPT ![w] = NF_DROP]
  /\ asked' = [asked EXCEPT ![w] = <<>>]
  /\ UNCHANGED <<queueVars, queueLock, ctx, cursorVars, outcomeVars>>

VerdictFails(w) ==
  /\ stopped = "no"
  /\ pc[w] = "verdict"
  /\ status' = [status EXCEPT ![w] = -1]
  /\ stopped' = "die"
  /\ failed' = TRUE
  /\ UNCHANGED <<queueVars, kernelVars, queueLock, pc, ctx, packetVars,
                 cursorVars, shed, acceptedEarly>>

-----------------------------------------------------------------------------
(* exit ends every thread.                                                 *)
Terminated == stopped # "no" /\ UNCHANGED vars

PatchingRuns ==
  \/ ReadMessage \/ CheckBacklog \/ Shed \/ Wake
  \/ PatchingLocks \/ safe_queue \/ PatchingUnlocks

CursorStep(w) ==
  \/ Rewind(w) \/ LoadCursor(w) \/ TestCursor(w) \/ NextNode(w)
  \/ StoreCursor(w) \/ CrashInGlistNext(w)

WorkerStep(w) ==
  \/ WorkerLocks(w) \/ safe_dequeue(w) \/ NothingWaits(w) \/ WorkerUnlocks(w)
  \/ DieOnStatus(w) \/ Skip(w) \/ CrashOnBarePacket(w)
  \/ AcceptNonTcp(w) \/ PassTcp(w)
  \/ CursorStep(w)
  \/ (\E r \in Verdicts : CallModule(w, r)) \/ ModuleExits(w)
  \/ Verdict(w) \/ VerdictFails(w)

Next ==
  \/ \E p \in Packets : Arrive(p)
  \/ PatchingRuns \/ ReadFails
  \/ \E w \in Workers : WorkerStep(w)
  \/ Terminated

Spec == Init /\ [][Next]_vars

(* The scheduler lets a thread run that can run; ipq_read need not fail.   *)
(* Nothing is assumed of the mutex: it may always go to the other thread.  *)
FairSpec == Spec /\ WF_vars(PatchingRuns)
                 /\ \A w \in Workers : WF_vars(WorkerStep(w))

-----------------------------------------------------------------------------
PatchingSteps == {"read", "check", "sleep", "lock", "write", "unlock"}
WorkerSteps ==
  {"lock", "take", "empty", "unlock", "inspect", "rewind", "load", "test",
   "next", "store", "call", "verdict"}

TypeOK ==
  /\ RingOK
  /\ buffer \in [Slots -> Messages \cup {NULL, Garbage}]
  /\ inbox \in Seq(Messages)
  /\ held \subseteq Packets /\ packet_id \in [Packets -> Ids]
  /\ queueLock \in Threads \cup {Nobody}
  /\ pc \in [Threads -> PatchingSteps \cup WorkerSteps]
  /\ pc[Patching] \in PatchingSteps
  /\ \A w \in Workers : pc[w] \in WorkerSteps
  /\ ctx \in [Threads -> Messages \cup {NULL, Garbage}]
  /\ status \in [Workers -> {-1, 0}]
  /\ result \in [Workers -> Verdicts]
  /\ currentNode \in Nodes
  /\ tmp \in [Workers -> Nodes] /\ succ \in [Workers -> Nodes]
  /\ stopped \in {"no", "die", "crash", "exit"}
  /\ failed \in BOOLEAN
  /\ shed \subseteq Messages
  /\ acceptedEarly \subseteq Ids
  /\ asked \in [Workers -> Seq([module : Nodes, reply : Verdicts])]

(* A thread between lock and unlock holds queueLock and no other thread is *)
(* there: no two threads touch the ring at once (libero.c:111-113,         *)
(* 137-144).                                                               *)
LockHeld == \A t \in Threads : Critical(t) <=> queueLock = t

(* Although patching tests currentSize before it takes the lock, what it   *)
(* read stays good until it writes: the queue never exceeds the backlog,   *)
(* so the ERROR_BUFFER_FULL that safe_queue ignores cannot occur           *)
(* (libero.c:77-81, 110-113).                                              *)
BacklogBound ==
  /\ currentSize <= Backlog
  /\ pc[Patching] \in {"lock", "write"} => currentSize < Backlog /\ ~isFull

(* safe_dequeue reads its local node only after queue_read has stored an   *)
(* element in it, although the caller tests currentSize and queue_read     *)
(* tests front and rear (libero.c:82-87, 138).                             *)
DequeueDefined == \A t \in Threads : Busy(t) => ctx[t] \in Messages

(* Where a message is, other than given up by patching.                    *)
Places(m) ==
  {<<"socket", i>> : i \in {j \in DOMAIN inbox : inbox[j] = m}} \cup
  {<<"queue", i>> : i \in {j \in 1 .. currentSize : Contents[j] = m}} \cup
  {<<"thread", t>> : t \in {u \in Threads : InHand(u, m)}}

(* No packet is in two hands, nor in a hand and in the queue (the worry of *)
(* the comment at libero.c:132-136), and a packet the kernel still holds   *)
(* is not forgotten: the daemon has it somewhere or dropped it (115-118).  *)
OnePlace ==
  /\ \A p \in Packets : Cardinality(Places(Packet(p))) <= 1
  /\ \A p \in held : Packet(p) \in shed <=> Places(Packet(p)) = {}

(* The kernel lets go of a packet before the daemon's last verdict on it,  *)
(* or refuses a verdict on it, only under a number that was accepted early:*)
(* its own, or that of an earlier packet whose second verdict came to this *)
(* one (libero.c:189-191, 291).  Numbers outside Recorded are not followed.*)
LostOnlyByReuse ==
  \A p \in Packets :
    /\ packet_id[p] \in Recorded
    /\ (Places(Packet(p)) # {} /\ p \notin held) \/ Places(Error(p)) # {}
    => packet_id[p] \in acceptedEarly

(* With one worker, the modules are asked in order from the first, none is *)
(* skipped or asked twice, and the verdict is the last reply.  The chain   *)
(* ends before the last module only at one that does not allow the packet, *)
(* so nothing is let through that a module has not seen (libero.c:253-262).*)
AskedInOrder ==
  \A w \in Workers : pc[w] = "verdict" =>
    LET n == Len(asked[w]) IN
    /\ \A i \in 1 .. n : asked[w][i].module = i
    /\ result[w] = IF n = 0 THEN NF_DROP ELSE asked[w][n].reply
    /\ n < Len(ModuleList) => n > 0 /\ asked[w][n].reply # NF_ACCEPT

(* With one worker, a process that crashes does so on a packet without     *)
(* data behind its IP header: glist_next, which reads the cursor three     *)
(* times, never follows a null pointer (libero.c:184-189, glist.c:124-127).*)
CrashOnlyOnBare ==
  stopped = "crash" => \E w \in Workers : HoldsPacket(w) /\ ctx[w].packet \in BarePackets

(* The threads' hands, and the hand-over they implement together.          *)
Hand(t)  == IF Busy(t) THEN ctx[t] ELSE Garbage
Incoming == Hand(Patching)
Working  == [w \in Workers |-> Hand(w)]

Handoff == INSTANCE PacketHandoff
  WITH Consumers <- Workers, Nothing <- Garbage, Limit <- Backlog,
       incoming <- Incoming, waiting <- Contents, working <- Working,
       dropped <- shed

(* Every step of the threads is a step of the hand-over or invisible to    *)
(* it: order, loss only when the backlog is full, one consumer per message *)
(* (libero.c:99-146).                                                      *)
ImplementsHandoff == Handoff!Spec

(* A queued message does not wait for ever: patching, which may win the    *)
(* mutex every time, stops asking for it at the backlog limit, and then a  *)
(* worker gets it (libero.c:110-119, 137-141).                             *)
QueueDrains ==
  \A m \in Messages :
    (\E i \in 1 .. currentSize : Contents[i] = m)
      ~> (stopped # "no" \/ \A i \in 1 .. currentSize : Contents[i] # m)

-----------------------------------------------------------------------------
(* Statements of the code's comments and documents that the code does not  *)
(* keep.                                                                   *)

(* "Handle it according to the result above; verdict seems to have to be   *)
(* called only once" (libero.c:264-265): when the result of a TCP packet   *)
(* is known, the kernel still waits for it.                                *)
ResultDecides ==
  \A w \in Workers :
    pc[w] = "verdict" /\ isTcp(ctx[w].packet) => ctx[w].packet \in held

(* "When it is not allowed it has to be made to stop" (libero.c:257): no   *)
(* module is asked about a packet after one that has denied it.            *)
StopsWhenDenied ==
  \A w \in Workers : \A i \in 1 .. Len(asked[w]) - 1 :
    asked[w][i].reply # SIN_DENY

(* "error handling" (libero.c:148): the daemon ends through die only when  *)
(* a library call has reported an error.                                   *)
DiesOnlyOnError == stopped = "die" => failed
=============================================================================
