---------------------------- MODULE LiberoProofs ----------------------------
(***************************************************************************)
(* The hand-over between patching and any number of processing threads:    *)
(* types, the lock, the backlog, and that every message reaches exactly    *)
(* one thread in order.                                                    *)
(***************************************************************************)
EXTENDS Libero, GQueueProofs

(* The locals of the threads; nothing the queue depends on.                *)
LocalsOK ==
  /\ inbox \in Seq(Messages)
  /\ held \subseteq Packets /\ packet_id \in [Packets -> Ids]
  /\ status \in [Workers -> {-1, 0}]
  /\ result \in [Workers -> Verdicts]
  /\ currentNode \in Nodes
  /\ tmp \in [Workers -> Nodes] /\ succ \in [Workers -> Nodes]
  /\ stopped \in {"no", "die", "crash", "exit"}
  /\ failed \in BOOLEAN
  /\ acceptedEarly \subseteq Ids
  /\ asked \in [Workers -> Seq([module : Nodes, reply : Verdicts])]

(* Where the threads are, and who holds the lock.                          *)
ControlOK ==
  /\ pc \in [Threads -> PatchingSteps \cup WorkerSteps]
  /\ pc[Patching] \in PatchingSteps
  /\ \A w \in Workers : pc[w] \in WorkerSteps
  /\ queueLock \in Threads \cup {Nobody}
  /\ LockHeld

(* What is in the queue and in the threads' hands.                         *)
QueueOK ==
  /\ RingOK
  /\ buffer \in [Slots -> Messages \cup {NULL, Garbage}]
  /\ Contents \in Seq(Messages)
  /\ ctx \in [Threads -> Messages \cup {NULL, Garbage}]
  /\ shed \subseteq Messages
  /\ DequeueDefined
  /\ BacklogBound

IInv == LocalsOK /\ ControlOK /\ QueueOK

-----------------------------------------------------------------------------
(* init and main establish the invariant (libero.c:44-76).                 *)
LEMMA InitIInv == Init => IInv
<1> SUFFICES ASSUME Init PROVE IInv
  OBVIOUS
<1> USE QueueSizeAssumption, ThreadsAssumption
<1>1. LocalsOK
  <2>1. 0 \in Nodes /\ firstNode \in Nodes
    BY ModulesAssumption DEF Nodes, firstNode
  <2>2. NF_DROP \in Verdicts
    BY DEF Verdicts
  <2>3. <<>> \in Seq(Messages) /\ <<>> \in Seq([module : Nodes, reply : Verdicts])
    OBVIOUS
  <2>4. /\ inbox \in Seq(Messages) /\ held \subseteq Packets
        /\ packet_id \in [Packets -> Ids]
        /\ status \in [Workers -> {-1, 0}]
        /\ stopped \in {"no", "die", "crash", "exit"} /\ failed \in BOOLEAN
        /\ acceptedEarly \subseteq Ids
    BY <2>3, IdsAssumption DEF Init, ipq_create_handle
  <2>5. /\ result \in [Workers -> Verdicts]
        /\ currentNode \in Nodes
        /\ tmp \in [Workers -> Nodes] /\ succ \in [Workers -> Nodes]
        /\ asked \in [Workers -> Seq([module : Nodes, reply : Verdicts])]
    BY <2>1, <2>2, <2>3 DEF Init, ipq_create_handle
  <2>6. QED
    BY <2>4, <2>5 DEF LocalsOK
<1>3. ControlOK
  BY DEF Init, ControlOK, LockHeld, Critical, Threads, PatchingSteps, WorkerSteps
<1>4. QueueOK
  <2>1. buffer \in [Slots -> Messages \cup {NULL, Garbage}]
    BY DEF Init, queue_init
  <2>2. front = 0 /\ rear = 0 /\ currentSize = 0
    BY DEF Init, queue_init
  <2>3. (0 + 0) % QueueSize = 0
    BY ModWrap
  <2>4. RingOK
    BY <2>2, <2>3 DEF RingOK, Slots
  <2>5. Contents = <<>>
    BY <2>2 DEF Contents
  <2>6. ctx \in [Threads -> Messages \cup {NULL, Garbage}] /\ shed = {}
    BY DEF Init
  <2>7. DequeueDefined
    BY DEF Init, DequeueDefined, Busy, Threads
  <2>8. BacklogBound
    BY <2>2, BacklogAssumption, ThreadsAssumption DEF Init, BacklogBound, Threads
  <2>9. QED
    BY <2>1, <2>4, <2>5, <2>6, <2>7, <2>8 DEF QueueOK
<1>5. QED
  BY <1>1, <1>3, <1>4 DEF IInv

-----------------------------------------------------------------------------
(* Each step moves one thread between its own places, and the lock changes *)
(* hands only at the lock and unlock steps.                                *)
LEMMA ControlStep ==
  ASSUME IInv, [Next]_vars
  PROVE  ControlOK'
<1> USE ThreadsAssumption DEF IInv, ControlOK, LockHeld, Critical, Threads,
        PatchingSteps, WorkerSteps, Go, lock
<1>1. ASSUME NEW p \in Packets, Arrive(p) PROVE ControlOK'
  BY <1>1 DEF Arrive
<1>2. ASSUME ReadMessage PROVE ControlOK'
  BY <1>2 DEF ReadMessage
<1>3. ASSUME CheckBacklog PROVE ControlOK'
  BY <1>3 DEF CheckBacklog
<1>4. ASSUME Shed PROVE ControlOK'
  BY <1>4 DEF Shed
<1>5. ASSUME Wake PROVE ControlOK'
  BY <1>5 DEF Wake
<1>6. ASSUME PatchingLocks PROVE ControlOK'
  BY <1>6 DEF PatchingLocks
<1>7. ASSUME safe_queue PROVE ControlOK'
  BY <1>7 DEF safe_queue
<1>8. ASSUME PatchingUnlocks PROVE ControlOK'
  BY <1>8 DEF PatchingUnlocks
<1>9. ASSUME ReadFails PROVE ControlOK'
  BY <1>9 DEF ReadFails
<1>10. ASSUME NEW w \in Workers, WorkerLocks(w) PROVE ControlOK'
  BY <1>10 DEF WorkerLocks
<1>11. ASSUME NEW w \in Workers, safe_dequeue(w) PROVE ControlOK'
  BY <1>11 DEF safe_dequeue
<1>12. ASSUME NEW w \in Workers, NothingWaits(w) PROVE ControlOK'
  BY <1>12 DEF NothingWaits
<1>13. ASSUME NEW w \in Workers, WorkerUnlocks(w) PROVE ControlOK'
  BY <1>13 DEF WorkerUnlocks
<1>14. ASSUME NEW w \in Workers, DieOnStatus(w) PROVE ControlOK'
  BY <1>14 DEF DieOnStatus
<1>15. ASSUME NEW w \in Workers, Skip(w) PROVE ControlOK'
  BY <1>15 DEF Skip
<1>16. ASSUME NEW w \in Workers, CrashOnBarePacket(w) PROVE ControlOK'
  BY <1>16 DEF CrashOnBarePacket
<1>17. ASSUME NEW w \in Workers, AcceptNonTcp(w) PROVE ControlOK'
  BY <1>17 DEF AcceptNonTcp
<1>18. ASSUME NEW w \in Workers, PassTcp(w) PROVE ControlOK'
  BY <1>18 DEF PassTcp
<1>19. ASSUME NEW w \in Workers, Rewind(w) PROVE ControlOK'
  BY <1>19 DEF Rewind
<1>20. ASSUME NEW w \in Workers, LoadCursor(w) PROVE ControlOK'
  BY <1>20 DEF LoadCursor
<1>21. ASSUME NEW w \in Workers, TestCursor(w) PROVE ControlOK'
  BY <1>21 DEF TestCursor
<1>22. ASSUME NEW w \in Workers, NextNode(w) PROVE ControlOK'
  BY <1>22 DEF NextNode
<1>23. ASSUME NEW w \in Workers, StoreCursor(w) PROVE ControlOK'
  BY <1>23 DEF StoreCursor
<1>24. ASSUME NEW w \in Workers, CrashInGlistNext(w) PROVE ControlOK'
  BY <1>24 DEF CrashInGlistNext
<1>25. ASSUME NEW w \in Workers, ModuleExits(w) PROVE ControlOK'
  BY <1>25 DEF ModuleExits
<1>26. ASSUME NEW w \in Workers, Verdict(w) PROVE ControlOK'
  BY <1>26 DEF Verdict
<1>27. ASSUME NEW w \in Workers, VerdictFails(w) PROVE ControlOK'
  BY <1>27 DEF VerdictFails
<1>28. ASSUME NEW w \in Workers, NEW r \in Verdicts, CallModule(w, r) PROVE ControlOK'
  BY <1>28 DEF CallModule
<1>29. ASSUME UNCHANGED vars PROVE ControlOK'
  BY <1>29 DEF vars
<1>30. QED
  BY <1>1, <1>2, <1>3, <1>4, <1>5, <1>6, <1>7, <1>8, <1>9, <1>10, <1>11, <1>12, <1>13, <1>14, <1>15, <1>16, <1>17, <1>18, <1>19, <1>20, <1>21, <1>22, <1>23, <1>24, <1>25, <1>26, <1>27, <1>28, <1>29
  DEF Next, PatchingRuns, WorkerStep, CursorStep, Terminated

(* The cursor and its successors are positions in the list of modules.     *)
LEMMA NodeFacts ==
  /\ 0 \in Nodes /\ firstNode \in Nodes
  /\ \A n \in Nodes : n # 0 => next(n) \in Nodes
  BY ModulesAssumption DEF Nodes, firstNode, next

(* A new packet gets one of the numbers the kernel may choose.             *)
LEMMA EnqueueEffect ==
  ASSUME LocalsOK, NEW p \in Packets, Enqueue(p)
  PROVE  /\ inbox' \in Seq(Messages) /\ held' \subseteq Packets
         /\ packet_id' \in [Packets -> Ids]
<1>1. Packet(p) \in Messages
  BY DEF Packet, Messages
<1>2. inbox' \in Seq(Messages) /\ held' \subseteq Packets
  BY <1>1 DEF LocalsOK, Enqueue
<1> DEFINE used == {packet_id[q] : q \in held}
<1>3. used \in SUBSET Ids
  BY DEF LocalsOK
<1>4. FreeIds(used) \subseteq Ids
  BY <1>3, IdsAssumption
<1>5. PICK i \in FreeIds(used) : packet_id' = [packet_id EXCEPT ![p] = i]
  BY DEF Enqueue
<1> QED
  BY <1>2, <1>4, <1>5 DEF LocalsOK

(* A verdict changes the kernel's side only within its types.              *)
LEMMA VerdictEffect ==
  ASSUME LocalsOK, NEW p \in Packets, set_verdict(p)
  PROVE  /\ inbox' \in Seq(Messages) /\ held' \subseteq Packets
         /\ packet_id' = packet_id
<1>1. Error(p) \in Messages
  BY DEF Error, Messages
<1> QED
  BY <1>1 DEF LocalsOK, set_verdict

(* Remembering one more reply keeps the history a sequence of replies.     *)
LEMMA RememberType ==
  ASSUME NEW S, NEW replies \in Seq(S), NEW reply \in S
  PROVE  Remember(replies, reply) \in Seq(S)
  BY DEF Remember

(* A worker that has left the critical section is working on a message.    *)
LEMMA CtxInHand ==
  ASSUME IInv, NEW w \in Workers, pc[w] \notin {"lock", "take", "empty"}
  PROVE  ctx[w] \in Messages /\ ctx[w].packet \in Packets
<1>1. ctx[w] \in Messages
  BY ThreadsAssumption DEF IInv, QueueOK, DequeueDefined, Busy, Threads
<1>2. QED
  BY <1>1 DEF Messages

(* The values the local variables and the kernel's side can take.          *)
LEMMA LocalsStep ==
  ASSUME IInv, [Next]_vars
  PROVE  LocalsOK'
<1> USE ThreadsAssumption DEF IInv, LocalsOK, Threads, Go, Stop,
        kernelVars, heldVars, packetVars, cursorVars, outcomeVars
<1> USE DEF Verdicts
<1>1. ASSUME NEW p \in Packets, Arrive(p) PROVE LocalsOK'
  BY <1>1, EnqueueEffect DEF Arrive
<1>2. ASSUME ReadMessage PROVE LocalsOK'
  <2>1. inbox' \in Seq(Messages)
    BY <1>2 DEF ReadMessage
  <2>2. QED
    BY <1>2, <2>1 DEF ReadMessage
<1>3. ASSUME CheckBacklog PROVE LocalsOK'
  BY <1>3 DEF CheckBacklog
<1>4. ASSUME Shed PROVE LocalsOK'
  BY <1>4 DEF Shed
<1>5. ASSUME Wake PROVE LocalsOK'
  BY <1>5 DEF Wake
<1>6. ASSUME PatchingLocks PROVE LocalsOK'
  BY <1>6 DEF PatchingLocks
<1>7. ASSUME safe_queue PROVE LocalsOK'
  BY <1>7 DEF safe_queue
<1>8. ASSUME PatchingUnlocks PROVE LocalsOK'
  BY <1>8 DEF PatchingUnlocks
<1>9. ASSUME ReadFails PROVE LocalsOK'
  BY <1>9 DEF ReadFails
<1>10. ASSUME NEW w \in Workers, WorkerLocks(w) PROVE LocalsOK'
  BY <1>10 DEF WorkerLocks
<1>11. ASSUME NEW w \in Workers, safe_dequeue(w) PROVE LocalsOK'
  BY <1>11 DEF safe_dequeue
<1>12. ASSUME NEW w \in Workers, NothingWaits(w) PROVE LocalsOK'
  BY <1>12 DEF NothingWaits
<1>13. ASSUME NEW w \in Workers, WorkerUnlocks(w) PROVE LocalsOK'
  BY <1>13 DEF WorkerUnlocks
<1>14. ASSUME NEW w \in Workers, DieOnStatus(w) PROVE LocalsOK'
  BY <1>14 DEF DieOnStatus
<1>15. ASSUME NEW w \in Workers, Skip(w) PROVE LocalsOK'
  BY <1>15 DEF Skip
<1>16. ASSUME NEW w \in Workers, CrashOnBarePacket(w) PROVE LocalsOK'
  BY <1>16 DEF CrashOnBarePacket
<1>17. ASSUME NEW w \in Workers, AcceptNonTcp(w) PROVE LocalsOK'
  <2> DEFINE p == ctx[w].packet
  <2>1. p \in Packets
    BY <1>17, CtxInHand DEF AcceptNonTcp, HoldsPacket
  <2> HIDE DEF p
  <2>2. /\ inbox' \in Seq(Messages) /\ held' \subseteq Packets
        /\ packet_id' = packet_id /\ acceptedEarly' \subseteq Ids
    <3>1. CASE set_verdict(p) /\ acceptedEarly' = acceptedEarly \cup ({packet_id[p]} \cap Recorded)
      BY <2>1, <3>1, VerdictEffect
    <3>2. CASE UNCHANGED <<kernelVars, acceptedEarly>>
      BY <3>2
    <3>3. QED
      BY <1>17, <3>1, <3>2 DEF AcceptNonTcp, p
  <2>3. QED
    BY <1>17, <2>2 DEF AcceptNonTcp
<1>18. ASSUME NEW w \in Workers, PassTcp(w) PROVE LocalsOK'
  BY <1>18 DEF PassTcp
<1>19. ASSUME NEW w \in Workers, Rewind(w) PROVE LocalsOK'
  BY <1>19, NodeFacts DEF Rewind, glist_rewind
<1>20. ASSUME NEW w \in Workers, LoadCursor(w) PROVE LocalsOK'
  BY <1>20 DEF LoadCursor
<1>21. ASSUME NEW w \in Workers, TestCursor(w) PROVE LocalsOK'
  <2>1. tmp' \in [Workers -> Nodes]
    BY <1>21, NodeFacts DEF TestCursor
  <2>2. QED
    BY <1>21, <2>1 DEF TestCursor
<1>22. ASSUME NEW w \in Workers, NextNode(w) PROVE LocalsOK'
  <2>1. next(currentNode) \in Nodes
    BY <1>22, NodeFacts DEF NextNode
  <2>2. QED
    BY <1>22, <2>1 DEF NextNode
<1>23. ASSUME NEW w \in Workers, StoreCursor(w) PROVE LocalsOK'
  <2>1. succ[w] \in Nodes /\ 0 \in Nodes
    BY NodeFacts
  <2>2. QED
    BY <1>23, <2>1 DEF StoreCursor
<1>24. ASSUME NEW w \in Workers, CrashInGlistNext(w) PROVE LocalsOK'
  BY <1>24 DEF CrashInGlistNext
<1>25. ASSUME NEW w \in Workers, ModuleExits(w) PROVE LocalsOK'
  BY <1>25 DEF ModuleExits
<1>26. ASSUME NEW w \in Workers, Verdict(w) PROVE LocalsOK'
  <2>1. /\ inbox' \in Seq(Messages) /\ held' \subseteq Packets
        /\ packet_id' = packet_id
    BY <1>26, CtxInHand, VerdictEffect DEF Verdict
  <2>2. NF_DROP \in Verdicts /\ <<>> \in Seq([module : Nodes, reply : Verdicts])
    OBVIOUS
  <2>3. /\ result' \in [Workers -> Verdicts]
        /\ asked' \in [Workers -> Seq([module : Nodes, reply : Verdicts])]
    BY <1>26, <2>2 DEF Verdict
  <2>4. status' \in [Workers -> {-1, 0}]
    BY <1>26 DEF Verdict
  <2>5. UNCHANGED <<currentNode, tmp, succ, stopped, failed, acceptedEarly>>
    BY <1>26 DEF Verdict
  <2>6. QED
    BY <2>1, <2>3, <2>4, <2>5
<1>27. ASSUME NEW w \in Workers, VerdictFails(w) PROVE LocalsOK'
  BY <1>27 DEF VerdictFails
<1>28. ASSUME NEW w \in Workers, NEW r \in Verdicts, CallModule(w, r) PROVE LocalsOK'
  <2>1. asked' \in [Workers -> Seq([module : Nodes, reply : Verdicts])]
    <3>1. [module |-> tmp[w], reply |-> r] \in [module : Nodes, reply : Verdicts]
      OBVIOUS
    <3>2. Remember(asked[w], [module |-> tmp[w], reply |-> r])
            \in Seq([module : Nodes, reply : Verdicts])
      BY <3>1, RememberType
    <3>3. QED
      BY <1>28, <3>2 DEF CallModule
  <2>2. tmp' \in [Workers -> Nodes]
    BY <1>28, NodeFacts DEF CallModule
  <2>3. QED
    BY <1>28, <2>1, <2>2 DEF CallModule
<1>29. ASSUME UNCHANGED vars PROVE LocalsOK'
  BY <1>29 DEF vars
<1>30. QED
  BY <1>1, <1>2, <1>3, <1>4, <1>5, <1>6, <1>7, <1>8, <1>9, <1>10, <1>11, <1>12, <1>13, <1>14, <1>15, <1>16, <1>17, <1>18, <1>19, <1>20, <1>21, <1>22, <1>23, <1>24, <1>25, <1>26, <1>27, <1>28, <1>29
  DEF Next, PatchingRuns, WorkerStep, CursorStep, Terminated

-----------------------------------------------------------------------------
(* The test of currentSize makes queue_read deliver the oldest element.    *)
LEMMA DequeueTakes ==
  ASSUME IInv, NEW w \in Workers, safe_dequeue(w)
  PROVE  /\ ~isEmpty /\ queue_read
         /\ Contents # <<>>
         /\ oldest = Head(Contents)
         /\ oldest \in Messages
         /\ ctx' = [ctx EXCEPT ![w] = oldest]
<1>1. ~isEmpty
  BY FillLevelsAgree DEF IInv, QueueOK, safe_dequeue, someWaiting
<1>2. Contents # <<>> /\ Head(Contents) = buffer[front]
  BY <1>1, HeadIsFront DEF IInv, QueueOK
<1>3. Contents \in Seq(Messages)
  BY DEF IInv, QueueOK
<1>4. QED
  BY <1>1, <1>2, <1>3 DEF safe_dequeue, oldest

(* Every step leaves each thread's ctx a message while the thread works on *)
(* it (libero.c:82-87, 99-107).                                            *)
LEMMA CtxStep ==
  ASSUME IInv, [Next]_vars
  PROVE  /\ ctx' \in [Threads -> Messages \cup {NULL, Garbage}]
         /\ DequeueDefined'
<1> DEFINE Goal == /\ ctx' \in [Threads -> Messages \cup {NULL, Garbage}]
                   /\ DequeueDefined'
<1> SUFFICES Goal
  OBVIOUS
<1> USE ThreadsAssumption DEF IInv, LocalsOK, ControlOK, QueueOK, DequeueDefined, Busy,
        Threads, Go, PatchingSteps, WorkerSteps
<1>1. ASSUME NEW p \in Packets, Arrive(p) PROVE Goal
  BY <1>1 DEF Arrive
<1>2. ASSUME ReadMessage PROVE Goal
  BY <1>2 DEF ReadMessage
<1>3. ASSUME CheckBacklog PROVE Goal
  BY <1>3 DEF CheckBacklog
<1>4. ASSUME Shed PROVE Goal
  BY <1>4 DEF Shed
<1>5. ASSUME Wake PROVE Goal
  BY <1>5 DEF Wake, NewCtx
<1>6. ASSUME PatchingLocks PROVE Goal
  BY <1>6 DEF PatchingLocks
<1>7. ASSUME safe_queue PROVE Goal
  BY <1>7 DEF safe_queue
<1>8. ASSUME PatchingUnlocks PROVE Goal
  BY <1>8 DEF PatchingUnlocks, NewCtx
<1>9. ASSUME ReadFails PROVE Goal
  BY <1>9 DEF ReadFails
<1>10. ASSUME NEW w \in Workers, WorkerLocks(w) PROVE Goal
  BY <1>10 DEF WorkerLocks
<1>11. ASSUME NEW w \in Workers, safe_dequeue(w) PROVE Goal
  BY <1>11, DequeueTakes DEF safe_dequeue
<1>12. ASSUME NEW w \in Workers, NothingWaits(w) PROVE Goal
  BY <1>12 DEF NothingWaits
<1>13. ASSUME NEW w \in Workers, WorkerUnlocks(w) PROVE Goal
  BY <1>13 DEF WorkerUnlocks
<1>14. ASSUME NEW w \in Workers, DieOnStatus(w) PROVE Goal
  BY <1>14 DEF DieOnStatus
<1>15. ASSUME NEW w \in Workers, Skip(w) PROVE Goal
  BY <1>15 DEF Skip
<1>16. ASSUME NEW w \in Workers, CrashOnBarePacket(w) PROVE Goal
  BY <1>16 DEF CrashOnBarePacket
<1>17. ASSUME NEW w \in Workers, AcceptNonTcp(w) PROVE Goal
  BY <1>17 DEF AcceptNonTcp
<1>18. ASSUME NEW w \in Workers, PassTcp(w) PROVE Goal
  BY <1>18 DEF PassTcp
<1>19. ASSUME NEW w \in Workers, Rewind(w) PROVE Goal
  BY <1>19 DEF Rewind
<1>20. ASSUME NEW w \in Workers, LoadCursor(w) PROVE Goal
  BY <1>20 DEF LoadCursor
<1>21. ASSUME NEW w \in Workers, TestCursor(w) PROVE Goal
  BY <1>21 DEF TestCursor
<1>22. ASSUME NEW w \in Workers, NextNode(w) PROVE Goal
  BY <1>22 DEF NextNode
<1>23. ASSUME NEW w \in Workers, StoreCursor(w) PROVE Goal
  BY <1>23 DEF StoreCursor
<1>24. ASSUME NEW w \in Workers, CrashInGlistNext(w) PROVE Goal
  BY <1>24 DEF CrashInGlistNext
<1>25. ASSUME NEW w \in Workers, ModuleExits(w) PROVE Goal
  BY <1>25 DEF ModuleExits
<1>26. ASSUME NEW w \in Workers, Verdict(w) PROVE Goal
  BY <1>26 DEF Verdict
<1>27. ASSUME NEW w \in Workers, VerdictFails(w) PROVE Goal
  BY <1>27 DEF VerdictFails
<1>28. ASSUME NEW w \in Workers, NEW r \in Verdicts, CallModule(w, r) PROVE Goal
  BY <1>28 DEF CallModule
<1>29. ASSUME UNCHANGED vars PROVE Goal
  BY <1>29 DEF vars
<1>30. QED
  BY <1>1, <1>2, <1>3, <1>4, <1>5, <1>6, <1>7, <1>8, <1>9, <1>10, <1>11, <1>12, <1>13, <1>14, <1>15, <1>16, <1>17, <1>18, <1>19, <1>20, <1>21, <1>22, <1>23, <1>24, <1>25, <1>26, <1>27, <1>28, <1>29
  DEF Next, PatchingRuns, WorkerStep, CursorStep, Terminated

(* The steps the hand-over sees.                                           *)
Loud ==
  \/ ReadMessage \/ Shed \/ safe_queue
  \/ \E w \in Workers : safe_dequeue(w) \/ Skip(w) \/ Verdict(w)

Quiet ==
  /\ UNCHANGED queueVars
  /\ shed' = shed
  /\ \A t \in Threads : Hand(t)' = Hand(t)
  /\ pc'[Patching] \in {"lock", "write"} =>
       pc[Patching] \in {"lock", "write"} \/ BelowBacklog

(* Every step is one the hand-over sees, or it leaves the queue, the list  *)
(* of dropped messages and the hands of the threads as they are.           *)
LEMMA LoudOrQuiet ==
  ASSUME IInv, [Next]_vars
  PROVE  Loud \/ Quiet
<1> USE ThreadsAssumption DEF IInv, LocalsOK, ControlOK, QueueOK, Quiet, Hand, Busy,
        Threads, Go, Stop, outcomeVars, PatchingSteps, WorkerSteps
<1>1. ASSUME NEW p \in Packets, Arrive(p) PROVE Loud \/ Quiet
  BY <1>1 DEF Arrive
<1>2. ASSUME ReadMessage PROVE Loud \/ Quiet
  BY <1>2 DEF Loud
<1>3. ASSUME CheckBacklog PROVE Loud \/ Quiet
  BY <1>3 DEF CheckBacklog
<1>4. ASSUME Shed PROVE Loud \/ Quiet
  BY <1>4 DEF Loud
<1>5. ASSUME Wake PROVE Loud \/ Quiet
  BY <1>5 DEF Wake, NewCtx
<1>6. ASSUME PatchingLocks PROVE Loud \/ Quiet
  BY <1>6 DEF PatchingLocks
<1>7. ASSUME safe_queue PROVE Loud \/ Quiet
  BY <1>7 DEF Loud
<1>8. ASSUME PatchingUnlocks PROVE Loud \/ Quiet
  BY <1>8 DEF PatchingUnlocks, NewCtx
<1>9. ASSUME ReadFails PROVE Loud \/ Quiet
  BY <1>9 DEF ReadFails
<1>10. ASSUME NEW w \in Workers, WorkerLocks(w) PROVE Loud \/ Quiet
  BY <1>10 DEF WorkerLocks
<1>11. ASSUME NEW w \in Workers, safe_dequeue(w) PROVE Loud \/ Quiet
  BY <1>11 DEF Loud
<1>12. ASSUME NEW w \in Workers, NothingWaits(w) PROVE Loud \/ Quiet
  BY <1>12 DEF NothingWaits
<1>13. ASSUME NEW w \in Workers, WorkerUnlocks(w) PROVE Loud \/ Quiet
  BY <1>13 DEF WorkerUnlocks
<1>14. ASSUME NEW w \in Workers, DieOnStatus(w) PROVE Loud \/ Quiet
  BY <1>14 DEF DieOnStatus
<1>15. ASSUME NEW w \in Workers, Skip(w) PROVE Loud \/ Quiet
  BY <1>15 DEF Loud
<1>16. ASSUME NEW w \in Workers, CrashOnBarePacket(w) PROVE Loud \/ Quiet
  BY <1>16 DEF CrashOnBarePacket
<1>17. ASSUME NEW w \in Workers, AcceptNonTcp(w) PROVE Loud \/ Quiet
  BY <1>17 DEF AcceptNonTcp
<1>18. ASSUME NEW w \in Workers, PassTcp(w) PROVE Loud \/ Quiet
  BY <1>18 DEF PassTcp
<1>19. ASSUME NEW w \in Workers, Rewind(w) PROVE Loud \/ Quiet
  BY <1>19 DEF Rewind
<1>20. ASSUME NEW w \in Workers, LoadCursor(w) PROVE Loud \/ Quiet
  BY <1>20 DEF LoadCursor
<1>21. ASSUME NEW w \in Workers, TestCursor(w) PROVE Loud \/ Quiet
  BY <1>21 DEF TestCursor
<1>22. ASSUME NEW w \in Workers, NextNode(w) PROVE Loud \/ Quiet
  BY <1>22 DEF NextNode
<1>23. ASSUME NEW w \in Workers, StoreCursor(w) PROVE Loud \/ Quiet
  BY <1>23 DEF StoreCursor
<1>24. ASSUME NEW w \in Workers, CrashInGlistNext(w) PROVE Loud \/ Quiet
  BY <1>24 DEF CrashInGlistNext
<1>25. ASSUME NEW w \in Workers, ModuleExits(w) PROVE Loud \/ Quiet
  BY <1>25 DEF ModuleExits
<1>26. ASSUME NEW w \in Workers, Verdict(w) PROVE Loud \/ Quiet
  BY <1>26 DEF Loud
<1>27. ASSUME NEW w \in Workers, VerdictFails(w) PROVE Loud \/ Quiet
  BY <1>27 DEF VerdictFails
<1>28. ASSUME NEW w \in Workers, NEW r \in Verdicts, CallModule(w, r) PROVE Loud \/ Quiet
  BY <1>28 DEF CallModule
<1>29. ASSUME UNCHANGED vars PROVE Loud \/ Quiet
  BY <1>29 DEF vars
<1>30. QED
  BY <1>1, <1>2, <1>3, <1>4, <1>5, <1>6, <1>7, <1>8, <1>9, <1>10, <1>11, <1>12, <1>13, <1>14, <1>15, <1>16, <1>17, <1>18, <1>19, <1>20, <1>21, <1>22, <1>23, <1>24, <1>25, <1>26, <1>27, <1>28, <1>29
  DEF Next, PatchingRuns, WorkerStep, CursorStep, Terminated

-----------------------------------------------------------------------------
(* A ring nobody touches keeps its elements.                               *)
LEMMA RingUntouched ==
  ASSUME UNCHANGED queueVars
  PROVE  /\ Contents' = Contents
         /\ RingOK => RingOK'
         /\ isFull' = isFull
<1>1. /\ buffer' = buffer /\ front' = front
      /\ rear' = rear /\ currentSize' = currentSize
  BY DEF queueVars
<1>2. QED
  BY <1>1 DEF Contents, RingOK, isFull

(* patching writes only below the backlog, so its write always succeeds.   *)
LEMMA WriteFits ==
  ASSUME IInv, safe_queue
  PROVE  /\ ctx[Patching] \in Messages
         /\ ~isFull
         /\ currentSize < Backlog
         /\ queue_write(ctx[Patching])
<1>1. pc[Patching] = "write" /\ queue_write(ctx[Patching])
  BY DEF safe_queue, Go
<1>2. ctx[Patching] \in Messages
  BY <1>1 DEF IInv, QueueOK, DequeueDefined, Busy, Threads
<1>3. QED
  BY <1>1, <1>2 DEF IInv, QueueOK, BacklogBound

(* What a step does to the ring: nothing, append the message in patching's *)
(* hand, or remove the oldest one.                                         *)
LEMMA RingStep ==
  ASSUME IInv, [Next]_vars
  PROVE  /\ RingOK'
         /\ buffer' \in [Slots -> Messages \cup {NULL, Garbage}]
         /\ Contents' \in Seq(Messages)
         /\ \/ UNCHANGED queueVars /\ Contents' = Contents
            \/ safe_queue /\ Contents' = Append(Contents, ctx[Patching])
                          /\ currentSize' = currentSize + 1
            \/ \E w \in Workers :
                 safe_dequeue(w) /\ Contents' = Tail(Contents)
                                 /\ currentSize' = currentSize - 1
<1> DEFINE Words == Messages \cup {NULL, Garbage}
<1>1. /\ RingOK /\ buffer \in [Slots -> Words] /\ Contents \in Seq(Messages)
  BY DEF IInv, QueueOK
<1>2. CASE UNCHANGED queueVars
  <2>1. RingOK' /\ Contents' = Contents
    BY <1>1, <1>2, RingUntouched
  <2>2. buffer' = buffer
    BY <1>2 DEF queueVars
  <2>3. QED
    BY <1>1, <1>2, <2>1, <2>2
<1>3. CASE safe_queue
  <2>1. /\ ctx[Patching] \in Messages
        /\ ~isFull /\ queue_write(ctx[Patching])
    BY <1>3, WriteFits
  <2>2. /\ RingOK'
        /\ buffer' \in [Slots -> Words \cup {ctx[Patching]}]
        /\ currentSize' = currentSize + 1
        /\ Contents' = Append(Contents, ctx[Patching])
    BY <1>1, <2>1, WriteAppends
  <2>3. Words \cup {ctx[Patching]} = Words
    BY <2>1
  <2>4. Contents' \in Seq(Messages)
    BY <1>1, <2>1, <2>2
  <2>5. QED
    BY <1>3, <2>2, <2>3, <2>4
<1>4. CASE \E w \in Workers : safe_dequeue(w)
  <2>1. PICK w \in Workers : safe_dequeue(w)
    BY <1>4
  <2>2. ~isEmpty /\ queue_read
    BY <2>1, DequeueTakes
  <2>3. /\ RingOK' /\ buffer' = buffer
        /\ currentSize' = currentSize - 1
        /\ Contents # <<>> /\ Contents' = Tail(Contents)
    BY <1>1, <2>2, ReadTakesHead
  <2>4. Contents' \in Seq(Messages)
    BY <1>1, <2>3
  <2>5. QED
    BY <1>1, <2>1, <2>3, <2>4
<1>5. UNCHANGED queueVars \/ safe_queue \/ \E w \in Workers : safe_dequeue(w)
  BY LoudOrQuiet DEF Loud, Quiet, ReadMessage, Shed, Skip, Verdict
<1>6. QED
  BY <1>2, <1>3, <1>4, <1>5

(* FillLevelsAgree for the state after a step.                             *)
LEMMA FullMeansNext ==
  ASSUME RingOK'
  PROVE  isFull' => currentSize' = QueueSize - 1
<1> DEFINE f == front'
           c == currentSize'
<1>1. /\ f \in Slots /\ c \in 0 .. QueueSize - 1
      /\ rear' = (f + c) % QueueSize
  BY DEF RingOK
<1>2. isFull' => f = (f + (c + 1)) % QueueSize
  BY <1>1, StepWraps DEF isFull
<1>3. f # (f + (c + 1)) % QueueSize \/ c = QueueSize - 1
  <2> HIDE DEF f, c
  <2>1. CASE c + 1 \in 0 .. QueueSize - 1
    BY <1>1, <2>1, StepWraps, QueueSizeAssumption DEF Slots
  <2>2. CASE c + 1 \notin 0 .. QueueSize - 1
    BY <1>1, <2>2, QueueSizeAssumption
  <2>3. QED
    BY <2>1, <2>2
<1>4. QED
  BY <1>2, <1>3

(* patching is on its way to a write only if it was, or if the backlog has *)
(* just been tested.                                                       *)
LEMMA PatchingReachesLock ==
  ASSUME IInv, [Next]_vars, pc[Patching]' \in {"lock", "write"}
  PROVE  pc[Patching] \in {"lock", "write"} \/ currentSize < Backlog
<1> USE ThreadsAssumption DEF IInv, ControlOK, Threads, Go
<1>1. CASE Quiet
  BY <1>1 DEF Quiet, BelowBacklog
<1>2. CASE ReadMessage \/ Shed \/ safe_queue
  BY <1>2 DEF ReadMessage, Shed, safe_queue
<1>3. CASE \E w \in Workers : safe_dequeue(w) \/ Skip(w) \/ Verdict(w)
  BY <1>3 DEF safe_dequeue, Skip, Verdict
<1>4. QED
  BY <1>1, <1>2, <1>3, LoudOrQuiet DEF Loud

(* The unlocked test stays good: only patching adds to the queue.          *)
LEMMA BacklogStep ==
  ASSUME IInv, [Next]_vars
  PROVE  BacklogBound'
<1> USE BacklogAssumption, QueueSizeAssumption
<1>1. /\ BacklogBound /\ RingOK'
      /\ currentSize \in 0 .. QueueSize - 1
  BY RingStep DEF IInv, QueueOK, RingOK
<1>2. /\ currentSize' <= Backlog
      /\ pc[Patching]' \in {"lock", "write"} => currentSize' < Backlog
  <2>1. CASE safe_queue /\ currentSize' = currentSize + 1
    <3>1. pc[Patching]' = "unlock"
      BY <2>1, ThreadsAssumption DEF safe_queue, Go, IInv, ControlOK, Threads
    <3>2. currentSize < Backlog
      BY <2>1, WriteFits
    <3>3. QED
      BY <1>1, <2>1, <3>1, <3>2
  <2>2. CASE UNCHANGED queueVars
    <3>1. currentSize' = currentSize
      BY <2>2 DEF queueVars
    <3>2. QED
      BY <1>1, <3>1, PatchingReachesLock DEF BacklogBound
  <2>3. ASSUME NEW w \in Workers, safe_dequeue(w), currentSize' = currentSize - 1
        PROVE  currentSize' < Backlog
    BY <1>1, <2>3 DEF BacklogBound
  <2>4. currentSize' < Backlog => currentSize' <= Backlog
    BY <1>1 DEF RingOK
  <2>5. QED
    BY <2>1, <2>2, <2>3, <2>4, RingStep
<1>3. pc[Patching]' \in {"lock", "write"} => ~isFull'
  BY <1>1, <1>2, FullMeansNext DEF RingOK
<1>4. QED
  BY <1>2, <1>3 DEF BacklogBound

(* What patching gives up is a message (libero.c:115-118).                 *)
LEMMA ShedStep ==
  ASSUME IInv, [Next]_vars
  PROVE  shed' \subseteq Messages
<1>1. shed \subseteq Messages
  BY DEF IInv, QueueOK
<1>2. CASE Shed
  <2>1. ctx[Patching] \in Messages
    BY <1>2 DEF Shed, Go, IInv, QueueOK, DequeueDefined, Busy, Threads
  <2>2. QED
    BY <1>1, <1>2, <2>1 DEF Shed
<1>3. CASE ~Shed
  BY <1>1, <1>3, LoudOrQuiet
     DEF Loud, Quiet, ReadMessage, safe_queue, safe_dequeue, Skip, Verdict, outcomeVars
<1>4. QED
  BY <1>2, <1>3

(* The inductive invariant.                                                *)
THEOREM Invariance == Spec => []IInv
<1>1. IInv /\ [Next]_vars => IInv'
  <2> SUFFICES ASSUME IInv, [Next]_vars PROVE IInv'
    OBVIOUS
  <2>1. QueueOK'
    BY CtxStep, RingStep, BacklogStep, ShedStep DEF QueueOK
  <2>2. QED
    BY <2>1, LocalsStep, ControlStep DEF IInv
<1>2. QED
  BY InitIInv, <1>1, PTL DEF Spec

(* Types, and a ring whose indices agree with its counter.                 *)
THEOREM TypeCorrect == Spec => []TypeOK
<1>1. IInv => TypeOK
  BY DEF IInv, LocalsOK, ControlOK, QueueOK, TypeOK
<1>2. QED
  BY Invariance, <1>1, PTL

(* Between lock and unlock a thread is alone (libero.c:111-113, 137-144).  *)
THEOREM MutualExclusion == Spec => []LockHeld
<1>1. IInv => LockHeld
  BY DEF IInv, ControlOK
<1>2. QED
  BY Invariance, <1>1, PTL

(* The queue stays within the backlog and no write is refused              *)
(* (libero.c:77-81, 110-113).                                              *)
THEOREM BacklogHolds == Spec => []BacklogBound
<1>1. IInv => BacklogBound
  BY DEF IInv, QueueOK
<1>2. QED
  BY Invariance, <1>1, PTL

(* safe_dequeue never returns its uninitialised local (libero.c:82-87).    *)
THEOREM DequeueAlwaysDefined == Spec => []DequeueDefined
<1>1. IInv => DequeueDefined
  BY DEF IInv, QueueOK
<1>2. QED
  BY Invariance, <1>1, PTL

-----------------------------------------------------------------------------
(* The steps of the hand-over.                                             *)
LEMMA HandoffStep ==
  ASSUME IInv, [Next]_vars
  PROVE  [Handoff!Next]_(Handoff!vars)
<1> USE ThreadsAssumption
<1>1. /\ ControlOK /\ QueueOK /\ LocalsOK
      /\ Contents \in Seq(Messages) /\ Len(Contents) = currentSize
  BY ContentsType DEF IInv, QueueOK
<1>2. Patching \in Threads /\ \A w \in Workers : w \in Threads /\ w # Patching
  BY DEF Threads
<1>3. CASE Quiet
  <2>1. Contents' = Contents /\ shed' = shed
    BY <1>3, RingUntouched DEF Quiet
  <2>2. Incoming' = Incoming /\ Working' = Working
    BY <1>2, <1>3 DEF Quiet, Incoming, Working
  <2>3. QED
    BY <2>1, <2>2 DEF Handoff!vars
<1>4. CASE ReadMessage
  <2>1. Head(inbox) \in Messages
    BY <1>1, <1>4 DEF ReadMessage, LocalsOK
  <2>2. Incoming = Garbage /\ Incoming' = Head(inbox)
    BY <1>1, <1>2, <1>4 DEF ReadMessage, Go, Incoming, Hand, Busy, ControlOK, QueueOK
  <2>3. Working' = Working
    BY <1>1, <1>2, <1>4 DEF ReadMessage, Go, Working, Hand, Busy, ControlOK, QueueOK
  <2>4. Contents' = Contents /\ shed' = shed
    BY <1>4, RingUntouched DEF ReadMessage, outcomeVars
  <2>5. Handoff!TakeIn(Head(inbox))
    BY <2>2, <2>3, <2>4 DEF Handoff!TakeIn
  <2>6. QED
    BY <2>1, <2>5 DEF Handoff!Next
<1>5. CASE Shed
  <2>1. Incoming = ctx[Patching] /\ Incoming' = Garbage
    BY <1>1, <1>2, <1>5 DEF Shed, Go, Incoming, Hand, Busy, ControlOK, QueueOK
  <2>2. Incoming # Garbage
    BY <1>1, <1>2, <1>5, <2>1, PointersAssumption
       DEF Shed, Go, QueueOK, DequeueDefined, Busy
  <2>3. Working' = Working
    BY <1>1, <1>2, <1>5 DEF Shed, Go, Working, Hand, Busy, ControlOK, QueueOK
  <2>4. Contents' = Contents /\ shed' = shed \cup {Incoming}
    BY <1>5, <2>1, RingUntouched DEF Shed
  <2>5. Len(Contents) >= Backlog
    BY <1>1, <1>5, BacklogAssumption, QueueSizeAssumption
       DEF Shed, BelowBacklog, QueueOK, RingOK
  <2>6. Handoff!Drop
    BY <2>1, <2>2, <2>3, <2>4, <2>5 DEF Handoff!Drop
  <2>7. QED
    BY <2>6 DEF Handoff!Next
<1>6. CASE safe_queue
  <2>1. Incoming = ctx[Patching] /\ Incoming' = Garbage
    BY <1>1, <1>2, <1>6 DEF safe_queue, Go, Incoming, Hand, Busy, ControlOK, QueueOK
  <2>2. Incoming # Garbage /\ currentSize < Backlog
    BY <1>6, <2>1, WriteFits, PointersAssumption
  <2>3. Working' = Working
    BY <1>1, <1>2, <1>6 DEF safe_queue, Go, Working, Hand, Busy, ControlOK, QueueOK
  <2>4. Contents' = Append(Contents, Incoming) /\ shed' = shed
    <3>1. ~UNCHANGED queueVars
      BY <1>1, <1>6, WriteFits, QueueSizeAssumption
         DEF queue_write, rear_go, queueVars, QueueOK, RingOK
    <3>2. \A w \in Workers : ~safe_dequeue(w)
      BY <1>1, <1>2, <1>6 DEF safe_queue, safe_dequeue, Go, ControlOK, LockHeld, Critical
    <3>3. QED
      BY <1>6, <2>1, <3>1, <3>2, RingStep DEF safe_queue, outcomeVars
  <2>5. Handoff!Put
    BY <1>1, <2>1, <2>2, <2>3, <2>4 DEF Handoff!Put
  <2>6. QED
    BY <2>5 DEF Handoff!Next
<1>7. ASSUME NEW w \in Workers, safe_dequeue(w)
      PROVE  Handoff!Next
  <2>1. /\ ~isEmpty /\ queue_read /\ Contents # <<>>
        /\ oldest = Head(Contents)
        /\ ctx' = [ctx EXCEPT ![w] = Head(Contents)]
    BY <1>7, DequeueTakes
  <2>2. Contents' = Tail(Contents) /\ shed' = shed
    BY <1>1, <1>7, <2>1, ReadTakesHead DEF safe_dequeue, outcomeVars, QueueOK
  <2>3. Working[w] = Garbage
    BY <1>1, <1>2, <1>7 DEF safe_dequeue, Go, Working, Hand, Busy
  <2>4. Incoming' = Incoming
    BY <1>1, <1>2, <1>7, <2>1
       DEF safe_dequeue, Go, Incoming, Hand, Busy, ControlOK, QueueOK
  <2>5. Working' = [Working EXCEPT ![w] = Head(Contents)]
    BY <1>1, <1>2, <1>7, <2>1
       DEF safe_dequeue, Go, Working, Hand, Busy, ControlOK, QueueOK
  <2>6. Handoff!HandOver(w)
    BY <2>1, <2>2, <2>3, <2>4, <2>5 DEF Handoff!HandOver
  <2>7. QED
    BY <2>6 DEF Handoff!Next
<1>8. ASSUME NEW w \in Workers, Skip(w) \/ Verdict(w)
      PROVE  Handoff!Next
  <2>1. Incoming' = Incoming
    BY <1>1, <1>2, <1>8
       DEF Skip, Verdict, Go, Incoming, Hand, Busy, ControlOK, QueueOK
  <2>2. Working' = [Working EXCEPT ![w] = Garbage]
    BY <1>1, <1>2, <1>8
       DEF Skip, Verdict, Go, Working, Hand, Busy, ControlOK, QueueOK
  <2>3. Contents' = Contents /\ shed' = shed
    BY <1>8, RingUntouched DEF Skip, Verdict, outcomeVars
  <2>4. Handoff!Finish(w)
    BY <2>1, <2>2, <2>3 DEF Handoff!Finish
  <2>5. QED
    BY <2>4 DEF Handoff!Next
<1>9. QED
  BY <1>3, <1>4, <1>5, <1>6, <1>7, <1>8, LoudOrQuiet DEF Loud

(* The threads implement the hand-over, however many processing threads    *)
(* there are and whatever the modules answer (libero.c:99-146): a message  *)
(* is dropped only at the backlog limit, and otherwise reaches exactly one *)
(* thread, in the order of arrival.                                        *)
THEOREM HandoffHolds == Spec => ImplementsHandoff
<1>1. Init => Handoff!Init
  <2> SUFFICES ASSUME Init PROVE Handoff!Init
    OBVIOUS
  <2>1. Contents = <<>> /\ shed = {}
    BY DEF Init, queue_init, Contents
  <2>2. Incoming = Garbage /\ Working = [w \in Workers |-> Garbage]
    BY ThreadsAssumption DEF Init, Incoming, Working, Hand, Busy, Threads
  <2>3. QED
    BY <2>1, <2>2 DEF Handoff!Init
<1>2. IInv /\ [Next]_vars => [Handoff!Next]_(Handoff!vars)
  BY HandoffStep
<1>3. QED
  BY Invariance, <1>1, <1>2, PTL DEF Spec, ImplementsHandoff, Handoff!Spec
=============================================================================
