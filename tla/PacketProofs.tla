---------------------------- MODULE PacketProofs ----------------------------
(***************************************************************************)
(* The way of a packet.  With any number of processing threads a packet is *)
(* in one place, one that the kernel keeps is in the daemon or was given   *)
(* up at the backlog limit, and the kernel loses one before its verdict    *)
(* only by the number of a packet that was accepted early.  With one       *)
(* thread, as main starts it, the modules are asked in order, and          *)
(* glist_next, which reads the cursor three times, never follows a null    *)
(* pointer; several threads would share the cursor.                        *)
(***************************************************************************)
EXTENDS LiberoProofs, FiniteSetTheorems

PacketMessages == {Packet(p) : p \in Packets}

(* No packet is in two places.                                             *)
Distinct(s) ==
  \A i, j \in 1 .. Len(s) : s[i] \in PacketMessages /\ s[i] = s[j] => i = j

Waits(m) == m \in Range(inbox) \/ m \in Range(Contents)

Somewhere(m) == Waits(m) \/ \E t \in Threads : Hand(t) = m

Apart ==
  /\ Distinct(inbox) /\ Distinct(Contents)
  /\ \A m \in PacketMessages : m \in Range(inbox) => m \notin Range(Contents)
  /\ \A t, u \in Threads : Hand(t) \in PacketMessages /\ Hand(t) = Hand(u) => t = u
  /\ \A t \in Threads : Hand(t) \in PacketMessages => ~Waits(Hand(t))

(* What the kernel keeps and what the daemon knows of it.                  *)
Kept == \A p \in held : Packet(p) \in shed <=> ~Somewhere(Packet(p))

(* The kernel finds a packet it keeps by its number.                       *)
Unique == \A p, q \in held : packet_id[p] = packet_id[q] => p = q

PInv == IInv /\ Apart /\ Kept /\ Unique

LEMMA Addressed ==
  /\ \A p \in Packets : /\ Packet(p) \in Messages /\ Error(p) \in Messages
                        /\ Packet(p) \in PacketMessages /\ Error(p) \notin PacketMessages
                        /\ Packet(p).packet = p /\ Error(p).packet = p
                        /\ Packet(p).type = "packet" /\ Error(p).type = "error"
  /\ \A p, q \in Packets : /\ Packet(p) # Error(q)
                           /\ Packet(p) = Packet(q) => p = q
                           /\ Error(p) = Error(q) => p = q
  /\ \A m \in Messages : /\ m.packet \in Packets
                         /\ m.type = "packet" => m = Packet(m.packet)
                         /\ m.type # "packet" => m = Error(m.packet)
  /\ PacketMessages \subseteq Messages
<1>1. \A p \in Packets : /\ Packet(p) \in Messages /\ Error(p) \in Messages
                         /\ Packet(p).packet = p /\ Error(p).packet = p
                         /\ Packet(p).type = "packet" /\ Error(p).type = "error"
  BY DEF Messages, Packet, Error
<1>2. \A m \in Messages : /\ m.packet \in Packets
                          /\ m.type = "packet" => m = Packet(m.packet)
                          /\ m.type # "packet" => m = Error(m.packet)
  BY DEF Messages, Packet, Error
<1>3. /\ PacketMessages \subseteq Messages
      /\ \A p \in Packets : Packet(p) \in PacketMessages /\ Error(p) \notin PacketMessages
  BY <1>1 DEF PacketMessages
<1> QED
  BY <1>1, <1>2, <1>3

(* The two ends of a sequence of messages.                                 *)
LEMMA Joined ==
  ASSUME NEW s \in Seq(Messages), NEW m \in Messages
  PROVE  /\ Append(s, m) \in Seq(Messages)
         /\ Range(Append(s, m)) = Range(s) \cup {m}
         /\ Distinct(s) /\ (m \in PacketMessages => m \notin Range(s))
              => Distinct(Append(s, m))
<1> DEFINE t == Append(s, m)
<1>1. /\ t \in Seq(Messages)
      /\ Len(t) = Len(s) + 1 /\ Len(s) \in Nat
      /\ DOMAIN t = 1 .. Len(s) + 1 /\ DOMAIN s = 1 .. Len(s)
      /\ \A i \in 1 .. Len(s) : t[i] = s[i]
      /\ t[Len(s) + 1] = m
  BY AppendProperties, LenProperties
<1> HIDE DEF t
<1>2. Range(t) = Range(s) \cup {m}
  BY <1>1 DEF Range
<1>3. ASSUME Distinct(s), m \in PacketMessages => m \notin Range(s) PROVE Distinct(t)
  BY <1>1, <1>3 DEF Distinct, Range
<1> QED
  BY <1>1, <1>2, <1>3 DEF t

LEMMA Parted ==
  ASSUME NEW s \in Seq(Messages), s # <<>>
  PROVE  /\ Head(s) \in Messages /\ Tail(s) \in Seq(Messages)
         /\ Range(s) = {Head(s)} \cup Range(Tail(s))
         /\ Distinct(s) => /\ Distinct(Tail(s))
                           /\ Head(s) \in PacketMessages => Head(s) \notin Range(Tail(s))
<1> DEFINE t == Tail(s)
<1>1. /\ t \in Seq(Messages) /\ Head(s) \in Messages
      /\ Len(t) = Len(s) - 1 /\ Len(s) \in Nat /\ Len(s) > 0
      /\ DOMAIN t = 1 .. Len(s) - 1 /\ DOMAIN s = 1 .. Len(s)
      /\ \A i \in 1 .. Len(s) - 1 : t[i] = s[i + 1]
      /\ Head(s) = s[1]
  BY HeadTailProperties, LenProperties, EmptySeq
<1> HIDE DEF t
<1>2. Range(s) = {Head(s)} \cup Range(t)
  <2>1. ASSUME NEW i \in 1 .. Len(s), i # 1 PROVE i - 1 \in 1 .. Len(s) - 1 /\ s[i] = t[i - 1]
    BY <1>1, <2>1
  <2>2. ASSUME NEW x \in Range(s) PROVE x = s[1] \/ x \in Range(t)
    <3>1. PICK i \in 1 .. Len(s) : x = s[i]
      BY <1>1 DEF Range
    <3> QED
      BY <1>1, <2>1, <3>1 DEF Range
  <2>3. s[1] \in Range(s) /\ \A x \in Range(t) : x \in Range(s)
    BY <1>1 DEF Range
  <2> QED
    BY <1>1, <2>2, <2>3
<1>3. ASSUME Distinct(s)
      PROVE  Distinct(t) /\ (Head(s) \in PacketMessages => Head(s) \notin Range(t))
  BY <1>1, <1>3 DEF Distinct, Range
<1> QED
  BY <1>1, <1>2, <1>3 DEF t

(* A hand is empty or holds a message.                                     *)
LEMMA HandFacts ==
  ASSUME IInv
  PROVE  /\ \A t \in Threads : Hand(t) \in Messages \cup {Garbage}
         /\ \A t \in Threads : Busy(t) <=> Hand(t) # Garbage
         /\ \A t \in Threads : Busy(t) => Hand(t) = ctx[t]
         /\ \A t \in Threads, m \in Messages : InHand(t, m) <=> Hand(t) = m
         /\ Garbage \notin Messages /\ Garbage \notin PacketMessages
         /\ inbox \in Seq(Messages) /\ Contents \in Seq(Messages)
         /\ Range(inbox) \subseteq Messages /\ Range(Contents) \subseteq Messages
         /\ held \subseteq Packets /\ shed \subseteq Messages
         /\ packet_id \in [Packets -> Ids]
<1>1. \A s \in Seq(Messages) : Range(s) \subseteq Messages
  BY LenProperties DEF Range
<1> QED
  BY <1>1, PointersAssumption, Addressed
  DEF IInv, QueueOK, LocalsOK, DequeueDefined, Hand, InHand

-----------------------------------------------------------------------------
LEMMA InitApart == Init => Apart /\ Kept /\ Unique
<1> SUFFICES ASSUME Init PROVE Apart /\ Kept /\ Unique
  OBVIOUS
<1>1. /\ inbox = <<>> /\ held = {} /\ Contents = <<>>
      /\ \A t \in Threads : Hand(t) = Garbage
  BY ThreadsAssumption
  DEF Init, queue_init, ipq_create_handle, Contents, Hand, Busy, Threads
<1>2. Range(inbox) = {} /\ Range(Contents) = {} /\ Distinct(inbox) /\ Distinct(Contents)
  BY <1>1, EmptySeq DEF Range, Distinct
<1>3. Garbage \notin PacketMessages
  BY PointersAssumption, Addressed
<1> QED
  BY <1>1, <1>2, <1>3 DEF Apart, Kept, Unique

(* What can happen to the messages: only these steps touch one.            *)
LEMMA MoveOrSteady ==
  ASSUME IInv, [Next]_vars
  PROVE  \/ Loud
         \/ Quiet /\ (UNCHANGED kernelVars \/ (\E p \in Packets : Arrive(p))
                                           \/ (\E w \in Workers : AcceptNonTcp(w)))
<1> DEFINE Move == \/ Loud \/ UNCHANGED kernelVars
                   \/ (\E p \in Packets : Arrive(p))
                   \/ (\E w \in Workers : AcceptNonTcp(w))
<1> SUFFICES Move
  BY LoudOrQuiet
<1>1. CASE PatchingRuns \/ ReadFails
  BY <1>1 DEF PatchingRuns, ReadMessage, CheckBacklog, Shed, Wake, PatchingLocks,
     safe_queue, PatchingUnlocks, ReadFails, Loud
<1>2. ASSUME NEW w \in Workers,
             \/ WorkerLocks(w) \/ NothingWaits(w) \/ WorkerUnlocks(w)
             \/ DieOnStatus(w) \/ CrashOnBarePacket(w) \/ PassTcp(w)
             \/ ModuleExits(w) \/ VerdictFails(w) \/ CursorStep(w)
             \/ \E r \in Verdicts : CallModule(w, r)
      PROVE  UNCHANGED kernelVars
  BY <1>2 DEF WorkerLocks, NothingWaits, WorkerUnlocks, DieOnStatus, CrashOnBarePacket,
     PassTcp, ModuleExits, VerdictFails, CursorStep, Rewind, LoadCursor, TestCursor,
     NextNode, StoreCursor, CrashInGlistNext, CallModule
<1>3. ASSUME NEW w \in Workers, WorkerStep(w) PROVE Move
  BY <1>2, <1>3 DEF WorkerStep, Loud
<1>4. CASE UNCHANGED vars
  BY <1>4 DEF vars
<1> QED
  BY <1>1, <1>3, <1>4 DEF Next, Terminated

(* No message is made that was not there before.                           *)
NoNews == \A m \in Messages : Somewhere(m)' => Somewhere(m)

(* One lemma per kind of step, each with what the step does to the hands.  *)
LEMMA SteadyStep ==
  ASSUME PInv, Quiet, UNCHANGED kernelVars
  PROVE  Apart' /\ Kept' /\ Unique'
<1>1. /\ inbox' = inbox /\ held' = held /\ packet_id' = packet_id
      /\ shed' = shed /\ Contents' = Contents
      /\ \A t \in Threads : Hand(t)' = Hand(t)
  BY RingUntouched DEF Quiet, kernelVars, heldVars
<1>2. \A m : (Waits(m)' <=> Waits(m)) /\ (Somewhere(m)' <=> Somewhere(m))
  BY <1>1 DEF Waits, Somewhere
<1> QED
  BY <1>1, <1>2 DEF PInv, Apart, Kept, Unique

(* A packet the kernel queues is new to the daemon, and its number is not  *)
(* in use.                                                                 *)
LEMMA ArriveStep ==
  ASSUME PInv, Quiet, NEW p \in Packets, Arrive(p)
  PROVE  Apart' /\ Kept' /\ Unique'
<1> USE HandFacts DEF PInv
<1>1. /\ inbox' = Append(inbox, Packet(p)) /\ held' = held \cup {p} /\ p \notin held
      /\ shed' = shed /\ Contents' = Contents
      /\ \A t \in Threads : Hand(t)' = Hand(t)
      /\ Packet(p) \notin shed
  BY RingUntouched DEF Quiet, Arrive, Enqueue, Mentioned
<1>2. ~Somewhere(Packet(p))
  BY Addressed DEF Arrive, Mentioned, Somewhere, Waits
<1>3. Range(inbox)' = Range(inbox) \cup {Packet(p)} /\ Distinct(inbox)'
  BY <1>1, <1>2, Joined, Addressed DEF Apart, Somewhere, Waits
<1>4. \A m : /\ Waits(m)' <=> Waits(m) \/ m = Packet(p)
             /\ Somewhere(m)' <=> Somewhere(m) \/ m = Packet(p)
  BY <1>1, <1>3 DEF Waits, Somewhere
<1>5. Apart'
  <2>1. \A m \in PacketMessages : m \in Range(inbox)' => m \notin Range(Contents)'
    BY <1>1, <1>2, <1>3 DEF Apart, Somewhere, Waits
  <2>2. \A t \in Threads : Hand(t)' \in PacketMessages => ~Waits(Hand(t))'
    BY <1>1, <1>2, <1>4 DEF Apart, Somewhere
  <2> QED
    BY <1>1, <1>3, <2>1, <2>2 DEF Apart
<1>6. Kept'
  BY <1>1, <1>4, Addressed DEF Kept
<1>7. Unique'
  <2> DEFINE used == {packet_id[q] : q \in held}
  <2>1. used \in SUBSET Ids
    OBVIOUS
  <2>2. \A i \in FreeIds(used) : i \notin used
    BY <2>1, IdsAssumption
  <2>3. PICK i \in FreeIds(used) : packet_id' = [packet_id EXCEPT ![p] = i]
    BY DEF Arrive, Enqueue
  <2>4. /\ packet_id'[p] = i
        /\ \A q \in held : packet_id'[q] = packet_id[q] /\ packet_id[q] # i
    BY <1>1, <2>2, <2>3
  <2> QED
    BY <1>1, <2>4 DEF Unique
<1> QED
  BY <1>5, <1>6, <1>7

(* patching takes the first message out of the socket.                     *)
LEMMA ReadStep == ASSUME PInv, ReadMessage PROVE Apart' /\ Kept' /\ Unique' /\ NoNews
<1> USE HandFacts DEF PInv
<1> DEFINE h == Head(inbox)
<1>1. /\ inbox # <<>> /\ inbox' = Tail(inbox)
      /\ held' = held /\ packet_id' = packet_id /\ shed' = shed /\ Contents' = Contents
      /\ Patching \in Threads /\ Hand(Patching) = Garbage
      /\ \A t \in Threads : Hand(t)' = IF t = Patching THEN h ELSE Hand(t)
  BY RingUntouched, ThreadsAssumption
  DEF ReadMessage, Go, Hand, Busy, Threads, heldVars, outcomeVars, IInv, ControlOK, QueueOK
<1>2. /\ h \in Messages /\ Range(inbox) = {h} \cup Range(inbox)'
      /\ Distinct(inbox)' /\ (h \in PacketMessages => h \notin Range(inbox)')
  BY <1>1, Parted DEF Apart
<1> HIDE DEF h
<1>3. /\ Waits(h) /\ \A m : Waits(m) <=> Waits(m)' \/ m = h
      /\ \A m \in PacketMessages : m = h => ~Waits(m)'
  BY <1>1, <1>2 DEF Waits, Apart
<1>4. \A m \in Messages : Somewhere(m)' <=> Somewhere(m)
  BY <1>1, <1>2, <1>3 DEF Somewhere
<1>5. Apart'
  <2>1. \A m \in PacketMessages : m \in Range(inbox)' => m \notin Range(Contents)'
    BY <1>1, <1>2 DEF Apart
  <2>2. \A t, u \in Threads : Hand(t)' \in PacketMessages /\ Hand(t)' = Hand(u)' => t = u
    BY <1>1, <1>2, <1>3 DEF Apart
  <2>3. \A t \in Threads : Hand(t)' \in PacketMessages => ~Waits(Hand(t))'
    BY <1>1, <1>2, <1>3 DEF Apart
  <2> QED
    BY <1>1, <1>2, <2>1, <2>2, <2>3 DEF Apart
<1>6. Kept' /\ Unique'
  BY <1>1, <1>4, Addressed DEF Kept, Unique
<1> QED
  BY <1>4, <1>5, <1>6 DEF NoNews

(* At the backlog limit patching gives up the message in its hand.         *)
LEMMA ShedMessageStep == ASSUME PInv, Shed PROVE Apart' /\ Kept' /\ Unique' /\ NoNews
<1> USE HandFacts DEF PInv
<1> DEFINE h == ctx[Patching]
<1>1. /\ inbox' = inbox /\ held' = held /\ packet_id' = packet_id
      /\ shed' = shed \cup {h} /\ Contents' = Contents
      /\ Patching \in Threads /\ Hand(Patching) = h /\ h \in Messages
      /\ \A t \in Threads : Hand(t)' = IF t = Patching THEN Garbage ELSE Hand(t)
  BY RingUntouched, ThreadsAssumption
  DEF Shed, Go, Hand, Busy, Threads, heldVars, outcomeVars, kernelVars, IInv, ControlOK,
      QueueOK, DequeueDefined
<1> HIDE DEF h
<1>2. \A m : Waits(m)' <=> Waits(m)
  BY <1>1 DEF Waits
<1>3. Apart'
  BY <1>1, <1>2 DEF Apart
<1>4. \A m \in PacketMessages : Somewhere(m)' <=> Somewhere(m) /\ m # h
  <2>1. \A m \in PacketMessages : m = h => ~Waits(m)' /\ \A t \in Threads : Hand(t)' # m
    BY <1>1, <1>2 DEF Apart
  <2>2. \A m \in PacketMessages : m # h => (Somewhere(m)' <=> Somewhere(m))
    BY <1>1, <1>2 DEF Somewhere
  <2> QED
    BY <2>1, <2>2 DEF Somewhere
<1>5. Kept' /\ Unique'
  <2>1. Somewhere(h)
    BY <1>1 DEF Somewhere
  <2> QED
    BY <1>1, <1>4, <2>1, Addressed DEF Kept, Unique
<1>6. \A m \in Messages : Somewhere(m)' => Somewhere(m)
  BY <1>1, <1>2 DEF Somewhere
<1> QED
  BY <1>3, <1>5, <1>6 DEF NoNews

(* The message in patching's hand goes to the end of the queue.            *)
LEMMA QueueStep == ASSUME PInv, safe_queue PROVE Apart' /\ Kept' /\ Unique' /\ NoNews
<1> USE HandFacts DEF PInv
<1> DEFINE h == ctx[Patching]
<1>1. /\ inbox' = inbox /\ held' = held /\ packet_id' = packet_id /\ shed' = shed
      /\ Patching \in Threads /\ Hand(Patching) = h /\ h \in Messages
      /\ \A t \in Threads : Hand(t)' = IF t = Patching THEN Garbage ELSE Hand(t)
  BY ThreadsAssumption
  DEF safe_queue, Go, Hand, Busy, Threads, heldVars, outcomeVars, kernelVars, IInv,
      ControlOK, QueueOK, DequeueDefined
<1>2. Contents' = Append(Contents, h)
  BY WriteFits, WriteAppends DEF IInv, QueueOK
<1>3. h \in PacketMessages => h \notin Range(Contents) /\ h \notin Range(inbox)
  BY <1>1 DEF Apart, Waits
<1>4. Range(Contents)' = Range(Contents) \cup {h} /\ Distinct(Contents)'
  BY <1>1, <1>2, <1>3, Joined DEF Apart
<1> HIDE DEF h
<1>5. \A m : Waits(m)' <=> Waits(m) \/ m = h
  BY <1>1, <1>4 DEF Waits
<1>6. \A m \in Messages : Somewhere(m)' <=> Somewhere(m)
  BY <1>1, <1>5 DEF Somewhere
<1>7. Apart'
  <2>1. \A m \in PacketMessages : m \in Range(inbox)' => m \notin Range(Contents)'
    BY <1>1, <1>3, <1>4 DEF Apart
  <2>2. \A t \in Threads : Hand(t)' \in PacketMessages => ~Waits(Hand(t))'
    BY <1>1, <1>5 DEF Apart
  <2> QED
    BY <1>1, <1>4, <2>1, <2>2 DEF Apart
<1>8. Kept' /\ Unique'
  BY <1>1, <1>6, Addressed DEF Kept, Unique
<1> QED
  BY <1>6, <1>7, <1>8 DEF NoNews

(* The oldest message of the queue goes to one worker's hand.              *)
LEMMA DequeueStep ==
  ASSUME PInv, NEW w \in Workers, safe_dequeue(w)
  PROVE  Apart' /\ Kept' /\ Unique' /\ NoNews
<1> USE HandFacts DEF PInv
<1> DEFINE h == Head(Contents)
<1>1. /\ Contents # <<>> /\ queue_read /\ ~isEmpty /\ ctx' = [ctx EXCEPT ![w] = h]
  BY DequeueTakes
<1>2. Contents' = Tail(Contents)
  BY <1>1, ReadTakesHead DEF IInv, QueueOK
<1>3. /\ inbox' = inbox /\ held' = held /\ packet_id' = packet_id /\ shed' = shed
      /\ w \in Threads /\ Hand(w) = Garbage
      /\ \A t \in Threads : Hand(t)' = IF t = w THEN h ELSE Hand(t)
  BY <1>1, ThreadsAssumption
  DEF safe_dequeue, Go, Hand, Busy, Threads, heldVars, outcomeVars, kernelVars, IInv,
      ControlOK, QueueOK
<1>4. /\ h \in Messages /\ Range(Contents) = {h} \cup Range(Contents)'
      /\ Distinct(Contents)' /\ (h \in PacketMessages => h \notin Range(Contents)')
  BY <1>1, <1>2, Parted DEF Apart
<1> HIDE DEF h
<1>5. /\ Waits(h) /\ \A m : Waits(m) <=> Waits(m)' \/ m = h
      /\ \A m \in PacketMessages : m = h => ~Waits(m)'
  BY <1>3, <1>4 DEF Waits, Apart
<1>6. \A m \in Messages : Somewhere(m)' <=> Somewhere(m)
  BY <1>3, <1>4, <1>5 DEF Somewhere
<1>7. Apart'
  <2>1. \A m \in PacketMessages : m \in Range(inbox)' => m \notin Range(Contents)'
    BY <1>3, <1>4 DEF Apart
  <2>2. \A t, u \in Threads : Hand(t)' \in PacketMessages /\ Hand(t)' = Hand(u)' => t = u
    BY <1>3, <1>4, <1>5 DEF Apart
  <2>3. \A t \in Threads : Hand(t)' \in PacketMessages => ~Waits(Hand(t))'
    BY <1>3, <1>4, <1>5 DEF Apart
  <2> QED
    BY <1>3, <1>4, <2>1, <2>2, <2>3 DEF Apart
<1>8. Kept' /\ Unique'
  BY <1>3, <1>6, Addressed DEF Kept, Unique
<1> QED
  BY <1>6, <1>7, <1>8 DEF NoNews

(* A worker is done with a message: its hand is empty, no other changes.   *)
LEMMA LetGo ==
  ASSUME IInv, NEW w \in Workers, Skip(w) \/ Verdict(w)
  PROVE  /\ shed' = shed /\ Contents' = Contents
         /\ w \in Threads /\ Hand(w) = ctx[w] /\ ctx[w] \in Messages
         /\ \A t \in Threads : Hand(t)' = IF t = w THEN Garbage ELSE Hand(t)
BY RingUntouched, ThreadsAssumption
DEF Skip, Verdict, Go, Hand, Busy, Threads, outcomeVars, IInv, ControlOK, QueueOK,
    DequeueDefined

(* What is no packet is dropped without a verdict.                         *)
LEMMA SkipStep ==
  ASSUME PInv, NEW w \in Workers, Skip(w)
  PROVE  Apart' /\ Kept' /\ Unique' /\ NoNews
<1> USE HandFacts DEF PInv
<1> DEFINE h == ctx[w]
<1>1. /\ inbox' = inbox /\ held' = held /\ packet_id' = packet_id
      /\ shed' = shed /\ Contents' = Contents
      /\ w \in Threads /\ Hand(w) = h /\ h \in Messages
      /\ \A t \in Threads : Hand(t)' = IF t = w THEN Garbage ELSE Hand(t)
  BY LetGo DEF Skip, kernelVars, heldVars
<1>2. h.type # "packet"
  BY <1>1, PointersAssumption DEF Skip
<1> HIDE DEF h
<1>3. \A m : Waits(m)' <=> Waits(m)
  BY <1>1 DEF Waits
<1>4. \A p \in Packets : Somewhere(Packet(p))' <=> Somewhere(Packet(p))
  BY <1>1, <1>2, <1>3, Addressed DEF Somewhere
<1>5. \A m \in Messages : Somewhere(m)' => Somewhere(m)
  BY <1>1, <1>3 DEF Somewhere
<1> QED
  BY <1>1, <1>3, <1>4, <1>5 DEF NoNews, Apart, Kept, Unique

(* A verdict adds at most an error message and lets packets go.            *)
LEMMA VerdictSent ==
  ASSUME IInv, NEW p \in Packets, set_verdict(p)
  PROVE  /\ held' = held \ Found(p) /\ packet_id' = packet_id
         /\ Range(inbox)' = Range(inbox) \/ Range(inbox)' = Range(inbox) \cup {Error(p)}
         /\ Distinct(inbox) => Distinct(inbox)'
         /\ Found(p) # {} => inbox' = inbox
<1> USE HandFacts
<1>1. CASE inbox' = inbox
  BY <1>1 DEF set_verdict
<1>2. CASE inbox' = Append(inbox, Error(p)) /\ Found(p) = {}
  BY <1>2, Joined, Addressed DEF set_verdict
<1> QED
  BY <1>1, <1>2 DEF set_verdict

(* The early accept releases the packet with the number of the one in the  *)
(* worker's hand, or is refused, or the call fails.                        *)
LEMMA EarlyAcceptStep ==
  ASSUME PInv, Quiet, NEW w \in Workers, AcceptNonTcp(w)
  PROVE  Apart' /\ Kept' /\ Unique'
<1> USE HandFacts DEF PInv
<1>1. CASE UNCHANGED kernelVars
  BY <1>1, SteadyStep
<1>2. CASE set_verdict(ctx[w].packet)
  <2> DEFINE p == ctx[w].packet
  <2>1. /\ p \in Packets /\ shed' = shed /\ Contents' = Contents
        /\ \A t \in Threads : Hand(t)' = Hand(t)
    BY RingUntouched, CtxInHand DEF Quiet, AcceptNonTcp, HoldsPacket
  <2> HIDE DEF p
  <2>2. /\ held' \subseteq held /\ packet_id' = packet_id /\ Distinct(inbox)'
        /\ Range(inbox)' = Range(inbox) \/ Range(inbox)' = Range(inbox) \cup {Error(p)}
    BY <1>2, <2>1, VerdictSent DEF p, Apart
  <2>3. \A m \in PacketMessages : /\ m \in Range(inbox)' <=> m \in Range(inbox)
                                  /\ Waits(m)' <=> Waits(m)
                                  /\ Somewhere(m)' <=> Somewhere(m)
    BY <2>1, <2>2, Addressed DEF Waits, Somewhere
  <2>4. Apart'
    BY <2>1, <2>2, <2>3 DEF Apart
  <2>5. Kept' /\ Unique'
    BY <2>1, <2>2, <2>3, Addressed DEF Kept, Unique
  <2> QED
    BY <2>4, <2>5
<1> QED
  BY <1>1, <1>2 DEF AcceptNonTcp

(* The verdict on the packet in the worker's hand.                         *)
LEMMA VerdictMoves ==
  ASSUME PInv, NEW w \in Workers, Verdict(w)
  PROVE  LET p == ctx[w].packet IN
         /\ p \in Packets /\ set_verdict(p)
         /\ shed' = shed /\ Contents' = Contents
         /\ Hand(w) = ctx[w]
         /\ \A t \in Threads : Hand(t)' = IF t = w THEN Garbage ELSE Hand(t)
         /\ \A m \in PacketMessages :
              /\ m \in Range(inbox)' <=> m \in Range(inbox)
              /\ Waits(m)' <=> Waits(m)
              /\ Somewhere(m)' <=> Somewhere(m) /\ m # ctx[w]
<1> USE HandFacts DEF PInv
<1> DEFINE h == ctx[w]
           p == h.packet
<1>1. /\ shed' = shed /\ Contents' = Contents
      /\ w \in Threads /\ Hand(w) = h /\ h \in Messages
      /\ \A t \in Threads : Hand(t)' = IF t = w THEN Garbage ELSE Hand(t)
      /\ p \in Packets /\ set_verdict(p)
  BY LetGo, Addressed DEF Verdict
<1> HIDE DEF h, p
<1>2. Range(inbox)' = Range(inbox) \/ Range(inbox)' = Range(inbox) \cup {Error(p)}
  BY <1>1, VerdictSent
<1>3. \A m \in PacketMessages : /\ m \in Range(inbox)' <=> m \in Range(inbox)
                                /\ Waits(m)' <=> Waits(m)
  BY <1>1, <1>2, Addressed DEF Waits
<1>4. \A m \in PacketMessages : Somewhere(m)' <=> Somewhere(m) /\ m # h
  <2>1. h \in PacketMessages => ~Waits(h) /\ \A t \in Threads : Hand(t)' # h
    BY <1>1 DEF Apart
  <2>2. \A m \in PacketMessages : m # h => (Somewhere(m)' <=> Somewhere(m))
    BY <1>1, <1>3 DEF Somewhere
  <2> QED
    BY <1>3, <2>1, <2>2 DEF Somewhere
<1> QED
  BY <1>1, <1>3, <1>4 DEF h, p

(* The kernel lets go of the packet with the number the verdict names, or  *)
(* answers with an error.                                                  *)
LEMMA PacketVerdictStep ==
  ASSUME PInv, NEW w \in Workers, Verdict(w)
  PROVE  Apart' /\ Kept' /\ Unique'
<1> USE HandFacts DEF PInv
<1> DEFINE h == ctx[w]
           p == h.packet
<1>1. /\ p \in Packets /\ set_verdict(p) /\ shed' = shed /\ Contents' = Contents
      /\ \A t \in Threads : Hand(t)' = IF t = w THEN Garbage ELSE Hand(t)
      /\ \A m \in PacketMessages :
           /\ m \in Range(inbox)' <=> m \in Range(inbox)
           /\ Waits(m)' <=> Waits(m)
           /\ Somewhere(m)' <=> Somewhere(m) /\ m # h
  BY VerdictMoves
<1>2. /\ held' = held \ Found(p) /\ packet_id' = packet_id /\ Distinct(inbox)'
  BY <1>1, VerdictSent DEF Apart
<1>3. p \notin held'
  BY <1>2 DEF Found
<1> HIDE DEF h
<1>4. Apart'
  BY <1>1, <1>2 DEF Apart
<1>5. \A q \in held' : Packet(q) # h
  BY <1>2, <1>3, Addressed
<1> QED
  BY <1>1, <1>2, <1>4, <1>5, Addressed DEF Kept, Unique

(* The invariant of the packets' way.                                      *)
THEOREM PacketInvariance == Spec => []PInv
<1>1. ASSUME PInv, [Next]_vars PROVE Apart' /\ Kept' /\ Unique'
  BY <1>1, MoveOrSteady, SteadyStep, ArriveStep, ReadStep, ShedMessageStep, QueueStep,
     DequeueStep, SkipStep, EarlyAcceptStep, PacketVerdictStep DEF PInv, Loud
<1>2. IInv /\ Apart /\ Kept /\ Unique /\ [Next]_vars => (Apart /\ Kept /\ Unique)'
  BY <1>1 DEF PInv
<1>3. PInv <=> IInv /\ Apart /\ Kept /\ Unique
  BY DEF PInv
<1> QED
  BY <1>2, <1>3, InitApart, Invariance, PTL DEF Spec

(* Two hands, or a hand and a place in a sequence, are never the same      *)
(* place: all the places of a packet are one.                              *)
LEMMA PlacesAgree ==
  ASSUME PInv, NEW m \in PacketMessages, NEW x \in Places(m), NEW y \in Places(m)
  PROVE  x = y
<1> DEFINE S(i) == i \in DOMAIN inbox /\ inbox[i] = m
           Q(i) == i \in 1 .. currentSize /\ Contents[i] = m
           H(t) == t \in Threads /\ Hand(t) = m
<1> USE HandFacts, Addressed DEF PInv
<1>1. /\ DOMAIN inbox = 1 .. Len(inbox)
      /\ DOMAIN Contents = 1 .. currentSize /\ Len(Contents) = currentSize
  BY LenProperties, ContentsType DEF IInv, QueueOK, Contents
<1>2. \A z \in Places(m) : \/ (\E i : S(i) /\ z = <<"socket", i>>)
                           \/ (\E i : Q(i) /\ z = <<"queue", i>>)
                           \/ (\E t : H(t) /\ z = <<"thread", t>>)
  BY DEF Places
<1>3. /\ \A i, j : S(i) /\ S(j) => i = j
      /\ \A i, j : Q(i) /\ Q(j) => i = j
      /\ \A t, u : H(t) /\ H(u) => t = u
  BY <1>1 DEF Apart, Distinct
<1>4. /\ \A i : S(i) => m \in Range(inbox) /\ Waits(m)
      /\ \A i : Q(i) => m \in Range(Contents) /\ Waits(m)
  BY <1>1 DEF Range, Waits
<1>5. /\ \A i, j : ~(S(i) /\ Q(j))
      /\ \A i, t : ~(S(i) /\ H(t))
      /\ \A i, t : ~(Q(i) /\ H(t))
  BY <1>4 DEF Apart
<1> HIDE DEF S, Q, H
<1> QED
  BY <1>2, <1>3, <1>5

LEMMA PlacesSomewhere ==
  ASSUME IInv, NEW m \in Messages
  PROVE  Places(m) = {} <=> ~Somewhere(m)
<1>1. /\ DOMAIN inbox = 1 .. Len(inbox)
      /\ DOMAIN Contents = 1 .. currentSize
  BY HandFacts, LenProperties DEF Contents
<1>2. m \in Range(inbox) <=> \E i \in DOMAIN inbox : inbox[i] = m
  BY DEF Range
<1>3. m \in Range(Contents) <=> \E i \in 1 .. currentSize : Contents[i] = m
  BY <1>1 DEF Range
<1>4. \A t \in Threads : InHand(t, m) <=> Hand(t) = m
  BY HandFacts
<1>5. Places(m) = {} <=> /\ \A i \in DOMAIN inbox : inbox[i] # m
                         /\ \A i \in 1 .. currentSize : Contents[i] # m
                         /\ \A t \in Threads : ~InHand(t, m)
  <2>1. ASSUME NEW i \in DOMAIN inbox, inbox[i] = m PROVE <<"socket", i>> \in Places(m)
    BY <2>1 DEF Places
  <2>2. ASSUME NEW i \in 1 .. currentSize, Contents[i] = m PROVE <<"queue", i>> \in Places(m)
    BY <2>2 DEF Places
  <2>3. ASSUME NEW t \in Threads, InHand(t, m) PROVE <<"thread", t>> \in Places(m)
    BY <2>3 DEF Places
  <2>4. ASSUME NEW x \in Places(m)
        PROVE  \/ \E i \in DOMAIN inbox : inbox[i] = m
               \/ \E i \in 1 .. currentSize : Contents[i] = m
               \/ \E t \in Threads : InHand(t, m)
    BY DEF Places
  <2> QED
    BY <2>1, <2>2, <2>3, <2>4
<1> QED
  BY <1>2, <1>3, <1>4, <1>5 DEF Somewhere, Waits

(* With any number of processing threads no packet is in two places, and   *)
(* one that the kernel keeps is in the daemon or was given up by patching  *)
(* (libero.c:99-146): nothing is forgotten on the way.                     *)
THEOREM OnePlaceHolds == Spec => []OnePlace
<1>1. ASSUME PInv PROVE OnePlace
  <2>1. ASSUME NEW p \in Packets PROVE Cardinality(Places(Packet(p))) <= 1
    <3> DEFINE places == Places(Packet(p))
    <3>1. CASE places = {}
      BY <3>1, FS_EmptySet
    <3>2. ASSUME NEW x \in places PROVE Cardinality(places) <= 1
      <4>1. places = {x}
        BY <1>1, <3>2, PlacesAgree, Addressed
      <4> QED
        BY <4>1, FS_Singleton
    <3> QED
      BY <3>1, <3>2
  <2>2. \A p \in held : Packet(p) \in shed <=> Places(Packet(p)) = {}
    BY <1>1, PlacesSomewhere, HandFacts, Addressed DEF PInv, Kept
  <2> QED
    BY <2>1, <2>2 DEF OnePlace
<1> QED
  BY <1>1, PacketInvariance, PTL

-----------------------------------------------------------------------------
(* A packet in the daemon that the kernel has let go, and one of which an  *)
(* error message tells, has one of the numbers in early.                   *)
Excused(early) ==
  \A p \in Packets :
    /\ Somewhere(Packet(p)) => p \in held \/ packet_id[p] \in early
    /\ Somewhere(Error(p)) => packet_id[p] \in early

LEMMA InitExcused == ASSUME Init, NEW early PROVE Excused(early)
<1>1. /\ inbox = <<>> /\ Contents = <<>>
      /\ \A t \in Threads : Hand(t) = Garbage
  BY ThreadsAssumption
  DEF Init, queue_init, ipq_create_handle, Contents, Hand, Busy, Threads
<1>2. Range(inbox) = {} /\ Range(Contents) = {}
  BY <1>1, EmptySeq DEF Range
<1>3. Garbage \notin Messages
  BY PointersAssumption
<1> QED
  BY <1>1, <1>2, <1>3, Addressed DEF Excused, Somewhere, Waits

AcceptsEarly(w) == AcceptNonTcp(w) /\ kernelVars' # kernelVars

(* Only an early accept adds to these numbers.                             *)
LEMMA ExcusedStep ==
  ASSUME PInv, [Next]_vars, NEW early, NEW later, Excused(early), early \subseteq later,
         \A w \in Workers : AcceptsEarly(w) => packet_id[ctx[w].packet] \in later
  PROVE  \A p \in Packets :
           /\ Somewhere(Packet(p))' => p \in held' \/ packet_id'[p] \in later
           /\ Somewhere(Error(p))' => packet_id'[p] \in later
<1> USE HandFacts DEF PInv
<1> DEFINE SameNumbers == held' = held /\ packet_id' = packet_id
           Goal == \A p \in Packets :
                     /\ Somewhere(Packet(p))' => p \in held' \/ packet_id'[p] \in later
                     /\ Somewhere(Error(p))' => packet_id'[p] \in later
<1> SUFFICES Goal
  OBVIOUS
<1>1. CASE SameNumbers /\ NoNews
  BY <1>1, Addressed DEF NoNews, Excused
<1>2. CASE Quiet /\ UNCHANGED kernelVars
  <2>1. SameNumbers /\ NoNews
    BY <1>2, RingUntouched DEF Quiet, kernelVars, heldVars, NoNews, Somewhere, Waits
  <2> QED
    BY <1>1, <2>1
<1>3. ASSUME NEW p \in Packets, Quiet, Arrive(p) PROVE Goal
  <2>1. /\ ~Somewhere(Packet(p)) /\ ~Somewhere(Error(p))
        /\ held' = held \cup {p}
        /\ \A q \in Packets : q # p => packet_id'[q] = packet_id[q]
        /\ inbox' = Append(inbox, Packet(p)) /\ Contents' = Contents
        /\ \A t \in Threads : Hand(t)' = Hand(t)
    BY <1>3, RingUntouched, Addressed
    DEF Quiet, Arrive, Enqueue, Mentioned, Somewhere, Waits
  <2>2. \A m \in Messages : Somewhere(m)' => Somewhere(m) \/ m = Packet(p)
    BY <2>1, Joined, Addressed DEF Somewhere, Waits
  <2> QED
    BY <2>1, <2>2, Addressed DEF Excused
<1>4. ASSUME NEW w \in Workers, Quiet, AcceptNonTcp(w) PROVE Goal
  <2> DEFINE p == ctx[w].packet
  <2>1. CASE UNCHANGED kernelVars
    BY <1>2, <1>4, <2>1
  <2>2. CASE set_verdict(p) /\ ~UNCHANGED kernelVars
    <3>1. /\ p \in Packets /\ packet_id[p] \in later /\ Contents' = Contents
          /\ \A t \in Threads : Hand(t)' = Hand(t)
      BY <1>4, <2>2, RingUntouched, CtxInHand
      DEF Quiet, AcceptNonTcp, HoldsPacket, AcceptsEarly
    <3> HIDE DEF p
    <3>2. /\ held' = held \ Found(p) /\ packet_id' = packet_id
          /\ \A m \in Messages : Somewhere(m)' => Somewhere(m) \/ m = Error(p)
      BY <2>2, <3>1, VerdictSent DEF Somewhere, Waits
    <3>3. \A q \in held \ held' : packet_id[q] = packet_id[p]
      BY <3>2 DEF Found
    <3> QED
      BY <3>1, <3>2, <3>3, Addressed DEF Excused
  <2> QED
    BY <1>4, <2>1, <2>2 DEF AcceptNonTcp
<1>5. CASE ReadMessage \/ Shed \/ safe_queue \/ \E w \in Workers : safe_dequeue(w) \/ Skip(w)
  <2>1. SameNumbers
    BY <1>5 DEF ReadMessage, Shed, safe_queue, safe_dequeue, Skip, kernelVars, heldVars
  <2>2. NoNews
    BY <1>5, ReadStep, ShedMessageStep, QueueStep, DequeueStep, SkipStep
  <2> QED
    BY <1>1, <2>1, <2>2
<1>6. ASSUME NEW w \in Workers, Verdict(w) PROVE Goal
  <2> DEFINE h == ctx[w]
             p == h.packet
  <2>1. /\ p \in Packets /\ set_verdict(p) /\ Contents' = Contents
        /\ Hand(w) = h /\ h \in Messages /\ w \in Threads
        /\ \A t \in Threads : Hand(t)' = IF t = w THEN Garbage ELSE Hand(t)
        /\ \A m \in PacketMessages : Somewhere(m)' => m # h
    BY <1>6, VerdictMoves, LetGo, Addressed
  <2>2. Somewhere(h)
    BY <2>1 DEF Somewhere
  <2>3. h = Packet(p) \/ h = Error(p)
    BY <2>1, Addressed
  <2> HIDE DEF h, p
  <2>4. /\ held' = held \ Found(p) /\ packet_id' = packet_id
        /\ Found(p) # {} => inbox' = inbox
        /\ \A m \in Messages : Somewhere(m)' => Somewhere(m) \/ m = Error(p)
    BY <2>1, VerdictSent DEF Somewhere, Waits
  <2>5. CASE p \in held /\ h = Packet(p)
    <3>1. Found(p) = {p}
      BY <2>5 DEF Found, Unique
    <3>2. \A m \in Messages : Somewhere(m)' => Somewhere(m) /\ m # Packet(p)
      BY <2>1, <2>4, <2>5, <3>1, Addressed DEF Somewhere, Waits
    <3> QED
      BY <2>4, <3>1, <3>2, Addressed DEF Excused
  <2>6. CASE packet_id[p] \in early
    <3>1. \A q \in held \ held' : packet_id[q] = packet_id[p]
      BY <2>4 DEF Found
    <3> QED
      BY <2>1, <2>4, <2>6, <3>1, Addressed DEF Excused
  <2> QED
    BY <2>1, <2>2, <2>3, <2>5, <2>6 DEF Excused
<1> QED
  BY <1>2, <1>3, <1>4, <1>5, <1>6, MoveOrSteady DEF Loud

(* The history only grows, and an early accept is in it unless its number  *)
(* is beyond the bound.                                                    *)
LEMMA HistoryStep ==
  ASSUME [Next]_vars
  PROVE  /\ acceptedEarly \subseteq acceptedEarly'
         /\ \A w \in Workers : AcceptsEarly(w) =>
              packet_id[ctx[w].packet] \in acceptedEarly' \/ packet_id[ctx[w].packet] \notin Recorded
<1> USE DEF outcomeVars, Stop
<1>1. ASSUME NEW w \in Workers, AcceptNonTcp(w) PROVE acceptedEarly \subseteq acceptedEarly'
  BY <1>1 DEF AcceptNonTcp
<1>2. ASSUME NEW w \in Workers, CursorStep(w) PROVE acceptedEarly \subseteq acceptedEarly'
  BY <1>2 DEF CursorStep, Rewind, LoadCursor, TestCursor, NextNode, StoreCursor,
              CrashInGlistNext
<1>3. ASSUME NEW w \in Workers, WorkerStep(w) PROVE acceptedEarly \subseteq acceptedEarly'
  <2>1. CASE WorkerLocks(w) \/ safe_dequeue(w) \/ NothingWaits(w) \/ WorkerUnlocks(w)
    BY <2>1 DEF WorkerLocks, safe_dequeue, NothingWaits, WorkerUnlocks
  <2>2. CASE DieOnStatus(w) \/ Skip(w) \/ CrashOnBarePacket(w) \/ PassTcp(w)
    BY <2>2 DEF DieOnStatus, Skip, CrashOnBarePacket, PassTcp
  <2>3. CASE (\E r \in Verdicts : CallModule(w, r)) \/ ModuleExits(w)
    BY <2>3 DEF CallModule, ModuleExits
  <2>4. CASE Verdict(w) \/ VerdictFails(w)
    BY <2>4 DEF Verdict, VerdictFails
  <2> QED
    BY <1>1, <1>2, <1>3, <2>1, <2>2, <2>3, <2>4 DEF WorkerStep
<1>4. ASSUME PatchingRuns \/ ReadFails PROVE acceptedEarly \subseteq acceptedEarly'
  BY <1>4 DEF PatchingRuns, ReadFails, ReadMessage, CheckBacklog, Shed, Wake,
              PatchingLocks, safe_queue, PatchingUnlocks
<1>5. ASSUME \E p \in Packets : Arrive(p) PROVE acceptedEarly \subseteq acceptedEarly'
  BY <1>5 DEF Arrive
<1>6. ASSUME Terminated \/ UNCHANGED vars PROVE acceptedEarly \subseteq acceptedEarly'
  BY <1>6 DEF Terminated, vars
<1>7. acceptedEarly \subseteq acceptedEarly'
  BY <1>3, <1>4, <1>5, <1>6 DEF Next
<1>8. ASSUME NEW w \in Workers, AcceptsEarly(w)
      PROVE  packet_id[ctx[w].packet] \in acceptedEarly' \/ packet_id[ctx[w].packet] \notin Recorded
  BY <1>8 DEF AcceptsEarly, AcceptNonTcp
<1> QED
  BY <1>7, <1>8

(* With any number of processing threads, the kernel loses a packet before *)
(* its verdict, or refuses one, only under a number that was accepted      *)
(* early (libero.c:189-191, 291): nothing else lets go of a packet.        *)
THEOREM LostOnlyByReuseHolds == Spec => []LostOnlyByReuse
<1> DEFINE early == acceptedEarly \cup (Ids \ Recorded)
           HInv  == Excused(early)
<1>1. Init => HInv
  BY InitExcused
<1>2. ASSUME PInv, HInv, [Next]_vars PROVE HInv'
  <2>1. early \subseteq early'
    BY <1>2, HistoryStep
  <2>2. ASSUME NEW w \in Workers, AcceptsEarly(w) PROVE packet_id[ctx[w].packet] \in early'
    <3>1. ctx[w].packet \in Packets /\ packet_id \in [Packets -> Ids]
      BY <1>2, <2>2, CtxInHand, HandFacts DEF PInv, AcceptsEarly, AcceptNonTcp, HoldsPacket
    <3> QED
      BY <1>2, <2>2, <3>1, HistoryStep
  <2> HIDE DEF early
  <2>3. \A p \in Packets :
          /\ Somewhere(Packet(p))' => p \in held' \/ packet_id'[p] \in early'
          /\ Somewhere(Error(p))' => packet_id'[p] \in early'
    BY <1>2, <2>1, <2>2, ExcusedStep
  <2> QED
    BY <2>3 DEF Excused
<1>3. PInv /\ HInv => LostOnlyByReuse
  BY PlacesSomewhere, HandFacts, Addressed DEF PInv, Excused, LostOnlyByReuse
<1> QED
  BY <1>1, <1>2, <1>3, PacketInvariance, PTL DEF Spec

(* While every packet is TCP, no verdict comes before the result and the   *)
(* kernel waits for every result (libero.c:264-265, 291): what breaks the  *)
(* comment's promise is the early accept and nothing else.                 *)
THEOREM ResultDecidesForTcp ==
  ASSUME TcpPackets = Packets
  PROVE  Spec => []ResultDecides
<1>1. Init => Excused({})
  BY InitExcused
<1>2. ASSUME PInv, Excused({}), [Next]_vars PROVE Excused({})'
  <2>1. ASSUME NEW w \in Workers PROVE ~AcceptNonTcp(w)
    <3>1. pc[w] = "inspect" => ctx[w].packet \in Packets
      BY <1>2, CtxInHand DEF PInv
    <3> QED
      BY <3>1 DEF AcceptNonTcp, HoldsPacket, isTcp
  <2>2. \A p \in Packets :
          /\ Somewhere(Packet(p))' => p \in held' \/ packet_id'[p] \in {}
          /\ Somewhere(Error(p))' => packet_id'[p] \in {}
    <3>1. \A w \in Workers : AcceptsEarly(w) => packet_id[ctx[w].packet] \in {}
      BY <2>1 DEF AcceptsEarly
    <3> QED
      BY <1>2, <3>1, ExcusedStep
  <2> QED
    BY <2>2 DEF Excused
<1>3. ASSUME PInv, Excused({}), NEW w \in Workers, pc[w] = "verdict"
      PROVE  ctx[w].packet \in held
  <2>1. ctx[w] \in Messages /\ Somewhere(ctx[w])
    BY <1>3, CtxInHand, ThreadsAssumption DEF PInv, Somewhere, Hand, Busy, Threads
  <2> QED
    BY <1>3, <2>1, Addressed DEF Excused
<1>4. PInv /\ Excused({}) => ResultDecides
  BY <1>3 DEF ResultDecides
<1> QED
  BY <1>1, <1>2, <1>4, PacketInvariance, PTL DEF Spec

-----------------------------------------------------------------------------
(* The worker has asked a module, or is about to, or is done.              *)
Asking == {"load", "test", "next", "store", "call", "verdict"}

(* The replies that a worker has collected: none before the chain, then    *)
(* one for each module from the first on, with a drop only at the end.     *)
Collected(w) ==
  LET n == Len(asked[w]) IN
  /\ n <= Len(ModuleList)
  /\ pc[w] \notin Asking => asked[w] = <<>>
  /\ \A i \in 1 .. n : /\ asked[w][i].module = i
                       /\ asked[w][i].reply = NF_DROP => i = n /\ pc[w] = "verdict"
  /\ result[w] = IF n = 0 THEN NF_DROP ELSE asked[w][n].reply
  /\ pc[w] = "verdict" => n = Len(ModuleList) \/ (n > 0 /\ result[w] = NF_DROP)

(* The node after the first n, which is the one to ask next.               *)
NodeAfter(n) == IF n = Len(ModuleList) THEN 0 ELSE n + 1

(* The cursor, and glist_next's copies of it, are where the replies say.   *)
CursorAt(w) ==
  LET n == Len(asked[w]) IN
  /\ pc[w] \in {"load", "test", "next", "store"} => currentNode = NodeAfter(n)
  /\ pc[w] \in {"test", "next", "store"} => tmp[w] = currentNode
  /\ pc[w] \in {"next", "store", "call"} => n < Len(ModuleList)
  /\ pc[w] = "store" => succ[w] = NodeAfter(n + 1)
  /\ pc[w] = "call" => tmp[w] = n + 1 /\ currentNode = NodeAfter(n + 1)

Chain == \A w \in Workers : Collected(w) /\ CursorAt(w)

LEMMA Bounds ==
  ASSUME LocalsOK, NEW w \in Workers
  PROVE  /\ Len(ModuleList) \in Nat
         /\ Len(asked[w]) \in Nat
         /\ asked[w] \in Seq([module : Nodes, reply : Verdicts])
BY ModulesAssumption, LenProperties DEF LocalsOK

LEMMA InitChain == Init => Chain
<1> SUFFICES ASSUME Init, NEW w \in Workers PROVE Collected(w) /\ CursorAt(w)
  BY DEF Chain
<1>1. pc[w] = "lock" /\ asked[w] = <<>> /\ result[w] = NF_DROP
  BY ThreadsAssumption DEF Init, Threads
<1>2. Len(asked[w]) = 0 /\ Len(ModuleList) \in Nat
  BY <1>1, ModulesAssumption, LenProperties
<1> QED
  BY <1>1, <1>2 DEF Collected, CursorAt, Asking

(* Steps outside the chain.                                                *)
LEMMA OutsideChain ==
  ASSUME LocalsOK, Chain, NEW w \in Workers,
         UNCHANGED <<result, asked, cursorVars>>,
         \/ pc'[w] = pc[w]
         \/ pc[w] \notin Asking /\ pc'[w] \notin Asking
  PROVE  (Collected(w) /\ CursorAt(w))'
<1>1. Collected(w) /\ CursorAt(w)
  BY DEF Chain
<1>2. CASE pc'[w] = pc[w]
  BY <1>1, <1>2 DEF Collected, CursorAt, cursorVars
<1>3. CASE pc[w] \notin Asking /\ pc'[w] \notin Asking
  <2>1. asked[w] = <<>> /\ Len(asked[w]) = 0
    BY <1>1, <1>3 DEF Collected
  <2> QED
    BY <1>1, <1>3, <2>1, Bounds DEF Collected, CursorAt, cursorVars, Asking
<1> QED
  BY <1>2, <1>3

LEMMA RewindStep ==
  ASSUME LocalsOK, ControlOK, Chain, NEW w \in Workers, Rewind(w)
  PROVE  (Collected(w) /\ CursorAt(w))'
<1>1. /\ pc[w] = "rewind" /\ pc'[w] = "load"
      /\ currentNode' = firstNode
      /\ UNCHANGED <<packetVars, tmp, succ>>
  BY DEF Rewind, Go, glist_rewind, ControlOK, Threads
<1>2. asked[w] = <<>> /\ Len(asked[w]) = 0 /\ result[w] = NF_DROP
  BY <1>1 DEF Chain, Collected, Asking
<1>3. firstNode = NodeAfter(0)
  BY ModulesAssumption, EmptySeq DEF firstNode, NodeAfter
<1> QED
  BY <1>1, <1>2, <1>3, Bounds DEF packetVars, Collected, CursorAt, Asking

LEMMA NextStep ==
  ASSUME LocalsOK, ControlOK, Chain, NEW w \in Workers,
         LoadCursor(w) \/ TestCursor(w) \/ NextNode(w) \/ StoreCursor(w)
  PROVE  (Collected(w) /\ CursorAt(w))'
<1> DEFINE n == Len(asked[w])
<1>1. /\ n \in Nat /\ Len(ModuleList) \in Nat /\ n <= Len(ModuleList)
      /\ UNCHANGED packetVars
      /\ Collected(w) /\ CursorAt(w)
      /\ pc \in [Threads -> PatchingSteps \cup WorkerSteps] /\ w \in Threads
      /\ tmp \in [Workers -> Nodes] /\ succ \in [Workers -> Nodes]
  BY Bounds DEF Chain, Collected, LoadCursor, TestCursor, NextNode, StoreCursor,
     ControlOK, LocalsOK, Threads
<1>2. CASE LoadCursor(w)
  BY <1>1, <1>2 DEF LoadCursor, Go, packetVars, Collected, CursorAt, Asking
<1>3. CASE TestCursor(w)
  <2>1. pc[w] = "test" /\ currentNode = NodeAfter(n)
    BY <1>1, <1>3 DEF TestCursor, Go, CursorAt
  <2>2. currentNode = 0 <=> n = Len(ModuleList)
    BY <1>1, <2>1 DEF NodeAfter
  <2> QED
    BY <1>1, <1>3, <2>1, <2>2 DEF TestCursor, Go, packetVars, Collected, CursorAt, Asking
<1>4. CASE NextNode(w)
  <2>1. n < Len(ModuleList) /\ currentNode = n + 1
    BY <1>1, <1>4 DEF NextNode, Go, CursorAt, NodeAfter
  <2>2. next(currentNode) = NodeAfter(n + 1)
    BY <1>1, <2>1 DEF next, NodeAfter
  <2> QED
    BY <1>1, <1>4, <2>1, <2>2 DEF NextNode, Go, packetVars, Collected, CursorAt, Asking
<1>5. CASE StoreCursor(w)
  <2>1. n < Len(ModuleList) /\ tmp[w] = n + 1 /\ succ[w] = NodeAfter(n + 1)
    BY <1>1, <1>5 DEF StoreCursor, Go, CursorAt, NodeAfter
  <2> QED
    BY <1>1, <1>5, <2>1 DEF StoreCursor, Go, packetVars, Collected, CursorAt, Asking
<1> QED
  BY <1>2, <1>3, <1>4, <1>5

LEMMA CallStep ==
  ASSUME LocalsOK, ControlOK, Chain, NEW w \in Workers, NEW r \in Verdicts,
         CallModule(w, r)
  PROVE  (Collected(w) /\ CursorAt(w))'
<1> DEFINE n == Len(asked[w])
           reply == [module |-> tmp[w], reply |-> r]
<1>1. /\ n \in Nat /\ Len(ModuleList) \in Nat
      /\ asked[w] \in Seq([module : Nodes, reply : Verdicts])
      /\ Collected(w) /\ CursorAt(w) /\ pc[w] = "call"
      /\ n < Len(ModuleList) /\ tmp[w] = n + 1
      /\ currentNode = NodeAfter(n + 1)
  BY Bounds DEF Chain, CallModule, Go, CursorAt
<1>2. /\ pc'[w] = IF r = NF_DROP THEN "verdict" ELSE "load"
      /\ result'[w] = r /\ currentNode' = currentNode
      /\ asked'[w] = Append(asked[w], reply)
  BY <1>1 DEF CallModule, Go, EndsChain, Remember, MaxAsked, LocalsOK, ControlOK, Threads
<1>3. /\ Len(asked'[w]) = n + 1
      /\ \A i \in 1 .. n : asked'[w][i] = asked[w][i]
      /\ asked'[w][n + 1] = reply
  <2>1. reply \in [module : Nodes, reply : Verdicts]
    BY DEF LocalsOK
  <2> QED
    BY <1>1, <1>2, <2>1, AppendProperties
<1>4. \A i \in 1 .. n : asked[w][i].module = i /\ asked[w][i].reply # NF_DROP
  BY <1>1 DEF Collected
<1>5. \A i \in 1 .. n + 1 : i \in 1 .. n \/ i = n + 1
  BY <1>1
<1>6. Collected(w)'
  BY <1>1, <1>2, <1>3, <1>4, <1>5 DEF Collected, Asking
<1>7. CursorAt(w)'
  BY <1>1, <1>2, <1>3 DEF CursorAt
<1> QED
  BY <1>6, <1>7

LEMMA ChainVerdictStep ==
  ASSUME LocalsOK, ControlOK, NEW w \in Workers, Verdict(w)
  PROVE  (Collected(w) /\ CursorAt(w))'
<1>1. pc'[w] = "lock" /\ asked'[w] = <<>> /\ result'[w] = NF_DROP
  BY DEF Verdict, Go, LocalsOK, ControlOK, Threads
<1>2. Len(asked'[w]) = 0 /\ Len(ModuleList) \in Nat
  BY <1>1, ModulesAssumption, LenProperties
<1> QED
  BY <1>1, <1>2 DEF Collected, CursorAt, Asking

-----------------------------------------------------------------------------
(* The one worker that main starts.                                        *)
LEMMA StepChain ==
  ASSUME NEW one, Workers = {one}, IInv, Chain, [Next]_vars
  PROVE  Chain'
<1> SUFFICES (Collected(one) /\ CursorAt(one))'
  BY DEF Chain
<1>1. /\ LocalsOK /\ ControlOK /\ one \in Workers /\ one \in Threads
      /\ one # Patching /\ pc \in [Threads -> PatchingSteps \cup WorkerSteps]
  BY ThreadsAssumption DEF IInv, ControlOK, Threads
<1> DEFINE Outside ==
      /\ UNCHANGED <<result, asked, cursorVars>>
      /\ \/ pc'[one] = pc[one]
         \/ pc[one] \notin Asking /\ pc'[one] \notin Asking
<1>2. CASE \/ \E p \in Packets : Arrive(p)
           \/ ReadFails \/ UNCHANGED vars
  <2>1. Outside
    BY <1>2 DEF Arrive, ReadFails, vars, packetVars, cursorVars
  <2> QED
    BY <1>1, <2>1, OutsideChain
<1>3. CASE PatchingRuns
  <2>1. Outside
    BY <1>1, <1>3 DEF PatchingRuns, ReadMessage, CheckBacklog, Shed, Wake, PatchingLocks,
       safe_queue, PatchingUnlocks, Go, packetVars, cursorVars
  <2> QED
    BY <1>1, <2>1, OutsideChain
<1>4. CASE \/ WorkerLocks(one) \/ safe_dequeue(one) \/ NothingWaits(one)
           \/ WorkerUnlocks(one) \/ DieOnStatus(one) \/ Skip(one)
           \/ CrashOnBarePacket(one) \/ AcceptNonTcp(one) \/ PassTcp(one)
           \/ CrashInGlistNext(one) \/ ModuleExits(one) \/ VerdictFails(one)
  <2>1. Outside
    BY <1>1, <1>4 DEF WorkerLocks, safe_dequeue, NothingWaits, WorkerUnlocks, DieOnStatus,
       Skip, CrashOnBarePacket, AcceptNonTcp, PassTcp, CrashInGlistNext, ModuleExits,
       VerdictFails, Go, packetVars, cursorVars, Asking
  <2> QED
    BY <1>1, <2>1, OutsideChain
<1>5. CASE Rewind(one)
  BY <1>1, <1>5, RewindStep
<1>6. CASE LoadCursor(one) \/ TestCursor(one) \/ NextNode(one) \/ StoreCursor(one)
  BY <1>1, <1>6, NextStep
<1>7. CASE \E r \in Verdicts : CallModule(one, r)
  BY <1>1, <1>7, CallStep
<1>8. CASE Verdict(one)
  BY <1>1, <1>8, ChainVerdictStep
<1>9. [Next]_vars =>
        \/ \E p \in Packets : Arrive(p)
        \/ PatchingRuns \/ ReadFails \/ WorkerStep(one) \/ UNCHANGED vars
  BY DEF Next, Terminated
<1> QED
  BY <1>2, <1>3, <1>4, <1>5, <1>6, <1>7, <1>8, <1>9 DEF WorkerStep, CursorStep

(* Only a bare packet crashes the process: glist_next finds its cursor     *)
(* where it left it.                                                       *)
LEMMA CrashStep ==
  ASSUME NEW one, Workers = {one}, IInv, Chain, CrashOnlyOnBare, [Next]_vars
  PROVE  CrashOnlyOnBare'
<1>1. ~CrashInGlistNext(one)
  <2>1. pc[one] = "next" => currentNode # 0
    BY Bounds DEF IInv, Chain, CursorAt, NodeAfter
  <2>2. pc[one] = "store" => tmp[one] # 0
    BY Bounds DEF IInv, Chain, CursorAt, NodeAfter
  <2> QED
    BY <2>1, <2>2 DEF CrashInGlistNext
<1>2. CASE UNCHANGED vars
  BY <1>2 DEF vars, outcomeVars, CrashOnlyOnBare, HoldsPacket
<1>3. CASE CrashOnBarePacket(one)
  BY <1>3 DEF CrashOnBarePacket, CrashOnlyOnBare, HoldsPacket
<1>4. CASE stopped' # "crash"
  BY <1>4 DEF CrashOnlyOnBare
<1>5. \/ UNCHANGED vars \/ CrashOnBarePacket(one) \/ stopped' # "crash"
  <2>1. CASE (\E p \in Packets : Arrive(p)) \/ PatchingRuns \/ ReadFails
    BY <2>1 DEF Arrive, PatchingRuns, ReadMessage, CheckBacklog, Shed, Wake,
       PatchingLocks, safe_queue, PatchingUnlocks, ReadFails, Go, outcomeVars
  <2>2. CASE WorkerStep(one)
    BY <1>1, <2>2 DEF WorkerStep, CursorStep, WorkerLocks, safe_dequeue, NothingWaits,
       WorkerUnlocks, DieOnStatus, Skip, AcceptNonTcp, PassTcp, Rewind, LoadCursor,
       TestCursor, NextNode, StoreCursor, CallModule, ModuleExits, Verdict,
       VerdictFails, Go, Stop, outcomeVars
  <2> QED
    BY <2>1, <2>2 DEF Next, Terminated
<1> QED
  BY <1>2, <1>3, <1>4, <1>5

LEMMA ChainSuffices == IInv /\ Chain => AskedInOrder
<1> SUFFICES ASSUME IInv, Chain, NEW w \in Workers, pc[w] = "verdict"
             PROVE  LET n == Len(asked[w]) IN
                    /\ \A i \in 1 .. n : asked[w][i].module = i
                    /\ result[w] = IF n = 0 THEN NF_DROP ELSE asked[w][n].reply
                    /\ n < Len(ModuleList) => n > 0 /\ asked[w][n].reply # NF_ACCEPT
  BY DEF AskedInOrder
<1>1. NF_DROP # NF_ACCEPT
  BY DEF NF_DROP, NF_ACCEPT
<1> QED
  BY <1>1, Bounds DEF IInv, Chain, Collected

(* With one worker the modules are asked in order, the verdict is the last *)
(* reply, and the chain ends early only at a module that does not allow    *)
(* the packet (libero.c:253-262), for any number of modules and packets.   *)
THEOREM AskedInOrderHolds ==
  ASSUME NEW one, Workers = {one}
  PROVE  Spec => []AskedInOrder
<1>1. IInv /\ Chain /\ [Next]_vars => Chain'
  BY StepChain
<1> QED
  BY <1>1, InitChain, ChainSuffices, Invariance, PTL DEF Spec

(* With one worker nothing but a bare packet crashes the daemon            *)
(* (libero.c:184-189, glist.c:124-127).                                    *)
THEOREM CrashOnlyOnBareHolds ==
  ASSUME NEW one, Workers = {one}
  PROVE  Spec => []CrashOnlyOnBare
<1>1. IInv /\ Chain /\ [Next]_vars => Chain'
  BY StepChain
<1>2. IInv /\ Chain /\ CrashOnlyOnBare /\ [Next]_vars => CrashOnlyOnBare'
  BY CrashStep
<1>3. Init => CrashOnlyOnBare
  BY DEF Init, CrashOnlyOnBare
<1> QED
  BY <1>1, <1>2, <1>3, InitChain, Invariance, PTL DEF Spec
=============================================================================
