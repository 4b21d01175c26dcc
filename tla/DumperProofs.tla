---------------------------- MODULE DumperProofs ----------------------------
(***************************************************************************)
(* The dumper never uses or frees a copy that is gone, and prints in       *)
(* order, for any number of packets and with signals at any step.          *)
(***************************************************************************)
EXTENDS Dumper, SequenceTheorems, TLAPS

(* What each thread has in its hands at each step.                         *)
Hands ==
  /\ mpc \in {"lock", "add"} => copy # None
  /\ mpc \notin {"lock", "add"} => copy = None
  /\ mpc \in Processing \ {"read"} => buf # None
  /\ dpc \in {"loop", "wait", "woken", "take", "remove"} => hand = None
  /\ dpc \in {"test", "print", "free"} => hand # None
  /\ mpc \in {"relock", "discard", "release"} => dpc = "dead"

(* A packet that is in the socket is there once and has no copy yet; nor   *)
(* has the packet that main is about to copy.                              *)
Fresh ==
  /\ \A i, j \in 1 .. Len(inbox) :
       inbox[i].type = "packet" /\ inbox[j].type = "packet"
         /\ inbox[i].packet = inbox[j].packet => i = j
  /\ \A i \in 1 .. Len(inbox) :
       inbox[i].type = "packet" => inbox[i].packet \notin live \cup {buf}
  /\ mpc \in {"accept", "copy"} => buf \notin live

(* No copy is lost before the shutdown, from the very start.               *)
NoneLost ==
  mpc \in Processing \cup {"start"} => live \subseteq Range(msgs) \cup {copy, hand}

IInv == TypeOK /\ Hands /\ Fresh /\ NoneLost /\ CopiesAccounted

LEMMA InitIInv == Init => IInv
<1> SUFFICES ASSUME Init PROVE IInv
  OBVIOUS
<1> USE DEF Init, ipq_create_handle
<1>1. TypeOK
  BY EmptySeq, IdsAssumption DEF TypeOK, Processing, Leaving
<1>2. Hands /\ Fresh /\ NoneLost
  BY DEF Hands, Fresh, NoneLost, Processing
<1>3. CopiesAccounted
  BY DEF CopiesAccounted, IsInjective, Range, Processing
<1> QED
  BY <1>1, <1>2, <1>3 DEF IInv

-----------------------------------------------------------------------------
(* The two operations on the list.                                         *)
LEMMA Appended ==
  ASSUME NEW s \in Seq(Packets), NEW c \in Packets, IsInjective(s), c \notin Range(s)
  PROVE  /\ Append(s, c) \in Seq(Packets)
         /\ Range(Append(s, c)) = Range(s) \cup {c}
         /\ IsInjective(Append(s, c))
<1> DEFINE t == Append(s, c)
<1>1. /\ t \in Seq(Packets)
      /\ Len(t) = Len(s) + 1 /\ Len(s) \in Nat
      /\ DOMAIN t = 1 .. Len(s) + 1 /\ DOMAIN s = 1 .. Len(s)
      /\ \A i \in 1 .. Len(s) : t[i] = s[i]
      /\ t[Len(s) + 1] = c
  BY AppendProperties, LenProperties
<1> HIDE DEF t
<1>2. Range(t) = Range(s) \cup {c}
  BY <1>1 DEF Range
<1>3. IsInjective(t)
  BY <1>1 DEF IsInjective, Range
<1> QED
  BY <1>1, <1>2, <1>3 DEF t

LEMMA HeadTaken ==
  ASSUME NEW s \in Seq(Packets), s # <<>>, IsInjective(s)
  PROVE  /\ Head(s) \in Packets /\ Tail(s) \in Seq(Packets)
         /\ Range(s) = {Head(s)} \cup Range(Tail(s))
         /\ Head(s) \notin Range(Tail(s))
         /\ IsInjective(Tail(s))
<1> DEFINE t == Tail(s)
<1>1. /\ t \in Seq(Packets) /\ Head(s) \in Packets
      /\ Len(t) = Len(s) - 1 /\ Len(s) \in Nat /\ Len(s) > 0
      /\ DOMAIN t = 1 .. Len(s) - 1 /\ DOMAIN s = 1 .. Len(s)
      /\ \A i \in 1 .. Len(s) - 1 : t[i] = s[i + 1]
      /\ Head(s) = s[1]
  BY HeadTailProperties, LenProperties, EmptySeq
<1> HIDE DEF t
<1>2. Range(s) = {Head(s)} \cup Range(t)
  <2>1. ASSUME NEW i \in 1 .. Len(s), i # 1 PROVE i - 1 \in 1 .. Len(s) - 1 /\ s[i] = t[i - 1]
    BY <1>1, <2>1
  <2>2. ASSUME NEW i \in 1 .. Len(s) - 1 PROVE t[i] \in Range(s)
    BY <1>1 DEF Range
  <2>3. s[1] \in Range(s)
    BY <1>1 DEF Range
  <2>4. ASSUME NEW x \in Range(s) PROVE x = s[1] \/ x \in Range(t)
    <3>1. PICK i \in 1 .. Len(s) : x = s[i]
      BY <1>1 DEF Range
    <3> QED
      BY <1>1, <2>1, <3>1 DEF Range
  <2>5. ASSUME NEW x \in Range(t) PROVE x \in Range(s)
    BY <1>1, <2>2 DEF Range
  <2> QED
    BY <1>1, <2>3, <2>4, <2>5
<1>3. Head(s) \notin Range(t)
  BY <1>1 DEF IsInjective, Range
<1>4. IsInjective(t)
  BY <1>1 DEF IsInjective
<1> QED
  BY <1>1, <1>2, <1>3, <1>4 DEF t

-----------------------------------------------------------------------------
(* Steps that leave the socket, or the copies, as they are.                *)
LEMMA FreshKept ==
  ASSUME IInv, UNCHANGED inbox, live' \subseteq live, buf' \in {buf, None},
         mpc' \in {"accept", "copy"} => mpc \in {"accept", "copy"}
  PROVE  Fresh'
<1>1. None \notin live /\ \A i \in 1 .. Len(inbox) : inbox[i].packet # None
  <2>1. \A i \in 1 .. Len(inbox) : inbox[i] \in Messages
    BY LenProperties DEF IInv, TypeOK
  <2> QED
    BY <2>1, NoneAssumption DEF IInv, TypeOK, Messages
<1> QED
  BY <1>1 DEF IInv, Fresh

LEMMA CopiesKept ==
  ASSUME IInv, UNCHANGED <<msgs, live, hand, copy>>,
         mpc' \in Processing => mpc \in Processing \cup {"start"},
         mpc' = "start" => mpc = "start"
  PROVE  NoneLost' /\ CopiesAccounted'
BY DEF IInv, NoneLost, CopiesAccounted

(* A message that is added to the socket.                                  *)
LEMMA FreshMessage ==
  ASSUME IInv, NEW m \in Messages, inbox' = Append(inbox, m),
         UNCHANGED <<live, buf>>,
         mpc' \in {"accept", "copy"} => mpc \in {"accept", "copy"},
         m.type = "packet" => /\ m.packet \notin live \cup {buf}
                              /\ \A i \in DOMAIN inbox : inbox[i].packet # m.packet
  PROVE  Fresh' /\ inbox' \in Seq(Messages)
<1>1. inbox \in Seq(Messages) /\ Len(inbox) \in Nat /\ DOMAIN inbox = 1 .. Len(inbox)
  BY LenProperties DEF IInv, TypeOK
<1>2. /\ inbox' \in Seq(Messages)
      /\ Len(inbox') = Len(inbox) + 1
      /\ \A i \in 1 .. Len(inbox) : inbox'[i] = inbox[i]
      /\ inbox'[Len(inbox) + 1] = m
  BY <1>1, AppendProperties
<1>3. \A i \in 1 .. Len(inbox') : i \in 1 .. Len(inbox) \/ i = Len(inbox) + 1
  BY <1>1, <1>2
<1>4. ASSUME NEW i \in 1 .. Len(inbox'), NEW j \in 1 .. Len(inbox'),
             inbox'[i].type = "packet", inbox'[j].type = "packet",
             inbox'[i].packet = inbox'[j].packet
      PROVE  i = j
  BY <1>1, <1>2, <1>3, <1>4 DEF IInv, Fresh
<1>5. ASSUME NEW i \in 1 .. Len(inbox'), inbox'[i].type = "packet"
      PROVE  inbox'[i].packet \notin live \cup {buf}
  BY <1>2, <1>3, <1>5 DEF IInv, Fresh
<1> QED
  BY <1>2, <1>4, <1>5 DEF IInv, Fresh

LEMMA ArriveStep == ASSUME IInv, NEW p \in Packets, Arrive(p) PROVE IInv'
<1>1. Packet(p) \in Messages /\ Packet(p).packet = p
  BY DEF Packet, Messages
<1>2. Fresh' /\ inbox' \in Seq(Messages)
  BY <1>1, FreshMessage DEF Arrive, Enqueue, listVars, mainVars
<1>3. NoneLost' /\ CopiesAccounted'
  BY CopiesKept DEF Arrive, listVars, mainVars, dumpVars
<1>4. packet_id' \in [Packets -> Ids]
  <2> DEFINE used == {packet_id[q] : q \in held}
  <2>1. used \in SUBSET Ids
    BY DEF IInv, TypeOK
  <2>2. FreeIds(used) \subseteq Ids
    BY <2>1, IdsAssumption
  <2>3. PICK i \in FreeIds(used) : packet_id' = [packet_id EXCEPT ![p] = i]
    BY DEF Arrive, Enqueue
  <2> QED
    BY <2>2, <2>3 DEF IInv, TypeOK
<1>5. TypeOK' /\ Hands'
  BY <1>2, <1>4 DEF Arrive, Enqueue, listVars, mainVars, dumpVars, IInv, TypeOK, Hands
<1> QED
  BY <1>2, <1>3, <1>5 DEF IInv

LEMMA AcceptStep == ASSUME IInv, AcceptFirst \/ AcceptAgain PROVE IInv'
<1>1. /\ mpc \in {"accept", "again"}
      /\ mpc = "accept" => mpc' = "copy"
      /\ mpc = "again" => mpc' = "read"
      /\ UNCHANGED <<listVars, dumpVars, buf, copy, cancelled, stopped>>
      /\ set_verdict(buf) \/ UNCHANGED kernelVars
  BY DEF AcceptFirst, AcceptAgain, Accept, Main
<1>2. buf \in Packets
  BY <1>1 DEF IInv, Hands, TypeOK, Processing
<1>3. /\ Fresh' /\ inbox' \in Seq(Messages) /\ held' \subseteq Packets
      /\ packet_id' = packet_id
  <2>1. CASE UNCHANGED <<inbox, packet_id>> /\ held' \subseteq held
    <3>1. Fresh'
      BY <1>1, <2>1, FreshKept DEF listVars
    <3> QED
      BY <2>1, <3>1 DEF IInv, TypeOK
  <2>2. CASE inbox' = Append(inbox, Error(buf)) /\ UNCHANGED packet_id /\ held' \subseteq held
    <3>1. Error(buf) \in Messages /\ Error(buf).type = "error"
      BY <1>2 DEF Error, Messages
    <3>2. Fresh' /\ inbox' \in Seq(Messages)
      BY <1>1, <2>2, <3>1, FreshMessage DEF listVars
    <3> QED
      BY <2>2, <3>2 DEF IInv, TypeOK
  <2> QED
    BY <1>1, <2>1, <2>2 DEF set_verdict, kernelVars, heldVars
<1>4. NoneLost' /\ CopiesAccounted'
  BY <1>1, CopiesKept DEF listVars, dumpVars, Processing
<1>5. TypeOK' /\ Hands'
  BY <1>1, <1>3 DEF listVars, dumpVars, IInv, TypeOK, Hands, Processing
<1> QED
  BY <1>3, <1>4, <1>5 DEF IInv

LEMMA ReadStep == ASSUME IInv, ReadPacket \/ ReadError PROVE IInv'
<1>1. /\ mpc = "read" /\ inbox # <<>> /\ inbox' = Tail(inbox)
      /\ UNCHANGED <<heldVars, listVars, dumpVars, copy, cancelled, stopped>>
      /\ \/ /\ Head(inbox).type = "packet" /\ buf' = Head(inbox).packet
            /\ mpc' = "accept"
         \/ buf' = buf /\ mpc' = "reset"
  BY DEF ReadPacket, ReadError, AfterError, Main
<1>2. /\ inbox \in Seq(Messages) /\ Len(inbox) \in Nat /\ Len(inbox) > 0
      /\ Head(inbox) \in Messages /\ Head(inbox) = inbox[1]
      /\ inbox' \in Seq(Messages) /\ Len(inbox') = Len(inbox) - 1
      /\ \A i \in 1 .. Len(inbox') : inbox'[i] = inbox[i + 1]
  BY <1>1, HeadTailProperties, EmptySeq DEF IInv, TypeOK
<1>3. Fresh'
  <2>1. \A i \in 1 .. Len(inbox') : i + 1 \in 1 .. Len(inbox) /\ i + 1 # 1
    BY <1>2
  <2>2. 1 \in 1 .. Len(inbox)
    BY <1>2
  <2>3. ASSUME NEW i \in 1 .. Len(inbox'), NEW j \in 1 .. Len(inbox'),
               inbox'[i].type = "packet", inbox'[j].type = "packet",
               inbox'[i].packet = inbox'[j].packet
        PROVE  i = j
    <3>1. i + 1 = j + 1
      BY <1>2, <2>1, <2>3 DEF IInv, Fresh
    <3> QED
      BY <3>1
  <2>4. ASSUME NEW i \in 1 .. Len(inbox'), inbox'[i].type = "packet"
        PROVE  inbox'[i].packet \notin live \cup {buf'}
    BY <1>1, <1>2, <2>1, <2>2, <2>4 DEF IInv, Fresh
  <2>5. mpc' \in {"accept", "copy"} => buf' \notin live
    BY <1>1, <1>2, <2>2 DEF IInv, Fresh
  <2> QED
    BY <1>1, <2>3, <2>4, <2>5 DEF Fresh, listVars
<1>4. NoneLost' /\ CopiesAccounted'
  BY <1>1, CopiesKept DEF listVars, dumpVars, Processing
<1>5. TypeOK' /\ Hands'
  <2>1. Head(inbox).packet \in Packets /\ Head(inbox).packet # None
    BY <1>2, NoneAssumption DEF Messages
  <2> QED
    BY <1>1, <1>2, <2>1 DEF heldVars, listVars, dumpVars, IInv, TypeOK, Hands, Processing,
       Leaving
<1> QED
  BY <1>3, <1>4, <1>5 DEF IInv

-----------------------------------------------------------------------------
(* The copies: made, queued, taken, freed and thrown away.                 *)
LEMMA CopyStep == ASSUME IInv, Copy PROVE IInv'
<1>1. /\ mpc = "copy" /\ mpc' = "lock"
      /\ copy' = buf /\ live' = live \cup {buf}
      /\ UNCHANGED <<kernelVars, dumpVars, mutex, msgs, buf, cancelled, stopped>>
  BY DEF Copy, Main
<1>2. buf \in Packets \ live /\ copy = None
  BY <1>1 DEF IInv, Fresh, Hands, TypeOK, Processing
<1>3. Fresh'
  BY <1>1 DEF kernelVars, heldVars, IInv, Fresh
<1>4. NoneLost' /\ CopiesAccounted'
  <2>1. UNCHANGED <<msgs, hand>> /\ mpc \in Processing
    BY <1>1 DEF dumpVars, Processing
  <2>2. /\ live \subseteq Range(msgs) \cup {hand, None}
        /\ IsInjective(msgs) /\ Range(msgs) \subseteq live
        /\ hand # None => hand \in live \ Range(msgs)
        /\ None \notin live /\ buf # None
    BY <1>2, <2>1, NoneAssumption DEF IInv, CopiesAccounted, TypeOK
  <2>3. live' \subseteq Range(msgs) \cup {copy', hand}
    BY <1>1, <2>2
  <2>4. copy' \in live' \ (Range(msgs) \cup {hand})
    BY <1>1, <1>2, <2>2
  <2>5. Range(msgs) \subseteq live' /\ (hand # None => hand \in live' \ Range(msgs))
    BY <1>1, <2>2
  <2> QED
    BY <2>1, <2>2, <2>3, <2>4, <2>5 DEF NoneLost, CopiesAccounted
<1>5. TypeOK' /\ Hands'
  BY <1>1, <1>2, NoneAssumption
     DEF kernelVars, heldVars, dumpVars, IInv, TypeOK, Hands, Processing
<1> QED
  BY <1>3, <1>4, <1>5 DEF IInv

LEMMA QueueStep == ASSUME IInv, queue_msg PROVE IInv'
<1>1. /\ mpc = "add" /\ mpc' = "unlock"
      /\ msgs' = Append(msgs, copy) /\ copy' = None
      /\ UNCHANGED <<kernelVars, dumpVars, mutex, live, buf, cancelled, stopped>>
  BY DEF queue_msg, list_add_tail, Main
<1>2. /\ copy \in Packets /\ copy # None /\ copy \in live
      /\ copy \notin Range(msgs) /\ copy # hand
      /\ msgs \in Seq(Packets) /\ IsInjective(msgs)
  BY <1>1 DEF IInv, Hands, TypeOK, CopiesAccounted
<1>3. /\ msgs' \in Seq(Packets) /\ IsInjective(msgs')
      /\ Range(msgs') = Range(msgs) \cup {copy}
  BY <1>1, <1>2, Appended
<1>4. Fresh'
  BY <1>1, FreshKept DEF kernelVars, heldVars
<1>5. NoneLost' /\ CopiesAccounted'
  BY <1>1, <1>2, <1>3 DEF dumpVars, IInv, NoneLost, CopiesAccounted, Processing
<1>6. TypeOK' /\ Hands'
  BY <1>1, <1>3 DEF kernelVars, heldVars, dumpVars, IInv, TypeOK, Hands, Processing
<1> QED
  BY <1>4, <1>5, <1>6 DEF IInv

LEMMA DequeueStep == ASSUME IInv, dequeue_msg PROVE IInv'
<1>1. /\ dpc = "remove" /\ dpc' = "unlock"
      /\ UNCHANGED <<kernelVars, mainVars, mutex, live, wait, stopped>>
  BY DEF dequeue_msg, Dump
<1>2. Fresh'
  BY <1>1, FreshKept DEF kernelVars, heldVars, mainVars
<1>3. CASE msgs # <<>> /\ hand' = Head(msgs) /\ msgs' = Tail(msgs)
  <2>1. /\ hand = None /\ hand' \in Packets /\ hand' # None
        /\ msgs' \in Seq(Packets) /\ IsInjective(msgs')
        /\ Range(msgs) = {hand'} \cup Range(msgs')
        /\ hand' \notin Range(msgs')
    BY <1>1, <1>3, HeadTaken, NoneAssumption
       DEF IInv, Hands, TypeOK, CopiesAccounted
  <2>2. NoneLost' /\ CopiesAccounted'
    <3>1. UNCHANGED <<mpc, copy, live>>
      BY <1>1 DEF mainVars
    <3>2. /\ Range(msgs) \subseteq live
          /\ copy # None => copy \in live \ Range(msgs)
          /\ None \notin live
      BY NoneAssumption DEF IInv, CopiesAccounted, TypeOK
    <3>3. Range(msgs') \subseteq live /\ hand' \in live \ Range(msgs')
      BY <2>1, <3>2
    <3>4. copy # None => copy \in live \ (Range(msgs') \cup {hand'})
      BY <2>1, <3>2
    <3>5. mpc \in Processing \cup {"start"} => live \subseteq Range(msgs') \cup {copy, hand'}
      BY <2>1, <3>2 DEF IInv, NoneLost
    <3> QED
      BY <2>1, <3>1, <3>3, <3>4, <3>5 DEF NoneLost, CopiesAccounted
  <2>3. TypeOK' /\ Hands'
    BY <1>1, <2>1 DEF kernelVars, heldVars, mainVars, IInv, TypeOK, Hands
  <2> QED
    BY <1>2, <2>2, <2>3 DEF IInv
<1>4. CASE UNCHANGED <<hand, msgs>>
  <2>1. NoneLost' /\ CopiesAccounted'
    BY <1>1, <1>4, CopiesKept DEF mainVars
  <2>2. TypeOK' /\ Hands'
    BY <1>1, <1>4 DEF kernelVars, heldVars, mainVars, IInv, TypeOK, Hands
  <2> QED
    BY <1>2, <2>1, <2>2 DEF IInv
<1> QED
  BY <1>3, <1>4 DEF dequeue_msg, list_del

LEMMA FreeStep == ASSUME IInv, Free PROVE IInv'
<1>1. /\ dpc = "free" /\ dpc' = "take"
      /\ live' = live \ {hand} /\ hand' = None
      /\ UNCHANGED <<kernelVars, mainVars, mutex, msgs, wait, stopped>>
  BY DEF Free, Dump
<1>2. hand # None
  BY <1>1 DEF IInv, Hands
<1>3. Fresh'
  BY <1>1, FreshKept DEF kernelVars, heldVars, mainVars
<1>4. NoneLost' /\ CopiesAccounted'
  BY <1>1, <1>2 DEF mainVars, IInv, NoneLost, CopiesAccounted
<1>5. TypeOK' /\ Hands'
  BY <1>1 DEF kernelVars, heldVars, mainVars, IInv, TypeOK, Hands
<1> QED
  BY <1>3, <1>4, <1>5 DEF IInv

LEMMA DiscardStep == ASSUME IInv, Discard PROVE IInv'
<1>1. /\ mpc = "discard" /\ mpc' = "release"
      /\ msgs' = <<>> /\ live' = live \ Range(msgs)
      /\ UNCHANGED <<kernelVars, dumpVars, mutex, buf, copy, cancelled, stopped>>
  BY DEF Discard, Main
<1>2. msgs' \in Seq(Packets) /\ Range(msgs') = {} /\ IsInjective(msgs')
  BY <1>1, EmptySeq DEF Range, IsInjective
<1>3. Fresh'
  BY <1>1, FreshKept DEF kernelVars, heldVars
<1>4. NoneLost' /\ CopiesAccounted'
  BY <1>1, <1>2 DEF dumpVars, IInv, Hands, NoneLost, CopiesAccounted, Processing
<1>5. TypeOK' /\ Hands'
  BY <1>1, <1>2 DEF kernelVars, heldVars, dumpVars, IInv, TypeOK, Hands, Processing, Leaving
<1> QED
  BY <1>3, <1>4, <1>5 DEF IInv

-----------------------------------------------------------------------------
(* The other steps leave socket, list and copies alone.                    *)
MainControl ==
  \/ Setjmp \/ ReadFails \/ NoMemory \/ MainLocks \/ MainUnlocks
  \/ ResetHandlers \/ Cancel \/ Join \/ Relock \/ Exit

LEMMA MainControlStep == ASSUME IInv, MainControl PROVE IInv'
<1> USE DEF Main
<1>1. /\ UNCHANGED <<kernelVars, msgs, live, dumpVars, copy>>
      /\ buf' \in {buf, None}
      /\ mpc' \notin {"accept", "copy", "start"}
      /\ mpc' \in Processing => mpc \in Processing \cup {"start"}
  BY DEF MainControl, Setjmp, ReadFails, NoMemory, AfterNoMemory, MainLocks,
         MainUnlocks, ResetHandlers, Cancel, pthread_cancel, Join, Relock, Exit,
         listVars, mainVars, dumpVars, Processing
<1>2. Fresh'
  BY <1>1, FreshKept DEF kernelVars, heldVars
<1>3. NoneLost' /\ CopiesAccounted'
  BY <1>1, CopiesKept DEF dumpVars
<1>4. TypeOK'
  BY <1>1 DEF MainControl, Setjmp, ReadFails, NoMemory, AfterNoMemory, MainLocks,
         MainUnlocks, ResetHandlers, Cancel, pthread_cancel, Join, Relock, Exit,
         kernelVars, heldVars, listVars, mainVars, dumpVars, IInv, TypeOK, Processing, Leaving
<1>5. Hands'
  BY <1>1 DEF MainControl, Setjmp, ReadFails, NoMemory, AfterNoMemory, MainLocks,
         MainUnlocks, ResetHandlers, Cancel, pthread_cancel, Join, Relock, Exit,
         listVars, mainVars, dumpVars, IInv, Hands, Processing
<1> QED
  BY <1>2, <1>3, <1>4, <1>5 DEF IInv

DumpControl ==
  Die \/ BeginWait \/ EndWait \/ UnlockWait \/ DumpLocks \/ DumpUnlocks \/ dump_all

LEMMA DumpControlStep == ASSUME IInv, DumpControl PROVE IInv'
<1> USE DEF Dump
<1>1. UNCHANGED <<kernelVars, mainVars, msgs, live, hand>>
  BY DEF DumpControl, Die, BeginWait, EndWait, UnlockWait, DumpLocks, DumpUnlocks,
         dump_all, listVars, mainVars
<1>2. Fresh'
  BY <1>1, FreshKept DEF kernelVars, heldVars, mainVars
<1>3. NoneLost' /\ CopiesAccounted'
  BY <1>1, CopiesKept DEF mainVars
<1>4. TypeOK'
  BY <1>1 DEF DumpControl, Die, BeginWait, EndWait, UnlockWait, DumpLocks, DumpUnlocks,
         dump_all, kernelVars, heldVars, listVars, mainVars, IInv, TypeOK
<1>5. Hands'
  BY <1>1 DEF DumpControl, Die, BeginWait, EndWait, UnlockWait, DumpLocks, DumpUnlocks,
         dump_all, listVars, mainVars, IInv, Hands
<1> QED
  BY <1>2, <1>3, <1>4, <1>5 DEF IInv

LEMMA SignalStep == ASSUME IInv, sig_handler \/ SignalAstray \/ SignalKills PROVE IInv'
<1>1. CASE sig_handler
  <2>1. /\ mpc \in Processing \cup {"reset"} /\ mpc' = "reset" /\ copy' = None
        /\ UNCHANGED <<kernelVars, listVars, dumpVars, buf, cancelled, stopped>>
    BY <1>1 DEF sig_handler
  <2>2. Fresh'
    BY <2>1, FreshKept DEF kernelVars, heldVars, listVars
  <2>3. TypeOK' /\ Hands' /\ NoneLost' /\ CopiesAccounted'
    BY <2>1 DEF kernelVars, heldVars, listVars, dumpVars, IInv, TypeOK, Hands, NoneLost,
       CopiesAccounted, Processing, Leaving
  <2> QED
    BY <2>2, <2>3 DEF IInv
<1>2. CASE SignalAstray \/ SignalKills
  <2>1. /\ UNCHANGED <<kernelVars, listVars, mainVars, dumpVars>>
        /\ stopped' \in {"undefined", "killed"}
    BY <1>2 DEF SignalAstray, SignalKills
  <2> QED
    BY <2>1 DEF kernelVars, heldVars, listVars, mainVars, dumpVars, IInv, TypeOK, Hands, Fresh,
       NoneLost, CopiesAccounted
<1> QED
  BY <1>1, <1>2

LEMMA StepIInv == IInv /\ [Next]_vars => IInv'
<1> SUFFICES ASSUME IInv, [Next]_vars PROVE IInv'
  OBVIOUS
<1>1. CASE \E p \in Packets : Arrive(p)
  BY <1>1, ArriveStep
<1>2. CASE MainStep \/ ReadFails
  BY <1>2, AcceptStep, ReadStep, CopyStep, QueueStep, DiscardStep, MainControlStep
     DEF MainStep, MainControl
<1>3. CASE DumpStep
  BY <1>3, DequeueStep, FreeStep, DumpControlStep DEF DumpStep, DumpControl
<1>4. CASE sig_handler \/ SignalAstray \/ SignalKills
  BY <1>4, SignalStep
<1>5. CASE UNCHANGED vars
  BY <1>5 DEF vars, kernelVars, heldVars, listVars, mainVars, dumpVars, IInv, TypeOK, Hands,
     Fresh, NoneLost, CopiesAccounted
<1> QED
  BY <1>1, <1>2, <1>3, <1>4, <1>5 DEF Next, Terminated

(* No step, and no signal at any step, takes a variable out of its type.   *)
THEOREM TypeCorrect == Spec => []TypeOK
<1>1. IInv => TypeOK
  BY DEF IInv
<1> QED
  BY <1>1, InitIInv, StepIInv, PTL DEF Spec

(* The threads and the shutdown never use or free a copy that is gone, and *)
(* lose none before the shutdown (ipq.c:222-240, 296-302, 376-381, 398).   *)
THEOREM CopiesAccountedHolds == Spec => []CopiesAccounted
<1>1. IInv => CopiesAccounted
  BY DEF IInv
<1> QED
  BY <1>1, InitIInv, StepIInv, PTL DEF Spec
-----------------------------------------------------------------------------
(* What a step does to the list, the copy in print and the way out.        *)
LEMMA InitOrder == Init => Order!Init
BY DEF Init, Order!Init

LEMMA StepOrder == IInv /\ [Next]_vars => [Order!Next]_(Order!vars)
<1> SUFFICES ASSUME IInv, [Next]_vars PROVE [Order!Next]_(Order!vars)
  OBVIOUS
<1> USE DEF Order!vars
<1>1. CASE queue_msg
  <2>1. /\ mpc = "add" /\ mpc' = "unlock" /\ copy \in Packets
        /\ msgs' = Append(msgs, copy) /\ hand' = hand
    BY <1>1, NoneAssumption
       DEF queue_msg, list_add_tail, Main, dumpVars, IInv, TypeOK, Hands
  <2> QED
    BY <2>1 DEF Order!Put, Order!Next
<1>2. CASE dequeue_msg
  <2>1. dpc = "remove" /\ mpc' = mpc /\ mpc # "release" /\ hand = None
    BY <1>2 DEF dequeue_msg, Dump, mainVars, IInv, Hands
  <2> QED
    BY <1>2, <2>1 DEF dequeue_msg, list_del, Order!Begin, Order!Next
<1>3. CASE Free
  <2>1. /\ dpc = "free" /\ mpc' = mpc /\ mpc # "release" /\ hand # None
        /\ hand' = None /\ msgs' = msgs
    BY <1>3 DEF Free, Dump, mainVars, IInv, Hands
  <2> QED
    BY <2>1 DEF Order!End, Order!Next
<1>4. CASE Discard
  <2>1. mpc' = "release" /\ msgs' = <<>> /\ hand' = hand
    BY <1>4 DEF Discard, Main, dumpVars
  <2> QED
    BY <2>1 DEF Order!Close, Order!Next
<1>5. CASE \/ \E p \in Packets : Arrive(p)
           \/ ReadPacket \/ ReadError \/ AcceptFirst \/ AcceptAgain \/ Copy
           \/ sig_handler \/ SignalAstray \/ SignalKills \/ UNCHANGED vars
  BY <1>5 DEF Arrive, ReadPacket, ReadError, AfterError, AcceptFirst, AcceptAgain,
     Accept, Copy, Main, sig_handler, SignalAstray, SignalKills, vars, listVars,
     mainVars, dumpVars, Processing, Leaving
<1>6. CASE MainControl
  BY <1>6 DEF MainControl, Main, Setjmp, ReadFails, NoMemory, AfterNoMemory, MainLocks,
     MainUnlocks, ResetHandlers, Cancel, pthread_cancel, Join, Relock, Exit,
     listVars, mainVars, dumpVars
<1>7. CASE DumpControl
  BY <1>7 DEF DumpControl, Dump, Die, BeginWait, EndWait, UnlockWait, DumpLocks,
     DumpUnlocks, dump_all, listVars, mainVars
<1> QED
  BY <1>1, <1>2, <1>3, <1>4, <1>5, <1>6, <1>7
     DEF Next, Terminated, MainStep, DumpStep, MainControl, DumpControl

(* Each copy is printed at most once, in order, and none after the         *)
(* shutdown has freed the list: the dumper implements DumpOrder.           *)
THEOREM PrintsInOrderHolds == Spec => PrintsInOrder
<1>1. Init => Order!Init
  BY InitOrder
<1>2. IInv /\ [Next]_vars => [Order!Next]_(Order!vars)
  BY StepOrder
<1> QED
  BY <1>1, <1>2, InitIInv, StepIInv, PTL DEF Spec, PrintsInOrder, Order!Spec
=============================================================================
