------------------------------ MODULE IpQueue ------------------------------
(***************************************************************************)
(* The kernel's ip_queue as the programs see it through libipq: a netlink  *)
(* socket with messages in order, and the packets the kernel keeps until a *)
(* verdict.  External code, modelled from its use in libero.c, test/ipq.c  *)
(* and the manual page test/libipq.htm.                                    *)
(*                                                                         *)
(* A member of Packets names one packet on its one way through the queue.  *)
(* The programs know it by its packet_id alone, which is unique among the  *)
(* packets the kernel keeps and free for another as soon as one is let go. *)
(***************************************************************************)
EXTENDS Integers, Sequences

CONSTANTS
  Packets,       \* what passes through the queue
  Ids,           \* what the kernel has for a packet_id
  FreeIds(_)     \* those its allocator may choose when some are in use

ASSUME IdsAssumption ==
  /\ Ids # {}
  /\ \A used \in SUBSET Ids : FreeIds(used) \subseteq Ids \ used

VARIABLES
  inbox,         \* messages the kernel has sent and nobody has read
  held,          \* packets the kernel keeps until a verdict
  packet_id      \* the number a packet got when it was queued

heldVars   == <<held, packet_id>>
kernelVars == <<inbox, heldVars>>

NF_DROP   == 0
NF_ACCEPT == 1
NF_STOLEN == 2
NF_QUEUE  == 3

Messages == [type : {"packet", "error"}, packet : Packets]

Packet(p) == [type |-> "packet", packet |-> p]
Error(p)  == [type |-> "error",  packet |-> p]

(* Before the first packet no packet_id means anything.                    *)
ipq_create_handle ==
  /\ inbox = <<>>
  /\ held = {}
  /\ packet_id = [p \in Packets |-> CHOOSE i \in Ids : TRUE]

(* A packet matches the QUEUE rule.                                        *)
Enqueue(p) ==
  /\ p \notin held
  /\ \E i \in FreeIds({packet_id[q] : q \in held}) :
       packet_id' = [packet_id EXCEPT ![p] = i]
  /\ held' = held \cup {p}
  /\ inbox' = Append(inbox, Packet(p))

(* The packets the kernel finds by the packet_id of p: p itself, the one   *)
(* that has the number now, or none.                                       *)
Found(p) == {q \in held : packet_id[q] = packet_id[p]}

(* A verdict with the packet_id of p has been sent.  Whatever it says, the *)
(* packet it finds is out of the queue; NF_QUEUE sends it through the      *)
(* queue again under a number of its own, which is an Enqueue like any.    *)
(* If there is none, the kernel answers with an error message.             *)
set_verdict(p) ==
  /\ held' = held \ Found(p)
  /\ inbox' = IF Found(p) = {} THEN Append(inbox, Error(p)) ELSE inbox
  /\ UNCHANGED packet_id
=============================================================================
