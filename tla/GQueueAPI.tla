------------------------------ MODULE GQueueAPI ------------------------------
(***************************************************************************)
(* lib/gqueue.c called by one sequential client, with every order of calls *)
(* the header allows, and the claim that the ring is a bounded FIFO.       *)
(***************************************************************************)
EXTENDS GQueue

CONSTANT Elements      \* the pointers the client stores

ASSUME ElementsAssumption == NULL \notin Elements /\ Garbage \notin Elements

VARIABLES
  ret,           \* return code of the last call
  target,        \* the client's "gpointer *" argument
  zeroed         \* elements whose first word queue_top has overwritten

vars == <<buffer, front, rear, currentSize, ret, target, zeroed>>

Init ==
  /\ queue_init
  /\ ret = 1
  /\ target = Garbage
  /\ zeroed = {}

Write(x) ==
  /\ queue_write(x)
  /\ ret' = IF isFull THEN ERROR_BUFFER_FULL ELSE 1
  /\ UNCHANGED <<target, zeroed>>

(* On an empty queue the code compares *target with NULL and drops the     *)
(* result: the client's pointer keeps what it held.                        *)
Read ==
  /\ queue_read
  /\ ret' = IF isEmpty THEN 0 ELSE 1
  /\ target' = IF isEmpty THEN target ELSE buffer[front]
  /\ UNCHANGED zeroed

(* queue_top aims its own copy of the argument at the oldest element and   *)
(* stores NULL through it: the client gets nothing, the element loses its  *)
(* first word.                                                             *)
queue_top ==
  /\ ret' = IF isEmpty THEN 0 ELSE 1
  /\ zeroed' = IF isEmpty THEN zeroed ELSE zeroed \cup {buffer[front]}
  /\ UNCHANGED <<buffer, front, rear, currentSize, target>>

Next == (\E x \in Elements : Write(x)) \/ Read \/ queue_top

Spec == Init /\ [][Next]_vars

-----------------------------------------------------------------------------
Fifo == INSTANCE BoundedFifo
          WITH Capacity <- QueueSize - 1, Unset <- Garbage, contents <- Contents

(* Every call of the ring does what the same call of a bounded FIFO with   *)
(* one slot less than the buffer does: nothing is lost, repeated or        *)
(* reordered by the wrap-around of front and rear (gqueue.c:28-57).        *)
RingIsFifo == Fifo!Spec

(* Everything waiting in the ring, handed to the client, or reached by a   *)
(* peek is something the client stored: a slot that malloc left unwritten  *)
(* or that memset cleared is never exposed (gqueue.c:12-18, 54, 61).       *)
OnlyStoredElements ==
  /\ \A i \in 1 .. currentSize : Contents[i] \in Elements
  /\ target \in Elements \cup {Garbage}
  /\ zeroed \subseteq Elements
=============================================================================
