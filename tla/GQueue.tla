------------------------------- MODULE GQueue -------------------------------
(***************************************************************************)
(* lib/gqueue.c: the ring buffer of pointers that libero's two threads     *)
(* share as ReadyQueue.  This module holds the structure and its           *)
(* operations; GQueueAPI drives them by one client, Libero by threads.     *)
(*                                                                         *)
(* The structure keeps its fill level twice: implicitly in front and rear, *)
(* which isEmpty and isFull compare, and explicitly in currentSize, which  *)
(* the callers test.  One slot always stays unused, so that front = rear   *)
(* means empty.                                                            *)
(***************************************************************************)
EXTENDS Integers, Sequences

CONSTANTS
  QueueSize,     \* pQueue->queueSize, 1000 for ReadyQueue
  PtrSize,       \* sizeof(gpointer)
  NULL,          \* the null pointer
  Garbage        \* a pointer-sized piece of memory nobody has written

ASSUME QueueSizeAssumption == QueueSize \in Nat \ {0}
ASSUME PtrSizeAssumption == PtrSize \in Nat \ {0}

VARIABLES
  buffer,        \* pQueue->buffer
  front,         \* index of the oldest element
  rear,          \* index the next element goes to
  currentSize    \* number of elements, as the callers see it

queueVars == <<buffer, front, rear, currentSize>>

Slots == 0 .. QueueSize - 1

ERROR_BUFFER_FULL == -10

(* malloc returns memory with any contents; the memset that follows clears *)
(* queueSize bytes of it, which is one slot in PtrSize.                    *)
queue_init ==
  /\ buffer \in [Slots -> {NULL, Garbage}]
  /\ \A i \in Slots : (i + 1) * PtrSize <= QueueSize => buffer[i] = NULL
  /\ front = 0
  /\ rear = 0
  /\ currentSize = 0

(* Mutant: the fill level compared with the wrong bound.                   *)
isEmptyOffByOne == currentSize < 0

isEmpty == front = rear

(* Mutant: "full" only when no slot at all is left.                        *)
isFullWithoutSpare == currentSize = QueueSize

isFull == front = (rear + 1) % QueueSize

(* Mutant: the wrap-around of front forgotten.                             *)
frontGoWithoutWrap ==
  /\ front' = front + 1
  /\ currentSize' = currentSize - 1

(* Mutant: currentSize counted, front left where it is.                    *)
frontGoWithoutStep ==
  /\ UNCHANGED front
  /\ currentSize' = currentSize - 1

front_go ==
  /\ front' = (front + 1) % QueueSize
  /\ currentSize' = currentSize - 1

rear_go ==
  /\ rear' = (rear + 1) % QueueSize
  /\ currentSize' = currentSize + 1

(* A write to a full queue only returns ERROR_BUFFER_FULL.                 *)
queue_write(x) ==
  \/ /\ isFull
     /\ UNCHANGED queueVars
  \/ /\ ~isFull
     /\ buffer' = [buffer EXCEPT ![rear] = x]
     /\ rear_go
     /\ UNCHANGED front

(* What "*target = buffer[front]" delivers; the slot keeps its value.      *)
queue_read ==
  \/ /\ isEmpty
     /\ UNCHANGED queueVars
  \/ /\ ~isEmpty
     /\ front_go
     /\ UNCHANGED <<buffer, rear>>

-----------------------------------------------------------------------------
(* The elements waiting in the queue, oldest first.                        *)
Contents == [i \in 1 .. currentSize |-> buffer[(front + i - 1) % QueueSize]]

(* front, rear and currentSize describe one and the same stretch of the    *)
(* ring, and it never covers every slot.                                   *)
RingOK ==
  /\ front \in Slots
  /\ rear \in Slots
  /\ currentSize \in 0 .. QueueSize - 1
  /\ rear = (front + currentSize) % QueueSize
=============================================================================
