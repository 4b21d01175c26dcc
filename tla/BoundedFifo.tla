---------------------------- MODULE BoundedFifo ----------------------------
(***************************************************************************)
(* What a bounded queue of pointers promises to one sequential client.     *)
(* The client sees three things: the elements waiting, the code the last   *)
(* call returned, and the pointer it passed in to receive an element.      *)
(* lib/gqueue.c is shown to implement this specification in GQueueAPI.     *)
(***************************************************************************)
EXTENDS Naturals, Integers, Sequences

CONSTANTS
  Elements,      \* the pointers a client stores
  Capacity,      \* how many of them fit
  Unset          \* what the client's pointer holds before the first read

VARIABLES
  contents,      \* the waiting elements, oldest first
  ret,           \* return code of the last call
  target,        \* the client's "gpointer *" argument
  zeroed         \* elements whose first word a peek has overwritten

vars == <<contents, ret, target, zeroed>>

Full  == -10     \* ERROR_BUFFER_FULL
Empty == 0
Done  == 1

Init ==
  /\ contents = <<>>
  /\ ret = Done
  /\ target = Unset
  /\ zeroed = {}

Write(x) ==
  /\ IF Len(contents) < Capacity
       THEN contents' = Append(contents, x) /\ ret' = Done
       ELSE contents' = contents /\ ret' = Full
  /\ UNCHANGED <<target, zeroed>>

(* A read of an empty queue leaves the client's pointer as it was.         *)
Read ==
  /\ IF contents = <<>>
       THEN ret' = Empty /\ UNCHANGED <<contents, target>>
       ELSE /\ ret' = Done
            /\ target' = Head(contents)
            /\ contents' = Tail(contents)
  /\ UNCHANGED zeroed

(* A peek hands nothing over; it overwrites the first word of the oldest   *)
(* element.                                                                *)
Top ==
  /\ IF contents = <<>>
       THEN ret' = Empty /\ UNCHANGED zeroed
       ELSE ret' = Done /\ zeroed' = zeroed \cup {Head(contents)}
  /\ UNCHANGED <<contents, target>>

Next == (\E x \in Elements : Write(x)) \/ Read \/ Top

Spec == Init /\ [][Next]_vars
=============================================================================
