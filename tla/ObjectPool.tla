----------------------------- MODULE ObjectPool -----------------------------
(***************************************************************************)
(* What lib/mempool.c promises: an object is handed to one client at a     *)
(* time, and the object that has been idle longest is handed out first.    *)
(***************************************************************************)
EXTENDS Sequences

CONSTANTS
  Order,         \* the objects in the order a new pool hands them out
  NULL

VARIABLES
  idle,          \* objects nobody has, longest idle first
  owned,         \* objects clients have
  ret            \* what the last request returned

vars == <<idle, owned, ret>>

Init == idle = <<>> /\ owned = {} /\ ret = NULL

Open ==
  /\ idle = <<>> /\ owned = {}
  /\ idle' = Order /\ ret' = NULL
  /\ UNCHANGED owned

Alloc ==
  /\ idle # <<>>
  /\ idle' = Tail(idle)
  /\ owned' = owned \cup {Head(idle)}
  /\ ret' = Head(idle)

Refuse == ret' = NULL /\ UNCHANGED <<idle, owned>>

Free(o) ==
  /\ o \in owned
  /\ owned' = owned \ {o}
  /\ idle' = Append(idle, o)
  /\ ret' = NULL

Close == idle' = <<>> /\ owned' = {} /\ ret' = NULL

Next == Open \/ Alloc \/ Refuse \/ (\E o \in owned : Free(o)) \/ Close

Spec == Init /\ [][Next]_vars
=============================================================================
