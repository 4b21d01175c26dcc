--------------------------- MODULE PacketHandoff ---------------------------
(***************************************************************************)
(* What the queue between the two kinds of threads promises (the comment   *)
(* at libero.c:132-136, the limit at 110): a message the producer has      *)
(* taken in is either dropped or handed to exactly one consumer, messages  *)
(* are handed over in the order they came in, and no more than Limit of    *)
(* them wait.  Libero is shown to implement it.                            *)
(***************************************************************************)
EXTENDS Naturals, Sequences

CONSTANTS
  Messages,
  Consumers,
  Nothing,       \* a hand that holds no message
  Limit

VARIABLES
  incoming,      \* the message in the producer's hand
  waiting,       \* the messages handed to nobody yet, oldest first
  working,       \* the message in each consumer's hand
  dropped        \* the messages the producer gave up

vars == <<incoming, waiting, working, dropped>>

Init ==
  /\ incoming = Nothing
  /\ waiting = <<>>
  /\ working = [c \in Consumers |-> Nothing]
  /\ dropped = {}

TakeIn(m) ==
  /\ incoming = Nothing
  /\ incoming' = m
  /\ UNCHANGED <<waiting, working, dropped>>

Put ==
  /\ incoming # Nothing
  /\ Len(waiting) < Limit
  /\ waiting' = Append(waiting, incoming)
  /\ incoming' = Nothing
  /\ UNCHANGED <<working, dropped>>

(* Giving up is allowed only when the queue has no room.                   *)
Drop ==
  /\ incoming # Nothing
  /\ Len(waiting) >= Limit
  /\ dropped' = dropped \cup {incoming}
  /\ incoming' = Nothing
  /\ UNCHANGED <<waiting, working>>

HandOver(c) ==
  /\ working[c] = Nothing
  /\ waiting # <<>>
  /\ working' = [working EXCEPT ![c] = Head(waiting)]
  /\ waiting' = Tail(waiting)
  /\ UNCHANGED <<incoming, dropped>>

Finish(c) ==
  /\ working' = [working EXCEPT ![c] = Nothing]
  /\ UNCHANGED <<incoming, waiting, dropped>>

Next ==
  \/ \E m \in Messages : TakeIn(m)
  \/ Put
  \/ Drop
  \/ \E c \in Consumers : HandOver(c) \/ Finish(c)

Spec == Init /\ [][Next]_vars
=============================================================================
