----------------------------- MODULE DumpOrder -----------------------------
(***************************************************************************)
(* What test/ipq.c promises about the packets it copies: the copies are    *)
(* printed one at a time in the order of the packets, each at most once,   *)
(* and after the shutdown has thrown away the rest none is printed.        *)
(***************************************************************************)
EXTENDS Sequences

CONSTANTS
  Copies,
  Nothing        \* no copy is being printed

VARIABLES
  waiting,       \* copies nobody has printed yet, oldest first
  printing,      \* the copy being printed
  closed         \* the shutdown has thrown the waiting copies away

vars == <<waiting, printing, closed>>

Init == waiting = <<>> /\ printing = Nothing /\ closed = FALSE

Put(c) ==
  /\ ~closed
  /\ waiting' = Append(waiting, c)
  /\ UNCHANGED <<printing, closed>>

Begin ==
  /\ ~closed
  /\ printing = Nothing /\ waiting # <<>>
  /\ printing' = Head(waiting)
  /\ waiting' = Tail(waiting)
  /\ UNCHANGED closed

End ==
  /\ ~closed
  /\ printing # Nothing
  /\ printing' = Nothing
  /\ UNCHANGED <<waiting, closed>>

Close ==
  /\ closed' = TRUE
  /\ waiting' = <<>>
  /\ UNCHANGED printing

Next == (\E c \in Copies : Put(c)) \/ Begin \/ End \/ Close

Spec == Init /\ [][Next]_vars
=============================================================================
