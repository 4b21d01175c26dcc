------------------------------- MODULE Dumper -------------------------------
(***************************************************************************)
(* test/ipq.c: the packet dumper.  Its main thread reads packets, accepts  *)
(* each at once and appends a copy to a list; a second thread looks at the *)
(* list when its timed wait is over and prints.  The process ends by a     *)
(* signal, whose handler jumps from wherever main is to the shutdown, by a *)
(* failing read or by an error message.  The code that would signal the    *)
(* condition variable (RESCHED_THREAD) is not compiled.                    *)
(***************************************************************************)
EXTENDS IpQueue, Functions

CONSTANT None    \* no copy; no thread

ASSUME NoneAssumption == None \notin Packets \cup {"main", "dump"}

VARIABLES
  mpc,           \* where the main thread is
  dpc,           \* where the dump thread is
  mutex,         \* holder of cxt->mutex
  wait,          \* holder of cxt->wait
  msgs,          \* the list cxt->msgs
  buf,           \* the packet in cxt->buf
  copy,          \* new_msg of the main thread
  hand,          \* msg of the dump thread
  live,          \* copies allocated and not freed
  cancelled,     \* pthread_cancel has been called
  stopped        \* "no", or how the process ended

listVars == <<mutex, msgs, live>>
mainVars == <<mpc, buf, copy, cancelled>>
dumpVars == <<dpc, wait, hand>>
vars == <<kernelVars, listVars, mainVars, dumpVars, stopped>>

Processing == {"read", "accept", "copy", "lock", "add", "unlock", "again"}
Leaving    == {"reset", "cancel", "join", "relock", "discard", "release"}

Main(from, to) == stopped = "no" /\ mpc = from /\ mpc' = to
Dump(from, to) == stopped = "no" /\ dpc = from /\ dpc' = to

(* init_context, up to where the signal handlers are installed.            *)
Init ==
  /\ ipq_create_handle
  /\ mpc = "start" /\ dpc = "loop"
  /\ mutex = None /\ wait = None
  /\ msgs = <<>> /\ live = {}
  /\ buf = None /\ copy = None /\ hand = None
  /\ cancelled = FALSE
  /\ stopped = "no"

(* A name is taken for a new packet when no copy and no message is left of *)
(* the old one.                                                            *)
Arrive(p) ==
  /\ stopped = "no"
  /\ p \notin live \cup {buf} /\ ~\E i \in DOMAIN inbox : inbox[i].packet = p
  /\ Enqueue(p)
  /\ UNCHANGED <<listVars, mainVars, dumpVars, stopped>>

-----------------------------------------------------------------------------
(* The main thread.                                                        *)
Setjmp ==
  /\ Main("start", "read")
  /\ UNCHANGED <<kernelVars, listVars, dumpVars, buf, copy, cancelled, stopped>>

ReadPacket ==
  /\ Main("read", "accept")
  /\ inbox # <<>> /\ Head(inbox).type = "packet"
  /\ buf' = Head(inbox).packet
  /\ inbox' = Tail(inbox)
  /\ UNCHANGED <<heldVars, listVars, dumpVars, copy, cancelled, stopped>>

(* Mutant: the loop goes on after an error message.                        *)
AfterErrorOn == "read"

AfterError == "reset"

(* proc_ipq returns when a message is an error, and when the read fails.   *)
ReadError ==
  /\ Main("read", AfterError)
  /\ inbox # <<>> /\ Head(inbox).type = "error"
  /\ inbox' = Tail(inbox)
  /\ UNCHANGED <<heldVars, listVars, dumpVars, buf, copy, cancelled, stopped>>

ReadFails ==
  /\ Main("read", "reset")
  /\ UNCHANGED <<kernelVars, listVars, dumpVars, buf, copy, cancelled, stopped>>

(* Both verdicts on a packet may fail to be sent; neither result matters.  *)
(* The second finds a newer packet, if it has the number by then.          *)
Accept(from, to) ==
  /\ Main(from, to)
  /\ set_verdict(buf) \/ UNCHANGED kernelVars
  /\ UNCHANGED <<listVars, dumpVars, buf, copy, cancelled, stopped>>

AcceptFirst == Accept("accept", "copy")
AcceptAgain == Accept("again", "read")

Copy ==
  /\ Main("copy", "lock")
  /\ copy' = buf
  /\ live' = live \cup {buf}
  /\ UNCHANGED <<kernelVars, dumpVars, mutex, msgs, buf, cancelled, stopped>>

(* Mutant: the result of malloc not tested.                                *)
AfterNoMemoryUntested == "lock"

AfterNoMemory == "again"

NoMemory ==
  /\ Main("copy", AfterNoMemory)
  /\ UNCHANGED <<kernelVars, listVars, dumpVars, buf, copy, cancelled, stopped>>

MainLocks ==
  /\ Main("lock", "add")
  /\ mutex = None
  /\ mutex' = "main"
  /\ UNCHANGED <<kernelVars, dumpVars, msgs, live, buf, copy, cancelled, stopped>>

(* Mutant: added in front.                                                 *)
list_add_front(c) == <<c>> \o msgs

list_add_tail(c) == Append(msgs, c)

queue_msg ==
  /\ Main("add", "unlock")
  /\ msgs' = list_add_tail(copy)
  /\ copy' = None
  /\ UNCHANGED <<kernelVars, dumpVars, mutex, live, buf, cancelled, stopped>>

MainUnlocks ==
  /\ Main("unlock", "again")
  /\ mutex' = None
  /\ UNCHANGED <<kernelVars, dumpVars, msgs, live, buf, copy, cancelled, stopped>>

(* deinit_context: the default handlers, cancel, join, and then the list.  *)
ResetHandlers ==
  /\ Main("reset", "cancel")
  /\ UNCHANGED <<kernelVars, listVars, dumpVars, buf, copy, cancelled, stopped>>

(* Mutant: the dump thread not told to end.                                *)
cancelForgotten == UNCHANGED cancelled

pthread_cancel == cancelled' = TRUE

Cancel ==
  /\ Main("cancel", "join")
  /\ pthread_cancel
  /\ UNCHANGED <<kernelVars, listVars, dumpVars, buf, copy, stopped>>

Join ==
  /\ Main("join", "relock")
  /\ dpc = "dead"
  /\ buf' = None
  /\ UNCHANGED <<kernelVars, listVars, dumpVars, copy, cancelled, stopped>>

Relock ==
  /\ Main("relock", "discard")
  /\ mutex = None
  /\ mutex' = "main"
  /\ UNCHANGED <<kernelVars, dumpVars, msgs, live, buf, copy, cancelled, stopped>>

Discard ==
  /\ Main("discard", "release")
  /\ msgs' = <<>>
  /\ live' = live \ Range(msgs)
  /\ UNCHANGED <<kernelVars, dumpVars, mutex, buf, copy, cancelled, stopped>>

Exit ==
  /\ stopped = "no"
  /\ mpc = "release"
  /\ mutex' = None
  /\ stopped' = "exit"
  /\ UNCHANGED <<kernelVars, mainVars, dumpVars, msgs, live>>

-----------------------------------------------------------------------------
(* The dump thread.  It can be cancelled where it tests for it, in the     *)
(* wait and in the output.                                                 *)
Cancellable == dpc \in {"loop", "wait", "test", "print"}

(* Mutant: a wait without a time limit.                                    *)
WaitOverNever == FALSE

(* No one signals the condition: a wait ends when its second is over.      *)
WaitOver == dpc = "wait"

(* A wait that is cancelled takes its mutex back first.                    *)
Die ==
  /\ stopped = "no"
  /\ cancelled /\ Cancellable
  /\ dpc' = "dead"
  /\ wait' = IF dpc = "wait" THEN "dump" ELSE wait
  /\ UNCHANGED <<kernelVars, listVars, mainVars, hand, stopped>>

(* Lock wait, which the timed wait gives back at once.                     *)
BeginWait ==
  /\ Dump("loop", "wait")
  /\ ~cancelled
  /\ wait = None
  /\ UNCHANGED <<kernelVars, listVars, mainVars, wait, hand, stopped>>

EndWait ==
  /\ WaitOver
  /\ Dump("wait", "woken")
  /\ wait = None
  /\ wait' = "dump"
  /\ UNCHANGED <<kernelVars, listVars, mainVars, hand, stopped>>

(* Unlock wait and go on, or give up if the wait failed.                   *)
UnlockWait ==
  /\ Dump("woken", "take") \/ Dump("woken", "dead")
  /\ wait' = None
  /\ UNCHANGED <<kernelVars, listVars, mainVars, hand, stopped>>

DumpLocks ==
  /\ Dump("take", "remove")
  /\ mutex = None
  /\ mutex' = "dump"
  /\ UNCHANGED <<kernelVars, mainVars, msgs, live, wait, hand, stopped>>

(* Mutant: the copy stays linked.                                          *)
list_del_forgotten == msgs

list_del == Tail(msgs)

dequeue_msg ==
  /\ Dump("remove", "unlock")
  /\ \/ msgs # <<>> /\ hand' = Head(msgs) /\ msgs' = list_del
     \/ msgs = <<>> /\ UNCHANGED <<hand, msgs>>
  /\ UNCHANGED <<kernelVars, mainVars, mutex, live, wait, stopped>>

DumpUnlocks ==
  /\ Dump("unlock", IF hand = None THEN "loop" ELSE "test")
  /\ mutex' = None
  /\ UNCHANGED <<kernelVars, mainVars, msgs, live, wait, hand, stopped>>

dump_all ==
  /\ \/ Dump("test", "print") /\ ~cancelled
     \/ Dump("print", "free")
  /\ UNCHANGED <<kernelVars, listVars, mainVars, wait, hand, stopped>>

Free ==
  /\ Dump("free", "take")
  /\ live' = live \ {hand}
  /\ hand' = None
  /\ UNCHANGED <<kernelVars, mainVars, mutex, msgs, wait, stopped>>

-----------------------------------------------------------------------------
(* Signals.  In main the handler jumps to setjmp's place, with whatever    *)
(* main was doing undone as far as its locals go and no further.  Before   *)
(* setjmp, and in the dump thread, the jump is undefined; after the reset  *)
(* a signal kills.  A jump out of malloc or printf may leave a lock of the *)
(* C library taken, and what deinit_context then calls waits for it: that  *)
(* is left out.                                                            *)
sig_handler ==
  /\ stopped = "no"
  /\ mpc \in Processing \cup {"reset"}
  /\ mpc' = "reset"
  /\ copy' = None
  /\ UNCHANGED <<kernelVars, listVars, dumpVars, buf, cancelled, stopped>>

SignalAstray ==
  /\ stopped = "no"
  /\ \/ mpc = "start"
     \/ mpc \in Processing \cup {"reset"} /\ dpc # "dead"
  /\ stopped' = "undefined"
  /\ UNCHANGED <<kernelVars, listVars, mainVars, dumpVars>>

SignalKills ==
  /\ stopped = "no"
  /\ mpc \in Leaving \ {"reset"}
  /\ stopped' = "killed"
  /\ UNCHANGED <<kernelVars, listVars, mainVars, dumpVars>>

Terminated == stopped # "no" /\ UNCHANGED vars

MainStep ==
  \/ Setjmp \/ ReadPacket \/ ReadError \/ AcceptFirst \/ AcceptAgain
  \/ Copy \/ NoMemory \/ MainLocks \/ queue_msg \/ MainUnlocks
  \/ ResetHandlers \/ Cancel \/ Join \/ Relock \/ Discard \/ Exit

DumpStep ==
  \/ Die \/ BeginWait \/ EndWait \/ UnlockWait \/ DumpLocks \/ dequeue_msg
  \/ DumpUnlocks \/ dump_all \/ Free

Next ==
  \/ \E p \in Packets : Arrive(p)
  \/ MainStep \/ ReadFails
  \/ DumpStep
  \/ sig_handler \/ SignalAstray \/ SignalKills
  \/ Terminated

Spec == Init /\ [][Next]_vars

(* The scheduler lets both threads run, and main gets the mutex, which the *)
(* dump thread leaves alone for a second in every round of its loop; no    *)
(* signal has to come, no read has to fail.                                *)
FairSpec == Spec /\ WF_vars(MainStep) /\ WF_vars(DumpStep) /\ SF_vars(MainLocks)

-----------------------------------------------------------------------------
TypeOK ==
  /\ inbox \in Seq(Messages)
  /\ held \subseteq Packets /\ packet_id \in [Packets -> Ids]
  /\ mpc \in Processing \cup Leaving \cup {"start"}
  /\ dpc \in {"loop", "wait", "woken", "take", "remove", "unlock", "test",
             "print", "free", "dead"}
  /\ mutex \in {None, "main", "dump"} /\ wait \in {None, "dump"}
  /\ msgs \in Seq(Packets) /\ live \subseteq Packets
  /\ {buf, copy, hand} \subseteq Packets \cup {None}
  /\ cancelled \in BOOLEAN
  /\ stopped \in {"no", "exit", "undefined", "killed"}

(* Whatever main is torn out of, the threads and the shutdown never use or *)
(* free a copy that is gone, and no copy has two owners; until the         *)
(* shutdown none is lost either (ipq.c:222-240, 296-302, 376-381, 398).    *)
CopiesAccounted ==
  /\ IsInjective(msgs) /\ Range(msgs) \subseteq live
  /\ hand # None => hand \in live \ Range(msgs)
  /\ copy # None => copy \in live \ (Range(msgs) \cup {hand})
  /\ mpc \in Processing => live \subseteq Range(msgs) \cup {copy, hand}

Order == INSTANCE DumpOrder
  WITH Copies <- Packets, Nothing <- None, waiting <- msgs, printing <- hand,
       closed <- mpc = "release"

(* Copies are printed in the order of the packets, at most once each, and  *)
(* none after the shutdown has freed the list (ipq.c:222-240, 296-302,     *)
(* 376-381).                                                               *)
PrintsInOrder == Order!Spec

(* A copy in the list is printed, although nobody signals the condition,   *)
(* unless the process is on its way out or the dump thread has given up    *)
(* (ipq.c:284-302, 406-409).                                               *)
QueuedGetsPrinted ==
  \A p \in Packets :
    p \in Range(msgs) ~> hand = p \/ dpc = "dead" \/ mpc \in Leaving \/ stopped # "no"

(* One error message from the kernel, such as the answer to the second     *)
(* verdict on a packet, brings the dumper to its shutdown, whatever waits  *)
(* in the socket before it (ipq.c:433-449).                                *)
ErrorEndsIt ==
  (\E i \in DOMAIN inbox : inbox[i].type = "error")
    ~> mpc \in Leaving \/ stopped # "no"

(* The shutdown ends, wherever the dump thread is when it is cancelled, if *)
(* main was not torn out of queue_msg between lock and unlock; then it     *)
(* waits for itself (ipq.c:222-228, 364-385).  Of the locks inside the C   *)
(* library it says nothing: see sig_handler.                               *)
ShutdownEnds == (mpc = "reset" /\ mutex # "main") ~> stopped # "no"
=============================================================================
