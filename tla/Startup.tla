------------------------------ MODULE Startup ------------------------------
(***************************************************************************)
(* The start of the daemon: init and the first part of main in libero.c,   *)
(* with the module loader of module.c.  The modules named in               *)
(* conf/modules.conf go into the list of lib/glist.c (GList), which the    *)
(* worker then walks for every packet.  A program that uses the list by    *)
(* itself, like lib/testcase.c, is the phase "client".                     *)
(***************************************************************************)
EXTENDS GList

CONSTANTS
  Words,         \* what may stand in the file; a module's name is its function
  Files,         \* the contents the file may have, sequences of Words
  NoFile         \* there is no such file

ASSUME FilesAssumption == Data \subseteq Words /\ Files \subseteq Seq(Words)

VARIABLES
  conf,          \* what conf/modules.conf holds
  words,         \* how many words of it have been read
  ringAllocated, \* queue_init has found memory
  phase          \* where main is, or how the process ended

startVars == <<conf, words, ringAllocated, phase>>

Goto(from, to) == phase = from /\ phase' = to

Init ==
  /\ glist_init
  /\ words = 0
  /\ ringAllocated = FALSE
  /\ \/ phase = "queue_init" /\ conf \in Files \cup {NoFile}
     \/ phase = "client" /\ conf = NoFile

(* init does not look at what queue_init returns.                          *)
InitQueue ==
  /\ Goto("queue_init", "open")
  /\ ringAllocated' \in BOOLEAN
  /\ UNCHANGED <<vars, conf, words>>

OpenFile ==
  /\ Goto("open", IF conf = NoFile THEN "exit" ELSE "load")
  /\ UNCHANGED <<vars, conf, words, ringAllocated>>

(* Mutant: the first word of the two taken for the name.                   *)
modeWord == conf[words + 1]

(* fscanf reads two words, however they stand in lines; the first, the     *)
(* mode, is not looked at.                                                 *)
nameWord == conf[words + 2]

PairLeft == words + 2 <= Len(conf)

LoadModule ==
  /\ Goto("load", "load")
  /\ PairLeft
  /\ nameWord \in Data
  /\ glist_append(nameWord)
  /\ words' = words + 2
  /\ UNCHANGED <<conf, ringAllocated>>

(* dlopen or one of the two dlsym reports an error.                        *)
insmod_fails ==
  /\ Goto("load", "exit")
  /\ PairLeft
  /\ nameWord \notin Data
  /\ UNCHANGED <<vars, conf, words, ringAllocated>>

AllLoaded ==
  /\ Goto("load", "create_handle")
  /\ ~PairLeft
  /\ UNCHANGED <<vars, conf, words, ringAllocated>>

(* ipq_create_handle, then ipq_set_mode, or die.                           *)
OpenHandle ==
  /\ \/ Goto("create_handle", "set_mode") \/ Goto("set_mode", "run")
     \/ Goto("create_handle", "exit") \/ Goto("set_mode", "exit")
  /\ UNCHANGED <<vars, conf, words, ringAllocated>>

(* The first message is written to a ring without memory: isFull divides   *)
(* by queueSize, which is set, and the buffer is the null pointer.         *)
FirstMessage ==
  /\ Goto("run", "crash")
  /\ ~ringAllocated
  /\ UNCHANGED <<vars, conf, words, ringAllocated>>

(* The worker walks the list.                                              *)
Walking ==
  /\ phase = "run"
  /\ ringAllocated
  /\ glist_rewind \/ glist_next
  /\ UNCHANGED startVars

Client ==
  /\ phase = "client"
  /\ UsedNext
  /\ UNCHANGED startVars

Ended == phase \in {"exit", "crash"} /\ UNCHANGED <<vars, startVars>>

Next ==
  \/ InitQueue \/ OpenFile \/ LoadModule \/ insmod_fails \/ AllLoaded
  \/ OpenHandle \/ FirstMessage \/ Walking \/ Client \/ Ended

Spec == Init /\ [][Next]_<<vars, startVars>>

-----------------------------------------------------------------------------
EverySecond(file) == [i \in 1 .. Len(file) \div 2 |-> file[2 * i]]

(* No packet is read before the list is complete, and it is then what the  *)
(* file says: every module in the order of the file, none twice or missing,*)
(* the cursor in reach; a module that cannot be loaded keeps the daemon    *)
(* from starting (module.c:25-33, libero.c:44-70).                         *)
LoadedInOrder ==
  phase \in {"create_handle", "set_mode", "run"} =>
    /\ conf # NoFile
    /\ Items = EverySecond(conf)
    /\ phase # "run" => Cursor = IF Items = <<>> THEN 0 ELSE 1
=============================================================================
