------------------------------ MODULE MemPool ------------------------------
(***************************************************************************)
(* lib/mempool.c: a fixed number of objects, each with a bucket that knows *)
(* its list item.  The item is in free_list or in used_list; two counters  *)
(* are kept beside the lists.  One client takes and gives back objects and *)
(* gives back only what it has.                                            *)
(***************************************************************************)
EXTENDS Integers, Sequences

CONSTANTS
  NumObjects,    \* num_objects
  CountLimit,    \* a PoolCount is unsigned: 2^32
  Leftover,      \* what mempool->free may hold before mempool_init
  NULL

ASSUME SizeAssumption ==
  /\ NumObjects \in Nat \ {0}
  /\ CountLimit \in Nat /\ CountLimit > NumObjects
ASSUME LeftoverAssumption == Leftover \subseteq 0 .. CountLimit - 1

Objects == 0 .. NumObjects - 1

ASSUME NullAssumption == NULL \notin Objects

(* The i-th item, the i-th bucket and its data belong together: key and    *)
(* data of a bucket never change.                                          *)
INSTANCE SDList WITH Items <- Objects, Data <- Objects, Lists <- {"free", "used"}

VARIABLES
  phase,         \* "raw" before init and after destroy, then "ready"
  memory,        \* the items and the two lists
  free,          \* mempool->free
  used,          \* mempool->used
  owned,         \* the buckets the client has
  ret            \* what the last mempool_alloc returned

vars == <<phase, memory, free, used, owned, ret>>

Init ==
  /\ phase = "raw"
  /\ memory = sf_sdlist_init
  /\ free \in Leftover
  /\ used = 0
  /\ owned = {}
  /\ ret = NULL

(* free_list after n rounds of the loop.                                   *)
Filled[n \in 0 .. NumObjects] ==
  IF n = 0 THEN sf_sdlist_init
           ELSE sf_sdlist_append(Filled[n - 1], "free", n - 1, n - 1)

(* The loop counts free up from whatever it was.                           *)
mempool_init ==
  /\ phase = "raw"
  /\ phase' = "ready"
  /\ memory' = Filled[NumObjects]
  /\ free' = (free + NumObjects) % CountLimit
  /\ used' = 0
  /\ ret' = NULL
  /\ UNCHANGED owned

(* Mutant: a count of zero let through.                                    *)
someFreeUntested == TRUE

someFree == free > 0

(* Mutant: the object that came back last goes out first.                  *)
takenFromTail == memory.tail["free"]

taken == memory.head["free"]

mempool_alloc ==
  /\ someFree
  /\ taken # NULL
  /\ free' = free - 1
  /\ used' = used + 1
  /\ memory' = sf_sdlist_append(sf_sdlist_remove(memory, "free", taken),
                                "used", memory.data[taken], taken)
  /\ ret' = memory.data[taken]
  /\ owned' = owned \cup {memory.data[taken]}
  /\ UNCHANGED phase

(* Nothing is counted as free, or nothing is there although it is counted: *)
(* then the count has gone down all the same.                              *)
AllocFails ==
  /\ ret' = NULL
  /\ \/ ~someFree /\ UNCHANGED free
     \/ someFree /\ taken = NULL /\ free' = free - 1
  /\ UNCHANGED <<phase, memory, used, owned>>

(* Mutant: the object counted as free again, still listed as used.         *)
giveBackForgotten(b) == memory

giveBack(b) == sf_sdlist_append(sf_sdlist_remove(memory, "used", b), "free", b, b)

mempool_free(b) ==
  /\ b \in owned
  /\ owned' = owned \ {b}
  /\ memory' = giveBack(b)
  /\ used' = used - 1
  /\ free' = (free + 1) % CountLimit
  /\ ret' = NULL
  /\ UNCHANGED phase

(* bzero on the whole structure; the client's objects are gone.            *)
mempool_destroy ==
  /\ phase = "ready"
  /\ phase' = "raw"
  /\ memory' = sf_sdlist_init
  /\ free' = 0
  /\ used' = 0
  /\ owned' = {}
  /\ ret' = NULL

Next ==
  \/ mempool_init
  \/ phase = "ready" /\ (mempool_alloc \/ AllocFails)
  \/ \E b \in Objects : mempool_free(b)
  \/ mempool_destroy

Spec == Init /\ [][Next]_vars

-----------------------------------------------------------------------------
TypeOK ==
  /\ phase \in {"raw", "ready"}
  /\ memory \in Memory
  /\ free \in 0 .. CountLimit - 1 /\ used \in 0 .. NumObjects
  /\ owned \subseteq Objects
  /\ ret \in Objects \cup {NULL}

Elements(s) == {s[k] : k \in DOMAIN s}

(* However objects come and go, both lists stay linked in both directions, *)
(* together they hold every item once, and the used one holds what the     *)
(* client has (mempool.c:214-226, 242-251; sf_sdlist.c:76-116, 176-220).   *)
ListsSound ==
  phase = "ready" =>
    /\ Linked(memory, "free") /\ Linked(memory, "used")
    /\ memory.size["free"] + memory.size["used"] = NumObjects
    /\ Elements(Sequence(memory, "free")) = Objects \ owned
    /\ Elements(Sequence(memory, "used")) = owned
    /\ used = memory.size["used"]

Pool == INSTANCE ObjectPool
  WITH Order <- [k \in 1 .. NumObjects |-> k - 1],
       idle <- [k \in 1 .. memory.size["free"] |->
                  memory.data[Sequence(memory, "free")[k]]]

(* Every call does what the call of an ideal pool does: no object goes to  *)
(* two clients, and the longest idle goes first (mempool.c:195-259).       *)
ImplementsPool == Pool!Spec

(* How much free says more than free_list holds.                           *)
Excess == (free - memory.size["free"]) % CountLimit

(* What mempool_init found in free is the only error the counter ever has, *)
(* and a refused allocation takes one off it: the counter never drifts     *)
(* away from the list (mempool.c:158, 205-221, 248-257).                   *)
ExcessShrinks ==
  [][phase = "ready" /\ phase' = "ready" => Excess' \in {Excess, Excess - 1}]_vars
=============================================================================
