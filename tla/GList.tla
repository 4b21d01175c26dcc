------------------------------- MODULE GList -------------------------------
(***************************************************************************)
(* lib/glist.c: a doubly linked list in the heap, with a cursor.  The      *)
(* daemon uses it to append its modules and walk them; UsedSpec has those  *)
(* operations and the readers beside them, FullSpec the ones that change   *)
(* the list elsewhere too, which nothing in the daemon calls.              *)
(***************************************************************************)
EXTENDS Integers, Sequences, FiniteSets

CONSTANTS
  Data,          \* the pointers stored
  Positions,     \* the positions asked for
  Addresses,     \* where malloc can put a node; bounds the length of the list
  NULL

ASSUME AddressesAssumption ==
  NULL \notin Addresses \cup Data /\ IsFiniteSet(Addresses)

ASSUME PositionsAssumption == Positions \subseteq Int

VARIABLES
  allocated,     \* the nodes that are not free
  next, prev, data,                              \* the fields of the nodes
  firstNode, lastNode, currentNode, length,      \* the fields of GListInfo
  ret,           \* the data of the node, or the pointer, the last call returned
  fault          \* a pointer to no allocated node has been followed

nodeVars == <<allocated, next, prev, data>>
listVars == <<firstNode, lastNode, currentNode, length>>
vars == <<nodeVars, listVars, ret, fault>>

glist_init ==
  /\ allocated = {}
  /\ next = [a \in Addresses |-> NULL]
  /\ prev = [a \in Addresses |-> NULL]
  /\ data = [a \in Addresses |-> NULL]
  /\ firstNode = NULL
  /\ lastNode = NULL
  /\ currentNode = NULL
  /\ length = 0
  /\ ret = NULL
  /\ fault = FALSE

Fault == fault' = TRUE /\ UNCHANGED <<nodeVars, listVars, ret>>

(* malloc, and what the new node's data is set to.                         *)
Create(new, x) ==
  /\ new \notin allocated
  /\ allocated' = allocated \cup {new}
  /\ data' = [data EXCEPT ![new] = x]

-----------------------------------------------------------------------------
(* Mutant: the node before the new one keeps its end-of-list mark.         *)
linkForgotten(new) == next

linkLast(new) ==
  IF firstNode = NULL THEN next ELSE [next EXCEPT ![lastNode] = new]

(* The functions declared to return a node return nothing, and no caller   *)
(* looks: ret is NULL then.                                                *)
glist_append(x) ==
  /\ firstNode = NULL \/ lastNode \in allocated
  /\ \E new \in Addresses :
       /\ Create(new, x)
       /\ next' = [linkLast(new) EXCEPT ![new] = NULL]
       /\ prev' = [prev EXCEPT ![new] = lastNode]
       /\ lastNode' = new
       /\ IF firstNode = NULL
            THEN firstNode' = new /\ currentNode' = new
            ELSE UNCHANGED <<firstNode, currentNode>>
  /\ length' = length + 1
  /\ ret' = NULL
  /\ UNCHANGED fault

(* Mutant: the cursor goes to the wrong end.                               *)
rewindToLast == lastNode

rewindTo == firstNode

glist_rewind ==
  /\ currentNode' = rewindTo
  /\ ret' = NULL
  /\ UNCHANGED <<nodeVars, firstNode, lastNode, length, fault>>

(* Read through the cursor and follow the link.                            *)
ReadAndMove(link) ==
  \/ /\ currentNode = NULL
     /\ ret' = NULL
     /\ UNCHANGED <<nodeVars, listVars, fault>>
  \/ /\ currentNode \in allocated
     /\ ret' = data[currentNode]
     /\ currentNode' = link[currentNode]
     /\ UNCHANGED <<nodeVars, firstNode, lastNode, length, fault>>

glist_next == ReadAndMove(next)
glist_prev == ReadAndMove(prev)

(* After a prepend lastNode, after a removal lastNode and the cursor may   *)
(* point to no allocated node.                                             *)
AppendToFreed == firstNode # NULL /\ lastNode \notin allocated /\ Fault
ReadFreed     == currentNode \notin allocated \cup {NULL} /\ Fault

(* The node k steps behind the first one, NULL past the end.               *)
Walk[k \in Nat] ==
  IF k = 0 THEN firstNode
           ELSE IF Walk[k - 1] = NULL THEN NULL ELSE next[Walk[k - 1]]

(* A negative position runs the loop no time and gives the first node.     *)
(* The callers below have a list that can be walked.                       *)
nth(position) ==
  IF length < position THEN NULL
                       ELSE Walk[IF position < 0 THEN 0 ELSE position]

Walkable == firstNode \in allocated \cup {NULL}

glist_nth(position) ==
  /\ Walkable
  /\ ret' = IF nth(position) = NULL THEN NULL ELSE data[nth(position)]
  /\ UNCHANGED <<nodeVars, listVars, fault>>

-----------------------------------------------------------------------------
(* lastNode, currentNode and length do not follow.                         *)
glist_prepend(x) ==
  /\ Walkable
  /\ \E new \in Addresses :
       /\ Create(new, x)
       /\ next' = [next EXCEPT ![new] = firstNode]
       /\ prev' = IF firstNode = NULL THEN [prev EXCEPT ![new] = NULL]
                    ELSE [prev EXCEPT ![new] = NULL, ![firstNode] = new]
       /\ firstNode' = new
  /\ ret' = NULL
  /\ UNCHANGED <<lastNode, currentNode, length, fault>>

(* The node that is pushed back learns of the new one; the node before it, *)
(* firstNode and length do not, and the new node's data keeps what the     *)
(* memory held.  Without a node at the position the new one is leaked.     *)
glist_insert(x, position) ==
  /\ Walkable
  /\ \/ /\ nth(position) = NULL
        /\ ret' = NULL
        /\ UNCHANGED <<nodeVars, listVars, fault>>
     \/ /\ nth(position) # NULL
        /\ \E new \in Addresses, old \in Data \cup {NULL} :
             /\ Create(new, old)
             /\ next' = [next EXCEPT ![new] = nth(position)]
             /\ prev' = [prev EXCEPT ![new] = prev[nth(position)],
                                     ![nth(position)] = new]
             /\ ret' = new
        /\ UNCHANGED <<listVars, fault>>

(* lastNode and currentNode do not follow.                                 *)
glist_remove(a) ==
  /\ next' = [b \in Addresses |-> IF b = a THEN NULL
                                  ELSE IF b = prev[a] THEN next[a] ELSE next[b]]
  /\ prev' = [b \in Addresses |-> IF b = a THEN NULL
                                  ELSE IF b = next[a] THEN prev[a] ELSE prev[b]]
  /\ firstNode' = IF firstNode = a THEN next[a] ELSE firstNode
  /\ allocated' = allocated \ {a}
  /\ length' = length - 1
  /\ ret' = NULL
  /\ UNCHANGED <<data, lastNode, currentNode, fault>>

glist_remove_by_num(position) ==
  /\ Walkable
  /\ \/ /\ nth(position) = NULL
        /\ ret' = NULL
        /\ UNCHANGED <<nodeVars, listVars, fault>>
     \/ nth(position) # NULL /\ glist_remove(nth(position))

(* memcpy the wrong way round: the list's header gets what malloc returned *)
(* for the copy.                                                           *)
glist_ndup ==
  /\ \E first, last, current \in Addresses \cup {NULL} :
       firstNode' = first /\ lastNode' = last /\ currentNode' = current
  /\ length' \in 0 .. Cardinality(Addresses)
  /\ ret' = NULL
  /\ UNCHANGED <<nodeVars, fault>>

WalkFreed == ~Walkable /\ Fault

-----------------------------------------------------------------------------
UsedNext ==
  \/ \E x \in Data : glist_append(x)
  \/ glist_rewind
  \/ glist_next
  \/ glist_prev
  \/ \E p \in Positions : glist_nth(p)

UsedSpec == glist_init /\ [][UsedNext]_vars

FullNext ==
  \/ UsedNext
  \/ AppendToFreed \/ ReadFreed \/ WalkFreed
  \/ \E x \in Data : glist_prepend(x)
  \/ \E x \in Data, p \in Positions : glist_insert(x, p)
  \/ \E a \in allocated : glist_remove(a)
  \/ \E p \in Positions : glist_remove_by_num(p)
  \/ glist_ndup

FullSpec == glist_init /\ [][FullNext]_vars

-----------------------------------------------------------------------------
(* The data along next from the first node; the chain is cut after one     *)
(* node more than there are, in case it runs in a circle.                  *)
ChainLength ==
  CHOOSE n \in 0 .. Cardinality(Addresses) + 1 :
    /\ \A k \in 0 .. n - 1 : Walk[k] # NULL
    /\ n = Cardinality(Addresses) + 1 \/ Walk[n] = NULL

Items  == [i \in 1 .. ChainLength |-> data[Walk[i - 1]]]
Cursor == IF \E i \in 1 .. ChainLength : Walk[i - 1] = currentNode
            THEN CHOOSE i \in 1 .. ChainLength : Walk[i - 1] = currentNode
            ELSE 0

(* The two directions of the chain mirror each other, lastNode ends it,    *)
(* length counts it, and no node is lost or linked after it was freed      *)
(* (glist.c:34-49).                                                        *)
WellLinked ==
  /\ length = ChainLength
  /\ {Walk[k] : k \in 0 .. ChainLength - 1} = allocated
  /\ \A a \in allocated :
       /\ next[a] # NULL => next[a] \in allocated /\ prev[next[a]] = a
       /\ next[a] = NULL <=> a = lastNode
       /\ prev[a] = NULL <=> a = firstNode
  /\ currentNode \in allocated \cup {NULL}
  /\ ~fault

CursorView == INSTANCE CursorList
  WITH MaxLength <- Cardinality(Addresses), items <- Items, cursor <- Cursor

(* Used as the daemon uses it, the heap structure is a list with a cursor: *)
(* rewinding and reading to the end visits every module once, in the order *)
(* of loading (module.c:25-27, libero.c:253-254).                          *)
ImplementsCursorList == CursorView!Spec

(* "Inserts a value at a position from 0 to n-1; the value that was there  *)
(* is pushed back" (glist.c:70): what a successful insert has to make of   *)
(* the list.                                                               *)
InsertPushesBack ==
  [][\A x \in Data, p \in Positions :
       p >= 0 /\ glist_insert(x, p) /\ ret' # NULL =>
         Items' = SubSeq(Items, 1, p) \o <<x>> \o SubSeq(Items, p + 1, Len(Items))]_vars
=============================================================================
