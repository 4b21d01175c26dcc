----------------------------- MODULE SDListAPI -----------------------------
(***************************************************************************)
(* One list of lib/sf_sdlist.c with a destroy function, used directly: a   *)
(* client inserts and removes anywhere, with every payload allocated once. *)
(* The memory pool (MemPool) appends and removes only, and destroys none.  *)
(***************************************************************************)
EXTENDS SDList

CONSTANT list    \* one of Lists

VARIABLES
  memory,        \* the items and the list
  members,       \* the items the client has put in and not taken out
  spent,         \* the payloads inserted so far
  freed,         \* the payloads given to destroy
  condition      \* "ok", or how the program ended

vars == <<memory, members, spent, freed, condition>>

Init ==
  /\ memory = sf_sdlist_init
  /\ members = {}
  /\ spent = {}
  /\ freed = {}
  /\ condition = "ok"

(* destroy is free: a second time on one payload ends the program.         *)
destroy(d) ==
  /\ freed' = freed \cup {d}
  /\ condition' = IF d \in freed THEN "double free" ELSE "ok"

Insert(item, new, d) ==
  /\ item \in members \cup {NULL} /\ new \notin members /\ d \notin spent
  /\ memory' = sf_sdlist_insert_next(memory, list, item, d, new)
  /\ members' = members \cup {new}
  /\ spent' = spent \cup {d}
  /\ UNCHANGED <<freed, condition>>

(* tail may be an item that has been taken out.                            *)
Append(new, d) ==
  /\ new \notin members /\ d \notin spent
  /\ memory' = sf_sdlist_append(memory, list, d, new)
  /\ members' = members \cup {new}
  /\ spent' = spent \cup {d}
  /\ UNCHANGED <<freed, condition>>

Remove(item) ==
  /\ item \in members
  /\ memory' = sf_sdlist_remove(memory, list, item)
  /\ members' = members \ {item}
  /\ destroy(memory.data[item])
  /\ UNCHANGED spent

RemoveNext(item) ==
  /\ item \in members \cup {NULL}
  /\ removable(memory, list, item)
  /\ after(memory, list, item) # NULL
  /\ memory' = sf_sdlist_remove_next(memory, list, item)
  /\ members' = members \ {after(memory, list, item)}
  /\ destroy(destroyedAfter(memory, list, item))
  /\ UNCHANGED spent

(* Items are left to count, but none can be reached from the head.         *)
CrashOnHead ==
  /\ removable(memory, list, NULL) /\ memory.head[list] = NULL
  /\ condition' = "crash"
  /\ UNCHANGED <<memory, members, spent, freed>>

(* The loop of sf_sdlist_delete after n rounds: what it has left, and what *)
(* it has destroyed.  A round does nothing once size is 0.                 *)
Round[n \in Nat] ==
  IF n = 0 THEN [left |-> memory, destroyed |-> {}]
  ELSE LET r == Round[n - 1] IN
       IF r.left.head[list] = NULL \/ ~removable(r.left, list, NULL) THEN r
       ELSE [left |-> sf_sdlist_remove_next(r.left, list, NULL),
             destroyed |-> r.destroyed \cup {destroyedAfter(r.left, list, NULL)}]

(* With a count of 0 before the last item the loop would not end.          *)
sf_sdlist_delete ==
  LET last == Round[memory.size[list]] IN
  /\ memory' = last.left
  /\ members' = {}
  /\ freed' = freed \cup last.destroyed
  /\ condition' = IF last.destroyed \cap freed # {} THEN "double free"
                  ELSE IF last.left.head[list] = NULL THEN "ok" ELSE "hangs"
  /\ UNCHANGED spent

Next ==
  /\ condition = "ok"
  /\ \/ \E item \in Pointers, new \in Items, d \in Data : Insert(item, new, d)
     \/ \E new \in Items, d \in Data : Append(new, d)
     \/ \E item \in Items : Remove(item)
     \/ \E item \in Pointers : RemoveNext(item)
     \/ CrashOnHead
     \/ sf_sdlist_delete

Spec == Init /\ [][Next]_vars

-----------------------------------------------------------------------------
(* "Remove the item after the item", and the "delete function called for   *)
(* each member of the linked list" (sf_sdlist.h:60, 45-46): the payload    *)
(* that remove_next destroys is that of the item it takes out.             *)
RemovedIsDestroyed ==
  [][\A item \in Pointers : RemoveNext(item) =>
       freed' \ freed = {memory.data[after(memory, list, item)]}]_vars
=============================================================================
