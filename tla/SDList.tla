------------------------------- MODULE SDList -------------------------------
(***************************************************************************)
(* lib/sf_sdlist.c: doubly linked lists whose items the caller provides.   *)
(* An item is in at most one of the lists.  The operators map the contents *)
(* of the memory, fields of items and of lists, to those after a call.     *)
(***************************************************************************)
EXTENDS Integers

CONSTANTS
  Items,         \* the list items
  Lists,         \* the lists
  Data,          \* the pointers stored in them
  NULL

Pointers == Items \cup {NULL}

Memory ==
  [data : [Items -> Data \cup {NULL}],
   next : [Items -> Pointers], prev : [Items -> Pointers],
   head : [Lists -> Pointers], tail : [Lists -> Pointers],
   size : [Lists -> Int]]

(* calloc's items, and sf_sdlist_init for each of the lists.               *)
sf_sdlist_init ==
  [data |-> [i \in Items |-> NULL],
   next |-> [i \in Items |-> NULL], prev |-> [i \in Items |-> NULL],
   head |-> [l \in Lists |-> NULL], tail |-> [l \in Lists |-> NULL],
   size |-> [l \in Lists |-> 0]]

(* prev of the item that follows the new one is not set.                   *)
sf_sdlist_insert_next(m, l, item, d, new) ==
  LET first == item = NULL
      last  == IF first THEN m.size[l] = 0 ELSE m.next[item] = NULL
  IN  [m EXCEPT
        !.data[new] = d,
        !.next = IF first THEN [@ EXCEPT ![new] = m.head[l]]
                          ELSE [@ EXCEPT ![new] = m.next[item], ![item] = new],
        !.prev[new] = item,
        !.head[l] = IF first THEN new ELSE @,
        !.tail[l] = IF last THEN new ELSE @,
        !.size[l] = @ + 1]

sf_sdlist_append(m, l, d, new) == sf_sdlist_insert_next(m, l, m.tail[l], d, new)

(* Mutant: tail does not move back when the last item goes.                *)
newTailForgotten(m, l, item) == m.tail[l]

newTail(m, l, item) == IF m.next[item] = NULL THEN m.prev[item] ELSE m.tail[l]

(* The item keeps its own pointers.                                        *)
sf_sdlist_remove(m, l, item) ==
  LET next  == m.next[item]
      prev  == m.prev[item]
      empty == m.size[l] = 1
  IN  [m EXCEPT
        !.prev = [i \in Items |-> IF i = next THEN prev ELSE @[i]],
        !.next = [i \in Items |-> IF i = prev THEN next ELSE @[i]],
        !.head[l] = IF empty THEN NULL ELSE IF prev = NULL THEN next ELSE @,
        !.tail[l] = IF empty THEN NULL ELSE newTail(m, l, item),
        !.size[l] = @ - 1]

(* The item that remove_next(item) unlinks; NULL stands for the head.      *)
after(m, l, item) == IF item = NULL THEN m.head[l] ELSE m.next[item]

(* The payload that remove_next(item) destroys: only at the head is it the *)
(* payload of the item it unlinks.                                         *)
destroyedAfter(m, l, item) == IF item = NULL THEN m.data[m.head[l]] ELSE m.data[item]

(* It returns -1 on an empty list and behind the last item.                *)
removable(m, l, item) == m.size[l] # 0 /\ (item # NULL => m.next[item] # NULL)

(* The item takes over the prev of the one unlinked; tail follows only     *)
(* when the list becomes empty.                                            *)
sf_sdlist_remove_next(m, l, item) ==
  LET li    == after(m, l, item)
      prev  == IF item = NULL THEN m.prev ELSE [m.prev EXCEPT ![item] = m.prev[li]]
  IN  [m EXCEPT
        !.head[l] = IF item = NULL THEN m.next[li] ELSE @,
        !.next = IF item = NULL THEN @ ELSE [@ EXCEPT ![item] = m.next[li]],
        !.prev = [i \in Items |-> IF i = m.next[li] THEN item ELSE prev[i]],
        !.size[l] = @ - 1,
        !.tail[l] = IF m.size[l] = 1 THEN NULL ELSE @]

-----------------------------------------------------------------------------
(* The k-th item of a list along next, counted from 1, and all of them.    *)
Nth(m, l, k) ==
  LET walk[n \in 1 .. k] ==
        IF n = 1 THEN m.head[l]
                 ELSE IF walk[n - 1] = NULL THEN NULL ELSE m.next[walk[n - 1]]
  IN  walk[k]

Sequence(m, l) == [k \in 1 .. m.size[l] |-> Nth(m, l, k)]

(* The links of a list mirror each other, tail ends it and size counts it. *)
Linked(m, l) ==
  /\ m.size[l] >= 0
  /\ \A k \in 1 .. m.size[l] :
       /\ Nth(m, l, k) # NULL
       /\ m.prev[Nth(m, l, k)] = IF k = 1 THEN NULL ELSE Nth(m, l, k - 1)
  /\ Nth(m, l, m.size[l] + 1) = NULL
  /\ m.tail[l] = IF m.size[l] = 0 THEN NULL ELSE Nth(m, l, m.size[l])
=============================================================================
