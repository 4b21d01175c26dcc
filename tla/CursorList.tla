----------------------------- MODULE CursorList -----------------------------
(***************************************************************************)
(* A list of pointers that only grows at its end, read through a cursor:   *)
(* what the daemon takes lib/glist.c for.  libero.c appends the modules    *)
(* once and then walks them for every packet; Libero models the list by    *)
(* this view of it.                                                        *)
(***************************************************************************)
EXTENDS Integers, Sequences

CONSTANTS
  Data,          \* the pointers stored
  Positions,     \* the positions asked for
  MaxLength,     \* bound on the length of the list
  NULL

VARIABLES
  items,         \* the stored pointers
  cursor,        \* position of the next item to read, 0 for none
  ret            \* what the last call returned

vars == <<items, cursor, ret>>

Init == items = <<>> /\ cursor = 0 /\ ret = NULL

(* The first item appended becomes the one under the cursor.               *)
Add(x) ==
  /\ Len(items) < MaxLength
  /\ items' = Append(items, x)
  /\ cursor' = IF items = <<>> THEN 1 ELSE cursor
  /\ ret' = NULL

Rewind ==
  /\ cursor' = IF items = <<>> THEN 0 ELSE 1
  /\ ret' = NULL
  /\ UNCHANGED items

(* The item under the cursor, which then moves by one and off either end.  *)
Read(step) ==
  /\ UNCHANGED items
  /\ IF cursor = 0
       THEN ret' = NULL /\ UNCHANGED cursor
       ELSE /\ ret' = items[cursor]
            /\ cursor' = IF cursor + step \in 1 .. Len(items) THEN cursor + step ELSE 0

(* Positions count from 0; a negative one means the first item.            *)
Nth(p) ==
  LET i == IF p < 0 THEN 1 ELSE p + 1 IN
  /\ ret' = IF i \in 1 .. Len(items) THEN items[i] ELSE NULL
  /\ UNCHANGED <<items, cursor>>

Next ==
  \/ \E x \in Data : Add(x)
  \/ Rewind
  \/ Read(1)
  \/ Read(-1)
  \/ \E p \in Positions : Nth(p)

Spec == Init /\ [][Next]_vars
=============================================================================
