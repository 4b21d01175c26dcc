--------------------------- MODULE StartupProofs ---------------------------
(***************************************************************************)
(* The list of modules, for any size of memory and any contents of         *)
(* conf/modules.conf.  The heap's nodes are spoken of as one sequence;     *)
(* append, the cursor and glist_nth are shown to do to that sequence what  *)
(* CursorList does, and the loader to fill it from the file.               *)
(***************************************************************************)
EXTENDS Startup, FiniteSetTheorems, SequenceTheorems, WellFoundedInduction, TLAPS

(* Every set of natural numbers has a least one, and what contains 0 and   *)
(* with each number the next one contains all of them.                     *)
LEMMA LeastNumber ==
  ASSUME NEW T, T \subseteq Nat, T # {}
  PROVE  \E x \in T : \A y \in T : x <= y
<1> DEFINE R == OpToRel(<, Nat)
<1>1. PICK x \in T : \A y \in T : <<y, x>> \notin R
  BY NatLessThanWellFounded, WFMin
<1>2. ASSUME NEW y \in T, y < x PROVE <<y, x>> \in R
  BY <1>2 DEF OpToRel
<1>3. \A y \in T : ~(y < x)
  BY <1>1, <1>2, Zenon
<1> QED
  BY <1>3

LEMMA SetInduction ==
  ASSUME NEW S, 0 \in S, \A n \in Nat : n \in S => n + 1 \in S
  PROVE  Nat \subseteq S
<1> SUFFICES ASSUME Nat \ S # {} PROVE FALSE
  OBVIOUS
<1>1. PICK x \in Nat \ S : \A y \in Nat \ S : x <= y
  BY LeastNumber
<1>2. x # 0 /\ x - 1 \in Nat /\ x - 1 \in S
  BY <1>1
<1> QED
  BY <1>1, <1>2

(* A sequence of n different members of a finite set: n is at most the     *)
(* number of its members.                                                  *)
LEMMA FewDistinct ==
  ASSUME NEW S, IsFiniteSet(S), NEW s \in Seq(S),
         \A i, j \in 1 .. Len(s) : s[i] = s[j] => i = j
  PROVE  Len(s) <= Cardinality(S) /\ Cardinality(S) \in Nat
<1>1. Len(s) \in Nat /\ s \in [1 .. Len(s) -> S]
  BY LenProperties
<1>2. s \in Injection(1 .. Len(s), S)
  BY <1>1 DEF Injection, IsInjective
<1>3. Cardinality(1 .. Len(s)) <= Cardinality(S)
  BY <1>2, FS_Injection
<1>4. Cardinality(1 .. Len(s)) = Len(s)
  BY <1>1, FS_Interval
<1> QED
  BY <1>3, <1>4, FS_CardinalityType

-----------------------------------------------------------------------------
(* The nodes of the list are those of s, linked in both directions.        *)
Spells(s) ==
  /\ s \in Seq(Addresses)
  /\ \A i, j \in 1 .. Len(s) : s[i] = s[j] => i = j
  /\ allocated = {s[i] : i \in 1 .. Len(s)}
  /\ length = Len(s)
  /\ firstNode = IF s = <<>> THEN NULL ELSE s[1]
  /\ lastNode  = IF s = <<>> THEN NULL ELSE s[Len(s)]
  /\ \A i \in 1 .. Len(s) :
       /\ next[s[i]] = IF i = Len(s) THEN NULL ELSE s[i + 1]
       /\ prev[s[i]] = IF i = 1 THEN NULL ELSE s[i - 1]

LEMMA SpelledNodes ==
  ASSUME NEW s, Spells(s)
  PROVE  /\ Len(s) \in Nat /\ (s = <<>> <=> Len(s) = 0)
         /\ s \in [1 .. Len(s) -> Addresses]
         /\ \A i \in 1 .. Len(s) : s[i] \in Addresses /\ s[i] # NULL
         /\ Len(s) <= Cardinality(Addresses) /\ Cardinality(Addresses) \in Nat
<1>1. Len(s) <= Cardinality(Addresses) /\ Cardinality(Addresses) \in Nat
  BY FewDistinct, AddressesAssumption DEF Spells
<1> QED
  BY <1>1, AddressesAssumption, LenProperties, EmptySeq DEF Spells

(* The loop of glist_nth visits the nodes of s and then finds NULL.        *)
LEMMA WalkVisits ==
  ASSUME NEW s, Spells(s), NEW k \in 0 .. Len(s)
  PROVE  Walk[k] = IF k < Len(s) THEN s[k + 1] ELSE NULL
<1> DEFINE w == [n \in Nat |-> IF n < Len(s) THEN s[n + 1] ELSE NULL]
           rec(f) == [n \in Nat |->
                        IF n = 0 THEN firstNode
                        ELSE IF f[n - 1] = NULL THEN NULL ELSE next[f[n - 1]]]
<1>1. /\ Len(s) \in Nat /\ (s = <<>> <=> Len(s) = 0)
      /\ \A n \in 1 .. Len(s) : s[n] \in Addresses /\ s[n] # NULL
  BY SpelledNodes
<1>2. ASSUME NEW n \in Nat
      PROVE  w[n] = IF n = 0 THEN firstNode
                    ELSE IF w[n - 1] = NULL THEN NULL ELSE next[w[n - 1]]
  <2>1. CASE n = 0
    BY <1>1, <2>1 DEF Spells
  <2>2. CASE n # 0
    <3>1. n - 1 \in Nat
      BY <2>2
    <3>2. CASE n <= Len(s)
      BY <1>1, <2>2, <3>1, <3>2 DEF Spells
    <3>3. CASE ~(n <= Len(s))
      BY <1>1, <2>2, <3>1, <3>3
    <3> QED
      BY <3>2, <3>3
  <2> QED
    BY <2>1, <2>2
<1>3. w = rec(w)
  BY <1>2
<1>4. Walk = CHOOSE f : f = rec(f)
  BY DEF Walk
<1>5. Walk = rec(Walk)
  <2> HIDE DEF w, rec
  <2> QED
    BY <1>3, <1>4
<1>6. \A n \in Nat : Walk[n] = IF n = 0 THEN firstNode
                               ELSE IF Walk[n - 1] = NULL THEN NULL ELSE next[Walk[n - 1]]
  <2> DEFINE f == Walk
  <2>1. f = rec(f)
    BY <1>5
  <2> HIDE DEF f
  <2>2. \A n \in Nat : f[n] = IF n = 0 THEN firstNode
                              ELSE IF f[n - 1] = NULL THEN NULL ELSE next[f[n - 1]]
    BY <2>1
  <2> QED
    BY <2>2 DEF f
<1> DEFINE S == {n \in Nat : Walk[n] = w[n]}
<1>7. 0 \in S
  <2> HIDE DEF w
  <2> QED
    BY <1>2, <1>6
<1>8. ASSUME NEW n \in Nat, n \in S PROVE n + 1 \in S
  <2>1. n + 1 # 0 /\ (n + 1) - 1 = n /\ n + 1 \in Nat
    OBVIOUS
  <2> HIDE DEF w
  <2> QED
    BY <1>2, <1>6, <1>8, <2>1
<1>9. Nat \subseteq S
  <2> HIDE DEF S
  <2> QED
    BY <1>7, <1>8, SetInduction
<1> QED
  BY <1>1, <1>9
(* What CursorList sees of a list that s spells.                           *)
Viewed ==
  \A s : Spells(s) =>
    /\ ChainLength = Len(s)
    /\ \A k \in 0 .. Len(s) : Walk[k] = IF k < Len(s) THEN s[k + 1] ELSE NULL
    /\ Items = [i \in 1 .. Len(s) |-> data[s[i]]]
    /\ \A i \in 1 .. Len(s) : currentNode = s[i] => Cursor = i
    /\ currentNode = NULL => Cursor = 0

LEMMA ChainCounted ==
  ASSUME NEW s, Spells(s)
  PROVE  ChainLength = Len(s)
<1> DEFINE C == Cardinality(Addresses) + 1
           P(n) == /\ \A k \in 0 .. n - 1 : Walk[k] # NULL
                   /\ n = C \/ Walk[n] = NULL
<1>1. /\ Len(s) \in Nat /\ C \in Nat /\ Len(s) < C
      /\ \A k \in 0 .. Len(s) - 1 : Walk[k] # NULL
      /\ Walk[Len(s)] = NULL
  BY SpelledNodes, WalkVisits
<1>2. Len(s) \in 0 .. C /\ P(Len(s))
  BY <1>1
<1>3. ASSUME NEW n \in 0 .. C, P(n) PROVE n = Len(s)
  BY <1>1, <1>3
<1>4. ChainLength = CHOOSE n \in 0 .. C : P(n)
  BY DEF ChainLength
<1> HIDE DEF P, C
<1> QED
  BY <1>2, <1>3, <1>4

LEMMA ViewedHolds == Viewed
<1> SUFFICES ASSUME NEW s, Spells(s)
             PROVE  /\ ChainLength = Len(s)
                    /\ \A k \in 0 .. Len(s) :
                         Walk[k] = IF k < Len(s) THEN s[k + 1] ELSE NULL
                    /\ Items = [i \in 1 .. Len(s) |-> data[s[i]]]
                    /\ \A i \in 1 .. Len(s) : currentNode = s[i] => Cursor = i
                    /\ currentNode = NULL => Cursor = 0
  BY DEF Viewed
<1>1. /\ Len(s) \in Nat /\ ChainLength = Len(s)
      /\ \A i \in 1 .. Len(s) : s[i] # NULL
  BY SpelledNodes, ChainCounted
<1>2. \A k \in 0 .. Len(s) : Walk[k] = IF k < Len(s) THEN s[k + 1] ELSE NULL
  BY WalkVisits
<1>3. \A i \in 1 .. Len(s) : Walk[i - 1] = s[i]
  BY <1>1, <1>2
<1>4. Items = [i \in 1 .. Len(s) |-> data[s[i]]]
  BY <1>1, <1>3 DEF Items
<1>5. ASSUME NEW i \in 1 .. Len(s), currentNode = s[i] PROVE Cursor = i
  <2>1. \A j \in 1 .. Len(s) : Walk[j - 1] = currentNode <=> j = i
    BY <1>3, <1>5 DEF Spells
  <2> QED
    BY <1>1, <2>1 DEF Cursor
<1>6. ASSUME currentNode = NULL PROVE Cursor = 0
  BY <1>1, <1>3, <1>6 DEF Cursor
<1> QED
  BY <1>1, <1>2, <1>4, <1>5, <1>6

-----------------------------------------------------------------------------
(* The inductive invariant of the list in the hands of its users.          *)
ListInv ==
  /\ allocated \subseteq Addresses
  /\ next \in [Addresses -> Addresses \cup {NULL}]
  /\ prev \in [Addresses -> Addresses \cup {NULL}]
  /\ data \in [Addresses -> Data \cup {NULL}]
  /\ currentNode \in allocated \cup {NULL}
  /\ fault = FALSE
  /\ \E s : Spells(s)

LEMMA InitList == glist_init => ListInv /\ Spells(<<>>)
<1> SUFFICES ASSUME glist_init PROVE ListInv /\ Spells(<<>>)
  OBVIOUS
<1>1. Len(<<>>) = 0 /\ <<>> \in Seq(Addresses) /\ 1 .. 0 = {}
  BY EmptySeq
<1>2. Spells(<<>>)
  BY <1>1 DEF glist_init, Spells
<1>3. ListInv
  BY <1>2 DEF glist_init, ListInv
<1> QED
  BY <1>2, <1>3

(* An append links one more node behind the last.                          *)
LEMMA AppendStep ==
  ASSUME ListInv, NEW s, Spells(s), NEW x \in Data, glist_append(x)
  PROVE  \E new \in Addresses \ allocated :
           /\ Spells(Append(s, new))' /\ ListInv'
           /\ data' = [data EXCEPT ![new] = x]
           /\ currentNode' = IF s = <<>> THEN new ELSE currentNode
           /\ firstNode' = IF s = <<>> THEN new ELSE firstNode
           /\ ret' = NULL
<1>1. PICK new \in Addresses :
         /\ Create(new, x)
         /\ next' = [linkLast(new) EXCEPT ![new] = NULL]
         /\ prev' = [prev EXCEPT ![new] = lastNode]
         /\ lastNode' = new
         /\ IF firstNode = NULL
              THEN firstNode' = new /\ currentNode' = new
              ELSE UNCHANGED <<firstNode, currentNode>>
  BY DEF glist_append
<1> DEFINE t == Append(s, new)
           N == Len(s)
<1>2. /\ N \in Nat /\ (s = <<>> <=> N = 0)
      /\ \A i \in 1 .. N : s[i] \in Addresses /\ s[i] # NULL /\ s[i] # new
      /\ new \notin allocated /\ new # NULL
      /\ firstNode = NULL <=> s = <<>>
      /\ s # <<>> => lastNode = s[N] /\ lastNode # new
      /\ lastNode \in Addresses \cup {NULL}
  <2>1. \A i \in 1 .. N : s[i] \in allocated
    BY DEF Spells
  <2>2. /\ N \in Nat /\ (s = <<>> <=> N = 0)
        /\ \A i \in 1 .. N : s[i] \in Addresses /\ s[i] # NULL
    BY SpelledNodes
  <2>3. new \notin allocated /\ new # NULL
    BY <1>1, AddressesAssumption DEF Create
  <2>4. s # <<>> => 1 \in 1 .. N /\ N \in 1 .. N
    BY <2>2
  <2> QED
    BY <2>1, <2>2, <2>3, <2>4 DEF Spells
<1>3. /\ t \in Seq(Addresses) /\ Len(t) = N + 1 /\ t # <<>>
      /\ \A i \in 1 .. N : t[i] = s[i]
      /\ t[N + 1] = new
  BY <1>2, AppendProperties DEF Spells
<1>4. \A i \in 1 .. N + 1 : i \in 1 .. N \/ i = N + 1
  BY <1>2
<1>5. next' = [a \in Addresses |-> IF a = new THEN NULL
                                   ELSE IF s # <<>> /\ a = lastNode THEN new
                                   ELSE next[a]]
  BY <1>1, <1>2 DEF linkLast, ListInv
<1>6. prev' = [a \in Addresses |-> IF a = new THEN lastNode ELSE prev[a]]
  BY <1>1 DEF ListInv
<1> HIDE DEF t
<1>7. Spells(t)'
  <2>1. \A i, j \in 1 .. Len(t) : t[i] = t[j] => i = j
    BY <1>2, <1>3, <1>4 DEF Spells
  <2>2. allocated' = {t[i] : i \in 1 .. Len(t)}
    <3>1. allocated' = {s[i] : i \in 1 .. N} \cup {new}
      BY <1>1 DEF Create, Spells
    <3>2. \A a : a \in {t[i] : i \in 1 .. N + 1} <=> a \in {s[i] : i \in 1 .. N} \cup {new}
      BY <1>2, <1>3, <1>4
    <3> QED
      BY <1>3, <3>1, <3>2
  <2>3. length' = Len(t)
    BY <1>3 DEF glist_append, Spells
  <2>4. firstNode' = t[1] /\ lastNode' = t[Len(t)]
    <3>1. CASE s = <<>>
      BY <1>1, <1>2, <1>3, <3>1
    <3>2. CASE s # <<>>
      BY <1>1, <1>2, <1>3, <3>2 DEF Spells
    <3> QED
      BY <3>1, <3>2
  <2>5. ASSUME NEW i \in 1 .. Len(t)
        PROVE  /\ next'[t[i]] = IF i = Len(t) THEN NULL ELSE t[i + 1]
               /\ prev'[t[i]] = IF i = 1 THEN NULL ELSE t[i - 1]
    <3>1. CASE i = N + 1
      <4>1. next'[new] = NULL /\ prev'[new] = lastNode
        BY <1>5, <1>6
      <4>2. lastNode = IF i = 1 THEN NULL ELSE t[i - 1]
        BY <1>2, <1>3, <3>1 DEF Spells
      <4> QED
        BY <1>3, <3>1, <4>1, <4>2
    <3>2. CASE i \in 1 .. N
      <4>1. /\ t[i] = s[i] /\ s[i] \in Addresses /\ s[i] # new /\ s # <<>>
            /\ s[i] = lastNode <=> i = N
        BY <1>2, <1>3, <3>2 DEF Spells
      <4>2. /\ next'[s[i]] = IF i = N THEN new ELSE next[s[i]]
            /\ prev'[s[i]] = prev[s[i]]
        BY <1>5, <1>6, <4>1
      <4>3. i # N => next[s[i]] = s[i + 1] /\ t[i + 1] = s[i + 1]
        BY <1>2, <1>3, <3>2 DEF Spells
      <4>4. /\ prev[s[i]] = IF i = 1 THEN NULL ELSE s[i - 1]
            /\ i # 1 => t[i - 1] = s[i - 1]
        BY <1>2, <1>3, <3>2 DEF Spells
      <4> QED
        BY <1>2, <1>3, <3>2, <4>1, <4>2, <4>3, <4>4
    <3> QED
      BY <1>3, <1>4, <3>1, <3>2
  <2> QED
    BY <1>3, <2>1, <2>2, <2>3, <2>4, <2>5 DEF Spells
<1>8. /\ currentNode' = IF s = <<>> THEN new ELSE currentNode
      /\ firstNode' = IF s = <<>> THEN new ELSE firstNode
      /\ data' = [data EXCEPT ![new] = x]
      /\ allocated' = allocated \cup {new}
      /\ ret' = NULL /\ fault' = fault
  BY <1>1, <1>2 DEF Create, glist_append
<1>9. ListInv'
  <2>1. /\ next' \in [Addresses -> Addresses \cup {NULL}]
        /\ prev' \in [Addresses -> Addresses \cup {NULL}]
    BY <1>2, <1>5, <1>6 DEF ListInv
  <2>2. data' \in [Addresses -> Data \cup {NULL}]
    BY <1>8 DEF ListInv
  <2> QED
    BY <1>7, <1>8, <2>1, <2>2 DEF ListInv
<1> QED
  BY <1>2, <1>7, <1>8, <1>9 DEF t
(* The readers leave the nodes alone and the cursor on one of them.        *)
LEMMA SpellsKept ==
  ASSUME UNCHANGED <<nodeVars, firstNode, lastNode, length>>
  PROVE  \A s : Spells(s) => Spells(s)'
BY DEF Spells, nodeVars

LEMMA ReadKeepsList ==
  ASSUME ListInv,
         glist_rewind \/ glist_next \/ glist_prev \/ \E p \in Positions : glist_nth(p)
  PROVE  ListInv' /\ UNCHANGED <<nodeVars, firstNode, lastNode, length>>
<1>1. PICK s : Spells(s)
  BY DEF ListInv
<1>2. firstNode \in allocated \cup {NULL}
  BY <1>1, SpelledNodes DEF Spells
<1>3. ASSUME NEW a \in allocated
      PROVE  next[a] \in allocated \cup {NULL} /\ prev[a] \in allocated \cup {NULL}
  <2>1. PICK i \in 1 .. Len(s) : a = s[i]
    BY <1>1, <1>3 DEF Spells
  <2>2. Len(s) \in Nat /\ \A j \in 1 .. Len(s) : s[j] \in allocated
    BY <1>1, SpelledNodes DEF Spells
  <2>3. (i # Len(s) => i + 1 \in 1 .. Len(s)) /\ (i # 1 => i - 1 \in 1 .. Len(s))
    BY <2>2
  <2> QED
    BY <1>1, <2>1, <2>2, <2>3 DEF Spells
<1>4. /\ UNCHANGED <<nodeVars, firstNode, lastNode, length, fault>>
      /\ currentNode' \in allocated \cup {NULL}
  <2>1. CASE glist_rewind
    BY <1>2, <2>1 DEF glist_rewind, rewindTo
  <2>2. CASE glist_next
    BY <1>3, <2>2 DEF glist_next, ReadAndMove, listVars
  <2>3. CASE glist_prev
    BY <1>3, <2>3 DEF glist_prev, ReadAndMove, listVars
  <2>4. ASSUME NEW p \in Positions, glist_nth(p)
        PROVE  UNCHANGED <<nodeVars, listVars, fault>>
    BY <2>4 DEF glist_nth
  <2> QED
    BY <2>1, <2>2, <2>3, <2>4 DEF ListInv, listVars
<1>5. \E t : Spells(t)'
  BY <1>1, <1>4, SpellsKept
<1> QED
  BY <1>4, <1>5 DEF ListInv, nodeVars

LEMMA UsedKeepsList ==
  ASSUME ListInv, UsedNext PROVE ListInv'
<1>1. CASE \E x \in Data : glist_append(x)
  BY <1>1, AppendStep DEF ListInv
<1>2. CASE ~\E x \in Data : glist_append(x)
  BY <1>2, ReadKeepsList DEF UsedNext
<1> QED
  BY <1>1, <1>2

(* What the run's invariant says of the list follows.                      *)
LEMMA SpelledIsLinked ==
  ASSUME ListInv, Viewed PROVE WellLinked
<1>1. PICK s : Spells(s)
  BY DEF ListInv
<1>2. /\ ChainLength = Len(s) /\ Len(s) \in Nat
      /\ \A i \in 1 .. Len(s) : Walk[i - 1] = s[i] /\ s[i] \in allocated /\ s[i] # NULL
      /\ allocated = {s[i] : i \in 1 .. Len(s)}
  <2>1. \A i \in 1 .. Len(s) : i - 1 \in 0 .. Len(s) /\ i - 1 < Len(s) /\ (i - 1) + 1 = i
    BY <1>1, SpelledNodes
  <2>2. /\ ChainLength = Len(s)
        /\ \A k \in 0 .. Len(s) : Walk[k] = IF k < Len(s) THEN s[k + 1] ELSE NULL
    BY <1>1 DEF Viewed
  <2> QED
    BY <1>1, <2>1, <2>2, SpelledNodes DEF Spells
<1>3. {Walk[k] : k \in 0 .. ChainLength - 1} = allocated
  <2>1. ASSUME NEW k \in 0 .. ChainLength - 1 PROVE Walk[k] \in allocated
    <3>1. k + 1 \in 1 .. Len(s) /\ (k + 1) - 1 = k
      BY <1>2, <2>1
    <3> QED
      BY <1>2, <3>1
  <2>2. ASSUME NEW a \in allocated PROVE \E k \in 0 .. ChainLength - 1 : Walk[k] = a
    <3>1. PICK i \in 1 .. Len(s) : a = s[i]
      BY <1>2, <2>2
    <3>2. i - 1 \in 0 .. ChainLength - 1 /\ Walk[i - 1] = a
      BY <1>2, <3>1
    <3> QED
      BY <3>2
  <2> QED
    BY <2>1, <2>2
<1>4. ASSUME NEW a \in allocated
      PROVE  /\ next[a] # NULL => next[a] \in allocated /\ prev[next[a]] = a
             /\ next[a] = NULL <=> a = lastNode
             /\ prev[a] = NULL <=> a = firstNode
  <2>1. PICK i \in 1 .. Len(s) : a = s[i]
    BY <1>2
  <2>2. /\ s # <<>> /\ firstNode = s[1] /\ lastNode = s[Len(s)]
        /\ 1 \in 1 .. Len(s) /\ Len(s) \in 1 .. Len(s)
    BY <1>1, <1>2, <2>1, SpelledNodes DEF Spells
  <2>3. (a = lastNode <=> i = Len(s)) /\ (a = firstNode <=> i = 1)
    BY <1>1, <2>1, <2>2 DEF Spells
  <2>4. /\ next[a] = IF i = Len(s) THEN NULL ELSE s[i + 1]
        /\ prev[a] = IF i = 1 THEN NULL ELSE s[i - 1]
        /\ i # Len(s) => i + 1 \in 1 .. Len(s) /\ prev[s[i + 1]] = s[i]
    <3>1. i # Len(s) => i + 1 \in 1 .. Len(s) /\ i + 1 # 1 /\ (i + 1) - 1 = i
      BY <1>2
    <3> QED
      BY <1>1, <2>1, <3>1 DEF Spells
  <2>5. i # 1 => i - 1 \in 1 .. Len(s)
    BY <1>2
  <2> QED
    BY <1>2, <2>1, <2>3, <2>4, <2>5
<1> QED
  BY <1>1, <1>2, <1>3, <1>4 DEF WellLinked, ListInv, Spells
-----------------------------------------------------------------------------
(* The position of the cursor in the sequence of nodes.                    *)
LEMMA CursorPlace ==
  ASSUME ListInv, Viewed, NEW s, Spells(s)
  PROVE  /\ Len(s) \in Nat /\ Items = [i \in 1 .. Len(s) |-> data[s[i]]]
         /\ Items \in Seq(Data \cup {NULL}) /\ Len(Items) = Len(s)
         /\ Items = <<>> <=> Len(s) = 0
         /\ Cursor \in 0 .. Len(s)
         /\ Cursor = 0 <=> currentNode = NULL
         /\ Cursor # 0 => currentNode = s[Cursor]
<1>1. /\ Len(s) \in Nat /\ Items = [i \in 1 .. Len(s) |-> data[s[i]]]
      /\ \A i \in 1 .. Len(s) : s[i] \in Addresses /\ s[i] # NULL
      /\ \A i \in 1 .. Len(s) : currentNode = s[i] => Cursor = i
      /\ currentNode = NULL => Cursor = 0
  BY SpelledNodes DEF Viewed
<1>2. \A i \in 1 .. Len(s) : data[s[i]] \in Data \cup {NULL}
  BY <1>1 DEF ListInv
<1>3. Items \in Seq(Data \cup {NULL}) /\ Len(Items) = Len(s)
  BY <1>1, <1>2
<1>4. Items = <<>> <=> Len(s) = 0
  BY <1>1, <1>3, EmptySeq
<1>5. currentNode = NULL \/ \E i \in 1 .. Len(s) : currentNode = s[i]
  BY DEF ListInv, Spells
<1> QED
  BY <1>1, <1>3, <1>4, <1>5

(* Each call does to the sequence what CursorList does.                    *)
LEMMA AppendIsAdd ==
  ASSUME ListInv, Viewed, Viewed', NEW x \in Data, glist_append(x)
  PROVE  /\ CursorView!Add(x) /\ Items' = Append(Items, x)
         /\ currentNode = firstNode => currentNode' = firstNode'
<1>1. PICK s : Spells(s)
  BY DEF ListInv
<1>2. PICK new \in Addresses \ allocated :
         /\ Spells(Append(s, new))' /\ ListInv'
         /\ data' = [data EXCEPT ![new] = x]
         /\ currentNode' = IF s = <<>> THEN new ELSE currentNode
         /\ firstNode' = IF s = <<>> THEN new ELSE firstNode
         /\ ret' = NULL
  BY <1>1, AppendStep
<1> DEFINE t == Append(s, new)
           N == Len(s)
<1>3. /\ N \in Nat /\ (s = <<>> <=> N = 0) /\ s \in Seq(Addresses)
      /\ \A i \in 1 .. N : s[i] \in Addresses /\ s[i] # new
  BY <1>1, SpelledNodes DEF Spells
<1>4. /\ t \in Seq(Addresses) /\ Len(t) = N + 1
      /\ \A i \in 1 .. N : t[i] = s[i]
      /\ t[N + 1] = new
  BY <1>3, AppendProperties
<1>5. N < Cardinality(Addresses)
  <2>1. \A i, j \in 1 .. Len(t) : t[i] = t[j] => i = j
    BY <1>2 DEF Spells
  <2>2. Len(t) <= Cardinality(Addresses) /\ Cardinality(Addresses) \in Nat
    BY <1>4, <2>1, FewDistinct, AddressesAssumption
  <2> QED
    BY <1>3, <1>4, <2>2
<1>6. /\ Items = [i \in 1 .. N |-> data[s[i]]] /\ Len(Items) = N
      /\ Items \in Seq(Data \cup {NULL}) /\ (Items = <<>> <=> N = 0)
  BY <1>1, CursorPlace
<1>7. Items' = [i \in 1 .. N + 1 |-> data'[t[i]]]
  <2>1. Items' = [i \in 1 .. Len(t) |-> data'[t[i]]]
    BY <1>2 DEF Viewed
  <2> QED
    BY <1>4, <2>1
<1> HIDE DEF t
<1>8. Items' = Append(Items, x)
  <2>1. ASSUME NEW i \in 1 .. N + 1 PROVE data'[t[i]] = IF i = N + 1 THEN x ELSE Items[i]
    <3>1. CASE i = N + 1
      BY <1>2, <1>4, <3>1 DEF ListInv
    <3>2. CASE i \in 1 .. N
      BY <1>2, <1>3, <1>4, <1>6, <3>2
    <3> QED
      BY <1>3, <3>1, <3>2
  <2>2. Append(Items, x) = [i \in 1 .. N + 1 |-> IF i = N + 1 THEN x ELSE Items[i]]
    BY <1>6
  <2> QED
    BY <1>7, <2>1, <2>2
<1>9. Cursor' = IF Items = <<>> THEN 1 ELSE Cursor
  <2>1. \A i \in 1 .. N + 1 : currentNode' = t[i] => Cursor' = i
    BY <1>2, <1>4 DEF Viewed, t
  <2>2. currentNode' = NULL => Cursor' = 0
    BY <1>2 DEF Viewed
  <2>3. CASE s = <<>>
    BY <1>2, <1>3, <1>4, <1>6, <2>1, <2>3
  <2>4. CASE s # <<>>
    <3>1. /\ Cursor \in 0 .. N
          /\ Cursor = 0 <=> currentNode = NULL
          /\ Cursor # 0 => currentNode = s[Cursor]
      BY <1>1, CursorPlace
    <3>2. currentNode' = currentNode
      BY <1>2, <2>4
    <3>3. CASE Cursor = 0
      BY <1>3, <1>6, <2>2, <2>4, <3>1, <3>2, <3>3
    <3>4. CASE Cursor # 0
      <4>1. Cursor \in 1 .. N /\ Cursor \in 1 .. N + 1 /\ currentNode' = t[Cursor]
        BY <1>3, <1>4, <3>1, <3>2, <3>4
      <4> QED
        BY <1>3, <1>6, <2>1, <2>4, <4>1
    <3> QED
      BY <3>3, <3>4
  <2> QED
    BY <2>3, <2>4
<1> QED
  BY <1>2, <1>5, <1>6, <1>8, <1>9 DEF CursorView!Add
LEMMA ReadIsRead ==
  ASSUME ListInv, Viewed, Viewed',
         glist_rewind \/ glist_next \/ glist_prev \/ \E p \in Positions : glist_nth(p)
  PROVE  Items' = Items /\ CursorView!Next
<1>1. PICK s : Spells(s)
  BY DEF ListInv
<1>2. ListInv' /\ UNCHANGED <<nodeVars, firstNode, lastNode, length>> /\ Spells(s)'
  BY <1>1, ReadKeepsList, SpellsKept
<1> DEFINE N == Len(s)
<1>3. /\ N \in Nat /\ (s = <<>> <=> N = 0)
      /\ \A i \in 1 .. N : s[i] # NULL
      /\ \A i, j \in 1 .. N : s[i] = s[j] => i = j
      /\ length = N
      /\ firstNode = IF s = <<>> THEN NULL ELSE s[1]
      /\ \A i \in 1 .. N : /\ s[i] \in allocated
                           /\ next[s[i]] = IF i = N THEN NULL ELSE s[i + 1]
                           /\ prev[s[i]] = IF i = 1 THEN NULL ELSE s[i - 1]
  BY <1>1, SpelledNodes DEF Spells
<1>4. /\ Items = [i \in 1 .. N |-> data[s[i]]]
      /\ Len(Items) = N
      /\ Items = <<>> <=> N = 0
      /\ Cursor \in 0 .. N
      /\ Cursor = 0 <=> currentNode = NULL
      /\ Cursor # 0 => currentNode = s[Cursor]
  BY <1>1, CursorPlace
<1>5. /\ \A i \in 1 .. N : currentNode' = s[i] => Cursor' = i
      /\ currentNode' = NULL => Cursor' = 0
  BY <1>2 DEF Viewed
<1>6. Items' = Items
  <2>1. Items' = [i \in 1 .. N |-> data'[s[i]]]
    BY <1>2 DEF Viewed
  <2> QED
    BY <1>2, <1>4, <2>1 DEF nodeVars
<1>7. CASE glist_rewind
  <2>1. ret' = NULL /\ currentNode' = firstNode
    BY <1>7 DEF glist_rewind, rewindTo
  <2>2. Cursor' = IF Items = <<>> THEN 0 ELSE 1
    <3>1. N # 0 => 1 \in 1 .. N
      BY <1>3
    <3> QED
      BY <1>3, <1>4, <1>5, <2>1, <3>1
  <2> QED
    BY <1>6, <2>1, <2>2 DEF CursorView!Next, CursorView!Rewind
<1>8. ASSUME NEW link, NEW step \in {1, -1}, ReadAndMove(link),
             \A i \in 1 .. N : link[s[i]] = IF i + step \in 1 .. N THEN s[i + step] ELSE NULL
      PROVE  CursorView!Read(step)
  <2>1. CASE currentNode = NULL
    <3>1. currentNode' = NULL /\ ret' = NULL
      BY <1>8, <2>1, AddressesAssumption DEF ReadAndMove, listVars, ListInv
    <3> QED
      BY <1>4, <1>5, <1>6, <2>1, <3>1 DEF CursorView!Read
  <2>2. CASE currentNode # NULL
    <3>1. ret' = data[currentNode] /\ currentNode' = link[currentNode]
      BY <1>8, <2>2 DEF ReadAndMove
    <3>2. Cursor \in 1 .. N /\ Cursor # 0 /\ currentNode = s[Cursor]
      BY <1>3, <1>4, <2>2
    <3>3. ret' = Items[Cursor]
      BY <1>4, <3>1, <3>2
    <3>4. Cursor' = IF Cursor + step \in 1 .. N THEN Cursor + step ELSE 0
      BY <1>5, <1>8, <3>1, <3>2
    <3> QED
      BY <1>4, <1>6, <3>2, <3>3, <3>4 DEF CursorView!Read
  <2> QED
    BY <2>1, <2>2
<1>9. CASE glist_next
  <2>1. \A i \in 1 .. N : next[s[i]] = IF i + 1 \in 1 .. N THEN s[i + 1] ELSE NULL
    BY <1>3
  <2> QED
    BY <1>6, <1>8, <1>9, <2>1 DEF glist_next, CursorView!Next
<1>10. CASE glist_prev
  <2>1. \A i \in 1 .. N : prev[s[i]] = IF i + (-1) \in 1 .. N THEN s[i + (-1)] ELSE NULL
    <3>1. \A i \in 1 .. N : i + (-1) = i - 1 /\ (i - 1 \in 1 .. N <=> i # 1)
      BY <1>3
    <3> QED
      BY <1>3, <3>1
  <2> QED
    BY <1>6, <1>8, <1>10, <2>1 DEF glist_prev, CursorView!Next
<1>11. ASSUME NEW p \in Positions, glist_nth(p) PROVE CursorView!Nth(p)
  <2> DEFINE i == IF p < 0 THEN 1 ELSE p + 1
             k == IF p < 0 THEN 0 ELSE p
  <2>1. p \in Int
    BY PositionsAssumption
  <2>2. ret' = IF nth(p) = NULL THEN NULL ELSE data[nth(p)]
    BY <1>11 DEF glist_nth
  <2>3. UNCHANGED <<nodeVars, listVars>>
    BY <1>11 DEF glist_nth
  <2>4. nth(p) = IF i \in 1 .. N THEN s[i] ELSE NULL
    <3>1. CASE N < p
      BY <1>3, <2>1, <3>1 DEF nth
    <3>2. CASE ~(N < p)
      <4>1. k \in 0 .. N /\ k + 1 = i /\ (k < N <=> i \in 1 .. N)
        BY <1>3, <2>1, <3>2
      <4>2. nth(p) = Walk[k]
        BY <1>3, <3>2 DEF nth
      <4>3. Walk[k] = IF k < N THEN s[k + 1] ELSE NULL
        BY <1>1, <4>1, WalkVisits
      <4> HIDE DEF k, i
      <4> QED
        BY <4>1, <4>2, <4>3
    <3> QED
      BY <3>1, <3>2
  <2>5. ret' = IF i \in 1 .. Len(Items) THEN Items[i] ELSE NULL
    BY <1>3, <1>4, <2>2, <2>4
  <2>6. Cursor' = Cursor
    BY <1>4, <1>5, <2>3 DEF listVars
  <2> QED
    BY <1>6, <2>5, <2>6 DEF CursorView!Nth
<1> QED
  BY <1>6, <1>7, <1>9, <1>10, <1>11 DEF CursorView!Next

LEMMA UsedStep ==
  ASSUME ListInv, Viewed, Viewed', UsedNext PROVE CursorView!Next
<1>1. CASE \E x \in Data : glist_append(x)
  BY <1>1, AppendIsAdd DEF CursorView!Next
<1>2. CASE ~\E x \in Data : glist_append(x)
  BY <1>2, ReadIsRead DEF UsedNext
<1> QED
  BY <1>1, <1>2
-----------------------------------------------------------------------------
(* How far the loader is: after each pair of words the list holds the      *)
(* second words of the pairs read so far, the cursor stays on the first    *)
(* node until the handle is open, and no pair is left behind.              *)
Loading == phase \in {"load", "create_handle", "set_mode", "run"}

Loaded(n) == words = 2 * n /\ Items = [i \in 1 .. n |-> conf[2 * i]]

StartInv ==
  /\ ListInv
  /\ conf \in Files \cup {NoFile}
  /\ phase \in {"queue_init", "open"} =>
       words = 0 /\ Items = <<>> /\ currentNode = firstNode
  /\ Loading => /\ conf # NoFile
                /\ \E n \in Nat : Loaded(n) /\ words <= Len(conf)
                /\ phase # "load" => ~PairLeft
                /\ phase # "run" => currentNode = firstNode

LEMMA InitStart == Init /\ Viewed => StartInv
<1> SUFFICES ASSUME Init, Viewed PROVE StartInv
  OBVIOUS
<1>1. ListInv /\ Spells(<<>>)
  BY InitList DEF Init
<1>2. Items = <<>>
  BY <1>1, CursorPlace, EmptySeq
<1> QED
  BY <1>1, <1>2 DEF Init, StartInv, Loading, glist_init

LEMMA ConfWords ==
  ASSUME conf \in Files \cup {NoFile}, conf # NoFile
  PROVE  conf \in Seq(Words) /\ Len(conf) \in Nat
BY FilesAssumption, LenProperties

LEMMA StepStart ==
  ASSUME StartInv, Viewed, Viewed', [Next]_<<vars, startVars>>
  PROVE  StartInv'
<1>1. ASSUME UNCHANGED vars PROVE ListInv' /\ Items' = Items
  <2>1. PICK s : Spells(s)
    BY DEF StartInv, ListInv
  <2>2. UNCHANGED <<nodeVars, firstNode, lastNode, length, currentNode, fault>>
    BY <1>1 DEF vars, listVars
  <2>3. Spells(s)'
    BY <2>1, <2>2, SpellsKept
  <2>4. Items' = Items
    BY <2>1, <2>2, <2>3 DEF Viewed, nodeVars
  <2> QED
    BY <2>2, <2>3, <2>4 DEF StartInv, ListInv, nodeVars
<1>2. CASE InitQueue
  <2>1. /\ UNCHANGED vars /\ UNCHANGED <<conf, words, currentNode, firstNode>>
        /\ phase = "queue_init" /\ phase' = "open"
    BY <1>2 DEF InitQueue, Goto, vars, listVars
  <2> QED
    BY <1>1, <2>1 DEF StartInv, Loading
<1>3. CASE OpenFile
  <2>1. UNCHANGED vars /\ UNCHANGED <<conf, words, currentNode, firstNode>>
    BY <1>3 DEF OpenFile, vars, listVars
  <2>2. words = 0 /\ Items = <<>> /\ currentNode = firstNode
    BY <1>3 DEF OpenFile, Goto, StartInv
  <2>3. conf # NoFile => Loaded(0)' /\ words' <= Len(conf')
    <3>1. Items' = [i \in 1 .. 0 |-> conf'[2 * i]]
      BY <1>1, <2>1, <2>2
    <3> QED
      BY <2>1, <2>2, <3>1, ConfWords DEF Loaded, StartInv
  <2>4. phase' = IF conf = NoFile THEN "exit" ELSE "load"
    BY <1>3 DEF OpenFile, Goto
  <2> QED
    BY <1>1, <2>1, <2>2, <2>3, <2>4 DEF StartInv, Loading
<1>4. CASE LoadModule
  <2>1. /\ phase = "load" /\ phase' = "load" /\ conf' = conf
        /\ words' = words + 2 /\ PairLeft
        /\ nameWord \in Data /\ glist_append(nameWord)
    BY <1>4 DEF LoadModule, Goto
  <2>2. PICK n \in Nat : Loaded(n)
    BY <2>1 DEF StartInv, Loading
  <2>3. /\ Items' = Append(Items, nameWord) /\ ListInv'
        /\ currentNode' = firstNode'
    <3>1. ListInv /\ currentNode = firstNode
      BY <2>1 DEF StartInv, Loading
    <3>2. ListInv'
      BY <2>1, <3>1, UsedKeepsList DEF UsedNext
    <3> QED
      BY <2>1, <3>1, <3>2, AppendIsAdd
  <2>4. Loaded(n + 1)'
    <3>1. words' = 2 * (n + 1) /\ nameWord = conf[2 * (n + 1)]
      BY <2>1, <2>2 DEF Loaded, nameWord
    <3>2. Append(Items, nameWord) = [i \in 1 .. n + 1 |-> conf[2 * i]]
      <4> DEFINE g == [i \in 1 .. n + 1 |-> conf[2 * i]]
                 f == [i \in 1 .. n |-> conf[2 * i]]
      <4>1. Items = f /\ Len(f) = n
        BY <2>2 DEF Loaded
      <4>2. Append(f, nameWord) = [i \in 1 .. n + 1 |-> IF i = n + 1 THEN nameWord ELSE f[i]]
        BY <4>1
      <4>3. \A i \in 1 .. n + 1 : (IF i = n + 1 THEN nameWord ELSE f[i]) = conf[2 * i]
        BY <3>1
      <4> QED
        BY <4>1, <4>2, <4>3
    <3> QED
      BY <2>1, <2>3, <3>1, <3>2 DEF Loaded
  <2>5. words' <= Len(conf')
    BY <2>1 DEF PairLeft
  <2> QED
    BY <2>1, <2>3, <2>4, <2>5 DEF StartInv, Loading
<1>5. CASE insmod_fails
  BY <1>1, <1>5 DEF insmod_fails, Goto, StartInv, Loading, vars
<1>6. CASE AllLoaded
  BY <1>1, <1>6 DEF AllLoaded, Goto, StartInv, Loading, Loaded, PairLeft, vars, listVars
<1>7. CASE OpenHandle
  BY <1>1, <1>7 DEF OpenHandle, Goto, StartInv, Loading, Loaded, PairLeft, vars, listVars
<1>8. CASE FirstMessage
  BY <1>1, <1>8 DEF FirstMessage, Goto, StartInv, Loading, vars
<1>9. CASE Walking
  <2>1. /\ phase = "run" /\ phase' = phase /\ conf' = conf /\ words' = words
        /\ glist_rewind \/ glist_next
    BY <1>9 DEF Walking, startVars
  <2>2. ListInv' /\ Items' = Items
    BY <2>1, ReadKeepsList, ReadIsRead DEF StartInv
  <2> QED
    BY <2>1, <2>2 DEF StartInv, Loading, Loaded, PairLeft
<1>10. CASE Client
  <2>1. phase = "client" /\ phase' = phase /\ conf' = conf /\ UsedNext
    BY <1>10 DEF Client, startVars
  <2>2. ListInv'
    BY <2>1, UsedKeepsList DEF StartInv
  <2> QED
    BY <2>1, <2>2 DEF StartInv, Loading
<1>11. CASE Ended \/ UNCHANGED <<vars, startVars>>
  BY <1>1, <1>11 DEF Ended, StartInv, Loading, Loaded, PairLeft, vars, listVars, startVars
<1> QED
  BY <1>2, <1>3, <1>4, <1>5, <1>6, <1>7, <1>8, <1>9, <1>10, <1>11 DEF Next

-----------------------------------------------------------------------------
(* The inductive invariant: the nodes spell a sequence, and the loader has *)
(* filled it with every second word it has read.                           *)
THEOREM StartInvariance == Spec => []StartInv
<1>1. Viewed
  BY ViewedHolds
<1>2. Init /\ Viewed => StartInv
  BY InitStart
<1>3. StartInv /\ Viewed /\ Viewed' /\ [Next]_<<vars, startVars>> => StartInv'
  BY StepStart
<1> QED
  BY <1>1, <1>2, <1>3, PTL DEF Spec

(* The two directions of the list mirror each other, its end and its count *)
(* are right, no node is lost and no freed one is followed, however many   *)
(* nodes there are and in whatever order the calls come (glist.c:34-49).   *)
THEOREM WellLinkedHolds == Spec => []WellLinked
<1>1. Viewed
  BY ViewedHolds
<1>2. StartInv /\ Viewed => WellLinked
  BY SpelledIsLinked DEF StartInv
<1> QED
  BY <1>1, <1>2, StartInvariance, PTL

(* Whatever conf/modules.conf holds, no packet is read before the list is  *)
(* complete, and it is then what the file says, with the cursor on the     *)
(* first module (module.c:25-33, libero.c:44-70).                          *)
THEOREM LoadedInOrderHolds == Spec => []LoadedInOrder
<1>1. ASSUME StartInv, Viewed PROVE LoadedInOrder
  <2> SUFFICES ASSUME phase \in {"create_handle", "set_mode", "run"}
               PROVE  /\ conf # NoFile
                      /\ Items = EverySecond(conf)
                      /\ phase # "run" => Cursor = IF Items = <<>> THEN 0 ELSE 1
    BY DEF LoadedInOrder
  <2>1. PICK n \in Nat : Loaded(n) /\ words <= Len(conf)
    BY <1>1 DEF StartInv, Loading
  <2>2. conf # NoFile /\ ~PairLeft
    BY <1>1 DEF StartInv, Loading
  <2>3. Len(conf) \div 2 = n
    <3>1. Len(conf) \in Nat
      BY <1>1, <2>2, ConfWords DEF StartInv
    <3>2. 2 * n <= Len(conf) /\ Len(conf) < 2 * n + 2
      BY <2>1, <2>2, <3>1 DEF Loaded, PairLeft
    <3> QED
      BY <3>1, <3>2
  <2>4. Items = EverySecond(conf)
    BY <2>1, <2>3 DEF Loaded, EverySecond
  <2>5. ASSUME phase # "run" PROVE Cursor = IF Items = <<>> THEN 0 ELSE 1
    <3>1. PICK s : Spells(s)
      BY <1>1 DEF StartInv, ListInv
    <3>2. /\ Items = <<>> <=> Len(s) = 0
          /\ Cursor \in 0 .. Len(s)
          /\ Cursor = 0 <=> currentNode = NULL
      BY <1>1, <3>1, CursorPlace DEF StartInv
    <3>3. currentNode = IF s = <<>> THEN NULL ELSE s[1]
      BY <1>1, <2>5, <3>1 DEF StartInv, Loading, Spells
    <3>4. /\ \A i \in 1 .. Len(s) : currentNode = s[i] => Cursor = i
          /\ Len(s) \in Nat /\ (s = <<>> <=> Len(s) = 0)
      BY <1>1, <3>1, SpelledNodes DEF Viewed
    <3>5. Len(s) # 0 => 1 \in 1 .. Len(s)
      BY <3>4
    <3> QED
      BY <3>2, <3>3, <3>4, <3>5
  <2> QED
    BY <2>2, <2>4, <2>5
<1>2. Viewed
  BY ViewedHolds
<1>3. StartInv /\ Viewed => LoadedInOrder
  BY <1>1
<1> QED
  BY <1>2, <1>3, StartInvariance, PTL

(* Used as the daemon uses it, the heap structure is a list with a cursor: *)
(* rewinding and reading to the end visits every module once, in the order *)
(* of loading (module.c:25-27, libero.c:253-254).                          *)
THEOREM CursorListImplemented == Spec => ImplementsCursorList
<1>1. Viewed
  BY ViewedHolds
<1>2. Init /\ Viewed => CursorView!Init
  <2> SUFFICES ASSUME Init, Viewed PROVE Items = <<>> /\ Cursor = 0 /\ ret = NULL
    BY DEF CursorView!Init
  <2>1. ListInv /\ Spells(<<>>)
    BY InitList DEF Init
  <2>2. currentNode = NULL /\ ret = NULL
    BY DEF Init, glist_init
  <2> QED
    BY <2>1, <2>2, CursorPlace, EmptySeq
<1>3. StartInv /\ Viewed /\ Viewed' /\ [Next]_<<vars, startVars>>
        => [CursorView!Next]_(CursorView!vars)
  <2> SUFFICES ASSUME StartInv, Viewed, Viewed', [Next]_<<vars, startVars>>
               PROVE  CursorView!Next \/ UNCHANGED CursorView!vars
    OBVIOUS
  <2>1. ASSUME UNCHANGED vars PROVE UNCHANGED CursorView!vars
    BY <2>1 DEF CursorView!vars, vars, nodeVars, listVars, Items, Cursor, ChainLength, Walk
  <2>2. CASE UsedNext
    BY <2>2, UsedStep DEF StartInv
  <2>3. LoadModule \/ Walking \/ Client => UsedNext
    BY DEF LoadModule, Walking, Client, UsedNext
  <2>4. CASE ~(LoadModule \/ Walking \/ Client)
    <3>1. UNCHANGED vars
      BY <2>4 DEF Next, InitQueue, OpenFile, insmod_fails, AllLoaded, OpenHandle,
                  FirstMessage, Ended
    <3> QED
      BY <2>1, <3>1
  <2> QED
    BY <2>2, <2>3, <2>4
<1> QED
  BY <1>1, <1>2, <1>3, StartInvariance, PTL
     DEF Spec, ImplementsCursorList, CursorView!Spec
=============================================================================
