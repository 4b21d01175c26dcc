--------------------------- MODULE MemPoolProofs ---------------------------
(***************************************************************************)
(* The pool keeps its promises for any number of objects, any width of its *)
(* counters and any order of calls.  The two lists are threaded through    *)
(* the same items by next and prev; the proofs speak of each list as a     *)
(* sequence of items, and show once what a call on the links does to it.   *)
(***************************************************************************)
EXTENDS MemPool, SequenceTheorems, WellFoundedInduction, TLAPS

(* Every set of natural numbers has a least one, and what contains 0 and   *)
(* with each number the next one contains all of them.                     *)
LEMMA LeastNumber ==
  ASSUME NEW T, T \subseteq Nat, T # {}
  PROVE  \E x \in T : \A y \in T : x <= y
<1> DEFINE R == OpToRel(<, Nat)
<1>1. PICK x \in T : \A y \in T : <<y, x>> \notin R
  BY NatLessThanWellFounded, WFMin
<1>2. ASSUME NEW y \in T, y < x PROVE <<y, x>> \in R
  BY <1>2 DEF OpToRel
<1>3. \A y \in T : ~(y < x)
  BY <1>1, <1>2, Zenon
<1>4. \A y \in T : x <= y
  BY <1>3
<1> QED
  BY <1>4

LEMMA SetInduction ==
  ASSUME NEW S, 0 \in S, \A n \in Nat : n \in S => n + 1 \in S
  PROVE  Nat \subseteq S
<1> SUFFICES ASSUME Nat \ S # {} PROVE FALSE
  OBVIOUS
<1>1. PICK x \in Nat \ S : \A y \in Nat \ S : x <= y
  BY LeastNumber
<1>2. x # 0 /\ x - 1 \in Nat /\ x - 1 \in S
  BY <1>1
<1> QED
  BY <1>1, <1>2

-----------------------------------------------------------------------------
(* The links of list l in m run through the items of s, in both directions.*)
Chain(m, l, s) ==
  /\ s \in Seq(Objects)
  /\ \A i, j \in 1 .. Len(s) : s[i] = s[j] => i = j
  /\ m.size[l] = Len(s)
  /\ m.head[l] = IF s = <<>> THEN NULL ELSE s[1]
  /\ m.tail[l] = IF s = <<>> THEN NULL ELSE s[Len(s)]
  /\ \A i \in 1 .. Len(s) :
       /\ m.next[s[i]] = IF i = Len(s) THEN NULL ELSE s[i + 1]
       /\ m.prev[s[i]] = IF i = 1 THEN NULL ELSE s[i - 1]

(* Walking along next visits the items of s and then finds NULL.           *)
LEMMA WalkOf ==
  ASSUME NEW m, NEW l, NEW s, Chain(m, l, s), NEW k \in Nat \ {0}
  PROVE  Nth(m, l, k) = IF k <= Len(s) THEN s[k] ELSE NULL
<1> DEFINE w == [n \in 1 .. k |-> IF n <= Len(s) THEN s[n] ELSE NULL]
           rec(f) == [n \in 1 .. k |->
                        IF n = 1 THEN m.head[l]
                        ELSE IF f[n - 1] = NULL THEN NULL ELSE m.next[f[n - 1]]]
<1>1. /\ Len(s) \in Nat /\ (s = <<>> <=> Len(s) = 0)
      /\ \A n \in 1 .. Len(s) : s[n] \in Objects /\ s[n] # NULL
  BY NullAssumption, LenProperties, EmptySeq DEF Chain
<1>2. ASSUME NEW n \in 1 .. k
      PROVE  w[n] = IF n = 1 THEN m.head[l]
                    ELSE IF w[n - 1] = NULL THEN NULL ELSE m.next[w[n - 1]]
  <2>1. CASE n = 1
    BY <1>1, <2>1 DEF Chain
  <2>2. CASE n # 1
    <3>1. n - 1 \in 1 .. k /\ n - 1 \in Nat
      BY <2>2
    <3>2. CASE n - 1 <= Len(s)
      BY <1>1, <2>2, <3>1, <3>2 DEF Chain
    <3>3. CASE ~(n - 1 <= Len(s))
      BY <1>1, <2>2, <3>1, <3>3
    <3> QED
      BY <3>2, <3>3
  <2> QED
    BY <2>1, <2>2
<1>3. w = rec(w)
  BY <1>2
<1>4. ASSUME NEW f, f = rec(f) PROVE f[k] = w[k]
  <2> DEFINE S == {n \in Nat : n + 1 \in 1 .. k => f[n + 1] = w[n + 1]}
  <2>1. \A n \in 1 .. k : f[n] = IF n = 1 THEN m.head[l]
                                 ELSE IF f[n - 1] = NULL THEN NULL ELSE m.next[f[n - 1]]
    BY <1>4
  <2> HIDE DEF w, rec
  <2>2. 0 \in S
    BY <1>2, <2>1
  <2>3. ASSUME NEW n \in Nat, n \in S PROVE n + 1 \in S
    <3>1. CASE n + 2 \in 1 .. k
      <4>1. f[n + 1] = w[n + 1]
        BY <2>3, <3>1
      <4>2. n + 2 # 1 /\ (n + 2) - 1 = n + 1
        OBVIOUS
      <4>3. f[n + 2] = w[n + 2]
        BY <1>2, <2>1, <3>1, <4>1, <4>2
      <4> QED
        BY <4>3
    <3>2. CASE n + 2 \notin 1 .. k
      BY <3>2
    <3> QED
      BY <3>1, <3>2
  <2>4. Nat \subseteq S
    <3> HIDE DEF S
    <3> QED
      BY <2>2, <2>3, SetInduction
  <2>5. k - 1 \in S
    BY <2>4
  <2> QED
    BY <2>5
<1>5. Nth(m, l, k) = (CHOOSE f : f = rec(f))[k]
  BY DEF Nth
<1>6. (CHOOSE f : f = rec(f)) = rec(CHOOSE f : f = rec(f))
  <2> HIDE DEF w, rec
  <2> QED
    BY <1>3
<1>7. Nth(m, l, k) = w[k]
  <2> HIDE DEF w, rec
  <2> QED
    BY <1>4, <1>5, <1>6
<1> QED
  BY <1>7

(* What the run's invariant says of a list follows.                        *)
LEMMA ChainLinked ==
  ASSUME NEW m, NEW l, NEW s, Chain(m, l, s)
  PROVE  Linked(m, l) /\ Sequence(m, l) = s
<1>1. /\ Len(s) \in Nat /\ (s = <<>> <=> Len(s) = 0)
      /\ s = [n \in 1 .. Len(s) |-> s[n]] /\ m.size[l] = Len(s)
      /\ \A n \in 1 .. Len(s) : s[n] # NULL
  BY NullAssumption, LenProperties, EmptySeq DEF Chain
<1>2. \A k \in 1 .. Len(s) : Nth(m, l, k) = s[k]
  BY <1>1, WalkOf
<1>3. Nth(m, l, Len(s) + 1) = NULL
  BY <1>1, WalkOf
<1>4. Sequence(m, l) = s
  BY <1>1, <1>2 DEF Sequence
<1>5. Linked(m, l)
  BY <1>1, <1>2, <1>3 DEF Linked, Chain
<1> QED
  BY <1>4, <1>5

-----------------------------------------------------------------------------
(* The fields of the memory after a call.                                  *)
LEMMA MemoryFields ==
  ASSUME NEW m \in Memory
  PROVE  /\ m.data \in [Objects -> Objects \cup {NULL}]
         /\ m.next \in [Objects -> Objects \cup {NULL}]
         /\ m.prev \in [Objects -> Objects \cup {NULL}]
         /\ m.head \in [{"free", "used"} -> Objects \cup {NULL}]
         /\ m.tail \in [{"free", "used"} -> Objects \cup {NULL}]
         /\ m.size \in [{"free", "used"} -> Int]
BY DEF Memory, Pointers

Appended(r, m, l, d, new) ==
  /\ r \in Memory
  /\ r.data = [m.data EXCEPT ![new] = d]
  /\ r.next = [i \in Objects |-> IF i = m.tail[l] THEN new
                                 ELSE IF i = new THEN NULL ELSE m.next[i]]
  /\ r.prev = [m.prev EXCEPT ![new] = m.tail[l]]
  /\ r.head = [m.head EXCEPT ![l] = IF m.tail[l] = NULL THEN new ELSE @]
  /\ r.tail = [m.tail EXCEPT ![l] = new]
  /\ r.size = [m.size EXCEPT ![l] = @ + 1]

LEMMA AppendFields ==
  ASSUME NEW m \in Memory, NEW l \in {"free", "used"}, NEW d \in Objects,
         NEW new \in Objects,
         m.tail[l] # NULL => m.next[m.tail[l]] = NULL,
         m.tail[l] = NULL => m.size[l] = 0 /\ m.head[l] = NULL
  PROVE  Appended(sf_sdlist_append(m, l, d, new), m, l, d, new)
<1> DEFINE r == sf_sdlist_append(m, l, d, new)
           last == m.tail[l]
           first == last = NULL
           data == [m.data EXCEPT ![new] = d]
           nx == IF first THEN [m.next EXCEPT ![new] = m.head[l]]
                          ELSE [m.next EXCEPT ![new] = m.next[last], ![last] = new]
           prev == [m.prev EXCEPT ![new] = last]
           head == [m.head EXCEPT ![l] = IF first THEN new ELSE m.head[l]]
           tail == [m.tail EXCEPT ![l] = new]
           size == [m.size EXCEPT ![l] = m.size[l] + 1]
<1>1. /\ r.data = data /\ r.next = nx /\ r.prev = prev
      /\ r.head = head /\ r.tail = tail /\ r.size = size
      /\ r = [m EXCEPT !.data = data, !.next = nx, !.prev = prev,
                       !.head = head, !.tail = tail, !.size = size]
  BY DEF sf_sdlist_append, sf_sdlist_insert_next, Memory, Pointers
<1>2. last \in Objects \cup {NULL} /\ m.head[l] \in Objects \cup {NULL}
  BY MemoryFields
<1>3. nx = [i \in Objects |-> IF i = last THEN new
                              ELSE IF i = new THEN NULL ELSE m.next[i]]
  BY <1>2, NullAssumption, MemoryFields
<1>4. /\ data \in [Objects -> Objects \cup {NULL}]
      /\ nx \in [Objects -> Objects \cup {NULL}]
      /\ prev \in [Objects -> Objects \cup {NULL}]
      /\ head \in [{"free", "used"} -> Objects \cup {NULL}]
      /\ tail \in [{"free", "used"} -> Objects \cup {NULL}]
      /\ size \in [{"free", "used"} -> Int]
  BY <1>2, <1>3, MemoryFields
<1>5. r \in Memory
  <2> HIDE DEF r, data, nx, prev, head, tail, size
  <2> QED
    BY <1>1, <1>4 DEF Memory, Pointers
<1> QED
  BY <1>1, <1>3, <1>5 DEF Appended

Removed(r, m, l, item) ==
  /\ r \in Memory
  /\ r.data = m.data
  /\ r.prev = [i \in Objects |-> IF i = m.next[item] THEN m.prev[item] ELSE m.prev[i]]
  /\ r.next = [i \in Objects |-> IF i = m.prev[item] THEN m.next[item] ELSE m.next[i]]
  /\ r.head = [m.head EXCEPT ![l] = IF m.size[l] = 1 THEN NULL
                                    ELSE IF m.prev[item] = NULL THEN m.next[item] ELSE @]
  /\ r.tail = [m.tail EXCEPT ![l] = IF m.size[l] = 1 THEN NULL
                                    ELSE IF m.next[item] = NULL THEN m.prev[item] ELSE @]
  /\ r.size = [m.size EXCEPT ![l] = @ - 1]

LEMMA RemoveFields ==
  ASSUME NEW m \in Memory, NEW l \in {"free", "used"}, NEW item \in Objects
  PROVE  Removed(sf_sdlist_remove(m, l, item), m, l, item)
<1> DEFINE r == sf_sdlist_remove(m, l, item)
           prev == [i \in Objects |-> IF i = m.next[item] THEN m.prev[item] ELSE m.prev[i]]
           nx   == [i \in Objects |-> IF i = m.prev[item] THEN m.next[item] ELSE m.next[i]]
           head == [m.head EXCEPT ![l] = IF m.size[l] = 1 THEN NULL
                                         ELSE IF m.prev[item] = NULL THEN m.next[item] ELSE m.head[l]]
           tail == [m.tail EXCEPT ![l] = IF m.size[l] = 1 THEN NULL
                                         ELSE IF m.next[item] = NULL THEN m.prev[item] ELSE m.tail[l]]
           size == [m.size EXCEPT ![l] = m.size[l] - 1]
<1>1. /\ r.data = m.data /\ r.next = nx /\ r.prev = prev
      /\ r.head = head /\ r.tail = tail /\ r.size = size
      /\ r = [m EXCEPT !.data = m.data, !.next = nx, !.prev = prev,
                       !.head = head, !.tail = tail, !.size = size]
  BY DEF sf_sdlist_remove, newTail, Memory, Pointers
<1>2. /\ m.data \in [Objects -> Objects \cup {NULL}]
      /\ nx \in [Objects -> Objects \cup {NULL}]
      /\ prev \in [Objects -> Objects \cup {NULL}]
      /\ head \in [{"free", "used"} -> Objects \cup {NULL}]
      /\ tail \in [{"free", "used"} -> Objects \cup {NULL}]
      /\ size \in [{"free", "used"} -> Int]
  BY MemoryFields
<1>3. r \in Memory
  <2> HIDE DEF r, nx, prev, head, tail, size
  <2> QED
    BY <1>1, <1>2 DEF Memory, Pointers
<1> QED
  BY <1>1, <1>3 DEF Removed

-----------------------------------------------------------------------------
(* The chains after a call: the one it works on, and the other one.        *)
LEMMA ChainEnds ==
  ASSUME NEW m \in Memory, NEW l \in {"free", "used"}, NEW s, Chain(m, l, s)
  PROVE  /\ Len(s) \in Nat /\ DOMAIN s = 1 .. Len(s) /\ (s = <<>> <=> Len(s) = 0)
         /\ \A i \in 1 .. Len(s) : s[i] \in Objects /\ s[i] # NULL
         /\ m.tail[l] # NULL => m.next[m.tail[l]] = NULL
         /\ m.tail[l] = NULL <=> s = <<>>
         /\ m.tail[l] = NULL => m.size[l] = 0 /\ m.head[l] = NULL
<1>1. /\ Len(s) \in Nat /\ DOMAIN s = 1 .. Len(s) /\ (s = <<>> <=> Len(s) = 0)
      /\ \A i \in 1 .. Len(s) : s[i] \in Objects /\ s[i] # NULL
  BY NullAssumption, LenProperties, EmptySeq DEF Chain
<1>2. CASE Len(s) = 0
  BY <1>1, <1>2 DEF Chain
<1>3. CASE Len(s) # 0
  <2>1. Len(s) \in 1 .. Len(s)
    BY <1>1, <1>3
  <2> QED
    BY <1>1, <1>3, <2>1 DEF Chain
<1> QED
  BY <1>2, <1>3

LEMMA ChainAppend ==
  ASSUME NEW m \in Memory, NEW l \in {"free", "used"}, NEW d \in Objects,
         NEW new \in Objects, NEW s, Chain(m, l, s), new \notin Elements(s)
  PROVE  Chain(sf_sdlist_append(m, l, d, new), l, Append(s, new))
<1> DEFINE r == sf_sdlist_append(m, l, d, new)
           t == Append(s, new)
           last == m.tail[l]
           N == Len(s)
<1>1. /\ N \in Nat /\ (s = <<>> <=> N = 0) /\ s \in Seq(Objects)
      /\ \A i \in 1 .. N : s[i] \in Objects /\ s[i] # NULL /\ s[i] # new
      /\ last = NULL <=> N = 0
      /\ N > 0 => last = s[N]
      /\ new # NULL
  BY ChainEnds, NullAssumption DEF Chain, Elements
<1>2. /\ r.next = [i \in Objects |-> IF i = last THEN new
                                     ELSE IF i = new THEN NULL ELSE m.next[i]]
      /\ r.prev = [m.prev EXCEPT ![new] = last]
      /\ r.head = [m.head EXCEPT ![l] = IF last = NULL THEN new ELSE @]
      /\ r.tail = [m.tail EXCEPT ![l] = new]
      /\ r.size = [m.size EXCEPT ![l] = @ + 1]
  <2>1. /\ m.tail[l] # NULL => m.next[m.tail[l]] = NULL
        /\ m.tail[l] = NULL => m.size[l] = 0 /\ m.head[l] = NULL
    BY ChainEnds
  <2>2. Appended(r, m, l, d, new)
    BY <2>1, AppendFields, Zenon
  <2> QED
    BY <2>2 DEF Appended
<1>3. /\ t \in Seq(Objects) /\ Len(t) = N + 1 /\ t # <<>>
      /\ \A i \in 1 .. N : t[i] = s[i]
      /\ t[N + 1] = new
  BY <1>1, AppendProperties
<1>4. \A i \in 1 .. N + 1 : i \in 1 .. N \/ i = N + 1
  BY <1>1
<1> HIDE DEF r, t, last, N
<1> USE MemoryFields
<1>5. \A i, j \in 1 .. N + 1 : t[i] = t[j] => i = j
  BY <1>1, <1>3, <1>4 DEF Chain, N
<1>6. /\ r.size[l] = N + 1 /\ r.tail[l] = t[N + 1] /\ r.head[l] = t[1]
  <2>1. N = 0 => t[1] = new
    BY <1>3
  <2>2. N > 0 => t[1] = s[1] /\ m.head[l] = s[1]
    BY <1>1, <1>3 DEF Chain, N
  <2> QED
    BY <1>1, <1>2, <1>3, <2>1, <2>2 DEF Chain, N
<1>7. ASSUME NEW i \in 1 .. N + 1
      PROVE  /\ r.next[t[i]] = IF i = N + 1 THEN NULL ELSE t[i + 1]
             /\ r.prev[t[i]] = IF i = 1 THEN NULL ELSE t[i - 1]
  <2>1. CASE i = N + 1
    <3>1. t[i] = new /\ new # last
      BY <1>1, <1>3, <2>1
    <3>2. r.next[new] = NULL /\ r.prev[new] = last
      BY <1>2, <3>1
    <3>3. last = IF i = 1 THEN NULL ELSE t[i - 1]
      BY <1>1, <1>3, <2>1
    <3> QED
      BY <2>1, <3>1, <3>2, <3>3
  <2>2. CASE i \in 1 .. N
    <3>1. t[i] = s[i] /\ s[i] \in Objects /\ s[i] # new
      BY <1>1, <1>3, <2>2
    <3>2. r.prev[s[i]] = m.prev[s[i]] /\ m.prev[s[i]] = IF i = 1 THEN NULL ELSE s[i - 1]
      BY <1>2, <2>2, <3>1 DEF Chain, N
    <3>3. i # 1 => t[i - 1] = s[i - 1]
      BY <1>1, <1>3, <2>2
    <3>4. s[i] = last <=> i = N
      BY <1>1, <2>2 DEF Chain, N
    <3>5. m.next[s[i]] = IF i = N THEN NULL ELSE s[i + 1]
      BY <2>2 DEF Chain, N
    <3>6. r.next[s[i]] = IF i = N THEN new ELSE s[i + 1]
      BY <1>2, <3>1, <3>4, <3>5
    <3>7. t[i + 1] = IF i = N THEN new ELSE s[i + 1]
      BY <1>1, <1>3, <2>2
    <3> QED
      BY <1>1, <2>2, <3>1, <3>2, <3>3, <3>6, <3>7
  <2> QED
    BY <1>4, <2>1, <2>2
<1>8. Chain(r, l, t)
  BY <1>1, <1>3, <1>5, <1>6, <1>7 DEF Chain
<1> QED
  BY <1>8 DEF r, t

LEMMA BesideAppend ==
  ASSUME NEW m \in Memory, NEW l \in {"free", "used"}, NEW d \in Objects,
         NEW new \in Objects, NEW s, Chain(m, l, s),
         NEW k \in {"free", "used"}, k # l, NEW t, Chain(m, k, t),
         new \notin Elements(t), Elements(s) \cap Elements(t) = {}
  PROVE  Chain(sf_sdlist_append(m, l, d, new), k, t)
<1> DEFINE r == sf_sdlist_append(m, l, d, new)
           last == m.tail[l]
<1>1. /\ \A i \in 1 .. Len(t) : t[i] \in Objects /\ t[i] # NULL /\ t[i] # new /\ t[i] # last
      /\ last \in Objects \cup {NULL}
  <2>1. \A i \in 1 .. Len(t) : t[i] \in Objects /\ t[i] # NULL /\ t[i] \in Elements(t)
    BY ChainEnds DEF Elements
  <2>2. last = NULL \/ last \in Elements(s)
    BY ChainEnds DEF Elements, Chain
  <2> QED
    BY <2>1, <2>2, MemoryFields
<1>2. /\ r.next = [i \in Objects |-> IF i = last THEN new
                                     ELSE IF i = new THEN NULL ELSE m.next[i]]
      /\ r.prev = [m.prev EXCEPT ![new] = last]
      /\ r.head = [m.head EXCEPT ![l] = IF last = NULL THEN new ELSE @]
      /\ r.tail = [m.tail EXCEPT ![l] = new]
      /\ r.size = [m.size EXCEPT ![l] = @ + 1]
  <2>1. /\ m.tail[l] # NULL => m.next[m.tail[l]] = NULL
        /\ m.tail[l] = NULL => m.size[l] = 0 /\ m.head[l] = NULL
    BY ChainEnds
  <2>2. Appended(r, m, l, d, new)
    BY <2>1, AppendFields, Zenon
  <2> QED
    BY <2>2 DEF Appended
<1> HIDE DEF r, last
<1>3. /\ r.size[k] = m.size[k] /\ r.head[k] = m.head[k] /\ r.tail[k] = m.tail[k]
      /\ \A i \in 1 .. Len(t) : r.next[t[i]] = m.next[t[i]] /\ r.prev[t[i]] = m.prev[t[i]]
  BY <1>1, <1>2, MemoryFields
<1>4. Chain(r, k, t)
  BY <1>3 DEF Chain
<1> QED
  BY <1>4 DEF r
Without(s, j) == [i \in 1 .. Len(s) - 1 |-> IF i < j THEN s[i] ELSE s[i + 1]]

LEMMA WithoutFacts ==
  ASSUME NEW s \in Seq(Objects), NEW j \in 1 .. Len(s),
         \A a, b \in 1 .. Len(s) : s[a] = s[b] => a = b
  PROVE  /\ Without(s, j) \in Seq(Objects)
         /\ Len(Without(s, j)) = Len(s) - 1
         /\ Elements(Without(s, j)) = Elements(s) \ {s[j]}
<1> DEFINE t == Without(s, j)
           N == Len(s)
<1>1. /\ N \in Nat /\ N - 1 \in Nat /\ DOMAIN s = 1 .. N
      /\ \A i \in 1 .. N : s[i] \in Objects
  BY LenProperties
<1>2. /\ DOMAIN t = 1 .. N - 1
      /\ \A i \in 1 .. N - 1 : t[i] = (IF i < j THEN s[i] ELSE s[i + 1]) /\ t[i] \in Objects
  BY <1>1 DEF Without
<1>3. t \in Seq(Objects) /\ Len(t) = N - 1
  <2>1. t = [i \in 1 .. N - 1 |-> t[i]]
    BY DEF Without
  <2> HIDE DEF t
  <2> QED
    BY <1>1, <1>2, <2>1
<1>4. Elements(t) \subseteq Elements(s) \ {s[j]}
  <2> SUFFICES ASSUME NEW i \in 1 .. N - 1 PROVE t[i] \in Elements(s) \ {s[j]}
    BY <1>2 DEF Elements
  <2>1. CASE i < j
    BY <1>1, <1>2, <2>1 DEF Elements
  <2>2. CASE ~(i < j)
    <3>1. i + 1 \in 1 .. N /\ i + 1 # j /\ t[i] = s[i + 1]
      BY <1>1, <1>2, <2>2
    <3> QED
      BY <1>1, <3>1 DEF Elements
  <2> QED
    BY <2>1, <2>2
<1>5. Elements(s) \ {s[j]} \subseteq Elements(t)
  <2> SUFFICES ASSUME NEW i \in 1 .. N, i # j PROVE s[i] \in Elements(t)
    BY <1>1 DEF Elements
  <2>1. CASE i < j
    <3>1. i \in 1 .. N - 1 /\ t[i] = s[i]
      BY <1>1, <1>2, <2>1
    <3> QED
      BY <1>2, <3>1 DEF Elements
  <2>2. CASE ~(i < j)
    <3>1. i - 1 \in 1 .. N - 1 /\ t[i - 1] = s[i]
      BY <1>1, <1>2, <2>2
    <3> QED
      BY <1>2, <3>1 DEF Elements
  <2> QED
    BY <2>1, <2>2
<1> QED
  BY <1>3, <1>4, <1>5

LEMMA ChainRemove ==
  ASSUME NEW m \in Memory, NEW l \in {"free", "used"}, NEW s, Chain(m, l, s),
         NEW j \in 1 .. Len(s)
  PROVE  Chain(sf_sdlist_remove(m, l, s[j]), l, Without(s, j))
<1> DEFINE item == s[j]
           r == sf_sdlist_remove(m, l, item)
           t == Without(s, j)
           N == Len(s)
<1>1. /\ N \in Nat /\ (s = <<>> <=> N = 0) /\ s \in Seq(Objects) /\ j \in 1 .. N
      /\ \A i \in 1 .. N : s[i] \in Objects /\ s[i] # NULL
      /\ m.size[l] = N /\ m.head[l] = s[1] /\ m.tail[l] = s[N]
      /\ \A i, k \in 1 .. N : s[i] = s[k] => i = k
      /\ item \in Objects
      /\ m.next[item] = IF j = N THEN NULL ELSE s[j + 1]
      /\ m.prev[item] = IF j = 1 THEN NULL ELSE s[j - 1]
  BY ChainEnds DEF Chain
<1>2. Removed(r, m, l, item)
  BY <1>1, RemoveFields, Zenon
<1>3. /\ t \in Seq(Objects) /\ Len(t) = N - 1 /\ (t = <<>> <=> N = 1)
      /\ \A i \in 1 .. N - 1 : t[i] = IF i < j THEN s[i] ELSE s[i + 1]
  <2>1. t \in Seq(Objects) /\ Len(t) = N - 1
    BY <1>1, WithoutFacts
  <2>2. t = <<>> <=> Len(t) = 0
    BY <2>1, EmptySeq
  <2>3. \A i \in 1 .. N - 1 : t[i] = IF i < j THEN s[i] ELSE s[i + 1]
    BY <1>1 DEF Without
  <2> QED
    BY <1>1, <2>1, <2>2, <2>3
<1>4. \A i \in 1 .. N : m.next[s[i]] = IF i = N THEN NULL ELSE s[i + 1]
  BY DEF Chain
<1>5. \A i \in 1 .. N : m.prev[s[i]] = IF i = 1 THEN NULL ELSE s[i - 1]
  BY DEF Chain
<1> HIDE DEF r, t, N, item
<1> USE MemoryFields
<1>6. \A i, k \in 1 .. N - 1 : t[i] = t[k] => i = k
  BY <1>1, <1>3
<1>7. /\ r.size[l] = Len(t)
      /\ r.head[l] = IF t = <<>> THEN NULL ELSE t[1]
      /\ r.tail[l] = IF t = <<>> THEN NULL ELSE t[Len(t)]
  <2>1. r.size[l] = N - 1
    BY <1>1, <1>2 DEF Removed
  <2>2. r.head[l] = IF N = 1 THEN NULL ELSE IF j = 1 THEN s[2] ELSE s[1]
    <3>1. j # 1 => j - 1 \in 1 .. N
      BY <1>1
    <3>2. m.prev[item] = NULL <=> j = 1
      BY <1>1, <3>1
    <3>3. r.head[l] = IF N = 1 THEN NULL ELSE IF m.prev[item] = NULL THEN m.next[item] ELSE m.head[l]
      BY <1>1, <1>2 DEF Removed
    <3>4. N # 1 /\ j = 1 => m.next[item] = s[2]
      BY <1>1
    <3> QED
      BY <1>1, <3>2, <3>3, <3>4
  <2>3. r.tail[l] = IF N = 1 THEN NULL ELSE IF j = N THEN s[N - 1] ELSE s[N]
    <3>1. j # N => j + 1 \in 1 .. N
      BY <1>1
    <3>2. m.next[item] = NULL <=> j = N
      BY <1>1, <3>1
    <3>3. r.tail[l] = IF N = 1 THEN NULL ELSE IF m.next[item] = NULL THEN m.prev[item] ELSE m.tail[l]
      BY <1>1, <1>2 DEF Removed
    <3> QED
      BY <1>1, <3>2, <3>3
  <2>4. N # 1 => t[1] = IF j = 1 THEN s[2] ELSE s[1]
    BY <1>1, <1>3
  <2>5. N # 1 => t[N - 1] = IF j = N THEN s[N - 1] ELSE s[N]
    BY <1>1, <1>3
  <2> QED
    BY <1>3, <2>1, <2>2, <2>3, <2>4, <2>5
<1>8. ASSUME NEW i \in 1 .. N - 1
      PROVE  /\ r.next[t[i]] = IF i = N - 1 THEN NULL ELSE t[i + 1]
             /\ r.prev[t[i]] = IF i = 1 THEN NULL ELSE t[i - 1]
  <2>1. \A o \in Objects : /\ r.next[o] = IF o = m.prev[item] THEN m.next[item] ELSE m.next[o]
                           /\ r.prev[o] = IF o = m.next[item] THEN m.prev[item] ELSE m.prev[o]
    BY <1>2 DEF Removed
  <2>2. /\ i \in 1 .. N /\ i + 1 \in 1 .. N
        /\ i # N - 1 => i + 1 \in 1 .. N - 1 /\ i + 2 \in 1 .. N
        /\ i # 1 => i - 1 \in 1 .. N - 1
    BY <1>1
  <2>3. CASE i < j
    <3>1. t[i] = s[i] /\ s[i] \in Objects
      BY <1>1, <1>3, <2>2, <2>3
    <3>2. s[i] = m.prev[item] <=> i = j - 1
      BY <1>1, <2>2, <2>3
    <3>3. s[i] # m.next[item]
      BY <1>1, <2>2, <2>3
    <3>4. r.next[s[i]] = IF i = j - 1 THEN (IF j = N THEN NULL ELSE s[j + 1]) ELSE s[i + 1]
      BY <1>1, <1>4, <2>1, <2>2, <2>3, <3>1, <3>2
    <3>5. i # N - 1 => t[i + 1] = IF i = j - 1 THEN s[i + 2] ELSE s[i + 1]
      BY <1>1, <1>3, <2>2, <2>3
    <3>6. r.prev[s[i]] = IF i = 1 THEN NULL ELSE s[i - 1]
      BY <1>5, <2>1, <2>2, <3>1, <3>3
    <3>7. i # 1 => t[i - 1] = s[i - 1]
      BY <1>1, <1>3, <2>2, <2>3
    <3>8. r.next[t[i]] = IF i = N - 1 THEN NULL ELSE t[i + 1]
      BY <1>1, <2>2, <2>3, <3>1, <3>4, <3>5
    <3> QED
      BY <3>1, <3>6, <3>7, <3>8
  <2>4. CASE ~(i < j)
    <3>1. t[i] = s[i + 1] /\ s[i + 1] \in Objects
      BY <1>1, <1>3, <2>2, <2>4
    <3>2. s[i + 1] # m.prev[item]
      BY <1>1, <2>2, <2>4
    <3>3. s[i + 1] = m.next[item] <=> i = j
      BY <1>1, <2>2, <2>4
    <3>4. r.next[s[i + 1]] = IF i = N - 1 THEN NULL ELSE s[i + 2]
      BY <1>1, <1>4, <2>1, <2>2, <3>1, <3>2
    <3>5. i # N - 1 => t[i + 1] = s[i + 2]
      BY <1>1, <1>3, <2>2, <2>4
    <3>6. r.prev[s[i + 1]] = IF i = j THEN (IF j = 1 THEN NULL ELSE s[j - 1]) ELSE s[i]
      BY <1>1, <1>5, <2>1, <2>2, <3>1, <3>3
    <3>7. i # 1 => t[i - 1] = IF i = j THEN s[i - 1] ELSE s[i]
      BY <1>1, <1>3, <2>2, <2>4
    <3>8. r.prev[t[i]] = IF i = 1 THEN NULL ELSE t[i - 1]
      BY <1>1, <2>2, <2>4, <3>1, <3>6, <3>7
    <3> QED
      BY <3>1, <3>4, <3>5, <3>8
  <2> QED
    BY <2>3, <2>4
<1>9. Chain(r, l, t)
  BY <1>3, <1>6, <1>7, <1>8 DEF Chain
<1> QED
  BY <1>9 DEF r, t, item

LEMMA BesideRemove ==
  ASSUME NEW m \in Memory, NEW l \in {"free", "used"}, NEW s, Chain(m, l, s),
         NEW j \in 1 .. Len(s),
         NEW k \in {"free", "used"}, k # l, NEW t, Chain(m, k, t),
         Elements(s) \cap Elements(t) = {}
  PROVE  Chain(sf_sdlist_remove(m, l, s[j]), k, t)
<1> DEFINE item == s[j]
           r == sf_sdlist_remove(m, l, item)
<1>1. item \in Objects
  BY ChainEnds
<1>2. \A i \in 1 .. Len(t) : t[i] \in Objects /\ t[i] # m.next[item] /\ t[i] # m.prev[item]
  <2>1. \A i \in 1 .. Len(t) : t[i] \in Objects /\ t[i] # NULL /\ t[i] \in Elements(t)
    BY ChainEnds DEF Elements
  <2>2. \A i \in 1 .. Len(s) : s[i] \in Elements(s)
    BY ChainEnds DEF Elements
  <2>3. /\ m.next[item] = NULL \/ m.next[item] \in Elements(s)
        /\ m.prev[item] = NULL \/ m.prev[item] \in Elements(s)
    <3>1. Len(s) \in Nat
      BY ChainEnds
    <3>2. /\ j = Len(s) \/ j + 1 \in 1 .. Len(s)
          /\ j = 1 \/ j - 1 \in 1 .. Len(s)
      BY <3>1
    <3> QED
      BY <2>2, <3>2 DEF Chain
  <2> QED
    BY <2>1, <2>3
<1>3. Removed(r, m, l, item)
  BY <1>1, RemoveFields, Zenon
<1> HIDE DEF r, item
<1>4. /\ r.size[k] = m.size[k] /\ r.head[k] = m.head[k] /\ r.tail[k] = m.tail[k]
      /\ \A i \in 1 .. Len(t) : r.next[t[i]] = m.next[t[i]] /\ r.prev[t[i]] = m.prev[t[i]]
  BY <1>2, <1>3, MemoryFields DEF Removed
<1>5. Chain(r, k, t)
  BY <1>4 DEF Chain
<1> QED
  BY <1>5 DEF r, item
-----------------------------------------------------------------------------
(* mempool_init's loop: after n rounds free_list holds the first n items.  *)
Numbers(n) == [k \in 1 .. n |-> k - 1]

LEMMA NumbersFacts ==
  ASSUME NEW n \in Nat, n <= NumObjects
  PROVE  /\ Numbers(n) \in Seq(Objects) /\ Len(Numbers(n)) = n
         /\ Elements(Numbers(n)) = 0 .. n - 1
<1> USE SizeAssumption DEF Objects
<1>1. \A k \in 1 .. n : k - 1 \in Objects
  OBVIOUS
<1>2. Numbers(n) \in Seq(Objects) /\ Len(Numbers(n)) = n
  BY <1>1 DEF Numbers
<1>3. ASSUME NEW b \in 0 .. n - 1 PROVE b \in Elements(Numbers(n))
  <2>1. b + 1 \in 1 .. n /\ Numbers(n)[b + 1] = b
    BY DEF Numbers
  <2> QED
    BY <2>1 DEF Elements, Numbers
<1>4. Elements(Numbers(n)) \subseteq 0 .. n - 1
  BY DEF Elements, Numbers
<1> QED
  BY <1>2, <1>3, <1>4

LEMMA NumbersAppend ==
  ASSUME NEW n \in Nat, n < NumObjects
  PROVE  Append(Numbers(n), n) = Numbers(n + 1)
<1>1. n \in Objects /\ n <= NumObjects /\ n + 1 <= NumObjects
  BY SizeAssumption DEF Objects
<1>2. Numbers(n) \in Seq(Objects) /\ Len(Numbers(n)) = n
  BY <1>1, NumbersFacts
<1>3. Numbers(n + 1) \in Seq(Objects) /\ Len(Numbers(n + 1)) = n + 1
  BY <1>1, NumbersFacts
<1> DEFINE t == Append(Numbers(n), n)
<1>4. /\ t \in Seq(Objects) /\ Len(t) = n + 1
      /\ \A k \in 1 .. n : t[k] = Numbers(n)[k]
      /\ t[n + 1] = n
  BY <1>1, <1>2, AppendProperties
<1>5. \A k \in 1 .. n + 1 : t[k] = Numbers(n + 1)[k]
  BY <1>4 DEF Numbers
<1> HIDE DEF t
<1>6. t = Numbers(n + 1)
  BY <1>3, <1>4, <1>5, SeqEqual
<1> QED
  BY <1>6 DEF t

LEMMA FilledRounds ==
  /\ Filled[0] = sf_sdlist_init
  /\ \A n \in 0 .. NumObjects - 1 :
       Filled[n + 1] = sf_sdlist_append(Filled[n], "free", n, n)
<1> DEFINE step(g, n) == IF n = 0 THEN sf_sdlist_init
                         ELSE sf_sdlist_append(g[n - 1], "free", n - 1, n - 1)
           upTo(k) == \E g : g = [n \in 0 .. k |-> step(g, n)]
           S == {k \in Nat : upTo(k)}
<1>1. 0 \in S
  <2> DEFINE g == [n \in 0 .. 0 |-> sf_sdlist_init]
  <2>1. \A n \in 0 .. 0 : sf_sdlist_init = step(g, n)
    OBVIOUS
  <2>2. g = [n \in 0 .. 0 |-> step(g, n)]
    <3> HIDE DEF step
    <3> QED
      BY <2>1
  <2>3. upTo(0)
    <3> HIDE DEF step, g
    <3> QED
      BY <2>2
  <2> QED
    BY <2>3
<1>2. ASSUME NEW k \in Nat, k \in S PROVE k + 1 \in S
  <2>1. PICK g : g = [n \in 0 .. k |-> step(g, n)]
    BY <1>2
  <2> DEFINE h == [n \in 0 .. k + 1 |-> IF n = k + 1 THEN step(g, k + 1) ELSE g[n]]
  <2>2. \A n \in 0 .. k : g[n] = step(g, n)
    BY <2>1, Zenon
  <2>3. ASSUME NEW n \in 0 .. k + 1 PROVE h[n] = step(h, n)
    <3>1. CASE n = 0
      BY <2>2, <3>1
    <3>2. CASE n # 0
      <4>1. n - 1 \in 0 .. k /\ n - 1 # k + 1
        BY <3>2
      <4>2. h[n - 1] = g[n - 1]
        BY <4>1
      <4>3. step(h, n) = step(g, n)
        BY <3>2, <4>2
      <4>4. h[n] = step(g, n)
        <5>1. CASE n = k + 1
          BY <5>1
        <5>2. CASE n # k + 1
          BY <2>2, <5>2
        <5> QED
          BY <5>1, <5>2
      <4> QED
        BY <4>3, <4>4
    <3> QED
      BY <3>1, <3>2
  <2>4. h = [n \in 0 .. k + 1 |-> step(h, n)]
    <3> HIDE DEF step
    <3> QED
      BY <2>3
  <2>5. upTo(k + 1)
    <3> HIDE DEF step, h
    <3> QED
      BY <2>4
  <2> HIDE DEF upTo
  <2> QED
    BY <2>5
<1>3. NumObjects \in S
  <2>1. Nat \subseteq S
    <3> HIDE DEF S
    <3> QED
      BY <1>1, <1>2, SetInduction
  <2> QED
    BY <2>1, SizeAssumption
<1>4. PICK g : g = [n \in 0 .. NumObjects |-> step(g, n)]
  BY <1>3
<1>5. Filled = CHOOSE f : f = [n \in 0 .. NumObjects |-> step(f, n)]
  BY Zenon DEF Filled
<1>6. Filled = [n \in 0 .. NumObjects |-> step(Filled, n)]
  <2> HIDE DEF step
  <2> QED
    BY <1>4, <1>5
<1>7. \A n \in 0 .. NumObjects : Filled[n] = step(Filled, n)
  <2> HIDE DEF step
  <2> QED
    BY <1>6
<1>8. Filled[0] = sf_sdlist_init
  BY <1>7, SizeAssumption
<1>9. ASSUME NEW n \in 0 .. NumObjects - 1
      PROVE  Filled[n + 1] = sf_sdlist_append(Filled[n], "free", n, n)
  <2>1. n + 1 \in 0 .. NumObjects /\ n + 1 # 0 /\ (n + 1) - 1 = n
    BY SizeAssumption
  <2>2. Filled[n + 1] = step(Filled, n + 1)
    BY <1>7, <2>1
  <2> HIDE <1>7
  <2> QED
    BY <2>1, <2>2
<1> QED
  BY <1>8, <1>9

LEMMA EmptyMemory ==
  /\ sf_sdlist_init \in Memory
  /\ Chain(sf_sdlist_init, "free", <<>>) /\ Chain(sf_sdlist_init, "used", <<>>)
BY DEF sf_sdlist_init, Memory, Pointers, Chain

(* The state mempool_init's loop leaves after n rounds.                    *)
Rounds(n) ==
  /\ Filled[n] \in Memory
  /\ Chain(Filled[n], "free", Numbers(n))
  /\ Chain(Filled[n], "used", <<>>)
  /\ \A b \in 0 .. n - 1 : Filled[n].data[b] = b

LEMMA FilledHolds == Rounds(NumObjects)
<1> DEFINE S == {n \in Nat : n <= NumObjects => Rounds(n)}
<1>1. 0 \in S
  <2>1. Numbers(0) = <<>>
    BY NumbersFacts, SizeAssumption, EmptySeq
  <2> QED
    BY <2>1, FilledRounds, EmptyMemory DEF Rounds
<1>2. ASSUME NEW n \in Nat, n \in S PROVE n + 1 \in S
  <2> SUFFICES ASSUME n + 1 <= NumObjects PROVE Rounds(n + 1)
    OBVIOUS
  <2> DEFINE m == Filled[n]
             r == Filled[n + 1]
  <2>1. /\ n \in 0 .. NumObjects - 1 /\ n \in Objects /\ n < NumObjects /\ n <= NumObjects
        /\ r = sf_sdlist_append(m, "free", n, n)
    BY FilledRounds, SizeAssumption DEF Objects
  <2>2. /\ m \in Memory /\ Chain(m, "free", Numbers(n)) /\ Chain(m, "used", <<>>)
        /\ \A b \in 0 .. n - 1 : m.data[b] = b
    BY <1>2, <2>1 DEF Rounds
  <2>3. /\ n \notin Elements(Numbers(n)) /\ n \notin Elements(<<>>)
        /\ Elements(Numbers(n)) \cap Elements(<<>>) = {}
    <3>1. Elements(<<>>) = {}
      BY DEF Elements
    <3>2. Elements(Numbers(n)) = 0 .. n - 1
      BY <2>1, NumbersFacts
    <3> QED
      BY <3>1, <3>2
  <2> HIDE DEF m, r
  <2>4. Chain(r, "free", Append(Numbers(n), n))
    BY <2>1, <2>2, <2>3, ChainAppend
  <2>5. Chain(r, "used", <<>>)
    BY <2>1, <2>2, <2>3, BesideAppend
  <2>6. Appended(r, m, "free", n, n)
    <3>1. /\ m.tail["free"] # NULL => m.next[m.tail["free"]] = NULL
          /\ m.tail["free"] = NULL => m.size["free"] = 0 /\ m.head["free"] = NULL
      BY <2>2, ChainEnds
    <3> QED
      BY <2>1, <2>2, <3>1, AppendFields
  <2>7. r \in Memory /\ \A b \in 0 .. (n + 1) - 1 : r.data[b] = b
    <3>1. ASSUME NEW b \in 0 .. (n + 1) - 1 PROVE r.data[b] = b
      <4>1. b \in Objects /\ (b = n \/ b \in 0 .. n - 1)
        BY <2>1, SizeAssumption DEF Objects
      <4> QED
        BY <2>1, <2>2, <2>6, <4>1, MemoryFields DEF Appended
    <3> QED
      BY <2>6, <3>1 DEF Appended
  <2> QED
    BY <2>1, <2>4, <2>5, <2>7, NumbersAppend DEF Rounds, r
<1>3. NumObjects \in S
  <2>1. Nat \subseteq S
    <3> HIDE DEF S
    <3> QED
      BY <1>1, <1>2, SetInduction
  <2> QED
    BY <2>1, SizeAssumption
<1> QED
  BY <1>3, SizeAssumption
-----------------------------------------------------------------------------
(* An item taken out of one list and appended to the other.                *)
Moved(m, l, k, o) == sf_sdlist_append(sf_sdlist_remove(m, l, o), k, o, o)

LEMMA MoveChains ==
  ASSUME NEW m \in Memory, NEW l \in {"free", "used"}, NEW k \in {"free", "used"}, k # l,
         NEW s, Chain(m, l, s), NEW t, Chain(m, k, t),
         Elements(s) \cap Elements(t) = {}, NEW j \in 1 .. Len(s),
         \A b \in Objects : m.data[b] = b
  PROVE  /\ Moved(m, l, k, s[j]) \in Memory
         /\ Chain(Moved(m, l, k, s[j]), l, Without(s, j))
         /\ Chain(Moved(m, l, k, s[j]), k, Append(t, s[j]))
         /\ \A b \in Objects : Moved(m, l, k, s[j]).data[b] = b
<1> DEFINE o == s[j]
           v == Without(s, j)
           q == sf_sdlist_remove(m, l, o)
           r == sf_sdlist_append(q, k, o, o)
<1>1. o \in Objects /\ o \in Elements(s) /\ o \notin Elements(t) /\ o \notin Elements(v)
      /\ Elements(v) \cap Elements(t) = {}
  <2>1. o \in Objects /\ o \in Elements(s)
    BY ChainEnds DEF Elements
  <2>2. Elements(v) = Elements(s) \ {o}
    BY WithoutFacts DEF Chain
  <2> QED
    BY <2>1, <2>2
<1>2. Removed(q, m, l, o)
  BY <1>1, RemoveFields, Zenon
<1>3. q \in Memory /\ q.data = m.data
  BY <1>2 DEF Removed
<1>4. Chain(q, l, v)
  BY ChainRemove
<1>5. Chain(q, k, t)
  BY BesideRemove
<1> HIDE DEF q, o, v
<1>6. Chain(r, k, Append(t, o))
  BY <1>1, <1>3, <1>5, ChainAppend
<1>7. Chain(r, l, v)
  BY <1>1, <1>3, <1>4, <1>5, BesideAppend
<1>8. Appended(r, q, k, o, o)
  <2>1. /\ q.tail[k] # NULL => q.next[q.tail[k]] = NULL
        /\ q.tail[k] = NULL => q.size[k] = 0 /\ q.head[k] = NULL
    BY <1>3, <1>5, ChainEnds
  <2> QED
    BY <1>1, <1>3, <2>1, AppendFields
<1>9. r \in Memory /\ \A b \in Objects : r.data[b] = b
  BY <1>1, <1>3, <1>8, MemoryFields DEF Appended
<1> QED
  BY <1>6, <1>7, <1>9 DEF Moved, q, o, v

LEMMA AppendElements ==
  ASSUME NEW s \in Seq(Objects), NEW o \in Objects
  PROVE  /\ Append(s, o) \in Seq(Objects) /\ Len(Append(s, o)) = Len(s) + 1
         /\ Elements(Append(s, o)) = Elements(s) \cup {o}
<1> DEFINE t == Append(s, o)
           N == Len(s)
<1>1. /\ N \in Nat /\ DOMAIN s = 1 .. N
      /\ t \in Seq(Objects) /\ Len(t) = N + 1 /\ DOMAIN t = 1 .. N + 1
      /\ \A i \in 1 .. N : t[i] = s[i]
      /\ t[N + 1] = o
  BY AppendProperties, LenProperties
<1> HIDE DEF t, N
<1>2. \A i \in 1 .. N + 1 : t[i] \in Elements(s) \cup {o}
  BY <1>1 DEF Elements
<1>3. \A i \in 1 .. N : s[i] \in Elements(t)
  <2> SUFFICES ASSUME NEW i \in 1 .. N PROVE s[i] \in Elements(t)
    OBVIOUS
  <2>1. i \in DOMAIN t /\ t[i] = s[i]
    BY <1>1
  <2> QED
    BY <2>1 DEF Elements
<1>4. o \in Elements(t)
  <2>1. N + 1 \in DOMAIN t
    BY <1>1
  <2> QED
    BY <1>1, <2>1 DEF Elements
<1>5. Elements(t) = Elements(s) \cup {o}
  BY <1>1, <1>2, <1>3, <1>4 DEF Elements
<1> QED
  BY <1>1, <1>5 DEF t, N

LEMMA WithoutFirst ==
  ASSUME NEW s \in Seq(Objects), s # <<>>
  PROVE  Without(s, 1) = Tail(s) /\ Head(s) = s[1] /\ 1 \in 1 .. Len(s)
<1>1. Len(s) \in Nat /\ Len(s) # 0
  BY LenProperties, EmptySeq
<1>2. /\ Tail(s) \in Seq(Objects) /\ Len(Tail(s)) = Len(s) - 1
      /\ \A i \in 1 .. Len(s) - 1 : Tail(s)[i] = s[i + 1]
  BY <1>1, HeadTailProperties
<1>3. \A i \in 1 .. Len(s) - 1 : Without(s, 1)[i] = s[i + 1]
  BY <1>1 DEF Without
<1>4. Tail(s) = [i \in 1 .. Len(s) - 1 |-> Tail(s)[i]]
  BY <1>1, <1>2, LenProperties
<1>5. Without(s, 1) = [i \in 1 .. Len(s) - 1 |-> Without(s, 1)[i]]
  BY DEF Without
<1>6. Without(s, 1) = Tail(s)
  BY <1>2, <1>3, <1>4, <1>5
<1> QED
  BY <1>1, <1>6

-----------------------------------------------------------------------------
(* free_list holds f and used_list holds u, and these are all the objects. *)
Split(m, own, f, u) ==
  /\ m \in Memory
  /\ Chain(m, "free", f)
  /\ Chain(m, "used", u)
  /\ Elements(f) = Objects \ own
  /\ Elements(u) = own
  /\ Len(f) + Len(u) = NumObjects
  /\ \A b \in Objects : m.data[b] = b

LEMMA SplitFacts ==
  ASSUME NEW m, NEW own, NEW f, NEW u, Split(m, own, f, u)
  PROVE  /\ m \in Memory /\ f \in Seq(Objects) /\ u \in Seq(Objects)
         /\ Len(f) \in Nat /\ Len(u) \in Nat
         /\ m.size["free"] = Len(f) /\ m.size["used"] = Len(u)
         /\ m.head["free"] = IF f = <<>> THEN NULL ELSE Head(f)
         /\ Elements(f) \cap Elements(u) = {}
         /\ own \subseteq Objects
<1>1. /\ m \in Memory /\ f \in Seq(Objects) /\ u \in Seq(Objects)
      /\ m.size["free"] = Len(f) /\ m.size["used"] = Len(u)
      /\ m.head["free"] = IF f = <<>> THEN NULL ELSE f[1]
      /\ Elements(f) = Objects \ own /\ Elements(u) = own
  BY DEF Split, Chain
<1>2. Elements(u) \subseteq Objects
  BY <1>1, LenProperties DEF Elements
<1> QED
  BY <1>1, <1>2, LenProperties, WithoutFirst

(* What mempool_alloc and mempool_free do to the two sequences.            *)
LEMMA SplitAlloc ==
  ASSUME NEW m, NEW own, NEW f, NEW u, Split(m, own, f, u), f # <<>>
  PROVE  Split(Moved(m, "free", "used", Head(f)), own \cup {Head(f)},
               Tail(f), Append(u, Head(f)))
<1> DEFINE o == Head(f)
           r == Moved(m, "free", "used", o)
<1>1. /\ m \in Memory /\ f \in Seq(Objects) /\ u \in Seq(Objects)
      /\ Len(f) \in Nat /\ Len(u) \in Nat /\ Elements(f) \cap Elements(u) = {}
      /\ Elements(f) = Objects \ own /\ Elements(u) = own
      /\ Len(f) + Len(u) = NumObjects
      /\ Chain(m, "free", f) /\ Chain(m, "used", u)
      /\ \A b \in Objects : m.data[b] = b
  BY SplitFacts DEF Split
<1>2. Without(f, 1) = Tail(f) /\ o = f[1] /\ 1 \in 1 .. Len(f) /\ o \in Objects
  <2>1. Without(f, 1) = Tail(f) /\ o = f[1] /\ 1 \in 1 .. Len(f)
    BY <1>1, WithoutFirst
  <2>2. f[1] \in Objects
    BY <1>1, <2>1, LenProperties
  <2> QED
    BY <2>1, <2>2
<1>3. /\ r \in Memory /\ Chain(r, "free", Tail(f)) /\ Chain(r, "used", Append(u, o))
      /\ \A b \in Objects : r.data[b] = b
  <2>1. /\ Moved(m, "free", "used", f[1]) \in Memory
        /\ Chain(Moved(m, "free", "used", f[1]), "free", Without(f, 1))
        /\ Chain(Moved(m, "free", "used", f[1]), "used", Append(u, f[1]))
        /\ \A b \in Objects : Moved(m, "free", "used", f[1]).data[b] = b
    BY <1>1, <1>2, MoveChains
  <2> QED
    BY <1>2, <2>1
<1>4. Elements(Tail(f)) = Elements(f) \ {o} /\ Len(Tail(f)) = Len(f) - 1
  <2>1. \A a, b \in 1 .. Len(f) : f[a] = f[b] => a = b
    BY <1>1 DEF Chain
  <2>2. /\ Elements(Without(f, 1)) = Elements(f) \ {f[1]}
        /\ Len(Without(f, 1)) = Len(f) - 1
    BY <1>1, <1>2, <2>1, WithoutFacts
  <2> QED
    BY <1>2, <2>2
<1>5. Elements(Append(u, o)) = Elements(u) \cup {o} /\ Len(Append(u, o)) = Len(u) + 1
  BY <1>1, <1>2, AppendElements
<1> HIDE DEF r, o
<1>6. Split(r, own \cup {o}, Tail(f), Append(u, o))
  BY <1>1, <1>3, <1>4, <1>5 DEF Split
<1> QED
  BY <1>6 DEF r, o

LEMMA SplitFree ==
  ASSUME NEW m, NEW own, NEW f, NEW u, Split(m, own, f, u), NEW b \in own
  PROVE  \E w : Split(Moved(m, "used", "free", b), own \ {b}, Append(f, b), w)
<1> DEFINE r == Moved(m, "used", "free", b)
<1>1. /\ m \in Memory /\ f \in Seq(Objects) /\ u \in Seq(Objects)
      /\ Len(f) \in Nat /\ Len(u) \in Nat /\ Elements(u) \cap Elements(f) = {}
      /\ Elements(f) = Objects \ own /\ Elements(u) = own /\ own \subseteq Objects
      /\ Len(f) + Len(u) = NumObjects
      /\ Chain(m, "free", f) /\ Chain(m, "used", u)
      /\ \A a \in Objects : m.data[a] = a
  BY SplitFacts DEF Split
<1>2. PICK j \in 1 .. Len(u) : b = u[j]
  <2>1. DOMAIN u = 1 .. Len(u) /\ b \in Elements(u)
    BY <1>1, LenProperties
  <2> QED
    BY <2>1 DEF Elements
<1>3. /\ r \in Memory /\ Chain(r, "used", Without(u, j)) /\ Chain(r, "free", Append(f, b))
      /\ \A a \in Objects : r.data[a] = a
  <2> DEFINE q == Moved(m, "used", "free", u[j])
  <2>1. /\ q \in Memory /\ Chain(q, "used", Without(u, j)) /\ Chain(q, "free", Append(f, u[j]))
        /\ \A a \in Objects : q.data[a] = a
    BY <1>1, MoveChains
  <2> QED
    BY <1>2, <2>1
<1>4. Elements(Without(u, j)) = Elements(u) \ {b} /\ Len(Without(u, j)) = Len(u) - 1
  BY <1>1, <1>2, WithoutFacts DEF Chain
<1>5. Elements(Append(f, b)) = Elements(f) \cup {b} /\ Len(Append(f, b)) = Len(f) + 1
  BY <1>1, AppendElements
<1> HIDE DEF r
<1>6. Split(r, own \ {b}, Append(f, b), Without(u, j))
  BY <1>1, <1>3, <1>4, <1>5 DEF Split
<1> QED
  BY <1>6 DEF r

LEMMA SplitInit == Split(Filled[NumObjects], {}, Numbers(NumObjects), <<>>)
<1>1. NumObjects \in Nat /\ Len(<<>>) = 0
  BY SizeAssumption, EmptySeq
<1>2. /\ Len(Numbers(NumObjects)) = NumObjects
      /\ Elements(Numbers(NumObjects)) = Objects
  BY <1>1, NumbersFacts DEF Objects
<1>3. Elements(<<>>) = {}
  BY DEF Elements
<1>4. Rounds(NumObjects)
  BY FilledHolds
<1> QED
  BY <1>1, <1>2, <1>3, <1>4 DEF Split, Rounds, Objects
-----------------------------------------------------------------------------
(* The inductive invariant: a ready pool's lists split the objects.        *)
PoolInv ==
  /\ TypeOK
  /\ phase = "raw" => memory = sf_sdlist_init /\ owned = {} /\ used = 0
  /\ phase = "ready" => /\ \E f, u : Split(memory, owned, f, u)
                        /\ used = memory.size["used"]

LEMMA OpenStep ==
  ASSUME PoolInv, mempool_init
  PROVE  Split(memory', owned', Numbers(NumObjects), <<>>)
<1>1. memory' = Filled[NumObjects] /\ owned' = {}
  BY DEF PoolInv, mempool_init
<1> QED
  BY <1>1, SplitInit

LEMMA AllocStep ==
  ASSUME mempool_alloc, NEW f, NEW u, Split(memory, owned, f, u)
  PROVE  /\ f # <<>> /\ Head(f) \in Objects
         /\ ret' = Head(f) /\ owned' = owned \cup {Head(f)}
         /\ Split(memory', owned', Tail(f), Append(u, Head(f)))
<1>1. memory.head["free"] = IF f = <<>> THEN NULL ELSE Head(f)
  BY SplitFacts
<1>2. f # <<>> /\ taken = Head(f)
  BY <1>1 DEF mempool_alloc, taken
<1>3. taken \in Objects
  BY <1>2, SplitFacts, WithoutFirst, LenProperties
<1>4. memory.data[taken] = taken
  BY <1>3 DEF Split
<1>5. /\ memory' = Moved(memory, "free", "used", taken)
      /\ ret' = taken /\ owned' = owned \cup {taken}
  BY <1>4 DEF mempool_alloc, Moved
<1>6. Split(Moved(memory, "free", "used", Head(f)), owned \cup {Head(f)},
            Tail(f), Append(u, Head(f)))
  BY <1>2, SplitAlloc
<1> QED
  BY <1>2, <1>3, <1>5, <1>6

LEMMA FreeStep ==
  ASSUME NEW b \in Objects, mempool_free(b), NEW f, NEW u, Split(memory, owned, f, u)
  PROVE  /\ b \in owned /\ ret' = NULL /\ owned' = owned \ {b}
         /\ \E w : Split(memory', owned', Append(f, b), w)
<1>1. /\ b \in owned /\ owned' = owned \ {b} /\ ret' = NULL
      /\ memory' = Moved(memory, "used", "free", b)
  BY DEF mempool_free, giveBack, Moved
<1>2. \E w : Split(Moved(memory, "used", "free", b), owned \ {b}, Append(f, b), w)
  BY <1>1, SplitFree
<1> QED
  BY <1>1, <1>2

(* The counters after a call.                                              *)
LEMMA SplitSizes ==
  ASSUME NEW m, NEW own, NEW f, NEW u, Split(m, own, f, u)
  PROVE  /\ m.size["free"] = Len(f) /\ m.size["free"] \in Nat
         /\ m.size["used"] \in Nat /\ m.size["used"] = NumObjects - m.size["free"]
         /\ m.size["used"] \in 0 .. NumObjects
<1>1. Len(f) + Len(u) = NumObjects
  BY DEF Split
<1> QED
  BY <1>1, SplitFacts, SizeAssumption

LEMMA InitPoolInv ==
  ASSUME Init PROVE PoolInv
<1>1. sf_sdlist_init \in Memory
  BY EmptyMemory
<1> QED
  BY <1>1, LeftoverAssumption, SizeAssumption DEF Init, PoolInv, TypeOK

LEMMA StepPoolInv ==
  ASSUME PoolInv, [Next]_vars PROVE PoolInv'
<1> USE SizeAssumption
<1>1. CASE mempool_init
  <2>1. Split(memory', owned', Numbers(NumObjects), <<>>)
    BY <1>1, OpenStep
  <2>2. memory'.size["used"] = 0
    <3>1. Len(Numbers(NumObjects)) = NumObjects
      BY NumbersFacts
    <3> QED
      BY <2>1, <3>1, SplitSizes
  <2>3. (free + NumObjects) % CountLimit \in 0 .. CountLimit - 1
    BY DEF PoolInv, TypeOK
  <2>4. memory' \in Memory /\ owned' = owned
    BY <1>1, <2>1, SplitFacts DEF mempool_init
  <2> QED
    BY <1>1, <2>1, <2>2, <2>3, <2>4 DEF PoolInv, TypeOK, mempool_init
<1>2. CASE phase = "ready" /\ mempool_alloc
  <2>1. PICK f, u : Split(memory, owned, f, u)
    BY <1>2 DEF PoolInv
  <2>2. /\ f # <<>> /\ Head(f) \in Objects
        /\ ret' = Head(f) /\ owned' = owned \cup {Head(f)}
        /\ Split(memory', owned', Tail(f), Append(u, Head(f)))
    BY <1>2, <2>1, AllocStep
  <2>3. f \in Seq(Objects) /\ Len(f) \in Nat /\ Len(f) # 0 /\ Len(Tail(f)) = Len(f) - 1
    BY <2>1, <2>2, SplitFacts, HeadTailProperties, EmptySeq
  <2>4. memory'.size["used"] = memory.size["used"] + 1 /\ memory'.size["used"] \in 0 .. NumObjects
    <3>1. memory.size["used"] = NumObjects - Len(f)
      BY <2>1, SplitSizes
    <3>2. /\ memory'.size["used"] = NumObjects - Len(Tail(f))
          /\ memory'.size["used"] \in 0 .. NumObjects
      BY <2>2, SplitSizes
    <3> QED
      BY <2>3, <3>1, <3>2
  <2>5. memory' \in Memory
    BY <2>2, SplitFacts
  <2>6. free > 0 /\ free' = free - 1 /\ used' = used + 1 /\ phase' = phase
    BY <1>2 DEF mempool_alloc, someFree
  <2>7. TypeOK'
    BY <1>2, <2>2, <2>4, <2>5, <2>6 DEF PoolInv, TypeOK
  <2> QED
    BY <1>2, <2>2, <2>4, <2>6, <2>7 DEF PoolInv
<1>3. CASE phase = "ready" /\ AllocFails
  <2>1. memory' = memory /\ used' = used /\ owned' = owned /\ phase' = phase /\ ret' = NULL
    BY <1>3 DEF AllocFails
  <2>2. free' = free \/ (free > 0 /\ free' = free - 1)
    BY <1>3 DEF AllocFails, someFree
  <2> QED
    BY <1>3, <2>1, <2>2 DEF PoolInv, TypeOK
<1>4. ASSUME NEW b \in Objects, mempool_free(b) PROVE PoolInv'
  <2>1. phase = "ready"
    BY <1>4 DEF PoolInv, TypeOK, mempool_free
  <2>2. PICK f, u : Split(memory, owned, f, u)
    BY <2>1 DEF PoolInv
  <2>3. /\ b \in owned /\ ret' = NULL /\ owned' = owned \ {b}
        /\ \E w : Split(memory', owned', Append(f, b), w)
    BY <1>4, <2>2, FreeStep
  <2>4. PICK w : Split(memory', owned', Append(f, b), w)
    BY <2>3
  <2>5. Len(Append(f, b)) = Len(f) + 1 /\ Len(f) \in Nat
    BY <2>2, SplitFacts, AppendElements
  <2>6. memory'.size["used"] = memory.size["used"] - 1 /\ memory'.size["used"] \in 0 .. NumObjects
    <3>1. memory.size["used"] = NumObjects - Len(f)
      BY <2>2, SplitSizes
    <3>2. /\ memory'.size["used"] = NumObjects - Len(Append(f, b))
          /\ memory'.size["used"] \in 0 .. NumObjects
      BY <2>4, SplitSizes
    <3> QED
      BY <2>5, <3>1, <3>2
  <2>7. memory' \in Memory
    BY <2>4, SplitFacts
  <2>8. free' = (free + 1) % CountLimit /\ used' = used - 1 /\ phase' = phase
    BY <1>4 DEF mempool_free
  <2>9. TypeOK'
    <3>1. free' \in 0 .. CountLimit - 1
      BY <2>8 DEF PoolInv, TypeOK
    <3> QED
      BY <2>1, <2>3, <2>6, <2>7, <2>8, <3>1 DEF PoolInv, TypeOK
  <2> QED
    BY <2>1, <2>4, <2>6, <2>8, <2>9 DEF PoolInv
<1>5. CASE mempool_destroy
  BY <1>5, EmptyMemory DEF mempool_destroy, PoolInv, TypeOK
<1>6. CASE UNCHANGED vars
  BY <1>6 DEF vars, PoolInv, TypeOK
<1> QED
  BY <1>1, <1>2, <1>3, <1>4, <1>5, <1>6 DEF Next

(* The inductive invariant: each list's links spell a sequence of items,   *)
(* the two sequences share the items out, and the counters follow them.    *)
THEOREM PoolInvariance == Spec => []PoolInv
BY InitPoolInv, StepPoolInv, PTL DEF Spec

(* Items, lists and counters hold what their types allow, whatever         *)
(* mempool_init found in the counter (mempool.c:125-259).                  *)
THEOREM TypeOKHolds == Spec => []TypeOK
<1>1. PoolInv => TypeOK
  BY DEF PoolInv
<1> QED
  BY <1>1, PoolInvariance, PTL

(* Both lists stay linked in both directions, hold every item once, and    *)
(* the used one holds what the client has (mempool.c:195-259).             *)
THEOREM ListsSoundHolds == Spec => []ListsSound
<1>1. ASSUME PoolInv PROVE ListsSound
  <2> SUFFICES ASSUME phase = "ready"
               PROVE  /\ Linked(memory, "free") /\ Linked(memory, "used")
                      /\ memory.size["free"] + memory.size["used"] = NumObjects
                      /\ Elements(Sequence(memory, "free")) = Objects \ owned
                      /\ Elements(Sequence(memory, "used")) = owned
                      /\ used = memory.size["used"]
    BY DEF ListsSound
  <2>1. PICK f, u : Split(memory, owned, f, u)
    BY <1>1 DEF PoolInv
  <2>2. /\ Linked(memory, "free") /\ Sequence(memory, "free") = f
        /\ Linked(memory, "used") /\ Sequence(memory, "used") = u
    BY <2>1, ChainLinked DEF Split
  <2>3. memory.size["free"] + memory.size["used"] = NumObjects
    BY <2>1, SplitSizes, SizeAssumption
  <2> QED
    BY <1>1, <2>1, <2>2, <2>3 DEF Split, PoolInv
<1> QED
  BY <1>1, PoolInvariance, PTL
-----------------------------------------------------------------------------
(* What the ideal pool has idle.                                           *)
Idle == [k \in 1 .. memory.size["free"] |-> memory.data[Sequence(memory, "free")[k]]]

LEMMA IdleOf ==
  ASSUME NEW m, NEW own, NEW f, NEW u, Split(m, own, f, u)
  PROVE  [k \in 1 .. m.size["free"] |-> m.data[Sequence(m, "free")[k]]] = f
<1>1. /\ Sequence(m, "free") = f /\ m.size["free"] = Len(f) /\ f \in Seq(Objects)
      /\ \A b \in Objects : m.data[b] = b
  BY ChainLinked, SplitFacts DEF Split
<1>2. f = [k \in 1 .. Len(f) |-> f[k]] /\ \A k \in 1 .. Len(f) : f[k] \in Objects
  BY <1>1, LenProperties
<1> QED
  BY <1>1, <1>2

LEMMA IdleNone ==
  ASSUME memory = sf_sdlist_init PROVE Idle = <<>>
<1>1. memory.size["free"] = 0
  BY DEF sf_sdlist_init
<1> QED
  BY <1>1 DEF Idle

LEMMA StepPool ==
  ASSUME PoolInv, PoolInv', [Next]_vars PROVE [Pool!Next]_(Pool!vars)
<1> DEFINE same == Idle' = Idle /\ owned' = owned /\ ret' = ret
<1>1. /\ Pool!Open <=> /\ Idle = <<>> /\ owned = {}
                       /\ Idle' = Numbers(NumObjects) /\ ret' = NULL
                       /\ owned' = owned
      /\ Pool!Alloc <=> /\ Idle # <<>> /\ Idle' = Tail(Idle)
                        /\ owned' = owned \cup {Head(Idle)} /\ ret' = Head(Idle)
      /\ Pool!Refuse <=> ret' = NULL /\ Idle' = Idle /\ owned' = owned
      /\ \A o : Pool!Free(o) <=> /\ o \in owned /\ owned' = owned \ {o}
                                 /\ Idle' = Append(Idle, o) /\ ret' = NULL
      /\ Pool!Close <=> Idle' = <<>> /\ owned' = {} /\ ret' = NULL
      /\ Pool!vars' = Pool!vars <=> same
  BY DEF Pool!Open, Pool!Alloc, Pool!Refuse, Pool!Free, Pool!Close, Pool!vars, Idle, Numbers
<1>2. ASSUME NEW f, NEW u, Split(memory, owned, f, u) PROVE Idle = f
  BY <1>2, IdleOf DEF Idle
<1>3. ASSUME NEW f, NEW u, Split(memory', owned', f, u) PROVE Idle' = f
  BY <1>3, IdleOf DEF Idle
<1>4. (memory' = memory => Idle' = Idle) /\ (memory' = sf_sdlist_init => Idle' = <<>>)
  BY DEF Idle, sf_sdlist_init
<1> SUFFICES \/ Pool!Open \/ Pool!Alloc \/ Pool!Refuse
             \/ (\E o \in owned : Pool!Free(o)) \/ Pool!Close \/ same
  BY <1>1 DEF Pool!Next
<1>5. CASE mempool_init
  <2>1. Idle = <<>> /\ owned = {}
    BY <1>5, IdleNone DEF PoolInv, mempool_init
  <2>2. Idle' = Numbers(NumObjects)
    BY <1>3, <1>5, OpenStep
  <2> QED
    BY <1>1, <1>5, <2>1, <2>2 DEF mempool_init
<1>6. CASE phase = "ready" /\ mempool_alloc
  <2>1. PICK f, u : Split(memory, owned, f, u)
    BY <1>6 DEF PoolInv
  <2>2. /\ f # <<>> /\ ret' = Head(f) /\ owned' = owned \cup {Head(f)}
        /\ Split(memory', owned', Tail(f), Append(u, Head(f)))
    BY <1>6, <2>1, AllocStep
  <2>3. Idle = f /\ Idle' = Tail(f)
    BY <1>2, <1>3, <2>1, <2>2
  <2> QED
    BY <1>1, <2>2, <2>3
<1>7. CASE phase = "ready" /\ AllocFails
  BY <1>1, <1>4, <1>7 DEF AllocFails
<1>8. ASSUME NEW b \in Objects, mempool_free(b) PROVE \E o \in owned : Pool!Free(o)
  <2>1. PICK f, u : Split(memory, owned, f, u)
    BY <1>8 DEF PoolInv, TypeOK, mempool_free
  <2>2. /\ b \in owned /\ ret' = NULL /\ owned' = owned \ {b}
        /\ \E w : Split(memory', owned', Append(f, b), w)
    BY <1>8, <2>1, FreeStep
  <2>3. Idle = f /\ Idle' = Append(f, b)
    BY <1>2, <1>3, <2>1, <2>2
  <2> QED
    BY <1>1, <2>2, <2>3
<1>9. CASE mempool_destroy
  BY <1>1, <1>4, <1>9 DEF mempool_destroy
<1>10. CASE UNCHANGED vars
  BY <1>4, <1>10 DEF vars
<1> QED
  BY <1>5, <1>6, <1>7, <1>8, <1>9, <1>10 DEF Next

(* Every call does what the call of an ideal pool does: no object goes to  *)
(* two clients, and the longest idle goes first (mempool.c:195-259).       *)
THEOREM PoolImplemented == Spec => ImplementsPool
<1>1. Init => Pool!Init
  <2> SUFFICES ASSUME Init PROVE Idle = <<>> /\ owned = {} /\ ret = NULL
    BY DEF Pool!Init, Idle
  <2> QED
    BY IdleNone DEF Init
<1>2. PoolInv /\ PoolInv' /\ [Next]_vars => [Pool!Next]_(Pool!vars)
  BY StepPool
<1> QED
  BY <1>1, <1>2, PoolInvariance, PTL DEF Spec, ImplementsPool, Pool!Spec

-----------------------------------------------------------------------------
(* Counting one up or down on a counter that wraps at L.                   *)
LEMMA WrapsAround ==
  ASSUME NEW L \in Nat, NEW x \in 0 .. L - 1, NEW s \in Nat, s < L
  PROVE  /\ s + 1 < L => (((x + 1) % L) - (s + 1)) % L = (x - s) % L
         /\ x > 0 /\ s > 0 => ((x - 1) - (s - 1)) % L = (x - s) % L
         /\ x > 0 /\ s = 0 => ((x - 1) - s) % L = ((x - s) % L) - 1
<1>1. CASE x + 1 < L
  <2>1. (x + 1) % L = x + 1
    BY <1>1
  <2>2. (x + 1) - (s + 1) = x - s
    OBVIOUS
  <2> QED
    BY <2>1, <2>2
<1>2. CASE x + 1 = L
  <2>1. (x + 1) % L = 0
    BY <1>2, SMTT(30)
  <2>2. x - s \in 0 .. L - 1 /\ (x - s) % L = x - s
    BY <1>2
  <2>3. s + 1 < L => (0 - (s + 1)) % L = L - (s + 1)
    BY SMTT(30)
  <2> QED
    BY <1>2, <2>1, <2>2, <2>3
<1> QED
  BY <1>1, <1>2

(* The counter never drifts away from the list by more than it started     *)
(* with (mempool.c:158, 205-221, 248-257).                                 *)
THEOREM ExcessShrinksHolds == Spec => ExcessShrinks
<1>1. ASSUME PoolInv, PoolInv', [Next]_vars, phase = "ready", phase' = "ready"
      PROVE  Excess' \in {Excess, Excess - 1}
  <2> DEFINE s == memory.size["free"]
  <2>1. PICK f, u : Split(memory, owned, f, u)
    BY <1>1 DEF PoolInv
  <2>2. /\ s = Len(f) /\ s \in Nat /\ s < CountLimit /\ free \in 0 .. CountLimit - 1
        /\ memory.head["free"] = IF f = <<>> THEN NULL ELSE Head(f)
        /\ f \in Seq(Objects) /\ CountLimit \in Nat
    <3>1. s \in 0 .. NumObjects
      BY <2>1, SplitSizes, SizeAssumption
    <3> QED
      BY <1>1, <2>1, <3>1, SplitFacts, SizeAssumption DEF PoolInv, TypeOK
  <2>3. CASE mempool_alloc
    <3>1. f # <<>> /\ Split(memory', owned', Tail(f), Append(u, Head(f)))
      BY <2>1, <2>3, AllocStep
    <3>2. Len(f) \in Nat /\ Len(f) # 0 /\ Len(Tail(f)) = Len(f) - 1
      BY <2>2, <3>1, HeadTailProperties, EmptySeq
    <3>3. memory'.size["free"] = Len(Tail(f))
      BY <3>1, SplitSizes
    <3>4. free > 0 /\ free' = free - 1
      BY <2>3 DEF mempool_alloc, someFree
    <3>5. ((free - 1) - (s - 1)) % CountLimit = (free - s) % CountLimit
      BY <2>2, <3>2, <3>4, WrapsAround
    <3> QED
      BY <2>2, <3>2, <3>3, <3>4, <3>5 DEF Excess
  <2>4. CASE AllocFails
    <3>1. memory' = memory
      BY <2>4 DEF AllocFails
    <3>2. CASE free' = free
      BY <3>1, <3>2 DEF Excess
    <3>3. CASE free' # free
      <4>1. free > 0 /\ taken = NULL /\ free' = free - 1
        BY <2>4, <3>3 DEF AllocFails, someFree
      <4>2. f = <<>>
        <5>1. f # <<>> => Head(f) \in Objects
          BY <2>2, WithoutFirst, LenProperties
        <5> QED
          BY <2>2, <4>1, <5>1, NullAssumption DEF taken
      <4>3. s = 0
        BY <2>2, <4>2, EmptySeq
      <4>4. ((free - 1) - s) % CountLimit = ((free - s) % CountLimit) - 1
        BY <2>2, <4>1, <4>3, WrapsAround
      <4> QED
        BY <3>1, <4>1, <4>4 DEF Excess
    <3> QED
      BY <3>2, <3>3
  <2>5. ASSUME NEW b \in Objects, mempool_free(b) PROVE Excess' = Excess
    <3>1. PICK w : b \in owned /\ Split(memory', owned', Append(f, b), w)
      BY <2>1, <2>5, FreeStep
    <3>2. memory'.size["free"] = s + 1 /\ s + 1 < CountLimit
      <4>1. memory'.size["free"] = Len(Append(f, b)) /\ Len(Append(f, b)) = Len(f) + 1
        BY <2>2, <3>1, SplitSizes, AppendElements
      <4>2. memory'.size["free"] \in 0 .. NumObjects
        <5>1. memory'.size["free"] \in Nat /\ NumObjects - memory'.size["free"] \in Nat
          BY <3>1, SplitSizes
        <5> QED
          BY <5>1, SizeAssumption
      <4> QED
        BY <2>2, <4>1, <4>2, SizeAssumption
    <3>3. free' = (free + 1) % CountLimit
      BY <2>5 DEF mempool_free
    <3>4. (((free + 1) % CountLimit) - (s + 1)) % CountLimit = (free - s) % CountLimit
      BY <2>2, <3>2, WrapsAround
    <3> QED
      BY <3>2, <3>3, <3>4 DEF Excess
  <2>6. CASE UNCHANGED vars
    BY <2>6 DEF vars, Excess
  <2>7. ~mempool_init /\ ~mempool_destroy
    BY <1>1 DEF mempool_init, mempool_destroy
  <2> QED
    BY <1>1, <2>3, <2>4, <2>5, <2>6, <2>7 DEF Next
<1>2. ASSUME PoolInv, PoolInv', [Next]_vars
      PROVE  [phase = "ready" /\ phase' = "ready" => Excess' \in {Excess, Excess - 1}]_vars
  BY <1>1, <1>2
<1> QED
  BY <1>2, PoolInvariance, PTL DEF Spec, ExcessShrinks
=============================================================================
