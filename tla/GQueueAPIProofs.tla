-------------------------- MODULE GQueueAPIProofs --------------------------
(***************************************************************************)
(* The ring of lib/gqueue.c implements a bounded FIFO, for every QueueSize *)
(* and every set of pointers the client stores.                            *)
(***************************************************************************)
EXTENDS GQueueAPI, GQueueProofs

Words == Elements \cup {NULL, Garbage}

(* RingOK alone does not say what the slots hold, and OnlyStoredElements   *)
(* alone does not follow the elements round the ring: the inductive        *)
(* invariant joins them over the sequence of waiting elements.             *)
IInv ==
  /\ buffer \in [Slots -> Words]
  /\ RingOK
  /\ Contents \in Seq(Elements)
  /\ target \in Elements \cup {Garbage}
  /\ zeroed \subseteq Elements

(* queue_init establishes the invariant: an empty ring shows none of its   *)
(* unwritten slots (gqueue.c:7-20).                                        *)
LEMMA InitIInv == Init => IInv
<1> SUFFICES ASSUME Init PROVE IInv
  OBVIOUS
<1> USE QueueSizeAssumption
<1>1. buffer \in [Slots -> Words]
  BY DEF Init, queue_init, Words
<1>2. /\ front = 0 /\ rear = 0 /\ currentSize = 0
      /\ target = Garbage /\ zeroed = {}
  BY DEF Init, queue_init
<1>3. (0 + 0) % QueueSize = 0
  BY ModWrap
<1>4. RingOK
  BY <1>2, <1>3 DEF RingOK, Slots
<1>5. Contents = <<>>
  BY <1>2 DEF Contents
<1>6. QED
  BY <1>1, <1>2, <1>4, <1>5 DEF IInv

(* What each operation does to the waiting elements and to the client's    *)
(* pointer, in the terms of the bounded FIFO.                              *)
LEMMA WriteStep ==
  ASSUME IInv, NEW x \in Elements, Write(x)
  PROVE  IInv' /\ Fifo!Write(x)
<1>1. /\ queue_write(x)
      /\ ret' = IF isFull THEN ERROR_BUFFER_FULL ELSE 1
      /\ target' = target /\ zeroed' = zeroed
  BY DEF Write
<1>2. /\ RingOK /\ Contents \in Seq(Elements) /\ buffer \in [Slots -> Words]
      /\ Len(Contents) = currentSize
      /\ isFull <=> currentSize = QueueSize - 1
      /\ currentSize \in 0 .. QueueSize - 1
  BY ContentsType, FillLevelsAgree DEF IInv, RingOK
<1>3. CASE isFull
  <2>1. /\ ret' = ERROR_BUFFER_FULL
        /\ buffer' = buffer /\ front' = front /\ rear' = rear
        /\ currentSize' = currentSize
    BY <1>1, <1>3 DEF queue_write, queueVars
  <2>2. Contents' = Contents
    BY <2>1 DEF Contents
  <2>3. ~(Len(Contents) < QueueSize - 1)
    BY <1>2, <1>3, QueueSizeAssumption
  <2>4. IInv'
    BY <1>1, <2>1, <2>2 DEF IInv, RingOK
  <2>5. QED
    BY <1>1, <2>1, <2>2, <2>3, <2>4 DEF Fifo!Write, Fifo!Full, ERROR_BUFFER_FULL
<1>4. CASE ~isFull
  <2>1. /\ RingOK'
        /\ buffer' \in [Slots -> Words \cup {x}]
        /\ Contents' = Append(Contents, x)
    BY <1>1, <1>2, <1>4, WriteAppends
  <2>2. Words \cup {x} = Words
    BY DEF Words
  <2>3. Len(Contents) < QueueSize - 1
    BY <1>2, <1>4, QueueSizeAssumption
  <2>4. IInv'
    BY <1>1, <1>2, <2>1, <2>2 DEF IInv
  <2>5. QED
    BY <1>1, <1>4, <2>1, <2>3, <2>4 DEF Fifo!Write, Fifo!Done
<1>5. QED
  BY <1>3, <1>4

(* A read keeps the invariant and hands over the head of the FIFO, or      *)
(* leaves the pointer as it was (gqueue.c:49-57).                          *)
LEMMA ReadStep ==
  ASSUME IInv, Read
  PROVE  IInv' /\ Fifo!Read
<1>1. /\ queue_read
      /\ ret' = IF isEmpty THEN 0 ELSE 1
      /\ target' = IF isEmpty THEN target ELSE buffer[front]
      /\ zeroed' = zeroed
  BY DEF Read
<1>2. /\ RingOK /\ Contents \in Seq(Elements) /\ buffer \in [Slots -> Words]
      /\ Len(Contents) = currentSize
      /\ isEmpty <=> currentSize = 0
  BY ContentsType, FillLevelsAgree DEF IInv
<1>3. CASE isEmpty
  <2>1. /\ ret' = 0 /\ target' = target
        /\ buffer' = buffer /\ front' = front /\ rear' = rear
        /\ currentSize' = currentSize
    BY <1>1, <1>3 DEF queue_read, queueVars
  <2>2. Contents' = Contents
    BY <2>1 DEF Contents
  <2>3. Contents = <<>>
    BY <1>2, <1>3
  <2>4. IInv'
    BY <1>1, <2>1, <2>2 DEF IInv, RingOK
  <2>5. QED
    BY <1>1, <2>1, <2>2, <2>3, <2>4 DEF Fifo!Read, Fifo!Empty
<1>4. CASE ~isEmpty
  <2>1. /\ RingOK' /\ buffer' = buffer /\ Contents # <<>>
        /\ Head(Contents) = buffer[front]
        /\ Contents' = Tail(Contents)
    BY <1>1, <1>2, <1>4, ReadTakesHead
  <2>2. /\ Head(Contents) \in Elements
        /\ Tail(Contents) \in Seq(Elements)
    BY <1>2, <2>1
  <2>3. IInv'
    BY <1>1, <1>2, <1>4, <2>1, <2>2 DEF IInv
  <2>4. QED
    BY <1>1, <1>4, <2>1, <2>3 DEF Fifo!Read, Fifo!Done
<1>5. QED
  BY <1>3, <1>4

(* A peek keeps the invariant and changes only what the abstract peek      *)
(* changes (gqueue.c:59-64).                                               *)
LEMMA TopStep ==
  ASSUME IInv, queue_top
  PROVE  IInv' /\ Fifo!Top
<1>1. /\ ret' = IF isEmpty THEN 0 ELSE 1
      /\ zeroed' = IF isEmpty THEN zeroed ELSE zeroed \cup {buffer[front]}
      /\ target' = target
      /\ buffer' = buffer /\ front' = front /\ rear' = rear
      /\ currentSize' = currentSize
  BY DEF queue_top
<1>2. /\ RingOK /\ Contents \in Seq(Elements) /\ buffer \in [Slots -> Words]
      /\ Len(Contents) = currentSize
      /\ isEmpty <=> currentSize = 0
  BY ContentsType, FillLevelsAgree DEF IInv
<1>3. Contents' = Contents
  BY <1>1 DEF Contents
<1>4. CASE isEmpty
  <2>1. Contents = <<>>
    BY <1>2, <1>4
  <2>2. IInv'
    BY <1>1, <1>3, <1>4 DEF IInv, RingOK
  <2>3. QED
    BY <1>1, <1>3, <1>4, <2>1, <2>2 DEF Fifo!Top, Fifo!Empty
<1>5. CASE ~isEmpty
  <2>1. Contents # <<>>
    BY <1>2, <1>5
  <2>2. Head(Contents) = buffer[front]
    BY <1>2, <1>5, HeadIsFront
  <2>3. Head(Contents) \in Elements
    BY <1>2, <2>1
  <2>4. IInv'
    BY <1>1, <1>3, <1>5, <2>2, <2>3 DEF IInv, RingOK
  <2>5. QED
    BY <1>1, <1>3, <1>5, <2>1, <2>2, <2>4 DEF Fifo!Top, Fifo!Done
<1>6. QED
  BY <1>4, <1>5

(* Every call, or none, keeps the invariant and is a step of the FIFO or a *)
(* stutter.                                                                *)
LEMMA NextStep ==
  ASSUME IInv, [Next]_vars
  PROVE  IInv' /\ [Fifo!Next]_(Fifo!vars)
<1>1. CASE \E x \in Elements : Write(x)
  BY <1>1, WriteStep DEF Fifo!Next
<1>2. CASE Read
  BY <1>2, ReadStep DEF Fifo!Next
<1>3. CASE queue_top
  BY <1>3, TopStep DEF Fifo!Next
<1>4. CASE UNCHANGED vars
  <2>1. /\ buffer' = buffer /\ front' = front /\ rear' = rear
        /\ currentSize' = currentSize
        /\ ret' = ret /\ target' = target /\ zeroed' = zeroed
    BY <1>4 DEF vars
  <2>2. Contents' = Contents
    BY <2>1 DEF Contents
  <2>3. QED
    BY <2>1, <2>2 DEF IInv, RingOK, Fifo!vars
<1>5. QED
  BY <1>1, <1>2, <1>3, <1>4 DEF Next

(* The inductive invariant holds in every reachable state.                 *)
THEOREM Invariance == Spec => []IInv
<1>1. IInv /\ [Next]_vars => IInv'
  BY NextStep
<1>2. QED
  BY InitIInv, <1>1, PTL DEF Spec

(* front, rear and currentSize always agree (gqueue.c:22-39).              *)
THEOREM RingOKHolds == Spec => []RingOK
<1>1. IInv => RingOK
  BY DEF IInv
<1>2. QED
  BY Invariance, <1>1, PTL

(* No client ever sees an unwritten or cleared slot (gqueue.c:12-18, 54).  *)
THEOREM OnlyStoredElementsHolds == Spec => []OnlyStoredElements
<1>1. IInv => OnlyStoredElements
  <2> SUFFICES ASSUME IInv PROVE OnlyStoredElements
    OBVIOUS
  <2>1. Contents \in Seq(Elements) /\ Len(Contents) = currentSize
    BY ContentsType DEF IInv
  <2>2. QED
    BY <2>1 DEF IInv, OnlyStoredElements
<1>2. QED
  BY Invariance, <1>1, PTL

(* The ring implements the bounded FIFO (gqueue.c:42-64): every call maps  *)
(* to the same call of the queue, with the same result for the client.     *)
THEOREM RingImplementsFifo == Spec => RingIsFifo
<1>1. Init => Fifo!Init
  <2> SUFFICES ASSUME Init PROVE Fifo!Init
    OBVIOUS
  <2>1. Contents = <<>>
    BY DEF Init, queue_init, Contents
  <2>2. QED
    BY <2>1 DEF Init, Fifo!Init, Fifo!Done
<1>2. IInv /\ [Next]_vars => [Fifo!Next]_(Fifo!vars)
  BY NextStep
<1>3. QED
  BY Invariance, <1>1, <1>2, PTL DEF Spec, RingIsFifo, Fifo!Spec
=============================================================================
