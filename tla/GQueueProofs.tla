---------------------------- MODULE GQueueProofs ----------------------------
(***************************************************************************)
(* What the operations of the ring do, for every QueueSize: facts about    *)
(* one operation, used by the proofs about GQueueAPI and about Libero.     *)
(***************************************************************************)
EXTENDS GQueue, SequenceTheorems, TLAPS

(* Indices wrap: a sum of two indices modulo QueueSize is the sum itself   *)
(* or one turn less.                                                       *)
LEMMA ModWrap ==
  ASSUME NEW k \in 0 .. 2 * QueueSize - 1
  PROVE  k % QueueSize = IF k < QueueSize THEN k ELSE k - QueueSize
  BY QueueSizeAssumption, SMTT(30)

(* One step forward and a sum may be taken in either order: this is what   *)
(* front_go and rear_go rely on when they reduce after every increment.    *)
LEMMA StepWraps ==
  ASSUME NEW f \in Slots, NEW c \in 0 .. QueueSize - 1
  PROVE  /\ (f + 1) % QueueSize \in Slots
         /\ (f + 1) % QueueSize = IF f + 1 < QueueSize THEN f + 1 ELSE 0
         /\ (f + c) % QueueSize \in Slots
         /\ (f + c) % QueueSize = IF f + c < QueueSize THEN f + c ELSE f + c - QueueSize
         /\ (((f + c) % QueueSize) + 1) % QueueSize = (f + (c + 1)) % QueueSize
         /\ (((f + 1) % QueueSize) + c) % QueueSize = (f + (c + 1)) % QueueSize
<1> USE QueueSizeAssumption DEF Slots
<1>1. /\ f + 1 \in 0 .. 2 * QueueSize - 1
      /\ f + c \in 0 .. 2 * QueueSize - 1
      /\ f + (c + 1) \in 0 .. 2 * QueueSize - 1
  OBVIOUS
<1>2. (f + 1) % QueueSize = IF f + 1 < QueueSize THEN f + 1 ELSE 0
  BY <1>1, ModWrap
<1>3. (f + c) % QueueSize = IF f + c < QueueSize THEN f + c ELSE f + c - QueueSize
  BY <1>1, ModWrap
<1>4. (f + (c + 1)) % QueueSize =
        IF f + (c + 1) < QueueSize THEN f + (c + 1) ELSE f + (c + 1) - QueueSize
  BY <1>1, ModWrap
<1>5. (((f + c) % QueueSize) + 1) % QueueSize = (f + (c + 1)) % QueueSize
  <2>1. CASE f + c < QueueSize
    BY <2>1, <1>3
  <2>2. CASE ~(f + c < QueueSize)
    <3> DEFINE k == f + c - QueueSize
    <3>1. k \in 0 .. QueueSize - 2 /\ (f + c) % QueueSize = k
      BY <2>2, <1>3
    <3>2. (f + (c + 1)) % QueueSize = k + 1
      BY <2>2, <1>4
    <3>3. (k + 1) % QueueSize = k + 1
      <4> HIDE DEF k
      <4>1. QED  BY <3>1, ModWrap
    <3>4. QED  BY <3>1, <3>2, <3>3
  <2>3. QED  BY <2>1, <2>2
<1>6. (((f + 1) % QueueSize) + c) % QueueSize = (f + (c + 1)) % QueueSize
  <2>1. CASE f + 1 < QueueSize
    BY <2>1, <1>2
  <2>2. CASE ~(f + 1 < QueueSize)
    <3>1. (f + 1) % QueueSize = 0 /\ f = QueueSize - 1
      BY <2>2, <1>2
    <3>2. (f + (c + 1)) % QueueSize = c
      BY <3>1, <1>4
    <3>3. c % QueueSize = c
      BY ModWrap
    <3>4. QED  BY <3>1, <3>2, <3>3
  <2>3. QED  BY <2>1, <2>2
<1>7. QED  BY <1>2, <1>3, <1>5, <1>6

(* The slot of the i-th waiting element is a slot of the ring.             *)
LEMMA SlotInRange ==
  ASSUME RingOK, NEW i \in 1 .. QueueSize
  PROVE  /\ (front + i - 1) % QueueSize \in Slots
         /\ (front + i - 1) % QueueSize =
              IF front + i - 1 < QueueSize THEN front + i - 1
                                           ELSE front + i - 1 - QueueSize
<1>1. front + i - 1 \in 0 .. 2 * QueueSize - 1
  BY QueueSizeAssumption DEF RingOK, Slots
<1>2. QED
  BY <1>1, ModWrap, QueueSizeAssumption DEF RingOK, Slots

(* The two ways of keeping the fill level agree: comparing front with rear *)
(* answers what currentSize says.  The callers test currentSize and call   *)
(* operations that test front and rear (libero.c:110, 138).                *)
LEMMA FillLevelsAgree ==
  ASSUME RingOK
  PROVE  /\ isEmpty <=> currentSize = 0
         /\ isFull <=> currentSize = QueueSize - 1
<1>1. rear = IF front + currentSize < QueueSize THEN front + currentSize
                                               ELSE front + currentSize - QueueSize
  <2>1. front + currentSize \in 0 .. 2 * QueueSize - 1
    BY QueueSizeAssumption DEF RingOK, Slots
  <2>2. QED  BY <2>1, ModWrap, QueueSizeAssumption DEF RingOK, Slots
<1>2. (rear + 1) % QueueSize = IF rear + 1 < QueueSize THEN rear + 1
                                                      ELSE rear + 1 - QueueSize
  <2>1. rear + 1 \in 0 .. 2 * QueueSize - 1
    BY QueueSizeAssumption DEF RingOK, Slots
  <2>2. QED  BY <2>1, ModWrap, QueueSizeAssumption DEF RingOK, Slots
<1>3. QED
  BY <1>1, <1>2, QueueSizeAssumption DEF RingOK, Slots, isEmpty, isFull

(* The waiting elements form a sequence over whatever the slots hold.      *)
LEMMA ContentsType ==
  ASSUME RingOK, NEW T, buffer \in [Slots -> T]
  PROVE  Contents \in Seq(T) /\ Len(Contents) = currentSize
<1>1. currentSize \in Nat
  BY QueueSizeAssumption DEF RingOK
<1>2. ASSUME NEW i \in 1 .. currentSize
      PROVE  buffer[(front + i - 1) % QueueSize] \in T
  <2>1. i \in 1 .. QueueSize
    BY QueueSizeAssumption DEF RingOK
  <2>2. QED  BY <2>1, SlotInRange
<1>3. Contents \in [1 .. currentSize -> T]
  BY <1>2 DEF Contents
<1>4. QED
  BY <1>1, <1>3

(* A write to a ring that is not full appends one element.                 *)
LEMMA WriteAppends ==
  ASSUME RingOK, NEW T, buffer \in [Slots -> T], NEW x,
         queue_write(x), ~isFull
  PROVE  /\ RingOK'
         /\ buffer' \in [Slots -> T \cup {x}]
         /\ currentSize' = currentSize + 1
         /\ Contents' = Append(Contents, x)
<1> USE QueueSizeAssumption
<1>1. /\ buffer' = [buffer EXCEPT ![rear] = x]
      /\ rear' = (rear + 1) % QueueSize
      /\ currentSize' = currentSize + 1
      /\ front' = front
  BY DEF queue_write, rear_go
<1>2. currentSize + 1 \in 0 .. QueueSize - 1
  BY FillLevelsAgree DEF RingOK
<1>3. front \in Slots /\ currentSize \in 0 .. QueueSize - 1
  BY DEF RingOK
<1>4. /\ rear = IF front + currentSize < QueueSize THEN front + currentSize
                                                  ELSE front + currentSize - QueueSize
      /\ rear' = (front + (currentSize + 1)) % QueueSize
  BY <1>1, <1>3, StepWraps DEF RingOK
<1>5. RingOK'
  <2>1. rear' \in Slots
    BY <1>2, <1>3, <1>4, StepWraps
  <2>2. QED  BY <1>1, <1>2, <1>3, <1>4, <2>1 DEF RingOK
<1>6. Contents' = Append(Contents, x)
  <2>1. /\ Contents \in Seq(T)
        /\ Len(Contents) = currentSize
        /\ currentSize \in Nat
    BY ContentsType DEF RingOK
  <2>2. /\ Append(Contents, x) \in Seq(T \cup {x})
        /\ Len(Append(Contents, x)) = currentSize + 1
        /\ Append(Contents, x)[currentSize + 1] = x
        /\ \A i \in 1 .. currentSize : Append(Contents, x)[i] = Contents[i]
    <3>1. Contents \in Seq(T \cup {x})
      BY <2>1
    <3>2. QED  BY <2>1, <3>1
  <2>3. ASSUME NEW i \in 1 .. currentSize + 1
        PROVE  buffer'[(front + i - 1) % QueueSize] = Append(Contents, x)[i]
    <3>1. i \in 1 .. QueueSize
      BY <1>2
    <3>2. CASE i = currentSize + 1
      BY <3>2, <2>2, <1>1, <1>4, <3>1, SlotInRange DEF RingOK, Slots
    <3>3. CASE i \in 1 .. currentSize
      <4>1. (front + i - 1) % QueueSize # rear
        BY <3>1, <3>3, <1>2, <1>4, SlotInRange DEF RingOK, Slots
      <4>2. (front + i - 1) % QueueSize \in Slots
        BY <3>1, SlotInRange
      <4>3. QED  BY <4>1, <4>2, <3>3, <2>2, <1>1 DEF Contents
    <3>4. i = currentSize + 1 \/ i \in 1 .. currentSize
      BY <2>1
    <3>5. QED  BY <3>2, <3>3, <3>4
  <2>4. Contents' = [i \in 1 .. currentSize + 1 |-> Append(Contents, x)[i]]
    BY <2>3, <1>1 DEF Contents
  <2>5. /\ Contents' \in Seq(T \cup {x})
        /\ Len(Contents') = currentSize + 1
        /\ \A i \in 1 .. currentSize + 1 : Contents'[i] = Append(Contents, x)[i]
    <3>1. \A i \in 1 .. currentSize + 1 : Append(Contents, x)[i] \in T \cup {x}
      BY <2>1, <2>2
    <3>2. Contents' \in [1 .. currentSize + 1 -> T \cup {x}]
      BY <2>4, <3>1
    <3>3. QED  BY <3>2, <2>1, <2>4
  <2>6. QED  BY <2>2, <2>5, SeqEqual
<1>7. buffer' \in [Slots -> T \cup {x}]
  BY <1>1
<1>8. QED
  BY <1>1, <1>5, <1>6, <1>7

(* The oldest waiting element is the one in the slot front names.         *)
LEMMA HeadIsFront ==
  ASSUME RingOK, NEW T, buffer \in [Slots -> T], ~isEmpty
  PROVE  Contents # <<>> /\ Head(Contents) = buffer[front]
<1>1. currentSize \in 1 .. QueueSize - 1
  BY FillLevelsAgree, QueueSizeAssumption DEF RingOK
<1>2. /\ Contents \in Seq(T)
      /\ Len(Contents) = currentSize
  BY ContentsType
<1>3. Contents[1] = buffer[(front + 1 - 1) % QueueSize]
  BY <1>1, QueueSizeAssumption DEF Contents
<1>4. (front + 1 - 1) % QueueSize = front
  BY <1>1, SlotInRange, QueueSizeAssumption DEF RingOK, Slots
<1>5. QED
  BY <1>1, <1>2, <1>3, <1>4

(* A read of a ring that is not empty removes the oldest element.          *)
LEMMA ReadTakesHead ==
  ASSUME RingOK, NEW T, buffer \in [Slots -> T], queue_read, ~isEmpty
  PROVE  /\ RingOK'
         /\ buffer' = buffer
         /\ currentSize' = currentSize - 1
         /\ Contents # <<>>
         /\ Head(Contents) = buffer[front]
         /\ Contents' = Tail(Contents)
<1> USE QueueSizeAssumption
<1>1. /\ front' = (front + 1) % QueueSize
      /\ currentSize' = currentSize - 1
      /\ buffer' = buffer
      /\ rear' = rear
  BY DEF queue_read, front_go
<1>2. currentSize \in 1 .. QueueSize - 1
  BY FillLevelsAgree DEF RingOK
<1>3. /\ front \in Slots
      /\ front' \in Slots
      /\ front' = IF front + 1 < QueueSize THEN front + 1 ELSE 0
  BY <1>1, StepWraps DEF RingOK
<1>4. rear = (front' + currentSize') % QueueSize
  <2>1. currentSize - 1 \in 0 .. QueueSize - 1 /\ (currentSize - 1) + 1 = currentSize
    BY <1>2
  <2>2. (((front + 1) % QueueSize) + (currentSize - 1)) % QueueSize
          = (front + ((currentSize - 1) + 1)) % QueueSize
    BY <2>1, <1>3, StepWraps
  <2>3. QED  BY <1>1, <2>1, <2>2 DEF RingOK
<1>5. RingOK'
  BY <1>1, <1>2, <1>3, <1>4 DEF RingOK, Slots
<1>6. /\ Contents \in Seq(T)
      /\ Len(Contents) = currentSize
  BY ContentsType
<1>7. Contents # <<>> /\ Head(Contents) = buffer[front]
  BY HeadIsFront
<1>8. Contents' = Tail(Contents)
  <2>1. /\ Tail(Contents) \in Seq(T)
        /\ Len(Tail(Contents)) = currentSize - 1
        /\ \A i \in 1 .. currentSize - 1 : Tail(Contents)[i] = Contents[i + 1]
    BY <1>2, <1>6, <1>7
  <2>2. ASSUME NEW i \in 1 .. currentSize - 1
        PROVE  buffer[(front' + i - 1) % QueueSize] = Tail(Contents)[i]
    <3>1. i \in 1 .. QueueSize /\ i + 1 \in 1 .. QueueSize /\ i + 1 \in 1 .. currentSize
      BY <1>2
    <3>2. i - 1 \in 0 .. QueueSize - 1 /\ (i - 1) + 1 = i
      BY <3>1
    <3>3. (((front + 1) % QueueSize) + (i - 1)) % QueueSize
            = (front + ((i - 1) + 1)) % QueueSize
      BY <3>2, <1>3, StepWraps
    <3>4. (front' + i - 1) % QueueSize = (front + (i + 1) - 1) % QueueSize
      <4>1. front' + i - 1 = ((front + 1) % QueueSize) + (i - 1)
        BY <1>1, <1>3, <3>1 DEF Slots
      <4>2. front + (i + 1) - 1 = front + ((i - 1) + 1)
        BY <1>3, <3>1 DEF Slots
      <4>3. QED  BY <3>3, <4>1, <4>2
    <3>5. Contents[i + 1] = buffer[(front + (i + 1) - 1) % QueueSize]
      BY <3>1 DEF Contents
    <3>6. QED  BY <3>4, <3>5, <2>1
  <2>3. Contents' = [i \in 1 .. currentSize - 1 |-> Tail(Contents)[i]]
    BY <2>2, <1>1 DEF Contents
  <2>4. /\ Contents' \in Seq(T)
        /\ Len(Contents') = currentSize - 1
        /\ \A i \in 1 .. currentSize - 1 : Contents'[i] = Tail(Contents)[i]
    <3>1. currentSize - 1 \in Nat
      BY <1>2
    <3>2. \A i \in 1 .. currentSize - 1 : Tail(Contents)[i] \in T
      BY <2>1, <3>1
    <3>3. Contents' \in [1 .. currentSize - 1 -> T]
      BY <2>3, <3>2
    <3>4. \A n \in Nat : \A f \in [1 .. n -> T] : f \in Seq(T) /\ Len(f) = n
      OBVIOUS
    <3>5. Contents' \in Seq(T) /\ Len(Contents') = currentSize - 1
      BY <3>1, <3>3, <3>4
    <3>6. QED  BY <3>5, <2>3
  <2>5. QED  BY <2>1, <2>4, SeqEqual
<1>9. QED
  BY <1>1, <1>5, <1>7, <1>8
=============================================================================
