---------------------------- MODULE QueueProofs -----------------------------
(***************************************************************************)
(* Proofs that the bucketed queue is a FIFO and reuses its memory, for     *)
(* every bucket count, bucket size and number of waiting jobs.             *)
(***************************************************************************)
EXTENDS Queue, TLAPS

(* The array holds each bucket at most once. *)
BucketsOnce ==
  \A p, q \in Places : buckets[p] = buckets[q] => p = q

(* The list is a whole number of buckets, filled up to length. *)
Shape ==
  /\ \E n \in Nat \ {0} : capacity = BucketSize * n
  /\ position <= length /\ length <= capacity
  /\ QueueLength <= MaxPending

(* Every waiting cell has been written. *)
WaitingWritten ==
  \A i \in Nat : position <= i /\ i < length => ListGet(i) \in Value

IInv == TypeOK /\ Shape /\ BucketsOnce /\ WaitingWritten /\ MemoryReused

-----------------------------------------------------------------------------

(* An index is its bucket and its offset: nothing else. *)
LEMMA Split ==
  ASSUME NEW i \in Nat
  PROVE  /\ BucketOf(i) \in Nat /\ OffsetOf(i) \in Offsets
         /\ i = BucketSize * BucketOf(i) + OffsetOf(i)
  BY QueueAssumption, SMT DEF BucketOf, OffsetOf, Offsets

LEMMA Join ==
  ASSUME NEW b \in Nat, NEW o \in Offsets
  PROVE  /\ BucketSize * b + o \in Nat
         /\ BucketOf(BucketSize * b + o) = b
         /\ OffsetOf(BucketSize * b + o) = o
  BY QueueAssumption, SMT DEF BucketOf, OffsetOf, Offsets

(* One bucket further on, the offset is the same. *)
LEMMA OneBucketOn ==
  ASSUME NEW i \in Nat
  PROVE  /\ i + BucketSize \in Nat
         /\ BucketOf(i + BucketSize) = BucketOf(i) + 1
         /\ OffsetOf(i + BucketSize) = OffsetOf(i)
<1>1. /\ BucketOf(i) + 1 \in Nat /\ OffsetOf(i) \in Offsets
      /\ i + BucketSize = BucketSize * (BucketOf(i) + 1) + OffsetOf(i)
  <2> DEFINE b == BucketOf(i)
             o == OffsetOf(i)
  <2>1. b \in Nat /\ o \in Offsets /\ o \in Int /\ i = BucketSize * b + o
    BY Split DEF Offsets
  <2> HIDE DEF b, o
  <2>2. BucketSize * (b + 1) = BucketSize * b + BucketSize /\ BucketSize * b \in Nat
    BY <2>1, QueueAssumption, SMT
  <2>3. b + 1 \in Nat /\ i + BucketSize = BucketSize * (b + 1) + o
    BY <2>1, <2>2, QueueAssumption
  <2> QED
    BY <2>1, <2>3 DEF b, o
<1> QED
  BY <1>1, Join, QueueAssumption

(* An index below n buckets lies in one of the n buckets. *)
LEMMA Below ==
  ASSUME NEW n \in Nat, NEW i \in Nat
  PROVE  /\ BucketOf(BucketSize * n) = n
         /\ i < BucketSize * n <=> BucketOf(i) \in 0 .. n - 1
<1>1. 0 \in Offsets
  BY QueueAssumption DEF Offsets
<1>2. BucketOf(BucketSize * n) = n
  BY <1>1, QueueAssumption, SMT DEF BucketOf
<1>3. /\ BucketOf(i) \in Nat /\ OffsetOf(i) \in Nat /\ OffsetOf(i) < BucketSize
      /\ i = BucketSize * BucketOf(i) + OffsetOf(i)
  BY Split, QueueAssumption DEF Offsets
<1> DEFINE b == BucketOf(i)
<1> HIDE DEF b
<1>4. b \in Nat /\ OffsetOf(i) \in Nat /\ OffsetOf(i) < BucketSize
      /\ i = BucketSize * b + OffsetOf(i)
  BY <1>3 DEF b
<1>5. CASE b < n
  <2>1. BucketSize * b + BucketSize <= BucketSize * n
    BY <1>4, <1>5, QueueAssumption, SMT
  <2>2. BucketSize * b \in Nat /\ BucketSize * n \in Nat
    BY <1>4, QueueAssumption, SMT
  <2>3. i < BucketSize * n
    BY <1>4, <2>1, <2>2, QueueAssumption
  <2> QED
    BY <1>2, <1>4, <1>5, <2>3 DEF b
<1>6. CASE n <= b
  <2>1. BucketSize * n <= BucketSize * b
    BY <1>4, <1>6, QueueAssumption, SMT
  <2>2. BucketSize * b \in Nat /\ BucketSize * n \in Nat
    BY <1>4, QueueAssumption, SMT
  <2>3. ~(i < BucketSize * n)
    BY <1>4, <2>1, <2>2, QueueAssumption
  <2> QED
    BY <1>2, <1>4, <1>6, <2>3 DEF b
<1> QED
  BY <1>4, <1>5, <1>6

(* What the invariant says of the number of buckets. *)
LEMMA ShapeFacts ==
  ASSUME IInv
  PROVE  \E n \in Nat \ {0} :
           /\ capacity = BucketSize * n /\ BucketOf(capacity) = n
           /\ Places = 0 .. n - 1
           /\ \A i \in Nat : i < capacity => BucketOf(i) \in Places
<1>1. PICK n \in Nat \ {0} : capacity = BucketSize * n
  BY DEF IInv, Shape
<1>2. BucketOf(capacity) = n /\ Places = 0 .. n - 1
  BY <1>1, Below DEF Places
<1> QED
  BY <1>1, <1>2, Below

-----------------------------------------------------------------------------

LEMMA InitIInv == Init => IInv
<1> SUFFICES ASSUME Init PROVE IInv
  OBVIOUS
<1>1. capacity = BucketSize * BucketCount /\ length = 0 /\ position = 0
  BY DEF Init
<1>2. BucketSize * BucketCount \in Nat
  BY QueueAssumption, SMT
<1>3. Places = 0 .. BucketCount - 1
  BY <1>1, Below, QueueAssumption DEF Places
<1>4. /\ buckets \in [Places -> Places]
      /\ memory \in [Places -> [Offsets -> Value \cup {Garbage}]]
      /\ BucketsOnce
  BY <1>3 DEF Init, FreshBucket, BucketsOnce
<1>5. TypeOK
  BY <1>1, <1>2, <1>4, QueueAssumption DEF TypeOK, Offsets, Init
<1>6. Shape
  BY <1>1, <1>2, QueueAssumption DEF Shape, QueueLength
<1> QED
  BY <1>1, <1>4, <1>5, <1>6 DEF IInv, WaitingWritten, MemoryReused

(* The growth of list_append: afterwards the index length has a bucket, the *)
(* array still holds each bucket once, and what was stored is still there.  *)
LEMMA Growth ==
  ASSUME IInv, NEW v \in Value, Add(v)
  PROVE  /\ capacity' \in Nat /\ length < capacity'
         /\ \E n \in Nat \ {0} : capacity' = BucketSize * n /\ Places' = 0 .. n - 1
         /\ Places \subseteq Places'
         /\ BucketsToWrite \in [Places' -> Places']
         /\ MemoryToWrite \in [Places' -> [Offsets -> Value \cup {Garbage}]]
         /\ \A p, q \in Places' : BucketsToWrite[p] = BucketsToWrite[q] => p = q
         /\ \A p \in Places : BucketsToWrite[p] = buckets[p]
         /\ \A b \in Places : MemoryToWrite[b] = memory[b]
<1>1. PICK n \in Nat \ {0} :
        capacity = BucketSize * n /\ BucketOf(capacity) = n /\ Places = 0 .. n - 1
  BY ShapeFacts
<1>2. /\ length \in Nat /\ capacity \in Nat /\ length <= capacity
      /\ buckets \in [Places -> Places] /\ BucketsOnce
      /\ memory \in [Places -> [Offsets -> Value \cup {Garbage}]]
  BY DEF IInv, TypeOK, Shape
<1>3. CASE Grown
  <2>1. capacity' = capacity + BucketSize
    BY <1>3 DEF Add
  <2>2. capacity' = BucketSize * (n + 1)
    BY <1>1, <2>1, QueueAssumption, SMT
  <2>3. Places' = 0 .. n
  <3>1. BucketOf(capacity') = n + 1
    BY <1>1, <2>2, Below
  <3>2. Places' = 0 .. BucketOf(capacity') - 1
    BY DEF Places, BucketOf
  <3> QED
    BY <1>1, <3>1, <3>2
  <2>4. /\ BucketsToWrite = [p \in 0 .. n |-> IF p \in Places THEN buckets[p] ELSE n]
        /\ MemoryToWrite = [b \in 0 .. n |-> IF b \in Places THEN memory[b]
                                                            ELSE FreshBucket]
    BY <1>1, <1>3 DEF BucketsToWrite, MemoryToWrite
  <2>5. FreshBucket \in [Offsets -> Value \cup {Garbage}]
    BY DEF FreshBucket
  <2>6. capacity' \in Nat /\ length < capacity'
    BY <1>2, <2>1, QueueAssumption
  <2>7. BucketsToWrite \in [Places' -> Places']
    BY <1>1, <1>2, <2>3, <2>4
  <2>8. MemoryToWrite \in [Places' -> [Offsets -> Value \cup {Garbage}]]
    BY <1>1, <1>2, <2>3, <2>4, <2>5
  <2>9. \A p, q \in Places' : BucketsToWrite[p] = BucketsToWrite[q] => p = q
    BY <1>1, <1>2, <2>3, <2>4 DEF BucketsOnce
  <2>10. /\ Places \subseteq Places'
         /\ \A p \in Places : BucketsToWrite[p] = buckets[p]
         /\ \A b \in Places : MemoryToWrite[b] = memory[b]
    BY <1>1, <2>3, <2>4
  <2>11. n + 1 \in Nat \ {0} /\ Places' = 0 .. (n + 1) - 1
    BY <1>1, <2>3
  <2> QED
    BY <2>2, <2>6, <2>7, <2>8, <2>9, <2>10, <2>11
<1>4. CASE ~Grown
  <2>1. capacity' = capacity /\ length < capacity
    BY <1>2, <1>4 DEF Add, Grown
  <2>2. Places' = Places
    BY <2>1 DEF Places, BucketOf
  <2>3. BucketsToWrite = buckets /\ MemoryToWrite = memory
    BY <1>4 DEF BucketsToWrite, MemoryToWrite
  <2> QED
    BY <1>1, <1>2, <2>1, <2>2, <2>3 DEF BucketsOnce
<1> QED
  BY <1>3, <1>4

(* Add puts the value at the index length and disturbs nothing that waits.  *)
LEMMA AddStep ==
  ASSUME IInv, NEW v \in Value, Add(v)
  PROVE  /\ IInv'
         /\ length' = length + 1 /\ position' = position /\ pulled' = pulled
         /\ memory'[buckets'[BucketOf(length)]][OffsetOf(length)] = v
         /\ \A i \in Nat :
              i < length =>
                memory'[buckets'[BucketOf(i)]][OffsetOf(i)] = ListGet(i)
<1> DEFINE B == BucketsToWrite
           M == MemoryToWrite
           P == Places'
           b == BucketOf(length)
           o == OffsetOf(length)
<1>1. /\ capacity' \in Nat /\ length < capacity'
      /\ \E n \in Nat \ {0} : capacity' = BucketSize * n /\ P = 0 .. n - 1
      /\ Places \subseteq P
      /\ B \in [P -> P] /\ M \in [P -> [Offsets -> Value \cup {Garbage}]]
      /\ \A p, q \in P : B[p] = B[q] => p = q
      /\ \A p \in Places : B[p] = buckets[p]
      /\ \A c \in Places : M[c] = memory[c]
  BY Growth
<1>2. /\ length \in Nat /\ position \in Nat /\ capacity \in Nat
      /\ length <= capacity /\ position <= length /\ position <= BucketSize - 1
      /\ buckets \in [Places -> Places]
      /\ pulled \in Seq(Value \cup {Garbage}) /\ position \in Offsets
  BY DEF IInv, TypeOK, Shape, Offsets
<1>3. /\ buckets' = B
      /\ memory' = [M EXCEPT ![B[b]][o] = v]
      /\ length' = length + 1 /\ position' = position /\ pulled' = pulled
      /\ capacity' = IF length >= capacity THEN capacity + BucketSize ELSE capacity
      /\ QueueLength < MaxPending
  BY DEF Add, Grown
<1>4. b \in P /\ o \in Offsets
  <2>1. PICK n \in Nat \ {0} : capacity' = BucketSize * n /\ P = 0 .. n - 1
    BY <1>1
  <2> QED
    BY <1>1, <1>2, <2>1, Below, Split
<1> HIDE DEF B, M, P, b, o
<1>5. /\ memory' \in [P -> [Offsets -> Value \cup {Garbage}]]
      /\ memory'[B[b]][o] = v
      /\ \A c \in P, x \in Offsets :
           c # B[b] \/ x # o => memory'[c][x] = M[c][x]
  BY <1>1, <1>3, <1>4
<1>6. ASSUME NEW i \in Nat, i < length
      PROVE  memory'[buckets'[BucketOf(i)]][OffsetOf(i)] = ListGet(i)
  <2>1. BucketOf(i) \in Places /\ OffsetOf(i) \in Offsets
    <3>1. i < capacity
      BY <1>2, <1>6
    <3> QED
      BY <3>1, ShapeFacts, Split
  <2>2. BucketOf(i) # b \/ OffsetOf(i) # o
    <3>1. /\ i = BucketSize * BucketOf(i) + OffsetOf(i)
          /\ length = BucketSize * b + o
      BY <1>2, Split DEF b, o
    <3> QED
      BY <3>1, <1>2, <1>6
  <2>3. B[BucketOf(i)] = buckets[BucketOf(i)] /\ buckets[BucketOf(i)] \in Places
    BY <1>1, <1>2, <2>1
  <2>4. B[BucketOf(i)] # B[b] \/ OffsetOf(i) # o
    BY <1>1, <1>4, <2>1, <2>2
  <2>5. memory'[B[BucketOf(i)]][OffsetOf(i)] = M[B[BucketOf(i)]][OffsetOf(i)]
    BY <1>1, <1>5, <2>1, <2>4
  <2> QED
    BY <1>1, <1>3, <2>3, <2>5 DEF ListGet
<1>7. TypeOK'
  <2>1. capacity' \in Nat /\ length' \in Nat
    BY <1>2, <1>3, QueueAssumption
  <2>2. buckets' \in [Places' -> Places']
    BY <1>1, <1>3 DEF P
  <2>3. memory' \in [Places' -> [Offsets -> Value \cup {Garbage}]]
    BY <1>5 DEF P
  <2> QED
    BY <1>2, <1>3, <2>1, <2>2, <2>3 DEF TypeOK
<1>8. Shape'
  <2>1. QueueLength' <= MaxPending
    BY <1>2, <1>3, QueueAssumption DEF QueueLength
  <2> QED
    BY <1>1, <1>2, <1>3, <2>1 DEF Shape
<1>9. BucketsOnce'
  BY <1>1, <1>3 DEF BucketsOnce, P
<1>10. WaitingWritten'
  <2> SUFFICES ASSUME NEW i \in Nat, position <= i, i < length + 1
               PROVE  memory'[buckets'[BucketOf(i)]][OffsetOf(i)] \in Value
    BY <1>3 DEF WaitingWritten, ListGet, BucketOf, OffsetOf
  <2>1. CASE i < length
    BY <1>6, <2>1 DEF IInv, WaitingWritten
  <2>2. CASE i = length
    BY <1>3, <1>5, <2>2 DEF b, o
  <2> QED
    BY <1>2, <2>1, <2>2
<1>11. MemoryReused'
  <2>1. CASE length >= capacity
    <3>1. length - position < MaxPending /\ capacity <= length
      BY <1>2, <1>3, <2>1 DEF QueueLength
    <3>2. capacity' <= MaxPending + 2 * BucketSize - 2
      BY <1>2, <1>3, <2>1, <3>1, QueueAssumption
    <3> QED
      BY <3>2 DEF MemoryReused, MemoryBound
  <2>2. CASE ~(length >= capacity)
    BY <1>3, <2>2 DEF IInv, MemoryReused, MemoryBound
  <2> QED
    BY <2>1, <2>2
<1> QED
  BY <1>3, <1>5, <1>6, <1>7, <1>8, <1>9, <1>10, <1>11 DEF IInv, b, o

(* Pull hands out the oldest waiting value and keeps all others, in order,  *)
(* at indices that may have moved down by one bucket.                       *)
LEMMA PullStep ==
  ASSUME IInv, Pull
  PROVE  /\ IInv'
         /\ pulled' = <<ListGet(position)>>
         /\ QueueLength \in Nat \ {0} /\ QueueLength' = QueueLength - 1
         /\ \A k \in Nat :
              k < QueueLength - 1 =>
                memory'[buckets'[BucketOf(position' + k)]][OffsetOf(position' + k)]
                  = ListGet(position + 1 + k)
<1>1. /\ length \in Nat /\ position \in Nat /\ capacity \in Nat
      /\ length <= capacity /\ position < length /\ position <= BucketSize - 1
      /\ buckets \in [Places -> Places]
      /\ memory \in [Places -> [Offsets -> Value \cup {Garbage}]]
      /\ pulled \in Seq(Value \cup {Garbage})
  BY DEF IInv, TypeOK, Shape, Offsets, Pull, QueueLength
<1>2. PICK n \in Nat \ {0} :
        /\ capacity = BucketSize * n /\ Places = 0 .. n - 1
        /\ \A i \in Nat : i < capacity => BucketOf(i) \in Places
  BY ShapeFacts
<1>3. /\ pulled' = <<ListGet(position)>> /\ capacity' = capacity /\ memory' = memory
      /\ Places' = Places
  BY DEF Pull, Places, BucketOf
<1>4. ListGet(position) \in Value
  BY <1>1 DEF IInv, WaitingWritten
<1>5. CASE ~BucketDrained
  <2>1. position' = position + 1 /\ length' = length /\ buckets' = buckets
    BY <1>5 DEF Pull
  <2>2. position' \in Offsets
    BY <1>1, <1>5, <2>1, QueueAssumption DEF BucketDrained, Offsets
  <2>3. TypeOK'
    BY <1>1, <1>3, <1>4, <2>1, <2>2 DEF TypeOK
  <2>4. \A i \in Nat : ListGet(i)' = ListGet(i)
    BY <1>3, <2>1 DEF ListGet, BucketOf, OffsetOf
  <2>5. Shape' /\ BucketsOnce' /\ WaitingWritten' /\ MemoryReused'
    <3>1. length - position <= MaxPending /\ length' - position' <= MaxPending
      BY <1>1, <2>1, QueueAssumption DEF IInv, Shape, QueueLength
    <3>2. Shape'
      BY <1>1, <1>2, <1>3, <2>1, <3>1 DEF Shape, QueueLength
    <3>3. BucketsOnce' /\ MemoryReused'
      BY <1>3, <2>1 DEF IInv, BucketsOnce, MemoryReused, MemoryBound
    <3>4. WaitingWritten'
      BY <1>1, <2>1, <2>4 DEF IInv, WaitingWritten
    <3> QED
      BY <3>2, <3>3, <3>4
  <2>6. \A k \in Nat :
          memory'[buckets'[BucketOf(position' + k)]][OffsetOf(position' + k)]
            = ListGet(position + 1 + k)
    BY <1>1, <1>3, <2>1 DEF ListGet
  <2>7. QueueLength \in Nat \ {0} /\ QueueLength' = QueueLength - 1
    BY <1>1, <2>1 DEF QueueLength
  <2>8. IInv'
    BY <2>3, <2>5 DEF IInv
  <2> QED
    BY <1>3, <2>6, <2>7, <2>8
<1>6. CASE BucketDrained
  <2>1. /\ position' = 0 /\ length' = length - BucketSize /\ buckets' = Rotated
        /\ position = BucketSize - 1
    BY <1>1, <1>6, QueueAssumption DEF Pull, BucketDrained
  <2>2. /\ Rotated \in [Places -> Places]
        /\ \A p, q \in Places : Rotated[p] = Rotated[q] => p = q
        /\ \A p \in Places : p + 1 \in Places => Rotated[p] = buckets[p + 1]
    <3>1. /\ \A p, q \in Places : buckets[p] = buckets[q] => p = q
          /\ 0 \in Places
      BY <1>2 DEF IInv, BucketsOnce
    <3>2. /\ Rotated \in [Places -> Places]
          /\ \A p \in Places :
               Rotated[p] = IF p + 1 \in Places THEN buckets[p + 1] ELSE buckets[0]
      BY <1>1, <3>1 DEF Rotated
    <3>3. ASSUME NEW p \in Places, NEW q \in Places, Rotated[p] = Rotated[q]
          PROVE  p = q
      <4>1. p \in 0 .. n - 1 /\ q \in 0 .. n - 1
        BY <1>2
      <4>2. CASE p + 1 \in Places /\ q + 1 \in Places
        BY <3>1, <3>2, <3>3, <4>1, <4>2
      <4>3. CASE p + 1 \notin Places /\ q + 1 \notin Places
        BY <1>2, <4>1, <4>3
      <4>4. CASE p + 1 \in Places /\ q + 1 \notin Places
        <5>1. p + 1 = 0
          BY <3>1, <3>2, <3>3, <4>4
        <5> QED
          BY <4>1, <5>1
      <4>5. CASE p + 1 \notin Places /\ q + 1 \in Places
        <5>1. q + 1 = 0
          BY <3>1, <3>2, <3>3, <4>5
        <5> QED
          BY <4>1, <5>1
      <4> QED
        BY <4>2, <4>3, <4>4, <4>5
    <3> QED
      BY <3>2, <3>3
  <2>3. /\ length' \in Nat /\ length' <= capacity
        /\ QueueLength' = QueueLength - 1 /\ QueueLength \in Nat \ {0}
    BY <1>1, <2>1, QueueAssumption DEF QueueLength
  <2>4. TypeOK'
    BY <1>1, <1>3, <1>4, <2>1, <2>2, <2>3, QueueAssumption DEF TypeOK, Offsets
  <2>5. ASSUME NEW i \in Nat, i < length'
        PROVE  memory'[buckets'[BucketOf(i)]][OffsetOf(i)] = ListGet(i + BucketSize)
    <3>1. /\ i + BucketSize \in Nat /\ i + BucketSize < capacity /\ i < capacity
      BY <1>1, <2>1, <2>5, QueueAssumption
    <3>2. BucketOf(i) \in Places /\ BucketOf(i) + 1 \in Places
      BY <1>2, <3>1, OneBucketOn
    <3> QED
      BY <1>3, <2>1, <2>2, <3>2, OneBucketOn DEF ListGet
  <2>6. Shape'
    <3>1. QueueLength <= MaxPending /\ QueueLength' <= MaxPending
      BY <2>3, QueueAssumption DEF IInv, Shape
    <3> QED
      BY <1>2, <1>3, <2>1, <2>3, <3>1 DEF Shape
  <2>7. BucketsOnce'
    BY <1>3, <2>1, <2>2 DEF BucketsOnce
  <2>8. WaitingWritten'
    <3> SUFFICES ASSUME NEW i \in Nat, i < length'
                 PROVE  memory'[buckets'[BucketOf(i)]][OffsetOf(i)] \in Value
      BY DEF WaitingWritten, ListGet, BucketOf, OffsetOf
    <3>1. /\ i + BucketSize \in Nat
          /\ position <= i + BucketSize /\ i + BucketSize < length
      BY <1>1, <2>1, QueueAssumption
    <3> QED
      BY <2>5, <3>1 DEF IInv, WaitingWritten
  <2>9. MemoryReused'
    BY <1>3 DEF IInv, MemoryReused, MemoryBound
  <2>10. ASSUME NEW k \in Nat, k < QueueLength - 1
         PROVE  memory'[buckets'[BucketOf(position' + k)]][OffsetOf(position' + k)]
                  = ListGet(position + 1 + k)
    <3>1. position' + k = k /\ k < length' /\ position + 1 + k = k + BucketSize
      BY <1>1, <2>1, <2>10, QueueAssumption DEF QueueLength
    <3> QED
      BY <2>5, <3>1
  <2> QED
    BY <1>3, <2>3, <2>4, <2>6, <2>7, <2>8, <2>9, <2>10 DEF IInv
<1> QED
  BY <1>5, <1>6

-----------------------------------------------------------------------------

(* Contents is the sequence of the waiting values. *)
ContentsOK ==
  /\ QueueLength \in Nat
  /\ Contents \in Seq(Value) /\ Len(Contents) = QueueLength
  /\ \A i \in 1 .. QueueLength : Contents[i] = ListGet(position + i - 1)

LEMMA ContentsFacts == IInv => ContentsOK
<1> SUFFICES ASSUME IInv PROVE ContentsOK
  OBVIOUS
<1>1. /\ length \in Nat /\ position \in Nat /\ position <= length
      /\ QueueLength \in Nat
  BY DEF IInv, TypeOK, Shape, QueueLength, Offsets
<1>2. \A i \in 1 .. QueueLength : ListGet(position + i - 1) \in Value
  <2> SUFFICES ASSUME NEW i \in 1 .. QueueLength
               PROVE  ListGet(position + i - 1) \in Value
    OBVIOUS
  <2>1. /\ position + i - 1 \in Nat /\ position <= position + i - 1
        /\ position + i - 1 < length
    BY <1>1 DEF QueueLength
  <2> QED
    BY <2>1 DEF IInv, WaitingWritten
<1> QED
  BY <1>1, <1>2 DEF Contents, ContentsOK

(* Two sequences with the same elements are the same. *)
LEMMA SameSequence ==
  ASSUME NEW S, NEW s \in Seq(S), NEW t \in Seq(S), Len(s) = Len(t),
         \A i \in 1 .. Len(s) : s[i] = t[i]
  PROVE  s = t
  OBVIOUS

LEMMA AddIsPut ==
  ASSUME IInv, NEW v \in Value, Add(v)
  PROVE  IInv' /\ Promise!Put(v)
<1>1. /\ IInv' /\ length' = length + 1 /\ position' = position /\ pulled' = pulled
      /\ memory'[buckets'[BucketOf(length)]][OffsetOf(length)] = v
      /\ \A i \in Nat :
           i < length => memory'[buckets'[BucketOf(i)]][OffsetOf(i)] = ListGet(i)
  BY AddStep
<1>2. /\ length \in Nat /\ position \in Nat /\ position <= length
  BY DEF IInv, TypeOK, Shape, Offsets
<1>3. /\ Contents \in Seq(Value) /\ Len(Contents) = QueueLength /\ QueueLength \in Nat
      /\ \A i \in 1 .. QueueLength : Contents[i] = ListGet(position + i - 1)
  BY ContentsFacts DEF ContentsOK
<1>4. /\ Contents' \in Seq(Value) /\ Len(Contents') = QueueLength + 1
      /\ \A i \in 1 .. QueueLength + 1 :
           Contents'[i] = memory'[buckets'[BucketOf(position + i - 1)]]
                                 [OffsetOf(position + i - 1)]
  <2>1. /\ Contents' \in Seq(Value) /\ Len(Contents') = QueueLength'
        /\ \A i \in 1 .. QueueLength' : Contents'[i] = ListGet(position + i - 1)'
    <3>1. ContentsOK'
      BY <1>1, ContentsFacts, PTL
    <3> QED
      BY <3>1 DEF ContentsOK
  <2>2. QueueLength' = QueueLength + 1
    BY <1>1, <1>2 DEF QueueLength
  <2> QED
    BY <1>1, <2>1, <2>2 DEF ListGet, BucketOf, OffsetOf
<1>5. \A i \in 1 .. QueueLength + 1 :
        Contents'[i] = IF i <= QueueLength THEN Contents[i] ELSE v
  <2> SUFFICES ASSUME NEW i \in 1 .. QueueLength + 1
               PROVE  Contents'[i] = IF i <= QueueLength THEN Contents[i] ELSE v
    OBVIOUS
  <2>1. CASE i <= QueueLength
    <3>1. position + i - 1 \in Nat /\ position + i - 1 < length
      BY <1>2, <2>1 DEF QueueLength
    <3> QED
      BY <1>1, <1>3, <1>4, <2>1, <3>1
  <2>2. CASE i = QueueLength + 1
    <3>1. position + i - 1 = length
      BY <1>2, <2>2 DEF QueueLength
    <3> QED
      BY <1>1, <1>3, <1>4, <2>2, <3>1
  <2> QED
    BY <1>3, <2>1, <2>2
<1>6. /\ Append(Contents, v) \in Seq(Value)
      /\ Len(Append(Contents, v)) = QueueLength + 1
      /\ \A i \in 1 .. QueueLength + 1 :
           Append(Contents, v)[i] = IF i <= QueueLength THEN Contents[i] ELSE v
  BY <1>3
<1>7. Contents' = Append(Contents, v)
  BY <1>4, <1>5, <1>6, SameSequence
<1> QED
  BY <1>1, <1>7 DEF Promise!Put

LEMMA PullIsGet ==
  ASSUME IInv, Pull
  PROVE  IInv' /\ Promise!Get
<1>1. /\ IInv' /\ pulled' = <<ListGet(position)>>
      /\ QueueLength \in Nat \ {0} /\ QueueLength' = QueueLength - 1
      /\ \A k \in Nat :
           k < QueueLength - 1 =>
             memory'[buckets'[BucketOf(position' + k)]][OffsetOf(position' + k)]
               = ListGet(position + 1 + k)
  BY PullStep
<1>2. position \in Nat /\ position' \in Nat
  BY <1>1 DEF IInv, TypeOK, Offsets
<1>3. /\ Contents \in Seq(Value) /\ Len(Contents) = QueueLength
      /\ \A i \in 1 .. QueueLength : Contents[i] = ListGet(position + i - 1)
  BY ContentsFacts DEF ContentsOK
<1>4. /\ Contents' \in Seq(Value) /\ Len(Contents') = QueueLength - 1
      /\ \A i \in 1 .. QueueLength - 1 :
           Contents'[i] = memory'[buckets'[BucketOf(position' + i - 1)]]
                                 [OffsetOf(position' + i - 1)]
  <2>1. /\ Contents' \in Seq(Value) /\ Len(Contents') = QueueLength'
        /\ \A i \in 1 .. QueueLength' : Contents'[i] = ListGet(position + i - 1)'
    <3>1. ContentsOK'
      BY <1>1, ContentsFacts, PTL
    <3> QED
      BY <3>1 DEF ContentsOK
  <2> QED
    BY <1>1, <2>1 DEF ListGet, BucketOf, OffsetOf
<1>5. \A i \in 1 .. QueueLength - 1 : Contents'[i] = Contents[i + 1]
  <2> SUFFICES ASSUME NEW i \in 1 .. QueueLength - 1
               PROVE  Contents'[i] = Contents[i + 1]
    OBVIOUS
  <2> DEFINE k == i - 1
  <2>1. /\ k \in Nat /\ k < QueueLength - 1 /\ i + 1 \in 1 .. QueueLength
        /\ position' + i - 1 = position' + k
        /\ position + (i + 1) - 1 = position + 1 + k
    BY <1>1, <1>2
  <2> HIDE DEF k
  <2> QED
    BY <1>1, <1>3, <1>4, <2>1
<1>6. /\ Contents # <<>> /\ Head(Contents) = ListGet(position)
      /\ Tail(Contents) \in Seq(Value) /\ Len(Tail(Contents)) = QueueLength - 1
      /\ \A i \in 1 .. QueueLength - 1 : Tail(Contents)[i] = Contents[i + 1]
  <2>1. position + 1 - 1 = position /\ 1 \in 1 .. QueueLength
    BY <1>1, <1>2
  <2>2. Contents # <<>> /\ Head(Contents) = Contents[1]
    BY <1>1, <1>3
  <2> QED
    BY <1>1, <1>3, <2>1, <2>2
<1>7. Contents' = Tail(Contents)
  BY <1>4, <1>5, <1>6, SameSequence
<1> QED
  BY <1>1, <1>6, <1>7 DEF Promise!Get

LEMMA NextIInv == IInv /\ [Next]_vars => IInv' /\ [Promise!Next]_(Promise!vars)
<1> SUFFICES ASSUME IInv, [Next]_vars
             PROVE  IInv' /\ [Promise!Next]_(Promise!vars)
  OBVIOUS
<1>1. CASE Pull
  BY <1>1, PullIsGet DEF Promise!Next
<1>2. ASSUME NEW v \in Value, Add(v)
      PROVE  IInv' /\ [Promise!Next]_(Promise!vars)
  BY <1>2, AddIsPut DEF Promise!Next
<1>3. CASE UNCHANGED vars
  <2>1. UNCHANGED <<capacity, length, position, buckets, memory, pulled>>
    BY <1>3 DEF vars
  <2>2. Places' = Places /\ QueueLength' = QueueLength
    BY <2>1 DEF Places, BucketOf, QueueLength
  <2>3. \A i : ListGet(i)' = ListGet(i)
    BY <2>1 DEF ListGet, BucketOf, OffsetOf
  <2>4. TypeOK' /\ BucketsOnce'
    BY <2>1, <2>2 DEF IInv, TypeOK, BucketsOnce
  <2>5. Shape' /\ WaitingWritten' /\ MemoryReused'
    BY <2>1, <2>2, <2>3
       DEF IInv, Shape, WaitingWritten, MemoryReused, MemoryBound
  <2>6. Contents' = Contents
    BY <2>1, <2>2, <2>3 DEF Contents
  <2> QED
    BY <2>1, <2>4, <2>5, <2>6 DEF IInv, Promise!vars
<1> QED
  BY <1>1, <1>2, <1>3 DEF Next

THEOREM Invariance == Spec => []IInv
  BY InitIInv, NextIInv, PTL DEF Spec

(* The array keeps holding buckets of the list's own, and their cells       *)
(* values or what malloc left there, whenever list.c grows or queue.c       *)
(* rotates it.                                                              *)
THEOREM TypeCorrect == Spec => []TypeOK
<1>1. IInv => TypeOK
  BY DEF IInv
<1> QED
  BY Invariance, <1>1, PTL

(* The bucketed, rotating queue implements the FIFO it is used as.          *)
THEOREM Refinement == Spec => ImplementsFIFO
<1>1. Init => Promise!Init
  <2> SUFFICES ASSUME Init PROVE Promise!Init
    OBVIOUS
  <2>1. QueueLength = 0
    BY DEF Init, QueueLength
  <2>2. Contents = <<>>
    BY InitIInv, ContentsFacts, <2>1 DEF ContentsOK
  <2> QED
    BY <2>2 DEF Init, Promise!Init
<1> QED
  BY <1>1, InitIInv, NextIInv, PTL DEF Spec, ImplementsFIFO, Promise!Spec

(* The queue never has more cells than it started with or than the most     *)
(* jobs that wait at once need, plus one bucket in front and one behind.    *)
THEOREM MemoryIsReused == Spec => []MemoryReused
<1>1. IInv => MemoryReused
  BY DEF IInv
<1> QED
  BY Invariance, <1>1, PTL

(* No two indices of the queue share a cell, however often it rotated.      *)
THEOREM NoAliasing == Spec => []CellsDistinct
<1>1. IInv => CellsDistinct
  <2> SUFFICES ASSUME IInv, NEW i \in 0 .. capacity - 1, NEW j \in 0 .. capacity - 1,
                      CellOf(i) = CellOf(j)
               PROVE  i = j
    BY DEF CellsDistinct
  <2>1. i \in Nat /\ j \in Nat /\ i < capacity /\ j < capacity
    BY DEF IInv, TypeOK
  <2>2. BucketOf(i) \in Places /\ BucketOf(j) \in Places
    BY <2>1, ShapeFacts
  <2>3. BucketOf(i) = BucketOf(j) /\ OffsetOf(i) = OffsetOf(j)
    BY <2>2 DEF CellOf, IInv, BucketsOnce
  <2> QED
    BY <2>1, <2>3, Split
<1> QED
  BY Invariance, <1>1, PTL
=============================================================================
