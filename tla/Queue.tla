------------------------------- MODULE Queue --------------------------------
(***************************************************************************)
(* The bucketed List (list.c) and the Queue built on it (queue.c).         *)
(*                                                                         *)
(* A list is an array of pointers to buckets, each bucket an array of      *)
(* BucketSize cells; indices are split into a bucket and an offset.  The   *)
(* queue adds a read position.  When a bucket has been read to its end the *)
(* queue moves that bucket behind all others and shifts every index down,  *)
(* so that its memory is written again instead of allocating.              *)
(*                                                                         *)
(* Buckets are named by the order of their allocation: nothing on a queue  *)
(* is ever freed, so the n-th malloc is bucket n - 1 for good.             *)
(***************************************************************************)
EXTENDS Integers, Sequences

CONSTANTS Value,        \* what may be queued
          Garbage,      \* what malloc leaves in a cell nobody has written
          BucketCount,  \* initialize_queue's bucket_count (16 in main.c)
          BucketSize,   \* initialize_queue's bucket_size (16 in main.c)
          MaxPending    \* bound: the most values its users leave waiting

ASSUME QueueAssumption ==
  /\ BucketCount \in Nat \ {0}
  /\ BucketSize \in Nat \ {0}
  /\ MaxPending \in Nat \ {0}
  /\ Garbage \notin Value

VARIABLES capacity,     \* list.capacity, in cells
          length,       \* list.length
          position,     \* queue.position, the next index to read
          buckets,      \* list.buckets: place in the array -> bucket
          memory,       \* bucket -> offset -> what the cell holds
          pulled        \* <<>>, or <<v>> once queue_pull has returned v last

vars == <<capacity, length, position, buckets, memory, pulled>>

Offsets == 0 .. BucketSize - 1

BucketOf(idx) == idx \div BucketSize
OffsetOf(idx) == idx % BucketSize

Places == 0 .. BucketOf(capacity) - 1

FreshBucket == [o \in Offsets |-> Garbage]

ListGet(idx) == memory[buckets[BucketOf(idx)]][OffsetOf(idx)]

QueueLength == length - position

-----------------------------------------------------------------------------

Init ==
  /\ capacity = BucketSize * BucketCount
  /\ length = 0
  /\ position = 0
  /\ buckets = [p \in 0 .. BucketCount - 1 |-> p]
  /\ memory = [b \in 0 .. BucketCount - 1 |-> FreshBucket]
  /\ pulled = <<>>

(* list_append's growth: one more bucket once every cell is in use. *)
Grown == length >= capacity

BucketsToWrite ==
  IF Grown THEN [p \in 0 .. BucketOf(capacity) |->
                   IF p \in Places THEN buckets[p] ELSE BucketOf(capacity)]
           ELSE buckets

MemoryToWrite ==
  IF Grown THEN [b \in 0 .. BucketOf(capacity) |->
                   IF b \in Places THEN memory[b] ELSE FreshBucket]
           ELSE memory

(* list_append: the value lands in the cell of index length. *)
Add(v) ==
  /\ QueueLength < MaxPending
  /\ buckets' = BucketsToWrite
  /\ memory' = [MemoryToWrite EXCEPT
                  ![BucketsToWrite[BucketOf(length)]][OffsetOf(length)] = v]
  /\ capacity' = IF Grown THEN capacity + BucketSize ELSE capacity
  /\ length' = length + 1
  /\ UNCHANGED <<position, pulled>>

(* Faulty variants: the drained bucket is lost, or the array left alone. *)
RotatedLosing ==
  [p \in Places |-> IF p + 1 \in Places THEN buckets[p + 1] ELSE buckets[p]]
RotatedNot == buckets

(* queue_pull's rotation: the first bucket goes last, the others move down. *)
Rotated ==
  [p \in Places |-> IF p + 1 \in Places THEN buckets[p + 1] ELSE buckets[0]]

(* Faulty variants: one read too late, or never. *)
BucketDrainedLate == position = BucketSize
BucketDrainedNever == FALSE

BucketDrained == position + 1 = BucketSize

(* queue_pull, which the main loop calls only when queue_length > 0. *)
Pull ==
  /\ QueueLength > 0
  /\ pulled' = <<ListGet(position)>>
  /\ IF BucketDrained
       THEN /\ position' = 0
            /\ length' = length - BucketSize
            /\ buckets' = Rotated
       ELSE /\ position' = position + 1
            /\ UNCHANGED <<length, buckets>>
  /\ UNCHANGED <<capacity, memory>>

Next == Pull \/ \E v \in Value : Add(v)

Spec == Init /\ [][Next]_vars

-----------------------------------------------------------------------------

TypeOK ==
  /\ capacity \in Nat /\ length \in Nat /\ position \in Offsets
  /\ buckets \in [Places -> Places]
  /\ memory \in [Places -> [Offsets -> Value \cup {Garbage}]]
  /\ pulled \in Seq(Value \cup {Garbage})

(* The cell an index denotes, as an address. *)
CellOf(idx) == <<buckets[BucketOf(idx)], OffsetOf(idx)>>

(* No two indices below the capacity share a cell: after any number of      *)
(* rotations and growths a later queue_add never overwrites a waiting job,  *)
(* and no bucket has been dropped from the array.                           *)
CellsDistinct ==
  \A i, j \in 0 .. capacity - 1 : CellOf(i) = CellOf(j) => i = j

(* queue_pull's comment (queue.c:39) that rotating avoids unnecessary       *)
(* allocations: however many jobs pass through, the memory of the queue     *)
(* stays within what the most jobs waiting at once need, rounded up.        *)
MemoryBound == MaxPending + 2 * BucketSize - 2

MemoryReused ==
  \/ capacity = BucketSize * BucketCount
  \/ capacity <= MemoryBound

(* The waiting values, oldest first. *)
Contents == [i \in 1 .. QueueLength |-> ListGet(position + i - 1)]

(* The bucketed queue implements FIFO: nothing lost, repeated, reordered or *)
(* read before it was written.                                              *)
Promise == INSTANCE FIFO WITH items <- Contents

ImplementsFIFO == Promise!Spec
=============================================================================
