-------------------------------- MODULE Pool --------------------------------
(***************************************************************************)
(* pool.c: items of equal size in buckets that are never moved.  A pool is *)
(* its length and its buckets; pool->capacity is Capacity.  Cells of a     *)
(* bucket that was allocated and not written hold Unwritten.               *)
(***************************************************************************)
EXTENDS Integers, Sequences

CONSTANTS
  BucketSize,     \* bucket_size
  BucketCount,    \* the number of buckets at first
  Unwritten       \* what malloc leaves in a cell

ASSUME PoolAssumption ==
  /\ BucketSize \in Nat \ {0}
  /\ BucketCount \in Nat \ {0}

NewBucket == [slot \in 0 .. BucketSize - 1 |-> Unwritten]

NewPool == [length |-> 0, buckets |-> [b \in 1 .. BucketCount |-> NewBucket]]

Capacity(pool) == BucketSize * Len(pool.buckets)

(* The bucket and the slot of the cell that is n cells behind the first. *)
BucketOf(n) == (n \div BucketSize) + 1
SlotOf(n) == n % BucketSize

Grown(pool) ==
  IF pool.length >= Capacity(pool)
    THEN [pool EXCEPT !.buckets = Append(@, NewBucket)]
    ELSE pool

(* pool_get, and the assignment to the cell that it returns. *)
PoolPut(pool, item) ==
  LET n == pool.length
  IN  [length |-> n + 1,
       buckets |-> [Grown(pool).buckets EXCEPT ![BucketOf(n)][SlotOf(n)] = item]]

(* pool_to_array, whose round i copies the bucket i behind the first.       *)
ItemsRemaining(pool, i) == pool.length - i * BucketSize

ItemsToCopy(pool, i) ==
  IF ItemsRemaining(pool, i) >= BucketSize THEN BucketSize
                                           ELSE ItemsRemaining(pool, i)

(* Faulty variant: the buckets are not advanced. *)
CopiedFirst(pool, i) == pool.buckets[1]

CopiedBucket(pool, i) == pool.buckets[i + 1]

(* The rounds that are made: a short one is the last. *)
Rounds(pool) ==
  {i \in 0 .. Len(pool.buckets) - 1 :
     \A j \in 0 .. i - 1 : ~(ItemsToCopy(pool, j) < BucketSize)}

(* Cell n of the array, which round i writes from offset i * BucketSize on. *)
PoolToArray(pool) ==
  LET rounds == Rounds(pool)
      offset(i) == i * BucketSize
      Writes(i, n) == n - 1 - offset(i) \in 0 .. ItemsToCopy(pool, i) - 1
  IN  [n \in 1 .. pool.length |->
         IF \E i \in rounds : Writes(i, n)
           THEN LET i == CHOOSE i \in rounds : Writes(i, n)
                IN  CopiedBucket(pool, i)[n - 1 - offset(i)]
           ELSE Unwritten]
=============================================================================
