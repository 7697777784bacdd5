----------------------------- MODULE PoolProofs -----------------------------
(***************************************************************************)
(* A pool is a sequence: for every size and number of buckets, pool_get     *)
(* puts its item behind the others and moves none of them, and growth is in *)
(* time.                                                                   *)
(***************************************************************************)
EXTENDS Pool, SequenceTheorems, TLAPS

(* A pool of items of S. *)
IsPool(pool, S) ==
  /\ pool \in [length : Nat,
               buckets : Seq([0 .. BucketSize - 1 -> S \cup {Unwritten}])]
  /\ Len(pool.buckets) # 0
  /\ pool.length <= Capacity(pool)
  /\ PoolToArray(pool) \in Seq(S)

(* What Append does, for an element that is not looked into. *)
LEMMA Appended ==
  ASSUME NEW S, NEW s \in Seq(S), NEW x \in S
  PROVE  /\ Append(s, x) \in Seq(S)
         /\ Len(s) \in Nat /\ Len(Append(s, x)) = Len(s) + 1
         /\ \A i \in 1 .. Len(s) : Append(s, x)[i] = s[i]
         /\ Append(s, x)[Len(s) + 1] = x
  OBVIOUS

(* A cell's number is its bucket and its slot. *)
LEMMA Cell ==
  ASSUME NEW n \in Nat
  PROVE  /\ SlotOf(n) \in 0 .. BucketSize - 1
         /\ BucketOf(n) \in Nat \ {0}
         /\ n = BucketSize * (BucketOf(n) - 1) + SlotOf(n)
  BY PoolAssumption, SMT DEF SlotOf, BucketOf

(* Cells within the capacity are in buckets that are there. *)
LEMMA CellThere ==
  ASSUME NEW n \in Nat, NEW k \in Nat, n < BucketSize * k
  PROVE  BucketOf(n) \in 1 .. k
<1> DEFINE q == BucketOf(n) - 1
           r == SlotOf(n)
<1>1. q \in Nat /\ r \in 0 .. BucketSize - 1 /\ n = BucketSize * q + r
  BY Cell
<1> HIDE DEF q, r
<1>2. ASSUME k <= q PROVE FALSE
  <2>1. PICK d \in Nat : q = k + d
    BY <1>1, <1>2
  <2>2. BucketSize * q = BucketSize * k + BucketSize * d
    BY <2>1, PoolAssumption, SMT
  <2>3. BucketSize * d \in Nat /\ BucketSize * k \in Nat
    BY PoolAssumption, SMT
  <2> QED
    BY <1>1, <2>2, <2>3, PoolAssumption
<1>3. BucketOf(n) = q + 1
  BY Cell DEF q
<1>4. q \in Nat /\ ~(k <= q)
  BY <1>1, <1>2
<1> QED
  BY <1>3, <1>4

(* Different cells have different places. *)
LEMMA CellsApart ==
  ASSUME NEW n \in Nat, NEW m \in Nat, BucketOf(n) = BucketOf(m), SlotOf(n) = SlotOf(m)
  PROVE  n = m
  BY Cell

(* A multiple of the size of a bucket is not less than a smaller one.       *)
LEMMA Multiples ==
  ASSUME NEW i \in Nat, NEW q \in Nat, i < q
  PROVE  /\ i * BucketSize \in Nat /\ q * BucketSize \in Nat
         /\ i * BucketSize + BucketSize <= q * BucketSize
<1>1. PICK d \in Nat : q = i + 1 + d
  <2>1. q - i - 1 \in Nat /\ q = i + 1 + (q - i - 1)
    OBVIOUS
  <2> QED
    BY <2>1
<1>2. q * BucketSize = i * BucketSize + BucketSize + d * BucketSize
  BY <1>1, PoolAssumption, SMT
<1>3. /\ i * BucketSize \in Nat /\ d * BucketSize \in Nat
      /\ q * BucketSize \in Nat
  BY PoolAssumption, SMT
<1> QED
  BY <1>2, <1>3, PoolAssumption

(* The rounds of pool_to_array write every cell of the array, each from the *)
(* place where pool_get has put the item.                                   *)
LEMMA ArrayCells ==
  ASSUME NEW pool, pool.length \in Nat, Len(pool.buckets) \in Nat,
         pool.length <= Capacity(pool)
  PROVE  PoolToArray(pool) =
           [n \in 1 .. pool.length |->
              pool.buckets[BucketOf(n - 1)][SlotOf(n - 1)]]
<1> DEFINE B == BucketSize
           Writes(i, n) == n - 1 - i * B \in 0 .. ItemsToCopy(pool, i) - 1
<1>1. ASSUME NEW n \in 1 .. pool.length
      PROVE  /\ BucketOf(n - 1) - 1 \in Rounds(pool)
             /\ Writes(BucketOf(n - 1) - 1, n)
             /\ n - 1 - (BucketOf(n - 1) - 1) * B = SlotOf(n - 1)
             /\ \A i \in Rounds(pool) :
                  Writes(i, n) => i = BucketOf(n - 1) - 1
  <2> DEFINE q == BucketOf(n - 1) - 1
             r == SlotOf(n - 1)
             l == pool.length
             k == Len(pool.buckets)
  <2>1. l \in Nat /\ k \in Nat /\ l <= B * k /\ n \in 1 .. l /\ B * k \in Nat
    <3>1. B * k \in Nat
      BY PoolAssumption, SMT
    <3> QED
      BY <3>1 DEF Capacity
  <2>2. n - 1 \in Nat /\ n - 1 < B * k /\ n - 1 < l
    BY <2>1
  <2>3. q \in 0 .. k - 1 /\ r \in 0 .. B - 1 /\ n - 1 = B * q + r
    <3>1. BucketOf(n - 1) \in 1 .. k
      BY <2>1, <2>2, CellThere DEF B
    <3>2. r \in 0 .. B - 1 /\ n - 1 = B * q + r
      BY <2>2, Cell DEF B
    <3> HIDE DEF r
    <3>3. q \in 0 .. k - 1
      BY <2>1, <3>1
    <3> QED
      BY <3>2, <3>3
  <2>4. B * q = q * B /\ q * B \in Nat /\ B \in Nat \ {0}
    BY <2>1, <2>3, PoolAssumption, SMT
  <2>5. \A i : /\ ItemsRemaining(pool, i) = l - i * B
               /\ ItemsToCopy(pool, i) = IF l - i * B >= B THEN B ELSE l - i * B
    BY DEF ItemsRemaining, ItemsToCopy
  <2> HIDE DEF q, r, l, k, B
  <2>6. ASSUME NEW j \in 0 .. q - 1
        PROVE  ~(ItemsToCopy(pool, j) < B)
    <3>1. j * B \in Nat /\ j * B + B <= q * B
      <4>1. j \in Nat /\ q \in Nat /\ j < q
        BY <2>3
      <4> QED
        BY <4>1, Multiples DEF B
    <3>2. l - j * B >= B
      BY <2>1, <2>2, <2>3, <2>4, <3>1
    <3> QED
      BY <2>4, <2>5, <3>2
  <2>7. q \in Rounds(pool)
    BY <2>3, <2>6 DEF Rounds, k, B
  <2>8. n - 1 - q * B = r /\ n - 1 - q * B \in 0 .. ItemsToCopy(pool, q) - 1
    <3>1. n - 1 - q * B = r /\ r < l - q * B
      BY <2>1, <2>2, <2>3, <2>4
    <3>2. ItemsToCopy(pool, q) = IF l - q * B >= B THEN B ELSE l - q * B
      BY <2>5
    <3> QED
      BY <2>1, <2>3, <2>4, <3>1, <3>2
  <2>9. ASSUME NEW i \in Rounds(pool), Writes(i, n)
        PROVE  i = q
    <3>1. i \in Nat /\ i * B \in Nat
      <4>1. i \in Nat
        BY <2>1 DEF Rounds, k
      <4> QED
        BY <2>4, <4>1, SMT
    <3>2. ItemsToCopy(pool, i) = IF l - i * B >= B THEN B ELSE l - i * B
      BY <2>5
    <3>3. i * B <= n - 1 /\ n - 1 < i * B + B
      BY <2>1, <2>4, <2>9, <3>1, <3>2
    <3>4. ~(i < q)
      <4>1. i < q => i * B + B <= q * B
        BY <2>3, <3>1, Multiples DEF B
      <4> QED
        BY <2>1, <2>3, <2>4, <3>1, <3>3, <4>1
    <3>5. ~(q < i)
      <4>1. q < i => q * B + B <= i * B
        BY <2>3, <3>1, Multiples DEF B
      <4> QED
        BY <2>1, <2>3, <2>4, <3>1, <3>3, <4>1
    <3> QED
      BY <2>3, <3>1, <3>4, <3>5
  <2> QED
    BY <2>7, <2>8, <2>9 DEF q, r
<1>2. ASSUME NEW n \in 1 .. pool.length
      PROVE  PoolToArray(pool)[n]
               = pool.buckets[BucketOf(n - 1)][SlotOf(n - 1)]
  <2> DEFINE i == CHOOSE i \in Rounds(pool) : Writes(i, n)
  <2>1. /\ \E j \in Rounds(pool) : Writes(j, n)
        /\ i = BucketOf(n - 1) - 1
    BY <1>1
  <2>2. PoolToArray(pool)[n] = CopiedBucket(pool, i)[n - 1 - i * B]
    BY <2>1 DEF PoolToArray
  <2>3. i + 1 = BucketOf(n - 1)
    <3>1. n - 1 \in Nat
      OBVIOUS
    <3>2. BucketOf(n - 1) \in Nat
      BY <3>1, Cell
    <3> HIDE DEF i
    <3> QED
      BY <2>1, <3>2
  <2> QED
    BY <1>1, <2>1, <2>2, <2>3 DEF CopiedBucket
<1> DEFINE A == PoolToArray(pool)
<1>3. A = [n \in 1 .. pool.length |-> A[n]]
  BY DEF PoolToArray
<1> QED
  BY <1>2, <1>3

THEOREM PoolStarts ==
  ASSUME NEW S
  PROVE  IsPool(NewPool, S) /\ PoolToArray(NewPool) = <<>>
<1>1. NewBucket \in [0 .. BucketSize - 1 -> S \cup {Unwritten}]
  BY DEF NewBucket
<1>2. NewPool.buckets \in Seq([0 .. BucketSize - 1 -> S \cup {Unwritten}])
      /\ Len(NewPool.buckets) = BucketCount
  BY <1>1, PoolAssumption DEF NewPool
<1>3. BucketSize * BucketCount \in Nat
  BY PoolAssumption, SMT
<1>4. PoolToArray(NewPool) = <<>>
  <2>1. NewPool.length = 0
    BY DEF NewPool
  <2> QED
    BY <2>1 DEF PoolToArray
<1> QED
  BY <1>2, <1>3, <1>4, PoolAssumption DEF IsPool, Capacity, NewPool

(* pool.c:37: a bucket is there for the next item. *)
LEMMA PoolGrows ==
  ASSUME NEW S, NEW pool, IsPool(pool, S)
  PROVE  /\ Grown(pool) \in [length : Nat,
                 buckets : Seq([0 .. BucketSize - 1 -> S \cup {Unwritten}])]
         /\ Len(Grown(pool).buckets) >= Len(pool.buckets)
         /\ \A b \in 1 .. Len(pool.buckets) : Grown(pool).buckets[b] = pool.buckets[b]
         /\ pool.length < Capacity(Grown(pool))
<1>1. NewBucket \in [0 .. BucketSize - 1 -> S \cup {Unwritten}]
  BY DEF NewBucket
<1>2. CASE pool.length >= Capacity(pool)
  <2> DEFINE bs == pool.buckets
  <2>1. Grown(pool) = [pool EXCEPT !.buckets = Append(bs, NewBucket)]
    BY <1>2 DEF Grown
  <2>2. Grown(pool).buckets = Append(bs, NewBucket) /\ Grown(pool).length = pool.length
    BY <2>1 DEF IsPool
  <2> DEFINE Cells == [0 .. BucketSize - 1 -> S \cup {Unwritten}]
  <2>a. bs \in Seq(Cells) /\ NewBucket \in Cells /\ pool.length \in Nat
        /\ pool.length <= BucketSize * Len(bs)
    BY <1>1 DEF IsPool, Capacity
  <2>b. Grown(pool) = [length |-> pool.length, buckets |-> Append(bs, NewBucket)]
    BY <2>1 DEF IsPool
  <2> HIDE DEF bs, Cells
  <2>3. /\ Append(bs, NewBucket) \in Seq(Cells)
        /\ Len(Append(bs, NewBucket)) = Len(bs) + 1 /\ Len(bs) \in Nat
        /\ \A b \in 1 .. Len(bs) : Append(bs, NewBucket)[b] = bs[b]
    BY <2>a, Appended
  <2>4. BucketSize * (Len(bs) + 1) = BucketSize * Len(bs) + BucketSize
        /\ BucketSize * Len(bs) \in Nat
    BY <2>3, PoolAssumption, SMT
  <2>5. Grown(pool) \in [length : Nat, buckets : Seq(Cells)]
    BY <2>a, <2>b, <2>3
  <2>6. Capacity(Grown(pool)) = BucketSize * (Len(bs) + 1)
    BY <2>2, <2>3 DEF Capacity
  <2>7. pool.length < Capacity(Grown(pool))
    BY <2>a, <2>3, <2>4, <2>6, PoolAssumption
  <2>8. /\ Len(Grown(pool).buckets) >= Len(bs)
        /\ \A b \in 1 .. Len(bs) : Grown(pool).buckets[b] = bs[b]
    BY <2>2, <2>3
  <2> QED
    BY <2>5, <2>7, <2>8 DEF bs, Cells
<1>3. CASE ~(pool.length >= Capacity(pool))
  <2>1. Grown(pool) = pool
    BY <1>3 DEF Grown
  <2>2. Len(pool.buckets) \in Nat
    BY DEF IsPool
  <2>3. Capacity(pool) \in Nat
    BY <2>2, PoolAssumption, SMT DEF Capacity
  <2> QED
    BY <1>3, <2>1, <2>2, <2>3 DEF IsPool
<1> QED
  BY <1>2, <1>3

(* What the callers of pool_get rely on: the items stay, in their order,    *)
(* and the new one is the last.                                             *)
THEOREM PoolAppends ==
  ASSUME NEW S, NEW pool, IsPool(pool, S), NEW item \in S
  PROVE  /\ IsPool(PoolPut(pool, item), S)
         /\ PoolToArray(PoolPut(pool, item)) = Append(PoolToArray(pool), item)
<1> DEFINE n == pool.length
           bs == Grown(pool).buckets
           new == PoolPut(pool, item)
           Cells == [0 .. BucketSize - 1 -> S \cup {Unwritten}]
<1> DEFINE old == pool.buckets
<1>1. /\ n \in Nat /\ bs \in Seq(Cells) /\ Len(bs) \in Nat
      /\ old \in Seq(Cells) /\ Len(old) \in Nat /\ Len(old) <= Len(bs)
      /\ n <= BucketSize * Len(old) /\ n < BucketSize * Len(bs)
      /\ \A b \in 1 .. Len(old) : bs[b] = old[b]
  <2>1. /\ Grown(pool) \in [length : Nat, buckets : Seq(Cells)]
        /\ Len(bs) >= Len(old)
        /\ \A b \in 1 .. Len(old) : bs[b] = old[b]
        /\ n < BucketSize * Len(bs)
    BY PoolGrows DEF Capacity
  <2>2. pool \in [length : Nat, buckets : Seq(Cells)] /\ n <= BucketSize * Len(old)
    BY DEF IsPool, Capacity
  <2> HIDE DEF Cells
  <2>3. n \in Nat /\ bs \in Seq(Cells) /\ old \in Seq(Cells)
    BY <2>1, <2>2
  <2> HIDE DEF bs, old, n
  <2>4. Len(bs) \in Nat /\ Len(old) \in Nat
    BY <2>3
  <2> QED
    BY <2>1, <2>2, <2>3, <2>4
<1>2. BucketOf(n) \in 1 .. Len(bs) /\ SlotOf(n) \in 0 .. BucketSize - 1
  BY <1>1, CellThere, Cell
<1>3. /\ new.length = n + 1
      /\ new.buckets = [bs EXCEPT ![BucketOf(n)][SlotOf(n)] = item]
      /\ new = [length |-> new.length, buckets |-> new.buckets]
  BY DEF PoolPut
<1> HIDE DEF new, bs, old
<1>4. bs[BucketOf(n)] \in Cells /\ DOMAIN bs = 1 .. Len(bs)
  <2> HIDE DEF Cells
  <2> QED
    BY <1>1, <1>2
<1>5. [bs[BucketOf(n)] EXCEPT ![SlotOf(n)] = item] \in Cells
  BY <1>4, <1>2
<1> DEFINE bucket == [bs[BucketOf(n)] EXCEPT ![SlotOf(n)] = item]
<1>6. /\ new.buckets = [bs EXCEPT ![BucketOf(n)] = bucket]
      /\ new.buckets \in Seq(Cells)
      /\ Len(new.buckets) = Len(bs)
  <2>1. new.buckets = [bs EXCEPT ![BucketOf(n)] = bucket]
    BY <1>3
  <2> HIDE DEF Cells, bucket
  <2> QED
    BY <1>1, <1>2, <1>5, <2>1 DEF bucket
<1>7. ASSUME NEW i \in 1 .. n
      PROVE  BucketOf(i - 1) \in 1 .. Len(old) /\ SlotOf(i - 1) \in 0 .. BucketSize - 1
  <2>1. BucketSize * Len(old) \in Nat
    BY <1>1, PoolAssumption, SMT
  <2>2. i - 1 \in Nat /\ i - 1 < BucketSize * Len(old)
    BY <1>1, <2>1
  <2> QED
    BY <1>1, <2>2, CellThere, Cell
<1>8. ASSUME NEW i \in 1 .. n
      PROVE  new.buckets[BucketOf(i - 1)][SlotOf(i - 1)] = old[BucketOf(i - 1)][SlotOf(i - 1)]
  <2> DEFINE b == BucketOf(i - 1)
             s == SlotOf(i - 1)
  <2>1. b \in 1 .. Len(old) /\ s \in 0 .. BucketSize - 1
    BY <1>7
  <2>2. b \in 1 .. Len(bs) /\ bs[b] = old[b]
    BY <1>1, <2>1
  <2>3. b # BucketOf(n) \/ s # SlotOf(n)
    BY <1>1, CellsApart
  <2> HIDE DEF b, s
  <2>4. CASE b # BucketOf(n)
    <3>1. new.buckets[b] = bs[b]
      BY <1>4, <1>6, <2>2, <2>4
    <3> QED
      BY <2>2, <3>1 DEF b, s
  <2>5. CASE b = BucketOf(n) /\ s # SlotOf(n)
    <3>1. new.buckets[b] = bucket
      BY <1>4, <1>6, <2>2, <2>5
    <3>2. bucket[s] = bs[b][s]
      BY <1>4, <2>1, <2>5
    <3> QED
      BY <2>2, <3>1, <3>2 DEF b, s
  <2> QED
    BY <2>3, <2>4, <2>5
<1>9. new.buckets[BucketOf(n)][SlotOf(n)] = item
  <2>1. new.buckets[BucketOf(n)] = bucket
    BY <1>2, <1>4, <1>6
  <2>2. bucket[SlotOf(n)] = item
    BY <1>2, <1>4
  <2> QED
    BY <2>1, <2>2
<1>15. new.length <= Capacity(new) /\ Len(new.buckets) # 0
  <2>1. BucketSize * Len(bs) \in Nat
    BY <1>1, PoolAssumption, SMT
  <2>2. Capacity(new) = BucketSize * Len(bs)
    BY <1>6 DEF Capacity
  <2> QED
    BY <1>1, <1>2, <1>3, <1>6, <2>1, <2>2
<1> DEFINE T == PoolToArray(pool)
<1>10. T \in Seq(S) /\ Len(T) = n /\ \A i \in 1 .. n :
         T[i] = old[BucketOf(i - 1)][SlotOf(i - 1)]
  <2>1. T = [i \in 1 .. n |-> old[BucketOf(i - 1)][SlotOf(i - 1)]]
    BY <1>1, ArrayCells DEF Capacity, old
  <2>2. T \in Seq(S)
    BY DEF IsPool
  <2> HIDE DEF T, n
  <2> QED
    BY <1>1, <2>1, <2>2
<1>11. PoolToArray(new) = [i \in 1 .. n + 1 |->
                             new.buckets[BucketOf(i - 1)][SlotOf(i - 1)]]
  <2>1. new.length = n + 1 /\ n + 1 \in Nat /\ Len(new.buckets) \in Nat
    BY <1>1, <1>3, <1>6
  <2> QED
    BY <1>15, <2>1, ArrayCells
<1> HIDE DEF T, Cells, n
<1>12. /\ Append(T, item) \in Seq(S) /\ Len(Append(T, item)) = n + 1
       /\ \A i \in 1 .. n + 1 : Append(T, item)[i] = IF i = n + 1 THEN item ELSE T[i]
  BY <1>1, <1>10
<1>13. \A i \in 1 .. n + 1 :
         new.buckets[BucketOf(i - 1)][SlotOf(i - 1)] = Append(T, item)[i]
  <2>1. (n + 1) - 1 = n
    BY <1>1
  <2>2. \A i \in 1 .. n + 1 : i = n + 1 \/ i \in 1 .. n
    BY <1>1
  <2> QED
    BY <1>8, <1>9, <1>10, <1>12, <2>1, <2>2
<1>14. PoolToArray(new) = Append(T, item)
  <2>1. Append(T, item) = [i \in 1 .. n + 1 |-> Append(T, item)[i]]
    <3> DEFINE A == Append(T, item)
    <3>0. A \in Seq(S) /\ Len(A) = n + 1
      BY <1>12
    <3> HIDE DEF A
    <3>1. A \in [1 .. Len(A) -> S] /\ Len(A) = n + 1
      BY <3>0, LenProperties
    <3> HIDE DEF A
    <3>2. A = [i \in 1 .. n + 1 |-> A[i]]
      BY <3>1
    <3> QED
      BY <3>2 DEF A
  <2> QED
    BY <1>11, <1>13, <2>1
<1>16. new \in [length : Nat, buckets : Seq(Cells)]
  <2>1. new.length \in Nat /\ new.buckets \in Seq(Cells)
    BY <1>1, <1>3, <1>6
  <2> QED
    BY <1>3, <2>1
<1>17. PoolToArray(new) \in Seq(S)
  BY <1>12, <1>14
<1> QED
  BY <1>14, <1>15, <1>16, <1>17 DEF IsPool, new, T, Cells
=============================================================================
