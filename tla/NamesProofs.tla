---------------------------- MODULE NamesProofs -----------------------------
(***************************************************************************)
(* Proofs about Table.tla and Names.tla: for any hash function and tables  *)
(* of any initial size, keys stay reachable through collisions and growth, *)
(* sizes are right, and Names implements Naming; if no table starts with a *)
(* single slot, the assert of __table_store never fails.                   *)
(***************************************************************************)
EXTENDS Names, FiniteSetTheorems, SequenceTheorems,
        WellFoundedInduction, TLAPS

-----------------------------------------------------------------------------
(* Arithmetic: the ring of slots. *)

(* A set of numbers that is not empty has a least one. *)
LEMMA Least ==
  ASSUME NEW S \in SUBSET Nat, S # {}
  PROVE  \E n \in S : \A m \in S : n <= m
<1>1. IsWellFoundedOn(OpToRel(<, Nat), Nat)
  BY NatLessThanWellFounded
<1>2. PICK n \in S : \A m \in S : ~(<<m, n>> \in OpToRel(<, Nat))
  BY <1>1, WFMin
<1>3. \A m, k \in Nat : <<m, k>> \in OpToRel(<, Nat) <=> m < k
  BY DEF OpToRel
<1>4. ASSUME NEW m \in S PROVE n <= m
  <2>1. ~(m < n)
    BY <1>2, <1>3
  <2> QED
    BY <2>1
<1> QED
  BY <1>4

(* The remainder is what is left of a multiple. *)
LEMMA Remainder ==
  ASSUME NEW c \in Nat \ {0}, NEW h \in Nat
  PROVE  /\ (h % c) \in 0 .. c - 1
         /\ h \div c \in Nat
         /\ h = c * (h \div c) + (h % c)
  BY SMT

LEMMA RemainderUnique ==
  ASSUME NEW c \in Nat \ {0}, NEW q \in Nat, NEW r \in 0 .. c - 1
  PROVE  (c * q + r) % c = r
  BY SMT

(* Going n places on from h in a ring of c. *)
LEMMA RingStep ==
  ASSUME NEW c \in Nat \ {0}, NEW h \in Nat, NEW n \in 0 .. c - 1
  PROVE  (h + n) % c = IF (h % c) + n < c THEN (h % c) + n ELSE (h % c) + n - c
<1> DEFINE q == h \div c
           r == h % c
<1>1. q \in Nat /\ r \in 0 .. c - 1 /\ h = c * q + r
  BY Remainder
<1> HIDE DEF q, r
<1>2. CASE r + n < c
  <2>1. c * q \in Nat
    BY <1>1, SMT
  <2>2. h + n = c * q + (r + n) /\ r + n \in 0 .. c - 1
    BY <1>1, <1>2, <2>1
  <2>3. (h + n) % c = r + n
    BY <1>1, <2>2, RemainderUnique
  <2> QED
    BY <2>3, <1>2 DEF r
<1>3. CASE ~(r + n < c)
  <2>1. c * (q + 1) = c * q + c /\ c * q \in Nat /\ q + 1 \in Nat
    BY <1>1, SMT
  <2>2. h + n = c * (q + 1) + (r + n - c) /\ r + n - c \in 0 .. c - 1
    BY <1>1, <1>3, <2>1
  <2>3. (h + n) % c = r + n - c
    BY <2>1, <2>2, RemainderUnique
  <2> QED
    BY <2>3, <1>3 DEF r
<1> QED
  BY <1>2, <1>3

-----------------------------------------------------------------------------
(* Searching. *)

(* IsTable, whatever the values are. *)
Searchable(t) ==
  /\ t = [capacity |-> t.capacity, size |-> t.size, keys |-> t.keys,
          values |-> t.values]
  /\ t.capacity \in Nat \ {0}
  /\ t.size \in Nat
  /\ t.keys \in [Slots(t) -> Text \cup {Free}]
  /\ t.values = [s \in Slots(t) |-> t.values[s]]

(* As many slots are tried as there are, and each once. *)
LEMMA ProbeRing ==
  ASSUME NEW t, Searchable(t), NEW key \in Text
  PROVE  /\ \A n \in Slots(t) : Probe(t, key, n) \in Slots(t)
         /\ \A n, m \in Slots(t) : Probe(t, key, n) = Probe(t, key, m) => n = m
         /\ \A s \in Slots(t) : \E n \in Slots(t) : s = Probe(t, key, n)
<1> DEFINE c == t.capacity
           h == Hash[key] + 1
           r == h % c
<1>1. c \in Nat \ {0} /\ h \in Nat
  BY TableAssumption DEF Searchable
<1>2. r \in 0 .. c - 1
  BY <1>1, Remainder
<1>3. \A n \in 0 .. c - 1 :
        Probe(t, key, n) = IF r + n < c THEN r + n ELSE r + n - c
  <2>1. \A n \in 0 .. c - 1 : Probe(t, key, n) = (h + n) % c
    BY DEF Probe
  <2> HIDE DEF c, h
  <2> QED
    BY <1>1, <2>1, RingStep
<1> HIDE DEF r, h
<1>4. ASSUME NEW s \in 0 .. c - 1
      PROVE  \E n \in 0 .. c - 1 : s = Probe(t, key, n)
  <2>1. CASE s >= r
    <3>1. s - r \in 0 .. c - 1 /\ r + (s - r) < c /\ r + (s - r) = s
      BY <1>1, <1>2, <2>1
    <3> QED
      BY <1>3, <3>1
  <2>2. CASE ~(s >= r)
    <3>1. s - r + c \in 0 .. c - 1 /\ ~(r + (s - r + c) < c)
          /\ r + (s - r + c) - c = s
      BY <1>1, <1>2, <2>2
    <3> QED
      BY <1>3, <3>1
  <2> QED
    BY <2>1, <2>2
<1> QED
  BY <1>1, <1>2, <1>3, <1>4 DEF Slots

(* A search has one end. *)
LEMMA FirstStopUnique ==
  ASSUME NEW t, Searchable(t), NEW key \in Text, NEW s, NEW r,
         FirstStop(t, key, s), FirstStop(t, key, r)
  PROVE  s = r
<1>1. PICK n \in Slots(t) :
        /\ s = Probe(t, key, n) /\ Stops(t, key, s)
        /\ \A m \in 0 .. n - 1 : ~Stops(t, key, Probe(t, key, m))
  BY DEF FirstStop
<1>2. PICK k \in Slots(t) :
        /\ r = Probe(t, key, k) /\ Stops(t, key, r)
        /\ \A m \in 0 .. k - 1 : ~Stops(t, key, Probe(t, key, m))
  BY DEF FirstStop
<1>3. n \in Nat /\ k \in Nat
  BY DEF Slots, Searchable
<1>4. ~(n < k) /\ ~(k < n)
  BY <1>1, <1>2, <1>3
<1> QED
  BY <1>1, <1>2, <1>3, <1>4

(* If there is anywhere to stop, the search does stop. *)
LEMMA FirstStopExists ==
  ASSUME NEW t, Searchable(t), NEW key \in Text,
         NEW p \in Slots(t), Stops(t, key, p)
  PROVE  \E s \in Slots(t) : FirstStop(t, key, s)
<1> DEFINE S == {n \in Slots(t) : Stops(t, key, Probe(t, key, n))}
<1>0. Slots(t) \in SUBSET Nat
  BY DEF Slots, Searchable
<1>1. S \in SUBSET Nat /\ S # {}
  BY <1>0, ProbeRing
<1>2. PICK n \in S : \A m \in S : n <= m
  BY <1>1, Least
<1>3. \A m \in 0 .. n - 1 : m \in Slots(t) /\ ~(n <= m)
  BY <1>1, <1>2 DEF Slots, Searchable
<1>4. FirstStop(t, key, Probe(t, key, n))
  BY <1>2, <1>3 DEF FirstStop
<1> QED
  BY <1>2, <1>4, ProbeRing

LEMMA FindSlotIs ==
  ASSUME NEW t, Searchable(t), NEW key \in Text,
         NEW s \in Slots(t), FirstStop(t, key, s)
  PROVE  FindSlot(t, key) = s
<1>1. FindSlot(t, key) = CHOOSE r \in Slots(t) : FirstStop(t, key, r)
  BY DEF FindSlot
<1>2. FirstStop(t, key, FindSlot(t, key))
  BY <1>1
<1> QED
  BY <1>2, FirstStopUnique

LEMMA FindSlotFinds ==
  ASSUME NEW t, Searchable(t), NEW key \in Text, FindSlot(t, key) # -1
  PROVE  /\ FindSlot(t, key) \in Slots(t)
         /\ FirstStop(t, key, FindSlot(t, key))
         /\ Stops(t, key, FindSlot(t, key))
<1>1. PICK s \in Slots(t) : FirstStop(t, key, s)
  BY DEF FindSlot
<1>2. FindSlot(t, key) = s
  BY <1>1, FindSlotIs
<1> QED
  BY <1>1, <1>2 DEF FirstStop

(* -1 means that there is neither the key nor a free slot. *)
LEMMA FindSlotFails ==
  ASSUME NEW t, Searchable(t), NEW key \in Text,
         NEW p \in Slots(t), Stops(t, key, p)
  PROVE  FindSlot(t, key) # -1
<1>1. PICK s \in Slots(t) : FirstStop(t, key, s)
  BY FirstStopExists
<1>2. FindSlot(t, key) = s
  BY <1>1, FindSlotIs
<1> QED
  BY <1>2 DEF Slots, Searchable

(* In a table whose keys are reachable a search finds what a look at every  *)
(* slot would.                                                              *)
LEMMA FindMeans ==
  ASSUME NEW t, Searchable(t), Reachable(t), NEW key \in Text
  PROVE  /\ \A s \in Slots(t) :
              t.keys[s] = key => FindSlot(t, key) = s /\ Find(t, key) = t.values[s]
         /\ (\A s \in Slots(t) : t.keys[s] # key) => Find(t, key) = Null
<1>1. ASSUME NEW s \in Slots(t), t.keys[s] = key
      PROVE  FindSlot(t, key) = s /\ Find(t, key) = t.values[s]
  <2>1. s \in Occupied(t) /\ s # -1
    BY <1>1, TableAssumption DEF Occupied, Slots, Searchable
  <2>2. FindSlot(t, key) = s
    BY <1>1, <2>1 DEF Reachable
  <2> QED
    BY <2>1, <2>2 DEF Find
<1>2. ASSUME \A s \in Slots(t) : t.keys[s] # key
      PROVE  Find(t, key) = Null
  <2>1. CASE FindSlot(t, key) = -1
    BY <2>1 DEF Find
  <2>2. CASE FindSlot(t, key) # -1
    <3>1. FindSlot(t, key) \in Slots(t) /\ t.keys[FindSlot(t, key)] = Free
      BY <1>2, <2>2, FindSlotFinds DEF Stops
    <3> QED
      BY <3>1 DEF Find, Occupied
  <2> QED
    BY <2>1, <2>2
<1> QED
  BY <1>1, <1>2

-----------------------------------------------------------------------------
(* Storing. *)

(* The fields of a table after a store. *)
LEMMA StoreFields ==
  ASSUME NEW t, Searchable(t), NEW key \in Text, NEW value, Storable(t, key),
         NEW s, s = FindSlot(t, key),
         NEW u, u = Store(t, key, value)
  PROVE  /\ s \in Slots(t) /\ t.keys[s] \in {Free, key}
         /\ Searchable(u)
         /\ u.capacity = t.capacity /\ Slots(u) = Slots(t)
         /\ u.size = IF s \in Occupied(t) THEN t.size ELSE t.size + 1
         /\ u.keys[s] = key /\ u.values[s] = value
         /\ \A p \in Slots(t) \ {s} :
              u.keys[p] = t.keys[p] /\ u.values[p] = t.values[p]
<1>1. s \in Slots(t) /\ t.keys[s] \in {Free, key}
  BY FindSlotFinds DEF Storable, Stops
<1>2. /\ u = [capacity |-> u.capacity, size |-> u.size, keys |-> u.keys,
               values |-> u.values]
      /\ u.capacity = t.capacity
      /\ u.size = IF s \in Occupied(t) THEN t.size ELSE t.size + 1
      /\ u.keys = [t.keys EXCEPT ![s] = key]
      /\ u.values = [t.values EXCEPT ![s] = value]
  BY DEF Store, Searchable
<1>3. Slots(u) = Slots(t)
  BY <1>2 DEF Slots
<1>4. u.keys[s] = key /\ u.values[s] = value
  BY <1>1, <1>2 DEF Searchable
<1>5. ASSUME NEW p \in Slots(t) \ {s}
      PROVE  u.keys[p] = t.keys[p] /\ u.values[p] = t.values[p]
  BY <1>2, <1>5 DEF Searchable
<1>6. /\ u.size \in Nat
      /\ u.keys \in [Slots(t) -> Text \cup {Free}]
      /\ u.values = [p \in Slots(t) |-> u.values[p]]
  BY <1>1, <1>2 DEF Searchable
<1>7. Searchable(u)
  BY <1>2, <1>3, <1>6 DEF Searchable
<1> QED
  BY <1>1, <1>2, <1>3, <1>4, <1>5, <1>7

(* A store makes its key reachable and leaves the others so: the slot it    *)
(* fills was free, so no search for another key had gone past it.           *)
LEMMA StoreReachable ==
  ASSUME NEW t, Searchable(t), Reachable(t),
         NEW key \in Text, NEW value, Storable(t, key),
         NEW s, s = FindSlot(t, key),
         NEW u, u = Store(t, key, value)
  PROVE  Reachable(u)
<1>1. /\ s \in Slots(t) /\ t.keys[s] \in {Free, key}
      /\ Searchable(u) /\ u.capacity = t.capacity /\ Slots(u) = Slots(t)
      /\ u.keys[s] = key
      /\ \A p \in Slots(t) \ {s} : u.keys[p] = t.keys[p]
  BY StoreFields
<1>2. Searchable(t) /\ Searchable(u) /\ Slots(u) = Slots(t)
  BY <1>1
<1>3. FirstStop(t, key, s)
  BY <1>2, FindSlotFinds DEF Storable
<1>4. s \in Occupied(u) /\ u.keys[s] = key
  BY <1>1, TableAssumption DEF Occupied
<1>5. \A p \in Slots(t) \ {s} : u.keys[p] = t.keys[p]
  BY <1>1
<1>6. \A k, n : Probe(u, k, n) = Probe(t, k, n)
  BY <1>1 DEF Probe
<1>7. ASSUME NEW r \in Occupied(u)
      PROVE  FirstStop(u, u.keys[r], r)
  <2>1. CASE r = s
    <3>1. PICK n \in Slots(t) :
            /\ s = Probe(t, key, n)
            /\ \A m \in 0 .. n - 1 : ~Stops(t, key, Probe(t, key, m))
      BY <1>3 DEF FirstStop
    <3>2. \A m \in 0 .. n - 1 : m \in Slots(t) /\ m # n
      BY <1>2 DEF Slots, Searchable
    <3>3. \A m \in 0 .. n - 1 : Probe(t, key, m) \in Slots(t) \ {s}
      BY <1>2, <3>1, <3>2, ProbeRing
    <3>4. \A m \in 0 .. n - 1 : ~Stops(u, key, Probe(u, key, m))
      BY <1>5, <1>6, <3>1, <3>3 DEF Stops
    <3>5. Stops(u, key, s)
      BY <1>4 DEF Stops
    <3> QED
      BY <1>2, <1>4, <1>6, <2>1, <3>1, <3>4, <3>5 DEF FirstStop
  <2>2. CASE r # s
    <3>1. r \in Occupied(t) /\ r \in Slots(t) /\ u.keys[r] = t.keys[r]
      BY <1>2, <1>5, <2>2 DEF Occupied
    <3> DEFINE k == t.keys[r]
    <3>2. k \in Text
      BY <1>2, <3>1 DEF Searchable, Occupied
    <3>3. FindSlot(t, k) = r /\ r # -1
      BY <1>2, <3>1 DEF Reachable, Slots, Searchable
    <3>4. FirstStop(t, k, r)
      BY <1>2, <3>2, <3>3, FindSlotFinds
    <3> HIDE DEF k
    <3>5. PICK n \in Slots(t) :
            /\ r = Probe(t, k, n)
            /\ \A m \in 0 .. n - 1 : ~Stops(t, k, Probe(t, k, m))
      BY <3>4 DEF FirstStop
    <3>6. ASSUME NEW m \in 0 .. n - 1 PROVE ~Stops(u, k, Probe(u, k, m))
      <4>1. m \in Slots(t)
        BY <1>2 DEF Slots, Searchable
      <4>2. Probe(t, k, m) \in Slots(t) /\ t.keys[Probe(t, k, m)] \notin {Free, k}
        BY <1>2, <3>2, <3>5, <4>1, ProbeRing DEF Stops
      <4>3. u.keys[Probe(t, k, m)] = t.keys[Probe(t, k, m)]
        BY <1>1, <1>4, <1>5, <4>2
      <4> QED
        BY <1>6, <4>2, <4>3 DEF Stops
    <3>7. Stops(u, k, r)
      BY <3>1 DEF Stops, k
    <3>8. FirstStop(u, k, r)
      BY <1>2, <1>6, <3>5, <3>6, <3>7 DEF FirstStop
    <3> QED
      BY <3>1, <3>8 DEF k
  <2> QED
    BY <2>1, <2>2
<1>8. \A r \in Occupied(u) : FindSlot(u, u.keys[r]) = r
  <2> TAKE r \in Occupied(u)
  <2>1. r \in Slots(u) /\ u.keys[r] \in Text
    BY <1>2 DEF Occupied, Searchable
  <2> QED
    BY <1>2, <1>7, <2>1, FindSlotIs
<1> QED
  BY <1>8 DEF Reachable

(* After a store the key has the value and every other key what it had. *)
LEMMA StoreFinds ==
  ASSUME NEW t, Searchable(t), Reachable(t),
         NEW key \in Text, NEW value, Storable(t, key),
         NEW u, u = Store(t, key, value)
  PROVE  /\ Find(u, key) = value
         /\ \A k \in Text \ {key} : Find(u, k) = Find(t, k)
<1> DEFINE s == FindSlot(t, key)
<1>1. /\ s \in Slots(t) /\ t.keys[s] \in {Free, key}
      /\ Searchable(u) /\ Slots(u) = Slots(t)
      /\ u.keys[s] = key /\ u.values[s] = value
      /\ \A p \in Slots(t) \ {s} :
           u.keys[p] = t.keys[p] /\ u.values[p] = t.values[p]
  BY StoreFields
<1>2. Reachable(u)
  BY StoreReachable
<1> HIDE DEF s
<1>3. Find(u, key) = value
  BY <1>1, <1>2, FindMeans
<1>4. ASSUME NEW k \in Text \ {key}
      PROVE  Find(u, k) = Find(t, k)
  <2>1. CASE \E p \in Slots(t) : t.keys[p] = k
    <3>1. PICK p \in Slots(t) : t.keys[p] = k
      BY <2>1
    <3>2. p # s
      BY <1>1, <3>1, TableAssumption
    <3>3. u.keys[p] = k /\ u.values[p] = t.values[p]
      BY <1>1, <3>1, <3>2
    <3>4. Find(t, k) = t.values[p]
      BY <3>1, FindMeans
    <3>5. Find(u, k) = u.values[p]
      BY <1>1, <1>2, <3>3, FindMeans
    <3> QED
      BY <3>3, <3>4, <3>5
  <2>2. CASE \A p \in Slots(t) : t.keys[p] # k
    <3>1. \A p \in Slots(u) : u.keys[p] # k
      BY <1>1, <2>2
    <3>2. Find(t, k) = Null
      BY <2>2, FindMeans
    <3>3. Find(u, k) = Null
      BY <1>1, <1>2, <3>1, FindMeans
    <3> QED
      BY <3>2, <3>3
  <2> QED
    BY <2>1, <2>2
<1> QED
  BY <1>3, <1>4

-----------------------------------------------------------------------------
(* Counting. *)

Counted(t) == t.size = Cardinality(Occupied(t))

LEMMA OccupiedFinite ==
  ASSUME NEW t, Searchable(t)
  PROVE  /\ IsFiniteSet(Occupied(t))
         /\ Cardinality(Occupied(t)) \in Nat
         /\ Cardinality(Occupied(t)) <= t.capacity
         /\ Cardinality(Occupied(t)) = t.capacity => Occupied(t) = Slots(t)
         /\ Cardinality(Slots(t)) = t.capacity
<1>1. IsFiniteSet(Slots(t)) /\ Cardinality(Slots(t)) = t.capacity
  <2> DEFINE c == t.capacity
  <2>1. c \in Nat \ {0}
    BY DEF Searchable
  <2> HIDE DEF c
  <2>2. IsFiniteSet(0 .. c - 1) /\ Cardinality(0 .. c - 1) = c
    BY <2>1, FS_Interval
  <2> QED
    BY <2>2 DEF Slots, c
<1>2. Occupied(t) \in SUBSET Slots(t)
  BY DEF Occupied
<1>3. /\ IsFiniteSet(Occupied(t))
      /\ Cardinality(Occupied(t)) <= Cardinality(Slots(t))
      /\ Cardinality(Slots(t)) = Cardinality(Occupied(t)) => Slots(t) = Occupied(t)
  BY <1>1, <1>2, FS_Subset
<1>4. Cardinality(Occupied(t)) \in Nat
  BY <1>3, FS_CardinalityType
<1> QED
  BY <1>1, <1>3, <1>4

(* While a table counts fewer keys than slots there is room for any key. *)
LEMMA RoomForAny ==
  ASSUME NEW t, Searchable(t), Counted(t), t.size < t.capacity, NEW key \in Text
  PROVE  Storable(t, key)
<1>1. Occupied(t) # Slots(t)
  BY OccupiedFinite DEF Counted, Searchable
<1>2. PICK p \in Slots(t) : t.keys[p] = Free
  BY <1>1 DEF Occupied
<1>3. Stops(t, key, p)
  BY <1>2 DEF Stops
<1> QED
  BY <1>3, FindSlotFails DEF Storable

(* A table that is full has a key in every slot. *)
LEMMA FullMeansFull ==
  ASSUME NEW t, Searchable(t), Counted(t), Full(t)
  PROVE  Occupied(t) = Slots(t) /\ t.size = t.capacity
BY OccupiedFinite DEF Counted, Full, Searchable

LEMMA StoreCounted ==
  ASSUME NEW t, Searchable(t), Counted(t),
         NEW key \in Text, NEW value, Storable(t, key),
         NEW u, u = Store(t, key, value)
  PROVE  Counted(u)
<1> DEFINE s == FindSlot(t, key)
<1>1. /\ s \in Slots(t) /\ Slots(u) = Slots(t)
      /\ u.size = IF s \in Occupied(t) THEN t.size ELSE t.size + 1
      /\ u.keys[s] = key
      /\ \A p \in Slots(t) \ {s} : u.keys[p] = t.keys[p]
  BY StoreFields
<1> HIDE DEF s
<1>2. Occupied(u) = Occupied(t) \cup {s}
  BY <1>1, TableAssumption DEF Occupied
<1>3. Cardinality(Occupied(t) \cup {s}) =
        IF s \in Occupied(t) THEN Cardinality(Occupied(t))
        ELSE Cardinality(Occupied(t)) + 1
  BY OccupiedFinite, FS_AddElement
<1> QED
  BY <1>1, <1>2, <1>3 DEF Counted

-----------------------------------------------------------------------------
(* Types of values. *)

LEMMA TableSearchable ==
  ASSUME NEW V, NEW t, IsTable(t, V)
  PROVE  Searchable(t)
BY DEF IsTable, Searchable

LEMMA StoreTyped ==
  ASSUME NEW V, NEW t, IsTable(t, V), NEW key \in Text,
         NEW value \in V \cup {Null}, Storable(t, key)
  PROVE  IsTable(Store(t, key, value), V)
<1> DEFINE u == Store(t, key, value)
           s == FindSlot(t, key)
<1>1. Searchable(t)
  BY TableSearchable
<1>2. /\ s \in Slots(t) /\ Searchable(u) /\ Slots(u) = Slots(t)
      /\ u.values[s] = value
      /\ \A p \in Slots(t) \ {s} : u.values[p] = t.values[p]
  BY <1>1, StoreFields
<1> HIDE DEF u, s
<1>3. u.values \in [Slots(t) -> V \cup {Null}]
  BY <1>2 DEF IsTable, Searchable
<1>4. IsTable(u, V)
  BY <1>2, <1>3 DEF IsTable, Searchable
<1> QED
  BY <1>4 DEF u

LEMMA NewTableIs ==
  ASSUME NEW V, NEW c \in Nat \ {0}, NEW t, t = NewTable(c)
  PROVE  /\ IsTable(t, V) /\ Reachable(t) /\ Counted(t)
         /\ t.capacity = c /\ t.size = 0 /\ Occupied(t) = {}
<1>1. IsTable(t, V) /\ t.capacity = c /\ t.size = 0
  BY DEF IsTable, NewTable, Slots
<1>2. Occupied(t) = {}
  BY DEF Occupied, NewTable, Slots
<1>3. Reachable(t)
  BY <1>2 DEF Reachable
<1>4. Counted(t)
  BY <1>1, <1>2, FS_EmptySet DEF Counted
<1> QED
  BY <1>1, <1>2, <1>3, <1>4

(* Growing does not shrink, and adds room unless there was one slot only. *)
LEMMA Growth ==
  ASSUME NEW t, Searchable(t)
  PROVE  /\ GrownCapacity(t) \in Nat \ {0}
         /\ GrownCapacity(t) >= t.capacity
         /\ t.capacity > 1 => GrownCapacity(t) > t.capacity
<1>1. \A c \in Nat \ {0} : /\ (3 * c) \div 2 \in Nat \ {0}
                           /\ (3 * c) \div 2 >= c
                           /\ c > 1 => (3 * c) \div 2 > c
  BY SMT
<1> QED
  BY <1>1 DEF Searchable, GrownCapacity

-----------------------------------------------------------------------------
(* The invariant. *)

(* Symbols and texts are inverse to each other. *)
Linked ==
  LET Symbol(text) == Find(tables["symbols"], text)
  IN  /\ \A text \in Text :
           Symbol(text) # Null =>
             Symbol(text) \in DOMAIN Settled /\ Settled[Symbol(text)] = text
      /\ \A id \in DOMAIN Settled : Symbol(Settled[id]) = id

(* While a table is copied it is full, and its copy holds what the slots    *)
(* before next hold, each key once.                                         *)
Copying ==
  growing # NotGrowing =>
    LET t == tables[growing.kind]
        copy == growing.tmp
    IN  /\ Occupied(t) = Slots(t) /\ t.size = t.capacity
        /\ copy.capacity = GrownCapacity(t)
        /\ Counted(copy) /\ copy.size = growing.next
        /\ \A s \in Slots(t) :
             s < growing.next => Find(copy, t.keys[s]) = t.values[s]
        /\ \A p \in Occupied(copy) :
             \E s \in Slots(t) : s < growing.next /\ t.keys[s] = copy.keys[p]
        /\ growing.kind = "symbols" =>
             /\ lookup # <<>>
             /\ growing.key = lookup[Len(lookup)] /\ growing.value = Len(lookup)
             /\ Find(t, growing.key) = Null

(* Tables that do not start with one slot have always more. *)
Roomy ==
  (\A kind \in Kinds : Capacities[kind] > 1) =>
    ~aborted /\ \A kind \in Kinds : tables[kind].capacity > 1

IInv == TypeOK /\ KeysReachable /\ SizesRight /\ Copying /\ Linked /\ Roomy

(* The tables of a state that satisfies it. *)
LEMMA TablesGood ==
  ASSUME IInv, NEW kind \in Kinds
  PROVE  /\ IsTable(tables[kind], Values(kind)) /\ Searchable(tables[kind])
         /\ Reachable(tables[kind]) /\ Counted(tables[kind])
<1>1. IsTable(tables[kind], Values(kind))
  BY DEF IInv, TypeOK
<1>2. Searchable(tables[kind])
  BY <1>1, TableSearchable
<1> QED
  BY <1>1, <1>2 DEF IInv, KeysReachable, SizesRight, Counted

LEMMA InitIInv == Init => IInv
<1> SUFFICES ASSUME Init PROVE IInv
  OBVIOUS
<1>1. /\ growing = NotGrowing /\ lookup = <<>> /\ aborted = FALSE
      /\ tables = [kind \in Kinds |-> NewTable(Capacities[kind])]
  BY DEF Init
<1>2. ASSUME NEW kind \in Kinds
      PROVE  /\ IsTable(tables[kind], Values(kind)) /\ Reachable(tables[kind])
             /\ Counted(tables[kind]) /\ Occupied(tables[kind]) = {}
             /\ tables[kind].capacity = Capacities[kind]
  <2>1. Capacities[kind] \in Nat \ {0} /\ tables[kind] = NewTable(Capacities[kind])
    BY <1>1, NamesAssumption
  <2> QED
    BY <2>1, NewTableIs
<1>3. TypeOK
  <2>1. tables = [kind \in Kinds |-> tables[kind]]
    BY <1>1, Zenon
  <2>2. lookup \in Seq(Text)
    BY <1>1
  <2>3. aborted \in BOOLEAN
    BY <1>1, Zenon
  <2> QED
    BY <1>1, <1>2, <2>1, <2>2, <2>3, Zenon DEF TypeOK
<1>4. KeysReachable /\ SizesRight /\ Copying /\ Roomy
  BY <1>1, <1>2 DEF KeysReachable, SizesRight, Copying, Roomy, Counted
<1>5. Linked
  <2>1. Settled = <<>>
    BY <1>1 DEF Settled
  <2>2. "symbols" \in Kinds
    BY DEF Kinds
  <2>3. Searchable(tables["symbols"])
    BY <1>2, <2>2, TableSearchable
  <2>4. \A s \in Slots(tables["symbols"]) : tables["symbols"].keys[s] = Free
    BY <1>2, <2>2 DEF Occupied
  <2>5. \A text \in Text : Find(tables["symbols"], text) = Null
    BY <1>2, <2>2, <2>3, <2>4, FindMeans, TableAssumption
  <2> QED
    BY <2>1, <2>5 DEF Linked
<1> QED
  BY <1>3, <1>4, <1>5 DEF IInv

(* Storing, into the table itself or into the copy that replaces it: t      *)
(* finds what the table finds.  It is the step of Naming.                   *)
LEMMA StoreStep ==
  ASSUME IInv, ~aborted, NEW kind \in Kinds,
         NEW t, IsTable(t, Values(kind)), Reachable(t), Counted(t),
         t.capacity >= tables[kind].capacity,
         \A text \in Text : Find(t, text) = Find(tables[kind], text),
         NEW key \in Text, NEW value \in Values(kind), Storable(t, key),
         StoreInto(kind, t, key, value),
         lookup' \in Seq(Text),
         kind = "symbols" =>
           /\ lookup' = Append(Settled, key) /\ value = Len(Settled) + 1
           /\ Find(t, key) = Null,
         kind = "types" => lookup' = Settled,
         Settled \in Seq(Text)
  PROVE  /\ IInv'
         /\ kind = "symbols" => Promise!New(key)
         /\ kind = "types" => Promise!Alias(key, value)
<1> DEFINE u == Store(t, key, value)
<1>1. /\ tables' = [tables EXCEPT ![kind] = u]
      /\ growing' = NotGrowing /\ aborted' = aborted
      /\ returned' = <<value>>
  BY DEF StoreInto
<1>2. Searchable(t)
  BY TableSearchable
<1>3. /\ IsTable(u, Values(kind)) /\ Reachable(u) /\ Counted(u)
      /\ u.capacity = t.capacity
      /\ Find(u, key) = value
      /\ \A text \in Text \ {key} : Find(u, text) = Find(tables[kind], text)
  <2>1. IsTable(u, Values(kind))
    BY StoreTyped
  <2>2. Reachable(u) /\ u.capacity = t.capacity
    BY <1>2, StoreReachable, StoreFields
  <2>3. Counted(u)
    BY <1>2, StoreCounted
  <2>4. Find(u, key) = value /\ \A text \in Text \ {key} : Find(u, text) = Find(t, text)
    BY <1>2, StoreFinds
  <2> QED
    BY <2>1, <2>2, <2>3, <2>4
<1> HIDE DEF u
<1>4. Settled' = lookup'
  BY <1>1 DEF Settled
<1>5. /\ DOMAIN tables = Kinds
      /\ tables'[kind] = u
      /\ \A other \in Kinds \ {kind} : tables'[other] = tables[other]
  <2>1. tables = [other \in Kinds |-> tables[other]]
    BY DEF IInv, TypeOK
  <2> QED
    BY <1>1, <2>1
<1>6. \A other \in Kinds :
        IsTable(tables'[other], Values(other)) /\ Reachable(tables'[other])
        /\ Counted(tables'[other])
  BY <1>3, <1>5, TablesGood
<1>7. TypeOK'
  <2>1. tables' = [other \in Kinds |-> tables'[other]]
    <3>1. tables = [other \in Kinds |-> tables[other]]
      BY DEF IInv, TypeOK
    <3> QED
      BY <1>1, <3>1
  <2>2. aborted' \in BOOLEAN
    BY <1>1 DEF IInv, TypeOK
  <2> QED
    BY <1>1, <1>6, <2>1, <2>2, Zenon DEF TypeOK
<1>8. (KeysReachable /\ SizesRight /\ Copying)'
  BY <1>1, <1>6 DEF KeysReachable, SizesRight, Copying, Counted
<1>9. Roomy'
  <2> SUFFICES ASSUME \A other \in Kinds : Capacities[other] > 1
               PROVE  ~aborted' /\ \A other \in Kinds : tables'[other].capacity > 1
    BY DEF Roomy
  <2>1. \A other \in Kinds : tables[other].capacity > 1
    BY DEF IInv, Roomy
  <2>2. tables'[kind].capacity > 1
    <3>1. t.capacity \in Nat /\ tables[kind].capacity \in Nat
      BY TablesGood DEF IsTable
    <3> QED
      BY <1>3, <1>5, <2>1, <3>1
  <2> QED
    BY <1>1, <1>5, <2>1, <2>2
<1>10. CASE kind = "symbols"
  <2>1. /\ Settled' = Append(Settled, key) /\ value = Len(Settled) + 1
        /\ Find(tables["symbols"], key) = Null
    BY <1>4, <1>10
  <2>2. /\ Len(Settled') = Len(Settled) + 1
        /\ Settled'[Len(Settled) + 1] = key
        /\ \A i \in 1 .. Len(Settled) : Settled'[i] = Settled[i]
        /\ DOMAIN Settled = 1 .. Len(Settled)
        /\ DOMAIN Settled' = 1 .. Len(Settled) + 1
        /\ Len(Settled) \in Nat
    BY <2>1
  <2>3. \A id \in DOMAIN Settled : Settled[id] # key
    <3>1. \A id \in DOMAIN Settled : Find(tables["symbols"], Settled[id]) = id
      BY DEF IInv, Linked
    <3>2. Null \notin DOMAIN Settled
      BY <2>2, NamesAssumption
    <3> QED
      BY <2>1, <3>1, <3>2
  <2>4. Linked'
    <3> DEFINE old(text) == Find(tables["symbols"], text)
               new(text) == Find(tables'["symbols"], text)
    <3>1. new(key) = value /\ \A text \in Text \ {key} : new(text) = old(text)
      BY <1>3, <1>5, <1>10
    <3>2. /\ \A text \in Text : old(text) # Null =>
                old(text) \in DOMAIN Settled /\ Settled[old(text)] = text
          /\ \A id \in DOMAIN Settled : old(Settled[id]) = id
      BY DEF IInv, Linked
    <3> HIDE DEF old, new
    <3>3. \A text \in Text : new(text) # Null =>
            new(text) \in DOMAIN Settled' /\ Settled'[new(text)] = text
      BY <2>1, <2>2, <3>1, <3>2
    <3>4. \A id \in DOMAIN Settled' : new(Settled'[id]) = id
      <4> TAKE id \in DOMAIN Settled'
      <4>1. CASE id = Len(Settled) + 1
        BY <2>1, <2>2, <3>1, <4>1
      <4>2. CASE id # Len(Settled) + 1
        <5>1. id \in 1 .. Len(Settled) /\ Settled'[id] = Settled[id]
          BY <2>2, <4>2
        <5>2. Settled[id] \in Text \ {key}
          BY <2>2, <2>3, <5>1
        <5> QED
          BY <2>2, <3>1, <3>2, <5>1, <5>2
      <4> QED
        BY <4>1, <4>2
    <3> QED
      BY <3>3, <3>4 DEF Linked, new
  <2>5. Promise!New(key)
    <3>1. \A id \in DOMAIN Settled : ~Promise!HasSymbol(key, id)
      BY <2>3 DEF Promise!HasSymbol
    <3>2. returned' = <<Len(Settled) + 1>>
      BY <1>1, <1>10, <2>1
    <3>3. [n \in Text |-> Find(tables'["types"], n)] = [n \in Text |-> Find(tables["types"], n)]
      BY <1>5, <1>10 DEF Kinds
    <3> QED
      BY <2>1, <3>1, <3>2, <3>3 DEF Promise!New
  <2> QED
    BY <1>7, <1>8, <1>9, <1>10, <2>4, <2>5 DEF IInv
<1>11. CASE kind = "types"
  <2>1. Settled' = Settled /\ tables'["symbols"] = tables["symbols"]
    BY <1>4, <1>5, <1>11 DEF Kinds
  <2>2. Linked'
    <3>1. Linked
      BY DEF IInv
    <3> QED
      BY <2>1, <3>1 DEF Linked
  <2>3. Promise!Alias(key, value)
    <3>1. [n \in Text |-> Find(tables'["types"], n)] =
            [[n \in Text |-> Find(tables["types"], n)] EXCEPT ![key] = value]
      BY <1>3, <1>5, <1>11
    <3>2. returned' = <<value>>
      BY <1>1, <1>11
    <3> QED
      BY <2>1, <3>1, <3>2 DEF Promise!Alias
  <2> QED
    BY <1>7, <1>8, <1>9, <1>11, <2>2, <2>3 DEF IInv
<1> QED
  BY <1>10, <1>11 DEF Kinds

(* What is known between calls. *)
LEMMA SettledTyped ==
  ASSUME IInv
  PROVE  /\ lookup \in Seq(Text) /\ Settled \in Seq(Text)
         /\ growing = NotGrowing => Settled = lookup
<1>1. lookup \in Seq(Text)
  BY DEF IInv, TypeOK
<1>2. ASSUME growing # NotGrowing, growing.kind = "symbols"
      PROVE  lookup # <<>>
  BY <1>2 DEF IInv, Copying
<1> QED
  BY <1>1, <1>2 DEF Settled

(* table_add into a table with room is StoreStep; into a full one it begins *)
(* to copy, and Naming sees nothing yet.                                    *)
LEMMA AddStep ==
  ASSUME IInv, Ready, NEW kind \in Kinds,
         NEW key \in Text, NEW value \in Values(kind),
         TableAdd(kind, key, value),
         kind = "symbols" =>
           /\ lookup' = Append(lookup, key) /\ value = Len(lookup) + 1
           /\ Find(tables["symbols"], key) = Null,
         kind = "types" => lookup' = lookup
  PROVE  /\ IInv'
         /\ \/ UNCHANGED Promise!vars
            \/ kind = "symbols" /\ Promise!New(key)
            \/ kind = "types" /\ Promise!Alias(key, value)
<1> DEFINE t == tables[kind]
<1>1. /\ IsTable(t, Values(kind)) /\ Searchable(t) /\ Reachable(t) /\ Counted(t)
  BY TablesGood
<1>2. t.capacity \in Nat \ {0} /\ t.size \in Nat
  BY <1>1 DEF Searchable
<1>3. growing = NotGrowing /\ ~aborted /\ Settled = lookup /\ lookup \in Seq(Text)
      /\ Settled \in Seq(Text)
  BY SettledTyped DEF Ready
<1>4. lookup' \in Seq(Text)
  BY <1>3 DEF Kinds
<1>5. CASE ~Full(t)
  <2>1. StoreInto(kind, t, key, value)
    BY <1>5 DEF TableAdd
  <2>2. Storable(t, key)
    <3>1. t.size < t.capacity
      BY <1>2, <1>5 DEF Full
    <3> QED
      BY <1>1, <3>1, RoomForAny
  <2>3. t.capacity >= tables[kind].capacity
    BY <1>2
  <2>4. kind = "symbols" =>
          /\ lookup' = Append(Settled, key) /\ value = Len(Settled) + 1
          /\ Find(t, key) = Null
    BY <1>3
  <2>5. kind = "types" => lookup' = Settled
    BY <1>3
  <2> HIDE DEF t
  <2>6. \A text \in Text : Find(t, text) = Find(tables[kind], text)
    BY DEF t
  <2>7. /\ IInv'
        /\ kind = "symbols" => Promise!New(key)
        /\ kind = "types" => Promise!Alias(key, value)
    BY <1>1, <1>3, <1>4, <2>1, <2>2, <2>3, <2>4, <2>5, <2>6, StoreStep
  <2> QED
    BY <2>7 DEF Kinds
<1>6. CASE Full(t)
  <2> DEFINE copy == NewTable(GrownCapacity(t))
  <2>1. /\ growing' = Growing(kind, key, value)
        /\ tables' = tables /\ returned' = returned /\ aborted' = aborted
    BY <1>6 DEF TableAdd
  <2>2. growing' = [next |-> 0, kind |-> kind, tmp |-> copy, key |-> key,
                    value |-> value]
        /\ growing' # NotGrowing
    BY <2>1 DEF Growing, NotGrowing
  <2>3. /\ IsTable(copy, Values(kind)) /\ Reachable(copy) /\ Counted(copy)
        /\ copy.capacity = GrownCapacity(t) /\ copy.size = 0 /\ Occupied(copy) = {}
    BY <1>1, Growth, NewTableIs
  <2>4. Occupied(t) = Slots(t) /\ t.size = t.capacity
    BY <1>1, <1>6, FullMeansFull
  <2> HIDE DEF copy
  <2>5. TypeOK'
    <3>1. 0 \in 0 .. tables[kind].capacity
      BY <1>2
    <3> QED
      BY <1>4, <2>1, <2>2, <2>3, <3>1 DEF IInv, TypeOK
  <2>6. KeysReachable' /\ SizesRight' /\ Roomy'
    BY <2>1, <2>2, <2>3 DEF IInv, KeysReachable, SizesRight, Roomy
  <2>7. Copying'
    <3>1. \A s \in Slots(t) : ~(s < 0)
      BY <1>2 DEF Slots
    <3>2. kind = "symbols" =>
            lookup' # <<>> /\ key = lookup'[Len(lookup')] /\ value = Len(lookup')
      BY <1>3
    <3> QED
      BY <2>1, <2>2, <2>3, <2>4, <3>1, <3>2 DEF Copying
  <2>8. Settled' = Settled
    <3>1. CASE kind = "symbols"
      <4>1. lookup' = Append(lookup, key)
        BY <3>1
      <4>2. SubSeq(lookup', 1, Len(lookup') - 1) = lookup
        BY <1>3, <4>1
      <4> QED
        BY <1>3, <2>2, <3>1, <4>2 DEF Settled
    <3>2. CASE kind = "types"
      BY <1>3, <2>2, <3>2 DEF Settled
    <3> QED
      BY <3>1, <3>2 DEF Kinds
  <2>9. Linked' /\ UNCHANGED Promise!vars
    BY <2>1, <2>8 DEF IInv, Linked, Promise!vars
  <2> QED
    BY <2>5, <2>6, <2>7, <2>9 DEF IInv
<1> QED
  BY <1>5, <1>6

(* Copying one slot: there is room, as no more than next keys are in the    *)
(* copy, and the key is not among them.                                     *)
LEMMA CopyStep ==
  ASSUME IInv, CopySlot
  PROVE  IInv' /\ UNCHANGED Promise!vars
<1> DEFINE kind == growing.kind
           t == tables[kind]
           copy == growing.tmp
           s == growing.next
           k == t.keys[s]
           v == t.values[s]
           next == Store(copy, k, v)
           slot == FindSlot(copy, k)
<1>1. /\ growing # NotGrowing /\ ~aborted /\ s < t.capacity
      /\ tables' = tables /\ lookup' = lookup /\ returned' = returned
  BY DEF CopySlot
<1>2. /\ growing = [next |-> s, kind |-> kind, tmp |-> copy,
                    key |-> growing.key, value |-> growing.value]
      /\ kind \in Kinds /\ s \in 0 .. t.capacity
      /\ IsTable(copy, Values(kind))
      /\ growing.key \in Text /\ growing.value \in Values(kind)
  BY <1>1 DEF IInv, TypeOK
<1>3. /\ Occupied(t) = Slots(t) /\ t.size = t.capacity
      /\ copy.capacity = GrownCapacity(t)
      /\ Counted(copy) /\ copy.size = s
      /\ \A p \in Slots(t) : p < s => Find(copy, t.keys[p]) = t.values[p]
      /\ \A p \in Occupied(copy) :
           \E q \in Slots(t) : q < s /\ t.keys[q] = copy.keys[p]
  BY <1>1 DEF IInv, Copying
<1>4. /\ IsTable(t, Values(kind)) /\ Searchable(t) /\ Reachable(t)
      /\ Searchable(copy) /\ Reachable(copy)
  BY <1>1, <1>2, TablesGood, TableSearchable DEF IInv, KeysReachable
<1>5. t.capacity \in Nat \ {0} /\ copy.capacity \in Nat /\ copy.capacity >= t.capacity
  BY <1>3, <1>4, Growth DEF Searchable
<1>6. s \in Slots(t) /\ s \in Occupied(t) /\ s \in Nat
  BY <1>1, <1>2, <1>3, <1>5 DEF Slots
<1>7. k \in Text /\ v \in Values(kind) \cup {Null}
  BY <1>4, <1>6 DEF Occupied, Searchable, IsTable
<1>8. Storable(copy, k)
  <2>1. copy.size < copy.capacity
    BY <1>1, <1>2, <1>3, <1>5
  <2> QED
    BY <1>3, <1>4, <1>7, <2>1, RoomForAny
<1>9. aborted' = aborted
      /\ growing' = [growing EXCEPT !.next = s + 1, !.tmp = next]
  BY <1>6, <1>8 DEF CopySlot
<1>10. \A p \in Slots(t) : t.keys[p] = k => p = s
  BY <1>4, <1>6, <1>7, FindMeans
<1>11. /\ IsTable(next, Values(kind)) /\ Reachable(next) /\ Counted(next)
       /\ Find(next, k) = v
       /\ \A text \in Text \ {k} : Find(next, text) = Find(copy, text)
  <2>1. IsTable(next, Values(kind))
    BY <1>2, <1>7, <1>8, StoreTyped
  <2>2. Reachable(next)
    BY <1>4, <1>7, <1>8, StoreReachable
  <2>3. Counted(next)
    BY <1>3, <1>4, <1>7, <1>8, StoreCounted
  <2>4. Find(next, k) = v /\ \A text \in Text \ {k} : Find(next, text) = Find(copy, text)
    BY <1>4, <1>7, <1>8, StoreFinds
  <2> QED
    BY <2>1, <2>2, <2>3, <2>4
<1>12. /\ slot \in Slots(copy) /\ copy.keys[slot] \in {Free, k}
       /\ Slots(next) = Slots(copy) /\ next.capacity = copy.capacity
       /\ next.size = IF slot \in Occupied(copy) THEN copy.size ELSE copy.size + 1
       /\ next.keys[slot] = k
       /\ \A p \in Slots(copy) \ {slot} : next.keys[p] = copy.keys[p]
  BY <1>4, <1>7, <1>8, StoreFields
<1> HIDE DEF next, slot
<1>13. slot \notin Occupied(copy)
  <2> SUFFICES ASSUME slot \in Occupied(copy) PROVE FALSE
    OBVIOUS
  <2>1. copy.keys[slot] = k
    BY <1>12 DEF Occupied
  <2>2. PICK q \in Slots(t) : q < s /\ t.keys[q] = k
    BY <1>3, <2>1
  <2> QED
    BY <1>6, <1>10, <2>2
<1>14. /\ growing' = [next |-> s + 1, kind |-> kind, tmp |-> next,
                     key |-> growing.key, value |-> growing.value]
       /\ growing' # NotGrowing
  <2>1. growing' = [next |-> s + 1, kind |-> kind, tmp |-> next,
                    key |-> growing.key, value |-> growing.value]
    BY <1>2, <1>9
  <2> QED
    BY <1>6, <2>1 DEF NotGrowing
<1> HIDE DEF k, v, s, copy
<1>15. TypeOK'
  <2>1. s + 1 \in 0 .. t.capacity
    BY <1>1, <1>5, <1>6
  <2> QED
    BY <1>1, <1>2, <1>9, <1>11, <1>14, <2>1 DEF IInv, TypeOK
<1>16. KeysReachable' /\ SizesRight' /\ Roomy'
  BY <1>1, <1>9, <1>11, <1>14 DEF IInv, KeysReachable, SizesRight, Roomy
<1>17. Copying'
  <2>1. next.size = s + 1 /\ next.capacity = GrownCapacity(t)
    BY <1>3, <1>12, <1>13
  <2>2. ASSUME NEW p \in Slots(t), p < s + 1
        PROVE  Find(next, t.keys[p]) = t.values[p]
    <3>1. CASE p = s
      BY <1>11, <3>1 DEF k, v
    <3>2. CASE p # s
      <4>1. p \in Nat /\ p < s
        BY <1>5, <1>6, <2>2, <3>2 DEF Slots
      <4>2. t.keys[p] \in Text \ {k}
        BY <1>3, <1>4, <1>10, <3>2 DEF Occupied, Searchable
      <4> QED
        BY <1>3, <1>11, <4>1, <4>2
    <3> QED
      BY <3>1, <3>2
  <2>3. ASSUME NEW p \in Occupied(next)
        PROVE  \E q \in Slots(t) : q < s + 1 /\ t.keys[q] = next.keys[p]
    <3>1. CASE p = slot
      BY <1>6, <1>12, <3>1 DEF k
    <3>2. CASE p # slot
      <4>1. p \in Occupied(copy) /\ next.keys[p] = copy.keys[p]
        BY <1>12, <3>2 DEF Occupied
      <4>2. PICK q \in Slots(t) : q < s /\ t.keys[q] = copy.keys[p]
        BY <1>3, <4>1
      <4>3. q < s + 1
        BY <1>5, <1>6, <4>2 DEF Slots
      <4> QED
        BY <4>1, <4>2, <4>3
    <3> QED
      BY <3>1, <3>2
  <2>4. kind = "symbols" =>
          /\ lookup # <<>>
          /\ growing.key = lookup[Len(lookup)] /\ growing.value = Len(lookup)
          /\ Find(t, growing.key) = Null
    BY <1>1 DEF IInv, Copying
  <2> QED
    BY <1>1, <1>3, <1>11, <1>14, <2>1, <2>2, <2>3, <2>4 DEF Copying
<1>18. Settled' = Settled
  BY <1>1, <1>14 DEF Settled
<1>19. Linked' /\ UNCHANGED Promise!vars
  BY <1>1, <1>18 DEF IInv, Linked, Promise!vars
<1> QED
  BY <1>15, <1>16, <1>17, <1>19 DEF IInv

(* A sequence is its last element after the others. *)
LEMMA AllButLast ==
  ASSUME NEW seq \in Seq(Text), seq # <<>>,
         NEW front \in Seq(Text), front = SubSeq(seq, 1, Len(seq) - 1)
  PROVE  seq = Append(front, seq[Len(seq)]) /\ Len(seq) = Len(front) + 1
<1> DEFINE n == Len(seq) - 1
<1>1. Len(seq) \in Nat \ {0} /\ n \in Nat /\ Len(seq) = n + 1
  BY EmptySeq
<1>2. \A i \in 1 .. n + 1 : seq[i] \in Text
  BY <1>1, ElementOfSeq
<1> HIDE DEF n
<1>3. front = SubSeq(seq, 1, n)
  BY DEF n
<1>4. /\ Len(front) = n
      /\ \A i \in 1 .. n : front[i] = seq[i]
  <2>1. \A i \in 1 .. n : seq[i] \in Text
    BY <1>1, <1>2
  <2>2. /\ Len(SubSeq(seq, 1, n)) = IF 1 <= n THEN n - 1 + 1 ELSE 0
        /\ \A i \in 1 .. n - 1 + 1 : SubSeq(seq, 1, n)[i] = seq[1 + i - 1]
    BY <1>1, <2>1, SubSeqProperties
  <2>3. \A i \in 1 .. n : front[i] = seq[1 + i - 1] /\ 1 + i - 1 = i
    BY <1>1, <1>3, <2>2
  <2>4. Len(front) = n
    BY <1>1, <1>3, <2>2
  <2> QED
    BY <2>3, <2>4
<1> DEFINE whole == Append(front, seq[Len(seq)])
<1>5. whole \in Seq(Text) /\ Len(whole) = Len(seq)
  BY <1>1, <1>2, <1>4
<1>6. \A i \in 1 .. Len(seq) : seq[i] = whole[i]
  BY <1>1, <1>2, <1>4
<1> HIDE DEF whole
<1>7. seq = whole
  BY <1>5, <1>6, SeqEqual
<1> QED
  BY <1>1, <1>4, <1>7 DEF whole

(* The copy replaces the table: nothing is lost, and the store of the new   *)
(* key is the step of Naming.                                               *)
LEMMA EndStep ==
  ASSUME IInv, EndResize
  PROVE  /\ IInv'
         /\ \/ UNCHANGED Promise!vars
            \/ growing.kind = "symbols" /\ Promise!New(growing.key)
            \/ growing.kind = "types" /\ Promise!Alias(growing.key, growing.value)
<1> DEFINE kind == growing.kind
           t == tables[kind]
           copy == growing.tmp
           key == growing.key
           value == growing.value
<1>1. /\ growing # NotGrowing /\ ~aborted /\ growing.next = t.capacity
      /\ StoreInto(kind, Resized, key, value) /\ lookup' = lookup
  BY DEF EndResize
<1>2. /\ kind \in Kinds /\ IsTable(copy, Values(kind))
      /\ key \in Text /\ value \in Values(kind)
  BY <1>1 DEF IInv, TypeOK
<1>3. /\ Occupied(t) = Slots(t) /\ t.size = t.capacity
      /\ copy.capacity = GrownCapacity(t)
      /\ Counted(copy) /\ copy.size = growing.next
      /\ \A p \in Slots(t) : p < growing.next => Find(copy, t.keys[p]) = t.values[p]
      /\ \A p \in Occupied(copy) :
           \E q \in Slots(t) : q < growing.next /\ t.keys[q] = copy.keys[p]
  BY <1>1 DEF IInv, Copying
<1>4. /\ IsTable(t, Values(kind)) /\ Searchable(t) /\ Reachable(t)
      /\ Searchable(copy) /\ Reachable(copy)
  BY <1>1, <1>2, TablesGood, TableSearchable DEF IInv, KeysReachable
<1>5. t.capacity \in Nat \ {0} /\ copy.capacity \in Nat /\ copy.capacity >= t.capacity
  BY <1>3, <1>4, Growth DEF Searchable
<1>6. Resized = copy
  BY <1>1, <1>3, <1>4 DEF Resized, Searchable
<1>7. \A text \in Text : Find(copy, text) = Find(t, text)
  <2> TAKE text \in Text
  <2>1. CASE \E p \in Slots(t) : t.keys[p] = text
    <3>1. PICK p \in Slots(t) : t.keys[p] = text
      BY <2>1
    <3>2. p < growing.next
      BY <1>1, <1>5 DEF Slots
    <3> QED
      BY <1>3, <1>4, <3>1, <3>2, FindMeans
  <2>2. CASE \A p \in Slots(t) : t.keys[p] # text
    <3>1. \A p \in Slots(copy) : copy.keys[p] # text
      BY <1>3, <2>2, TableAssumption DEF Occupied
    <3> QED
      BY <1>4, <2>2, <3>1, FindMeans
  <2> QED
    BY <2>1, <2>2
<1>8. /\ lookup \in Seq(Text) /\ Settled \in Seq(Text) /\ lookup' \in Seq(Text)
  BY <1>1, SettledTyped
<1>9. kind = "symbols" =>
        /\ lookup' = Append(Settled, key) /\ value = Len(Settled) + 1
        /\ Find(copy, key) = Null
  <2> SUFFICES ASSUME kind = "symbols"
               PROVE  /\ lookup' = Append(Settled, key) /\ value = Len(Settled) + 1
                      /\ Find(copy, key) = Null
    OBVIOUS
  <2>1. /\ lookup # <<>> /\ key = lookup[Len(lookup)] /\ value = Len(lookup)
        /\ Find(t, key) = Null
    BY <1>1 DEF IInv, Copying
  <2>2. Settled = SubSeq(lookup, 1, Len(lookup) - 1)
    BY <1>1 DEF Settled
  <2>3. lookup = Append(Settled, key) /\ Len(lookup) = Len(Settled) + 1
    BY <1>8, <2>1, <2>2, AllButLast
  <2> QED
    BY <1>1, <1>2, <1>7, <2>1, <2>3
<1>10. kind = "types" => lookup' = Settled
  BY <1>1 DEF Settled
<1>11. CASE Storable(copy, key)
  <2> HIDE DEF kind, key, value, copy
  <2>1. \A text \in Text : Find(copy, text) = Find(tables[kind], text)
    BY <1>7
  <2>2. /\ IInv'
        /\ kind = "symbols" => Promise!New(key)
        /\ kind = "types" => Promise!Alias(key, value)
    BY <1>1, <1>2, <1>3, <1>4, <1>5, <1>6, <1>8, <1>9, <1>10, <1>11, <2>1, StoreStep
  <2> QED
    BY <1>2, <2>2 DEF Kinds, kind, key, value
<1>12. CASE ~Storable(copy, key)
  <2>1. aborted' = TRUE /\ UNCHANGED <<tables, growing, returned, lookup>>
    BY <1>1, <1>6, <1>12 DEF StoreInto
  <2>2. ~(\A other \in Kinds : Capacities[other] > 1)
    <3> SUFFICES ASSUME \A other \in Kinds : Capacities[other] > 1 PROVE FALSE
      OBVIOUS
    <3>1. t.capacity > 1
      BY <1>2 DEF IInv, Roomy
    <3>2. copy.size < copy.capacity
      BY <1>1, <1>3, <1>4, <1>5, <3>1, Growth
    <3> QED
      BY <1>2, <1>3, <1>4, <1>12, <3>2, RoomForAny
  <2>3. TypeOK'
    <3>1. aborted' \in BOOLEAN
      BY <2>1
    <3> QED
      BY <2>1, <3>1 DEF IInv, TypeOK
  <2>4. Settled' = Settled
    BY <2>1 DEF Settled
  <2>5. (KeysReachable /\ SizesRight /\ Copying /\ Linked)'
    BY <2>1, <2>4 DEF IInv, KeysReachable, SizesRight, Copying, Linked
  <2>6. Roomy'
    BY <2>2 DEF Roomy
  <2>7. UNCHANGED Promise!vars
    BY <2>1, <2>4 DEF Promise!vars
  <2> QED
    BY <2>3, <2>5, <2>6, <2>7 DEF IInv
<1> QED
  BY <1>11, <1>12

-----------------------------------------------------------------------------
(* All steps together. *)

(* A step of Names keeps the invariant and is a step of Naming or none. *)
LEMMA StepLemma ==
  ASSUME IInv, [Next]_vars
  PROVE  IInv' /\ [Promise!Next]_Promise!vars
<1>1. CASE UNCHANGED vars
  <2>1. Settled' = Settled
    BY <1>1 DEF vars, Settled
  <2> QED
    BY <1>1, <2>1 DEF vars, IInv, TypeOK, KeysReachable, SizesRight, Copying,
                      Linked, Roomy, Promise!vars
<1>2. ASSUME NEW text \in Text, SymbolKnown(text)
      PROVE  IInv' /\ Promise!Next
  <2>1. UNCHANGED <<tables, lookup, growing, aborted>>
    BY <1>2 DEF SymbolKnown
  <2>2. Settled' = Settled
    BY <2>1 DEF Settled
  <2>3. IInv'
    BY <2>1, <2>2 DEF IInv, TypeOK, KeysReachable, SizesRight, Copying, Linked, Roomy
  <2>4. Promise!Known(text)
    <3> DEFINE id == Find(tables["symbols"], text)
    <3>1. id # Null /\ returned' = <<id>>
      BY <1>2 DEF SymbolKnown
    <3>2. id \in DOMAIN Settled /\ Settled[id] = text
      BY <3>1 DEF IInv, Linked
    <3> QED
      BY <2>1, <2>2, <3>1, <3>2 DEF Promise!Known, Promise!HasSymbol
  <2> QED
    BY <2>3, <2>4 DEF Promise!Next
<1>3. ASSUME NEW text \in Text, SymbolNew(text)
      PROVE  IInv' /\ [Promise!Next]_Promise!vars
  <2>1. /\ Ready /\ Find(tables["symbols"], text) = Null
        /\ lookup' = Append(lookup, text)
        /\ TableAdd("symbols", text, Len(lookup) + 1)
    BY <1>3 DEF SymbolNew, NextSymbol
  <2>2. Len(lookup) + 1 \in Values("symbols") /\ "symbols" \in Kinds
    BY SettledTyped DEF Values, Kinds
  <2>3. /\ IInv'
        /\ UNCHANGED Promise!vars \/ Promise!New(text)
    BY <2>1, <2>2, AddStep
  <2> QED
    BY <2>3 DEF Promise!Next
<1>4. ASSUME NEW text \in Text, TypeFind(text)
      PROVE  IInv' /\ Promise!Next
  <2>1. UNCHANGED <<tables, lookup, growing, aborted>>
        /\ returned' = <<Find(tables["types"], text)>>
    BY <1>4 DEF TypeFind
  <2>2. Settled' = Settled
    BY <2>1 DEF Settled
  <2>3. IInv'
    BY <2>1, <2>2 DEF IInv, TypeOK, KeysReachable, SizesRight, Copying, Linked, Roomy
  <2>4. Promise!FindType(text)
    BY <2>1, <2>2 DEF Promise!FindType
  <2> QED
    BY <2>3, <2>4 DEF Promise!Next
<1>5. ASSUME NEW name \in Text, NEW class \in Class, TypeAlias(name, class)
      PROVE  IInv' /\ [Promise!Next]_Promise!vars
  <2>1. Ready /\ TableAdd("types", name, class) /\ lookup' = lookup
    BY <1>5 DEF TypeAlias
  <2>2. class \in Values("types") /\ "types" \in Kinds
    BY DEF Values, Kinds
  <2>3. /\ IInv'
        /\ UNCHANGED Promise!vars \/ Promise!Alias(name, class)
    BY <2>1, <2>2, AddStep
  <2> QED
    BY <2>3 DEF Promise!Next
<1>6. ASSUME NEW id \in 1 .. Len(lookup), SymbolLookup(id)
      PROVE  IInv' /\ Promise!Next
  <2>1. /\ UNCHANGED <<tables, lookup, growing, aborted>>
        /\ returned' = <<lookup[id]>> /\ growing = NotGrowing
    BY <1>6 DEF SymbolLookup, Ready
  <2>2. Settled' = Settled /\ Settled = lookup /\ lookup \in Seq(Text)
    BY <2>1, SettledTyped DEF Settled
  <2>3. IInv'
    BY <2>1, <2>2 DEF IInv, TypeOK, KeysReachable, SizesRight, Copying, Linked, Roomy
  <2>4. id \in DOMAIN Settled
    BY <2>2
  <2>5. Promise!Lookup(id)
    BY <2>1, <2>2, <2>4 DEF Promise!Lookup
  <2> QED
    BY <2>3, <2>4, <2>5 DEF Promise!Next
<1>7. ASSUME CopySlot PROVE IInv' /\ UNCHANGED Promise!vars
  BY <1>7, CopyStep
<1>8. ASSUME EndResize PROVE IInv' /\ [Promise!Next]_Promise!vars
  <2>1. growing.key \in Text /\ growing.value \in Values(growing.kind)
    BY <1>8 DEF EndResize, IInv, TypeOK
  <2>2. /\ IInv'
        /\ \/ UNCHANGED Promise!vars
           \/ Promise!New(growing.key)
           \/ growing.kind = "types" /\ Promise!Alias(growing.key, growing.value)
    BY <1>8, EndStep
  <2>3. growing.kind = "types" => growing.value \in Class
    BY <2>1 DEF Values
  <2> QED
    BY <2>1, <2>2, <2>3 DEF Promise!Next
<1> QED
  BY <1>1, <1>2, <1>3, <1>4, <1>5, <1>6, <1>7, <1>8 DEF Next

LEMMA Invariance == Spec => []IInv
<1>1. IInv /\ [Next]_vars => IInv'
  BY StepLemma
<1> QED
  BY InitIInv, <1>1, PTL DEF Spec

(* Whatever is interned and aliased, in whatever order, the tables and the  *)
(* list have their types.                                                   *)
THEOREM TypeCorrect == Spec => []TypeOK
<1>1. IInv => TypeOK
  BY DEF IInv
<1> QED
  BY Invariance, <1>1, PTL

(* Collisions and growth hide no key: table.c's search stops at its slot,   *)
(* for every hash function and every size.                                  *)
THEOREM Lookups == Spec => []KeysReachable
<1>1. IInv => KeysReachable
  BY DEF IInv
<1> QED
  BY Invariance, <1>1, PTL

(* size is the number of keys (__table_store and table_resize). *)
THEOREM Sizes == Spec => []SizesRight
<1>1. IInv => SizesRight
  BY DEF IInv
<1> QED
  BY Invariance, <1>1, PTL

(* The assert of __table_store holds unless a table starts with one slot. *)
THEOREM NoAbort == Spec => []NeverAborts
<1>1. IInv => NeverAborts
  BY DEF IInv, Roomy, NeverAborts
<1> QED
  BY Invariance, <1>1, PTL

(* symbol.c and type.c on table.c keep what Naming promises. *)
THEOREM Implementation == Spec => ImplementsNaming
<1>1. Init => Promise!Init
  <2> SUFFICES ASSUME Init PROVE Promise!Init
    OBVIOUS
  <2>1. Settled = <<>> /\ returned = <<>>
    BY DEF Init, Settled
  <2>2. ASSUME NEW n \in Text PROVE Find(tables["types"], n) = Null
    <3>1. "types" \in Kinds /\ Capacities["types"] \in Nat \ {0}
      BY NamesAssumption DEF Kinds
    <3>2. tables["types"] = NewTable(Capacities["types"])
      BY <3>1 DEF Init
    <3>3. /\ IsTable(tables["types"], Class) /\ Reachable(tables["types"])
          /\ Occupied(tables["types"]) = {}
      BY <3>1, <3>2, NewTableIs
    <3>4. Searchable(tables["types"])
      BY <3>3, TableSearchable
    <3>5. \A s \in Slots(tables["types"]) : tables["types"].keys[s] # n
      BY <3>3, TableAssumption DEF Occupied
    <3> QED
      BY <3>3, <3>4, <3>5, FindMeans
  <2> QED
    BY <2>1, <2>2 DEF Promise!Init
<1>2. IInv /\ [Next]_vars => [Promise!Next]_Promise!vars
  BY StepLemma
<1> QED
  BY <1>1, <1>2, Invariance, PTL DEF Spec, ImplementsNaming, Promise!Spec
=============================================================================
