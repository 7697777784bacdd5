------------------------------- MODULE Table --------------------------------
(***************************************************************************)
(* The hash table of table.c, as operators on a value of type Table: open  *)
(* addressing with linear probing, no deletion, growth by half when full.  *)
(*                                                                         *)
(* A slot that is not occupied holds Free for its key; the code keeps a    *)
(* flag and reads neither key nor value while it is clear.  __hash__ is a  *)
(* function of the bytes of a string and stays abstract.                   *)
(***************************************************************************)
EXTENDS Integers

CONSTANTS Text,         \* the strings used as keys
          Hash,         \* __hash__
          Free,         \* the key of a slot that is not occupied
          Null          \* what table_find returns if there is no such key

ASSUME TableAssumption ==
  /\ Hash \in [Text -> Nat]
  /\ Free \notin Text

Slots(t) == 0 .. t.capacity - 1

Occupied(t) == {s \in Slots(t) : t.keys[s] # Free}

NewTable(capacity) ==
  [capacity |-> capacity, size |-> 0,
   keys |-> [s \in 0 .. capacity - 1 |-> Free],
   values |-> [s \in 0 .. capacity - 1 |-> Null]]

(* The slot tried after n others: one beyond the hash, and so on in a ring. *)
Probe(t, key, n) == (Hash[key] + 1 + n) % t.capacity

(* Where the search for a key stops. *)
Stops(t, key, s) == t.keys[s] \in {Free, key}

(* The first slot tried at which the search stops. *)
FirstStop(t, key, s) ==
  \E n \in Slots(t) :
    /\ s = Probe(t, key, n)
    /\ Stops(t, key, s)
    /\ \A m \in 0 .. n - 1 : ~Stops(t, key, Probe(t, key, m))

(* __table_find_slot_for_key: -1 if every slot was tried. *)
FindSlot(t, key) ==
  IF \E s \in Slots(t) : FirstStop(t, key, s)
    THEN CHOOSE s \in Slots(t) : FirstStop(t, key, s)
    ELSE -1

(* table_find. *)
Find(t, key) ==
  LET s == FindSlot(t, key)
  IN  IF s = -1 \/ s \notin Occupied(t) THEN Null ELSE t.values[s]

(* Faulty variant: an overwritten key counts again. *)
StoreCounting(t, key, value) ==
  LET s == FindSlot(t, key)
  IN  [t EXCEPT !.size = @ + 1, !.keys[s] = key, !.values[s] = value]

(* Faulty variant: a key that is there keeps its value. *)
StoreOnce(t, key, value) ==
  LET s == FindSlot(t, key)
  IN  IF s \in Occupied(t) THEN t
      ELSE [t EXCEPT !.size = @ + 1, !.keys[s] = key, !.values[s] = value]

(* __table_store, which asserts that there is a slot. *)
Storable(t, key) == FindSlot(t, key) # -1

Store(t, key, value) ==
  LET s == FindSlot(t, key)
  IN  [t EXCEPT !.size = IF s \in Occupied(t) THEN @ ELSE @ + 1,
                !.keys[s] = key,
                !.values[s] = value]

(* Faulty variant: it waits for one more. *)
FullLate(t) == t.size > t.capacity

(* table_add grows a full table first, even to overwrite a key; the product *)
(* with 1.5 is cut to a whole number.                                       *)
Full(t) == t.size >= t.capacity
GrownCapacity(t) == (3 * t.capacity) \div 2

-----------------------------------------------------------------------------

IsTable(t, Values) ==
  /\ t = [capacity |-> t.capacity, size |-> t.size, keys |-> t.keys,
          values |-> t.values]
  /\ t.capacity \in Nat \ {0}
  /\ t.size \in Nat
  /\ t.keys \in [Slots(t) -> Text \cup {Free}]
  /\ t.values \in [Slots(t) -> Values \cup {Null}]

(* Whatever collided with a key when it was stored, and however often the   *)
(* table has grown since, a search for the key stops at its slot.           *)
Reachable(t) == \A s \in Occupied(t) : FindSlot(t, t.keys[s]) = s
=============================================================================
