------------------------------- MODULE Names --------------------------------
(***************************************************************************)
(* The two tables of names: the symbols of identifiers (symbol.c) and the  *)
(* type classes (type.c), both on the hash table of table.c.               *)
(*                                                                         *)
(* A call is one step, unless its table is full: table_resize then copies  *)
(* one slot per step into a table half as large again, which replaces the  *)
(* full one before the new key is stored.  Nothing else runs meanwhile.    *)
(***************************************************************************)
EXTENDS Table, FiniteSets, Sequences

CONSTANTS Class,            \* type classes
          Capacities        \* of new_table (256 for both tables)

Kinds == {"symbols", "types"}

ASSUME NamesAssumption ==
  /\ Capacities \in [Kinds -> Nat \ {0}]
  /\ Null \notin Class \cup Nat

VARIABLES tables,       \* __symbol_table and ws->typeclasses
          lookup,       \* __symbol_lookup: the text of symbol i at i
          growing,      \* the table_resize that is under way, or NotGrowing
          returned,     \* <<>>, or <<what was handed out last>>
          aborted       \* assert(slot != -1) has failed

vars == <<tables, lookup, growing, returned, aborted>>

NotGrowing == [next |-> -1]

(* The resize of a table of this kind for the sake of a key and its value.  *)
Growing(kind, key, value) ==
  [next |-> 0, kind |-> kind, tmp |-> NewTable(GrownCapacity(tables[kind])),
   key |-> key, value |-> value]

Init ==
  /\ tables = [kind \in Kinds |-> NewTable(Capacities[kind])]
  /\ lookup = <<>>
  /\ growing = NotGrowing
  /\ returned = <<>>
  /\ aborted = FALSE

Ready == growing = NotGrowing /\ ~aborted

-----------------------------------------------------------------------------

(* What table_add does with a table it does not have to grow: __table_store *)
(* with its assert, and the return of symbol_get or type_create.            *)
StoreInto(kind, t, key, value) ==
  IF Storable(t, key)
    THEN /\ tables' = [tables EXCEPT ![kind] = Store(t, key, value)]
         /\ growing' = NotGrowing
         /\ returned' = <<value>>
         /\ UNCHANGED aborted
    ELSE /\ aborted' = TRUE
         /\ UNCHANGED <<tables, growing, returned>>

(* table_add, up to the moment at which it has to copy. *)
TableAdd(kind, key, value) ==
  IF Full(tables[kind])
    THEN /\ growing' = Growing(kind, key, value)
         /\ UNCHANGED <<tables, returned, aborted>>
    ELSE StoreInto(kind, tables[kind], key, value)

(* Faulty variant: as many as were there before. *)
NextSymbolStale == Len(lookup)

(* list_append's index, plus one: no symbol is 0, which is NULL. *)
NextSymbol == Len(lookup) + 1

(* symbol_get of a text that has a symbol. *)
SymbolKnown(text) ==
  /\ Ready
  /\ Find(tables["symbols"], text) # Null
  /\ returned' = <<Find(tables["symbols"], text)>>
  /\ UNCHANGED <<tables, lookup, growing, aborted>>

(* symbol_get of another. *)
SymbolNew(text) ==
  /\ Ready
  /\ Find(tables["symbols"], text) = Null
  /\ lookup' = Append(lookup, text)
  /\ TableAdd("symbols", text, NextSymbol)

(* symbol_lookup, of a symbol that symbol_get has returned. *)
SymbolLookup(id) ==
  /\ Ready
  /\ returned' = <<lookup[id]>>
  /\ UNCHANGED <<tables, lookup, growing, aborted>>

(* type_create, or type_alias, whose caller has the class already. *)
TypeAlias(name, class) ==
  /\ Ready
  /\ TableAdd("types", name, class)
  /\ UNCHANGED lookup

TypeFind(name) ==
  /\ Ready
  /\ returned' = <<Find(tables["types"], name)>>
  /\ UNCHANGED <<tables, lookup, growing, aborted>>

(* Faulty variant: keys keep their slots. *)
CopySlotInPlace ==
  /\ growing # NotGrowing /\ ~aborted
  /\ growing.next < tables[growing.kind].capacity
  /\ LET t == tables[growing.kind]
         s == growing.next
     IN  growing' = [growing EXCEPT !.next = s + 1,
                                    !.tmp.keys[s] = t.keys[s],
                                    !.tmp.values[s] = t.values[s]]
  /\ UNCHANGED <<tables, lookup, returned, aborted>>

(* One turn of the loop of table_resize. *)
CopySlot ==
  /\ growing # NotGrowing /\ ~aborted
  /\ growing.next < tables[growing.kind].capacity
  /\ LET t == tables[growing.kind]
         s == growing.next
     IN  IF s \notin Occupied(t)
           THEN /\ growing' = [growing EXCEPT !.next = s + 1]
                /\ UNCHANGED aborted
         ELSE IF Storable(growing.tmp, t.keys[s])
           THEN /\ growing' = [growing EXCEPT
                                 !.next = s + 1,
                                 !.tmp = Store(@, t.keys[s], t.values[s])]
                /\ UNCHANGED aborted
         ELSE /\ aborted' = TRUE
              /\ UNCHANGED growing
  /\ UNCHANGED <<tables, lookup, returned>>

(* Its end: the slots are replaced and size is not; then the store.         *)
Resized == [growing.tmp EXCEPT !.size = tables[growing.kind].size]

EndResize ==
  /\ growing # NotGrowing /\ ~aborted
  /\ growing.next = tables[growing.kind].capacity
  /\ StoreInto(growing.kind, Resized, growing.key, growing.value)
  /\ UNCHANGED lookup

Next ==
  \/ \E text \in Text : SymbolKnown(text) \/ SymbolNew(text) \/ TypeFind(text)
  \/ \E name \in Text, class \in Class : TypeAlias(name, class)
  \/ \E id \in 1 .. Len(lookup) : SymbolLookup(id)
  \/ CopySlot \/ EndResize

Spec == Init /\ [][Next]_vars

-----------------------------------------------------------------------------

(* The values that a table of each kind holds. *)
Values(kind) == IF kind = "symbols" THEN Nat \ {0} ELSE Class

TypeOK ==
  /\ tables = [kind \in Kinds |-> tables[kind]]
  /\ \A kind \in Kinds : IsTable(tables[kind], Values(kind))
  /\ lookup \in Seq(Text)
  /\ growing # NotGrowing =>
       /\ growing = [next |-> growing.next, kind |-> growing.kind,
                     tmp |-> growing.tmp, key |-> growing.key,
                     value |-> growing.value]
       /\ growing.kind \in Kinds
       /\ growing.next \in 0 .. tables[growing.kind].capacity
       /\ IsTable(growing.tmp, Values(growing.kind))
       /\ growing.key \in Text /\ growing.value \in Values(growing.kind)
  /\ aborted \in BOOLEAN

(* Every key of every table, the half-copied one included, is found where   *)
(* it is: collisions, the ring and the copying leave no gap before a key.   *)
KeysReachable ==
  /\ \A kind \in Kinds : Reachable(tables[kind])
  /\ growing # NotGrowing => Reachable(growing.tmp)

(* The number of keys is counted right, overwriting and growing included,   *)
(* on which it depends when the table grows (table.c:117).                  *)
SizesRight ==
  \A kind \in Kinds : tables[kind].size = Cardinality(Occupied(tables[kind]))

(* There is always a slot for a key: the assert of __table_store            *)
(* (table.c:89) holds.  A table of one slot would not grow at all, one and  *)
(* a half being cut to one.                                                 *)
NeverAborts == (\A kind \in Kinds : Capacities[kind] > 1) => ~aborted

(* The symbols that callers can know of: symbol_get has not returned the    *)
(* one for whose sake the table is growing.                                 *)
Settled ==
  IF growing # NotGrowing /\ growing.kind = "symbols"
    THEN SubSeq(lookup, 1, Len(lookup) - 1) ELSE lookup

(* Tables of any size, with any hash function, implement Naming: no name is *)
(* lost or confused with another, no symbol changes or is given twice.      *)
Promise ==
  INSTANCE Naming WITH interned <- Settled,
                       classes <- [n \in Text |-> Find(tables["types"], n)]

ImplementsNaming == Promise!Spec
=============================================================================
