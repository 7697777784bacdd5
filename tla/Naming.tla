------------------------------- MODULE Naming -------------------------------
(***************************************************************************)
(* What symbol.c and type.c promise the rest of the compiler: a text has   *)
(* one symbol for good, symbols are handed out in order from 1 and can be  *)
(* turned back into their texts, and a name stands for the type class it   *)
(* was last given.  Names.tla is what they do to keep this.                *)
(***************************************************************************)
EXTENDS Integers, Sequences

CONSTANTS Text,         \* names
          Class,        \* type classes
          Null          \* no class

VARIABLES interned,     \* the texts that have symbols: symbol -> text
          classes,      \* name -> its class, or Null
          returned      \* <<>>, or <<what was handed out last>>

vars == <<interned, classes, returned>>

Init == interned = <<>> /\ classes = [n \in Text |-> Null] /\ returned = <<>>

HasSymbol(text, id) == id \in DOMAIN interned /\ interned[id] = text

Known(text) ==
  \E id \in DOMAIN interned :
    /\ HasSymbol(text, id)
    /\ returned' = <<id>>
    /\ UNCHANGED <<interned, classes>>

New(text) ==
  /\ \A id \in DOMAIN interned : ~HasSymbol(text, id)
  /\ interned' = Append(interned, text)
  /\ returned' = <<Len(interned) + 1>>
  /\ UNCHANGED classes

Lookup(id) ==
  /\ id \in DOMAIN interned
  /\ returned' = <<interned[id]>>
  /\ UNCHANGED <<interned, classes>>

Alias(name, class) ==
  /\ classes' = [classes EXCEPT ![name] = class]
  /\ returned' = <<class>>
  /\ UNCHANGED interned

FindType(name) ==
  /\ returned' = <<classes[name]>>
  /\ UNCHANGED <<interned, classes>>

Next ==
  \/ \E text \in Text : Known(text) \/ New(text) \/ FindType(text)
  \/ \E name \in Text, class \in Class : Alias(name, class)
  \/ \E id \in DOMAIN interned : Lookup(id)

Spec == Init /\ [][Next]_vars
=============================================================================
