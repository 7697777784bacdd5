------------------------------ MODULE MCNames -------------------------------
(* Tables that start with two slots and grow to three and four; texts      *)
(* that collide in some or in all of these sizes.                          *)
EXTENDS Names, TLC

CONSTANTS a, b, c

ThreeTexts == {a, b, c}
Colliding == a :> 1 @@ b :> 1 @@ c :> 3
TwoSlots == [kind \in Kinds |-> 2]
=============================================================================
