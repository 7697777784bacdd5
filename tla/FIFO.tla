-------------------------------- MODULE FIFO --------------------------------
(***************************************************************************)
(* What the job queue of the compiler promises: values come out once each, *)
(* in the order in which they went in.  Queue.tla is the bucketed list the *)
(* program really uses, and is checked and proved to implement this.       *)
(***************************************************************************)
EXTENDS Sequences

CONSTANT Value          \* what may be queued (in the program: Job pointers)

VARIABLES items,        \* the values waiting, oldest first
          pulled        \* <<>>, or <<v>> where v is the last value handed out

vars == <<items, pulled>>

Init == items = <<>> /\ pulled = <<>>

Put(v) == /\ items' = Append(items, v)
          /\ UNCHANGED pulled

Get == /\ items # <<>>
       /\ pulled' = <<Head(items)>>
       /\ items' = Tail(items)

Next == Get \/ \E v \in Value : Put(v)

Spec == Init /\ [][Next]_vars
=============================================================================
