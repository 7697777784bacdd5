---------------------------- MODULE MCScheduler -----------------------------
(***************************************************************************)
(* Plans for Scheduler.                                                    *)
(*                                                                         *)
(* FrontPlans: a file with the variable x and the procedure p.  T_, O_ and *)
(* C_ are the TYPECHECK, OPTIMIZE and BYTECODE jobs of x, p, the body of p *)
(* (b) and the body of a procedure nested in it (n).  What the types wait  *)
(* for varies, cycles included, and so does the place of an error.  The    *)
(* bytecode of a procedure waits for that of its body; plans in which      *)
(* nothing does are among those without an error, so that a body that is   *)
(* lost shows in the verdict and not only in a stall.                      *)
(*                                                                         *)
(* RunPlans: the variables x and y and the procedure main, typed; what     *)
(* their initializers (Ex, Ey, Em) and the program (Run) load varies.      *)
(***************************************************************************)
EXTENDS Scheduler, FiniteSets

(* A set of one or two initializers in the order in which they are loaded. *)
SetToList(S) == IF S = {"Ex", "Ey"} THEN <<"Ex", "Ey">>
                ELSE IF S = {} THEN <<>> ELSE <<CHOOSE e \in S : TRUE>>

Sets(f, default) ==
  [u \in Unit |-> IF u \in DOMAIN f THEN f[u] ELSE default]

FrontUnits == {"src", "parse", "Tx", "Ox", "Cx", "Tp", "Op", "Cp",
               "Tb", "Ob", "Cb", "Tn", "On", "Cn"}

RunUnits == {"Cx", "Cy", "Cm", "Ex", "Ey", "Em", "Run"}

AllUnits == FrontUnits \cup RunUnits

(* A unit that a plan does not use has a type all the same. *)
Types ==
  [u \in AllUnits |->
     CASE u = "src" -> "READ"
       [] u = "parse" -> "PARSE"
       [] u \in {"Tx", "Tp", "Tb", "Tn"} -> "TYPECHECK"
       [] u \in {"Ox", "Op", "Ob", "On"} -> "OPTIMIZE"
       [] u \in {"Ex", "Ey", "Em", "Run"} -> "EXECUTE"
       [] OTHER -> "BYTECODE"]

Typed == {"Tx", "Tp"}

FrontPlan(nx, np, nb, nn, cp, order, bad) ==
  [type |-> Types,
   first |-> <<"src">>,
   needs |-> Sets([Tx |-> nx, Tp |-> np, Tb |-> nb, Tn |-> nn,
                   Cp |-> cp, Cb |-> {"Cn"}], {}),
   follows |-> Sets([src |-> <<"parse">>, parse |-> order,
                     Tx |-> <<"Ox">>, Ox |-> <<"Cx">>,
                     Tp |-> <<"Op">>, Op |-> <<"Cp">>,
                     Tb |-> <<"Ob">>, Ob |-> <<"Cb">>,
                     Tn |-> <<"On">>, On |-> <<"Cn">>], <<>>),
   wakes |-> Sets([Tp |-> <<"Tb">>, Tb |-> <<"Tn">>], <<>>),
   born |-> Sets(<<>>, {}),
   faulty |-> bad]

FrontPlans ==
  {FrontPlan(nx, np, nb, nn, cp[1], order, cp[2]) :
   nx \in SUBSET Typed, np \in {{}, {"Tx"}}, nb \in SUBSET Typed,
   nn \in {{}, {"Tx"}}, order \in {<<"Tx", "Tp">>, <<"Tp", "Tx">>},
   cp \in {<<{"Cb"}, bad>> : bad \in {{}, {"src"}, {"Tx"}, {"Tp"}, {"Tb"}}}
           \cup {<<{}, {}>>}}

RunPlans ==
  {[type |-> Types,
    first |-> order,
    needs |-> Sets([Ex |-> nx, Ey |-> ny, Run |-> {"Em"} \cup nr], {}),
    follows |-> Sets(<<>>, <<>>),
    wakes |-> Sets([Ex |-> SetToList(nx), Ey |-> SetToList(ny),
                    Run |-> <<"Em">> \o SetToList(nr)], <<>>),
    born |-> Sets([Ex |-> {"Cx"}, Ey |-> {"Cy"}, Em |-> {"Cm"}], {}),
    faulty |-> {}] :
   nx \in {{}, {"Ey"}}, ny \in {{}, {"Ex"}, {"Ey"}},
   nr \in SUBSET {"Ex", "Ey"},
   order \in {<<"Run", "Cm", "Cx", "Cy">>, <<"Cy", "Cx", "Cm", "Run">>,
              <<"Cx", "Run", "Cm", "Cy">>}}

AllPlans == FrontPlans \cup RunPlans

-----------------------------------------------------------------------------

(* Every compilation ends: the sentinel stops the loop whatever the program *)
(* waits for.                                                               *)
Terminates == <>(phase = "done")

(* No waiting unit is starved: once it can run it does run and is done or   *)
(* reported, unless a blocked unit woke it in the last round of the loop.   *)
NoneStarved ==
  \A u \in Unit :
    Waiting(u) /\ Ready(u) ~> u \in done \cup plan.faulty \/ WokenByBlocked(u)
=============================================================================
