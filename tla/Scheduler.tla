------------------------------ MODULE Scheduler -----------------------------
(***************************************************************************)
(* The job loop of Pipeline.tla with handlers reduced to what decides      *)
(* whether a compilation ends, and how: what each unit of work waits for   *)
(* and which further units it emits.  A plan says this for one program; it *)
(* is picked once and the loop then runs as the code runs it.              *)
(*                                                                         *)
(* A handler that has to wait may emit jobs all the same: typechecking a   *)
(* body emits the bodies of the procedures in it before it knows whether   *)
(* the rest can be typed, and a program that runs into a variable without  *)
(* a value emits the execution of that variable's initializer.  The plan   *)
(* lists these as the unit's wakes, in the order in which they are met.    *)
(***************************************************************************)
EXTENDS Pipeline

CONSTANTS Unit,         \* the units of work of one compilation
          Plans         \* the programs to consider

VARIABLES plan,         \* the program, one of Plans
          done,         \* units whose handler has succeeded
          woken         \* how many of its wakes a unit has emitted

vars == <<queue, did_work, reported_errors, phase, plan, done, woken>>

WorkTypes == JobTypes \ {"SENTINEL"}

IsPlan(p) ==
  /\ p.type \in [Unit -> WorkTypes]
  /\ p.first \in Seq(Unit)                  \* what main emits
  /\ p.needs \in [Unit -> SUBSET Unit]      \* what must be done before
  /\ p.follows \in [Unit -> Seq(Unit)]      \* emitted on success
  /\ p.wakes \in [Unit -> Seq(Unit)]        \* emitted while being tried
  /\ p.born \in [Unit -> SUBSET Unit]       \* done before it can be woken
  /\ p.faulty \in SUBSET Unit               \* units with an error to report
  \* Only retryable handlers wait, and what they wake is retryable.
  /\ \A u \in Unit : p.type[u] \notin Retryable =>
                       p.needs[u] = {} /\ p.wakes[u] = <<>>
  /\ \A u \in Unit : \A i \in DOMAIN p.wakes[u] :
                       p.type[p.wakes[u][i]] \in Retryable

ASSUME PlansAssumption == \A p \in Plans : IsPlan(p)

JobOf(u) == [type |-> plan.type[u], unit |-> u]

(* Faulty variant: the job does not say which node it reports. *)
AbortOfNobody(u) == [type |-> "ABORT"]

AbortOf(u) == [type |-> "ABORT", unit |-> u]

JobsOf(us) == [i \in 1 .. Len(us) |-> JobOf(us[i])]

Ready(u) == plan.needs[u] \subseteq done

-----------------------------------------------------------------------------

Init ==
  /\ plan \in Plans
  /\ done = {}
  /\ woken = [u \in Unit |-> 0]
  /\ PipelineInit(JobsOf(plan.first))

(* What trying u may wake: the next m units of its wakes, all of them born. *)
CanWake(u, m) ==
  /\ m \in 0 .. Len(plan.wakes[u]) - woken[u]
  /\ \A k \in 1 .. m : plan.born[plan.wakes[u][woken[u] + k]] \subseteq done

WokenJobs(u, m) == [k \in 1 .. m |-> JobOf(plan.wakes[u][woken[u] + k])]

Wake(u, m) == woken' = [woken EXCEPT ![u] = @ + m]

Trying(u) == \E t \in WorkTypes \ {"ABORT"} : Taking(t) /\ Job = JobOf(u)

(* The handler succeeds. *)
Succeed(u) ==
  /\ Trying(u) /\ Ready(u) /\ u \notin plan.faulty
  /\ \E m \in 0 .. Len(plan.wakes[u]) :
       /\ CanWake(u, m) /\ Wake(u, m)
       /\ Completed(WokenJobs(u, m) \o JobsOf(plan.follows[u]))
  /\ done' = done \cup {u}
  /\ UNCHANGED plan

(* The handler finds an error in the program: perform_typecheck_job emits *)
(* an ABORT job instead of going on, and returns 1 all the same.          *)
Fault(u) ==
  /\ Trying(u) /\ Ready(u) /\ u \in plan.faulty /\ Job.type # "READ"
  /\ \E m \in 0 .. Len(plan.wakes[u]) :
       /\ CanWake(u, m) /\ Wake(u, m)
       /\ Completed(WokenJobs(u, m) \o <<AbortOf(u)>>)
  /\ UNCHANGED <<plan, done>>

(* perform_read_job returns 0 for a file that is not there. *)
FileMissing(u) ==
  /\ Trying(u) /\ u \in plan.faulty /\ Job.type = "READ"
  /\ Dropped
  /\ UNCHANGED <<plan, done, woken>>

(* Something the handler needs is missing: back to the end of the queue. *)
Retry(u) ==
  /\ Trying(u) /\ ~Ready(u)
  /\ \E m \in 0 .. Len(plan.wakes[u]) :
       /\ CanWake(u, m) /\ Wake(u, m)
       /\ Deferred(WokenJobs(u, m))
  /\ UNCHANGED <<plan, done>>

Loop == LoopStep /\ UNCHANGED <<plan, done, woken>>

Next ==
  \/ Loop
  \/ \E u \in Unit : Succeed(u) \/ Fault(u) \/ FileMissing(u) \/ Retry(u)

(* The loop is the process itself: while it can take a step it takes one. *)
Spec == Init /\ [][Next]_vars /\ WF_vars(Next)

-----------------------------------------------------------------------------

TypeOK ==
  /\ PipelineTypeOK
  /\ IsPlan(plan)
  /\ done \in SUBSET Unit
  /\ woken \in [Unit -> Nat]
  /\ queue \in Seq({SENTINEL} \cup [type : WorkTypes, unit : Unit])

Waiting(u) == \E i \in 1 .. Len(queue) : queue[i] = JobOf(u)

(* u was emitted by a unit that is itself still waiting for something. *)
WokenByBlocked(u) ==
  \E v \in Unit : /\ ~Ready(v)
                  /\ \E k \in 1 .. woken[v] : plan.wakes[v][k] = u

(* The claim of main.c:336-338 that the sentinel detects unsolvable cycles, *)
(* as far as it is true: when the loop gives up, no unit left could have    *)
(* run, except those that a unit still blocked has emitted.  Such a unit    *)
(* may have been emitted in the last round, after which the loop gives up   *)
(* without having tried it.                                                 *)
StallSound ==
  phase = "drain" =>
    \A u \in Unit : Waiting(u) /\ Ready(u) => WokenByBlocked(u)

(* The verdict main prints: "Compiled" means that every unit ever emitted   *)
(* has run, save files that could not be read.  Units are emitted by main,  *)
(* by a handler that succeeds, and by one that is being tried: the bodies   *)
(* of procedures and the initializers of variables.                         *)
Emitted(u) ==
  \/ \E i \in DOMAIN plan.first : plan.first[i] = u
  \/ \E v \in done : \E i \in DOMAIN plan.follows[v] : plan.follows[v][i] = u
  \/ \E v \in Unit : \E i \in 1 .. woken[v] : plan.wakes[v][i] = u

Unread == {u \in plan.faulty : plan.type[u] = "READ"}

VerdictSound ==
  Succeeded => \A u \in Unit : Emitted(u) /\ u \notin Unread => u \in done
=============================================================================
