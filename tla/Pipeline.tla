------------------------------ MODULE Pipeline ------------------------------
(***************************************************************************)
(* The job loop of the compiler: pipeline.c and begin_compilation in       *)
(* main.c.  Every phase of the compiler is a job; the loop takes the       *)
(* oldest one, runs its handler to the end and looks at its result.        *)
(* Handlers put further jobs behind all others.  A TYPECHECK, BYTECODE or  *)
(* EXECUTE job whose handler returns 0 goes back to the end of the queue.  *)
(* One SENTINEL job circulates: if it comes round and no job has done any  *)
(* work since, the loop ends and what is left is drained as errors.        *)
(*                                                                         *)
(* This module has the loop's own state and one operator per outcome of a  *)
(* job; a module that EXTENDS it says which handler has which outcome.     *)
(* The queue is the FIFO that Queue.tla implements.                        *)
(***************************************************************************)
EXTENDS Naturals, Sequences

VARIABLES queue,            \* ws.pipeline: jobs, records with a type
          did_work,         \* begin_compilation's local of that name
          reported_errors,  \* begin_compilation's local of that name
          phase             \* where begin_compilation is

pipelineVars == <<queue, did_work, reported_errors, phase>>

JobTypes == {"SENTINEL", "READ", "LEX", "PARSE", "TYPECHECK", "OPTIMIZE",
             "BYTECODE", "EXECUTE", "ABORT"}

(* The jobs the loop re-enqueues, and the only ones draining allows. *)
Retryable == {"TYPECHECK", "BYTECODE", "EXECUTE"}

Phases == {"loop",      \* first while loop
           "drain",     \* second while loop
           "done",      \* returned
           "crashed"}   \* an assert failed or the process was killed

SENTINEL == [type |-> "SENTINEL"]

(* initialize_workspace emits the sentinel, main then emits its jobs. *)
PipelineInit(first) ==
  /\ queue = <<SENTINEL>> \o first
  /\ did_work = TRUE
  /\ reported_errors = 0
  /\ phase = "loop"

-----------------------------------------------------------------------------

(* pipeline_take_job: the next job of the first loop, of a given type. *)
Taking(type) ==
  /\ phase = "loop"
  /\ queue # <<>>
  /\ Head(queue).type = type

Job == Head(queue)

(* Faulty variant: the result is not added to did_work. *)
CompletedUnseen(emitted) ==
  /\ queue' = Tail(queue) \o emitted
  /\ UNCHANGED <<did_work, reported_errors, phase>>

(* The handler emitted these jobs and returned 1; the job is freed. *)
Completed(emitted) ==
  /\ queue' = Tail(queue) \o emitted
  /\ did_work' = TRUE
  /\ UNCHANGED <<reported_errors, phase>>

(* Faulty variants: what it emitted is forgotten, or the job is tried again *)
(* at once.                                                                 *)
DeferredForgetting(emitted) ==
  /\ queue' = Append(Tail(queue), Job)
  /\ UNCHANGED <<did_work, reported_errors, phase>>

DeferredInFront(emitted) ==
  /\ queue' = queue \o emitted
  /\ UNCHANGED <<did_work, reported_errors, phase>>

(* The handler of a retryable job emitted these jobs and returned 0. *)
Deferred(emitted) ==
  /\ queue' = Tail(queue) \o emitted \o <<Job>>
  /\ UNCHANGED <<did_work, reported_errors, phase>>

(* The handler of any other job returned 0; the job is freed. *)
Dropped ==
  /\ queue' = Tail(queue)
  /\ UNCHANGED <<did_work, reported_errors, phase>>

(* An assert in the handler, or a fault it ran into, ended the process. *)
Crashed ==
  /\ phase' = "crashed"
  /\ UNCHANGED <<queue, did_work, reported_errors>>

(* JOB_ABORT: report_errors prints, the loop counts. *)
TakeAbort ==
  /\ Taking("ABORT")
  /\ queue' = Tail(queue)
  /\ reported_errors' = reported_errors + 1
  /\ did_work' = TRUE
  /\ UNCHANGED phase

(* Faulty variants: did_work is not cleared, or the sentinel not put back. *)
NextRoundUncleared ==
  /\ Taking("SENTINEL") /\ did_work
  /\ queue' = Tail(queue) \o <<Job>>
  /\ UNCHANGED <<did_work, reported_errors, phase>>

NextRoundLost ==
  /\ Taking("SENTINEL") /\ did_work
  /\ queue' = Tail(queue)
  /\ did_work' = FALSE
  /\ UNCHANGED <<reported_errors, phase>>

(* JOB_SENTINEL after some work: start a new round. *)
NextRound ==
  /\ Taking("SENTINEL") /\ did_work
  /\ queue' = Tail(queue) \o <<Job>>
  /\ did_work' = FALSE
  /\ UNCHANGED <<reported_errors, phase>>

(* Faulty variant: the loop ends whatever did_work says. *)
StallAlways ==
  /\ Taking("SENTINEL")
  /\ queue' = Tail(queue)
  /\ phase' = "drain"
  /\ UNCHANGED <<did_work, reported_errors>>

(* JOB_SENTINEL after a round without any: break. *)
Stall ==
  /\ Taking("SENTINEL") /\ ~did_work
  /\ queue' = Tail(queue)
  /\ phase' = "drain"
  /\ UNCHANGED <<did_work, reported_errors>>

(* Faulty variant: what is left over is not counted. *)
DrainUncounted ==
  /\ phase = "drain" /\ queue # <<>>
  /\ queue' = Tail(queue)
  /\ phase' = IF Job.type \in Retryable THEN phase ELSE "crashed"
  /\ UNCHANGED <<did_work, reported_errors>>

(* One turn of the second loop, with its two assert(0). *)
Drain ==
  /\ phase = "drain" /\ queue # <<>>
  /\ queue' = Tail(queue)
  /\ reported_errors' = IF Job.type = "SENTINEL" THEN reported_errors
                                                 ELSE reported_errors + 1
  /\ phase' = IF Job.type \in Retryable THEN phase ELSE "crashed"
  /\ UNCHANGED did_work

(* Both loops end on an empty queue; begin_compilation returns. *)
Return ==
  /\ phase \in {"loop", "drain"} /\ queue = <<>>
  /\ phase' = "done"
  /\ UNCHANGED <<queue, did_work, reported_errors>>

LoopStep == TakeAbort \/ NextRound \/ Stall \/ Drain \/ Return

(* What main prints "Compiled" or "Unable to compile" from. *)
Returned == phase = "done"
Succeeded == Returned /\ reported_errors = 0

-----------------------------------------------------------------------------

PipelineTypeOK ==
  /\ did_work \in BOOLEAN
  /\ reported_errors \in Nat
  /\ phase \in Phases
  /\ \A i \in 1 .. Len(queue) : queue[i].type \in JobTypes

(* The places of the sentinel in the queue. *)
SentinelAt == {i \in 1 .. Len(queue) : queue[i] = SENTINEL}

(* While the first loop runs exactly one sentinel circulates: with none a   *)
(* cyclic program would make the loop spin for ever, with two the second    *)
(* would see the first one's cleared did_work and stop a loop that works.   *)
OneSentinel ==
  /\ phase = "loop" => \E i \in SentinelAt : SentinelAt = {i}
  /\ phase \in {"drain", "done"} => SentinelAt = {}

(* begin_compilation asserts that draining meets no sentinel and no job of  *)
(* a type that is never put back (main.c:456 and main.c:479).               *)
DrainsOnlyRetryable ==
  phase = "drain" => \A i \in 1 .. Len(queue) : queue[i].type \in Retryable
=============================================================================
