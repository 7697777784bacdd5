-------------------------- MODULE SchedulerProofs ---------------------------
(***************************************************************************)
(* Proofs that the job loop keeps its sentinel, drains only what it may    *)
(* drain, gives up only when nothing it had tried can run, and never says  *)
(* "Compiled" with work left undone, whatever the program.                 *)
(***************************************************************************)
EXTENDS Scheduler, TLAPS

JobSet == {SENTINEL} \cup [type : WorkTypes, unit : Unit]

(* A job that would be drained rightly: it is retryable, and it could not *)
(* have run unless it was only just woken.                                *)
Stuck(job) ==
  /\ job.type \in Retryable
  /\ \A u \in Unit : job = JobOf(u) => ~Ready(u) \/ WokenByBlocked(u)

SentinelUnique ==
  phase = "loop" =>
    \E k \in 1 .. Len(queue) :
      /\ queue[k] = SENTINEL
      /\ \A i \in 1 .. Len(queue) : queue[i] = SENTINEL => i = k

SentinelGone ==
  phase \in {"drain", "done"} =>
    \A i \in 1 .. Len(queue) : queue[i] # SENTINEL

(* What the cleared did_work means: all behind the sentinel was tried since *)
(* it passed, or emitted by what was tried, and nothing succeeded.          *)
QuietRound ==
  phase = "loop" /\ ~did_work =>
    \A k, i \in 1 .. Len(queue), job \in JobSet :
      queue[k] = SENTINEL /\ k < i /\ queue[i] = job => Stuck(job)

DrainsStuck ==
  phase = "drain" =>
    \A i \in 1 .. Len(queue), job \in JobSet : queue[i] = job => Stuck(job)

ReturnsEmpty == phase = "done" => queue = <<>>

(* Nothing emitted is forgotten: it is done, waiting, or an error that has  *)
(* been or will be reported.                                                *)
Accounted ==
  phase # "crashed" =>
    \A u \in Unit :
      Emitted(u) /\ u \notin Unread =>
        \/ u \in done
        \/ Waiting(u)
        \/ reported_errors > 0
        \/ \E i \in 1 .. Len(queue) : queue[i].type = "ABORT"

IInv == /\ TypeOK
        /\ SentinelUnique /\ SentinelGone
        /\ QuietRound /\ DrainsStuck
        /\ ReturnsEmpty /\ Accounted

-----------------------------------------------------------------------------

(* Two sequences of jobs, one after the other. *)
LEMMA Concatenation ==
  ASSUME NEW S, NEW w \in Seq(S), NEW f \in Seq(S)
  PROVE  /\ w \o f \in Seq(S) /\ Len(w \o f) = Len(w) + Len(f)
         /\ \A i \in 1 .. Len(w \o f) :
              (w \o f)[i] = IF i <= Len(w) THEN w[i] ELSE f[i - Len(w)]
  OBVIOUS

(* What is in the queue after a job has been taken and others put behind.  *)
LEMMA TailThenEmitted ==
  ASSUME NEW S, NEW q \in Seq(S), q # <<>>, NEW e \in Seq(S)
  PROVE  LET r == Tail(q) \o e
         IN  /\ r \in Seq(S)
             /\ Len(r) = Len(q) - 1 + Len(e)
             /\ \A i \in 1 .. Len(r) :
                  r[i] = IF i < Len(q) THEN q[i + 1] ELSE e[i - Len(q) + 1]
<1>1. Len(q) \in Nat \ {0} /\ Len(e) \in Nat
  OBVIOUS
<1>2. Tail(q) \in Seq(S) /\ Len(Tail(q)) = Len(q) - 1
  BY <1>1
<1>3. \A i \in 1 .. Len(q) - 1 : Tail(q)[i] = q[i + 1]
  BY <1>1
<1>4. \A i \in 1 .. Len(q) - 1 + Len(e) :
        (Tail(q) \o e)[i] = IF i <= Len(Tail(q)) THEN Tail(q)[i]
                                                 ELSE e[i - Len(Tail(q))]
  BY <1>1, <1>2
<1> QED
  BY <1>1, <1>2, <1>3, <1>4

(* The same for a job that goes back to the end of the queue. *)
LEMMA TailThenEmittedThenHead ==
  ASSUME NEW S, NEW q \in Seq(S), q # <<>>, NEW e \in Seq(S)
  PROVE  LET r == Tail(q) \o e \o <<Head(q)>>
         IN  /\ r \in Seq(S)
             /\ Len(r) = Len(q) + Len(e)
             /\ \A i \in 1 .. Len(r) :
                  r[i] = IF i < Len(q) THEN q[i + 1]
                         ELSE IF i < Len(q) + Len(e) THEN e[i - Len(q) + 1]
                         ELSE q[1]
<1> DEFINE m == Tail(q) \o e
<1>1. Len(q) \in Nat \ {0} /\ Len(e) \in Nat /\ Head(q) = q[1] /\ Head(q) \in S
  OBVIOUS
<1>2. /\ m \in Seq(S)
      /\ Len(m) = Len(q) - 1 + Len(e)
      /\ \A i \in 1 .. Len(m) :
           m[i] = IF i < Len(q) THEN q[i + 1] ELSE e[i - Len(q) + 1]
  BY TailThenEmitted
<1> HIDE DEF m
<1>3. /\ m \o <<Head(q)>> \in Seq(S)
      /\ Len(m \o <<Head(q)>>) = Len(q) + Len(e)
      /\ \A i \in 1 .. Len(q) + Len(e) :
           (m \o <<Head(q)>>)[i] = IF i <= Len(m) THEN m[i] ELSE Head(q)
  BY <1>1, <1>2
<1>4. \A i \in 1 .. Len(q) + Len(e) :
        (m \o <<Head(q)>>)[i] = IF i < Len(q) THEN q[i + 1]
                         ELSE IF i < Len(q) + Len(e) THEN e[i - Len(q) + 1]
                         ELSE q[1]
  BY <1>1, <1>2, <1>3
<1> QED
  BY <1>3, <1>4 DEF m

-----------------------------------------------------------------------------

(* What the type invariant says of the jobs of a unit. *)
LEMMA JobFacts ==
  ASSUME TypeOK, NEW u \in Unit
  PROVE  /\ JobOf(u) \in JobSet /\ AbortOf(u) \in JobSet
         /\ JobOf(u) # SENTINEL /\ AbortOf(u) # SENTINEL
         /\ plan.follows[u] \in Seq(Unit)
         /\ \A us \in Seq(Unit) :
              /\ JobsOf(us) \in Seq(JobSet)
              /\ Len(JobsOf(us)) = Len(us)
              /\ \A i \in 1 .. Len(us) :
                   JobsOf(us)[i] = JobOf(us[i]) /\ JobsOf(us)[i] # SENTINEL
<1>1. plan.type[u] \in WorkTypes /\ plan.follows[u] \in Seq(Unit)
  BY DEF TypeOK, IsPlan
<1>2. \A v \in Unit : JobOf(v) \in JobSet /\ JobOf(v) # SENTINEL
  BY DEF TypeOK, IsPlan, JobOf, JobSet, SENTINEL, WorkTypes
<1>3. AbortOf(u) \in JobSet /\ AbortOf(u) # SENTINEL
  BY DEF AbortOf, JobSet, SENTINEL, WorkTypes, JobTypes
<1>4. ASSUME NEW us \in Seq(Unit)
      PROVE  /\ JobsOf(us) \in Seq(JobSet)
             /\ Len(JobsOf(us)) = Len(us)
             /\ \A i \in 1 .. Len(us) :
                  JobsOf(us)[i] = JobOf(us[i]) /\ JobsOf(us)[i] # SENTINEL
  <2>1. \A i \in 1 .. Len(us) : us[i] \in Unit
    OBVIOUS
  <2>2. Len(us) \in Nat
    OBVIOUS
  <2> QED
    BY <1>2, <2>1, <2>2 DEF JobsOf
<1> QED
  BY <1>1, <1>2, <1>3, <1>4

(* The jobs a try wakes are retryable, and are those of woken units. *)
LEMMA WokenFacts ==
  ASSUME TypeOK, NEW u \in Unit,
         NEW m \in 0 .. Len(plan.wakes[u]), CanWake(u, m), Wake(u, m)
  PROVE  /\ WokenJobs(u, m) \in Seq(JobSet)
         /\ Len(WokenJobs(u, m)) = m
         /\ \A i \in 1 .. m :
              \E v \in Unit :
                /\ WokenJobs(u, m)[i] = JobOf(v)
                /\ plan.type[v] \in Retryable
                /\ \E k \in 1 .. woken'[u] : plan.wakes[u][k] = v
         /\ woken' \in [Unit -> Nat]
         /\ \A v \in Unit : woken[v] <= woken'[v]
<1>1. /\ plan.wakes[u] \in Seq(Unit)
      /\ woken[u] \in Nat
      /\ m \in 0 .. Len(plan.wakes[u]) - woken[u]
      /\ \A i \in DOMAIN plan.wakes[u] :
           plan.type[plan.wakes[u][i]] \in Retryable
  BY DEF TypeOK, IsPlan, CanWake
<1>2. /\ woken' \in [Unit -> Nat]
      /\ woken'[u] = woken[u] + m
      /\ \A v \in Unit : woken[v] <= woken'[v]
  BY <1>1 DEF Wake, TypeOK
<1>3. \A i \in 1 .. m :
        /\ woken[u] + i \in 1 .. woken'[u]
        /\ plan.wakes[u][woken[u] + i] \in Unit
        /\ plan.type[plan.wakes[u][woken[u] + i]] \in Retryable
        /\ WokenJobs(u, m)[i] = JobOf(plan.wakes[u][woken[u] + i])
  <2> TAKE i \in 1 .. m
  <2> DEFINE ws == plan.wakes[u]
  <2>1. ws \in Seq(Unit) /\ DOMAIN ws = 1 .. Len(ws)
    BY <1>1
  <2>2. woken[u] + i \in 1 .. woken'[u] /\ woken[u] + i \in 1 .. Len(ws)
    <3>1. Len(ws) \in Nat /\ woken[u] \in Nat /\ i \in 1 .. m
      BY <1>1, <2>1
    <3>2. m \in Nat /\ m <= Len(ws) - woken[u]
      BY <1>1, <3>1
    <3>3. woken'[u] = woken[u] + m
      BY <1>2
    <3> HIDE DEF ws
    <3> QED
      BY <3>1, <3>2, <3>3
  <2>3. ws[woken[u] + i] \in Unit /\ plan.type[ws[woken[u] + i]] \in Retryable
    BY <1>1, <2>1, <2>2
  <2> QED
    BY <2>2, <2>3 DEF WokenJobs
<1>4. \A i \in 1 .. m : WokenJobs(u, m)[i] \in JobSet
  BY <1>3, JobFacts
<1>5. WokenJobs(u, m) \in Seq(JobSet) /\ Len(WokenJobs(u, m)) = m
  BY <1>1, <1>4 DEF WokenJobs
<1> QED
  BY <1>2, <1>3, <1>5

(* What a try newly counts as woken are the jobs that it emits, in order.   *)
LEMMA WokenEmitted ==
  ASSUME TypeOK, NEW u \in Unit,
         NEW m \in 0 .. Len(plan.wakes[u]), CanWake(u, m), Wake(u, m),
         NEW v \in Unit, NEW k \in 1 .. woken'[v], k \notin 1 .. woken[v]
  PROVE  /\ v = u /\ k - woken[u] \in 1 .. m
         /\ WokenJobs(u, m)[k - woken[u]] = JobOf(plan.wakes[v][k])
<1>1. woken \in [Unit -> Nat] /\ m \in Nat
  BY DEF TypeOK, CanWake
<1>2. v = u /\ woken'[u] = woken[u] + m
  BY <1>1 DEF Wake
<1>3. k - woken[u] \in 1 .. m /\ woken[u] + (k - woken[u]) = k
  BY <1>1, <1>2
<1>4. WokenJobs(u, m)[k - woken[u]]
        = JobOf(plan.wakes[u][woken[u] + (k - woken[u])])
  BY <1>3 DEF WokenJobs
<1> QED
  BY <1>2, <1>3, <1>4

(* A job that is stuck stays so when nothing is done and only more is woken. *)
LEMMA StuckStays ==
  ASSUME TypeOK, NEW job, Stuck(job),
         UNCHANGED <<plan, done>>, woken' \in [Unit -> Nat],
         \A v \in Unit : woken[v] <= woken'[v]
  PROVE  Stuck(job)'
<1>1. \A u \in Unit : WokenByBlocked(u) => WokenByBlocked(u)'
  <2> SUFFICES ASSUME NEW u \in Unit, NEW v \in Unit, ~Ready(v),
                      NEW k \in 1 .. woken[v], plan.wakes[v][k] = u
               PROVE  WokenByBlocked(u)'
    BY DEF WokenByBlocked
  <2>1. k \in 1 .. woken'[v]
    BY DEF TypeOK
  <2>2. ~Ready(v)'
    BY DEF Ready
  <2> QED
    BY <2>1, <2>2 DEF WokenByBlocked
<1>2. \A u \in Unit : JobOf(u)' = JobOf(u) /\ Ready(u)' = Ready(u)
  BY DEF JobOf, Ready
<1> QED
  BY <1>1, <1>2 DEF Stuck

-----------------------------------------------------------------------------

(* A queue of jobs is what PipelineTypeOK asks for. *)
LEMMA QueueTyped ==
  ASSUME NEW q \in Seq(JobSet)
  PROVE  \A i \in 1 .. Len(q) : q[i].type \in JobTypes
<1>1. \A job \in JobSet : job.type \in JobTypes
  BY DEF JobSet, SENTINEL, WorkTypes, JobTypes
<1> QED
  BY <1>1

(* The queue after any outcome of a job that is not the sentinel: the       *)
(* sentinel has moved one place to the front.                               *)
LEMMA SentinelMoves ==
  ASSUME queue \in Seq(JobSet), queue' \in Seq(JobSet),
         SentinelUnique, phase = "loop", phase' = "loop",
         queue # <<>>, queue[1] # SENTINEL,
         Len(queue') >= Len(queue) - 1,
         \A i \in 1 .. Len(queue') :
           IF i < Len(queue) THEN queue'[i] = queue[i + 1]
                             ELSE queue'[i] # SENTINEL
  PROVE  SentinelUnique' /\ SentinelGone' /\ DrainsStuck' /\ ReturnsEmpty'
<1>1. Len(queue) \in Nat \ {0} /\ Len(queue') \in Nat
  OBVIOUS
<1>2. PICK k \in 1 .. Len(queue) :
        /\ queue[k] = SENTINEL
        /\ \A i \in 1 .. Len(queue) : queue[i] = SENTINEL => i = k
  BY DEF SentinelUnique
<1>3. k - 1 \in 1 .. Len(queue') /\ k - 1 < Len(queue) /\ k # 1
  BY <1>1, <1>2
<1>4. queue'[k - 1] = SENTINEL
  BY <1>1, <1>2, <1>3
<1>5. \A i \in 1 .. Len(queue') : queue'[i] = SENTINEL => i = k - 1
  <2> SUFFICES ASSUME NEW i \in 1 .. Len(queue'), queue'[i] = SENTINEL
               PROVE  i = k - 1
    OBVIOUS
  <2>1. i < Len(queue) /\ queue[i + 1] = SENTINEL
    OBVIOUS
  <2>2. i + 1 \in 1 .. Len(queue)
    BY <1>1, <2>1
  <2> QED
    BY <1>1, <1>2, <2>1, <2>2
<1>6. SentinelUnique'
  BY <1>3, <1>4, <1>5 DEF SentinelUnique, SENTINEL
<1> QED
  BY <1>6 DEF SentinelGone, DrainsStuck, ReturnsEmpty

(* The outcome of a handler that returned 1. *)
LEMMA AfterCompleted ==
  ASSUME TypeOK, SentinelUnique, phase = "loop",
         queue # <<>>, queue[1] # SENTINEL,
         NEW e \in Seq(JobSet), \A i \in 1 .. Len(e) : e[i] # SENTINEL,
         Completed(e)
  PROVE  /\ queue' \in Seq(JobSet) /\ PipelineTypeOK'
         /\ SentinelUnique' /\ SentinelGone' /\ DrainsStuck' /\ ReturnsEmpty'
         /\ QuietRound'
         /\ Len(queue') = Len(queue) - 1 + Len(e)
         /\ \A i \in 1 .. Len(queue') :
              queue'[i] = IF i < Len(queue) THEN queue[i + 1]
                                            ELSE e[i - Len(queue) + 1]
<1>1. queue \in Seq(JobSet)
  BY DEF TypeOK, JobSet
<1>2. /\ queue' \in Seq(JobSet)
      /\ Len(queue') = Len(queue) - 1 + Len(e)
      /\ \A i \in 1 .. Len(queue') :
           queue'[i] = IF i < Len(queue) THEN queue[i + 1]
                                         ELSE e[i - Len(queue) + 1]
  BY <1>1, TailThenEmitted, Zenon DEF Completed
<1>3. Len(queue) \in Nat /\ Len(e) \in Nat
  BY <1>1
<1>4. \A i \in 1 .. Len(queue') :
        ~(i < Len(queue)) => i - Len(queue) + 1 \in 1 .. Len(e)
  BY <1>2, <1>3
<1>5. \A i \in 1 .. Len(queue') :
        IF i < Len(queue) THEN queue'[i] = queue[i + 1]
                          ELSE queue'[i] # SENTINEL
  BY <1>2, <1>4
<1>6. phase' = "loop" /\ did_work' = TRUE /\ reported_errors' = reported_errors
  BY DEF Completed
<1>7. SentinelUnique' /\ SentinelGone' /\ DrainsStuck' /\ ReturnsEmpty'
  <2>1. Len(queue') >= Len(queue) - 1
    BY <1>2, <1>3
  <2> QED
    BY <1>1, <1>2, <1>5, <1>6, <2>1, SentinelMoves
<1>8. PipelineTypeOK'
  <2>1. \A i \in 1 .. Len(queue') : queue'[i].type \in JobTypes
    BY <1>2, QueueTyped
  <2> QED
    BY <1>6, <2>1 DEF PipelineTypeOK, TypeOK, Phases
<1>9. QuietRound'
  BY <1>6 DEF QuietRound
<1> QED
  BY <1>2, <1>7, <1>8, <1>9

(* The outcome of a handler that returned 0 and is tried again: what it     *)
(* emitted and the job itself are stuck, so a quiet round stays quiet.      *)
LEMMA AfterDeferred ==
  ASSUME TypeOK, SentinelUnique, QuietRound, phase = "loop",
         queue # <<>>, queue[1] # SENTINEL,
         NEW S, \A job \in S : Stuck(job)',
         \A job \in JobSet : Stuck(job) => job \in S,
         NEW e \in Seq(JobSet), \A i \in 1 .. Len(e) : e[i] \in S,
         queue[1] \in S,
         Deferred(e)
  PROVE  /\ queue' \in Seq(JobSet) /\ PipelineTypeOK'
         /\ SentinelUnique' /\ SentinelGone' /\ DrainsStuck' /\ ReturnsEmpty'
         /\ QuietRound'
         /\ Len(queue') = Len(queue) + Len(e)
         /\ \A i \in 1 .. Len(queue') :
              queue'[i] = IF i < Len(queue) THEN queue[i + 1]
                          ELSE IF i < Len(queue) + Len(e)
                                 THEN e[i - Len(queue) + 1]
                          ELSE queue[1]
<1>1. queue \in Seq(JobSet) /\ Len(queue) \in Nat /\ Len(e) \in Nat
  BY DEF TypeOK, JobSet
<1>2. /\ queue' \in Seq(JobSet)
      /\ Len(queue') = Len(queue) + Len(e)
      /\ \A i \in 1 .. Len(queue') :
           queue'[i] = IF i < Len(queue) THEN queue[i + 1]
                       ELSE IF i < Len(queue) + Len(e)
                              THEN e[i - Len(queue) + 1]
                       ELSE queue[1]
  BY <1>1, TailThenEmittedThenHead, Zenon DEF Deferred, Job
<1>3. /\ phase' = "loop" /\ did_work' = did_work
      /\ reported_errors' = reported_errors
  BY DEF Deferred
<1>4. \A i \in 1 .. Len(queue') :
        ~(i < Len(queue)) /\ i < Len(queue) + Len(e)
           => i - Len(queue) + 1 \in 1 .. Len(e)
  BY <1>1, <1>2
<1>5. \A i \in 1 .. Len(queue') :
        IF i < Len(queue) THEN queue'[i] = queue[i + 1]
                          ELSE queue'[i] \in S /\ queue'[i] # SENTINEL
  <2>1. \A job \in S : job # SENTINEL
    BY DEF Stuck, SENTINEL, Retryable
  <2>2. \A i \in 1 .. Len(queue') :
          ~(i < Len(queue)) => queue'[i] \in S
    BY <1>2, <1>4
  <2> QED
    BY <1>2, <2>1, <2>2
<1>6. SentinelUnique' /\ SentinelGone' /\ DrainsStuck' /\ ReturnsEmpty'
  <2>1. Len(queue') >= Len(queue) - 1
    BY <1>1, <1>2
  <2> QED
    BY <1>1, <1>2, <1>3, <1>5, <2>1, SentinelMoves
<1>7. PipelineTypeOK'
  <2>1. \A i \in 1 .. Len(queue') : queue'[i].type \in JobTypes
    BY <1>2, QueueTyped
  <2> QED
    BY <1>3, <2>1 DEF PipelineTypeOK, TypeOK, Phases
<1>8. QuietRound'
  <2> SUFFICES ASSUME ~did_work, NEW job \in JobSet,
                      NEW k \in 1 .. Len(queue'), NEW i \in 1 .. Len(queue'),
                      queue'[k] = SENTINEL, k < i, queue'[i] = job
               PROVE  job \in S
    BY <1>3 DEF QuietRound, SENTINEL, JobSet, WorkTypes, JobTypes
  <2>1. k < Len(queue) /\ queue[k + 1] = SENTINEL
    BY <1>5
  <2>2. CASE i < Len(queue)
    <3>1. k + 1 \in 1 .. Len(queue) /\ i + 1 \in 1 .. Len(queue)
      BY <1>1, <1>2, <2>1, <2>2
    <3>2. queue[i + 1] = job
      BY <1>5, <2>2
    <3> QED
      BY <2>1, <3>1, <3>2 DEF QuietRound
  <2>3. CASE ~(i < Len(queue))
    BY <1>5, <2>3
  <2> QED
    BY <2>2, <2>3
<1> QED
  BY <1>2, <1>6, <1>7, <1>8

(* Whatever was behind the job that was taken is still in the queue, so     *)
(* only the job taken and the jobs emitted need a new account.              *)
LEMMA StillAccounted ==
  ASSUME IInv, phase # "crashed", phase' # "crashed",
         queue # <<>>, queue[1].type # "ABORT",
         UNCHANGED <<plan, reported_errors>>,
         done \subseteq done',
         Len(queue') \in Nat, Len(queue') >= Len(queue) - 1,
         \A i \in 1 .. Len(queue') : i < Len(queue) => queue'[i] = queue[i + 1],
         \A v \in Unit :
           queue[1] = JobOf(v) \/ (Emitted(v)' /\ ~Emitted(v)) =>
             \/ v \in done' \/ v \in Unread
             \/ \E i \in 1 .. Len(queue') :
                  queue'[i] = JobOf(v) \/ queue'[i].type = "ABORT"
  PROVE  Accounted'
<1> SUFFICES ASSUME NEW v \in Unit, Emitted(v)', v \notin Unread,
                    v \notin done', reported_errors = 0
             PROVE  \E i \in 1 .. Len(queue') :
                      queue'[i] = JobOf(v) \/ queue'[i].type = "ABORT"
  <2>1. reported_errors \in Nat
    BY DEF IInv, TypeOK, PipelineTypeOK
  <2>2. Unread' = Unread /\ \A v \in Unit : JobOf(v)' = JobOf(v)
    BY DEF Unread, JobOf
  <2> QED
    BY <2>1, <2>2 DEF Accounted, Waiting
<1>1. CASE queue[1] = JobOf(v) \/ ~Emitted(v)
  BY <1>1
<1>2. CASE queue[1] # JobOf(v) /\ Emitted(v)
  <2>1. PICK i \in 1 .. Len(queue) :
          queue[i] = JobOf(v) \/ queue[i].type = "ABORT"
    <3>1. \/ Waiting(v)
          \/ \E i \in 1 .. Len(queue) : queue[i].type = "ABORT"
      BY <1>2 DEF IInv, Accounted
    <3> QED
      BY <3>1 DEF Waiting
  <2>2. i # 1
    BY <1>2, <2>1
  <2>3. Len(queue) \in Nat
    BY DEF IInv, TypeOK
  <2>4. i - 1 \in 1 .. Len(queue') /\ i - 1 < Len(queue) /\ (i - 1) + 1 = i
    BY <2>2, <2>3
  <2>5. queue'[i - 1] = queue[i]
    BY <2>4
  <2> QED
    BY <2>1, <2>4, <2>5
<1> QED
  BY <1>1, <1>2

(* What every handler finds: a job of its unit in front. *)
LEMMA TryingFacts ==
  ASSUME TypeOK, NEW u \in Unit, Trying(u)
  PROVE  /\ phase = "loop" /\ queue # <<>>
         /\ queue[1] = JobOf(u) /\ Head(queue) = queue[1]
         /\ queue[1] # SENTINEL /\ queue[1].type # "ABORT"
         /\ queue[1] \in JobSet
         /\ \A v \in Unit : queue[1] = JobOf(v) => v = u
<1>1. /\ phase = "loop" /\ queue # <<>> /\ Head(queue) = JobOf(u)
      /\ \E t \in WorkTypes \ {"ABORT"} : Head(queue).type = t
  BY DEF Trying, Taking, Job
<1>2. Head(queue) = queue[1]
  BY <1>1 DEF TypeOK
<1>3. JobOf(u) \in JobSet /\ JobOf(u) # SENTINEL
  BY JobFacts
<1>4. \A v \in Unit : JobOf(u) = JobOf(v) => v = u
  BY DEF JobOf
<1> QED
  BY <1>1, <1>2, <1>3, <1>4

LEMMA SucceedStep ==
  ASSUME IInv, NEW u \in Unit, Succeed(u)
  PROVE  IInv'
<1>1. TypeOK /\ SentinelUnique /\ Trying(u)
  BY DEF IInv, Succeed
<1>2. PICK m \in 0 .. Len(plan.wakes[u]) :
        /\ CanWake(u, m) /\ Wake(u, m)
        /\ Completed(WokenJobs(u, m) \o JobsOf(plan.follows[u]))
  BY DEF Succeed
<1> DEFINE w == WokenJobs(u, m)
           f == JobsOf(plan.follows[u])
<1>3. /\ w \in Seq(JobSet) /\ \A i \in 1 .. Len(w) : w[i] # SENTINEL
      /\ woken' \in [Unit -> Nat]
  BY <1>1, <1>2, WokenFacts, JobFacts
<1>4. /\ plan.follows[u] \in Seq(Unit)
      /\ f \in Seq(JobSet) /\ Len(f) = Len(plan.follows[u])
      /\ \A i \in 1 .. Len(f) : f[i] # SENTINEL
                               /\ f[i] = JobOf(plan.follows[u][i])
  BY <1>1, JobFacts
<1> HIDE DEF w, f
<1>5. /\ w \o f \in Seq(JobSet) /\ Len(w \o f) = Len(w) + Len(f)
      /\ \A i \in 1 .. Len(w \o f) :
           (w \o f)[i] = IF i <= Len(w) THEN w[i] ELSE f[i - Len(w)]
  BY <1>3, <1>4, Concatenation
<1>6. \A i \in 1 .. Len(w \o f) : (w \o f)[i] # SENTINEL
  <2>1. \A i \in 1 .. Len(w \o f) :
          ~(i <= Len(w)) => i - Len(w) \in 1 .. Len(f)
    BY <1>3, <1>4, <1>5
  <2> QED
    BY <1>3, <1>4, <1>5, <2>1
<1>7. Completed(w \o f)
  BY <1>2 DEF w, f
<1> DEFINE e == w \o f
<1> HIDE DEF e
<1>8. e \in Seq(JobSet) /\ (\A i \in 1 .. Len(e) : e[i] # SENTINEL) /\ Completed(e)
  BY <1>5, <1>6, <1>7 DEF e
<1>9. phase = "loop" /\ queue # <<>> /\ queue[1] # SENTINEL
  BY <1>1, TryingFacts
<1>10. /\ queue' \in Seq(JobSet) /\ PipelineTypeOK'
       /\ SentinelUnique' /\ SentinelGone' /\ DrainsStuck' /\ ReturnsEmpty'
       /\ QuietRound'
       /\ Len(queue') = Len(queue) - 1 + Len(e)
       /\ \A i \in 1 .. Len(queue') :
            queue'[i] = IF i < Len(queue) THEN queue[i + 1]
                                          ELSE e[i - Len(queue) + 1]
  BY <1>1, <1>8, <1>9, AfterCompleted
<1>11. TypeOK'
  BY <1>1, <1>3, <1>10 DEF TypeOK, JobSet, Succeed
<1>12. Accounted'
  <2>1. Len(queue) \in Nat \ {0} /\ Len(e) = Len(w) + Len(f)
        /\ Len(w) \in Nat /\ Len(f) \in Nat
    BY <1>1, <1>3, <1>4, <1>5, <1>9 DEF TypeOK, e
  <2>2. /\ UNCHANGED <<plan, reported_errors>>
        /\ done' = done \cup {u}
        /\ phase' = "loop"
    BY <1>8, <1>9 DEF Succeed, Completed
  <2>3. ASSUME NEW v \in Unit, Emitted(v)', ~Emitted(v), v # u
        PROVE  \E i \in 1 .. Len(queue') : queue'[i] = JobOf(v)
    <3>1. \/ \E k \in DOMAIN plan.follows[u] : plan.follows[u][k] = v
          \/ \E x \in Unit : \E k \in 1 .. woken'[x] :
               plan.wakes[x][k] = v /\ k \notin 1 .. woken[x]
      BY <2>2, <2>3 DEF Emitted
    <3>2. \E l \in 1 .. Len(e) : e[l] = JobOf(v)
      <4>1. CASE \E k \in DOMAIN plan.follows[u] : plan.follows[u][k] = v
        <5>1. PICK k \in DOMAIN plan.follows[u] : plan.follows[u][k] = v
          BY <4>1
        <5>2. k \in 1 .. Len(f) /\ f[k] = JobOf(v)
          BY <1>4, <5>1
        <5>3. e[Len(w) + k] = f[k] /\ Len(w) + k \in 1 .. Len(e)
          BY <1>5, <2>1, <5>2 DEF e
        <5> QED
          BY <5>2, <5>3
      <4>2. CASE \E x \in Unit : \E k \in 1 .. woken'[x] :
                   plan.wakes[x][k] = v /\ k \notin 1 .. woken[x]
        <5>0. PICK x \in Unit : \E k \in 1 .. woken'[x] :
                plan.wakes[x][k] = v /\ k \notin 1 .. woken[x]
          BY <4>2
        <5>1. PICK k \in 1 .. woken'[x] :
                plan.wakes[x][k] = v /\ k \notin 1 .. woken[x]
          BY <5>0
        <5> DEFINE l == k - woken[u]
        <5>2. l \in 1 .. Len(w) /\ w[l] = JobOf(v)
          BY <1>1, <1>2, <5>1, WokenEmitted, WokenFacts DEF w
        <5> HIDE DEF l
        <5>3. e[l] = w[l] /\ l \in 1 .. Len(e)
          BY <1>5, <2>1, <5>2 DEF e
        <5> QED
          BY <5>2, <5>3
      <4> QED
        BY <3>1, <4>1, <4>2
    <3>3. PICK l \in 1 .. Len(e) : e[l] = JobOf(v)
      BY <3>2
    <3> DEFINE n == Len(queue) - 1 + l
    <3>4. /\ n \in 1 .. Len(queue') /\ ~(n < Len(queue))
          /\ n - Len(queue) + 1 = l
      BY <1>10, <2>1
    <3> HIDE DEF n
    <3>5. queue'[n] = e[n - Len(queue) + 1]
      BY <1>10, <3>4
    <3> QED
      BY <3>3, <3>4, <3>5
  <2>4. \A v \in Unit : queue[1] = JobOf(v) => v = u
    BY <1>1, TryingFacts
  <2>5. Len(queue') \in Nat /\ Len(queue') >= Len(queue) - 1
    BY <1>10, <2>1
  <2>6. queue[1].type # "ABORT"
    BY <1>1, TryingFacts
  <2>7. \A i \in 1 .. Len(queue') : i < Len(queue) => queue'[i] = queue[i + 1]
    BY <1>10
  <2>8. \A v \in Unit :
          queue[1] = JobOf(v) \/ (Emitted(v)' /\ ~Emitted(v)) =>
            \/ v \in done' \/ v \in Unread
            \/ \E i \in 1 .. Len(queue') :
                 queue'[i] = JobOf(v) \/ queue'[i].type = "ABORT"
    BY <2>2, <2>3, <2>4
  <2>9. phase' # "crashed" /\ phase # "crashed" /\ done \subseteq done'
    BY <1>9, <2>2
  <2> QED
    BY <1>9, <2>2, <2>5, <2>6, <2>7, <2>8, <2>9, StillAccounted
<1> QED
  BY <1>10, <1>11, <1>12 DEF IInv

LEMMA FaultStep ==
  ASSUME IInv, NEW u \in Unit, Fault(u)
  PROVE  IInv'
<1>1. TypeOK /\ SentinelUnique /\ Trying(u)
  BY DEF IInv, Fault
<1>2. PICK m \in 0 .. Len(plan.wakes[u]) :
        /\ CanWake(u, m) /\ Wake(u, m)
        /\ Completed(WokenJobs(u, m) \o <<AbortOf(u)>>)
  BY DEF Fault
<1> DEFINE w == WokenJobs(u, m)
           a == AbortOf(u)
           e == w \o <<a>>
<1>3. /\ w \in Seq(JobSet) /\ \A i \in 1 .. Len(w) : w[i] # SENTINEL
      /\ woken' \in [Unit -> Nat]
  BY <1>1, <1>2, WokenFacts, JobFacts
<1>4. a \in JobSet /\ a # SENTINEL /\ a.type = "ABORT"
  BY <1>1, JobFacts DEF AbortOf
<1> HIDE DEF w, a
<1>5. /\ e \in Seq(JobSet) /\ Len(e) = Len(w) + 1 /\ Len(w) \in Nat
      /\ \A i \in 1 .. Len(w) + 1 : e[i] = IF i <= Len(w) THEN w[i] ELSE a
  BY <1>3, <1>4
<1>6. /\ \A i \in 1 .. Len(e) : e[i] # SENTINEL
      /\ Len(e) \in Nat \ {0} /\ e[Len(e)].type = "ABORT"
  BY <1>3, <1>4, <1>5
<1>7. Completed(e)
  BY <1>2 DEF w, a
<1> HIDE DEF e
<1>8. phase = "loop" /\ queue # <<>> /\ queue[1] # SENTINEL
  BY <1>1, TryingFacts
<1>9. /\ queue' \in Seq(JobSet) /\ PipelineTypeOK'
      /\ SentinelUnique' /\ SentinelGone' /\ DrainsStuck' /\ ReturnsEmpty'
      /\ QuietRound'
      /\ Len(queue') = Len(queue) - 1 + Len(e)
      /\ \A i \in 1 .. Len(queue') :
           queue'[i] = IF i < Len(queue) THEN queue[i + 1]
                                         ELSE e[i - Len(queue) + 1]
  BY <1>1, <1>5, <1>6, <1>7, <1>8, AfterCompleted
<1>10. TypeOK'
  BY <1>1, <1>3, <1>9 DEF TypeOK, JobSet, Fault
<1>11. Accounted'
  <2>1. Len(queue) \in Nat \ {0}
    BY <1>1, <1>8 DEF TypeOK
  <2> DEFINE n == Len(queue')
  <2>2. /\ n \in 1 .. Len(queue') /\ ~(n < Len(queue))
        /\ n - Len(queue) + 1 = Len(e)
    BY <1>6, <1>9, <2>1
  <2>3. queue'[n].type = "ABORT"
    BY <1>6, <1>9, <2>2
  <2> QED
    BY <2>2, <2>3, Zenon DEF Accounted
<1> QED
  BY <1>9, <1>10, <1>11 DEF IInv

LEMMA FileMissingStep ==
  ASSUME IInv, NEW u \in Unit, FileMissing(u)
  PROVE  IInv'
<1>1. /\ TypeOK /\ SentinelUnique /\ QuietRound /\ Trying(u)
      /\ UNCHANGED <<plan, done, woken, did_work, reported_errors, phase>>
      /\ queue' = Tail(queue)
  BY DEF IInv, FileMissing, Dropped
<1>2. /\ phase = "loop" /\ queue # <<>> /\ queue[1] # SENTINEL
      /\ queue[1].type # "ABORT"
      /\ \A v \in Unit : queue[1] = JobOf(v) => v = u
  BY <1>1, TryingFacts
<1>3. queue \in Seq(JobSet) /\ Len(queue) \in Nat \ {0}
  BY <1>1, <1>2 DEF TypeOK, JobSet
<1>4. /\ queue' \in Seq(JobSet) /\ Len(queue') = Len(queue) - 1
      /\ \A i \in 1 .. Len(queue') : queue'[i] = queue[i + 1]
  BY <1>1, <1>2, <1>3
<1>5. SentinelUnique' /\ SentinelGone' /\ DrainsStuck' /\ ReturnsEmpty'
  BY <1>1, <1>2, <1>3, <1>4, SentinelMoves
<1>6. \A job : Stuck(job)' <=> Stuck(job)
  BY <1>1 DEF Stuck, JobOf, Ready, WokenByBlocked
<1>7. QuietRound'
  <2> SUFFICES ASSUME ~did_work, NEW job \in JobSet,
                      NEW k \in 1 .. Len(queue'), NEW i \in 1 .. Len(queue'),
                      queue'[k] = SENTINEL, k < i, queue'[i] = job
               PROVE  Stuck(job)
    BY <1>1, <1>6 DEF QuietRound, SENTINEL, JobSet, WorkTypes, JobTypes
  <2>1. k + 1 \in 1 .. Len(queue) /\ i + 1 \in 1 .. Len(queue)
    BY <1>3, <1>4
  <2> QED
    BY <1>1, <1>2, <1>4, <2>1 DEF QuietRound
<1>8. TypeOK'
  <2>1. \A i \in 1 .. Len(queue') : queue'[i].type \in JobTypes
    BY <1>4, QueueTyped
  <2> QED
    BY <1>1, <1>4, <2>1 DEF TypeOK, PipelineTypeOK, JobSet
<1>9. Accounted'
  <2>1. u \in Unread
    <3>1. Head(queue) = JobOf(u) /\ Head(queue).type = "READ" /\ u \in plan.faulty
      BY <1>1, TryingFacts, Zenon DEF FileMissing, Job
    <3>2. JobOf(u).type = plan.type[u]
      BY DEF JobOf
    <3> QED
      BY <3>1, <3>2 DEF Unread
  <2>2. \A v \in Unit : Emitted(v)' = Emitted(v)
    BY <1>1 DEF Emitted
  <2>3. Len(queue') \in Nat /\ Len(queue') >= Len(queue) - 1
    BY <1>3, <1>4
  <2>4. \A i \in 1 .. Len(queue') : i < Len(queue) => queue'[i] = queue[i + 1]
    BY <1>4
  <2>5. \A v \in Unit :
          queue[1] = JobOf(v) \/ (Emitted(v)' /\ ~Emitted(v)) => v \in Unread
    BY <1>2, <2>1, <2>2
  <2>6. phase # "crashed" /\ phase' # "crashed" /\ done \subseteq done'
    BY <1>1, <1>2
  <2> QED
    BY <1>1, <1>2, <2>3, <2>4, <2>5, <2>6, StillAccounted
<1> QED
  BY <1>5, <1>7, <1>8, <1>9 DEF IInv

LEMMA RetryStep ==
  ASSUME IInv, NEW u \in Unit, Retry(u)
  PROVE  IInv'
<1>1. /\ TypeOK /\ SentinelUnique /\ QuietRound /\ Trying(u) /\ ~Ready(u)
      /\ UNCHANGED <<plan, done>>
  BY DEF IInv, Retry
<1>2. PICK m \in 0 .. Len(plan.wakes[u]) :
        CanWake(u, m) /\ Wake(u, m) /\ Deferred(WokenJobs(u, m))
  BY DEF Retry
<1> DEFINE e == WokenJobs(u, m)
           S == {job \in JobSet : Stuck(job)'}
<1>3. /\ e \in Seq(JobSet) /\ Len(e) = m
      /\ \A i \in 1 .. m :
           \E v \in Unit :
             /\ e[i] = JobOf(v)
             /\ plan.type[v] \in Retryable
             /\ \E k \in 1 .. woken'[u] : plan.wakes[u][k] = v
      /\ woken' \in [Unit -> Nat]
      /\ \A v \in Unit : woken[v] <= woken'[v]
  BY <1>1, <1>2, WokenFacts
<1>4. Deferred(e)
  BY <1>2
<1> HIDE DEF e
<1>5. /\ phase = "loop" /\ queue # <<>> /\ queue[1] # SENTINEL
      /\ queue[1].type # "ABORT" /\ queue[1] = JobOf(u)
      /\ queue[1] \in JobSet
      /\ \A v \in Unit : queue[1] = JobOf(v) => v = u
  BY <1>1, TryingFacts
<1>6. /\ \A v \in Unit : JobOf(v)' = JobOf(v)
      /\ ~Ready(u)'
  BY <1>1 DEF JobOf, Ready
<1>7. \A job \in JobSet : Stuck(job) => job \in S
  BY <1>1, <1>3, StuckStays
<1>8. queue[1] \in S
  <2>1. plan.type[u] \in Retryable
    BY <1>1 DEF TypeOK, IsPlan, Ready
  <2>2. JobOf(u).type \in Retryable
    BY <2>1 DEF JobOf
  <2>3. \A v \in Unit : JobOf(u) = JobOf(v) => v = u
    BY <1>5
  <2>4. Stuck(JobOf(u))'
    BY <1>6, <2>2, <2>3 DEF Stuck
  <2>5. \A job \in JobSet : job = JobOf(u) => Stuck(job)'
    BY <1>6, <2>2, <2>3 DEF Stuck
  <2> QED
    BY <1>5, <2>5
<1>9. \A i \in 1 .. Len(e) : e[i] \in S
  <2> SUFFICES ASSUME NEW i \in 1 .. Len(e), NEW job \in JobSet, e[i] = job
               PROVE  Stuck(job)'
    BY <1>3
  <2>1. PICK v \in Unit :
          /\ job = JobOf(v)
          /\ plan.type[v] \in Retryable
          /\ \E k \in 1 .. woken'[u] : plan.wakes[u][k] = v
    BY <1>3
  <2>2. WokenByBlocked(v)'
    BY <1>1, <1>6, <2>1 DEF WokenByBlocked
  <2>3. job.type \in Retryable /\ \A x \in Unit : job = JobOf(x) => x = v
    BY <2>1 DEF JobOf
  <2> QED
    BY <1>6, <2>2, <2>3 DEF Stuck
<1> HIDE DEF S
<1>10. \A job \in S : Stuck(job)'
  BY DEF S
<1>11. /\ queue' \in Seq(JobSet) /\ PipelineTypeOK'
       /\ SentinelUnique' /\ SentinelGone' /\ DrainsStuck' /\ ReturnsEmpty'
       /\ QuietRound'
       /\ Len(queue') = Len(queue) + Len(e)
       /\ \A i \in 1 .. Len(queue') :
            queue'[i] = IF i < Len(queue) THEN queue[i + 1]
                        ELSE IF i < Len(queue) + Len(e)
                               THEN e[i - Len(queue) + 1]
                        ELSE queue[1]
  BY <1>1, <1>3, <1>4, <1>5, <1>7, <1>8, <1>9, <1>10, AfterDeferred
<1>12. TypeOK'
  BY <1>1, <1>3, <1>11 DEF TypeOK, JobSet
<1>13. Accounted'
  <2>1. Len(queue) \in Nat \ {0} /\ Len(e) \in Nat
    BY <1>1, <1>3, <1>5 DEF TypeOK
  <2>2. ASSUME NEW v \in Unit, Emitted(v)', ~Emitted(v)
        PROVE  \E i \in 1 .. Len(queue') : queue'[i] = JobOf(v)
    <3>0. PICK x \in Unit : \E k \in 1 .. woken'[x] :
            plan.wakes[x][k] = v /\ k \notin 1 .. woken[x]
      BY <1>1, <2>2 DEF Emitted
    <3>1. PICK k \in 1 .. woken'[x] :
            plan.wakes[x][k] = v /\ k \notin 1 .. woken[x]
      BY <3>0
    <3> DEFINE l == k - woken[u]
    <3>2. l \in 1 .. Len(e) /\ e[l] = JobOf(v)
      <4>1. l \in 1 .. m /\ WokenJobs(u, m)[l] = JobOf(v)
        BY <1>1, <1>2, <3>1, WokenEmitted
      <4> QED
        BY <1>3, <4>1 DEF e
    <3> HIDE DEF l
    <3> DEFINE n == Len(queue) - 1 + l
    <3>3. /\ n \in 1 .. Len(queue') /\ ~(n < Len(queue))
          /\ n < Len(queue) + Len(e) /\ n - Len(queue) + 1 = l
      BY <1>11, <2>1, <3>2
    <3> HIDE DEF n
    <3>4. queue'[n] = e[n - Len(queue) + 1]
      BY <1>11, <3>3
    <3> QED
      BY <3>2, <3>3, <3>4
  <2>3. Len(queue') \in Nat /\ Len(queue') >= Len(queue) - 1
    BY <1>11, <2>1
  <2>4. \A i \in 1 .. Len(queue') : i < Len(queue) => queue'[i] = queue[i + 1]
    BY <1>11
  <2> DEFINE n == Len(queue')
  <2>5. n \in 1 .. Len(queue') /\ ~(n < Len(queue)) /\ ~(n < Len(queue) + Len(e))
    BY <1>11, <2>1
  <2>6. queue'[n] = queue[1]
    BY <1>11, <2>5
  <2>7. \A v \in Unit :
          queue[1] = JobOf(v) \/ (Emitted(v)' /\ ~Emitted(v)) =>
            \E i \in 1 .. Len(queue') : queue'[i] = JobOf(v)
    BY <2>2, <2>5, <2>6
  <2>8. /\ phase # "crashed" /\ phase' # "crashed" /\ done \subseteq done'
        /\ UNCHANGED <<plan, reported_errors>>
    BY <1>1, <1>4, <1>5 DEF Deferred
  <2> QED
    BY <1>5, <2>3, <2>4, <2>7, <2>8, StillAccounted
<1> QED
  BY <1>11, <1>12, <1>13 DEF IInv

-----------------------------------------------------------------------------

LEMMA TakeAbortStep ==
  ASSUME IInv, TakeAbort, UNCHANGED <<plan, done, woken>>
  PROVE  IInv'
<1>1. /\ TypeOK /\ SentinelUnique
      /\ queue # <<>> /\ phase = "loop" /\ phase' = "loop"
      /\ queue' = Tail(queue) /\ did_work' = TRUE
      /\ reported_errors' = reported_errors + 1
      /\ Head(queue).type = "ABORT"
  BY DEF IInv, TakeAbort, Taking, Job
<1>2. queue \in Seq(JobSet) /\ Len(queue) \in Nat \ {0} /\ Head(queue) = queue[1]
  BY <1>1 DEF TypeOK, JobSet
<1>3. queue[1] # SENTINEL
  BY <1>1, <1>2 DEF SENTINEL
<1>4. /\ queue' \in Seq(JobSet) /\ Len(queue') = Len(queue) - 1
      /\ \A i \in 1 .. Len(queue') : queue'[i] = queue[i + 1]
  BY <1>1, <1>2
<1>5. SentinelUnique' /\ SentinelGone' /\ DrainsStuck' /\ ReturnsEmpty'
  BY <1>1, <1>2, <1>3, <1>4, SentinelMoves
<1>6. TypeOK'
  <2>1. \A i \in 1 .. Len(queue') : queue'[i].type \in JobTypes
    BY <1>4, QueueTyped
  <2> QED
    BY <1>1, <1>4, <2>1 DEF TypeOK, PipelineTypeOK, JobSet
<1>7. Accounted'
  BY <1>1 DEF Accounted, TypeOK, PipelineTypeOK
<1> QED
  BY <1>1, <1>5, <1>6, <1>7 DEF IInv, QuietRound

LEMMA NextRoundStep ==
  ASSUME IInv, NextRound, UNCHANGED <<plan, done, woken>>
  PROVE  IInv'
<1>1. /\ TypeOK /\ SentinelUnique /\ Accounted
      /\ queue # <<>> /\ phase = "loop" /\ phase' = "loop"
      /\ queue' = Tail(queue) \o <<Head(queue)>> /\ did_work' = FALSE
      /\ reported_errors' = reported_errors
      /\ Head(queue).type = "SENTINEL"
  BY DEF IInv, NextRound, Taking, Job
<1>2. queue \in Seq(JobSet) /\ Len(queue) \in Nat \ {0} /\ Head(queue) = queue[1]
  BY <1>1 DEF TypeOK, JobSet
<1>3. queue[1] = SENTINEL
  BY <1>1, <1>2 DEF JobSet, WorkTypes
<1>4. /\ queue' \in Seq(JobSet) /\ Len(queue') = Len(queue)
      /\ \A i \in 1 .. Len(queue') :
           queue'[i] = IF i < Len(queue) THEN queue[i + 1] ELSE queue[1]
  BY <1>1, <1>2
<1>5. \A i \in 1 .. Len(queue) : queue[i] = SENTINEL => i = 1
  BY <1>1, <1>2, <1>3 DEF SentinelUnique
<1>6. /\ queue'[Len(queue')] = SENTINEL
      /\ \A i \in 1 .. Len(queue') : queue'[i] = SENTINEL => i = Len(queue')
  <2>1. \A i \in 1 .. Len(queue') :
          i < Len(queue) => i + 1 \in 1 .. Len(queue) /\ i + 1 # 1
    BY <1>2, <1>4
  <2> QED
    BY <1>2, <1>3, <1>4, <1>5, <2>1
<1>7. SentinelUnique'
  <2>1. Len(queue') \in 1 .. Len(queue')
    BY <1>2, <1>4
  <2>2. \E k \in 1 .. Len(queue') :
          /\ queue'[k] = SENTINEL
          /\ \A i \in 1 .. Len(queue') : queue'[i] = SENTINEL => i = k
    BY <1>6, <2>1
  <2>3. SENTINEL' = SENTINEL
    BY DEF SENTINEL
  <2> QED
    BY <2>2, <2>3 DEF SentinelUnique
<1>8. QuietRound'
  <2>1. \A k, i \in 1 .. Len(queue') : queue'[k] = SENTINEL => ~(k < i)
    BY <1>2, <1>4, <1>6
  <2> QED
    BY <1>1, <2>1 DEF QuietRound, SENTINEL
<1>9. TypeOK'
  <2>1. \A i \in 1 .. Len(queue') : queue'[i].type \in JobTypes
    BY <1>4, QueueTyped
  <2> QED
    BY <1>1, <1>4, <2>1 DEF TypeOK, PipelineTypeOK, JobSet
<1>10. Accounted'
  <2> SUFFICES ASSUME NEW v \in Unit, Emitted(v), v \notin Unread,
                      v \notin done, ~(reported_errors > 0)
               PROVE  \E i \in 1 .. Len(queue') :
                        queue'[i] = JobOf(v) \/ queue'[i].type = "ABORT"
    <3>1. /\ Unread' = Unread
          /\ \A v \in Unit : JobOf(v)' = JobOf(v) /\ Emitted(v)' = Emitted(v)
      BY DEF Unread, JobOf, Emitted
    <3> QED
      BY <1>1, <3>1 DEF Accounted, Waiting
  <2>1. PICK i \in 1 .. Len(queue) :
          queue[i] = JobOf(v) \/ queue[i].type = "ABORT"
    BY <1>1 DEF Accounted, Waiting
  <2>2. i # 1
    BY <1>1, <1>2, <1>3, <2>1, JobFacts DEF SENTINEL
  <2>3. i - 1 \in 1 .. Len(queue') /\ i - 1 < Len(queue) /\ (i - 1) + 1 = i
    BY <1>2, <1>4, <2>2
  <2> QED
    BY <1>4, <2>1, <2>3
<1> QED
  BY <1>1, <1>7, <1>8, <1>9, <1>10
     DEF IInv, SentinelGone, DrainsStuck, ReturnsEmpty

LEMMA StallStep ==
  ASSUME IInv, Stall, UNCHANGED <<plan, done, woken>>
  PROVE  IInv'
<1>1. /\ TypeOK /\ SentinelUnique /\ Accounted /\ QuietRound
      /\ queue # <<>> /\ phase = "loop" /\ phase' = "drain"
      /\ queue' = Tail(queue) /\ did_work = FALSE /\ did_work' = did_work
      /\ reported_errors' = reported_errors
      /\ Head(queue).type = "SENTINEL"
  BY DEF IInv, Stall, Taking, Job, TypeOK, PipelineTypeOK
<1>2. queue \in Seq(JobSet) /\ Len(queue) \in Nat \ {0} /\ Head(queue) = queue[1]
  BY <1>1 DEF TypeOK, JobSet
<1>3. queue[1] = SENTINEL
  BY <1>1, <1>2 DEF JobSet, WorkTypes
<1>4. /\ queue' \in Seq(JobSet) /\ Len(queue') = Len(queue) - 1
      /\ \A i \in 1 .. Len(queue') : queue'[i] = queue[i + 1]
  BY <1>1, <1>2
<1>5. \A i \in 1 .. Len(queue') :
        i + 1 \in 1 .. Len(queue) /\ i + 1 # 1 /\ 1 < i + 1
  BY <1>2, <1>4
<1>6. SentinelGone'
  <2>1. \A i \in 1 .. Len(queue) : queue[i] = SENTINEL => i = 1
    BY <1>1, <1>2, <1>3 DEF SentinelUnique
  <2> QED
    BY <1>4, <1>5, <2>1 DEF SentinelGone, SENTINEL
<1>7. \A job : Stuck(job)' <=> Stuck(job)
  BY DEF Stuck, JobOf, Ready, WokenByBlocked
<1>8. DrainsStuck'
  <2> SUFFICES ASSUME NEW i \in 1 .. Len(queue'), NEW job \in JobSet,
                      queue'[i] = job
               PROVE  Stuck(job)
    BY <1>7 DEF DrainsStuck, JobSet, SENTINEL, WorkTypes, JobTypes
  <2>1. queue[i + 1] = job /\ 1 \in 1 .. Len(queue)
    BY <1>2, <1>4
  <2> QED
    BY <1>1, <1>3, <1>5, <2>1 DEF QuietRound
<1>9. TypeOK'
  <2>1. \A i \in 1 .. Len(queue') : queue'[i].type \in JobTypes
    BY <1>4, QueueTyped
  <2> QED
    BY <1>1, <1>4, <2>1 DEF TypeOK, PipelineTypeOK, JobSet, Phases
<1>10. Accounted'
  <2> SUFFICES ASSUME NEW v \in Unit, Emitted(v), v \notin Unread,
                      v \notin done, ~(reported_errors > 0)
               PROVE  \E i \in 1 .. Len(queue') :
                        queue'[i] = JobOf(v) \/ queue'[i].type = "ABORT"
    <3>1. /\ Unread' = Unread
          /\ \A v \in Unit : JobOf(v)' = JobOf(v) /\ Emitted(v)' = Emitted(v)
      BY DEF Unread, JobOf, Emitted
    <3> QED
      BY <1>1, <3>1 DEF Accounted, Waiting
  <2>1. PICK i \in 1 .. Len(queue) :
          queue[i] = JobOf(v) \/ queue[i].type = "ABORT"
    BY <1>1 DEF Accounted, Waiting
  <2>2. i # 1
    BY <1>1, <1>2, <1>3, <2>1, JobFacts DEF SENTINEL
  <2>3. i - 1 \in 1 .. Len(queue') /\ (i - 1) + 1 = i
    BY <1>2, <1>4, <2>2
  <2> QED
    BY <1>4, <2>1, <2>3
<1> QED
  BY <1>1, <1>6, <1>8, <1>9, <1>10
     DEF IInv, SentinelUnique, QuietRound, ReturnsEmpty

LEMMA DrainStep ==
  ASSUME IInv, Drain, UNCHANGED <<plan, done, woken>>
  PROVE  IInv'
<1>1. /\ TypeOK /\ SentinelGone /\ DrainsStuck
      /\ queue # <<>> /\ phase = "drain"
      /\ queue' = Tail(queue) /\ did_work' = did_work
  BY DEF IInv, Drain
<1>2. queue \in Seq(JobSet) /\ Len(queue) \in Nat \ {0} /\ Head(queue) = queue[1]
  BY <1>1 DEF TypeOK, JobSet
<1>3. queue[1] \in JobSet /\ queue[1] # SENTINEL /\ queue[1].type \in Retryable
  <2>1. 1 \in 1 .. Len(queue)
    BY <1>2
  <2> QED
    BY <1>1, <1>2, <2>1 DEF SentinelGone, DrainsStuck, Stuck
<1>4. phase' = "drain" /\ reported_errors' = reported_errors + 1
  BY <1>1, <1>2, <1>3 DEF Drain, Job, Retryable
<1>5. /\ queue' \in Seq(JobSet) /\ Len(queue') = Len(queue) - 1
      /\ \A i \in 1 .. Len(queue') : queue'[i] = queue[i + 1]
  BY <1>1, <1>2
<1>6. \A i \in 1 .. Len(queue') : i + 1 \in 1 .. Len(queue)
  BY <1>2, <1>5
<1>7. SentinelGone'
  BY <1>1, <1>5, <1>6 DEF SentinelGone, SENTINEL
<1>8. \A job : Stuck(job)' <=> Stuck(job)
  BY DEF Stuck, JobOf, Ready, WokenByBlocked
<1>9. DrainsStuck'
  BY <1>1, <1>5, <1>6, <1>8
     DEF DrainsStuck, JobSet, SENTINEL, WorkTypes, JobTypes
<1>10. TypeOK'
  <2>1. \A i \in 1 .. Len(queue') : queue'[i].type \in JobTypes
    BY <1>5, QueueTyped
  <2> QED
    BY <1>1, <1>4, <1>5, <2>1 DEF TypeOK, PipelineTypeOK, JobSet
<1>11. Accounted'
  BY <1>1, <1>4 DEF Accounted, TypeOK, PipelineTypeOK
<1> QED
  BY <1>4, <1>7, <1>9, <1>10, <1>11
     DEF IInv, SentinelUnique, QuietRound, ReturnsEmpty

LEMMA ReturnStep ==
  ASSUME IInv, Return, UNCHANGED <<plan, done, woken>>
  PROVE  IInv'
<1>1. /\ TypeOK /\ Accounted /\ phase \in {"loop", "drain"}
      /\ queue = <<>> /\ phase' = "done"
      /\ UNCHANGED <<queue, did_work, reported_errors>>
  BY DEF IInv, Return
<1>2. TypeOK'
  BY <1>1 DEF TypeOK, PipelineTypeOK, Phases
<1>3. Accounted'
  BY <1>1 DEF Accounted, Emitted, Waiting, Unread, JobOf
<1>4. SentinelGone'
  BY <1>1 DEF SentinelGone
<1> QED
  BY <1>1, <1>2, <1>3, <1>4
     DEF IInv, SentinelUnique, QuietRound, DrainsStuck, ReturnsEmpty

LEMMA InitIInv == Init => IInv
<1> SUFFICES ASSUME Init PROVE IInv
  OBVIOUS
<1> DEFINE f == JobsOf(plan.first)
<1>1. IsPlan(plan)
  BY PlansAssumption DEF Init
<1>2. plan.first \in Seq(Unit)
  BY <1>1 DEF IsPlan
<1>3. \A v \in Unit : JobOf(v) \in JobSet /\ JobOf(v) # SENTINEL
  BY <1>1 DEF IsPlan, JobOf, JobSet, SENTINEL, WorkTypes
<1>4. /\ f \in Seq(JobSet) /\ Len(f) = Len(plan.first)
      /\ \A i \in 1 .. Len(f) : f[i] # SENTINEL /\ f[i] = JobOf(plan.first[i])
  BY <1>2, <1>3 DEF JobsOf
<1>5. queue = <<SENTINEL>> \o f /\ phase = "loop" /\ did_work = TRUE
      /\ reported_errors = 0
  BY DEF Init, PipelineInit
<1> HIDE DEF f
<1>6. SENTINEL \in JobSet
  BY DEF JobSet
<1>7. /\ queue \in Seq(JobSet) /\ Len(queue) = 1 + Len(f) /\ Len(f) \in Nat
      /\ queue[1] = SENTINEL
      /\ \A i \in 1 .. Len(f) : queue[i + 1] = f[i]
  BY <1>4, <1>5, <1>6
<1>8. SentinelUnique
  <2>1. \A i \in 1 .. Len(queue) : i # 1 => i - 1 \in 1 .. Len(f) /\ (i - 1) + 1 = i
    BY <1>7
  <2>2. ASSUME NEW i \in 1 .. Len(queue), queue[i] = SENTINEL
        PROVE  i = 1
    <3>1. SUFFICES ASSUME i # 1 PROVE FALSE
      OBVIOUS
    <3> DEFINE k == i - 1
    <3>2. k \in 1 .. Len(f) /\ k + 1 = i
      BY <2>1, <3>1
    <3> HIDE DEF k
    <3>3. queue[k + 1] = f[k] /\ f[k] # SENTINEL
      BY <1>4, <1>7, <3>2
    <3> QED
      BY <2>2, <3>2, <3>3
  <2> QED
    BY <1>7, <2>2 DEF SentinelUnique
<1>9. TypeOK
  <2>1. \A i \in 1 .. Len(queue) : queue[i].type \in JobTypes
    BY <1>7, QueueTyped
  <2> QED
    BY <1>1, <1>5, <1>7, <2>1 DEF TypeOK, PipelineTypeOK, JobSet, Phases, Init
<1>10. Accounted
  <2> SUFFICES ASSUME NEW v \in Unit, Emitted(v) PROVE Waiting(v)
    BY DEF Accounted
  <2>1. PICK i \in DOMAIN plan.first : plan.first[i] = v
    <3>1. done = {} /\ \A x \in Unit : woken[x] = 0
      BY DEF Init
    <3> QED
      BY <3>1 DEF Emitted
  <2>2. i \in 1 .. Len(f) /\ f[i] = JobOf(v)
    BY <1>2, <1>4, <2>1
  <2>3. i + 1 \in 1 .. Len(queue) /\ queue[i + 1] = JobOf(v)
    BY <1>7, <2>2
  <2> QED
    BY <2>3 DEF Waiting
<1> QED
  BY <1>5, <1>8, <1>9, <1>10
     DEF IInv, SentinelGone, QuietRound, DrainsStuck, ReturnsEmpty

(* The invariant is inductive. *)
THEOREM Invariance == Spec => []IInv
<1>1. ASSUME IInv, [Next]_vars PROVE IInv'
  <2>1. CASE Loop
    <3>1. UNCHANGED <<plan, done, woken>> /\ LoopStep
      BY <2>1 DEF Loop
    <3> QED
      BY <1>1, <3>1, TakeAbortStep, NextRoundStep, StallStep, DrainStep,
         ReturnStep DEF LoopStep
  <2>2. ASSUME NEW u \in Unit, Succeed(u) \/ Fault(u) \/ FileMissing(u) \/ Retry(u)
        PROVE  IInv'
    BY <1>1, <2>2, SucceedStep, FaultStep, FileMissingStep, RetryStep
  <2>3. CASE UNCHANGED vars
    <3>1. UNCHANGED <<queue, did_work, reported_errors, phase, plan, done, woken>>
      BY <2>3 DEF vars
    <3>2. TypeOK'
      BY <1>1, <3>1 DEF IInv, TypeOK, PipelineTypeOK, SENTINEL, WorkTypes
    <3>3. SentinelUnique' /\ SentinelGone' /\ ReturnsEmpty'
      BY <1>1, <3>1
         DEF IInv, SentinelUnique, SentinelGone, ReturnsEmpty, SENTINEL
    <3>4. \A job : Stuck(job)' <=> Stuck(job)
      BY <3>1 DEF Stuck, JobOf, Ready, WokenByBlocked
    <3>5. QuietRound' /\ DrainsStuck'
      BY <1>1, <3>1, <3>4
         DEF IInv, QuietRound, DrainsStuck, JobSet, SENTINEL, WorkTypes, JobTypes
    <3>6. Accounted'
      BY <1>1, <3>1 DEF IInv, Accounted, Emitted, Waiting, Unread, JobOf
    <3> QED
      BY <3>2, <3>3, <3>5, <3>6 DEF IInv
  <2> QED
    BY <1>1, <2>1, <2>2, <2>3 DEF Next
<1> QED
  BY InitIInv, <1>1, PTL DEF Spec

(* Every job in the queue is a job, and the loop's variables keep their     *)
(* types, whatever program is compiled.                                     *)
THEOREM TypeCorrect == Spec => []TypeOK
<1>1. IInv => TypeOK
  BY DEF IInv
<1> QED
  BY Invariance, <1>1, PTL

(* While the loop runs there is exactly one sentinel in the queue, and none *)
(* is left for the drain to assert on.                                      *)
THEOREM SentinelSafe == Spec => []OneSentinel
<1>1. IInv => OneSentinel
  BY DEF IInv, OneSentinel, SentinelAt, SentinelUnique, SentinelGone
<1> QED
  BY Invariance, <1>1, PTL

(* No drained job reaches the assert on unknown types.                      *)
THEOREM DrainSafe == Spec => []DrainsOnlyRetryable
<1>1. IInv => DrainsOnlyRetryable
  BY DEF IInv, TypeOK, DrainsOnlyRetryable, DrainsStuck, Stuck, JobSet
<1> QED
  BY Invariance, <1>1, PTL

(* The loop never gives up on a unit that could have run, other than one    *)
(* that a unit still blocked has emitted.                                   *)
THEOREM GivesUpSoundly == Spec => []StallSound
<1>1. IInv => StallSound
  <2> SUFFICES ASSUME IInv, phase = "drain", NEW u \in Unit,
                      NEW i \in 1 .. Len(queue), queue[i] = JobOf(u), Ready(u)
               PROVE  WokenByBlocked(u)
    BY DEF StallSound, Waiting
  <2>1. JobOf(u) \in JobSet
    BY JobFacts DEF IInv
  <2> QED
    BY <2>1 DEF IInv, DrainsStuck, Stuck
<1> QED
  BY Invariance, <1>1, PTL

(* "Compiled" is printed only when every unit that main, a handler that     *)
(* succeeded or one that had to wait emitted has run, unreadable files      *)
(* aside.                                                                   *)
THEOREM VerdictCorrect == Spec => []VerdictSound
<1>1. IInv => VerdictSound
  <2> SUFFICES ASSUME IInv, Succeeded, NEW u \in Unit,
                      Emitted(u), u \notin Unread
               PROVE  u \in done
    BY DEF VerdictSound
  <2>1. phase = "done" /\ reported_errors = 0 /\ queue = <<>>
    BY DEF Succeeded, Returned, IInv, ReturnsEmpty
  <2> QED
    BY <2>1 DEF IInv, Accounted, Waiting
<1> QED
  BY Invariance, <1>1, PTL
=============================================================================
