---------------------------- MODULE VerdictProofs ----------------------------
(***************************************************************************)
(* Proofs about what "Compiled" says: while no error has been counted      *)
(* nothing that there is to compile is without a job or a result, on every *)
(* program and in whatever order the jobs wait for each other.             *)
(***************************************************************************)
EXTENDS WorkspaceProofs

-----------------------------------------------------------------------------
(* The inductive invariant. *)

(* The nodes are trees, and what is right below the root is no body.        *)
Rooted ==
  /\ ast[Global].kind = "GLOBAL"
  /\ \A p \in DOMAIN ast : Parent(p) \in DOMAIN ast

(* Only what is typed gets past the typechecker: a declaration that is      *)
(* taken from the queue by BYTECODE, and leaves nothing behind, is done.    *)
TypedFirst ==
  \A i \in NodeJobs :
    queue[i].type \in {"OPTIMIZE", "BYTECODE"} => ast[queue[i].node].class # NoType

(* begin_compilation returns with nothing left in the queue. *)
DoneEmpty == phase = "done" => queue = <<>>

VInv == Rooted /\ TypedFirst /\ NoneForgotten

-----------------------------------------------------------------------------
(* The queue. *)

(* Among these jobs is one of the node. *)
HasJob(jobs, q) == \E i \in 1 .. Len(jobs) : IsNodeJob(jobs[i]) /\ jobs[i].node = q

(* Only typed nodes are handed on. *)
HandsOnTyped(jobs) ==
  \A i \in 1 .. Len(jobs) :
    jobs[i].type \in {"OPTIMIZE", "BYTECODE"} => ast[jobs[i].node].class # NoType

LEMMA HasJobInQueue ==
  ASSUME NEW q
  PROVE  HasJob(queue, q) <=> \E i \in NodeJobs : queue[i].node = q
BY DEF HasJob, NodeJobs, IsNodeJob

(* Every job but the one in front keeps its turn, and what is emitted gets one. *)
LEMMA TurnsKept ==
  ASSUME queue \in Seq(JobSet), queue # <<>>, NEW e \in Seq(JobSet),
         queue' = Tail(queue) \o e
  PROVE  /\ \A i \in 2 .. Len(queue) : \E j \in 1 .. Len(queue') : queue'[j] = queue[i]
         /\ \A i \in 1 .. Len(e) : \E j \in 1 .. Len(queue') : queue'[j] = e[i]
<1>1. /\ Len(queue') = Len(queue) - 1 + Len(e)
      /\ \A i \in 1 .. Len(queue') :
           queue'[i] = IF i < Len(queue) THEN queue[i + 1]
                                         ELSE e[i - Len(queue) + 1]
  BY TailThenEmitted, Zenon
<1>2. PICK n, m : n = Len(queue) /\ m = Len(e)
  OBVIOUS
<1>3. n \in Nat \ {0} /\ m \in Nat
  BY <1>2
<1>4. ASSUME NEW i \in 2 .. n PROVE \E j \in 1 .. Len(queue') : queue'[j] = queue[i]
  <2>1. PICK j : j = i - 1
    OBVIOUS
  <2>2. j \in 1 .. n - 1 + m /\ j < n /\ j + 1 = i
    BY <1>3, <2>1
  <2> QED
    BY <1>1, <1>2, <2>2
<1>5. ASSUME NEW i \in 1 .. m PROVE \E j \in 1 .. Len(queue') : queue'[j] = e[i]
  <2>1. PICK j : j = n - 1 + i
    OBVIOUS
  <2>2. j \in 1 .. n - 1 + m /\ ~(j < n) /\ j - n + 1 = i
    BY <1>3, <2>1
  <2> QED
    BY <1>1, <1>2, <2>2
<1> QED
  BY <1>2, <1>4, <1>5

(* What has a job still has one, unless it was the job in front. *)
LEMMA JobsCarried ==
  ASSUME queue \in Seq(JobSet), queue # <<>>, NEW e \in Seq(JobSet),
         queue' = Tail(queue) \o e, NEW q
  PROVE  /\ HasJob(e, q) => HasJob(queue', q)
         /\ HasJob(queue, q) => \/ HasJob(queue', q)
                                \/ IsNodeJob(queue[1]) /\ queue[1].node = q
<1>1. HasJob(e, q) => HasJob(queue', q)
  BY TurnsKept DEF HasJob
<1>2. ASSUME HasJob(queue, q), ~(IsNodeJob(queue[1]) /\ queue[1].node = q)
      PROVE  HasJob(queue', q)
  <2>1. PICK i \in 1 .. Len(queue) : IsNodeJob(queue[i]) /\ queue[i].node = q
    BY <1>2 DEF HasJob
  <2>2. i \in 2 .. Len(queue)
    <3>1. i # 1
      BY <1>2, <2>1
    <3> QED
      BY <3>1
  <2>3. PICK j \in 1 .. Len(queue') : queue'[j] = queue[i]
    BY <2>2, TurnsKept
  <2> QED
    BY <2>1, <2>3 DEF HasJob
<1> QED
  BY <1>1, <1>2

-----------------------------------------------------------------------------
(* What a step leaves to do. *)

LEMMA HandledStays ==
  ASSUME Grows, NEW q \in DOMAIN ast, Handled(ast[q])
  PROVE  Handled(ast'[q])
BY DEF Grows, NodeKept, Handled

(* No node is new, and none has a new class. *)
Settled ==
  /\ DOMAIN ast' = DOMAIN ast
  /\ \A p \in DOMAIN ast : ast'[p].kind = ast[p].kind /\ ast'[p].class = ast[p].class

LEMMA PathsStay ==
  /\ Global' = Global /\ NoType' = NoType
  /\ \A p : Parent(p)' = Parent(p) /\ \A i : Child(p, i)' = Child(p, i)
BY DEF Global, NoType, Parent, Child

LEMMA SettledWants ==
  ASSUME Settled, IInv, Rooted
  PROVE  Rooted' /\ \A q \in DOMAIN ast' : Wanted(q)' => Wanted(q)
<1>1. Global \in DOMAIN ast
  BY DEF IInv, NodesFine
<1>2. Rooted'
  BY <1>1 DEF Settled, Rooted, Global, Parent
<1>3. ASSUME NEW q \in DOMAIN ast', Wanted(q)' PROVE Wanted(q)
  BY <1>3 DEF Settled, Wanted, Parent, Child, NoType
<1> QED
  BY <1>2, <1>3

(* A job has been taken and others put behind: what is new to do is among   *)
(* these, and so is what the job was about unless it is done or an error.   *)
LEMMA Carried ==
  ASSUME IInv, VInv, Grows, Rooted', queue # <<>>,
         NEW e \in Seq(JobSet), queue' = Tail(queue) \o e,
         reported_errors' = 0 => reported_errors = 0,
         \A q \in DOMAIN ast' : Wanted(q)' => Wanted(q) \/ HasJob(e, q),
         \/ ~IsNodeJob(queue[1]) \/ HasJob(e, queue[1].node)
         \/ Handled(ast'[queue[1].node]) \/ reported_errors' # 0,
         HandsOnTyped(e)'
  PROVE  VInv'
<1>1. queue \in Seq(JobSet)
  BY DEF IInv, QueueFine
<1>2. NodeTypes' = NodeTypes /\ NoType' = NoType
  BY DEF NodeTypes, NoType
<1>3. NoneForgotten'
  <2>1. ASSUME NEW q \in DOMAIN ast', Wanted(q)', reported_errors' = 0
        PROVE  Handled(ast'[q]) \/ HasJob(queue', q)
    <3>1. CASE HasJob(e, q)
      BY <1>1, <3>1, JobsCarried
    <3>2. CASE Wanted(q)
      <4>1. q \in DOMAIN ast
        BY <3>2 DEF Wanted
      <4>2. Handled(ast[q]) \/ HasJob(queue, q)
        BY <2>1, <3>2, <4>1, HasJobInQueue DEF VInv, NoneForgotten
      <4>3. CASE Handled(ast[q])
        BY <4>1, <4>3, HandledStays
      <4>4. CASE HasJob(queue, q)
        <5>1. CASE HasJob(queue', q)
          BY <5>1
        <5>2. CASE IsNodeJob(queue[1]) /\ queue[1].node = q
          <6>1. HasJob(e, q) \/ Handled(ast'[q])
            BY <2>1, <5>2
          <6> QED
            BY <1>1, <6>1, JobsCarried
        <5> QED
          BY <1>1, <4>4, <5>1, <5>2, JobsCarried
      <4> QED
        BY <4>2, <4>3, <4>4
    <3> QED
      BY <2>1, <3>1, <3>2
  <2> QED
    BY <1>2, <2>1 DEF NoneForgotten, Handled, HasJob, IsNodeJob, NodeJobs, Wanted
<1>4. TypedFirst'
  <2>1. ASSUME NEW i \in 1 .. Len(queue'), NEW job, job = queue'[i],
               job.type \in {"OPTIMIZE", "BYTECODE"}
        PROVE  ast'[job.node].class # NoType
    <3>1. CASE \E k \in 1 .. Len(queue) : job = queue[k]
      <4>1. PICK k \in 1 .. Len(queue) : job = queue[k]
        BY <3>1
      <4>2. k \in NodeJobs /\ job.node \in DOMAIN ast
        BY <2>1, <4>1 DEF NodeJobs, NodeTypes, IInv, QueueFine, JobFine
      <4>3. ast[job.node].class # NoType
        BY <2>1, <4>1, <4>2 DEF VInv, TypedFirst
      <4> QED
        BY <4>2, <4>3 DEF Grows, NodeKept
    <3>2. CASE \E k \in 1 .. Len(e) : job = e[k]
      BY <1>2, <2>1, <3>2 DEF HandsOnTyped
    <3> QED
      BY <1>1, <2>1, <3>1, <3>2, OldOrEmitted
  <2> QED
    BY <1>2, <2>1 DEF TypedFirst, NodeJobs
<1> QED
  BY <1>3, <1>4 DEF VInv

(* The same for the steps that neither make nodes nor give classes. *)
LEMMA CarriedSettled ==
  ASSUME IInv, VInv, Grows, Settled, queue # <<>>,
         NEW e \in Seq(JobSet), queue' = Tail(queue) \o e,
         reported_errors' = 0 => reported_errors = 0,
         \/ ~IsNodeJob(queue[1]) \/ HasJob(e, queue[1].node)
         \/ Handled(ast'[queue[1].node]) \/ reported_errors' # 0,
         HandsOnTyped(e)'
  PROVE  VInv'
<1>1. Rooted' /\ \A q \in DOMAIN ast' : Wanted(q)' => Wanted(q)
  BY SettledWants DEF VInv
<1> QED
  BY <1>1, Carried

(* The queue stays as it is. *)
LEMMA Standing ==
  ASSUME IInv, VInv, Grows, Settled, queue' = queue, reported_errors' = reported_errors
  PROVE  VInv'
<1>1. Rooted' /\ \A q \in DOMAIN ast' : Wanted(q)' => Wanted(q)
  BY SettledWants DEF VInv
<1>2. NodeJobs' = NodeJobs /\ NoType' = NoType
  BY DEF NodeJobs, NodeTypes, NoType
<1>3. \A i \in NodeJobs : queue[i].node \in DOMAIN ast
  BY DEF IInv, QueueFine, JobFine, NodeJobs
<1>4. TypedFirst'
  BY <1>2, <1>3 DEF VInv, TypedFirst, Settled
<1>5. NoneForgotten'
  <2>1. ASSUME NEW q \in DOMAIN ast', Wanted(q)', reported_errors' = 0
        PROVE  Handled(ast'[q]) \/ \E i \in NodeJobs : queue[i].node = q
    <3>1. Wanted(q) /\ q \in DOMAIN ast
      BY <1>1, <2>1 DEF Settled
    <3>2. Handled(ast[q]) \/ \E i \in NodeJobs : queue[i].node = q
      BY <2>1, <3>1 DEF VInv, NoneForgotten
    <3> QED
      BY <3>1, <3>2, HandledStays
  <2> QED
    BY <1>2, <2>1 DEF NoneForgotten, Handled
<1> QED
  BY <1>1, <1>4, <1>5 DEF VInv

LEMMA TablesSettled ==
  ASSUME IInv, UNCHANGED <<program, ast, bytecode, initializers>>
  PROVE  Settled /\ Grows
BY TablesUnchanged DEF Settled

-----------------------------------------------------------------------------
(* The steps that are about no node. *)

(* A job that is about no node has been taken, and none about a node put.   *)
LEMMA NoNodeStep ==
  ASSUME IInv, VInv, Grows, Settled, queue # <<>>,
         NEW e \in Seq(JobSet), queue' = Tail(queue) \o e,
         reported_errors' = 0 => reported_errors = 0,
         ~IsNodeJob(queue[1]) \/ reported_errors' # 0,
         \A i \in 1 .. Len(e) : ~IsNodeJob(e[i])
  PROVE  VInv'
<1>1. HandsOnTyped(e)'
  BY DEF HandsOnTyped, IsNodeJob, NodeTypes
<1> QED
  BY <1>1, CarriedSettled

(* ... or none at all. *)
LEMMA TakenStep ==
  ASSUME IInv, VInv, Grows, Settled, queue # <<>>, queue' = Tail(queue),
         reported_errors' = 0 => reported_errors = 0,
         ~IsNodeJob(queue[1]) \/ reported_errors' # 0
  PROVE  VInv'
<1>1. PICK e : e = <<>>
  OBVIOUS
<1>2. Tail(queue) \in Seq(JobSet)
  BY HeadTailProperties DEF IInv, QueueFine
<1>3. e \in Seq(JobSet) /\ queue' = Tail(queue) \o e /\ \A i : i \notin 1 .. Len(e)
  BY <1>1, <1>2, ConcatEmptySeq
<1> QED
  BY <1>3, NoNodeStep

LEMMA OneStep ==
  ASSUME IInv, VInv, Grows, Settled, queue # <<>>,
         NEW job \in JobSet, ~IsNodeJob(job), queue' = Tail(queue) \o <<job>>,
         reported_errors' = reported_errors, ~IsNodeJob(queue[1])
  PROVE  VInv'
<1>1. PICK e : e = <<job>>
  OBVIOUS
<1>2. e \in Seq(JobSet) /\ Len(e) = 1 /\ \A i \in 1 .. Len(e) : e[i] = job
  BY <1>1
<1> QED
  BY <1>1, <1>2, NoNodeStep

LEMMA ReadVerdict ==
  ASSUME IInv, VInv, Read
  PROVE  VInv'
<1>1. /\ queue # <<>> /\ queue[1] \in JobSet /\ queue[1].type = "READ"
      /\ Job = queue[1]
  BY HeadFacts DEF Read, IInv
<1>2. ~IsNodeJob(queue[1])
  BY <1>1 DEF IsNodeJob, NodeTypes
<1>3. Job.file \in FileNames
  BY <1>1 DEF JobSet, SENTINEL, NodeTypes
<1>4. PICK job : job = FileJob("LEX", Job.file)
  OBVIOUS
<1>5. job \in JobSet /\ ~IsNodeJob(job)
  BY <1>3, <1>4 DEF JobSet, FileJob, FileTypes, IsNodeJob, NodeTypes
<1>6. /\ queue' = Tail(queue) \o <<job>> \/ queue' = Tail(queue)
      /\ reported_errors' = reported_errors
  BY <1>4 DEF Read, Completed, Dropped
<1> QED
  BY <1>1, <1>2, <1>5, <1>6, TablesSettled, OneStep, TakenStep DEF Read

LEMMA LexVerdict ==
  ASSUME IInv, VInv, Lex
  PROVE  VInv'
<1>1. /\ queue # <<>> /\ queue[1] \in JobSet /\ queue[1].type = "LEX"
      /\ Job = queue[1]
  BY HeadFacts DEF Lex, IInv
<1>2. ~IsNodeJob(queue[1])
  BY <1>1 DEF IsNodeJob, NodeTypes
<1>3. Job.file \in FileNames
  BY <1>1 DEF JobSet, SENTINEL, NodeTypes
<1>4. PICK job : job = FileJob("PARSE", Job.file)
  OBVIOUS
<1>5. job \in JobSet /\ ~IsNodeJob(job)
  BY <1>3, <1>4 DEF JobSet, FileJob, FileTypes, IsNodeJob, NodeTypes
<1>6. queue' = Tail(queue) \o <<job>> /\ reported_errors' = reported_errors
  BY <1>4 DEF Lex, Completed
<1> QED
  BY <1>1, <1>2, <1>5, <1>6, TablesSettled, OneStep DEF Lex

(* An error is counted in the step that takes the job away that had it, and *)
(* whatever is drained is counted.                                          *)
LEMMA TurnVerdict ==
  ASSUME IInv, VInv, Turn
  PROVE  VInv'
<1>1. Settled /\ Grows
  BY TablesSettled DEF Turn
<1>2. reported_errors \in Nat
  BY DEF IInv, Flags
<1>3. CASE Report
  <2>1. queue # <<>> /\ queue' = Tail(queue) /\ reported_errors' = reported_errors + 1
    BY <1>3 DEF Report, TakeAbort, Taking
  <2>2. reported_errors' # 0
    BY <1>2, <2>1
  <2> QED
    BY <1>1, <2>1, <2>2, TakenStep
<1>4. CASE DrainAll
  <2>1. /\ phase = "drain" /\ queue # <<>> /\ queue' = Tail(queue) /\ Job = queue[1]
        /\ reported_errors' = IF Job.type = "SENTINEL" THEN reported_errors
                                                       ELSE reported_errors + 1
    BY <1>4 DEF DrainAll, Drain, Job, IInv, QueueFine
  <2>2. ~IsNodeJob(queue[1]) \/ reported_errors' # 0
    <3>1. CASE Job.type = "SENTINEL"
      BY <2>1, <3>1 DEF IsNodeJob, NodeTypes
    <3>2. CASE Job.type # "SENTINEL"
      BY <1>2, <2>1, <3>2
    <3> QED
      BY <3>1, <3>2
  <2>3. reported_errors' = 0 => reported_errors = 0
    BY <1>2, <2>1
  <2> QED
    BY <1>1, <2>1, <2>2, <2>3, TakenStep
<1>5. ASSUME NextRound \/ Stall PROVE VInv'
  <2>1. queue # <<>> /\ Job = SENTINEL /\ queue[1] = SENTINEL
    BY <1>5, SentinelTaken DEF NextRound, Stall
  <2>2. SENTINEL \in JobSet /\ ~IsNodeJob(SENTINEL)
    BY DEF JobSet, IsNodeJob, SENTINEL, NodeTypes
  <2>3. PICK job \in JobSet : job = SENTINEL /\ ~IsNodeJob(job)
    BY <2>2
  <2>4. ~IsNodeJob(queue[1])
    BY <2>1, <2>2
  <2>5. /\ queue' = Tail(queue) \o <<job>> \/ queue' = Tail(queue)
        /\ reported_errors' = reported_errors
    BY <1>5, <2>1, <2>3 DEF NextRound, Stall
  <2> QED
    BY <1>1, <2>1, <2>3, <2>4, <2>5, OneStep, TakenStep
<1>6. CASE Return
  BY <1>1, <1>6, Standing DEF Return
<1> QED
  BY <1>3, <1>4, <1>5, <1>6 DEF Turn

-----------------------------------------------------------------------------
(* Running programs. *)

(* A program gives values to nodes and changes nothing else. *)
LEMMA ValuesSettle ==
  ASSUME NodesFine, NEW d \in DOMAIN ast, NEW word, NEW begins,
         ast' \in {Stored(d, word), Finished(d), Awaited(d, begins)}
  PROVE  Settled
<1>1. DOMAIN ast' = DOMAIN ast
  BY DEF Stored, Finished, Awaited
<1>2. ASSUME NEW p \in DOMAIN ast
      PROVE  ast'[p].kind = ast[p].kind /\ ast'[p].class = ast[p].class
  <2>1. CASE p # d
    BY <2>1 DEF Stored, Finished, Awaited
  <2>2. CASE p = d
    <3>1. PICK b : b = ast[p] /\ DOMAIN b = NodeFields
      BY DEF NodesFine, NodeOK
    <3>2. PICK a : a = ast'[p]
      OBVIOUS
    <3>3. \/ a = [b EXCEPT !.value = word, !.initialized = TRUE]
          \/ a = [b EXCEPT !.initializing = FALSE, !.initialized = TRUE]
          \/ \E x : a = [b EXCEPT !.initializing = x]
      BY <2>2, <3>1, <3>2 DEF Stored, Finished, Awaited
    <3>4. a.kind = b.kind /\ a.class = b.class
      BY <3>1, <3>3, Fields
    <3> QED
      BY <3>1, <3>2, <3>4
  <2> QED
    BY <2>1, <2>2
<1> QED
  BY <1>1, <1>2 DEF Settled

(* A machine that waits goes back into the queue behind initializers. *)
LEMMA WaitingEmits ==
  ASSUME IInv, NEW m, MachineFine(m), NEW d \in DOMAIN ast, Await(m, d), queue # <<>>
  PROVE  \E e \in Seq(JobSet) :
           /\ queue' = Tail(queue) \o e
           /\ \A i \in 1 .. Len(e) : ~IsNodeJob(e[i])
<1>1. queue \in Seq(JobSet)
  BY DEF IInv, QueueFine
<1>2. PICK jobs : jobs = Beginning(d)
  OBVIOUS
<1>3. jobs \in Seq(JobSet) /\ \A i \in 1 .. Len(jobs) : jobs[i].type = "EXECUTE"
  BY <1>2, InitializersBegin
<1>4. PICK n : n = Waiter(m, d)
  OBVIOUS
<1>5. n \in Machines
  BY <1>4, WaiterFine DEF IInv, NodesFine, MachineFine, MachineOK
<1>6. PICK job : job = ExecuteJob(n)
  OBVIOUS
<1>7. job \in JobSet /\ job.type = "EXECUTE"
  BY <1>5, <1>6 DEF ExecuteJob, JobSet
<1>8. PICK one : one = <<job>>
  OBVIOUS
<1>9. one \in Seq(JobSet) /\ Len(one) = 1 /\ \A i \in 1 .. Len(one) : one[i] = job
  BY <1>7, <1>8
<1>10. PICK e : e = jobs \o one
  OBVIOUS
<1>11. queue' = Tail(queue) \o e
  <2>1. queue' = (Tail(queue) \o jobs) \o one
    BY <1>2, <1>4, <1>6, <1>8 DEF Await
  <2> QED
    BY <1>1, <1>3, <1>9, <1>10, <2>1, PutBehind
<1>12. /\ e \in Seq(JobSet) /\ Len(e) = Len(jobs) + 1 /\ Len(jobs) \in Nat
       /\ \A i \in 1 .. Len(jobs) + 1 :
            e[i] = IF i <= Len(jobs) THEN jobs[i] ELSE one[i - Len(jobs)]
  <2>1. /\ e \in Seq(JobSet) /\ Len(e) = Len(jobs) + Len(one)
        /\ \A i \in 1 .. Len(jobs) + Len(one) :
             e[i] = IF i <= Len(jobs) THEN jobs[i] ELSE one[i - Len(jobs)]
    BY <1>3, <1>9, <1>10, ConcatProperties, Zenon
  <2> QED
    BY <1>3, <1>9, <2>1
<1>13. ASSUME NEW i \in 1 .. Len(e) PROVE ~IsNodeJob(e[i])
  <2>1. CASE i <= Len(jobs)
    <3>1. i \in 1 .. Len(jobs) /\ e[i] = jobs[i]
      BY <1>12, <2>1
    <3> QED
      BY <1>3, <3>1 DEF IsNodeJob, NodeTypes
  <2>2. CASE ~(i <= Len(jobs))
    <3>1. i - Len(jobs) \in 1 .. Len(one) /\ e[i] = one[i - Len(jobs)]
      BY <1>9, <1>12, <2>2
    <3> QED
      BY <1>7, <1>9, <3>1 DEF IsNodeJob, NodeTypes
  <2> QED
    BY <2>1, <2>2
<1> QED
  BY <1>11, <1>12, <1>13

LEMMA RunVerdict ==
  ASSUME IInv, VInv, Run
  PROVE  VInv'
<1>1. Execute /\ UNCHANGED <<program, told, bytecode, initializers>>
  BY DEF Run, Execute
<1>2. /\ Stepping /\ queue # <<>> /\ queue \in Seq(JobSet)
      /\ queue[1].type = "EXECUTE"
  BY <1>1, ExecuteStep DEF IInv
<1>3. ~IsNodeJob(queue[1])
  BY <1>2 DEF IsNodeJob, NodeTypes
<1>4. Grows
  BY RunKeeps DEF Keeps
<1>5. CASE Running
  <2>1. ast' = ast /\ queue' = queue /\ reported_errors' = reported_errors
    BY <1>5 DEF Running, Continue, pipelineVars
  <2> QED
    BY <1>1, <2>1, TablesSettled, Standing
<1>6. CASE Storing
  <2>1. PICK d \in DOMAIN ast, word \in Words : ast' = Stored(d, word)
    BY <1>6 DEF Storing
  <2>2. queue' = queue /\ reported_errors' = reported_errors
    BY <1>6 DEF Storing, pipelineVars
  <2>3. Settled
    BY <2>1, ValuesSettle DEF IInv
  <2> QED
    BY <1>4, <2>2, <2>3, Standing
<1>7. CASE Waiting
  <2>1. PICK m, d : d \in DOMAIN ast /\ MachineFine(m) /\ Await(m, d)
    BY <1>7 DEF Waiting
  <2>2. PICK begins : begins = (InitializersOf(d) # {})
    OBVIOUS
  <2>3. ast' = Awaited(d, begins) /\ reported_errors' = reported_errors
    BY <2>1, <2>2 DEF Await, Awaited
  <2>4. Settled
    BY <2>1, <2>3, ValuesSettle DEF IInv
  <2>5. PICK e \in Seq(JobSet) :
          queue' = Tail(queue) \o e /\ \A i \in 1 .. Len(e) : ~IsNodeJob(e[i])
    BY <1>2, <2>1, WaitingEmits
  <2> QED
    BY <1>2, <1>3, <1>4, <2>3, <2>4, <2>5, NoNodeStep
<1>8. CASE Finishing
  <2>1. Settled
    <3>1. CASE ast' = ast
      BY <3>1 DEF Settled
    <3>2. CASE \E d \in DOMAIN ast : ast' = Finished(d)
      BY <3>2, ValuesSettle DEF IInv
    <3> QED
      BY <1>8, <3>1, <3>2 DEF Finishing
  <2>2. Tail(queue) \in Seq(JobSet)
    BY <1>2, HeadTailProperties
  <2>3. queue' = Tail(queue) /\ reported_errors' = reported_errors
    BY <1>8, <2>2, ConcatEmptySeq DEF Finishing, Completed
  <2> QED
    BY <1>2, <1>3, <1>4, <2>1, <2>3, TakenStep
<1>9. CASE Derail
  <2>1. ast' = ast /\ queue' = queue /\ reported_errors' = reported_errors
    BY <1>9 DEF Derail, Crashed
  <2> QED
    BY <1>1, <2>1, TablesSettled, Standing
<1> QED
  BY <1>2, <1>5, <1>6, <1>7, <1>8, <1>9 DEF Stepping

-----------------------------------------------------------------------------
(* The steps that are about a node. *)

LEMMA OptimizeVerdict ==
  ASSUME IInv, VInv, Optimize
  PROVE  VInv'
<1>1. /\ queue # <<>> /\ queue[1].type = "OPTIMIZE" /\ Job = queue[1]
      /\ 1 \in 1 .. Len(queue) /\ Taking("OPTIMIZE")
  BY HeadFacts DEF Optimize, IInv
<1>2. PICK p : p = Job.node
  OBVIOUS
<1>3. p \in DOMAIN ast /\ p \in Seq(Int)
  BY <1>1, <1>2, NodeTaken DEF NodeTypes
<1>4. ast[p].class # NoType
  BY <1>1, <1>2 DEF VInv, TypedFirst, NodeJobs, NodeTypes
<1>5. ast' = ast
  BY DEF Optimize
<1>6. PICK job : job = NodeJob("BYTECODE", p)
  OBVIOUS
<1>7. job \in JobSet /\ IsNodeJob(job) /\ job.node = p
  BY <1>3, <1>6 DEF JobSet, NodeJob, IsNodeJob, NodeTypes
<1>8. PICK e : e = <<job>>
  OBVIOUS
<1>9. e \in Seq(JobSet) /\ Len(e) = 1 /\ e[1] = job /\ \A i \in 1 .. Len(e) : e[i] = job
  BY <1>7, <1>8
<1>10. queue' = Tail(queue) \o e /\ reported_errors' = reported_errors
  BY <1>2, <1>6, <1>8 DEF Optimize, Completed
<1>11. HasJob(e, p)
  BY <1>7, <1>9 DEF HasJob
<1>12. HandsOnTyped(e)'
  <2>1. NoType' = NoType
    BY DEF NoType
  <2> QED
    BY <1>4, <1>5, <1>7, <1>9, <2>1 DEF HandsOnTyped
<1>13. Settled /\ Grows
  BY TablesSettled DEF Optimize
<1>14. queue[1].node = p
  BY <1>1, <1>2
<1>15. HasJob(e, queue[1].node)
  BY <1>11, <1>14
<1> QED
  BY <1>1, <1>9, <1>10, <1>12, <1>13, <1>15, CarriedSettled

(* A node that leaves BYTECODE for good has its bytecode, or is a           *)
(* declaration with a class, which needs none.                              *)
LEMMA GenerateVerdict ==
  ASSUME IInv, VInv, HandlersKeep, Generate
  PROVE  VInv'
<1>1. /\ queue # <<>> /\ queue \in Seq(JobSet) /\ queue[1].type = "BYTECODE"
      /\ Job = queue[1] /\ queue[1] \in JobSet
      /\ 1 \in 1 .. Len(queue) /\ Taking("BYTECODE")
  BY HeadFacts DEF Generate, IInv
<1>2. PICK p : p = Job.node
  OBVIOUS
<1>3. p \in DOMAIN ast /\ ast[p].code = -1 /\ queue[1].node = p
  BY <1>1, <1>2, NodeTaken DEF NodeTypes
<1>4. ast[p].class # NoType
  BY <1>1, <1>3 DEF VInv, TypedFirst, NodeJobs, NodeTypes
<1>5. Grows
  BY GenerateKeeps DEF Keeps
<1>6. PICK unit : unit = BytecodeOf(ast, p)
  OBVIOUS
<1>7. \/ /\ ast[p].kind = "DECLARATION" /\ Completed(<<>>)
         /\ UNCHANGED <<ast, bytecode, initializers>>
      \/ Crashed /\ UNCHANGED <<ast, bytecode, initializers>>
      \/ Deferred(<<>>) /\ UNCHANGED <<ast, bytecode, initializers>>
      \/ /\ Completed(<<>>)
         /\ ast' = Coded(p, Len(bytecode))
              \/ ast' = CodedAndDeclared(p, Len(bytecode), ast[p].lhs)
  BY <1>2 DEF Generate, Coded, CodedAndDeclared
<1>8. program' = program
  BY DEF Generate
<1>9. Tail(queue) \in Seq(JobSet) /\ Tail(queue) \o <<>> = Tail(queue)
  BY <1>1, HeadTailProperties, ConcatEmptySeq
<1>10. PICK none : none = <<>>
  OBVIOUS
<1>11. none \in Seq(JobSet) /\ \A i : i \notin 1 .. Len(none)
  BY <1>10
<1>12. HandsOnTyped(none)'
  BY <1>11 DEF HandsOnTyped
<1>13. ASSUME Completed(<<>>), Settled, Handled(ast'[p]) PROVE VInv'
  <2>1. queue' = Tail(queue) \o none /\ reported_errors' = reported_errors
    BY <1>10, <1>13 DEF Completed
  <2>2. Handled(ast'[queue[1].node])
    BY <1>3, <1>13
  <2> QED
    BY <1>1, <1>5, <1>11, <1>12, <1>13, <2>1, <2>2, CarriedSettled
<1>14. CASE /\ ast[p].kind = "DECLARATION" /\ Completed(<<>>)
            /\ UNCHANGED <<ast, bytecode, initializers>>
  <2>1. Settled
    BY <1>8, <1>14, TablesSettled
  <2>2. Handled(ast'[p])
    BY <1>4, <1>14 DEF Handled
  <2> QED
    BY <1>13, <1>14, <2>1, <2>2
<1>15. CASE Crashed /\ UNCHANGED <<ast, bytecode, initializers>>
  BY <1>5, <1>8, <1>15, TablesSettled, Standing DEF Crashed
<1>16. CASE Deferred(<<>>) /\ UNCHANGED <<ast, bytecode, initializers>>
  <2>1. Settled
    BY <1>8, <1>16, TablesSettled
  <2>2. PICK e : e = <<Job>>
    OBVIOUS
  <2>3. /\ e \in Seq(JobSet) /\ Len(e) = 1 /\ e[1] = Job
        /\ \A i \in 1 .. Len(e) : e[i] = Job
    BY <1>1, <2>2
  <2>4. queue' = Tail(queue) \o e /\ reported_errors' = reported_errors
    BY <1>9, <1>16, <2>2 DEF Deferred
  <2>5. IsNodeJob(Job)
    BY <1>1 DEF IsNodeJob, NodeTypes
  <2>6. HasJob(e, queue[1].node)
    BY <1>1, <2>3, <2>5 DEF HasJob
  <2>7. HandsOnTyped(e)'
    <3>1. NoType' = NoType /\ ast' = ast
      BY <1>16 DEF NoType
    <3> QED
      BY <1>2, <1>4, <2>3, <3>1 DEF HandsOnTyped
  <2> QED
    BY <1>1, <1>5, <2>1, <2>3, <2>4, <2>6, <2>7, CarriedSettled
<1>17. CASE /\ Completed(<<>>)
            /\ ast' = Coded(p, Len(bytecode))
                 \/ ast' = CodedAndDeclared(p, Len(bytecode), ast[p].lhs)
  <2>1. PICK n, d : n = Len(bytecode) /\ d = ast[p].lhs
    OBVIOUS
  <2>2. /\ Touched
        /\ \A q \in DOMAIN ast :
             /\ ast'[q].code = IF q = p THEN n ELSE ast[q].code
             /\ ast'[q].kind = ast[q].kind /\ ast'[q].class = ast[q].class
    <3>1. NodesFine /\ ast[p].code = -1
      BY <1>3 DEF IInv
    <3>2. ast' = Coded(p, n) \/ ast' = CodedAndDeclared(p, n, d)
      BY <1>17, <2>1
    <3> QED
      BY <1>3, <3>1, <3>2, GeneratedNodes
  <2>3. Settled
    BY <2>2 DEF Settled, Touched
  <2>4. n \in Nat
    BY <2>1 DEF IInv, UnitsFine
  <2>5. Handled(ast'[p])
    BY <1>3, <2>2, <2>4 DEF Handled
  <2> QED
    BY <1>13, <1>17, <2>3, <2>5
<1> QED
  BY <1>7, <1>14, <1>15, <1>16, <1>17

-----------------------------------------------------------------------------
(* Parsing. *)

(* As many nodes as a file has items that are nodes, each number is one's.  *)
LEMMA ItemsFound ==
  ASSUME NEW terms, Len(terms) \in Nat,
         NEW i \in 1 .. NodesUpTo(terms, Len(terms))
  PROVE  \E n \in 1 .. Len(terms) : terms[n].k # "LOAD" /\ NodesUpTo(terms, n) = i
<1>1. PICK m \in Nat : m = Len(terms)
  OBVIOUS
<1>2. PICK S : S = {j \in 1 .. m : terms[j].k # "LOAD"}
  OBVIOUS
<1>3. S \in SUBSET (1 .. m) /\ i \in 1 .. Cardinality(S)
  BY <1>1, <1>2 DEF NodesUpTo
<1>4. PICK n : n = NthOf(S, i)
  OBVIOUS
<1>5. n \in S /\ Cardinality({j \in S : j <= n}) = i
  BY <1>1, <1>3, <1>4, NthIsThere
<1>6. n \in 1 .. m /\ terms[n].k # "LOAD"
  BY <1>2, <1>5
<1>7. {j \in S : j <= n} = {j \in 1 .. n : terms[j].k # "LOAD"}
  BY <1>1, <1>2, <1>6
<1>8. NodesUpTo(terms, n) = i
  BY <1>5, <1>7 DEF NodesUpTo
<1> QED
  BY <1>1, <1>6, <1>8

LEMMA ParseVerdict ==
  ASSUME IInv, VInv, HandlersKeep, Parse
  PROVE  VInv'
<1>1. /\ queue # <<>> /\ queue[1].type = "PARSE" /\ JobFine(Job)
      /\ Job = queue[1] /\ Taking("PARSE")
  BY HeadFacts DEF Parse, IInv
<1>2. PICK terms : terms = program[Job.file]
  OBVIOUS
<1>3. PICK f : f = FilesParsed + 1
  OBVIOUS
<1>4. PICK new : new = ParsedFile(terms, f)
  OBVIOUS
<1>5. PICK e : e = ItemJobs(terms, f)
  OBVIOUS
<1>6. /\ DOMAIN new \subseteq Seq(Int) /\ DOMAIN new \cap DOMAIN ast = {}
      /\ <<f>> \in DOMAIN new
  BY <1>1, <1>2, <1>3, <1>4 DEF HandlersKeep, ParserContract
<1>7. \A p \in DOMAIN new :
        /\ new[p].kind = "FILE" => p = <<f>>
        /\ new[p].kind = "PROCEDURE" => new[p].class = NoType
        /\ p = <<f>> \/ Parent(p) \in DOMAIN new
        /\ Parent(p) = <<f>> =>
             \E i \in 1 .. NodesUpTo(terms, Len(terms)) : p = Child(<<f>>, i)
  <2>1. ItemsOnly(new, <<f>>, NodesUpTo(terms, Len(terms)))
    BY <1>1, <1>2, <1>3, <1>4 DEF HandlersKeep, ItemsContract
  <2> QED
    BY <2>1 DEF ItemsOnly
<1>8. ast' = WithNodes(ast, new)
  BY <1>2, <1>3, <1>4 DEF Parse
<1>9. /\ DOMAIN ast' = DOMAIN ast \cup DOMAIN new
      /\ \A p \in DOMAIN new : ast'[p] = new[p]
      /\ \A p \in DOMAIN ast : ast'[p] = ast[p]
  BY <1>6, <1>8 DEF WithNodes
<1>10. e \in Seq(JobSet) /\ Completed(e)
  BY <1>2, <1>3, <1>5, ParsedJobs
<1>11. Grows
  BY ParseKeeps DEF Keeps
<1>12. Global \in DOMAIN ast
  BY DEF IInv, NodesFine
<1>13. Parent(<<f>>) = Global
  <2>1. <<f>> \in Seq(Int)
    BY <1>6
  <2> QED
    BY <2>1 DEF Parent, Global
<1>14. Rooted'
  <2>1. ASSUME NEW p \in DOMAIN ast' PROVE Parent(p) \in DOMAIN ast'
    <3>1. CASE p \in DOMAIN ast
      BY <1>9, <3>1 DEF VInv, Rooted
    <3>2. CASE p \in DOMAIN new
      BY <1>7, <1>9, <1>12, <1>13, <3>2
    <3> QED
      BY <1>9, <2>1, <3>1, <3>2
  <2>2. ast'[Global].kind = "GLOBAL" /\ Global' = Global
    BY <1>9, <1>12 DEF VInv, Rooted, Global
  <2> QED
    BY <2>1, <2>2, PathsStay DEF Rooted
<1>15. /\ Len(terms) \in Nat /\ Len(e) = Len(terms)
       /\ \A n \in 1 .. Len(terms) : e[n] = ItemJob(terms, f, n)
  <2>1. Job.file \in DOMAIN program /\ program \in Programs
    BY <1>1 DEF JobFine, IInv, Flags
  <2>2. terms \in Seq({terms[i] : i \in DOMAIN terms})
    BY <1>2, <2>1, ProgramsAssumption
  <2>3. Len(terms) \in Nat
    BY <2>2
  <2> QED
    BY <1>5, <2>3 DEF ItemJobs
<1>16. ASSUME NEW q, NEW i \in 1 .. NodesUpTo(terms, Len(terms)), q = Child(<<f>>, i)
       PROVE  HasJob(e, q)
  <2>1. PICK n \in 1 .. Len(terms) : terms[n].k # "LOAD" /\ NodesUpTo(terms, n) = i
    BY <1>15, ItemsFound
  <2>2. PICK type \in {"ABORT", "TYPECHECK"} : e[n] = NodeJob(type, q)
    <3>1. ItemJob(terms, f, n) =
            NodeJob(IF terms[n].k = "RECOVERY" THEN "ABORT" ELSE "TYPECHECK", q)
      BY <1>16, <2>1 DEF ItemJob
    <3> QED
      BY <1>15, <3>1
  <2>3. IsNodeJob(e[n]) /\ e[n].node = q
    BY <2>2 DEF NodeJob, IsNodeJob, NodeTypes
  <2> QED
    BY <1>15, <2>3 DEF HasJob
<1>17. ASSUME NEW q \in DOMAIN ast', Wanted(q)' PROVE Wanted(q) \/ HasJob(e, q)
  <2>1. PICK p : p = Parent(q)
    OBVIOUS
  <2>2. /\ p \in DOMAIN ast'
        /\ \/ ast'[p].kind = "FILE"
           \/ /\ ast'[p].kind = "PROCEDURE" /\ ast'[p].class # NoType
              /\ q = Child(p, 1)
    <3>1. Parent(q)' = p
      BY <2>1, PathsStay
    <3>2. Child(p, 1)' = Child(p, 1) /\ NoType' = NoType
      BY DEF Child, NoType
    <3> QED
      BY <1>17, <2>1, <3>1, <3>2 DEF Wanted, Parent, Child
  <2>3. CASE q \in DOMAIN ast
    <3>1. p \in DOMAIN ast
      BY <2>1, <2>3 DEF VInv, Rooted
    <3> QED
      BY <1>9, <2>1, <2>2, <2>3, <3>1 DEF Wanted
  <2>4. CASE q = <<f>>
    <3>1. p = Global /\ ast'[p].kind = "GLOBAL"
      BY <1>9, <1>12, <1>13, <2>1, <2>4 DEF VInv, Rooted
    <3> QED
      BY <2>2, <3>1
  <2>5. CASE q \in DOMAIN new /\ q # <<f>>
    <3>1. p \in DOMAIN new /\ ast'[p] = new[p]
      BY <1>7, <1>9, <2>1, <2>5
    <3>2. new[p].kind = "FILE"
      BY <1>7, <2>2, <3>1
    <3>3. p = <<f>>
      BY <1>7, <3>1, <3>2
    <3>4. \E i \in 1 .. NodesUpTo(terms, Len(terms)) : q = Child(<<f>>, i)
      BY <1>7, <2>1, <2>5, <3>3
    <3> QED
      BY <1>16, <3>4
  <2> QED
    BY <1>9, <2>3, <2>4, <2>5
<1>18. HandsOnTyped(e)'
  <2>1. ASSUME NEW n \in 1 .. Len(e) PROVE e[n].type \notin {"OPTIMIZE", "BYTECODE"}
    <3>1. e[n] = ItemJob(terms, f, n)
      BY <1>15
    <3>2. CASE terms[n].k = "LOAD"
      BY <3>1, <3>2 DEF ItemJob, FileJob
    <3>3. CASE terms[n].k # "LOAD"
      BY <3>1, <3>3 DEF ItemJob, NodeJob
    <3> QED
      BY <3>2, <3>3
  <2> QED
    BY <2>1 DEF HandsOnTyped
<1>19. ~IsNodeJob(queue[1]) /\ queue' = Tail(queue) \o e /\ reported_errors' = reported_errors
  BY <1>1, <1>10 DEF IsNodeJob, NodeTypes, Completed
<1> QED
  BY <1>1, <1>10, <1>11, <1>14, <1>17, <1>18, <1>19, Carried

-----------------------------------------------------------------------------
(* Typechecking. *)

LEMMA ConcatJobs ==
  ASSUME NEW a \in Seq(JobSet), NEW b \in Seq(JobSet)
  PROVE  /\ a \o b \in Seq(JobSet)
         /\ \A q : HasJob(a, q) \/ HasJob(b, q) => HasJob(a \o b, q)
         /\ HandsOnTyped(a)' /\ HandsOnTyped(b)' => HandsOnTyped(a \o b)'
<1>1. PICK e : e = a \o b
  OBVIOUS
<1>2. PICK n, m : n = Len(a) /\ m = Len(b) /\ n \in Nat /\ m \in Nat
  OBVIOUS
<1>3. /\ e \in Seq(JobSet) /\ Len(e) = n + m
      /\ \A i \in 1 .. n + m : e[i] = IF i <= n THEN a[i] ELSE b[i - n]
  <2>1. /\ e \in Seq(JobSet) /\ Len(e) = Len(a) + Len(b)
        /\ \A i \in 1 .. Len(a) + Len(b) :
             e[i] = IF i <= Len(a) THEN a[i] ELSE b[i - Len(a)]
    BY <1>1, ConcatProperties, Zenon
  <2> QED
    BY <1>2, <2>1
<1>4. \A i \in 1 .. n : i \in 1 .. n + m /\ e[i] = a[i]
  BY <1>2, <1>3
<1>5. ASSUME NEW i \in 1 .. m PROVE \E k \in 1 .. n + m : e[k] = b[i]
  <2>1. PICK k : k = i + n
    OBVIOUS
  <2>2. k \in 1 .. n + m /\ ~(k <= n) /\ k - n = i
    BY <1>2, <2>1
  <2>3. e[k] = b[i]
    BY <1>3, <2>2
  <2> QED
    BY <2>2, <2>3
<1>6. ASSUME NEW i \in 1 .. n + m
      PROVE  (\E k \in 1 .. n : e[i] = a[k]) \/ (\E k \in 1 .. m : e[i] = b[k])
  <2>1. (i <= n /\ i \in 1 .. n) \/ (~(i <= n) /\ i - n \in 1 .. m)
    BY <1>2
  <2> QED
    BY <1>3, <2>1
<1>7. \A q : HasJob(a, q) \/ HasJob(b, q) => HasJob(e, q)
  <2>1. ASSUME NEW q, HasJob(a, q) PROVE HasJob(e, q)
    <3>1. PICK i \in 1 .. n : IsNodeJob(a[i]) /\ a[i].node = q
      BY <1>2, <2>1 DEF HasJob
    <3>2. i \in 1 .. Len(e) /\ e[i] = a[i]
      BY <1>3, <1>4
    <3> QED
      BY <3>1, <3>2 DEF HasJob
  <2>2. ASSUME NEW q, HasJob(b, q) PROVE HasJob(e, q)
    <3>1. PICK i \in 1 .. m : IsNodeJob(b[i]) /\ b[i].node = q
      BY <1>2, <2>2 DEF HasJob
    <3>2. PICK k \in 1 .. Len(e) : e[k] = b[i]
      BY <1>3, <1>5
    <3> QED
      BY <3>1, <3>2 DEF HasJob
  <2> QED
    BY <2>1, <2>2
<1>8. ASSUME HandsOnTyped(a)', HandsOnTyped(b)' PROVE HandsOnTyped(e)'
  <2>1. ASSUME NEW i \in 1 .. Len(e), NEW job, job = e[i],
               job.type \in {"OPTIMIZE", "BYTECODE"}
        PROVE  ast'[job.node].class # NoType'
    <3>1. (\E k \in 1 .. n : job = a[k]) \/ (\E k \in 1 .. m : job = b[k])
      BY <1>3, <1>6, <2>1
    <3> QED
      BY <1>2, <1>8, <2>1, <3>1 DEF HandsOnTyped
  <2> QED
    BY <2>1 DEF HandsOnTyped
<1> QED
  BY <1>1, <1>3, <1>7, <1>8

(* Whatever has become something to compile by a try was emitted by it.     *)
LEMMA BodiesWanted ==
  ASSUME IInv, Rooted, NEW s, ast' = s.ast, Touched, NewBodies(s), AllBodies(s),
         NEW bodies, bodies = [i \in DOMAIN s.out |-> NodeJob("TYPECHECK", s.out[i])]
  PROVE  /\ Rooted'
         /\ \A q \in DOMAIN ast' : Wanted(q)' => Wanted(q) \/ HasJob(bodies, q)
         /\ HandsOnTyped(bodies)'
<1>1. DOMAIN ast' = DOMAIN ast /\ \A p \in DOMAIN ast : ast'[p].kind = ast[p].kind
  BY DEF Touched, NodeTouched, NodeKept
<1>2. Global \in DOMAIN ast
  BY DEF IInv, NodesFine
<1>3. Rooted'
  BY <1>1, <1>2 DEF Rooted, Global, Parent
<1>4. PICK n \in Nat : n = Len(s.out) /\ DOMAIN s.out = 1 .. n /\ Len(bodies) = n
  <2>1. PICK out : out = s.out
    OBVIOUS
  <2>2. out \in Seq(DOMAIN ast)
    BY <2>1 DEF NewBodies
  <2>3. bodies = [i \in 1 .. Len(out) |-> bodies[i]] /\ Len(out) \in Nat
    BY <2>1, <2>2
  <2> QED
    BY <2>1, <2>2, <2>3
<1>5. \A i \in 1 .. n : bodies[i] = NodeJob("TYPECHECK", s.out[i])
  BY <1>4
<1>6. \A i \in 1 .. n :
        bodies[i].type = "TYPECHECK" /\ bodies[i].node = s.out[i]
  <2>1. ASSUME NEW i \in 1 .. n, NEW q, q = s.out[i], NEW job, job = bodies[i]
        PROVE  job.type = "TYPECHECK" /\ job.node = q
    <3>1. job = NodeJob("TYPECHECK", q)
      BY <1>5, <2>1
    <3> QED
      BY <3>1 DEF NodeJob
  <2> QED
    BY <2>1
<1>7. HandsOnTyped(bodies)'
  BY <1>4, <1>6 DEF HandsOnTyped
<1>8. ASSUME NEW q \in DOMAIN ast', Wanted(q)'
      PROVE  Wanted(q) \/ HasJob(bodies, q)
  <2>1. PICK p : p = Parent(q)
    OBVIOUS
  <2>2. p \in DOMAIN ast /\ q \in DOMAIN ast
    BY <1>1, <2>1 DEF Rooted
  <2>3. \/ ast[p].kind = "FILE"
        \/ /\ ast[p].kind = "PROCEDURE" /\ ast'[p].class # NoType
           /\ q = Child(p, 1)
    <3>1. Parent(q)' = p
      BY <2>1, PathsStay
    <3>2. \/ ast'[p].kind = "FILE"
          \/ /\ ast'[p].kind = "PROCEDURE" /\ ast'[p].class # NoType
             /\ q = Child(p, 1)
      <4>1. Child(p, 1)' = Child(p, 1) /\ NoType' = NoType
        BY DEF Child, NoType
      <4> QED
        BY <1>8, <2>1, <3>1, <4>1 DEF Wanted, Parent, Child
    <3> QED
      BY <1>1, <2>2, <3>2
  <2>4. CASE ast[p].kind = "FILE" \/ ast[p].class # NoType
    BY <2>1, <2>2, <2>3, <2>4 DEF Wanted
  <2>5. CASE ast[p].kind # "FILE" /\ ast[p].class = NoType
    <3>1. /\ ast[p].kind = "PROCEDURE" /\ s.ast[p].class # NoType
          /\ q = Child(p, 1)
      BY <2>3, <2>5
    <3>2. PICK i \in 1 .. Len(s.out) : s.out[i] = q
      BY <2>2, <2>5, <3>1 DEF AllBodies
    <3>3. i \in 1 .. Len(bodies) /\ IsNodeJob(bodies[i]) /\ bodies[i].node = q
      BY <1>4, <1>6, <3>2 DEF IsNodeJob, NodeTypes
    <3> QED
      BY <3>3 DEF HasJob
  <2> QED
    BY <2>4, <2>5
<1> QED
  BY <1>3, <1>7, <1>8

(* The bodies are put into the queue, and behind them the node's next job.  *)
LEMMA BodiesVerdict ==
  ASSUME IInv, VInv, Grows, Taking("TYPECHECK"),
         NEW s, ast' = s.ast, Touched, NewBodies(s), AllBodies(s),
         NEW bodies, bodies = [i \in DOMAIN s.out |-> NodeJob("TYPECHECK", s.out[i])],
         NEW rest \in Seq(JobSet), HasJob(rest, Job.node), HandsOnTyped(rest)',
         queue' = Tail(queue) \o (bodies \o rest), reported_errors' = reported_errors
  PROVE  VInv'
<1>1. PICK e : e = bodies \o rest
  OBVIOUS
<1>2. queue # <<>> /\ Job = queue[1]
  BY HeadFacts DEF IInv
<1>3. bodies \in Seq(JobSet)
  BY BodiesAreJobs
<1>4. /\ Rooted' /\ HandsOnTyped(bodies)'
      /\ \A q \in DOMAIN ast' : Wanted(q)' => Wanted(q) \/ HasJob(bodies, q)
  BY BodiesWanted DEF VInv
<1>5. /\ e \in Seq(JobSet) /\ HandsOnTyped(e)'
      /\ \A q : HasJob(bodies, q) \/ HasJob(rest, q) => HasJob(e, q)
  BY <1>1, <1>3, <1>4, ConcatJobs
<1>6. HasJob(e, queue[1].node)
  BY <1>2, <1>5
<1>7. \A q \in DOMAIN ast' : Wanted(q)' => Wanted(q) \/ HasJob(e, q)
  BY <1>4, <1>5
<1>8. queue' = Tail(queue) \o e
  BY <1>1
<1> QED
  BY <1>2, <1>4, <1>5, <1>6, <1>7, <1>8, Carried

LEMMA TypecheckVerdict ==
  ASSUME IInv, VInv, HandlersKeep, TypecheckJob
  PROVE  VInv'
<1>1. /\ queue # <<>> /\ queue \in Seq(JobSet) /\ Taking("TYPECHECK")
      /\ Job \in JobSet /\ Job.type = "TYPECHECK"
      /\ UNCHANGED <<program, initializers>>
  BY HeadFacts DEF TypecheckJob, IInv
<1>2. PICK p : p = Job.node
  OBVIOUS
<1>3. p \in DOMAIN ast /\ p \in Seq(Int)
  BY <1>1, <1>2, NodeTaken DEF NodeTypes
<1>4. PICK heap, s, bodies, next, main :
       /\ heap \in Heaps
       /\ s = TypecheckNode(ast, p, heap)
       /\ bodies = [i \in DOMAIN s.out |-> NodeJob("TYPECHECK", s.out[i])]
       /\ next = NodeJob(IF s.ast[p].error THEN "ABORT" ELSE "OPTIMIZE", p)
       /\ main = s.ast[p].lhs
       /\ IF s.crash
             THEN Crashed /\ UNCHANGED <<ast, bytecode>>
           ELSE IF ~s.ok
             THEN Deferred(bodies) /\ ast' = s.ast /\ UNCHANGED bytecode
           ELSE /\ ast' = s.ast
                /\ IF IsMain(s, p)
                     THEN /\ bytecode' = [bytecode EXCEPT ![1][2] = Pointer(main)]
                          /\ Completed(bodies \o
                                       <<next, ExecuteJob(Machine(0, main))>>)
                     ELSE /\ Completed(Append(bodies, next))
                          /\ UNCHANGED bytecode
  BY <1>2 DEF TypecheckJob
<1>5. Grows
  BY TypecheckKeeps DEF Keeps
<1>6. CASE s.crash
  <2>1. UNCHANGED <<ast, bytecode>> /\ queue' = queue /\ reported_errors' = reported_errors
    BY <1>4, <1>6 DEF Crashed
  <2> QED
    BY <1>1, <2>1, TablesSettled, Standing
<1>7. CASE ~s.crash
  <2>1. /\ Touched /\ NewBodies(s) /\ ast' = s.ast
        /\ ast[p].kind = "ASSIGNMENT" => s.ast[p].lhs # NoNode
    BY <1>1, <1>2, <1>4, <1>7, TypedNodes
  <2>2. /\ AllBodies(s)
        /\ s.ok /\ ~s.ast[p].error => s.ast[p].class # NoType
    BY <1>1, <1>2, <1>4, <1>7 DEF HandlersKeep, BodiesContract
  <2>3. bodies \in Seq(JobSet)
    BY <1>4, <2>1, BodiesAreJobs
  <2>4. ASSUME NEW rest \in Seq(JobSet), queue' = Tail(queue) \o (bodies \o rest),
               HasJob(rest, p), HandsOnTyped(rest)', reported_errors' = reported_errors
        PROVE  VInv'
    BY <1>1, <1>2, <1>4, <1>5, <2>1, <2>2, <2>4, BodiesVerdict
  <2>5. NoType' = NoType
    BY DEF NoType
  <2>6. CASE ~s.ok
    <3>1. PICK rest : rest = <<Job>>
      OBVIOUS
    <3>2. /\ rest \in Seq(JobSet) /\ Len(rest) = 1 /\ rest[1] = Job
          /\ \A i \in 1 .. Len(rest) : rest[i] = Job
      BY <1>1, <3>1
    <3>3. queue' = (Tail(queue) \o bodies) \o rest /\ reported_errors' = reported_errors
      BY <1>4, <1>7, <2>6, <3>1 DEF Deferred
    <3>4. queue' = Tail(queue) \o (bodies \o rest)
      BY <1>1, <2>3, <3>2, <3>3, PutBehind
    <3>5. IsNodeJob(Job)
      BY <1>1 DEF IsNodeJob, NodeTypes
    <3>6. HasJob(rest, p)
      BY <1>2, <3>2, <3>5 DEF HasJob
    <3>7. HandsOnTyped(rest)'
      BY <1>1, <3>2 DEF HandsOnTyped
    <3> QED
      BY <2>4, <3>2, <3>3, <3>4, <3>6, <3>7
  <2>7. CASE s.ok
    <3>1. PICK type \in {"ABORT", "OPTIMIZE"} :
            type = IF s.ast[p].error THEN "ABORT" ELSE "OPTIMIZE"
      OBVIOUS
    <3>2. next = NodeJob(type, p)
      BY <1>4, <3>1
    <3>3. /\ next \in JobSet /\ IsNodeJob(next) /\ next.node = p /\ next.type = type
      BY <1>3, <3>1, <3>2 DEF NodeJob, JobSet, NodeTypes, IsNodeJob
    <3>4. type = "OPTIMIZE" => ast'[p].class # NoType
      BY <2>1, <2>2, <2>7, <3>1
    <3>5. CASE ~IsMain(s, p)
      <4>1. PICK rest : rest = <<next>>
        OBVIOUS
      <4>2. /\ rest \in Seq(JobSet) /\ Len(rest) = 1 /\ rest[1] = next
            /\ \A i \in 1 .. Len(rest) : rest[i] = next
        BY <3>3, <4>1
      <4>3. Completed(Append(bodies, next))
        BY <1>4, <1>7, <2>7, <3>5
      <4>4. Append(bodies, next) = bodies \o rest
        BY <2>3, <3>3, <4>1, AppendIsConcat
      <4>5. /\ queue' = Tail(queue) \o (bodies \o rest)
            /\ reported_errors' = reported_errors
        BY <4>3, <4>4 DEF Completed
      <4>6. HasJob(rest, p)
        BY <3>3, <4>2 DEF HasJob
      <4>7. HandsOnTyped(rest)'
        BY <2>5, <3>3, <3>4, <4>2 DEF HandsOnTyped
      <4> QED
        BY <2>4, <4>2, <4>5, <4>6, <4>7
    <3>6. CASE IsMain(s, p)
      <4>1. PICK run : run = ExecuteJob(Machine(0, main))
        OBVIOUS
      <4>2. PICK rest : rest = <<next, run>>
        OBVIOUS
      <4>3. main \in Seq(Int)
        <5>1. s.ast[p].kind = "ASSIGNMENT"
          BY <3>6 DEF IsMain
        <5>2. NodeTouched(ast[p], ast'[p])
          BY <1>3, <2>1 DEF Touched
        <5>3. main \in DOMAIN ast \cup {NoNode}
          BY <1>4, <2>1, <5>2 DEF NodeTouched
        <5>4. NoNode \in Seq(Int)
          BY DEF NoNode
        <5> QED
          BY <5>3, <5>4 DEF IInv, NodesFine
      <4>4. run \in JobSet /\ run.type = "EXECUTE"
        BY <4>1, <4>3 DEF ExecuteJob, Machine, Machines, JobSet, NoFrame
      <4>5. /\ rest \in Seq(JobSet) /\ Len(rest) = 2 /\ rest[1] = next
            /\ \A i \in 1 .. Len(rest) : rest[i] = next \/ rest[i] = run
        BY <3>3, <4>2, <4>4
      <4>6. /\ queue' = Tail(queue) \o (bodies \o rest)
            /\ reported_errors' = reported_errors
        BY <1>4, <1>7, <2>7, <3>6, <4>1, <4>2 DEF Completed
      <4>7. HasJob(rest, p)
        BY <3>3, <4>5 DEF HasJob
      <4>8. HandsOnTyped(rest)'
        <5>1. ASSUME NEW i \in 1 .. Len(rest), NEW job, job = rest[i],
                     job.type \in {"OPTIMIZE", "BYTECODE"}
              PROVE  ast'[job.node].class # NoType
          <6>1. job = next
            BY <4>4, <4>5, <5>1
          <6> QED
            BY <3>1, <3>3, <3>4, <5>1, <6>1
        <5> QED
          BY <2>5, <5>1 DEF HandsOnTyped
      <4> QED
        BY <2>4, <4>5, <4>6, <4>7, <4>8
    <3> QED
      BY <3>5, <3>6
  <2> QED
    BY <2>6, <2>7
<1> QED
  BY <1>6, <1>7

LEMMA VInvStep ==
  ASSUME IInv, VInv, HandlersKeep, [Next]_vars
  PROVE  VInv'
<1>1. CASE Halt \/ UNCHANGED vars
  <2>1. /\ UNCHANGED <<program, ast, bytecode, initializers>> /\ queue' = queue
        /\ reported_errors' = reported_errors
    BY <1>1 DEF Halt, vars
  <2> QED
    BY <2>1, TablesSettled, Standing
<1> QED
  BY <1>1, ReadVerdict, LexVerdict, ParseVerdict, TypecheckVerdict, OptimizeVerdict,
     GenerateVerdict, RunVerdict, TurnVerdict DEF Next

(* Only Return ends the loops, and nothing comes after it. *)
LEMMA DoneStep ==
  ASSUME IInv, DoneEmpty, [Next]_vars
  PROVE  DoneEmpty'
<1>1. CASE Return \/ Halt \/ UNCHANGED vars
  BY <1>1 DEF DoneEmpty, Return, Halt, vars
<1>2. ASSUME phase # "done", phase' \in {phase, "drain", "crashed"}
      PROVE  DoneEmpty'
  BY <1>2 DEF DoneEmpty
<1>3. CASE Read \/ Lex \/ Parse \/ Optimize
  <2>1. phase # "done" /\ phase' = phase
    BY <1>3 DEF Read, Lex, Parse, Optimize, Taking, Completed, Dropped
  <2> QED
    BY <1>2, <2>1
<1>4. CASE TypecheckJob
  <2>1. phase # "done" /\ phase' \in {phase, "crashed"}
    BY <1>4, ZenonT(60) DEF TypecheckJob, Taking, Completed, Deferred, Crashed
  <2> QED
    BY <1>2, <2>1
<1>5. CASE Generate
  <2>1. phase # "done" /\ phase' \in {phase, "crashed"}
    BY <1>5 DEF Generate, Taking, Completed, Deferred, Crashed
  <2> QED
    BY <1>2, <2>1
<1>6. CASE Run
  <2>1. Stepping /\ phase = "loop"
    BY <1>6, ExecuteStep DEF Run, IInv
  <2>2. phase' \in {phase, "crashed"}
    BY <2>1 DEF Stepping, Running, Storing, Waiting, Finishing, Derail, Continue,
       Await, Completed, Crashed, pipelineVars
  <2> QED
    BY <1>2, <2>1, <2>2
<1>7. CASE Report \/ DrainAll \/ NextRound \/ Stall
  <2>1. phase # "done" /\ phase' \in {phase, "drain", "crashed"}
    BY <1>7 DEF Report, TakeAbort, DrainAll, Drain, NextRound, Stall, Taking
  <2> QED
    BY <1>2, <2>1
<1> QED
  BY <1>1, <1>3, <1>4, <1>5, <1>6, <1>7 DEF Next, Turn

-----------------------------------------------------------------------------
(* The start: the nodes of the builtins, and nothing to compile. *)

LEMMA VInvInit ==
  ASSUME Init
  PROVE  VInv
<1>1. ast = Builtins /\ DOMAIN ast = {Global, Putc, PutcCode} /\ ast[Global].kind = "GLOBAL"
  BY BuiltinsFacts DEF Init
<1>2. Parent(Global) = Global /\ Parent(Putc) = Global /\ Parent(PutcCode) = Global
  BY DEF Parent, Global, Putc, PutcCode
<1>3. Rooted
  BY <1>1, <1>2 DEF Rooted
<1>4. \A q \in DOMAIN ast : ~Wanted(q)
  BY <1>1, <1>2 DEF Wanted
<1>5. NoneForgotten
  BY <1>4 DEF NoneForgotten
<1>6. PICK job : job = FileJob("READ", MainFile)
  OBVIOUS
<1>7. /\ ~IsNodeJob(job) /\ ~IsNodeJob(SENTINEL)
      /\ queue[1] = SENTINEL /\ queue[2] = job
      /\ \A i \in 1 .. Len(queue) : i = 1 \/ i = 2
  BY <1>6, FirstJobs
<1>8. TypedFirst
  BY <1>7 DEF TypedFirst, NodeJobs, IsNodeJob
<1> QED
  BY <1>3, <1>5, <1>8 DEF VInv

(* The invariant of the verdict, with the one it builds on. *)
THEOREM VerdictInvariance ==
  Spec /\ []HandlersKeep => [](IInv /\ VInv /\ DoneEmpty)
<1>1. Init => IInv /\ VInv /\ DoneEmpty
  BY IInvInit, VInvInit DEF Init, PipelineInit, DoneEmpty
<1>2. (IInv /\ VInv /\ DoneEmpty) /\ HandlersKeep /\ [Next]_vars
        => (IInv /\ VInv /\ DoneEmpty)'
  BY IInvStep, VInvStep, DoneStep
<1> QED
  BY <1>1, <1>2, PTL DEF Spec

(* While no error has been counted every item of a file, and the body of    *)
(* every procedure that has a class, has a job or is done (the loop of      *)
(* begin_compilation, main.c:383, and what its handlers emit).              *)
THEOREM NothingForgotten == Spec /\ []HandlersKeep => []NoneForgotten
<1>1. IInv /\ VInv /\ DoneEmpty => NoneForgotten
  BY DEF VInv
<1> QED
  BY <1>1, VerdictInvariance, PTL

(* What main.c prints "Compiled" about is compiled: when the loop has ended *)
(* without an error all that there is to compile has its bytecode, or is a  *)
(* declaration with a class.                                                *)
THEOREM CompiledMeansAll ==
  Spec /\ []HandlersKeep =>
    [](Succeeded => \A q \in DOMAIN ast : Wanted(q) => Handled(ast[q]))
<1>1. ASSUME VInv, DoneEmpty, Succeeded, NEW q \in DOMAIN ast, Wanted(q)
      PROVE  Handled(ast[q])
  <2>1. reported_errors = 0 /\ queue = <<>>
    BY <1>1 DEF Succeeded, Returned, DoneEmpty
  <2>2. NodeJobs = {}
    BY <2>1 DEF NodeJobs
  <2> QED
    BY <1>1, <2>1, <2>2 DEF VInv, NoneForgotten
<1>2. IInv /\ VInv /\ DoneEmpty =>
        (Succeeded => \A q \in DOMAIN ast : Wanted(q) => Handled(ast[q]))
  BY <1>1
<1> QED
  BY <1>2, VerdictInvariance, PTL
=============================================================================
