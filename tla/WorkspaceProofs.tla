--------------------------- MODULE WorkspaceProofs ---------------------------
(***************************************************************************)
(* Proofs about the whole job loop with its handlers, on every program and *)
(* for whatever the parser, the typechecker and the bytecode generator     *)
(* make of a syntax tree, as long as they keep what HandlersKeep says.     *)
(***************************************************************************)
EXTENDS Workspace, FiniteSetTheorems, SequenceTheorems, TLAPS

-----------------------------------------------------------------------------
(* The inductive invariant. *)

(* A machine whose stack shows nothing but procedures with bytecode. *)
MachineFine(m) == MachineOK(m) /\ AllCompiled(m.stack)

(* What a job is about is there: its node, its file or its machine. *)
JobFine(job) ==
  /\ job.type \in NodeTypes => job.node \in DOMAIN ast
  /\ job.type \in {"LEX", "PARSE"} => job.file \in DOMAIN program
  /\ job.type = "EXECUTE" => MachineFine(job.vm)

QueueFine ==
  queue \in Seq(JobSet) /\ \A i \in 1 .. Len(queue) : JobFine(queue[i])

(* Only an EXECUTE job in front of the queue has its machine in hand. *)
VmFine ==
  vm # Idle =>
    /\ MachineFine(vm)
    /\ phase = "loop" /\ queue # <<>> /\ queue[1].type = "EXECUTE"

NodesFine ==
  /\ ast = [p \in DOMAIN ast |-> ast[p]]
  /\ Global \in DOMAIN ast /\ NoNode \notin DOMAIN ast
  /\ \A p \in DOMAIN ast :
       /\ p \in Seq(Int) /\ NodeOK(ast[p]) /\ Compiled(ast[p].value)

Flags ==
  /\ did_work \in BOOLEAN /\ reported_errors \in Nat /\ phase \in Phases
  /\ told \in BOOLEAN /\ program \in Programs

(* The bootstrap begins with its call, whose operand main's declaration     *)
(* becomes, and no unit pushes a procedure without bytecode.                *)
UnitsFine ==
  /\ bytecode \in Seq(Seq(Words)) /\ Len(bytecode) >= 2
  /\ Len(bytecode[1]) >= 2 /\ bytecode[1][1] = CALL
  /\ \A u \in 1 .. Len(bytecode) : PushesCompiled(bytecode[u])

(* An assignment is entered once, with its bytecode: the assert of          *)
(* interpreter_begin_dependency_initialization (interpreter.c:8).           *)
InitializersFine ==
  /\ initializers \in Seq(DOMAIN ast)
  /\ \A k \in 1 .. Len(initializers) :
       /\ ast[initializers[k]].kind = "ASSIGNMENT"
       /\ ast[initializers[k]].class # NoType
       /\ ast[initializers[k]].code # -1
  /\ \A k, n \in 1 .. Len(initializers) :
       initializers[k] = initializers[n] => k = n

(* Every unit is the bytecode of one node. *)
CodesDistinct ==
  \A p, q \in DOMAIN ast :
    ast[p].code # -1 /\ ast[p].code = ast[q].code => p = q

(* A procedure's body has a job, or bytecode, only once the procedure has   *)
(* its class.  As the try that gives it the class emits the body, a body    *)
(* that is emitted is new, although nothing in the node itself says so.     *)
Opened(q) ==
  LET p == Parent(q)
  IN  /\ p \in DOMAIN ast
      /\ ast[p].kind # "PROCEDURE" \/ ast[p].class # NoType

OpenedFirst ==
  /\ \A i \in NodeJobs : Opened(queue[i].node)
  /\ \A q \in DOMAIN ast : ast[q].code # -1 => Opened(q)

(* The sentinel, while the loop runs and afterwards. *)
SentinelUnique ==
  phase = "loop" =>
    \E k \in 1 .. Len(queue) :
      /\ queue[k] = SENTINEL
      /\ \A i \in 1 .. Len(queue) : queue[i] = SENTINEL => i = k

SentinelGone ==
  phase \in {"drain", "done"} =>
    \A i \in 1 .. Len(queue) : queue[i] # SENTINEL

(* As long as no job has been done since the sentinel was seen, what has    *)
(* been put behind it can only be jobs that were, or wait to be, retried.   *)
QuietRound ==
  phase = "loop" /\ ~did_work =>
    \A k, i \in 1 .. Len(queue) :
      queue[k] = SENTINEL /\ k < i => queue[i].type \in Retryable

LoopInv ==
  SentinelUnique /\ SentinelGone /\ QuietRound /\ DrainsOnlyRetryable

IInv ==
  /\ Flags /\ QueueFine /\ VmFine /\ NodesFine /\ UnitsFine
  /\ InitializersFine /\ CodesDistinct
  /\ NodesHandledOnce /\ OpenedFirst /\ LoopInv

-----------------------------------------------------------------------------
(* Sequences of jobs. *)

(* What is in the queue after a job has been taken and others put behind. *)
LEMMA TailThenEmitted ==
  ASSUME NEW S, NEW q \in Seq(S), q # <<>>, NEW e \in Seq(S)
  PROVE  LET r == Tail(q) \o e
         IN  /\ r \in Seq(S)
             /\ Len(r) = Len(q) - 1 + Len(e)
             /\ \A i \in 1 .. Len(r) :
                  r[i] = IF i < Len(q) THEN q[i + 1] ELSE e[i - Len(q) + 1]
<1>1. Len(q) \in Nat \ {0} /\ Len(e) \in Nat
  OBVIOUS
<1>2. Tail(q) \in Seq(S) /\ Len(Tail(q)) = Len(q) - 1
  BY <1>1
<1>3. \A i \in 1 .. Len(q) - 1 : Tail(q)[i] = q[i + 1]
  BY <1>1
<1>4. \A i \in 1 .. Len(q) - 1 + Len(e) :
        (Tail(q) \o e)[i] = IF i <= Len(Tail(q)) THEN Tail(q)[i]
                                                 ELSE e[i - Len(Tail(q))]
  BY <1>1, <1>2
<1> QED
  BY <1>1, <1>2, <1>3, <1>4

(* Every job of the new queue was there, but not in front, or is emitted. *)
LEMMA OldOrEmitted ==
  ASSUME NEW S, NEW q \in Seq(S), q # <<>>, NEW e \in Seq(S),
         NEW r, r = Tail(q) \o e,
         NEW i \in 1 .. Len(r)
  PROVE  \/ /\ i < Len(q) /\ i + 1 \in 1 .. Len(q) /\ i + 1 # 1
            /\ r[i] = q[i + 1]
         \/ /\ ~(i < Len(q)) /\ i - Len(q) + 1 \in 1 .. Len(e)
            /\ r[i] = e[i - Len(q) + 1]
<1>1. Len(q) \in Nat \ {0} /\ Len(e) \in Nat
  OBVIOUS
<1>2. /\ Len(r) = Len(q) - 1 + Len(e)
      /\ r[i] = IF i < Len(q) THEN q[i + 1] ELSE e[i - Len(q) + 1]
  BY TailThenEmitted, Zenon
<1> QED
  BY <1>1, <1>2

(* A child has one parent. *)
LEMMA ParentOfChild ==
  ASSUME NEW p \in Seq(Int), NEW i \in Int
  PROVE  Parent(Child(p, i)) = p /\ Child(p, i) \in Seq(Int)
BY DEF Parent, Child

LEMMA ChildrenDiffer ==
  ASSUME NEW p \in Seq(Int), NEW q \in Seq(Int), NEW i \in Int, NEW j \in Int,
         Child(p, i) = Child(q, j)
  PROVE  p = q /\ i = j
<1>1. p = q
  BY ParentOfChild
<1>2. Append(p, i)[Len(p) + 1] = i /\ Append(q, j)[Len(q) + 1] = j
  OBVIOUS
<1> QED
  BY <1>1, <1>2 DEF Child

-----------------------------------------------------------------------------
(* Counting. *)

(* A set of numbers has its n-th smallest element. *)
LEMMA NthIsThere ==
  ASSUME NEW m \in Nat, NEW S \in SUBSET (1 .. m), NEW n \in 1 .. Cardinality(S)
  PROVE  /\ NthOf(S, n) \in S
         /\ Cardinality({i \in S : i <= NthOf(S, n)}) = n
<1> DEFINE UpTo(k) == {i \in S : i <= k}
           c == Cardinality(S)
           rank == [k \in S |-> Cardinality(UpTo(k))]
<1>1. IsFiniteSet(1 .. m)
  BY FS_Interval
<1>2. IsFiniteSet(S) /\ c \in Nat
  BY <1>1, FS_Subset, FS_CardinalityType
<1>3. \A k \in S : UpTo(k) \in SUBSET S /\ IsFiniteSet(UpTo(k)) /\ k \in UpTo(k)
  <2> SUFFICES ASSUME NEW k \in S
               PROVE  UpTo(k) \in SUBSET S /\ IsFiniteSet(UpTo(k)) /\ k \in UpTo(k)
    OBVIOUS
  <2>1. UpTo(k) \in SUBSET S /\ k \in UpTo(k)
    OBVIOUS
  <2> QED
    BY <1>2, <2>1, FS_Subset
<1>4. \A k \in S : rank[k] \in 1 .. c
  <2> SUFFICES ASSUME NEW k \in S
               PROVE  Cardinality(UpTo(k)) \in 1 .. c
    OBVIOUS
  <2> HIDE DEF UpTo
  <2>1. Cardinality(UpTo(k)) \in Nat /\ Cardinality(UpTo(k)) <= c
    BY <1>2, <1>3, FS_Subset, FS_CardinalityType
  <2>2. Cardinality(UpTo(k)) # 0
    BY <1>3, FS_EmptySet
  <2> QED
    BY <1>2, <2>1, <2>2
<1>5. \A k, j \in S : k < j => rank[k] # rank[j]
  <2> SUFFICES ASSUME NEW k \in S, NEW j \in S, k < j
               PROVE  Cardinality(UpTo(k)) # Cardinality(UpTo(j))
    OBVIOUS
  <2>1. UpTo(k) \in SUBSET UpTo(j) /\ j \in UpTo(j) /\ j \notin UpTo(k)
    <3>1. k \in Nat /\ j \in Nat /\ \A i \in S : i \in Nat
      OBVIOUS
    <3>2. \A i \in UpTo(k) : i \in UpTo(j)
      BY <3>1
    <3>3. j \in UpTo(j) /\ j \notin UpTo(k)
      BY <3>1
    <3> HIDE DEF UpTo
    <3> QED
      BY <3>2, <3>3
  <2> HIDE DEF UpTo
  <2> QED
    BY <1>3, <2>1, FS_Subset
<1>6. rank \in Injection(S, 1 .. c)
  <2>1. rank \in [S -> 1 .. c]
    BY <1>4
  <2>2. \A k, j \in S : rank[k] = rank[j] => k = j
    <3> HIDE DEF rank
    <3>1. \A k, j \in S : k = j \/ k < j \/ j < k
      OBVIOUS
    <3> QED
      BY <1>5, <3>1
  <2> HIDE DEF rank
  <2> QED
    BY <2>1, <2>2 DEF Injection, IsInjective
<1>7. IsFiniteSet(1 .. c) /\ Cardinality(1 .. c) = c
  BY <1>2, FS_Interval
<1>8. rank \in Surjection(S, 1 .. c)
  <2> HIDE DEF rank
  <2> QED
    BY <1>6, <1>7, FS_Injection
<1>9. \E k \in S : rank[k] = n
  <2> HIDE DEF rank
  <2> QED
    BY <1>8 DEF Surjection
<1>10. \E k \in S : Cardinality({i \in S : i <= k}) = n
  BY <1>9
<1> QED
  BY <1>10 DEF NthOf

(* The nodes among the items of a file are numbered as they come. *)
LEMMA NodesCounted ==
  ASSUME NEW terms, NEW a \in Nat, NEW b \in Nat, a <= b
  PROVE  /\ NodesUpTo(terms, a) \in Nat
         /\ NodesUpTo(terms, a) <= NodesUpTo(terms, b)
         /\ a < b /\ terms[b].k # "LOAD" =>
              NodesUpTo(terms, a) < NodesUpTo(terms, b)
<1> DEFINE N(n) == {i \in 1 .. n : terms[i].k # "LOAD"}
<1>1. ASSUME NEW n \in Nat PROVE IsFiniteSet(N(n)) /\ Cardinality(N(n)) \in Nat
  <2>1. IsFiniteSet(1 .. n) /\ N(n) \in SUBSET (1 .. n)
    BY FS_Interval
  <2> QED
    BY <2>1, FS_Subset, FS_CardinalityType
<1>2. N(a) \in SUBSET N(b)
  OBVIOUS
<1>3. a < b /\ terms[b].k # "LOAD" => b \in N(b) /\ b \notin N(a)
  OBVIOUS
<1> HIDE DEF N
<1>4. Cardinality(N(a)) <= Cardinality(N(b))
  BY <1>1, <1>2, FS_Subset
<1>5. a < b /\ terms[b].k # "LOAD" => Cardinality(N(a)) # Cardinality(N(b))
  BY <1>1, <1>2, <1>3, FS_Subset
<1>6. \A n : NodesUpTo(terms, n) = Cardinality(N(n))
  BY DEF NodesUpTo, N
<1>7. Cardinality(N(a)) \in Nat /\ Cardinality(N(b)) \in Nat
  BY <1>1
<1> QED
  BY <1>4, <1>5, <1>6, <1>7

LEMMA ItemsNumbered ==
  ASSUME NEW terms, Len(terms) \in Nat,
         NEW n \in 1 .. Len(terms), terms[n].k # "LOAD"
  PROVE  /\ NodesUpTo(terms, n) \in 1 .. NodesUpTo(terms, Len(terms))
         /\ \A j \in 1 .. Len(terms) :
              terms[j].k # "LOAD" /\ NodesUpTo(terms, j) = NodesUpTo(terms, n)
                => j = n
<1>1. NodesUpTo(terms, 0) \in Nat /\ NodesUpTo(terms, 0) < NodesUpTo(terms, n)
  BY NodesCounted
<1>2. /\ NodesUpTo(terms, n) <= NodesUpTo(terms, Len(terms))
      /\ NodesUpTo(terms, n) \in Nat
      /\ NodesUpTo(terms, Len(terms)) \in Nat
  BY NodesCounted
<1>3. ASSUME NEW j \in 1 .. Len(terms), terms[j].k # "LOAD", j # n
      PROVE  NodesUpTo(terms, j) # NodesUpTo(terms, n)
  <2>1. NodesUpTo(terms, j) \in Nat /\ NodesUpTo(terms, n) \in Nat
    BY NodesCounted
  <2>2. CASE j < n
    BY <2>1, <2>2, NodesCounted
  <2>3. CASE n < j
    BY <1>3, <2>1, <2>3, NodesCounted
  <2> QED
    BY <1>3, <2>2, <2>3
<1> QED
  BY <1>1, <1>2, <1>3

-----------------------------------------------------------------------------
(* What only grows. *)

(* No step takes a node away, changes its kind, its bytecode, or its class  *)
(* and target, or forgets that its value is or has been computed.           *)
NodeKept(before, after) ==
  /\ after.kind = before.kind
  /\ before.code # -1 => after.code = before.code
  /\ before.class # NoType => after.class = before.class /\ after.lhs = before.lhs
  /\ Begun(before) => Begun(after)

Grows ==
  /\ program' = program
  /\ DOMAIN ast \subseteq DOMAIN ast'
  /\ \A p \in DOMAIN ast : NodeKept(ast[p], ast'[p])
  /\ Len(bytecode) \in Nat /\ Len(bytecode') \in Nat
  /\ Len(bytecode) <= Len(bytecode')

LEMMA CompiledStays ==
  ASSUME Grows, NEW word, Compiled(word)
  PROVE  Compiled(word)'
BY DEF Grows, NodeKept, Compiled

LEMMA AllCompiledStays ==
  ASSUME Grows, NEW words, AllCompiled(words)
  PROVE  AllCompiled(words)'
BY CompiledStays DEF AllCompiled

LEMMA MachineStaysFine ==
  ASSUME Grows, NEW m, MachineFine(m)
  PROVE  MachineFine(m)'
<1>1. MachineOK(m)'
  BY DEF MachineFine, MachineOK, Grows, Machines
<1> QED
  BY <1>1, AllCompiledStays DEF MachineFine

LEMMA JobStaysFine ==
  ASSUME Grows, NEW job, JobFine(job)
  PROVE  JobFine(job)'
BY MachineStaysFine DEF JobFine, Grows

-----------------------------------------------------------------------------
(* The queue. *)

LEMMA ConstantsStay ==
  /\ JobSet' = JobSet /\ SENTINEL' = SENTINEL
  /\ NodeTypes' = NodeTypes /\ Retryable' = Retryable
BY DEF JobSet, SENTINEL, FileTypes, FileNames, NodeTypes, Machines, Words, Data,
       Junk, Retryable

LEMMA SentinelIsOne ==
  ASSUME NEW job \in JobSet
  PROVE  job = SENTINEL <=> job.type = "SENTINEL"
BY DEF JobSet, SENTINEL, FileTypes, NodeTypes

LEMMA QueueStaysFine ==
  ASSUME QueueFine, Grows, queue # <<>>, NEW e \in Seq(JobSet),
         \A i \in 1 .. Len(e) : JobFine(e[i])',
         queue' = Tail(queue) \o e
  PROVE  QueueFine'
<1>1. queue \in Seq(JobSet) /\ queue' \in Seq(JobSet)
  BY TailThenEmitted, Zenon DEF QueueFine
<1>2. ASSUME NEW i \in 1 .. Len(queue'), NEW job, job = queue'[i]
      PROVE  JobFine(job)'
  <2>1. \/ i + 1 \in 1 .. Len(queue) /\ job = queue[i + 1]
        \/ \E j \in 1 .. Len(e) : job = e[j]
    BY <1>1, <1>2, OldOrEmitted
  <2>2. CASE i + 1 \in 1 .. Len(queue) /\ job = queue[i + 1]
    <3>1. JobFine(job)
      BY <2>2 DEF QueueFine
    <3> QED
      BY <3>1, JobStaysFine
  <2> QED
    BY <2>1, <2>2
<1> QED
  BY <1>1, <1>2, ConstantsStay DEF QueueFine

(* After a job that is not the sentinel, a quiet round stays quiet unless   *)
(* the job did some work.                                                   *)
LEMMA LoopStays ==
  ASSUME LoopInv, queue \in Seq(JobSet), queue # <<>>, queue[1] # SENTINEL,
         phase = "loop", phase' = "loop",
         NEW e \in Seq(JobSet), \A i \in 1 .. Len(e) : e[i] # SENTINEL,
         queue' = Tail(queue) \o e,
         \/ did_work'
         \/ did_work' = did_work /\ \A i \in 1 .. Len(e) : e[i].type \in Retryable
  PROVE  LoopInv'
<1>1. /\ queue' \in Seq(JobSet) /\ Len(queue') = Len(queue) - 1 + Len(e)
      /\ \A i \in 1 .. Len(queue') :
           queue'[i] = IF i < Len(queue) THEN queue[i + 1]
                                         ELSE e[i - Len(queue) + 1]
  BY TailThenEmitted, Zenon
<1>2. Len(queue) \in Nat \ {0} /\ Len(e) \in Nat /\ Len(queue') \in Nat
  BY <1>1
<1>3. ASSUME NEW i \in 1 .. Len(queue'), ~(i < Len(queue))
      PROVE  /\ queue'[i] # SENTINEL
             /\ ~did_work' => queue'[i].type \in Retryable
  <2>1. i - Len(queue) + 1 \in 1 .. Len(e)
    BY <1>1, <1>2, <1>3
  <2> QED
    BY <1>1, <1>3, <2>1
<1>4. PICK k \in 1 .. Len(queue) :
        /\ queue[k] = SENTINEL
        /\ \A i \in 1 .. Len(queue) : queue[i] = SENTINEL => i = k
  BY DEF LoopInv, SentinelUnique
<1>5. k - 1 \in 1 .. Len(queue') /\ k - 1 < Len(queue) /\ (k - 1) + 1 = k
  BY <1>1, <1>2, <1>4
<1>6. queue'[k - 1] = SENTINEL
  BY <1>1, <1>4, <1>5
<1>7. \A i \in 1 .. Len(queue') : i < Len(queue) => i + 1 \in 1 .. Len(queue)
  BY <1>1, <1>2
<1>8. \A i \in 1 .. Len(queue') : queue'[i] = SENTINEL => i = k - 1
  <2> SUFFICES ASSUME NEW i \in 1 .. Len(queue'), queue'[i] = SENTINEL
               PROVE  i = k - 1
    OBVIOUS
  <2>1. i < Len(queue)
    BY <1>3
  <2>2. queue[i + 1] = SENTINEL
    BY <1>1, <2>1
  <2> QED
    BY <1>2, <1>4, <1>7, <2>1, <2>2
<1>9. SentinelUnique'
  BY <1>5, <1>6, <1>8, ConstantsStay DEF SentinelUnique
<1>10. QuietRound'
  <2> SUFFICES ASSUME ~did_work', NEW i \in 1 .. Len(queue'), k - 1 < i
               PROVE  queue'[i].type \in Retryable
    BY <1>8, ConstantsStay DEF QuietRound
  <2>1. CASE i < Len(queue)
    <3>1. i + 1 \in 1 .. Len(queue) /\ k < i + 1
      BY <1>2, <1>7, <2>1
    <3>2. ~did_work
      OBVIOUS
    <3>3. queue[i + 1].type \in Retryable
      BY <1>4, <3>1, <3>2 DEF LoopInv, QuietRound
    <3> QED
      BY <1>1, <2>1, <3>3
  <2>2. CASE ~(i < Len(queue))
    BY <1>3, <2>2
  <2> QED
    BY <2>1, <2>2
<1> QED
  BY <1>9, <1>10 DEF LoopInv, SentinelGone, DrainsOnlyRetryable

(* No node gets a second job if what is emitted is new to the jobs behind   *)
(* the one that was taken.                                                  *)
IsNodeJob(job) == job.type \in NodeTypes

LEMMA HandledStaysOnce ==
  ASSUME NodesHandledOnce, queue \in Seq(JobSet), queue # <<>>,
         NEW e \in Seq(JobSet), queue' = Tail(queue) \o e,
         \A i, j \in 1 .. Len(e) :
           /\ IsNodeJob(e[i]) /\ IsNodeJob(e[j]) /\ e[i].node = e[j].node
           => i = j,
         \A i \in 1 .. Len(e), j \in 1 .. Len(queue) :
           IsNodeJob(e[i]) /\ j # 1 /\ IsNodeJob(queue[j])
             => e[i].node # queue[j].node,
         \A i \in 1 .. Len(e) : IsNodeJob(e[i]) => ast'[e[i].node].code = -1,
         \A j \in 1 .. Len(queue) :
           j # 1 /\ IsNodeJob(queue[j]) => ast'[queue[j].node].code = -1
  PROVE  NodesHandledOnce'
<1> DEFINE Old(i) == i + 1 \in 1 .. Len(queue) /\ i + 1 # 1 /\ queue'[i] = queue[i + 1]
           New(i) == /\ i - Len(queue) + 1 \in 1 .. Len(e)
                     /\ queue'[i] = e[i - Len(queue) + 1]
<1>1. \A i \in 1 .. Len(queue') : Old(i) \/ New(i)
  BY OldOrEmitted
<1>2. Len(queue) \in Nat
  OBVIOUS
<1>3. ASSUME NEW i \in 1 .. Len(queue'), IsNodeJob(queue'[i])
      PROVE  ast'[queue'[i].node].code = -1
  <2>1. CASE Old(i)
    BY <1>3, <2>1
  <2>2. CASE New(i)
    BY <1>3, <2>2
  <2> QED
    BY <1>1, <2>1, <2>2
<1>4. ASSUME NEW i \in 1 .. Len(queue'), NEW j \in 1 .. Len(queue'),
             IsNodeJob(queue'[i]), IsNodeJob(queue'[j]),
             queue'[i].node = queue'[j].node
      PROVE  i = j
  <2>1. CASE Old(i) /\ Old(j)
    <3>1. \A a, b \in 1 .. Len(queue) :
            IsNodeJob(queue[a]) /\ IsNodeJob(queue[b]) /\ queue[a].node = queue[b].node
              => a = b
      BY DEF NodesHandledOnce, NodeJobs, IsNodeJob
    <3>2. PICK a \in 1 .. Len(queue), b \in 1 .. Len(queue) :
            /\ a = i + 1 /\ b = j + 1
            /\ queue'[i] = queue[a] /\ queue'[j] = queue[b]
      BY <2>1
    <3>3. a = b
      BY <1>4, <3>1, <3>2
    <3> QED
      BY <3>2, <3>3
  <2>2. CASE New(i) /\ New(j)
    <3>1. i - Len(queue) + 1 = j - Len(queue) + 1
      BY <1>4, <2>2
    <3> QED
      BY <1>2, <3>1
  <2>3. CASE Old(i) /\ New(j)
    BY <1>4, <2>3
  <2>4. CASE New(i) /\ Old(j)
    BY <1>4, <2>4
  <2> QED
    BY <1>1, <2>1, <2>2, <2>3, <2>4
<1> QED
  BY <1>3, <1>4, ConstantsStay DEF NodesHandledOnce, NodeJobs, IsNodeJob

LEMMA OpenedStays ==
  ASSUME Grows, NEW q, Opened(q)
  PROVE  Opened(q)'
BY DEF Opened, Grows, NodeKept, Parent

LEMMA OpenedStaysFirst ==
  ASSUME OpenedFirst, Grows, queue \in Seq(JobSet), queue # <<>>,
         NEW e \in Seq(JobSet), queue' = Tail(queue) \o e,
         \A i \in 1 .. Len(e) : IsNodeJob(e[i]) => Opened(e[i].node)',
         \A q \in DOMAIN ast' :
           ast'[q].code # -1 =>
             (q \in DOMAIN ast /\ ast[q].code # -1) \/ Opened(q)'
  PROVE  OpenedFirst'
<1>1. ASSUME NEW i \in 1 .. Len(queue'), IsNodeJob(queue'[i]),
             NEW q, q = queue'[i].node
      PROVE  Opened(q)'
  <2>1. \/ i + 1 \in 1 .. Len(queue) /\ queue'[i] = queue[i + 1]
        \/ /\ i - Len(queue) + 1 \in 1 .. Len(e)
           /\ queue'[i] = e[i - Len(queue) + 1]
    BY OldOrEmitted
  <2>2. CASE i + 1 \in 1 .. Len(queue) /\ queue'[i] = queue[i + 1]
    BY <1>1, <2>2, OpenedStays DEF OpenedFirst, NodeJobs, IsNodeJob
  <2> QED
    BY <1>1, <2>1, <2>2
<1>2. ASSUME NEW q \in DOMAIN ast', ast'[q].code # -1
      PROVE  Opened(q)'
  BY <1>2, OpenedStays DEF OpenedFirst
<1> QED
  BY <1>1, <1>2, ConstantsStay DEF OpenedFirst, NodeJobs, IsNodeJob

-----------------------------------------------------------------------------
(* The units and the initializers. *)

LEMMA PushesStayCompiled ==
  ASSUME Grows, NEW code, PushesCompiled(code)
  PROVE  PushesCompiled(code)'
<1>1. PUSH' = PUSH /\ CALL' = CALL
  BY DEF PUSH, CALL, Num
<1> QED
  BY <1>1, CompiledStays DEF PushesCompiled

LEMMA UnitsStayFine ==
  ASSUME UnitsFine, Grows, bytecode' = bytecode
  PROVE  UnitsFine'
<1>1. CALL' = CALL /\ Words' = Words
  BY DEF CALL, Num, Words, Data, Junk
<1>2. ASSUME NEW u \in 1 .. Len(bytecode), NEW code, code = bytecode[u]
      PROVE  PushesCompiled(code)'
  BY <1>2, PushesStayCompiled DEF UnitsFine
<1> QED
  BY <1>1, <1>2 DEF UnitsFine

LEMMA UnitAdded ==
  ASSUME UnitsFine, Grows, NEW code \in Seq(Words), PushesCompiled(code),
         bytecode' = Append(bytecode, code)
  PROVE  UnitsFine'
<1>1. CALL' = CALL /\ Words' = Words
  BY DEF CALL, Num, Words, Data, Junk
<1>2. /\ bytecode \in Seq(Seq(Words)) /\ bytecode' \in Seq(Seq(Words))
      /\ Len(bytecode') = Len(bytecode) + 1
      /\ bytecode'[Len(bytecode) + 1] = code
      /\ \A u \in 1 .. Len(bytecode) : bytecode'[u] = bytecode[u]
  BY DEF UnitsFine
<1>3. ASSUME NEW u \in 1 .. Len(bytecode'), NEW c, c = bytecode'[u]
      PROVE  PushesCompiled(c)'
  <2>1. CASE u \in 1 .. Len(bytecode)
    BY <1>2, <1>3, <2>1, PushesStayCompiled DEF UnitsFine
  <2>2. CASE u = Len(bytecode) + 1
    BY <1>2, <1>3, <2>2, PushesStayCompiled
  <2> QED
    BY <1>2, <2>1, <2>2
<1>4. Len(bytecode') >= 2 /\ bytecode'[1] = bytecode[1]
  BY <1>2 DEF UnitsFine
<1> QED
  BY <1>1, <1>2, <1>3, <1>4 DEF UnitsFine

(* The operand of the first call may change: it is no word that is pushed. *)
LEMMA BootstrapReplaced ==
  ASSUME UnitsFine, NEW decl \in Seq(Int),
         bytecode' = [bytecode EXCEPT ![1][2] = Pointer(decl)],
         NEW new, new = bytecode'[1]
  PROVE  /\ bytecode' \in Seq(Seq(Words)) /\ Len(bytecode') = Len(bytecode)
         /\ Len(bytecode) \in Nat
         /\ PushesCompiled(new) /\ Len(new) >= 2 /\ new[1] = CALL
         /\ \A u \in 1 .. Len(bytecode) : u # 1 => bytecode'[u] = bytecode[u]
<1>1. /\ CALL # PUSH /\ Pointer(decl) # CALL /\ Pointer(decl) # PUSH
      /\ Pointer(decl) \in Words /\ CALL[1] # "node"
  BY DEF CALL, PUSH, Num, Words, Data, Junk, Pointer
<1> DEFINE old == bytecode[1]
           unit == [old EXCEPT ![2] = Pointer(decl)]
<1>2. bytecode \in Seq(Seq(Words)) /\ Len(bytecode) \in Nat /\ Len(bytecode) >= 2
  BY DEF UnitsFine
<1>3. /\ old \in Seq(Words) /\ Len(old) \in Nat /\ Len(old) >= 2
      /\ old[1] = CALL /\ PushesCompiled(old)
  <2>1. 1 \in 1 .. Len(bytecode)
    BY <1>2
  <2>2. PushesCompiled(old) /\ Len(old) >= 2 /\ old[1] = CALL
    BY <2>1 DEF UnitsFine
  <2>3. old \in Seq(Words)
    BY <1>2, <2>1
  <2> HIDE DEF old
  <2> QED
    BY <2>2, <2>3
<1>4. bytecode' = [bytecode EXCEPT ![1] = unit]
  OBVIOUS
<1> HIDE DEF old
<1>5. /\ unit \in Seq(Words) /\ Len(unit) = Len(old) /\ unit[1] = CALL
      /\ \A i \in 1 .. Len(old) :
           unit[i] = IF i = 2 THEN Pointer(decl) ELSE old[i]
  BY <1>1, <1>3, ExceptSeq
<1> HIDE DEF unit
<1>6. /\ bytecode' \in Seq(Seq(Words)) /\ Len(bytecode') = Len(bytecode)
      /\ bytecode'[1] = unit
      /\ \A u \in 1 .. Len(bytecode) : u # 1 => bytecode'[u] = bytecode[u]
  <2> DEFINE table == [bytecode EXCEPT ![1] = unit]
  <2>1. 1 \in 1 .. Len(bytecode)
    BY <1>2
  <2>2. /\ table \in Seq(Seq(Words)) /\ Len(table) = Len(bytecode)
        /\ \A u \in 1 .. Len(bytecode) :
             table[u] = IF u = 1 THEN unit ELSE bytecode[u]
    <3> DEFINE S == Seq(Words)
    <3>1. bytecode \in Seq(S) /\ unit \in S
      BY <1>2, <1>5
    <3> HIDE DEF S
    <3>2. table \in Seq(S) /\ Len(table) = Len(bytecode)
      BY <2>1, <3>1, ExceptSeq
    <3>3. \A u \in 1 .. Len(bytecode) :
            table[u] = IF u = 1 THEN unit ELSE bytecode[u]
      BY <2>1, <3>1, ExceptSeq
    <3> QED
      BY <3>2, <3>3 DEF S
  <2>3. bytecode' = table
    BY <1>4
  <2> HIDE DEF table
  <2> QED
    BY <2>1, <2>2, <2>3
<1>7. PushesCompiled(unit)
  <2> SUFFICES ASSUME NEW i \in 1 .. Len(unit)
               PROVE  /\ unit[i] = PUSH /\ i + 1 <= Len(unit) => Compiled(unit[i + 1])
                      /\ unit[i] = CALL /\ i + 2 <= Len(unit) => Compiled(unit[i + 2])
    BY <1>1, <1>5 DEF PushesCompiled
  <2>1. /\ old[i] = PUSH /\ i + 1 <= Len(old) => Compiled(old[i + 1])
        /\ old[i] = CALL /\ i + 2 <= Len(old) => Compiled(old[i + 2])
    BY <1>3, <1>5 DEF PushesCompiled
  <2>2. CASE i = 1
    <3>1. unit[1] = CALL /\ unit[1] # PUSH
      BY <1>1, <1>5
    <3>2. 3 <= Len(unit) => unit[3] = old[3]
      <4>1. 3 <= Len(unit) => 3 \in 1 .. Len(old) /\ 3 # 2
        BY <1>3, <1>5
      <4> QED
        BY <1>5, <4>1
    <3>3. 3 <= Len(unit) => Compiled(old[3])
      BY <1>3, <1>5, <2>1, <2>2
    <3> QED
      BY <2>2, <3>1, <3>2, <3>3
  <2>3. CASE i = 2
    <3>1. unit[2] # CALL /\ unit[2] # PUSH
      BY <1>1, <1>3, <1>5
    <3> QED
      BY <2>3, <3>1
  <2>4. CASE i > 2
    <3>1. /\ i + 1 <= Len(unit) => unit[i + 1] = old[i + 1]
          /\ i + 2 <= Len(unit) => unit[i + 2] = old[i + 2]
          /\ unit[i] = old[i]
      <4>1. /\ i + 1 <= Len(unit) => i + 1 \in 1 .. Len(old) /\ i + 1 # 2
            /\ i + 2 <= Len(unit) => i + 2 \in 1 .. Len(old) /\ i + 2 # 2
            /\ i \in 1 .. Len(old) /\ i # 2
        BY <1>3, <1>5, <2>4
      <4> QED
        BY <1>5, <4>1
    <3> QED
      BY <1>5, <2>1, <3>1
  <2> QED
    BY <1>3, <1>5, <2>2, <2>3, <2>4
<1> QED
  BY <1>2, <1>3, <1>5, <1>6, <1>7

LEMMA BootstrapSet ==
  ASSUME UnitsFine, Grows, NEW decl \in Seq(Int),
         bytecode' = [bytecode EXCEPT ![1][2] = Pointer(decl)]
  PROVE  UnitsFine'
<1>1. CALL' = CALL /\ Words' = Words
  BY DEF CALL, Num, Words, Data, Junk
<1>2. PICK new : new = bytecode'[1]
  OBVIOUS
<1>3. /\ bytecode' \in Seq(Seq(Words)) /\ Len(bytecode') = Len(bytecode)
      /\ PushesCompiled(new) /\ Len(new) >= 2 /\ new[1] = CALL
      /\ \A u \in 1 .. Len(bytecode) : u # 1 => bytecode'[u] = bytecode[u]
  BY <1>2, BootstrapReplaced
<1>4. ASSUME NEW u \in 1 .. Len(bytecode'), NEW c, c = bytecode'[u]
      PROVE  PushesCompiled(c)'
  <2>1. PushesCompiled(c)
    BY <1>2, <1>3, <1>4 DEF UnitsFine
  <2> QED
    BY <2>1, PushesStayCompiled
<1> QED
  BY <1>1, <1>2, <1>3, <1>4 DEF UnitsFine

LEMMA InitializersStayFine ==
  ASSUME InitializersFine, Grows, initializers' = initializers
  PROVE  InitializersFine'
<1>1. initializers' \in Seq(DOMAIN ast')
  BY DEF InitializersFine, Grows
<1>2. \A k \in 1 .. Len(initializers) : initializers[k] \in DOMAIN ast
  BY DEF InitializersFine
<1>3. NoType' = NoType
  BY DEF NoType
<1>4. ASSUME NEW k \in 1 .. Len(initializers), NEW q, q = initializers[k]
      PROVE  /\ ast'[q].kind = "ASSIGNMENT" /\ ast'[q].class # NoType
             /\ ast'[q].code # -1
  <2>1. /\ q \in DOMAIN ast /\ ast[q].kind = "ASSIGNMENT"
        /\ ast[q].class # NoType /\ ast[q].code # -1
    BY <1>2, <1>4 DEF InitializersFine
  <2>2. NodeKept(ast[q], ast'[q])
    BY <2>1 DEF Grows
  <2> QED
    BY <2>1, <2>2 DEF NodeKept
<1> QED
  BY <1>1, <1>3, <1>4 DEF InitializersFine

-----------------------------------------------------------------------------
(* The interpreter's words, stacks and machines. *)

LEMMA WordFacts ==
  /\ Data \in Words /\ Junk \in Words /\ Compiled(Data) /\ Compiled(Junk)
  /\ \A n \in Int : Num(n) \in Words /\ Compiled(Num(n))
  /\ \A word \in Words : IsNum(word) => word[2] \in Int
BY DEF Words, Data, Junk, Num, Compiled, IsNum

(* A machine runs a unit that is there. *)
LEMMA MachineRuns ==
  ASSUME UnitsFine, MachineFine(vm)
  PROVE  vm.id + 1 \in 1 .. Len(bytecode) /\ vm.ip \in Int
<1>1. vm \in Machines /\ vm.id \in 0 .. Len(bytecode) - 1
  BY DEF MachineFine, MachineOK
<1>2. vm.ip \in Int
  BY <1>1 DEF Machines
<1>3. Len(bytecode) \in Nat
  BY DEF UnitsFine
<1> QED
  BY <1>1, <1>2, <1>3

LEMMA WordsRead ==
  ASSUME UnitsFine, MachineFine(vm), NEW ip \in Int, NEW word \in WordsAt(ip)
  PROVE  word \in Words
<1> DEFINE code == bytecode[vm.id + 1]
<1>1. vm.id + 1 \in 1 .. Len(bytecode)
  BY MachineRuns
<1>2. code \in Seq(Words)
  BY <1>1 DEF UnitsFine
<1>3. word \in Stray \/ word = Junk \/ (ip + 1 \in DOMAIN code /\ word = code[ip + 1])
  BY DEF WordsAt
<1> HIDE DEF code
<1> QED
  BY <1>2, <1>3, WordFacts, StrayAssumption

(* Around a unit there is nothing that looks like a node's address. *)
LEMMA WordsAround ==
  ASSUME UnitsFine, MachineFine(vm), NEW ip \in Int, NEW word \in WordsAt(ip),
         ip + 1 \notin 1 .. Len(bytecode[vm.id + 1])
  PROVE  word[1] # "node"
<1> DEFINE code == bytecode[vm.id + 1]
<1>1. vm.id + 1 \in 1 .. Len(bytecode)
  BY MachineRuns
<1>2. code \in Seq(Words)
  BY <1>1 DEF UnitsFine
<1>3. word \in Stray \/ word = Junk
  BY <1>2 DEF WordsAt
<1> QED
  BY <1>3, StrayAssumption

LEMMA WordsInside ==
  ASSUME UnitsFine, MachineFine(vm), NEW ip \in Int, NEW word \in WordsAt(ip),
         ip + 1 \in 1 .. Len(bytecode[vm.id + 1])
  PROVE  word = bytecode[vm.id + 1][ip + 1]
<1> DEFINE code == bytecode[vm.id + 1]
<1>1. vm.id + 1 \in 1 .. Len(bytecode)
  BY MachineRuns
<1>2. code \in Seq(Words)
  BY <1>1 DEF UnitsFine
<1> QED
  BY <1>2 DEF WordsAt

LEMMA OperandsCompiled ==
  ASSUME UnitsFine, MachineFine(vm)
  PROVE  /\ \A word \in Operands(1) : Fetching(PUSH) => Compiled(word)
         /\ \A decl \in Operands(1), word \in Operands(2) :
              Fetching(CALL) /\ IsNode(decl) => Compiled(word)
<1> DEFINE code == bytecode[vm.id + 1]
<1>1. vm.id + 1 \in 1 .. Len(bytecode) /\ vm.ip \in Int
  BY MachineRuns
<1>2. code \in Seq(Words) /\ PushesCompiled(code)
  BY <1>1 DEF UnitsFine
<1>3. \A ip \in Int : \A word \in WordsAt(ip) :
        IF ip + 1 \in 1 .. Len(code) THEN word = code[ip + 1] ELSE word[1] # "node"
  BY WordsAround, WordsInside
<1>4. /\ \A word \in Operands(1) : word \in WordsAt(vm.ip + 1)
      /\ \A word \in Operands(2) : word \in WordsAt(vm.ip + 2)
      /\ \A op : Fetching(op) => op \in WordsAt(vm.ip)
  BY DEF Operands, Fetching
<1> HIDE DEF code
<1>5. ASSUME NEW ip \in Int, ip + 1 \notin 1 .. Len(code), ip + 2 \in 1 .. Len(code)
      PROVE  ip + 2 = 1 /\ code # <<>> /\ code[ip + 2][1] # "node"
  BY <1>2, <1>5 DEF PushesCompiled
<1>6. ASSUME NEW word \in Operands(1), Fetching(PUSH) PROVE Compiled(word)
  <2>1. CASE vm.ip + 2 \notin 1 .. Len(code)
    BY <1>1, <1>3, <1>4, <1>6, <2>1 DEF Compiled
  <2>2. CASE vm.ip + 2 \in 1 .. Len(code) /\ vm.ip + 1 \notin 1 .. Len(code)
    BY <1>1, <1>3, <1>4, <1>5, <1>6, <2>2 DEF Compiled
  <2>3. CASE vm.ip + 2 \in 1 .. Len(code) /\ vm.ip + 1 \in 1 .. Len(code)
    <3>1. code[vm.ip + 1] = PUSH /\ word = code[vm.ip + 1 + 1]
      BY <1>1, <1>3, <1>4, <1>6, <2>3
    <3> QED
      BY <1>1, <1>2, <2>3, <3>1 DEF PushesCompiled
  <2> QED
    BY <2>1, <2>2, <2>3
<1>7. ASSUME NEW decl \in Operands(1), NEW word \in Operands(2),
             Fetching(CALL), IsNode(decl)
      PROVE  Compiled(word)
  <2>1. decl[1] = "node"
    BY <1>7 DEF IsNode
  <2>2. vm.ip + 2 \in 1 .. Len(code)
    BY <1>1, <1>3, <1>4, <1>7, <2>1
  <2>3. vm.ip + 1 \in 1 .. Len(code)
    BY <1>1, <1>3, <1>4, <1>5, <1>7, <2>1, <2>2
  <2>4. CASE vm.ip + 3 \notin 1 .. Len(code)
    BY <1>1, <1>3, <1>4, <1>7, <2>4 DEF Compiled
  <2>5. CASE vm.ip + 3 \in 1 .. Len(code)
    <3>1. code[vm.ip + 1] = CALL /\ word = code[vm.ip + 1 + 2]
      BY <1>1, <1>3, <1>4, <1>7, <2>3, <2>5
    <3> QED
      BY <1>1, <1>2, <2>3, <2>5, <3>1 DEF PushesCompiled
  <2> QED
    BY <2>4, <2>5
<1> QED
  BY <1>6, <1>7

(* A stack of compiled words. *)
Fine(stack) ==
  stack \in Seq(Words) /\ AllCompiled(stack)

LEMMA StackFacts ==
  ASSUME MachineFine(vm)
  PROVE  /\ Fine(vm.stack) /\ Depth \in Nat
         /\ \A i \in 1 .. Depth : vm.stack[i] \in Words /\ Compiled(vm.stack[i])
         /\ \A n \in 0 .. Depth : Fine(Without(n)) /\ Len(Without(n)) = Depth - n
<1> DEFINE s == vm.stack
<1>1. s \in Seq(Words) /\ AllCompiled(s) /\ Depth = Len(s)
  BY DEF MachineFine, MachineOK, Machines, Depth
<1>2. \A n : Without(n) = SubSeq(s, 1, Len(s) - n)
  BY DEF Without, Depth
<1> HIDE DEF s
<1>4. ASSUME NEW n \in 0 .. Len(s)
      PROVE  /\ Fine(SubSeq(s, 1, Len(s) - n))
             /\ Len(SubSeq(s, 1, Len(s) - n)) = Len(s) - n
  <2> DEFINE r == SubSeq(s, 1, Len(s) - n)
  <2>1. /\ r \in Seq(Words) /\ Len(r) = Len(s) - n
        /\ \A i \in 1 .. Len(s) - n : r[i] = s[i]
    BY <1>1
  <2> HIDE DEF r
  <2>2. AllCompiled(r)
    BY <1>1, <2>1 DEF AllCompiled
  <2>3. Fine(r) /\ Len(r) = Len(s) - n
    BY <2>1, <2>2 DEF Fine
  <2> QED
    BY <2>3 DEF r
<1>5. Fine(s) /\ \A i \in 1 .. Len(s) : s[i] \in Words /\ Compiled(s[i])
  BY <1>1 DEF Fine, AllCompiled
<1>6. Len(s) \in Nat
  BY <1>1
<1> QED
  BY <1>1, <1>2, <1>4, <1>5, <1>6 DEF s

(* Two stacks, one on the other. *)
LEMMA StackedFine ==
  ASSUME NEW s, Fine(s), NEW t \in Seq(Words), AllCompiled(t)
  PROVE  Fine(s \o t)
<1> DEFINE r == s \o t
<1>1. s \in Seq(Words) /\ AllCompiled(s)
  BY DEF Fine
<1>2. /\ r \in Seq(Words) /\ Len(r) = Len(s) + Len(t)
      /\ \A i \in 1 .. Len(r) :
           r[i] = IF i <= Len(s) THEN s[i] ELSE t[i - Len(s)]
  BY <1>1
<1>3. \A i \in 1 .. Len(r) : ~(i <= Len(s)) => i - Len(s) \in 1 .. Len(t)
  BY <1>1, <1>2
<1> HIDE DEF r
<1>4. AllCompiled(r)
  <2> SUFFICES ASSUME NEW i \in 1 .. Len(r) PROVE Compiled(r[i])
    BY DEF AllCompiled
  <2>1. CASE i <= Len(s)
    <3>1. i \in 1 .. Len(s)
      BY <1>1, <2>1
    <3> QED
      BY <1>1, <1>2, <2>1, <3>1 DEF AllCompiled
  <2>2. CASE ~(i <= Len(s))
    BY <1>2, <1>3, <2>2 DEF AllCompiled
  <2> QED
    BY <2>1, <2>2
<1>5. Fine(r)
  BY <1>2, <1>4 DEF Fine
<1> QED
  BY <1>5 DEF r

(* The word behind a stack is cleared when its machine has to wait. *)
LEMMA WaiterFine ==
  ASSUME NEW m, MachineFine(m), NEW d \in DOMAIN ast, d \in Seq(Int)
  PROVE  MachineFine(Waiter(m, d)) /\ Waiter(m, d).waiting = d
<1> DEFINE s == m.stack
           r == Cleared(s)
<1>1. m \in Machines /\ s \in Seq(Words) /\ AllCompiled(s)
  BY DEF MachineFine, MachineOK, Machines
<1>2. Null \in Words /\ Compiled(Null)
  BY WordFacts DEF Null
<1>3. r \in Seq(Words) /\ AllCompiled(r)
  <2> HIDE DEF s
  <2>1. CASE Len(s) > StackSize
    <3>1. /\ r \in Seq(Words) /\ Len(r) = Len(s)
          /\ \A i \in 1 .. Len(s) : r[i] = IF i = StackSize + 1 THEN Null ELSE s[i]
      BY <1>1, <1>2, <2>1, StackAssumption DEF Cleared
    <3> QED
      BY <1>1, <1>2, <3>1 DEF AllCompiled
  <2>2. CASE ~(Len(s) > StackSize)
    BY <1>1, <2>2 DEF Cleared
  <2> QED
    BY <2>1, <2>2
<1>4. PICK n : n = Waiter(m, d)
  OBVIOUS
<1>5. /\ n \in Machines /\ n.stack = r
      /\ n.id = m.id /\ n.waiting = d
  <2> HIDE DEF r
  <2> QED
    BY <1>1, <1>3, <1>4 DEF Machines, Waiter, r
<1>6. MachineFine(n)
  <2> HIDE DEF r
  <2> QED
    BY <1>3, <1>5 DEF MachineFine, MachineOK
<1> QED
  BY <1>4, <1>5, <1>6

-----------------------------------------------------------------------------
(* What one step of the interpreter amounts to. *)

(* The nodes after a variable has got its value, after its initializer is   *)
(* done, and after a machine has begun to wait for it.                      *)
Stored(d, word) == [ast EXCEPT ![d].value = word, ![d].initialized = TRUE]
Finished(d) == [ast EXCEPT ![d].initializing = FALSE, ![d].initialized = TRUE]
Awaited(d, begins) == [ast EXCEPT ![d].initializing = @ \/ begins]

Running == \E m : MachineFine(m) /\ Continue(m)

Storing ==
  \E m : \E d \in DOMAIN ast, word \in Words :
    /\ MachineFine(m) /\ Compiled(word)
    /\ ast' = Stored(d, word)
    /\ vm' = m
    /\ UNCHANGED pipelineVars

Waiting ==
  \E m : \E d \in DOMAIN ast :
    MachineFine(m) /\ ~ast[d].initialized /\ Await(m, d)

Finishing ==
  /\ Completed(<<>>) /\ vm' = Idle
  /\ \/ ast' = ast
     \/ \E d \in DOMAIN ast : ast' = Finished(d)

Stepping == Running \/ Storing \/ Waiting \/ Finishing \/ Derail

(* The parts of the invariant that make a machine's step possible. *)
MachineInv == UnitsFine /\ NodesFine /\ InitializersFine /\ MachineFine(vm)

LEMMA MachineAfter ==
  ASSUME MachineFine(vm), NEW size \in Int, NEW stack, Fine(stack)
  PROVE  MachineFine(After(size, stack))
<1>1. vm \in Machines /\ stack \in Seq(Words) /\ vm.ip + size \in Int
  BY DEF MachineFine, MachineOK, Machines, Fine
<1>2. PICK m : m = After(size, stack)
  OBVIOUS
<1>3. /\ m \in Machines /\ m.stack = stack
      /\ m.id = vm.id /\ m.waiting = vm.waiting
  BY <1>1, <1>2 DEF Machines, After
<1>4. MachineFine(m)
  BY <1>3 DEF MachineFine, MachineOK, Fine
<1> QED
  BY <1>2, <1>4

LEMMA MachineMoves ==
  ASSUME MachineFine(vm), NEW id \in 0 .. Len(bytecode) - 1,
         NEW ip \in Int, NEW fp \in Int
  PROVE  MachineFine([vm EXCEPT !.id = id, !.ip = ip, !.fp = fp])
<1>1. vm \in Machines /\ id \in Int
  BY DEF MachineFine, MachineOK
<1>2. PICK m : m = [vm EXCEPT !.id = id, !.ip = ip, !.fp = fp]
  OBVIOUS
<1>3. /\ m \in Machines /\ m.stack = vm.stack
      /\ m.id = id /\ m.waiting = vm.waiting
  BY <1>1, <1>2 DEF Machines
<1>4. MachineFine(m)
  BY <1>3 DEF MachineFine, MachineOK
<1> QED
  BY <1>2, <1>4

LEMMA MachineElsewhere ==
  ASSUME MachineFine(vm), NEW id \in 0 .. Len(bytecode) - 1,
         NEW ip \in Int, NEW fp \in Int, NEW stack, Fine(stack)
  PROVE  MachineFine([vm EXCEPT !.id = id, !.ip = ip, !.fp = fp, !.stack = stack])
<1>1. vm \in Machines /\ stack \in Seq(Words) /\ id \in Int
  BY DEF MachineFine, MachineOK, Fine
<1>2. PICK m : m = [vm EXCEPT !.id = id, !.ip = ip, !.fp = fp, !.stack = stack]
  OBVIOUS
<1>3. /\ m \in Machines /\ m.stack = stack
      /\ m.id = id /\ m.waiting = vm.waiting
  BY <1>1, <1>2 DEF Machines
<1>4. MachineFine(m)
  BY <1>3 DEF MachineFine, MachineOK, Fine
<1> QED
  BY <1>2, <1>4

(* A machine that goes on with these words on its stack, or the end of the  *)
(* process where there is no stack for them.                                *)
LEMMA PushAllStep ==
  ASSUME MachineInv, NEW words \in Seq(Words), AllCompiled(words),
         NEW m, MachineFine(m), PushAll(words, m)
  PROVE  Stepping
<1>1. PICK stack : stack = vm.stack \o words
  OBVIOUS
<1>2. PICK n : n = [m EXCEPT !.stack = stack]
  OBVIOUS
<1>3. Continue(n) \/ Derail
  BY <1>1, <1>2 DEF PushAll
<1>4. Fine(stack)
  BY <1>1, StackFacts, StackedFine DEF MachineInv
<1>5. n \in Machines /\ n.stack = stack /\ n.id = m.id /\ n.waiting = m.waiting
  BY <1>2, <1>4 DEF MachineFine, MachineOK, Machines, Fine
<1>6. MachineFine(n)
  BY <1>4, <1>5 DEF MachineFine, MachineOK, Fine
<1> QED
  BY <1>3, <1>6 DEF Stepping, Running

LEMMA PushStep ==
  ASSUME MachineInv, NEW word \in Words, Compiled(word), Push(word, 2)
  PROVE  Stepping
<1>1. MachineFine(After(2, vm.stack))
  BY StackFacts, MachineAfter DEF MachineInv
<1>2. PICK m, words : m = After(2, vm.stack) /\ words = <<word>>
  OBVIOUS
<1>3. words \in Seq(Words) /\ AllCompiled(words)
  BY <1>2 DEF AllCompiled
<1>4. PushAll(words, m)
  BY <1>2 DEF Push
<1> QED
  BY <1>1, <1>2, <1>3, <1>4, PushAllStep

LEMMA PushWordStep ==
  ASSUME MachineInv, PushWord
  PROVE  Stepping
<1>1. PICK word \in Operands(1) : Fetching(PUSH) /\ Push(word, 2)
  BY DEF PushWord
<1>2. vm.ip + 1 \in Int
  BY DEF MachineInv, MachineFine, MachineOK, Machines
<1>3. word \in Words /\ Compiled(word)
  BY <1>1, <1>2, WordsRead, OperandsCompiled DEF MachineInv, Operands
<1> QED
  BY <1>1, <1>3, PushStep

LEMMA LoadWordStep ==
  ASSUME MachineInv, LoadWord
  PROVE  Stepping
<1>1. PICK decl \in Operands(1) :
        IF ~IsNode(decl) THEN Derail
        ELSE IF ~ast[decl[2]].initialized THEN Await(vm, decl[2])
        ELSE Push(ast[decl[2]].value, 2)
  BY DEF LoadWord
<1>2. CASE ~IsNode(decl)
  BY <1>1, <1>2 DEF Stepping
<1>3. CASE IsNode(decl) /\ ~ast[decl[2]].initialized
  BY <1>1, <1>3 DEF Stepping, Waiting, IsNode, MachineInv
<1>4. CASE IsNode(decl) /\ ast[decl[2]].initialized
  <2>1. ast[decl[2]].value \in Words /\ Compiled(ast[decl[2]].value)
    BY <1>4 DEF IsNode, MachineInv, NodesFine, NodeOK
  <2> QED
    BY <1>1, <1>4, <2>1, PushStep
<1> QED
  BY <1>2, <1>3, <1>4

LEMMA StoreStep ==
  ASSUME MachineInv, Store
  PROVE  Stepping
<1>1. PICK decl \in Operands(1) :
        IF ~IsNode(decl) \/ Depth = 0 THEN Derail
        ELSE /\ ast' = [ast EXCEPT ![decl[2]].value = Top,
                                   ![decl[2]].initialized = TRUE]
             /\ vm' = After(2, Without(1))
             /\ UNCHANGED pipelineVars
  BY DEF Store
<1>2. CASE ~IsNode(decl) \/ Depth = 0
  BY <1>1, <1>2 DEF Stepping
<1>3. CASE ~(~IsNode(decl) \/ Depth = 0)
  <2>1. Depth \in Nat \ {0} /\ decl[2] \in DOMAIN ast
    BY <1>3, StackFacts DEF MachineInv, IsNode
  <2>2. Top \in Words /\ Compiled(Top)
    BY <2>1, StackFacts DEF MachineInv, Top
  <2>3. MachineFine(After(2, Without(1)))
    <3>1. 1 \in 0 .. Depth
      BY <2>1
    <3>2. Fine(Without(1))
      BY <3>1, StackFacts DEF MachineInv
    <3> QED
      BY <3>2, MachineAfter DEF MachineInv
  <2>4. /\ ast' = [ast EXCEPT ![decl[2]].value = Top,
                              ![decl[2]].initialized = TRUE]
        /\ vm' = After(2, Without(1))
        /\ UNCHANGED pipelineVars
    BY <1>1, <1>3
  <2> QED
    BY <2>1, <2>2, <2>3, <2>4 DEF Stepping, Storing, Stored
<1> QED
  BY <1>2, <1>3

LEMMA LoadArgumentStep ==
  ASSUME MachineInv, LoadArgument
  PROVE  Stepping
<1>1. PICK op \in {ARG_LOAD, ARG_ADDR}, n \in Operands(1) :
        IF ~IsNum(n) THEN Derail
        ELSE Push(IF op = ARG_LOAD THEN Argument(n[2]) ELSE Data, 2)
  BY DEF LoadArgument
<1>2. CASE ~IsNum(n)
  BY <1>1, <1>2 DEF Stepping
<1>3. CASE IsNum(n)
  <2>1. Argument(n[2]) \in Words /\ Compiled(Argument(n[2]))
    BY StackFacts, WordFacts DEF MachineInv, Argument
  <2> DEFINE word == IF op = ARG_LOAD THEN Argument(n[2]) ELSE Data
  <2>2. word \in Words /\ Compiled(word)
    BY <2>1, WordFacts
  <2>3. Push(word, 2)
    BY <1>1, <1>3
  <2> HIDE DEF word
  <2> QED
    BY <2>2, <2>3, PushStep
<1> QED
  BY <1>2, <1>3

LEMMA SyscallStep ==
  ASSUME MachineInv, Syscall
  PROVE  Stepping
<1>1. PICK count \in Operands(1) :
        IF IsNum(count) /\ count[2] \in 0 .. Depth
          THEN Continue(After(2, Without(count[2])))
          ELSE Derail
  BY DEF Syscall
<1>2. CASE IsNum(count) /\ count[2] \in 0 .. Depth
  <2>1. MachineFine(After(2, Without(count[2])))
    BY <1>2, StackFacts, MachineAfter DEF MachineInv
  <2> QED
    BY <1>1, <1>2, <2>1 DEF Stepping, Running
<1>3. CASE ~(IsNum(count) /\ count[2] \in 0 .. Depth)
  BY <1>1, <1>3 DEF Stepping
<1> QED
  BY <1>2, <1>3

LEMMA OperandTyped ==
  ASSUME MachineInv, NEW word \in Operands(1), IsNum(word)
  PROVE  word[2] \in Int
<1>1. vm.ip + 1 \in Int
  BY DEF MachineInv, MachineFine, MachineOK, Machines
<1> QED
  BY <1>1, WordsRead, WordFacts DEF MachineInv, Operands

LEMMA JumpStep ==
  ASSUME MachineInv, Jump
  PROVE  Stepping
<1>1. PICK distance \in Operands(1) :
        IF IsNum(distance) THEN Continue(After(2 + distance[2], vm.stack))
                           ELSE Derail
  BY DEF Jump
<1>2. CASE IsNum(distance)
  <2>1. 2 + distance[2] \in Int
    BY <1>2, OperandTyped
  <2>2. MachineFine(After(2 + distance[2], vm.stack))
    BY <2>1, StackFacts, MachineAfter DEF MachineInv
  <2> QED
    BY <1>1, <1>2, <2>2 DEF Stepping, Running
<1>3. CASE ~IsNum(distance)
  BY <1>1, <1>3 DEF Stepping
<1> QED
  BY <1>2, <1>3

LEMMA JumpZeroStep ==
  ASSUME MachineInv, JumpZero
  PROVE  Stepping
<1>1. PICK distance \in Operands(1) :
        IF ~IsNum(distance) \/ Depth = 0 THEN Derail
        ELSE \/ Continue(After(2, Without(1)))
             \/ Continue(After(2 + distance[2], Without(1)))
  BY DEF JumpZero
<1>2. CASE ~(~IsNum(distance) \/ Depth = 0)
  <2>1. Depth \in Nat \ {0} /\ 2 + distance[2] \in Int
    BY <1>2, OperandTyped, StackFacts DEF MachineInv
  <2>2. Fine(Without(1))
    BY <2>1, StackFacts DEF MachineInv
  <2>3. /\ MachineFine(After(2, Without(1)))
        /\ MachineFine(After(2 + distance[2], Without(1)))
    BY <2>1, <2>2, MachineAfter DEF MachineInv
  <2> QED
    BY <1>1, <1>2, <2>3 DEF Stepping, Running
<1>3. CASE ~IsNum(distance) \/ Depth = 0
  BY <1>1, <1>3 DEF Stepping
<1> QED
  BY <1>2, <1>3

LEMMA CallStep ==
  ASSUME MachineInv, Call
  PROVE  Stepping
<1>1. PICK decl \in Operands(1), count \in Operands(2) :
        /\ Fetching(CALL)
        /\ IF ~IsNode(decl) THEN Derail
           ELSE IF ~ast[decl[2]].initialized THEN Await(vm, decl[2])
           ELSE LET proc == ast[decl[2]].value
                    frame == <<count, Num(vm.fp), Num(vm.ip + 3), Num(vm.id)>>
                IN  IF ~IsNode(proc) \/ ast[proc[2]].code = -1
                      THEN Derail
                      ELSE PushAll(frame, [vm EXCEPT !.id = ast[proc[2]].code,
                                                     !.ip = 0, !.fp = Depth + 3])
  BY DEF Call
<1>2. CASE ~IsNode(decl)
  BY <1>1, <1>2 DEF Stepping
<1>3. CASE IsNode(decl) /\ ~ast[decl[2]].initialized
  BY <1>1, <1>3 DEF Stepping, Waiting, IsNode, MachineInv
<1>4. CASE IsNode(decl) /\ ast[decl[2]].initialized
  <2> DEFINE proc == ast[decl[2]].value
             frame == <<count, Num(vm.fp), Num(vm.ip + 3), Num(vm.id)>>
             id == ast[proc[2]].code
             fp == Depth + 3
  <2>1. CASE ~IsNode(proc) \/ ast[proc[2]].code = -1
    BY <1>1, <1>4, <2>1 DEF Stepping
  <2>2. CASE ~(~IsNode(proc) \/ ast[proc[2]].code = -1)
    <3>1. PushAll(frame, [vm EXCEPT !.id = id, !.ip = 0, !.fp = fp])
      BY <1>1, <1>4, <2>2
    <3>2. /\ vm.fp \in Int /\ vm.ip + 3 \in Int /\ vm.id \in Int
          /\ vm.ip + 2 \in Int
      BY DEF MachineInv, MachineFine, MachineOK, Machines
    <3>3. count \in Words /\ Compiled(count)
      BY <1>1, <1>4, <3>2, WordsRead, OperandsCompiled DEF MachineInv, Operands
    <3>4. frame \in Seq(Words) /\ AllCompiled(frame)
      <4> DEFINE b == Num(vm.fp)
                 c == Num(vm.ip + 3)
                 d == Num(vm.id)
      <4>1. /\ b \in Words /\ c \in Words /\ d \in Words
            /\ Compiled(b) /\ Compiled(c) /\ Compiled(d)
        BY <3>2, WordFacts
      <4> HIDE DEF b, c, d
      <4>2. /\ <<count, b, c, d>> \in Seq(Words)
            /\ AllCompiled(<<count, b, c, d>>)
        BY <3>3, <4>1 DEF AllCompiled
      <4> QED
        BY <4>2 DEF b, c, d
    <3>5. id \in 0 .. Len(bytecode) - 1
      <4>1. proc[2] \in DOMAIN ast /\ ast[proc[2]].code # -1
        BY <2>2 DEF IsNode
      <4>2. ast[proc[2]].code \in -1 .. Len(bytecode) - 1
        BY <4>1 DEF MachineInv, NodesFine, NodeOK
      <4>3. Len(bytecode) \in Nat
        BY DEF MachineInv, UnitsFine
      <4> QED
        BY <4>1, <4>2, <4>3
    <3>6. PICK m : m = [vm EXCEPT !.id = id, !.ip = 0, !.fp = fp]
      OBVIOUS
    <3>7. MachineFine(m)
      <4>1. fp \in Int /\ 0 \in Int
        BY StackFacts DEF MachineInv
      <4> HIDE DEF frame, proc, id, fp
      <4> QED
        BY <3>5, <3>6, <4>1, MachineMoves DEF MachineInv
    <3> HIDE DEF frame, proc, id, fp
    <3> QED
      BY <3>1, <3>4, <3>6, <3>7, PushAllStep
  <2> QED
    BY <2>1, <2>2
<1> QED
  BY <1>2, <1>3, <1>4

LEMMA LeaveCallStep ==
  ASSUME MachineInv, LeaveCall
  PROVE  Stepping
<1>1. PICK flag \in Operands(1) :
       LET kept == IF flag = Num(0) THEN 0 ELSE 1
           args == Below(kept + 3)
       IN  IF /\ Depth >= kept + 4
              /\ IsUnit(Below(kept)) /\ IsNum(Below(kept + 1))
              /\ IsNum(Below(kept + 2)) /\ IsNum(args)
              /\ args[2] \in 0 .. Depth - kept - 4
             THEN Continue([vm EXCEPT
                    !.id = Below(kept)[2],
                    !.ip = Below(kept + 1)[2],
                    !.fp = Below(kept + 2)[2],
                    !.stack = Without(kept + 4 + args[2])
                              \o (IF kept = 0 THEN <<>> ELSE <<Top>>)])
             ELSE Derail
  BY DEF LeaveCall
<1>2. PICK kept \in {0, 1} : kept = IF flag = Num(0) THEN 0 ELSE 1
  OBVIOUS
<1> DEFINE args == Below(kept + 3)
           fits == /\ Depth >= kept + 4
                   /\ IsUnit(Below(kept)) /\ IsNum(Below(kept + 1))
                   /\ IsNum(Below(kept + 2)) /\ IsNum(args)
                   /\ args[2] \in 0 .. Depth - kept - 4
           result == IF kept = 0 THEN <<>> ELSE <<Top>>
           id == Below(kept)[2]
           ip == Below(kept + 1)[2]
           fp == Below(kept + 2)[2]
           rest == Without(kept + 4 + args[2])
           stack == rest \o result
           left == [vm EXCEPT !.id = id, !.ip = ip, !.fp = fp, !.stack = stack]
<1>3. IF fits THEN Continue(left) ELSE Derail
  BY <1>1, <1>2
<1>4. CASE fits
  <2>1. Depth \in Nat /\ Depth >= kept + 4 /\ Depth = Len(vm.stack)
    BY <1>4, StackFacts DEF MachineInv, Depth
  <2>2. /\ Below(kept) \in Words /\ Below(kept + 1) \in Words
        /\ Below(kept + 2) \in Words
        /\ Top \in Words /\ Compiled(Top)
    <3>1. \A n \in 0 .. 3 : Depth - n \in 1 .. Depth
      BY <2>1
    <3>2. /\ kept \in 0 .. 3 /\ kept + 1 \in 0 .. 3 /\ kept + 2 \in 0 .. 3
          /\ 0 \in 0 .. 3 /\ Depth - 0 = Depth
      BY <2>1
    <3>3. \A n \in 0 .. 3 : Below(n) \in Words
      BY <3>1, StackFacts DEF MachineInv, Below
    <3>4. Top \in Words /\ Compiled(Top)
      BY <3>1, <3>2, StackFacts DEF MachineInv, Top
    <3> QED
      BY <3>2, <3>3, <3>4
  <2>3. ip \in Int /\ fp \in Int /\ id \in Int /\ id + 1 \in DOMAIN bytecode
    BY <1>4, <2>2, WordFacts DEF IsUnit
  <2>4. id \in 0 .. Len(bytecode) - 1
    BY <2>3 DEF MachineInv, UnitsFine
  <2>5. /\ kept + 4 + args[2] \in 0 .. Depth
        /\ Fine(rest) /\ Len(rest) <= Depth - kept /\ Len(rest) \in Nat
    <3>1. args[2] \in 0 .. Depth - kept - 4
      BY <1>4
    <3> HIDE DEF args, fits, result, id, ip, fp, rest, stack, left
    <3>2. /\ kept + 4 + args[2] \in 0 .. Depth
          /\ Depth - (kept + 4 + args[2]) <= Depth - kept
          /\ Depth - (kept + 4 + args[2]) \in Nat
      <4>1. PICK d \in Nat, a \in 0 .. Depth - kept - 4 : d = Depth /\ a = args[2]
        BY <2>1, <3>1
      <4>2. a \in Int /\ 0 <= a /\ a <= d - kept - 4 /\ kept \in {0, 1}
        BY <2>1, <4>1
      <4> QED
        BY <4>1, <4>2
    <3> USE DEF rest
    <3>3. Fine(rest) /\ Len(rest) = Depth - (kept + 4 + args[2])
      BY <3>2, StackFacts DEF MachineInv
    <3> QED
      BY <3>2, <3>3
  <2>6. result \in Seq(Words) /\ AllCompiled(result) /\ Len(result) = kept
    <3>1. CASE kept = 0
      BY <3>1 DEF AllCompiled
    <3>2. CASE kept = 1
      BY <2>2, <3>2 DEF AllCompiled
    <3> QED
      BY <3>1, <3>2
  <2>7. Fine(stack)
    <3> HIDE DEF rest, result
    <3> QED
      BY <2>5, <2>6, StackedFine
  <2>8. MachineFine(left)
    <3> HIDE DEF stack, id, ip, fp
    <3> QED
      BY <2>3, <2>4, <2>7, MachineElsewhere DEF MachineInv
  <2>9. Continue(left)
    BY <1>3, <1>4
  <2> QED
    BY <2>8, <2>9 DEF Stepping, Running
<1>5. CASE ~fits
  <2>1. Derail
    BY <1>3, <1>5
  <2> QED
    BY <2>1 DEF Stepping
<1> QED
  BY <1>4, <1>5

LEMMA FinishUnitStep ==
  ASSUME MachineInv, FinishUnit
  PROVE  Stepping
<1> DEFINE done == {k \in 1 .. Len(initializers) : ast[initializers[k]].code = vm.id}
           decl == ast[initializers[NthOf(done, 1)]].lhs
<1>1. /\ ast' = IF done = {} THEN ast
                ELSE [ast EXCEPT ![decl].initializing = FALSE,
                                 ![decl].initialized = TRUE]
      /\ vm' = Idle
      /\ Completed(<<>>)
  BY DEF FinishUnit
<1> HIDE DEF decl
<1>2. ast' = ast \/ ast' = [ast EXCEPT ![decl].initializing = FALSE,
                                       ![decl].initialized = TRUE]
  BY <1>1
<1>3. CASE decl \in DOMAIN ast
  BY <1>1, <1>2, <1>3 DEF Stepping, Finishing, Finished
<1>4. CASE decl \notin DOMAIN ast
  <2>1. ast = [p \in DOMAIN ast |-> ast[p]]
    BY DEF MachineInv, NodesFine
  <2>2. [ast EXCEPT ![decl].initializing = FALSE,
                    ![decl].initialized = TRUE] = ast
    BY <1>4, <2>1
  <2> QED
    BY <1>1, <1>2, <2>2 DEF Stepping, Finishing, Finished
<1> QED
  BY <1>3, <1>4

LEMMA InstructionStep ==
  ASSUME MachineInv, Instruction
  PROVE  Stepping
<1>1. CASE Unknown
  BY <1>1 DEF Unknown, Stepping
<1> QED
  BY <1>1, FinishUnitStep, LeaveCallStep, LoadWordStep, StoreStep,
     LoadArgumentStep, PushWordStep, CallStep, SyscallStep, JumpStep,
     JumpZeroStep DEF Instruction

LEMMA ExecuteStep ==
  ASSUME UnitsFine, NodesFine, InitializersFine, QueueFine, VmFine, Execute
  PROVE  /\ Stepping
         /\ phase = "loop" /\ queue # <<>> /\ queue[1].type = "EXECUTE"
         /\ queue \in Seq(JobSet)
<1>1. CASE Instruction
  <2>1. vm # Idle
    BY <1>1 DEF Instruction, FinishUnit, LeaveCall, LoadWord, Store, LoadArgument,
       PushWord, Call, Syscall, Jump, JumpZero, Unknown, Fetching
  <2>2. MachineInv
    BY <2>1 DEF MachineInv, VmFine
  <2> QED
    BY <1>1, <2>1, <2>2, InstructionStep DEF VmFine, QueueFine
<1>2. CASE Resume
  <2>1. phase = "loop" /\ queue # <<>> /\ Head(queue).type = "EXECUTE"
    BY <1>2 DEF Resume, Taking
  <2>2. queue \in Seq(JobSet) /\ Head(queue) = queue[1] /\ 1 \in 1 .. Len(queue)
    BY <2>1 DEF QueueFine
  <2> DEFINE m == Job.vm
  <2>3. MachineFine(m)
    BY <2>1, <2>2 DEF QueueFine, JobFine, Job
  <2>4. m.waiting \in DOMAIN ast \cup {NoNode} /\ m \in Machines
    BY <2>3 DEF MachineFine, MachineOK
  <2>5. CASE m.waiting # NoNode /\ ~ast[m.waiting].initialized
    <3>1. Await(m, m.waiting)
      BY <1>2, <2>5 DEF Resume
    <3>2. m.waiting \in DOMAIN ast
      BY <2>4, <2>5
    <3> HIDE DEF m
    <3> QED
      BY <2>1, <2>2, <2>3, <2>5, <3>1, <3>2 DEF Stepping, Waiting
  <2>6. CASE ~(m.waiting # NoNode /\ ~ast[m.waiting].initialized)
    <3>1. Continue([m EXCEPT !.waiting = NoNode])
      BY <1>2, <2>6 DEF Resume, Continue
    <3> HIDE DEF m
    <3>2. PICK n : n = [m EXCEPT !.waiting = NoNode]
      OBVIOUS
    <3>3. /\ n \in Machines /\ n.id = m.id /\ n.stack = m.stack
          /\ n.waiting = NoNode
      <4>1. NoNode \in Seq(Int)
        BY DEF NoNode
      <4> QED
        BY <2>4, <3>2, <4>1 DEF Machines
    <3>4. MachineFine(n)
      BY <2>3, <3>3 DEF MachineFine, MachineOK
    <3> QED
      BY <2>1, <2>2, <3>1, <3>2, <3>4 DEF Stepping, Running
  <2> QED
    BY <2>5, <2>6
<1> QED
  BY <1>1, <1>2 DEF Execute

-----------------------------------------------------------------------------
(* The nodes. *)

(* What every step but that of a PARSE job leaves of a node. *)
NodeTouched(before, after) ==
  /\ NodeKept(before, after)
  /\ DOMAIN after = NodeFields
  /\ {after.lhs, after.declaration} \subseteq DOMAIN ast \cup {NoNode}
  /\ after.initializing \in BOOLEAN /\ after.initialized \in BOOLEAN
  /\ after.value \in Words /\ Compiled(after.value)

Touched ==
  /\ ast' = [p \in DOMAIN ast |-> ast'[p]]
  /\ \A p \in DOMAIN ast : NodeTouched(ast[p], ast'[p])

LEMMA Fields ==
  NodeFields = {"kind", "name", "lit", "scope", "decls", "size", "left", "right",
                "argument", "index", "lhs", "declaration", "class", "error",
                "message", "code", "initializing", "initialized", "value"}
BY DEF NodeFields, Node

LEMMA Untouched ==
  ASSUME NodesFine, ast' = ast
  PROVE  Touched /\ \A p \in DOMAIN ast : ast'[p].code = ast[p].code
BY DEF NodesFine, Touched, NodeTouched, NodeKept, NodeOK

LEMMA StoringTouches ==
  ASSUME NodesFine, NEW d \in DOMAIN ast, NEW word \in Words, Compiled(word),
         ast' = Stored(d, word)
  PROVE  Touched /\ \A p \in DOMAIN ast : ast'[p].code = ast[p].code
<1>1. DOMAIN ast' = DOMAIN ast /\ ast' = [p \in DOMAIN ast |-> ast'[p]]
  BY DEF Stored
<1>2. ASSUME NEW p \in DOMAIN ast
      PROVE  NodeTouched(ast[p], ast'[p]) /\ ast'[p].code = ast[p].code
  <2>1. NodeOK(ast[p]) /\ Compiled(ast[p].value)
    BY DEF NodesFine
  <2>2. CASE p = d
    <3>1. ast'[p] = [ast[p] EXCEPT !.value = word, !.initialized = TRUE]
      BY <2>2 DEF Stored
    <3> DEFINE b == ast[p]
               a == ast'[p]
    <3>2. DOMAIN b = NodeFields /\ DOMAIN a = NodeFields
      BY <2>1, <3>1 DEF NodeOK
    <3>3. /\ a.kind = b.kind /\ a.code = b.code /\ a.class = b.class
          /\ a.lhs = b.lhs /\ a.declaration = b.declaration
          /\ a.initializing = b.initializing
          /\ a.initialized = TRUE /\ a.value = word
      BY <2>1, <3>1, Fields DEF NodeOK
    <3> HIDE DEF a, b
    <3>4. NodeTouched(b, a) /\ a.code = b.code
      BY <2>1, <3>2, <3>3 DEF NodeTouched, NodeKept, NodeOK, Begun, b
    <3> QED
      BY <3>4 DEF a, b
  <2>3. CASE p # d
    <3>1. ast'[p] = ast[p]
      BY <2>3 DEF Stored
    <3> QED
      BY <2>1, <3>1 DEF NodeTouched, NodeKept, NodeOK
  <2> QED
    BY <2>2, <2>3
<1> QED
  BY <1>1, <1>2 DEF Touched

LEMMA FinishingTouches ==
  ASSUME NodesFine, NEW d \in DOMAIN ast,
         ast' = Finished(d)
  PROVE  Touched /\ \A p \in DOMAIN ast : ast'[p].code = ast[p].code
<1>1. DOMAIN ast' = DOMAIN ast /\ ast' = [p \in DOMAIN ast |-> ast'[p]]
  BY DEF Finished
<1>2. ASSUME NEW p \in DOMAIN ast
      PROVE  NodeTouched(ast[p], ast'[p]) /\ ast'[p].code = ast[p].code
  <2>1. NodeOK(ast[p]) /\ Compiled(ast[p].value)
    BY DEF NodesFine
  <2>2. CASE p = d
    <3>1. ast'[p] = [ast[p] EXCEPT !.initializing = FALSE, !.initialized = TRUE]
      BY <2>2 DEF Finished
    <3> DEFINE b == ast[p]
               a == ast'[p]
    <3>2. DOMAIN b = NodeFields /\ DOMAIN a = NodeFields
      BY <2>1, <3>1 DEF NodeOK
    <3>3. /\ a.kind = b.kind /\ a.code = b.code /\ a.class = b.class
          /\ a.lhs = b.lhs /\ a.declaration = b.declaration
          /\ a.initializing = FALSE
          /\ a.initialized = TRUE /\ a.value = b.value
      BY <2>1, <3>1, Fields DEF NodeOK
    <3> HIDE DEF a, b
    <3>4. NodeTouched(b, a) /\ a.code = b.code
      BY <2>1, <3>2, <3>3 DEF NodeTouched, NodeKept, NodeOK, Begun, b
    <3> QED
      BY <3>4 DEF a, b
  <2>3. CASE p # d
    <3>1. ast'[p] = ast[p]
      BY <2>3 DEF Finished
    <3> QED
      BY <2>1, <3>1 DEF NodeTouched, NodeKept, NodeOK
  <2> QED
    BY <2>2, <2>3
<1> QED
  BY <1>1, <1>2 DEF Touched

LEMMA WaitingTouches ==
  ASSUME NodesFine, NEW d \in DOMAIN ast, NEW begins \in BOOLEAN,
         ast' = Awaited(d, begins)
  PROVE  /\ Touched /\ \A p \in DOMAIN ast : ast'[p].code = ast[p].code
         /\ begins => Begun(ast'[d])
<1>1. DOMAIN ast' = DOMAIN ast /\ ast' = [p \in DOMAIN ast |-> ast'[p]]
  BY DEF Awaited
<1>2. ASSUME NEW p \in DOMAIN ast
      PROVE  /\ NodeTouched(ast[p], ast'[p]) /\ ast'[p].code = ast[p].code
             /\ p = d /\ begins => Begun(ast'[p])
  <2>1. NodeOK(ast[p]) /\ Compiled(ast[p].value)
    BY DEF NodesFine
  <2>2. CASE p = d
    <3> DEFINE flag == ast[p].initializing \/ begins
    <3>1. ast'[p] = [ast[p] EXCEPT !.initializing = flag]
      BY <2>2 DEF Awaited
    <3> DEFINE b == ast[p]
               a == ast'[p]
    <3>2. DOMAIN b = NodeFields /\ DOMAIN a = NodeFields
      BY <2>1, <3>1 DEF NodeOK
    <3>3. flag \in BOOLEAN /\ (flag <=> b.initializing \/ begins)
      OBVIOUS
    <3> HIDE DEF flag
    <3>4. /\ a.kind = b.kind /\ a.code = b.code /\ a.class = b.class
          /\ a.lhs = b.lhs /\ a.declaration = b.declaration
          /\ a.initializing = flag
          /\ a.initialized = b.initialized /\ a.value = b.value
      BY <2>1, <3>1, Fields DEF NodeOK
    <3> HIDE DEF a, b
    <3>5. Begun(b) => Begun(a)
      BY <3>3, <3>4, Zenon DEF Begun
    <3>6. begins => Begun(a)
      BY <3>3, <3>4, Zenon DEF Begun
    <3>7. NodeTouched(b, a) /\ a.code = b.code
      BY <2>1, <3>2, <3>3, <3>4, <3>5 DEF NodeTouched, NodeKept, NodeOK, b
    <3> QED
      BY <3>6, <3>7 DEF a, b
  <2>3. CASE p # d
    <3>1. ast'[p] = ast[p]
      BY <2>3 DEF Awaited
    <3> QED
      BY <2>1, <2>3, <3>1 DEF NodeTouched, NodeKept, NodeOK
  <2> QED
    BY <2>2, <2>3
<1> QED
  BY <1>1, <1>2 DEF Touched

(* What follows for all nodes. *)
LEMMA TouchedGrows ==
  ASSUME Touched, program' = program,
         Len(bytecode) \in Nat, Len(bytecode') \in Nat,
         Len(bytecode) <= Len(bytecode')
  PROVE  Grows /\ DOMAIN ast' = DOMAIN ast
BY DEF Grows, Touched, NodeTouched

LEMMA TouchedStaysFine ==
  ASSUME NodesFine, Touched, Grows, DOMAIN ast' = DOMAIN ast,
         \A p \in DOMAIN ast : ast'[p].code \in -1 .. Len(bytecode') - 1
  PROVE  NodesFine'
<1>1. /\ Words' = Words /\ NodeFields' = NodeFields
      /\ NoNode' = NoNode /\ Global' = Global
  BY DEF Words, Data, Junk, NodeFields, Node, NoNode, NoName, NoType, Null, Num, Global
<1>2. ASSUME NEW p \in DOMAIN ast, NEW a, a = ast'[p]
      PROVE  NodeOK(a)' /\ Compiled(a.value)'
  <2>1. NodeTouched(ast[p], a) /\ a.code \in -1 .. Len(bytecode') - 1
    BY <1>2 DEF Touched
  <2>2. Compiled(a.value)'
    BY <2>1, CompiledStays DEF NodeTouched
  <2> QED
    BY <1>1, <2>1, <2>2 DEF NodeTouched, NodeOK
<1> QED
  BY <1>1, <1>2 DEF NodesFine, Touched

LEMMA SameCodesStay ==
  ASSUME CodesDistinct, DOMAIN ast' = DOMAIN ast,
         \A p \in DOMAIN ast : ast'[p].code = ast[p].code
  PROVE  CodesDistinct'
BY DEF CodesDistinct

-----------------------------------------------------------------------------
(* The invariant after one turn of the loop. *)

(* What the other parts of the invariant say when nodes only grow. *)
TablesFine == NodesFine /\ UnitsFine /\ InitializersFine /\ CodesDistinct

(* A handler has ended: its job is gone, and others have been put behind.   *)
LEMMA Emitting ==
  ASSUME IInv, Flags', TablesFine', Grows, vm' = Idle,
         phase = "loop", phase' = "loop", queue # <<>>, queue[1] # SENTINEL,
         NEW e \in Seq(JobSet), queue' = Tail(queue) \o e,
         \A i \in 1 .. Len(e) : e[i] # SENTINEL /\ JobFine(e[i])',
         \/ did_work'
         \/ did_work' = did_work /\ \A i \in 1 .. Len(e) : e[i].type \in Retryable,
         \A i, j \in 1 .. Len(e) :
           /\ IsNodeJob(e[i]) /\ IsNodeJob(e[j]) /\ e[i].node = e[j].node
           => i = j,
         \A i \in 1 .. Len(e) :
           IsNodeJob(e[i]) =>
             /\ Opened(e[i].node)' /\ ast'[e[i].node].code = -1
             /\ \A j \in 1 .. Len(queue) :
                  j # 1 /\ IsNodeJob(queue[j]) => e[i].node # queue[j].node,
         \A j \in 1 .. Len(queue) :
           j # 1 /\ IsNodeJob(queue[j]) => ast'[queue[j].node].code = -1,
         \A q \in DOMAIN ast' :
           ast'[q].code # -1 =>
             (q \in DOMAIN ast /\ ast[q].code # -1) \/ Opened(q)'
  PROVE  IInv'
<1>1. queue \in Seq(JobSet)
  BY DEF IInv, QueueFine
<1>2. QueueFine'
  BY QueueStaysFine DEF IInv
<1>3. LoopInv'
  BY <1>1, LoopStays DEF IInv
<1>4. NodesHandledOnce'
  BY <1>1, HandledStaysOnce DEF IInv
<1>5. OpenedFirst'
  BY <1>1, OpenedStaysFirst DEF IInv
<1>6. VmFine'
  BY DEF VmFine, Idle, Machine
<1> QED
  BY <1>2, <1>3, <1>4, <1>5, <1>6 DEF IInv, TablesFine

(* The queue is as it was. *)
LEMMA QueueUntouched ==
  ASSUME QueueFine, NodesHandledOnce, OpenedFirst, NodesFine, Grows, queue' = queue,
         DOMAIN ast' = DOMAIN ast,
         \A p \in DOMAIN ast : ast'[p].code = ast[p].code
  PROVE  QueueFine' /\ NodesHandledOnce' /\ OpenedFirst'
<1>1. QueueFine'
  <2>1. ASSUME NEW i \in 1 .. Len(queue), NEW job, job = queue[i]
        PROVE  JobFine(job)'
    BY <2>1, JobStaysFine DEF QueueFine
  <2> QED
    BY <2>1, ConstantsStay DEF QueueFine
<1>2. NodesHandledOnce'
  <2>1. \A i \in NodeJobs : queue[i].node \in DOMAIN ast
    BY DEF QueueFine, JobFine, NodeJobs
  <2>2. NodeJobs' = NodeJobs
    BY ConstantsStay DEF NodeJobs
  <2> QED
    BY <2>1, <2>2 DEF NodesHandledOnce
<1>3. OpenedFirst'
  <2>1. NodeJobs' = NodeJobs
    BY ConstantsStay DEF NodeJobs
  <2>2. ASSUME NEW i \in NodeJobs, NEW q, q = queue[i].node PROVE Opened(q)'
    BY <2>2, OpenedStays DEF OpenedFirst
  <2>3. ASSUME NEW q \in DOMAIN ast, ast[q].code # -1 PROVE Opened(q)'
    BY <2>3, OpenedStays DEF OpenedFirst
  <2> QED
    BY <2>1, <2>2, <2>3 DEF OpenedFirst
<1> QED
  BY <1>1, <1>2, <1>3

(* What is known of the job that is taken. *)
LEMMA HeadFacts ==
  ASSUME QueueFine, NEW type, Taking(type)
  PROVE  /\ phase = "loop" /\ queue # <<>> /\ queue \in Seq(JobSet)
         /\ Job = queue[1] /\ 1 \in 1 .. Len(queue)
         /\ queue[1] \in JobSet /\ JobFine(Job) /\ queue[1].type = type
         /\ type # "SENTINEL" => queue[1] # SENTINEL
<1>1. /\ phase = "loop" /\ queue # <<>> /\ queue \in Seq(JobSet)
      /\ Job = queue[1] /\ 1 \in 1 .. Len(queue) /\ queue[1].type = type
  BY DEF QueueFine, Taking, Job
<1>2. queue[1] \in JobSet /\ JobFine(queue[1])
  BY <1>1 DEF QueueFine
<1> QED
  BY <1>1, <1>2, SentinelIsOne

LEMMA NoMachine ==
  ASSUME VmFine, phase # "loop" \/ queue = <<>> \/ queue[1].type # "EXECUTE"
  PROVE  vm = Idle /\ Idle' = Idle
BY DEF VmFine, Idle, Machine, NoNode, NoFrame

(* A step that makes no bytecode and no nodes. *)
LEMMA TablesTouched ==
  ASSUME NodesFine, UnitsFine, InitializersFine, CodesDistinct,
         Touched, \A p \in DOMAIN ast : ast'[p].code = ast[p].code,
         UNCHANGED <<program, bytecode, initializers>>
  PROVE  TablesFine' /\ Grows /\ DOMAIN ast' = DOMAIN ast
<1>1. Len(bytecode) \in Nat
  BY DEF UnitsFine
<1>2. Grows /\ DOMAIN ast' = DOMAIN ast
  BY <1>1, TouchedGrows
<1>3. NodesFine'
  BY <1>2, TouchedStaysFine DEF NodesFine, NodeOK
<1> QED
  BY <1>2, <1>3, UnitsStayFine, InitializersStayFine, SameCodesStay DEF TablesFine

LEMMA TablesUnchanged ==
  ASSUME IInv, UNCHANGED <<program, ast, bytecode, initializers>>
  PROVE  /\ TablesFine' /\ Grows /\ DOMAIN ast' = DOMAIN ast
         /\ \A p \in DOMAIN ast : ast'[p].code = ast[p].code
BY Untouched, TablesTouched DEF IInv

(* A node that has a job has no bytecode, and those with bytecode keep it. *)
LEMMA CodesKept ==
  ASSUME IInv, DOMAIN ast' = DOMAIN ast,
         \A p \in DOMAIN ast : ast'[p].code = ast[p].code
  PROVE  /\ \A j \in 1 .. Len(queue) :
              IsNodeJob(queue[j]) =>
                queue[j].node \in DOMAIN ast /\ ast'[queue[j].node].code = -1
         /\ \A q \in DOMAIN ast' :
              ast'[q].code # -1 => q \in DOMAIN ast /\ ast[q].code # -1
BY DEF IInv, QueueFine, JobFine, NodesHandledOnce, NodeJobs, IsNodeJob

LEMMA EmittingNoNodes ==
  ASSUME IInv, Flags', TablesFine', Grows, vm' = Idle,
         DOMAIN ast' = DOMAIN ast,
         \A p \in DOMAIN ast : ast'[p].code = ast[p].code,
         phase = "loop", phase' = "loop", queue # <<>>, queue[1] # SENTINEL,
         NEW e \in Seq(JobSet), queue' = Tail(queue) \o e,
         \A i \in 1 .. Len(e) :
           e[i] # SENTINEL /\ JobFine(e[i])' /\ ~IsNodeJob(e[i]),
         \/ did_work'
         \/ did_work' = did_work /\ \A i \in 1 .. Len(e) : e[i].type \in Retryable
  PROVE  IInv'
<1>1. /\ \A j \in 1 .. Len(queue) :
           IsNodeJob(queue[j]) => ast'[queue[j].node].code = -1
      /\ \A q \in DOMAIN ast' :
           ast'[q].code # -1 => q \in DOMAIN ast /\ ast[q].code # -1
  BY CodesKept
<1> QED
  BY <1>1, Emitting

(* The process ends, and leaves everything as it was but the machine. *)
LEMMA CrashStep ==
  ASSUME IInv, phase' = "crashed", vm' = Idle,
         UNCHANGED <<queue, did_work, reported_errors,
                     program, ast, bytecode, initializers, told>>
  PROVE  IInv'
<1>1. /\ TablesFine' /\ Grows /\ DOMAIN ast' = DOMAIN ast
      /\ \A p \in DOMAIN ast : ast'[p].code = ast[p].code
  BY TablesUnchanged
<1>2. QueueFine' /\ NodesHandledOnce' /\ OpenedFirst'
  BY <1>1, QueueUntouched DEF IInv
<1>3. Flags' /\ VmFine'
  BY DEF IInv, Flags, Phases, VmFine, Idle, Machine
<1>4. LoopInv'
  BY DEF LoopInv, SentinelUnique, SentinelGone, QuietRound, DrainsOnlyRetryable
<1> QED
  BY <1>1, <1>2, <1>3, <1>4 DEF IInv, TablesFine

LEMMA ReadStep ==
  ASSUME IInv, Read
  PROVE  IInv'
<1>1. /\ phase = "loop" /\ queue # <<>> /\ queue \in Seq(JobSet)
      /\ Job = queue[1] /\ queue[1] \in JobSet /\ queue[1].type = "READ"
      /\ queue[1] # SENTINEL
  BY HeadFacts DEF Read, IInv
<1>2. vm' = Idle
  BY <1>1, NoMachine DEF Read, IInv
<1>3. /\ TablesFine' /\ Grows /\ DOMAIN ast' = DOMAIN ast
      /\ \A p \in DOMAIN ast : ast'[p].code = ast[p].code
  BY TablesUnchanged DEF Read
<1>4. Job.file \in FileNames
  BY <1>1 DEF JobSet, SENTINEL, NodeTypes
<1>5. CASE Job.file \in DOMAIN program
  <2>1. PICK job : job = FileJob("LEX", Job.file)
    OBVIOUS
  <2>2. job \in JobSet /\ job # SENTINEL /\ ~IsNodeJob(job) /\ job.type = "LEX"
    BY <1>4, <2>1 DEF JobSet, FileJob, FileTypes, SENTINEL, IsNodeJob, NodeTypes
  <2>3. JobFine(job)'
    BY <1>5, <2>1 DEF JobFine, FileJob, NodeTypes, Read
  <2>4. PICK e : e = <<job>>
    OBVIOUS
  <2>5. /\ e \in Seq(JobSet) /\ Len(e) = 1
        /\ \A i \in 1 .. Len(e) : e[i] = job
    BY <2>2, <2>4
  <2>6. Completed(e)
    BY <1>5, <2>1, <2>4 DEF Read
  <2>7. queue' = Tail(queue) \o e /\ phase' = "loop" /\ did_work' /\ Flags'
    BY <1>1, <2>6 DEF Completed, IInv, Flags, Read, Phases
  <2> QED
    BY <1>1, <1>2, <1>3, <2>2, <2>3, <2>5, <2>7, EmittingNoNodes
<1>6. CASE Job.file \notin DOMAIN program
  <2>1. PICK e : e = <<>>
    OBVIOUS
  <2>2. e \in Seq(JobSet) /\ Len(e) = 0
    BY <2>1
  <2>3. queue' = Tail(queue) \o e /\ UNCHANGED <<did_work, reported_errors, phase>>
    BY <1>1, <1>6, <2>1 DEF Read, Dropped
  <2>4. Flags'
    BY <2>3 DEF IInv, Flags, Read, Phases
  <2>5. \A i : i \notin 1 .. Len(e)
    BY <2>2
  <2> QED
    BY <1>1, <1>2, <1>3, <2>2, <2>3, <2>4, <2>5, EmittingNoNodes
<1> QED
  BY <1>5, <1>6

LEMMA LexStep ==
  ASSUME IInv, Lex
  PROVE  IInv'
<1>1. /\ phase = "loop" /\ queue # <<>> /\ queue \in Seq(JobSet)
      /\ Job = queue[1] /\ queue[1] \in JobSet /\ queue[1].type = "LEX"
      /\ queue[1] # SENTINEL /\ JobFine(Job)
  BY HeadFacts DEF Lex, IInv
<1>2. vm' = Idle
  BY <1>1, NoMachine DEF Lex, IInv
<1>3. /\ TablesFine' /\ Grows /\ DOMAIN ast' = DOMAIN ast
      /\ \A p \in DOMAIN ast : ast'[p].code = ast[p].code
  BY TablesUnchanged DEF Lex
<1>4. Job.file \in FileNames /\ Job.file \in DOMAIN program
  BY <1>1 DEF JobSet, SENTINEL, NodeTypes, JobFine
<1>5. PICK job : job = FileJob("PARSE", Job.file)
  OBVIOUS
<1>6. job \in JobSet /\ job # SENTINEL /\ ~IsNodeJob(job) /\ job.type = "PARSE"
  BY <1>4, <1>5 DEF JobSet, FileJob, FileTypes, SENTINEL, IsNodeJob, NodeTypes
<1>7. JobFine(job)'
  BY <1>4, <1>5 DEF JobFine, FileJob, NodeTypes, Lex
<1>8. PICK e : e = <<job>>
  OBVIOUS
<1>9. /\ e \in Seq(JobSet) /\ Len(e) = 1
      /\ \A i \in 1 .. Len(e) : e[i] = job
  BY <1>6, <1>8
<1>10. Completed(e)
  BY <1>5, <1>8 DEF Lex
<1>11. queue' = Tail(queue) \o e /\ phase' = "loop" /\ did_work' /\ Flags'
  BY <1>1, <1>10 DEF Completed, IInv, Flags, Lex, Phases
<1> QED
  BY <1>1, <1>2, <1>3, <1>6, <1>7, <1>9, <1>11, EmittingNoNodes

(* The node of the job that is taken has no other job. *)
LEMMA NodeTaken ==
  ASSUME IInv, NEW type \in NodeTypes, Taking(type)
  PROVE  /\ Job.node \in DOMAIN ast /\ Job.node \in Seq(Int)
         /\ Opened(Job.node) /\ ast[Job.node].code = -1
         /\ \A j \in 1 .. Len(queue) :
              j # 1 /\ IsNodeJob(queue[j]) => Job.node # queue[j].node
<1>1. Job = queue[1] /\ 1 \in NodeJobs /\ JobFine(Job) /\ Job.type \in NodeTypes
  BY HeadFacts DEF IInv, NodeJobs
<1>2. Job.node \in DOMAIN ast
  BY <1>1 DEF JobFine
<1>3. \A j \in 1 .. Len(queue) : IsNodeJob(queue[j]) => j \in NodeJobs
  BY DEF NodeJobs, IsNodeJob
<1>4. Job.node \in Seq(Int)
  BY <1>2 DEF IInv, NodesFine
<1> QED
  BY <1>1, <1>2, <1>3, <1>4 DEF IInv, NodesHandledOnce, OpenedFirst

LEMMA OptimizeStep ==
  ASSUME IInv, Optimize
  PROVE  IInv'
<1>1. /\ phase = "loop" /\ queue # <<>> /\ queue \in Seq(JobSet)
      /\ queue[1].type = "OPTIMIZE" /\ queue[1] # SENTINEL
  BY HeadFacts DEF Optimize, IInv
<1>2. vm' = Idle
  BY <1>1, NoMachine DEF Optimize, IInv
<1>3. /\ TablesFine' /\ Grows /\ DOMAIN ast' = DOMAIN ast
      /\ \A p \in DOMAIN ast : ast'[p].code = ast[p].code
  BY TablesUnchanged DEF Optimize
<1>4. PICK p : p = Job.node
  OBVIOUS
<1>5. /\ p \in DOMAIN ast /\ p \in Seq(Int) /\ Opened(p) /\ ast[p].code = -1
      /\ \A j \in 1 .. Len(queue) :
           j # 1 /\ IsNodeJob(queue[j]) => p # queue[j].node
  BY <1>4, NodeTaken DEF Optimize, NodeTypes
<1>6. Opened(p)' /\ ast'[p].code = -1
  BY <1>3, <1>5, OpenedStays
<1>7. PICK job : job = NodeJob("BYTECODE", p)
  OBVIOUS
<1>8. job \in JobSet /\ job # SENTINEL /\ job.node = p /\ job.type = "BYTECODE"
  BY <1>5, <1>7 DEF JobSet, NodeJob, SENTINEL, NodeTypes
<1>9. JobFine(job)'
  BY <1>3, <1>5, <1>8 DEF JobFine
<1>10. PICK e : e = <<job>>
  OBVIOUS
<1>11. /\ e \in Seq(JobSet) /\ Len(e) = 1
       /\ \A i \in 1 .. Len(e) : i = 1 /\ e[i] = job
  BY <1>8, <1>10
<1>12. Completed(e)
  BY <1>4, <1>7, <1>10 DEF Optimize
<1>13. queue' = Tail(queue) \o e /\ phase' = "loop" /\ did_work' /\ Flags'
  BY <1>1, <1>12 DEF Completed, IInv, Flags, Optimize, Phases
<1>14. /\ \A j \in 1 .. Len(queue) :
            IsNodeJob(queue[j]) => ast'[queue[j].node].code = -1
       /\ \A q \in DOMAIN ast' :
            ast'[q].code # -1 => q \in DOMAIN ast /\ ast[q].code # -1
  BY <1>3, CodesKept
<1> QED
  BY <1>1, <1>2, <1>3, <1>5, <1>6, <1>8, <1>9, <1>11, <1>13, <1>14, Emitting

-----------------------------------------------------------------------------
(* Parsing. *)

(* Where a file's loads lead are names of files. *)
LEMMA LoadsNamed ==
  ASSUME program \in Programs, NEW file \in DOMAIN program,
         NEW n \in 1 .. Len(program[file])
  PROVE  /\ Len(program[file]) \in Nat
         /\ program[file][n].k = "LOAD" => program[file][n].file \in FileNames
<1> DEFINE terms == program[file]
           Loads(files, f) ==
             {t.file : t \in {u \in {files[f][i] : i \in DOMAIN files[f]} :
                                u.k = "LOAD"}}
<1>1. terms \in Seq({terms[i] : i \in DOMAIN terms})
  BY ProgramsAssumption
<1>2. Len(terms) \in Nat /\ DOMAIN terms = 1 .. Len(terms)
  BY <1>1
<1>3. ASSUME terms[n].k = "LOAD" PROVE terms[n].file \in Loads(program, file)
  <2>1. n \in DOMAIN terms
    BY <1>2
  <2> QED
    BY <1>3, <2>1
<1>4. Loads(program, file) \subseteq FileNames
  BY DEF FileNames
<1> QED
  BY <1>2, <1>3, <1>4

LEMMA ParsedTables ==
  ASSUME IInv, HandlersKeep, Parse
  PROVE  /\ TablesFine' /\ Grows
         /\ \A p \in DOMAIN ast : ast'[p] = ast[p]
         /\ \A p \in DOMAIN ast' : ast'[p].code # -1 => p \in DOMAIN ast
<1> DEFINE f == FilesParsed + 1
           terms == program[Job.file]
           new == ParsedFile(terms, f)
<1>1. /\ DOMAIN new \subseteq Seq(Int) /\ NoNode \notin DOMAIN new
      /\ DOMAIN new \cap DOMAIN ast = {}
      /\ \A p \in DOMAIN new :
           /\ DOMAIN new[p] = NodeFields
           /\ {new[p].lhs, new[p].declaration} \subseteq DOMAIN new \cup {NoNode}
           /\ new[p].code = -1 /\ new[p].value = Null
           /\ new[p].initializing = FALSE /\ new[p].initialized = FALSE
  BY DEF Parse, HandlersKeep, ParserContract
<1>2. /\ ast' = WithNodes(ast, new)
      /\ UNCHANGED <<program, bytecode, initializers>>
  BY DEF Parse
<1>3. PICK table : table = new
  OBVIOUS
<1> HIDE DEF f, terms, new
<1>4. /\ DOMAIN ast' = DOMAIN ast \cup DOMAIN table
      /\ ast' = [p \in DOMAIN ast' |-> ast'[p]]
      /\ \A p \in DOMAIN table : ast'[p] = table[p]
      /\ \A p \in DOMAIN ast : ast'[p] = ast[p]
  BY <1>1, <1>2, <1>3 DEF WithNodes
<1>5. Len(bytecode) \in Nat /\ Len(bytecode') = Len(bytecode)
  BY <1>2 DEF IInv, UnitsFine
<1>6. Grows
  BY <1>2, <1>4, <1>5 DEF Grows, NodeKept
<1>7. /\ Words' = Words /\ NodeFields' = NodeFields
      /\ NoNode' = NoNode /\ Global' = Global
  BY DEF Words, Data, Junk, NodeFields, Node, NoNode, NoName, NoType, Null, Num, Global
<1>8. ASSUME NEW p \in DOMAIN ast', NEW a, a = ast'[p]
      PROVE  p \in Seq(Int) /\ NodeOK(a)' /\ Compiled(a.value)'
  <2>1. CASE p \in DOMAIN ast
    <3>1. a = ast[p]
      BY <1>4, <1>8, <2>1
    <3>2. p \in Seq(Int) /\ NodeOK(a) /\ Compiled(a.value)
      BY <2>1, <3>1 DEF IInv, NodesFine
    <3>3. Compiled(a.value)'
      BY <1>6, <3>2, CompiledStays
    <3> QED
      BY <1>4, <1>5, <1>7, <3>2, <3>3 DEF NodeOK
  <2>2. CASE p \in DOMAIN table
    <3>1. a = table[p]
      BY <1>4, <1>8, <2>2
    <3>2. /\ p \in Seq(Int) /\ DOMAIN a = NodeFields
          /\ {a.lhs, a.declaration} \subseteq DOMAIN table \cup {NoNode}
          /\ a.code = -1 /\ a.value = Null
          /\ a.initializing = FALSE /\ a.initialized = FALSE
      BY <1>1, <1>3, <2>2, <3>1
    <3>3. Null \in Words /\ Null[1] # "node"
      BY DEF Null, Num, Words
    <3>4. {a.lhs, a.declaration} \subseteq DOMAIN ast' \cup {NoNode}
      BY <1>4, <3>2
    <3>5. a.code \in -1 .. Len(bytecode') - 1
      BY <1>5, <3>2
    <3>6. NodeOK(a)'
      BY <1>7, <3>2, <3>3, <3>4, <3>5 DEF NodeOK
    <3>7. Compiled(a.value)'
      BY <3>2, <3>3 DEF Compiled
    <3> QED
      BY <3>2, <3>6, <3>7
  <2> QED
    BY <1>4, <2>1, <2>2
<1>9. NodesFine'
  <2>1. Global \in DOMAIN ast' /\ NoNode \notin DOMAIN ast'
    BY <1>1, <1>3, <1>4 DEF IInv, NodesFine
  <2> QED
    BY <1>4, <1>7, <1>8, <2>1 DEF NodesFine
<1>10. \A p \in DOMAIN ast' : ast'[p].code # -1 => p \in DOMAIN ast
  BY <1>1, <1>3, <1>4
<1>11. CodesDistinct'
  BY <1>4, <1>10 DEF IInv, CodesDistinct
<1> QED
  BY <1>2, <1>4, <1>6, <1>9, <1>10, <1>11, UnitsStayFine, InitializersStayFine
     DEF IInv, TablesFine

(* The jobs of a file's items: each node gets one, and its parent is the    *)
(* file's own node.                                                         *)
LEMMA ParsedJobs ==
  ASSUME IInv, HandlersKeep, Parse,
         NEW terms, terms = program[Job.file],
         NEW f, f = FilesParsed + 1,
         NEW e, e = ItemJobs(terms, f)
  PROVE  /\ e \in Seq(JobSet) /\ Completed(e)
         /\ \A i \in 1 .. Len(e) : e[i] # SENTINEL /\ JobFine(e[i])'
         /\ \A i, j \in 1 .. Len(e) :
              /\ IsNodeJob(e[i]) /\ IsNodeJob(e[j]) /\ e[i].node = e[j].node
              => i = j
         /\ \A i \in 1 .. Len(e) :
              IsNodeJob(e[i]) => Opened(e[i].node)' /\ e[i].node \notin DOMAIN ast
                                 /\ e[i].node \in DOMAIN ast'
<1> DEFINE new == ParsedFile(terms, f)
           count == NodesUpTo(terms, Len(terms))
<1>1. /\ Job.file \in DOMAIN program /\ program \in Programs
      /\ Completed(e) /\ ast' = WithNodes(ast, new) /\ program' = program
  BY HeadFacts DEF Parse, IInv, JobFine, Flags
<1>2. /\ DOMAIN new \subseteq Seq(Int) /\ DOMAIN new \cap DOMAIN ast = {}
      /\ <<f>> \in DOMAIN new /\ new[<<f>>].kind = "FILE"
      /\ \A i \in 1 .. count : Child(<<f>>, i) \in DOMAIN new
  BY DEF Parse, HandlersKeep, ParserContract
<1> HIDE DEF new
<1>3. /\ DOMAIN ast' = DOMAIN ast \cup DOMAIN new
      /\ \A p \in DOMAIN new : ast'[p] = new[p]
  BY <1>1 DEF WithNodes
<1>4. Len(terms) \in Nat
  <2>1. terms \in Seq({terms[i] : i \in DOMAIN terms})
    BY <1>1, ProgramsAssumption
  <2> QED
    BY <2>1
<1>5. \A n \in 1 .. Len(terms) : terms[n].k = "LOAD" => terms[n].file \in FileNames
  BY <1>1, LoadsNamed
<1>6. \A n \in 1 .. Len(terms) : terms[n].k # "LOAD" =>
        /\ NodesUpTo(terms, n) \in 1 .. count
        /\ \A j \in 1 .. Len(terms) :
             terms[j].k # "LOAD" /\ NodesUpTo(terms, j) = NodesUpTo(terms, n)
               => j = n
  BY <1>4, ItemsNumbered
<1>7. <<f>> \in Seq(Int)
  BY <1>2
<1>8. ASSUME NEW i \in 1 .. count, NEW q, q = Child(<<f>>, i)
      PROVE  /\ q \in Seq(Int) /\ q \notin DOMAIN ast /\ q \in DOMAIN ast'
             /\ Opened(q)'
  <2>1. q \in DOMAIN new /\ q \in Seq(Int)
    BY <1>2, <1>8
  <2>2. i \in Int
    BY <1>8
  <2>3. Parent(q) = <<f>>
    BY <1>7, <1>8, <2>2, ParentOfChild
  <2>4. Opened(q)'
    BY <1>2, <1>3, <2>3 DEF Opened, Parent
  <2> QED
    BY <1>2, <1>3, <2>1, <2>4
<1>9. /\ Len(e) = Len(terms)
      /\ \A n \in 1 .. Len(terms) : e[n] = ItemJob(terms, f, n)
      /\ e = [n \in 1 .. Len(terms) |-> e[n]]
  BY <1>4 DEF ItemJobs
<1>10. ASSUME NEW n \in 1 .. Len(terms), terms[n].k = "LOAD"
       PROVE  /\ e[n] \in JobSet /\ e[n].type = "READ"
  <2>1. PICK file \in FileNames : file = terms[n].file
    BY <1>5, <1>10
  <2>2. e[n] = FileJob("READ", file)
    BY <1>9, <1>10, <2>1 DEF ItemJob
  <2> QED
    BY <2>2 DEF FileJob, JobSet, FileTypes
<1>11. ASSUME NEW n \in 1 .. Len(terms), terms[n].k # "LOAD"
       PROVE  /\ e[n] \in JobSet /\ e[n].type \in {"ABORT", "TYPECHECK"}
              /\ e[n].node = Child(<<f>>, NodesUpTo(terms, n))
              /\ NodesUpTo(terms, n) \in 1 .. count
  <2>1. NodesUpTo(terms, n) \in 1 .. count
    BY <1>6, <1>11
  <2>2. PICK q : q = Child(<<f>>, NodesUpTo(terms, n))
    OBVIOUS
  <2>3. q \in Seq(Int)
    BY <1>8, <2>1, <2>2
  <2>4. e[n] = NodeJob(IF terms[n].k = "RECOVERY" THEN "ABORT" ELSE "TYPECHECK", q)
    BY <1>9, <1>11, <2>2 DEF ItemJob
  <2> QED
    BY <2>1, <2>2, <2>3, <2>4 DEF NodeJob, JobSet, NodeTypes
<1>12. ASSUME NEW n \in 1 .. Len(terms), NEW job, job = e[n]
       PROVE  job # SENTINEL /\ JobFine(job)'
  <2>1. CASE terms[n].k = "LOAD"
    BY <1>10, <1>12, <2>1 DEF JobFine, SENTINEL, NodeTypes
  <2>2. CASE terms[n].k # "LOAD"
    <3>1. job.node \in DOMAIN ast' /\ job.type \in {"ABORT", "TYPECHECK"}
      BY <1>8, <1>11, <1>12, <2>2
    <3> QED
      BY <3>1 DEF JobFine, SENTINEL
  <2> QED
    BY <2>1, <2>2
<1>13. \A n \in 1 .. Len(terms) : IsNodeJob(e[n]) => terms[n].k # "LOAD"
  BY <1>10 DEF IsNodeJob, NodeTypes
<1>14. ASSUME NEW i \in 1 .. Len(terms), NEW j \in 1 .. Len(terms),
              IsNodeJob(e[i]), IsNodeJob(e[j]), e[i].node = e[j].node
       PROVE  i = j
  <2>1. Child(<<f>>, NodesUpTo(terms, i)) = Child(<<f>>, NodesUpTo(terms, j))
    BY <1>11, <1>13, <1>14
  <2>2. NodesUpTo(terms, i) \in Int /\ NodesUpTo(terms, j) \in Int
    BY <1>11, <1>13, <1>14
  <2>3. PICK a, b : a = NodesUpTo(terms, i) /\ b = NodesUpTo(terms, j)
    OBVIOUS
  <2>4. a \in Int /\ b \in Int /\ Child(<<f>>, a) = Child(<<f>>, b)
    BY <2>1, <2>2, <2>3
  <2>5. a = b
    BY <1>7, <2>4, ChildrenDiffer
  <2>6. terms[i].k # "LOAD" /\ terms[j].k # "LOAD"
    BY <1>13, <1>14
  <2> QED
    BY <1>6, <1>14, <2>3, <2>5, <2>6
<1>15. ASSUME NEW n \in 1 .. Len(terms), IsNodeJob(e[n]), NEW q, q = e[n].node
       PROVE  Opened(q)' /\ q \notin DOMAIN ast /\ q \in DOMAIN ast'
  BY <1>8, <1>11, <1>13, <1>15
<1>16. e \in Seq(JobSet)
  BY <1>4, <1>9, <1>10, <1>11
<1> QED
  BY <1>1, <1>9, <1>12, <1>14, <1>15, <1>16

LEMMA ParseStep ==
  ASSUME IInv, HandlersKeep, Parse
  PROVE  IInv'
<1>1. /\ phase = "loop" /\ queue # <<>> /\ queue \in Seq(JobSet)
      /\ queue[1].type = "PARSE" /\ queue[1] # SENTINEL
  BY HeadFacts DEF Parse, IInv
<1>2. vm' = Idle
  BY <1>1, NoMachine DEF Parse, IInv
<1>3. /\ TablesFine' /\ Grows
      /\ \A p \in DOMAIN ast : ast'[p] = ast[p]
      /\ \A p \in DOMAIN ast' : ast'[p].code # -1 => p \in DOMAIN ast
  BY ParsedTables
<1>4. PICK terms : terms = program[Job.file]
  OBVIOUS
<1>5. PICK f : f = FilesParsed + 1
  OBVIOUS
<1>6. PICK e : e = ItemJobs(terms, f)
  OBVIOUS
<1>7. /\ e \in Seq(JobSet) /\ Completed(e)
      /\ \A i \in 1 .. Len(e) : e[i] # SENTINEL /\ JobFine(e[i])'
      /\ \A i, j \in 1 .. Len(e) :
           /\ IsNodeJob(e[i]) /\ IsNodeJob(e[j]) /\ e[i].node = e[j].node
           => i = j
      /\ \A i \in 1 .. Len(e) :
           IsNodeJob(e[i]) => Opened(e[i].node)' /\ e[i].node \notin DOMAIN ast
                              /\ e[i].node \in DOMAIN ast'
  BY <1>4, <1>5, <1>6, ParsedJobs
<1>8. queue' = Tail(queue) \o e /\ phase' = "loop" /\ did_work' /\ Flags'
  BY <1>1, <1>7 DEF Completed, IInv, Flags, Parse, Phases
<1>9. \A j \in 1 .. Len(queue) : IsNodeJob(queue[j]) =>
        /\ queue[j].node \in DOMAIN ast
        /\ ast[queue[j].node].code = -1
  BY DEF IInv, QueueFine, JobFine, NodesHandledOnce, NodeJobs, IsNodeJob
<1>10. \A i \in 1 .. Len(e) :
         IsNodeJob(e[i]) =>
           /\ Opened(e[i].node)' /\ ast'[e[i].node].code = -1
           /\ \A j \in 1 .. Len(queue) :
                j # 1 /\ IsNodeJob(queue[j]) => e[i].node # queue[j].node
  BY <1>3, <1>7, <1>9
<1>11. \A j \in 1 .. Len(queue) :
         IsNodeJob(queue[j]) => ast'[queue[j].node].code = -1
  BY <1>3, <1>9
<1>12. \A q \in DOMAIN ast' :
         ast'[q].code # -1 => q \in DOMAIN ast /\ ast[q].code # -1
  BY <1>3
<1> QED
  BY <1>1, <1>2, <1>3, <1>7, <1>8, <1>10, <1>11, <1>12, Emitting

-----------------------------------------------------------------------------
(* Typechecking. *)

(* What a try leaves of the nodes, whether it succeeds or not. *)
LEMMA TypedNodes ==
  ASSUME IInv, HandlersKeep, Taking("TYPECHECK"),
         NEW heap \in Heaps, NEW s, s = TypecheckNode(ast, Job.node, heap),
         ~s.crash, ast' = s.ast
  PROVE  /\ Touched /\ NewBodies(s)
         /\ \A p \in DOMAIN ast : ast'[p].code = ast[p].code
         /\ ast[Job.node].kind = "ASSIGNMENT" => s.ast[Job.node].lhs # NoNode
<1>1. /\ s.ast = [p \in DOMAIN ast |-> s.ast[p]]
      /\ \A p \in DOMAIN ast : TypesOnly(ast[p], s.ast[p])
      /\ ast[Job.node].kind = "ASSIGNMENT" => s.ast[Job.node].lhs # NoNode
      /\ NewBodies(s)
  BY DEF HandlersKeep, TypecheckerContract
<1>2. ASSUME NEW p \in DOMAIN ast
      PROVE  NodeTouched(ast[p], ast'[p]) /\ ast'[p].code = ast[p].code
  <2>1. TypesOnly(ast[p], ast'[p]) /\ NodeOK(ast[p]) /\ Compiled(ast[p].value)
    BY <1>1, <1>2 DEF IInv, NodesFine
  <2> QED
    BY <2>1 DEF TypesOnly, NodeTouched, NodeKept, NodeOK, Begun
<1> QED
  BY <1>1, <1>2 DEF Touched

(* A body whose procedure has just got its class has never had a job. *)
LEMMA BodiesAreNew ==
  ASSUME IInv, NEW s, NewBodies(s), ast' = s.ast, DOMAIN ast' = DOMAIN ast,
         NEW i \in 1 .. Len(s.out), NEW q, q = s.out[i]
  PROVE  /\ q \in DOMAIN ast /\ q \in Seq(Int) /\ ast[q].code = -1
         /\ ~Opened(q) /\ Opened(q)'
         /\ \A j \in 1 .. Len(queue) : IsNodeJob(queue[j]) => q # queue[j].node
<1>1. PICK p \in DOMAIN ast :
        /\ ast[p].kind = "PROCEDURE" /\ ast[p].class = NoType
        /\ q = Child(p, 1) /\ s.ast[p].class # NoType
  BY DEF NewBodies
<1>2. p \in Seq(Int)
  BY DEF IInv, NodesFine
<1>3. Parent(q) = p
  BY <1>1, <1>2, ParentOfChild
<1>4. ~Opened(q)
  BY <1>1, <1>3 DEF Opened
<1>5. Opened(q)'
  <2>1. Parent(q)' = Parent(q) /\ NoType' = NoType
    BY DEF Parent, NoType
  <2> QED
    BY <1>1, <1>3, <2>1 DEF Opened
<1>6. q \in DOMAIN ast
  BY DEF NewBodies
<1>7. q \in Seq(Int)
  BY <1>6 DEF IInv, NodesFine
<1>8. ast[q].code = -1
  BY <1>4, <1>6 DEF IInv, OpenedFirst
<1>9. \A j \in 1 .. Len(queue) : IsNodeJob(queue[j]) => q # queue[j].node
  BY <1>4 DEF IInv, OpenedFirst, NodeJobs, IsNodeJob
<1> QED
  BY <1>4, <1>5, <1>6, <1>7, <1>8, <1>9

(* Jobs of distinct nodes, then at most one of a node that is none of       *)
(* these: no two of the jobs are of the same node.                          *)
ThenAtMostOne(n, out, bodies, rest, p) ==
  /\ n \in Nat /\ Len(bodies) = n
  /\ \A k \in 1 .. n : bodies[k].node = out[k] /\ out[k] # p
  /\ \A k, m \in 1 .. n : out[k] = out[m] => k = m
  /\ \A k \in 1 .. Len(rest) : IsNodeJob(rest[k]) => rest[k].node = p /\ k = 1

OfDistinctNodes(jobs) ==
  \A i, j \in 1 .. Len(jobs) :
    /\ IsNodeJob(jobs[i]) /\ IsNodeJob(jobs[j]) /\ jobs[i].node = jobs[j].node
    => i = j

LEMMA BodiesThenRest ==
  ASSUME NEW bodies \in Seq(JobSet), NEW rest \in Seq(JobSet), NEW n, NEW out, NEW p,
         ThenAtMostOne(n, out, bodies, rest, p)
  PROVE  OfDistinctNodes(bodies \o rest)
<1> DEFINE e == bodies \o rest
<1> SUFFICES ASSUME NEW i \in 1 .. Len(e), NEW j \in 1 .. Len(e),
                    IsNodeJob(e[i]), IsNodeJob(e[j]), e[i].node = e[j].node
             PROVE  i = j
  BY DEF OfDistinctNodes
<1>1. n \in Nat
  BY DEF ThenAtMostOne
<1>2. /\ Len(rest) \in Nat /\ Len(e) = n + Len(rest)
      /\ \A k \in 1 .. Len(e) : e[k] = IF k <= n THEN bodies[k] ELSE rest[k - n]
  <2>1. /\ Len(bodies \o rest) = Len(bodies) + Len(rest)
        /\ \A k \in 1 .. Len(bodies) + Len(rest) :
             (bodies \o rest)[k] = IF k <= Len(bodies) THEN bodies[k]
                                                       ELSE rest[k - Len(bodies)]
    BY ConcatProperties, Zenon
  <2>2. Len(rest) \in Nat /\ Len(bodies) = n
    BY DEF ThenAtMostOne
  <2> QED
    BY <2>1, <2>2
<1> HIDE DEF e
<1>3. ASSUME NEW k \in 1 .. Len(e), k <= n
      PROVE  k \in 1 .. n /\ e[k].node = out[k] /\ e[k].node # p
  <2>1. k \in 1 .. n /\ e[k] = bodies[k]
    BY <1>1, <1>2, <1>3
  <2> QED
    BY <2>1 DEF ThenAtMostOne
<1>4. ASSUME NEW k \in 1 .. Len(e), ~(k <= n), IsNodeJob(e[k])
      PROVE  e[k].node = p /\ k = n + 1
  <2>1. PICK m \in 1 .. Len(rest) : m = k - n /\ e[k] = rest[m]
    BY <1>1, <1>2, <1>4
  <2>2. e[k].node = p /\ m = 1
    BY <1>4, <2>1 DEF ThenAtMostOne
  <2> QED
    BY <1>1, <2>1, <2>2
<1>5. CASE i <= n /\ j <= n
  BY <1>3, <1>5 DEF ThenAtMostOne
<1>6. CASE ~(i <= n) /\ ~(j <= n)
  BY <1>4, <1>6
<1> QED
  BY <1>3, <1>4, <1>5, <1>6

(* The jobs of the bodies, and what follows them, are put into the queue.   *)
LEMMA BodiesEmitted ==
  ASSUME IInv, Taking("TYPECHECK"), NEW p, p = Job.node,
         NEW s, NewBodies(s), ast' = s.ast, DOMAIN ast' = DOMAIN ast, Grows,
         \A q \in DOMAIN ast : ast'[q].code = ast[q].code,
         TablesFine', Flags', vm' = Idle, phase' = "loop",
         NEW rest \in Seq(JobSet),
         \A i \in 1 .. Len(rest) :
           /\ rest[i] # SENTINEL /\ JobFine(rest[i])'
           /\ IsNodeJob(rest[i]) => rest[i].node = p /\ i = 1,
         NEW bodies, bodies = [i \in DOMAIN s.out |-> NodeJob("TYPECHECK", s.out[i])],
         NEW e, e = bodies \o rest, queue' = Tail(queue) \o e,
         \/ did_work'
         \/ /\ did_work' = did_work
            /\ \A i \in 1 .. Len(rest) : rest[i].type \in Retryable
  PROVE  IInv'
<1>1. /\ phase = "loop" /\ queue # <<>> /\ queue[1] # SENTINEL
      /\ queue \in Seq(JobSet)
  BY HeadFacts DEF IInv
<1>2. /\ p \in DOMAIN ast /\ p \in Seq(Int) /\ Opened(p) /\ ast[p].code = -1
      /\ \A j \in 1 .. Len(queue) :
           j # 1 /\ IsNodeJob(queue[j]) => p # queue[j].node
  BY NodeTaken DEF NodeTypes
<1> DEFINE n == Len(s.out)
<1>3. n \in Nat /\ DOMAIN s.out = 1 .. n /\ Len(rest) \in Nat
  BY DEF NewBodies
<1>4. ASSUME NEW i \in 1 .. n, NEW q, q = s.out[i]
      PROVE  /\ q \in DOMAIN ast /\ q \in Seq(Int) /\ ast[q].code = -1
             /\ ~Opened(q) /\ Opened(q)'
             /\ \A j \in 1 .. Len(queue) : IsNodeJob(queue[j]) => q # queue[j].node
  BY <1>4, BodiesAreNew
<1>5. ASSUME NEW i \in 1 .. n, NEW job, job = bodies[i]
      PROVE  /\ job \in JobSet /\ job # SENTINEL /\ job.node = s.out[i]
             /\ job.type = "TYPECHECK" /\ JobFine(job)'
  <2>1. PICK q : q = s.out[i]
    OBVIOUS
  <2>2. job = NodeJob("TYPECHECK", q)
    BY <1>3, <1>5, <2>1
  <2>3. q \in DOMAIN ast /\ q \in Seq(Int)
    BY <1>4, <2>1
  <2>4. job \in JobSet /\ job # SENTINEL /\ job.node = q /\ job.type = "TYPECHECK"
    BY <2>2, <2>3 DEF NodeJob, JobSet, SENTINEL, NodeTypes
  <2>5. JobFine(job)'
    BY <2>3, <2>4 DEF JobFine
  <2> QED
    BY <2>1, <2>4, <2>5
<1> HIDE DEF n
<1>6. bodies \in Seq(JobSet) /\ Len(bodies) = n
  <2>1. bodies = [i \in 1 .. n |-> bodies[i]]
    BY <1>3
  <2>2. \A i \in 1 .. n : bodies[i] \in JobSet
    BY <1>5
  <2> QED
    BY <1>3, <2>1, <2>2
<1> DEFINE Body(i) == i \in 1 .. n /\ e[i] = bodies[i]
           Rest(i) == i - n \in 1 .. Len(rest) /\ e[i] = rest[i - n]
<1>7. /\ e \in Seq(JobSet) /\ Len(e) = n + Len(rest)
      /\ \A i \in 1 .. Len(e) : Body(i) \/ Rest(i)
  <2>1. /\ e \in Seq(JobSet) /\ Len(e) = n + Len(rest)
        /\ \A i \in 1 .. Len(e) : e[i] = IF i <= n THEN bodies[i] ELSE rest[i - n]
    BY <1>3, <1>6
  <2>2. \A i \in 1 .. Len(e) : \/ i <= n /\ i \in 1 .. n
                               \/ ~(i <= n) /\ i - n \in 1 .. Len(rest)
    BY <1>3, <2>1
  <2> QED
    BY <2>1, <2>2
<1>8. ASSUME NEW i \in 1 .. Len(e), NEW job, job = e[i]
      PROVE  job # SENTINEL /\ JobFine(job)'
  <2>1. CASE Body(i)
    BY <1>5, <1>8, <2>1
  <2>2. CASE Rest(i)
    BY <1>8, <2>2
  <2> QED
    BY <1>7, <2>1, <2>2
<1>9. ASSUME NEW i \in 1 .. Len(e), IsNodeJob(e[i]), NEW q, q = e[i].node
      PROVE  /\ Opened(q)' /\ ast'[q].code = -1
             /\ \A j \in 1 .. Len(queue) :
                  j # 1 /\ IsNodeJob(queue[j]) => q # queue[j].node
  <2>1. CASE Body(i)
    <3>1. i \in 1 .. n /\ q = s.out[i]
      BY <1>5, <1>9, <2>1
    <3>2. ast[q].code = -1 /\ q \in DOMAIN ast
      BY <1>4, <3>1
    <3> QED
      BY <1>4, <3>1, <3>2
  <2>2. CASE Rest(i)
    <3>1. q = p
      BY <1>9, <2>2
    <3>2. Opened(q)' /\ ast'[q].code = -1
      BY <1>2, <3>1, OpenedStays
    <3> QED
      BY <1>2, <3>1, <3>2
  <2> QED
    BY <1>7, <2>1, <2>2
<1>10. \A i, j \in 1 .. Len(e) :
         /\ IsNodeJob(e[i]) /\ IsNodeJob(e[j]) /\ e[i].node = e[j].node
         => i = j
  <2>1. ASSUME NEW k \in 1 .. n PROVE bodies[k].node = s.out[k] /\ s.out[k] # p
    <3>1. PICK q : q = s.out[k]
      BY Zenon
    <3>2. ~Opened(q)
      BY <1>4, <3>1
    <3>3. q # p
      BY <1>2, <3>2
    <3> QED
      BY <1>5, <3>1, <3>3
  <2>2. \A k, m \in 1 .. n : s.out[k] = s.out[m] => k = m
    BY DEF NewBodies, n
  <2>3. \A k \in 1 .. Len(rest) : IsNodeJob(rest[k]) => rest[k].node = p /\ k = 1
    OBVIOUS
  <2>4. ThenAtMostOne(n, s.out, bodies, rest, p)
    BY <1>3, <1>6, <2>1, <2>2, <2>3, Zenon DEF ThenAtMostOne
  <2>5. OfDistinctNodes(bodies \o rest)
    BY <1>6, <2>4, BodiesThenRest, Zenon
  <2>6. OfDistinctNodes(e)
    BY <2>5
  <2> QED
    BY <2>6 DEF OfDistinctNodes
<1>11. /\ \A j \in 1 .. Len(queue) :
            IsNodeJob(queue[j]) => ast'[queue[j].node].code = -1
       /\ \A q \in DOMAIN ast' :
            ast'[q].code # -1 => q \in DOMAIN ast /\ ast[q].code # -1
  BY CodesKept
<1>12. \/ did_work'
       \/ did_work' = did_work /\ \A i \in 1 .. Len(e) : e[i].type \in Retryable
  <2>1. CASE did_work' = did_work /\ \A i \in 1 .. Len(rest) : rest[i].type \in Retryable
    <3>1. "TYPECHECK" \in Retryable
      BY DEF Retryable
    <3>2. ASSUME NEW i \in 1 .. Len(e) PROVE e[i].type \in Retryable
      <4>1. CASE Body(i)
        BY <1>5, <3>1, <4>1
      <4>2. CASE Rest(i)
        BY <2>1, <4>2
      <4> QED
        BY <1>7, <4>1, <4>2
    <3> QED
      BY <2>1, <3>2
  <2> QED
    BY <2>1
<1> HIDE DEF Body, Rest
<1>13. \A i \in 1 .. Len(e) : e[i] # SENTINEL /\ JobFine(e[i])'
  BY <1>8
<1>14. \A i \in 1 .. Len(e) : IsNodeJob(e[i]) =>
         /\ Opened(e[i].node)' /\ ast'[e[i].node].code = -1
         /\ \A j \in 1 .. Len(queue) :
              j # 1 /\ IsNodeJob(queue[j]) => e[i].node # queue[j].node
  <2>1. ASSUME NEW i \in 1 .. Len(e), IsNodeJob(e[i])
        PROVE  /\ Opened(e[i].node)' /\ ast'[e[i].node].code = -1
               /\ \A j \in 1 .. Len(queue) :
                    j # 1 /\ IsNodeJob(queue[j]) => e[i].node # queue[j].node
    <3>1. PICK q : q = e[i].node
      BY ZenonT(60)
    <3>2. /\ Opened(q)' /\ ast'[q].code = -1
          /\ \A j \in 1 .. Len(queue) :
               j # 1 /\ IsNodeJob(queue[j]) => q # queue[j].node
      BY <1>9, <2>1, <3>1, ZenonT(60)
    <3> QED
      BY <3>1, <3>2, ZenonT(60)
  <2> QED
    BY <2>1, ZenonT(60)
<1> QED
  BY <1>1, <1>7, <1>10, <1>11, <1>12, <1>13, <1>14, Emitting, ZenonT(60)

LEMMA BodiesAreJobs ==
  ASSUME IInv, NEW s, NewBodies(s),
         NEW bodies, bodies = [i \in DOMAIN s.out |-> NodeJob("TYPECHECK", s.out[i])]
  PROVE  bodies \in Seq(JobSet)
<1>1. PICK n \in Nat : n = Len(s.out) /\ DOMAIN s.out = 1 .. n
  BY DEF NewBodies
<1>2. ASSUME NEW i \in 1 .. n PROVE bodies[i] \in JobSet
  <2>1. PICK q \in DOMAIN ast : q = s.out[i]
    <3>1. s.out[i] \in DOMAIN ast
      BY <1>1 DEF NewBodies
    <3> QED
      BY <3>1
  <2>2. q \in Seq(Int)
    BY DEF IInv, NodesFine
  <2> QED
    BY <1>1, <2>1, <2>2 DEF NodeJob, JobSet, NodeTypes
<1>3. bodies = [i \in 1 .. n |-> bodies[i]]
  BY <1>1
<1> QED
  BY <1>2, <1>3

(* Putting jobs behind others that are put behind. *)
LEMMA PutBehind ==
  ASSUME queue \in Seq(JobSet), queue # <<>>,
         NEW a \in Seq(JobSet), NEW b \in Seq(JobSet)
  PROVE  (Tail(queue) \o a) \o b = Tail(queue) \o (a \o b)
<1>1. PICK t \in Seq(JobSet) : t = Tail(queue)
  <2>1. Tail(queue) \in Seq(JobSet)
    BY HeadTailProperties
  <2> QED
    BY <2>1
<1>2. (t \o a) \o b = t \o (a \o b)
  BY ConcatAssociative
<1> QED
  BY <1>1, <1>2

LEMMA TypecheckStep ==
  ASSUME IInv, HandlersKeep, TypecheckJob
  PROVE  IInv'
<1>1. /\ phase = "loop" /\ queue # <<>> /\ queue[1] # SENTINEL
      /\ queue \in Seq(JobSet) /\ Job = queue[1] /\ queue[1] \in JobSet
      /\ JobFine(Job) /\ Job.type = "TYPECHECK" /\ Taking("TYPECHECK")
  BY HeadFacts DEF TypecheckJob, IInv
<1>2. /\ vm' = Idle /\ UNCHANGED <<program, initializers, vm, told>>
      /\ Idle' = Idle /\ vm = Idle
  BY <1>1, NoMachine DEF TypecheckJob, IInv
<1>3. PICK p : p = Job.node
  OBVIOUS
<1>4. p \in DOMAIN ast /\ p \in Seq(Int)
  BY <1>1, <1>3, NodeTaken DEF NodeTypes
<1>5. PICK heap \in Heaps :
       LET s == TypecheckNode(ast, p, heap)
           bodies == [i \in DOMAIN s.out |-> NodeJob("TYPECHECK", s.out[i])]
           next == NodeJob(IF s.ast[p].error THEN "ABORT" ELSE "OPTIMIZE", p)
           main == s.ast[p].lhs
       IN  IF s.crash
             THEN Crashed /\ UNCHANGED <<ast, bytecode>>
           ELSE IF ~s.ok
             THEN Deferred(bodies) /\ ast' = s.ast /\ UNCHANGED bytecode
           ELSE /\ ast' = s.ast
                /\ IF IsMain(s, p)
                     THEN /\ bytecode' = [bytecode EXCEPT ![1][2] = Pointer(main)]
                          /\ Completed(bodies \o
                                       <<next, ExecuteJob(Machine(0, main))>>)
                     ELSE /\ Completed(Append(bodies, next))
                          /\ UNCHANGED bytecode
  BY <1>3 DEF TypecheckJob
<1>6. PICK s : s = TypecheckNode(ast, p, heap)
  OBVIOUS
<1>7. PICK bodies : bodies = [i \in DOMAIN s.out |-> NodeJob("TYPECHECK", s.out[i])]
  OBVIOUS
<1>8. PICK next : next = NodeJob(IF s.ast[p].error THEN "ABORT" ELSE "OPTIMIZE", p)
  OBVIOUS
<1>9. PICK main : main = s.ast[p].lhs
  OBVIOUS
<1>10. IF s.crash
         THEN Crashed /\ UNCHANGED <<ast, bytecode>>
       ELSE IF ~s.ok
         THEN Deferred(bodies) /\ ast' = s.ast /\ UNCHANGED bytecode
       ELSE /\ ast' = s.ast
            /\ IF IsMain(s, p)
                 THEN /\ bytecode' = [bytecode EXCEPT ![1][2] = Pointer(main)]
                      /\ Completed(bodies \o
                                   <<next, ExecuteJob(Machine(0, main))>>)
                 ELSE /\ Completed(Append(bodies, next))
                      /\ UNCHANGED bytecode
  BY <1>5, <1>6, <1>7, <1>8, <1>9
<1>11. CASE s.crash
  BY <1>2, <1>10, <1>11, CrashStep DEF Crashed
<1>12. CASE ~s.crash
  <2>1. /\ Touched /\ NewBodies(s) /\ ast' = s.ast
        /\ \A q \in DOMAIN ast : ast'[q].code = ast[q].code
        /\ ast[p].kind = "ASSIGNMENT" => s.ast[p].lhs # NoNode
    BY <1>1, <1>3, <1>6, <1>10, <1>12, TypedNodes
  <2>2. bodies \in Seq(JobSet)
    BY <1>7, <2>1, BodiesAreJobs
  <2>3. /\ Len(bytecode) \in Nat /\ Len(bytecode) >= 2
    BY DEF IInv, UnitsFine
  <2>4. DOMAIN ast' = DOMAIN ast
    BY <2>1 DEF Touched
  <2>5. ASSUME bytecode' = bytecode
        PROVE  TablesFine' /\ Grows
    BY <1>2, <2>1, <2>5, TablesTouched DEF IInv
  <2>6. ASSUME NEW job, job = next
        PROVE  /\ job \in JobSet /\ job # SENTINEL /\ job.node = p
               /\ JobFine(job)'
    <3>1. PICK type \in {"ABORT", "OPTIMIZE"} :
            type = IF s.ast[p].error THEN "ABORT" ELSE "OPTIMIZE"
      OBVIOUS
    <3>2. job = NodeJob(type, p)
      BY <1>8, <2>6, <3>1
    <3>3. /\ job \in JobSet /\ job # SENTINEL /\ job.node = p /\ job.type = type
      BY <1>4, <3>2 DEF NodeJob, JobSet, NodeTypes, SENTINEL
    <3> QED
      BY <1>4, <2>4, <3>1, <3>3 DEF JobFine
  <2>7. CASE ~s.ok
    <3>1. PICK rest : rest = <<Job>>
      OBVIOUS
    <3>2. PICK e : e = bodies \o rest
      OBVIOUS
    <3>3. /\ rest \in Seq(JobSet) /\ Len(rest) = 1 /\ rest[1] = Job
          /\ \A i \in 1 .. Len(rest) : i = 1
      BY <1>1, <3>1
    <3>4. TablesFine' /\ Grows
      BY <1>10, <1>12, <2>5, <2>7
    <3>5. ASSUME NEW job, job = Job
          PROVE  job # SENTINEL /\ JobFine(job)' /\ job.type \in Retryable /\ job.node = p
      BY <1>1, <1>3, <3>4, <3>5, JobStaysFine DEF Retryable
    <3>6. \A i \in 1 .. Len(rest) :
            /\ rest[i] # SENTINEL /\ JobFine(rest[i])'
            /\ IsNodeJob(rest[i]) => rest[i].node = p /\ i = 1
      BY <3>3, <3>5
    <3>7. \A i \in 1 .. Len(rest) : rest[i].type \in Retryable
      BY <3>3, <3>5
    <3>8. /\ queue' = Tail(queue) \o e
          /\ did_work' = did_work /\ phase' = "loop" /\ Flags'
      <4>1. /\ queue' = (Tail(queue) \o bodies) \o rest
            /\ UNCHANGED <<did_work, reported_errors, phase>>
        BY <1>10, <1>12, <2>7, <3>1 DEF Deferred
      <4>2. queue' = Tail(queue) \o e
        BY <1>1, <2>2, <3>2, <3>3, <4>1, PutBehind
      <4> QED
        BY <1>1, <1>2, <4>1, <4>2 DEF IInv, Flags, Phases
    <3> QED
      BY <1>1, <1>2, <1>3, <1>7, <2>1, <2>4, <3>2, <3>3, <3>4, <3>6, <3>7, <3>8,
         BodiesEmitted
  <2>8. CASE s.ok /\ ~IsMain(s, p)
    <3>1. PICK rest : rest = <<next>>
      OBVIOUS
    <3>2. PICK e : e = bodies \o rest
      OBVIOUS
    <3>3. /\ rest \in Seq(JobSet) /\ Len(rest) = 1 /\ rest[1] = next
          /\ \A i \in 1 .. Len(rest) : i = 1
      BY <2>6, <3>1
    <3>4. TablesFine' /\ Grows
      BY <1>10, <1>12, <2>5, <2>8
    <3>5. \A i \in 1 .. Len(rest) :
            /\ rest[i] # SENTINEL /\ JobFine(rest[i])'
            /\ IsNodeJob(rest[i]) => rest[i].node = p /\ i = 1
      BY <2>6, <3>3
    <3>6. /\ queue' = Tail(queue) \o e
          /\ did_work' /\ phase' = "loop" /\ Flags'
      <4>1. Completed(Append(bodies, next))
        BY <1>10, <1>12, <2>8
      <4>2. Append(bodies, next) = e
        BY <2>2, <2>6, <3>1, <3>2
      <4> QED
        BY <1>1, <1>2, <4>1, <4>2 DEF Completed, IInv, Flags, Phases
    <3> QED
      BY <1>1, <1>2, <1>3, <1>7, <2>1, <2>4, <3>2, <3>3, <3>4, <3>5, <3>6,
         BodiesEmitted
  <2>9. CASE s.ok /\ IsMain(s, p)
    <3>1. PICK machine : machine = Machine(0, main)
      OBVIOUS
    <3>2. PICK run : run = ExecuteJob(machine)
      OBVIOUS
    <3>3. PICK rest : rest = <<next, run>>
      OBVIOUS
    <3>4. PICK e : e = bodies \o rest
      OBVIOUS
    <3>5. main \in DOMAIN ast /\ main \in Seq(Int)
      <4>1. s.ast[p].kind = "ASSIGNMENT"
        BY <2>9 DEF IsMain
      <4>2. NodeTouched(ast[p], ast'[p])
        BY <1>4, <2>1 DEF Touched
      <4>3. ast[p].kind = "ASSIGNMENT" /\ main \in DOMAIN ast \cup {NoNode}
        BY <1>9, <2>1, <4>1, <4>2 DEF NodeTouched, NodeKept
      <4>4. main \in DOMAIN ast
        BY <1>9, <2>1, <4>3
      <4> QED
        BY <4>4 DEF IInv, NodesFine
    <3>6. bytecode' = [bytecode EXCEPT ![1][2] = Pointer(main)]
      BY <1>10, <1>12, <2>9
    <3>7. Len(bytecode') = Len(bytecode)
      BY <3>5, <3>6, BootstrapReplaced DEF IInv
    <3>8. Grows
      BY <1>2, <2>1, <2>3, <3>7, TouchedGrows
    <3>9. TablesFine'
      <4>1. NodesFine'
        BY <2>1, <2>4, <3>7, <3>8, TouchedStaysFine DEF IInv, NodesFine, NodeOK
      <4>2. UnitsFine'
        BY <3>5, <3>6, <3>8, BootstrapSet DEF IInv
      <4> QED
        BY <1>2, <2>1, <2>4, <3>8, <4>1, <4>2, InitializersStayFine, SameCodesStay
           DEF IInv, TablesFine
    <3>10. run \in JobSet /\ run # SENTINEL /\ ~IsNodeJob(run) /\ JobFine(run)'
      <4>1. /\ machine \in Machines /\ machine.id = 0 /\ machine.stack = <<>>
            /\ machine.waiting = main
        BY <3>1, <3>5 DEF Machine, Machines, NoFrame
      <4>2. MachineFine(machine)'
        BY <2>3, <2>4, <3>5, <3>7, <4>1, StackAssumption
           DEF MachineFine, MachineOK, Machines, Words, Data, Junk, AllCompiled
      <4>3. run = [type |-> "EXECUTE", vm |-> machine]
        BY <3>2 DEF ExecuteJob
      <4> QED
        BY <4>1, <4>2, <4>3 DEF JobSet, SENTINEL, IsNodeJob, NodeTypes, JobFine
    <3>11. /\ rest \in Seq(JobSet) /\ Len(rest) = 2 /\ rest[1] = next /\ rest[2] = run
           /\ \A i \in 1 .. Len(rest) : i = 1 \/ i = 2
      BY <2>6, <3>3, <3>10
    <3>12. \A i \in 1 .. Len(rest) :
             /\ rest[i] # SENTINEL /\ JobFine(rest[i])'
             /\ IsNodeJob(rest[i]) => rest[i].node = p /\ i = 1
      BY <2>6, <3>10, <3>11
    <3>13. /\ queue' = Tail(queue) \o e
           /\ did_work' /\ phase' = "loop" /\ Flags'
      <4>1. Completed(e)
        BY <1>10, <1>12, <2>9, <3>1, <3>2, <3>3, <3>4
      <4> QED
        BY <1>1, <1>2, <4>1 DEF Completed, IInv, Flags, Phases
    <3> QED
      BY <1>1, <1>2, <1>3, <1>7, <2>1, <2>4, <3>4, <3>8, <3>9, <3>11, <3>12, <3>13,
         BodiesEmitted, ZenonT(60)
  <2> QED
    BY <2>7, <2>8, <2>9
<1> QED
  BY <1>11, <1>12

-----------------------------------------------------------------------------
(* Generating bytecode. *)

(* The nodes with a node's bytecode, and with new declarations as well.     *)
Coded(p, n) == [ast EXCEPT ![p].code = n]
CodedAndDeclared(p, n, d) ==
  [ast EXCEPT ![p].code = n, ![Global].decls = Published(@, d)]

(* What the number of its bytecode, and the new declaration in the global   *)
(* scope, leave of the nodes.                                               *)
LEMMA GeneratedNodes ==
  ASSUME NodesFine, NEW p \in DOMAIN ast, ast[p].code = -1, NEW n, NEW d,
         ast' = Coded(p, n) \/ ast' = CodedAndDeclared(p, n, d)
  PROVE  /\ Touched
         /\ \A q \in DOMAIN ast :
              /\ ast'[q].code = IF q = p THEN n ELSE ast[q].code
              /\ ast'[q].kind = ast[q].kind /\ ast'[q].class = ast[q].class
              /\ ast'[q].initialized = ast[q].initialized
              /\ ast'[q].value = ast[q].value /\ ast'[q].lhs = ast[q].lhs
<1>1. DOMAIN ast' = DOMAIN ast /\ ast' = [q \in DOMAIN ast |-> ast'[q]]
  BY DEF Coded, CodedAndDeclared
<1>2. ASSUME NEW q \in DOMAIN ast
      PROVE  /\ NodeTouched(ast[q], ast'[q])
             /\ ast'[q].code = IF q = p THEN n ELSE ast[q].code
             /\ ast'[q].kind = ast[q].kind /\ ast'[q].class = ast[q].class
             /\ ast'[q].initialized = ast[q].initialized
             /\ ast'[q].value = ast[q].value /\ ast'[q].lhs = ast[q].lhs
  <2>1. NodeOK(ast[q]) /\ Compiled(ast[q].value)
    BY DEF NodesFine
  <2>2. PICK b : b = ast[q]
    OBVIOUS
  <2>3. PICK c : c = IF q = p THEN [b EXCEPT !.code = n] ELSE b
    OBVIOUS
  <2>4. PICK a : a = ast'[q]
    OBVIOUS
  <2>5. PICK decls : a = c \/ a = [c EXCEPT !.decls = decls]
    <3>1. CASE ast' = Coded(p, n)
      BY <2>2, <2>3, <2>4, <3>1 DEF Coded
    <3>2. CASE ast' = CodedAndDeclared(p, n, d) /\ q # Global
      BY <2>2, <2>3, <2>4, <3>2 DEF CodedAndDeclared
    <3>3. CASE ast' = CodedAndDeclared(p, n, d) /\ q = Global
      <4>1. a = [c EXCEPT !.decls = Published(@, d)]
        BY <2>2, <2>3, <2>4, <3>3 DEF CodedAndDeclared
      <4>2. PICK decls : decls = Published(c.decls, d)
        OBVIOUS
      <4>3. a = [c EXCEPT !.decls = decls]
        BY <4>1, <4>2
      <4> QED
        BY <4>3
    <3> QED
      BY <3>1, <3>2, <3>3
  <2>6. DOMAIN b = NodeFields
    BY <2>1, <2>2 DEF NodeOK
  <2>7. /\ DOMAIN c = NodeFields
        /\ c.kind = b.kind /\ c.class = b.class /\ c.lhs = b.lhs
        /\ c.declaration = b.declaration /\ c.initializing = b.initializing
        /\ c.initialized = b.initialized /\ c.value = b.value
        /\ c.code = IF q = p THEN n ELSE b.code
    BY <2>3, <2>6, Fields
  <2>8. /\ DOMAIN a = NodeFields
        /\ a.kind = c.kind /\ a.class = c.class /\ a.lhs = c.lhs
        /\ a.declaration = c.declaration /\ a.initializing = c.initializing
        /\ a.initialized = c.initialized /\ a.value = c.value
        /\ a.code = c.code
    BY <2>5, <2>7, Fields
  <2>9. b.code # -1 => a.code = b.code
    BY <2>2, <2>7, <2>8
  <2>10. Begun(b) => Begun(a)
    BY <2>7, <2>8 DEF Begun
  <2>11. NodeTouched(b, a)
    BY <2>1, <2>2, <2>7, <2>8, <2>9, <2>10 DEF NodeTouched, NodeKept, NodeOK
  <2> QED
    BY <2>2, <2>4, <2>7, <2>8, <2>11
<1> QED
  BY <1>1, <1>2 DEF Touched

LEMMA GeneratedTables ==
  ASSUME IInv, NEW p \in DOMAIN ast, ast[p].code = -1, ast[p].class # NoType,
         NEW code \in Seq(Words), PushesCompiled(code),
         program' = program, bytecode' = Append(bytecode, code), NEW d,
         \/ /\ ast[p].kind = "ASSIGNMENT" /\ initializers' = Append(initializers, p)
            /\ ast' = CodedAndDeclared(p, Len(bytecode), d)
         \/ /\ ast' = Coded(p, Len(bytecode))
            /\ initializers' = initializers
  PROVE  /\ TablesFine' /\ Grows /\ DOMAIN ast' = DOMAIN ast
         /\ \A q \in DOMAIN ast : q # p => ast'[q].code = ast[q].code
<1>1. PICK n \in Nat : n = Len(bytecode) /\ Len(bytecode') = n + 1
  <2>1. Len(bytecode) \in Nat /\ Len(Append(bytecode, code)) = Len(bytecode) + 1
    BY DEF IInv, UnitsFine
  <2> QED
    BY <2>1
<1>2. /\ Touched
      /\ \A q \in DOMAIN ast :
           /\ ast'[q].code = IF q = p THEN n ELSE ast[q].code
           /\ ast'[q].kind = ast[q].kind /\ ast'[q].class = ast[q].class
           /\ ast'[q].initialized = ast[q].initialized
           /\ ast'[q].value = ast[q].value /\ ast'[q].lhs = ast[q].lhs
  <2>1. ast' = Coded(p, n) \/ ast' = CodedAndDeclared(p, n, d)
    BY <1>1
  <2>2. NodesFine
    BY DEF IInv
  <2> QED
    BY <2>1, <2>2, GeneratedNodes
<1>3. Grows /\ DOMAIN ast' = DOMAIN ast
  BY <1>1, <1>2, TouchedGrows
<1>4. \A q \in DOMAIN ast : ast[q].code \in -1 .. n - 1
  BY <1>1 DEF IInv, NodesFine, NodeOK
<1>5. NodesFine'
  <2>1. \A q \in DOMAIN ast : ast'[q].code \in -1 .. Len(bytecode') - 1
    BY <1>1, <1>2, <1>4
  <2> QED
    BY <1>2, <1>3, <2>1, TouchedStaysFine DEF IInv
<1>6. UnitsFine'
  BY <1>3, UnitAdded DEF IInv
<1>7. CodesDistinct'
  <2>1. ASSUME NEW q \in DOMAIN ast, NEW r \in DOMAIN ast,
               ast'[q].code # -1, ast'[q].code = ast'[r].code
        PROVE  q = r
    <3>1. CASE q = p \/ r = p
      BY <1>2, <1>4, <2>1, <3>1
    <3>2. CASE q # p /\ r # p
      BY <1>2, <2>1, <3>2 DEF IInv, CodesDistinct
    <3> QED
      BY <3>1, <3>2
  <2> QED
    BY <1>3, <2>1 DEF CodesDistinct
<1>8. InitializersFine'
  <2>1. CASE initializers' = initializers
    BY <1>3, <2>1, InitializersStayFine DEF IInv
  <2>2. CASE ast[p].kind = "ASSIGNMENT" /\ initializers' = Append(initializers, p)
    <3>1. PICK m \in Nat : m = Len(initializers)
      BY DEF IInv, InitializersFine
    <3>2. /\ initializers' \in Seq(DOMAIN ast') /\ Len(initializers') = m + 1
          /\ initializers'[m + 1] = p
          /\ \A k \in 1 .. m : initializers'[k] = initializers[k]
      BY <1>3, <2>2, <3>1 DEF IInv, InitializersFine
    <3>3. \A k \in 1 .. m :
            /\ initializers[k] \in DOMAIN ast /\ initializers[k] # p
            /\ ast[initializers[k]].kind = "ASSIGNMENT"
            /\ ast[initializers[k]].class # NoType
            /\ ast[initializers[k]].code # -1
      BY <3>1 DEF IInv, InitializersFine
    <3>4. \A k \in 1 .. m + 1 : k \in 1 .. m \/ k = m + 1
      OBVIOUS
    <3>5. ASSUME NEW k \in 1 .. m + 1
          PROVE  /\ ast'[initializers'[k]].kind = "ASSIGNMENT"
                 /\ ast'[initializers'[k]].class # NoType
                 /\ ast'[initializers'[k]].code # -1
      <4>1. CASE k \in 1 .. m
        <5>1. PICK q \in DOMAIN ast : q = initializers[k] /\ q = initializers'[k]
          BY <3>2, <3>3, <4>1
        <5>2. /\ ast[q].kind = "ASSIGNMENT" /\ ast[q].class # NoType
              /\ ast[q].code # -1 /\ q # p
          BY <3>3, <4>1, <5>1
        <5> QED
          BY <1>2, <5>1, <5>2
      <4>2. CASE k = m + 1
        BY <1>2, <2>2, <3>2, <4>2
      <4> QED
        BY <3>4, <4>1, <4>2
    <3>6. \A k, j \in 1 .. m + 1 : initializers'[k] = initializers'[j] => k = j
      <4>1. \A k, j \in 1 .. m : initializers[k] = initializers[j] => k = j
        BY <3>1 DEF IInv, InitializersFine
      <4> QED
        BY <3>2, <3>3, <3>4, <4>1
    <3>7. NoType' = NoType
      BY DEF NoType
    <3> QED
      BY <3>2, <3>5, <3>6, <3>7 DEF InitializersFine
  <2> QED
    BY <2>1, <2>2
<1> QED
  BY <1>2, <1>3, <1>5, <1>6, <1>7, <1>8 DEF TablesFine

LEMMA GenerateStep ==
  ASSUME IInv, HandlersKeep, Generate
  PROVE  IInv'
<1>1. /\ phase = "loop" /\ queue # <<>> /\ queue[1] # SENTINEL
      /\ queue \in Seq(JobSet) /\ Job = queue[1] /\ queue[1] \in JobSet
      /\ JobFine(Job) /\ Job.type = "BYTECODE" /\ Taking("BYTECODE")
  BY HeadFacts DEF Generate, IInv
<1>2. /\ vm' = Idle /\ UNCHANGED <<program, vm, told>>
  BY <1>1, NoMachine DEF Generate, IInv
<1>3. PICK p : p = Job.node
  OBVIOUS
<1>4. /\ p \in DOMAIN ast /\ p \in Seq(Int) /\ Opened(p) /\ ast[p].code = -1
      /\ \A j \in 1 .. Len(queue) :
           j # 1 /\ IsNodeJob(queue[j]) => p # queue[j].node
  BY <1>1, <1>3, NodeTaken DEF NodeTypes
<1>5. PICK unit : unit = BytecodeOf(ast, p)
  OBVIOUS
<1>6. PICK decl : decl = ast[p].lhs
  OBVIOUS
<1>7. IF ast[p].kind = "DECLARATION"
        THEN Completed(<<>>) /\ UNCHANGED <<ast, bytecode, initializers>>
      ELSE IF unit.crash
        THEN Crashed /\ UNCHANGED <<ast, bytecode, initializers>>
      ELSE IF ~unit.ok
        THEN Deferred(<<>>) /\ UNCHANGED <<ast, bytecode, initializers>>
      ELSE /\ Completed(<<>>)
           /\ bytecode' = Append(bytecode, unit.code)
           /\ IF ast[p].kind = "ASSIGNMENT"
                THEN /\ initializers' = Append(initializers, p)
                     /\ ast' = [ast EXCEPT
                                  ![p].code = Len(bytecode),
                                  ![Global].decls = Published(@, ast[p].lhs)]
                ELSE /\ ast' = [ast EXCEPT ![p].code = Len(bytecode)]
                     /\ UNCHANGED initializers
  BY <1>3, <1>5 DEF Generate
<1>8. CASE Crashed /\ UNCHANGED <<ast, bytecode, initializers>>
  BY <1>2, <1>8, CrashStep DEF Crashed
<1>9. ASSUME Completed(<<>>)
      PROVE  /\ queue' = Tail(queue) \o <<>> /\ did_work' /\ phase' = "loop" /\ Flags'
  BY <1>1, <1>2, <1>9 DEF Completed, IInv, Flags, Phases
<1>10. PICK none \in Seq(JobSet) : none = <<>> /\ Len(none) = 0
  <2>1. <<>> \in Seq(JobSet) /\ Len(<<>>) = 0
    OBVIOUS
  <2> QED
    BY <2>1
<1>11. \A i : i \notin 1 .. Len(none)
  BY <1>10
<1>12. CASE Completed(<<>>) /\ UNCHANGED <<ast, bytecode, initializers>>
  <2>1. /\ TablesFine' /\ Grows /\ DOMAIN ast' = DOMAIN ast
        /\ \A q \in DOMAIN ast : ast'[q].code = ast[q].code
    BY <1>2, <1>12, TablesUnchanged
  <2> QED
    BY <1>1, <1>2, <1>9, <1>10, <1>11, <1>12, <2>1, EmittingNoNodes
<1>13. CASE Deferred(<<>>) /\ UNCHANGED <<ast, bytecode, initializers>>
  <2>1. /\ TablesFine' /\ Grows /\ DOMAIN ast' = DOMAIN ast
        /\ \A q \in DOMAIN ast : ast'[q].code = ast[q].code
    BY <1>2, <1>13, TablesUnchanged
  <2>2. PICK e : e = <<Job>>
    OBVIOUS
  <2>3. e \in Seq(JobSet) /\ Len(e) = 1 /\ \A i \in 1 .. Len(e) : i = 1 /\ e[i] = Job
    BY <1>1, <2>2
  <2>4. ASSUME NEW job, job = Job
        PROVE  job # SENTINEL /\ JobFine(job)' /\ job.type \in Retryable /\ job.node = p
    BY <1>1, <1>3, <2>1, <2>4, JobStaysFine DEF Retryable
  <2>5. /\ queue' = Tail(queue) \o e /\ did_work' = did_work
        /\ phase' = "loop" /\ Flags'
    <3>1. /\ queue' = (Tail(queue) \o none) \o e
          /\ UNCHANGED <<did_work, reported_errors, phase>>
      BY <1>10, <1>13, <2>2 DEF Deferred
    <3>2. queue' = Tail(queue) \o (none \o e)
      BY <1>1, <2>3, <3>1, PutBehind
    <3>3. none \o e = e
      BY <1>10, <2>3, ConcatEmptySeq
    <3> QED
      BY <1>1, <1>2, <3>1, <3>2, <3>3 DEF IInv, Flags, Phases
  <2>6. Opened(p)' /\ ast'[p].code = -1
    BY <1>4, <2>1, OpenedStays
  <2>7. /\ \A j \in 1 .. Len(queue) :
             IsNodeJob(queue[j]) => ast'[queue[j].node].code = -1
        /\ \A q \in DOMAIN ast' :
             ast'[q].code # -1 => q \in DOMAIN ast /\ ast[q].code # -1
    BY <2>1, CodesKept
  <2>8. \A i \in 1 .. Len(e) :
          /\ e[i] # SENTINEL /\ JobFine(e[i])' /\ e[i].type \in Retryable
          /\ e[i].node = p
    BY <2>3, <2>4
  <2>9. \A i \in 1 .. Len(e) :
          /\ Opened(e[i].node)' /\ ast'[e[i].node].code = -1
          /\ \A j \in 1 .. Len(queue) :
               j # 1 /\ IsNodeJob(queue[j]) => e[i].node # queue[j].node
    BY <1>4, <2>6, <2>8
  <2>10. \A i, j \in 1 .. Len(e) : i = j
    BY <2>3
  <2> QED
    BY <1>1, <1>2, <2>1, <2>3, <2>5, <2>7, <2>8, <2>9, <2>10, Emitting
<1>14. CASE /\ Completed(<<>>) /\ unit.ok /\ ast[p].kind # "DECLARATION"
            /\ bytecode' = Append(bytecode, unit.code)
            /\ IF ast[p].kind = "ASSIGNMENT"
                 THEN /\ initializers' = Append(initializers, p)
                      /\ ast' = [ast EXCEPT
                                   ![p].code = Len(bytecode),
                                   ![Global].decls = Published(@, ast[p].lhs)]
                 ELSE /\ ast' = [ast EXCEPT ![p].code = Len(bytecode)]
                      /\ UNCHANGED initializers
  <2>1. /\ ast[p].class # NoType
        /\ unit.code \in Seq(Words) /\ PushesCompiled(unit.code)
    BY <1>1, <1>3, <1>5, <1>14 DEF HandlersKeep, GeneratorContract
  <2>2. \/ /\ ast[p].kind = "ASSIGNMENT"
           /\ initializers' = Append(initializers, p)
           /\ ast' = CodedAndDeclared(p, Len(bytecode), ast[p].lhs)
        \/ /\ ast' = Coded(p, Len(bytecode))
           /\ initializers' = initializers
    BY <1>14 DEF Coded, CodedAndDeclared
  <2>3. /\ TablesFine' /\ Grows /\ DOMAIN ast' = DOMAIN ast
        /\ \A q \in DOMAIN ast : q # p => ast'[q].code = ast[q].code
    <3>1. bytecode' = Append(bytecode, unit.code) /\ program' = program
      BY <1>2, <1>14
    <3> QED
      BY <1>4, <2>1, <2>2, <3>1, GeneratedTables
  <2>4. Opened(p)'
    BY <1>4, <2>3, OpenedStays
  <2>5. \A j \in 1 .. Len(queue) :
          j # 1 /\ IsNodeJob(queue[j]) => ast'[queue[j].node].code = -1
    <3>1. \A j \in 1 .. Len(queue) : IsNodeJob(queue[j]) =>
            queue[j].node \in DOMAIN ast /\ ast[queue[j].node].code = -1
      BY DEF IInv, QueueFine, JobFine, NodesHandledOnce, NodeJobs, IsNodeJob
    <3> QED
      BY <1>4, <2>3, <3>1
  <2>6. ASSUME NEW q \in DOMAIN ast', ast'[q].code # -1
        PROVE  (q \in DOMAIN ast /\ ast[q].code # -1) \/ Opened(q)'
    BY <2>3, <2>4, <2>6
  <2>7. queue' = Tail(queue) \o none /\ did_work' /\ phase' = "loop" /\ Flags'
    BY <1>9, <1>10, <1>14
  <2> QED
    BY <1>1, <1>2, <1>11, <2>3, <2>5, <2>6, <2>7, Emitting
<1> QED
  BY <1>7, <1>8, <1>12, <1>13, <1>14

-----------------------------------------------------------------------------
(* Running. *)

(* The jobs of a variable's initializers: each starts an assignment to it.  *)
LEMMA InitializersBegin ==
  ASSUME IInv, NEW d, NEW jobs, jobs = Beginning(d)
  PROVE  /\ jobs \in Seq(JobSet)
         /\ \A i \in 1 .. Len(jobs) :
              /\ jobs[i].type = "EXECUTE" /\ jobs[i] # SENTINEL /\ JobFine(jobs[i])
              /\ NthOf(InitializersOf(d), i) \in InitializersOf(d)
              /\ jobs[i] = Initializer(NthOf(InitializersOf(d), i))
              /\ i \in 1 .. Cardinality(InitializersOf(d))
         /\ jobs # <<>> => ~ast[d].initializing /\ InitializersOf(d) # {}
<1>1. PICK m \in Nat : m = Len(initializers)
  BY DEF IInv, InitializersFine
<1>2. PICK S \in SUBSET (1 .. m) : S = InitializersOf(d)
  BY <1>1 DEF InitializersOf
<1>3. IsFiniteSet(1 .. m)
  BY FS_Interval
<1>4. PICK c \in Nat : c = Cardinality(S)
  BY <1>3, FS_Subset, FS_CardinalityType
<1>5. \A n \in 1 .. c : NthOf(S, n) \in S
  BY <1>4, NthIsThere
<1>6. ASSUME NEW k \in S, NEW job, job = Initializer(k)
      PROVE  /\ job \in JobSet /\ job.type = "EXECUTE" /\ job # SENTINEL
             /\ JobFine(job)
  <2>1. /\ k \in 1 .. Len(initializers) /\ initializers[k] \in DOMAIN ast
        /\ ast[initializers[k]].code # -1
    <3>1. k \in 1 .. Len(initializers)
      BY <1>1, <1>6
    <3>2. initializers \in Seq(DOMAIN ast)
      BY DEF IInv, InitializersFine
    <3>3. ast[initializers[k]].code # -1
      BY <3>1 DEF IInv, InitializersFine
    <3> QED
      BY <3>1, <3>2, <3>3
  <2>2. ast[initializers[k]].code \in -1 .. Len(bytecode) - 1 /\ Len(bytecode) \in Nat
    BY <2>1 DEF IInv, NodesFine, NodeOK, UnitsFine
  <2>3. PICK code \in 0 .. Len(bytecode) - 1 : code = ast[initializers[k]].code
    BY <2>1, <2>2
  <2>4. PICK machine : machine = Machine(code, NoNode)
    OBVIOUS
  <2>5. /\ machine \in Machines /\ machine.id = code /\ machine.stack = <<>>
        /\ machine.waiting = NoNode
    BY <2>2, <2>4 DEF Machine, Machines, NoFrame, NoNode
  <2>6. MachineFine(machine)
    BY <2>5, StackAssumption DEF MachineFine, MachineOK, AllCompiled
  <2>7. job = [type |-> "EXECUTE", vm |-> machine]
    BY <1>6, <2>3, <2>4 DEF Initializer, ExecuteJob
  <2> QED
    BY <2>5, <2>6, <2>7 DEF JobSet, SENTINEL, NodeTypes, JobFine
<1>7. CASE ast[d].initializing
  <2>1. jobs = <<>>
    BY <1>7 DEF Beginning
  <2> QED
    BY <2>1
<1>8. CASE ~ast[d].initializing
  <2>1. jobs = [n \in 1 .. c |-> Initializer(NthOf(S, n))]
    BY <1>2, <1>4, <1>8 DEF Beginning
  <2>2. \A n \in 1 .. c : jobs[n] = Initializer(NthOf(S, n)) /\ jobs[n] \in JobSet
    BY <1>5, <1>6, <2>1
  <2>3. jobs = [n \in 1 .. c |-> jobs[n]]
    BY <2>1
  <2>4. jobs \in Seq(JobSet) /\ Len(jobs) = c
    BY <2>2, <2>3
  <2>5. \A n \in 1 .. c :
          jobs[n].type = "EXECUTE" /\ jobs[n] # SENTINEL /\ JobFine(jobs[n])
    BY <1>5, <1>6, <2>2
  <2>6. jobs # <<>> => S # {}
    <3>1. ASSUME S = {} PROVE c = 0
      BY <1>4, <3>1, FS_EmptySet
    <3> QED
      BY <2>4, <3>1
  <2> QED
    BY <1>2, <1>4, <1>5, <1>8, <2>2, <2>4, <2>5, <2>6
<1> QED
  BY <1>7, <1>8

(* A machine that waits goes behind the initializers that it begins. *)
LEMMA WaitingStep ==
  ASSUME IInv, NEW m, MachineFine(m), NEW d \in DOMAIN ast, Await(m, d),
         phase = "loop", queue # <<>>, queue[1].type = "EXECUTE",
         UNCHANGED <<program, bytecode, initializers, told>>
  PROVE  IInv'
<1>1. queue \in Seq(JobSet) /\ queue[1] # SENTINEL
  BY DEF IInv, QueueFine, SENTINEL
<1>2. PICK begins \in BOOLEAN : begins = (InitializersOf(d) # {})
  OBVIOUS
<1>3. /\ ast' = Awaited(d, begins) /\ vm' = Idle
      /\ UNCHANGED <<did_work, reported_errors, phase>>
  BY <1>2 DEF Await, Awaited
<1>4. Touched /\ \A p \in DOMAIN ast : ast'[p].code = ast[p].code
  BY <1>3, WaitingTouches DEF IInv
<1>5. TablesFine' /\ Grows /\ DOMAIN ast' = DOMAIN ast
  BY <1>4, TablesTouched DEF IInv
<1>6. PICK jobs : jobs = Beginning(d)
  OBVIOUS
<1>7. /\ jobs \in Seq(JobSet)
      /\ \A i \in 1 .. Len(jobs) :
           jobs[i].type = "EXECUTE" /\ jobs[i] # SENTINEL /\ JobFine(jobs[i])
  BY <1>6, InitializersBegin
<1>8. PICK n : n = Waiter(m, d)
  OBVIOUS
<1>9. MachineFine(n)
  <2>1. d \in Seq(Int)
    BY DEF IInv, NodesFine
  <2> QED
    BY <1>8, <2>1, WaiterFine
<1>10. PICK job : job = ExecuteJob(n)
  OBVIOUS
<1>11. job \in JobSet /\ job.type = "EXECUTE" /\ job # SENTINEL /\ JobFine(job)
  BY <1>9, <1>10 DEF ExecuteJob, JobSet, SENTINEL, JobFine, NodeTypes, MachineFine,
     MachineOK
<1>12. PICK one : one = <<job>>
  OBVIOUS
<1>13. one \in Seq(JobSet) /\ Len(one) = 1 /\ \A i \in 1 .. Len(one) : one[i] = job
  BY <1>11, <1>12
<1>14. PICK e : e = jobs \o one
  OBVIOUS
<1>15. queue' = Tail(queue) \o e
  <2>1. queue' = (Tail(queue) \o jobs) \o one
    BY <1>6, <1>8, <1>10, <1>12 DEF Await
  <2> QED
    BY <1>1, <1>7, <1>13, <1>14, <2>1, PutBehind
<1>16. /\ e \in Seq(JobSet)
       /\ \A i \in 1 .. Len(e) : (\E j \in 1 .. Len(jobs) : e[i] = jobs[j]) \/ e[i] = job
  <2>1. PICK k \in Nat : k = Len(jobs)
    BY <1>7
  <2>2. jobs \in Seq(JobSet) /\ one \in Seq(JobSet) /\ Len(one) = 1
    BY <1>7, <1>13
  <2>3. /\ e \in Seq(JobSet) /\ Len(e) = k + 1
        /\ \A i \in 1 .. k + 1 : e[i] = IF i <= k THEN jobs[i] ELSE one[i - k]
    <3>1. /\ e \in Seq(JobSet) /\ Len(e) = Len(jobs) + Len(one)
          /\ \A i \in 1 .. Len(jobs) + Len(one) :
               e[i] = IF i <= Len(jobs) THEN jobs[i] ELSE one[i - Len(jobs)]
      BY <1>14, <2>2, ConcatProperties, Zenon
    <3> QED
      BY <2>1, <2>2, <3>1
  <2>4. ASSUME NEW i \in 1 .. k + 1
        PROVE  (i \in 1 .. k /\ i <= k) \/ (~(i <= k) /\ i - k = 1)
    OBVIOUS
  <2>5. one[1] = job
    BY <1>13
  <2> QED
    BY <2>1, <2>3, <2>4, <2>5
<1>17. \A i \in 1 .. Len(e) :
         e[i].type = "EXECUTE" /\ e[i] # SENTINEL /\ JobFine(e[i])
  BY <1>7, <1>11, <1>16
<1>18. ASSUME NEW i \in 1 .. Len(e), NEW x, x = e[i]
       PROVE  x # SENTINEL /\ JobFine(x)' /\ ~IsNodeJob(x) /\ x.type \in Retryable
  BY <1>5, <1>17, <1>18, JobStaysFine DEF IsNodeJob, NodeTypes, Retryable
<1>19. \A i \in 1 .. Len(e) :
         /\ e[i] # SENTINEL /\ JobFine(e[i])' /\ ~IsNodeJob(e[i])
         /\ e[i].type \in Retryable
  BY <1>18
<1>20. Flags' /\ phase' = "loop" /\ did_work' = did_work
  BY <1>3 DEF IInv, Flags, Phases
<1> QED
  BY <1>1, <1>3, <1>4, <1>5, <1>15, <1>16, <1>19, <1>20, EmittingNoNodes

LEMMA RunStep ==
  ASSUME IInv, Run
  PROVE  IInv'
<1>1. Execute /\ UNCHANGED <<program, told, bytecode, initializers>>
  BY DEF Run, Execute
<1>2. /\ Stepping
      /\ phase = "loop" /\ queue # <<>> /\ queue[1].type = "EXECUTE"
      /\ queue \in Seq(JobSet)
  BY <1>1, ExecuteStep DEF IInv
<1>3. ASSUME Touched, \A p \in DOMAIN ast : ast'[p].code = ast[p].code
      PROVE  TablesFine' /\ Grows /\ DOMAIN ast' = DOMAIN ast
  BY <1>1, <1>3, TablesTouched DEF IInv
<1>4. ASSUME UNCHANGED pipelineVars, Touched,
             \A p \in DOMAIN ast : ast'[p].code = ast[p].code,
             NEW m, MachineFine(m), vm' = m
      PROVE  IInv'
  <2>1. TablesFine' /\ Grows /\ DOMAIN ast' = DOMAIN ast
    BY <1>3, <1>4
  <2>2. UNCHANGED <<queue, did_work, reported_errors, phase>>
    BY <1>4 DEF pipelineVars
  <2>3. QueueFine' /\ NodesHandledOnce' /\ OpenedFirst'
    BY <1>4, <2>1, <2>2, QueueUntouched DEF IInv
  <2>4. Flags'
    BY <1>1, <2>2 DEF IInv, Flags, Phases
  <2>5. LoopInv'
    BY <2>2, ConstantsStay DEF IInv, LoopInv, SentinelUnique, SentinelGone, QuietRound,
       DrainsOnlyRetryable
  <2>6. VmFine'
    <3>1. MachineFine(m)'
      BY <1>4, <2>1, MachineStaysFine
    <3> QED
      BY <1>2, <1>4, <2>2, <3>1 DEF VmFine
  <2> QED
    BY <2>1, <2>3, <2>4, <2>5, <2>6 DEF IInv, TablesFine
<1>5. CASE Running
  <2>1. PICK m : MachineFine(m) /\ Continue(m)
    BY <1>5 DEF Running
  <2>2. vm' = m /\ UNCHANGED pipelineVars /\ ast' = ast
    BY <2>1 DEF Continue
  <2>3. Touched /\ \A p \in DOMAIN ast : ast'[p].code = ast[p].code
    BY <2>2, Untouched DEF IInv
  <2> QED
    BY <1>4, <2>1, <2>2, <2>3
<1>6. CASE Storing
  <2>1. PICK m, d, word :
          /\ d \in DOMAIN ast /\ word \in Words
          /\ MachineFine(m) /\ Compiled(word)
          /\ ast' = Stored(d, word) /\ vm' = m /\ UNCHANGED pipelineVars
    BY <1>6 DEF Storing
  <2>2. Touched /\ \A p \in DOMAIN ast : ast'[p].code = ast[p].code
    BY <2>1, StoringTouches DEF IInv
  <2> QED
    BY <1>4, <2>1, <2>2
<1>7. CASE Waiting
  <2>1. PICK m, d : d \in DOMAIN ast /\ MachineFine(m) /\ Await(m, d)
    BY <1>7 DEF Waiting
  <2> QED
    BY <1>1, <1>2, <2>1, WaitingStep
<1>8. CASE Finishing
  <2>1. Touched /\ \A p \in DOMAIN ast : ast'[p].code = ast[p].code
    BY <1>8, Untouched, FinishingTouches DEF Finishing, IInv
  <2>2. TablesFine' /\ Grows /\ DOMAIN ast' = DOMAIN ast
    BY <1>3, <2>1
  <2>3. PICK e : e = <<>>
    OBVIOUS
  <2>4. e \in Seq(JobSet) /\ Len(e) = 0 /\ \A i : i \notin 1 .. Len(e)
    BY <2>3
  <2>5. /\ queue' = Tail(queue) \o e /\ did_work' /\ phase' = "loop" /\ Flags'
        /\ vm' = Idle
    BY <1>1, <1>2, <1>8, <2>3 DEF Finishing, Completed, IInv, Flags, Phases
  <2>6. queue[1] # SENTINEL
    BY <1>2 DEF SENTINEL
  <2> QED
    BY <1>2, <2>1, <2>2, <2>4, <2>5, <2>6, EmittingNoNodes
<1>9. CASE Derail
  BY <1>1, <1>9, CrashStep DEF Derail, Crashed
<1> QED
  BY <1>2, <1>5, <1>6, <1>7, <1>8, <1>9 DEF Stepping

-----------------------------------------------------------------------------
(* The loop around the handlers. *)

(* A turn that emits no job, or the sentinel. *)
LEMMA QueueTurns ==
  ASSUME IInv, UNCHANGED <<program, ast, bytecode, initializers>>,
         queue # <<>>, NEW e \in Seq(JobSet), queue' = Tail(queue) \o e,
         \A i \in 1 .. Len(e) : e[i] = SENTINEL
  PROVE  TablesFine' /\ QueueFine' /\ NodesHandledOnce' /\ OpenedFirst'
<1>1. /\ TablesFine' /\ Grows /\ DOMAIN ast' = DOMAIN ast
      /\ \A p \in DOMAIN ast : ast'[p].code = ast[p].code
  BY TablesUnchanged
<1>2. queue \in Seq(JobSet)
  BY DEF IInv, QueueFine
<1>3. ASSUME NEW job, job = SENTINEL
      PROVE  JobFine(job)' /\ ~IsNodeJob(job)
  BY <1>3 DEF JobFine, IsNodeJob, SENTINEL, NodeTypes
<1>4. \A i \in 1 .. Len(e) : JobFine(e[i])' /\ ~IsNodeJob(e[i])
  BY <1>3
<1>5. QueueFine'
  BY <1>1, <1>4, QueueStaysFine DEF IInv
<1>6. /\ \A j \in 1 .. Len(queue) :
           IsNodeJob(queue[j]) => ast'[queue[j].node].code = -1
      /\ \A q \in DOMAIN ast' :
           ast'[q].code # -1 => q \in DOMAIN ast /\ ast[q].code # -1
  BY <1>1, CodesKept
<1>7. NodesHandledOnce'
  BY <1>2, <1>4, <1>6, HandledStaysOnce DEF IInv
<1>8. OpenedFirst'
  BY <1>1, <1>2, <1>4, <1>6, OpenedStaysFirst DEF IInv
<1> QED
  BY <1>1, <1>5, <1>7, <1>8

LEMMA ReportStep ==
  ASSUME IInv, Report, UNCHANGED <<program, ast, bytecode, initializers, vm>>
  PROVE  IInv'
<1>1. /\ phase = "loop" /\ queue # <<>> /\ queue[1].type = "ABORT"
      /\ queue[1] # SENTINEL
  BY HeadFacts DEF Report, TakeAbort, IInv
<1>2. vm' = Idle
  BY <1>1, NoMachine DEF IInv
<1>3. /\ TablesFine' /\ Grows /\ DOMAIN ast' = DOMAIN ast
      /\ \A p \in DOMAIN ast : ast'[p].code = ast[p].code
  BY TablesUnchanged
<1>4. PICK e : e = <<>>
  OBVIOUS
<1>5. e \in Seq(JobSet) /\ Len(e) = 0 /\ \A i : i \notin 1 .. Len(e)
  BY <1>4
<1>6. queue \in Seq(JobSet) /\ queue' = Tail(queue) \o e
  <2>1. queue \in Seq(JobSet) /\ queue' = Tail(queue)
    BY DEF IInv, QueueFine, Report, TakeAbort
  <2>2. Tail(queue) \in Seq(JobSet)
    BY <1>1, <2>1, HeadTailProperties
  <2> QED
    BY <1>4, <2>1, <2>2, ConcatEmptySeq
<1>7. told' \in BOOLEAN
  BY Zenon DEF Report
<1>8. /\ did_work' = TRUE /\ phase' = "loop" /\ reported_errors' \in Nat
  BY <1>1 DEF Report, TakeAbort, IInv, Flags
<1>9. Flags'
  BY <1>7, <1>8 DEF Flags, IInv, Phases
<1> QED
  BY <1>1, <1>2, <1>3, <1>5, <1>6, <1>8, <1>9, EmittingNoNodes

LEMMA DrainStep ==
  ASSUME IInv, DrainAll, UNCHANGED <<program, ast, bytecode, initializers, vm>>
  PROVE  IInv'
<1>1. phase = "drain" /\ queue # <<>> /\ queue' = Tail(queue) /\ queue \in Seq(JobSet)
  BY DEF DrainAll, Drain, IInv, QueueFine
<1>2. vm' = Idle
  BY <1>1, NoMachine DEF IInv
<1>3. PICK e : e = <<>>
  OBVIOUS
<1>4. e \in Seq(JobSet) /\ Len(e) = 0 /\ \A i : i \notin 1 .. Len(e)
  BY <1>3
<1>5. queue' = Tail(queue) \o e /\ queue' \in Seq(JobSet)
  <2>1. Tail(queue) \in Seq(JobSet)
    BY <1>1, HeadTailProperties
  <2> QED
    BY <1>1, <1>3, <2>1, ConcatEmptySeq
<1>6. TablesFine' /\ QueueFine' /\ NodesHandledOnce' /\ OpenedFirst'
  BY <1>1, <1>4, <1>5, QueueTurns
<1>7. \A i \in 1 .. Len(queue') :
        i + 1 \in 1 .. Len(queue) /\ queue'[i] = queue[i + 1]
  BY <1>1, <1>4, <1>5, OldOrEmitted
<1>8. Job = queue[1] /\ 1 \in 1 .. Len(queue)
  BY <1>1 DEF Job
<1>9. \A i \in 1 .. Len(queue) : queue[i].type \in Retryable /\ queue[i] # SENTINEL
  BY <1>1 DEF IInv, LoopInv, SentinelGone, DrainsOnlyRetryable
<1>10. phase' = "drain" /\ did_work' = did_work /\ reported_errors' \in Nat
  <2>1. Job.type \in Retryable /\ reported_errors \in Nat
    BY <1>8, <1>9 DEF IInv, Flags
  <2> QED
    BY <1>1, <2>1 DEF DrainAll, Drain
<1>11. told' \in BOOLEAN
  BY Zenon DEF DrainAll
<1>12. Flags'
  BY <1>10, <1>11 DEF Flags, IInv, Phases
<1>13. LoopInv'
  BY <1>7, <1>9, <1>10, ConstantsStay
     DEF LoopInv, SentinelUnique, SentinelGone, QuietRound, DrainsOnlyRetryable
<1>14. VmFine'
  BY <1>2 DEF VmFine, Idle, Machine
<1> QED
  BY <1>6, <1>12, <1>13, <1>14 DEF IInv, TablesFine

(* The sentinel: it is in front, and nowhere else. *)
LEMMA SentinelTaken ==
  ASSUME IInv, Taking("SENTINEL")
  PROVE  /\ phase = "loop" /\ queue # <<>> /\ queue \in Seq(JobSet)
         /\ Job = SENTINEL /\ queue[1] = SENTINEL /\ 1 \in 1 .. Len(queue)
         /\ \A i \in 1 .. Len(queue) : queue[i] = SENTINEL => i = 1
         /\ vm = Idle
<1>1. /\ phase = "loop" /\ queue # <<>> /\ queue \in Seq(JobSet)
      /\ Job = queue[1] /\ 1 \in 1 .. Len(queue) /\ queue[1] \in JobSet
      /\ queue[1].type = "SENTINEL"
  BY HeadFacts DEF IInv
<1>2. queue[1] = SENTINEL
  BY <1>1, SentinelIsOne
<1>3. \A i \in 1 .. Len(queue) : queue[i] = SENTINEL => i = 1
  BY <1>1, <1>2 DEF IInv, LoopInv, SentinelUnique
<1>4. vm = Idle
  BY <1>1, NoMachine DEF IInv
<1> QED
  BY <1>1, <1>2, <1>3, <1>4

LEMMA NextRoundStep ==
  ASSUME IInv, NextRound, UNCHANGED <<program, ast, bytecode, initializers, vm, told>>
  PROVE  IInv'
<1>1. /\ phase = "loop" /\ queue # <<>> /\ queue \in Seq(JobSet)
      /\ Job = SENTINEL /\ queue[1] = SENTINEL /\ 1 \in 1 .. Len(queue)
      /\ \A i \in 1 .. Len(queue) : queue[i] = SENTINEL => i = 1
      /\ vm = Idle
  BY SentinelTaken DEF NextRound
<1>2. PICK e : e = <<SENTINEL>>
  OBVIOUS
<1>3. /\ e \in Seq(JobSet) /\ Len(e) = 1 /\ e[1] = SENTINEL
      /\ \A i \in 1 .. Len(e) : e[i] = SENTINEL
  BY <1>2 DEF JobSet
<1>4. /\ queue' = Tail(queue) \o e /\ did_work' = FALSE /\ phase' = "loop"
      /\ reported_errors' = reported_errors
  BY <1>1, <1>2 DEF NextRound
<1>5. TablesFine' /\ QueueFine' /\ NodesHandledOnce' /\ OpenedFirst'
  BY <1>1, <1>3, <1>4, QueueTurns
<1>6. PICK n \in Nat \ {0} : n = Len(queue)
  BY <1>1
<1>7. /\ Len(queue') = n
      /\ \A i \in 1 .. n : queue'[i] = IF i < n THEN queue[i + 1] ELSE e[i - n + 1]
  <2>1. /\ Len(queue') = Len(queue) - 1 + Len(e)
        /\ \A i \in 1 .. Len(queue') :
             queue'[i] = IF i < Len(queue) THEN queue[i + 1]
                                           ELSE e[i - Len(queue) + 1]
    <3>1. /\ queue \in Seq(JobSet) /\ queue # <<>> /\ e \in Seq(JobSet)
          /\ queue' = Tail(queue) \o e
      BY <1>1, <1>3, <1>4
    <3> QED
      BY <3>1, TailThenEmitted, Zenon
  <2> QED
    BY <1>3, <1>6, <2>1
<1>8. queue'[n] = SENTINEL
  <2>1. n \in 1 .. n /\ ~(n < n) /\ n - n + 1 = 1
    OBVIOUS
  <2> QED
    BY <1>3, <1>7, <2>1
<1>9. ASSUME NEW i \in 1 .. n, queue'[i] = SENTINEL PROVE i = n
  <2>1. CASE i < n
    <3>1. i + 1 \in 1 .. n /\ i + 1 # 1
      BY <2>1
    <3>2. queue[i + 1] = SENTINEL
      BY <1>7, <1>9, <2>1
    <3> QED
      BY <1>1, <1>6, <3>1, <3>2
  <2> QED
    BY <2>1
<1>10. LoopInv'
  <2>1. \A i \in 1 .. n : ~(n < i)
    OBVIOUS
  <2>2. n \in 1 .. n
    OBVIOUS
  <2> QED
    BY <1>4, <1>7, <1>8, <1>9, <2>1, <2>2, ConstantsStay, ZenonT(40)
       DEF LoopInv, SentinelUnique, SentinelGone, QuietRound, DrainsOnlyRetryable
<1>11. Flags' /\ VmFine'
  BY <1>1, <1>4 DEF IInv, Flags, Phases, VmFine, Idle, Machine
<1> QED
  BY <1>5, <1>10, <1>11 DEF IInv, TablesFine

LEMMA StallStep ==
  ASSUME IInv, Stall, UNCHANGED <<program, ast, bytecode, initializers, vm, told>>
  PROVE  IInv'
<1>1. /\ phase = "loop" /\ queue # <<>> /\ queue \in Seq(JobSet)
      /\ Job = SENTINEL /\ queue[1] = SENTINEL /\ 1 \in 1 .. Len(queue)
      /\ \A i \in 1 .. Len(queue) : queue[i] = SENTINEL => i = 1
      /\ vm = Idle
  BY SentinelTaken DEF Stall
<1>2. PICK e : e = <<>>
  OBVIOUS
<1>3. e \in Seq(JobSet) /\ Len(e) = 0 /\ \A i : i \notin 1 .. Len(e)
  BY <1>2
<1>4. queue' = Tail(queue) \o e
  <2>1. Tail(queue) \in Seq(JobSet)
    BY <1>1, HeadTailProperties
  <2> QED
    BY <1>2, <2>1, ConcatEmptySeq DEF Stall
<1>5. /\ ~did_work /\ did_work' = did_work /\ phase' = "drain"
      /\ reported_errors' = reported_errors
  BY DEF Stall
<1>6. TablesFine' /\ QueueFine' /\ NodesHandledOnce' /\ OpenedFirst'
  BY <1>1, <1>3, <1>4, QueueTurns
<1>7. \A i \in 1 .. Len(queue') :
        i + 1 \in 1 .. Len(queue) /\ i + 1 # 1 /\ queue'[i] = queue[i + 1]
  BY <1>1, <1>3, <1>4, OldOrEmitted
<1>8. \A i \in 1 .. Len(queue) :
        i # 1 => queue[i] # SENTINEL /\ queue[i].type \in Retryable
  <2>1. \A i \in 1 .. Len(queue) : i # 1 => 1 < i
    BY <1>1
  <2> QED
    BY <1>1, <1>5, <2>1 DEF IInv, LoopInv, QuietRound
<1>9. LoopInv'
  BY <1>5, <1>7, <1>8, ConstantsStay
     DEF LoopInv, SentinelUnique, SentinelGone, QuietRound, DrainsOnlyRetryable
<1>10. Flags' /\ VmFine'
  BY <1>1, <1>5 DEF IInv, Flags, Phases, VmFine, Idle, Machine
<1> QED
  BY <1>6, <1>9, <1>10 DEF IInv, TablesFine

LEMMA ReturnStep ==
  ASSUME IInv, Return, UNCHANGED <<program, ast, bytecode, initializers, vm, told>>
  PROVE  IInv'
<1>1. /\ queue = <<>> /\ phase' = "done"
      /\ UNCHANGED <<queue, did_work, reported_errors>>
  BY DEF Return
<1>2. vm' = Idle
  BY <1>1, NoMachine DEF IInv
<1>3. /\ TablesFine' /\ Grows /\ DOMAIN ast' = DOMAIN ast
      /\ \A p \in DOMAIN ast : ast'[p].code = ast[p].code
  BY TablesUnchanged
<1>4. QueueFine' /\ NodesHandledOnce' /\ OpenedFirst'
  BY <1>1, <1>3, QueueUntouched DEF IInv
<1>5. \A i : i \notin 1 .. Len(queue')
  BY <1>1
<1>6. LoopInv'
  BY <1>1, <1>5 DEF LoopInv, SentinelUnique, SentinelGone, QuietRound,
     DrainsOnlyRetryable
<1>7. Flags' /\ VmFine'
  BY <1>1, <1>2 DEF IInv, Flags, Phases, VmFine, Idle, Machine
<1> QED
  BY <1>3, <1>4, <1>6, <1>7 DEF IInv, TablesFine

LEMMA NothingStep ==
  ASSUME IInv, UNCHANGED vars
  PROVE  IInv'
<1>1. UNCHANGED <<queue, did_work, reported_errors, phase,
                  program, ast, bytecode, initializers, vm, told>>
  BY DEF vars
<1>2. /\ TablesFine' /\ Grows /\ DOMAIN ast' = DOMAIN ast
      /\ \A p \in DOMAIN ast : ast'[p].code = ast[p].code
  BY <1>1, TablesUnchanged
<1>3. QueueFine' /\ NodesHandledOnce' /\ OpenedFirst'
  BY <1>1, <1>2, QueueUntouched DEF IInv
<1>4. LoopInv' /\ Flags'
  BY <1>1, ConstantsStay DEF IInv, Flags, LoopInv, SentinelUnique, SentinelGone,
     QuietRound, DrainsOnlyRetryable, Phases
<1>5. VmFine'
  <2>1. ASSUME NEW m, m = vm, MachineFine(m) PROVE MachineFine(m)'
    BY <1>2, <2>1, MachineStaysFine
  <2>2. Idle' = Idle
    BY DEF Idle, Machine, NoNode, NoFrame
  <2> QED
    BY <1>1, <2>1, <2>2 DEF IInv, VmFine
<1> QED
  BY <1>2, <1>3, <1>4, <1>5 DEF IInv, TablesFine

LEMMA TurnStep ==
  ASSUME IInv, Turn
  PROVE  IInv'
<1>1. UNCHANGED <<program, ast, bytecode, initializers, vm>>
  BY DEF Turn
<1> QED
  BY <1>1, ReportStep, DrainStep, NextRoundStep, StallStep, ReturnStep DEF Turn

LEMMA IInvStep ==
  ASSUME IInv, HandlersKeep, [Next]_vars
  PROVE  IInv'
<1>1. CASE Halt
  BY <1>1, NothingStep DEF Halt
<1>2. CASE UNCHANGED vars
  BY <1>2, NothingStep
<1> QED
  BY <1>1, <1>2, ReadStep, LexStep, ParseStep, TypecheckStep, OptimizeStep,
     GenerateStep, RunStep, TurnStep DEF Next

-----------------------------------------------------------------------------
(* The start. *)

LEMMA BuiltinsFacts ==
  ASSUME ast = Builtins
  PROVE  /\ ast = [p \in DOMAIN ast |-> ast[p]]
         /\ DOMAIN ast = {Global, Putc, PutcCode}
         /\ Global \in Seq(Int) /\ Putc \in Seq(Int) /\ PutcCode \in Seq(Int)
         /\ Global # Putc /\ Global # PutcCode /\ Putc # PutcCode
         /\ NoNode \notin DOMAIN ast
         /\ \A p \in DOMAIN ast :
              /\ DOMAIN ast[p] = NodeFields
              /\ ast[p].lhs = NoNode /\ ast[p].declaration = NoNode
              /\ ast[p].code = IF p = PutcCode THEN 1 ELSE -1
              /\ ast[p].initializing = FALSE /\ ast[p].initialized \in BOOLEAN
              /\ ast[p].value = IF p = Putc THEN Pointer(PutcCode) ELSE Null
         /\ ast[Global].kind = "GLOBAL"
<1>1. /\ ast = [p \in DOMAIN ast |-> ast[p]]
      /\ DOMAIN ast = {Global, Putc, PutcCode}
  BY DEF Builtins
<1>2. /\ Global \in Seq(Int) /\ Putc \in Seq(Int) /\ PutcCode \in Seq(Int)
      /\ Global # Putc /\ Global # PutcCode /\ Putc # PutcCode
      /\ NoNode # Global /\ NoNode # Putc /\ NoNode # PutcCode
  BY DEF Global, Putc, PutcCode, NoNode
<1>3. PICK class : class = ProcClass(<< <<"u8">> >>, <<>>)
  OBVIOUS
<1>4. /\ ast[Global] = [Node("GLOBAL") EXCEPT !.decls = <<Putc>>]
      /\ ast[Putc] = [Node("DECLARATION") EXCEPT
                        !.name = "putc", !.class = class,
                        !.initialized = TRUE, !.value = Pointer(PutcCode)]
      /\ ast[PutcCode] = [Node("PROCEDURE") EXCEPT !.code = 1]
  BY <1>2, <1>3 DEF Builtins
<1> DEFINE Fresh(a, kind) ==
      /\ DOMAIN a = NodeFields /\ a.kind = kind /\ a.lhs = NoNode
      /\ a.declaration = NoNode /\ a.initializing = FALSE
<1>5. \A kind : /\ Fresh(Node(kind), kind) /\ Node(kind).code = -1
                /\ Node(kind).initialized = FALSE /\ Node(kind).value = Null
  BY DEF Node, NodeFields
<1>6. /\ Fresh(ast[Global], "GLOBAL") /\ ast[Global].code = -1
      /\ ast[Global].initialized = FALSE /\ ast[Global].value = Null
  BY <1>4, <1>5, Fields
<1>7. /\ Fresh(ast[Putc], "DECLARATION") /\ ast[Putc].code = -1
      /\ ast[Putc].initialized = TRUE /\ ast[Putc].value = Pointer(PutcCode)
  BY <1>4, <1>5, Fields
<1>8. /\ Fresh(ast[PutcCode], "PROCEDURE") /\ ast[PutcCode].code = 1
      /\ ast[PutcCode].initialized = FALSE /\ ast[PutcCode].value = Null
  BY <1>4, <1>5, Fields
<1> QED
  BY <1>1, <1>2, <1>6, <1>7, <1>8

LEMMA FirstUnits ==
  ASSUME bytecode = <<Bootstrap, PutcUnit>>
  PROVE  UnitsFine /\ Len(bytecode) = 2
<1>1. /\ RETURN \in Words /\ PUSH \in Words /\ CALL \in Words /\ SYSCALL \in Words
      /\ ARG_ADDR \in Words /\ Num(0) \in Words /\ Num(4) \in Words /\ Data \in Words
      /\ Null = Num(0) /\ Compiled(Num(0)) /\ Compiled(Data)
  BY WordFacts DEF RETURN, PUSH, CALL, SYSCALL, ARG_ADDR, Null
<1>2. /\ PUSH # CALL /\ RETURN # CALL /\ SYSCALL # CALL /\ ARG_ADDR # CALL
      /\ Num(0) # CALL /\ Num(4) # CALL /\ Data # CALL
      /\ RETURN # PUSH /\ SYSCALL # PUSH /\ ARG_ADDR # PUSH
      /\ Num(0) # PUSH /\ Num(4) # PUSH
  BY DEF RETURN, PUSH, CALL, SYSCALL, ARG_ADDR, Num, Data
<1>3. Data # PUSH /\ CALL[1] # "node" /\ ARG_ADDR[1] # "node" /\ PUSH[1] # "node"
  BY DEF PUSH, CALL, ARG_ADDR, Num, Data
<1>4. /\ Bootstrap \in Seq(Words) /\ Len(Bootstrap) = 5 /\ Bootstrap[1] = CALL
      /\ PushesCompiled(Bootstrap)
  BY <1>1, <1>2, <1>3 DEF Bootstrap, PushesCompiled
<1>5. PutcUnit \in Seq(Words) /\ PushesCompiled(PutcUnit)
  BY <1>1, <1>2, <1>3 DEF PutcUnit, PushesCompiled
<1> HIDE DEF Bootstrap, PutcUnit
<1>6. /\ bytecode \in Seq(Seq(Words)) /\ Len(bytecode) = 2
      /\ bytecode[1] = Bootstrap /\ bytecode[2] = PutcUnit
  BY <1>4, <1>5
<1>7. \A u \in 1 .. Len(bytecode) : u = 1 \/ u = 2
  BY <1>6
<1> QED
  <2>1. PICK a, b : a = Bootstrap /\ b = PutcUnit
    OBVIOUS
  <2>2. \A u \in 1 .. Len(bytecode) : PushesCompiled(bytecode[u])
    <3>1. PushesCompiled(a) /\ PushesCompiled(b) /\ bytecode[1] = a /\ bytecode[2] = b
      BY <1>4, <1>5, <1>6, <2>1
    <3> QED
      BY <1>7, <3>1
  <2>3. Len(bytecode[1]) >= 2 /\ bytecode[1][1] = CALL
    <3>1. bytecode[1] = a /\ Len(a) = 5 /\ a[1] = CALL
      BY <1>4, <1>6, <2>1
    <3> QED
      BY <3>1
  <2> QED
    BY <1>6, <2>2, <2>3 DEF UnitsFine

LEMMA FirstJobs ==
  ASSUME Init, NEW job, job = FileJob("READ", MainFile)
  PROVE  /\ job \in JobSet /\ job.type = "READ" /\ job # SENTINEL
         /\ JobFine(job) /\ ~IsNodeJob(job)
         /\ SENTINEL \in JobSet /\ JobFine(SENTINEL) /\ ~IsNodeJob(SENTINEL)
         /\ queue \in Seq(JobSet) /\ Len(queue) = 2
         /\ queue[1] = SENTINEL /\ queue[2] = job
         /\ \A i \in 1 .. Len(queue) : i = 1 \/ i = 2
<1>1. /\ job \in JobSet /\ job.type = "READ" /\ job # SENTINEL
      /\ JobFine(job) /\ ~IsNodeJob(job)
  <2>1. MainFile \in FileNames
    BY DEF FileNames
  <2> QED
    BY <2>1 DEF JobSet, FileJob, FileTypes, SENTINEL, JobFine, IsNodeJob, NodeTypes
<1>2. /\ SENTINEL \in JobSet /\ JobFine(SENTINEL) /\ ~IsNodeJob(SENTINEL)
  BY DEF JobSet, SENTINEL, JobFine, IsNodeJob, NodeTypes
<1>3. PICK a, b : a = <<SENTINEL>> /\ b = <<job>>
  OBVIOUS
<1>4. /\ queue \in Seq(JobSet) /\ Len(queue) = 2
      /\ queue[1] = SENTINEL /\ queue[2] = job
      /\ \A i \in 1 .. Len(queue) : i = 1 \/ i = 2
  <2>1. queue = a \o b
    BY <1>3 DEF Init, PipelineInit
  <2>2. /\ a \in Seq(JobSet) /\ Len(a) = 1 /\ a[1] = SENTINEL
        /\ b \in Seq(JobSet) /\ Len(b) = 1 /\ b[1] = job
    BY <1>1, <1>2, <1>3
  <2>3. /\ queue \in Seq(JobSet) /\ Len(queue) = 2
        /\ \A i \in 1 .. 2 : queue[i] = IF i <= 1 THEN a[i] ELSE b[i - 1]
    <3>1. /\ queue \in Seq(JobSet) /\ Len(queue) = Len(a) + Len(b)
          /\ \A i \in 1 .. Len(a) + Len(b) :
               queue[i] = IF i <= Len(a) THEN a[i] ELSE b[i - Len(a)]
      BY <2>1, <2>2, ConcatProperties, Zenon
    <3> QED
      BY <2>2, <3>1
  <2>4. /\ queue[1] = a[1] /\ queue[2] = b[1]
    <3>1. 1 \in 1 .. 2 /\ 2 \in 1 .. 2 /\ 1 <= 1 /\ ~(2 <= 1) /\ 2 - 1 = 1
      OBVIOUS
    <3> QED
      BY <2>3, <3>1
  <2> QED
    BY <2>2, <2>3, <2>4
<1> QED
  BY <1>1, <1>2, <1>4

LEMMA IInvInit ==
  ASSUME Init
  PROVE  IInv
<1>1. /\ program \in Programs /\ ast = Builtins
      /\ bytecode = <<Bootstrap, PutcUnit>>
      /\ initializers = <<>> /\ vm = Idle /\ told = FALSE
      /\ did_work = TRUE /\ reported_errors = 0 /\ phase = "loop"
  BY DEF Init, PipelineInit
<1>2. PICK job : job = FileJob("READ", MainFile)
  OBVIOUS
<1>3. /\ job \in JobSet /\ job.type = "READ" /\ job # SENTINEL
      /\ JobFine(job) /\ ~IsNodeJob(job)
  BY <1>2, FirstJobs
<1>4. /\ SENTINEL \in JobSet /\ JobFine(SENTINEL) /\ ~IsNodeJob(SENTINEL)
  BY <1>2, FirstJobs
<1>6. /\ queue \in Seq(JobSet) /\ Len(queue) = 2
      /\ queue[1] = SENTINEL /\ queue[2] = job
      /\ \A i \in 1 .. Len(queue) : i = 1 \/ i = 2
  BY <1>2, FirstJobs
<1>7. QueueFine
  BY <1>3, <1>4, <1>6 DEF QueueFine
<1>8. NodesHandledOnce
  BY <1>3, <1>4, <1>6 DEF NodesHandledOnce, NodeJobs, IsNodeJob
<1>9. LoopInv
  BY <1>1, <1>3, <1>6
     DEF LoopInv, SentinelUnique, SentinelGone, QuietRound, DrainsOnlyRetryable
<1>10. VmFine
  BY <1>1 DEF VmFine
<1>11. Flags
  BY <1>1 DEF Flags, Phases
<1>12. UnitsFine /\ Len(bytecode) = 2
  BY <1>1, FirstUnits
<1>13. NodesFine
  <2>1. /\ DOMAIN ast = {Global, Putc, PutcCode} /\ NoNode \notin DOMAIN ast
        /\ Global \in Seq(Int) /\ Putc \in Seq(Int) /\ PutcCode \in Seq(Int)
        /\ ast = [p \in DOMAIN ast |-> ast[p]]
    BY <1>1, BuiltinsFacts
  <2>2. PutcCode \in DOMAIN ast
    BY <2>1
  <2>3. ast[PutcCode].code = 1
    BY <1>1, <2>2, BuiltinsFacts
  <2>4. Compiled(Pointer(PutcCode))
    BY <2>2, <2>3 DEF Pointer, Compiled
  <2>5. Pointer(PutcCode) \in Words /\ Null \in Words /\ Compiled(Null)
    BY <2>1 DEF Pointer, Words, Null, Num, Compiled
  <2>6. ASSUME NEW p \in DOMAIN ast
        PROVE  p \in Seq(Int) /\ NodeOK(ast[p]) /\ Compiled(ast[p].value)
    <3>1. /\ DOMAIN ast[p] = NodeFields
          /\ ast[p].lhs = NoNode /\ ast[p].declaration = NoNode
          /\ ast[p].code = IF p = PutcCode THEN 1 ELSE -1
          /\ ast[p].initializing = FALSE /\ ast[p].initialized \in BOOLEAN
          /\ ast[p].value = IF p = Putc THEN Pointer(PutcCode) ELSE Null
      BY <1>1, BuiltinsFacts
    <3>2. ast[p].code \in -1 .. Len(bytecode) - 1
      BY <1>12, <3>1
    <3>3. ast[p].value \in Words /\ Compiled(ast[p].value)
      BY <2>4, <2>5, <3>1
    <3>4. p \in Seq(Int)
      BY <2>1
    <3> QED
      BY <3>1, <3>2, <3>3, <3>4 DEF NodeOK
  <2> QED
    BY <2>1, <2>6 DEF NodesFine
<1>14. InitializersFine
  BY <1>1 DEF InitializersFine
<1>15. CodesDistinct
  BY <1>1, BuiltinsFacts DEF CodesDistinct
<1>16. OpenedFirst
  <2>1. Parent(PutcCode) = Global
    BY DEF Parent, PutcCode, Global
  <2>2. Opened(PutcCode)
    BY <1>1, <2>1, BuiltinsFacts DEF Opened
  <2>3. \A q \in DOMAIN ast : ast[q].code # -1 => q = PutcCode
    BY <1>1, BuiltinsFacts
  <2> QED
    BY <1>3, <1>4, <1>6, <2>2, <2>3 DEF OpenedFirst, NodeJobs, IsNodeJob
<1> QED
  BY <1>7, <1>8, <1>9, <1>10, <1>11, <1>12, <1>13, <1>14, <1>15, <1>16 DEF IInv

-----------------------------------------------------------------------------
(* What the invariant says. *)

(* While the handlers keep their contracts, the invariant holds. *)
THEOREM Invariance == Spec /\ []HandlersKeep => []IInv
<1>1. Init => IInv
  BY IInvInit
<1>2. IInv /\ HandlersKeep /\ [Next]_vars => IInv'
  BY IInvStep
<1> QED
  BY <1>1, <1>2, PTL DEF Spec

LEMMA IdleFacts == Idle.stack = <<>> /\ Len(Idle.stack) = 0
BY DEF Idle, Machine

LEMMA InvImpliesTypes ==
  ASSUME IInv
  PROVE  TypeOK
<1>1. \A i \in NodeJobs : queue[i].node \in DOMAIN ast
  BY DEF IInv, QueueFine, JobFine, NodeJobs
<1>2. \A i \in Jobs("EXECUTE") : MachineOK(queue[i].vm)
  BY DEF IInv, QueueFine, JobFine, Jobs, MachineFine
<1>3. vm # Idle => MachineOK(vm)
  BY DEF IInv, VmFine, MachineFine
<1>4. \A p \in DOMAIN ast : p \in Seq(Int) /\ NodeOK(ast[p])
  BY DEF IInv, NodesFine
<1>5. /\ initializers \in Seq(DOMAIN ast)
      /\ \A k \in 1 .. Len(initializers) : ast[initializers[k]].kind = "ASSIGNMENT"
  BY DEF IInv, InitializersFine
<1> QED
  BY <1>1, <1>2, <1>3, <1>4, <1>5 DEF IInv, Flags, QueueFine, UnitsFine, TypeOK

(* Whatever the program, every job has a node, file or machine that exists, *)
(* machines run units that exist and wait for nodes that do, and no step    *)
(* leaves the tables half changed.                                          *)
THEOREM TypeCorrect == Spec /\ []HandlersKeep => []TypeOK
<1>1. IInv => TypeOK
  BY InvImpliesTypes
<1> QED
  BY <1>1, Invariance, PTL

(* A node never has two jobs, nor a job when it has its bytecode.           *)
THEOREM HandledOnce == Spec /\ []HandlersKeep => []NodesHandledOnce
<1>1. IInv => NodesHandledOnce
  BY DEF IInv
<1> QED
  BY <1>1, Invariance, PTL

(* When the loop gives up, what is left are jobs of the three kinds that    *)
(* are put back: the asserts of begin_compilation's second loop hold.       *)
THEOREM DrainsRetryable == Spec /\ []HandlersKeep => []DrainsOnlyRetryable
<1>1. IInv => DrainsOnlyRetryable
  BY DEF IInv, LoopInv
<1> QED
  BY <1>1, Invariance, PTL

(* Exactly one sentinel circulates until the loop ends, and none after it,  *)
(* whatever the handlers put into the queue.                                *)
THEOREM SentinelCirculates == Spec /\ []HandlersKeep => []OneSentinel
<1>1. IInv => OneSentinel
  BY DEF IInv, LoopInv, SentinelUnique, SentinelGone, OneSentinel, SentinelAt
<1> QED
  BY <1>1, Invariance, PTL

(* Every procedure on a stack, or in a variable, has its bytecode: a CALL   *)
(* never fails the second of its asserts, however a program jumps.          *)
THEOREM CallsAreCompiled == Spec /\ []HandlersKeep => []ProceduresCompiled
<1>1. ASSUME IInv PROVE ProceduresCompiled
  <2>1. \A p \in DOMAIN ast : Compiled(ast[p].value)
    BY <1>1 DEF IInv, NodesFine
  <2>2. AllCompiled(vm.stack)
    <3>1. CASE vm = Idle
      BY <3>1, IdleFacts DEF AllCompiled
    <3>2. CASE vm # Idle
      BY <1>1, <3>2 DEF IInv, VmFine, MachineFine
    <3> QED
      BY <3>1, <3>2
  <2>3. \A i \in Jobs("EXECUTE") : AllCompiled(queue[i].vm.stack)
    BY <1>1 DEF IInv, QueueFine, JobFine, Jobs, MachineFine
  <2> QED
    BY <2>1, <2>2, <2>3 DEF ProceduresCompiled
<1>2. IInv => ProceduresCompiled
  BY <1>1
<1> QED
  BY <1>2, Invariance, PTL

-----------------------------------------------------------------------------
(* What a step may do. *)

(* The tables only grow, and the list of initializers at its end. *)
Keeps ==
  Grows /\ \A k \in 1 .. Len(initializers) : initializers'[k] = initializers[k]

(* No initializer is put into the queue. *)
Quiet ==
  \A k \in DOMAIN initializers : \A n \in NewJobs : queue'[n] # Initializer(k)

LEMMA InitializerIsRun ==
  ASSUME NEW k
  PROVE  Initializer(k).type = "EXECUTE" /\ Initializer(k).vm.waiting = NoNode
BY DEF Initializer, ExecuteJob, Machine

(* The new jobs are those that were emitted. *)
LEMMA NewAreEmitted ==
  ASSUME queue \in Seq(JobSet), queue # <<>>, NEW e \in Seq(JobSet),
         queue' = Tail(queue) \o e, NEW n \in NewJobs
  PROVE  /\ n \in Int /\ Len(queue) \in Int
         /\ n - Len(queue) + 1 \in 1 .. Len(e)
         /\ queue'[n] = e[n - Len(queue) + 1]
<1>1. /\ Len(queue') = Len(queue) - 1 + Len(e)
      /\ \A i \in 1 .. Len(queue') :
           queue'[i] = IF i < Len(queue) THEN queue[i + 1]
                                         ELSE e[i - Len(queue) + 1]
  BY TailThenEmitted, Zenon
<1>2. Len(queue) \in Nat \ {0} /\ Len(e) \in Nat
  OBVIOUS
<1>3. n \in Len(queue) .. Len(queue')
  BY DEF NewJobs
<1>4. n \in 1 .. Len(queue') /\ ~(n < Len(queue)) /\ n - Len(queue) + 1 \in 1 .. Len(e)
  BY <1>1, <1>2, <1>3
<1> QED
  BY <1>1, <1>2, <1>3, <1>4

LEMMA EmittedQuietly ==
  ASSUME queue \in Seq(JobSet), queue # <<>>, NEW e \in Seq(JobSet),
         queue' = Tail(queue) \o e,
         \A i \in 1 .. Len(e) : e[i].type # "EXECUTE" \/ e[i].vm.waiting # NoNode
  PROVE  Quiet
<1> SUFFICES ASSUME NEW k \in DOMAIN initializers, NEW n \in NewJobs
             PROVE  queue'[n] # Initializer(k)
  BY DEF Quiet
<1>1. PICK m \in 1 .. Len(e) : queue'[n] = e[m]
  BY NewAreEmitted
<1>2. e[m].type # "EXECUTE" \/ e[m].vm.waiting # NoNode
  OBVIOUS
<1> QED
  BY <1>1, <1>2, InitializerIsRun

LEMMA TakenQuietly ==
  ASSUME queue \in Seq(JobSet), queue # <<>>, queue' = Tail(queue)
  PROVE  Quiet
<1>1. Tail(queue) \in Seq(JobSet)
  BY HeadTailProperties
<1>2. PICK e : e = <<>>
  OBVIOUS
<1>3. e \in Seq(JobSet) /\ queue' = Tail(queue) \o e /\ \A i : i \notin 1 .. Len(e)
  BY <1>1, <1>2, ConcatEmptySeq
<1> QED
  BY <1>3, EmittedQuietly

LEMMA OneQuietly ==
  ASSUME queue \in Seq(JobSet), queue # <<>>, NEW job \in JobSet,
         job.type # "EXECUTE", queue' = Tail(queue) \o <<job>>
  PROVE  Quiet
<1>1. PICK e : e = <<job>>
  OBVIOUS
<1>2. e \in Seq(JobSet) /\ Len(e) = 1 /\ \A i \in 1 .. Len(e) : e[i] = job
  BY <1>1
<1> QED
  BY <1>1, <1>2, EmittedQuietly

LEMMA UnchangedKeeps ==
  ASSUME IInv, UNCHANGED <<program, ast, bytecode, initializers>>
  PROVE  Keeps
BY TablesUnchanged DEF Keeps

LEMMA StandingQuietly ==
  ASSUME queue' = queue
  PROVE  Quiet
BY DEF Quiet, NewJobs

LEMMA ReadKeeps ==
  ASSUME IInv, Read
  PROVE  Keeps /\ Quiet
<1>1. /\ queue # <<>> /\ queue \in Seq(JobSet) /\ Job = queue[1]
      /\ queue[1] \in JobSet /\ queue[1].type = "READ"
  BY HeadFacts DEF Read, IInv
<1>2. Job.file \in FileNames
  BY <1>1 DEF JobSet, SENTINEL, NodeTypes
<1>3. PICK job : job = FileJob("LEX", Job.file)
  OBVIOUS
<1>4. job \in JobSet /\ job.type # "EXECUTE"
  BY <1>2, <1>3 DEF JobSet, FileJob, FileTypes
<1>5. queue' = Tail(queue) \o <<job>> \/ queue' = Tail(queue)
  BY <1>3 DEF Read, Completed, Dropped
<1> QED
  BY <1>1, <1>4, <1>5, OneQuietly, TakenQuietly, UnchangedKeeps DEF Read

LEMMA LexKeeps ==
  ASSUME IInv, Lex
  PROVE  Keeps /\ Quiet
<1>1. /\ queue # <<>> /\ queue \in Seq(JobSet) /\ Job = queue[1]
      /\ queue[1] \in JobSet /\ queue[1].type = "LEX"
  BY HeadFacts DEF Lex, IInv
<1>2. Job.file \in FileNames
  BY <1>1 DEF JobSet, SENTINEL, NodeTypes
<1>3. PICK job : job = FileJob("PARSE", Job.file)
  OBVIOUS
<1>4. job \in JobSet /\ job.type # "EXECUTE"
  BY <1>2, <1>3 DEF JobSet, FileJob, FileTypes
<1>5. queue' = Tail(queue) \o <<job>>
  BY <1>3 DEF Lex, Completed
<1> QED
  BY <1>1, <1>4, <1>5, OneQuietly, UnchangedKeeps DEF Lex

LEMMA ParseKeeps ==
  ASSUME IInv, HandlersKeep, Parse
  PROVE  Keeps /\ Quiet
<1>1. queue # <<>> /\ queue \in Seq(JobSet)
  BY HeadFacts DEF Parse, IInv
<1>2. Keeps
  BY ParsedTables DEF Keeps, Parse
<1>3. PICK terms : terms = program[Job.file]
  OBVIOUS
<1>4. PICK f : f = FilesParsed + 1
  OBVIOUS
<1>5. PICK e : e = ItemJobs(terms, f)
  OBVIOUS
<1>6. e \in Seq(JobSet) /\ queue' = Tail(queue) \o e
  BY <1>3, <1>4, <1>5, ParsedJobs DEF Completed
<1>7. \A i \in 1 .. Len(e) : e[i].type # "EXECUTE"
  <2>1. Len(e) \in Nat
    BY <1>6
  <2>2. /\ DOMAIN e = 1 .. Len(e) /\ DOMAIN e = 1 .. Len(terms)
        /\ \A i \in 1 .. Len(terms) : e[i] = ItemJob(terms, f, i)
    BY <1>5, <1>6 DEF ItemJobs
  <2>3. ASSUME NEW i \in 1 .. Len(e) PROVE e[i].type # "EXECUTE"
    <3>1. e[i] = ItemJob(terms, f, i)
      BY <2>2
    <3>2. CASE terms[i].k = "LOAD"
      BY <3>1, <3>2 DEF ItemJob, FileJob
    <3>3. CASE terms[i].k # "LOAD"
      BY <3>1, <3>3 DEF ItemJob, NodeJob
    <3> QED
      BY <3>2, <3>3
  <2> QED
    BY <2>3
<1> QED
  BY <1>1, <1>2, <1>6, <1>7, EmittedQuietly

LEMMA OptimizeKeeps ==
  ASSUME IInv, Optimize
  PROVE  Keeps /\ Quiet
<1>1. queue # <<>> /\ queue \in Seq(JobSet) /\ Taking("OPTIMIZE")
  BY HeadFacts DEF Optimize, IInv
<1>2. PICK p \in Seq(Int) : p = Job.node
  BY <1>1, NodeTaken DEF NodeTypes
<1>3. PICK job : job = NodeJob("BYTECODE", p)
  OBVIOUS
<1>4. job \in JobSet /\ job.type # "EXECUTE"
  BY <1>3 DEF JobSet, NodeJob, NodeTypes
<1>5. queue' = Tail(queue) \o <<job>>
  BY <1>2, <1>3 DEF Optimize, Completed
<1> QED
  BY <1>1, <1>4, <1>5, OneQuietly, UnchangedKeeps DEF Optimize

LEMMA TurnKeeps ==
  ASSUME IInv, Turn
  PROVE  Keeps /\ Quiet
<1>1. queue \in Seq(JobSet)
  BY DEF IInv, QueueFine
<1>2. \/ queue # <<>> /\ queue' = Tail(queue)
      \/ queue' = queue
      \/ NextRound
  BY DEF Turn, Report, TakeAbort, Taking, DrainAll, Drain, Stall, Return
<1>3. CASE NextRound
  <2>1. queue # <<>> /\ Job = SENTINEL /\ queue' = Tail(queue) \o <<Job>>
    BY <1>3, SentinelTaken DEF NextRound
  <2>2. Job \in JobSet /\ Job.type # "EXECUTE"
    BY <2>1 DEF JobSet, SENTINEL
  <2> QED
    BY <1>1, <2>1, <2>2, OneQuietly, UnchangedKeeps DEF Turn
<1> QED
  BY <1>1, <1>2, <1>3, TakenQuietly, StandingQuietly, UnchangedKeeps DEF Turn

LEMMA GenerateKeeps ==
  ASSUME IInv, HandlersKeep, Generate
  PROVE  Keeps /\ Quiet
<1>1. /\ queue # <<>> /\ queue \in Seq(JobSet) /\ Taking("BYTECODE")
      /\ Job \in JobSet /\ Job.type = "BYTECODE"
  BY HeadFacts DEF Generate, IInv
<1>2. Quiet
  <2>1. \/ queue' = Tail(queue) \o <<>>
        \/ queue' = (Tail(queue) \o <<>>) \o <<Job>>
        \/ queue' = queue
    BY DEF Generate, Completed, Deferred, Crashed
  <2>2. Tail(queue) \in Seq(JobSet)
    BY <1>1, HeadTailProperties
  <2>3. Tail(queue) \o <<>> = Tail(queue)
    BY <2>2, ConcatEmptySeq
  <2>4. Job.type # "EXECUTE"
    BY <1>1
  <2> QED
    BY <1>1, <2>1, <2>3, <2>4, TakenQuietly, OneQuietly, StandingQuietly
<1>3. CASE UNCHANGED <<ast, bytecode, initializers>>
  BY <1>2, <1>3, UnchangedKeeps DEF Generate
<1>4. CASE ~UNCHANGED <<ast, bytecode, initializers>>
  <2>1. PICK p : p = Job.node
    OBVIOUS
  <2>2. p \in DOMAIN ast /\ ast[p].code = -1
    BY <1>1, <2>1, NodeTaken DEF NodeTypes
  <2>3. PICK unit : unit = BytecodeOf(ast, p)
    OBVIOUS
  <2>4. /\ ast[p].kind # "DECLARATION" /\ unit.ok
        /\ bytecode' = Append(bytecode, unit.code) /\ program' = program
        /\ \/ /\ ast[p].kind = "ASSIGNMENT"
              /\ initializers' = Append(initializers, p)
              /\ ast' = CodedAndDeclared(p, Len(bytecode), ast[p].lhs)
           \/ /\ ast' = Coded(p, Len(bytecode))
              /\ initializers' = initializers
    BY <1>4, <2>1, <2>3 DEF Generate, Coded, CodedAndDeclared
  <2>5. /\ ast[p].class # NoType
        /\ unit.code \in Seq(Words) /\ PushesCompiled(unit.code)
    BY <1>1, <2>1, <2>3, <2>4 DEF HandlersKeep, GeneratorContract
  <2>6. Grows
    BY <2>2, <2>4, <2>5, GeneratedTables
  <2>7. initializers \in Seq(DOMAIN ast)
    BY DEF IInv, InitializersFine
  <2>8. \A k \in 1 .. Len(initializers) : initializers'[k] = initializers[k]
    BY <2>2, <2>4, <2>7
  <2> QED
    BY <1>2, <2>6, <2>8 DEF Keeps
<1> QED
  BY <1>3, <1>4

LEMMA TypecheckKeeps ==
  ASSUME IInv, HandlersKeep, TypecheckJob
  PROVE  Keeps /\ Quiet
<1>1. /\ queue # <<>> /\ queue \in Seq(JobSet) /\ Taking("TYPECHECK")
      /\ Job \in JobSet /\ Job.type = "TYPECHECK"
      /\ UNCHANGED <<program, initializers>>
  BY HeadFacts DEF TypecheckJob, IInv
<1>2. PICK p : p = Job.node
  OBVIOUS
<1>3. p \in DOMAIN ast /\ p \in Seq(Int)
  BY <1>1, <1>2, NodeTaken DEF NodeTypes
<1>4. PICK heap, s, bodies, next, main :
       /\ heap \in Heaps
       /\ s = TypecheckNode(ast, p, heap)
       /\ bodies = [i \in DOMAIN s.out |-> NodeJob("TYPECHECK", s.out[i])]
       /\ next = NodeJob(IF s.ast[p].error THEN "ABORT" ELSE "OPTIMIZE", p)
       /\ main = s.ast[p].lhs
       /\ IF s.crash
             THEN Crashed /\ UNCHANGED <<ast, bytecode>>
           ELSE IF ~s.ok
             THEN Deferred(bodies) /\ ast' = s.ast /\ UNCHANGED bytecode
           ELSE /\ ast' = s.ast
                /\ IF IsMain(s, p)
                     THEN /\ bytecode' = [bytecode EXCEPT ![1][2] = Pointer(main)]
                          /\ Completed(bodies \o
                                       <<next, ExecuteJob(Machine(0, main))>>)
                     ELSE /\ Completed(Append(bodies, next))
                          /\ UNCHANGED bytecode
  BY <1>2 DEF TypecheckJob
<1>5. CASE s.crash
  BY <1>1, <1>4, <1>5, StandingQuietly, UnchangedKeeps DEF Crashed
<1>6. CASE ~s.crash
  <2>1. /\ Touched /\ NewBodies(s) /\ ast' = s.ast
        /\ ast[p].kind = "ASSIGNMENT" => s.ast[p].lhs # NoNode
    BY <1>1, <1>2, <1>4, <1>6, TypedNodes
  <2>2. bodies \in Seq(JobSet)
    BY <1>4, <2>1, BodiesAreJobs
  <2>3. \A i \in 1 .. Len(bodies) : bodies[i].type # "EXECUTE"
    <3>1. DOMAIN bodies = 1 .. Len(bodies) /\ DOMAIN bodies = DOMAIN s.out
      BY <1>4, <2>2
    <3>2. \A i \in DOMAIN s.out : bodies[i].type # "EXECUTE"
      BY <1>4 DEF NodeJob
    <3> QED
      BY <3>1, <3>2
  <2>4. Tail(queue) \in Seq(JobSet)
    BY <1>1, HeadTailProperties
  <2>5. next \in JobSet /\ next.type # "EXECUTE"
    <3>1. PICK type \in {"ABORT", "OPTIMIZE"} :
            type = IF s.ast[p].error THEN "ABORT" ELSE "OPTIMIZE"
      OBVIOUS
    <3>2. next = NodeJob(type, p)
      BY <1>4, <3>1
    <3> QED
      BY <1>3, <3>2 DEF NodeJob, JobSet, NodeTypes
  <2>6. ASSUME NEW rest \in Seq(JobSet), queue' = Tail(queue) \o (bodies \o rest),
               \A i \in 1 .. Len(rest) :
                 rest[i].type # "EXECUTE" \/ rest[i].vm.waiting # NoNode
        PROVE  Quiet
    <3>1. PICK e : e = bodies \o rest
      OBVIOUS
    <3>2. /\ e \in Seq(JobSet) /\ Len(e) = Len(bodies) + Len(rest)
          /\ \A i \in 1 .. Len(bodies) + Len(rest) :
               e[i] = IF i <= Len(bodies) THEN bodies[i] ELSE rest[i - Len(bodies)]
      BY <2>2, <2>6, <3>1, ConcatProperties, Zenon
    <3>3. Len(bodies) \in Nat /\ Len(rest) \in Nat
      BY <2>2, <2>6
    <3>4. \A i \in 1 .. Len(e) :
            \/ i \in 1 .. Len(bodies) /\ e[i] = bodies[i]
            \/ i - Len(bodies) \in 1 .. Len(rest) /\ e[i] = rest[i - Len(bodies)]
      BY <3>2, <3>3
    <3>5. \A i \in 1 .. Len(e) : e[i].type # "EXECUTE" \/ e[i].vm.waiting # NoNode
      BY <2>3, <2>6, <3>4
    <3> QED
      BY <1>1, <2>6, <3>1, <3>2, <3>5, EmittedQuietly
  <2>7. CASE ~s.ok
    <3>1. PICK rest : rest = <<Job>>
      OBVIOUS
    <3>2. /\ rest \in Seq(JobSet)
          /\ \A i \in 1 .. Len(rest) : rest[i].type # "EXECUTE"
      BY <1>1, <3>1
    <3>3. queue' = (Tail(queue) \o bodies) \o rest /\ bytecode' = bytecode
      BY <1>4, <1>6, <2>7, <3>1 DEF Deferred
    <3>4. Quiet
      BY <1>1, <2>2, <2>6, <3>2, <3>3, PutBehind
    <3>5. Len(bytecode) \in Nat
      BY DEF IInv, UnitsFine
    <3> QED
      BY <1>1, <2>1, <3>3, <3>4, <3>5, TouchedGrows DEF Keeps
  <2>8. CASE s.ok /\ ~IsMain(s, p)
    <3>1. PICK rest : rest = <<next>>
      OBVIOUS
    <3>2. /\ rest \in Seq(JobSet)
          /\ \A i \in 1 .. Len(rest) : rest[i].type # "EXECUTE"
      BY <2>5, <3>1
    <3>3. queue' = Tail(queue) \o (bodies \o rest) /\ bytecode' = bytecode
      <4>1. queue' = Tail(queue) \o Append(bodies, next) /\ bytecode' = bytecode
        BY <1>4, <1>6, <2>8 DEF Completed
      <4>2. Append(bodies, next) = bodies \o rest
        BY <2>2, <2>5, <3>1, AppendIsConcat
      <4> QED
        BY <4>1, <4>2
    <3>4. Quiet
      BY <2>6, <3>2, <3>3
    <3>5. Len(bytecode) \in Nat
      BY DEF IInv, UnitsFine
    <3> QED
      BY <1>1, <2>1, <3>3, <3>4, <3>5, TouchedGrows DEF Keeps
  <2>9. CASE s.ok /\ IsMain(s, p)
    <3>1. PICK run : run = ExecuteJob(Machine(0, main))
      OBVIOUS
    <3>2. PICK rest : rest = <<next, run>>
      OBVIOUS
    <3>3. main \in DOMAIN ast /\ main \in Seq(Int) /\ main # NoNode
      <4>1. s.ast[p].kind = "ASSIGNMENT"
        BY <2>9 DEF IsMain
      <4>2. NodeTouched(ast[p], ast'[p])
        BY <1>3, <2>1 DEF Touched
      <4>3. ast[p].kind = "ASSIGNMENT" /\ main \in DOMAIN ast \cup {NoNode}
        BY <1>4, <2>1, <4>1, <4>2 DEF NodeTouched, NodeKept
      <4>4. main \in DOMAIN ast /\ main # NoNode
        BY <1>4, <2>1, <4>3
      <4> QED
        BY <4>4 DEF IInv, NodesFine
    <3>4. run \in JobSet /\ run.vm.waiting = main
      BY <3>1, <3>3 DEF ExecuteJob, Machine, Machines, JobSet, NoFrame
    <3>5. /\ rest \in Seq(JobSet)
          /\ \A i \in 1 .. Len(rest) :
               rest[i].type # "EXECUTE" \/ rest[i].vm.waiting # NoNode
      <4>1. /\ rest \in Seq(JobSet) /\ Len(rest) = 2
            /\ rest[1] = next /\ rest[2] = run
        BY <2>5, <3>2, <3>4
      <4>2. \A i \in 1 .. Len(rest) : i = 1 \/ i = 2
        BY <4>1
      <4> QED
        BY <2>5, <3>3, <3>4, <4>1, <4>2
    <3>6. /\ bytecode' = [bytecode EXCEPT ![1][2] = Pointer(main)]
          /\ queue' = Tail(queue) \o (bodies \o rest)
      BY <1>4, <1>6, <2>9, <3>1, <3>2 DEF Completed
    <3>7. Len(bytecode') = Len(bytecode) /\ Len(bytecode) \in Nat
      BY <3>3, <3>6, BootstrapReplaced DEF IInv
    <3>8. Quiet
      BY <2>6, <3>5, <3>6
    <3> QED
      BY <1>1, <2>1, <3>7, <3>8, TouchedGrows DEF Keeps
  <2> QED
    BY <2>7, <2>8, <2>9
<1> QED
  BY <1>5, <1>6

(* Among the new jobs an assignment's initializer is there once at most,    *)
(* and only if the step is the first to begin it.                           *)
BegunOnce ==
  \A k \in DOMAIN initializers :
    \A i, j \in {n \in NewJobs : queue'[n] = Initializer(k)} :
      LET decl == ast[initializers[k]].lhs
      IN  i = j /\ ~Begun(ast[decl]) /\ Begun(ast'[decl])

LEMMA QuietBegins ==
  ASSUME Quiet
  PROVE  BegunOnce
BY DEF Quiet, BegunOnce

(* Two initializers that are the same job are of the same assignment.       *)
LEMMA InitializersDiffer ==
  ASSUME IInv, NEW k \in 1 .. Len(initializers), NEW n \in 1 .. Len(initializers),
         Initializer(k) = Initializer(n)
  PROVE  k = n
<1>1. PICK a, b : a = ast[initializers[k]].code /\ b = ast[initializers[n]].code
  OBVIOUS
<1>2. Machine(a, NoNode) = Machine(b, NoNode)
  BY <1>1 DEF Initializer, ExecuteJob
<1>3. a = b
  BY <1>2 DEF Machine
<1>4. initializers[k] \in DOMAIN ast /\ initializers[n] \in DOMAIN ast /\ a # -1
  BY <1>1 DEF IInv, InitializersFine
<1>5. initializers[k] = initializers[n]
  BY <1>1, <1>3, <1>4 DEF IInv, CodesDistinct
<1> QED
  BY <1>5 DEF IInv, InitializersFine

LEMMA WaitingBegins ==
  ASSUME IInv, NEW m, MachineFine(m), NEW d \in DOMAIN ast, Await(m, d),
         ~ast[d].initialized, queue # <<>>,
         UNCHANGED <<program, bytecode, initializers, told>>
  PROVE  Keeps /\ BegunOnce
<1>1. queue \in Seq(JobSet)
  BY DEF IInv, QueueFine
<1>2. PICK begins \in BOOLEAN : begins = (InitializersOf(d) # {})
  OBVIOUS
<1>3. ast' = Awaited(d, begins)
  BY <1>2 DEF Await, Awaited
<1>4. Touched /\ (begins => Begun(ast'[d]))
  BY <1>3, WaitingTouches DEF IInv
<1>5. Keeps
  <2>1. Len(bytecode) \in Nat
    BY DEF IInv, UnitsFine
  <2> QED
    BY <1>4, <2>1, TouchedGrows DEF Keeps
<1>6. PICK jobs : jobs = Beginning(d)
  OBVIOUS
<1>7. PICK S : S = InitializersOf(d)
  OBVIOUS
<1>8. /\ jobs \in Seq(JobSet)
      /\ \A i \in 1 .. Len(jobs) :
           /\ NthOf(S, i) \in S /\ jobs[i] = Initializer(NthOf(S, i))
           /\ i \in 1 .. Cardinality(S)
      /\ jobs # <<>> => ~ast[d].initializing /\ S # {}
  BY <1>6, <1>7, InitializersBegin
<1>9. PICK n : n = Waiter(m, d)
  OBVIOUS
<1>10. n \in Machines /\ n.waiting # NoNode
  <2>1. d \in Seq(Int) /\ d # NoNode
    BY DEF IInv, NodesFine
  <2> QED
    BY <1>9, <2>1, WaiterFine DEF MachineFine, MachineOK
<1>11. PICK job : job = ExecuteJob(n)
  OBVIOUS
<1>12. job \in JobSet /\ job.vm.waiting # NoNode
  BY <1>10, <1>11 DEF ExecuteJob, JobSet
<1>13. PICK one : one = <<job>>
  OBVIOUS
<1>14. one \in Seq(JobSet) /\ Len(one) = 1 /\ one[1] = job
  BY <1>12, <1>13
<1>15. PICK e : e = jobs \o one
  OBVIOUS
<1>16. queue' = Tail(queue) \o e
  <2>1. queue' = (Tail(queue) \o jobs) \o one
    BY <1>6, <1>9, <1>11, <1>13 DEF Await
  <2> QED
    BY <1>1, <1>8, <1>14, <1>15, <2>1, PutBehind
<1>17. PICK c \in Nat : c = Len(jobs)
  BY <1>8
<1>18. /\ e \in Seq(JobSet) /\ Len(e) = c + 1
       /\ \A i \in 1 .. c + 1 :
            (i \in 1 .. c /\ e[i] = jobs[i]) \/ (i = c + 1 /\ e[i] = job)
  <2>1. /\ e \in Seq(JobSet) /\ Len(e) = Len(jobs) + Len(one)
        /\ \A i \in 1 .. Len(jobs) + Len(one) :
             e[i] = IF i <= Len(jobs) THEN jobs[i] ELSE one[i - Len(jobs)]
    BY <1>8, <1>14, <1>15, ConcatProperties, Zenon
  <2>2. /\ Len(e) = c + 1
        /\ \A i \in 1 .. c + 1 : e[i] = IF i <= c THEN jobs[i] ELSE one[i - c]
    BY <1>14, <1>17, <2>1
  <2>3. ASSUME NEW i \in 1 .. c + 1
        PROVE  (i \in 1 .. c /\ e[i] = jobs[i]) \/ (i = c + 1 /\ e[i] = job)
    <3>1. CASE i <= c
      BY <2>2, <3>1
    <3>2. CASE ~(i <= c)
      <4>1. i = c + 1 /\ i - c = 1
        BY <3>2
      <4>2. e[i] = one[i - c]
        BY <2>2, <3>2
      <4> QED
        BY <1>14, <4>1, <4>2
    <3> QED
      BY <3>1, <3>2
  <2> QED
    BY <2>1, <2>2, <2>3
<1>19. ASSUME NEW k \in 1 .. Len(initializers), NEW i \in NewJobs,
              queue'[i] = Initializer(k)
       PROVE  /\ i \in Int /\ i - Len(queue) + 1 \in 1 .. c
              /\ NthOf(S, i - Len(queue) + 1) = k /\ k \in S
  <2>1. PICK x : x = i - Len(queue) + 1
    OBVIOUS
  <2>2. i \in Int /\ x \in 1 .. Len(e) /\ queue'[i] = e[x]
    BY <1>1, <1>16, <1>18, <1>19, <2>1, NewAreEmitted
  <2>3. x \in 1 .. c /\ e[x] = jobs[x]
    BY <1>12, <1>18, <1>19, <2>2, InitializerIsRun
  <2>4. NthOf(S, x) \in S /\ Initializer(NthOf(S, x)) = Initializer(k)
    BY <1>8, <1>17, <1>19, <2>2, <2>3
  <2>5. NthOf(S, x) \in 1 .. Len(initializers)
    BY <1>7, <2>4 DEF InitializersOf
  <2>6. NthOf(S, x) = k
    BY <2>4, <2>5, InitializersDiffer
  <2> QED
    BY <2>1, <2>2, <2>3, <2>4, <2>6
<1>20. ASSUME NEW x \in 1 .. c, NEW y \in 1 .. c, NthOf(S, x) = NthOf(S, y)
       PROVE  x = y
  <2>1. PICK l \in Nat : l = Len(initializers)
    BY DEF IInv, InitializersFine
  <2>2. S \in SUBSET (1 .. l)
    BY <1>7, <2>1 DEF InitializersOf
  <2>3. x \in 1 .. Cardinality(S) /\ y \in 1 .. Cardinality(S)
    BY <1>8, <1>17
  <2>4. /\ Cardinality({i \in S : i <= NthOf(S, x)}) = x
        /\ Cardinality({i \in S : i <= NthOf(S, y)}) = y
    BY <2>2, <2>3, NthIsThere
  <2> QED
    BY <1>20, <2>4
<1>21. ASSUME NEW k \in 1 .. Len(initializers),
              NEW i \in NewJobs, queue'[i] = Initializer(k),
              NEW j \in NewJobs, queue'[j] = Initializer(k)
       PROVE  LET decl == ast[initializers[k]].lhs
              IN  i = j /\ ~Begun(ast[decl]) /\ Begun(ast'[decl])
  <2>1. /\ i \in Int /\ i - Len(queue) + 1 \in 1 .. c
        /\ NthOf(S, i - Len(queue) + 1) = k /\ k \in S
    BY <1>19, <1>21
  <2>2. /\ j \in Int /\ j - Len(queue) + 1 \in 1 .. c
        /\ NthOf(S, j - Len(queue) + 1) = k
    BY <1>19, <1>21
  <2>3. i - Len(queue) + 1 = j - Len(queue) + 1
    BY <1>20, <2>1, <2>2
  <2>4. Len(queue) \in Int
    BY <1>1
  <2>5. i = j
    BY <2>1, <2>2, <2>3, <2>4
  <2>6. ast[initializers[k]].lhs = d
    BY <1>7, <2>1 DEF InitializersOf
  <2>7. jobs # <<>>
    BY <1>17, <2>1
  <2>8. ~ast[d].initializing /\ S # {}
    BY <1>8, <2>7
  <2>9. begins
    BY <1>2, <1>7, <2>8
  <2>10. ~Begun(ast[d]) /\ Begun(ast'[d])
    BY <1>4, <2>8, <2>9 DEF Begun
  <2> QED
    BY <2>5, <2>6, <2>10
<1>22. DOMAIN initializers = 1 .. Len(initializers)
  BY DEF IInv, InitializersFine
<1>23. BegunOnce
  BY <1>21, <1>22 DEF BegunOnce
<1> QED
  BY <1>5, <1>23

LEMMA RunKeeps ==
  ASSUME IInv, Run
  PROVE  Keeps /\ BegunOnce
<1>1. Execute /\ UNCHANGED <<program, told, bytecode, initializers>>
  BY DEF Run, Execute
<1>2. /\ Stepping /\ queue # <<>> /\ queue \in Seq(JobSet)
  BY <1>1, ExecuteStep DEF IInv
<1>3. ASSUME Touched PROVE Keeps
  <2>1. Len(bytecode) \in Nat
    BY DEF IInv, UnitsFine
  <2> QED
    BY <1>1, <1>3, <2>1, TouchedGrows DEF Keeps
<1>4. CASE Running
  <2>1. ast' = ast /\ queue' = queue
    BY <1>4 DEF Running, Continue, pipelineVars
  <2> QED
    BY <1>1, <2>1, UnchangedKeeps, StandingQuietly, QuietBegins
<1>5. CASE Storing
  <2>1. PICK m, d, word :
          /\ d \in DOMAIN ast /\ word \in Words
          /\ Compiled(word) /\ ast' = Stored(d, word) /\ UNCHANGED pipelineVars
    BY <1>5 DEF Storing
  <2>2. Touched
    BY <2>1, StoringTouches DEF IInv
  <2>3. queue' = queue
    BY <2>1 DEF pipelineVars
  <2> QED
    BY <1>3, <2>2, <2>3, StandingQuietly, QuietBegins
<1>6. CASE Waiting
  <2>1. PICK m, d : /\ d \in DOMAIN ast /\ MachineFine(m) /\ ~ast[d].initialized
                    /\ Await(m, d)
    BY <1>6 DEF Waiting
  <2> QED
    BY <1>1, <1>2, <2>1, WaitingBegins
<1>7. CASE Finishing
  <2>1. Touched
    BY <1>7, Untouched, FinishingTouches DEF Finishing, IInv
  <2>2. Tail(queue) \in Seq(JobSet)
    BY <1>2, HeadTailProperties
  <2>3. queue' = Tail(queue)
    BY <1>7, <2>2, ConcatEmptySeq DEF Finishing, Completed
  <2> QED
    BY <1>2, <1>3, <2>1, <2>3, TakenQuietly, QuietBegins
<1>8. CASE Derail
  BY <1>1, <1>8, UnchangedKeeps, StandingQuietly, QuietBegins DEF Derail, Crashed
<1> QED
  BY <1>2, <1>4, <1>5, <1>6, <1>7, <1>8 DEF Stepping

LEMMA StepKeeps ==
  ASSUME IInv, HandlersKeep, [Next]_vars
  PROVE  Keeps /\ BegunOnce
<1>1. CASE Halt \/ UNCHANGED vars
  <2>1. UNCHANGED <<program, ast, bytecode, initializers>> /\ queue' = queue
    BY <1>1 DEF Halt, vars
  <2> QED
    BY <2>1, UnchangedKeeps, StandingQuietly, QuietBegins
<1> QED
  BY <1>1, ReadKeeps, LexKeeps, ParseKeeps, TypecheckKeeps, OptimizeKeeps,
     GenerateKeeps, TurnKeeps, RunKeeps, QuietBegins DEF Next

(* A class once given is never changed by any step of any job, and the      *)
(* nodes of a file are there until the end.                                 *)
THEOREM ClassesStay == Spec /\ []HandlersKeep => ClassesFixed
<1>1. ASSUME IInv, HandlersKeep, [Next]_vars
      PROVE  [\A p \in DOMAIN ast :
                ast[p].class # NoType => ast'[p].class = ast[p].class]_vars
  BY <1>1, StepKeeps DEF Keeps, Grows, NodeKept
<1>2. IInv /\ HandlersKeep /\ [Next]_vars =>
        [\A p \in DOMAIN ast :
           ast[p].class # NoType => ast'[p].class = ast[p].class]_vars
  BY <1>1
<1> QED
  BY <1>2, Invariance, PTL DEF Spec, ClassesFixed

(* InitializersBeginOnce, as a condition on one step. *)
BeginsOnce ==
  /\ \A p \in DOMAIN ast : Begun(ast[p]) => Begun(ast'[p])
  /\ \A k \in DOMAIN initializers :
       LET before == ast[initializers[k]]
           after == ast'[initializers'[k]]
       IN  after.lhs = before.lhs /\ after.code = before.code
  /\ BegunOnce

(* Whatever a program does and however its jobs wait for each other, the    *)
(* initializers of a variable are put into the queue only by the first      *)
(* machine to need it, each of them once, and it never again counts as      *)
(* untouched.                                                               *)
THEOREM BeginOnce == Spec /\ []HandlersKeep => InitializersBeginOnce
<1>1. ASSUME IInv, HandlersKeep, [Next]_vars
      PROVE  BeginsOnce
  <2>1. Keeps /\ BegunOnce
    BY <1>1, StepKeeps
  <2>2. \A p \in DOMAIN ast : Begun(ast[p]) => Begun(ast'[p])
    BY <2>1 DEF Keeps, Grows, NodeKept
  <2>3. ASSUME NEW k \in DOMAIN initializers
        PROVE  /\ ast'[initializers'[k]].lhs = ast[initializers[k]].lhs
               /\ ast'[initializers'[k]].code = ast[initializers[k]].code
    <3>1. k \in 1 .. Len(initializers)
      BY <1>1 DEF IInv, InitializersFine
    <3>2. PICK q : q = initializers[k] /\ q = initializers'[k]
      BY <2>1, <3>1 DEF Keeps
    <3>3. q \in DOMAIN ast /\ ast[q].class # NoType /\ ast[q].code # -1
      <4>1. /\ initializers[k] \in DOMAIN ast
            /\ ast[initializers[k]].class # NoType
            /\ ast[initializers[k]].code # -1
        BY <1>1, <3>1 DEF IInv, InitializersFine
      <4> QED
        BY <3>2, <4>1
    <3> QED
      BY <2>1, <3>2, <3>3 DEF Keeps, Grows, NodeKept
  <2> QED
    BY <2>1, <2>2, <2>3 DEF BeginsOnce
<1>2. IInv /\ HandlersKeep /\ [Next]_vars => [BeginsOnce]_vars
  BY <1>1
<1> QED
  BY <1>2, Invariance, PTL DEF Spec, InitializersBeginOnce, BeginsOnce, BegunOnce
=============================================================================
