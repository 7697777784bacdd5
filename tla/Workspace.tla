----------------------------- MODULE Workspace -------------------------------
(***************************************************************************)
(* begin_compilation with all its handlers, on a given program: the job    *)
(* loop of Pipeline.tla, the machines of Interpreter.tla and the handlers  *)
(* of READ, LEX, PARSE, TYPECHECK, OPTIMIZE, BYTECODE and ABORT jobs, each *)
(* of which runs to its end in one step.                                   *)
(*                                                                         *)
(* What the recursive functions behind four of them compute for a syntax   *)
(* tree is a parameter: Compiler.tla has the values that model the code.   *)
(* HandlersKeep says what the workspace relies on whatever they compute.   *)
(***************************************************************************)
EXTENDS Interpreter

CONSTANTS Programs,     \* the programs to compile: file name -> terms
          MainFile,     \* argv[1]
          ParsedFile(_, _),         \* parser.c: the nodes of the n-th file read
          TypecheckNode(_, _, _),   \* typechecker.c, see Typechecker.tla
          Heaps,        \* what a signature that was freed may read as
          BytecodeOf(_, _),         \* bytecode.c, see Bytecode.tla
          Prints(_, _)              \* whether report_errors finds a message

ASSUME ProgramsAssumption ==
  \A files \in Programs : \A f \in DOMAIN files :
    files[f] \in Seq({files[f][i] : i \in DOMAIN files[f]})

VARIABLES program,      \* one of Programs
          told          \* whether anything was printed about an error

vars == <<queue, did_work, reported_errors, phase,
          program, ast, bytecode, initializers, vm, told>>

NodeJob(type, p) == [type |-> type, node |-> p]
FileJob(type, file) == [type |-> type, file |-> file]

Init ==
  /\ program \in Programs
  /\ ast = Builtins
  /\ bytecode = <<Bootstrap, PutcUnit>>
  /\ initializers = <<>>
  /\ vm = Idle
  /\ told = FALSE
  /\ PipelineInit(<<FileJob("READ", MainFile)>>)

-----------------------------------------------------------------------------
(* Reading, lexing and parsing. *)

Read ==
  /\ Taking("READ")
  /\ IF Job.file \in DOMAIN program
       THEN Completed(<<FileJob("LEX", Job.file)>>)
       ELSE Dropped
  /\ UNCHANGED <<program, ast, bytecode, initializers, vm, told>>

Lex ==
  /\ Taking("LEX")
  /\ Completed(<<FileJob("PARSE", Job.file)>>)
  /\ UNCHANGED <<program, ast, bytecode, initializers, vm, told>>

(* How many of the first n items are nodes: a load is not. *)
NodesUpTo(terms, n) == Cardinality({i \in 1 .. n : terms[i].k # "LOAD"})

(* The job that the n-th item of a file becomes. *)
ItemJob(terms, f, n) ==
  IF terms[n].k = "LOAD" THEN FileJob("READ", terms[n].file)
  ELSE NodeJob(IF terms[n].k = "RECOVERY" THEN "ABORT" ELSE "TYPECHECK",
               Child(<<f>>, NodesUpTo(terms, n)))

ItemJobs(terms, f) == [n \in 1 .. Len(terms) |-> ItemJob(terms, f, n)]

(* Faulty variant: all files' nodes come from the same place. *)
FilesParsedForgotten == 0

FilesParsed == Cardinality({p \in DOMAIN ast : ast[p].kind = "FILE"})

Parse ==
  /\ Taking("PARSE")
  /\ LET f == FilesParsed + 1
         terms == program[Job.file]
     IN  /\ ast' = WithNodes(ast, ParsedFile(terms, f))
         /\ Completed(ItemJobs(terms, f))
  /\ UNCHANGED <<program, bytecode, initializers, vm, told>>

-----------------------------------------------------------------------------
(* Typechecking. *)

IsMain(s, p) ==
  s.ast[p].kind = "ASSIGNMENT" /\ s.ast[s.ast[p].lhs].name = "main"

(* perform_typecheck_job and what begin_compilation does after it: every    *)
(* assignment to a "main" is called by the bootstrap, erroneous or not.     *)
TypecheckJob ==
  /\ Taking("TYPECHECK")
  /\ \E heap \in Heaps :
       LET p == Job.node
           s == TypecheckNode(ast, p, heap)
           bodies == [i \in DOMAIN s.out |-> NodeJob("TYPECHECK", s.out[i])]
           next == NodeJob(IF s.ast[p].error THEN "ABORT" ELSE "OPTIMIZE", p)
           main == s.ast[p].lhs
       IN  IF s.crash
             THEN Crashed /\ UNCHANGED <<ast, bytecode>>
           ELSE IF ~s.ok
             THEN Deferred(bodies) /\ ast' = s.ast /\ UNCHANGED bytecode
           ELSE /\ ast' = s.ast
                /\ IF IsMain(s, p)
                     THEN /\ bytecode' = [bytecode EXCEPT ![1][2] = Pointer(main)]
                          /\ Completed(bodies \o
                                       <<next, ExecuteJob(Machine(0, main))>>)
                     ELSE /\ Completed(Append(bodies, next))
                          /\ UNCHANGED bytecode
  /\ UNCHANGED <<program, initializers, vm, told>>

Optimize ==
  /\ Taking("OPTIMIZE")
  /\ Completed(<<NodeJob("BYTECODE", Job.node)>>)
  /\ UNCHANGED <<program, ast, bytecode, initializers, vm, told>>

-----------------------------------------------------------------------------
(* Generating bytecode. *)

(* Faulty variant: the declaration stays in its file. *)
PublishedNever(decls, decl) == decls

Published(decls, decl) == Append(decls, decl)

(* bytecode_handle_top_level_node: an assignment's declaration becomes      *)
(* visible in every file only now.                                          *)
Generate ==
  /\ Taking("BYTECODE")
  /\ LET p == Job.node
         unit == BytecodeOf(ast, p)
         decl == ast[p].lhs
     IN  IF ast[p].kind = "DECLARATION"
           THEN Completed(<<>>) /\ UNCHANGED <<ast, bytecode, initializers>>
         ELSE IF unit.crash
           THEN Crashed /\ UNCHANGED <<ast, bytecode, initializers>>
         ELSE IF ~unit.ok
           THEN Deferred(<<>>) /\ UNCHANGED <<ast, bytecode, initializers>>
         ELSE /\ Completed(<<>>)
              /\ bytecode' = Append(bytecode, unit.code)
              /\ IF ast[p].kind = "ASSIGNMENT"
                   THEN /\ initializers' = Append(initializers, p)
                        /\ ast' = [ast EXCEPT
                                     ![p].code = Len(bytecode),
                                     ![Global].decls = Published(@, decl)]
                   ELSE /\ ast' = [ast EXCEPT ![p].code = Len(bytecode)]
                        /\ UNCHANGED initializers
  /\ UNCHANGED <<program, vm, told>>

-----------------------------------------------------------------------------
(* The loop around them. *)

Report ==
  /\ TakeAbort
  /\ told' = (told \/ Prints(ast, Job.node))

DrainAll ==
  /\ Drain
  /\ LET printed == CASE Job.type = "EXECUTE" -> TRUE
                      [] Job.type \in {"TYPECHECK", "BYTECODE"} -> Prints(ast, Job.node)
                      [] OTHER -> FALSE
     IN  told' = (told \/ printed)

Run == Execute /\ UNCHANGED <<program, told>>

Turn ==
  /\ \/ Report
     \/ DrainAll
     \/ (NextRound /\ UNCHANGED told)
     \/ (Stall /\ UNCHANGED told)
     \/ (Return /\ UNCHANGED told)
  /\ UNCHANGED <<program, ast, bytecode, initializers, vm>>

(* The process has ended: nothing happens any more. *)
Ended == phase \in {"done", "crashed"}
Halt == Ended /\ UNCHANGED vars

Next == Read \/ Lex \/ Parse \/ TypecheckJob \/ Optimize \/ Generate
        \/ Run \/ Turn \/ Halt

(* The interpreter's only step that changes nothing: a jump to itself. *)
Spinning == Fetching(JUMP) /\ Num(-SizeOf(JUMP)) \in Operands(1)

(* The process does not stop by itself before it has ended.  As a step is   *)
(* possible in every other state (TLC would report a deadlock), and changes *)
(* something unless it spins, this is WF_vars(Next) without the ENABLED     *)
(* that TLC would have to evaluate.                                         *)
Fairness == []<><<TRUE>>_vars \/ <>[](Ended \/ Spinning)

Spec == Init /\ [][Next]_vars /\ Fairness

-----------------------------------------------------------------------------

FileTypes == {"READ", "LEX", "PARSE"}
NodeTypes == {"TYPECHECK", "OPTIMIZE", "BYTECODE", "ABORT"}

FileNames ==
  {MainFile} \cup
  UNION {UNION {{t.file : t \in {u \in {files[f][i] : i \in DOMAIN files[f]} :
                               u.k = "LOAD"}} :
                f \in DOMAIN files} : files \in Programs}

JobSet ==
  {SENTINEL} \cup [type : FileTypes, file : FileNames]
             \cup [type : NodeTypes, node : Seq(Int)]
             \cup [type : {"EXECUTE"}, vm : Machines]

Jobs(type) == {i \in 1 .. Len(queue) : queue[i].type = type}
NodeJobs == {i \in 1 .. Len(queue) : queue[i].type \in NodeTypes}

MachineOK(m) ==
  /\ m \in Machines
  /\ m.id \in 0 .. Len(bytecode) - 1
  /\ m.waiting \in DOMAIN ast \cup {NoNode}

NodeOK(node) ==
  /\ DOMAIN node = NodeFields
  /\ {node.lhs, node.declaration} \subseteq DOMAIN ast \cup {NoNode}
  /\ node.code \in -1 .. Len(bytecode) - 1
  /\ node.initializing \in BOOLEAN /\ node.initialized \in BOOLEAN
  /\ node.value \in Words

TypeOK ==
  /\ did_work \in BOOLEAN /\ reported_errors \in Nat /\ phase \in Phases
  /\ told \in BOOLEAN
  /\ queue \in Seq(JobSet)
  /\ \A i \in NodeJobs : queue[i].node \in DOMAIN ast
  /\ \A i \in Jobs("EXECUTE") : MachineOK(queue[i].vm)
  /\ vm # Idle => MachineOK(vm)
  /\ \A p \in DOMAIN ast : p \in Seq(Int) /\ NodeOK(ast[p])
  /\ bytecode \in Seq(Seq(Words))
  /\ initializers \in Seq(DOMAIN ast)
  /\ \A k \in 1 .. Len(initializers) : ast[initializers[k]].kind = "ASSIGNMENT"

(* Every phase handles a node once: however often a job was tried again and *)
(* whatever its handler emitted on the way, a node never has two jobs, and  *)
(* none is left once it has its bytecode (else a body would be compiled     *)
(* twice, and the program be told two different units for one procedure).   *)
NodesHandledOnce ==
  /\ \A i, j \in NodeJobs : queue[i].node = queue[j].node => i = j
  /\ \A i \in NodeJobs : ast[queue[i].node].code = -1

(* What there is to compile: the items of the files that were parsed, and   *)
(* the body of a procedure once that has its class.                         *)
Wanted(q) ==
  LET p == Parent(q)
  IN  /\ q \in DOMAIN ast /\ p \in DOMAIN ast
      /\ \/ ast[p].kind = "FILE"
         \/ ast[p].kind = "PROCEDURE" /\ ast[p].class # NoType /\ q = Child(p, 1)

(* A declaration has no bytecode. *)
Handled(node) ==
  node.code # -1 \/ (node.kind = "DECLARATION" /\ node.class # NoType)

(* Nothing gets lost on the way through the phases: unless an error has     *)
(* been counted, all that is wanted either has a job or is done.  So when   *)
(* the queue is empty "Compiled" means that every item and body is.         *)
NoneForgotten ==
  reported_errors = 0 =>
    \A q \in DOMAIN ast :
      Wanted(q) => Handled(ast[q]) \/ \E i \in NodeJobs : queue[i].node = q

(* Types are settled for good: handlers that run again on a node, or reach  *)
(* it from another one, never give it another class.                        *)
ClassesFixed ==
  [][\A p \in DOMAIN ast :
       ast[p].class # NoType => ast'[p].class = ast[p].class]_vars

(* An initializer is never queued twice, whoever waits for its variable,    *)
(* and the variable counts as being initialized while it is.                *)
Pending(decl) ==
  {i \in Jobs("EXECUTE") :
     \E k \in DOMAIN initializers :
       /\ ast[initializers[k]].lhs = decl
       /\ ast[initializers[k]].code = queue[i].vm.id
       /\ queue[i].vm.fp = NoFrame}

InitializersRunOnce ==
  \A decl \in {ast[initializers[k]].lhs : k \in DOMAIN initializers} :
    /\ \A i, j \in Pending(decl) : queue[i].vm.id = queue[j].vm.id => i = j
    /\ Pending(decl) # {} => ast[decl].initializing \/ ast[decl].initialized

(* What a program pushes it pops: when a unit that nobody called is done,   *)
(* the calls it made have left nothing behind.                              *)
StackBalanced ==
  vm.fp = NoFrame /\ vm # Idle /\ Fetching(RETURN) => vm.stack = <<>>

(* What is on a stack or in a variable and looks like a procedure has its   *)
(* bytecode, so that the second assert of BC_CALL (interpreter.c:149) holds *)
(* however a program confuses its stack and wherever it jumps to.           *)
Compiled(word) ==
  word[1] = "node" => word[2] \in DOMAIN ast /\ ast[word[2]].code # -1

AllCompiled(words) == \A i \in 1 .. Len(words) : Compiled(words[i])

ProceduresCompiled ==
  /\ \A p \in DOMAIN ast : Compiled(ast[p].value)
  /\ AllCompiled(vm.stack)
  /\ \A i \in Jobs("EXECUTE") : AllCompiled(queue[i].vm.stack)

(* A machine that needs a variable begins its initializers only if nobody   *)
(* has, each of them once; a variable that has begun to be initialized      *)
(* never again counts as untouched, and an assignment that has its bytecode *)
(* keeps it and its variable.                                               *)
Begun(node) == node.initializing \/ node.initialized

NewJobs == IF queue' = queue THEN {} ELSE Len(queue) .. Len(queue')

InitializersBeginOnce ==
  [][/\ \A p \in DOMAIN ast : Begun(ast[p]) => Begun(ast'[p])
     /\ \A k \in DOMAIN initializers :
          LET before == ast[initializers[k]]
              after == ast'[initializers'[k]]
          IN  after.lhs = before.lhs /\ after.code = before.code
     /\ \A k \in DOMAIN initializers :
          \A i, j \in {n \in NewJobs : queue'[n] = Initializer(k)} :
            LET decl == ast[initializers[k]].lhs
            IN  i = j /\ ~Begun(ast[decl]) /\ Begun(ast'[decl])]_vars

-----------------------------------------------------------------------------
(* What the workspace relies on, whatever the syntax trees.                 *)

(* A file's nodes are new, know of no others, and have no bytecode and no   *)
(* value; its items are children of a node of its own.                      *)
ParserContract ==
  Taking("PARSE") =>
    LET f == FilesParsed + 1
        terms == program[Job.file]
        new == ParsedFile(terms, f)
    IN  /\ DOMAIN new \subseteq Seq(Int) /\ NoNode \notin DOMAIN new
        /\ DOMAIN new \cap DOMAIN ast = {}
        /\ <<f>> \in DOMAIN new /\ new[<<f>>].kind = "FILE"
        /\ \A i \in 1 .. NodesUpTo(terms, Len(terms)) : Child(<<f>>, i) \in DOMAIN new
        /\ \A p \in DOMAIN new :
             /\ DOMAIN new[p] = NodeFields
             /\ {new[p].lhs, new[p].declaration} \subseteq DOMAIN new \cup {NoNode}
             /\ new[p].code = -1 /\ new[p].value = Null
             /\ new[p].initializing = FALSE /\ new[p].initialized = FALSE

(* Typing a node leaves alone what the other phases keep in it, and its     *)
(* class and target once it has a class.                                    *)
TypesOnly(before, after) ==
  /\ DOMAIN after = NodeFields
  /\ after.kind = before.kind /\ after.code = before.code
  /\ after.initializing = before.initializing
  /\ after.initialized = before.initialized /\ after.value = before.value
  /\ {after.lhs, after.declaration} \subseteq DOMAIN ast \cup {NoNode}
  /\ before.class # NoType => after.class = before.class /\ after.lhs = before.lhs

(* A body is emitted by the try that gives its procedure a class, once.     *)
NewBodies(s) ==
  /\ s.out \in Seq(DOMAIN ast)
  /\ \A i, j \in 1 .. Len(s.out) : s.out[i] = s.out[j] => i = j
  /\ \A i \in 1 .. Len(s.out) :
       \E p \in {q \in DOMAIN ast : ast[q].kind = "PROCEDURE"} :
         s.out[i] = Child(p, 1) /\ ast[p].class = NoType /\ s.ast[p].class # NoType

TypecheckerContract ==
  Taking("TYPECHECK") =>
    \A heap \in Heaps :
      LET s == TypecheckNode(ast, Job.node, heap)
      IN  ~s.crash =>
            /\ s.ast = [p \in DOMAIN ast |-> s.ast[p]]
            /\ \A p \in DOMAIN ast : TypesOnly(ast[p], s.ast[p])
            /\ ast[Job.node].kind = "ASSIGNMENT" => s.ast[Job.node].lhs # NoNode
            /\ NewBodies(s)

(* Code is made for typed nodes only.  It begins with an instruction, and   *)
(* the only addresses that it pushes (as a word, or as a call's number of   *)
(* arguments) are those of procedures with bytecode, wherever it is read    *)
(* from: at an instruction, at an operand or in front of it.                *)
PushesCompiled(code) ==
  /\ code = <<>> \/ code[1][1] # "node"
  /\ \A i \in 1 .. Len(code) :
       /\ code[i] = PUSH /\ i + 1 <= Len(code) => Compiled(code[i + 1])
       /\ code[i] = CALL /\ i + 2 <= Len(code) => Compiled(code[i + 2])

GeneratorContract ==
  Taking("BYTECODE") /\ ast[Job.node].kind # "DECLARATION" =>
    LET unit == BytecodeOf(ast, Job.node)
    IN  unit.ok =>
          /\ ast[Job.node].class # NoType
          /\ unit.code \in Seq(Words) /\ PushesCompiled(unit.code)

(* Nothing is left out.  Of a file's nodes the items alone are right below  *)
(* its own, and no procedure has a class yet; whoever gives it one emits    *)
(* its body, and what is typed and has no error has a class.                *)
ItemsOnly(new, root, items) ==
  \A p \in DOMAIN new :
    /\ new[p].kind = "FILE" => p = root
    /\ new[p].kind = "PROCEDURE" => new[p].class = NoType
    /\ p = root \/ Parent(p) \in DOMAIN new
    /\ Parent(p) = root => \E i \in 1 .. items : p = Child(root, i)

ItemsContract ==
  Taking("PARSE") =>
    LET f == FilesParsed + 1
        terms == program[Job.file]
    IN  ItemsOnly(ParsedFile(terms, f), <<f>>, NodesUpTo(terms, Len(terms)))

AllBodies(s) ==
  \A p \in {q \in DOMAIN ast : ast[q].kind = "PROCEDURE"} :
    /\ ast[p].class = NoType /\ s.ast[p].class # NoType
    /\ Child(p, 1) \in DOMAIN ast
    => \E i \in 1 .. Len(s.out) : s.out[i] = Child(p, 1)

BodiesContract ==
  Taking("TYPECHECK") =>
    \A heap \in Heaps :
      LET s == TypecheckNode(ast, Job.node, heap)
      IN  ~s.crash =>
            /\ AllBodies(s)
            /\ s.ok /\ ~s.ast[Job.node].error => s.ast[Job.node].class # NoType

HandlersKeep ==
  /\ ParserContract /\ TypecheckerContract /\ GeneratorContract
  /\ ItemsContract /\ BodiesContract
=============================================================================
