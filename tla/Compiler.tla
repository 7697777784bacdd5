------------------------------ MODULE Compiler ------------------------------
(***************************************************************************)
(* The compiler: Workspace.tla with the parser, the typechecker and the    *)
(* bytecode generator of Ast.tla, Typechecker.tla and Bytecode.tla for its *)
(* parameters (ParsedFile <- ParseFile, TypecheckNode <- Typecheck,        *)
(* BytecodeOf <- GenUnit, Prints <- Printing), and what is expected of the *)
(* whole.                                                                  *)
(***************************************************************************)
EXTENDS Stacks, Bytecode

(* report_errors: prints the first messages below a node that has an error, *)
(* on the branches that are marked as having one.                           *)
RECURSIVE Printing(_, _)
Printing(nodes, p) ==
  /\ nodes[p].error
  /\ \/ nodes[p].message
     \/ /\ nodes[p].left
        /\ Printing(nodes, IF nodes[p].kind = "ASSIGNMENT" THEN nodes[p].lhs ELSE Left(p))
     \/ /\ nodes[p].right
        /\ Printing(nodes, Right(p))
     \/ \E i \in 1 .. nodes[p].size : Printing(nodes, Child(p, i))

-----------------------------------------------------------------------------

(* What a program may not do without being told so by the typechecker: an   *)
(* expression that leaves its value is a statement of the block of a        *)
(* procedure, if or loop, or stands before an if, ...                       *)
StatementNodes ==
  UNION {LET body == Child(p, 1)
         IN  {body} \cup {Child(body, i) : i \in 1 .. ast[body].size} :
         p \in {q \in DOMAIN ast \ {PutcCode} :
                  ast[q].kind \in {"PROCEDURE", "CONDITIONAL", "LOOP"}}}

Returns(p) ==
  LET to == Results(ast[ast[p].declaration].class)
  IN  IF to = <<>> THEN Void ELSE to[1]

LeavesValue(p) ==
  \/ ast[p].kind \in {"IDENT", "LITERAL", "PROCEDURE"}
  \/ ast[p].kind = "CALL" /\ ast[p].class # NoType /\ Returns(p) # Void

(* ... a break that is not the first statement of a loop, ...               *)
StrayBreak(p) ==
  /\ ast[p].kind = "BREAK"
  /\ \A q \in DOMAIN ast : ast[q].kind = "LOOP" => p # Child(Child(q, 1), 1)

(* ... or a procedure with a result does not end by returning one.          *)
NoResult(p) ==
  LET body == Child(p, 1)
      last == Child(body, ast[body].size)
  IN  /\ ast[p].kind = "PROCEDURE" /\ p # PutcCode
      /\ ast[Right(p)].size > 0
      /\ ast[body].size > 0 => ~(ast[last].kind = "RETURN" /\ ast[last].right)

(* Another procedure's result was read in the place of a call's own.        *)
Misread(p) ==
  ast[p].kind = "CALL" /\ ast[p].class # NoType /\ ast[p].class # Returns(p)

Careless ==
  \/ \E p \in StatementNodes : LeavesValue(p)
  \/ \E p \in DOMAIN ast : StrayBreak(p) \/ NoResult(p) \/ Misread(p)

Found(p, name) == FindIdentifier(ast, ast[p].scope, name)

(* No instruction pushes a character.  A call of a user's procedure reads a *)
(* signature that was freed or never had its lists; an assignment needs its *)
(* target, and a parameter its class, which it has not if its default value *)
(* is of another one.                                                       *)
NoCode(p) == ast[p].lit = "char"

TypedDefault(p) ==
  /\ ast[p].kind = "PROCEDURE"
  /\ \E i \in 1 .. ast[Left(p)].size :
       LET param == Child(Left(p), i)
       IN  ast[param].kind = "ASSIGNMENT" /\ ast[ast[param].lhs].right

Unguarded(p) ==
  \/ ast[p].kind = "CALL" /\ Found(p, ast[p].name) \notin {Putc, NoNode}
  \/ ast[p].kind = "ASSIGNMENT" /\ Found(p, ast[ast[p].lhs].name) = NoNode
  \/ TypedDefault(p)

Within(root, Bad(_)) ==
  \E p \in DOMAIN ast :
    Len(p) >= Len(root) /\ SubSeq(p, 1, Len(root)) = root /\ Bad(p)

(* How the process can end by itself, and what must have been written for   *)
(* that: nothing else that a program does, well typed or not and however    *)
(* its jobs wait for each other, fails an assert or derails a machine.      *)
CrashesExplained ==
  [][phase' = "crashed" /\ phase # "crashed" =>
       CASE Job.type = "TYPECHECK" -> Within(Job.node, Unguarded)
         [] Job.type = "BYTECODE" -> Within(Job.node, NoCode)
         [] Job.type = "EXECUTE" -> Careless \/ Depth + 4 > StackSize
         [] OTHER -> FALSE]_vars

(* No assert fails, nothing is read that was not written, and nothing is    *)
(* written behind a stack.                                                  *)
NeverCrashes == phase # "crashed" /\ StacksSuffice

(* Whether a waiting job would do something if it were taken now. *)
CouldRun(job) ==
  CASE job.type = "TYPECHECK" ->
         \E heap \in Heaps : Typecheck(ast, job.node, heap).ok
    [] job.type = "BYTECODE" -> GenUnit(ast, job.node).ok
    [] job.type = "EXECUTE" ->
         job.vm.waiting = NoNode \/ ast[job.vm.waiting].initialized
    [] OTHER -> job # SENTINEL

(* The sentinel's purpose (main.c:336-338): the loop gives up on work that  *)
(* can never be done, cycles, and on nothing else.                          *)
GivesUpOnCyclesOnly ==
  phase = "drain" => \A i \in 1 .. Len(queue) : ~CouldRun(queue[i])

(* README.md:56: whoever cannot compile a program is told why. *)
FailuresAreTold == Returned /\ ~Succeeded => told

(* README.md:142: a file that is loaded again is not compiled again. *)
LoadedOnce == FilesParsed <= Cardinality(DOMAIN program)

(* What a program loads is either compiled with it or reported. *)
Loaded ==
  UNION {{t.file : t \in {program[f][i] : i \in {j \in DOMAIN program[f] :
                                               program[f][j].k = "LOAD"}}} :
         f \in DOMAIN program}

MissingFilesFail == Succeeded => Loaded \subseteq DOMAIN program

(* Every compilation of a program that does not loop itself ends. *)
Terminates == <>Ended
=============================================================================
