------------------------------- MODULE Stacks --------------------------------
(***************************************************************************)
(* What the interpreter expects of the bytecode and never checks: that it  *)
(* pops what it has pushed, and calls with the arguments, and returns with *)
(* the results, that the classes of the procedures promise.  Steps runs an *)
(* instruction of a unit on the kinds of the words instead of the words.   *)
(***************************************************************************)
EXTENDS Workspace

(* The kind of a word: the class of the procedure it is, or else Plain. *)
Plain == NoType

Kind(class) == IF IsProcClass(class) THEN class ELSE Plain

Outcome(class) ==
  IF Len(Results(class)) = 0 THEN <<>> ELSE <<Kind(Results(class)[1])>>

(* The bodies of procedures, and the classes they have been typed with. *)
IsBody(nodes, b) ==
  Parent(b) \in DOMAIN nodes /\ nodes[Parent(b)].kind = "PROCEDURE"

Callable(nodes, b) == b = PutcCode \/ IsBody(nodes, b)

Signature(nodes, b) ==
  IF b = PutcCode THEN nodes[Putc].class ELSE nodes[Parent(b)].class

(* Whether a word is a procedure of that class, or none if there is none. *)
HasKind(nodes, word, kind) ==
  IF kind = Plain THEN word[1] # "node"
  ELSE /\ word[1] = "node" /\ word[2] \in DOMAIN nodes
       /\ Callable(nodes, word[2]) /\ nodes[word[2]].code # -1
       /\ Signature(nodes, word[2]) = kind

-----------------------------------------------------------------------------
(* Running a unit on kinds. *)

(* The address of a node whose class is known. *)
IsVariable(nodes, word) ==
  word[1] = "node" /\ word[2] \in DOMAIN nodes /\ nodes[word[2]].class # NoType

(* What a unit is for: the body of a procedure of that class, or, if it has *)
(* none, an initializer of that variable or the bootstrap.                  *)
Role(class, target) == [class |-> class, target |-> target]

Called(role) == role.class # NoType

(* Where a unit stands: the address of an instruction, the kinds of what it *)
(* has on the stack, and whether its variable has its value.                *)
State(at, words, stored) == [at |-> at, words |-> words, stored |-> stored]

Entry == State(1, <<>>, FALSE)

(* No unit has this address: an instruction that must not be run where it   *)
(* stands leads there.                                                      *)
Nowhere == State(0, <<>>, FALSE)

Shortened(words, n) == SubSeq(words, 1, Len(words) - n)

(* A call's arguments, the first one on top.  One that nobody has pushed    *)
(* lies before the stack: main's, which the bootstrap calls without.        *)
ArgumentsMatch(class, role, words) ==
  \A k \in DOMAIN Parameters(class) :
    IF k <= Len(words)
      THEN words[Len(words) + 1 - k] = Kind(Parameters(class)[k])
      ELSE ~Called(role) /\ Kind(Parameters(class)[k]) = Plain

MayCall(nodes, decl, count, role, words) ==
  /\ IsVariable(nodes, decl)
  /\ IsProcClass(nodes[decl[2]].class)
  /\ Len(Results(nodes[decl[2]].class)) \in 0 .. 1
  /\ count[1] = "num" /\ count[2] \in 0 .. Len(words)
  /\ ArgumentsMatch(nodes[decl[2]].class, role, words)

AfterCall(class, count, words) == Shortened(words, count) \o Outcome(class)

(* A unit returns what its role promises and leaves nothing else. *)
MayReturn(role, flag, t) ==
  IF Called(role) THEN /\ t.words = Outcome(role.class)
                       /\ flag = Num(0) <=> Outcome(role.class) = <<>>
                  ELSE t.words = <<>> /\ (t.stored \/ role.target = NoNode)

(* Where the instruction at t.at, with this operand, may lead. *)
Steps(nodes, code, role, t) ==
  LET op == code[t.at]
      arg == code[t.at + 1]
      count == code[t.at + 2]
      n == Len(t.words)
      class == nodes[arg[2]].class
      params == Parameters(role.class)
      Numeric == arg[1] = "num"
      Moves(words) == State(t.at + 2, words, t.stored)
      Pushes(kind) == Moves(Append(t.words, kind))
  IN  CASE op = RETURN ->
             IF MayReturn(role, arg, t) THEN {} ELSE {Nowhere}
        [] op = LOAD ->
             IF IsVariable(nodes, arg) THEN {Pushes(Kind(class))} ELSE {Nowhere}
        [] op = STORE ->
             IF IsVariable(nodes, arg) /\ n > 0 /\ t.words[n] = Kind(class)
               THEN {State(t.at + 2, Shortened(t.words, 1),
                           t.stored \/ arg[2] = role.target)}
               ELSE {Nowhere}
        [] op = ARG_LOAD ->
             IF /\ Numeric /\ arg[2] >= 0 /\ Called(role)
                /\ arg[2] + 1 \in DOMAIN params
               THEN {Pushes(Kind(params[arg[2] + 1]))} ELSE {Nowhere}
        [] op = ARG_ADDR ->
             IF Numeric THEN {Pushes(Plain)} ELSE {Nowhere}
        [] op = PUSH ->
             IF arg[1] # "node" THEN {Pushes(Plain)}
             ELSE LET kind == Signature(nodes, arg[2])
                  IN  IF IsProcClass(kind) /\ HasKind(nodes, arg, kind)
                        THEN {Pushes(kind)} ELSE {Nowhere}
        [] op = CALL ->
             IF MayCall(nodes, arg, count, role, t.words)
               THEN {State(t.at + 3, AfterCall(class, count[2], t.words), t.stored)}
               ELSE {Nowhere}
        [] op = SYSCALL ->
             IF Numeric /\ arg[2] \in 0 .. n
               THEN {Moves(Shortened(t.words, arg[2]))} ELSE {Nowhere}
        [] op = JUMP ->
             IF Numeric THEN {State(t.at + 2 + arg[2], t.words, t.stored)}
                        ELSE {Nowhere}
        [] op = JUMP_ZERO ->
             IF Numeric /\ n > 0
               THEN {Moves(Shortened(t.words, 1)),
                     State(t.at + 2 + arg[2], Shortened(t.words, 1), t.stored)}
               ELSE {Nowhere}
        [] OTHER -> {Nowhere}

(* An instruction with all its operands. *)
Inside(code, t) ==
  /\ t.at \in DOMAIN code
  /\ t.at + SizeOf(code[t.at]) - 1 \in DOMAIN code

(* R has every state the unit can be in, and it may go on from all of them. *)
Disciplined(nodes, code, role, R) ==
  /\ Entry \in R
  /\ \A t \in R : Inside(code, t) /\ Steps(nodes, code, role, t) \subseteq R

(* The states within as many steps as the unit has words. *)
Reached(nodes, code, role) ==
  LET Onwards(S) == UNION {Steps(nodes, code, role, t) : t \in {u \in S : Inside(code, u)}}
      reached[n \in Nat] ==
        IF n = 0 THEN {Entry}
        ELSE LET before == reached[n - 1] IN before \cup Onwards(before)
  IN  reached[Len(code)]

IsDisciplined(nodes, code, role) ==
  Disciplined(nodes, code, role, Reached(nodes, code, role))

-----------------------------------------------------------------------------
(* What the machines rely on, whatever the syntax trees. *)

(* The bootstrap, at its call and at its return. *)
Boot(main) == [Bootstrap EXCEPT ![2] = Pointer(main)]
BootRole == Role(NoType, NoNode)
BootStates == {Entry, State(4, <<>>, FALSE)}

(* What bytecode.c makes of an assignment computes and stores the value of  *)
(* its variable, what it makes of a body keeps to the procedure's class,    *)
UnitsDisciplined ==
  Taking("BYTECODE") /\ ast[Job.node].kind # "DECLARATION" =>
    LET p == Job.node
        unit == BytecodeOf(ast, p)
        class == ast[Parent(p)].class
    IN  unit.ok =>
          /\ ast[p].kind = "ASSIGNMENT" =>
               /\ ~Callable(ast, p)
               /\ IsDisciplined(ast, unit.code, Role(NoType, ast[p].lhs))
          /\ IsBody(ast, p) =>
               /\ IsProcClass(class)
               /\ IsDisciplined(ast, unit.code, Role(class, NoNode))

(* and main is a procedure that can be called without arguments.            *)
MainCallable ==
  Taking("TYPECHECK") =>
    \A heap \in Heaps :
      LET s == TypecheckNode(ast, Job.node, heap)
          main == s.ast[Job.node].lhs
      IN  ~s.crash /\ s.ok /\ IsMain(s, Job.node) =>
            Disciplined(s.ast, Boot(main), BootRole, BootStates)

CodeDisciplined == UnitsDisciplined /\ MainCallable

-----------------------------------------------------------------------------
(* The promise of the typechecker to the interpreter, which checks nothing: *)
(* a variable holds a procedure exactly if its class is that of a           *)
(* procedure (the first assert of BC_CALL).                                 *)
ValuesMatchClasses ==
  \A p \in DOMAIN ast :
    ast[p].kind = "DECLARATION" /\ ast[p].initialized =>
      (IsNode(ast[p].value) <=> IsProcClass(ast[p].class))

(* No word is pushed behind a VM's stack: nothing in the code sees to it.   *)
StacksSuffice ==
  /\ Len(vm.stack) <= StackSize
  /\ \A i \in Jobs("EXECUTE") : Len(queue[i].vm.stack) <= StackSize

(* What alone can still end the process while it runs a program: a word    *)
(* behind a stack.  No assert of the interpreter fails, and no machine      *)
(* leaves its unit, reads below its stack or calls what is not a procedure. *)
OnlyOverflows ==
  [][Job.type = "EXECUTE" /\ phase # "crashed" /\ phase' = "crashed" =>
       Depth + 4 > StackSize]_vars

(* The unit of an initializer that ends has its variable marked: never one  *)
(* that it has not given a value.                                           *)
ValuedWhenDone ==
  [][FinishUnit => \A p \in DOMAIN ast :
       ast'[p].initialized => ast[p].initialized]_vars
=============================================================================
