---------------------------- MODULE Interpreter ------------------------------
(***************************************************************************)
(* interpreter.c: perform_execute_job as a state machine, one step per     *)
(* instruction, for nothing bounds how many a program runs.  A machine     *)
(* runs until its unit returns or until it needs a variable that has no    *)
(* value yet; then it goes back to the end of the queue as an EXECUTE job, *)
(* with its whole state, behind the initializers it has begun.             *)
(*                                                                         *)
(* Memory the code reads without having written it, past the end of an     *)
(* array or before its start, holds what the definitions below allow; a    *)
(* word used as what it is not ends in "crashed".                          *)
(***************************************************************************)
EXTENDS Pipeline, Instructions, FiniteSets

CONSTANTS StackSize,    \* words on a VM's stack (512 in main.c)
          StackReach,   \* words that can be written before a write faults
          Stray,        \* what may be found in memory that was not written
          StrayReach    \* how far from a unit that is still so

(* The word behind the stack, waiting_on, belongs to the VmState. *)
ASSUME StackAssumption ==
  /\ StackSize \in Nat \ {0}
  /\ StackReach \in Nat /\ StackReach > StackSize

(* The address of a node is one of the things that are not found there: it  *)
(* counts as Junk.                                                          *)
ASSUME StrayAssumption ==
  /\ \A word \in Stray : word \in Words /\ word[1] # "node"
  /\ Junk \in Stray
  /\ StrayReach \in Nat

VARIABLES ast,          \* every node there is, with its scopes
          bytecode,     \* ws.bytecode, unit k at k + 1
          initializers, \* ws.initializers: the assignments, in order
          vm            \* the VmState of the EXECUTE job in hand, or Idle

NoFrame == -1           \* fp == -1: not in a call

(* A VmState before its first instruction. *)
Machine(unit, waiting) ==
  [id |-> unit, ip |-> 0, fp |-> NoFrame, stack |-> <<>>, waiting |-> waiting]

Machines ==
  [id : Int, ip : Int, fp : Int, stack : Seq(Words), waiting : Seq(Int)]

Idle == Machine(-1, NoNode)

ExecuteJob(machine) == [type |-> "EXECUTE", vm |-> machine]

-----------------------------------------------------------------------------
(* Waiting for a variable. *)

(* The places in the list of the assignments to a declaration. *)
InitializersOf(decl) ==
  {k \in 1 .. Len(initializers) : ast[initializers[k]].lhs = decl}

(* The n-th smallest number in S. *)
NthOf(S, n) == CHOOSE k \in S : Cardinality({i \in S : i <= k}) = n

(* Faulty variant: the number of the unit is taken from the variable. *)
InitializerOfDecl(k) ==
  ExecuteJob(Machine(ast[ast[initializers[k]].lhs].code, NoNode))

(* The job that runs the k-th assignment of the list from its start. *)
Initializer(k) == ExecuteJob(Machine(ast[initializers[k]].code, NoNode))

(* Faulty variant: whoever waits starts the initializer. *)
BeginningAgain(decl) ==
  [n \in 1 .. Cardinality(InitializersOf(decl)) |->
     Initializer(NthOf(InitializersOf(decl), n))]

(* interpreter_begin_dependency_initialization: what it emits ... *)
Beginning(decl) ==
  IF ast[decl].initializing THEN <<>>
  ELSE [n \in 1 .. Cardinality(InitializersOf(decl)) |->
          Initializer(NthOf(InitializersOf(decl), n))]

(* waiting_on is the word behind the stack.  It is only read when m is      *)
(* taken again, and cleared when m goes on.                                 *)
Cleared(stack) ==
  IF Len(stack) > StackSize THEN [stack EXCEPT ![StackSize + 1] = Null] ELSE stack

Waiter(m, decl) == [m EXCEPT !.waiting = decl, !.stack = Cleared(@)]

(* ... and the return of 0, to be run again from where m stands. *)
Await(m, decl) ==
  /\ queue' = Tail(queue) \o Beginning(decl) \o <<ExecuteJob(Waiter(m, decl))>>
  /\ ast' = [ast EXCEPT ![decl].initializing = @ \/ InitializersOf(decl) # {}]
  /\ vm' = Idle
  /\ UNCHANGED <<did_work, reported_errors, phase>>

(* perform_execute_job up to its loop. *)
Resume ==
  /\ Taking("EXECUTE") /\ vm = Idle
  /\ LET decl == Job.vm.waiting
     IN  IF decl # NoNode /\ ~ast[decl].initialized
           THEN Await(Job.vm, decl)
           ELSE /\ vm' = [Job.vm EXCEPT !.waiting = NoNode]
                /\ UNCHANGED <<pipelineVars, ast>>

-----------------------------------------------------------------------------
(* The instructions. *)

(* The words at an address: those of the unit, around it whatever the heap  *)
(* holds, and farther away no instruction or operand.                       *)
WordsAt(ip) ==
  LET code == bytecode[vm.id + 1]
  IN  IF ip + 1 \in DOMAIN code THEN {code[ip + 1]}
      ELSE IF ip \in -StrayReach .. Len(code) + StrayReach - 1 THEN Stray
      ELSE {Junk}

Fetching(op) == phase = "loop" /\ vm # Idle /\ op \in WordsAt(vm.ip)

Operands(k) == WordsAt(vm.ip + k)

Continue(machine) ==
  /\ vm' = machine
  /\ UNCHANGED <<pipelineVars, ast>>

(* The machine after an instruction of this size that leaves this stack. *)
After(size, stack) == [vm EXCEPT !.ip = @ + size, !.stack = stack]

Derail == Crashed /\ vm' = Idle /\ UNCHANGED ast

Depth == Len(vm.stack)
Top == vm.stack[Depth]
Below(n) == vm.stack[Depth - n]
Without(n) == SubSeq(vm.stack, 1, Depth - n)

(* stack[++sp] = word, for one word after the other; nothing looks at the   *)
(* end of the stack.  Words behind the VmState belong to somebody else: the *)
(* process may end by it, or go on, and it ends where no memory is left.    *)
PushAll(words, machine) ==
  \/ /\ Depth + Len(words) <= StackReach
     /\ Continue([machine EXCEPT !.stack = vm.stack \o words])
  \/ Depth + Len(words) > StackSize + 1 /\ Derail

Push(word, size) == PushAll(<<word>>, After(size, vm.stack))

IsNum(word) == word[1] = "num"
IsNode(word) == word[1] = "node" /\ word[2] \in DOMAIN ast
IsUnit(word) == IsNum(word) /\ word[2] + 1 \in DOMAIN bytecode

(* BC_RETURN outside of any call: the initializer of that unit is done. *)
FinishUnit ==
  /\ Fetching(RETURN) /\ vm.fp = NoFrame
  /\ LET done == {k \in 1 .. Len(initializers) : ast[initializers[k]].code = vm.id}
         decl == ast[initializers[NthOf(done, 1)]].lhs
     IN  ast' = IF done = {} THEN ast
                ELSE [ast EXCEPT ![decl].initializing = FALSE,
                                 ![decl].initialized = TRUE]
  /\ vm' = Idle
  /\ Completed(<<>>)

(* BC_RETURN from a call: the frame's words are popped, then the arguments; *)
(* nothing checks that the callee has left them on top.                     *)
LeaveCall ==
  /\ Fetching(RETURN) /\ vm.fp # NoFrame
  /\ \E flag \in Operands(1) :
       LET kept == IF flag = Num(0) THEN 0 ELSE 1
           args == Below(kept + 3)
       IN  IF /\ Depth >= kept + 4
              /\ IsUnit(Below(kept)) /\ IsNum(Below(kept + 1))
              /\ IsNum(Below(kept + 2)) /\ IsNum(args)
              /\ args[2] \in 0 .. Depth - kept - 4
             THEN Continue([vm EXCEPT
                    !.id = Below(kept)[2],
                    !.ip = Below(kept + 1)[2],
                    !.fp = Below(kept + 2)[2],
                    !.stack = Without(kept + 4 + args[2])
                              \o (IF kept = 0 THEN <<>> ELSE <<Top>>)])
             ELSE Derail

(* Faulty variant: a variable is read before it has its value. *)
LoadWordEager ==
  /\ Fetching(LOAD)
  /\ \E decl \in Operands(1) :
       IF ~IsNode(decl) THEN Derail ELSE Push(ast[decl[2]].value, 2)

LoadWord ==
  /\ Fetching(LOAD)
  /\ \E decl \in Operands(1) :
       IF ~IsNode(decl) THEN Derail
       ELSE IF ~ast[decl[2]].initialized THEN Await(vm, decl[2])
       ELSE Push(ast[decl[2]].value, 2)

(* Faulty variant: the value stored stays on the stack. *)
StoreKeeping ==
  /\ Fetching(STORE)
  /\ \E decl \in Operands(1) :
       IF ~IsNode(decl) \/ Depth = 0 THEN Derail
       ELSE /\ ast' = [ast EXCEPT ![decl[2]].value = Top,
                                  ![decl[2]].initialized = TRUE]
            /\ vm' = After(2, vm.stack)
            /\ UNCHANGED pipelineVars

(* Faulty variant: the variable does not count as initialized by it. *)
StoreUnmarked ==
  /\ Fetching(STORE)
  /\ \E decl \in Operands(1) :
       IF ~IsNode(decl) \/ Depth = 0 THEN Derail
       ELSE /\ ast' = [ast EXCEPT ![decl[2]].value = Top]
            /\ vm' = After(2, Without(1))
            /\ UNCHANGED pipelineVars

Store ==
  /\ Fetching(STORE)
  /\ \E decl \in Operands(1) :
       IF ~IsNode(decl) \/ Depth = 0 THEN Derail
       ELSE /\ ast' = [ast EXCEPT ![decl[2]].value = Top,
                                  ![decl[2]].initialized = TRUE]
            /\ vm' = After(2, Without(1))
            /\ UNCHANGED pipelineVars

(* ARG(n), stack[fp - 4 - n].  main has no caller to push its arguments:    *)
(* what it reads there lies before the stack.                               *)
Argument(n) ==
  IF vm.fp - 3 - n \in 1 .. Depth THEN vm.stack[vm.fp - 3 - n] ELSE Junk

(* BC_ARG_LOAD pushes the word, BC_ARG_ADDR its address. *)
LoadArgument ==
  \E op \in {ARG_LOAD, ARG_ADDR} :
    /\ Fetching(op)
    /\ \E n \in Operands(1) :
         IF ~IsNum(n) THEN Derail
         ELSE Push(IF op = ARG_LOAD THEN Argument(n[2]) ELSE Data, 2)

PushWord ==
  /\ Fetching(PUSH)
  /\ \E word \in Operands(1) : Push(word, 2)

Call ==
  /\ Fetching(CALL)
  /\ \E decl \in Operands(1), count \in Operands(2) :
       IF ~IsNode(decl) THEN Derail
       ELSE IF ~ast[decl[2]].initialized THEN Await(vm, decl[2])
       ELSE LET proc == ast[decl[2]].value
                frame == <<count, Num(vm.fp), Num(vm.ip + 3), Num(vm.id)>>
            IN  IF ~IsNode(proc) \/ ast[proc[2]].code = -1
                  THEN Derail
                  ELSE PushAll(frame, [vm EXCEPT !.id = ast[proc[2]].code,
                                                 !.ip = 0, !.fp = Depth + 3])

Syscall ==
  /\ Fetching(SYSCALL)
  /\ \E count \in Operands(1) :
       IF IsNum(count) /\ count[2] \in 0 .. Depth
         THEN Continue(After(2, Without(count[2])))
         ELSE Derail

Jump ==
  /\ Fetching(JUMP)
  /\ \E distance \in Operands(1) :
       IF IsNum(distance) THEN Continue(After(2 + distance[2], vm.stack))
                          ELSE Derail

(* A literal's value is not modelled, so it may or may not be 0. *)
JumpZero ==
  /\ Fetching(JUMP_ZERO)
  /\ \E distance \in Operands(1) :
       IF ~IsNum(distance) \/ Depth = 0 THEN Derail
       ELSE \/ Top # Num(0) /\ Continue(After(2, Without(1)))
            \/ /\ Top = Num(0) \/ ~IsNum(Top)
               /\ Continue(After(2 + distance[2], Without(1)))

(* BC_BREAK, and the default of the switch: assert(0). *)
Opcodes == {Num(n) : n \in 0 .. 9}

Unknown ==
  /\ phase = "loop" /\ vm # Idle
  /\ WordsAt(vm.ip) \ Opcodes # {}
  /\ Derail

Instruction ==
  \/ FinishUnit \/ LeaveCall \/ LoadWord \/ Store \/ LoadArgument \/ PushWord
  \/ Call \/ Syscall \/ Jump \/ JumpZero \/ Unknown

Execute == (Resume \/ Instruction) /\ UNCHANGED <<bytecode, initializers>>
=============================================================================
