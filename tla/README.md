# A specification of the wip compiler

TLA+ modules that model the compiler in `src/` (paths below are relative to the
repository; `src/src/*.c` is the program), TLC configurations that check them,
and proofs for TLAPS. `PROJECT.json` maps every definition to its source lines
and lists runs, findings, hazards and theorems.

## 1. The system

`main` emits one READ job and calls `begin_compilation`, a single-threaded loop
that takes the oldest job of one queue, runs its handler to its end, and looks
at the result. All concurrency is in that queue: files, declarations, procedure
bodies and suspended virtual machines advance in turns, each trying again and
again until what it needs is there.

| Component | State | Operations | Interaction | What makes it correct |
|---|---|---|---|---|
| Queue (`queue.c` on `list.c`) | bucket array, length, capacity, read position | `queue_add`, `queue_pull`, `queue_length` | used by the pipeline only | a FIFO; waiting jobs are never overwritten; memory is reused |
| Pipeline (`pipeline.c`, `main.c`) | queue, `did_work`, `reported_errors` | one branch per job type, the sentinel, the drain loop | calls every handler; handlers emit jobs | ends; gives up only on what cannot proceed; asserts hold; verdict is right |
| Reader | file contents | `perform_read_job` | emits LEX | missing files are noticed |
| Lexer (`lexer.c`) | position in the text, line, position in the line, tokens and lines | one case of `tokenize_string` per kind of token | hands tokens to the parser, lines to the reports | no character is lost or read twice; every address is right; it ends |
| Parser, loader (`parser.c`, `utility.c`) | position in the tokens, nodes, scopes | lookahead, one function per production, lists with their recovery, top-level items | emits TYPECHECK, ABORT, READ | what is passed on is what was written, what is written is understood; each file once |
| Typechecker (`typechecker.c`, `type.c`) | class, flags and error of each node | one handler per node kind | fails until names have types; emits the bodies of procedures | types never change; a retry repeats nothing; order does not matter |
| Optimizer | none | passes its job on | | |
| Bytecode (`bytecode.c`) | `ws.bytecode`, `ws.initializers`, the global scope | one handler per node kind | fails until bodies have code; publishes declarations to other files | jumps land where they should; a procedure value has code |
| Interpreter (`interpreter.c`) | one `VmState` per EXECUTE job, values and flags of declarations | 10 instructions, waiting for a variable | emits initializers, returns 0 to wait | each initializer once; the stack stays in order |
| Error reporting (`report_errors`) | none | walks the flagged branches of a node | ABORT jobs, drain loop | failures are explained |
| Table (`table.c`) | slots, size, capacity | `table_add` with `table_resize`, `table_find` | under symbols and types | a finite map: no collision or growth hides a key |
| Symbols, types (`symbol.c`, `type.c`) | text ↔ number; name → class | `symbol_get`, `symbol_lookup`, `type_alias`, `type_find` | names of identifiers and types | one number per text, for good |
| Pool (`pool.c`) | buckets of cells | `pool_get`, `pool_to_array` | tokens, lines, nodes, code | items stay where they are, in order |
| Stack, debug, strings, utility, codegen | | | unused, output, byte copying, empty | |

What is hard here is not parallelism but *retrying*: a handler may change nodes
and emit jobs before it fails, and is then run again on what it left behind;
jobs of different phases wait for each other through node flags; and the loop
must know when there is nothing left to wait for. In front of the queue, lexer
and parser are sequential code whose difficulty is in the boundaries: what they
read behind the last character or the last token, and what becomes of an error
in the middle of a nested list. The list of hazards, each at
its line, is in `PROJECT.json`.

## 2. Modules

| Module | Models | Uses |
|---|---|---|
| `FIFO` | abstract specification: what a queue promises | |
| `Queue` | `queue.c`, `list.c` | `FIFO` (refinement) |
| `Pipeline` | the job loop, one operator per outcome of a job | |
| `Scheduler` | the loop with handlers reduced to what they wait for and emit | `Pipeline` |
| `Nodes` | what a node is; the two nodes of the builtin `putc` | |
| `Instructions` | opcodes and the two units the workspace starts with | `Nodes` |
| `Interpreter` | `interpreter.c`, one instruction per step | `Pipeline`, `Instructions` |
| `Workspace` | the loop with all handlers; parser, typechecker and generator of one syntax tree are parameters | `Interpreter` |
| `Ast` | the nodes and scopes that the parser leaves | `Nodes` |
| `Typechecker` | `typechecker.c` | `Ast` |
| `Bytecode` | `bytecode.c` | `Typechecker`, `Instructions` |
| `Stacks` | what the machines rely on in the bytecode, and what they keep if they can | `Workspace` |
| `Compiler` | `Workspace` with `Ast`, `Typechecker` and `Bytecode` for its parameters; what is expected of the whole | `Stacks`, `Bytecode` |
| `Naming` | abstract specification: what symbols and type names promise | |
| `Table` | `table.c`, as operators on a table | |
| `Names` | `symbol.c` and `type.c` on two tables, resizes slot by slot | `Table`, `Naming` (refinement) |
| `Pool` | `pool.c` and `pool_to_array` | |
| `Lexer` | `tokenize_string`, one round of its loop per step | `Pool` |
| `Parser` | `parser.c` from tokens to terms, one top-level item per step | `Ast` |
| `Frontend` | a file's text through both; the terms written out again | `Lexer`, `Parser` |
| `MCQueue`, `MCScheduler`, `MCCompiler`, `MCNames`, `MCFrontend` | plans, programs, names and texts for TLC | |
| `QueueProofs`, `SchedulerProofs`, `WorkspaceProofs`, `VerdictProofs`, `StackProofs`, `NamesProofs`, `PoolProofs`, `LexerProofs` | theorems | |

**Queue.** The variables are the fields of `List` and `Queue`, plus `memory`,
what each bucket's cells hold (`Garbage` until written), and `pulled`, the last
value returned. `Add` is `queue_add` with `list_append`'s growth, `Pull` is
`queue_pull` with its rotation. `new_queue`, `free_list` and the zero-sized
buckets that `list_get` rejects do not occur on the job queue.

**Pipeline** has `queue` (the FIFO, justified by the refinement of `Queue`),
`did_work`, `reported_errors` and `phase`. `Completed`, `Deferred`, `Dropped` and
`Crashed` are the four things that can become of a job; `TakeAbort`,
`NextRound`, `Stall`, `Drain` and `Return` are the loop's own branches.
**Scheduler** picks a *plan* (which unit needs which, what each emits when it
succeeds, what it emits while it is tried even if it fails, which are erroneous)
and runs it. `Emitted` counts both kinds, so `VerdictSound` covers procedure
bodies and initializers too.
**Workspace** is the same loop with the real handlers and machines.

**Ast.** A program is a function from file names to sequences of terms; `Build`
gives a term its nodes. A node is named by its path (lhs, rhs and body indices),
and `ast` maps paths to records with the fields of `AstNode` that later phases
read. Scopes live in the node that opens them. Syntax errors are one term,
`Malformed`.

**Typechecker, Bytecode.** One operator per C function, from a state (or the
nodes) to a state (or code), in the order in which the C function does things:
flags set before a failure remain. A class is what it is compared by: the name of
a built-in type, a procedure's parameter and result names, or, for a number
literal, a class of its own. Two asserts and one use after free are in the
model: `TypeCall` reads a signature whose lists were freed
(`typechecker.c:338-339`), so what it finds is a choice of `Heaps`: the old
contents (`Intact`), the lists of a procedure that was given the memory since
(`Lists`), which may be other ones for each call, or a `Fault`. Words of bytecode
are opcodes, numbers, node addresses, or `Data` for the value of a literal.

**Interpreter.** `perform_execute_job` takes a step per instruction (`vm` is the
job's machine, `Resume` the code before the loop), because nothing bounds how
many there are. Suspending is `Await`. A wrong word on the stack, an unknown
opcode and a failed assert end in `"crashed"`.

Nothing in the code looks at the end of the stack, and nothing in the model
does: `PushAll` writes on. The first word behind the stack is the machine's own
`waiting_on`, which is null while it runs and null again when it goes on after a
wait (`Cleared`). The words after it belong to somebody else. Then the process
may end, or go on with a longer stack, up to `StackReach` words, where it faults.
What such a write does to the memory of others is not followed. `StacksSuffice`
says that there is none; it is part of `NeverCrashes`.

A read outside of a unit finds any word of `Stray` within `StrayReach` words of
it: any opcode, which is a small number where an operand is expected, another
number, or `Junk`, which is neither. A node's address in such memory counts as
`Junk`: what it is dereferenced as ends the process in the model.

**Workspace, Compiler.** `program` is fixed at the start; `Read`, `Lex`, `Parse`,
`TypecheckJob`, `Optimize` and `Generate` are whole handlers together with what
`begin_compilation` does with their result. `Turn` is the rest of the loop. Four
functions of the code are recursive over the syntax tree: `parse_top_level`,
`typecheck_node`, `bytecode_handle_node` and `report_errors`. `Workspace` has
them as the operator parameters `ParsedFile`, `TypecheckNode`, `BytecodeOf` and
`Prints`, so that it can be proved about; in the runs they are `ParseFile`,
`Typecheck`, `GenUnit` and `Printing`, which model the code. `HandlersKeep` is the
contract between the two: of what a parser, a typechecker and a generator
compute, the part on which jobs, flags and machines rely.

**Stacks.** The interpreter pops what it assumes to have been pushed, and finds
the frame, the arguments and the result of a call by counting. `Steps` runs one
instruction of a unit on the *kinds* of the words instead of the words: the class
of the procedure that a word is, or `Plain`. A unit is `Disciplined` in a role
(the body of a procedure of that class, an initializer of that variable, the
bootstrap) if a set of such states contains its entry and all successors, none
of which pops what is not there, calls with other arguments than the class of
the callee has, falls off the unit, or returns with anything left but the
result. `CodeDisciplined` asks this of every unit that a BYTECODE job is about to
put into the workspace, and of the bootstrap when `main` is entered into it.

**Table, Names.** A table is a record of its fields, with `Free` for the key of
a slot that is not occupied; `Hash` is any function of the text. `FindSlot` is
the search of `__table_find_slot_for_key`, which starts one beyond the hash and
goes round once. Nothing is ever deleted. `Names` has one action per call; if
the table is full the call is a sequence of steps (`CopySlot` per slot, then
`EndResize`), since that is where a key could be lost. `Naming` promises two
maps and is what `Compiler` takes for granted when it compares names.

**Pool, Lexer.** A pool is its buckets and length; its operators are used for
tokens and lines. `PoolToArray` is what the rounds of the copying loop write,
`Rounds` those that are made before the one that breaks it off. The variables of `Lexer` are the locals of `tokenize_string`
(`file_pos`, `line_no`, `line_pos`, `line_start`) and `stage`; each case of its
switch is an action; `AdvanceTo` is the sum of its `ADVANCE`s and `Emits` the
token that it puts into the pool. Two reads leave their array: `THIS` behind the
text (`input.after` is what stands there) and `OPERATORS[c - 32]` for a
character below the space, 31 to 19 entries before the table (`input.outside` is
the set of characters for which something other than 0 is there). Both are
inputs, so a run covers several builds.

**Parser.** A parsing operator takes a state (the next token, whether an assert
has failed, whether a token behind the array was read) and returns it with a
term and the error flag. `_parse_list` and its recovery are `List`, `Elements`
and `Recovered`; the function pointers that it takes are the `kind` of a list.
All recursion goes through `Parse`. `Ast` turns the terms into nodes and scopes.
**Frontend** puts `Lexer` and `Parser` one behind the other. `Spelled` is the
grammar the other way round and serves as the reference definition.

A few operators named "faulty variant" stand beside the definition that they
differ from: plausible mistakes, each of which breaks a property that holds.

## 3. What is checked

| Run | Question | Bounds |
|---|---|---|
| `queue` | `CellsDistinct`, `MemoryReused`, `ImplementsFIFO` | two jobs, buckets of two cells, one bucket at first, four waiting: it grows to three and rotates in each position |
| `scheduler` | `OneSentinel`, `DrainsOnlyRetryable`, `StallSound`, `VerdictSound`, `Terminates`, `NoneStarved` | the 14 units of a file with a variable, a procedure, its body and a procedure in it, all waits between types, two orders, five places of an error, and all of them without an error where a procedure does not wait for the bytecode of its body, so that a body that is lost is seen in the verdict; two variables and main, all waits between their initializers, three orders |
| `compiler` | `OrderIndependent`, `GivesUpSoundly`, `HandlersKeep`, `CodeDisciplined`, `ValuesMatchClasses`, `InitializersRunOnce`, `StackBalanced`, `NeverCrashes`, `Terminates`, `ValuedWhenDone` | all programs of three items (number, declaration, copy, procedure that copies) and of four (number, copy): a chain of four, cycles of every length, in all orders; two files whose variables name each other's, loaded first, last, between, and twice; a main of two statements out of ten, in every rotation of the items |
| `compiler_wild` | `TypeOK`, `NodesHandledOnce`, `NoneForgotten`, `ProceduresCompiled`, `ValuesMatchClasses`, `HandlersKeep`, `ClassesFixed`, `InitializersBeginOnce`, `CrashesExplained` | any three of seventeen items, bad ones among them; a stack of 14 words, so that it overflows, in a push and in a call |
| `names` | `TypeOK`, `KeysReachable`, `SizesRight`, `NeverAborts`, `ImplementsNaming` | tables of two slots that grow to three and to four, three texts with the hashes 1, 1 and 3, two classes, any calls in any order |
| `frontend` | `TokensTile`, `AddressesRight`, `Faithful`, `Understood`, `EveryTextEnds` | every text of up to three, four and five characters over three alphabets, with one to three characters behind the text and up to three builds; eight programs in three layouts; each of them with any one word removed, and with any of six words inserted anywhere; seven lines with an error before a line without; pools of one bucket of two at first |

The bounds of a compilation are its program: nothing in `Compiler` is cut off,
the queue, the nodes and the units grow as far as the program makes them. Every
wait of the compiler is between two jobs, and a retry can only be overtaken by
the sentinel or by jobs emitted meanwhile, so programs of three or four items
already show each pair of phases waiting for each other. `StackSize` replaces
512. In `compiler` it is 18, which is as much as its programs need: with 17
`NeverCrashes` fails. In `compiler_wild` it is 14, so that stacks overflow, by
pushes and by calls; `StackReach` is 18, and stacks grow that far. `StrayReach` is
4: machines run beyond the end of their unit within these words, and also leave
them. `HeapWords` are the eleven opcodes, a distance backwards, `Data` and `Junk`.
`FreedSignatures` are `Intact`, `Fault`, and the lists of no or one class in
either place, which are those of all procedures of the menus.

The tables of `names` go through two growths (two slots to three to four), with
keys that collide in some capacities and not in others, which is every case
that the search and the copying distinguish; the proofs do not depend on it.
The snippets of `frontend` are longer than any lookahead of the lexer (two
characters) and put each of its cases next to each other one, in front of the
end of the text among them; the programs contain every production, and the
mistakes reach the recovery of each kind of list.

`OrderIndependent` compares the verdict with `Solvable`, the least fixed point
of "has a class" over the items taken as a set: it does not know of jobs, rounds
or files. A call is among the statements of the mains, with an argument whose
class is there from the start; one whose class comes late is left to
`call_order` (below). `ReadsChain` leaves out programs whose main
reads a variable that is a copy of another one: the loop may give them up
although they are solvable, as `chain` shows. `GivesUpSoundly` has the same
exception.

Of initializers there are two properties. `InitializersBeginOnce` is about
steps: whoever waits for a variable, its initializers are queued by the first to
need it, once each. `InitializersRunOnce` is about states: no two machines run
one at the same time. The second is asked of sound programs only: a machine that
has lost its stack may find itself at the start of any unit. `CodeDisciplined` is
asked of sound programs for the same reason: the typechecker lets statements
through that leave their value, and such units are not disciplined. What it is
good for is in section 4.

`CrashesExplained` says how a compilation can end by itself: in a typecheck job
only at a call of a user's procedure, whose signature was freed or never had
lists, at an assignment to a name that is not there, or at a parameter that has
both a type and a default value (of another type, it has no class, and the name
of its class is read, `typechecker.c:265`); in a bytecode job only at
a `@char` literal, which typechecks but has no code (`bytecode.c:63`, although
`README.md:106` has one); while running only if a stack overflows, or if the program
has a statement that leaves its value, a break that is not first in its loop,
a procedure that does not return its result, none of which the typechecker
rejects, or a call that was given the class of another procedure's result
(`Misread`, from a freed signature). Whatever else a program does wrong, in whatever order its jobs are
tried, no assert fails and no machine leaves its code.

`Faithful` and `Understood` are two directions of one statement, that the parser
is the inverse of `Spelled`: an item that goes on to the typechecker, written out
again, is the tokens of its lines; a text in the language gives the terms that
it was written from, one job each, and a line with an error outside brackets is
given up alone. `EveryTextEnds` has one exception, `StuckOnControl`: if the
build has something other than 0 before the table of operators, a carriage
return where a token should begin makes the lexer produce empty tokens for ever
(`Stuck`).

**Fairness.** `Scheduler` has `WF_vars(Next)`: the loop is the process, and a
process that can take a step takes one. `Workspace`'s `Fairness` says the same as
"infinitely many steps that change something, or ended": every state that is not
ended has a successor (TLC checks that there is no deadlock, `Halt` being the
only step of an ended process), and computing `ENABLED` of the whole compiler in
every state would be prohibitive. `Spinning` is the one step that leaves the
state as it is, a jump to itself; a process that spins has not ended. The
programs of the runs that check `Terminates` leave their loops. `Frontend` has
the same form of fairness for the same reason. `CHECK_DEADLOCK FALSE` is in the
`Scheduler` run only, where the process ends.

### Runs that end in a violation

Each checks one statement of the repository about itself and fails on a
single small program; all were reproduced with the compiled program.

| Run | Statement | What happens |
|---|---|---|
| `chain` | `main.c:336-338`, the sentinel detects unsolvable cycles | three variables in a chain and a main that reads the last: given up with an initializer ready |
| `break_loop` | `README.md:136`, `loop { break }` | a break after another statement jumps beyond the loop |
| `call_order` | `README.md:130`, declarations are order independent | an argument's error flag outlives the wait that caused it |
| `block_error` | `README.md:55-58`, a clear description of every error | an error in a block of an `if` is not reported |
| `missing_file` | `reader.c:10` | a missing file is no error: "Compiled" |
| `loaded_twice` | `README.md:142`, duplicated loads are handled | compiled twice |

`compiler` does not contradict them: its programs call no procedure with an
argument whose type comes late, break only where that is the first statement of
a loop, have no error in a block, and chains that main reads are excepted
(`ReadsChain`). It asks what holds of programs outside the known disagreements.

Two programs below `tests/compilation` are not compiled either, by the model or
by the program: `001-declarations/002-declaration-with-assignment.xxx`
(`c : int = 1`; a number literal never has the class of `int`) and
`002-expressions/007-functions/013-inline-function-body.xxx`
(`a := () => () { a() }`; the class `() => ()` has no lists, and the assert at
`typechecker.c:363` fails).

### Comparison with the program

`Compiler` was also run against the compiled program on about eight thousand
random single-file programs (up to five items, nested procedures, loops,
conditionals before and after their body, calls, misuse of every kind): whether
it crashes, compiles or fails, and whether a failure prints anything, agreed on
all of them. On about five thousand of them the crashes (one program in four)
were also compared with `CrashesExplained`, which explained every one.

`Frontend` was compared with `lexer.c` and `parser.c` compiled into a small
driver, on every text of the run `frontend` for which the model says what
happens: tokens with their types, addresses and literal types, lines, the jobs
emitted for each item, and asserts that fail. 8135 texts with optimization
(nothing but zeros before the table of operators) and 1640 without it (where the
entries for tab, newline and carriage return were not 0) agreed without
exception.

## 4. What is proved

For every value of the constants, from the assumptions that the modules state
(`QueueAssumption`, `PlansAssumption`, `TableAssumption`, `NamesAssumption`,
`PoolAssumption`, `StackAssumption`, `StrayAssumption`, and of the lexer's
constants `LettersAssumption` and `InputsAssumption`):

* `QueueProofs`: `TypeCorrect`, `Refinement`, `NoAliasing`, `MemoryIsReused`. The inductive
  invariant `IInv` says that the array of buckets is a permutation of all
  buckets ever allocated, that the capacity is their number times their size,
  that `length` stays between the position and the capacity, that what is
  waiting was written, and how far length and capacity can have grown. `TypeOK`
  and `CellsDistinct` alone are not inductive: they allow a position beyond the
  length and unwritten cells among the waiting ones. The step lemmas
  `AddStep` and `PullStep` split on growth and rotation; `AddIsPut` and
  `PullIsGet` show that the waiting values change as `FIFO` says.
* `SchedulerProofs`: `TypeCorrect`, `SentinelSafe`, `DrainSafe`,
  `GivesUpSoundly`, `VerdictCorrect`. The inductive invariant adds to
  `TypeOK` where the sentinel is, and an account of the current round: while
  `did_work` is false, every job behind the sentinel was tried in this round and
  found blocked, or was emitted by one that was, and `done` has not changed
  since. That is what makes `StallSound` hold when the sentinel comes round.
  `VerdictSound` needs that every emitted unit, those that were emitted by a
  try that failed included, is waiting, done, or counted as an error. There is one lemma per action.
* `WorkspaceProofs`: `TypeCorrect`, `HandledOnce`, `DrainsRetryable`,
  `SentinelCirculates`, `CallsAreCompiled`, `ClassesStay`, `BeginOnce`, for every
  program, sound or not, every size and reach of the stack, whatever stands
  around the units, and whatever the recursive functions compute within
  `HandlersKeep`. See below.
* `VerdictProofs`: `NothingForgotten` and `CompiledMeansAll`, in the same
  generality: what the verdict "Compiled" says of the program. See below.
* `NamesProofs`: `Lookups`, `Sizes`, `NoAbort`, `Implementation`, `TypeCorrect`.
  The first part is about one table: the probes of a key visit every slot once
  (`ProbeRing`, from facts about remainders), so a search finds the first of the
  slots that are free or hold the key (`FindSlotIs`), a store keeps every other
  key reachable (`StoreReachable`) and changes what is found for its own key
  only (`StoreFinds`). The inductive invariant of the second part adds to
  `TypeOK`, `KeysReachable` and `SizesRight` what a resize under way has done so
  far (the old table is full, the new one holds exactly the keys of the slots
  copied), that table and list of the symbols are inverse, and that tables which
  do not start with one slot always have more. `SizesRight` alone would not
  survive the end of a resize, which replaces the slots but keeps `size`. The
  refinement maps a call with a resize to one step, at its end.
* `PoolProofs`: `PoolStarts`, `PoolAppends`. An item's bucket and slot depend on
  its number alone, and two numbers never have the same ones (`CellsApart`);
  `pool_get` therefore appends to what `pool_to_array` returns, whether it grows
  or not. What that returns is worked out from the loop (`ArrayCells`): a round
  is made exactly if all before it copied a whole bucket, and the rounds made
  write each cell below the length once, from the bucket and slot of its item.
* `LexerProofs`: `TextTiled`, `TextAddressed`, `LexerAdvances`, for every text,
  build and character behind the text. Each of the 14 cases is shown to be
  one of four kinds of step (it makes a token, passes a gap, ends a line, or
  stays), with what it knows of the characters in between; the invariant is
  then kept by each kind. It is `TokensTile` and `AddressesRight` with
  `Bookkeeping`: the position in the line is the distance from the line's
  start, the line's number is the number of lines before it, and tokens and
  lines are pools. Without it a step could put its token on another line than
  the one it stands in. `LexerAdvances` is the safety part
  of `EveryTextEnds`: every round moves on or changes the stage. They are
  theorems of `LexSpec`; the further steps of `Frontend` leave the lexer alone.

`StallSound` is the strongest form of the claim in `main.c:336-338` that is
true; `chain` shows why it has its exception.

### The whole loop

The theorems of `WorkspaceProofs` have the form `Spec /\ []HandlersKeep => ...`.
The hypothesis stands for the recursive functions, which the prover cannot use;
it speaks only of what they return for the job in hand in the state at hand, and
it is checked as an invariant of the runs `compiler` and `compiler_wild`, where
they are those of the code. The rest, every step of handlers, loop and machines,
is proved. The contract has five parts:

* `ParserContract`: a file's nodes are new, and each item is among them;
* `TypecheckerContract`: typing changes nothing that later phases keep in a node,
  and no class that is there; a body is emitted by the try that gives its
  procedure a class;
* `GeneratorContract`: code is made for typed nodes only, and the procedures that
  it pushes have bytecode;
* `ItemsContract`: of a file's nodes the items alone are right below its own, and
  no procedure has a class yet;
* `BodiesContract`: a try that gives a procedure its class emits its body, whether
  it succeeds or not, and a node that was typed without an error has a class.

The inductive invariant `IInv` is `TypeOK` and the properties themselves with what
they need to survive a step:

* `NodesHandledOnce` says nothing about a body that has no job yet. `OpenedFirst`
  does: what has a job or bytecode is not the body of a procedure without a
  class, so the body that a typecheck job emits is neither queued nor compiled,
  however often that job was tried before.
* `InitializersFine` and `CodesDistinct`: an assignment is entered once, with
  bytecode (the assert at `interpreter.c:8`) and a class, and no two nodes share a
  unit. Two entries of one assignment, or of one unit, would begin it twice;
  and a class is what keeps the typechecker from giving it another target.
* `UnitsFine` and `MachineFine`: no unit pushes a procedure that has no bytecode,
  wherever one starts to read it, a word in front of it included (a unit begins
  with an instruction, never with an address), and no stack, waiting or running,
  however far it has outgrown its size, shows one.
  So `BC_CALL` reaches the procedure's bytecode even in programs that jump into
  operands or take an operand for an instruction.
* `VmFine`: a machine is in hand only while its own job is in front.
* `QuietRound` is `SchedulerProofs`' account of a round without its units: as long
  as `did_work` is false, only jobs that may be put back stand behind the
  sentinel. It is what `DrainsOnlyRetryable` becomes when the loop gives up.

Each handler and each instruction has a lemma for its step, and most of them go
through two more general ones, of a job that emits others and of a table that
grows. `ClassesStay` and `BeginOnce` are about steps; the clause on classes is
the typechecker's own in a typecheck job, and the theorem is that nothing else,
from parsing to a machine that writes to a node, breaks it.

`DrainsOnlyRetryable` is proved of the whole loop (`DrainsRetryable`) and checked
in `scheduler`, where more orders of jobs are reached than by real programs.

### The verdict

The loop counts its jobs only to see whether it made progress; nobody checks at
the end that everything was compiled. `NoneForgotten` says that nothing can have
been left out: as long as no error is counted, each item of a parsed file, and
the body of each procedure that has a class, has a job or is done
(`Handled`: it has bytecode, or is a declaration with a class). With the queue
empty at the end that is `CompiledMeansAll`. It is the counterpart of
`NodesHandledOnce`: no node twice, and none not at all.

It is not inductive, for three reasons. A declaration leaves the last phase
without bytecode, so it must be known to have a class by then (`TypedFirst`:
only typed nodes are optimized and get bytecode). A node that a parse job adds must not make
an older one `Wanted`, nor an old node be the parent of a new one (`Rooted`: the
trees are closed). And the drain takes jobs away without doing
them, which is right only because it counts each as an error. The invariant
is `VInv`, the three of them, beside `IInv` of `WorkspaceProofs`.

The proof turns on one lemma for all handlers, `Carried`: if what is newly wanted
is among the jobs that a handler emits, and the node of the job in hand is
then done, put back, or counted as an error, the rest of the queue carries
the invariant over. What is left for each handler is what it emits; for
the typechecker, that a body that became wanted was emitted, by this try or, if
the try is one of several, by the earlier one that gave the procedure its class.

### The machines

The theorems of `StackProofs`, `Balanced`, `RunOnce`, `ValuesMatch`, `Valued` and
`Overflowing`, have the form
`Spec /\ []HandlersKeep /\ []CodeDisciplined /\ []StacksSuffice => ...`. The last
hypothesis says that no word is pushed behind a stack. It cannot be proved, as
nothing bounds how deep a program's calls go, and without it a frame may be lost
(the word at `waiting_on` is cleared). It does not say that the process goes on:
`Overflowing` is about the steps at which it ends. The second hypothesis is again about the unit in hand only, one unit at a time:
its instructions, run on kinds, from its entry. It says nothing of stacks,
frames, other machines, waiting, or of what variables hold. That discipline of
each unit is enough for all machines together, whatever calls whatever, however
deep, and however they are suspended by and resumed after each other, is what is
proved:

* a unit that nobody called leaves an empty stack (`StackBalanced`);
* no two machines are ever at one initializer (`InitializersRunOnce`), and its end
  marks only a variable that it has given a value (`ValuedWhenDone`);
* what a variable holds is what its class says (`ValuesMatchClasses`);
* and nothing but a word pushed behind a stack ends a process that runs a program
  (`OnlyOverflows`): no assert fails, no instruction is read outside of a unit.

None of these is inductive, since the interpreter's state does not say where one
activation ends and the next begins. The invariant `SInv` adds what does:

* `Tracked`: for every machine, in hand or in the queue, there is a sequence of
  *levels*, one per activation of a unit that has not returned. Each has the
  height of the stack below it, its role and a state of its unit's discipline,
  which the words above that height match in number and kind (`Fits`,
  `Executing`). Between two levels stand the arguments, of the kinds that the
  callee's class has, and a frame whose four words lead back to the caller's
  unit, instruction, frame and height (`Linked`). `Call` adds a level,
  `LeaveCall` takes one away and finds its caller where the frame says; the other
  instructions change the last one as `Steps` does.
* `Origins`: no two machines were started with the same unit but the bootstrap,
  and an initializer's machine only once its variable has begun. A machine
  outside of a call is at the unit it was started with, which makes `RunOnce` of
  it. That a unit that has just been queued is nobody's origin needs
  `InitializersFine`, `CodesDistinct` and `BeginOnce` of `WorkspaceProofs`.
* `ValuesFine`, `BodiesFine`, `StartsFine`, `BootFine`: what is in variables is of
  their classes' kinds, and every unit that can be called or started is
  disciplined in that role, also after later jobs have added nodes and
  bytecode (`NodesKept`, `UnitsKept`).

`SInv` was checked by TLC, as an invariant, on programs of `compiler` before it was proved. The
bootstrap's unit is disciplined with `putc` or `main` in it; `putc`'s unit, which
`main.c` writes by hand, is shown to be so, instruction by instruction
(`PutcDisciplined`).

Only model-checked:

* `HandlersKeep`, `CodeDisciplined` and `StacksSuffice` themselves (the latter as
  part of `NeverCrashes`), and whatever else depends on
  the values of the recursive functions: `OrderIndependent`, `GivesUpSoundly`,
  `CrashesExplained`, `Faithful`, `Understood`. `NeverCrashes` is proved as far as
  it is about machines (`Overflowing`); that no typecheck or bytecode job fails
  and no stack overflows depends on the program. That the generator's units are
  disciplined for every well typed syntax tree would be induction over data.
* Liveness: `Terminates`, `NoneStarved`, `EveryTextEnds`. It needs fairness and
  `ENABLED`, and in `Compiler` a measure on programs.

## 5. What is not modelled

* `Frontend` and `Compiler` meet in the terms of `Ast` and are not run as one:
  a text's terms are the programs of the other. Where in an item its syntax error
  is ends in `Parser`: to `Compiler`, an item with one is a `Malformed`, which is
  reported and whose declaration is in its file but never gets a class.
* The value of a literal (so how digits become a number); the text of messages;
  what `syscall` does.
* The bytes of a string beyond comparing, cutting and unescaping them
  (`string.c`, the C strings of `utility.c`), and `free_pool`, `free_table`,
  `free_list`: memory that is freed and not used again. `stack.c` is unused,
  `codegen.c` empty, `debug.c` prints.
* What a word pushed behind a `VmState` does to the memory that it lands in, and
  node addresses that a machine may find in memory around its unit: see
  section 2. A freed signature is either list for list another procedure's, or
  intact, or faults; a mixture of words that is no list is a fault.
* What the parser does with tokens that it reads behind their array when they
  look like ones that it asks for: the model ends in `"undefined"` there.
* Columns of a build in which `OPERATORS` is read before its start are
  covered, other overruns (a character above 127 as a negative index) are not.
* Termination of programs that load each other in a circle: the parser then
  emits READ jobs for ever, and no bound on the state would be faithful.

## 6. Plan

1. Done: queue, loop and whole compiler; symbols and types on their tables;
   pool, lexer and parser; their runs, and proofs about queue, loop, tables,
   pool and lexer, about the loop with its handlers and its verdict, and about the
   machines and their stacks.
2. An abstract specification of initialization ("each initializer once, in
   dependency order") that the machines' waiting implements.
3. Bytecode of nested loops and conditionals as a recursive function, with the
   lemma that a jump stays within its unit, and what a `break` would have to do.
4. The place of a syntax error in `Ast`, so that what `report_errors` prints of
   an item is that of its text.
