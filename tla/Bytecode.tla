------------------------------ MODULE Bytecode ------------------------------
(***************************************************************************)
(* bytecode.c: the instructions of a typed node.  A result r is            *)
(*   r.ok     whether the handler returned 1; if not, its code is dropped  *)
(*   r.crash  whether an assert ended the process                          *)
(*   r.code   what it appended                                             *)
(***************************************************************************)
EXTENDS Typechecker, Instructions

Code(words) == [ok |-> TRUE, crash |-> FALSE, code |-> words]
NotYet == [ok |-> FALSE, crash |-> FALSE, code |-> <<>>]
Assert0 == [ok |-> FALSE, crash |-> TRUE, code |-> <<>>]

(* The code of r and, if there is any, these words. *)
Then(r, words) == IF r.ok THEN Code(r.code \o words) ELSE r

-----------------------------------------------------------------------------

GenIdentifier(ast, p) ==
  LET decl == ast[ast[p].declaration]
  IN  Code(IF decl.argument THEN <<ARG_LOAD, Num(decl.index)>>
                            ELSE <<LOAD, Pointer(ast[p].declaration)>>)

(* Only a number's own class is KIND_NUMERIC. *)
GenLiteral(ast, p) ==
  IF IsLiteralClass(ast[p].class) \/ ast[p].class = String
    THEN Code(<<PUSH, Data>>)
    ELSE Assert0

(* Faulty variant: the body's bytecode is not waited for. *)
GenProcedureEarly(ast, p) == Code(<<PUSH, Pointer(Child(p, 1))>>)

GenProcedure(ast, p) ==
  IF ast[Child(p, 1)].code = -1 THEN NotYet
                                ELSE Code(<<PUSH, Pointer(Child(p, 1))>>)

RECURSIVE Gen(_, _), GenEach(_, _)

(* Nodes in order, up to the first that fails. *)
GenEach(ast, nodes) ==
  IF nodes = <<>> THEN Code(<<>>)
  ELSE LET first == Gen(ast, Head(nodes))
           rest == GenEach(ast, Tail(nodes))
       IN  IF ~first.ok THEN first
           ELSE [rest EXCEPT !.code = first.code \o @]

Elements(ast, p) == [i \in 1 .. ast[p].size |-> Child(p, i)]
LastFirst(nodes) == [i \in DOMAIN nodes |-> nodes[Len(nodes) + 1 - i]]

GenAssignment(ast, p) ==
  Then(Gen(ast, Right(p)), <<STORE, Pointer(ast[p].lhs)>>)

GenCall(ast, p) ==
  Then(GenEach(ast, LastFirst(Elements(ast, Right(p)))),
       <<CALL, Pointer(ast[p].declaration), Num(ast[Right(p)].size)>>)

GenReturn(ast, p) ==
  IF ast[p].right THEN Then(Gen(ast, Right(p)), <<RETURN, Num(1)>>)
                  ELSE Code(<<RETURN, Num(0)>>)

GenConditional(ast, p) ==
  LET cond == Gen(ast, Left(p))
      block == Gen(ast, Child(p, 1))
  IN  IF ~cond.ok THEN cond
      ELSE IF ~block.ok THEN block
      ELSE Code(cond.code \o <<JUMP_ZERO, Num(Len(block.code))>> \o block.code)

(* Faulty variants: one word too far, or backwards. *)
BreakDistanceFar(length) == length + 1
BreakDistanceBack(length) == -length

(* Every BREAK becomes a JUMP over as many words as the block has. *)
BreakDistance(length) == length

RECURSIVE Rewritten(_, _)
Rewritten(code, length) ==
  IF code = <<>> THEN <<>>
  ELSE LET size == SizeOf(Head(code))
       IN  (IF Head(code) = BREAK THEN <<JUMP, Num(BreakDistance(length))>>
                                  ELSE SubSeq(code, 1, size))
           \o Rewritten(SubSeq(code, size + 1, Len(code)), length)

GenLoop(ast, p) ==
  LET block == Gen(ast, Child(p, 1))
      length == Len(block.code)
  IN  IF ~block.ok THEN block
      ELSE Code(Rewritten(block.code, length)
                \o <<JUMP, Num(-(length + SizeOf(JUMP)))>>)

(* bytecode_handle_node *)
Gen(ast, p) ==
  LET kind == ast[p].kind
  IN  IF ast[p].class = NoType THEN NotYet
      ELSE CASE kind = "DECLARATION" -> Code(<<>>)
             [] kind = "ASSIGNMENT" -> GenAssignment(ast, p)
             [] kind = "IDENT" -> GenIdentifier(ast, p)
             [] kind = "LITERAL" -> GenLiteral(ast, p)
             [] kind = "PROCEDURE" -> GenProcedure(ast, p)
             [] kind = "CALL" -> GenCall(ast, p)
             [] kind = "COMPOUND" -> GenEach(ast, Elements(ast, p))
             [] kind = "RETURN" -> GenReturn(ast, p)
             [] kind = "CONDITIONAL" -> GenConditional(ast, p)
             [] kind = "LOOP" -> GenLoop(ast, p)
             [] kind = "BREAK" -> Code(<<BREAK, BREAK>>)
             [] OTHER -> Assert0

(* The unit that a job's node becomes. *)
GenUnit(ast, p) == Then(Gen(ast, p), <<RETURN, Num(0)>>)
=============================================================================
