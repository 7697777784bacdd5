---------------------------- MODULE Instructions -----------------------------
(***************************************************************************)
(* What bytecode.h and interpreter.c agree on: opcodes, and the two units  *)
(* that are there before anything is compiled.  A unit is a sequence of    *)
(* words, an opcode and its operands; jumps count words from the end of    *)
(* the jump.                                                               *)
(***************************************************************************)
EXTENDS Nodes

RETURN == Num(0)
LOAD == Num(1)
STORE == Num(2)
ARG_LOAD == Num(3)
ARG_ADDR == Num(4)
PUSH == Num(5)
CALL == Num(6)
SYSCALL == Num(7)
JUMP == Num(8)
JUMP_ZERO == Num(9)
BREAK == Num(10)

(* BytecodeSizes *)
SizeOf(op) == IF op = CALL THEN 3 ELSE 2

(* What populate_builtins puts at 0 and 1: the call of main, whose address *)
(* is filled in later, and putc.                                           *)
Bootstrap == <<CALL, Null, Num(0), RETURN, Num(0)>>
PutcUnit == <<PUSH, Data, ARG_ADDR, Num(0), PUSH, Data, PUSH, Data,
              SYSCALL, Num(4), RETURN, Num(0)>>
=============================================================================
