------------------------------- MODULE Nodes --------------------------------
(***************************************************************************)
(* The AstNode of ast.h, as far as the phases after the parser look at it. *)
(* A node is named by its path: Left(p), Right(p) and Child(p, i) are the  *)
(* lhs, rhs and body[i - 1] of p.  A table of nodes, path -> record, also  *)
(* holds the scopes, in the node that opens each.                          *)
(***************************************************************************)
EXTENDS Integers, Sequences

Left(p) == Append(p, -1)
Right(p) == Append(p, -2)
Child(p, i) == Append(p, i)
Parent(p) == SubSeq(p, 1, Len(p) - 1)

Global == <<>>              \* where ws.global_scope is kept
Putc == <<-3>>              \* the declaration of the builtin putc
PutcCode == <<-4>>          \* its procedure expression
NoNode == <<-5>>            \* NULL

NoType == <<>>              \* typeclass == NULL
NoName == "-"               \* a node without an identifier

(* Machine words: a number, a node's address, or the value of a literal;    *)
(* and what is read where nothing was written.                              *)
Num(n) == <<"num", n>>
Pointer(p) == <<"node", p>>
Data == <<"data">>
Junk == <<"junk">>
Null == Num(0)

Words == ({"num"} \X Int) \cup ({"node"} \X Seq(Int)) \cup {Data, Junk}

-----------------------------------------------------------------------------

(* init_node.  left, right: the flags NODE_CONTAINS_LHS and                 *)
(* NODE_CONTAINS_RHS; size: body_length; message: error # NULL; index: an   *)
(* argument's int_value; code: bytecode_id; value: pointer_value.           *)
Node(kind) ==
  [kind |-> kind, name |-> NoName, lit |-> "-", scope |-> NoNode,
   decls |-> <<>>, size |-> 0, left |-> FALSE, right |-> FALSE,
   argument |-> FALSE, index |-> 0,
   lhs |-> NoNode, declaration |-> NoNode, class |-> NoType,
   error |-> FALSE, message |-> FALSE, code |-> -1,
   initializing |-> FALSE, initialized |-> FALSE, value |-> Null]

NodeFields == DOMAIN Node("FILE")

(* The class "(from) => (to)" of a procedure. *)
ProcClass(from, to) == <<"proc", from, to>>
IsProcClass(c) == c # NoType /\ c[1] = "proc"
Parameters(c) == c[2]
Results(c) == c[3]

(* populate_builtins: the global scope and putc, "(u8) => ()". *)
Builtins ==
  [p \in {Global, Putc, PutcCode} |->
     CASE p = Global -> [Node("GLOBAL") EXCEPT !.decls = <<Putc>>]
       [] p = Putc ->
            [Node("DECLARATION") EXCEPT
               !.name = "putc", !.class = ProcClass(<< <<"u8">> >>, <<>>),
               !.initialized = TRUE, !.value = Pointer(PutcCode)]
       [] p = PutcCode -> [Node("PROCEDURE") EXCEPT !.code = 1]]

(* A table of nodes with more nodes. *)
WithNodes(table, nodes) ==
  [p \in DOMAIN table \cup DOMAIN nodes |->
     IF p \in DOMAIN nodes THEN nodes[p] ELSE table[p]]
=============================================================================
