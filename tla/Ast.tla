-------------------------------- MODULE Ast ---------------------------------
(***************************************************************************)
(* The nodes that parser.c leaves behind for a file.  A source file is a   *)
(* sequence of terms, one per top-level item, built with the operators     *)
(* below; Build turns a term into nodes.                                   *)
(***************************************************************************)
EXTENDS Nodes, TLC

(* The syntax. *)

Number == [k |-> "LITERAL", lit |-> "number"]
Text == [k |-> "LITERAL", lit |-> "string"]
CharOf == [k |-> "LITERAL", lit |-> "char"]            \* @char("c")
Ident(n) == [k |-> "IDENT", name |-> n]
CallTo(n, args) == [k |-> "CALL", name |-> n, args |-> args]
TypeName(t) == [k |-> "TYPE", name |-> t]
Proc(params, returns, body) ==
  [k |-> "PROCEDURE", params |-> params,
   returns |-> [i \in DOMAIN returns |-> TypeName(returns[i])], body |-> body]

Decl(n, t) == [k |-> "DECLARATION", name |-> n, type |-> t]
Untyped(n) == [k |-> "DECLARATION", name |-> n, type |-> NoName]
Assigning(lhs, value) == [k |-> "ASSIGNMENT", lhs |-> lhs, value |-> value]
Def(n, value) == Assigning(Untyped(n), value)          \* n := value
DefAs(n, t, value) == Assigning(Decl(n, t), value)     \* n : t = value
Set(n, value) == Assigning(Ident(n), value)            \* n = value
Returning(value) == [k |-> "RETURN", values |-> <<value>>]
ReturningVoid == [k |-> "RETURN", values |-> <<>>]
If(cond, body) == [k |-> "CONDITIONAL", cond |-> cond, body |-> body]
PostfixIf(cond, t) == [k |-> "POSTFIX", cond |-> cond, body |-> <<t>>]
Loop(body) == [k |-> "LOOP", body |-> body]
Break == [k |-> "BREAK"]
Malformed(n) == [k |-> "RECOVERY", name |-> n]         \* n := 1 2
Load(file) == [k |-> "LOAD", file |-> file]            \* @load("file")

-----------------------------------------------------------------------------
(* The nodes. *)

(* The declarations that a list of statements puts into its scope. *)
RECURSIVE Declared(_, _, _)
Declared(terms, p, i) ==
  IF i > Len(terms) THEN <<>>
  ELSE (CASE terms[i].k = "DECLARATION" -> <<Child(p, i)>>
          [] \/ terms[i].k = "ASSIGNMENT" /\ terms[i].lhs.k = "DECLARATION"
             \/ terms[i].k = "RECOVERY" -> <<Left(Child(p, i))>>
          [] OTHER -> <<>>)
       \o Declared(terms, p, i + 1)

RECURSIVE Build(_, _, _), BuildAll(_, _, _, _)

(* The nodes of a term at path p, in a scope.  First those of a list: *)
ListOf(terms, p, scope) ==
  p :> [Node("COMPOUND") EXCEPT !.size = Len(terms)] @@ BuildAll(terms, p, scope, 1)

(* The scope of a block is kept in the node that opens it. *)
BuildConditional(t, p, scope) ==
  p :> [Node("CONDITIONAL") EXCEPT !.left = TRUE, !.size = 1, !.scope = scope,
                                   !.decls = Declared(t.body, Child(p, 1), 1)]
  @@ Build(t.cond, Left(p), scope)
  @@ ListOf(t.body, Child(p, 1), p)

(* No block: the body is the expression before the if. *)
BuildPostfix(t, p, scope) ==
  p :> [Node("CONDITIONAL") EXCEPT !.left = TRUE, !.size = 1]
  @@ Build(t.cond, Left(p), scope)
  @@ Build(t.body[1], Child(p, 1), scope)

BuildLoop(t, p, scope) ==
  p :> [Node("LOOP") EXCEPT !.size = 1, !.scope = scope,
                            !.decls = Declared(t.body, Child(p, 1), 1)]
  @@ ListOf(t.body, Child(p, 1), p)

(* One scope for the arguments and the body. *)
BuildProcedure(t, p, scope) ==
  p :> [Node("PROCEDURE") EXCEPT
          !.left = TRUE, !.right = TRUE, !.size = 1, !.scope = scope,
          !.decls = Declared(t.params, Left(p), 1)
                    \o Declared(t.body, Child(p, 1), 1)]
  @@ ListOf(t.params, Left(p), p)
  @@ ListOf(t.returns, Right(p), p)
  @@ ListOf(t.body, Child(p, 1), p)

BuildDeclaration(t, p, scope) ==
  IF t.type = NoName
    THEN p :> [Node("DECLARATION") EXCEPT !.name = t.name]
    ELSE p :> [Node("DECLARATION") EXCEPT !.name = t.name, !.right = TRUE]
         @@ Build(TypeName(t.type), Right(p), scope)

BuildReturn(t, p, scope) ==
  p :> [Node("RETURN") EXCEPT !.right = t.values # <<>>]
  @@ (IF t.values = <<>> THEN <<>> ELSE Build(t.values[1], Right(p), scope))

BuildAssignment(t, p, scope) ==
  p :> [Node("ASSIGNMENT") EXCEPT !.scope = scope, !.lhs = Left(p),
                                  !.left = TRUE, !.right = TRUE]
  @@ Build(t.lhs, Left(p), scope) @@ Build(t.value, Right(p), scope)

(* parse_expression_node, and what a call needs of parse_expression_tuple. *)
BuildExpression(t, p, scope) ==
  CASE t.k = "LITERAL" ->
         p :> [Node("LITERAL") EXCEPT
                 !.lit = t.lit,
                 !.class = IF t.lit = "char" THEN <<"u8">> ELSE NoType]
    [] t.k = "IDENT" ->
         p :> [Node("IDENT") EXCEPT !.name = t.name, !.scope = scope]
    [] t.k = "CALL" ->
         p :> [Node("CALL") EXCEPT !.name = t.name, !.scope = scope, !.right = TRUE]
         @@ ListOf(t.args, Right(p), scope)
    [] t.k = "PROCEDURE" -> BuildProcedure(t, p, scope)

(* A syntax error after or within a declaration of t.name, which is in its  *)
(* scope all the same.                                                      *)
BuildRecovery(t, p) ==
  p :> [Node("RECOVERY") EXCEPT !.left = TRUE, !.error = TRUE, !.message = TRUE]
  @@ Left(p) :> [Node("DECLARATION") EXCEPT !.name = t.name]

(* parse_statement_node, with the top-level items and the types. *)
Build(t, p, scope) ==
  CASE t.k = "ASSIGNMENT" -> BuildAssignment(t, p, scope)
    [] t.k = "DECLARATION" -> BuildDeclaration(t, p, scope)
    [] t.k = "RETURN" -> BuildReturn(t, p, scope)
    [] t.k = "CONDITIONAL" -> BuildConditional(t, p, scope)
    [] t.k = "POSTFIX" -> BuildPostfix(t, p, scope)
    [] t.k = "LOOP" -> BuildLoop(t, p, scope)
    [] t.k = "BREAK" -> p :> Node("BREAK")
    [] t.k = "TYPE" -> p :> [Node("TYPE") EXCEPT !.name = t.name]
    [] t.k = "RECOVERY" -> BuildRecovery(t, p)
    [] OTHER -> BuildExpression(t, p, scope)

(* _parse_list: the elements of a list, from the i-th on. *)
BuildAll(ts, p, scope, i) ==
  IF i > Len(ts) THEN <<>>
  ELSE Build(ts[i], Child(p, i), scope) @@ BuildAll(ts, p, scope, i + 1)

(* An argument's flag and index go to the element of the list itself: to    *)
(* the assignment, not to its declaration, if it has a default value.       *)
MarkArguments(ast) ==
  [p \in DOMAIN ast |->
     IF /\ Len(p) > 1 /\ p[Len(p)] > 0 /\ p[Len(p) - 1] = -1
        /\ ast[SubSeq(p, 1, Len(p) - 2)].kind = "PROCEDURE"
     THEN [ast[p] EXCEPT !.argument = TRUE, !.index = p[Len(p)] - 1]
     ELSE ast[p]]

(* perform_parse_job: the nodes of the f-th file read, under path <<f>>,    *)
(* whose own node is the file's scope.                                      *)
ParseFile(terms, f) ==
  LET items == SelectSeq(terms, LAMBDA t : t.k # "LOAD")
  IN  MarkArguments(
        <<f>> :> [Node("FILE") EXCEPT !.scope = Global,
                                      !.decls = Declared(items, <<f>>, 1)]
        @@ BuildAll(items, <<f>>, <<f>>, 1))

(* _find_identifier: the first declaration of that name in the scope, else  *)
(* in the scopes around it.                                                 *)
RECURSIVE FindIdentifier(_, _, _)
FindIdentifier(ast, scope, name) ==
  LET found == SelectSeq(ast[scope].decls, LAMBDA d : ast[d].name = name)
  IN  IF found # <<>> THEN Head(found)
      ELSE IF scope = Global THEN NoNode
      ELSE FindIdentifier(ast, ast[scope].scope, name)
=============================================================================
