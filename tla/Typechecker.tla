---------------------------- MODULE Typechecker -----------------------------
(***************************************************************************)
(* typechecker.c.  A handler is an operator from a state s and the node's  *)
(* path p to the state it leaves:                                          *)
(*   s.ast    the nodes                                                    *)
(*   s.ok     what the last handler returned                               *)
(*   s.out    the nodes for which it emitted TYPECHECK jobs, in order      *)
(*   s.crash  whether an assert or a bad access ended the process          *)
(*   s.heap   what a signature that was freed reads as (see TypeCall)      *)
(* A handler may fail after it has changed nodes; what it changed stays,   *)
(* and the job is tried again later on the nodes as they are then.         *)
(***************************************************************************)
EXTENDS Ast

Void == <<"void">>
Byte == <<"u8">>
Integer == <<"s64">>
String == <<"string">>

(* type_find, on the names of the built-in types and their aliases. *)
TypeNamed(name) ==
  CASE name = "void" -> Void
    [] name \in {"bool", "byte", "u8"} -> Byte
    [] name \in {"int", "s64"} -> Integer
    [] name = "string" -> String
    [] OTHER -> NoType

(* A number has a class of its own for every literal, all of one name. *)
LiteralClass(p) == <<"literal", p>>
IsLiteralClass(c) == c # NoType /\ c[1] = "literal"
ClassName(c) == IF IsLiteralClass(c) THEN <<"literal">> ELSE c

PutcClass == ProcClass(<<Byte>>, <<>>)      \* has its lists from the start
MainClass == ProcClass(<<>>, <<>>)          \* created without any lists

-----------------------------------------------------------------------------

Ok(s, result) == [s EXCEPT !.ok = result]
Crash(s) == [s EXCEPT !.crash = TRUE]
Typed(s, p, class) == [s EXCEPT !.ast[p].class = class, !.ok = TRUE]
Flagged(s, p, error) == [s EXCEPT !.ast[p].error = error]
Message(s, p) == [s EXCEPT !.ast[p].error = TRUE, !.ast[p].message = TRUE]

Erroneous(s, p) == s.ast[p].error
Class(s, p) == s.ast[p].class
Children(s, p) == [i \in 1 .. s.ast[p].size |-> Child(p, i)]

TypeType(s, p) ==
  LET class == TypeNamed(s.ast[p].name)
  IN  IF class = NoType THEN Ok(Message(s, p), FALSE) ELSE Typed(s, p, class)

(* Faulty variant: a name whose class is not known yet is an error. *)
TypeIdentifierEager(s, p) ==
  LET decl == FindIdentifier(s.ast, s.ast[p].scope, s.ast[p].name)
  IN  IF decl = NoNode THEN Ok(Message(s, p), FALSE)
      ELSE IF Class(s, decl) = NoType THEN Ok(Message(s, p), TRUE)
      ELSE [Typed(s, p, Class(s, decl)) EXCEPT !.ast[p].declaration = decl]

TypeIdentifier(s, p) ==
  LET decl == FindIdentifier(s.ast, s.ast[p].scope, s.ast[p].name)
      seen == Flagged(s, p, Erroneous(s, decl))
  IN  IF decl = NoNode THEN Ok(Message(s, p), FALSE)
      ELSE IF Class(s, decl) = NoType THEN Ok(seen, FALSE)
      ELSE [Typed(seen, p, Class(s, decl)) EXCEPT !.ast[p].declaration = decl]

TypeLiteral(s, p) ==
  Typed(s, p, IF s.ast[p].lit = "string" THEN String ELSE LiteralClass(p))

RECURSIVE TypeNode(_, _), TypeEach(_, _, _, _)

(* Types nodes in order, all of them even if one fails, and flags their     *)
(* list for every error.  classed: the code reads the class of a node once  *)
(* it and all before it have succeeded.                                     *)
TypeEach(s, nodes, list, classed) ==
  IF nodes = <<>> THEN s
  ELSE LET n == Head(nodes)
           t == TypeNode(s, n)
           bad == classed /\ s.ok /\ t.ok /\ Class(t, n) = NoType
       IN  TypeEach([t EXCEPT !.ok = s.ok /\ t.ok, !.crash = @ \/ bad,
                              !.ast[list].error = @ \/ Erroneous(t, n)],
                    Tail(nodes), list, classed)

AnyErroneous(s, nodes) == \E i \in DOMAIN nodes : Erroneous(s, nodes[i])

TypeDeclaration(s, p) ==
  IF ~s.ast[p].right THEN Ok(Message(s, p), TRUE)
  ELSE LET t == TypeNode(s, Right(p))
           class == Class(t, Right(p))
       IN  [t EXCEPT !.ast[p].class = class,
                     !.ast[p].error = class = NoType,
                     !.ast[p].message = @ /\ class # NoType]

(* Faulty variant: the class of the value replaces any other. *)
TakesClassAlways(s, target) == TRUE

(* Whether the target of an assignment takes the class of the value. *)
TakesClass(s, target) == Class(s, target) = NoType

(* n := v, n : t = v and n = v alike. *)
TypeAssignment(s, p) ==
  LET value == Right(p)
      target == FindIdentifier(s.ast, s.ast[p].scope, s.ast[s.ast[p].lhs].name)
      found == [s EXCEPT !.ast[p].lhs = target]
      v == TypeNode(found, value)
      t == TypeNode(v, target)
      bad == Erroneous(t, value) \/ Erroneous(t, target)
      \* Only an identifier's error is the target's as well.
      settled == /\ Erroneous(t, value) /\ t.ast[value].kind # "IDENT"
      u == [t EXCEPT !.ast[p].error = bad,
                     !.ast[target].error = @ /\ ~settled]
  IN  IF target = NoNode \/ t.crash THEN Crash(found)
      ELSE IF ~v.ok \/ ~t.ok THEN Ok(u, FALSE)
      ELSE IF TakesClass(u, target)
        THEN [u EXCEPT !.ast[target].class = Class(u, value),
                       !.ast[target].error = FALSE,
                       !.ast[target].message = FALSE,
                       !.ast[p].class = Class(u, value),
                       !.ast[p].error = @ /\ Erroneous(u, value),
                       \* "flags &=" on the node drops every other flag.
                       !.ast[p].left = FALSE, !.ast[p].right = FALSE,
                       !.ok = TRUE]
      ELSE IF bad THEN Ok(u, TRUE)
      ELSE IF Class(u, value) = Class(u, target)
        THEN Typed(u, p, Class(u, target))
      ELSE Ok(Message(u, p), TRUE)

(* The body is emitted as a job of its own, once the signature is known. *)
TypeProcedure(s, p) ==
  LET params == Children(s, Left(p))
      returns == Children(s, Right(p))
      a == TypeEach(Ok(s, TRUE), params, Left(p), TRUE)
      r == TypeEach(a, returns, Right(p), TRUE)
      t == Flagged(r, p, AnyErroneous(r, params) \/ AnyErroneous(r, returns))
      Names(nodes) == [i \in DOMAIN nodes |-> ClassName(Class(t, nodes[i]))]
  IN  IF t.crash \/ ~t.ok THEN t
      ELSE [Typed(t, p, ProcClass(Names(params), Names(returns)))
              EXCEPT !.out = Append(@, Child(p, 1))]

(* A procedure type's lists of classes are freed as soon as it is created   *)
(* (typechecker.c:338), so what a call reads of any but putc's is up to the *)
(* allocator: the old contents, the lists of the procedure that was given   *)
(* the memory since, or no list at all.                                     *)
Intact == [read |-> "intact"]
Lists(from, to) == [read |-> "lists", from |-> from, to |-> to]
Fault == [read |-> "fault"]

TypeCall(s, p) ==
  LET decl == FindIdentifier(s.ast, s.ast[p].scope, s.ast[p].name)
      class == Class(s, decl)
      args == Children(s, Right(p))
      a == TypeEach(Ok(s, TRUE), args, Right(p), FALSE)
      t == Flagged(a, p, Erroneous(a, Right(p)))
      dangling == class # PutcClass
      lost == dangling /\ s.heap.read = "lists"
      from == IF lost THEN s.heap.from ELSE Parameters(class)
      to == IF lost THEN s.heap.to ELSE Results(class)
      wrong == {i \in DOMAIN args : Class(t, args[i]) # from[i]}
      first == args[CHOOSE i \in wrong : \A j \in wrong : i <= j]
  IN  IF decl = NoNode THEN Ok(Message(s, p), FALSE)
      ELSE IF class = NoType THEN Ok(Message(s, p), FALSE)
      ELSE IF ~IsProcClass(class) \/ class = MainClass THEN Crash(s)
      ELSE IF t.crash \/ ~t.ok THEN t
      ELSE IF dangling /\ s.heap = Fault THEN Crash(t)
      ELSE IF Len(args) # Len(from)
        THEN Ok(Message(t, p), FALSE)
      ELSE IF wrong # {}
        THEN Ok(Message(Flagged(Flagged(t, p, TRUE), Right(p), TRUE), first), FALSE)
      ELSE [Typed(t, p, IF to = <<>> THEN Void ELSE to[1])
              EXCEPT !.ast[p].declaration = decl]

TypeReturn(s, p) ==
  IF ~s.ast[p].right THEN Typed(s, p, Void)
  ELSE LET t == TypeNode(s, Right(p))
       IN  IF t.ok THEN Typed(t, p, Class(t, Right(p))) ELSE t

TypeCompound(s, p) ==
  LET t == TypeEach(Ok(s, TRUE), Children(s, p), p, FALSE)
  IN  IF t.ok THEN Typed(t, p, Void) ELSE t

(* if and loop take their class even if their body has failed. *)
TypeBlock(s, p) == LET t == TypeNode(s, Child(p, 1))
                   IN  [t EXCEPT !.ast[p].class = Void]

TypeConditional(s, p) ==
  LET c == TypeNode(s, Left(p))
  IN  IF c.crash \/ ~c.ok THEN c
      ELSE IF Class(c, Left(p)) # Byte
        THEN Ok(Message(Flagged(c, p, TRUE), Left(p)), FALSE)
      ELSE TypeBlock(c, p)

(* Faulty variant: every node is typed at every try. *)
SettledNever(s, p) == FALSE

(* A node with a class is not looked at again. *)
Settled(s, p) == Class(s, p) # NoType

(* typecheck_node *)
TypeNode(s, p) ==
  LET fresh == Flagged(s, p, FALSE)
      kind == s.ast[p].kind
  IN  IF s.crash THEN s
      ELSE IF Settled(s, p) THEN Ok(fresh, TRUE)
      ELSE CASE kind = "TYPE" -> TypeType(fresh, p)
             [] kind = "DECLARATION" -> TypeDeclaration(fresh, p)
             [] kind = "ASSIGNMENT" -> TypeAssignment(fresh, p)
             [] kind = "IDENT" -> TypeIdentifier(fresh, p)
             [] kind = "LITERAL" -> TypeLiteral(fresh, p)
             [] kind = "PROCEDURE" -> TypeProcedure(fresh, p)
             [] kind = "CALL" -> TypeCall(fresh, p)
             [] kind = "COMPOUND" -> TypeCompound(fresh, p)
             [] kind = "RETURN" -> TypeReturn(fresh, p)
             [] kind = "CONDITIONAL" -> TypeConditional(fresh, p)
             [] kind = "LOOP" -> TypeBlock(fresh, p)
             [] kind = "BREAK" -> Typed(fresh, p, Void)

(* One run of perform_typecheck_job's typecheck_node on the job's node. *)
Typecheck(ast, p, heap) ==
  TypeNode([ast |-> ast, ok |-> TRUE, out |-> <<>>, crash |-> FALSE,
            heap |-> heap], p)
=============================================================================
