------------------------------- MODULE Parser -------------------------------
(***************************************************************************)
(* parser.c: from tokens to the terms of Ast, one action per top-level      *)
(* item.  A token is what the parser compares: type, source and literal     *)
(* type.  Addresses are left to Lexer, scopes to Ast.                       *)
(*                                                                         *)
(* A parsing operator takes a state s: pos, the token that is next;         *)
(* failed: an assert failed or an address was not mapped; beyond: a token   *)
(* behind the array was read.  It returns such a state with t, the term,    *)
(* and bad, the flag NODE_CONTAINS_ERROR.                                   *)
(*                                                                         *)
(* Most operators read the next token without looking at length.  What is   *)
(* behind the array is either bytes that are no token the parser asks for,  *)
(* and it goes on, or anything, and nothing is said of what it does then.   *)
(***************************************************************************)
EXTENDS Ast, SequencesExt

VARIABLES stream, next, output, progress

parser == <<stream, next, output, progress>>

Spelling(chars) == FoldLeft(LAMBDA word, c : word \o c, "", chars)

NoToken == [type |-> "none", source |-> "", literal |-> "none",
            is_well_formed |-> TRUE, chars |-> <<>>]

TokenAt(i) == IF i <= Len(stream) THEN stream[i] ELSE NoToken

-----------------------------------------------------------------------------
(* Peeking and accepting. *)

Peek(s, type) == TokenAt(s.pos).type = type

PeekOp(s, op) ==
  TokenAt(s.pos).type \in {"syntax", "operator"} /\ TokenAt(s.pos).source = op

PeekWord(s, type, word) == Peek(s, type) /\ TokenAt(s.pos).source = word

MoveTo(s, i) ==
  IF s.failed THEN s ELSE [s EXCEPT !.pos = i, !.beyond = @ \/ i > Len(stream)]

Accept(s) == MoveTo(s, s.pos + 1)

AcceptIf(cond, s) == IF cond THEN Accept(s) ELSE s

(* A process that has failed sees no more tokens. *)
Fail(s) == [s EXCEPT !.failed = TRUE, !.pos = Len(stream) + 1]

Yields(s, t, bad) ==
  [pos |-> s.pos, failed |-> s.failed, beyond |-> s.beyond, t |-> t, bad |-> bad]

RECURSIVE SkipNewlines(_)
SkipNewlines(s) == IF PeekOp(s, "\n") THEN SkipNewlines(Accept(s)) ELSE s

(* A leaf of a term where the code puts an error into a node. *)
Missing(what) == [k |-> "ERROR", name |-> what]

-----------------------------------------------------------------------------
(* Lookahead.  The parenthesis that closes one opened before token i; or 0. *)

Count(op, i, j) ==
  Cardinality({n \in i .. j : PeekOp([pos |-> n], op)})

Closing(i) ==
  LET ends == {j \in i .. Len(stream) :
                 PeekOp([pos |-> j], ")") /\ Count(")", i, j) > Count("(", i, j)}
  IN  IF ends = {} THEN 0 ELSE Min(ends)

(* test_procedure: skim_tuple, and an arrow behind the tuple. *)
TupleEnd(s) == IF PeekOp(s, "(") THEN Closing(s.pos + 1) ELSE 0
IsProcedure(s) == TupleEnd(s) # 0 /\ PeekOp([pos |-> TupleEnd(s) + 1], "=>")

(* Faulty variant: a type is not looked behind. *)
IsAssignmentUntyped(s) ==
  /\ Peek(s, "identifier")
  /\ PeekOp([pos |-> s.pos + 1], ":=") \/ PeekOp([pos |-> s.pos + 1], "=")

IsAssignment(s) ==
  /\ Peek(s, "identifier")
  /\ \/ PeekOp([pos |-> s.pos + 1], ":=")
     \/ PeekOp([pos |-> s.pos + 1], "=")
     \/ /\ PeekOp([pos |-> s.pos + 1], ":")
        /\ Peek([pos |-> s.pos + 2], "identifier")
        /\ PeekOp([pos |-> s.pos + 3], "=")

IsDeclaration(s) ==
  /\ Peek(s, "identifier")
  /\ PeekOp([pos |-> s.pos + 1], ":") \/ PeekOp([pos |-> s.pos + 1], ":=")

-----------------------------------------------------------------------------
(* The grammar. *)

Opener(kind) == IF kind = "block" THEN "{" ELSE "("
Closer(kind) == IF kind = "block" THEN "}" ELSE ")"
Separator(kind) == IF kind = "block" THEN "\n" ELSE ","

(* more, in the calls of _parse_list. *)
More(s, kind) ==
  CASE kind = "types" -> Peek(s, "identifier")
    [] kind = "parameters" -> IsDeclaration(s)
    [] OTHER -> ~PeekOp(s, Closer(kind))

(* The functions of the grammar call each other through Parse alone: what   *)
(* names a production, or the kind of a list.                               *)
RECURSIVE Parse(_, _), Elements(_, _)

Type(s) ==
  IF Peek(s, "identifier")
    THEN Yields(Accept(s), TypeName(TokenAt(s.pos).source), FALSE)
    ELSE Yields(s, Missing("type"), TRUE)

Declaration(s) ==
  LET name == TokenAt(s.pos).source
      named == Accept(s)
      type == Type(Accept(named))
  IN  IF PeekOp(named, ":")
        THEN Yields(type, Decl(name, type.t.name), type.bad)
      ELSE IF PeekOp(named, ":=") THEN Yields(named, Untyped(name), FALSE)
      ELSE Yields(Fail(named), Untyped(name), FALSE)

Element(s, kind) ==
  CASE kind = "types" -> Type(s)
    [] kind = "parameters" -> IF IsAssignment(s) THEN Parse(s, "assignment") ELSE Declaration(s)
    [] kind = "arguments" -> Parse(s, "expression")
    [] kind = "block" -> Parse(s, "statement")

(* The loop of _parse_list.  t is the sequence of the elements. *)
Joined(element, rest) ==
  Yields(rest, <<element.t>> \o rest.t, element.bad \/ rest.bad)

Continued(element, behindIt, kind) ==
  IF PeekOp(behindIt, Separator(kind))
    THEN Joined(element, Elements(SkipNewlines(Accept(behindIt)), kind))
    ELSE Yields(behindIt, <<element.t>>, element.bad)

ElementAndMore(element, kind) ==
  Continued(element, IF kind = "block" THEN element ELSE SkipNewlines(element), kind)

Elements(s, kind) ==
  IF s.failed \/ s.pos > Len(stream) \/ ~More(s, kind) THEN Yields(s, <<>>, FALSE)
  ELSE ElementAndMore(Element(s, kind), kind)

(* The recovery of _parse_list counts parentheses, in a block as well. *)
Recovered(s) ==
  LET j == Closing(s.pos)
  IN  Yields(MoveTo(s, IF j = 0 THEN Len(stream) + 1 ELSE j + 1),
             <<Missing("close")>>, TRUE)

List(s, kind) ==
  LET opened == SkipNewlines(Accept(s))
      elements == Elements(opened, kind)
  IN  IF ~PeekOp(s, Opener(kind)) THEN Yields(Fail(s), <<>>, FALSE)
      ELSE IF PeekOp(elements, Closer(kind))
        THEN Yields(Accept(elements), elements.t, elements.bad)
      ELSE Recovered(elements)

Unclosed(list) == list.t = <<Missing("close")>>

-----------------------------------------------------------------------------
Literal(s) ==
  LET token == TokenAt(s.pos)
      t == IF token.literal = "string" THEN Text ELSE Number
  IN  IF token.is_well_formed THEN Yields(Accept(s), t, FALSE)
      ELSE Yields(Accept(s), Missing("quote"), TRUE)

Call(s) ==
  LET arguments == Parse(Accept(s), "arguments")
  IN  Yields(arguments, CallTo(TokenAt(s.pos).source, arguments.t), arguments.bad)

(* The result types: a tuple, none, or one without parentheses. *)
ResultList(s) ==
  IF PeekOp(s, "(") THEN Parse(s, "types")
  ELSE IF PeekOp(s, "{") THEN Yields(s, <<>>, FALSE)
  ELSE IF Peek(s, "identifier") THEN Yields(Accept(s), <<Type(s).t>>, FALSE)
  ELSE Yields(Fail(s), <<>>, FALSE)

(* Faulty variant: errors in the body stay there. *)
BubbledHeading(parameters, results, body) == parameters.bad \/ results.bad

Bubbled(parameters, results, body) == parameters.bad \/ results.bad \/ body.bad

Procedure(s) ==
  LET parameters == Parse(s, "parameters")
      results == ResultList(Accept(parameters))
      body == Parse(results, "block")
  IN  IF ~PeekOp(parameters, "=>") THEN Yields(Fail(parameters), Missing("=>"), FALSE)
      ELSE Yields(body,
                  [k |-> "PROCEDURE", params |-> parameters.t, returns |-> results.t,
                   body |-> body.t],
                  Bubbled(parameters, results, body))

(* unescape_string_literal: a backslash and what follows it are one         *)
(* character, or none if the code is not known.  chars is the source.       *)
Escapes ==
  "t" :> "\t" @@ "n" :> "\n" @@ "f" :> "\f" @@ "r" :> "\r" @@ "\"" :> "\"" @@ "\\" :> "\\"
  @@ [c \in {"0", "a", "b", "v", "e"} |-> "\\" \o c]

RECURSIVE Unescaped(_, _)
Unescaped(chars, i) ==
  IF i >= Len(chars) THEN <<>>
  ELSE IF chars[i] # "\\" THEN <<chars[i]>> \o Unescaped(chars, i + 1)
  ELSE (IF chars[i + 1] \in DOMAIN Escapes THEN <<Escapes[chars[i + 1]]>> ELSE <<>>)
       \o Unescaped(chars, i + 2)

(* Its asserts hold, and its loop over length - 2 characters ends. *)
CanUnescape(token) ==
  /\ token.literal = "string" /\ Len(token.chars) > 1
  /\ token.chars[Len(token.chars)] = "\""

Content(token) == Unescaped(token.chars, 2)

(* @char.  Any literal passes the test of its argument's flags. *)
Char(s) ==
  LET argument == TokenAt(SkipNewlines(Accept(Accept(s))).pos)
      arguments == Parse(Accept(s), "arguments")
      wrong == Yields(arguments, Missing("char"), TRUE)
  IN  CASE ~PeekOp(Accept(s), "(") -> Yields(Accept(s), Missing("char"), TRUE)
        [] Unclosed(arguments) \/ Len(arguments.t) # 1 -> wrong
        [] argument.type # "literal" /\ arguments.t[1] # CharOf -> wrong
        [] ~CanUnescape(argument) -> Yields(Fail(arguments), wrong.t, TRUE)
        [] Len(Content(argument)) # 1 -> wrong
        [] OTHER -> Yields(arguments, CharOf, FALSE)

Expression(s) ==
  CASE Peek(s, "literal") -> Literal(s)
    [] Peek(s, "identifier") ->
         IF PeekOp(Accept(s), "(") THEN Call(s)
         ELSE Yields(Accept(s), Ident(TokenAt(s.pos).source), FALSE)
    [] IsProcedure(s) -> Procedure(s)
    [] PeekWord(s, "directive", "@char") -> Char(s)
    [] OTHER ->
         Yields([s EXCEPT !.beyond = @ \/ TupleEnd(s) = Len(stream)],
                Missing("expression"), TRUE)

Assignment(s) ==
  LET left == IF IsDeclaration(s) THEN Declaration(s) ELSE Parse(s, "expression")
      valued == PeekOp(left, "=") \/ (IsDeclaration(s) /\ PeekOp(left, ":="))
      value == Parse(AcceptIf(valued, left), "expression")
  IN  Yields(value, Assigning(left.t, value.t), left.bad \/ value.bad)

Return(s) ==
  LET value == Parse(Accept(s), "expression")
  IN  IF PeekOp(Accept(s), "\n") THEN Yields(Accept(s), ReturningVoid, FALSE)
      ELSE Yields(value, Returning(value.t), value.bad)

Conditional(s) ==
  LET cond == Parse(Accept(s), "expression")
      branch == Parse(cond, "block")
  IN  Yields(branch, If(cond.t, branch.t), cond.bad \/ branch.bad)

LoopBlock(s) ==
  LET block == Parse(Accept(s), "block")
  IN  Yields(block, Loop(block.t), block.bad)

Postfix(s) ==
  LET branch == Parse(s, "expression")
      test == Parse(Accept(branch), "expression")
  IN  IF PeekWord(branch, "keyword", "if")
        THEN Yields(test, PostfixIf(test.t, branch.t), test.bad \/ branch.bad)
        ELSE branch

Statement(s) ==
  CASE PeekOp(s, "\n") -> Yields(Fail(s), Missing("statement"), FALSE)
    [] IsAssignment(s) -> Parse(s, "assignment")
    [] IsDeclaration(s) -> Declaration(s)
    [] PeekWord(s, "keyword", "return") -> Return(s)
    [] PeekWord(s, "keyword", "if") -> Conditional(s)
    [] PeekWord(s, "keyword", "loop") -> LoopBlock(s)
    [] PeekWord(s, "keyword", "break") -> Yields(Accept(s), Break, FALSE)
    [] OTHER -> Postfix(s)

Parse(s, what) ==
  CASE what = "expression" -> Expression(s)
    [] what = "assignment" -> Assignment(s)
    [] what = "statement" -> Statement(s)
    [] OTHER -> List(s, what)

-----------------------------------------------------------------------------
(* The top level: what becomes of an item is a job, or nothing. *)

Emit(s, job, t) ==
  [pos |-> s.pos, failed |-> s.failed, beyond |-> s.beyond, job |-> job, t |-> t]

(* parse_top_level_directive.  Arguments with an error of their own (no     *)
(* closing parenthesis) are forgotten; otherwise the first is unescaped,    *)
(* whatever it is.                                                          *)
TopLevelLoad(s) ==
  LET arguments == Parse(Accept(s), "arguments")
      file == TokenAt(SkipNewlines(Accept(Accept(s))).pos)
  IN  IF arguments.failed \/ Unclosed(arguments) THEN Emit(arguments, "NONE", Missing("close"))
      ELSE IF ~CanUnescape(file) THEN Emit(Fail(arguments), "NONE", Missing("file"))
      ELSE Emit(arguments, "READ", Load(Spelling(Content(file))))

NextNewline(i) ==
  LET ends == {j \in i .. Len(stream) : PeekOp([pos |-> j], "\n")}
  IN  IF ends = {} THEN Len(stream) + 1 ELSE Min(ends)

(* What follows an item: the end of its line; else an error is sought past, *)
(* and anything else becomes one.  A load has no node to look at.           *)
EndItem(item, bad) ==
  LET end == NextNewline(item.pos)
  IN  IF PeekOp(item, "\n") THEN [item EXCEPT !.pos = @ + 1]
      ELSE IF item.job # "TYPECHECK" /\ ~bad THEN Fail(item)
      ELSE IF bad THEN [item EXCEPT !.pos = end]
      ELSE IF end > Len(stream) THEN [Fail(item) EXCEPT !.beyond = TRUE]
      ELSE [item EXCEPT !.pos = end, !.job = "ABORT", !.t = Missing("end")]

TopLevel(s) ==
  LET node == IF IsAssignment(s) THEN Parse(s, "assignment") ELSE Declaration(s)
  IN  IF IsAssignment(s) \/ IsDeclaration(s)
        THEN EndItem(Emit(node, IF node.bad THEN "ABORT" ELSE "TYPECHECK", node.t), node.bad)
      ELSE IF PeekWord(s, "directive", "@load") THEN EndItem(TopLevelLoad(s), FALSE)
      ELSE Emit(Fail([s EXCEPT !.beyond = Peek(s, "identifier") /\ s.pos = Len(stream)]),
                "NONE", Missing("item"))

-----------------------------------------------------------------------------
(* perform_parse_job, an item per step. *)

ParseInit ==
  /\ stream = <<>> /\ next = 1 /\ output = <<>>
  /\ progress = "parsing"

Parsing == progress = "parsing" /\ next <= Len(stream)

SkipNewline ==
  /\ Parsing /\ PeekOp([pos |-> next], "\n")
  /\ next' = next + 1
  /\ UNCHANGED <<stream, output, progress>>

NextItem == TopLevel([pos |-> next, failed |-> FALSE, beyond |-> FALSE])

Ends(how) == progress' = how /\ UNCHANGED <<stream, next, output>>

ParseItem ==
  /\ Parsing /\ ~PeekOp([pos |-> next], "\n")
  /\ \E item \in {NextItem} :
       \/ item.beyond /\ Ends("undefined")
       \/ item.failed /\ Ends("crashed")
       \/ /\ ~item.failed
          /\ next' = item.pos
          /\ output' = Append(output, [job |-> item.job, t |-> item.t,
                                       first |-> next, last |-> item.pos - 1])
          /\ UNCHANGED <<stream, progress>>

EndOfTokens ==
  /\ progress = "parsing" /\ next > Len(stream)
  /\ Ends("parsed")

ParseStep == SkipNewline \/ ParseItem \/ EndOfTokens
=============================================================================
