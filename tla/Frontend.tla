------------------------------ MODULE Frontend ------------------------------
(***************************************************************************)
(* From a text to the jobs of its items: the lexer and the parser of one    *)
(* file, one behind the other (perform_lex_job hands the tokens on).        *)
(***************************************************************************)
EXTENDS Lexer, Parser

vars == <<input, file_pos, line_no, line_pos, line_start, tokens, lines, stage,
          stream, next, output, progress>>

(* What the parser looks at in a token. *)
Stream ==
  LET T == PoolToArray(tokens)
      Chars(i) == Source(T[i].start, T[i].start + T[i].length)
  IN  [i \in DOMAIN T |->
         [type |-> T[i].type, source |-> Spelling(Chars(i)), literal |-> T[i].literal,
          is_well_formed |-> T[i].is_well_formed,
          chars |-> IF T[i].literal = "string" THEN Chars(i) ELSE <<>>]]

Init == LexInit /\ ParseInit

LexStep ==
  /\ Lex
  /\ stream' = IF stage' = "lexed" THEN Stream ELSE stream
  /\ UNCHANGED <<next, output, progress>>

ParserStep ==
  /\ stage = "lexed"
  /\ ParseStep
  /\ UNCHANGED lexer

Ended == stage = "crashed" \/ progress # "parsing"

(* The process has ended, or its lexer turns on the spot. *)
Halt == (Ended \/ stage = "stuck") /\ UNCHANGED vars

Next == LexStep \/ ParserStep \/ Halt

(* The process does not stop by itself.  As a step that changes something   *)
(* is possible until it rests (TLC would report a deadlock), this is        *)
(* WF_vars(Next) without the ENABLED that TLC would have to evaluate.       *)
Fairness == []<><<TRUE>>_vars \/ <>[](Ended \/ stage = "stuck")

Spec == Init /\ [][Next]_vars /\ Fairness

-----------------------------------------------------------------------------
(* The grammar, the other way round: the words that a term is written with. *)

RECURSIVE Spelled(_)

Listed(ts, between) ==
  FlattenSeq([i \in DOMAIN ts |->
                Spelled(ts[i]) \o IF i < Len(ts) THEN between ELSE <<>>])

Tuple(ts) == <<"(">> \o Listed(ts, <<",">>) \o <<")">>

Block(ts) ==
  <<"{">> \o FlattenSeq([i \in DOMAIN ts |-> <<"\n">> \o Spelled(ts[i])])
  \o (IF ts = <<>> THEN <<"}">> ELSE <<"\n", "}">>)

Spelled(t) ==
  CASE t.k = "LITERAL" ->
         (CASE t.lit = "number" -> <<"0">>
            [] t.lit = "string" -> <<"\"a\"">>
            [] t.lit = "char" -> <<"@char", "(", "\"a\"", ")">>)
    [] t.k = "IDENT" -> <<t.name>>
    [] t.k = "CALL" -> <<t.name>> \o Tuple(t.args)
    [] t.k = "TYPE" -> <<t.name>>
    [] t.k = "PROCEDURE" -> Tuple(t.params) \o <<"=>">> \o Tuple(t.returns) \o Block(t.body)
    [] t.k = "DECLARATION" ->
         IF t.type = NoName THEN <<t.name>> ELSE <<t.name, ":", t.type>>
    [] t.k = "ASSIGNMENT" ->
         Spelled(t.lhs)
         \o (IF t.lhs.k = "DECLARATION" /\ t.lhs.type = NoName THEN <<":=">> ELSE <<"=">>)
         \o Spelled(t.value)
    [] t.k = "RETURN" -> <<"return">> \o Listed(t.values, <<>>)
    [] t.k = "CONDITIONAL" -> <<"if">> \o Spelled(t.cond) \o Block(t.body)
    [] t.k = "POSTFIX" -> Spelled(t.body[1]) \o <<"if">> \o Spelled(t.cond)
    [] t.k = "LOOP" -> <<"loop">> \o Block(t.body)
    [] t.k = "BREAK" -> <<"break">>
    [] t.k = "LOAD" -> <<"@load", "(", "\"a\"", ")">>
    [] t.k = "ERROR" -> <<"?">>

(* A token as the word that stands for it, in the form that Spelled chooses: *)
(* one number, one string, no newlines, no comma at the end of a list, and  *)
(* parentheses around the results of a procedure.                           *)
WordAt(i) ==
  LET token == stream[i]
      SourceAt(j) == IF j <= Len(stream) THEN stream[j].source ELSE ""
      word == CASE token.literal = "none" -> token.source
                [] token.literal = "string" -> "\"a\""
                [] OTHER -> "0"
      follows == {j \in i + 1 .. Len(stream) : stream[j].source # "\n"}
  IN  CASE token.source = "\n" -> <<>>
        [] token.source = "," /\ follows # {} /\ SourceAt(Min(follows)) = ")" -> <<>>
        [] token.source = "=>" /\ SourceAt(i + 1) = "{" -> <<"=>", "(", ")">>
        [] token.type = "identifier" /\ i > 1 /\ SourceAt(i - 1) = "=>" -> <<"(", word, ")">>
        [] OTHER -> <<word>>

WordsFrom(i, j) == FlattenSeq([n \in 1 .. j - i + 1 |-> WordAt(i + n - 1)])

(* Whatever the parser passes on is what was written: an item goes to the   *)
(* typechecker only if its term, written out, gives the tokens of its lines *)
(* and nothing else; an error in any part of it is not lost on the way up   *)
(* ("Bubble up errors", parser.c:733-735).  A load may have more arguments. *)
Faithful ==
  \A i \in DOMAIN output :
    LET item == output[i]
        words == WordsFrom(item.first, item.last)
    IN  /\ item.job = "TYPECHECK" =>
             words = SelectSeq(Spelled(item.t), LAMBDA w : w # "\n")
        /\ item.job = "READ" => IsPrefix(<<"@load", "(", "\"a\"">>, words)

(* And what is written is understood: a text in the language, in any layout *)
(* (items, if the input has them), gives its terms, one job per item, and   *)
(* reads nothing that is not its own.  An item that is followed by more on  *)
(* its line, or has an error outside of brackets, is given up alone.        *)
Understood ==
  "items" \in DOMAIN input =>
    /\ stage # "crashed" /\ progress \notin {"crashed", "undefined"}
    /\ progress = "parsed" =>
         input.items = [i \in DOMAIN output |->
                          IF output[i].job = "ABORT" THEN Missing("end") ELSE output[i].t]

(* Every text is read to its end, but for a control character that the      *)
(* build takes for an operator where a token should begin: the lexer makes  *)
(* empty tokens for ever.                                                   *)
StuckOnControl ==
  stage = "stuck" /\ CharAt(file_pos) \in input.outside \ {"\t", "\n"}

EveryTextEnds == <>(Ended \/ StuckOnControl)
=============================================================================
