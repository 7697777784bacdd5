------------------------------- MODULE Lexer --------------------------------
(***************************************************************************)
(* tokenize_string (lexer.c): one action per case of its switch.  A text is *)
(* a sequence of characters; a token's source is its place in the text.     *)
(*                                                                         *)
(* Two reads of the function leave its data, so what they find is part of   *)
(* an input: THIS may be one character behind the text (after), and         *)
(* OPERATORS[T - 32] lies before the table for a tab, a newline or a        *)
(* carriage return.  outside has those of them for which the build reads    *)
(* something other than zero there.                                         *)
(***************************************************************************)
EXTENDS Pool

CONSTANTS
  Letters,      \* a-z and A-Z
  Inputs        \* records [text, after, outside]

VARIABLES
  input,
  file_pos,     \* the number of characters read
  line_no, line_pos, line_start,
  tokens,       \* a pool of tokens
  lines,        \* a pool of [start, length], one for each ended line
  stage

lexer == <<input, file_pos, line_no, line_pos, line_start, tokens, lines, stage>>

ASSUME LettersAssumption == "\n" \notin Letters

ASSUME InputsAssumption ==
  \A i \in Inputs :
    /\ i.text \in Seq(STRING)
    /\ i.outside \subseteq {"\t", "\n", "\r"}

-----------------------------------------------------------------------------
(* Characters. *)

Newline == "\n"
Quote == "\""
Backslash == "\\"
Blanks == {" ", "\t"}
Brackets == {",", "(", ")", "{", "}"}
OperatorStarts ==
  {"!", "`", "$", "%", "&", "'", "*", "+", "-", ".", "/", ";", "<", "=", ">",
   "?", "[", Backslash, "]", "^", "|", "~"}

(* Faulty variant: an entry too many. *)
SymbolsMore == OperatorStarts \cup {"a"} \cup Brackets \cup {Quote, "#", ":", "@"} \cup input.outside

(* IS_NONINITIAL_OP: what is not 0 in OPERATORS. *)
Symbols == OperatorStarts \cup Brackets \cup {Quote, "#", ":", "@"} \cup input.outside

Stops == Blanks \cup {Newline} \cup Symbols         \* not IS_IDENTIFIER

Binary == {"_", "0", "1"}
Decimal == Binary \cup {"2", "3", "4", "5", "6", "7", "8", "9"}
Digits == Decimal \ {"_"}
Hex == Decimal \cup Letters

Keywords ==
  {<<"r", "e", "t", "u", "r", "n">>, <<"i", "f">>, <<"l", "o", "o", "p">>,
   <<"b", "r", "e", "a", "k">>}

Size == Len(input.text)

(* input->data[i]. *)
CharAt(i) == IF i < Size THEN input.text[i + 1] ELSE input.after

(* SLURP: where a run of the characters of S that starts at i ends. *)
RunEnds(S, i, j) ==
  /\ \A k \in i .. j - 1 : CharAt(k) \in S
  /\ j < Size => CharAt(j) \notin S

Slurp(S, i) ==
  IF i >= Size THEN i ELSE CHOOSE j \in i .. Size : RunEnds(S, i, j)

SlurpUntil(S, i) ==
  IF i >= Size THEN i
  ELSE CHOOSE j \in i .. Size :
         /\ \A k \in i .. j - 1 : CharAt(k) \notin S
         /\ j < Size => CharAt(j) \in S

Source(start, end) == [i \in 1 .. end - start |-> CharAt(start + i - 1)]

-----------------------------------------------------------------------------
(* One round of the loop. *)

LexInit ==
  /\ input \in Inputs
  /\ file_pos = 0 /\ line_no = 0 /\ line_pos = 0 /\ line_start = 0
  /\ tokens = NewPool /\ lines = NewPool
  /\ stage = "lexing"

Lexing == stage = "lexing" /\ file_pos < Size

THIS == CharAt(file_pos)

(* A token from file_pos to end. *)
Token(type, end, literal, formed) ==
  [type |-> type, line |-> line_no, pos |-> line_pos,
   start |-> file_pos, length |-> end - file_pos,
   literal |-> literal, is_well_formed |-> formed]

(* Faulty variant: ADVANCE counts in the text only. *)
AdvanceToUncounted(end) ==
  /\ file_pos' = end
  /\ UNCHANGED <<input, line_no, line_pos, line_start, lines, stage>>

AdvanceTo(end) ==
  /\ file_pos' = end
  /\ line_pos' = line_pos + (end - file_pos)
  /\ UNCHANGED <<input, line_no, line_start, lines, stage>>

Emits(type, end, literal, formed) ==
  /\ tokens' = PoolPut(tokens, Token(type, end, literal, formed))
  /\ AdvanceTo(end)

EmitsPlain(type, end) == Emits(type, end, "none", TRUE)

Directive ==
  /\ Lexing /\ THIS = "@"
  /\ EmitsPlain("directive", SlurpUntil(Stops, file_pos + 1))

Tag ==
  /\ Lexing /\ THIS = "#"
  /\ EmitsPlain("tag", SlurpUntil(Stops, file_pos + 1))

SkipBlanks ==
  /\ Lexing /\ THIS \in Blanks
  /\ AdvanceTo(Slurp(Blanks, file_pos))
  /\ UNCHANGED tokens

(* SLURP_WHITESPACE, behind a newline. *)
Opening(next) == Slurp(Blanks, next)

(* The line ends; the blanks that open the next one are skipped at once. *)
EndLine ==
  /\ Lexing /\ THIS = Newline
  /\ LET next == file_pos + 1
         end == Opening(next)
     IN  /\ tokens' = PoolPut(tokens, Token("syntax", next, "none", TRUE))
         /\ lines' = PoolPut(lines, [start |-> line_start,
                                     length |-> next - line_start - 1])
         /\ line_no' = line_no + 1
         /\ line_start' = next
         /\ file_pos' = end
         /\ line_pos' = end - next
  /\ UNCHANGED <<input, stage>>

(* A string goes to the next quote that is not behind a backslash, or to    *)
(* the end of the line.                                                     *)
Closes(j) ==
  \/ j = Size
  \/ CharAt(j) = Newline
  \/ CharAt(j) = Quote /\ CharAt(j - 1) # Backslash

FirstClose ==
  CHOOSE j \in file_pos + 1 .. Size :
    Closes(j) /\ \A k \in file_pos + 1 .. j - 1 : ~Closes(k)

(* The text ends behind a backslash: ADVANCE asserts that a quote follows. *)
Dangling == FirstClose = Size /\ CharAt(Size - 1) = Backslash /\ input.after # Newline

String ==
  /\ Lexing /\ THIS = Quote
  /\ Dangling => input.after = Quote
  /\ LET end == IF Dangling \/ (FirstClose < Size /\ CharAt(FirstClose) = Quote)
                THEN FirstClose + 1
                ELSE FirstClose
     IN  Emits("literal", end, "string", CharAt(file_pos) = CharAt(end - 1))

AssertFails ==
  /\ Lexing /\ THIS = Quote
  /\ Dangling /\ input.after # Quote
  /\ stage' = "crashed"
  /\ UNCHANGED <<input, file_pos, line_no, line_pos, line_start, tokens, lines>>

(* 0x and 0b, else digits with at most one fraction. *)
Radix(c) == THIS = "0" /\ CharAt(file_pos + 1) = c

NumberEnd ==
  LET whole == Slurp(Decimal, file_pos)
  IN  IF Radix("x") THEN Slurp(Hex, file_pos + 2)
      ELSE IF Radix("b") THEN Slurp(Binary, file_pos + 2)
      ELSE IF CharAt(whole) = "." THEN Slurp(Decimal, whole + 1)
      ELSE whole

NumberType ==
  IF Radix("x") THEN "hex"
  ELSE IF Radix("b") THEN "binary"
  ELSE IF CharAt(Slurp(Decimal, file_pos)) = "." THEN "fractional"
  ELSE "decimal"

Numeral ==
  /\ Lexing /\ THIS \in Digits
  /\ Emits("literal", NumberEnd, NumberType, TRUE)

Bracket ==
  /\ Lexing /\ THIS \in Brackets
  /\ EmitsPlain("syntax", file_pos + 1)

Colon ==
  /\ Lexing /\ THIS = ":"
  /\ EmitsPlain("syntax", Slurp(Symbols, file_pos))

(* NEXT is '\0' at the end of the text. *)
StartsComment ==
  THIS = "/" /\ file_pos + 1 < Size /\ CharAt(file_pos + 1) = "/"

Comment ==
  /\ Lexing /\ StartsComment
  /\ AdvanceTo(SlurpUntil({Newline}, file_pos))
  /\ UNCHANGED tokens

Operator ==
  /\ Lexing /\ THIS \in OperatorStarts /\ ~StartsComment
  /\ EmitsPlain("operator", Slurp(Symbols, file_pos))

(* default. *)
Word ==
  THIS \notin Blanks \cup {Newline} \cup Digits \cup OperatorStarts \cup Brackets
              \cup {Quote, "#", ":", "@"}

Identifier ==
  /\ Lexing /\ Word /\ THIS \notin Stops
  /\ LET end == SlurpUntil(Stops, file_pos)
     IN  EmitsPlain(IF Source(file_pos, end) \in Keywords THEN "keyword" ELSE "identifier",
                    end)

(* Nothing is slurped: the loop makes the same empty token for ever. *)
Stuck ==
  /\ Lexing /\ Word /\ THIS \in Stops
  /\ stage' = "stuck"
  /\ UNCHANGED <<input, file_pos, line_no, line_pos, line_start, tokens, lines>>

EndOfText ==
  /\ stage = "lexing" /\ file_pos >= Size
  /\ stage' = "lexed"
  /\ UNCHANGED <<input, file_pos, line_no, line_pos, line_start, tokens, lines>>

Lex ==
  \/ Directive \/ Tag \/ SkipBlanks \/ EndLine \/ String \/ AssertFails
  \/ Numeral \/ Bracket \/ Colon \/ Comment \/ Operator \/ Identifier
  \/ Stuck \/ EndOfText

LexSpec == LexInit /\ [][Lex]_lexer
-----------------------------------------------------------------------------
(* Positions of the text, in the tokens T. *)
EndOf(token) == token.start + token.length

Inside(T, p) == \E i \in DOMAIN T : T[i].start <= p /\ p < EndOf(T[i])

Commented(T, p) ==
  \E q \in 0 .. p :
    /\ q + 1 < Size /\ CharAt(q) = "/" /\ CharAt(q + 1) = "/"
    /\ \A r \in q .. p : CharAt(r) # Newline /\ ~Inside(T, r)

Tiled(T, size) ==
  /\ \A i \in DOMAIN T :
       /\ T[i].start >= 0 /\ T[i].length > 0 /\ EndOf(T[i]) <= size
       /\ \A j \in DOMAIN T : i < j => EndOf(T[i]) <= T[j].start
  /\ \A p \in 0 .. size - 1 :
       Inside(T, p) \/ CharAt(p) \in Blanks \/ Commented(T, p)

(* What a token stream is: nothing of the text is lost, read twice or out   *)
(* of order.  Tokens are not empty and follow one another; between them     *)
(* are blanks and comments only.                                            *)
TokensTile == Tiled(PoolToArray(tokens), file_pos)

(* Where the n-th line starts, if last is the start of the unfinished one.  *)
LineStart(L, last, n) == IF n < Len(L) THEN L[n + 1].start ELSE last

LinesCut(L, last, size) ==
  /\ LineStart(L, last, 0) = 0
  /\ \A n \in DOMAIN L :
       /\ L[n].length >= 0
       /\ LineStart(L, last, n) = EndOf(L[n]) + 1
       /\ CharAt(EndOf(L[n])) = Newline
       /\ \A p \in L[n].start .. EndOf(L[n]) - 1 : CharAt(p) # Newline
  /\ \A p \in last .. size - 1 : CharAt(p) # Newline

Addressed(T, L, last) ==
  \A i \in DOMAIN T :
    /\ T[i].line <= Len(L) /\ T[i].pos >= 0
    /\ T[i].start = LineStart(L, last, T[i].line) + T[i].pos
    /\ T[i].line < Len(L) => T[i].pos <= L[T[i].line + 1].length

(* What a report quotes (file->lines, and the addresses in the nodes): the  *)
(* lines are the text cut at its newlines, and a token's line and pos are   *)
(* where it stands in them.  A build that takes a newline for an operator   *)
(* does not cut there, but still agrees with itself.                        *)
AddressesRight ==
  LET L == PoolToArray(lines)
  IN  /\ Addressed(PoolToArray(tokens), L, line_start)
      /\ Newline \notin input.outside => LinesCut(L, line_start, file_pos)
=============================================================================
