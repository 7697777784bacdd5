---------------------------- MODULE LexerProofs -----------------------------
(***************************************************************************)
(* For every text, of any length, with anything behind it and on every      *)
(* build: the tokens tile the text (TokensTile), and lines and addresses    *)
(* agree with it (AddressesRight).                                         *)
(*                                                                         *)
(* The fourteen cases of the switch are four kinds of step: a token from    *)
(* file_pos to its end, a gap between tokens, the end of a line, and a step *)
(* that only changes stage (LexKinds).  That each of them ends where it     *)
(* should is what SLURP and ADVANCE find (FirstOf and its uses).            *)
(***************************************************************************)
EXTENDS Lexer, PoolProofs, WellFoundedInduction

-----------------------------------------------------------------------------
(* What the search loops find. *)

(* A set of numbers that is not empty has a least one. *)
LEMMA LeastOf ==
  ASSUME NEW S \in SUBSET Nat, S # {}
  PROVE  \E n \in S : \A m \in S : n <= m
<1>1. PICK n \in S : \A m \in S : ~(<<m, n>> \in OpToRel(<, Nat))
  BY NatLessThanWellFounded, WFMin
<1>2. \A m \in S : ~(m < n)
  BY <1>1 DEF OpToRel
<1> QED
  BY <1>2

(* The first of the numbers from i on that is in P, or the last. *)
LEMMA FirstOf ==
  ASSUME NEW i \in Nat, NEW last \in Nat, i <= last, NEW P
  PROVE  \E j \in i .. last :
           /\ \A k \in i .. j - 1 : k \notin P
           /\ j < last => j \in P
<1> DEFINE S == {k \in i .. last : k = last \/ k \in P}
<1>1. S \in SUBSET Nat /\ last \in S
  OBVIOUS
<1>2. PICK j \in S : \A k \in S : j <= k
  BY <1>1, LeastOf
<1>3. ASSUME NEW k \in i .. j - 1 PROVE k \notin P
  <2>1. k \in i .. last /\ ~(j <= k)
    BY <1>2
  <2> QED
    BY <1>2, <2>1
<1> QED
  BY <1>2, <1>3

LEMMA SizeNat == input \in Inputs => Size \in Nat
  BY InputsAssumption DEF Size

(* SLURP stops behind a run of S. *)
LEMMA SlurpRun ==
  ASSUME input \in Inputs, NEW S, NEW i \in Nat
  PROVE  /\ Slurp(S, i) \in Nat /\ Slurp(S, i) >= i
         /\ \A k \in i .. Slurp(S, i) - 1 : CharAt(k) \in S
         /\ i < Size /\ CharAt(i) \in S => Slurp(S, i) > i
<1>1. Size \in Nat
  BY SizeNat
<1>2. CASE i >= Size
  <2>1. Slurp(S, i) = i
    BY <1>2 DEF Slurp
  <2> QED
    BY <1>1, <1>2, <2>1
<1>3. CASE ~(i >= Size)
  <2> DEFINE P == {k \in i .. Size : CharAt(k) \notin S}
  <2> HIDE DEF P
  <2>0. i <= Size
    BY <1>1, <1>3
  <2>1. PICK j \in i .. Size : /\ \A k \in i .. j - 1 : k \notin P
                               /\ j < Size => j \in P
    BY <1>1, <2>0, FirstOf
  <2>2. \A k \in i .. j - 1 : k \in i .. Size
    BY <1>1
  <2>3. RunEnds(S, i, j)
    BY <2>1, <2>2 DEF RunEnds, P
  <2>4. Slurp(S, i) = CHOOSE n \in i .. Size : RunEnds(S, i, n)
    BY <1>3 DEF Slurp
  <2>5. Slurp(S, i) \in i .. Size /\ RunEnds(S, i, Slurp(S, i))
    BY <2>3, <2>4
  <2> QED
    BY <1>1, <2>5 DEF RunEnds
<1> QED
  BY <1>2, <1>3

LEMMA SlurpUntilRun ==
  ASSUME input \in Inputs, NEW S, NEW i \in Nat
  PROVE  /\ SlurpUntil(S, i) \in Nat /\ SlurpUntil(S, i) >= i
         /\ \A k \in i .. SlurpUntil(S, i) - 1 : CharAt(k) \notin S
         /\ i < Size /\ CharAt(i) \notin S => SlurpUntil(S, i) > i
<1> DEFINE RunStops(n) == /\ \A k \in i .. n - 1 : CharAt(k) \notin S
                          /\ n < Size => CharAt(n) \in S
<1>1. Size \in Nat
  BY SizeNat
<1>2. CASE i >= Size
  <2>1. SlurpUntil(S, i) = i
    BY <1>2 DEF SlurpUntil
  <2> QED
    BY <1>1, <1>2, <2>1
<1>3. CASE ~(i >= Size)
  <2> DEFINE P == {k \in i .. Size : CharAt(k) \in S}
  <2> HIDE DEF P
  <2>0. i <= Size
    BY <1>1, <1>3
  <2>1. PICK j \in i .. Size : /\ \A k \in i .. j - 1 : k \notin P
                               /\ j < Size => j \in P
    BY <1>1, <2>0, FirstOf
  <2>2. \A k \in i .. j - 1 : k \in i .. Size
    BY <1>1
  <2>3. RunStops(j)
    BY <2>1, <2>2 DEF P
  <2>4. SlurpUntil(S, i) = CHOOSE n \in i .. Size : RunStops(n)
    BY <1>3 DEF SlurpUntil
  <2> HIDE DEF RunStops
  <2>5. SlurpUntil(S, i) \in i .. Size /\ RunStops(SlurpUntil(S, i))
    BY <2>3, <2>4
  <2> QED
    BY <1>1, <2>5 DEF RunStops
<1> QED
  BY <1>2, <1>3

(* Where a string ends. *)
LEMMA StringEnds ==
  ASSUME input \in Inputs, file_pos \in Nat, file_pos < Size
  PROVE  /\ FirstClose \in file_pos + 1 .. Size /\ Closes(FirstClose)
         /\ \A k \in file_pos + 1 .. FirstClose - 1 : ~Closes(k)
<1> DEFINE P == {k \in file_pos + 1 .. Size : Closes(k)}
           First(n) == Closes(n) /\ \A k \in file_pos + 1 .. n - 1 : ~Closes(k)
<1>1. Size \in Nat /\ file_pos + 1 \in Nat /\ file_pos + 1 <= Size
  BY SizeNat
<1> HIDE DEF P
<1>2. PICK j \in file_pos + 1 .. Size : /\ \A k \in file_pos + 1 .. j - 1 : k \notin P
                                        /\ j < Size => j \in P
  BY <1>1, FirstOf
<1>3. \A k \in file_pos + 1 .. j - 1 : k \in file_pos + 1 .. Size
  BY <1>1
<1>4. j = Size \/ j < Size
  BY <1>1, <1>2
<1>5. Closes(Size)
  BY DEF Closes
<1>6. First(j)
  BY <1>2, <1>3, <1>4, <1>5 DEF P
<1>7. FirstClose = CHOOSE n \in file_pos + 1 .. Size : First(n)
  BY DEF FirstClose
<1> HIDE DEF First
<1>8. FirstClose \in file_pos + 1 .. Size /\ First(FirstClose)
  BY <1>6, <1>7
<1> QED
  BY <1>8 DEF First

-----------------------------------------------------------------------------
(* The inductive invariant.  To the two properties it adds what they are    *)
(* made of (pools of tokens and lines) and that line_start, line_pos and    *)
(* line_no follow file_pos and the lines.                                  *)

TokenTypes ==
  {"directive", "tag", "syntax", "literal", "operator", "keyword", "identifier"}

LiteralTypes == {"none", "string", "hex", "binary", "fractional", "decimal"}

TokenSet ==
  [type : TokenTypes, line : Nat, pos : Nat, start : Nat, length : Nat,
   literal : LiteralTypes, is_well_formed : BOOLEAN]

LineSet == [start : Nat, length : Nat]

Bookkeeping ==
  /\ input \in Inputs
  /\ file_pos \in Nat /\ line_start \in Nat /\ line_start <= file_pos
  /\ line_pos = file_pos - line_start
  /\ IsPool(tokens, TokenSet) /\ IsPool(lines, LineSet)
  /\ line_no = Len(PoolToArray(lines))

LexerInv == Bookkeeping /\ TokensTile /\ AddressesRight

-----------------------------------------------------------------------------
(* The kinds of steps. *)

NoNewline(from, end) == \A p \in from .. end - 1 : CharAt(p) # Newline

Makes(end) ==
  /\ end > file_pos
  /\ Newline \notin input.outside => NoNewline(file_pos, end)
  /\ AdvanceTo(end)
  /\ \E token \in TokenSet :
       /\ token.start = file_pos /\ token.length = end - file_pos
       /\ token.line = line_no /\ token.pos = line_pos
       /\ tokens' = PoolPut(tokens, token)

MakesToken == \E end \in Nat : Makes(end)

Passes(end) ==
  /\ end > file_pos
  /\ AdvanceTo(end) /\ UNCHANGED tokens
  /\ \/ \A p \in file_pos .. end - 1 : CharAt(p) \in Blanks
     \/ StartsComment /\ NoNewline(file_pos, end)

PassesGap == \E end \in Nat : Passes(end)

Stays == UNCHANGED <<input, file_pos, line_no, line_pos, line_start, tokens, lines>>

(* A newline is in no other class of characters, unless the build takes it  *)
(* for an operator.                                                        *)
LEMMA NewlineApart ==
  /\ Newline \notin Blanks /\ Newline \notin Decimal /\ Newline \notin Hex
  /\ Newline \notin Binary
  /\ Newline \in Stops
  /\ Newline \notin input.outside => Newline \notin Symbols
<1>1. Newline \notin Blanks /\ Newline \notin Decimal /\ Newline \notin Binary
  BY DEF Newline, Blanks, Decimal, Binary
<1>2. Newline \notin Hex
  BY <1>1, LettersAssumption DEF Newline, Hex
<1>3. Newline \in Stops
  BY DEF Stops
<1>4. Newline \notin OperatorStarts \cup Brackets \cup {Quote, "#", ":", "@"}
  BY DEF Newline, OperatorStarts, Brackets, Quote, Backslash
<1> QED
  BY <1>1, <1>2, <1>3, <1>4 DEF Symbols

(* A token that starts with anything but a newline and goes on without one. *)
LEMMA Begun ==
  ASSUME file_pos \in Nat, THIS # Newline, NEW end \in Nat, NoNewline(file_pos + 1, end)
  PROVE  NoNewline(file_pos, end)
  BY DEF NoNewline, THIS

(* The record that TOKENIZE fills. *)
LEMMA TokenMade ==
  ASSUME Bookkeeping, NEW end \in Nat, end >= file_pos,
         NEW type \in TokenTypes, NEW literal \in LiteralTypes, NEW formed \in BOOLEAN
  PROVE  Token(type, end, literal, formed) \in TokenSet
<1>1. file_pos \in Nat /\ line_pos \in Nat /\ line_no \in Nat
  <2>1. Len(PoolToArray(lines)) \in Nat
    BY DEF Bookkeeping, IsPool
  <2> QED
    BY <2>1 DEF Bookkeeping
<1>2. end - file_pos \in Nat
  BY <1>1
<1> QED
  BY <1>1, <1>2 DEF Token, TokenSet

LEMMA Emitted ==
  ASSUME Bookkeeping, NEW end \in Nat, end > file_pos,
         Newline \notin input.outside => NoNewline(file_pos, end),
         NEW type \in TokenTypes, NEW literal \in LiteralTypes, NEW formed \in BOOLEAN,
         tokens' = PoolPut(tokens, Token(type, end, literal, formed)),
         AdvanceTo(end)
  PROVE  MakesToken
<1>1. end >= file_pos
  BY DEF Bookkeeping
<1>2. Token(type, end, literal, formed) \in TokenSet
  BY <1>1, TokenMade
<1>3. Makes(end)
  BY <1>2 DEF Makes, Token
<1> QED
  BY <1>3 DEF MakesToken

LEMMA DirectiveKind == Bookkeeping /\ (Directive \/ Tag) => MakesToken
<1> SUFFICES ASSUME Bookkeeping, Directive \/ Tag PROVE MakesToken
  OBVIOUS
<1> DEFINE end == SlurpUntil(Stops, file_pos + 1)
<1>1. input \in Inputs /\ file_pos \in Nat /\ file_pos + 1 \in Nat
  BY DEF Bookkeeping
<1>2. /\ end \in Nat /\ end >= file_pos + 1
      /\ \A k \in file_pos + 1 .. end - 1 : CharAt(k) \notin Stops
  BY <1>1, SlurpUntilRun
<1>3. THIS # Newline
  BY DEF Directive, Tag, Newline
<1>4. NoNewline(file_pos, end)
  BY <1>1, <1>2, <1>3, NewlineApart, Begun DEF NoNewline
<1>5. end \in Nat /\ end > file_pos
  BY <1>1, <1>2
<1>6. CASE Directive
  <2>1. tokens' = PoolPut(tokens, Token("directive", end, "none", TRUE)) /\ AdvanceTo(end)
    BY <1>6 DEF Directive, EmitsPlain, Emits
  <2> HIDE DEF end
  <2> QED
    BY <1>4, <1>5, <2>1, Emitted DEF TokenTypes, LiteralTypes
<1>7. CASE Tag
  <2>1. tokens' = PoolPut(tokens, Token("tag", end, "none", TRUE)) /\ AdvanceTo(end)
    BY <1>7 DEF Tag, EmitsPlain, Emits
  <2> HIDE DEF end
  <2> QED
    BY <1>4, <1>5, <2>1, Emitted DEF TokenTypes, LiteralTypes
<1> QED
  BY <1>6, <1>7

LEMMA BlankKind == Bookkeeping /\ SkipBlanks => PassesGap
<1> SUFFICES ASSUME Bookkeeping, SkipBlanks PROVE PassesGap
  OBVIOUS
<1>1. input \in Inputs /\ file_pos \in Nat /\ file_pos < Size /\ CharAt(file_pos) \in Blanks
  BY DEF Bookkeeping, SkipBlanks, Lexing, THIS
<1>2. /\ Slurp(Blanks, file_pos) \in Nat /\ Slurp(Blanks, file_pos) > file_pos
      /\ \A k \in file_pos .. Slurp(Blanks, file_pos) - 1 : CharAt(k) \in Blanks
  BY <1>1, SlurpRun
<1> QED
  BY <1>2 DEF SkipBlanks, PassesGap, Passes

LEMMA CommentKind == Bookkeeping /\ Comment => PassesGap
<1> SUFFICES ASSUME Bookkeeping, Comment PROVE PassesGap
  OBVIOUS
<1> DEFINE end == SlurpUntil({Newline}, file_pos)
<1>0. /\ input \in Inputs /\ file_pos \in Nat /\ file_pos < Size
      /\ CharAt(file_pos) \notin {Newline}
  BY DEF Bookkeeping, Comment, Lexing, StartsComment, THIS, Newline
<1>1. /\ end \in Nat /\ end > file_pos
      /\ \A k \in file_pos .. end - 1 : CharAt(k) \notin {Newline}
  BY <1>0, SlurpUntilRun
<1>2. StartsComment /\ AdvanceTo(end) /\ UNCHANGED tokens
  BY DEF Comment
<1> HIDE DEF end
<1>3. NoNewline(file_pos, end)
  BY <1>1 DEF NoNewline
<1> QED
  BY <1>1, <1>2, <1>3 DEF PassesGap, Passes

LEMMA StringKind == Bookkeeping /\ String => MakesToken
<1> SUFFICES ASSUME Bookkeeping, String PROVE MakesToken
  OBVIOUS
<1> DEFINE more == Dangling \/ (FirstClose < Size /\ CharAt(FirstClose) = Quote)
           end == IF more THEN FirstClose + 1 ELSE FirstClose
<1>1. input \in Inputs /\ file_pos \in Nat /\ file_pos < Size /\ Size \in Nat
      /\ THIS = Quote
  BY SizeNat DEF Bookkeeping, String, Lexing
<1>2. /\ FirstClose \in file_pos + 1 .. Size
      /\ \A k \in file_pos + 1 .. FirstClose - 1 : ~Closes(k)
  BY <1>1, StringEnds
<1>3. \A k \in file_pos + 1 .. FirstClose - 1 : CharAt(k) # Newline
  BY <1>2 DEF Closes
<1>4. ASSUME more PROVE CharAt(FirstClose) = Quote
  <2>1. CASE Dangling
    <3>1. FirstClose = Size /\ input.after = Quote
      BY <2>1 DEF Dangling, String
    <3> QED
      BY <1>1, <3>1 DEF CharAt
  <2> QED
    BY <1>4, <2>1
<1>5. end \in Nat /\ end > file_pos
  BY <1>1, <1>2
<1>6. Quote # Newline
  BY DEF Quote, Newline
<1>7. NoNewline(file_pos + 1, end)
  <2> SUFFICES ASSUME NEW p \in file_pos + 1 .. end - 1 PROVE CharAt(p) # Newline
    BY DEF NoNewline
  <2> HIDE DEF more
  <2>1. p \in file_pos + 1 .. FirstClose - 1 \/ (more /\ p = FirstClose)
    BY <1>1, <1>2
  <2> QED
    BY <1>3, <1>4, <1>6, <2>1
<1>8. NoNewline(file_pos, end)
  BY <1>1, <1>5, <1>6, <1>7, Begun
<1>9. /\ tokens' = PoolPut(tokens, Token("literal", end, "string",
                                         CharAt(file_pos) = CharAt(end - 1)))
      /\ AdvanceTo(end)
  BY DEF String, Emits
<1>10. (CharAt(file_pos) = CharAt(end - 1)) \in BOOLEAN
  OBVIOUS
<1> HIDE DEF end
<1> QED
  BY <1>5, <1>8, <1>9, <1>10, Emitted DEF TokenTypes, LiteralTypes

LEMMA NumeralKind == Bookkeeping /\ Numeral => MakesToken
<1> SUFFICES ASSUME Bookkeeping, Numeral PROVE MakesToken
  OBVIOUS
<1> DEFINE whole == Slurp(Decimal, file_pos)
<1>1. input \in Inputs /\ file_pos \in Nat /\ file_pos < Size /\ Size \in Nat
      /\ THIS \in Digits
  BY SizeNat DEF Bookkeeping, Numeral, Lexing
<1>2. THIS \in Decimal
  BY <1>1 DEF Digits
<1>3. /\ whole \in Nat /\ whole > file_pos
      /\ \A k \in file_pos .. whole - 1 : CharAt(k) \in Decimal
  BY <1>1, <1>2, SlurpRun DEF THIS
<1>4. ASSUME NEW S, Newline \notin S, NEW c, c # Newline, Radix(c)
      PROVE  /\ Slurp(S, file_pos + 2) \in Nat /\ Slurp(S, file_pos + 2) > file_pos
             /\ NoNewline(file_pos, Slurp(S, file_pos + 2))
  <2> DEFINE end == Slurp(S, file_pos + 2)
  <2>1. /\ end \in Nat /\ end >= file_pos + 2
        /\ \A k \in file_pos + 2 .. end - 1 : CharAt(k) \in S
    BY <1>1, SlurpRun
  <2>2. THIS # Newline /\ CharAt(file_pos + 1) # Newline
    BY <1>4 DEF Radix, Newline
  <2> HIDE DEF end
  <2>3. ASSUME NEW p \in file_pos + 1 .. end - 1 PROVE CharAt(p) # Newline
    <3>1. p = file_pos + 1 \/ p \in file_pos + 2 .. end - 1
      BY <1>1, <2>1
    <3> QED
      BY <1>4, <2>1, <2>2, <3>1
  <2>4. NoNewline(file_pos, end)
    BY <1>1, <2>1, <2>2, <2>3, Begun DEF NoNewline
  <2> QED
    BY <1>1, <2>1, <2>4 DEF end
<1>5. NoNewline(file_pos, whole)
  BY <1>3, NewlineApart DEF NoNewline
<1>6. ASSUME CharAt(whole) = "."
      PROVE  /\ Slurp(Decimal, whole + 1) \in Nat /\ Slurp(Decimal, whole + 1) > file_pos
             /\ NoNewline(file_pos, Slurp(Decimal, whole + 1))
  <2> DEFINE end == Slurp(Decimal, whole + 1)
  <2> HIDE DEF whole
  <2>1. /\ end \in Nat /\ end >= whole + 1
        /\ \A k \in whole + 1 .. end - 1 : CharAt(k) \in Decimal
    BY <1>1, <1>3, SlurpRun
  <2> HIDE DEF end
  <2>2. ASSUME NEW p \in file_pos .. end - 1 PROVE CharAt(p) # Newline
    <3>1. p \in file_pos .. whole - 1 \/ p = whole \/ p \in whole + 1 .. end - 1
      BY <1>1, <1>3, <2>1
    <3>2. CharAt(whole) # Newline
      BY <1>6 DEF Newline
    <3> QED
      BY <1>5, <2>1, <3>1, <3>2, NewlineApart DEF NoNewline
  <2> QED
    BY <1>1, <1>3, <2>1, <2>2 DEF end, NoNewline
<1>7. NumberEnd \in Nat /\ NumberEnd > file_pos /\ NoNewline(file_pos, NumberEnd)
  <2>1. "x" # Newline /\ "b" # Newline
    BY DEF Newline
  <2>2. CASE Radix("x")
    BY <1>4, <2>1, <2>2, NewlineApart DEF NumberEnd
  <2>3. CASE ~Radix("x") /\ Radix("b")
    BY <1>4, <2>1, <2>3, NewlineApart DEF NumberEnd
  <2>4. CASE ~Radix("x") /\ ~Radix("b") /\ CharAt(whole) = "."
    BY <1>6, <2>4 DEF NumberEnd
  <2>5. CASE ~Radix("x") /\ ~Radix("b") /\ CharAt(whole) # "."
    BY <1>3, <1>5, <2>5 DEF NumberEnd
  <2> QED
    BY <2>2, <2>3, <2>4, <2>5
<1>8. tokens' = PoolPut(tokens, Token("literal", NumberEnd, NumberType, TRUE))
      /\ AdvanceTo(NumberEnd)
  BY DEF Numeral, Emits
<1>9. NumberType \in LiteralTypes
  BY Zenon DEF NumberType, LiteralTypes
<1> QED
  BY <1>7, <1>8, <1>9, Emitted DEF TokenTypes, LiteralTypes

LEMMA BracketKind == Bookkeeping /\ Bracket => MakesToken
<1> SUFFICES ASSUME Bookkeeping, Bracket PROVE MakesToken
  OBVIOUS
<1>1. file_pos \in Nat /\ THIS # Newline
  BY DEF Bookkeeping, Bracket, Brackets, Newline
<1>2. file_pos + 1 \in Nat /\ file_pos + 1 > file_pos
  BY <1>1
<1>3. NoNewline(file_pos, file_pos + 1)
  <2>1. \A p \in file_pos .. (file_pos + 1) - 1 : p = file_pos
    BY <1>1
  <2> QED
    BY <1>1, <2>1 DEF NoNewline, THIS
<1>4. /\ tokens' = PoolPut(tokens, Token("syntax", file_pos + 1, "none", TRUE))
      /\ AdvanceTo(file_pos + 1)
  BY DEF Bracket, EmitsPlain, Emits
<1> QED
  BY <1>2, <1>3, <1>4, Emitted DEF TokenTypes, LiteralTypes

(* A run of symbols has no newline, unless that is one for the build. *)
LEMMA SymbolRun ==
  ASSUME Bookkeeping, Lexing, THIS \in Symbols
  PROVE  /\ Slurp(Symbols, file_pos) \in Nat /\ Slurp(Symbols, file_pos) > file_pos
         /\ Newline \notin input.outside => NoNewline(file_pos, Slurp(Symbols, file_pos))
<1>1. input \in Inputs /\ file_pos \in Nat /\ file_pos < Size /\ CharAt(file_pos) \in Symbols
  BY DEF Bookkeeping, Lexing, THIS
<1>2. /\ Slurp(Symbols, file_pos) \in Nat /\ Slurp(Symbols, file_pos) > file_pos
      /\ \A k \in file_pos .. Slurp(Symbols, file_pos) - 1 : CharAt(k) \in Symbols
  BY <1>1, SlurpRun
<1> QED
  BY <1>2, NewlineApart DEF NoNewline

LEMMA OperatorKind == Bookkeeping /\ (Colon \/ Operator) => MakesToken
<1> SUFFICES ASSUME Bookkeeping, Colon \/ Operator PROVE MakesToken
  OBVIOUS
<1> DEFINE end == Slurp(Symbols, file_pos)
<1>1. Lexing /\ THIS \in Symbols
  BY DEF Colon, Operator, Symbols
<1>2. /\ end \in Nat /\ end > file_pos
      /\ Newline \notin input.outside => NoNewline(file_pos, end)
  BY <1>1, SymbolRun
<1>3. CASE Colon
  <2>1. tokens' = PoolPut(tokens, Token("syntax", end, "none", TRUE)) /\ AdvanceTo(end)
    BY <1>3 DEF Colon, EmitsPlain, Emits
  <2> HIDE DEF end
  <2> QED
    BY <1>2, <2>1, Emitted DEF TokenTypes, LiteralTypes
<1>4. CASE Operator
  <2>1. tokens' = PoolPut(tokens, Token("operator", end, "none", TRUE)) /\ AdvanceTo(end)
    BY <1>4 DEF Operator, EmitsPlain, Emits
  <2> HIDE DEF end
  <2> QED
    BY <1>2, <2>1, Emitted DEF TokenTypes, LiteralTypes
<1> QED
  BY <1>3, <1>4

LEMMA IdentifierKind == Bookkeeping /\ Identifier => MakesToken
<1> SUFFICES ASSUME Bookkeeping, Identifier PROVE MakesToken
  OBVIOUS
<1> DEFINE end == SlurpUntil(Stops, file_pos)
           type == IF Source(file_pos, end) \in Keywords THEN "keyword" ELSE "identifier"
<1>1. input \in Inputs /\ file_pos \in Nat /\ file_pos < Size /\ CharAt(file_pos) \notin Stops
  BY DEF Bookkeeping, Identifier, Lexing, THIS
<1>2. /\ end \in Nat /\ end > file_pos
      /\ \A k \in file_pos .. end - 1 : CharAt(k) \notin Stops
  BY <1>1, SlurpUntilRun
<1>3. NoNewline(file_pos, end)
  BY <1>2, NewlineApart DEF NoNewline
<1>4. tokens' = PoolPut(tokens, Token(type, end, "none", TRUE)) /\ AdvanceTo(end)
  BY DEF Identifier, EmitsPlain, Emits
<1>5. type \in TokenTypes
  BY DEF TokenTypes
<1> HIDE DEF end, type
<1> QED
  BY <1>2, <1>3, <1>4, <1>5, Emitted DEF LiteralTypes

(* Every case of the switch is of one of the kinds. *)
LEMMA LexKinds ==
  ASSUME Bookkeeping, Lex
  PROVE  MakesToken \/ PassesGap \/ EndLine \/ Stays
<1>1. CASE Directive \/ Tag
  BY <1>1, DirectiveKind
<1>2. CASE SkipBlanks
  BY <1>2, BlankKind
<1>3. CASE String
  BY <1>3, StringKind
<1>4. CASE Numeral
  BY <1>4, NumeralKind
<1>5. CASE Bracket
  BY <1>5, BracketKind
<1>6. CASE Colon \/ Operator
  BY <1>6, OperatorKind
<1>7. CASE Comment
  BY <1>7, CommentKind
<1>8. CASE Identifier
  BY <1>8, IdentifierKind
<1>9. CASE AssertFails \/ Stuck \/ EndOfText
  BY <1>9 DEF AssertFails, Stuck, EndOfText, Stays
<1> QED
  BY <1>1, <1>2, <1>3, <1>4, <1>5, <1>6, <1>7, <1>8, <1>9 DEF Lex

-----------------------------------------------------------------------------
(* What a kind of step does to the sequences of tokens and lines. *)

LEMMA TokenFields ==
  ASSUME NEW T \in Seq(TokenSet), NEW i \in DOMAIN T
  PROVE  /\ T[i].start \in Nat /\ T[i].length \in Nat
         /\ T[i].line \in Nat /\ T[i].pos \in Nat
<1>1. T[i] \in TokenSet
  BY LenProperties
<1> QED
  BY <1>1 DEF TokenSet

(* A token behind the others, from where they end. *)
LEMMA TiledToken ==
  ASSUME NEW T \in Seq(TokenSet), NEW size \in Nat, Tiled(T, size),
         NEW token \in TokenSet, token.start = size, token.length > 0
  PROVE  Tiled(Append(T, token), EndOf(token))
<1> DEFINE U == Append(T, token)
           n == Len(T)
<1>1. /\ n \in Nat /\ Len(U) = n + 1 /\ U[n + 1] = token
      /\ \A i \in 1 .. n : U[i] = T[i]
      /\ DOMAIN T = 1 .. n /\ DOMAIN U = 1 .. n + 1
      /\ U \in Seq(TokenSet)
  BY Appended, LenProperties
<1>2. token.start \in Nat /\ token.length \in Nat
  BY DEF TokenSet
<1>3. \A i \in 1 .. n : T[i].start \in Nat /\ T[i].length \in Nat
  BY <1>1, TokenFields
<1>4. EndOf(token) = size + token.length
  BY DEF EndOf
<1> HIDE DEF U, n
<1>5. \A i \in 1 .. n + 1 : i \in 1 .. n \/ i = n + 1
  BY <1>1
<1>6. ASSUME NEW i \in DOMAIN U
      PROVE  /\ U[i].start >= 0 /\ U[i].length > 0 /\ EndOf(U[i]) <= EndOf(token)
             /\ \A j \in DOMAIN U : i < j => EndOf(U[i]) <= U[j].start
  <2>1. CASE i = n + 1
    BY <1>1, <1>2, <1>4, <2>1
  <2>2. CASE i \in 1 .. n
    <3>1. /\ T[i].start >= 0 /\ T[i].length > 0 /\ EndOf(T[i]) <= size
          /\ \A j \in 1 .. n : i < j => EndOf(T[i]) <= T[j].start
      BY <1>1, <2>2 DEF Tiled
    <3>2. EndOf(T[i]) \in Nat
      BY <1>3, <2>2 DEF EndOf
    <3>3. EndOf(T[i]) <= EndOf(token)
      BY <1>2, <1>4, <3>1, <3>2
    <3> QED
      BY <1>1, <1>5, <2>2, <3>1, <3>3
  <2> QED
    BY <1>1, <1>5, <2>1, <2>2
<1>7. ASSUME NEW p \in 0 .. size - 1
      PROVE  Inside(U, p) \/ CharAt(p) \in Blanks \/ Commented(U, p)
  <2>1. \A r \in 0 .. p : Inside(U, r) => Inside(T, r)
    <3> SUFFICES ASSUME NEW r \in 0 .. p, Inside(U, r) PROVE Inside(T, r)
      OBVIOUS
    <3>1. PICK i \in DOMAIN U : U[i].start <= r /\ r < EndOf(U[i])
      BY DEF Inside
    <3>2. i # n + 1
      BY <1>1, <3>1
    <3> QED
      BY <1>1, <1>5, <3>1, <3>2 DEF Inside
  <2>2. Inside(T, p) => Inside(U, p)
    BY <1>1, <1>5 DEF Inside
  <2>3. Commented(T, p) => Commented(U, p)
    BY <2>1 DEF Commented
  <2> QED
    BY <2>2, <2>3 DEF Tiled
<1>8. ASSUME NEW p \in size .. EndOf(token) - 1 PROVE Inside(U, p)
  <2>1. n + 1 \in DOMAIN U /\ U[n + 1].start <= p /\ p < EndOf(U[n + 1])
    BY <1>1, <1>2, <1>4
  <2> QED
    BY <2>1 DEF Inside
<1>9. \A p \in 0 .. EndOf(token) - 1 : p \in 0 .. size - 1 \/ p \in size .. EndOf(token) - 1
  BY <1>2, <1>4
<1> QED
  BY <1>6, <1>7, <1>8, <1>9 DEF Tiled, U

(* A gap behind the tokens. *)
LEMMA TiledGap ==
  ASSUME NEW T \in Seq(TokenSet), NEW size \in Nat, Tiled(T, size),
         NEW end \in Nat, end >= size,
         \A p \in size .. end - 1 : CharAt(p) \in Blanks \/ Commented(T, p)
  PROVE  Tiled(T, end)
<1>1. \A i \in DOMAIN T : T[i].start \in Nat /\ T[i].length \in Nat
  BY TokenFields
<1>2. \A i \in DOMAIN T : EndOf(T[i]) \in Nat /\ EndOf(T[i]) <= end
  BY <1>1 DEF Tiled, EndOf
<1>3. \A p \in 0 .. end - 1 : p \in 0 .. size - 1 \/ p \in size .. end - 1
  OBVIOUS
<1> QED
  BY <1>2, <1>3 DEF Tiled

(* A comment is a gap. *)
LEMMA CommentGap ==
  ASSUME NEW T \in Seq(TokenSet), file_pos \in Nat, Tiled(T, file_pos), StartsComment,
         NEW end \in Nat, NoNewline(file_pos, end), NEW p \in file_pos .. end - 1
  PROVE  Commented(T, p)
<1>1. \A i \in DOMAIN T : T[i].start \in Nat /\ T[i].length \in Nat
  BY TokenFields
<1>2. ASSUME NEW r \in file_pos .. p PROVE CharAt(r) # Newline /\ ~Inside(T, r)
  <2>1. \A i \in DOMAIN T : EndOf(T[i]) \in Nat /\ EndOf(T[i]) <= file_pos
    BY <1>1 DEF Tiled, EndOf
  <2>2. ~Inside(T, r)
    BY <2>1 DEF Inside
  <2> QED
    BY <2>2 DEF NoNewline
<1> QED
  BY <1>2 DEF Commented, StartsComment, THIS

(* A token in the line that is not ended. *)
LEMMA AddressedToken ==
  ASSUME NEW T \in Seq(TokenSet), NEW L \in Seq(LineSet), NEW last \in Nat,
         Addressed(T, L, last),
         NEW token \in TokenSet, token.line = Len(L), token.start = last + token.pos
  PROVE  Addressed(Append(T, token), L, last)
<1> DEFINE U == Append(T, token)
           n == Len(T)
<1>1. /\ n \in Nat /\ U[n + 1] = token
      /\ \A i \in 1 .. n : U[i] = T[i]
      /\ DOMAIN T = 1 .. n /\ DOMAIN U = 1 .. n + 1
  BY Appended, LenProperties
<1>2. Len(L) \in Nat /\ token.pos \in Nat
  BY LenProperties DEF TokenSet
<1> HIDE DEF U, n
<1>3. \A i \in 1 .. n + 1 : i \in 1 .. n \/ i = n + 1
  BY <1>1
<1>4. ~(Len(L) < Len(L))
  BY <1>2
<1> QED
  BY <1>1, <1>2, <1>3, <1>4 DEF Addressed, LineStart, U

(* The line ends.  The tokens in it are not behind its newline. *)
LEMMA AddressedLine ==
  ASSUME NEW T \in Seq(TokenSet), NEW L \in Seq(LineSet), NEW last \in Nat,
         Addressed(T, L, last),
         NEW size \in Nat, Tiled(T, size), size > last, NEW next,
         NEW line \in LineSet, line.start = last, line.length = size - 1 - last
  PROVE  Addressed(T, Append(L, line), next)
<1> DEFINE M == Append(L, line)
           n == Len(L)
<1>1. /\ n \in Nat /\ Len(M) = n + 1 /\ M[n + 1] = line
      /\ \A i \in 1 .. n : M[i] = L[i]
  BY Appended
<1> HIDE DEF M, n
<1> SUFFICES ASSUME NEW i \in DOMAIN T
             PROVE  /\ T[i].line <= Len(M) /\ T[i].pos >= 0
                    /\ T[i].start = LineStart(M, next, T[i].line) + T[i].pos
                    /\ T[i].line < Len(M) => T[i].pos <= M[T[i].line + 1].length
  BY DEF Addressed, M
<1>2. T[i].start \in Nat /\ T[i].length \in Nat /\ T[i].line \in Nat /\ T[i].pos \in Nat
  BY TokenFields
<1>3. /\ T[i].line <= n
      /\ T[i].start = LineStart(L, last, T[i].line) + T[i].pos
      /\ T[i].line < n => T[i].pos <= L[T[i].line + 1].length
  BY DEF Addressed, n
<1>4. CASE T[i].line < n
  <2>1. T[i].line + 1 \in 1 .. n
    BY <1>1, <1>2, <1>4
  <2>2. M[T[i].line + 1] = L[T[i].line + 1] /\ T[i].line < Len(M)
    BY <1>1, <1>2, <1>4, <2>1
  <2> QED
    BY <1>1, <1>2, <1>3, <1>4, <2>2 DEF LineStart, n
<1>5. CASE T[i].line = n
  <2>1. T[i].start = last + T[i].pos
    BY <1>1, <1>3, <1>5 DEF LineStart, n
  <2>2. T[i].length > 0 /\ EndOf(T[i]) <= size
    BY DEF Tiled
  <2>3. T[i].pos <= line.length
    BY <1>2, <2>1, <2>2 DEF EndOf
  <2> QED
    BY <1>1, <1>2, <1>5, <2>1, <2>3 DEF LineStart
<1> QED
  BY <1>1, <1>2, <1>3, <1>4, <1>5

(* More of the line that is not ended. *)
LEMMA CutMore ==
  ASSUME NEW L, NEW last \in Nat, NEW size \in Nat, NEW end \in Nat,
         LinesCut(L, last, size), NoNewline(size, end)
  PROVE  LinesCut(L, last, end)
<1>1. \A p \in last .. end - 1 : p \in last .. size - 1 \/ p \in size .. end - 1
  OBVIOUS
<1> QED
  BY <1>1 DEF LinesCut, NoNewline

(* The line ends at size. *)
LEMMA CutLine ==
  ASSUME NEW L \in Seq(LineSet), NEW last \in Nat, NEW size \in Nat, NEW end \in Nat,
         LinesCut(L, last, size), last <= size,
         CharAt(size) = Newline, NoNewline(size + 1, end),
         NEW line \in LineSet, line.start = last, line.length = size - last
  PROVE  LinesCut(Append(L, line), size + 1, end)
<1> DEFINE M == Append(L, line)
           n == Len(L)
<1>1. /\ n \in Nat /\ Len(M) = n + 1 /\ M[n + 1] = line
      /\ \A i \in 1 .. n : M[i] = L[i]
      /\ DOMAIN L = 1 .. n /\ DOMAIN M = 1 .. n + 1
  BY Appended, LenProperties
<1>2. EndOf(line) = size
  BY DEF EndOf
<1>3. /\ LineStart(L, last, 0) = 0
      /\ \A i \in 1 .. n :
           /\ L[i].length >= 0
           /\ LineStart(L, last, i) = EndOf(L[i]) + 1
           /\ CharAt(EndOf(L[i])) = Newline
           /\ \A p \in L[i].start .. EndOf(L[i]) - 1 : CharAt(p) # Newline
      /\ \A p \in last .. size - 1 : CharAt(p) # Newline
  BY <1>1 DEF LinesCut
<1> HIDE DEF M, n
<1>4. ASSUME NEW i \in 0 .. n PROVE LineStart(M, size + 1, i) = LineStart(L, last, i)
  <2>1. CASE i < n
    <3>1. i + 1 \in 1 .. n
      BY <1>1, <2>1
    <3> QED
      BY <1>1, <2>1, <3>1 DEF LineStart, n
  <2>2. CASE i = n
    BY <1>1, <2>2 DEF LineStart, n
  <2> QED
    BY <1>1, <2>1, <2>2
<1>5. LineStart(M, size + 1, n + 1) = size + 1
  BY <1>1 DEF LineStart
<1>6. ASSUME NEW i \in DOMAIN M
      PROVE  /\ M[i].length >= 0
             /\ LineStart(M, size + 1, i) = EndOf(M[i]) + 1
             /\ CharAt(EndOf(M[i])) = Newline
             /\ \A p \in M[i].start .. EndOf(M[i]) - 1 : CharAt(p) # Newline
  <2>1. CASE i \in 1 .. n
    <3>1. M[i] = L[i] /\ i \in 0 .. n
      BY <1>1, <2>1
    <3> QED
      BY <1>3, <1>4, <2>1, <3>1
  <2>2. CASE i = n + 1
    BY <1>1, <1>2, <1>3, <1>5, <2>2
  <2> QED
    BY <1>1, <2>1, <2>2
<1>7. LineStart(M, size + 1, 0) = 0
  BY <1>1, <1>3, <1>4
<1> QED
  BY <1>6, <1>7 DEF LinesCut, NoNewline, M

-----------------------------------------------------------------------------
(* The invariant, step by step. *)

Toks == PoolToArray(tokens)
Rows == PoolToArray(lines)

LEMMA Sequences ==
  Bookkeeping => /\ Toks \in Seq(TokenSet) /\ Rows \in Seq(LineSet)
                 /\ Len(Rows) \in Nat
  BY LenProperties DEF Bookkeeping, IsPool, Toks, Rows

(* The text does not change: what is said of it may be said unprimed. *)
LEMMA SameText ==
  ASSUME input' = input
  PROVE  /\ Tiled(Toks', file_pos') => TokensTile'
         /\ /\ Addressed(Toks', Rows', line_start')
            /\ Newline \notin input.outside => LinesCut(Rows', line_start', file_pos')
            => AddressesRight'
<1>1. \A i : CharAt(i)' = CharAt(i)
  BY DEF CharAt, Size
<1>2. Tiled(Toks', file_pos') => TokensTile'
  BY <1>1 DEF TokensTile, Tiled, Commented, CharAt, Size, Toks
<1>3. /\ Addressed(Toks', Rows', line_start')
      /\ Newline \notin input.outside => LinesCut(Rows', line_start', file_pos')
      => AddressesRight'
  BY DEF AddressesRight, LinesCut, CharAt, Size, Toks, Rows
<1> QED
  BY <1>2, <1>3

LEMMA TokenKept == LexerInv /\ MakesToken => LexerInv'
<1> SUFFICES ASSUME LexerInv, MakesToken PROVE LexerInv'
  OBVIOUS
<1>1. PICK end \in Nat : Makes(end)
  BY DEF MakesToken
<1>2. PICK token \in TokenSet :
        /\ token.start = file_pos /\ token.length = end - file_pos
        /\ token.line = line_no /\ token.pos = line_pos
        /\ tokens' = PoolPut(tokens, token)
  BY <1>1 DEF Makes
<1>3. /\ file_pos' = end /\ line_pos' = line_pos + (end - file_pos)
      /\ UNCHANGED <<input, line_no, line_start, lines>>
      /\ end > file_pos
      /\ Newline \notin input.outside => NoNewline(file_pos, end)
  BY <1>1 DEF Makes, AdvanceTo
<1>4. /\ file_pos \in Nat /\ line_start \in Nat /\ line_start <= file_pos
      /\ line_pos = file_pos - line_start /\ line_no = Len(Rows)
      /\ Toks \in Seq(TokenSet) /\ Rows \in Seq(LineSet) /\ Len(Rows) \in Nat
  BY Sequences DEF LexerInv, Bookkeeping, Rows
<1>5. IsPool(tokens', TokenSet) /\ Toks' = Append(Toks, token)
  <2>1. IsPool(tokens, TokenSet)
    BY DEF LexerInv, Bookkeeping
  <2>2. /\ IsPool(PoolPut(tokens, token), TokenSet)
        /\ PoolToArray(PoolPut(tokens, token)) = Append(PoolToArray(tokens), token)
    BY <2>1, PoolAppends
  <2> QED
    BY <1>2, <2>2 DEF Toks
<1>6. Rows' = Rows
  BY <1>3 DEF Rows
<1>7. Bookkeeping'
  <2>1. end \in Nat /\ line_start <= end
    BY <1>3, <1>4
  <2>2. line_pos + (end - file_pos) = end - line_start
    BY <1>4
  <2>3. input' \in Inputs /\ IsPool(lines', LineSet)
    BY <1>3 DEF LexerInv, Bookkeeping
  <2>4. line_no' = Len(PoolToArray(lines'))
    BY <1>3, <1>4, <1>6 DEF Rows
  <2> QED
    BY <1>3, <1>4, <1>5, <2>1, <2>2, <2>3, <2>4 DEF Bookkeeping
<1>8. Tiled(Toks', file_pos')
  <2>1. Tiled(Toks, file_pos)
    BY DEF LexerInv, TokensTile, Toks
  <2>2. token.length > 0 /\ EndOf(token) = end
    BY <1>2, <1>3, <1>4 DEF EndOf
  <2>3. Tiled(Append(Toks, token), end)
    BY <1>2, <1>4, <2>1, <2>2, TiledToken
  <2> QED
    BY <1>3, <1>5, <2>3
<1>9. Addressed(Toks', Rows', line_start')
  <2>1. Addressed(Toks, Rows, line_start)
    BY DEF LexerInv, AddressesRight, Toks, Rows
  <2>2. token.line = Len(Rows) /\ token.start = line_start + token.pos
    BY <1>2, <1>4
  <2>3. Addressed(Append(Toks, token), Rows, line_start)
    BY <1>4, <2>1, <2>2, AddressedToken
  <2> QED
    BY <1>3, <1>5, <1>6, <2>3
<1>10. ASSUME Newline \notin input.outside PROVE LinesCut(Rows', line_start', file_pos')
  <2>1. LinesCut(Rows, line_start, file_pos)
    BY <1>10 DEF LexerInv, AddressesRight, Rows
  <2>2. LinesCut(Rows, line_start, end)
    BY <1>3, <1>4, <1>10, <2>1, CutMore
  <2> QED
    BY <1>3, <1>6, <2>2
<1> QED
  BY <1>3, <1>7, <1>8, <1>9, <1>10, SameText DEF LexerInv

LEMMA GapKept == LexerInv /\ PassesGap => LexerInv'
<1> SUFFICES ASSUME LexerInv, PassesGap PROVE LexerInv'
  OBVIOUS
<1>1. PICK end \in Nat : Passes(end)
  BY DEF PassesGap
<1>2. /\ file_pos' = end /\ line_pos' = line_pos + (end - file_pos)
      /\ UNCHANGED <<input, line_no, line_start, lines, tokens>>
      /\ end > file_pos
      /\ \/ \A p \in file_pos .. end - 1 : CharAt(p) \in Blanks
         \/ StartsComment /\ NoNewline(file_pos, end)
  BY <1>1 DEF Passes, AdvanceTo
<1>3. /\ file_pos \in Nat /\ line_start \in Nat /\ line_start <= file_pos
      /\ line_pos = file_pos - line_start /\ line_no = Len(Rows)
      /\ Toks \in Seq(TokenSet) /\ Rows \in Seq(LineSet) /\ Len(Rows) \in Nat
  BY Sequences DEF LexerInv, Bookkeeping, Rows
<1>4. Rows' = Rows /\ Toks' = Toks
  BY <1>2 DEF Rows, Toks
<1>5. Bookkeeping'
  <2>1. end \in Nat /\ line_start <= end
    BY <1>2, <1>3
  <2>2. line_pos + (end - file_pos) = end - line_start
    BY <1>3
  <2>3. input' \in Inputs /\ IsPool(lines', LineSet) /\ IsPool(tokens', TokenSet)
    BY <1>2 DEF LexerInv, Bookkeeping
  <2>4. line_no' = Len(PoolToArray(lines'))
    BY <1>2, <1>3, <1>4 DEF Rows
  <2> QED
    BY <1>2, <1>3, <2>1, <2>2, <2>3, <2>4 DEF Bookkeeping
<1>6. NoNewline(file_pos, end)
  BY <1>2, NewlineApart DEF NoNewline
<1>7. Tiled(Toks', file_pos')
  <2>1. Tiled(Toks, file_pos)
    BY DEF LexerInv, TokensTile, Toks
  <2>2. \A p \in file_pos .. end - 1 : CharAt(p) \in Blanks \/ Commented(Toks, p)
    BY <1>2, <1>3, <2>1, CommentGap
  <2>3. Tiled(Toks, end)
    BY <1>2, <1>3, <2>1, <2>2, TiledGap
  <2> QED
    BY <1>2, <1>4, <2>3
<1>8. Addressed(Toks', Rows', line_start')
  BY <1>2, <1>4 DEF LexerInv, AddressesRight, Toks, Rows
<1>9. ASSUME Newline \notin input.outside PROVE LinesCut(Rows', line_start', file_pos')
  <2>1. LinesCut(Rows, line_start, file_pos)
    BY <1>9 DEF LexerInv, AddressesRight, Rows
  <2>2. LinesCut(Rows, line_start, end)
    BY <1>3, <1>6, <2>1, CutMore
  <2> QED
    BY <1>2, <1>4, <2>2
<1> QED
  BY <1>2, <1>5, <1>7, <1>8, <1>9, SameText DEF LexerInv

LEMMA LineKept == LexerInv /\ EndLine => LexerInv'
<1> SUFFICES ASSUME LexerInv, EndLine PROVE LexerInv'
  OBVIOUS
<1> DEFINE after == file_pos + 1
           end == Opening(after)
           token == Token("syntax", after, "none", TRUE)
           line == [start |-> line_start, length |-> after - line_start - 1]
<1>1. /\ tokens' = PoolPut(tokens, token)
      /\ lines' = PoolPut(lines, line)
      /\ line_no' = line_no + 1 /\ line_start' = after
      /\ file_pos' = end /\ line_pos' = end - after
      /\ input' = input
      /\ CharAt(file_pos) = Newline
  BY DEF EndLine, THIS
<1>2. /\ file_pos \in Nat /\ line_start \in Nat /\ line_start <= file_pos
      /\ line_pos = file_pos - line_start /\ line_no = Len(Rows)
      /\ Toks \in Seq(TokenSet) /\ Rows \in Seq(LineSet) /\ Len(Rows) \in Nat
      /\ after \in Nat
  BY Sequences DEF LexerInv, Bookkeeping, Rows
<1>3. /\ end \in Nat /\ end >= after
      /\ \A k \in after .. end - 1 : CharAt(k) \in Blanks
  BY <1>2, SlurpRun DEF LexerInv, Bookkeeping, Opening
<1>4. token \in TokenSet
  <2>1. after >= file_pos /\ "syntax" \in TokenTypes /\ "none" \in LiteralTypes
    BY <1>2 DEF TokenTypes, LiteralTypes
  <2>2. Bookkeeping
    BY DEF LexerInv
  <2> HIDE DEF after
  <2> QED
    BY <1>2, <2>1, <2>2, TokenMade
<1>5. /\ token.start = file_pos /\ token.length = 1
      /\ token.line = Len(Rows) /\ token.start = line_start + token.pos
  BY <1>2 DEF Token
<1>6. line \in LineSet /\ line.start = line_start /\ line.length = file_pos - line_start
  BY <1>2 DEF LineSet
<1> HIDE DEF end, token, line
<1>7. IsPool(tokens', TokenSet) /\ Toks' = Append(Toks, token)
  <2>1. IsPool(tokens, TokenSet)
    BY DEF LexerInv, Bookkeeping
  <2>2. /\ IsPool(PoolPut(tokens, token), TokenSet)
        /\ PoolToArray(PoolPut(tokens, token)) = Append(PoolToArray(tokens), token)
    BY <1>4, <2>1, PoolAppends
  <2> QED
    BY <1>1, <2>2 DEF Toks
<1>8. IsPool(lines', LineSet) /\ Rows' = Append(Rows, line)
  <2>1. IsPool(lines, LineSet)
    BY DEF LexerInv, Bookkeeping
  <2>2. /\ IsPool(PoolPut(lines, line), LineSet)
        /\ PoolToArray(PoolPut(lines, line)) = Append(PoolToArray(lines), line)
    BY <1>6, <2>1, PoolAppends
  <2> QED
    BY <1>1, <2>2 DEF Rows
<1>9. Bookkeeping'
  <2>1. Len(Rows') = Len(Rows) + 1
    BY <1>2, <1>6, <1>8, Appended
  <2>2. input' \in Inputs
    BY <1>1 DEF LexerInv, Bookkeeping
  <2>3. line_no' = Len(PoolToArray(lines'))
    BY <1>1, <1>2, <2>1 DEF Rows
  <2> QED
    BY <1>1, <1>2, <1>3, <1>7, <1>8, <2>2, <2>3 DEF Bookkeeping
<1>10. Tiled(Append(Toks, token), after)
  <2>1. Tiled(Toks, file_pos)
    BY DEF LexerInv, TokensTile, Toks
  <2>2. token.length > 0 /\ EndOf(token) = after
    BY <1>5 DEF EndOf
  <2> QED
    BY <1>2, <1>4, <1>5, <2>1, <2>2, TiledToken
<1>11. Append(Toks, token) \in Seq(TokenSet)
  BY <1>2, <1>4, Appended
<1>12. Tiled(Toks', file_pos')
  <2>1. Tiled(Append(Toks, token), end)
    BY <1>2, <1>3, <1>10, <1>11, TiledGap
  <2> QED
    BY <1>1, <1>7, <2>1
<1>13. Addressed(Toks', Rows', line_start')
  <2>1. Addressed(Toks, Rows, line_start)
    BY DEF LexerInv, AddressesRight, Toks, Rows
  <2>2. Addressed(Append(Toks, token), Rows, line_start)
    BY <1>2, <1>4, <1>5, <2>1, AddressedToken
  <2>3. after > line_start /\ line.length = after - 1 - line_start
    BY <1>2, <1>6
  <2> HIDE DEF after
  <2>4. Addressed(Append(Toks, token), Append(Rows, line), after)
    BY <1>2, <1>6, <1>10, <1>11, <2>2, <2>3, AddressedLine
  <2> QED
    BY <1>1, <1>7, <1>8, <2>4
<1>14. ASSUME Newline \notin input.outside PROVE LinesCut(Rows', line_start', file_pos')
  <2>1. LinesCut(Rows, line_start, file_pos)
    BY <1>14 DEF LexerInv, AddressesRight, Rows
  <2>2. NoNewline(after, end)
    BY <1>3, NewlineApart DEF NoNewline
  <2>3. LinesCut(Append(Rows, line), after, end)
    BY <1>1, <1>2, <1>3, <1>6, <2>1, <2>2, CutLine
  <2> QED
    BY <1>1, <1>8, <2>3
<1> QED
  BY <1>1, <1>9, <1>12, <1>13, <1>14, SameText DEF LexerInv

LEMMA StayKept ==
  LexerInv /\ UNCHANGED <<input, file_pos, line_no, line_pos, line_start, tokens, lines>>
    => LexerInv'
<1> SUFFICES ASSUME LexerInv,
                    UNCHANGED <<input, file_pos, line_no, line_pos, line_start, tokens, lines>>
             PROVE  LexerInv'
  OBVIOUS
<1>1. Bookkeeping'
  BY DEF LexerInv, Bookkeeping
<1>2. Toks' = Toks /\ Rows' = Rows
  BY DEF Toks, Rows
<1>3. Tiled(Toks', file_pos')
  BY <1>2 DEF LexerInv, TokensTile, Toks
<1>4. /\ Addressed(Toks', Rows', line_start')
      /\ Newline \notin input.outside => LinesCut(Rows', line_start', file_pos')
  BY <1>2 DEF LexerInv, AddressesRight, Toks, Rows
<1> QED
  BY <1>1, <1>3, <1>4, SameText DEF LexerInv

LEMMA LexerStarts == LexInit => LexerInv
<1> SUFFICES ASSUME LexInit PROVE LexerInv
  OBVIOUS
<1>1. /\ IsPool(NewPool, TokenSet) /\ IsPool(NewPool, LineSet)
      /\ PoolToArray(NewPool) = <<>>
  BY PoolStarts
<1>2. Len(PoolToArray(NewPool)) = 0
  BY <1>1
<1>3. Bookkeeping
  BY <1>1, <1>2 DEF LexInit, Bookkeeping
<1>4. TokensTile
  BY <1>1 DEF LexInit, TokensTile, Tiled
<1>5. AddressesRight
  BY <1>1 DEF LexInit, AddressesRight, Addressed, LinesCut, LineStart
<1> QED
  BY <1>3, <1>4, <1>5 DEF LexerInv

(* The invariant that the two theorems rest on: tokenize_string's           *)
(* bookkeeping of line and position holds whatever the text.                *)
THEOREM LexerInvariant == LexSpec => []LexerInv
<1>1. LexInit => LexerInv
  BY LexerStarts
<1>2. LexerInv /\ [Lex]_lexer => LexerInv'
  <2> SUFFICES ASSUME LexerInv, [Lex]_lexer PROVE LexerInv'
    OBVIOUS
  <2>1. CASE Lex
    <3>1. MakesToken \/ PassesGap \/ EndLine \/ Stays
      BY <2>1, LexKinds DEF LexerInv
    <3> QED
      BY <3>1, TokenKept, GapKept, LineKept, StayKept DEF Stays
  <2>2. CASE UNCHANGED lexer
    BY <2>2, StayKept DEF lexer
  <2> QED
    BY <2>1, <2>2
<1> QED
  BY <1>1, <1>2, PTL DEF LexSpec

(* Nothing of a text is lost, read twice or out of order: between tokens    *)
(* there are blanks and comments only.                                     *)
THEOREM TextTiled == LexSpec => []TokensTile
<1>1. LexerInv => TokensTile
  BY DEF LexerInv
<1> QED
  BY <1>1, LexerInvariant, PTL

(* Every line and position that a report could quote is right.              *)
THEOREM TextAddressed == LexSpec => []AddressesRight
<1>1. LexerInv => AddressesRight
  BY DEF LexerInv
<1> QED
  BY <1>1, LexerInvariant, PTL

-----------------------------------------------------------------------------
(* No step turns on the spot, so a text of n characters is read in at most  *)
(* n steps: what EveryTextEnds rests on.                                    *)
Advances == stage' # stage \/ (file_pos < Size /\ file_pos' > file_pos)

LEMMA LexAdvances == Bookkeeping /\ Lex => Advances
<1> SUFFICES ASSUME Bookkeeping, Lex PROVE Advances
  OBVIOUS
<1>1. CASE AssertFails \/ Stuck \/ EndOfText
  BY <1>1 DEF AssertFails, Stuck, EndOfText, Lexing, Advances
<1>2. CASE ~(AssertFails \/ Stuck \/ EndOfText)
  <2>1. Lexing
    BY <1>2 DEF Lex, Directive, Tag, SkipBlanks, EndLine, String, Numeral, Bracket, Colon,
                Comment, Operator, Identifier
  <2>2. MakesToken => file_pos' > file_pos
    BY DEF MakesToken, Makes, AdvanceTo
  <2>3. PassesGap => file_pos' > file_pos
    BY DEF PassesGap, Passes, AdvanceTo
  <2>4. EndLine => file_pos' > file_pos
    <3>1. file_pos + 1 \in Nat /\ file_pos \in Nat /\ input \in Inputs
      BY DEF Bookkeeping
    <3>2. /\ Slurp(Blanks, file_pos + 1) \in Nat
          /\ Slurp(Blanks, file_pos + 1) >= file_pos + 1
      BY <3>1, SlurpRun
    <3>3. EndLine => file_pos' = Slurp(Blanks, file_pos + 1)
      BY DEF EndLine, Opening
    <3> QED
      BY <3>1, <3>2, <3>3
  <2>5. file_pos' > file_pos
    <3>1. Directive \/ Tag => MakesToken
      BY DirectiveKind
    <3>2. Colon \/ Operator => MakesToken
      BY OperatorKind
    <3> QED
      BY <1>2, <2>2, <2>3, <2>4, <3>1, <3>2, BlankKind, CommentKind, StringKind, NumeralKind,
         BracketKind, IdentifierKind DEF Lex
  <2> QED
    BY <2>1, <2>5 DEF Lexing, Advances
<1> QED
  BY <1>1, <1>2

THEOREM LexerAdvances == LexSpec => [][Advances]_lexer
<1>1. LexerInv /\ [Lex]_lexer => [Advances]_lexer
  BY LexAdvances DEF LexerInv
<1> QED
  BY <1>1, LexerInvariant, PTL DEF LexSpec
=============================================================================
