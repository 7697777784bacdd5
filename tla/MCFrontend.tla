----------------------------- MODULE MCFrontend -----------------------------
(***************************************************************************)
(* Texts for Frontend.                                                     *)
(***************************************************************************)
EXTENDS Frontend

Chars(s) == [i \in 1 .. Len(s) |-> SubSeq(s, i, i)]

LettersUsed ==
  UNION {{SubSeq(s, i, i) : i \in 1 .. Len(s)} :
           s \in {"abcdefghijklmnopqrstuvwxyz", "ABCDEF"}}

MaxSnippet == 4

-----------------------------------------------------------------------------
(* Snippets: every short text of a few characters, on several builds and    *)
(* with several characters behind it.  They reach each case of the lexer    *)
(* next to each other case, and the end of the text in the middle of each.  *)

Snippets(alphabet, size) == UNION {[1 .. n -> alphabet] : n \in 0 .. size}

SnippetInputs ==
  [text : Snippets({"a", "0", ".", "x", "\n", "\r", " ", "/", ":", "("}, 3),
   after : {"x", "."}, outside : {{}, {"\r"}, {"\n", "\t"}}]
  \cup [text : Snippets({"\"", "\\", "\n", "a"}, MaxSnippet + 1),
        after : {"\n", "\"", "a"}, outside : {{}}]
  \cup [text : Snippets({"/", "\n", "+", "\t", "a"}, MaxSnippet),
        after : {"/"}, outside : {{}, {"\n"}}]

-----------------------------------------------------------------------------
(* Programs. *)

X == "x"
Nothing == Proc(<<>>, <<>>, <<>>)

Programs ==
  {<<Def("x", Number)>>, <<Decl("x", "int")>>, <<DefAs("x", "int", Number)>>,
   <<Set("x", CallTo("f", <<Text, CharOf, Ident("y")>>)), Def("y", Nothing)>>,
   <<Load("a"), Def("x", Text), Load("a")>>,
   <<Def("f", Proc(<<Decl("a", "int"), Def("b", Text)>>, <<"int">>,
                   <<Returning(Ident("a"))>>))>>,
   <<Def("f", Proc(<<DefAs("a", "int", Nothing)>>, <<"int", "int">>,
                   <<Def("x", Nothing), ReturningVoid>>)),
     Decl("g", "int")>>,
   <<Def("f", Proc(<<>>, <<>>,
       <<If(Ident("a"), <<Loop(<<Break>>)>>),
         PostfixIf(Ident("a"), CallTo("f", <<>>)),
         Decl("b", "int"), Set("b", Number)>>))>>}

(* Their layouts: spaces everywhere, only where the lexer needs them, and   *)
(* long lines broken in brackets, with comments.                            *)
Operators == {":", ":=", "=", "=>"}
Breaking == {"(", ","}
Wordlike(w) == w \notin Operators \cup {"(", ")", ",", "{", "}", "\n", "\"a\""}

Space(ws, i, layout) ==
  LET following == IF i < Len(ws) THEN ws[i + 1] ELSE "\n"
  IN  CASE layout = "wide" -> " "
        [] layout = "tight" ->
             IF ws[i] \in Operators \/ (Wordlike(ws[i]) /\ Wordlike(following)) THEN " " ELSE ""
        [] layout = "long" ->
             IF ws[i] \in Breaking THEN "\n\t" ELSE IF following = "\n" THEN " //a" ELSE " "

Layout(ws, layout) ==
  FlattenSeq([i \in DOMAIN ws |-> Chars(ws[i] \o Space(ws, i, layout))])

ProgramWords(items) == FlattenSeq([i \in DOMAIN items |-> Spelled(items[i]) \o <<"\n">>])

In(text) == [text |-> text, after |-> "a", outside |-> {}]
Meaning(text, items) == "items" :> items @@ In(text)

WrittenInputs ==
  {Meaning(Layout(ProgramWords(p), layout), p) :
     p \in Programs, layout \in {"wide", "tight", "long"}}
  \cup
  {Meaning(Layout(<<"x">> \o wrong \o <<"\n", "y", ":", "int", "\n">>, "wide"),
           <<Missing("end"), Decl("y", "int")>>) :
     wrong \in {<<":=", "0", "0">>, <<":=", "+">>, <<":", "0">>, <<":", "int", "=">>,
                <<"=", "if">>, <<":=", "{", "}">>, <<":=", "a", "(", "+", ")">>}}

(* Programs with a mistake: a word that is missing, or one too many. *)
Mistakes(ws) ==
  {RemoveAt(ws, i) : i \in DOMAIN ws}
  \cup {InsertAt(ws, i, w) : i \in DOMAIN ws, w \in {"+", "(", ")", "}", "\n", "a"}}

MistakenInputs ==
  UNION {{In(Layout(ws, "wide")) : ws \in Mistakes(ProgramWords(p))} : p \in Programs}

Texts == SnippetInputs \cup WrittenInputs \cup MistakenInputs
=============================================================================
