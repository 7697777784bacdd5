----------------------------- MODULE MCCompiler -----------------------------
(***************************************************************************)
(* Programs for Compiler.                                                  *)
(***************************************************************************)
EXTENDS Compiler

Single(items) == "a" :> items

(* The names whose class follows, in n more steps, once those in S have     *)
(* theirs: a variable needs what its value names, a procedure nothing.      *)
RECURSIVE Reach(_, _, _)
Reach(items, S, n) ==
  IF n = 0 THEN S
  ELSE LET Follows(t) ==
             \/ t.k = "DECLARATION"
             \/ /\ t.k = "ASSIGNMENT"
                /\ t.value.k = "IDENT" => t.value.name \in S
           Named(t) == IF t.k = "DECLARATION" THEN t.name ELSE t.lhs.name
       IN  Reach(items,
                 S \cup {Named(items[i]) : i \in {j \in DOMAIN items : Follows(items[j])}},
                 n - 1)

(* The names that a statement uses of those declared around it. *)
RECURSIVE Uses(_)
Uses(t) ==
  LET Names(terms) ==
        UNION {Uses(terms[i]) : i \in DOMAIN terms}
          \ {terms[i].lhs.name : i \in {j \in DOMAIN terms :
               terms[j].k = "ASSIGNMENT" /\ terms[j].lhs.k = "DECLARATION"}}
  IN  CASE t.k = "IDENT" -> {t.name}
        [] t.k = "CALL" -> {t.name} \cup Names(t.args)
        [] t.k = "ASSIGNMENT" -> Uses(t.lhs) \cup Uses(t.value)
        [] t.k = "PROCEDURE" ->
             Names(t.body) \ {t.params[i].name : i \in DOMAIN t.params}
        [] t.k = "CONDITIONAL" -> Uses(t.cond) \cup Names(t.body)
        [] t.k = "POSTFIX" -> Uses(t.cond) \cup Names(t.body)
        [] t.k = "LOOP" -> Names(t.body)
        [] t.k = "RETURN" -> Names(t.values)
        [] OTHER -> {}

(* What all items need is there. *)
Solvable(items) ==
  \A i \in DOMAIN items :
    Uses(items[i]) \subseteq Reach(items, {}, Len(items)) \cup {"putc"}

(* The items of all files, a loaded one's with those of the first. *)
AllItems ==
  SelectSeq(program["a"] \o (IF "b" \in DOMAIN program THEN program["b"] ELSE <<>>),
            LAMBDA t : t.k # "LOAD")

(* Whether main uses a variable whose value is another one: the loop may    *)
(* then give up too early (the run called chain).                           *)
ReadsChain ==
  \E i, j \in DOMAIN AllItems :
    LET main == AllItems[i] copy == AllItems[j]
    IN  /\ main.k = "ASSIGNMENT" /\ main.lhs.name = "main"
        /\ copy.k = "ASSIGNMENT" /\ copy.value.k = "IDENT"
        /\ copy.lhs.name \in Uses(main)

(* README.md:130, "Top-level declarations are order independent": the       *)
(* verdict depends on what a program needs, never on the order of its items *)
(* or on the place of its loads; and a program that is compiled has run to  *)
(* its end.                                                                 *)
OrderIndependent ==
  Returned /\ ~ReadsChain => (Succeeded <=> Solvable(AllItems))

(* The sentinel's purpose (main.c:336-338), but for chains that main reads. *)
GivesUpSoundly == ReadsChain \/ GivesUpOnCyclesOnly

-----------------------------------------------------------------------------
(* What memory around a unit may hold: every opcode, which as an operand is *)
(* a small number, a distance backwards, and what is neither.               *)
HeapWords == {Num(n) : n \in 0 .. 10} \cup {Num(-10), Data, Junk}

(* What a signature that was freed may read as: itself, the lists of any    *)
(* procedures of the menus, in either place, or a fault.                    *)
FreedSignatures ==
  {Intact, Fault} \cup {Lists(from, to) : from, to \in {<<>>, <<Byte>>}}

-----------------------------------------------------------------------------
(* Three variables, each a number, declared, a copy or a procedure that     *)
(* makes a copy; and four, each a number or a copy.  A name may be of the   *)
(* item itself, of an earlier or a later one, so all orders are among them. *)

Bodies(names) == {Proc(<<>>, <<>>, <<Def("w", Ident(m))>>) : m \in names}

Copies(names) == {Ident(m) : m \in names}

Three == {"x", "y", "z"}
ThreeValues == {Number} \cup Copies(Three) \cup Bodies(Three)
ThreeItems(n) == {Def(n, v) : v \in ThreeValues} \cup {Decl(n, "byte")}

Four == {"x", "y", "z", "t"}
FourItems(n) == {Def(n, v) : v \in {Number} \cup Copies(Four)}

OrderPrograms ==
  {Single(<<i, j, k>>) :
     i \in ThreeItems("x"), j \in ThreeItems("y"), k \in ThreeItems("z")}
  \cup
  {Single(<<i, j, k, l>>) :
     i \in FourItems("x"), j \in FourItems("y"), k \in FourItems("z"),
     l \in FourItems("t")}

-----------------------------------------------------------------------------
(* Two files.  The second is loaded once or twice, before or after the      *)
(* items that use its variables, and uses one of the first's.               *)

Rotations(items) ==
  {[i \in DOMAIN items |-> items[((i + k) % Len(items)) + 1]] : k \in DOMAIN items}

LoadPrograms ==
  UNION {{"a" :> items @@ "b" :> <<Def("y", y), Def("z", z)>> :
            items \in
              Rotations(<<Load("b"), Def("x", x), Def("p", p)>>)
              \cup {<<Load("b"), Def("x", x), Def("p", p), Load("b")>>}} :
           x \in {Number, Ident("y"), Ident("z")}, p \in Bodies({"x", "z"}),
           y \in {Number, Ident("x"), Ident("z")},
           z \in {Number, Ident("x"), Ident("y")}}

VerdictPrograms == OrderPrograms \cup LoadPrograms

-----------------------------------------------------------------------------
(* Programs that run: a main with two statements out of a menu, between     *)
(* the variables, procedures and calls that it uses.                        *)

Statements(local) ==
  {Def(local, Ident("x")), Def(local, Ident("y")), Set("x", Ident("x")),
   Def(local, Ident("f")), CallTo("f", <<Ident("b")>>),
   Def(local, Proc(<<>>, <<>>, <<Def("v", Ident("x"))>>)),
   If(Ident("b"), <<CallTo("putc", <<Ident("b")>>)>>),
   PostfixIf(Ident("b"), CallTo("f", <<Ident("b")>>)),
   Loop(<<Break>>), Loop(<<CallTo("f", <<Ident("b")>>), ReturningVoid>>)}

F == Proc(<<Decl("b", "byte")>>, <<>>, <<CallTo("putc", <<Ident("b")>>)>>)

RunPrograms ==
  UNION {{Single(items) :
            items \in Rotations(
              <<Def("x", Number), Def("y", y), Def("f", F),
                Def("main", Proc(<<Decl("b", "byte")>>, <<>>, <<s, t>>))>>)} :
           s \in Statements("w"), t \in Statements("u"), y \in {Text, Ident("x")}}

(* The programs on which the compiler keeps all that it promises. *)
SoundPrograms == VerdictPrograms \cup RunPrograms

-----------------------------------------------------------------------------
(* Any three items out of a menu in any order: programs that redefine and   *)
(* misuse names, that do not typecheck, load what is not there, call what   *)
(* cannot be called, loop, and leave their stack in disorder.               *)

Menu ==
  {Load("b"), Malformed("x"), Set("x", Text), DefAs("x", "string", Text),
   DefAs("c", "int", Number), Def("x", Ident("f")), Def("x", Ident("x")),
   Def("c", CharOf), Decl("f", "byte"), Def("f", F),
   Def("f", Proc(<<Decl("u", "byte")>>, <<"byte">>,
                 <<Loop(<<Def("w", Ident("u")), Break>>), Returning(Ident("w"))>>)),
   Def("main", Proc(<<>>, <<>>,
                    <<Def("v", Proc(<<>>, <<>>, <<>>)),
                      Loop(<<Def("w", Ident("x")), Break>>)>>)),
   Def("main", Proc(<<Decl("b", "byte")>>, <<>>,
                    <<Def("w", CallTo("f", <<Ident("b")>>)), Ident("x"),
                      If(Ident("b"), <<Def("v", Ident("w"))>>)>>)),
   Def("main", Proc(<<Decl("b", "u9")>>, <<>>,
                    <<CallTo("main", <<>>), If(Ident("x"), <<Break>>)>>)),
   Def("main", Proc(<<Decl("b", "byte")>>, <<>>,
                    <<Loop(<<Break>>), CallTo("putc", <<Ident("b")>>),
                      PostfixIf(Ident("b"), CallTo("f", <<Ident("b")>>))>>)),
   Def("main", Proc(<<DefAs("b", "byte", Text)>>, <<>>, <<>>)),
   Def("main", Proc(<<>>, <<>>, <<Break, CallTo("f", <<>>)>>))}

WildPrograms ==
  {Single(<<i, j, k>>) : i \in Menu, j \in Menu, k \in Menu}

-----------------------------------------------------------------------------
(* Single programs on which the code does not do what is said of it. *)

(* x := 5, y := x, z := y and a main that reads z. *)
ChainPrograms ==
  {Single(<<Def("x", Number), Def("y", Ident("x")), Def("z", Ident("y")),
            Def("main", Proc(<<>>, <<>>, <<Def("w", Ident("z"))>>))>>)}

BreakPrograms ==
  {Single(<<Def("main", Proc(<<>>, <<>>, <<Loop(<<Def("x", Number), Break>>)>>))>>)}

(* f := () => { putc(c) }, c := d, d := b and b : byte, in any rotation. *)
CallPrograms ==
  {Single(items) :
     items \in Rotations(<<Def("f", Proc(<<>>, <<>>, <<CallTo("putc", <<Ident("c")>>)>>)),
                           Def("c", Ident("d")), Def("d", Ident("b")),
                           Decl("b", "byte")>>)}

(* An undeclared name in the block of an if. *)
BlockPrograms ==
  {Single(<<Def("f", Proc(<<Decl("a", "byte")>>, <<>>,
                          <<If(Ident("a"), <<Def("x", Ident("c"))>>)>>))>>)}

MissingPrograms == {Single(<<Load("b")>>)}

TwicePrograms == {"a" :> <<Load("b"), Load("b")>> @@ "b" :> <<Def("x", Number)>>}
=============================================================================
