----------------------------- MODULE StackProofs -----------------------------
(***************************************************************************)
(* Proofs about the machines: as long as every unit is disciplined         *)
(* (Stacks.tla), what a machine has on its stack is, at every moment and   *)
(* however often it had to wait, one activation after the other of units   *)
(* that fit what they were called for.                                     *)
(***************************************************************************)
EXTENDS Stacks, WorkspaceProofs

-----------------------------------------------------------------------------
(* The inductive invariant. *)

IsSeq(s) == \E S : s \in Seq(S)

(* An activation of a unit that a machine has not left yet: where it goes   *)
(* on, the frame it belongs to, the height of the stack below its words,    *)
(* and their kinds.  If it has called another one, then as it will be once  *)
(* that has returned.                                                       *)
Level(id, ip, fp, base, role, words, stored) ==
  [id |-> id, ip |-> ip, fp |-> fp, base |-> base, role |-> role,
   words |-> words, stored |-> stored]

Standing(l) == State(l.ip + 1, l.words, l.stored)

StandsIn(nodes, units, l, R) ==
  /\ Disciplined(nodes, units[l.id + 1], l.role, R)
  /\ Standing(l) \in R
  /\ l.id = 0 => l.role = BootRole /\ R = BootStates

Fits(nodes, units, l) ==
  /\ l = Level(l.id, l.ip, l.fp, l.base, l.role, l.words, l.stored)
  /\ l.id \in Nat /\ l.id + 1 \in 1 .. Len(units)
  /\ l.ip \in Int /\ l.fp \in Int /\ l.base \in Nat
  /\ IsSeq(l.words)
  /\ l.stored \in BOOLEAN
  /\ l.stored => l.role.target \in DOMAIN nodes /\ nodes[l.role.target].initialized
  /\ \E R : StandsIn(nodes, units, l, R)

(* The words of a stack above a height have these kinds. *)
HaveKinds(nodes, stack, base, kinds, n) ==
  \A i \in 1 .. n : HasKind(nodes, stack[base + i], kinds[i])

(* The kind of the k-th argument of a frame, counted from 0. *)
ArgumentsThere(nodes, stack, base, params) ==
  \A k \in Nat : k + 1 \in DOMAIN params =>
    IF base - 4 - k >= 1 THEN HasKind(nodes, stack[base - 4 - k], Kind(params[k + 1]))
                         ELSE Kind(params[k + 1]) = Plain

(* Between an activation and the one it has called: the words it keeps, the *)
(* arguments, and the frame that leads back.                                *)
Kept(l, c) == Len(l.words) - Len(Outcome(c.role.class))

Linked(nodes, stack, l, c) ==
  /\ IsProcClass(c.role.class)
  /\ Len(Results(c.role.class)) \in 0 .. 1
  /\ Kept(l, c) >= 0
  /\ HaveKinds(nodes, stack, l.base, l.words, Kept(l, c))
  /\ \A i \in 1 .. Len(Outcome(c.role.class)) :
       l.words[Kept(l, c) + i] = Outcome(c.role.class)[i]
  /\ c.base - 4 - Kept(l, c) - l.base >= 0
  /\ stack[c.base - 3] = Num(c.base - 4 - Kept(l, c) - l.base)
  /\ stack[c.base - 2] = Num(l.fp)
  /\ stack[c.base - 1] = Num(l.ip)
  /\ stack[c.base] = Num(l.id)
  /\ c.fp = c.base - 1
  /\ ArgumentsThere(nodes, stack, c.base, Parameters(c.role.class))

(* The activations, the first one that nobody has called. *)
Levels(nodes, units, stack, L, n) ==
  /\ n \in Nat \ {0}
  /\ \A j \in 1 .. n : Fits(nodes, units, L[j])
  /\ L[1].base = 0 /\ L[1].fp = NoFrame /\ ~Called(L[1].role)
  /\ \A i, j \in 1 .. n : i <= j => L[i].base <= L[j].base
  /\ \A j \in 1 .. n - 1 : Linked(nodes, stack, L[j], L[j + 1])

(* The last one is what the machine is running. *)
Executing(nodes, m, l) ==
  /\ m.id = l.id /\ m.ip = l.ip /\ m.fp = l.fp
  /\ m.stack \in Seq(Words)
  /\ Len(m.stack) = l.base + Len(l.words)
  /\ HaveKinds(nodes, m.stack, l.base, l.words, Len(l.words))

(* The machine was started with this unit: an initializer's if it is one. *)
StartsFor(nodes, inits, l) ==
  \A k \in 1 .. Len(inits) :
    nodes[inits[k]].code = l.id => l.role.target = nodes[inits[k]].lhs

Tracks(nodes, units, inits, m, L, n) ==
  /\ Levels(nodes, units, m.stack, L, n)
  /\ Executing(nodes, m, L[n])
  /\ StartsFor(nodes, inits, L[1])

Tracked(nodes, units, inits, m, u) ==
  \E L : \E n \in Nat : Tracks(nodes, units, inits, m, L, n) /\ L[1].id = u

IsBegun(nodes, decl) == decl \in DOMAIN nodes /\ Begun(nodes[decl])

(* Every machine was started once for every unit but the bootstrap, and a   *)
(* variable's initializer only once that is known.                          *)
Origins(org) ==
  /\ org \in Seq(Int) /\ Len(org) = Len(queue)
  /\ \A i \in Jobs("EXECUTE") :
       Tracked(ast, bytecode, initializers, queue[i].vm, org[i])
  /\ vm # Idle => Tracked(ast, bytecode, initializers, vm, org[1])
  /\ \A i, j \in Jobs("EXECUTE") : org[i] = org[j] /\ org[i] # 0 => i = j
  /\ \A i \in Jobs("EXECUTE") : \A k \in 1 .. Len(initializers) :
       ast[initializers[k]].code = org[i] => IsBegun(ast, ast[initializers[k]].lhs)

MachinesFine == \E org : Origins(org)

(* A variable that counts as initialized holds what its class says. *)
ValuesFine ==
  \A p \in DOMAIN ast : ast[p].initialized =>
    ast[p].class # NoType /\ HasKind(ast, ast[p].value, Kind(ast[p].class))

FitsRole(nodes, code, role) == \E R : Disciplined(nodes, code, role, R)

BodiesFine ==
  \A b \in DOMAIN ast : Callable(ast, b) /\ ast[b].code # -1 =>
    FitsRole(ast, bytecode[ast[b].code + 1], Role(Signature(ast, b), NoNode))

StartsFine ==
  \A k \in 1 .. Len(initializers) :
    FitsRole(ast, bytecode[ast[initializers[k]].code + 1],
             Role(NoType, ast[initializers[k]].lhs))

BootFine ==
  /\ Putc \in DOMAIN ast /\ ast[Putc].class # NoType
  /\ PutcCode \in DOMAIN ast /\ ast[PutcCode].code # -1
  /\ \A p \in DOMAIN ast : ast[p].code # 0
  /\ bytecode[1] = Bootstrap \/ \E p : bytecode[1] = Boot(p)

SInv == MachinesFine /\ ValuesFine /\ BodiesFine /\ StartsFine /\ BootFine
-----------------------------------------------------------------------------
(* Sequences of kinds. *)

LEMMA WiderSeq ==
  ASSUME NEW S, NEW T, S \subseteq T, NEW s \in Seq(S)
  PROVE  s \in Seq(T)
OBVIOUS

LEMMA SeqPushed ==
  ASSUME NEW s, IsSeq(s), NEW e
  PROVE  /\ IsSeq(Append(s, e)) /\ Len(s) \in Nat
         /\ Len(Append(s, e)) = Len(s) + 1
         /\ \A i \in 1 .. Len(s) : Append(s, e)[i] = s[i]
         /\ Append(s, e)[Len(s) + 1] = e
<1>1. PICK S : s \in Seq(S)
  BY DEF IsSeq
<1> DEFINE T == S \cup {e}
<1>2. s \in Seq(T) /\ e \in T
  BY <1>1, WiderSeq
<1> HIDE DEF T
<1>3. Append(s, e) \in Seq(T)
  BY <1>2
<1> QED
  BY <1>2, <1>3 DEF IsSeq

LEMMA SeqShortened ==
  ASSUME NEW s, IsSeq(s), NEW n \in 0 .. Len(s)
  PROVE  /\ IsSeq(Shortened(s, n)) /\ Len(s) \in Nat
         /\ Len(Shortened(s, n)) = Len(s) - n
         /\ \A i \in 1 .. Len(s) - n : Shortened(s, n)[i] = s[i]
<1>1. PICK S : s \in Seq(S)
  BY DEF IsSeq
<1>2. Len(s) \in Nat
  BY <1>1
<1> DEFINE m == Len(s) - n
           r == SubSeq(s, 1, m)
<1>3. m \in 0 .. Len(s)
  BY <1>2
<1>4. r \in Seq(S) /\ Len(r) = m /\ \A i \in 1 .. m : r[i] = s[i]
  BY <1>1, <1>2, <1>3
<1>5. Shortened(s, n) = r
  BY DEF Shortened
<1> HIDE DEF r
<1> QED
  BY <1>2, <1>4, <1>5 DEF IsSeq

(* What of u = s \o t is used. *)
Joined(s, t, u) ==
  /\ IsSeq(u) /\ Len(s) \in Nat /\ Len(t) \in Nat
  /\ Len(u) = Len(s) + Len(t)
  /\ \A i \in 1 .. Len(s) : u[i] = s[i]
  /\ \A i \in 1 .. Len(t) : u[Len(s) + i] = t[i]

LEMMA SeqJoined ==
  ASSUME NEW s, IsSeq(s), NEW t, IsSeq(t)
  PROVE  Joined(s, t, s \o t)
<1>1. PICK S : s \in Seq(S)
  BY DEF IsSeq
<1>2. PICK T : t \in Seq(T)
  BY DEF IsSeq
<1> DEFINE U == S \cup T
<1>3. s \in Seq(U) /\ t \in Seq(U)
  BY <1>1, <1>2, WiderSeq
<1> HIDE DEF U
<1>4. s \o t \in Seq(U)
  BY <1>3
<1>5. /\ Len(s) \in Nat /\ Len(t) \in Nat /\ Len(s \o t) = Len(s) + Len(t)
      /\ \A i \in 1 .. Len(s) : (s \o t)[i] = s[i]
      /\ \A i \in 1 .. Len(t) : (s \o t)[Len(s) + i] = t[i]
  BY <1>3
<1> QED
  BY <1>4, <1>5 DEF Joined, IsSeq

(* There is at most one result. *)
LEMMA OutcomeSeq ==
  ASSUME NEW class, Len(Results(class)) \in 0 .. 1
  PROVE  /\ IsSeq(Outcome(class))
         /\ Len(Outcome(class)) = Len(Results(class))
         /\ Outcome(class) = <<>> <=> Len(Results(class)) = 0
<1> DEFINE k == Kind(Results(class)[1])
<1>1. CASE Len(Results(class)) = 0
  <2>1. Outcome(class) = <<>>
    BY <1>1 DEF Outcome
  <2>2. <<>> \in Seq({}) /\ Len(<<>>) = 0
    OBVIOUS
  <2>3. IsSeq(<<>>)
    BY <2>2 DEF IsSeq
  <2> QED
    BY <1>1, <2>1, <2>2, <2>3
<1>2. CASE Len(Results(class)) = 1
  <2>1. Outcome(class) = <<k>>
    BY <1>2 DEF Outcome
  <2> HIDE DEF k
  <2>2. <<k>> \in Seq({k}) /\ Len(<<k>>) = 1 /\ <<k>> # <<>>
    OBVIOUS
  <2>3. IsSeq(<<k>>)
    BY <2>2 DEF IsSeq
  <2> QED
    BY <1>2, <2>1, <2>2, <2>3
<1> QED
  BY <1>1, <1>2

(* What a unit may do where it stands, for every instruction. *)
LEMMA NowhereOutside ==
  ASSUME NEW nodes, NEW code \in Seq(Words), NEW role, NEW R,
         Disciplined(nodes, code, role, R)
  PROVE  Nowhere \notin R
<1>1. \A t \in R : t.at \in 1 .. Len(code)
  BY DEF Disciplined, Inside
<1>2. Nowhere.at = 0
  BY DEF Nowhere, State
<1> QED
  BY <1>1, <1>2

(* What is known of an instruction that a unit reaches. *)
Fact(nodes, code, role, R, t) ==
  LET op == code[t.at]
      arg == code[t.at + 1]
      count == code[t.at + 2]
      n == Len(t.words)
      class == nodes[arg[2]].class
      params == Parameters(role.class)
  IN  /\ op = RETURN => MayReturn(role, arg, t)
      /\ op = LOAD =>
           /\ IsVariable(nodes, arg)
           /\ State(t.at + 2, Append(t.words, Kind(class)), t.stored) \in R
      /\ op = STORE =>
           /\ IsVariable(nodes, arg) /\ n > 0 /\ t.words[n] = Kind(class)
           /\ State(t.at + 2, Shortened(t.words, 1),
                    t.stored \/ arg[2] = role.target) \in R
      /\ op = ARG_LOAD =>
           /\ arg[1] = "num" /\ arg[2] >= 0 /\ Called(role)
           /\ arg[2] + 1 \in DOMAIN params
           /\ State(t.at + 2, Append(t.words, Kind(params[arg[2] + 1])), t.stored) \in R
      /\ op = ARG_ADDR =>
           /\ arg[1] = "num"
           /\ State(t.at + 2, Append(t.words, Plain), t.stored) \in R
      /\ op = PUSH /\ arg[1] # "node" =>
           State(t.at + 2, Append(t.words, Plain), t.stored) \in R
      /\ op = PUSH /\ arg[1] = "node" =>
           LET kind == Signature(nodes, arg[2])
           IN  /\ IsProcClass(kind) /\ HasKind(nodes, arg, kind)
               /\ State(t.at + 2, Append(t.words, kind), t.stored) \in R
      /\ op = CALL =>
           /\ MayCall(nodes, arg, count, role, t.words)
           /\ State(t.at + 3, AfterCall(class, count[2], t.words), t.stored) \in R
      /\ op = SYSCALL =>
           /\ arg[1] = "num" /\ arg[2] \in 0 .. n
           /\ State(t.at + 2, Shortened(t.words, arg[2]), t.stored) \in R
      /\ op = JUMP =>
           arg[1] = "num" /\ State(t.at + 2 + arg[2], t.words, t.stored) \in R
      /\ op = JUMP_ZERO =>
           /\ arg[1] = "num" /\ n > 0
           /\ State(t.at + 2, Shortened(t.words, 1), t.stored) \in R
           /\ State(t.at + 2 + arg[2], Shortened(t.words, 1), t.stored) \in R

Known == {RETURN, LOAD, STORE, ARG_LOAD, ARG_ADDR, PUSH, CALL, SYSCALL, JUMP,
          JUMP_ZERO}

LEMMA Distinct ==
  /\ RETURN \notin {LOAD, STORE, ARG_LOAD, ARG_ADDR, PUSH, CALL, SYSCALL, JUMP, JUMP_ZERO}
  /\ LOAD \notin {STORE, ARG_LOAD, ARG_ADDR, PUSH, CALL, SYSCALL, JUMP, JUMP_ZERO}
  /\ STORE \notin {ARG_LOAD, ARG_ADDR, PUSH, CALL, SYSCALL, JUMP, JUMP_ZERO}
  /\ ARG_LOAD \notin {ARG_ADDR, PUSH, CALL, SYSCALL, JUMP, JUMP_ZERO}
  /\ ARG_ADDR \notin {PUSH, CALL, SYSCALL, JUMP, JUMP_ZERO}
  /\ PUSH \notin {CALL, SYSCALL, JUMP, JUMP_ZERO}
  /\ CALL \notin {SYSCALL, JUMP, JUMP_ZERO}
  /\ SYSCALL \notin {JUMP, JUMP_ZERO}
  /\ JUMP # JUMP_ZERO
BY DEF RETURN, LOAD, STORE, ARG_LOAD, ARG_ADDR, PUSH, CALL, SYSCALL, JUMP, JUMP_ZERO, Num

LEMMA StepsKnown ==
  ASSUME NEW nodes, NEW code, NEW role, NEW R, NEW t,
         Steps(nodes, code, role, t) \subseteq R, Nowhere \notin R
  PROVE  code[t.at] \in Known /\ Fact(nodes, code, role, R, t)
<1>1. \A x : {x} \subseteq R => x \in R
  OBVIOUS
<1> QED
  BY <1>1, Distinct, SMTT(30) DEF Steps, Known, Fact

LEMMA KnownSteps ==
  ASSUME NEW nodes, NEW code, NEW role, NEW R, NEW t,
         code[t.at] \in Known, Fact(nodes, code, role, R, t)
  PROVE  Steps(nodes, code, role, t) \subseteq R
BY Distinct, SMTT(30) DEF Steps, Known, Fact

-----------------------------------------------------------------------------
(* What later nodes and units leave valid. *)

NodesKept(a, b) ==
  /\ DOMAIN a \subseteq DOMAIN b /\ Putc \in DOMAIN a
  /\ \A p \in DOMAIN a :
       /\ b[p].kind = a[p].kind
       /\ a[p].code # -1 => b[p].code = a[p].code
       /\ a[p].class # NoType => b[p].class = a[p].class /\ b[p].lhs = a[p].lhs
       /\ a[p].initialized => b[p].initialized

UnitsKept(b, units, later) ==
  /\ units \in Seq(Seq(Words)) /\ later \in Seq(Seq(Words))
  /\ Len(units) <= Len(later)
  /\ \A u \in 2 .. Len(units) : later[u] = units[u]
  /\ later[1] = units[1] \/ Disciplined(b, later[1], BootRole, BootStates)

LEMMA VariableStays ==
  ASSUME NEW a, NEW b, NodesKept(a, b), NEW word, IsVariable(a, word)
  PROVE  IsVariable(b, word) /\ b[word[2]].class = a[word[2]].class
BY DEF NodesKept, IsVariable

LEMMA SignatureStays ==
  ASSUME NEW a, NEW b, NodesKept(a, b), NEW p, Callable(a, p),
         Signature(a, p) # NoType
  PROVE  Callable(b, p) /\ Signature(b, p) = Signature(a, p)
BY DEF NodesKept, Callable, Signature, IsBody

LEMMA KindStays ==
  ASSUME NEW a, NEW b, NodesKept(a, b), NEW word, NEW kind, HasKind(a, word, kind)
  PROVE  HasKind(b, word, kind)
<1>1. CASE kind = Plain
  BY <1>1 DEF HasKind
<1>2. CASE kind # Plain
  <2>1. /\ word[1] = "node" /\ word[2] \in DOMAIN a
        /\ Callable(a, word[2]) /\ a[word[2]].code # -1
        /\ Signature(a, word[2]) = kind
    BY <1>2 DEF HasKind
  <2>2. Callable(b, word[2]) /\ Signature(b, word[2]) = kind
    BY <1>2, <2>1, SignatureStays DEF Plain
  <2>3. word[2] \in DOMAIN b /\ b[word[2]].code # -1
    BY <2>1 DEF NodesKept
  <2> QED
    BY <1>2, <2>1, <2>2, <2>3 DEF HasKind
<1> QED
  BY <1>1, <1>2

LEMMA ProcIsKind ==
  ASSUME NEW class, IsProcClass(class)
  PROVE  class # Plain /\ class # NoType /\ Kind(class) = class
BY DEF IsProcClass, Kind, Plain

LEMMA CallStays ==
  ASSUME NEW a, NEW b, NodesKept(a, b), NEW decl, NEW count, NEW role, NEW words,
         MayCall(a, decl, count, role, words)
  PROVE  MayCall(b, decl, count, role, words) /\ b[decl[2]].class = a[decl[2]].class
<1>1. IsVariable(b, decl) /\ b[decl[2]].class = a[decl[2]].class
  BY VariableStays DEF MayCall
<1> QED
  BY <1>1 DEF MayCall

LEMMA FactStays ==
  ASSUME NEW a, NEW b, NodesKept(a, b), NEW code, NEW role, NEW R, NEW t,
         Fact(a, code, role, R, t)
  PROVE  Fact(b, code, role, R, t)
<1> DEFINE arg == code[t.at + 1]
           count == code[t.at + 2]
           kind == Signature(a, arg[2])
<1>1. IsVariable(a, arg) => IsVariable(b, arg) /\ b[arg[2]].class = a[arg[2]].class
  BY VariableStays
<1>2. MayCall(a, arg, count, role, t.words) =>
        MayCall(b, arg, count, role, t.words) /\ b[arg[2]].class = a[arg[2]].class
  BY CallStays
<1>3. IsProcClass(kind) /\ HasKind(a, arg, kind) =>
        HasKind(b, arg, kind) /\ Signature(b, arg[2]) = kind
  <2> SUFFICES ASSUME IsProcClass(kind), HasKind(a, arg, kind)
               PROVE  HasKind(b, arg, kind) /\ Signature(b, arg[2]) = kind
    OBVIOUS
  <2>1. kind # Plain
    BY ProcIsKind
  <2>2. HasKind(b, arg, kind)
    BY KindStays
  <2> HIDE DEF kind
  <2> QED
    BY <2>1, <2>2 DEF HasKind
<1> QED
  BY <1>1, <1>2, <1>3 DEF Fact

LEMMA DisciplineStays ==
  ASSUME NEW a, NEW b, NodesKept(a, b), NEW code \in Seq(Words), NEW role, NEW R,
         Disciplined(a, code, role, R)
  PROVE  Disciplined(b, code, role, R)
<1>1. Nowhere \notin R
  BY NowhereOutside
<1>2. ASSUME NEW t \in R PROVE Inside(code, t) /\ Steps(b, code, role, t) \subseteq R
  <2>1. Inside(code, t) /\ Steps(a, code, role, t) \subseteq R
    BY DEF Disciplined
  <2>2. code[t.at] \in Known /\ Fact(a, code, role, R, t)
    BY <1>1, <2>1, StepsKnown
  <2>3. Fact(b, code, role, R, t)
    BY <2>2, FactStays
  <2> QED
    BY <2>1, <2>2, <2>3, KnownSteps
<1>3. Entry \in R
  BY DEF Disciplined
<1> QED
  BY <1>2, <1>3 DEF Disciplined

LEMMA FitStays ==
  ASSUME NEW a, NEW b, NodesKept(a, b), NEW units, NEW later,
         UnitsKept(b, units, later), NEW l, Fits(a, units, l)
  PROVE  Fits(b, later, l)
<1>1. PICK R : StandsIn(a, units, l, R)
  BY DEF Fits
<1>2. /\ l.id \in Nat /\ l.id + 1 \in 1 .. Len(units)
      /\ Len(units) \in Nat /\ Len(later) \in Nat /\ Len(units) <= Len(later)
      /\ \A u \in 1 .. Len(units) : units[u] \in Seq(Words)
  <2>1. /\ l.id \in Nat /\ l.id + 1 \in 1 .. Len(units)
    BY DEF Fits
  <2>2. units \in Seq(Seq(Words)) /\ later \in Seq(Seq(Words)) /\ Len(units) <= Len(later)
    BY DEF UnitsKept
  <2> QED
    BY <2>1, <2>2
<1>3. l.id + 1 \in 1 .. Len(later)
  BY <1>2
<1>4. Disciplined(b, units[l.id + 1], l.role, R)
  BY <1>1, <1>2, DisciplineStays DEF StandsIn
<1>5. Disciplined(b, later[l.id + 1], l.role, R)
  <2>1. CASE l.id = 0
    <3>1. later[1] = units[1] \/ Disciplined(b, later[1], BootRole, BootStates)
      BY DEF UnitsKept
    <3>2. l.role = BootRole /\ R = BootStates /\ l.id + 1 = 1
      BY <1>1, <2>1 DEF StandsIn
    <3> QED
      BY <1>4, <3>1, <3>2
  <2>2. CASE l.id # 0
    <3>1. l.id + 1 \in 2 .. Len(units)
      BY <1>2, <2>2
    <3> QED
      BY <1>4, <3>1 DEF UnitsKept
  <2> QED
    BY <2>1, <2>2
<1>6. StandsIn(b, later, l, R)
  BY <1>1, <1>5 DEF StandsIn
<1>7. l.stored => l.role.target \in DOMAIN b /\ b[l.role.target].initialized
  BY DEF Fits, NodesKept
<1> QED
  BY <1>3, <1>6, <1>7 DEF Fits

LEMMA LinkStays ==
  ASSUME NEW a, NEW b, NodesKept(a, b), NEW stack, NEW l, NEW c,
         Linked(a, stack, l, c)
  PROVE  Linked(b, stack, l, c)
<1>1. HaveKinds(b, stack, l.base, l.words, Kept(l, c))
  BY KindStays DEF Linked, HaveKinds
<1>2. ArgumentsThere(b, stack, c.base, Parameters(c.role.class))
  BY KindStays DEF Linked, ArgumentsThere
<1> QED
  BY <1>1, <1>2 DEF Linked

LEMMA LevelsStay ==
  ASSUME NEW a, NEW b, NodesKept(a, b), NEW units, NEW later,
         UnitsKept(b, units, later), NEW stack, NEW L, NEW n,
         Levels(a, units, stack, L, n)
  PROVE  Levels(b, later, stack, L, n)
<1>1. \A j \in 1 .. n : Fits(b, later, L[j])
  BY FitStays DEF Levels
<1>2. \A j \in 1 .. n - 1 : Linked(b, stack, L[j], L[j + 1])
  BY LinkStays DEF Levels
<1> QED
  BY <1>1, <1>2 DEF Levels

(* The initializers there are, and those that units added since have.       *)
StartsKept(a, inits, b, laterInits, units) ==
  \A k \in 1 .. Len(laterInits) :
    \/ /\ k \in 1 .. Len(inits)
       /\ b[laterInits[k]].code = a[inits[k]].code
       /\ b[laterInits[k]].lhs = a[inits[k]].lhs
    \/ b[laterInits[k]].code = Len(units)

LEMMA TrackStays ==
  ASSUME NEW a, NEW b, NodesKept(a, b), NEW units, NEW later,
         UnitsKept(b, units, later), NEW inits, NEW laterInits,
         StartsKept(a, inits, b, laterInits, units),
         NEW m, NEW L, NEW n, Tracks(a, units, inits, m, L, n)
  PROVE  Tracks(b, later, laterInits, m, L, n)
<1>1. Levels(b, later, m.stack, L, n)
  BY LevelsStay DEF Tracks
<1>2. Executing(b, m, L[n])
  <2>1. HaveKinds(b, m.stack, L[n].base, L[n].words, Len(L[n].words))
    BY KindStays DEF Tracks, Executing, HaveKinds
  <2> QED
    BY <2>1 DEF Tracks, Executing
<1>3. StartsFor(b, laterInits, L[1])
  <2>1. 1 \in 1 .. n
    BY DEF Tracks, Levels
  <2>2. L[1].id \in Nat /\ L[1].id + 1 <= Len(units) /\ Len(units) \in Nat
    BY <2>1 DEF Tracks, Levels, Fits, UnitsKept
  <2>3. L[1].id # Len(units)
    BY <2>2
  <2> QED
    BY <2>3 DEF Tracks, StartsFor, StartsKept
<1> QED
  BY <1>1, <1>2, <1>3 DEF Tracks

LEMMA TrackedStays ==
  ASSUME NEW a, NEW b, NodesKept(a, b), NEW units, NEW later,
         UnitsKept(b, units, later), NEW inits, NEW laterInits,
         StartsKept(a, inits, b, laterInits, units),
         NEW m, NEW u, Tracked(a, units, inits, m, u)
  PROVE  Tracked(b, later, laterInits, m, u)
<1>1. PICK L : \E n \in Nat : Tracks(a, units, inits, m, L, n) /\ L[1].id = u
  BY DEF Tracked
<1>2. PICK n \in Nat : Tracks(a, units, inits, m, L, n) /\ L[1].id = u
  BY <1>1
<1>3. Tracks(b, later, laterInits, m, L, n)
  BY <1>2, TrackStays
<1> QED
  BY <1>2, <1>3 DEF Tracked

-----------------------------------------------------------------------------
(* A machine that goes on in the unit it is in. *)

(* A frame lies above the words and the arguments that the caller keeps.    *)
LEMMA FrameAbove ==
  ASSUME NEW nodes, NEW stack, NEW l, NEW c, Linked(nodes, stack, l, c),
         l.base \in Nat, c.base \in Nat, IsSeq(l.words)
  PROVE  /\ Kept(l, c) \in Nat /\ c.base >= 4
         /\ l.base + Kept(l, c) <= c.base - 4
         /\ Len(Outcome(c.role.class)) \in 0 .. 1
<1>1. Len(Outcome(c.role.class)) \in 0 .. 1
  BY OutcomeSeq DEF Linked
<1>2. Len(l.words) \in Nat
  BY SeqPushed
<1>3. Kept(l, c) \in Nat
  BY <1>1, <1>2 DEF Kept, Linked
<1> QED
  BY <1>1, <1>3 DEF Linked

LEMMA LinkBelow ==
  ASSUME NEW nodes, NEW stack, NEW later, NEW l, NEW c, NEW d,
         Linked(nodes, stack, l, c), l.base \in Nat, c.base \in Nat, IsSeq(l.words),
         d.base = c.base, d.role = c.role, d.fp = c.fp,
         \A i \in 1 .. c.base : later[i] = stack[i]
  PROVE  Linked(nodes, later, l, d)
<1>1. /\ Kept(l, c) \in Nat /\ c.base >= 4 /\ l.base + Kept(l, c) <= c.base - 4
      /\ Kept(l, d) = Kept(l, c)
  BY FrameAbove DEF Kept
<1>2. HaveKinds(nodes, later, l.base, l.words, Kept(l, c))
  <2> SUFFICES ASSUME NEW i \in 1 .. Kept(l, c)
               PROVE  HasKind(nodes, later[l.base + i], l.words[i])
    BY DEF HaveKinds
  <2>1. l.base + i \in 1 .. c.base
    BY <1>1
  <2>2. HasKind(nodes, stack[l.base + i], l.words[i])
    BY DEF Linked, HaveKinds
  <2> QED
    BY <2>1, <2>2
<1>3. ArgumentsThere(nodes, later, c.base, Parameters(c.role.class))
  <2> DEFINE params == Parameters(c.role.class)
  <2>1. ArgumentsThere(nodes, stack, c.base, params)
    BY DEF Linked
  <2> HIDE DEF params
  <2> SUFFICES ASSUME NEW k \in Nat, k + 1 \in DOMAIN params
               PROVE  IF c.base - 4 - k >= 1
                        THEN HasKind(nodes, later[c.base - 4 - k], Kind(params[k + 1]))
                        ELSE Kind(params[k + 1]) = Plain
    BY DEF ArgumentsThere, params
  <2>2. c.base - 4 - k >= 1 => c.base - 4 - k \in 1 .. c.base
    OBVIOUS
  <2> QED
    BY <2>1, <2>2 DEF ArgumentsThere
<1>4. /\ later[c.base - 3] = stack[c.base - 3] /\ later[c.base - 2] = stack[c.base - 2]
      /\ later[c.base - 1] = stack[c.base - 1] /\ later[c.base] = stack[c.base]
  BY <1>1
<1> QED
  BY <1>1, <1>2, <1>3, <1>4 DEF Linked

(* Activations are typed. *)
LEMMA LevelFields ==
  ASSUME NEW nodes, NEW units, NEW l, Fits(nodes, units, l)
  PROVE  /\ l.id \in Nat /\ l.ip \in Int /\ l.fp \in Int /\ l.base \in Nat
         /\ IsSeq(l.words) /\ Len(l.words) \in Nat /\ l.stored \in BOOLEAN
BY SeqPushed DEF Fits

LEMMA LevelOf ==
  ASSUME NEW id, NEW ip, NEW fp, NEW base, NEW role, NEW words, NEW stored
  PROVE  LET l == Level(id, ip, fp, base, role, words, stored)
         IN  /\ l.id = id /\ l.ip = ip /\ l.fp = fp /\ l.base = base
             /\ l.role = role /\ l.words = words /\ l.stored = stored
BY DEF Level

LEMMA FitsIn ==
  ASSUME NEW nodes, NEW units, NEW l, NEW R,
         Fits(nodes, units, l), StandsIn(nodes, units, l, R),
         NEW ip \in Int, NEW words, IsSeq(words), NEW stored \in BOOLEAN,
         State(ip + 1, words, stored) \in R,
         stored => l.role.target \in DOMAIN nodes /\ nodes[l.role.target].initialized
  PROVE  Fits(nodes, units, Level(l.id, ip, l.fp, l.base, l.role, words, stored))
<1>1. PICK k : k = Level(l.id, ip, l.fp, l.base, l.role, words, stored)
  OBVIOUS
<1>2. /\ k.id = l.id /\ k.ip = ip /\ k.fp = l.fp /\ k.base = l.base
      /\ k.role = l.role /\ k.words = words /\ k.stored = stored
  BY <1>1, LevelOf
<1>3. StandsIn(nodes, units, k, R)
  BY <1>2 DEF StandsIn, Standing
<1>4. k = Level(k.id, k.ip, k.fp, k.base, k.role, k.words, k.stored)
  BY <1>1, <1>2
<1>5. Fits(nodes, units, k)
  BY <1>2, <1>3, <1>4 DEF Fits
<1> QED
  BY <1>1, <1>5

(* Bases, links and the first activation after the last one has changed.    *)
LEMMA LevelsChanged ==
  ASSUME NEW nodes, NEW units, NEW stack, NEW later, NEW L, NEW n, NEW l,
         Levels(nodes, units, stack, L, n), Fits(nodes, units, l),
         l.base = L[n].base, l.role = L[n].role, l.fp = L[n].fp,
         \A i \in 1 .. l.base : later[i] = stack[i]
  PROVE  Levels(nodes, units, later, [j \in 1 .. n |-> IF j = n THEN l ELSE L[j]], n)
<1>1. PICK M : M = [j \in 1 .. n |-> IF j = n THEN l ELSE L[j]]
  OBVIOUS
<1>2. n \in Nat \ {0} /\ 1 \in 1 .. n /\ n \in 1 .. n
  BY DEF Levels
<1>3. \A j \in 1 .. n : /\ M[j] = IF j = n THEN l ELSE L[j]
                        /\ M[j].base = L[j].base /\ M[j].role = L[j].role
                        /\ M[j].fp = L[j].fp /\ Fits(nodes, units, M[j])
  BY <1>1 DEF Levels
<1>4. \A j \in 1 .. n - 1 : Linked(nodes, later, M[j], M[j + 1])
  <2> SUFFICES ASSUME NEW j \in 1 .. n - 1 PROVE Linked(nodes, later, M[j], M[j + 1])
    OBVIOUS
  <2>1. j \in 1 .. n /\ j + 1 \in 1 .. n /\ j # n /\ j + 1 <= n
    BY <1>2
  <2>2. M[j] = L[j] /\ Linked(nodes, stack, L[j], L[j + 1])
    BY <1>3, <2>1 DEF Levels
  <2>3. L[j].base \in Nat /\ IsSeq(L[j].words) /\ L[j + 1].base \in Nat /\ L[n].base \in Nat
    BY <1>2, <2>1, LevelFields DEF Levels
  <2>4. L[j + 1].base <= l.base
    BY <1>2, <2>1 DEF Levels
  <2>5. \A i \in 1 .. L[j + 1].base : later[i] = stack[i]
    BY <2>3, <2>4
  <2>6. /\ M[j + 1].base = L[j + 1].base /\ M[j + 1].role = L[j + 1].role
        /\ M[j + 1].fp = L[j + 1].fp
    BY <1>3, <2>1
  <2> QED
    BY <2>2, <2>3, <2>5, <2>6, LinkBelow
<1>5. \A i, j \in 1 .. n : i <= j => M[i].base <= M[j].base
  BY <1>3 DEF Levels
<1>6. M[1].base = 0 /\ M[1].fp = NoFrame /\ ~Called(M[1].role)
  BY <1>2, <1>3 DEF Levels
<1>7. Levels(nodes, units, later, M, n)
  BY <1>2, <1>3, <1>4, <1>5, <1>6 DEF Levels
<1> QED
  BY <1>1, <1>7

(* From where m stands to where the same activation stands in after.        *)
Moved(nodes, l, m, R, after, words, stored) ==
  /\ after.id = m.id /\ after.fp = m.fp /\ after.ip \in Int
  /\ after.stack \in Seq(Words) /\ IsSeq(words) /\ stored \in BOOLEAN
  /\ State(after.ip + 1, words, stored) \in R
  /\ stored => l.role.target \in DOMAIN nodes /\ nodes[l.role.target].initialized
  /\ Len(after.stack) = l.base + Len(words)
  /\ \A i \in 1 .. l.base : after.stack[i] = m.stack[i]
  /\ HaveKinds(nodes, after.stack, l.base, words, Len(words))

LEMMA GoesOn ==
  ASSUME NEW nodes, NEW units, NEW inits, NEW m, NEW L, NEW n \in Nat, NEW R,
         Tracks(nodes, units, inits, m, L, n), StandsIn(nodes, units, L[n], R),
         NEW after, NEW words, NEW stored, Moved(nodes, L[n], m, R, after, words, stored)
  PROVE  Tracked(nodes, units, inits, after, L[1].id)
<1> DEFINE l == Level(L[n].id, after.ip, L[n].fp, L[n].base, L[n].role, words, stored)
           M == [j \in 1 .. n |-> IF j = n THEN l ELSE L[j]]
<1>1. n \in 1 .. n /\ 1 \in 1 .. n
  BY DEF Tracks, Levels
<1>2. Fits(nodes, units, L[n]) /\ Levels(nodes, units, m.stack, L, n)
  BY <1>1 DEF Tracks, Levels
<1>3. Fits(nodes, units, l)
  <2>1. /\ after.ip \in Int /\ IsSeq(words) /\ stored \in BOOLEAN
        /\ State(after.ip + 1, words, stored) \in R
        /\ stored => /\ L[n].role.target \in DOMAIN nodes
                     /\ nodes[L[n].role.target].initialized
    BY DEF Moved
  <2> QED
    BY <1>2, <2>1, FitsIn
<1>4. /\ l.id = L[n].id /\ l.ip = after.ip /\ l.fp = L[n].fp /\ l.base = L[n].base
      /\ l.role = L[n].role /\ l.words = words
  BY LevelOf
<1>5. M[n] = l /\ M[1].id = L[1].id /\ M[1].role = L[1].role
  BY <1>1, <1>4
<1> HIDE DEF l
<1>6. Levels(nodes, units, after.stack, M, n)
  <2>1. \A i \in 1 .. l.base : after.stack[i] = m.stack[i]
    BY <1>4 DEF Moved
  <2> QED
    BY <1>2, <1>3, <1>4, <2>1, LevelsChanged
<1> HIDE DEF M
<1>7. Executing(nodes, after, M[n])
  BY <1>4, <1>5 DEF Executing, Tracks, Moved
<1>8. StartsFor(nodes, inits, M[1])
  BY <1>5 DEF Tracks, StartsFor
<1>9. Tracks(nodes, units, inits, after, M, n)
  BY <1>6, <1>7, <1>8 DEF Tracks
<1> QED
  BY <1>5, <1>9 DEF Tracked

-----------------------------------------------------------------------------
(* A machine that calls. *)

(* Only the first activation was not called. *)
LEMMA CalledOrFirst ==
  ASSUME NEW nodes, NEW units, NEW stack, NEW L, NEW n,
         Levels(nodes, units, stack, L, n)
  PROVE  /\ n \in Nat \ {0} /\ n \in 1 .. n /\ 1 \in 1 .. n
         /\ ~Called(L[n].role) => n = 1
         /\ n = 1 <=> L[n].fp = NoFrame
         /\ n # 1 => /\ n - 1 \in 1 .. n - 1 /\ n - 1 \in 1 .. n
                     /\ Linked(nodes, stack, L[n - 1], L[n])
<1>1. n \in Nat \ {0} /\ n \in 1 .. n /\ 1 \in 1 .. n
  BY DEF Levels
<1>2. ASSUME n # 1
      PROVE  /\ n - 1 \in 1 .. n - 1 /\ n - 1 \in 1 .. n
             /\ Linked(nodes, stack, L[n - 1], L[n])
  <2>1. n - 1 \in 1 .. n - 1 /\ n - 1 \in 1 .. n /\ n - 1 + 1 = n
    BY <1>1, <1>2
  <2>2. Linked(nodes, stack, L[n - 1], L[n - 1 + 1])
    BY <2>1 DEF Levels
  <2> QED
    BY <2>1, <2>2
<1>3. ASSUME n # 1 PROVE Called(L[n].role) /\ L[n].fp # NoFrame
  <2>1. Linked(nodes, stack, L[n - 1], L[n]) /\ n - 1 \in 1 .. n
    BY <1>2, <1>3
  <2>2. Called(L[n].role)
    BY <2>1, ProcIsKind DEF Linked, Called
  <2>3. L[n].base >= 4 /\ L[n].base \in Nat
    BY <1>1, <2>1, FrameAbove, LevelFields DEF Levels
  <2>4. L[n].fp = L[n].base - 1
    BY <2>1 DEF Linked
  <2> QED
    BY <2>2, <2>3, <2>4 DEF NoFrame
<1>4. L[1].fp = NoFrame
  BY DEF Levels
<1> QED
  BY <1>1, <1>2, <1>3, <1>4

(* A call's arguments have gone from the words, and its result has come. *)
Replaced(class, count, words, after) ==
  /\ IsSeq(after) /\ Len(after) \in Nat /\ Len(words) \in Nat
  /\ Len(after) - Len(Outcome(class)) = Len(words) - count
  /\ \A i \in 1 .. Len(words) - count : after[i] = words[i]
  /\ \A i \in 1 .. Len(Outcome(class)) :
       after[Len(words) - count + i] = Outcome(class)[i]

LEMMA AfterCallSeq ==
  ASSUME NEW class, Len(Results(class)) \in 0 .. 1,
         NEW words, IsSeq(words), NEW count \in 0 .. Len(words)
  PROVE  Replaced(class, count, words, AfterCall(class, count, words))
<1>1. PICK low : low = Shortened(words, count)
  OBVIOUS
<1>2. PICK out : out = Outcome(class)
  OBVIOUS
<1>3. /\ IsSeq(low) /\ Len(low) = Len(words) - count /\ Len(words) \in Nat
      /\ \A i \in 1 .. Len(words) - count : low[i] = words[i]
  BY <1>1, SeqShortened
<1>4. IsSeq(out)
  BY <1>2, OutcomeSeq
<1>5. PICK after : after = low \o out
  OBVIOUS
<1>6. AfterCall(class, count, words) = after
  BY <1>1, <1>2, <1>5 DEF AfterCall
<1>7. IsSeq(low)
  BY <1>3
<1>8. Joined(low, out, after)
  BY <1>4, <1>5, <1>7, SeqJoined
<1>9. Replaced(class, count, words, after)
  BY <1>2, <1>3, <1>8 DEF Joined, Replaced
<1> QED
  BY <1>6, <1>9

(* A frame on a stack; the activation it leads to, and back to.             *)
Framed(stack, later, count, fp, ip, id) ==
  /\ Len(later) = Len(stack) + 4
  /\ \A i \in 1 .. Len(stack) : later[i] = stack[i]
  /\ later[Len(stack) + 1] = Num(count) /\ later[Len(stack) + 2] = Num(fp)
  /\ later[Len(stack) + 3] = Num(ip) /\ later[Len(stack) + 4] = Num(id)

Entered(c, class, h) ==
  c.role.class = class /\ c.base = h + 4 /\ c.fp = h + 3

Suspended(l, k, ip, words) ==
  k.base = l.base /\ k.fp = l.fp /\ k.id = l.id /\ k.ip = ip /\ k.words = words

LEMMA FrameFits ==
  ASSUME NEW a \in Int, NEW b \in Int, NEW c \in Int, NEW d \in Int,
         NEW s \in Seq(Words)
  PROVE  LET t == s \o <<Num(a), Num(b), Num(c), Num(d)>>
         IN  t \in Seq(Words) /\ Framed(s, t, a, b, c, d)
<1>1. Num(a) \in Words /\ Num(b) \in Words /\ Num(c) \in Words /\ Num(d) \in Words
  BY WordFacts
<1>2. ASSUME NEW e \in Words, NEW f \in Words, NEW g \in Words, NEW h \in Words
      PROVE  LET t == s \o <<e, f, g, h>>
             IN  /\ t \in Seq(Words) /\ Len(t) = Len(s) + 4
                 /\ \A i \in 1 .. Len(s) : t[i] = s[i]
                 /\ t[Len(s) + 1] = e /\ t[Len(s) + 2] = f
                 /\ t[Len(s) + 3] = g /\ t[Len(s) + 4] = h
  <2> DEFINE t == <<e, f, g, h>>
  <2>1. /\ t \in Seq(Words) /\ Len(t) = 4
        /\ t[1] = e /\ t[2] = f /\ t[3] = g /\ t[4] = h
    OBVIOUS
  <2> HIDE DEF t
  <2>2. /\ s \o t \in Seq(Words) /\ Len(s \o t) = Len(s) + 4 /\ Len(s) \in Nat
        /\ \A i \in 1 .. Len(s) : (s \o t)[i] = s[i]
        /\ \A i \in 1 .. 4 : (s \o t)[Len(s) + i] = t[i]
    BY <2>1, SeqJoined DEF IsSeq, Joined
  <2> QED
    BY <2>1, <2>2 DEF t
<1>3. PICK e \in Words : e = Num(a)
  BY <1>1
<1>4. PICK f \in Words : f = Num(b)
  BY <1>1
<1>5. PICK g \in Words : g = Num(c)
  BY <1>1
<1>6. PICK h \in Words : h = Num(d)
  BY <1>1
<1>7. PICK t : t = s \o <<e, f, g, h>>
  OBVIOUS
<1> HIDE DEF Num, Words
<1>8. /\ t \in Seq(Words) /\ Len(t) = Len(s) + 4
      /\ \A i \in 1 .. Len(s) : t[i] = s[i]
      /\ t[Len(s) + 1] = e /\ t[Len(s) + 2] = f
      /\ t[Len(s) + 3] = g /\ t[Len(s) + 4] = h
  BY <1>2, <1>7
<1>9. Framed(s, t, a, b, c, d)
  BY <1>3, <1>4, <1>5, <1>6, <1>8 DEF Framed
<1>10. t = s \o <<Num(a), Num(b), Num(c), Num(d)>>
  BY <1>3, <1>4, <1>5, <1>6, <1>7
<1> QED
  BY <1>8, <1>9, <1>10

Heights(count, n, low, h, base) ==
  /\ n - count >= 0 /\ base - 4 - (n - count) - low = count
  /\ base - 3 = h + 1 /\ base - 2 = h + 2 /\ base - 1 = h + 3

LEMMA CallHeights ==
  ASSUME NEW n \in Nat, NEW count \in 0 .. n, NEW low \in Nat
  PROVE  Heights(count, n, low, low + n, low + n + 4)
BY DEF Heights

(* The caller keeps the words below the arguments, and the called unit      *)
(* finds its arguments below its frame.                                     *)
LEMMA CallerLinked ==
  ASSUME NEW nodes, NEW stack, NEW later, NEW l, NEW c, NEW k, NEW class, NEW ip,
         NEW count \in 0 .. Len(l.words),
         IsProcClass(class), Len(Results(class)) \in 0 .. 1,
         l.base \in Nat, IsSeq(l.words),
         ArgumentsMatch(class, l.role, l.words), ~Called(l.role) => l.base = 0,
         Len(stack) = l.base + Len(l.words),
         HaveKinds(nodes, stack, l.base, l.words, Len(l.words)),
         Framed(stack, later, count, l.fp, ip, l.id), Entered(c, class, Len(stack)),
         Suspended(l, k, ip, AfterCall(class, count, l.words))
  PROVE  Linked(nodes, later, k, c)
<1> DEFINE n == Len(l.words)
           h == Len(stack)
           params == Parameters(class)
<1>1. /\ n \in Nat /\ count \in Int /\ 0 <= count /\ count <= n
      /\ h = l.base + n /\ h \in Nat /\ k.base = l.base /\ c.base = h + 4
      /\ l.base \in Nat /\ k.base \in Nat
  BY SeqPushed DEF Entered, Suspended
<1>2. /\ Kept(k, c) = n - count
      /\ \A i \in 1 .. n - count : k.words[i] = l.words[i]
      /\ \A i \in 1 .. Len(Outcome(class)) : k.words[n - count + i] = Outcome(class)[i]
  <2>1. PICK words : words = l.words
    OBVIOUS
  <2>2. IsSeq(words) /\ count \in 0 .. Len(words)
    BY <2>1
  <2>3. PICK after : after = AfterCall(class, count, words)
    OBVIOUS
  <2>4. Replaced(class, count, words, after)
    BY <2>2, <2>3, AfterCallSeq
  <2>5. k.words = after /\ c.role.class = class
    BY <2>1, <2>3 DEF Entered, Suspended
  <2> QED
    BY <2>1, <2>4, <2>5 DEF Kept, Replaced
<1>3. \A i \in 1 .. h : later[i] = stack[i]
  BY DEF Framed
<1> HIDE DEF n, h, params
<1>4. HaveKinds(nodes, later, k.base, k.words, n - count)
  <2> SUFFICES ASSUME NEW i \in 1 .. n - count
               PROVE  HasKind(nodes, later[k.base + i], k.words[i])
    BY DEF HaveKinds
  <2>1. i \in 1 .. n /\ l.base + i \in 1 .. h
    BY <1>1
  <2>2. HasKind(nodes, stack[l.base + i], l.words[i])
    BY <2>1 DEF HaveKinds, n
  <2>3. later[l.base + i] = stack[l.base + i] /\ k.words[i] = l.words[i]
    BY <1>2, <1>3, <2>1
  <2> QED
    BY <1>1, <2>2, <2>3, Zenon
<1>5. ArgumentsThere(nodes, later, c.base, params)
  <2> SUFFICES ASSUME NEW i \in Nat, i + 1 \in DOMAIN params
               PROVE  IF c.base - 4 - i >= 1
                        THEN HasKind(nodes, later[c.base - 4 - i], Kind(params[i + 1]))
                        ELSE Kind(params[i + 1]) = Plain
    BY DEF ArgumentsThere
  <2>1. IF i + 1 <= n THEN l.words[n + 1 - (i + 1)] = Kind(params[i + 1])
                      ELSE ~Called(l.role) /\ Kind(params[i + 1]) = Plain
    BY DEF ArgumentsMatch, n, params
  <2>2. c.base - 4 - i = l.base + (n - i)
    BY <1>1
  <2>3. CASE i + 1 <= n
    <3>1. /\ n - i \in 1 .. n /\ n + 1 - (i + 1) = n - i
          /\ l.base + (n - i) \in 1 .. h
      BY <1>1, <2>3
    <3>2. HasKind(nodes, stack[l.base + (n - i)], l.words[n - i])
      BY <3>1 DEF HaveKinds, n
    <3>3. later[l.base + (n - i)] = stack[l.base + (n - i)]
      BY <1>3, <3>1
    <3>4. HasKind(nodes, later[c.base - 4 - i], Kind(params[i + 1]))
      BY <2>1, <2>2, <2>3, <3>1, <3>2, <3>3
    <3>5. c.base - 4 - i >= 1
      BY <1>1, <2>2, <2>3
    <3> QED
      BY <3>4, <3>5
  <2>4. CASE ~(i + 1 <= n)
    <3>1. l.base = 0 /\ Kind(params[i + 1]) = Plain
      BY <2>1, <2>4
    <3>2. ~(c.base - 4 - i >= 1)
      BY <1>1, <2>2, <2>4, <3>1
    <3> QED
      BY <3>1, <3>2
  <2> QED
    BY <2>3, <2>4
<1>6. /\ n - count >= 0 /\ c.base - 4 - (n - count) - k.base = count
      /\ c.base - 3 = h + 1 /\ c.base - 2 = h + 2 /\ c.base - 1 = h + 3
  <2>1. PICK low \in Nat : low = k.base
    BY <1>1
  <2>2. PICK m \in Nat : m = n
    BY <1>1
  <2>3. count \in 0 .. m
    BY <2>2 DEF n
  <2>4. Heights(count, m, low, low + m, low + m + 4)
    BY <2>3, CallHeights
  <2>5. h = low + m /\ c.base = low + m + 4
    BY <1>1, <2>1, <2>2
  <2>6. Heights(count, n, k.base, h, c.base)
    BY <2>1, <2>2, <2>4, <2>5
  <2> QED
    BY <2>6 DEF Heights
<1>7. /\ later[c.base - 3] = Num(count) /\ later[c.base - 2] = Num(k.fp)
      /\ later[c.base - 1] = Num(k.ip) /\ later[c.base] = Num(k.id)
      /\ c.fp = c.base - 1 /\ c.role.class = class
  BY <1>1, <1>6 DEF Framed, Entered, Suspended, h
<1> QED
  BY <1>2, <1>4, <1>5, <1>6, <1>7 DEF Linked, params

LEMMA LevelsAdded ==
  ASSUME NEW nodes, NEW units, NEW stack, NEW L, NEW n, NEW c,
         Levels(nodes, units, stack, L, n), Fits(nodes, units, c),
         L[n].base <= c.base, Linked(nodes, stack, L[n], c),
         NEW M, M[n + 1] = c, \A j \in 1 .. n : M[j] = L[j]
  PROVE  Levels(nodes, units, stack, M, n + 1)
<1>1. n \in Nat \ {0} /\ n + 1 \in Nat \ {0} /\ 1 \in 1 .. n /\ n \in 1 .. n
  BY DEF Levels
<1>2. /\ \A j \in 1 .. n : M[j] = L[j]
      /\ M[n + 1] = c /\ M[1] = L[1] /\ M[n] = L[n]
      /\ \A j \in 1 .. n + 1 : j = n + 1 \/ j \in 1 .. n
  BY <1>1
<1>3. \A j \in 1 .. n + 1 : Fits(nodes, units, M[j])
  BY <1>2 DEF Levels
<1>4. \A j \in 1 .. n + 1 - 1 : Linked(nodes, stack, M[j], M[j + 1])
  <2> SUFFICES ASSUME NEW j \in 1 .. n PROVE Linked(nodes, stack, M[j], M[j + 1])
    BY <1>1
  <2>1. CASE j = n
    BY <1>2, <2>1
  <2>2. CASE j # n
    <3>1. j \in 1 .. n - 1 /\ j \in 1 .. n /\ j + 1 \in 1 .. n
      BY <1>1, <2>2
    <3>2. Linked(nodes, stack, L[j], L[j + 1])
      BY <3>1 DEF Levels
    <3> QED
      BY <1>2, <3>1, <3>2
  <2> QED
    BY <2>1, <2>2
<1>5. \A i, j \in 1 .. n + 1 : i <= j => M[i].base <= M[j].base
  <2> SUFFICES ASSUME NEW i \in 1 .. n + 1, NEW j \in 1 .. n + 1, i <= j
               PROVE  M[i].base <= M[j].base
    OBVIOUS
  <2>1. /\ c.base \in Nat /\ L[n].base \in Nat
        /\ \A x \in 1 .. n : L[x].base \in Nat
    BY <1>1, LevelFields DEF Levels
  <2>2. CASE j \in 1 .. n
    <3>1. i \in 1 .. n
      BY <1>1, <2>2
    <3>2. L[i].base <= L[j].base
      BY <2>2, <3>1 DEF Levels
    <3> QED
      BY <1>2, <2>2, <3>1, <3>2
  <2>3. CASE j = n + 1 /\ i \in 1 .. n
    <3>1. L[i].base <= L[n].base
      BY <1>1, <2>3 DEF Levels
    <3>2. M[i] = L[i] /\ M[j] = c /\ L[i].base \in Nat
      BY <1>2, <2>1, <2>3
    <3> QED
      BY <2>1, <3>1, <3>2
  <2>4. CASE j = n + 1 /\ i = n + 1
    BY <1>2, <2>1, <2>4
  <2> QED
    BY <1>2, <2>2, <2>3, <2>4
<1>6. M[1].base = 0 /\ M[1].fp = NoFrame /\ ~Called(M[1].role)
  BY <1>2 DEF Levels
<1> QED
  BY <1>1, <1>3, <1>4, <1>5, <1>6 DEF Levels

(* A unit that is entered for what it is. *)
LEMMA EntryFits ==
  ASSUME NEW nodes, NEW units, NEW unit \in Nat \ {0}, unit + 1 \in 1 .. Len(units),
         NEW fp \in Int, NEW base \in Nat, NEW role,
         FitsRole(nodes, units[unit + 1], role)
  PROVE  Fits(nodes, units, Level(unit, 0, fp, base, role, <<>>, FALSE))
<1>1. PICK c : c = Level(unit, 0, fp, base, role, <<>>, FALSE)
  OBVIOUS
<1>2. /\ c.id = unit /\ c.ip = 0 /\ c.fp = fp /\ c.base = base
      /\ c.role = role /\ c.words = <<>> /\ c.stored = FALSE
  BY <1>1 DEF Level
<1>3. PICK R : Disciplined(nodes, units[unit + 1], role, R)
  BY DEF FitsRole
<1>4. Standing(c) = Entry
  <2>1. c.ip + 1 = 1
    BY <1>2
  <2> QED
    BY <1>2, <2>1, Zenon DEF Standing, Entry
<1>5. Entry \in R
  BY <1>3 DEF Disciplined
<1>6. StandsIn(nodes, units, c, R)
  BY <1>2, <1>3, <1>4, <1>5 DEF StandsIn
<1>7. c = Level(c.id, c.ip, c.fp, c.base, c.role, c.words, c.stored)
  BY <1>1, <1>2
<1>8. IsSeq(c.words)
  <2>1. <<>> \in Seq({})
    OBVIOUS
  <2> QED
    BY <1>2, <2>1 DEF IsSeq
<1>9. /\ c.id \in Nat /\ c.id + 1 \in 1 .. Len(units)
      /\ c.ip \in Int /\ c.fp \in Int /\ c.base \in Nat /\ c.stored \in BOOLEAN
  <2>1. unit \in Nat /\ 0 \in Int /\ FALSE \in BOOLEAN
    OBVIOUS
  <2> QED
    BY <1>2, <2>1, Zenon
<1>10. Fits(nodes, units, c)
  BY <1>2, <1>6, <1>7, <1>8, <1>9, Zenon DEF Fits
<1> QED
  BY <1>1, <1>10

LEMMA Enters ==
  ASSUME NEW nodes, NEW units, NEW inits, NEW m, NEW L, NEW n \in Nat, NEW R,
         Tracks(nodes, units, inits, m, L, n), StandsIn(nodes, units, L[n], R),
         NEW class, IsProcClass(class), Len(Results(class)) \in 0 .. 1,
         NEW count \in 0 .. Len(L[n].words),
         ArgumentsMatch(class, L[n].role, L[n].words),
         State(m.ip + 4, AfterCall(class, count, L[n].words), L[n].stored) \in R,
         NEW unit \in Nat \ {0}, unit + 1 \in 1 .. Len(units),
         FitsRole(nodes, units[unit + 1], Role(class, NoNode)),
         NEW after, after.id = unit, after.ip = 0, after.fp = Len(m.stack) + 3,
         after.stack \in Seq(Words),
         Framed(m.stack, after.stack, count, m.fp, m.ip + 3, m.id)
  PROVE  Tracked(nodes, units, inits, after, L[1].id)
<1>1. PICK l : l = L[n]
  OBVIOUS
<1>2. Levels(nodes, units, m.stack, L, n) /\ Executing(nodes, m, l)
  BY <1>1 DEF Tracks
<1>3. n \in Nat \ {0} /\ n \in 1 .. n /\ 1 \in 1 .. n /\ (~Called(l.role) => n = 1)
  BY <1>1, <1>2, CalledOrFirst
<1>4. Fits(nodes, units, l)
  BY <1>1, <1>2, <1>3 DEF Levels
<1>5. /\ l.id \in Nat /\ l.ip \in Int /\ l.fp \in Int /\ l.base \in Nat
      /\ IsSeq(l.words) /\ Len(l.words) \in Nat /\ l.stored \in BOOLEAN
  BY <1>4, LevelFields
<1>6. PICK words : words = AfterCall(class, count, l.words)
  OBVIOUS
<1>7. IsSeq(words)
  BY <1>1, <1>5, <1>6, AfterCallSeq DEF Replaced
<1>8. PICK ip \in Int : ip = m.ip + 3 /\ ip + 1 = m.ip + 4
  BY <1>2, <1>5 DEF Executing
<1>9. PICK k : k = Level(l.id, ip, l.fp, l.base, l.role, words, l.stored)
  OBVIOUS
<1>10. /\ k.id = l.id /\ k.ip = ip /\ k.fp = l.fp /\ k.base = l.base
       /\ k.role = l.role /\ k.words = words /\ k.stored = l.stored
  BY <1>9, LevelOf
<1>11. Fits(nodes, units, k)
  <2>1. StandsIn(nodes, units, l, R)
    BY <1>1
  <2>2. State(ip + 1, words, l.stored) \in R
    BY <1>1, <1>6, <1>8
  <2>3. l.stored => l.role.target \in DOMAIN nodes /\ nodes[l.role.target].initialized
    BY <1>4 DEF Fits
  <2> QED
    BY <1>4, <1>5, <1>7, <1>9, <2>1, <2>2, <2>3, FitsIn
<1>12. PICK h \in Nat : h = Len(m.stack) /\ h = l.base + Len(l.words)
  BY <1>2, <1>5 DEF Executing
<1>13. PICK c : c = Level(unit, 0, h + 3, h + 4, Role(class, NoNode), <<>>, FALSE)
  OBVIOUS
<1>14. /\ c.id = unit /\ c.ip = 0 /\ c.fp = h + 3 /\ c.base = h + 4
       /\ c.role = Role(class, NoNode) /\ c.words = <<>> /\ c.stored = FALSE
  BY <1>13 DEF Level
<1>15. Fits(nodes, units, c)
  <2>1. h + 3 \in Int /\ h + 4 \in Nat
    OBVIOUS
  <2> QED
    BY <1>13, <2>1, EntryFits
<1>16. Linked(nodes, after.stack, k, c)
  <2>1. c.role.class = class
    BY <1>14 DEF Role
  <2>2. Entered(c, class, Len(m.stack))
    BY <1>12, <1>14, <2>1 DEF Entered
  <2>3. Suspended(l, k, ip, AfterCall(class, count, l.words))
    BY <1>6, <1>10 DEF Suspended
  <2>4. Framed(m.stack, after.stack, count, l.fp, ip, l.id)
    BY <1>2, <1>8 DEF Executing
  <2>5. ~Called(l.role) => l.base = 0
    BY <1>1, <1>2, <1>3 DEF Levels
  <2>6. HaveKinds(nodes, m.stack, l.base, l.words, Len(l.words))
    BY <1>2 DEF Executing
  <2>7. Len(m.stack) = l.base + Len(l.words)
    BY <1>12
  <2>8. ArgumentsMatch(class, l.role, l.words) /\ count \in 0 .. Len(l.words)
    BY <1>1
  <2> QED
    BY <1>5, <2>2, <2>3, <2>4, <2>5, <2>6, <2>7, <2>8, CallerLinked
<1>17. PICK K : K = [j \in 1 .. n |-> IF j = n THEN k ELSE L[j]]
  OBVIOUS
<1>18. K[n] = k /\ K[1].id = L[1].id
  BY <1>1, <1>3, <1>10, <1>17
<1>19. Levels(nodes, units, after.stack, K, n)
  <2>1. \A i \in 1 .. k.base : after.stack[i] = m.stack[i]
    BY <1>5, <1>10, <1>12 DEF Framed
  <2>2. k.base = L[n].base /\ k.role = L[n].role /\ k.fp = L[n].fp
    BY <1>1, <1>10
  <2> QED
    BY <1>2, <1>11, <1>17, <2>1, <2>2, LevelsChanged
<1>20. PICK M : M = [j \in 1 .. n + 1 |-> IF j = n + 1 THEN c ELSE K[j]]
  OBVIOUS
<1>21. Levels(nodes, units, after.stack, M, n + 1)
  <2>1. K[n].base <= c.base
    BY <1>5, <1>10, <1>12, <1>14, <1>18
  <2>2. Linked(nodes, after.stack, K[n], c)
    BY <1>16, <1>18
  <2>3. M[n + 1] = c /\ \A j \in 1 .. n : M[j] = K[j]
    BY <1>3, <1>20
  <2> QED
    BY <1>15, <1>19, <2>1, <2>2, <2>3, LevelsAdded
<1>22. M[n + 1] = c /\ M[1] = K[1]
  BY <1>3, <1>20
<1>23. Executing(nodes, after, c)
  <2>1. Len(after.stack) = h + 4
    BY <1>12 DEF Framed
  <2>2. Len(<<>>) = 0
    OBVIOUS
  <2> QED
    BY <1>12, <1>14, <2>1, <2>2 DEF Executing, HaveKinds
<1>24. StartsFor(nodes, inits, M[1])
  <2>1. M[1].id = L[1].id /\ M[1].role = L[1].role
    BY <1>1, <1>3, <1>10, <1>17, <1>22
  <2> QED
    BY <2>1 DEF Tracks, StartsFor
<1>25. Tracks(nodes, units, inits, after, M, n + 1)
  BY <1>21, <1>22, <1>23, <1>24 DEF Tracks
<1> QED
  BY <1>18, <1>22, <1>25 DEF Tracked

-----------------------------------------------------------------------------
(* A machine that returns from a call. *)

LEMMA LevelsBelow ==
  ASSUME NEW nodes, NEW units, NEW stack, NEW later, NEW L, NEW n,
         Levels(nodes, units, stack, L, n), NEW m \in Nat, n = m + 1, m # 0,
         \A i \in 1 .. L[m].base : later[i] = stack[i]
  PROVE  Levels(nodes, units, later, L, m)
<1>1. \A j \in 1 .. m : j \in 1 .. n /\ Fits(nodes, units, L[j])
  BY DEF Levels
<1>2. \A j \in 1 .. m - 1 : Linked(nodes, later, L[j], L[j + 1])
  <2> SUFFICES ASSUME NEW j \in 1 .. m - 1 PROVE Linked(nodes, later, L[j], L[j + 1])
    OBVIOUS
  <2>1. /\ j \in 1 .. n - 1 /\ j \in 1 .. m /\ j + 1 \in 1 .. m /\ m \in 1 .. m
        /\ j + 1 <= m
    OBVIOUS
  <2>2. Linked(nodes, stack, L[j], L[j + 1])
    BY <2>1 DEF Levels
  <2>3. /\ L[j].base \in Nat /\ IsSeq(L[j].words) /\ L[j + 1].base \in Nat
        /\ L[m].base \in Nat
    BY <1>1, <2>1, LevelFields
  <2>4. L[j + 1].base <= L[m].base
    BY <1>1, <2>1 DEF Levels
  <2>5. \A i \in 1 .. L[j + 1].base : later[i] = stack[i]
    BY <2>3, <2>4
  <2> QED
    BY <2>2, <2>3, <2>5, LinkBelow
<1>3. \A i, j \in 1 .. m : i <= j => L[i].base <= L[j].base
  BY <1>1 DEF Levels
<1>4. L[1].base = 0 /\ L[1].fp = NoFrame /\ ~Called(L[1].role)
  BY DEF Levels
<1> QED
  BY <1>1, <1>2, <1>3, <1>4 DEF Levels

(* The frame is where the return looks for it. *)
FrameThere(units, stack, base, l, kept, args) ==
  /\ base \in Nat /\ base >= 4 /\ kept \in Nat /\ l.base \in Nat
  /\ l.id + 1 \in 1 .. Len(units)
  /\ stack[base] = Num(l.id) /\ stack[base - 1] = Num(l.ip)
  /\ stack[base - 2] = Num(l.fp) /\ stack[base - 3] = Num(args)
  /\ args \in 0 .. base - 4 /\ base - 4 - args = l.base + kept

LEMMA ReturnHeights ==
  ASSUME NEW b \in Nat, NEW k \in Nat, NEW low \in Nat, low + k <= b - 4
  PROVE  b - 4 - k - low \in 0 .. b - 4 /\ b - 4 - (b - 4 - k - low) = low + k
OBVIOUS

LEMMA ReturnFinds ==
  ASSUME NEW nodes, NEW units, NEW stack, NEW l, NEW c,
         Linked(nodes, stack, l, c), Fits(nodes, units, l), Fits(nodes, units, c)
  PROVE  /\ FrameThere(units, stack, c.base, l, Kept(l, c),
                       c.base - 4 - Kept(l, c) - l.base)
         /\ Len(Outcome(c.role.class)) \in 0 .. 1
         /\ Len(l.words) = Kept(l, c) + Len(Outcome(c.role.class))
<1>1. /\ l.base \in Nat /\ c.base \in Nat /\ IsSeq(l.words) /\ Len(l.words) \in Nat
  BY LevelFields
<1>2. /\ Kept(l, c) \in Nat /\ c.base >= 4 /\ l.base + Kept(l, c) <= c.base - 4
      /\ Len(Outcome(c.role.class)) \in 0 .. 1
  BY <1>1, FrameAbove
<1>3. l.id + 1 \in 1 .. Len(units)
  BY DEF Fits
<1>4. /\ stack[c.base] = Num(l.id) /\ stack[c.base - 1] = Num(l.ip)
      /\ stack[c.base - 2] = Num(l.fp)
      /\ stack[c.base - 3] = Num(c.base - 4 - Kept(l, c) - l.base)
  BY DEF Linked
<1>5. PICK k \in Nat : k = Kept(l, c)
  BY <1>2
<1>6. Len(l.words) = k + Len(Outcome(c.role.class))
  BY <1>1, <1>2, <1>5 DEF Kept
<1>7. PICK low \in Nat : low = l.base
  BY <1>1
<1>8. PICK b \in Nat : b = c.base
  BY <1>1
<1>9. b - 4 - k - low \in 0 .. b - 4 /\ b - 4 - (b - 4 - k - low) = low + k
  <2>1. low + k <= b - 4
    BY <1>2, <1>5, <1>7, <1>8
  <2> QED
    BY <2>1, ReturnHeights
<1>10. FrameThere(units, stack, b, l, k, b - 4 - k - low)
  BY <1>2, <1>3, <1>4, <1>5, <1>7, <1>8, <1>9 DEF FrameThere
<1> QED
  BY <1>2, <1>5, <1>6, <1>7, <1>8, <1>10

(* What the machine has on top of the caller's words, back in the caller.   *)
Back(l, kept, stack, later, base) ==
  /\ \A i \in 1 .. l.base + kept : later[i] = stack[i]
  /\ Len(l.words) = kept + 1 => later[l.base + kept + 1] = stack[base + 1]

LEMMA BackKinds ==
  ASSUME NEW nodes, NEW stack, NEW later, NEW l, NEW c, Linked(nodes, stack, l, c),
         c.words = Outcome(c.role.class), Len(Outcome(c.role.class)) \in 0 .. 1,
         HaveKinds(nodes, stack, c.base, c.words, Len(c.words)),
         NEW kept \in Nat, kept = Kept(l, c), l.base \in Nat,
         Len(l.words) = kept + Len(Outcome(c.role.class)),
         Back(l, kept, stack, later, c.base)
  PROVE  HaveKinds(nodes, later, l.base, l.words, Len(l.words))
<1> SUFFICES ASSUME NEW i \in 1 .. Len(l.words)
             PROVE  HasKind(nodes, later[l.base + i], l.words[i])
  BY DEF HaveKinds
<1>1. CASE i \in 1 .. kept
  <2>1. HasKind(nodes, stack[l.base + i], l.words[i])
    BY <1>1 DEF Linked, HaveKinds
  <2>2. l.base + i \in 1 .. l.base + kept
    BY <1>1
  <2> QED
    BY <2>1, <2>2 DEF Back
<1>2. CASE i \notin 1 .. kept
  <2>1. i = kept + 1 /\ Len(Outcome(c.role.class)) = 1 /\ Len(l.words) = kept + 1
    <3>1. PICK out \in 0 .. 1 : out = Len(Outcome(c.role.class))
      OBVIOUS
    <3>2. PICK all : all = Len(l.words)
      OBVIOUS
    <3>3. all = kept + out /\ i \in 1 .. all
      BY <3>1, <3>2
    <3>4. i = kept + 1 /\ out = 1
      BY <1>2, <3>3
    <3> QED
      BY <3>1, <3>2, <3>3, <3>4
  <2>2. later[l.base + kept + 1] = stack[c.base + 1]
    BY <2>1 DEF Back
  <2>3. l.base + i = l.base + kept + 1
    BY <2>1
  <2>4. 1 \in 1 .. Len(c.words) /\ 1 \in 1 .. Len(Outcome(c.role.class))
    BY <2>1
  <2>5. HasKind(nodes, stack[c.base + 1], c.words[1])
    BY <2>4 DEF HaveKinds
  <2>6. l.words[kept + 1] = Outcome(c.role.class)[1]
    BY <2>4 DEF Linked
  <2> QED
    BY <2>1, <2>2, <2>3, <2>5, <2>6
<1> QED
  BY <1>1, <1>2

LEMMA Leaves ==
  ASSUME NEW nodes, NEW units, NEW inits, NEW m, NEW L, NEW n \in Nat,
         Tracks(nodes, units, inits, m, L, n), n # 1,
         L[n].words = Outcome(L[n].role.class),
         NEW l, l = L[n - 1], NEW kept, kept = Kept(l, L[n]),
         NEW after, after.id = l.id, after.ip = l.ip, after.fp = l.fp,
         after.stack \in Seq(Words), Len(after.stack) = l.base + Len(l.words),
         Back(l, kept, m.stack, after.stack, L[n].base)
  PROVE  Tracked(nodes, units, inits, after, L[1].id)
<1>1. PICK c : c = L[n]
  OBVIOUS
<1>2. Levels(nodes, units, m.stack, L, n) /\ Executing(nodes, m, c)
  BY <1>1 DEF Tracks
<1>3. n \in 1 .. n /\ n - 1 \in 1 .. n /\ Linked(nodes, m.stack, l, c)
  BY <1>1, <1>2, CalledOrFirst
<1>4. PICK k \in Nat : n = k + 1 /\ k = n - 1 /\ k # 0
  BY <1>3
<1>5. Fits(nodes, units, l) /\ Fits(nodes, units, c)
  BY <1>1, <1>2, <1>3 DEF Levels
<1>6. /\ FrameThere(units, m.stack, c.base, l, kept, c.base - 4 - kept - l.base)
      /\ Len(Outcome(c.role.class)) \in 0 .. 1
      /\ Len(l.words) = kept + Len(Outcome(c.role.class))
  BY <1>1, <1>3, <1>5, ReturnFinds
<1>7. kept \in Nat /\ l.base \in Nat
  BY <1>6 DEF FrameThere
<1>8. HaveKinds(nodes, after.stack, l.base, l.words, Len(l.words))
  <2>1. HaveKinds(nodes, m.stack, c.base, c.words, Len(c.words))
    BY <1>2 DEF Executing
  <2>2. c.words = Outcome(c.role.class) /\ kept = Kept(l, c)
    BY <1>1
  <2>3. Back(l, kept, m.stack, after.stack, c.base)
    BY <1>1
  <2> QED
    BY <1>3, <1>6, <1>7, <2>1, <2>2, <2>3, BackKinds
<1>9. Levels(nodes, units, after.stack, L, k)
  <2>1. \A i \in 1 .. L[k].base : after.stack[i] = m.stack[i]
    <3> SUFFICES ASSUME NEW i \in 1 .. l.base PROVE after.stack[i] = m.stack[i]
      BY <1>4
    <3>1. i \in 1 .. l.base + kept
      BY <1>7
    <3> QED
      BY <3>1 DEF Back
  <2> QED
    BY <1>2, <1>4, <2>1, LevelsBelow
<1>10. Executing(nodes, after, L[k])
  BY <1>4, <1>8 DEF Executing
<1>11. StartsFor(nodes, inits, L[1])
  BY DEF Tracks
<1>12. Tracks(nodes, units, inits, after, L, k)
  BY <1>9, <1>10, <1>11 DEF Tracks
<1> QED
  BY <1>12 DEF Tracked

-----------------------------------------------------------------------------
(* The instruction a machine is at. *)

(* The machine in hand, with its activations, where its unit stands.        *)
StandsAt(L, n, R, code, t) ==
  /\ n \in Nat /\ Tracks(ast, bytecode, initializers, vm, L, n)
  /\ StandsIn(ast, bytecode, L[n], R)
  /\ code = bytecode[vm.id + 1] /\ code \in Seq(Words)
  /\ t = Standing(L[n]) /\ t.at = vm.ip + 1 /\ t.at \in Int
  /\ t.words = L[n].words /\ t.stored = L[n].stored
  /\ code[t.at] \in Known /\ Fact(ast, code, L[n].role, R, t)
  /\ WordsAt(vm.ip) = {code[t.at]}
  /\ Operands(1) = {code[t.at + 1]} /\ code[t.at + 1] \in Words
  /\ code[t.at] = CALL =>
       Operands(2) = {code[t.at + 2]} /\ code[t.at + 2] \in Words

LEMMA MachineStands ==
  ASSUME MachineInv, NEW L, NEW n \in Nat,
         Tracks(ast, bytecode, initializers, vm, L, n)
  PROVE  \E R, code, t : StandsAt(L, n, R, code, t)
<1>1. PICK l : l = L[n]
  OBVIOUS
<1>2. Fits(ast, bytecode, l) /\ Executing(ast, vm, l)
  BY <1>1, CalledOrFirst DEF Tracks, Levels
<1>3. PICK R : StandsIn(ast, bytecode, l, R)
  BY <1>2 DEF Fits
<1>4. PICK t : t = Standing(l)
  OBVIOUS
<1>5. t.at = vm.ip + 1 /\ t.words = l.words /\ t.stored = l.stored /\ t \in R
  BY <1>2, <1>3, <1>4 DEF Standing, State, Executing, StandsIn
<1>6. vm.id + 1 \in 1 .. Len(bytecode) /\ vm.ip \in Int /\ vm.id = l.id
  BY <1>2, MachineRuns DEF MachineInv, Executing
<1>7. PICK code : code = bytecode[vm.id + 1]
  OBVIOUS
<1>8. code \in Seq(Words)
  BY <1>6, <1>7 DEF MachineInv, UnitsFine
<1>9. Disciplined(ast, code, l.role, R)
  BY <1>3, <1>6, <1>7 DEF StandsIn
<1>10. Inside(code, t) /\ Steps(ast, code, l.role, t) \subseteq R
  BY <1>5, <1>9 DEF Disciplined
<1>11. code[t.at] \in Known /\ Fact(ast, code, l.role, R, t)
  BY <1>8, <1>9, <1>10, NowhereOutside, StepsKnown
<1>12. /\ t.at \in Int /\ t.at \in DOMAIN code /\ t.at + 1 \in DOMAIN code
       /\ code[t.at] = CALL => t.at + 2 \in DOMAIN code
  <2>1. t.at \in 1 .. Len(code) /\ t.at + SizeOf(code[t.at]) - 1 \in 1 .. Len(code)
    BY <1>8, <1>10 DEF Inside
  <2>2. SizeOf(code[t.at]) = IF code[t.at] = CALL THEN 3 ELSE 2
    BY DEF SizeOf
  <2> QED
    BY <1>8, <2>1, <2>2
<1>13. \A ip : ip + 1 \in DOMAIN code => WordsAt(ip) = {code[ip + 1]}
  BY <1>7 DEF WordsAt
<1>14. WordsAt(vm.ip) = {code[t.at]}
  BY <1>5, <1>12, <1>13
<1>15. Operands(1) = {code[t.at + 1]} /\ code[t.at + 1] \in Words
  <2>1. vm.ip + 1 + 1 = t.at + 1
    BY <1>5
  <2> QED
    BY <1>8, <1>12, <1>13, <2>1 DEF Operands
<1>16. code[t.at] = CALL => Operands(2) = {code[t.at + 2]} /\ code[t.at + 2] \in Words
  <2>1. vm.ip + 2 + 1 = t.at + 2
    BY <1>5, <1>6
  <2> QED
    BY <1>8, <1>12, <1>13, <2>1 DEF Operands
<1>17. StandsAt(L, n, R, code, t)
  BY <1>1, <1>3, <1>4, <1>5, <1>7, <1>8, <1>11, <1>12, <1>14, <1>15, <1>16
     DEF StandsAt
<1> QED
  BY <1>17

LEMMA FetchedIs ==
  ASSUME NEW L, NEW n, NEW R, NEW code, NEW t, StandsAt(L, n, R, code, t),
         NEW op, Fetching(op)
  PROVE  op = code[t.at]
BY DEF StandsAt, Fetching

(* Any machine with this stack, as far as the instruction moves it.         *)
LEMMA MovesOn ==
  ASSUME MachineInv, NEW L, NEW n, NEW R, NEW code, NEW t, StandsAt(L, n, R, code, t),
         NEW size \in Int, NEW stack \in Seq(Words), NEW words, IsSeq(words),
         State(t.at + size, words, t.stored) \in R,
         Len(stack) = L[n].base + Len(words),
         \A i \in 1 .. L[n].base : stack[i] = vm.stack[i],
         HaveKinds(ast, stack, L[n].base, words, Len(words))
  PROVE  Tracked(ast, bytecode, initializers, After(size, stack), L[1].id)
<1>1. vm \in Machines /\ vm.ip \in Int
  BY DEF MachineInv, MachineFine, MachineOK, Machines
<1>2. PICK m : m = After(size, stack)
  OBVIOUS
<1>3. m.id = vm.id /\ m.fp = vm.fp /\ m.ip = vm.ip + size /\ m.stack = stack
  BY <1>1, <1>2 DEF Machines, After
<1>4. m.ip \in Int /\ m.ip + 1 = t.at + size /\ n \in Nat
  BY <1>1, <1>3 DEF StandsAt
<1>5. State(m.ip + 1, words, t.stored) \in R
  BY <1>4
<1>6. /\ Tracks(ast, bytecode, initializers, vm, L, n)
      /\ StandsIn(ast, bytecode, L[n], R) /\ t.stored = L[n].stored
  BY DEF StandsAt
<1>7. Fits(ast, bytecode, L[n])
  BY <1>6, CalledOrFirst DEF Tracks, Levels
<1>8. /\ t.stored \in BOOLEAN
      /\ t.stored => /\ L[n].role.target \in DOMAIN ast
                     /\ ast[L[n].role.target].initialized
  BY <1>6, <1>7 DEF Fits
<1>9. Tracked(ast, bytecode, initializers, m, L[1].id)
  <2>1. /\ m.stack \in Seq(Words) /\ Len(m.stack) = L[n].base + Len(words)
        /\ \A i \in 1 .. L[n].base : m.stack[i] = vm.stack[i]
        /\ HaveKinds(ast, m.stack, L[n].base, words, Len(words))
    BY <1>3
  <2>2. PICK stored \in BOOLEAN : stored = t.stored
    BY <1>8
  <2>3. Moved(ast, L[n], vm, R, m, words, stored)
    BY <1>3, <1>4, <1>5, <1>8, <2>1, <2>2 DEF Moved
  <2> QED
    BY <1>4, <1>6, <2>3, GoesOn
<1> QED
  BY <1>2, <1>9

(* What is known of the stack. *)
LEMMA StackStands ==
  ASSUME MachineInv, NEW L, NEW n, NEW R, NEW code, NEW t, StandsAt(L, n, R, code, t)
  PROVE  /\ L[n].base \in Nat /\ IsSeq(t.words) /\ Len(t.words) \in Nat
         /\ vm.stack \in Seq(Words) /\ Depth = Len(vm.stack)
         /\ Depth = L[n].base + Len(t.words) /\ Depth \in Nat
         /\ HaveKinds(ast, vm.stack, L[n].base, t.words, Len(t.words))
         /\ \A k \in 0 .. Depth : Without(k) = SubSeq(vm.stack, 1, Depth - k)
<1>1. Fits(ast, bytecode, L[n]) /\ Executing(ast, vm, L[n]) /\ t.words = L[n].words
  BY CalledOrFirst DEF StandsAt, Tracks, Levels
<1>2. L[n].base \in Nat /\ IsSeq(t.words) /\ Len(t.words) \in Nat
  BY <1>1, LevelFields
<1> QED
  BY <1>1, <1>2 DEF Executing, Depth, Without

LEMMA PushedOn ==
  ASSUME MachineInv, NEW L, NEW n, NEW R, NEW code, NEW t, StandsAt(L, n, R, code, t),
         NEW kind, NEW word \in Words, HasKind(ast, word, kind),
         State(t.at + 2, Append(t.words, kind), t.stored) \in R
  PROVE  Tracked(ast, bytecode, initializers,
                 After(2, Append(vm.stack, word)), L[1].id)
<1>1. PICK words : words = Append(t.words, kind)
  OBVIOUS
<1>2. PICK stack : stack = Append(vm.stack, word)
  OBVIOUS
<1>3. PICK base \in Nat : base = L[n].base
  BY StackStands
<1>4. /\ IsSeq(t.words) /\ Len(t.words) \in Nat /\ vm.stack \in Seq(Words)
      /\ Len(vm.stack) = base + Len(t.words)
      /\ HaveKinds(ast, vm.stack, base, t.words, Len(t.words))
  BY <1>3, StackStands
<1>5. /\ IsSeq(words) /\ Len(words) = Len(t.words) + 1
      /\ \A i \in 1 .. Len(t.words) : words[i] = t.words[i]
      /\ words[Len(t.words) + 1] = kind
  BY <1>1, <1>4, SeqPushed
<1>6. /\ stack \in Seq(Words) /\ Len(stack) = Len(vm.stack) + 1
      /\ \A i \in 1 .. Len(vm.stack) : stack[i] = vm.stack[i]
      /\ stack[Len(vm.stack) + 1] = word
  BY <1>2, <1>4
<1>7. HaveKinds(ast, stack, base, words, Len(words))
  <2> SUFFICES ASSUME NEW i \in 1 .. Len(words)
               PROVE  HasKind(ast, stack[base + i], words[i])
    BY DEF HaveKinds
  <2>1. CASE i \in 1 .. Len(t.words)
    <3>1. base + i \in 1 .. Len(vm.stack)
      BY <1>4, <2>1
    <3>2. HasKind(ast, vm.stack[base + i], t.words[i])
      BY <1>4, <2>1 DEF HaveKinds
    <3>3. stack[base + i] = vm.stack[base + i] /\ words[i] = t.words[i]
      BY <1>5, <1>6, <2>1, <3>1
    <3> QED
      BY <3>2, <3>3, Zenon
  <2>2. CASE i = Len(t.words) + 1
    <3>1. base + i = Len(vm.stack) + 1
      BY <1>4, <2>2
    <3> QED
      BY <1>5, <1>6, <2>2, <3>1
  <2> QED
    BY <1>4, <1>5, <2>1, <2>2
<1>8. Len(stack) = base + Len(words)
  BY <1>4, <1>5, <1>6
<1>9. \A i \in 1 .. base : stack[i] = vm.stack[i]
  BY <1>4, <1>6
<1>10. Tracked(ast, bytecode, initializers, After(2, stack), L[1].id)
  <2>1. State(t.at + 2, words, t.stored) \in R /\ 2 \in Int
    BY <1>1
  <2> QED
    BY <1>3, <1>5, <1>6, <1>7, <1>8, <1>9, <2>1, MovesOn
<1> QED
  BY <1>2, <1>10

LEMMA StackCut ==
  ASSUME MachineFine(vm), NEW k \in 0 .. Depth
  PROVE  /\ Without(k) \in Seq(Words) /\ Len(Without(k)) = Depth - k
         /\ \A i \in 1 .. Depth - k : Without(k)[i] = vm.stack[i]
<1>1. vm.stack \in Seq(Words) /\ Depth = Len(vm.stack) /\ Depth \in Nat
  BY StackFacts DEF Fine, Depth
<1>2. Without(k) = SubSeq(vm.stack, 1, Depth - k)
  BY DEF Without
<1>3. PICK d \in 0 .. Len(vm.stack) : d = Depth - k
  BY <1>1
<1>4. \A s \in Seq(Words) : \A m \in 0 .. Len(s) :
        /\ SubSeq(s, 1, m) \in Seq(Words) /\ Len(SubSeq(s, 1, m)) = m
        /\ \A i \in 1 .. m : SubSeq(s, 1, m)[i] = s[i]
  OBVIOUS
<1>5. /\ SubSeq(vm.stack, 1, d) \in Seq(Words) /\ Len(SubSeq(vm.stack, 1, d)) = d
      /\ \A i \in 1 .. d : SubSeq(vm.stack, 1, d)[i] = vm.stack[i]
  BY <1>1, <1>3, <1>4, Zenon
<1> QED
  BY <1>2, <1>3, <1>5

LEMMA PoppedTo ==
  ASSUME MachineInv, NEW L, NEW n, NEW R, NEW code, NEW t, StandsAt(L, n, R, code, t),
         NEW k \in 0 .. Len(t.words), NEW size \in Int,
         State(t.at + size, Shortened(t.words, k), t.stored) \in R
  PROVE  /\ Tracked(ast, bytecode, initializers, After(size, Without(k)), L[1].id)
         /\ k \in 0 .. Depth
<1>1. PICK base \in Nat : base = L[n].base
  BY StackStands
<1>2. /\ IsSeq(t.words) /\ Len(t.words) \in Nat /\ vm.stack \in Seq(Words)
      /\ Depth = Len(vm.stack) /\ Depth = base + Len(t.words) /\ Depth \in Nat
      /\ HaveKinds(ast, vm.stack, base, t.words, Len(t.words))
      /\ \A i \in 0 .. Depth : Without(i) = SubSeq(vm.stack, 1, Depth - i)
  BY <1>1, StackStands
<1>3. k \in 0 .. Depth
  BY <1>1, <1>2
<1>4. PICK words : words = Shortened(t.words, k)
  OBVIOUS
<1>5. /\ IsSeq(words) /\ Len(words) = Len(t.words) - k
      /\ \A i \in 1 .. Len(t.words) - k : words[i] = t.words[i]
  BY <1>2, <1>4, SeqShortened
<1>6. PICK stack : stack = Without(k)
  OBVIOUS
<1>7. Len(stack) = Depth - k
  BY <1>3, <1>6, StackCut DEF MachineInv
<1>8. stack \in Seq(Words) /\ \A i \in 1 .. Depth - k : stack[i] = vm.stack[i]
  BY <1>3, <1>6, StackCut DEF MachineInv
<1>9. Len(stack) = base + Len(words)
  BY <1>2, <1>5, <1>7
<1>10. HaveKinds(ast, stack, base, words, Len(words))
  <2> SUFFICES ASSUME NEW i \in 1 .. Len(words)
               PROVE  HasKind(ast, stack[base + i], words[i])
    BY DEF HaveKinds
  <2>1. /\ i \in 1 .. Len(t.words) /\ i \in 1 .. Len(t.words) - k
        /\ base + i \in 1 .. Depth - k
    BY <1>2, <1>5
  <2>2. HasKind(ast, vm.stack[base + i], t.words[i])
    BY <1>2, <2>1 DEF HaveKinds
  <2>3. stack[base + i] = vm.stack[base + i] /\ words[i] = t.words[i]
    BY <1>5, <1>8, <2>1
  <2> QED
    BY <2>2, <2>3, Zenon
<1>11. \A i \in 1 .. base : stack[i] = vm.stack[i]
  <2>1. base <= Depth - k /\ Depth - k \in Int
    BY <1>2
  <2>2. ASSUME NEW i \in 1 .. base
        PROVE  i \in 1 .. Depth - k
    BY <2>1
  <2> QED
    BY <1>8, <2>2
<1>12. Tracked(ast, bytecode, initializers, After(size, stack), L[1].id)
  <2>1. State(t.at + size, words, t.stored) \in R
    BY <1>4
  <2> QED
    BY <1>1, <1>5, <1>8, <1>9, <1>10, <1>11, <2>1, MovesOn
<1> QED
  BY <1>3, <1>6, <1>12

-----------------------------------------------------------------------------
(* What an instruction of a disciplined unit amounts to. *)

(* The parts of the invariant that its steps rely on. *)
UnitsSound ==
  MachineInv /\ ValuesFine /\ BodiesFine /\ BootFine /\ Len(vm.stack) <= StackSize

Goes(u) == \E m : Continue(m) /\ Tracked(ast, bytecode, initializers, m, u)

Waits(u) ==
  \E m : \E d \in DOMAIN ast :
    /\ m \in Machines /\ Tracked(ast, bytecode, initializers, m, u)
    /\ Len(m.stack) <= StackSize /\ ~ast[d].initialized /\ Await(m, d)

Stores(u) ==
  \E m : \E d \in DOMAIN ast, word \in Words :
    /\ ast[d].class # NoType /\ HasKind(ast, word, Kind(ast[d].class))
    /\ ast' = Stored(d, word)
    /\ vm' = m
    /\ UNCHANGED pipelineVars
    /\ Tracked(ast', bytecode, initializers, m, u)

Ends ==
  /\ Completed(<<>>) /\ vm' = Idle /\ vm.stack = <<>>
  /\ \/ ast' = ast
     \/ \E d \in DOMAIN ast : ast[d].initialized /\ ast' = Finished(d)

Overflows == Derail /\ Depth + 4 > StackSize

Onwards(u) == Goes(u) \/ Waits(u) \/ Stores(u) \/ Ends \/ Overflows

(* The activations of the machine, and where it stands. *)
Runs(L, n, R, code, t) == UnitsSound /\ StandsAt(L, n, R, code, t)

LEMMA PushOutcome ==
  ASSUME NEW L, NEW n, NEW R, NEW code, NEW t, Runs(L, n, R, code, t),
         NEW kind, NEW word \in Words, HasKind(ast, word, kind),
         State(t.at + 2, Append(t.words, kind), t.stored) \in R,
         Push(word, 2)
  PROVE  Onwards(L[1].id)
<1>1. MachineInv /\ StandsAt(L, n, R, code, t)
  BY DEF Runs, UnitsSound
<1>2. PICK stack : stack = Append(vm.stack, word)
  OBVIOUS
<1>3. Tracked(ast, bytecode, initializers, After(2, stack), L[1].id)
  BY <1>1, <1>2, PushedOn
<1>4. vm.stack \in Seq(Words) /\ vm \in Machines
  BY <1>1 DEF MachineInv, MachineFine, MachineOK, Machines
<1>5. stack = vm.stack \o <<word>>
  BY <1>2, <1>4
<1>6. [After(2, vm.stack) EXCEPT !.stack = stack] = After(2, stack)
  BY <1>4 DEF After, Machines
<1>7. Len(<<word>>) = 1 /\ Depth \in Nat /\ StackSize \in Nat
  BY <1>1, StackStands, StackAssumption
<1>8. CASE Continue(After(2, stack))
  BY <1>3, <1>8 DEF Onwards, Goes
<1>9. CASE Depth + 1 > StackSize + 1 /\ Derail
  <2>1. Depth + 4 > StackSize
    BY <1>7, <1>9
  <2> QED
    BY <1>9, <2>1 DEF Onwards, Overflows
<1>10. Continue(After(2, stack)) \/ (Depth + 1 > StackSize + 1 /\ Derail)
  BY <1>5, <1>6, <1>7 DEF Push, PushAll
<1> QED
  BY <1>8, <1>9, <1>10

LEMMA Opcode ==
  ASSUME NEW L, NEW n, NEW R, NEW code, NEW t, Runs(L, n, R, code, t),
         NEW op, Fetching(op)
  PROVE  /\ MachineInv /\ StandsAt(L, n, R, code, t)
         /\ code[t.at] = op /\ Operands(1) = {code[t.at + 1]}
         /\ code[t.at + 1] \in Words /\ Fact(ast, code, L[n].role, R, t)
<1>1. MachineInv /\ StandsAt(L, n, R, code, t)
  BY DEF Runs, UnitsSound
<1>2. op = code[t.at]
  BY <1>1, FetchedIs
<1> QED
  BY <1>1, <1>2 DEF StandsAt

LEMMA LoadOutcome ==
  ASSUME NEW L, NEW n, NEW R, NEW code, NEW t, Runs(L, n, R, code, t), LoadWord
  PROVE  Onwards(L[1].id)
<1>1. PICK arg : arg = code[t.at + 1]
  OBVIOUS
<1>2. Fetching(LOAD)
  BY DEF LoadWord
<1>3. StandsAt(L, n, R, code, t) /\ MachineInv
  BY <1>2, Opcode
<1>4. /\ IsVariable(ast, arg)
      /\ State(t.at + 2, Append(t.words, Kind(ast[arg[2]].class)), t.stored) \in R
  BY <1>1, <1>2, Opcode DEF Fact
<1>5. IF ~IsNode(arg) THEN Derail
      ELSE IF ~ast[arg[2]].initialized THEN Await(vm, arg[2])
      ELSE Push(ast[arg[2]].value, 2)
  BY <1>1, <1>2, Opcode DEF LoadWord
<1>6. IsNode(arg) /\ arg[2] \in DOMAIN ast
  BY <1>4 DEF IsVariable, IsNode
<1>7. CASE ~ast[arg[2]].initialized
  <2>1. Tracked(ast, bytecode, initializers, vm, L[1].id)
    BY <1>3 DEF StandsAt, Tracked
  <2>2. vm \in Machines /\ Len(vm.stack) <= StackSize
    BY <1>3 DEF Runs, UnitsSound, MachineInv, MachineFine, MachineOK
  <2> QED
    BY <1>5, <1>6, <1>7, <2>1, <2>2 DEF Onwards, Waits
<1>8. CASE ast[arg[2]].initialized
  <2>1. HasKind(ast, ast[arg[2]].value, Kind(ast[arg[2]].class))
    BY <1>6, <1>8 DEF Runs, UnitsSound, ValuesFine
  <2>2. ast[arg[2]].value \in Words
    BY <1>3, <1>6 DEF MachineInv, NodesFine, NodeOK
  <2> QED
    BY <1>4, <1>5, <1>6, <1>8, <2>1, <2>2, PushOutcome
<1> QED
  BY <1>7, <1>8

LEMMA PushWordOutcome ==
  ASSUME NEW L, NEW n, NEW R, NEW code, NEW t, Runs(L, n, R, code, t), PushWord
  PROVE  Onwards(L[1].id)
<1>1. PICK arg : arg = code[t.at + 1]
  OBVIOUS
<1>2. Fetching(PUSH)
  BY DEF PushWord
<1>3. Push(arg, 2) /\ arg \in Words
  BY <1>1, <1>2, Opcode DEF PushWord
<1>4. CASE arg[1] # "node"
  <2>1. State(t.at + 2, Append(t.words, Plain), t.stored) \in R
    BY <1>1, <1>2, <1>4, Opcode DEF Fact
  <2>2. HasKind(ast, arg, Plain)
    BY <1>4 DEF HasKind
  <2> QED
    BY <1>3, <2>1, <2>2, PushOutcome
<1>5. CASE arg[1] = "node"
  <2>1. /\ HasKind(ast, arg, Signature(ast, arg[2]))
        /\ State(t.at + 2, Append(t.words, Signature(ast, arg[2])), t.stored) \in R
    BY <1>1, <1>2, <1>5, Opcode DEF Fact
  <2> QED
    BY <1>3, <2>1, PushOutcome
<1> QED
  BY <1>4, <1>5

LEMMA SyscallOutcome ==
  ASSUME NEW L, NEW n, NEW R, NEW code, NEW t, Runs(L, n, R, code, t), Syscall
  PROVE  Onwards(L[1].id)
<1>1. PICK arg : arg = code[t.at + 1]
  OBVIOUS
<1>2. Fetching(SYSCALL)
  BY DEF Syscall
<1>3. StandsAt(L, n, R, code, t) /\ MachineInv
  BY <1>2, Opcode
<1>4. /\ arg[1] = "num" /\ arg[2] \in 0 .. Len(t.words)
      /\ State(t.at + 2, Shortened(t.words, arg[2]), t.stored) \in R
  BY <1>1, <1>2, Opcode DEF Fact
<1>5. IF IsNum(arg) /\ arg[2] \in 0 .. Depth
        THEN Continue(After(2, Without(arg[2]))) ELSE Derail
  BY <1>1, <1>2, Opcode DEF Syscall
<1>6. PICK k \in 0 .. Len(t.words) : k = arg[2]
  BY <1>4
<1>7. /\ Tracked(ast, bytecode, initializers, After(2, Without(k)), L[1].id)
      /\ k \in 0 .. Depth
  BY <1>3, <1>4, <1>6, PoppedTo
<1>8. Continue(After(2, Without(k)))
  BY <1>4, <1>5, <1>6, <1>7 DEF IsNum
<1> QED
  BY <1>7, <1>8 DEF Onwards, Goes

LEMMA JumpOutcome ==
  ASSUME NEW L, NEW n, NEW R, NEW code, NEW t, Runs(L, n, R, code, t), Jump
  PROVE  Onwards(L[1].id)
<1>1. PICK arg : arg = code[t.at + 1]
  OBVIOUS
<1>2. Fetching(JUMP)
  BY DEF Jump
<1>3. StandsAt(L, n, R, code, t) /\ MachineInv /\ arg \in Words /\ t.at \in Int
  BY <1>1, <1>2, Opcode DEF StandsAt
<1>4. arg[1] = "num" /\ State(t.at + 2 + arg[2], t.words, t.stored) \in R
  BY <1>1, <1>2, Opcode DEF Fact
<1>5. arg[2] \in Int
  BY <1>3, <1>4, WordFacts DEF IsNum
<1>6. PICK size \in Int : size = 2 + arg[2] /\ t.at + size = t.at + 2 + arg[2]
  BY <1>3, <1>5
<1>7. Continue(After(size, vm.stack))
  BY <1>1, <1>2, <1>4, <1>6, Opcode DEF Jump, IsNum
<1>8. Tracked(ast, bytecode, initializers, After(size, vm.stack), L[1].id)
  <2>1. State(t.at + size, t.words, t.stored) \in R
    BY <1>4, <1>6
  <2>2. /\ IsSeq(t.words) /\ vm.stack \in Seq(Words)
        /\ Len(vm.stack) = L[n].base + Len(t.words)
        /\ HaveKinds(ast, vm.stack, L[n].base, t.words, Len(t.words))
    BY <1>3, StackStands
  <2> QED
    BY <1>3, <2>1, <2>2, MovesOn
<1> QED
  BY <1>7, <1>8 DEF Onwards, Goes

LEMMA JumpZeroOutcome ==
  ASSUME NEW L, NEW n, NEW R, NEW code, NEW t, Runs(L, n, R, code, t), JumpZero
  PROVE  Onwards(L[1].id)
<1>1. PICK arg : arg = code[t.at + 1]
  OBVIOUS
<1>2. Fetching(JUMP_ZERO)
  BY DEF JumpZero
<1>3. StandsAt(L, n, R, code, t) /\ MachineInv /\ arg \in Words /\ t.at \in Int
  BY <1>1, <1>2, Opcode DEF StandsAt
<1>4. /\ arg[1] = "num" /\ Len(t.words) > 0
      /\ State(t.at + 2, Shortened(t.words, 1), t.stored) \in R
      /\ State(t.at + 2 + arg[2], Shortened(t.words, 1), t.stored) \in R
  BY <1>1, <1>2, Opcode DEF Fact
<1>5. arg[2] \in Int
  BY <1>3, <1>4, WordFacts DEF IsNum
<1>6. PICK size \in Int : size = 2 + arg[2] /\ t.at + size = t.at + 2 + arg[2]
  BY <1>3, <1>5
<1>7. /\ Len(t.words) \in Nat /\ L[n].base \in Nat
      /\ Depth = L[n].base + Len(t.words)
  BY <1>3, StackStands
<1>8. 1 \in 0 .. Len(t.words) /\ Depth # 0
  BY <1>4, <1>7
<1>9. Continue(After(2, Without(1))) \/ Continue(After(size, Without(1)))
  <2>1. IF ~IsNum(arg) \/ Depth = 0 THEN Derail
        ELSE \/ Top # Num(0) /\ Continue(After(2, Without(1)))
             \/ /\ Top = Num(0) \/ ~IsNum(Top)
                /\ Continue(After(2 + arg[2], Without(1)))
    BY <1>1, <1>2, Opcode DEF JumpZero
  <2> QED
    BY <1>4, <1>6, <1>8, <2>1 DEF IsNum
<1>10. Tracked(ast, bytecode, initializers, After(2, Without(1)), L[1].id)
  BY <1>3, <1>4, <1>8, PoppedTo
<1>11. Tracked(ast, bytecode, initializers, After(size, Without(1)), L[1].id)
  <2>1. State(t.at + size, Shortened(t.words, 1), t.stored) \in R
    BY <1>4, <1>6
  <2> QED
    BY <1>3, <1>8, <2>1, PoppedTo
<1> QED
  BY <1>9, <1>10, <1>11 DEF Onwards, Goes

(* The arguments of a call are below its frame. *)
LEMMA ArgumentHas ==
  ASSUME NEW L, NEW n, NEW R, NEW code, NEW t, Runs(L, n, R, code, t),
         NEW k \in Nat, Called(L[n].role),
         NEW params, params = Parameters(L[n].role.class), k + 1 \in DOMAIN params
  PROVE  HasKind(ast, Argument(k), Kind(params[k + 1])) /\ Argument(k) \in Words
<1>1. MachineInv /\ StandsAt(L, n, R, code, t)
  BY DEF Runs, UnitsSound
<1>2. n \in Nat /\ Tracks(ast, bytecode, initializers, vm, L, n)
  BY <1>1 DEF StandsAt
<1>3. Levels(ast, bytecode, vm.stack, L, n) /\ Executing(ast, vm, L[n])
  BY <1>2 DEF Tracks
<1>4. n # 1
  BY <1>3 DEF Levels
<1>5. Linked(ast, vm.stack, L[n - 1], L[n])
  BY <1>3, <1>4, CalledOrFirst
<1>6. PICK base \in Nat : base = L[n].base /\ base <= Depth
  BY <1>1, StackStands
<1>7. vm.fp = base - 1 /\ ArgumentsThere(ast, vm.stack, base, params)
  BY <1>3, <1>5, <1>6 DEF Linked, Executing
<1>8. vm.fp - 3 - k = base - 4 - k /\ base - 4 - k <= Depth /\ Depth \in Nat
  BY <1>1, <1>6, <1>7, StackFacts DEF MachineInv
<1>9. CASE base - 4 - k >= 1
  <2>1. vm.fp - 3 - k \in 1 .. Depth
    BY <1>8, <1>9
  <2>2. HasKind(ast, vm.stack[base - 4 - k], Kind(params[k + 1]))
    BY <1>7, <1>9 DEF ArgumentsThere
  <2>3. vm.stack[vm.fp - 3 - k] \in Words
    BY <1>1, <2>1, StackFacts DEF MachineInv
  <2> QED
    BY <1>8, <2>1, <2>2, <2>3 DEF Argument
<1>10. CASE ~(base - 4 - k >= 1)
  <2>1. Kind(params[k + 1]) = Plain
    BY <1>7, <1>10 DEF ArgumentsThere
  <2>2. Argument(k) = Junk
    BY <1>8, <1>10 DEF Argument
  <2>3. HasKind(ast, Junk, Plain) /\ Junk \in Words
    BY WordFacts DEF HasKind, Junk
  <2> QED
    BY <2>1, <2>2, <2>3
<1> QED
  BY <1>9, <1>10

LEMMA LoadArgumentOutcome ==
  ASSUME NEW L, NEW n, NEW R, NEW code, NEW t, Runs(L, n, R, code, t), LoadArgument
  PROVE  Onwards(L[1].id)
<1>1. PICK arg : arg = code[t.at + 1]
  OBVIOUS
<1>2. PICK op \in {ARG_LOAD, ARG_ADDR} :
        /\ Fetching(op)
        /\ \E k \in Operands(1) :
             IF ~IsNum(k) THEN Derail
             ELSE Push(IF op = ARG_LOAD THEN Argument(k[2]) ELSE Data, 2)
  BY DEF LoadArgument
<1>3. /\ StandsAt(L, n, R, code, t) /\ MachineInv /\ code[t.at] = op
      /\ arg \in Words /\ Operands(1) = {arg} /\ Fact(ast, code, L[n].role, R, t)
  BY <1>1, <1>2, Opcode
<1>4. IF ~IsNum(arg) THEN Derail
      ELSE Push(IF op = ARG_LOAD THEN Argument(arg[2]) ELSE Data, 2)
  BY <1>2, <1>3
<1>5. CASE op = ARG_LOAD
  <2>1. PICK params : params = Parameters(L[n].role.class)
    OBVIOUS
  <2>2. /\ arg[1] = "num" /\ arg[2] >= 0 /\ Called(L[n].role)
        /\ arg[2] + 1 \in DOMAIN params
        /\ State(t.at + 2, Append(t.words, Kind(params[arg[2] + 1])), t.stored) \in R
    BY <1>1, <1>3, <1>5, <2>1 DEF Fact
  <2>3. PICK k \in Nat : k = arg[2]
    BY <1>3, <2>2, WordFacts DEF IsNum
  <2>4. HasKind(ast, Argument(k), Kind(params[k + 1])) /\ Argument(k) \in Words
    BY <2>1, <2>2, <2>3, ArgumentHas
  <2>5. Push(Argument(k), 2)
    BY <1>4, <1>5, <2>2, <2>3 DEF IsNum
  <2>6. State(t.at + 2, Append(t.words, Kind(params[k + 1])), t.stored) \in R
    BY <2>2, <2>3
  <2> QED
    BY <2>4, <2>5, <2>6, PushOutcome
<1>6. CASE op = ARG_ADDR
  <2>1. /\ arg[1] = "num"
        /\ State(t.at + 2, Append(t.words, Plain), t.stored) \in R
    BY <1>1, <1>3, <1>6 DEF Fact
  <2>2. Push(Data, 2)
    BY <1>4, <1>6, <2>1, Distinct DEF IsNum
  <2>3. HasKind(ast, Data, Plain) /\ Data \in Words
    BY WordFacts DEF HasKind, Data
  <2> QED
    BY <2>1, <2>2, <2>3, PushOutcome
<1> QED
  BY <1>2, <1>5, <1>6

(* Whose frame is none is the first activation, which returns with nothing  *)
(* on the stack and its variable's value stored.                            *)
(* A unit that nobody called returns with nothing on the stack. *)
LEMMA FinishEmpty ==
  ASSUME NEW L, NEW n, NEW R, NEW code, NEW t, Runs(L, n, R, code, t),
         Fetching(RETURN), vm.fp = NoFrame
  PROVE  /\ n = 1 /\ L[n].fp = vm.fp /\ vm.id = L[1].id
         /\ t.stored \/ L[n].role.target = NoNode
         /\ vm.stack = <<>>
<1>1. PICK arg : arg = code[t.at + 1]
  OBVIOUS
<1>2. Fetching(RETURN) /\ vm.fp = NoFrame
  OBVIOUS
<1>3. StandsAt(L, n, R, code, t) /\ MachineInv /\ MayReturn(L[n].role, arg, t)
  BY <1>1, <1>2, Opcode DEF Fact
<1>4. /\ n \in Nat /\ Levels(ast, bytecode, vm.stack, L, n)
      /\ Executing(ast, vm, L[n]) /\ StartsFor(ast, initializers, L[1])
  BY <1>3 DEF StandsAt, Tracks
<1>5. n = 1 /\ L[n].fp = vm.fp /\ vm.id = L[1].id
  BY <1>2, <1>4, CalledOrFirst DEF Executing
<1>6. ~Called(L[n].role) /\ L[n].base = 0
  BY <1>4, <1>5 DEF Levels
<1>7. t.words = <<>> /\ (t.stored \/ L[n].role.target = NoNode)
  BY <1>3, <1>6 DEF MayReturn
<1>8. vm.stack = <<>>
  <2>1. Len(t.words) = 0
    BY <1>7
  <2>2. vm.stack \in Seq(Words) /\ Len(vm.stack) = 0
    BY <1>3, <1>6, <2>1, StackStands
  <2> QED
    BY <2>2
<1> QED
  BY <1>5, <1>7, <1>8

LEMMA FinishOutcome ==
  ASSUME NEW L, NEW n, NEW R, NEW code, NEW t, Runs(L, n, R, code, t), FinishUnit
  PROVE  Onwards(L[1].id)
<1>1. Fetching(RETURN) /\ vm.fp = NoFrame
  BY DEF FinishUnit
<1>2. StandsAt(L, n, R, code, t) /\ MachineInv
  BY DEF Runs, UnitsSound
<1>3. /\ n \in Nat /\ Levels(ast, bytecode, vm.stack, L, n)
      /\ Executing(ast, vm, L[n]) /\ StartsFor(ast, initializers, L[1])
  BY <1>2 DEF StandsAt, Tracks
<1>4. /\ n = 1 /\ L[n].fp = vm.fp /\ vm.id = L[1].id
      /\ t.stored \/ L[n].role.target = NoNode
      /\ vm.stack = <<>>
  BY <1>1, FinishEmpty
<1>5. t.stored \/ L[n].role.target = NoNode
  BY <1>4
<1>6. vm.stack = <<>>
  BY <1>4
<1> DEFINE done == {k \in 1 .. Len(initializers) : ast[initializers[k]].code = vm.id}
<1>7. PICK d : d = ast[initializers[NthOf(done, 1)]].lhs
  OBVIOUS
<1>8. /\ ast' = IF done = {} THEN ast ELSE Finished(d)
      /\ vm' = Idle /\ Completed(<<>>)
  BY <1>7 DEF FinishUnit, Finished
<1>9. CASE done = {}
  BY <1>6, <1>8, <1>9 DEF Onwards, Ends
<1>10. CASE done # {}
  <2>1. NthOf(done, 1) \in done
    <3>1. Len(initializers) \in Nat /\ done \in SUBSET (1 .. Len(initializers))
      BY <1>2 DEF MachineInv, InitializersFine
    <3>2. IsFiniteSet(1 .. Len(initializers))
      BY <3>1, FS_Interval
    <3>3. IsFiniteSet(done) /\ Cardinality(done) \in Nat /\ Cardinality(done) # 0
      BY <1>10, <3>1, <3>2, FS_Subset, FS_CardinalityType, FS_EmptySet
    <3>4. 1 \in 1 .. Cardinality(done)
      BY <3>3
    <3> HIDE DEF done
    <3> QED
      BY <3>1, <3>4, NthIsThere
  <2>2. PICK k \in 1 .. Len(initializers) :
          ast[initializers[k]].code = vm.id /\ d = ast[initializers[k]].lhs
    BY <1>7, <2>1
  <2>3. L[n].role.target = d
    BY <1>3, <1>4, <2>2 DEF StartsFor
  <2>4. d \in DOMAIN ast \cup {NoNode}
    <3>1. initializers[k] \in DOMAIN ast
      BY <1>2, <2>2 DEF MachineInv, InitializersFine
    <3> QED
      BY <1>2, <2>2, <3>1 DEF MachineInv, NodesFine, NodeOK
  <2>5. ast' = Finished(d)
    BY <1>8, <1>10
  <2>6. CASE d = NoNode
    <3>1. ast = [p \in DOMAIN ast |-> ast[p]] /\ d \notin DOMAIN ast
      BY <1>2, <2>6 DEF MachineInv, NodesFine
    <3>2. Finished(d) = ast
      BY <3>1 DEF Finished
    <3> QED
      BY <1>6, <1>8, <2>5, <3>2 DEF Onwards, Ends
  <2>7. CASE d # NoNode
    <3>1. t.stored /\ d \in DOMAIN ast
      BY <1>5, <2>3, <2>4, <2>7
    <3>2. Fits(ast, bytecode, L[n]) /\ L[n].stored = t.stored
      BY <1>2, <1>3, CalledOrFirst DEF Levels, StandsAt
    <3>3. ast[d].initialized
      BY <2>3, <3>1, <3>2 DEF Fits
    <3> QED
      BY <1>6, <1>8, <2>5, <3>1, <3>3 DEF Onwards, Ends
  <2> QED
    BY <2>6, <2>7
<1> QED
  BY <1>9, <1>10

LEMMA UnknownOutcome ==
  ASSUME NEW L, NEW n, NEW R, NEW code, NEW t, Runs(L, n, R, code, t)
  PROVE  ~Unknown
<1>1. WordsAt(vm.ip) = {code[t.at]} /\ code[t.at] \in Known
  BY DEF Runs, StandsAt
<1>2. \A m \in 0 .. 9 : Num(m) \in Opcodes
  BY DEF Opcodes
<1>3. Known \subseteq Opcodes
  BY <1>2 DEF Known, RETURN, LOAD, STORE, ARG_LOAD, ARG_ADDR, PUSH, CALL, SYSCALL,
     JUMP, JUMP_ZERO
<1> QED
  BY <1>1, <1>3 DEF Unknown

(* The nodes, units and initializers a step of a machine leaves. *)
LEMMA GrowsKept ==
  ASSUME Grows, Putc \in DOMAIN ast,
         \A p \in DOMAIN ast : ast[p].initialized => ast'[p].initialized
  PROVE  NodesKept(ast, ast')
BY DEF Grows, NodeKept, NodesKept

LEMMA StoredKeeps ==
  ASSUME NodesFine, NEW d \in DOMAIN ast, NEW word, ast' = Stored(d, word)
  PROVE  \A p \in DOMAIN ast :
           /\ p \in DOMAIN ast'
           /\ ast'[p].kind = ast[p].kind /\ ast'[p].code = ast[p].code
           /\ ast'[p].class = ast[p].class /\ ast'[p].lhs = ast[p].lhs
           /\ ast'[p].initialized = IF p = d THEN TRUE ELSE ast[p].initialized
           /\ ast'[p].value = IF p = d THEN word ELSE ast[p].value
<1> SUFFICES ASSUME NEW p \in DOMAIN ast
             PROVE  /\ p \in DOMAIN ast'
                    /\ ast'[p].kind = ast[p].kind /\ ast'[p].code = ast[p].code
                    /\ ast'[p].class = ast[p].class /\ ast'[p].lhs = ast[p].lhs
                    /\ ast'[p].initialized = IF p = d THEN TRUE ELSE ast[p].initialized
                    /\ ast'[p].value = IF p = d THEN word ELSE ast[p].value
  OBVIOUS
<1>1. /\ "kind" \in NodeFields /\ "code" \in NodeFields /\ "class" \in NodeFields
      /\ "lhs" \in NodeFields /\ "initialized" \in NodeFields /\ "value" \in NodeFields
  BY Fields
<1>2. DOMAIN ast[d] = NodeFields
  BY DEF NodesFine, NodeOK
<1>3. ast' = [q \in DOMAIN ast |-> IF q = d THEN ast'[d] ELSE ast[q]]
  BY DEF Stored, NodesFine
<1>4. ast'[d] = [ast[d] EXCEPT !.value = word, !.initialized = TRUE]
  BY DEF Stored
<1>5. CASE p = d
  BY <1>1, <1>2, <1>3, <1>4, <1>5
<1>6. CASE p # d
  BY <1>3, <1>6
<1> QED
  BY <1>5, <1>6

(* What the codes and targets of the assignments are to their starts. *)
LEMMA SameStarts ==
  ASSUME NEW a, NEW b, NEW inits, NEW units, NEW S, inits \in Seq(S),
         \A p \in S : b[p].code = a[p].code /\ b[p].lhs = a[p].lhs
  PROVE  StartsKept(a, inits, b, inits, units)
BY DEF StartsKept

LEMMA SameUnits ==
  ASSUME UnitsFine, NEW b
  PROVE  UnitsKept(b, bytecode, bytecode)
BY DEF UnitsFine, UnitsKept

LEMMA StoreOutcome ==
  ASSUME NEW L, NEW n, NEW R, NEW code, NEW t, Runs(L, n, R, code, t), Store
  PROVE  Onwards(L[1].id)
<1>1. PICK arg : arg = code[t.at + 1]
  OBVIOUS
<1>2. Fetching(STORE)
  BY DEF Store
<1>3. StandsAt(L, n, R, code, t) /\ MachineInv /\ t.at \in Int
  BY <1>2, Opcode DEF StandsAt
<1>4. PICK d : d = arg[2]
  OBVIOUS
<1>5. PICK stored \in BOOLEAN : stored = (t.stored \/ d = L[n].role.target)
  OBVIOUS
<1>6. /\ IsVariable(ast, arg) /\ Len(t.words) > 0
      /\ t.words[Len(t.words)] = Kind(ast[d].class)
      /\ State(t.at + 2, Shortened(t.words, 1), stored) \in R
  BY <1>1, <1>2, <1>4, <1>5, Opcode DEF Fact
<1>7. IsNode(arg) /\ d \in DOMAIN ast /\ ast[d].class # NoType
  BY <1>4, <1>6 DEF IsVariable, IsNode
<1>8. PICK base \in Nat : base = L[n].base
  BY <1>3, StackStands
<1>9. /\ IsSeq(t.words) /\ Len(t.words) \in Nat /\ vm.stack \in Seq(Words)
      /\ Depth = Len(vm.stack) /\ Depth = base + Len(t.words) /\ Depth \in Nat
      /\ HaveKinds(ast, vm.stack, base, t.words, Len(t.words))
      /\ \A i \in 0 .. Depth : Without(i) = SubSeq(vm.stack, 1, Depth - i)
  BY <1>3, <1>8, StackStands
<1>10. Depth # 0 /\ 1 \in 0 .. Depth /\ 1 \in 0 .. Len(t.words) /\ Depth \in 1 .. Depth
  BY <1>6, <1>9
<1>11. PICK word : word = Top
  OBVIOUS
<1>12. word \in Words /\ Compiled(word) /\ HasKind(ast, word, Kind(ast[d].class))
  <2>1. word = vm.stack[base + Len(t.words)]
    BY <1>9, <1>11 DEF Top
  <2>2. Len(t.words) \in 1 .. Len(t.words)
    BY <1>6, <1>9
  <2>3. HasKind(ast, word, t.words[Len(t.words)])
    BY <1>9, <2>1, <2>2 DEF HaveKinds
  <2>4. word \in Words /\ Compiled(word)
    BY <1>3, <1>10, <1>11, StackFacts DEF MachineInv, Top
  <2> QED
    BY <1>6, <2>3, <2>4
<1>13. /\ ast' = Stored(d, word) /\ vm' = After(2, Without(1))
       /\ UNCHANGED pipelineVars
  <2>1. PICK decl \in Operands(1) :
          IF ~IsNode(decl) \/ Depth = 0 THEN Derail
          ELSE /\ ast' = [ast EXCEPT ![decl[2]].value = Top,
                                     ![decl[2]].initialized = TRUE]
               /\ vm' = After(2, Without(1))
               /\ UNCHANGED pipelineVars
    BY DEF Store
  <2>2. decl = arg
    BY <1>1, <1>2, <2>1, Opcode
  <2> QED
    BY <1>4, <1>7, <1>10, <1>11, <2>1, <2>2 DEF Stored
<1>14. NodesFine /\ UnitsFine /\ InitializersFine
  BY <1>3 DEF MachineInv
<1>15. \A p \in DOMAIN ast :
         /\ p \in DOMAIN ast'
         /\ ast'[p].kind = ast[p].kind /\ ast'[p].code = ast[p].code
         /\ ast'[p].class = ast[p].class /\ ast'[p].lhs = ast[p].lhs
         /\ ast'[p].initialized = IF p = d THEN TRUE ELSE ast[p].initialized
         /\ ast'[p].value = IF p = d THEN word ELSE ast[p].value
  BY <1>7, <1>13, <1>14, StoredKeeps
<1>16. PICK b : b = ast'
  OBVIOUS
<1>17. NodesKept(ast, b)
  <2>1. Putc \in DOMAIN ast
    BY DEF Runs, UnitsSound, BootFine
  <2> QED
    BY <1>15, <1>16, <2>1 DEF NodesKept
<1>18. UnitsKept(b, bytecode, bytecode)
  BY <1>14, SameUnits
<1>19. StartsKept(ast, initializers, b, initializers, bytecode)
  <2>1. initializers \in Seq(DOMAIN ast)
    BY <1>14 DEF InitializersFine
  <2>2. \A p \in DOMAIN ast : b[p].code = ast[p].code /\ b[p].lhs = ast[p].lhs
    BY <1>15, <1>16
  <2> QED
    BY <2>1, <2>2, SameStarts
<1>20. n \in Nat /\ Tracks(ast, bytecode, initializers, vm, L, n)
  BY <1>3 DEF StandsAt
<1>21. Tracks(b, bytecode, initializers, vm, L, n)
  BY <1>17, <1>18, <1>19, <1>20, TrackStays
<1>22. StandsIn(b, bytecode, L[n], R)
  <2>1. StandsIn(ast, bytecode, L[n], R) /\ Fits(ast, bytecode, L[n])
    BY <1>3, <1>20, CalledOrFirst DEF StandsAt, Tracks, Levels
  <2>2. bytecode[L[n].id + 1] \in Seq(Words)
    BY <1>14, <2>1 DEF Fits, UnitsFine
  <2>3. Disciplined(b, bytecode[L[n].id + 1], L[n].role, R)
    BY <1>17, <2>1, <2>2, DisciplineStays DEF StandsIn
  <2> QED
    BY <2>1, <2>3 DEF StandsIn
<1>23. PICK m : m = After(2, Without(1))
  OBVIOUS
<1>24. PICK stack : stack = Without(1)
  OBVIOUS
<1>25. PICK words : words = Shortened(t.words, 1)
  OBVIOUS
<1>26. m.id = vm.id /\ m.fp = vm.fp /\ m.ip = vm.ip + 2 /\ m.stack = stack
  <2>1. vm \in Machines
    BY <1>3 DEF MachineInv, MachineFine, MachineOK
  <2> QED
    BY <1>23, <1>24, <2>1 DEF Machines, After
<1>27. /\ IsSeq(words) /\ Len(words) = Len(t.words) - 1
       /\ \A i \in 1 .. Len(t.words) - 1 : words[i] = t.words[i]
  BY <1>9, <1>10, <1>25, SeqShortened
<1>28. /\ stack \in Seq(Words) /\ Len(stack) = Depth - 1
       /\ \A i \in 1 .. Depth - 1 : stack[i] = vm.stack[i]
  BY <1>3, <1>10, <1>24, StackCut DEF MachineInv
<1>29. HaveKinds(b, stack, base, words, Len(words))
  <2> SUFFICES ASSUME NEW i \in 1 .. Len(words)
               PROVE  HasKind(b, stack[base + i], words[i])
    BY DEF HaveKinds
  <2>1. /\ i \in 1 .. Len(t.words) /\ i \in 1 .. Len(t.words) - 1
        /\ base + i \in 1 .. Depth - 1
    BY <1>9, <1>27
  <2>2. HasKind(ast, vm.stack[base + i], t.words[i])
    BY <1>9, <2>1 DEF HaveKinds
  <2>3. stack[base + i] = vm.stack[base + i] /\ words[i] = t.words[i]
    BY <1>27, <1>28, <2>1
  <2>4. HasKind(b, vm.stack[base + i], t.words[i])
    BY <1>17, <2>2, KindStays
  <2> QED
    BY <2>3, <2>4, Zenon
<1>30. stored => L[n].role.target \in DOMAIN b /\ b[L[n].role.target].initialized
  <2>1. t.stored => /\ L[n].role.target \in DOMAIN b
                    /\ b[L[n].role.target].initialized
    <3>1. Levels(b, bytecode, vm.stack, L, n)
      BY <1>21 DEF Tracks
    <3>2. Fits(b, bytecode, L[n])
      BY <3>1, CalledOrFirst DEF Levels
    <3>3. t.stored = L[n].stored
      BY <1>3 DEF StandsAt
    <3> QED
      BY <3>2, <3>3 DEF Fits
  <2>2. d \in DOMAIN b /\ b[d].initialized
    BY <1>7, <1>15, <1>16
  <2> QED
    BY <1>5, <2>1, <2>2
<1>31. Moved(b, L[n], vm, R, m, words, stored)
  <2>1. vm.ip \in Int /\ t.at = vm.ip + 1
    BY <1>3, MachineRuns DEF StandsAt, MachineInv
  <2>2. m.ip \in Int /\ m.ip + 1 = t.at + 2
    BY <1>26, <2>1
  <2>3. State(m.ip + 1, words, stored) \in R
    BY <1>6, <1>25, <2>2
  <2>4. Len(m.stack) = L[n].base + Len(words)
    <3>1. PICK w \in Nat : w = Len(t.words)
      BY <1>9
    <3>2. Len(words) = w - 1 /\ Len(stack) = base + w - 1
      BY <1>9, <1>27, <1>28, <3>1
    <3>3. base + w - 1 = base + (w - 1)
      BY <3>1
    <3> QED
      BY <1>8, <1>26, <3>2, <3>3
  <2>5. \A i \in 1 .. L[n].base : m.stack[i] = vm.stack[i]
    <3>1. base <= Depth - 1
      BY <1>6, <1>9
    <3>2. \A i \in 1 .. base : i \in 1 .. Depth - 1
      BY <1>9, <3>1
    <3> QED
      BY <1>8, <1>26, <1>28, <3>2
  <2> QED
    BY <1>8, <1>26, <1>27, <1>28, <1>29, <1>30, <2>2, <2>3, <2>4, <2>5 DEF Moved
<1>32. Tracked(b, bytecode, initializers, m, L[1].id)
  BY <1>20, <1>21, <1>22, <1>31, GoesOn
<1> QED
  BY <1>7, <1>12, <1>13, <1>16, <1>23, <1>32 DEF Onwards, Stores

LEMMA NumberIs ==
  ASSUME NEW word \in Words, word[1] = "num"
  PROVE  word[2] \in Int /\ word = Num(word[2])
BY DEF Words, Num, Data, Junk

(* A variable of a procedure's class holds a procedure of that class, whose *)
(* body has its bytecode.                                                   *)
LEMMA CalleeThere ==
  ASSUME UnitsSound, NEW d \in DOMAIN ast, ast[d].initialized,
         NEW class, class = ast[d].class, IsProcClass(class),
         NEW proc, proc = ast[d].value
  PROVE  \E unit \in Nat \ {0} :
           /\ IsNode(proc) /\ ast[proc[2]].code = unit
           /\ unit + 1 \in 1 .. Len(bytecode)
           /\ FitsRole(ast, bytecode[unit + 1], Role(class, NoNode))
<1>1. class # Plain /\ Kind(class) = class
  BY ProcIsKind
<1>2. HasKind(ast, proc, class)
  BY <1>1 DEF UnitsSound, ValuesFine
<1>3. PICK q : q = proc[2]
  OBVIOUS
<1>4. /\ proc[1] = "node" /\ q \in DOMAIN ast /\ Callable(ast, q)
      /\ ast[q].code # -1 /\ Signature(ast, q) = class
  BY <1>1, <1>2, <1>3 DEF HasKind
<1>5. PICK unit : unit = ast[q].code
  OBVIOUS
<1>6. unit \in -1 .. Len(bytecode) - 1 /\ Len(bytecode) \in Nat
  BY <1>4, <1>5 DEF UnitsSound, MachineInv, NodesFine, NodeOK, UnitsFine
<1>7. unit # -1 /\ unit # 0
  BY <1>4, <1>5 DEF UnitsSound, BootFine
<1>8. unit \in Nat \ {0} /\ unit + 1 \in 1 .. Len(bytecode)
  BY <1>6, <1>7
<1>9. FitsRole(ast, bytecode[unit + 1], Role(class, NoNode))
  BY <1>4, <1>5 DEF UnitsSound, BodiesFine
<1>10. IsNode(proc)
  BY <1>3, <1>4 DEF IsNode
<1> QED
  BY <1>3, <1>5, <1>8, <1>9, <1>10

LEMMA CallOutcome ==
  ASSUME NEW L, NEW n, NEW R, NEW code, NEW t, Runs(L, n, R, code, t), Call
  PROVE  Onwards(L[1].id)
<1>1. PICK arg : arg = code[t.at + 1]
  OBVIOUS
<1>2. PICK count : count = code[t.at + 2]
  OBVIOUS
<1>3. Fetching(CALL)
  BY DEF Call
<1>4. /\ StandsAt(L, n, R, code, t) /\ MachineInv /\ UnitsSound
      /\ t.at \in Int /\ t.at = vm.ip + 1 /\ t.words = L[n].words
      /\ t.stored = L[n].stored
  BY <1>3, Opcode DEF StandsAt, Runs
<1>5. Operands(1) = {arg} /\ Operands(2) = {count} /\ count \in Words
  BY <1>1, <1>2, <1>3, <1>4, Opcode DEF StandsAt
<1>6. PICK d : d = arg[2]
  OBVIOUS
<1>7. PICK class : class = ast[d].class
  OBVIOUS
<1>8. /\ MayCall(ast, arg, count, L[n].role, t.words)
      /\ State(t.at + 3, AfterCall(class, count[2], t.words), t.stored) \in R
  BY <1>1, <1>2, <1>3, <1>6, <1>7, Opcode DEF Fact
<1>9. /\ IsNode(arg) /\ d \in DOMAIN ast /\ IsProcClass(class)
      /\ Len(Results(class)) \in 0 .. 1
      /\ count[1] = "num" /\ count[2] \in 0 .. Len(t.words)
      /\ ArgumentsMatch(class, L[n].role, t.words)
  BY <1>6, <1>7, <1>8 DEF MayCall, IsVariable, IsNode
<1>10. IF ~ast[d].initialized THEN Await(vm, d)
       ELSE LET proc == ast[d].value
                frame == <<count, Num(vm.fp), Num(vm.ip + 3), Num(vm.id)>>
            IN  IF ~IsNode(proc) \/ ast[proc[2]].code = -1
                  THEN Derail
                  ELSE PushAll(frame, [vm EXCEPT !.id = ast[proc[2]].code,
                                                 !.ip = 0, !.fp = Depth + 3])
  BY <1>5, <1>6, <1>9 DEF Call
<1>11. n \in Nat /\ Tracks(ast, bytecode, initializers, vm, L, n)
       /\ StandsIn(ast, bytecode, L[n], R)
  BY <1>4 DEF StandsAt
<1>12. CASE ~ast[d].initialized
  <2>1. Tracked(ast, bytecode, initializers, vm, L[1].id)
    BY <1>11 DEF Tracked
  <2>2. Await(vm, d)
    BY <1>10, <1>12
  <2>3. vm \in Machines /\ Len(vm.stack) <= StackSize
    BY <1>4 DEF UnitsSound, MachineInv, MachineFine, MachineOK
  <2> QED
    BY <1>9, <1>12, <2>1, <2>2, <2>3 DEF Onwards, Waits
<1>13. CASE ast[d].initialized
  <2>1. PICK proc : proc = ast[d].value
    OBVIOUS
  <2>2. PICK unit \in Nat \ {0} :
          /\ IsNode(proc) /\ ast[proc[2]].code = unit
          /\ unit + 1 \in 1 .. Len(bytecode)
          /\ FitsRole(ast, bytecode[unit + 1], Role(class, NoNode))
    BY <1>4, <1>7, <1>9, <1>13, <2>1, CalleeThere
  <2>3. PICK frame : frame = <<count, Num(vm.fp), Num(vm.ip + 3), Num(vm.id)>>
    OBVIOUS
  <2>4. PICK m : m = [vm EXCEPT !.id = unit, !.ip = 0, !.fp = Depth + 3,
                                !.stack = @ \o frame]
    OBVIOUS
  <2>5. unit # -1
    OBVIOUS
  <2>6. Continue(m) \/ Overflows
    <3>1. PICK before : before = [vm EXCEPT !.id = unit, !.ip = 0, !.fp = Depth + 3]
      OBVIOUS
    <3>2. PushAll(frame, before)
      BY <1>10, <1>13, <2>1, <2>2, <2>3, <2>5, <3>1
    <3>3. vm \in Machines
      BY <1>4 DEF MachineInv, MachineFine, MachineOK
    <3>4. [before EXCEPT !.stack = vm.stack \o frame] = m
      BY <2>4, <3>1, <3>3 DEF Machines
    <3>5. Len(frame) = 4 /\ Depth \in Nat /\ StackSize \in Nat
      BY <1>4, <2>3, StackStands, StackAssumption
    <3>6. Continue(m) \/ (Depth + 4 > StackSize + 1 /\ Derail)
      BY <3>2, <3>4, <3>5 DEF PushAll
    <3>7. Depth + 4 > StackSize + 1 => Depth + 4 > StackSize
      BY <3>5
    <3> QED
      BY <3>6, <3>7 DEF Overflows
  <2>7. Tracked(ast, bytecode, initializers, m, L[1].id)
    <3>1. vm \in Machines
      BY <1>4 DEF MachineInv, MachineFine, MachineOK
    <3>2. /\ vm.stack \in Seq(Words) /\ vm.fp \in Int /\ vm.ip + 3 \in Int /\ vm.id \in Int
          /\ Depth = Len(vm.stack)
      BY <3>1 DEF Machines, Depth
    <3>3. /\ m.id = unit /\ m.ip = 0 /\ m.fp = Len(vm.stack) + 3
          /\ m.stack = vm.stack \o frame
      BY <2>4, <3>1, <3>2 DEF Machines
    <3>4. PICK c \in 0 .. Len(t.words) : c = count[2]
      BY <1>9
    <3>5. count = Num(c) /\ c \in Int
      BY <1>5, <1>9, <3>4, NumberIs
    <3>6. m.stack = vm.stack \o <<Num(c), Num(vm.fp), Num(vm.ip + 3), Num(vm.id)>>
      BY <2>3, <3>3, <3>5
    <3>7. m.stack \in Seq(Words) /\ Framed(vm.stack, m.stack, c, vm.fp, vm.ip + 3, vm.id)
      <4>1. PICK x \in Int : x = vm.fp
        BY <3>2
      <4>2. PICK y \in Int : y = vm.ip + 3
        BY <3>2
      <4>3. PICK z \in Int : z = vm.id
        BY <3>2
      <4>4. PICK s \in Seq(Words) : s = vm.stack
        BY <3>2
      <4>5. PICK r : r = s \o <<Num(c), Num(x), Num(y), Num(z)>>
        OBVIOUS
      <4>6. r \in Seq(Words) /\ Framed(s, r, c, x, y, z)
        BY <3>5, <4>5, FrameFits
      <4>7. m.stack = r
        BY <3>6, <4>1, <4>2, <4>3, <4>4, <4>5
      <4> QED
        BY <4>1, <4>2, <4>3, <4>4, <4>6, <4>7
    <3>8. State(vm.ip + 4, AfterCall(class, c, L[n].words), L[n].stored) \in R
      <4>1. t.at + 3 = vm.ip + 4
        BY <1>4, <3>1 DEF Machines
      <4> QED
        BY <1>4, <1>8, <3>4, <4>1
    <3>9. c \in 0 .. Len(L[n].words) /\ ArgumentsMatch(class, L[n].role, L[n].words)
      BY <1>4, <1>9, <3>4
    <3> QED
      BY <1>9, <1>11, <2>2, <3>3, <3>7, <3>8, <3>9, Enters
  <2> QED
    BY <2>6, <2>7 DEF Onwards, Goes
<1> QED
  BY <1>12, <1>13

LEMMA OneMore ==
  ASSUME NEW low \in Seq(Words), NEW e \in Words
  PROVE  /\ low \o <<e>> \in Seq(Words) /\ Len(low \o <<e>>) = Len(low) + 1
         /\ \A i \in 1 .. Len(low) : (low \o <<e>>)[i] = low[i]
         /\ (low \o <<e>>)[Len(low) + 1] = e
OBVIOUS

(* The sizes of a caller's stack before and after a return.                 *)
LEMMA ReturnedSize ==
  ASSUME NEW base \in Nat, NEW below \in Nat, NEW kept \in Nat, NEW h,
         h = base + below, NEW words \in Nat, words = below + kept,
         NEW len, len = h + kept
  PROVE  len = base + words
OBVIOUS

(* What is left on the stack of the caller's words and the result.          *)
LEMMA CutAndResult ==
  ASSUME MachineFine(vm), NEW k \in 0 .. Depth, NEW kept \in {0, 1}, kept <= Depth,
         NEW stack, stack = Without(k) \o (IF kept = 0 THEN <<>> ELSE <<Top>>)
  PROVE  /\ stack \in Seq(Words) /\ Len(stack) = Depth - k + kept
         /\ \A i \in 1 .. Depth - k : stack[i] = vm.stack[i]
         /\ kept = 1 => stack[Depth - k + 1] = Top
<1>1. PICK low : low = Without(k)
  OBVIOUS
<1>2. /\ low \in Seq(Words) /\ Len(low) = Depth - k
      /\ \A i \in 1 .. Depth - k : low[i] = vm.stack[i]
  BY <1>1, StackCut
<1>3. CASE kept = 0
  <2>1. stack = low \o <<>>
    BY <1>1, <1>3
  <2>2. low \o <<>> = low
    BY <1>2
  <2> QED
    BY <1>2, <1>3, <2>1, <2>2, StackFacts
<1>4. CASE kept = 1
  <2>1. PICK top \in Words : top = Top
    <3>1. Depth \in 1 .. Depth
      BY <1>4, StackFacts
    <3> QED
      BY <3>1, StackFacts DEF Top
  <2>2. stack = low \o <<top>>
    BY <1>1, <1>4, <2>1
  <2>3. PICK h \in Nat : h = Depth - k
    BY StackFacts
  <2>4. /\ stack \in Seq(Words) /\ Len(stack) = h + 1
        /\ \A i \in 1 .. h : stack[i] = low[i]
        /\ stack[h + 1] = top
    <3>1. low \in Seq(Words) /\ Len(low) = h
      BY <1>2, <2>3
    <3>2. PICK s : s = low \o <<top>>
      OBVIOUS
    <3>3. /\ s \in Seq(Words) /\ Len(s) = h + 1
          /\ \A i \in 1 .. h : s[i] = low[i]
          /\ s[h + 1] = top
      <4>1. /\ low \o <<top>> \in Seq(Words) /\ Len(low \o <<top>>) = Len(low) + 1
            /\ \A i \in 1 .. Len(low) : (low \o <<top>>)[i] = low[i]
            /\ (low \o <<top>>)[Len(low) + 1] = top
        BY <3>1, OneMore, Zenon
      <4> QED
        BY <3>1, <3>2, <4>1, Zenon
    <3>4. s = stack
      BY <2>2, <3>2
    <3> QED
      BY <3>3, <3>4
  <2> QED
    BY <1>2, <1>4, <2>1, <2>3, <2>4
<1> QED
  BY <1>3, <1>4

LEMMA LeaveOutcome ==
  ASSUME NEW L, NEW n, NEW R, NEW code, NEW t, Runs(L, n, R, code, t), LeaveCall
  PROVE  Onwards(L[1].id)
<1>1. PICK flag : flag = code[t.at + 1]
  OBVIOUS
<1>2. Fetching(RETURN) /\ vm.fp # NoFrame
  BY DEF LeaveCall
<1>3. /\ StandsAt(L, n, R, code, t) /\ MachineInv
      /\ MayReturn(L[n].role, flag, t) /\ Operands(1) = {flag}
  BY <1>1, <1>2, Opcode DEF Fact
<1>4. PICK c : c = L[n]
  OBVIOUS
<1>5. /\ n \in Nat /\ Tracks(ast, bytecode, initializers, vm, L, n)
      /\ Levels(ast, bytecode, vm.stack, L, n) /\ Executing(ast, vm, c)
      /\ t.words = c.words
  BY <1>3, <1>4 DEF StandsAt, Tracks
<1>6. n # 1 /\ n \in 1 .. n
  BY <1>2, <1>4, <1>5, CalledOrFirst DEF Executing
<1>7. PICK l : l = L[n - 1]
  OBVIOUS
<1>8. Linked(ast, vm.stack, l, c) /\ Fits(ast, bytecode, l) /\ Fits(ast, bytecode, c)
  BY <1>4, <1>5, <1>6, <1>7, CalledOrFirst DEF Levels
<1>9. PICK below : below = Kept(l, c)
  OBVIOUS
<1>10. PICK args : args = c.base - 4 - below - l.base
  OBVIOUS
<1>11. /\ FrameThere(bytecode, vm.stack, c.base, l, below, args)
       /\ Len(Outcome(c.role.class)) \in 0 .. 1
       /\ Len(l.words) = below + Len(Outcome(c.role.class))
  BY <1>8, <1>9, <1>10, ReturnFinds
<1>12. Called(c.role)
  BY <1>8, ProcIsKind DEF Linked, Called
<1>13. c.words = Outcome(c.role.class) /\ (flag = Num(0) <=> Outcome(c.role.class) = <<>>)
  BY <1>3, <1>4, <1>5, <1>12 DEF MayReturn
<1>14. PICK kept \in {0, 1} : kept = IF flag = Num(0) THEN 0 ELSE 1
  OBVIOUS
<1>15. kept = Len(c.words) /\ kept = Len(Outcome(c.role.class))
  <2>1. Outcome(c.role.class) = <<>> <=> Len(Outcome(c.role.class)) = 0
    <3>1. Len(Results(c.role.class)) \in 0 .. 1
      BY <1>8 DEF Linked
    <3> QED
      BY <3>1, OutcomeSeq
  <2>2. PICK size \in 0 .. 1 : size = Len(Outcome(c.role.class))
    BY <1>11
  <2>3. flag = Num(0) <=> size = 0
    BY <1>13, <2>1, <2>2
  <2>4. CASE flag = Num(0)
    BY <1>13, <1>14, <2>2, <2>3, <2>4
  <2>5. CASE flag # Num(0)
    <3>1. kept = 1
      BY <1>14, <2>5
    <3>2. size = 1
      BY <2>2, <2>3, <2>5
    <3> QED
      BY <1>13, <2>2, <3>1, <3>2
  <2> QED
    BY <2>4, <2>5
<1>16. PICK base \in Nat : base = c.base
  BY <1>11 DEF FrameThere
<1>17. /\ base >= 4 /\ Depth = base + kept /\ Depth = Len(vm.stack)
  BY <1>5, <1>11, <1>15, <1>16 DEF FrameThere, Executing, Depth
<1>18. /\ l.id + 1 \in 1 .. Len(bytecode)
       /\ vm.stack[base] = Num(l.id) /\ vm.stack[base - 1] = Num(l.ip)
       /\ vm.stack[base - 2] = Num(l.fp) /\ vm.stack[base - 3] = Num(args)
       /\ args \in 0 .. base - 4 /\ base - 4 - args = l.base + below
       /\ below \in Nat /\ l.base \in Nat
  BY <1>11, <1>16 DEF FrameThere
<1>19. /\ Below(kept) = Num(l.id) /\ Below(kept + 1) = Num(l.ip)
       /\ Below(kept + 2) = Num(l.fp) /\ Below(kept + 3) = Num(args)
  <2>1. /\ Depth - kept = base /\ Depth - (kept + 1) = base - 1
        /\ Depth - (kept + 2) = base - 2 /\ Depth - (kept + 3) = base - 3
    BY <1>17
  <2> QED
    BY <1>18, <2>1 DEF Below
<1>20. PICK k : k = kept + 4 + args
  OBVIOUS
<1>21. /\ k \in 0 .. Depth /\ Depth - k = l.base + below /\ kept <= Depth
       /\ args \in 0 .. Depth - kept - 4 /\ Depth >= kept + 4
  <2>1. args \in Int /\ 0 <= args /\ args <= base - 4
    BY <1>16, <1>18
  <2>2. PICK h : h = l.base + below
    OBVIOUS
  <2>3. base - 4 - args = h
    BY <1>18, <2>2
  <2>4. /\ k \in 0 .. Depth /\ Depth - k = h /\ kept <= Depth
        /\ args \in 0 .. Depth - kept - 4 /\ Depth >= kept + 4
    BY <1>17, <1>20, <2>1, <2>3
  <2> QED
    BY <2>2, <2>4
<1>22. PICK stack : stack = Without(k) \o (IF kept = 0 THEN <<>> ELSE <<Top>>)
  OBVIOUS
<1>23. PICK m : m = [vm EXCEPT !.id = l.id, !.ip = l.ip, !.fp = l.fp, !.stack = stack]
  OBVIOUS
<1>24. Continue(m)
  <2>1. LET a == Below(kept + 3)
        IN  IF /\ Depth >= kept + 4
               /\ IsUnit(Below(kept)) /\ IsNum(Below(kept + 1))
               /\ IsNum(Below(kept + 2)) /\ IsNum(a)
               /\ a[2] \in 0 .. Depth - kept - 4
              THEN Continue([vm EXCEPT
                     !.id = Below(kept)[2],
                     !.ip = Below(kept + 1)[2],
                     !.fp = Below(kept + 2)[2],
                     !.stack = Without(kept + 4 + a[2])
                               \o (IF kept = 0 THEN <<>> ELSE <<Top>>)])
              ELSE Derail
    BY <1>3, <1>14 DEF LeaveCall
  <2>2. /\ Below(kept)[1] = "num" /\ Below(kept)[2] = l.id
        /\ Below(kept + 1)[1] = "num" /\ Below(kept + 1)[2] = l.ip
        /\ Below(kept + 2)[1] = "num" /\ Below(kept + 2)[2] = l.fp
        /\ Below(kept + 3)[1] = "num" /\ Below(kept + 3)[2] = args
    BY <1>19 DEF Num
  <2>3. l.id + 1 \in DOMAIN bytecode
    BY <1>3, <1>18 DEF MachineInv, UnitsFine
  <2> QED
    BY <1>20, <1>21, <1>22, <1>23, <2>1, <2>2, <2>3 DEF IsUnit, IsNum
<1>25. Tracked(ast, bytecode, initializers, m, L[1].id)
  <2>1. /\ stack \in Seq(Words) /\ Len(stack) = Depth - k + kept
        /\ \A i \in 1 .. Depth - k : stack[i] = vm.stack[i]
        /\ kept = 1 => stack[Depth - k + 1] = Top
    BY <1>3, <1>21, <1>22, CutAndResult DEF MachineInv
  <2>2. m.id = l.id /\ m.ip = l.ip /\ m.fp = l.fp /\ m.stack = stack
    <3>1. vm \in Machines
      BY <1>3 DEF MachineInv, MachineFine, MachineOK
    <3> QED
      BY <1>23, <3>1 DEF Machines
  <2>3. Len(m.stack) = l.base + Len(l.words)
    <3>1. PICK h : h = l.base + below
      OBVIOUS
    <3>2. Len(stack) = h + kept
      BY <1>21, <2>1, <3>1
    <3>3. PICK words : words = Len(l.words)
      OBVIOUS
    <3>4. words = below + kept
      BY <1>11, <1>15, <3>3
    <3>5. words \in Nat /\ kept \in Nat
      BY <1>14, <1>18, <3>4
    <3> QED
      BY <1>18, <2>2, <3>1, <3>2, <3>3, <3>4, <3>5, ReturnedSize
  <2>4. Back(l, below, vm.stack, m.stack, c.base)
    <3>1. \A i \in 1 .. l.base + below : m.stack[i] = vm.stack[i]
      BY <1>21, <2>1, <2>2
    <3>2. ASSUME Len(l.words) = below + 1
          PROVE  m.stack[l.base + below + 1] = vm.stack[c.base + 1]
      <4>1. kept = 1
        BY <1>11, <1>15, <1>18, <3>2
      <4>2. m.stack[l.base + below + 1] = Top
        BY <1>21, <2>1, <2>2, <4>1
      <4>3. Top = vm.stack[c.base + 1]
        BY <1>16, <1>17, <4>1 DEF Top
      <4> QED
        BY <4>2, <4>3
    <3> QED
      BY <3>1, <3>2 DEF Back
  <2>5. /\ c.words = Outcome(c.role.class) /\ m.stack \in Seq(Words)
    BY <1>13, <2>1, <2>2
  <2> QED
    BY <1>4, <1>5, <1>6, <1>7, <1>9, <2>2, <2>3, <2>4, <2>5, Leaves
<1> QED
  BY <1>24, <1>25 DEF Onwards, Goes

(* Whatever instruction it is, the machine remains what its activations say *)
(* or is done with an empty stack; the one thing that can end the process   *)
(* is a stack that is full.                                                 *)
LEMMA InstructionOutcome ==
  ASSUME UnitsSound, NEW u, Tracked(ast, bytecode, initializers, vm, u), Instruction
  PROVE  Onwards(u)
<1>1. PICK L : \E n \in Nat : Tracks(ast, bytecode, initializers, vm, L, n) /\ L[1].id = u
  BY DEF Tracked
<1>2. PICK n \in Nat : Tracks(ast, bytecode, initializers, vm, L, n) /\ L[1].id = u
  BY <1>1
<1>3. PICK R, code, t : StandsAt(L, n, R, code, t)
  BY <1>2, MachineStands DEF UnitsSound
<1>4. Runs(L, n, R, code, t)
  BY <1>3 DEF Runs
<1>5. ~Unknown
  BY <1>4, UnknownOutcome
<1>6. Onwards(L[1].id)
  <2>1. CASE FinishUnit
    BY <1>4, <2>1, FinishOutcome
  <2>2. CASE LeaveCall
    BY <1>4, <2>2, LeaveOutcome
  <2>3. CASE LoadWord
    BY <1>4, <2>3, LoadOutcome
  <2>4. CASE Store
    BY <1>4, <2>4, StoreOutcome
  <2>5. CASE LoadArgument
    BY <1>4, <2>5, LoadArgumentOutcome
  <2>6. CASE PushWord
    BY <1>4, <2>6, PushWordOutcome
  <2>7. CASE Call
    BY <1>4, <2>7, CallOutcome
  <2>8. CASE Syscall
    BY <1>4, <2>8, SyscallOutcome
  <2>9. CASE Jump
    BY <1>4, <2>9, JumpOutcome
  <2>10. CASE JumpZero
    BY <1>4, <2>10, JumpZeroOutcome
  <2> QED
    BY <1>5, <2>1, <2>2, <2>3, <2>4, <2>5, <2>6, <2>7, <2>8, <2>9, <2>10
       DEF Instruction
<1> QED
  BY <1>2, <1>6

(* What a machine waits for is no matter of its activations. *)
LEMMA SameMachine ==
  ASSUME NEW nodes, NEW units, NEW inits, NEW m, NEW k, NEW u,
         k.id = m.id, k.ip = m.ip, k.fp = m.fp, k.stack = m.stack,
         Tracked(nodes, units, inits, m, u)
  PROVE  Tracked(nodes, units, inits, k, u)
<1>1. PICK L : \E n \in Nat : Tracks(nodes, units, inits, m, L, n) /\ L[1].id = u
  BY DEF Tracked
<1>2. PICK n \in Nat : Tracks(nodes, units, inits, m, L, n) /\ L[1].id = u
  BY <1>1
<1>3. Executing(nodes, k, L[n])
  BY <1>2 DEF Tracks, Executing
<1>4. Tracks(nodes, units, inits, k, L, n)
  BY <1>2, <1>3 DEF Tracks
<1> QED
  BY <1>2, <1>4 DEF Tracked

LEMMA Rewaiting ==
  ASSUME NEW m \in Machines, NEW d
  PROVE  LET k == [m EXCEPT !.waiting = d]
         IN  k.id = m.id /\ k.ip = m.ip /\ k.fp = m.fp /\ k.stack = m.stack
BY DEF Machines

(* Of a stack that suffices nothing is cleared. *)
LEMMA NothingCleared ==
  ASSUME NEW m, Len(m.stack) <= StackSize, m \in Machines, NEW d
  PROVE  Waiter(m, d) = [m EXCEPT !.waiting = d]
<1>1. Len(m.stack) \in Nat /\ StackSize \in Nat
  BY StackAssumption DEF Machines
<1>2. Cleared(m.stack) = m.stack
  BY <1>1 DEF Cleared
<1> QED
  BY <1>2 DEF Waiter, Machines

(* A job that is taken up goes on where it was, or keeps waiting. *)
LEMMA ResumeOutcome ==
  ASSUME QueueFine, StacksSuffice, NEW u, Tracked(ast, bytecode, initializers, queue[1].vm, u), Resume
  PROVE  Goes(u) \/ Waits(u)
<1>1. Taking("EXECUTE")
  BY DEF Resume
<1>2. Job = queue[1] /\ JobFine(Job) /\ Job.type = "EXECUTE"
  BY <1>1, HeadFacts
<1>3. PICK m : m = Job.vm
  OBVIOUS
<1>4. m \in Machines /\ m.waiting \in DOMAIN ast \cup {NoNode}
      /\ Tracked(ast, bytecode, initializers, m, u)
  BY <1>2, <1>3 DEF JobFine, MachineFine, MachineOK
<1>5. IF m.waiting # NoNode /\ ~ast[m.waiting].initialized
        THEN Await(m, m.waiting)
        ELSE /\ vm' = [m EXCEPT !.waiting = NoNode]
             /\ UNCHANGED <<pipelineVars, ast>>
  BY <1>3 DEF Resume
<1>6. CASE m.waiting # NoNode /\ ~ast[m.waiting].initialized
  <2>1. 1 \in Jobs("EXECUTE")
    BY <1>1, <1>2, HeadFacts DEF Jobs
  <2>2. Len(m.stack) <= StackSize
    BY <1>2, <1>3, <2>1 DEF StacksSuffice
  <2> QED
    BY <1>4, <1>5, <1>6, <2>2 DEF Waits
<1>7. CASE ~(m.waiting # NoNode /\ ~ast[m.waiting].initialized)
  <2>1. PICK k : k = [m EXCEPT !.waiting = NoNode]
    OBVIOUS
  <2>2. k.id = m.id /\ k.ip = m.ip /\ k.fp = m.fp /\ k.stack = m.stack
    BY <1>4, <2>1, Rewaiting
  <2>3. Tracked(ast, bytecode, initializers, k, u)
    BY <1>4, <2>2, SameMachine
  <2>4. Continue(k)
    BY <1>5, <1>7, <2>1 DEF Continue
  <2> QED
    BY <2>3, <2>4 DEF Goes
<1> QED
  BY <1>6, <1>7

-----------------------------------------------------------------------------
(* What a step leaves as it is. *)

(* What was known of the machines that do not run stays true. *)
Lasts ==
  /\ NodesKept(ast, ast')
  /\ UnitsKept(ast', bytecode, bytecode')
  /\ StartsKept(ast, initializers, ast', initializers', bytecode)

LEMMA TrackedLasts ==
  ASSUME Lasts, NEW m, NEW u, Tracked(ast, bytecode, initializers, m, u)
  PROVE  Tracked(ast', bytecode', initializers', m, u)
BY TrackedStays DEF Lasts

(* A machine at the start of a unit that fits its role. *)
LEMMA FreshTracked ==
  ASSUME NEW nodes, NEW units, NEW inits, NEW id \in Nat, id + 1 \in 1 .. Len(units),
         NEW role, ~Called(role), NEW R, Disciplined(nodes, units[id + 1], role, R),
         id = 0 => role = BootRole /\ R = BootStates,
         \A k \in 1 .. Len(inits) :
           nodes[inits[k]].code = id => role.target = nodes[inits[k]].lhs,
         NEW w
  PROVE  Tracked(nodes, units, inits, Machine(id, w), id)
<1>1. PICK l : l = Level(id, 0, NoFrame, 0, role, <<>>, FALSE)
  OBVIOUS
<1>2. /\ l.id = id /\ l.ip = 0 /\ l.fp = NoFrame /\ l.base = 0 /\ l.role = role
      /\ l.words = <<>> /\ l.stored = FALSE
      /\ l = Level(l.id, l.ip, l.fp, l.base, l.role, l.words, l.stored)
  BY <1>1 DEF Level
<1>3. PICK m : m = Machine(id, w)
  OBVIOUS
<1>4. m.id = id /\ m.ip = 0 /\ m.fp = NoFrame /\ m.stack = <<>>
  BY <1>3 DEF Machine
<1>5. Standing(l) \in R
  <2>1. Standing(l) = Entry
    <3>1. l.ip + 1 = 1
      BY <1>2
    <3>2. Standing(l) = State(1, l.words, l.stored)
      BY <3>1 DEF Standing
    <3>3. Standing(l) = State(1, <<>>, FALSE)
      BY <1>2, <3>2, Zenon
    <3> QED
      BY <3>3 DEF Entry
  <2> QED
    BY <2>1 DEF Disciplined
<1>6. Fits(nodes, units, l)
  <2>1. StandsIn(nodes, units, l, R)
    BY <1>2, <1>5 DEF StandsIn
  <2>2. IsSeq(<<>>)
    <3>1. <<>> \in Seq({})
      OBVIOUS
    <3> QED
      BY <3>1 DEF IsSeq
  <2>3. NoFrame \in Int
    BY DEF NoFrame
  <2>4. l.id \in Nat /\ l.id + 1 \in 1 .. Len(units)
    BY <1>2
  <2>5. l.ip \in Int /\ l.fp \in Int /\ l.base \in Nat
    BY <1>2, <2>3
  <2>6. IsSeq(l.words)
    BY <1>2, <2>2, Zenon
  <2>7. l.stored \in BOOLEAN /\ ~l.stored
    BY <1>2
  <2> QED
    BY <1>2, <2>1, <2>4, <2>5, <2>6, <2>7, Zenon DEF Fits
<1>7. PICK L : L = [j \in {1} |-> l]
  OBVIOUS
<1>8. L[1] = l
  BY <1>7
<1>9. Levels(nodes, units, m.stack, L, 1)
  <2>1. \A j \in 1 .. 1 : j = 1
    OBVIOUS
  <2>2. \A j \in 1 .. 1 - 1 : FALSE
    OBVIOUS
  <2> QED
    BY <1>2, <1>6, <1>8, <2>1, <2>2 DEF Levels
<1>10. Executing(nodes, m, l)
  <2>1. <<>> \in Seq(Words) /\ Len(<<>>) = 0
    OBVIOUS
  <2>2. \A i \in 1 .. 0 : FALSE
    OBVIOUS
  <2>3. HaveKinds(nodes, m.stack, l.base, l.words, Len(l.words))
    BY <1>2, <2>1, <2>2 DEF HaveKinds
  <2> QED
    BY <1>2, <1>4, <2>1, <2>3 DEF Executing
<1>11. StartsFor(nodes, inits, l)
  BY <1>2 DEF StartsFor
<1>12. Tracks(nodes, units, inits, m, L, 1)
  BY <1>8, <1>9, <1>10, <1>11 DEF Tracks
<1>13. 1 \in Nat /\ L[1].id = id
  BY <1>2, <1>8
<1> QED
  BY <1>3, <1>12, <1>13 DEF Tracked

LEMMA OriginInside ==
  ASSUME NEW nodes, NEW units, Len(units) \in Nat, NEW inits, NEW m, NEW u,
         Tracked(nodes, units, inits, m, u)
  PROVE  u \in Nat /\ u # Len(units)
<1>1. PICK L : \E n \in Nat : Tracks(nodes, units, inits, m, L, n) /\ L[1].id = u
  BY DEF Tracked
<1>2. PICK n \in Nat : Tracks(nodes, units, inits, m, L, n) /\ L[1].id = u
  BY <1>1
<1>3. 1 \in 1 .. n
  BY <1>2 DEF Tracks, Levels
<1>4. PICK l : l = L[1] /\ Fits(nodes, units, l)
  BY <1>2, <1>3 DEF Tracks, Levels
<1>5. l.id \in Nat /\ l.id + 1 \in 1 .. Len(units)
  BY <1>4 DEF Fits
<1> QED
  BY <1>2, <1>4, <1>5

(* Once a machine with this origin exists, its variable is being, or has    *)
(* been, initialized.                                                       *)
StartBegun(nodes, inits, u) ==
  \A k \in 1 .. Len(inits) :
    nodes[inits[k]].code = u => IsBegun(nodes, nodes[inits[k]].lhs)

BegunLasts == \A d : IsBegun(ast, d) => IsBegun(ast', d)

LEMMA StartStaysBegun ==
  ASSUME Lasts, BegunLasts, NEW u, u # Len(bytecode),
         StartBegun(ast, initializers, u)
  PROVE  StartBegun(ast', initializers', u)
BY DEF Lasts, BegunLasts, StartsKept, StartBegun

(* What a step puts into the queue: jobs, and the origins of the machines   *)
(* among them, which are new or the one of the job in hand.                 *)
Started(e, eo, org) ==
  /\ e \in Seq(JobSet) /\ eo \in Seq(Int) /\ Len(eo) = Len(e)
  /\ \A i \in 1 .. Len(e) : e[i].type = "EXECUTE" =>
       /\ Tracked(ast', bytecode', initializers', e[i].vm, eo[i])
       /\ StartBegun(ast', initializers', eo[i])
       /\ \A j \in 1 .. Len(queue) :
            j # 1 /\ queue[j].type = "EXECUTE" /\ org[j] = eo[i] => eo[i] = 0
       /\ \A j \in 1 .. Len(e) :
            e[j].type = "EXECUTE" /\ eo[j] = eo[i] /\ eo[i] # 0 => i = j

(* What the queue and the origins become. *)
Placed(q, org, e, eo, r, new) ==
  /\ new \in Seq(Int) /\ Len(new) = Len(r) /\ Len(r) \in Nat
  /\ \A i \in 1 .. Len(r) :
       \/ \E j \in 1 .. Len(q) :
            /\ j # 1 /\ j = i + 1 /\ i < Len(q)
            /\ r[i] = q[j] /\ new[i] = org[j]
       \/ \E j \in 1 .. Len(e) :
            /\ j = i - Len(q) + 1 /\ ~(i < Len(q))
            /\ r[i] = e[j] /\ new[i] = eo[j]

LEMMA OriginsAfter ==
  ASSUME NEW e \in Seq(JobSet), NEW eo \in Seq(Int), Len(eo) = Len(e),
         NEW q \in Seq(JobSet), q # <<>>,
         NEW org \in Seq(Int), Len(org) = Len(q), NEW r, r = Tail(q) \o e
  PROVE  \E new : Placed(q, org, e, eo, r, new)
<1>3. PICK new : new = Tail(org) \o eo
  OBVIOUS
<1>4. Len(org) = Len(q) /\ org # <<>> /\ Len(q) \in Nat /\ Len(e) \in Nat
  OBVIOUS
<1>5. /\ new \in Seq(Int) /\ Len(new) = Len(q) - 1 + Len(e)
      /\ \A i \in 1 .. Len(new) :
           new[i] = IF i < Len(q) THEN org[i + 1] ELSE eo[i - Len(q) + 1]
  BY <1>3, <1>4, TailThenEmitted
<1>6. /\ r \in Seq(JobSet) /\ Len(r) = Len(q) - 1 + Len(e)
      /\ \A i \in 1 .. Len(r) :
           r[i] = IF i < Len(q) THEN q[i + 1] ELSE e[i - Len(q) + 1]
  BY TailThenEmitted
<1>7. ASSUME NEW i \in 1 .. Len(r)
      PROVE  \/ \E j \in 1 .. Len(q) :
                  /\ j # 1 /\ j = i + 1 /\ i < Len(q)
                  /\ r[i] = q[j] /\ new[i] = org[j]
             \/ \E j \in 1 .. Len(e) :
                  /\ j = i - Len(q) + 1 /\ ~(i < Len(q))
                  /\ r[i] = e[j] /\ new[i] = eo[j]
  <2>1. CASE i < Len(q)
    <3>1. i + 1 \in 1 .. Len(q) /\ i + 1 # 1
      BY <1>4, <2>1
    <3>2. r[i] = q[i + 1] /\ new[i] = org[i + 1]
      BY <1>5, <1>6, <2>1
    <3> QED
      BY <2>1, <3>1, <3>2
  <2>2. CASE ~(i < Len(q))
    <3>1. i - Len(q) + 1 \in 1 .. Len(e)
      BY <1>4, <1>6, <2>2
    <3>2. r[i] = e[i - Len(q) + 1] /\ new[i] = eo[i - Len(q) + 1]
      BY <1>5, <1>6, <2>2
    <3> QED
      BY <2>2, <3>1, <3>2
  <2> QED
    BY <2>1, <2>2
<1>8. Len(new) = Len(r) /\ Len(r) \in Nat
  BY <1>4, <1>5, <1>6
<1>9. Placed(q, org, e, eo, r, new)
  BY <1>5, <1>7, <1>8 DEF Placed
<1> QED
  BY <1>9

(* The machines and their origins after a job has been taken and others     *)
(* have been put behind.                                                    *)
LEMMA EmittingOrigins ==
  ASSUME QueueFine, queue # <<>>, Len(bytecode) \in Nat, Lasts, BegunLasts, vm' = Idle,
         NEW org, Origins(org), NEW e, NEW eo, Started(e, eo, org),
         queue' = Tail(queue) \o e
  PROVE  MachinesFine'
<1>1. /\ e \in Seq(JobSet) /\ eo \in Seq(Int) /\ Len(eo) = Len(e)
      /\ queue \in Seq(JobSet) /\ org \in Seq(Int) /\ Len(org) = Len(queue)
  BY DEF Started, QueueFine, Origins
<1>2. PICK new : Placed(queue, org, e, eo, queue', new)
  BY <1>1, OriginsAfter
<1>3. ASSUME NEW i \in 1 .. Len(queue'), queue'[i].type = "EXECUTE"
      PROVE  /\ Tracked(ast', bytecode', initializers', queue'[i].vm, new[i])
             /\ StartBegun(ast', initializers', new[i])
  <2>1. CASE \E j \in 1 .. Len(queue) : queue'[i] = queue[j] /\ new[i] = org[j]
    <3>1. PICK j \in 1 .. Len(queue) : queue'[i] = queue[j] /\ new[i] = org[j]
      BY <2>1
    <3>2. /\ Tracked(ast, bytecode, initializers, queue[j].vm, org[j])
          /\ StartBegun(ast, initializers, org[j])
      BY <1>3, <3>1 DEF Origins, Jobs, StartBegun
    <3>3. Tracked(ast', bytecode', initializers', queue[j].vm, org[j])
      BY <3>2, TrackedLasts
    <3>4. org[j] # Len(bytecode)
      BY <3>2, OriginInside
    <3>5. StartBegun(ast', initializers', org[j])
      BY <3>2, <3>4, StartStaysBegun
    <3> QED
      BY <3>1, <3>3, <3>5
  <2>2. CASE \E j \in 1 .. Len(e) : queue'[i] = e[j] /\ new[i] = eo[j]
    BY <1>3, <2>2 DEF Started
  <2> QED
    BY <1>2, <2>1, <2>2 DEF Placed
<1>4. ASSUME NEW i \in 1 .. Len(queue'), NEW j \in 1 .. Len(queue'),
             queue'[i].type = "EXECUTE", queue'[j].type = "EXECUTE",
             new[i] = new[j], new[i] # 0
      PROVE  i = j
  <2>1. Len(queue) \in Nat
    BY <1>1
  <2>2. CASE i < Len(queue) /\ j < Len(queue)
    <3>1. /\ i + 1 \in 1 .. Len(queue) /\ j + 1 \in 1 .. Len(queue)
          /\ queue'[i] = queue[i + 1] /\ new[i] = org[i + 1]
          /\ queue'[j] = queue[j + 1] /\ new[j] = org[j + 1]
      BY <1>2, <2>2 DEF Placed
    <3>2. i + 1 = j + 1
      BY <1>4, <3>1 DEF Origins, Jobs
    <3> QED
      BY <3>2
  <2>3. CASE i < Len(queue) /\ ~(j < Len(queue))
    <3>1. PICK a \in 1 .. Len(queue) :
            a # 1 /\ queue'[i] = queue[a] /\ new[i] = org[a]
      BY <1>2, <2>3 DEF Placed
    <3>2. PICK b \in 1 .. Len(e) : queue'[j] = e[b] /\ new[j] = eo[b]
      BY <1>2, <2>3 DEF Placed
    <3> QED
      BY <1>4, <3>1, <3>2 DEF Started
  <2>4. CASE ~(i < Len(queue)) /\ j < Len(queue)
    <3>1. PICK a \in 1 .. Len(queue) :
            a # 1 /\ queue'[j] = queue[a] /\ new[j] = org[a]
      BY <1>2, <2>4 DEF Placed
    <3>2. PICK b \in 1 .. Len(e) : queue'[i] = e[b] /\ new[i] = eo[b]
      BY <1>2, <2>4 DEF Placed
    <3> QED
      BY <1>4, <3>1, <3>2 DEF Started
  <2>5. CASE ~(i < Len(queue)) /\ ~(j < Len(queue))
    <3>1. PICK a \in 1 .. Len(e) :
            a = i - Len(queue) + 1 /\ queue'[i] = e[a] /\ new[i] = eo[a]
      BY <1>2, <2>5 DEF Placed
    <3>2. PICK b \in 1 .. Len(e) :
            b = j - Len(queue) + 1 /\ queue'[j] = e[b] /\ new[j] = eo[b]
      BY <1>2, <2>5 DEF Placed
    <3>3. a = b
      BY <1>4, <3>1, <3>2 DEF Started
    <3>4. i \in Int /\ j \in Int
      <4>1. PICK len \in Nat : len = Len(queue')
        BY <1>2 DEF Placed
      <4> QED
        BY <1>4, <4>1
    <3>5. i - Len(queue) + 1 = j - Len(queue) + 1
      BY <3>1, <3>2, <3>3
    <3> QED
      BY <2>1, <3>4, <3>5
  <2> QED
    BY <2>2, <2>3, <2>4, <2>5
<1>5. Origins(new)'
  <2>1. new \in Seq(Int) /\ Len(new) = Len(queue')
    BY <1>2 DEF Placed
  <2>2. Idle' = Idle
    BY DEF Idle, Machine
  <2> QED
    BY <1>3, <1>4, <2>1, <2>2 DEF Origins, Jobs, StartBegun
<1> QED
  BY <1>5 DEF MachinesFine

(* A step that puts no machine into the queue. *)
LEMMA NoMachineEmitted ==
  ASSUME QueueFine, queue # <<>>, Len(bytecode) \in Nat, Lasts, BegunLasts, vm' = Idle,
         MachinesFine, NEW e \in Seq(JobSet),
         \A i \in 1 .. Len(e) : e[i].type # "EXECUTE",
         queue' = Tail(queue) \o e
  PROVE  MachinesFine'
<1>1. PICK org : Origins(org)
  BY DEF MachinesFine
<1>2. PICK eo : eo = [i \in 1 .. Len(e) |-> 0]
  OBVIOUS
<1>3. eo \in Seq(Int) /\ Len(eo) = Len(e)
  BY <1>2
<1>4. Started(e, eo, org)
  BY <1>3 DEF Started
<1> QED
  BY <1>1, <1>4, EmittingOrigins

(* A step of the machine in hand that leaves the queue alone. *)
LEMMA StandingOrigins ==
  ASSUME QueueFine, Len(bytecode) \in Nat, Lasts, BegunLasts, queue' = queue,
         NEW org, Origins(org),
         vm' # Idle => Tracked(ast', bytecode', initializers', vm', org[1])
  PROVE  MachinesFine'
<1>1. ASSUME NEW i \in 1 .. Len(queue), queue[i].type = "EXECUTE"
      PROVE  /\ Tracked(ast', bytecode', initializers', queue[i].vm, org[i])
             /\ StartBegun(ast', initializers', org[i])
  <2>1. /\ Tracked(ast, bytecode, initializers, queue[i].vm, org[i])
        /\ StartBegun(ast, initializers, org[i])
    BY <1>1 DEF Origins, Jobs, StartBegun
  <2>2. org[i] # Len(bytecode)
    BY <2>1, OriginInside
  <2> QED
    BY <2>1, <2>2, TrackedLasts, StartStaysBegun
<1>2. \A i, j \in 1 .. Len(queue) :
        queue[i].type = "EXECUTE" /\ queue[j].type = "EXECUTE" =>
          (org[i] = org[j] /\ org[i] # 0 => i = j)
  BY DEF Origins, Jobs
<1>3. org \in Seq(Int) /\ Len(org) = Len(queue)
  BY DEF Origins
<1>4. Idle' = Idle
  BY DEF Idle, Machine
<1>5. Origins(org)'
  BY <1>1, <1>2, <1>3, <1>4 DEF Origins, Jobs, StartBegun
<1> QED
  BY <1>5 DEF MachinesFine

-----------------------------------------------------------------------------
(* The rest of the invariant. *)

SoundParts == ValuesFine /\ BodiesFine /\ StartsFine /\ BootFine

(* No node gets bytecode, and only the bootstrap changes.                   *)
Uncoded ==
  /\ initializers' = initializers
  /\ \A p \in DOMAIN ast' :
       ast'[p].code # -1 => p \in DOMAIN ast /\ ast[p].code = ast'[p].code
  /\ \/ bytecode' = bytecode
     \/ \E main : bytecode' = [bytecode EXCEPT ![1][2] = Pointer(main)]

(* No variable gets a value. *)
Unwritten ==
  \A p \in DOMAIN ast' : ast'[p].initialized =>
    /\ p \in DOMAIN ast /\ ast[p].initialized
    /\ ast'[p].value = ast[p].value

LEMMA ValueStays ==
  ASSUME Lasts, NEW p \in DOMAIN ast, ast[p].class # NoType,
         NEW word, HasKind(ast, word, Kind(ast[p].class))
  PROVE  ast'[p].class # NoType /\ HasKind(ast', word, Kind(ast'[p].class))
<1>1. NodesKept(ast, ast')
  BY DEF Lasts
<1>2. ast'[p].class = ast[p].class
  BY <1>1 DEF NodesKept
<1> QED
  BY <1>1, <1>2, KindStays

LEMMA ValuesStay ==
  ASSUME ValuesFine, Lasts, Unwritten
  PROVE  ValuesFine'
<1> SUFFICES ASSUME NEW p \in DOMAIN ast', ast'[p].initialized
             PROVE  /\ ast'[p].class # NoType
                    /\ HasKind(ast', ast'[p].value, Kind(ast'[p].class))
  BY DEF ValuesFine
<1>1. p \in DOMAIN ast /\ ast[p].initialized /\ ast'[p].value = ast[p].value
  BY DEF Unwritten
<1>2. ast[p].class # NoType /\ HasKind(ast, ast[p].value, Kind(ast[p].class))
  BY <1>1 DEF ValuesFine
<1> QED
  BY <1>1, <1>2, ValueStays

(* A unit that has been made keeps its role. *)
LEMMA RoleStays ==
  ASSUME UnitsFine, Lasts, NEW n \in Int, n \in -1 .. Len(bytecode) - 1,
         n # -1, n # 0, NEW role, FitsRole(ast, bytecode[n + 1], role)
  PROVE  FitsRole(ast', bytecode'[n + 1], role)
<1>1. PICK R : Disciplined(ast, bytecode[n + 1], role, R)
  BY DEF FitsRole
<1>2. PICK u : u = n + 1
  OBVIOUS
<1>3. Len(bytecode) \in Nat
  BY DEF UnitsFine
<1>4. u \in 2 .. Len(bytecode) /\ u \in 1 .. Len(bytecode)
  BY <1>2, <1>3
<1>5. bytecode[u] \in Seq(Words) /\ bytecode'[u] = bytecode[u]
  BY <1>4 DEF UnitsFine, Lasts, UnitsKept
<1>6. Disciplined(ast', bytecode[u], role, R)
  BY <1>1, <1>2, <1>5, DisciplineStays DEF Lasts
<1> QED
  BY <1>2, <1>5, <1>6 DEF FitsRole

(* A body with bytecode is one of a typed procedure, now and later. *)
LEMMA CodedCallable ==
  ASSUME IInv, BootFine, Lasts, NEW b \in DOMAIN ast, ast[b].code # -1 \/ Opened(b),
         Callable(ast', b)
  PROVE  /\ Callable(ast, b) /\ Signature(ast, b) # NoType
         /\ Signature(ast', b) = Signature(ast, b)
<1>1. Opened(b)
  BY DEF IInv, OpenedFirst
<1>2. NodesKept(ast, ast')
  BY DEF Lasts
<1>3. CASE b = PutcCode
  BY <1>2, <1>3, SignatureStays DEF BootFine, Callable, Signature
<1>4. CASE b # PutcCode
  <2>1. IsBody(ast', b)
    BY <1>4 DEF Callable
  <2>2. Parent(b) \in DOMAIN ast /\ ast[Parent(b)].kind = "PROCEDURE"
    BY <1>1, <1>2, <2>1 DEF Opened, IsBody, NodesKept
  <2>3. ast[Parent(b)].class # NoType
    BY <1>1, <2>2 DEF Opened
  <2>4. Callable(ast, b) /\ Signature(ast, b) # NoType
    BY <1>4, <2>2, <2>3 DEF Callable, IsBody, Signature
  <2> QED
    BY <1>2, <2>4, SignatureStays
<1> QED
  BY <1>3, <1>4

LEMMA CodedNumber ==
  ASSUME IInv, BootFine, NEW p \in DOMAIN ast, ast[p].code # -1
  PROVE  /\ ast[p].code \in Int /\ ast[p].code \in -1 .. Len(bytecode) - 1
         /\ ast[p].code # 0
<1>1. ast[p].code \in -1 .. Len(bytecode) - 1 /\ Len(bytecode) \in Nat
  BY DEF IInv, NodesFine, NodeOK, UnitsFine
<1>2. ast[p].code \in Int
  BY <1>1
<1> QED
  BY <1>1, <1>2 DEF BootFine

LEMMA OldBodyFits ==
  ASSUME IInv, BootFine, BodiesFine, Lasts,
         NEW b \in DOMAIN ast, ast[b].code # -1, ast'[b].code = ast[b].code,
         Callable(ast', b)
  PROVE  FitsRole(ast', bytecode'[ast'[b].code + 1], Role(Signature(ast', b), NoNode))
<1>1. Callable(ast, b) /\ Signature(ast', b) = Signature(ast, b)
  BY CodedCallable
<1>2. FitsRole(ast, bytecode[ast[b].code + 1], Role(Signature(ast, b), NoNode))
  BY <1>1 DEF BodiesFine
<1>3. PICK n : n = ast[b].code
  OBVIOUS
<1>4. n \in Int /\ n \in -1 .. Len(bytecode) - 1 /\ n # -1 /\ n # 0
  BY <1>3, CodedNumber
<1>5. PICK role : role = Role(Signature(ast, b), NoNode)
  OBVIOUS
<1>6. FitsRole(ast', bytecode'[n + 1], role)
  BY <1>2, <1>3, <1>4, <1>5, RoleStays DEF IInv
<1> QED
  BY <1>1, <1>3, <1>5, <1>6

LEMMA OldStartFits ==
  ASSUME IInv, BootFine, StartsFine, Lasts, NEW k \in 1 .. Len(initializers),
         NEW q, q = initializers[k],
         ast'[q].code = ast[q].code, ast'[q].lhs = ast[q].lhs
  PROVE  FitsRole(ast', bytecode'[ast'[q].code + 1], Role(NoType, ast'[q].lhs))
<1>1. q \in DOMAIN ast /\ ast[q].code # -1
  BY DEF IInv, InitializersFine
<1>2. FitsRole(ast, bytecode[ast[q].code + 1], Role(NoType, ast[q].lhs))
  BY DEF StartsFine
<1>3. PICK n : n = ast[q].code
  OBVIOUS
<1>4. n \in Int /\ n \in -1 .. Len(bytecode) - 1 /\ n # -1 /\ n # 0
  BY <1>1, <1>3, CodedNumber
<1>5. PICK role : role = Role(NoType, ast[q].lhs)
  OBVIOUS
<1>6. FitsRole(ast', bytecode'[n + 1], role)
  BY <1>2, <1>3, <1>4, <1>5, RoleStays DEF IInv
<1> QED
  BY <1>3, <1>5, <1>6

LEMMA BootReplaced ==
  ASSUME NEW p, NEW main, NEW boot, boot = Bootstrap \/ boot = Boot(p)
  PROVE  [boot EXCEPT ![2] = Pointer(main)] = Boot(main)
<1>1. Len(Bootstrap) = 5 /\ DOMAIN Bootstrap = 1 .. 5
  BY DEF Bootstrap
<1> QED
  BY <1>1 DEF Boot

LEMMA PartsKept ==
  ASSUME IInv, BodiesFine, StartsFine, BootFine, Lasts, Uncoded
  PROVE  BodiesFine' /\ StartsFine' /\ BootFine'
<1>1. BodiesFine'
  <2> SUFFICES ASSUME NEW b \in DOMAIN ast', Callable(ast', b), ast'[b].code # -1
               PROVE  FitsRole(ast', bytecode'[ast'[b].code + 1],
                               Role(Signature(ast', b), NoNode))
    BY DEF BodiesFine
  <2>1. b \in DOMAIN ast /\ ast[b].code # -1 /\ ast'[b].code = ast[b].code
    BY DEF Uncoded
  <2> QED
    BY <2>1, OldBodyFits
<1>2. StartsFine'
  <2> SUFFICES ASSUME NEW k \in 1 .. Len(initializers)
               PROVE  FitsRole(ast', bytecode'[ast'[initializers[k]].code + 1],
                               Role(NoType, ast'[initializers[k]].lhs))
    BY DEF StartsFine, Uncoded
  <2>1. PICK q : q = initializers[k]
    OBVIOUS
  <2>2. q \in DOMAIN ast /\ ast[q].code # -1 /\ ast[q].class # NoType
    BY <2>1 DEF IInv, InitializersFine
  <2>3. ast'[q].code = ast[q].code /\ ast'[q].lhs = ast[q].lhs
    BY <2>2 DEF Lasts, NodesKept
  <2> QED
    BY <2>1, <2>3, OldStartFits
<1>3. BootFine'
  <2>1. /\ Putc \in DOMAIN ast' /\ ast'[Putc].class # NoType
        /\ PutcCode \in DOMAIN ast' /\ ast'[PutcCode].code # -1
    BY DEF BootFine, Lasts, NodesKept
  <2>2. \A p \in DOMAIN ast' : ast'[p].code # 0
    BY DEF Uncoded, BootFine
  <2>3. CASE bytecode' = bytecode
    BY <2>1, <2>2, <2>3 DEF BootFine
  <2>4. CASE \E main : bytecode' = [bytecode EXCEPT ![1][2] = Pointer(main)]
    <3>1. PICK main : bytecode' = [bytecode EXCEPT ![1][2] = Pointer(main)]
      BY <2>4
    <3>2. 1 \in DOMAIN bytecode
      BY DEF IInv, UnitsFine
    <3>3. bytecode'[1] = [bytecode[1] EXCEPT ![2] = Pointer(main)]
      BY <3>1, <3>2
    <3>4. \E p : bytecode[1] = Bootstrap \/ bytecode[1] = Boot(p)
      BY DEF BootFine
    <3>5. bytecode'[1] = Boot(main)
      BY <3>3, <3>4, BootReplaced
    <3> QED
      BY <2>1, <2>2, <3>5 DEF BootFine
  <2> QED
    BY <2>3, <2>4 DEF Uncoded
<1> QED
  BY <1>1, <1>2, <1>3

LEMMA PartsSettled ==
  ASSUME IInv, SoundParts, Lasts, Uncoded, Unwritten
  PROVE  SoundParts'
BY ValuesStay, PartsKept DEF SoundParts

(* What was known stays true of tables that only grow, if no unit and no    *)
(* initializer is added.                                                    *)
LEMMA GrowingLasts ==
  ASSUME IInv, BootFine, Grows, initializers' = initializers,
         \A p \in DOMAIN ast : ast[p].initialized => ast'[p].initialized,
         \/ bytecode' = bytecode
         \/ /\ bytecode' \in Seq(Seq(Words)) /\ Len(bytecode') = Len(bytecode)
            /\ \A u \in 2 .. Len(bytecode) : bytecode'[u] = bytecode[u]
            /\ Disciplined(ast', bytecode'[1], BootRole, BootStates)
  PROVE  Lasts /\ BegunLasts
<1>1. NodesKept(ast, ast')
  BY GrowsKept DEF BootFine
<1>2. bytecode \in Seq(Seq(Words)) /\ Len(bytecode) \in Nat
  BY DEF IInv, UnitsFine
<1>3. UnitsKept(ast', bytecode, bytecode')
  BY <1>2 DEF UnitsKept
<1>4. StartsKept(ast, initializers, ast', initializers', bytecode)
  <2> SUFFICES ASSUME NEW k \in 1 .. Len(initializers)
               PROVE  /\ ast'[initializers[k]].code = ast[initializers[k]].code
                      /\ ast'[initializers[k]].lhs = ast[initializers[k]].lhs
    BY DEF StartsKept
  <2>1. PICK q : q = initializers[k]
    OBVIOUS
  <2>2. q \in DOMAIN ast /\ ast[q].code # -1 /\ ast[q].class # NoType
    BY <2>1 DEF IInv, InitializersFine
  <2> QED
    BY <1>1, <2>1, <2>2 DEF NodesKept
<1>5. BegunLasts
  BY DEF Grows, NodeKept, BegunLasts, IsBegun
<1> QED
  BY <1>1, <1>3, <1>4, <1>5 DEF Lasts

(* A step of the loop or of a handler that leaves the tables alone. *)
LEMMA TablesLast ==
  ASSUME IInv, BootFine, UNCHANGED <<program, ast, bytecode, initializers>>
  PROVE  Lasts /\ BegunLasts /\ Uncoded /\ Unwritten
<1>1. Grows
  BY TablesUnchanged
<1> QED
  BY <1>1, GrowingLasts DEF Uncoded, Unwritten

LEMMA TailAlone ==
  ASSUME NEW S, NEW q \in Seq(S), q # <<>>
  PROVE  Tail(q) = Tail(q) \o <<>>
OBVIOUS

LEMMA QueueInvFacts ==
  ASSUME IInv
  PROVE  QueueFine /\ queue \in Seq(JobSet) /\ Len(bytecode) \in Nat /\ VmFine
<1>1. QueueFine /\ VmFine /\ UnitsFine
  BY DEF IInv
<1>2. queue \in Seq(JobSet)
  BY <1>1 DEF QueueFine
<1>3. bytecode \in Seq(Seq(Words))
  BY <1>1 DEF UnitsFine
<1>4. Len(bytecode) \in Nat
  BY <1>3
<1> QED
  BY <1>1, <1>2, <1>4

(* Nothing has happened to a machine or to what it relies on. *)
LEMMA CalmStep ==
  ASSUME IInv, SInv, UNCHANGED <<program, ast, bytecode, initializers>>,
         \/ queue' = queue /\ (vm' = vm \/ vm' = Idle)
         \/ /\ queue # <<>> /\ vm' = Idle
            /\ \E e \in Seq(JobSet) :
                 /\ \A i \in 1 .. Len(e) : e[i].type # "EXECUTE"
                 /\ queue' = Tail(queue) \o e
  PROVE  SInv'
<1>1. SoundParts /\ MachinesFine
  BY DEF SInv, SoundParts
<1>2. Lasts /\ BegunLasts /\ Uncoded /\ Unwritten
  BY <1>1, TablesLast DEF SoundParts
<1>3. SoundParts'
  BY <1>1, <1>2, PartsSettled
<1>4. QueueFine /\ Len(bytecode) \in Nat
  BY QueueInvFacts
<1>5. MachinesFine'
  <2>1. CASE queue' = queue /\ (vm' = vm \/ vm' = Idle)
    <3>1. PICK org : Origins(org)
      BY <1>1 DEF MachinesFine
    <3>2. Idle' = Idle
      BY DEF Idle, Machine
    <3>3. vm' # Idle => Tracked(ast', bytecode', initializers', vm', org[1])
      BY <1>2, <2>1, <3>1, TrackedLasts DEF Origins
    <3> QED
      BY <1>2, <1>4, <2>1, <3>1, <3>3, StandingOrigins
  <2>2. CASE /\ queue # <<>> /\ vm' = Idle
             /\ \E e \in Seq(JobSet) :
                  /\ \A i \in 1 .. Len(e) : e[i].type # "EXECUTE"
                  /\ queue' = Tail(queue) \o e
    BY <1>1, <1>2, <1>4, <2>2, NoMachineEmitted
  <2> QED
    BY <2>1, <2>2
<1> QED
  BY <1>3, <1>5 DEF SInv, SoundParts

LEMMA NoneEmitted ==
  /\ <<>> \in Seq(JobSet)
  /\ \A i \in 1 .. Len(<<>>) : FALSE
OBVIOUS

LEMMA OneEmitted ==
  ASSUME NEW job \in JobSet, job.type # "EXECUTE"
  PROVE  /\ <<job>> \in Seq(JobSet)
         /\ \A i \in 1 .. Len(<<job>>) : <<job>>[i].type # "EXECUTE"
OBVIOUS

LEMMA ReadSound ==
  ASSUME IInv, SInv, Read
  PROVE  SInv'
<1>1. /\ Taking("READ") /\ UNCHANGED <<program, ast, bytecode, initializers, vm>>
      /\ queue' = Tail(queue) \/ queue' = Tail(queue) \o <<FileJob("LEX", Job.file)>>
  BY DEF Read, Completed, Dropped
<1>2. queue # <<>> /\ queue \in Seq(JobSet) /\ queue[1].type = "READ" /\ Job = queue[1]
      /\ queue[1] \in JobSet
  BY <1>1, HeadFacts DEF IInv
<1>3. vm' = Idle
  BY <1>1, <1>2, NoMachine DEF IInv
<1>4. CASE queue' = Tail(queue)
  <2>1. queue' = Tail(queue) \o <<>>
    BY <1>2, <1>4, TailAlone
  <2> QED
    BY <1>1, <1>2, <1>3, <2>1, NoneEmitted, CalmStep
<1>5. CASE queue' = Tail(queue) \o <<FileJob("LEX", Job.file)>>
  <2>1. PICK job : job = FileJob("LEX", Job.file)
    OBVIOUS
  <2>2. job \in JobSet /\ job.type = "LEX"
    BY <1>2, <2>1 DEF JobSet, FileJob, FileTypes, NodeTypes, SENTINEL
  <2> QED
    BY <1>1, <1>2, <1>3, <1>5, <2>1, <2>2, OneEmitted, CalmStep
<1> QED
  BY <1>1, <1>4, <1>5

LEMMA LexSound ==
  ASSUME IInv, SInv, Lex
  PROVE  SInv'
<1>1. /\ Taking("LEX") /\ UNCHANGED <<program, ast, bytecode, initializers, vm>>
      /\ queue' = Tail(queue) \o <<FileJob("PARSE", Job.file)>>
  BY DEF Lex, Completed
<1>2. queue # <<>> /\ queue[1].type = "LEX" /\ Job = queue[1] /\ queue[1] \in JobSet
  BY <1>1, HeadFacts DEF IInv
<1>3. vm' = Idle
  BY <1>1, <1>2, NoMachine DEF IInv
<1>4. PICK job : job = FileJob("PARSE", Job.file)
  OBVIOUS
<1>5. job \in JobSet /\ job.type = "PARSE"
  BY <1>2, <1>4 DEF JobSet, FileJob, FileTypes, NodeTypes, SENTINEL
<1> QED
  BY <1>1, <1>2, <1>3, <1>4, <1>5, OneEmitted, CalmStep

LEMMA OptimizeSound ==
  ASSUME IInv, SInv, Optimize
  PROVE  SInv'
<1>1. /\ Taking("OPTIMIZE") /\ UNCHANGED <<program, ast, bytecode, initializers, vm>>
      /\ queue' = Tail(queue) \o <<NodeJob("BYTECODE", Job.node)>>
  BY DEF Optimize, Completed
<1>2. queue # <<>> /\ queue[1].type = "OPTIMIZE" /\ Job = queue[1] /\ queue[1] \in JobSet
  BY <1>1, HeadFacts DEF IInv
<1>3. vm' = Idle
  BY <1>1, <1>2, NoMachine DEF IInv
<1>4. PICK job : job = NodeJob("BYTECODE", Job.node)
  OBVIOUS
<1>5. job \in JobSet /\ job.type = "BYTECODE"
  BY <1>2, <1>4 DEF JobSet, NodeJob, FileTypes, NodeTypes, SENTINEL
<1> QED
  BY <1>1, <1>2, <1>3, <1>4, <1>5, OneEmitted, CalmStep

LEMMA TurnSound ==
  ASSUME IInv, SInv, Turn
  PROVE  SInv'
<1>1. UNCHANGED <<program, ast, bytecode, initializers, vm>>
  BY DEF Turn
<1>2. VmFine /\ queue \in Seq(JobSet)
  BY QueueInvFacts
<1>3. ASSUME queue # <<>>, phase # "loop" \/ queue[1].type # "EXECUTE",
             queue' = Tail(queue)
      PROVE  SInv'
  <2>1. vm' = Idle
    BY <1>1, <1>2, <1>3, NoMachine
  <2>2. queue' = Tail(queue) \o <<>>
    BY <1>2, <1>3, TailAlone
  <2> QED
    BY <1>1, <1>3, <2>1, <2>2, NoneEmitted, CalmStep
<1>4. CASE Report
  <2>1. Taking("ABORT") /\ queue' = Tail(queue)
    BY <1>4 DEF Report, TakeAbort
  <2> QED
    BY <1>3, <2>1, HeadFacts DEF IInv
<1>5. CASE DrainAll
  BY <1>3, <1>5 DEF DrainAll, Drain
<1>6. CASE NextRound
  <2>1. Taking("SENTINEL") /\ queue' = Tail(queue) \o <<Job>>
    BY <1>6 DEF NextRound
  <2>2. Job = SENTINEL /\ vm' = Idle /\ queue # <<>> /\ queue[1] = SENTINEL
        /\ queue[1] \in JobSet
    BY <1>1, <2>1, SentinelTaken, HeadFacts DEF IInv
  <2>3. SENTINEL.type # "EXECUTE" /\ SENTINEL \in JobSet
    BY DEF SENTINEL, JobSet
  <2> QED
    BY <1>1, <2>1, <2>2, <2>3, OneEmitted, CalmStep
<1>7. CASE Stall
  <2>1. Taking("SENTINEL") /\ queue' = Tail(queue)
    BY <1>7 DEF Stall
  <2> QED
    BY <1>3, <2>1, HeadFacts DEF IInv
<1>8. CASE Return
  BY <1>1, <1>8, CalmStep DEF Return
<1> QED
  BY <1>4, <1>5, <1>6, <1>7, <1>8 DEF Turn

LEMMA NothingSound ==
  ASSUME IInv, SInv, UNCHANGED vars
  PROVE  SInv'
BY CalmStep DEF vars

(* A step of a handler that puts no machine into the queue. *)
LEMMA HandlerSound ==
  ASSUME IInv, SInv, Lasts, BegunLasts, Uncoded, Unwritten, queue # <<>>, vm' = Idle,
         NEW e \in Seq(JobSet), \A i \in 1 .. Len(e) : e[i].type # "EXECUTE",
         queue' = Tail(queue) \o e
  PROVE  SInv'
<1>1. SoundParts /\ MachinesFine
  BY DEF SInv, SoundParts
<1>2. SoundParts'
  BY <1>1, PartsSettled
<1>3. QueueFine /\ Len(bytecode) \in Nat
  BY QueueInvFacts
<1>4. MachinesFine'
  BY <1>1, <1>3, NoMachineEmitted
<1> QED
  BY <1>2, <1>4 DEF SInv, SoundParts

LEMMA ParseSound ==
  ASSUME IInv, HandlersKeep, SInv, Parse
  PROVE  SInv'
<1>1. /\ queue # <<>> /\ queue \in Seq(JobSet) /\ queue[1].type = "PARSE"
      /\ UNCHANGED <<program, bytecode, initializers, vm>>
  BY HeadFacts DEF Parse, IInv
<1>2. vm' = Idle
  BY <1>1, NoMachine DEF IInv
<1>3. PICK terms : terms = program[Job.file]
  OBVIOUS
<1>4. PICK f : f = FilesParsed + 1
  OBVIOUS
<1>5. PICK e : e = ItemJobs(terms, f)
  OBVIOUS
<1>6. e \in Seq(JobSet) /\ queue' = Tail(queue) \o e
  BY <1>3, <1>4, <1>5, ParsedJobs DEF Completed
<1>7. \A i \in 1 .. Len(e) : e[i].type # "EXECUTE"
  <2>1. /\ DOMAIN e = 1 .. Len(e) /\ DOMAIN e = 1 .. Len(terms)
        /\ \A i \in 1 .. Len(terms) : e[i] = ItemJob(terms, f, i)
    BY <1>5, <1>6 DEF ItemJobs
  <2>2. ASSUME NEW i \in 1 .. Len(e) PROVE e[i].type # "EXECUTE"
    <3>1. e[i] = ItemJob(terms, f, i)
      BY <2>1
    <3>2. CASE terms[i].k = "LOAD"
      BY <3>1, <3>2 DEF ItemJob, FileJob
    <3>3. CASE terms[i].k # "LOAD"
      BY <3>1, <3>3 DEF ItemJob, NodeJob
    <3> QED
      BY <3>2, <3>3
  <2> QED
    BY <2>2
<1>8. /\ Grows /\ \A p \in DOMAIN ast : ast'[p] = ast[p]
      /\ \A p \in DOMAIN ast' : ast'[p].code # -1 => p \in DOMAIN ast
  BY ParsedTables
<1>9. \A p \in DOMAIN ast' : p \notin DOMAIN ast => ~ast'[p].initialized
  <2>1. PICK new : new = ParsedFile(terms, f)
    OBVIOUS
  <2>2. ast' = WithNodes(ast, new)
    BY <1>3, <1>4, <2>1 DEF Parse
  <2>3. \A p \in DOMAIN new : new[p].initialized = FALSE
    BY <1>3, <1>4, <2>1 DEF Parse, HandlersKeep, ParserContract
  <2> QED
    BY <2>2, <2>3 DEF WithNodes
<1>10. Uncoded /\ Unwritten
  <2>1. Uncoded
    BY <1>1, <1>8 DEF Uncoded
  <2>2. Unwritten
    BY <1>8, <1>9 DEF Unwritten
  <2> QED
    BY <2>1, <2>2
<1>11. Lasts /\ BegunLasts
  BY <1>1, <1>8, GrowingLasts DEF SInv
<1> QED
  BY <1>1, <1>2, <1>6, <1>7, <1>10, <1>11, HandlerSound

(* The bootstrap's machine is put behind the others. *)
LEMMA BootSound ==
  ASSUME IInv, IInv', SInv, SoundParts', Lasts, BegunLasts, queue # <<>>, vm' = Idle,
         Disciplined(ast', bytecode'[1], BootRole, BootStates),
         NEW e \in Seq(JobSet), NEW w,
         \A i \in 1 .. Len(e) : e[i].type = "EXECUTE" => e[i].vm = Machine(0, w),
         queue' = Tail(queue) \o e
  PROVE  SInv'
<1>1. PICK org : Origins(org)
  BY DEF SInv, MachinesFine
<1>2. PICK eo : eo = [i \in 1 .. Len(e) |-> 0]
  OBVIOUS
<1>3. eo \in Seq(Int) /\ Len(eo) = Len(e) /\ \A i \in 1 .. Len(e) : eo[i] = 0
  BY <1>2
<1>4. \A k \in 1 .. Len(initializers') : ast'[initializers'[k]].code # 0
  <2>1. \A p \in DOMAIN ast' : ast'[p].code # 0
    BY DEF SoundParts, BootFine
  <2>2. \A k \in 1 .. Len(initializers') : initializers'[k] \in DOMAIN ast'
    BY DEF IInv, InitializersFine
  <2> QED
    BY <2>1, <2>2
<1>5. Tracked(ast', bytecode', initializers', Machine(0, w), 0)
  <2>1. 0 \in Nat /\ 0 + 1 \in 1 .. Len(bytecode') /\ 0 + 1 = 1
    BY DEF IInv, UnitsFine
  <2>2. ~Called(BootRole)
    BY DEF Called, BootRole, Role
  <2>3. PICK a : a = ast'
    OBVIOUS
  <2>4. PICK inits : inits = initializers'
    OBVIOUS
  <2>5. \A k \in 1 .. Len(inits) :
          a[inits[k]].code = 0 => BootRole.target = a[inits[k]].lhs
    BY <1>4, <2>3, <2>4
  <2>6. Tracked(a, bytecode', inits, Machine(0, w), 0)
    BY <2>1, <2>2, <2>3, <2>5, FreshTracked
  <2> QED
    BY <2>3, <2>4, <2>6
<1>6. StartBegun(ast', initializers', 0)
  BY <1>4 DEF StartBegun
<1>7. Started(e, eo, org)
  BY <1>3, <1>5, <1>6 DEF Started
<1>8. QueueFine /\ Len(bytecode) \in Nat
  BY QueueInvFacts
<1>9. MachinesFine'
  BY <1>1, <1>7, <1>8, EmittingOrigins
<1> QED
  BY <1>9 DEF SInv, SoundParts

(* Every job of the two sequences that e consists of is one of theirs. *)
EitherOf(e, a, b) ==
  /\ e \in Seq(JobSet)
  /\ \A i \in 1 .. Len(e) :
       \/ i \in 1 .. Len(a) /\ e[i] = a[i]
       \/ \E j \in 1 .. Len(b) : e[i] = b[j]

LEMMA JoinedJobs ==
  ASSUME NEW a \in Seq(JobSet), NEW b \in Seq(JobSet)
  PROVE  EitherOf(a \o b, a, b)
<1>1. PICK e : e = a \o b
  OBVIOUS
<1>2. /\ e \in Seq(JobSet) /\ Len(e) = Len(a) + Len(b)
      /\ \A i \in 1 .. Len(a) + Len(b) :
           e[i] = IF i <= Len(a) THEN a[i] ELSE b[i - Len(a)]
  BY <1>1, ConcatProperties, Zenon
<1>3. Len(a) \in Nat /\ Len(b) \in Nat
  OBVIOUS
<1>4. \A i \in 1 .. Len(e) :
        \/ i \in 1 .. Len(a) /\ e[i] = a[i]
        \/ i - Len(a) \in 1 .. Len(b) /\ e[i] = b[i - Len(a)]
  BY <1>2, <1>3
<1>5. EitherOf(e, a, b)
  BY <1>2, <1>4 DEF EitherOf
<1> QED
  BY <1>1, <1>5

LEMMA TypecheckSound ==
  ASSUME IInv, HandlersKeep, CodeDisciplined, SInv, TypecheckJob
  PROVE  SInv'
<1>1. /\ queue # <<>> /\ queue \in Seq(JobSet) /\ Taking("TYPECHECK")
      /\ Job \in JobSet /\ Job.type = "TYPECHECK" /\ Job = queue[1]
      /\ UNCHANGED <<program, initializers, vm>>
  BY HeadFacts DEF TypecheckJob, IInv
<1>2. vm' = Idle
  BY <1>1, NoMachine DEF IInv
<1>3. PICK p : p = Job.node
  OBVIOUS
<1>4. p \in DOMAIN ast /\ p \in Seq(Int)
  BY <1>1, <1>3, NodeTaken DEF NodeTypes
<1>5. PICK heap, s, bodies, next, main :
       /\ heap \in Heaps
       /\ s = TypecheckNode(ast, p, heap)
       /\ bodies = [i \in DOMAIN s.out |-> NodeJob("TYPECHECK", s.out[i])]
       /\ next = NodeJob(IF s.ast[p].error THEN "ABORT" ELSE "OPTIMIZE", p)
       /\ main = s.ast[p].lhs
       /\ IF s.crash
             THEN Crashed /\ UNCHANGED <<ast, bytecode>>
           ELSE IF ~s.ok
             THEN Deferred(bodies) /\ ast' = s.ast /\ UNCHANGED bytecode
           ELSE /\ ast' = s.ast
                /\ IF IsMain(s, p)
                     THEN /\ bytecode' = [bytecode EXCEPT ![1][2] = Pointer(main)]
                          /\ Completed(bodies \o
                                       <<next, ExecuteJob(Machine(0, main))>>)
                     ELSE /\ Completed(Append(bodies, next))
                          /\ UNCHANGED bytecode
  BY <1>3 DEF TypecheckJob
<1>10. /\ heap \in Heaps
       /\ s = TypecheckNode(ast, Job.node, heap)
       /\ main = s.ast[p].lhs
  BY <1>3, <1>5
<1>11. Taking("TYPECHECK") /\ p = Job.node
  BY <1>1, <1>3
<1>6. CASE s.crash
  BY <1>1, <1>5, <1>6, CalmStep DEF Crashed
<1>7. CASE ~s.crash
  <2>1. /\ Touched /\ NewBodies(s) /\ ast' = s.ast
        /\ \A q \in DOMAIN ast : ast'[q].code = ast[q].code
        /\ ast[p].kind = "ASSIGNMENT" => s.ast[p].lhs # NoNode
    <3>1. ast' = s.ast
      BY <1>5, <1>7
    <3> QED
      BY <1>7, <1>10, <1>11, <3>1, TypedNodes
  <2>2. bodies \in Seq(JobSet)
    BY <1>5, <2>1, BodiesAreJobs
  <2>3. \A i \in 1 .. Len(bodies) : bodies[i].type # "EXECUTE"
    <3>1. DOMAIN bodies = 1 .. Len(bodies) /\ DOMAIN bodies = DOMAIN s.out
      BY <1>5, <2>2
    <3>2. \A i \in DOMAIN s.out : bodies[i].type # "EXECUTE"
      BY <1>5 DEF NodeJob
    <3> QED
      BY <3>1, <3>2
  <2>4. next \in JobSet /\ next.type # "EXECUTE"
    <3>1. PICK type \in {"ABORT", "OPTIMIZE"} :
            type = IF s.ast[p].error THEN "ABORT" ELSE "OPTIMIZE"
      OBVIOUS
    <3>2. next = NodeJob(type, p)
      BY <1>5, <3>1
    <3> QED
      BY <1>4, <3>2 DEF NodeJob, JobSet, NodeTypes
  <2>5. /\ DOMAIN ast' = DOMAIN ast
        /\ \A q \in DOMAIN ast : ast'[q].initialized = ast[q].initialized
                                 /\ ast'[q].value = ast[q].value
    <3>1. \A q \in DOMAIN ast : TypesOnly(ast[q], s.ast[q])
      BY <1>7, <1>10, <1>11 DEF HandlersKeep, TypecheckerContract
    <3> QED
      BY <2>1, <3>1 DEF TypesOnly, Touched
  <2>6. Unwritten
    BY <2>5 DEF Unwritten
  <2>7. Uncoded
    BY <1>1, <1>5, <1>7, <2>1, <2>5 DEF Uncoded
  <2>8. Grows
    BY StepKeeps DEF Next, Keeps
  <2>9. \A rest \in Seq(JobSet) : EitherOf(bodies \o rest, bodies, rest)
    BY <2>2, JoinedJobs
  <2>10. ASSUME bytecode' = bytecode, NEW job \in JobSet, job.type # "EXECUTE",
                queue' = Tail(queue) \o (bodies \o <<job>>)
         PROVE  SInv'
    <3>1. PICK rest : rest = <<job>>
      OBVIOUS
    <3>2. /\ rest \in Seq(JobSet) /\ \A i \in 1 .. Len(rest) : rest[i].type # "EXECUTE"
      BY <2>10, <3>1, OneEmitted
    <3>3. PICK e : e = bodies \o rest
      OBVIOUS
    <3>6. EitherOf(e, bodies, rest)
      BY <2>9, <3>2, <3>3
    <3>4. e \in Seq(JobSet) /\ \A i \in 1 .. Len(e) : e[i].type # "EXECUTE"
      BY <2>3, <3>2, <3>6 DEF EitherOf
    <3>5. Lasts /\ BegunLasts
      BY <1>1, <2>5, <2>8, <2>10, GrowingLasts DEF SInv
    <3> QED
      BY <1>1, <1>2, <2>6, <2>7, <2>10, <3>1, <3>3, <3>4, <3>5, HandlerSound
  <2>11. CASE ~s.ok
    <3>1. <<Job>> \in Seq(JobSet)
      BY <1>1
    <3>2. queue' = (Tail(queue) \o bodies) \o <<Job>> /\ bytecode' = bytecode
      BY <1>5, <1>7, <2>11 DEF Deferred
    <3>3. queue' = Tail(queue) \o (bodies \o <<Job>>)
      BY <1>1, <2>2, <3>1, <3>2, PutBehind
    <3>4. Job.type # "EXECUTE"
      BY <1>1
    <3> QED
      BY <1>1, <2>10, <3>2, <3>3, <3>4
  <2>12. CASE s.ok /\ ~IsMain(s, p)
    <3>1. queue' = Tail(queue) \o Append(bodies, next) /\ bytecode' = bytecode
      BY <1>5, <1>7, <2>12 DEF Completed
    <3>2. Append(bodies, next) = bodies \o <<next>>
      BY <2>2, <2>4, AppendIsConcat
    <3> QED
      BY <2>4, <2>10, <3>1, <3>2
  <2>13. CASE s.ok /\ IsMain(s, p)
    <3>1. PICK run : run = ExecuteJob(Machine(0, main))
      OBVIOUS
    <3>2. PICK rest : rest = <<next, run>>
      OBVIOUS
    <3>3. PICK e : e = bodies \o rest
      OBVIOUS
    <3>4. /\ bytecode' = [bytecode EXCEPT ![1][2] = Pointer(main)]
          /\ queue' = Tail(queue) \o e
      BY <1>5, <1>7, <2>13, <3>1, <3>2, <3>3 DEF Completed
    <3>5. main \in DOMAIN ast /\ main \in Seq(Int)
      <4>1. s.ast[p].kind = "ASSIGNMENT"
        BY <2>13 DEF IsMain
      <4>2. NodeTouched(ast[p], ast'[p])
        BY <1>4, <2>1 DEF Touched
      <4>3. ast[p].kind = "ASSIGNMENT" /\ main \in DOMAIN ast \cup {NoNode}
        BY <1>10, <2>1, <4>1, <4>2 DEF NodeTouched, NodeKept
      <4>4. main # NoNode
        BY <1>10, <2>1, <4>3
      <4> QED
        BY <4>3, <4>4 DEF IInv, NodesFine
    <3>6. run \in JobSet /\ run.vm = Machine(0, main) /\ run.type = "EXECUTE"
      BY <3>1, <3>5 DEF ExecuteJob, Machine, Machines, JobSet, NoFrame
    <3>7. /\ rest \in Seq(JobSet)
          /\ \A j \in 1 .. Len(rest) : rest[j] = next \/ rest[j] = run
      BY <2>4, <3>2, <3>6
    <3>8. /\ e \in Seq(JobSet)
          /\ \A i \in 1 .. Len(e) : e[i].type = "EXECUTE" => e[i].vm = Machine(0, main)
      <4>1. EitherOf(e, bodies, rest)
        BY <2>9, <3>3, <3>7
      <4> QED
        BY <2>3, <2>4, <3>6, <3>7, <4>1 DEF EitherOf
    <3>9. /\ bytecode' \in Seq(Seq(Words)) /\ Len(bytecode') = Len(bytecode)
          /\ \A u \in 2 .. Len(bytecode) : bytecode'[u] = bytecode[u]
      <4>1. PICK new : new = bytecode'[1]
        OBVIOUS
      <4>2. UnitsFine /\ bytecode' = [bytecode EXCEPT ![1][2] = Pointer(main)]
        BY <3>4 DEF IInv
      <4>3. /\ bytecode' \in Seq(Seq(Words)) /\ Len(bytecode') = Len(bytecode)
            /\ Len(bytecode) \in Nat
            /\ \A u \in 1 .. Len(bytecode) : u # 1 => bytecode'[u] = bytecode[u]
        BY <3>5, <4>1, <4>2, BootstrapReplaced
      <4> QED
        BY <4>3
    <3>10. Disciplined(ast', bytecode'[1], BootRole, BootStates)
      <4>1. 1 \in DOMAIN bytecode
        BY DEF IInv, UnitsFine
      <4>2. bytecode'[1] = [bytecode[1] EXCEPT ![2] = Pointer(main)]
        BY <3>4, <4>1
      <4>3. \E b : bytecode[1] = Bootstrap \/ bytecode[1] = Boot(b)
        BY DEF SInv, BootFine
      <4>4. bytecode'[1] = Boot(main)
        BY <4>2, <4>3, BootReplaced
      <4>5. Disciplined(s.ast, Boot(main), BootRole, BootStates)
        BY <1>7, <1>10, <1>11, <2>13 DEF CodeDisciplined, MainCallable
      <4> QED
        BY <2>1, <4>4, <4>5
    <3>11. Lasts /\ BegunLasts
      BY <1>1, <2>5, <2>8, <3>9, <3>10, GrowingLasts DEF SInv
    <3>12. SoundParts'
      BY <2>6, <2>7, <3>11, PartsSettled DEF SInv, SoundParts
    <3>13. IInv'
      BY TypecheckStep
    <3> QED
      BY <1>1, <1>2, <3>4, <3>8, <3>10, <3>11, <3>12, <3>13, BootSound
  <2> QED
    BY <2>11, <2>12, <2>13
<1> QED
  BY <1>6, <1>7

(* A unit's number, when it has been made. *)
Handed(p, code) ==
  /\ p \in DOMAIN ast /\ ast[p].code = -1 /\ ast[p].class # NoType
  /\ bytecode' = Append(bytecode, code) /\ ast'[p].code = Len(bytecode)
  /\ DOMAIN ast' = DOMAIN ast
  /\ \A q \in DOMAIN ast :
       /\ q # p => ast'[q].code = ast[q].code
       /\ ast'[q].initialized = ast[q].initialized
       /\ ast'[q].value = ast[q].value /\ ast'[q].lhs = ast[q].lhs
       /\ ast'[q].kind = ast[q].kind /\ ast'[q].class = ast[q].class
  /\ \/ initializers' = initializers
     \/ /\ initializers' = Append(initializers, p) /\ ~Callable(ast, p)
        /\ FitsRole(ast, code, Role(NoType, ast[p].lhs))

LEMMA HandedUnits ==
  ASSUME IInv, NEW p, NEW code \in Seq(Words), Handed(p, code)
  PROVE  /\ bytecode' \in Seq(Seq(Words)) /\ Len(bytecode') = Len(bytecode) + 1
         /\ Len(bytecode) \in Nat /\ Len(bytecode) >= 2
         /\ \A u \in 1 .. Len(bytecode) : bytecode'[u] = bytecode[u]
         /\ bytecode'[Len(bytecode) + 1] = code
<1>1. bytecode \in Seq(Seq(Words)) /\ Len(bytecode) \in Nat /\ Len(bytecode) >= 2
  BY DEF IInv, UnitsFine
<1>2. bytecode' = Append(bytecode, code)
  BY DEF Handed
<1> QED
  BY <1>1, <1>2

LEMMA HandedInitializers ==
  ASSUME IInv, NEW p, NEW code, Handed(p, code)
  PROVE  \A k \in 1 .. Len(initializers') :
           \/ k \in 1 .. Len(initializers) /\ initializers'[k] = initializers[k]
           \/ /\ initializers'[k] = p
              /\ FitsRole(ast, code, Role(NoType, ast[p].lhs))
<1>1. initializers \in Seq(DOMAIN ast) /\ Len(initializers) \in Nat
  BY DEF IInv, InitializersFine
<1>2. p \in DOMAIN ast
  BY DEF Handed
<1>3. CASE initializers' = initializers
  BY <1>3
<1>4. CASE /\ initializers' = Append(initializers, p)
           /\ FitsRole(ast, code, Role(NoType, ast[p].lhs))
  <2>1. /\ Len(initializers') = Len(initializers) + 1
        /\ \A k \in 1 .. Len(initializers) : initializers'[k] = initializers[k]
        /\ initializers'[Len(initializers) + 1] = p
    BY <1>1, <1>2, <1>4
  <2> QED
    BY <1>1, <1>4, <2>1
<1> QED
  BY <1>3, <1>4 DEF Handed

LEMMA HandedLasts ==
  ASSUME IInv, BootFine, NEW p, NEW code \in Seq(Words), Handed(p, code), Grows
  PROVE  Lasts /\ BegunLasts /\ Unwritten
<1>1. NodesKept(ast, ast')
  BY GrowsKept DEF BootFine, Handed
<1>2. /\ bytecode' \in Seq(Seq(Words)) /\ Len(bytecode') = Len(bytecode) + 1
      /\ Len(bytecode) \in Nat /\ Len(bytecode) >= 2
      /\ \A u \in 1 .. Len(bytecode) : bytecode'[u] = bytecode[u]
  BY HandedUnits
<1>3. UnitsKept(ast', bytecode, bytecode')
  <2>1. bytecode \in Seq(Seq(Words))
    BY DEF IInv, UnitsFine
  <2> QED
    BY <1>2, <2>1 DEF UnitsKept
<1>4. StartsKept(ast, initializers, ast', initializers', bytecode)
  <2> SUFFICES ASSUME NEW k \in 1 .. Len(initializers')
               PROVE  \/ /\ k \in 1 .. Len(initializers)
                         /\ ast'[initializers'[k]].code = ast[initializers[k]].code
                         /\ ast'[initializers'[k]].lhs = ast[initializers[k]].lhs
                      \/ ast'[initializers'[k]].code = Len(bytecode)
    BY DEF StartsKept
  <2>1. CASE k \in 1 .. Len(initializers) /\ initializers'[k] = initializers[k]
    <3>1. PICK q : q = initializers[k]
      OBVIOUS
    <3>2. q \in DOMAIN ast /\ ast[q].code # -1 /\ ast[q].class # NoType
      BY <2>1, <3>1 DEF IInv, InitializersFine
    <3> QED
      BY <1>1, <2>1, <3>1, <3>2 DEF NodesKept
  <2>2. CASE initializers'[k] = p
    BY <2>2 DEF Handed
  <2> QED
    BY <2>1, <2>2, HandedInitializers
<1>5. BegunLasts
  BY DEF Grows, NodeKept, BegunLasts, IsBegun
<1>6. Unwritten
  BY DEF Handed, Unwritten
<1> QED
  BY <1>1, <1>3, <1>4, <1>5, <1>6 DEF Lasts

LEMMA HandedParts ==
  ASSUME IInv, SoundParts, NEW p, NEW code \in Seq(Words), Handed(p, code), Grows,
         Opened(p),
         IsBody(ast, p) => FitsRole(ast, code, Role(ast[Parent(p)].class, NoNode))
  PROVE  SoundParts'
<1>1. Lasts /\ BegunLasts /\ Unwritten
  BY HandedLasts DEF SoundParts
<1>2. /\ Len(bytecode) \in Nat /\ Len(bytecode) >= 2
      /\ \A u \in 1 .. Len(bytecode) : bytecode'[u] = bytecode[u]
      /\ bytecode'[Len(bytecode) + 1] = code
  BY HandedUnits
<1>3. ASSUME NEW role, FitsRole(ast, code, role)
      PROVE  FitsRole(ast', bytecode'[Len(bytecode) + 1], role)
  BY <1>1, <1>2, <1>3, DisciplineStays DEF FitsRole, Lasts
<1>4. ValuesFine'
  BY <1>1, ValuesStay DEF SoundParts
<1>5. BodiesFine'
  <2> SUFFICES ASSUME NEW b \in DOMAIN ast', Callable(ast', b), ast'[b].code # -1
               PROVE  FitsRole(ast', bytecode'[ast'[b].code + 1],
                               Role(Signature(ast', b), NoNode))
    BY DEF BodiesFine
  <2>1. b \in DOMAIN ast
    BY DEF Handed
  <2>2. CASE b # p
    <3>1. ast[b].code # -1 /\ ast'[b].code = ast[b].code
      BY <2>1, <2>2 DEF Handed
    <3> QED
      BY <1>1, <2>1, <3>1, OldBodyFits DEF SoundParts
  <2>3. CASE b = p
    <3>1. Callable(ast, p) /\ Signature(ast', p) = Signature(ast, p)
      BY <1>1, <2>1, <2>3, CodedCallable DEF SoundParts
    <3>2. p # PutcCode
      BY DEF SoundParts, BootFine, Handed
    <3>3. IsBody(ast, p) /\ Signature(ast, p) = ast[Parent(p)].class
      BY <3>1, <3>2 DEF Callable, Signature
    <3>4. PICK role : role = Role(ast[Parent(p)].class, NoNode)
      OBVIOUS
    <3>5. FitsRole(ast', bytecode'[Len(bytecode) + 1], role)
      BY <1>3, <3>3, <3>4
    <3> QED
      BY <2>3, <3>1, <3>3, <3>4, <3>5 DEF Handed
  <2> QED
    BY <2>2, <2>3
<1>6. StartsFine'
  <2> SUFFICES ASSUME NEW k \in 1 .. Len(initializers')
               PROVE  FitsRole(ast', bytecode'[ast'[initializers'[k]].code + 1],
                               Role(NoType, ast'[initializers'[k]].lhs))
    BY DEF StartsFine
  <2>1. CASE k \in 1 .. Len(initializers) /\ initializers'[k] = initializers[k]
    <3>1. PICK q : q = initializers[k]
      OBVIOUS
    <3>2. q \in DOMAIN ast /\ ast[q].code # -1 /\ ast[q].class # NoType
      BY <2>1, <3>1 DEF IInv, InitializersFine
    <3>3. ast'[q].code = ast[q].code /\ ast'[q].lhs = ast[q].lhs
      BY <1>1, <3>2 DEF Lasts, NodesKept
    <3> QED
      BY <1>1, <2>1, <3>1, <3>3, OldStartFits DEF SoundParts
  <2>2. CASE /\ initializers'[k] = p
             /\ FitsRole(ast, code, Role(NoType, ast[p].lhs))
    <3>1. PICK role : role = Role(NoType, ast[p].lhs)
      OBVIOUS
    <3>2. FitsRole(ast', bytecode'[Len(bytecode) + 1], role)
      BY <1>3, <2>2, <3>1
    <3>3. ast'[p].code = Len(bytecode) /\ ast'[p].lhs = ast[p].lhs
      BY DEF Handed
    <3> QED
      BY <2>2, <3>1, <3>2, <3>3
  <2> QED
    BY <2>1, <2>2, HandedInitializers
<1>7. BootFine'
  <2>1. /\ Putc \in DOMAIN ast' /\ ast'[Putc].class # NoType
        /\ PutcCode \in DOMAIN ast' /\ ast'[PutcCode].code # -1
    BY <1>1 DEF SoundParts, BootFine, Lasts, NodesKept
  <2>2. \A q \in DOMAIN ast' : ast'[q].code # 0
    BY <1>2 DEF Handed, SoundParts, BootFine
  <2>3. bytecode'[1] = bytecode[1]
    BY <1>2
  <2> QED
    BY <2>1, <2>2, <2>3 DEF SoundParts, BootFine
<1> QED
  BY <1>4, <1>5, <1>6, <1>7 DEF SoundParts

LEMMA GenerateSound ==
  ASSUME IInv, HandlersKeep, CodeDisciplined, SInv, Generate
  PROVE  SInv'
<1>1. /\ queue # <<>> /\ queue \in Seq(JobSet) /\ Taking("BYTECODE")
      /\ Job \in JobSet /\ Job.type = "BYTECODE" /\ Job = queue[1]
      /\ UNCHANGED <<program, vm>>
  BY HeadFacts DEF Generate, IInv
<1>2. vm' = Idle
  BY <1>1, NoMachine DEF IInv
<1>3. PICK p : p = Job.node
  OBVIOUS
<1>4. p \in DOMAIN ast /\ p \in Seq(Int) /\ Opened(p) /\ ast[p].code = -1
  BY <1>1, <1>3, NodeTaken DEF NodeTypes
<1>5. CASE UNCHANGED <<ast, bytecode, initializers>>
  <2>1. \/ queue' = Tail(queue) \o <<>>
        \/ queue' = (Tail(queue) \o <<>>) \o <<Job>>
        \/ queue' = queue
    BY DEF Generate, Completed, Deferred, Crashed
  <2>2. CASE queue' = queue
    BY <1>1, <1>2, <1>5, <2>2, CalmStep
  <2>3. CASE queue' = Tail(queue) \o <<>>
    BY <1>1, <1>2, <1>5, <2>3, NoneEmitted, CalmStep
  <2>4. CASE queue' = (Tail(queue) \o <<>>) \o <<Job>>
    <3>1. Tail(queue) \o <<>> = Tail(queue)
      BY <1>1, HeadTailProperties, ConcatEmptySeq
    <3>2. PICK e : e = <<Job>>
      OBVIOUS
    <3>3. e \in Seq(JobSet) /\ \A i \in 1 .. Len(e) : e[i].type # "EXECUTE"
      BY <1>1, <3>2, OneEmitted
    <3>4. queue' = Tail(queue) \o e
      BY <2>4, <3>1, <3>2
    <3> QED
      BY <1>1, <1>2, <1>5, <3>3, <3>4, CalmStep
  <2> QED
    BY <2>1, <2>2, <2>3, <2>4
<1>6. CASE ~UNCHANGED <<ast, bytecode, initializers>>
  <2>1. PICK unit : unit = BytecodeOf(ast, p)
    OBVIOUS
  <2>2. /\ ast[p].kind # "DECLARATION" /\ unit.ok
        /\ bytecode' = Append(bytecode, unit.code) /\ program' = program
        /\ queue' = Tail(queue) \o <<>>
        /\ \/ /\ ast[p].kind = "ASSIGNMENT"
              /\ initializers' = Append(initializers, p)
              /\ ast' = CodedAndDeclared(p, Len(bytecode), ast[p].lhs)
           \/ /\ ast' = Coded(p, Len(bytecode))
              /\ initializers' = initializers
    BY <1>3, <1>6, <2>1 DEF Generate, Coded, CodedAndDeclared, Completed
  <2>3. PICK code : code = unit.code
    OBVIOUS
  <2>4. /\ ast[p].class # NoType
        /\ code \in Seq(Words) /\ PushesCompiled(code)
    BY <1>1, <1>3, <2>1, <2>2, <2>3 DEF HandlersKeep, GeneratorContract
  <2>5. Grows /\ DOMAIN ast' = DOMAIN ast
    BY <1>4, <2>2, <2>3, <2>4, GeneratedTables
  <2>6. /\ ast[p].kind = "ASSIGNMENT" =>
             ~Callable(ast, p) /\ FitsRole(ast, code, Role(NoType, ast[p].lhs))
        /\ IsBody(ast, p) => FitsRole(ast, code, Role(ast[Parent(p)].class, NoNode))
    <3>1. /\ ast[p].kind = "ASSIGNMENT" =>
               ~Callable(ast, p) /\ IsDisciplined(ast, code, Role(NoType, ast[p].lhs))
          /\ IsBody(ast, p) =>
               IsDisciplined(ast, code, Role(ast[Parent(p)].class, NoNode))
      BY <1>1, <1>3, <2>1, <2>2, <2>3 DEF CodeDisciplined, UnitsDisciplined
    <3> QED
      BY <3>1 DEF IsDisciplined, FitsRole
  <2>7. PICK n : n = Len(bytecode)
    OBVIOUS
  <2>8. PICK d : d = ast[p].lhs
    OBVIOUS
  <2>9. \A q \in DOMAIN ast :
          /\ ast'[q].code = IF q = p THEN n ELSE ast[q].code
          /\ ast'[q].kind = ast[q].kind /\ ast'[q].class = ast[q].class
          /\ ast'[q].initialized = ast[q].initialized
          /\ ast'[q].value = ast[q].value /\ ast'[q].lhs = ast[q].lhs
    <3>1. NodesFine /\ (ast' = Coded(p, n) \/ ast' = CodedAndDeclared(p, n, d))
      BY <2>2, <2>7, <2>8 DEF IInv
    <3> QED
      BY <1>4, <3>1, GeneratedNodes
  <2>11. Handed(p, code)
    BY <1>4, <2>2, <2>3, <2>4, <2>5, <2>6, <2>7, <2>9 DEF Handed
  <2>12. SoundParts /\ MachinesFine
    BY DEF SInv, SoundParts
  <2>13. Lasts /\ BegunLasts
    BY <2>4, <2>5, <2>11, <2>12, HandedLasts DEF SoundParts
  <2>14. SoundParts'
    BY <1>4, <2>4, <2>5, <2>6, <2>11, <2>12, HandedParts
  <2>15. QueueFine /\ Len(bytecode) \in Nat
    BY QueueInvFacts
  <2>16. PICK none : none = <<>>
    OBVIOUS
  <2>17. none \in Seq(JobSet) /\ \A i \in 1 .. Len(none) : none[i].type # "EXECUTE"
    BY <2>16
  <2>18. queue' = Tail(queue) \o none
    BY <2>2, <2>16
  <2>19. MachinesFine'
    BY <1>1, <1>2, <2>12, <2>13, <2>15, <2>17, <2>18, NoMachineEmitted
  <2> QED
    BY <2>14, <2>19 DEF SInv, SoundParts
<1> QED
  BY <1>5, <1>6

-----------------------------------------------------------------------------
(* The steps of the machines. *)

LEMMA AwaitedKeeps ==
  ASSUME NodesFine, NEW d \in DOMAIN ast, NEW begins, ast' = Awaited(d, begins)
  PROVE  \A p \in DOMAIN ast :
           ast'[p].initialized = ast[p].initialized /\ ast'[p].value = ast[p].value
<1> SUFFICES ASSUME NEW p \in DOMAIN ast
             PROVE  /\ ast'[p].initialized = ast[p].initialized
                    /\ ast'[p].value = ast[p].value
  OBVIOUS
<1>1. "initialized" \in NodeFields /\ "value" \in NodeFields
  BY Fields
<1>2. DOMAIN ast[d] = NodeFields
  BY DEF NodesFine, NodeOK
<1>3. ast' = [q \in DOMAIN ast |-> IF q = d THEN ast'[d] ELSE ast[q]]
  BY DEF Awaited, NodesFine
<1>4. PICK flag : flag = (ast[d].initializing \/ begins)
  OBVIOUS
<1>5. ast'[d] = [ast[d] EXCEPT !.initializing = flag]
  BY <1>4 DEF Awaited
<1>6. CASE p = d
  BY <1>1, <1>2, <1>5, <1>6
<1>7. CASE p # d
  BY <1>3, <1>7
<1> QED
  BY <1>6, <1>7

LEMMA FinishedKeeps ==
  ASSUME NodesFine, NEW d \in DOMAIN ast, ast' = Finished(d), ast[d].initialized
  PROVE  \A p \in DOMAIN ast :
           ast'[p].initialized = ast[p].initialized /\ ast'[p].value = ast[p].value
<1> SUFFICES ASSUME NEW p \in DOMAIN ast
             PROVE  /\ ast'[p].initialized = ast[p].initialized
                    /\ ast'[p].value = ast[p].value
  OBVIOUS
<1>1. "initialized" \in NodeFields /\ "value" \in NodeFields
  BY Fields
<1>2. DOMAIN ast[d] = NodeFields /\ ast[d].initialized \in BOOLEAN
  BY DEF NodesFine, NodeOK
<1>3. ast' = [q \in DOMAIN ast |-> IF q = d THEN ast'[d] ELSE ast[q]]
  BY DEF Finished, NodesFine
<1>4. ast'[d] = [ast[d] EXCEPT !.initializing = FALSE, !.initialized = TRUE]
  BY DEF Finished
<1>5. CASE p = d
  <2>1. ast'[d].initialized = TRUE /\ ast'[d].value = ast[d].value
    BY <1>1, <1>2, <1>4
  <2> QED
    BY <1>2, <1>5, <2>1, Zenon
<1>6. CASE p # d
  BY <1>3, <1>6
<1> QED
  BY <1>5, <1>6

(* Of the tables a machine changes nothing that others rely on. *)
LEMMA MachineTables ==
  ASSUME IInv, BootFine, UNCHANGED <<program, bytecode, initializers>>, Touched,
         \A p \in DOMAIN ast : ast'[p].code = ast[p].code,
         \A p \in DOMAIN ast : ast[p].initialized => ast'[p].initialized
  PROVE  Lasts /\ BegunLasts /\ Uncoded
<1>1. Len(bytecode) \in Nat /\ bytecode' = bytecode
  BY QueueInvFacts
<1>2. Grows /\ DOMAIN ast' = DOMAIN ast
  BY <1>1, TouchedGrows
<1>3. Lasts /\ BegunLasts
  BY <1>1, <1>2, GrowingLasts
<1>4. Uncoded
  BY <1>1, <1>2 DEF Uncoded
<1> QED
  BY <1>3, <1>4

LEMMA GoesSound ==
  ASSUME IInv, SInv, UNCHANGED <<program, bytecode, initializers>>,
         NEW org, Origins(org), Goes(org[1])
  PROVE  SInv'
<1>1. PICK m : Continue(m) /\ Tracked(ast, bytecode, initializers, m, org[1])
  BY DEF Goes
<1>2. UNCHANGED <<program, ast, bytecode, initializers>> /\ queue' = queue /\ vm' = m
  BY <1>1 DEF Continue, pipelineVars
<1>3. Lasts /\ BegunLasts /\ Uncoded /\ Unwritten
  BY <1>2, TablesLast DEF SInv
<1>4. SoundParts'
  BY <1>3, PartsSettled DEF SInv, SoundParts
<1>5. Tracked(ast', bytecode', initializers', vm', org[1])
  BY <1>1, <1>2, <1>3, TrackedLasts
<1>6. MachinesFine'
  BY <1>2, <1>3, <1>5, QueueInvFacts, StandingOrigins
<1> QED
  BY <1>4, <1>6 DEF SInv, SoundParts

LEMMA StoresSound ==
  ASSUME IInv, SInv, UNCHANGED <<program, bytecode, initializers>>,
         NEW org, Origins(org), Stores(org[1])
  PROVE  SInv'
<1>1. PICK m, d, word :
        /\ d \in DOMAIN ast /\ word \in Words
        /\ ast[d].class # NoType /\ HasKind(ast, word, Kind(ast[d].class))
        /\ ast' = Stored(d, word)
        /\ vm' = m
        /\ UNCHANGED pipelineVars
        /\ Tracked(ast', bytecode, initializers, m, org[1])
  BY DEF Stores
<1>2. \A p \in DOMAIN ast :
        /\ p \in DOMAIN ast'
        /\ ast'[p].initialized = IF p = d THEN TRUE ELSE ast[p].initialized
        /\ ast'[p].value = IF p = d THEN word ELSE ast[p].value
  BY <1>1, StoredKeeps DEF IInv
<1>3. Compiled(word)
  BY <1>1 DEF HasKind, Compiled, Plain
<1>4. Touched /\ \A p \in DOMAIN ast : ast'[p].code = ast[p].code
  BY <1>1, <1>3, StoringTouches DEF IInv
<1>5. Lasts /\ BegunLasts /\ Uncoded
  BY <1>2, <1>4, MachineTables DEF SInv
<1>6. ValuesFine'
  <2> SUFFICES ASSUME NEW p \in DOMAIN ast', ast'[p].initialized
               PROVE  /\ ast'[p].class # NoType
                      /\ HasKind(ast', ast'[p].value, Kind(ast'[p].class))
    BY DEF ValuesFine
  <2>1. p \in DOMAIN ast
    BY <1>4 DEF Touched
  <2>2. CASE p = d
    BY <1>1, <1>2, <1>5, <2>1, <2>2, ValueStays
  <2>3. CASE p # d
    <3>1. ast[p].initialized /\ ast'[p].value = ast[p].value
      BY <1>2, <2>1, <2>3
    <3>2. ast[p].class # NoType /\ HasKind(ast, ast[p].value, Kind(ast[p].class))
      BY <2>1, <3>1 DEF SInv, ValuesFine
    <3> QED
      BY <1>5, <2>1, <3>1, <3>2, ValueStays
  <2> QED
    BY <2>2, <2>3
<1>7. BodiesFine' /\ StartsFine' /\ BootFine'
  BY <1>5, PartsKept DEF SInv
<1>8. queue' = queue /\ Tracked(ast', bytecode', initializers', vm', org[1])
  BY <1>1 DEF pipelineVars
<1>9. MachinesFine'
  BY <1>5, <1>8, QueueInvFacts, StandingOrigins
<1> QED
  BY <1>6, <1>7, <1>9 DEF SInv

LEMMA EndsSound ==
  ASSUME IInv, SInv, UNCHANGED <<program, bytecode, initializers>>, queue # <<>>, Ends
  PROVE  SInv'
<1>1. vm' = Idle /\ queue' = Tail(queue) \o <<>>
  BY DEF Ends, Completed
<1>2. PICK none : none = <<>>
  OBVIOUS
<1>3. /\ none \in Seq(JobSet) /\ \A i \in 1 .. Len(none) : none[i].type # "EXECUTE"
      /\ queue' = Tail(queue) \o none
  BY <1>1, <1>2
<1>4. CASE ast' = ast
  BY <1>1, <1>3, <1>4, CalmStep
<1>5. CASE \E d \in DOMAIN ast : ast[d].initialized /\ ast' = Finished(d)
  <2>1. PICK d \in DOMAIN ast : ast[d].initialized /\ ast' = Finished(d)
    BY <1>5
  <2>2. Touched /\ \A p \in DOMAIN ast : ast'[p].code = ast[p].code
    BY <2>1, FinishingTouches DEF IInv
  <2>3. \A p \in DOMAIN ast :
          ast'[p].initialized = ast[p].initialized /\ ast'[p].value = ast[p].value
    BY <2>1, FinishedKeeps DEF IInv
  <2>4. Lasts /\ BegunLasts /\ Uncoded
    BY <2>2, <2>3, MachineTables DEF SInv
  <2>5. Unwritten
    BY <2>2, <2>3 DEF Touched, Unwritten
  <2> QED
    BY <1>1, <1>3, <2>4, <2>5, HandlerSound
<1> QED
  BY <1>4, <1>5 DEF Ends

(* An initializer that has not begun: its machine is new, and nobody else   *)
(* has its origin.                                                          *)
NewOrigin(u, org) ==
  /\ u \in Nat /\ u # 0
  /\ Tracked(ast', bytecode', initializers', Machine(u, NoNode), u)
  /\ StartBegun(ast', initializers', u)
  /\ \A j \in 1 .. Len(queue) : queue[j].type = "EXECUTE" => org[j] # u

LEMMA InitializerIsNew ==
  ASSUME IInv, SInv, NEW org, Origins(org), Lasts, Uncoded,
         NEW k \in 1 .. Len(initializers), NEW q, q = initializers[k],
         ~IsBegun(ast, ast[q].lhs), IsBegun(ast', ast'[q].lhs)
  PROVE  NewOrigin(ast[q].code, org)
<1>1. q \in DOMAIN ast /\ ast[q].code # -1 /\ q \in DOMAIN ast'
  BY DEF IInv, InitializersFine, Lasts, NodesKept
<1>2. PICK u : u = ast[q].code
  OBVIOUS
<1>3. u \in Int /\ u \in -1 .. Len(bytecode) - 1 /\ u # 0 /\ u # -1
  BY <1>1, <1>2, CodedNumber DEF SInv
<1>4. Len(bytecode) \in Nat
  BY QueueInvFacts
<1>5. u \in Nat /\ u + 1 \in 1 .. Len(bytecode)
  BY <1>3, <1>4
<1>6. ASSUME NEW n \in 1 .. Len(initializers), ast[initializers[n]].code = u
      PROVE  initializers[n] = q
  <2>1. initializers[n] \in DOMAIN ast
    BY DEF IInv, InitializersFine
  <2> QED
    BY <1>1, <1>2, <1>6, <2>1 DEF IInv, CodesDistinct
<1>7. Tracked(ast', bytecode', initializers', Machine(u, NoNode), u)
  <2>1. PICK role : role = Role(NoType, ast[q].lhs)
    OBVIOUS
  <2>2. ~Called(role) /\ role.target = ast[q].lhs
    BY <2>1 DEF Role, Called
  <2>3. FitsRole(ast, bytecode[u + 1], role)
    BY <1>2, <2>1 DEF SInv, StartsFine
  <2>4. PICK R : Disciplined(ast, bytecode[u + 1], role, R)
    BY <2>3 DEF FitsRole
  <2>5. \A n \in 1 .. Len(initializers) :
          ast[initializers[n]].code = u => role.target = ast[initializers[n]].lhs
    BY <1>6, <2>2
  <2>6. Tracked(ast, bytecode, initializers, Machine(u, NoNode), u)
    BY <1>3, <1>5, <2>2, <2>4, <2>5, FreshTracked
  <2> QED
    BY <2>6, TrackedLasts
<1>8. StartBegun(ast', initializers', u)
  <2> SUFFICES ASSUME NEW n \in 1 .. Len(initializers'),
                      ast'[initializers'[n]].code = u
               PROVE  IsBegun(ast', ast'[initializers'[n]].lhs)
    BY DEF StartBegun
  <2>1. initializers' = initializers
    BY DEF Uncoded
  <2>2. initializers[n] \in DOMAIN ast /\ ast[initializers[n]].code # -1
    BY <2>1 DEF IInv, InitializersFine
  <2>3. ast'[initializers[n]].code = ast[initializers[n]].code
    BY <2>2 DEF Lasts, NodesKept
  <2>4. initializers[n] = q
    BY <1>6, <2>1, <2>3
  <2> QED
    BY <2>1, <2>4
<1>9. \A j \in 1 .. Len(queue) : queue[j].type = "EXECUTE" => org[j] # u
  BY <1>2 DEF Origins, Jobs
<1>10. NewOrigin(u, org)
  BY <1>3, <1>5, <1>7, <1>8, <1>9 DEF NewOrigin
<1> QED
  BY <1>2, <1>10

(* The unit of the i-th initializer of a variable. *)
StartOf(d, i) == ast[initializers[NthOf(InitializersOf(d), i)]].code

LEMMA StartsDiffer ==
  ASSUME IInv, NEW d, NEW S, S = InitializersOf(d),
         NEW x \in 1 .. Cardinality(S), NEW y \in 1 .. Cardinality(S),
         StartOf(d, x) = StartOf(d, y)
  PROVE  x = y
<1>1. PICK l \in Nat : l = Len(initializers)
  BY DEF IInv, InitializersFine
<1>2. S \in SUBSET (1 .. l)
  BY <1>1 DEF InitializersOf
<1>3. /\ Cardinality({i \in S : i <= NthOf(S, x)}) = x /\ NthOf(S, x) \in S
      /\ Cardinality({i \in S : i <= NthOf(S, y)}) = y /\ NthOf(S, y) \in S
  BY <1>2, NthIsThere
<1>4. PICK a, b : a = NthOf(S, x) /\ b = NthOf(S, y)
  OBVIOUS
<1>5. a \in 1 .. Len(initializers) /\ b \in 1 .. Len(initializers)
  BY <1>1, <1>2, <1>3, <1>4
<1>6. /\ initializers[a] \in DOMAIN ast /\ initializers[b] \in DOMAIN ast
      /\ ast[initializers[a]].code # -1
  BY <1>5 DEF IInv, InitializersFine
<1>7. ast[initializers[a]].code = ast[initializers[b]].code
  BY <1>4 DEF StartOf
<1>8. initializers[a] = initializers[b]
  BY <1>6, <1>7 DEF IInv, CodesDistinct
<1>9. a = b
  BY <1>5, <1>8 DEF IInv, InitializersFine
<1> QED
  BY <1>3, <1>4, <1>9

(* What a machine that waits leaves behind: the initializers, and itself. *)
Behind(e, c, d, job) ==
  /\ e \in Seq(JobSet) /\ Len(e) = c + 1
  /\ \A i \in 1 .. c + 1 :
       \/ /\ i \in 1 .. c /\ i \in 1 .. Cardinality(InitializersOf(d))
          /\ NthOf(InitializersOf(d), i) \in InitializersOf(d)
          /\ e[i] = ExecuteJob(Machine(StartOf(d, i), NoNode))
       \/ i = c + 1 /\ e[i] = job

LEMMA WaiterBehind ==
  ASSUME IInv, queue # <<>>, NEW m \in Machines, NEW d \in DOMAIN ast, Await(m, d),
         Len(m.stack) <= StackSize, NEW job, job = ExecuteJob([m EXCEPT !.waiting = d])
  PROVE  \E c \in Nat, e \in Seq(JobSet) :
           /\ Behind(e, c, d, job) /\ queue' = Tail(queue) \o e
           /\ c # 0 => ~ast[d].initializing /\ InitializersOf(d) # {}
<1>1. queue \in Seq(JobSet)
  BY DEF IInv, QueueFine
<1>2. PICK jobs : jobs = Beginning(d)
  OBVIOUS
<1>3. PICK S : S = InitializersOf(d)
  OBVIOUS
<1>4. /\ jobs \in Seq(JobSet)
      /\ \A i \in 1 .. Len(jobs) :
           /\ NthOf(S, i) \in S /\ jobs[i] = Initializer(NthOf(S, i))
           /\ i \in 1 .. Cardinality(S)
      /\ jobs # <<>> => ~ast[d].initializing /\ S # {}
  BY <1>2, <1>3, InitializersBegin
<1>5. job \in JobSet
  <2>1. PICK n : n = [m EXCEPT !.waiting = d]
    OBVIOUS
  <2>2. d \in Seq(Int)
    BY DEF IInv, NodesFine
  <2>3. n \in Machines
    BY <2>1, <2>2 DEF Machines
  <2> QED
    BY <2>1, <2>3 DEF ExecuteJob, JobSet
<1>6. PICK one : one = <<job>>
  OBVIOUS
<1>7. one \in Seq(JobSet) /\ Len(one) = 1 /\ one[1] = job
  BY <1>5, <1>6
<1>8. PICK e : e = jobs \o one
  OBVIOUS
<1>9. queue' = Tail(queue) \o e
  <2>1. queue' = (Tail(queue) \o jobs) \o one
    BY <1>2, <1>6, NothingCleared DEF Await
  <2> QED
    BY <1>1, <1>4, <1>7, <1>8, <2>1, PutBehind
<1>10. PICK c \in Nat : c = Len(jobs)
  BY <1>4
<1>11. e \in Seq(JobSet) /\ Len(e) = c + 1
       /\ \A i \in 1 .. c + 1 : e[i] = IF i <= c THEN jobs[i] ELSE one[i - c]
  <2>1. /\ e \in Seq(JobSet) /\ Len(e) = Len(jobs) + Len(one)
        /\ \A i \in 1 .. Len(jobs) + Len(one) :
             e[i] = IF i <= Len(jobs) THEN jobs[i] ELSE one[i - Len(jobs)]
    BY <1>4, <1>7, <1>8, ConcatProperties, Zenon
  <2> QED
    BY <1>7, <1>10, <2>1
<1>12. ASSUME NEW i \in 1 .. c + 1
       PROVE  \/ /\ i \in 1 .. c /\ i \in 1 .. Cardinality(S)
                 /\ NthOf(S, i) \in S
                 /\ e[i] = ExecuteJob(Machine(StartOf(d, i), NoNode))
              \/ i = c + 1 /\ e[i] = job
  <2>1. CASE i <= c
    <3>1. i \in 1 .. c /\ e[i] = jobs[i]
      BY <1>11, <2>1
    <3>2. /\ NthOf(S, i) \in S /\ i \in 1 .. Cardinality(S)
          /\ jobs[i] = Initializer(NthOf(S, i))
      BY <1>4, <1>10, <3>1
    <3>3. Initializer(NthOf(S, i)) = ExecuteJob(Machine(StartOf(d, i), NoNode))
      BY <1>3 DEF Initializer, StartOf
    <3> QED
      BY <3>1, <3>2, <3>3
  <2>2. CASE ~(i <= c)
    <3>1. i = c + 1 /\ i - c = 1
      BY <2>2
    <3>2. e[i] = one[i - c]
      BY <1>11, <2>2
    <3> QED
      BY <1>7, <3>1, <3>2
  <2> QED
    BY <2>1, <2>2
<1>13. Behind(e, c, d, job)
  BY <1>3, <1>11, <1>12 DEF Behind
<1>14. c # 0 => ~ast[d].initializing /\ InitializersOf(d) # {}
  BY <1>3, <1>4, <1>10
<1> QED
  BY <1>9, <1>11, <1>13, <1>14

LEMMA WaitsSound ==
  ASSUME IInv, SInv, UNCHANGED <<program, bytecode, initializers>>, queue # <<>>,
         queue[1].type = "EXECUTE", NEW org, Origins(org), Waits(org[1])
  PROVE  SInv'
<1>1. PICK m, d :
        /\ d \in DOMAIN ast /\ m \in Machines
        /\ Tracked(ast, bytecode, initializers, m, org[1])
        /\ Len(m.stack) <= StackSize /\ ~ast[d].initialized /\ Await(m, d)
  BY DEF Waits
<1>2. PICK begins \in BOOLEAN : begins = (InitializersOf(d) # {})
  OBVIOUS
<1>3. ast' = Awaited(d, begins) /\ vm' = Idle
  BY <1>1, <1>2 DEF Await, Awaited
<1>4. /\ Touched /\ \A p \in DOMAIN ast : ast'[p].code = ast[p].code
      /\ begins => Begun(ast'[d])
  BY <1>1, <1>3, WaitingTouches DEF IInv
<1>5. \A p \in DOMAIN ast :
        ast'[p].initialized = ast[p].initialized /\ ast'[p].value = ast[p].value
  BY <1>1, <1>3, AwaitedKeeps DEF IInv
<1>6. Lasts /\ BegunLasts /\ Uncoded
  BY <1>4, <1>5, MachineTables DEF SInv
<1>7. Unwritten
  BY <1>4, <1>5 DEF Touched, Unwritten
<1>8. SoundParts'
  BY <1>6, <1>7, PartsSettled DEF SInv, SoundParts
<1>9. PICK k : k = [m EXCEPT !.waiting = d]
  OBVIOUS
<1>10. PICK job : job = ExecuteJob(k)
  OBVIOUS
<1>11. PICK c \in Nat, e \in Seq(JobSet) :
         /\ Behind(e, c, d, job) /\ queue' = Tail(queue) \o e
         /\ c # 0 => ~ast[d].initializing /\ InitializersOf(d) # {}
  BY <1>1, <1>9, <1>10, WaiterBehind
<1>12. PICK eo : eo = [i \in 1 .. c + 1 |-> IF i \in 1 .. c THEN StartOf(d, i) ELSE org[1]]
  OBVIOUS
<1>13. PICK S : S = InitializersOf(d)
  OBVIOUS
<1>14. Len(bytecode) \in Nat /\ 1 \in 1 .. Len(queue) /\ QueueFine
  <2>1. queue \in Seq(JobSet)
    BY QueueInvFacts
  <2> QED
    BY <2>1, QueueInvFacts
<1>15. ASSUME NEW i \in 1 .. c
       PROVE  /\ NewOrigin(StartOf(d, i), org) /\ eo[i] = StartOf(d, i)
              /\ e[i] = ExecuteJob(Machine(StartOf(d, i), NoNode))
              /\ i \in 1 .. Cardinality(S)
  <2>1. i \in 1 .. c + 1 /\ i # c + 1 /\ c # 0
    OBVIOUS
  <2>2. /\ i \in 1 .. Cardinality(S) /\ NthOf(S, i) \in S
        /\ e[i] = ExecuteJob(Machine(StartOf(d, i), NoNode))
    BY <1>11, <1>13, <2>1 DEF Behind
  <2>3. PICK n : n = NthOf(S, i)
    OBVIOUS
  <2>4. n \in 1 .. Len(initializers) /\ ast[initializers[n]].lhs = d
    BY <1>13, <2>2, <2>3 DEF InitializersOf
  <2>5. PICK q : q = initializers[n]
    OBVIOUS
  <2>6. q \in DOMAIN ast /\ ast[q].class # NoType
    BY <2>4, <2>5 DEF IInv, InitializersFine
  <2>7. ast'[q].lhs = d /\ d \in DOMAIN ast'
    BY <1>1, <1>6, <2>4, <2>5, <2>6 DEF Lasts, NodesKept
  <2>8. ~IsBegun(ast, ast[q].lhs)
    BY <1>1, <1>11, <2>1, <2>4, <2>5 DEF IsBegun, Begun
  <2>9. IsBegun(ast', ast'[q].lhs)
    BY <1>2, <1>4, <1>11, <2>1, <2>7 DEF IsBegun
  <2>10. NewOrigin(ast[q].code, org)
    BY <1>6, <2>4, <2>5, <2>8, <2>9, InitializerIsNew
  <2>11. ast[q].code = StartOf(d, i)
    BY <1>13, <2>3, <2>5 DEF StartOf
  <2> QED
    BY <1>12, <2>1, <2>2, <2>10, <2>11
<1>16. /\ Tracked(ast, bytecode, initializers, queue[1].vm, org[1])
       /\ StartBegun(ast, initializers, org[1])
       /\ \A j \in 1 .. Len(queue) :
            queue[j].type = "EXECUTE" /\ org[j] = org[1] /\ org[1] # 0 => j = 1
  BY <1>14 DEF Origins, Jobs, StartBegun
<1>17. org[1] \in Nat /\ org[1] # Len(bytecode)
  BY <1>1, <1>14, OriginInside
<1>18. /\ eo[c + 1] = org[1] /\ e[c + 1] = job /\ job.vm = k
       /\ Tracked(ast', bytecode', initializers', k, org[1])
       /\ StartBegun(ast', initializers', org[1])
  <2>1. c + 1 \in 1 .. c + 1 /\ c + 1 \notin 1 .. c
    OBVIOUS
  <2>2. eo[c + 1] = org[1]
    BY <1>12, <2>1
  <2>3. e[c + 1] = job
    BY <1>11, <2>1 DEF Behind
  <2>4. k.id = m.id /\ k.ip = m.ip /\ k.fp = m.fp /\ k.stack = m.stack
    BY <1>1, <1>9, Rewaiting
  <2>5. Tracked(ast, bytecode, initializers, k, org[1])
    BY <1>1, <2>4, SameMachine
  <2>6. Tracked(ast', bytecode', initializers', k, org[1])
    BY <1>6, <2>5, TrackedLasts
  <2>7. StartBegun(ast', initializers', org[1])
    BY <1>6, <1>16, <1>17, StartStaysBegun
  <2>8. job.vm = k
    BY <1>10 DEF ExecuteJob
  <2> QED
    BY <2>2, <2>3, <2>6, <2>7, <2>8
<1>19. ASSUME NEW i \in 1 .. c
       PROVE  /\ Tracked(ast', bytecode', initializers', e[i].vm, eo[i])
              /\ StartBegun(ast', initializers', eo[i])
              /\ eo[i] \in Nat
              /\ \A j \in 1 .. Len(queue) : queue[j].type = "EXECUTE" => org[j] # eo[i]
  <2>1. PICK u : u = StartOf(d, i)
    OBVIOUS
  <2>2. /\ NewOrigin(StartOf(d, i), org) /\ eo[i] = StartOf(d, i)
        /\ e[i] = ExecuteJob(Machine(StartOf(d, i), NoNode))
    BY <1>15
  <2>3. e[i].vm = Machine(u, NoNode) /\ eo[i] = u /\ NewOrigin(u, org)
    BY <2>1, <2>2 DEF ExecuteJob
  <2> QED
    BY <2>3 DEF NewOrigin
<1>20. \A i \in 1 .. c + 1 : i \in 1 .. c \/ i = c + 1
  OBVIOUS
<1>21. ASSUME NEW i \in 1 .. c + 1, NEW j \in 1 .. c + 1, eo[i] = eo[j]
       PROVE  i = j
  <2>1. CASE i \in 1 .. c /\ j \in 1 .. c
    BY <1>13, <1>15, <1>21, <2>1, StartsDiffer
  <2>2. CASE i \in 1 .. c /\ j = c + 1
    BY <1>14, <1>18, <1>19, <1>21, <2>2
  <2>3. CASE i = c + 1 /\ j \in 1 .. c
    BY <1>14, <1>18, <1>19, <1>21, <2>3
  <2>4. CASE i = c + 1 /\ j = c + 1
    BY <2>4
  <2> QED
    BY <1>20, <2>1, <2>2, <2>3, <2>4
<1>22. eo \in Seq(Int) /\ Len(eo) = c + 1
  <2>1. \A i \in 1 .. c + 1 : eo[i] \in Int
    BY <1>17, <1>18, <1>19, <1>20
  <2>2. eo = [i \in 1 .. c + 1 |-> eo[i]]
    BY <1>12
  <2> QED
    BY <2>1, <2>2
<1>23. e \in Seq(JobSet) /\ Len(e) = c + 1
  BY <1>11 DEF Behind
<1>24. ASSUME NEW i \in 1 .. c + 1
       PROVE  /\ Tracked(ast', bytecode', initializers', e[i].vm, eo[i])
              /\ StartBegun(ast', initializers', eo[i])
              /\ \A j \in 1 .. Len(queue) :
                   j # 1 /\ queue[j].type = "EXECUTE" /\ org[j] = eo[i] => eo[i] = 0
  <2>1. CASE i \in 1 .. c
    BY <1>19, <2>1
  <2>2. CASE i = c + 1
    BY <1>16, <1>18, <2>2
  <2> QED
    BY <1>20, <2>1, <2>2
<1>25. Started(e, eo, org)
  BY <1>21, <1>22, <1>23, <1>24 DEF Started
<1>26. MachinesFine'
  BY <1>3, <1>6, <1>11, <1>14, <1>25, EmittingOrigins
<1> QED
  BY <1>8, <1>26 DEF SInv, SoundParts

LEMMA FetchingRuns ==
  ASSUME NEW op, Fetching(op)
  PROVE  vm # Idle
BY DEF Fetching

LEMMA InstructionsRun ==
  ASSUME Instruction
  PROVE  vm # Idle
<1>1. ASSUME FinishUnit PROVE Fetching(RETURN)
  BY <1>1, Zenon DEF FinishUnit
<1>2. CASE LeaveCall
  <2>1. Fetching(RETURN)
    BY <1>2 DEF LeaveCall
  <2> QED
    BY <2>1, FetchingRuns
<1>3. CASE LoadWord \/ Store \/ PushWord \/ Call \/ Syscall \/ Jump \/ JumpZero
  <2>1. Fetching(LOAD) \/ Fetching(STORE) \/ Fetching(PUSH) \/ Fetching(CALL)
        \/ Fetching(SYSCALL) \/ Fetching(JUMP) \/ Fetching(JUMP_ZERO)
    BY <1>3, Zenon DEF LoadWord, Store, PushWord, Call, Syscall, Jump, JumpZero
  <2> QED
    BY <2>1, FetchingRuns
<1>4. CASE LoadArgument
  <2>1. PICK op : Fetching(op)
    BY <1>4, Zenon DEF LoadArgument
  <2> QED
    BY <2>1, FetchingRuns
<1>5. CASE Unknown
  BY <1>5 DEF Unknown
<1> QED
  BY <1>1, <1>2, <1>3, <1>4, <1>5, FetchingRuns DEF Instruction

(* The machine in hand has the origin of the job in front. *)
LEMMA MachineInHand ==
  ASSUME IInv, SInv, StacksSuffice, Instruction
  PROVE  /\ queue # <<>> /\ queue[1].type = "EXECUTE" /\ vm # Idle
         /\ \E org : Origins(org) /\ Onwards(org[1])
<1>1. vm # Idle
  BY InstructionsRun
<1>2. queue # <<>> /\ queue[1].type = "EXECUTE" /\ MachineFine(vm)
  BY <1>1 DEF IInv, VmFine
<1>3. PICK org : Origins(org)
  BY DEF SInv, MachinesFine
<1>4. Tracked(ast, bytecode, initializers, vm, org[1])
  BY <1>1, <1>3 DEF Origins
<1>5. UnitsSound
  BY <1>2 DEF UnitsSound, MachineInv, IInv, SInv, StacksSuffice
<1>6. PICK u : u = org[1]
  OBVIOUS
<1>7. Onwards(u)
  BY <1>4, <1>5, <1>6, InstructionOutcome
<1> QED
  BY <1>1, <1>2, <1>3, <1>6, <1>7

LEMMA RunSound ==
  ASSUME IInv, SInv, StacksSuffice, Run
  PROVE  SInv'
<1>1. UNCHANGED <<program, bytecode, initializers>>
  BY DEF Run, Execute
<1>2. CASE Resume
  <2>1. Taking("EXECUTE")
    BY <1>2 DEF Resume
  <2>2. queue # <<>> /\ queue[1].type = "EXECUTE" /\ 1 \in 1 .. Len(queue)
    BY <2>1, HeadFacts, QueueInvFacts
  <2>3. PICK org : Origins(org)
    BY DEF SInv, MachinesFine
  <2>4. Tracked(ast, bytecode, initializers, queue[1].vm, org[1])
    BY <2>2, <2>3 DEF Origins, Jobs
  <2>5. PICK u : u = org[1]
    OBVIOUS
  <2>6. Goes(u) \/ Waits(u)
    BY <1>2, <2>4, <2>5, ResumeOutcome, QueueInvFacts
  <2>7. Goes(org[1]) \/ Waits(org[1])
    BY <2>5, <2>6
  <2> QED
    BY <1>1, <2>2, <2>3, <2>7, GoesSound, WaitsSound
<1>3. CASE Instruction
  <2>1. queue # <<>> /\ queue[1].type = "EXECUTE"
    BY <1>3, MachineInHand
  <2>2. PICK org : Origins(org) /\ Onwards(org[1])
    BY <1>3, MachineInHand
  <2>3. CASE Goes(org[1])
    BY <1>1, <2>2, <2>3, GoesSound
  <2>4. CASE Waits(org[1])
    BY <1>1, <2>1, <2>2, <2>4, WaitsSound
  <2>5. CASE Stores(org[1])
    BY <1>1, <2>2, <2>5, StoresSound
  <2>6. CASE Ends
    BY <1>1, <2>1, <2>6, EndsSound
  <2>7. CASE Overflows
    <3>1. queue' = queue /\ vm' = Idle /\ UNCHANGED <<program, ast, bytecode, initializers>>
      BY <1>1, <2>7 DEF Overflows, Derail, Crashed
    <3> QED
      BY <3>1, CalmStep
  <2> QED
    BY <2>2, <2>3, <2>4, <2>5, <2>6, <2>7 DEF Onwards
<1> QED
  BY <1>2, <1>3 DEF Run, Execute

LEMMA SInvStep ==
  ASSUME IInv, HandlersKeep, CodeDisciplined, StacksSuffice, SInv, [Next]_vars
  PROVE  SInv'
<1>1. CASE Halt
  BY <1>1, NothingSound DEF Halt
<1>2. CASE UNCHANGED vars
  BY <1>2, NothingSound
<1> QED
  BY <1>1, <1>2, ReadSound, LexSound, ParseSound, TypecheckSound, OptimizeSound,
     GenerateSound, RunSound, TurnSound DEF Next

-----------------------------------------------------------------------------
(* The start. *)

(* What putc has on the stack at each of its instructions: after n of them  *)
(* it has pushed n words, which the syscall pops.                           *)
Plains(n) == [i \in 1 .. n |-> Plain]

PutcStates ==
  {State(2 * n + 1, Plains(n), FALSE) : n \in 0 .. 4} \cup {State(11, <<>>, FALSE)}

LEMMA PlainsFacts ==
  ASSUME NEW n \in Nat
  PROVE  /\ Plains(n) \in Seq({Plain}) /\ Len(Plains(n)) = n
         /\ Append(Plains(n), Plain) = Plains(n + 1)
<1>1. \A k \in Nat :
        /\ Plains(k) \in Seq({Plain}) /\ Len(Plains(k)) = k
        /\ \A i \in 1 .. k : Plains(k)[i] = Plain
  BY DEF Plains
<1>2. PICK a, b : a = Append(Plains(n), Plain) /\ b = Plains(n + 1)
  OBVIOUS
<1>3. /\ a \in Seq({Plain}) /\ Len(a) = n + 1
      /\ b \in Seq({Plain}) /\ Len(b) = n + 1
      /\ \A i \in 1 .. n + 1 : a[i] = b[i]
  BY <1>1, <1>2
<1>4. a = b
  BY <1>3, SeqEqual
<1> QED
  BY <1>1, <1>2, <1>4

LEMMA NoPlains == Plains(0) = <<>>
<1>1. Plains(0) \in Seq({Plain}) /\ Len(Plains(0)) = 0
  BY PlainsFacts
<1> QED
  BY <1>1

LEMMA PutcFacts ==
  /\ DOMAIN PutcUnit = 1 .. 12
  /\ PutcUnit[1] = PUSH /\ PutcUnit[2] = Data
  /\ PutcUnit[3] = ARG_ADDR /\ PutcUnit[4] = Num(0)
  /\ PutcUnit[5] = PUSH /\ PutcUnit[6] = Data
  /\ PutcUnit[7] = PUSH /\ PutcUnit[8] = Data
  /\ PutcUnit[9] = SYSCALL /\ PutcUnit[10] = Num(4)
  /\ PutcUnit[11] = RETURN /\ PutcUnit[12] = Num(0)
BY DEF PutcUnit

LEMMA PutcInside ==
  ASSUME NEW t \in PutcStates
  PROVE  Inside(PutcUnit, t)
<1>1. t.at \in {1, 3, 5, 7, 9, 11}
  BY DEF PutcStates, State
<1>2. t.at + 1 \in 1 .. 12 /\ t.at \in 1 .. 12 /\ t.at + 2 - 1 = t.at + 1
  BY <1>1
<1>3. PutcUnit[t.at] # CALL
  BY <1>1, PutcFacts DEF PUSH, ARG_ADDR, SYSCALL, RETURN, CALL, Num
<1> QED
  BY <1>2, <1>3, PutcFacts DEF Inside, SizeOf

LEMMA AllShortened ==
  ASSUME NEW S, NEW s \in Seq(S)
  PROVE  Shortened(s, Len(s)) = <<>>
<1>1. Len(s) - Len(s) = 0
  OBVIOUS
<1> QED
  BY <1>1 DEF Shortened

LEMMA PushFact ==
  ASSUME NEW nodes, NEW code, NEW role, NEW R, NEW at \in Nat, NEW words,
         \/ code[at] = PUSH /\ code[at + 1] = Data
         \/ code[at] = ARG_ADDR /\ code[at + 1] = Num(0),
         State(at + 2, Append(words, Plain), FALSE) \in R,
         NEW t, t = State(at, words, FALSE)
  PROVE  code[t.at] \in Known /\ Fact(nodes, code, role, R, t)
<1>1. Data[1] # "node" /\ Num(0)[1] = "num"
  BY DEF Data, Num
<1>2. t.at = at /\ t.words = words /\ t.stored = FALSE
  BY DEF State
<1>3. CASE code[at] = PUSH /\ code[at + 1] = Data
  BY <1>1, <1>2, <1>3, Distinct DEF Fact, Known
<1>4. CASE code[at] = ARG_ADDR /\ code[at + 1] = Num(0)
  BY <1>1, <1>2, <1>4, Distinct DEF Fact, Known
<1> QED
  BY <1>3, <1>4

LEMMA PutcDisciplined ==
  ASSUME NEW nodes, NEW role, role = Role(ProcClass(<< <<"u8">> >>, <<>>), NoNode)
  PROVE  Disciplined(nodes, PutcUnit, role, PutcStates)
<1>1. PICK code : code = PutcUnit
  OBVIOUS
<1>2. ASSUME NEW n \in 0 .. 4, NEW t, t = State(2 * n + 1, Plains(n), FALSE)
      PROVE  code[t.at] \in Known /\ Fact(nodes, code, role, PutcStates, t)
  <2>1. n \in Nat /\ 2 * n + 1 \in Nat /\ 2 * n + 1 + 2 = 2 * (n + 1) + 1
    OBVIOUS
  <2>2. CASE n # 4
    <3>1. n + 1 \in 0 .. 4 /\ n \in {0, 1, 2, 3}
      BY <2>2
    <3>2. State(2 * (n + 1) + 1, Plains(n + 1), FALSE) \in PutcStates
      BY <3>1 DEF PutcStates
    <3>3. State(2 * n + 1 + 2, Append(Plains(n), Plain), FALSE) \in PutcStates
      BY <2>1, <3>2, PlainsFacts
    <3>4. \/ code[2 * n + 1] = PUSH /\ code[2 * n + 1 + 1] = Data
          \/ code[2 * n + 1] = ARG_ADDR /\ code[2 * n + 1 + 1] = Num(0)
      BY <1>1, <3>1, PutcFacts
    <3> QED
      BY <1>2, <2>1, <3>3, <3>4, PushFact
  <2>3. CASE n = 4
    <3>1. t.at = 9 /\ t.words = Plains(4) /\ t.stored = FALSE
      BY <1>2, <2>3 DEF State
    <3>2. code[t.at] = SYSCALL /\ code[t.at + 1] = Num(4)
      BY <1>1, <3>1, PutcFacts
    <3>3. Num(4)[1] = "num" /\ Num(4)[2] = 4
      BY DEF Num
    <3>4. Plains(4) \in Seq({Plain}) /\ Len(Plains(4)) = 4
      BY PlainsFacts
    <3>5. Shortened(t.words, 4) = <<>>
      BY <3>1, <3>4, AllShortened
    <3>6. State(9 + 2, <<>>, FALSE) \in PutcStates
      BY DEF PutcStates
    <3>7. State(t.at + 2, Shortened(t.words, 4), t.stored) \in PutcStates
      BY <3>1, <3>5, <3>6
    <3>8. Len(t.words) = 4
      BY <3>1, <3>4
    <3>9. 4 \in 0 .. Len(t.words)
      BY <3>8
    <3> QED
      BY <3>2, <3>3, <3>7, <3>9, Distinct DEF Fact, Known
  <2> QED
    BY <2>2, <2>3
<1>3. ASSUME NEW t, t = State(11, <<>>, FALSE)
      PROVE  code[t.at] \in Known /\ Fact(nodes, code, role, PutcStates, t)
  <2>1. t.at = 11 /\ t.words = <<>>
    BY <1>3 DEF State
  <2>2. code[t.at] = RETURN /\ code[t.at + 1] = Num(0)
    BY <1>1, <2>1, PutcFacts
  <2>3. role.class = ProcClass(<< <<"u8">> >>, <<>>)
    BY DEF Role
  <2>4. role.class # NoType /\ Outcome(role.class) = <<>>
    BY <2>3 DEF ProcClass, NoType, Outcome, Results
  <2>5. MayReturn(role, Num(0), t)
    BY <2>1, <2>4 DEF MayReturn, Called
  <2> QED
    BY <2>2, <2>5, Distinct DEF Fact, Known
<1>4. ASSUME NEW t \in PutcStates
      PROVE  code[t.at] \in Known /\ Fact(nodes, code, role, PutcStates, t)
  BY <1>2, <1>3 DEF PutcStates
<1>5. ASSUME NEW t \in PutcStates
      PROVE  Inside(code, t) /\ Steps(nodes, code, role, t) \subseteq PutcStates
  BY <1>1, <1>4, PutcInside, KnownSteps
<1>6. Entry \in PutcStates
  <2>1. State(2 * 0 + 1, Plains(0), FALSE) \in PutcStates
    BY DEF PutcStates
  <2>2. 2 * 0 + 1 = 1
    OBVIOUS
  <2>3. State(1, Plains(0), FALSE) \in PutcStates
    BY <2>1, <2>2
  <2> QED
    BY <2>3, NoPlains DEF Entry
<1> QED
  BY <1>1, <1>5, <1>6 DEF Disciplined

LEMMA BuiltinClass ==
  ASSUME ast = Builtins
  PROVE  /\ ast[Putc].class = ProcClass(<< <<"u8">> >>, <<>>)
         /\ ast[Putc].value = Pointer(PutcCode)
         /\ ast[PutcCode].kind = "PROCEDURE"
         /\ \A p \in DOMAIN ast : ast[p].initialized => p = Putc
<1>1. PICK class : class = ProcClass(<< <<"u8">> >>, <<>>)
  OBVIOUS
<1>2. /\ DOMAIN ast = {Global, Putc, PutcCode}
      /\ Global # Putc /\ Global # PutcCode /\ Putc # PutcCode
  BY BuiltinsFacts
<1>3. /\ ast[Global] = [Node("GLOBAL") EXCEPT !.decls = <<Putc>>]
      /\ ast[Putc] = [Node("DECLARATION") EXCEPT
                        !.name = "putc", !.class = class,
                        !.initialized = TRUE, !.value = Pointer(PutcCode)]
      /\ ast[PutcCode] = [Node("PROCEDURE") EXCEPT !.code = 1]
  BY <1>1, <1>2 DEF Builtins
<1>4. \A kind : /\ DOMAIN Node(kind) = NodeFields /\ Node(kind).kind = kind
                /\ Node(kind).initialized = FALSE
  BY DEF Node, NodeFields
<1>5. ast[Global].initialized = FALSE
  BY <1>3, <1>4, Fields
<1>6. ast[PutcCode].initialized = FALSE /\ ast[PutcCode].kind = "PROCEDURE"
  BY <1>3, <1>4, Fields
<1>7. ast[Putc].class = class /\ ast[Putc].value = Pointer(PutcCode)
  BY <1>3, <1>4, Fields
<1> QED
  BY <1>1, <1>2, <1>5, <1>6, <1>7

LEMMA SInvInit ==
  ASSUME Init
  PROVE  SInv
<1>1. /\ ast = Builtins /\ bytecode = <<Bootstrap, PutcUnit>>
      /\ initializers = <<>> /\ vm = Idle
  BY DEF Init
<1>2. PICK class : class = ProcClass(<< <<"u8">> >>, <<>>)
  OBVIOUS
<1>3. /\ DOMAIN ast = {Global, Putc, PutcCode}
      /\ Global # PutcCode /\ Putc # PutcCode
      /\ \A p \in DOMAIN ast : ast[p].code = IF p = PutcCode THEN 1 ELSE -1
  BY <1>1, BuiltinsFacts
<1>4. /\ ast[Putc].class = class /\ ast[Putc].value = Pointer(PutcCode)
      /\ ast[PutcCode].kind = "PROCEDURE"
      /\ \A p \in DOMAIN ast : ast[p].initialized => p = Putc
  BY <1>1, <1>2, BuiltinClass
<1>5. class # NoType /\ IsProcClass(class)
  BY <1>2 DEF ProcClass, NoType, IsProcClass
<1>6. MachinesFine
  <2>1. PICK job : job = FileJob("READ", MainFile)
    OBVIOUS
  <2>2. /\ queue \in Seq(JobSet) /\ Len(queue) = 2
        /\ \A i \in 1 .. Len(queue) : queue[i] = SENTINEL \/ queue[i].type = "READ"
    BY <2>1, FirstJobs
  <2>3. SENTINEL.type # "EXECUTE"
    BY DEF SENTINEL
  <2>4. Jobs("EXECUTE") = {}
    BY <2>2, <2>3 DEF Jobs
  <2>5. PICK org : org = <<0, 0>>
    OBVIOUS
  <2>6. org \in Seq(Int) /\ Len(org) = 2
    BY <2>5
  <2>7. Origins(org)
    BY <1>1, <2>2, <2>4, <2>6 DEF Origins
  <2> QED
    BY <2>7 DEF MachinesFine
<1>7. ValuesFine
  <2>1. HasKind(ast, Pointer(PutcCode), class)
    <3>1. class # Plain
      BY <1>5 DEF Plain
    <3>2. /\ Pointer(PutcCode)[1] = "node" /\ Pointer(PutcCode)[2] = PutcCode
      BY DEF Pointer
    <3>3. Callable(ast, PutcCode) /\ Signature(ast, PutcCode) = class
      BY <1>4 DEF Callable, Signature
    <3>4. PutcCode \in DOMAIN ast /\ ast[PutcCode].code # -1
      BY <1>3
    <3> QED
      BY <3>1, <3>2, <3>3, <3>4 DEF HasKind
  <2>2. Kind(class) = class
    BY <1>5 DEF Kind
  <2> QED
    BY <1>4, <1>5, <2>1, <2>2 DEF ValuesFine
<1>8. BodiesFine
  <2>1. \A b \in DOMAIN ast : ast[b].code # -1 => b = PutcCode
    BY <1>3
  <2>2. PICK role : role = Role(class, NoNode)
    OBVIOUS
  <2>3. Disciplined(ast, PutcUnit, role, PutcStates)
    BY <1>2, <2>2, PutcDisciplined
  <2>4. FitsRole(ast, PutcUnit, role)
    BY <2>3 DEF FitsRole
  <2>5. ast[PutcCode].code + 1 = 2 /\ bytecode[2] = PutcUnit
    BY <1>1, <1>3
  <2>6. Role(Signature(ast, PutcCode), NoNode) = role
    BY <1>4, <2>2 DEF Signature
  <2> QED
    BY <2>1, <2>4, <2>5, <2>6 DEF BodiesFine
<1>9. StartsFine
  BY <1>1 DEF StartsFine
<1>10. BootFine
  <2>1. \A p \in DOMAIN ast : ast[p].code # 0
    BY <1>3
  <2>2. /\ Putc \in DOMAIN ast /\ ast[Putc].class # NoType
        /\ PutcCode \in DOMAIN ast /\ ast[PutcCode].code # -1
    BY <1>3, <1>4, <1>5
  <2>3. bytecode[1] = Bootstrap
    BY <1>1
  <2> QED
    BY <2>1, <2>2, <2>3 DEF BootFine
<1> QED
  BY <1>6, <1>7, <1>8, <1>9, <1>10 DEF SInv

-----------------------------------------------------------------------------
(* The theorems.  They hold of whatever parser, typechecker and generator   *)
(* keep to the contracts of Workspace.tla and give the machines nothing but *)
(* disciplined units; that those of this compiler do is checked by TLC.     *)
(* And they hold while the stacks suffice: what is written behind one may   *)
(* be anything's, and the word there is cleared when its machine waits.     *)

LEMMA Invariants ==
  Spec /\ []HandlersKeep /\ []CodeDisciplined /\ []StacksSuffice
    => [](IInv /\ SInv)
<1>1. Init => IInv /\ SInv
  BY IInvInit, SInvInit
<1>2. IInv /\ SInv /\ HandlersKeep /\ CodeDisciplined /\ StacksSuffice /\ [Next]_vars
        => (IInv /\ SInv)'
  BY IInvStep, SInvStep
<1> QED
  BY <1>1, <1>2, PTL DEF Spec

LEMMA BalancedHere ==
  ASSUME IInv, SInv, StacksSuffice
  PROVE  StackBalanced
<1>1. ASSUME vm.fp = NoFrame, vm # Idle, Fetching(RETURN)
      PROVE  vm.stack = <<>>
  <2>1. queue # <<>> /\ queue[1].type = "EXECUTE" /\ MachineFine(vm)
    BY <1>1 DEF IInv, VmFine
  <2>2. PICK org : Origins(org)
    BY DEF SInv, MachinesFine
  <2>3. Tracked(ast, bytecode, initializers, vm, org[1])
    BY <1>1, <2>2 DEF Origins
  <2>4. UnitsSound
    BY <2>1 DEF UnitsSound, MachineInv, IInv, SInv, StacksSuffice
  <2>5. PICK L : \E n \in Nat : Tracks(ast, bytecode, initializers, vm, L, n)
    BY <2>3 DEF Tracked
  <2>6. PICK n \in Nat : Tracks(ast, bytecode, initializers, vm, L, n)
    BY <2>5
  <2>7. PICK R, code, t : StandsAt(L, n, R, code, t)
    BY <2>4, <2>6, MachineStands DEF UnitsSound
  <2>8. Runs(L, n, R, code, t)
    BY <2>4, <2>7 DEF Runs
  <2> QED
    BY <1>1, <2>8, FinishEmpty
<1> QED
  BY <1>1 DEF StackBalanced

(* Whatever a program calls, computes and waits for in between, what a unit *)
(* has pushed is popped when it ends.                                       *)
THEOREM Balanced ==
  Spec /\ []HandlersKeep /\ []CodeDisciplined /\ []StacksSuffice
    => []StackBalanced
<1>1. IInv /\ SInv /\ StacksSuffice => StackBalanced
  BY BalancedHere
<1> QED
  BY <1>1, Invariants, PTL

(* A machine that is not inside a call runs the unit it was started with. *)
LEMMA OutermostRuns ==
  ASSUME NEW m, NEW u, Tracked(ast, bytecode, initializers, m, u), m.fp = NoFrame
  PROVE  u = m.id
<1>1. PICK L : \E n \in Nat : Tracks(ast, bytecode, initializers, m, L, n) /\ L[1].id = u
  BY DEF Tracked
<1>2. PICK n \in Nat : Tracks(ast, bytecode, initializers, m, L, n) /\ L[1].id = u
  BY <1>1
<1>3. Levels(ast, bytecode, m.stack, L, n) /\ Executing(ast, m, L[n])
  BY <1>2 DEF Tracks
<1>4. n = 1 /\ m.id = L[n].id
  BY <1>3, CalledOrFirst DEF Executing
<1> QED
  BY <1>2, <1>4

LEMMA OnceHere ==
  ASSUME IInv, SInv
  PROVE  InitializersRunOnce
<1>1. PICK org : Origins(org)
  BY DEF SInv, MachinesFine
<1>2. ASSUME NEW decl, NEW i \in Pending(decl)
      PROVE  /\ i \in Jobs("EXECUTE") /\ org[i] = queue[i].vm.id /\ org[i] # 0
             /\ IsBegun(ast, decl)
  <2>1. PICK k \in DOMAIN initializers :
          /\ i \in Jobs("EXECUTE")
          /\ ast[initializers[k]].lhs = decl
          /\ ast[initializers[k]].code = queue[i].vm.id
          /\ queue[i].vm.fp = NoFrame
    BY <1>2 DEF Pending
  <2>2. Tracked(ast, bytecode, initializers, queue[i].vm, org[i])
    BY <1>1, <2>1 DEF Origins
  <2>3. org[i] = queue[i].vm.id
    BY <2>1, <2>2, OutermostRuns
  <2>4. k \in 1 .. Len(initializers) /\ initializers[k] \in DOMAIN ast
    BY <2>1 DEF IInv, InitializersFine
  <2>5. ast[initializers[k]].code # 0
    BY <2>4 DEF SInv, BootFine
  <2>6. IsBegun(ast, ast[initializers[k]].lhs)
    BY <1>1, <2>1, <2>3, <2>4 DEF Origins
  <2> QED
    BY <2>1, <2>3, <2>5, <2>6
<1>3. ASSUME NEW decl, NEW i \in Pending(decl), NEW j \in Pending(decl),
             queue[i].vm.id = queue[j].vm.id
      PROVE  i = j
  <2>1. /\ i \in Jobs("EXECUTE") /\ org[i] = queue[i].vm.id /\ org[i] # 0
        /\ j \in Jobs("EXECUTE") /\ org[j] = queue[j].vm.id
    BY <1>2
  <2> QED
    BY <1>1, <1>3, <2>1 DEF Origins
<1>4. ASSUME NEW decl, Pending(decl) # {}
      PROVE  ast[decl].initializing \/ ast[decl].initialized
  <2>1. PICK i : i \in Pending(decl)
    BY <1>4
  <2>2. IsBegun(ast, decl)
    BY <1>2, <2>1
  <2> QED
    BY <2>2 DEF IsBegun, Begun
<1> QED
  BY <1>3, <1>4 DEF InitializersRunOnce

(* However many machines wait for a variable, and whatever its initializer  *)
(* waits for and calls itself, that is in the queue at most once; while it  *)
(* is, the variable counts as being initialized.                            *)
THEOREM RunOnce ==
  Spec /\ []HandlersKeep /\ []CodeDisciplined /\ []StacksSuffice
    => []InitializersRunOnce
<1>1. IInv /\ SInv => InitializersRunOnce
  BY OnceHere
<1> QED
  BY <1>1, Invariants, PTL

LEMMA ValuesHere ==
  ASSUME SInv
  PROVE  ValuesMatchClasses
<1>1. ASSUME NEW p \in DOMAIN ast, ast[p].initialized
      PROVE  IsNode(ast[p].value) <=> IsProcClass(ast[p].class)
  <2>1. PICK word : word = ast[p].value
    OBVIOUS
  <2>2. PICK class : class = ast[p].class
    OBVIOUS
  <2>3. HasKind(ast, word, Kind(class))
    BY <1>1, <2>1, <2>2 DEF SInv, ValuesFine
  <2>4. CASE IsProcClass(class)
    <3>1. Kind(class) = class /\ class # Plain
      BY <2>4, ProcIsKind DEF Kind
    <3>2. word[1] = "node" /\ word[2] \in DOMAIN ast
      BY <2>3, <3>1 DEF HasKind
    <3> QED
      BY <2>1, <2>2, <2>4, <3>2 DEF IsNode
  <2>5. CASE ~IsProcClass(class)
    <3>1. word[1] # "node"
      BY <2>3, <2>5 DEF Kind, HasKind
    <3> QED
      BY <2>1, <2>2, <2>5, <3>1 DEF IsNode
  <2> QED
    BY <2>4, <2>5
<1> QED
  BY <1>1 DEF ValuesMatchClasses

(* A variable that counts as initialized holds a procedure if its class is  *)
(* that of one, and else none, so that the first assert of BC_CALL holds.   *)
THEOREM ValuesMatch ==
  Spec /\ []HandlersKeep /\ []CodeDisciplined /\ []StacksSuffice
    => []ValuesMatchClasses
<1>1. IInv /\ SInv => ValuesMatchClasses
  BY ValuesHere
<1> QED
  BY <1>1, Invariants, PTL

(* Nothing but a machine ends the process with its job in front. *)
LEMMA MachineCrashes ==
  ASSUME IInv, Next, Job.type = "EXECUTE", phase # "crashed", phase' = "crashed"
  PROVE  Run
<1>1. \A type : Taking(type) => type = "EXECUTE"
  BY DEF Taking, Job
<1>2. ~Taking("READ") /\ ~Taking("LEX") /\ ~Taking("PARSE") /\ ~Taking("TYPECHECK")
      /\ ~Taking("OPTIMIZE") /\ ~Taking("BYTECODE") /\ ~Taking("ABORT")
      /\ ~Taking("SENTINEL")
  BY <1>1
<1>3. ~Read /\ ~Lex /\ ~Parse /\ ~TypecheckJob /\ ~Optimize /\ ~Generate
  BY <1>2, Zenon DEF Read, Lex, Parse, TypecheckJob, Optimize, Generate
<1>4. ~Report /\ ~(NextRound /\ UNCHANGED told) /\ ~(Stall /\ UNCHANGED told)
  BY <1>2, Zenon DEF Report, TakeAbort, NextRound, Stall
<1>5. ~Return
  BY DEF Return
<1>6. ~DrainAll
  <2>1. Job.type \in Retryable
    BY DEF Retryable
  <2> QED
    BY <2>1 DEF DrainAll, Drain
<1>7. ~Turn
  BY <1>4, <1>5, <1>6, Zenon DEF Turn
<1>8. ~Halt
  BY DEF Halt, vars, pipelineVars
<1> QED
  BY <1>3, <1>7, <1>8, Zenon DEF Next

LEMMA OverflowsHere ==
  ASSUME IInv, SInv, StacksSuffice, [Next]_vars,
         Job.type = "EXECUTE", phase # "crashed", phase' = "crashed"
  PROVE  Depth + 4 > StackSize
<1>1. Run
  <2>1. ~UNCHANGED vars
    BY DEF vars, pipelineVars
  <2> QED
    BY <2>1, MachineCrashes
<1>2. ~UNCHANGED phase
  OBVIOUS
<1>3. CASE Resume
  BY <1>2, <1>3, Zenon DEF Resume, Await, pipelineVars
<1>4. CASE Instruction
  <2>1. PICK org : Origins(org) /\ Onwards(org[1])
    BY <1>4, MachineInHand
  <2>2. ~Goes(org[1]) /\ ~Stores(org[1])
    BY <1>2, Zenon DEF Goes, Stores, Continue, pipelineVars
  <2>3. ~Waits(org[1])
    BY <1>2, Zenon DEF Waits, Await
  <2>4. ~Ends
    BY <1>2 DEF Ends, Completed
  <2> QED
    BY <2>1, <2>2, <2>3, <2>4 DEF Onwards, Overflows
<1> QED
  BY <1>1, <1>3, <1>4 DEF Run, Execute

(* Disciplined units run to their end, or until a word is pushed behind a   *)
(* stack: no instruction is fetched outside of a unit, none that does not   *)
(* exist, nothing popped below an activation's own words, and no call fails *)
(* BC_CALL's asserts.                                                       *)
THEOREM Overflowing ==
  Spec /\ []HandlersKeep /\ []CodeDisciplined /\ []StacksSuffice
    => OnlyOverflows
<1>1. IInv /\ SInv /\ StacksSuffice /\ [Next]_vars =>
        [Job.type = "EXECUTE" /\ phase # "crashed" /\ phase' = "crashed" =>
           Depth + 4 > StackSize]_vars
  BY OverflowsHere
<1> QED
  BY <1>1, Invariants, PTL DEF Spec, OnlyOverflows

LEMMA ValuedHere ==
  ASSUME IInv, SInv, StacksSuffice, FinishUnit, NEW p \in DOMAIN ast, ast'[p].initialized
  PROVE  ast[p].initialized
<1>1. Instruction
  BY Zenon DEF Instruction
<1>2. Fetching(RETURN) /\ Completed(<<>>)
  BY Zenon DEF FinishUnit
<1>3. PICK org : Origins(org) /\ Onwards(org[1])
  BY <1>1, MachineInHand
<1>4. ~Stores(org[1])
  <2>1. queue # <<>> /\ queue \in Seq(JobSet)
    BY <1>1, MachineInHand DEF IInv, QueueFine
  <2>2. queue' = Tail(queue) \o <<>>
    BY <1>2 DEF Completed
  <2>3. Len(queue') # Len(queue)
    BY <2>1, <2>2
  <2> QED
    BY <2>3, Zenon DEF Stores, pipelineVars
<1>5. CASE Goes(org[1])
  BY <1>5 DEF Goes, Continue
<1>6. CASE Waits(org[1])
  <2>1. PICK m, d : d \in DOMAIN ast /\ Await(m, d)
    BY <1>6 DEF Waits
  <2>2. PICK begins \in BOOLEAN : begins = (InitializersOf(d) # {})
    OBVIOUS
  <2>3. ast' = Awaited(d, begins)
    BY <2>1, <2>2 DEF Await, Awaited
  <2> QED
    BY <2>1, <2>3, AwaitedKeeps DEF IInv
<1>7. CASE Ends
  <2>1. CASE ast' = ast
    BY <2>1
  <2>2. ASSUME NEW d \in DOMAIN ast, ast[d].initialized, ast' = Finished(d)
        PROVE  ast[p].initialized
    BY <2>2, FinishedKeeps DEF IInv
  <2> QED
    BY <1>7, <2>1, <2>2 DEF Ends
<1>8. CASE Overflows
  BY <1>8 DEF Overflows, Derail
<1> QED
  BY <1>3, <1>4, <1>5, <1>6, <1>7, <1>8 DEF Onwards

(* An initializer's unit that comes to its end has stored the value on its  *)
(* way: BC_RETURN never marks a variable that has none, so that nobody who  *)
(* waits for it goes on with a value that was not written.                  *)
THEOREM Valued ==
  Spec /\ []HandlersKeep /\ []CodeDisciplined /\ []StacksSuffice
    => ValuedWhenDone
<1>1. IInv /\ SInv /\ StacksSuffice => [FinishUnit => \A p \in DOMAIN ast :
                         ast'[p].initialized => ast[p].initialized]_vars
  BY ValuedHere
<1> QED
  BY <1>1, Invariants, PTL DEF ValuedWhenDone
=============================================================================
