-------------------------------- MODULE Exprs --------------------------------
(***************************************************************************)
(* The expressions of a Frame window (expr.c, phrase.c, frame.c).          *)
(*                                                                         *)
(* A line of the window has an Expr.  What is typed at a line may use its  *)
(* Expr again as `$', and every derived line does: the Exprs are a graph.  *)
(* An evaluation leaves its results in the nodes it visits, so that one    *)
(* line is evaluated with what another one has left behind.  A line that   *)
(* is made a spy remembers the text it was displayed with last; whenever   *)
(* the process stops, and once a second while it runs, the spies are       *)
(* evaluated and those whose text has changed are displayed again.         *)
(*                                                                         *)
(* The memory is a row of words and a pointer one word.  Operators that    *)
(* only compute (! ~ * / == | ...) would be like - and + here, and {} does *)
(* not occur in {}.  Assignment is written := here.                        *)
(***************************************************************************)
EXTENDS Integers, SequencesExt, FiniteSets

CONSTANTS
  Symbols,    \* scope -> identifier -> [off, type]
  Func,       \* activation -> the name of its function
  Fp,         \* activation -> its frame pointer
  Dim,        \* the length of every array
  Mem0,       \* the memory at first
  Stores,     \* the pairs <<address, value>> that others may store
  Typed,      \* what is typed to the window
  Derived,    \* what is typed to a line, with `$'
  MaxNodes,   \* no more Exprs are made
  MaxLines    \* no more lines are made

(* Activation 0 is the window's, its caller is 1.  Static stands for no    *)
(* activation at all: a function that is not on the stack.                 *)
Static == 2

ASSUME ExprsAssumption ==
  /\ Func \in [0 .. Static -> STRING]
  /\ Fp \in [0 .. Static -> Nat] /\ Fp[Static] = 0
  /\ Dim \in Nat /\ MaxNodes \in Nat /\ MaxLines \in Nat
  /\ 0 \notin DOMAIN Mem0

VARIABLES
  ns,      \* the nodes
  mem,     \* the memory of the subject
  lines,   \* the lines, the oldest first: their Expr and what they show
  changed  \* how many spies the last changes() found changed

vars == <<ns, mem, lines, changed>>

(***************************************************************************)
(* What is typed.                                                          *)
(***************************************************************************)
Cur         == [op |-> "$"]
Id(x)       == [op |-> "id", id |-> x]
Num(k)      == [op |-> "num", val |-> k]
Un(o, t)    == [op |-> o, a |-> t]
Bin(t, o, u) == [op |-> o, a |-> t, b |-> u]
Env(t, fn)  == [op |-> "env", a |-> t, id |-> fn]

Unary  == {"-", "*", "&"}
Binary == {"+", "[]", "&&", ":=", ","}

(***************************************************************************)
(* Types.  A type is a row of "p" (pointer to) and "a" (array of), empty   *)
(* for an integer.  The type that & makes does not contain the type of its *)
(* operand but points to it: ref is the node whose type it is.             *)
(***************************************************************************)
Type(row)   == [ref |-> 0, row |-> row]
Integral(y) == y = Type(<<>>)
IsPtr(y)    == y.ref # 0 \/ (y.row # <<>> /\ Head(y.row) = "p")
IsAry(y)    == y.ref = 0 /\ y.row # <<>> /\ Head(y.row) = "a"
IsScalar(y) == Integral(y) \/ IsPtr(y)
SizeOf(y)   == IF IsAry(y) THEN Dim ELSE 1

NoSym == [off |-> 0, type |-> <<>>, glb |-> FALSE]
Node(o) == [op |-> o, id |-> "", a |-> 0, b |-> 0, sym |-> NoSym, type |-> Type(<<>>),
            val |-> 0, addr |-> 0, spy |-> FALSE, seen |-> <<>>]

(***************************************************************************)
(* Evaluation.  It works on a record s of the nodes, the memory and        *)
(* whether an error has ended it.                                          *)
(***************************************************************************)
Fail(s)      == [s EXCEPT !.err = TRUE]
Put(s, n, r) == [s EXCEPT !.ns[n] = r @@ @]

Pointee(s, y) == IF y.ref # 0 THEN s.ns[y.ref].type ELSE Type(Tail(y.row))

idtosym(f, id) ==
  IF id \in DOMAIN Symbols[Func[f]] THEN Symbols[Func[f]][id] @@ [glb |-> FALSE]
  ELSE IF id \in DOMAIN Symbols["glb"] THEN Symbols["glb"][id] @@ [glb |-> TRUE]
  ELSE NoSym

locate(f, v) ==
  IF v.glb THEN v.off ELSE IF Fp[f] = 0 THEN 0 ELSE Fp[f] + v.off

(* The value at the address and of the type that the node has now.         *)
Fetched(t, n) ==
  LET e == t.ns[n]
  IN  CASE e.addr = 0 -> Fail(t)
        [] e.addr # 0 /\ ~IsScalar(e.type) -> t
        [] OTHER -> IF e.addr \in DOMAIN t.mem THEN Put(t, n, [val |-> t.mem[e.addr]])
                    ELSE Fail(t)

getval_KeepsType(s, n) ==
  LET e == s.ns[n]
      bound == e.sym # NoSym /\ Integral(e.type)
  IN  Fetched(Put(s, n, [type |-> IF bound THEN Type(e.sym.type) ELSE e.type]), n)

(* The node's type is the symbol's again, whatever an operator made of it. *)
getval(s, n) ==
  LET e == s.ns[n]
  IN  Fetched(Put(s, n, [type |-> IF e.sym # NoSym THEN Type(e.sym.type) ELSE e.type]), n)

RECURSIVE eval(_, _, _)

EnvDone(t, n, x) ==
  IF t.err THEN t ELSE Put(t, n, [type |-> x.type, val |-> x.val, addr |-> x.addr])

(* The closest caller of that name, or the function without an activation. *)
evalenv(s, n, f) ==
  LET e   == s.ns[n]
      env == IF f = 0 /\ Func[1] = e.id THEN 1 ELSE Static
      Done(t) == EnvDone(t, n, t.ns[e.a])
  IN  IF \A g \in 0 .. Static : Func[g] # e.id THEN Fail(s) ELSE Done(eval(s, e.a, env))

(* x is the operand.                                                       *)
UnaryDone(t, n, x) ==
  CASE t.ns[n].op = "-" /\ Integral(x.type) ->
         Put(t, n, [type |-> Type(<<>>), val |-> -x.val])
    [] t.ns[n].op = "*" /\ IsPtr(x.type) ->
         getval(Put(t, n, [addr |-> x.val, type |-> Pointee(t, x.type)]), n)
    [] t.ns[n].op = "&" /\ x.addr # 0 ->
         Put(t, n, [addr |-> 0, val |-> x.addr, type |-> [ref |-> t.ns[n].a, row |-> <<>>]])
    [] OTHER -> Fail(t)

evalunary(s, n, f) ==
  LET Done(t) == IF t.err THEN t ELSE UnaryDone(t, n, t.ns[t.ns[n].a])
  IN  Done(eval(s, s.ns[n].a, f))

(* An array becomes a pointer to its first element, in the operand's node. *)
decay(s, n) ==
  LET x == s.ns[n]
  IN  IF IsAry(x.type)
      THEN Put(s, n, [val |-> x.addr, type |-> Type(<<"p">> \o Tail(x.type.row))])
      ELSE s

(* x and y are the operands.                                               *)
PlusDone(t, n, x, y) ==
  CASE IsPtr(x.type) /\ Integral(y.type) ->
         Put(t, n, [type |-> x.type, val |-> x.val + SizeOf(Pointee(t, x.type)) * y.val])
    [] Integral(x.type) /\ Integral(y.type) -> Put(t, n, [val |-> x.val + y.val])
    [] Integral(x.type) /\ IsPtr(y.type) ->
         Put(t, n, [type |-> y.type, val |-> y.val + SizeOf(Pointee(t, y.type)) * x.val])
    [] OTHER -> Fail(t)

evalplus(s, n) ==
  LET Done(t) == PlusDone(t, n, t.ns[t.ns[n].a], t.ns[t.ns[n].b])
  IN  Done(decay(decay(s, s.ns[n].a), s.ns[n].b))

(* Element i of the array or pointer x.                                    *)
evalindex(s, n, x, i) ==
  LET At(y, base) == IF base = 0 THEN Fail(Put(s, n, [type |-> y]))
                     ELSE getval(Put(s, n, [type |-> y, addr |-> base + SizeOf(y) * i]), n)
  IN  At(Pointee(s, x.type), IF IsPtr(x.type) THEN x.val ELSE x.addr)

(* The value is what the left side has when it is evaluated once more.     *)
evalassign(s, n, f) ==
  LET a       == s.ns[n].a
      Done(w) == IF w.err THEN w
                 ELSE Put(w, n, [type |-> w.ns[a].type, val |-> w.ns[a].val, addr |-> 0])
      Store(t, x, y) ==
        IF x.addr = 0 \/ ~IsScalar(x.type) \/ ~IsScalar(y.type) \/ x.addr \notin DOMAIN t.mem
        THEN Fail(t) ELSE Done(eval([t EXCEPT !.mem[x.addr] = y.val], a, f))
      Right(t) == Store(t, t.ns[a], t.ns[s.ns[n].b])
  IN  Right(IF s.ns[a].addr # 0 THEN decay(s, s.ns[n].b) ELSE s)

BinaryDone(r, n, x, y, f) ==
  CASE r.ns[n].op = "," -> Put(r, n, [type |-> y.type, val |-> y.val])
    [] r.ns[n].op = ":=" -> evalassign(r, n, f)
    [] r.ns[n].op = "+" -> evalplus(r, n)
    [] r.ns[n].op = "&&" /\ IsScalar(x.type) /\ IsScalar(y.type) ->
         Put(r, n, [val |-> IF x.val # 0 /\ y.val # 0 THEN 1 ELSE 0])
    [] r.ns[n].op = "[]" /\ ~Integral(x.type) /\ Integral(y.type) -> evalindex(r, n, x, y.val)
    [] r.ns[n].op = "[]" /\ Integral(x.type) /\ ~Integral(y.type) -> evalindex(r, n, y, x.val)
    [] OTHER -> Fail(r)

evalbinary(s, n, f) ==
  LET e == s.ns[n]
      Right(r) == IF r.err THEN r ELSE BinaryDone(r, n, r.ns[e.a], r.ns[e.b], f)
      Left(t, x) ==
        IF t.err THEN t
        ELSE IF e.op = "&&" /\ Integral(x.type) /\ x.val = 0
        THEN Put(t, n, [type |-> Type(<<>>), val |-> 0])
        ELSE Right(eval(Put(t, n, [type |-> Type(<<>>)]), e.b, f))
      Begin(t) == Left(t, t.ns[e.a])
  IN  Begin(eval(s, e.a, f))

(* An identifier is looked up once: afterwards the node is the symbol's.   *)
Bound(s, n, v, f) ==
  IF v = NoSym THEN Fail(s)
  ELSE getval(Put(s, n, [op |-> "sym", sym |-> v, addr |-> locate(f, v)]), n)

eval(s, n, f) ==
  LET e == s.ns[n]
  IN  CASE e.op = "num" -> s
        [] e.op = "id" -> Bound(s, n, idtosym(f, e.id), f)
        [] e.op = "sym" -> Bound(s, n, e.sym, f)
        [] e.op = "env" -> evalenv(s, n, f)
        [] e.op \in Unary -> evalunary(s, n, f)
        [] e.op \in Binary -> evalbinary(s, n, f)

(***************************************************************************)
(* The text of a line: the value of its Expr, or of each operand of a      *)
(* comma, marked `>>>' where the operand is a spy.                         *)
(***************************************************************************)
RECURSIVE evaltext(_, _, _)

CommaDone(r, n, y) == [r EXCEPT !.s = Put(@, n, [type |-> y.type, val |-> y.val])]

(* The value of an array is its address.                                   *)
PlainDone(t, n, text) ==
  LET x == t.ns[n]
      v == IF IsAry(x.type) THEN x.addr ELSE x.val
  IN  IF t.err THEN [s |-> t, text |-> text]
      ELSE [s |-> Put(t, n, [val |-> v]),
            text |-> Append(text, [spy |-> x.spy, val |-> v])]

doevaltext(s, n, text) ==
  LET e        == s.ns[n]
      Right(r) == CommaDone(r, n, r.s.ns[e.b])
      Left(l)  == IF l.s.err THEN l ELSE Right(evaltext(l.s, e.b, l.text))
  IN  IF e.op = "," THEN Left(evaltext(s, e.a, text)) ELSE PlainDone(eval(s, n, 0), n, text)

(* A spy whose evaluation fails is none any more.                          *)
evaltext(s, n, text) ==
  LET Done(r) ==
        [r EXCEPT !.s = Put(@, n, IF @.err THEN [spy |-> FALSE, seen |-> <<>>]
                                  ELSE IF @.ns[n].spy THEN [seen |-> r.text]
                                  ELSE [spy |-> FALSE])]
  IN  Done(doevaltext(s, n, text))

Fresh(nodes, m) == [ns |-> nodes, mem |-> m, err |-> FALSE]

(* A line whose Expr cannot be evaluated shows its text alone.             *)
Shown(r) == IF r.s.err THEN <<>> ELSE r.text

(* makephrase: the line that has this Expr already, or a new one.          *)
makephrase(nodes, e) ==
  LET Display(r, line) ==
        /\ ns' = r.s.ns
        /\ mem' = r.s.mem
        /\ lines' = IF \E l \in DOMAIN lines : lines[l].expr = e
                    THEN [l \in DOMAIN lines |-> IF lines[l].expr = e THEN line ELSE lines[l]]
                    ELSE Append(lines, line)
      Line(r) == Display(r, [expr |-> e, shown |-> Shown(r)])
  IN  Line(evaltext(Fresh(nodes, mem), e, <<>>))

(* The parser makes a node for each operator, but `$' is the line's Expr.  *)
RECURSIVE parse(_, _, _)
parse(nodes, t, cur) ==
  LET New(w, o) == [ns |-> Append(w, o), n |-> Len(w) + 1]
      One(l)    == New(l.ns, [Node(t.op) EXCEPT !.a = l.n])
      Named(l)  == New(l.ns, [Node(t.op) EXCEPT !.a = l.n, !.id = t.id])
      Two(l, r) == New(r.ns, [Node(t.op) EXCEPT !.a = l.n, !.b = r.n])
      Then(l)   == Two(l, parse(l.ns, t.b, cur))
  IN  CASE t.op = "$" -> [ns |-> nodes, n |-> cur]
        [] t.op = "id" -> New(nodes, [Node("id") EXCEPT !.id = t.id])
        [] t.op = "num" -> New(nodes, [Node("num") EXCEPT !.val = t.val])
        [] t.op = "env" -> Named(parse(nodes, t.a, cur))
        [] t.op \in Unary -> One(parse(nodes, t.a, cur))
        [] t.op \in Binary -> Then(parse(nodes, t.a, cur))

(***************************************************************************)
(* The user and the subject.                                               *)
(***************************************************************************)
Init == /\ ns = <<>>
        /\ mem = Mem0
        /\ lines = <<>>
        /\ changed = 0

Typing(t, cur) ==
  LET Parsed(p) == Len(p.ns) <= MaxNodes /\ makephrase(p.ns, p.n)
  IN  /\ Len(lines) < MaxLines
      /\ Parsed(parse(ns, t, cur))
      /\ UNCHANGED changed

(* Frame::kbd and pickvar; Phrase::kbd, applyunary, applybinary: derive.   *)
Kbd    == \E t \in Typed : Typing(t, 0)
Derive == \E l \in DOMAIN lines, t \in Derived : Typing(t, lines[l].expr)

Evaluate(l) == makephrase(ns, lines[l].expr) /\ UNCHANGED changed

(* The menu offers `spy on $' and `unspy $' where the evaluation succeeded.*)
SetSpy_KeepsText(l) ==
  /\ lines[l].shown # <<>>
  /\ makephrase([ns EXCEPT ![lines[l].expr].spy = ~@], lines[l].expr)
  /\ UNCHANGED changed

SetSpy(l) ==
  LET e == lines[l].expr
  IN  /\ lines[l].shown # <<>>
      /\ makephrase([ns EXCEPT ![e].spy = ~@, ![e].seen = <<>>], e)
      /\ UNCHANGED changed

(* Phrase::changed for each line, the newest first; s is the state of an   *)
(* evaluation with the lines and the number of changes.                    *)
Looked(s, r)       == [s EXCEPT !.ns = r.s.ns, !.mem = r.s.mem]
Redisplay(s, l, r) == [Looked(s, r) EXCEPT !.count = @ + 1, !.lines[l].shown = Shown(r)]

Changed_CountsLost(s, l) ==
  LET e == s.lines[l].expr
      Compare(r) == IF r.s.ns[e].seen = s.ns[e].seen THEN Looked(s, r)
                    ELSE Redisplay(s, l, evaltext(Fresh(r.s.ns, r.s.mem), e, <<>>))
  IN  IF s.ns[e].spy THEN Compare(evaltext(Fresh(s.ns, s.mem), e, <<>>)) ELSE s

Changed(s, l) ==
  LET e == s.lines[l].expr
      Compare(r) == IF ~r.s.ns[e].spy \/ r.s.ns[e].seen = s.ns[e].seen THEN Looked(s, r)
                    ELSE Redisplay(s, l, evaltext(Fresh(r.s.ns, r.s.mem), e, <<>>))
  IN  IF s.ns[e].spy THEN Compare(evaltext(Fresh(s.ns, s.mem), e, <<>>)) ELSE s

Changes(m) ==
  LET Done(r) == ns' = r.ns /\ mem' = r.mem /\ lines' = r.lines /\ changed' = r.count
  IN  Done(FoldRight(LAMBDA l, s : Changed(s, l), [l \in DOMAIN lines |-> l],
                     [ns |-> ns, mem |-> m, lines |-> lines, count |-> 0]))

(* The subject runs and stops, or is polled; another window stores.        *)
Stop == \E w \in Stores : Changes([mem EXCEPT ![w[1]] = w[2]])
Poke == \E w \in Stores : /\ mem' = [mem EXCEPT ![w[1]] = w[2]]
                         /\ UNCHANGED <<ns, lines, changed>>

Next == \/ Kbd
        \/ Derive
        \/ \E l \in DOMAIN lines : Evaluate(l) \/ SetSpy(l)
        \/ Stop
        \/ Poke

Spec == Init /\ [][Next]_vars

(***************************************************************************)
(* What a text means in C: a function of the text, the activation and the  *)
(* memory, without nodes.  Operands are evaluated from left to right.      *)
(***************************************************************************)
RECURSIVE TextOf(_, _)
TextOf(nodes, n) ==
  LET e == nodes[n]
  IN  CASE e.op = "num" -> Num(e.val)
        [] e.op \in {"id", "sym"} -> Id(e.id)
        [] e.op = "env" -> Env(TextOf(nodes, e.a), e.id)
        [] e.op \in Unary -> Un(e.op, TextOf(nodes, e.a))
        [] e.op \in Binary -> Bin(TextOf(nodes, e.a), e.op, TextOf(nodes, e.b))

NoMeaning(m) == [ok |-> FALSE, row |-> <<>>, val |-> 0, addr |-> 0, mem |-> m]
RValue(v, row, m) == [ok |-> TRUE, row |-> row, val |-> v, addr |-> 0, mem |-> m]
LValue(a, row, m) ==
  IF a \notin DOMAIN m THEN NoMeaning(m)
  ELSE [ok |-> TRUE, row |-> row, val |-> IF row # <<>> /\ Head(row) = "a" THEN a ELSE m[a],
        addr |-> a, mem |-> m]

(* The value of an array is the pointer to its first element.              *)
Rval(x)  == IF x.row # <<>> /\ Head(x.row) = "a" THEN [x EXCEPT !.row = <<"p">> \o Tail(@)] ELSE x
Step(row) == IF Tail(row) # <<>> /\ Head(Tail(row)) = "a" THEN Dim ELSE 1

RECURSIVE Meaning(_, _, _)

MeaningUnary(o, x) ==
  CASE ~x.ok -> x
    [] x.ok /\ o = "-" /\ x.row = <<>> -> RValue(-x.val, <<>>, x.mem)
    [] x.ok /\ o = "*" /\ x.row # <<>> /\ Head(x.row) = "p" -> LValue(x.val, Tail(x.row), x.mem)
    [] x.ok /\ o = "&" /\ x.addr # 0 -> RValue(x.addr, <<"p">> \o x.row, x.mem)
    [] OTHER -> NoMeaning(x.mem)

Sum(x, y) ==
  CASE x.row = <<>> /\ y.row = <<>> -> RValue(x.val + y.val, <<>>, y.mem)
    [] x.row # <<>> /\ y.row = <<>> -> RValue(x.val + Step(x.row) * y.val, x.row, y.mem)
    [] x.row = <<>> /\ y.row # <<>> -> RValue(y.val + Step(y.row) * x.val, y.row, y.mem)
    [] OTHER -> NoMeaning(y.mem)

Element(x, s) ==
  IF s.ok /\ s.row # <<>> /\ x.val # 0 THEN LValue(s.val, Tail(s.row), s.mem)
  ELSE NoMeaning(s.mem)

(* l and r are the operands, x and y the same without arrays.              *)
MeaningBinary(t, f, l, r, x, y) ==
  LET Assigned(w) == IF w.ok THEN RValue(w.val, w.row, w.mem) ELSE w
  IN  CASE t.op = "," -> [r EXCEPT !.addr = 0]
        [] t.op = "+" -> Sum(x, y)
        [] t.op = "[]" -> Element(IF x.row # <<>> THEN x ELSE y, Sum(x, y))
        [] t.op = "&&" /\ x = l /\ y = r ->
             RValue(IF l.val # 0 /\ r.val # 0 THEN 1 ELSE 0, <<>>, r.mem)
        [] t.op = ":=" /\ l.addr # 0 /\ x = l ->
             Assigned(Meaning(t.a, f, [r.mem EXCEPT ![l.addr] = y.val]))
        [] OTHER -> NoMeaning(r.mem)

Meaning(t, f, m) ==
  LET g       == IF f = 0 /\ Func[1] = t.id THEN 1 ELSE Static
      Id_(v)  == IF v = NoSym THEN NoMeaning(m) ELSE LValue(locate(f, v), v.type, m)
      Right(l, r) == IF r.ok THEN MeaningBinary(t, f, l, r, Rval(l), Rval(r)) ELSE r
      Left(l) == CASE ~l.ok -> l
                   [] t.op = "&&" /\ l.ok /\ l.row = <<>> /\ l.val = 0 -> RValue(0, <<>>, l.mem)
                   [] OTHER -> Right(l, Meaning(t.b, f, l.mem))
  IN  CASE t.op = "num" -> RValue(t.val, <<>>, m)
        [] t.op = "id" -> Id_(idtosym(f, t.id))
        [] t.op = "env" -> IF \E h \in 0 .. Static : Func[h] = t.id
                           THEN Meaning(t.a, g, m) ELSE NoMeaning(m)
        [] t.op \in Unary -> MeaningUnary(t.op, Meaning(t.a, f, m))
        [] t.op \in Binary -> Left(Meaning(t.a, f, m))

(* The values of a line, in the memory m: those of the operands of commas. *)
RECURSIVE Values(_, _)
Values(t, m) ==
  LET One(x)      == [ok |-> x.ok, mem |-> x.mem, row |-> <<x.val>>]
      Both(row, r) == [r EXCEPT !.row = row \o @]
      Left(l)     == IF l.ok THEN Both(l.row, Values(t.b, l.mem)) ELSE l
  IN  IF t.op = "," THEN Left(Values(t.a, m)) ELSE One(Meaning(t, 0, m))

ShownValues(l) == [k \in DOMAIN l.shown |-> l.shown[k].val]
LineText(l)    == TextOf(ns, lines[l].expr)
IsSpy(l)       == ns[lines[l].expr].spy

RECURSIVE Assigns(_)
Assigns(t) == CASE t.op \in {"num", "id"} -> FALSE
                [] t.op \in Unary \cup {"env"} -> Assigns(t.a)
                [] OTHER -> t.op = ":=" \/ Assigns(t.a) \/ Assigns(t.b)

(* A line with the values v and the memory it leaves behind.               *)
Shows(l, v) == IF v.ok THEN ShownValues(lines'[l]) = v.row ELSE lines'[l].shown = <<>>

Evaluated(l) == \/ l \notin DOMAIN lines
                \/ l \in DOMAIN lines /\ (Evaluate(l) \/ SetSpy(l))

(* The Exprs are a graph without circles, each line has one of its own,    *)
(* and only lines' Exprs are spies; no other remembers a text.             *)
TypeOK ==
  /\ \A n \in DOMAIN ns :
       /\ {ns[n].a, ns[n].b} \subseteq 0 .. n - 1
       /\ ns[n].addr \in Nat /\ ns[n].val \in Int
       /\ ~ns[n].spy => ns[n].seen = <<>>
       /\ ns[n].spy => \E l \in DOMAIN lines : lines[l].expr = n
  /\ DOMAIN mem = DOMAIN Mem0
  /\ \A l, k \in DOMAIN lines :
       lines[l].expr \in DOMAIN ns /\ (lines[l].expr = lines[k].expr => l = k)
  /\ changed \in 0 .. Len(lines)

(* However the Exprs of the lines are shared, and whatever was evaluated   *)
(* before: a line that is typed, derived, evaluated or made a spy shows    *)
(* what its text means in the window's activation and in the memory as it  *)
(* is, and the evaluation stores what the text assigns and nothing else.   *)
ShownIsMeant ==
  [][\A l \in DOMAIN lines' :
        Evaluated(l) => LET v == Values(LineText(l)', mem)
                        IN  Shows(l, v) /\ mem' = v.mem]_vars

(* The Exprs whose own texts a line's evaluation makes too: a comma's.      *)
RECURSIVE Operands(_)
Operands(n) == IF ns[n].op = ","
               THEN {ns[n].a, ns[n].b} \cup Operands(ns[n].a) \cup Operands(ns[n].b)
               ELSE {}

(* A comma that is a spy itself marks which of its operands are spies, and *)
(* evaluates their texts before their lines' turn; a comma that is none    *)
(* takes in a change that the operand's line does not show.                *)
Entangled ==
  \E k, l \in DOMAIN lines :
     LET e == lines[l].expr
     IN  /\ e \in Operands(lines[k].expr)
         /\ IsSpy(k) \/ (IsSpy(l) /\ ns[e].seen # lines[l].shown)

(* When the subject has stopped, the line of every spy shows the value     *)
(* that its text has then, and changes() counts exactly the spies whose    *)
(* value is another one than the line showed: stepping until a spy changes *)
(* ends there and only there.  Other lines may share the spy's Expr and be *)
(* evaluated in between; only a comma of such Exprs may take a change in,  *)
(* or report one that is none.  Where a spied text assigns, looking at the *)
(* spies changes the memory.                                               *)
SpiesAreTrue ==
  [][Stop /\ (\A l \in DOMAIN lines : IsSpy(l) => ~Assigns(LineText(l))) /\ ~Entangled
     => LET Now(l)  == Values(LineText(l), mem')
            Spies   == {l \in DOMAIN lines : IsSpy(l) /\ Now(l).ok}
        IN  /\ \A l \in Spies : Shows(l, Now(l))
            /\ changed' = Cardinality({l \in Spies : Now(l).row # ShownValues(lines[l])})]_vars
=============================================================================
