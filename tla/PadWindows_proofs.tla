------------------------- MODULE PadWindows_proofs -------------------------
(***************************************************************************)
(* The inductive invariant of PadLines, and what the terminal makes of the *)
(* messages it reads: lines and windows, the loops over them (FoldLeft is  *)
(* followed turn by turn), one message, and all that are on their way.     *)
(*                                                                         *)
(* Most of it is about the terminal when it will have read all that was    *)
(* sent.  The invariant is about all it will be meanwhile, one message     *)
(* after the other: each of these terminals is right and fits the message  *)
(* that is next.  What the user does changes the terminal as it is, so     *)
(* that all those change with it; they stay behind the ones that were to   *)
(* be in nothing but what was taken from one window.                       *)
(***************************************************************************)
EXTENDS PadLines, SequenceTheorems, FiniteSetTheorems, FunctionTheorems, WellFoundedInduction, TLAPS

-----------------------------------------------------------------------------
(* The values of the variables. *)

Options == UNION {kind.attributes : kind \in AllKinds}

RealLine == [key : Key, text : Text, attributes : LineAttributes \cup {{}}]
TildeLine == [key : Key, text : {TILDE}, attributes : {{}, {"FAKELINE"}}]
Line == RealLine \cup TildeLine

Window(n) == [object : Obj, oid : 1 .. n, attributes : SUBSET (Options \cup {"FAKELINE"}),
              max : 0 .. MaxKey, lines : Seq(Line)]

Request(n) == {m \in [op : {"LINEREQ"}, obj : Obj, oid : 1 .. n, lo : Key, hi : Key] : m.lo <= m.hi}
Closing(n) == [op : {"USERCLOSE"}, obj : Obj, oid : 1 .. n]

Prev == [key : 0 .. MaxKey, attributes : LineAttributes \cup {{}}]

Terminal(n) == [wins : Seq(Window(n)), LINEobj : Obj \cup {NoObj},
                out : Seq(Request(n) \cup Closing(n)), prev : Prev]

\* The messages to the terminal; n is the last identifier given out.
PadDef(n) == [op : {"PADDEF"}, obj : Obj, oid : 1 .. n]
Attribute == [op : {"ATTRIBUTE"}, obj : Obj, attributes : SUBSET Options]
FullLine == [op : {"LINE"}, obj : Obj, key : Key, attributes : LineAttributes, text : Text]
NextLine == [op : {"NEXTLINE"}, text : Text]
RemoveLine == [op : {"REMOVELINE"}, obj : Obj, key : Key]
Clear == [op : {"CLEAR"}, obj : Obj]
Limit == [op : {"LINES"}, obj : Obj, n : Key]
Creation == [op : {"CREATELINE"}, obj : Obj, lo : Key, hi : Key]
Gap == [op : {"MAKEGAP"}, obj : Obj, key : Key, gap : {1}]
Deletion == [op : {"DELETE"}, obj : Obj]

Message(n) ==
  PadDef(n) \cup Attribute \cup FullLine \cup NextLine \cup RemoveLine
    \cup Clear \cup Limit \cup Creation \cup Gap \cup Deletion

Library(n) == [prev : Prev, prevpad : Obj \cup {Unset, Freed}, toTerm : Seq(Message(n))]

Pads == [kind : {NoKind} \cup AllKinds, lines : 0 .. MaxKey, made : SUBSET Key]

TypesOK(pads, ids, n, h) ==
  /\ n \in Cardinality(Obj) .. MaxUniq
  /\ ids \in [Obj -> 1 .. n]
  /\ pads \in [Obj -> Pads]
  /\ h \in Library(n)

-----------------------------------------------------------------------------
(* The terminal. *)

AsSet(ls) == {ls[j] : j \in 1 .. Len(ls)}

Sorted(ls) == \A i, j \in 1 .. Len(ls) : i < j => ls[i].key < ls[j].key

\* No line of such a window waits for its text.
Plain(w) == w.max = 0 /\ "FAKELINE" \notin w.attributes

WinOK(w) ==
  /\ Sorted(w.lines)
  /\ w.max # 0 => \A l \in AsSet(w.lines) : l.key <= w.max
  /\ Plain(w) => \A l \in AsSet(w.lines) : l.text # TILDE

OneEach(wins) == \A i, j \in 1 .. Len(wins) : wins[i].object = wins[j].object => i = j

TermOK(u, n) ==
  /\ u \in Terminal(n)
  /\ OneEach(u.wins)
  /\ \A i \in 1 .. Len(u.wins) : WinOK(u.wins[i])

HasWin(u, o) == \E i \in 1 .. Len(u.wins) : u.wins[i].object = o

NoWin == [object |-> NoObj, oid |-> 0, attributes |-> {}, max |-> 0, lines |-> <<>>]

\* The window of an object.
Win(u, o) == IF HasWin(u, o) THEN u.wins[ObjToPad(u, o)] ELSE NoWin

\* The lines that have their text, the keys of those that have not, and of
\* those among them that are taken for requested.
Reals(w) == {l \in AsSet(w.lines) : l.text # TILDE}
Tildes(w) == {k \in Key : \E l \in AsSet(w.lines) : l.key = k /\ l.text = TILDE}
AskedOf(w) == {k \in Key : Dummy(k, {}) \in AsSet(w.lines)}

\* The object whose window a message is for.
Target(u, m) == IF m.op = "NEXTLINE" THEN u.LINEobj ELSE m.obj

\* What message m needs of the window it is for; ids are the identifiers
\* of the objects.
FitsWin(w, m, ids) ==
  /\ m.op = "PADDEF" => w = NoWin
  /\ m.op = "ATTRIBUTE" => w # NoWin /\ w.attributes = {} /\ w.max = 0 /\ w.lines = <<>>
  /\ m.op = "LINES" /\ w # NoWin => w.max # 0 \/ (Plain(w) /\ w.lines = <<>>)
  /\ m.op = "CREATELINE" => w # NoWin /\ "USERCLOSE" \notin w.attributes
  /\ m.op = "MAKEGAP" => /\ w # NoWin /\ "USERCLOSE" \notin w.attributes /\ Plain(w)
                         /\ \A l \in AsSet(w.lines) : l.key < MaxKey
  /\ m.op = "DELETE" => w.oid # ids[m.obj]

Fits(u, m, ids) ==
  /\ m.op = "NEXTLINE" => u.prev.key < MaxKey
  /\ FitsWin(Win(u, Target(u, m)), m, ids)

-----------------------------------------------------------------------------
(* The inductive invariant. *)

\* The terminal after each of the messages s.
Reading(u, s) == [i \in 0 .. Len(s) |-> DrainedOf(u, SubSeq(s, 1, i))]

PipeOK(u, s, n, ids) ==
  LET r == Reading(u, s)
  IN /\ \A i \in 0 .. Len(s) : TermOK(r[i], n)
     /\ \A i \in 1 .. Len(s) : Fits(r[i - 1], s[i], ids)

UserClosed(o, ids) == [op |-> "USERCLOSE", obj |-> o, oid |-> ids[o]]

Pending(o, ids, out) == \E i \in 1 .. Len(out) : out[i] = UserClosed(o, ids)

\* A window is the one that a Pad is about.
Shows(w, p) ==
  /\ w.max = p.lines
  /\ w.attributes \ {"FAKELINE"} = p.kind.attributes
  /\ p.kind.use # "create" => "FAKELINE" \notin w.attributes
  /\ p.kind.use = "create" => Tildes(w) \subseteq p.made

\* The library and the terminal that has read all are in agreement, about
\* the line inserted last,
PrevOK(h, D) ==
  /\ D.prev = h.prev
  /\ ~ Reuses /\ h.prevpad \in Obj => D.LINEobj = h.prevpad

\* and about the window of an object, w.
IsKind(p, o) == p.kind \in Kinds[o] /\ (p.kind.use = "lines" <=> p.lines > 0)

PadOK(p, w, o, ids, out) ==
  /\ p = NoPad => w = NoWin
  /\ p # NoPad => IsKind(p, o)
  /\ p # NoPad /\ w = NoWin => Pending(o, ids, out) /\ "USERCLOSE" \in p.kind.attributes
  /\ p # NoPad /\ w # NoWin => w.oid = ids[o] /\ Shows(w, p)

\* What the terminal sent is for the Pad there is or will be dropped; no
\* window is heard of after it was closed.
OutOK(pads, ids, out, D) ==
  \A i \in 1 .. Len(out) :
    out[i].oid = ids[out[i].obj] =>
      /\ pads[out[i].obj] # NoPad
      /\ out[i].op = "USERCLOSE" =>
           /\ Win(D, out[i].obj) = NoWin
           /\ \A j \in i + 1 .. Len(out) :
                ~ (out[j].obj = out[i].obj /\ out[j].oid = out[i].oid)

\* The request of line k is on its way.
Requested(o, k, ids, out) ==
  \E i \in 1 .. Len(out) :
    out[i].op = "LINEREQ" /\ out[i].obj = o /\ out[i].oid = ids[o] /\ k \in out[i].lo .. out[i].hi

AskedOK(ids, out, D) == \A o \in Obj : \A k \in AskedOf(Win(D, o)) : Requested(o, k, ids, out)

Agree(pads, ids, h, out, D) ==
  /\ PrevOK(h, D)
  /\ \A o \in Obj : PadOK(pads[o], Win(D, o), o, ids, out)
  /\ OutOK(pads, ids, out, D)
  /\ ~ Reuses => AskedOK(ids, out, D)

Inv(pads, ids, n, h, u) ==
  /\ TypesOK(pads, ids, n, h)
  /\ PipeOK(u, h.toTerm, n, ids)
  /\ Agree(pads, ids, h, u.out, DrainedOf(u, h.toTerm))

PInv == Inv(pad, oid, uniq, lib, t)

-----------------------------------------------------------------------------
(* Induction, with sets for predicates. *)

\* A set of natural numbers has a least one.
LEMMA Least ==
  ASSUME NEW T, T \subseteq Nat, T # {}
  PROVE  \E m \in T : \A n \in T : m <= n
<1> DEFINE R == OpToRel(<, Nat)
<1>1. IsWellFoundedOn(R, Nat)
  BY NatLessThanWellFounded, Zenon
<1>2. \A x, y \in Nat : <<y, x>> \in R <=> y < x
  BY DEF OpToRel
<1> HIDE DEF R
<1>3. PICK m \in T : \A y \in T : <<y, m>> \notin R
  BY <1>1, WFMin, Zenon
<1>4. ASSUME NEW n \in T PROVE m <= n
  <2>1. n \in Nat /\ m \in Nat /\ ~ (n < m)
    BY <1>2, <1>3, Zenon
  <2>2. QED BY <2>1
<1>5. QED
  BY <1>4, Zenon

\* Induction over the natural numbers.
LEMMA Induct ==
  ASSUME NEW T, 0 \in T, \A k \in Nat : k \in T => k + 1 \in T
  PROVE  Nat \subseteq T
<1> SUFFICES ASSUME Nat \ T # {} PROVE FALSE
  OBVIOUS
<1>1. PICK m \in Nat \ T : \A n \in Nat \ T : m <= n
  BY Least
<1>2. m - 1 \in Nat /\ ~ (m <= m - 1)
  BY <1>1
<1>3. m - 1 \in T
  BY <1>1, <1>2, Zenon
<1>4. m \in T
  <2>1. (m - 1) + 1 = m
    BY <1>1
  <2>2. QED BY <1>2, <1>3, <2>1, Zenon
<1>5. QED BY <1>1, <1>4

\* Of a range of natural numbers, those not above n.
LEMMA InductTo ==
  ASSUME NEW n \in Nat, NEW T, 0 \in T, \A k \in 0 .. n - 1 : k \in T => k + 1 \in T
  PROVE  n \in T
<1> DEFINE U == { k \in Nat : k <= n => k \in T }
<1>1. 0 \in U
  OBVIOUS
<1>2. \A k \in Nat : k \in U => k + 1 \in U
  OBVIOUS
<1> HIDE DEF U
<1>3. n \in U
  BY <1>1, <1>2, Induct
<1>4. QED BY <1>3 DEF U

\* What Max of a set is.
LEMMA MaxIs ==
  ASSUME NEW T, T \subseteq Int, NEW m \in T, \A x \in T : x <= m
  PROVE  Max(T) = m
<1>1. \A x \in T : m >= x
  OBVIOUS
<1>2. PICK M : M = Max(T)
  OBVIOUS
<1>3. M \in T /\ \A x \in T : M >= x
  BY <1>1, <1>2, Zenon DEF Max
<1>4. M >= m /\ m >= M /\ m \in Int /\ M \in Int
  BY <1>1, <1>3
<1>5. M = m
  BY <1>4
<1>6. QED BY <1>2, <1>5, Zenon

\* A set of natural numbers that has a bound has a greatest one.
LEMMA MaxExists ==
  ASSUME NEW n \in Nat, NEW T, T \subseteq 0 .. n, T # {}
  PROVE  Max(T) \in T /\ \A x \in T : x <= Max(T)
<1> DEFINE U == { n - x : x \in T }
<1>1. \A x \in T : x \in 0 .. n /\ n - x \in Nat
  OBVIOUS
<1>2. U \subseteq Nat /\ U # {}
  BY <1>1, Zenon
<1>3. PICK u \in U : \A x \in U : u <= x
  BY <1>2, Least
<1>4. PICK m \in T : u = n - m
  OBVIOUS
<1>5. \A x \in T : n - x \in U
  OBVIOUS
<1> HIDE DEF U
<1>6. \A x \in T : x <= m
  BY <1>3, <1>4, <1>5
<1>7. T \subseteq Int
  OBVIOUS
<1>8. Max(T) = m
  BY <1>6, <1>7, MaxIs
<1>9. QED BY <1>6, <1>8

-----------------------------------------------------------------------------
(* Sequences. *)

\* The elements lo to hi of a sequence, behind a first part or before a
\* last one of another.
LEMMA PartIs ==
  ASSUME NEW S, NEW s, s \in Seq(S), NEW lo, NEW hi, lo \in 1 .. Len(s) + 1, hi \in lo - 1 .. Len(s),
         NEW u, u = SubSeq(s, lo, hi)
  PROVE  u \in Seq(S) /\ Len(u) = 1 + hi - lo /\ \A k \in 1 .. 1 + hi - lo : u[k] = s[lo + k - 1]
<1>1. \A i \in lo .. hi : s[i] \in S
  OBVIOUS
<1>2. u \in Seq(S)
  BY <1>1, SubSeqProperties
<1>3. Len(u) = 1 + hi - lo
  <2>1. Len(u) = IF lo <= hi THEN 1 + hi - lo ELSE 0
    BY <1>1, SubSeqProperties
  <2>2. QED BY <2>1
<1>4. \A k \in 1 .. 1 + hi - lo : u[k] = s[lo + k - 1]
  BY <1>1, SubSeqProperties
<1>5. QED BY <1>2, <1>3, <1>4

\* Sequence u is s with e inserted at i, without element i, with e for it.
Inserted(u, s, i, e) ==
  /\ Len(u) = Len(s) + 1 /\ u[i] = e
  /\ \A k \in 1 .. i - 1 : u[k] = s[k]
  /\ \A k \in i + 1 .. Len(s) + 1 : u[k] = s[k - 1]

Without(u, s, i) ==
  /\ Len(u) = Len(s) - 1
  /\ \A k \in 1 .. i - 1 : u[k] = s[k]
  /\ \A k \in i .. Len(s) - 1 : u[k] = s[k + 1]

With(u, s, i, e) == Len(u) = Len(s) /\ \A k \in 1 .. Len(s) : u[k] = IF k = i THEN e ELSE s[k]

\* What InsertAt, RemoveAt and ReplaceAt do.
LEMMA InsertIs ==
  ASSUME NEW S, NEW s, s \in Seq(S), NEW i, i \in 1 .. Len(s) + 1, NEW e, e \in S,
         NEW u, u = InsertAt(s, i, e)
  PROVE  u \in Seq(S) /\ Inserted(u, s, i, e)
<1>1. PICK n : n = Len(s)
  OBVIOUS
<1>2. PICK a : a = SubSeq(s, 1, i - 1)
  OBVIOUS
<1>3. PICK b : b = SubSeq(s, i, n)
  OBVIOUS
<1>4. a \in Seq(S) /\ Len(a) = i - 1 /\ \A k \in 1 .. i - 1 : a[k] = s[k]
  <2>1. 1 \in 1 .. Len(s) + 1 /\ i - 1 \in 1 - 1 .. Len(s)
    OBVIOUS
  <2>2. PICK h : h = i - 1
    OBVIOUS
  <2>3. a \in Seq(S) /\ Len(a) = 1 + h - 1 /\ \A k \in 1 .. 1 + h - 1 : a[k] = s[1 + k - 1]
    BY <1>2, <2>1, <2>2, PartIs
  <2>4. QED BY <2>2, <2>3
<1>5. b \in Seq(S) /\ Len(b) = n + 1 - i /\ \A k \in 1 .. n + 1 - i : b[k] = s[i + k - 1]
  <2>1. n \in i - 1 .. Len(s)
    BY <1>1
  <2>2. b \in Seq(S) /\ Len(b) = 1 + n - i /\ \A k \in 1 .. 1 + n - i : b[k] = s[i + k - 1]
    BY <1>3, <2>1, PartIs
  <2>3. QED BY <1>1, <2>2
<1>6. u = a \o <<e>> \o b
  BY <1>1, <1>2, <1>3, Zenon DEF InsertAt
<1>7. n \in Nat /\ i \in 1 .. n + 1
  BY <1>1
<1>8. u \in Seq(S) /\ Len(u) = n + 1
  <2>1. <<e>> \in Seq(S) /\ Len(<<e>>) = 1
    OBVIOUS
  <2>2. PICK c : c = a \o <<e>>
    OBVIOUS
  <2>3. c \in Seq(S) /\ Len(c) = i
    BY <1>4, <1>7, <2>1, <2>2, ConcatProperties
  <2>4. u \in Seq(S) /\ Len(u) = Len(c) + Len(b)
    BY <1>5, <1>6, <2>2, <2>3, ConcatProperties
  <2>5. QED BY <1>5, <1>7, <2>3, <2>4
<1>9. u[i] = e
  <2>1. i = Len(a) + 1
    BY <1>4, <1>7
  <2>2. PICK c : c = a \o <<e>>
    OBVIOUS
  <2>3. c \in Seq(S) /\ Len(c) = Len(a) + 1 /\ c[Len(a) + 1] = e
    BY <1>4, <2>2
  <2>4. u = c \o b /\ Len(a) + 1 \in 1 .. Len(c)
    BY <1>4, <1>6, <1>7, <2>2, <2>3
  <2>5. u[Len(a) + 1] = c[Len(a) + 1]
    BY ONLY <1>5, <2>3, <2>4
  <2>6. QED BY <2>1, <2>3, <2>5, Zenon
<1>10. \A k \in 1 .. i - 1 : u[k] = s[k]
  BY <1>4, <1>5, <1>6, <1>7
<1>11. ASSUME NEW k \in i + 1 .. n + 1 PROVE u[k] = s[k - 1]
  <2>1. u[k] = b[k - i]
    <3>1. PICK c : c = a \o <<e>>
      OBVIOUS
    <3>2. c \in Seq(S) /\ Len(c) = i
      BY <1>4, <1>7, <3>1
    <3>3. u = c \o b
      BY <1>6, <3>1, Zenon
    <3>4. Len(c) < k /\ k <= Len(c) + Len(b)
      BY <1>5, <1>7, <3>2
    <3>5. u[k] = b[k - Len(c)]
      BY ONLY <1>5, <1>7, <3>2, <3>3, <3>4
    <3>6. QED BY <3>2, <3>5, Zenon
  <2>2. b[k - i] = s[k - 1]
    BY <1>5, <1>7
  <2>3. QED BY <2>1, <2>2, Zenon
<1>12. QED BY <1>1, <1>8, <1>9, <1>10, <1>11, Zenon DEF Inserted

LEMMA RemoveIs ==
  ASSUME NEW S, NEW s, s \in Seq(S), NEW i, i \in 1 .. Len(s), NEW u, u = RemoveAt(s, i)
  PROVE  u \in Seq(S) /\ Without(u, s, i)
<1>1. PICK n : n = Len(s)
  OBVIOUS
<1>2. PICK a : a = SubSeq(s, 1, i - 1)
  OBVIOUS
<1>3. PICK b : b = SubSeq(s, i + 1, n)
  OBVIOUS
<1>4. a \in Seq(S) /\ Len(a) = i - 1 /\ \A k \in 1 .. i - 1 : a[k] = s[k]
  <2>1. 1 \in 1 .. Len(s) + 1 /\ i - 1 \in 1 - 1 .. Len(s)
    OBVIOUS
  <2>2. PICK h : h = i - 1
    OBVIOUS
  <2>3. a \in Seq(S) /\ Len(a) = 1 + h - 1 /\ \A k \in 1 .. 1 + h - 1 : a[k] = s[1 + k - 1]
    BY <1>2, <2>1, <2>2, PartIs
  <2>4. QED BY <2>2, <2>3
<1>5. b \in Seq(S) /\ Len(b) = n - i /\ \A k \in 1 .. n - i : b[k] = s[i + k]
  <2>1. i + 1 \in 1 .. Len(s) + 1 /\ n \in (i + 1) - 1 .. Len(s)
    BY <1>1
  <2>2. PICK h : h = i + 1
    OBVIOUS
  <2>3. b \in Seq(S) /\ Len(b) = 1 + n - h /\ \A k \in 1 .. 1 + n - h : b[k] = s[h + k - 1]
    BY <1>3, <2>1, <2>2, PartIs
  <2>4. 1 + n - h = n - i /\ \A k \in 1 .. n - i : h + k - 1 = i + k
    BY <1>1, <2>2
  <2>5. QED BY <2>3, <2>4, Zenon
<1>6. u = a \o b
  BY <1>1, <1>2, <1>3, Zenon DEF RemoveAt
<1>7. n \in Nat /\ i \in 1 .. n
  BY <1>1
<1>8. u \in Seq(S) /\ Len(u) = n - 1
  <2>1. u \in Seq(S) /\ Len(u) = Len(a) + Len(b)
    BY <1>4, <1>5, <1>6, ConcatProperties, Zenon
  <2>2. QED BY <1>4, <1>5, <1>7, <2>1
<1>9. \A k \in 1 .. i - 1 : u[k] = s[k]
  BY <1>4, <1>5, <1>6, <1>7
<1>10. ASSUME NEW k \in i .. n - 1 PROVE u[k] = s[k + 1]
  <2>1. u[k] = b[k - i + 1]
    BY <1>4, <1>5, <1>6, <1>7
  <2>2. b[k - i + 1] = s[k + 1]
    <3>1. PICK h : h = k - i + 1
      OBVIOUS
    <3>2. h \in 1 .. n - i /\ i + h = k + 1
      BY <1>7, <3>1
    <3>3. b[h] = s[k + 1]
      BY <1>5, <3>2, Zenon
    <3>4. QED BY <3>1, <3>3, Zenon
  <2>3. QED BY <2>1, <2>2, Zenon
<1>11. QED BY <1>1, <1>8, <1>9, <1>10, Zenon DEF Without

LEMMA ReplaceIs ==
  ASSUME NEW S, NEW s, s \in Seq(S), NEW i, i \in 1 .. Len(s), NEW e, e \in S, NEW u, u = ReplaceAt(s, i, e)
  PROVE  u \in Seq(S) /\ With(u, s, i, e)
<1>1. u = [s EXCEPT ![i] = e]
  BY Zenon DEF ReplaceAt
<1>2. QED BY <1>1 DEF With

-----------------------------------------------------------------------------
(* The lines of a window. *)

\* What the proofs use of the constants.
LEMMA Constants ==
  /\ NoObj \notin Obj /\ Unset \notin Obj /\ Freed \notin Obj /\ TILDE \notin Text
  /\ MaxKey \in Nat \ {0} /\ Screen \in Nat /\ Cushion \in Nat /\ Reuses \in BOOLEAN
  /\ \A n \in 1 .. MaxKey : n \in Nat
BY PadAssumption

LEMMA KeyIs == ASSUME NEW k \in Key PROVE k \in Nat /\ 1 <= k /\ k <= MaxKey
BY Constants DEF Key

\* The parts of a line.
LEMMA LineIs ==
  ASSUME NEW l \in Line
  PROVE  /\ l = [key |-> l.key, text |-> l.text, attributes |-> l.attributes]
         /\ l.key \in Nat /\ l.key \in Key /\ l.text \in Text \cup {TILDE}
         /\ l.text = TILDE => l.attributes = {} \/ l.attributes = {"FAKELINE"}
         /\ l.text # TILDE => l.attributes \in LineAttributes \cup {{}}
BY Constants DEF Line, RealLine, TildeLine, Key

\* KeyAt finds a line of that key, if there is one.
LEMMA KeyAtIs ==
  ASSUME NEW ls \in Seq(Line), NEW k
  PROVE  \/ KeyAt(ls, k) = 0 /\ \A j \in 1 .. Len(ls) : ls[j].key # k
         \/ KeyAt(ls, k) \in 1 .. Len(ls) /\ ls[KeyAt(ls, k)].key = k
<1> DEFINE T == { j \in 1 .. Len(ls) : ls[j].key = k }
<1>1. KeyAt(ls, k) = IF T # {} THEN Max(T) ELSE 0
  BY Zenon DEF KeyAt, SelectLastInSeq
<1>2. CASE T = {}
  <2>1. \A j \in 1 .. Len(ls) : ls[j].key # k
    BY <1>2
  <2>2. QED BY <1>1, <1>2, <2>1, Zenon
<1>3. CASE T # {}
  <2>1. T \subseteq 0 .. Len(ls) /\ Len(ls) \in Nat
    OBVIOUS
  <2>2. Max(T) \in T
    BY <1>3, <2>1, MaxExists, Zenon
  <2>3. KeyAt(ls, k) = Max(T)
    BY <1>1, <1>3, Zenon
  <2>4. KeyAt(ls, k) \in T
    BY <2>2, <2>3, Zenon
  <2>5. QED BY <2>4
<1>4. QED BY <1>2, <1>3, Zenon

\* InsPos is the place of a new line of that key: those before it have at
\* most this key, those from there on a higher one.
LEMMA InsPosIs ==
  ASSUME NEW ls \in Seq(Line), Sorted(ls), NEW k \in Key
  PROVE  /\ InsPos(ls, k) \in 1 .. Len(ls) + 1
         /\ \A j \in 1 .. Len(ls) : ls[j].key <= k <=> j < InsPos(ls, k)
<1> DEFINE T == { j \in 1 .. Len(ls) : ls[j].key <= k }
<1>1. PICK i : i = InsPos(ls, k)
  OBVIOUS
<1>2. i = 1 + (IF T # {} THEN Max(T) ELSE 0)
  BY <1>1, Zenon DEF InsPos, SelectLastInSeq
<1>3. \A j \in 1 .. Len(ls) : ls[j] \in Line /\ ls[j].key \in Nat
  <2>1. \A j \in 1 .. Len(ls) : ls[j] \in Line
    OBVIOUS
  <2>2. QED BY <2>1, LineIs, Zenon
<1>4. k \in Nat /\ Len(ls) \in Nat
  BY Constants DEF Key
<1>5. i \in 1 .. Len(ls) + 1 /\ \A j \in 1 .. Len(ls) : ls[j].key <= k <=> j < i
  <2>1. CASE T = {}
    <3>1. i = 1
      BY <1>2, <2>1
    <3>2. \A j \in 1 .. Len(ls) : ~ (ls[j].key <= k)
      BY <2>1
    <3>3. QED BY <1>4, <3>1, <3>2
  <2>2. CASE T # {}
    <3>1. T \subseteq 0 .. Len(ls)
      OBVIOUS
    <3>2. PICK m : m = Max(T)
      OBVIOUS
    <3>3. m \in T /\ \A j \in T : j <= m
      BY <1>4, <2>2, <3>1, <3>2, MaxExists, Zenon
    <3>4. i = 1 + m
      BY <1>2, <2>2, <3>2, Zenon
    <3>5. m \in 1 .. Len(ls) /\ ls[m].key <= k
      BY <3>3
    <3>6. ASSUME NEW j \in 1 .. Len(ls) PROVE ls[j].key <= k <=> j < i
      <4>1. CASE j <= m
        <5>1. j = m \/ ls[j].key < ls[m].key
          BY <3>5, <4>1 DEF Sorted
        <5>2. ls[j].key \in Nat /\ ls[m].key \in Nat
          BY <1>3, <3>5, Zenon
        <5>3. ls[j].key <= k
          BY <1>4, <3>5, <5>1, <5>2
        <5>4. QED BY <3>4, <3>5, <4>1, <5>3
      <4>2. CASE ~ (j <= m)
        <5>1. j \notin T
          BY <3>3, <4>2, Zenon
        <5>2. ~ (ls[j].key <= k)
          BY <5>1
        <5>3. ~ (j < i)
          BY <3>4, <3>5, <4>2
        <5>4. QED BY <5>2, <5>3
      <4>3. QED BY <4>1, <4>2
    <3>7. i \in 1 .. Len(ls) + 1
      BY <1>4, <3>4, <3>5
    <3>8. QED BY <3>6, <3>7, Zenon
  <2>3. QED BY <2>1, <2>2, Zenon
<1>6. QED BY <1>1, <1>5, Zenon

\* The lines r are those of ls, but the one of key k, and those in N.
Changed(r, ls, k, N) ==
  /\ r \in Seq(Line) /\ Sorted(r)
  /\ \A j \in 1 .. Len(r) :
       r[j] \in N \/ (r[j].key # k /\ \E i \in 1 .. Len(ls) : r[j] = ls[i])
  /\ \A l \in N : \E j \in 1 .. Len(r) : r[j] = l
  /\ \A i \in 1 .. Len(ls) : ls[i].key # k => \E j \in 1 .. Len(r) : r[j] = ls[i]

LEMMA ChangedSet ==
  ASSUME NEW r, NEW ls, NEW k, NEW N, Changed(r, ls, k, N)
  PROVE  AsSet(r) = {l \in AsSet(ls) : l.key # k} \cup N
<1>1. \A l : l \in AsSet(ls) <=> \E i \in 1 .. Len(ls) : l = ls[i]
  BY DEF AsSet
<1>2. \A l : l \in AsSet(r) <=> \E i \in 1 .. Len(r) : l = r[i]
  BY DEF AsSet
<1>3. ASSUME NEW l \in AsSet(r) PROVE l \in N \/ (l \in AsSet(ls) /\ l.key # k)
  <2>1. PICK j \in 1 .. Len(r) : r[j] = l
    BY <1>2
  <2>2. r[j] \in N \/ (r[j].key # k /\ \E i \in 1 .. Len(ls) : r[j] = ls[i])
    BY Zenon DEF Changed
  <2>3. l \in N \/ (l.key # k /\ \E i \in 1 .. Len(ls) : l = ls[i])
    BY <2>1, <2>2, Zenon
  <2>4. QED BY <1>1, <2>3, Zenon
<1>4. \A l \in N : l \in AsSet(r)
  BY <1>2, Zenon DEF Changed
<1>5. ASSUME NEW l \in AsSet(ls), l.key # k PROVE l \in AsSet(r)
  <2>1. PICK i \in 1 .. Len(ls) : l = ls[i]
    BY <1>1
  <2>2. ls[i].key # k
    BY <1>5, <2>1, Zenon
  <2>3. PICK j \in 1 .. Len(r) : r[j] = ls[i]
    BY <2>2, Zenon DEF Changed
  <2>4. l = r[j]
    BY <2>1, <2>3
  <2>5. QED BY <1>2, <2>4, Zenon
<1>6. QED BY <1>3, <1>4, <1>5

LEMMA SortedIs ==
  ASSUME NEW ls, NEW i, NEW j, Sorted(ls), i \in 1 .. Len(ls), j \in 1 .. Len(ls), i < j
  PROVE  ls[i].key < ls[j].key
BY Zenon DEF Sorted

\* A line put in place of one of its key.
LEMMA Replaced ==
  ASSUME NEW ls \in Seq(Line), Sorted(ls), NEW l \in Line, NEW i \in 1 .. Len(ls), ls[i].key = l.key
  PROVE  Changed(ReplaceAt(ls, i, l), ls, l.key, {l})
<1>1. PICK r : r = ReplaceAt(ls, i, l)
  OBVIOUS
<1>2. r \in Seq(Line) /\ Len(r) = Len(ls) /\ \A k \in 1 .. Len(ls) : r[k] = IF k = i THEN l ELSE ls[k]
  <2>1. r \in Seq(Line) /\ With(r, ls, i, l)
    BY <1>1, ReplaceIs
  <2>2. QED BY <2>1, Zenon DEF With
<1>3. \A j \in 1 .. Len(ls) : ls[j].key \in Nat
  <2>1. \A j \in 1 .. Len(ls) : ls[j] \in Line
    OBVIOUS
  <2>2. QED BY <2>1, LineIs, Zenon
<1>4. \A k \in 1 .. Len(ls) : r[k].key = ls[k].key
  BY <1>2, Zenon
<1>5. Sorted(r)
  BY <1>2, <1>4 DEF Sorted
<1>6. ASSUME NEW j \in 1 .. Len(r) PROVE r[j] \in {l} \/ (r[j].key # l.key /\ \E h \in 1 .. Len(ls) : r[j] = ls[h])
  <2>1. CASE j = i
    BY <1>2, <2>1
  <2>2. CASE j # i
    <3>1. r[j] = ls[j] /\ j \in 1 .. Len(ls)
      BY <1>2, <2>2
    <3>2. i < j \/ j < i
      BY <2>2, <3>1
    <3>3. ls[i].key < ls[j].key \/ ls[j].key < ls[i].key
      BY <3>1, <3>2, SortedIs, Zenon
    <3>4. ls[j].key # l.key
      BY <1>3, <3>1, <3>3
    <3>5. QED BY <3>1, <3>4, Zenon
  <2>3. QED BY <2>1, <2>2, Zenon
<1>7. ASSUME NEW h \in 1 .. Len(ls), ls[h].key # l.key PROVE \E j \in 1 .. Len(r) : r[j] = ls[h]
  <2>1. h # i
    BY <1>7
  <2>2. QED BY <1>2, <2>1, Zenon
<1>8. r[i] = l /\ i \in 1 .. Len(r)
  BY <1>2, Zenon
<1>9. QED BY <1>1, <1>2, <1>5, <1>6, <1>7, <1>8, Zenon DEF Changed

\* A line of a new key is inserted in the place of its key.
LEMMA Above ==
  ASSUME NEW ls \in Seq(Line), Sorted(ls), NEW l \in Line, \A j \in 1 .. Len(ls) : ls[j].key # l.key
  PROVE  Changed(InsAbove(ls, l), ls, l.key, {l})
<1>1. l.key \in Key /\ l.key \in Nat
  BY LineIs
<1>2. PICK i : i = InsPos(ls, l.key)
  OBVIOUS
<1>3. i \in 1 .. Len(ls) + 1 /\ \A j \in 1 .. Len(ls) : ls[j].key <= l.key <=> j < i
  BY <1>1, <1>2, InsPosIs, Zenon
<1>4. PICK r : r = InsertAt(ls, i, l)
  OBVIOUS
<1>5. /\ r \in Seq(Line) /\ Len(r) = Len(ls) + 1 /\ r[i] = l
      /\ \A k \in 1 .. i - 1 : r[k] = ls[k]
      /\ \A k \in i + 1 .. Len(ls) + 1 : r[k] = ls[k - 1]
  <2>1. r \in Seq(Line) /\ Inserted(r, ls, i, l)
    BY <1>3, <1>4, InsertIs
  <2>2. QED BY <2>1, Zenon DEF Inserted
<1>6. \A j \in 1 .. Len(ls) : ls[j].key \in Nat
  <2>1. \A j \in 1 .. Len(ls) : ls[j] \in Line
    OBVIOUS
  <2>2. QED BY <2>1, LineIs, Zenon
<1>7. \A k \in 1 .. i - 1 : k \in 1 .. Len(ls) /\ r[k].key < l.key
  <2>1. ASSUME NEW k \in 1 .. i - 1 PROVE k \in 1 .. Len(ls) /\ r[k].key < l.key
    <3>1. k \in 1 .. Len(ls) /\ k < i
      BY <1>3
    <3>2. ls[k].key <= l.key /\ ls[k].key # l.key /\ ls[k].key \in Nat
      BY <1>3, <1>6, <3>1, Zenon
    <3>3. ls[k].key < l.key
      BY <1>1, <3>2
    <3>4. QED BY <1>5, <3>1, <3>3, Zenon
  <2>2. QED BY <2>1, Zenon
<1>8. \A k \in i + 1 .. Len(ls) + 1 : k - 1 \in 1 .. Len(ls) /\ l.key < r[k].key
  <2>1. ASSUME NEW k \in i + 1 .. Len(ls) + 1 PROVE k - 1 \in 1 .. Len(ls) /\ l.key < r[k].key
    <3>1. k - 1 \in 1 .. Len(ls) /\ ~ (k - 1 < i)
      BY <1>3
    <3>2. ~ (ls[k - 1].key <= l.key) /\ ls[k - 1].key \in Nat
      BY <1>3, <1>6, <3>1, Zenon
    <3>3. l.key < ls[k - 1].key
      BY <1>1, <3>2
    <3>4. QED BY <1>5, <3>1, <3>3, Zenon
  <2>2. QED BY <2>1, Zenon
<1>9. ASSUME NEW a \in 1 .. Len(r), NEW b \in 1 .. Len(r), a < b PROVE r[a].key < r[b].key
  <2>1. a \in Nat /\ b \in Nat /\ i \in Nat /\ Len(r) = Len(ls) + 1 /\ Len(ls) \in Nat
    BY <1>3, <1>5
  <2>2. CASE b < i
    <3>1. a \in 1 .. Len(ls) /\ b \in 1 .. Len(ls) /\ a \in 1 .. i - 1 /\ b \in 1 .. i - 1
      BY <1>3, <1>9, <2>1, <2>2
    <3>2. ls[a].key < ls[b].key
      BY <1>9, <3>1, SortedIs, Zenon
    <3>3. QED BY <1>5, <3>1, <3>2, Zenon
  <2>3. CASE b = i
    <3>1. a \in 1 .. i - 1
      BY <1>9, <2>1, <2>3
    <3>2. QED BY <1>5, <1>7, <2>3, <3>1, Zenon
  <2>4. CASE i < b /\ a = i
    <3>1. b \in i + 1 .. Len(ls) + 1
      BY <2>1, <2>4
    <3>2. QED BY <1>5, <1>8, <2>4, <3>1, Zenon
  <2>5. CASE i < b /\ a < i
    <3>1. a \in 1 .. i - 1 /\ b \in i + 1 .. Len(ls) + 1
      BY <2>1, <2>5
    <3>2. r[a].key < l.key /\ l.key < r[b].key /\ r[a] = ls[a] /\ r[b] = ls[b - 1]
      BY <1>5, <1>7, <1>8, <3>1, Zenon
    <3>3. ls[a].key \in Nat /\ ls[b - 1].key \in Nat
      BY <1>6, <1>7, <1>8, <3>1, Zenon
    <3>4. QED BY <1>1, <3>2, <3>3
  <2>6. CASE i < a
    <3>1. a \in i + 1 .. Len(ls) + 1 /\ b \in i + 1 .. Len(ls) + 1
      BY <1>9, <2>1, <2>6
    <3>2. a - 1 \in 1 .. Len(ls) /\ b - 1 \in 1 .. Len(ls) /\ a - 1 < b - 1
      BY <1>9, <1>3, <2>1, <3>1
    <3>3. ls[a - 1].key < ls[b - 1].key
      BY <3>2, SortedIs, Zenon
    <3>4. QED BY <1>5, <3>1, <3>3, Zenon
  <2>7. b < i \/ b = i \/ (i < b /\ a = i) \/ (i < b /\ a < i) \/ i < a
    BY <2>1
  <2>8. QED BY <2>2, <2>3, <2>4, <2>5, <2>6, <2>7, Zenon
<1>10. Sorted(r)
  BY <1>9, Zenon DEF Sorted
<1>11. ASSUME NEW j \in 1 .. Len(r) PROVE r[j] \in {l} \/ (r[j].key # l.key /\ \E h \in 1 .. Len(ls) : r[j] = ls[h])
  <2>1. CASE j = i
    BY <1>5, <2>1
  <2>2. CASE j \in 1 .. i - 1
    <3>1. r[j] = ls[j] /\ j \in 1 .. Len(ls)
      BY <1>5, <1>7, <2>2, Zenon
    <3>2. QED BY <3>1, Zenon
  <2>3. CASE j \in i + 1 .. Len(ls) + 1
    <3>1. r[j] = ls[j - 1] /\ j - 1 \in 1 .. Len(ls)
      BY <1>5, <1>8, <2>3, Zenon
    <3>2. QED BY <3>1, Zenon
  <2>4. j = i \/ j \in 1 .. i - 1 \/ j \in i + 1 .. Len(ls) + 1
    BY <1>3, <1>5
  <2>5. QED BY <2>1, <2>2, <2>3, <2>4, Zenon
<1>12. InsAbove(ls, l) = r
  BY <1>2, <1>4, Zenon DEF InsAbove
<1>13. r \in Seq(Line)
  BY <1>5, Zenon
<1>14. i \in 1 .. Len(r)
  BY <1>3, <1>5
<1>15. ASSUME NEW h \in 1 .. Len(ls) PROVE \E j \in 1 .. Len(r) : r[j] = ls[h]
  <2>1. CASE h < i
    <3>1. h \in 1 .. i - 1 /\ h \in 1 .. Len(r)
      BY <1>3, <1>5, <2>1
    <3>2. QED BY <1>5, <3>1, Zenon
  <2>2. CASE ~ (h < i)
    <3>1. PICK j : j = h + 1
      OBVIOUS
    <3>2. j \in i + 1 .. Len(ls) + 1 /\ j \in 1 .. Len(r) /\ j - 1 = h
      BY <1>3, <1>5, <2>2, <3>1
    <3>3. QED BY <1>5, <3>2, Zenon
  <2>3. QED BY <2>1, <2>2, Zenon
<1>16. Changed(r, ls, l.key, {l})
  BY <1>5, <1>10, <1>11, <1>13, <1>14, <1>15, Zenon DEF Changed
<1>17. QED BY <1>12, <1>16, Zenon

\* A line removed.
LEMMA Removed ==
  ASSUME NEW ls \in Seq(Line), Sorted(ls), NEW i \in 1 .. Len(ls)
  PROVE  Changed(RemoveAt(ls, i), ls, ls[i].key, {})
<1>1. PICK r : r = RemoveAt(ls, i)
  OBVIOUS
<1>2. /\ r \in Seq(Line) /\ Len(r) = Len(ls) - 1
      /\ \A k \in 1 .. i - 1 : r[k] = ls[k]
      /\ \A k \in i .. Len(ls) - 1 : r[k] = ls[k + 1]
  <2>1. r \in Seq(Line) /\ Without(r, ls, i)
    BY <1>1, RemoveIs
  <2>2. QED BY <2>1, Zenon DEF Without
<1>3. \A j \in 1 .. Len(ls) : ls[j].key \in Nat
  <2>1. \A j \in 1 .. Len(ls) : ls[j] \in Line
    OBVIOUS
  <2>2. QED BY <2>1, LineIs, Zenon
<1>4. PICK p : p = [k \in 1 .. Len(r) |-> IF k < i THEN k ELSE k + 1]
  OBVIOUS
<1>5. \A k \in 1 .. Len(r) : p[k] \in 1 .. Len(ls) /\ p[k] # i /\ r[k] = ls[p[k]]
  <2>1. ASSUME NEW k \in 1 .. Len(r) PROVE p[k] \in 1 .. Len(ls) /\ p[k] # i /\ r[k] = ls[p[k]]
    <3>1. CASE k < i
      <4>1. p[k] = k /\ k \in 1 .. i - 1 /\ k \in 1 .. Len(ls)
        BY <1>4, <3>1
      <4>2. k # i
        BY <3>1
      <4>3. QED BY <1>2, <4>1, <4>2, Zenon
    <3>2. CASE ~ (k < i)
      <4>1. p[k] = k + 1 /\ k \in i .. Len(ls) - 1 /\ k + 1 \in 1 .. Len(ls) /\ k + 1 # i
        BY <1>2, <1>4, <3>2
      <4>2. QED BY <1>2, <4>1, Zenon
    <3>3. QED BY <3>1, <3>2, Zenon
  <2>2. QED BY <2>1, Zenon
<1>6. ASSUME NEW a \in 1 .. Len(r), NEW b \in 1 .. Len(r), a < b PROVE r[a].key < r[b].key
  <2>1. p[a] < p[b]
    BY <1>4, <1>6
  <2>2. p[a] \in 1 .. Len(ls) /\ p[b] \in 1 .. Len(ls)
    BY <1>5, Zenon
  <2>3. ls[p[a]].key < ls[p[b]].key
    BY <2>1, <2>2, SortedIs, Zenon
  <2>4. QED BY <1>5, <2>3, Zenon
<1>7. Sorted(r)
  BY <1>6, Zenon DEF Sorted
<1>8. ASSUME NEW j \in 1 .. Len(r) PROVE r[j].key # ls[i].key /\ \E h \in 1 .. Len(ls) : r[j] = ls[h]
  <2>1. PICK h \in 1 .. Len(ls) : h # i /\ r[j] = ls[h]
    BY <1>5, Zenon
  <2>2. i < h \/ h < i
    BY <2>1
  <2>3. ls[i].key < ls[h].key \/ ls[h].key < ls[i].key
    BY <2>2, SortedIs, Zenon
  <2>4. ls[h].key # ls[i].key
    BY <1>3, <2>3
  <2>5. QED BY <2>1, <2>4, Zenon
<1>9. ASSUME NEW h \in 1 .. Len(ls), ls[h].key # ls[i].key PROVE \E j \in 1 .. Len(r) : r[j] = ls[h]
  <2>1. h # i
    BY <1>9
  <2>2. CASE h < i
    <3>1. h \in 1 .. i - 1 /\ h \in 1 .. Len(r)
      BY <1>2, <2>2
    <3>2. QED BY <1>2, <3>1, Zenon
  <2>3. CASE i < h
    <3>1. PICK j : j = h - 1
      OBVIOUS
    <3>2. j \in i .. Len(ls) - 1 /\ j \in 1 .. Len(r) /\ j + 1 = h
      BY <1>2, <2>3, <3>1
    <3>3. QED BY <1>2, <3>2, Zenon
  <2>4. h < i \/ i < h
    BY <2>1
  <2>5. QED BY <2>2, <2>3, <2>4, Zenon
<1>10. \A l \in {} : FALSE
  OBVIOUS
<1>11. QED BY <1>1, <1>2, <1>7, <1>8, <1>9, <1>10, Zenon DEF Changed

-----------------------------------------------------------------------------
(* The loops: the terminal's over the messages, those of CreateLine,       *)
(* CRequestLines (for the keys in c), DeletePad and RequestLines (for the  *)
(* lines near c), and TermServe's over the lines of a request.             *)

Turn(loop, c, m, e) ==
  CASE loop = "PadOp" -> PadOp(m, e)
    [] loop = "FakeLine" -> FakeLine(m, e)
    [] loop = "Run" -> (IF e \in c THEN Run(m, e) ELSE m)
    [] loop = "DelLineOf" -> DelLineOf(m, e)
    [] loop = "near" -> (IF e.key + Cushion >= c[1] /\ e.key <= c[2] + Cushion THEN Append(m, e) ELSE m)
    [] loop = "waiting" -> (IF e \in c THEN InsAbove(m, Dummy(e, {})) ELSE m)
    [] loop = "answer" -> (IF e \in c.keys THEN SendLine(m, c.obj, e, c.text, c.attributes) ELSE m)

\* h is the recursive function of FoldLeft.
Folding(h, loop, c, m, s, n) ==
  h = [x \in SUBSET (1 .. n) |-> IF x = {} THEN m ELSE Turn(loop, c, h[x \ {Max(x)}], s[Max(x)])]

\* The function that FoldLeft chooses exists, so that choosing it defines it.
LEMMA FoldingExists ==
  ASSUME NEW loop, NEW c, NEW m, NEW s, NEW n \in Nat
  PROVE  \E h : Folding(h, loop, c, m, s, n)
<1> DEFINE T == { k \in Nat : \E h : Folding(h, loop, c, m, s, k) }
<1>1. 0 \in T
  <2> DEFINE h == [x \in {{}} |-> m]
  <2>1. SUBSET (1 .. 0) = {{}}
    OBVIOUS
  <2>2. h = [x \in SUBSET (1 .. 0) |-> IF x = {} THEN m ELSE Turn(loop, c, h[x \ {Max(x)}], s[Max(x)])]
    BY <2>1
  <2>3. Folding(h, loop, c, m, s, 0)
    BY <2>2, Zenon DEF Folding
  <2>4. QED BY <2>3
<1>2. ASSUME NEW k \in Nat, NEW h, Folding(h, loop, c, m, s, k)
      PROVE  \E g : Folding(g, loop, c, m, s, k + 1)
  <2> DEFINE g == [x \in SUBSET (1 .. k + 1) |->
                     IF k + 1 \in x THEN Turn(loop, c, h[x \ {k + 1}], s[k + 1]) ELSE h[x]]
  <2>1. ASSUME NEW x \in SUBSET (1 .. k + 1)
        PROVE  g[x] = IF x = {} THEN m ELSE Turn(loop, c, g[x \ {Max(x)}], s[Max(x)])
    <3>1. CASE k + 1 \in x
      <4>1. x \subseteq Int /\ \A y \in x : y <= k + 1
        OBVIOUS
      <4>2. Max(x) = k + 1
        BY <3>1, <4>1, MaxIs
      <4>3. x \ {k + 1} \in SUBSET (1 .. k + 1) /\ k + 1 \notin x \ {k + 1}
        OBVIOUS
      <4>4. g[x \ {k + 1}] = h[x \ {k + 1}]
        BY <4>3, Zenon
      <4>5. g[x] = Turn(loop, c, h[x \ {k + 1}], s[k + 1])
        BY <3>1, Zenon
      <4>6. QED BY <3>1, <4>2, <4>4, <4>5, Zenon
    <3>2. CASE k + 1 \notin x
      <4>1. x \in SUBSET (1 .. k)
        BY <3>2
      <4>2. h[x] = IF x = {} THEN m ELSE Turn(loop, c, h[x \ {Max(x)}], s[Max(x)])
        BY <1>2, <4>1, Zenon DEF Folding
      <4>3. x \ {Max(x)} \in SUBSET (1 .. k + 1) /\ k + 1 \notin x \ {Max(x)}
        BY <3>2
      <4>4. g[x \ {Max(x)}] = h[x \ {Max(x)}]
        BY <4>3, Zenon
      <4>5. g[x] = h[x]
        BY <3>2, Zenon
      <4>6. QED BY <4>2, <4>4, <4>5, Zenon
    <3>3. QED BY <3>1, <3>2, Zenon
  <2>2. g = [x \in SUBSET (1 .. k + 1) |-> g[x]]
    OBVIOUS
  <2> HIDE DEF g
  <2>3. [x \in SUBSET (1 .. k + 1) |-> g[x]]
          = [x \in SUBSET (1 .. k + 1) |-> IF x = {} THEN m ELSE Turn(loop, c, g[x \ {Max(x)}], s[Max(x)])]
    BY <2>1, Zenon
  <2>4. Folding(g, loop, c, m, s, k + 1)
    BY <2>2, <2>3, Zenon DEF Folding
  <2>5. QED BY <2>4, Zenon
<1>3. \A k \in Nat : k \in T => k + 1 \in T
  BY <1>2
<1> HIDE DEF T
<1>4. n \in T
  BY <1>1, <1>3, Induct
<1>5. QED BY <1>4 DEF T

\* g tells where the loop is after each turn.
Turns(g, loop, c, m, s) ==
  /\ g[0] = m
  /\ \A i \in 1 .. Len(s) : g[i] = Turn(loop, c, g[i - 1], s[i])

\* Its values on the ranges 1 .. i are the turns of the loop.
LEMMA FoldingTurns ==
  ASSUME NEW loop, NEW c, NEW m, NEW s, Len(s) \in Nat, NEW h, Folding(h, loop, c, m, s, Len(s))
  PROVE  \E g : Turns(g, loop, c, m, s) /\ g[Len(s)] = h[1 .. Len(s)]
<1> DEFINE n == Len(s)
           g == [i \in 0 .. n |-> h[1 .. i]]
<1>1. g[0] = m
  <2>1. 1 .. 0 = {} /\ {} \in SUBSET (1 .. n) /\ 0 \in 0 .. n
    OBVIOUS
  <2>2. h[{}] = m
    BY <2>1, Zenon DEF Folding
  <2>3. g[0] = h[1 .. 0]
    BY <2>1, Zenon
  <2>4. QED BY <2>1, <2>2, <2>3, Zenon
<1>2. ASSUME NEW i \in 1 .. n PROVE g[i] = Turn(loop, c, g[i - 1], s[i])
  <2>1. 1 .. i \in SUBSET (1 .. n) /\ 1 .. i # {} /\ i \in 1 .. i /\ 1 .. i \subseteq Int
    OBVIOUS
  <2>2. \A y \in 1 .. i : y <= i
    OBVIOUS
  <2>3. Max(1 .. i) = i
    BY <2>1, <2>2, MaxIs
  <2>4. (1 .. i) \ {i} = 1 .. i - 1
    OBVIOUS
  <2>5. h[1 .. i] = Turn(loop, c, h[1 .. i - 1], s[i])
    <3>1. h[1 .. i] = IF 1 .. i = {} THEN m ELSE Turn(loop, c, h[(1 .. i) \ {Max(1 .. i)}], s[Max(1 .. i)])
      BY <2>1, Zenon DEF Folding
    <3>2. QED BY <2>1, <2>3, <2>4, <3>1, Zenon
  <2>6. i \in 0 .. n /\ i - 1 \in 0 .. n
    OBVIOUS
  <2>7. g[i] = h[1 .. i] /\ g[i - 1] = h[1 .. i - 1]
    BY <2>6, Zenon
  <2>8. QED BY <2>5, <2>7, Zenon
<1>3. g[n] = h[1 .. n]
  <2>1. n \in 0 .. n
    OBVIOUS
  <2>2. QED BY <2>1, Zenon
<1> HIDE DEF g
<1>4. QED BY <1>1, <1>2, <1>3, Zenon DEF Turns

\* Each of the loops, turn by turn.
LEMMA PadOpTurns ==
  ASSUME NEW m, NEW s, Len(s) \in Nat, DOMAIN s = 1 .. Len(s)
  PROVE  \E g : Turns(g, "PadOp", {}, m, s) /\ FoldLeft(PadOp, m, s) = g[Len(s)]
<1>1. PICK h : Folding(h, "PadOp", {}, m, s, Len(s)) /\ FoldLeft(PadOp, m, s) = h[1 .. Len(s)]
  <2> DEFINE h == CHOOSE h : Folding(h, "PadOp", {}, m, s, Len(s))
  <2>1. Folding(h, "PadOp", {}, m, s, Len(s))
    BY FoldingExists, Zenon
  <2>2. FoldLeft(PadOp, m, s) = h[1 .. Len(s)]
    BY Zenon DEF FoldLeft, MapThenFoldSet, Folding, Turn
  <2>3. QED BY <2>1, <2>2, Zenon
<1>2. PICK g : Turns(g, "PadOp", {}, m, s) /\ g[Len(s)] = h[1 .. Len(s)]
  BY <1>1, FoldingTurns
<1>3. QED BY <1>1, <1>2, Zenon

\* The turns of CreateLine, DeletePad, TermServe and CRequestLines.
LEMMA FakeLineTurns ==
  ASSUME NEW m, NEW s, Len(s) \in Nat, DOMAIN s = 1 .. Len(s)
  PROVE  \E g : Turns(g, "FakeLine", {}, m, s) /\ FoldLeft(FakeLine, m, s) = g[Len(s)]
<1>1. PICK h : Folding(h, "FakeLine", {}, m, s, Len(s)) /\ FoldLeft(FakeLine, m, s) = h[1 .. Len(s)]
  <2> DEFINE h == CHOOSE h : Folding(h, "FakeLine", {}, m, s, Len(s))
  <2>1. Folding(h, "FakeLine", {}, m, s, Len(s))
    BY FoldingExists, Zenon
  <2>2. FoldLeft(FakeLine, m, s) = h[1 .. Len(s)]
    BY Zenon DEF FoldLeft, MapThenFoldSet, Folding, Turn
  <2>3. QED BY <2>1, <2>2, Zenon
<1>2. PICK g : Turns(g, "FakeLine", {}, m, s) /\ g[Len(s)] = h[1 .. Len(s)]
  BY <1>1, FoldingTurns
<1>3. QED BY <1>1, <1>2, Zenon

LEMMA DelLineTurns ==
  ASSUME NEW m, NEW s, Len(s) \in Nat, DOMAIN s = 1 .. Len(s)
  PROVE  \E g : Turns(g, "DelLineOf", {}, m, s) /\ FoldLeft(DelLineOf, m, s) = g[Len(s)]
<1>1. PICK h : Folding(h, "DelLineOf", {}, m, s, Len(s)) /\ FoldLeft(DelLineOf, m, s) = h[1 .. Len(s)]
  <2> DEFINE h == CHOOSE h : Folding(h, "DelLineOf", {}, m, s, Len(s))
  <2>1. Folding(h, "DelLineOf", {}, m, s, Len(s))
    BY FoldingExists, Zenon
  <2>2. FoldLeft(DelLineOf, m, s) = h[1 .. Len(s)]
    BY Zenon DEF FoldLeft, MapThenFoldSet, Folding, Turn
  <2>3. QED BY <2>1, <2>2, Zenon
<1>2. PICK g : Turns(g, "DelLineOf", {}, m, s) /\ g[Len(s)] = h[1 .. Len(s)]
  BY <1>1, FoldingTurns
<1>3. QED BY <1>1, <1>2, Zenon

LEMMA RunTurns ==
  ASSUME NEW K, NEW s, Len(s) \in Nat, DOMAIN s = 1 .. Len(s)
  PROVE  \E g : Turns(g, "Run", K, <<>>, s) /\ Runs(K, s) = g[Len(s)]
<1>1. PICK no : no = <<>>
  OBVIOUS
<1>2. PICK h : Folding(h, "Run", K, no, s, Len(s)) /\ Runs(K, s) = h[1 .. Len(s)]
  <2> DEFINE h == CHOOSE h : Folding(h, "Run", K, no, s, Len(s))
  <2>1. Folding(h, "Run", K, no, s, Len(s))
    BY FoldingExists, Zenon
  <2>2. Runs(K, s) = h[1 .. Len(s)]
    BY <1>1, Zenon DEF Runs, FoldLeft, MapThenFoldSet, Folding, Turn
  <2>3. QED BY <2>1, <2>2, Zenon
<1>3. PICK g : Turns(g, "Run", K, no, s) /\ g[Len(s)] = h[1 .. Len(s)]
  <2>1. Folding(h, "Run", K, no, s, Len(s))
    BY <1>2, Zenon
  <2>2. QED BY <2>1, FoldingTurns
<1>4. QED BY <1>1, <1>2, <1>3, Zenon

LEMMA WaitingTurns ==
  ASSUME NEW m, NEW K, NEW s, Len(s) \in Nat, DOMAIN s = 1 .. Len(s)
  PROVE  \E g : Turns(g, "waiting", K, m, s) /\ Waiting(m, K, s) = g[Len(s)]
<1>1. PICK h : Folding(h, "waiting", K, m, s, Len(s)) /\ Waiting(m, K, s) = h[1 .. Len(s)]
  <2> DEFINE h == CHOOSE h : Folding(h, "waiting", K, m, s, Len(s))
  <2>1. Folding(h, "waiting", K, m, s, Len(s))
    BY FoldingExists, Zenon
  <2>2. Waiting(m, K, s) = h[1 .. Len(s)]
    BY Zenon DEF Waiting, FoldLeft, MapThenFoldSet, Folding, Turn
  <2>3. QED BY <2>1, <2>2, Zenon
<1>2. PICK g : Turns(g, "waiting", K, m, s) /\ g[Len(s)] = h[1 .. Len(s)]
  <2>1. Folding(h, "waiting", K, m, s, Len(s))
    BY <1>1, Zenon
  <2>2. QED BY <2>1, FoldingTurns
<1>3. QED BY <1>1, <1>2, Zenon

LEMMA NearbyTurns ==
  ASSUME NEW no, no = <<>>, NEW lo, NEW hi, NEW s, Len(s) \in Nat, DOMAIN s = 1 .. Len(s)
  PROVE  \E g : Turns(g, "near", <<lo, hi>>, no, s) /\ Nearby(s, lo, hi) = g[Len(s)]
<1>1. PICK h : Folding(h, "near", <<lo, hi>>, no, s, Len(s)) /\ Nearby(s, lo, hi) = h[1 .. Len(s)]
  <2> DEFINE h == CHOOSE h : Folding(h, "near", <<lo, hi>>, no, s, Len(s))
  <2>1. Folding(h, "near", <<lo, hi>>, no, s, Len(s))
    BY FoldingExists, Zenon
  <2>2. Nearby(s, lo, hi) = h[1 .. Len(s)]
    BY Zenon DEF Nearby, FoldLeft, MapThenFoldSet, Folding, Turn
  <2>3. QED BY <2>1, <2>2, Zenon
<1>2. PICK g : Turns(g, "near", <<lo, hi>>, no, s) /\ g[Len(s)] = h[1 .. Len(s)]
  <2>1. Folding(h, "near", <<lo, hi>>, no, s, Len(s))
    BY <1>1, Zenon
  <2>2. QED BY <2>1, FoldingTurns
<1>3. QED BY <1>1, <1>2, Zenon

-----------------------------------------------------------------------------
(* What a message does to one window. *)

\* A loop from lo to hi takes each number between them in its turn.
LEMMA UpToIs ==
  ASSUME NEW lo \in Nat, NEW hi \in Nat, lo <= hi + 1
  PROVE  /\ UpTo(lo, hi) \in Seq(Nat)
         /\ Len(UpTo(lo, hi)) = 1 + hi - lo /\ DOMAIN UpTo(lo, hi) = 1 .. Len(UpTo(lo, hi))
         /\ \A i \in 1 .. 1 + hi - lo : UpTo(lo, hi)[i] = lo + i - 1
<1>1. UpTo(lo, hi) = [i \in 1 .. 1 + hi - lo |-> lo + i - 1]
  BY DEF UpTo
<1>2. 1 + hi - lo \in Nat /\ \A i \in 1 .. 1 + hi - lo : lo + i - 1 \in Nat
  OBVIOUS
<1>3. QED BY <1>1, <1>2

Fake(k) == Dummy(k, {"FAKELINE"})

\* The line that CreateLine puts.
LEMMA FakeIs == ASSUME NEW k \in Key
                PROVE  Fake(k) \in Line /\ Fake(k).key = k /\ Fake(k).text = TILDE /\ Fake(k) # Dummy(k, {})
BY DEF Fake, Dummy, Line, TildeLine

\* FakeLine puts a line that is to be requested in the place of line k.
LEMMA FakeLineIs ==
  ASSUME NEW ls \in Seq(Line), Sorted(ls), NEW k \in Key
  PROVE  Changed(FakeLine(ls, k), ls, k, {Fake(k)})
<1>1. PICK i : i = InsPos(ls, k) - 1
  OBVIOUS
<1>2. i \in 0 .. Len(ls) /\ \A j \in 1 .. Len(ls) : ls[j].key <= k <=> j <= i
  <2>1. PICK h : h = InsPos(ls, k)
    OBVIOUS
  <2>2. h \in 1 .. Len(ls) + 1 /\ \A j \in 1 .. Len(ls) : ls[j].key <= k <=> j < h
    BY <2>1, InsPosIs, Zenon
  <2>3. i = h - 1
    BY <1>1, <2>1
  <2>4. i \in 0 .. Len(ls) /\ \A j \in 1 .. Len(ls) : j < h <=> j <= i
    BY <2>2, <2>3
  <2>5. QED BY <2>2, <2>4, Zenon
<1>3. FakeLine(ls, k) = IF i # 0 /\ ls[i].key = k THEN ReplaceAt(ls, i, Fake(k)) ELSE InsAbove(ls, Fake(k))
  BY <1>1, Zenon DEF FakeLine, Fake
<1>4. Fake(k) \in Line /\ Fake(k).key = k /\ k \in Nat
  BY FakeIs, Constants DEF Key
<1>5. CASE i # 0 /\ ls[i].key = k
  <2>1. i \in 1 .. Len(ls)
    BY <1>2, <1>5
  <2>2. Changed(ReplaceAt(ls, i, Fake(k)), ls, Fake(k).key, {Fake(k)})
    BY <1>4, <1>5, <2>1, Replaced, Zenon
  <2>3. QED BY <1>3, <1>4, <1>5, <2>2, Zenon
<1>6. CASE ~ (i # 0 /\ ls[i].key = k)
  <2>1. ASSUME NEW j \in 1 .. Len(ls), ls[j].key = k PROVE FALSE
    <3>1. j <= i /\ i \in 1 .. Len(ls)
      BY <1>2, <1>4, <2>1
    <3>2. ls[i].key <= k
      BY <1>2, <3>1
    <3>3. j # i
      BY <1>6, <2>1, <3>1
    <3>4. ls[j].key < ls[i].key
      BY <3>1, <3>3 DEF Sorted
    <3>5. ls[i].key \in Nat
      <4>1. ls[i] \in Line
        BY <3>1
      <4>2. QED BY <4>1, LineIs, Zenon
    <3>6. QED BY <1>4, <2>1, <3>2, <3>4, <3>5
  <2>2. \A j \in 1 .. Len(ls) : ls[j].key # Fake(k).key
    BY <1>4, <2>1, Zenon
  <2>3. Changed(InsAbove(ls, Fake(k)), ls, Fake(k).key, {Fake(k)})
    BY <1>4, <2>2, Above, Zenon
  <2>4. QED BY <1>3, <1>4, <1>6, <2>3, Zenon
<1>7. QED BY <1>5, <1>6, Zenon

\* CreateLine does so for each of its lines.
LEMMA FakeLinesAre ==
  ASSUME NEW ls \in Seq(Line), Sorted(ls), NEW lo \in Key, NEW hi \in Key, lo <= hi,
         NEW r, r = FoldLeft(FakeLine, ls, UpTo(lo, hi))
  PROVE  /\ r \in Seq(Line) /\ Sorted(r)
         /\ AsSet(r) = {l \in AsSet(ls) : l.key \notin lo .. hi} \cup {Fake(k) : k \in lo .. hi}
<1>1. lo \in Nat /\ hi \in Nat /\ lo <= hi + 1 /\ \A k \in lo .. hi : k \in Key
  BY KeyIs, Constants DEF Key
<1>2. PICK n, s : n = 1 + hi - lo /\ s = UpTo(lo, hi)
  OBVIOUS
<1>3. n \in Nat /\ Len(s) = n /\ DOMAIN s = 1 .. Len(s) /\ \A i \in 1 .. n : s[i] = lo + i - 1
  <2>1. Len(s) = 1 + hi - lo /\ DOMAIN s = 1 .. Len(s) /\ \A i \in 1 .. 1 + hi - lo : s[i] = lo + i - 1
    BY <1>1, <1>2, UpToIs, Zenon
  <2>2. n \in Nat
    BY <1>1, <1>2
  <2>3. QED BY <1>2, <2>1, <2>2, Zenon
<1>4. PICK g : Turns(g, "FakeLine", {}, ls, s) /\ r = g[n]
  <2>1. Len(s) \in Nat
    BY <1>3
  <2>2. QED BY <1>2, <1>3, <2>1, FakeLineTurns, Zenon
<1>5. g[0] = ls /\ \A i \in 1 .. n : g[i] = FakeLine(g[i - 1], s[i])
  <2>1. \A m, e : Turn("FakeLine", {}, m, e) = FakeLine(m, e)
    BY DEF Turn
  <2>2. QED BY <1>3, <1>4, <2>1, Zenon DEF Turns
<1> DEFINE P(x, i) == /\ x \in Seq(Line) /\ Sorted(x)
                      /\ AsSet(x) = {l \in AsSet(ls) : l.key \notin lo .. lo + i - 1}
                                       \cup {Fake(k) : k \in lo .. lo + i - 1}
           T == { i \in 0 .. n : P(g[i], i) }
<1>6. 0 \in T
  <2>1. lo .. lo + 0 - 1 = {}
    BY <1>1
  <2>2. P(ls, 0)
    BY <2>1
  <2>3. 0 \in 0 .. n
    BY <1>3
  <2>4. QED BY <1>5, <2>2, <2>3, Zenon
<1>7. ASSUME NEW i \in 0 .. n - 1, i \in T PROVE i + 1 \in T
  <2>1. i + 1 \in 1 .. n /\ i + 1 \in 0 .. n /\ (i + 1) - 1 = i
    BY <1>3
  <2>2. PICK x, y, k : x = g[i] /\ y = g[i + 1] /\ k = lo + i
    OBVIOUS
  <2>3. P(x, i)
    BY <1>7, <2>2, Zenon
  <2>4. k \in Key /\ s[i + 1] = k
    <3>1. k \in lo .. hi /\ lo + (i + 1) - 1 = k
      BY <1>1, <1>2, <2>1, <2>2
    <3>2. QED BY <1>1, <1>3, <2>1, <3>1, Zenon
  <2>5. y = FakeLine(x, k)
    BY <1>5, <2>1, <2>2, <2>4, Zenon
  <2>6. Changed(y, x, k, {Fake(k)})
    BY <2>3, <2>4, <2>5, FakeLineIs, Zenon
  <2>7. AsSet(y) = {l \in AsSet(x) : l.key # k} \cup {Fake(k)}
    BY ONLY <2>6, ChangedSet
  <2>8. \A l : l \in AsSet(x) <=> \/ l \in AsSet(ls) /\ l.key \notin lo .. lo + i - 1
                                  \/ \E h \in lo .. lo + i - 1 : l = Fake(h)
    BY <2>3
  <2>9. lo .. lo + (i + 1) - 1 = (lo .. lo + i - 1) \cup {k} /\ k \notin lo .. lo + i - 1
    BY <1>1, <2>1, <2>2
  <2>10. \A h \in lo .. lo + i - 1 : Fake(h).key = h
    <3>1. ASSUME NEW h \in lo .. lo + i - 1 PROVE h \in Key
      <4>1. h \in lo .. hi
        BY <1>1, <1>2, <2>1
      <4>2. QED BY <1>1, <4>1, Zenon
    <3>2. QED BY <3>1, FakeIs, Zenon
  <2>11. \A l : l \in AsSet(y) <=> \/ l \in AsSet(ls) /\ l.key \notin lo .. lo + (i + 1) - 1
                                   \/ \E h \in lo .. lo + (i + 1) - 1 : l = Fake(h)
    <3>1. \A l : l \in AsSet(y) <=> (l \in AsSet(x) /\ l.key # k) \/ l = Fake(k)
      BY <2>7
    <3>2. PICK a, b : a = lo .. lo + i - 1 /\ b = lo .. lo + (i + 1) - 1
      OBVIOUS
    <3>3. b = a \cup {k} /\ k \notin a
      BY <2>9, <3>2, Zenon
    <3>4. \A h \in a : Fake(h).key = h /\ h # k
      BY <2>10, <3>2, <3>3, Zenon
    <3>5. \A l : l \in AsSet(x) <=> (l \in AsSet(ls) /\ l.key \notin a) \/ \E h \in a : l = Fake(h)
      BY <2>8, <3>2, Zenon
    <3>6. \A h : h \in b <=> h \in a \/ h = k
      BY <3>3
    <3>7. \A l : l \in AsSet(y) <=> (l \in AsSet(ls) /\ l.key \notin b) \/ \E h \in b : l = Fake(h)
      BY ONLY <3>1, <3>4, <3>5, <3>6
    <3>8. QED BY <3>2, <3>7, Zenon
  <2>12. P(y, i + 1)
    <3>1. AsSet(y) = {l \in AsSet(ls) : l.key \notin lo .. lo + (i + 1) - 1}
                       \cup {Fake(h) : h \in lo .. lo + (i + 1) - 1}
      BY <2>11
    <3>2. y \in Seq(Line) /\ Sorted(y)
      BY <2>6, Zenon DEF Changed
    <3>3. QED BY <3>1, <3>2
  <2>13. QED BY <2>1, <2>2, <2>12, Zenon
<1> HIDE DEF T
<1>8. \A i \in 0 .. n - 1 : i \in T => i + 1 \in T
  BY <1>7, Zenon
<1>9. n \in T
  BY <1>3, <1>6, <1>8, InductTo, Zenon
<1>10. P(r, n)
  BY <1>4, <1>9, Zenon DEF T
<1>11. lo + n - 1 = hi
  BY <1>1, <1>2
<1>12. QED BY <1>10, <1>11

\* The parts of a window.
LEMMA WindowIs ==
  ASSUME NEW n \in Nat, NEW w \in Window(n)
  PROVE  /\ w = [object |-> w.object, oid |-> w.oid, attributes |-> w.attributes,
                max |-> w.max, lines |-> w.lines]
         /\ w.object \in Obj /\ w.oid \in 1 .. n /\ w.attributes \in SUBSET (Options \cup {"FAKELINE"})
         /\ w.max \in 0 .. MaxKey /\ w.max \in Nat /\ w.lines \in Seq(Line)
BY Constants DEF Window

\* Window v is w with other lines.
Keeps(v, w, ls) == v = [w EXCEPT !.lines = ls]

LEMMA KeepsIs ==
  ASSUME NEW n \in Nat, NEW w \in Window(n), NEW ls \in Seq(Line), NEW v, Keeps(v, w, ls)
  PROVE  /\ v \in Window(n) /\ v.lines = ls
         /\ v.object = w.object /\ v.oid = w.oid /\ v.attributes = w.attributes /\ v.max = w.max
<1>1. w = [object |-> w.object, oid |-> w.oid, attributes |-> w.attributes, max |-> w.max, lines |-> w.lines]
  BY WindowIs, Zenon
<1>2. v = [object |-> w.object, oid |-> w.oid, attributes |-> w.attributes, max |-> w.max, lines |-> ls]
  BY <1>1 DEF Keeps
<1>3. QED BY <1>2, WindowIs DEF Window

\* Lines are elements of their set, and the other way round.
LEMMA InSet ==
  ASSUME NEW ls \in Seq(Line)
  PROVE  /\ \A j \in 1 .. Len(ls) : ls[j] \in AsSet(ls) /\ ls[j] \in Line
         /\ \A l \in AsSet(ls) : l \in Line /\ \E j \in 1 .. Len(ls) : l = ls[j]
         /\ AsSet(ls) = {} => ls = <<>>
<1>1. \A j \in 1 .. Len(ls) : ls[j] \in Line /\ ls[j] \in AsSet(ls)
  BY DEF AsSet
<1>2. \A l \in AsSet(ls) : \E j \in 1 .. Len(ls) : l = ls[j]
  BY DEF AsSet
<1>3. ASSUME AsSet(ls) = {} PROVE ls = <<>>
  <2>1. Len(ls) \in Nat /\ 1 \notin 1 .. Len(ls)
    BY <1>1, <1>3
  <2>2. Len(ls) = 0
    BY <2>1
  <2>3. QED BY <2>2, EmptySeq, Zenon
<1>4. QED BY <1>1, <1>2, <1>3, Zenon

LEMMA NoLines == AsSet(<<>>) = {} /\ Sorted(<<>>) /\ <<>> \in Seq(Line)
BY DEF AsSet, Sorted

\* The window that P_Define makes.
Fresh(o, x) == [object |-> o, oid |-> x, attributes |-> {}, max |-> 0, lines |-> <<>>]

LEMMA FreshIs ==
  ASSUME NEW n \in Nat, NEW o \in Obj, NEW x \in 1 .. n
  PROVE  Fresh(o, x) \in Window(n) /\ WinOK(Fresh(o, x))
<1>1. <<>> \in Seq(Line) /\ AsSet(<<>>) = {} /\ Sorted(<<>>)
  BY NoLines
<1>2. 0 \in 0 .. MaxKey
  BY Constants
<1>3. QED BY <1>1, <1>2 DEF Fresh, Window, WinOK

\* A window that keeps all but its lines, which are some of those it had
\* and some with a text.
LEMMA FewerLines ==
  ASSUME NEW n \in Nat, NEW w \in Window(n), WinOK(w), NEW ls \in Seq(Line), Sorted(ls),
         \A l \in AsSet(ls) : l \in AsSet(w.lines) \/ l.text # TILDE,
         \A l \in AsSet(ls) : w.max # 0 => l.key <= w.max,
         NEW v, Keeps(v, w, ls)
  PROVE  v \in Window(n) /\ WinOK(v)
<1>1. v \in Window(n) /\ v.lines = ls /\ v.attributes = w.attributes /\ v.max = w.max
  <2>1. /\ v \in Window(n) /\ v.lines = ls
        /\ v.object = w.object /\ v.oid = w.oid /\ v.attributes = w.attributes /\ v.max = w.max
    BY ONLY n \in Nat, w \in Window(n), ls \in Seq(Line), Keeps(v, w, ls), KeepsIs, SMT
  <2>2. QED BY <2>1
<1>2. Plain(v) <=> Plain(w)
  BY <1>1, Zenon DEF Plain
<1>3. Plain(w) => \A l \in AsSet(w.lines) : l.text # TILDE
  BY Zenon DEF WinOK
<1>4. QED BY <1>1, <1>2, <1>3, Zenon DEF WinOK

\* PutLine, of a line with its text.
LEMMA PutLineIs ==
  ASSUME NEW n \in Nat, NEW w \in Window(n), WinOK(w), NEW l \in RealLine, NEW v, v = PutLine(w, l)
  PROVE  /\ v \in Window(n) /\ WinOK(v) /\ Keeps(v, w, v.lines)
         /\ AsSet(v.lines) = IF w.max # 0 /\ l.key > w.max THEN AsSet(w.lines)
                             ELSE {x \in AsSet(w.lines) : x.key # l.key} \cup {l}
<1>1. w.lines \in Seq(Line) /\ Sorted(w.lines) /\ w.max \in Nat
  BY WindowIs, Zenon DEF WinOK
<1>2. l \in Line /\ l.text # TILDE /\ l.key \in Nat
  BY LineIs, Constants DEF Line, RealLine
<1>3. CASE w.max # 0 /\ l.key > w.max
  <2>1. v = w
    BY <1>3, Zenon DEF PutLine
  <2>2. w = [w EXCEPT !.lines = w.lines]
    BY WindowIs
  <2>3. QED BY <1>3, <2>1, <2>2, Zenon DEF Keeps
<1>4. CASE ~ (w.max # 0 /\ l.key > w.max)
  <2>1. PICK i : i = KeyAt(w.lines, l.key)
    OBVIOUS
  <2>2. PICK r : r = IF i # 0 THEN ReplaceAt(w.lines, i, l) ELSE InsAbove(w.lines, l)
    OBVIOUS
  <2>3. v = [w EXCEPT !.lines = r]
    BY <1>4, <2>1, <2>2, Zenon DEF PutLine
  <2>4. Changed(r, w.lines, l.key, {l})
    <3>1. CASE i = 0 /\ \A j \in 1 .. Len(w.lines) : w.lines[j].key # l.key
      <4>1. Changed(InsAbove(w.lines, l), w.lines, l.key, {l})
        BY <1>1, <1>2, <3>1, Above, Zenon
      <4>2. QED BY <2>2, <3>1, <4>1, Zenon
    <3>2. CASE i \in 1 .. Len(w.lines) /\ w.lines[i].key = l.key
      <4>1. Changed(ReplaceAt(w.lines, i, l), w.lines, l.key, {l})
        BY <1>1, <1>2, <3>2, Replaced, Zenon
      <4>2. i # 0
        BY <3>2
      <4>3. QED BY <2>2, <4>1, <4>2, Zenon
    <3>3. QED BY <1>1, <2>1, <3>1, <3>2, KeyAtIs, Zenon
  <2>5. AsSet(r) = {x \in AsSet(w.lines) : x.key # l.key} \cup {l}
    BY ONLY <2>4, ChangedSet
  <2>6. r \in Seq(Line) /\ Sorted(r)
    BY <2>4, Zenon DEF Changed
  <2>7. Keeps(v, w, r)
    BY <2>3, Zenon DEF Keeps
  <2>8. v.lines = r
    BY <2>6, <2>7, KeepsIs, Zenon
  <2>9. \A x \in AsSet(r) : x \in AsSet(w.lines) \/ x.text # TILDE
    BY <1>2, <2>5
  <2>10. w.max # 0 => l.key <= w.max
    BY <1>1, <1>2, <1>4
  <2>11. w.max # 0 => \A x \in AsSet(w.lines) : x.key <= w.max
    BY Zenon DEF WinOK
  <2>12. \A x \in AsSet(r) : x \in AsSet(w.lines) \/ x = l
    BY <2>5
  <2>13. \A x \in AsSet(r) : w.max # 0 => x.key <= w.max
    BY <2>10, <2>11, <2>12, Zenon
  <2>14. v \in Window(n) /\ WinOK(v)
    BY <2>6, <2>7, <2>9, <2>13, FewerLines, Zenon
  <2>15. QED BY <1>4, <2>5, <2>7, <2>8, <2>14, Zenon
<1>5. QED BY <1>3, <1>4, Zenon

\* Some of the lines of a window.
LEMMA SomeLines ==
  ASSUME NEW n \in Nat, NEW w \in Window(n), WinOK(w), NEW ls \in Seq(Line), Sorted(ls),
         AsSet(ls) \subseteq AsSet(w.lines), NEW v, Keeps(v, w, ls)
  PROVE  v \in Window(n) /\ WinOK(v) /\ v.lines = ls /\ Keeps(v, w, v.lines)
<1>1. \A l \in AsSet(ls) : l \in AsSet(w.lines) \/ l.text # TILDE
  OBVIOUS
<1>2. \A l \in AsSet(ls) : w.max # 0 => l.key <= w.max
  BY DEF WinOK
<1>3. v \in Window(n) /\ WinOK(v)
  BY <1>1, <1>2, FewerLines, Zenon
<1>4. v.lines = ls
  BY KeepsIs, Zenon
<1>5. QED BY <1>3, <1>4, Zenon

\* P_RemoveLine.
LEMMA RemoveLineIs ==
  ASSUME NEW n \in Nat, NEW w \in Window(n), WinOK(w), NEW k \in Key, NEW v, v = P_RemoveLine(w, k)
  PROVE  /\ v \in Window(n) /\ WinOK(v) /\ Keeps(v, w, v.lines)
         /\ AsSet(v.lines) = {x \in AsSet(w.lines) : x.key # k}
<1>1. w.lines \in Seq(Line) /\ Sorted(w.lines)
  BY WindowIs, Zenon DEF WinOK
<1>2. PICK i : i = KeyAt(w.lines, k)
  OBVIOUS
<1>3. v = IF i = 0 THEN w ELSE [w EXCEPT !.lines = RemoveAt(@, i)]
  BY <1>2, Zenon DEF P_RemoveLine
<1>4. CASE i = 0 /\ \A j \in 1 .. Len(w.lines) : w.lines[j].key # k
  <2>1. v = w
    BY <1>3, <1>4
  <2>2. w = [w EXCEPT !.lines = w.lines]
    BY WindowIs
  <2>3. AsSet(w.lines) = {x \in AsSet(w.lines) : x.key # k}
    BY <1>4 DEF AsSet
  <2>4. QED BY <2>1, <2>2, <2>3, Zenon DEF Keeps
<1>5. CASE i \in 1 .. Len(w.lines) /\ w.lines[i].key = k
  <2>1. PICK r, no : r = RemoveAt(w.lines, i) /\ no = {}
    OBVIOUS
  <2>2. Changed(r, w.lines, k, {})
    BY <1>1, <1>5, <2>1, Removed, Zenon
  <2>3. AsSet(r) = {x \in AsSet(w.lines) : x.key # k} \cup {}
    BY ONLY <2>2, ChangedSet
  <2>4. AsSet(r) = {x \in AsSet(w.lines) : x.key # k} /\ AsSet(r) \subseteq AsSet(w.lines)
    BY <2>3
  <2>5. r \in Seq(Line) /\ Sorted(r)
    BY <2>2, Zenon DEF Changed
  <2>6. v = [w EXCEPT !.lines = r]
    BY <1>3, <1>5, <2>1
  <2>7. Keeps(v, w, r)
    BY <2>6, Zenon DEF Keeps
  <2>8. v \in Window(n) /\ WinOK(v) /\ v.lines = r /\ Keeps(v, w, v.lines)
    BY <2>4, <2>5, <2>7, SomeLines, Zenon
  <2>9. QED BY <2>4, <2>8, Zenon
<1>6. QED BY <1>1, <1>2, <1>4, <1>5, KeyAtIs, Zenon

LEMMA DelLinesIs ==
  ASSUME NEW n \in Nat, NEW w \in Window(n), WinOK(w), NEW v, v = DelLines(w)
  PROVE  v \in Window(n) /\ WinOK(v) /\ v.lines = <<>> /\ Keeps(v, w, v.lines)
<1>1. PICK no : no = <<>>
  OBVIOUS
<1>2. no \in Seq(Line) /\ Sorted(no) /\ AsSet(no) \subseteq AsSet(w.lines)
  BY <1>1, NoLines
<1>3. Keeps(v, w, no)
  BY <1>1, Zenon DEF DelLines, Keeps
<1>4. QED BY <1>1, <1>2, <1>3, SomeLines, Zenon

\* P_Lines, of a window that has a limit already, or no lines yet.
LEMMA LimitIs ==
  ASSUME NEW n \in Nat, NEW w \in Window(n), WinOK(w), w.max # 0 \/ w.lines = <<>>,
         NEW k \in Key, NEW v, v = P_Lines(w, k)
  PROVE  /\ v \in Window(n) /\ WinOK(v)
         /\ v = [object |-> w.object, oid |-> w.oid, attributes |-> w.attributes, max |-> k,
                 lines |-> IF k < w.max THEN <<>> ELSE w.lines]
<1>1. /\ w = [object |-> w.object, oid |-> w.oid, attributes |-> w.attributes, max |-> w.max, lines |-> w.lines]
      /\ w.object \in Obj /\ w.oid \in 1 .. n /\ w.attributes \in SUBSET (Options \cup {"FAKELINE"})
      /\ w.max \in Nat /\ w.lines \in Seq(Line)
  BY WindowIs
<1>2. PICK ls : ls = IF k < w.max THEN <<>> ELSE w.lines
  OBVIOUS
<1>3. v = [object |-> w.object, oid |-> w.oid, attributes |-> w.attributes, max |-> k, lines |-> ls]
  <2>1. CASE k < w.max
    <3>1. DelLines(w) = [w EXCEPT !.lines = ls]
      BY <1>2, <2>1, Zenon DEF DelLines
    <3>2. v = [DelLines(w) EXCEPT !.max = k]
      BY <2>1, Zenon DEF P_Lines
    <3>3. QED BY <1>1, <3>1, <3>2
  <2>2. CASE ~ (k < w.max)
    <3>1. v = [w EXCEPT !.max = k] /\ ls = w.lines
      BY <1>2, <2>2, Zenon DEF P_Lines
    <3>2. QED BY <1>1, <3>1
  <2>3. QED BY <2>1, <2>2, Zenon
<1>4. ls \in Seq(Line) /\ Sorted(ls) /\ \A l \in AsSet(ls) : l.key <= k
  <2>1. CASE k < w.max
    BY <1>2, <2>1, NoLines
  <2>2. CASE ~ (k < w.max)
    <3>1. ls = w.lines /\ Sorted(ls) /\ ls \in Seq(Line)
      BY <1>1, <1>2, <2>2, Zenon DEF WinOK
    <3>2. \A l \in AsSet(ls) : l.key \in Nat
      BY <3>1, InSet, LineIs, Zenon
    <3>3. ASSUME NEW l \in AsSet(ls) PROVE l.key <= k
      <4>1. w.max # 0
        <5>1. CASE w.lines = <<>>
          BY <3>1, <3>3, <5>1, NoLines
        <5>2. QED BY <5>1
      <4>2. l.key <= w.max
        BY <3>1, <3>3, <4>1, Zenon DEF WinOK
      <4>3. QED BY <1>1, <2>2, <3>2, <4>2, KeyIs
    <3>4. QED BY <3>1, <3>3, Zenon
  <2>3. QED BY <2>1, <2>2, Zenon
<1>5. k # 0 /\ k \in 0 .. MaxKey
  BY KeyIs DEF Key
<1>6. v \in Window(n)
  BY <1>1, <1>3, <1>4, <1>5 DEF Window
<1>7. v.max = k /\ v.lines = ls
  BY <1>3
<1>8. WinOK(v)
  BY <1>4, <1>5, <1>7, Zenon DEF WinOK, Plain
<1>9. QED BY <1>2, <1>3, <1>6, <1>8, Zenon

\* CreateLine, in a window without a limit.
Created(v, w, lo, hi) ==
  /\ w.max # 0 \/ ~ (lo <= hi) => v = w
  /\ w.max = 0 /\ lo <= hi =>
       /\ v = [object |-> w.object, oid |-> w.oid, attributes |-> w.attributes \cup {"FAKELINE"},
               max |-> 0, lines |-> v.lines]
       /\ AsSet(v.lines) = {l \in AsSet(w.lines) : l.key \notin lo .. hi} \cup {Fake(k) : k \in lo .. hi}

LEMMA CreateLineIs ==
  ASSUME NEW n \in Nat, NEW w \in Window(n), WinOK(w), NEW lo \in Key, NEW hi \in Key,
         NEW v, v = CreateLine(w, lo, hi)
  PROVE  v \in Window(n) /\ WinOK(v) /\ Created(v, w, lo, hi)
<1>1. /\ w = [object |-> w.object, oid |-> w.oid, attributes |-> w.attributes, max |-> w.max, lines |-> w.lines]
      /\ w.object \in Obj /\ w.oid \in 1 .. n /\ w.attributes \in SUBSET (Options \cup {"FAKELINE"})
      /\ w.max \in Nat /\ w.max \in 0 .. MaxKey /\ w.lines \in Seq(Line) /\ Sorted(w.lines)
      /\ lo \in Nat /\ hi \in Nat
  BY WindowIs, KeyIs, Zenon DEF WinOK
<1>2. CASE w.max # 0 \/ ~ (lo <= hi)
  <2>1. v = w
    BY <1>1, <1>2 DEF CreateLine
  <2>2. QED BY <1>2, <2>1 DEF Created
<1>3. CASE w.max = 0 /\ lo <= hi
  <2>1. PICK r : r = FoldLeft(FakeLine, w.lines, UpTo(lo, hi))
    OBVIOUS
  <2>2. v = [w EXCEPT !.lines = r, !.attributes = w.attributes \cup {"FAKELINE"}]
    <3>1. ~ (w.max # 0 \/ lo > hi)
      BY <1>1, <1>3
    <3>2. QED BY <2>1, <3>1, Zenon DEF CreateLine
  <2>3. r \in Seq(Line) /\ Sorted(r)
    BY <1>1, <1>3, <2>1, FakeLinesAre, Zenon
  <2>4. AsSet(r) = {l \in AsSet(w.lines) : l.key \notin lo .. hi} \cup {Fake(k) : k \in lo .. hi}
    BY ONLY <1>1, <1>3, <2>1, FakeLinesAre
  <2>5. v = [object |-> w.object, oid |-> w.oid, attributes |-> w.attributes \cup {"FAKELINE"},
             max |-> 0, lines |-> r]
    BY <1>1, <1>3, <2>2
  <2>6. v.lines = r /\ v.max = 0 /\ "FAKELINE" \in v.attributes
    BY <2>5
  <2>7. v \in Window(n)
    BY <1>1, <1>3, <2>3, <2>5 DEF Window
  <2>8. WinOK(v)
    BY <2>3, <2>6, Zenon DEF WinOK, Plain
  <2>9. QED BY <1>3, <2>4, <2>5, <2>6, <2>7, <2>8 DEF Created
<1>4. QED BY <1>2, <1>3, Zenon

\* MakeGap, of one line, in a window that has room for it.
LEMMA MovedIs ==
  ASSUME NEW l \in Line, l.key < MaxKey, NEW k \in Key
  PROVE  /\ Moved(l, k, 1) \in Line /\ Moved(l, k, 1).text = l.text /\ Moved(l, k, 1).attributes = l.attributes
         /\ Moved(l, k, 1).key = IF l.key >= k THEN l.key + 1 ELSE l.key
<1>1. /\ l = [key |-> l.key, text |-> l.text, attributes |-> l.attributes]
      /\ l.key \in Nat /\ l.key \in Key
  BY LineIs
<1>2. l.key + 1 \in Key
  BY <1>1, Constants DEF Key
<1>3. CASE l.key >= k
  <2>1. PICK m : m = Moved(l, k, 1)
    OBVIOUS
  <2>2. m = [key |-> l.key + 1, text |-> l.text, attributes |-> l.attributes]
    BY <1>1, <1>3, <2>1 DEF Moved
  <2>3. m \in Line
    BY <1>2, <2>2 DEF Line, RealLine, TildeLine
  <2>4. m.text = l.text /\ m.attributes = l.attributes /\ m.key = l.key + 1
    BY <2>2
  <2>5. QED BY <1>3, <2>1, <2>3, <2>4, Zenon
<1>4. CASE ~ (l.key >= k)
  BY <1>4, Zenon DEF Moved
<1>5. QED BY <1>3, <1>4, Zenon

LEMMA MakeGapIs ==
  ASSUME NEW n \in Nat, NEW w \in Window(n), WinOK(w), Plain(w), \A l \in AsSet(w.lines) : l.key < MaxKey,
         NEW k \in Key, NEW v, v = MakeGap(w, k, 1)
  PROVE  /\ v \in Window(n) /\ WinOK(v) /\ Keeps(v, w, v.lines)
         /\ AsSet(v.lines) = {Moved(l, k, 1) : l \in AsSet(w.lines)}
<1>1. /\ w.max \in Nat /\ w.lines \in Seq(Line) /\ Sorted(w.lines) /\ k \in Nat
  BY WindowIs, KeyIs, Zenon DEF WinOK
<1>2. PICK ls, N : ls = w.lines /\ N = Len(ls)
  OBVIOUS
<1>3. /\ ls \in Seq(Line) /\ N \in Nat /\ DOMAIN ls = 1 .. N
      /\ \A i \in 1 .. N : ls[i] \in AsSet(ls) /\ ls[i] \in Line /\ ls[i].key < MaxKey
  <2>1. \A i \in 1 .. Len(ls) : ls[i] \in AsSet(ls) /\ ls[i] \in Line
    BY <1>1, <1>2, InSet, Zenon
  <2>2. \A i \in 1 .. Len(ls) : ls[i].key < MaxKey
    BY <1>2, <2>1, Zenon
  <2>3. N \in Nat /\ DOMAIN ls = 1 .. N
    BY <1>1, <1>2
  <2>4. QED BY <1>1, <1>2, <2>1, <2>2, <2>3, Zenon
<1>4. PICK r : r = [i \in 1 .. N |-> Moved(ls[i], k, 1)]
  OBVIOUS
<1>5. v = [w EXCEPT !.lines = r]
  <2>1. r = [i \in DOMAIN w.lines |-> Moved(w.lines[i], k, 1)]
    BY <1>2, <1>3, <1>4
  <2>2. QED BY <2>1, Zenon DEF MakeGap
<1>6. \A i \in 1 .. N : /\ r[i] = Moved(ls[i], k, 1) /\ r[i] \in Line /\ r[i].text = ls[i].text
                        /\ r[i].key = IF ls[i].key >= k THEN ls[i].key + 1 ELSE ls[i].key
  <2>1. \A i \in 1 .. N : r[i] = Moved(ls[i], k, 1)
    BY <1>4, Zenon
  <2>2. \A i \in 1 .. N : /\ Moved(ls[i], k, 1) \in Line /\ Moved(ls[i], k, 1).text = ls[i].text
                          /\ Moved(ls[i], k, 1).key = IF ls[i].key >= k THEN ls[i].key + 1 ELSE ls[i].key
    BY <1>3, MovedIs, Zenon
  <2>3. QED BY <2>1, <2>2, Zenon
<1>7. r \in Seq(Line) /\ Len(r) = N
  <2>1. \A i \in 1 .. N : Moved(ls[i], k, 1) \in Line
    BY <1>6, Zenon
  <2>2. QED BY <1>3, <1>4, <2>1
<1>8. Sorted(r)
  <2>1. ASSUME NEW a \in 1 .. N, NEW b \in 1 .. N, a < b PROVE r[a].key < r[b].key
    <3>1. ls[a].key < ls[b].key
      BY <1>1, <1>2, <2>1, SortedIs, Zenon
    <3>2. ls[a].key \in Nat /\ ls[b].key \in Nat
      BY <1>3, LineIs, Zenon
    <3>3. /\ r[a].key = IF ls[a].key >= k THEN ls[a].key + 1 ELSE ls[a].key
          /\ r[b].key = IF ls[b].key >= k THEN ls[b].key + 1 ELSE ls[b].key
      BY <1>6, Zenon
    <3>4. QED BY <1>1, <3>1, <3>2, <3>3
  <2>2. QED BY <1>7, <2>1, Zenon DEF Sorted
<1>9. AsSet(r) = {Moved(l, k, 1) : l \in AsSet(ls)}
  <2>1. AsSet(r) = {Moved(ls[j], k, 1) : j \in 1 .. N}
    <3>1. AsSet(r) = {r[j] : j \in 1 .. N}
      BY <1>7, Zenon DEF AsSet
    <3>2. \A j \in 1 .. N : r[j] = Moved(ls[j], k, 1)
      BY <1>6, Zenon
    <3>3. QED BY <3>1, <3>2
  <2>2. AsSet(ls) = {ls[j] : j \in 1 .. N}
    BY <1>2, Zenon DEF AsSet
  <2>3. QED BY <2>1, <2>2
<1>10. \A l \in AsSet(r) : l.text # TILDE
  <2>1. \A j \in 1 .. N : ls[j].text # TILDE
    BY <1>2, <1>3, Zenon DEF WinOK
  <2>2. \A l \in AsSet(r) : \E j \in 1 .. N : l = r[j]
    BY <1>7 DEF AsSet
  <2>3. \A j \in 1 .. N : r[j].text # TILDE
    BY <1>6, <2>1, Zenon
  <2>4. QED BY <2>2, <2>3, Zenon
<1>11. \A l \in AsSet(r) : w.max # 0 => l.key <= w.max
  BY DEF Plain
<1>12. Keeps(v, w, r)
  BY <1>5, Zenon DEF Keeps
<1>13. v \in Window(n) /\ WinOK(v)
  BY <1>7, <1>8, <1>10, <1>11, <1>12, FewerLines, Zenon
<1>14. v.lines = r
  BY <1>5, WindowIs
<1>15. QED BY <1>2, <1>9, <1>12, <1>13, <1>14

\* The options of a window that has no lines and no limit yet.
LEMMA AttributeIs ==
  ASSUME NEW n \in Nat, NEW w \in Window(n), w.max = 0, w.lines = <<>>, NEW as \in SUBSET Options,
         NEW v, v = [w EXCEPT !.attributes = as]
  PROVE  /\ v \in Window(n) /\ WinOK(v)
         /\ v = [object |-> w.object, oid |-> w.oid, attributes |-> as, max |-> 0, lines |-> <<>>]
<1>1. /\ w = [object |-> w.object, oid |-> w.oid, attributes |-> w.attributes, max |-> w.max, lines |-> w.lines]
      /\ w.object \in Obj /\ w.oid \in 1 .. n /\ w.max \in 0 .. MaxKey
  BY WindowIs
<1>2. AsSet(<<>>) = {} /\ Sorted(<<>>) /\ <<>> \in Seq(Line)
  BY NoLines
<1>3. v = [object |-> w.object, oid |-> w.oid, attributes |-> as, max |-> 0, lines |-> <<>>]
  BY <1>1
<1>4. v \in Window(n)
  BY <1>1, <1>2, <1>3 DEF Window
<1>5. WinOK(v)
  BY <1>2, <1>3 DEF WinOK
<1>6. QED BY <1>3, <1>4, <1>5, Zenon

-----------------------------------------------------------------------------
(* The windows of the terminal. *)

WinsOK(wins, n) ==
  /\ wins \in Seq(Window(n)) /\ OneEach(wins)
  /\ \A i \in 1 .. Len(wins) : WinOK(wins[i])

\* The parts of a terminal.
LEMMA TerminalIs ==
  ASSUME NEW n \in Nat, NEW u, TermOK(u, n)
  PROVE  /\ u = [wins |-> u.wins, LINEobj |-> u.LINEobj, out |-> u.out, prev |-> u.prev]
         /\ u.LINEobj \in Obj \cup {NoObj} /\ u.out \in Seq(Request(n) \cup Closing(n))
         /\ u.prev \in Prev /\ WinsOK(u.wins, n)
<1>1. u \in Terminal(n) /\ OneEach(u.wins) /\ \A i \in 1 .. Len(u.wins) : WinOK(u.wins[i])
  BY Zenon DEF TermOK
<1>2. /\ u = [wins |-> u.wins, LINEobj |-> u.LINEobj, out |-> u.out, prev |-> u.prev]
      /\ u.LINEobj \in Obj \cup {NoObj} /\ u.out \in Seq(Request(n) \cup Closing(n))
      /\ u.prev \in Prev /\ u.wins \in Seq(Window(n))
  BY <1>1 DEF Terminal
<1>3. QED BY <1>1, <1>2, Zenon DEF WinsOK

LEMMA ATerminal ==
  ASSUME NEW n \in Nat, NEW wins, NEW obj, NEW out, NEW prev,
         NEW u, u = [wins |-> wins, LINEobj |-> obj, out |-> out, prev |-> prev],
         WinsOK(wins, n), obj \in Obj \cup {NoObj}, out \in Seq(Request(n) \cup Closing(n)), prev \in Prev
  PROVE  TermOK(u, n)
<1>1. u.wins = wins
  OBVIOUS
<1>2. wins \in Seq(Window(n))
  BY DEF WinsOK
<1>3. u \in Terminal(n)
  BY <1>2 DEF Terminal
<1>4. OneEach(wins) /\ \A i \in 1 .. Len(wins) : WinOK(wins[i])
  BY Zenon DEF WinsOK
<1>5. QED BY <1>1, <1>3, <1>4, Zenon DEF TermOK

\* ObjToPad finds the window of an object.
LEMMA ObjToPadIs ==
  ASSUME NEW n \in Nat, NEW u, WinsOK(u.wins, n), NEW o
  PROVE  \/ ObjToPad(u, o) = 0 /\ ~ HasWin(u, o)
         \/ ObjToPad(u, o) \in 1 .. Len(u.wins) /\ u.wins[ObjToPad(u, o)].object = o /\ HasWin(u, o)
<1> DEFINE T == { j \in 1 .. Len(u.wins) : u.wins[j].object = o }
<1>1. ObjToPad(u, o) = IF T # {} THEN Max(T) ELSE 0
  BY Zenon DEF ObjToPad, SelectLastInSeq
<1>2. CASE T = {}
  <2>1. \A j \in 1 .. Len(u.wins) : u.wins[j].object # o
    BY <1>2
  <2>2. QED BY <1>1, <1>2, <2>1, Zenon DEF HasWin
<1>3. CASE T # {}
  <2>1. u.wins \in Seq(Window(n))
    BY Zenon DEF WinsOK
  <2>2. T \subseteq 0 .. Len(u.wins) /\ Len(u.wins) \in Nat
    BY <2>1
  <2>3. Max(T) \in T
    BY <1>3, <2>2, MaxExists, Zenon
  <2>4. ObjToPad(u, o) = Max(T)
    BY <1>1, <1>3, Zenon
  <2>5. ObjToPad(u, o) \in T
    BY <2>3, <2>4, Zenon
  <2>6. ObjToPad(u, o) \in 1 .. Len(u.wins) /\ u.wins[ObjToPad(u, o)].object = o
    BY <2>5
  <2>7. QED BY <2>6, Zenon DEF HasWin
<1>4. QED BY <1>2, <1>3, Zenon

\* The window of an object is the one that is its.
LEMMA WinAt ==
  ASSUME NEW n \in Nat, NEW u, WinsOK(u.wins, n), NEW i, i \in 1 .. Len(u.wins)
  PROVE  /\ Win(u, u.wins[i].object) = u.wins[i] /\ ObjToPad(u, u.wins[i].object) = i
         /\ u.wins[i] \in Window(n) /\ WinOK(u.wins[i])
<1>1. PICK o : o = u.wins[i].object
  OBVIOUS
<1>2. HasWin(u, o)
  BY <1>1, Zenon DEF HasWin
<1>3. ObjToPad(u, o) \in 1 .. Len(u.wins) /\ u.wins[ObjToPad(u, o)].object = o
  BY <1>2, ObjToPadIs, Zenon
<1>4. ObjToPad(u, o) = i
  BY <1>1, <1>3, Zenon DEF WinsOK, OneEach
<1>5. u.wins \in Seq(Window(n))
  BY Zenon DEF WinsOK
<1>6. u.wins[i] \in Window(n)
  BY <1>5
<1>7. QED BY <1>1, <1>2, <1>4, <1>6, Zenon DEF Win, WinsOK

LEMMA WinOf ==
  ASSUME NEW n \in Nat, NEW u, WinsOK(u.wins, n), NEW o, NEW i, i \in 1 .. Len(u.wins), u.wins[i].object = o
  PROVE  Win(u, o) = u.wins[i]
<1>1. Win(u, u.wins[i].object) = u.wins[i]
  BY WinAt, Zenon
<1>2. QED BY <1>1, Zenon

LEMMA NoWinIs ==
  ASSUME NEW n \in Nat, NEW w \in Window(n)
  PROVE  w # NoWin /\ NoWin.oid = 0 /\ w.oid # 0
<1>1. w.object \in Obj /\ w.oid \in 1 .. n
  BY WindowIs, Zenon
<1>2. NoWin.object = NoObj /\ NoWin.oid = 0
  BY DEF NoWin
<1>3. w.oid # 0
  BY <1>1
<1>4. QED BY <1>1, <1>2, <1>3, Constants, Zenon

\* An object has a window, or none.
LEMMA WinIs ==
  ASSUME NEW n \in Nat, NEW u, WinsOK(u.wins, n), NEW o
  PROVE  \/ ObjToPad(u, o) = 0 /\ ~ HasWin(u, o) /\ Win(u, o) = NoWin
         \/ /\ ObjToPad(u, o) \in 1 .. Len(u.wins) /\ ObjToPad(u, o) # 0
            /\ HasWin(u, o) /\ Win(u, o) = u.wins[ObjToPad(u, o)]
            /\ Win(u, o) # NoWin /\ Win(u, o) \in Window(n) /\ WinOK(Win(u, o)) /\ Win(u, o).object = o
<1>1. CASE ObjToPad(u, o) = 0 /\ ~ HasWin(u, o)
  BY <1>1, Zenon DEF Win
<1>2. CASE ObjToPad(u, o) \in 1 .. Len(u.wins) /\ u.wins[ObjToPad(u, o)].object = o /\ HasWin(u, o)
  <2>1. Win(u, o) = u.wins[ObjToPad(u, o)]
    BY <1>2, Zenon DEF Win
  <2>2. Win(u, o) \in Window(n) /\ WinOK(Win(u, o))
    BY <1>2, <2>1, WinAt, Zenon
  <2>3. Win(u, o) # NoWin
    BY <2>2, NoWinIs, Zenon
  <2>4. ObjToPad(u, o) # 0
    BY <1>2
  <2>5. QED BY <1>2, <2>1, <2>2, <2>3, <2>4, Zenon
<1>3. QED BY <1>1, <1>2, ObjToPadIs, Zenon

\* The windows of v are those of u, but for that of object o, which is w.
Except(v, u, o, w) ==
  /\ Win(v, o) = w
  /\ \A p : p # o => Win(v, p) = Win(u, p)

\* To know the window of each object of v it is enough to know, of each
\* window of v, where it is from, and that no other was lost.
LEMMA ExceptIs ==
  ASSUME NEW n \in Nat, NEW u, WinsOK(u.wins, n), NEW v, WinsOK(v.wins, n), NEW o, NEW w,
         \A j \in 1 .. Len(v.wins) : (v.wins[j].object = o /\ v.wins[j] = w)
                                       \/ (v.wins[j].object # o /\ \E i \in 1 .. Len(u.wins) : v.wins[j] = u.wins[i]),
         \A i \in 1 .. Len(u.wins) : u.wins[i].object # o => \E j \in 1 .. Len(v.wins) : v.wins[j] = u.wins[i],
         w = NoWin \/ \E j \in 1 .. Len(v.wins) : v.wins[j].object = o
  PROVE  Except(v, u, o, w)
<1>1. Win(v, o) = w
  <2>1. CASE HasWin(v, o)
    <3>1. PICK j \in 1 .. Len(v.wins) : v.wins[j].object = o
      BY <2>1, Zenon DEF HasWin
    <3>2. v.wins[j] = w
      BY <3>1, Zenon
    <3>3. Win(v, o) = v.wins[j]
      BY ONLY n \in Nat, WinsOK(v.wins, n), j \in 1 .. Len(v.wins), <3>1, WinOf, Zenon
    <3>4. QED BY <3>2, <3>3, Zenon
  <2>2. CASE ~ HasWin(v, o)
    BY <2>2, Zenon DEF HasWin, Win
  <2>3. QED BY <2>1, <2>2, Zenon
<1>2. ASSUME NEW p, p # o PROVE Win(v, p) = Win(u, p)
  <2>1. CASE HasWin(v, p)
    <3>1. PICK j \in 1 .. Len(v.wins) : v.wins[j].object = p
      BY <2>1, Zenon DEF HasWin
    <3>2. PICK i \in 1 .. Len(u.wins) : v.wins[j] = u.wins[i]
      BY <1>2, <3>1, Zenon
    <3>3. Win(v, p) = v.wins[j]
      BY ONLY n \in Nat, WinsOK(v.wins, n), j \in 1 .. Len(v.wins), <3>1, WinOf, Zenon
    <3>4. u.wins[i].object = p
      BY <3>1, <3>2, Zenon
    <3>5. Win(u, p) = u.wins[i]
      BY ONLY n \in Nat, WinsOK(u.wins, n), i \in 1 .. Len(u.wins), <3>4, WinOf, Zenon
    <3>6. QED BY <3>2, <3>3, <3>5, Zenon
  <2>2. CASE ~ HasWin(v, p)
    <3>1. ~ HasWin(u, p)
      <4>1. ASSUME NEW i \in 1 .. Len(u.wins), u.wins[i].object = p PROVE FALSE
        <5>1. PICK j \in 1 .. Len(v.wins) : v.wins[j] = u.wins[i]
          BY <1>2, <4>1, Zenon
        <5>2. v.wins[j].object = p
          BY <4>1, <5>1, Zenon
        <5>3. QED BY <2>2, <5>2, Zenon DEF HasWin
      <4>2. QED BY <4>1, Zenon DEF HasWin
    <3>2. QED BY <2>2, <3>1, Zenon DEF Win
  <2>3. QED BY <2>1, <2>2, Zenon
<1>3. QED BY <1>1, <1>2, Zenon DEF Except

\* A window is changed.
LEMMA Became ==
  ASSUME NEW n \in Nat, NEW u, WinsOK(u.wins, n), NEW i, i \in 1 .. Len(u.wins),
         NEW x \in Window(n), WinOK(x), x.object = u.wins[i].object,
         NEW v, v.wins = [u.wins EXCEPT ![i] = x]
  PROVE  WinsOK(v.wins, n) /\ Except(v, u, x.object, x)
<1>1. u.wins \in Seq(Window(n)) /\ OneEach(u.wins) /\ \A j \in 1 .. Len(u.wins) : WinOK(u.wins[j])
  BY Zenon DEF WinsOK
<1>2. /\ v.wins \in Seq(Window(n)) /\ Len(v.wins) = Len(u.wins) /\ v.wins[i] = x
      /\ \A j \in 1 .. Len(u.wins) : j # i => v.wins[j] = u.wins[j]
  BY <1>1
<1>3. \A j \in 1 .. Len(u.wins) : v.wins[j].object = u.wins[j].object
  BY <1>2, Zenon
<1>4. OneEach(v.wins)
  BY <1>1, <1>2, <1>3, Zenon DEF OneEach
<1>5. \A j \in 1 .. Len(v.wins) : WinOK(v.wins[j])
  BY <1>1, <1>2, Zenon
<1>6. WinsOK(v.wins, n)
  BY <1>2, <1>4, <1>5, Zenon DEF WinsOK
<1>7. ASSUME NEW j \in 1 .. Len(u.wins)
      PROVE  IF j = i THEN v.wins[j].object = x.object /\ v.wins[j] = x
             ELSE v.wins[j] = u.wins[j] /\ v.wins[j].object # x.object
  BY <1>1, <1>2, Zenon DEF OneEach
<1>8. \A j \in 1 .. Len(v.wins) : (v.wins[j].object = x.object /\ v.wins[j] = x)
         \/ (v.wins[j].object # x.object /\ \E h \in 1 .. Len(u.wins) : v.wins[j] = u.wins[h])
  BY <1>2, <1>7, Zenon
<1>9. \A h \in 1 .. Len(u.wins) : u.wins[h].object # x.object => \E j \in 1 .. Len(v.wins) : v.wins[j] = u.wins[h]
  BY <1>2, <1>7, Zenon
<1>10. \E j \in 1 .. Len(v.wins) : v.wins[j].object = x.object
  BY <1>2, Zenon
<1>11. Except(v, u, x.object, x)
  BY <1>6, <1>8, <1>9, <1>10, ExceptIs, Zenon
<1>12. QED BY <1>6, <1>11, Zenon

\* A window is added.
LEMMA Opens ==
  ASSUME NEW n \in Nat, NEW u, WinsOK(u.wins, n), NEW x \in Window(n), WinOK(x), ~ HasWin(u, x.object),
         NEW v, v.wins = Append(u.wins, x)
  PROVE  WinsOK(v.wins, n) /\ Except(v, u, x.object, x)
<1>1. u.wins \in Seq(Window(n)) /\ OneEach(u.wins) /\ \A j \in 1 .. Len(u.wins) : WinOK(u.wins[j])
  BY Zenon DEF WinsOK
<1>2. PICK N, N1 : N = Len(u.wins) /\ N1 = N + 1
  OBVIOUS
<1>3. /\ v.wins \in Seq(Window(n)) /\ Len(v.wins) = N1 /\ v.wins[N1] = x /\ N \in Nat
      /\ \A j \in 1 .. N : v.wins[j] = u.wins[j]
  BY <1>1, <1>2
<1>4. N1 \in 1 .. N1 /\ N1 \notin 1 .. N /\ \A j \in 1 .. N1 : j = N1 \/ j \in 1 .. N
  BY <1>2, <1>3
<1>5. \A j \in 1 .. N : v.wins[j].object # x.object /\ v.wins[j].object = u.wins[j].object /\ j \in 1 .. N1
  <2>1. \A j \in 1 .. N : u.wins[j].object # x.object
    BY <1>2, Zenon DEF HasWin
  <2>2. \A j \in 1 .. N : j \in 1 .. N1
    BY <1>2, <1>3
  <2>3. QED BY <1>3, <2>1, <2>2, Zenon
<1>6. ASSUME NEW a \in 1 .. N1, NEW b \in 1 .. N1, v.wins[a].object = v.wins[b].object PROVE a = b
  <2>1. CASE a \in 1 .. N /\ b \in 1 .. N
    <3>1. u.wins[a].object = u.wins[b].object
      BY <1>5, <1>6, <2>1, Zenon
    <3>2. QED BY <1>1, <1>2, <2>1, <3>1, Zenon DEF OneEach
  <2>2. CASE ~ (a \in 1 .. N /\ b \in 1 .. N)
    BY <1>3, <1>4, <1>5, <1>6, <2>2, Zenon
  <2>3. QED BY <2>1, <2>2, Zenon
<1>7. OneEach(v.wins)
  BY <1>3, <1>6, Zenon DEF OneEach
<1>8. \A j \in 1 .. Len(v.wins) : WinOK(v.wins[j])
  BY <1>1, <1>2, <1>3, <1>4, Zenon
<1>9. WinsOK(v.wins, n)
  BY <1>3, <1>7, <1>8, Zenon DEF WinsOK
<1>10. \A j \in 1 .. Len(v.wins) : (v.wins[j].object = x.object /\ v.wins[j] = x)
         \/ (v.wins[j].object # x.object /\ \E h \in 1 .. Len(u.wins) : v.wins[j] = u.wins[h])
  BY <1>2, <1>3, <1>4, <1>5, Zenon
<1>11. \A h \in 1 .. Len(u.wins) : u.wins[h].object # x.object => \E j \in 1 .. Len(v.wins) : v.wins[j] = u.wins[h]
  BY <1>2, <1>3, <1>5, Zenon
<1>12. \E j \in 1 .. Len(v.wins) : v.wins[j].object = x.object
  BY <1>3, <1>4, Zenon
<1>13. Except(v, u, x.object, x)
  BY <1>9, <1>10, <1>11, <1>12, ExceptIs, Zenon
<1>14. QED BY <1>9, <1>13, Zenon

\* A window is removed.
LEMMA Closes ==
  ASSUME NEW n \in Nat, NEW u, WinsOK(u.wins, n), NEW i, i \in 1 .. Len(u.wins),
         NEW v, v.wins = RemoveAt(u.wins, i)
  PROVE  WinsOK(v.wins, n) /\ Except(v, u, u.wins[i].object, NoWin)
<1>1. u.wins \in Seq(Window(n)) /\ OneEach(u.wins) /\ \A j \in 1 .. Len(u.wins) : WinOK(u.wins[j])
  BY Zenon DEF WinsOK
<1>2. PICK N, r : N = Len(u.wins) /\ r = v.wins
  OBVIOUS
<1>3. /\ r \in Seq(Window(n)) /\ Len(r) = N - 1
      /\ \A k \in 1 .. i - 1 : r[k] = u.wins[k]
      /\ \A k \in i .. N - 1 : r[k] = u.wins[k + 1]
  <2>1. r \in Seq(Window(n)) /\ Without(r, u.wins, i)
    BY <1>1, <1>2, RemoveIs
  <2>2. QED BY <1>2, <2>1, Zenon DEF Without
<1>4. N \in Nat /\ i \in 1 .. N
  BY <1>1, <1>2
<1>5. PICK p : p = [k \in 1 .. N - 1 |-> IF k < i THEN k ELSE k + 1]
  OBVIOUS
<1>6. \A k \in 1 .. N - 1 : p[k] \in 1 .. N /\ p[k] # i /\ r[k] = u.wins[p[k]]
  <2>1. ASSUME NEW k \in 1 .. N - 1 PROVE p[k] \in 1 .. N /\ p[k] # i /\ r[k] = u.wins[p[k]]
    <3>1. CASE k < i
      <4>1. p[k] = k /\ k \in 1 .. i - 1 /\ k \in 1 .. N /\ k # i
        BY <1>4, <1>5, <3>1
      <4>2. QED BY <1>3, <4>1, Zenon
    <3>2. CASE ~ (k < i)
      <4>1. p[k] = k + 1 /\ k \in i .. N - 1 /\ k + 1 \in 1 .. N /\ k + 1 # i
        BY <1>4, <1>5, <3>2
      <4>2. QED BY <1>3, <4>1, Zenon
    <3>3. QED BY <3>1, <3>2, Zenon
  <2>2. QED BY <2>1, Zenon
<1>7. \A a, b \in 1 .. N - 1 : p[a] = p[b] => a = b
  BY <1>4, <1>5
<1>8. \A h \in 1 .. N : h # i => \E k \in 1 .. N - 1 : p[k] = h
  <2>1. ASSUME NEW h \in 1 .. N, h # i PROVE \E k \in 1 .. N - 1 : p[k] = h
    <3>1. CASE h < i
      <4>1. h \in 1 .. N - 1 /\ p[h] = h
        BY <1>4, <1>5, <3>1
      <4>2. QED BY <4>1, Zenon
    <3>2. CASE ~ (h < i)
      <4>1. PICK k : k = h - 1
        OBVIOUS
      <4>2. k \in 1 .. N - 1 /\ p[k] = h
        BY <1>4, <1>5, <2>1, <3>2, <4>1
      <4>3. QED BY <4>2, Zenon
    <3>3. QED BY <3>1, <3>2, Zenon
  <2>2. QED BY <2>1, Zenon
<1>9. ASSUME NEW a \in 1 .. N - 1, NEW b \in 1 .. N - 1, r[a].object = r[b].object PROVE a = b
  <2>1. u.wins[p[a]].object = u.wins[p[b]].object
    BY <1>6, <1>9, Zenon
  <2>2. p[a] = p[b]
    BY <1>1, <1>2, <1>6, <2>1, Zenon DEF OneEach
  <2>3. QED BY <1>7, <2>2, Zenon
<1>10. WinsOK(r, n)
  <2>1. Len(r) = N - 1 /\ \A j \in 1 .. N - 1 : WinOK(r[j])
    BY <1>1, <1>2, <1>3, <1>6, Zenon
  <2>2. OneEach(r)
    BY <1>9, <2>1, Zenon DEF OneEach
  <2>3. QED BY <1>3, <2>1, <2>2, Zenon DEF WinsOK
<1>11. PICK o : o = u.wins[i].object
  OBVIOUS
<1>12. \A h \in 1 .. N : h # i => u.wins[h].object # o
  BY <1>1, <1>2, <1>11, Zenon DEF OneEach
<1>13. ASSUME NEW j \in 1 .. N - 1
       PROVE  r[j].object # o /\ \E h \in 1 .. N : r[j] = u.wins[h]
  BY <1>6, <1>12, Zenon
<1>14. ASSUME NEW h \in 1 .. N, u.wins[h].object # o
       PROVE  \E j \in 1 .. N - 1 : r[j] = u.wins[h]
  <2>1. h # i
    BY <1>11, <1>14
  <2>2. PICK j \in 1 .. N - 1 : p[j] = h
    BY <1>8, <2>1, Zenon
  <2>3. r[j] = u.wins[h]
    BY <1>6, <2>2, Zenon
  <2>4. QED BY <2>3, Zenon
<1>15. Except(v, u, o, NoWin)
  <2>1. \A j \in 1 .. Len(v.wins) : (v.wins[j].object = o /\ v.wins[j] = NoWin)
           \/ (v.wins[j].object # o /\ \E h \in 1 .. Len(u.wins) : v.wins[j] = u.wins[h])
    BY <1>2, <1>3, <1>13, Zenon
  <2>2. \A h \in 1 .. Len(u.wins) : u.wins[h].object # o => \E j \in 1 .. Len(v.wins) : v.wins[j] = u.wins[h]
    BY <1>2, <1>3, <1>14, Zenon
  <2>3. WinsOK(v.wins, n)
    BY <1>2, <1>10, Zenon
  <2>4. QED BY <2>1, <2>2, <2>3, ExceptIs, Zenon
<1>16. QED BY <1>2, <1>10, <1>11, <1>15, Zenon

-----------------------------------------------------------------------------
(* What a message does to the terminal. *)

\* The parts of a message.
LEMMA MessageIs ==
  ASSUME NEW n \in Nat, NEW m \in Message(n)
  PROVE  /\ m.op \in {"PADDEF", "ATTRIBUTE", "LINE", "NEXTLINE", "REMOVELINE", "CLEAR", "LINES",
                      "CREATELINE", "MAKEGAP", "DELETE"}
         /\ m.op # "NEXTLINE" => m.obj \in Obj
         /\ m.op = "PADDEF" => m.oid \in 1 .. n
         /\ m.op = "ATTRIBUTE" => m.attributes \in SUBSET Options
         /\ m.op = "LINE" => m.key \in Key /\ m.attributes \in LineAttributes
         /\ m.op \in {"LINE", "NEXTLINE"} => m.text \in Text
         /\ m.op = "REMOVELINE" => m.key \in Key
         /\ m.op = "LINES" => m.n \in Key
         /\ m.op = "CREATELINE" => m.lo \in Key /\ m.hi \in Key
         /\ m.op = "MAKEGAP" => m.key \in Key /\ m.gap = 1
BY DEF Message, PadDef, Attribute, FullLine, NextLine, RemoveLine, Clear, Limit, Creation, Gap, Deletion

\* The line that is made of a message.
PrevOf(u, m) ==
  IF m.op = "LINE" THEN [key |-> m.key, attributes |-> m.attributes]
  ELSE IF m.op = "NEXTLINE" THEN [key |-> u.prev.key + 1, attributes |-> u.prev.attributes] ELSE u.prev

LineOf(u, m) == [key |-> PrevOf(u, m).key, text |-> m.text, attributes |-> PrevOf(u, m).attributes]

LEMMA LineOfIs ==
  ASSUME NEW n \in Nat, NEW u, TermOK(u, n), NEW m \in Message(n), NEW ids, Fits(u, m, ids)
  PROVE  PrevOf(u, m) \in Prev /\ (m.op \in {"LINE", "NEXTLINE"} => LineOf(u, m) \in RealLine)
<1>1. u.prev \in Prev
  BY TerminalIs, Zenon
<1>2. /\ u.prev = [key |-> u.prev.key, attributes |-> u.prev.attributes]
      /\ u.prev.key \in Nat /\ u.prev.key <= MaxKey /\ u.prev.attributes \in LineAttributes \cup {{}}
  BY <1>1, Constants DEF Prev
<1>3. CASE m.op = "LINE"
  <2>1. m.key \in Key /\ m.attributes \in LineAttributes /\ m.text \in Text
    BY <1>3, MessageIs
  <2>2. PICK p : p = PrevOf(u, m)
    OBVIOUS
  <2>3. p = [key |-> m.key, attributes |-> m.attributes]
    BY <1>3, <2>2, Zenon DEF PrevOf
  <2>4. p \in Prev
    BY <2>1, <2>3, Constants DEF Prev, Key
  <2>5. LineOf(u, m) = [key |-> m.key, text |-> m.text, attributes |-> m.attributes]
    BY <2>2, <2>3 DEF LineOf
  <2>6. LineOf(u, m) \in RealLine
    BY <2>1, <2>5 DEF RealLine
  <2>7. QED BY <2>2, <2>4, <2>6, Zenon
<1>4. CASE m.op = "NEXTLINE"
  <2>1. m.text \in Text /\ u.prev.key < MaxKey
    BY <1>4, MessageIs DEF Fits
  <2>2. PICK p : p = PrevOf(u, m)
    OBVIOUS
  <2>3. p = [key |-> u.prev.key + 1, attributes |-> u.prev.attributes]
    BY <1>4, <2>2 DEF PrevOf
  <2>4. u.prev.key + 1 \in Key
    BY <1>2, <2>1, Constants DEF Key
  <2>5. p \in Prev
    BY <1>2, <2>3, <2>4, Constants DEF Prev, Key
  <2>6. QED
    <3>1. LineOf(u, m) = [key |-> u.prev.key + 1, text |-> m.text, attributes |-> u.prev.attributes]
      BY <2>2, <2>3 DEF LineOf
    <3>2. QED BY <1>2, <2>1, <2>2, <2>4, <2>5, <3>1 DEF RealLine
<1>5. CASE m.op \notin {"LINE", "NEXTLINE"}
  <2>1. PrevOf(u, m) = u.prev
    BY <1>5 DEF PrevOf
  <2>2. QED BY <1>1, <1>5, <2>1
<1>6. QED BY <1>3, <1>4, <1>5

\* Window v is what message m makes of window w; l is the line it brings.
Effect(v, w, m, l) ==
  /\ m.op = "PADDEF" => v = Fresh(m.obj, m.oid)
  /\ m.op # "PADDEF" /\ w = NoWin => v = NoWin
  /\ w # NoWin =>
       /\ m.op = "ATTRIBUTE" => v = [w EXCEPT !.attributes = m.attributes]
       /\ m.op \in {"LINE", "NEXTLINE"} => v = PutLine(w, l)
       /\ m.op = "REMOVELINE" => v = P_RemoveLine(w, m.key)
       /\ m.op = "CLEAR" => v = DelLines(w)
       /\ m.op = "LINES" => v = P_Lines(w, m.n)
       /\ m.op = "CREATELINE" => v = CreateLine(w, m.lo, m.hi)
       /\ m.op = "MAKEGAP" => v = MakeGap(w, m.key, 1)
       /\ m.op = "DELETE" => v = NoWin

\* The window stays the object's.
SameWin(v, w) == v.object = w.object /\ v.oid = w.oid

LEMMA KeepsSame ==
  ASSUME NEW n \in Nat, NEW w \in Window(n), NEW v \in Window(n), Keeps(v, w, v.lines)
  PROVE  SameWin(v, w) /\ v.attributes = w.attributes /\ v.max = w.max
<1>1. v.lines \in Seq(Line)
  BY WindowIs, Zenon
<1>2. v.object = w.object /\ v.oid = w.oid /\ v.attributes = w.attributes /\ v.max = w.max
  BY <1>1, KeepsIs
<1>3. QED BY <1>2, Zenon DEF SameWin

\* A window that gets a message it fits is a right one.
LEMMA EffectIs ==
  ASSUME NEW n \in Nat, NEW w \in Window(n), WinOK(w), NEW m \in Message(n), NEW ids, FitsWin(w, m, ids),
         m.op \notin {"PADDEF", "DELETE"}, NEW l, m.op \in {"LINE", "NEXTLINE"} => l \in RealLine,
         NEW v, Effect(v, w, m, l)
  PROVE  v \in Window(n) /\ WinOK(v) /\ SameWin(v, w)
<1>1. w # NoWin
  BY NoWinIs, Zenon
<1>2. CASE m.op = "ATTRIBUTE"
  <2>1. v = [w EXCEPT !.attributes = m.attributes] /\ w.max = 0 /\ w.lines = <<>> /\ m.attributes \in SUBSET Options
    BY <1>1, <1>2, MessageIs DEF Effect, FitsWin
  <2>2. PICK as : as = m.attributes
    OBVIOUS
  <2>3. /\ v \in Window(n) /\ WinOK(v)
        /\ v = [object |-> w.object, oid |-> w.oid, attributes |-> as, max |-> 0, lines |-> <<>>]
    <3>1. v = [w EXCEPT !.attributes = as] /\ w.max = 0 /\ w.lines = <<>> /\ as \in SUBSET Options
      BY <2>1, <2>2
    <3>2. QED BY ONLY n \in Nat, w \in Window(n), <3>1, AttributeIs
  <2>4. SameWin(v, w)
    BY <2>3 DEF SameWin
  <2>5. QED BY <2>3, <2>4, Zenon
<1>3. CASE m.op \in {"LINE", "NEXTLINE"}
  <2>1. v = PutLine(w, l) /\ l \in RealLine
    BY <1>1, <1>3, Zenon DEF Effect
  <2>2. v \in Window(n) /\ WinOK(v) /\ Keeps(v, w, v.lines)
    BY <2>1, PutLineIs, Zenon
  <2>3. QED BY <2>2, KeepsSame, Zenon
<1>4. CASE m.op = "REMOVELINE"
  <2>1. v = P_RemoveLine(w, m.key) /\ m.key \in Key
    BY <1>1, <1>4, MessageIs, Zenon DEF Effect
  <2>2. v \in Window(n) /\ WinOK(v) /\ Keeps(v, w, v.lines)
    BY <2>1, RemoveLineIs, Zenon
  <2>3. QED BY <2>2, KeepsSame, Zenon
<1>5. CASE m.op = "CLEAR"
  <2>1. v = DelLines(w)
    BY <1>1, <1>5, Zenon DEF Effect
  <2>2. v \in Window(n) /\ WinOK(v) /\ Keeps(v, w, v.lines)
    BY <2>1, DelLinesIs, Zenon
  <2>3. QED BY <2>2, KeepsSame, Zenon
<1>6. CASE m.op = "LINES"
  <2>1. v = P_Lines(w, m.n) /\ m.n \in Key /\ (w.max # 0 \/ w.lines = <<>>)
    BY <1>1, <1>6, MessageIs, Zenon DEF Effect, FitsWin
  <2>2. PICK k : k = m.n
    OBVIOUS
  <2>3. /\ v \in Window(n) /\ WinOK(v)
        /\ v = [object |-> w.object, oid |-> w.oid, attributes |-> w.attributes, max |-> k,
                lines |-> IF k < w.max THEN <<>> ELSE w.lines]
    BY <2>1, <2>2, LimitIs
  <2>4. SameWin(v, w)
    BY <2>3 DEF SameWin
  <2>5. QED BY <2>3, <2>4, Zenon
<1>7. CASE m.op = "CREATELINE"
  <2>1. v = CreateLine(w, m.lo, m.hi) /\ m.lo \in Key /\ m.hi \in Key
    BY <1>1, <1>7, MessageIs, Zenon DEF Effect
  <2>2. PICK lo, hi : lo = m.lo /\ hi = m.hi
    OBVIOUS
  <2>3. v \in Window(n) /\ WinOK(v) /\ Created(v, w, lo, hi)
    <3>1. v = CreateLine(w, lo, hi) /\ lo \in Key /\ hi \in Key
      BY <2>1, <2>2, Zenon
    <3>2. QED BY <3>1, CreateLineIs, Zenon
  <2>4. SameWin(v, w)
    BY <2>3 DEF SameWin, Created
  <2>5. QED BY <2>3, <2>4, Zenon
<1>8. CASE m.op = "MAKEGAP"
  <2>1. v = MakeGap(w, m.key, 1) /\ m.key \in Key /\ Plain(w) /\ \A x \in AsSet(w.lines) : x.key < MaxKey
    BY <1>1, <1>8, MessageIs, Zenon DEF Effect, FitsWin
  <2>2. v \in Window(n) /\ WinOK(v) /\ Keeps(v, w, v.lines)
    BY <2>1, MakeGapIs
  <2>3. QED BY <2>2, KeepsSame, Zenon
<1>9. m.op \in {"PADDEF", "ATTRIBUTE", "LINE", "NEXTLINE", "REMOVELINE", "CLEAR", "LINES",
                "CREATELINE", "MAKEGAP", "DELETE"}
  BY MessageIs, Zenon
<1>10. QED BY <1>2, <1>3, <1>4, <1>5, <1>6, <1>7, <1>8, <1>9

\* The terminal once it has unpacked the line of a message, if it has one.
OnceRead(u, m) == IF m.op \in {"LINE", "NEXTLINE"} THEN Unpacked(u, m) ELSE u

LEMMA OnceReadIs ==
  ASSUME NEW n \in Nat, NEW u, TermOK(u, n), NEW m \in Message(n), NEW ids, Fits(u, m, ids),
         NEW v, v = OnceRead(u, m)
  PROVE  /\ v = [wins |-> u.wins, LINEobj |-> IF m.op = "LINE" THEN m.obj ELSE u.LINEobj,
                 out |-> u.out, prev |-> PrevOf(u, m)]
         /\ TermOK(v, n)
<1>1. /\ u = [wins |-> u.wins, LINEobj |-> u.LINEobj, out |-> u.out, prev |-> u.prev]
      /\ u.LINEobj \in Obj \cup {NoObj} /\ u.out \in Seq(Request(n) \cup Closing(n))
      /\ u.prev \in Prev /\ WinsOK(u.wins, n)
  BY TerminalIs, Zenon
<1>2. PrevOf(u, m) \in Prev
  BY LineOfIs, Zenon
<1>3. PICK x, p : x = (IF m.op = "LINE" THEN m.obj ELSE u.LINEobj) /\ p = PrevOf(u, m)
  OBVIOUS
<1>4. x \in Obj \cup {NoObj}
  BY <1>1, <1>3, MessageIs
<1>5. v = [wins |-> u.wins, LINEobj |-> x, out |-> u.out, prev |-> p]
  <2>1. CASE m.op = "LINE"
    <3>1. v = [u EXCEPT !.LINEobj = m.obj, !.prev = [key |-> m.key, attributes |-> m.attributes]]
      BY <2>1 DEF OnceRead, Unpacked
    <3>2. x = m.obj /\ p = [key |-> m.key, attributes |-> m.attributes]
      BY <1>3, <2>1 DEF PrevOf
    <3>3. QED BY <1>1, <3>1, <3>2
  <2>2. CASE m.op = "NEXTLINE"
    <3>1. v = [u EXCEPT !.prev.key = @ + 1]
      BY <2>2 DEF OnceRead, Unpacked
    <3>2. x = u.LINEobj /\ p = [key |-> u.prev.key + 1, attributes |-> u.prev.attributes]
      BY <1>3, <2>2 DEF PrevOf
    <3>3. u.prev = [key |-> u.prev.key, attributes |-> u.prev.attributes]
      BY <1>1 DEF Prev
    <3>4. QED BY <1>1, <3>1, <3>2, <3>3
  <2>3. CASE m.op \notin {"LINE", "NEXTLINE"}
    <3>1. v = u /\ x = u.LINEobj /\ p = u.prev
      BY <1>3, <2>3 DEF OnceRead, PrevOf
    <3>2. QED BY <1>1, <3>1
  <2>4. QED BY <2>1, <2>2, <2>3
<1>6. TermOK(v, n)
  BY <1>1, <1>2, <1>3, <1>4, <1>5, ATerminal, Zenon
<1>7. QED BY <1>3, <1>5, <1>6, Zenon

\* Window x takes the place of the window of its object.
LEMMA Becomes ==
  ASSUME NEW n \in Nat, NEW u, TermOK(u, n), NEW o, NEW i, i = ObjToPad(u, o), i # 0,
         NEW x \in Window(n), WinOK(x), x.object = o, NEW v, v = [u EXCEPT !.wins[i] = x]
  PROVE  /\ TermOK(v, n) /\ Except(v, u, o, x)
         /\ v.prev = u.prev /\ v.LINEobj = u.LINEobj /\ v.out = u.out
<1>1. /\ u = [wins |-> u.wins, LINEobj |-> u.LINEobj, out |-> u.out, prev |-> u.prev]
      /\ u.LINEobj \in Obj \cup {NoObj} /\ u.out \in Seq(Request(n) \cup Closing(n))
      /\ u.prev \in Prev /\ WinsOK(u.wins, n)
  BY TerminalIs, Zenon
<1>2. i \in 1 .. Len(u.wins) /\ u.wins[i].object = o
  BY <1>1, ObjToPadIs, Zenon
<1>3. PICK ws : ws = [u.wins EXCEPT ![i] = x]
  OBVIOUS
<1>4. v = [wins |-> ws, LINEobj |-> u.LINEobj, out |-> u.out, prev |-> u.prev]
  BY <1>1, <1>3
<1>5. v.wins = ws /\ v.prev = u.prev /\ v.LINEobj = u.LINEobj /\ v.out = u.out
  BY <1>4
<1>6. v.wins = [u.wins EXCEPT ![i] = x] /\ x.object = u.wins[i].object
  BY <1>2, <1>3, <1>5, Zenon
<1>7. WinsOK(v.wins, n) /\ Except(v, u, x.object, x)
  BY ONLY n \in Nat, x \in Window(n), WinOK(x), <1>1, <1>2, <1>6, Became, Zenon
<1>8. TermOK(v, n)
  BY <1>1, <1>4, <1>5, <1>7, ATerminal, Zenon
<1>9. QED BY <1>5, <1>7, <1>8, Zenon

\* Which window it is for does not depend on the line.
LEMMA SameWins ==
  ASSUME NEW u, NEW v, v.wins = u.wins
  PROVE  \A o : Win(v, o) = Win(u, o) /\ ObjToPad(v, o) = ObjToPad(u, o)
<1>1. \A o : HasWin(v, o) <=> HasWin(u, o)
  BY Zenon DEF HasWin
<1>2. \A o : ObjToPad(v, o) = ObjToPad(u, o)
  BY Zenon DEF ObjToPad
<1>3. QED BY <1>1, <1>2, Zenon DEF Win

\* PadOp, message by message; r is the terminal that has unpacked the line.
LEMMA PadOpCases ==
  ASSUME NEW n \in Nat, NEW u, NEW m \in Message(n), NEW r, r = OnceRead(u, m), NEW o, o = Target(r, m),
         NEW i, i = ObjToPad(r, o), NEW l, l = [key |-> r.prev.key, text |-> m.text, attributes |-> r.prev.attributes],
         NEW w, w = r.wins[i], NEW v, v = PadOp(u, m)
  PROVE  /\ m.op = "PADDEF" => v = P_Define(r, m.obj, m.oid)
         /\ m.op # "PADDEF" /\ i = 0 => v = r
         /\ i # 0 =>
              /\ m.op = "ATTRIBUTE" => v = [r EXCEPT !.wins[i] = [w EXCEPT !.attributes = m.attributes]]
              /\ m.op \in {"LINE", "NEXTLINE"} => v = [r EXCEPT !.wins[i] = PutLine(w, l)]
              /\ m.op = "REMOVELINE" => v = [r EXCEPT !.wins[i] = P_RemoveLine(w, m.key)]
              /\ m.op = "CLEAR" => v = [r EXCEPT !.wins[i] = DelLines(w)]
              /\ m.op = "LINES" => v = [r EXCEPT !.wins[i] = P_Lines(w, m.n)]
              /\ m.op = "CREATELINE" => v = [r EXCEPT !.wins[i] = CreateLine(w, m.lo, m.hi)]
              /\ m.op = "MAKEGAP" => v = [r EXCEPT !.wins[i] = MakeGap(w, m.key, m.gap)]
              /\ m.op = "DELETE" => v = P_Delete(r, i)
<1> DEFINE become(x) == [r EXCEPT !.wins[i] = x]
<1>1. v = CASE m.op = "PADDEF" -> P_Define(r, m.obj, m.oid)
            [] m.op # "PADDEF" /\ i = 0 -> r
            [] m.op = "ATTRIBUTE" /\ i # 0 -> become([w EXCEPT !.attributes = m.attributes])
            [] m.op \in {"LINE", "NEXTLINE"} /\ i # 0 -> become(PutLine(w, l))
            [] m.op = "REMOVELINE" /\ i # 0 -> become(P_RemoveLine(w, m.key))
            [] m.op = "CLEAR" /\ i # 0 -> become(DelLines(w))
            [] m.op = "LINES" /\ i # 0 -> become(P_Lines(w, m.n))
            [] m.op = "CREATELINE" /\ i # 0 -> become(CreateLine(w, m.lo, m.hi))
            [] m.op = "MAKEGAP" /\ i # 0 -> become(MakeGap(w, m.key, m.gap))
            [] m.op = "DELETE" /\ i # 0 -> P_Delete(r, i)
  BY Zenon DEF PadOp, OnceRead, Target
<1> HIDE DEF become
<1>2. /\ m.op = "PADDEF" => v = P_Define(r, m.obj, m.oid)
      /\ m.op # "PADDEF" /\ i = 0 => v = r
      /\ i # 0 =>
           /\ m.op = "ATTRIBUTE" => v = become([w EXCEPT !.attributes = m.attributes])
           /\ m.op \in {"LINE", "NEXTLINE"} => v = become(PutLine(w, l))
           /\ m.op = "REMOVELINE" => v = become(P_RemoveLine(w, m.key))
           /\ m.op = "CLEAR" => v = become(DelLines(w))
           /\ m.op = "LINES" => v = become(P_Lines(w, m.n))
           /\ m.op = "CREATELINE" => v = become(CreateLine(w, m.lo, m.hi))
           /\ m.op = "MAKEGAP" => v = become(MakeGap(w, m.key, m.gap))
           /\ m.op = "DELETE" => v = P_Delete(r, i)
  BY ONLY <1>1
<1>3. QED BY <1>2, Zenon DEF become

ClosingOf(w) == [op |-> "USERCLOSE", obj |-> w.object, oid |-> w.oid]

\* P_DELETE: no window of the host's must stay.
LEMMA DeleteIs ==
  ASSUME NEW n \in Nat, NEW u, TermOK(u, n), NEW o, NEW i, i = ObjToPad(u, o), i # 0, NEW v, v = P_Delete(u, i)
  PROVE  /\ TermOK(v, n) /\ Except(v, u, o, NoWin)
         /\ v.prev = u.prev /\ v.LINEobj = u.LINEobj /\ v.out = Append(u.out, ClosingOf(Win(u, o)))
<1>1. /\ u = [wins |-> u.wins, LINEobj |-> u.LINEobj, out |-> u.out, prev |-> u.prev]
      /\ u.LINEobj \in Obj \cup {NoObj} /\ u.out \in Seq(Request(n) \cup Closing(n))
      /\ u.prev \in Prev /\ WinsOK(u.wins, n)
  BY TerminalIs, Zenon
<1>2. PICK w : w = u.wins[i]
  OBVIOUS
<1>3. i \in 1 .. Len(u.wins) /\ w.object = o /\ w = Win(u, o) /\ w \in Window(n) /\ WinOK(w)
  <2>1. ObjToPad(u, o) \in 1 .. Len(u.wins) /\ u.wins[ObjToPad(u, o)].object = o
    BY <1>1, ObjToPadIs, Zenon
  <2>2. i \in 1 .. Len(u.wins) /\ u.wins[i].object = o
    BY <2>1, Zenon
  <2>3. Win(u, u.wins[i].object) = u.wins[i] /\ u.wins[i] \in Window(n) /\ WinOK(u.wins[i])
    BY <1>1, <2>2, WinAt, Zenon
  <2>4. QED BY <1>2, <2>2, <2>3, Zenon
<1>4. /\ w = [object |-> w.object, oid |-> w.oid, attributes |-> w.attributes, max |-> w.max, lines |-> w.lines]
      /\ w.attributes \in SUBSET (Options \cup {"FAKELINE"}) /\ w.object \in Obj /\ w.oid \in 1 .. n
  BY <1>3, WindowIs, Zenon
<1>5. PICK x, ws : /\ x = [w EXCEPT !.attributes = @ \cup {"USERCLOSE"}]
                   /\ ws = [u.wins EXCEPT ![i] = x]
  OBVIOUS
<1>6. PICK r : r = [u EXCEPT !.wins[i].attributes = @ \cup {"USERCLOSE"}]
  OBVIOUS
<1>7. u.wins \in Seq(Window(n))
  BY <1>1, Zenon DEF WinsOK
<1>8. r = [wins |-> ws, LINEobj |-> u.LINEobj, out |-> u.out, prev |-> u.prev]
  BY <1>1, <1>2, <1>5, <1>6
<1>9. x = [object |-> w.object, oid |-> w.oid, attributes |-> w.attributes \cup {"USERCLOSE"},
           max |-> w.max, lines |-> w.lines]
  BY <1>4, <1>5
<1>10. ws[i] = x /\ Len(ws) = Len(u.wins)
  BY <1>3, <1>5, <1>7
<1>11. "DONT_CLOSE" \notin Options
  <2>1. ASSUME "DONT_CLOSE" \in Options PROVE FALSE
    <3>1. PICK kind \in AllKinds : "DONT_CLOSE" \in kind.attributes
      BY <2>1 DEF Options
    <3>2. PICK p \in Obj : kind \in Kinds[p]
      BY <3>1 DEF AllKinds
    <3>3. {"DONT_CLOSE", "FAKELINE"} \cap kind.attributes = {}
      BY <3>2, KindsAssumption, Zenon
    <3>4. QED BY <3>1, <3>3
  <2>2. QED BY <2>1
<1>12. "DONT_CLOSE" \notin x.attributes /\ "USERCLOSE" \in x.attributes
  BY <1>4, <1>9, <1>11
<1>13. v = [r EXCEPT !.out = Append(@, [op |-> "USERCLOSE", obj |-> x.object, oid |-> x.oid]),
                     !.wins = RemoveAt(@, i)]
  <2>1. r.wins[i] = x
    BY <1>8, <1>10
  <2>2. v = DeletePad(r, i)
    BY <1>6, Zenon DEF P_Delete
  <2>3. v = [[r EXCEPT !.out = Append(@, [op |-> "USERCLOSE", obj |-> x.object, oid |-> x.oid])] EXCEPT !.wins = RemoveAt(@, i)]
    BY <1>12, <2>1, <2>2, Zenon DEF DeletePad
  <2>4. QED BY <1>8, <2>3
<1>14. PICK e : e = [op |-> "USERCLOSE", obj |-> w.object, oid |-> w.oid]
  OBVIOUS
<1>15. v = [wins |-> RemoveAt(ws, i), LINEobj |-> u.LINEobj, out |-> Append(u.out, e), prev |-> u.prev]
  <2>1. e = [op |-> "USERCLOSE", obj |-> x.object, oid |-> x.oid]
    BY <1>9, <1>14
  <2>2. r.wins = ws /\ r.out = u.out /\ r.LINEobj = u.LINEobj /\ r.prev = u.prev
    BY <1>8
  <2>3. v = [r EXCEPT !.out = Append(u.out, e), !.wins = RemoveAt(ws, i)]
    BY <1>13, <2>1, <2>2, Zenon
  <2>4. PICK ws2, out2 : ws2 = RemoveAt(ws, i) /\ out2 = Append(u.out, e)
    OBVIOUS
  <2>5. v = [r EXCEPT !.out = out2, !.wins = ws2]
    BY <2>3, <2>4
  <2>6. v = [wins |-> ws2, LINEobj |-> u.LINEobj, out |-> out2, prev |-> u.prev]
    BY <1>8, <2>5
  <2>7. QED BY <2>4, <2>6
<1>16. RemoveAt(ws, i) = RemoveAt(u.wins, i)
  <2>1. PICK a, b, S : a = RemoveAt(ws, i) /\ b = RemoveAt(u.wins, i) /\ S = Window(n) \cup {x}
    OBVIOUS
  <2>2. u.wins \in Seq(S) /\ ws \in Seq(S) /\ Len(ws) = Len(u.wins) /\ i \in 1 .. Len(ws)
        /\ \A j \in 1 .. Len(u.wins) : j # i => ws[j] = u.wins[j]
    BY <1>3, <1>5, <1>7, <2>1
  <2>3. a \in Seq(S) /\ Without(a, ws, i)
    BY <2>1, <2>2, RemoveIs
  <2>4. b \in Seq(S) /\ Without(b, u.wins, i)
    BY <1>3, <2>1, <2>2, RemoveIs
  <2>5. PICK N : N = Len(ws)
    OBVIOUS
  <2>6. Len(a) = N - 1 /\ Len(b) = N - 1 /\ N \in Nat
    <3>1. Len(a) = N - 1 /\ Len(b) = N - 1
      BY <2>2, <2>3, <2>4, <2>5, Zenon DEF Without
    <3>2. N \in Nat
      BY <2>2, <2>5
    <3>3. QED BY <3>1, <3>2, Zenon
  <2>7. ASSUME NEW k \in 1 .. N - 1 PROVE a[k] = b[k]
    <3>1. CASE k < i
      <4>1. k \in 1 .. i - 1 /\ k \in 1 .. N /\ k # i
        BY <2>2, <2>5, <2>6, <3>1
      <4>2. QED BY <2>2, <2>3, <2>4, <2>5, <4>1, Zenon DEF Without
    <3>2. CASE ~ (k < i)
      <4>1. k \in i .. N - 1 /\ k + 1 \in 1 .. N /\ k + 1 # i
        BY <2>2, <2>5, <2>6, <3>2
      <4>2. QED BY <2>2, <2>3, <2>4, <2>5, <4>1, Zenon DEF Without
    <3>3. QED BY <3>1, <3>2, Zenon
  <2>8. a = b
    BY <2>3, <2>4, <2>6, <2>7
  <2>9. QED BY <2>1, <2>8, Zenon
<1>17. e \in Request(n) \cup Closing(n) /\ e = ClosingOf(Win(u, o))
  BY <1>3, <1>4, <1>14 DEF Closing, ClosingOf
<1>18. Append(u.out, e) \in Seq(Request(n) \cup Closing(n))
  BY <1>1, <1>17
<1>19. v.wins = RemoveAt(u.wins, i) /\ v.prev = u.prev /\ v.LINEobj = u.LINEobj /\ v.out = Append(u.out, e)
  BY <1>15, <1>16
<1>20. WinsOK(v.wins, n) /\ Except(v, u, u.wins[i].object, NoWin)
  BY ONLY n \in Nat, <1>1, <1>3, <1>19, Closes, Zenon
<1>21. TermOK(v, n)
  BY <1>1, <1>15, <1>18, <1>19, <1>20, ATerminal, Zenon
<1>22. QED BY <1>2, <1>3, <1>17, <1>19, <1>20, <1>21, Zenon

\* What the terminal sends when it reads message m.
Tells(v, u, m) ==
  v.out = u.out \/ (m.op = "DELETE" /\ Win(u, m.obj) # NoWin /\ v.out = Append(u.out, ClosingOf(Win(u, m.obj))))

\* Terminal v is what message m makes of u.
Step(v, u, m, n) ==
  /\ TermOK(v, n)
  /\ v.prev = PrevOf(u, m) /\ v.LINEobj = IF m.op = "LINE" THEN m.obj ELSE u.LINEobj
  /\ Tells(v, u, m)
  /\ Effect(Win(v, Target(u, m)), Win(u, Target(u, m)), m, LineOf(u, m))
  /\ \A p : p # Target(u, m) => Win(v, p) = Win(u, p)

LEMMA PadOpIs ==
  ASSUME NEW n \in Nat, NEW u, TermOK(u, n), NEW m \in Message(n), NEW ids, Fits(u, m, ids),
         NEW v, v = PadOp(u, m)
  PROVE  Step(v, u, m, n)
<1>1. PICK r, o, p : r = OnceRead(u, m) /\ o = Target(u, m) /\ p = IF m.op = "LINE" THEN m.obj ELSE u.LINEobj
  OBVIOUS
<1>2. /\ r = [wins |-> u.wins, LINEobj |-> p, out |-> u.out, prev |-> PrevOf(u, m)]
      /\ TermOK(r, n)
  BY <1>1, OnceReadIs, Zenon
<1>3. r.wins = u.wins /\ r.LINEobj = p /\ r.out = u.out /\ r.prev = PrevOf(u, m)
  BY <1>2
<1>4. Target(r, m) = o
  BY <1>1, <1>3 DEF Target
<1>5. PICK i, w, l : i = ObjToPad(r, o) /\ w = r.wins[i] /\ l = LineOf(u, m)
  OBVIOUS
<1>6. l = [key |-> r.prev.key, text |-> m.text, attributes |-> r.prev.attributes]
  BY <1>3, <1>5, Zenon DEF LineOf
<1>7. \A q : Win(r, q) = Win(u, q)
  BY <1>3, SameWins, Zenon
<1>8. WinsOK(r.wins, n)
  BY <1>2, TerminalIs, Zenon
<1>9. FitsWin(Win(u, o), m, ids) /\ (m.op \in {"LINE", "NEXTLINE"} => l \in RealLine)
  BY <1>1, <1>5, LineOfIs, Zenon DEF Fits
<1>10. m.op # "NEXTLINE" => o = m.obj
  BY <1>1, Zenon DEF Target
<1>11. /\ m.op = "PADDEF" => v = P_Define(r, m.obj, m.oid)
       /\ m.op # "PADDEF" /\ i = 0 => v = r
       /\ i # 0 =>
            /\ m.op = "ATTRIBUTE" => v = [r EXCEPT !.wins[i] = [w EXCEPT !.attributes = m.attributes]]
            /\ m.op \in {"LINE", "NEXTLINE"} => v = [r EXCEPT !.wins[i] = PutLine(w, l)]
            /\ m.op = "REMOVELINE" => v = [r EXCEPT !.wins[i] = P_RemoveLine(w, m.key)]
            /\ m.op = "CLEAR" => v = [r EXCEPT !.wins[i] = DelLines(w)]
            /\ m.op = "LINES" => v = [r EXCEPT !.wins[i] = P_Lines(w, m.n)]
            /\ m.op = "CREATELINE" => v = [r EXCEPT !.wins[i] = CreateLine(w, m.lo, m.hi)]
            /\ m.op = "MAKEGAP" => v = [r EXCEPT !.wins[i] = MakeGap(w, m.key, m.gap)]
            /\ m.op = "DELETE" => v = P_Delete(r, i)
  <2>1. o = Target(r, m)
    BY <1>4, Zenon
  <2>2. QED BY ONLY n \in Nat, m \in Message(n), v = PadOp(u, m), <1>1, <1>5, <1>6, <2>1, PadOpCases
<1>12. PICK x : /\ TermOK(v, n) /\ Except(v, r, o, x) /\ Effect(x, Win(u, o), m, l)
                /\ v.prev = r.prev /\ v.LINEobj = r.LINEobj /\ Tells(v, u, m)
  <2>1. CASE m.op = "PADDEF"
    <3>1. v = P_Define(r, m.obj, m.oid) /\ o = m.obj /\ m.obj \in Obj /\ m.oid \in 1 .. n
      BY <1>10, <1>11, <2>1, MessageIs, Zenon
    <3>2. Win(r, o) = NoWin
      BY <1>7, <1>9, <2>1, Zenon DEF FitsWin
    <3>3. ObjToPad(r, m.obj) = 0 /\ ~ HasWin(r, m.obj)
      BY <1>8, <3>1, <3>2, WinIs, Zenon
    <3>4. PICK x : x = Fresh(m.obj, m.oid)
      OBVIOUS
    <3>5. x \in Window(n) /\ WinOK(x)
      BY <3>1, <3>4, FreshIs, Zenon
    <3>6. x.object = m.obj
      BY <3>4 DEF Fresh
    <3>7. v = [r EXCEPT !.wins = Append(@, x)]
      BY <3>1, <3>3, <3>4, Zenon DEF P_Define, Fresh
    <3>8. PICK ws : ws = Append(u.wins, x)
      OBVIOUS
    <3>9. v = [wins |-> ws, LINEobj |-> p, out |-> u.out, prev |-> PrevOf(u, m)]
      BY <1>2, <3>7, <3>8
    <3>10. v.wins = ws /\ v.LINEobj = r.LINEobj /\ v.out = u.out /\ v.prev = r.prev
      BY <1>3, <3>9
    <3>11. v.wins = Append(r.wins, x)
      BY <1>3, <3>8, <3>10, Zenon
    <3>12. ~ HasWin(r, x.object)
      BY <3>3, <3>6, Zenon
    <3>13. WinsOK(v.wins, n) /\ Except(v, r, x.object, x)
      BY ONLY n \in Nat, <1>8, <3>5, <3>11, <3>12, Opens, Zenon
    <3>14. /\ p \in Obj \cup {NoObj} /\ u.out \in Seq(Request(n) \cup Closing(n))
           /\ PrevOf(u, m) \in Prev
      BY <1>2, <1>3, TerminalIs, Zenon
    <3>15. TermOK(v, n)
      BY <3>9, <3>10, <3>13, <3>14, ATerminal, Zenon
    <3>16. Effect(x, Win(u, o), m, l)
      BY <1>9, <2>1, <3>4 DEF Effect, FitsWin
    <3>17. QED BY <3>1, <3>6, <3>10, <3>13, <3>15, <3>16, Zenon DEF Tells
  <2>2. CASE m.op # "PADDEF" /\ i = 0
    <3>1. v = r
      BY <1>11, <2>2, Zenon
    <3>2. Win(r, o) = NoWin
      <4>1. ObjToPad(r, o) = 0
        BY <1>5, <2>2, Zenon
      <4>2. QED BY ONLY n \in Nat, <1>8, <4>1, WinIs, Zenon
    <3>3. Except(v, r, o, NoWin)
      BY <3>1, <3>2, Zenon DEF Except
    <3>4. Effect(NoWin, Win(u, o), m, l)
      BY <1>7, <2>2, <3>2, Zenon DEF Effect
    <3>5. Tells(v, u, m)
      BY <1>3, <3>1, Zenon DEF Tells
    <3>6. QED BY <1>2, <3>1, <3>3, <3>4, <3>5, Zenon
  <2>3. CASE m.op = "DELETE" /\ i # 0
    <3>1. v = P_Delete(r, i)
      BY <1>11, <2>3, Zenon
    <3>2. /\ TermOK(v, n) /\ Except(v, r, o, NoWin)
          /\ v.prev = r.prev /\ v.LINEobj = r.LINEobj /\ v.out = Append(r.out, ClosingOf(Win(r, o)))
      <4>1. TermOK(r, n) /\ i = ObjToPad(r, o) /\ i # 0
        BY <1>2, <1>5, <2>3, Zenon
      <4>2. QED BY ONLY n \in Nat, <3>1, <4>1, DeleteIs, SMT
    <3>3. Win(r, o) # NoWin /\ o = m.obj
      BY ONLY n \in Nat, <1>5, <1>8, <1>10, <2>3, WinIs
    <3>4. Tells(v, u, m)
      BY <1>3, <1>7, <2>3, <3>2, <3>3, Zenon DEF Tells
    <3>5. Effect(NoWin, Win(u, o), m, l)
      BY <2>3 DEF Effect
    <3>6. QED BY <3>2, <3>4, <3>5, Zenon
  <2>4. CASE m.op \notin {"PADDEF", "DELETE"} /\ i # 0
    <3>1. w = Win(u, o) /\ w # NoWin /\ w \in Window(n) /\ WinOK(w) /\ w.object = o
      <4>1. /\ ObjToPad(r, o) \in 1 .. Len(r.wins) /\ Win(r, o) = r.wins[ObjToPad(r, o)]
            /\ Win(r, o) # NoWin /\ Win(r, o) \in Window(n) /\ WinOK(Win(r, o)) /\ Win(r, o).object = o
        BY ONLY n \in Nat, <1>5, <1>8, <2>4, WinIs, SMT
      <4>2. w = Win(u, o) /\ w = Win(r, o)
        BY <1>5, <1>7, <4>1, Zenon
      <4>3. QED BY <4>1, <4>2, Zenon
    <3>2. PICK x : v = [r EXCEPT !.wins[i] = x] /\ Effect(x, w, m, l)
      <4>1. /\ m.op = "ATTRIBUTE" => v = [r EXCEPT !.wins[i] = [w EXCEPT !.attributes = m.attributes]]
            /\ m.op \in {"LINE", "NEXTLINE"} => v = [r EXCEPT !.wins[i] = PutLine(w, l)]
            /\ m.op = "REMOVELINE" => v = [r EXCEPT !.wins[i] = P_RemoveLine(w, m.key)]
            /\ m.op = "CLEAR" => v = [r EXCEPT !.wins[i] = DelLines(w)]
            /\ m.op = "LINES" => v = [r EXCEPT !.wins[i] = P_Lines(w, m.n)]
            /\ m.op = "CREATELINE" => v = [r EXCEPT !.wins[i] = CreateLine(w, m.lo, m.hi)]
            /\ m.op = "MAKEGAP" => v = [r EXCEPT !.wins[i] = MakeGap(w, m.key, m.gap)]
        BY <1>11, <2>4, Zenon
      <4>2. m.op = "MAKEGAP" => m.gap = 1
        BY MessageIs, Zenon
      <4>3. m.op \in {"PADDEF", "ATTRIBUTE", "LINE", "NEXTLINE", "REMOVELINE", "CLEAR", "LINES",
                      "CREATELINE", "MAKEGAP", "DELETE"}
        BY MessageIs, Zenon
      <4>4. PICK x : x = IF m.op = "ATTRIBUTE" THEN [w EXCEPT !.attributes = m.attributes]
                         ELSE IF m.op \in {"LINE", "NEXTLINE"} THEN PutLine(w, l)
                         ELSE IF m.op = "REMOVELINE" THEN P_RemoveLine(w, m.key)
                         ELSE IF m.op = "CLEAR" THEN DelLines(w)
                         ELSE IF m.op = "LINES" THEN P_Lines(w, m.n)
                         ELSE IF m.op = "CREATELINE" THEN CreateLine(w, m.lo, m.hi)
                         ELSE MakeGap(w, m.key, 1)
        OBVIOUS
      <4>5. v = [r EXCEPT !.wins[i] = x]
        BY <2>4, <4>1, <4>2, <4>3, <4>4
      <4>6. Effect(x, w, m, l)
        BY <2>4, <3>1, <4>3, <4>4 DEF Effect
      <4>7. QED BY <4>5, <4>6, Zenon
    <3>3. x \in Window(n) /\ WinOK(x) /\ SameWin(x, w)
      BY <1>9, <2>4, <3>1, <3>2, EffectIs
    <3>4. x.object = o
      BY <3>1, <3>3, Zenon DEF SameWin
    <3>5. /\ TermOK(v, n) /\ Except(v, r, o, x)
          /\ v.prev = r.prev /\ v.LINEobj = r.LINEobj /\ v.out = r.out
      BY ONLY n \in Nat, <1>2, <1>5, <2>4, <3>2, <3>3, <3>4, Becomes, Zenon
    <3>6. QED BY <1>3, <3>1, <3>2, <3>5, Zenon DEF Tells
  <2>5. QED BY <2>1, <2>2, <2>3, <2>4
<1>13. QED BY <1>1, <1>3, <1>5, <1>7, <1>12, Zenon DEF Step, Except

-----------------------------------------------------------------------------
(* The terminal after each of the messages under way. *)

Reads(r, u, s) == r[0] = u /\ \A i \in 1 .. Len(s) : r[i] = PadOp(r[i - 1], s[i])

LEMMA ReadsOnce ==
  ASSUME NEW s, NEW n \in Nat, n = Len(s), NEW u, NEW g, NEW h, Reads(g, u, s), Reads(h, u, s)
  PROVE  \A i \in 0 .. n : g[i] = h[i]
<1>1. SUFFICES ASSUME NEW k \in 0 .. n PROVE g[k] = h[k]
  OBVIOUS
<1> DEFINE T == { i \in 0 .. n : g[i] = h[i] }
<1>2. 0 \in T
  <2>1. g[0] = h[0]
    BY Zenon DEF Reads
  <2>2. QED BY <2>1
<1>3. \A i \in 0 .. n - 1 : i \in T => i + 1 \in T
  <2>1. ASSUME NEW i \in 0 .. n - 1, i \in T PROVE i + 1 \in T
    <3>1. i + 1 \in 1 .. n /\ i + 1 \in 0 .. n /\ (i + 1) - 1 = i /\ g[i] = h[i]
      BY <2>1
    <3>2. g[i + 1] = PadOp(g[i], s[i + 1]) /\ h[i + 1] = PadOp(h[i], s[i + 1])
      BY <3>1, Zenon DEF Reads
    <3>3. g[i + 1] = h[i + 1]
      BY <3>1, <3>2, Zenon
    <3>4. QED BY <3>1, <3>3
  <2>2. QED BY <2>1, Zenon
<1> HIDE DEF T
<1>4. k \in Nat /\ \A i \in 0 .. k - 1 : i \in 0 .. n - 1
  OBVIOUS
<1>5. k \in T
  BY <1>2, <1>3, <1>4, InductTo, Zenon
<1>6. QED BY <1>5 DEF T

\* The terminal that DrainedOf gives is the last.
LEMMA DrainedIs ==
  ASSUME NEW S, NEW s \in Seq(S), NEW u, NEW h, Reads(h, u, s)
  PROVE  DrainedOf(u, s) = h[Len(s)]
<1>1. Len(s) \in Nat /\ DOMAIN s = 1 .. Len(s)
  OBVIOUS
<1>2. PICK g : Turns(g, "PadOp", {}, u, s) /\ FoldLeft(PadOp, u, s) = g[Len(s)]
  BY <1>1, PadOpTurns, Zenon
<1>3. \A m, e : Turn("PadOp", {}, m, e) = PadOp(m, e)
  BY DEF Turn
<1>4. Reads(g, u, s)
  BY <1>2, <1>3, Zenon DEF Turns, Reads
<1>5. PICK n : n = Len(s)
  OBVIOUS
<1>6. n \in Nat /\ n \in 0 .. n
  BY <1>1, <1>5
<1>7. g[n] = h[n]
  <2>1. \A i \in 0 .. n : g[i] = h[i]
    <3>1. n \in Nat
      BY <1>6, Zenon
    <3>2. Reads(h, u, s)
      OBVIOUS
    <3>3. QED BY ONLY <1>4, <1>5, <3>1, <3>2, ReadsOnce
  <2>2. QED BY <1>6, <2>1, Zenon
<1>8. QED BY <1>2, <1>5, <1>7, Zenon DEF DrainedOf

LEMMA ReadingExists ==
  ASSUME NEW S, NEW s \in Seq(S), NEW u
  PROVE  \E h : Reads(h, u, s)
<1>1. Len(s) \in Nat /\ DOMAIN s = 1 .. Len(s)
  OBVIOUS
<1>2. PICK g : Turns(g, "PadOp", {}, u, s) /\ FoldLeft(PadOp, u, s) = g[Len(s)]
  BY <1>1, PadOpTurns, Zenon
<1>3. \A m, e : Turn("PadOp", {}, m, e) = PadOp(m, e)
  BY DEF Turn
<1>4. Reads(g, u, s)
  BY <1>2, <1>3, Zenon DEF Turns, Reads
<1>5. QED BY <1>4, Zenon

\* Reading gives these terminals.
LEMMA ReadingIs ==
  ASSUME NEW S, NEW s \in Seq(S), NEW u, NEW h, Reads(h, u, s)
  PROVE  \A i \in 0 .. Len(s) : Reading(u, s)[i] = h[i]
<1>1. SUFFICES ASSUME NEW i \in 0 .. Len(s) PROVE DrainedOf(u, SubSeq(s, 1, i)) = h[i]
  BY Zenon DEF Reading
<1>2. PICK n, a : n = Len(s) /\ a = SubSeq(s, 1, i)
  OBVIOUS
<1>3. n \in Nat /\ i \in 0 .. n /\ 1 \in 1 .. n + 1 /\ i \in 1 - 1 .. n
  BY <1>2
<1>4. a \in Seq(S) /\ Len(a) = 1 + i - 1 /\ \A k \in 1 .. 1 + i - 1 : a[k] = s[1 + k - 1]
  BY <1>2, <1>3, PartIs
<1>5. Len(a) = i /\ \A k \in 1 .. i : a[k] = s[k] /\ k \in 1 .. n
  BY <1>3, <1>4
<1>6. Reads(h, u, a)
  BY <1>2, <1>5, Zenon DEF Reads
<1>7. a \in Seq(S)
  BY <1>4, Zenon
<1>8. DrainedOf(u, a) = h[Len(a)]
  BY ONLY <1>6, <1>7, DrainedIs, Zenon
<1>9. QED BY <1>2, <1>5, <1>8, Zenon

\* PipeOK, said of a list h of the terminals.
Piped(h, u, s, n, ids) ==
  /\ Reads(h, u, s)
  /\ \A i \in 0 .. Len(s) : TermOK(h[i], n)
  /\ \A i \in 1 .. Len(s) : Fits(h[i - 1], s[i], ids)

LEMMA PipeOf ==
  ASSUME NEW S, NEW s \in Seq(S), NEW u, NEW n, NEW ids, PipeOK(u, s, n, ids)
  PROVE  \E h : Piped(h, u, s, n, ids) /\ h[Len(s)] = DrainedOf(u, s)
<1>1. PICK h : Reads(h, u, s)
  BY ReadingExists, Zenon
<1>2. DrainedOf(u, s) = h[Len(s)] /\ \A i \in 0 .. Len(s) : Reading(u, s)[i] = h[i]
  BY <1>1, DrainedIs, ReadingIs, Zenon
<1>3. \A i \in 1 .. Len(s) : i - 1 \in 0 .. Len(s)
  OBVIOUS
<1>4. Piped(h, u, s, n, ids)
  BY <1>1, <1>2, <1>3, Zenon DEF Piped, PipeOK
<1>5. QED BY <1>2, <1>4, Zenon

LEMMA PipeBy ==
  ASSUME NEW S, NEW s \in Seq(S), NEW u, NEW n, NEW ids, NEW h, Piped(h, u, s, n, ids)
  PROVE  PipeOK(u, s, n, ids) /\ DrainedOf(u, s) = h[Len(s)]
<1>1. Reads(h, u, s)
  BY Zenon DEF Piped
<1>2. DrainedOf(u, s) = h[Len(s)] /\ \A i \in 0 .. Len(s) : Reading(u, s)[i] = h[i]
  BY <1>1, DrainedIs, ReadingIs, Zenon
<1>3. \A i \in 1 .. Len(s) : i - 1 \in 0 .. Len(s)
  OBVIOUS
<1>4. PipeOK(u, s, n, ids)
  BY <1>2, <1>3, Zenon DEF Piped, PipeOK
<1>5. QED BY <1>2, <1>4, Zenon

\* The terminal as it is, and as it will be when it has read all.
LEMMA PipeEnds ==
  ASSUME NEW S, NEW s \in Seq(S), NEW u, NEW n, NEW ids, PipeOK(u, s, n, ids)
  PROVE  TermOK(u, n) /\ TermOK(DrainedOf(u, s), n)
<1>1. PICK h : Piped(h, u, s, n, ids) /\ h[Len(s)] = DrainedOf(u, s)
  BY PipeOf, Zenon
<1>2. h[0] = u
  BY <1>1, Zenon DEF Piped, Reads
<1>3. 0 \in 0 .. Len(s) /\ Len(s) \in 0 .. Len(s)
  OBVIOUS
<1>4. TermOK(h[0], n) /\ TermOK(h[Len(s)], n)
  BY <1>1, <1>3, Zenon DEF Piped
<1>5. QED BY <1>1, <1>2, <1>4, Zenon

\* Terminal E has read all.
Ends(u, s, E) == E = DrainedOf(u, s)

\* A message more.
LEMMA Sending ==
  ASSUME NEW n \in Nat, NEW s \in Seq(Message(n)), NEW u, NEW ids, PipeOK(u, s, n, ids),
         NEW m \in Message(n), NEW D, D = DrainedOf(u, s), Fits(D, m, ids), NEW z, z = Append(s, m),
         NEW E, E = PadOp(D, m)
  PROVE  z \in Seq(Message(n)) /\ PipeOK(u, z, n, ids) /\ Ends(u, z, E) /\ Step(E, D, m, n)
<1>1. PICK h : Piped(h, u, s, n, ids) /\ h[Len(s)] = DrainedOf(u, s)
  BY PipeOf, Zenon
<1>2. PICK N : N = Len(s)
  OBVIOUS
<1>3. /\ N \in Nat /\ z \in Seq(Message(n)) /\ Len(z) = N + 1 /\ z[N + 1] = m
      /\ \A i \in 1 .. N : z[i] = s[i]
  BY <1>2
<1>4. Step(E, D, m, n)
  <2>1. TermOK(D, n)
    BY PipeEnds, Zenon
  <2>2. QED BY <2>1, PadOpIs, Zenon
<1>5. PICK g : g = [i \in 0 .. N + 1 |-> IF i \in 0 .. N THEN h[i] ELSE E]
  OBVIOUS
<1>6. g[N + 1] = E /\ \A i \in 0 .. N : g[i] = h[i]
  BY <1>3, <1>5
<1>7. /\ h[0] = u /\ \A i \in 1 .. N : h[i] = PadOp(h[i - 1], s[i])
      /\ \A i \in 0 .. N : TermOK(h[i], n)
      /\ \A i \in 1 .. N : Fits(h[i - 1], s[i], ids)
  BY <1>1, <1>2, Zenon DEF Piped, Reads
<1>8. h[N] = D /\ 0 \in 0 .. N /\ N \in 0 .. N /\ (N + 1) - 1 = N
  BY <1>1, <1>2, <1>3
<1>9. g[0] = u
  BY <1>6, <1>7, <1>8, Zenon
<1>10. ASSUME NEW i \in 1 .. N + 1 PROVE g[i] = PadOp(g[i - 1], z[i]) /\ Fits(g[i - 1], z[i], ids)
  <2>1. CASE i \in 1 .. N
    <3>1. i \in 0 .. N /\ i - 1 \in 0 .. N
      BY <1>3, <2>1
    <3>2. g[i] = h[i] /\ g[i - 1] = h[i - 1] /\ z[i] = s[i]
      BY <1>3, <1>6, <2>1, <3>1, Zenon
    <3>3. QED BY <1>7, <2>1, <3>2, Zenon
  <2>2. CASE i = N + 1
    <3>1. g[i - 1] = D /\ g[i] = E /\ z[i] = m
      BY <1>3, <1>6, <1>8, <2>2, Zenon
    <3>2. QED BY <3>1, Zenon
  <2>3. QED BY <1>3, <2>1, <2>2
<1>11. ASSUME NEW i \in 0 .. N + 1 PROVE TermOK(g[i], n)
  <2>1. CASE i \in 0 .. N
    BY <1>6, <1>7, <2>1, Zenon
  <2>2. CASE i = N + 1
    <3>1. TermOK(E, n)
      BY <1>4, Zenon DEF Step
    <3>2. QED BY <1>6, <2>2, <3>1, Zenon
  <2>3. QED BY <1>3, <2>1, <2>2
<1>12. Piped(g, u, z, n, ids)
  BY <1>3, <1>9, <1>10, <1>11, Zenon DEF Piped, Reads
<1>13. PipeOK(u, z, n, ids) /\ DrainedOf(u, z) = g[Len(z)]
  BY <1>3, <1>12, PipeBy, Zenon
<1>14. QED BY <1>3, <1>4, <1>6, <1>13, Zenon DEF Ends

\* The terminal will be the same when it has read all.
SameEnd(v, z, u, s) == DrainedOf(v, z) = DrainedOf(u, s)

\* The terminal reads the next message.
LEMMA ReadingOne ==
  ASSUME NEW n \in Nat, NEW s \in Seq(Message(n)), s # <<>>, NEW u, NEW ids, PipeOK(u, s, n, ids),
         NEW m, m = Head(s), NEW v, v = PadOp(u, m), NEW z, z = Tail(s)
  PROVE  /\ m \in Message(n) /\ z \in Seq(Message(n)) /\ Fits(u, m, ids) /\ Step(v, u, m, n)
         /\ PipeOK(v, z, n, ids) /\ SameEnd(v, z, u, s)
<1>1. PICK h : Piped(h, u, s, n, ids) /\ h[Len(s)] = DrainedOf(u, s)
  BY PipeOf, Zenon
<1>2. PICK N : N = Len(s)
  OBVIOUS
<1>3. N \in Nat /\ N # 0
  BY <1>2, EmptySeq
<1>4. /\ m = s[1] /\ m \in Message(n) /\ z \in Seq(Message(n)) /\ Len(z) = N - 1
      /\ \A i \in 1 .. N - 1 : z[i] = s[i + 1]
  BY <1>2, <1>3
<1>5. /\ h[0] = u /\ \A i \in 1 .. N : h[i] = PadOp(h[i - 1], s[i])
      /\ \A i \in 0 .. N : TermOK(h[i], n)
      /\ \A i \in 1 .. N : Fits(h[i - 1], s[i], ids)
  BY <1>1, <1>2, Zenon DEF Piped, Reads
<1>6. 1 \in 1 .. N /\ 0 \in 0 .. N /\ 1 - 1 = 0 /\ N - 1 \in 0 .. N - 1 /\ 0 \in 0 .. N - 1 /\ 0 + 1 = 1 /\ (N - 1) + 1 = N
  BY <1>3
<1>7. h[1] = v /\ Fits(u, m, ids) /\ TermOK(u, n)
  BY <1>4, <1>5, <1>6, Zenon
<1>8. Step(v, u, m, n)
  BY <1>4, <1>7, PadOpIs, Zenon
<1>9. PICK g : g = [i \in 0 .. N - 1 |-> h[i + 1]]
  OBVIOUS
<1>10. \A i \in 0 .. N - 1 : g[i] = h[i + 1] /\ i + 1 \in 0 .. N
  BY <1>3, <1>9
<1>11. ASSUME NEW i \in 1 .. N - 1 PROVE g[i] = PadOp(g[i - 1], z[i]) /\ Fits(g[i - 1], z[i], ids)
  <2>1. i \in 0 .. N - 1 /\ i - 1 \in 0 .. N - 1 /\ (i - 1) + 1 = i /\ i + 1 \in 1 .. N /\ (i + 1) - 1 = i
    BY <1>3
  <2>2. g[i] = h[i + 1] /\ g[i - 1] = h[i] /\ z[i] = s[i + 1]
    BY <1>4, <1>10, <2>1, Zenon
  <2>3. QED BY <1>5, <2>1, <2>2, Zenon
<1>12. g[0] = v /\ g[N - 1] = h[N]
  BY <1>6, <1>7, <1>10, Zenon
<1>13. Piped(g, v, z, n, ids)
  BY <1>4, <1>5, <1>10, <1>11, <1>12, Zenon DEF Piped, Reads
<1>14. PipeOK(v, z, n, ids) /\ DrainedOf(v, z) = g[Len(z)]
  <2>1. z \in Seq(Message(n))
    BY <1>4, Zenon
  <2>2. QED BY ONLY <1>13, <2>1, PipeBy, Zenon
<1>15. QED BY <1>1, <1>2, <1>4, <1>7, <1>8, <1>12, <1>14, Zenon DEF SameEnd

\* An object gets a new identifier, which no window has.
LEMMA MoreIds ==
  ASSUME NEW n \in Nat
  PROVE  /\ Message(n) \subseteq Message(n + 1)
         /\ \A u : TermOK(u, n) => TermOK(u, n + 1)
<1>1. 1 .. n \subseteq 1 .. n + 1
  OBVIOUS
<1>2. Message(n) \subseteq Message(n + 1)
  <2>1. PadDef(n) \subseteq PadDef(n + 1)
    BY <1>1 DEF PadDef
  <2>2. QED BY <2>1 DEF Message
<1>3. Window(n) \subseteq Window(n + 1)
  BY <1>1 DEF Window
<1>4. Request(n) \cup Closing(n) \subseteq Request(n + 1) \cup Closing(n + 1)
  <2>1. Request(n) \subseteq Request(n + 1) /\ Closing(n) \subseteq Closing(n + 1)
    BY <1>1 DEF Request, Closing
  <2>2. QED BY <2>1
<1>5. Terminal(n) \subseteq Terminal(n + 1)
  <2>1. PICK A, B, C, D : A = Window(n) /\ B = Window(n + 1) /\ C = Request(n) \cup Closing(n)
                          /\ D = Request(n + 1) \cup Closing(n + 1)
    OBVIOUS
  <2>2. A \subseteq B /\ C \subseteq D
    BY <1>3, <1>4, <2>1
  <2>3. Seq(A) \subseteq Seq(B) /\ Seq(C) \subseteq Seq(D)
    BY <2>2
  <2>4. QED BY <2>1, <2>3 DEF Terminal
<1>6. \A u : TermOK(u, n) => TermOK(u, n + 1)
  BY <1>5 DEF TermOK
<1>7. QED BY <1>2, <1>6, Zenon

LEMMA Invalidated ==
  ASSUME NEW n \in Nat, NEW s \in Seq(Message(n)), NEW u, NEW ids \in [Obj -> 1 .. n], PipeOK(u, s, n, ids),
         NEW o \in Obj, NEW new, new = [ids EXCEPT ![o] = n + 1]
  PROVE  /\ s \in Seq(Message(n + 1)) /\ PipeOK(u, s, n + 1, new)
         /\ \A v : TermOK(v, n) => \A p : Win(v, p).oid # n + 1
<1>1. PICK h : Piped(h, u, s, n, ids) /\ h[Len(s)] = DrainedOf(u, s)
  BY PipeOf, Zenon
<1>2. \A v : TermOK(v, n) => TermOK(v, n + 1)
  BY MoreIds, Zenon
<1>3. ASSUME NEW v, TermOK(v, n), NEW p PROVE Win(v, p).oid # n + 1
  <2>1. WinsOK(v.wins, n)
    BY <1>3, TerminalIs, Zenon
  <2>2. Win(v, p) = NoWin \/ Win(v, p) \in Window(n)
    BY <2>1, WinIs, Zenon
  <2>3. CASE Win(v, p) = NoWin
    BY <2>3 DEF NoWin
  <2>4. CASE Win(v, p) \in Window(n)
    <3>1. Win(v, p).oid \in 1 .. n
      BY <2>4, WindowIs, Zenon
    <3>2. QED BY <3>1
  <2>5. QED BY <2>2, <2>3, <2>4, Zenon
<1>4. ASSUME NEW i \in 1 .. Len(s) PROVE Fits(h[i - 1], s[i], new)
  <2>1. PICK v, m, w : v = h[i - 1] /\ m = s[i] /\ w = Win(v, Target(v, m))
    OBVIOUS
  <2>2. i - 1 \in 0 .. Len(s) /\ m \in Message(n)
    BY <2>1
  <2>3. TermOK(v, n) /\ Fits(v, m, ids)
    BY <1>1, <2>1, <2>2, Zenon DEF Piped
  <2>4. w.oid # n + 1
    BY <1>3, <2>1, <2>3, Zenon
  <2>5. m.op = "DELETE" => m.obj \in Obj
    BY <2>2, MessageIs, Zenon
  <2>6. m.op = "DELETE" => w.oid # ids[m.obj]
    BY <2>1, <2>3, Zenon DEF Fits, FitsWin
  <2>7. m.op = "DELETE" => w.oid # new[m.obj]
    BY <2>4, <2>5, <2>6
  <2>8. FitsWin(w, m, new)
    BY <2>1, <2>3, <2>7, Zenon DEF Fits, FitsWin
  <2>9. QED BY <2>1, <2>3, <2>8, Zenon DEF Fits
<1>5. Piped(h, u, s, n + 1, new)
  BY <1>1, <1>2, <1>4, Zenon DEF Piped
<1>6. s \in Seq(Message(n + 1))
  <2>1. PICK A, B : A = Message(n) /\ B = Message(n + 1)
    OBVIOUS
  <2>2. A \subseteq B
    BY <2>1, MoreIds, Zenon
  <2>3. s \in Seq(A)
    BY <2>1
  <2>4. s \in Seq(B)
    BY <2>2, <2>3
  <2>5. QED BY <2>1, <2>4, Zenon
<1>7. PipeOK(u, s, n + 1, new)
  BY ONLY <1>5, <1>6, PipeBy, Zenon
<1>8. QED BY <1>3, <1>6, <1>7, Zenon

-----------------------------------------------------------------------------
(* What becomes of the lines of a window, whichever it has. *)

\* The keys whose lines a message takes away, the lines it brings, and the
\* keys of those that are to be requested.
Drop(max, m, l) ==
  IF m.op \in {"LINE", "NEXTLINE"} THEN {l.key}
  ELSE IF m.op = "REMOVELINE" THEN {m.key}
  ELSE IF m.op = "CLEAR" \/ (m.op = "LINES" /\ m.n < max) THEN Key
  ELSE IF m.op = "CREATELINE" /\ max = 0 THEN m.lo .. m.hi ELSE {}

Add(max, m, l) == IF m.op \in {"LINE", "NEXTLINE"} /\ (max = 0 \/ l.key <= max) THEN {l} ELSE {}

Fakes(max, m) == IF m.op = "CREATELINE" /\ max = 0 THEN m.lo .. m.hi ELSE {}

MaxAfter(max, m) == IF m.op = "LINES" THEN m.n ELSE max

OptionsAfter(as, max, m) ==
  IF m.op = "ATTRIBUTE" THEN m.attributes
  ELSE IF m.op = "CREATELINE" /\ max = 0 /\ m.lo <= m.hi THEN as \cup {"FAKELINE"} ELSE as

Change(v, w, K, A, F) ==
  /\ Reals(v) = {x \in Reals(w) : x.key \notin K} \cup A
  /\ Tildes(v) = (Tildes(w) \ K) \cup F
  /\ AskedOf(v) = AskedOf(w) \ K

\* MakeGap of a window whose lines all have their text.
Spread(v, w, k) ==
  /\ Reals(v) = {Moved(x, k, 1) : x \in Reals(w)}
  /\ Tildes(v) = {} /\ AskedOf(v) = {}

LEMMA Changing ==
  ASSUME NEW v, NEW w, NEW K, NEW A \in SUBSET RealLine, NEW F \in SUBSET Key,
         AsSet(v.lines) = {x \in AsSet(w.lines) : x.key \notin K} \cup A \cup {Fake(k) : k \in F}
  PROVE  Change(v, w, K, A, F)
<1>1. PICK a, b : a = AsSet(w.lines) /\ b = AsSet(v.lines)
  OBVIOUS
<1>2. \A x : x \in b <=> (x \in a /\ x.key \notin K) \/ x \in A \/ \E k \in F : x = Fake(k)
  BY <1>1
<1>3. \A x \in A : x.text # TILDE
  BY Constants DEF RealLine
<1>4. \A k \in F : Fake(k).key = k /\ Fake(k).text = TILDE
  BY FakeIs, Zenon
<1>5. \A k : Dummy(k, {}).key = k /\ Dummy(k, {}).text = TILDE
  BY DEF Dummy
<1>6. \A k, h \in Key : Dummy(k, {}) # Fake(h)
  BY DEF Dummy, Fake
<1>7. Reals(w) = {x \in a : x.text # TILDE} /\ Reals(v) = {x \in b : x.text # TILDE}
  BY <1>1, Zenon DEF Reals
<1>8. Reals(v) = {x \in Reals(w) : x.key \notin K} \cup A
  BY ONLY <1>2, <1>3, <1>4, <1>7
<1>9. /\ Tildes(w) = {k \in Key : \E l \in a : l.key = k /\ l.text = TILDE}
      /\ Tildes(v) = {k \in Key : \E l \in b : l.key = k /\ l.text = TILDE}
  BY <1>1, Zenon DEF Tildes
<1>10. Tildes(v) = (Tildes(w) \ K) \cup F
  BY ONLY <1>2, <1>3, <1>4, <1>9, F \subseteq Key
<1>11. AskedOf(w) = {k \in Key : Dummy(k, {}) \in a} /\ AskedOf(v) = {k \in Key : Dummy(k, {}) \in b}
  BY <1>1, Zenon DEF AskedOf
<1>12. AskedOf(v) = AskedOf(w) \ K
  <2>1. ASSUME NEW k \in Key PROVE Dummy(k, {}) \in b <=> Dummy(k, {}) \in a /\ k \notin K
    <3>1. Dummy(k, {}) \notin A
      BY <1>3, <1>5, Zenon
    <3>2. \A h \in F : Dummy(k, {}) # Fake(h)
      BY <1>6, Zenon
    <3>3. QED BY <1>2, <1>5, <3>1, <3>2, Zenon
  <2>2. QED BY ONLY <1>11, <2>1
<1>13. QED BY <1>8, <1>10, <1>12, Zenon DEF Change

LEMMA NoneOf ==
  ASSUME NEW w, w.lines = <<>>
  PROVE  Reals(w) = {} /\ Tildes(w) = {} /\ AskedOf(w) = {}
<1>1. AsSet(w.lines) = {}
  BY NoLines, Zenon
<1>2. QED BY <1>1 DEF Reals, Tildes, AskedOf

\* No line of a limited window is beyond its limit.
LEMMA Within ==
  ASSUME NEW n \in Nat, NEW w \in Window(n), WinOK(w), w.max # 0
  PROVE  /\ \A l \in Reals(w) : l.key <= w.max
         /\ \A k \in Tildes(w) : k <= w.max
<1>1. \A l \in AsSet(w.lines) : l.key <= w.max
  BY Zenon DEF WinOK
<1>2. QED BY <1>1 DEF Reals, Tildes

\* What a message that a window fits makes of its lines and limits.
Becoming(v, w, m, l) ==
  /\ v.max = MaxAfter(w.max, m)
  /\ v.attributes = OptionsAfter(w.attributes, w.max, m)
  /\ m.op = "MAKEGAP" => Spread(v, w, m.key)
  /\ m.op # "MAKEGAP" => Change(v, w, Drop(w.max, m, l), Add(w.max, m, l), Fakes(w.max, m))

LEMMA Keeping ==
  ASSUME NEW n \in Nat, NEW w \in Window(n), WinOK(w), NEW m \in Message(n), NEW ids, FitsWin(w, m, ids),
         m.op \in {"LINE", "NEXTLINE", "REMOVELINE", "CLEAR"},
         NEW l, m.op \in {"LINE", "NEXTLINE"} => l \in RealLine, NEW v, Effect(v, w, m, l)
  PROVE  Becoming(v, w, m, l)
<1>1. w # NoWin
  BY NoWinIs, Zenon
<1>2. m.op \notin {"PADDEF", "DELETE"}
  OBVIOUS
<1>3. v \in Window(n) /\ WinOK(v) /\ SameWin(v, w)
  BY <1>2, EffectIs
<1>4. PICK K, A : K = Drop(w.max, m, l) /\ A = Add(w.max, m, l)
  OBVIOUS
<1>5. /\ Fakes(w.max, m) = {} /\ MaxAfter(w.max, m) = w.max
      /\ OptionsAfter(w.attributes, w.max, m) = w.attributes
  BY DEF Fakes, MaxAfter, OptionsAfter
<1>6. SUFFICES Keeps(v, w, v.lines) /\ A \in SUBSET RealLine
               /\ AsSet(v.lines) = {x \in AsSet(w.lines) : x.key \notin K} \cup A
  <2>1. v.attributes = w.attributes /\ v.max = w.max
    BY <1>3, <1>6, KeepsSame, Zenon
  <2>2. AsSet(v.lines) = {x \in AsSet(w.lines) : x.key \notin K} \cup A \cup {Fake(k) : k \in {}}
    BY <1>6
  <2>3. Change(v, w, K, A, {})
    BY ONLY <1>6, <2>2, Changing
  <2>4. m.op # "MAKEGAP"
    OBVIOUS
  <2>5. QED BY <1>4, <1>5, <2>1, <2>3, <2>4, Zenon DEF Becoming
<1>7. \A x \in AsSet(w.lines) : x.key \in Nat /\ x.key \in Key
  <2>1. w.lines \in Seq(Line)
    BY WindowIs, Zenon
  <2>2. QED BY <2>1, InSet, LineIs, Zenon
<1>8. CASE m.op \in {"LINE", "NEXTLINE"}
  <2>1. v = PutLine(w, l) /\ l \in RealLine
    BY <1>1, <1>8, Zenon DEF Effect
  <2>2. Keeps(v, w, v.lines)
    BY <2>1, PutLineIs, Zenon
  <2>3. AsSet(v.lines) = IF w.max # 0 /\ l.key > w.max THEN AsSet(w.lines)
                         ELSE {x \in AsSet(w.lines) : x.key # l.key} \cup {l}
    BY ONLY n \in Nat, w \in Window(n), WinOK(w), <2>1, PutLineIs
  <2>4. K = {l.key} /\ A = IF w.max = 0 \/ l.key <= w.max THEN {l} ELSE {}
    BY <1>4, <1>8 DEF Drop, Add
  <2>5. l.key \in Nat /\ w.max \in Nat
    BY <2>1, WindowIs, Constants DEF RealLine, Key
  <2>6. w.max # 0 => \A x \in AsSet(w.lines) : x.key <= w.max
    BY Zenon DEF WinOK
  <2>7. CASE w.max # 0 /\ l.key > w.max
    <3>1. A = {} /\ \A x \in AsSet(w.lines) : x.key # l.key
      BY <1>7, <2>4, <2>5, <2>6, <2>7
    <3>2. QED BY <2>2, <2>3, <2>4, <2>7, <3>1
  <2>8. CASE ~ (w.max # 0 /\ l.key > w.max)
    <3>1. A = {l}
      BY <2>4, <2>5, <2>8
    <3>2. QED BY <2>1, <2>2, <2>3, <2>4, <2>8, <3>1
  <2>9. QED BY <2>7, <2>8, Zenon
<1>9. CASE m.op = "REMOVELINE"
  <2>1. v = P_RemoveLine(w, m.key) /\ m.key \in Key
    BY <1>1, <1>9, MessageIs, Zenon DEF Effect
  <2>2. Keeps(v, w, v.lines)
    BY <2>1, RemoveLineIs, Zenon
  <2>3. AsSet(v.lines) = {x \in AsSet(w.lines) : x.key # m.key}
    BY ONLY n \in Nat, w \in Window(n), WinOK(w), <2>1, RemoveLineIs
  <2>4. K = {m.key} /\ A = {}
    BY <1>4, <1>9 DEF Drop, Add
  <2>5. QED BY <2>2, <2>3, <2>4
<1>10. CASE m.op = "CLEAR"
  <2>1. v = DelLines(w)
    BY <1>1, <1>10, Zenon DEF Effect
  <2>2. Keeps(v, w, v.lines) /\ AsSet(v.lines) = {}
    BY <2>1, DelLinesIs, NoLines, Zenon
  <2>3. K = Key /\ A = {}
    BY <1>4, <1>10 DEF Drop, Add
  <2>4. QED BY <1>7, <2>2, <2>3
<1>11. QED BY <1>8, <1>9, <1>10

LEMMA Becomings ==
  ASSUME NEW n \in Nat, NEW w \in Window(n), WinOK(w), NEW m \in Message(n), NEW ids, FitsWin(w, m, ids),
         m.op \notin {"PADDEF", "DELETE"}, NEW l, m.op \in {"LINE", "NEXTLINE"} => l \in RealLine,
         NEW v, Effect(v, w, m, l)
  PROVE  Becoming(v, w, m, l)
<1>1. w # NoWin
  BY NoWinIs, Zenon
<1>2. /\ w.max \in Nat /\ w.lines \in Seq(Line)
      /\ w = [object |-> w.object, oid |-> w.oid, attributes |-> w.attributes, max |-> w.max, lines |-> w.lines]
  BY WindowIs, Zenon
<1>3. \A x \in AsSet(w.lines) : x.key \in Nat /\ x.key \in Key
  BY <1>2, InSet, LineIs, Zenon
<1>4. CASE m.op \in {"LINE", "NEXTLINE", "REMOVELINE", "CLEAR"}
  BY <1>4, Keeping
<1>5. PICK max, as : max = w.max /\ as = w.attributes
  OBVIOUS
<1>6. CASE m.op = "ATTRIBUTE"
  <2>1. v = [w EXCEPT !.attributes = m.attributes] /\ w.max = 0 /\ w.lines = <<>>
    BY <1>1, <1>6, Zenon DEF Effect, FitsWin
  <2>2. v.attributes = m.attributes /\ v.max = 0 /\ v.lines = <<>>
    BY <1>2, <2>1
  <2>3. Reals(v) = {} /\ Tildes(v) = {} /\ AskedOf(v) = {} /\ Reals(w) = {} /\ Tildes(w) = {} /\ AskedOf(w) = {}
    BY <2>1, <2>2, NoneOf, Zenon
  <2>4. /\ Drop(max, m, l) = {} /\ Add(max, m, l) = {} /\ Fakes(max, m) = {} /\ MaxAfter(max, m) = max
        /\ OptionsAfter(as, max, m) = m.attributes
    BY <1>6 DEF Drop, Add, Fakes, MaxAfter, OptionsAfter
  <2>5. Change(v, w, {}, {}, {})
    BY <2>3 DEF Change
  <2>6. m.op # "MAKEGAP"
    BY <1>6
  <2>7. QED BY <1>5, <2>1, <2>2, <2>4, <2>5, <2>6, Zenon DEF Becoming
<1>7. CASE m.op = "LINES"
  <2>1. v = P_Lines(w, m.n) /\ m.n \in Key /\ (w.max # 0 \/ w.lines = <<>>)
    BY <1>1, <1>7, MessageIs, Zenon DEF Effect, FitsWin
  <2>2. PICK k : k = m.n
    OBVIOUS
  <2>3. v = [object |-> w.object, oid |-> w.oid, attributes |-> w.attributes, max |-> k,
             lines |-> IF k < w.max THEN <<>> ELSE w.lines]
    <3>1. v = P_Lines(w, k) /\ k \in Key
      BY <2>1, <2>2, Zenon
    <3>2. QED BY ONLY n \in Nat, w \in Window(n), WinOK(w), <2>1, <3>1, LimitIs
  <2>4. v.max = k /\ v.attributes = w.attributes /\ v.lines = IF k < w.max THEN <<>> ELSE w.lines
    BY <2>3
  <2>5. /\ Drop(max, m, l) = (IF k < max THEN Key ELSE {}) /\ Add(max, m, l) = {} /\ Fakes(max, m) = {}
        /\ MaxAfter(max, m) = k /\ OptionsAfter(as, max, m) = as
    BY <1>7, <2>2 DEF Drop, Add, Fakes, MaxAfter, OptionsAfter
  <2>6. AsSet(v.lines) = {x \in AsSet(w.lines) : x.key \notin Drop(max, m, l)} \cup {} \cup {Fake(h) : h \in {}}
    <3>1. CASE k < w.max
      <4>1. AsSet(v.lines) = {}
        BY <2>4, <3>1, NoLines, Zenon
      <4>2. QED BY <1>3, <1>5, <2>5, <3>1, <4>1
    <3>2. CASE ~ (k < w.max)
      BY <1>5, <2>4, <2>5, <3>2
    <3>3. QED BY <3>1, <3>2, Zenon
  <2>7. Change(v, w, Drop(max, m, l), {}, {})
    BY ONLY <2>6, Changing
  <2>8. m.op # "MAKEGAP"
    BY <1>7
  <2>9. QED BY <1>5, <2>4, <2>5, <2>7, <2>8, Zenon DEF Becoming
<1>8. CASE m.op = "CREATELINE"
  <2>1. v = CreateLine(w, m.lo, m.hi) /\ m.lo \in Key /\ m.hi \in Key
    BY <1>1, <1>8, MessageIs, Zenon DEF Effect
  <2>2. PICK lo, hi, K : lo = m.lo /\ hi = m.hi /\ K = Drop(max, m, l)
    OBVIOUS
  <2>3. Created(v, w, lo, hi)
    <3>1. v = CreateLine(w, lo, hi) /\ lo \in Key /\ hi \in Key
      BY <2>1, <2>2, Zenon
    <3>2. QED BY <3>1, CreateLineIs, Zenon
  <2>4. /\ K = (IF max = 0 THEN lo .. hi ELSE {}) /\ Add(max, m, l) = {} /\ Fakes(max, m) = K
        /\ MaxAfter(max, m) = max
        /\ OptionsAfter(as, max, m) = IF max = 0 /\ lo <= hi THEN as \cup {"FAKELINE"} ELSE as
    BY <1>8, <2>2 DEF Drop, Add, Fakes, MaxAfter, OptionsAfter
  <2>5. lo \in Nat /\ hi \in Nat /\ 1 <= lo /\ hi <= MaxKey
    BY <2>1, <2>2, KeyIs, Zenon
  <2>6. K \subseteq Key
    BY <2>4, <2>5, Constants DEF Key
  <2>7. CASE w.max # 0 \/ ~ (lo <= hi)
    <3>1. v = w /\ K = {} /\ OptionsAfter(as, max, m) = as
      BY <1>5, <2>3, <2>4, <2>5, <2>7 DEF Created
    <3>2. Change(v, w, K, {}, K)
      BY <3>1 DEF Change
    <3>3. m.op # "MAKEGAP"
      BY <1>8
    <3>4. QED BY <1>5, <2>2, <2>4, <3>1, <3>2, <3>3, Zenon DEF Becoming
  <2>8. CASE w.max = 0 /\ lo <= hi
    <3>1. K = lo .. hi /\ OptionsAfter(as, max, m) = as \cup {"FAKELINE"}
      BY <1>5, <2>4, <2>8
    <3>2. v.max = max /\ v.attributes = as \cup {"FAKELINE"}
      BY <1>5, <2>3, <2>8 DEF Created
    <3>3. AsSet(v.lines) = {x \in AsSet(w.lines) : x.key \notin K} \cup {} \cup {Fake(k) : k \in K}
      BY <2>3, <2>8, <3>1 DEF Created
    <3>4. {} \in SUBSET RealLine /\ K \in SUBSET Key
      BY <2>6
    <3>5. Change(v, w, K, {}, K)
      BY ONLY <3>3, <3>4, Changing
    <3>6. m.op # "MAKEGAP"
      BY <1>8
    <3>7. QED BY <1>5, <2>2, <2>4, <3>1, <3>2, <3>5, <3>6, Zenon DEF Becoming
  <2>9. QED BY <2>7, <2>8, Zenon
<1>9. CASE m.op = "MAKEGAP"
  <2>1. v = MakeGap(w, m.key, 1) /\ m.key \in Key /\ Plain(w) /\ \A x \in AsSet(w.lines) : x.key < MaxKey
    BY <1>1, <1>9, MessageIs, Zenon DEF Effect, FitsWin
  <2>2. v \in Window(n) /\ WinOK(v) /\ Keeps(v, w, v.lines)
    BY <2>1, MakeGapIs
  <2>3. AsSet(v.lines) = {Moved(x, m.key, 1) : x \in AsSet(w.lines)}
    BY ONLY n \in Nat, w \in Window(n), WinOK(w), <2>1, MakeGapIs
  <2>4. v.attributes = w.attributes /\ v.max = w.max
    BY <2>2, KeepsSame, Zenon
  <2>5. Plain(v)
    BY <2>1, <2>4, Zenon DEF Plain
  <2>6. (\A x \in AsSet(v.lines) : x.text # TILDE) /\ (\A x \in AsSet(w.lines) : x.text # TILDE)
    BY <2>1, <2>2, <2>5, Zenon DEF WinOK
  <2>7. Reals(v) = AsSet(v.lines) /\ Reals(w) = AsSet(w.lines) /\ Tildes(v) = {}
    BY <2>6 DEF Reals, Tildes
  <2>8. \A k : Dummy(k, {}).text = TILDE
    BY DEF Dummy
  <2>9. AskedOf(v) = {}
    BY <2>6, <2>8 DEF AskedOf
  <2>10. Reals(v) = {Moved(x, m.key, 1) : x \in Reals(w)}
    BY <2>3, <2>7
  <2>11. Spread(v, w, m.key)
    BY <2>7, <2>9, <2>10, Zenon DEF Spread
  <2>12. MaxAfter(max, m) = max /\ OptionsAfter(as, max, m) = as
    BY <1>9 DEF MaxAfter, OptionsAfter
  <2>13. QED BY <1>5, <1>9, <2>4, <2>11, <2>12, Zenon DEF Becoming
<1>10. m.op \in {"PADDEF", "ATTRIBUTE", "LINE", "NEXTLINE", "REMOVELINE", "CLEAR", "LINES",
                 "CREATELINE", "MAKEGAP", "DELETE"}
  BY MessageIs, Zenon
<1>11. QED BY <1>4, <1>6, <1>7, <1>8, <1>9, <1>10

-----------------------------------------------------------------------------
(* What the user does, and what is read after it. *)

\* Window v is w without what the user took from it: lines, or the whole
\* window if c says so; x is the identifier of the window it was taken
\* from, and K are the keys that were requested there.
Also(w, x, K) == IF w.oid = x THEN K ELSE {}

Behind(v, w, x, K, c) ==
  /\ w = NoWin => v = NoWin
  /\ w # NoWin /\ v = NoWin => c /\ w.oid = x /\ "USERCLOSE" \in w.attributes
  /\ w # NoWin /\ v # NoWin =>
       /\ SameWin(v, w) /\ v.attributes = w.attributes /\ v.max = w.max
       /\ Reals(v) \subseteq Reals(w)
       /\ w.max = 0 => Tildes(v) \subseteq Tildes(w)
       /\ AskedOf(v) \subseteq AskedOf(w) \cup Also(w, x, K)

\* A window, or none.
AWin(w, n) == w = NoWin \/ (w \in Window(n) /\ WinOK(w))

LEMMA BehindItself == ASSUME NEW w, NEW x, NEW K, NEW c PROVE Behind(w, w, x, K, c)
BY Zenon DEF Behind, SameWin

\* A window that has no line with a text and none without has no lines.
LEMMA NoneIs ==
  ASSUME NEW n \in Nat, NEW w \in Window(n), Reals(w) = {}, Tildes(w) = {}
  PROVE  w.lines = <<>>
<1>1. w.lines \in Seq(Line)
  BY WindowIs, Zenon
<1>2. \A l \in AsSet(w.lines) : l \in Line
  BY <1>1, InSet, Zenon
<1>3. \A l \in AsSet(w.lines) : l.key \in Key
  BY <1>2, LineIs, Zenon
<1>4. ASSUME NEW l \in AsSet(w.lines) PROVE FALSE
  <2>1. CASE l.text = TILDE
    BY <1>3, <2>1, Zenon DEF Tildes
  <2>2. CASE l.text # TILDE
    BY <2>2, Zenon DEF Reals
  <2>3. QED BY <2>1, <2>2, Zenon
<1>5. AsSet(w.lines) = {}
  BY <1>4, Zenon
<1>6. QED BY <1>1, <1>5, InSet, Zenon

\* A window that is behind gets no message that it does not fit.
LEMMA BehindFits ==
  ASSUME NEW n \in Nat, NEW w, AWin(w, n), NEW v, AWin(v, n), NEW x, NEW K, NEW c, Behind(v, w, x, K, c),
         NEW m \in Message(n), NEW ids \in [Obj -> 1 .. n], FitsWin(w, m, ids)
  PROVE  FitsWin(v, m, ids)
<1>1. CASE v = NoWin
  <2>1. m.op = "DELETE" => NoWin.oid # ids[m.obj]
    <3>1. m.op = "DELETE" => m.obj \in Obj
      BY MessageIs
    <3>2. NoWin.oid = 0
      BY DEF NoWin
    <3>3. QED BY <3>1, <3>2
  <2>2. CASE w = NoWin
    BY <1>1, <2>2, Zenon
  <2>3. CASE w # NoWin
    <3>1. "USERCLOSE" \in w.attributes
      BY <1>1, <2>3, Zenon DEF Behind
    <3>2. m.op \notin {"PADDEF", "ATTRIBUTE", "CREATELINE", "MAKEGAP"}
      BY <2>3, <3>1 DEF FitsWin
    <3>3. QED BY <1>1, <2>1, <3>2 DEF FitsWin
  <2>4. QED BY <2>2, <2>3, Zenon
<1>2. CASE v # NoWin
  <2>1. w # NoWin /\ w \in Window(n) /\ WinOK(w) /\ v \in Window(n) /\ WinOK(v)
    BY <1>2, Zenon DEF Behind, AWin
  <2>2. /\ v.oid = w.oid /\ v.attributes = w.attributes /\ v.max = w.max
        /\ Reals(v) \subseteq Reals(w)
        /\ w.max = 0 => Tildes(v) \subseteq Tildes(w)
    BY <1>2, <2>1, Zenon DEF Behind, SameWin
  <2>3. w.max = 0 /\ w.lines = <<>> => v.lines = <<>>
    <3>1. ASSUME w.max = 0, w.lines = <<>> PROVE v.lines = <<>>
      <4>1. Reals(w) = {} /\ Tildes(w) = {}
        BY <3>1, NoneOf, Zenon
      <4>2. Reals(v) = {} /\ Tildes(v) = {}
        BY <2>2, <3>1, <4>1
      <4>3. QED BY <2>1, <4>2, NoneIs, Zenon
    <3>2. QED BY <3>1, Zenon
  <2>4. Plain(w) <=> Plain(v)
    BY <2>2, Zenon DEF Plain
  <2>5. ASSUME Plain(w), \A l \in AsSet(w.lines) : l.key < MaxKey, NEW l \in AsSet(v.lines) PROVE l.key < MaxKey
    <3>1. l.text # TILDE
      BY <2>1, <2>4, <2>5, Zenon DEF WinOK
    <3>2. l \in Reals(v)
      BY <3>1, Zenon DEF Reals
    <3>3. l \in Reals(w)
      BY <2>2, <3>2, Zenon
    <3>4. l \in AsSet(w.lines)
      BY <3>3, Zenon DEF Reals
    <3>5. QED BY <2>5, <3>4, Zenon
  <2>6. m.op = "PADDEF" => v = NoWin
    BY <2>1, Zenon DEF FitsWin
  <2>7. m.op = "ATTRIBUTE" => v # NoWin /\ v.attributes = {} /\ v.max = 0 /\ v.lines = <<>>
    BY <1>2, <2>2, <2>3, Zenon DEF FitsWin
  <2>8. m.op = "LINES" /\ v # NoWin => v.max # 0 \/ (Plain(v) /\ v.lines = <<>>)
    BY <2>1, <2>2, <2>3, <2>4, Zenon DEF FitsWin, Plain
  <2>9. m.op = "CREATELINE" => v # NoWin /\ "USERCLOSE" \notin v.attributes
    BY <1>2, <2>2, Zenon DEF FitsWin
  <2>10. m.op = "MAKEGAP" => /\ v # NoWin /\ "USERCLOSE" \notin v.attributes /\ Plain(v)
                             /\ \A l \in AsSet(v.lines) : l.key < MaxKey
    BY <1>2, <2>2, <2>4, <2>5, Zenon DEF FitsWin
  <2>11. m.op = "DELETE" => v.oid # ids[m.obj]
    BY <2>2, Zenon DEF FitsWin
  <2>12. QED BY <2>6, <2>7, <2>8, <2>9, <2>10, <2>11, Zenon DEF FitsWin
<1>3. QED BY <1>1, <1>2, Zenon

\* It stays behind.
LEMMA BehindStays ==
  ASSUME NEW n \in Nat, NEW w, AWin(w, n), NEW v, AWin(v, n), NEW x, NEW K, NEW c, Behind(v, w, x, K, c),
         NEW m \in Message(n), NEW ids \in [Obj -> 1 .. n], FitsWin(w, m, ids),
         NEW l, m.op \in {"LINE", "NEXTLINE"} => l \in RealLine,
         NEW w1, Effect(w1, w, m, l), NEW v1, Effect(v1, v, m, l)
  PROVE  Behind(v1, w1, x, K, c)
<1>1. FitsWin(v, m, ids)
  BY BehindFits, Zenon
<1>2. CASE m.op = "PADDEF"
  <2>1. v1 = w1
    BY <1>2, Zenon DEF Effect
  <2>2. QED BY <2>1, BehindItself, Zenon
<1>3. CASE w = NoWin /\ m.op # "PADDEF"
  <2>1. v = NoWin
    BY <1>3, Zenon DEF Behind
  <2>2. w1 = NoWin /\ v1 = NoWin
    BY <1>3, <2>1, Zenon DEF Effect
  <2>3. QED BY <2>2, Zenon DEF Behind
<1>4. CASE w # NoWin /\ m.op = "DELETE"
  <2>1. m.op # "PADDEF"
    BY <1>4
  <2>2. w1 = NoWin /\ v1 = NoWin
    BY <1>4, <2>1, Zenon DEF Effect
  <2>3. QED BY <2>2, Zenon DEF Behind
<1>5. CASE w # NoWin /\ m.op \notin {"PADDEF", "DELETE"}
  <2>1. w \in Window(n) /\ WinOK(w)
    BY <1>5, Zenon DEF AWin
  <2>2. w1 \in Window(n) /\ WinOK(w1) /\ SameWin(w1, w) /\ Becoming(w1, w, m, l)
    BY <1>5, <2>1, EffectIs, Becomings
  <2>3. w1 # NoWin /\ w1.oid = w.oid /\ w1.object = w.object
    BY <2>2, NoWinIs, Zenon DEF SameWin
  <2>4. CASE v = NoWin
    <3>1. v1 = NoWin
      BY <1>5, <2>4, Zenon DEF Effect
    <3>2. c /\ w.oid = x /\ "USERCLOSE" \in w.attributes
      BY <1>5, <2>4, Zenon DEF Behind
    <3>3. m.op # "ATTRIBUTE"
      BY <3>2 DEF FitsWin
    <3>4. w1.attributes = OptionsAfter(w.attributes, w.max, m)
      BY <2>2, Zenon DEF Becoming
    <3>5. "USERCLOSE" \in w1.attributes
      BY <3>2, <3>3, <3>4 DEF OptionsAfter
    <3>6. QED BY <2>3, <3>1, <3>2, <3>5, Zenon DEF Behind
  <2>5. CASE v # NoWin
    <3>1. v \in Window(n) /\ WinOK(v)
      BY <2>5, Zenon DEF AWin
    <3>2. v1 \in Window(n) /\ WinOK(v1) /\ SameWin(v1, v) /\ Becoming(v1, v, m, l)
      BY <1>1, <1>5, <3>1, EffectIs, Becomings
    <3>3. /\ v.oid = w.oid /\ v.object = w.object /\ v.attributes = w.attributes /\ v.max = w.max
          /\ Reals(v) \subseteq Reals(w)
          /\ w.max = 0 => Tildes(v) \subseteq Tildes(w)
          /\ AskedOf(v) \subseteq AskedOf(w) \cup Also(w, x, K)
      BY <1>5, <2>5, Zenon DEF Behind, SameWin
    <3>4. SameWin(v1, w1) /\ v1.attributes = w1.attributes /\ v1.max = w1.max /\ v1 # NoWin
      BY <2>2, <3>2, <3>3, NoWinIs, Zenon DEF SameWin, Becoming
    <3>5. w1.max = 0 => w.max = 0
      <4>1. w1.max = MaxAfter(w.max, m)
        BY <2>2, Zenon DEF Becoming
      <4>2. m.op = "LINES" => m.n # 0
        <5>1. m.op = "LINES" => m.n \in Key
          BY MessageIs
        <5>2. QED BY <5>1, KeyIs
      <4>3. QED BY <4>1, <4>2, Zenon DEF MaxAfter
    <3>6. CASE m.op = "MAKEGAP"
      <4>1. Spread(v1, v, m.key) /\ Spread(w1, w, m.key)
        BY <2>2, <3>2, <3>6, Zenon DEF Becoming
      <4>2. Reals(v1) \subseteq Reals(w1) /\ Tildes(v1) = {} /\ AskedOf(v1) = {}
        BY <3>3, <4>1 DEF Spread
      <4>3. Tildes(v1) \subseteq Tildes(w1) /\ AskedOf(v1) \subseteq AskedOf(w1) \cup Also(w1, x, K)
        BY <4>2
      <4>4. QED BY <2>3, <3>4, <4>2, <4>3, Zenon DEF Behind
    <3>7. CASE m.op # "MAKEGAP"
      <4>1. PICK D, A, F : D = Drop(w.max, m, l) /\ A = Add(w.max, m, l) /\ F = Fakes(w.max, m)
        OBVIOUS
      <4>2. Change(v1, v, D, A, F) /\ Change(w1, w, D, A, F)
        BY <2>2, <3>2, <3>3, <3>7, <4>1, Zenon DEF Becoming
      <4>3. PICK Rv, Rw, Tv, Tw, Av, Aw, Y :
              /\ Rv = Reals(v) /\ Rw = Reals(w) /\ Tv = Tildes(v) /\ Tw = Tildes(w)
              /\ Av = AskedOf(v) /\ Aw = AskedOf(w) /\ Y = Also(w, x, K)
        OBVIOUS
      <4>4. /\ Reals(v1) = {y \in Rv : y.key \notin D} \cup A /\ Reals(w1) = {y \in Rw : y.key \notin D} \cup A
            /\ Tildes(v1) = (Tv \ D) \cup F /\ Tildes(w1) = (Tw \ D) \cup F
            /\ AskedOf(v1) = Av \ D /\ AskedOf(w1) = Aw \ D
        BY <4>2, <4>3, Zenon DEF Change
      <4>5. Rv \subseteq Rw /\ Av \subseteq Aw \cup Y /\ (w.max = 0 => Tv \subseteq Tw)
        BY <3>3, <4>3, Zenon
      <4>6. Reals(v1) \subseteq Reals(w1)
        BY ONLY <4>4, <4>5
      <4>7. w1.max = 0 => Tildes(v1) \subseteq Tildes(w1)
        BY ONLY <3>5, <4>4, <4>5
      <4>8. AskedOf(v1) \subseteq AskedOf(w1) \cup Y
        BY ONLY <4>4, <4>5
      <4>9. AskedOf(v1) \subseteq AskedOf(w1) \cup Also(w1, x, K)
        BY <2>3, <4>3, <4>8, Zenon DEF Also
      <4>10. QED BY <2>3, <3>4, <4>6, <4>7, <4>9, Zenon DEF Behind
    <3>8. QED BY <3>6, <3>7, Zenon
  <2>6. QED BY <2>4, <2>5, Zenon
<1>6. QED BY <1>2, <1>3, <1>4, <1>5

\* Terminal v is u without what was taken from the window of object o.
Less(v, u, o, x, K, c) ==
  /\ v.prev = u.prev /\ v.LINEobj = u.LINEobj
  /\ \A p : p # o => Win(v, p) = Win(u, p)
  /\ Behind(Win(v, o), Win(u, o), x, K, c)

LEMMA WinOfTerminal == ASSUME NEW n \in Nat, NEW u, TermOK(u, n), NEW o PROVE AWin(Win(u, o), n)
<1>1. WinsOK(u.wins, n)
  BY TerminalIs, Zenon
<1>2. QED BY <1>1, WinIs, Zenon DEF AWin

\* A message has one effect on a window.
LEMMA EffectOnce ==
  ASSUME NEW n \in Nat, NEW m \in Message(n), NEW w, NEW l, NEW v, Effect(v, w, m, l), NEW r, Effect(r, w, m, l)
  PROVE  v = r
<1>1. m.op \in {"PADDEF", "ATTRIBUTE", "LINE", "NEXTLINE", "REMOVELINE", "CLEAR", "LINES",
                "CREATELINE", "MAKEGAP", "DELETE"}
  BY MessageIs, Zenon
<1>2. CASE m.op = "PADDEF"
  BY <1>2, Zenon DEF Effect
<1>3. CASE m.op # "PADDEF" /\ w = NoWin
  BY <1>3, Zenon DEF Effect
<1>4. CASE m.op # "PADDEF" /\ w # NoWin
  <2>1. CASE m.op \in {"LINE", "NEXTLINE"}
    BY <1>4, <2>1, Zenon DEF Effect
  <2>2. CASE m.op \notin {"LINE", "NEXTLINE"}
    <3>1. m.op \in {"ATTRIBUTE", "REMOVELINE", "CLEAR", "LINES", "CREATELINE", "MAKEGAP", "DELETE"}
      BY <1>1, <1>4, <2>2
    <3>2. QED BY <1>4, <3>1, Zenon DEF Effect
  <2>3. QED BY <2>1, <2>2, Zenon
<1>5. QED BY <1>2, <1>3, <1>4, Zenon

\* What was taken stays taken when the next message is read.
LEMMA LessStep ==
  ASSUME NEW n \in Nat, NEW u, TermOK(u, n), NEW v, TermOK(v, n), NEW o, NEW x, NEW K, NEW c, Less(v, u, o, x, K, c),
         NEW m \in Message(n), NEW ids \in [Obj -> 1 .. n], Fits(u, m, ids),
         NEW u1, u1 = PadOp(u, m), NEW v1, v1 = PadOp(v, m)
  PROVE  Fits(v, m, ids) /\ TermOK(v1, n) /\ Less(v1, u1, o, x, K, c)
<1>1. /\ v.prev = u.prev /\ v.LINEobj = u.LINEobj
      /\ \A p : p # o => Win(v, p) = Win(u, p)
      /\ Behind(Win(v, o), Win(u, o), x, K, c)
  BY Zenon DEF Less
<1>2. PICK q : q = Target(u, m)
  OBVIOUS
<1>3. Target(v, m) = q
  BY <1>1, <1>2, Zenon DEF Target
<1>4. FitsWin(Win(u, q), m, ids) /\ (m.op = "NEXTLINE" => u.prev.key < MaxKey)
  BY <1>2, Zenon DEF Fits
<1>5. AWin(Win(u, o), n) /\ AWin(Win(v, o), n)
  BY WinOfTerminal, Zenon
<1>6. FitsWin(Win(v, q), m, ids)
  <2>1. CASE q = o
    <3>1. FitsWin(Win(u, o), m, ids)
      BY <1>4, <2>1, Zenon
    <3>2. FitsWin(Win(v, o), m, ids)
      BY <1>1, <1>5, <3>1, BehindFits, Zenon
    <3>3. QED BY <2>1, <3>2, Zenon
  <2>2. CASE q # o
    BY <1>1, <1>4, <2>2, Zenon
  <2>3. QED BY <2>1, <2>2, Zenon
<1>7. Fits(v, m, ids)
  BY <1>1, <1>3, <1>4, <1>6, Zenon DEF Fits
<1>8. Step(u1, u, m, n) /\ Step(v1, v, m, n)
  BY <1>7, PadOpIs, Zenon
<1>9. PrevOf(v, m) = PrevOf(u, m)
  BY <1>1, Zenon DEF PrevOf
<1>10. PICK l : l = LineOf(u, m)
  OBVIOUS
<1>11. l = LineOf(v, m)
  BY <1>9, <1>10, Zenon DEF LineOf
<1>12. m.op \in {"LINE", "NEXTLINE"} => l \in RealLine
  BY <1>10, LineOfIs, Zenon
<1>13. /\ TermOK(v1, n) /\ v1.prev = PrevOf(v, m) /\ u1.prev = PrevOf(u, m)
       /\ v1.LINEobj = (IF m.op = "LINE" THEN m.obj ELSE v.LINEobj)
       /\ u1.LINEobj = (IF m.op = "LINE" THEN m.obj ELSE u.LINEobj)
       /\ Effect(Win(v1, q), Win(v, q), m, l) /\ Effect(Win(u1, q), Win(u, q), m, l)
       /\ \A p : p # q => Win(v1, p) = Win(v, p) /\ Win(u1, p) = Win(u, p)
  BY <1>2, <1>3, <1>8, <1>10, <1>11, Zenon DEF Step
<1>14. v1.prev = u1.prev /\ v1.LINEobj = u1.LINEobj
  BY <1>1, <1>9, <1>13, Zenon
<1>15. ASSUME NEW p, p # o PROVE Win(v1, p) = Win(u1, p)
  <2>1. Win(v, p) = Win(u, p)
    BY <1>1, <1>15, Zenon
  <2>2. CASE p = q
    <3>1. Effect(Win(v1, p), Win(u, p), m, l) /\ Effect(Win(u1, p), Win(u, p), m, l)
      BY <1>13, <2>1, <2>2, Zenon
    <3>2. QED BY <3>1, EffectOnce, Zenon
  <2>3. CASE p # q
    BY <1>13, <2>1, <2>3, Zenon
  <2>4. QED BY <2>2, <2>3, Zenon
<1>16. Behind(Win(v1, o), Win(u1, o), x, K, c)
  <2>1. CASE q = o
    <3>1. /\ FitsWin(Win(u, o), m, ids) /\ Effect(Win(v1, o), Win(v, o), m, l)
          /\ Effect(Win(u1, o), Win(u, o), m, l)
      BY <1>4, <1>13, <2>1, Zenon
    <3>2. Behind(Win(v, o), Win(u, o), x, K, c)
      BY <1>1, Zenon
    <3>3. QED BY <1>5, <1>12, <3>1, <3>2, BehindStays, Zenon
  <2>2. CASE q # o
    <3>1. Win(v1, o) = Win(v, o) /\ Win(u1, o) = Win(u, o)
      BY <1>13, <2>2, Zenon
    <3>2. QED BY <1>1, <3>1, Zenon
  <2>3. QED BY <2>1, <2>2, Zenon
<1>17. Less(v1, u1, o, x, K, c)
  BY <1>14, <1>15, <1>16, Zenon DEF Less
<1>18. QED BY <1>7, <1>13, <1>17, Zenon

\* A window that an object has now is not taken away by a message.
LEMMA CurrentStep ==
  ASSUME NEW n \in Nat, NEW u, TermOK(u, n), NEW m \in Message(n), NEW ids \in [Obj -> 1 .. n], Fits(u, m, ids),
         NEW u1, u1 = PadOp(u, m), NEW o \in Obj, Win(u, o).oid = ids[o]
  PROVE  Win(u1, o).oid = ids[o] /\ ~ (m.op = "PADDEF" /\ Target(u, m) = o)
<1>1. Step(u1, u, m, n)
  BY PadOpIs, Zenon
<1>2. ids[o] # 0 /\ NoWin.oid = 0
  BY DEF NoWin
<1>3. Win(u, o) # NoWin
  BY <1>2, Zenon
<1>4. CASE Target(u, m) # o
  <2>1. Win(u1, o) = Win(u, o)
    BY <1>1, <1>4, Zenon DEF Step
  <2>2. QED BY <1>4, <2>1, Zenon
<1>5. CASE Target(u, m) = o
  <2>1. FitsWin(Win(u, o), m, ids)
    BY <1>5, Zenon DEF Fits
  <2>2. m.op # "PADDEF"
    BY <1>3, <2>1, Zenon DEF FitsWin
  <2>3. m.op # "DELETE"
    <3>1. ASSUME m.op = "DELETE" PROVE FALSE
      <4>1. m.op # "NEXTLINE"
        BY <3>1
      <4>2. m.obj = o
        BY <1>5, <4>1, Zenon DEF Target
      <4>3. QED BY <2>1, <3>1, <4>2, Zenon DEF FitsWin
    <3>2. QED BY <3>1, Zenon
  <2>4. PICK w, w1, l : w = Win(u, o) /\ w1 = Win(u1, o) /\ l = LineOf(u, m)
    OBVIOUS
  <2>5. Effect(w1, w, m, l) /\ FitsWin(w, m, ids)
    BY <1>1, <1>5, <2>1, <2>4, Zenon DEF Step
  <2>6. w \in Window(n) /\ WinOK(w)
    BY <1>3, <2>4, WinOfTerminal, Zenon DEF AWin
  <2>7. m.op \in {"LINE", "NEXTLINE"} => l \in RealLine
    BY <2>4, LineOfIs, Zenon
  <2>8. m.op \notin {"PADDEF", "DELETE"}
    BY <2>2, <2>3
  <2>9. SameWin(w1, w)
    BY <2>5, <2>6, <2>7, <2>8, EffectIs, Zenon
  <2>10. QED BY <2>2, <2>4, <2>9, Zenon DEF SameWin
<1>6. QED BY <1>4, <1>5, Zenon

\* An object that has no window gets none but by P_PADDEF.
LEMMA ClosedStep ==
  ASSUME NEW n \in Nat, NEW u, TermOK(u, n), NEW m \in Message(n), NEW ids \in [Obj -> 1 .. n], Fits(u, m, ids),
         NEW u1, u1 = PadOp(u, m), NEW o, Win(u, o) = NoWin, ~ (m.op = "PADDEF" /\ Target(u, m) = o)
  PROVE  Win(u1, o) = NoWin
<1>1. Step(u1, u, m, n)
  BY PadOpIs, Zenon
<1>2. CASE Target(u, m) # o
  BY <1>1, <1>2, Zenon DEF Step
<1>3. CASE Target(u, m) = o
  <2>1. Effect(Win(u1, o), Win(u, o), m, LineOf(u, m)) /\ m.op # "PADDEF"
    BY <1>1, <1>3, Zenon DEF Step
  <2>2. QED BY <2>1, Zenon DEF Effect
<1>4. QED BY <1>2, <1>3, Zenon

\* All that is under way can be read after something was taken, with the
\* same in the end but for what was taken.
LEMMA Taking ==
  ASSUME NEW n \in Nat, NEW s \in Seq(Message(n)), NEW u, NEW ids \in [Obj -> 1 .. n], PipeOK(u, s, n, ids),
         NEW v, TermOK(v, n), NEW o, NEW x, NEW K, NEW c, Less(v, u, o, x, K, c)
  PROVE  /\ PipeOK(v, s, n, ids) /\ Less(DrainedOf(v, s), DrainedOf(u, s), o, x, K, c)
         /\ \A p \in Obj : Win(u, p).oid = ids[p] =>
              /\ Win(DrainedOf(u, s), p).oid = ids[p]
              /\ Win(v, p) = NoWin => Win(DrainedOf(v, s), p) = NoWin
<1>1. PICK g : Piped(g, u, s, n, ids) /\ g[Len(s)] = DrainedOf(u, s)
  BY PipeOf, Zenon
<1>2. PICK h : Reads(h, v, s)
  BY ReadingExists, Zenon
<1>3. PICK N : N = Len(s)
  OBVIOUS
<1>4. N \in Nat /\ 0 \in 0 .. N /\ N \in 0 .. N
  BY <1>3
<1>5. /\ g[0] = u /\ \A i \in 1 .. N : g[i] = PadOp(g[i - 1], s[i]) /\ Fits(g[i - 1], s[i], ids)
      /\ \A i \in 0 .. N : TermOK(g[i], n)
  BY <1>1, <1>3, Zenon DEF Piped, Reads
<1>6. h[0] = v /\ \A i \in 1 .. N : h[i] = PadOp(h[i - 1], s[i])
  BY <1>2, <1>3, Zenon DEF Reads
<1> DEFINE Good(i) == TermOK(h[i], n) /\ Less(h[i], g[i], o, x, K, c)
           Kept(i) == \A p \in Obj : Win(u, p).oid = ids[p] =>
                        /\ Win(g[i], p).oid = ids[p]
                        /\ Win(v, p) = NoWin => Win(h[i], p) = NoWin
           T == { i \in 0 .. N : Good(i) /\ Kept(i) }
<1>7. 0 \in T
  <2>1. Good(0) /\ Kept(0)
    BY <1>5, <1>6, Zenon
  <2>2. QED BY <1>4, <2>1, Zenon
<1>8. ASSUME NEW i \in 0 .. N - 1, Good(i), Kept(i)
      PROVE  Good(i + 1) /\ Kept(i + 1) /\ Fits(h[i], s[i + 1], ids)
  <2>1. PICK j, m : j = i + 1 /\ m = s[j]
    OBVIOUS
  <2>2. j \in 1 .. N /\ j - 1 = i /\ i \in 0 .. N
    BY <1>4, <2>1
  <2>3. m \in Message(n)
    BY <1>3, <2>1, <2>2
  <2>4. PICK a, b, a1, b1 : a = g[i] /\ b = h[i] /\ a1 = g[j] /\ b1 = h[j]
    OBVIOUS
  <2>5. a1 = PadOp(a, m) /\ b1 = PadOp(b, m) /\ Fits(a, m, ids) /\ TermOK(a, n)
    BY <1>5, <1>6, <2>1, <2>2, <2>4, Zenon
  <2>6. TermOK(b, n) /\ Less(b, a, o, x, K, c)
    BY <1>8, <2>4, Zenon
  <2>7. Fits(b, m, ids) /\ TermOK(b1, n) /\ Less(b1, a1, o, x, K, c)
    BY <2>3, <2>5, <2>6, LessStep, Zenon
  <2>8. ASSUME NEW p \in Obj, Win(u, p).oid = ids[p]
        PROVE  Win(a1, p).oid = ids[p] /\ (Win(v, p) = NoWin => Win(b1, p) = NoWin)
    <3>1. Win(a, p).oid = ids[p] /\ (Win(v, p) = NoWin => Win(b, p) = NoWin)
      BY <1>8, <2>4, <2>8, Zenon
    <3>2. Win(a1, p).oid = ids[p] /\ ~ (m.op = "PADDEF" /\ Target(a, m) = p)
      <4>1. a1 = PadOp(a, m) /\ Fits(a, m, ids) /\ TermOK(a, n) /\ Win(a, p).oid = ids[p]
        BY <2>5, <3>1, Zenon
      <4>2. QED BY ONLY n \in Nat, ids \in [Obj -> 1 .. n], p \in Obj, <2>3, <4>1, CurrentStep
    <3>3. Target(b, m) = Target(a, m)
      BY <2>6, Zenon DEF Less, Target
    <3>4. Win(b, p) = NoWin => Win(b1, p) = NoWin
      <4>1. b1 = PadOp(b, m) /\ Fits(b, m, ids) /\ TermOK(b, n) /\ ~ (m.op = "PADDEF" /\ Target(b, m) = p)
        BY <2>5, <2>6, <2>7, <3>2, <3>3, Zenon
      <4>2. QED BY ONLY n \in Nat, ids \in [Obj -> 1 .. n], <2>3, <4>1, ClosedStep
    <3>5. QED BY <3>1, <3>2, <3>4, Zenon
  <2>9. Good(j) /\ Kept(j)
    BY <2>4, <2>7, <2>8, Zenon
  <2>10. QED BY <2>1, <2>4, <2>7, <2>9, Zenon
<1>9. \A i \in 0 .. N - 1 : i \in T => i + 1 \in T
  <2>1. ASSUME NEW i \in 0 .. N - 1, i \in T PROVE i + 1 \in T
    <3>1. Good(i) /\ Kept(i)
      BY <2>1, Zenon
    <3>2. Good(i + 1) /\ Kept(i + 1)
      BY <1>8, <3>1, Zenon
    <3>3. i + 1 \in 0 .. N
      BY <1>4
    <3>4. QED BY <3>2, <3>3, Zenon
  <2>2. QED BY <2>1, Zenon
<1>10. \A i \in 0 .. N : Good(i) /\ Kept(i)
  <2>1. ASSUME NEW i \in 0 .. N PROVE i \in T
    <3>1. i \in Nat /\ \A k \in 0 .. i - 1 : k \in 0 .. N - 1
      BY <1>4
    <3>2. \A k \in 0 .. i - 1 : k \in T => k + 1 \in T
      BY <1>9, <3>1, Zenon
    <3> HIDE DEF T
    <3>3. QED BY <1>7, <3>1, <3>2, InductTo, Zenon
  <2>2. QED BY <2>1, Zenon
<1>11. \A i \in 1 .. N : Fits(h[i - 1], s[i], ids)
  <2>1. ASSUME NEW i \in 1 .. N PROVE Fits(h[i - 1], s[i], ids)
    <3>1. PICK k : k = i - 1
      OBVIOUS
    <3>2. k \in 0 .. N - 1 /\ k + 1 = i /\ k \in 0 .. N
      BY <1>4, <3>1
    <3>3. Good(k) /\ Kept(k)
      BY <1>10, <3>2, Zenon
    <3>4. Fits(h[k], s[k + 1], ids)
      BY <1>8, <3>2, <3>3, Zenon
    <3>5. QED BY <3>1, <3>2, <3>4, Zenon
  <2>2. QED BY <2>1, Zenon
<1>12. Piped(h, v, s, n, ids)
  <2>1. \A i \in 0 .. N : TermOK(h[i], n)
    BY <1>10, Zenon
  <2>2. QED BY <1>2, <1>3, <1>11, <2>1, Zenon DEF Piped
<1>13. PipeOK(v, s, n, ids) /\ DrainedOf(v, s) = h[N]
  BY <1>3, <1>12, PipeBy, Zenon
<1>14. Good(N) /\ Kept(N)
  BY <1>4, <1>10, Zenon
<1>15. DrainedOf(u, s) = g[N]
  BY <1>1, <1>3, Zenon
<1>16. Less(DrainedOf(v, s), DrainedOf(u, s), o, x, K, c)
  BY <1>13, <1>14, <1>15, Zenon
<1>17. QED BY <1>13, <1>14, <1>15, <1>16, Zenon

-----------------------------------------------------------------------------
(* What a program sees of the windows (Windows). *)

Seen(w) == IF w = NoWin THEN W!Closed ELSE [open |-> TRUE, max |-> w.max, lines |-> ShownLines(w)]

\* f gives the text and the attributes of the lines R, by their keys.
Displays(f, R) ==
  /\ f = [k \in {l.key : l \in R} |-> f[k]]
  /\ \A l \in R : f[l.key] = Content(l.text, l.attributes)

LEMMA DisplaysOnce ==
  ASSUME NEW R, NEW f, NEW g, Displays(f, R), Displays(g, R)
  PROVE  f = g
<1>1. PICK K : K = {l.key : l \in R}
  OBVIOUS
<1>2. f = [k \in K |-> f[k]] /\ g = [k \in K |-> g[k]]
  BY <1>1, Zenon DEF Displays
<1>3. ASSUME NEW k \in K PROVE f[k] = g[k]
  <2>1. PICK l \in R : k = l.key
    BY <1>1
  <2>2. f[l.key] = Content(l.text, l.attributes) /\ g[l.key] = Content(l.text, l.attributes)
    BY <2>1, Zenon DEF Displays
  <2>3. QED BY <2>1, <2>2, Zenon
<1>4. QED BY <1>2, <1>3

\* A window has one line of each key.
LEMMA OneOfKey ==
  ASSUME NEW n \in Nat, NEW w \in Window(n), WinOK(w), NEW l \in AsSet(w.lines), NEW x \in AsSet(w.lines), l.key = x.key
  PROVE  l = x
<1>1. w.lines \in Seq(Line) /\ Sorted(w.lines)
  BY WindowIs, Zenon DEF WinOK
<1>2. PICK i, j : i \in 1 .. Len(w.lines) /\ j \in 1 .. Len(w.lines) /\ l = w.lines[i] /\ x = w.lines[j]
  <2>1. (\E i \in 1 .. Len(w.lines) : l = w.lines[i]) /\ (\E j \in 1 .. Len(w.lines) : x = w.lines[j])
    BY <1>1, InSet, Zenon
  <2>2. QED BY <2>1, Zenon
<1>3. /\ i < j => w.lines[i].key < w.lines[j].key
      /\ j < i => w.lines[j].key < w.lines[i].key
  BY <1>1, <1>2, SortedIs, Zenon
<1>4. l.key \in Nat /\ x.key \in Nat
  BY <1>1, InSet, LineIs, Zenon
<1>5. i = j
  BY <1>1, <1>2, <1>3, <1>4
<1>6. QED BY <1>2, <1>5, Zenon

LEMMA RealsAre ==
  ASSUME NEW n \in Nat, NEW w \in Window(n), WinOK(w), NEW l \in Reals(w)
  PROVE  /\ l \in AsSet(w.lines) /\ l.key \in Key /\ l.key \in Nat /\ l \in Line /\ l.text # TILDE
         /\ \A x \in Reals(w) : x.key = l.key => x = l
<1>1. l \in AsSet(w.lines) /\ l.text # TILDE /\ \A x \in Reals(w) : x \in AsSet(w.lines)
  BY DEF Reals
<1>2. w.lines \in Seq(Line)
  BY WindowIs, Zenon
<1>3. l \in Line /\ l.key \in Key /\ l.key \in Nat
  BY <1>1, <1>2, InSet, LineIs, Zenon
<1>4. ASSUME NEW x \in Reals(w), x.key = l.key PROVE x = l
  BY <1>1, <1>4, OneOfKey, Zenon
<1>5. QED BY <1>1, <1>3, <1>4, Zenon

LEMMA ShownLinesAre ==
  ASSUME NEW n \in Nat, NEW w \in Window(n), WinOK(w)
  PROVE  Displays(ShownLines(w), Reals(w))
<1>1. PICK R : R = Reals(w)
  OBVIOUS
<1>2. {l \in Range(w.lines) : l.text # TILDE} = R
  <2>1. w.lines \in Seq(Line)
    BY WindowIs, Zenon
  <2>2. Range(w.lines) = AsSet(w.lines)
    BY <2>1 DEF Range, AsSet
  <2>3. QED BY <1>1, <2>2, Zenon DEF Reals
<1>3. PICK f : f = [k \in {l.key : l \in R} |->
                      Content((CHOOSE l \in R : l.key = k).text, (CHOOSE l \in R : l.key = k).attributes)]
  OBVIOUS
<1>4. ShownLines(w) = f
  <2> DEFINE S == {l \in Range(w.lines) : l.text # TILDE}
             F(T) == [k \in {l.key : l \in T} |->
                        Content((CHOOSE l \in T : l.key = k).text, (CHOOSE l \in T : l.key = k).attributes)]
  <2>1. ShownLines(w) = F(S)
    BY DEF ShownLines
  <2>2. S = R /\ f = F(R)
    BY <1>2, <1>3, Zenon
  <2> HIDE DEF S, F
  <2>3. QED BY <2>1, <2>2, Zenon
<1>5. ASSUME NEW l \in R PROVE f[l.key] = Content(l.text, l.attributes)
  <2>1. PICK k : k = l.key
    OBVIOUS
  <2>2. (CHOOSE x \in R : x.key = k) \in R /\ (CHOOSE x \in R : x.key = k).key = k
    BY <2>1, Zenon
  <2>3. \A x \in R : x.key = l.key => x = l
    BY <1>1, RealsAre, Zenon
  <2>4. (CHOOSE x \in R : x.key = k) = l
    BY <2>1, <2>2, <2>3, Zenon
  <2>5. f[k] = Content((CHOOSE x \in R : x.key = k).text, (CHOOSE x \in R : x.key = k).attributes)
    BY <1>3, <2>1
  <2>6. QED BY <2>1, <2>4, <2>5, Zenon
<1>6. f = [k \in {l.key : l \in R} |-> f[k]]
  BY <1>3
<1>7. QED BY <1>1, <1>4, <1>5, <1>6, Zenon DEF Displays

LEMMA SeenIs ==
  ASSUME NEW n \in Nat, NEW D, TermOK(D, n)
  PROVE  Shown(D) = [o \in Obj |-> Seen(Win(D, o))]
<1>1. WinsOK(D.wins, n)
  BY TerminalIs, Zenon
<1>2. ASSUME NEW o \in Obj
      PROVE  Shown(D)[o] = Seen(Win(D, o))
  <2>1. Shown(D)[o] = LET i == ObjToPad(D, o) IN
          IF i = 0 THEN W!Closed
          ELSE [open |-> TRUE, max |-> D.wins[i].max, lines |-> ShownLines(D.wins[i])]
    BY DEF Shown
  <2>2. CASE ObjToPad(D, o) = 0
    <3>1. Win(D, o) = NoWin
      BY <1>1, <2>2, WinIs, Zenon
    <3>2. QED BY <2>1, <2>2, <3>1, Zenon DEF Seen
  <2>3. CASE ObjToPad(D, o) # 0
    <3>1. ObjToPad(D, o) \in 1 .. Len(D.wins) /\ D.wins[ObjToPad(D, o)].object = o
      BY <1>1, <2>3, ObjToPadIs, Zenon
    <3>2. Win(D, o) = D.wins[ObjToPad(D, o)] /\ D.wins[ObjToPad(D, o)] \in Window(n)
      BY <1>1, <3>1, WinAt, Zenon
    <3>3. Win(D, o) # NoWin
      BY <3>2, NoWinIs, Zenon
    <3>4. QED BY <2>1, <2>3, <3>2, <3>3, Zenon DEF Seen
  <2>4. QED BY <2>2, <2>3
<1>3. Shown(D) = [o \in Obj |-> Shown(D)[o]]
  BY DEF Shown
<1>4. QED BY <1>2, <1>3

\* r is s with y for the window of o.
Changes(r, s, o, y) == s = [p \in Obj |-> s[p]] /\ r = [s EXCEPT ![o] = y]

\* Where the terminals differ in the window of one object, what they show
\* differs there.
LEMMA OneSeen ==
  ASSUME NEW n \in Nat, NEW D, TermOK(D, n), NEW E, TermOK(E, n), NEW o \in Obj,
         \A p : p # o => Win(E, p) = Win(D, p)
  PROVE  Changes(Shown(E), Shown(D), o, Seen(Win(E, o))) /\ Shown(D)[o] = Seen(Win(D, o))
<1>1. Shown(D) = [p \in Obj |-> Seen(Win(D, p))] /\ Shown(E) = [p \in Obj |-> Seen(Win(E, p))]
  BY SeenIs, Zenon
<1>2. PICK s, r, x : s = Shown(D) /\ r = Shown(E) /\ x = Seen(Win(E, o))
  OBVIOUS
<1>3. r[o] = x /\ \A p \in Obj : p # o => r[p] = s[p]
  BY <1>1, <1>2
<1>4. s = [p \in Obj |-> s[p]] /\ r = [p \in Obj |-> r[p]]
  BY <1>1, <1>2
<1>5. r = [s EXCEPT ![o] = x]
  BY <1>3, <1>4
<1>6. Changes(r, s, o, x)
  BY <1>4, <1>5 DEF Changes
<1>7. Shown(D)[o] = Seen(Win(D, o))
  BY <1>1
<1>8. QED BY <1>2, <1>6, <1>7, Zenon

\* A window with lines f.
Pane(m, f) == [open |-> TRUE, max |-> m, lines |-> f]

\* Window z with lines f instead of its own.
WithLines(z, f) == [z EXCEPT !.lines = f]

LEMMA PaneIs ==
  ASSUME NEW m, NEW g, NEW f, NEW z, z = Pane(m, g)
  PROVE  WithLines(z, f) = Pane(m, f)
<1>2. PICK a : a = TRUE
  OBVIOUS
<1>3. z = [open |-> a, max |-> m, lines |-> g] /\ Pane(m, f) = [open |-> a, max |-> m, lines |-> f]
  BY <1>2, Zenon DEF Pane
<1>4. [z EXCEPT !.lines = f] = [open |-> a, max |-> m, lines |-> f]
  BY ONLY <1>3
<1>5. WithLines(z, f) = Pane(m, f)
  BY <1>3, <1>4, Zenon DEF WithLines
<1>6. QED BY <1>5, Zenon

\* f is g with c for the keys `in', or without the keys K.
Overlaid(f, in, c, g) == f = [k \in in \cup DOMAIN g |-> IF k \in in THEN c ELSE g[k]]
Dropped(f, K, g) == f = [k \in DOMAIN g \ K |-> g[k]]

\* D and E differ in the window of o alone, and it is there in both or in
\* neither.
Alter(E, D, o, n) ==
  /\ TermOK(D, n) /\ TermOK(E, n) /\ o \in Obj
  /\ \A p : p # o => Win(E, p) = Win(D, p)
  /\ Win(D, o) = NoWin => Win(E, o) = NoWin
  /\ Win(D, o) # NoWin => Win(E, o) # NoWin

\* The windows w and v of o in D and E, and what is seen of them, z and y.
Altered(w, v, z, y, n) ==
  \/ w = NoWin /\ v = NoWin /\ z = W!Closed /\ y = W!Closed
  \/ /\ w # NoWin /\ v \in Window(n) /\ WinOK(v) /\ w \in Window(n) /\ WinOK(w)
     /\ z = Pane(w.max, ShownLines(w)) /\ Displays(ShownLines(w), Reals(w))
     /\ \A f : Displays(f, Reals(v)) => y = Pane(v.max, f)

LEMMA AlterIs ==
  ASSUME NEW n \in Nat, NEW D, NEW E, NEW o, Alter(E, D, o, n)
  PROVE  /\ Changes(Shown(E), Shown(D), o, Seen(Win(E, o)))
         /\ Altered(Win(D, o), Win(E, o), Shown(D)[o], Seen(Win(E, o)), n)
<1>0. PICK w, v : w = Win(D, o) /\ v = Win(E, o)
  OBVIOUS
<1>1. /\ TermOK(D, n) /\ TermOK(E, n) /\ o \in Obj /\ \A p : p # o => Win(E, p) = Win(D, p)
      /\ w = NoWin => v = NoWin
      /\ w # NoWin => v # NoWin
  BY <1>0, Zenon DEF Alter
<1>2. Changes(Shown(E), Shown(D), o, Seen(Win(E, o))) /\ Shown(D)[o] = Seen(Win(D, o))
  BY <1>1, OneSeen, Zenon
<1>3. CASE w = NoWin
  <2>1. w = NoWin /\ v = NoWin /\ Seen(w) = W!Closed /\ Seen(v) = W!Closed
    BY <1>1, <1>3, Zenon DEF Seen
  <2>2. Altered(w, v, Seen(w), Seen(v), n)
    BY <2>1, Zenon DEF Altered
  <2>3. QED BY <1>0, <1>2, <2>2, Zenon
<1>4. CASE w # NoWin
  <2>1. AWin(w, n) /\ AWin(v, n)
    BY <1>0, <1>1, WinOfTerminal, Zenon
  <2>2. v # NoWin /\ v \in Window(n) /\ WinOK(v) /\ w \in Window(n) /\ WinOK(w)
    BY <1>1, <1>4, <2>1, Zenon DEF AWin
  <2>3. Displays(ShownLines(w), Reals(w)) /\ Displays(ShownLines(v), Reals(v))
    BY <2>2, ShownLinesAre, Zenon
  <2>4. Seen(w) = Pane(w.max, ShownLines(w)) /\ Seen(v) = Pane(v.max, ShownLines(v))
    BY <1>4, <2>2, Zenon DEF Seen, Pane
  <2>5. ASSUME NEW f, Displays(f, Reals(v)) PROVE Seen(v) = Pane(v.max, f)
    <3>1. f = ShownLines(v)
      BY <2>3, <2>5, DisplaysOnce, Zenon
    <3>2. QED BY <2>4, <3>1, Zenon
  <2>6. Altered(w, v, Seen(w), Seen(v), n)
    BY <1>4, <2>2, <2>3, <2>4, <2>5, Zenon DEF Altered
  <2>7. QED BY <1>0, <1>2, <2>6, Zenon
<1>5. QED BY <1>3, <1>4, Zenon

\* A window of which nothing is left.
LEMMA ClosedIs ==
  ASSUME NEW z, z = W!Closed, NEW f, NEW K, NEW c, Dropped(f, K, z.lines) \/ Overlaid(f, {}, c, z.lines)
  PROVE  z = WithLines(z, f)
<1>1. z.lines = <<>>
  BY DEF W!Closed
<1>2. f = <<>>
  BY <1>1 DEF Dropped, Overlaid
<1>3. QED BY <1>2 DEF W!Closed, WithLines

NewLines(in, x, as) == {[key |-> k, text |-> x, attributes |-> as] : k \in in}

AreNew(N, in, x, as) ==
  /\ \A l \in N : l.key \in in /\ l.text = x /\ l.attributes = as
  /\ \A k \in in : \E l \in N : l.key = k

LEMMA NewLinesAre ==
  ASSUME NEW in, NEW x, NEW as
  PROVE  AreNew(NewLines(in, x, as), in, x, as)
<1>1. ASSUME NEW l \in NewLines(in, x, as) PROVE l.key \in in /\ l.text = x /\ l.attributes = as
  <2>1. PICK k \in in : l = [key |-> k, text |-> x, attributes |-> as]
    BY Zenon DEF NewLines
  <2>2. QED BY <2>1
<1>2. ASSUME NEW k \in in PROVE \E l \in NewLines(in, x, as) : l.key = k
  <2>1. PICK l : l = [key |-> k, text |-> x, attributes |-> as]
    OBVIOUS
  <2>2. l.key = k
    BY <2>1
  <2>3. l \in NewLines(in, x, as)
    BY <2>1, Zenon DEF NewLines
  <2>4. QED BY <2>2, <2>3, Zenon
<1>3. QED BY <1>1, <1>2, Zenon DEF AreNew

\* What is seen of a window in which lines `in' now say c.
LEMMA InsertedLines ==
  ASSUME NEW R, NEW g, Displays(g, R), NEW in, NEW x, NEW as, NEW c, c = Content(x, as),
         NEW f, Overlaid(f, in, c, g), NEW Q, Q = {l \in R : l.key \notin in} \cup NewLines(in, x, as)
  PROVE  Displays(f, Q)
<1>1. g = [k \in {l.key : l \in R} |-> g[k]] /\ \A l \in R : g[l.key] = Content(l.text, l.attributes)
  BY Zenon DEF Displays
<1>2. PICK N : N = NewLines(in, x, as)
  OBVIOUS
<1>3. (\A l \in N : l.key \in in /\ l.text = x /\ l.attributes = as) /\ (\A k \in in : \E l \in N : l.key = k)
  <2>1. AreNew(N, in, x, as)
    BY <1>2, NewLinesAre, Zenon
  <2>2. QED BY <2>1, Zenon DEF AreNew
<1>4. Q = {l \in R : l.key \notin in} \cup N
  BY <1>2, Zenon
<1>5. f = [k \in in \cup {l.key : l \in R} |-> IF k \in in THEN c ELSE g[k]]
  BY <1>1 DEF Overlaid
<1>6. {l.key : l \in Q} = in \cup {l.key : l \in R}
  <2>1. ASSUME NEW k \in in PROVE k \in {l.key : l \in Q}
    BY <1>3, <1>4
  <2>2. ASSUME NEW l \in R PROVE l.key \in {m.key : m \in Q}
    <3>1. CASE l.key \in in
      BY <2>1, <3>1
    <3>2. CASE l.key \notin in
      BY <1>4, <3>2
    <3>3. QED BY <3>1, <3>2
  <2>3. ASSUME NEW l \in Q PROVE l.key \in in \cup {m.key : m \in R}
    BY <1>3, <1>4
  <2>4. QED BY <2>1, <2>2, <2>3
<1>7. ASSUME NEW l \in Q PROVE f[l.key] = Content(l.text, l.attributes)
  <2>1. CASE l \in N
    <3>1. l.key \in in /\ l.text = x /\ l.attributes = as
      BY <1>3, <2>1
    <3>2. f[l.key] = c
      BY <1>5, <3>1
    <3>3. QED BY <3>1, <3>2, Zenon
  <2>2. CASE l \in R /\ l.key \notin in
    <3>1. f[l.key] = g[l.key]
      BY <1>5, <2>2
    <3>2. QED BY <1>1, <2>2, <3>1, Zenon
  <2>3. QED BY <1>4, <2>1, <2>2
<1>8. f = [k \in {l.key : l \in Q} |-> f[k]]
  BY <1>5, <1>6
<1>9. QED BY <1>7, <1>8, Zenon DEF Displays

\* The keys K that a window has room for.
Room(w, K) == {k \in K : w.max = 0 \/ k <= w.max}

\* D becomes E by writing lines K of the window of o.
Writes(E, D, o, K, x, as, n) ==
  /\ Alter(E, D, o, n)
  /\ Win(D, o) # NoWin =>
       /\ Win(E, o).max = Win(D, o).max
       /\ Reals(Win(E, o)) = {l \in Reals(Win(D, o)) : l.key \notin Room(Win(D, o), K)}
                               \cup NewLines(Room(Win(D, o), K), x, as)

\* What is seen of lines that are inserted: the windows before and after.
LinesSeen(new, old, o, K, x, as) == new = W!Inserted(old, o, K, Content(x, as))

LEMMA WritesShown ==
  ASSUME NEW n \in Nat, NEW D, NEW E, NEW o, NEW K, NEW x, NEW as, Writes(E, D, o, K, x, as, n)
  PROVE  LinesSeen(Shown(E), Shown(D), o, K, x, as)
<1> PICK w, v, in : w = Win(D, o) /\ v = Win(E, o) /\ in = Room(w, K)
  OBVIOUS
<1>0. /\ Alter(E, D, o, n) /\ in = {k \in K : w.max = 0 \/ k <= w.max}
      /\ w # NoWin => v.max = w.max /\ Reals(v) = {l \in Reals(w) : l.key \notin in} \cup NewLines(in, x, as)
  <2>1. in = {k \in K : w.max = 0 \/ k <= w.max}
    BY DEF Room
  <2>2. QED BY <2>1, Zenon DEF Writes
<1>1. PICK s, z, y, c : s = Shown(D) /\ z = s[o] /\ y = Seen(v) /\ c = Content(x, as)
  OBVIOUS
<1>2. Changes(Shown(E), s, o, y) /\ Altered(w, v, z, y, n)
  BY <1>0, <1>1, AlterIs, Zenon
<1>3. PICK I : I = {k \in K : z.open /\ (z.max = 0 \/ k <= z.max)}
  OBVIOUS
<1>4. PICK f : Overlaid(f, I, c, z.lines)
  BY Zenon DEF Overlaid
<1>5. W!Inserted(s, o, K, c) = [s EXCEPT ![o] = WithLines(z, f)]
  BY <1>1, <1>3, <1>4 DEF W!Inserted, Overlaid, WithLines
<1>6. y = WithLines(z, f)
  <2>1. CASE w = NoWin
    <3>1. z = W!Closed /\ y = W!Closed
      BY <1>2, <2>1, Zenon DEF Altered
    <3>2. z.open = FALSE
      BY <3>1 DEF W!Closed
    <3>3. I = {}
      BY <1>3, <3>2
    <3>4. Overlaid(f, {}, c, z.lines)
      BY <1>4, <3>3, Zenon
    <3>5. QED BY <3>1, <3>4, ClosedIs, Zenon
  <2>2. CASE w # NoWin
    <3>1. PICK g, R : g = ShownLines(w) /\ R = Reals(w)
      OBVIOUS
    <3>2. /\ z = Pane(w.max, g) /\ Displays(g, R)
          /\ \A h : Displays(h, Reals(v)) => y = Pane(v.max, h)
      BY <1>2, <2>2, <3>1, Zenon DEF Altered
    <3>3. z.max = w.max /\ z.lines = g
      BY <3>2 DEF Pane
    <3>31. z.open = TRUE
      BY <3>2 DEF Pane
    <3>32. WithLines(z, f) = Pane(w.max, f)
      BY <3>2, PaneIs
    <3>4. I = in
      BY <1>0, <1>3, <3>3, <3>31
    <3>5. Overlaid(f, in, c, g)
      BY <1>4, <3>3, <3>4, Zenon
    <3>6. Displays(f, Reals(v))
      <4>1. Reals(v) = {l \in R : l.key \notin in} \cup NewLines(in, x, as)
        BY <1>0, <2>2, <3>1, Zenon
      <4>2. QED BY ONLY <1>1, <3>2, <3>5, <4>1, InsertedLines
    <3>7. QED BY <1>0, <2>2, <3>2, <3>32, <3>6, Zenon
  <2>3. QED BY <2>1, <2>2, Zenon
<1>7. Shown(E) = W!Inserted(s, o, K, c)
  BY <1>1, <1>2, <1>5, <1>6, Zenon DEF Changes
<1>8. QED BY <1>1, <1>7 DEF LinesSeen

LEMMA VanishedLines ==
  ASSUME NEW R, NEW g, Displays(g, R), NEW K, NEW f, Dropped(f, K, g)
  PROVE  Displays(f, {l \in R : l.key \notin K})
<1>1. g = [k \in {l.key : l \in R} |-> g[k]] /\ \A l \in R : g[l.key] = Content(l.text, l.attributes)
  BY Zenon DEF Displays
<1>2. PICK Q : Q = {l \in R : l.key \notin K}
  OBVIOUS
<1>3. DOMAIN f = {l.key : l \in Q} /\ f = [k \in DOMAIN g \ K |-> g[k]]
  BY <1>1, <1>2 DEF Dropped
<1>4. ASSUME NEW l \in Q PROVE f[l.key] = Content(l.text, l.attributes)
  <2>1. f[l.key] = g[l.key] /\ l \in R
    BY <1>1, <1>2, <1>3
  <2>2. QED BY <1>1, <2>1, Zenon
<1>5. f = [k \in {l.key : l \in Q} |-> f[k]]
  BY <1>3
<1>6. QED BY <1>2, <1>4, <1>5, Zenon DEF Displays

LEMMA VanishedShown ==
  ASSUME NEW n \in Nat, NEW D, NEW E, NEW o, Alter(E, D, o, n), NEW w, w = Win(D, o), NEW v, v = Win(E, o), NEW K,
         w # NoWin => v.max = w.max /\ Reals(v) = {l \in Reals(w) : l.key \notin K}
  PROVE  Shown(E) = W!Vanished(Shown(D), o, K)
<1>1. PICK s, z, y : s = Shown(D) /\ z = s[o] /\ y = Seen(v)
  OBVIOUS
<1>2. Changes(Shown(E), s, o, y) /\ Altered(w, v, z, y, n)
  BY <1>1, AlterIs, Zenon
<1>3. PICK f : Dropped(f, K, z.lines)
  BY Zenon DEF Dropped
<1>4. W!Vanished(s, o, K) = [s EXCEPT ![o] = WithLines(z, f)]
  BY <1>1, <1>3 DEF W!Vanished, Dropped, WithLines
<1>5. y = WithLines(z, f)
  <2>1. CASE w = NoWin
    <3>1. z = W!Closed /\ y = W!Closed
      BY <1>2, <2>1, Zenon DEF Altered
    <3>2. QED BY <1>3, <3>1, ClosedIs, Zenon
  <2>2. CASE w # NoWin
    <3>1. PICK g, R : g = ShownLines(w) /\ R = Reals(w)
      OBVIOUS
    <3>2. /\ z = Pane(w.max, g) /\ Displays(g, R)
          /\ \A h : Displays(h, Reals(v)) => y = Pane(v.max, h)
      BY <1>2, <2>2, <3>1, Zenon DEF Altered
    <3>3. z.lines = g
      BY <3>2 DEF Pane
    <3>31. WithLines(z, f) = Pane(w.max, f)
      BY <3>2, PaneIs
    <3>4. Dropped(f, K, g)
      BY <1>3, <3>3, Zenon
    <3>5. Displays(f, {l \in R : l.key \notin K})
      BY <3>2, <3>4, VanishedLines, Zenon
    <3>6. Displays(f, Reals(v)) /\ v.max = w.max
      BY <2>2, <3>1, <3>5, Zenon
    <3>7. QED BY <3>2, <3>31, <3>6, Zenon
  <2>3. QED BY <2>1, <2>2, Zenon
<1>6. QED BY <1>1, <1>2, <1>4, <1>5, Zenon DEF Changes


LEMMA SameShown ==
  ASSUME NEW n \in Nat, NEW D, TermOK(D, n), NEW k \in Nat, NEW E, TermOK(E, k), \A p : Win(E, p) = Win(D, p)
  PROVE  Shown(E) = Shown(D)
<1>1. Shown(D) = [p \in Obj |-> Seen(Win(D, p))] /\ Shown(E) = [p \in Obj |-> Seen(Win(E, p))]
  BY SeenIs, Zenon
<1>2. QED BY <1>1

LEMMA GoneShown ==
  ASSUME NEW n \in Nat, NEW D, TermOK(D, n), NEW E, TermOK(E, n), NEW o \in Obj,
         \A p : p # o => Win(E, p) = Win(D, p), Win(E, o) = NoWin
  PROVE  Shown(E) = W!Gone(Shown(D), o)
<1>1. Changes(Shown(E), Shown(D), o, Seen(Win(E, o)))
  BY OneSeen, Zenon
<1>2. Seen(Win(E, o)) = W!Closed
  BY Zenon DEF Seen
<1>3. QED BY <1>1, <1>2, Zenon DEF Changes, W!Gone

\* Of a window without lines none are seen.
LEMMA NoneSeen ==
  ASSUME NEW f, Displays(f, {})
  PROVE  f = <<>>
<1>1. f = [k \in {l.key : l \in {}} |-> f[k]]
  BY Zenon DEF Displays
<1>2. QED BY <1>1

LEMMA OpenedShown ==
  ASSUME NEW n \in Nat, NEW D, TermOK(D, n), NEW E, TermOK(E, n), NEW o \in Obj,
         \A p : p # o => Win(E, p) = Win(D, p), NEW v, v = Win(E, o), v # NoWin, v.lines = <<>>
  PROVE  Shown(E) = W!Opened(Shown(D), o, v.max)
<1>1. Changes(Shown(E), Shown(D), o, Seen(v))
  BY OneSeen, Zenon
<1>2. v \in Window(n) /\ WinOK(v)
  <2>1. AWin(v, n)
    BY WinOfTerminal, Zenon
  <2>2. QED BY <2>1, Zenon DEF AWin
<1>3. ShownLines(v) = <<>>
  <2>1. Displays(ShownLines(v), Reals(v))
    BY <1>2, ShownLinesAre, Zenon
  <2>2. Reals(v) = {}
    BY NoneOf, Zenon
  <2>3. QED BY <2>1, <2>2, NoneSeen, Zenon
<1>4. Seen(v) = [open |-> TRUE, max |-> v.max, lines |-> <<>>]
  BY <1>3, Zenon DEF Seen
<1>5. QED BY <1>1, <1>4, Zenon DEF Changes, W!Opened

LEMMA ResizedShown ==
  ASSUME NEW n \in Nat, NEW D, NEW E, NEW o, Alter(E, D, o, n), NEW w, w = Win(D, o), NEW v, v = Win(E, o), NEW c,
         w # NoWin => v.max = c /\ Reals(v) = (IF c < w.max THEN {} ELSE Reals(w))
  PROVE  Shown(E) = W!Resized(Shown(D), o, c)
<1>1. PICK s, z, y : s = Shown(D) /\ z = s[o] /\ y = Seen(v)
  OBVIOUS
<1>2. Changes(Shown(E), s, o, y) /\ Altered(w, v, z, y, n)
  BY <1>1, AlterIs, Zenon
<1>3. CASE w = NoWin
  <2>1. z = W!Closed /\ y = W!Closed
    BY <1>2, <1>3, Zenon DEF Altered
  <2>2. ~ s[o].open
    BY <1>1, <2>1 DEF W!Closed
  <2>3. [s EXCEPT ![o] = y] = s
    <3>1. s = [p \in Obj |-> s[p]] /\ s[o] = y
      BY <1>1, <1>2, <2>1, Zenon DEF Changes
    <3>2. QED BY <3>1
  <2>4. W!Resized(s, o, c) = s
    BY <2>2, Zenon DEF W!Resized
  <2>5. QED BY <1>1, <1>2, <2>3, <2>4, Zenon DEF Changes
<1>4. CASE w # NoWin
  <2>1. PICK g, R : g = ShownLines(w) /\ R = Reals(w)
    OBVIOUS
  <2>2. z = Pane(w.max, g) /\ Displays(g, R) /\ \A h : Displays(h, Reals(v)) => y = Pane(v.max, h)
    BY <1>2, <1>4, <2>1, Zenon DEF Altered
  <2>3. z.max = w.max /\ z.lines = g
    BY <2>2 DEF Pane
  <2>4. z.open = TRUE
    BY <2>2 DEF Pane
  <2>5. o \in Obj /\ s = [p \in Obj |-> s[p]]
    BY <1>2, Zenon DEF Changes, Alter
  <2>6. PICK f : f = IF c < w.max THEN <<>> ELSE g
    OBVIOUS
  <2>7. W!Resized(s, o, c) = [s EXCEPT ![o] = Pane(c, f)]
    <3>1. PICK a : a = TRUE
      OBVIOUS
    <3>2. z = [open |-> a, max |-> w.max, lines |-> g] /\ Pane(c, f) = [open |-> a, max |-> c, lines |-> f]
      BY <2>2, <3>1, Zenon DEF Pane
    <3>3. [[z EXCEPT !.max = c] EXCEPT !.lines = f] = [open |-> a, max |-> c, lines |-> f]
      <4>1. PICK x : x = [z EXCEPT !.max = c]
        OBVIOUS
      <4>2. x = [open |-> a, max |-> c, lines |-> g]
        BY ONLY <3>2, <4>1
      <4>3. [x EXCEPT !.lines = f] = [open |-> a, max |-> c, lines |-> f]
        BY ONLY <4>2
      <4>4. QED BY <4>1, <4>3, Zenon
    <3>4. W!Resized(s, o, c) = [s EXCEPT ![o].max = c, ![o].lines = IF c < s[o].max THEN <<>> ELSE @]
      BY <1>1, <2>4 DEF W!Resized
    <3>5. [s EXCEPT ![o].max = c, ![o].lines = IF c < s[o].max THEN <<>> ELSE @] = [s EXCEPT ![o] = [[z EXCEPT !.max = c] EXCEPT !.lines = f]]
      BY <1>1, <2>3, <2>5, <2>6
    <3>6. QED BY <3>2, <3>3, <3>4, <3>5, Zenon
  <2>8. Displays(f, Reals(v))
    <3>1. CASE c < w.max
      <4>1. f = <<>> /\ Reals(v) = {}
        BY <1>4, <2>6, <3>1, Zenon
      <4>2. Displays(<<>>, {})
        BY DEF Displays
      <4>3. QED BY <4>1, <4>2, Zenon
    <3>2. CASE ~ (c < w.max)
      <4>1. f = g /\ Reals(v) = R
        BY <1>4, <2>1, <2>6, <3>2, Zenon
      <4>2. QED BY <2>2, <4>1, Zenon
    <3>3. QED BY <3>1, <3>2, Zenon
  <2>9. y = Pane(c, f)
    BY <1>4, <2>2, <2>8, Zenon
  <2>10. QED BY <1>1, <1>2, <2>7, <2>9, Zenon DEF Changes
<1>5. QED BY <1>3, <1>4, Zenon

\* Where the key j goes when a gap is made before k.
Later(j, k) == IF j >= k THEN j + 1 ELSE j

LEMMA LaterOnce ==
  ASSUME NEW i \in Nat, NEW j \in Nat, NEW k \in Nat, Later(i, k) = Later(j, k)
  PROVE  i = j
BY DEF Later

\* f is g with the lines moved.
Gapped(f, k, g) == f = [i \in {Later(j, k) : j \in DOMAIN g} |-> g[CHOOSE j \in DOMAIN g : Later(j, k) = i]]

LEMMA GappedLines ==
  ASSUME NEW R, NEW g, Displays(g, R), \A l \in R : l \in Line /\ l.key < MaxKey, NEW k \in Key, NEW f, Gapped(f, k, g),
         NEW Q, Q = {Moved(l, k, 1) : l \in R}
  PROVE  Displays(f, Q)
<1>1. g = [i \in {l.key : l \in R} |-> g[i]] /\ \A l \in R : g[l.key] = Content(l.text, l.attributes)
  BY Zenon DEF Displays
<1>2. PICK G : G = DOMAIN g
  OBVIOUS
<1>3. k \in Nat /\ G = {l.key : l \in R} /\ f = [i \in {Later(j, k) : j \in G} |-> g[CHOOSE j \in G : Later(j, k) = i]]
  BY <1>1, <1>2, KeyIs DEF Gapped
<1>4. G \subseteq Nat
  <2>1. \A l \in R : l.key \in Nat
    BY LineIs, Zenon
  <2>2. QED BY <1>3, <2>1
<1>5. ASSUME NEW l \in R
      PROVE  /\ Moved(l, k, 1).key = Later(l.key, k) /\ l.key \in G /\ l.key \in Nat
             /\ Moved(l, k, 1).text = l.text /\ Moved(l, k, 1).attributes = l.attributes
  <2>1. l \in Line /\ l.key < MaxKey /\ l.key \in G
    BY <1>3
  <2>2. /\ Moved(l, k, 1).text = l.text /\ Moved(l, k, 1).attributes = l.attributes
        /\ Moved(l, k, 1).key = IF l.key >= k THEN l.key + 1 ELSE l.key
    BY <2>1, MovedIs, Zenon
  <2>3. QED BY <1>4, <2>1, <2>2 DEF Later
<1>6. ASSUME NEW j \in G PROVE f[Later(j, k)] = g[j]
  <2>1. PICK i : i = Later(j, k)
    OBVIOUS
  <2>2. PICK c : c = CHOOSE d \in G : Later(d, k) = i
    OBVIOUS
  <2>3. c \in G /\ Later(c, k) = i
    BY <2>1, <2>2, Zenon
  <2>4. c = j
    <3>1. c \in Nat /\ j \in Nat
      BY <1>4, <2>3
    <3>2. QED BY <1>3, <2>1, <2>3, <3>1, LaterOnce, Zenon
  <2>5. i \in {Later(d, k) : d \in G}
    BY <2>1
  <2>6. f[i] = g[CHOOSE d \in G : Later(d, k) = i]
    BY <1>3, <2>5
  <2>7. QED BY <2>1, <2>2, <2>4, <2>6, Zenon
<1>7. {Later(j, k) : j \in G} = {l.key : l \in Q}
  <2>1. ASSUME NEW j \in G PROVE Later(j, k) \in {l.key : l \in Q}
    <3>1. PICK l \in R : j = l.key
      BY <1>3
    <3>2. Moved(l, k, 1) \in Q
      OBVIOUS
    <3>3. Moved(l, k, 1).key = Later(j, k)
      BY <1>5, <3>1, Zenon
    <3>4. QED BY <3>2, <3>3
  <2>2. ASSUME NEW l \in Q PROVE l.key \in {Later(j, k) : j \in G}
    <3>1. PICK x \in R : l = Moved(x, k, 1)
      OBVIOUS
    <3>2. l.key = Later(x.key, k) /\ x.key \in G
      BY <1>5, <3>1, Zenon
    <3>3. QED BY <3>2
  <2>3. QED BY <2>1, <2>2
<1>8. ASSUME NEW l \in Q PROVE f[l.key] = Content(l.text, l.attributes)
  <2>1. PICK x \in R : l = Moved(x, k, 1)
    OBVIOUS
  <2>2. l.key = Later(x.key, k) /\ x.key \in G /\ l.text = x.text /\ l.attributes = x.attributes
    BY <1>5, <2>1, Zenon
  <2>3. QED BY <1>1, <1>6, <2>2, Zenon
<1>9. f = [i \in {l.key : l \in Q} |-> f[i]]
  <2>1. DOMAIN f = {l.key : l \in Q}
    BY <1>3, <1>7
  <2>2. PICK J, b : J = {Later(j, k) : j \in G} /\ b = [i \in J |-> CHOOSE j \in G : Later(j, k) = i]
    OBVIOUS
  <2>3. f = [i \in J |-> g[b[i]]]
    BY <1>3, <2>2
  <2>4. f = [i \in DOMAIN f |-> f[i]]
    BY ONLY <2>3
  <2>5. QED BY <2>1, <2>4, Zenon
<1>10. QED BY <1>8, <1>9, Zenon DEF Displays

LEMMA SpreadShown ==
  ASSUME NEW n \in Nat, NEW D, NEW E, NEW o, Alter(E, D, o, n), NEW w, w = Win(D, o), NEW v, v = Win(E, o), NEW k \in Key,
         w # NoWin, v.max = w.max, Reals(v) = {Moved(l, k, 1) : l \in Reals(w)}, \A l \in Reals(w) : l.key < MaxKey
  PROVE  Shown(E) = W!Spread(Shown(D), o, k, 1)
<1>1. PICK s, z, y : s = Shown(D) /\ z = s[o] /\ y = Seen(v)
  OBVIOUS
<1>2. Changes(Shown(E), s, o, y) /\ Altered(w, v, z, y, n)
  BY <1>1, AlterIs, Zenon
<1>3. PICK f : Gapped(f, k, z.lines)
  BY Zenon DEF Gapped
<1>4. W!Spread(s, o, k, 1) = [s EXCEPT ![o] = WithLines(z, f)]
  <2>1. o \in Obj /\ s = [p \in Obj |-> s[p]]
    BY <1>2, Zenon DEF Changes, Alter
  <2>2. QED BY <1>1, <1>3, <2>1 DEF W!Spread, Gapped, WithLines, Later
<1>5. y = WithLines(z, f)
  <2>1. PICK g, R : g = ShownLines(w) /\ R = Reals(w)
    OBVIOUS
  <2>2. /\ z = Pane(w.max, g) /\ Displays(g, R) /\ w \in Window(n) /\ WinOK(w)
        /\ \A h : Displays(h, Reals(v)) => y = Pane(v.max, h)
    BY <1>2, <2>1, Zenon DEF Altered
  <2>3. z.lines = g
    BY <2>2 DEF Pane
  <2>4. WithLines(z, f) = Pane(w.max, f)
    BY <2>2, PaneIs
  <2>5. Gapped(f, k, g)
    BY <1>3, <2>3, Zenon
  <2>6. \A l \in R : l \in Line /\ l.key < MaxKey
    BY <2>1, <2>2, RealsAre, Zenon
  <2>7. Reals(v) = {Moved(l, k, 1) : l \in R}
    BY <2>1, Zenon
  <2>8. Displays(f, Reals(v))
    BY ONLY k \in Key, <2>2, <2>5, <2>6, <2>7, GappedLines
  <2>9. QED BY <2>2, <2>4, <2>8, Zenon
<1>6. QED BY <1>1, <1>2, <1>4, <1>5, Zenon DEF Changes

LEMMA WritesNone ==
  ASSUME NEW n \in Nat, NEW D, TermOK(D, n), NEW o \in Obj, NEW K, K = {}, NEW x, NEW as
  PROVE  Writes(D, D, o, K, x, as, n)
<1>1. Alter(D, D, o, n)
  BY Zenon DEF Alter
<1>2. PICK R, in : R = Reals(Win(D, o)) /\ in = Room(Win(D, o), K)
  OBVIOUS
<1>3. in = {} /\ NewLines(in, x, as) = {}
  BY <1>2 DEF Room, NewLines
<1>4. R = {l \in R : l.key \notin in} \cup NewLines(in, x, as)
  BY <1>3
<1>5. QED BY <1>1, <1>2, <1>4, Zenon DEF Writes

LEMMA WritesMore ==
  ASSUME NEW n \in Nat, NEW D, NEW E, NEW F, NEW o, NEW A, NEW B, NEW C, C = A \cup B, NEW x, NEW as,
         Writes(E, D, o, A, x, as, n), Writes(F, E, o, B, x, as, n)
  PROVE  Writes(F, D, o, C, x, as, n)
<1>1. PICK w, v, z : w = Win(D, o) /\ v = Win(E, o) /\ z = Win(F, o)
  OBVIOUS
<1>2. /\ Alter(E, D, o, n) /\ Alter(F, E, o, n)
      /\ w # NoWin => v.max = w.max /\ Reals(v) = {l \in Reals(w) : l.key \notin Room(w, A)} \cup NewLines(Room(w, A), x, as)
      /\ v # NoWin => z.max = v.max /\ Reals(z) = {l \in Reals(v) : l.key \notin Room(v, B)} \cup NewLines(Room(v, B), x, as)
  BY <1>1, Zenon DEF Writes
<1>3. Alter(F, D, o, n) /\ (w # NoWin => v # NoWin)
  BY <1>1, <1>2, Zenon DEF Alter
<1>4. ASSUME w # NoWin
      PROVE  z.max = w.max /\ Reals(z) = {l \in Reals(w) : l.key \notin Room(w, C)} \cup NewLines(Room(w, C), x, as)
  <2>1. PICK a, b, c, R, S, T, NA, NB, NC :
          /\ a = Room(w, A) /\ b = Room(w, B) /\ c = Room(w, C) /\ R = Reals(w) /\ S = Reals(v) /\ T = Reals(z)
          /\ NA = NewLines(a, x, as) /\ NB = NewLines(b, x, as) /\ NC = NewLines(c, x, as)
    OBVIOUS
  <2>2. c = a \cup b /\ Room(v, B) = b
    BY <1>2, <1>4, <2>1 DEF Room
  <2>3. S = {l \in R : l.key \notin a} \cup NA /\ T = {l \in S : l.key \notin b} \cup NB
    <3>1. S = {l \in R : l.key \notin a} \cup NA
      BY <1>2, <1>4, <2>1, Zenon
    <3>2. T = {l \in S : l.key \notin b} \cup NB
      BY <1>2, <1>3, <1>4, <2>1, <2>2, Zenon
    <3>3. QED BY <3>1, <3>2, Zenon
  <2>4. NC = NA \cup NB
    BY <2>1, <2>2 DEF NewLines
  <2>5. NA = {[key |-> k, text |-> x, attributes |-> as] : k \in a} /\ NB = {[key |-> k, text |-> x, attributes |-> as] : k \in b}
    BY <2>1 DEF NewLines
  <2>6. \A l \in NA : l.key \in a /\ (l.key \in b => l \in NB)
    <3>1. ASSUME NEW l \in NA PROVE l.key \in a /\ (l.key \in b => l \in NB)
      <4>1. PICK k \in a : l = [key |-> k, text |-> x, attributes |-> as]
        BY <2>5, Zenon
      <4>2. l.key = k
        BY <4>1
      <4>3. k \in b => l \in NB
        BY <2>5, <4>1, Zenon
      <4>4. QED BY <4>2, <4>3, Zenon
    <3>2. QED BY <3>1, Zenon
  <2>7. \A l \in NB : l.key \in b
    <3>1. ASSUME NEW l \in NB PROVE l.key \in b
      <4>1. PICK k \in b : l = [key |-> k, text |-> x, attributes |-> as]
        BY <2>5, Zenon
      <4>2. QED BY <4>1
    <3>2. QED BY <3>1, Zenon
  <2>8. T = {l \in R : l.key \notin c} \cup NC
    <3>1. ASSUME NEW l PROVE l \in T <=> (l \in R /\ l.key \notin a /\ l.key \notin b) \/ l \in NA \/ l \in NB
      BY ONLY <2>3, <2>6, <2>7
    <3>2. QED BY ONLY <2>2, <2>4, <3>1
  <2>9. QED BY <1>2, <1>3, <1>4, <2>1, <2>8, Zenon
<1>5. QED BY <1>1, <1>3, <1>4, Zenon DEF Writes

\* Lines are seen no more, those of keys K.
FewerSeen(new, old, o, K) == K \in SUBSET DOMAIN old[o].lines /\ new = W!Vanished(old, o, K)

\* All the lines of w that v has not.
Lost(v, w) == {l.key : l \in Reals(w) \ Reals(v)}

LEMMA LessLines ==
  ASSUME NEW n \in Nat, NEW D, NEW E, NEW o, Alter(E, D, o, n), NEW w, w = Win(D, o), NEW v, v = Win(E, o),
         w # NoWin => v.max = w.max /\ Reals(v) \subseteq Reals(w), NEW K, K = IF w = NoWin THEN {} ELSE Lost(v, w)
  PROVE  FewerSeen(Shown(E), Shown(D), o, K) /\ K \in SUBSET Key
<1>1. PICK s, z, y : s = Shown(D) /\ z = s[o] /\ y = Seen(v)
  OBVIOUS
<1>2. Altered(w, v, z, y, n)
  BY <1>1, AlterIs, Zenon
<1>3. w # NoWin => Reals(v) = {l \in Reals(w) : l.key \notin K}
  <2>1. ASSUME w # NoWin PROVE Reals(v) = {l \in Reals(w) : l.key \notin K}
    <3>1. PICK R, S : R = Reals(w) /\ S = Reals(v)
      OBVIOUS
    <3>2. S \subseteq R /\ K = {l.key : l \in R \ S}
      BY <2>1, <3>1, Zenon DEF Lost
    <3>3. w \in Window(n) /\ WinOK(w)
      BY <1>2, <2>1, Zenon DEF Altered
    <3>4. \A l, m \in R : l.key = m.key => l = m
      BY <3>1, <3>3, RealsAre, Zenon
    <3>5. ASSUME NEW l \in R PROVE l \in S <=> l.key \notin K
      BY <3>2, <3>4
    <3>6. S = {l \in R : l.key \notin K}
      BY <3>2, <3>5
    <3>7. QED BY <3>1, <3>6, Zenon
  <2>2. QED BY <2>1, Zenon
<1>4. Shown(E) = W!Vanished(Shown(D), o, K)
  <2>1. w # NoWin => v.max = w.max /\ Reals(v) = {l \in Reals(w) : l.key \notin K}
    BY <1>3, Zenon
  <2>2. QED BY VanishedShown, <2>1
<1>5. K \in SUBSET Key /\ K \in SUBSET DOMAIN z.lines
  <2>1. CASE w = NoWin
    <3>1. K = {}
      BY <2>1, Zenon
    <3>2. QED BY <3>1
  <2>2. CASE w # NoWin
    <3>1. PICK R, g : R = Reals(w) /\ g = ShownLines(w)
      OBVIOUS
    <3>2. z = Pane(w.max, g) /\ Displays(g, R) /\ w \in Window(n) /\ WinOK(w)
      BY <1>2, <2>2, <3>1, Zenon DEF Altered
    <3>3. z.lines = g
      BY <3>2 DEF Pane
    <3>4. g = [k \in {l.key : l \in R} |-> g[k]]
      BY <3>2, Zenon DEF Displays
    <3>5. DOMAIN g = {l.key : l \in R}
      BY <3>4
    <3>6. \A l \in R : l.key \in Key
      BY <3>1, <3>2, RealsAre, Zenon
    <3>7. K = {l.key : l \in R \ Reals(v)}
      BY <2>2, <3>1, Zenon DEF Lost
    <3>8. QED BY <3>3, <3>5, <3>6, <3>7
  <2>3. QED BY <2>1, <2>2, Zenon
<1>6. QED BY <1>1, <1>4, <1>5, Zenon DEF FewerSeen

\* The user has taken lines of the window of o, or has closed it.
LEMMA LessShown ==
  ASSUME NEW n \in Nat, NEW D, TermOK(D, n), NEW E, TermOK(E, n), NEW o \in Obj, NEW x, NEW J, NEW c, Less(E, D, o, x, J, c),
         NEW w, w = Win(D, o), NEW v, v = Win(E, o)
  PROVE  \/ c /\ Shown(E) = W!Gone(Shown(D), o)
         \/ \E K : /\ K = IF w = NoWin THEN {} ELSE Lost(v, w)
                   /\ K \in SUBSET Key /\ FewerSeen(Shown(E), Shown(D), o, K)
<1>1. (\A p : p # o => Win(E, p) = Win(D, p)) /\ Behind(v, w, x, J, c)
  BY Zenon DEF Less
<1>2. CASE w # NoWin /\ v = NoWin
  <2>1. c
    BY <1>1, <1>2, Zenon DEF Behind
  <2>2. Shown(E) = W!Gone(Shown(D), o)
    BY <1>1, <1>2, GoneShown, Zenon
  <2>3. QED BY <2>1, <2>2, Zenon
<1>3. CASE w = NoWin \/ v # NoWin
  <2>1. Alter(E, D, o, n)
    BY <1>1, <1>3, Zenon DEF Alter, Behind
  <2>2. w # NoWin => v.max = w.max /\ Reals(v) \subseteq Reals(w)
    BY <1>1, <1>3, Zenon DEF Behind
  <2>3. PICK K : K = IF w = NoWin THEN {} ELSE Lost(v, w)
    OBVIOUS
  <2>4. FewerSeen(Shown(E), Shown(D), o, K) /\ K \in SUBSET Key
    BY ONLY n \in Nat, w = Win(D, o), v = Win(E, o), <2>1, <2>2, <2>3, LessLines
  <2>5. QED BY <2>3, <2>4, Zenon
<1>4. QED BY <1>2, <1>3, Zenon
=============================================================================
