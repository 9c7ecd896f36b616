-------------------------- MODULE PadLines_proofs --------------------------
(***************************************************************************)
(* Windows and their lines, for every set of objects, every kind of their  *)
(* windows and every bound: lines are in order (KeysInOrder), both sides   *)
(* agree about the windows (WindowsAgree), calls find the window they are  *)
(* for (WindowIsThere, CallsAreMeant), and a line that the terminal takes  *)
(* for requested is (RequestsArePending).                                  *)
(*                                                                         *)
(* PadWindows_proofs has the invariant and what a message does to it; here *)
(* is what the user, the library and the debugger's loop do.               *)
(***************************************************************************)
EXTENDS PadWindows_proofs

-----------------------------------------------------------------------------
(* What the user does. *)

LEMMA KindIs ==
  ASSUME NEW o \in Obj, NEW kind \in Kinds[o]
  PROVE  /\ kind.use \in {"lines", "create", "gap"} /\ kind \in AllKinds
         /\ kind.attributes \subseteq Options /\ kind.line \subseteq LineAttributes
         /\ "FAKELINE" \notin kind.attributes
         /\ kind.use # "lines" => "USERCLOSE" \notin kind.attributes
<1>1. kind \in AllKinds
  BY DEF AllKinds
<1>2. kind.attributes \subseteq Options /\ kind.line \subseteq LineAttributes
  BY <1>1 DEF Options, LineAttributes
<1>3. QED BY <1>1, <1>2, KindsAssumption

LEMMA OptionsAre ==
  /\ "DONT_CLOSE" \notin Options /\ "FAKELINE" \notin Options
  /\ \A as \in LineAttributes : "FAKELINE" \notin as
<1>1. \A kind \in AllKinds : /\ {"DONT_CLOSE", "FAKELINE"} \cap kind.attributes = {}
                             /\ \A as \in kind.line : "FAKELINE" \notin as
  BY KindsAssumption DEF AllKinds
<1>2. QED BY <1>1 DEF Options, LineAttributes

LEMMA AskedIsTilde ==
  /\ \A w : AskedOf(w) \subseteq Tildes(w)
  /\ Reals(NoWin) = {} /\ Tildes(NoWin) = {} /\ AskedOf(NoWin) = {}
<1>1. ASSUME NEW w PROVE AskedOf(w) \subseteq Tildes(w)
  <2>1. \A k : Dummy(k, {}).key = k /\ Dummy(k, {}).text = TILDE
    BY DEF Dummy
  <2>2. ASSUME NEW k \in AskedOf(w) PROVE k \in Tildes(w)
    <3>1. k \in Key /\ Dummy(k, {}) \in AsSet(w.lines)
      BY Zenon DEF AskedOf
    <3>2. QED BY <2>1, <3>1, Zenon DEF Tildes
  <2>3. QED BY <2>2, Zenon
<1>2. NoWin.lines = <<>>
  BY DEF NoWin
<1>3. QED BY <1>1, <1>2, NoneOf, Zenon

\* A sequence and another after it.
Parts(s, a, b) ==
  /\ \A i \in 1 .. Len(a) : i \in 1 .. Len(s) /\ s[i] = a[i]
  /\ \A j \in 1 .. Len(b) : Len(a) + j \in 1 .. Len(s) /\ s[Len(a) + j] = b[j]
  /\ \A i \in 1 .. Len(s) : i \in 1 .. Len(a) \/ \E j \in 1 .. Len(b) : i = Len(a) + j

LEMMA TwoParts ==
  ASSUME NEW S, NEW a \in Seq(S), NEW b \in Seq(S), NEW s, s = a \o b
  PROVE  s \in Seq(S) /\ Parts(s, a, b)
<1>1. s \in Seq(S) /\ Len(s) = Len(a) + Len(b) /\ Len(a) \in Nat /\ Len(b) \in Nat /\ Len(s) \in Nat
  OBVIOUS
<1>2. ASSUME NEW i \in 1 .. Len(a) PROVE i \in 1 .. Len(s) /\ s[i] = a[i]
  BY <1>1
<1>3. ASSUME NEW j \in 1 .. Len(b) PROVE Len(a) + j \in 1 .. Len(s) /\ s[Len(a) + j] = b[j]
  BY <1>1
<1>4. ASSUME NEW i \in 1 .. Len(s), i \notin 1 .. Len(a) PROVE \E j \in 1 .. Len(b) : i = Len(a) + j
  <2>1. PICK j : j = i - Len(a)
    OBVIOUS
  <2>2. j \in 1 .. Len(b) /\ i = Len(a) + j
    BY <1>1, <1>4, <2>1
  <2>3. QED BY <2>2, Zenon
<1>5. QED BY <1>1, <1>2, <1>3, <1>4, Zenon DEF Parts

\* What is sent when something is taken from the window with identifier x
\* of object o, and the lines K are requested or it is closed.
Telling(more, o, x, K, c) ==
  /\ \A j \in 1 .. Len(more) : more[j].obj = o /\ more[j].oid = x /\ (more[j].op = "USERCLOSE" => c)
  /\ c => Len(more) = 1 /\ more[1] = [op |-> "USERCLOSE", obj |-> o, oid |-> x]
  /\ \A k \in K : \E j \in 1 .. Len(more) : more[j].op = "LINEREQ" /\ k \in more[j].lo .. more[j].hi

\* What was on its way still is.
LEMMA StillThere ==
  ASSUME NEW out, NEW new, \A i \in 1 .. Len(out) : i \in 1 .. Len(new) /\ new[i] = out[i], NEW ids, NEW o
  PROVE  /\ Pending(o, ids, out) => Pending(o, ids, new)
         /\ \A k : Requested(o, k, ids, out) => Requested(o, k, ids, new)
<1>1. Pending(o, ids, out) => Pending(o, ids, new)
  BY Zenon DEF Pending
<1>2. \A k : Requested(o, k, ids, out) => Requested(o, k, ids, new)
  BY Zenon DEF Requested
<1>3. QED BY <1>1, <1>2, Zenon

\* The window that the user took something from is still its object's.
LEMMA PadTaken ==
  ASSUME NEW n, NEW p \in Pads, NEW o \in Obj, NEW ids, NEW out, NEW new,
         NEW w, NEW v, PadOK(p, w, o, ids, out), NEW x, NEW K, NEW c, Behind(v, w, x, K, c),
         Pending(o, ids, out) => Pending(o, ids, new), c /\ x = ids[o] => Pending(o, ids, new)
  PROVE  PadOK(p, v, o, ids, new)
<1>1. CASE p = NoPad
  <2>1. v = NoWin
    BY <1>1, Zenon DEF PadOK, Behind
  <2>2. QED BY <1>1, <2>1, Zenon DEF PadOK
<1>2. CASE p # NoPad /\ w = NoWin
  <2>1. v = NoWin
    BY <1>2, Zenon DEF Behind
  <2>2. QED BY <1>2, <2>1, Zenon DEF PadOK
<1>3. CASE p # NoPad /\ w # NoWin
  <2>1. IsKind(p, o) /\ w.oid = ids[o] /\ Shows(w, p)
    BY <1>3, Zenon DEF PadOK
  <2>2. CASE v = NoWin
    <3>1. c /\ w.oid = x /\ "USERCLOSE" \in w.attributes
      BY <1>3, <2>2, Zenon DEF Behind
    <3>2. "USERCLOSE" \in p.kind.attributes
      <4>1. w.attributes \ {"FAKELINE"} = p.kind.attributes
        BY <2>1, Zenon DEF Shows
      <4>2. QED BY <3>1, <4>1
    <3>3. x = ids[o]
      BY <2>1, <3>1, Zenon
    <3>4. QED BY <1>3, <2>1, <2>2, <3>1, <3>2, <3>3, Zenon DEF PadOK
  <2>3. CASE v # NoWin
    <3>1. /\ v.oid = w.oid /\ v.attributes = w.attributes /\ v.max = w.max
          /\ w.max = 0 => Tildes(v) \subseteq Tildes(w)
      BY <1>3, <2>3, Zenon DEF Behind, SameWin
    <3>2. p.kind.use = "create" => w.max = 0
      <4>1. p.kind.use = "create" => ~ (p.lines > 0)
        BY <2>1 DEF IsKind
      <4>2. p.lines \in 0 .. MaxKey
        BY DEF Pads
      <4>3. w.max = p.lines
        BY <2>1, Zenon DEF Shows
      <4>4. QED BY <4>1, <4>2, <4>3
    <3>3. p.kind.use = "create" => Tildes(v) \subseteq p.made
      <4>1. p.kind.use = "create" => Tildes(w) \subseteq p.made
        BY <2>1, Zenon DEF Shows
      <4>2. QED BY <3>1, <3>2, <4>1
    <3>4. Shows(v, p)
      BY <2>1, <3>1, <3>3, Zenon DEF Shows
    <3>5. QED BY <1>3, <2>1, <2>3, <3>1, <3>4, Zenon DEF PadOK
  <2>4. QED BY <2>2, <2>3, Zenon
<1>4. QED BY <1>1, <1>2, <1>3, Zenon

LEMMA UserTakes ==
  ASSUME NEW pads, NEW ids, NEW n \in Nat, NEW h, NEW u, Inv(pads, ids, n, h, u), NEW o \in Obj, NEW x, NEW K, NEW c,
         Win(u, o) # NoWin, Win(u, o).oid = x, NEW v, TermOK(v, n), Less(v, u, o, x, K, c),
         NEW more \in Seq(Request(n) \cup Closing(n)), v.out = u.out \o more, Telling(more, o, x, K, c),
         c => Win(v, o) = NoWin
  PROVE  Inv(pads, ids, n, h, v)
<1>1. PICK s, out, new, D, E : /\ s = h.toTerm /\ out = u.out /\ new = v.out
                               /\ D = DrainedOf(u, s) /\ E = DrainedOf(v, s)
  OBVIOUS
<1>2. TypesOK(pads, ids, n, h) /\ PipeOK(u, s, n, ids) /\ Agree(pads, ids, h, out, D)
  BY <1>1, Zenon DEF Inv
<1>3. ids \in [Obj -> 1 .. n] /\ pads \in [Obj -> Pads] /\ s \in Seq(Message(n))
  <2>1. ids \in [Obj -> 1 .. n] /\ pads \in [Obj -> Pads] /\ h \in Library(n)
    BY <1>2, Zenon DEF TypesOK
  <2>2. QED BY <1>1, <2>1 DEF Library
<1>4. /\ PipeOK(v, s, n, ids) /\ Less(E, D, o, x, K, c)
      /\ \A p \in Obj : Win(u, p).oid = ids[p] =>
           /\ Win(D, p).oid = ids[p]
           /\ Win(v, p) = NoWin => Win(E, p) = NoWin
  <2>1. /\ PipeOK(v, s, n, ids) /\ Less(DrainedOf(v, s), DrainedOf(u, s), o, x, K, c)
        /\ \A p \in Obj : Win(u, p).oid = ids[p] =>
             /\ Win(DrainedOf(u, s), p).oid = ids[p]
             /\ Win(v, p) = NoWin => Win(DrainedOf(v, s), p) = NoWin
    BY ONLY n \in Nat, TermOK(v, n), Less(v, u, o, x, K, c), <1>2, <1>3, Taking
  <2>2. QED BY <1>1, <2>1, Zenon
<1>5. /\ E.prev = D.prev /\ E.LINEobj = D.LINEobj
      /\ \A p : p # o => Win(E, p) = Win(D, p)
      /\ Behind(Win(E, o), Win(D, o), x, K, c)
  BY <1>4, Zenon DEF Less
<1>6. /\ PrevOK(h, D) /\ OutOK(pads, ids, out, D) /\ (~ Reuses => AskedOK(ids, out, D))
      /\ \A p \in Obj : PadOK(pads[p], Win(D, p), p, ids, out)
  BY <1>2, Zenon DEF Agree
<1>7. out \in Seq(Request(n) \cup Closing(n))
  <2>1. TermOK(u, n)
    BY <1>2, <1>3, PipeEnds, Zenon
  <2>2. QED BY <1>1, <2>1, TerminalIs, Zenon
<1>8. /\ \A i \in 1 .. Len(out) : i \in 1 .. Len(new) /\ new[i] = out[i]
      /\ \A j \in 1 .. Len(more) : Len(out) + j \in 1 .. Len(new) /\ new[Len(out) + j] = more[j]
      /\ \A i \in 1 .. Len(new) : i \in 1 .. Len(out) \/ \E j \in 1 .. Len(more) : i = Len(out) + j
  <2>1. PICK S : S = Request(n) \cup Closing(n)
    OBVIOUS
  <2>2. new = out \o more /\ out \in Seq(S) /\ more \in Seq(S)
    BY <1>1, <1>7, <2>1
  <2>3. Parts(new, out, more)
    BY ONLY <2>2, TwoParts
  <2>4. QED BY <2>3, Zenon DEF Parts
<1>9. /\ \A j \in 1 .. Len(more) : more[j].obj = o /\ more[j].oid = x /\ (more[j].op = "USERCLOSE" => c)
      /\ c => Len(more) = 1 /\ more[1] = [op |-> "USERCLOSE", obj |-> o, oid |-> x]
      /\ \A k \in K : \E j \in 1 .. Len(more) : more[j].op = "LINEREQ" /\ k \in more[j].lo .. more[j].hi
  BY Zenon DEF Telling
<1>10. \A p : /\ Pending(p, ids, out) => Pending(p, ids, new)
              /\ \A k : Requested(p, k, ids, out) => Requested(p, k, ids, new)
  BY <1>8, StillThere, Zenon
<1>11. PrevOK(h, E)
  BY <1>5, <1>6, Zenon DEF PrevOK
<1>12. c /\ x = ids[o] => Pending(o, ids, new)
  <2>1. ASSUME c, x = ids[o] PROVE Pending(o, ids, new)
    <3>1. 1 \in 1 .. Len(more) /\ more[1] = UserClosed(o, ids)
      BY <1>9, <2>1 DEF UserClosed
    <3>2. Len(out) + 1 \in 1 .. Len(new) /\ new[Len(out) + 1] = UserClosed(o, ids)
      BY <1>8, <3>1, Zenon
    <3>3. QED BY <3>2, Zenon DEF Pending
  <2>2. QED BY <2>1, Zenon
<1>13. ASSUME NEW p \in Obj PROVE PadOK(pads[p], Win(E, p), p, ids, new)
  <2>1. PadOK(pads[p], Win(D, p), p, ids, out) /\ pads[p] \in Pads
    BY <1>3, <1>6
  <2>2. CASE p = o
    BY <1>5, <1>10, <1>12, <2>1, <2>2, PadTaken, Zenon
  <2>3. CASE p # o
    <3>1. Win(E, p) = Win(D, p)
      BY <1>5, <2>3, Zenon
    <3>2. QED BY <1>10, <2>1, <3>1, Zenon DEF PadOK
  <2>4. QED BY <2>2, <2>3, Zenon
\* An identifier that is the object's now belongs to a window that is there.
<1>14. x = ids[o] => Win(D, o) # NoWin /\ pads[o] # NoPad /\ (c => Win(E, o) = NoWin)
  <2>1. ASSUME x = ids[o] PROVE Win(D, o) # NoWin /\ pads[o] # NoPad /\ (c => Win(E, o) = NoWin)
    <3>1. Win(D, o).oid = ids[o] /\ (Win(v, o) = NoWin => Win(E, o) = NoWin)
      BY <1>4, <2>1, Zenon
    <3>2. ids[o] # 0 /\ NoWin.oid = 0
      BY <1>3 DEF NoWin
    <3>3. Win(D, o) # NoWin
      BY <3>1, <3>2, Zenon
    <3>4. pads[o] # NoPad
      BY <1>6, <3>3, Zenon DEF PadOK
    <3>5. QED BY <3>1, <3>3, <3>4, Zenon
  <2>2. QED BY <2>1, Zenon
<1>15. ASSUME NEW i \in 1 .. Len(new), new[i].oid = ids[new[i].obj]
       PROVE  /\ pads[new[i].obj] # NoPad
              /\ new[i].op = "USERCLOSE" =>
                   /\ Win(E, new[i].obj) = NoWin
                   /\ \A j \in i + 1 .. Len(new) : ~ (new[j].obj = new[i].obj /\ new[j].oid = new[i].oid)
  <2>1. PICK m : m = new[i]
    OBVIOUS
  <2>2. CASE i \in 1 .. Len(out)
    <3>1. m = out[i] /\ m.oid = ids[m.obj]
      BY <1>8, <1>15, <2>1, <2>2, Zenon
    <3>2. /\ pads[m.obj] # NoPad
          /\ m.op = "USERCLOSE" =>
               /\ Win(D, m.obj) = NoWin
               /\ \A j \in i + 1 .. Len(out) : ~ (out[j].obj = m.obj /\ out[j].oid = m.oid)
      BY <1>6, <2>2, <3>1, Zenon DEF OutOK
    <3>3. ASSUME m.op = "USERCLOSE" PROVE Win(E, m.obj) = NoWin
      <4>1. Win(D, m.obj) = NoWin
        BY <3>2, <3>3, Zenon
      <4>2. QED BY <1>5, <4>1, Zenon DEF Behind
    <3>4. ASSUME m.op = "USERCLOSE", NEW j \in i + 1 .. Len(new), new[j].obj = m.obj, new[j].oid = m.oid PROVE FALSE
      <4>1. j \in 1 .. Len(new)
        BY <2>2
      <4>2. CASE j \in 1 .. Len(out)
        <5>1. j \in i + 1 .. Len(out) /\ new[j] = out[j]
          BY <1>8, <4>2
        <5>2. QED BY <3>2, <3>4, <5>1, Zenon
      <4>3. CASE j \notin 1 .. Len(out)
        <5>1. PICK e \in 1 .. Len(more) : j = Len(out) + e
          BY <1>8, <4>1, <4>3, Zenon
        <5>2. new[j].obj = o /\ new[j].oid = x
          BY <1>8, <1>9, <5>1, Zenon
        <5>3. m.obj = o /\ x = ids[o]
          BY <3>1, <3>4, <5>2, Zenon
        <5>4. QED BY <1>14, <3>2, <3>4, <5>3, Zenon
      <4>4. QED BY <4>2, <4>3, Zenon
    <3>5. QED BY <2>1, <3>2, <3>3, <3>4, Zenon
  <2>3. CASE i \notin 1 .. Len(out)
    <3>1. PICK e \in 1 .. Len(more) : i = Len(out) + e
      BY <1>8, <2>3, Zenon
    <3>2. m.obj = o /\ m.oid = x /\ (m.op = "USERCLOSE" => c)
      BY <1>8, <1>9, <2>1, <3>1, Zenon
    <3>3. x = ids[o]
      BY <1>15, <2>1, <3>2, Zenon
    <3>4. pads[m.obj] # NoPad /\ (m.op = "USERCLOSE" => Win(E, m.obj) = NoWin)
      BY <1>14, <3>2, <3>3, Zenon
    <3>5. ASSUME m.op = "USERCLOSE", NEW j \in i + 1 .. Len(new) PROVE FALSE
      <4>1. Len(more) = 1
        BY <1>9, <3>2, <3>5, Zenon
      <4>2. i = Len(out) + 1 /\ Len(out) \in Nat
        BY <1>7, <3>1, <4>1
      <4>3. j \in 1 .. Len(new) /\ j \notin 1 .. Len(out)
        BY <4>2
      <4>4. PICK a \in 1 .. Len(more) : j = Len(out) + a
        BY <1>8, <4>3, Zenon
      <4>5. QED BY <4>1, <4>2, <4>4
    <3>6. QED BY <2>1, <3>4, <3>5, Zenon
  <2>4. QED BY <2>2, <2>3, Zenon
<1>16. OutOK(pads, ids, new, E)
  BY <1>15, Zenon DEF OutOK
<1>17. ASSUME ~ Reuses PROVE AskedOK(ids, new, E)
  <2>1. ASSUME NEW p \in Obj, NEW k \in AskedOf(Win(E, p)) PROVE Requested(p, k, ids, new)
    <3>1. CASE k \in AskedOf(Win(D, p))
      <4>1. Requested(p, k, ids, out)
        BY <1>6, <1>17, <3>1, Zenon DEF AskedOK
      <4>2. QED BY <1>10, <4>1, Zenon
    <3>2. CASE k \notin AskedOf(Win(D, p))
      <4>1. p = o
        BY <1>5, <3>2, Zenon
      <4>2. Win(E, o) # NoWin
        BY <4>1, AskedIsTilde, Zenon
      <4>3. Win(D, o) # NoWin
        BY <1>5, <4>2, Zenon DEF Behind
      <4>4. k \in Also(Win(D, o), x, K)
        BY <1>5, <3>2, <4>1, <4>2, <4>3, Zenon DEF Behind
      <4>5. Win(D, o).oid = x /\ k \in K
        BY <4>4 DEF Also
      <4>6. pads[o] # NoPad
        BY <1>6, <4>3, Zenon DEF PadOK
      <4>7. x = ids[o]
        BY <1>6, <4>3, <4>5, <4>6, Zenon DEF PadOK
      <4>8. PICK j \in 1 .. Len(more) : more[j].op = "LINEREQ" /\ k \in more[j].lo .. more[j].hi
        BY <1>9, <4>5, Zenon
      <4>9. more[j].obj = o /\ more[j].oid = ids[o]
        BY <1>9, <4>7, Zenon
      <4>10. Len(out) + j \in 1 .. Len(new) /\ new[Len(out) + j] = more[j]
        BY <1>8, Zenon
      <4>11. PICK i \in 1 .. Len(new) : new[i] = more[j]
        BY <4>10, Zenon
      <4>12. QED BY <4>1, <4>8, <4>9, <4>11, Zenon DEF Requested
    <3>3. QED BY <3>1, <3>2, Zenon
  <2>2. QED BY <2>1, Zenon DEF AskedOK
<1>18. Agree(pads, ids, h, new, E)
  BY <1>11, <1>13, <1>16, <1>17, Zenon DEF Agree
<1>19. QED BY <1>1, <1>2, <1>4, <1>18, Zenon DEF Inv

\* Lines that are chosen one after the other stay in their order.
LEMMA Selected ==
  ASSUME NEW ls \in Seq(Line), Sorted(ls), NEW g, g[0] = <<>>,
         \A i \in 1 .. Len(ls) : g[i] = g[i - 1] \/ g[i] = Append(g[i - 1], ls[i])
  PROVE  g[Len(ls)] \in Seq(Line) /\ Sorted(g[Len(ls)]) /\ AsSet(g[Len(ls)]) \subseteq AsSet(ls)
<1>1. PICK n : n = Len(ls)
  OBVIOUS
<1>2. n \in Nat /\ 0 \in 0 .. n /\ \A i \in 1 .. n : ls[i] \in Line
  BY <1>1
<1> DEFINE P(r, i) == /\ r \in Seq(Line) /\ Sorted(r)
                      /\ \A a \in 1 .. Len(r) : \E j \in 1 .. i : r[a] = ls[j]
           T == { i \in 0 .. n : P(g[i], i) }
<1>3. 0 \in T
  <2>1. PICK r : r = <<>>
    OBVIOUS
  <2>2. r \in Seq(Line) /\ Len(r) = 0 /\ Sorted(r)
    BY <2>1, NoLines
  <2>3. P(r, 0)
    BY <2>2
  <2>4. r = g[0]
    BY <2>1
  <2>5. QED BY <1>2, <2>3, <2>4, Zenon
<1>4. ASSUME NEW i \in 0 .. n - 1, P(g[i], i) PROVE P(g[i + 1], i + 1)
  <2>1. PICK k, r, v, l : k = i + 1 /\ r = g[i] /\ v = g[k] /\ l = ls[k]
    OBVIOUS
  <2>2. i \in Nat /\ k \in 1 .. n /\ k - 1 = i /\ i \in 0 .. n /\ \A j \in 1 .. i : j \in 1 .. k /\ j \in 1 .. n /\ j < k
    BY <1>2, <2>1
  <2>3. l \in Line /\ (v = r \/ v = Append(r, l))
    BY <1>1, <1>2, <2>1, <2>2, Zenon
  <2>4. P(r, i)
    BY <1>4, <2>1, Zenon
  <2>5. CASE v = r
    <3>1. P(v, k)
      BY <2>2, <2>4, <2>5, Zenon
    <3>2. QED BY <2>1, <3>1, Zenon
  <2>6. CASE v = Append(r, l)
    <3>1. PICK N : N = Len(r)
      OBVIOUS
    <3>2. r \in Seq(Line) /\ N \in Nat
      BY <2>4, <3>1
    <3>3. /\ v \in Seq(Line) /\ Len(v) = N + 1 /\ v[N + 1] = l
          /\ \A a \in 1 .. N : v[a] = r[a]
      BY <2>3, <2>6, <3>1, <3>2
    <3>4. \A a \in 1 .. N + 1 : a \in 1 .. N \/ a = N + 1
      BY <3>2
    <3>5. k \in 1 .. k /\ l = ls[k]
      BY <2>1, <2>2
    <3>6. \A a \in 1 .. N + 1 : \E j \in 1 .. k : v[a] = ls[j]
      <4>1. \A a \in 1 .. N : \E j \in 1 .. i : r[a] = ls[j]
        BY <2>4, <3>1, Zenon
      <4>2. \A a \in 1 .. N : \E j \in 1 .. k : r[a] = ls[j]
        BY <2>2, <4>1, Zenon
      <4>3. QED BY <3>3, <3>4, <3>5, <4>2, Zenon
    <3>7. ASSUME NEW a \in 1 .. N + 1, NEW b \in 1 .. N + 1, a < b PROVE v[a].key < v[b].key
      <4>1. a \in 1 .. N
        BY <3>2, <3>7
      <4>2. CASE b \in 1 .. N
        <5>1. r[a].key < r[b].key
          BY <2>4, <3>1, <3>7, <4>1, <4>2, SortedIs
        <5>2. QED BY <3>3, <4>1, <4>2, <5>1, Zenon
      <4>3. CASE b = N + 1
        <5>1. PICK j \in 1 .. i : r[a] = ls[j]
          BY <2>4, <3>1, <4>1, Zenon
        <5>2. j \in 1 .. Len(ls) /\ k \in 1 .. Len(ls) /\ j < k
          BY <1>1, <2>2, Zenon
        <5>3. ls[j].key < ls[k].key
          BY <5>2, SortedIs
        <5>4. v[a] = ls[j] /\ v[b] = ls[k]
          BY <2>1, <3>3, <4>1, <4>3, <5>1, Zenon
        <5>5. QED BY <5>3, <5>4, Zenon
      <4>4. QED BY <3>4, <4>2, <4>3, Zenon
    <3>8. Sorted(v)
      BY <3>3, <3>7, Zenon DEF Sorted
    <3>9. P(v, k)
      BY <3>3, <3>6, <3>8, Zenon
    <3>10. QED BY <2>1, <3>9, Zenon
  <2>7. QED BY <2>3, <2>5, <2>6, Zenon
<1>5. \A i \in 0 .. n - 1 : i \in T => i + 1 \in T
  <2>1. ASSUME NEW i \in 0 .. n - 1, i \in T PROVE i + 1 \in T
    <3>1. P(g[i + 1], i + 1)
      BY <1>4, <2>1, Zenon
    <3>2. i + 1 \in 0 .. n
      BY <1>2
    <3>3. QED BY <3>1, <3>2, Zenon
  <2>2. QED BY <2>1, Zenon
<1>6. n \in T
  <2> HIDE DEF T
  <2>1. QED BY <1>2, <1>3, <1>5, InductTo, Zenon
<1>7. P(g[n], n)
  BY <1>6, Zenon
<1>8. AsSet(g[n]) \subseteq AsSet(ls)
  <2>1. PICK r : r = g[n]
    OBVIOUS
  <2>2. \A a \in 1 .. Len(r) : \E j \in 1 .. Len(ls) : r[a] = ls[j]
    BY <1>1, <1>7, <2>1, Zenon
  <2>3. AsSet(r) \subseteq AsSet(ls)
    BY <2>2 DEF AsSet
  <2>4. QED BY <2>1, <2>3, Zenon
<1>9. QED BY <1>1, <1>7, <1>8, Zenon

\* The lines that are left when a window is closed but stays, and those
\* near the ones that are painted.
LEMMA LinesLeft ==
  ASSUME NEW ls \in Seq(Line), Sorted(ls), NEW r, r = FoldLeft(DelLineOf, <<>>, ls)
  PROVE  r \in Seq(Line) /\ Sorted(r) /\ AsSet(r) \subseteq AsSet(ls)
<1>1. Len(ls) \in Nat /\ DOMAIN ls = 1 .. Len(ls)
  OBVIOUS
<1>2. PICK no : no = <<>>
  OBVIOUS
<1>3. PICK g : Turns(g, "DelLineOf", {}, no, ls) /\ FoldLeft(DelLineOf, no, ls) = g[Len(ls)]
  BY <1>1, DelLineTurns, Zenon
<1>4. g[0] = no /\ \A i \in 1 .. Len(ls) : g[i] = DelLineOf(g[i - 1], ls[i])
  <2>1. \A m, e : Turn("DelLineOf", {}, m, e) = DelLineOf(m, e)
    BY DEF Turn
  <2>2. QED BY <1>3, <2>1, Zenon DEF Turns
<1>5. \A i \in 1 .. Len(ls) : g[i] = g[i - 1] \/ g[i] = Append(g[i - 1], ls[i])
  BY <1>4, Zenon DEF DelLineOf
<1>6. g[0] = <<>>
  BY <1>2, <1>4
<1>7. r = g[Len(ls)]
  BY <1>2, <1>3, Zenon
<1>8. QED BY <1>5, <1>6, <1>7, Selected, Zenon

LEMMA LinesNear ==
  ASSUME NEW ls \in Seq(Line), Sorted(ls), NEW lo, NEW hi, NEW r, r = Nearby(ls, lo, hi)
  PROVE  r \in Seq(Line) /\ Sorted(r) /\ AsSet(r) \subseteq AsSet(ls)
<1>1. Len(ls) \in Nat /\ DOMAIN ls = 1 .. Len(ls)
  OBVIOUS
<1>2. PICK no, c : no = <<>> /\ c = <<lo, hi>>
  OBVIOUS
<1>3. PICK g : Turns(g, "near", <<lo, hi>>, no, ls) /\ Nearby(ls, lo, hi) = g[Len(ls)]
  <2>1. no = <<>>
    BY <1>2
  <2>2. QED BY ONLY <1>1, <2>1, NearbyTurns
<1>4. g[0] = no /\ \A i \in 1 .. Len(ls) : g[i] = g[i - 1] \/ g[i] = Append(g[i - 1], ls[i])
  <2>1. \A m, e : Turn("near", <<lo, hi>>, m, e) = m \/ Turn("near", <<lo, hi>>, m, e) = Append(m, e)
    BY DEF Turn
  <2>2. QED BY <1>3, <2>1, Zenon DEF Turns
<1>5. g[0] = <<>>
  BY <1>2, <1>4
<1>6. QED BY <1>3, <1>4, <1>5, Selected, Zenon

\* Lines that stand for those in K, of which there are none, are put in.
LEMMA WaitingAre ==
  ASSUME NEW ls \in Seq(Line), Sorted(ls), NEW lo \in Key, NEW hi \in Key, lo <= hi,
         NEW K \in SUBSET Key, \A l \in AsSet(ls) : l.key \notin K, NEW r, r = Waiting(ls, K, UpTo(lo, hi))
  PROVE  /\ r \in Seq(Line) /\ Sorted(r)
         /\ \A l \in AsSet(r) : l \in AsSet(ls) \/ \E k \in K : l = Dummy(k, {})
<1>1. lo \in Nat /\ hi \in Nat /\ \A k \in lo .. hi : k \in Key
  BY KeyIs, Constants DEF Key
<1>2. PICK s, n : s = UpTo(lo, hi) /\ n = Len(s)
  OBVIOUS
<1>3. /\ n \in Nat /\ n = 1 + hi - lo /\ DOMAIN s = 1 .. n /\ 0 \in 0 .. n
      /\ \A i \in 1 .. n : s[i] = lo + i - 1
  <2>1. lo <= hi + 1
    BY <1>1
  <2>2. /\ UpTo(lo, hi) \in Seq(Nat)
        /\ Len(UpTo(lo, hi)) = 1 + hi - lo /\ DOMAIN UpTo(lo, hi) = 1 .. Len(UpTo(lo, hi))
        /\ \A i \in 1 .. 1 + hi - lo : UpTo(lo, hi)[i] = lo + i - 1
    BY <1>1, <2>1, UpToIs
  <2>3. s \in Seq(Nat) /\ n = 1 + hi - lo /\ DOMAIN s = 1 .. n /\ \A i \in 1 .. 1 + hi - lo : s[i] = lo + i - 1
    BY <1>2, <2>2, Zenon
  <2>4. n \in Nat /\ 0 \in 0 .. n
    BY <1>1, <2>3
  <2>5. QED BY <2>3, <2>4, Zenon
<1>4. PICK g : Turns(g, "waiting", K, ls, s) /\ Waiting(ls, K, s) = g[n]
  BY <1>2, <1>3, WaitingTurns, Zenon
<1>5. g[0] = ls /\ \A i \in 1 .. n : g[i] = IF s[i] \in K THEN InsAbove(g[i - 1], Dummy(s[i], {})) ELSE g[i - 1]
  <2>1. \A m, e : Turn("waiting", K, m, e) = IF e \in K THEN InsAbove(m, Dummy(e, {})) ELSE m
    BY DEF Turn
  <2>2. QED BY <1>2, <1>4, <2>1, Zenon DEF Turns
<1>6. \A k \in Key : Dummy(k, {}) \in Line /\ Dummy(k, {}).key = k
  BY DEF Dummy, Line, TildeLine
<1> DEFINE P(x, i) == /\ x \in Seq(Line) /\ Sorted(x)
                      /\ \A l \in AsSet(x) : l \in AsSet(ls) \/ \E k \in K : k < lo + i /\ l = Dummy(k, {})
           T == { i \in 0 .. n : P(g[i], i) }
<1>7. 0 \in T
  BY <1>3, <1>5, Zenon
<1>8. ASSUME NEW i \in 0 .. n - 1, P(g[i], i) PROVE P(g[i + 1], i + 1)
  <2>1. PICK j, x, y, k : j = i + 1 /\ x = g[i] /\ y = g[j] /\ k = s[j]
    OBVIOUS
  <2>2. j \in 1 .. n /\ j - 1 = i /\ k = lo + i /\ k \in lo .. hi /\ k < lo + j
    BY <1>1, <1>3, <2>1
  <2>3. k \in Key /\ P(x, i)
    BY <1>1, <1>8, <2>1, <2>2, Zenon
  <2>4. y = IF k \in K THEN InsAbove(x, Dummy(k, {})) ELSE x
    BY <1>5, <2>1, <2>2, Zenon
  <2>5. \A h \in K : h < lo + i => h < lo + j
    BY <1>1, <2>2, KeyIs
  <2>6. CASE k \notin K
    <3>1. y = x
      BY <2>4, <2>6, Zenon
    <3>2. P(y, j)
      BY <2>3, <2>5, <3>1, Zenon
    <3>3. QED BY <2>1, <3>2, Zenon
  <2>7. CASE k \in K
    <3>1. ASSUME NEW l \in AsSet(x) PROVE l.key # k
      <4>1. CASE l \in AsSet(ls)
        BY <2>7, <4>1, Zenon
      <4>2. CASE \E h \in K : h < lo + i /\ l = Dummy(h, {})
        <5>1. PICK h \in K : h < lo + i /\ l = Dummy(h, {})
          BY <4>2, Zenon
        <5>2. l.key = h /\ h \in Nat
          BY <1>6, <5>1, KeyIs
        <5>3. QED BY <1>1, <2>2, <5>1, <5>2
      <4>3. QED BY <2>3, <4>1, <4>2, Zenon
    <3>2. \A a \in 1 .. Len(x) : x[a].key # k
      BY <3>1, Zenon DEF AsSet
    <3>3. PICK d : d = Dummy(k, {})
      OBVIOUS
    <3>4. d \in Line /\ d.key = k /\ y = InsAbove(x, d)
      BY <1>6, <2>3, <2>4, <2>7, <3>3, Zenon
    <3>5. Changed(y, x, k, {d})
      BY <2>3, <3>2, <3>4, Above, Zenon
    <3>6. AsSet(y) = {l \in AsSet(x) : l.key # k} \cup {d} /\ y \in Seq(Line) /\ Sorted(y)
      <4>1. AsSet(y) = {l \in AsSet(x) : l.key # k} \cup {d}
        BY ONLY <3>5, ChangedSet
      <4>2. QED BY <3>5, <4>1, Zenon DEF Changed
    <3>7. \A l \in AsSet(y) : l \in AsSet(x) \/ l = d
      BY <3>6
    <3>8. P(y, j)
      BY <2>2, <2>3, <2>5, <2>7, <3>3, <3>6, <3>7, Zenon
    <3>9. QED BY <2>1, <3>8, Zenon
  <2>8. QED BY <2>6, <2>7, Zenon
<1>9. \A i \in 0 .. n - 1 : i \in T => i + 1 \in T
  <2>1. ASSUME NEW i \in 0 .. n - 1, i \in T PROVE i + 1 \in T
    <3>1. P(g[i + 1], i + 1)
      BY <1>8, <2>1, Zenon
    <3>2. i + 1 \in 0 .. n
      BY <1>3
    <3>3. QED BY <3>1, <3>2, Zenon
  <2>2. QED BY <2>1, Zenon
<1>10. n \in T
  <2> HIDE DEF T
  <2>1. QED BY <1>3, <1>7, <1>9, InductTo, Zenon
<1>11. P(g[n], n) /\ r = g[n]
  BY <1>2, <1>4, <1>10, Zenon
<1>12. QED BY <1>11, Zenon

\* The parts of the invariant.
LEMMA InvIs ==
  ASSUME NEW pads, NEW ids, NEW n, NEW h, NEW u, Inv(pads, ids, n, h, u)
  PROVE  /\ n \in Nat /\ n <= MaxUniq /\ Cardinality(Obj) <= n /\ ids \in [Obj -> 1 .. n] /\ pads \in [Obj -> Pads]
         /\ h = [prev |-> h.prev, prevpad |-> h.prevpad, toTerm |-> h.toTerm]
         /\ h.prev \in Prev /\ h.prevpad \in Obj \cup {Unset, Freed} /\ h.toTerm \in Seq(Message(n))
         /\ PipeOK(u, h.toTerm, n, ids) /\ TermOK(u, n) /\ TermOK(DrainedOf(u, h.toTerm), n)
         /\ Agree(pads, ids, h, u.out, DrainedOf(u, h.toTerm))
<1>1. /\ TypesOK(pads, ids, n, h) /\ PipeOK(u, h.toTerm, n, ids)
      /\ Agree(pads, ids, h, u.out, DrainedOf(u, h.toTerm))
  BY Zenon DEF Inv
<1>2. /\ n \in Cardinality(Obj) .. MaxUniq /\ ids \in [Obj -> 1 .. n] /\ pads \in [Obj -> Pads]
      /\ h \in Library(n)
  BY <1>1, Zenon DEF TypesOK
<1>3. n \in Nat /\ n <= MaxUniq /\ Cardinality(Obj) <= n
  <2>1. Cardinality(Obj) \in Nat /\ MaxUniq \in Nat
    BY PadAssumption, FS_CardinalityType
  <2>2. QED BY <1>2, <2>1
<1>4. /\ h = [prev |-> h.prev, prevpad |-> h.prevpad, toTerm |-> h.toTerm]
      /\ h.prev \in Prev /\ h.prevpad \in Obj \cup {Unset, Freed} /\ h.toTerm \in Seq(Message(n))
  BY <1>2 DEF Library
<1>5. TermOK(u, n) /\ TermOK(DrainedOf(u, h.toTerm), n)
  BY <1>1, <1>3, <1>4, PipeEnds, Zenon
<1>6. QED BY <1>1, <1>2, <1>3, <1>4, <1>5, Zenon

\* A window of the terminal.
LEMMA WindowHere ==
  ASSUME NEW n \in Nat, NEW u, TermOK(u, n), NEW i, i \in 1 .. Len(u.wins), NEW w, w = u.wins[i]
  PROVE  /\ w \in Window(n) /\ WinOK(w) /\ w.object \in Obj /\ w # NoWin /\ w.oid \in 1 .. n
         /\ Win(u, w.object) = w /\ ObjToPad(u, w.object) = i
         /\ w = [object |-> w.object, oid |-> w.oid, attributes |-> w.attributes, max |-> w.max, lines |-> w.lines]
         /\ w.lines \in Seq(Line) /\ Sorted(w.lines) /\ "DONT_CLOSE" \notin w.attributes
<1>1. WinsOK(u.wins, n)
  BY TerminalIs, Zenon
<1>2. Win(u, w.object) = w /\ ObjToPad(u, w.object) = i /\ w \in Window(n) /\ WinOK(w)
  BY <1>1, WinAt, Zenon
<1>3. /\ w = [object |-> w.object, oid |-> w.oid, attributes |-> w.attributes, max |-> w.max, lines |-> w.lines]
      /\ w.object \in Obj /\ w.lines \in Seq(Line) /\ w.attributes \in SUBSET (Options \cup {"FAKELINE"})
      /\ w.oid \in 1 .. n
  BY <1>2, WindowIs, Zenon
<1>4. w # NoWin
  BY <1>2, NoWinIs, Zenon
<1>5. "DONT_CLOSE" \notin w.attributes
  BY <1>3, OptionsAre
<1>6. Sorted(w.lines)
  BY <1>2, Zenon DEF WinOK
<1>7. QED BY <1>2, <1>3, <1>4, <1>5, <1>6, Zenon

\* Some of what the window of o shows is taken, or it is closed if c.
Lessened(v, u, n, o, c) == TermOK(v, n) /\ \E x, K : Less(v, u, o, x, K, c)

\* The window of o becomes y.
TakesLines(pads, ids, n, h, v, u, o, y) ==
  Inv(pads, ids, n, h, v) /\ Lessened(v, u, n, o, FALSE) /\ Win(v, o) = y

\* It keeps the lines ls.
LosesLines(pads, ids, n, h, v, u, o, ls) ==
  Inv(pads, ids, n, h, v) /\ Lessened(v, u, n, o, FALSE) /\ Win(v, o).lines = ls

\* Lines are taken from a window, or requested.
LEMMA TakeLines ==
  ASSUME NEW pads, NEW ids, NEW n, NEW h, NEW u, Inv(pads, ids, n, h, u),
         NEW i, i \in 1 .. Len(u.wins), NEW w, w = u.wins[i], NEW K,
         NEW y \in Window(n), WinOK(y), Keeps(y, w, y.lines), Reals(y) \subseteq Reals(w),
         w.max = 0 => Tildes(y) \subseteq Tildes(w), AskedOf(y) \subseteq AskedOf(w) \cup K,
         NEW more \in Seq(Request(n) \cup Closing(n)), Telling(more, w.object, w.oid, K, FALSE),
         NEW v, v = [wins |-> [u.wins EXCEPT ![i] = y], LINEobj |-> u.LINEobj, out |-> u.out \o more, prev |-> u.prev]
  PROVE  TakesLines(pads, ids, n, h, v, u, w.object, y)
<1>1. n \in Nat /\ TermOK(u, n)
  BY InvIs, Zenon
<1>2. w \in Window(n) /\ w.object \in Obj /\ w # NoWin /\ Win(u, w.object) = w
  BY ONLY <1>1, i \in 1 .. Len(u.wins), w = u.wins[i], WindowHere
<1>3. /\ u.LINEobj \in Obj \cup {NoObj} /\ u.out \in Seq(Request(n) \cup Closing(n))
      /\ u.prev \in Prev /\ WinsOK(u.wins, n)
  BY <1>1, TerminalIs, Zenon
<1>4. PICK o, x, c : o = w.object /\ x = w.oid /\ c = FALSE
  OBVIOUS
<1>5. y.object = o /\ y.oid = x /\ y.attributes = w.attributes /\ y.max = w.max
  BY <1>1, <1>2, <1>4, KeepsSame, Zenon DEF SameWin
<1>6. PICK wins, out : wins = [u.wins EXCEPT ![i] = y] /\ out = u.out \o more
  OBVIOUS
<1>7. /\ v = [wins |-> wins, LINEobj |-> u.LINEobj, out |-> out, prev |-> u.prev]
      /\ v.wins = wins /\ v.out = out /\ v.LINEobj = u.LINEobj /\ v.prev = u.prev
  BY <1>6
<1>8. WinsOK(v.wins, n) /\ Except(v, u, y.object, y)
  <2>1. y.object = u.wins[i].object /\ v.wins = [u.wins EXCEPT ![i] = y]
    BY <1>4, <1>5, <1>6, <1>7, Zenon
  <2>2. QED BY <1>1, <1>3, <2>1, Became, Zenon
<1>9. out \in Seq(Request(n) \cup Closing(n))
  <2>1. PICK S : S = Request(n) \cup Closing(n)
    OBVIOUS
  <2>2. out \in Seq(S)
    BY <1>3, <1>6, <2>1
  <2>3. QED BY <2>1, <2>2
<1>10. TermOK(v, n)
  BY <1>1, <1>3, <1>7, <1>8, <1>9, ATerminal, Zenon
<1>11. y # NoWin
  BY <1>1, NoWinIs, Zenon
<1>12. AskedOf(y) \subseteq AskedOf(w) \cup Also(w, x, K)
  BY <1>4 DEF Also
<1>13. Behind(y, w, x, K, c)
  BY <1>2, <1>4, <1>5, <1>11, <1>12, Zenon DEF Behind, SameWin
<1>14. Less(v, u, o, x, K, c)
  <2>1. Win(v, o) = y /\ \A p : p # o => Win(v, p) = Win(u, p)
    BY <1>5, <1>8, Zenon DEF Except
  <2>2. Win(u, o) = w
    BY <1>2, <1>4, Zenon
  <2>3. QED BY <1>7, <1>13, <2>1, <2>2, Zenon DEF Less
<1>15. /\ Win(u, o) # NoWin /\ Win(u, o).oid = x /\ Telling(more, o, x, K, c) /\ o \in Obj /\ v.out = u.out \o more
       /\ (c => Win(v, o) = NoWin)
  BY <1>2, <1>4, <1>6, <1>7, Zenon
<1>16. Inv(pads, ids, n, h, v)
  BY <1>1, <1>10, <1>14, <1>15, UserTakes, Zenon
<1>17. Lessened(v, u, n, w.object, FALSE) /\ Win(v, w.object) = y
  BY <1>4, <1>5, <1>8, <1>10, <1>14, Zenon DEF Lessened, Except
<1>18. QED BY <1>16, <1>17, Zenon DEF TakesLines

\* Some of the lines of a window are taken, and nothing is sent.
LEMMA LoseLines ==
  ASSUME NEW pads, NEW ids, NEW n, NEW h, NEW u, Inv(pads, ids, n, h, u),
         NEW i, i \in 1 .. Len(u.wins), NEW w, w = u.wins[i],
         NEW ls \in Seq(Line), Sorted(ls), AsSet(ls) \subseteq AsSet(w.lines),
         NEW v, v = [u EXCEPT !.wins[i].lines = ls]
  PROVE  LosesLines(pads, ids, n, h, v, u, w.object, ls)
<1>1. n \in Nat /\ TermOK(u, n)
  BY InvIs, Zenon
<1>2. /\ w \in Window(n) /\ WinOK(w)
      /\ w = [object |-> w.object, oid |-> w.oid, attributes |-> w.attributes, max |-> w.max, lines |-> w.lines]
  BY ONLY <1>1, i \in 1 .. Len(u.wins), w = u.wins[i], WindowHere
<1>3. /\ u = [wins |-> u.wins, LINEobj |-> u.LINEobj, out |-> u.out, prev |-> u.prev]
      /\ u.out \in Seq(Request(n) \cup Closing(n)) /\ u.wins \in Seq(Window(n))
  BY <1>1, TerminalIs, Zenon DEF WinsOK
<1>4. PICK y : y = [object |-> w.object, oid |-> w.oid, attributes |-> w.attributes, max |-> w.max, lines |-> ls]
  OBVIOUS
<1>5. Keeps(y, w, ls)
  <2>1. y = [w EXCEPT !.lines = ls]
    BY <1>2, <1>4
  <2>2. QED BY <2>1, Zenon DEF Keeps
<1>6. y \in Window(n) /\ WinOK(y) /\ y.lines = ls /\ Keeps(y, w, y.lines)
  <2>1. w \in Window(n) /\ WinOK(w)
    BY <1>2, Zenon
  <2>2. QED BY ONLY <1>1, <2>1, ls \in Seq(Line), Sorted(ls), AsSet(ls) \subseteq AsSet(w.lines), <1>5, SomeLines
<1>7. AsSet(y.lines) \subseteq AsSet(w.lines)
  BY <1>6, Zenon
<1>8. PICK K, more : K = {} /\ more = <<>>
  OBVIOUS
<1>9. /\ Reals(y) \subseteq Reals(w) /\ Tildes(y) \subseteq Tildes(w)
      /\ AskedOf(y) \subseteq AskedOf(w) \cup K
  BY <1>7 DEF Reals, Tildes, AskedOf
<1>10. more \in Seq(Request(n) \cup Closing(n)) /\ u.out \o more = u.out
  <2>1. PICK S : S = Request(n) \cup Closing(n)
    OBVIOUS
  <2>2. more \in Seq(S) /\ u.out \o more = u.out
    BY <1>3, <1>8, <2>1
  <2>3. QED BY <2>1, <2>2
<1>11. Telling(more, w.object, w.oid, K, FALSE)
  BY <1>8 DEF Telling
<1>12. v = [wins |-> [u.wins EXCEPT ![i] = y], LINEobj |-> u.LINEobj, out |-> u.out \o more, prev |-> u.prev]
  <2>1. y = [w EXCEPT !.lines = ls]
    BY <1>2, <1>4
  <2>2. v = [u EXCEPT !.wins[i] = y]
    BY <2>1
  <2>3. PICK wins : wins = [u.wins EXCEPT ![i] = y]
    OBVIOUS
  <2>4. v = [u EXCEPT !.wins = wins]
    BY <2>2, <2>3
  <2>5. v = [wins |-> wins, LINEobj |-> u.LINEobj, out |-> u.out, prev |-> u.prev]
    BY <1>3, <2>4
  <2>6. QED BY <1>10, <2>3, <2>5, Zenon
<1>13. more \in Seq(Request(n) \cup Closing(n)) /\ (w.max = 0 => Tildes(y) \subseteq Tildes(w))
  BY <1>9, <1>10, Zenon
<1>14. TakesLines(pads, ids, n, h, v, u, w.object, y)
  BY ONLY Inv(pads, ids, n, h, u), i \in 1 .. Len(u.wins), w = u.wins[i], <1>6, <1>9, <1>11, <1>12, <1>13, TakeLines
<1>15. QED BY <1>6, <1>14, Zenon DEF TakesLines, LosesLines

\* Of the lines of w only the one of key k is not in v.
AllBut(v, w, k) == AsSet(v.lines) = {l \in AsSet(w.lines) : l.key # k}

LEMMA CutKeeps ==
  ASSUME NEW pads, NEW ids, NEW n, NEW h, NEW u, Inv(pads, ids, n, h, u),
         NEW i, i \in 1 .. Len(u.wins), NEW j, j \in 1 .. Len(u.wins[i].lines),
         NEW v, v = [u EXCEPT !.wins[i].lines = RemoveAt(@, j)]
  PROVE  /\ Inv(pads, ids, n, h, v) /\ Lessened(v, u, n, u.wins[i].object, FALSE)
         /\ AllBut(Win(v, u.wins[i].object), u.wins[i], u.wins[i].lines[j].key)
<1>1. n \in Nat /\ TermOK(u, n)
  BY InvIs, Zenon
<1>2. PICK w, ls, r : w = u.wins[i] /\ ls = w.lines /\ r = RemoveAt(ls, j)
  OBVIOUS
<1>3. ls \in Seq(Line) /\ Sorted(ls) /\ j \in 1 .. Len(ls)
  BY <1>1, <1>2, WindowHere, Zenon
<1>4. Changed(r, ls, ls[j].key, {})
  BY <1>2, <1>3, Removed, Zenon
<1>5. r \in Seq(Line) /\ Sorted(r)
  BY <1>4, Zenon DEF Changed
<1>6. AsSet(r) \subseteq AsSet(w.lines) /\ AsSet(r) = {l \in AsSet(w.lines) : l.key # w.lines[j].key}
  <2>1. PICK k : k = ls[j].key
    OBVIOUS
  <2>2. Changed(r, ls, k, {})
    BY <1>4, <2>1, Zenon
  <2>3. AsSet(r) = {l \in AsSet(ls) : l.key # k} \cup {}
    BY ONLY <2>2, ChangedSet
  <2>4. AsSet(r) = {l \in AsSet(ls) : l.key # k}
    BY <2>3
  <2>5. AsSet(r) \subseteq AsSet(ls)
    BY <2>4
  <2>6. ls = w.lines /\ k = w.lines[j].key
    BY <1>2, <2>1, Zenon
  <2>7. QED BY <2>4, <2>5, <2>6, Zenon
<1>7. v = [u EXCEPT !.wins[i].lines = r]
  BY <1>2
<1>8. w = u.wins[i]
  BY <1>2
<1>9. LosesLines(pads, ids, n, h, v, u, w.object, r)
  BY ONLY Inv(pads, ids, n, h, u), i \in 1 .. Len(u.wins), <1>8, <1>5, <1>6, <1>7, LoseLines
<1>10. AllBut(Win(v, w.object), w, w.lines[j].key)
  BY <1>6, <1>9, Zenon DEF AllBut, LosesLines
<1>11. QED BY <1>2, <1>9, <1>10, Zenon DEF LosesLines

LEMMA UserCloseKeeps ==
  ASSUME NEW pads, NEW ids, NEW n, NEW h, NEW u, Inv(pads, ids, n, h, u),
         NEW i, i \in 1 .. Len(u.wins), NEW v, v = DeletePad(u, i)
  PROVE  Inv(pads, ids, n, h, v) /\ \E c : Lessened(v, u, n, u.wins[i].object, c)
<1>1. n \in Nat /\ TermOK(u, n)
  BY InvIs, Zenon
<1>2. PICK w : w = u.wins[i]
  OBVIOUS
<1>3. /\ w.object \in Obj /\ w # NoWin /\ w.oid \in 1 .. n /\ Win(u, w.object) = w
      /\ w.lines \in Seq(Line) /\ Sorted(w.lines) /\ "DONT_CLOSE" \notin w.attributes
  BY ONLY <1>1, i \in 1 .. Len(u.wins), <1>2, WindowHere
<1>4. /\ u = [wins |-> u.wins, LINEobj |-> u.LINEobj, out |-> u.out, prev |-> u.prev]
      /\ u.LINEobj \in Obj \cup {NoObj} /\ u.out \in Seq(Request(n) \cup Closing(n))
      /\ u.prev \in Prev /\ WinsOK(u.wins, n)
  BY <1>1, TerminalIs, Zenon
<1>5. CASE "USERCLOSE" \notin w.attributes
  <2>1. PICK ls : ls = FoldLeft(DelLineOf, <<>>, w.lines)
    OBVIOUS
  <2>2. ls \in Seq(Line) /\ Sorted(ls) /\ AsSet(ls) \subseteq AsSet(w.lines)
    BY <1>3, <2>1, LinesLeft, Zenon
  <2>3. v = [u EXCEPT !.wins[i].lines = FoldLeft(DelLineOf, <<>>, @)]
    BY <1>2, <1>3, <1>5, Zenon DEF DeletePad
  <2>4. v = [u EXCEPT !.wins[i].lines = ls]
    <3>1. ls = FoldLeft(DelLineOf, <<>>, u.wins[i].lines)
      BY <1>2, <2>1, Zenon
    <3>2. QED BY <2>3, <3>1, Zenon
  <2>5. LosesLines(pads, ids, n, h, v, u, w.object, ls)
    BY ONLY Inv(pads, ids, n, h, u), i \in 1 .. Len(u.wins), <1>2, <2>2, <2>4, LoseLines
  <2>6. QED BY <1>2, <2>5, Zenon DEF LosesLines
<1>6. CASE "USERCLOSE" \in w.attributes
  <2>1. PICK o, x, c, K, m, wins, more :
          /\ o = w.object /\ x = w.oid /\ c = TRUE /\ K = {}
          /\ m = [op |-> "USERCLOSE", obj |-> o, oid |-> x] /\ wins = RemoveAt(u.wins, i) /\ more = <<m>>
    OBVIOUS
  <2>2. v = [[u EXCEPT !.out = Append(@, m)] EXCEPT !.wins = RemoveAt(@, i)]
    BY <1>2, <1>3, <1>6, <2>1, Zenon DEF DeletePad
  <2>3. PICK out : out = Append(u.out, m)
    OBVIOUS
  <2>4. m \in Request(n) \cup Closing(n)
    BY <1>3, <2>1 DEF Closing
  <2>5. out = u.out \o more /\ more \in Seq(Request(n) \cup Closing(n)) /\ out \in Seq(Request(n) \cup Closing(n))
    <3>1. PICK S : S = Request(n) \cup Closing(n)
      OBVIOUS
    <3>2. u.out \in Seq(S) /\ m \in S
      BY <1>4, <2>4, <3>1
    <3>3. out = u.out \o more /\ more \in Seq(S) /\ out \in Seq(S)
      BY <2>1, <2>3, <3>2
    <3>4. QED BY <3>1, <3>3
  <2>6. v = [wins |-> wins, LINEobj |-> u.LINEobj, out |-> out, prev |-> u.prev]
    <3>1. PICK ws, a, b, e : ws = u.wins /\ a = u.LINEobj /\ b = u.out /\ e = u.prev
      OBVIOUS
    <3>2. u = [wins |-> ws, LINEobj |-> a, out |-> b, prev |-> e] /\ wins = RemoveAt(ws, i) /\ out = Append(b, m)
      BY <1>4, <2>1, <2>3, <3>1, Zenon
    <3>3. PICK r : r = [u EXCEPT !.out = Append(@, m)]
      OBVIOUS
    <3>4. r = [u EXCEPT !.out = out]
      BY <2>3, <3>3
    <3>5. r = [wins |-> ws, LINEobj |-> a, out |-> out, prev |-> e]
      BY <3>2, <3>4
    <3>6. v = [r EXCEPT !.wins = RemoveAt(@, i)]
      BY <2>2, <3>3, Zenon
    <3>7. r.wins = ws
      BY <3>5
    <3>8. v = [r EXCEPT !.wins = wins]
      BY <3>2, <3>6, <3>7
    <3>9. QED BY <3>1, <3>5, <3>8
  <2>7. v.wins = wins /\ v.out = out /\ v.LINEobj = u.LINEobj /\ v.prev = u.prev
    BY <2>6
  <2>8. WinsOK(v.wins, n) /\ Except(v, u, u.wins[i].object, NoWin)
    <3>1. v.wins = RemoveAt(u.wins, i)
      BY <2>1, <2>7, Zenon
    <3>2. QED BY <1>1, <1>4, <3>1, Closes, Zenon
  <2>9. TermOK(v, n)
    <3>1. WinsOK(wins, n)
      BY <2>7, <2>8, Zenon
    <3>2. QED BY ONLY <1>1, <1>4, <2>5, <2>6, <3>1, ATerminal
  <2>10. Win(v, o) = NoWin /\ Win(u, o) = w /\ \A p : p # o => Win(v, p) = Win(u, p)
    BY <1>2, <1>3, <2>1, <2>8, Zenon DEF Except
  <2>11. Behind(NoWin, w, x, K, c)
    BY <1>3, <1>6, <2>1, Zenon DEF Behind
  <2>12. Less(v, u, o, x, K, c)
    BY <2>7, <2>10, <2>11, Zenon DEF Less
  <2>13. Telling(more, o, x, K, c)
    BY <2>1 DEF Telling
  <2>14. o \in Obj /\ Win(u, o) # NoWin /\ Win(u, o).oid = x /\ v.out = u.out \o more
    BY <1>3, <2>1, <2>5, <2>7, <2>10, Zenon
  <2>15. Inv(pads, ids, n, h, v)
    BY <1>1, <2>5, <2>9, <2>10, <2>12, <2>13, <2>14, UserTakes, Zenon
  <2>16. QED BY <1>2, <2>1, <2>9, <2>12, <2>15, Zenon DEF Lessened
<1>7. QED BY <1>5, <1>6, Zenon

\* The requests rs are of keys up to j, and for each of those in K among the
\* first n of ks there is one.
RunsOK(rs, K, ks, n, j) ==
  /\ rs \in Seq((1 .. j) \X (1 .. j))
  /\ \A i \in 1 .. Len(rs) : rs[i][1] <= rs[i][2]
  /\ \A h \in 1 .. n : ks[h] \in K => \E i \in 1 .. Len(rs) : ks[h] \in rs[i][1] .. rs[i][2]

\* A key that goes with the one before it, or begins a request, is requested.
LEMMA RunStep ==
  ASSUME NEW j \in Nat, NEW rs, NEW K, NEW ks, NEW n \in Nat, RunsOK(rs, K, ks, n, j),
         NEW k, k \in 1 .. j, ks[n + 1] = k
  PROVE  RunsOK(Run(rs, k), K, ks, n + 1, j)
<1> DEFINE P == (1 .. j) \X (1 .. j)
<1>1. /\ rs \in Seq(P) /\ \A i \in 1 .. Len(rs) : rs[i][1] <= rs[i][2]
      /\ \A h \in 1 .. n : ks[h] \in K => \E i \in 1 .. Len(rs) : ks[h] \in rs[i][1] .. rs[i][2]
  BY Zenon DEF RunsOK
<1>2. \A p \in P : p = <<p[1], p[2]>> /\ p[1] \in 1 .. j /\ p[2] \in 1 .. j
  OBVIOUS
<1>3. \A h \in 1 .. n + 1 : h \in 1 .. n \/ h = n + 1
  OBVIOUS
<1>4. <<k, k>> \in P /\ k \in Nat
  OBVIOUS
<1> HIDE DEF P
<1>5. Len(rs) \in Nat /\ \A i \in 1 .. Len(rs) : rs[i] \in P
  BY <1>1
<1>6. PICK us : us = Run(rs, k)
  OBVIOUS
<1>7. /\ us \in Seq(P) /\ \A i \in 1 .. Len(us) : us[i][1] <= us[i][2]
      /\ \A i \in 1 .. Len(rs) : i \in 1 .. Len(us) /\ us[i][1] <= rs[i][1] /\ rs[i][2] <= us[i][2]
      /\ \E i \in 1 .. Len(us) : k \in us[i][1] .. us[i][2]
  <2>1. CASE rs # <<>> /\ rs[Len(rs)][2] + 1 = k
    <3>1. PICK m : m = Len(rs)
      OBVIOUS
    <3>2. m \in 1 .. m /\ m \in Nat
      <4>1. m # 0
        BY <1>1, <2>1, <3>1, EmptySeq, Zenon
      <4>2. QED BY <1>5, <3>1, <4>1
    <3>3. PICK a, b : rs[m] = <<a, b>> /\ a \in 1 .. j /\ b \in 1 .. j
      BY <1>2, <1>5, <3>1, <3>2, Zenon
    <3>4. a <= b /\ b + 1 = k
      <4>1. rs[m][1] <= rs[m][2] /\ rs[m][2] + 1 = k
        BY <1>1, <2>1, <3>1, <3>2, Zenon
      <4>2. QED BY <3>3, <4>1
    <3>5. us = [rs EXCEPT ![m] = <<a, k>>]
      <4>1. us = [rs EXCEPT ![m] = <<rs[m][1], k>>]
        BY <1>6, <2>1, <3>1, Zenon DEF Run
      <4>2. rs[m][1] = a
        BY <3>3
      <4>3. QED BY <4>1, <4>2, Zenon
    <3>6. <<a, k>> \in P
      BY <3>3 DEF P
    <3>7. us \in Seq(P) /\ Len(us) = m /\ \A i \in 1 .. m : us[i] = IF i = m THEN <<a, k>> ELSE rs[i]
      <4>1. PICK e : e = <<a, k>>
        OBVIOUS
      <4>2. us = [rs EXCEPT ![m] = e] /\ e \in P
        BY <3>5, <3>6, <4>1, Zenon
      <4>3. m \in 1 .. Len(rs)
        BY <3>1, <3>2
      <4>4. us \in Seq(P) /\ Len(us) = Len(rs)
        BY ONLY <1>1, <4>2, <4>3
      <4>5. \A i \in 1 .. Len(rs) : us[i] = IF i = m THEN e ELSE rs[i]
        BY ONLY <1>1, <4>2, <4>3
      <4>6. QED BY <3>1, <4>1, <4>4, <4>5, Zenon
    <3>8. ASSUME NEW i \in 1 .. m PROVE us[i][1] <= us[i][2] /\ us[i][1] <= rs[i][1] /\ rs[i][2] <= us[i][2]
      <4>1. CASE i = m
        <5>1. us[i] = <<a, k>> /\ rs[i] = <<a, b>>
          BY <3>3, <3>7, <4>1, Zenon
        <5>2. a \in Nat /\ b \in Nat
          BY <3>3
        <5>3. QED BY <1>4, <3>4, <5>1, <5>2
      <4>2. CASE i # m
        <5>1. us[i] = rs[i] /\ rs[i] \in P
          BY <1>5, <3>1, <3>7, <4>2, Zenon
        <5>2. rs[i][1] \in Nat /\ rs[i][2] \in Nat
          BY <5>1 DEF P
        <5>3. rs[i][1] <= rs[i][2]
          BY <1>1, <3>1, Zenon
        <5>4. QED BY <5>1, <5>2, <5>3
      <4>3. QED BY <4>1, <4>2, Zenon
    <3>9. k \in us[m][1] .. us[m][2]
      <4>1. us[m] = <<a, k>>
        BY <3>2, <3>7, Zenon
      <4>2. a \in Nat /\ b \in Nat
        BY <3>3
      <4>3. QED BY <1>4, <3>4, <4>1, <4>2
    <3>10. QED BY <3>1, <3>2, <3>7, <3>8, <3>9, Zenon
  <2>2. CASE ~ (rs # <<>> /\ rs[Len(rs)][2] + 1 = k)
    <3>1. us = Append(rs, <<k, k>>)
      BY <1>6, <2>2, Zenon DEF Run
    <3>2. us \in Seq(P) /\ Len(us) = Len(rs) + 1 /\ us[Len(rs) + 1] = <<k, k>> /\ \A i \in 1 .. Len(rs) : us[i] = rs[i]
      BY <1>1, <1>4, <3>1
    <3>3. k \in us[Len(rs) + 1][1] .. us[Len(rs) + 1][2] /\ us[Len(rs) + 1][1] <= us[Len(rs) + 1][2]
      BY <1>4, <3>2
    <3>4. \A i \in 1 .. Len(us) : i \in 1 .. Len(rs) \/ i = Len(rs) + 1
      BY <1>5, <3>2
    <3>5. Len(rs) + 1 \in 1 .. Len(us) /\ \A i \in 1 .. Len(rs) : i \in 1 .. Len(us)
      BY <1>5, <3>2
    <3>6. ASSUME NEW i \in 1 .. Len(rs) PROVE us[i][1] <= us[i][2] /\ us[i][1] <= rs[i][1] /\ rs[i][2] <= us[i][2]
      <4>1. us[i] = rs[i] /\ rs[i] \in P /\ rs[i][1] <= rs[i][2]
        BY <1>1, <1>5, <3>2, Zenon
      <4>2. rs[i][1] \in Nat /\ rs[i][2] \in Nat
        BY <4>1 DEF P
      <4>3. QED BY <4>1, <4>2
    <3>7. QED BY <3>2, <3>3, <3>4, <3>5, <3>6, Zenon
  <2>3. QED BY <2>1, <2>2, Zenon
<1>8. ASSUME NEW h \in 1 .. n + 1, ks[h] \in K PROVE \E i \in 1 .. Len(us) : ks[h] \in us[i][1] .. us[i][2]
  <2>1. CASE h = n + 1
    BY <1>7, <2>1, Zenon
  <2>2. CASE h \in 1 .. n
    <3>1. PICK i \in 1 .. Len(rs) : ks[h] \in rs[i][1] .. rs[i][2]
      BY <1>1, <1>8, <2>2, Zenon
    <3>2. i \in 1 .. Len(us) /\ us[i][1] <= rs[i][1] /\ rs[i][2] <= us[i][2] /\ rs[i] \in P /\ us[i] \in P
      <4>1. \A x \in 1 .. Len(us) : us[x] \in P
        BY <1>7
      <4>2. QED BY <1>5, <1>7, <4>1, Zenon
    <3>3. rs[i][1] \in Nat /\ rs[i][2] \in Nat /\ us[i][1] \in Nat /\ us[i][2] \in Nat
      BY <3>2 DEF P
    <3>4. ks[h] \in us[i][1] .. us[i][2]
      <4>1. PICK x, a, b, c, d : x = ks[h] /\ a = rs[i][1] /\ b = rs[i][2] /\ c = us[i][1] /\ d = us[i][2]
        OBVIOUS
      <4>2. x \in a .. b /\ a \in Nat /\ b \in Nat /\ c \in Nat /\ d \in Nat /\ c <= a /\ b <= d
        BY <3>1, <3>2, <3>3, <4>1, Zenon
      <4>3. x \in c .. d
        BY ONLY <4>2
      <4>4. QED BY <4>1, <4>3, Zenon
    <3>5. QED BY <3>2, <3>4, Zenon
  <2>3. QED BY <1>3, <2>1, <2>2, Zenon
<1>9. RunsOK(us, K, ks, n + 1, j)
  BY <1>7, <1>8, Zenon DEF RunsOK, P
<1>10. QED BY <1>6, <1>9, Zenon

\* Each key that is missing is requested.
LEMMA RunsAre ==
  ASSUME NEW j \in Nat, NEW K, NEW ks \in Seq(1 .. j)
  PROVE  RunsOK(Runs(K, ks), K, ks, Len(ks), j)
<1>1. Len(ks) \in Nat /\ DOMAIN ks = 1 .. Len(ks) /\ \A i \in 1 .. Len(ks) : ks[i] \in 1 .. j
  OBVIOUS
<1>2. PICK f : Turns(f, "Run", K, <<>>, ks) /\ Runs(K, ks) = f[Len(ks)]
  <2>1. PICK f : Turns(f, "Run", K, <<>>, ks) /\ Runs(K, ks) = f[Len(ks)]
    BY <1>1, RunTurns, Zenon
  <2>2. QED BY <2>1, Zenon
<1>3. f[0] = <<>> /\ \A i \in 1 .. Len(ks) : f[i] = IF ks[i] \in K THEN Run(f[i - 1], ks[i]) ELSE f[i - 1]
  <2>1. \A m, e : Turn("Run", K, m, e) = IF e \in K THEN Run(m, e) ELSE m
    BY DEF Turn
  <2>2. QED BY <1>2, <2>1, Zenon DEF Turns
<1> DEFINE T == { i \in 0 .. Len(ks) : RunsOK(f[i], K, ks, i, j) }
<1>4. 0 \in T
  <2>1. RunsOK(<<>>, K, ks, 0, j)
    BY DEF RunsOK
  <2>2. 0 \in 0 .. Len(ks)
    BY <1>1
  <2>3. QED BY <1>3, <2>1, <2>2, Zenon
<1>5. ASSUME NEW i \in 0 .. Len(ks) - 1, i \in T PROVE i + 1 \in T
  <2>1. i \in Nat /\ i + 1 \in 1 .. Len(ks) /\ i + 1 \in 0 .. Len(ks) /\ (i + 1) - 1 = i
    BY <1>1
  <2>2. PICK k : k = ks[i + 1]
    OBVIOUS
  <2>3. PICK rs : rs = f[i]
    OBVIOUS
  <2>4. k \in 1 .. j /\ RunsOK(rs, K, ks, i, j) /\ f[i + 1] = IF k \in K THEN Run(rs, k) ELSE rs
    BY <1>1, <1>3, <1>5, <2>1, <2>2, <2>3, Zenon
  <2>5. CASE k \in K
    BY <2>1, <2>2, <2>4, <2>5, RunStep, Zenon
  <2>6. CASE k \notin K
    <3>1. \A h \in 1 .. i + 1 : h \in 1 .. i \/ h = i + 1
      BY <2>1
    <3>2. RunsOK(rs, K, ks, i + 1, j)
      BY <2>2, <2>4, <2>6, <3>1, Zenon DEF RunsOK
    <3>3. QED BY <2>1, <2>4, <2>6, <3>2, Zenon
  <2>7. QED BY <2>5, <2>6, Zenon
<1> HIDE DEF T
<1>6. \A i \in 0 .. Len(ks) - 1 : i \in T => i + 1 \in T
  BY <1>5, Zenon
<1>7. Len(ks) \in T
  BY <1>1, <1>4, <1>6, InductTo, Zenon
<1>8. QED BY <1>2, <1>7, Zenon DEF T

LEMMA AskingIs ==
  ASSUME NEW l \in Line, NEW K, NEW z, z = Asking(l, K)
  PROVE  /\ z \in Line /\ z.key = l.key /\ z.text = l.text
         /\ l.text # TILDE => z = l
         /\ l.key \notin K => z = l
<1>1. /\ l = [key |-> l.key, text |-> l.text, attributes |-> l.attributes] /\ l.key \in Key
      /\ l.text = TILDE => l.attributes = {} \/ l.attributes = {"FAKELINE"}
      /\ l.text # TILDE => l.attributes \in LineAttributes \cup {{}}
  BY LineIs, Zenon
<1>2. l.text # TILDE => "FAKELINE" \notin l.attributes
  BY <1>1, OptionsAre
<1>3. CASE l.key \notin K
  <2>1. z = l
    BY <1>3, Zenon DEF Asking
  <2>2. QED BY <2>1
<1>4. CASE l.key \in K
  <2>1. z = [l EXCEPT !.attributes = @ \ {"FAKELINE"}]
    BY <1>4, Zenon DEF Asking
  <2>2. PICK a : a = l.attributes \ {"FAKELINE"}
    OBVIOUS
  <2>3. z = [key |-> l.key, text |-> l.text, attributes |-> a]
    BY <1>1, <2>1, <2>2
  <2>4. CASE l.text # TILDE
    <3>1. a = l.attributes
      BY <1>2, <2>2, <2>4
    <3>2. z = l
      BY <1>1, <2>3, <3>1, Zenon
    <3>3. QED BY <1>4, <3>2
  <2>5. CASE l.text = TILDE
    <3>1. a = {}
      BY <1>1, <2>2, <2>5
    <3>2. z \in TildeLine
      BY <1>1, <2>3, <2>5, <3>1 DEF TildeLine
    <3>3. QED BY <1>4, <2>3, <2>5, <3>2 DEF Line
  <2>6. QED BY <2>4, <2>5, Zenon
<1>5. QED BY <1>3, <1>4, Zenon

\* What is asked for among the lines of a window: some of those keys.
Wanted(y, w, K, n) ==
  /\ y \in Window(n) /\ WinOK(y) /\ Keeps(y, w, y.lines)
  /\ Reals(y) \subseteq Reals(w)
  /\ w.max = 0 => Tildes(y) \subseteq Tildes(w)
  /\ AskedOf(y) \subseteq AskedOf(w) \cup K

\* In a window without limit the lines of CreateLine are requested.
LEMMA AskedLines ==
  ASSUME NEW n \in Nat, NEW w \in Window(n), WinOK(w), w.max = 0, NEW lo, NEW hi,
         NEW K, K = Missing(w, lo, hi), NEW y, y = RequestLines(w, lo, hi)
  PROVE  Wanted(y, w, K, n)
<1>1. /\ w = [object |-> w.object, oid |-> w.oid, attributes |-> w.attributes, max |-> w.max, lines |-> w.lines]
      /\ w.lines \in Seq(Line) /\ Sorted(w.lines)
  BY WindowIs, Zenon DEF WinOK
<1>2. PICK ls, N : ls = w.lines /\ N = Len(ls)
  OBVIOUS
<1>3. N \in Nat /\ DOMAIN ls = 1 .. N /\ ls \in Seq(Line) /\ \A i \in 1 .. N : ls[i] \in Line
  BY <1>1, <1>2
<1>4. PICK r : r = [i \in 1 .. N |-> Asking(ls[i], K)]
  OBVIOUS
<1>5. y = [w EXCEPT !.lines = r]
  <2>1. r = [i \in DOMAIN w.lines |-> Asking(w.lines[i], K)]
    BY <1>2, <1>3, <1>4
  <2>2. QED BY <2>1, Zenon DEF RequestLines
<1>6. ASSUME NEW i \in 1 .. N
      PROVE  /\ r[i] \in Line /\ r[i].key = ls[i].key /\ r[i].text = ls[i].text
             /\ ls[i].text # TILDE => r[i] = ls[i]
             /\ ls[i].key \notin K => r[i] = ls[i]
  <2>1. r[i] = Asking(ls[i], K)
    BY <1>4
  <2>2. ls[i] \in Line
    BY <1>3
  <2>3. QED BY ONLY <2>1, <2>2, AskingIs
<1>7. r \in Seq(Line) /\ Len(r) = N
  <2>1. DOMAIN r = 1 .. N
    BY <1>4
  <2>2. r = [i \in 1 .. N |-> r[i]]
    BY <1>4, <2>1
  <2>3. r \in [1 .. N -> Line]
    BY <1>6, <2>2
  <2>4. QED BY <1>3, <2>1, <2>3
<1>8. Sorted(r)
  <2>1. \A i, j \in 1 .. N : i < j => ls[i].key < ls[j].key
    BY <1>1, <1>2, Zenon DEF Sorted
  <2>2. \A i, j \in 1 .. N : i < j => r[i].key < r[j].key
    BY <1>6, <2>1, Zenon
  <2>3. QED BY <1>7, <2>2, Zenon DEF Sorted
<1>9. Keeps(y, w, r)
  BY <1>5, Zenon DEF Keeps
<1>10. /\ y \in Window(n) /\ y.lines = r
       /\ y.attributes = w.attributes /\ y.max = w.max
  BY ONLY n \in Nat, w \in Window(n), <1>7, <1>9, KeepsIs
<1>11. /\ \A l \in AsSet(r) : \E i \in 1 .. N : l = r[i]
       /\ \A i \in 1 .. N : ls[i] \in AsSet(ls)
  BY <1>2, <1>7 DEF AsSet
<1>12. WinOK(y)
  <2>1. ASSUME Plain(y), NEW l \in AsSet(r) PROVE l.text # TILDE
    <3>1. PICK i \in 1 .. N : l = r[i]
      BY <1>11, Zenon
    <3>2. Plain(w)
      BY <1>10, <2>1, Zenon DEF Plain
    <3>3. ls[i].text # TILDE
      BY <1>2, <1>11, <3>2, Zenon DEF WinOK
    <3>4. QED BY <1>6, <3>1, <3>3, Zenon
  <2>2. QED BY <1>8, <1>10, <2>1, Zenon DEF WinOK
<1>13. Reals(y) \subseteq Reals(w)
  <2>1. ASSUME NEW l \in Reals(y) PROVE l \in Reals(w)
    <3>1. l \in AsSet(r) /\ l.text # TILDE
      BY <1>10 DEF Reals
    <3>2. PICK i \in 1 .. N : l = r[i]
      BY <1>11, <3>1, Zenon
    <3>3. l = ls[i]
      BY <1>6, <3>1, <3>2, Zenon
    <3>4. l \in AsSet(ls)
      BY <1>11, <3>3, Zenon
    <3>5. QED BY <1>2, <3>1, <3>4 DEF Reals
  <2>2. QED BY <2>1, Zenon
<1>14. Tildes(y) \subseteq Tildes(w)
  <2>1. ASSUME NEW k \in Tildes(y) PROVE k \in Tildes(w)
    <3>1. PICK l \in AsSet(r) : l.key = k /\ l.text = TILDE /\ k \in Key
      BY <1>10, Zenon DEF Tildes
    <3>2. PICK i \in 1 .. N : l = r[i]
      BY <1>11, <3>1, Zenon
    <3>3. ls[i].key = k /\ ls[i].text = TILDE /\ ls[i] \in AsSet(ls)
      BY <1>6, <1>11, <3>1, <3>2, Zenon
    <3>4. QED BY <1>2, <3>1, <3>3, Zenon DEF Tildes
  <2>2. QED BY <2>1, Zenon
<1>15. AskedOf(y) \subseteq AskedOf(w) \cup K
  <2>1. ASSUME NEW k \in AskedOf(y), k \notin K PROVE k \in AskedOf(w)
    <3>1. k \in Key /\ Dummy(k, {}) \in AsSet(r)
      BY <1>10, Zenon DEF AskedOf
    <3>2. PICK i \in 1 .. N : Dummy(k, {}) = r[i]
      BY <1>11, <3>1, Zenon
    <3>3. Dummy(k, {}).key = k
      BY DEF Dummy
    <3>4. ls[i] = Dummy(k, {}) /\ ls[i] \in AsSet(ls)
      BY <1>6, <1>11, <2>1, <3>2, <3>3, Zenon
    <3>5. QED BY <1>2, <3>1, <3>4, Zenon DEF AskedOf
  <2>2. QED BY <2>1
<1>16. QED
  <2>1. Keeps(y, w, y.lines)
    BY <1>9, <1>10, Zenon
  <2>2. QED BY <1>10, <1>12, <1>13, <1>14, <1>15, <2>1, Zenon DEF Wanted

\* In one with a limit the lines that are not there are.
LEMMA NearLines ==
  ASSUME NEW n \in Nat, NEW w \in Window(n), WinOK(w), w.max # 0, NEW lo \in Key, NEW hi \in Key, lo <= hi, hi <= w.max,
         NEW K, K = Missing(w, lo, hi), NEW y, y = RequestLines(w, lo, hi)
  PROVE  Wanted(y, w, K, n)
<1>1. /\ w.max \in Nat /\ w.lines \in Seq(Line) /\ Sorted(w.lines)
      /\ \A l \in AsSet(w.lines) : l.key <= w.max
  BY WindowIs, Zenon DEF WinOK
<1>2. PICK ls, r : ls = Nearby(w.lines, lo, hi) /\ r = Waiting(ls, K, UpTo(lo, hi))
  OBVIOUS
<1>3. ls \in Seq(Line) /\ Sorted(ls) /\ AsSet(ls) \subseteq AsSet(w.lines)
  BY <1>1, <1>2, LinesNear, Zenon
<1>4. K = {k \in lo .. hi : KeyAt(w.lines, k) = 0}
  BY Zenon DEF Missing
<1>5. K \subseteq Key /\ \A k \in K : k \in Nat /\ k <= w.max /\ KeyAt(w.lines, k) = 0
  <2>1. lo \in Nat /\ hi \in Nat /\ hi <= MaxKey /\ 1 <= lo
    BY KeyIs, Zenon
  <2>2. QED BY <1>1, <1>4, <2>1, Constants DEF Key
<1>6. \A l \in AsSet(ls) : l.key \notin K
  <2>1. ASSUME NEW l \in AsSet(ls) PROVE l.key \notin K
    <3>1. PICK j \in 1 .. Len(w.lines) : l = w.lines[j]
      BY <1>1, <1>3, InSet, Zenon
    <3>2. PICK a : a = KeyAt(w.lines, l.key)
      OBVIOUS
    <3>3. a # 0
      <4>1. \/ KeyAt(w.lines, l.key) = 0 /\ \A i \in 1 .. Len(w.lines) : w.lines[i].key # l.key
            \/ KeyAt(w.lines, l.key) \in 1 .. Len(w.lines) /\ w.lines[KeyAt(w.lines, l.key)].key = l.key
        BY <1>1, KeyAtIs, Zenon
      <4>2. a = 0 \/ a \in 1 .. Len(w.lines)
        BY <3>2, <4>1, Zenon
      <4>3. w.lines[j].key = l.key
        BY <3>1, Zenon
      <4>4. a \in 1 .. Len(w.lines)
        BY <3>2, <4>1, <4>3, Zenon
      <4>5. QED BY <4>4
    <3>4. QED BY <1>5, <3>2, <3>3, Zenon
  <2>2. QED BY <2>1, Zenon
<1>7. /\ r \in Seq(Line) /\ Sorted(r)
      /\ \A l \in AsSet(r) : l \in AsSet(ls) \/ \E k \in K : l = Dummy(k, {})
  <2>1. K \in SUBSET Key
    BY <1>5
  <2>2. QED BY ONLY <1>3, lo \in Key, hi \in Key, lo <= hi, <2>1, <1>6, <1>2, WaitingAre
<1>8. \A k : Dummy(k, {}).key = k /\ Dummy(k, {}).text = TILDE
  BY DEF Dummy
<1>9. \A l \in AsSet(r) : l \in AsSet(w.lines) \/ \E k \in K : l = Dummy(k, {})
  BY <1>3, <1>7, Zenon
<1>10. Keeps(y, w, r)
  <2>1. Looked(w, lo, hi) = UpTo(lo, hi)
    BY Zenon DEF Looked
  <2>2. y = [w EXCEPT !.lines = Waiting(Nearby(@, lo, hi), K, UpTo(lo, hi))]
    BY <2>1, Zenon DEF RequestLines
  <2>3. y = [w EXCEPT !.lines = r]
    BY <1>2, <2>2, Zenon
  <2>4. QED BY <2>3, Zenon DEF Keeps
<1>11. y \in Window(n) /\ y.lines = r /\ y.max = w.max
  BY ONLY n \in Nat, w \in Window(n), <1>7, <1>10, KeepsIs
<1>12. ASSUME NEW l \in AsSet(r) PROVE l.key <= w.max
  <2>1. CASE l \in AsSet(w.lines)
    BY <1>1, <2>1, Zenon
  <2>2. CASE l \notin AsSet(w.lines)
    <3>1. PICK k \in K : l = Dummy(k, {})
      BY <1>9, <2>2, Zenon
    <3>2. l.key = k
      BY <1>8, <3>1, Zenon
    <3>3. QED BY <1>5, <3>2, Zenon
  <2>3. QED BY <2>1, <2>2, Zenon
<1>13. WinOK(y)
  <2>1. ~ Plain(y)
    BY <1>11, Zenon DEF Plain
  <2>2. QED BY <1>7, <1>11, <1>12, <2>1, Zenon DEF WinOK
<1>14. Reals(y) \subseteq Reals(w)
  <2>1. Reals(y) = {l \in AsSet(r) : l.text # TILDE} /\ Reals(w) = {l \in AsSet(w.lines) : l.text # TILDE}
    BY <1>11, Zenon DEF Reals
  <2>2. \A l \in AsSet(r) : l.text # TILDE => l \in AsSet(w.lines)
    BY <1>8, <1>9, Zenon
  <2>3. QED BY <2>1, <2>2
<1>15. AskedOf(y) \subseteq AskedOf(w) \cup K
  <2>1. ASSUME NEW k \in AskedOf(y), k \notin K PROVE k \in AskedOf(w)
    <3>1. k \in Key /\ Dummy(k, {}) \in AsSet(r)
      BY <1>11, Zenon DEF AskedOf
    <3>2. ~ \E h \in K : Dummy(k, {}) = Dummy(h, {})
      BY <1>8, <2>1, Zenon
    <3>3. Dummy(k, {}) \in AsSet(w.lines)
      BY <1>9, <3>1, <3>2, Zenon
    <3>4. QED BY <3>1, <3>3, Zenon DEF AskedOf
  <2>2. QED BY <2>1
<1>16. QED
  <2>1. Keeps(y, w, y.lines)
    BY <1>10, <1>11, Zenon
  <2>2. QED BY <1>11, <1>13, <1>14, <1>15, <2>1, Zenon DEF Wanted

\* Each key that is missing is looked at.
LEMMA LookedIs ==
  ASSUME NEW n \in Nat, NEW w \in Window(n), NEW lo \in Key, NEW hi \in Key, lo <= hi,
         hi <= IF w.max # 0 THEN w.max ELSE Len(w.lines), NEW ks, ks = Looked(w, lo, hi)
  PROVE  ks \in Seq(1 .. MaxKey) /\ \A k \in Missing(w, lo, hi) : \E a \in 1 .. Len(ks) : ks[a] = k
<1>1. /\ lo \in Nat /\ hi \in Nat /\ hi <= MaxKey /\ 1 <= lo /\ MaxKey \in Nat
      /\ w.max \in Nat /\ w.lines \in Seq(Line)
  BY KeyIs, Constants, WindowIs, Zenon
<1>2. CASE w.max # 0
  <2>1. ks = UpTo(lo, hi)
    BY <1>2, Zenon DEF Looked
  <2>2. ks = [i \in 1 .. 1 + hi - lo |-> lo + i - 1]
    BY <2>1, Zenon DEF UpTo
  <2>3. ks \in Seq(1 .. MaxKey) /\ Len(ks) = 1 + hi - lo
    BY <1>1, <2>2
  <2>4. \A i \in 1 .. 1 + hi - lo : ks[i] = lo + i - 1
    BY <2>2
  <2>5. ASSUME NEW k \in Missing(w, lo, hi) PROVE \E a \in 1 .. Len(ks) : ks[a] = k
    <3>1. k \in lo .. hi
      BY <1>2 DEF Missing
    <3>2. PICK a : a = 1 + k - lo
      OBVIOUS
    <3>3. a \in 1 .. Len(ks) /\ ks[a] = k
      BY <1>1, <2>3, <2>4, <3>1, <3>2
    <3>4. QED BY <3>3, Zenon
  <2>6. QED BY <2>3, <2>5, Zenon
<1>3. CASE w.max = 0
  <2>1. PICK ls, N : ls = w.lines /\ N = Len(ls)
    OBVIOUS
  <2>2. hi <= N /\ N \in Nat
    BY <1>1, <1>3, <2>1
  <2>3. \A j \in lo .. hi : j \in 1 .. N /\ ls[j].key \in 1 .. MaxKey
    <3>1. \A j \in 1 .. N : ls[j] \in Line
      BY <1>1, <2>1
    <3>2. \A j \in 1 .. N : ls[j].key \in Key
      BY <3>1, LineIs, Zenon
    <3>3. \A j \in lo .. hi : j \in 1 .. N
      BY <1>1, <2>2
    <3>4. QED BY <3>2, <3>3, Zenon DEF Key
  <2>4. ks = [i \in 1 .. 1 + hi - lo |-> ls[lo + i - 1].key]
    <3>1. ks = [i \in 1 .. 1 + hi - lo |-> w.lines[lo + i - 1].key]
      BY <1>3, Zenon DEF Looked
    <3>2. QED BY <2>1, <3>1, Zenon
  <2>5. \A i \in 1 .. 1 + hi - lo : ks[i] = ls[lo + i - 1].key /\ lo + i - 1 \in lo .. hi
    BY <1>1, <2>4
  <2>6. ks \in Seq(1 .. MaxKey) /\ Len(ks) = 1 + hi - lo
    <3>1. 1 + hi - lo \in Nat
      BY <1>1
    <3>2. \A i \in 1 .. 1 + hi - lo : ks[i] \in 1 .. MaxKey
      BY <2>3, <2>5, Zenon
    <3>3. PICK c : c = 1 + hi - lo
      OBVIOUS
    <3>4. ks = [a \in 1 .. c |-> ks[a]] /\ c \in Nat
      BY <2>4, <3>1, <3>3
    <3>5. ks \in [1 .. c -> 1 .. MaxKey]
      BY <3>2, <3>3, <3>4
    <3>6. ks \in Seq(1 .. MaxKey) /\ Len(ks) = c
      BY <3>4, <3>5
    <3>7. QED BY <3>3, <3>6, Zenon
  <2>7. ASSUME NEW k \in Missing(w, lo, hi) PROVE \E a \in 1 .. Len(ks) : ks[a] = k
    <3>1. PICK j \in lo .. hi : k = ls[j].key
      <4>1. Missing(w, lo, hi) = {w.lines[i].key : i \in {j \in lo .. hi :
                "FAKELINE" \in w.attributes /\ "FAKELINE" \in w.lines[j].attributes}}
        BY <1>3, Zenon DEF Missing
      <4>2. QED BY <2>1, <4>1, Zenon
    <3>2. PICK a : a = 1 + j - lo
      OBVIOUS
    <3>3. a \in 1 .. 1 + hi - lo /\ lo + a - 1 = j
      BY <1>1, <3>1, <3>2
    <3>4. ks[a] = k /\ a \in 1 .. Len(ks)
      BY <2>5, <2>6, <3>1, <3>3, Zenon
    <3>5. QED BY <3>4, Zenon
  <2>8. QED BY <2>6, <2>7, Zenon
<1>4. QED BY <1>2, <1>3, Zenon

LEMMA PaintKeeps ==
  ASSUME NEW pads, NEW ids, NEW n, NEW h, NEW u, Inv(pads, ids, n, h, u),
         NEW i, i \in 1 .. Len(u.wins), NEW lo \in Key, NEW hi \in Key, lo <= hi,
         hi <= IF u.wins[i].max # 0 THEN u.wins[i].max ELSE Len(u.wins[i].lines),
         NEW v, v = Painted(u, i, lo, hi)
  PROVE  Inv(pads, ids, n, h, v) /\ Lessened(v, u, n, u.wins[i].object, FALSE)
<1>1. n \in Nat /\ TermOK(u, n)
  BY InvIs, Zenon
<1>2. PICK w, K, ks, y, reqs : /\ w = u.wins[i] /\ K = Missing(w, lo, hi) /\ ks = Looked(w, lo, hi)
                               /\ y = RequestLines(w, lo, hi) /\ reqs = Runs(K, ks)
  OBVIOUS
<1>3. w \in Window(n) /\ WinOK(w) /\ w.object \in Obj /\ w.oid \in 1 .. n /\ w.max \in Nat
  <2>1. w = u.wins[i]
    BY <1>2
  <2>2. w \in Window(n) /\ WinOK(w) /\ w.object \in Obj /\ w.oid \in 1 .. n
    BY ONLY <1>1, i \in 1 .. Len(u.wins), <2>1, WindowHere
  <2>3. QED BY <1>1, <2>2, WindowIs, Zenon
<1>4. /\ u = [wins |-> u.wins, LINEobj |-> u.LINEobj, out |-> u.out, prev |-> u.prev]
      /\ u.out \in Seq(Request(n) \cup Closing(n))
  BY <1>1, TerminalIs, Zenon
<1>5. hi <= IF w.max # 0 THEN w.max ELSE Len(w.lines)
  BY <1>2, Zenon
<1>6. ks \in Seq(1 .. MaxKey) /\ \A k \in K : \E a \in 1 .. Len(ks) : ks[a] = k
  <2>1. ks \in Seq(1 .. MaxKey) /\ \A k \in Missing(w, lo, hi) : \E a \in 1 .. Len(ks) : ks[a] = k
    <3>1. ks = Looked(w, lo, hi)
      BY <1>2
    <3>2. QED BY ONLY <1>1, <1>3, lo \in Key, hi \in Key, lo <= hi, <1>5, <3>1, LookedIs
  <2>2. QED BY <1>2, <2>1, Zenon
<1>7. RunsOK(reqs, K, ks, Len(ks), MaxKey)
  <2>1. RunsOK(Runs(K, ks), K, ks, Len(ks), MaxKey)
    BY <1>6, Constants, RunsAre
  <2>2. QED BY <1>2, <2>1, Zenon
<1>8. /\ reqs \in Seq((1 .. MaxKey) \X (1 .. MaxKey)) /\ \A j \in 1 .. Len(reqs) : reqs[j][1] <= reqs[j][2]
      /\ \A a \in 1 .. Len(ks) : ks[a] \in K => \E j \in 1 .. Len(reqs) : ks[a] \in reqs[j][1] .. reqs[j][2]
  BY <1>7, Zenon DEF RunsOK
<1>9. PICK N, more : N = Len(reqs) /\ more = [j \in 1 .. N |-> LineReq(w, reqs[j])]
  OBVIOUS
<1>10. N \in Nat /\ DOMAIN reqs = 1 .. N /\ \A j \in 1 .. N : reqs[j][1] \in Key /\ reqs[j][2] \in Key
  BY <1>8, <1>9 DEF Key
<1>11. ASSUME NEW j \in 1 .. N
       PROVE  /\ more[j] = [op |-> "LINEREQ", obj |-> w.object, oid |-> w.oid, lo |-> reqs[j][1], hi |-> reqs[j][2]]
              /\ more[j] \in Request(n)
  <2>1. more[j] = [op |-> "LINEREQ", obj |-> w.object, oid |-> w.oid, lo |-> reqs[j][1], hi |-> reqs[j][2]]
    BY <1>9 DEF LineReq
  <2>2. PICK a, b : a = reqs[j][1] /\ b = reqs[j][2]
    OBVIOUS
  <2>3. a <= b /\ a \in Key /\ b \in Key
    BY <1>8, <1>9, <1>10, <2>2, Zenon
  <2>4. more[j] \in Request(n)
    BY <1>3, <2>1, <2>2, <2>3 DEF Request
  <2>5. QED BY <2>1, <2>4, Zenon
<1>12. more \in Seq(Request(n) \cup Closing(n)) /\ Len(more) = N
  <2>1. PICK S : S = Request(n) \cup Closing(n)
    OBVIOUS
  <2>2. \A j \in 1 .. N : more[j] \in S
    BY <1>11, <2>1
  <2>3. more \in Seq(S) /\ Len(more) = N
    BY <1>9, <1>10, <2>2
  <2>4. QED BY <2>1, <2>3
<1>13. Telling(more, w.object, w.oid, K, FALSE)
  <2>1. \A j \in 1 .. N : more[j].op = "LINEREQ" /\ more[j].obj = w.object /\ more[j].oid = w.oid
                          /\ more[j].lo = reqs[j][1] /\ more[j].hi = reqs[j][2]
    <3>1. ASSUME NEW j \in 1 .. N
          PROVE  more[j].op = "LINEREQ" /\ more[j].obj = w.object /\ more[j].oid = w.oid
                 /\ more[j].lo = reqs[j][1] /\ more[j].hi = reqs[j][2]
      <4>1. PICK a, b, c, d, m : a = w.object /\ b = w.oid /\ c = reqs[j][1] /\ d = reqs[j][2] /\ m = more[j]
        OBVIOUS
      <4>2. m = [op |-> "LINEREQ", obj |-> a, oid |-> b, lo |-> c, hi |-> d]
        BY <1>11, <4>1, Zenon
      <4>3. m.op = "LINEREQ" /\ m.obj = a /\ m.oid = b /\ m.lo = c /\ m.hi = d
        BY ONLY <4>2
      <4>4. QED BY <4>1, <4>3, Zenon
    <3>2. QED BY <3>1, Zenon
  <2>2. ASSUME NEW k \in K PROVE \E j \in 1 .. N : more[j].op = "LINEREQ" /\ k \in more[j].lo .. more[j].hi
    <3>1. PICK a \in 1 .. Len(ks) : ks[a] = k
      BY <1>6, Zenon
    <3>2. PICK j \in 1 .. N : k \in reqs[j][1] .. reqs[j][2]
      BY <1>8, <1>9, <3>1, Zenon
    <3>3. QED BY <2>1, <3>2, Zenon
  <2>3. \A j \in 1 .. N : more[j].op # "USERCLOSE"
    BY <2>1
  <2>4. QED BY <1>12, <2>1, <2>2, <2>3, Zenon DEF Telling
<1>14. Wanted(y, w, K, n)
  <2>1. CASE w.max = 0
    BY ONLY <1>1, <1>2, <1>3, <2>1, AskedLines
  <2>2. CASE w.max # 0
    <3>1. hi <= w.max
      BY <1>5, <2>2
    <3>2. K = Missing(w, lo, hi) /\ y = RequestLines(w, lo, hi)
      BY <1>2
    <3>3. QED BY ONLY <1>1, <1>3, <2>2, lo \in Key, hi \in Key, lo <= hi, <3>1, <3>2, NearLines
  <2>3. QED BY <2>1, <2>2, Zenon
<1>15. v = [wins |-> [u.wins EXCEPT ![i] = y], LINEobj |-> u.LINEobj, out |-> u.out \o more, prev |-> u.prev]
  <2>1. v = [u EXCEPT !.wins[i] = y, !.out = @ \o [j \in DOMAIN reqs |-> LineReq(w, reqs[j])]]
    BY <1>2, Zenon DEF Painted
  <2>2. v = [u EXCEPT !.wins[i] = y, !.out = @ \o more]
    BY <1>9, <1>10, <2>1, Zenon
  <2>3. PICK wins, a, b, c, out, r : /\ wins = u.wins /\ a = u.LINEobj /\ b = u.out /\ c = u.prev
                                     /\ out = b \o more /\ r = [wins EXCEPT ![i] = y]
    OBVIOUS
  <2>4. u = [wins |-> wins, LINEobj |-> a, out |-> b, prev |-> c]
    BY <1>4, <2>3, Zenon
  <2>5. v = [u EXCEPT !.wins = r, !.out = out]
    <3>1. [u EXCEPT !.wins[i] = y] = [u EXCEPT !.wins = r]
      BY <2>3
    <3>2. v = [[u EXCEPT !.wins[i] = y] EXCEPT !.out = @ \o more]
      BY <2>2
    <3>3. [u EXCEPT !.wins = r].out = b
      BY <2>4
    <3>4. v = [[u EXCEPT !.wins = r] EXCEPT !.out = out]
      BY <2>3, <3>1, <3>2, <3>3
    <3>5. QED BY <3>4
  <2>6. v = [wins |-> r, LINEobj |-> a, out |-> out, prev |-> c]
    BY <2>4, <2>5
  <2>7. QED BY <2>3, <2>6, Zenon
<1>16. /\ y \in Window(n) /\ WinOK(y) /\ Keeps(y, w, y.lines) /\ Reals(y) \subseteq Reals(w)
       /\ w.max = 0 => Tildes(y) \subseteq Tildes(w)
       /\ AskedOf(y) \subseteq AskedOf(w) \cup K
  BY <1>14, Zenon DEF Wanted
<1>17. w = u.wins[i]
  BY <1>2
<1>18. more \in Seq(Request(n) \cup Closing(n))
  BY <1>12
<1>19. TakesLines(pads, ids, n, h, v, u, w.object, y)
  BY ONLY Inv(pads, ids, n, h, u), i \in 1 .. Len(u.wins), <1>13, <1>15, <1>16, <1>17, <1>18, TakeLines
<1>20. QED BY <1>2, <1>19, Zenon DEF TakesLines

-----------------------------------------------------------------------------
(* What the terminal reads. *)

\* What will be dropped may be sent.
LEMMA DroppedLater ==
  ASSUME NEW S, NEW out \in Seq(S), NEW e \in S, NEW new, new = Append(out, e),
         NEW pads, NEW ids, e.oid # ids[e.obj], NEW h, NEW D, Agree(pads, ids, h, out, D)
  PROVE  Agree(pads, ids, h, new, D)
<1>1. /\ PrevOK(h, D) /\ OutOK(pads, ids, out, D) /\ (~ Reuses => AskedOK(ids, out, D))
      /\ \A o \in Obj : PadOK(pads[o], Win(D, o), o, ids, out)
  BY Zenon DEF Agree
<1>2. PICK N : N = Len(out)
  OBVIOUS
<1>3. /\ N \in Nat /\ Len(new) = N + 1 /\ new[N + 1] = e
      /\ \A i \in 1 .. N : new[i] = out[i]
  BY <1>2
<1>4. /\ \A i \in 1 .. N : i \in 1 .. Len(new)
      /\ \A i \in 1 .. Len(new) : i \in 1 .. N \/ i = N + 1
  BY <1>3
<1>5. \A o : /\ Pending(o, ids, out) => Pending(o, ids, new)
             /\ \A k : Requested(o, k, ids, out) => Requested(o, k, ids, new)
  <2>1. \A i \in 1 .. Len(out) : i \in 1 .. Len(new) /\ new[i] = out[i]
    BY <1>2, <1>3, <1>4, Zenon
  <2>2. QED BY <2>1, StillThere, Zenon
<1>6. \A o \in Obj : PadOK(pads[o], Win(D, o), o, ids, new)
  BY <1>1, <1>5, Zenon DEF PadOK
<1>7. ASSUME NEW i \in 1 .. Len(new), new[i].oid = ids[new[i].obj]
      PROVE  /\ pads[new[i].obj] # NoPad
             /\ new[i].op = "USERCLOSE" =>
                  /\ Win(D, new[i].obj) = NoWin
                  /\ \A j \in i + 1 .. Len(new) : ~ (new[j].obj = new[i].obj /\ new[j].oid = new[i].oid)
  <2>1. i \in 1 .. N /\ new[i] = out[i]
    BY <1>3, <1>4, <1>7, Zenon
  <2>2. /\ pads[out[i].obj] # NoPad
        /\ out[i].op = "USERCLOSE" =>
             /\ Win(D, out[i].obj) = NoWin
             /\ \A j \in i + 1 .. N : ~ (out[j].obj = out[i].obj /\ out[j].oid = out[i].oid)
    BY <1>1, <1>2, <1>7, <2>1, Zenon DEF OutOK
  <2>3. ASSUME new[i].op = "USERCLOSE", NEW j \in i + 1 .. Len(new), new[j].obj = new[i].obj, new[j].oid = new[i].oid
        PROVE  FALSE
    <3>1. j = N + 1 \/ j \in i + 1 .. N
      BY <1>3, <2>1
    <3>2. CASE j = N + 1
      BY <1>3, <1>7, <2>3, <3>2, Zenon
    <3>3. CASE j \in i + 1 .. N
      <4>1. j \in 1 .. N
        BY <1>3, <2>1, <3>3
      <4>2. new[j] = out[j]
        BY <1>3, <4>1, Zenon
      <4>3. QED BY <2>1, <2>2, <2>3, <3>3, <4>2, Zenon
    <3>4. QED BY <3>1, <3>2, <3>3, Zenon
  <2>4. QED BY <2>1, <2>2, <2>3, Zenon
<1>8. OutOK(pads, ids, new, D)
  BY <1>7, Zenon DEF OutOK
<1>9. ~ Reuses => AskedOK(ids, new, D)
  BY <1>1, <1>5, Zenon DEF AskedOK
<1>10. QED BY <1>1, <1>6, <1>8, <1>9, Zenon DEF Agree

LEMMA ReceiveKeeps ==
  ASSUME NEW pads, NEW ids, NEW n, NEW h, NEW u, Inv(pads, ids, n, h, u), h.toTerm # <<>>,
         NEW v, v = PadOp(u, Head(h.toTerm)), NEW g, g = [h EXCEPT !.toTerm = Tail(@)]
  PROVE  Inv(pads, ids, n, g, v)
<1>1. PICK s, z, m, D : s = h.toTerm /\ z = Tail(s) /\ m = Head(s) /\ D = DrainedOf(u, s)
  OBVIOUS
<1>2. /\ n \in Nat /\ TermOK(u, n) /\ s \in Seq(Message(n)) /\ PipeOK(u, s, n, ids) /\ Agree(pads, ids, h, u.out, D)
      /\ h = [prev |-> h.prev, prevpad |-> h.prevpad, toTerm |-> s]
      /\ h.prev \in Prev /\ h.prevpad \in Obj \cup {Unset, Freed}
      /\ ids \in [Obj -> 1 .. n]
  BY <1>1, InvIs, Zenon
<1>3. /\ m \in Message(n) /\ z \in Seq(Message(n)) /\ Fits(u, m, ids) /\ Step(v, u, m, n)
      /\ PipeOK(v, z, n, ids) /\ DrainedOf(v, z) = D
  <2>1. v = PadOp(u, m) /\ s # <<>>
    BY <1>1, Zenon
  <2>2. /\ m \in Message(n) /\ z \in Seq(Message(n)) /\ Fits(u, m, ids) /\ Step(v, u, m, n)
        /\ PipeOK(v, z, n, ids) /\ DrainedOf(v, z) = DrainedOf(u, s)
    <3>1. n \in Nat /\ s \in Seq(Message(n)) /\ PipeOK(u, s, n, ids)
      BY <1>2, Zenon
    <3>2. m = Head(s) /\ z = Tail(s)
      BY <1>1, Zenon
    <3>3. /\ m \in Message(n) /\ z \in Seq(Message(n)) /\ Fits(u, m, ids) /\ Step(v, u, m, n)
          /\ PipeOK(v, z, n, ids) /\ SameEnd(v, z, u, s)
      BY ONLY <2>1, <3>1, <3>2, ReadingOne
    <3>4. QED BY <3>3, Zenon DEF SameEnd
  <2>3. QED BY <1>1, <2>2, Zenon
<1>4. g = [prev |-> h.prev, prevpad |-> h.prevpad, toTerm |-> z]
  <2>1. PICK a, b : a = h.prev /\ b = h.prevpad
    OBVIOUS
  <2>2. h = [prev |-> a, prevpad |-> b, toTerm |-> s]
    BY <1>2, <2>1, Zenon
  <2>3. g = [h EXCEPT !.toTerm = z]
    BY <1>1, Zenon
  <2>4. g = [prev |-> a, prevpad |-> b, toTerm |-> z]
    BY ONLY <2>2, <2>3
  <2>5. QED BY <2>1, <2>4, Zenon
<1>5. g.prev = h.prev /\ g.prevpad = h.prevpad /\ g.toTerm = z /\ g \in Library(n)
  <2>1. PICK a, b : a = h.prev /\ b = h.prevpad
    OBVIOUS
  <2>2. g = [prev |-> a, prevpad |-> b, toTerm |-> z] /\ a \in Prev /\ b \in Obj \cup {Unset, Freed}
    BY <1>2, <1>4, <2>1, Zenon
  <2>3. g.prev = a /\ g.prevpad = b /\ g.toTerm = z
    BY <2>2
  <2>4. g \in Library(n)
    BY ONLY <1>3, <2>2 DEF Library
  <2>5. QED BY <2>1, <2>3, <2>4, Zenon
<1>6. TypesOK(pads, ids, n, g)
  <2>1. TypesOK(pads, ids, n, h)
    BY Zenon DEF Inv
  <2>2. QED BY <1>5, <2>1, Zenon DEF TypesOK
<1>7. Agree(pads, ids, h, v.out, D)
  <2>1. v.out = u.out \/ (m.op = "DELETE" /\ Win(u, m.obj) # NoWin /\ v.out = Append(u.out, ClosingOf(Win(u, m.obj))))
    BY <1>3, Zenon DEF Step, Tells
  <2>2. CASE v.out = u.out
    BY <1>2, <2>2, Zenon
  <2>3. CASE m.op = "DELETE" /\ Win(u, m.obj) # NoWin /\ v.out = Append(u.out, ClosingOf(Win(u, m.obj)))
    <3>1. PICK w, e : w = Win(u, m.obj) /\ e = ClosingOf(w)
      OBVIOUS
    <3>2. w.oid # ids[m.obj]
      <4>1. m.op # "NEXTLINE"
        BY <2>3
      <4>2. FitsWin(w, m, ids)
        BY <1>3, <3>1, <4>1, Zenon DEF Fits, Target
      <4>3. QED BY <2>3, <4>2, Zenon DEF FitsWin
    <3>3. w \in Window(n) /\ w.object = m.obj
      <4>1. WinsOK(u.wins, n)
        BY <1>2, TerminalIs, Zenon
      <4>2. PICK o : o = m.obj
        OBVIOUS
      <4>3. \/ ObjToPad(u, o) = 0 /\ ~ HasWin(u, o) /\ Win(u, o) = NoWin
            \/ Win(u, o) # NoWin /\ Win(u, o) \in Window(n) /\ WinOK(Win(u, o)) /\ Win(u, o).object = o
        <5>1. n \in Nat
          BY <1>2, Zenon
        <5>2. QED BY ONLY <4>1, <5>1, WinIs
      <4>4. QED BY <2>3, <3>1, <4>2, <4>3, Zenon
    <3>4. w.object \in Obj /\ w.oid \in 1 .. n
      BY <1>2, <3>3, WindowIs, Zenon
    <3>5. e = [op |-> "USERCLOSE", obj |-> w.object, oid |-> w.oid]
      BY <3>1, Zenon DEF ClosingOf
    <3>6. e.oid = w.oid /\ e.obj = m.obj
      BY <3>3, <3>5
    <3>7. e \in Request(n) \cup Closing(n)
      BY <3>4, <3>5 DEF Closing
    <3>8. u.out \in Seq(Request(n) \cup Closing(n)) /\ v.out = Append(u.out, e)
      BY <1>2, <2>3, <3>1, TerminalIs, Zenon
    <3>9. e.oid # ids[e.obj]
      BY <3>2, <3>6, Zenon
    <3>10. QED BY <1>2, <3>7, <3>8, <3>9, DroppedLater, Zenon
  <2>4. QED BY <2>1, <2>2, <2>3, Zenon
<1>8. Agree(pads, ids, g, v.out, D)
  <2>1. PrevOK(g, D)
    <3>1. PrevOK(h, D)
      BY <1>2, Zenon DEF Agree
    <3>2. QED BY <1>5, <3>1, Zenon DEF PrevOK
  <2>2. QED BY <1>7, <2>1, Zenon DEF Agree
<1>9. PipeOK(v, g.toTerm, n, ids) /\ D = DrainedOf(v, g.toTerm)
  BY <1>3, <1>5, Zenon
<1>10. QED BY <1>6, <1>8, <1>9, Zenon DEF Inv

-----------------------------------------------------------------------------
(* What the library sends. *)

\* All but the requests of lines; D is the terminal that has read all.
Base(pads, ids, n, h, u, out, D) ==
  /\ TypesOK(pads, ids, n, h)
  /\ PipeOK(u, h.toTerm, n, ids) /\ Ends(u, h.toTerm, D) /\ out \in Seq(Request(n) \cup Closing(n))
  /\ PrevOK(h, D) /\ OutOK(pads, ids, out, D)
  /\ \A o \in Obj : PadOK(pads[o], Win(D, o), o, ids, out)

LEMMA BaseOf ==
  ASSUME NEW pads, NEW ids, NEW n, NEW h, NEW u, Inv(pads, ids, n, h, u)
  PROVE  \E D : Base(pads, ids, n, h, u, u.out, D) /\ (~ Reuses => AskedOK(ids, u.out, D))
<1>1. PICK D : D = DrainedOf(u, h.toTerm)
  OBVIOUS
<1>2. TypesOK(pads, ids, n, h) /\ PipeOK(u, h.toTerm, n, ids) /\ Agree(pads, ids, h, u.out, D)
  BY <1>1, Zenon DEF Inv
<1>3. Base(pads, ids, n, h, u, u.out, D) /\ (~ Reuses => AskedOK(ids, u.out, D))
  <2>1. n \in Nat /\ TermOK(u, n)
    BY InvIs, Zenon
  <2>2. u.out \in Seq(Request(n) \cup Closing(n))
    BY <2>1, TerminalIs, Zenon
  <2>3. QED BY <1>1, <1>2, <2>2, Zenon DEF Base, Agree, Ends
<1>4. QED BY <1>3, Zenon

LEMMA InvOf ==
  ASSUME NEW pads, NEW ids, NEW n, NEW h, NEW u, NEW D, Base(pads, ids, n, h, u, u.out, D),
         ~ Reuses => AskedOK(ids, u.out, D)
  PROVE  Inv(pads, ids, n, h, u)
<1>1. /\ TypesOK(pads, ids, n, h) /\ PipeOK(u, h.toTerm, n, ids) /\ D = DrainedOf(u, h.toTerm)
      /\ PrevOK(h, D) /\ OutOK(pads, ids, u.out, D)
      /\ \A o \in Obj : PadOK(pads[o], Win(D, o), o, ids, u.out)
  BY Zenon DEF Base, Ends
<1>2. Agree(pads, ids, h, u.out, D)
  BY <1>1, Zenon DEF Agree
<1>3. Agree(pads, ids, h, u.out, DrainedOf(u, h.toTerm))
  BY <1>1, <1>2, Zenon
<1>4. QED BY <1>1, <1>3, Zenon DEF Inv

LEMMA TypesAre ==
  ASSUME NEW pads, NEW ids, NEW n, NEW h, TypesOK(pads, ids, n, h)
  PROVE  /\ n \in Nat /\ n <= MaxUniq /\ Cardinality(Obj) <= n /\ ids \in [Obj -> 1 .. n] /\ pads \in [Obj -> Pads]
         /\ h = [prev |-> h.prev, prevpad |-> h.prevpad, toTerm |-> h.toTerm]
         /\ h.prev \in Prev /\ h.prevpad \in Obj \cup {Unset, Freed} /\ h.toTerm \in Seq(Message(n))
<1>1. /\ n \in Cardinality(Obj) .. MaxUniq /\ ids \in [Obj -> 1 .. n] /\ pads \in [Obj -> Pads]
      /\ h \in Library(n)
  BY Zenon DEF TypesOK
<1>2. n \in Nat /\ n <= MaxUniq /\ Cardinality(Obj) <= n
  <2>1. Cardinality(Obj) \in Nat /\ MaxUniq \in Nat
    BY PadAssumption, FS_CardinalityType
  <2>2. QED BY <1>1, <2>1
<1>3. /\ h = [prev |-> h.prev, prevpad |-> h.prevpad, toTerm |-> h.toTerm]
      /\ h.prev \in Prev /\ h.prevpad \in Obj \cup {Unset, Freed} /\ h.toTerm \in Seq(Message(n))
  BY <1>1 DEF Library
<1>4. QED BY <1>1, <1>2, <1>3, Zenon

LEMMA BaseIs ==
  ASSUME NEW pads, NEW ids, NEW n, NEW h, NEW u, NEW out, NEW D, Base(pads, ids, n, h, u, out, D)
  PROVE  /\ n \in Nat /\ ids \in [Obj -> 1 .. n] /\ pads \in [Obj -> Pads] /\ TypesOK(pads, ids, n, h)
         /\ h.toTerm \in Seq(Message(n)) /\ PipeOK(u, h.toTerm, n, ids) /\ TermOK(u, n) /\ TermOK(D, n)
         /\ Ends(u, h.toTerm, D) /\ out \in Seq(Request(n) \cup Closing(n))
         /\ PrevOK(h, D) /\ OutOK(pads, ids, out, D) /\ \A o \in Obj : PadOK(pads[o], Win(D, o), o, ids, out)
<1>1. /\ TypesOK(pads, ids, n, h) /\ PipeOK(u, h.toTerm, n, ids) /\ Ends(u, h.toTerm, D)
      /\ out \in Seq(Request(n) \cup Closing(n))
      /\ PrevOK(h, D) /\ OutOK(pads, ids, out, D)
      /\ \A o \in Obj : PadOK(pads[o], Win(D, o), o, ids, out)
  BY Zenon DEF Base
<1>2. n \in Nat /\ ids \in [Obj -> 1 .. n] /\ pads \in [Obj -> Pads] /\ h.toTerm \in Seq(Message(n))
  BY <1>1, TypesAre, Zenon
<1>3. TermOK(u, n) /\ TermOK(DrainedOf(u, h.toTerm), n)
  BY <1>1, <1>2, PipeEnds, Zenon
<1>4. TermOK(D, n)
  BY <1>1, <1>3, Zenon DEF Ends
<1>5. QED BY <1>1, <1>2, <1>3, <1>4, Zenon

\* A message that is not the first nor the last to a window leaves the
\* windows, and no line is asked for by it.
Ordinary(E, D) ==
  \A p : /\ Win(D, p) = NoWin => Win(E, p) = NoWin
         /\ Win(D, p) # NoWin => Win(E, p) # NoWin /\ SameWin(Win(E, p), Win(D, p))
         /\ AskedOf(Win(E, p)) \subseteq AskedOf(Win(D, p))

LEMMA TargetBecomes ==
  ASSUME NEW n \in Nat, NEW D, TermOK(D, n), NEW m \in Message(n), NEW ids, Fits(D, m, ids),
         m.op \notin {"PADDEF", "DELETE"}, NEW E, Step(E, D, m, n), NEW q, q = Target(D, m)
  PROVE  /\ Win(D, q) = NoWin => Win(E, q) = NoWin
         /\ Win(D, q) # NoWin => /\ Win(E, q) # NoWin /\ SameWin(Win(E, q), Win(D, q))
                                 /\ Becoming(Win(E, q), Win(D, q), m, LineOf(D, m))
         /\ \A p : p # q => Win(E, p) = Win(D, p)
<1>1. PICK w, v, l : w = Win(D, q) /\ v = Win(E, q) /\ l = LineOf(D, m)
  OBVIOUS
<1>2. Effect(v, w, m, l) /\ \A p : p # q => Win(E, p) = Win(D, p)
  BY <1>1, Zenon DEF Step
<1>3. FitsWin(w, m, ids)
  BY <1>1, Zenon DEF Fits
<1>4. m.op \in {"LINE", "NEXTLINE"} => l \in RealLine
  BY <1>1, LineOfIs, Zenon
<1>5. CASE w = NoWin
  <2>1. m.op # "PADDEF"
    OBVIOUS
  <2>2. v = NoWin
    BY <1>2, <1>5, <2>1, Zenon DEF Effect
  <2>3. QED BY <1>1, <1>2, <1>5, <2>2, Zenon
<1>6. CASE w # NoWin
  <2>1. w \in Window(n) /\ WinOK(w)
    <3>1. AWin(w, n)
      BY <1>1, WinOfTerminal, Zenon
    <3>2. QED BY <1>6, <3>1, Zenon DEF AWin
  <2>2. v \in Window(n) /\ WinOK(v) /\ SameWin(v, w)
    BY <1>2, <1>3, <1>4, <2>1, EffectIs, Zenon
  <2>3. Becoming(v, w, m, l)
    BY <1>2, <1>3, <1>4, <2>1, Becomings, Zenon
  <2>4. v # NoWin
    BY <2>2, NoWinIs, Zenon
  <2>5. QED BY <1>1, <1>2, <1>6, <2>2, <2>3, <2>4, Zenon
<1>7. QED BY <1>5, <1>6, Zenon

LEMMA OrdinaryIs ==
  ASSUME NEW n \in Nat, NEW D, TermOK(D, n), NEW m \in Message(n), NEW ids, Fits(D, m, ids),
         m.op \notin {"PADDEF", "DELETE"}, NEW E, Step(E, D, m, n)
  PROVE  Ordinary(E, D)
<1>1. PICK q : q = Target(D, m)
  OBVIOUS
<1>2. /\ Win(D, q) = NoWin => Win(E, q) = NoWin
      /\ Win(D, q) # NoWin => /\ Win(E, q) # NoWin /\ SameWin(Win(E, q), Win(D, q))
                              /\ Becoming(Win(E, q), Win(D, q), m, LineOf(D, m))
      /\ \A p : p # q => Win(E, p) = Win(D, p)
  BY ONLY n \in Nat, TermOK(D, n), m \in Message(n), Fits(D, m, ids), m.op \notin {"PADDEF", "DELETE"},
          Step(E, D, m, n), <1>1, TargetBecomes
<1>3. ASSUME NEW v, NEW w, Becoming(v, w, m, LineOf(D, m)) PROVE AskedOf(v) \subseteq AskedOf(w)
  <2>1. CASE m.op = "MAKEGAP"
    <3>1. Spread(v, w, m.key)
      BY <1>3, <2>1, Zenon DEF Becoming
    <3>2. AskedOf(v) = {}
      BY <3>1, Zenon DEF Spread
    <3>3. QED BY <3>2
  <2>2. CASE m.op # "MAKEGAP"
    <3>1. PICK K, A, F : Change(v, w, K, A, F)
      BY <1>3, <2>2, Zenon DEF Becoming
    <3>2. AskedOf(v) = AskedOf(w) \ K
      BY <3>1, Zenon DEF Change
    <3>3. QED BY <3>2
  <2>3. QED BY <2>1, <2>2, Zenon
<1>4. ASSUME NEW p
      PROVE  /\ Win(D, p) = NoWin => Win(E, p) = NoWin
             /\ Win(D, p) # NoWin => Win(E, p) # NoWin /\ SameWin(Win(E, p), Win(D, p))
             /\ AskedOf(Win(E, p)) \subseteq AskedOf(Win(D, p))
  <2>1. CASE p # q
    <3>1. Win(E, p) = Win(D, p)
      BY <1>2, <2>1, Zenon
    <3>2. QED BY <3>1, Zenon DEF SameWin
  <2>2. CASE p = q /\ Win(D, q) = NoWin
    <3>1. Win(E, p) = Win(D, p)
      BY <1>2, <2>2, Zenon
    <3>2. QED BY <3>1, Zenon DEF SameWin
  <2>3. CASE p = q /\ Win(D, q) # NoWin
    BY <1>2, <1>3, <2>3, Zenon
  <2>4. QED BY <2>1, <2>2, <2>3, Zenon
<1>5. QED BY <1>4, Zenon DEF Ordinary

\* The Pads that are there stay, of their kind.
SamePads(new, pads) ==
  \A p \in Obj : /\ new[p] = NoPad <=> pads[p] = NoPad
                 /\ new[p].kind = pads[p].kind
                 /\ pads[p] # NoPad /\ IsKind(pads[p], p) => IsKind(new[p], p)

\* Each window that was the one its Pad was about still is.
Showing(E, new, D, pads) ==
  \A p \in Obj : Win(D, p) # NoWin /\ Win(E, p) # NoWin /\ Shows(Win(D, p), pads[p]) => Shows(Win(E, p), new[p])

LEMMA HostSends ==
  ASSUME NEW pads, NEW ids, NEW n, NEW h, NEW u, NEW out, NEW D, Base(pads, ids, n, h, u, out, D),
         NEW m \in Message(n), m.op \notin {"PADDEF", "DELETE"}, Fits(D, m, ids), NEW E, E = PadOp(D, m),
         NEW g, NEW new, TypesOK(new, ids, n, g), g.toTerm = Append(h.toTerm, m), PrevOK(g, E),
         SamePads(new, pads), Showing(E, new, D, pads)
  PROVE  Base(new, ids, n, g, u, out, E) /\ Ordinary(E, D)
<1>1. /\ n \in Nat /\ ids \in [Obj -> 1 .. n] /\ pads \in [Obj -> Pads] /\ TypesOK(pads, ids, n, h)
      /\ h.toTerm \in Seq(Message(n)) /\ PipeOK(u, h.toTerm, n, ids) /\ TermOK(u, n) /\ TermOK(D, n)
      /\ Ends(u, h.toTerm, D) /\ out \in Seq(Request(n) \cup Closing(n))
      /\ PrevOK(h, D) /\ OutOK(pads, ids, out, D) /\ \A o \in Obj : PadOK(pads[o], Win(D, o), o, ids, out)
  BY BaseIs, Zenon
<1>2. PICK s, z : s = h.toTerm /\ z = g.toTerm
  OBVIOUS
<1>3. /\ s \in Seq(Message(n)) /\ PipeOK(u, s, n, ids) /\ z = Append(s, m) /\ D = DrainedOf(u, s)
  BY <1>1, <1>2, Zenon DEF Ends
<1>4. E = PadOp(D, m)
  OBVIOUS
<1>5. PipeOK(u, z, n, ids) /\ Ends(u, z, E) /\ Step(E, D, m, n)
  BY ONLY <1>1, <1>3, <1>4, m \in Message(n), Fits(D, m, ids), Sending
<1>6. Ordinary(E, D)
  BY <1>1, <1>5, OrdinaryIs, Zenon
<1>7. ASSUME NEW p \in Obj PROVE PadOK(new[p], Win(E, p), p, ids, out)
  <2>1. PadOK(pads[p], Win(D, p), p, ids, out)
    BY <1>1
  <2>2. /\ Win(D, p) = NoWin => Win(E, p) = NoWin
        /\ Win(D, p) # NoWin => Win(E, p) # NoWin /\ SameWin(Win(E, p), Win(D, p))
    BY <1>6, Zenon DEF Ordinary
  <2>3. /\ new[p] = NoPad <=> pads[p] = NoPad
        /\ new[p].kind = pads[p].kind
        /\ pads[p] # NoPad /\ IsKind(pads[p], p) => IsKind(new[p], p)
    BY Zenon DEF SamePads
  <2>4. CASE pads[p] = NoPad
    <3>1. new[p] = NoPad /\ Win(E, p) = NoWin
      BY <2>1, <2>2, <2>3, <2>4, Zenon DEF PadOK
    <3>2. QED BY <3>1, Zenon DEF PadOK
  <2>5. CASE pads[p] # NoPad /\ Win(D, p) = NoWin
    <3>1. IsKind(new[p], p) /\ new[p] # NoPad /\ Win(E, p) = NoWin
          /\ Pending(p, ids, out) /\ "USERCLOSE" \in new[p].kind.attributes
      BY <2>1, <2>2, <2>3, <2>5, Zenon DEF PadOK
    <3>2. QED BY <3>1, Zenon DEF PadOK
  <2>6. CASE pads[p] # NoPad /\ Win(D, p) # NoWin
    <3>1. IsKind(new[p], p) /\ new[p] # NoPad /\ Win(E, p) # NoWin /\ Shows(Win(D, p), pads[p]) /\ Win(E, p).oid = ids[p]
      BY <2>1, <2>2, <2>3, <2>6, Zenon DEF PadOK, SameWin
    <3>2. Shows(Win(E, p), new[p])
      BY <2>6, <3>1, Zenon DEF Showing
    <3>3. QED BY <3>1, <3>2, Zenon DEF PadOK
  <2>7. QED BY <2>4, <2>5, <2>6, Zenon
<1>8. OutOK(new, ids, out, E)
  <2>1. ASSUME NEW i \in 1 .. Len(out), out[i].oid = ids[out[i].obj]
        PROVE  /\ new[out[i].obj] # NoPad
               /\ out[i].op = "USERCLOSE" =>
                    /\ Win(E, out[i].obj) = NoWin
                    /\ \A j \in i + 1 .. Len(out) : ~ (out[j].obj = out[i].obj /\ out[j].oid = out[i].oid)
    <3>1. PICK p : p = out[i].obj
      OBVIOUS
    <3>2. /\ pads[p] # NoPad
          /\ out[i].op = "USERCLOSE" =>
               /\ Win(D, p) = NoWin
               /\ \A j \in i + 1 .. Len(out) : ~ (out[j].obj = out[i].obj /\ out[j].oid = out[i].oid)
      BY <1>1, <2>1, <3>1, Zenon DEF OutOK
    <3>3. new[p] # NoPad
      <4>1. out[i] \in Request(n) \cup Closing(n)
        BY <1>1
      <4>2. p \in Obj
        BY <3>1, <4>1 DEF Request, Closing
      <4>3. QED BY <3>2, <4>2, Zenon DEF SamePads
    <3>4. Win(D, p) = NoWin => Win(E, p) = NoWin
      BY <1>6, Zenon DEF Ordinary
    <3>5. QED BY <3>1, <3>2, <3>3, <3>4, Zenon
  <2>2. QED BY <2>1, Zenon DEF OutOK
<1>9. PipeOK(u, g.toTerm, n, ids) /\ Ends(u, g.toTerm, E)
  BY <1>2, <1>5, Zenon
<1>10. QED BY <1>1, <1>6, <1>7, <1>8, <1>9, Zenon DEF Base

\* A Pad that is there, and its window.
LEMMA PadIs ==
  ASSUME NEW n \in Nat, NEW o \in Obj, NEW ids, NEW out, NEW p \in Pads, p # NoPad,
         NEW w, AWin(w, n), PadOK(p, w, o, ids, out)
  PROVE  /\ p = [kind |-> p.kind, lines |-> p.lines, made |-> p.made]
         /\ p.kind \in AllKinds /\ p.lines \in 0 .. MaxKey /\ p.lines \in Nat /\ p.made \in SUBSET Key
         /\ IsKind(p, o) /\ p.kind \in Kinds[o] /\ p.kind.use \in {"lines", "create", "gap"}
         /\ w # NoWin => w.oid = ids[o] /\ Shows(w, p) /\ w \in Window(n) /\ WinOK(w)
         /\ p.kind.use # "lines" => w # NoWin /\ p.lines = 0 /\ "USERCLOSE" \notin p.kind.attributes
         /\ p.kind.use = "lines" => p.lines # 0
<1>1. p = [kind |-> p.kind, lines |-> p.lines, made |-> p.made] /\ p.lines \in 0 .. MaxKey /\ p.made \in SUBSET Key
  BY DEF Pads
<1>2. p.lines \in Nat
  BY <1>1, Constants
<1>3. IsKind(p, o)
  BY Zenon DEF PadOK
<1>4. p.kind \in Kinds[o] /\ (p.kind.use = "lines" <=> p.lines > 0)
  BY <1>3, Zenon DEF IsKind
<1>5. /\ p.kind.use \in {"lines", "create", "gap"} /\ p.kind \in AllKinds
      /\ p.kind.use # "lines" => "USERCLOSE" \notin p.kind.attributes
  BY <1>4, KindIs, Zenon
<1>6. w # NoWin => w.oid = ids[o] /\ Shows(w, p) /\ w \in Window(n) /\ WinOK(w)
  BY Zenon DEF PadOK, AWin
<1>7. w = NoWin => "USERCLOSE" \in p.kind.attributes
  BY Zenon DEF PadOK
<1>8. p.kind.use # "lines" => w # NoWin /\ p.lines = 0 /\ "USERCLOSE" \notin p.kind.attributes
  BY <1>2, <1>4, <1>5, <1>7
<1>9. p.kind.use = "lines" => p.lines # 0
  BY <1>2, <1>4
<1>10. QED BY <1>1, <1>2, <1>3, <1>4, <1>5, <1>6, <1>8, <1>9, Zenon

LEMMA SentIs ==
  ASSUME NEW pads, NEW ids, NEW n, NEW h, TypesOK(pads, ids, n, h), NEW m \in Message(n), NEW g, g = Sent(h, m),
         NEW new \in [Obj -> Pads]
  PROVE  TypesOK(new, ids, n, g) /\ g.prev = h.prev /\ g.prevpad = h.prevpad /\ g.toTerm = Append(h.toTerm, m)
<1>1. PICK a, b, s, z : a = h.prev /\ b = h.prevpad /\ s = h.toTerm /\ z = Append(s, m)
  OBVIOUS
<1>2. h = [prev |-> a, prevpad |-> b, toTerm |-> s] /\ a \in Prev /\ b \in Obj \cup {Unset, Freed} /\ s \in Seq(Message(n))
  <2>1. /\ h = [prev |-> h.prev, prevpad |-> h.prevpad, toTerm |-> h.toTerm]
        /\ h.prev \in Prev /\ h.prevpad \in Obj \cup {Unset, Freed} /\ h.toTerm \in Seq(Message(n))
    BY TypesAre, Zenon
  <2>2. QED BY <1>1, <2>1, Zenon
<1>3. z \in Seq(Message(n))
  BY <1>1, <1>2
<1>4. g = [prev |-> a, prevpad |-> b, toTerm |-> z]
  <2>1. g = [h EXCEPT !.toTerm = z]
    BY <1>1 DEF Sent
  <2>2. QED BY <1>2, <2>1
<1>5. g \in Library(n)
  BY ONLY <1>2, <1>3, <1>4 DEF Library
<1>6. g.prev = a /\ g.prevpad = b /\ g.toTerm = z
  BY <1>4
<1>7. TypesOK(new, ids, n, g)
  BY <1>5, Zenon DEF TypesOK
<1>8. QED BY <1>1, <1>6, <1>7, Zenon

\* Only a line is remembered.
LEMMA SamePrev ==
  ASSUME NEW n, NEW D, NEW m, m.op \notin {"LINE", "NEXTLINE"}, NEW E, Step(E, D, m, n), NEW h, PrevOK(h, D),
         NEW g, g.prev = h.prev, g.prevpad = h.prevpad \/ g.prevpad \notin Obj
  PROVE  PrevOK(g, E)
<1>1. E.prev = PrevOf(D, m) /\ E.LINEobj = IF m.op = "LINE" THEN m.obj ELSE D.LINEobj
  BY Zenon DEF Step
<1>2. m.op # "LINE" /\ m.op # "NEXTLINE"
  OBVIOUS
<1>3. E.prev = D.prev /\ E.LINEobj = D.LINEobj
  BY <1>1, <1>2, Zenon DEF PrevOf
<1>4. QED BY <1>3, Zenon DEF PrevOK

\* What message m makes of a window shown by p is shown by r.
Told(r, p, m, l, n) ==
  \A v, w : w \in Window(n) /\ WinOK(w) /\ Shows(w, p) /\ Becoming(v, w, m, l) => Shows(v, r)

\* The object of a Pad calls it, and its window becomes what it says.
LEMMA Called ==
  ASSUME NEW pads, NEW ids, NEW n, NEW h, NEW u, Inv(pads, ids, n, h, u), NEW o \in Obj, pads[o] # NoPad,
         NEW m \in Message(n), m.op \in {"REMOVELINE", "CLEAR", "LINES", "CREATELINE", "MAKEGAP"}, m.obj = o,
         NEW D, D = DrainedOf(u, h.toTerm), Fits(D, m, ids),
         NEW r \in Pads, r.kind = pads[o].kind, r.lines = 0 <=> pads[o].lines = 0, Told(r, pads[o], m, LineOf(D, m), n),
         NEW new, new = [pads EXCEPT ![o] = r], NEW g, g = Sent(h, m)
  PROVE  Inv(new, ids, n, g, u)
<1>1. PICK out, p, s : out = u.out /\ p = pads[o] /\ s = h.toTerm
  OBVIOUS
<1>2. Base(pads, ids, n, h, u, out, D) /\ (~ Reuses => AskedOK(ids, out, D))
  <2>1. PICK X : Base(pads, ids, n, h, u, u.out, X) /\ (~ Reuses => AskedOK(ids, u.out, X))
    BY BaseOf, Zenon
  <2>2. X = D
    <3>1. Ends(u, h.toTerm, X)
      BY <2>1, BaseIs, Zenon
    <3>2. QED BY <3>1, Zenon DEF Ends
  <2>3. QED BY <1>1, <2>1, <2>2, Zenon
<1>3. /\ n \in Nat /\ ids \in [Obj -> 1 .. n] /\ pads \in [Obj -> Pads] /\ TypesOK(pads, ids, n, h)
      /\ TermOK(D, n) /\ PrevOK(h, D) /\ \A x \in Obj : PadOK(pads[x], Win(D, x), x, ids, out)
      /\ s \in Seq(Message(n)) /\ PipeOK(u, s, n, ids) /\ D = DrainedOf(u, s)
  BY <1>1, <1>2, BaseIs, Zenon
<1>4. p \in Pads /\ p # NoPad /\ new \in [Obj -> Pads] /\ new[o] = r /\ \A x \in Obj : x # o => new[x] = pads[x]
  BY <1>1, <1>3
<1>5. /\ IsKind(p, o) /\ p.kind \in Kinds[o] /\ p.kind.use \in {"lines", "create", "gap"} /\ p.lines \in Nat
      /\ r.lines \in Nat
  <2>1. AWin(Win(D, o), n)
    BY <1>3, WinOfTerminal, Zenon
  <2>2. PadOK(p, Win(D, o), o, ids, out)
    BY <1>1, <1>3, Zenon
  <2>3. IsKind(p, o) /\ p.kind \in Kinds[o] /\ p.kind.use \in {"lines", "create", "gap"} /\ p.lines \in Nat
    BY <1>3, <1>4, <2>1, <2>2, PadIs, Zenon
  <2>4. r.lines \in Nat
    BY Constants DEF Pads
  <2>5. QED BY <2>3, <2>4, Zenon
<1>6. r # NoPad /\ IsKind(r, o) /\ r.kind = p.kind
  <2>1. r.kind = p.kind /\ (r.lines = 0 <=> p.lines = 0)
    BY <1>1, Zenon
  <2>2. NoPad.kind.use = "none"
    BY DEF NoPad, NoKind
  <2>3. r # NoPad
    BY <1>5, <2>1, <2>2
  <2>4. r.lines > 0 <=> p.lines > 0
    BY <1>5, <2>1
  <2>5. IsKind(r, o)
    BY <1>5, <2>1, <2>4, Zenon DEF IsKind
  <2>6. QED BY <2>1, <2>3, <2>5, Zenon
<1>7. SamePads(new, pads)
  <2>1. ASSUME NEW x \in Obj
        PROVE  /\ new[x] = NoPad <=> pads[x] = NoPad
               /\ new[x].kind = pads[x].kind
               /\ pads[x] # NoPad /\ IsKind(pads[x], x) => IsKind(new[x], x)
    <3>1. CASE x = o
      BY <1>1, <1>4, <1>6, <3>1, Zenon
    <3>2. CASE x # o
      BY <1>4, <3>2, Zenon
    <3>3. QED BY <3>1, <3>2, Zenon
  <2>2. QED BY <2>1, Zenon DEF SamePads
<1>8. m.op \notin {"PADDEF", "DELETE"} /\ m.op \notin {"LINE", "NEXTLINE"} /\ m.op # "NEXTLINE"
  OBVIOUS
<1>9. PICK E, z : E = PadOp(D, m) /\ z = Append(s, m)
  OBVIOUS
<1>10. Step(E, D, m, n)
  BY <1>3, <1>9, PadOpIs, Zenon
<1>11. TypesOK(new, ids, n, g) /\ g.prev = h.prev /\ g.prevpad = h.prevpad /\ g.toTerm = Append(h.toTerm, m)
  <2>1. TypesOK(pads, ids, n, h) /\ new \in [Obj -> Pads]
    BY <1>3, <1>4, Zenon
  <2>2. QED BY ONLY <2>1, m \in Message(n), g = Sent(h, m), SentIs
<1>12. PrevOK(g, E)
  BY <1>3, <1>8, <1>10, <1>11, SamePrev, Zenon
<1>13. Target(D, m) = o
  BY <1>8, Zenon DEF Target
<1>14. /\ Win(D, o) # NoWin => Becoming(Win(E, o), Win(D, o), m, LineOf(D, m))
       /\ \A x : x # o => Win(E, x) = Win(D, x)
  <2>1. o = Target(D, m)
    BY <1>13
  <2>2. m.op \notin {"PADDEF", "DELETE"}
    BY <1>8, Zenon
  <2>3. QED BY ONLY <1>3, <1>10, <2>1, <2>2, m \in Message(n), Fits(D, m, ids), TargetBecomes
<1>15. Showing(E, new, D, pads)
  <2>1. ASSUME NEW x \in Obj, Win(D, x) # NoWin, Win(E, x) # NoWin, Shows(Win(D, x), pads[x]) PROVE Shows(Win(E, x), new[x])
    <3>1. CASE x = o
      <4>1. AWin(Win(D, o), n)
        BY <1>3, WinOfTerminal, Zenon
      <4>2. Win(D, o) \in Window(n) /\ WinOK(Win(D, o))
        BY <2>1, <3>1, <4>1, Zenon DEF AWin
      <4>3. Becoming(Win(E, o), Win(D, o), m, LineOf(D, m)) /\ Shows(Win(D, o), p)
        BY <1>1, <1>14, <2>1, <3>1, Zenon
      <4>4. Shows(Win(E, o), r)
        BY <1>1, <4>2, <4>3, Zenon DEF Told
      <4>5. QED BY <1>4, <3>1, <4>4, Zenon
    <3>2. CASE x # o
      BY <1>4, <1>14, <2>1, <3>2, Zenon
    <3>3. QED BY <3>1, <3>2, Zenon
  <2>2. QED BY <2>1, Zenon DEF Showing
<1>16. Base(new, ids, n, g, u, out, E) /\ Ordinary(E, D)
  <2>1. E = PadOp(D, m)
    BY <1>9
  <2>2. m.op \notin {"PADDEF", "DELETE"} /\ g.toTerm = Append(h.toTerm, m) /\ TypesOK(new, ids, n, g)
    BY <1>8, <1>11, Zenon
  <2>3. Base(pads, ids, n, h, u, out, D)
    BY <1>2, Zenon
  <2>4. QED BY ONLY <1>7, <1>12, <1>15, <2>1, <2>2, <2>3, m \in Message(n), Fits(D, m, ids), HostSends
<1>17. ~ Reuses => AskedOK(ids, out, E)
  BY <1>2, <1>16, Zenon DEF AskedOK, Ordinary
<1>18. QED BY <1>1, <1>16, <1>17, InvOf, Zenon

\* What becomes of the lines that wait for their text.
LEMMA BecomingIs ==
  ASSUME NEW m, NEW v, NEW w, NEW l, Becoming(v, w, m, l)
  PROVE  /\ m.op \in {"LINE", "NEXTLINE", "REMOVELINE", "CLEAR", "MAKEGAP", "CREATELINE"} => v.max = w.max
         /\ m.op \in {"LINE", "NEXTLINE", "REMOVELINE", "CLEAR", "MAKEGAP", "LINES"} => v.attributes = w.attributes
         /\ m.op \in {"LINE", "NEXTLINE"} => /\ Tildes(v) \subseteq Tildes(w)
                                             /\ AskedOf(v) = AskedOf(w) \ {l.key}
         /\ m.op = "REMOVELINE" => Tildes(v) = Tildes(w) \ {m.key}
         /\ m.op = "CLEAR" => Tildes(v) = {}
         /\ m.op = "LINES" => v.max = m.n
         /\ m.op = "CREATELINE" => v.attributes \ {"FAKELINE"} = w.attributes \ {"FAKELINE"}
         /\ m.op = "CREATELINE" /\ w.max = 0 => Tildes(v) = (Tildes(w) \ m.lo .. m.hi) \cup m.lo .. m.hi
         /\ m.op = "MAKEGAP" => Tildes(v) = {}
<1>1. PICK a, b, K, A, F : /\ a = w.max /\ b = w.attributes
                           /\ K = Drop(a, m, l) /\ A = Add(a, m, l) /\ F = Fakes(a, m)
  OBVIOUS
<1>2. /\ v.max = MaxAfter(a, m) /\ v.attributes = OptionsAfter(b, a, m)
      /\ m.op = "MAKEGAP" => Spread(v, w, m.key)
      /\ m.op # "MAKEGAP" => Change(v, w, K, A, F)
  BY <1>1, Zenon DEF Becoming
<1>3. m.op # "LINES" => v.max = a
  BY <1>2, Zenon DEF MaxAfter
<1>4. m.op = "LINES" => v.max = m.n
  BY <1>2, Zenon DEF MaxAfter
<1>5. m.op \notin {"ATTRIBUTE", "CREATELINE"} => v.attributes = b
  BY <1>2 DEF OptionsAfter
<1>6. m.op = "CREATELINE" => v.attributes \ {"FAKELINE"} = b \ {"FAKELINE"}
  <2>1. ASSUME m.op = "CREATELINE" PROVE v.attributes = b \/ v.attributes = b \cup {"FAKELINE"}
    <3>1. m.op # "ATTRIBUTE"
      BY <2>1
    <3>2. QED BY <1>2, <2>1, <3>1, Zenon DEF OptionsAfter
  <2>2. QED BY <2>1
<1>7. m.op # "MAKEGAP" => Tildes(v) = (Tildes(w) \ K) \cup F /\ AskedOf(v) = AskedOf(w) \ K
  BY <1>2, Zenon DEF Change
<1>8. m.op = "MAKEGAP" => Tildes(v) = {}
  BY <1>2, Zenon DEF Spread
<1>9. /\ m.op # "CREATELINE" => F = {}
      /\ m.op = "CREATELINE" /\ a = 0 => F = m.lo .. m.hi /\ K = m.lo .. m.hi
      /\ m.op \in {"LINE", "NEXTLINE"} => K = {l.key}
      /\ m.op = "REMOVELINE" => K = {m.key}
      /\ m.op = "CLEAR" => K = Key
  <2>1. m.op # "CREATELINE" => F = {}
    BY <1>1 DEF Fakes
  <2>2. m.op = "CREATELINE" /\ a = 0 => F = m.lo .. m.hi
    BY <1>1, Zenon DEF Fakes
  <2>3. m.op = "CREATELINE" /\ a = 0 => K = m.lo .. m.hi
    BY <1>1 DEF Drop
  <2>4. m.op \in {"LINE", "NEXTLINE"} => K = {l.key}
    BY <1>1, Zenon DEF Drop
  <2>5. m.op = "REMOVELINE" => K = {m.key}
    BY <1>1 DEF Drop
  <2>6. m.op = "CLEAR" => K = Key
    BY <1>1 DEF Drop
  <2>7. QED BY <2>1, <2>2, <2>3, <2>4, <2>5, <2>6, Zenon
<1>10. Tildes(w) \subseteq Key
  BY DEF Tildes
<1>11. /\ m.op \in {"LINE", "NEXTLINE"} => Tildes(v) \subseteq Tildes(w) /\ AskedOf(v) = AskedOf(w) \ {l.key}
       /\ m.op = "REMOVELINE" => Tildes(v) = Tildes(w) \ {m.key}
       /\ m.op = "CLEAR" => Tildes(v) = {}
       /\ m.op = "CREATELINE" /\ a = 0 => Tildes(v) = (Tildes(w) \ m.lo .. m.hi) \cup m.lo .. m.hi
  BY <1>7, <1>9, <1>10
<1>12. m.op \in {"LINE", "NEXTLINE", "REMOVELINE", "CLEAR", "MAKEGAP", "CREATELINE"} => v.max = a
  BY <1>3
<1>13. m.op \in {"LINE", "NEXTLINE", "REMOVELINE", "CLEAR", "MAKEGAP", "LINES"} => v.attributes = b
  BY <1>5
<1>14. QED BY <1>1, <1>4, <1>6, <1>8, <1>11, <1>12, <1>13, Zenon

\* An object that may call its Pad.
LEMMA CallerIs ==
  ASSUME NEW pads, NEW ids, NEW n, NEW h, NEW u, Inv(pads, ids, n, h, u), NEW o \in Obj, NEW p, p = pads[o], p # NoPad,
         NEW D, D = DrainedOf(u, h.toTerm), NEW w, w = Win(D, o)
  PROVE  /\ n \in Nat /\ pads \in [Obj -> Pads] /\ TermOK(D, n) /\ p \in Pads
         /\ p = [kind |-> p.kind, lines |-> p.lines, made |-> p.made]
         /\ p.kind \in AllKinds /\ p.lines \in 0 .. MaxKey /\ p.lines \in Nat /\ p.made \in SUBSET Key
         /\ p.kind \in Kinds[o] /\ IsKind(p, o) /\ p.kind.use \in {"lines", "create", "gap"}
         /\ w # NoWin => w.oid = ids[o] /\ Shows(w, p) /\ w \in Window(n) /\ WinOK(w)
         /\ p.kind.use # "lines" => w # NoWin /\ p.lines = 0 /\ "USERCLOSE" \notin p.kind.attributes
         /\ p.kind.use = "lines" => p.lines # 0
<1>1. n \in Nat /\ pads \in [Obj -> Pads] /\ TermOK(D, n) /\ Agree(pads, ids, h, u.out, D)
  BY InvIs, Zenon
<1>2. p \in Pads
  BY <1>1
<1>3. PadOK(p, w, o, ids, u.out)
  BY <1>1, Zenon DEF Agree
<1>4. AWin(w, n)
  BY <1>1, WinOfTerminal, Zenon
<1>5. n \in Nat /\ p \in Pads /\ p # NoPad
  BY <1>1, <1>2, Zenon
<1>6. PICK out : PadOK(p, w, o, ids, out)
  BY <1>3, Zenon
<1>7. /\ p = [kind |-> p.kind, lines |-> p.lines, made |-> p.made]
      /\ p.kind \in AllKinds /\ p.lines \in 0 .. MaxKey /\ p.lines \in Nat /\ p.made \in SUBSET Key
      /\ IsKind(p, o) /\ p.kind \in Kinds[o] /\ p.kind.use \in {"lines", "create", "gap"}
      /\ w # NoWin => w.oid = ids[o] /\ Shows(w, p) /\ w \in Window(n) /\ WinOK(w)
      /\ p.kind.use # "lines" => w # NoWin /\ p.lines = 0 /\ "USERCLOSE" \notin p.kind.attributes
      /\ p.kind.use = "lines" => p.lines # 0
  BY ONLY o \in Obj, <1>4, <1>5, <1>6, PadIs
<1>8. QED BY <1>1, <1>2, <1>7, Zenon

LEMMA RemoveLineKeeps ==
  ASSUME NEW pads, NEW ids, NEW n, NEW h, NEW u, Inv(pads, ids, n, h, u), NEW o \in Obj, pads[o] # NoPad,
         NEW k \in Key, NEW new, new = [pads EXCEPT ![o].made = @ \ {k}],
         NEW g, g = Sent(h, [op |-> "REMOVELINE", obj |-> o, key |-> k])
  PROVE  Inv(new, ids, n, g, u)
<1>1. PICK p, D, m, r, w : /\ p = pads[o] /\ D = DrainedOf(u, h.toTerm) /\ m = [op |-> "REMOVELINE", obj |-> o, key |-> k]
                           /\ r = [kind |-> p.kind, lines |-> p.lines, made |-> p.made \ {k}] /\ w = Win(D, o)
  OBVIOUS
<1>2. p # NoPad /\ p = pads[o] /\ D = DrainedOf(u, h.toTerm) /\ w = Win(D, o)
  BY <1>1, Zenon
<1>3. /\ n \in Nat /\ pads \in [Obj -> Pads] /\ p \in Pads
      /\ p = [kind |-> p.kind, lines |-> p.lines, made |-> p.made]
      /\ p.kind \in AllKinds /\ p.lines \in 0 .. MaxKey /\ p.made \in SUBSET Key
  BY ONLY Inv(pads, ids, n, h, u), o \in Obj, <1>2, CallerIs
<1>4. r \in Pads /\ r.kind = p.kind /\ r.lines = p.lines /\ r.made = p.made \ {k}
  BY <1>1, <1>3 DEF Pads
<1>5. m.op = "REMOVELINE" /\ m.obj = o /\ m.key = k /\ m \in Message(n)
  BY <1>1 DEF Message, RemoveLine
<1>6. Fits(D, m, ids)
  BY <1>5 DEF Fits, FitsWin
<1>7. ASSUME NEW v, NEW x, Shows(x, p), Becoming(v, x, m, LineOf(D, m)) PROVE Shows(v, r)
  <2>1. PICK l : Becoming(v, x, m, l)
    BY <1>7
  <2>2. v.max = x.max /\ v.attributes = x.attributes /\ Tildes(v) = Tildes(x) \ {k}
    BY ONLY <1>5, <2>1, BecomingIs
  <2>3. /\ x.max = p.lines /\ x.attributes \ {"FAKELINE"} = p.kind.attributes
        /\ p.kind.use # "create" => "FAKELINE" \notin x.attributes
        /\ p.kind.use = "create" => Tildes(x) \subseteq p.made
    BY <1>7, Zenon DEF Shows
  <2>4. p.kind.use = "create" => Tildes(v) \subseteq r.made
    BY <1>4, <2>2, <2>3
  <2>5. QED BY <1>4, <2>2, <2>3, <2>4, Zenon DEF Shows
<1>8. Told(r, pads[o], m, LineOf(D, m), n)
  BY <1>1, <1>7, Zenon DEF Told
<1>9. new = [pads EXCEPT ![o] = r]
  <2>1. r = [p EXCEPT !.made = @ \ {k}]
    BY <1>1, <1>3
  <2>2. QED BY <1>1, <2>1
<1>10. g = Sent(h, m) /\ r.kind = pads[o].kind /\ (r.lines = 0 <=> pads[o].lines = 0)
  BY <1>1, <1>4, Zenon
<1>11. m.op \in {"REMOVELINE", "CLEAR", "LINES", "CREATELINE", "MAKEGAP"}
  BY <1>5
<1>12. QED BY ONLY Inv(pads, ids, n, h, u), o \in Obj, pads[o] # NoPad, <1>2, <1>4, <1>5, <1>6, <1>8, <1>9, <1>10, <1>11, Called

LEMMA ClearKeeps ==
  ASSUME NEW pads, NEW ids, NEW n, NEW h, NEW u, Inv(pads, ids, n, h, u), NEW o \in Obj, pads[o] # NoPad,
         NEW new, new = [pads EXCEPT ![o].made = {}],
         NEW g, g = Sent(h, [op |-> "CLEAR", obj |-> o])
  PROVE  Inv(new, ids, n, g, u)
<1>1. PICK p, D, m, r, w : /\ p = pads[o] /\ D = DrainedOf(u, h.toTerm) /\ m = [op |-> "CLEAR", obj |-> o]
                           /\ r = [kind |-> p.kind, lines |-> p.lines, made |-> {}] /\ w = Win(D, o)
  OBVIOUS
<1>2. p # NoPad /\ p = pads[o] /\ D = DrainedOf(u, h.toTerm) /\ w = Win(D, o)
  BY <1>1, Zenon
<1>3. /\ n \in Nat /\ pads \in [Obj -> Pads] /\ p \in Pads
      /\ p = [kind |-> p.kind, lines |-> p.lines, made |-> p.made]
      /\ p.kind \in AllKinds /\ p.lines \in 0 .. MaxKey /\ p.made \in SUBSET Key
  BY ONLY Inv(pads, ids, n, h, u), o \in Obj, <1>2, CallerIs
<1>4. r \in Pads /\ r.kind = p.kind /\ r.lines = p.lines /\ r.made = {}
  BY <1>1, <1>3 DEF Pads
<1>5. m.op = "CLEAR" /\ m.obj = o /\ m \in Message(n)
  BY <1>1 DEF Message, Clear
<1>6. Fits(D, m, ids)
  BY <1>5 DEF Fits, FitsWin
<1>7. ASSUME NEW v, NEW x, x \in Window(n), Shows(x, p), Becoming(v, x, m, LineOf(D, m)) PROVE Shows(v, r)
  <2>1. PICK l : Becoming(v, x, m, l)
    BY <1>7
  <2>2. v.max = x.max /\ v.attributes = x.attributes /\ Tildes(v) = {}
    BY ONLY <1>5, <2>1, BecomingIs
  <2>3. /\ x.max = p.lines /\ x.attributes \ {"FAKELINE"} = p.kind.attributes
        /\ p.kind.use # "create" => "FAKELINE" \notin x.attributes
        /\ p.kind.use = "create" => Tildes(x) \subseteq p.made
    BY <1>7, Zenon DEF Shows
  <2>4. Tildes(v) \subseteq r.made
    BY <2>2
  <2>5. QED BY <1>4, <2>2, <2>3, <2>4, Zenon DEF Shows
<1>8. Told(r, pads[o], m, LineOf(D, m), n)
  BY <1>1, <1>7, Zenon DEF Told
<1>9. new = [pads EXCEPT ![o] = r]
  <2>1. r = [p EXCEPT !.made = {}]
    BY <1>1, <1>3
  <2>2. QED BY <1>1, <2>1
<1>10. g = Sent(h, m) /\ r.kind = pads[o].kind /\ (r.lines = 0 <=> pads[o].lines = 0)
  BY <1>1, <1>4, Zenon
<1>11. m.op \in {"REMOVELINE", "CLEAR", "LINES", "CREATELINE", "MAKEGAP"}
  BY <1>5
<1>12. QED BY ONLY Inv(pads, ids, n, h, u), o \in Obj, pads[o] # NoPad, <1>2, <1>4, <1>5, <1>6, <1>8, <1>9, <1>10, <1>11, Called

LEMMA LinesKeep ==
  ASSUME NEW pads, NEW ids, NEW n, NEW h, NEW u, Inv(pads, ids, n, h, u), NEW o \in Obj, pads[o] # NoPad,
         pads[o].kind.use = "lines", NEW c \in Key, NEW new, new = [pads EXCEPT ![o].lines = c],
         NEW g, g = Sent(h, [op |-> "LINES", obj |-> o, n |-> c])
  PROVE  Inv(new, ids, n, g, u)
<1>1. PICK p, D, m, r, w : /\ p = pads[o] /\ D = DrainedOf(u, h.toTerm) /\ m = [op |-> "LINES", obj |-> o, n |-> c]
                           /\ r = [kind |-> p.kind, lines |-> c, made |-> p.made] /\ w = Win(D, o)
  OBVIOUS
<1>2. p # NoPad /\ p = pads[o] /\ D = DrainedOf(u, h.toTerm) /\ w = Win(D, o)
  BY <1>1, Zenon
<1>3. /\ n \in Nat /\ pads \in [Obj -> Pads] /\ p \in Pads
      /\ p = [kind |-> p.kind, lines |-> p.lines, made |-> p.made]
      /\ p.kind \in AllKinds /\ p.lines \in 0 .. MaxKey /\ p.made \in SUBSET Key
      /\ p.kind.use = "lines" /\ p.lines # 0 /\ (w # NoWin => Shows(w, p))
  BY ONLY Inv(pads, ids, n, h, u), o \in Obj, pads[o].kind.use = "lines", <1>2, CallerIs
<1>4. r \in Pads /\ r.kind = p.kind /\ r.lines = c /\ r.made = p.made
  BY <1>1, <1>3 DEF Pads, Key
<1>5. m.op = "LINES" /\ m.obj = o /\ m.n = c /\ m \in Message(n)
  BY <1>1 DEF Message, Limit
<1>6. Fits(D, m, ids)
  <2>1. w # NoWin => w.max # 0
    BY <1>3, Zenon DEF Shows
  <2>2. Target(D, m) = o
    BY <1>5 DEF Target
  <2>3. m.op \notin {"PADDEF", "ATTRIBUTE", "CREATELINE", "MAKEGAP", "DELETE", "NEXTLINE"}
    BY <1>5
  <2>4. FitsWin(w, m, ids)
    BY <2>1, <2>3 DEF FitsWin
  <2>5. QED BY <1>2, <2>2, <2>3, <2>4 DEF Fits
<1>7. ASSUME NEW v, NEW x, x \in Window(n), Shows(x, p), Becoming(v, x, m, LineOf(D, m)) PROVE Shows(v, r)
  <2>1. PICK l : Becoming(v, x, m, l)
    BY <1>7
  <2>2. v.max = c /\ v.attributes = x.attributes
    BY ONLY <1>5, <2>1, BecomingIs
  <2>3. /\ x.max = p.lines /\ x.attributes \ {"FAKELINE"} = p.kind.attributes
        /\ p.kind.use # "create" => "FAKELINE" \notin x.attributes
        /\ p.kind.use = "create" => Tildes(x) \subseteq p.made
    BY <1>7, Zenon DEF Shows
  <2>4. r.kind.use # "create"
    BY <1>3, <1>4
  <2>5. QED BY <1>4, <2>2, <2>3, <2>4, Zenon DEF Shows
<1>8. Told(r, pads[o], m, LineOf(D, m), n)
  BY <1>1, <1>7, Zenon DEF Told
<1>9. new = [pads EXCEPT ![o] = r]
  <2>1. r = [p EXCEPT !.lines = c]
    BY <1>1, <1>3
  <2>2. QED BY <1>1, <2>1
<1>10. g = Sent(h, m) /\ r.kind = pads[o].kind /\ (r.lines = 0 <=> pads[o].lines = 0)
  BY <1>1, <1>3, <1>4 DEF Key
<1>11. m.op \in {"REMOVELINE", "CLEAR", "LINES", "CREATELINE", "MAKEGAP"}
  BY <1>5
<1>12. QED BY ONLY Inv(pads, ids, n, h, u), o \in Obj, pads[o] # NoPad, <1>2, <1>4, <1>5, <1>6, <1>8, <1>9, <1>10, <1>11, Called

LEMMA CreateKeeps ==
  ASSUME NEW pads, NEW ids, NEW n, NEW h, NEW u, Inv(pads, ids, n, h, u), NEW o \in Obj, pads[o] # NoPad,
         pads[o].kind.use = "create", NEW lo \in Key, NEW hi \in Key, lo <= hi,
         NEW S, S = lo .. hi, NEW new, new = [pads EXCEPT ![o].made = @ \cup S],
         NEW g, g = Sent(h, [op |-> "CREATELINE", obj |-> o, lo |-> lo, hi |-> hi])
  PROVE  Inv(new, ids, n, g, u)
<1>1. PICK p, D, m, r, w : /\ p = pads[o] /\ D = DrainedOf(u, h.toTerm) /\ m = [op |-> "CREATELINE", obj |-> o, lo |-> lo, hi |-> hi]
                           /\ r = [kind |-> p.kind, lines |-> p.lines, made |-> p.made \cup S] /\ w = Win(D, o)
  OBVIOUS
<1>2. p # NoPad /\ p = pads[o] /\ D = DrainedOf(u, h.toTerm) /\ w = Win(D, o)
  BY <1>1, Zenon
<1>3. /\ n \in Nat /\ pads \in [Obj -> Pads] /\ p \in Pads
      /\ p = [kind |-> p.kind, lines |-> p.lines, made |-> p.made]
      /\ p.kind \in AllKinds /\ p.lines \in 0 .. MaxKey /\ p.made \in SUBSET Key
      /\ p.kind.use = "create" /\ p.lines = 0 /\ w # NoWin /\ Shows(w, p) /\ "USERCLOSE" \notin p.kind.attributes
  BY ONLY Inv(pads, ids, n, h, u), o \in Obj, pads[o].kind.use = "create", <1>2, CallerIs
<1>4. r \in Pads /\ r.kind = p.kind /\ r.lines = p.lines /\ r.made = p.made \cup S
  <2>1. S \subseteq Key
    BY Constants DEF Key
  <2>2. QED BY <1>1, <1>3, <2>1 DEF Pads
<1>5. m.op = "CREATELINE" /\ m.obj = o /\ m.lo = lo /\ m.hi = hi /\ m \in Message(n)
  BY <1>1 DEF Message, Creation
<1>6. Fits(D, m, ids)
  <2>1. w # NoWin /\ "USERCLOSE" \notin w.attributes
    <3>1. w.attributes \ {"FAKELINE"} = p.kind.attributes
      BY <1>3, Zenon DEF Shows
    <3>2. QED BY <1>3, <3>1
  <2>2. Target(D, m) = o
    BY <1>5 DEF Target
  <2>3. m.op \notin {"PADDEF", "ATTRIBUTE", "LINES", "MAKEGAP", "DELETE", "NEXTLINE"}
    BY <1>5
  <2>4. FitsWin(w, m, ids)
    BY <2>1, <2>3 DEF FitsWin
  <2>5. QED BY <1>2, <2>2, <2>3, <2>4 DEF Fits
<1>7. ASSUME NEW v, NEW x, x \in Window(n), Shows(x, p), Becoming(v, x, m, LineOf(D, m)) PROVE Shows(v, r)
  <2>1. PICK l : Becoming(v, x, m, l)
    BY <1>7
  <2>3. /\ x.max = p.lines /\ x.attributes \ {"FAKELINE"} = p.kind.attributes
        /\ p.kind.use # "create" => "FAKELINE" \notin x.attributes
        /\ p.kind.use = "create" => Tildes(x) \subseteq p.made
    BY <1>7, Zenon DEF Shows
  <2>2. x.max = 0
    BY <1>3, <2>3
  <2>4. m.lo .. m.hi = S
    BY <1>5
  <2>5. /\ v.max = x.max /\ v.attributes \ {"FAKELINE"} = x.attributes \ {"FAKELINE"}
        /\ Tildes(v) = (Tildes(x) \ S) \cup S
    BY ONLY <1>5, <2>1, <2>2, <2>4, BecomingIs
  <2>6. Tildes(v) \subseteq r.made
    BY <1>3, <1>4, <2>3, <2>5
  <2>7. r.kind.use = "create"
    BY <1>3, <1>4
  <2>8. QED BY <1>4, <2>3, <2>5, <2>6, <2>7, Zenon DEF Shows
<1>8. Told(r, pads[o], m, LineOf(D, m), n)
  BY <1>1, <1>7, Zenon DEF Told
<1>9. new = [pads EXCEPT ![o] = r]
  <2>1. /\ r = [kind |-> p.kind, lines |-> p.lines, made |-> p.made \cup S]
        /\ p = [kind |-> p.kind, lines |-> p.lines, made |-> p.made]
    BY <1>1, <1>3, Zenon
  <2>2. r = [p EXCEPT !.made = @ \cup S]
    BY ONLY <2>1
  <2>3. QED BY <1>1, <2>2
<1>10. g = Sent(h, m) /\ r.kind = pads[o].kind /\ (r.lines = 0 <=> pads[o].lines = 0)
  BY <1>1, <1>4, Zenon
<1>11. m.op \in {"REMOVELINE", "CLEAR", "LINES", "CREATELINE", "MAKEGAP"}
  BY <1>5
<1>12. QED BY ONLY Inv(pads, ids, n, h, u), o \in Obj, pads[o] # NoPad, <1>2, <1>4, <1>5, <1>6, <1>8, <1>9, <1>10, <1>11, Called

LEMMA GapKeeps ==
  ASSUME NEW pads, NEW ids, NEW n, NEW h, NEW u, Inv(pads, ids, n, h, u), NEW o \in Obj, pads[o] # NoPad,
         pads[o].kind.use = "gap", NEW k \in Key,
         \A l \in AsSet(Win(DrainedOf(u, h.toTerm), o).lines) : l.key # MaxKey,
         NEW new, new = pads,
         NEW g, g = Sent(h, [op |-> "MAKEGAP", obj |-> o, key |-> k, gap |-> 1])
  PROVE  Inv(new, ids, n, g, u)
<1>1. PICK p, D, m, r, w : /\ p = pads[o] /\ D = DrainedOf(u, h.toTerm) /\ m = [op |-> "MAKEGAP", obj |-> o, key |-> k, gap |-> 1]
                           /\ r = [kind |-> p.kind, lines |-> p.lines, made |-> p.made] /\ w = Win(D, o)
  OBVIOUS
<1>2. p # NoPad /\ p = pads[o] /\ D = DrainedOf(u, h.toTerm) /\ w = Win(D, o)
  BY <1>1, Zenon
<1>3. /\ n \in Nat /\ pads \in [Obj -> Pads] /\ p \in Pads
      /\ p = [kind |-> p.kind, lines |-> p.lines, made |-> p.made]
      /\ p.kind \in AllKinds /\ p.lines \in 0 .. MaxKey /\ p.made \in SUBSET Key
      /\ p.kind.use = "gap" /\ p.lines = 0 /\ w # NoWin /\ Shows(w, p) /\ w \in Window(n)
      /\ "USERCLOSE" \notin p.kind.attributes
  BY ONLY Inv(pads, ids, n, h, u), o \in Obj, pads[o].kind.use = "gap", <1>2, CallerIs
<1>4. r \in Pads /\ r.kind = p.kind /\ r.lines = p.lines /\ r.made = p.made
  BY <1>1, <1>3 DEF Pads
<1>5. m.op = "MAKEGAP" /\ m.obj = o /\ m.key = k /\ m.gap = 1 /\ m \in Message(n)
  BY <1>1 DEF Message, Gap
<1>6. Fits(D, m, ids)
  <2>1. w # NoWin /\ "USERCLOSE" \notin w.attributes /\ Plain(w)
    <3>1. /\ w.attributes \ {"FAKELINE"} = p.kind.attributes /\ w.max = p.lines
          /\ p.kind.use # "create" => "FAKELINE" \notin w.attributes
      BY <1>3, Zenon DEF Shows
    <3>2. QED BY <1>3, <3>1 DEF Plain
  <2>2. Target(D, m) = o
    BY <1>5 DEF Target
  <2>3. m.op \notin {"PADDEF", "ATTRIBUTE", "LINES", "CREATELINE", "DELETE", "NEXTLINE"}
    BY <1>5
  <2>4. ASSUME NEW l \in AsSet(w.lines) PROVE l.key < MaxKey
    <3>1. l.key # MaxKey
      BY <1>1, Zenon
    <3>2. w.lines \in Seq(Line)
      BY <1>3, WindowIs, Zenon
    <3>3. l \in Line
      BY <3>2 DEF AsSet
    <3>4. l.key \in Key
      BY <3>3, LineIs, Zenon
    <3>5. QED BY <3>1, <3>4, Constants DEF Key
  <2>5. FitsWin(w, m, ids)
    BY <2>1, <2>3, <2>4 DEF FitsWin
  <2>6. QED BY <1>2, <2>2, <2>3, <2>5 DEF Fits
<1>7. ASSUME NEW v, NEW x, x \in Window(n), Shows(x, p), Becoming(v, x, m, LineOf(D, m)) PROVE Shows(v, r)
  <2>1. PICK l : Becoming(v, x, m, l)
    BY <1>7
  <2>3. /\ x.max = p.lines /\ x.attributes \ {"FAKELINE"} = p.kind.attributes
        /\ p.kind.use # "create" => "FAKELINE" \notin x.attributes
        /\ p.kind.use = "create" => Tildes(x) \subseteq p.made
    BY <1>7, Zenon DEF Shows
  <2>2. v.max = x.max /\ v.attributes = x.attributes /\ Tildes(v) = {}
    BY ONLY <1>5, <2>1, BecomingIs
  <2>4. r.kind.use # "create"
    BY <1>3, <1>4
  <2>5. QED BY <1>4, <2>2, <2>3, <2>4, Zenon DEF Shows
<1>8. Told(r, pads[o], m, LineOf(D, m), n)
  BY <1>1, <1>7, Zenon DEF Told
<1>9. new = [pads EXCEPT ![o] = r]
  <2>1. r = p
    BY <1>1, <1>3
  <2>2. QED BY <1>1, <1>3, <2>1
<1>10. g = Sent(h, m) /\ r.kind = pads[o].kind /\ (r.lines = 0 <=> pads[o].lines = 0)
  BY <1>1, <1>4, Zenon
<1>11. m.op \in {"REMOVELINE", "CLEAR", "LINES", "CREATELINE", "MAKEGAP"}
  BY <1>5
<1>12. QED BY ONLY Inv(pads, ids, n, h, u), o \in Obj, pads[o] # NoPad, <1>2, <1>4, <1>5, <1>6, <1>8, <1>9, <1>10, <1>11, Called


\* What Pad::insert sends for a line, its message being m.
Lined(g, h, o, k, x, as, m) ==
  /\ m = IF NextInPad(h, o, k, as) THEN [op |-> "NEXTLINE", text |-> x]
         ELSE [op |-> "LINE", obj |-> o, key |-> k, attributes |-> as, text |-> x]
  /\ g = [prev |-> [key |-> k, attributes |-> as], prevpad |-> o, toTerm |-> Append(h.toTerm, m)]

LEMMA LinedIs ==
  ASSUME NEW pads, NEW ids, NEW n, NEW h, TypesOK(pads, ids, n, h), NEW o \in Obj, NEW k \in Key, NEW x \in Text,
         NEW as \in LineAttributes, NEW g, g = SendLine(h, o, k, x, as)
  PROVE  \E m : Lined(g, h, o, k, x, as, m)
<1>1. PICK m, a : /\ m = IF NextInPad(h, o, k, as) THEN [op |-> "NEXTLINE", text |-> x]
                         ELSE [op |-> "LINE", obj |-> o, key |-> k, attributes |-> as, text |-> x]
                  /\ a = [key |-> k, attributes |-> as]
  OBVIOUS
<1>2. PICK f : f = Sent(h, m)
  OBVIOUS
<1>3. h = [prev |-> h.prev, prevpad |-> h.prevpad, toTerm |-> h.toTerm]
  BY TypesAre, Zenon
<1>4. f = [h EXCEPT !.toTerm = Append(h.toTerm, m)]
  BY <1>2 DEF Sent
<1>5. g = [f EXCEPT !.prev = a, !.prevpad = o]
  BY <1>1, <1>2, Zenon DEF SendLine
<1>6. g = [prev |-> a, prevpad |-> o, toTerm |-> Append(h.toTerm, m)]
  BY ONLY <1>3, <1>4, <1>5
<1>7. Lined(g, h, o, k, x, as, m)
  BY <1>1, <1>6, Zenon DEF Lined
<1>8. QED BY <1>7, Zenon

LEMMA LinedFits ==
  ASSUME NEW pads, NEW ids, NEW n, NEW h, TypesOK(pads, ids, n, h), NEW D, TermOK(D, n), PrevOK(h, D),
         NEW o \in Obj, NEW k \in Key, NEW x \in Text, NEW as \in LineAttributes,
         NEW g, NEW m, Lined(g, h, o, k, x, as, m)
  PROVE  /\ m \in Message(n) /\ m.op \in {"LINE", "NEXTLINE"} /\ Fits(D, m, ids)
         /\ TypesOK(pads, ids, n, g) /\ g.toTerm = Append(h.toTerm, m)
         /\ LineOf(D, m).key = k /\ (~ Reuses => Target(D, m) = o)
         /\ \A E : Step(E, D, m, n) => PrevOK(g, E)
<1>1. /\ n \in Nat /\ h.toTerm \in Seq(Message(n)) /\ h.prev = D.prev
      /\ D.prev = [key |-> D.prev.key, attributes |-> D.prev.attributes]
  <2>1. n \in Nat /\ h.toTerm \in Seq(Message(n))
    BY TypesAre, Zenon
  <2>2. h.prev = D.prev
    BY Zenon DEF PrevOK
  <2>3. D.prev \in Prev
    BY <2>1, TerminalIs, Zenon
  <2>4. D.prev = [key |-> D.prev.key, attributes |-> D.prev.attributes]
    BY <2>3 DEF Prev
  <2>5. QED BY <2>1, <2>2, <2>4, Zenon
<1>2. PICK a, z : a = [key |-> k, attributes |-> as] /\ z = Append(h.toTerm, m)
  OBVIOUS
<1>3. g = [prev |-> a, prevpad |-> o, toTerm |-> z]
  BY <1>2, Zenon DEF Lined
<1>4. /\ m \in Message(n) /\ m.op \in {"LINE", "NEXTLINE"} /\ PrevOf(D, m) = a /\ Target(D, m) \in {o, D.LINEobj}
      /\ ~ Reuses => Target(D, m) = o
      /\ m.op = "LINE" => m.obj = o
      /\ m.op = "NEXTLINE" => k = D.prev.key + 1 /\ h.prevpad = o
  <2>1. CASE NextInPad(h, o, k, as)
    <3>1. m = [op |-> "NEXTLINE", text |-> x]
      BY <2>1, Zenon DEF Lined
    <3>2. h.prevpad = o /\ k = D.prev.key + 1 /\ as = D.prev.attributes
      BY <1>1, <2>1, Zenon DEF NextInPad
    <3>3. m.op = "NEXTLINE" /\ m \in NextLine
      BY <3>1 DEF NextLine
    <3>4. m \in Message(n) /\ m.op \in {"LINE", "NEXTLINE"} /\ m.op # "LINE"
      BY <3>3 DEF Message
    <3>5. PrevOf(D, m) = a /\ Target(D, m) = D.LINEobj
      BY <1>2, <3>2, <3>3, <3>4, Zenon DEF PrevOf, Target
    <3>6. ~ Reuses => D.LINEobj = o
      BY <3>2, Zenon DEF PrevOK
    <3>7. Target(D, m) \in {o, D.LINEobj}
      BY <3>5
    <3>8. QED BY <3>2, <3>4, <3>5, <3>6, <3>7, Zenon
  <2>2. CASE ~ NextInPad(h, o, k, as)
    <3>1. m = [op |-> "LINE", obj |-> o, key |-> k, attributes |-> as, text |-> x]
      BY <2>2, Zenon DEF Lined
    <3>2. m.op = "LINE" /\ m.obj = o /\ m.key = k /\ m.attributes = as /\ m \in FullLine
      BY <3>1 DEF FullLine
    <3>3. m \in Message(n) /\ m.op \in {"LINE", "NEXTLINE"} /\ m.op # "NEXTLINE"
      BY <3>2 DEF Message
    <3>4. PrevOf(D, m) = a /\ Target(D, m) = o
      BY <1>2, <3>2, <3>3, Zenon DEF PrevOf, Target
    <3>5. Target(D, m) \in {o, D.LINEobj}
      BY <3>4
    <3>6. QED BY <3>2, <3>3, <3>4, <3>5, Zenon
  <2>3. QED BY <2>1, <2>2, Zenon
<1>5. LineOf(D, m).key = k
  <2>1. LineOf(D, m).key = PrevOf(D, m).key
    BY DEF LineOf
  <2>2. a.key = k
    BY <1>2
  <2>3. QED BY <1>4, <2>1, <2>2, Zenon
<1>6. Fits(D, m, ids)
  <2>1. m.op = "NEXTLINE" => D.prev.key < MaxKey
    <3>1. D.prev \in Prev
      BY <1>1, TerminalIs, Zenon
    <3>2. D.prev.key \in Nat
      BY <3>1, Constants DEF Prev
    <3>3. k <= MaxKey /\ k \in Nat
      BY KeyIs, Zenon
    <3>4. QED BY <1>4, <3>2, <3>3, Constants
  <2>2. m.op \notin {"PADDEF", "ATTRIBUTE", "LINES", "CREATELINE", "MAKEGAP", "DELETE"}
    BY <1>4
  <2>3. FitsWin(Win(D, Target(D, m)), m, ids)
    BY <2>2 DEF FitsWin
  <2>4. QED BY <2>1, <2>3, Zenon DEF Fits
<1>7. TypesOK(pads, ids, n, g) /\ g.toTerm = z /\ g.prev = a /\ g.prevpad = o
  <2>1. a \in Prev
    <3>1. k \in 0 .. MaxKey
      BY KeyIs, Constants
    <3>2. a = [key |-> k, attributes |-> as]
      BY <1>2, Zenon
    <3>3. QED BY ONLY <3>1, <3>2, as \in LineAttributes DEF Prev
  <2>2. z \in Seq(Message(n))
    BY <1>1, <1>2, <1>4
  <2>3. g \in Library(n)
    BY <1>3, <2>1, <2>2 DEF Library
  <2>4. TypesOK(pads, ids, n, g)
    BY <2>3, Zenon DEF TypesOK
  <2>5. g.toTerm = z /\ g.prev = a /\ g.prevpad = o
    BY <1>3
  <2>6. QED BY <2>4, <2>5, Zenon
<1>8. ASSUME NEW E, Step(E, D, m, n) PROVE PrevOK(g, E)
  <2>1. E.prev = PrevOf(D, m) /\ E.LINEobj = IF m.op = "LINE" THEN m.obj ELSE D.LINEobj
    BY <1>8, Zenon DEF Step
  <2>2. ~ Reuses => E.LINEobj = o
    <3>1. CASE m.op = "LINE"
      BY <1>4, <2>1, <3>1, Zenon
    <3>2. CASE m.op # "LINE"
      <4>1. m.op = "NEXTLINE"
        BY <1>4, <3>2
      <4>2. E.LINEobj = D.LINEobj /\ (~ Reuses => D.LINEobj = o)
        BY <1>4, <2>1, <3>2, <4>1, Zenon DEF PrevOK
      <4>3. QED BY <4>2, Zenon
    <3>3. QED BY <3>1, <3>2, Zenon
  <2>3. QED BY <1>4, <1>7, <2>1, <2>2, Zenon DEF PrevOK
<1>9. QED BY <1>2, <1>4, <1>5, <1>6, <1>7, <1>8, Zenon

\* A line sent is written, if it is for the window it is meant for.
LEMMA LinedWrites ==
  ASSUME NEW n \in Nat, NEW D, TermOK(D, n), NEW m \in Message(n), m.op \in {"LINE", "NEXTLINE"}, NEW ids, Fits(D, m, ids),
         NEW E, Step(E, D, m, n), NEW o \in Obj, Target(D, m) = o, NEW g, NEW h, NEW k \in Key, NEW x, NEW as,
         Lined(g, h, o, k, x, as, m), PrevOK(g, E), NEW K, K = {k}
  PROVE  Writes(E, D, o, K, x, as, n)
<1>1. PICK w, v, l : w = Win(D, o) /\ v = Win(E, o) /\ l = LineOf(D, m)
  OBVIOUS
<1>2. m.op \notin {"PADDEF", "DELETE"}
  OBVIOUS
<1>3. /\ w = NoWin => v = NoWin
      /\ w # NoWin => v # NoWin /\ Becoming(v, w, m, l)
      /\ \A p : p # o => Win(E, p) = Win(D, p)
  <2>1. /\ Win(D, o) = NoWin => Win(E, o) = NoWin
        /\ Win(D, o) # NoWin => /\ Win(E, o) # NoWin /\ SameWin(Win(E, o), Win(D, o))
                                /\ Becoming(Win(E, o), Win(D, o), m, LineOf(D, m))
        /\ \A p : p # o => Win(E, p) = Win(D, p)
    BY ONLY n \in Nat, TermOK(D, n), m \in Message(n), Fits(D, m, ids), Step(E, D, m, n), Target(D, m) = o, <1>2, TargetBecomes
  <2>2. QED BY <1>1, <2>1, Zenon
<1>4. Alter(E, D, o, n)
  <2>1. TermOK(E, n)
    BY Zenon DEF Step
  <2>2. QED BY <1>1, <1>3, <2>1, Zenon DEF Alter
<1>5. l = [key |-> k, text |-> x, attributes |-> as]
  <2>1. E.prev = PrevOf(D, m) /\ E.prev = g.prev
    BY Zenon DEF Step, PrevOK
  <2>2. m.text = x /\ g.prev = [key |-> k, attributes |-> as]
    BY DEF Lined
  <2>3. PrevOf(D, m) = [key |-> k, attributes |-> as]
    BY <2>1, <2>2, Zenon
  <2>4. PrevOf(D, m).key = k /\ PrevOf(D, m).attributes = as
    BY <2>3
  <2>5. QED BY <1>1, <2>2, <2>4, Zenon DEF LineOf
<1>6. ASSUME w # NoWin
      PROVE  v.max = w.max /\ Reals(v) = {y \in Reals(w) : y.key \notin Room(w, K)} \cup NewLines(Room(w, K), x, as)
  <2>1. PICK R, S, in : R = Reals(w) /\ S = Reals(v) /\ in = Room(w, K)
    OBVIOUS
  <2>2. v.max = MaxAfter(w.max, m) /\ Change(v, w, Drop(w.max, m, l), Add(w.max, m, l), Fakes(w.max, m))
    BY <1>3, <1>6 DEF Becoming
  <2>3. S = {y \in R : y.key \notin Drop(w.max, m, l)} \cup Add(w.max, m, l)
    BY <2>1, <2>2, Zenon DEF Change
  <2>4. Drop(w.max, m, l) = {k}
    BY <1>5 DEF Drop
  <2>5. MaxAfter(w.max, m) = w.max
    BY DEF MaxAfter
  <2>6. l.key = k
    BY <1>5
  <2>7. S = {y \in R : y.key \notin in} \cup NewLines(in, x, as)
    <3>1. CASE w.max = 0 \/ k <= w.max
      <4>1. in = {k}
        BY <2>1, <3>1 DEF Room
      <4>2. Add(w.max, m, l) = {l}
        BY <2>6, <3>1 DEF Add
      <4>3. NewLines(in, x, as) = {l}
        BY <1>5, <4>1 DEF NewLines
      <4>4. QED BY <2>3, <2>4, <4>1, <4>2, <4>3
    <3>2. CASE w.max # 0 /\ ~ (k <= w.max)
      <4>1. in = {}
        BY <2>1, <3>2 DEF Room
      <4>2. Add(w.max, m, l) = {}
        BY <2>6, <3>2 DEF Add
      <4>3. NewLines(in, x, as) = {}
        BY <4>1 DEF NewLines
      <4>4. \A y \in R : y.key # k
        <5>1. AWin(w, n)
          BY <1>1, WinOfTerminal, Zenon
        <5>2. w \in Window(n) /\ WinOK(w)
          BY <1>6, <5>1, Zenon DEF AWin
        <5>3. \A y \in R : y.key <= w.max
          BY <2>1, <3>2, <5>2, Within, Zenon
        <5>4. QED BY <3>2, <5>3
      <4>5. QED BY <2>3, <2>4, <4>1, <4>2, <4>3, <4>4
    <3>3. QED BY <3>1, <3>2, Zenon
  <2>8. QED BY <2>1, <2>2, <2>5, <2>7, Zenon
<1>7. QED BY <1>1, <1>4, <1>6, Zenon DEF Writes

LEMMA SendLineKeeps ==
  ASSUME NEW pads, NEW ids, NEW n, NEW h, NEW u, NEW out, NEW D, Base(pads, ids, n, h, u, out, D),
         NEW o \in Obj, NEW k \in Key, NEW x \in Text, NEW as \in LineAttributes, NEW g, g = SendLine(h, o, k, x, as)
  PROVE  \E E : /\ Base(pads, ids, n, g, u, out, E) /\ Ordinary(E, D)
                /\ ~ Reuses => k \notin AskedOf(Win(E, o)) /\ Writes(E, D, o, {k}, x, as, n)
<1>1. /\ n \in Nat /\ TypesOK(pads, ids, n, h) /\ TermOK(D, n) /\ PrevOK(h, D)
  BY BaseIs, Zenon
<1>2. PICK m : Lined(g, h, o, k, x, as, m)
  BY <1>1, LinedIs, Zenon
<1>3. PICK E : E = PadOp(D, m)
  OBVIOUS
<1>4. /\ m \in Message(n) /\ m.op \in {"LINE", "NEXTLINE"} /\ Fits(D, m, ids)
      /\ TypesOK(pads, ids, n, g) /\ g.toTerm = Append(h.toTerm, m)
      /\ LineOf(D, m).key = k /\ (~ Reuses => Target(D, m) = o)
      /\ \A F : Step(F, D, m, n) => PrevOK(g, F)
  BY ONLY <1>1, <1>2, o \in Obj, k \in Key, x \in Text, as \in LineAttributes, LinedFits
<1>5. Step(E, D, m, n)
  BY <1>1, <1>3, <1>4, PadOpIs, Zenon
<1>6. PrevOK(g, E)
  BY <1>4, <1>5, Zenon
<1>7. m.op \notin {"PADDEF", "DELETE"}
  BY <1>4
<1>8. PICK q, l : q = Target(D, m) /\ l = LineOf(D, m)
  OBVIOUS
<1>9. /\ Win(D, q) = NoWin => Win(E, q) = NoWin
      /\ Win(D, q) # NoWin => /\ Win(E, q) # NoWin /\ SameWin(Win(E, q), Win(D, q))
                              /\ Becoming(Win(E, q), Win(D, q), m, LineOf(D, m))
      /\ \A p : p # q => Win(E, p) = Win(D, p)
  BY ONLY <1>1, <1>4, <1>5, <1>7, <1>8, TargetBecomes
<1>10. ASSUME Win(D, q) # NoWin
       PROVE  /\ Win(E, q).max = Win(D, q).max /\ Win(E, q).attributes = Win(D, q).attributes
              /\ Tildes(Win(E, q)) \subseteq Tildes(Win(D, q)) /\ AskedOf(Win(E, q)) = AskedOf(Win(D, q)) \ {k}
  <2>1. PICK v, w : v = Win(E, q) /\ w = Win(D, q)
    OBVIOUS
  <2>2. Becoming(v, w, m, l) /\ l.key = k
    BY <1>4, <1>8, <1>9, <1>10, <2>1, Zenon
  <2>3. /\ v.max = w.max /\ v.attributes = w.attributes
        /\ Tildes(v) \subseteq Tildes(w) /\ AskedOf(v) = AskedOf(w) \ {l.key}
    <3>1. m.op \in {"LINE", "NEXTLINE"}
      BY <1>4, Zenon
    <3>2. QED BY ONLY <2>2, <3>1, BecomingIs
  <2>4. QED BY <2>1, <2>2, <2>3, Zenon
<1>11. SamePads(pads, pads)
  BY Zenon DEF SamePads
<1>12. Showing(E, pads, D, pads)
  <2>1. ASSUME NEW p \in Obj, Win(D, p) # NoWin, Shows(Win(D, p), pads[p]) PROVE Shows(Win(E, p), pads[p])
    <3>1. CASE p = q
      <4>1. /\ Win(E, q).max = Win(D, q).max /\ Win(E, q).attributes = Win(D, q).attributes
            /\ Tildes(Win(E, q)) \subseteq Tildes(Win(D, q))
        BY <1>10, <2>1, <3>1, Zenon
      <4>2. pads[q].kind.use = "create" => Tildes(Win(E, q)) \subseteq pads[q].made
        <5>1. pads[q].kind.use = "create" => Tildes(Win(D, q)) \subseteq pads[q].made
          BY <2>1, <3>1, Zenon DEF Shows
        <5>2. QED BY <4>1, <5>1
      <4>3. QED BY <2>1, <3>1, <4>1, <4>2, Zenon DEF Shows
    <3>2. CASE p # q
      BY <1>9, <2>1, <3>2, Zenon
    <3>3. QED BY <3>1, <3>2, Zenon
  <2>2. QED BY <2>1, Zenon DEF Showing
<1>13. Base(pads, ids, n, g, u, out, E) /\ Ordinary(E, D)
  BY ONLY Base(pads, ids, n, h, u, out, D), <1>3, <1>4, <1>6, <1>7, <1>11, <1>12, HostSends
<1>14. ~ Reuses => k \notin AskedOf(Win(E, o))
  <2>1. ASSUME ~ Reuses PROVE k \notin AskedOf(Win(E, o))
    <3>1. q = o
      BY <1>4, <1>8, <2>1, Zenon
    <3>2. CASE Win(D, q) = NoWin
      <4>1. Win(E, o) = NoWin
        BY <1>9, <3>1, <3>2, Zenon
      <4>2. AskedOf(NoWin) = {}
        BY AskedIsTilde, Zenon
      <4>3. AskedOf(Win(E, o)) = {}
        BY <4>1, <4>2, Zenon
      <4>4. QED BY <4>3
    <3>3. CASE Win(D, q) # NoWin
      <4>1. AskedOf(Win(E, o)) = AskedOf(Win(D, q)) \ {k}
        BY <1>10, <3>1, <3>3, Zenon
      <4>2. QED BY <4>1
    <3>4. QED BY <3>2, <3>3, Zenon
  <2>2. QED BY <2>1, Zenon
<1>15. ~ Reuses => Writes(E, D, o, {k}, x, as, n)
  <2>1. ASSUME ~ Reuses PROVE Writes(E, D, o, {k}, x, as, n)
    <3>1. Target(D, m) = o
      BY <1>4, <2>1, Zenon
    <3>2. QED BY ONLY o \in Obj, k \in Key, <1>1, <1>2, <1>4, <1>5, <1>6, <3>1, LinedWrites
  <2>2. QED BY <2>1, Zenon
<1>16. QED BY <1>13, <1>14, <1>15, Zenon

LEMMA InsertKeeps ==
  ASSUME NEW pads, NEW ids, NEW n, NEW h, NEW u, Inv(pads, ids, n, h, u), NEW o \in Obj, NEW k \in Key, NEW x \in Text,
         NEW as \in LineAttributes, NEW g, g = SendLine(h, o, k, x, as)
  PROVE  /\ Inv(pads, ids, n, g, u)
         /\ ~ Reuses => LinesSeen(Shown(DrainedOf(u, g.toTerm)), Shown(DrainedOf(u, h.toTerm)), o, {k}, x, as)
<1>1. PICK D : Base(pads, ids, n, h, u, u.out, D) /\ (~ Reuses => AskedOK(ids, u.out, D))
  BY BaseOf, Zenon
<1>2. PICK E : /\ Base(pads, ids, n, g, u, u.out, E) /\ Ordinary(E, D)
               /\ ~ Reuses => Writes(E, D, o, {k}, x, as, n)
  <2>1. PICK out : out = u.out
    OBVIOUS
  <2>2. \E E : /\ Base(pads, ids, n, g, u, out, E) /\ Ordinary(E, D)
               /\ ~ Reuses => k \notin AskedOf(Win(E, o)) /\ Writes(E, D, o, {k}, x, as, n)
    <3>1. Base(pads, ids, n, h, u, out, D)
      BY <1>1, <2>1, Zenon
    <3>2. QED BY ONLY o \in Obj, k \in Key, x \in Text, as \in LineAttributes, g = SendLine(h, o, k, x, as), <3>1, SendLineKeeps
  <2>3. QED BY <2>1, <2>2, Zenon
<1>3. ~ Reuses => AskedOK(ids, u.out, E)
  BY <1>1, <1>2, Zenon DEF AskedOK, Ordinary
<1>4. Inv(pads, ids, n, g, u)
  BY <1>2, <1>3, InvOf, Zenon
<1>5. D = DrainedOf(u, h.toTerm) /\ E = DrainedOf(u, g.toTerm) /\ n \in Nat
  <2>1. D = DrainedOf(u, h.toTerm) /\ E = DrainedOf(u, g.toTerm)
    BY <1>1, <1>2, Zenon DEF Base, Ends
  <2>2. n \in Nat
    BY <1>1, BaseIs, Zenon
  <2>3. QED BY <2>1, <2>2, Zenon
<1>6. ASSUME ~ Reuses PROVE LinesSeen(Shown(E), Shown(D), o, {k}, x, as)
  <2>1. Writes(E, D, o, {k}, x, as, n)
    BY <1>2, <1>6, Zenon
  <2>2. QED BY <1>5, <2>1, WritesShown, Zenon
<1>7. QED BY <1>4, <1>5, <1>6, Zenon

-----------------------------------------------------------------------------
(* Windows are opened and closed. *)

LEMMA MoreOf ==
  ASSUME NEW S, NEW s \in Seq(S), NEW a \in S, NEW b \in S
  PROVE  /\ s \o <<a, b>> = Append(Append(s, a), b) /\ Append(Append(s, a), b) \in Seq(S)
         /\ s \o <<a>> = Append(s, a) /\ s \o <<>> = s
OBVIOUS

\* A message that is no line.
Quiet(E, D, m) ==
  /\ E.prev = D.prev /\ E.LINEobj = D.LINEobj
  /\ Effect(Win(E, m.obj), Win(D, m.obj), m, LineOf(D, m))
  /\ \A p : p # m.obj => Win(E, p) = Win(D, p)

LEMMA QuietSending ==
  ASSUME NEW n \in Nat, NEW s \in Seq(Message(n)), NEW u, NEW ids, PipeOK(u, s, n, ids),
         NEW m \in Message(n), m.op \notin {"LINE", "NEXTLINE"}, NEW D, Ends(u, s, D), Fits(D, m, ids),
         NEW z, z = Append(s, m)
  PROVE  z \in Seq(Message(n)) /\ PipeOK(u, z, n, ids) /\ \E E : Ends(u, z, E) /\ TermOK(E, n) /\ Quiet(E, D, m)
<1>1. PICK E : E = PadOp(D, m)
  OBVIOUS
<1>2. D = DrainedOf(u, s)
  BY Zenon DEF Ends
<1>3. z \in Seq(Message(n)) /\ PipeOK(u, z, n, ids) /\ Ends(u, z, E) /\ Step(E, D, m, n)
  BY ONLY n \in Nat, s \in Seq(Message(n)), PipeOK(u, s, n, ids), m \in Message(n), Fits(D, m, ids), z = Append(s, m),
          <1>1, <1>2, Sending
<1>4. m.op # "LINE" /\ m.op # "NEXTLINE"
  OBVIOUS
<1>5. Target(D, m) = m.obj /\ PrevOf(D, m) = D.prev
  BY <1>4, Zenon DEF Target, PrevOf
<1>6. TermOK(E, n) /\ Quiet(E, D, m)
  BY <1>3, <1>4, <1>5, Zenon DEF Step, Quiet
<1>7. QED BY <1>3, <1>6, Zenon

\* Nothing else has changed when o's window is w.
Opened(E, D, o, w) ==
  /\ E.prev = D.prev /\ E.LINEobj = D.LINEobj
  /\ Win(E, o) = w /\ \A p : p # o => Win(E, p) = Win(D, p)

AWindow(o, x, as, c) == [object |-> o, oid |-> x, attributes |-> as, max |-> c, lines |-> <<>>]

LEMMA Defining ==
  ASSUME NEW n \in Nat, NEW s \in Seq(Message(n)), NEW u, NEW ids \in [Obj -> 1 .. n], PipeOK(u, s, n, ids),
         NEW D, Ends(u, s, D), NEW o \in Obj, Win(D, o) = NoWin,
         NEW as \in SUBSET Options, NEW def, def = [op |-> "PADDEF", obj |-> o, oid |-> ids[o]],
         NEW opt, opt = [op |-> "ATTRIBUTE", obj |-> o, attributes |-> as],
         NEW z, z = s \o <<def, opt>>
  PROVE  /\ z \in Seq(Message(n)) /\ PipeOK(u, z, n, ids)
         /\ \E E : Ends(u, z, E) /\ TermOK(E, n) /\ Opened(E, D, o, AWindow(o, ids[o], as, 0))
<1>1. ids[o] \in 1 .. n
  OBVIOUS
<1>2. /\ def.op = "PADDEF" /\ def.obj = o /\ def.oid = ids[o] /\ def \in Message(n) /\ def.op # "NEXTLINE"
      /\ def.op \notin {"ATTRIBUTE", "LINES", "CREATELINE", "MAKEGAP", "DELETE"}
  BY <1>1 DEF Message, PadDef
<1>3. /\ opt.op = "ATTRIBUTE" /\ opt.obj = o /\ opt.attributes = as /\ opt \in Message(n) /\ opt.op # "NEXTLINE"
      /\ opt.op \notin {"PADDEF", "LINES", "CREATELINE", "MAKEGAP", "DELETE"}
  BY DEF Message, Attribute
<1>4. PICK y : y = Append(s, def)
  OBVIOUS
<1>5. z = Append(y, opt)
  BY <1>2, <1>3, <1>4, MoreOf
<1>6. Fits(D, def, ids)
  <2>1. Target(D, def) = o
    BY <1>2, Zenon DEF Target
  <2>2. FitsWin(NoWin, def, ids)
    BY <1>2 DEF FitsWin
  <2>3. QED BY <1>2, <2>1, <2>2, Zenon DEF Fits
<1>7. def.op \notin {"LINE", "NEXTLINE"} /\ opt.op \notin {"LINE", "NEXTLINE"}
  BY <1>2, <1>3
<1>8. y \in Seq(Message(n)) /\ PipeOK(u, y, n, ids) /\ \E E : Ends(u, y, E) /\ TermOK(E, n) /\ Quiet(E, D, def)
  BY <1>2, <1>4, <1>6, <1>7, QuietSending, Zenon
<1>9. PICK E : Ends(u, y, E) /\ TermOK(E, n) /\ Quiet(E, D, def)
  BY <1>8, Zenon
<1>10. PICK w : w = Fresh(o, ids[o])
  OBVIOUS
<1>11. w \in Window(n) /\ WinOK(w) /\ Win(E, o) = w
  <2>1. w \in Window(n) /\ WinOK(w)
    BY <1>1, <1>10, FreshIs, Zenon
  <2>2. Win(E, o) = w
    BY <1>2, <1>9, <1>10, Zenon DEF Quiet, Effect
  <2>3. QED BY <2>1, <2>2, Zenon
<1>12. w # NoWin /\ w.attributes = {} /\ w.max = 0 /\ w.lines = <<>> /\ w.object = o /\ w.oid = ids[o]
  <2>1. w # NoWin
    BY <1>11, NoWinIs, Zenon
  <2>2. w.attributes = {} /\ w.max = 0 /\ w.lines = <<>> /\ w.object = o /\ w.oid = ids[o]
    BY <1>10 DEF Fresh
  <2>3. QED BY <2>1, <2>2, Zenon
<1>13. Fits(E, opt, ids)
  <2>1. Target(E, opt) = o
    BY <1>3, Zenon DEF Target
  <2>2. FitsWin(w, opt, ids)
    BY <1>3, <1>12 DEF FitsWin
  <2>3. QED BY <1>3, <1>11, <2>1, <2>2, Zenon DEF Fits
<1>14. z \in Seq(Message(n)) /\ PipeOK(u, z, n, ids) /\ \E F : Ends(u, z, F) /\ TermOK(F, n) /\ Quiet(F, E, opt)
  BY <1>3, <1>5, <1>7, <1>8, <1>9, <1>13, QuietSending, Zenon
<1>15. PICK F : Ends(u, z, F) /\ TermOK(F, n) /\ Quiet(F, E, opt)
  BY <1>14, Zenon
<1>16. Win(F, o) = AWindow(o, ids[o], as, 0)
  <2>1. PICK v : v = Win(F, o)
    OBVIOUS
  <2>2. v = [w EXCEPT !.attributes = opt.attributes]
    BY <1>3, <1>11, <1>12, <1>15, <2>1, Zenon DEF Quiet, Effect
  <2>3. v = [w EXCEPT !.attributes = as]
    BY <1>3, <2>2, Zenon
  <2>4. v = AWindow(o, ids[o], as, 0)
    BY ONLY <1>10, <2>3 DEF Fresh, AWindow
  <2>5. QED BY <2>1, <2>4, Zenon
<1>17. Opened(F, D, o, AWindow(o, ids[o], as, 0))
  BY <1>2, <1>3, <1>9, <1>15, <1>16, Zenon DEF Quiet, Opened
<1>18. QED BY <1>14, <1>15, <1>17, Zenon

\* P_LINES, for a window of a number of lines.
LEMMA Limiting ==
  ASSUME NEW n \in Nat, NEW s \in Seq(Message(n)), NEW u, NEW ids, PipeOK(u, s, n, ids),
         NEW D, Ends(u, s, D), NEW o \in Obj, NEW x, NEW as, Win(D, o) = AWindow(o, x, as, 0), "FAKELINE" \notin as,
         NEW c \in Key, NEW max, max = [op |-> "LINES", obj |-> o, n |-> c], NEW z, z = s \o <<max>>
  PROVE  /\ z \in Seq(Message(n)) /\ PipeOK(u, z, n, ids)
         /\ \E E : Ends(u, z, E) /\ TermOK(E, n) /\ Opened(E, D, o, AWindow(o, x, as, c))
<1>1. /\ max.op = "LINES" /\ max.obj = o /\ max.n = c /\ max \in Message(n) /\ max.op # "NEXTLINE"
      /\ max.op \notin {"PADDEF", "ATTRIBUTE", "CREATELINE", "MAKEGAP", "DELETE"}
      /\ max.op \notin {"LINE", "NEXTLINE"} /\ max.op # "PADDEF"
  BY DEF Message, Limit
<1>2. z = Append(s, max)
  BY <1>1, MoreOf
<1>3. PICK w : w = Win(D, o)
  OBVIOUS
<1>4. TermOK(D, n)
  BY PipeEnds, Zenon DEF Ends
<1>5. /\ w.object = o /\ w.oid = x /\ w.attributes = as /\ w.max = 0 /\ w.lines = <<>>
      /\ w # NoWin /\ w \in Window(n) /\ WinOK(w)
  <2>1. w.object = o /\ w.oid = x /\ w.attributes = as /\ w.max = 0 /\ w.lines = <<>>
    BY <1>3 DEF AWindow
  <2>2. NoWin.object = NoObj
    BY DEF NoWin
  <2>3. w # NoWin
    BY <2>1, <2>2, Constants
  <2>4. AWin(w, n)
    BY <1>3, <1>4, WinOfTerminal, Zenon
  <2>5. QED BY <2>1, <2>3, <2>4, Zenon DEF AWin
<1>6. Fits(D, max, ids)
  <2>1. Target(D, max) = o
    BY <1>1, Zenon DEF Target
  <2>2. Plain(w)
    BY <1>5, Zenon DEF Plain
  <2>3. FitsWin(w, max, ids)
    BY <1>1, <1>5, <2>2 DEF FitsWin
  <2>4. QED BY <1>1, <1>3, <2>1, <2>3, Zenon DEF Fits
<1>7. z \in Seq(Message(n)) /\ PipeOK(u, z, n, ids) /\ \E E : Ends(u, z, E) /\ TermOK(E, n) /\ Quiet(E, D, max)
  BY <1>1, <1>2, <1>6, QuietSending, Zenon
<1>8. PICK E : Ends(u, z, E) /\ TermOK(E, n) /\ Quiet(E, D, max)
  BY <1>7, Zenon
<1>9. Win(E, o) = AWindow(o, x, as, c)
  <2>1. PICK v : v = Win(E, o)
    OBVIOUS
  <2>2. v = P_Lines(w, c)
    BY <1>1, <1>3, <1>5, <1>8, <2>1, Zenon DEF Quiet, Effect
  <2>3. v = [object |-> w.object, oid |-> w.oid, attributes |-> w.attributes, max |-> c,
             lines |-> IF c < w.max THEN <<>> ELSE w.lines]
    BY <1>5, <2>2, LimitIs, Zenon
  <2>4. v = [object |-> o, oid |-> x, attributes |-> as, max |-> c, lines |-> <<>>]
    BY <1>5, <2>3
  <2>5. QED BY <2>1, <2>4, Zenon DEF AWindow
<1>10. Opened(E, D, o, AWindow(o, x, as, c))
  BY <1>1, <1>8, <1>9, Zenon DEF Quiet, Opened
<1>11. QED BY <1>7, <1>8, <1>10, Zenon

\* What a call of NewPad does to the Pads and the library.
Opening(new, g, pads, ids, h, o, kind, c, q) ==
  \E r, def, opt, max, z :
    /\ kind.use = "lines" <=> c > 0
    /\ r = [kind |-> kind, lines |-> c, made |-> {}] /\ new = [pads EXCEPT ![o] = r]
    /\ def = [op |-> "PADDEF", obj |-> o, oid |-> ids[o]]
    /\ opt = [op |-> "ATTRIBUTE", obj |-> o, attributes |-> kind.attributes]
    /\ max = [op |-> "LINES", obj |-> o, n |-> c]
    /\ z = (h.toTerm \o <<def, opt>>) \o (IF c > 0 THEN <<max>> ELSE <<>>)
    /\ g = [prev |-> h.prev, prevpad |-> q, toTerm |-> z]

\* What is seen of a new window: the windows before and after.
WindowSeen(new, old, o, c) == new = W!Opened(old, o, c)

LEMMA NewPadKeeps ==
  ASSUME NEW pads, NEW ids, NEW n, NEW h, NEW u, Inv(pads, ids, n, h, u), NEW o \in Obj, pads[o] = NoPad,
         NEW kind \in Kinds[o], NEW c \in 0 .. MaxKey, NEW q \in Obj \cup {Unset, Freed}, ~ Reuses => q = h.prevpad,
         NEW new, NEW g, Opening(new, g, pads, ids, h, o, kind, c, q)
  PROVE  Inv(new, ids, n, g, u) /\ WindowSeen(Shown(DrainedOf(u, g.toTerm)), Shown(DrainedOf(u, h.toTerm)), o, c)
<1> PICK r, def, opt, max, z :
      /\ kind.use = "lines" <=> c > 0
      /\ r = [kind |-> kind, lines |-> c, made |-> {}] /\ new = [pads EXCEPT ![o] = r]
      /\ def = [op |-> "PADDEF", obj |-> o, oid |-> ids[o]]
      /\ opt = [op |-> "ATTRIBUTE", obj |-> o, attributes |-> kind.attributes]
      /\ max = [op |-> "LINES", obj |-> o, n |-> c]
      /\ z = (h.toTerm \o <<def, opt>>) \o (IF c > 0 THEN <<max>> ELSE <<>>)
      /\ g = [prev |-> h.prev, prevpad |-> q, toTerm |-> z]
  BY Zenon DEF Opening
<1>1. PICK D : Base(pads, ids, n, h, u, u.out, D) /\ (~ Reuses => AskedOK(ids, u.out, D))
  BY BaseOf, Zenon
<1>2. PICK s, out, as, x : s = h.toTerm /\ out = u.out /\ as = kind.attributes /\ x = ids[o]
  OBVIOUS
<1>3. /\ n \in Nat /\ ids \in [Obj -> 1 .. n] /\ pads \in [Obj -> Pads] /\ TypesOK(pads, ids, n, h)
      /\ s \in Seq(Message(n)) /\ PipeOK(u, s, n, ids) /\ TermOK(D, n) /\ Ends(u, s, D)
      /\ out \in Seq(Request(n) \cup Closing(n))
      /\ PrevOK(h, D) /\ OutOK(pads, ids, out, D) /\ \A p \in Obj : PadOK(pads[p], Win(D, p), p, ids, out)
  BY <1>1, <1>2, BaseIs, Zenon
<1>4. /\ kind.use \in {"lines", "create", "gap"} /\ kind \in AllKinds
      /\ as \in SUBSET Options /\ "FAKELINE" \notin as
  <2>1. /\ kind.use \in {"lines", "create", "gap"} /\ kind \in AllKinds
        /\ as \subseteq Options /\ "FAKELINE" \notin as
    BY <1>2, KindIs, Zenon
  <2>2. QED BY <2>1
<1>5. Win(D, o) = NoWin
  BY <1>3, Zenon DEF PadOK
<1>6. PICK y : y = s \o <<def, opt>>
  OBVIOUS
<1>7. /\ y \in Seq(Message(n)) /\ PipeOK(u, y, n, ids)
      /\ \E E : Ends(u, y, E) /\ TermOK(E, n) /\ Opened(E, D, o, AWindow(o, x, as, 0))
  BY <1>2, <1>3, <1>4, <1>5, <1>6, Defining, Zenon
<1>8. PICK E1 : Ends(u, y, E1) /\ TermOK(E1, n) /\ Opened(E1, D, o, AWindow(o, x, as, 0))
  BY <1>7, Zenon
<1>9. /\ z \in Seq(Message(n)) /\ PipeOK(u, z, n, ids)
      /\ \E E : Ends(u, z, E) /\ TermOK(E, n) /\ Opened(E, D, o, AWindow(o, x, as, c))
  <2>1. CASE c > 0
    <3>1. c \in Key
      BY <2>1, Constants DEF Key
    <3>2. z = y \o <<max>>
      <4>1. z = y \o (IF c > 0 THEN <<max>> ELSE <<>>)
        BY <1>2, <1>6, Zenon
      <4>2. QED BY <2>1, <4>1, Zenon
    <3>3. Win(E1, o) = AWindow(o, x, as, 0)
      BY <1>8, Zenon DEF Opened
    <3>4. /\ z \in Seq(Message(n)) /\ PipeOK(u, z, n, ids)
          /\ \E E : Ends(u, z, E) /\ TermOK(E, n) /\ Opened(E, E1, o, AWindow(o, x, as, c))
      BY <1>3, <1>4, <1>7, <1>8, <3>1, <3>2, <3>3, Limiting, Zenon
    <3>5. PICK E : Ends(u, z, E) /\ TermOK(E, n) /\ Opened(E, E1, o, AWindow(o, x, as, c))
      BY <3>4, Zenon
    <3>6. Opened(E, D, o, AWindow(o, x, as, c))
      BY <1>8, <3>5, Zenon DEF Opened
    <3>7. QED BY <3>4, <3>5, <3>6, Zenon
  <2>2. CASE ~ (c > 0)
    <3>1. c = 0
      BY <2>2, Constants
    <3>2. z = y \o <<>>
      <4>1. z = y \o (IF c > 0 THEN <<max>> ELSE <<>>)
        BY <1>2, <1>6, Zenon
      <4>2. QED BY <2>2, <4>1, Zenon
    <3>3. z = y
      <4>1. PICK M : M = Message(n)
        OBVIOUS
      <4>2. y \in Seq(M)
        BY <1>7, <4>1, Zenon
      <4>3. QED BY ONLY <3>2, <4>2
    <3>4. QED BY <1>7, <3>1, <3>3, Zenon
  <2>3. QED BY <2>1, <2>2, Zenon
<1>10. PICK E : Ends(u, z, E) /\ TermOK(E, n) /\ Opened(E, D, o, AWindow(o, x, as, c))
  BY <1>9, Zenon
<1>11. PICK w : w = Win(E, o)
  OBVIOUS
<1>12. w.object = o /\ w.oid = x /\ w.attributes = as /\ w.max = c /\ w.lines = <<>> /\ w # NoWin
  <2>1. w = AWindow(o, x, as, c)
    BY <1>10, <1>11, Zenon DEF Opened
  <2>2. w.object = o /\ w.oid = x /\ w.attributes = as /\ w.max = c /\ w.lines = <<>>
    BY <2>1 DEF AWindow
  <2>3. NoWin.object = NoObj
    BY DEF NoWin
  <2>4. w # NoWin
    BY <2>2, <2>3, Constants
  <2>5. QED BY <2>2, <2>4, Zenon
<1>13. Tildes(w) = {} /\ AskedOf(w) = {}
  BY <1>12, NoneOf, Zenon
<1>14. r.kind = kind /\ r.lines = c /\ r \in Pads /\ r # NoPad
  <2>1. r.kind = kind /\ r.lines = c
    OBVIOUS
  <2>2. r \in Pads
    BY <1>4 DEF Pads
  <2>3. NoPad.kind.use = "none"
    BY DEF NoPad, NoKind
  <2>4. r # NoPad
    BY <1>4, <2>1, <2>3
  <2>5. QED BY <2>1, <2>2, <2>4, Zenon
<1>15. new \in [Obj -> Pads] /\ new[o] = r /\ \A p \in Obj : p # o => new[p] = pads[p]
  BY <1>3, <1>14
<1>16. TypesOK(new, ids, n, g) /\ g.prev = h.prev /\ g.prevpad = q /\ g.toTerm = z
  <2>1. h.prev \in Prev
    BY <1>3, TypesAre, Zenon
  <2>2. PICK a : a = h.prev
    OBVIOUS
  <2>3. g = [prev |-> a, prevpad |-> q, toTerm |-> z]
    BY <2>2, Zenon
  <2>4. g \in Library(n) /\ g.prev = a /\ g.prevpad = q /\ g.toTerm = z
    <3>1. PICK P, O, M : P = Prev /\ O = Obj \cup {Unset, Freed} /\ M = Message(n)
      OBVIOUS
    <3>2. a \in P /\ q \in O /\ z \in Seq(M)
      BY <1>9, <2>1, <2>2, <3>1, Zenon
    <3>3. Library(n) = [prev : P, prevpad : O, toTerm : Seq(M)]
      BY <3>1, Zenon DEF Library
    <3>4. QED BY ONLY <2>3, <3>2, <3>3
  <2>5. TypesOK(new, ids, n, g)
    BY <1>3, <1>15, <2>4, Zenon DEF TypesOK
  <2>6. QED BY <2>2, <2>4, <2>5, Zenon
<1>17. E.prev = D.prev /\ E.LINEobj = D.LINEobj /\ \A p : p # o => Win(E, p) = Win(D, p)
  BY <1>10, Zenon DEF Opened
<1>18. PrevOK(g, E)
  BY <1>3, <1>16, <1>17, Zenon DEF PrevOK
<1>19. ASSUME NEW p \in Obj PROVE PadOK(new[p], Win(E, p), p, ids, out)
  <2>1. CASE p = o
    <3>1. Shows(w, r)
      <4>1. as \ {"FAKELINE"} = as
        BY <1>4
      <4>2. r.kind.use = "create" => Tildes(w) \subseteq r.made
        BY <1>13
      <4>3. QED BY <1>2, <1>4, <1>12, <1>14, <4>1, <4>2, Zenon DEF Shows
    <3>2. IsKind(r, o)
      BY <1>14, Zenon DEF IsKind
    <3>3. PadOK(r, w, o, ids, out)
      BY <1>2, <1>12, <1>14, <3>1, <3>2, Zenon DEF PadOK
    <3>4. QED BY <1>11, <1>15, <2>1, <3>3, Zenon
  <2>2. CASE p # o
    BY <1>3, <1>15, <1>17, <2>2, Zenon
  <2>3. QED BY <2>1, <2>2, Zenon
<1>20. OutOK(new, ids, out, E)
  <2>1. ASSUME NEW i \in 1 .. Len(out), out[i].oid = ids[out[i].obj]
        PROVE  /\ new[out[i].obj] # NoPad
               /\ out[i].op = "USERCLOSE" =>
                    /\ Win(E, out[i].obj) = NoWin
                    /\ \A j \in i + 1 .. Len(out) : ~ (out[j].obj = out[i].obj /\ out[j].oid = out[i].oid)
    <3>1. PICK p : p = out[i].obj
      OBVIOUS
    <3>2. /\ pads[p] # NoPad
          /\ out[i].op = "USERCLOSE" =>
               /\ Win(D, p) = NoWin
               /\ \A j \in i + 1 .. Len(out) : ~ (out[j].obj = out[i].obj /\ out[j].oid = out[i].oid)
      BY <1>3, <2>1, <3>1, Zenon DEF OutOK
    <3>3. p \in Obj
      <4>1. out[i] \in Request(n) \cup Closing(n)
        BY <1>3
      <4>2. QED BY <3>1, <4>1 DEF Request, Closing
    <3>4. p # o
      BY <3>2, Zenon
    <3>5. new[p] = pads[p] /\ Win(E, p) = Win(D, p)
      BY <1>15, <1>17, <3>3, <3>4, Zenon
    <3>6. QED BY <3>1, <3>2, <3>5, Zenon
  <2>2. QED BY <2>1, Zenon DEF OutOK
<1>21. ~ Reuses => AskedOK(ids, out, E)
  <2>1. ASSUME ~ Reuses, NEW p \in Obj, NEW k \in AskedOf(Win(E, p)) PROVE Requested(p, k, ids, out)
    <3>1. p # o
      BY <1>11, <1>13, <2>1
    <3>2. k \in AskedOf(Win(D, p))
      BY <1>17, <2>1, <3>1, Zenon
    <3>3. QED BY <1>1, <1>2, <2>1, <3>2, Zenon DEF AskedOK
  <2>2. QED BY <2>1, Zenon DEF AskedOK
<1>22. Base(new, ids, n, g, u, out, E)
  BY <1>3, <1>9, <1>10, <1>16, <1>18, <1>19, <1>20, Zenon DEF Base
<1>23. WindowSeen(Shown(E), Shown(D), o, c)
  <2>1. Shown(E) = W!Opened(Shown(D), o, w.max)
    <3>1. TermOK(E, n)
      BY <1>10
    <3>2. QED BY ONLY o \in Obj, <1>3, <1>11, <1>12, <1>17, <3>1, OpenedShown
  <2>2. QED BY <1>12, <2>1 DEF WindowSeen
<1>24. D = DrainedOf(u, h.toTerm) /\ E = DrainedOf(u, g.toTerm)
  BY <1>2, <1>3, <1>10, <1>16, Zenon DEF Ends
<1>25. Inv(new, ids, n, g, u)
  BY <1>2, <1>21, <1>22, InvOf, Zenon
<1>26. QED BY <1>23, <1>24, <1>25, Zenon

-----------------------------------------------------------------------------
(* The debugger reads a message. *)

LEMMA TailIs ==
  ASSUME NEW S, NEW s \in Seq(S), s # <<>>, NEW tl, tl = Tail(s)
  PROVE  /\ tl \in Seq(S) /\ Head(s) = s[1] /\ 1 \in 1 .. Len(s) /\ s[1] \in S
         /\ \A i \in 1 .. Len(tl) : i + 1 \in 1 .. Len(s) /\ tl[i] = s[i + 1]
         /\ \A i \in 1 .. Len(s) : i = 1 \/ (i - 1 \in 1 .. Len(tl) /\ tl[i - 1] = s[i])
OBVIOUS

\* A message is answered.
Answers(m, o, k, ids) == m.op = "LINEREQ" /\ m.obj = o /\ m.oid = ids[o] /\ k \in m.lo .. m.hi

\* What there is to say of messages out after the first one, m.
Left(m, tl, out, ids) ==
  /\ \A o : Pending(o, ids, out) => m = UserClosed(o, ids) \/ Pending(o, ids, tl)
  /\ \A o, k : Requested(o, k, ids, out) => Answers(m, o, k, ids) \/ Requested(o, k, ids, tl)
  /\ \A pads, D : OutOK(pads, ids, out, D) => OutOK(pads, ids, tl, D)
  /\ \A pads, D : OutOK(pads, ids, out, D) /\ m.oid = ids[m.obj] =>
       /\ pads[m.obj] # NoPad
       /\ m.op = "USERCLOSE" =>
            /\ Win(D, m.obj) = NoWin
            /\ \A i \in 1 .. Len(tl) : tl[i].oid = ids[tl[i].obj] => tl[i].obj # m.obj

LEMMA LeftOver ==
  ASSUME NEW S, NEW out \in Seq(S), out # <<>>, NEW tl, tl = Tail(out), NEW m, m = Head(out), NEW ids
  PROVE  Left(m, tl, out, ids)
<1>1. /\ tl \in Seq(S) /\ Head(out) = out[1] /\ 1 \in 1 .. Len(out)
      /\ \A i \in 1 .. Len(tl) : i + 1 \in 1 .. Len(out) /\ tl[i] = out[i + 1]
      /\ \A i \in 1 .. Len(out) : i = 1 \/ (i - 1 \in 1 .. Len(tl) /\ tl[i - 1] = out[i])
  BY ONLY out \in Seq(S), out # <<>>, tl = Tail(out), TailIs
<1>2. m = out[1]
  BY <1>1, Zenon
<1>3. ASSUME NEW o, Pending(o, ids, out), m # UserClosed(o, ids) PROVE Pending(o, ids, tl)
  <2>1. PICK i \in 1 .. Len(out) : out[i] = UserClosed(o, ids)
    BY <1>3, Zenon DEF Pending
  <2>2. i - 1 \in 1 .. Len(tl) /\ tl[i - 1] = UserClosed(o, ids)
    BY <1>1, <1>2, <1>3, <2>1, Zenon
  <2>3. QED BY <2>2, Zenon DEF Pending
<1>4. ASSUME NEW o, NEW k, Requested(o, k, ids, out), ~ Answers(m, o, k, ids) PROVE Requested(o, k, ids, tl)
  <2>1. PICK i \in 1 .. Len(out) :
          out[i].op = "LINEREQ" /\ out[i].obj = o /\ out[i].oid = ids[o] /\ k \in out[i].lo .. out[i].hi
    BY <1>4, Zenon DEF Requested
  <2>2. i # 1
    BY <1>2, <1>4, <2>1, Zenon DEF Answers
  <2>3. i - 1 \in 1 .. Len(tl) /\ tl[i - 1] = out[i]
    BY <1>1, <2>2, Zenon
  <2>4. QED BY <2>1, <2>3, Zenon DEF Requested
<1>5. ASSUME NEW pads, NEW D, OutOK(pads, ids, out, D) PROVE OutOK(pads, ids, tl, D)
  <2>1. ASSUME NEW i \in 1 .. Len(tl), tl[i].oid = ids[tl[i].obj]
        PROVE  /\ pads[tl[i].obj] # NoPad
               /\ tl[i].op = "USERCLOSE" =>
                    /\ Win(D, tl[i].obj) = NoWin
                    /\ \A j \in i + 1 .. Len(tl) : ~ (tl[j].obj = tl[i].obj /\ tl[j].oid = tl[i].oid)
    <3>1. i + 1 \in 1 .. Len(out) /\ tl[i] = out[i + 1]
      BY <1>1
    <3>2. /\ pads[tl[i].obj] # NoPad
          /\ tl[i].op = "USERCLOSE" =>
               /\ Win(D, tl[i].obj) = NoWin
               /\ \A j \in (i + 1) + 1 .. Len(out) : ~ (out[j].obj = tl[i].obj /\ out[j].oid = tl[i].oid)
      <4>1. PICK a : a = i + 1
        OBVIOUS
      <4>2. a \in 1 .. Len(out) /\ tl[i] = out[a] /\ out[a].oid = ids[out[a].obj]
        BY <2>1, <3>1, <4>1, Zenon
      <4>3. /\ pads[out[a].obj] # NoPad
            /\ out[a].op = "USERCLOSE" =>
                 /\ Win(D, out[a].obj) = NoWin
                 /\ \A j \in a + 1 .. Len(out) : ~ (out[j].obj = out[a].obj /\ out[j].oid = out[a].oid)
        BY <1>5, <4>2, Zenon DEF OutOK
      <4>4. QED BY <4>1, <4>2, <4>3, Zenon
    <3>3. ASSUME NEW j \in i + 1 .. Len(tl) PROVE j + 1 \in (i + 1) + 1 .. Len(out) /\ tl[j] = out[j + 1]
      BY <1>1
    <3>4. QED BY <3>2, <3>3, Zenon
  <2>2. QED BY <2>1, Zenon DEF OutOK
<1>6. ASSUME NEW pads, NEW D, OutOK(pads, ids, out, D), m.oid = ids[m.obj]
      PROVE  /\ pads[m.obj] # NoPad
             /\ m.op = "USERCLOSE" =>
                  /\ Win(D, m.obj) = NoWin
                  /\ \A i \in 1 .. Len(tl) : tl[i].oid = ids[tl[i].obj] => tl[i].obj # m.obj
  <2>1. /\ pads[m.obj] # NoPad
        /\ m.op = "USERCLOSE" =>
             /\ Win(D, m.obj) = NoWin
             /\ \A j \in 1 + 1 .. Len(out) : ~ (out[j].obj = m.obj /\ out[j].oid = m.oid)
    BY <1>1, <1>2, <1>6, Zenon DEF OutOK
  <2>2. ASSUME m.op = "USERCLOSE", NEW i \in 1 .. Len(tl), tl[i].oid = ids[tl[i].obj] PROVE tl[i].obj # m.obj
    <3>1. i + 1 \in 1 + 1 .. Len(out) /\ tl[i] = out[i + 1]
      BY <1>1
    <3>2. ~ (tl[i].obj = m.obj /\ tl[i].oid = m.oid)
      BY <2>1, <2>2, <3>1, Zenon
    <3>3. QED BY <1>6, <2>2, <3>2, Zenon
  <2>3. QED BY <2>1, <2>2, Zenon
<1>7. QED BY <1>3, <1>4, <1>5, <1>6, Zenon DEF Left

\* Terminals with the same windows.
Alike(E, D) == E.prev = D.prev /\ E.LINEobj = D.LINEobj /\ \A p : Win(E, p) = Win(D, p)

LEMMA TakenIs ==
  ASSUME NEW n \in Nat, NEW ids \in [Obj -> 1 .. n], NEW s \in Seq(Message(n)), NEW u, PipeOK(u, s, n, ids),
         NEW D, Ends(u, s, D), u.out # <<>>, NEW v, v = [u EXCEPT !.out = Tail(@)]
  PROVE  PipeOK(v, s, n, ids) /\ v.out = Tail(u.out) /\ \E E : Ends(v, s, E) /\ Alike(E, D)
<1>1. TermOK(u, n) /\ D = DrainedOf(u, s) /\ TermOK(D, n)
  BY PipeEnds, Zenon DEF Ends
<1>2. PICK wins, obj, out, prev, tl : wins = u.wins /\ obj = u.LINEobj /\ out = u.out /\ prev = u.prev /\ tl = Tail(out)
  OBVIOUS
<1>3. /\ u = [wins |-> wins, LINEobj |-> obj, out |-> out, prev |-> prev]
      /\ obj \in Obj \cup {NoObj} /\ out \in Seq(Request(n) \cup Closing(n))
      /\ prev \in Prev /\ WinsOK(wins, n)
  <2>1. /\ u = [wins |-> u.wins, LINEobj |-> u.LINEobj, out |-> u.out, prev |-> u.prev]
        /\ u.LINEobj \in Obj \cup {NoObj} /\ u.out \in Seq(Request(n) \cup Closing(n))
        /\ u.prev \in Prev /\ WinsOK(u.wins, n)
    BY <1>1, TerminalIs, Zenon
  <2>2. QED BY <1>2, <2>1, Zenon
<1>4. v = [wins |-> wins, LINEobj |-> obj, out |-> tl, prev |-> prev]
  BY ONLY v = [u EXCEPT !.out = Tail(@)], <1>2, <1>3
<1>5. tl \in Seq(Request(n) \cup Closing(n))
  <2>1. out # <<>>
    BY <1>2, Zenon
  <2>2. QED BY <1>2, <1>3, <2>1, TailIs, Zenon
<1>6. TermOK(v, n)
  BY <1>3, <1>4, <1>5, ATerminal, Zenon
<1>7. v.wins = u.wins /\ v.prev = u.prev /\ v.LINEobj = u.LINEobj /\ v.out = tl
  BY <1>2, <1>4
<1>8. \A p : Win(v, p) = Win(u, p)
  BY <1>7, SameWins, Zenon
<1>9. Less(v, u, NoObj, 0, {}, FALSE)
  <2>1. Behind(Win(v, NoObj), Win(u, NoObj), 0, {}, FALSE)
    BY <1>8, BehindItself, Zenon
  <2>2. QED BY <1>7, <1>8, <2>1, Zenon DEF Less
<1>10. PICK E : E = DrainedOf(v, s)
  OBVIOUS
<1>11. PipeOK(v, s, n, ids) /\ Less(E, D, NoObj, 0, {}, FALSE)
  <2>1. PipeOK(v, s, n, ids) /\ Less(DrainedOf(v, s), DrainedOf(u, s), NoObj, 0, {}, FALSE)
    BY ONLY n \in Nat, ids \in [Obj -> 1 .. n], s \in Seq(Message(n)), PipeOK(u, s, n, ids), <1>6, <1>9, Taking
  <2>2. QED BY <1>1, <1>10, <2>1, Zenon
<1>12. Win(D, NoObj) = NoWin
  <2>1. Win(D, NoObj) = NoWin \/ (Win(D, NoObj) \in Window(n) /\ Win(D, NoObj).object = NoObj)
    <3>1. WinsOK(D.wins, n)
      BY <1>1, TerminalIs, Zenon
    <3>2. QED BY ONLY n \in Nat, <3>1, WinIs
  <2>2. Win(D, NoObj) \in Window(n) => Win(D, NoObj).object \in Obj
    BY WindowIs, Zenon
  <2>3. QED BY <2>1, <2>2, Constants, Zenon
<1>13. Alike(E, D)
  <2>1. Win(E, NoObj) = NoWin
    BY <1>11, <1>12, Zenon DEF Less, Behind
  <2>2. QED BY <1>11, <1>12, <2>1, Zenon DEF Less, Alike
<1>14. QED BY <1>2, <1>7, <1>10, <1>11, <1>13, Zenon DEF Ends

LEMMA AlikeIs ==
  ASSUME NEW E, NEW D, Alike(E, D)
  PROVE  /\ \A h : PrevOK(h, D) => PrevOK(h, E)
         /\ \A pads, ids, out : OutOK(pads, ids, out, D) => OutOK(pads, ids, out, E)
         /\ \A p : Win(E, p) = Win(D, p)
<1>1. E.prev = D.prev /\ E.LINEobj = D.LINEobj /\ \A p : Win(E, p) = Win(D, p)
  BY Zenon DEF Alike
<1>2. ASSUME NEW h, PrevOK(h, D) PROVE PrevOK(h, E)
  BY <1>1, <1>2, Zenon DEF PrevOK
<1>3. ASSUME NEW pads, NEW ids, NEW out, OutOK(pads, ids, out, D) PROVE OutOK(pads, ids, out, E)
  BY <1>1, <1>3, Zenon DEF OutOK
<1>4. QED BY <1>1, <1>2, <1>3, Zenon

\* Message m was read, and its effect is still to come.
MessageRead(pads, ids, n, h, v, E, m) ==
  /\ TypesOK(pads, ids, n, h) /\ PipeOK(v, h.toTerm, n, ids) /\ Ends(v, h.toTerm, E)
  /\ v.out \in Seq(Request(n) \cup Closing(n)) /\ m \in Request(n) \cup Closing(n)
  /\ PrevOK(h, E) /\ OutOK(pads, ids, v.out, E)
  /\ \A p \in Obj : m # UserClosed(p, ids) => PadOK(pads[p], Win(E, p), p, ids, v.out)
  /\ ~ Reuses => \A p \in Obj : \A k \in AskedOf(Win(E, p)) : Answers(m, p, k, ids) \/ Requested(p, k, ids, v.out)
  /\ m.oid = ids[m.obj] =>
       /\ pads[m.obj] # NoPad
       /\ m.op = "USERCLOSE" =>
            /\ Win(E, m.obj) = NoWin
            /\ \A i \in 1 .. Len(v.out) : v.out[i].oid = ids[v.out[i].obj] => v.out[i].obj # m.obj

LEMMA ReadOne ==
  ASSUME NEW pads, NEW ids, NEW n, NEW h, NEW u, Inv(pads, ids, n, h, u), u.out # <<>>,
         NEW m, m = Head(u.out), NEW v, v = [u EXCEPT !.out = Tail(@)]
  PROVE  \E E : MessageRead(pads, ids, n, h, v, E, m)
<1>1. PICK D : Base(pads, ids, n, h, u, u.out, D) /\ (~ Reuses => AskedOK(ids, u.out, D))
  BY BaseOf, Zenon
<1>2. PICK s, out, tl : s = h.toTerm /\ out = u.out /\ tl = Tail(out)
  OBVIOUS
<1>3. /\ n \in Nat /\ ids \in [Obj -> 1 .. n] /\ TypesOK(pads, ids, n, h)
      /\ s \in Seq(Message(n)) /\ PipeOK(u, s, n, ids) /\ Ends(u, s, D)
      /\ out \in Seq(Request(n) \cup Closing(n)) /\ out # <<>> /\ m = Head(out)
      /\ PrevOK(h, D) /\ OutOK(pads, ids, out, D) /\ \A p \in Obj : PadOK(pads[p], Win(D, p), p, ids, out)
  BY <1>1, <1>2, BaseIs, Zenon
<1>4. PipeOK(v, s, n, ids) /\ v.out = tl /\ \E E : Ends(v, s, E) /\ Alike(E, D)
  <2>1. PipeOK(v, s, n, ids) /\ v.out = Tail(u.out) /\ \E E : Ends(v, s, E) /\ Alike(E, D)
    BY ONLY u.out # <<>>, v = [u EXCEPT !.out = Tail(@)], <1>3, TakenIs
  <2>2. QED BY <1>2, <2>1, Zenon
<1>5. PICK E : Ends(v, s, E) /\ Alike(E, D)
  BY <1>4, Zenon
<1>6. PrevOK(h, E) /\ OutOK(pads, ids, out, E) /\ \A p : Win(E, p) = Win(D, p)
  BY <1>3, <1>5, AlikeIs, Zenon
<1>7. /\ \A o : Pending(o, ids, out) => m = UserClosed(o, ids) \/ Pending(o, ids, tl)
      /\ \A o, k : Requested(o, k, ids, out) => Answers(m, o, k, ids) \/ Requested(o, k, ids, tl)
      /\ OutOK(pads, ids, tl, E)
      /\ m.oid = ids[m.obj] =>
           /\ pads[m.obj] # NoPad
           /\ m.op = "USERCLOSE" =>
                /\ Win(E, m.obj) = NoWin
                /\ \A i \in 1 .. Len(tl) : tl[i].oid = ids[tl[i].obj] => tl[i].obj # m.obj
  <2>1. PICK S : S = Request(n) \cup Closing(n)
    OBVIOUS
  <2>2. out \in Seq(S) /\ out # <<>> /\ tl = Tail(out) /\ m = Head(out)
    BY <1>2, <1>3, <2>1, Zenon
  <2>3. Left(m, tl, out, ids)
    BY ONLY <2>2, LeftOver
  <2>4. QED BY <1>6, <2>3, Zenon DEF Left
<1>8. ASSUME NEW p \in Obj, m # UserClosed(p, ids) PROVE PadOK(pads[p], Win(E, p), p, ids, tl)
  BY <1>3, <1>6, <1>7, <1>8, Zenon DEF PadOK
<1>9. ASSUME ~ Reuses, NEW p \in Obj, NEW k \in AskedOf(Win(E, p)) PROVE Answers(m, p, k, ids) \/ Requested(p, k, ids, tl)
  <2>1. Requested(p, k, ids, out)
    BY <1>1, <1>2, <1>6, <1>9, Zenon DEF AskedOK
  <2>2. QED BY <1>7, <2>1, Zenon
<1>10. tl \in Seq(Request(n) \cup Closing(n)) /\ m \in Request(n) \cup Closing(n)
  <2>1. PICK S : S = Request(n) \cup Closing(n)
    OBVIOUS
  <2>2. out \in Seq(S) /\ out # <<>> /\ tl = Tail(out) /\ m = Head(out)
    BY <1>2, <1>3, <2>1, Zenon
  <2>3. tl \in Seq(S) /\ m \in S
    BY ONLY <2>2
  <2>4. QED BY <2>1, <2>3, Zenon
<1>11. MessageRead(pads, ids, n, h, v, E, m)
  BY <1>2, <1>3, <1>4, <1>5, <1>6, <1>7, <1>8, <1>9, <1>10, Zenon DEF MessageRead
<1>12. QED BY <1>11, Zenon

\* The object has another identity.
LEMMA StaleKeeps ==
  ASSUME NEW pads, NEW ids, NEW n, NEW h, NEW v, NEW E, NEW m, MessageRead(pads, ids, n, h, v, E, m), m.oid # ids[m.obj]
  PROVE  Inv(pads, ids, n, h, v)
<1>1. \A o, k : m # UserClosed(o, ids) /\ ~ Answers(m, o, k, ids)
  <2>1. ASSUME NEW o PROVE m # UserClosed(o, ids)
    <3>1. UserClosed(o, ids).obj = o /\ UserClosed(o, ids).oid = ids[o]
      BY DEF UserClosed
    <3>2. QED BY <3>1, Zenon
  <2>2. QED BY <2>1, Zenon DEF Answers
<1>2. Base(pads, ids, n, h, v, v.out, E) /\ (~ Reuses => AskedOK(ids, v.out, E))
  BY <1>1, Zenon DEF MessageRead, Base, AskedOK
<1>3. QED BY <1>2, InvOf, Zenon

\* All is right but for object o.
Others(pads, ids, n, h, u, D, o) ==
  /\ TypesOK(pads, ids, n, h) /\ PipeOK(u, h.toTerm, n, ids) /\ Ends(u, h.toTerm, D)
  /\ u.out \in Seq(Request(n) \cup Closing(n))
  /\ PrevOK(h, D) /\ OutOK(pads, ids, u.out, D)
  /\ \A p \in Obj : p # o => PadOK(pads[p], Win(D, p), p, ids, u.out)
  /\ ~ Reuses => \A p \in Obj : p # o => \A k \in AskedOf(Win(D, p)) : Requested(p, k, ids, u.out)

\* Nothing more is heard of o, and its window is another one.
Unheard(ids, u, D, o) ==
  /\ \A i \in 1 .. Len(u.out) : u.out[i].oid = ids[u.out[i].obj] => u.out[i].obj # o
  /\ Win(D, o).oid # ids[o]

LEMMA OthersOf ==
  ASSUME NEW pads, NEW ids, NEW n, NEW h, NEW u, NEW D, Base(pads, ids, n, h, u, u.out, D),
         ~ Reuses => AskedOK(ids, u.out, D), NEW o
  PROVE  Others(pads, ids, n, h, u, D, o)
BY Zenon DEF Base, Others, AskedOK

LEMMA NewIdentity ==
  ASSUME NEW pads, NEW ids, NEW n, NEW h, NEW u, NEW D, NEW o \in Obj, Others(pads, ids, n, h, u, D, o),
         n < MaxUniq, NEW new, new = [ids EXCEPT ![o] = n + 1]
  PROVE  Others(pads, new, n + 1, h, u, D, o) /\ Unheard(new, u, D, o)
<1>1. PICK s, out : s = h.toTerm /\ out = u.out
  OBVIOUS
<1>2. /\ TypesOK(pads, ids, n, h) /\ PipeOK(u, s, n, ids) /\ Ends(u, s, D)
      /\ out \in Seq(Request(n) \cup Closing(n))
      /\ PrevOK(h, D) /\ OutOK(pads, ids, out, D)
      /\ \A p \in Obj : p # o => PadOK(pads[p], Win(D, p), p, ids, out)
      /\ ~ Reuses => \A p \in Obj : p # o => \A k \in AskedOf(Win(D, p)) : Requested(p, k, ids, out)
  BY <1>1, Zenon DEF Others
<1>3. /\ n \in Nat /\ Cardinality(Obj) <= n /\ ids \in [Obj -> 1 .. n] /\ pads \in [Obj -> Pads]
      /\ h = [prev |-> h.prev, prevpad |-> h.prevpad, toTerm |-> s]
      /\ h.prev \in Prev /\ h.prevpad \in Obj \cup {Unset, Freed} /\ s \in Seq(Message(n))
  BY <1>1, <1>2, TypesAre, Zenon
<1>4. /\ s \in Seq(Message(n + 1)) /\ PipeOK(u, s, n + 1, new)
      /\ \A v : TermOK(v, n) => \A p : Win(v, p).oid # n + 1
  BY <1>2, <1>3, Invalidated, Zenon
<1>5. /\ new \in [Obj -> 1 .. n + 1] /\ new[o] = n + 1 /\ \A p \in Obj : p # o => new[p] = ids[p]
  BY <1>3
<1>6. TypesOK(pads, new, n + 1, h)
  <2>1. PICK P, O, M, a, b : /\ P = Prev /\ O = Obj \cup {Unset, Freed} /\ M = Message(n + 1)
                             /\ a = h.prev /\ b = h.prevpad
    OBVIOUS
  <2>2. h = [prev |-> a, prevpad |-> b, toTerm |-> s] /\ a \in P /\ b \in O /\ s \in Seq(M)
    BY <1>3, <1>4, <2>1, Zenon
  <2>3. Library(n + 1) = [prev : P, prevpad : O, toTerm : Seq(M)]
    BY <2>1, Zenon DEF Library
  <2>4. h \in Library(n + 1)
    BY ONLY <2>2, <2>3
  <2>5. n + 1 \in Cardinality(Obj) .. MaxUniq
    <3>1. Cardinality(Obj) \in Nat /\ MaxUniq \in Nat
      BY PadAssumption, FS_CardinalityType
    <3>2. QED BY <1>3, <3>1
  <2>6. QED BY <1>3, <1>5, <2>4, <2>5, Zenon DEF TypesOK
<1>7. out \in Seq(Request(n + 1) \cup Closing(n + 1))
  <2>1. TermOK(u, n + 1)
    BY <1>4, <1>3, PipeEnds, Zenon
  <2>2. n + 1 \in Nat
    BY <1>3
  <2>3. QED BY <1>1, <2>1, <2>2, TerminalIs, Zenon
<1>8. ASSUME NEW i \in 1 .. Len(out)
      PROVE  out[i].obj \in Obj /\ out[i].oid # n + 1
  <2>1. out[i] \in Request(n) \cup Closing(n)
    BY <1>2
  <2>2. out[i].obj \in Obj /\ out[i].oid \in 1 .. n
    BY <2>1 DEF Request, Closing
  <2>3. QED BY <1>3, <2>2
<1>9. ASSUME NEW i \in 1 .. Len(out), out[i].oid = new[out[i].obj]
      PROVE  out[i].obj # o /\ out[i].oid = ids[out[i].obj]
  BY <1>5, <1>8, <1>9, Zenon
<1>10. OutOK(pads, new, out, D)
  BY <1>2, <1>9, Zenon DEF OutOK
<1>11. TermOK(D, n)
  BY <1>2, <1>3, PipeEnds, Zenon DEF Ends
<1>12. Unheard(new, u, D, o)
  BY <1>1, <1>4, <1>5, <1>9, <1>11, Zenon DEF Unheard
<1>13. ASSUME NEW p \in Obj, p # o PROVE PadOK(pads[p], Win(D, p), p, new, out)
  <2>1. new[p] = ids[p]
    BY <1>5, <1>13, Zenon
  <2>2. Pending(p, ids, out) => Pending(p, new, out)
    BY <2>1, Zenon DEF Pending, UserClosed
  <2>3. QED BY <1>2, <1>13, <2>1, <2>2, Zenon DEF PadOK
<1>14. ~ Reuses => \A p \in Obj : p # o => \A k \in AskedOf(Win(D, p)) : Requested(p, k, new, out)
  <2>1. ASSUME ~ Reuses, NEW p \in Obj, p # o, NEW k \in AskedOf(Win(D, p)) PROVE Requested(p, k, new, out)
    <3>1. new[p] = ids[p] /\ Requested(p, k, ids, out)
      BY <1>2, <1>5, <2>1, Zenon
    <3>2. QED BY <3>1, Zenon DEF Requested
  <2>2. QED BY <2>1, Zenon
<1>15. QED BY <1>1, <1>2, <1>4, <1>6, <1>7, <1>10, <1>12, <1>13, <1>14, Zenon DEF Others

\* ~Pad.
LEMMA DeletedKeeps ==
  ASSUME NEW pads, NEW ids, NEW n, NEW h, NEW u, NEW D, NEW o \in Obj, Others(pads, ids, n, h, u, D, o),
         Unheard(ids, u, D, o), NEW new, new = [pads EXCEPT ![o] = NoPad], NEW m, m = [op |-> "DELETE", obj |-> o],
         NEW q, q = IF h.prevpad = o THEN Freed ELSE h.prevpad,
         NEW g, g = [prev |-> h.prev, prevpad |-> q, toTerm |-> Append(h.toTerm, m)]
  PROVE  Inv(new, ids, n, g, u)
<1>1. PICK s, out, z : s = h.toTerm /\ out = u.out /\ z = Append(s, m)
  OBVIOUS
<1>2. /\ TypesOK(pads, ids, n, h) /\ PipeOK(u, s, n, ids) /\ Ends(u, s, D)
      /\ out \in Seq(Request(n) \cup Closing(n))
      /\ PrevOK(h, D) /\ OutOK(pads, ids, out, D)
      /\ \A p \in Obj : p # o => PadOK(pads[p], Win(D, p), p, ids, out)
      /\ ~ Reuses => \A p \in Obj : p # o => \A k \in AskedOf(Win(D, p)) : Requested(p, k, ids, out)
  BY <1>1, Zenon DEF Others
<1>3. /\ n \in Nat /\ ids \in [Obj -> 1 .. n] /\ pads \in [Obj -> Pads]
      /\ h.prev \in Prev /\ h.prevpad \in Obj \cup {Unset, Freed} /\ s \in Seq(Message(n))
  BY <1>1, <1>2, TypesAre, Zenon
<1>4. /\ m.op = "DELETE" /\ m.obj = o /\ m \in Message(n) /\ m.op # "NEXTLINE"
      /\ m.op \notin {"LINE", "NEXTLINE"} /\ m.op # "PADDEF"
      /\ m.op \notin {"PADDEF", "ATTRIBUTE", "LINES", "CREATELINE", "MAKEGAP"}
  BY DEF Message, Deletion
<1>5. /\ \A i \in 1 .. Len(out) : out[i].oid = ids[out[i].obj] => out[i].obj # o
      /\ Win(D, o).oid # ids[o]
  BY <1>1, Zenon DEF Unheard
<1>6. Fits(D, m, ids)
  <2>1. Target(D, m) = o
    BY <1>4, Zenon DEF Target
  <2>2. FitsWin(Win(D, o), m, ids)
    BY <1>4, <1>5 DEF FitsWin
  <2>3. QED BY <1>4, <2>1, <2>2, Zenon DEF Fits
<1>7. z \in Seq(Message(n)) /\ PipeOK(u, z, n, ids) /\ \E E : Ends(u, z, E) /\ TermOK(E, n) /\ Quiet(E, D, m)
  BY <1>1, <1>2, <1>3, <1>4, <1>6, QuietSending, Zenon
<1>8. PICK E : Ends(u, z, E) /\ TermOK(E, n) /\ Quiet(E, D, m)
  BY <1>7, Zenon
<1>9. /\ E.prev = D.prev /\ E.LINEobj = D.LINEobj /\ Win(E, o) = NoWin
      /\ \A p : p # o => Win(E, p) = Win(D, p)
  <2>1. Effect(Win(E, o), Win(D, o), m, LineOf(D, m))
    BY <1>4, <1>8, Zenon DEF Quiet
  <2>2. Win(E, o) = NoWin
    BY <1>4, <2>1, Zenon DEF Effect
  <2>3. QED BY <1>4, <1>8, <2>2, Zenon DEF Quiet
<1>10. q = h.prevpad \/ q \notin Obj
  BY Constants, Zenon
<1>11. q \in Obj \cup {Unset, Freed}
  BY <1>3
<1>12. new \in [Obj -> Pads] /\ new[o] = NoPad /\ \A p \in Obj : p # o => new[p] = pads[p]
  <2>1. NoPad \in Pads
    BY Constants DEF NoPad, Pads
  <2>2. QED BY <1>3, <2>1
<1>13. TypesOK(new, ids, n, g) /\ g.prev = h.prev /\ g.prevpad = q /\ g.toTerm = z
  <2>1. PICK P, O, M, a : P = Prev /\ O = Obj \cup {Unset, Freed} /\ M = Message(n) /\ a = h.prev
    OBVIOUS
  <2>2. g = [prev |-> a, prevpad |-> q, toTerm |-> z] /\ a \in P /\ q \in O /\ z \in Seq(M)
    BY <1>1, <1>3, <1>7, <1>11, <2>1, Zenon
  <2>3. Library(n) = [prev : P, prevpad : O, toTerm : Seq(M)]
    BY <2>1, Zenon DEF Library
  <2>4. g \in Library(n) /\ g.prev = a /\ g.prevpad = q /\ g.toTerm = z
    BY ONLY <2>2, <2>3
  <2>5. QED BY <1>2, <1>12, <2>1, <2>4, Zenon DEF TypesOK
<1>14. PrevOK(g, E)
  BY <1>2, <1>9, <1>10, <1>13, Zenon DEF PrevOK
<1>15. ASSUME NEW p \in Obj PROVE PadOK(new[p], Win(E, p), p, ids, out)
  <2>1. CASE p = o
    BY <1>9, <1>12, <2>1, Zenon DEF PadOK
  <2>2. CASE p # o
    BY <1>2, <1>9, <1>12, <2>2, Zenon
  <2>3. QED BY <2>1, <2>2, Zenon
<1>16. OutOK(new, ids, out, E)
  <2>1. ASSUME NEW i \in 1 .. Len(out), out[i].oid = ids[out[i].obj]
        PROVE  new[out[i].obj] = pads[out[i].obj] /\ Win(E, out[i].obj) = Win(D, out[i].obj)
    <3>1. out[i] \in Request(n) \cup Closing(n)
      BY <1>2
    <3>2. out[i].obj \in Obj
      BY <3>1 DEF Request, Closing
    <3>3. out[i].obj # o
      BY <1>5, <2>1, Zenon
    <3>4. QED BY <1>9, <1>12, <3>2, <3>3, Zenon
  <2>2. QED BY <1>2, <2>1, Zenon DEF OutOK
<1>17. ~ Reuses => AskedOK(ids, out, E)
  <2>1. ASSUME ~ Reuses, NEW p \in Obj, NEW k \in AskedOf(Win(E, p)) PROVE Requested(p, k, ids, out)
    <3>1. p # o
      <4>1. AskedOf(NoWin) = {}
        BY AskedIsTilde, Zenon
      <4>2. ASSUME p = o PROVE FALSE
        <5>1. k \in AskedOf(NoWin)
          BY <1>9, <2>1, <4>2, Zenon
        <5>2. QED BY <4>1, <5>1
      <4>3. QED BY <4>2, Zenon
    <3>2. k \in AskedOf(Win(D, p))
      BY <1>9, <2>1, <3>1, Zenon
    <3>3. QED BY <1>2, <2>1, <3>1, <3>2, Zenon
  <2>2. QED BY <2>1, Zenon DEF AskedOK
<1>18. Base(new, ids, n, g, u, out, E)
  BY <1>2, <1>7, <1>8, <1>13, <1>14, <1>15, <1>16, Zenon DEF Base
<1>19. QED BY <1>1, <1>17, <1>18, InvOf, Zenon

LEMMA DeletedLib ==
  ASSUME NEW pads, NEW ids, NEW n, NEW h, TypesOK(pads, ids, n, h), NEW o, NEW m,
         NEW g, g = Sent([h EXCEPT !.prevpad = IF @ = o THEN Freed ELSE @], m)
  PROVE  g = [prev |-> h.prev, prevpad |-> IF h.prevpad = o THEN Freed ELSE h.prevpad, toTerm |-> Append(h.toTerm, m)]
<1>1. PICK a, b, s, q : a = h.prev /\ b = h.prevpad /\ s = h.toTerm /\ q = IF b = o THEN Freed ELSE b
  OBVIOUS
<1>2. h = [prev |-> a, prevpad |-> b, toTerm |-> s]
  <2>1. h = [prev |-> h.prev, prevpad |-> h.prevpad, toTerm |-> h.toTerm]
    BY TypesAre, Zenon
  <2>2. QED BY <1>1, <2>1, Zenon
<1>3. PICK f : f = [h EXCEPT !.prevpad = IF @ = o THEN Freed ELSE @]
  OBVIOUS
<1>4. f = [prev |-> a, prevpad |-> q, toTerm |-> s]
  BY ONLY <1>1, <1>2, <1>3
<1>5. g = [f EXCEPT !.toTerm = Append(@, m)]
  BY <1>3, Zenon DEF Sent
<1>6. g = [prev |-> a, prevpad |-> q, toTerm |-> Append(s, m)]
  BY ONLY <1>4, <1>5
<1>7. QED BY <1>1, <1>6, Zenon

LEMMA DeletePadKeeps ==
  ASSUME NEW pads, NEW ids, NEW n, NEW h, NEW u, NEW D, NEW o \in Obj, Others(pads, ids, n, h, u, D, o),
         Unheard(ids, u, D, o), NEW new, new = [pads EXCEPT ![o] = NoPad],
         NEW g, g = Sent([h EXCEPT !.prevpad = IF @ = o THEN Freed ELSE @], [op |-> "DELETE", obj |-> o])
  PROVE  Inv(new, ids, n, g, u)
<1>1. PICK m, q : m = [op |-> "DELETE", obj |-> o] /\ q = IF h.prevpad = o THEN Freed ELSE h.prevpad
  OBVIOUS
<1>2. TypesOK(pads, ids, n, h) /\ g = Sent([h EXCEPT !.prevpad = IF @ = o THEN Freed ELSE @], m)
  BY <1>1, Zenon DEF Others
<1>3. g = [prev |-> h.prev, prevpad |-> IF h.prevpad = o THEN Freed ELSE h.prevpad, toTerm |-> Append(h.toTerm, m)]
  BY ONLY <1>2, DeletedLib
<1>4. g = [prev |-> h.prev, prevpad |-> q, toTerm |-> Append(h.toTerm, m)]
  BY <1>1, <1>3, Zenon
<1>5. m = [op |-> "DELETE", obj |-> o] /\ q = (IF h.prevpad = o THEN Freed ELSE h.prevpad)
  BY <1>1, Zenon
<1>6. QED BY ONLY o \in Obj, Others(pads, ids, n, h, u, D, o), Unheard(ids, u, D, o), new = [pads EXCEPT ![o] = NoPad],
                  <1>4, <1>5, DeletedKeeps

LEMMA HostCloseKeeps ==
  ASSUME NEW pads, NEW ids, NEW n, NEW h, NEW u, Inv(pads, ids, n, h, u), NEW o \in Obj, n < MaxUniq,
         NEW new, new = [pads EXCEPT ![o] = NoPad], NEW ids1, ids1 = [ids EXCEPT ![o] = n + 1],
         NEW g, g = Sent([h EXCEPT !.prevpad = IF @ = o THEN Freed ELSE @], [op |-> "DELETE", obj |-> o])
  PROVE  Inv(new, ids1, n + 1, g, u)
<1>1. PICK D : Base(pads, ids, n, h, u, u.out, D) /\ (~ Reuses => AskedOK(ids, u.out, D))
  BY BaseOf, Zenon
<1>2. Others(pads, ids, n, h, u, D, o)
  BY <1>1, OthersOf, Zenon
<1>3. PICK n1 : n1 = n + 1
  OBVIOUS
<1>4. Others(pads, ids1, n1, h, u, D, o) /\ Unheard(ids1, u, D, o)
  BY <1>2, <1>3, NewIdentity, Zenon
<1>5. Inv(new, ids1, n1, g, u)
  BY ONLY o \in Obj, new = [pads EXCEPT ![o] = NoPad],
          g = Sent([h EXCEPT !.prevpad = IF @ = o THEN Freed ELSE @], [op |-> "DELETE", obj |-> o]), <1>4, DeletePadKeeps
<1>6. QED BY <1>3, <1>5, Zenon

\* userclose.
LEMMA ClosedKeeps ==
  ASSUME NEW pads, NEW ids, NEW n, NEW h, NEW v, NEW E, NEW m, MessageRead(pads, ids, n, h, v, E, m),
         m.oid = ids[m.obj], m.op = "USERCLOSE", NEW o, o = m.obj,
         NEW new, new = [pads EXCEPT ![o] = NoPad], NEW ids1, ids1 = [ids EXCEPT ![o] = n + 1],
         NEW g, g = Sent([h EXCEPT !.prevpad = IF @ = o THEN Freed ELSE @], [op |-> "DELETE", obj |-> o])
  PROVE  Inv(new, ids, n, g, v) /\ (n < MaxUniq => Inv(new, ids1, n + 1, g, v))
<1>1. /\ TypesOK(pads, ids, n, h) /\ PipeOK(v, h.toTerm, n, ids) /\ Ends(v, h.toTerm, E)
      /\ v.out \in Seq(Request(n) \cup Closing(n)) /\ m \in Request(n) \cup Closing(n)
      /\ PrevOK(h, E) /\ OutOK(pads, ids, v.out, E)
      /\ \A p \in Obj : m # UserClosed(p, ids) => PadOK(pads[p], Win(E, p), p, ids, v.out)
      /\ ~ Reuses => \A p \in Obj : \A k \in AskedOf(Win(E, p)) : Answers(m, p, k, ids) \/ Requested(p, k, ids, v.out)
      /\ Win(E, o) = NoWin
      /\ \A i \in 1 .. Len(v.out) : v.out[i].oid = ids[v.out[i].obj] => v.out[i].obj # o
  BY Zenon DEF MessageRead
<1>2. o \in Obj /\ ids[o] # 0
  <2>1. o \in Obj
    BY <1>1 DEF Request, Closing
  <2>2. n \in Nat /\ ids \in [Obj -> 1 .. n]
    BY <1>1, TypesAre, Zenon
  <2>3. QED BY <2>1, <2>2
<1>3. \A p : p # o => m # UserClosed(p, ids)
  <2>1. ASSUME NEW p, m = UserClosed(p, ids) PROVE p = o
    <3>1. UserClosed(p, ids).obj = p
      BY DEF UserClosed
    <3>2. QED BY <2>1, <3>1, Zenon
  <2>2. QED BY <2>1, Zenon
<1>4. m.op # "LINEREQ"
  OBVIOUS
<1>5. Others(pads, ids, n, h, v, E, o)
  BY <1>1, <1>3, <1>4, Zenon DEF Others, Answers
<1>6. Unheard(ids, v, E, o)
  <2>1. NoWin.oid = 0
    BY DEF NoWin
  <2>2. QED BY <1>1, <1>2, <2>1, Zenon DEF Unheard
<1>7. Inv(new, ids, n, g, v)
  BY ONLY <1>2, new = [pads EXCEPT ![o] = NoPad],
          g = Sent([h EXCEPT !.prevpad = IF @ = o THEN Freed ELSE @], [op |-> "DELETE", obj |-> o]), <1>5, <1>6, DeletePadKeeps
<1>8. ASSUME n < MaxUniq PROVE Inv(new, ids1, n + 1, g, v)
  <2>1. PICK n1 : n1 = n + 1
    OBVIOUS
  <2>2. Others(pads, ids1, n1, h, v, E, o) /\ Unheard(ids1, v, E, o)
    BY <1>2, <1>5, <1>8, <2>1, NewIdentity, Zenon
  <2>3. Inv(new, ids1, n1, g, v)
    BY ONLY <1>2, new = [pads EXCEPT ![o] = NoPad],
            g = Sent([h EXCEPT !.prevpad = IF @ = o THEN Freed ELSE @], [op |-> "DELETE", obj |-> o]), <2>2, DeletePadKeeps
  <2>4. QED BY <2>1, <2>3, Zenon
<1>9. QED BY <1>7, <1>8, Zenon

\* linereq was called for keys before k; E is the terminal of when it began.
Answering(k, g, pads, ids, n, v, E, m, K, x, as) ==
  \E F : /\ Base(pads, ids, n, g, v, v.out, F)
         /\ \A p : AskedOf(Win(F, p)) \subseteq AskedOf(Win(E, p))
         /\ ~ Reuses => /\ \A j \in K : j < k => j \notin AskedOf(Win(F, m.obj))
                        /\ Writes(F, E, m.obj, {j \in K : j < k}, x, as, n)

LEMMA AnswerOne ==
  ASSUME NEW k \in Key, NEW k1 \in Nat, k1 = k + 1, NEW pads, NEW ids, NEW n, NEW h, NEW v, NEW E, NEW m, m.obj \in Obj,
         NEW K \in SUBSET Key, NEW x \in Text, NEW as \in LineAttributes, Answering(k, h, pads, ids, n, v, E, m, K, x, as),
         NEW g, g = IF k \in K THEN SendLine(h, m.obj, k, x, as) ELSE h
  PROVE  Answering(k1, g, pads, ids, n, v, E, m, K, x, as)
<1>1. PICK F : /\ Base(pads, ids, n, h, v, v.out, F)
               /\ \A p : AskedOf(Win(F, p)) \subseteq AskedOf(Win(E, p))
               /\ ~ Reuses => /\ \A j \in K : j < k => j \notin AskedOf(Win(F, m.obj))
                              /\ Writes(F, E, m.obj, {j \in K : j < k}, x, as, n)
  BY Zenon DEF Answering
<1>2. \A j \in K : j < k1 <=> j < k \/ j = k
  <2>1. k \in Nat /\ \A j \in K : j \in Nat
    BY KeyIs
  <2>2. QED BY <2>1
<1>3. CASE k \in K
  <2>1. g = SendLine(h, m.obj, k, x, as)
    BY <1>3, Zenon
  <2>2. PICK o, out : o = m.obj /\ out = v.out
    OBVIOUS
  <2>3. \E X : /\ Base(pads, ids, n, g, v, out, X) /\ Ordinary(X, F)
               /\ ~ Reuses => k \notin AskedOf(Win(X, o)) /\ Writes(X, F, o, {k}, x, as, n)
    <3>1. Base(pads, ids, n, h, v, out, F) /\ o \in Obj /\ g = SendLine(h, o, k, x, as)
      BY <1>1, <2>1, <2>2, Zenon
    <3>2. QED BY ONLY <3>1, k \in Key, x \in Text, as \in LineAttributes, SendLineKeeps
  <2>4. PICK X : /\ Base(pads, ids, n, g, v, out, X) /\ Ordinary(X, F)
                 /\ ~ Reuses => k \notin AskedOf(Win(X, o)) /\ Writes(X, F, o, {k}, x, as, n)
    BY <2>3, Zenon
  <2>5. \A p : AskedOf(Win(X, p)) \subseteq AskedOf(Win(F, p))
    BY <2>4, Zenon DEF Ordinary
  <2>6. ASSUME NEW p PROVE AskedOf(Win(X, p)) \subseteq AskedOf(Win(E, p))
    <3>1. AskedOf(Win(X, p)) \subseteq AskedOf(Win(F, p)) /\ AskedOf(Win(F, p)) \subseteq AskedOf(Win(E, p))
      BY <1>1, <2>5, Zenon
    <3>2. QED BY <3>1
  <2>7. ASSUME ~ Reuses, NEW j \in K, j < k1 PROVE j \notin AskedOf(Win(X, m.obj))
    <3>1. CASE j = k
      BY <2>2, <2>4, <2>7, <3>1, Zenon
    <3>2. CASE j < k
      <4>1. j \notin AskedOf(Win(F, m.obj))
        BY <1>1, <2>7, <3>2, Zenon
      <4>2. AskedOf(Win(X, m.obj)) \subseteq AskedOf(Win(F, m.obj))
        BY <2>5, Zenon
      <4>3. QED BY <4>1, <4>2
    <3>3. QED BY <1>2, <2>7, <3>1, <3>2, Zenon
  <2>8. ASSUME ~ Reuses PROVE Writes(X, E, m.obj, {j \in K : j < k1}, x, as, n)
    <3>1. PICK A, B, C : A = {j \in K : j < k} /\ B = {k} /\ C = {j \in K : j < k1}
      OBVIOUS
    <3>2. C = A \cup B
      BY <1>2, <1>3, <3>1
    <3>3. Writes(F, E, o, A, x, as, n) /\ Writes(X, F, o, B, x, as, n) /\ n \in Nat
      BY <1>1, <2>2, <2>4, <2>8, <3>1, BaseIs, Zenon
    <3>4. Writes(X, E, o, C, x, as, n)
      BY ONLY <3>2, <3>3, WritesMore
    <3>5. QED BY <2>2, <3>1, <3>4, Zenon
  <2>9. QED BY <2>2, <2>4, <2>6, <2>7, <2>8, Zenon DEF Answering
<1>4. CASE k \notin K
  <2>1. g = h
    BY <1>4, Zenon
  <2>2. \A j \in K : j < k1 => j < k
    BY <1>2, <1>4, Zenon
  <2>3. {j \in K : j < k1} = {j \in K : j < k}
    BY <1>2, <1>4
  <2>4. QED BY <1>1, <2>1, <2>2, <2>3, Zenon DEF Answering
<1>5. QED BY <1>3, <1>4, Zenon

LEMMA AllAnswered ==
  ASSUME NEW pads, NEW ids, NEW n, NEW h, NEW v, NEW E, NEW m, m.obj \in Obj, m.lo \in Key, m.hi \in Key, m.lo <= m.hi,
         Base(pads, ids, n, h, v, v.out, E), NEW K, K \subseteq m.lo .. m.hi, NEW x \in Text, NEW as \in LineAttributes,
         NEW g, g = Answer(h, m, K, x, as)
  PROVE  Answering(m.hi + 1, g, pads, ids, n, v, E, m, K, x, as)
<1>1. PICK lo, hi, c, s, b : /\ lo = m.lo /\ hi = m.hi /\ c = 1 + hi - lo /\ s = UpTo(m.lo, m.hi)
                             /\ b = [keys |-> K, obj |-> m.obj, text |-> x, attributes |-> as]
  OBVIOUS
<1>2. /\ lo \in Nat /\ hi \in Nat /\ 1 <= lo /\ lo <= hi /\ hi <= MaxKey /\ c \in Nat /\ K \subseteq Key
      /\ \A i \in 0 .. c : lo + i \in Nat
      /\ \A i \in 0 .. c - 1 : lo + i \in Key /\ lo + (i + 1) = lo + i + 1 /\ i + 1 \in 1 .. c /\ (i + 1) - 1 = i
  <2>1. lo \in Nat /\ hi \in Nat /\ 1 <= lo /\ lo <= hi /\ hi <= MaxKey
    BY <1>1, KeyIs, Zenon
  <2>2. QED BY <1>1, <2>1, Constants DEF Key
<1>3. Len(s) = c /\ DOMAIN s = 1 .. c /\ \A i \in 1 .. c : s[i] = lo + i - 1
  <2>1. lo <= hi + 1 /\ s = UpTo(lo, hi)
    BY <1>1, <1>2
  <2>2. PICK y : y = UpTo(lo, hi)
    OBVIOUS
  <2>3. Len(UpTo(lo, hi)) = 1 + hi - lo /\ DOMAIN UpTo(lo, hi) = 1 .. Len(UpTo(lo, hi))
        /\ \A i \in 1 .. 1 + hi - lo : UpTo(lo, hi)[i] = lo + i - 1
    BY <1>2, <2>1, UpToIs, Zenon
  <2>4. QED BY <1>1, <2>1, <2>3, Zenon
<1>4. PICK f : Turns(f, "answer", b, h, s) /\ g = f[Len(s)]
  <2>1. Len(s) \in Nat /\ DOMAIN s = 1 .. Len(s)
    BY <1>2, <1>3, Zenon
  <2>2. PICK e : Folding(e, "answer", b, h, s, Len(s)) /\ g = e[1 .. Len(s)]
    <3> DEFINE e == CHOOSE e : Folding(e, "answer", b, h, s, Len(s))
    <3>1. Folding(e, "answer", b, h, s, Len(s))
      BY <2>1, FoldingExists, Zenon
    <3>2. s = UpTo(m.lo, m.hi) /\ b = [keys |-> K, obj |-> m.obj, text |-> x, attributes |-> as]
      BY <1>1, Zenon
    <3>3. Answer(h, m, K, x, as) = e[1 .. Len(s)]
      BY ONLY <2>1, <3>2, Zenon DEF Answer, FoldLeft, MapThenFoldSet, Folding, Turn, e
    <3>4. g = e[1 .. Len(s)]
      BY <3>3, Zenon
    <3>5. QED BY <3>1, <3>4, Zenon
  <2>3. PICK f : Turns(f, "answer", b, h, s) /\ f[Len(s)] = e[1 .. Len(s)]
    <3>1. Folding(e, "answer", b, h, s, Len(s))
      BY <2>2, Zenon
    <3>2. QED BY <2>1, <3>1, FoldingTurns
  <2>4. g = f[Len(s)]
    BY <2>2, <2>3, Zenon
  <2>5. QED BY <2>3, <2>4, Zenon
<1>5. b.keys = K /\ b.obj = m.obj /\ b.text = x /\ b.attributes = as
  BY <1>1
<1>6. f[0] = h /\ \A i \in 1 .. c : f[i] = IF s[i] \in K THEN SendLine(f[i - 1], m.obj, s[i], x, as) ELSE f[i - 1]
  <2>1. f[0] = h /\ \A i \in 1 .. c : f[i] = Turn("answer", b, f[i - 1], s[i])
    BY <1>3, <1>4, Zenon DEF Turns
  <2>2. ASSUME NEW i \in 1 .. c PROVE f[i] = IF s[i] \in K THEN SendLine(f[i - 1], m.obj, s[i], x, as) ELSE f[i - 1]
    <3>1. PICK e, y, z : e = s[i] /\ y = f[i - 1] /\ z = f[i]
      OBVIOUS
    <3>2. z = Turn("answer", b, y, e)
      BY <2>1, <3>1, Zenon
    <3>3. Turn("answer", b, y, e) = IF e \in b.keys THEN SendLine(y, b.obj, e, b.text, b.attributes) ELSE y
      BY DEF Turn
    <3>4. QED BY <1>5, <3>1, <3>2, <3>3, Zenon
  <2>3. QED BY <2>1, <2>2, Zenon
<1> DEFINE P(k, y) == Answering(k, y, pads, ids, n, v, E, m, K, x, as)
           T == {i \in 0 .. c : P(lo + i, f[i])}
<1>7. 0 \in T
  <2>1. lo + 0 = lo /\ \A j \in K : ~ (j < lo)
    BY <1>1, <1>2
  <2>2. P(lo, h)
    <3>1. \A p : AskedOf(Win(E, p)) \subseteq AskedOf(Win(E, p))
      OBVIOUS
    <3>2. {j \in K : j < lo} = {}
      BY <2>1
    <3>3. n \in Nat /\ TermOK(E, n)
      BY BaseIs, Zenon
    <3>4. Writes(E, E, m.obj, {j \in K : j < lo}, x, as, n)
      BY <3>2, <3>3, WritesNone, Zenon
    <3>5. QED BY <2>1, <3>1, <3>4, Zenon DEF Answering
  <2>3. 0 \in 0 .. c
    BY <1>2
  <2>4. QED BY <1>6, <2>1, <2>2, <2>3, Zenon
<1>8. ASSUME NEW i \in 0 .. c - 1, P(lo + i, f[i]) PROVE P(lo + (i + 1), f[i + 1])
  <2>1. PICK j, k, k1, y, z : j = i + 1 /\ k = lo + i /\ k1 = lo + (i + 1) /\ y = f[i] /\ z = f[j]
    OBVIOUS
  <2>2. j \in 1 .. c /\ j - 1 = i /\ k \in Key /\ k1 \in Nat /\ k1 = k + 1 /\ s[j] = k
    BY <1>2, <1>3, <2>1
  <2>3. z = IF k \in K THEN SendLine(y, m.obj, k, x, as) ELSE y
    BY <1>6, <2>1, <2>2, Zenon
  <2>4. Answering(k, y, pads, ids, n, v, E, m, K, x, as)
    BY <1>8, <2>1, Zenon
  <2>5. K \in SUBSET Key
    BY <1>2
  <2>6. Answering(k1, z, pads, ids, n, v, E, m, K, x, as)
    BY ONLY m.obj \in Obj, x \in Text, as \in LineAttributes, <2>2, <2>3, <2>4, <2>5, AnswerOne
  <2>7. QED BY <2>1, <2>6, Zenon
<1>9. \A i \in 0 .. c - 1 : i \in T => i + 1 \in T
  <2>1. \A i \in 0 .. c - 1 : i + 1 \in 0 .. c
    BY <1>2
  <2>2. QED BY <1>8, <2>1, Zenon
<1>10. c \in T
  <2> HIDE DEF T
  <2>1. QED BY <1>2, <1>7, <1>9, InductTo, Zenon
<1>11. Answering(lo + c, f[c], pads, ids, n, v, E, m, K, x, as)
  BY <1>10, Zenon
<1>12. lo + c = m.hi + 1 /\ f[c] = g
  <2>1. lo + c = m.hi + 1
    BY <1>1, <1>2
  <2>2. f[c] = g
    BY <1>3, <1>4, Zenon
  <2>3. QED BY <2>1, <2>2, Zenon
<1>13. QED BY <1>11, <1>12, Zenon

\* linereq is called for the lines that were requested: the others are not
\* asked for any more.
LEMMA LineReqKeeps ==
  ASSUME NEW pads, NEW ids, NEW n, NEW h, NEW v, NEW E, NEW m, MessageRead(pads, ids, n, h, v, E, m),
         m.oid = ids[m.obj], m.op = "LINEREQ", NEW p, p = pads[m.obj],
         NEW K, K \subseteq m.lo .. m.hi,
         \A k \in m.lo .. m.hi : k \notin K => IF p.kind.use = "create" THEN k \notin p.made ELSE p.lines # 0 /\ ~ (k <= p.lines),
         NEW x \in Text, NEW as \in LineAttributes, NEW g, g = Answer(h, m, K, x, as)
  PROVE  /\ Inv(pads, ids, n, g, v)
         /\ ~ Reuses => LinesSeen(Shown(DrainedOf(v, g.toTerm)), Shown(E), m.obj, K, x, as)
<1>1. /\ m \in Request(n) \cup Closing(n)
      /\ ~ Reuses => \A q \in Obj : \A k \in AskedOf(Win(E, q)) : Answers(m, q, k, ids) \/ Requested(q, k, ids, v.out)
      /\ p # NoPad
  BY Zenon DEF MessageRead
<1>2. \A q : m # UserClosed(q, ids)
  <2>1. ASSUME NEW q PROVE m # UserClosed(q, ids)
    <3>1. UserClosed(q, ids).op = "USERCLOSE"
      BY DEF UserClosed
    <3>2. QED BY <3>1
  <2>2. QED BY <2>1, Zenon
<1>3. Base(pads, ids, n, h, v, v.out, E)
  BY <1>2, Zenon DEF MessageRead, Base
<1>4. m.obj \in Obj /\ m.lo \in Key /\ m.hi \in Key /\ m.lo <= m.hi
  BY <1>1 DEF Request, Closing
<1>5. PICK o, k1 : o = m.obj /\ k1 = m.hi + 1
  OBVIOUS
<1>6. Answering(k1, g, pads, ids, n, v, E, m, K, x, as)
  <2>1. Answering(m.hi + 1, g, pads, ids, n, v, E, m, K, x, as)
    BY ONLY K \subseteq m.lo .. m.hi, x \in Text, as \in LineAttributes, g = Answer(h, m, K, x, as), <1>3, <1>4, AllAnswered
  <2>2. QED BY <1>5, <2>1, Zenon
<1>7. PICK F : /\ Base(pads, ids, n, g, v, v.out, F)
               /\ \A q : AskedOf(Win(F, q)) \subseteq AskedOf(Win(E, q))
               /\ ~ Reuses => \A j \in K : j < k1 => j \notin AskedOf(Win(F, o))
               /\ ~ Reuses => Writes(F, E, o, {j \in K : j < k1}, x, as, n)
  BY <1>5, <1>6, Zenon DEF Answering
<1>8. \A k \in m.lo .. m.hi : k < k1
  BY <1>4, <1>5, KeyIs
<1>9. PICK out : out = v.out
  OBVIOUS
<1>10. n \in Nat /\ pads \in [Obj -> Pads] /\ TermOK(F, n) /\ PadOK(pads[o], Win(F, o), o, ids, out)
  BY <1>4, <1>5, <1>7, <1>9, BaseIs, Zenon
<1>11. PICK w : w = Win(F, o)
  OBVIOUS
<1>12. p \in Pads /\ p # NoPad /\ o \in Obj /\ PadOK(p, w, o, ids, out) /\ AWin(w, n)
  <2>1. AWin(w, n)
    BY <1>10, <1>11, WinOfTerminal, Zenon
  <2>2. o \in Obj /\ p = pads[o]
    BY <1>4, <1>5, Zenon
  <2>3. p \in Pads
    BY <1>10, <2>2
  <2>4. QED BY <1>1, <1>10, <1>11, <2>1, <2>2, <2>3, Zenon
<1>13. w # NoWin => Shows(w, p) /\ w \in Window(n) /\ WinOK(w)
  BY <1>12, Zenon DEF PadOK, AWin
<1>14. ASSUME ~ Reuses, NEW k \in m.lo .. m.hi, k \in AskedOf(w) PROVE FALSE
  <2>1. k \notin K
    BY <1>7, <1>8, <1>11, <1>14, Zenon
  <2>2. w # NoWin
    <3>1. AskedOf(NoWin) = {}
      BY AskedIsTilde, Zenon
    <3>2. QED BY <1>14, <3>1
  <2>3. k \in Tildes(w)
    <3>1. AskedOf(w) \subseteq Tildes(w)
      BY AskedIsTilde, Zenon
    <3>2. QED BY <1>14, <3>1
  <2>4. Shows(w, p) /\ w \in Window(n) /\ WinOK(w)
    BY <1>13, <2>2, Zenon
  <2>5. CASE p.kind.use = "create"
    <3>1. k \notin p.made
      BY <2>1, <2>5, Zenon
    <3>2. Tildes(w) \subseteq p.made
      BY <2>4, <2>5, Zenon DEF Shows
    <3>3. QED BY <2>3, <3>1, <3>2
  <2>6. CASE p.kind.use # "create"
    <3>1. p.lines # 0 /\ ~ (k <= p.lines)
      BY <2>1, <2>6, Zenon
    <3>2. w.max = p.lines
      BY <2>4, Zenon DEF Shows
    <3>3. w.max # 0
      BY <3>1, <3>2, Zenon
    <3>4. k <= w.max
      BY <1>10, <2>3, <2>4, <3>3, Within, Zenon
    <3>5. QED BY <3>1, <3>2, <3>4, Zenon
  <2>7. QED BY <2>5, <2>6, Zenon
<1>15. ~ Reuses => AskedOK(ids, out, F)
  <2>1. ASSUME ~ Reuses, NEW q \in Obj, NEW k \in AskedOf(Win(F, q)) PROVE Requested(q, k, ids, out)
    <3>1. k \in AskedOf(Win(E, q))
      BY <1>7, <2>1
    <3>2. Answers(m, q, k, ids) \/ Requested(q, k, ids, out)
      BY <1>1, <1>9, <2>1, <3>1, Zenon
    <3>3. ~ Answers(m, q, k, ids)
      <4>1. ASSUME Answers(m, q, k, ids) PROVE FALSE
        <5>1. q = o /\ k \in m.lo .. m.hi
          BY <1>5, <4>1, Zenon DEF Answers
        <5>2. k \in AskedOf(w)
          BY <1>11, <2>1, <5>1, Zenon
        <5>3. QED BY <1>14, <2>1, <5>1, <5>2, Zenon
      <4>2. QED BY <4>1, Zenon
    <3>4. QED BY <3>2, <3>3, Zenon
  <2>2. QED BY <2>1, Zenon DEF AskedOK
<1>16. Base(pads, ids, n, g, v, v.out, F) /\ (~ Reuses => AskedOK(ids, v.out, F))
  BY <1>7, <1>9, <1>15, Zenon
<1>17. Inv(pads, ids, n, g, v)
  BY <1>16, InvOf, Zenon
<1>18. ASSUME ~ Reuses PROVE LinesSeen(Shown(DrainedOf(v, g.toTerm)), Shown(E), m.obj, K, x, as)
  <2>1. {j \in K : j < k1} = K
    BY <1>8
  <2>2. Writes(F, E, o, K, x, as, n)
    <3>1. Writes(F, E, o, {j \in K : j < k1}, x, as, n)
      BY <1>7, <1>18, Zenon
    <3>2. QED BY <2>1, <3>1, Zenon
  <2>3. LinesSeen(Shown(F), Shown(E), o, K, x, as)
    BY <1>10, <2>2, WritesShown, Zenon
  <2>4. F = DrainedOf(v, g.toTerm)
    BY <1>7, Zenon DEF Base, Ends
  <2>5. QED BY <1>5, <2>3, <2>4, Zenon
<1>19. QED BY <1>17, <1>18, Zenon

-----------------------------------------------------------------------------
(* The initial state. *)

\* The objects have different identifiers.
LEMMA FirstIds == \E f \in [Obj -> 1 .. Cardinality(Obj)] : IsInjective(f)
<1>1. PICK T : T = 1 .. Cardinality(Obj)
  OBVIOUS
<1>2. ExistsBijection(T, Obj)
  BY <1>1, PadAssumption, FS_CardinalityType
<1>3. ExistsBijection(Obj, T)
  BY <1>2, Fun_ExistsBijSymmetric
<1>4. PICK f : f \in Bijection(Obj, T)
  BY <1>3 DEF ExistsBijection
<1>5. f \in [Obj -> T] /\ IsInjective(f)
  BY <1>4 DEF Bijection, Injection
<1>6. QED BY <1>1, <1>5, Zenon

\* Nothing is sent yet.
LEMMA NothingSent ==
  ASSUME NEW n \in Nat, NEW s, s = <<>>, NEW u, TermOK(u, n), NEW ids
  PROVE  PipeOK(u, s, n, ids) /\ Ends(u, s, u)
<1>1. s \in Seq({}) /\ Len(s) = 0
  OBVIOUS
<1> DEFINE r == [i \in {0} |-> u]
<1>2. r[0] = u
  OBVIOUS
<1> HIDE DEF r
<1>3. /\ \A i \in 0 .. Len(s) : i = 0
      /\ \A i \in 1 .. Len(s) : FALSE
  BY <1>1
<1>4. Piped(r, u, s, n, ids)
  BY <1>2, <1>3, Zenon DEF Piped, Reads
<1>5. PipeOK(u, s, n, ids) /\ DrainedOf(u, s) = r[Len(s)]
  BY <1>1, <1>4, PipeBy
<1>6. QED BY <1>1, <1>2, <1>5, Zenon DEF Ends

LEMMA NoWindows ==
  /\ TermInit.wins = <<>> /\ TermInit.LINEobj = NoObj /\ TermInit.out = <<>>
  /\ TermInit.prev = [key |-> 0, attributes |-> {}]
  /\ \A n \in Nat : TermOK(TermInit, n)
  /\ \A o : Win(TermInit, o) = NoWin
<1>1. /\ TermInit.wins = <<>> /\ TermInit.LINEobj = NoObj /\ TermInit.out = <<>>
      /\ TermInit.prev = [key |-> 0, attributes |-> {}]
  BY DEF TermInit
<1>2. ASSUME NEW n \in Nat PROVE TermOK(TermInit, n)
  <2>1. PICK A, S : A = Window(n) /\ S = Request(n) \cup Closing(n)
    OBVIOUS
  <2>2. TermInit.prev \in Prev
    BY <1>1, Constants DEF Prev
  <2>3. TermInit.wins \in Seq(A) /\ TermInit.out \in Seq(S) /\ Len(TermInit.wins) = 0
    BY <1>1
  <2>4. TermInit \in [wins : Seq(A), LINEobj : Obj \cup {NoObj}, out : Seq(S), prev : Prev]
    BY <2>2, <2>3 DEF TermInit
  <2>5. \A i \in 1 .. Len(TermInit.wins) : FALSE
    BY <2>3
  <2>6. QED BY <2>1, <2>4, <2>5, Zenon DEF TermOK, Terminal, OneEach
<1>3. ASSUME NEW o PROVE Win(TermInit, o) = NoWin
  <2>1. ~ HasWin(TermInit, o)
    BY <1>1 DEF HasWin
  <2>2. QED BY <2>1, Zenon DEF Win
<1>4. QED BY <1>1, <1>2, <1>3, Zenon

LEMMA InitOK == Init => PInv
<1> SUFFICES ASSUME Init PROVE PInv
  OBVIOUS
<1>1. oid \in [Obj -> 1 .. uniq]
  <2>1. uniq = Cardinality(Obj) /\ oid = CHOOSE f \in [Obj -> 1 .. uniq] : IsInjective(f)
    BY DEF Init
  <2>2. \E f \in [Obj -> 1 .. uniq] : IsInjective(f)
    BY <2>1, FirstIds
  <2>3. QED BY <2>1, <2>2, Zenon
<1>2. uniq \in Nat /\ uniq \in Cardinality(Obj) .. MaxUniq
  <2>1. Cardinality(Obj) \in Nat
    BY PadAssumption, FS_CardinalityType
  <2>2. QED BY <2>1, PadAssumption DEF Init
<1>3. lib.toTerm = <<>> /\ lib.prev = [key |-> 0, attributes |-> {}] /\ lib.prevpad = Unset /\ t = TermInit
  BY DEF Init
<1>4. PICK S : S = Message(uniq)
  OBVIOUS
<1>5. lib \in Library(uniq)
  <2>1. lib.prev \in Prev /\ lib.prevpad \in Obj \cup {Unset, Freed} /\ lib.toTerm \in Seq(S)
    BY <1>3, Constants DEF Prev
  <2>2. lib = [prev |-> lib.prev, prevpad |-> lib.prevpad, toTerm |-> lib.toTerm]
    BY DEF Init
  <2>3. lib \in [prev : Prev, prevpad : Obj \cup {Unset, Freed}, toTerm : Seq(S)]
    BY <2>1, <2>2
  <2>4. QED BY <1>4, <2>3, Zenon DEF Library
<1>6. \A o \in Obj : pad[o] = NoPad
  BY DEF Init
<1>7. pad \in [Obj -> Pads]
  <2>1. NoPad \in Pads
    BY Constants DEF NoPad, Pads
  <2>2. pad = [o \in Obj |-> NoPad]
    BY Zenon DEF Init
  <2>3. QED BY <2>1, <2>2
<1>8. TermOK(t, uniq) /\ t.out = <<>> /\ t.prev = lib.prev /\ \A o : Win(t, o) = NoWin
  BY <1>2, <1>3, NoWindows, Zenon
<1>9. PipeOK(t, lib.toTerm, uniq, oid) /\ DrainedOf(t, lib.toTerm) = t
  <2>1. PICK s, u, n, ids : s = lib.toTerm /\ u = t /\ n = uniq /\ ids = oid
    OBVIOUS
  <2>2. n \in Nat /\ s = <<>> /\ TermOK(u, n)
    BY <1>2, <1>3, <1>8, <2>1, Zenon
  <2>3. PipeOK(u, s, n, ids) /\ Ends(u, s, u)
    BY ONLY <2>2, NothingSent, Zenon
  <2>4. QED BY <2>1, <2>3, Zenon DEF Ends
<1>10. Agree(pad, oid, lib, t.out, t)
  <2>1. PrevOK(lib, t)
    <3>1. lib.prevpad \notin Obj
      BY <1>3, Constants, Zenon
    <3>2. QED BY <1>8, <3>1, Zenon DEF PrevOK
  <2>2. \A i \in 1 .. Len(t.out) : FALSE
    <3>1. Len(t.out) = 0
      BY <1>8
    <3>2. QED BY <3>1
  <2>3. OutOK(pad, oid, t.out, t)
    BY <2>2, Zenon DEF OutOK
  <2>4. AskedOK(oid, t.out, t)
    BY <1>8, AskedIsTilde DEF AskedOK
  <2>5. ASSUME NEW o \in Obj PROVE PadOK(pad[o], Win(t, o), o, oid, t.out)
    BY <1>6, <1>8, Zenon DEF PadOK
  <2>6. QED BY <2>1, <2>3, <2>4, <2>5, Zenon DEF Agree
<1>11. TypesOK(pad, oid, uniq, lib)
  BY <1>1, <1>2, <1>5, <1>7, Zenon DEF TypesOK
<1>12. QED BY <1>9, <1>10, <1>11, Zenon DEF PInv, Inv

-----------------------------------------------------------------------------
(* The next step. *)

LEMMA InvNext ==
  ASSUME Inv(pad', oid', uniq', lib', t')
  PROVE  PInv'
BY DEF PInv

LEMMA NewPadOK ==
  ASSUME PInv, NEW o \in Obj, NEW kind \in Kinds[o], NEW n \in 0 .. MaxKey, NewPad(o, kind, n)
  PROVE  PInv'
<1>1. Inv(pad, oid, uniq, lib, t) /\ pad[o] = NoPad /\ (kind.use = "lines" <=> n > 0) /\ UNCHANGED <<oid, uniq, t>>
  BY DEF PInv, NewPad
<1>2. PICK r, new : r = [kind |-> kind, lines |-> n, made |-> {}] /\ new = [pad EXCEPT ![o] = r]
  OBVIOUS
<1>3. PICK def, opt, max : /\ def = [op |-> "PADDEF", obj |-> o, oid |-> oid[o]]
                           /\ opt = [op |-> "ATTRIBUTE", obj |-> o, attributes |-> kind.attributes]
                           /\ max = [op |-> "LINES", obj |-> o, n |-> n]
  OBVIOUS
<1>4. pad' = new
  BY <1>2 DEF NewPad
<1>5. PICK p \in {lib.prevpad} \cup (IF Reuses /\ lib.prevpad = Freed THEN {o} ELSE {}) :
        lib' = [lib EXCEPT !.prevpad = p, !.toTerm = @ \o <<def, opt>> \o (IF n > 0 THEN <<max>> ELSE <<>>)]
  BY <1>3, Zenon DEF NewPad
<1>6. lib = [prev |-> lib.prev, prevpad |-> lib.prevpad, toTerm |-> lib.toTerm] /\ lib.prevpad \in Obj \cup {Unset, Freed}
  BY <1>1, InvIs
<1>7. PICK z : z = (lib.toTerm \o <<def, opt>>) \o (IF n > 0 THEN <<max>> ELSE <<>>)
  OBVIOUS
<1>8. lib' = [prev |-> lib.prev, prevpad |-> p, toTerm |-> z]
  BY <1>5, <1>6, <1>7
<1>9. p \in Obj \cup {Unset, Freed} /\ (~ Reuses => p = lib.prevpad)
  BY <1>5, <1>6
<1>10. Inv(new, oid, uniq, lib', t)
  <2>1. Opening(new, lib', pad, oid, lib, o, kind, n, p)
    BY <1>1, <1>2, <1>3, <1>7, <1>8, Zenon DEF Opening
  <2>2. QED BY <1>1, <1>9, <2>1, NewPadKeeps, Zenon
<1>11. QED BY <1>1, <1>4, <1>10, InvNext

LEMMA InsertOK ==
  ASSUME PInv, NEW o \in Obj, NEW k \in Key, NEW x \in Text, NEW as \in LineAttributes, insert(o, k, x, as)
  PROVE  PInv'
<1>1. Inv(pad, oid, uniq, lib, t) /\ lib' = SendLine(lib, o, k, x, as) /\ UNCHANGED <<pad, oid, uniq, t>>
  BY DEF PInv, insert
<1>2. Inv(pad, oid, uniq, lib', t)
  BY <1>1, InsertKeeps
<1>3. QED BY <1>1, <1>2, InvNext

LEMMA RemoveLineOK ==
  ASSUME PInv, NEW o \in Obj, NEW k \in Key, removeline(o, k)
  PROVE  PInv'
<1>1. /\ Inv(pad, oid, uniq, lib, t) /\ pad[o] # NoPad /\ pad' = [pad EXCEPT ![o].made = @ \ {k}]
      /\ lib' = Sent(lib, [op |-> "REMOVELINE", obj |-> o, key |-> k]) /\ UNCHANGED <<oid, uniq, t>>
  BY DEF PInv, removeline, MayCall
<1>2. Inv(pad', oid, uniq, lib', t)
  BY ONLY o \in Obj, k \in Key, <1>1, RemoveLineKeeps
<1>3. QED BY <1>1, <1>2, InvNext

LEMMA ClearOK ==
  ASSUME PInv, NEW o \in Obj, clear(o)
  PROVE  PInv'
<1>1. /\ Inv(pad, oid, uniq, lib, t) /\ pad[o] # NoPad /\ pad' = [pad EXCEPT ![o].made = {}]
      /\ lib' = Sent(lib, [op |-> "CLEAR", obj |-> o]) /\ UNCHANGED <<oid, uniq, t>>
  BY DEF PInv, clear, MayCall
<1>2. Inv(pad', oid, uniq, lib', t)
  BY ONLY o \in Obj, <1>1, ClearKeeps
<1>3. QED BY <1>1, <1>2, InvNext

LEMMA LinesOK ==
  ASSUME PInv, NEW o \in Obj, NEW n \in Key, lines(o, n)
  PROVE  PInv'
<1>1. /\ Inv(pad, oid, uniq, lib, t) /\ pad[o] # NoPad /\ pad[o].kind.use = "lines"
      /\ pad' = [pad EXCEPT ![o].lines = n]
      /\ lib' = Sent(lib, [op |-> "LINES", obj |-> o, n |-> n]) /\ UNCHANGED <<oid, uniq, t>>
  BY DEF PInv, lines, MayCall
<1>2. Inv(pad', oid, uniq, lib', t)
  BY ONLY o \in Obj, n \in Key, <1>1, LinesKeep
<1>3. QED BY <1>1, <1>2, InvNext

LEMMA CreateLineOK ==
  ASSUME PInv, NEW o \in Obj, NEW lo \in Key, NEW hi \in Key, createline(o, lo, hi)
  PROVE  PInv'
<1>1. /\ Inv(pad, oid, uniq, lib, t) /\ pad[o] # NoPad /\ pad[o].kind.use = "create" /\ lo <= hi
      /\ lib' = Sent(lib, [op |-> "CREATELINE", obj |-> o, lo |-> lo, hi |-> hi]) /\ UNCHANGED <<oid, uniq, t>>
  BY DEF PInv, createline, MayCall
<1>2. PICK S : S = lo .. hi
  OBVIOUS
<1>3. pad' = [pad EXCEPT ![o].made = @ \cup S]
  BY <1>2, Zenon DEF createline
<1>4. Inv(pad', oid, uniq, lib', t)
  BY ONLY o \in Obj, lo \in Key, hi \in Key, <1>1, <1>2, <1>3, CreateKeeps
<1>5. QED BY <1>1, <1>4, InvNext

\* The lines of a window that is there.
LEMMA KeysAre ==
  ASSUME PInv, NEW o, NEW l \in AsSet(Win(DrainedOf(t, lib.toTerm), o).lines)
  PROVE  l.key \in KeysOf(o)
<1>1. PICK D : D = DrainedOf(t, lib.toTerm)
  OBVIOUS
<1>2. uniq \in Nat /\ TermOK(D, uniq)
  BY <1>1, InvIs DEF PInv
<1>3. WinsOK(D.wins, uniq)
  BY <1>2, TerminalIs, Zenon
<1>4. PICK i, w : i = ObjToPad(D, o) /\ w = Win(D, o)
  OBVIOUS
<1>5. Win(D, o) # NoWin
  <2>1. Len(NoWin.lines) = 0
    BY DEF NoWin
  <2>2. AsSet(NoWin.lines) = {}
    BY <2>1 DEF AsSet
  <2>3. QED BY <1>1, <2>2
<1>6. ObjToPad(D, o) # 0 /\ Win(D, o) = D.wins[ObjToPad(D, o)]
  <2>1. PICK n, u, p : n = uniq /\ u = D /\ p = o
    OBVIOUS
  <2>2. n \in Nat /\ WinsOK(u.wins, n) /\ Win(u, p) # NoWin
    BY <1>2, <1>3, <1>5, <2>1, Zenon
  <2>3. ObjToPad(u, p) # 0 /\ Win(u, p) = u.wins[ObjToPad(u, p)]
    BY ONLY <2>2, WinIs
  <2>4. QED BY <2>1, <2>3, Zenon
<1>7. i # 0 /\ D.wins[i] = w /\ AWin(w, uniq) /\ w # NoWin
  <2>1. AWin(Win(D, o), uniq)
    BY <1>2, WinOfTerminal, Zenon
  <2>2. QED BY <1>4, <1>5, <1>6, <2>1, Zenon
<1>8. w.lines \in Seq(Line)
  <2>1. w \in Window(uniq)
    BY <1>7, Zenon DEF AWin
  <2>2. QED BY <1>2, <2>1, WindowIs, Zenon
<1>9. PICK ls : ls = w.lines
  OBVIOUS
<1>10. LinesOf(o) = ls
  BY <1>1, <1>4, <1>7, <1>9, Zenon DEF LinesOf, Drained
<1>11. DOMAIN ls = 1 .. Len(ls)
  BY <1>8, <1>9
<1>12. PICK j \in 1 .. Len(ls) : l = ls[j]
  BY <1>1, <1>4, <1>9, Zenon DEF AsSet
<1>13. KeysOf(o) = {ls[j_1].key : j_1 \in 1 .. Len(ls)}
  BY <1>10, <1>11, Zenon DEF KeysOf
<1>14. QED BY <1>12, <1>13

LEMMA MakeGapOK ==
  ASSUME PInv, NEW o \in Obj, NEW k \in Key, MaxKey \notin KeysOf(o), makegap(o, k, 1)
  PROVE  PInv'
<1>1. /\ Inv(pad, oid, uniq, lib, t) /\ pad[o] # NoPad /\ pad[o].kind.use = "gap" /\ pad' = pad
      /\ lib' = Sent(lib, [op |-> "MAKEGAP", obj |-> o, key |-> k, gap |-> 1]) /\ UNCHANGED <<oid, uniq, t>>
  BY DEF PInv, makegap, MayCall
<1>2. \A l \in AsSet(Win(DrainedOf(t, lib.toTerm), o).lines) : l.key # MaxKey
  BY KeysAre, Zenon
<1>3. Inv(pad', oid, uniq, lib', t)
  BY ONLY o \in Obj, k \in Key, <1>1, <1>2, GapKeeps
<1>4. QED BY <1>1, <1>3, InvNext

LEMMA HostCloseOK ==
  ASSUME PInv, NEW o \in Obj, HostClose(o)
  PROVE  PInv'
<1>1. /\ Inv(pad, oid, uniq, lib, t) /\ uniq < MaxUniq /\ pad' = [pad EXCEPT ![o] = NoPad]
      /\ uniq' = uniq + 1 /\ oid' = [oid EXCEPT ![o] = uniq + 1] /\ t' = t
      /\ lib' = Sent([lib EXCEPT !.prevpad = IF @ = o THEN Freed ELSE @], [op |-> "DELETE", obj |-> o])
  BY DEF PInv, HostClose, deletePad, invalidate
<1>2. Inv(pad', oid', uniq + 1, lib', t)
  BY ONLY o \in Obj, <1>1, HostCloseKeeps
<1>3. QED BY <1>1, <1>2, InvNext

LEMMA ReceiveOK == ASSUME PInv, Receive PROVE PInv'
<1>1. /\ Inv(pad, oid, uniq, lib, t) /\ lib.toTerm # <<>> /\ t' = PadOp(t, Head(lib.toTerm))
      /\ lib' = [lib EXCEPT !.toTerm = Tail(@)] /\ UNCHANGED <<pad, oid, uniq>>
  BY DEF PInv, Receive
<1>2. Inv(pad, oid, uniq, lib', t')
  BY ONLY <1>1, ReceiveKeeps
<1>3. QED BY <1>1, <1>2, InvNext

LEMMA UserCloseOK ==
  ASSUME PInv, NEW i, i \in 1 .. Len(t.wins), UserClose(i)
  PROVE  PInv'
<1>1. Inv(pad, oid, uniq, lib, t) /\ t' = DeletePad(t, i) /\ UNCHANGED <<pad, oid, uniq, lib>>
  BY DEF PInv, UserClose
<1>2. Inv(pad, oid, uniq, lib, t')
  BY <1>1, UserCloseKeeps
<1>3. QED BY <1>1, <1>2, InvNext

LEMMA CutOK ==
  ASSUME PInv, NEW i, i \in 1 .. Len(t.wins), NEW j, j \in 1 .. Len(t.wins[i].lines), Cut(i, j)
  PROVE  PInv'
<1>1. /\ Inv(pad, oid, uniq, lib, t) /\ t' = [t EXCEPT !.wins[i].lines = RemoveAt(@, j)]
      /\ UNCHANGED <<pad, oid, uniq, lib>>
  BY DEF PInv, Cut
<1>2. Inv(pad, oid, uniq, lib, t')
  BY <1>1, CutKeeps
<1>3. QED BY <1>1, <1>2, InvNext

LEMMA PaintOK ==
  ASSUME PInv, NEW i, i \in 1 .. Len(t.wins), NEW lo \in Key, NEW hi \in Key, lo <= hi, Paint(i, lo, hi)
  PROVE  PInv'
<1>1. /\ Inv(pad, oid, uniq, lib, t) /\ t' = Painted(t, i, lo, hi) /\ UNCHANGED <<pad, oid, uniq, lib>>
      /\ hi <= IF t.wins[i].max # 0 THEN t.wins[i].max ELSE Len(t.wins[i].lines)
  BY DEF PInv, Paint
<1>2. Inv(pad, oid, uniq, lib, t')
  BY ONLY i \in 1 .. Len(t.wins), lo \in Key, hi \in Key, lo <= hi, <1>1, PaintKeeps
<1>3. QED BY <1>1, <1>2, InvNext

\* The windows and their lines.
LEMMA WindowsAre ==
  ASSUME PInv
  PROVE  /\ DOMAIN t.wins = 1 .. Len(t.wins)
         /\ \A i \in 1 .. Len(t.wins) : DOMAIN t.wins[i].lines = 1 .. Len(t.wins[i].lines)
<1>1. uniq \in Nat /\ TermOK(t, uniq)
  BY InvIs DEF PInv
<1>2. t.wins \in Seq(Window(uniq))
  BY <1>1, TerminalIs, Zenon DEF WinsOK
<1>3. PICK A : A = Window(uniq)
  OBVIOUS
<1>4. t.wins \in Seq(A)
  BY <1>2, <1>3
<1>5. DOMAIN t.wins = 1 .. Len(t.wins) /\ \A i \in 1 .. Len(t.wins) : t.wins[i] \in A
  BY <1>4
<1>6. ASSUME NEW i \in 1 .. Len(t.wins) PROVE DOMAIN t.wins[i].lines = 1 .. Len(t.wins[i].lines)
  <2>1. PICK w : w = t.wins[i]
    OBVIOUS
  <2>2. w \in Window(uniq)
    BY <1>3, <1>5, <2>1, Zenon
  <2>3. w.lines \in Seq(Line)
    BY <1>1, <2>2, WindowIs, Zenon
  <2>4. DOMAIN w.lines = 1 .. Len(w.lines)
    BY <2>3
  <2>5. QED BY <2>1, <2>4, Zenon
<1>7. QED BY <1>5, <1>6, Zenon

LEMMA UserOK == ASSUME PInv, User PROVE PInv'
<1>1. PICK i \in DOMAIN t.wins :
        \/ UserClose(i)
        \/ \E j \in DOMAIN t.wins[i].lines : Cut(i, j)
        \/ \E lo, hi \in Key : lo <= hi /\ Paint(i, lo, hi)
  BY Zenon DEF User
<1>2. i \in 1 .. Len(t.wins) /\ DOMAIN t.wins[i].lines = 1 .. Len(t.wins[i].lines)
  BY <1>1, WindowsAre, Zenon
<1>3. CASE UserClose(i)
  BY <1>2, <1>3, UserCloseOK, Zenon
<1>4. ASSUME NEW j \in DOMAIN t.wins[i].lines, Cut(i, j) PROVE PInv'
  BY <1>2, <1>4, CutOK, Zenon
<1>5. ASSUME NEW lo \in Key, NEW hi \in Key, lo <= hi, Paint(i, lo, hi) PROVE PInv'
  BY <1>2, <1>5, PaintOK, Zenon
<1>6. QED BY <1>1, <1>3, <1>4, <1>5, Zenon

LEMMA HeadRead ==
  ASSUME PInv, t.out # <<>>, NEW m, m = Head(t.out), t' = Taken
  PROVE  \E E : MessageRead(pad, oid, uniq, lib, t', E, m)
<1>1. Inv(pad, oid, uniq, lib, t) /\ t' = [t EXCEPT !.out = Tail(@)]
  BY DEF PInv, Taken
<1>2. QED BY ONLY t.out # <<>>, m = Head(t.out), <1>1, ReadOne

LEMMA ServeStaleOK == ASSUME PInv, ServeStale PROVE PInv'
<1>1. PICK m : m = Head(t.out)
  OBVIOUS
<1>2. t.out # <<>> /\ t' = Taken /\ UNCHANGED <<pad, oid, uniq, lib>> /\ m.oid # oid[m.obj]
  BY <1>1 DEF ServeStale, Meant
<1>3. PICK E : MessageRead(pad, oid, uniq, lib, t', E, m)
  BY <1>1, <1>2, HeadRead, Zenon
<1>4. Inv(pad, oid, uniq, lib, t')
  BY <1>2, <1>3, StaleKeeps, Zenon
<1>5. QED BY <1>2, <1>4, InvNext

LEMMA ServeUserCloseOK == ASSUME PInv, ServeUserClose PROVE PInv'
<1>1. PICK m, o : m = Head(t.out) /\ o = m.obj
  OBVIOUS
<1>2. /\ t.out # <<>> /\ t' = Taken /\ m.op = "USERCLOSE" /\ m.oid = oid[m.obj]
      /\ pad' = [pad EXCEPT ![o] = NoPad]
      /\ lib' = Sent([lib EXCEPT !.prevpad = IF @ = o THEN Freed ELSE @], [op |-> "DELETE", obj |-> o])
  BY <1>1 DEF ServeUserClose, Meant, HeadIs, deletePad
<1>3. \/ UNCHANGED <<oid, uniq>>
      \/ uniq < MaxUniq /\ uniq' = uniq + 1 /\ oid' = [oid EXCEPT ![o] = uniq + 1]
  BY <1>1 DEF ServeUserClose, invalidate
<1>4. PICK E : MessageRead(pad, oid, uniq, lib, t', E, m)
  BY <1>1, <1>2, HeadRead, Zenon
<1>5. PICK ids1 : ids1 = [oid EXCEPT ![o] = uniq + 1]
  OBVIOUS
<1>6. Inv(pad', oid, uniq, lib', t') /\ (uniq < MaxUniq => Inv(pad', ids1, uniq + 1, lib', t'))
  <2>1. o = m.obj
    BY <1>1
  <2>2. QED BY ONLY <1>2, <1>4, <1>5, <2>1, ClosedKeeps
<1>7. CASE UNCHANGED <<oid, uniq>>
  BY <1>6, <1>7, InvNext
<1>8. CASE uniq < MaxUniq /\ uniq' = uniq + 1 /\ oid' = [oid EXCEPT ![o] = uniq + 1]
  BY <1>5, <1>6, <1>8, InvNext
<1>9. QED BY <1>3, <1>7, <1>8, Zenon

LEMMA ServeLineReqOK ==
  ASSUME PInv, NEW x \in Text, NEW as \in LineAttributes, ServeLineReq(x, as)
  PROVE  PInv'
<1>1. PICK m, p, K : m = Head(t.out) /\ p = pad[m.obj] /\ K = Answered(m)
  OBVIOUS
<1>2. /\ t.out # <<>> /\ t' = Taken /\ m.op = "LINEREQ" /\ m.oid = oid[m.obj]
      /\ lib' = Answer(lib, m, K, x, as) /\ UNCHANGED <<pad, oid, uniq>>
  BY <1>1 DEF ServeLineReq, Meant, HeadIs
<1>3. PICK E : MessageRead(pad, oid, uniq, lib, t', E, m)
  BY <1>1, <1>2, HeadRead, Zenon
<1>4. K = {k \in m.lo .. m.hi : IF p.kind.use = "create" THEN k \in p.made ELSE p.lines = 0 \/ k <= p.lines}
  BY <1>1, Zenon DEF Answered
<1>5. /\ K \subseteq m.lo .. m.hi
      /\ \A k \in m.lo .. m.hi : k \notin K => IF p.kind.use = "create" THEN k \notin p.made
                                               ELSE p.lines # 0 /\ ~ (k <= p.lines)
  BY <1>4
<1>6. Inv(pad, oid, uniq, lib', t')
  <2>1. p = pad[m.obj]
    BY <1>1
  <2>2. QED BY ONLY x \in Text, as \in LineAttributes, <1>2, <1>3, <1>5, <2>1, LineReqKeeps
<1>7. QED BY <1>2, <1>6, InvNext

LEMMA HostOK == ASSUME PInv, Host PROVE PInv'
<1>1. PICK o \in Obj :
        \/ \E kind \in Kinds[o], n \in 0 .. MaxKey : NewPad(o, kind, n)
        \/ \E k \in Key, x \in Text, as \in LineAttributes : insert(o, k, x, as)
        \/ \E k \in Key : removeline(o, k)
        \/ clear(o)
        \/ \E n \in Key : lines(o, n)
        \/ \E lo, hi \in Key : createline(o, lo, hi)
        \/ \E k \in Key : MaxKey \notin KeysOf(o) /\ makegap(o, k, 1)
        \/ HostClose(o)
  BY Zenon DEF Host
<1>2. ASSUME NEW kind \in Kinds[o], NEW n \in 0 .. MaxKey, NewPad(o, kind, n) PROVE PInv'
  BY <1>2, NewPadOK, Zenon
<1>3. ASSUME NEW k \in Key, NEW x \in Text, NEW as \in LineAttributes, insert(o, k, x, as) PROVE PInv'
  BY <1>3, InsertOK, Zenon
<1>4. ASSUME NEW k \in Key, removeline(o, k) PROVE PInv'
  BY <1>4, RemoveLineOK, Zenon
<1>5. CASE clear(o)
  BY <1>5, ClearOK, Zenon
<1>6. ASSUME NEW n \in Key, lines(o, n) PROVE PInv'
  BY <1>6, LinesOK, Zenon
<1>7. ASSUME NEW lo \in Key, NEW hi \in Key, createline(o, lo, hi) PROVE PInv'
  BY <1>7, CreateLineOK, Zenon
<1>8. ASSUME NEW k \in Key, MaxKey \notin KeysOf(o), makegap(o, k, 1) PROVE PInv'
  BY <1>8, MakeGapOK, Zenon
<1>9. CASE HostClose(o)
  BY <1>9, HostCloseOK, Zenon
<1>10. QED BY <1>1, <1>2, <1>3, <1>4, <1>5, <1>6, <1>7, <1>8, <1>9, Zenon

LEMMA StepOK == ASSUME PInv, [Next]_vars PROVE PInv'
<1>1. CASE Host
  BY <1>1, HostOK, Zenon
<1>2. CASE User
  BY <1>2, UserOK, Zenon
<1>3. CASE TermServe
  <2>1. ASSUME NEW x \in Text, NEW as \in LineAttributes, ServeLineReq(x, as) PROVE PInv'
    BY <2>1, ServeLineReqOK, Zenon
  <2>2. QED BY <1>3, <2>1, ServeUserCloseOK, ServeStaleOK, Zenon DEF TermServe
<1>4. CASE Receive
  BY <1>4, ReceiveOK, Zenon
<1>5. CASE UNCHANGED vars
  BY <1>5 DEF vars, PInv
<1>6. QED BY <1>1, <1>2, <1>3, <1>4, <1>5, Zenon DEF Next

-----------------------------------------------------------------------------
(* What the invariant says of the properties. *)

\* The terminal as it is and when it will have read all that was sent.
LEMMA Both ==
  ASSUME PInv, NEW D, D = Drained
  PROVE  /\ uniq \in Nat /\ uniq \in Cardinality(Obj) .. MaxUniq /\ oid \in [Obj -> 1 .. uniq] /\ pad \in [Obj -> Pads]
         /\ lib.prev \in Prev /\ lib.prevpad \in Obj \cup {Unset, Freed} /\ lib.toTerm \in Seq(Message(uniq))
         /\ PipeOK(t, lib.toTerm, uniq, oid) /\ Agree(pad, oid, lib, t.out, D)
         /\ TermOK(t, uniq) /\ WinsOK(t.wins, uniq) /\ t.prev \in Prev /\ t.LINEobj \in Obj \cup {NoObj}
         /\ t.out \in Seq(Request(uniq) \cup Closing(uniq))
         /\ TermOK(D, uniq) /\ WinsOK(D.wins, uniq)
<1>1. Inv(pad, oid, uniq, lib, t) /\ D = DrainedOf(t, lib.toTerm)
  BY DEF PInv, Drained
<1>2. /\ uniq \in Nat /\ uniq <= MaxUniq /\ Cardinality(Obj) <= uniq /\ oid \in [Obj -> 1 .. uniq] /\ pad \in [Obj -> Pads]
      /\ lib.prev \in Prev /\ lib.prevpad \in Obj \cup {Unset, Freed} /\ lib.toTerm \in Seq(Message(uniq))
      /\ PipeOK(t, lib.toTerm, uniq, oid) /\ TermOK(t, uniq) /\ TermOK(D, uniq)
      /\ Agree(pad, oid, lib, t.out, D)
  <2>1. /\ uniq \in Nat /\ uniq <= MaxUniq /\ Cardinality(Obj) <= uniq /\ oid \in [Obj -> 1 .. uniq]
        /\ pad \in [Obj -> Pads]
        /\ lib.prev \in Prev /\ lib.prevpad \in Obj \cup {Unset, Freed} /\ lib.toTerm \in Seq(Message(uniq))
        /\ PipeOK(t, lib.toTerm, uniq, oid) /\ TermOK(t, uniq) /\ TermOK(DrainedOf(t, lib.toTerm), uniq)
        /\ Agree(pad, oid, lib, t.out, DrainedOf(t, lib.toTerm))
    BY ONLY <1>1, InvIs
  <2>2. QED BY <1>1, <2>1, Zenon
<1>3. Cardinality(Obj) \in Nat
  BY PadAssumption, FS_CardinalityType
<1>4. uniq \in Cardinality(Obj) .. MaxUniq
  BY <1>2, <1>3, PadAssumption
<1>5. /\ t.LINEobj \in Obj \cup {NoObj} /\ t.out \in Seq(Request(uniq) \cup Closing(uniq))
      /\ t.prev \in Prev /\ WinsOK(t.wins, uniq) /\ WinsOK(D.wins, uniq)
  BY <1>2, TerminalIs, Zenon
<1>6. QED BY <1>2, <1>4, <1>5, Zenon

\* The window of an object in D is at the place that ObjToPad finds.
Found(D, o) ==
  IF Win(D, o) = NoWin THEN ObjToPad(D, o) = 0 /\ ~ HasWin(D, o)
  ELSE /\ ObjToPad(D, o) \in 1 .. Len(D.wins) /\ ObjToPad(D, o) # 0
       /\ Win(D, o) = D.wins[ObjToPad(D, o)] /\ Win(D, o).object = o

LEMMA FoundIs ==
  ASSUME NEW n \in Nat, NEW D, WinsOK(D.wins, n), NEW o
  PROVE  Found(D, o)
<1>1. \/ ObjToPad(D, o) = 0 /\ ~ HasWin(D, o) /\ Win(D, o) = NoWin
      \/ /\ ObjToPad(D, o) \in 1 .. Len(D.wins) /\ ObjToPad(D, o) # 0
         /\ Win(D, o) = D.wins[ObjToPad(D, o)] /\ Win(D, o) # NoWin /\ Win(D, o).object = o
  BY ONLY n \in Nat, WinsOK(D.wins, n), WinIs
<1>2. QED BY <1>1, Zenon DEF Found

LEMMA CallsAre ==
  ASSUME NEW n, NEW out, out \in Seq(Request(n) \cup Closing(n)), NEW i \in 1 .. Len(out)
  PROVE  /\ DOMAIN out = 1 .. Len(out) /\ out[i].obj \in Obj
         /\ out[i] \in [op : {"LINEREQ"}, obj : Obj, oid : 1 .. n, lo : Key, hi : Key]
                         \cup [op : {"USERCLOSE"}, obj : Obj, oid : 1 .. n]
<1>1. PICK S : S = Request(n) \cup Closing(n)
  OBVIOUS
<1>2. out \in Seq(S)
  BY <1>1
<1>3. DOMAIN out = 1 .. Len(out) /\ out[i] \in S
  BY <1>2
<1>4. PICK m : m = out[i]
  OBVIOUS
<1>5. m \in Request(n) \/ m \in Closing(n)
  BY <1>1, <1>3, <1>4
<1>6. m \in Request(n) => m \in [op : {"LINEREQ"}, obj : Obj, oid : 1 .. n, lo : Key, hi : Key] /\ m.obj \in Obj
  BY DEF Request
<1>7. m \in Closing(n) => m \in [op : {"USERCLOSE"}, obj : Obj, oid : 1 .. n] /\ m.obj \in Obj
  BY DEF Closing
<1>8. QED BY <1>3, <1>4, <1>5, <1>6, <1>7

LEMMA InOrder == ASSUME PInv PROVE KeysInOrder
<1>1. PICK D, n, wins : D = Drained /\ n = uniq /\ wins = t.wins
  OBVIOUS
<1>2. /\ n \in Nat /\ n \in Cardinality(Obj) .. MaxUniq /\ oid \in [Obj -> 1 .. n] /\ pad \in [Obj -> Pads]
      /\ lib.prev \in Prev /\ lib.prevpad \in Obj \cup {Unset, Freed}
      /\ WinsOK(wins, n) /\ t.prev \in Prev /\ t.LINEobj \in Obj \cup {NoObj}
      /\ t.out \in Seq(Request(n) \cup Closing(n))
  BY <1>1, Both, Zenon
<1> DEFINE L == [key : Key, text : Text \cup {TILDE}, attributes : LineAttributes \cup {{}, {"FAKELINE"}}]
           C == [op : {"LINEREQ"}, obj : Obj, oid : 1 .. n, lo : Key, hi : Key]
                  \cup [op : {"USERCLOSE"}, obj : Obj, oid : 1 .. n]
<1>3. \A i \in DOMAIN t.out : t.out[i] \in C
  <2>1. PICK out : out = t.out
    OBVIOUS
  <2>2. out \in Seq(Request(n) \cup Closing(n))
    BY <1>2, <2>1, Zenon
  <2>3. DOMAIN out = 1 .. Len(out)
    <3>1. PICK S : S = Request(n) \cup Closing(n)
      OBVIOUS
    <3>2. out \in Seq(S)
      BY <2>2, <3>1
    <3>3. QED BY <3>2
  <2>4. \A i \in 1 .. Len(out) : out[i] \in C
    BY <2>2, CallsAre, Zenon
  <2>5. QED BY <2>1, <2>3, <2>4, Zenon
<1>4. \A l \in Line : l \in L
  BY DEF Line, RealLine, TildeLine
<1> HIDE DEF L
<1>5. ASSUME NEW i \in DOMAIN wins, NEW w, w = wins[i]
      PROVE  /\ w.object \in Obj /\ w.oid \in 1 .. n /\ w.max \in 0 .. MaxKey
             /\ \A j \in DOMAIN w.lines : w.lines[j] \in L
             /\ \A j, k \in DOMAIN w.lines : j < k => w.lines[j].key < w.lines[k].key
             /\ w.max # 0 => \A j \in DOMAIN w.lines : w.lines[j].key <= w.max
  <2>1. w \in Window(n) /\ WinOK(w)
    <3>1. PICK A : A = Window(n)
      OBVIOUS
    <3>2. wins \in Seq(A) /\ \A j \in 1 .. Len(wins) : WinOK(wins[j])
      BY <1>2, <3>1, Zenon DEF WinsOK
    <3>3. i \in 1 .. Len(wins) /\ wins[i] \in A
      BY <3>2
    <3>4. QED BY <1>5, <3>1, <3>2, <3>3, Zenon
  <2>2. w.object \in Obj /\ w.oid \in 1 .. n /\ w.max \in 0 .. MaxKey /\ w.lines \in Seq(Line)
    BY <1>2, <2>1, WindowIs, Zenon
  <2>3. PICK ls : ls = w.lines
    OBVIOUS
  <2>4. ls \in Seq(Line) /\ DOMAIN ls = 1 .. Len(ls) /\ \A j \in 1 .. Len(ls) : ls[j] \in Line
    BY <2>2, <2>3
  <2>5. Sorted(ls) /\ (w.max # 0 => \A l \in AsSet(ls) : l.key <= w.max)
    BY <2>1, <2>3, Zenon DEF WinOK
  <2>6. \A j \in DOMAIN ls : ls[j] \in L
    BY <1>4, <2>4, Zenon
  <2>7. \A j, k \in DOMAIN ls : j < k => ls[j].key < ls[k].key
    BY <2>4, <2>5, Zenon DEF Sorted
  <2>8. w.max # 0 => \A j \in DOMAIN ls : ls[j].key <= w.max
    BY <2>4, <2>5, Zenon DEF AsSet
  <2>9. QED BY <2>2, <2>3, <2>6, <2>7, <2>8, Zenon
<1>6. \A i \in DOMAIN wins : LET w == wins[i] IN
        /\ w.object \in Obj /\ w.oid \in 1 .. n /\ w.max \in 0 .. MaxKey
        /\ \A j \in DOMAIN w.lines : w.lines[j] \in L
        /\ \A j, k \in DOMAIN w.lines : j < k => w.lines[j].key < w.lines[k].key
        /\ w.max # 0 => \A j \in DOMAIN w.lines : w.lines[j].key <= w.max
  BY <1>5, Zenon
<1>7. QED BY <1>1, <1>2, <1>3, <1>6, Zenon DEF KeysInOrder, L, C, Prev, Pads

\* WindowsAgree, of one object.
AgreeOn(o, wins, mine) ==
  IF pad[o] = NoPad THEN mine = {}
  ELSE \/ \E i \in DOMAIN wins : mine = {i} /\ wins[i].oid = oid[o]
       \/ mine = {} /\ \E i \in DOMAIN t.out :
            t.out[i] = [op |-> "USERCLOSE", obj |-> o, oid |-> oid[o]]

LEMMA Agreed == ASSUME PInv PROVE WindowsAgree
<1>1. PICK D, wins : D = Drained /\ wins = D.wins
  OBVIOUS
<1>2. /\ uniq \in Nat /\ WinsOK(wins, uniq) /\ OneEach(wins) /\ Agree(pad, oid, lib, t.out, D)
      /\ t.out \in Seq(Request(uniq) \cup Closing(uniq))
  <2>1. /\ uniq \in Nat /\ WinsOK(D.wins, uniq) /\ Agree(pad, oid, lib, t.out, D)
        /\ t.out \in Seq(Request(uniq) \cup Closing(uniq))
    BY <1>1, Both, Zenon
  <2>2. QED BY <1>1, <2>1, Zenon DEF WinsOK
<1>3. DOMAIN wins = 1 .. Len(wins) /\ DOMAIN t.out = 1 .. Len(t.out)
  <2>1. PICK A, S, out : A = Window(uniq) /\ S = Request(uniq) \cup Closing(uniq) /\ out = t.out
    OBVIOUS
  <2>2. wins \in Seq(A)
    BY <1>2, <2>1, Zenon DEF WinsOK
  <2>3. out \in Seq(S)
    BY <1>2, <2>1, Zenon
  <2>4. DOMAIN wins = 1 .. Len(wins) /\ DOMAIN out = 1 .. Len(out)
    BY <2>2, <2>3
  <2>5. QED BY <2>1, <2>4, Zenon
<1>4. ASSUME NEW o \in Obj, NEW mine, mine = {i \in DOMAIN Drained.wins : Drained.wins[i].object = o}
      PROVE  AgreeOn(o, Drained.wins, mine)
  <2> \A i : i \in mine <=> i \in DOMAIN wins /\ wins[i].object = o
    BY <1>1, <1>4
  <2> SUFFICES AgreeOn(o, wins, mine)
    BY <1>1, Zenon
  <2>1. Found(D, o)
    BY <1>1, <1>2, FoundIs, Zenon
  <2>2. PadOK(pad[o], Win(D, o), o, oid, t.out)
    BY <1>2, Zenon DEF Agree
  <2>3. CASE Win(D, o) = NoWin
    <3>1. ~ HasWin(D, o)
      BY <2>1, <2>3, Zenon DEF Found
    <3>2. \A i \in DOMAIN wins : wins[i].object # o
      BY <1>1, <1>3, <3>1, Zenon DEF HasWin
    <3>3. mine = {}
      BY <3>2
    <3>4. pad[o] # NoPad => Pending(o, oid, t.out)
      BY <2>2, <2>3, Zenon DEF PadOK
    <3>5. pad[o] # NoPad =>
            \E i \in DOMAIN t.out : t.out[i] = [op |-> "USERCLOSE", obj |-> o, oid |-> oid[o]]
      BY <1>3, <3>4, Zenon DEF Pending, UserClosed
    <3>6. QED BY <3>3, <3>5, Zenon DEF AgreeOn
  <2>4. CASE Win(D, o) # NoWin
    <3>1. PICK i : i = ObjToPad(D, o)
      OBVIOUS
    <3>2. i \in 1 .. Len(wins) /\ Win(D, o) = wins[i] /\ wins[i].object = o
      <4>1. ObjToPad(D, o) \in 1 .. Len(D.wins) /\ Win(D, o) = D.wins[ObjToPad(D, o)] /\ Win(D, o).object = o
        BY <2>1, <2>4, Zenon DEF Found
      <4>2. QED BY <1>1, <3>1, <4>1, Zenon
    <3>3. pad[o] # NoPad /\ wins[i].oid = oid[o]
      BY <2>2, <2>4, <3>2, Zenon DEF PadOK
    <3>4. \A j \in 1 .. Len(wins) : wins[j].object = o => j = i
      BY <1>2, <3>2, Zenon DEF OneEach
    <3>5. mine = {i}
      BY <1>3, <3>2, <3>4
    <3>6. QED BY <1>3, <3>2, <3>3, <3>5, Zenon DEF AgreeOn
  <2>5. QED BY <2>3, <2>4, Zenon
<1>5. ASSUME NEW o \in Obj
      PROVE  AgreeOn(o, Drained.wins, {i \in DOMAIN Drained.wins : Drained.wins[i].object = o})
  <2>1. PICK mine : mine = {i \in DOMAIN Drained.wins : Drained.wins[i].object = o}
    OBVIOUS
  <2>2. AgreeOn(o, Drained.wins, mine)
    BY <1>4, <2>1, Zenon
  <2>3. QED BY <2>1, <2>2, Zenon
<1>6. QED BY <1>5, Zenon DEF WindowsAgree, AgreeOn

LEMMA Meanings == ASSUME PInv PROVE CallsAreMeant
<1>1. PICK D, out : D = Drained /\ out = t.out
  OBVIOUS
<1>2. /\ uniq \in Nat /\ WinsOK(D.wins, uniq) /\ Agree(pad, oid, lib, out, D)
      /\ out \in Seq(Request(uniq) \cup Closing(uniq))
  BY <1>1, Both, Zenon
<1>3. ASSUME NEW i \in DOMAIN out, NEW m, m = out[i], m.oid = oid[m.obj]
      PROVE  pad[m.obj] # NoPad /\ (m.op = "USERCLOSE" => ObjToPad(Drained, m.obj) = 0)
  <2>1. i \in 1 .. Len(out)
    <3>1. PICK S : S = Request(uniq) \cup Closing(uniq)
      OBVIOUS
    <3>2. out \in Seq(S)
      BY <1>2, <3>1
    <3>3. QED BY <3>2
  <2>2. pad[m.obj] # NoPad /\ (m.op = "USERCLOSE" => Win(D, m.obj) = NoWin)
    BY <1>2, <1>3, <2>1, Zenon DEF Agree, OutOK
  <2>3. Found(D, m.obj)
    BY <1>2, FoundIs, Zenon
  <2>4. Win(D, m.obj) = NoWin => ObjToPad(D, m.obj) = 0
    BY <2>3, Zenon DEF Found
  <2>5. QED BY <1>1, <2>2, <2>4, Zenon
<1>4. QED BY <1>1, <1>3, Zenon DEF CallsAreMeant, Meant

LEMMA IsThere == ASSUME PInv PROVE WindowIsThere
<1> SUFFICES ASSUME lib.toTerm # <<>>, Head(lib.toTerm).op \in {"CREATELINE", "MAKEGAP"}
             PROVE  ObjToPad(t, Head(lib.toTerm).obj) # 0
  BY Zenon DEF WindowIsThere
<1>1. /\ uniq \in Nat /\ lib.toTerm \in Seq(Message(uniq)) /\ PipeOK(t, lib.toTerm, uniq, oid)
      /\ WinsOK(t.wins, uniq)
  BY Both, Zenon
<1>2. PICK n, s, u, ids, m, v, z : /\ n = uniq /\ s = lib.toTerm /\ u = t /\ ids = oid
                                   /\ m = Head(s) /\ v = PadOp(u, m) /\ z = Tail(s)
  OBVIOUS
<1>3. n \in Nat /\ s \in Seq(Message(n)) /\ s # <<>> /\ PipeOK(u, s, n, ids)
  BY <1>1, <1>2, Zenon
<1>4. m = Head(s) /\ v = PadOp(u, m) /\ z = Tail(s)
  BY <1>2, Zenon
<1>5. Fits(u, m, ids)
  BY ONLY <1>3, <1>4, ReadingOne
<1>6. m.op \in {"CREATELINE", "MAKEGAP"}
  BY <1>2, Zenon
<1>7. m.op = "CREATELINE" \/ m.op = "MAKEGAP"
  BY <1>6
<1>8. Target(u, m) = m.obj
  <2>1. m.op # "NEXTLINE"
    BY <1>7
  <2>2. QED BY <2>1, Zenon DEF Target
<1>9. Win(u, m.obj) # NoWin
  BY <1>5, <1>7, <1>8, Zenon DEF Fits, FitsWin
<1>10. Found(u, m.obj)
  BY <1>1, <1>2, FoundIs, Zenon
<1>11. ObjToPad(u, m.obj) # 0
  BY <1>9, <1>10, Zenon DEF Found
<1>12. QED BY <1>2, <1>11, Zenon

LEMMA ArePending == ASSUME PInv, ~ Reuses PROVE RequestsArePending
<1>1. PICK D, out : D = Drained /\ out = t.out
  OBVIOUS
<1>2. /\ uniq \in Nat /\ WinsOK(D.wins, uniq) /\ Agree(pad, oid, lib, out, D) /\ TermOK(D, uniq)
      /\ out \in Seq(Request(uniq) \cup Closing(uniq))
  BY <1>1, Both, Zenon
<1>3. AskedOK(oid, out, D)
  BY <1>2, Zenon DEF Agree
<1>4. DOMAIN out = 1 .. Len(out)
  <2>1. PICK S : S = Request(uniq) \cup Closing(uniq)
    OBVIOUS
  <2>2. out \in Seq(S)
    BY <1>2, <2>1
  <2>3. QED BY <2>2
<1>5. ASSUME NEW o \in Obj, NEW k \in Key, Asked(LinesOf(o), k) PROVE k \in AskedOf(Win(D, o))
  <2>1. PICK w, ls : w = Win(D, o) /\ ls = LinesOf(o)
    OBVIOUS
  <2>2. PICK j \in DOMAIN ls : ls[j] = Dummy(k, {})
    BY <1>5, <2>1, Zenon DEF Asked
  <2>3. Found(D, o)
    BY <1>2, FoundIs, Zenon
  <2>4. ls = IF ObjToPad(D, o) = 0 THEN <<>> ELSE D.wins[ObjToPad(D, o)].lines
    BY <1>1, <2>1, Zenon DEF LinesOf
  <2>5. ls # <<>>
    BY <2>2
  <2>6. ObjToPad(D, o) # 0
    BY <2>4, <2>5, Zenon
  <2>7. w # NoWin /\ w = D.wins[ObjToPad(D, o)]
    BY <2>1, <2>3, <2>6, Zenon DEF Found
  <2>8. ls = w.lines
    BY <2>4, <2>6, <2>7, Zenon
  <2>9. ls \in Seq(Line)
    <3>1. AWin(w, uniq)
      BY <1>2, <2>1, WinOfTerminal, Zenon
    <3>2. w \in Window(uniq)
      BY <2>7, <3>1, Zenon DEF AWin
    <3>3. QED BY <1>2, <2>8, <3>2, WindowIs, Zenon
  <2>10. j \in 1 .. Len(ls)
    BY <2>2, <2>9
  <2>11. Dummy(k, {}) \in AsSet(w.lines)
    BY <2>2, <2>8, <2>10, Zenon DEF AsSet
  <2>12. QED BY <2>1, <2>11 DEF AskedOf
<1>6. ASSUME NEW o \in Obj, NEW k \in Key, Asked(LinesOf(o), k)
      PROVE  \E i \in DOMAIN out : out[i].op = "LINEREQ" /\ out[i].obj = o /\ Meant(out[i]) /\ k \in out[i].lo .. out[i].hi
  <2>1. Requested(o, k, oid, out)
    BY <1>3, <1>5, <1>6, Zenon DEF AskedOK
  <2>2. PICK i \in 1 .. Len(out) : out[i].op = "LINEREQ" /\ out[i].obj = o /\ out[i].oid = oid[o] /\ k \in out[i].lo .. out[i].hi
    BY <2>1, Zenon DEF Requested
  <2>3. Meant(out[i])
    BY <2>2, Zenon DEF Meant
  <2>4. QED BY <1>4, <2>2, <2>3, Zenon
<1>7. QED BY <1>1, <1>6, Zenon DEF RequestsArePending

-----------------------------------------------------------------------------
(* The theorems. *)

\* What the terminal is and will be, one message after the other, fits what
\* the library has sent; when all is read both sides agree: every call of
\* Pad, every message read, and all the user does keep that.
THEOREM Inductive == Spec => []PInv
<1>1. PInv /\ [Next]_vars => PInv'
  BY StepOK, Zenon
<1>2. QED BY <1>1, InitOK, PTL DEF Spec

\* The lines of each window are in the order of their keys, one of each key,
\* and none is beyond the last, in whatever order calls, requests and what
\* the user does come (PutLine, CreateLine, MakeGap, RequestLines, P_LINES).
THEOREM Ordered == Spec => []KeysInOrder
BY Inductive, InOrder, PTL

\* An object has the one window that its Pad is about, as soon as all that
\* was sent is read, or is about to learn that the user has closed it.
THEOREM Agreement == Spec => []WindowsAgree
BY Inductive, Agreed, PTL

\* A request or a close is taken for a call of an object only if it is one:
\* rcvobj's comparison of identifiers drops all others.
THEOREM Meaningful == Spec => []CallsAreMeant
BY Inductive, Meanings, PTL

\* P_CREATELINE and P_MAKEGAP, which use their window without a test, find
\* it, whatever the user has closed meanwhile.
THEOREM Finding == Spec => []WindowIsThere
BY Inductive, IsThere, PTL

\* A line that the terminal takes for requested has its request under way,
\* or the line itself, unless a new Pad may get the address of a deleted one.
THEOREM NotForgotten == ASSUME ~ Reuses PROVE Spec => []RequestsArePending
<1>1. PInv => RequestsArePending
  BY ArePending
<1>2. QED BY <1>1, Inductive, PTL

\* What is seen of a call: the windows before and after.
CallSeen(new, old, m) ==
  /\ m.op = "REMOVELINE" => new = W!Vanished(old, m.obj, {m.key})
  /\ m.op = "CLEAR" => new = W!Vanished(old, m.obj, Key)
  /\ m.op = "LINES" => new = W!Resized(old, m.obj, m.n)
  /\ m.op = "CREATELINE" => new = W!Vanished(old, m.obj, m.lo .. m.hi)
  /\ m.op = "MAKEGAP" => new = W!Spread(old, m.obj, m.key, 1)
  /\ m.op = "DELETE" => new = W!Gone(old, m.obj)

LEMMA CallShown ==
  ASSUME NEW n \in Nat, NEW D, TermOK(D, n), NEW m \in Message(n), NEW ids, Fits(D, m, ids), NEW E, Step(E, D, m, n),
         m.op \in {"REMOVELINE", "CLEAR", "LINES", "CREATELINE", "MAKEGAP"},
         m.op = "CREATELINE" => Win(D, m.obj).max = 0
  PROVE  CallSeen(Shown(E), Shown(D), m)
<1>1. PICK o, w, v, l : o = m.obj /\ w = Win(D, o) /\ v = Win(E, o) /\ l = LineOf(D, m)
  OBVIOUS
<1>2. Target(D, m) = o /\ o \in Obj /\ m.op \notin {"PADDEF", "DELETE"} /\ TermOK(E, n)
  <2>1. m.op # "NEXTLINE"
    OBVIOUS
  <2>2. Target(D, m) = o /\ o \in Obj
    BY <1>1, <2>1, MessageIs, Zenon DEF Target
  <2>3. TermOK(E, n)
    BY Zenon DEF Step
  <2>4. QED BY <2>2, <2>3
<1>3. /\ w = NoWin => v = NoWin
      /\ w # NoWin => v # NoWin /\ Becoming(v, w, m, l)
      /\ \A p : p # o => Win(E, p) = Win(D, p)
  <2>1. /\ Win(D, o) = NoWin => Win(E, o) = NoWin
        /\ Win(D, o) # NoWin => /\ Win(E, o) # NoWin /\ SameWin(Win(E, o), Win(D, o))
                                /\ Becoming(Win(E, o), Win(D, o), m, LineOf(D, m))
        /\ \A p : p # o => Win(E, p) = Win(D, p)
    BY ONLY n \in Nat, TermOK(D, n), m \in Message(n), Fits(D, m, ids), Step(E, D, m, n), <1>2, TargetBecomes
  <2>2. QED BY <1>1, <2>1, Zenon
<1>4. Alter(E, D, o, n)
  BY <1>1, <1>2, <1>3, Zenon DEF Alter
<1>5. w # NoWin => w \in Window(n) /\ WinOK(w)
  <2>1. AWin(w, n)
    BY <1>1, WinOfTerminal, Zenon
  <2>2. QED BY <2>1, Zenon DEF AWin
<1>6. PICK R, S : R = Reals(w) /\ S = Reals(v)
  OBVIOUS
<1>7. w # NoWin => \A x \in R : x.key \in Key
  BY <1>5, <1>6, RealsAre, Zenon
<1>8. ASSUME w # NoWin, m.op # "MAKEGAP"
      PROVE  v.max = MaxAfter(w.max, m) /\ S = {x \in R : x.key \notin Drop(w.max, m, l)}
  <2>1. v.max = MaxAfter(w.max, m) /\ Change(v, w, Drop(w.max, m, l), Add(w.max, m, l), Fakes(w.max, m))
    BY <1>3, <1>8, Zenon DEF Becoming
  <2>2. Add(w.max, m, l) = {}
    BY DEF Add
  <2>3. S = {x \in R : x.key \notin Drop(w.max, m, l)} \cup Add(w.max, m, l)
    BY <1>6, <2>1, Zenon DEF Change
  <2>4. QED BY <2>1, <2>2, <2>3
<1>9. ASSUME NEW K, w # NoWin => v.max = w.max /\ S = {x \in R : x.key \notin K}
      PROVE  Shown(E) = W!Vanished(Shown(D), o, K)
  <2>1. w # NoWin => v.max = w.max /\ Reals(v) = {x \in Reals(w) : x.key \notin K}
    BY <1>6, <1>9, Zenon
  <2>2. QED BY VanishedShown, <1>1, <1>4, <2>1
<1>10. ASSUME NEW K, m.op \in {"REMOVELINE", "CLEAR", "CREATELINE"}, w # NoWin => Drop(w.max, m, l) = K
       PROVE  Shown(E) = W!Vanished(Shown(D), o, K)
  <2>1. MaxAfter(w.max, m) = w.max
    BY <1>10 DEF MaxAfter
  <2>2. w # NoWin => v.max = w.max /\ S = {x \in R : x.key \notin K}
    BY <1>8, <1>10, <2>1
  <2>3. QED BY <1>9, <2>2, Zenon
<1>11. CASE m.op = "REMOVELINE"
  <2>1. Drop(w.max, m, l) = {m.key}
    BY <1>11 DEF Drop
  <2>2. Shown(E) = W!Vanished(Shown(D), o, {m.key})
    BY <1>10, <1>11, <2>1
  <2>3. QED BY <1>1, <1>11, <2>2 DEF CallSeen
<1>12. CASE m.op = "CLEAR"
  <2>1. Drop(w.max, m, l) = Key
    BY <1>12 DEF Drop
  <2>2. Shown(E) = W!Vanished(Shown(D), o, Key)
    BY <1>10, <1>12, <2>1
  <2>3. QED BY <1>1, <1>12, <2>2 DEF CallSeen
<1>13. CASE m.op = "CREATELINE"
  <2>1. Drop(w.max, m, l) = m.lo .. m.hi
    BY <1>1, <1>13 DEF Drop
  <2>2. Shown(E) = W!Vanished(Shown(D), o, m.lo .. m.hi)
    BY <1>10, <1>13, <2>1
  <2>3. QED BY <1>1, <1>13, <2>2 DEF CallSeen
<1>14. CASE m.op = "LINES"
  <2>1. Drop(w.max, m, l) = IF m.n < w.max THEN Key ELSE {}
    BY <1>14 DEF Drop
  <2>2. MaxAfter(w.max, m) = m.n
    BY <1>14 DEF MaxAfter
  <2>3. w # NoWin => v.max = m.n /\ S = IF m.n < w.max THEN {} ELSE R
    BY <1>7, <1>8, <1>14, <2>1, <2>2
  <2>4. w # NoWin => v.max = m.n /\ Reals(v) = IF m.n < w.max THEN {} ELSE Reals(w)
    BY <1>6, <2>3, Zenon
  <2>5. Shown(E) = W!Resized(Shown(D), o, m.n)
    BY ONLY n \in Nat, <1>1, <1>4, <2>4, ResizedShown
  <2>6. QED BY <1>1, <1>14, <2>5 DEF CallSeen
<1>15. CASE m.op = "MAKEGAP"
  <2>1. w # NoWin /\ \A x \in AsSet(w.lines) : x.key < MaxKey
    <3>1. FitsWin(w, m, ids)
      BY <1>1, <1>2, Zenon DEF Fits
    <3>2. QED BY <1>15, <3>1, Zenon DEF FitsWin
  <2>2. Spread(v, w, m.key) /\ v.max = MaxAfter(w.max, m)
    BY <1>3, <1>15, <2>1, Zenon DEF Becoming
  <2>3. v.max = w.max
    BY <1>15, <2>2 DEF MaxAfter
  <2>4. Reals(v) = {Moved(x, m.key, 1) : x \in Reals(w)}
    BY <2>2, Zenon DEF Spread
  <2>5. \A x \in Reals(w) : x.key < MaxKey
    BY <2>1 DEF Reals
  <2>6. m.key \in Key
    BY <1>15, MessageIs, Zenon
  <2>7. Shown(E) = W!Spread(Shown(D), o, m.key, 1)
    BY ONLY n \in Nat, <1>1, <1>4, <2>1, <2>3, <2>4, <2>5, <2>6, SpreadShown
  <2>8. QED BY <1>1, <1>15, <2>7 DEF CallSeen
<1>16. QED BY <1>11, <1>12, <1>13, <1>14, <1>15, Zenon

LEMMA DeleteShown ==
  ASSUME NEW n \in Nat, NEW D, TermOK(D, n), NEW m \in Message(n), m.op = "DELETE", NEW E, Step(E, D, m, n)
  PROVE  Shown(E) = W!Gone(Shown(D), m.obj) /\ Win(E, m.obj) = NoWin /\ TermOK(E, n)
         /\ \A p : p # m.obj => Win(E, p) = Win(D, p)
<1>1. Target(D, m) = m.obj /\ m.obj \in Obj
  <2>1. m.op # "NEXTLINE"
    OBVIOUS
  <2>2. QED BY <2>1, MessageIs, Zenon DEF Target
<1>2. TermOK(E, n) /\ Effect(Win(E, m.obj), Win(D, m.obj), m, LineOf(D, m)) /\ \A p : p # m.obj => Win(E, p) = Win(D, p)
  BY <1>1, Zenon DEF Step
<1>3. Win(E, m.obj) = NoWin
  <2>1. m.op # "PADDEF"
    OBVIOUS
  <2>2. QED BY <1>2, <2>1, Zenon DEF Effect
<1>4. QED BY <1>1, <1>2, <1>3, GoneShown, Zenon

\* The message sent last.
LEMMA LastSent ==
  ASSUME NEW n \in Nat, NEW s, NEW S, s \in Seq(S), NEW m, NEW z, z = Append(s, m), z \in Seq(Message(n)),
         NEW u, NEW ids, PipeOK(u, z, n, ids)
  PROVE  /\ m \in Message(n) /\ TermOK(DrainedOf(u, s), n) /\ Fits(DrainedOf(u, s), m, ids)
         /\ Step(DrainedOf(u, z), DrainedOf(u, s), m, n)
<1>1. PICK h : Piped(h, u, z, n, ids) /\ h[Len(z)] = DrainedOf(u, z)
  BY PipeOf, Zenon
<1>2. PICK N : N = Len(s)
  OBVIOUS
<1>3. N \in Nat /\ Len(z) = N + 1 /\ z[N + 1] = m /\ \A i \in 1 .. N : z[i] = s[i] /\ i \in 1 .. N + 1
  BY <1>2
<1>4. /\ h[0] = u /\ \A i \in 1 .. N + 1 : h[i] = PadOp(h[i - 1], z[i]) /\ Fits(h[i - 1], z[i], ids)
      /\ \A i \in 0 .. N + 1 : TermOK(h[i], n)
  BY <1>1, <1>3, Zenon DEF Piped, Reads
<1>5. Reads(h, u, s)
  BY <1>2, <1>3, <1>4, Zenon DEF Reads
<1>6. DrainedOf(u, s) = h[N]
  BY <1>2, <1>5, DrainedIs, Zenon
<1>7. PICK D, E : D = h[N] /\ E = h[N + 1]
  OBVIOUS
<1>8. N + 1 \in 1 .. N + 1 /\ (N + 1) - 1 = N /\ N \in 0 .. N + 1
  BY <1>3
<1>9. E = PadOp(D, m) /\ Fits(D, m, ids) /\ TermOK(D, n)
  BY <1>3, <1>4, <1>7, <1>8, Zenon
<1>10. m \in Message(n)
  BY <1>3, <1>8
<1>11. Step(E, D, m, n)
  BY <1>9, <1>10, PadOpIs, Zenon
<1>12. E = DrainedOf(u, z)
  BY <1>1, <1>3, <1>7, Zenon
<1>13. QED BY <1>6, <1>7, <1>9, <1>10, <1>11, <1>12, Zenon

-----------------------------------------------------------------------------
(* What each step does to the windows that are seen. *)

\* The windows before and after a step.
Sees(old, new) == old = Shown(Drained) /\ new = Shown(DrainedOf(t', lib'.toTerm))

\* One message more has been sent.
LEMMA CallIs ==
  ASSUME NEW pads, NEW ids, NEW n, NEW h, NEW u, Inv(pads, ids, n, h, u),
         NEW pads1, NEW ids1, NEW k, NEW g, NEW v, Inv(pads1, ids1, k, g, v), NEW m, g.toTerm = Append(h.toTerm, m)
  PROVE  /\ k \in Nat /\ m \in Message(k) /\ TermOK(DrainedOf(v, h.toTerm), k) /\ Fits(DrainedOf(v, h.toTerm), m, ids1)
         /\ Step(DrainedOf(v, g.toTerm), DrainedOf(v, h.toTerm), m, k)
<1>1. PICK s, z, S : s = h.toTerm /\ z = g.toTerm /\ S = Message(n)
  OBVIOUS
<1>2. s \in Seq(S)
  BY <1>1, InvIs, Zenon
<1>3. k \in Nat /\ z \in Seq(Message(k)) /\ PipeOK(v, z, k, ids1)
  BY <1>1, InvIs, Zenon
<1>4. z = Append(s, m)
  BY <1>1, Zenon
<1>5. /\ m \in Message(k) /\ TermOK(DrainedOf(v, s), k) /\ Fits(DrainedOf(v, s), m, ids1)
      /\ Step(DrainedOf(v, z), DrainedOf(v, s), m, k)
  BY <1>2, <1>3, <1>4, LastSent, Zenon
<1>6. QED BY <1>1, <1>3, <1>5, Zenon

LEMMA CallSeenIs ==
  ASSUME PInv, PInv', t' = t, NEW m, lib'.toTerm = Append(lib.toTerm, m),
         m.op \in {"REMOVELINE", "CLEAR", "LINES", "CREATELINE", "MAKEGAP"},
         m.op = "CREATELINE" => Win(Drained, m.obj).max = 0, NEW old, NEW new, Sees(old, new)
  PROVE  CallSeen(new, old, m)
<1>1. Inv(pad, oid, uniq, lib, t) /\ Inv(pad', oid', uniq', lib', t)
  BY Zenon DEF PInv
<1>2. PICK D, E, n, ids : D = DrainedOf(t, lib.toTerm) /\ E = DrainedOf(t, lib'.toTerm) /\ n = uniq' /\ ids = oid'
  OBVIOUS
<1>3. n \in Nat /\ m \in Message(n) /\ TermOK(D, n) /\ Fits(D, m, ids) /\ Step(E, D, m, n)
  BY <1>1, <1>2, CallIs, Zenon
<1>4. D = Drained /\ old = Shown(D) /\ new = Shown(E)
  BY <1>2, Zenon DEF Sees, Drained
<1>5. m.op = "CREATELINE" => Win(D, m.obj).max = 0
  BY <1>4, Zenon
<1>6. CallSeen(Shown(E), Shown(D), m)
  BY ONLY m.op \in {"REMOVELINE", "CLEAR", "LINES", "CREATELINE", "MAKEGAP"}, <1>3, <1>5, CallShown
<1>7. QED BY <1>4, <1>6, Zenon

LEMMA InsertSeen ==
  ASSUME PInv, ~ Reuses, NEW o \in Obj, NEW k \in Key, NEW x \in Text, NEW as \in LineAttributes, insert(o, k, x, as),
         NEW old, NEW new, Sees(old, new)
  PROVE  LinesSeen(new, old, o, {k}, x, as)
<1>1. Inv(pad, oid, uniq, lib, t) /\ lib' = SendLine(lib, o, k, x, as) /\ t' = t
  BY DEF PInv, insert
<1>2. PICK g : g = SendLine(lib, o, k, x, as)
  OBVIOUS
<1>3. LinesSeen(Shown(DrainedOf(t, g.toTerm)), Shown(DrainedOf(t, lib.toTerm)), o, {k}, x, as)
  BY ONLY o \in Obj, k \in Key, x \in Text, as \in LineAttributes, ~ Reuses, <1>1, <1>2, InsertKeeps
<1>4. old = Shown(DrainedOf(t, lib.toTerm)) /\ new = Shown(DrainedOf(t, g.toTerm))
  <2>1. lib' = g
    BY <1>1, <1>2, Zenon
  <2>2. QED BY <1>1, <2>1, Zenon DEF Sees, Drained
<1>5. QED BY <1>3, <1>4, Zenon

\* What is sent in a call.
LEMMA SendsOne ==
  ASSUME NEW h, NEW n, h \in Library(n), NEW m, NEW g, g = Sent(h, m)
  PROVE  g.toTerm = Append(h.toTerm, m)
BY DEF Sent, Library

LEMMA RemoveLineSeen ==
  ASSUME PInv, PInv', NEW o \in Obj, NEW k \in Key, removeline(o, k), NEW old, NEW new, Sees(old, new)
  PROVE  new = W!Vanished(old, o, {k})
<1>1. PICK m : m = [op |-> "REMOVELINE", obj |-> o, key |-> k]
  OBVIOUS
<1>2. lib' = Sent(lib, m) /\ t' = t /\ lib \in Library(uniq)
  BY <1>1 DEF PInv, Inv, TypesOK, removeline
<1>3. lib'.toTerm = Append(lib.toTerm, m) /\ t' = t
  BY <1>2, SendsOne, Zenon
<1>4. m.op = "REMOVELINE" /\ m.obj = o /\ m.key = k
  BY <1>1
<1>5. m.op \in {"REMOVELINE", "CLEAR", "LINES", "CREATELINE", "MAKEGAP"} /\ m.op # "CREATELINE"
  BY <1>4
<1>6. CallSeen(new, old, m)
  BY <1>3, <1>5, CallSeenIs, Zenon
<1>7. QED BY <1>4, <1>6 DEF CallSeen

LEMMA ClearSeen ==
  ASSUME PInv, PInv', NEW o \in Obj, clear(o), NEW old, NEW new, Sees(old, new)
  PROVE  new = W!Vanished(old, o, Key)
<1>1. PICK m : m = [op |-> "CLEAR", obj |-> o]
  OBVIOUS
<1>2. lib' = Sent(lib, m) /\ t' = t /\ lib \in Library(uniq)
  BY <1>1 DEF PInv, Inv, TypesOK, clear
<1>3. lib'.toTerm = Append(lib.toTerm, m) /\ t' = t
  BY <1>2, SendsOne, Zenon
<1>4. m.op = "CLEAR" /\ m.obj = o
  BY <1>1
<1>5. m.op \in {"REMOVELINE", "CLEAR", "LINES", "CREATELINE", "MAKEGAP"} /\ m.op # "CREATELINE"
  BY <1>4
<1>6. CallSeen(new, old, m)
  BY <1>3, <1>5, CallSeenIs, Zenon
<1>7. QED BY <1>4, <1>6 DEF CallSeen

LEMMA LinesSeenIs ==
  ASSUME PInv, PInv', NEW o \in Obj, NEW k \in Key, lines(o, k), NEW old, NEW new, Sees(old, new)
  PROVE  new = W!Resized(old, o, k)
<1>1. PICK m : m = [op |-> "LINES", obj |-> o, n |-> k]
  OBVIOUS
<1>2. lib' = Sent(lib, m) /\ t' = t /\ lib \in Library(uniq)
  BY <1>1 DEF PInv, Inv, TypesOK, lines
<1>3. lib'.toTerm = Append(lib.toTerm, m) /\ t' = t
  BY <1>2, SendsOne, Zenon
<1>4. m.op = "LINES" /\ m.obj = o /\ m.n = k
  BY <1>1
<1>5. m.op \in {"REMOVELINE", "CLEAR", "LINES", "CREATELINE", "MAKEGAP"} /\ m.op # "CREATELINE"
  BY <1>4
<1>6. CallSeen(new, old, m)
  BY <1>3, <1>5, CallSeenIs, Zenon
<1>7. QED BY <1>4, <1>6 DEF CallSeen

\* A window whose lines are created has no number of lines.
LEMMA CreatedHasNoMax ==
  ASSUME PInv, NEW o \in Obj, pad[o] # NoPad, pad[o].kind.use = "create"
  PROVE  Win(Drained, o).max = 0
<1>1. PICK D, p, w : D = Drained /\ p = pad[o] /\ w = Win(D, o)
  OBVIOUS
<1>2. PadOK(p, w, o, oid, t.out) /\ pad \in [Obj -> Pads]
  <2>1. Agree(pad, oid, lib, t.out, D) /\ pad \in [Obj -> Pads]
    BY <1>1, Both, Zenon
  <2>2. QED BY <1>1, <2>1, Zenon DEF Agree
<1>3. CASE w = NoWin
  BY <1>1, <1>3 DEF NoWin
<1>4. CASE w # NoWin
  <2>1. Shows(w, p)
    BY <1>1, <1>2, <1>4, Zenon DEF PadOK
  <2>2. p \in Pads /\ p.kind.use # "lines"
    BY <1>1, <1>2
  <2>3. p.lines = 0
    <3>1. IsKind(p, o)
      BY <1>1, <1>2, Zenon DEF PadOK
    <3>2. p.lines \in 0 .. MaxKey
      BY <2>2 DEF Pads
    <3>3. ~ (p.lines > 0)
      BY <2>2, <3>1, Zenon DEF IsKind
    <3>4. QED BY <3>2, <3>3, Constants
  <2>4. w.max = p.lines
    BY <2>1, Zenon DEF Shows
  <2>5. QED BY <1>1, <2>3, <2>4, Zenon
<1>5. QED BY <1>3, <1>4, Zenon

LEMMA CreateLineSeen ==
  ASSUME PInv, PInv', NEW o \in Obj, NEW lo \in Key, NEW hi \in Key, createline(o, lo, hi),
         NEW old, NEW new, Sees(old, new)
  PROVE  new = W!Vanished(old, o, lo .. hi)
<1>1. PICK m : m = [op |-> "CREATELINE", obj |-> o, lo |-> lo, hi |-> hi]
  OBVIOUS
<1>2. lib' = Sent(lib, m) /\ t' = t /\ lib \in Library(uniq) /\ pad[o] # NoPad /\ pad[o].kind.use = "create"
  BY <1>1 DEF PInv, Inv, TypesOK, createline, MayCall
<1>3. lib'.toTerm = Append(lib.toTerm, m) /\ t' = t
  BY <1>2, SendsOne, Zenon
<1>4. m.op = "CREATELINE" /\ m.obj = o /\ m.lo = lo /\ m.hi = hi
  BY <1>1
<1>5. m.op \in {"REMOVELINE", "CLEAR", "LINES", "CREATELINE", "MAKEGAP"}
  BY <1>4
<1>6. Win(Drained, m.obj).max = 0
  BY <1>2, <1>4, CreatedHasNoMax, Zenon
<1>7. CallSeen(new, old, m)
  BY <1>3, <1>5, <1>6, CallSeenIs, Zenon
<1>8. QED BY <1>4, <1>7 DEF CallSeen

LEMMA MakeGapSeen ==
  ASSUME PInv, PInv', NEW o \in Obj, NEW k \in Key, makegap(o, k, 1), NEW old, NEW new, Sees(old, new)
  PROVE  new = W!Spread(old, o, k, 1)
<1>1. PICK m : m = [op |-> "MAKEGAP", obj |-> o, key |-> k, gap |-> 1]
  OBVIOUS
<1>2. lib' = Sent(lib, m) /\ t' = t /\ lib \in Library(uniq)
  BY <1>1 DEF PInv, Inv, TypesOK, makegap
<1>3. lib'.toTerm = Append(lib.toTerm, m) /\ t' = t
  BY <1>2, SendsOne, Zenon
<1>4. m.op = "MAKEGAP" /\ m.obj = o /\ m.key = k
  BY <1>1
<1>5. m.op \in {"REMOVELINE", "CLEAR", "LINES", "CREATELINE", "MAKEGAP"} /\ m.op # "CREATELINE"
  BY <1>4
<1>6. CallSeen(new, old, m)
  BY <1>3, <1>5, CallSeenIs, Zenon
<1>7. QED BY <1>4, <1>6 DEF CallSeen

LEMMA HostCloseSeen ==
  ASSUME PInv, PInv', NEW o \in Obj, HostClose(o), NEW old, NEW new, Sees(old, new)
  PROVE  new = W!Gone(old, o)
<1>1. PICK m : m = [op |-> "DELETE", obj |-> o]
  OBVIOUS
<1>2. /\ lib' = Sent([lib EXCEPT !.prevpad = IF @ = o THEN Freed ELSE @], m)
      /\ t' = t /\ lib \in Library(uniq)
  BY <1>1 DEF PInv, Inv, TypesOK, HostClose, deletePad
<1>3. lib'.toTerm = Append(lib.toTerm, m)
  BY <1>2 DEF Sent, Library
<1>4. Inv(pad, oid, uniq, lib, t) /\ Inv(pad', oid', uniq', lib', t)
  BY <1>2, Zenon DEF PInv
<1>5. PICK D, E, n, ids : D = DrainedOf(t, lib.toTerm) /\ E = DrainedOf(t, lib'.toTerm) /\ n = uniq' /\ ids = oid'
  OBVIOUS
<1>6. n \in Nat /\ m \in Message(n) /\ TermOK(D, n) /\ Step(E, D, m, n)
  BY <1>3, <1>4, <1>5, CallIs, Zenon
<1>7. old = Shown(D) /\ new = Shown(E)
  BY <1>2, <1>5, Zenon DEF Sees, Drained
<1>8. m.op = "DELETE" /\ m.obj = o
  BY <1>1
<1>9. Shown(E) = W!Gone(Shown(D), m.obj)
  BY ONLY <1>6, <1>8, DeleteShown
<1>10. QED BY <1>7, <1>8, <1>9, Zenon

LEMMA NewPadSeen ==
  ASSUME PInv, NEW o \in Obj, NEW kind \in Kinds[o], NEW n \in 0 .. MaxKey, NewPad(o, kind, n),
         NEW old, NEW new, Sees(old, new)
  PROVE  new = W!Opened(old, o, n)
<1>1. Inv(pad, oid, uniq, lib, t) /\ pad[o] = NoPad /\ (kind.use = "lines" <=> n > 0) /\ UNCHANGED <<oid, uniq, t>>
  BY DEF PInv, NewPad
<1>2. PICK r, pads : r = [kind |-> kind, lines |-> n, made |-> {}] /\ pads = [pad EXCEPT ![o] = r]
  OBVIOUS
<1>3. PICK def, opt, max : /\ def = [op |-> "PADDEF", obj |-> o, oid |-> oid[o]]
                           /\ opt = [op |-> "ATTRIBUTE", obj |-> o, attributes |-> kind.attributes]
                           /\ max = [op |-> "LINES", obj |-> o, n |-> n]
  OBVIOUS
<1>4. PICK p \in {lib.prevpad} \cup (IF Reuses /\ lib.prevpad = Freed THEN {o} ELSE {}) :
        lib' = [lib EXCEPT !.prevpad = p, !.toTerm = @ \o <<def, opt>> \o (IF n > 0 THEN <<max>> ELSE <<>>)]
  BY <1>3, Zenon DEF NewPad
<1>5. lib = [prev |-> lib.prev, prevpad |-> lib.prevpad, toTerm |-> lib.toTerm] /\ lib.prevpad \in Obj \cup {Unset, Freed}
  BY <1>1, InvIs
<1>6. PICK z : z = (lib.toTerm \o <<def, opt>>) \o (IF n > 0 THEN <<max>> ELSE <<>>)
  OBVIOUS
<1>7. lib' = [prev |-> lib.prev, prevpad |-> p, toTerm |-> z]
  BY <1>4, <1>5, <1>6
<1>8. p \in Obj \cup {Unset, Freed} /\ (~ Reuses => p = lib.prevpad)
  BY <1>4, <1>5
<1>9. Opening(pads, lib', pad, oid, lib, o, kind, n, p)
  BY <1>1, <1>2, <1>3, <1>6, <1>7, Zenon DEF Opening
<1>10. WindowSeen(Shown(DrainedOf(t, lib'.toTerm)), Shown(DrainedOf(t, lib.toTerm)), o, n)
  BY <1>1, <1>8, <1>9, NewPadKeeps, Zenon
<1>11. old = Shown(DrainedOf(t, lib.toTerm)) /\ new = Shown(DrainedOf(t, lib'.toTerm))
  BY <1>1, Zenon DEF Sees, Drained
<1>12. WindowSeen(new, old, o, n)
  BY <1>10, <1>11, Zenon
<1>13. QED BY <1>12 DEF WindowSeen

\* A message of the terminal is read: what will be seen stays.
LEMMA TakenShown ==
  ASSUME PInv, t.out # <<>>, t' = Taken, NEW D, D = DrainedOf(t, lib.toTerm), NEW E, E = DrainedOf(t', lib.toTerm)
  PROVE  Shown(E) = Shown(D) /\ TermOK(E, uniq) /\ uniq \in Nat
<1>1. Inv(pad, oid, uniq, lib, t) /\ t' = [t EXCEPT !.out = Tail(@)]
  BY DEF PInv, Taken
<1>2. PICK n, ids, s, u, v : n = uniq /\ ids = oid /\ s = lib.toTerm /\ u = t /\ v = t'
  OBVIOUS
<1>3. /\ n \in Nat /\ ids \in [Obj -> 1 .. n] /\ s \in Seq(Message(n)) /\ PipeOK(u, s, n, ids)
      /\ TermOK(DrainedOf(u, s), n) /\ u.out # <<>>
  BY <1>1, <1>2, InvIs, Zenon
<1>4. v = [u EXCEPT !.out = Tail(@)]
  BY <1>1, <1>2
<1>5. Ends(u, s, D)
  BY <1>2, Zenon DEF Ends
<1>6. PipeOK(v, s, n, ids) /\ \E F : Ends(v, s, F) /\ Alike(F, D)
  BY ONLY <1>3, <1>4, <1>5, TakenIs
<1>7. Alike(E, D)
  BY <1>2, <1>6, Zenon DEF Ends
<1>8. TermOK(E, n) /\ TermOK(D, n)
  <2>1. TermOK(DrainedOf(v, s), n)
    BY <1>3, <1>6, PipeEnds, Zenon
  <2>2. QED BY <1>2, <1>3, <2>1, Zenon
<1>9. \A p : Win(E, p) = Win(D, p)
  BY <1>7, Zenon DEF Alike
<1>10. QED BY <1>2, <1>3, <1>8, <1>9, SameShown, Zenon

LEMMA ServeStaleSeen ==
  ASSUME PInv, ServeStale, NEW old, NEW new, Sees(old, new)
  PROVE  new = old
<1>1. t.out # <<>> /\ t' = Taken /\ lib' = lib
  BY DEF ServeStale
<1>2. PICK D, E : D = DrainedOf(t, lib.toTerm) /\ E = DrainedOf(t', lib.toTerm)
  OBVIOUS
<1>3. Shown(E) = Shown(D)
  BY <1>1, <1>2, TakenShown, Zenon
<1>4. old = Shown(D) /\ new = Shown(E)
  BY <1>1, <1>2, Zenon DEF Sees, Drained
<1>5. QED BY <1>3, <1>4, Zenon

LEMMA ServeUserCloseSeen ==
  ASSUME PInv, PInv', ServeUserClose, NEW old, NEW new, Sees(old, new)
  PROVE  new = old
<1>1. PICK m, o, d : m = Head(t.out) /\ o = m.obj /\ d = [op |-> "DELETE", obj |-> o]
  OBVIOUS
<1>2. /\ t.out # <<>> /\ t' = Taken /\ m.op = "USERCLOSE" /\ m.oid = oid[m.obj]
      /\ lib' = Sent([lib EXCEPT !.prevpad = IF @ = o THEN Freed ELSE @], d) /\ lib \in Library(uniq)
  BY <1>1 DEF ServeUserClose, Meant, HeadIs, deletePad, PInv, Inv, TypesOK
<1>3. PICK D, E, F, k : /\ D = DrainedOf(t, lib.toTerm) /\ E = DrainedOf(t', lib.toTerm)
                        /\ F = DrainedOf(t', lib'.toTerm) /\ k = uniq'
  OBVIOUS
<1>4. Shown(E) = Shown(D) /\ TermOK(E, uniq) /\ uniq \in Nat
  BY <1>2, <1>3, TakenShown, Zenon
<1>5. Win(E, o) = NoWin
  <2>1. PICK X : MessageRead(pad, oid, uniq, lib, t', X, m)
    BY <1>1, <1>2, HeadRead, Zenon
  <2>2. Win(X, o) = NoWin /\ Ends(t', lib.toTerm, X)
    BY <1>1, <1>2, <2>1, Zenon DEF MessageRead
  <2>3. QED BY <1>3, <2>2, Zenon DEF Ends
<1>6. lib'.toTerm = Append(lib.toTerm, d)
  BY <1>2 DEF Sent, Library
<1>7. k \in Nat /\ d \in Message(k) /\ TermOK(E, k) /\ Step(F, E, d, k)
  <2>1. Inv(pad, oid, uniq, lib, t) /\ Inv(pad', oid', uniq', lib', t')
    BY Zenon DEF PInv
  <2>2. QED BY <1>3, <1>6, <2>1, CallIs, Zenon
<1>8. d.op = "DELETE" /\ d.obj = o
  BY <1>1
<1>9. Win(F, o) = NoWin /\ TermOK(F, k) /\ \A p : p # o => Win(F, p) = Win(E, p)
  <2>1. Win(F, d.obj) = NoWin /\ TermOK(F, k) /\ \A p : p # d.obj => Win(F, p) = Win(E, p)
    BY ONLY <1>7, <1>8, DeleteShown
  <2>2. QED BY <1>8, <2>1, Zenon
<1>10. Shown(F) = Shown(E)
  BY <1>5, <1>7, <1>9, SameShown, Zenon
<1>11. old = Shown(D) /\ new = Shown(F)
  BY <1>3, Zenon DEF Sees, Drained
<1>12. QED BY <1>4, <1>10, <1>11, Zenon

LEMMA ServeLineReqSeen ==
  ASSUME PInv, ~ Reuses, NEW x \in Text, NEW as \in LineAttributes, ServeLineReq(x, as), NEW m, m = Head(t.out),
         NEW old, NEW new, Sees(old, new)
  PROVE  LinesSeen(new, old, m.obj, Answered(m), x, as)
<1>1. PICK p, K, g : p = pad[m.obj] /\ K = Answered(m) /\ g = Answer(lib, m, K, x, as)
  OBVIOUS
<1>2. t.out # <<>> /\ t' = Taken /\ m.op = "LINEREQ" /\ m.oid = oid[m.obj] /\ lib' = g
  BY <1>1 DEF ServeLineReq, Meant, HeadIs
<1>3. PICK E : MessageRead(pad, oid, uniq, lib, t', E, m)
  BY <1>2, HeadRead, Zenon
<1>4. K = {k \in m.lo .. m.hi : IF p.kind.use = "create" THEN k \in p.made ELSE p.lines = 0 \/ k <= p.lines}
  BY <1>1, Zenon DEF Answered
<1>5. /\ K \subseteq m.lo .. m.hi
      /\ \A k \in m.lo .. m.hi : k \notin K => IF p.kind.use = "create" THEN k \notin p.made
                                               ELSE p.lines # 0 /\ ~ (k <= p.lines)
  BY <1>4
<1>6. LinesSeen(Shown(DrainedOf(t', g.toTerm)), Shown(E), m.obj, K, x, as)
  BY ONLY x \in Text, as \in LineAttributes, ~ Reuses, <1>1, <1>2, <1>3, <1>5, LineReqKeeps
<1>7. Shown(E) = old
  <2>1. PICK D : D = DrainedOf(t, lib.toTerm)
    OBVIOUS
  <2>2. E = DrainedOf(t', lib.toTerm)
    BY <1>3, Zenon DEF MessageRead, Ends
  <2>3. Shown(E) = Shown(D)
    BY <1>2, <2>1, <2>2, TakenShown, Zenon
  <2>4. QED BY <2>1, <2>3, Zenon DEF Sees, Drained
<1>8. new = Shown(DrainedOf(t', g.toTerm))
  BY <1>2, Zenon DEF Sees
<1>9. QED BY <1>1, <1>6, <1>7, <1>8, Zenon

LEMMA ReceiveSeen ==
  ASSUME PInv, Receive, NEW old, NEW new, Sees(old, new)
  PROVE  new = old
<1>1. PICK n, ids, s, u, m, z, v : /\ n = uniq /\ ids = oid /\ s = lib.toTerm /\ u = t
                                   /\ m = Head(s) /\ z = Tail(s) /\ v = PadOp(u, m)
  OBVIOUS
<1>2. n \in Nat /\ s \in Seq(Message(n)) /\ s # <<>> /\ PipeOK(u, s, n, ids) /\ lib \in Library(n)
  <2>1. Inv(pad, oid, uniq, lib, t) /\ lib.toTerm # <<>> /\ lib \in Library(uniq)
    BY Zenon DEF PInv, Receive, Inv, TypesOK
  <2>2. QED BY <1>1, <2>1, InvIs, Zenon
<1>3. SameEnd(v, z, u, s)
  BY ONLY <1>1, <1>2, ReadingOne
<1>4. t' = v /\ lib'.toTerm = z
  BY <1>1, <1>2 DEF Receive, Library
<1>5. QED BY <1>1, <1>3, <1>4, Zenon DEF SameEnd, Sees, Drained

-----------------------------------------------------------------------------
(* What the user does is seen. *)

\* The windows v and w differ in one line at most.
Sole(v, w) == \A a, b \in Reals(w) \ Reals(v) : a = b

LEMMA SoleStep ==
  ASSUME NEW n \in Nat, NEW u, TermOK(u, n), NEW v, TermOK(v, n), NEW o, NEW x, NEW K, Less(v, u, o, x, K, FALSE),
         Sole(Win(v, o), Win(u, o)), NEW m \in Message(n), NEW ids \in [Obj -> 1 .. n], Fits(u, m, ids),
         NEW u1, u1 = PadOp(u, m), NEW v1, v1 = PadOp(v, m)
  PROVE  Sole(Win(v1, o), Win(u1, o))
<1>1. Fits(v, m, ids)
  BY LessStep, Zenon
<1>2. Step(u1, u, m, n) /\ Step(v1, v, m, n)
  BY <1>1, PadOpIs, Zenon
<1>3. v.prev = u.prev /\ v.LINEobj = u.LINEobj /\ Behind(Win(v, o), Win(u, o), x, K, FALSE)
  BY Zenon DEF Less
<1>4. Target(v, m) = Target(u, m) /\ LineOf(v, m) = LineOf(u, m)
  <2>1. PrevOf(v, m) = PrevOf(u, m)
    BY <1>3, Zenon DEF PrevOf
  <2>2. QED BY <1>3, <2>1, Zenon DEF Target, LineOf
<1>5. CASE Target(u, m) # o
  <2>1. Win(u1, o) = Win(u, o) /\ Win(v1, o) = Win(v, o)
    BY <1>2, <1>4, <1>5, Zenon DEF Step
  <2>2. QED BY <2>1, Zenon
<1>6. CASE Target(u, m) = o
  <2>1. PICK w, y, w1, y1, l : /\ w = Win(u, o) /\ y = Win(v, o) /\ w1 = Win(u1, o) /\ y1 = Win(v1, o)
                               /\ l = LineOf(u, m)
    OBVIOUS
  <2>2. Effect(w1, w, m, l) /\ Effect(y1, y, m, l)
    BY <1>2, <1>4, <1>6, <2>1, Zenon DEF Step
  <2>3. CASE w1 = y1
    <3>1. Reals(w1) \ Reals(y1) = {}
      BY <2>3
    <3>2. QED BY <2>1, <3>1 DEF Sole
  <2>4. CASE w1 # y1
    <3>1. w # NoWin /\ y # NoWin
      <4>1. w = NoWin => y = NoWin
        BY <1>3, <2>1, Zenon DEF Behind
      <4>2. w # y
        <5>1. ASSUME w = y PROVE FALSE
          <6>1. Effect(y1, w, m, l)
            BY <2>2, <5>1, Zenon
          <6>2. w1 = y1
            BY <2>2, <6>1, EffectOnce, Zenon
          <6>3. QED BY <2>4, <6>2, Zenon
        <5>2. QED BY <5>1, Zenon
      <4>3. ~ (w # NoWin /\ y = NoWin)
        BY <1>3, <2>1, Zenon DEF Behind
      <4>4. QED BY <4>1, <4>2, <4>3, Zenon
    <3>2. m.op # "PADDEF" /\ m.op # "DELETE"
      <4>1. m.op # "PADDEF"
        BY <1>6, <2>1, <3>1, Zenon DEF Fits, FitsWin
      <4>2. m.op # "DELETE"
        BY <2>2, <2>4, <3>1, Zenon DEF Effect
      <4>3. QED BY <4>1, <4>2
    <3>3. m.op \notin {"PADDEF", "DELETE"}
      BY <3>2
    <3>4. Becoming(w1, w, m, l) /\ Becoming(y1, y, m, l)
      <4>1. Becoming(Win(u1, o), Win(u, o), m, LineOf(u, m))
        BY ONLY n \in Nat, TermOK(u, n), m \in Message(n), Fits(u, m, ids), <1>2, <1>6, <2>1, <3>1, <3>3, TargetBecomes
      <4>2. Becoming(Win(v1, o), Win(v, o), m, LineOf(v, m))
        <5>1. Target(v, m) = o
          BY <1>4, <1>6, Zenon
        <5>2. QED BY ONLY n \in Nat, TermOK(v, n), m \in Message(n), <1>1, <1>2, <2>1, <3>1, <3>3, <5>1, TargetBecomes
      <4>3. QED BY <1>4, <2>1, <4>1, <4>2, Zenon
    <3>5. y.max = w.max
      BY <1>3, <2>1, <3>1, Zenon DEF Behind
    <3>6. PICK R, Q, R1, Q1 : R = Reals(w) /\ Q = Reals(y) /\ R1 = Reals(w1) /\ Q1 = Reals(y1)
      OBVIOUS
    <3>7. \A a, b \in R \ Q : a = b
      BY <2>1, <3>6, Zenon DEF Sole
    <3>8. \A a, b \in R1 \ Q1 : a = b
      <4>1. CASE m.op = "MAKEGAP"
        <5>1. R1 = {Moved(z, m.key, 1) : z \in R} /\ Q1 = {Moved(z, m.key, 1) : z \in Q}
          BY <3>4, <3>6, <4>1, Zenon DEF Becoming, Spread
        <5>2. \A a \in R1 \ Q1 : \E z \in R \ Q : a = Moved(z, m.key, 1)
          BY <5>1
        <5>3. QED BY <3>7, <5>2, Zenon
      <4>2. CASE m.op # "MAKEGAP"
        <5>1. PICK G, A : G = Drop(w.max, m, l) /\ A = Add(w.max, m, l)
          OBVIOUS
        <5>2. R1 = {z \in R : z.key \notin G} \cup A /\ Q1 = {z \in Q : z.key \notin G} \cup A
          BY <3>4, <3>5, <3>6, <4>2, <5>1, Zenon DEF Becoming, Change
        <5>3. \A a \in R1 \ Q1 : a \in R \ Q
          BY <5>2
        <5>4. QED BY <3>7, <5>3, Zenon
      <4>3. QED BY <4>1, <4>2, Zenon
    <3>9. QED BY <2>1, <3>6, <3>8, Zenon DEF Sole
  <2>5. QED BY <2>3, <2>4, Zenon
<1>7. QED BY <1>5, <1>6, Zenon

\* One line less is one line less when all is read.
LEMMA SoleStays ==
  ASSUME NEW n \in Nat, NEW s \in Seq(Message(n)), NEW u, NEW ids \in [Obj -> 1 .. n], PipeOK(u, s, n, ids),
         NEW v, TermOK(v, n), NEW o, NEW x, NEW K, Less(v, u, o, x, K, FALSE), Sole(Win(v, o), Win(u, o))
  PROVE  Sole(Win(DrainedOf(v, s), o), Win(DrainedOf(u, s), o))
<1>1. PICK g : Piped(g, u, s, n, ids) /\ g[Len(s)] = DrainedOf(u, s)
  BY PipeOf, Zenon
<1>2. PipeOK(v, s, n, ids)
  BY Taking, Zenon
<1>3. PICK h : Piped(h, v, s, n, ids) /\ h[Len(s)] = DrainedOf(v, s)
  BY <1>2, PipeOf, Zenon
<1>4. PICK N : N = Len(s)
  OBVIOUS
<1>5. N \in Nat /\ N \in 0 .. N
  BY <1>4
<1>6. /\ g[0] = u /\ \A i \in 1 .. N : g[i] = PadOp(g[i - 1], s[i]) /\ Fits(g[i - 1], s[i], ids)
      /\ \A i \in 0 .. N : TermOK(g[i], n)
  BY <1>1, <1>4, Zenon DEF Piped, Reads
<1>7. /\ h[0] = v /\ \A i \in 1 .. N : h[i] = PadOp(h[i - 1], s[i])
      /\ \A i \in 0 .. N : TermOK(h[i], n)
  BY <1>3, <1>4, Zenon DEF Piped, Reads
<1> DEFINE Good(i) == Less(h[i], g[i], o, x, K, FALSE) /\ Sole(Win(h[i], o), Win(g[i], o))
           T == { i \in 0 .. N : Good(i) }
<1>8. 0 \in T
  <2>1. Good(0)
    BY <1>6, <1>7, Zenon
  <2>2. 0 \in 0 .. N
    BY <1>5
  <2>3. QED BY <2>1, <2>2, Zenon
<1>9. ASSUME NEW i \in 0 .. N - 1, Good(i) PROVE Good(i + 1)
  <2>1. PICK j, m : j = i + 1 /\ m = s[j]
    OBVIOUS
  <2>2. j \in 1 .. N /\ j - 1 = i /\ i \in 0 .. N
    BY <1>5, <2>1
  <2>3. m \in Message(n)
    BY <1>4, <2>1, <2>2
  <2>4. PICK a, b, a1, b1 : a = g[i] /\ b = h[i] /\ a1 = g[j] /\ b1 = h[j]
    OBVIOUS
  <2>5. /\ a1 = PadOp(a, m) /\ b1 = PadOp(b, m) /\ Fits(a, m, ids) /\ TermOK(a, n) /\ TermOK(b, n)
        /\ Less(b, a, o, x, K, FALSE) /\ Sole(Win(b, o), Win(a, o))
    BY <1>6, <1>7, <1>9, <2>1, <2>2, <2>4, Zenon
  <2>6. Less(b1, a1, o, x, K, FALSE)
    BY <2>3, <2>5, LessStep, Zenon
  <2>7. Sole(Win(b1, o), Win(a1, o))
    BY <2>3, <2>5, SoleStep, Zenon
  <2>8. QED BY <2>1, <2>4, <2>6, <2>7, Zenon
<1>10. \A i \in 0 .. N - 1 : i \in T => i + 1 \in T
  <2>1. ASSUME NEW i \in 0 .. N - 1, i \in T PROVE i + 1 \in T
    <3>1. Good(i + 1)
      BY <1>9, <2>1, Zenon
    <3>2. i + 1 \in 0 .. N
      BY <1>5
    <3>3. QED BY <3>1, <3>2, Zenon
  <2>2. QED BY <2>1, Zenon
<1>11. N \in T
  <2> HIDE DEF T
  <2>1. QED BY <1>5, <1>8, <1>10, InductTo, Zenon
<1>12. Sole(Win(h[N], o), Win(g[N], o))
  BY <1>11, Zenon
<1>13. QED BY <1>1, <1>3, <1>4, <1>12, Zenon

LEMMA LessSeen ==
  ASSUME PInv, lib' = lib, NEW o \in Obj, NEW x, NEW J, NEW c, TermOK(t', uniq), Less(t', t, o, x, J, c),
         NEW old, NEW new, Sees(old, new), NEW w, w = Win(Drained, o), NEW v, v = Win(DrainedOf(t', lib.toTerm), o)
  PROVE  \/ c /\ new = W!Gone(old, o)
         \/ \E K : /\ K = IF w = NoWin THEN {} ELSE Lost(v, w)
                   /\ K \in SUBSET Key /\ FewerSeen(new, old, o, K)
<1>1. PICK n, ids, s, a, b : n = uniq /\ ids = oid /\ s = lib.toTerm /\ a = t /\ b = t'
  OBVIOUS
<1>2. n \in Nat /\ ids \in [Obj -> 1 .. n] /\ s \in Seq(Message(n)) /\ PipeOK(a, s, n, ids) /\ TermOK(DrainedOf(a, s), n)
  <2>1. Inv(pad, oid, uniq, lib, t)
    BY Zenon DEF PInv
  <2>2. QED BY <1>1, <2>1, InvIs, Zenon
<1>3. TermOK(b, n) /\ Less(b, a, o, x, J, c)
  BY <1>1, Zenon
<1>4. PICK D, E : D = DrainedOf(a, s) /\ E = DrainedOf(b, s)
  OBVIOUS
<1>5. PipeOK(b, s, n, ids) /\ Less(E, D, o, x, J, c)
  BY <1>2, <1>3, <1>4, Taking, Zenon
<1>6. TermOK(E, n) /\ TermOK(D, n)
  BY <1>2, <1>4, <1>5, PipeEnds, Zenon
<1>7. old = Shown(D) /\ new = Shown(E) /\ w = Win(D, o) /\ v = Win(E, o)
  BY <1>1, <1>4, Zenon DEF Sees, Drained
<1>8. \/ c /\ Shown(E) = W!Gone(Shown(D), o)
      \/ \E K : /\ K = IF w = NoWin THEN {} ELSE Lost(v, w)
                /\ K \in SUBSET Key /\ FewerSeen(Shown(E), Shown(D), o, K)
  BY ONLY o \in Obj, <1>2, <1>5, <1>6, <1>7, LessShown
<1>9. QED BY <1>7, <1>8, Zenon

LEMMA UserCloseSeen ==
  ASSUME PInv, NEW i, i \in 1 .. Len(t.wins), UserClose(i), NEW o, o = t.wins[i].object, NEW old, NEW new, Sees(old, new)
  PROVE  (\E K : FewerSeen(new, old, o, K)) \/ new = W!Gone(old, o)
<1>1. Inv(pad, oid, uniq, lib, t) /\ t' = DeletePad(t, i) /\ lib' = lib
  BY DEF PInv, UserClose
<1>2. PICK c : Lessened(t', t, uniq, o, c)
  BY <1>1, UserCloseKeeps
<1>3. PICK x, J : Less(t', t, o, x, J, c) /\ TermOK(t', uniq)
  BY <1>2, Zenon DEF Lessened
<1>4. o \in Obj
  BY <1>1, InvIs, WindowHere, Zenon
<1>5. QED BY <1>1, <1>3, <1>4, LessSeen, Zenon

LEMMA PaintSeen ==
  ASSUME PInv, NEW i, i \in 1 .. Len(t.wins), NEW lo \in Key, NEW hi \in Key, lo <= hi, Paint(i, lo, hi),
         NEW o, o = t.wins[i].object, NEW old, NEW new, Sees(old, new)
  PROVE  \E K : FewerSeen(new, old, o, K)
<1>1. /\ Inv(pad, oid, uniq, lib, t) /\ t' = Painted(t, i, lo, hi) /\ lib' = lib
      /\ hi <= IF t.wins[i].max # 0 THEN t.wins[i].max ELSE Len(t.wins[i].lines)
  BY DEF PInv, Paint
<1>2. Lessened(t', t, uniq, o, FALSE)
  BY ONLY i \in 1 .. Len(t.wins), lo \in Key, hi \in Key, lo <= hi, o = t.wins[i].object, <1>1, PaintKeeps
<1>3. PICK x, J : Less(t', t, o, x, J, FALSE) /\ TermOK(t', uniq)
  BY <1>2, Zenon DEF Lessened
<1>4. o \in Obj
  BY <1>1, InvIs, WindowHere, Zenon
<1>5. QED BY <1>1, <1>3, <1>4, LessSeen, Zenon

\* One line less.
LEMMA SoleOf ==
  ASSUME NEW n \in Nat, NEW w \in Window(n), WinOK(w), NEW v, NEW k, AllBut(v, w, k)
  PROVE  Sole(v, w)
<1>1. PICK A, B : A = AsSet(w.lines) /\ B = AsSet(v.lines)
  OBVIOUS
<1>2. B = {l \in A : l.key # k}
  BY <1>1, Zenon DEF AllBut
<1>3. Reals(w) = {l \in A : l.text # TILDE} /\ Reals(v) = {l \in B : l.text # TILDE}
  BY <1>1, Zenon DEF Reals
<1>4. \A a \in Reals(w) \ Reals(v) : a \in Reals(w) /\ a.key = k
  BY <1>2, <1>3
<1>5. ASSUME NEW a \in Reals(w) \ Reals(v), NEW b \in Reals(w) \ Reals(v) PROVE a = b
  <2>1. a \in Reals(w) /\ b \in Reals(w) /\ b.key = a.key
    BY <1>4, <1>5, Zenon
  <2>2. QED BY <2>1, RealsAre, Zenon
<1>6. QED BY <1>5, Zenon DEF Sole

LEMMA OneLost ==
  ASSUME NEW v, NEW w, Sole(v, w), NEW K, K = Lost(v, w)
  PROVE  Cardinality(K) <= 1
<1>1. PICK S : S = Reals(w) \ Reals(v)
  OBVIOUS
<1>2. K = {l.key : l \in S} /\ \A a, b \in S : a = b
  BY <1>1, Zenon DEF Sole, Lost
<1>3. CASE S = {}
  <2>1. K = {}
    BY <1>2, <1>3
  <2>2. QED BY <2>1, FS_EmptySet
<1>4. CASE S # {}
  <2>1. PICK a : a \in S
    BY <1>4
  <2>2. K = {a.key}
    BY <1>2, <2>1
  <2>3. Cardinality(K) = 1
    BY <2>2, FS_Singleton
  <2>4. QED BY <2>3
<1>5. QED BY <1>3, <1>4, Zenon

\* One line of o less at most.
OneLess(new, old, o) ==
  \E K \in SUBSET Key : Cardinality(K) <= 1 /\ new = W!Vanished(old, o, K)

LEMMA CutSeen ==
  ASSUME PInv, NEW i, i \in 1 .. Len(t.wins), NEW j, j \in 1 .. Len(t.wins[i].lines), Cut(i, j),
         NEW o, o = t.wins[i].object, NEW old, NEW new, Sees(old, new)
  PROVE  OneLess(new, old, o)
<1>1. /\ Inv(pad, oid, uniq, lib, t) /\ t' = [t EXCEPT !.wins[i].lines = RemoveAt(@, j)] /\ lib' = lib
  BY DEF PInv, Cut
<1>2. PICK z, k : z = t.wins[i] /\ k = t.wins[i].lines[j].key
  OBVIOUS
<1>3. Lessened(t', t, uniq, o, FALSE) /\ AllBut(Win(t', o), z, k)
  <2>1. Lessened(t', t, uniq, t.wins[i].object, FALSE) /\ AllBut(Win(t', t.wins[i].object), t.wins[i], t.wins[i].lines[j].key)
    BY <1>1, CutKeeps
  <2>2. QED BY <1>2, <2>1, Zenon
<1>4. PICK x, J : Less(t', t, o, x, J, FALSE) /\ TermOK(t', uniq)
  BY <1>3, Zenon DEF Lessened
<1>5. uniq \in Nat /\ o \in Obj /\ z \in Window(uniq) /\ WinOK(z) /\ Win(t, o) = z
  <2>1. uniq \in Nat /\ TermOK(t, uniq)
    BY <1>1, InvIs, Zenon
  <2>2. z \in Window(uniq) /\ WinOK(z) /\ z.object \in Obj /\ Win(t, z.object) = z
    <3>1. z = t.wins[i]
      BY <1>2
    <3>2. QED BY ONLY i \in 1 .. Len(t.wins), <2>1, <3>1, WindowHere
  <2>3. z.object = o
    BY <1>2
  <2>4. QED BY <2>1, <2>2, <2>3, Zenon
<1>6. Sole(Win(t', o), Win(t, o))
  BY <1>3, <1>5, SoleOf, Zenon
<1>7. PICK w, v : w = Win(Drained, o) /\ v = Win(DrainedOf(t', lib.toTerm), o)
  OBVIOUS
<1>8. Sole(v, w)
  <2>1. PICK n, ids, s, a, b : n = uniq /\ ids = oid /\ s = lib.toTerm /\ a = t /\ b = t'
    OBVIOUS
  <2>2. /\ n \in Nat /\ ids \in [Obj -> 1 .. n] /\ s \in Seq(Message(n)) /\ PipeOK(a, s, n, ids)
        /\ TermOK(b, n) /\ Less(b, a, o, x, J, FALSE) /\ Sole(Win(b, o), Win(a, o))
    BY <1>1, <1>4, <1>6, <2>1, InvIs, Zenon
  <2>3. Sole(Win(DrainedOf(b, s), o), Win(DrainedOf(a, s), o))
    BY <2>2, SoleStays, Zenon
  <2>4. QED BY <1>7, <2>1, <2>3, Zenon DEF Drained
<1>9. PICK K : K = (IF w = NoWin THEN {} ELSE Lost(v, w)) /\ K \in SUBSET Key /\ FewerSeen(new, old, o, K)
  <2>1. PICK c : c = FALSE
    OBVIOUS
  <2>2. Less(t', t, o, x, J, c)
    BY <1>4, <2>1, Zenon
  <2>3. \/ c /\ new = W!Gone(old, o)
        \/ \E K : /\ K = IF w = NoWin THEN {} ELSE Lost(v, w)
                  /\ K \in SUBSET Key /\ FewerSeen(new, old, o, K)
    BY <1>1, <1>4, <1>5, <1>7, <2>2, LessSeen, Zenon
  <2>4. QED BY <2>1, <2>3, Zenon
<1>10. Cardinality(K) <= 1
  <2>1. CASE w = NoWin
    <3>1. K = {}
      BY <1>9, <2>1, Zenon
    <3>2. QED BY <3>1, FS_EmptySet
  <2>2. CASE w # NoWin
    <3>1. K = Lost(v, w)
      BY <1>9, <2>2, Zenon
    <3>2. QED BY <1>8, <3>1, OneLost, Zenon
  <2>3. QED BY <2>1, <2>2, Zenon
<1>11. QED BY <1>9, <1>10, Zenon DEF FewerSeen, OneLess

-----------------------------------------------------------------------------
(* Each step has its promised effect. *)

LEMMA CallsKeep ==
  ASSUME PInv, PInv', ~ Reuses, NEW old, NEW new, Sees(old, new), NEW o \in Obj, NEW k \in Key
  PROVE  /\ \A kind \in Kinds[o], n \in 0 .. MaxKey :
              NewPad(o, kind, n) => new = W!Opened(old, o, n)
         /\ \A x \in Text, as \in LineAttributes :
              insert(o, k, x, as) => new = W!Inserted(old, o, {k}, Content(x, as))
         /\ removeline(o, k) => new = W!Vanished(old, o, {k})
         /\ clear(o) => new = W!Vanished(old, o, Key)
         /\ lines(o, k) => new = W!Resized(old, o, k)
         /\ \A hi \in Key : createline(o, k, hi) => new = W!Vanished(old, o, k .. hi)
         /\ makegap(o, k, 1) => new = W!Spread(old, o, k, 1)
         /\ HostClose(o) => new = W!Gone(old, o)
<1>1. ASSUME NEW kind \in Kinds[o], NEW n \in 0 .. MaxKey, NewPad(o, kind, n) PROVE new = W!Opened(old, o, n)
  BY <1>1, NewPadSeen, Zenon
<1>2. ASSUME NEW x \in Text, NEW as \in LineAttributes, insert(o, k, x, as)
      PROVE  new = W!Inserted(old, o, {k}, Content(x, as))
  <2>1. LinesSeen(new, old, o, {k}, x, as)
    BY <1>2, InsertSeen, Zenon
  <2>2. QED BY <2>1 DEF LinesSeen
<1>3. removeline(o, k) => new = W!Vanished(old, o, {k})
  BY RemoveLineSeen, Zenon
<1>4. clear(o) => new = W!Vanished(old, o, Key)
  BY ClearSeen, Zenon
<1>5. lines(o, k) => new = W!Resized(old, o, k)
  BY LinesSeenIs, Zenon
<1>6. ASSUME NEW hi \in Key, createline(o, k, hi) PROVE new = W!Vanished(old, o, k .. hi)
  BY <1>6, CreateLineSeen, Zenon
<1>7. makegap(o, k, 1) => new = W!Spread(old, o, k, 1)
  BY MakeGapSeen, Zenon
<1>8. HostClose(o) => new = W!Gone(old, o)
  BY HostCloseSeen, Zenon
<1>9. QED BY <1>1, <1>2, <1>3, <1>4, <1>5, <1>6, <1>7, <1>8, Zenon

LEMMA AnswersKeep ==
  ASSUME PInv, ~ Reuses, NEW old, NEW new, Sees(old, new), NEW x \in Text, NEW as \in LineAttributes, ServeLineReq(x, as)
  PROVE  LET m == Head(t.out) IN new = W!Inserted(old, m.obj, Answered(m), Content(x, as))
<1>1. PICK m : m = Head(t.out)
  OBVIOUS
<1>2. LinesSeen(new, old, m.obj, Answered(m), x, as)
  BY <1>1, ServeLineReqSeen, Zenon
<1>3. new = W!Inserted(old, m.obj, Answered(m), Content(x, as))
  BY <1>2 DEF LinesSeen
<1>4. QED BY <1>1, <1>3, Zenon

\* What is seen of the user's actions in window i.
UserSeen(i, old, new) ==
  LET o == t.wins[i].object
      fewer == \E K \in SUBSET DOMAIN old[o].lines : new = W!Vanished(old, o, K)
  IN /\ UserClose(i) => fewer \/ new = W!Gone(old, o)
     /\ \A lo, hi \in Key : lo <= hi /\ Paint(i, lo, hi) => fewer
     /\ \A j \in DOMAIN t.wins[i].lines :
          Cut(i, j) => \E K \in SUBSET Key :
                         Cardinality(K) <= 1 /\ new = W!Vanished(old, o, K)

LEMMA UserKeeps ==
  ASSUME PInv, NEW old, NEW new, Sees(old, new), NEW i \in DOMAIN t.wins
  PROVE  UserSeen(i, old, new)
<1>1. PICK o : o = t.wins[i].object
  OBVIOUS
<1>2. i \in 1 .. Len(t.wins) /\ DOMAIN t.wins[i].lines = 1 .. Len(t.wins[i].lines)
  BY WindowsAre, Zenon
<1>3. ASSUME NEW K, FewerSeen(new, old, o, K)
      PROVE  \E K_1 \in SUBSET DOMAIN old[o].lines : new = W!Vanished(old, o, K_1)
  BY <1>3, Zenon DEF FewerSeen
<1>4. UserClose(i) => (\E K \in SUBSET DOMAIN old[o].lines : new = W!Vanished(old, o, K)) \/ new = W!Gone(old, o)
  BY <1>1, <1>2, <1>3, UserCloseSeen, Zenon
<1>5. ASSUME NEW lo \in Key, NEW hi \in Key, lo <= hi, Paint(i, lo, hi)
      PROVE  \E K \in SUBSET DOMAIN old[o].lines : new = W!Vanished(old, o, K)
  <2>1. \E K : FewerSeen(new, old, o, K)
    BY <1>1, <1>2, <1>5, PaintSeen, Zenon
  <2>2. QED BY <1>3, <2>1, Zenon
<1>6. ASSUME NEW j \in DOMAIN t.wins[i].lines, Cut(i, j)
      PROVE  \E K \in SUBSET Key : Cardinality(K) <= 1 /\ new = W!Vanished(old, o, K)
  <2>1. j \in 1 .. Len(t.wins[i].lines)
    BY <1>2, <1>6, Zenon
  <2>2. OneLess(new, old, o)
    BY <1>1, <1>2, <1>6, <2>1, CutSeen, Zenon
  <2>3. QED BY <2>2, Zenon DEF OneLess
<1>7. QED BY <1>1, <1>4, <1>5, <1>6, Zenon DEF UserSeen

LEMMA PromiseKept ==
  ASSUME PInv, PInv', ~ Reuses, NEW old, NEW new, Sees(old, new)
  PROVE  Promised(old, new)
<1>1. \A o \in Obj, k \in Key :
         /\ \A kind \in Kinds[o], n \in 0 .. MaxKey :
              NewPad(o, kind, n) => new = W!Opened(old, o, n)
         /\ \A x \in Text, as \in LineAttributes :
              insert(o, k, x, as) => new = W!Inserted(old, o, {k}, Content(x, as))
         /\ removeline(o, k) => new = W!Vanished(old, o, {k})
         /\ clear(o) => new = W!Vanished(old, o, Key)
         /\ lines(o, k) => new = W!Resized(old, o, k)
         /\ \A hi \in Key : createline(o, k, hi) => new = W!Vanished(old, o, k .. hi)
         /\ makegap(o, k, 1) => new = W!Spread(old, o, k, 1)
         /\ HostClose(o) => new = W!Gone(old, o)
  BY CallsKeep, Zenon
<1>2. \A x \in Text, as \in LineAttributes :
        ServeLineReq(x, as) =>
          LET m == Head(t.out) IN new = W!Inserted(old, m.obj, Answered(m), Content(x, as))
  BY AnswersKeep, Zenon
<1>3. (ServeUserClose \/ ServeStale \/ Receive) => new = old
  BY ServeUserCloseSeen, ServeStaleSeen, ReceiveSeen, Zenon
<1>4. \A i \in DOMAIN t.wins : UserSeen(i, old, new)
  BY UserKeeps, Zenon
<1>5. QED BY <1>1, <1>2, <1>3, <1>4, Zenon DEF Promised, UserSeen

\* Each call has the effect that the manual gives it on the one window it is
\* about, whatever was sent before and whatever the user does meanwhile, and
\* the user's actions take lines from the one window they are about: the calls
\* of class Pad (pads/host/pad.c) and the handlers of the terminal
\* (pads/term/pad.c) keep it, if no new Pad gets the address of an old one.
THEOREM PromisesKept == ASSUME ~ Reuses PROVE Spec => KeepsPromise
<1>1. ASSUME PInv, [Next]_vars
      PROVE  [\E t_ \in {t'}, toTerm_ \in {lib'.toTerm} :
                \E D \in {Drained}, E \in {DrainedOf(t_, toTerm_)} :
                  \E old \in {Shown(D)}, new \in {Shown(E)} : Promised(old, new)]_vars
  <2>1. PInv'
    BY <1>1, StepOK
  <2>2. PICK old, new : old = Shown(Drained) /\ new = Shown(DrainedOf(t', lib'.toTerm))
    OBVIOUS
  <2>3. Promised(old, new)
    <3>1. Sees(old, new)
      BY <2>2, Zenon DEF Sees
    <3>2. QED BY <1>1, <2>1, <3>1, PromiseKept, Zenon
  <2>4. \E t_ \in {t'}, toTerm_ \in {lib'.toTerm} :
          \E D \in {Drained}, E \in {DrainedOf(t_, toTerm_)} :
            \E old_1 \in {Shown(D)}, new_1 \in {Shown(E)} : Promised(old_1, new_1)
    BY <2>2, <2>3, Zenon
  <2>5. QED BY <2>4, Zenon
<1>2. QED BY <1>1, Inductive, PTL DEF Spec, KeepsPromise
=============================================================================
