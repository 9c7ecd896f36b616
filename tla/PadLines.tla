------------------------------ MODULE PadLines ------------------------------
(***************************************************************************)
(* Windows and their lines: class Pad of the debugger's side               *)
(* (pads/host/pad.c, padrcv.c, term.c), the terminal (PadTerm) and the two *)
(* pipes between them.  What the debugger has sent is in `lib.toTerm',     *)
(* what the terminal has sent in `t.out'; either side goes on without      *)
(* waiting for the other, so a call of Pad meets a window that the user    *)
(* may have closed, cut or scrolled meanwhile, and a request or a close    *)
(* meets an object that may have no window any more, or a new one.         *)
(*                                                                         *)
(* One call of the library, one message read, and one thing the user does  *)
(* is one step.                                                            *)
(***************************************************************************)
EXTENDS PadTerm, FiniteSets

CONSTANTS
  Obj,      \* the objects (PadRcv) that may have a window
  Kinds,    \* Kinds[o]: the windows it opens: [use, attributes, line]
  Text,     \* what a line may say
  MaxKey,   \* bound: keys of lines
  Screen,   \* bound: lines on the screen
  MaxSend,  \* bound: messages to the terminal at which no call is made
  MaxOut,   \* bound: messages to the debugger at which the user waits
  MaxUniq,  \* bound: object identifiers given out
  Reuses    \* whether a new Pad may get the address of a deleted one

\* prevpad is compared with the address of a Pad and with nothing else, so
\* it is the object of the Pad it points to; "freed" when that was deleted.
Unset == "unset"
Freed == "freed"

ASSUME PadAssumption ==
  /\ IsFiniteSet(Obj) /\ Obj \cap {NoObj, Unset, Freed} = {}
  /\ TILDE \notin Text /\ Text # {}
  /\ \A n \in {MaxKey, Screen, MaxSend, MaxOut} : n \in Nat \ {0}
  /\ MaxUniq \in Nat /\ MaxUniq >= Cardinality(Obj)
  /\ Cushion \in Nat
  /\ Reuses \in BOOLEAN

\* DONT_CLOSE is for demonstrations only, FAKELINE the terminal's own, and
\* the journal and the frames are not told when the user closes them.
ASSUME KindsAssumption ==
  \A o \in Obj : \A kind \in Kinds[o] :
    /\ kind.use \in {"lines", "create", "gap"}
    /\ kind = [use |-> kind.use, attributes |-> kind.attributes, line |-> kind.line]
    /\ {"DONT_CLOSE", "FAKELINE"} \cap kind.attributes = {}
    /\ kind.use # "lines" => "USERCLOSE" \notin kind.attributes
    /\ \A as \in kind.line : "FAKELINE" \notin as

VARIABLES
  pad,   \* the Pad of each object, or NoPad
  oid,   \* PadRcv::oid
  uniq,  \* invalidate()'s uniq
  lib,   \* the library: prev and prevpad of Pad::insert, and toTerm
  t      \* the terminal, see PadTerm

vars == <<pad, oid, uniq, lib, t>>

Key == 1 .. MaxKey
AllKinds == UNION {Kinds[o] : o \in Obj}
LineAttributes == UNION {kind.line : kind \in AllKinds}
NoKind == [use |-> "none", attributes |-> {}, line |-> {}]
NoPad == [kind |-> NoKind, lines |-> 0, made |-> {}]

-----------------------------------------------------------------------------
(* The library. *)

Sent(h, m) == [h EXCEPT !.toTerm = Append(@, m)]

\* Pad::insert, for a key within the window's lines.
InRange(o, k) == pad[o].lines > 0 => k <= pad[o].lines

\* Pad::insert: a line that follows the one inserted last is sent without
\* its pad, key and attributes.
NextInPad_AnyPad(h, o, k, as) ==
  k = h.prev.key + 1 /\ as = h.prev.attributes

NextInPad(h, o, k, as) ==
  /\ h.prevpad = o
  /\ k = h.prev.key + 1
  /\ as = h.prev.attributes

SendLine(h, o, k, x, as) ==
  LET m == IF NextInPad(h, o, k, as)
           THEN [op |-> "NEXTLINE", text |-> x]
           ELSE [op |-> "LINE", obj |-> o, key |-> k, attributes |-> as, text |-> x]
  IN [Sent(h, m) EXCEPT !.prev = [key |-> k, attributes |-> as], !.prevpad = o]

invalidate(o) == uniq' = uniq + 1 /\ oid' = [oid EXCEPT ![o] = uniq + 1]

\* ~Pad: the Pad's memory may be taken for another one.
deletePad(o) ==
  /\ pad' = [pad EXCEPT ![o] = NoPad]
  /\ lib' = Sent([lib EXCEPT !.prevpad = IF @ = o THEN Freed ELSE @],
                 [op |-> "DELETE", obj |-> o])

Init ==
  /\ pad = [o \in Obj |-> NoPad]
  /\ uniq = Cardinality(Obj)
  /\ oid = CHOOSE f \in [Obj -> 1 .. uniq] : IsInjective(f)
  /\ lib = [prev |-> [key |-> 0, attributes |-> {}], prevpad |-> Unset, toTerm |-> <<>>]
  /\ t = TermInit

-----------------------------------------------------------------------------
(* The debugger: an object calls its Pad. *)

MaySend == Len(lib.toTerm) < MaxSend
MayCall(o) == pad[o] # NoPad /\ MaySend

\* new Pad, options, and lines() if the window has a number of lines.
NewPad(o, kind, n) ==
  /\ pad[o] = NoPad /\ MaySend
  /\ (kind.use = "lines") <=> (n > 0)
  /\ pad' = [pad EXCEPT ![o] = [kind |-> kind, lines |-> n, made |-> {}]]
  /\ \E p \in {lib.prevpad} \cup (IF Reuses /\ lib.prevpad = Freed THEN {o} ELSE {}) :
       LET def == [op |-> "PADDEF", obj |-> o, oid |-> oid[o]]
           opt == [op |-> "ATTRIBUTE", obj |-> o, attributes |-> kind.attributes]
           max == [op |-> "LINES", obj |-> o, n |-> n]
       IN lib' = [lib EXCEPT !.prevpad = p,
                    !.toTerm = @ \o <<def, opt>> \o (IF n > 0 THEN <<max>> ELSE <<>>)]
  /\ UNCHANGED <<oid, uniq, t>>

\* A line outside the window's lines is refused with a warning.
insert(o, k, x, as) ==
  /\ MayCall(o) /\ InRange(o, k) /\ as \in pad[o].kind.line
  /\ lib' = SendLine(lib, o, k, x, as)
  /\ UNCHANGED <<pad, oid, uniq, t>>

removeline(o, k) ==
  /\ MayCall(o)
  /\ pad' = [pad EXCEPT ![o].made = @ \ {k}]
  /\ lib' = Sent(lib, [op |-> "REMOVELINE", obj |-> o, key |-> k])
  /\ UNCHANGED <<oid, uniq, t>>

clear(o) ==
  /\ MayCall(o)
  /\ pad' = [pad EXCEPT ![o].made = {}]
  /\ lib' = Sent(lib, [op |-> "CLEAR", obj |-> o])
  /\ UNCHANGED <<oid, uniq, t>>

lines(o, n) ==
  /\ MayCall(o) /\ pad[o].kind.use = "lines"
  /\ pad' = [pad EXCEPT ![o].lines = n]
  /\ lib' = Sent(lib, [op |-> "LINES", obj |-> o, n |-> n])
  /\ UNCHANGED <<oid, uniq, t>>

\* `made' are the lines the object can show when they are requested.
createline(o, lo, hi) ==
  /\ MayCall(o) /\ pad[o].kind.use = "create" /\ lo <= hi
  /\ pad' = [pad EXCEPT ![o].made = @ \cup lo .. hi]
  /\ lib' = Sent(lib, [op |-> "CREATELINE", obj |-> o, lo |-> lo, hi |-> hi])
  /\ UNCHANGED <<oid, uniq, t>>

\* A gap before key k, for `gap' new lines.
makegap(o, k, gap) ==
  /\ MayCall(o) /\ pad[o].kind.use = "gap"
  /\ lib' = Sent(lib, [op |-> "MAKEGAP", obj |-> o, key |-> k, gap |-> gap])
  /\ UNCHANGED <<pad, oid, uniq, t>>

HostClose_SameOid(o) ==
  /\ MayCall(o) /\ uniq < MaxUniq
  /\ deletePad(o) /\ UNCHANGED <<oid, uniq>>
  /\ UNCHANGED t

\* The object closes its window and invalidates itself or is destroyed;
\* then another object may take its address.
HostClose(o) ==
  /\ MayCall(o) /\ uniq < MaxUniq
  /\ deletePad(o) /\ invalidate(o)
  /\ UNCHANGED t

-----------------------------------------------------------------------------
(* The debugger: it reads a message of the terminal. *)

HeadIs(op) == MaySend /\ t.out # <<>> /\ Head(t.out).op = op

\* rcvobj: the object is there if its identifier is the one the window has.
Meant(m) == m.oid = oid[m.obj]

Taken == [t EXCEPT !.out = Tail(@)]

Answered_ButLast(m) ==
  LET p == pad[m.obj] IN
  {k \in m.lo .. m.hi - 1 : IF p.kind.use = "create" THEN k \in p.made
                            ELSE p.lines = 0 \/ k <= p.lines}

\* The lines its object shows of those requested; the others came too late.
Answered(m) ==
  LET p == pad[m.obj] IN
  {k \in m.lo .. m.hi : IF p.kind.use = "create" THEN k \in p.made
                        ELSE p.lines = 0 \/ k <= p.lines}

\* linereq of each line of request m, those in K are inserted.
Answer(h, m, K, x, as) ==
  FoldLeft(LAMBDA g, k : IF k \in K THEN SendLine(g, m.obj, k, x, as) ELSE g, h, UpTo(m.lo, m.hi))

ServeLineReq(x, as) ==
  LET m == Head(t.out) IN
  /\ HeadIs("LINEREQ") /\ Meant(m) /\ as \in pad[m.obj].kind.line
  /\ lib' = Answer(lib, m, Answered(m), x, as)
  /\ t' = Taken
  /\ UNCHANGED <<pad, oid, uniq>>

\* userclose: every object deletes its Pad; some invalidate themselves.
ServeUserClose ==
  LET o == Head(t.out).obj IN
  /\ HeadIs("USERCLOSE") /\ Meant(Head(t.out))
  /\ deletePad(o)
  /\ UNCHANGED <<oid, uniq>> \/ (uniq < MaxUniq /\ invalidate(o))
  /\ t' = Taken

ServeStale ==
  /\ MaySend /\ t.out # <<>> /\ ~Meant(Head(t.out))
  /\ t' = Taken
  /\ UNCHANGED <<pad, oid, uniq, lib>>

TermServe ==
  \/ \E x \in Text, as \in LineAttributes : ServeLineReq(x, as)
  \/ ServeUserClose
  \/ ServeStale

-----------------------------------------------------------------------------
(* The terminal. *)

Receive ==
  /\ lib.toTerm # <<>>
  /\ t' = PadOp(t, Head(lib.toTerm))
  /\ lib' = [lib EXCEPT !.toTerm = Tail(@)]
  /\ UNCHANGED <<pad, oid, uniq>>

MayAct == Len(t.out) < MaxOut

UserClose(i) ==
  /\ MayAct
  /\ t' = DeletePad(t, i)
  /\ UNCHANGED <<pad, oid, uniq, lib>>

\* DoCut: a line that may not be cut stays.
Cut(i, j) ==
  /\ "DONT_CUT" \notin t.wins[i].lines[j].attributes
  /\ t' = [t EXCEPT !.wins[i].lines = RemoveAt(@, j)]
  /\ UNCHANGED <<pad, oid, uniq, lib>>

\* A window is painted: the first time, uncovered, or scrolled.
Paint(i, lo, hi) ==
  /\ MayAct /\ hi - lo < Screen
  /\ hi <= IF t.wins[i].max # 0 THEN t.wins[i].max ELSE Len(t.wins[i].lines)
  /\ t' = Painted(t, i, lo, hi)
  /\ UNCHANGED <<pad, oid, uniq, lib>>

-----------------------------------------------------------------------------
(* The next step. *)

\* The terminal when it will have read all that was sent.
DrainedOf(term, toTerm) == FoldLeft(PadOp, term, toTerm)

Drained == DrainedOf(t, lib.toTerm)

LinesOf(o) ==
  LET D == Drained
      i == ObjToPad(D, o)
  IN IF i = 0 THEN <<>> ELSE D.wins[i].lines

KeysOf(o) == LET ls == LinesOf(o) IN {ls[j].key : j \in DOMAIN ls}

Host ==
  \E o \in Obj :
    \/ \E kind \in Kinds[o], n \in 0 .. MaxKey : NewPad(o, kind, n)
    \/ \E k \in Key, x \in Text, as \in LineAttributes : insert(o, k, x, as)
    \/ \E k \in Key : removeline(o, k)
    \/ clear(o)
    \/ \E n \in Key : lines(o, n)
    \/ \E lo, hi \in Key : createline(o, lo, hi)
    \/ \E k \in Key : MaxKey \notin KeysOf(o) /\ makegap(o, k, 1)
    \/ HostClose(o)

User ==
  \E i \in DOMAIN t.wins :
    \/ UserClose(i)
    \/ \E j \in DOMAIN t.wins[i].lines : Cut(i, j)
    \/ \E lo, hi \in Key : lo <= hi /\ Paint(i, lo, hi)

Next == Host \/ User \/ TermServe \/ Receive

\* Both programs read what they are sent: the terminal all the time, the
\* debugger whenever it has ended a handler and returns to its loop
\* (TermServe), so that the calls of a handler, which may fill the pipe
\* meanwhile, put it off but do not prevent it.
Spec == Init /\ [][Next]_vars /\ SF_vars(TermServe) /\ WF_vars(Receive)

-----------------------------------------------------------------------------
(* Properties. *)

\* The variables hold values of their types; in particular no line is
\* requested that the window does not have (LineReq).
\* Lines are shown in the order of their keys, one of each key, and none
\* beyond the last line of a window that has one (PutLine, CreateLine,
\* MakeGap, RequestLines and P_LINES in any order, and lines that were
\* under way when the window changed).
KeysInOrder ==
  LET Line == [key : Key, text : Text \cup {TILDE},
               attributes : LineAttributes \cup {{}, {"FAKELINE"}}]
      Call == [op : {"LINEREQ"}, obj : Obj, oid : 1 .. uniq, lo : Key, hi : Key]
              \cup [op : {"USERCLOSE"}, obj : Obj, oid : 1 .. uniq]
  IN /\ uniq \in Cardinality(Obj) .. MaxUniq
     /\ oid \in [Obj -> 1 .. uniq]
     /\ pad \in [Obj -> [kind : {NoKind} \cup AllKinds, lines : 0 .. MaxKey, made : SUBSET Key]]
     /\ lib.prev \in [key : 0 .. MaxKey, attributes : LineAttributes \cup {{}}]
     /\ lib.prevpad \in Obj \cup {Unset, Freed}
     /\ t.prev \in [key : 0 .. MaxKey, attributes : LineAttributes \cup {{}}]
     /\ t.LINEobj \in Obj \cup {NoObj}
     /\ \A i \in DOMAIN t.out : t.out[i] \in Call
     /\ \A i \in DOMAIN t.wins :
          LET w == t.wins[i] IN
          /\ w.object \in Obj /\ w.oid \in 1 .. uniq /\ w.max \in 0 .. MaxKey
          /\ \A j \in DOMAIN w.lines : w.lines[j] \in Line
          /\ \A j, k \in DOMAIN w.lines : j < k => w.lines[j].key < w.lines[k].key
          /\ w.max # 0 => \A j \in DOMAIN w.lines : w.lines[j].key <= w.max

\* Both sides agree about which windows there are: when all is read, an
\* object without a Pad has no window, and one with a Pad has one window,
\* bound to the object as it is now, unless the user has closed that and
\* the object is still to be told.
WindowsAgree ==
  \A o \in Obj :
    LET wins == Drained.wins
        mine == {i \in DOMAIN wins : wins[i].object = o}
    IN IF pad[o] = NoPad THEN mine = {}
       ELSE \/ \E i \in DOMAIN wins : mine = {i} /\ wins[i].oid = oid[o]
            \/ mine = {} /\ \E i \in DOMAIN t.out :
                 t.out[i] = [op |-> "USERCLOSE", obj |-> o, oid |-> oid[o]]

Asked(ls, k) == \E j \in DOMAIN ls : ls[j] = Dummy(k, {})

\* A line that the terminal takes for requested is requested: the request
\* is on its way with the object's present identifier, or the line is.
RequestsArePending ==
  \A o \in Obj, k \in Key :
    Asked(LinesOf(o), k) =>
      \E i \in DOMAIN t.out : LET m == t.out[i] IN
        m.op = "LINEREQ" /\ m.obj = o /\ Meant(m) /\ k \in m.lo .. m.hi

\* What the debugger will take for a call of the user's is one: a line is
\* requested of an object that has a Pad (linereq inserts into it), and an
\* object is told that its window was closed only if that has happened to
\* the window it has now; the answer to ~Pad's own P_DELETE, and requests
\* from a window that is gone, find the identifier changed.
CallsAreMeant ==
  \A i \in DOMAIN t.out :
    LET m == t.out[i] IN
    Meant(m) => /\ pad[m.obj] # NoPad
                /\ m.op = "USERCLOSE" => ObjToPad(Drained, m.obj) = 0

\* P_CREATELINE and P_MAKEGAP find their window: CreateLine and MakeGap use
\* it without a test.
WindowIsThere ==
  lib.toTerm # <<>> /\ Head(lib.toTerm).op \in {"CREATELINE", "MAKEGAP"}
    => ObjToPad(t, Head(lib.toTerm).obj) # 0

W == INSTANCE Windows

Content(x, as) == [text |-> x, attributes |-> as]

\* The windows of D as a program sees them.
ShownLines(w) ==
  LET real == {l \in Range(w.lines) : l.text # TILDE}
      at(k) == CHOOSE l \in real : l.key = k
  IN [k \in {l.key : l \in real} |-> Content(at(k).text, at(k).attributes)]

Shown(D) == [o \in Obj |->
  LET i == ObjToPad(D, o) IN
  IF i = 0 THEN W!Closed
  ELSE [open |-> TRUE, max |-> D.wins[i].max, lines |-> ShownLines(D.wins[i])]]

\* Each call has the effect the manual gives it, on the one window it is
\* about, whatever was sent before and whatever the user does meanwhile;
\* the user's actions take lines from the one window they are about.
Promised(old, new) ==
  /\ \A o \in Obj, k \in Key :
       /\ \A kind \in Kinds[o], n \in 0 .. MaxKey :
            NewPad(o, kind, n) => new = W!Opened(old, o, n)
       /\ \A x \in Text, as \in LineAttributes :
            insert(o, k, x, as) => new = W!Inserted(old, o, {k}, Content(x, as))
       /\ removeline(o, k) => new = W!Vanished(old, o, {k})
       /\ clear(o) => new = W!Vanished(old, o, Key)
       /\ lines(o, k) => new = W!Resized(old, o, k)
       /\ \A hi \in Key : createline(o, k, hi) => new = W!Vanished(old, o, k .. hi)
       /\ makegap(o, k, 1) => new = W!Spread(old, o, k, 1)
       /\ HostClose(o) => new = W!Gone(old, o)
  /\ \A x \in Text, as \in LineAttributes :
       ServeLineReq(x, as) =>
         LET m == Head(t.out) IN new = W!Inserted(old, m.obj, Answered(m), Content(x, as))
  /\ (ServeUserClose \/ ServeStale \/ Receive) => new = old
  /\ \A i \in DOMAIN t.wins :
       LET o == t.wins[i].object
           fewer == \E K \in SUBSET DOMAIN old[o].lines : new = W!Vanished(old, o, K)
       IN /\ UserClose(i) => fewer \/ new = W!Gone(old, o)
          /\ \A lo, hi \in Key : lo <= hi /\ Paint(i, lo, hi) => fewer
          /\ \A j \in DOMAIN t.wins[i].lines :
               Cut(i, j) => \E K \in SUBSET Key :
                              Cardinality(K) <= 1 /\ new = W!Vanished(old, o, K)

\* Promised, of the windows before and after each step; the bounds are
\* there to have each of them computed once.
KeepsPromise ==
  [][\E t_ \in {t'}, toTerm_ \in {lib'.toTerm} :
       \E D \in {Drained}, E \in {DrainedOf(t_, toTerm_)} :
         \E old \in {Shown(D)}, new \in {Shown(E)} : Promised(old, new)]_vars

\* A line that was requested is shown, or its window is changed or gone:
\* no `~' stays on the screen.
LinesCome ==
  \A o \in Obj, k \in Key :
    LET waits == ObjToPad(t, o) # 0 /\ Asked(t.wins[ObjToPad(t, o)].lines, k)
    IN waits ~> ~waits
=============================================================================
