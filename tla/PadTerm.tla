------------------------------ MODULE PadTerm ------------------------------
(***************************************************************************)
(* The terminal's side of the Pads windows (pads/term/pad.c, paint.c), as  *)
(* operators on a record `t':                                              *)
(*                                                                         *)
(*   wins     the windows in the order of the Sentinel list; ObjToPad      *)
(*            looks from the last one                                      *)
(*   LINEobj  object of the last P_LINE                                    *)
(*   prev     key and attributes of the line received last (prevrcvd)      *)
(*   out      what was sent to the host and not read there yet             *)
(*                                                                         *)
(* A window has the object and oid it is bound to, its attributes, the     *)
(* number of lines given by P_LINES (0: none, sentinel.key) and the lines  *)
(* from top to bottom.  A line has key, text and attributes; its menu is   *)
(* handled as one of the attributes, its object as part of the text.       *)
(* Colours, rectangles, selection and folding are left out, and which      *)
(* window is in front: the order of wins is that of their definition.      *)
(***************************************************************************)
EXTENDS Naturals, Sequences, SequencesExt

CONSTANTS
  TILDE,    \* the text of a line that stands for one still to be requested
  Cushion   \* lines kept above and below those on the screen (1000 or 10)

NoObj == "none"

TermInit == [wins |-> <<>>, LINEobj |-> NoObj, out |-> <<>>,
             prev |-> [key |-> 0, attributes |-> {}]]

\* ObjToPad: the place of an object's window, 0 if it has none.
ObjToPad(t, o) == SelectLastInSeq(t.wins, LAMBDA w : w.object = o)

-----------------------------------------------------------------------------
(* The lines of a window. *)

\* A loop from lo to hi.
UpTo(lo, hi) == [i \in 1 .. 1 + hi - lo |-> lo + i - 1]

KeyAt(lines, k) == SelectLastInSeq(lines, LAMBDA l : l.key = k)

InsPos_FirstNotLess(lines, k) == 1 + SelectLastInSeq(lines, LAMBDA l : l.key > k)

\* InsPos: lines are in the order of their keys.
InsPos(lines, k) == 1 + SelectLastInSeq(lines, LAMBDA l : l.key <= k)

InsAbove(lines, l) == InsertAt(lines, InsPos(lines, l.key), l)

\* PutLine, once the line is unpacked: a line of that key is replaced.
PutLine(w, l) ==
  IF w.max # 0 /\ l.key > w.max THEN w
  ELSE LET i == KeyAt(w.lines, l.key) IN
       [w EXCEPT !.lines = IF i # 0 THEN ReplaceAt(@, i, l) ELSE InsAbove(@, l)]

Dummy(k, as) == [key |-> k, text |-> TILDE, attributes |-> as]

\* CreateLine: lines that are requested when they come to be painted.
FakeLine(lines, k) ==
  LET i == InsPos(lines, k) - 1 IN
  IF i # 0 /\ lines[i].key = k
  THEN ReplaceAt(lines, i, Dummy(k, {"FAKELINE"}))
  ELSE InsAbove(lines, Dummy(k, {"FAKELINE"}))

CreateLine(w, lo, hi) ==
  IF w.max # 0 \/ lo > hi THEN w
  ELSE [w EXCEPT !.lines = FoldLeft(FakeLine, @, UpTo(lo, hi)),
                 !.attributes = @ \cup {"FAKELINE"}]

P_RemoveLine(w, k) ==
  LET i == KeyAt(w.lines, k) IN
  IF i = 0 THEN w ELSE [w EXCEPT !.lines = RemoveAt(@, i)]

\* MakeGap: the lines from key k on move by the gap.
Moved(l, k, gap) == IF l.key >= k THEN [l EXCEPT !.key = @ + gap] ELSE l

MakeGap(w, k, gap) ==
  [w EXCEPT !.lines = [i \in DOMAIN @ |-> Moved(@[i], k, gap)]]

DelLines(w) == [w EXCEPT !.lines = <<>>]

P_Lines_Keep(w, n) == [w EXCEPT !.max = n]

P_Lines(w, n) == [IF n < w.max THEN DelLines(w) ELSE w EXCEPT !.max = n]

-----------------------------------------------------------------------------
(* Requests for lines. *)

LineReq(w, r) == [op |-> "LINEREQ", obj |-> w.object, oid |-> w.oid, lo |-> r[1], hi |-> r[2]]

\* RequestLines of a window that shows the lines lo to hi: in a window of
\* P_LINES it looks for each key, in another one at each line.
Looked(w, lo, hi) ==
  IF w.max # 0 THEN UpTo(lo, hi) ELSE [i \in 1 .. 1 + hi - lo |-> w.lines[lo + i - 1].key]

\* The keys to request: those that have no line, or those of CreateLine.
Missing(w, lo, hi) ==
  IF w.max # 0 THEN {k \in lo .. hi : KeyAt(w.lines, k) = 0}
  ELSE {w.lines[i].key : i \in {j \in lo .. hi :
          "FAKELINE" \in w.attributes /\ "FAKELINE" \in w.lines[j].attributes}}

\* A key goes with the one before it, or begins another request.
Run(rs, k) ==
  IF rs # <<>> /\ rs[Len(rs)][2] + 1 = k THEN [rs EXCEPT ![Len(rs)] = <<@[1], k>>]
  ELSE Append(rs, <<k, k>>)

\* The requests, each from a key to a key.
Runs(K, ks) == FoldLeft(LAMBDA rs, k : IF k \in K THEN Run(rs, k) ELSE rs, <<>>, ks)

\* Lines within a cushion of those from lo to hi; the others are dropped.
Nearby(lines, lo, hi) ==
  FoldLeft(LAMBDA ls, l : IF l.key + Cushion >= lo /\ l.key <= hi + Cushion THEN Append(ls, l) ELSE ls,
           <<>>, lines)

\* Lines that stand for the requested ones are put among them.
Waiting(lines, K, ks) ==
  FoldLeft(LAMBDA ls, k : IF k \in K THEN InsAbove(ls, Dummy(k, {})) ELSE ls, lines, ks)

\* A line of CreateLine that is requested is like one of those.
Asking(l, K) == IF l.key \in K THEN [l EXCEPT !.attributes = @ \ {"FAKELINE"}] ELSE l

RequestLines(w, lo, hi) ==
  LET K == Missing(w, lo, hi)
  IN IF w.max = 0 THEN [w EXCEPT !.lines = [i \in DOMAIN @ |-> Asking(@[i], K)]]
     ELSE [w EXCEPT !.lines = Waiting(Nearby(@, lo, hi), K, Looked(w, lo, hi))]

\* Paint of the window in place i.
Painted(t, i, lo, hi) ==
  LET w == t.wins[i]
      reqs == Runs(Missing(w, lo, hi), Looked(w, lo, hi))
  IN [t EXCEPT !.wins[i] = RequestLines(w, lo, hi),
               !.out = @ \o [j \in DOMAIN reqs |-> LineReq(w, reqs[j])]]

-----------------------------------------------------------------------------
(* Windows. *)

P_Define(t, o, n) ==
  LET i == ObjToPad(t, o) IN
  IF i # 0 /\ t.wins[i].oid = n THEN t
  ELSE [t EXCEPT !.wins = Append(@, [object |-> o, oid |-> n, attributes |-> {},
                                     max |-> 0, lines |-> <<>>])]

DeletePad_Always(t, i) ==
  LET w == t.wins[i] IN
  IF "USERCLOSE" \notin w.attributes THEN [t EXCEPT !.wins = RemoveAt(@, i)]
  ELSE [t EXCEPT !.wins = RemoveAt(@, i),
                 !.out = Append(@, [op |-> "USERCLOSE", obj |-> w.object, oid |-> w.oid])]

\* DelLine of each line of a window, those that may not be cut excepted.
DelLineOf(ls, l) == IF "DONT_CUT" \in l.attributes THEN Append(ls, l) ELSE ls

\* DeletePad: the host is told if it wants to be; a window that must stay
\* stays, and one the host is not told of only loses its lines.
DeletePad(t, i) ==
  LET w == t.wins[i]
      told == IF "USERCLOSE" \notin w.attributes THEN t
              ELSE [t EXCEPT !.out = Append(@, [op |-> "USERCLOSE", obj |-> w.object, oid |-> w.oid])]
  IN IF "DONT_CLOSE" \in w.attributes THEN told
     ELSE IF "USERCLOSE" \in w.attributes THEN [told EXCEPT !.wins = RemoveAt(@, i)]
     ELSE [t EXCEPT !.wins[i].lines = FoldLeft(DelLineOf, <<>>, @)]

P_Delete_AsUser(t, i) == DeletePad(t, i)

\* P_DELETE: the window is deleted as if its owner were told.
P_Delete(t, i) == DeletePad([t EXCEPT !.wins[i].attributes = @ \cup {"USERCLOSE"}], i)

\* PutLine unpacks every line, whether its window is there or not.
Unpacked(t, m) ==
  IF m.op = "LINE"
  THEN [t EXCEPT !.LINEobj = m.obj, !.prev = [key |-> m.key, attributes |-> m.attributes]]
  ELSE [t EXCEPT !.prev.key = @ + 1]

\* PadOp: one message of the host.
PadOp(t, m) ==
  LET u == IF m.op \in {"LINE", "NEXTLINE"} THEN Unpacked(t, m) ELSE t
      i == ObjToPad(u, IF m.op = "NEXTLINE" THEN u.LINEobj ELSE m.obj)
      become(w) == [u EXCEPT !.wins[i] = w]
      w == u.wins[i]
      line == [key |-> u.prev.key, text |-> m.text, attributes |-> u.prev.attributes]
  IN CASE m.op = "PADDEF" -> P_Define(u, m.obj, m.oid)
       [] m.op # "PADDEF" /\ i = 0 -> u
       [] m.op = "ATTRIBUTE" /\ i # 0 -> become([w EXCEPT !.attributes = m.attributes])
       [] m.op \in {"LINE", "NEXTLINE"} /\ i # 0 -> become(PutLine(w, line))
       [] m.op = "REMOVELINE" /\ i # 0 -> become(P_RemoveLine(w, m.key))
       [] m.op = "CLEAR" /\ i # 0 -> become(DelLines(w))
       [] m.op = "LINES" /\ i # 0 -> become(P_Lines(w, m.n))
       [] m.op = "CREATELINE" /\ i # 0 -> become(CreateLine(w, m.lo, m.hi))
       [] m.op = "MAKEGAP" /\ i # 0 -> become(MakeGap(w, m.key, m.gap))
       [] m.op = "DELETE" /\ i # 0 -> P_Delete(u, i)
=============================================================================
