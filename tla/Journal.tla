------------------------------ MODULE Journal ------------------------------
(***************************************************************************)
(* The journal window (class Journal, pi.linux/journal.c): a ring of the   *)
(* latest events, shown through lines that the terminal (PadTerm) asks for *)
(* when it comes to paint them.  An event that is equal to the one before  *)
(* is counted, not repeated.                                               *)
(*                                                                         *)
(* Whether a line is sent as P_LINE or P_NEXTLINE, and what happens when   *)
(* the window is deleted, is the matter of PadLines.                       *)
(*                                                                         *)
(* TermServe calls the virtual function linereq(long, Attrib) of pads.h.   *)
(* The journal of pi.solaris overrides it.  That of pi.linux declares      *)
(* linereq(int, Attrib), which does so only where the library's own        *)
(* declaration takes an int; with the pads.h of this repository the call   *)
(* ends in PadRcv::linereq, which complains and sends nothing.             *)
(***************************************************************************)
EXTENDS PadTerm

CONSTANTS
  Overrides, \* whether Journal::linereq overrides the virtual function
  Text,      \* what an event may say
  length,    \* lines the journal keeps (200)
  MaxLines,  \* bound: lines the journal ever has
  MaxCount,  \* bound: how often one of them occurs
  Screen,    \* bound: lines on the screen
  MaxSend,   \* bound: messages to the terminal at which no event happens
  MaxOut     \* bound: requests at which the user waits

ASSUME JournalAssumption ==
  /\ Overrides \in BOOLEAN
  /\ Text # {} /\ TILDE \notin Text \cup [text : Text, count : 1 .. MaxCount]
  /\ \A n \in {length, MaxLines, MaxCount, Screen, MaxSend, MaxOut} : n \in Nat \ {0}
  /\ Cushion \in Nat

VARIABLES
  key,      \* the line of the latest event
  lastreq,  \* the line inserted last
  bls, ct,  \* the ring: texts, and how often each occurred
  toTerm,   \* messages to the terminal
  t,        \* the terminal, see PadTerm
  log       \* history: every line the journal ever had, [text, count]

vars == <<key, lastreq, bls, ct, toTerm, t, log>>

Slot == 0 .. length - 1
Key == 1 .. MaxLines
Object == "journal"

\* Journal::open: new Pad and its options.
Init ==
  /\ key = 0 /\ lastreq = 0
  /\ bls = [i \in Slot |-> TILDE] /\ ct = [i \in Slot |-> 0]
  /\ toTerm = << [op |-> "PADDEF", obj |-> Object, oid |-> 1],
                 [op |-> "ATTRIBUTE", obj |-> Object, attributes |-> {"NO_TILDE"}] >>
  /\ t = TermInit
  /\ log = <<>>

-----------------------------------------------------------------------------
(* The debugger. *)

\* pad->insert of line i, once the ring holds `ring' and `count'.  The count
\* is printed when it is above one: 0 and 1 look the same.
LineOf(ring, count, i) ==
  [op |-> "LINE", obj |-> Object, key |-> i, attributes |-> {},
   text |-> [text |-> ring[i % length],
             count |-> IF count[i % length] > 1 THEN count[i % length] ELSE 1]]

\* The text x does not start a new line.
Repeats(x) == key # 0 /\ bls[key % length] = x

\* The line that falls out of the ring when line k comes.
Outdated_None(k) == <<>>

Outdated(k) ==
  IF k > length THEN <<[op |-> "REMOVELINE", obj |-> Object, key |-> k - length]>>
  ELSE <<>>

\* Journal::insert.  The line is sent at once if it is the one inserted last,
\* before it is counted; otherwise it is left to be asked for.
insert(x) ==
  LET k == IF Repeats(x) THEN key ELSE key + 1
      i == k % length
      ring == [bls EXCEPT ![i] = x]
      count == [ct EXCEPT ![i] = IF Repeats(x) THEN @ ELSE 0]
      shown == IF lastreq = k THEN LineOf(ring, count, k)
               ELSE [op |-> "CREATELINE", obj |-> Object, lo |-> k, hi |-> k]
  IN /\ Len(toTerm) < MaxSend /\ k <= MaxLines /\ count[i] < MaxCount
     /\ key' = k
     /\ bls' = ring
     /\ ct' = [count EXCEPT ![i] = @ + 1]
     /\ toTerm' = toTerm \o <<shown>> \o Outdated(k)
     /\ log' = [j \in 1 .. k |->
                  IF j < k THEN log[j] ELSE [text |-> x, count |-> count[i] + 1]]
     /\ UNCHANGED <<lastreq, t>>

\* Journal::linereq: the line has left the ring.
TooLate_OffByOne(i) == i < key - length

TooLate_TooSoon(i) == i <= 1 + key - length

TooLate(i) == i <= key - length

\* Journal::linereq, when `serve' is what was sent and which line inserted.
linereq(serve, i) ==
  IF TooLate(i) THEN serve
  ELSE [sent |-> Append(serve.sent, LineOf(bls, ct, i)), lastreq |-> i]

\* The lines of request m that the journal's linereq is called for.
Dispatched(m) == IF Overrides THEN UpTo(m.lo, m.hi) ELSE <<>>

\* TermServe with the linereq of each line.
ServeLineReq ==
  LET served == FoldLeft(linereq, [sent |-> toTerm, lastreq |-> lastreq],
                         Dispatched(Head(t.out)))
  IN /\ t.out # <<>> /\ Len(toTerm) < MaxSend
     /\ toTerm' = served.sent
     /\ lastreq' = served.lastreq
     /\ t' = [t EXCEPT !.out = Tail(@)]
     /\ UNCHANGED <<key, bls, ct, log>>

-----------------------------------------------------------------------------
(* The terminal. *)

Receive ==
  /\ toTerm # <<>>
  /\ t' = PadOp(t, Head(toTerm))
  /\ toTerm' = Tail(toTerm)
  /\ UNCHANGED <<key, lastreq, bls, ct, log>>

TermStep(new) == t' = new /\ UNCHANGED <<key, lastreq, bls, ct, toTerm, log>>

Paint(lo, hi) ==
  /\ t.wins # <<>> /\ Len(t.out) < MaxOut
  /\ hi - lo < Screen /\ hi <= Len(t.wins[1].lines)
  /\ TermStep(Painted(t, 1, lo, hi))

\* "close": a window whose owner is not told stays, without its lines.
UserClose == t.wins # <<>> /\ TermStep(DeletePad(t, 1))

Cut(j) == t.wins # <<>> /\ j \in DOMAIN t.wins[1].lines
          /\ TermStep([t EXCEPT !.wins[1].lines = RemoveAt(@, j)])

Next ==
  \/ \E x \in Text : insert(x)
  \/ ServeLineReq
  \/ Receive
  \/ \E lo, hi \in Key : lo <= hi /\ Paint(lo, hi)
  \/ UserClose
  \/ \E j \in Key : Cut(j)

\* As in PadLines: events put the debugger's reading off, but do not
\* prevent it.
Spec == Init /\ [][Next]_vars /\ SF_vars(ServeLineReq) /\ WF_vars(Receive)

-----------------------------------------------------------------------------
(* Properties. *)

\* The window when the terminal has read all that was sent.
Lines ==
  LET D == FoldLeft(PadOp, t, toTerm)
  IN IF D.wins = <<>> THEN <<>> ELSE D.wins[1].lines

IsReal(l) == l.text # TILDE
IsAsked(l) == ~IsReal(l) /\ "FAKELINE" \notin l.attributes

\* The variables hold values of their types, and the window has the latest
\* `length' lines of the journal at most, in order and none twice: requests
\* that arrive late, lines that were replaced or counted and lines that left
\* the ring do not bring one back (Journal::insert, linereq; help.pi: limited
\* to 200 lines).
WindowIsRecent ==
  LET Texts == [text : Text, count : 1 .. MaxCount]
      ls == Lines
  IN
  /\ key \in 0 .. MaxLines /\ lastreq \in 0 .. key
  /\ bls \in [Slot -> Text \cup {TILDE}]
  /\ ct \in [Slot -> 0 .. MaxCount]
  /\ log \in Seq(Texts) /\ Len(log) = key
  /\ \A i \in DOMAIN toTerm :
       toTerm[i].op \in {"PADDEF", "ATTRIBUTE", "LINE", "CREATELINE", "REMOVELINE"}
  /\ \A j \in DOMAIN ls : ls[j].text \in Texts \cup {TILDE}
  /\ \A j \in DOMAIN ls : ls[j].key \in 1 + key - length .. key
  /\ \A i, j \in DOMAIN ls : i < j => ls[i].key < ls[j].key

\* A line shows the text that was entered as that line, though its place in
\* the ring has been used again in between; the count is at most one behind,
\* and never ahead (insert sends the line before it counts the event).
LinesAreTrue ==
  \A l \in ToSet(Lines) :
    IsReal(l) => /\ l.text.text = log[l.key].text
                 /\ l.text.count \in {log[l.key].count - 1, log[l.key].count}

\* Where requests reach the journal, a line that the terminal takes for
\* requested will be answered: its request is on the way, and it will not be
\* found too late.  Where they do not, it is requested and never comes.
RequestsAreAnswered ==
  Overrides =>
    \A l \in ToSet(Lines) :
      IsAsked(l) => \E i \in DOMAIN t.out : l.key \in t.out[i].lo .. t.out[i].hi

\* Where requests reach the journal, no line stays requested for ever: it
\* comes, or is removed with the ring.
LinesCome ==
  Overrides => \A k \in Key :
    LET waits == t.wins # <<>>
                 /\ \E j \in DOMAIN t.wins[1].lines :
                      t.wins[1].lines[j].key = k /\ IsAsked(t.wins[1].lines[j])
    IN waits ~> ~waits
=============================================================================
