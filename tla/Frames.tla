------------------------------- MODULE Frames -------------------------------
(***************************************************************************)
(* The call stack of the Process window and the Frame windows (class       *)
(* Process, pi.linux/process.c; CallStk and Frame, frame.c).  A Frame is   *)
(* made when something asks for an activation, and has a window once it    *)
(* was opened.  When the subject stops, the call stack is read anew and    *)
(* merge gives the Frames of the old one to activations of the new one.    *)
(*                                                                         *)
(* The subject's functions are all known, and it stops where its newest    *)
(* activation has made its frame (Calls is about the other places).        *)
(***************************************************************************)
EXTENDS Integers, SequencesExt, FiniteSetsExt

CONSTANTS
  Func,       \* the subject's functions
  Main,       \* the one that called the others
  MaxDepth,   \* bound: activations of the subject
  StackLimit, \* activations that a call stack has at most (1000)
  NoFrame     \* the null pointer

ASSUME FramesAssumption ==
  /\ Main \in Func
  /\ MaxDepth \in Nat \ {0} /\ StackLimit \in Nat \ {0}
  /\ NoFrame \notin Nat

VARIABLES
  status,  \* "ACTIVE", "STOPPED", "ERRORED" or "CLOSED"
  stack,   \* the subject's activations, the oldest first, while it is there
  p,       \* the Process: its callstk, the newest first, its frames, and as a
           \* history whether merge ever lost one that has a window
  padlines \* lines of the window that show activations

vars == <<status, stack, p, padlines>>

(* History: every activation has an id, one of two for its place on the      *)
(* stack, for the debugger may still have the activation that was there      *)
(* before.                                                                   *)
Id == (1 .. MaxDepth) \X {0, 1}
FrameId == 1 .. 2 * StackLimit + 1

FpFrame == [func : Func, fp : 1 .. MaxDepth, frame : FrameId \cup {NoFrame}, act : Id]

\* The frame pointer of an activation stands for its place on the stack.
Frame == [func : Func, level : 0 .. StackLimit - 1, fp : 1 .. MaxDepth,
          pad : BOOLEAN, title : 0 .. MaxDepth]

ASSUME NullAssumption == NoFrame \notin Frame

NoFrames == [f \in FrameId |-> NoFrame]

Init ==
  /\ status = "STOPPED"
  /\ stack = << [func |-> Main, act |-> <<1, 0>>] >>
  /\ p = [callstk |-> << [func |-> Main, fp |-> 1, frame |-> NoFrame, act |-> <<1, 0>>] >>,
          frames |-> NoFrames, lost |-> FALSE]
  /\ padlines = 1

-----------------------------------------------------------------------------
(* Operations on the Process. *)

\* I686Core::callstack: the chain of frame pointers, the newest first.
callstack ==
  [i \in 1 .. Min({Len(stack), StackLimit}) |->
     LET d == Len(stack) + 1 - i
     IN [func |-> stack[d].func, fp |-> d, frame |-> NoFrame, act |-> stack[d].act]]

\* Process::frame: the Frame of level l, made when it is asked for first.
frame(q, l) ==
  LET e == q.callstk[l + 1]
      new == Min({f \in FrameId : q.frames[f] = NoFrame})
  IN IF e.frame # NoFrame THEN q
     ELSE [q EXCEPT !.callstk[l + 1].frame = new,
                    !.frames[new] = [func |-> e.func, level |-> l, fp |-> e.fp,
                                     pad |-> FALSE, title |-> 0]]

\* Frame::regloc: a Frame of level k asks the newer ones, down to level l, for
\* a saved register.
asks(q, k, l) == FoldLeft(frame, q, [i \in 1 .. k - l |-> k - i])

\* Process::closeframes.
closeframes(q) == [q EXCEPT !.callstk = <<>>, !.frames = NoFrames]

\* merge finds entry i of the new call stack for the Frame of e.
Rebound_KeepsLevel(f, e, i) ==
  [f EXCEPT !.fp = e.fp, !.title = IF f.pad THEN e.fp ELSE @]

Rebound(f, e, i) ==
  [f EXCEPT !.level = i - 1, !.fp = e.fp, !.title = IF f.pad THEN e.fp ELSE @]

\* Entries of the new call stack that the Frame of e may be given to: those of
\* its function, newer than any that was given before.
Candidates_Nearest(m, e) ==
  LET all == {i \in 1 .. m.c : m.q.callstk[i].func = e.func}
  IN IF all = {} THEN {} ELSE {Min(all)}

Candidates(m, e) == {i \in 1 .. m.c : m.q.callstk[i].func = e.func}

\* What the spies of q's windows may ask while merge runs: those of a window
\* whose level was k ask for registers down to level asked[k], or for none.
WindowLevels(q) ==
  {q.frames[f].level : f \in {g \in FrameId : q.frames[g] # NoFrame /\ q.frames[g].pad}}

Asked(q) ==
  {a \in [WindowLevels(q) -> 0 .. StackLimit - 1] : \A k \in WindowLevels(q) : a[k] <= k}

\* banner and changes of a window show its values anew.  Its Frame has the old
\* level still, and the call stack is the new one: of, if it has that level.
spies(asked, q, f) ==
  LET k == q.frames[f].level
  IN IF q.frames[f].pad /\ k <= Len(q.callstk) THEN asks(q, k, asked[k]) ELSE q

\* Entry i of the new call stack gets Frame f.  One that the spies have had
\* made for that entry is forgotten: nothing points to it, and it is not deleted.
give(q, f, i) ==
  LET e == q.callstk[i]
  IN [callstk |-> [q.callstk EXCEPT ![i].frame = f],
      frames |-> [g \in FrameId |-> CASE g = f -> Rebound(q.frames[f], e, i)
                                    [] g # f /\ g = e.frame -> NoFrame
                                    [] OTHER -> q.frames[g]],
      lost |-> q.lost \/ (e.frame # NoFrame /\ q.frames[e.frame].pad)]

\* One turn of the loop of Process::merge, for entry e of the old call stack.
MergeOne(m, e) ==
  LET i == Max(Candidates(m, e))
  IN CASE e.frame = NoFrame -> m
       [] e.frame # NoFrame /\ Candidates(m, e) = {} ->
            [m EXCEPT !.q.frames[e.frame] = NoFrame]
       [] OTHER -> [c |-> i - 1, q |-> give(spies(m.asked, m.q, e.frame), e.frame, i),
                    asked |-> m.asked]

\* Process::merge with the new call stack cs; <<>> if it cannot be read.
merge(asked, q, cs) ==
  IF cs = <<>> THEN closeframes(q)
  ELSE FoldLeft(MergeOne, [c |-> Len(cs), q |-> [q EXCEPT !.callstk = cs], asked |-> asked],
                Reverse(q.callstk)).q

\* Frame::banner.
titled(q, f) == [q EXCEPT !.frames[f].pad = TRUE, !.frames[f].title = q.frames[f].fp]

\* Frame::open: the window, made if there is none, with the caller's Frame for
\* its menu, and the title.
open(q, f) ==
  LET l == q.frames[f].level + 1
  IN titled(IF ~q.frames[f].pad /\ l < Len(q.callstk) THEN frame(q, l) ELSE q, f)

openlevel(q, l) ==
  LET r == frame(q, l) IN open(r, r.callstk[l + 1].frame)

\* The call stack as it is read when the subject is there or not.
Readable(ok) == IF ok THEN callstack ELSE <<>>

\* The end of habeascorpus at a stop: mergeback, and the top frame's statement
\* is shown unless an instruction was stepped.
stopped(asked, q, cs, shown) ==
  LET r == merge(asked, q, cs) IN IF shown /\ r.callstk # <<>> THEN frame(r, 0) ELSE r

Showing(q) == Len(q.callstk)

-----------------------------------------------------------------------------
(* The subject. *)

Call(f) ==
  LET d == Len(stack) + 1
      known == \E i \in DOMAIN p.callstk : p.callstk[i].act = <<d, 0>>
  IN /\ status = "ACTIVE" /\ d <= MaxDepth
     /\ stack' = Append(stack, [func |-> f, act |-> <<d, IF known THEN 1 ELSE 0>>])
     /\ UNCHANGED <<status, p, padlines>>

Return ==
  /\ status = "ACTIVE" /\ Len(stack) > 1
  /\ stack' = Front(stack)
  /\ UNCHANGED <<status, p, padlines>>

-----------------------------------------------------------------------------
(* The debugger. *)

\* run, or a step that has not ended: habeascorpus finds it ACTIVE.
Run ==
  /\ status = "STOPPED"
  /\ status' = "ACTIVE" /\ padlines' = 0
  /\ UNCHANGED <<stack, p>>

\* The debugger finds that the subject has stopped.
Stop(ok, shown) ==
  /\ status = "ACTIVE"
  /\ status' = "STOPPED"
  /\ \E asked \in Asked(p) : p' = stopped(asked, p, Readable(ok), shown)
  /\ padlines' = Showing(p')
  /\ UNCHANGED stack

\* It finds that the subject is gone, and leaves the windows alone.
Die ==
  /\ status \in {"ACTIVE", "STOPPED"}
  /\ status' = "ERRORED" /\ stack' = <<>>
  /\ UNCHANGED <<p, padlines>>

\* Process::linereq for the line of level l.
linereq(l) ==
  /\ status # "CLOSED" /\ l < padlines
  /\ p' = frame(p, l)
  /\ UNCHANGED <<status, stack, padlines>>

\* A value in a window is in a register, which an older level may have saved.
regloc(f, l) ==
  /\ status # "CLOSED" /\ p.frames[f] # NoFrame /\ l < p.frames[f].level
  /\ p' = asks(p, p.frames[f].level, l)
  /\ UNCHANGED <<status, stack, padlines>>

\* "open frame" in the menu of a line, and of a Frame that is open.
OpenFrame(f) ==
  /\ status # "CLOSED" /\ p.frames[f] # NoFrame
  /\ p' = open(p, f)
  /\ UNCHANGED <<status, stack, padlines>>

opencallersframe(f) ==
  /\ status # "CLOSED" /\ p.frames[f] # NoFrame /\ p.frames[f].pad
  /\ p.frames[f].level + 1 < Len(p.callstk)
  /\ p' = openlevel(p, p.frames[f].level + 1)
  /\ UNCHANGED <<status, stack, padlines>>

\* Process::openframe, from a line of the source: the function's newest
\* activation.
openframe(func) ==
  LET levels == {l \in 0 .. Len(p.callstk) - 1 : p.callstk[l + 1].func = func}
  IN /\ status # "CLOSED" /\ levels # {}
     /\ p' = openlevel(p, Min(levels))
     /\ UNCHANGED <<status, stack, padlines>>

\* The same for a function that is not there: mergeback stops a subject that
\* runs, whose stop merges too, or fails to, and merges.
openframe_mergeback(func, ok, shown) ==
  /\ status # "CLOSED" /\ p.callstk # <<>>
  /\ \A i \in DOMAIN p.callstk : p.callstk[i].func # func
  /\ stack = <<>> => ~ok
  /\ status' = IF status = "ACTIVE" THEN "STOPPED" ELSE status
  /\ \E q \in IF status = "ACTIVE"
              THEN {stopped(asked, p, Readable(ok), shown) : asked \in Asked(p)} ELSE {p} :
       \E asked \in Asked(q) : p' = merge(asked, q, Readable(ok))
  /\ padlines' = Showing(p')
  /\ UNCHANGED stack

\* Process::userclose.
userclose ==
  /\ status # "CLOSED"
  /\ status' = "CLOSED" /\ p' = closeframes(p) /\ padlines' = 0
  /\ UNCHANGED stack

Next ==
  \/ \E f \in Func \ {Main} : Call(f)
  \/ Return
  \/ Run
  \/ \E ok, shown \in BOOLEAN : Stop(ok, shown)
  \/ Die
  \/ \E l \in 0 .. StackLimit - 1 : linereq(l)
  \/ \E f \in FrameId, l \in 0 .. StackLimit - 1 : regloc(f, l)
  \/ \E f \in FrameId : OpenFrame(f) \/ opencallersframe(f)
  \/ \E func \in Func : openframe(func)
  \/ \E func \in Func, ok, shown \in BOOLEAN : openframe_mergeback(func, ok, shown)
  \/ userclose

Spec == Init /\ [][Next]_vars

-----------------------------------------------------------------------------
(* Properties. *)

Alive(f) == p.frames[f] # NoFrame

\* The activation that the Frame f stands for.
ActOf(q, f) == q.callstk[q.frames[f].level + 1].act

OnStack(q) == {q.callstk[i].act : i \in DOMAIN q.callstk}

\* The variables hold values of their types, and no line is asked for that has
\* no activation (linereq does not look).  Spies that ask for registers in the
\* middle of merge never make it lose a Frame with a window.  While the subject
\* is stopped, each Frame that merge did not lose is that of the entry at its
\* level alone, which is an activation of its function that the subject has
\* there; a window's title tells that activation (Process::merge, frame;
\* help.pi: the title bar is updated whenever the process stops).
FramesAgree ==
  /\ p.callstk \in Seq(FpFrame)
  /\ p.frames \in [FrameId -> Frame \cup {NoFrame}]
  /\ padlines \in 0 .. Len(p.callstk)
  /\ p.lost = FALSE
  /\ \A i \in DOMAIN p.callstk :
       p.callstk[i].frame # NoFrame => Alive(p.callstk[i].frame)
  /\ \A f \in FrameId : Alive(f) =>
       LET fr == p.frames[f]
           e == p.callstk[fr.level + 1]
       IN /\ {i \in DOMAIN p.callstk : p.callstk[i].frame = f} = {fr.level + 1}
          /\ fr.func = e.func /\ fr.fp = e.fp
          /\ fr.pad => fr.title = fr.fp
          /\ status = "STOPPED" =>
               stack[Len(stack) - fr.level] = [func |-> e.func, act |-> e.act]

\* The activations of the function of activation a on q's call stack that are
\* older than a.
OlderSame(q, a) ==
  LET at == CHOOSE i \in DOMAIN q.callstk : q.callstk[i].act = a
  IN {q.callstk[i].act : i \in {j \in DOMAIN q.callstk :
                                  j > at /\ q.callstk[j].func = q.callstk[at].func}}

HaveFrames(q) ==
  {q.callstk[i].act : i \in {j \in DOMAIN q.callstk : q.callstk[j].frame # NoFrame}}

\* A Frame, and its window, stays with its activation for as long as that is on
\* the call stack, if the older activations of its function all have Frames, and
\* StackLimit does not cut the oldest ones off or bring them back.  (merge knows
\* functions, not activations: help.pi says without that condition that every
\* activation has a window of its own.)
WindowStays ==
  [][ \A f \in FrameId :
        LET a == ActOf(p, f)
        IN /\ Alive(f) /\ a \in OnStack(p')
           /\ Last(p.callstk).act = Last(p'.callstk).act
           /\ OlderSame(p, a) \subseteq HaveFrames(p)
           => Alive(f)' /\ ActOf(p', f) = a /\ (p.frames[f].pad => p'.frames[f].pad) ]_vars
=============================================================================
