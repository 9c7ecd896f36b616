---------------------------- MODULE BptsSession ----------------------------
(***************************************************************************)
(* A debugging session as the breakpoint list sees it: the subject is run  *)
(* and stopped by the process window, may die, be noticed dead, exec a new *)
(* image, be taken over by another process, or be let go.                  *)
(*                                                                         *)
(* Code[i] is the text of image i and Mapped[i] the addresses that exist   *)
(* in it: ptrace fails at any other, and everywhere once the subject died. *)
(* First is the program whose symbol tables the window has; a subject that *)
(* called exec runs another image, which may have the same text.           *)
(***************************************************************************)
EXTENDS Bpts

CONSTANTS
  Image,       \* program images
  First,       \* the image the session starts with
  Code,        \* Code[i][a]: the program's own byte at a
  Mapped       \* Mapped[i]: addresses that exist in image i

ASSUME ImageAssumption ==
  /\ First \in Image
  /\ Code \in [Image -> [Addr -> Byte]]
  /\ Mapped \in [Image -> SUBSET Addr]

\* No program contains a breakpoint instruction of its own.
ASSUME OwnCodeAssumption ==
  \A i \in Image, a \in Addr : Code[i][a] # TRAPINST

VARIABLES
  image,       \* the image the subject runs
  proc         \* the subject and what the debugger knows of it, see Procs

vars == <<trap, saved, layed, text, image, proc>>

\* "running"  alive, Hostfunc's state is ACTIVE
\* "stopped"  alive, Hostfunc's state is HALTED, BREAKED or PENDING
\* "lost"     died while the state is ACTIVE: the next poll tells
\* "killed"   died while stopped: nothing polls a stopped process
\* "errored"  dead and known to be (ERRORED)
\* "closed"   let go alive: the window was closed and ptrace detached
\* "gone"     the window of a dead subject was closed
Procs == {"running", "stopped", "lost", "killed", "errored", "closed", "gone"}

Alive == proc \in {"running", "stopped", "closed"}
Open  == proc \notin {"closed", "gone"}

\* The subject is alive and runs the program its window was opened with.
Own == Alive /\ image = First

\* Where ptrace succeeds.
Reach == IF proc \in {"running", "stopped"} THEN Mapped[image] ELSE {}

\* liftbpt polls, so that a process that died running is found out.
Errored == proc \in {"lost", "errored"}

TypeOK ==
  /\ BptsTypeOK
  /\ image \in Image
  /\ proc \in Procs

Init ==
  /\ trap = {}
  /\ saved \in { [s \in Stmt |-> b] : b \in Byte }
  /\ layed = FALSE
  /\ text = Code[First]
  /\ image = First
  /\ proc = "stopped"

\* A ptrace operation on a process that died running ends in a wait that
\* reaps it.
Noticed == IF proc = "lost" THEN "errored" ELSE proc

-----------------------------------------------------------------------------
\* Stmt::dobpt(1)
SetBpt(s) ==
  /\ Open
  /\ set(s, Reach)
  /\ proc' = IF layed /\ istrap(s) = {} THEN Noticed ELSE proc
  /\ UNCHANGED image

\* Stmt::dobpt(0)
ClrBpt(s) ==
  /\ Open
  /\ clr(s, Reach, Errored)
  /\ proc' = IF layed /\ istrap(s) # {} THEN Noticed ELSE proc
  /\ UNCHANGED image

ClearAll ==
  /\ Open
  /\ clearall(Reach, Errored)
  /\ proc' = IF layed /\ trap # {} THEN Noticed ELSE proc
  /\ UNCHANGED image

\* Process::go of a stopped subject.  A killed one that was at a breakpoint
\* is found dead by the step; otherwise lay fails everywhere, run believes it
\* started the subject again, and docycle finds it dead.
Resume ==
  \/ /\ proc \in {"stopped", "killed"}
     /\ lay(Reach)
     /\ proc' = IF proc = "stopped" THEN "running" ELSE "errored"
     /\ UNCHANGED image
  \/ /\ proc = "killed"
     /\ proc' = "errored"
     /\ UNCHANGED <<bptsVars, text, image>>

\* A poll finds the subject stopped, by a breakpoint, a signal or SIGSTOP.
Halt ==
  /\ proc = "running"
  /\ proc' = "stopped"
  /\ UNCHANGED <<bptsVars, text, image>>

\* Process::docycle on a stopped subject.
LiftStopped ==
  /\ proc \in {"stopped", "killed"}
  /\ lift(Reach, FALSE)
  /\ UNCHANGED <<image, proc>>

\* A poll finds the subject dead; docycle leaves the traps as they are.
Notice ==
  /\ proc = "lost"
  /\ proc' = "errored"
  /\ UNCHANGED <<bptsVars, text, image>>

\* The subject exits or is killed.
Die ==
  /\ proc \in {"running", "stopped"}
  /\ proc' = IF proc = "running" THEN "lost" ELSE "killed"
  /\ UNCHANGED <<bptsVars, text, image>>

\* The subject calls exec: its memory is that of another image.
Exec ==
  /\ proc = "running"
  /\ image' \in Image \ {First}
  /\ text' = Code[image']
  /\ UNCHANGED <<bptsVars, proc>>

\* What Bpts::lift leaves of the list when a take over begins.
Kept == IF layed /\ ~Errored THEN Reached(trap, Reach) ELSE trap

\* HostProcess::substitute.  The traps are lifted from the old process, then
\* reopen attaches to another one that runs the program the session started
\* with (same symbol tables), where they are laid, and lifted again by docycle
\* since a process just attached is stopped.
TakeOver_ForgetsLift ==
  /\ Open
  /\ UNCHANGED bptsVars
  /\ image' = First
  /\ text' = Code[First]
  /\ proc' = "stopped"

TakeOver ==
  /\ Open
  /\ trap' = Reached(Kept, Mapped[First])
  /\ saved' = [s \in Stmt |-> IF s \in trap' THEN Code[First][Lo[s]] ELSE saved[s]]
  /\ text' = Code[First]
  /\ layed' = FALSE
  /\ image' = First
  /\ proc' = "stopped"

\* The same when reopen fails: the traps are laid again in the old process,
\* whatever its state.
TakeOverFails ==
  /\ Open
  /\ trap' = Reached(Kept, Reach)
  /\ saved' = [s \in Stmt |-> IF s \in trap' /\ ~layed THEN text[Lo[s]] ELSE saved[s]]
  /\ text' = [a \in Addr |-> IF a \in Locs(trap') THEN TRAPINST ELSE text[a]]
  /\ layed' = TRUE
  /\ proc' = IF trap # {} THEN Noticed ELSE proc
  /\ UNCHANGED image

\* Process::userclose: Bpts::hostclose lifts, Hostfunc::close detaches.
Close_NoLift ==
  /\ Open
  /\ proc' = IF Alive THEN "closed" ELSE "gone"
  /\ UNCHANGED <<bptsVars, text, image>>

Close ==
  /\ Open
  /\ lift(Reach, Errored)
  /\ proc' = IF Alive THEN "closed" ELSE "gone"
  /\ UNCHANGED image

Next ==
  \/ \E s \in Stmt : SetBpt(s)
  \/ \E s \in Stmt : ClrBpt(s)
  \/ ClearAll
  \/ Resume
  \/ Halt
  \/ LiftStopped
  \/ Notice
  \/ Die
  \/ Exec
  \/ TakeOver
  \/ TakeOverFails
  \/ Close

Spec == Init /\ [][Next]_vars

-----------------------------------------------------------------------------
\* The text a subject should have: its own, with a breakpoint instruction at
\* each trap while the traps are laid.
Expected == [a \in Addr |-> IF layed /\ a \in Locs(trap) THEN TRAPINST
                                                         ELSE Code[image][a]]

\* Until it calls exec, the memory of a live subject is its program plus
\* exactly the traps of the list: laying, lifting, setting, clearing and
\* taking over leave no breakpoint instruction that no trap owns, and no trap
\* that is laid but not in memory (Bpts::lay, lift, set, clr;
\* HostCore::laybpt, liftbpt).
TextIsProgramPlusTraps == Own => text = Expected

\* Two live traps never share an address: with two, the second would save
\* the breakpoint instruction of the first and write it back when lifted
\* (Bpts::istrap, Bpts::set).
OneTrapPerAddress == \A s, t \in trap : Lo[s] = Lo[t] => s = t

\* What a lift would write back into a live subject is its own code, and it
\* can write it: no saved byte is a breakpoint instruction or a byte of
\* an image it ran before a take over, and no laid trap is out of reach
\* (Trap::saved between HostCore::laybpt and liftbpt).
SavedIsOwn ==
  layed /\ Own =>
    \A s \in trap : saved[s] = Code[image][Lo[s]] /\ Lo[s] \in Mapped[image]

\* A subject that is let go alive, and did not exec, runs its own text and
\* nothing else (Bpts::hostclose before Core::close in Process::userclose).
ClosedIsClean == proc = "closed" /\ image = First => text = Code[image]

\* The inductive invariant that the proofs use.
IInv ==
  /\ TypeOK
  /\ OneTrapPerAddress
  /\ TextIsProgramPlusTraps
  /\ SavedIsOwn
  /\ ~Open => ~layed

\* The breakpoint list implements the all-or-nothing breakpoints: the
\* subject finds the instructions of all its breakpoints or of none, also
\* when some address cannot be reached or the subject dies half way.  A
\* program the window was not opened with has no breakpoints.
Planted == IF Own THEN { a \in Addr : text[a] = TRAPINST } ELSE {}
Abstract == INSTANCE Breakpoints WITH bps <- Locs(trap), planted <- Planted
AllOrNothing == Abstract!Spec
=============================================================================
