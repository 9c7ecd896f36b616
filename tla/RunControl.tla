----------------------------- MODULE RunControl -----------------------------
(***************************************************************************)
(* The process window: class Process (pi.linux/process.c) driving the      *)
(* breakpoint list (Bpts) and the subject (Inferior), polled through the   *)
(* terminal's clock (pads/term/pad.c).                                     *)
(*                                                                         *)
(* The debugger serves one event at a time.  A handler is one step of      *)
(* this module, except where the subject may move while it runs: `ctl'     *)
(* says which part of a handler comes next.                                *)
(***************************************************************************)
EXTENDS Bpts, Integers, Sequences

CONSTANTS
  Succ,        \* the subject's control flow, see Inferior
  Code,        \* Code[a]: the subject's own byte at a
  Start,       \* where the subject is when its window opens
  Conditional, \* statements whose breakpoint has a condition
  CharMax,     \* cycles is a signed char
  MaxSteps,    \* steps one command asks for
  MaxCycles,   \* bound: cycles at which "run" stops being clicked
  MaxAlarms,   \* bound: alarms and P_CYCLEs on their way at which the
               \* user waits
  Signals,     \* whether other processes signal the subject
  Untraced,    \* whether the user may stop tracing those signals
  Prompt       \* the subject takes SIGSTOP within stop()'s second

ASSUME RunControlAssumption ==
  /\ Code \in [Addr -> Byte] /\ Start \in Addr /\ Succ \in [Addr -> Addr]
  /\ CharMax \in Nat /\ MaxSteps \in Nat

H == INSTANCE Inferior

VARIABLES
  host,        \* the subject and Hostfunc, a record of Inferior
  cycles,      \* Process::cycles: P_CYCLEs the debugger waits for
  stoprequest, \* Process::stoprequest
  shown,       \* the state on the window's status line
  ctl,         \* what the debugger does next
  left,        \* steps left in a step command
  alarmq,      \* P_ALARMs on their way to the terminal
  ticks,       \* Pad.ticks of the window in the terminal
  cyc,         \* P_CYCLEs on their way to the debugger
  hasty        \* history: the user ran or stepped a window that said ACTIVE,
               \* or was about to change

windowVars == <<cycles, stoprequest, shown, ctl, left>>
termVars   == <<alarmq, ticks, cyc>>
vars == <<bptsVars, text, host, windowVars, termVars, hasty>>

\* "idle"      in the event loop
\* "docycle"   about to call Process::docycle
\* "show"      in habeascorpus(ACTIVE), about to read the program counter
\* "sleep"     in Process::stop, after SIGSTOP was sent
\* "runon"     in habeascorpus, about to step over a breakpoint whose
\*             condition was false
\* "stepping"  in a step command, between two steps
\* "stepwait"  in Hostfunc::step, in waitpid
\* "closed"    the window is gone
Ctls == {"idle", "docycle", "show", "sleep", "runon", "stepping", "stepwait", "closed"}

TypeOK ==
  /\ BptsTypeOK
  /\ host \in H!Hosts
  /\ cycles \in (-CharMax - 1)..CharMax
  /\ stoprequest \in BOOLEAN
  /\ shown \in H!UnixStates \cup {"STEPPED"}
  /\ ctl \in Ctls
  /\ left \in 0..MaxSteps
  /\ alarmq \in Seq({0, 1})
  /\ ticks \in {0, 1}
  /\ cyc \in Nat
  /\ hasty \in BOOLEAN

\* HostProcess::open attaches, makes an empty list, lays it and calls docycle.
Init ==
  /\ trap = {}
  /\ saved = Code \* by address: see SameAddrs
  /\ layed = TRUE
  /\ text = Code
  /\ host = H!attached(Start)
  /\ cycles = 0
  /\ stoprequest = FALSE
  /\ shown = "HALTED"
  /\ ctl = "docycle"
  /\ left = 0
  /\ alarmq = <<>>
  /\ ticks = 0
  /\ cyc = 0
  /\ hasty = FALSE

\* Statements are named by their addresses in this module.
ASSUME SameAddrs == Stmt = Addr /\ Lo = [a \in Addr |-> a]

-----------------------------------------------------------------------------
(* Helpers of the handlers. *)

\* ++cycles of a char
CharInc(c) == IF c = CharMax THEN -CharMax - 1 ELSE c + 1

\* pad->alarm(n); ++cycles
Alarm(n) ==
  /\ alarmq' = Append(alarmq, n)
  /\ cycles' = CharInc(cycles)

NoAlarm == UNCHANGED <<alarmq, cycles>>

\* Where ptrace succeeds, in host state h.
Reach(h) == IF h.run = "dead" THEN {} ELSE Addr

\* What waits to be served on either side of the terminal line.
Outstanding == Len(alarmq) + ticks + cyc

\* No change of the window is under way.
Quiet == ctl = "idle" /\ Outstanding = 0

\* The event loop serves the user.
Serving == ctl = "idle" /\ Outstanding <= MaxAlarms

\* A command that runs or steps the subject.  A patient user gives none to a
\* window that says ACTIVE, or that is about to change.
Ready ==
  /\ Serving
  /\ hasty' = (hasty \/ ~Quiet \/ shown = "ACTIVE")

\* The subject stopped at one of the breakpoints S that has a condition, and
\* no stop was asked for.
HasCondition(h, S) ==
  h.st = "BREAKED" /\ h.off = 0 /\ h.pc \in S \cap Conditional /\ ~stoprequest

-----------------------------------------------------------------------------
(* The subject. *)

SubjectMove ==
  /\ host' \in H!SubjectMoves(host, text)
  /\ UNCHANGED <<bptsVars, text, windowVars, termVars, hasty>>

Die ==
  /\ host.run # "dead"
  /\ ctl # "closed"
  /\ host' = H!Dead(host)
  /\ UNCHANGED <<bptsVars, text, windowVars, termVars, hasty>>

\* One signal at a time.
SendSig ==
  /\ Signals
  /\ ctl # "closed"
  /\ host.run # "dead" /\ ~host.sigq /\ host.ev # "sig" /\ host.st # "PENDING"
  /\ host' = H!Killed(host, "sig")
  /\ UNCHANGED <<bptsVars, text, windowVars, termVars, hasty>>

-----------------------------------------------------------------------------
(* Polling. *)

\* Process::docycle.  A running subject is polled again in a second, a
\* stopped one loses its traps, a dead one keeps them.  habeascorpus then
\* evaluates the condition of a breakpoint that has one: unless it is true,
\* or a spy has changed, the subject is run on.
DoCycle_NoLift ==
  LET p == H!getstate(host) IN
  /\ ctl = "docycle"
  /\ host' = p
  /\ IF p.st = "ACTIVE" THEN Alarm(1) ELSE NoAlarm
  /\ UNCHANGED <<bptsVars, text>>
  /\ \/ ctl' = IF p.st = "ACTIVE" THEN "show" ELSE "idle"
     \/ HasCondition(p, trap') /\ ctl' = "runon"
  /\ shown' = IF ctl' = "idle" THEN p.st ELSE shown
  /\ UNCHANGED <<stoprequest, left, ticks, cyc, hasty>>

DoCycle ==
  LET p == H!getstate(host) IN
  /\ ctl = "docycle"
  /\ host' = p
  /\ IF p.st = "ACTIVE" THEN Alarm(1) ELSE NoAlarm
  /\ IF p.st \in {"HALTED", "PENDING", "BREAKED"} THEN lift(Reach(p), FALSE)
                                                  ELSE UNCHANGED <<bptsVars, text>>
  /\ \/ ctl' = IF p.st = "ACTIVE" THEN "show" ELSE "idle"
     \/ HasCondition(p, trap') /\ ctl' = "runon"
  /\ shown' = IF ctl' = "idle" THEN p.st ELSE shown
  /\ UNCHANGED <<stoprequest, left, ticks, cyc, hasty>>

\* habeascorpus(ACTIVE): core->pc() stops the subject for a moment.
Show ==
  /\ ctl = "show"
  /\ host' = H!readwrite(host)
  /\ shown' = "ACTIVE"
  /\ ctl' = "idle"
  /\ UNCHANGED <<bptsVars, text, cycles, stoprequest, left, termVars, hasty>>

\* habeascorpus(BREAKED) when the condition was false: alarm(0), then the
\* subject is stepped over the breakpoint, the traps are laid, and it runs.
RunOn_NoAlarm ==
  LET s == H!step(host, text) IN
  /\ ctl = "runon"
  /\ IF s.st = "BREAKED" THEN lay(Addr) /\ host' = H!run(s)
                         ELSE UNCHANGED <<bptsVars, text>> /\ host' = s
  /\ ctl' = "idle"
  /\ UNCHANGED <<stoprequest, shown, left, cycles, termVars, hasty>>

RunOn ==
  LET s == H!step(host, text) IN
  /\ ctl = "runon"
  /\ Alarm(0)
  /\ IF s.st = "BREAKED" THEN lay(Addr) /\ host' = H!run(s)
                         ELSE UNCHANGED <<bptsVars, text>> /\ host' = s
  /\ ctl' = "idle"
  /\ UNCHANGED <<stoprequest, shown, left, ticks, cyc, hasty>>

\* Process::cycle called by P_CYCLE
Cycle_NotCounted ==
  /\ ctl = "idle"
  /\ cyc > 0
  /\ cyc' = cyc - 1
  /\ cycles' = IF cycles > 0 THEN cycles - 1 ELSE cycles
  /\ UNCHANGED <<bptsVars, text, host, stoprequest, shown, ctl, left,
                 alarmq, ticks, hasty>>

Cycle ==
  /\ ctl = "idle"
  /\ cyc > 0
  /\ cyc' = cyc - 1
  /\ IF cycles > 0 THEN cycles' = cycles - 1 /\ ctl' = "docycle"
                   ELSE UNCHANGED <<cycles, ctl>>
  /\ UNCHANGED <<bptsVars, text, host, stoprequest, shown, left, alarmq, ticks, hasty>>

-----------------------------------------------------------------------------
(* The terminal. *)

\* PadOp on P_ALARM: 0 is answered at once, 1 at the next tick of the clock.
DeliverAlarm ==
  /\ alarmq # <<>>
  /\ alarmq' = Tail(alarmq)
  /\ ticks' = Head(alarmq)
  /\ cyc' = IF Head(alarmq) = 0 THEN cyc + 1 ELSE cyc
  /\ UNCHANGED <<bptsVars, text, host, windowVars, hasty>>

\* Cycle() of the terminal, once a second
Tick ==
  /\ ticks > 0
  /\ ticks' = ticks - 1
  /\ cyc' = IF ticks = 1 THEN cyc + 1 ELSE cyc
  /\ UNCHANGED <<bptsVars, text, host, windowVars, alarmq, hasty>>

-----------------------------------------------------------------------------
(* Commands. *)

\* Process::go of host state p, just polled.  Only the first docycle after it
\* is left to do.
GoFrom(p) ==
  /\ stoprequest' = FALSE
  /\ ctl' = "docycle"
  /\ \/ /\ p.st \in {"ACTIVE", "ERRORED"}
        /\ host' = H!readwrite(p)
        /\ shown' = p.st
        /\ UNCHANGED <<bptsVars, text>>
     \/ /\ p.st \in {"HALTED", "PENDING"}
        /\ lay(Reach(p))
        /\ host' = H!run(p)
        /\ UNCHANGED shown
     \/ LET s == H!step(p, text) IN
        /\ p.st = "BREAKED"
        /\ IF s.st = "BREAKED" THEN lay(Reach(s)) /\ host' = H!run(s)
                               ELSE UNCHANGED <<bptsVars, text>> /\ host' = s
        /\ UNCHANGED shown
  /\ UNCHANGED <<cycles, left, termVars>>

Go ==
  /\ Ready
  /\ cycles < MaxCycles
  /\ GoFrom(H!getstate(host))

\* SigMask::clrcurrsig, with and without "go"
ClearAndGo ==
  /\ Ready
  /\ host.st = "PENDING"
  /\ cycles < MaxCycles
  /\ GoFrom(H!getstate(H!csig(host)))

ClearPending ==
  LET p == H!getstate(H!csig(host)) IN
  /\ Ready
  /\ cycles < MaxCycles
  /\ host' = H!readwrite(p)
  /\ \/ ctl' = "idle" /\ shown' = p.st
     \/ HasCondition(p, trap) /\ ctl' = "runon" /\ UNCHANGED shown
  /\ UNCHANGED <<bptsVars, text, cycles, stoprequest, left, termVars>>

\* Process::stop.  Anything but a running subject is only shown.
Stop_NoKill ==
  LET p == H!getstate(host) IN
  /\ Serving
  /\ p.st = "ACTIVE"
  /\ host' = p
  /\ ctl' = "sleep"
  /\ UNCHANGED <<bptsVars, text, cycles, stoprequest, shown, left, termVars, hasty>>

Stop ==
  LET p == H!getstate(host) IN
  /\ Serving
  /\ \/ /\ p.st = "ACTIVE"
        /\ host' = H!Killed(p, "SIGSTOP")
        /\ ctl' = "sleep"
        /\ UNCHANGED <<stoprequest, shown>>
     \/ /\ p.st # "ACTIVE"
        /\ host' = p
        /\ stoprequest' = TRUE
        /\ shown' = p.st
        /\ UNCHANGED ctl
  /\ UNCHANGED <<bptsVars, text, cycles, left, termVars, hasty>>

\* ... after its sleep: cycle()
Wake ==
  /\ ctl = "sleep"
  /\ Prompt => host.run # "running"
  /\ IF cycles > 0 THEN cycles' = cycles - 1 /\ ctl' = "docycle"
                   ELSE ctl' = "idle" /\ UNCHANGED cycles
  /\ UNCHANGED <<bptsVars, text, host, stoprequest, shown, left, termVars, hasty>>

\* Process::instrstep(n); a statement step is a run of these.
StepCmd ==
  /\ Ready
  /\ stoprequest' = FALSE
  /\ left' \in 1..MaxSteps
  /\ ctl' = "stepping"
  /\ UNCHANGED <<bptsVars, text, host, cycles, shown, termVars>>

\* What a step command does with the host state a step ended in: the next
\* step, or the end, also when a spy has changed; docycle on an error.
AfterStep_OnceMore(h) ==
  \/ /\ h.st = "BREAKED"
     /\ left' = left - 1
     /\ ctl' = "stepping"
     /\ UNCHANGED shown
  \/ /\ h.st # "BREAKED"
     /\ left' = 0
     /\ ctl' = "docycle"
     /\ UNCHANGED shown

AfterStep(h) ==
  \/ /\ h.st = "BREAKED"
     /\ left > 1
     /\ left' = left - 1
     /\ ctl' = "stepping"
     /\ UNCHANGED shown
  \/ /\ h.st = "BREAKED"
     /\ left' = 0
     /\ ctl' = "idle"
     /\ shown' = "STEPPED"
  \/ /\ h.st # "BREAKED"
     /\ left' = 0
     /\ ctl' = "docycle"
     /\ UNCHANGED shown

\* HostCore::dostep: it reads the registers, so that a running subject is
\* stopped and run again, and steps.
StepOne ==
  LET h == H!readwrite(host) IN
  /\ ctl = "stepping"
  /\ IF h.run = "running"
     THEN host' = h /\ ctl' = "stepwait" /\ UNCHANGED <<shown, left>>
     ELSE host' = H!step(h, text) /\ AfterStep(host')
  /\ UNCHANGED <<bptsVars, text, cycles, stoprequest, termVars, hasty>>

\* ... which blocks in waitpid while the subject runs.
StepWait ==
  /\ ctl = "stepwait"
  /\ host.ev # "none"
  /\ host' = H!procwait(host, FALSE)
  /\ IF H!Forwards(host) THEN UNCHANGED <<ctl, shown, left>> ELSE AfterStep(host')
  /\ UNCHANGED <<bptsVars, text, cycles, stoprequest, termVars, hasty>>

\* Stmt::dobpt(1): a trap laid at once stops a running subject for a moment.
SetBpt(a) ==
  LET h == IF layed /\ a \notin trap THEN H!readwrite(host) ELSE host IN
  /\ Serving
  /\ host' = h
  /\ set(a, Reach(h))
  /\ UNCHANGED <<windowVars, termVars, hasty>>

\* Stmt::dobpt(0), and "clear all"
ClrBpt(a) ==
  LET p == IF layed /\ a \in trap THEN H!getstate(host) ELSE host IN
  /\ Serving
  /\ host' = IF layed /\ a \in trap THEN H!readwrite(p) ELSE p
  /\ clr(a, Reach(host'), p.st = "ERRORED")
  /\ UNCHANGED <<windowVars, termVars, hasty>>

ClearAll ==
  LET p == IF layed /\ trap # {} THEN H!getstate(host) ELSE host IN
  /\ Serving
  /\ host' = IF layed /\ trap # {} THEN H!readwrite(p) ELSE p
  /\ clearall(Reach(host'), p.st = "ERRORED")
  /\ UNCHANGED <<windowVars, termVars, hasty>>

\* Any other window reads the subject's memory.
ReadMem ==
  /\ Serving
  /\ host' = H!readwrite(host)
  /\ UNCHANGED <<bptsVars, text, windowVars, termVars, hasty>>

\* SigMask::setsig and clrsig
ToggleMask ==
  /\ Untraced
  /\ Serving
  /\ host' = [host EXCEPT !.mask = ~@]
  /\ UNCHANGED <<bptsVars, text, windowVars, termVars, hasty>>

\* HostProcess::destroy
Kill_NoCycle ==
  /\ Serving
  /\ host' = H!destroy(host)
  /\ UNCHANGED <<bptsVars, text, windowVars, termVars, hasty>>

Kill ==
  /\ Serving
  /\ host' = H!destroy(host)
  /\ ctl' = "docycle"
  /\ UNCHANGED <<bptsVars, text, cycles, stoprequest, shown, left, termVars, hasty>>

\* Process::userclose
Close ==
  LET p == H!getstate(host)
      h == IF layed /\ trap # {} THEN H!readwrite(p) ELSE host IN
  /\ Serving
  /\ lift(Reach(h), p.st = "ERRORED")
  /\ host' = H!close(h)
  /\ ctl' = "closed"
  /\ UNCHANGED <<cycles, stoprequest, shown, left, termVars, hasty>>

-----------------------------------------------------------------------------
Debugger == DoCycle \/ Show \/ RunOn \/ Wake \/ StepOne \/ StepWait

User ==
  \/ Go \/ ClearAndGo \/ ClearPending \/ Stop \/ StepCmd
  \/ (\E a \in Addr : SetBpt(a)) \/ (\E a \in Addr : ClrBpt(a)) \/ ClearAll
  \/ ReadMem \/ ToggleMask \/ Kill \/ Close

Next == SubjectMove \/ Die \/ SendSig \/ Debugger \/ Cycle \/ DeliverAlarm \/ Tick \/ User

\* The debugger finishes the handler it is in, the terminal's clock and
\* lines work, and the subject is scheduled.  P_CYCLE waits in the same pipe
\* as the user's commands and is served in its turn, however many there are.
Fairness ==
  /\ WF_vars(Debugger)
  /\ SF_vars(Cycle)
  /\ WF_vars(DeliverAlarm)
  /\ WF_vars(Tick)
  /\ WF_vars(SubjectMove)

Spec == Init /\ [][Next]_vars
FairSpec == Spec /\ Fairness

-----------------------------------------------------------------------------
\* A live subject has its own text, with a breakpoint instruction at each
\* trap while the traps are laid, after any run of commands, polls and
\* signals, also while the window believes that it runs or is stopped
\* (Process::go, docycle and habeascorpus; Bpts).
TextOwned ==
  host.run # "dead" =>
    text = [a \in Addr |-> IF layed /\ a \in trap THEN TRAPINST ELSE Code[a]]

\* A subject that the debugger has to come back to is polled: while it runs,
\* or its traps are laid, the debugger expects a P_CYCLE, and one is on its
\* way or the terminal's clock will send it.  Process::cycle ignores a
\* P_CYCLE nobody expects, alarm(1) moves an alarm that is set, alarm(0)
\* takes it away, and stop() consumes one that is still to come.
Polled ==
  ctl = "idle" /\ (host.st = "ACTIVE" \/ layed) /\ host.st # "ERRORED" =>
    cycles > 0 /\ Outstanding > 0

\* A window that nothing is about to change is right about the subject: it
\* does not run, whatever the window says, and has nothing to tell that was not
\* fetched; it has its own text while it lives, and the status line tells the
\* state it was found in, and that it is dead only of a dead one (every handler
\* that can let the subject run, or change its state, ends in docycle or
\* habeascorpus).  A subject that is killed while it is stopped is not found
\* dead until the next command: until then its line is out of date, though
\* help.pi says that "ERROR STATE" tells of a process that died.
SettledIsTrue ==
  Quiet =>
    /\ host.run # "running"
    /\ host.run # "dead" => host.ev = "none" /\ text = Code
    /\ shown = host.st \/ (shown = "STEPPED" /\ host.st = "BREAKED")
    /\ shown # "ACTIVE" /\ (shown = "ERRORED" => host.run = "dead")

\* The subject executes every instruction of its program: resuming it from a
\* breakpoint never makes it run on behind the breakpoint instruction
\* without the instruction that was there (WAIT_PCFIX of Hostfunc::procwait;
\* the step of Process::go and habeascorpus).
NoSkip == ~host.skipped

\* It does for as long as the user was patient, whatever stops the subject in
\* the meantime and whatever else the user does.
PatientNoSkip == ~hasty => NoSkip

\* A subject that was let go alive runs its own text, and that of a patient
\* user from the beginning of an instruction (Process::userclose,
\* Bpts::hostclose, Hostfunc::close).
CloseIsClean ==
  ctl = "closed" /\ host.run # "dead" => text = Code /\ (~hasty => host.off = 0)

\* A breakpoint that is hit, and an exit, are noticed (the one second poll).  A
\* hasty step waits for a subject that runs instead, and serves nobody.
EventNoticed ==
  host.st = "ACTIVE" /\ host.ev \in {"trap", "exit"} ~>
    host.st # "ACTIVE" \/ ctl = "closed" \/ hasty

\* A patient user's stop stops a running subject (Process::stop).
StopHonoured == ctl = "sleep" ~> host.st # "ACTIVE" \/ hasty

\* It does as long as every signal is traced: stop() reads the subject's memory
\* between its kill and the poll that is to find it HALTED, and a signal that
\* is not traced can come in between.
TracedStopHonoured ==
  ctl = "sleep" /\ host.mask ~> host.st # "ACTIVE" \/ ~host.mask \/ hasty
=============================================================================
