------------------------------ MODULE Inferior ------------------------------
(***************************************************************************)
(* The subject process under ptrace and the layer of the debugger that     *)
(* drives it (class Hostfunc, pi.linux/hostfunc.c), as operators on a      *)
(* record `h' that joins the two:                                          *)
(*                                                                         *)
(*   st      Localproc.state.state: what the debugger last learnt          *)
(*   run     the kernel's view: running, in a ptrace stop, or dead         *)
(*   ev      a change of state waitpid has not fetched yet                 *)
(*   stopq   a SIGSTOP is queued for the subject                           *)
(*   sigq    a signal other than SIGSTOP is queued (its number is lower,   *)
(*           so the kernel delivers it first)                              *)
(*   pc, off the next byte to execute: instruction pc, and whether the     *)
(*           program counter is one past its first byte                    *)
(*   mask    that signal is in Localproc.sigmsk                            *)
(*   skipped the subject has run on from the middle of an instruction that *)
(*           it never executed                                             *)
(*                                                                         *)
(* Kernel and subject are external: they are modelled from how ptrace,     *)
(* kill and waitpid are used here.                                         *)
(***************************************************************************)
CONSTANTS
  Addr,        \* addresses of the subject's instructions
  TRAPINST,    \* the breakpoint instruction
  Succ         \* Succ[a] is the instruction executed after the one at a

UnixStates == {"ACTIVE", "HALTED", "BREAKED", "PENDING", "ERRORED"}

Hosts == [st : UnixStates, run : {"running", "stopped", "dead"},
          ev : {"none", "trap", "stop", "sig", "exit"},
          stopq : BOOLEAN, sigq : BOOLEAN, pc : Addr, off : {0, 1},
          mask : BOOLEAN, skipped : BOOLEAN]

\* Hostfunc::open attaches and waits: a freshly attached process is HALTED.
attached(a) == [st |-> "HALTED", run |-> "stopped", ev |-> "none",
                stopq |-> FALSE, sigq |-> FALSE, pc |-> a, off |-> 0,
                mask |-> TRUE, skipped |-> FALSE]

-----------------------------------------------------------------------------
(* The subject and the kernel. *)

AtTrap(h, mem) == h.off = 0 /\ mem[h.pc] = TRAPINST

\* One instruction.  INT 3 leaves the program counter behind its one byte;
\* from there the subject runs on without the instruction it replaced.
Executed(h, mem) ==
  IF AtTrap(h, mem) THEN [h EXCEPT !.off = 1]
  ELSE [h EXCEPT !.pc = Succ[@], !.off = 0, !.skipped = @ \/ h.off = 1]

\* A running subject takes its signals before it executes anything.
SubjectMoves(h, mem) ==
  IF h.run # "running" THEN {}
  ELSE IF h.sigq THEN {[h EXCEPT !.sigq = FALSE, !.run = "stopped", !.ev = "sig"]}
  ELSE IF h.stopq THEN {[h EXCEPT !.stopq = FALSE, !.run = "stopped", !.ev = "stop"]}
  ELSE IF AtTrap(h, mem) THEN {[Executed(h, mem) EXCEPT !.run = "stopped", !.ev = "trap"]}
  ELSE {Executed(h, mem)}

\* exit, or SIGKILL from outside: possible in any state.
Dead(h) ==
  IF h.run = "dead" THEN h
  ELSE [h EXCEPT !.run = "dead", !.ev = "exit", !.stopq = FALSE, !.sigq = FALSE]

\* kill(pid, SIGSTOP) and kill(pid, sig)
Killed(h, sig) == IF h.run = "dead" THEN h
                  ELSE IF sig = "SIGSTOP" THEN [h EXCEPT !.stopq = TRUE]
                  ELSE [h EXCEPT !.sigq = TRUE]

-----------------------------------------------------------------------------
(* Hostfunc. *)

\* procwait once waitpid has something to fetch.  A signal that is not
\* traced is passed on at once, but only while the state is ACTIVE.
Forwards(h) == h.ev = "sig" /\ h.st = "ACTIVE" /\ ~h.mask

procwait_NoPcFix(h, pcfix) ==
  CASE h.ev = "stop" -> [h EXCEPT !.ev = "none", !.st = "HALTED"]
    [] h.ev = "trap" -> [h EXCEPT !.ev = "none", !.st = "BREAKED"]
    [] Forwards(h)   -> [h EXCEPT !.ev = "none", !.run = "running"]
    [] h.ev = "sig" /\ ~Forwards(h) -> [h EXCEPT !.ev = "none", !.st = "PENDING"]
    [] h.ev = "exit" -> [h EXCEPT !.ev = "none", !.st = "ERRORED"]
    [] h.ev = "none" -> h

procwait(h, pcfix) ==
  CASE h.ev = "stop" -> [h EXCEPT !.ev = "none", !.st = "HALTED"]
    [] h.ev = "trap" -> [h EXCEPT !.ev = "none", !.st = "BREAKED",
                                  !.off = IF pcfix THEN 0 ELSE @]
    [] Forwards(h)   -> [h EXCEPT !.ev = "none", !.run = "running"]
    [] h.ev = "sig" /\ ~Forwards(h) -> [h EXCEPT !.ev = "none", !.st = "PENDING"]
    [] h.ev = "exit" -> [h EXCEPT !.ev = "none", !.st = "ERRORED"]
    [] h.ev = "none" -> h

\* getstate: polls an ACTIVE process only.
getstate(h) == IF h.st = "ACTIVE" THEN procwait(h, TRUE) ELSE h

\* A running subject with SIGSTOP queued, up to its next event.
ToEvent(h) ==
  IF h.ev # "none" \/ h.run = "dead" THEN h
  ELSE IF h.sigq THEN [h EXCEPT !.sigq = FALSE, !.run = "stopped", !.ev = "sig"]
  ELSE [h EXCEPT !.stopq = FALSE, !.run = "stopped", !.ev = "stop"]

\* stop(p); procwait(p, WAIT_PCFIX) of an ACTIVE process.  procwait blocks,
\* and goes round again after it has passed a signal on.
stopAndWait(h) ==
  LET e == ToEvent(Killed(h, "SIGSTOP")) IN
  IF ~Forwards(e) THEN procwait(e, TRUE)
  ELSE procwait(ToEvent(procwait(e, TRUE)), TRUE)

\* What readwrite does around its transfer.  An ACTIVE process is stopped
\* and run again; if something else stopped it first, it is continued just
\* to fetch and discard the SIGSTOP, and stays stopped.
readwrite(h) ==
  IF h.st # "ACTIVE" THEN h
  ELSE LET w == stopAndWait(h) IN
       IF w.st = "HALTED" THEN [w EXCEPT !.st = "ACTIVE", !.run = "running"]
       ELSE IF w.run = "dead" THEN w
       ELSE IF w.sigq THEN [w EXCEPT !.sigq = FALSE]
       ELSE [w EXCEPT !.stopq = FALSE]

\* step: PTRACE_SINGLESTEP of a subject that is not running, then a wait
\* without PCFIX.
step(h, mem) ==
  IF h.run = "dead" THEN procwait(h, FALSE)
  ELSE IF h.sigq THEN [h EXCEPT !.sigq = FALSE, !.st = "PENDING"]
  ELSE IF h.stopq THEN [h EXCEPT !.stopq = FALSE, !.st = "HALTED"]
  ELSE [Executed(h, mem) EXCEPT !.st = "BREAKED"]

\* run: PTRACE_CONT, which a dead process does not notice.
run(h) == [h EXCEPT !.st = "ACTIVE", !.run = IF @ = "dead" THEN @ ELSE "running"]

\* destroy
destroy(h) ==
  IF h.st = "ERRORED" THEN h
  ELSE [Dead(IF h.st = "ACTIVE" THEN stopAndWait(h) ELSE h) EXCEPT !.st = "ERRORED"]

\* csig: the pending signal is forgotten.
csig(h) == [h EXCEPT !.st = IF @ = "PENDING" THEN "HALTED" ELSE @]

\* close of the last user of a Localproc.
close(h) ==
  IF h.st = "ERRORED" THEN h
  ELSE LET w == IF h.st = "ACTIVE" THEN stopAndWait(h) ELSE Killed(h, "SIGSTOP")
       IN IF w.run = "dead" THEN w ELSE [w EXCEPT !.run = "running"]
=============================================================================
