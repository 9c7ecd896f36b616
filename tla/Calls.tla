------------------------------- MODULE Calls -------------------------------
(***************************************************************************)
(* Stepping over calls, returning from a function and calling one from an  *)
(* expression: Core::stepoverjsr and popcallstack (pi.linux/core.c),       *)
(* HostCore::dostep (hostcore.c) and I686Core::docall (i686core.c).  They  *)
(* let the subject run to a temporary breakpoint, behind the call or at    *)
(* the return address, and go on when a deeper activation got there first. *)
(*                                                                         *)
(* The traps of the breakpoint list are lifted while these commands run    *)
(* (RunControl says when that is so); text holds the temporary one only.   *)
(* The debugger waits for the subject in waitpid, serving nothing else:    *)
(* between two steps of this module only the subject and the signals that  *)
(* other processes send it get on.                                         *)
(***************************************************************************)
EXTENDS Integers, SequencesExt, FiniteSetsExt

CONSTANTS
  Addr,      \* addresses of the subject's instructions
  Kind,      \* Kind[a]: what the instruction at a does
  Succ,      \* Succ[a]: where a "plain" instruction may go on
  Callee,    \* the function all calls call
  Stmts,     \* its statements, <<range.lo, range.hi>>
  Stack0,    \* the activations when the window opens
  Start,     \* and the program counter
  Scratch,   \* scratchaddr(): where docall writes its call instruction
  Words,     \* what may be on top of the stack where no call was made
  Data,      \* those of them that are mapped and hold no instruction
  MaxDepth,  \* bound: activations
  MaxSigs,   \* bound: signals other processes send
  TRAPINST

Kinds == {"plain", "call", "enter", "leave", "ret", "exit"}

ASSUME CallsAssumption ==
  /\ Addr \subseteq Nat /\ Callee \in Addr /\ Start \in Addr
  /\ Kind \in [Addr -> Kinds] /\ Succ \in [Addr -> SUBSET Addr]
  /\ \A a \in Addr : Kind[a] \in {"call", "enter", "leave"} => a + 1 \in Addr
  /\ {Scratch, Scratch + 1} \subseteq Addr /\ Kind[Scratch] = "exit"
  /\ Stmts \subseteq Nat \X Nat
  /\ Data \cap Addr = {}
  /\ MaxDepth \in Nat /\ MaxSigs \in Nat
  /\ TRAPINST = "trap"

Mapped == Addr \cup Data

\* An activation: its return address, and whether it has a frame (pushl %ebp;
\* movl %esp,%ebp were executed, leave was not).
Activation == [ret : Addr, entered : BOOLEAN]

ASSUME Stack0Assumption == Stack0 \in Seq(Activation)

\* Addresses M are those at which the running activation has its frame: a
\* compiler that keeps frame pointers puts calls between enter and leave, and
\* the debugger finds activations by their frame pointers only.
KeepsFrames(M) ==
  /\ Callee \notin M
  /\ \A a \in Addr :
       /\ Kind[a] = "call" => a \in M /\ a + 1 \in M
       /\ Kind[a] = "leave" => a + 1 \notin M
       /\ Kind[a] = "plain" => (Succ[a] \cap M # {} => a \in M)
  /\ \A i \in 1..Len(Stack0) :
       /\ Stack0[i].ret \in M
       /\ (i < Len(Stack0) \/ Start \in M) => Stack0[i].entered

ASSUME FramePointers == \E M \in SUBSET Addr : KeepsFrames(M)

\* A function begins with enter, and the statement that is its prolog calls
\* nothing.
ASSUME PrologAssumption ==
  /\ Kind[Callee] = "enter"
  /\ \A s \in Stmts : s[1] <= Callee /\ Callee < s[2]
       => \A a \in Addr : s[1] <= a /\ a < s[2] => Kind[a] # "call"

H == INSTANCE Inferior

VARIABLES
  h,         \* the subject and Hostfunc, a record of Inferior
  stack,     \* its activations, the oldest first
  text,      \* its memory
  sigs,      \* signals sent so far
  trapat,    \* the address of the static Trap
  trapsaved, \* and its saved byte
  said,      \* how the last command ended
  doing      \* the command the debugger carries out

subject == <<h, stack, text>>
statics == <<trapat, trapsaved, said>>
vars    == <<subject, sigs, statics, doing>>

\* doing.phase says what comes next:
\* "idle"    the event loop
\* "dostep"  dostep's loop, once more
\* "into"    the loop of Process::stepinto, once more
\* "over"    stepoverjsr goes on after its waitpid
\* "pop"     popcallstack does
\* The rest are local variables: lo and hi, the fp0 of dostep, the fp0 of
\* stepoverjsr or popcallstack.  `from' (where the subject was when the
\* command came) and `back' (where the call must come back) are history.
Place == [pc : Addr, stack : Seq(Activation)]
NoPlace == [pc |-> Start, stack |-> <<>>]

Doings == [phase : {"idle", "dostep", "into", "over", "pop"},
           cmd : {"none", "step", "into", "pop", "eval"},
           range : Nat \X Nat, fp0 : Nat, jsrfp : Nat, from : Place, back : Place]

Idle == [phase |-> "idle", cmd |-> "none", range |-> <<0, 0>>, fp0 |-> 0,
         jsrfp |-> 0, from |-> NoPlace, back |-> NoPlace]

TypeOK ==
  /\ h \in H!Hosts
  /\ stack \in Seq(Activation)
  /\ text \in [Mapped -> {"own", "call", TRAPINST}]
  /\ sigs \in 0..MaxSigs
  /\ trapat \in Mapped
  /\ trapsaved \in {"own", "call", TRAPINST}
  /\ said \in {"none", "ok", "error"}
  /\ doing \in Doings

Init ==
  /\ h = H!attached(Start)
  /\ stack = Stack0
  /\ text = [a \in Mapped |-> "own"]
  /\ sigs = 0
  /\ trapat = Start /\ trapsaved = "own"
  /\ said = "none"
  /\ doing = Idle

-----------------------------------------------------------------------------
(* The subject. *)

\* A subject in the middle of a debugger's handler.
Subject(g, s) == [h |-> g, stack |-> s]

\* The frame pointer, as the activation whose frame it points to: deeper
\* activations have lower addresses (GROWDOWN), here higher numbers.
fp(s) == Max({0} \cup { i \in 1..Len(s) : s[i].entered })

Framed(s, b) == IF s = <<>> THEN s ELSE [s EXCEPT ![Len(s)].entered = b]

Op(a, mem) == IF mem[a] = "call" THEN "call" ELSE Kind[a]

\* The subject at b, after an instruction.
Ahead(g, b) == [g EXCEPT !.pc = b, !.off = 0, !.skipped = @ \/ g.off = 1]

\* One instruction of x, with memory mem: every outcome.
Executed(x, mem) ==
  LET g == x.h
      a == g.pc
  IN  IF mem[a] = TRAPINST /\ g.off = 0 THEN {Subject([g EXCEPT !.off = 1], x.stack)}
      ELSE CASE Op(a, mem) = "call"  -> {Subject(Ahead(g, Callee),
                                           Append(x.stack, [ret |-> a + 1, entered |-> FALSE]))}
             [] Op(a, mem) = "enter" -> {Subject(Ahead(g, a + 1), Framed(x.stack, TRUE))}
             [] Op(a, mem) = "leave" -> {Subject(Ahead(g, a + 1), Framed(x.stack, FALSE))}
             [] Op(a, mem) = "ret" /\ x.stack # <<>> ->
                                        {Subject(Ahead(g, Last(x.stack).ret), Front(x.stack))}
             [] Op(a, mem) = "plain" -> { Subject(Ahead(g, b), x.stack) :
                                          b \in { c \in Succ[a] : Op(c, mem) = "call"
                                                                 => Len(x.stack) < MaxDepth } }
             [] OTHER                -> {Subject(H!Dead(g), x.stack)}

\* PTRACE_SINGLESTEP and a wait without PCFIX (Inferior!step, for a subject
\* with a stack): a queued signal comes instead of the instruction.
Stepped(x, mem) ==
  IF x.h.run = "dead" \/ x.h.sigq \/ x.h.stopq
  THEN {Subject(H!step(x.h, mem), x.stack)}
  ELSE { IF y.h.run = "dead" THEN Subject(H!procwait(y.h, FALSE), y.stack)
         ELSE Subject([y.h EXCEPT !.st = "BREAKED"], y.stack) : y \in Executed(x, mem) }

Alive == h.run # "dead"

SubjectMoves ==
  /\ h.run = "running"
  /\ IF h.sigq \/ h.stopq
     THEN h' \in H!SubjectMoves(h, text) /\ UNCHANGED stack
     ELSE \E y \in Executed(Subject(h, stack), text) :
            /\ h' = IF y.h.off = 1 /\ h.off = 0
                    THEN [y.h EXCEPT !.run = "stopped", !.ev = "trap"] ELSE y.h
            /\ stack' = y.stack
  /\ UNCHANGED <<text, sigs, statics, doing>>

\* kill(1), or a timer of the subject's own.
Signalled ==
  /\ Alive /\ sigs < MaxSigs
  /\ ~h.sigq /\ h.ev # "sig" /\ h.st # "PENDING"
  /\ \E s \in {"sig", "SIGSTOP"} : h' = H!Killed(h, s)
  /\ sigs' = sigs + 1
  /\ UNCHANGED <<stack, text, statics, doing>>

Killed ==
  /\ Alive
  /\ h' = H!Dead(h)
  /\ UNCHANGED <<stack, text, sigs, statics, doing>>

\* The Signals window: trace the signal, or no longer.
Trace ==
  /\ doing.phase = "idle" /\ MaxSigs > 0
  /\ h' = [h EXCEPT !.mask = ~@]
  /\ UNCHANGED <<stack, text, sigs, statics, doing>>
-----------------------------------------------------------------------------
(* The debugger.  Its operators say what becomes of subject x and memory   *)
(* mem.                                                                    *)

Ready == doing.phase = "idle" /\ h.st # "ERRORED"

Here == Subject(h, stack)

Become(x, mem) == h' = x.h /\ stack' = x.stack /\ text' = mem

\* The command ends.  An expression has its scratch code taken away and its
\* context (the registers) restored, whatever has happened.
End(x, mem, result) ==
  /\ doing' = Idle /\ said' = result
  /\ IF doing.cmd = "eval" /\ x.h.run # "dead"
     THEN Become(Subject([x.h EXCEPT !.pc = doing.from.pc, !.off = 0], doing.from.stack),
                 [mem EXCEPT ![Scratch] = "own"])
     ELSE Become(x, mem)
  /\ UNCHANGED <<trapat, trapsaved>>

\* Core::liftbpt of the static Trap.
liftbpt(x, mem) ==
  IF x.h.run = "dead" THEN mem ELSE [mem EXCEPT ![trapat] = trapsaved]

\* laybpt of the static Trap at a, then the run of dostep(0, 0, 0); d is what
\* waits for the subject.
LayAndRun(x, mem, a, d) ==
  IF x.h.run = "dead" \/ a \notin Mapped THEN End(x, mem, "error")
  ELSE /\ doing' = d
       /\ trapat' = a /\ trapsaved' = mem[a]
       /\ Become(Subject(H!run(x.h), x.stack), [mem EXCEPT ![a] = TRAPINST])
       /\ UNCHANGED said

\* dostep's loop ends outside lo..hi, or in a caller, except at its return.
Left(x, mem) ==
  \/ x.h.pc < doing.range[1] \/ x.h.pc >= doing.range[2]
  \/ fp(x.stack) < doing.fp0 /\ Op(x.h.pc, mem) # "ret"

\* The end of a round of dostep; STEPWAIT may have passed.
Round(x, mem) ==
  \/ Left(x, mem) /\ End(x, mem, "ok")
  \/ ~Left(x, mem) /\ End(x, mem, "error")
  \/ /\ ~Left(x, mem)
     /\ doing' = [doing EXCEPT !.phase = "dostep", !.jsrfp = 0, !.back = NoPlace]
     /\ Become(x, mem)
     /\ UNCHANGED statics

\* stepoverjsr up to its wait.  The error of the step in instrafterjsr is not
\* looked at: then the word on top of the stack is no return address.
stepoverjsr_CallersFrame(x) ==
  LET d == [doing EXCEPT !.phase = "over", !.jsrfp = fp(stack) - 1] IN
  IF x.stack # stack
  THEN LET a == Last(x.stack).ret
       IN  LayAndRun(x, text, a, [d EXCEPT !.back = [pc |-> a, stack |-> stack]])
  ELSE \E w \in Words : LayAndRun(x, text, w, d)

stepoverjsr(x) ==
  LET d == [doing EXCEPT !.phase = "over", !.jsrfp = fp(stack)] IN
  IF x.stack # stack
  THEN LET a == Last(x.stack).ret
       IN  LayAndRun(x, text, a, [d EXCEPT !.back = [pc |-> a, stack |-> stack]])
  ELSE \E w \in Words : LayAndRun(x, text, w, d)

dostep ==
  /\ doing.phase = "dostep"
  /\ \E x \in Stepped(Here, text) :
       IF Alive /\ Op(h.pc, text) = "call" THEN stepoverjsr(x)
       ELSE IF x.h.st # "BREAKED" THEN End(x, text, "error")
       ELSE Round(x, text)
  /\ UNCHANGED sigs

Waiting == doing.phase \in {"over", "pop"} /\ h.ev # "none"

\* waitstop: procwait goes on sleeping after it has passed a signal on.
PassedOn ==
  /\ Waiting /\ H!Forwards(h)
  /\ h' = H!procwait(h, TRUE)
  /\ UNCHANGED <<stack, text, sigs, statics, doing>>

\* "timeout waiting for breakpoint": dostep sends SIGSTOP all the same.
OtherStop_AwaitsBreakpoint ==
  /\ Waiting /\ ~H!Forwards(h) /\ h.ev \notin {"trap", "exit"}
  /\ LET x == Subject(H!Killed(H!procwait(h, TRUE), "SIGSTOP"), stack)
     IN  End(x, liftbpt(x, text), "error")
  /\ UNCHANGED sigs

OtherStop_NoLift ==
  /\ Waiting /\ ~H!Forwards(h) /\ h.ev # "trap"
  /\ LET x == Subject(H!Killed(H!procwait(h, TRUE), "SIGSTOP"), stack)
     IN  End(x, text, "error")
  /\ UNCHANGED sigs

OtherStop ==
  /\ Waiting /\ ~H!Forwards(h) /\ h.ev # "trap"
  /\ LET x == Subject(H!Killed(H!procwait(h, TRUE), "SIGSTOP"), stack)
     IN  End(x, liftbpt(x, text), "error")
  /\ UNCHANGED sigs

\* Has a deeper activation than the one meant reached the breakpoint?
Deeper_OverOnly == doing.phase = "over" /\ fp(stack) > doing.jsrfp

Deeper_PopOnly == doing.phase = "pop" /\ fp(stack) # 0 /\ fp(stack) >= doing.jsrfp

Deeper ==
  \/ doing.phase = "over" /\ fp(stack) > doing.jsrfp
  \/ doing.phase = "pop" /\ fp(stack) # 0 /\ fp(stack) >= doing.jsrfp

\* Then lift, step, lay and run once more.
DeeperStop ==
  /\ Waiting /\ h.ev = "trap" /\ Deeper
  /\ LET x == Subject(H!procwait(h, TRUE), stack)
         mem == liftbpt(x, text)
     IN  \E y \in Stepped(x, mem) :
           IF y.h.st # "BREAKED" THEN End(y, mem, "error")
           ELSE LayAndRun(y, mem, trapat, doing)
  /\ UNCHANGED sigs

ThereStop ==
  /\ Waiting /\ h.ev = "trap" /\ ~Deeper
  /\ LET x == Subject(H!procwait(h, TRUE), stack)
     IN  IF doing.phase = "over" THEN Round(x, liftbpt(x, text))
                                 ELSE End(x, liftbpt(x, text), "ok")
  /\ UNCHANGED sigs

\* A command with a range to step through.
Begin(c, ph, r) ==
  doing' = [Idle EXCEPT !.phase = ph, !.cmd = c, !.range = r, !.fp0 = fp(stack),
                        !.from = [pc |-> h.pc, stack |-> stack]]

Within(r) == r[1] <= h.pc /\ h.pc < r[2]

\* Process::stmtstep(1), of a statement, and stepover, of an instruction.
stmtstep ==
  /\ Ready
  /\ \E s \in Stmts \cup {<<h.pc, h.pc + 1>>} : Within(s) /\ Begin("step", "dostep", s)
  /\ UNCHANGED <<subject, sigs, statics>>

\* Process::instrstep(1)
instrstep ==
  /\ Ready
  /\ \E x \in Stepped(Here, text) :
       End(x, text, IF x.h.st = "BREAKED" THEN "ok" ELSE "error")
  /\ UNCHANGED sigs

\* Process::stepinto, its loop (which may time out), and stepprolog of the
\* function it came to.
stepinto ==
  /\ Ready
  /\ \E s \in Stmts : Within(s) /\ Begin("into", "into", s)
  /\ UNCHANGED <<subject, sigs, statics>>

IntoStep ==
  /\ doing.phase = "into" /\ Within(doing.range)
  /\ \E x \in Stepped(Here, text) :
       \/ End(x, text, "error")
       \/ x.h.st = "BREAKED" /\ Become(x, text) /\ UNCHANGED <<doing, statics>>
  /\ UNCHANGED sigs

stepprolog_Skipped ==
  /\ doing.phase = "into" /\ ~Within(doing.range)
  /\ End(Here, text, "ok")
  /\ UNCHANGED sigs

stepprolog ==
  /\ doing.phase = "into" /\ ~Within(doing.range)
  /\ IF Alive /\ Kind[h.pc] = "enter"
     THEN /\ doing' = [doing EXCEPT !.phase = "dostep", !.range = <<h.pc, h.pc + 1>>,
                                    !.fp0 = fp(stack)]
          /\ UNCHANGED <<subject, statics>>
     ELSE End(Here, text, "ok")
  /\ UNCHANGED sigs

\* Process::pop, and popcallstack up to its wait.
popcallstack ==
  /\ Ready
  /\ IF fp(stack) = 0 THEN End(Here, text, "error")
     ELSE LayAndRun(Here, text, stack[fp(stack)].ret,
                    [Idle EXCEPT !.phase = "pop", !.cmd = "pop", !.jsrfp = fp(stack),
                                 !.from = [pc |-> h.pc, stack |-> stack]])
  /\ UNCHANGED sigs

\* Expr::evalcall and docall: a call instruction at the scratch address is
\* stepped over.
docall ==
  /\ Ready /\ Alive
  /\ Begin("eval", "dostep", <<Scratch, Scratch + 1>>)
  /\ Become(Subject([h EXCEPT !.pc = Scratch], stack), [text EXCEPT ![Scratch] = "call"])
  /\ UNCHANGED <<sigs, statics>>

Debugger == dostep \/ PassedOn \/ OtherStop \/ DeeperStop \/ ThereStop
            \/ IntoStep \/ stepprolog

Next ==
  \/ SubjectMoves \/ Signalled \/ Killed \/ Trace
  \/ stmtstep \/ instrstep \/ stepinto \/ popcallstack \/ docall
  \/ Debugger

Spec == Init /\ [][Next]_vars

\* The debugger's loops and waits go on; nothing is assumed of the subject.
FairSpec == Spec /\ WF_vars(Debugger)

-----------------------------------------------------------------------------
\* Once a command is over, or steps instructions, no temporary breakpoint and
\* no scratch code is left in the subject, however the command ended.
TextRestored ==
  doing.phase \in {"idle", "dostep", "into"} /\ Alive
  => text = [a \in Mapped |-> IF doing.cmd = "eval" /\ a = Scratch THEN "call" ELSE "own"]

\* A step over a call, once the call instruction was executed, goes on in the
\* same activation behind the call, not in another activation of it.
CallStepped ==
  [][doing.phase = "over" /\ doing.back # NoPlace /\ doing.cmd # "eval"
       /\ doing'.phase # "over" /\ (doing'.phase = "idle" => said' = "ok")
     => h'.pc = doing.back.pc /\ stack' = doing.back.stack]_vars

\* "return" that reports no error.
Returned == doing.phase = "pop" /\ doing'.phase = "idle" /\ said' = "ok"

\* It left the youngest activation at its return address, and only that one.
TopReturned ==
  /\ stack' = Front(doing.from.stack)
  /\ h'.pc = Last(doing.from.stack).ret

\* "return" from an activation that has its frame runs until that activation
\* has returned: past the returns of the deeper activations of the same
\* function, and no further.
ReturnStops ==
  [][Returned /\ doing.from.stack # <<>> /\ Last(doing.from.stack).entered => TopReturned]_vars

\* What help.pi says of "return", wherever the subject stopped: that it runs
\* "until the top activation record on the stack returns".
TopReturns == [][Returned => TopReturned]_vars

\* "step into" stops where "return" gets out of the function again: its frame
\* is made.
IntoReturns ==
  [][doing.cmd = "into" /\ doing'.phase = "idle" /\ said' = "ok"
       /\ Len(stack') > Len(doing.from.stack) /\ h'.run # "dead"
     => fp(stack') = Len(stack')]_vars

\* A debugger that waits for a subject that dies comes back to its events.
DeathNoticed == doing.phase # "idle" /\ ~Alive ~> doing.phase = "idle"
=============================================================================
