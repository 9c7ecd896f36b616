----------------------------- MODULE Calls_proofs -----------------------------
(***************************************************************************)
(* Proofs about Calls, for every program, stack and bound: type            *)
(* correctness, that a command leaves neither a temporary breakpoint nor   *)
(* scratch code in a subject that lives, however it ends, and that the     *)
(* commands end in the activations they promise, where the subject keeps   *)
(* frame pointers.                                                         *)
(***************************************************************************)
EXTENDS Calls, SequenceTheorems, WellFoundedInduction, TLAPS

-----------------------------------------------------------------------------
(* Numbers and stacks.                                                     *)

\* A bounded set of numbers has a greatest one.
LEMMA MaxIn ==
  ASSUME NEW n \in Nat, NEW S \in SUBSET (0..n), S # {}
  PROVE  Max(S) \in S /\ \A y \in S : Max(S) >= y
<1> DEFINE T == { n - x : x \in S }
           R == OpToRel(<, Nat)
<1>1. IsWellFoundedOn(R, Nat)
  BY NatLessThanWellFounded
<1>2. T \subseteq Nat
  BY SMT
<1>3. T # {}
  <2>1. PICK x \in S : TRUE
    OBVIOUS
  <2>2. n - x \in T
    OBVIOUS
  <2>3. QED
    BY <2>2
<1> HIDE DEF R
<1>4. PICK t \in T : \A y \in T : ~(<<y, t>> \in R)
  BY <1>1, <1>2, <1>3, WFMin
<1>5. \A y \in T : ~(y < t)
  BY <1>2, <1>4 DEF R, OpToRel
<1>6. PICK x \in S : t = n - x
  BY <1>4
<1>7. \A y \in S : x >= y
  BY <1>5, <1>6
<1>8. QED
  BY <1>6, <1>7 DEF Max

\* The frame pointer is the place of an activation that has a frame, or 0.
LEMMA FpType ==
  ASSUME NEW s \in Seq(Activation)
  PROVE  fp(s) \in 0..Len(s) /\ (fp(s) # 0 => fp(s) \in 1..Len(s))
<1> DEFINE S == {0} \cup { i \in 1..Len(s) : s[i].entered }
<1>1. S \in SUBSET (0..Len(s)) /\ S # {} /\ Len(s) \in Nat
  OBVIOUS
<1>2. Max(S) \in S
  BY <1>1, MaxIn
<1> HIDE DEF S
<1>3. fp(s) = Max(S)
  BY DEF fp, S
<1>4. QED
  BY <1>1, <1>2, <1>3 DEF S

LEMMA FramedType ==
  ASSUME NEW s \in Seq(Activation), NEW b \in BOOLEAN
  PROVE  Framed(s, b) \in Seq(Activation)
<1>1. CASE s = <<>>
  BY <1>1 DEF Framed
<1>2. CASE s # <<>>
  <2>1. Len(s) \in 1..Len(s)
    BY <1>2
  <2>0. s[Len(s)] \in Activation
    BY <2>1
  <2>2. [s[Len(s)] EXCEPT !.entered = b] \in Activation
    BY <2>0 DEF Activation
  <2>3. Framed(s, b) = [s EXCEPT ![Len(s)] = [s[Len(s)] EXCEPT !.entered = b]]
    BY <1>2 DEF Framed
  <2>4. QED
    BY <2>1, <2>2, <2>3
<1>3. QED
  BY <1>1, <1>2

LEMMA FrontType ==
  ASSUME NEW s \in Seq(Activation), s # <<>>
  PROVE  Front(s) \in Seq(Activation) /\ Last(s) \in Activation
BY DEF Front, Last

LEMMA FrontIs ==
  ASSUME NEW s \in Seq(Activation), s # <<>>
  PROVE  /\ Len(Front(s)) = Len(s) - 1
         /\ \A i \in 1..(Len(s) - 1) : Front(s)[i] = s[i]
<1>1. Len(s) \in Nat /\ Len(s) >= 1
  OBVIOUS
<1>2. Front(s) = SubSeq(s, 1, Len(s) - 1)
  BY DEF Front
<1>3. \A i \in 1..(Len(s) - 1) : s[i] \in Activation
  BY <1>1
<1>4. ASSUME NEW n \in Nat, n = Len(s) - 1
      PROVE  Len(SubSeq(s, 1, n)) = n /\ \A i \in 1..n : SubSeq(s, 1, n)[i] = s[i]
  <2>1. n \in Int /\ 1 \in Int /\ n - 1 + 1 = n /\ (~(1 <= n) => n = 0)
    BY <1>4
  <2>2. \A i \in 1..n : s[i] \in Activation
    BY <1>3, <1>4
  <2>3. /\ Len(SubSeq(s, 1, n)) = IF 1 <= n THEN n - 1 + 1 ELSE 0
        /\ \A i \in 1..(n - 1 + 1) : SubSeq(s, 1, n)[i] = s[1 + i - 1]
    BY <2>1, <2>2, SubSeqProperties
  <2>4. \A i \in 1..n : 1 + i - 1 = i
    OBVIOUS
  <2>5. QED
    BY <2>1, <2>3, <2>4, Zenon
<1>5. Len(s) - 1 \in Nat
  BY <1>1
<1>6. QED
  BY <1>2, <1>4, <1>5, Zenon

LEMMA FpLast ==
  ASSUME NEW s \in Seq(Activation), s # <<>>, s[Len(s)].entered
  PROVE  fp(s) = Len(s)
<1> DEFINE S == {0} \cup { i \in 1..Len(s) : s[i].entered }
<1>1. S \in SUBSET (0..Len(s)) /\ S # {} /\ Len(s) \in Nat /\ Len(s) \in S
  OBVIOUS
<1>2. Max(S) \in S /\ Max(S) >= Len(s)
  BY <1>1, MaxIn
<1> HIDE DEF S
<1>3. fp(s) = Max(S)
  BY DEF fp, S
<1>4. Max(S) \in 0..Len(s) /\ Len(s) \in Nat
  BY <1>1, <1>2
<1>5. QED
  BY <1>2, <1>3, <1>4

-----------------------------------------------------------------------------
(* The inductive invariant.                                                *)

\* The addresses at which the running activation has its frame.
Made == CHOOSE M \in SUBSET Addr : KeepsFrames(M)

\* All activations but the running one have frames, and that one has its frame
\* where the program says so; they return to places that have.
FramesKept(pc, s) ==
  \A i \in 1..Len(s) : /\ s[i].ret \in Made
                       /\ (i < Len(s) \/ pc \in Made) => s[i].entered

\* Hostfunc has learnt that the subject is dead, or will when it asks.
HostOK(g) ==
  /\ g \in H!Hosts
  /\ g.run = "dead" => g.ev = "exit" \/ (g.ev = "none" /\ g.st = "ERRORED")
  /\ g.ev = "exit" => g.run = "dead"

\* A subject that is stopped, and all of whose events were fetched.
Still(g) ==
  /\ HostOK(g)
  /\ g.run # "running" /\ g.ev \in {"none", "exit"}
  /\ g.run # "dead" => g.off = 0

\* A temporary breakpoint is laid.
Laid(d) == d.phase \in {"over", "pop"}

Bytes == {"own", "call", TRAPINST}

\* The memory without it.
Base(d) == [a \in Mapped |-> IF d.cmd = "eval" /\ a = Scratch THEN "call" ELSE "own"]

\* The stack that the user sees again when the command has ended.
ContextKept(d, x) ==
  IF d.cmd = "eval" THEN FramesKept(d.from.pc, d.from.stack)
                    ELSE FramesKept(x.h.pc, x.stack)

\* What the debugger's operators are given and return.
Sound(d, x, mem) ==
  /\ Still(x.h)
  /\ x.stack \in Seq(Activation)
  /\ mem \in [Mapped -> Bytes]
  /\ x.h.run # "dead" => mem = Base(d) /\ ContextKept(d, x)

\* The command knows where the subject must come to, and where that is.
Aimed(d) == d.phase = "pop" \/ (d.phase = "over" /\ d.back # NoPlace /\ d.cmd # "eval")

Goal(d) ==
  IF d.phase = "pop"
  THEN [pc |-> d.from.stack[d.jsrfp].ret, stack |-> SubSeq(d.from.stack, 1, d.jsrfp - 1)]
  ELSE d.back

\* jsrfp tells the goal from all deeper activations.
AimOK(d) ==
  /\ d.phase = "pop" =>
       /\ d.cmd = "pop"
       /\ d.jsrfp = fp(d.from.stack) /\ d.jsrfp \in 1..Len(d.from.stack)
  /\ Aimed(d) =>
       /\ Goal(d).pc \in Made
       /\ d.phase = "over" => d.jsrfp = Len(d.back.stack)

\* The subject is there, or in an activation that will return there, or in a
\* deeper one.
OnWay(pc, s, goal, below) ==
  \/ s = below /\ pc = goal
  \/ /\ Len(s) > Len(below)
     /\ s[Len(below) + 1].ret = goal
     /\ \A i \in 1..Len(below) : s[i] = below[i]

HostInv ==
  /\ HostOK(h)
  /\ ~Laid(doing) => Still(h)
  /\ h.run = "running" => h.ev = "none"
  /\ h.ev = "trap" => h.off = 1 /\ h.pc = trapat
  /\ h.off = 1 /\ Alive => h.ev = "trap"

TextInv ==
  Alive =>
    /\ text = IF Laid(doing) THEN [Base(doing) EXCEPT ![trapat] = TRAPINST] ELSE Base(doing)
    /\ Laid(doing) => trapsaved = Base(doing)[trapat]

PathInv ==
  /\ AimOK(doing)
  /\ doing.phase # "over" => doing.back = NoPlace
  /\ Alive => ContextKept(doing, Here)
  /\ (Alive /\ Aimed(doing)) => trapat = Goal(doing).pc /\ OnWay(h.pc, stack, Goal(doing).pc, Goal(doing).stack)

\* "step into" is in its statement, or has just called a function, or makes
\* the frame of one.
IntoInv ==
  /\ doing.cmd = "into" => doing.phase \in {"into", "dostep"}
  /\ doing.phase = "into" =>
       /\ doing.cmd = "into" /\ doing.range \in Stmts
       /\ Alive => \/ Len(stack) <= Len(doing.from.stack)
                    \/ /\ h.pc = Callee
                       /\ ~(doing.range[1] <= Callee /\ Callee < doing.range[2])
  /\ (doing.cmd = "into" /\ doing.phase = "dostep" /\ Alive) =>
       doing.range = <<h.pc, h.pc + 1>> /\ Kind[h.pc] = "enter"

IdleInv == doing.phase = "idle" => doing = Idle

IInv == TypeOK /\ HostInv /\ TextInv /\ PathInv /\ IntoInv /\ IdleInv

-----------------------------------------------------------------------------
(* The subject and Hostfunc.                                               *)


LEMMA WaitStill ==
  ASSUME NEW g, HostOK(g), g.ev # "none", ~H!Forwards(g), g.run # "running",
         g.off = 1 /\ g.run # "dead" => g.ev = "trap"
  PROVE  LET f == H!procwait(g, TRUE)
         IN  Still(f) /\ f.run = g.run /\ f.pc = g.pc
BY DEF H!procwait, H!Forwards, HostOK, Still, H!Hosts, H!UnixStates

LEMMA KilledStill ==
  ASSUME NEW g, Still(g), NEW sig
  PROVE  LET f == H!Killed(g, sig)
         IN  Still(f) /\ f.run = g.run /\ f.pc = g.pc
BY DEF H!Killed, HostOK, Still, H!Hosts, H!UnixStates

LEMMA DeadStill ==
  ASSUME NEW g, HostOK(g)
  PROVE  LET f == H!Dead(g)
         IN  Still(f) /\ f.run = "dead" /\ f.pc = g.pc
BY DEF H!Dead, HostOK, Still, H!Hosts, H!UnixStates

LEMMA RunOK ==
  ASSUME NEW g, Still(g), g.run # "dead"
  PROVE  LET f == H!run(g)
         IN  HostOK(f) /\ f.run = "running" /\ f.ev = "none" /\ f.off = 0 /\ f.pc = g.pc
BY DEF H!run, Still, HostOK, H!Hosts, H!UnixStates

\* A signal comes instead of an instruction.
LEMMA QueuedStill ==
  ASSUME NEW g, Still(g), NEW mem, g.run = "dead" \/ g.sigq \/ g.stopq
  PROVE  LET f == H!step(g, mem)
         IN  Still(f) /\ f.run = g.run /\ f.pc = g.pc /\ f.st # "BREAKED" 
<1>1. CASE g.run = "dead"
  BY <1>1 DEF H!step, H!procwait, H!Forwards, HostOK, Still, H!Hosts, H!UnixStates
<1>2. CASE g.run # "dead"
  BY <1>2 DEF H!step, HostOK, Still, H!Hosts, H!UnixStates
<1>3. QED
  BY <1>1, <1>2

LEMMA AheadOK ==
  ASSUME NEW g, HostOK(g), NEW b \in Addr
  PROVE  LET f == Ahead(g, b)
         IN  HostOK(f) /\ f.pc = b /\ f.off = 0 /\ f.run = g.run /\ f.ev = g.ev
BY DEF Ahead, HostOK, H!Hosts, H!UnixStates

-----------------------------------------------------------------------------
(* An instruction.                                                         *)

\* What an instruction of kind k at a does with the stack s.
Does(k, a, s, b, r) ==
  \/ k = "call" /\ b = Callee /\ r = Append(s, [ret |-> a + 1, entered |-> FALSE])
  \/ k = "enter" /\ b = a + 1 /\ r = Framed(s, TRUE)
  \/ k = "leave" /\ b = a + 1 /\ r = Framed(s, FALSE)
  \/ k = "ret" /\ s # <<>> /\ b = Last(s).ret /\ r = Front(s)
  \/ k = "plain" /\ b \in Succ[a] /\ r = s

LEMMA ExecutedIs ==
  ASSUME NEW x, NEW mem, NEW y \in Executed(x, mem), ~(mem[x.h.pc] = TRAPINST /\ x.h.off = 0)
  PROVE  \/ y = Subject(H!Dead(x.h), x.stack)
         \/ \E b, r : /\ Does(Op(x.h.pc, mem), x.h.pc, x.stack, b, r)
                     /\ y = Subject(Ahead(x.h, b), r)
BY DEF Executed, Does

LEMMA DoesType ==
  ASSUME NEW a \in Addr, NEW s \in Seq(Activation), NEW k, NEW b, NEW r, Does(k, a, s, b, r),
         k \in {"call", "enter", "leave"} => a + 1 \in Addr
  PROVE  b \in Addr /\ r \in Seq(Activation)
<1>1. CASE k = "call"
  <2>1. [ret |-> a + 1, entered |-> FALSE] \in Activation
    BY <1>1 DEF Activation
  <2>2. r \in Seq(Activation) /\ b = Callee
    BY <1>1, <2>1 DEF Does
  <2>3. QED
    BY <2>2, CallsAssumption
<1>2. CASE k \in {"enter", "leave"}
  BY <1>2, FramedType DEF Does
<1>3. CASE k = "ret"
  <2>1. Front(s) \in Seq(Activation) /\ Last(s) \in Activation
    BY <1>3, FrontType DEF Does
  <2>2. QED
    BY <1>3, <2>1 DEF Does, Activation
<1>4. CASE k = "plain"
  BY <1>4, CallsAssumption DEF Does
<1>5. QED
  BY <1>1, <1>2, <1>3, <1>4 DEF Does

LEMMA MadeOK == Made \subseteq Addr /\ KeepsFrames(Made)
BY FramePointers DEF Made

LEMMA FramedIs ==
  ASSUME NEW s \in Seq(Activation), s # <<>>, NEW b \in BOOLEAN
  PROVE  /\ Len(Framed(s, b)) = Len(s)
         /\ \A i \in 1..Len(s) : /\ Framed(s, b)[i].ret = s[i].ret
                                 /\ Framed(s, b)[i].entered = IF i = Len(s) THEN b ELSE s[i].entered
                                 /\ i # Len(s) => Framed(s, b)[i] = s[i]
<1>1. Len(s) \in 1..Len(s) /\ s[Len(s)] \in Activation
  OBVIOUS
<1>2. Framed(s, b) = [s EXCEPT ![Len(s)] = [s[Len(s)] EXCEPT !.entered = b]]
  BY DEF Framed
<1>3. [s[Len(s)] EXCEPT !.entered = b].ret = s[Len(s)].ret
      /\ [s[Len(s)] EXCEPT !.entered = b].entered = b
  BY <1>1 DEF Activation
<1>4. QED
  BY <1>1, <1>2, <1>3

\* An instruction of the program keeps the frames.
LEMMA DoesKeeps ==
  ASSUME NEW a \in Addr, NEW s \in Seq(Activation), NEW b, NEW r,
         Does(Kind[a], a, s, b, r), FramesKept(a, s)
  PROVE  FramesKept(b, r)
<1> USE MadeOK
<1>1. CASE Kind[a] = "call"
  <2>1. a \in Made /\ a + 1 \in Made /\ Callee \notin Made
    BY <1>1 DEF KeepsFrames
  <2>2. b = Callee /\ r = Append(s, [ret |-> a + 1, entered |-> FALSE])
    BY <1>1 DEF Does
  <2>3. ASSUME NEW i \in 1..Len(r)
        PROVE  r[i].ret \in Made /\ ((i < Len(r) \/ b \in Made) => r[i].entered)
    <3>1. CASE i = Len(s) + 1
      BY <2>1, <2>2, <3>1
    <3>2. CASE i # Len(s) + 1
      <4>1. i \in 1..Len(s) /\ r[i] = s[i]
        BY <2>2, <3>2
      <4>2. QED
        BY <2>1, <4>1 DEF FramesKept
    <3>3. QED
      BY <3>1, <3>2
  <2>4. QED
    BY <2>3 DEF FramesKept
<1>2. CASE Kind[a] \in {"enter", "leave"} /\ s # <<>>
  <2>1. PICK c \in BOOLEAN : r = Framed(s, c) /\ b = a + 1 /\ (c \/ b \notin Made)
    BY <1>2 DEF Does, KeepsFrames
  <2>2. Len(r) = Len(s)
    BY <1>2, <2>1, FramedIs, FramedType
  <2>3. ASSUME NEW i \in 1..Len(s)
        PROVE  r[i].ret \in Made /\ ((i < Len(s) \/ b \in Made) => r[i].entered)
    BY <1>2, <2>1, FramedIs DEF FramesKept
  <2>4. QED
    BY <2>2, <2>3 DEF FramesKept
<1>3. CASE Kind[a] \in {"enter", "leave"} /\ s = <<>>
  BY <1>3 DEF FramesKept, Does, Framed
<1>4. CASE Kind[a] = "ret"
  <2>1. s # <<>> /\ b = Last(s).ret /\ r = Front(s)
    BY <1>4 DEF Does
  <2>2. Len(r) = Len(s) - 1
    BY <2>1, FrontIs
  <2>3. ASSUME NEW i \in 1..Len(r)
        PROVE  r[i].ret \in Made /\ r[i].entered
    <3>1. i \in 1..Len(s) /\ i < Len(s) /\ r[i] = s[i]
      BY <2>1, <2>2, FrontIs
    <3>2. QED
      BY <3>1 DEF FramesKept
  <2>4. QED
    BY <2>3 DEF FramesKept
<1>5. CASE Kind[a] = "plain"
  BY <1>5 DEF FramesKept, Does, KeepsFrames
<1>6. QED
  BY <1>1, <1>2, <1>3, <1>4, <1>5 DEF Does

\* From an activation above the goal's, an instruction leads to one, or to the
\* goal.
LEMMA DoesOnWay ==
  ASSUME NEW s \in Seq(Activation), NEW r \in Seq(Activation), NEW below \in Seq(Activation),
         NEW goal, NEW a, NEW k, NEW b,
         OnWay(a, s, goal, below), s # below, Does(k, a, s, b, r)
  PROVE  OnWay(b, r, goal, below)
<1>1. /\ Len(below) \in Nat /\ Len(s) \in Nat /\ Len(s) > Len(below) /\ s # <<>>
      /\ s[Len(below) + 1].ret = goal
      /\ \A i \in 1..Len(below) : s[i] = below[i]
  BY DEF OnWay
<1>2. CASE k = "call"
  <2>1. \A i \in 1..Len(s) : r[i] = s[i]
    BY <1>2 DEF Does
  <2>2. Len(r) > Len(below)
    BY <1>1, <1>2 DEF Does
  <2>3. QED
    BY <1>1, <2>1, <2>2 DEF OnWay
<1>3. CASE k \in {"enter", "leave"}
  <2>1. PICK c \in BOOLEAN : r = Framed(s, c)
    BY <1>3 DEF Does
  <2>2. Len(below) + 1 \in 1..Len(s) /\ Len(r) = Len(s)
    BY <1>1, <2>1, FramedIs
  <2>3. r[Len(below) + 1].ret = s[Len(below) + 1].ret
    BY <1>1, <2>1, <2>2, FramedIs
  <2>4. \A i \in 1..Len(below) : r[i] = s[i]
    BY <1>1, <2>1, FramedIs
  <2>5. QED
    BY <1>1, <2>2, <2>3, <2>4 DEF OnWay
<1>4. CASE k = "ret"
  <2>1. b = Last(s).ret /\ r = Front(s)
    BY <1>4 DEF Does
  <2>2. Len(r) = Len(s) - 1 /\ \A i \in 1..Len(r) : r[i] = s[i]
    BY <1>1, <2>1, FrontIs
  <2>3. CASE Len(s) = Len(below) + 1
    <3>1. Len(r) = Len(below) /\ \A i \in 1..Len(below) : r[i] = below[i]
      BY <1>1, <2>2, <2>3
    <3>2. r = below
      BY <3>1, SeqEqual
    <3>3. b = goal
      BY <1>1, <2>1, <2>3 DEF Last
    <3>4. QED
      BY <3>2, <3>3 DEF OnWay
  <2>4. CASE Len(s) > Len(below) + 1
    <3>1. Len(r) > Len(below) /\ Len(below) + 1 \in 1..Len(r)
      BY <1>1, <2>2, <2>4
    <3>2. QED
      BY <1>1, <2>2, <3>1 DEF OnWay
  <2>5. QED
    BY <1>1, <2>3, <2>4
<1>5. CASE k = "plain"
  BY <1>1, <1>5 DEF Does, OnWay
<1>6. QED
  BY <1>2, <1>3, <1>4, <1>5 DEF Does

\* Where the subject has come to the goal's address, a frame pointer above the
\* goal's tells a deeper activation.
LEMMA AboveGoal ==
  ASSUME NEW s \in Seq(Activation), NEW below \in Seq(Activation), NEW pc \in Made,
         FramesKept(pc, s), OnWay(pc, s, pc, below), s # below
  PROVE  fp(s) = Len(s) /\ Len(s) > Len(below)
<1>1. Len(s) > Len(below) /\ s # <<>> /\ Len(s) \in 1..Len(s)
  BY DEF OnWay
<1>2. s[Len(s)].entered
  BY <1>1 DEF FramesKept
<1>3. QED
  BY <1>1, <1>2, FpLast

-----------------------------------------------------------------------------
(* What the debugger's operators keep.                                     *)

LEMMA BaseIs ==
  ASSUME NEW d
  PROVE  /\ Base(d) \in [Mapped -> Bytes]
         /\ \A a \in Mapped : Base(d)[a] # TRAPINST
         /\ d.cmd # "eval" => \A a \in Addr : Op(a, Base(d)) = Kind[a]
BY CallsAssumption DEF Base, Bytes, Op, Mapped

\* Nothing has happened, or the instruction that was next has been executed.
Moved(x, y, mem) ==
  \/ y.stack = x.stack /\ y.h.pc = x.h.pc /\ y.h.st # "BREAKED"
  \/ y.h.run # "dead" /\ Does(Op(x.h.pc, mem), x.h.pc, x.stack, y.h.pc, y.stack)

LEMMA OpSucc ==
  ASSUME NEW d, NEW a \in Addr
  PROVE  Op(a, Base(d)) \in {"call", "enter", "leave"} => a + 1 \in Addr
BY CallsAssumption DEF Op, Base, Mapped

LEMMA SteppedSound ==
  ASSUME NEW d, NEW x, NEW mem, Sound(d, x, mem), NEW y \in Stepped(x, mem)
  PROVE  Sound(d, y, mem) /\ Moved(x, y, mem) /\ (y.h.run # "dead" => x.h.run # "dead")
<1>0. Still(x.h) /\ HostOK(x.h) /\ x.stack \in Seq(Activation) /\ x.h \in H!Hosts /\ x.h.pc \in Addr
  BY DEF Sound, Still, HostOK, H!Hosts
<1>1. CASE x.h.run = "dead" \/ x.h.sigq \/ x.h.stopq
  <2>1. y = Subject(H!step(x.h, mem), x.stack)
    BY <1>1 DEF Stepped
  <2>2. y.h = H!step(x.h, mem) /\ y.stack = x.stack
    BY <2>1 DEF Subject
  <2>3. Still(y.h) /\ y.h.run = x.h.run /\ y.h.pc = x.h.pc /\ y.h.st # "BREAKED"
    BY <1>0, <1>1, <2>2, QueuedStill
  <2>4. QED
    BY <2>2, <2>3 DEF Sound, Moved, ContextKept
<1>2. CASE ~(x.h.run = "dead" \/ x.h.sigq \/ x.h.stopq)
  <2>0. mem = Base(d) /\ ContextKept(d, x) /\ x.h.off = 0 /\ x.h.run # "dead"
    BY <1>2 DEF Sound, Still
  <2>1. PICK z \in Executed(x, mem) :
          y = IF z.h.run = "dead" THEN Subject(H!procwait(z.h, FALSE), z.stack)
              ELSE Subject([z.h EXCEPT !.st = "BREAKED"], z.stack)
    BY <1>2 DEF Stepped
  <2>2. ~(mem[x.h.pc] = TRAPINST /\ x.h.off = 0)
    BY <1>0, <2>0, BaseIs DEF Mapped
  <2>3. CASE z = Subject(H!Dead(x.h), x.stack)
    <3>1. z.h = H!Dead(x.h) /\ z.stack = x.stack
      BY <2>3 DEF Subject
    <3>2. Still(z.h) /\ z.h.run = "dead" /\ z.h.pc = x.h.pc
      BY <1>0, <3>1, DeadStill
    <3>3. y.h = H!procwait(z.h, FALSE) /\ y.stack = x.stack
      BY <2>1, <3>1, <3>2 DEF Subject
    <3>4. H!step(z.h, mem) = H!procwait(z.h, FALSE)
      BY <3>2 DEF H!step
    <3>5. Still(y.h) /\ y.h.run = "dead" /\ y.h.pc = x.h.pc /\ y.h.st # "BREAKED"
      <4>1. LET f == H!step(z.h, mem)
            IN  Still(f) /\ f.run = z.h.run /\ f.pc = z.h.pc /\ f.st # "BREAKED"
        BY <3>2, QueuedStill
      <4>2. QED
        BY <3>2, <3>3, <3>4, <4>1
    <3>6. QED
      BY <1>0, <3>3, <3>5 DEF Sound, Moved
  <2>4. ASSUME NEW b, NEW r, Does(Op(x.h.pc, mem), x.h.pc, x.stack, b, r),
               z = Subject(Ahead(x.h, b), r)
        PROVE  Sound(d, y, mem) /\ Moved(x, y, mem)
    <3>1. b \in Addr /\ r \in Seq(Activation)
      BY <1>0, <2>0, <2>4, DoesType, OpSucc
    <3>2. z.h = Ahead(x.h, b) /\ z.stack = r
      BY <2>4 DEF Subject
    <3>3. HostOK(z.h) /\ z.h.pc = b /\ z.h.off = 0 /\ z.h.run = x.h.run /\ z.h.ev = x.h.ev
      BY <1>0, <3>1, <3>2, AheadOK
    <3>4. y.h = [z.h EXCEPT !.st = "BREAKED"] /\ y.stack = r
      BY <2>0, <2>1, <3>2, <3>3 DEF Subject
    <3>5. Still(y.h) /\ y.h.pc = b /\ y.h.run = x.h.run
      BY <1>0, <2>0, <3>3, <3>4 DEF Still, HostOK, H!Hosts, H!UnixStates
    <3>6. ContextKept(d, y)
      <4>1. CASE d.cmd = "eval"
        BY <2>0, <4>1 DEF ContextKept
      <4>2. CASE d.cmd # "eval"
        <5>1. Op(x.h.pc, mem) = Kind[x.h.pc]
          BY <1>0, <2>0, <4>2, BaseIs
        <5>2. FramesKept(x.h.pc, x.stack)
          BY <2>0, <4>2 DEF ContextKept
        <5>3. FramesKept(b, r)
          BY <1>0, <2>4, <5>1, <5>2, DoesKeeps
        <5>4. QED
          BY <3>4, <3>5, <4>2, <5>3 DEF ContextKept
      <4>3. QED
        BY <4>1, <4>2
    <3>7. Sound(d, y, mem)
      BY <2>0, <3>1, <3>4, <3>5, <3>6, BaseIs DEF Sound
    <3>8. Does(Op(x.h.pc, mem), x.h.pc, x.stack, y.h.pc, y.stack)
      BY <2>4, <3>4, <3>5, Zenon
    <3>9. y.h.run # "dead"
      BY <2>0, <3>5
    <3>10. Moved(x, y, mem)
      BY <3>8, <3>9, Zenon DEF Moved
    <3>11. QED
      BY <3>7, <3>10
  <2>5. \/ z = Subject(H!Dead(x.h), x.stack)
        \/ \E b, r : /\ Does(Op(x.h.pc, mem), x.h.pc, x.stack, b, r)
                    /\ z = Subject(Ahead(x.h, b), r)
    BY <2>2, ExecutedIs
  <2>6. QED
    BY <2>0, <2>3, <2>4, <2>5, Zenon
<1>3. QED
  BY <1>1, <1>2

-----------------------------------------------------------------------------
(* The ends of the debugger's steps.                                       *)

LEMMA StillHost ==
  ASSUME Still(h)
  PROVE  HostInv
BY DEF Still, HostOK, HostInv, Alive

\* Between commands, and while instructions are stepped.
LEMMA HereSound ==
  ASSUME IInv, ~Laid(doing)
  PROVE  Sound(doing, Here, text)
<1>1. Here.h = h /\ Here.stack = stack
  BY DEF Here, Subject
<1>2. Alive => text = Base(doing) /\ ContextKept(doing, Here)
  BY DEF IInv, TextInv, PathInv
<1>3. Still(h) /\ stack \in Seq(Activation) /\ text \in [Mapped -> Bytes]
  BY DEF IInv, HostInv, TypeOK, Bytes
<1>4. QED
  BY <1>1, <1>2, <1>3 DEF Sound, Alive

\* Where the subject has stopped with a breakpoint laid, and the breakpoint is
\* lifted.
LEMMA LiftedSound ==
  ASSUME IInv, Laid(doing), NEW x, NEW g, x = Subject(g, stack),
         Still(g), g.run = h.run, g.pc = h.pc
  PROVE  /\ Sound(doing, x, liftbpt(x, text))
         /\ x.h = g /\ x.stack = stack
<1>1. x.h = g /\ x.stack = stack
  BY DEF Subject
<1>2. stack \in Seq(Activation) /\ text \in [Mapped -> Bytes] /\ trapsaved \in Bytes /\ trapat \in Mapped
  BY DEF IInv, TypeOK, Bytes
<1>3. CASE g.run = "dead"
  <2>1. liftbpt(x, text) = text
    BY <1>1, <1>3 DEF liftbpt
  <2>2. QED
    BY <1>1, <1>2, <1>3, <2>1 DEF Sound
<1>4. CASE g.run # "dead"
  <2>1. liftbpt(x, text) = [text EXCEPT ![trapat] = trapsaved]
    BY <1>1, <1>4 DEF liftbpt
  <2>2. text = [Base(doing) EXCEPT ![trapat] = TRAPINST] /\ trapsaved = Base(doing)[trapat]
    BY <1>4 DEF IInv, TextInv, Alive
  <2>3. Base(doing) \in [Mapped -> Bytes]
    BY BaseIs
  <2>4. liftbpt(x, text) = Base(doing)
    BY <1>2, <2>1, <2>2, <2>3
  <2>5. ContextKept(doing, Here) /\ Here.h = h /\ Here.stack = stack
    BY <1>4 DEF IInv, PathInv, Alive, Here, Subject
  <2>6. ContextKept(doing, x)
    BY <1>1, <2>5 DEF ContextKept
  <2>7. QED
    BY <1>1, <1>2, <2>3, <2>4, <2>6 DEF Sound
<1>5. QED
  BY <1>3, <1>4

LEMMA IdleIs ==
  /\ Idle \in Doings /\ Idle.phase = "idle" /\ Idle.cmd = "none" /\ Idle.back = NoPlace
  /\ ~Laid(Idle) /\ ~Aimed(Idle) /\ AimOK(Idle)
  /\ Base(Idle) = [a \in Mapped |-> "own"]
<1>1. NoPlace \in Place
  BY CallsAssumption DEF NoPlace, Place
<1>2. Idle \in Doings /\ Idle.phase = "idle" /\ Idle.cmd = "none" /\ Idle.back = NoPlace
  BY <1>1 DEF Idle, Doings
<1>3. QED
  BY <1>2 DEF Laid, Aimed, AimOK, Base

LEMMA EndKeeps ==
  ASSUME TypeOK, NEW x, NEW mem, NEW result \in {"ok", "error"},
         Sound(doing, x, mem), End(x, mem, result), UNCHANGED sigs
  PROVE  IInv'
<1>1. doing' = Idle /\ said' = result /\ trapat' = trapat /\ trapsaved' = trapsaved /\ sigs' = sigs
  BY DEF End
<1>2. doing \in Doings /\ doing.from.pc \in Addr /\ doing.from.stack \in Seq(Activation)
  BY DEF TypeOK, Doings, Place
<1>3. /\ Still(h') /\ stack' \in Seq(Activation) /\ text' \in [Mapped -> Bytes]
      /\ h'.run # "dead" => text' = Base(Idle) /\ FramesKept(h'.pc, stack')
  <2>1. CASE doing.cmd = "eval" /\ x.h.run # "dead"
    <3>1. /\ h' = [x.h EXCEPT !.pc = doing.from.pc, !.off = 0]
          /\ stack' = doing.from.stack
          /\ text' = [mem EXCEPT ![Scratch] = "own"]
      BY <2>1 DEF End, Become, Subject
    <3>2. Still(h') /\ h'.run = x.h.run /\ h'.pc = doing.from.pc
      BY <1>2, <3>1 DEF Sound, Still, HostOK, H!Hosts, H!UnixStates
    <3>3. mem = Base(doing) /\ FramesKept(doing.from.pc, doing.from.stack)
      BY <2>1 DEF Sound, ContextKept
    <3>4. text' = Base(Idle) /\ text' \in [Mapped -> Bytes]
      BY <2>1, <3>1, <3>3, IdleIs DEF Base, Bytes
    <3>5. QED
      BY <1>2, <3>1, <3>2, <3>3, <3>4
  <2>2. CASE ~(doing.cmd = "eval" /\ x.h.run # "dead")
    <3>1. h' = x.h /\ stack' = x.stack /\ text' = mem
      BY <2>2 DEF End, Become
    <3>2. ASSUME x.h.run # "dead"
          PROVE  mem = Base(Idle) /\ FramesKept(x.h.pc, x.stack)
      <4>1. doing.cmd # "eval" /\ mem = Base(doing) /\ ContextKept(doing, x)
        BY <2>2, <3>2 DEF Sound
      <4>2. QED
        BY <4>1, IdleIs DEF Base, ContextKept
    <3>3. QED
      BY <3>1, <3>2 DEF Sound
  <2>3. QED
    BY <2>1, <2>2
<1>4. TypeOK'
  BY <1>1, <1>3, IdleIs DEF TypeOK, Still, HostOK, Bytes
<1>5. HostInv'
  BY <1>3 DEF Still, HostOK, HostInv, Alive
<1>6. TextInv'
  BY <1>1, <1>3, IdleIs DEF TextInv, Alive
<1>7. PathInv'
  <2>1. ~Aimed(doing') /\ AimOK(doing') /\ doing'.back = NoPlace /\ doing'.cmd # "eval"
    BY <1>1, IdleIs
  <2>2. Here'.h = h' /\ Here'.stack = stack'
    BY DEF Here, Subject
  <2>3. Alive' => ContextKept(doing', Here')
    BY <1>3, <2>1, <2>2 DEF Alive, ContextKept
  <2>4. QED
    BY <2>1, <2>3 DEF PathInv
<1>8. IntoInv' /\ IdleInv'
  BY <1>1, IdleIs DEF IntoInv, IdleInv
<1>9. QED
  BY <1>4, <1>5, <1>6, <1>7, <1>8 DEF IInv

\* A breakpoint is laid, on the way to which the subject is.
LEMMA LayKeeps ==
  ASSUME TypeOK, NEW x, NEW mem, NEW a, NEW d \in Doings,
         Sound(doing, x, mem), LayAndRun(x, mem, a, d), UNCHANGED sigs,
         Laid(d), d.cmd # "into", d.phase # "over" => d.back = NoPlace,
         x.h.run # "dead" =>
           /\ Sound(d, x, mem) /\ AimOK(d)
           /\ Aimed(d) => a = Goal(d).pc /\ OnWay(x.h.pc, x.stack, Goal(d).pc, Goal(d).stack)
  PROVE  IInv'
<1>1. CASE x.h.run = "dead" \/ a \notin Mapped
  BY <1>1, EndKeeps DEF LayAndRun
<1>2. CASE x.h.run # "dead" /\ a \in Mapped
  <2>1. /\ doing' = d /\ trapat' = a /\ trapsaved' = mem[a]
        /\ h' = H!run(x.h) /\ stack' = x.stack /\ text' = [mem EXCEPT ![a] = TRAPINST]
        /\ said' = said /\ sigs' = sigs
    BY <1>2 DEF LayAndRun, Become, Subject
  <2>2. HostOK(h') /\ h'.run = "running" /\ h'.ev = "none" /\ h'.off = 0 /\ h'.pc = x.h.pc
    BY <1>2, <2>1, RunOK DEF Sound
  <2>3. mem = Base(d) /\ mem \in [Mapped -> Bytes] /\ x.stack \in Seq(Activation) /\ ContextKept(d, x)
    BY <1>2 DEF Sound
  <2>4. text' \in [Mapped -> Bytes] /\ trapsaved' \in Bytes
    BY <1>2, <2>1, <2>3, CallsAssumption DEF Bytes
  <2>5. TypeOK'
    BY <1>2, <2>1, <2>2, <2>3, <2>4 DEF TypeOK, HostOK, Bytes
  <2>6. HostInv'
    BY <2>1, <2>2 DEF HostInv, Alive
  <2>7. TextInv'
    BY <2>1, <2>3 DEF TextInv
  <2>8. PathInv'
    <3>1. Here'.h = h' /\ Here'.stack = stack'
      BY DEF Here, Subject
    <3>2. ContextKept(doing', Here')
      BY <2>1, <2>2, <2>3, <3>1 DEF ContextKept
    <3>3. AimOK(doing') /\ (doing'.phase # "over" => doing'.back = NoPlace)
      BY <1>2, <2>1
    <3>4. Aimed(doing') => /\ trapat' = Goal(doing').pc
                           /\ OnWay(h'.pc, stack', Goal(doing').pc, Goal(doing').stack)
      BY <1>2, <2>1, <2>2
    <3>5. QED
      BY <3>2, <3>3, <3>4 DEF PathInv
  <2>9. IntoInv' /\ IdleInv'
    BY <2>1 DEF IntoInv, IdleInv, Laid
  <2>10. QED
    BY <2>5, <2>6, <2>7, <2>8, <2>9 DEF IInv
<1>3. QED
  BY <1>1, <1>2

\* Another round of dostep.
LEMMA RoundKeeps ==
  ASSUME TypeOK, NEW x, NEW mem, Sound(doing, x, mem), Round(x, mem), UNCHANGED sigs,
         doing.cmd = "into" => Left(x, mem)
  PROVE  IInv'
<1>1. CASE End(x, mem, "ok") \/ End(x, mem, "error")
  BY <1>1, EndKeeps
<1>2. CASE /\ ~Left(x, mem)
           /\ doing' = [doing EXCEPT !.phase = "dostep", !.jsrfp = 0, !.back = NoPlace]
           /\ Become(x, mem)
           /\ UNCHANGED statics
  <2>1. /\ h' = x.h /\ stack' = x.stack /\ text' = mem /\ sigs' = sigs
        /\ trapat' = trapat /\ trapsaved' = trapsaved /\ said' = said
    BY <1>2 DEF Become, statics
  <2>2. NoPlace \in Place
    BY CallsAssumption DEF NoPlace, Place
  <2>3. /\ doing' \in Doings /\ doing'.phase = "dostep" /\ doing'.back = NoPlace
        /\ doing'.cmd = doing.cmd /\ doing'.from = doing.from
    BY <1>2, <2>2 DEF TypeOK, Doings
  <2>4. TypeOK'
    BY <2>1, <2>3 DEF TypeOK, Sound, Still, HostOK, Bytes
  <2>5. HostInv'
    BY <2>1 DEF Sound, Still, HostOK, HostInv, Alive
  <2>6. TextInv'
    BY <2>1, <2>3 DEF TextInv, Alive, Sound, Laid, Base
  <2>7. PathInv'
    <3>1. Here'.h = h' /\ Here'.stack = stack'
      BY DEF Here, Subject
    <3>2. Alive' => ContextKept(doing', Here')
      BY <2>1, <2>3, <3>1 DEF ContextKept, Sound, Alive
    <3>3. ~Aimed(doing') /\ AimOK(doing')
      BY <2>3 DEF Aimed, AimOK
    <3>4. QED
      BY <2>3, <3>2, <3>3 DEF PathInv
  <2>8. IntoInv' /\ IdleInv'
    BY <1>2, <2>3 DEF IntoInv, IdleInv
  <2>9. QED
    BY <2>4, <2>5, <2>6, <2>7, <2>8 DEF IInv
<1>3. QED
  BY <1>1, <1>2 DEF Round

-----------------------------------------------------------------------------
(* The steps of the subject and of its signals.                            *)

\* The command goes on as it was, wherever the subject is.
LEMMA SameCommand ==
  ASSUME IInv, HostOK(h'), stack' \in Seq(Activation), UNCHANGED <<text, trapat, trapsaved, said, doing>>,
         sigs' \in 0..MaxSigs, HostInv',
         h'.run # "dead" => h.run # "dead",
         h'.run # "dead" /\ doing.cmd # "eval" => FramesKept(h'.pc, stack'),
         h'.run # "dead" /\ Aimed(doing) =>
           OnWay(h'.pc, stack', Goal(doing).pc, Goal(doing).stack),
         Laid(doing) \/ (stack' = stack /\ h'.pc = h.pc)
  PROVE  IInv'
<1>1. TypeOK'
  BY DEF IInv, TypeOK, HostOK
<1>2. TextInv'
  BY DEF IInv, TextInv, Alive
<1>3. PathInv'
  <2>1. Here'.h = h' /\ Here'.stack = stack' /\ Here.h = h /\ Here.stack = stack
    BY DEF Here, Subject
  <2>2. Alive' => Alive /\ ContextKept(doing', Here')
    BY <2>1 DEF IInv, PathInv, ContextKept, Alive
  <2>3. QED
    BY <2>2 DEF IInv, PathInv, Alive
<1>4. IntoInv' /\ IdleInv'
  BY DEF IInv, IntoInv, IdleInv, Alive, Laid
<1>5. QED
  BY <1>1, <1>2, <1>3, <1>4 DEF IInv

\* What the invariant says of a subject that lives.
LEMMA OnItsWay ==
  ASSUME IInv, Alive
  PROVE  /\ doing.cmd # "eval" => FramesKept(h.pc, stack)
         /\ Aimed(doing) => /\ trapat = Goal(doing).pc
                            /\ OnWay(h.pc, stack, Goal(doing).pc, Goal(doing).stack)
BY DEF IInv, PathInv, ContextKept, Here, Subject

\* The same, where the host process changes and the subject does not.
LEMMA SubjectStays ==
  ASSUME IInv, HostOK(h'), UNCHANGED <<stack, text, trapat, trapsaved, said, doing>>,
         sigs' \in 0..MaxSigs, HostInv', h'.run # "dead" => h.run # "dead" /\ h'.pc = h.pc,
         Laid(doing) \/ h'.pc = h.pc
  PROVE  IInv'
<1>1. stack' = stack /\ stack' \in Seq(Activation)
  BY DEF IInv, TypeOK
<1>2. h'.run # "dead" => Alive
  BY DEF Alive
<1>3. QED
  BY <1>1, <1>2, OnItsWay, SameCommand

LEMMA GoalIs ==
  ASSUME IInv, Aimed(doing), Alive
  PROVE  /\ Goal(doing).pc \in Made
         /\ Goal(doing).stack \in Seq(Activation)
         /\ doing.cmd # "eval"
         /\ doing.phase = "over" => doing.jsrfp = Len(Goal(doing).stack)
         /\ doing.phase = "pop" => doing.jsrfp = Len(Goal(doing).stack) + 1
<1>1. AimOK(doing) /\ doing \in Doings
  BY DEF IInv, PathInv, TypeOK
<1>2. CASE doing.phase = "pop"
  <2>1. doing.jsrfp \in 1..Len(doing.from.stack) /\ doing.from.stack \in Seq(Activation)
        /\ doing.cmd = "pop" /\ Goal(doing).pc \in Made
    BY <1>1, <1>2 DEF AimOK, Doings, Place
  <2>2. Goal(doing).stack = SubSeq(doing.from.stack, 1, doing.jsrfp - 1)
    BY <1>2 DEF Goal
  <2>3. ASSUME NEW n \in Nat, n = doing.jsrfp - 1
        PROVE  /\ SubSeq(doing.from.stack, 1, n) \in Seq(Activation)
               /\ Len(SubSeq(doing.from.stack, 1, n)) = n
    <3>1. n \in Int /\ 1 \in Int /\ n - 1 + 1 = n /\ (~(1 <= n) => n = 0)
      OBVIOUS
    <3>2. \A i \in 1..n : doing.from.stack[i] \in Activation
      BY <2>1, <2>3
    <3>3. /\ SubSeq(doing.from.stack, 1, n) \in Seq(Activation)
          /\ Len(SubSeq(doing.from.stack, 1, n)) = IF 1 <= n THEN n - 1 + 1 ELSE 0
      BY <3>1, <3>2, SubSeqProperties
    <3>4. QED
      BY <3>1, <3>3, Zenon
  <2>4. doing.jsrfp - 1 \in Nat /\ doing.jsrfp = (doing.jsrfp - 1) + 1
    BY <2>1
  <2>5. Goal(doing).stack \in Seq(Activation) /\ Len(Goal(doing).stack) = doing.jsrfp - 1
    BY <2>2, <2>3, <2>4, Zenon
  <2>6. QED
    BY <1>2, <2>1, <2>4, <2>5
<1>3. CASE doing.phase = "over"
  BY <1>1, <1>3 DEF Aimed, AimOK, Goal, Doings, Place
<1>4. QED
  BY <1>2, <1>3 DEF Aimed

LEMMA SubjectMovesKeeps ==
  ASSUME IInv, SubjectMoves
  PROVE  IInv'
<1>1. /\ h.run = "running" /\ UNCHANGED <<text, sigs, trapat, trapsaved, said, doing>>
      /\ sigs' \in 0..MaxSigs
      /\ HostOK(h) /\ h \in H!Hosts /\ h.ev = "none" /\ h.off = 0 /\ Alive /\ h.pc \in Addr
      /\ stack \in Seq(Activation)
  BY DEF SubjectMoves, statics, IInv, TypeOK, HostInv, HostOK, Alive, H!Hosts
<1>2. Laid(doing)
  BY <1>1 DEF IInv, HostInv, Still
<1>3. CASE h.sigq \/ h.stopq
  <2>1. h' \in H!SubjectMoves(h, text) /\ stack' = stack
    BY <1>3 DEF SubjectMoves
  <2>2. \/ h' = [h EXCEPT !.sigq = FALSE, !.run = "stopped", !.ev = "sig"]
        \/ h' = [h EXCEPT !.stopq = FALSE, !.run = "stopped", !.ev = "stop"]
    BY <1>1, <1>3, <2>1 DEF H!SubjectMoves
  <2>3. /\ HostOK(h') /\ h'.run = "stopped" /\ h'.pc = h.pc
        /\ h'.off = 0 /\ h'.ev \in {"sig", "stop"}
    BY <1>1, <2>2 DEF HostOK, H!Hosts
  <2>4. HostInv'
    BY <1>1, <1>2, <2>3 DEF HostInv, Alive
  <2>5. QED
    BY <1>1, <1>2, <2>1, <2>3, <2>4, SubjectStays DEF Alive
<1>4. CASE ~(h.sigq \/ h.stopq)
  <2>0. Here.h = h /\ Here.stack = stack /\ Here = Subject(h, stack)
    BY DEF Here, Subject
  <2>1. PICK y \in Executed(Here, text) :
          /\ h' = IF y.h.off = 1 /\ h.off = 0
                  THEN [y.h EXCEPT !.run = "stopped", !.ev = "trap"] ELSE y.h
          /\ stack' = y.stack
    BY <1>4, <2>0 DEF SubjectMoves
  <2>2. text = [Base(doing) EXCEPT ![trapat] = TRAPINST] /\ trapat \in Mapped /\ h.pc \in Mapped
    BY <1>1, <1>2 DEF IInv, TextInv, TypeOK, Mapped
  <2>3. CASE text[h.pc] = TRAPINST
    <3>1. h.pc = trapat
      BY <2>2, <2>3, BaseIs
    <3>2. y.h = [h EXCEPT !.off = 1] /\ y.stack = stack
      BY <1>1, <2>0, <2>3 DEF Executed, Subject
    <3>3. h' = [h EXCEPT !.off = 1, !.run = "stopped", !.ev = "trap"] /\ stack' = stack
      BY <1>1, <2>1, <3>2 DEF HostOK, H!Hosts
    <3>4. HostOK(h') /\ HostInv' /\ h'.pc = h.pc /\ h'.run = "stopped"
      BY <1>1, <1>2, <3>1, <3>3 DEF HostOK, HostInv, Alive, H!Hosts
    <3>5. QED
      BY <1>1, <1>2, <3>3, <3>4, SubjectStays DEF Alive
  <2>4. CASE text[h.pc] # TRAPINST
    <3>1. text[h.pc] = Base(doing)[h.pc] /\ h.pc # trapat
      BY <2>2, <2>4, BaseIs
    <3>2. CASE y = Subject(H!Dead(h), stack)
      <4>1. y.h = H!Dead(h) /\ y.stack = stack
        BY <3>2 DEF Subject
      <4>2. HostOK(y.h) /\ y.h.run = "dead" /\ y.h.off = 0 /\ y.h.ev = "exit"
        <5>1. H!Dead(h) = [h EXCEPT !.run = "dead", !.ev = "exit", !.stopq = FALSE, !.sigq = FALSE]
          BY <1>1 DEF H!Dead
        <5>2. ASSUME NEW f, f = [h EXCEPT !.run = "dead", !.ev = "exit",
                                          !.stopq = FALSE, !.sigq = FALSE]
              PROVE  HostOK(f) /\ f.run = "dead" /\ f.off = 0 /\ f.ev = "exit"
          BY <1>1, <5>2 DEF HostOK, H!Hosts
        <5>3. QED
          BY <4>1, <5>1, <5>2, Zenon
      <4>3. h' = y.h /\ stack' = stack
        BY <2>1, <4>1, <4>2
      <4>4. HostInv'
        BY <1>1, <1>2, <4>2, <4>3 DEF HostInv, Alive
      <4>5. QED
        BY <1>1, <1>2, <4>2, <4>3, <4>4, SubjectStays
    <3>3. ASSUME NEW b, NEW r, Does(Op(h.pc, text), h.pc, stack, b, r),
                 y = Subject(Ahead(h, b), r)
          PROVE  IInv'
      <4>1. Op(h.pc, text) = Op(h.pc, Base(doing))
        BY <3>1 DEF Op
      <4>2. b \in Addr /\ r \in Seq(Activation)
        BY <1>1, <3>3, <4>1, DoesType, OpSucc
      <4>3. y.h = Ahead(h, b) /\ y.stack = r
        BY <3>3 DEF Subject
      <4>4. HostOK(y.h) /\ y.h.pc = b /\ y.h.off = 0 /\ y.h.run = "running" /\ y.h.ev = "none"
        BY <1>1, <4>2, <4>3, AheadOK
      <4>5. h' = y.h /\ stack' = r
        BY <2>1, <4>3, <4>4
      <4>6. HostInv'
        BY <1>1, <1>2, <4>4, <4>5 DEF HostInv, Alive
      <4>7. ASSUME doing.cmd # "eval"
            PROVE  FramesKept(b, r)
        <5>1. Op(h.pc, text) = Kind[h.pc]
          BY <1>1, <4>1, <4>7, BaseIs
        <5>2. FramesKept(h.pc, stack)
          BY <1>1, <4>7, OnItsWay
        <5>3. QED
          BY <1>1, <3>3, <5>1, <5>2, DoesKeeps
      <4>8. ASSUME Aimed(doing)
            PROVE  OnWay(b, r, Goal(doing).pc, Goal(doing).stack)
        <5>1. trapat = Goal(doing).pc /\ OnWay(h.pc, stack, Goal(doing).pc, Goal(doing).stack)
          BY <1>1, <4>8, OnItsWay
        <5>2. Goal(doing).stack \in Seq(Activation)
          BY <1>1, <4>8, GoalIs
        <5>3. stack # Goal(doing).stack
          BY <1>1, <3>1, <5>1 DEF OnWay
        <5>4. QED
          BY <1>1, <3>3, <4>2, <5>1, <5>2, <5>3, DoesOnWay
      <4>9. QED
        BY <1>1, <1>2, <4>2, <4>4, <4>5, <4>6, <4>7, <4>8, SameCommand DEF Alive
    <3>4. \/ y = Subject(H!Dead(h), stack)
          \/ \E b, r : /\ Does(Op(h.pc, text), h.pc, stack, b, r)
                      /\ y = Subject(Ahead(h, b), r)
      BY <2>0, <2>4, ExecutedIs
    <3>5. QED
      BY <3>2, <3>3, <3>4, Zenon
  <2>5. QED
    BY <2>3, <2>4
<1>5. QED
  BY <1>3, <1>4

LEMMA SignalledKeeps ==
  ASSUME IInv, Signalled
  PROVE  IInv'
<1>1. PICK s \in {"sig", "SIGSTOP"} : h' = H!Killed(h, s)
  BY DEF Signalled
<1>2. /\ Alive /\ sigs' \in 0..MaxSigs
      /\ UNCHANGED <<stack, text, trapat, trapsaved, said, doing>>
  BY CallsAssumption DEF Signalled, statics, IInv, TypeOK
<1>3. HostOK(h) /\ HostInv /\ h \in H!Hosts
  BY DEF IInv, HostInv, HostOK
<1>4. HostOK(h') /\ h'.pc = h.pc /\ h'.run = h.run /\ h'.ev = h.ev /\ h'.off = h.off /\ h'.st = h.st
  BY <1>1, <1>3 DEF H!Killed, HostOK, H!Hosts
<1>5. HostInv'
  BY <1>2, <1>3, <1>4 DEF HostInv, Still, Alive
<1>6. QED
  BY <1>2, <1>4, <1>5, SubjectStays DEF Alive

LEMMA KilledKeeps ==
  ASSUME IInv, Killed
  PROVE  IInv'
<1>1. /\ Alive /\ h' = H!Dead(h) /\ sigs' \in 0..MaxSigs
      /\ UNCHANGED <<stack, text, trapat, trapsaved, said, doing>>
  BY DEF Killed, statics, IInv, TypeOK
<1>2. HostOK(h) /\ HostInv
  BY DEF IInv, HostInv
<1>3. Still(h') /\ h'.run = "dead" /\ h'.pc = h.pc
  BY <1>1, <1>2, DeadStill
<1>4. HostInv'
  BY <1>3 DEF Still, HostOK, HostInv, Alive
<1>5. QED
  BY <1>1, <1>3, <1>4, SubjectStays DEF Still

LEMMA TraceKeeps ==
  ASSUME IInv, Trace
  PROVE  IInv'
<1>1. /\ h' = [h EXCEPT !.mask = ~@] /\ sigs' \in 0..MaxSigs /\ ~Laid(doing)
      /\ UNCHANGED <<stack, text, trapat, trapsaved, said, doing>>
  BY DEF Trace, statics, IInv, TypeOK, Laid
<1>2. Still(h) /\ HostOK(h)
  BY <1>1 DEF IInv, HostInv
<1>3. Still(h') /\ HostOK(h') /\ h'.pc = h.pc /\ h'.run = h.run
  BY <1>1, <1>2 DEF Still, HostOK, H!Hosts
<1>4. HostInv'
  BY <1>3 DEF Still, HostOK, HostInv, Alive
<1>5. QED
  BY <1>1, <1>3, <1>4, SubjectStays

-----------------------------------------------------------------------------
(* The steps of the debugger.                                              *)

\* The wait of a command is over.
LEMMA WaitedSound ==
  ASSUME IInv, Waiting, ~H!Forwards(h), NEW x, x = Subject(H!procwait(h, TRUE), stack)
  PROVE  /\ Sound(doing, x, liftbpt(x, text))
         /\ x.h.run = h.run /\ x.h.pc = h.pc /\ x.stack = stack
<1>1. HostOK(h) /\ h.ev # "none" /\ h.run # "running" /\ Laid(doing)
      /\ (h.off = 1 /\ h.run # "dead" => h.ev = "trap")
  BY DEF IInv, HostInv, Waiting, Laid, Alive
<1> DEFINE g == H!procwait(h, TRUE)
<1>2. Still(g) /\ g.run = h.run /\ g.pc = h.pc
  BY <1>1, WaitStill
<1> HIDE DEF g
<1>3. x = Subject(g, stack)
  BY DEF g
<1>4. QED
  BY <1>1, <1>2, <1>3, LiftedSound

LEMMA PassedOnKeeps ==
  ASSUME IInv, PassedOn
  PROVE  IInv'
<1>1. /\ h' = H!procwait(h, TRUE) /\ H!Forwards(h) /\ Laid(doing) /\ sigs' \in 0..MaxSigs
      /\ UNCHANGED <<stack, text, trapat, trapsaved, said, doing>>
  BY DEF PassedOn, Waiting, statics, IInv, TypeOK, Laid
<1>2. HostOK(h) /\ HostInv /\ h \in H!Hosts
  BY DEF IInv, HostInv, HostOK
<1>3. h' = [h EXCEPT !.ev = "none", !.run = "running"] /\ h.ev = "sig"
  BY <1>1 DEF H!procwait, H!Forwards
<1>4. h.run # "dead" /\ h.off = 0
  BY <1>2, <1>3 DEF HostInv, HostOK, Alive, H!Hosts
<1>5. HostOK(h') /\ h'.pc = h.pc /\ h'.run = "running" /\ h'.ev = "none" /\ h'.off = 0
  BY <1>2, <1>3, <1>4 DEF HostOK, H!Hosts
<1>6. Laid(doing')
  BY <1>1
<1>7. HostInv'
  BY <1>5, <1>6 DEF HostInv, Alive
<1>8. QED
  BY <1>1, <1>4, <1>5, <1>7, SubjectStays DEF Alive

LEMMA OtherStopKeeps ==
  ASSUME IInv, OtherStop
  PROVE  IInv'
<1> DEFINE g == H!procwait(h, TRUE)
           f == H!Killed(g, "SIGSTOP")
           x == Subject(f, stack)
<1>1. Waiting /\ ~H!Forwards(h) /\ End(x, liftbpt(x, text), "error") /\ UNCHANGED sigs
  BY DEF OtherStop
<1>2. HostOK(h) /\ h.ev # "none" /\ h.run # "running" /\ Laid(doing) /\ TypeOK
      /\ (h.off = 1 /\ h.run # "dead" => h.ev = "trap")
  BY <1>1 DEF IInv, HostInv, Waiting, Laid, Alive
<1>3. Still(g) /\ g.run = h.run /\ g.pc = h.pc
  BY <1>1, <1>2, WaitStill
<1> HIDE DEF g
<1>4. Still(f) /\ f.run = h.run /\ f.pc = h.pc
  BY <1>3, KilledStill
<1> HIDE DEF f
<1>5. Sound(doing, x, liftbpt(x, text))
  BY <1>2, <1>4, LiftedSound
<1> HIDE DEF x
<1>6. QED
  BY <1>1, <1>2, <1>5, EndKeeps

LEMMA DeeperStopKeeps ==
  ASSUME IInv, DeeperStop
  PROVE  IInv'
<1> DEFINE x == Subject(H!procwait(h, TRUE), stack)
           mem == liftbpt(x, text)
<1>1. Waiting /\ h.ev = "trap" /\ Deeper /\ ~H!Forwards(h) /\ Laid(doing) /\ Alive
  BY DEF DeeperStop, H!Forwards, Waiting, Laid, IInv, HostInv, HostOK, Alive
<1>2. PICK y \in Stepped(x, mem) :
        IF y.h.st # "BREAKED" THEN End(y, mem, "error")
        ELSE LayAndRun(y, mem, trapat, doing)
  BY DEF DeeperStop
<1>3. UNCHANGED sigs /\ TypeOK /\ doing \in Doings /\ doing.cmd # "into" /\ AimOK(doing)
      /\ (doing.phase # "over" => doing.back = NoPlace) /\ stack \in Seq(Activation)
      /\ h.pc \in Addr
  BY <1>1 DEF DeeperStop, IInv, TypeOK, IntoInv, Laid, PathInv, H!Hosts
<1>4. Sound(doing, x, mem) /\ x.h.run = h.run /\ x.h.pc = h.pc /\ x.stack = stack
  BY <1>1, WaitedSound
<1> HIDE DEF x, mem
<1>5. Sound(doing, y, mem) /\ Moved(x, y, mem)
  BY <1>4, SteppedSound
<1>6. CASE y.h.st # "BREAKED"
  BY <1>2, <1>3, <1>5, <1>6, EndKeeps
<1>7. CASE y.h.st = "BREAKED"
  <2>1. LayAndRun(y, mem, trapat, doing)
    BY <1>2, <1>7
  <2>2. ASSUME Aimed(doing)
        PROVE  trapat = Goal(doing).pc /\ OnWay(y.h.pc, y.stack, Goal(doing).pc, Goal(doing).stack)
    <3>1. trapat = Goal(doing).pc /\ OnWay(h.pc, stack, Goal(doing).pc, Goal(doing).stack)
      BY <1>1, <2>2, OnItsWay
    <3>2. /\ Goal(doing).stack \in Seq(Activation)
          /\ doing.phase = "over" => doing.jsrfp = Len(Goal(doing).stack)
          /\ doing.phase = "pop" => doing.jsrfp = Len(Goal(doing).stack) + 1
      BY <1>1, <2>2, GoalIs
    <3>3. stack # Goal(doing).stack
      <4>1. fp(stack) \in 0..Len(stack) /\ Len(stack) \in Nat
        BY <1>3, FpType
      <4>2. QED
        BY <1>1, <3>2, <4>1 DEF Deeper
    <3>4. Does(Op(x.h.pc, mem), x.h.pc, x.stack, y.h.pc, y.stack)
      BY <1>5, <1>7 DEF Moved
    <3>5. y.stack \in Seq(Activation)
      BY <1>5 DEF Sound
    <3>6. QED
      BY <1>3, <1>4, <3>1, <3>2, <3>3, <3>4, <3>5, DoesOnWay
  <2>3. QED
    BY <1>1, <1>3, <1>5, <2>1, <2>2, LayKeeps
<1>8. QED
  BY <1>6, <1>7

LEMMA ThereStopKeeps ==
  ASSUME IInv, ThereStop
  PROVE  IInv'
<1> DEFINE x == Subject(H!procwait(h, TRUE), stack)
           mem == liftbpt(x, text)
<1>1. Waiting /\ ~H!Forwards(h) /\ doing.cmd # "into"
  BY DEF ThereStop, H!Forwards, Waiting, IInv, IntoInv
<1>2. /\ UNCHANGED sigs
      /\ IF doing.phase = "over" THEN Round(x, mem) ELSE End(x, mem, "ok")
  BY DEF ThereStop
<1>3. Sound(doing, x, mem) /\ TypeOK
  BY <1>1, WaitedSound DEF IInv
<1> HIDE DEF x, mem
<1>4. QED
  BY <1>1, <1>2, <1>3, RoundKeeps, EndKeeps

\* Where a command has come to its breakpoint, it has come to its goal.
LEMMA AtGoal ==
  ASSUME IInv, ThereStop, Aimed(doing)
  PROVE  h.pc = Goal(doing).pc /\ stack = Goal(doing).stack /\ Alive
<1>1. Alive /\ h.pc = trapat /\ ~Deeper
  BY DEF ThereStop, IInv, HostInv, HostOK, Alive
<1>2. /\ Goal(doing).pc \in Made
      /\ Goal(doing).stack \in Seq(Activation)
      /\ doing.cmd # "eval"
      /\ doing.phase = "over" => doing.jsrfp = Len(Goal(doing).stack)
      /\ doing.phase = "pop" => doing.jsrfp = Len(Goal(doing).stack) + 1
  BY <1>1, GoalIs
<1>3. /\ FramesKept(h.pc, stack) /\ h.pc = Goal(doing).pc
      /\ OnWay(h.pc, stack, Goal(doing).pc, Goal(doing).stack)
      /\ stack \in Seq(Activation)
  BY <1>1, <1>2, OnItsWay DEF IInv, TypeOK
<1>4. ASSUME stack # Goal(doing).stack
      PROVE  FALSE
  <2>1. fp(stack) = Len(stack) /\ Len(stack) > Len(Goal(doing).stack)
    BY <1>2, <1>3, <1>4, AboveGoal
  <2>2. Len(stack) \in Nat /\ Len(Goal(doing).stack) \in Nat
    BY <1>2, <1>3
  <2>3. QED
    BY <1>1, <1>2, <2>1, <2>2 DEF Deeper, Aimed
<1>5. QED
  BY <1>1, <1>3, <1>4

\* The calls of a compiled program are made where its frame is.
LEMMA StepOverLays ==
  ASSUME IInv, doing.phase = "dostep", Alive, Op(h.pc, text) = "call", UNCHANGED sigs,
         NEW x, Sound(doing, x, text), Moved(Here, x, text), stepoverjsr(x)
  PROVE  IInv'
<1>1. /\ stack \in Seq(Activation) /\ h.pc \in Addr /\ doing \in Doings /\ doing.back = NoPlace
      /\ TypeOK /\ text = Base(doing)
      /\ x.stack \in Seq(Activation)
  BY DEF IInv, TypeOK, PathInv, H!Hosts, TextInv, Laid, Sound
<1>2. doing.cmd # "into"
  <2>1. CASE doing.cmd = "into"
    <3>1. Kind[h.pc] = "enter"
      BY <2>1 DEF IInv, IntoInv
    <3>2. Op(h.pc, text) = Kind[h.pc]
      BY <1>1, <2>1, BaseIs
    <3>3. QED
      BY <3>1, <3>2
  <2>2. QED
    BY <2>1
<1>3. fp(stack) \in Nat
  BY <1>1, FpType
<1> DEFINE d0 == [doing EXCEPT !.phase = "over", !.jsrfp = fp(stack)]
<1>4. CASE x.stack = stack
  <2>1. PICK w \in Words : LayAndRun(x, text, w, d0)
    BY <1>4 DEF stepoverjsr
  <2>2. /\ d0 \in Doings /\ d0.phase = "over" /\ d0.cmd = doing.cmd /\ d0.from = doing.from
        /\ d0.back = NoPlace
    BY <1>1, <1>3 DEF Doings
  <2> HIDE DEF d0
  <2>3. Sound(d0, x, text) /\ ~Aimed(d0) /\ AimOK(d0) /\ Laid(d0)
    BY <2>2 DEF Sound, Base, ContextKept, Aimed, AimOK, Laid
  <2>4. QED
    BY <1>1, <1>2, <2>1, <2>2, <2>3, LayKeeps
<1>5. CASE x.stack # stack
  <2> DEFINE a == Last(x.stack).ret
             d == [d0 EXCEPT !.back = [pc |-> a, stack |-> stack]]
  <2>1. LayAndRun(x, text, a, d)
    BY <1>5 DEF stepoverjsr
  <2>2. /\ Here.h = h /\ Here.stack = stack
    BY DEF Here, Subject
  <2>3. x.h.pc = Callee /\ x.stack = Append(stack, [ret |-> h.pc + 1, entered |-> FALSE])
    BY <1>5, <2>2 DEF Moved, Does
  <2>4. h.pc + 1 \in Addr /\ [ret |-> h.pc + 1, entered |-> FALSE] \in Activation
    BY <1>1, OpSucc DEF Activation
  <2>5. /\ a = h.pc + 1 /\ Len(x.stack) = Len(stack) + 1 /\ x.stack[Len(stack) + 1].ret = a
        /\ \A i \in 1..Len(stack) : x.stack[i] = stack[i]
    BY <1>1, <2>3, <2>4 DEF Last
  <2> HIDE DEF a
  <2>6. [pc |-> a, stack |-> stack] \in Place
    BY <1>1, <2>4, <2>5 DEF Place
  <2>7. d0 \in Doings
    BY <1>1, <1>3 DEF Doings
  <2>8. /\ d \in Doings /\ d.phase = "over" /\ d.cmd = doing.cmd /\ d.from = doing.from
        /\ d.back = [pc |-> a, stack |-> stack] /\ d.jsrfp = fp(stack)
    BY <2>6, <2>7 DEF Doings
  <2> HIDE DEF d, d0
  <2>9. Sound(d, x, text) /\ Laid(d)
    BY <2>8 DEF Sound, Base, ContextKept, Laid
  <2>10. ASSUME Aimed(d)
         PROVE  /\ Goal(d).pc = a /\ Goal(d).stack = stack
                /\ a \in Made /\ fp(stack) = Len(stack)
    <3>1. doing.cmd # "eval"
      BY <2>8, <2>10 DEF Aimed
    <3>2. Kind[h.pc] = "call" /\ FramesKept(h.pc, stack)
      BY <1>1, <3>1, BaseIs, OnItsWay
    <3>3. h.pc \in Made /\ h.pc + 1 \in Made
      BY <1>1, <3>2, MadeOK DEF KeepsFrames
    <3>4. CASE stack = <<>>
      <4>1. Len(stack) = 0 /\ fp(stack) \in 0..Len(stack)
        BY <1>1, <3>4, FpType
      <4>2. fp(stack) = 0
        BY <4>1
      <4>3. QED
        BY <2>5, <2>8, <3>3, <4>1, <4>2 DEF Goal
    <3>5. CASE stack # <<>>
      <4>1. Len(stack) \in 1..Len(stack)
        BY <1>1, <3>5
      <4>2. stack[Len(stack)].entered
        BY <3>2, <3>3, <4>1 DEF FramesKept
      <4>3. fp(stack) = Len(stack)
        BY <1>1, <3>5, <4>2, FpLast
      <4>4. QED
        BY <2>5, <2>8, <3>3, <4>3 DEF Goal
    <3>6. QED
      BY <3>4, <3>5
  <2>11. AimOK(d)
    BY <2>8, <2>10 DEF AimOK
  <2>12. ASSUME Aimed(d)
         PROVE  a = Goal(d).pc /\ OnWay(x.h.pc, x.stack, Goal(d).pc, Goal(d).stack)
    BY <1>1, <2>5, <2>10, <2>12 DEF OnWay
  <2>13. QED
    BY <1>1, <1>2, <2>1, <2>8, <2>9, <2>11, <2>12, LayKeeps
<1>6. QED
  BY <1>4, <1>5

\* "step into" steps just the first instruction of the function's prolog.
LEMMA PrologLeft ==
  ASSUME IInv, doing.phase = "dostep", doing.cmd = "into", NEW x,
         Moved(Here, x, text), Sound(doing, x, text), x.h.run # "dead", Alive, x.h.st = "BREAKED"
  PROVE  Left(x, text) /\ x.stack = Framed(stack, TRUE)
<1>1. /\ doing.range = <<h.pc, h.pc + 1>> /\ Kind[h.pc] = "enter" /\ h.pc \in Addr
      /\ text = Base(doing)
  BY DEF IInv, IntoInv, TypeOK, H!Hosts, TextInv, Laid
<1>2. Here.h = h /\ Here.stack = stack
  BY DEF Here, Subject
<1>3. Op(h.pc, text) = "enter"
  BY <1>1, BaseIs
<1>4. x.h.pc = h.pc + 1 /\ x.stack = Framed(stack, TRUE)
  BY <1>2, <1>3 DEF Moved, Does
<1>5. h.pc \in Nat
  BY <1>1, CallsAssumption
<1>6. doing.range[2] = h.pc + 1
  BY <1>1
<1>7. x.h.pc >= doing.range[2]
  BY <1>4, <1>5, <1>6
<1>8. QED
  BY <1>4, <1>7 DEF Left

LEMMA BreakedLives ==
  ASSUME NEW g, Still(g), g.st = "BREAKED", NEW x, NEW mem, g = x.h, NEW z, Moved(z, x, mem)
  PROVE  g.run # "dead"
BY DEF Moved

LEMMA dostepKeeps ==
  ASSUME IInv, dostep
  PROVE  IInv'
<1>1. PICK x \in Stepped(Here, text) :
        IF Alive /\ Op(h.pc, text) = "call" THEN stepoverjsr(x)
        ELSE IF x.h.st # "BREAKED" THEN End(x, text, "error")
        ELSE Round(x, text)
  BY DEF dostep
<1>2. doing.phase = "dostep" /\ UNCHANGED sigs /\ ~Laid(doing) /\ TypeOK
  BY DEF dostep, Laid, IInv
<1>3. Sound(doing, x, text) /\ Moved(Here, x, text) /\ (x.h.run # "dead" => Here.h.run # "dead")
  BY <1>2, HereSound, SteppedSound
<1>4. CASE Alive /\ Op(h.pc, text) = "call"
  BY <1>1, <1>2, <1>3, <1>4, StepOverLays
<1>5. CASE ~(Alive /\ Op(h.pc, text) = "call") /\ x.h.st # "BREAKED"
  BY <1>1, <1>2, <1>3, <1>5, EndKeeps
<1>6. CASE ~(Alive /\ Op(h.pc, text) = "call") /\ x.h.st = "BREAKED"
  <2>1. Round(x, text)
    BY <1>1, <1>6
  <2>2. x.h.run # "dead" /\ Alive
    BY <1>3, <1>6 DEF Moved, Here, Subject, Alive
  <2>3. doing.cmd = "into" => Left(x, text)
    BY <1>2, <1>3, <1>6, <2>2, PrologLeft
  <2>4. QED
    BY <1>2, <1>3, <2>1, <2>3, RoundKeeps
<1>7. QED
  BY <1>4, <1>5, <1>6

\* A step of "step into" stays out of the calls' frames or comes to Callee.
LEMMA IntoStepKeeps ==
  ASSUME IInv, IntoStep
  PROVE  IInv'
<1>1. PICK x \in Stepped(Here, text) :
        \/ End(x, text, "error")
        \/ x.h.st = "BREAKED" /\ Become(x, text) /\ UNCHANGED <<doing, statics>>
  BY DEF IntoStep
<1>2. /\ doing.phase = "into" /\ Within(doing.range) /\ UNCHANGED sigs /\ ~Laid(doing) /\ TypeOK
      /\ doing.cmd = "into" /\ doing.range \in Stmts
  BY DEF IntoStep, Laid, IInv, IntoInv
<1>3. Sound(doing, x, text) /\ Moved(Here, x, text) /\ (x.h.run # "dead" => Here.h.run # "dead")
  BY <1>2, HereSound, SteppedSound
<1>4. CASE End(x, text, "error")
  BY <1>2, <1>3, <1>4, EndKeeps
<1>5. CASE x.h.st = "BREAKED" /\ Become(x, text) /\ UNCHANGED <<doing, statics>>
  <2>1. /\ h' = x.h /\ stack' = x.stack /\ UNCHANGED <<text, trapat, trapsaved, said, doing, sigs>>
    BY <1>2, <1>5 DEF Become, statics
  <2>2. /\ Here.h = h /\ Here.stack = stack /\ Here'.h = h' /\ Here'.stack = stack'
        /\ stack \in Seq(Activation) /\ h.pc \in Addr
    BY DEF Here, Subject, IInv, TypeOK, H!Hosts
  <2>3. /\ Still(h') /\ HostOK(h') /\ stack' \in Seq(Activation)
        /\ Does(Op(h.pc, text), h.pc, stack, h'.pc, stack')
        /\ Alive /\ Alive'
    BY <1>3, <1>5, <2>1, <2>2 DEF Sound, Still, Moved, Alive
  <2>4. TypeOK'
    BY <1>2, <2>1, <2>3 DEF TypeOK, HostOK
  <2>5. HostInv'
    BY <2>3 DEF Still, HostOK, HostInv, Alive
  <2>6. TextInv'
    BY <2>1, <2>3 DEF IInv, TextInv
  <2>7. PathInv'
    <3>1. ContextKept(doing', Here')
      BY <1>3, <2>1, <2>2, <2>3 DEF Sound, ContextKept, Alive
    <3>2. ~Aimed(doing)
      BY <1>2 DEF Aimed
    <3>3. QED
      BY <2>1, <3>1, <3>2 DEF IInv, PathInv
  <2>8. IntoInv'
    <3>1. Op(h.pc, text) = Kind[h.pc]
      BY <1>2, <2>2, <2>3, BaseIs DEF IInv, TextInv
    <3>2. doing.range[1] <= h.pc /\ h.pc < doing.range[2]
      BY <1>2 DEF Within
    <3>3. Len(stack) <= Len(doing.from.stack)
      BY <1>2, <2>3, <3>2 DEF IInv, IntoInv
    <3>4. CASE Kind[h.pc] = "call"
      <4>1. h'.pc = Callee
        BY <2>3, <3>1, <3>4 DEF Does
      <4>2. ~(doing.range[1] <= Callee /\ Callee < doing.range[2])
        BY <1>2, <2>2, <3>2, <3>4, PrologAssumption
      <4>3. QED
        BY <1>2, <2>1, <4>1, <4>2 DEF IntoInv
    <3>5. CASE Kind[h.pc] # "call"
      <4>1. Len(stack') <= Len(stack)
        <5>1. CASE stack' = stack
          BY <2>2, <5>1
        <5>2. CASE stack # <<>> /\ \E b \in BOOLEAN : stack' = Framed(stack, b)
          BY <2>2, <5>2, FramedIs
        <5>3. CASE stack # <<>> /\ stack' = Front(stack)
          <6>1. Len(stack') = Len(stack) - 1 /\ Len(stack) \in Nat
            BY <2>2, <5>3, FrontIs
          <6>2. QED
            BY <6>1
        <5>4. QED
          BY <2>3, <3>1, <3>5, <5>1, <5>2, <5>3 DEF Does, Framed
      <4>2. Len(stack) \in Nat /\ Len(stack') \in Nat /\ Len(doing.from.stack) \in Nat
        BY <2>2, <2>3 DEF IInv, TypeOK, Doings, Place
      <4>3. QED
        BY <1>2, <2>1, <3>3, <4>1, <4>2 DEF IntoInv
    <3>6. QED
      BY <3>4, <3>5
  <2>9. IdleInv'
    BY <1>2, <2>1 DEF IdleInv
  <2>10. QED
    BY <2>4, <2>5, <2>6, <2>7, <2>8, <2>9 DEF IInv
<1>6. QED
  BY <1>1, <1>4, <1>5

\* A command that begins changes nothing of the subject, nor of what the
\* debugger must restore.
LEMMA BeginKeeps ==
  ASSUME IInv, ~Laid(doing), UNCHANGED <<subject, sigs, statics>>,
         doing' \in Doings, ~Laid(doing'), doing.cmd # "eval", doing'.cmd # "eval",
         doing'.back = NoPlace, IntoInv', doing'.phase # "idle"
  PROVE  IInv'
<1>1. /\ h' = h /\ stack' = stack /\ text' = text /\ sigs' = sigs
      /\ trapat' = trapat /\ trapsaved' = trapsaved /\ said' = said
  BY DEF subject, statics
<1>2. TypeOK'
  BY <1>1 DEF IInv, TypeOK
<1>3. Still(h')
  BY <1>1 DEF IInv, HostInv
<1>4. HostInv'
  BY <1>3 DEF Still, HostOK, HostInv, Alive
<1>5. TextInv'
  BY <1>1 DEF IInv, TextInv, Base, Alive
<1>6. PathInv'
  <2>1. Here'.h = h' /\ Here'.stack = stack'
    BY DEF Here, Subject
  <2>2. Alive' => ContextKept(doing', Here')
    BY <1>1, <2>1, OnItsWay DEF ContextKept, Alive
  <2>3. ~Aimed(doing') /\ AimOK(doing')
    BY DEF Aimed, AimOK, Laid
  <2>4. QED
    BY <2>2, <2>3 DEF PathInv
<1>7. QED
  BY <1>2, <1>4, <1>5, <1>6 DEF IInv, IdleInv

LEMMA stepprologKeeps ==
  ASSUME IInv, stepprolog
  PROVE  IInv'
<1>1. /\ doing.phase = "into" /\ UNCHANGED sigs /\ ~Laid(doing) /\ TypeOK
      /\ doing.cmd = "into" /\ doing.range \in Stmts /\ doing.back = NoPlace
  BY DEF stepprolog, Laid, IInv, IntoInv, PathInv
<1>2. CASE Alive /\ Kind[h.pc] = "enter"
  <2>1. /\ doing' = [doing EXCEPT !.phase = "dostep", !.range = <<h.pc, h.pc + 1>>,
                                  !.fp0 = fp(stack)]
        /\ UNCHANGED <<subject, statics>>
    BY <1>2 DEF stepprolog
  <2>2. /\ fp(stack) \in Nat /\ doing \in Doings
        /\ h.pc \in Nat /\ <<h.pc, h.pc + 1>> \in Nat \X Nat
    <3>1. stack \in Seq(Activation) /\ doing \in Doings /\ h.pc \in Addr
      BY <1>1 DEF TypeOK, H!Hosts
    <3>2. h.pc \in Nat /\ fp(stack) \in Nat
      BY <3>1, CallsAssumption, FpType
    <3>3. QED
      BY <3>1, <3>2
  <2>3. /\ doing' \in Doings /\ doing'.phase = "dostep" /\ doing'.cmd = "into"
        /\ doing'.back = NoPlace /\ doing'.range = <<h.pc, h.pc + 1>>
    BY <1>1, <2>1, <2>2 DEF Doings
  <2>4. IntoInv'
    BY <1>2, <2>1, <2>3 DEF IntoInv, subject
  <2>5. QED
    BY <1>1, <2>1, <2>3, <2>4, BeginKeeps DEF Laid
<1>3. CASE ~(Alive /\ Kind[h.pc] = "enter")
  BY <1>1, <1>3, HereSound, EndKeeps DEF stepprolog
<1>4. QED
  BY <1>2, <1>3

LEMMA ReadyIs ==
  ASSUME IInv, Ready
  PROVE  doing = Idle /\ ~Laid(doing) /\ doing.cmd = "none" /\ Sound(doing, Here, text) /\ TypeOK
BY IdleIs, HereSound DEF Ready, IInv, IdleInv

LEMMA BeginIs ==
  ASSUME IInv, NEW c \in {"step", "into", "eval"}, NEW ph \in {"dostep", "into"},
         NEW r \in Nat \X Nat, Begin(c, ph, r)
  PROVE  /\ doing' \in Doings /\ doing'.phase = ph /\ doing'.cmd = c /\ doing'.range = r
         /\ doing'.back = NoPlace /\ ~Laid(doing')
         /\ doing'.from = [pc |-> h.pc, stack |-> stack]
<1>1. fp(stack) \in Nat /\ [pc |-> h.pc, stack |-> stack] \in Place
  BY FpType DEF IInv, TypeOK, H!Hosts, Place
<1>2. doing' = [Idle EXCEPT !.phase = ph, !.cmd = c, !.range = r, !.fp0 = fp(stack),
                        !.from = [pc |-> h.pc, stack |-> stack]]
  BY DEF Begin
<1>3. QED
  BY <1>1, <1>2, IdleIs DEF Doings, Laid

LEMMA stmtstepKeeps ==
  ASSUME IInv, stmtstep
  PROVE  IInv'
<1>1. PICK s \in Stmts \cup {<<h.pc, h.pc + 1>>} : Begin("step", "dostep", s)
  BY DEF stmtstep
<1>2. s \in Nat \X Nat
  <2>1. h.pc \in Nat
    BY CallsAssumption DEF IInv, TypeOK, H!Hosts
  <2>2. <<h.pc, h.pc + 1>> \in Nat \X Nat
    BY <2>1
  <2>3. QED
    BY <2>2, CallsAssumption
<1>3. Ready /\ UNCHANGED <<subject, sigs, statics>>
  BY DEF stmtstep
<1>4. doing' \in Doings /\ doing'.phase = "dostep" /\ doing'.cmd = "step"
      /\ doing'.back = NoPlace /\ ~Laid(doing')
  BY <1>1, <1>2, BeginIs
<1>5. IntoInv'
  BY <1>4 DEF IntoInv
<1>6. QED
  BY <1>3, <1>4, <1>5, ReadyIs, BeginKeeps

LEMMA stepintoKeeps ==
  ASSUME IInv, stepinto
  PROVE  IInv'
<1>1. PICK s \in Stmts : Begin("into", "into", s)
  BY DEF stepinto
<1>2. s \in Nat \X Nat
  BY CallsAssumption
<1>3. Ready /\ UNCHANGED <<subject, sigs, statics>>
  BY DEF stepinto
<1>4. doing' \in Doings /\ doing'.phase = "into" /\ doing'.cmd = "into" /\ doing'.range = s
      /\ doing'.back = NoPlace /\ ~Laid(doing') /\ doing'.from.stack = stack
  BY <1>1, <1>2, BeginIs
<1>5. IntoInv'
  <2>1. stack' = stack /\ Len(stack) \in Nat
    BY <1>3 DEF subject, IInv, TypeOK
  <2>2. Len(stack') <= Len(doing'.from.stack)
    BY <1>4, <2>1
  <2>3. QED
    BY <1>4, <2>2 DEF IntoInv
<1>6. QED
  BY <1>3, <1>4, <1>5, ReadyIs, BeginKeeps

LEMMA instrstepKeeps ==
  ASSUME IInv, instrstep
  PROVE  IInv'
<1>1. PICK x \in Stepped(Here, text) :
        End(x, text, IF x.h.st = "BREAKED" THEN "ok" ELSE "error")
  BY DEF instrstep
<1>2. Ready /\ UNCHANGED sigs
  BY DEF instrstep
<1>3. Sound(doing, x, text) /\ TypeOK
  BY <1>2, ReadyIs, SteppedSound
<1>4. QED
  BY <1>1, <1>2, <1>3, EndKeeps

LEMMA popcallstackKeeps ==
  ASSUME IInv, popcallstack
  PROVE  IInv'
<1>1. Ready /\ UNCHANGED sigs
  BY DEF popcallstack
<1>2. /\ doing = Idle /\ doing.cmd = "none" /\ Sound(doing, Here, text) /\ TypeOK
      /\ stack \in Seq(Activation) /\ h.pc \in Addr
  BY <1>1, ReadyIs DEF TypeOK, H!Hosts
<1>3. CASE fp(stack) = 0
  BY <1>1, <1>2, <1>3, EndKeeps DEF popcallstack
<1>4. CASE fp(stack) # 0
  <2>0. Here.h = h /\ Here.stack = stack
    BY DEF Here, Subject
  <2> DEFINE l == fp(stack)
             d == [Idle EXCEPT !.phase = "pop", !.cmd = "pop", !.jsrfp = l,
                               !.from = [pc |-> h.pc, stack |-> stack]]
  <2>1. LayAndRun(Here, text, stack[l].ret, d)
    BY <1>4 DEF popcallstack
  <2>2. l \in 1..Len(stack) /\ l \in Nat /\ Len(stack) \in Nat
    BY <1>2, <1>4, FpType
  <2> HIDE DEF l
  <2>3. [pc |-> h.pc, stack |-> stack] \in Place
    BY <1>2 DEF Place
  <2>4. /\ d \in Doings /\ d.phase = "pop" /\ d.cmd = "pop" /\ d.jsrfp = l /\ d.back = NoPlace
        /\ d.from = [pc |-> h.pc, stack |-> stack]
    BY <2>2, <2>3, IdleIs DEF Doings
  <2> HIDE DEF d
  <2>5. Laid(d) /\ Aimed(d) /\ Goal(d).pc = stack[l].ret /\ Goal(d).stack = SubSeq(stack, 1, l - 1)
    <3>1. Laid(d) /\ Aimed(d)
      BY <2>4 DEF Laid, Aimed
    <3>2. d.from.stack = stack
      BY <2>4
    <3>3. Goal(d) = [pc |-> stack[l].ret, stack |-> SubSeq(stack, 1, l - 1)]
      BY <2>4, <3>2, Zenon DEF Goal
    <3>4. ASSUME NEW p, NEW q, Goal(d) = [pc |-> p, stack |-> q]
          PROVE  Goal(d).pc = p /\ Goal(d).stack = q
      BY <3>4
    <3>5. QED
      BY <3>1, <3>3, <3>4, Zenon
  <2>6. Sound(d, Here, text)
    BY <1>2, <2>4 DEF Sound, Base, ContextKept
  <2>7. ASSUME Alive
        PROVE  AimOK(d) /\ OnWay(h.pc, stack, Goal(d).pc, Goal(d).stack)
    <3>1. FramesKept(h.pc, stack)
      BY <1>2, <2>7, OnItsWay
    <3>2. Goal(d).pc \in Made
      BY <2>2, <2>5, <3>1 DEF FramesKept
    <3>3. AimOK(d)
      <4>1. l = fp(stack)
        BY DEF l
      <4>2. QED
        BY <2>2, <2>4, <3>2, <4>1 DEF AimOK
    <3>4. ASSUME NEW n \in Nat, n = l - 1
          PROVE  OnWay(h.pc, stack, stack[l].ret, SubSeq(stack, 1, n))
      <4>1. n \in Int /\ 1 \in Int /\ n - 1 + 1 = n /\ (~(1 <= n) => n = 0)
            /\ \A i \in 1..n : 1 + i - 1 = i
        OBVIOUS
      <4>2. \A i \in 1..n : stack[i] \in Activation
        BY <1>2, <2>2, <3>4
      <4>3. /\ Len(SubSeq(stack, 1, n)) = IF 1 <= n THEN n - 1 + 1 ELSE 0
            /\ \A i \in 1..(n - 1 + 1) : SubSeq(stack, 1, n)[i] = stack[1 + i - 1]
        BY <4>1, <4>2, SubSeqProperties
      <4>4. Len(SubSeq(stack, 1, n)) = n /\ \A i \in 1..n : SubSeq(stack, 1, n)[i] = stack[i]
        BY <4>1, <4>3, Zenon
      <4>5. Len(stack) > n /\ n + 1 = l
        BY <2>2, <3>4
      <4> DEFINE below == SubSeq(stack, 1, n)
      <4>6. Len(below) = n /\ \A i \in 1..n : below[i] = stack[i]
        BY <4>4, Zenon
      <4> HIDE DEF below
      <4>7. OnWay(h.pc, stack, stack[l].ret, below)
        BY <4>5, <4>6 DEF OnWay
      <4>8. QED
        BY <4>7 DEF below
    <3>5. l - 1 \in Nat
      BY <2>2
    <3>6. OnWay(h.pc, stack, stack[l].ret, SubSeq(stack, 1, l - 1))
      BY <3>4, <3>5, Zenon
    <3>7. QED
      BY <2>5, <3>3, <3>6, Zenon
  <2>8. QED
    BY <1>1, <1>2, <2>0, <2>1, <2>4, <2>5, <2>6, <2>7, LayKeeps DEF Alive
<1>5. QED
  BY <1>3, <1>4

LEMMA docallKeeps ==
  ASSUME IInv, docall
  PROVE  IInv'
<1>1. /\ Ready /\ Alive /\ Begin("eval", "dostep", <<Scratch, Scratch + 1>>)
      /\ h' = [h EXCEPT !.pc = Scratch] /\ stack' = stack
      /\ text' = [text EXCEPT ![Scratch] = "call"]
      /\ UNCHANGED <<sigs, trapat, trapsaved, said>>
  BY DEF docall, Become, Subject, statics
<1>2. /\ Scratch \in Addr /\ Scratch \in Mapped /\ <<Scratch, Scratch + 1>> \in Nat \X Nat
  BY CallsAssumption DEF Mapped
<1>3. /\ doing' \in Doings /\ doing'.phase = "dostep" /\ doing'.cmd = "eval"
      /\ doing'.back = NoPlace /\ ~Laid(doing')
      /\ doing'.from = [pc |-> h.pc, stack |-> stack]
  BY <1>1, <1>2, BeginIs
<1>4. doing.cmd = "none" /\ ~Laid(doing) /\ Still(h) /\ text = Base(doing)
      /\ text \in [Mapped -> Bytes]
  BY <1>1, ReadyIs DEF IInv, HostInv, TextInv, TypeOK, Bytes
<1>5. Still(h') /\ HostOK(h')
  BY <1>1, <1>2, <1>4 DEF Still, HostOK, H!Hosts
<1>6. text' \in [Mapped -> Bytes] /\ text' = Base(doing')
  BY <1>1, <1>2, <1>3, <1>4 DEF Base, Bytes
<1>7. TypeOK'
  BY <1>1, <1>3, <1>5, <1>6 DEF IInv, TypeOK, HostOK, Bytes
<1>8. HostInv'
  BY <1>5 DEF Still, HostOK, HostInv, Alive
<1>9. TextInv'
  BY <1>3, <1>6 DEF TextInv
<1>10. PathInv'
  <2>1. FramesKept(h.pc, stack)
    BY <1>1, <1>4, OnItsWay
  <2>2. ContextKept(doing', Here')
    BY <1>3, <2>1 DEF ContextKept
  <2>3. ~Aimed(doing') /\ AimOK(doing')
    BY <1>3 DEF Aimed, AimOK
  <2>4. QED
    BY <1>3, <2>2, <2>3 DEF PathInv
<1>11. IntoInv' /\ IdleInv'
  BY <1>3 DEF IntoInv, IdleInv
<1>12. QED
  BY <1>7, <1>8, <1>9, <1>10, <1>11 DEF IInv

-----------------------------------------------------------------------------
(* The theorems.                                                           *)

LEMMA IInvInit == Init => IInv
<1> SUFFICES ASSUME Init PROVE IInv
  OBVIOUS
<1>1. /\ h = H!attached(Start) /\ stack = Stack0 /\ text = [a \in Mapped |-> "own"]
      /\ sigs = 0 /\ trapat = Start /\ trapsaved = "own" /\ said = "none" /\ doing = Idle
  BY DEF Init
<1>2. Still(h) /\ HostOK(h) /\ h.pc = Start
  BY <1>1, CallsAssumption DEF H!attached, Still, HostOK, H!Hosts, H!UnixStates
<1>3. TypeOK
  BY <1>1, <1>2, IdleIs, CallsAssumption, Stack0Assumption DEF TypeOK, HostOK, Mapped
<1>4. HostInv
  BY <1>2, StillHost
<1>5. TextInv
  BY <1>1, IdleIs DEF TextInv
<1>6. PathInv
  <2>1. FramesKept(Start, Stack0)
    BY MadeOK DEF KeepsFrames, FramesKept
  <2>2. ContextKept(doing, Here)
    BY <1>1, <1>2, <2>1, IdleIs DEF ContextKept, Here, Subject
  <2>3. QED
    BY <1>1, <2>2, IdleIs DEF PathInv
<1>7. IntoInv /\ IdleInv
  BY <1>1, IdleIs DEF IntoInv, IdleInv
<1>8. QED
  BY <1>3, <1>4, <1>5, <1>6, <1>7 DEF IInv

LEMMA IInvStep == IInv /\ [Next]_vars => IInv'
<1> SUFFICES ASSUME IInv, [Next]_vars PROVE IInv'
  OBVIOUS
<1>1. CASE SubjectMoves
  BY <1>1, SubjectMovesKeeps
<1>2. CASE Signalled
  BY <1>2, SignalledKeeps
<1>3. CASE Killed
  BY <1>3, KilledKeeps
<1>4. CASE Trace
  BY <1>4, TraceKeeps
<1>5. CASE stmtstep
  BY <1>5, stmtstepKeeps
<1>6. CASE instrstep
  BY <1>6, instrstepKeeps
<1>7. CASE stepinto
  BY <1>7, stepintoKeeps
<1>8. CASE popcallstack
  BY <1>8, popcallstackKeeps
<1>9. CASE docall
  BY <1>9, docallKeeps
<1>10. CASE Debugger
  BY <1>10, dostepKeeps, PassedOnKeeps, OtherStopKeeps, DeeperStopKeeps, ThereStopKeeps,
     IntoStepKeeps, stepprologKeeps DEF Debugger
<1>11. CASE UNCHANGED vars
  <2>1. h' = h /\ stack' = stack /\ text' = text /\ sigs' = sigs /\ trapat' = trapat
        /\ trapsaved' = trapsaved /\ said' = said /\ doing' = doing
    BY <1>11 DEF vars, subject, statics
  <2>2. TypeOK' /\ HostInv' /\ TextInv' /\ IntoInv' /\ IdleInv'
    BY <2>1 DEF IInv, TypeOK, HostInv, TextInv, IntoInv, IdleInv, Alive
  <2>3. PathInv'
    BY <2>1 DEF IInv, PathInv, Alive, Here
  <2>4. QED
    BY <2>2, <2>3 DEF IInv
<1>12. QED
  BY <1>1, <1>2, <1>3, <1>4, <1>5, <1>6, <1>7, <1>8, <1>9, <1>10, <1>11 DEF Next

THEOREM Inductive == Spec => []IInv
BY IInvInit, IInvStep, PTL DEF Spec

\* TypeOK: every variable, the local ones of the commands included, keeps to
\* its type.
THEOREM TypeCorrect == Spec => []TypeOK
<1>1. IInv => TypeOK
  BY DEF IInv
<1>2. QED
  BY <1>1, Inductive, PTL

\* After pushl %ebp; movl %esp,%ebp the running activation has the youngest
\* frame.
LEMMA FramedFp ==
  ASSUME NEW s \in Seq(Activation), s # <<>>
  PROVE  fp(Framed(s, TRUE)) = Len(Framed(s, TRUE))
<1> DEFINE r == Framed(s, TRUE)
<1>1. r \in Seq(Activation)
  BY FramedType
<1>2. Len(s) \in 1..Len(s) /\ s[Len(s)] \in Activation
  OBVIOUS
<1>3. r = [s EXCEPT ![Len(s)] = [s[Len(s)] EXCEPT !.entered = TRUE]]
  BY DEF Framed
<1>4. [s[Len(s)] EXCEPT !.entered = TRUE].entered
  BY <1>2 DEF Activation
<1> HIDE DEF r
<1>5. Len(r) = Len(s) /\ r[Len(s)].entered
  BY <1>2, <1>3, <1>4
<1>6. r # <<>>
  BY <1>2, <1>5
<1>7. fp(r) = Len(r)
  BY <1>1, <1>5, <1>6, FpLast
<1>8. QED
  BY <1>7 DEF r

\* TextRestored: however a command ends, with the breakpoint reached, a signal,
\* a failed step, the death of the subject or a time out, neither a temporary
\* breakpoint nor docall's scratch code is left in the text of a live subject.
THEOREM TextIsRestored == Spec => []TextRestored
<1>1. IInv => TextRestored
  BY DEF IInv, TextInv, TextRestored, Laid, Base
<1>2. QED
  BY <1>1, Inductive, PTL

\* Only ThereStop ends a wait with success.
LEMMA WaitEnds ==
  ASSUME IInv, [Next]_vars, Laid(doing), doing'.phase # doing.phase,
         doing'.phase = "idle" => said' = "ok"
  PROVE  ThereStop
<1>1. doing.phase # "idle" /\ doing' # doing
  BY DEF Laid
<1>2. ASSUME NEW x, NEW mem, End(x, mem, "error")
      PROVE  FALSE
  BY <1>2, IdleIs DEF End
<1>3. ~SubjectMoves /\ ~Signalled /\ ~Killed /\ ~Trace /\ ~PassedOn /\ ~UNCHANGED vars
  BY <1>1 DEF SubjectMoves, Signalled, Killed, Trace, PassedOn, vars
<1>4. ~stmtstep /\ ~instrstep /\ ~stepinto /\ ~popcallstack /\ ~docall
  BY <1>1 DEF stmtstep, instrstep, stepinto, popcallstack, docall, Ready
<1>5. ~dostep /\ ~IntoStep /\ ~stepprolog
  BY DEF dostep, IntoStep, stepprolog, Laid
<1>6. ~OtherStop
  BY <1>2 DEF OtherStop
<1>7. ~DeeperStop
  <2>1. ASSUME NEW y, NEW mem, LayAndRun(y, mem, trapat, doing)
        PROVE  FALSE
    BY <1>1, <1>2, <2>1 DEF LayAndRun
  <2>2. QED
    BY <1>2, <2>1 DEF DeeperStop
<1>8. QED
  BY <1>3, <1>4, <1>5, <1>6, <1>7 DEF Next, Debugger

\* CallStepped: stepoverjsr that goes on is behind the call, in the activation
\* that made it, however often the function called itself in between.
THEOREM CallIsStepped == Spec => CallStepped
<1> DEFINE A == doing.phase = "over" /\ doing.back # NoPlace /\ doing.cmd # "eval"
                /\ doing'.phase # "over" /\ (doing'.phase = "idle" => said' = "ok")
                => h'.pc = doing.back.pc /\ stack' = doing.back.stack
<1>1. IInv /\ [Next]_vars => A
  <2> SUFFICES ASSUME IInv, [Next]_vars,
                      doing.phase = "over", doing.back # NoPlace, doing.cmd # "eval",
                      doing'.phase # "over", doing'.phase = "idle" => said' = "ok"
               PROVE  h'.pc = doing.back.pc /\ stack' = doing.back.stack
    OBVIOUS
  <2>1. ThereStop
    BY WaitEnds DEF Laid
  <2>2. h.pc = doing.back.pc /\ stack = doing.back.stack
    BY <2>1, AtGoal DEF Aimed, Goal
  <2> DEFINE x == Subject(H!procwait(h, TRUE), stack)
  <2>3. Waiting /\ ~H!Forwards(h) /\ Round(x, liftbpt(x, text))
    BY <2>1 DEF ThereStop, H!Forwards
  <2>4. x.h.pc = h.pc /\ x.stack = stack
    BY <2>3, WaitedSound
  <2> HIDE DEF x
  <2>5. h' = x.h /\ stack' = x.stack
    BY <2>3 DEF Round, End, Become
  <2>6. QED
    BY <2>2, <2>4, <2>5
<1>2. QED
  BY <1>1, Inductive, PTL DEF Spec, CallStepped

\* ReturnStops: popcallstack that reports no error, and was called where the
\* youngest activation had its frame, has left that activation and no other,
\* at its return address.
THEOREM ReturnsStop == Spec => ReturnStops
<1> DEFINE A == Returned /\ doing.from.stack # <<>> /\ Last(doing.from.stack).entered
                => TopReturned
           l == fp(doing.from.stack)
<1>1. IInv /\ [Next]_vars => A
  <2> SUFFICES ASSUME IInv, [Next]_vars, doing.phase = "pop", doing'.phase = "idle", said' = "ok",
                      doing.from.stack # <<>>, Last(doing.from.stack).entered
               PROVE  TopReturned
    BY DEF Returned
  <2>1. ThereStop
    BY WaitEnds DEF Laid
  <2>2. doing.jsrfp = l /\ doing.cmd = "pop"
    BY DEF IInv, PathInv, AimOK
  <2>3. h.pc = Goal(doing).pc /\ stack = Goal(doing).stack
    BY <2>1, AtGoal DEF Aimed
  <2> DEFINE x == Subject(H!procwait(h, TRUE), stack)
  <2>4. Waiting /\ ~H!Forwards(h) /\ End(x, liftbpt(x, text), "ok")
    BY <2>1 DEF ThereStop, H!Forwards
  <2>5. x.h.pc = h.pc /\ x.stack = stack
    BY <2>4, WaitedSound
  <2> HIDE DEF x
  <2>6. h' = x.h /\ stack' = x.stack
    BY <2>2, <2>4 DEF End, Become
  <2>7. Goal(doing) = [pc |-> doing.from.stack[l].ret, stack |-> SubSeq(doing.from.stack, 1, l - 1)]
    BY <2>2, Zenon DEF Goal
  <2>8. ASSUME NEW p, NEW q, Goal(doing) = [pc |-> p, stack |-> q]
        PROVE  h'.pc = p /\ stack' = q
    BY <2>3, <2>5, <2>6, <2>8
  <2>9. h'.pc = doing.from.stack[l].ret /\ stack' = SubSeq(doing.from.stack, 1, l - 1)
    BY <2>7, <2>8, Zenon
  <2>10. l = Len(doing.from.stack)
    <3>1. doing.from.stack \in Seq(Activation)
      BY DEF IInv, TypeOK, Doings, Place
    <3>2. QED
      BY <3>1, FpLast, Zenon DEF Last
  <2>11. Front(doing.from.stack) = SubSeq(doing.from.stack, 1, l - 1)
    BY <2>10, Zenon DEF Front
  <2>12. Last(doing.from.stack) = doing.from.stack[l]
    BY <2>10, Zenon DEF Last
  <2>13. QED
    BY <2>9, <2>11, <2>12, Zenon DEF TopReturned
<1>2. QED
  BY <1>1, Inductive, PTL DEF Spec, ReturnStops

\* IntoReturns: "step into" that reports no error in a called function leaves
\* it with its frame made, so that "return" gets out of it again.
THEOREM IntoReturnsAgain == Spec => IntoReturns
<1> DEFINE A == doing.cmd = "into" /\ doing'.phase = "idle" /\ said' = "ok"
                /\ Len(stack') > Len(doing.from.stack) /\ h'.run # "dead"
                => fp(stack') = Len(stack')
<1>1. IInv /\ [Next]_vars => A
  <2> SUFFICES ASSUME IInv, [Next]_vars, doing.cmd = "into", doing'.phase = "idle", said' = "ok",
                      Len(stack') > Len(doing.from.stack), h'.run # "dead"
               PROVE  fp(stack') = Len(stack')
    OBVIOUS
  <2>1. doing.phase \in {"into", "dostep"} /\ doing' # doing /\ ~Laid(doing)
        /\ stack \in Seq(Activation) /\ doing.from.stack \in Seq(Activation) /\ doing \in Doings
    BY DEF IInv, IntoInv, Laid, TypeOK, Doings, Place
  <2>2. ASSUME NEW x, NEW mem, NEW r, End(x, mem, r)
        PROVE  r = "ok" /\ h' = x.h /\ stack' = x.stack
    BY <2>2 DEF End, Become
  <2>3. CASE dostep
    <3>1. PICK x \in Stepped(Here, text) :
            IF Alive /\ Op(h.pc, text) = "call" THEN stepoverjsr(x)
            ELSE IF x.h.st # "BREAKED" THEN End(x, text, "error")
            ELSE Round(x, text)
      BY <2>3 DEF dostep
    <3>2. Sound(doing, x, text) /\ Moved(Here, x, text) /\ (x.h.run # "dead" => Here.h.run # "dead")
      BY <2>1, HereSound, SteppedSound
    <3>3. doing.phase = "dostep"
      BY <2>3 DEF dostep
    <3>4. ~(Alive /\ Op(h.pc, text) = "call")
      <4>1. ASSUME Alive PROVE Op(h.pc, text) = "enter"
        <5>1. Kind[h.pc] = "enter" /\ text = Base(doing) /\ h.pc \in Addr
          BY <2>1, <3>3, <4>1 DEF IInv, IntoInv, TextInv, TypeOK, H!Hosts
        <5>2. QED
          BY <5>1, BaseIs
      <4>2. QED
        BY <4>1
    <3>5. x.h.st = "BREAKED" /\ Round(x, text)
      BY <2>2, <3>1, <3>4
    <3>6. h' = x.h /\ stack' = x.stack
      <4>1. End(x, text, "ok") \/ End(x, text, "error")
        BY <2>1, <3>5 DEF Round, Doings
      <4>2. QED
        BY <2>2, <4>1, Zenon
    <3>7. Alive
      BY <3>2, <3>6 DEF Here, Subject, Alive
    <3>8. stack' = Framed(stack, TRUE)
      BY <3>2, <3>3, <3>5, <3>6, <3>7, PrologLeft
    <3>9. stack # <<>>
      BY <2>1, <3>8 DEF Framed
    <3>10. fp(stack') = Len(stack')
      BY <2>1, <3>8, <3>9, FramedFp, Zenon
    <3>11. QED
      BY <3>10
  <2>4. CASE IntoStep
    <3>1. PICK x : End(x, text, "error") \/ doing' = doing
      BY <2>4 DEF IntoStep
    <3>2. QED
      BY <2>1, <2>2, <3>1
  <2>5. CASE stepprolog
    <3>1. doing.phase = "into" /\ ~Within(doing.range)
      BY <2>5 DEF stepprolog
    <3>2. ~(Alive /\ Kind[h.pc] = "enter") /\ End(Here, text, "ok")
      <4>1. ASSUME Alive /\ Kind[h.pc] = "enter"
            PROVE  doing'.phase = "dostep"
        BY <2>5, <4>1 DEF stepprolog, IInv, TypeOK, Doings
      <4>2. QED
        BY <2>5, <4>1 DEF stepprolog
    <3>3. h' = h /\ stack' = stack
      BY <2>2, <3>2 DEF Here, Subject
    <3>4. Alive /\ ~(Len(stack) <= Len(doing.from.stack))
      BY <2>1, <3>3 DEF Alive
    <3>5. h.pc = Callee
      BY <3>1, <3>4 DEF IInv, IntoInv
    <3>6. QED
      BY <3>2, <3>4, <3>5, PrologAssumption
  <2>6. CASE OtherStop \/ DeeperStop \/ ThereStop \/ PassedOn
    BY <2>1, <2>6 DEF OtherStop, DeeperStop, ThereStop, PassedOn, Waiting
  <2>7. ~SubjectMoves /\ ~Signalled /\ ~Killed /\ ~Trace /\ ~UNCHANGED vars
    BY <2>1 DEF SubjectMoves, Signalled, Killed, Trace, vars
  <2>8. ~stmtstep /\ ~instrstep /\ ~stepinto /\ ~popcallstack /\ ~docall
    BY <2>1 DEF stmtstep, instrstep, stepinto, popcallstack, docall, Ready
  <2>9. QED
    BY <2>3, <2>4, <2>5, <2>6, <2>7, <2>8 DEF Next, Debugger
<1>2. QED
  BY <1>1, Inductive, PTL DEF Spec, IntoReturns
=============================================================================
