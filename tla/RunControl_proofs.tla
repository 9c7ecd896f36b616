-------------------------- MODULE RunControl_proofs --------------------------
(***************************************************************************)
(* Proofs about RunControl, for every program, list of breakpoints and     *)
(* bound: type correctness, that the subject's text is its program plus    *)
(* the traps of the list exactly while they are laid, and that the subject *)
(* of a window that was closed has its own text again; then that a subject *)
(* the debugger has to come back to is polled, that a status line nothing  *)
(* is about to change is true, and that a patient user's subject executes  *)
(* every instruction and is let go clean.                                  *)
(***************************************************************************)
EXTENDS RunControl, TLAPS

-----------------------------------------------------------------------------
(* The subject and Hostfunc: what every operator of Inferior keeps.        *)

\* A dead subject has no event but its exit, and Hostfunc believes only dead
\* ones dead.
HostOK(h) ==
  /\ h \in H!Hosts
  /\ h.run = "dead" => h.ev \in {"none", "exit"}
  /\ h.ev = "exit" => h.run = "dead"
  /\ h.st = "ERRORED" => h.run = "dead"

\* g comes after h: no subject comes to life.
After(g, h) == HostOK(g) /\ (h.run = "dead" => g.run = "dead")

\* procwait, with and without the correction of the program counter.
LEMMA ProcwaitOK ==
  ASSUME NEW h, HostOK(h), NEW pcfix \in BOOLEAN
  PROVE  After(H!procwait(h, pcfix), h)
BY DEF H!procwait, H!Forwards, HostOK, After, H!Hosts, H!UnixStates

LEMMA GetstateOK ==
  ASSUME NEW h, HostOK(h)
  PROVE  After(H!getstate(h), h)
BY ProcwaitOK DEF H!getstate, After

LEMMA KilledOK ==
  ASSUME NEW h, HostOK(h), NEW sig
  PROVE  After(H!Killed(h, sig), h)
BY DEF H!Killed, HostOK, After, H!Hosts, H!UnixStates

LEMMA DeadOK ==
  ASSUME NEW h, HostOK(h)
  PROVE  After(H!Dead(h), h) /\ H!Dead(h).run = "dead"
BY DEF H!Dead, HostOK, After, H!Hosts, H!UnixStates

LEMMA ToEventOK ==
  ASSUME NEW h, HostOK(h)
  PROVE  After(H!ToEvent(h), h)
<1>1. CASE h.ev # "none" \/ h.run = "dead"
  BY <1>1 DEF H!ToEvent, After
<1>2. CASE h.ev = "none" /\ h.run # "dead"
  <2>1. H!ToEvent(h) \in {[h EXCEPT !.sigq = FALSE, !.run = "stopped", !.ev = "sig"],
                          [h EXCEPT !.stopq = FALSE, !.run = "stopped", !.ev = "stop"]}
    BY <1>2 DEF H!ToEvent
  <2>2. QED
    BY <1>2, <2>1 DEF After, HostOK, H!Hosts, H!UnixStates
<1>3. QED
  BY <1>1, <1>2

LEMMA StopAndWaitOK ==
  ASSUME NEW h, HostOK(h)
  PROVE  After(H!stopAndWait(h), h)
<1> DEFINE e == H!ToEvent(H!Killed(h, "SIGSTOP"))
           w == H!procwait(e, TRUE)
<1>1. After(e, h)
  <2>1. After(H!Killed(h, "SIGSTOP"), h)
    BY KilledOK
  <2>2. After(e, H!Killed(h, "SIGSTOP"))
    BY <2>1, ToEventOK DEF After
  <2>3. QED
    BY <2>1, <2>2 DEF After
<1>2. After(w, h)
  BY <1>1, ProcwaitOK DEF After
<1>3. After(H!ToEvent(w), h)
  BY <1>2, ToEventOK DEF After
<1>4. After(H!procwait(H!ToEvent(w), TRUE), h)
  BY <1>3, ProcwaitOK DEF After
<1>5. QED
  BY <1>2, <1>4 DEF H!stopAndWait

\* What leaves an ACTIVE subject ACTIVE.
LEMMA StillActive ==
  ASSUME NEW h, HostOK(h), h.st = "ACTIVE"
  PROVE  /\ H!Killed(h, "SIGSTOP").st = "ACTIVE"
         /\ H!ToEvent(h).st = "ACTIVE"
         /\ H!Forwards(h) => H!procwait(h, TRUE).st = "ACTIVE"
<1>1. H!Killed(h, "SIGSTOP").st = "ACTIVE"
  BY DEF H!Killed, HostOK, H!Hosts
<1>2. H!ToEvent(h).st = "ACTIVE"
  BY DEF H!ToEvent, HostOK, H!Hosts
<1>3. H!Forwards(h) => H!procwait(h, TRUE).st = "ACTIVE"
  BY DEF H!procwait, H!Forwards, HostOK, H!Hosts
<1>4. QED
  BY <1>1, <1>2, <1>3

\* procwait takes an ACTIVE subject for HALTED when it fetched a stop.
LEMMA Halted ==
  ASSUME NEW h, HostOK(h), h.st = "ACTIVE", H!procwait(h, TRUE).st = "HALTED"
  PROVE  h.ev = "stop" /\ H!procwait(h, TRUE).ev = "none"
BY DEF H!procwait, H!Forwards, HostOK, H!Hosts, H!UnixStates

\* What Hostfunc takes for HALTED is not dead: it was just stopped.
LEMMA HaltedAlive ==
  ASSUME NEW h, HostOK(h), h.st = "ACTIVE", H!stopAndWait(h).st = "HALTED"
  PROVE  h.run # "dead" /\ H!stopAndWait(h).ev = "none"
<1> DEFINE e == H!ToEvent(H!Killed(h, "SIGSTOP"))
           f == H!ToEvent(H!procwait(e, TRUE))
<1>1. HostOK(H!Killed(h, "SIGSTOP")) /\ H!Killed(h, "SIGSTOP").st = "ACTIVE"
  BY KilledOK, StillActive DEF After
<1>2. HostOK(e) /\ e.st = "ACTIVE" /\ (h.run = "dead" => e = h)
  <2>1. HostOK(e) /\ e.st = "ACTIVE"
    BY <1>1, ToEventOK, StillActive DEF After
  <2>2. h.run = "dead" => e = h
    BY DEF H!ToEvent, H!Killed
  <2>3. QED
    BY <2>1, <2>2
<1> HIDE DEF e
<1>3. CASE ~H!Forwards(e)
  <2>1. H!stopAndWait(h) = H!procwait(e, TRUE)
    BY <1>3 DEF H!stopAndWait, e
  <2>2. QED
    BY <1>2, <2>1, Halted DEF HostOK
<1>4. CASE H!Forwards(e)
  <2>1. H!stopAndWait(h) = H!procwait(f, TRUE)
    BY <1>4 DEF H!stopAndWait, e
  <2>2. HostOK(H!procwait(e, TRUE)) /\ H!procwait(e, TRUE).st = "ACTIVE"
    BY <1>2, <1>4, ProcwaitOK, StillActive DEF After
  <2>3. HostOK(f) /\ f.st = "ACTIVE"
    BY <2>2, ToEventOK, StillActive DEF After
  <2>4. h.run # "dead"
    BY <1>2, <1>4 DEF H!Forwards, HostOK
  <2> HIDE DEF f
  <2>5. QED
    BY <2>1, <2>3, <2>4, Halted
<1>5. QED
  BY <1>3, <1>4

LEMMA ReadwriteOK ==
  ASSUME NEW h, HostOK(h)
  PROVE  After(H!readwrite(h), h)
<1>1. CASE h.st # "ACTIVE"
  BY <1>1 DEF H!readwrite, After
<1>2. CASE h.st = "ACTIVE"
  <2> DEFINE w == H!stopAndWait(h)
  <2>1. After(w, h)
    BY StopAndWaitOK
  <2>2. w.st = "HALTED" => h.run # "dead" /\ w.ev = "none"
    BY <1>2, HaltedAlive
  <2> HIDE DEF w
  <2>3. CASE w.st = "HALTED"
    <3>1. H!readwrite(h) = [w EXCEPT !.st = "ACTIVE", !.run = "running"]
      BY <1>2, <2>3 DEF H!readwrite, w
    <3>2. QED
      BY <2>1, <2>2, <2>3, <3>1 DEF After, HostOK, H!Hosts, H!UnixStates
  <2>4. CASE w.st # "HALTED"
    <3>1. H!readwrite(h) \in {w, [w EXCEPT !.sigq = FALSE], [w EXCEPT !.stopq = FALSE]}
      BY <1>2, <2>4 DEF H!readwrite, w
    <3>2. QED
      BY <2>1, <3>1 DEF After, HostOK, H!Hosts, H!UnixStates
  <2>5. QED
    BY <2>3, <2>4
<1>3. QED
  BY <1>1, <1>2

\* One instruction.
LEMMA ExecutedOK ==
  ASSUME NEW h, HostOK(h), NEW mem
  PROVE  /\ After(H!Executed(h, mem), h)
         /\ H!Executed(h, mem).ev = h.ev /\ H!Executed(h, mem).run = h.run
BY RunControlAssumption DEF H!Executed, After, HostOK, H!Hosts, H!UnixStates

LEMMA SubjectMovesOK ==
  ASSUME NEW h, HostOK(h), NEW mem, NEW g \in H!SubjectMoves(h, mem)
  PROVE  After(g, h) /\ h.run # "dead"
<1>1. h.run = "running"
  BY DEF H!SubjectMoves
<1>2. CASE g \in {[h EXCEPT !.sigq = FALSE, !.run = "stopped", !.ev = "sig"],
                  [h EXCEPT !.stopq = FALSE, !.run = "stopped", !.ev = "stop"]}
  BY <1>1, <1>2 DEF After, HostOK, H!Hosts, H!UnixStates
<1>3. CASE g \in {[H!Executed(h, mem) EXCEPT !.run = "stopped", !.ev = "trap"],
                  H!Executed(h, mem)}
  <2> DEFINE e == H!Executed(h, mem)
  <2>1. HostOK(e) /\ e.run = h.run
    BY ExecutedOK DEF After
  <2>2. g \in {[e EXCEPT !.run = "stopped", !.ev = "trap"], e}
    BY <1>3
  <2> HIDE DEF e
  <2>3. QED
    BY <1>1, <2>1, <2>2 DEF After, HostOK, H!Hosts, H!UnixStates
<1>4. QED
  BY <1>1, <1>2, <1>3 DEF H!SubjectMoves

LEMMA StepOK ==
  ASSUME NEW h, HostOK(h), NEW mem
  PROVE  After(H!step(h, mem), h)
<1>1. CASE h.run = "dead"
  BY <1>1, ProcwaitOK DEF H!step
<1>2. CASE h.run # "dead"
  <2>1. H!step(h, mem) \in {[h EXCEPT !.sigq = FALSE, !.st = "PENDING"],
                            [h EXCEPT !.stopq = FALSE, !.st = "HALTED"],
                            [H!Executed(h, mem) EXCEPT !.st = "BREAKED"]}
    BY <1>2 DEF H!step
  <2> DEFINE e == H!Executed(h, mem)
  <2>2. HostOK(e) /\ e.run = h.run
    BY ExecutedOK DEF After
  <2> HIDE DEF e
  <2>3. CASE H!step(h, mem) = [e EXCEPT !.st = "BREAKED"]
    BY <1>2, <2>2, <2>3 DEF After, HostOK, H!Hosts, H!UnixStates
  <2>4. CASE H!step(h, mem) \in {[h EXCEPT !.sigq = FALSE, !.st = "PENDING"],
                                 [h EXCEPT !.stopq = FALSE, !.st = "HALTED"]}
    BY <1>2, <2>4 DEF After, HostOK, H!Hosts, H!UnixStates
  <2>5. QED
    BY <2>1, <2>3, <2>4 DEF e
<1>3. QED
  BY <1>1, <1>2

LEMMA RunOK ==
  ASSUME NEW h, HostOK(h)
  PROVE  After(H!run(h), h)
BY DEF H!run, After, HostOK, H!Hosts, H!UnixStates

LEMMA DestroyOK ==
  ASSUME NEW h, HostOK(h)
  PROVE  After(H!destroy(h), h)
<1>1. CASE h.st = "ERRORED"
  BY <1>1 DEF H!destroy, After
<1>2. CASE h.st # "ERRORED"
  <2> DEFINE w == IF h.st = "ACTIVE" THEN H!stopAndWait(h) ELSE h
  <2>1. HostOK(w)
    BY StopAndWaitOK DEF After
  <2> HIDE DEF w
  <2>2. HostOK(H!Dead(w)) /\ H!Dead(w).run = "dead"
    BY <2>1, DeadOK DEF After
  <2>3. H!destroy(h) = [H!Dead(w) EXCEPT !.st = "ERRORED"]
    BY <1>2 DEF H!destroy, w
  <2>4. QED
    BY <2>2, <2>3 DEF After, HostOK, H!Hosts, H!UnixStates
<1>3. QED
  BY <1>1, <1>2

LEMMA CsigOK ==
  ASSUME NEW h, HostOK(h)
  PROVE  After(H!csig(h), h)
BY DEF H!csig, After, HostOK, H!Hosts, H!UnixStates

LEMMA CloseOK ==
  ASSUME NEW h, HostOK(h)
  PROVE  After(H!close(h), h)
<1>1. CASE h.st = "ERRORED"
  BY <1>1 DEF H!close, After
<1>2. CASE h.st # "ERRORED"
  <2> DEFINE w == IF h.st = "ACTIVE" THEN H!stopAndWait(h) ELSE H!Killed(h, "SIGSTOP")
  <2>1. After(w, h)
    BY StopAndWaitOK, KilledOK
  <2> HIDE DEF w
  <2>2. H!close(h) = IF w.run = "dead" THEN w ELSE [w EXCEPT !.run = "running"]
    BY <1>2 DEF H!close, w
  <2>3. QED
    BY <2>1, <2>2 DEF After, HostOK, H!Hosts, H!UnixStates
<1>3. QED
  BY <1>1, <1>2

\* SigMask::setsig and clrsig.
LEMMA MaskOK ==
  ASSUME NEW h, HostOK(h)
  PROVE  After([h EXCEPT !.mask = ~@], h)
BY DEF After, HostOK, H!Hosts, H!UnixStates

LEMMA AttachedOK ==
  ASSUME NEW a \in Addr
  PROVE  HostOK(H!attached(a))
BY DEF H!attached, HostOK, H!Hosts, H!UnixStates

-----------------------------------------------------------------------------
(* The breakpoint list, with the subject's memory.                         *)

\* Its own text and the traps, and the bytes they replaced (TextOwned).
Own ==
  /\ text = [a \in Addr |-> IF layed /\ a \in trap THEN TRAPINST ELSE Code[a]]
  /\ saved = Code

\* The operations of Bpts keep their types, whatever ptrace reaches.
LEMMA ListTypes ==
  ASSUME BptsTypeOK, NEW a \in Addr, NEW ok, NEW errored \in BOOLEAN,
         \/ set(a, ok) \/ clr(a, ok, errored) \/ clearall(ok, errored)
         \/ lay(ok) \/ lift(ok, errored)
  PROVE  BptsTypeOK'
<1> USE DEF BptsTypeOK
<1>1. ASSUME NEW S \in SUBSET Stmt, laybpts(S)
      PROVE  text' \in [Addr -> Byte] /\ saved' \in [Stmt -> Byte]
  BY <1>1, LoAssumption, TrapAssumption DEF laybpts
<1>2. ASSUME NEW S \in SUBSET Stmt, liftbpts(S)
      PROVE  text' \in [Addr -> Byte] /\ saved' \in [Stmt -> Byte]
  <2>1. \A b \in Addr : (\E s \in S : Lo[s] = b) => saved[CHOOSE s \in S : Lo[s] = b] \in Byte
    OBVIOUS
  <2>2. QED
    BY <1>2, <2>1 DEF liftbpts
<1>3. \A S \in SUBSET Stmt : Reached(S, ok) \in SUBSET Stmt
  BY DEF Reached
<1>4. a \in Stmt /\ {a} \in SUBSET Stmt /\ istrap(a) \in SUBSET Stmt /\ trap \in SUBSET Stmt
  BY SameAddrs DEF istrap
<1>5. CASE set(a, ok)
  BY <1>1, <1>3, <1>4, <1>5 DEF set
<1>6. CASE clr(a, ok, errored)
  BY <1>2, <1>3, <1>4, <1>6 DEF clr
<1>7. CASE clearall(ok, errored)
  BY <1>2, <1>3, <1>4, <1>7 DEF clearall
<1>8. CASE lay(ok)
  BY <1>1, <1>3, <1>4, <1>8 DEF lay
<1>9. CASE lift(ok, errored)
  BY <1>2, <1>3, <1>4, <1>9 DEF lift
<1>10. QED
  BY <1>5, <1>6, <1>7, <1>8, <1>9

\* On a subject that ptrace reaches they keep its text its own.
LEMMA ListKeepsOwn ==
  ASSUME BptsTypeOK, Own, NEW a \in Addr,
         \/ set(a, Addr) \/ clr(a, Addr, FALSE) \/ clearall(Addr, FALSE)
         \/ lay(Addr) \/ lift(Addr, FALSE)
  PROVE  Own'
<1> USE SameAddrs, RunControlAssumption DEF BptsTypeOK
<1>1. \A S \in SUBSET Addr : Reached(S, Addr) = S /\ Locs(S) = S
  BY DEF Reached, Locs
<1>2. istrap(a) = trap \cap {a} /\ trap \in SUBSET Addr /\ {a} \in SUBSET Addr
  BY DEF istrap
<1>3. ASSUME NEW S \in SUBSET Addr, laybpts(S), ~layed \/ S \cap trap = {}
      PROVE  /\ saved' = Code
             /\ text' = [b \in Addr |-> IF b \in S \/ (layed /\ b \in trap)
                                        THEN TRAPINST ELSE Code[b]]
  <2>1. \A s \in S : text[Lo[s]] = Code[s]
    BY <1>3 DEF Own
  <2>2. saved' = Code
    BY <1>3, <2>1 DEF laybpts, Own
  <2>3. QED
    BY <1>1, <1>3, <2>2 DEF laybpts, Own
<1>4. ASSUME NEW S \in SUBSET Addr, liftbpts(S)
      PROVE  /\ saved' = Code
             /\ text' = [b \in Addr |-> IF b \notin S /\ layed /\ b \in trap
                                        THEN TRAPINST ELSE Code[b]]
  <2>1. \A b \in Addr : (\E s \in S : Lo[s] = b) <=> b \in S
    OBVIOUS
  <2>2. \A b \in S : (CHOOSE s \in S : Lo[s] = b) = b
    OBVIOUS
  <2>3. QED
    BY <1>4, <2>1, <2>2 DEF liftbpts, Own
<1>5. CASE set(a, Addr)
  BY <1>1, <1>2, <1>3, <1>5 DEF set, Own
<1>6. CASE clr(a, Addr, FALSE)
  BY <1>1, <1>2, <1>4, <1>6 DEF clr, Own
<1>7. CASE clearall(Addr, FALSE)
  BY <1>1, <1>2, <1>4, <1>7 DEF clearall, Own
<1>8. CASE lay(Addr)
  BY <1>1, <1>2, <1>3, <1>8 DEF lay, Own
<1>9. CASE lift(Addr, FALSE)
  BY <1>1, <1>2, <1>4, <1>9 DEF lift, Own
<1>10. QED
  BY <1>5, <1>6, <1>7, <1>8, <1>9

-----------------------------------------------------------------------------
(* The inductive invariant.                                                *)

IInv ==
  /\ TypeOK
  /\ HostOK(host)
  /\ host.run # "dead" => Own
  /\ ctl = "closed" => ~layed

\* Nothing that a handler does brings a subject to life.
LEMMA GoHost ==
  ASSUME NEW p, HostOK(p), GoFrom(p)
  PROVE  After(host', p)
<1>1. host' \in {H!readwrite(p), H!run(p), H!run(H!step(p, text)), H!step(p, text)}
  BY DEF GoFrom
<1>2. After(H!step(p, text), p)
  BY StepOK
<1>3. After(H!run(H!step(p, text)), p)
  BY <1>2, RunOK DEF After
<1>4. QED
  BY <1>1, <1>2, <1>3, ReadwriteOK, RunOK

LEMMA HostStep ==
  ASSUME HostOK(host), [Next]_vars
  PROVE  After(host', host)
<1>g. After(H!getstate(host), host) /\ After(H!readwrite(host), host)
  BY GetstateOK, ReadwriteOK
<1>r. After(H!readwrite(H!getstate(host)), host)
  BY <1>g, ReadwriteOK DEF After
<1>1. CASE SubjectMove
  BY <1>1, SubjectMovesOK DEF SubjectMove
<1>2. CASE Die \/ SendSig
  BY <1>2, DeadOK, KilledOK DEF Die, SendSig
<1>3. CASE DoCycle \/ Show \/ ReadMem
  BY <1>3, <1>g DEF DoCycle, Show, ReadMem
<1>4. CASE RunOn
  <2>1. After(H!step(host, text), host)
    BY StepOK
  <2>2. After(H!run(H!step(host, text)), host)
    BY <2>1, RunOK DEF After
  <2>3. QED
    BY <1>4, <2>1, <2>2 DEF RunOn
<1>5. CASE StepOne
  <2>1. After(H!step(H!readwrite(host), text), host)
    BY <1>g, StepOK DEF After
  <2>2. QED
    BY <1>5, <1>g, <2>1 DEF StepOne
<1>6. CASE StepWait
  BY <1>6, ProcwaitOK DEF StepWait
<1>7. CASE Go
  BY <1>7, <1>g, GoHost DEF Go, After
<1>8. CASE ClearAndGo \/ ClearPending
  <2> DEFINE p == H!getstate(H!csig(host))
  <2>1. After(H!csig(host), host)
    BY CsigOK
  <2>2. After(p, host)
    BY <2>1, GetstateOK DEF After
  <2>3. After(H!readwrite(p), host)
    BY <2>2, ReadwriteOK DEF After
  <2>4. QED
    BY <1>8, <2>2, <2>3, GoHost DEF ClearAndGo, ClearPending, After
<1>9. CASE Stop
  <2>1. After(H!Killed(H!getstate(host), "SIGSTOP"), host)
    BY <1>g, KilledOK DEF After
  <2>2. QED
    BY <1>9, <1>g, <2>1 DEF Stop
<1>10. ASSUME NEW a \in Addr, SetBpt(a) \/ ClrBpt(a) PROVE After(host', host)
  <2>1. After(host, host)
    BY DEF After
  <2>2. QED
    BY <1>10, <1>g, <1>r, <2>1 DEF SetBpt, ClrBpt
<1>11. CASE ClearAll
  <2>1. After(host, host)
    BY DEF After
  <2>2. QED
    BY <1>11, <1>g, <1>r, <2>1 DEF ClearAll
<1>12. CASE ToggleMask \/ Kill
  BY <1>12, MaskOK, DestroyOK DEF ToggleMask, Kill
<1>13. CASE Close
  <2> DEFINE h == IF layed /\ trap # {} THEN H!readwrite(H!getstate(host)) ELSE host
  <2>1. After(h, host)
    BY <1>r DEF After
  <2> HIDE DEF h
  <2>2. host' = H!close(h)
    BY <1>13 DEF Close, h
  <2>3. QED
    BY <2>1, <2>2, CloseOK DEF After
<1>14. CASE UNCHANGED host
  BY <1>14 DEF After
<1>15. CASE Wake \/ StepCmd \/ Cycle \/ DeliverAlarm \/ Tick \/ UNCHANGED vars
  BY <1>14, <1>15 DEF Wake, StepCmd, Cycle, DeliverAlarm, Tick, vars
<1>16. QED
  BY <1>1, <1>2, <1>3, <1>4, <1>5, <1>6, <1>7, <1>8, <1>9, <1>10, <1>11, <1>12, <1>13,
     <1>15 DEF Next, Debugger, User

\* What a step does to the list and the subject's memory: nothing, or one
\* operation of Bpts, which reaches all of a subject that lives on.
ListStep(a, ok, errored) ==
  \/ UNCHANGED <<bptsVars, text>>
  \/ set(a, ok) \/ clr(a, ok, errored) \/ clearall(ok, errored)
  \/ lay(ok) \/ lift(ok, errored)

Reaching(ok, errored) == host'.run # "dead" => ok = Addr /\ errored = FALSE

LEMMA GoList ==
  ASSUME NEW p, HostOK(p), GoFrom(p)
  PROVE  \E ok : \E errored \in BOOLEAN : ListStep(Start, ok, errored) /\ Reaching(ok, errored)
<1>1. CASE UNCHANGED <<bptsVars, text>>
  BY <1>1 DEF ListStep, Reaching
<1>2. CASE lay(Reach(p)) /\ host' = H!run(p)
  BY <1>2, RunOK DEF ListStep, Reaching, Reach, After
<1>3. CASE lay(Reach(H!step(p, text))) /\ host' = H!run(H!step(p, text))
  <2> DEFINE s == H!step(p, text)
  <2>1. HostOK(s)
    BY StepOK DEF After
  <2> HIDE DEF s
  <2>2. lay(Reach(s)) /\ host' = H!run(s)
    BY <1>3 DEF s
  <2>3. QED
    BY <2>1, <2>2, RunOK DEF ListStep, Reaching, Reach, After
<1>4. QED
  BY <1>1, <1>2, <1>3 DEF GoFrom

LEMMA OneListStep ==
  ASSUME BptsTypeOK, HostOK(host), [Next]_vars
  PROVE  \E a \in Addr : \E ok : \E errored \in BOOLEAN :
           ListStep(a, ok, errored) /\ Reaching(ok, errored)
<1> DEFINE Goal == \E a \in Addr : \E ok : \E errored \in BOOLEAN :
                     ListStep(a, ok, errored) /\ Reaching(ok, errored)
<1>s. Start \in Addr
  BY RunControlAssumption
<1>g. After(H!getstate(host), host)
  BY GetstateOK
<1>1. CASE UNCHANGED <<bptsVars, text>>
  BY <1>1, <1>s DEF ListStep, Reaching
<1>2. CASE DoCycle
  <2>1. host' = H!getstate(host)
    BY <1>2 DEF DoCycle
  <2>2. \/ UNCHANGED <<bptsVars, text>>
        \/ lift(Reach(host'), FALSE)
    BY <1>2 DEF DoCycle
  <2>3. QED
    BY <1>1, <1>s, <2>2 DEF ListStep, Reaching, Reach
<1>3. CASE RunOn
  <2>1. UNCHANGED <<bptsVars, text>> \/ lay(Addr)
    BY <1>3 DEF RunOn
  <2>2. QED
    BY <1>1, <1>s, <2>1 DEF ListStep, Reaching
<1>4. CASE Go \/ ClearAndGo
  <2>1. HostOK(H!getstate(H!csig(host)))
    BY CsigOK, GetstateOK DEF After
  <2>2. PICK p : HostOK(p) /\ GoFrom(p)
    BY <1>4, <1>g, <2>1 DEF Go, ClearAndGo, After
  <2>3. QED
    BY <1>s, <2>2, GoList
<1>5. ASSUME NEW a \in Addr, SetBpt(a) PROVE Goal
  <2>1. set(a, Reach(host'))
    BY <1>5 DEF SetBpt
  <2>2. QED
    BY <2>1 DEF ListStep, Reaching, Reach
<1>e. ASSUME H!getstate(host).st = "ERRORED",
             host' \in {H!readwrite(H!getstate(host)), H!getstate(host)}
      PROVE  host'.run = "dead"
  BY <1>e, <1>g, ReadwriteOK DEF After, HostOK
<1>6. ASSUME NEW a \in Addr, ClrBpt(a) PROVE Goal
  <2> DEFINE p == IF layed /\ a \in trap THEN H!getstate(host) ELSE host
  <2>1. clr(a, Reach(host'), p.st = "ERRORED")
    BY <1>6 DEF ClrBpt
  <2>2. p.st = "ERRORED" => host'.run = "dead"
    BY <1>6, <1>e DEF ClrBpt, HostOK
  <2> HIDE DEF p
  <2>3. QED
    BY <2>1, <2>2 DEF ListStep, Reaching, Reach
<1>7. CASE ClearAll
  <2> DEFINE p == IF layed /\ trap # {} THEN H!getstate(host) ELSE host
  <2>1. clearall(Reach(host'), p.st = "ERRORED")
    BY <1>7 DEF ClearAll
  <2>2. p.st = "ERRORED" => host'.run = "dead"
    BY <1>7, <1>e DEF ClearAll, HostOK
  <2> HIDE DEF p
  <2>3. QED
    BY <1>s, <2>1, <2>2 DEF ListStep, Reaching, Reach
<1>8. CASE Close
  <2> DEFINE p == H!getstate(host)
             h == IF layed /\ trap # {} THEN H!readwrite(p) ELSE host
  <2>1. After(h, host) /\ After(H!readwrite(p), p)
    BY <1>g, ReadwriteOK DEF After
  <2>n. CASE ~layed
    BY <1>1, <1>8, <2>n DEF Close, lift, bptsVars
  <2>2. CASE layed /\ trap = {}
    <3>1. lift(Reach(h), p.st = "ERRORED")
      BY <1>8 DEF Close
    <3>2. \A ok : Reached(trap, ok) = {}
      BY <2>2 DEF Reached
    <3>3. [b \in Addr |-> text[b]] = text
      BY DEF BptsTypeOK
    <3>4. liftbpts({}) <=> UNCHANGED <<saved, text>>
      BY <3>3 DEF liftbpts
    <3> HIDE DEF p, h
    <3>5. lift(Addr, FALSE)
      BY <2>2, <3>1, <3>2, <3>4 DEF lift
    <3>6. QED
      BY <1>s, <3>5 DEF ListStep, Reaching
  <2>3. CASE layed /\ trap # {}
    <3>1. h = H!readwrite(p) /\ host' = H!close(h) /\ lift(Reach(h), p.st = "ERRORED")
      BY <1>8, <2>3 DEF Close
    <3>2. h.run = "dead" => host'.run = "dead"
      BY <2>1, <3>1, CloseOK DEF After
    <3>3. p.st = "ERRORED" => host'.run = "dead"
      BY <1>g, <2>1, <3>1, <3>2 DEF After, HostOK
    <3> HIDE DEF p, h
    <3>4. QED
      BY <1>s, <3>1, <3>2, <3>3 DEF ListStep, Reaching, Reach
  <2>4. QED
    BY <2>n, <2>2, <2>3
<1>9. QED
  BY <1>1, <1>2, <1>3, <1>4, <1>5, <1>6, <1>7, <1>8
  DEF Next, Debugger, User, vars, SubjectMove, Die, SendSig, Show, Wake, StepOne, StepWait,
      Cycle, DeliverAlarm, Tick, ClearPending, Stop, StepCmd, ReadMem, ToggleMask, Kill

\* The list and the subject keep their types and the text stays the subject's.
LEMMA OwnStep ==
  ASSUME IInv, [Next]_vars
  PROVE  BptsTypeOK' /\ (host'.run # "dead" => Own')
<1>1. BptsTypeOK /\ HostOK(host) /\ (host.run # "dead" => Own)
  BY DEF IInv, TypeOK
<1>p. PICK a \in Addr : \E ok : \E errored \in BOOLEAN :
             ListStep(a, ok, errored) /\ Reaching(ok, errored)
  BY <1>1, OneListStep
<1>q. PICK ok : \E errored \in BOOLEAN : ListStep(a, ok, errored) /\ Reaching(ok, errored)
  BY <1>p
<1>2. PICK errored \in BOOLEAN : ListStep(a, ok, errored) /\ Reaching(ok, errored)
  BY <1>q
<1>3. host'.run # "dead" => host.run # "dead"
  BY <1>1, HostStep DEF After
<1>4. BptsTypeOK'
  <2>1. CASE UNCHANGED <<bptsVars, text>>
    BY <1>1, <2>1 DEF bptsVars, BptsTypeOK
  <2>2. CASE ~UNCHANGED <<bptsVars, text>>
    BY <1>1, <1>2, <2>2, ListTypes DEF ListStep
  <2>3. QED
    BY <2>1, <2>2
<1>5. ASSUME host'.run # "dead" PROVE Own'
  <2>1. ListStep(a, Addr, FALSE) /\ Own
    BY <1>1, <1>2, <1>3, <1>5 DEF Reaching
  <2>2. CASE UNCHANGED <<bptsVars, text>>
    BY <2>1, <2>2 DEF bptsVars, Own
  <2>3. CASE ~UNCHANGED <<bptsVars, text>>
    BY <1>1, <2>1, <2>3, ListKeepsOwn DEF ListStep
  <2>4. QED
    BY <2>2, <2>3
<1>6. QED
  BY <1>4, <1>5

\* Polling counts in a char.
LEMMA CharIncType ==
  ASSUME NEW c \in (-CharMax - 1)..CharMax
  PROVE  CharInc(c) \in (-CharMax - 1)..CharMax
BY RunControlAssumption DEF CharInc

\* The window, its handlers and the terminal.
WindowTypeOK ==
  /\ cycles \in (-CharMax - 1)..CharMax
  /\ stoprequest \in BOOLEAN
  /\ shown \in H!UnixStates \cup {"STEPPED"}
  /\ ctl \in Ctls
  /\ left \in 0..MaxSteps
  /\ alarmq \in Seq({0, 1})
  /\ ticks \in {0, 1}
  /\ cyc \in Nat
  /\ hasty \in BOOLEAN

LEMMA WindowStep ==
  ASSUME TypeOK, HostOK(host), [Next]_vars
  PROVE  WindowTypeOK'
<1> USE RunControlAssumption DEF TypeOK, WindowTypeOK, Ctls
<1>u. \A h : HostOK(h) => h.st \in H!UnixStates
  BY DEF HostOK, H!Hosts
<1>g. HostOK(H!getstate(host)) /\ HostOK(H!getstate(H!csig(host)))
  BY GetstateOK, CsigOK DEF After
<1>h. HostOK(host')
  BY HostStep DEF After
<1>c. cycles > 0 => cycles - 1 \in (-CharMax - 1)..CharMax
  OBVIOUS
<1>1. CASE DoCycle
  <2> DEFINE p == H!getstate(host)
  <2>1. ctl' \in {"show", "idle", "runon"} /\ shown' \in {p.st, shown}
    BY <1>1 DEF DoCycle
  <2>2. \/ alarmq' = Append(alarmq, 1) /\ cycles' = CharInc(cycles)
        \/ UNCHANGED <<alarmq, cycles>>
    BY <1>1 DEF DoCycle, Alarm, NoAlarm
  <2>3. UNCHANGED <<stoprequest, left, ticks, cyc, hasty>>
    BY <1>1 DEF DoCycle
  <2>4. p.st \in H!UnixStates
    BY <1>g, <1>u
  <2> HIDE DEF p
  <2>5. cycles' \in (-CharMax - 1)..CharMax
    BY <2>2, CharIncType
  <2>6. alarmq' \in Seq({0, 1})
    BY <2>2
  <2>7. QED
    BY <2>1, <2>3, <2>4, <2>5, <2>6
<1>2. CASE Show
  <2>1. /\ ctl' = "idle" /\ shown' = "ACTIVE"
        /\ UNCHANGED <<cycles, stoprequest, left, alarmq, ticks, cyc, hasty>>
    BY <1>2 DEF Show, termVars
  <2>2. shown' \in H!UnixStates
    BY <2>1 DEF H!UnixStates
  <2>3. QED
    BY <2>1, <2>2
<1>3. CASE RunOn
  <2>1. alarmq' = Append(alarmq, 0) /\ cycles' = CharInc(cycles)
    BY <1>3 DEF RunOn, Alarm
  <2>2. ctl' = "idle" /\ UNCHANGED <<stoprequest, shown, left, ticks, cyc, hasty>>
    BY <1>3 DEF RunOn
  <2>3. cycles' \in (-CharMax - 1)..CharMax /\ alarmq' \in Seq({0, 1})
    BY <2>1, CharIncType
  <2>4. QED
    BY <2>2, <2>3
<1>4. CASE Wake
  BY <1>4, <1>c DEF Wake, termVars
<1>5. ASSUME NEW h, HostOK(h), AfterStep(h) PROVE
        left' \in 0..MaxSteps /\ ctl' \in Ctls /\ shown' \in H!UnixStates \cup {"STEPPED"}
  BY <1>5 DEF AfterStep
<1>6. CASE StepOne
  BY <1>5, <1>6, <1>h DEF StepOne, termVars
<1>7. CASE StepWait
  BY <1>5, <1>7, <1>h DEF StepWait, termVars
<1>8. CASE Cycle
  BY <1>8, <1>c DEF Cycle
<1>9. CASE DeliverAlarm
  BY <1>9 DEF DeliverAlarm, windowVars
<1>10. CASE Tick
  BY <1>10 DEF Tick, windowVars
<1>11. ASSUME NEW p, HostOK(p), GoFrom(p), hasty' \in BOOLEAN PROVE WindowTypeOK'
  <2>1. /\ stoprequest' = FALSE /\ ctl' = "docycle" /\ shown' \in {shown, p.st}
        /\ UNCHANGED <<cycles, left, termVars>>
    BY <1>11 DEF GoFrom
  <2>2. QED
    BY <1>11, <1>u, <2>1 DEF termVars
<1>12. CASE Go \/ ClearAndGo
  <2>1. CASE Go
    BY <1>11, <1>g, <2>1 DEF Go, Ready
  <2>2. CASE ClearAndGo
    BY <1>11, <1>g, <2>2 DEF ClearAndGo, Ready
  <2>3. QED
    BY <1>12, <2>1, <2>2
<1>13. CASE ClearPending
  BY <1>13, <1>g, <1>u DEF ClearPending, Ready, termVars
<1>14. CASE Stop
  BY <1>14, <1>g, <1>u DEF Stop, termVars
<1>15. CASE StepCmd
  <2>1. /\ stoprequest' = FALSE /\ ctl' = "stepping" /\ left' \in 1..MaxSteps
        /\ UNCHANGED <<cycles, shown, termVars>> /\ hasty' \in BOOLEAN
    BY <1>15 DEF StepCmd, Ready
  <2>2. left' \in 0..MaxSteps
    BY <2>1
  <2>3. QED
    BY <2>1, <2>2 DEF termVars
<1>16. CASE Kill \/ Close
  BY <1>16 DEF Kill, Close, termVars
<1>17. CASE UNCHANGED <<windowVars, termVars, hasty>>
  BY <1>17 DEF windowVars, termVars
<1>t. CASE UNCHANGED vars \/ SubjectMove \/ Die \/ SendSig \/ ClearAll \/ ReadMem \/ ToggleMask
           \/ (\E a \in Addr : SetBpt(a)) \/ (\E a \in Addr : ClrBpt(a))
  <2>1. UNCHANGED <<windowVars, termVars, hasty>>
    BY <1>t DEF vars, SubjectMove, Die, SendSig, SetBpt, ClrBpt, ClearAll, ReadMem, ToggleMask
  <2>2. QED
    BY <1>17, <2>1
<1>18. QED
  <2> HIDE DEF TypeOK, WindowTypeOK, Ctls
  <2>1. CASE Debugger
    BY <1>1, <1>2, <1>3, <1>4, <1>6, <1>7, <2>1 DEF Debugger
  <2>2. CASE User
    BY <1>12, <1>13, <1>14, <1>15, <1>16, <1>t, <2>2 DEF User
  <2>3. CASE ~Debugger /\ ~User
    BY <1>8, <1>9, <1>10, <1>t, <2>3 DEF Next
  <2>4. QED
    BY <2>1, <2>2, <2>3

\* A window that was closed stays so, and Close lifts.
LEMMA ClosedStep ==
  ASSUME ctl = "closed" => ~layed, layed \in BOOLEAN, [Next]_vars
  PROVE  ctl' = "closed" => ~layed'
<1> SUFFICES ASSUME ctl' = "closed" PROVE ~layed'
  OBVIOUS
<1>1. CASE ctl = "closed"
  BY <1>1 DEF Next, Debugger, User, vars, bptsVars, SubjectMove, Die, SendSig, DoCycle, Show,
     RunOn, Wake, StepOne, StepWait, Cycle, DeliverAlarm, Tick, Go, ClearAndGo, ClearPending,
     Stop, StepCmd, SetBpt, ClrBpt, ClearAll, ReadMem, ToggleMask, Kill, Close, Ready, Serving,
     Quiet
<1>2. CASE ctl # "closed"
  <2>1. Close
    BY <1>2 DEF Next, Debugger, User, vars, windowVars, SubjectMove, Die, SendSig, DoCycle,
       Show, RunOn, Wake, StepOne, StepWait, AfterStep, Cycle, DeliverAlarm, Tick, Go,
       ClearAndGo, ClearPending, GoFrom, Stop, StepCmd, SetBpt, ClrBpt, ClearAll, ReadMem,
       ToggleMask, Kill
  <2>2. QED
    BY <2>1 DEF Close, lift
<1>3. QED
  BY <1>1, <1>2

LEMMA InitOK == Init => IInv
<1>1. Init => TypeOK
  <2> SUFFICES ASSUME Init PROVE TypeOK
    OBVIOUS
  <2>1. BptsTypeOK
    BY RunControlAssumption, SameAddrs DEF Init, BptsTypeOK
  <2>2. host \in H!Hosts
    BY RunControlAssumption, AttachedOK DEF Init, HostOK
  <2>3. /\ cycles = 0 /\ stoprequest = FALSE /\ shown = "HALTED" /\ ctl = "docycle"
        /\ left = 0 /\ alarmq = <<>> /\ ticks = 0 /\ cyc = 0 /\ hasty = FALSE
    BY DEF Init
  <2>4. QED
    <3>1. cycles \in (-CharMax - 1)..CharMax /\ left \in 0..MaxSteps
      BY <2>3, RunControlAssumption
    <3>2. alarmq \in Seq({0, 1}) /\ ticks \in {0, 1} /\ cyc \in Nat
      BY <2>3
    <3>3. shown \in H!UnixStates /\ ctl \in Ctls /\ stoprequest \in BOOLEAN /\ hasty \in BOOLEAN
      BY <2>3 DEF Ctls, H!UnixStates
    <3>4. QED
      BY <2>1, <2>2, <3>1, <3>2, <3>3 DEF TypeOK
<1>2. Init => HostOK(host) /\ Own /\ ctl # "closed"
  BY RunControlAssumption, AttachedOK DEF Init, Own
<1>3. QED
  BY <1>1, <1>2 DEF IInv

LEMMA IInvStep ==
  ASSUME IInv, [Next]_vars
  PROVE  IInv'
<1>1. HostOK(host') /\ BptsTypeOK' /\ (host'.run # "dead" => Own')
  BY HostStep, OwnStep DEF IInv, After
<1>2. WindowTypeOK'
  BY WindowStep DEF IInv
<1>3. ctl' = "closed" => ~layed'
  BY ClosedStep DEF IInv, TypeOK, BptsTypeOK
<1>4. QED
  BY <1>1, <1>2, <1>3 DEF IInv, TypeOK, WindowTypeOK, HostOK

LEMMA Inductive == Spec => []IInv
<1>1. IInv /\ [Next]_vars => IInv'
  BY IInvStep
<1>2. QED
  BY <1>1, InitOK, PTL DEF Spec

-----------------------------------------------------------------------------
\* TypeOK: the list, the subject, the window, its handlers and the clock keep
\* their types through every command, poll and signal.
THEOREM TypeCorrect == Spec => []TypeOK
<1>1. IInv => TypeOK
  BY DEF IInv
<1>2. QED
  BY <1>1, Inductive, PTL

\* TextOwned: while the subject lives its text is its program, with the
\* breakpoint instruction at each trap exactly while the traps are laid,
\* however commands, polls, signals and conditional breakpoints interleave.
THEOREM TextIsOwned == Spec => []TextOwned
<1>1. IInv => TextOwned
  BY DEF IInv, Own, TextOwned
<1>2. QED
  BY <1>1, Inductive, PTL

\* The part of CloseIsClean that needs no patient user: the subject of a
\* closed window has its own text.
ClosedText == ctl = "closed" /\ host.run # "dead" => text = Code

THEOREM ClosedHasOwnText == Spec => []ClosedText
<1>1. IInv => ClosedText
  <2> SUFFICES ASSUME IInv, ctl = "closed", host.run # "dead" PROVE text = Code
    BY DEF ClosedText
  <2>1. text = [a \in Addr |-> Code[a]]
    BY DEF IInv, Own
  <2>2. QED
    BY <2>1, RunControlAssumption
<1>2. QED
  BY <1>1, Inductive, PTL

-----------------------------------------------------------------------------
(* The subject of an open window.                                          *)

\* The subject runs, or has an event that was not fetched, only while
\* Hostfunc takes it for ACTIVE, and the exit of a dead one can be fetched
\* until Hostfunc knows of it.
Good(g) ==
  /\ HostOK(g)
  /\ g.run = "dead" => g.ev = "exit" \/ g.st = "ERRORED"
  /\ g.run = "running" => g.ev = "none"
  /\ g.run # "dead" /\ g.st # "ACTIVE" => g.run = "stopped" /\ g.ev = "none"

\* Its program counter is corrected when the trap's event is fetched.
Fixed(g) == ~g.skipped /\ (g.run # "dead" /\ g.off = 1 => g.ev = "trap")

\* g is as good as h.
Kept(g, h) == Good(g) /\ (Fixed(h) => Fixed(g))

LEMMA ProcwaitGood ==
  ASSUME NEW h, Good(h)
  PROVE  /\ Kept(H!procwait(h, TRUE), h) /\ Good(H!procwait(h, FALSE))
         /\ H!procwait(h, TRUE).st = "ACTIVE" =>
              H!procwait(h, TRUE).run = "running" \/ h.ev = "none"
<1> DEFINE w == H!procwait(h, TRUE)
           u == H!procwait(h, FALSE)
<1> SUFFICES Kept(w, h) /\ Good(u) /\ (w.st = "ACTIVE" => w.run = "running" \/ h.ev = "none")
  OBVIOUS
<1>h. h \in H!Hosts
  BY DEF Good, HostOK
<1>1. h.ev = "none" => w = h /\ u = h
  BY DEF H!procwait, H!Forwards
<1>2. h.ev = "stop" => w = [h EXCEPT !.ev = "none", !.st = "HALTED"] /\ u = w
  BY DEF H!procwait, H!Forwards
<1>3. h.ev = "exit" => w = [h EXCEPT !.ev = "none", !.st = "ERRORED"] /\ u = w
  BY DEF H!procwait, H!Forwards
<1>4. h.ev = "sig" =>
        /\ w = IF H!Forwards(h) THEN [h EXCEPT !.ev = "none", !.run = "running"]
               ELSE [h EXCEPT !.ev = "none", !.st = "PENDING"]
        /\ u = w
  BY DEF H!procwait, H!Forwards
<1>5. h.ev = "trap" => w = [h EXCEPT !.ev = "none", !.st = "BREAKED", !.off = 0]
  BY <1>h DEF H!procwait, H!Forwards, H!Hosts
<1>u. h.ev = "trap" => u = [h EXCEPT !.ev = "none", !.st = "BREAKED"]
  BY <1>h DEF H!procwait, H!Forwards, H!Hosts
<1> HIDE DEF w, u
<1>6. CASE h.ev = "none"
  BY <1>1, <1>6 DEF Kept
<1>7. CASE h.ev = "stop"
  <2>1. Good(w)
    BY <1>2, <1>7 DEF HostOK, Good, H!Hosts, H!UnixStates
  <2>u. Good(u)
    BY <1>2, <1>7, <2>1
  <2>2. Fixed(h) => Fixed(w)
    BY <1>2, <1>7 DEF HostOK, Good, Fixed, H!Hosts, H!UnixStates
  <2>3. w.st = "ACTIVE" => w.run = "running"
    BY <1>2, <1>7 DEF HostOK, Good, H!Hosts, H!UnixStates
  <2>4. QED
    BY <2>1, <2>u, <2>2, <2>3 DEF Kept
<1>8. CASE h.ev = "exit"
  <2>1. Good(w)
    BY <1>3, <1>8 DEF HostOK, Good, H!Hosts, H!UnixStates
  <2>u. Good(u)
    BY <1>3, <1>8, <2>1
  <2>2. Fixed(h) => Fixed(w)
    BY <1>3, <1>8 DEF HostOK, Good, Fixed, H!Hosts, H!UnixStates
  <2>3. w.st = "ACTIVE" => w.run = "running"
    BY <1>3, <1>8 DEF HostOK, Good, H!Hosts, H!UnixStates
  <2>4. QED
    BY <2>1, <2>u, <2>2, <2>3 DEF Kept
<1>9. CASE h.ev = "sig"
  <2>1. Good(w)
    BY <1>4, <1>9 DEF H!Forwards, HostOK, Good, H!Hosts, H!UnixStates
  <2>u. Good(u)
    BY <1>4, <1>9, <2>1
  <2>2. Fixed(h) => Fixed(w)
    BY <1>4, <1>9 DEF H!Forwards, HostOK, Good, Fixed, H!Hosts, H!UnixStates
  <2>3. w.st = "ACTIVE" => w.run = "running"
    BY <1>4, <1>9 DEF H!Forwards, HostOK, Good, H!Hosts, H!UnixStates
  <2>4. QED
    BY <2>1, <2>u, <2>2, <2>3 DEF Kept
<1>10. CASE h.ev = "trap"
  <2>1. Good(w)
    BY <1>5, <1>10 DEF HostOK, Good, H!Hosts, H!UnixStates
  <2>u. Good(u)
    BY <1>u, <1>10 DEF HostOK, Good, H!Hosts, H!UnixStates
  <2>2. Fixed(h) => Fixed(w)
    <3>1. w.off = 0 /\ w.skipped = h.skipped
      BY <1>h, <1>5, <1>10 DEF H!Hosts
    <3>2. QED
      BY <3>1 DEF Fixed
  <2>3. w.st = "ACTIVE" => w.run = "running"
    BY <1>5, <1>10 DEF HostOK, Good, H!Hosts, H!UnixStates
  <2>4. QED
    BY <2>1, <2>u, <2>2, <2>3 DEF Kept
<1>11. QED
  BY <1>h, <1>6, <1>7, <1>8, <1>9, <1>10 DEF H!Hosts

LEMMA WaitedGood ==
  ASSUME NEW h, Good(h), h.ev # "none"
  PROVE  /\ ~H!Forwards(h) => H!procwait(h, FALSE).st # "ACTIVE"
         /\ H!Forwards(h) => H!procwait(h, FALSE).st = h.st
         /\ h.st = "ERRORED" => H!procwait(h, FALSE).st = "ERRORED"
BY DEF H!procwait, H!Forwards, HostOK, Good, H!Hosts, H!UnixStates

LEMMA KilledGood ==
  ASSUME NEW h, Good(h), NEW sig
  PROVE  Kept(H!Killed(h, sig), h) /\ H!Killed(h, sig).st = h.st
BY DEF H!Killed, HostOK, Good, Fixed, Kept, H!Hosts, H!UnixStates

LEMMA DeadGood ==
  ASSUME NEW h, Good(h)
  PROVE  Kept(H!Dead(h), h) /\ H!Dead(h).st = h.st
BY DEF H!Dead, HostOK, Good, Fixed, Kept, H!Hosts, H!UnixStates

LEMMA ToEventGood ==
  ASSUME NEW h, Good(h), h.st = "ACTIVE"
  PROVE  Kept(H!ToEvent(h), h) /\ H!ToEvent(h).st = "ACTIVE" /\ H!ToEvent(h).ev # "none"
<1>1. CASE h.ev # "none" \/ h.run = "dead"
  BY <1>1 DEF H!ToEvent, Kept, Good
<1>2. CASE h.ev = "none" /\ h.run # "dead"
  <2>1. H!ToEvent(h) \in {[h EXCEPT !.sigq = FALSE, !.run = "stopped", !.ev = "sig"],
                          [h EXCEPT !.stopq = FALSE, !.run = "stopped", !.ev = "stop"]}
    BY <1>2 DEF H!ToEvent
  <2>2. QED
    BY <1>2, <2>1 DEF Good, Fixed, Kept, HostOK, H!Hosts, H!UnixStates
<1>3. QED
  BY <1>1, <1>2

\* A stop that does not find the subject HALTED finds it stopped or dead, or
\* it runs on behind a signal.
LEMMA StopAndWaitGood ==
  ASSUME NEW h, Good(h), h.st = "ACTIVE"
  PROVE  LET w == H!stopAndWait(h)
         IN  Kept(w, h) /\ (w.st = "ACTIVE" => w.run = "running")
<1> DEFINE k == H!Killed(h, "SIGSTOP")
           e == H!ToEvent(k)
           v == H!procwait(e, TRUE)
           f == H!ToEvent(v)
<1>1. Kept(k, h) /\ k.st = "ACTIVE"
  BY KilledGood
<1> HIDE DEF k
<1>2. Kept(e, h) /\ e.st = "ACTIVE" /\ e.ev # "none"
  BY <1>1, ToEventGood DEF Kept
<1> HIDE DEF e
<1>3. Kept(v, h) /\ (v.st = "ACTIVE" => v.run = "running")
  BY <1>2, ProcwaitGood DEF Kept
<1>4. CASE ~H!Forwards(e)
  <2>1. H!stopAndWait(h) = v
    BY <1>4 DEF H!stopAndWait, v, e, k
  <2>2. QED
    BY <1>3, <2>1
<1>5. CASE H!Forwards(e)
  <2>1. H!stopAndWait(h) = H!procwait(f, TRUE)
    BY <1>5 DEF H!stopAndWait, f, v, e, k
  <2>2. v.st = "ACTIVE"
    BY <1>2, <1>5, ProcwaitOK, StillActive DEF Kept, Good, After
  <2> HIDE DEF v
  <2>3. Kept(f, h) /\ f.ev # "none"
    BY <1>3, <2>2, ToEventGood DEF Kept
  <2> HIDE DEF f
  <2>4. QED
    BY <2>1, <2>3, ProcwaitGood DEF Kept
<1>6. QED
  BY <1>4, <1>5

LEMMA GetstateGood ==
  ASSUME NEW h, Good(h)
  PROVE  Kept(H!getstate(h), h) /\ (h.st # "ACTIVE" => H!getstate(h) = h)
BY ProcwaitGood DEF H!getstate, Kept

LEMMA ReadwriteGood ==
  ASSUME NEW h, Good(h)
  PROVE  /\ Kept(H!readwrite(h), h)
         /\ h.st # "ACTIVE" => H!readwrite(h) = h
         /\ H!readwrite(h).st = "ACTIVE" => H!readwrite(h).run = "running" \/ h.st # "ACTIVE"
<1>1. CASE h.st # "ACTIVE"
  BY <1>1 DEF H!readwrite, Kept
<1>2. CASE h.st = "ACTIVE"
  <2> DEFINE w == H!stopAndWait(h)
  <2>1. Kept(w, h) /\ (w.st = "ACTIVE" => w.run = "running")
    BY <1>2, StopAndWaitGood
  <2>2. w.st = "HALTED" => h.run # "dead" /\ w.ev = "none"
    BY <1>2, HaltedAlive DEF Good
  <2> HIDE DEF w
  <2>3. CASE w.st = "HALTED"
    <3>1. H!readwrite(h) = [w EXCEPT !.st = "ACTIVE", !.run = "running"]
      BY <1>2, <2>3 DEF H!readwrite, w
    <3>2. w.run # "dead"
      BY <2>1, <2>2, <2>3 DEF Kept, Good, HostOK
    <3>3. QED
      BY <1>2, <2>1, <2>2, <2>3, <3>1, <3>2 DEF Kept, Good, Fixed, HostOK, H!Hosts, H!UnixStates
  <2>4. CASE w.st # "HALTED"
    <3>1. H!readwrite(h) \in {w, [w EXCEPT !.sigq = FALSE], [w EXCEPT !.stopq = FALSE]}
      BY <1>2, <2>4 DEF H!readwrite, w
    <3>2. QED
      BY <1>2, <2>1, <3>1 DEF Kept, Good, Fixed, HostOK, H!Hosts, H!UnixStates
  <2>5. QED
    BY <2>3, <2>4
<1>3. QED
  BY <1>1, <1>2

LEMMA CsigGood ==
  ASSUME NEW h, Good(h)
  PROVE  Kept(H!csig(h), h) /\ (H!csig(h).st = "ACTIVE" => h.st = "ACTIVE")
BY DEF H!csig, HostOK, Good, Fixed, Kept, H!Hosts, H!UnixStates

LEMMA DestroyGood ==
  ASSUME NEW h, Good(h)
  PROVE  Kept(H!destroy(h), h) /\ H!destroy(h).st = "ERRORED"
<1>1. CASE h.st = "ERRORED"
  BY <1>1 DEF H!destroy, Kept
<1>2. CASE h.st # "ERRORED"
  <2> DEFINE w == IF h.st = "ACTIVE" THEN H!stopAndWait(h) ELSE h
             d == H!Dead(w)
  <2>1. Kept(w, h)
    BY StopAndWaitGood DEF Kept
  <2> HIDE DEF w
  <2>2. Kept(d, h) /\ d.run = "dead"
    BY <2>1, DeadGood, DeadOK DEF Kept, Good
  <2>3. H!destroy(h) = [d EXCEPT !.st = "ERRORED"]
    BY <1>2 DEF H!destroy, w, d
  <2> HIDE DEF d
  <2>4. QED
    BY <2>2, <2>3 DEF Kept, Good, Fixed, HostOK, H!Hosts, H!UnixStates
<1>3. QED
  BY <1>1, <1>2

LEMMA RunGood ==
  ASSUME NEW h, Good(h), h.st \notin {"ACTIVE", "ERRORED"}
  PROVE  Kept(H!run(h), h) /\ H!run(h).st = "ACTIVE"
BY DEF H!run, HostOK, Good, Fixed, Kept, H!Hosts, H!UnixStates

LEMMA MaskGood ==
  ASSUME NEW h, Good(h), NEW g, g = [h EXCEPT !.mask = ~@]
  PROVE  Kept(g, h) /\ g.st = h.st
BY DEF HostOK, Good, Fixed, Kept, H!Hosts, H!UnixStates

\* An instruction of a subject that is not behind a breakpoint instruction.
LEMMA ExecutedGood ==
  ASSUME NEW h, HostOK(h), NEW mem
  PROVE  LET e == H!Executed(h, mem)
         IN  /\ HostOK(e) /\ e.ev = h.ev /\ e.run = h.run /\ e.st = h.st
             /\ h.off = 0 => e.skipped = h.skipped
             /\ mem[h.pc] # TRAPINST => e.off = 0
<1> DEFINE e == H!Executed(h, mem)
<1>1. HostOK(e) /\ e.ev = h.ev /\ e.run = h.run
  BY ExecutedOK DEF After
<1>2. CASE H!AtTrap(h, mem)
  <2>1. e = [h EXCEPT !.off = 1]
    BY <1>2 DEF H!Executed
  <2> HIDE DEF e
  <2>2. QED
    BY <1>1, <1>2, <2>1 DEF H!AtTrap, HostOK, H!Hosts, e
<1>3. CASE ~H!AtTrap(h, mem)
  <2>1. e = [h EXCEPT !.pc = Succ[@], !.off = 0, !.skipped = @ \/ h.off = 1]
    BY <1>3 DEF H!Executed
  <2>2. e.st = h.st /\ e.off = 0 /\ (h.off = 0 => e.skipped = h.skipped)
    BY <2>1 DEF HostOK, H!Hosts
  <2>3. QED
    BY <1>1, <2>2
<1>4. QED
  BY <1>2, <1>3

LEMMA StepGood ==
  ASSUME NEW h, Good(h), NEW mem, h.run # "dead" => h.st # "ACTIVE"
  PROVE  LET s == H!step(h, mem)
         IN  /\ Good(s) /\ s.st # "ACTIVE"
             /\ Fixed(h) /\ (h.run # "dead" => mem[h.pc] # TRAPINST) => Fixed(s)
             /\ s.st = "BREAKED" => h.run # "dead"
             /\ h.st = "ERRORED" => s.st = "ERRORED"
             /\ s.run = "dead" => h.run = "dead"
<1>1. CASE h.run = "dead"
  <2>1. H!step(h, mem) = H!procwait(h, FALSE)
    BY <1>1 DEF H!step
  <2>2. QED
    BY <1>1, <2>1 DEF H!procwait, H!Forwards, HostOK, Good, Fixed, H!Hosts, H!UnixStates
<1>2. CASE h.run # "dead"
  <2>0. h.run = "stopped" /\ h.ev = "none" /\ h.st # "ERRORED" /\ (Fixed(h) => h.off = 0)
    BY <1>2 DEF Good, HostOK, Fixed, H!Hosts
  <2> DEFINE e == H!Executed(h, mem)
  <2>1. H!step(h, mem) \in {[h EXCEPT !.sigq = FALSE, !.st = "PENDING"],
                            [h EXCEPT !.stopq = FALSE, !.st = "HALTED"],
                            [e EXCEPT !.st = "BREAKED"]}
    BY <1>2 DEF H!step
  <2>2. /\ HostOK(e) /\ e.ev = h.ev /\ e.run = h.run
        /\ h.off = 0 => e.skipped = h.skipped
        /\ mem[h.pc] # TRAPINST => e.off = 0
    BY ExecutedGood DEF Good
  <2> HIDE DEF e
  <2>3. CASE H!step(h, mem) = [e EXCEPT !.st = "BREAKED"]
    BY <1>2, <2>0, <2>2, <2>3 DEF Good, Fixed, HostOK, H!Hosts, H!UnixStates
  <2>4. CASE H!step(h, mem) \in {[h EXCEPT !.sigq = FALSE, !.st = "PENDING"],
                                 [h EXCEPT !.stopq = FALSE, !.st = "HALTED"]}
    BY <1>2, <2>0, <2>4 DEF Good, Fixed, HostOK, H!Hosts, H!UnixStates
  <2>5. QED
    BY <2>1, <2>3, <2>4
<1>3. QED
  BY <1>1, <1>2

LEMMA SubjectMovesGood ==
  ASSUME NEW h, Good(h), h.st = "ACTIVE", NEW mem, NEW g \in H!SubjectMoves(h, mem)
  PROVE  Kept(g, h) /\ g.st = "ACTIVE"
<1>1. h.run = "running" /\ h.ev = "none" /\ (Fixed(h) => h.off = 0) /\ HostOK(h)
  BY DEF H!SubjectMoves, Good, Fixed, HostOK, H!Hosts
<1>2. CASE g \in {[h EXCEPT !.sigq = FALSE, !.run = "stopped", !.ev = "sig"],
                  [h EXCEPT !.stopq = FALSE, !.run = "stopped", !.ev = "stop"]}
  BY <1>1, <1>2 DEF Kept, Good, Fixed, HostOK, H!Hosts, H!UnixStates
<1> DEFINE e == H!Executed(h, mem)
<1>3. /\ HostOK(e) /\ e.run = h.run /\ e.ev = h.ev /\ e.st = h.st
      /\ h.off = 0 => e.skipped = h.skipped
      /\ mem[h.pc] # TRAPINST => e.off = 0
  BY <1>1, ExecutedGood
<1>4. CASE g = [e EXCEPT !.run = "stopped", !.ev = "trap"]
  <2> HIDE DEF e
  <2>1. QED
    BY <1>1, <1>3, <1>4 DEF Kept, Good, Fixed, HostOK, H!Hosts, H!UnixStates
<1>5. CASE g = e /\ ~H!AtTrap(h, mem)
  <2>1. h.off = 0 => mem[h.pc] # TRAPINST
    BY <1>5 DEF H!AtTrap
  <2> HIDE DEF e
  <2>2. QED
    BY <1>1, <1>3, <1>5, <2>1 DEF Kept, Good, Fixed
<1>6. QED
  BY <1>1, <1>2, <1>4, <1>5 DEF H!SubjectMoves

\* A window is open: what the state of the subject may be.
LEMMA AttachedGood ==
  ASSUME NEW a \in Addr
  PROVE  Good(H!attached(a)) /\ Fixed(H!attached(a)) /\ H!attached(a).st = "HALTED"
BY DEF H!attached, Good, Fixed, HostOK, H!Hosts, H!UnixStates


LEMMA CloseGood ==
  ASSUME NEW h, Good(h), Fixed(h)
  PROVE  LET c == H!close(h) IN ~c.skipped /\ (c.run # "dead" => c.off = 0)
<1>1. CASE h.st = "ERRORED"
  BY <1>1 DEF H!close, Good, Fixed, HostOK
<1>2. CASE h.st # "ERRORED"
  <2> DEFINE w == IF h.st = "ACTIVE" THEN H!stopAndWait(h) ELSE H!Killed(h, "SIGSTOP")
  <2>1. H!close(h) = IF w.run = "dead" THEN w ELSE [w EXCEPT !.run = "running"]
    BY <1>2 DEF H!close
  <2>2. Kept(w, h) /\ (w.st = "ACTIVE" => w.run = "running")
    BY StopAndWaitGood, KilledGood
  <2> HIDE DEF w
  <2>3. ~w.skipped /\ (w.run # "dead" => w.off = 0) /\ w \in H!Hosts
    BY <2>2 DEF Kept, Good, Fixed, HostOK, H!Hosts
  <2>4. QED
    BY <2>1, <2>3 DEF H!Hosts
<1>3. QED
  BY <1>1, <1>2

-----------------------------------------------------------------------------
(* The inductive invariant of polling.                                     *)

GoodInv == ctl # "closed" => Good(host)

\* A P_CYCLE is expected and on its way.
Due == cycles > 0 /\ Outstanding > 0

\* The debugger has to come back to the subject.
Needs == (host.st = "ACTIVE" \/ layed) /\ host.st # "ERRORED"

\* The status line is true.
Fresh == shown = host.st \/ (shown = "STEPPED" /\ host.st = "BREAKED")

\* Between two handlers, and where a handler is interrupted, whatever is left
\* to do is due; a handler that is about to poll again has room to count it.
PollInv ==
  /\ cycles \in 0..MaxCycles
  /\ ctl = "runon" => cycles < MaxCycles /\ host.st = "BREAKED"
  /\ ctl = "docycle" /\ host.st \in {"ACTIVE", "BREAKED"} => cycles < MaxCycles
  /\ ctl = "show" => Due
  /\ ctl = "sleep" => host.st = "ACTIVE"
  /\ ctl \in {"idle", "sleep", "stepping", "stepwait"} /\ Needs => Due
  /\ ctl = "idle" /\ ~Fresh => Due

SInv == IInv /\ GoodInv /\ PollInv

\* No step that is under way, or may begin, executes a breakpoint
\* instruction, or waits for a running subject.
Untouched ==
  /\ ctl # "stepwait"
  /\ ctl \in {"stepping", "runon"} \/ Ready =>
       host.st # "ACTIVE" /\ (host.run # "dead" => text[host.pc] # TRAPINST)

LEMMA GoGood ==
  ASSUME NEW p, Good(p), GoFrom(p)
  PROVE  /\ Good(host')
         /\ Fixed(p) /\ (p.st = "BREAKED" /\ p.run # "dead" => text[p.pc] # TRAPINST)
              => Fixed(host')
<1>1. CASE p.st \in {"ACTIVE", "ERRORED"} /\ host' = H!readwrite(p)
  BY <1>1, ReadwriteGood DEF Kept
<1>2. CASE p.st \in {"HALTED", "PENDING"} /\ host' = H!run(p)
  BY <1>2, RunGood DEF Kept
<1>3. CASE p.st = "BREAKED"
  <2> DEFINE s == H!step(p, text)
  <2>1. host' = IF s.st = "BREAKED" THEN H!run(s) ELSE s
    BY <1>3 DEF GoFrom
  <2>2. Good(s) /\ (Fixed(p) /\ (p.run # "dead" => text[p.pc] # TRAPINST) => Fixed(s))
    BY <1>3, StepGood
  <2> HIDE DEF s
  <2>3. s.st = "BREAKED" => Kept(H!run(s), s)
    BY <2>2, RunGood
  <2>4. QED
    BY <1>3, <2>1, <2>2, <2>3 DEF Kept
<1>4. QED
  BY <1>1, <1>2, <1>3 DEF GoFrom


\* A closed window stays closed.
LEMMA OpenStep ==
  ASSUME [Next]_vars, ctl' # "closed"
  PROVE  ctl # "closed"
BY DEF Next, Debugger, User, vars, windowVars, SubjectMove, Die, SendSig, DoCycle, Show,
     RunOn, Wake, StepOne, StepWait, Cycle, DeliverAlarm, Tick, Go, ClearAndGo, ClearPending,
     Stop, StepCmd, SetBpt, ClrBpt, ClearAll, ReadMem, ToggleMask, Kill, Close, Ready, Serving,
     Quiet

LEMMA GoodStep ==
  ASSUME SInv, [Next]_vars, ctl' # "closed"
  PROVE  Good(host') /\ (Fixed(host) /\ Untouched => Fixed(host'))
<1> DEFINE Goal == Good(host') /\ (Fixed(host) /\ Untouched => Fixed(host'))
           p == H!getstate(host)
<1> SUFFICES Goal
  OBVIOUS
<1>o. ctl # "closed"
  BY OpenStep
<1>i. Good(host)
  BY <1>o DEF SInv, GoodInv
<1>k. ASSUME Kept(host', host) PROVE Goal
  BY <1>k DEF Kept
<1>u. CASE UNCHANGED host
  BY <1>i, <1>u
<1>g. Kept(p, host) /\ Kept(H!readwrite(host), host) /\ Kept(H!readwrite(p), host)
  <2>1. Kept(p, host) /\ Kept(H!readwrite(host), host)
    BY <1>i, GetstateGood, ReadwriteGood
  <2>2. Kept(H!readwrite(p), p)
    BY <2>1, ReadwriteGood DEF Kept
  <2>3. QED
    BY <2>1, <2>2 DEF Kept
<1> HIDE DEF Goal
<1>1. CASE SubjectMove
  <2>1. host' \in H!SubjectMoves(host, text)
    BY <1>1 DEF SubjectMove
  <2>2. host.st = "ACTIVE"
    BY <1>i, <2>1 DEF H!SubjectMoves, Good, HostOK
  <2>3. QED
    BY <1>i, <1>k, <2>1, <2>2, SubjectMovesGood
<1>2. CASE Die \/ SendSig
  BY <1>i, <1>k, <1>2, DeadGood, KilledGood DEF Die, SendSig
<1>3. CASE DoCycle \/ Show \/ ReadMem
  BY <1>3, <1>g, <1>k DEF DoCycle, Show, ReadMem
<1>4. CASE RunOn
  <2> DEFINE s == H!step(host, text)
  <2>1. host' = IF s.st = "BREAKED" THEN H!run(s) ELSE s
    BY <1>4 DEF RunOn
  <2>2. host.st = "BREAKED" /\ ctl = "runon"
    BY <1>4 DEF RunOn, SInv, PollInv
  <2>3. Good(s) /\ (Fixed(host) /\ Untouched => Fixed(s))
    BY <1>i, <2>2, StepGood DEF Untouched
  <2> HIDE DEF s
  <2>4. s.st = "BREAKED" => Kept(H!run(s), s)
    BY <2>3, RunGood
  <2>5. QED
    BY <2>1, <2>3, <2>4 DEF Kept, Goal
<1>5. CASE StepOne
  <2> DEFINE h == H!readwrite(host)
  <2>1. Kept(h, host) /\ (h.st = "ACTIVE" => h.run = "running" \/ host.st # "ACTIVE")
    BY <1>i, ReadwriteGood
  <2>2. host.st # "ACTIVE" => h = host
    BY <1>i, ReadwriteGood
  <2>3. host' = IF h.run = "running" THEN h ELSE H!step(h, text)
    BY <1>5 DEF StepOne
  <2>4. ctl = "stepping"
    BY <1>5 DEF StepOne
  <2> HIDE DEF h
  <2>5. CASE h.run = "running"
    BY <1>k, <2>1, <2>3, <2>5
  <2>6. CASE h.run # "running"
    <3>1. h.st # "ACTIVE"
      BY <2>1, <2>2, <2>6
    <3>2. Good(h) /\ (Fixed(host) => Fixed(h))
      BY <2>1 DEF Kept
    <3>3. /\ Good(H!step(h, text))
          /\ Fixed(h) /\ (h.run # "dead" => text[h.pc] # TRAPINST) => Fixed(H!step(h, text))
      BY <3>1, <3>2, StepGood
    <3>4. Untouched => h = host /\ (h.run # "dead" => text[h.pc] # TRAPINST)
      BY <2>2, <2>4 DEF Untouched
    <3>5. QED
      BY <2>3, <2>6, <3>2, <3>3, <3>4 DEF Goal
  <2>7. QED
    BY <2>5, <2>6
<1>6. CASE StepWait
  <2>1. host' = H!procwait(host, FALSE) /\ ctl = "stepwait"
    BY <1>6 DEF StepWait
  <2>2. QED
    BY <1>i, <2>1, ProcwaitGood DEF Untouched, Goal
<1>7. CASE Go
  <2>1. Ready /\ GoFrom(p)
    BY <1>7 DEF Go
  <2>2. /\ Good(host')
        /\ Fixed(p) /\ (p.st = "BREAKED" /\ p.run # "dead" => text[p.pc] # TRAPINST)
             => Fixed(host')
    BY <1>g, <2>1, GoGood DEF Kept
  <2>3. host.st # "ACTIVE" => p = host
    BY <1>i, GetstateGood
  <2>4. QED
    BY <1>g, <2>1, <2>2, <2>3 DEF Kept, Untouched, Goal
<1>8. CASE ClearAndGo \/ ClearPending
  <2> DEFINE c == H!csig(host)
             q == H!getstate(c)
  <2>1. Kept(c, host)
    BY <1>i, CsigGood
  <2>2. Kept(q, host) /\ (c.st # "ACTIVE" => q = c)
    BY <2>1, GetstateGood DEF Kept
  <2>3. Kept(H!readwrite(q), host)
    BY <2>2, ReadwriteGood DEF Kept
  <2>4. CASE ClearPending
    BY <1>k, <2>3, <2>4 DEF ClearPending
  <2>5. CASE ClearAndGo
    <3>1. GoFrom(q) /\ host.st = "PENDING"
      BY <2>5 DEF ClearAndGo
    <3>2. c.st = "HALTED"
      BY <1>i, <3>1 DEF H!csig, Good, HostOK, H!Hosts
    <3>3. q.st = "HALTED"
      BY <2>2, <3>2
    <3> HIDE DEF q
    <3>4. QED
      BY <2>2, <3>1, <3>3, GoGood DEF Kept, Goal
  <2>6. QED
    BY <1>8, <2>4, <2>5
<1>9. CASE Stop
  <2>1. Kept(H!Killed(p, "SIGSTOP"), p)
    BY <1>g, KilledGood DEF Kept
  <2>2. Kept(H!Killed(p, "SIGSTOP"), host)
    BY <1>g, <2>1 DEF Kept
  <2>3. QED
    BY <1>9, <1>g, <1>k, <2>2 DEF Stop
<1>10. ASSUME NEW a \in Addr, SetBpt(a) \/ ClrBpt(a) PROVE Goal
  BY <1>10, <1>g, <1>k, <1>u DEF SetBpt, ClrBpt, Goal
<1>11. CASE ClearAll
  BY <1>11, <1>g, <1>k, <1>u DEF ClearAll, Goal
<1>12. CASE ToggleMask \/ Kill
  BY <1>12, <1>i, <1>k, MaskGood, DestroyGood DEF ToggleMask, Kill
<1>13. CASE Wake \/ StepCmd \/ Cycle \/ DeliverAlarm \/ Tick \/ UNCHANGED vars
  BY <1>u, <1>13 DEF Wake, StepCmd, Cycle, DeliverAlarm, Tick, vars, Goal
<1>14. QED
  BY <1>1, <1>2, <1>3, <1>4, <1>5, <1>6, <1>7, <1>8, <1>9, <1>10, <1>11, <1>12, <1>13
  DEF Next, Debugger, User, Close


-----------------------------------------------------------------------------
(* The terminal's clock and its lines.                                     *)

LEMMA TerminalKeeps ==
  ASSUME TypeOK, DeliverAlarm \/ Tick, Outstanding > 0
  PROVE  Outstanding' > 0
<1> USE DEF TypeOK, Outstanding
<1>1. CASE DeliverAlarm
  <2>1. /\ Head(alarmq) \in {0, 1} /\ Len(alarmq') \in Nat
        /\ ticks' = Head(alarmq)
        /\ cyc' = IF Head(alarmq) = 0 THEN cyc + 1 ELSE cyc
    BY <1>1 DEF DeliverAlarm
  <2>2. QED
    BY <2>1
<1>2. CASE Tick
  BY <1>2 DEF Tick
<1>3. QED
  BY <1>1, <1>2

LEMMA AlarmDue ==
  ASSUME TypeOK, MaxCycles \in 0..CharMax, cycles \in 0..MaxCycles, cycles < MaxCycles,
         NEW n \in {0, 1}, Alarm(n), UNCHANGED <<ticks, cyc>>
  PROVE  Due' /\ cycles' \in 0..MaxCycles
<1>1. cycles' = cycles + 1
  BY RunControlAssumption DEF Alarm, CharInc
<1>2. Outstanding' = Outstanding + 1 /\ Outstanding \in Nat
  BY DEF Alarm, Outstanding, TypeOK
<1>3. QED
  BY <1>1, <1>2, RunControlAssumption DEF Due

-----------------------------------------------------------------------------
(* Every step keeps PollInv.                                               *)

\* What leaves the handlers, the list's state and the clock alone.
LEMMA PollQuiet ==
  ASSUME PollInv, ctl' = ctl, layed' = layed, UNCHANGED <<cycles, shown, termVars>>,
         host'.st = host.st \/ (ctl = "idle" /\ host.st = "ACTIVE")
  PROVE  PollInv'
<1>1. Due' = Due
  BY DEF Due, Outstanding, termVars
<1> HIDE DEF Due
<1>2. CASE host'.st = host.st
  <2>1. Needs' = Needs /\ Fresh' = Fresh
    BY <1>2 DEF Needs, Fresh
  <2> HIDE DEF Needs, Fresh
  <2>2. QED
    BY <1>1, <1>2, <2>1 DEF PollInv
<1>3. CASE ctl = "idle" /\ host.st = "ACTIVE"
  <2>1. Due
    BY <1>3 DEF PollInv, Needs
  <2>2. QED
    BY <1>1, <1>3, <2>1 DEF PollInv
<1>4. QED
  BY <1>2, <1>3

LEMMA PollAfterStep ==
  ASSUME PollInv, Needs => Due, UNCHANGED <<cycles, termVars, layed>>,
         AfterStep(host'), host'.st # "ACTIVE",
         host'.st = "BREAKED" => host.st # "ERRORED"
  PROVE  PollInv'
<1>1. Due' = Due
  BY DEF Due, Outstanding, termVars
<1>2. host'.st = "BREAKED" /\ Needs' => Needs
  BY DEF Needs
<1> HIDE DEF Due
<1>3. CASE host'.st = "BREAKED"
  <2>1. Needs' => Due'
    BY <1>1, <1>2, <1>3
  <2>2. ctl' = "idle" => Fresh'
    BY <1>3 DEF AfterStep, Fresh
  <2>3. ctl' \in {"stepping", "idle"} /\ cycles' \in 0..MaxCycles
    BY <1>3 DEF AfterStep, PollInv
  <2>4. QED
    BY <2>1, <2>2, <2>3 DEF PollInv
<1>4. CASE host'.st # "BREAKED"
  <2>1. ctl' = "docycle" /\ cycles' \in 0..MaxCycles
    BY <1>4 DEF AfterStep, PollInv
  <2>2. QED
    BY <1>4, <2>1 DEF PollInv
<1>5. QED
  BY <1>3, <1>4

\* The debugger's own steps.
LEMMA PollDebugger ==
  ASSUME SInv, MaxCycles \in 0..CharMax, Debugger
  PROVE  PollInv'
<1> DEFINE p == H!getstate(host)
<1>i. TypeOK /\ PollInv
  BY DEF SInv, IInv
<1>h. ctl # "closed" /\ Good(host)
  BY DEF SInv, GoodInv, Debugger, DoCycle, Show, RunOn, Wake, StepOne, StepWait
<1>g. host.st # "ACTIVE" => p = host /\ H!readwrite(host) = host
  BY <1>h, GetstateGood, ReadwriteGood
<1>1. CASE DoCycle
  <2>1. CASE p.st = "ACTIVE"
    <3>1. /\ Alarm(1) /\ UNCHANGED <<ticks, cyc>> /\ ctl' = "show"
      BY <1>1, <2>1 DEF DoCycle, HasCondition
    <3>2. cycles < MaxCycles
      BY <1>1, <1>g, <1>i, <2>1 DEF DoCycle, PollInv
    <3>3. Due' /\ cycles' \in 0..MaxCycles
      BY <1>i, <3>1, <3>2, AlarmDue DEF PollInv
    <3>4. QED
      BY <3>1, <3>3 DEF PollInv
  <2>2. CASE p.st # "ACTIVE"
    <3>1. host' = p /\ cycles' = cycles /\ ctl' \in {"idle", "runon"}
      BY <1>1, <2>2 DEF DoCycle, NoAlarm
    <3>2. CASE ctl' = "idle"
      <4>1. shown' = host'.st
        BY <1>1, <3>1, <3>2 DEF DoCycle
      <4>2. p.st # "ERRORED" => layed' = FALSE
        <5>1. p.st \in H!UnixStates
          BY <1>h, GetstateGood DEF Kept, Good, HostOK, H!Hosts
        <5>2. p.st # "ERRORED" => lift(Reach(p), FALSE)
          BY <1>1, <2>2, <5>1 DEF DoCycle, H!UnixStates
        <5>3. QED
          BY <5>2 DEF lift
      <4>3. ~Needs' /\ Fresh'
        BY <2>2, <3>1, <4>1, <4>2 DEF Needs, Fresh
      <4>4. QED
        BY <1>i, <3>1, <3>2, <4>3 DEF PollInv
    <3>3. CASE ctl' = "runon"
      <4>1. p.st = "BREAKED"
        BY <1>1, <2>2, <3>3 DEF DoCycle, HasCondition
      <4>2. host.st \in {"ACTIVE", "BREAKED"}
        BY <1>g, <4>1
      <4>3. QED
        BY <1>1, <1>i, <3>1, <3>3, <4>1, <4>2 DEF DoCycle, PollInv
    <3>4. QED
      BY <3>1, <3>2, <3>3
  <2>3. QED
    BY <2>1, <2>2
<1>2. CASE Show
  <2>1. ctl' = "idle" /\ Due /\ UNCHANGED <<cycles, termVars>>
    BY <1>2, <1>i DEF Show, PollInv
  <2>2. Due'
    BY <2>1 DEF Due, Outstanding, termVars
  <2>3. QED
    BY <1>i, <2>1, <2>2 DEF PollInv
<1>3. CASE RunOn
  <2>1. Alarm(0) /\ UNCHANGED <<ticks, cyc>> /\ ctl' = "idle" /\ cycles < MaxCycles
    BY <1>3, <1>i DEF RunOn, PollInv
  <2>2. Due' /\ cycles' \in 0..MaxCycles
    BY <1>i, <2>1, AlarmDue DEF PollInv
  <2>3. QED
    BY <2>1, <2>2 DEF PollInv
<1>4. CASE Wake
  <2>1. cycles > 0
    BY <1>4, <1>i DEF Wake, PollInv, Needs, Due
  <2>2. ctl' = "docycle" /\ cycles' = cycles - 1
    BY <1>4, <2>1 DEF Wake
  <2>3. cycles' \in 0..MaxCycles /\ cycles' < MaxCycles
    BY <1>i, <2>1, <2>2, RunControlAssumption DEF PollInv
  <2>4. QED
    BY <2>2, <2>3 DEF PollInv
<1>5. CASE StepOne
  <2> DEFINE h == H!readwrite(host)
             s == H!step(h, text)
  <2>1. /\ ctl = "stepping" /\ (Needs => Due)
        /\ UNCHANGED <<cycles, termVars, layed>>
    BY <1>5, <1>i DEF StepOne, PollInv, bptsVars
  <2>2. Good(h) /\ (h.st = "ACTIVE" => h.run = "running")
    BY <1>h, <1>g, ReadwriteGood DEF Kept
  <2>3. CASE h.run = "running"
    <3>1. host' = h /\ ctl' = "stepwait"
      BY <1>5, <2>3 DEF StepOne
    <3>2. host.st = "ACTIVE"
      BY <1>g, <1>h, <2>3 DEF Good
    <3>3. Due
      BY <2>1, <3>2 DEF Needs
    <3>4. Due'
      BY <2>1, <3>3 DEF Due, Outstanding, termVars
    <3>5. QED
      BY <1>i, <2>1, <3>1, <3>4 DEF PollInv
  <2>4. CASE h.run # "running"
    <3>1. host' = s /\ AfterStep(host')
      BY <1>5, <2>4 DEF StepOne
    <3>2. s.st # "ACTIVE" /\ (h.st = "ERRORED" => s.st = "ERRORED")
      BY <2>2, <2>4, StepGood
    <3>3. host.st = "ERRORED" => h.st = "ERRORED"
      BY <1>g
    <3>4. QED
      BY <1>i, <2>1, <3>1, <3>2, <3>3, PollAfterStep
  <2>5. QED
    BY <2>3, <2>4
<1>6. CASE StepWait
  <2>1. /\ ctl = "stepwait" /\ (Needs => Due) /\ host.ev # "none"
        /\ UNCHANGED <<cycles, termVars, layed>> /\ host' = H!procwait(host, FALSE)
    BY <1>6, <1>i DEF StepWait, PollInv, bptsVars
  <2>2. CASE H!Forwards(host)
    <3>1. UNCHANGED <<ctl, shown>> /\ host'.st = host.st
      BY <1>6, <1>h, <2>1, <2>2, WaitedGood DEF StepWait
    <3>2. QED
      BY <1>i, <2>1, <3>1, PollQuiet
  <2>3. CASE ~H!Forwards(host)
    <3>1. AfterStep(host')
      BY <1>6, <2>3 DEF StepWait
    <3>2. host'.st # "ACTIVE" /\ (host.st = "ERRORED" => host'.st = "ERRORED")
      BY <1>h, <2>1, <2>3, WaitedGood
    <3>3. QED
      BY <1>i, <2>1, <3>1, <3>2, PollAfterStep
  <2>4. QED
    BY <2>2, <2>3
<1>7. QED
  BY <1>1, <1>2, <1>3, <1>4, <1>5, <1>6 DEF Debugger


\* The user's commands.
LEMMA PollUser ==
  ASSUME SInv, User
  PROVE  PollInv'
<1> DEFINE p == H!getstate(host)
           q == H!getstate(H!csig(host))
<1>i. TypeOK /\ PollInv
  BY DEF SInv, IInv
<1>s. Serving /\ ctl = "idle"
  BY DEF User, Go, ClearAndGo, ClearPending, Stop, StepCmd, SetBpt, ClrBpt, ClearAll, ReadMem,
     ToggleMask, Kill, Close, Ready, Serving
<1>h. Good(host)
  BY <1>s DEF SInv, GoodInv
<1>g. /\ host.st # "ACTIVE" => p = host /\ H!readwrite(host) = host
      /\ host.st # "ACTIVE" => H!readwrite(p) = host
  <2>1. host.st # "ACTIVE" => p = host /\ H!readwrite(host) = host
    BY <1>h, GetstateGood, ReadwriteGood
  <2>2. QED
    BY <2>1
<1>d. Needs => Due
  BY <1>i, <1>s DEF PollInv
<1>c. UNCHANGED <<cycles, termVars>> => Due' = Due /\ cycles' \in 0..MaxCycles
  BY <1>i DEF Due, Outstanding, termVars, PollInv
<1>1. CASE Go \/ ClearAndGo
  <2>1. /\ cycles < MaxCycles /\ UNCHANGED <<cycles, termVars>> /\ ctl' = "docycle"
    BY <1>1 DEF Go, ClearAndGo, GoFrom
  <2>2. QED
    BY <1>c, <2>1 DEF PollInv
<1>2. CASE ClearPending
  <2>1. /\ cycles < MaxCycles /\ UNCHANGED <<cycles, termVars, layed>>
        /\ host' = H!readwrite(q)
        /\ \/ ctl' = "idle" /\ shown' = q.st
           \/ q.st = "BREAKED" /\ ctl' = "runon"
    BY <1>2 DEF ClearPending, HasCondition, bptsVars
  <2>2. Kept(H!csig(host), host) /\ (H!csig(host).st = "ACTIVE" => host.st = "ACTIVE")
    BY <1>h, CsigGood
  <2>3. Good(q) /\ (H!csig(host).st # "ACTIVE" => q = H!csig(host))
    BY <2>2, GetstateGood DEF Kept
  <2>4. q.st # "ACTIVE" => host' = q
    BY <2>1, <2>3, ReadwriteGood
  <2>5. CASE host.st = "ACTIVE"
    <3>1. Due' /\ cycles' \in 0..MaxCycles
      BY <1>c, <1>d, <2>1, <2>5 DEF Needs
    <3>2. ctl' = "runon" => cycles' < MaxCycles /\ host'.st = "BREAKED"
      BY <2>1, <2>4
    <3>3. ctl' \in {"idle", "runon"}
      BY <2>1
    <3>4. QED
      BY <3>1, <3>2, <3>3 DEF PollInv
  <2>6. CASE host.st # "ACTIVE"
    <3>1. q = H!csig(host) /\ q.st # "ACTIVE"
      BY <2>2, <2>3, <2>6
    <3>2. host.st = "ERRORED" => q.st = "ERRORED"
      <4>1. host.st = "ERRORED" => H!csig(host).st = "ERRORED"
        BY <1>h DEF H!csig, Good, HostOK, H!Hosts
      <4>2. QED
        BY <3>1, <4>1
    <3>3. host' = q
      BY <2>4, <3>1
    <3> HIDE DEF q
    <3>4. Needs' => Needs
      BY <2>1, <3>1, <3>2, <3>3 DEF Needs
    <3>5. Needs' => Due'
      BY <1>c, <1>d, <2>1, <3>4
    <3>6. cycles' \in 0..MaxCycles /\ cycles' = cycles
      BY <1>c, <2>1
    <3>7. CASE ctl' = "idle" /\ shown' = q.st
      BY <3>3, <3>5, <3>6, <3>7 DEF PollInv, Fresh
    <3>8. CASE q.st = "BREAKED" /\ ctl' = "runon"
      BY <2>1, <3>3, <3>6, <3>8 DEF PollInv
    <3>9. QED
      BY <2>1, <3>7, <3>8
  <2>7. QED
    BY <2>5, <2>6
<1>3. CASE Stop
  <2>1. UNCHANGED <<cycles, termVars, layed>>
    BY <1>3 DEF Stop, bptsVars
  <2>2. CASE p.st = "ACTIVE"
    <3>1. host' = H!Killed(p, "SIGSTOP") /\ ctl' = "sleep"
      BY <1>3, <2>2 DEF Stop
    <3>2. Good(p)
      BY <1>h, GetstateGood DEF Kept
    <3>3. host'.st = "ACTIVE"
      BY <2>2, <3>1, <3>2, KilledGood
    <3>4. Due' /\ cycles' \in 0..MaxCycles
      BY <1>c, <1>d, <1>g, <2>1, <2>2 DEF Needs
    <3>5. QED
      BY <3>1, <3>3, <3>4 DEF PollInv
  <2>3. CASE p.st # "ACTIVE"
    <3>1. host' = p /\ shown' = p.st /\ ctl' = "idle"
      BY <1>3, <1>s, <2>3 DEF Stop
    <3>2. host.st = "ERRORED" => p.st = "ERRORED"
      BY <1>g
    <3> HIDE DEF p
    <3>3. Needs' => Needs
      BY <2>1, <2>3, <3>1, <3>2 DEF Needs
    <3>4. Needs' => Due'
      BY <1>c, <1>d, <2>1, <3>3
    <3>5. QED
      BY <1>c, <2>1, <3>1, <3>4 DEF PollInv, Fresh
  <2>4. QED
    BY <2>2, <2>3
<1>4. CASE StepCmd
  <2>1. UNCHANGED <<cycles, termVars, layed, host>> /\ ctl' = "stepping"
    BY <1>4 DEF StepCmd, bptsVars
  <2>2. Needs' => Due'
    BY <1>c, <1>d, <2>1 DEF Needs
  <2>3. QED
    BY <1>c, <2>1, <2>2 DEF PollInv
<1>q. ASSUME UNCHANGED <<windowVars, termVars>>, layed' = layed,
             host'.st = host.st \/ host' \in {H!readwrite(host), H!readwrite(p), p}
      PROVE  PollInv'
  <2>1. ctl' = ctl /\ UNCHANGED <<cycles, shown, termVars>>
    BY <1>q DEF windowVars
  <2>2. host'.st = host.st \/ host.st = "ACTIVE"
    BY <1>g, <1>q
  <2>3. QED
    BY <1>i, <1>s, <1>q, <2>1, <2>2, PollQuiet
<1>5. ASSUME NEW a \in Addr, SetBpt(a) \/ ClrBpt(a) PROVE PollInv'
  BY <1>5, <1>q DEF SetBpt, ClrBpt, set, clr
<1>6. CASE ClearAll \/ ReadMem
  BY <1>6, <1>q DEF ClearAll, ReadMem, clearall, bptsVars
<1>7. CASE ToggleMask
  <2>1. host'.st = host.st
    BY <1>7, <1>h, MaskGood DEF ToggleMask
  <2>2. QED
    BY <1>7, <1>q, <2>1 DEF ToggleMask, bptsVars
<1>8. CASE Kill
  <2>1. host'.st = "ERRORED" /\ ctl' = "docycle" /\ cycles' = cycles
    BY <1>8, <1>h, DestroyGood DEF Kill
  <2>2. QED
    BY <1>i, <2>1 DEF PollInv
<1>9. CASE Close
  BY <1>9, <1>i DEF Close, PollInv
<1>10. QED
  BY <1>1, <1>2, <1>3, <1>4, <1>5, <1>6, <1>7, <1>8, <1>9 DEF User

LEMMA PollStep ==
  ASSUME SInv, MaxCycles \in 0..CharMax, [Next]_vars
  PROVE  PollInv'
<1>i. TypeOK /\ PollInv
  BY DEF SInv, IInv
<1>1. CASE Debugger \/ User
  BY <1>1, PollDebugger, PollUser
<1>2. CASE SubjectMove \/ Die \/ SendSig
  <2>1. ctl # "closed" => Good(host)
    BY DEF SInv, GoodInv
  <2>2. HostOK(host)
    BY DEF SInv, IInv
  <2>3. host'.st = host.st
    <3>1. CASE SubjectMove
      <4> DEFINE e == H!Executed(host, text)
      <4>1. HostOK(e) /\ e.st = host.st
        BY <2>2, ExecutedGood
      <4>2. host' \in {[host EXCEPT !.sigq = FALSE, !.run = "stopped", !.ev = "sig"],
                       [host EXCEPT !.stopq = FALSE, !.run = "stopped", !.ev = "stop"],
                       [e EXCEPT !.run = "stopped", !.ev = "trap"], e}
        BY <3>1 DEF SubjectMove, H!SubjectMoves
      <4> HIDE DEF e
      <4>3. QED
        BY <2>2, <4>1, <4>2 DEF HostOK, H!Hosts
    <3>2. CASE Die \/ SendSig
      BY <2>1, <3>2, DeadGood, KilledGood DEF Die, SendSig
    <3>3. QED
      BY <1>2, <3>1, <3>2
  <2>4. layed' = layed /\ ctl' = ctl /\ UNCHANGED <<cycles, shown, termVars>>
    BY <1>2 DEF SubjectMove, Die, SendSig, bptsVars, windowVars
  <2>5. QED
    BY <1>i, <2>3, <2>4, PollQuiet
<1>3. CASE Cycle
  <2>1. ctl = "idle" /\ UNCHANGED <<host, shown, layed>>
    BY <1>3 DEF Cycle, bptsVars
  <2>2. CASE cycles > 0
    <3>1. ctl' = "docycle" /\ cycles' = cycles - 1
      BY <1>3, <2>2 DEF Cycle
    <3>2. cycles' \in 0..MaxCycles /\ cycles' < MaxCycles
      BY <1>i, <2>2, <3>1, RunControlAssumption DEF PollInv
    <3>3. QED
      BY <3>1, <3>2 DEF PollInv
  <2>3. CASE ~(cycles > 0)
    <3>1. ~Needs /\ Fresh
      BY <1>i, <2>1, <2>3 DEF PollInv, Due
    <3>2. ~Needs' /\ Fresh'
      BY <2>1, <3>1 DEF Needs, Fresh
    <3>3. ctl' = "idle" /\ cycles' = cycles
      BY <1>3, <2>1, <2>3 DEF Cycle
    <3>4. QED
      BY <1>i, <3>2, <3>3 DEF PollInv
  <2>4. QED
    BY <2>2, <2>3
<1>4. CASE DeliverAlarm \/ Tick
  <2>1. UNCHANGED <<host, cycles, shown, ctl, layed>>
    BY <1>4 DEF DeliverAlarm, Tick, bptsVars, windowVars
  <2>2. Due => Due'
    BY <1>i, <1>4, <2>1, TerminalKeeps DEF Due
  <2>3. Needs' = Needs /\ Fresh' = Fresh
    BY <2>1 DEF Needs, Fresh
  <2> HIDE DEF Due, Needs, Fresh
  <2>4. QED
    BY <1>i, <2>1, <2>2, <2>3 DEF PollInv
<1>5. CASE UNCHANGED vars
  BY <1>i, <1>5, PollQuiet DEF vars, bptsVars, windowVars
<1>6. QED
  BY <1>1, <1>2, <1>3, <1>4, <1>5 DEF Next

LEMMA PollInit == MaxCycles \in 0..CharMax /\ Init => SInv
<1> SUFFICES ASSUME MaxCycles \in 0..CharMax, Init PROVE SInv
  OBVIOUS
<1>1. Good(host) /\ host.st = "HALTED"
  BY AttachedGood, RunControlAssumption DEF Init
<1>2. cycles = 0 /\ ctl = "docycle" /\ 0 \in 0..MaxCycles
  BY RunControlAssumption DEF Init
<1>3. QED
  BY <1>1, <1>2, InitOK DEF SInv, GoodInv, PollInv

\* The char that counts the polls does not wrap.
LEMMA PollInductive ==
  ASSUME MaxCycles \in 0..CharMax
  PROVE  Spec => []SInv
<1>1. SInv /\ [Next]_vars => SInv'
  <2> SUFFICES ASSUME SInv, [Next]_vars PROVE SInv'
    OBVIOUS
  <2>1. IInv'
    BY IInvStep DEF SInv
  <2>2. GoodInv'
    BY GoodStep DEF GoodInv
  <2>3. PollInv'
    BY PollStep
  <2>4. QED
    BY <2>1, <2>2, <2>3 DEF SInv
<1>2. Init => SInv
  BY PollInit
<1>3. QED
  BY <1>1, <1>2, PTL DEF Spec

\* Polled: while the subject runs, or its traps are laid, and the debugger is
\* in its event loop, a P_CYCLE is expected and is on its way or will be sent
\* by the terminal's clock.  The user stops clicking "run" before the char
\* that counts the polls wraps.
THEOREM IsPolled ==
  ASSUME MaxCycles \in 0..CharMax
  PROVE  Spec => []Polled
<1>1. SInv => Polled
  BY DEF SInv, PollInv, Polled, Needs, Due
<1>2. QED
  BY <1>1, PollInductive, PTL

\* SettledIsTrue: a subject whose window nothing is about to change does not
\* run, has its own text and no event that was not fetched while it lives, and
\* the status line tells the state it was found in.
THEOREM SettledTrue ==
  ASSUME MaxCycles \in 0..CharMax
  PROVE  Spec => []SettledIsTrue
<1>1. SInv => SettledIsTrue
  <2> SUFFICES ASSUME SInv, Quiet
               PROVE  /\ host.run # "running"
                      /\ host.run # "dead" => host.ev = "none" /\ text = Code
                      /\ Fresh
                      /\ shown # "ACTIVE" /\ (shown = "ERRORED" => host.run = "dead")
    BY DEF SettledIsTrue, Fresh
  <2>1. ctl = "idle" /\ ~Due
    BY DEF Quiet, Due
  <2>2. Fresh /\ ~Needs
    BY <2>1 DEF SInv, PollInv
  <2>3. Good(host)
    BY <2>1 DEF SInv, GoodInv
  <2>4. host.run # "dead" => host.st \notin {"ACTIVE", "ERRORED"} /\ ~layed
    BY <2>2, <2>3 DEF Needs, Good, HostOK
  <2>5. host.run # "dead" => text = Code
    <3>1. host.run # "dead" => text = [a \in Addr |-> Code[a]]
      BY <2>4 DEF SInv, IInv, Own
    <3>2. QED
      BY <3>1, RunControlAssumption
  <2>6. host.run # "running" /\ (host.run # "dead" => host.ev = "none")
    BY <2>3, <2>4 DEF Good
  <2>7. shown # "ACTIVE" /\ (shown = "ERRORED" => host.run = "dead")
    BY <2>2, <2>3 DEF Fresh, Needs, Good, HostOK
  <2>8. QED
    BY <2>2, <2>5, <2>6, <2>7
<1>2. QED
  BY <1>1, PollInductive, PTL

-----------------------------------------------------------------------------
(* A patient user.                                                         *)

\* The debugger knows that the subject does not run, and a live one has its
\* own text.
Settled == host.st # "ACTIVE" /\ (host.run # "dead" => ~layed)

PatientInv ==
  /\ ctl # "closed" => Fixed(host)
  /\ ctl = "closed" => ~host.skipped /\ (host.run # "dead" => host.off = 0)
  /\ ctl # "stepwait"
  /\ ctl \in {"stepping", "runon"} => Settled

\* The program has no breakpoint instruction of its own.
NoTrapInCode == \A a \in Addr : Code[a] # TRAPINST

\* A window that is settled is not polled, so that its traps are lifted.
LEMMA ReadySettled ==
  ASSUME SInv, Ready, ~hasty'
  PROVE  Settled
<1>0. Quiet
  BY Zenon DEF Ready
<1>1. ctl = "idle" /\ ~Due
  BY <1>0 DEF Quiet, Due
<1>2. ~Needs
  BY <1>1 DEF SInv, PollInv
<1>3. host.st = "ERRORED" => host.run = "dead"
  BY DEF SInv, IInv, HostOK
<1>4. QED
  BY <1>2, <1>3 DEF Needs, Settled

LEMMA UnlayedText ==
  ASSUME IInv, NoTrapInCode, host.run # "dead", ~layed
  PROVE  text[host.pc] # TRAPINST
<1>1. host.pc \in Addr
  BY DEF IInv, HostOK, H!Hosts
<1>2. text[host.pc] = Code[host.pc]
  BY <1>1 DEF IInv, Own
<1>3. QED
  BY <1>1, <1>2 DEF NoTrapInCode

LEMMA PatientUntouched ==
  ASSUME SInv, PatientInv, ~hasty', NoTrapInCode
  PROVE  Untouched
<1>1. ctl \in {"stepping", "runon"} \/ Ready => Settled
  BY ReadySettled DEF PatientInv
<1>2. Settled => (host.run # "dead" => text[host.pc] # TRAPINST)
  BY UnlayedText DEF Settled, SInv
<1>3. QED
  BY <1>1, <1>2 DEF Untouched, Settled, PatientInv

\* A subject that was let go runs its own text.
LEMMA LetGoStep ==
  ASSUME SInv, PatientInv, NoTrapInCode, [Next]_vars, ctl' = "closed"
  PROVE  ~host'.skipped /\ (host'.run # "dead" => host'.off = 0)
<1>1. CASE ctl # "closed"
  <2>1. Close
    BY <1>1 DEF Next, Debugger, User, vars, windowVars, SubjectMove, Die, SendSig, DoCycle,
       Show, RunOn, Wake, StepOne, StepWait, AfterStep, Cycle, DeliverAlarm, Tick, Go,
       ClearAndGo, ClearPending, GoFrom, Stop, StepCmd, SetBpt, ClrBpt, ClearAll, ReadMem,
       ToggleMask, Kill
  <2>2. Good(host) /\ Fixed(host)
    BY <1>1 DEF SInv, GoodInv, PatientInv
  <2> DEFINE p == H!getstate(host)
             h == IF layed /\ trap # {} THEN H!readwrite(p) ELSE host
  <2>3. Kept(p, host)
    BY <2>2, GetstateGood
  <2>4. Kept(H!readwrite(p), p)
    BY <2>3, ReadwriteGood DEF Kept
  <2>5. Good(h) /\ Fixed(h)
    BY <2>2, <2>3, <2>4 DEF Kept
  <2>6. host' = H!close(h)
    BY <2>1 DEF Close
  <2> HIDE DEF h
  <2>7. QED
    BY <2>5, <2>6, CloseGood
<1>2. CASE ctl = "closed"
  <2>1. UNCHANGED host \/ (host' \in H!SubjectMoves(host, text))
    BY <1>2 DEF Next, Debugger, User, vars, SubjectMove, Die, SendSig, DoCycle, Show,
       RunOn, Wake, StepOne, StepWait, Cycle, DeliverAlarm, Tick, Go, ClearAndGo, ClearPending,
       Stop, StepCmd, SetBpt, ClrBpt, ClearAll, ReadMem, ToggleMask, Kill, Close, Ready,
       Serving, Quiet
  <2>2. HostOK(host) /\ ~host.skipped /\ (host.run # "dead" => host.off = 0) /\ ~layed
    BY <1>2 DEF SInv, IInv, PatientInv
  <2>3. ASSUME host' \in H!SubjectMoves(host, text)
        PROVE  ~host'.skipped /\ host'.off = 0
    <3> DEFINE e == H!Executed(host, text)
    <3>1. host.run = "running"
      BY <2>3 DEF H!SubjectMoves
    <3>2. text[host.pc] # TRAPINST
      BY <2>2, <3>1, UnlayedText DEF SInv
    <3>3. HostOK(e) /\ e.skipped = host.skipped /\ e.off = 0
      BY <2>2, <3>1, <3>2, ExecutedGood
    <3>4. host' \in {[host EXCEPT !.sigq = FALSE, !.run = "stopped", !.ev = "sig"],
                     [host EXCEPT !.stopq = FALSE, !.run = "stopped", !.ev = "stop"],
                     [e EXCEPT !.run = "stopped", !.ev = "trap"], e}
      BY <2>3 DEF H!SubjectMoves
    <3> HIDE DEF e
    <3>5. QED
      BY <2>2, <3>1, <3>3, <3>4 DEF HostOK, H!Hosts
  <2>4. QED
    BY <2>1, <2>2, <2>3
<1>3. QED
  BY <1>1, <1>2

\* Steps begin on a settled window, and its traps stay lifted until it runs.
LEMMA SettledStep ==
  ASSUME SInv, PatientInv, ~hasty', [Next]_vars
  PROVE  ctl' # "stepwait" /\ (ctl' \in {"stepping", "runon"} => Settled')
<1>i. HostOK(host) /\ (ctl # "closed" => Good(host)) /\ ctl # "stepwait"
  BY DEF SInv, IInv, GoodInv, PatientInv
<1>l. host'.run # "dead" => host.run # "dead"
  BY <1>i, HostStep DEF After
<1>r. Ready => Settled
  BY ReadySettled
<1>s. ctl \in {"stepping", "runon"} => Settled
  BY DEF PatientInv
<1>1. CASE DoCycle
  <2> DEFINE p == H!getstate(host)
  <2>1. ctl' # "stepwait" /\ (ctl' \in {"stepping", "runon"} => p.st = "BREAKED" /\ host' = p)
    BY <1>1 DEF DoCycle, HasCondition
  <2>2. p.st = "BREAKED" => lift(Reach(p), FALSE)
    BY <1>1 DEF DoCycle
  <2> HIDE DEF p
  <2>3. QED
    BY <2>1, <2>2 DEF lift, Settled
<1>2. CASE StepOne
  <2> DEFINE h == H!readwrite(host)
  <2>1. ctl = "stepping" /\ UNCHANGED layed
    BY <1>2 DEF StepOne, bptsVars
  <2>2. h = host /\ Good(host) /\ host.run # "running"
    BY <1>i, <1>s, <2>1, ReadwriteGood DEF Settled, Good
  <2>3. AfterStep(host')
    BY <1>2, <2>2 DEF StepOne
  <2>4. ctl' # "stepwait" /\ (ctl' \in {"stepping", "runon"} => host'.st = "BREAKED")
    BY <2>3 DEF AfterStep
  <2>5. QED
    BY <1>l, <1>s, <2>1, <2>4 DEF Settled
<1>3. CASE StepCmd
  BY <1>3, <1>r DEF StepCmd, Settled, bptsVars
<1>4. CASE ClearPending
  <2> DEFINE q == H!getstate(H!csig(host))
  <2>1. /\ Ready /\ UNCHANGED layed /\ host' = H!readwrite(q) /\ ctl' \in {"idle", "runon"}
        /\ ctl' = "runon" => q.st = "BREAKED"
    BY <1>4 DEF ClearPending, HasCondition, bptsVars
  <2>2. Good(q)
    <3>1. Good(host)
      BY <1>i, <2>1 DEF Ready, Serving
    <3>2. Good(H!csig(host))
      BY <3>1, CsigGood DEF Kept
    <3>3. QED
      BY <3>2, GetstateGood DEF Kept
  <2>3. ctl' = "runon" => host' = q
    BY <2>1, <2>2, ReadwriteGood
  <2> HIDE DEF q
  <2>4. QED
    BY <1>l, <1>r, <2>1, <2>3 DEF Settled
<1>u. CASE UNCHANGED <<ctl, layed>> /\ host'.st = host.st
  BY <1>i, <1>l, <1>s, <1>u DEF Settled
<1>5. CASE SubjectMove \/ Die \/ SendSig
  <2>1. UNCHANGED <<ctl, layed>>
    BY <1>5 DEF SubjectMove, Die, SendSig, windowVars, bptsVars
  <2>2. CASE ctl = "closed"
    BY <2>1, <2>2
  <2>3. CASE ctl # "closed"
    <3>1. SubjectMove => host.st = "ACTIVE"
      BY <1>i, <2>3 DEF SubjectMove, H!SubjectMoves, Good, HostOK
    <3>2. host'.st = host.st
      BY <1>5, <1>i, <2>3, <3>1, SubjectMovesGood, DeadGood, KilledGood
      DEF SubjectMove, Die, SendSig
    <3>3. QED
      BY <1>u, <2>1, <3>2
  <2>4. QED
    BY <2>2, <2>3
<1>6. CASE DeliverAlarm \/ Tick \/ UNCHANGED vars
  BY <1>6, <1>u DEF DeliverAlarm, Tick, vars, windowVars, bptsVars
<1>7. CASE ctl' \in {"idle", "docycle", "show", "sleep", "closed"}
  BY <1>7
<1>8. CASE Show \/ RunOn \/ Wake \/ StepWait \/ Cycle
  BY <1>7, <1>8, <1>i DEF Show, RunOn, Wake, StepWait, Cycle
<1>9. CASE User /\ ~StepCmd /\ ~ClearPending
  BY <1>7, <1>9 DEF User, Go, ClearAndGo, GoFrom, Stop, SetBpt, ClrBpt, ClearAll, ReadMem,
     ToggleMask, Kill, Close, Serving, windowVars
<1>10. QED
  BY <1>1, <1>2, <1>3, <1>4, <1>5, <1>6, <1>8, <1>9 DEF Next, Debugger

\* A user who was hasty stays so.
LEMMA PatientSoFar ==
  ASSUME TypeOK, [Next]_vars, ~hasty'
  PROVE  ~hasty
<1>1. CASE UNCHANGED hasty
  BY <1>1
<1>2. CASE Ready
  BY <1>2 DEF TypeOK, Ready
<1>3. Ready \/ UNCHANGED hasty
  BY DEF Next, Debugger, User, vars, SubjectMove, Die, SendSig, DoCycle, Show, RunOn, Wake,
     StepOne, StepWait, Cycle, DeliverAlarm, Tick, Go, ClearAndGo, ClearPending, Stop,
     StepCmd, SetBpt, ClrBpt, ClearAll, ReadMem, ToggleMask, Kill, Close
<1>4. QED
  BY <1>1, <1>2, <1>3

\* What holds for as long as the user was patient.
Patiently == ~hasty => PatientInv

LEMMA PatientInductive ==
  ASSUME MaxCycles \in 0..CharMax, NoTrapInCode
  PROVE  Spec => [](SInv /\ Patiently)
<1>1. Init => Patiently
  <2> SUFFICES ASSUME Init PROVE PatientInv
    BY DEF Patiently
  <2>1. Fixed(host) /\ ctl = "docycle"
    BY AttachedGood, RunControlAssumption DEF Init
  <2>2. QED
    BY <2>1 DEF PatientInv
<1>2. SInv /\ Patiently /\ [Next]_vars => Patiently'
  <2> SUFFICES ASSUME SInv, Patiently, [Next]_vars, ~hasty' PROVE PatientInv'
    BY DEF Patiently
  <2>0. PatientInv
    BY PatientSoFar DEF SInv, IInv, Patiently
  <2>1. ctl' # "closed" => Fixed(host')
    <3> SUFFICES ASSUME ctl' # "closed" PROVE Fixed(host')
      OBVIOUS
    <3>1. Fixed(host)
      BY <2>0, OpenStep DEF PatientInv
    <3>2. QED
      BY <2>0, <3>1, PatientUntouched, GoodStep
  <2>2. QED
    BY <2>0, <2>1, LetGoStep, SettledStep DEF PatientInv
<1>3. Spec => []SInv
  BY PollInductive
<1>4. QED
  BY <1>1, <1>2, <1>3, PTL DEF Spec

\* PatientNoSkip: the subject executes every instruction of its program for as
\* long as the user runs and steps a settled window only, and stops clicking
\* "run" before the char that counts the polls wraps; the program has no
\* breakpoint instruction of its own.
THEOREM NothingSkipped ==
  ASSUME MaxCycles \in 0..CharMax, NoTrapInCode
  PROVE  Spec => []PatientNoSkip
<1>1. SInv /\ Patiently => PatientNoSkip
  BY DEF Patiently, PatientInv, Fixed, PatientNoSkip, NoSkip
<1>2. QED
  BY <1>1, PatientInductive, PTL

\* CloseIsClean: a subject is let go with its own text, and that of such a user
\* at the beginning of an instruction, and goes on so.
THEOREM ClosedClean ==
  ASSUME MaxCycles \in 0..CharMax, NoTrapInCode
  PROVE  Spec => []CloseIsClean
<1>1. SInv /\ Patiently => CloseIsClean
  <2> SUFFICES ASSUME SInv, Patiently, ctl = "closed", host.run # "dead"
               PROVE  text = Code /\ (~hasty => host.off = 0)
    BY DEF CloseIsClean
  <2>1. text = [a \in Addr |-> Code[a]]
    BY DEF SInv, IInv, Own
  <2>2. QED
    BY <2>1, RunControlAssumption DEF Patiently, PatientInv
<1>2. QED
  BY <1>1, PatientInductive, PTL
=============================================================================
