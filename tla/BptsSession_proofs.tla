-------------------------- MODULE BptsSession_proofs --------------------------
(***************************************************************************)
(* Proofs about BptsSession, for every set of statements, addresses and    *)
(* images: type correctness, that the text of a subject which did not exec *)
(* is its program plus the traps of the list, that no two traps share an   *)
(* address, that a subject let go alive has its own text, and that the     *)
(* session implements Breakpoints.                                         *)
(***************************************************************************)
EXTENDS BptsSession, TLAPS

\* Lifting writes bytes that were saved or are there already.
LEMMA LiftType ==
  ASSUME TypeOK, NEW S \in SUBSET Stmt
  PROVE  liftbpts(S) => text' \in [Addr -> Byte] /\ saved' \in [Stmt -> Byte]
<1>1. \A a \in Addr : (\E s \in S : Lo[s] = a) =>
                        saved[CHOOSE s \in S : Lo[s] = a] \in Byte
  BY DEF TypeOK, BptsTypeOK
<1>2. QED
  BY <1>1 DEF liftbpts, TypeOK, BptsTypeOK

\* Laying saves bytes of the text and writes TRAPINST.
LEMMA LayType ==
  ASSUME TypeOK, NEW S \in SUBSET Stmt
  PROVE  laybpts(S) => text' \in [Addr -> Byte] /\ saved' \in [Stmt -> Byte]
BY LoAssumption, TrapAssumption DEF laybpts, TypeOK, BptsTypeOK

\* What a session's first image is made of.
LEMMA CodeType == First \in Image /\ \A i \in Image : Code[i] \in [Addr -> Byte]
BY ImageAssumption

\* Every step of a session keeps the types.
LEMMA TypeStep ==
  ASSUME TypeOK, [Next]_vars
  PROVE  TypeOK'
<1>r. \A S \in SUBSET Stmt : \A ok : Reached(S, ok) \in SUBSET Stmt
  BY DEF Reached
<1>i. \A s \in Stmt : istrap(s) \in SUBSET Stmt
  BY DEF istrap, TypeOK, BptsTypeOK
<1>p. proc' \in Procs /\ image' \in Image
  BY CodeType DEF Next, vars, bptsVars, TypeOK, Procs, SetBpt, ClrBpt, ClearAll, Resume,
     Halt, LiftStopped, Notice, Die, Exec, TakeOver, TakeOverFails, Close, Noticed
<1>s. SUFFICES BptsTypeOK'
  BY <1>p DEF TypeOK
<1>1. ASSUME NEW s \in Stmt, SetBpt(s) PROVE BptsTypeOK'
  <2>1. Reached({s}, Reach) \in SUBSET Stmt
    BY <1>r
  <2>2. QED
    BY <1>1, <2>1, LayType DEF SetBpt, set, TypeOK, BptsTypeOK
<1>2. ASSUME NEW s \in Stmt, ClrBpt(s) PROVE BptsTypeOK'
  <2>1. Reached(istrap(s), Reach) \in SUBSET Stmt
    BY <1>r, <1>i
  <2>2. QED
    BY <1>2, <2>1, LiftType DEF ClrBpt, clr, TypeOK, BptsTypeOK
<1>q. Reached(trap, Reach) \in SUBSET Stmt
  BY <1>r DEF TypeOK, BptsTypeOK
<1>3. CASE ClearAll
  BY <1>3, <1>q, LiftType DEF ClearAll, clearall, TypeOK, BptsTypeOK
<1>4. CASE Resume
  BY <1>4, <1>q, LayType DEF Resume, lay, bptsVars, TypeOK, BptsTypeOK
<1>5. CASE LiftStopped
  BY <1>5, <1>q, LiftType DEF LiftStopped, lift, TypeOK, BptsTypeOK
<1>6. CASE Halt \/ Notice \/ Die
  BY <1>6 DEF Halt, Notice, Die, bptsVars, TypeOK, BptsTypeOK
<1>7. CASE Exec
  BY <1>7, <1>p, CodeType DEF Exec, bptsVars, TypeOK, BptsTypeOK
<1>k. Kept \in SUBSET Stmt
  BY <1>q DEF Kept, TypeOK, BptsTypeOK
<1>8. CASE TakeOver
  <2>1. trap' \in SUBSET Stmt
    BY <1>8, <1>k, <1>r DEF TakeOver
  <2>2. QED
    BY <1>8, <2>1, CodeType, LoAssumption, TrapAssumption
    DEF TakeOver, TypeOK, BptsTypeOK
<1>9. CASE TakeOverFails
  <2>1. trap' \in SUBSET Stmt
    BY <1>9, <1>k, <1>r DEF TakeOverFails
  <2>2. QED
    BY <1>9, <2>1, LoAssumption, TrapAssumption DEF TakeOverFails, TypeOK, BptsTypeOK
<1>10. CASE Close
  BY <1>10, <1>q, LiftType DEF Close, lift, TypeOK, BptsTypeOK
<1>11. CASE UNCHANGED vars
  BY <1>11 DEF vars, bptsVars, TypeOK, BptsTypeOK
<1>12. QED
  BY <1>1, <1>2, <1>3, <1>4, <1>5, <1>6, <1>7, <1>8, <1>9, <1>10, <1>11 DEF Next

\* TypeOK: the list, the saved bytes and the subject's memory stay within
\* their types through every operation of Bpts and every take over.
THEOREM TypeCorrect == Spec => []TypeOK
<1>1. Init => TypeOK
  BY CodeType DEF Init, TypeOK, BptsTypeOK, Procs
<1>2. TypeOK /\ [Next]_vars => TypeOK'
  BY TypeStep
<1>3. QED
  BY <1>1, <1>2, PTL DEF Spec

-----------------------------------------------------------------------------
(* The inductive invariant.                                                *)

\* Lifting laid traps S of a live subject leaves the others in place and its
\* own code everywhere else.
LEMMA LiftRestores ==
  ASSUME IInv, Own, layed, NEW S \in SUBSET trap, liftbpts(S)
  PROVE  text' = [a \in Addr |-> IF a \in Locs(trap \ S) THEN TRAPINST
                                                          ELSE Code[image][a]]
<1> USE DEF IInv, TypeOK, BptsTypeOK, TextIsProgramPlusTraps, Expected
<1>1. \A a \in Addr : (\E s \in S : Lo[s] = a) =>
        /\ saved[CHOOSE s \in S : Lo[s] = a] = Code[image][a]
        /\ a \notin Locs(trap \ S)
  <2> SUFFICES ASSUME NEW a \in Addr, NEW s \in S, Lo[s] = a
               PROVE  /\ saved[CHOOSE t \in S : Lo[t] = a] = Code[image][a]
                      /\ a \notin Locs(trap \ S)
    OBVIOUS
  <2>1. (CHOOSE t \in S : Lo[t] = a) \in S /\ Lo[CHOOSE t \in S : Lo[t] = a] = a
    OBVIOUS
  <2>2. a \notin Locs(trap \ S)
    BY DEF Locs, OneTrapPerAddress
  <2>3. QED
    BY <2>1, <2>2 DEF SavedIsOwn
<1>2. \A a \in Addr : ~(\E s \in S : Lo[s] = a) =>
        (a \in Locs(trap) <=> a \in Locs(trap \ S))
  BY DEF Locs
<1>3. \A a \in Addr : text[a] = IF a \in Locs(trap) THEN TRAPINST ELSE Code[image][a]
  OBVIOUS
<1>4. QED
  BY <1>1, <1>2, <1>3 DEF liftbpts

\* Every laid trap of a live subject is within reach.
LEMMA LaidAreReached ==
  ASSUME IInv, layed, proc \in {"running", "stopped"}, image = First, NEW S \in SUBSET trap
  PROVE  Reached(S, Reach) = S
BY DEF IInv, SavedIsOwn, Reached, Reach, Own, Alive

\* The text of a live subject whose traps are not laid is its program.
LEMMA OwnText ==
  ASSUME IInv, Own, ~layed
  PROVE  text = Code[image]
<1>1. \A a \in Addr : text[a] = Code[image][a]
  BY DEF IInv, TextIsProgramPlusTraps, Expected
<1>2. QED
  BY <1>1, CodeType DEF IInv, TypeOK, BptsTypeOK

\* Fewer traps share no address either.
LEMMA FewerTraps ==
  ASSUME OneTrapPerAddress, trap' \subseteq trap
  PROVE  OneTrapPerAddress'
BY DEF OneTrapPerAddress

\* Setting a breakpoint, refused, noted, or laid at once (Bpts::set).
LEMMA SetBptKeeps ==
  ASSUME IInv, TypeOK', NEW s \in Stmt, SetBpt(s)
  PROVE  IInv'
<1> USE DEF IInv, TypeOK, BptsTypeOK
<1>1. CASE UNCHANGED <<trap, saved, layed, text>>
  BY <1>1 DEF SetBpt, OneTrapPerAddress, TextIsProgramPlusTraps, SavedIsOwn, Expected,
     Own, Alive, Open, Noticed
<1>2. CASE istrap(s) = {} /\ ~layed /\ trap' = trap \cup {s} /\ UNCHANGED <<saved, layed, text>>
  BY <1>2 DEF SetBpt, istrap, OneTrapPerAddress, TextIsProgramPlusTraps, SavedIsOwn,
     Expected, Own, Alive, Open, Noticed
<1>3. CASE /\ istrap(s) = {} /\ layed
           /\ trap' = trap \cup Reached({s}, Reach)
           /\ laybpts(Reached({s}, Reach))
           /\ UNCHANGED layed
  <2>1. OneTrapPerAddress'
    BY <1>3 DEF istrap, Reached, OneTrapPerAddress
  <2>2. Own' => Own /\ Reach = Mapped[image] /\ UNCHANGED image
    BY DEF SetBpt, Own, Alive, Open, Noticed, Reach, Procs
  <2>3. ASSUME Own' PROVE TextIsProgramPlusTraps' /\ SavedIsOwn'
    <3>1. \A a : a \in Locs(trap') <=> a \in Locs(trap) \/ a \in Locs(Reached({s}, Reach))
      BY <1>3 DEF Locs
    <3>2. text' = Expected'
      BY <1>3, <2>2, <2>3, <3>1 DEF laybpts, TextIsProgramPlusTraps, Expected
    <3>3. \A t \in trap' : saved'[t] = Code[image'][Lo[t]] /\ Lo[t] \in Mapped[image']
      <4>1. ASSUME NEW t \in trap', t \in Reached({s}, Reach)
            PROVE  saved'[t] = Code[image'][Lo[t]] /\ Lo[t] \in Mapped[image']
        <5>1. t = s /\ Lo[s] \in Mapped[image] /\ Lo[s] \in Addr
          BY <2>2, <2>3, <4>1, LoAssumption DEF Reached
        <5>2. Lo[s] \notin Locs(trap)
          BY <1>3 DEF istrap, Locs
        <5>3. text[Lo[s]] = Code[image][Lo[s]]
          BY <2>2, <2>3, <5>1, <5>2 DEF TextIsProgramPlusTraps, Expected
        <5>4. QED
          BY <1>3, <2>2, <2>3, <4>1, <5>1, <5>3 DEF laybpts
      <4>2. ASSUME NEW t \in trap', t \notin Reached({s}, Reach)
            PROVE  saved'[t] = Code[image'][Lo[t]] /\ Lo[t] \in Mapped[image']
        BY <1>3, <2>2, <2>3, <4>2 DEF laybpts, SavedIsOwn
      <4>3. QED
        BY <4>1, <4>2
    <3>4. QED
      BY <3>2, <3>3 DEF TextIsProgramPlusTraps, SavedIsOwn
  <2>4. ~Open' => ~layed'
    BY <1>3 DEF SetBpt, Open, Noticed
  <2>5. QED
    BY <2>1, <2>3, <2>4 DEF TextIsProgramPlusTraps, SavedIsOwn
<1>4. QED
  BY <1>1, <1>2, <1>3 DEF SetBpt, set

\* clr of S, which is lifted if laid, and clearall.
LEMMA ClearKeeps ==
  ASSUME IInv, TypeOK', NEW S \in SUBSET trap, Open,
         trap' = trap \ S,
         IF layed /\ ~Errored THEN liftbpts(Reached(S, Reach)) ELSE UNCHANGED <<saved, text>>,
         proc' \in {proc, Noticed},
         UNCHANGED <<layed, image>>
  PROVE  IInv'
<1> USE DEF IInv
<1>1. OneTrapPerAddress'
  BY FewerTraps
<1>2. ~Open' => ~layed'
  BY DEF Open, Noticed
<1>3. Own' => proc \in {"running", "stopped"} /\ ~Errored /\ image = First
  BY DEF Own, Alive, Open, Noticed, Errored, TypeOK, Procs
<1>4. ASSUME Own', layed PROVE TextIsProgramPlusTraps' /\ SavedIsOwn'
  <2>1. Reached(S, Reach) = S
    BY <1>3, <1>4, LaidAreReached
  <2>2. Own /\ liftbpts(S)
    BY <1>3, <1>4, <2>1 DEF Own, Alive
  <2>3. text' = [a \in Addr |-> IF a \in Locs(trap \ S) THEN TRAPINST ELSE Code[image][a]]
    BY <1>4, <2>2, LiftRestores
  <2>4. saved' = saved
    BY <2>2 DEF liftbpts
  <2>5. QED
    BY <1>4, <2>2, <2>3, <2>4 DEF TextIsProgramPlusTraps, Expected, SavedIsOwn
<1>5. ASSUME Own', ~layed PROVE TextIsProgramPlusTraps' /\ SavedIsOwn'
  <2>1. text' = Code[image]
    BY <1>3, <1>5, OwnText DEF Own, Alive
  <2>2. Expected' = [a \in Addr |-> Code[image][a]]
    BY <1>5 DEF Expected
  <2>3. QED
    BY <1>5, <2>1, <2>2, CodeType DEF TextIsProgramPlusTraps, SavedIsOwn, TypeOK
<1>6. QED
  BY <1>1, <1>2, <1>4, <1>5 DEF TextIsProgramPlusTraps, SavedIsOwn

\* Laying the traps of a subject that is about to run.
LEMMA LayKeeps ==
  ASSUME IInv, TypeOK', lay(Reach), UNCHANGED image,
         (proc = "stopped" /\ proc' = "running") \/ (proc = "killed" /\ proc' = "errored")
  PROVE  IInv'
<1> USE DEF IInv
<1>1. CASE layed
  BY <1>1 DEF lay, OneTrapPerAddress, TextIsProgramPlusTraps, SavedIsOwn, Expected, Own, Alive, Open
<1>2. CASE /\ ~layed
           /\ trap' = Reached(trap, Reach)
           /\ laybpts(Reached(trap, Reach))
           /\ layed'
  <2>1. OneTrapPerAddress'
    BY <1>2, FewerTraps DEF Reached
  <2>2. ASSUME Own' PROVE TextIsProgramPlusTraps' /\ SavedIsOwn'
    <3>1. Own /\ Reach = Mapped[image]
      BY <2>2 DEF Own, Alive, Reach
    <3>2. text = Code[image]
      BY <1>2, <3>1, OwnText
    <3>3. text' = Expected'
      BY <1>2, <3>2 DEF laybpts, Expected
    <3>4. \A t \in trap' : saved'[t] = Code[image'][Lo[t]] /\ Lo[t] \in Mapped[image']
      BY <1>2, <3>1, <3>2 DEF laybpts, Reached, TypeOK, BptsTypeOK
    <3>5. QED
      BY <3>3, <3>4 DEF TextIsProgramPlusTraps, SavedIsOwn
  <2>3. Open'
    BY DEF Open
  <2>4. QED
    BY <2>1, <2>2, <2>3 DEF TextIsProgramPlusTraps, SavedIsOwn
<1>3. QED
  BY <1>1, <1>2 DEF lay, TypeOK, BptsTypeOK

\* Lifting the traps; whoever is alive afterwards was within reach.
LEMMA LiftKeeps ==
  ASSUME IInv, TypeOK', NEW errored \in BOOLEAN, lift(Reach, errored), UNCHANGED image,
         Own' => proc \in {"running", "stopped"} /\ ~errored
  PROVE  IInv'
<1> USE DEF IInv
<1>1. OneTrapPerAddress'
  BY FewerTraps DEF lift, Reached
<1>2. ~layed'
  BY DEF lift
<1>3. ASSUME Own' PROVE text' = Code[image]
  <2>1. CASE ~layed
    BY <1>3, <2>1, OwnText DEF lift, Own, Alive
  <2>2. CASE layed
    <3>1. Reached(trap, Reach) = trap /\ Own
      BY <1>3, <2>2, LaidAreReached DEF Own, Alive
    <3>2. liftbpts(trap)
      BY <1>3, <2>2, <3>1 DEF lift
    <3>3. text' = [a \in Addr |-> IF a \in Locs(trap \ trap) THEN TRAPINST ELSE Code[image][a]]
      BY <2>2, <3>1, <3>2, LiftRestores
    <3>4. Locs(trap \ trap) = {}
      BY DEF Locs
    <3>5. QED
      BY <3>3, <3>4, CodeType DEF TypeOK
  <2>3. QED
    BY <2>1, <2>2
<1>4. Expected' = Code[image]
  BY <1>2, CodeType DEF Expected, TypeOK
<1>5. QED
  BY <1>1, <1>2, <1>3, <1>4 DEF TextIsProgramPlusTraps, SavedIsOwn

\* Taking over lays the traps that were kept in the new program, and docycle
\* has lifted them again by the end of the command (HostProcess::substitute).
LEMMA TakeOverKeeps ==
  ASSUME IInv, TypeOK', TakeOver
  PROVE  IInv'
<1> USE DEF IInv
<1>1. OneTrapPerAddress'
  BY FewerTraps DEF TakeOver, Kept, Reached
<1>2. TextIsProgramPlusTraps'
  <2>1. Expected' = Code[First]
    BY CodeType DEF TakeOver, Expected
  <2>2. QED
    BY <2>1 DEF TakeOver, TextIsProgramPlusTraps
<1>3. SavedIsOwn'
  BY DEF TakeOver, SavedIsOwn, Reached, TypeOK, BptsTypeOK
<1>4. QED
  BY <1>1, <1>2, <1>3 DEF TakeOver, Open

\* A take over that fails lays in the old process what it lifted there.
LEMMA TakeOverFailsKeeps ==
  ASSUME IInv, TypeOK', TakeOverFails
  PROVE  IInv'
<1> USE DEF IInv
<1>1. OneTrapPerAddress'
  BY FewerTraps DEF TakeOverFails, Kept, Reached
<1>2. Open'
  BY DEF TakeOverFails, Open, Noticed
<1>3. Own' => /\ Own /\ proc \in {"running", "stopped"}
                /\ ~Errored /\ Reach = Mapped[image] /\ UNCHANGED image
  BY DEF TakeOverFails, Own, Alive, Open, Noticed, Errored, Reach, TypeOK, Procs
<1>4. ASSUME Own', layed PROVE TextIsProgramPlusTraps' /\ SavedIsOwn'
  <2>1. trap' = trap
    BY <1>3, <1>4, LaidAreReached DEF TakeOverFails, Kept, Own
  <2>2. text' = Expected' /\ saved' = saved
    BY <1>3, <1>4, <2>1 DEF TakeOverFails, TextIsProgramPlusTraps, Expected, TypeOK, BptsTypeOK
  <2>3. QED
    BY <1>3, <1>4, <2>1, <2>2 DEF TextIsProgramPlusTraps, SavedIsOwn
<1>5. ASSUME Own', ~layed PROVE TextIsProgramPlusTraps' /\ SavedIsOwn'
  <2>1. text = Code[image]
    BY <1>3, <1>5, OwnText
  <2>2. text' = Expected'
    BY <1>3, <2>1 DEF TakeOverFails, Expected
  <2>3. \A t \in trap' : saved'[t] = Code[image'][Lo[t]] /\ Lo[t] \in Mapped[image']
    BY <1>3, <1>5, <2>1 DEF TakeOverFails, Kept, Reached, TypeOK, BptsTypeOK
  <2>4. QED
    BY <2>2, <2>3 DEF TextIsProgramPlusTraps, SavedIsOwn
<1>6. QED
  BY <1>1, <1>2, <1>4, <1>5 DEF TextIsProgramPlusTraps, SavedIsOwn

\* No step disturbs the inductive invariant; exec ends what it says of the text.
LEMMA IInvStep ==
  ASSUME IInv, [Next]_vars
  PROVE  IInv'
<1>t. TypeOK'
  BY TypeStep DEF IInv
<1>q. \A s \in Stmt : istrap(s) \in SUBSET trap
  BY DEF istrap
<1>1. ASSUME NEW s \in Stmt, SetBpt(s) PROVE IInv'
  BY <1>1, <1>t, SetBptKeeps
<1>2. ASSUME NEW s \in Stmt, ClrBpt(s) PROVE IInv'
  <2>1. Open /\ trap' = trap \ istrap(s) /\ UNCHANGED <<layed, image>> /\ proc' \in {proc, Noticed}
    BY <1>2 DEF ClrBpt, clr
  <2>2. IF layed /\ ~Errored THEN liftbpts(Reached(istrap(s), Reach)) ELSE UNCHANGED <<saved, text>>
    BY <1>2 DEF ClrBpt, clr
  <2>3. QED
    BY <1>t, <1>q, <2>1, <2>2, ClearKeeps
<1>3. CASE ClearAll
  <2>1. Open /\ trap' = trap \ trap /\ UNCHANGED <<layed, image>> /\ proc' \in {proc, Noticed}
    BY <1>3 DEF ClearAll, clearall
  <2>2. IF layed /\ ~Errored THEN liftbpts(Reached(trap, Reach)) ELSE UNCHANGED <<saved, text>>
    BY <1>3 DEF ClearAll, clearall
  <2>3. QED
    BY <1>t, <2>1, <2>2, ClearKeeps
<1>4. CASE Resume
  <2>1. CASE /\ proc \in {"stopped", "killed"}
             /\ lay(Reach)
             /\ proc' = IF proc = "stopped" THEN "running" ELSE "errored"
             /\ UNCHANGED image
    <3>1. (proc = "stopped" /\ proc' = "running") \/ (proc = "killed" /\ proc' = "errored")
      BY <2>1
    <3>2. lay(Reach) /\ UNCHANGED image
      BY <2>1
    <3>3. QED
      BY <1>t, <3>1, <3>2, LayKeeps
  <2>2. CASE UNCHANGED <<bptsVars, text, image>> /\ proc' = "errored"
    BY <1>t, <2>2 DEF bptsVars, IInv, OneTrapPerAddress, TextIsProgramPlusTraps, SavedIsOwn,
       Expected, Own, Alive, Open
  <2>3. QED
    BY <1>4, <2>1, <2>2 DEF Resume
<1>5. CASE LiftStopped
  BY <1>5, <1>t, LiftKeeps DEF LiftStopped, Own, Alive
<1>6. CASE Halt \/ Notice \/ Die \/ UNCHANGED vars
  BY <1>6, <1>t DEF Halt, Notice, Die, vars, bptsVars, IInv, OneTrapPerAddress,
     TextIsProgramPlusTraps, SavedIsOwn, Expected, Own, Alive, Open
<1>7. CASE TakeOver
  BY <1>7, <1>t, TakeOverKeeps
<1>8. CASE TakeOverFails
  BY <1>8, <1>t, TakeOverFailsKeeps
<1>9. CASE Close
  <2>1. Errored \in BOOLEAN /\ lift(Reach, Errored) /\ UNCHANGED image
    BY <1>9 DEF Close, Errored
  <2>2. Own' => proc \in {"running", "stopped"} /\ ~Errored
    BY <1>9 DEF Close, Own, Alive, Open, Errored
  <2>3. QED
    BY <1>t, <2>1, <2>2, LiftKeeps
<1>10. CASE Exec
  BY <1>10, <1>t DEF Exec, bptsVars, IInv, OneTrapPerAddress, TextIsProgramPlusTraps,
     SavedIsOwn, Own, Open
<1>11. QED
  BY <1>1, <1>2, <1>3, <1>4, <1>5, <1>6, <1>7, <1>8, <1>9, <1>10 DEF Next

\* A fresh list, not laid, over a program's own text.
LEMMA IInvInit == Init => IInv
<1>1. Init => TypeOK
  BY CodeType DEF Init, TypeOK, BptsTypeOK, Procs
<1>2. Init => text = Expected
  BY CodeType DEF Init, Expected
<1>3. QED
  BY <1>1, <1>2 DEF Init, IInv, OneTrapPerAddress, TextIsProgramPlusTraps, SavedIsOwn, Open

\* The inductive invariant of a session.
THEOREM Inductive == Spec => []IInv
<1>1. IInv /\ [Next]_vars => IInv'
  BY IInvStep
<1>2. QED
  BY <1>1, IInvInit, PTL DEF Spec

\* TextIsProgramPlusTraps: the memory of a live subject is its program plus
\* exactly the traps of the list, however Bpts, go, docycle and substitute
\* are interleaved with the death of the subject and with ptrace failures.
THEOREM TextIsOwned == Spec => []TextIsProgramPlusTraps
<1>1. IInv => TextIsProgramPlusTraps
  BY DEF IInv
<1>2. QED
  BY <1>1, Inductive, PTL

\* OneTrapPerAddress: Bpts::set never makes a second live trap at an address,
\* also when the two statements differ (a source line and its first
\* instruction).
THEOREM TrapsAreApart == Spec => []OneTrapPerAddress
<1>1. IInv => OneTrapPerAddress
  BY DEF IInv
<1>2. QED
  BY <1>1, Inductive, PTL

\* SavedIsOwn: what Bpts::lift would write back is the subject's own code.
THEOREM SavedIsRight == Spec => []SavedIsOwn
<1>1. IInv => SavedIsOwn
  BY DEF IInv
<1>2. QED
  BY <1>1, Inductive, PTL

\* ClosedIsClean: a subject that Process::userclose lets go alive runs its
\* own text, whatever was set, laid or unreachable before.
THEOREM ClosedRight == Spec => []ClosedIsClean
<1>1. IInv => ClosedIsClean
  BY OwnText DEF IInv, ClosedIsClean, Own, Alive, Open
<1>2. QED
  BY <1>1, Inductive, PTL

-----------------------------------------------------------------------------
(* The breakpoint list implements the all-or-nothing breakpoints.          *)

\* What the subject would find: all the traps or none.
LEMMA PlantedIs ==
  IInv => Planted = IF Own /\ layed THEN Locs(trap) ELSE {}
<1> SUFFICES ASSUME IInv PROVE Planted = IF Own /\ layed THEN Locs(trap) ELSE {}
  OBVIOUS
<1>1. Locs(trap) \subseteq Addr
  BY LoAssumption DEF Locs, IInv, TypeOK, BptsTypeOK
<1>2. CASE Own /\ layed
  <2>1. \A a \in Addr : text[a] = IF a \in Locs(trap) THEN TRAPINST ELSE Code[image][a]
    BY <1>2 DEF IInv, TextIsProgramPlusTraps, Expected
  <2>2. \A a \in Addr : text[a] = TRAPINST <=> a \in Locs(trap)
    BY <2>1, OwnCodeAssumption DEF IInv, TypeOK
  <2>3. QED
    BY <1>1, <1>2, <2>2 DEF Planted
<1>3. CASE Own /\ ~layed
  BY <1>3, OwnText, OwnCodeAssumption DEF Planted, IInv, TypeOK
<1>4. CASE ~Own
  BY <1>4 DEF Planted
<1>5. QED
  BY <1>2, <1>3, <1>4

\* The same after a step.
LEMMA PlantedWillBe ==
  IInv' => Planted' = IF Own' /\ layed' THEN Locs(trap)' ELSE {}
<1>1. (IInv => Planted = IF Own /\ layed THEN Locs(trap) ELSE {})'
  BY PlantedIs, PTL
<1>2. QED
  BY <1>1

\* A step that makes no new trap plants those that are left, or removes them.
LEMMA ShrinkRefines ==
  ASSUME IInv, IInv', trap' \subseteq trap
  PROVE  Abstract!Next
<1>1. Locs(trap)' \in SUBSET Locs(trap)
  BY DEF Locs
<1>2. Planted' = IF Own' /\ layed' THEN Locs(trap)' ELSE {}
  BY PlantedWillBe
<1>3. CASE Own' /\ layed'
  BY <1>1, <1>2, <1>3 DEF Abstract!Next, Abstract!Plant
<1>4. CASE ~(Own' /\ layed')
  BY <1>1, <1>2, <1>4 DEF Abstract!Next, Abstract!Remove
<1>5. QED
  BY <1>3, <1>4

\* A new trap is a new breakpoint, planted if the others are.
LEMMA SetBptRefines ==
  ASSUME IInv, IInv', NEW s \in Stmt, SetBpt(s), trap' = trap \cup {s}, istrap(s) = {}
  PROVE  Abstract!Next
<1>1. Lo[s] \in Addr \ Locs(trap)
  BY LoAssumption DEF istrap, Locs
<1>2. Locs(trap)' = Locs(trap) \cup {Lo[s]}
  BY DEF Locs
<1>3. (Own' <=> Own) /\ layed' = layed
  BY DEF SetBpt, set, Own, Alive, Noticed
<1>4. Planted = IF Own /\ layed THEN Locs(trap) ELSE {}
  BY PlantedIs
<1>5. Planted' = IF Own' /\ layed' THEN Locs(trap)' ELSE {}
  BY PlantedWillBe
<1>6. Planted' \in {Planted, Planted \cup {Lo[s]}} /\ Planted' \in {{}, Locs(trap)'}
  BY <1>2, <1>3, <1>4, <1>5
<1>7. QED
  BY <1>1, <1>2, <1>6 DEF Abstract!Next, Abstract!Add, Abstract!AllOrNothing

\* Every step of a session is a step of Breakpoints or leaves it alone.
LEMMA StepRefines ==
  ASSUME IInv, [Next]_vars
  PROVE  [Abstract!Next]_<<Locs(trap), Planted>>
<1>i. IInv'
  BY IInvStep
<1>1. ASSUME NEW s \in Stmt, SetBpt(s) PROVE Abstract!Next
  <2>1. CASE istrap(s) = {} /\ trap' = trap \cup {s}
    BY <1>1, <1>i, <2>1, SetBptRefines
  <2>2. CASE trap' = trap
    BY <1>i, <2>2, ShrinkRefines
  <2>3. Reached({s}, Reach) \in {{}, {s}}
    BY DEF Reached
  <2>4. QED
    BY <1>1, <2>1, <2>2, <2>3 DEF SetBpt, set
<1>2. ASSUME ~(\E s \in Stmt : SetBpt(s)), Next PROVE trap' \subseteq trap
  BY <1>2 DEF Next, ClrBpt, clr, ClearAll, clearall, Resume, lay, Halt, LiftStopped, lift,
     Notice, Die, Exec, TakeOver, TakeOverFails, Kept, Reached, Close, bptsVars
<1>3. CASE UNCHANGED vars
  BY <1>3 DEF vars, Locs, Planted, Own, Alive
<1>4. QED
  BY <1>1, <1>2, <1>3, <1>i, ShrinkRefines

\* A session begins without breakpoints.
LEMMA InitRefines == Init => Abstract!Init
<1>1. Init => Planted = {} /\ Locs(trap) = {}
  BY OwnCodeAssumption, CodeType DEF Init, Planted, Locs
<1>2. QED
  BY <1>1 DEF Abstract!Init

\* AllOrNothing: Bpts implements Breakpoints, in which the subject finds the
\* instructions of all its breakpoints or of none.
THEOREM Refinement == Spec => AllOrNothing
<1>1. IInv /\ [Next]_vars => [Abstract!Next]_<<Locs(trap), Planted>>
  BY StepRefines
<1>2. QED
  BY <1>1, InitRefines, Inductive, PTL DEF Spec, AllOrNothing, Abstract!Spec
=============================================================================
