--------------------------- MODULE Frames_proofs ---------------------------
(***************************************************************************)
(* The Frames of a process, for every set of functions and every bound:    *)
(* they agree with the call stack (FramesAgree), and a window stays with   *)
(* its activation (WindowStays).                                           *)
(***************************************************************************)
EXTENDS Frames, SequenceTheorems, FiniteSetTheorems, WellFoundedInduction, TLAPS

-----------------------------------------------------------------------------
(* The inductive invariant. *)

Slots == [callstk : Seq(FpFrame), frames : [FrameId -> Frame \cup {NoFrame}], lost : BOOLEAN]

\* The entries of q's call stack and its Frames belong to each other.
Tied(q) ==
  /\ \A i \in 1 .. Len(q.callstk) : q.callstk[i].frame # NoFrame =>
       q.frames[q.callstk[i].frame] # NoFrame /\ q.frames[q.callstk[i].frame].level = i - 1
  /\ \A f \in FrameId : q.frames[f] # NoFrame =>
       /\ q.frames[f].level + 1 \in 1 .. Len(q.callstk)
       /\ q.callstk[q.frames[f].level + 1].frame = f
       /\ q.frames[f].func = q.callstk[q.frames[f].level + 1].func
       /\ q.frames[f].fp = q.callstk[q.frames[f].level + 1].fp
       /\ q.frames[f].pad => q.frames[f].title = q.frames[f].fp

SlotsOK(q) == q \in Slots /\ Len(q.callstk) <= StackLimit /\ Tied(q) /\ q.lost = FALSE

\* The subject's activations; the id of one tells its place.
StackInv ==
  /\ status \in {"ACTIVE", "STOPPED", "ERRORED", "CLOSED"}
  /\ stack \in Seq([func : Func, act : Id]) /\ Len(stack) <= MaxDepth
  /\ \A d \in 1 .. Len(stack) : stack[d].act[1] = d

\* Call stack cs is what the chain of frame pointers in s gives.
ReadFrom(cs, s) ==
  \A i \in 1 .. Len(cs) :
    /\ i <= Len(s) /\ cs[i].fp = Len(s) + 1 - i
    /\ s[Len(s) + 1 - i] = [func |-> cs[i].func, act |-> cs[i].act]

\* A call stack is a piece of a stack.  If one of its activations is still
\* there, so are the older ones: an id is not given again while it is known.
ChainIn(cs, s) ==
  /\ \A i \in 1 .. Len(cs) : cs[i].act[1] = cs[i].fp /\ cs[i].fp = cs[1].fp + 1 - i
  /\ \A i \in 1 .. Len(cs) :
       cs[i].fp <= Len(s) /\ s[cs[i].fp].act = cs[i].act =>
         \A j \in i .. Len(cs) : s[cs[j].fp] = [func |-> cs[j].func, act |-> cs[j].act]

IInv ==
  /\ StackInv
  /\ SlotsOK(p)
  /\ padlines \in 0 .. Len(p.callstk)
  /\ status = "STOPPED" => ReadFrom(p.callstk, stack)
  /\ ChainIn(p.callstk, stack)

-----------------------------------------------------------------------------
(* Induction, with sets for predicates. *)

\* A set of natural numbers has a least one.
LEMMA Least ==
  ASSUME NEW T, T \subseteq Nat, T # {}
  PROVE  \E m \in T : \A n \in T : m <= n
<1> DEFINE R == OpToRel(<, Nat)
<1>1. IsWellFoundedOn(R, Nat)
  BY NatLessThanWellFounded
<1>2. \A x, y \in Nat : <<y, x>> \in R <=> y < x
  BY DEF OpToRel
<1> HIDE DEF R
<1>3. PICK m \in T : \A y \in T : <<y, m>> \notin R
  BY <1>1, WFMin, Zenon
<1>4. ASSUME NEW n \in T PROVE m <= n
  <2>1. n \in Nat /\ m \in Nat /\ ~ (n < m)
    BY <1>2, <1>3, Zenon
  <2>2. QED BY <2>1
<1>5. QED
  BY <1>4, Zenon

\* Induction over the natural numbers.
LEMMA Induct ==
  ASSUME NEW T, 0 \in T, \A k \in Nat : k \in T => k + 1 \in T
  PROVE  Nat \subseteq T
<1> SUFFICES ASSUME Nat \ T # {} PROVE FALSE
  OBVIOUS
<1>1. PICK m \in Nat \ T : \A n \in Nat \ T : m <= n
  BY Least
<1>2. m - 1 \in Nat /\ ~ (m <= m - 1)
  BY <1>1
<1>3. m - 1 \in T
  BY <1>1, <1>2, Zenon
<1>4. m \in T
  <2>1. (m - 1) + 1 = m
    BY <1>1
  <2>2. QED BY <1>2, <1>3, <2>1, Zenon
<1>5. QED BY <1>1, <1>4

\* Of a range of natural numbers, those not above k.
LEMMA InductTo ==
  ASSUME NEW n \in Nat, NEW T, 0 \in T, \A k \in 0 .. n - 1 : k \in T => k + 1 \in T
  PROVE  n \in T
<1> DEFINE U == { k \in Nat : k <= n => k \in T }
<1>1. 0 \in U
  OBVIOUS
<1>2. \A k \in Nat : k \in U => k + 1 \in U
  OBVIOUS
<1> HIDE DEF U
<1>3. n \in U
  BY <1>1, <1>2, Induct
<1>4. QED BY <1>3 DEF U

\* What Max of a set is.
LEMMA MaxIs ==
  ASSUME NEW T, T \subseteq Int, NEW m \in T, \A x \in T : x <= m
  PROVE  Max(T) = m
<1>1. \A x \in T : m >= x
  OBVIOUS
<1>2. PICK M : M = Max(T)
  OBVIOUS
<1>3. M \in T /\ \A x \in T : M >= x
  BY <1>1, <1>2, Zenon DEF Max
<1>4. M >= m /\ m >= M /\ m \in Int /\ M \in Int
  BY <1>1, <1>3
<1>5. M = m
  BY <1>4
<1>6. QED BY <1>2, <1>5, Zenon

\* A set of natural numbers that has a bound has a greatest one.
LEMMA MaxExists ==
  ASSUME NEW n \in Nat, NEW T, T \subseteq 0 .. n, T # {}
  PROVE  Max(T) \in T /\ \A x \in T : x <= Max(T)
<1> DEFINE U == { n - x : x \in T }
<1>1. \A x \in T : x \in 0 .. n /\ n - x \in Nat
  OBVIOUS
<1>2. U \subseteq Nat /\ U # {}
  BY <1>1, Zenon
<1>3. PICK u \in U : \A x \in U : u <= x
  BY <1>2, Least
<1>4. PICK m \in T : u = n - m
  OBVIOUS
<1>5. \A x \in T : n - x \in U
  OBVIOUS
<1> HIDE DEF U
<1>6. \A x \in T : x <= m
  BY <1>3, <1>4, <1>5
<1>7. T \subseteq Int
  OBVIOUS
<1>8. Max(T) = m
  BY <1>6, <1>7, MaxIs
<1>9. QED BY <1>6, <1>8

\* Min of a set of natural numbers is its least.
LEMMA MinExists ==
  ASSUME NEW T, T \subseteq Nat, T # {}
  PROVE  Min(T) \in T /\ \A x \in T : Min(T) <= x
<1>1. \E m \in T : \A x \in T : m <= x
  BY Least, Zenon
<1>2. QED BY <1>1, Zenon DEF Min

-----------------------------------------------------------------------------
(* The loops: merge goes over the old call stack, regloc over levels. *)

Turn(loop, m, e) == IF loop = "merge" THEN MergeOne(m, e) ELSE frame(m, e)

\* h is the recursive function of FoldLeft.
Folding(h, loop, m, s, n) ==
  h = [x \in SUBSET (1 .. n) |-> IF x = {} THEN m ELSE Turn(loop, h[x \ {Max(x)}], s[Max(x)])]

\* The function that FoldLeft chooses exists, so that choosing it defines it.
LEMMA FoldingExists ==
  ASSUME NEW loop, NEW m, NEW s, NEW n \in Nat
  PROVE  \E h : Folding(h, loop, m, s, n)
<1> DEFINE T == { k \in Nat : \E h : Folding(h, loop, m, s, k) }
<1>1. 0 \in T
  <2> DEFINE h == [x \in {{}} |-> m]
  <2>1. SUBSET (1 .. 0) = {{}}
    OBVIOUS
  <2>2. h = [x \in SUBSET (1 .. 0) |-> IF x = {} THEN m ELSE Turn(loop, h[x \ {Max(x)}], s[Max(x)])]
    BY <2>1
  <2>3. Folding(h, loop, m, s, 0)
    BY <2>2, Zenon DEF Folding
  <2>4. QED BY <2>3
<1>2. ASSUME NEW k \in Nat, NEW h, Folding(h, loop, m, s, k)
      PROVE  \E g : Folding(g, loop, m, s, k + 1)
  <2> DEFINE g == [x \in SUBSET (1 .. k + 1) |->
                     IF k + 1 \in x THEN Turn(loop, h[x \ {k + 1}], s[k + 1]) ELSE h[x]]
  <2>1. ASSUME NEW x \in SUBSET (1 .. k + 1)
        PROVE  g[x] = IF x = {} THEN m ELSE Turn(loop, g[x \ {Max(x)}], s[Max(x)])
    <3>1. CASE k + 1 \in x
      <4>1. x \subseteq Int /\ \A y \in x : y <= k + 1
        OBVIOUS
      <4>2. Max(x) = k + 1
        BY <3>1, <4>1, MaxIs
      <4>3. x \ {k + 1} \in SUBSET (1 .. k + 1) /\ k + 1 \notin x \ {k + 1}
        OBVIOUS
      <4>4. g[x \ {k + 1}] = h[x \ {k + 1}]
        BY <4>3, Zenon
      <4>5. g[x] = Turn(loop, h[x \ {k + 1}], s[k + 1])
        BY <3>1, Zenon
      <4>6. QED BY <3>1, <4>2, <4>4, <4>5, Zenon
    <3>2. CASE k + 1 \notin x
      <4>1. x \in SUBSET (1 .. k)
        BY <3>2
      <4>2. h[x] = IF x = {} THEN m ELSE Turn(loop, h[x \ {Max(x)}], s[Max(x)])
        BY <1>2, <4>1, Zenon DEF Folding
      <4>3. x \ {Max(x)} \in SUBSET (1 .. k + 1) /\ k + 1 \notin x \ {Max(x)}
        BY <3>2
      <4>4. g[x \ {Max(x)}] = h[x \ {Max(x)}]
        BY <4>3, Zenon
      <4>5. g[x] = h[x]
        BY <3>2, Zenon
      <4>6. QED BY <4>2, <4>4, <4>5, Zenon
    <3>3. QED BY <3>1, <3>2, Zenon
  <2>2. g = [x \in SUBSET (1 .. k + 1) |-> g[x]]
    OBVIOUS
  <2> HIDE DEF g
  <2>3. [x \in SUBSET (1 .. k + 1) |-> g[x]]
          = [x \in SUBSET (1 .. k + 1) |-> IF x = {} THEN m ELSE Turn(loop, g[x \ {Max(x)}], s[Max(x)])]
    BY <2>1, Zenon
  <2>4. Folding(g, loop, m, s, k + 1)
    BY <2>2, <2>3, Zenon DEF Folding
  <2>5. QED BY <2>4, Zenon
<1>3. \A k \in Nat : k \in T => k + 1 \in T
  BY <1>2
<1> HIDE DEF T
<1>4. n \in T
  BY <1>1, <1>3, Induct
<1>5. QED BY <1>4 DEF T

\* g tells where the loop is after each turn.
Turns(g, loop, m, s) ==
  /\ g[0] = m
  /\ \A i \in 1 .. Len(s) : g[i] = Turn(loop, g[i - 1], s[i])

\* Its values on the ranges 1 .. i are the turns of the loop.
LEMMA FoldingTurns ==
  ASSUME NEW loop, NEW m, NEW s, Len(s) \in Nat, NEW h, Folding(h, loop, m, s, Len(s))
  PROVE  \E g : Turns(g, loop, m, s) /\ g[Len(s)] = h[1 .. Len(s)]
<1> DEFINE n == Len(s)
           g == [i \in 0 .. n |-> h[1 .. i]]
<1>1. g[0] = m
  <2>1. 1 .. 0 = {} /\ {} \in SUBSET (1 .. n) /\ 0 \in 0 .. n
    OBVIOUS
  <2>2. h[{}] = m
    BY <2>1, Zenon DEF Folding
  <2>3. g[0] = h[1 .. 0]
    BY <2>1, Zenon
  <2>4. QED BY <2>1, <2>2, <2>3, Zenon
<1>2. ASSUME NEW i \in 1 .. n PROVE g[i] = Turn(loop, g[i - 1], s[i])
  <2>1. 1 .. i \in SUBSET (1 .. n) /\ 1 .. i # {} /\ i \in 1 .. i /\ 1 .. i \subseteq Int
    OBVIOUS
  <2>2. \A y \in 1 .. i : y <= i
    OBVIOUS
  <2>3. Max(1 .. i) = i
    BY <2>1, <2>2, MaxIs
  <2>4. (1 .. i) \ {i} = 1 .. i - 1
    OBVIOUS
  <2>5. h[1 .. i] = Turn(loop, h[1 .. i - 1], s[i])
    <3>1. h[1 .. i] = IF 1 .. i = {} THEN m ELSE Turn(loop, h[(1 .. i) \ {Max(1 .. i)}], s[Max(1 .. i)])
      BY <2>1, Zenon DEF Folding
    <3>2. QED BY <2>1, <2>3, <2>4, <3>1, Zenon
  <2>6. i \in 0 .. n /\ i - 1 \in 0 .. n
    OBVIOUS
  <2>7. g[i] = h[1 .. i] /\ g[i - 1] = h[1 .. i - 1]
    BY <2>6, Zenon
  <2>8. QED BY <2>5, <2>7, Zenon
<1>3. g[n] = h[1 .. n]
  <2>1. n \in 0 .. n
    OBVIOUS
  <2>2. QED BY <2>1, Zenon
<1> HIDE DEF g
<1>4. QED BY <1>1, <1>2, <1>3, Zenon DEF Turns

\* The loop of merge, turn by turn.
LEMMA MergeTurns ==
  ASSUME NEW m, NEW s, Len(s) \in Nat, DOMAIN s = 1 .. Len(s)
  PROVE  \E g : Turns(g, "merge", m, s) /\ FoldLeft(MergeOne, m, s) = g[Len(s)]
<1>1. PICK h : /\ Folding(h, "merge", m, s, Len(s))
               /\ FoldLeft(MergeOne, m, s) = h[1 .. Len(s)]
  <2> DEFINE h == CHOOSE h : Folding(h, "merge", m, s, Len(s))
  <2>1. Folding(h, "merge", m, s, Len(s))
    BY FoldingExists, Zenon
  <2>2. FoldLeft(MergeOne, m, s) = h[1 .. Len(s)]
    BY Zenon DEF FoldLeft, MapThenFoldSet, Folding, Turn
  <2>3. QED BY <2>1, <2>2, Zenon
<1>2. PICK g : Turns(g, "merge", m, s) /\ g[Len(s)] = h[1 .. Len(s)]
  BY <1>1, FoldingTurns
<1>3. QED BY <1>1, <1>2, Zenon

\* The loop of regloc, turn by turn.
LEMMA FrameTurns ==
  ASSUME NEW m, NEW s, Len(s) \in Nat, DOMAIN s = 1 .. Len(s)
  PROVE  \E g : Turns(g, "frame", m, s) /\ FoldLeft(frame, m, s) = g[Len(s)]
<1>1. PICK h : /\ Folding(h, "frame", m, s, Len(s))
               /\ FoldLeft(frame, m, s) = h[1 .. Len(s)]
  <2> DEFINE h == CHOOSE h : Folding(h, "frame", m, s, Len(s))
  <2>1. Folding(h, "frame", m, s, Len(s))
    BY FoldingExists, Zenon
  <2>2. FoldLeft(frame, m, s) = h[1 .. Len(s)]
    BY Zenon DEF FoldLeft, MapThenFoldSet, Folding, Turn
  <2>3. QED BY <2>1, <2>2, Zenon
<1>2. PICK g : Turns(g, "frame", m, s) /\ g[Len(s)] = h[1 .. Len(s)]
  BY <1>1, FoldingTurns
<1>3. QED BY <1>1, <1>2, Zenon

-----------------------------------------------------------------------------
(* Making and opening a Frame. *)

\* The entries of two call stacks are the same, but for their Frames.
SameCalls(cs, ds) ==
  /\ Len(ds) = Len(cs)
  /\ \A i \in 1 .. Len(cs) : ds[i] = [cs[i] EXCEPT !.frame = ds[i].frame]

\* The Frames of q are Frames of r.
Kept(q, r) == \A f \in FrameId : q.frames[f] # NoFrame => r.frames[f] = q.frames[f]

\* What the assumptions say of the sets that the constants make up.
LEMMA Constants ==
  /\ NoFrame \notin Nat /\ NoFrame \notin FrameId /\ StackLimit \in Nat \ {0} /\ MaxDepth \in Nat \ {0}
  /\ FrameId \subseteq Nat /\ \A f \in Frame : f # NoFrame => f.level \in 0 .. StackLimit - 1
BY FramesAssumption DEF FrameId, Frame

\* SameCalls, field by field.
LEMMA SameCallsIs ==
  ASSUME NEW cs \in Seq(FpFrame), NEW ds, SameCalls(cs, ds)
  PROVE  /\ Len(ds) = Len(cs)
         /\ \A i \in 1 .. Len(cs) :
              ds[i].func = cs[i].func /\ ds[i].fp = cs[i].fp /\ ds[i].act = cs[i].act
<1>1. Len(ds) = Len(cs) /\ \A i \in 1 .. Len(cs) : ds[i] = [cs[i] EXCEPT !.frame = ds[i].frame]
  BY Zenon DEF SameCalls
<1>2. \A i \in 1 .. Len(cs) : cs[i] \in FpFrame
  BY ElementOfSeq, Zenon
<1>3. QED BY <1>1, <1>2 DEF FpFrame

\* SameCalls is reflexive ...
LEMMA SameCallsSame == ASSUME NEW cs \in Seq(FpFrame) PROVE SameCalls(cs, cs)
<1>1. \A i \in 1 .. Len(cs) : cs[i] \in FpFrame
  BY ElementOfSeq, Zenon
<1>2. QED BY <1>1 DEF SameCalls, FpFrame

\* ... and transitive.
LEMMA SameCallsOn ==
  ASSUME NEW cs \in Seq(FpFrame), NEW ds \in Seq(FpFrame), NEW es \in Seq(FpFrame),
         SameCalls(cs, ds), SameCalls(ds, es)
  PROVE  SameCalls(cs, es)
<1>1. /\ Len(es) = Len(cs)
      /\ \A i \in 1 .. Len(cs) : ds[i] = [cs[i] EXCEPT !.frame = ds[i].frame]
      /\ \A i \in 1 .. Len(cs) : es[i] = [ds[i] EXCEPT !.frame = es[i].frame]
  BY Zenon DEF SameCalls
<1>2. \A i \in 1 .. Len(cs) : cs[i] \in FpFrame
  BY ElementOfSeq, Zenon
<1>3. ASSUME NEW i \in 1 .. Len(cs) PROVE es[i] = [cs[i] EXCEPT !.frame = es[i].frame]
  <2>1. PICK c, d, e : c = cs[i] /\ d = ds[i] /\ e = es[i]
    OBVIOUS
  <2>2. c \in FpFrame /\ d = [c EXCEPT !.frame = d.frame] /\ e = [d EXCEPT !.frame = e.frame]
    BY <1>1, <1>2, <2>1, Zenon
  <2>3. [[c EXCEPT !.frame = d.frame] EXCEPT !.frame = e.frame] = [c EXCEPT !.frame = e.frame]
    BY <2>2 DEF FpFrame
  <2>4. QED BY <2>1, <2>2, <2>3, Zenon
<1>4. QED BY <1>1, <1>3, Zenon DEF SameCalls

\* There is an unused number for a Frame.
LEMMA Room ==
  ASSUME NEW q, SlotsOK(q)
  PROVE  \E f \in FrameId : q.frames[f] = NoFrame
<1> SUFFICES ASSUME \A f \in FrameId : q.frames[f] # NoFrame PROVE FALSE
  OBVIOUS
<1> DEFINE n == Len(q.callstk)
           at == [f \in FrameId |-> q.frames[f].level + 1]
<1>1. n \in Nat /\ n <= StackLimit
  BY LenProperties DEF SlotsOK, Slots
<1>2. \A f \in FrameId : q.frames[f].level + 1 \in 1 .. n /\ q.callstk[q.frames[f].level + 1].frame = f
  BY Zenon DEF SlotsOK, Tied
<1>3. at \in [FrameId -> 1 .. n]
  BY <1>2
<1>4. IsFiniteSet(1 .. n) /\ Cardinality(1 .. n) = n
  BY <1>1, FS_Interval
<1>5. IsFiniteSet(FrameId) /\ Cardinality(FrameId) = 2 * StackLimit + 1
  BY FramesAssumption, FS_Interval DEF FrameId
<1>6. Cardinality(1 .. n) < Cardinality(FrameId)
  BY <1>1, <1>4, <1>5, FramesAssumption
<1> HIDE DEF n
<1>7. PICK f, g \in FrameId : f # g /\ at[f] = at[g]
  <2> HIDE DEF at
  <2>1. QED BY <1>3, <1>4, <1>5, <1>6, FS_PigeonHole
<1>8. q.frames[f].level + 1 = q.frames[g].level + 1
  BY <1>7, Zenon
<1>9. f = g
  BY <1>2, <1>8, Zenon
<1>10. QED BY <1>7, <1>9, Zenon

\* r is q with a new Frame at level l, whose number is f.
Makes(q, l, f, r) ==
  /\ r \in Slots /\ r.lost = q.lost /\ SameCalls(q.callstk, r.callstk)
  /\ r.callstk[l + 1].frame = f
  /\ r.callstk[l + 1].func = q.callstk[l + 1].func /\ r.callstk[l + 1].fp = q.callstk[l + 1].fp
  /\ \A i \in 1 .. Len(q.callstk) : i # l + 1 => r.callstk[i] = q.callstk[i]
  /\ r.frames[f] # NoFrame /\ r.frames[f].level = l /\ r.frames[f].pad = FALSE
  /\ r.frames[f].func = q.callstk[l + 1].func /\ r.frames[f].fp = q.callstk[l + 1].fp
  /\ \A g \in FrameId : g # f => r.frames[g] = q.frames[g]

\* Process::frame makes a Frame for its entry, if it has none.
LEMMA FrameIs ==
  ASSUME NEW q \in Slots, Len(q.callstk) <= StackLimit, NEW l \in 0 .. Len(q.callstk) - 1,
         \E f \in FrameId : q.frames[f] = NoFrame
  PROVE  \/ q.callstk[l + 1].frame # NoFrame /\ frame(q, l) = q
         \/ /\ q.callstk[l + 1].frame = NoFrame
            /\ \E f \in FrameId : q.frames[f] = NoFrame /\ Makes(q, l, f, frame(q, l))
<1> DEFINE e == q.callstk[l + 1]
           T == {f \in FrameId : q.frames[f] = NoFrame}
           n == Len(q.callstk)
           r == frame(q, l)
<1>1. /\ q = [callstk |-> q.callstk, frames |-> q.frames, lost |-> q.lost]
      /\ q.callstk \in Seq(FpFrame) /\ q.frames \in [FrameId -> Frame \cup {NoFrame}]
      /\ q.lost \in BOOLEAN
      /\ n \in Nat /\ n <= StackLimit /\ l + 1 \in 1 .. n
  BY LenProperties DEF Slots
<1>2. \A i \in 1 .. n : q.callstk[i] \in FpFrame
  BY <1>1, ElementOfSeq, Zenon
<1>3. e \in FpFrame
  BY <1>1, <1>2, Zenon
<1>4. CASE e.frame # NoFrame
  <2>1. r = q
    BY <1>4, Zenon DEF frame
  <2>2. QED BY <1>4, <2>1, Zenon
<1>5. CASE e.frame = NoFrame
  <2>1. PICK new : new = Min(T)
    OBVIOUS
  <2>2. new \in FrameId /\ q.frames[new] = NoFrame
    <3>1. T # {} /\ T \subseteq Nat
      BY Constants
    <3> HIDE DEF T
    <3>2. new \in T
      BY <2>1, <3>1, MinExists, Zenon
    <3>3. QED BY <3>2 DEF T
  <2> DEFINE fr == [func |-> e.func, level |-> l, fp |-> e.fp, pad |-> FALSE, title |-> 0]
             cs == [q.callstk EXCEPT ![l + 1].frame = new]
             fs == [q.frames EXCEPT ![new] = fr]
  <2>3. r = [callstk |-> cs, frames |-> fs, lost |-> q.lost]
    <3>1. r = [q EXCEPT !.callstk[l + 1].frame = new, !.frames[new] = fr]
      BY <1>5, <2>1, Zenon DEF frame
    <3>2. [q EXCEPT !.callstk[l + 1].frame = new, !.frames[new] = fr]
            = [[q EXCEPT !.callstk = cs] EXCEPT !.frames = fs]
      BY <1>1
    <3> HIDE DEF cs, fs, fr
    <3>3. QED BY <1>1, <3>1, <3>2
  <2>4. r.callstk = cs /\ r.frames = fs /\ r.lost = q.lost
    BY <2>3
  <2>5. fr \in Frame /\ fr # NoFrame
    <3>1. l \in 0 .. StackLimit - 1 /\ 0 \in 0 .. MaxDepth
      BY <1>1, Constants
    <3>2. fr \in Frame
      BY <1>3, <3>1 DEF Frame, FpFrame
    <3>3. fr # NoFrame
      BY <3>2, NullAssumption
    <3>4. QED BY <3>2, <3>3
  <2>6. cs \in Seq(FpFrame) /\ Len(cs) = n
    <3> DEFINE x == [e EXCEPT !.frame = new]
    <3>1. x \in FpFrame
      BY <1>3, <2>2 DEF FpFrame
    <3>2. cs = [q.callstk EXCEPT ![l + 1] = x]
      OBVIOUS
    <3> HIDE DEF x, cs, e
    <3>3. QED BY <1>1, <3>1, <3>2, ExceptSeq
  <2>7. fs \in [FrameId -> Frame \cup {NoFrame}]
    BY <1>1, <2>2, <2>5
  <2>8. /\ fs[new] = fr /\ \A f \in FrameId : f # new => fs[f] = q.frames[f]
    BY <1>1, <2>2
  <2>9. /\ \A i \in 1 .. n : i # l + 1 => cs[i] = q.callstk[i]
        /\ cs[l + 1] = [e EXCEPT !.frame = new]
    BY <1>1
  <2>10. cs[l + 1].frame = new /\ cs[l + 1].func = e.func /\ cs[l + 1].fp = e.fp
    BY <1>3, <2>9 DEF FpFrame
  <2>11. \A i \in 1 .. n : cs[i] = [q.callstk[i] EXCEPT !.frame = cs[i].frame]
    <3>1. ASSUME NEW i \in 1 .. n PROVE cs[i] = [q.callstk[i] EXCEPT !.frame = cs[i].frame]
      <4>1. CASE i = l + 1
        BY <2>9, <2>10, <4>1, Zenon
      <4>2. CASE i # l + 1
        <5>1. cs[i] = q.callstk[i] /\ q.callstk[i] \in FpFrame
          BY <1>2, <2>9, <4>2, Zenon
        <5> HIDE DEF cs
        <5>2. QED BY <5>1 DEF FpFrame
      <4>3. QED BY <4>1, <4>2, Zenon
    <3>2. QED BY <3>1, Zenon
  <2>12. fr.level = l /\ fr.func = e.func /\ fr.fp = e.fp /\ fr.pad = FALSE
    OBVIOUS
  <2> HIDE DEF cs, fs, fr
  <2>13. r \in Slots
    BY <1>1, <2>3, <2>6, <2>7 DEF Slots
  <2>14. SameCalls(q.callstk, r.callstk)
    BY <2>4, <2>6, <2>11, Zenon DEF SameCalls
  <2>15. Makes(q, l, new, r)
    BY <2>4, <2>5, <2>8, <2>9, <2>10, <2>12, <2>13, <2>14, Zenon DEF Makes
  <2>16. QED BY <1>5, <2>2, <2>15, Zenon
<1>6. QED BY <1>4, <1>5, Zenon

\* It leaves every other Frame alone.
LEMMA FrameMade ==
  ASSUME NEW q, SlotsOK(q), NEW l \in 0 .. Len(q.callstk) - 1
  PROVE  /\ SlotsOK(frame(q, l)) /\ SameCalls(q.callstk, frame(q, l).callstk)
         /\ Kept(q, frame(q, l)) /\ frame(q, l).callstk[l + 1].frame # NoFrame
         /\ \A i \in 1 .. Len(q.callstk) : q.callstk[i].frame # NoFrame =>
              frame(q, l).callstk[i].frame = q.callstk[i].frame
<1> DEFINE n == Len(q.callstk)
           cs == q.callstk
           r == frame(q, l)
<1>1. /\ q \in Slots /\ cs \in Seq(FpFrame) /\ n \in Nat /\ n <= StackLimit /\ l + 1 \in 1 .. n
      /\ Tied(q) /\ q.lost = FALSE /\ l + 1 - 1 = l
  BY LenProperties DEF SlotsOK, Slots
<1>2. \A i \in 1 .. n : cs[i] \in FpFrame
  BY <1>1, ElementOfSeq, Zenon
<1>3. \/ cs[l + 1].frame # NoFrame /\ r = q
      \/ /\ cs[l + 1].frame = NoFrame
         /\ \E f \in FrameId : q.frames[f] = NoFrame /\ Makes(q, l, f, r)
  BY <1>1, Room, FrameIs, Zenon
<1>4. CASE cs[l + 1].frame # NoFrame /\ r = q
  <2>1. SameCalls(cs, cs)
    <3>1. \A i \in 1 .. n : cs[i] = [cs[i] EXCEPT !.frame = cs[i].frame]
      BY <1>2 DEF FpFrame
    <3>2. QED BY <3>1, Zenon DEF SameCalls
  <2>2. Kept(q, q)
    BY Zenon DEF Kept
  <2> HIDE DEF r
  <2>3. SlotsOK(r) /\ SameCalls(cs, r.callstk) /\ Kept(q, r) /\ r.callstk = cs
    BY <1>4, <2>1, <2>2, Zenon
  <2>4. QED BY <1>4, <2>3, Zenon DEF r
<1>5. ASSUME cs[l + 1].frame = NoFrame,
             NEW f \in FrameId, q.frames[f] = NoFrame, Makes(q, l, f, r)
      PROVE  /\ SlotsOK(r) /\ SameCalls(cs, r.callstk) /\ Kept(q, r)
             /\ r.callstk[l + 1].frame # NoFrame
             /\ \A i \in 1 .. n : cs[i].frame # NoFrame => r.callstk[i].frame = cs[i].frame
  <2>1. PICK s, fs : s = r.callstk /\ fs = r.frames
    OBVIOUS
  <2>2. /\ r \in Slots /\ r.lost = FALSE /\ SameCalls(cs, s) /\ Len(s) = n
        /\ s[l + 1].frame = f /\ s[l + 1].func = cs[l + 1].func /\ s[l + 1].fp = cs[l + 1].fp
        /\ \A i \in 1 .. n : i # l + 1 => s[i] = cs[i]
        /\ fs[f] # NoFrame /\ fs[f].level = l /\ fs[f].pad = FALSE
        /\ fs[f].func = cs[l + 1].func /\ fs[f].fp = cs[l + 1].fp
        /\ \A g \in FrameId : g # f => fs[g] = q.frames[g]
    BY <1>1, <1>5, <2>1, Zenon DEF Makes, SameCalls
  <2>3. f # NoFrame
    BY Constants, Zenon
  <2> HIDE DEF r
  <2>4. ASSUME NEW i \in 1 .. n, s[i].frame # NoFrame
        PROVE  fs[s[i].frame] # NoFrame /\ fs[s[i].frame].level = i - 1
    <3>1. CASE i = l + 1
      <4>1. i - 1 = l
        <5>1. l \in Int
          BY <1>1
        <5>2. QED BY <3>1, <5>1
      <4>2. s[i].frame = f
        BY <2>2, <3>1, Zenon
      <4>3. QED BY <2>2, <4>1, <4>2, Zenon
    <3>2. CASE i # l + 1
      <4>1. s[i] = cs[i]
        BY <2>2, <3>2, Zenon
      <4>2. cs[i].frame \in FrameId
        <5>1. cs[i].frame \in FrameId \cup {NoFrame}
          BY <1>2 DEF FpFrame
        <5>2. QED BY <2>4, <4>1, <5>1
      <4>3. q.frames[cs[i].frame] # NoFrame /\ q.frames[cs[i].frame].level = i - 1
        BY <1>1, <2>4, <4>1, Zenon DEF Tied
      <4>4. cs[i].frame # f
        BY <1>5, <4>3, Zenon
      <4>5. fs[cs[i].frame] = q.frames[cs[i].frame]
        BY <2>2, <4>2, <4>4, Zenon
      <4>6. QED BY <4>1, <4>3, <4>5, Zenon
    <3>3. QED BY <3>1, <3>2, Zenon
  <2>5. ASSUME NEW g \in FrameId, fs[g] # NoFrame
        PROVE  /\ fs[g].level + 1 \in 1 .. n
               /\ s[fs[g].level + 1].frame = g
               /\ fs[g].func = s[fs[g].level + 1].func
               /\ fs[g].fp = s[fs[g].level + 1].fp
               /\ fs[g].pad => fs[g].title = fs[g].fp
    <3>1. CASE g = f
      BY <1>1, <2>2, <3>1, Zenon
    <3>2. CASE g # f
      <4>1. fs[g] = q.frames[g]
        BY <2>2, <3>2, Zenon
      <4>2. /\ q.frames[g].level + 1 \in 1 .. n
            /\ cs[q.frames[g].level + 1].frame = g
            /\ q.frames[g].func = cs[q.frames[g].level + 1].func
            /\ q.frames[g].fp = cs[q.frames[g].level + 1].fp
            /\ q.frames[g].pad => q.frames[g].title = q.frames[g].fp
        BY <1>1, <2>5, <4>1, Zenon DEF Tied
      <4>3. g # NoFrame
        BY Constants, Zenon
      <4>4. q.frames[g].level + 1 # l + 1
        BY <1>5, <4>2, <4>3, Zenon
      <4>5. s[q.frames[g].level + 1] = cs[q.frames[g].level + 1]
        BY <2>2, <4>2, <4>4, Zenon
      <4>6. QED BY <4>1, <4>2, <4>5, Zenon
    <3>3. QED BY <3>1, <3>2, Zenon
  <2>6. Tied(r)
    BY <2>1, <2>2, <2>4, <2>5, Zenon DEF Tied
  <2>7. SlotsOK(r)
    BY <1>1, <2>1, <2>2, <2>6, Zenon DEF SlotsOK
  <2>8. Kept(q, r)
    <3>1. \A g \in FrameId : q.frames[g] # NoFrame => r.frames[g] = q.frames[g]
      BY <1>5, <2>1, <2>2, Zenon
    <3>2. QED BY <3>1, Zenon DEF Kept
  <2>9. \A i \in 1 .. n : cs[i].frame # NoFrame => s[i].frame = cs[i].frame
    BY <1>5, <2>2, Zenon
  <2>10. QED BY <2>1, <2>2, <2>3, <2>7, <2>8, <2>9, Zenon
<1>6. QED BY <1>3, <1>4, <1>5, Zenon

\* asks for registers stays in a set of Processes in which frame stays.
LEMMA AsksIn ==
  ASSUME NEW N \in Nat, NEW T, NEW q \in T, NEW k \in 0 .. N, NEW l \in Nat, l <= k,
         \A s \in T : \A j \in 0 .. N - 1 : frame(s, j) \in T
  PROVE  asks(q, k, l) \in T
<1> DEFINE n == k - l
           s == [i \in 1 .. n |-> k - i]
<1>1. n \in Nat /\ k \in Nat /\ n <= k
  OBVIOUS
<1>2. asks(q, k, l) = FoldLeft(frame, q, s)
  BY Zenon DEF asks
<1> HIDE DEF n
<1>3. Len(s) = n /\ DOMAIN s = 1 .. n /\ \A i \in 1 .. n : s[i] = k - i
  BY <1>1
<1> HIDE DEF s
<1>4. PICK g : Turns(g, "frame", q, s) /\ FoldLeft(frame, q, s) = g[n]
  BY <1>1, <1>3, FrameTurns, Zenon
<1>5. g[0] = q /\ \A i \in 1 .. n : g[i] = frame(g[i - 1], k - i)
  <2>1. \A i \in 1 .. n : g[i] = Turn("frame", g[i - 1], s[i])
    BY <1>3, <1>4, Zenon DEF Turns
  <2>2. "frame" # "merge"
    OBVIOUS
  <2>3. \A i \in 1 .. n : Turn("frame", g[i - 1], s[i]) = frame(g[i - 1], k - i)
    BY <1>3, <2>2, Zenon DEF Turn
  <2>4. QED BY <1>4, <2>1, <2>3, Zenon DEF Turns
<1> DEFINE U == {i \in 0 .. n : g[i] \in T}
<1>6. 0 \in U
  <2>1. 0 \in 0 .. n
    BY <1>1
  <2>2. QED BY <1>5, <2>1, Zenon
<1>7. ASSUME NEW i \in 0 .. n - 1, i \in U PROVE i + 1 \in U
  <2>1. i + 1 \in 1 .. n /\ (i + 1) - 1 = i /\ k - (i + 1) \in 0 .. N - 1 /\ i + 1 \in 0 .. n
    BY <1>1
  <2>2. g[i + 1] = frame(g[i], k - (i + 1)) /\ g[i] \in T
    BY <1>5, <1>7, <2>1, Zenon
  <2>3. QED BY <2>1, <2>2, Zenon
<1> HIDE DEF U
<1>8. n \in U
  BY <1>1, <1>6, <1>7, InductTo
<1>9. g[n] \in T
  BY <1>8, Zenon DEF U
<1>10. QED BY <1>2, <1>4, <1>9, Zenon

-----------------------------------------------------------------------------
(* merge. *)

\* What Tied says of Frame f.
FrameTied(q, f) ==
  /\ q.frames[f].level + 1 \in 1 .. Len(q.callstk)
  /\ q.callstk[q.frames[f].level + 1].frame = f
  /\ q.frames[f].func = q.callstk[q.frames[f].level + 1].func
  /\ q.frames[f].fp = q.callstk[q.frames[f].level + 1].fp
  /\ q.frames[f].pad => q.frames[f].title = q.frames[f].fp

\* A call stack as it was read.
Fresh(cs) ==
  /\ cs \in Seq(FpFrame) /\ Len(cs) \in 1 .. StackLimit
  /\ \A i \in 1 .. Len(cs) : cs[i].frame = NoFrame

\* The k oldest entries of q are behind merge, and so is Frame f of q, if it is
\* one.
Done(q, k, f) == q.frames[f] = NoFrame \/ q.frames[f].level >= Len(q.callstk) - k

\* An entry of the new call stack and its Frame: not that of an entry of q that
\* is to come, and without a window if entries are still to be given.
EntryOK(q, k, c, r, i) ==
  /\ r.frames[r.callstk[i].frame] # NoFrame
  /\ r.frames[r.callstk[i].frame].level = i - 1
  /\ Done(q, k, r.callstk[i].frame)
  /\ i <= c => r.frames[r.callstk[i].frame].pad = FALSE

\* The Process r after k turns of the loop of merge of q with cs, when entries
\* 1 .. c may be given yet: the Frames of q's oldest entries are given or
\* deleted, those of the others are as they were, and the rest is new.
InMerge(q, cs, k, c, r) ==
  /\ r \in Slots /\ r.lost = FALSE /\ SameCalls(cs, r.callstk)
  /\ \A i \in 1 .. Len(cs) : r.callstk[i].frame # NoFrame => EntryOK(q, k, c, r, i)
  /\ \A f \in FrameId : ~Done(q, k, f) => r.frames[f] = q.frames[f]
  /\ \A f \in FrameId : r.frames[f] # NoFrame /\ Done(q, k, f) => FrameTied(r, f)

\* Where the loop is after k turns; a is what the spies ask.
MergeAt(q, cs, a, k, m) ==
  /\ m = [c |-> m.c, q |-> m.q, asked |-> a] /\ m.c \in 0 .. Len(cs)
  /\ InMerge(q, cs, k, m.c, m.q)

\* Entries of r and Frames of r are so in s too.
Grown(r, s) ==
  /\ \A i \in 1 .. Len(r.callstk) :
       r.callstk[i].frame # NoFrame => s.callstk[i].frame = r.callstk[i].frame
  /\ Kept(r, s)

\* What is known of a Process that merge starts from.
LEMMA MergeFrom ==
  ASSUME NEW q, SlotsOK(q)
  PROVE  /\ q \in Slots /\ q.callstk \in Seq(FpFrame) /\ Len(q.callstk) \in Nat
         /\ Len(q.callstk) <= StackLimit
         /\ q.frames \in [FrameId -> Frame \cup {NoFrame}]
         /\ \A f \in FrameId : q.frames[f] # NoFrame =>
              /\ q.frames[f] \in Frame /\ FrameTied(q, f)
              /\ q.frames[f].level \in 0 .. Len(q.callstk) - 1
<1>1. /\ q \in Slots /\ q.callstk \in Seq(FpFrame)
      /\ q.frames \in [FrameId -> Frame \cup {NoFrame}]
      /\ Len(q.callstk) <= StackLimit
  BY DEF SlotsOK, Slots
<1>2. Len(q.callstk) \in Nat
  BY <1>1, LenProperties
<1>3. ASSUME NEW f \in FrameId, q.frames[f] # NoFrame
      PROVE  /\ q.frames[f] \in Frame /\ FrameTied(q, f)
             /\ q.frames[f].level \in 0 .. Len(q.callstk) - 1
  <2>1. q.frames[f] \in Frame
    BY <1>1, <1>3
  <2>2. FrameTied(q, f)
    BY <1>3, Zenon DEF SlotsOK, Tied, FrameTied
  <2>3. q.frames[f].level \in Nat
    BY <2>1, Constants DEF Frame
  <2>4. q.frames[f].level + 1 \in 1 .. Len(q.callstk)
    BY <2>2, Zenon DEF FrameTied
  <2>5. q.frames[f].level \in 0 .. Len(q.callstk) - 1
    BY <1>2, <2>3, <2>4
  <2>6. QED BY <2>1, <2>2, <2>5, Zenon
<1>4. QED BY <1>1, <1>2, <1>3, Zenon

\* There is an unused number in the middle of merge too.
LEMMA RoomInMerge ==
  ASSUME NEW q, SlotsOK(q), NEW cs, Fresh(cs), NEW k, NEW c, NEW r, InMerge(q, cs, k, c, r)
  PROVE  \E f \in FrameId : r.frames[f] = NoFrame
<1> SUFFICES ASSUME \A f \in FrameId : r.frames[f] # NoFrame PROVE FALSE
  OBVIOUS
<1> DEFINE at == [f \in FrameId |-> IF Done(q, k, f) THEN r.frames[f].level + 1
                                    ELSE StackLimit + (q.frames[f].level + 1)]
<1>1. StackLimit \in Nat /\ Len(cs) \in 1 .. StackLimit /\ Len(r.callstk) = Len(cs)
  BY Constants DEF Fresh, InMerge, SameCalls
<1>2. \A f \in FrameId : Done(q, k, f) =>
        r.frames[f].level + 1 \in 1 .. StackLimit /\ r.callstk[r.frames[f].level + 1].frame = f
  <2>1. \A f \in FrameId : Done(q, k, f) => FrameTied(r, f)
    BY Zenon DEF InMerge
  <2>2. \A f \in FrameId : Done(q, k, f) =>
          r.frames[f].level + 1 \in 1 .. Len(cs) /\ r.callstk[r.frames[f].level + 1].frame = f
    BY <1>1, <2>1, Zenon DEF FrameTied
  <2>3. \A i \in 1 .. Len(cs) : i \in 1 .. StackLimit
    BY <1>1
  <2>4. QED BY <2>2, <2>3, Zenon
<1>3. \A f \in FrameId : ~Done(q, k, f) =>
        q.frames[f].level + 1 \in 1 .. StackLimit /\ q.callstk[q.frames[f].level + 1].frame = f
  <2>1. \A f \in FrameId : ~Done(q, k, f) => FrameTied(q, f)
    BY MergeFrom, Zenon DEF Done
  <2>2. \A f \in FrameId : ~Done(q, k, f) =>
          q.frames[f].level + 1 \in 1 .. Len(q.callstk) /\ q.callstk[q.frames[f].level + 1].frame = f
    BY <2>1, Zenon DEF FrameTied
  <2>3. \A i \in 1 .. Len(q.callstk) : i \in 1 .. StackLimit
    BY <1>1, MergeFrom
  <2>4. QED BY <2>2, <2>3, Zenon
<1>4. \A i \in 1 .. StackLimit : i \in 1 .. 2 * StackLimit /\ StackLimit + i \in 1 .. 2 * StackLimit
  BY <1>1
<1>5. at \in [FrameId -> 1 .. 2 * StackLimit]
  <2>1. \A f \in FrameId : at[f] \in 1 .. 2 * StackLimit
    BY <1>2, <1>3, <1>4, Zenon
  <2>2. QED BY <2>1
<1>6. \A f \in FrameId : at[f] = IF Done(q, k, f) THEN r.frames[f].level + 1
                                 ELSE StackLimit + (q.frames[f].level + 1)
  OBVIOUS
<1> HIDE DEF at
<1>7. PICK f, g \in FrameId : f # g /\ at[f] = at[g]
  <2>1. 2 * StackLimit \in Nat /\ 2 * StackLimit + 1 \in Nat
    BY <1>1
  <2>2. IsFiniteSet(1 .. 2 * StackLimit) /\ Cardinality(1 .. 2 * StackLimit) = 2 * StackLimit
    BY <2>1, FS_Interval
  <2>3. IsFiniteSet(FrameId) /\ Cardinality(FrameId) = 2 * StackLimit + 1
    BY <2>1, FS_Interval DEF FrameId
  <2>4. Cardinality(1 .. 2 * StackLimit) < Cardinality(FrameId)
    BY <2>1, <2>2, <2>3
  <2>5. QED BY <1>5, <2>2, <2>3, <2>4, FS_PigeonHole
<1>8. \A i, j \in 1 .. StackLimit :
        i # StackLimit + j /\ StackLimit + i # j /\ (StackLimit + i = StackLimit + j => i = j)
  BY <1>1
<1>9. CASE Done(q, k, f)
  <2>1. Done(q, k, g)
    <3> SUFFICES ASSUME ~Done(q, k, g) PROVE FALSE
      OBVIOUS
    <3>1. PICK i, j : i = r.frames[f].level + 1 /\ j = q.frames[g].level + 1
      OBVIOUS
    <3>2. i \in 1 .. StackLimit /\ j \in 1 .. StackLimit
      BY <1>2, <1>3, <1>9, <3>1, Zenon
    <3>3. i = StackLimit + j
      BY <1>6, <1>7, <1>9, <3>1, Zenon
    <3>4. QED BY <1>8, <3>2, <3>3, Zenon
  <2>2. r.frames[f].level + 1 = r.frames[g].level + 1
    BY <1>6, <1>7, <1>9, <2>1, Zenon
  <2>3. QED BY <1>2, <1>7, <1>9, <2>1, <2>2, Zenon
<1>10. CASE ~Done(q, k, f)
  <2>1. ASSUME Done(q, k, g) PROVE FALSE
    <3>1. PICK i, j : i = q.frames[f].level + 1 /\ j = r.frames[g].level + 1
      OBVIOUS
    <3>2. i \in 1 .. StackLimit /\ j \in 1 .. StackLimit
      BY <1>2, <1>3, <1>10, <2>1, <3>1, Zenon
    <3>3. StackLimit + i = j
      BY <1>6, <1>7, <1>10, <2>1, <3>1, Zenon
    <3>4. QED BY <1>8, <3>2, <3>3, Zenon
  <2>2. q.frames[f].level + 1 = q.frames[g].level + 1
    <3>1. PICK i, j : i = q.frames[f].level + 1 /\ j = q.frames[g].level + 1
      OBVIOUS
    <3>2. i \in 1 .. StackLimit /\ j \in 1 .. StackLimit
      BY <1>3, <1>10, <2>1, <3>1, Zenon
    <3>3. StackLimit + i = StackLimit + j
      BY <1>6, <1>7, <1>10, <2>1, <3>1, Zenon
    <3>4. i = j
      BY <1>8, <3>2, <3>3, Zenon
    <3>5. QED BY <3>1, <3>4, Zenon
  <2>3. QED BY <1>3, <1>7, <1>10, <2>1, <2>2, Zenon
<1>11. QED BY <1>9, <1>10, Zenon

\* A Frame that spies have made: its entry and Frame belong to each other, and
\* the others are as they were.
LEMMA MadeInMerge ==
  ASSUME NEW q, SlotsOK(q), NEW cs, Fresh(cs), NEW k, NEW c, NEW r, InMerge(q, cs, k, c, r),
         NEW l \in 0 .. Len(cs) - 1, r.callstk[l + 1].frame = NoFrame,
         NEW f \in FrameId, r.frames[f] = NoFrame, NEW s, Makes(r, l, f, s)
  PROVE  InMerge(q, cs, k, c, s) /\ Grown(r, s)
<1> DEFINE N == Len(cs)
<1>1. /\ N \in Nat /\ l + 1 \in 1 .. N /\ l + 1 - 1 = l /\ Len(r.callstk) = N
      /\ \A i \in 1 .. N : r.callstk[i] \in FpFrame
      /\ cs \in Seq(FpFrame) /\ r.callstk \in Seq(FpFrame) /\ s.callstk \in Seq(FpFrame)
  <2>1. /\ cs \in Seq(FpFrame) /\ r.callstk \in Seq(FpFrame) /\ Len(r.callstk) = N
        /\ s.callstk \in Seq(FpFrame)
    BY DEF Fresh, InMerge, SameCalls, Slots, Makes
  <2>2. N \in Nat /\ l + 1 \in 1 .. N /\ l + 1 - 1 = l
    BY <2>1, LenProperties
  <2>3. QED BY <2>1, <2>2, ElementOfSeq, Zenon
<1>2. /\ s \in Slots /\ s.lost = FALSE /\ SameCalls(r.callstk, s.callstk) /\ Len(s.callstk) = N
      /\ s.callstk[l + 1].frame = f
      /\ s.callstk[l + 1].func = r.callstk[l + 1].func /\ s.callstk[l + 1].fp = r.callstk[l + 1].fp
      /\ \A i \in 1 .. N : i # l + 1 => s.callstk[i] = r.callstk[i]
      /\ s.frames[f] # NoFrame /\ s.frames[f].level = l /\ s.frames[f].pad = FALSE
      /\ s.frames[f].func = r.callstk[l + 1].func /\ s.frames[f].fp = r.callstk[l + 1].fp
      /\ \A g \in FrameId : g # f => s.frames[g] = r.frames[g]
  BY <1>1, Zenon DEF Makes, InMerge, SameCalls
<1>3. SameCalls(cs, s.callstk)
  BY <1>1, <1>2, SameCallsOn, Zenon DEF InMerge
<1>4. f # NoFrame /\ Done(q, k, f)
  <2>1. ~Done(q, k, f) => r.frames[f] = q.frames[f] /\ q.frames[f] # NoFrame
    BY Zenon DEF InMerge, Done
  <2>2. QED BY <2>1, Constants, Zenon
<1>5. \A i \in 1 .. N : r.callstk[i].frame # NoFrame =>
        r.callstk[i].frame \in FrameId /\ r.callstk[i].frame # f /\ i # l + 1
  <2>1. \A i \in 1 .. N : r.callstk[i].frame # NoFrame => r.callstk[i].frame \in FrameId
    BY <1>1 DEF FpFrame
  <2>2. \A i \in 1 .. N : r.callstk[i].frame # NoFrame => r.frames[r.callstk[i].frame] # NoFrame
    BY Zenon DEF InMerge, EntryOK
  <2>3. QED BY <2>1, <2>2, Zenon
<1>6. ASSUME NEW i \in 1 .. N, s.callstk[i].frame # NoFrame PROVE EntryOK(q, k, c, s, i)
  <2>1. CASE i = l + 1
    <3>1. s.callstk[i].frame = f
      BY <1>2, <2>1, Zenon
    <3>2. i - 1 = l
      <4>1. l \in Int
        BY <1>1
      <4>2. QED BY <2>1, <4>1
    <3>3. QED BY <1>2, <1>4, <3>1, <3>2, Zenon DEF EntryOK
  <2>2. CASE i # l + 1
    <3>1. s.callstk[i] = r.callstk[i]
      BY <1>2, <2>2, Zenon
    <3>2. r.callstk[i].frame # NoFrame
      BY <1>6, <3>1, Zenon
    <3>3. s.frames[r.callstk[i].frame] = r.frames[r.callstk[i].frame]
      BY <1>2, <1>5, <3>2, Zenon
    <3>4. EntryOK(q, k, c, r, i)
      BY <3>2, Zenon DEF InMerge
    <3>5. QED BY <3>1, <3>3, <3>4, Zenon DEF EntryOK
  <2>3. QED BY <2>1, <2>2, Zenon
<1>7. \A g \in FrameId : ~Done(q, k, g) => s.frames[g] = q.frames[g]
  BY <1>2, <1>4, Zenon DEF InMerge
<1>8. ASSUME NEW g \in FrameId, s.frames[g] # NoFrame, Done(q, k, g) PROVE FrameTied(s, g)
  <2>1. CASE g = f
    BY <1>1, <1>2, <2>1, Zenon DEF FrameTied
  <2>2. CASE g # f
    <3>1. s.frames[g] = r.frames[g]
      BY <1>2, <2>2, Zenon
    <3>2. FrameTied(r, g)
      BY <1>8, <3>1, Zenon DEF InMerge
    <3>3. PICK j : j = r.frames[g].level + 1
      OBVIOUS
    <3>4. j \in 1 .. N /\ r.callstk[j].frame = g
      BY <1>1, <3>2, <3>3, Zenon DEF FrameTied
    <3>5. g # NoFrame
      BY Constants, Zenon
    <3>6. s.callstk[j] = r.callstk[j]
      BY <1>2, <1>5, <3>4, <3>5, Zenon
    <3>7. QED BY <1>1, <1>2, <3>1, <3>2, <3>3, <3>6, Zenon DEF FrameTied
  <2>3. QED BY <2>1, <2>2, Zenon
<1>9. InMerge(q, cs, k, c, s)
  BY <1>2, <1>3, <1>6, <1>7, <1>8, Zenon DEF InMerge
<1>10. Grown(r, s)
  <2>1. \A i \in 1 .. N : r.callstk[i].frame # NoFrame => s.callstk[i] = r.callstk[i]
    BY <1>2, <1>5, Zenon
  <2>2. \A g \in FrameId : r.frames[g] # NoFrame => s.frames[g] = r.frames[g]
    BY <1>2, Zenon
  <2>3. QED BY <1>1, <2>1, <2>2, Zenon DEF Grown, Kept
<1>11. QED BY <1>9, <1>10, Zenon

\* Grown is transitive.
LEMMA GrownOn ==
  ASSUME NEW r, NEW s, NEW u, Len(s.callstk) = Len(r.callstk), Grown(r, s), Grown(s, u)
  PROVE  Grown(r, u)
BY Zenon DEF Grown, Kept

\* Spies that ask for registers in the middle of merge.
LEMMA SpiesAre ==
  ASSUME NEW q, SlotsOK(q), NEW cs, Fresh(cs), NEW a \in Asked(q), NEW k, NEW c,
         NEW r, InMerge(q, cs, k, c, r), NEW x \in FrameId, ~Done(q, k, x)
  PROVE  InMerge(q, cs, k, c, spies(a, r, x)) /\ Grown(r, spies(a, r, x))
<1> DEFINE N == Len(cs)
           v == r.frames[x].level
           T == {s \in Slots : InMerge(q, cs, k, c, s) /\ Grown(r, s)}
<1>1. /\ N \in Nat /\ N <= StackLimit /\ Len(r.callstk) = N /\ r \in Slots
      /\ r.frames[x] = q.frames[x] /\ q.frames[x] # NoFrame
  BY Constants DEF Fresh, InMerge, SameCalls, Done
<1>2. Grown(r, r)
  BY Zenon DEF Grown, Kept
<1>3. CASE r.frames[x].pad /\ v <= N
  <2>1. spies(a, r, x) = asks(r, v, a[v])
    BY <1>1, <1>3, Zenon DEF spies
  <2>2. v \in Nat /\ v \in 0 .. N
    BY <1>1, <1>3, MergeFrom
  <2>3. v \in WindowLevels(q)
    <3>1. x \in {g \in FrameId : q.frames[g] # NoFrame /\ q.frames[g].pad}
      BY <1>1, <1>3
    <3>2. QED BY <1>1, <3>1, Zenon DEF WindowLevels
  <2>4. a[v] \in Nat /\ a[v] <= v
    <3>1. a \in [WindowLevels(q) -> 0 .. StackLimit - 1] /\ \A w \in WindowLevels(q) : a[w] <= w
      BY Zenon DEF Asked
    <3> HIDE DEF v
    <3>2. a[v] \in 0 .. StackLimit - 1 /\ a[v] <= v
      BY <2>3, <3>1, Zenon
    <3>3. QED BY <3>2, Constants
  <2> HIDE DEF v
  <2>5. ASSUME NEW s \in T, NEW j \in 0 .. N - 1 PROVE frame(s, j) \in T
    <3>1. s \in Slots /\ InMerge(q, cs, k, c, s) /\ Grown(r, s)
      OBVIOUS
    <3>2. Len(s.callstk) = N
      BY <3>1, Zenon DEF InMerge, SameCalls
    <3>3. \/ s.callstk[j + 1].frame # NoFrame /\ frame(s, j) = s
          \/ /\ s.callstk[j + 1].frame = NoFrame
             /\ \E f \in FrameId : s.frames[f] = NoFrame /\ Makes(s, j, f, frame(s, j))
      <4>1. \E f \in FrameId : s.frames[f] = NoFrame
        BY <3>1, RoomInMerge, Zenon
      <4>2. Len(s.callstk) <= StackLimit /\ j \in 0 .. Len(s.callstk) - 1
        BY <1>1, <3>2, Zenon
      <4> HIDE DEF T
      <4>3. QED BY <3>1, <4>1, <4>2, FrameIs, Zenon
    <3>4. CASE s.callstk[j + 1].frame # NoFrame /\ frame(s, j) = s
      BY <3>4, Zenon
    <3>5. ASSUME s.callstk[j + 1].frame = NoFrame, NEW f \in FrameId, s.frames[f] = NoFrame,
                 Makes(s, j, f, frame(s, j))
          PROVE  frame(s, j) \in T
      <4>1. PICK u : u = frame(s, j)
        OBVIOUS
      <4>2. InMerge(q, cs, k, c, u) /\ Grown(s, u)
        <5>1. Makes(s, j, f, u)
          BY <3>5, <4>1, Zenon
        <5> HIDE DEF T
        <5>2. QED BY <3>1, <3>5, <5>1, MadeInMerge, Zenon
      <4>3. Grown(r, u)
        BY <1>1, <3>1, <3>2, <4>2, GrownOn, Zenon
      <4>4. u \in Slots
        BY <4>2, Zenon DEF InMerge
      <4>5. QED BY <4>1, <4>2, <4>3, <4>4, Zenon
    <3>6. QED BY <3>3, <3>4, <3>5, Zenon
  <2>6. r \in T
    BY <1>1, <1>2
  <2> HIDE DEF T
  <2>7. asks(r, v, a[v]) \in T
    BY <1>1, <2>2, <2>4, <2>5, <2>6, AsksIn, Zenon
  <2>8. QED BY <2>1, <2>7, Zenon DEF T
<1>4. CASE ~(r.frames[x].pad /\ v <= N)
  <2>1. spies(a, r, x) = r
    BY <1>1, <1>4, Zenon DEF spies
  <2>2. QED BY <1>2, <2>1, Zenon
<1>5. QED BY <1>3, <1>4, Zenon

\* What a turn of the loop does.
Turned(m, a, e, z) ==
  \/ e.frame = NoFrame /\ z = m
  \/ /\ e.frame # NoFrame /\ \A i \in 1 .. m.c : m.q.callstk[i].func # e.func
     /\ z = [c |-> m.c,
             q |-> [callstk |-> m.q.callstk, frames |-> [m.q.frames EXCEPT ![e.frame] = NoFrame],
                    lost |-> m.q.lost],
             asked |-> a]
  \/ \E i \in 1 .. m.c :
       /\ e.frame # NoFrame /\ m.q.callstk[i].func = e.func
       /\ \A j \in 1 .. m.c : m.q.callstk[j].func = e.func => j <= i
       /\ z = [c |-> i - 1, q |-> give(spies(a, m.q, e.frame), e.frame, i), asked |-> a]

LEMMA MergeOneIs ==
  ASSUME NEW m, NEW a, NEW e \in FpFrame, m = [c |-> m.c, q |-> m.q, asked |-> a],
         m.q \in Slots, m.c \in 0 .. Len(m.q.callstk)
  PROVE  Turned(m, a, e, MergeOne(m, e))
<1> DEFINE T == Candidates(m, e)
<1>1. CASE e.frame = NoFrame
  <2>1. MergeOne(m, e) = m
    BY <1>1, Zenon DEF MergeOne
  <2>2. QED BY <1>1, <2>1, Zenon DEF Turned
<1>2. CASE e.frame # NoFrame /\ T = {}
  <2>1. MergeOne(m, e) = [m EXCEPT !.q.frames[e.frame] = NoFrame]
    BY <1>2, Zenon DEF MergeOne
  <2>2. \A i \in 1 .. m.c : m.q.callstk[i].func # e.func
    BY <1>2 DEF Candidates
  <2>3. m.q = [callstk |-> m.q.callstk, frames |-> m.q.frames, lost |-> m.q.lost]
    BY DEF Slots
  <2>4. [m EXCEPT !.q.frames[e.frame] = NoFrame] =
          [c |-> m.c,
           q |-> [callstk |-> m.q.callstk, frames |-> [m.q.frames EXCEPT ![e.frame] = NoFrame],
                  lost |-> m.q.lost],
           asked |-> a]
    BY <2>3
  <2>5. QED BY <1>2, <2>1, <2>2, <2>4, Zenon DEF Turned
<1>3. CASE e.frame # NoFrame /\ T # {}
  <2>1. PICK i : i = Max(T)
    OBVIOUS
  <2>2. Len(m.q.callstk) \in Nat
    BY LenProperties DEF Slots
  <2>3. T \subseteq 0 .. Len(m.q.callstk)
    BY <2>2 DEF Candidates
  <2>4. i \in T /\ \A j \in T : j <= i
    <3> HIDE DEF T
    <3>1. QED BY <1>3, <2>1, <2>2, <2>3, MaxExists, Zenon
  <2>5. /\ i \in 1 .. m.c /\ m.q.callstk[i].func = e.func
        /\ \A j \in 1 .. m.c : m.q.callstk[j].func = e.func => j <= i
    BY <2>4 DEF Candidates
  <2>6. MergeOne(m, e) =
          [c |-> i - 1, q |-> give(spies(a, m.q, e.frame), e.frame, i), asked |-> a]
    <3>1. m.asked = a
      OBVIOUS
    <3>2. QED BY <1>3, <2>1, <3>1, Zenon DEF MergeOne
  <2>7. QED BY <1>3, <2>5, <2>6, Zenon DEF Turned
<1>4. QED BY <1>1, <1>2, <1>3, Zenon

\* The Frame of the next entry of q is the one that a turn is about.
LEMMA NextDone ==
  ASSUME NEW q, SlotsOK(q), NEW k \in 0 .. Len(q.callstk) - 1,
         NEW e, e = q.callstk[Len(q.callstk) - k]
  PROVE  /\ e \in FpFrame
         /\ e.frame # NoFrame => /\ e.frame \in FrameId /\ ~Done(q, k, e.frame)
                                 /\ q.frames[e.frame] \in Frame
                                 /\ q.frames[e.frame].func = e.func
         /\ \A f \in FrameId : Done(q, k + 1, f) <=> Done(q, k, f) \/ f = e.frame
<1> DEFINE x == e.frame
<1>1. PICK n : n = Len(q.callstk)
  OBVIOUS
<1>2. n \in Nat /\ n - k \in 1 .. n /\ k \in Nat
  BY <1>1, MergeFrom
<1>3. e \in FpFrame
  BY <1>1, <1>2, MergeFrom, ElementOfSeq, Zenon
<1>4. \A f \in FrameId : q.frames[f] # NoFrame =>
        q.frames[f] \in Frame /\ FrameTied(q, f) /\ q.frames[f].level \in 0 .. n - 1
  BY <1>1, MergeFrom, Zenon
<1>5. x # NoFrame => /\ x \in FrameId /\ q.frames[x] # NoFrame /\ q.frames[x].level = n - k - 1
  <2> SUFFICES ASSUME x # NoFrame
               PROVE  x \in FrameId /\ q.frames[x] # NoFrame /\ q.frames[x].level = n - k - 1
    OBVIOUS
  <2>1. x \in FrameId
    BY <1>3 DEF FpFrame
  <2>2. q.frames[x] # NoFrame /\ q.frames[x].level = n - k - 1
    BY <1>1, <1>2, Zenon DEF SlotsOK, Tied
  <2>3. QED BY <2>1, <2>2, Zenon
<1>6. x # NoFrame => ~Done(q, k, x) /\ q.frames[x].func = e.func
  <2> SUFFICES ASSUME x # NoFrame PROVE ~Done(q, k, x) /\ q.frames[x].func = e.func
    OBVIOUS
  <2>1. n - k - 1 + 1 = n - k /\ ~ (n - k - 1 >= n - k)
    BY <1>2
  <2>2. q.frames[x].level + 1 = n - k
    BY <1>5, <2>1, Zenon
  <2>3. q.frames[x].func = e.func
    BY <1>1, <1>4, <1>5, <2>2, Zenon DEF FrameTied
  <2>4. ~Done(q, k, x)
    BY <1>1, <1>5, <2>1, Zenon DEF Done
  <2>5. QED BY <2>3, <2>4, Zenon
<1>7. ASSUME NEW f \in FrameId PROVE Done(q, k + 1, f) <=> Done(q, k, f) \/ f = x
  <2>1. CASE q.frames[f] = NoFrame
    BY <2>1, Zenon DEF Done
  <2>2. CASE q.frames[f] # NoFrame
    <3>1. PICK v : v = q.frames[f].level
      OBVIOUS
    <3>2. v \in 0 .. n - 1 /\ FrameTied(q, f)
      BY <1>4, <2>2, <3>1, Zenon
    <3>3. f # NoFrame
      BY Constants, Zenon
    <3>4. v + 1 = n - k => f = x
      BY <1>1, <3>1, <3>2, Zenon DEF FrameTied
    <3>5. f = x => v = n - k - 1
      BY <1>5, <3>1, <3>3, Zenon
    <3> HIDE DEF x
    <3>6. v >= n - (k + 1) <=> v >= n - k \/ f = x
      BY <1>2, <3>2, <3>4, <3>5
    <3>7. QED BY <1>1, <2>2, <3>1, <3>6, Zenon DEF Done, x
  <2>3. QED BY <2>1, <2>2, Zenon
<1>8. QED BY <1>3, <1>4, <1>5, <1>6, <1>7, Zenon

\* The Frame that merge has given to entry i.
LEMMA ReboundIs ==
  ASSUME NEW f \in Frame, NEW e \in FpFrame, NEW i \in 1 .. StackLimit
  PROVE  LET r == Rebound(f, e, i) IN
         /\ r \in Frame /\ r.level = i - 1 /\ r.func = f.func /\ r.fp = e.fp /\ r.pad = f.pad
         /\ r.pad => r.title = r.fp
<1>1. i - 1 \in 0 .. StackLimit - 1 /\ e.fp \in 1 .. MaxDepth /\ e.fp \in 0 .. MaxDepth
  BY Constants DEF FpFrame
<1> DEFINE g == [f EXCEPT !.level = i - 1]
           h == [g EXCEPT !.fp = e.fp]
           r == [h EXCEPT !.title = IF f.pad THEN e.fp ELSE @]
<1>2. Rebound(f, e, i) = r
  BY DEF Rebound
<1>3. g \in Frame /\ g.level = i - 1 /\ g.func = f.func /\ g.pad = f.pad
  BY <1>1 DEF Frame
<1> HIDE DEF g
<1>4. h \in Frame /\ h.level = i - 1 /\ h.func = f.func /\ h.pad = f.pad /\ h.fp = e.fp
  BY <1>1, <1>3 DEF Frame
<1> HIDE DEF h
<1>5. /\ r \in Frame /\ r.level = i - 1 /\ r.func = f.func /\ r.pad = f.pad /\ r.fp = e.fp
      /\ r.title = IF f.pad THEN e.fp ELSE h.title
  BY <1>1, <1>4 DEF Frame
<1>6. QED BY <1>2, <1>5, Zenon

\* What give makes of s for entry i, which is new or has a Frame that the spies
\* have had made.
GivenBy(s, f, i, z) ==
  LET y == s.callstk[i].frame
      fr == Rebound(s.frames[f], s.callstk[i], i)
  IN /\ z \in Slots /\ SameCalls(s.callstk, z.callstk) /\ z.callstk[i].frame = f
     /\ \A j \in 1 .. Len(s.callstk) : j # i => z.callstk[j] = s.callstk[j]
     /\ fr \in Frame /\ z.frames[f] = fr
     /\ y # NoFrame => z.frames[y] = NoFrame
     /\ \A g \in FrameId : g # f /\ g # y => z.frames[g] = s.frames[g]
     /\ z.lost = (s.lost \/ (y # NoFrame /\ s.frames[y].pad))

LEMMA GiveIs ==
  ASSUME NEW s \in Slots, NEW f \in FrameId, NEW i \in 1 .. Len(s.callstk), i <= StackLimit,
         s.frames[f] # NoFrame, s.callstk[i].frame # f
  PROVE  GivenBy(s, f, i, give(s, f, i))
<1> DEFINE y == s.callstk[i].frame
           z == give(s, f, i)
           fr == Rebound(s.frames[f], s.callstk[i], i)
           e == s.callstk[i]
           N == Len(s.callstk)
           st == [s.callstk EXCEPT ![i].frame = f]
           fs == [g \in FrameId |-> CASE g = f -> fr
                                    [] g # f /\ g = e.frame -> NoFrame
                                    [] OTHER -> s.frames[g]]
           lo == s.lost \/ (e.frame # NoFrame /\ s.frames[e.frame].pad)
<1>1. /\ s.callstk \in Seq(FpFrame) /\ s.frames \in [FrameId -> Frame \cup {NoFrame}]
      /\ N \in Nat /\ i \in 1 .. StackLimit /\ s.lost \in BOOLEAN
  BY LenProperties, Constants DEF Slots
<1>2. \A j \in 1 .. N : s.callstk[j] \in FpFrame
  BY <1>1, ElementOfSeq, Zenon
<1>3. z = [callstk |-> st, frames |-> fs, lost |-> lo]
  BY Zenon DEF give
<1>4. fr \in Frame
  <2>1. s.frames[f] \in Frame
    BY <1>1
  <2>2. QED BY <1>1, <1>2, <2>1, ReboundIs, Zenon
<1> HIDE DEF fr
<1>5. e \in FpFrame /\ (y # NoFrame => y \in FrameId)
  BY <1>2 DEF FpFrame
<1>6. lo \in BOOLEAN
  <2>1. lo = TRUE \/ lo = FALSE
    OBVIOUS
  <2> HIDE DEF lo
  <2>2. QED BY <2>1
<1>7. /\ st \in Seq(FpFrame) /\ Len(st) = N /\ st[i] = [e EXCEPT !.frame = f]
      /\ \A j \in 1 .. N : j # i => st[j] = s.callstk[j]
  <2> DEFINE en == [e EXCEPT !.frame = f]
  <2>1. en \in FpFrame
    BY <1>5 DEF FpFrame
  <2>2. st = [s.callstk EXCEPT ![i] = en]
    OBVIOUS
  <2> HIDE DEF en, st
  <2>3. /\ st \in Seq(FpFrame) /\ Len(st) = N /\ st[i] = en
        /\ \A j \in 1 .. N : j # i => st[j] = s.callstk[j]
    BY <1>1, <2>1, <2>2, ExceptSeq
  <2>4. QED BY <2>3 DEF en
<1>8. fs \in [FrameId -> Frame \cup {NoFrame}]
  BY <1>1, <1>4
<1>9. /\ fs[f] = fr /\ (y # NoFrame => fs[y] = NoFrame)
      /\ \A g \in FrameId : g # f /\ g # y => fs[g] = s.frames[g]
  BY <1>5
<1>10. st[i].frame = f
  <2>1. [e EXCEPT !.frame = f].frame = f
    BY <1>5 DEF FpFrame
  <2>2. QED BY <1>7, <2>1, Zenon
<1>11. SameCalls(s.callstk, st)
  <2>1. ASSUME NEW j \in 1 .. N PROVE st[j] = [s.callstk[j] EXCEPT !.frame = st[j].frame]
    <3>1. CASE j = i
      BY <1>7, <1>10, <3>1, Zenon
    <3>2. CASE j # i
      <4>1. st[j] = s.callstk[j] /\ s.callstk[j] \in FpFrame
        BY <1>2, <1>7, <3>2, Zenon
      <4> HIDE DEF st
      <4>2. QED BY <4>1 DEF FpFrame
    <3>3. QED BY <3>1, <3>2, Zenon
  <2>2. QED BY <1>7, <2>1, Zenon DEF SameCalls
<1> HIDE DEF st, fs, lo
<1>12. z.callstk = st /\ z.frames = fs /\ z.lost = lo
  BY <1>3
<1>13. z \in Slots
  BY <1>3, <1>6, <1>7, <1>8 DEF Slots
<1>14. lo = (s.lost \/ (y # NoFrame /\ s.frames[y].pad))
  BY Zenon DEF lo
<1>15. QED
  BY <1>4, <1>7, <1>9, <1>10, <1>11, <1>12, <1>13, <1>14, Zenon DEF GivenBy, fr, z, y

\* A turn that gives a Frame to an entry.
GaveOK(q, cs, k, s, x, i, w) ==
  /\ InMerge(q, cs, k + 1, i - 1, w)
  /\ w.callstk[i].frame = x /\ w.frames[x].pad = q.frames[x].pad
  /\ \A j \in 1 .. Len(cs) : j # i /\ s.callstk[j].frame # NoFrame =>
       /\ w.callstk[j] = s.callstk[j]
       /\ w.frames[s.callstk[j].frame] = s.frames[s.callstk[j].frame]

LEMMA Given ==
  ASSUME NEW q, SlotsOK(q), NEW cs, Fresh(cs), NEW k \in 0 .. Len(q.callstk) - 1,
         NEW c \in 0 .. Len(cs), NEW s, InMerge(q, cs, k, c, s),
         NEW e, e = q.callstk[Len(q.callstk) - k], e.frame # NoFrame,
         NEW i \in 1 .. c, s.callstk[i].func = e.func
  PROVE  GaveOK(q, cs, k, s, e.frame, i, give(s, e.frame, i))
<1> DEFINE x == e.frame
           y == s.callstk[i].frame
           z == give(s, x, i)
           fr == Rebound(s.frames[x], s.callstk[i], i)
           N == Len(cs)
<1>1. /\ x \in FrameId /\ x # NoFrame /\ ~Done(q, k, x) /\ q.frames[x] \in Frame
      /\ q.frames[x].func = e.func
      /\ \A f \in FrameId : Done(q, k + 1, f) <=> Done(q, k, f) \/ f = x
  BY NextDone
<1>2. /\ s \in Slots /\ s.lost = FALSE /\ SameCalls(cs, s.callstk) /\ Len(s.callstk) = N
      /\ s.frames[x] = q.frames[x] /\ s.frames[x] # NoFrame
  BY <1>1, Zenon DEF InMerge, SameCalls, Done
<1>3. /\ N \in Nat /\ N <= StackLimit /\ i \in 1 .. N /\ i \in 1 .. StackLimit /\ i <= StackLimit
      /\ cs \in Seq(FpFrame) /\ s.callstk \in Seq(FpFrame)
      /\ \A j \in 1 .. i - 1 : j \in 1 .. c /\ j \in 1 .. N /\ j # i
      /\ i - 1 + 1 = i /\ i <= c /\ ~ (i <= i - 1)
      /\ \A j \in 1 .. N : j <= i - 1 => j <= c
  BY <1>2, Constants DEF Fresh, Slots
<1>4. \A j \in 1 .. N : s.callstk[j] \in FpFrame
  BY <1>2, <1>3, ElementOfSeq, Zenon
<1>5. \A j \in 1 .. N : s.callstk[j].frame # NoFrame =>
        /\ EntryOK(q, k, c, s, j) /\ s.callstk[j].frame \in FrameId
        /\ s.callstk[j].frame # x /\ Done(q, k + 1, s.callstk[j].frame)
        /\ j # i => s.callstk[j].frame # y
  <2>1. ASSUME NEW j \in 1 .. N, s.callstk[j].frame # NoFrame
        PROVE  /\ EntryOK(q, k, c, s, j) /\ s.callstk[j].frame \in FrameId
               /\ s.callstk[j].frame # x /\ Done(q, k + 1, s.callstk[j].frame)
               /\ j # i => s.callstk[j].frame # y
    <3>1. s.callstk[j].frame \in FrameId
      BY <1>4, <2>1 DEF FpFrame
    <3>2. EntryOK(q, k, c, s, j)
      BY <2>1, Zenon DEF InMerge
    <3>3. s.callstk[j].frame # x /\ Done(q, k + 1, s.callstk[j].frame)
      BY <1>1, <3>1, <3>2, Zenon DEF EntryOK
    <3>4. ASSUME s.callstk[j].frame = y PROVE j = i
      <4>1. EntryOK(q, k, c, s, i)
        BY <1>3, <2>1, <3>4, Zenon DEF InMerge
      <4>2. j - 1 = i - 1
        BY <3>2, <3>4, <4>1, Zenon DEF EntryOK
      <4>3. QED BY <1>3, <4>2
    <3>5. QED BY <3>1, <3>2, <3>3, <3>4, Zenon
  <2>2. QED BY <2>1, Zenon
<1>6. y # x /\ (y # NoFrame => s.frames[y].pad = FALSE /\ Done(q, k, y))
  BY <1>1, <1>3, <1>5, Zenon DEF EntryOK
<1>7. /\ z \in Slots /\ SameCalls(s.callstk, z.callstk) /\ z.callstk[i].frame = x
      /\ \A j \in 1 .. N : j # i => z.callstk[j] = s.callstk[j]
      /\ fr \in Frame /\ z.frames[x] = fr
      /\ y # NoFrame => z.frames[y] = NoFrame
      /\ \A g \in FrameId : g # x /\ g # y => z.frames[g] = s.frames[g]
      /\ z.lost = (s.lost \/ (y # NoFrame /\ s.frames[y].pad))
  <2> HIDE DEF x, z, fr, y, N
  <2>1. /\ i \in 1 .. Len(s.callstk) /\ i <= StackLimit /\ s.frames[x] # NoFrame
        /\ s.callstk[i].frame # x /\ x \in FrameId /\ s \in Slots
    BY <1>1, <1>2, <1>3, <1>6, Zenon DEF y
  <2>2. GivenBy(s, x, i, z)
    BY ONLY <2>1, GiveIs, Zenon DEF z
  <2>3. QED BY <1>2, <2>2, Zenon DEF GivenBy, fr, y
<1>8. /\ fr # NoFrame /\ fr.level = i - 1 /\ fr.func = e.func /\ fr.fp = s.callstk[i].fp
      /\ fr.pad = q.frames[x].pad /\ (fr.pad => fr.title = fr.fp)
  <2>1. /\ fr.level = i - 1 /\ fr.func = s.frames[x].func /\ fr.fp = s.callstk[i].fp
        /\ fr.pad = s.frames[x].pad /\ (fr.pad => fr.title = fr.fp)
    <3>1. s.frames[x] \in Frame /\ s.callstk[i] \in FpFrame /\ i \in 1 .. StackLimit
      BY <1>1, <1>2, <1>3, <1>4, Zenon
    <3>2. QED BY ONLY <3>1, ReboundIs, Zenon
  <2>2. fr # NoFrame
    BY <1>7, NullAssumption, Zenon
  <2>3. QED BY <1>1, <1>2, <2>1, <2>2, Zenon
<1>9. z.lost = FALSE
  BY <1>2, <1>6, <1>7, Zenon
<1> HIDE DEF fr, z
<1>10. z.callstk \in Seq(FpFrame) /\ SameCalls(cs, z.callstk) /\ Len(z.callstk) = N
  <2>1. z.callstk \in Seq(FpFrame)
    BY <1>7 DEF Slots
  <2>2. SameCalls(cs, z.callstk)
    BY <1>2, <1>3, <1>7, <2>1, SameCallsOn, Zenon
  <2>3. QED BY <2>1, <2>2, Zenon DEF SameCalls
<1>11. /\ z.callstk[i].func = e.func /\ z.callstk[i].fp = s.callstk[i].fp
  <2>1. \A j \in 1 .. Len(s.callstk) :
          z.callstk[j].func = s.callstk[j].func /\ z.callstk[j].fp = s.callstk[j].fp
    <3>1. s.callstk \in Seq(FpFrame) /\ SameCalls(s.callstk, z.callstk)
      BY <1>3, <1>7, Zenon
    <3>2. QED BY ONLY <3>1, SameCallsIs, Zenon
  <2>2. i \in 1 .. Len(s.callstk)
    BY <1>2, <1>3, Zenon
  <2>3. QED BY <2>1, <2>2, Zenon
<1>12. \A j \in 1 .. N : j # i /\ s.callstk[j].frame # NoFrame =>
         /\ z.callstk[j] = s.callstk[j]
         /\ z.frames[s.callstk[j].frame] = s.frames[s.callstk[j].frame]
  BY <1>5, <1>7, Zenon
<1>13. ASSUME NEW j \in 1 .. N, z.callstk[j].frame # NoFrame
       PROVE  EntryOK(q, k + 1, i - 1, z, j)
  <2>1. CASE j = i
    <3>1. z.callstk[j].frame = x /\ Done(q, k + 1, x) /\ ~ (j <= i - 1)
      BY <1>1, <1>3, <1>7, <2>1, Zenon
    <3>2. QED BY <1>7, <1>8, <2>1, <3>1, Zenon DEF EntryOK
  <2>2. CASE j # i
    <3>1. z.callstk[j] = s.callstk[j]
      BY <1>7, <2>2, Zenon
    <3>2. s.callstk[j].frame # NoFrame
      BY <1>13, <3>1, Zenon
    <3>3. z.frames[s.callstk[j].frame] = s.frames[s.callstk[j].frame]
      BY <1>12, <2>2, <3>2, Zenon
    <3>4. EntryOK(q, k, c, s, j) /\ Done(q, k + 1, s.callstk[j].frame)
      BY <1>5, <3>2, Zenon
    <3>5. j <= i - 1 => j <= c
      BY <1>3, Zenon
    <3>6. QED BY <3>1, <3>3, <3>4, <3>5, Zenon DEF EntryOK
  <2>3. QED BY <2>1, <2>2, Zenon
<1>14. ASSUME NEW f \in FrameId, ~Done(q, k + 1, f) PROVE z.frames[f] = q.frames[f]
  <2>1. ~Done(q, k, f) /\ f # x
    BY <1>1, <1>14, Zenon
  <2>2. f # NoFrame
    BY Constants, Zenon
  <2>3. f # y
    BY <1>6, <2>1, <2>2, Zenon
  <2>4. s.frames[f] = q.frames[f]
    BY <2>1, Zenon DEF InMerge
  <2>5. QED BY <1>7, <2>1, <2>3, <2>4, Zenon
<1>15. ASSUME NEW f \in FrameId, z.frames[f] # NoFrame, Done(q, k + 1, f) PROVE FrameTied(z, f)
  <2>1. CASE f = x
    <3>1. z.frames[f].level + 1 = i
      BY <1>3, <1>7, <1>8, <2>1, Zenon
    <3>2. i \in 1 .. Len(z.callstk)
      BY <1>3, <1>10, Zenon
    <3>3. QED BY <1>7, <1>8, <1>11, <2>1, <3>1, <3>2, Zenon DEF FrameTied
  <2>2. CASE f # x
    <3>1. f # y
      <4>1. f # NoFrame
        BY Constants, Zenon
      <4>2. QED BY <1>7, <1>15, <4>1, Zenon
    <3>2. z.frames[f] = s.frames[f] /\ Done(q, k, f)
      BY <1>1, <1>7, <1>15, <2>2, <3>1, Zenon
    <3>3. FrameTied(s, f)
      BY <1>15, <3>2, Zenon DEF InMerge
    <3>4. PICK j : j = s.frames[f].level + 1
      OBVIOUS
    <3>5. j \in 1 .. N /\ s.callstk[j].frame = f
      BY <1>2, <3>3, <3>4, Zenon DEF FrameTied
    <3>6. z.callstk[j] = s.callstk[j]
      BY <1>7, <3>1, <3>5, Zenon
    <3>7. QED BY <1>2, <1>10, <3>2, <3>3, <3>4, <3>6, Zenon DEF FrameTied
  <2>3. QED BY <2>1, <2>2, Zenon
<1>16. InMerge(q, cs, k + 1, i - 1, z)
  BY <1>7, <1>9, <1>10, <1>13, <1>14, <1>15, Zenon DEF InMerge
<1>17. QED BY <1>7, <1>8, <1>12, <1>16, Zenon DEF z, GaveOK

\* A turn that gives none: the Frame of the entry is deleted, or it has none.
Without(s, x, z) ==
  /\ z \in Slots /\ z.lost = s.lost /\ z.callstk = s.callstk
  /\ x # NoFrame => z.frames[x] = NoFrame
  /\ \A f \in FrameId : f # x => z.frames[f] = s.frames[f]

DroppedOK(q, cs, k, c, s, z) ==
  /\ InMerge(q, cs, k + 1, c, z)
  /\ \A j \in 1 .. Len(cs) : s.callstk[j].frame # NoFrame =>
       z.frames[s.callstk[j].frame] = s.frames[s.callstk[j].frame]

LEMMA Deleted ==
  ASSUME NEW q, SlotsOK(q), NEW cs, Fresh(cs), NEW k \in 0 .. Len(q.callstk) - 1,
         NEW c, NEW s, InMerge(q, cs, k, c, s),
         NEW e, e = q.callstk[Len(q.callstk) - k],
         NEW z, Without(s, e.frame, z)
  PROVE  DroppedOK(q, cs, k, c, s, z)
<1> DEFINE x == e.frame
           N == Len(cs)
<1>1. /\ z \in Slots /\ z.lost = s.lost /\ z.callstk = s.callstk
      /\ x # NoFrame => z.frames[x] = NoFrame
      /\ \A f \in FrameId : f # x => z.frames[f] = s.frames[f]
  BY Zenon DEF Without
<1>2. /\ x # NoFrame => x \in FrameId /\ ~Done(q, k, x)
      /\ \A f \in FrameId : Done(q, k + 1, f) <=> Done(q, k, f) \/ f = x
  BY NextDone
<1>3. /\ s \in Slots /\ s.lost = FALSE /\ SameCalls(cs, s.callstk) /\ Len(s.callstk) = N
      /\ s.callstk \in Seq(FpFrame)
  BY DEF InMerge, SameCalls, Slots
<1>4. \A j \in 1 .. N : s.callstk[j].frame # NoFrame =>
        s.callstk[j].frame \in FrameId /\ EntryOK(q, k, c, s, j)
  <2>1. \A j \in 1 .. N : s.callstk[j] \in FpFrame
    BY <1>3, ElementOfSeq, Zenon
  <2>2. \A j \in 1 .. N : s.callstk[j].frame # NoFrame => s.callstk[j].frame \in FrameId
    BY <2>1 DEF FpFrame
  <2>3. QED BY <2>2, Zenon DEF InMerge
<1>5. \A j \in 1 .. N : s.callstk[j].frame # NoFrame =>
        z.frames[s.callstk[j].frame] = s.frames[s.callstk[j].frame]
  BY <1>1, <1>2, <1>4, Zenon DEF EntryOK
<1>6. ASSUME NEW j \in 1 .. N, z.callstk[j].frame # NoFrame PROVE EntryOK(q, k + 1, c, z, j)
  <2>1. PICK g : g = s.callstk[j].frame
    OBVIOUS
  <2>2. z.callstk[j].frame = g /\ g # NoFrame
    BY <1>1, <1>6, <2>1, Zenon
  <2>3. z.frames[g] = s.frames[g] /\ g \in FrameId /\ EntryOK(q, k, c, s, j)
    BY <1>4, <1>5, <2>1, <2>2, Zenon
  <2>4. Done(q, k + 1, g)
    BY <1>2, <2>1, <2>3, Zenon DEF EntryOK
  <2>5. QED BY <1>1, <2>1, <2>2, <2>3, <2>4, Zenon DEF EntryOK
<1>7. \A f \in FrameId : ~Done(q, k + 1, f) => z.frames[f] = q.frames[f]
  BY <1>1, <1>2, Zenon DEF InMerge
<1>8. ASSUME NEW f \in FrameId, z.frames[f] # NoFrame, Done(q, k + 1, f) PROVE FrameTied(z, f)
  <2>1. f # x
    BY <1>1, <1>8, Constants, Zenon
  <2>2. z.frames[f] = s.frames[f] /\ Done(q, k, f)
    BY <1>1, <1>2, <1>8, <2>1, Zenon
  <2>3. FrameTied(s, f)
    BY <1>8, <2>2, Zenon DEF InMerge
  <2>4. QED BY <1>1, <2>2, <2>3, Zenon DEF FrameTied
<1>9. QED BY <1>1, <1>3, <1>5, <1>6, <1>7, <1>8, Zenon DEF InMerge, DroppedOK


\* What a turn for entry e does to the loop at m with N new entries, where it gets
\* to z: entries that are behind the loop keep their Frames with their windows,
\* and e's Frame is given to the last entry before m.c that is of its function.
TurnOK(q, N, m, e, z) ==
  /\ \A j \in 1 .. N : m.q.callstk[j].frame # NoFrame /\ j > m.c =>
       /\ z.q.callstk[j].frame = m.q.callstk[j].frame
       /\ z.q.frames[m.q.callstk[j].frame].pad = m.q.frames[m.q.callstk[j].frame].pad
  /\ \/ e.frame = NoFrame /\ z.c = m.c
     \/ /\ e.frame # NoFrame /\ \A i \in 1 .. m.c : m.q.callstk[i].func # e.func
        /\ z.c = m.c
     \/ \E i \in 1 .. m.c :
          /\ e.frame # NoFrame /\ m.q.callstk[i].func = e.func
          /\ \A j \in 1 .. m.c : m.q.callstk[j].func = e.func => j <= i
          /\ z.c = i - 1 /\ z.q.callstk[i].frame = e.frame
          /\ z.q.frames[e.frame].pad = q.frames[e.frame].pad

\* A turn of the loop gives the next entry's Frame, or deletes it.
LEMMA MergeStep ==
  ASSUME NEW q, SlotsOK(q), NEW cs, Fresh(cs), NEW a \in Asked(q),
         NEW k \in 0 .. Len(q.callstk) - 1, NEW m, MergeAt(q, cs, a, k, m),
         NEW e, e = q.callstk[Len(q.callstk) - k]
  PROVE  MergeAt(q, cs, a, k + 1, MergeOne(m, e)) /\ TurnOK(q, Len(cs), m, e, MergeOne(m, e))
<1> DEFINE x == e.frame
           r == m.q
<1>1. PICK z, N : z = MergeOne(m, e) /\ N = Len(cs)
  OBVIOUS
<1>2. /\ m = [c |-> m.c, q |-> r, asked |-> a] /\ m.c \in 0 .. N /\ InMerge(q, cs, k, m.c, r)
      /\ r \in Slots /\ Len(r.callstk) = N /\ SameCalls(cs, r.callstk) /\ r.lost = FALSE
  BY <1>1, Zenon DEF MergeAt, InMerge, SameCalls
<1>3. /\ N \in Nat /\ cs \in Seq(FpFrame)
      /\ r.frames \in [FrameId -> Frame \cup {NoFrame}] /\ r.callstk \in Seq(FpFrame)
      /\ \A j \in 1 .. N : j > m.c => \A i \in 1 .. m.c : j # i
      /\ \A i \in 1 .. m.c : i \in 1 .. N /\ i - 1 \in 0 .. N
  BY <1>1, <1>2 DEF Fresh, Slots
<1>4. e \in FpFrame /\ (x # NoFrame => x \in FrameId /\ ~Done(q, k, x))
  BY NextDone
<1>5. \/ x = NoFrame /\ z = m
      \/ /\ x # NoFrame /\ \A i \in 1 .. m.c : r.callstk[i].func # e.func
         /\ z = [c |-> m.c,
                 q |-> [callstk |-> r.callstk, frames |-> [r.frames EXCEPT ![x] = NoFrame],
                        lost |-> r.lost],
                 asked |-> a]
      \/ \E i \in 1 .. m.c :
           /\ x # NoFrame /\ r.callstk[i].func = e.func
           /\ \A j \in 1 .. m.c : r.callstk[j].func = e.func => j <= i
           /\ z = [c |-> i - 1, q |-> give(spies(a, r, x), x, i), asked |-> a]
  <2>1. m.c \in 0 .. Len(m.q.callstk)
    BY <1>2, Zenon
  <2>2. Turned(m, a, e, z)
    BY <1>1, <1>2, <1>4, <2>1, MergeOneIs, Zenon
  <2>3. QED BY <2>2, Zenon DEF Turned
<1>6. CASE x = NoFrame /\ z = m
  <2>1. Without(r, x, r)
    BY <1>2, <1>6, Zenon DEF Without
  <2>2. InMerge(q, cs, k + 1, m.c, r)
    BY <1>2, <2>1, Deleted, Zenon DEF DroppedOK
  <2>3. MergeAt(q, cs, a, k + 1, z)
    BY <1>1, <1>2, <1>6, <2>2, Zenon DEF MergeAt
  <2>4. TurnOK(q, N, m, e, z)
    BY <1>6, Zenon DEF TurnOK
  <2>5. QED BY <1>1, <2>3, <2>4, Zenon
<1>7. ASSUME x # NoFrame, \A i \in 1 .. m.c : r.callstk[i].func # e.func,
             z = [c |-> m.c,
                  q |-> [callstk |-> r.callstk, frames |-> [r.frames EXCEPT ![x] = NoFrame],
                         lost |-> r.lost],
                  asked |-> a]
      PROVE  MergeAt(q, cs, a, k + 1, z) /\ TurnOK(q, N, m, e, z)
  <2> DEFINE fs == [r.frames EXCEPT ![x] = NoFrame]
  <2>1. /\ fs \in [FrameId -> Frame \cup {NoFrame}] /\ fs[x] = NoFrame
        /\ \A f \in FrameId : f # x => fs[f] = r.frames[f]
    BY <1>3, <1>4, <1>7
  <2> HIDE DEF fs
  <2>2. /\ z.q.callstk = r.callstk /\ z.q.lost = r.lost /\ z.q.frames = fs /\ z.c = m.c
        /\ z = [c |-> z.c, q |-> z.q, asked |-> a]
        /\ z.q = [callstk |-> r.callstk, frames |-> fs, lost |-> FALSE]
    BY <1>2, <1>7 DEF fs
  <2>3. z.q \in Slots
    BY <1>3, <2>1, <2>2 DEF Slots
  <2>4. Without(r, x, z.q)
    BY <2>1, <2>2, <2>3, Zenon DEF Without
  <2>5. DroppedOK(q, cs, k, m.c, r, z.q)
    BY <1>2, <2>4, Deleted, Zenon
  <2>6. InMerge(q, cs, k + 1, m.c, z.q)
    BY <2>5, Zenon DEF DroppedOK
  <2>7. \A j \in 1 .. N : r.callstk[j].frame # NoFrame =>
          z.q.frames[r.callstk[j].frame] = r.frames[r.callstk[j].frame]
    BY <1>1, <2>5, Zenon DEF DroppedOK
  <2>8. MergeAt(q, cs, a, k + 1, z)
    BY <1>1, <1>2, <2>2, <2>6, Zenon DEF MergeAt
  <2>9. TurnOK(q, N, m, e, z)
    BY <1>7, <2>2, <2>7, Zenon DEF TurnOK
  <2>10. QED BY <2>8, <2>9, Zenon
<1>8. ASSUME NEW i \in 1 .. m.c, x # NoFrame, r.callstk[i].func = e.func,
             \A j \in 1 .. m.c : r.callstk[j].func = e.func => j <= i,
             z = [c |-> i - 1, q |-> give(spies(a, r, x), x, i), asked |-> a]
      PROVE  MergeAt(q, cs, a, k + 1, z) /\ TurnOK(q, N, m, e, z)
  <2>1. PICK s, w : s = spies(a, r, x) /\ w = give(s, x, i)
    OBVIOUS
  <2>2. InMerge(q, cs, k, m.c, s) /\ Grown(r, s)
    BY <1>2, <1>4, <1>8, <2>1, SpiesAre, Zenon
  <2>3. s.callstk[i].func = e.func
    <3>1. SameCalls(cs, s.callstk) /\ SameCalls(cs, r.callstk)
      BY <1>2, <2>2, Zenon DEF InMerge
    <3>2. /\ \A j \in 1 .. Len(cs) : s.callstk[j].func = cs[j].func
          /\ \A j \in 1 .. Len(cs) : r.callstk[j].func = cs[j].func
      <4>1. cs \in Seq(FpFrame)
        BY <1>3, Zenon
      <4>2. QED BY ONLY <3>1, <4>1, SameCallsIs, Zenon
    <3>3. i \in 1 .. Len(cs)
      BY <1>1, <1>3, Zenon
    <3>4. QED BY <1>8, <3>2, <3>3, Zenon
  <2>4. GaveOK(q, cs, k, s, x, i, w)
    <3>1. m.c \in 0 .. Len(cs) /\ x # NoFrame /\ i \in 1 .. m.c
      BY <1>1, <1>2, <1>8, Zenon
    <3>2. GaveOK(q, cs, k, s, x, i, give(s, x, i))
      BY <2>2, <2>3, <3>1, Given, Zenon
    <3>3. QED BY <2>1, <3>2, Zenon
  <2>5. z.c = i - 1 /\ z.q = w /\ z = [c |-> z.c, q |-> z.q, asked |-> a]
    <3>1. z = [c |-> i - 1, q |-> w, asked |-> a]
      BY <1>8, <2>1, Zenon
    <3>2. QED BY ONLY <3>1
  <2>6. MergeAt(q, cs, a, k + 1, z)
    BY <1>1, <1>3, <2>4, <2>5, Zenon DEF MergeAt, GaveOK
  <2>7. ASSUME NEW j \in 1 .. N, r.callstk[j].frame # NoFrame, j > m.c
        PROVE  /\ w.callstk[j].frame = r.callstk[j].frame
               /\ w.frames[r.callstk[j].frame].pad = r.frames[r.callstk[j].frame].pad
    <3>1. PICK y : y = r.callstk[j].frame
      OBVIOUS
    <3>2. s.callstk[j].frame = y /\ j # i /\ y # NoFrame
      <4>1. j \in 1 .. Len(r.callstk) /\ r.callstk[j].frame # NoFrame
        BY <1>2, <2>7, Zenon
      <4>2. s.callstk[j].frame = r.callstk[j].frame
        BY <2>2, <4>1, Zenon DEF Grown
      <4>3. j # i
        BY <1>3, <2>7, Zenon
      <4>4. QED BY <3>1, <4>1, <4>2, <4>3, Zenon
    <3>3. y \in FrameId
      <4>1. r.callstk[j] \in FpFrame
        BY <1>2, <1>3, ElementOfSeq, Zenon
      <4>2. QED BY <2>7, <3>1, <4>1 DEF FpFrame
    <3>4. r.frames[y] # NoFrame
      BY <1>1, <1>2, <2>7, <3>1, Zenon DEF InMerge, EntryOK
    <3>5. s.frames[y] = r.frames[y]
      BY <2>2, <3>3, <3>4, Zenon DEF Grown, Kept
    <3>6. w.callstk[j] = s.callstk[j] /\ w.frames[y] = s.frames[y]
      BY <1>1, <2>4, <3>2, Zenon DEF GaveOK
    <3>7. QED BY <3>1, <3>2, <3>5, <3>6, Zenon
  <2>8. TurnOK(q, N, m, e, z)
    BY <1>8, <2>4, <2>5, <2>7, Zenon DEF TurnOK, GaveOK
  <2>9. QED BY <2>6, <2>8, Zenon
<1>9. QED BY <1>1, <1>5, <1>6, <1>7, <1>8, Zenon

\* Before the first turn nothing is given.
Starting(q, cs, a) == [c |-> Len(cs), q |-> [q EXCEPT !.callstk = cs], asked |-> a]

LEMMA MergeStarts ==
  ASSUME NEW q, SlotsOK(q), NEW cs, Fresh(cs), NEW a
  PROVE  MergeAt(q, cs, a, 0, Starting(q, cs, a)) /\ Starting(q, cs, a).c = Len(cs)
<1> DEFINE r == [q EXCEPT !.callstk = cs]
           m == Starting(q, cs, a)
<1>1. /\ q.frames \in [FrameId -> Frame \cup {NoFrame}] /\ q \in Slots /\ q.lost = FALSE
      /\ cs \in Seq(FpFrame) /\ Len(cs) \in Nat
      /\ \A i \in 1 .. Len(cs) : cs[i] \in FpFrame /\ cs[i].frame = NoFrame
  BY LenProperties, ElementOfSeq DEF SlotsOK, Slots, Fresh
<1>2. r \in Slots /\ r.callstk = cs /\ r.frames = q.frames /\ r.lost = FALSE
  BY <1>1 DEF Slots
<1> HIDE DEF r
<1>3. m.c = Len(cs) /\ m.q = r /\ m = [c |-> m.c, q |-> m.q, asked |-> a]
  BY DEF Starting, r
<1> HIDE DEF m
<1>4. m.c \in 0 .. Len(cs)
  BY <1>1, <1>3
<1>5. SameCalls(cs, r.callstk)
  BY <1>1, <1>2, SameCallsSame, Zenon
<1>6. \A f \in FrameId : Done(q, 0, f) => q.frames[f] = NoFrame
  <2>1. ASSUME NEW f \in FrameId, q.frames[f] # NoFrame PROVE ~ (q.frames[f].level >= Len(q.callstk) - 0)
    <3>1. q.frames[f].level \in 0 .. Len(q.callstk) - 1 /\ Len(q.callstk) \in Nat
      BY <2>1, MergeFrom, Zenon
    <3>2. QED BY <3>1
  <2>2. QED BY <2>1, Zenon DEF Done
<1>7. InMerge(q, cs, 0, m.c, r)
  BY <1>1, <1>2, <1>5, <1>6, Zenon DEF InMerge
<1>8. QED BY <1>3, <1>4, <1>7, Zenon DEF MergeAt, m

\* g tells where the loop of merge is after each turn.
Merging(q, cs, a, g) ==
  /\ \A k \in 0 .. Len(q.callstk) : MergeAt(q, cs, a, k, g[k])
  /\ g[0] = Starting(q, cs, a)
  /\ \A k \in 0 .. Len(q.callstk) - 1 : g[k + 1] = MergeOne(g[k], q.callstk[Len(q.callstk) - k])

\* merge is its loop, run to the end.
LEMMA MergeLoop ==
  ASSUME NEW q, SlotsOK(q), NEW cs, Fresh(cs), NEW a \in Asked(q)
  PROVE  \E g : Merging(q, cs, a, g) /\ merge(a, q, cs) = g[Len(q.callstk)].q
<1> DEFINE m == Starting(q, cs, a)
           s == Reverse(q.callstk)
<1>1. PICK n : n = Len(q.callstk)
  OBVIOUS
<1>2. n \in Nat /\ Len(s) = n /\ DOMAIN s = 1 .. Len(s)
  BY <1>1, LenProperties DEF SlotsOK, Slots, Reverse
<1>3. \A i \in 1 .. n : s[i] = q.callstk[n - i + 1]
  BY <1>1 DEF Reverse
<1>4. merge(a, q, cs) = FoldLeft(MergeOne, m, s).q
  <2>1. cs # <<>>
    BY DEF Fresh
  <2>2. QED BY <2>1, Zenon DEF merge, Starting
<1>5. PICK g : Turns(g, "merge", m, s) /\ FoldLeft(MergeOne, m, s) = g[Len(s)]
  <2> HIDE DEF s, m
  <2>1. QED BY <1>2, MergeTurns
<1>6. g[0] = m /\ \A i \in 1 .. n : g[i] = MergeOne(g[i - 1], s[i])
  <2> HIDE DEF s, m
  <2>1. QED BY <1>2, <1>5, Zenon DEF Turns, Turn
<1>7. \A k \in 0 .. n - 1 : g[k + 1] = MergeOne(g[k], q.callstk[n - k])
  <2>1. ASSUME NEW k \in 0 .. n - 1 PROVE g[k + 1] = MergeOne(g[k], q.callstk[n - k])
    <3>1. k + 1 \in 1 .. n /\ (k + 1) - 1 = k /\ n - (k + 1) + 1 = n - k
      BY <1>2
    <3> HIDE DEF s
    <3>2. QED BY <1>3, <1>6, <3>1, Zenon
  <2>2. QED BY <2>1, Zenon
<1>8. \A k \in 0 .. n : MergeAt(q, cs, a, k, g[k])
  <2> DEFINE T == { k \in Nat : k <= n => MergeAt(q, cs, a, k, g[k]) }
  <2>1. 0 \in T
    BY <1>6, MergeStarts
  <2>2. ASSUME NEW k \in Nat, k + 1 <= n, MergeAt(q, cs, a, k, g[k])
        PROVE  MergeAt(q, cs, a, k + 1, g[k + 1])
    <3>1. k \in 0 .. n - 1
      BY <1>2, <2>2
    <3>2. MergeAt(q, cs, a, k + 1, MergeOne(g[k], q.callstk[n - k]))
      BY <1>1, <2>2, <3>1, MergeStep, Zenon
    <3>3. QED BY <1>7, <3>1, <3>2, Zenon
  <2>3. \A k \in Nat : k \in T => k + 1 \in T
    BY <1>2, <2>2
  <2>4. Nat \subseteq T
    <3> HIDE DEF T
    <3>1. QED BY <2>1, <2>3, Induct
  <2>5. QED BY <1>2, <2>4
<1>9. Merging(q, cs, a, g)
  BY <1>1, <1>6, <1>7, <1>8, Zenon DEF Merging
<1>10. merge(a, q, cs) = g[n].q
  BY <1>2, <1>4, <1>5, Zenon
<1>11. QED BY <1>1, <1>9, <1>10, Zenon

\* Without a call stack there are no Frames.
LEMMA ClosedFrames ==
  ASSUME NEW q, SlotsOK(q)
  PROVE  /\ SlotsOK(closeframes(q)) /\ closeframes(q).callstk = <<>>
         /\ \A f \in FrameId : closeframes(q).frames[f] = NoFrame
<1>1. q \in Slots /\ q.lost = FALSE
  BY DEF SlotsOK
<1>2. /\ closeframes(q).callstk = <<>> /\ closeframes(q).frames = NoFrames
      /\ closeframes(q).lost = FALSE /\ closeframes(q) \in Slots
  <2> DEFINE g == [q EXCEPT !.callstk = <<>>]
             h == [g EXCEPT !.frames = NoFrames]
  <2>1. g \in Slots /\ g.callstk = <<>> /\ g.lost = FALSE
    <3>1. <<>> \in Seq(FpFrame)
      OBVIOUS
    <3>2. QED BY <1>1, <3>1, Zenon DEF Slots
  <2> HIDE DEF g
  <2>2. NoFrames \in [FrameId -> Frame \cup {NoFrame}]
    BY DEF NoFrames
  <2>3. h \in Slots /\ h.callstk = <<>> /\ h.frames = NoFrames /\ h.lost = FALSE
    BY <2>1, <2>2 DEF Slots
  <2>4. closeframes(q) = h
    BY DEF closeframes, g
  <2>5. QED BY <2>3, <2>4, Zenon
<1>3. Len(<<>>) = 0 /\ 0 <= StackLimit /\ 1 .. 0 = {}
  BY Constants
<1>4. \A f \in FrameId : NoFrames[f] = NoFrame
  BY DEF NoFrames
<1>5. Tied(closeframes(q))
  BY <1>2, <1>3, <1>4, Zenon DEF Tied
<1>6. QED BY <1>2, <1>3, <1>4, <1>5, Zenon DEF SlotsOK

\* merge makes the new call stack and the Frames belong to each other.
LEMMA Merged ==
  ASSUME NEW q, SlotsOK(q), NEW cs, cs = <<>> \/ Fresh(cs), NEW a \in Asked(q)
  PROVE  SlotsOK(merge(a, q, cs)) /\ SameCalls(cs, merge(a, q, cs).callstk)
<1>1. CASE cs = <<>>
  <2>1. merge(a, q, cs) = closeframes(q)
    BY <1>1, Zenon DEF merge
  <2>2. Len(<<>>) = 0 /\ 1 .. 0 = {}
    OBVIOUS
  <2>3. SameCalls(<<>>, <<>>)
    BY <2>2 DEF SameCalls
  <2>4. QED BY <1>1, <2>1, <2>3, ClosedFrames, Zenon
<1>2. CASE Fresh(cs)
  <2>1. PICK g : Merging(q, cs, a, g) /\ merge(a, q, cs) = g[Len(q.callstk)].q
    BY <1>2, MergeLoop, Zenon
  <2>2. PICK n, r : n = Len(q.callstk) /\ r = merge(a, q, cs)
    OBVIOUS
  <2>3. n \in Nat /\ n \in 0 .. n /\ n - n = 0
    BY <2>2, MergeFrom
  <2>4. PICK c : InMerge(q, cs, n, c, r)
    BY <2>1, <2>2, <2>3, Zenon DEF Merging, MergeAt
  <2>5. r \in Slots /\ r.lost = FALSE /\ SameCalls(cs, r.callstk) /\ Len(r.callstk) = Len(cs)
    BY <2>4, Zenon DEF InMerge, SameCalls
  <2>6. \A f \in FrameId : Done(q, n, f)
    <3>1. ASSUME NEW f \in FrameId, q.frames[f] # NoFrame PROVE q.frames[f].level >= n - n
      <4>1. q.frames[f].level \in 0 .. n - 1
        BY <2>2, <3>1, MergeFrom, Zenon
      <4>2. QED BY <2>3, <4>1
    <3>2. QED BY <2>2, <3>1, Zenon DEF Done
  <2>7. \A f \in FrameId : r.frames[f] # NoFrame => FrameTied(r, f)
    BY <2>4, <2>6, Zenon DEF InMerge
  <2>8. \A i \in 1 .. Len(r.callstk) : r.callstk[i].frame # NoFrame =>
          r.frames[r.callstk[i].frame] # NoFrame /\ r.frames[r.callstk[i].frame].level = i - 1
    BY <2>4, <2>5, Zenon DEF InMerge, EntryOK
  <2>9. Tied(r)
    BY <2>7, <2>8, Zenon DEF Tied, FrameTied
  <2>10. Len(r.callstk) <= StackLimit
    BY <1>2, <2>5, Constants DEF Fresh
  <2>11. QED BY <2>2, <2>5, <2>9, <2>10, Zenon DEF SlotsOK
<1>3. QED BY <1>1, <1>2, Zenon

\* The d + 1 oldest entries of call stack os are of the functions that those
\* of cs are of, and each of them that is of function F has a Frame.
SameBottom(os, cs, d, F) ==
  /\ d \in Nat /\ d < Len(os) /\ d < Len(cs)
  /\ \A k \in 0 .. d : os[Len(os) - k].func = cs[Len(cs) - k].func
  /\ \A k \in 0 .. d : os[Len(os) - k].func = F => os[Len(os) - k].frame # NoFrame

\* Entry j from the bottom of r has the Frame and the window that it had in q.
SameWindow(q, r, j) ==
  LET f == q.callstk[Len(q.callstk) - j].frame
  IN r.callstk[Len(r.callstk) - j].frame = f /\ r.frames[f].pad = q.frames[f].pad

\* After k turns: none of them was given to an entry that is too new.
StayAt(q, cs, d, F, k, m) ==
  /\ k <= d + 1 => m.c >= Len(cs) - k
  /\ \A j \in 0 .. d : j < k /\ q.callstk[Len(q.callstk) - j].func = F =>
       Len(cs) - j > m.c /\ SameWindow(q, m.q, j)

\* A turn of the loop gives no Frame to an entry that is too new.
LEMMA StayStep ==
  ASSUME NEW q, SlotsOK(q), NEW cs, Fresh(cs), NEW a \in Asked(q),
         NEW k \in 0 .. Len(q.callstk) - 1, NEW m, MergeAt(q, cs, a, k, m),
         NEW d, NEW F, SameBottom(q.callstk, cs, d, F), StayAt(q, cs, d, F, k, m)
  PROVE  StayAt(q, cs, d, F, k + 1, MergeOne(m, q.callstk[Len(q.callstk) - k]))
<1> DEFINE st == m.q.callstk
<1>1. PICK n, N, os, e, z : /\ n = Len(q.callstk) /\ N = Len(cs) /\ os = q.callstk
                            /\ e = os[n - k] /\ z = MergeOne(m, e)
  OBVIOUS
<1>2. /\ n \in Nat /\ N \in Nat /\ Len(st) = N /\ n - k \in 1 .. n /\ d \in Nat /\ d < n /\ d < N
      /\ m.c \in 0 .. N /\ Len(z.q.callstk) = N /\ SameCalls(cs, st) /\ cs \in Seq(FpFrame)
      /\ InMerge(q, cs, k, m.c, m.q) /\ TurnOK(q, N, m, e, z)
  <2>1. InMerge(q, cs, k, m.c, m.q) /\ m.c \in 0 .. N /\ Len(st) = N /\ SameCalls(cs, st)
    BY <1>1, Zenon DEF MergeAt, InMerge, SameCalls
  <2>2. n \in Nat /\ N \in Nat /\ cs \in Seq(FpFrame)
    BY <1>1, MergeFrom DEF Fresh
  <2>3. MergeAt(q, cs, a, k + 1, z) /\ TurnOK(q, N, m, e, z)
    BY <1>1, MergeStep, Zenon
  <2>4. Len(z.q.callstk) = N
    BY <1>1, <2>3, Zenon DEF MergeAt, InMerge, SameCalls
  <2>5. n - k \in 1 .. n
    BY <1>1, <2>2
  <2>6. d \in Nat /\ d < n /\ d < N
    BY <1>1, Zenon DEF SameBottom
  <2>7. QED BY <2>1, <2>2, <2>3, <2>4, <2>5, <2>6, Zenon
<1>3. \A i \in 1 .. N : st[i].func = cs[i].func
  <2>1. SameCalls(cs, st) /\ cs \in Seq(FpFrame)
    BY <1>2, Zenon
  <2>2. \A i \in 1 .. Len(cs) : st[i].func = cs[i].func
    BY ONLY <2>1, SameCallsIs, Zenon
  <2>3. QED BY <1>1, <2>2, Zenon
<1>4. /\ \A j \in 0 .. d : os[n - j].func = st[N - j].func /\ N - j \in 1 .. N
      /\ \A j \in 0 .. d : os[n - j].func = F => os[n - j].frame # NoFrame
  <2>1. \A j \in 0 .. d : N - j \in 1 .. N
    BY <1>2
  <2>2. QED BY <1>1, <1>3, <2>1, Zenon DEF SameBottom
<1>5. k <= d + 1 => m.c >= N - k
  BY <1>1, Zenon DEF StayAt
<1>6. \A j \in 0 .. d : j < k /\ os[n - j].func = F => N - j > m.c /\ SameWindow(q, m.q, j)
  BY <1>1, Zenon DEF StayAt
<1>7. \A j \in 0 .. d : j < k /\ os[n - j].func = F => SameWindow(q, z.q, j)
  <2>1. ASSUME NEW j \in 0 .. d, j < k, os[n - j].func = F
        PROVE  SameWindow(q, z.q, j)
    <3>1. PICK f, i : f = os[n - j].frame /\ i = N - j
      OBVIOUS
    <3>2. f # NoFrame /\ i \in 1 .. N /\ i > m.c /\ SameWindow(q, m.q, j)
      BY <1>4, <1>6, <2>1, <3>1, Zenon
    <3>3. st[i].frame = f /\ m.q.frames[f].pad = q.frames[f].pad
      BY <1>1, <1>2, <3>1, <3>2, Zenon DEF SameWindow
    <3>4. z.q.callstk[i].frame = st[i].frame /\ z.q.frames[st[i].frame].pad = m.q.frames[st[i].frame].pad
      BY <1>2, <3>2, <3>3, Zenon DEF TurnOK
    <3>5. z.q.callstk[i].frame = f /\ z.q.frames[f].pad = q.frames[f].pad
      BY <3>3, <3>4, Zenon
    <3>6. QED BY <1>1, <1>2, <3>1, <3>5, Zenon DEF SameWindow
  <2>2. QED BY <2>1, Zenon
<1>8. \/ e.frame = NoFrame /\ z.c = m.c
      \/ /\ e.frame # NoFrame /\ \A i \in 1 .. m.c : st[i].func # e.func
         /\ z.c = m.c
      \/ \E i \in 1 .. m.c :
           /\ e.frame # NoFrame /\ st[i].func = e.func
           /\ \A j \in 1 .. m.c : st[j].func = e.func => j <= i
           /\ z.c = i - 1 /\ z.q.callstk[i].frame = e.frame
           /\ z.q.frames[e.frame].pad = q.frames[e.frame].pad
  BY <1>2, Zenon DEF TurnOK
<1> HIDE DEF st
<1>9. CASE e.frame = NoFrame /\ z.c = m.c
  <2>1. k + 1 <= d + 1 => z.c >= N - (k + 1)
    BY <1>2, <1>5, <1>9
  <2>2. ASSUME NEW j \in 0 .. d, j < k + 1, os[n - j].func = F
        PROVE  N - j > z.c /\ SameWindow(q, z.q, j)
    <3>1. j # k
      BY <1>1, <1>4, <1>9, <2>2, Zenon
    <3>2. j < k
      BY <1>2, <2>2, <3>1
    <3>3. QED BY <1>6, <1>7, <1>9, <2>2, <3>2, Zenon
  <2>3. QED BY <1>1, <2>1, <2>2, Zenon DEF StayAt
<1>10. CASE e.frame # NoFrame /\ (\A i \in 1 .. m.c : st[i].func # e.func) /\ z.c = m.c
  <2>1. k > d
    <3> SUFFICES ASSUME k <= d PROVE FALSE
      BY <1>2
    <3>1. k \in 0 .. d /\ k <= d + 1
      BY <1>2
    <3>2. N - k \in 1 .. m.c
      BY <1>2, <1>5, <3>1
    <3>3. st[N - k].func = e.func
      BY <1>1, <1>4, <3>1, Zenon
    <3>4. QED BY <1>10, <3>2, <3>3, Zenon
  <2>2. ~ (k + 1 <= d + 1)
    BY <1>2, <2>1
  <2>3. \A j \in 0 .. d : j < k
    BY <1>2, <2>1
  <2>4. \A j \in 0 .. d : os[n - j].func = F => N - j > z.c /\ SameWindow(q, z.q, j)
    BY <1>6, <1>7, <1>10, <2>3, Zenon
  <2>5. QED BY <1>1, <2>2, <2>4, Zenon DEF StayAt
<1>11. ASSUME NEW i \in 1 .. m.c,
              e.frame # NoFrame, st[i].func = e.func,
              \A j \in 1 .. m.c : st[j].func = e.func => j <= i,
              z.c = i - 1, z.q.callstk[i].frame = e.frame,
              z.q.frames[e.frame].pad = q.frames[e.frame].pad
       PROVE  StayAt(q, cs, d, F, k + 1, z)
  <2>1. k <= d => N - k <= i
    <3> SUFFICES ASSUME k <= d PROVE N - k <= i
      OBVIOUS
    <3>1. k \in 0 .. d /\ k <= d + 1
      BY <1>2
    <3>2. N - k \in 1 .. m.c
      BY <1>2, <1>5, <3>1
    <3>3. st[N - k].func = e.func
      BY <1>1, <1>4, <3>1, Zenon
    <3>4. QED BY <1>11, <3>2, <3>3, Zenon
  <2>2. k + 1 <= d + 1 => z.c >= N - (k + 1)
    BY <1>2, <1>11, <2>1
  <2>3. \A j \in 0 .. d : N - j > m.c => N - j > z.c
    BY <1>2, <1>11
  <2>4. ASSUME NEW j \in 0 .. d, j < k + 1, os[n - j].func = F
        PROVE  N - j > z.c /\ SameWindow(q, z.q, j)
    <3>1. CASE j < k
      BY <1>6, <1>7, <2>3, <2>4, <3>1, Zenon
    <3>2. CASE j = k
      <4>1. e.func = F /\ N - k <= i
        <5>1. k <= d
          BY <1>2, <3>2
        <5>2. QED BY <1>1, <2>1, <2>4, <3>2, <5>1, Zenon
      <4>2. i = N - k
        <5> SUFFICES ASSUME i # N - k PROVE FALSE
          OBVIOUS
        <5>1. N - i \in 0 .. d /\ N - i < k /\ N - (N - i) = i
          BY <1>2, <3>2, <4>1
        <5>2. os[n - (N - i)].func = F
          BY <1>4, <1>11, <4>1, <5>1, Zenon
        <5>3. i > m.c
          BY <1>6, <5>1, <5>2, Zenon
        <5>4. QED BY <1>2, <5>3
      <4>3. SameWindow(q, z.q, j)
        BY <1>1, <1>2, <1>11, <3>2, <4>2, Zenon DEF SameWindow
      <4>4. N - j > z.c
        BY <1>2, <1>11, <3>2, <4>2
      <4>5. QED BY <4>3, <4>4, Zenon
    <3>3. j < k \/ j = k
      BY <1>2, <2>4
    <3>4. QED BY <3>1, <3>2, <3>3, Zenon
  <2>5. QED BY <1>1, <2>2, <2>4, Zenon DEF StayAt
<1>12. QED BY <1>1, <1>8, <1>9, <1>10, <1>11, Zenon

\* merge leaves the Frames of function F with their activations.
LEMMA MergeStays ==
  ASSUME NEW q, SlotsOK(q), NEW cs, Fresh(cs), NEW a \in Asked(q),
         NEW d, NEW F, SameBottom(q.callstk, cs, d, F)
  PROVE  \A j \in 0 .. d : q.callstk[Len(q.callstk) - j].func = F =>
           SameWindow(q, merge(a, q, cs), j)
<1>1. PICK g : Merging(q, cs, a, g) /\ merge(a, q, cs) = g[Len(q.callstk)].q
  BY MergeLoop, Zenon
<1>2. PICK n, N : n = Len(q.callstk) /\ N = Len(cs)
  OBVIOUS
<1>3. n \in Nat /\ N \in Nat /\ d \in Nat /\ d < n
  BY <1>2, MergeFrom DEF Fresh, SameBottom
<1> DEFINE T == { k \in Nat : k <= n => StayAt(q, cs, d, F, k, g[k]) }
<1>4. 0 \in T
  <2>1. g[0].c = Len(cs)
    BY <1>1, MergeStarts, Zenon DEF Merging
  <2>2. g[0].c >= Len(cs) - 0
    BY <1>2, <1>3, <2>1
  <2>3. \A j \in 0 .. d : ~ (j < 0)
    BY <1>3
  <2>4. StayAt(q, cs, d, F, 0, g[0])
    BY <2>2, <2>3, Zenon DEF StayAt
  <2>5. QED BY <2>4
<1>5. ASSUME NEW k \in Nat, k + 1 <= n, StayAt(q, cs, d, F, k, g[k])
      PROVE  StayAt(q, cs, d, F, k + 1, g[k + 1])
  <2>1. k \in 0 .. n - 1 /\ k \in 0 .. n
    BY <1>3, <1>5
  <2>2. MergeAt(q, cs, a, k, g[k]) /\ g[k + 1] = MergeOne(g[k], q.callstk[Len(q.callstk) - k])
    BY <1>1, <1>2, <2>1, Zenon DEF Merging
  <2>3. StayAt(q, cs, d, F, k + 1, MergeOne(g[k], q.callstk[Len(q.callstk) - k]))
    BY <1>2, <1>5, <2>1, <2>2, StayStep, Zenon
  <2>4. QED BY <2>2, <2>3, Zenon
<1>6. \A k \in Nat : k \in T => k + 1 \in T
  BY <1>3, <1>5
<1>7. n \in T
  <2> HIDE DEF T
  <2>1. QED BY <1>3, <1>4, <1>6, Induct
<1>8. StayAt(q, cs, d, F, n, g[n])
  BY <1>3, <1>7
<1>9. \A j \in 0 .. d : j < n
  BY <1>3
<1>10. QED BY <1>1, <1>2, <1>8, <1>9, Zenon DEF StayAt

-----------------------------------------------------------------------------
(* Call stacks and what the handlers do to them. *)

\* The Frames of q are where they were, with their windows.
StaysAt(q, r) ==
  /\ SameCalls(q.callstk, r.callstk)
  /\ \A i \in 1 .. Len(q.callstk) :
       q.callstk[i].frame # NoFrame => r.callstk[i].frame = q.callstk[i].frame
  /\ \A f \in FrameId : q.frames[f] # NoFrame /\ q.frames[f].pad =>
       r.frames[f] # NoFrame /\ r.frames[f].pad

\* StaysAt is transitive.
LEMMA StaysOn ==
  ASSUME NEW q, SlotsOK(q), NEW r, SlotsOK(r), NEW s, SlotsOK(s), StaysAt(q, r), StaysAt(r, s)
  PROVE  StaysAt(q, s)
<1>1. q.callstk \in Seq(FpFrame) /\ r.callstk \in Seq(FpFrame) /\ s.callstk \in Seq(FpFrame)
  BY DEF SlotsOK, Slots
<1>2. SameCalls(q.callstk, s.callstk)
  BY <1>1, SameCallsOn, Zenon DEF StaysAt
<1>3. Len(r.callstk) = Len(q.callstk)
  BY Zenon DEF StaysAt, SameCalls
<1>4. \A i \in 1 .. Len(q.callstk) :
        q.callstk[i].frame # NoFrame => s.callstk[i].frame = q.callstk[i].frame
  BY <1>3, Zenon DEF StaysAt
<1>5. \A f \in FrameId : q.frames[f] # NoFrame /\ q.frames[f].pad =>
        s.frames[f] # NoFrame /\ s.frames[f].pad
  BY Zenon DEF StaysAt
<1>6. QED BY <1>2, <1>4, <1>5, Zenon DEF StaysAt

\* What is said of a call stack does not depend on the Frames.
LEMMA ReadSame ==
  ASSUME NEW cs \in Seq(FpFrame), NEW ds, SameCalls(cs, ds), NEW s
  PROVE  /\ ReadFrom(cs, s) => ReadFrom(ds, s)
         /\ ChainIn(cs, s) => ChainIn(ds, s)
<1>1. /\ Len(ds) = Len(cs)
      /\ \A i \in 1 .. Len(cs) :
           ds[i].func = cs[i].func /\ ds[i].fp = cs[i].fp /\ ds[i].act = cs[i].act
  BY SameCallsIs, Zenon
<1>2. ReadFrom(cs, s) => ReadFrom(ds, s)
  BY <1>1, Zenon DEF ReadFrom
<1>3. ASSUME ChainIn(cs, s) PROVE ChainIn(ds, s)
  <2>1. Len(cs) \in Nat /\ \A i \in 1 .. Len(cs) : 1 \in 1 .. Len(cs)
    BY LenProperties
  <2>2. \A i \in 1 .. Len(ds) : ds[i].act[1] = ds[i].fp /\ ds[i].fp = ds[1].fp + 1 - i
    BY <1>1, <1>3, <2>1, Zenon DEF ChainIn
  <2>3. \A i \in 1 .. Len(cs) : \A j \in i .. Len(cs) : j \in 1 .. Len(cs)
    BY <2>1
  <2>4. \A i \in 1 .. Len(ds) :
          ds[i].fp <= Len(s) /\ s[ds[i].fp].act = ds[i].act =>
            \A j \in i .. Len(ds) : s[ds[j].fp] = [func |-> ds[j].func, act |-> ds[j].act]
    <3>1. \A i \in 1 .. Len(cs) :
            cs[i].fp <= Len(s) /\ s[cs[i].fp].act = cs[i].act =>
              \A j \in i .. Len(cs) : s[cs[j].fp] = [func |-> cs[j].func, act |-> cs[j].act]
      BY <1>3, Zenon DEF ChainIn
    <3>2. QED BY <1>1, <2>3, <3>1, Zenon
  <2>5. QED BY <2>2, <2>4, Zenon DEF ChainIn
<1>4. QED BY <1>2, <1>3, Zenon

\* What callstack reads is a fresh piece of the subject's stack.
LEMMA CallstackRead ==
  ASSUME StackInv
  PROVE  /\ callstack = <<>> \/ Fresh(callstack)
         /\ ReadFrom(callstack, stack) /\ ChainIn(callstack, stack)
<1> DEFINE M == Min({Len(stack), StackLimit})
           E(i) == [func |-> stack[Len(stack) + 1 - i].func, fp |-> Len(stack) + 1 - i,
                    frame |-> NoFrame, act |-> stack[Len(stack) + 1 - i].act]
<1>1. /\ Len(stack) \in Nat /\ Len(stack) <= MaxDepth
      /\ stack \in Seq([func : Func, act : Id])
  BY LenProperties DEF StackInv
<1>2. M \in 0 .. StackLimit /\ M <= Len(stack) /\ (M = 0 => Len(stack) = 0)
  <2> DEFINE T == {Len(stack), StackLimit}
  <2>1. T \subseteq Nat /\ T # {}
    BY <1>1, Constants
  <2>2. PICK k : k = Min(T)
    OBVIOUS
  <2>3. k \in T /\ \A x \in T : k <= x
    <3> HIDE DEF T
    <3>1. QED BY <2>1, <2>2, MinExists, Zenon
  <2>4. k \in 0 .. StackLimit /\ k <= Len(stack) /\ (k = 0 => Len(stack) = 0)
    BY <1>1, <2>3, Constants
  <2>5. QED BY <2>2, <2>4, Zenon
<1>3. callstack = [i \in 1 .. M |-> E(i)]
  BY DEF callstack
<1> HIDE DEF M
<1>4. Len(callstack) = M /\ \A i \in 1 .. M : callstack[i] = E(i)
  BY <1>2, <1>3
<1>5. ASSUME NEW i \in 1 .. M
      PROVE  /\ Len(stack) + 1 - i \in 1 .. Len(stack) /\ i <= Len(stack)
             /\ callstack[i] \in FpFrame
             /\ callstack[i].func = stack[Len(stack) + 1 - i].func
             /\ callstack[i].act = stack[Len(stack) + 1 - i].act
             /\ callstack[i].fp = Len(stack) + 1 - i
             /\ callstack[i].act[1] = Len(stack) + 1 - i
             /\ callstack[i].frame = NoFrame
             /\ stack[Len(stack) + 1 - i] =
                  [func |-> callstack[i].func, act |-> callstack[i].act]
  <2>1. PICK d : d = Len(stack) + 1 - i
    OBVIOUS
  <2>2. d \in 1 .. Len(stack) /\ i <= Len(stack) /\ d \in 1 .. MaxDepth
    BY <1>1, <1>2, <2>1, Constants
  <2>3. stack[d] \in [func : Func, act : Id] /\ stack[d].act[1] = d
    BY <1>1, <2>2, ElementOfSeq, Zenon DEF StackInv
  <2>4. callstack[i] = [func |-> stack[d].func, fp |-> d, frame |-> NoFrame, act |-> stack[d].act]
    BY <1>4, <2>1, Zenon
  <2>5. /\ callstack[i] \in FpFrame /\ callstack[i].func = stack[d].func
        /\ callstack[i].act = stack[d].act /\ callstack[i].fp = d /\ callstack[i].frame = NoFrame
    BY <2>2, <2>3, <2>4 DEF FpFrame
  <2>6. stack[d] = [func |-> stack[d].func, act |-> stack[d].act]
    BY <2>3
  <2>7. QED BY <2>1, <2>2, <2>3, <2>5, <2>6, Zenon
<1>6. callstack \in Seq(FpFrame)
  <2>1. \A i \in 1 .. M : E(i) \in FpFrame
    BY <1>4, <1>5, Zenon
  <2> HIDE DEF E
  <2>2. M \in Nat
    BY <1>2, Constants
  <2>3. QED BY <1>3, <2>1, <2>2
<1>7. callstack = <<>> \/ Fresh(callstack)
  <2>1. CASE M = 0
    <3>1. QED BY <1>4, <1>6, <2>1, EmptySeq
  <2>2. CASE M # 0
    <3>1. M \in 1 .. StackLimit
      BY <1>2, <2>2, Constants
    <3>2. QED BY <1>4, <1>5, <1>6, <3>1, Zenon DEF Fresh
  <2>3. QED BY <2>1, <2>2, Zenon
<1>8. ReadFrom(callstack, stack)
  BY <1>4, <1>5, Zenon DEF ReadFrom
<1>9. ChainIn(callstack, stack)
  <2>1. \A i \in 1 .. M : 1 \in 1 .. M /\ Len(stack) + 1 - i = (Len(stack) + 1 - 1) + 1 - i
    BY <1>1, <1>2, Constants
  <2>2. \A i \in 1 .. M : callstack[i].act[1] = callstack[i].fp /\ callstack[i].fp = callstack[1].fp + 1 - i
    BY <1>5, <2>1, Zenon
  <2>3. \A i \in 1 .. M : \A j \in i .. M : j \in 1 .. M
    BY <1>2, Constants
  <2>4. \A j \in 1 .. M : stack[callstack[j].fp] = [func |-> callstack[j].func, act |-> callstack[j].act]
    BY <1>5, Zenon
  <2>5. QED BY <1>4, <2>2, <2>3, <2>4, Zenon DEF ChainIn
<1>10. QED BY <1>7, <1>8, <1>9, Zenon

-----------------------------------------------------------------------------
(* What the handlers make of the Process. *)

\* The Frames stay when the call stack does not change and the windows are kept.
LEMMA StaysAtSame ==
  ASSUME NEW q, SlotsOK(q), NEW r, r.callstk = q.callstk,
         \A f \in FrameId : q.frames[f] # NoFrame /\ q.frames[f].pad =>
           r.frames[f] # NoFrame /\ r.frames[f].pad
  PROVE  StaysAt(q, r)
<1>1. q.callstk \in Seq(FpFrame)
  BY DEF SlotsOK, Slots
<1>2. QED BY <1>1, SameCallsSame, Zenon DEF StaysAt

\* The window of a Frame changes the Frame alone.
LEMMA Titled ==
  ASSUME NEW q, SlotsOK(q), NEW f \in FrameId, q.frames[f] # NoFrame
  PROVE  SlotsOK(titled(q, f)) /\ StaysAt(q, titled(q, f))
<1> DEFINE r == titled(q, f)
           fr == q.frames[f]
           to == [fr EXCEPT !.pad = TRUE, !.title = fr.fp]
<1>1. /\ q = [callstk |-> q.callstk, frames |-> q.frames, lost |-> q.lost]
      /\ q.callstk \in Seq(FpFrame) /\ q.lost = FALSE
      /\ q.frames \in [FrameId -> Frame \cup {NoFrame}]
      /\ Len(q.callstk) <= StackLimit /\ Tied(q)
  BY DEF SlotsOK, Slots
<1>2. fr \in Frame
  BY <1>1
<1>3. to \in Frame /\ to.level = fr.level /\ to.func = fr.func /\ to.fp = fr.fp /\ to.title = fr.fp
      /\ to.pad = TRUE
  <2>1. fr.fp \in 0 .. MaxDepth
    BY <1>2, FramesAssumption DEF Frame
  <2> HIDE DEF fr
  <2>2. QED BY <1>2, <2>1 DEF Frame
<1>4. to # NoFrame
  BY <1>3, NullAssumption
<1>5. r = [callstk |-> q.callstk, frames |-> [q.frames EXCEPT ![f] = to], lost |-> FALSE]
  <2>1. r = [q EXCEPT !.frames = [q.frames EXCEPT ![f] = to]]
    BY <1>1, <1>2 DEF titled, Frame
  <2>2. QED BY <1>1, <2>1
<1> HIDE DEF r, to, fr
<1>6. r.callstk = q.callstk /\ r.frames = [q.frames EXCEPT ![f] = to] /\ r.lost = FALSE
  BY <1>5
<1>7. r \in Slots
  BY <1>1, <1>3, <1>5 DEF Slots
<1>8. r.frames[f] = to /\ \A h \in FrameId \ {f} : r.frames[h] = q.frames[h]
  BY <1>1, <1>6
<1>9. \A h \in FrameId : r.frames[h] # NoFrame <=> q.frames[h] # NoFrame
  BY <1>4, <1>8, Zenon
<1>10. \A h \in FrameId : q.frames[h] # NoFrame =>
         r.frames[h].level = q.frames[h].level /\ r.frames[h].func = q.frames[h].func
           /\ r.frames[h].fp = q.frames[h].fp
  BY <1>3, <1>8, Zenon DEF fr
<1>11. \A h \in FrameId : q.frames[h] # NoFrame =>
         (r.frames[h].pad => r.frames[h].title = r.frames[h].fp)
  <2>1. ASSUME NEW h \in FrameId, q.frames[h] # NoFrame, r.frames[h].pad
        PROVE  r.frames[h].title = r.frames[h].fp
    <3>1. CASE h = f
      BY <1>3, <1>8, <3>1, Zenon
    <3>2. CASE h # f
      <4>1. r.frames[h] = q.frames[h]
        BY <1>8, <3>2, Zenon
      <4>2. QED BY <1>1, <2>1, <4>1, Zenon DEF Tied
    <3>3. QED BY <3>1, <3>2, Zenon
  <2>2. QED BY <2>1, Zenon
<1>12. \A i \in 1 .. Len(q.callstk) : q.callstk[i] \in FpFrame
  BY <1>1, ElementOfSeq, Zenon
<1>13. \A i \in 1 .. Len(r.callstk) : r.callstk[i].frame # NoFrame =>
         r.frames[r.callstk[i].frame] # NoFrame /\ r.frames[r.callstk[i].frame].level = i - 1
  <2>1. ASSUME NEW i \in 1 .. Len(q.callstk), q.callstk[i].frame # NoFrame
        PROVE  /\ q.callstk[i].frame \in FrameId
               /\ q.frames[q.callstk[i].frame] # NoFrame
               /\ q.frames[q.callstk[i].frame].level = i - 1
    <3>1. q.callstk[i].frame \in FrameId
      BY <1>12, <2>1 DEF FpFrame
    <3>2. QED BY <1>1, <2>1, <3>1, Zenon DEF Tied
  <2>2. QED BY <1>6, <1>9, <1>10, <2>1, Zenon
<1>14. \A h \in FrameId : r.frames[h] # NoFrame =>
         /\ r.frames[h].level + 1 \in 1 .. Len(r.callstk)
         /\ r.callstk[r.frames[h].level + 1].frame = h
         /\ r.frames[h].func = r.callstk[r.frames[h].level + 1].func
         /\ r.frames[h].fp = r.callstk[r.frames[h].level + 1].fp
         /\ r.frames[h].pad => r.frames[h].title = r.frames[h].fp
  <2>1. \A h \in FrameId : q.frames[h] # NoFrame =>
         /\ q.frames[h].level + 1 \in 1 .. Len(q.callstk)
         /\ q.callstk[q.frames[h].level + 1].frame = h
         /\ q.frames[h].func = q.callstk[q.frames[h].level + 1].func
         /\ q.frames[h].fp = q.callstk[q.frames[h].level + 1].fp
    BY <1>1, Zenon DEF Tied
  <2>2. QED BY <1>6, <1>9, <1>10, <1>11, <2>1, Zenon
<1>15. Tied(r)
  BY <1>13, <1>14, Zenon DEF Tied
<1>16. SlotsOK(r)
  BY <1>1, <1>6, <1>7, <1>15, Zenon DEF SlotsOK
<1>17. \A h \in FrameId : q.frames[h] # NoFrame /\ q.frames[h].pad =>
         r.frames[h] # NoFrame /\ r.frames[h].pad
  BY <1>3, <1>4, <1>8, Zenon
<1>18. StaysAt(q, r)
  BY <1>6, <1>17, StaysAtSame, Zenon
<1>19. QED BY <1>16, <1>18, Zenon DEF r

\* Process::frame.
LEMMA FrameStays ==
  ASSUME NEW q, SlotsOK(q), NEW l \in 0 .. Len(q.callstk) - 1
  PROVE  /\ SlotsOK(frame(q, l)) /\ StaysAt(q, frame(q, l))
         /\ frame(q, l).callstk[l + 1].frame # NoFrame /\ Kept(q, frame(q, l))
<1>1. PICK r : r = frame(q, l)
  OBVIOUS
<1>2. /\ SlotsOK(r) /\ SameCalls(q.callstk, r.callstk) /\ Kept(q, r)
      /\ \A i \in 1 .. Len(q.callstk) :
           q.callstk[i].frame # NoFrame => r.callstk[i].frame = q.callstk[i].frame
      /\ r.callstk[l + 1].frame # NoFrame
  BY <1>1, FrameMade, Zenon
<1>3. \A f \in FrameId : q.frames[f] # NoFrame /\ q.frames[f].pad =>
        r.frames[f] # NoFrame /\ r.frames[f].pad
  BY <1>2, Zenon DEF Kept
<1>4. QED BY <1>1, <1>2, <1>3, Zenon DEF StaysAt

\* Frame::open.
LEMMA Opened ==
  ASSUME NEW q, SlotsOK(q), NEW f \in FrameId, q.frames[f] # NoFrame
  PROVE  SlotsOK(open(q, f)) /\ StaysAt(q, open(q, f))
<1>1. PICK l : l = q.frames[f].level + 1
  OBVIOUS
<1>2. l \in Nat /\ Len(q.callstk) \in Nat
  BY <1>1, MergeFrom
<1>3. CASE ~q.frames[f].pad /\ l < Len(q.callstk)
  <2>1. PICK r : r = frame(q, l)
    OBVIOUS
  <2>2. l \in 0 .. Len(q.callstk) - 1
    BY <1>2, <1>3
  <2>3. SlotsOK(r) /\ StaysAt(q, r) /\ r.frames[f] # NoFrame
    BY <2>1, <2>2, FrameStays, Zenon DEF Kept
  <2>4. open(q, f) = titled(r, f)
    BY <1>1, <1>3, <2>1, Zenon DEF open
  <2>5. SlotsOK(titled(r, f)) /\ StaysAt(r, titled(r, f))
    BY <2>3, Titled, Zenon
  <2>6. QED BY <2>3, <2>4, <2>5, StaysOn, Zenon
<1>4. CASE ~(~q.frames[f].pad /\ l < Len(q.callstk))
  <2>1. open(q, f) = titled(q, f)
    BY <1>1, <1>4, Zenon DEF open
  <2>2. QED BY <2>1, Titled, Zenon
<1>5. QED BY <1>3, <1>4, Zenon

\* opencallersframe and openframe.
LEMMA OpenedLevel ==
  ASSUME SlotsOK(p), NEW l \in 0 .. Len(p.callstk) - 1
  PROVE  SlotsOK(openlevel(p, l)) /\ StaysAt(p, openlevel(p, l))
<1> DEFINE r == frame(p, l)
<1>1. SlotsOK(r) /\ StaysAt(p, r) /\ r.callstk[l + 1].frame # NoFrame
  BY FrameStays, Zenon
<1>2. openlevel(p, l) = open(r, r.callstk[l + 1].frame)
  BY Zenon DEF openlevel
<1> HIDE DEF r
<1>3. Len(r.callstk) = Len(p.callstk)
  BY <1>1, Zenon DEF StaysAt, SameCalls
<1>4. r.callstk \in Seq(FpFrame) /\ p.callstk \in Seq(FpFrame)
  BY <1>1 DEF SlotsOK, Slots
<1>5. l + 1 \in 1 .. Len(p.callstk)
  BY <1>4, LenProperties
<1>6. r.callstk[l + 1] \in FpFrame
  BY <1>3, <1>4, <1>5, ElementOfSeq, Zenon
<1>7. r.callstk[l + 1].frame \in FrameId
  BY <1>1, <1>6 DEF FpFrame
<1>8. r.frames[r.callstk[l + 1].frame] # NoFrame
  BY <1>1, <1>3, <1>5, Zenon DEF SlotsOK, Tied
<1>9. SlotsOK(openlevel(p, l)) /\ StaysAt(r, openlevel(p, l))
  BY <1>1, <1>2, <1>7, <1>8, Opened, Zenon
<1>10. QED BY <1>1, <1>9, StaysOn, Zenon

\* regloc makes Frames, each leaving those before it.
LEMMA RegistersAsked ==
  ASSUME SlotsOK(p), NEW f \in FrameId, p.frames[f] # NoFrame,
         NEW l \in Nat, l < p.frames[f].level
  PROVE  LET r == asks(p, p.frames[f].level, l) IN SlotsOK(r) /\ StaysAt(p, r)
<1> DEFINE N == Len(p.callstk)
           T == {s \in Slots : SlotsOK(s) /\ StaysAt(p, s)}
<1>1. PICK k : k = p.frames[f].level
  OBVIOUS
<1>2. N \in Nat /\ k \in 0 .. N /\ l <= k
  BY <1>1, MergeFrom
<1>3. p \in T
  <2>1. StaysAt(p, p)
    BY StaysAtSame, Zenon
  <2>2. QED BY <2>1 DEF SlotsOK
<1>4. ASSUME NEW s \in T, NEW j \in 0 .. N - 1 PROVE frame(s, j) \in T
  <2>1. SlotsOK(s) /\ StaysAt(p, s)
    OBVIOUS
  <2>2. Len(s.callstk) = N
    BY <2>1, Zenon DEF StaysAt, SameCalls
  <2>3. SlotsOK(frame(s, j)) /\ StaysAt(s, frame(s, j))
    BY <2>1, <2>2, FrameStays, Zenon
  <2>4. StaysAt(p, frame(s, j))
    BY <2>1, <2>3, StaysOn, Zenon
  <2>5. frame(s, j) \in Slots
    BY <2>3, Zenon DEF SlotsOK
  <2>6. QED BY <2>3, <2>4, <2>5, Zenon
<1> HIDE DEF T, N
<1>5. asks(p, k, l) \in T
  BY <1>2, <1>3, <1>4, AsksIn, Zenon
<1>6. QED BY <1>1, <1>5, Zenon DEF T

\* The end of a stop: a merge, and the top entry's Frame.
LEMMA Stopped ==
  ASSUME SlotsOK(p), NEW cs, cs = <<>> \/ Fresh(cs), NEW shown, NEW a \in Asked(p)
  PROVE  LET r == stopped(a, p, cs, shown)
         IN  /\ SlotsOK(r) /\ SameCalls(cs, r.callstk) /\ StaysAt(merge(a, p, cs), r)
<1> DEFINE q == merge(a, p, cs)
           r == stopped(a, p, cs, shown)
<1>1. SlotsOK(q) /\ SameCalls(cs, q.callstk)
  BY Merged, Zenon
<1>2. r = IF shown /\ q.callstk # <<>> THEN frame(q, 0) ELSE q
  BY DEF stopped
<1> HIDE DEF q, r
<1>3. q.callstk \in Seq(FpFrame) /\ cs \in Seq(FpFrame)
  <2>1. q.callstk \in Seq(FpFrame)
    BY <1>1 DEF SlotsOK, Slots
  <2>2. <<>> \in Seq(FpFrame)
    OBVIOUS
  <2>3. QED BY <2>1, <2>2, Zenon DEF Fresh
<1>4. SlotsOK(r) /\ StaysAt(q, r)
  <2>1. CASE shown /\ q.callstk # <<>>
    <3>1. 0 \in 0 .. Len(q.callstk) - 1
      <4>1. Len(q.callstk) \in Nat /\ Len(q.callstk) # 0
        BY <1>3, <2>1, EmptySeq, LenProperties
      <4>2. QED BY <4>1
    <3>2. SlotsOK(frame(q, 0)) /\ StaysAt(q, frame(q, 0))
      BY <1>1, <3>1, FrameStays, Zenon
    <3>3. QED BY <1>2, <2>1, <3>2, Zenon
  <2>2. CASE ~ (shown /\ q.callstk # <<>>)
    <3>1. StaysAt(q, q)
      BY <1>1, StaysAtSame, Zenon
    <3>2. QED BY <1>1, <1>2, <2>2, <3>1, Zenon
  <2>3. QED BY <2>1, <2>2, Zenon
<1>5. r.callstk \in Seq(FpFrame)
  BY <1>4 DEF SlotsOK, Slots
<1>6. SameCalls(cs, r.callstk)
  BY <1>1, <1>3, <1>4, <1>5, SameCallsOn, Zenon DEF StaysAt
<1>7. QED BY <1>4, <1>6, Zenon DEF q, r

-----------------------------------------------------------------------------
(* The invariant holds at first and in every step. *)

\* The same of a read that may fail.
LEMMA ReadableIs ==
  ASSUME StackInv, NEW ok
  PROVE  /\ Readable(ok) = <<>> \/ Fresh(Readable(ok))
         /\ Readable(ok) \in Seq(FpFrame)
         /\ ReadFrom(Readable(ok), stack) /\ ChainIn(Readable(ok), stack)
<1>1. CASE ok
  <2>1. Readable(ok) = callstack
    BY <1>1, Zenon DEF Readable
  <2>2. <<>> \in Seq(FpFrame)
    OBVIOUS
  <2>3. QED BY <2>1, <2>2, CallstackRead, Zenon DEF Fresh
<1>2. CASE ~ ok
  <2>1. Readable(ok) = <<>>
    BY <1>2, Zenon DEF Readable
  <2>2. 1 .. Len(<<>>) = {} /\ <<>> \in Seq(FpFrame)
    OBVIOUS
  <2>3. QED BY <2>1, <2>2, Zenon DEF ReadFrom, ChainIn
<1>3. QED BY <1>1, <1>2, Zenon

\* The invariant holds when a Process has been opened.
LEMMA FramesInit == Init => IInv
<1> SUFFICES ASSUME Init PROVE IInv
  OBVIOUS
<1> DEFINE e == [func |-> Main, fp |-> 1, frame |-> NoFrame, act |-> <<1, 0>>]
           a == [func |-> Main, act |-> <<1, 0>>]
<1>1. status = "STOPPED" /\ stack = <<a>> /\ p.callstk = <<e>> /\ p.frames = NoFrames /\ padlines = 1
      /\ p = [callstk |-> <<e>>, frames |-> NoFrames, lost |-> FALSE] /\ p.lost = FALSE
  BY DEF Init
<1>2. e \in FpFrame /\ a \in [func : Func, act : Id] /\ 1 <= MaxDepth /\ 1 <= StackLimit
  BY FramesAssumption DEF FpFrame, Id
<1>3. e.frame = NoFrame /\ e.fp = 1 /\ e.act = <<1, 0>> /\ a.act = <<1, 0>>
      /\ [func |-> e.func, act |-> e.act] = a
  OBVIOUS
<1> HIDE DEF e, a
<1>4. /\ Len(stack) = 1 /\ Len(p.callstk) = 1 /\ p.callstk[1] = e /\ stack[1] = a
      /\ \A i \in 1 .. 1 : i = 1
  BY <1>1
<1>5. StackInv
  <2>1. stack \in Seq([func : Func, act : Id])
    BY <1>1, <1>2
  <2>2. \A d \in 1 .. Len(stack) : stack[d].act[1] = d
    BY <1>3, <1>4
  <2>3. QED BY <1>1, <1>2, <1>4, <2>1, <2>2, Zenon DEF StackInv
<1>6. NoFrames \in [FrameId -> Frame \cup {NoFrame}] /\ \A f \in FrameId : NoFrames[f] = NoFrame
  BY DEF NoFrames
<1>7. SlotsOK(p)
  <2>1. p \in Slots
    BY <1>1, <1>2, <1>6 DEF Slots
  <2>2. Tied(p)
    BY <1>1, <1>3, <1>4, <1>6, Zenon DEF Tied
  <2>3. QED BY <1>1, <1>2, <1>4, <2>1, <2>2, Zenon DEF SlotsOK
<1>8. padlines \in 0 .. Len(p.callstk)
  BY <1>1, <1>4
<1>9. ReadFrom(p.callstk, stack)
  BY <1>3, <1>4 DEF ReadFrom
<1>10. ChainIn(p.callstk, stack)
  BY <1>3, <1>4 DEF ChainIn
<1>11. QED BY <1>5, <1>7, <1>8, <1>9, <1>10, Zenon DEF IInv

\* A handler that leaves the call stack as it is.
LEMMA StaysInv ==
  ASSUME IInv, stack' = stack, SlotsOK(p'), StaysAt(p, p'),
         status' \in {"ACTIVE", "STOPPED", "ERRORED", "CLOSED"}, status' = "STOPPED" => status = "STOPPED",
         padlines' \in 0 .. Len(p.callstk)
  PROVE  IInv'
<1>1. StackInv'
  BY Zenon DEF IInv, StackInv
<1>2. p.callstk \in Seq(FpFrame) /\ SameCalls(p.callstk, p'.callstk)
  BY DEF IInv, SlotsOK, Slots, StaysAt
<1>3. Len(p'.callstk) = Len(p.callstk)
  BY <1>2, Zenon DEF SameCalls
<1>4. /\ ReadFrom(p.callstk, stack) => ReadFrom(p'.callstk, stack)
      /\ ChainIn(p.callstk, stack) => ChainIn(p'.callstk, stack)
  BY <1>2, ReadSame, Zenon
<1>5. QED BY <1>1, <1>3, <1>4, Zenon DEF IInv

\* One that reads the call stack anew.
LEMMA ReadInv ==
  ASSUME IInv, stack' = stack, SlotsOK(p'), NEW ok, SameCalls(Readable(ok), p'.callstk),
         status' \in {"ACTIVE", "STOPPED", "ERRORED", "CLOSED"},
         padlines' = Len(p'.callstk)
  PROVE  IInv'
<1>1. StackInv'
  BY Zenon DEF IInv, StackInv
<1>2. p'.callstk \in Seq(FpFrame)
  BY DEF SlotsOK, Slots
<1>3. padlines' \in 0 .. Len(p'.callstk)
  BY <1>2, LenProperties
<1>4. StackInv
  BY Zenon DEF IInv
<1>5. ReadFrom(p'.callstk, stack) /\ ChainIn(p'.callstk, stack)
  BY <1>4, ReadableIs, ReadSame, Zenon
<1>6. QED BY <1>1, <1>3, <1>5, Zenon DEF IInv

\* A call stack is a chain of places below its newest one.
LEMMA PlacesBelow ==
  ASSUME NEW cs \in Seq(FpFrame), NEW s, ChainIn(cs, s)
  PROVE  /\ \A i \in 1 .. Len(cs) : cs[i].fp \in 1 .. MaxDepth /\ cs[i].act[1] = cs[i].fp
         /\ \A i, j \in 1 .. Len(cs) : i <= j => cs[j].fp <= cs[i].fp
         /\ \A i, j \in 1 .. Len(cs) : cs[i].fp - cs[j].fp = j - i
         /\ \A i, j \in 1 .. Len(cs) : cs[i].act = cs[j].act => i = j
<1>1. \A i \in 1 .. Len(cs) : cs[i] \in FpFrame
  BY ElementOfSeq, Zenon
<1>2. \A e \in FpFrame : e.fp \in 1 .. MaxDepth
  BY DEF FpFrame
<1>3. \A i \in 1 .. Len(cs) : cs[i].fp \in 1 .. MaxDepth
  BY <1>1, <1>2, Zenon
<1>4. Len(cs) \in Nat
  BY LenProperties
<1>5. PICK t : t = cs[1].fp
  OBVIOUS
<1>6. \A i \in 1 .. Len(cs) : cs[i].fp = t + 1 - i /\ cs[i].act[1] = cs[i].fp
  BY <1>5, Zenon DEF ChainIn
<1>7. \A i \in 1 .. Len(cs) : t \in Int
  <2>1. \A i \in 1 .. Len(cs) : 1 \in 1 .. Len(cs)
    BY <1>4
  <2>2. QED BY <1>3, <1>5, <2>1
<1>8. \A i, j \in 1 .. Len(cs) : /\ i <= j => cs[j].fp <= cs[i].fp
                                 /\ cs[i].fp - cs[j].fp = j - i
                                 /\ cs[i].fp = cs[j].fp => i = j
  <2>1. ASSUME NEW i \in 1 .. Len(cs), NEW j \in 1 .. Len(cs)
        PROVE  /\ i <= j => cs[j].fp <= cs[i].fp
               /\ cs[i].fp - cs[j].fp = j - i
               /\ cs[i].fp = cs[j].fp => i = j
    <3>1. PICK x, y : x = cs[i].fp /\ y = cs[j].fp
      OBVIOUS
    <3>2. x = t + 1 - i /\ y = t + 1 - j /\ t \in Int /\ i \in Nat /\ j \in Nat
      BY <1>4, <1>6, <1>7, <3>1
    <3>3. (i <= j => y <= x) /\ x - y = j - i /\ (x = y => i = j)
      BY <3>2
    <3>4. QED BY <3>1, <3>3, Zenon
  <2>2. QED BY <2>1, Zenon
<1>9. \A i, j \in 1 .. Len(cs) : cs[i].act = cs[j].act => i = j
  <2>1. ASSUME NEW i \in 1 .. Len(cs), NEW j \in 1 .. Len(cs), cs[i].act = cs[j].act PROVE i = j
    <3>1. cs[i].fp = cs[j].fp
      BY <1>6, <2>1, Zenon
    <3>2. QED BY <1>8, <3>1, Zenon
  <2>2. QED BY <2>1, Zenon
<1>10. QED BY <1>3, <1>6, <1>8, <1>9, Zenon

\* A subject that has the same activations up to place n, and none above that
\* are in the call stack.
LEMMA ChainCut ==
  ASSUME NEW cs \in Seq(FpFrame), NEW s, ChainIn(cs, s), NEW u, NEW n \in Nat, n <= Len(s),
         Len(s) \in Nat, Len(u) \in Nat,
         \A k \in 1 .. n : u[k] = s[k],
         \A i \in 1 .. Len(cs) : cs[i].fp <= Len(u) /\ n < cs[i].fp => u[cs[i].fp].act # cs[i].act
  PROVE  ChainIn(cs, u)
<1>1. ASSUME NEW i \in 1 .. Len(cs), cs[i].fp <= Len(u), u[cs[i].fp].act = cs[i].act,
             NEW j \in i .. Len(cs)
      PROVE  u[cs[j].fp] = [func |-> cs[j].func, act |-> cs[j].act]
  <2>1. j \in 1 .. Len(cs) /\ i <= j /\ Len(cs) \in Nat
    BY LenProperties
  <2>2. /\ cs[i].fp \in 1 .. MaxDepth /\ cs[j].fp \in 1 .. MaxDepth /\ cs[j].fp <= cs[i].fp
    BY <2>1, PlacesBelow, Zenon
  <2>3. PICK x, y : x = cs[i].fp /\ y = cs[j].fp
    OBVIOUS
  <2>4. x \in Nat /\ y \in Nat /\ 1 <= x /\ 1 <= y /\ y <= x
    BY <2>2, <2>3, Constants
  <2>5. ~ (n < x)
    BY <1>1, <2>3, Zenon
  <2>6. x \in 1 .. n /\ y \in 1 .. n /\ x <= Len(s)
    BY <2>4, <2>5
  <2>7. s[x].act = cs[i].act /\ u[y] = s[y]
    BY <1>1, <2>3, <2>6, Zenon
  <2>8. s[y] = [func |-> cs[j].func, act |-> cs[j].act]
    BY <2>3, <2>6, <2>7, Zenon DEF ChainIn
  <2>9. QED BY <2>3, <2>7, <2>8, Zenon
<1>2. \A i \in 1 .. Len(cs) : cs[i].act[1] = cs[i].fp /\ cs[i].fp = cs[1].fp + 1 - i
  BY Zenon DEF ChainIn
<1>3. QED BY <1>1, <1>2, Zenon DEF ChainIn

\* Parts of the invariant.
LEMMA StackParts ==
  ASSUME IInv
  PROVE  /\ Len(stack) \in Nat /\ Len(stack) <= MaxDepth /\ stack \in Seq([func : Func, act : Id])
         /\ \A d \in 1 .. Len(stack) : stack[d].act[1] = d
         /\ p.callstk \in Seq(FpFrame) /\ ChainIn(p.callstk, stack)
<1>1. stack \in Seq([func : Func, act : Id])
  BY Zenon DEF IInv, StackInv
<1>2. Len(stack) \in Nat
  BY <1>1, LenProperties
<1>3. p.callstk \in Seq(FpFrame)
  BY DEF IInv, SlotsOK, Slots
<1>4. QED BY <1>1, <1>2, <1>3, Zenon DEF IInv, StackInv

\* A call: an activation that the call stack still knows has another id.
LEMMA InvCall == ASSUME IInv, NEW f \in Func, Call(f) PROVE IInv'
<1> DEFINE known == \E i \in DOMAIN p.callstk : p.callstk[i].act = <<Len(stack) + 1, 0>>
           b == IF known THEN 1 ELSE 0
           e == [func |-> f, act |-> <<Len(stack) + 1, b>>]
<1>1. /\ status = "ACTIVE" /\ Len(stack) + 1 <= MaxDepth /\ stack' = Append(stack, e)
      /\ status' = status /\ p' = p /\ padlines' = padlines
  BY DEF Call
<1>2. PICK n : n = Len(stack)
  OBVIOUS
<1>3. /\ n \in Nat /\ stack \in Seq([func : Func, act : Id])
      /\ \A d \in 1 .. n : stack[d].act[1] = d
      /\ p.callstk \in Seq(FpFrame) /\ ChainIn(p.callstk, stack)
  BY <1>2, StackParts, Zenon
<1>4. b \in {0, 1}
  OBVIOUS
<1>5. /\ known => \E i \in 1 .. Len(p.callstk) : p.callstk[i].act = <<n + 1, 0>> /\ b = 1
      /\ ~ known => b = 0 /\ \A i \in 1 .. Len(p.callstk) : p.callstk[i].act # <<n + 1, 0>>
  <2>1. DOMAIN p.callstk = 1 .. Len(p.callstk)
    BY <1>3, LenProperties
  <2>2. QED BY <1>2, <2>1
<1>6. e = [func |-> f, act |-> <<n + 1, b>>]
  BY <1>2
<1> HIDE DEF known, b
<1>7. e \in [func : Func, act : Id] /\ e.act = <<n + 1, b>> /\ e.act[1] = n + 1
  <2>1. n + 1 \in 1 .. MaxDepth
    BY <1>1, <1>2, <1>3, Constants
  <2>2. QED BY <1>4, <1>6, <2>1 DEF Id
<1> HIDE DEF e
<1>8. /\ Len(stack') = n + 1 /\ stack' \in Seq([func : Func, act : Id]) /\ stack'[n + 1] = e
      /\ \A k \in 1 .. n : stack'[k] = stack[k]
  BY <1>1, <1>2, <1>3, <1>7, AppendProperties
<1>9. \A d \in 1 .. n + 1 : stack'[d].act[1] = d
  <2>1. ASSUME NEW d \in 1 .. n + 1 PROVE stack'[d].act[1] = d
    <3>1. CASE d = n + 1
      BY <1>7, <1>8, <3>1, Zenon
    <3>2. CASE d # n + 1
      <4>1. d \in 1 .. n
        BY <1>3, <3>2
      <4>2. QED BY <1>3, <1>8, <4>1, Zenon
    <3>3. QED BY <3>1, <3>2, Zenon
  <2>2. QED BY <2>1, Zenon
<1>10. StackInv'
  BY <1>1, <1>2, <1>8, <1>9, Zenon DEF IInv, StackInv
<1>11. ASSUME NEW i \in 1 .. Len(p.callstk), p.callstk[i].fp <= Len(stack'), n < p.callstk[i].fp,
              stack'[p.callstk[i].fp].act = p.callstk[i].act
       PROVE  FALSE
  <2>1. p.callstk[i].fp \in 1 .. MaxDepth
    BY <1>3, PlacesBelow, Zenon
  <2>2. p.callstk[i].fp = n + 1
    BY <1>3, <1>8, <1>11, <2>1
  <2>3. p.callstk[i].act = <<n + 1, b>>
    BY <1>7, <1>8, <1>11, <2>2, Zenon
  <2>4. known
    BY <1>5, <2>3, Zenon
  <2>5. PICK k \in 1 .. Len(p.callstk) : p.callstk[k].act = <<n + 1, 0>> /\ b = 1
    BY <1>5, <2>4, Zenon
  <2>6. p.callstk[k].fp = n + 1
    <3>1. <<n + 1, 0>>[1] = n + 1
      OBVIOUS
    <3>2. p.callstk[k].act[1] = p.callstk[k].fp
      BY <1>3, PlacesBelow, Zenon
    <3>3. QED BY <2>5, <3>1, <3>2, Zenon
  <2>7. p.callstk[k].fp - p.callstk[i].fp = i - k
    BY <1>3, PlacesBelow, Zenon
  <2>8. k = i
    BY <1>3, <2>2, <2>6, <2>7, LenProperties
  <2>9. <<n + 1, 0>> = <<n + 1, 1>>
    BY <2>3, <2>5, <2>8, Zenon
  <2>10. QED BY <2>9
<1>12. ChainIn(p.callstk, stack')
  <2>1. n <= Len(stack) /\ Len(stack) \in Nat /\ Len(stack') \in Nat
    BY <1>2, <1>3, <1>8
  <2>2. \A i \in 1 .. Len(p.callstk) :
          p.callstk[i].fp <= Len(stack') /\ n < p.callstk[i].fp =>
            stack'[p.callstk[i].fp].act # p.callstk[i].act
    BY <1>11, Zenon
  <2>3. QED BY <1>3, <1>8, <2>1, <2>2, ChainCut, Zenon
<1>13. status' # "STOPPED"
  BY <1>1
<1>14. QED BY <1>1, <1>10, <1>12, <1>13, Zenon DEF IInv

\* The first n elements of a sequence.
LEMMA PrefixIs ==
  ASSUME NEW S, NEW s \in Seq(S), NEW n \in Nat, n <= Len(s), NEW u, u = SubSeq(s, 1, n)
  PROVE  u \in Seq(S) /\ Len(u) = n /\ \A k \in 1 .. n : u[k] = s[k]
<1>1. \A i \in 1 .. n : s[i] \in S
  OBVIOUS
<1>2. u \in Seq(S)
  BY <1>1, SubSeqProperties
<1>3. Len(u) = n
  BY <1>1, SubSeqProperties
<1>4. \A k \in 1 .. n : u[k] = s[k]
  BY <1>1, SubSeqProperties
<1>5. QED BY <1>2, <1>3, <1>4

\* A return: the activations below are as they were.
LEMMA InvReturn == ASSUME IInv, Return PROVE IInv'
<1>1. /\ status = "ACTIVE" /\ Len(stack) > 1 /\ stack' = SubSeq(stack, 1, Len(stack) - 1)
      /\ status' = status /\ p' = p /\ padlines' = padlines
  BY DEF Return, Front
<1>2. PICK n : n = Len(stack) - 1
  OBVIOUS
<1>3. /\ n \in Nat /\ n <= Len(stack) /\ Len(stack) \in Nat /\ n <= MaxDepth
      /\ stack \in Seq([func : Func, act : Id])
      /\ p.callstk \in Seq(FpFrame) /\ ChainIn(p.callstk, stack)
  BY <1>1, <1>2, StackParts, Constants
<1>4. \A d \in 1 .. Len(stack) : stack[d].act[1] = d
  BY StackParts, Zenon
<1>5. /\ Len(stack') = n /\ stack' \in Seq([func : Func, act : Id])
      /\ \A k \in 1 .. n : stack'[k] = stack[k]
  <2>1. stack' = SubSeq(stack, 1, n)
    BY <1>1, <1>2, Zenon
  <2>2. n = Len(stack) - 1
    BY <1>2, Zenon
  <2> DEFINE S == [func : Func, act : Id]
  <2>3. stack \in Seq(S)
    BY <1>3, Zenon
  <2> HIDE DEF S
  <2>4. stack' \in Seq(S) /\ Len(stack') = n /\ \A k \in 1 .. n : stack'[k] = stack[k]
    <3>1. PICK u : u = SubSeq(stack, 1, n)
      OBVIOUS
    <3>2. u \in Seq(S)
      BY <1>3, <2>3, <3>1, PrefixIs
    <3>3. Len(u) = n
      BY <1>3, <2>3, <3>1, PrefixIs
    <3>4. \A k \in 1 .. n : u[k] = stack[k]
      BY <1>3, <2>3, <3>1, PrefixIs
    <3>5. QED BY <2>1, <3>1, <3>2, <3>3, <3>4, Zenon
  <2>5. stack' \in Seq([func : Func, act : Id])
    BY <2>4 DEF S
  <2>6. QED BY <2>4, <2>5, Zenon
<1>6. \A k \in 1 .. n : k \in 1 .. Len(stack)
  BY <1>3
<1>7. StackInv'
  BY <1>1, <1>3, <1>4, <1>5, <1>6, Zenon DEF IInv, StackInv
<1>8. ChainIn(p.callstk, stack')
  <2>1. \A i \in 1 .. Len(p.callstk) : ~ (p.callstk[i].fp <= Len(stack') /\ n < p.callstk[i].fp)
    <3>1. \A i \in 1 .. Len(p.callstk) : p.callstk[i].fp \in 1 .. MaxDepth
      BY <1>3, PlacesBelow, Zenon
    <3>2. QED BY <1>3, <1>5, <3>1
  <2>2. QED BY <1>3, <1>5, <2>1, ChainCut, Zenon
<1>9. status' # "STOPPED"
  BY <1>1
<1>10. QED BY <1>1, <1>7, <1>8, <1>9, Zenon DEF IInv

\* The subject is gone.
LEMMA InvDie == ASSUME IInv, Die PROVE IInv'
<1>1. status' = "ERRORED" /\ stack' = <<>> /\ p' = p /\ padlines' = padlines
  BY DEF Die
<1>2. Len(stack') = 0 /\ stack' \in Seq([func : Func, act : Id]) /\ 0 <= MaxDepth /\ 1 .. 0 = {}
  BY <1>1, Constants
<1>3. StackInv'
  BY <1>1, <1>2, Zenon DEF StackInv
<1>4. ChainIn(p.callstk, stack')
  <2>1. \A i \in 1 .. Len(p.callstk) : p.callstk[i].fp \in 1 .. MaxDepth
    BY StackParts, PlacesBelow, Zenon
  <2>2. \A i \in 1 .. Len(p.callstk) : ~ (p.callstk[i].fp <= Len(stack'))
    BY <1>2, <2>1
  <2>3. 0 \in Nat /\ 0 <= Len(stack) /\ Len(stack) \in Nat /\ Len(stack') \in Nat
    BY <1>2, StackParts
  <2>4. QED BY <1>2, <2>2, <2>3, StackParts, ChainCut, Zenon
<1>5. status' # "STOPPED"
  BY <1>1
<1>6. QED BY <1>1, <1>3, <1>4, <1>5, Zenon DEF IInv

\* The subject runs.
LEMMA InvRun == ASSUME IInv, Run PROVE IInv'
<1>1. status' = "ACTIVE" /\ padlines' = 0 /\ stack' = stack /\ p' = p
  BY DEF Run
<1>2. SlotsOK(p) /\ StaysAt(p, p)
  BY StaysAtSame, Zenon DEF IInv
<1>3. 0 \in 0 .. Len(p.callstk)
  BY StackParts, LenProperties
<1>4. status' # "STOPPED"
  BY <1>1
<1>5. QED BY <1>1, <1>2, <1>3, <1>4, StaysInv, Zenon

\* The window is closed.
LEMMA InvClose == ASSUME IInv, userclose PROVE IInv'
<1>1. status' = "CLOSED" /\ p' = closeframes(p) /\ padlines' = 0 /\ stack' = stack
  BY DEF userclose
<1>2. SlotsOK(p') /\ p'.callstk = <<>>
  BY <1>1, ClosedFrames, Zenon DEF IInv
<1>3. SlotsOK(p') /\ padlines' = Len(p'.callstk)
  BY <1>1, <1>2
<1>4. SameCalls(Readable(FALSE), p'.callstk)
  <2>1. Readable(FALSE) = <<>>
    BY DEF Readable
  <2>2. <<>> \in Seq(FpFrame)
    OBVIOUS
  <2>3. QED BY <1>2, <2>1, <2>2, SameCallsSame, Zenon
<1>5. QED BY <1>1, <1>3, <1>4, ReadInv, Zenon

-----------------------------------------------------------------------------
(* The handlers' steps, and the invariant. *)

\* The level of a Frame is that of an entry.
LEMMA LevelOfFrame ==
  ASSUME SlotsOK(p), NEW f \in FrameId, p.frames[f] # NoFrame
  PROVE  /\ p.frames[f].level \in Nat /\ p.frames[f].level + 1 \in 1 .. Len(p.callstk)
         /\ Len(p.callstk) \in Nat
<1>1. p.frames[f] \in Frame
  BY DEF SlotsOK, Slots
<1>2. p.frames[f].level \in Nat
  BY <1>1, Constants DEF Frame
<1>3. p.frames[f].level + 1 \in 1 .. Len(p.callstk)
  BY Zenon DEF SlotsOK, Tied
<1>4. Len(p.callstk) \in Nat
  BY LenProperties DEF SlotsOK, Slots
<1>5. QED BY <1>2, <1>3, <1>4, Zenon

\* The handlers that ask for Frames, and leave the call stack as it is.
Asks ==
  \/ \E l \in 0 .. StackLimit - 1 : linereq(l)
  \/ \E f \in FrameId, l \in 0 .. StackLimit - 1 : regloc(f, l)
  \/ \E f \in FrameId : OpenFrame(f) \/ opencallersframe(f)
  \/ \E func \in Func : openframe(func)

\* Each of them leaves every Frame where it was.
LEMMA AsksStay ==
  ASSUME IInv, Asks
  PROVE  /\ SlotsOK(p') /\ StaysAt(p, p')
         /\ status' = status /\ stack' = stack /\ padlines' = padlines
<1>1. SlotsOK(p) /\ padlines \in 0 .. Len(p.callstk)
  BY Zenon DEF IInv
<1>2. p.callstk \in Seq(FpFrame) /\ Len(p.callstk) \in Nat
  BY StackParts, LenProperties
<1>3. ASSUME NEW l \in 0 .. StackLimit - 1, linereq(l) PROVE SlotsOK(p') /\ StaysAt(p, p')
  <2>1. p' = frame(p, l) /\ l < padlines
    BY <1>3, Zenon DEF linereq
  <2>2. l \in 0 .. Len(p.callstk) - 1
    BY <1>1, <1>2, <2>1, Constants
  <2>3. QED BY <1>1, <2>1, <2>2, FrameStays, Zenon
<1>4. ASSUME NEW f \in FrameId, NEW l \in 0 .. StackLimit - 1, regloc(f, l)
      PROVE SlotsOK(p') /\ StaysAt(p, p')
  <2>1. p.frames[f] # NoFrame /\ l < p.frames[f].level /\ p' = asks(p, p.frames[f].level, l)
    BY <1>4, Zenon DEF regloc
  <2>2. l \in Nat
    BY Constants
  <2>3. QED BY <1>1, <2>1, <2>2, RegistersAsked, Zenon
<1>5. ASSUME NEW f \in FrameId, OpenFrame(f) PROVE SlotsOK(p') /\ StaysAt(p, p')
  <2>1. p.frames[f] # NoFrame /\ p' = open(p, f)
    BY <1>5, Zenon DEF OpenFrame
  <2>2. QED BY <1>1, <2>1, Opened, Zenon
<1>6. ASSUME NEW f \in FrameId, opencallersframe(f) PROVE SlotsOK(p') /\ StaysAt(p, p')
  <2>1. /\ p.frames[f] # NoFrame /\ p.frames[f].level + 1 < Len(p.callstk)
        /\ p' = openlevel(p, p.frames[f].level + 1)
    BY <1>6, Zenon DEF opencallersframe
  <2>2. p.frames[f].level + 1 \in 0 .. Len(p.callstk) - 1
    BY <1>1, <2>1, LevelOfFrame
  <2>3. QED BY <1>1, <2>1, <2>2, OpenedLevel, Zenon
<1>7. ASSUME NEW func \in Func, openframe(func) PROVE SlotsOK(p') /\ StaysAt(p, p')
  <2> DEFINE levels == {l \in 0 .. Len(p.callstk) - 1 : p.callstk[l + 1].func = func}
  <2>1. levels # {} /\ p' = openlevel(p, Min(levels))
    BY <1>7, Zenon DEF openframe
  <2>2. levels \subseteq Nat /\ levels \subseteq 0 .. Len(p.callstk) - 1
    BY <1>2
  <2> HIDE DEF levels
  <2>3. Min(levels) \in levels
    BY <2>1, <2>2, MinExists, Zenon
  <2>4. PICK l : l = Min(levels)
    OBVIOUS
  <2>5. l \in 0 .. Len(p.callstk) - 1
    BY <2>2, <2>3, <2>4, Zenon
  <2>6. QED BY <1>1, <2>1, <2>4, <2>5, OpenedLevel, Zenon
<1>8. SlotsOK(p') /\ StaysAt(p, p')
  BY <1>3, <1>4, <1>5, <1>6, <1>7, Zenon DEF Asks
<1>9. status' = status /\ stack' = stack /\ padlines' = padlines
  BY DEF Asks, linereq, regloc, OpenFrame, opencallersframe, openframe
<1>10. QED BY <1>8, <1>9, Zenon

\* They keep the invariant.
LEMMA InvAsks == ASSUME IInv, Asks PROVE IInv'
<1>1. /\ SlotsOK(p') /\ StaysAt(p, p')
      /\ status' = status /\ stack' = stack /\ padlines' = padlines
  BY AsksStay, Zenon
<1>2. padlines' \in 0 .. Len(p.callstk) /\ status' \in {"ACTIVE", "STOPPED", "ERRORED", "CLOSED"}
  BY <1>1, Zenon DEF IInv, StackInv
<1>3. QED BY <1>1, <1>2, StaysInv, Zenon

\* A stop keeps it, whether the call stack can be read or not.
LEMMA InvStop == ASSUME IInv, NEW ok \in BOOLEAN, NEW shown \in BOOLEAN, Stop(ok, shown) PROVE IInv'
<1>1. status' = "STOPPED" /\ padlines' = Len(p'.callstk) /\ stack' = stack
  BY Zenon DEF Stop, Showing
<1>2. Readable(ok) = <<>> \/ Fresh(Readable(ok))
  BY ReadableIs, Zenon DEF IInv
<1>3. PICK a \in Asked(p) : p' = stopped(a, p, Readable(ok), shown)
  BY Zenon DEF Stop
<1>4. SlotsOK(p') /\ SameCalls(Readable(ok), p'.callstk)
  BY <1>2, <1>3, Stopped, Zenon DEF IInv
<1>5. QED BY <1>1, <1>4, ReadInv, Zenon

\* The Processes that the second merge of openframe_mergeback may find.
Between(ok, shown) ==
  IF status = "ACTIVE" THEN {stopped(asked, p, Readable(ok), shown) : asked \in Asked(p)} ELSE {p}

\* A menu entry that merges keeps it, once or twice.
LEMMA InvMergeback ==
  ASSUME IInv, NEW func \in Func, NEW ok \in BOOLEAN, NEW shown \in BOOLEAN,
         openframe_mergeback(func, ok, shown)
  PROVE  IInv'
<1>1. /\ status' = (IF status = "ACTIVE" THEN "STOPPED" ELSE status)
      /\ padlines' = Len(p'.callstk) /\ stack' = stack
  BY Zenon DEF openframe_mergeback, Showing
<1>2. Readable(ok) = <<>> \/ Fresh(Readable(ok))
  BY ReadableIs, Zenon DEF IInv
<1>3. SlotsOK(p) /\ status \in {"ACTIVE", "STOPPED", "ERRORED", "CLOSED"}
  BY Zenon DEF IInv, StackInv
<1>4. PICK q \in Between(ok, shown) : \E asked \in Asked(q) : p' = merge(asked, q, Readable(ok))
  BY Zenon DEF openframe_mergeback, Between
<1>5. SlotsOK(q)
  <2>1. CASE status = "ACTIVE"
    <3>1. q \in {stopped(asked, p, Readable(ok), shown) : asked \in Asked(p)}
      BY <2>1, Zenon DEF Between
    <3>2. PICK a \in Asked(p) : q = stopped(a, p, Readable(ok), shown)
      BY <3>1
    <3>3. QED BY <1>2, <1>3, <3>2, Stopped, Zenon
  <2>2. CASE status # "ACTIVE"
    <3>1. q \in {p}
      BY <2>2, Zenon DEF Between
    <3>2. QED BY <1>3, <3>1
  <2>3. QED BY <2>1, <2>2, Zenon
<1>6. SlotsOK(p') /\ SameCalls(Readable(ok), p'.callstk)
  BY <1>2, <1>4, <1>5, Merged, Zenon
<1>7. status' \in {"ACTIVE", "STOPPED", "ERRORED", "CLOSED"}
  BY <1>1, <1>3
<1>8. QED BY <1>1, <1>7, <1>6, ReadInv, Zenon

\* The steps: the subject's, those of the handlers that read no call stack, and
\* those that do.
LEMMA NextIs ==
  ASSUME Next
  PROVE  \/ \E f \in Func : Call(f)
         \/ Return \/ Run \/ Die \/ Asks \/ userclose
         \/ \E ok, shown \in BOOLEAN : Stop(ok, shown)
         \/ \E func \in Func, ok, shown \in BOOLEAN : openframe_mergeback(func, ok, shown)
BY Zenon DEF Next, Asks

\* The subject's activations have their places, and the Frames and the entries
\* of the call stack, which is a chain of activations, belong to each other,
\* whatever the subject and the user do.
THEOREM Inductive == Spec => []IInv
<1>1. IInv /\ [Next]_vars => IInv'
  <2> SUFFICES ASSUME IInv, [Next]_vars PROVE IInv'
    OBVIOUS
  <2>1. CASE Next
    BY <2>1, NextIs, InvCall, InvReturn, InvRun, InvDie, InvAsks, InvClose, InvStop, InvMergeback, Zenon
  <2>2. CASE UNCHANGED vars
    <3>1. status' = status /\ stack' = stack /\ p' = p /\ padlines' = padlines
      BY <2>2 DEF vars
    <3>2. QED BY <3>1, Zenon DEF IInv, StackInv
  <2>3. QED BY <2>1, <2>2
<1>2. QED BY <1>1, FramesInit, PTL DEF Spec

\* The parts of FramesAgree follow from the invariant.
LEMMA Agreeing == IInv => FramesAgree
<1> SUFFICES ASSUME IInv PROVE FramesAgree
  OBVIOUS
<1>1. SlotsOK(p) /\ Tied(p) /\ padlines \in 0 .. Len(p.callstk) /\ p.lost = FALSE
  BY Zenon DEF IInv, SlotsOK
<1>2. p.callstk \in Seq(FpFrame) /\ p.frames \in [FrameId -> Frame \cup {NoFrame}]
  BY <1>1 DEF SlotsOK, Slots
<1>3. DOMAIN p.callstk = 1 .. Len(p.callstk)
  BY <1>2, LenProperties
<1>4. \A i \in 1 .. Len(p.callstk) :
        p.callstk[i].frame # NoFrame => p.frames[p.callstk[i].frame] # NoFrame
  BY <1>1, Zenon DEF Tied
<1>5. ASSUME NEW f \in FrameId, p.frames[f] # NoFrame
      PROVE  LET fr == p.frames[f]
                 e == p.callstk[fr.level + 1]
             IN /\ {i \in DOMAIN p.callstk : p.callstk[i].frame = f} = {fr.level + 1}
                /\ fr.func = e.func /\ fr.fp = e.fp
                /\ fr.pad => fr.title = fr.fp
                /\ status = "STOPPED" =>
                     stack[Len(stack) - fr.level] = [func |-> e.func, act |-> e.act]
  <2>1. PICK v : v = p.frames[f].level
    OBVIOUS
  <2>2. v \in Nat /\ v + 1 \in 1 .. Len(p.callstk)
    BY <1>1, <1>5, <2>1, LevelOfFrame, Zenon
  <2>3. /\ p.callstk[v + 1].frame = f
        /\ p.frames[f].func = p.callstk[v + 1].func
        /\ p.frames[f].fp = p.callstk[v + 1].fp
        /\ p.frames[f].pad => p.frames[f].title = p.frames[f].fp
    BY <1>1, <1>5, <2>1, Zenon DEF Tied
  <2>4. {i \in DOMAIN p.callstk : p.callstk[i].frame = f} = {v + 1}
    <3>1. ASSUME NEW i \in 1 .. Len(p.callstk), p.callstk[i].frame = f PROVE i = v + 1
      <4>1. f # NoFrame
        BY Constants, Zenon
      <4>2. i - 1 = v
        BY <1>1, <2>1, <3>1, <4>1, Zenon DEF Tied
      <4>3. QED BY <1>2, <2>2, <4>2, LenProperties
    <3>2. QED BY <1>3, <2>2, <2>3, <3>1, Zenon
  <2>5. ASSUME status = "STOPPED"
        PROVE  stack[Len(stack) - v] = [func |-> p.callstk[v + 1].func, act |-> p.callstk[v + 1].act]
    <3>1. Len(stack) + 1 - (v + 1) = Len(stack) - v
      BY <2>2, StackParts
    <3>2. QED BY <2>2, <2>5, <3>1, Zenon DEF IInv, ReadFrom
  <2>6. QED BY <2>1, <2>3, <2>4, <2>5, Zenon
<1>6. QED BY <1>1, <1>2, <1>3, <1>4, <1>5, Zenon DEF FramesAgree, Alive

\* Process::frame, Frame::open and Process::merge keep the Frames and the call
\* stack of each other, for whatever stack the subject has when it stops and
\* whatever registers the spies ask for in the middle of merge: a Frame is that
\* of the entry at its level alone, the title of a window tells the activation
\* there, and while the subject is stopped the subject has that activation.
\* The Frames that merge loses have no windows, and no line is asked for that
\* has no activation (linereq does not look).
THEOREM FramesAlwaysAgree == Spec => []FramesAgree
BY Inductive, Agreeing, PTL

-----------------------------------------------------------------------------
(* A window stays with its activation. *)

\* The Frame of an entry.
LEMMA AtEntry ==
  ASSUME NEW r, SlotsOK(r), NEW f \in FrameId, NEW i \in 1 .. Len(r.callstk), r.callstk[i].frame = f
  PROVE  r.frames[f] # NoFrame /\ ActOf(r, f) = r.callstk[i].act
<1>1. f # NoFrame
  BY Constants, Zenon
<1>2. r.frames[f] # NoFrame /\ r.frames[f].level = i - 1
  BY <1>1, Zenon DEF SlotsOK, Tied
<1>3. i - 1 + 1 = i
  BY LenProperties DEF SlotsOK, Slots
<1>4. QED BY <1>2, <1>3, Zenon DEF ActOf

\* The entry of a Frame.
LEMMA FrameEntry ==
  ASSUME SlotsOK(p), NEW f \in FrameId, p.frames[f] # NoFrame
  PROVE  \E i \in 1 .. Len(p.callstk) : p.callstk[i].frame = f /\ ActOf(p, f) = p.callstk[i].act
<1>1. PICK i : i = p.frames[f].level + 1
  OBVIOUS
<1>2. i \in 1 .. Len(p.callstk) /\ p.callstk[i].frame = f
  BY <1>1, Zenon DEF SlotsOK, Tied
<1>3. QED BY <1>1, <1>2, Zenon DEF ActOf

\* A Frame whose entry stays keeps its activation.
LEMMA StaysWindow ==
  ASSUME SlotsOK(p), NEW r, SlotsOK(r), StaysAt(p, r), NEW f \in FrameId, p.frames[f] # NoFrame
  PROVE  /\ r.frames[f] # NoFrame /\ ActOf(r, f) = ActOf(p, f)
         /\ p.frames[f].pad => r.frames[f].pad
<1>1. PICK i \in 1 .. Len(p.callstk) : p.callstk[i].frame = f /\ ActOf(p, f) = p.callstk[i].act
  BY FrameEntry, Zenon
<1>2. p.callstk \in Seq(FpFrame)
  BY DEF SlotsOK, Slots
<1>3. Len(r.callstk) = Len(p.callstk) /\ r.callstk[i].act = p.callstk[i].act
  BY <1>2, SameCallsIs, Zenon DEF StaysAt
<1>4. f # NoFrame
  BY Constants, Zenon
<1>5. r.callstk[i].frame = f
  BY <1>1, <1>4, Zenon DEF StaysAt
<1>6. p.frames[f].pad => r.frames[f].pad
  BY Zenon DEF StaysAt
<1>7. QED BY <1>1, <1>3, <1>5, <1>6, AtEntry, Zenon

\* Entry A of the old call stack and entry B of the new one are of one
\* activation, and the oldest entries of both are of one too: then as many
\* entries are older in both, of the same functions.
LEMMA SameBelow ==
  ASSUME IInv, NEW cs, Fresh(cs), ReadFrom(cs, stack), ChainIn(cs, stack),
         NEW A \in 1 .. Len(p.callstk), NEW B \in 1 .. Len(cs),
         p.callstk[A].act = cs[B].act,
         p.callstk[Len(p.callstk)].act = cs[Len(cs)].act
  PROVE  /\ Len(p.callstk) - A = Len(cs) - B /\ Len(cs) - B \in Nat
         /\ \A k \in 0 .. Len(cs) - B :
              p.callstk[Len(p.callstk) - k].func = cs[Len(cs) - k].func
<1>1. PICK n, m : n = Len(p.callstk) /\ m = Len(cs)
  OBVIOUS
<1>2. /\ n \in Nat /\ m \in Nat /\ A \in 1 .. n /\ B \in 1 .. m
      /\ n \in 1 .. n /\ m \in 1 .. m
      /\ p.callstk \in Seq(FpFrame) /\ cs \in Seq(FpFrame)
  BY <1>1, StackParts, LenProperties DEF Fresh
<1>3. PICK a, b, x, y : a = p.callstk[A].fp /\ b = p.callstk[n].fp /\ x = cs[B].fp /\ y = cs[m].fp
  OBVIOUS
<1>4. /\ a \in 1 .. MaxDepth /\ b \in 1 .. MaxDepth /\ a - b = n - A
      /\ p.callstk[A].act[1] = a /\ p.callstk[n].act[1] = b
  BY <1>1, <1>2, <1>3, StackParts, PlacesBelow, Zenon
<1>5. /\ x \in 1 .. MaxDepth /\ y \in 1 .. MaxDepth /\ x - y = m - B
      /\ cs[B].act[1] = x /\ cs[m].act[1] = y
  BY <1>1, <1>2, <1>3, PlacesBelow, Zenon
<1>6. a = x /\ b = y
  BY <1>1, <1>4, <1>5, Zenon
<1>7. n - A = m - B /\ m - B \in Nat
  BY <1>2, <1>4, <1>5, <1>6
<1>8. \A j \in A .. n : stack[p.callstk[j].fp] = [func |-> p.callstk[j].func, act |-> p.callstk[j].act]
  <2>1. B <= Len(stack) /\ x = Len(stack) + 1 - B
        /\ stack[Len(stack) + 1 - B] = [func |-> cs[B].func, act |-> cs[B].act]
    BY <1>3, Zenon DEF ReadFrom
  <2>2. stack[x].act = cs[B].act
    <3>1. [func |-> cs[B].func, act |-> cs[B].act].act = cs[B].act
      OBVIOUS
    <3>2. QED BY <2>1, <3>1, Zenon
  <2>3. x <= Len(stack)
    BY <1>2, <2>1, StackParts
  <2>4. ChainIn(p.callstk, stack)
    BY Zenon DEF IInv
  <2>5. p.callstk[A].fp <= Len(stack) /\ stack[p.callstk[A].fp].act = p.callstk[A].act
    BY <1>3, <1>6, <2>2, <2>3, Zenon
  <2>6. QED BY <1>1, <2>4, <2>5, Zenon DEF ChainIn
<1>9. ASSUME NEW k \in 0 .. m - B PROVE p.callstk[n - k].func = cs[m - k].func
  <2>1. n - k \in 1 .. n /\ n - k \in A .. n /\ m - k \in 1 .. m
    BY <1>2, <1>7
  <2>2. PICK i, j : i = n - k /\ j = m - k
    OBVIOUS
  <2>3. i \in 1 .. n /\ j \in 1 .. m /\ n - i = k /\ m - j = k /\ k \in Nat
    BY <1>2, <1>7, <2>1, <2>2
  <2>4. PICK u, w : u = p.callstk[i].fp /\ w = cs[j].fp
    OBVIOUS
  <2>5. u - b = n - i /\ u \in 1 .. MaxDepth
    <3>1. p.callstk[i].fp - p.callstk[n].fp = n - i /\ p.callstk[i].fp \in 1 .. MaxDepth
      BY <1>1, <1>2, <2>3, StackParts, PlacesBelow, Zenon
    <3>2. QED BY <1>3, <2>4, <3>1, Zenon
  <2>6. w - y = m - j /\ w \in 1 .. MaxDepth
    <3>1. cs[j].fp - cs[m].fp = m - j /\ cs[j].fp \in 1 .. MaxDepth
      BY <1>1, <1>2, <2>3, PlacesBelow, Zenon
    <3>2. QED BY <1>3, <2>4, <3>1, Zenon
  <2>7. u \in Nat /\ w \in Nat /\ y \in Nat /\ u - y = k /\ w - y = k
    <3>1. u \in Nat /\ w \in Nat /\ y \in Nat
      BY <1>5, <2>5, <2>6, Constants
    <3>2. u - y = k /\ w - y = k
      BY <1>6, <2>3, <2>5, <2>6, Zenon
    <3>3. QED BY <3>1, <3>2
  <2>8. p.callstk[i].fp = cs[j].fp
    <3>1. k \in Nat
      BY <2>3, Zenon
    <3>2. u = w
      BY <2>7, <3>1
    <3>3. QED BY <2>4, <3>2, Zenon
  <2>9. /\ cs[j].fp = Len(stack) + 1 - j
        /\ stack[Len(stack) + 1 - j] = [func |-> cs[j].func, act |-> cs[j].act]
    BY <1>1, <2>1, <2>2, Zenon DEF ReadFrom
  <2>10. [func |-> p.callstk[i].func, act |-> p.callstk[i].act] = [func |-> cs[j].func, act |-> cs[j].act]
    BY <1>8, <2>1, <2>2, <2>8, <2>9, Zenon
  <2>11. p.callstk[i].func = cs[j].func
    BY <2>10
  <2>12. QED BY <2>2, <2>11, Zenon
<1>10. QED BY <1>1, <1>7, <1>9, Zenon

\* The condition of WindowStays, for entry A of the Process.
LEMMA OlderFramed ==
  ASSUME IInv, NEW A \in 1 .. Len(p.callstk), NEW a, a = p.callstk[A].act,
         p.callstk[A].frame # NoFrame, OlderSame(p, a) \subseteq HaveFrames(p),
         NEW i \in 1 .. Len(p.callstk), A <= i, p.callstk[i].func = p.callstk[A].func
  PROVE  p.callstk[i].frame # NoFrame
<1>1. DOMAIN p.callstk = 1 .. Len(p.callstk) /\ Len(p.callstk) \in Nat
  BY StackParts, LenProperties
<1>2. \A k, j \in 1 .. Len(p.callstk) : p.callstk[k].act = p.callstk[j].act => k = j
  BY StackParts, PlacesBelow, Zenon
<1>3. CASE i = A
  BY <1>3
<1>4. CASE i # A
  <2> DEFINE at == CHOOSE k \in DOMAIN p.callstk : p.callstk[k].act = a
  <2>1. at \in DOMAIN p.callstk /\ p.callstk[at].act = a
    BY <1>1, Zenon
  <2>2. at = A
    BY <1>1, <1>2, <2>1, Zenon
  <2>3. OlderSame(p, a) =
          {p.callstk[k].act : k \in {j \in DOMAIN p.callstk :
                                j > at /\ p.callstk[j].func = p.callstk[at].func}}
    BY Zenon DEF OlderSame
  <2> HIDE DEF at
  <2>4. i > A
    BY <1>1, <1>4
  <2>5. p.callstk[i].act \in OlderSame(p, a)
    BY <1>1, <2>2, <2>3, <2>4, Zenon
  <2>6. p.callstk[i].act \in HaveFrames(p)
    BY <2>5, Zenon
  <2>7. PICK k \in 1 .. Len(p.callstk) : p.callstk[k].frame # NoFrame /\ p.callstk[k].act = p.callstk[i].act
    BY <1>1, <2>6, Zenon DEF HaveFrames
  <2>8. k = i
    BY <1>2, <2>7, Zenon
  <2>9. QED BY <2>7, <2>8, Zenon
<1>5. QED BY <1>3, <1>4, Zenon

\* The call stack cs has, at the same depth from its bottom, the activation Frame f is for.
KeptAt(cs, f) ==
  /\ Fresh(cs)
  /\ \E d, F :
       /\ SameBottom(p.callstk, cs, d, F) /\ d \in 0 .. d
       /\ p.callstk[Len(p.callstk) - d].frame = f
       /\ p.callstk[Len(p.callstk) - d].func = F
       /\ Len(cs) - d \in 1 .. Len(cs) /\ cs[Len(cs) - d].act = ActOf(p, f)

\* merge may keep Frame f when the call stack it reads becomes that of r.
LEMMA MergeMayKeep ==
  ASSUME IInv, NEW ok, NEW r, SlotsOK(r), SameCalls(Readable(ok), r.callstk),
         NEW f \in FrameId, p.frames[f] # NoFrame, ActOf(p, f) \in OnStack(r),
         Last(p.callstk).act = Last(r.callstk).act,
         OlderSame(p, ActOf(p, f)) \subseteq HaveFrames(p)
  PROVE  KeptAt(Readable(ok), f)
<1> DEFINE cs == Readable(ok)
           a == ActOf(p, f)
           n == Len(p.callstk)
           m == Len(cs)
<1>1. PICK A \in 1 .. Len(p.callstk) : p.callstk[A].frame = f /\ a = p.callstk[A].act
  BY FrameEntry, Zenon DEF IInv
<1>2. /\ cs = <<>> \/ Fresh(cs)
      /\ cs \in Seq(FpFrame) /\ ReadFrom(cs, stack) /\ ChainIn(cs, stack)
  BY ReadableIs, Zenon DEF IInv
<1> HIDE DEF cs, a
<1>3. /\ Len(r.callstk) = m
      /\ \A i \in 1 .. m : r.callstk[i].act = cs[i].act
  BY <1>2, SameCallsIs, Zenon DEF cs
<1>4. r.callstk \in Seq(FpFrame) /\ DOMAIN r.callstk = 1 .. m
  BY <1>3, LenProperties DEF SlotsOK, Slots
<1>5. PICK B \in 1 .. m : cs[B].act = a
  BY <1>3, <1>4, Zenon DEF OnStack, a
<1>6. Fresh(cs)
  <2>1. 1 .. Len(<<>>) = {}
    OBVIOUS
  <2>2. QED BY <1>2, <1>5, <2>1, Zenon
<1>7. n \in Nat /\ m \in Nat /\ n \in 1 .. n /\ m \in 1 .. m
  BY <1>1, <1>2, <1>5, StackParts, LenProperties
<1>8. p.callstk[n].act = cs[m].act
  BY <1>3, <1>7, Zenon DEF Last
<1>9. /\ n - A = m - B /\ m - B \in Nat
      /\ \A k \in 0 .. m - B : p.callstk[n - k].func = cs[m - k].func
  BY <1>1, <1>2, <1>5, <1>6, <1>8, SameBelow, Zenon
<1>10. PICK d, F : d = m - B /\ F = p.callstk[A].func
  OBVIOUS
<1>11. d \in Nat /\ d < n /\ d < m /\ n - d = A /\ m - d = B /\ d \in 0 .. d
  BY <1>7, <1>9, <1>10
<1>12. ASSUME NEW k \in 0 .. d, p.callstk[n - k].func = F PROVE p.callstk[n - k].frame # NoFrame
  <2>1. n - k \in 1 .. n /\ A <= n - k
    BY <1>7, <1>11
  <2>2. f # NoFrame
    BY Constants, Zenon
  <2>3. OlderSame(p, a) \subseteq HaveFrames(p)
    BY Zenon DEF a
  <2>4. PICK i : i = n - k
    OBVIOUS
  <2>5. i \in 1 .. n /\ A <= i /\ p.callstk[i].func = p.callstk[A].func
    BY <1>10, <1>12, <2>1, <2>4, Zenon
  <2>6. p.callstk[i].frame # NoFrame
    BY <1>1, <2>2, <2>3, <2>5, OlderFramed, Zenon
  <2>7. QED BY <2>4, <2>6, Zenon
<1>13. SameBottom(p.callstk, cs, d, F)
  <2>1. \A k \in 0 .. d : p.callstk[n - k].func = cs[m - k].func
    BY <1>9, <1>10, Zenon
  <2>2. QED BY <1>11, <1>12, <2>1, Zenon DEF SameBottom
<1>14. /\ p.callstk[n - d].frame = f /\ p.callstk[n - d].func = F
       /\ m - d \in 1 .. m /\ cs[m - d].act = a
  BY <1>1, <1>5, <1>10, <1>11, Zenon
<1>15. KeptAt(cs, f)
  BY <1>6, <1>11, <1>13, <1>14, Zenon DEF KeptAt, a
<1>16. QED BY <1>15, Zenon DEF cs

-----------------------------------------------------------------------------
(* A step keeps the Frames with their activations. *)

\* What WindowStays says of r after p.
StaysIn(r) ==
  \A f \in FrameId :
    LET a == ActOf(p, f)
    IN /\ p.frames[f] # NoFrame /\ a \in OnStack(r)
       /\ Last(p.callstk).act = Last(r.callstk).act
       /\ OlderSame(p, a) \subseteq HaveFrames(p)
       => r.frames[f] # NoFrame /\ ActOf(r, f) = a /\ (p.frames[f].pad => r.frames[f].pad)

\* One merge.
LEMMA StopStays ==
  ASSUME IInv, NEW ok, NEW r, SlotsOK(r), SameCalls(Readable(ok), r.callstk),
         NEW a \in Asked(p), SlotsOK(merge(a, p, Readable(ok))),
         StaysAt(merge(a, p, Readable(ok)), r)
  PROVE  StaysIn(r)
<1> DEFINE cs == Readable(ok)
<1>1. ASSUME NEW f \in FrameId, p.frames[f] # NoFrame, ActOf(p, f) \in OnStack(r),
             Last(p.callstk).act = Last(r.callstk).act,
             OlderSame(p, ActOf(p, f)) \subseteq HaveFrames(p)
      PROVE  /\ r.frames[f] # NoFrame /\ ActOf(r, f) = ActOf(p, f)
             /\ p.frames[f].pad => r.frames[f].pad
  <2>1. /\ Fresh(cs)
        /\ \E d, F :
             /\ SameBottom(p.callstk, cs, d, F) /\ d \in 0 .. d
             /\ p.callstk[Len(p.callstk) - d].frame = f
             /\ p.callstk[Len(p.callstk) - d].func = F
             /\ Len(cs) - d \in 1 .. Len(cs) /\ cs[Len(cs) - d].act = ActOf(p, f)
    <3>1. KeptAt(cs, f)
      BY <1>1, MergeMayKeep, Zenon
    <3> HIDE DEF cs
    <3>2. QED BY <3>1, Zenon DEF KeptAt
  <2> HIDE DEF cs
  <2>2. PICK d, F :
             /\ SameBottom(p.callstk, cs, d, F) /\ d \in 0 .. d
             /\ p.callstk[Len(p.callstk) - d].frame = f
             /\ p.callstk[Len(p.callstk) - d].func = F
             /\ Len(cs) - d \in 1 .. Len(cs) /\ cs[Len(cs) - d].act = ActOf(p, f)
    BY <2>1, Zenon
  <2>3. PICK i, w : i = Len(cs) - d /\ w = merge(a, p, cs)
    OBVIOUS
  <2>4. SlotsOK(p) /\ SlotsOK(w) /\ StaysAt(w, r) /\ cs \in Seq(FpFrame) /\ f # NoFrame
    BY <2>1, <2>3, Constants, Zenon DEF IInv, Fresh, cs
  <2>5. Len(r.callstk) = Len(cs) /\ r.callstk[i].act = ActOf(p, f)
    BY <2>2, <2>3, <2>4, SameCallsIs, Zenon DEF cs
  <2>6. Len(w.callstk) = Len(cs)
    BY <2>4, <2>5, Zenon DEF StaysAt, SameCalls
  <2>7. SameWindow(p, w, d)
    BY <2>1, <2>2, <2>3, <2>4, MergeStays, Zenon
  <2>8. w.callstk[i].frame = f /\ w.frames[f].pad = p.frames[f].pad
    BY <2>2, <2>3, <2>6, <2>7, Zenon DEF SameWindow
  <2>9. w.frames[f] # NoFrame
    BY <2>2, <2>3, <2>4, <2>6, <2>8, AtEntry, Zenon
  <2>10. r.callstk[i].frame = f /\ (p.frames[f].pad => r.frames[f].pad)
    BY <2>2, <2>3, <2>4, <2>6, <2>8, <2>9, Zenon DEF StaysAt
  <2>11. QED BY <2>2, <2>3, <2>5, <2>10, AtEntry, Zenon
<1>2. QED BY <1>1, Zenon DEF StaysIn

\* A merge after a stop that merged, with the same call stack.
LEMMA TwiceStays ==
  ASSUME IInv, NEW ok, NEW q, SlotsOK(q), SameCalls(Readable(ok), q.callstk),
         NEW a \in Asked(p), SlotsOK(merge(a, p, Readable(ok))),
         StaysAt(merge(a, p, Readable(ok)), q), NEW b \in Asked(q),
         NEW r, r = merge(b, q, Readable(ok)), SlotsOK(r), SameCalls(Readable(ok), r.callstk)
  PROVE  StaysIn(r)
<1> DEFINE cs == Readable(ok)
<1>1. ASSUME NEW f \in FrameId, p.frames[f] # NoFrame, ActOf(p, f) \in OnStack(r),
             Last(p.callstk).act = Last(r.callstk).act,
             OlderSame(p, ActOf(p, f)) \subseteq HaveFrames(p)
      PROVE  /\ r.frames[f] # NoFrame /\ ActOf(r, f) = ActOf(p, f)
             /\ p.frames[f].pad => r.frames[f].pad
  <2>1. /\ Fresh(cs)
        /\ \E d, F :
             /\ SameBottom(p.callstk, cs, d, F) /\ d \in 0 .. d
             /\ p.callstk[Len(p.callstk) - d].frame = f
             /\ p.callstk[Len(p.callstk) - d].func = F
             /\ Len(cs) - d \in 1 .. Len(cs) /\ cs[Len(cs) - d].act = ActOf(p, f)
    <3>1. KeptAt(cs, f)
      BY <1>1, MergeMayKeep, Zenon
    <3> HIDE DEF cs
    <3>2. QED BY <3>1, Zenon DEF KeptAt
  <2> HIDE DEF cs
  <2>2. PICK d, F :
             /\ SameBottom(p.callstk, cs, d, F) /\ d \in 0 .. d
             /\ p.callstk[Len(p.callstk) - d].frame = f
             /\ p.callstk[Len(p.callstk) - d].func = F
             /\ Len(cs) - d \in 1 .. Len(cs) /\ cs[Len(cs) - d].act = ActOf(p, f)
    BY <2>1, Zenon
  <2>3. PICK n, m : n = Len(p.callstk) /\ m = Len(cs)
    OBVIOUS
  <2>4. /\ cs \in Seq(FpFrame) /\ SlotsOK(p) /\ f # NoFrame
        /\ n \in Nat /\ m \in Nat
    <3>1. cs \in Seq(FpFrame) /\ SlotsOK(p) /\ f # NoFrame
      BY <2>1, Constants, Zenon DEF Fresh, IInv
    <3>2. n \in Nat /\ m \in Nat
      BY <2>3, <3>1, LenProperties DEF SlotsOK, Slots
    <3>3. QED BY <3>1, <3>2, Zenon
  <2>5. /\ d \in Nat /\ d < n /\ d < m
        /\ \A k \in 0 .. d : p.callstk[n - k].func = cs[m - k].func
        /\ \A k \in 0 .. d : p.callstk[n - k].func = F => p.callstk[n - k].frame # NoFrame
    BY <2>2, <2>3, Zenon DEF SameBottom
  <2>6. PICK w : w = merge(a, p, cs) /\ SlotsOK(w) /\ StaysAt(w, q)
    BY Zenon DEF cs
  <2>7. \A k \in 0 .. d : p.callstk[n - k].func = F => SameWindow(p, w, k)
    BY <2>1, <2>2, <2>3, <2>4, <2>6, MergeStays, Zenon
  <2>8. /\ Len(q.callstk) = m /\ Len(r.callstk) = m
        /\ \A i \in 1 .. m : q.callstk[i].func = cs[i].func
        /\ \A i \in 1 .. m : r.callstk[i].act = cs[i].act
    <3>1. /\ Len(q.callstk) = m
          /\ \A i \in 1 .. m : q.callstk[i].func = cs[i].func
      BY <2>3, <2>4, SameCallsIs, Zenon DEF cs
    <3>2. /\ Len(r.callstk) = m
          /\ \A i \in 1 .. m : r.callstk[i].act = cs[i].act
      BY <2>3, <2>4, SameCallsIs, Zenon DEF cs
    <3>3. QED BY <3>1, <3>2, Zenon
  <2>9. \A k \in 0 .. d : m - k \in 1 .. m
    BY <2>4, <2>5
  <2>10. Len(w.callstk) = m
    BY <2>8, <2>6, Zenon DEF StaysAt, SameCalls
  <2>11. ASSUME NEW k \in 0 .. d, q.callstk[m - k].func = F
         PROVE  /\ q.callstk[m - k].frame = p.callstk[n - k].frame
                /\ q.callstk[m - k].frame # NoFrame
                /\ w.callstk[m - k].frame = p.callstk[n - k].frame
                /\ w.frames[p.callstk[n - k].frame].pad = p.frames[p.callstk[n - k].frame].pad
    <3>1. p.callstk[n - k].func = F
      BY <2>5, <2>8, <2>9, <2>11, Zenon
    <3>2. p.callstk[n - k].frame # NoFrame
      BY <2>5, <3>1, Zenon
    <3>3. /\ w.callstk[m - k].frame = p.callstk[n - k].frame
          /\ w.frames[p.callstk[n - k].frame].pad = p.frames[p.callstk[n - k].frame].pad
      BY <2>3, <2>7, <2>10, <3>1, Zenon DEF SameWindow
    <3>4. q.callstk[m - k].frame = w.callstk[m - k].frame
      BY <2>9, <2>10, <2>6, <3>2, <3>3, Zenon DEF StaysAt
    <3>5. QED BY <3>2, <3>3, <3>4, Zenon
  <2>12. SameBottom(q.callstk, cs, d, F)
    <3>1. \A k \in 0 .. d : q.callstk[m - k].func = cs[m - k].func
      BY <2>8, <2>9, Zenon
    <3>2. \A k \in 0 .. d : q.callstk[m - k].func = F => q.callstk[m - k].frame # NoFrame
      BY <2>11, Zenon
    <3>3. QED BY <2>3, <2>5, <2>8, <3>1, <3>2, Zenon DEF SameBottom
  <2>13. q.callstk[m - d].func = F
    BY <2>2, <2>3, <2>5, <2>8, <2>9, Zenon
  <2>14. /\ q.callstk[m - d].frame = f /\ w.callstk[m - d].frame = f
         /\ w.frames[f].pad = p.frames[f].pad
    BY <2>2, <2>3, <2>11, <2>13, Zenon
  <2>15. m - d \in 1 .. m
    BY <2>2, <2>9, Zenon
  <2>16. w.frames[f] # NoFrame
    BY <2>10, <2>14, <2>15, <2>6, AtEntry, Zenon
  <2>17. p.frames[f].pad => q.frames[f].pad
    BY <2>14, <2>16, <2>6, Zenon DEF StaysAt
  <2>18. SameWindow(q, r, d)
    BY <2>1, <2>2, <2>3, <2>8, <2>12, <2>13, MergeStays, Zenon DEF cs
  <2>19. r.callstk[m - d].frame = f /\ r.frames[f].pad = q.frames[f].pad
    BY <2>8, <2>14, <2>18, Zenon DEF SameWindow
  <2>20. r.callstk[m - d].act = ActOf(p, f)
    BY <2>2, <2>3, <2>8, <2>15, Zenon
  <2>21. QED BY <2>8, <2>15, <2>17, <2>19, <2>20, AtEntry, Zenon
<1>2. QED BY <1>1, Zenon DEF StaysIn

\* Every step keeps the Frames with their activations.
LEMMA StepStays == ASSUME IInv, [Next]_vars PROVE StaysIn(p')
<1>1. SlotsOK(p) /\ SlotsOK(p)
  BY Zenon DEF IInv
<1>2. ASSUME NEW r, SlotsOK(r), StaysAt(p, r) PROVE StaysIn(r)
  BY <1>1, <1>2, StaysWindow, Zenon DEF StaysIn
<1>3. ASSUME p' = p PROVE StaysIn(p')
  BY <1>1, <1>2, <1>3, StaysAtSame, Zenon
<1>4. ASSUME Asks PROVE StaysIn(p')
  BY <1>2, <1>4, AsksStay, Zenon
<1>5. ASSUME userclose PROVE StaysIn(p')
  <2>1. p'.callstk = <<>>
    BY <1>1, <1>5, ClosedFrames, Zenon DEF userclose
  <2>2. OnStack(p') = {}
    BY <2>1 DEF OnStack
  <2>3. QED BY <2>2, Zenon DEF StaysIn
<1>6. \A ok : Readable(ok) = <<>> \/ Fresh(Readable(ok))
  BY ReadableIs, Zenon DEF IInv
<1>7. ASSUME NEW ok, NEW shown, Stop(ok, shown) PROVE StaysIn(p')
  <2>1. PICK a \in Asked(p) : p' = stopped(a, p, Readable(ok), shown)
    BY <1>7, Zenon DEF Stop
  <2>2. /\ SlotsOK(p') /\ SameCalls(Readable(ok), p'.callstk)
        /\ StaysAt(merge(a, p, Readable(ok)), p')
    BY <1>1, <1>6, <2>1, Stopped, Zenon
  <2>3. SlotsOK(merge(a, p, Readable(ok)))
    BY <1>1, <1>6, Merged, Zenon
  <2>4. QED BY <2>2, <2>3, StopStays, Zenon
<1>8. ASSUME NEW func, NEW ok, NEW shown, openframe_mergeback(func, ok, shown) PROVE StaysIn(p')
  <2>1. PICK q \in Between(ok, shown) : \E b \in Asked(q) : p' = merge(b, q, Readable(ok))
    BY <1>8, Zenon DEF openframe_mergeback, Between
  <2>2. CASE status = "ACTIVE"
    <3>1. q \in {stopped(asked, p, Readable(ok), shown) : asked \in Asked(p)}
      BY <2>2, Zenon DEF Between
    <3>2. PICK a \in Asked(p) : q = stopped(a, p, Readable(ok), shown)
      BY <3>1
    <3>3. /\ SlotsOK(q) /\ SameCalls(Readable(ok), q.callstk)
          /\ StaysAt(merge(a, p, Readable(ok)), q)
      BY <1>1, <1>6, <3>2, Stopped, Zenon
    <3>4. SlotsOK(merge(a, p, Readable(ok)))
      BY <1>1, <1>6, Merged, Zenon
    <3>5. PICK b \in Asked(q) : p' = merge(b, q, Readable(ok))
      BY <2>1, Zenon
    <3>6. SlotsOK(p') /\ SameCalls(Readable(ok), p'.callstk)
      BY <1>6, <3>3, <3>5, Merged, Zenon
    <3>7. QED BY <3>3, <3>4, <3>5, <3>6, TwiceStays, Zenon
  <2>3. CASE status # "ACTIVE"
    <3>1. q \in {p}
      BY <2>3, Zenon DEF Between
    <3>2. q = p
      BY <3>1
    <3>3. PICK b \in Asked(p) : p' = merge(b, p, Readable(ok))
      BY <2>1, <3>2, Zenon
    <3>4. SlotsOK(p') /\ SameCalls(Readable(ok), p'.callstk)
      BY <1>1, <1>6, <3>3, Merged, Zenon
    <3>5. StaysAt(p', p')
      BY <3>4, StaysAtSame, Zenon
    <3>6. QED BY <3>3, <3>4, <3>5, StopStays, Zenon
  <2>4. QED BY <2>2, <2>3, Zenon
<1>9. (\E f \in Func : Call(f)) \/ Return \/ Run \/ Die => p' = p
  BY DEF Call, Return, Run, Die
<1>10. CASE Next
  BY <1>3, <1>4, <1>5, <1>7, <1>8, <1>9, <1>10, NextIs, Zenon
<1>11. CASE UNCHANGED vars
  BY <1>3, <1>11 DEF vars
<1>12. QED BY <1>10, <1>11

\* Process::merge gives the Frames of the old call stack to activations of the
\* new one by their functions alone.  A Frame stays all the same with its own
\* activation, for as long as that is on the call stack, if the older
\* activations of its function all have Frames, and so does its window: also
\* when a menu entry merges twice, whatever was called and returned from between
\* two stops, and whatever the spies ask for in the middle of merge.
THEOREM WindowsStay == Spec => WindowStays
<1>1. IInv /\ [Next]_vars =>
        [\A f \in FrameId :
           LET a == ActOf(p, f)
           IN /\ Alive(f) /\ a \in OnStack(p')
              /\ Last(p.callstk).act = Last(p'.callstk).act
              /\ OlderSame(p, a) \subseteq HaveFrames(p)
              => Alive(f)' /\ ActOf(p', f) = a /\ (p.frames[f].pad => p'.frames[f].pad)]_vars
  BY StepStays, Zenon DEF StaysIn, Alive
<1>2. QED BY <1>1, Inductive, PTL DEF Spec, WindowStays
=============================================================================
