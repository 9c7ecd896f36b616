-------------------------- MODULE Journal_proofs ---------------------------
(***************************************************************************)
(* The journal window, for every set of texts, every length of the journal *)
(* and every bound: it shows the latest lines only (WindowIsRecent), each  *)
(* with the text it was entered with (LinesAreTrue), and a line that waits *)
(* will be answered where requests reach the journal                       *)
(* (RequestsAreAnswered).                                                  *)
(*                                                                         *)
(* The three are about the window that the terminal will have when it has  *)
(* read all that was sent.  The invariant is about the window it has, and  *)
(* says of each line what the messages under way may still put right.      *)
(***************************************************************************)
EXTENDS Journal, SequenceTheorems, WellFoundedInduction, TLAPS

-----------------------------------------------------------------------------
(* The inductive invariant. *)

Texts == [text : Text, count : 1 .. MaxCount]
Line == [key : Key, text : Texts \cup {TILDE}, attributes : {{}, {"FAKELINE"}}]
Request == [op : {"LINEREQ"}, obj : {Object}, oid : {1}, lo : Key, hi : Key]

\* The messages.
PadDef == [op |-> "PADDEF", obj |-> Object, oid |-> 1]
Options == [op |-> "ATTRIBUTE", obj |-> Object, attributes |-> {"NO_TILDE"}]
Shows(k, x) == [op |-> "LINE", obj |-> Object, key |-> k, attributes |-> {}, text |-> x]
Creates(k) == [op |-> "CREATELINE", obj |-> Object, lo |-> k, hi |-> k]
Removes(k) == [op |-> "REMOVELINE", obj |-> Object, key |-> k]

Message ==
  {PadDef, Options} \cup {Creates(k) : k \in Key} \cup {Removes(k) : k \in Key}
    \cup {Shows(k, x) : k \in Key, x \in Texts}

\* Message m replaces or removes line k.
Touches(m, k) == m = Creates(k) \/ m = Removes(k) \/ \E x \in Texts : m = Shows(k, x)

Window == [object : {Object}, oid : {1}, attributes : SUBSET {"NO_TILDE", "FAKELINE"},
           max : {0}, lines : Seq(Line)]

Terminal == [wins : Seq(Window), LINEobj : {NoObj, Object}, out : Seq(Request),
             prev : [key : 0 .. MaxLines, attributes : {{}}]]

Sorted(ls) == \A i, j \in 1 .. Len(ls) : i < j => ls[i].key < ls[j].key

LinesOf(u) == IF u.wins = <<>> THEN <<>> ELSE u.wins[1].lines

(* In what follows a terminal has read the first n of the messages s; the  *)
(* journal has lines 1 .. j, of which g tells text and count.              *)

\* A message to come is about line k.
Later(s, n, k) == \E q \in n + 1 .. Len(s) : Touches(s[q], k)

\* Line k is not too old, or will be removed.
Recent(s, n, j, k) ==
  k \in 1 .. j /\ (k > j - length \/ \E q \in n + 1 .. Len(s) : s[q] = Removes(k))

\* What line k says is right, or its count will be put right.
Right(s, n, g, k, x) ==
  x.text = g[k].text /\ (x.count \in {g[k].count - 1, g[k].count} \/ Later(s, n, k))

\* Line k is requested, where requests are answered at all.
Covered(out, k) == Overrides => \E i \in 1 .. Len(out) : k \in out[i].lo .. out[i].hi

LineOK(out, s, n, j, g, l) ==
  /\ Recent(s, n, j, l.key)
  /\ IsReal(l) => Right(s, n, g, l.key, l.text)
  /\ IsAsked(l) => Covered(out, l.key) \/ Later(s, n, l.key)

\* Message q is about a line that is not too old, and says what is right,
\* or a message behind it mends that.
MessageOK(s, q, j, g) ==
  /\ \A k \in Key : s[q] = Creates(k) => Recent(s, q, j, k)
  /\ \A k \in Key, x \in Texts : s[q] = Shows(k, x) => Recent(s, q, j, k) /\ Right(s, q, g, k, x)

LinesOK(ls, out, s, n, j, g) ==
  Sorted(ls) /\ \A i \in 1 .. Len(ls) : LineOK(out, s, n, j, g, ls[i])

MessagesOK(s, n, j, g) == \A q \in n + 1 .. Len(s) : MessageOK(s, q, j, g)

\* The window is defined by the message to come, or is there.
Defines(u, s, n) ==
  /\ u.wins = <<>> => n < Len(s)
  /\ \A q \in n + 1 .. Len(s) : s[q] = PadDef <=> u.wins = <<>> /\ q = n + 1

\* Lines are asked for that the journal has.
OutOK(out, j) ==
  \A i \in 1 .. Len(out) : out[i].lo \in 1 .. j /\ out[i].hi \in 1 .. j /\ out[i].lo <= out[i].hi

TermInv(u, s, n, j, g) ==
  /\ u \in Terminal /\ Len(u.wins) <= 1 /\ s \in Seq(Message)
  /\ Defines(u, s, n)
  /\ MessagesOK(s, n, j, g)
  /\ LinesOK(LinesOf(u), u.out, s, n, j, g)
  /\ OutOK(u.out, j)

\* The ring has the latest lines.
Ring ==
  /\ key \in 0 .. MaxLines /\ lastreq \in 0 .. key
  /\ bls \in [Slot -> Text \cup {TILDE}] /\ ct \in [Slot -> 0 .. MaxCount]
  /\ log \in Seq(Texts) /\ Len(log) = key
  /\ \A k \in 1 .. key : k > key - length =>
       bls[k % length] = log[k].text /\ ct[k % length] = log[k].count

JInv == Ring /\ TermInv(t, toTerm, 0, key, log)

-----------------------------------------------------------------------------
(* Induction, with sets for predicates. *)

\* A set of natural numbers has a least one.
LEMMA Least ==
  ASSUME NEW T, T \subseteq Nat, T # {}
  PROVE  \E m \in T : \A n \in T : m <= n
<1> DEFINE R == OpToRel(<, Nat)
<1>1. IsWellFoundedOn(R, Nat)
  BY NatLessThanWellFounded, Zenon
<1>2. \A x, y \in Nat : <<y, x>> \in R <=> y < x
  BY DEF OpToRel
<1> HIDE DEF R
<1>3. PICK m \in T : \A y \in T : <<y, m>> \notin R
  BY <1>1, WFMin, Zenon
<1>4. ASSUME NEW n \in T PROVE m <= n
  <2>1. n \in Nat /\ m \in Nat /\ ~ (n < m)
    BY <1>2, <1>3, Zenon
  <2>2. QED BY <2>1
<1>5. QED
  BY <1>4, Zenon

\* Induction over the natural numbers.
LEMMA Induct ==
  ASSUME NEW T, 0 \in T, \A k \in Nat : k \in T => k + 1 \in T
  PROVE  Nat \subseteq T
<1> SUFFICES ASSUME Nat \ T # {} PROVE FALSE
  OBVIOUS
<1>1. PICK m \in Nat \ T : \A n \in Nat \ T : m <= n
  BY Least
<1>2. m - 1 \in Nat /\ ~ (m <= m - 1)
  BY <1>1
<1>3. m - 1 \in T
  BY <1>1, <1>2, Zenon
<1>4. m \in T
  <2>1. (m - 1) + 1 = m
    BY <1>1
  <2>2. QED BY <1>2, <1>3, <2>1, Zenon
<1>5. QED BY <1>1, <1>4

\* Of a range of natural numbers, those not above n.
LEMMA InductTo ==
  ASSUME NEW n \in Nat, NEW T, 0 \in T, \A k \in 0 .. n - 1 : k \in T => k + 1 \in T
  PROVE  n \in T
<1> DEFINE U == { k \in Nat : k <= n => k \in T }
<1>1. 0 \in U
  OBVIOUS
<1>2. \A k \in Nat : k \in U => k + 1 \in U
  OBVIOUS
<1> HIDE DEF U
<1>3. n \in U
  BY <1>1, <1>2, Induct
<1>4. QED BY <1>3 DEF U

\* What Max of a set is.
LEMMA MaxIs ==
  ASSUME NEW T, T \subseteq Int, NEW m \in T, \A x \in T : x <= m
  PROVE  Max(T) = m
<1>1. \A x \in T : m >= x
  OBVIOUS
<1>2. PICK M : M = Max(T)
  OBVIOUS
<1>3. M \in T /\ \A x \in T : M >= x
  BY <1>1, <1>2, Zenon DEF Max
<1>4. M >= m /\ m >= M /\ m \in Int /\ M \in Int
  BY <1>1, <1>3
<1>5. M = m
  BY <1>4
<1>6. QED BY <1>2, <1>5, Zenon

\* A set of natural numbers that has a bound has a greatest one.
LEMMA MaxExists ==
  ASSUME NEW n \in Nat, NEW T, T \subseteq 0 .. n, T # {}
  PROVE  Max(T) \in T /\ \A x \in T : x <= Max(T)
<1> DEFINE U == { n - x : x \in T }
<1>1. \A x \in T : x \in 0 .. n /\ n - x \in Nat
  OBVIOUS
<1>2. U \subseteq Nat /\ U # {}
  BY <1>1, Zenon
<1>3. PICK u \in U : \A x \in U : u <= x
  BY <1>2, Least
<1>4. PICK m \in T : u = n - m
  OBVIOUS
<1>5. \A x \in T : n - x \in U
  OBVIOUS
<1> HIDE DEF U
<1>6. \A x \in T : x <= m
  BY <1>3, <1>4, <1>5
<1>7. T \subseteq Int
  OBVIOUS
<1>8. Max(T) = m
  BY <1>6, <1>7, MaxIs
<1>9. QED BY <1>6, <1>8

-----------------------------------------------------------------------------
(* Sequences. *)

\* The elements lo to hi of a sequence, behind a first part or before a
\* last one of another.
LEMMA PartIs ==
  ASSUME NEW S, NEW s, s \in Seq(S), NEW lo, NEW hi, lo \in 1 .. Len(s) + 1, hi \in lo - 1 .. Len(s),
         NEW u, u = SubSeq(s, lo, hi)
  PROVE  u \in Seq(S) /\ Len(u) = 1 + hi - lo /\ \A k \in 1 .. 1 + hi - lo : u[k] = s[lo + k - 1]
<1>1. \A i \in lo .. hi : s[i] \in S
  OBVIOUS
<1>2. u \in Seq(S)
  BY <1>1, SubSeqProperties
<1>3. Len(u) = 1 + hi - lo
  <2>1. Len(u) = IF lo <= hi THEN 1 + hi - lo ELSE 0
    BY <1>1, SubSeqProperties
  <2>2. QED BY <2>1
<1>4. \A k \in 1 .. 1 + hi - lo : u[k] = s[lo + k - 1]
  BY <1>1, SubSeqProperties
<1>5. QED BY <1>2, <1>3, <1>4

\* Sequence u is s with e inserted at i, without element i, with e for it.
Inserted(u, s, i, e) ==
  /\ Len(u) = Len(s) + 1 /\ u[i] = e
  /\ \A k \in 1 .. i - 1 : u[k] = s[k]
  /\ \A k \in i + 1 .. Len(s) + 1 : u[k] = s[k - 1]

Without(u, s, i) ==
  /\ Len(u) = Len(s) - 1
  /\ \A k \in 1 .. i - 1 : u[k] = s[k]
  /\ \A k \in i .. Len(s) - 1 : u[k] = s[k + 1]

With(u, s, i, e) == Len(u) = Len(s) /\ \A k \in 1 .. Len(s) : u[k] = IF k = i THEN e ELSE s[k]

\* What InsertAt, RemoveAt and ReplaceAt do.
LEMMA InsertIs ==
  ASSUME NEW S, NEW s, s \in Seq(S), NEW i, i \in 1 .. Len(s) + 1, NEW e, e \in S,
         NEW u, u = InsertAt(s, i, e)
  PROVE  u \in Seq(S) /\ Inserted(u, s, i, e)
<1>1. PICK n : n = Len(s)
  OBVIOUS
<1>2. PICK a : a = SubSeq(s, 1, i - 1)
  OBVIOUS
<1>3. PICK b : b = SubSeq(s, i, n)
  OBVIOUS
<1>4. a \in Seq(S) /\ Len(a) = i - 1 /\ \A k \in 1 .. i - 1 : a[k] = s[k]
  <2>1. 1 \in 1 .. Len(s) + 1 /\ i - 1 \in 1 - 1 .. Len(s)
    OBVIOUS
  <2>2. PICK h : h = i - 1
    OBVIOUS
  <2>3. a \in Seq(S) /\ Len(a) = 1 + h - 1 /\ \A k \in 1 .. 1 + h - 1 : a[k] = s[1 + k - 1]
    BY <1>2, <2>1, <2>2, PartIs
  <2>4. QED BY <2>2, <2>3
<1>5. b \in Seq(S) /\ Len(b) = n + 1 - i /\ \A k \in 1 .. n + 1 - i : b[k] = s[i + k - 1]
  <2>1. n \in i - 1 .. Len(s)
    BY <1>1
  <2>2. b \in Seq(S) /\ Len(b) = 1 + n - i /\ \A k \in 1 .. 1 + n - i : b[k] = s[i + k - 1]
    BY <1>3, <2>1, PartIs
  <2>3. QED BY <1>1, <2>2
<1>6. u = a \o <<e>> \o b
  BY <1>1, <1>2, <1>3, Zenon DEF InsertAt
<1>7. n \in Nat /\ i \in 1 .. n + 1
  BY <1>1
<1>8. u \in Seq(S) /\ Len(u) = n + 1
  <2>1. <<e>> \in Seq(S) /\ Len(<<e>>) = 1
    OBVIOUS
  <2>2. PICK c : c = a \o <<e>>
    OBVIOUS
  <2>3. c \in Seq(S) /\ Len(c) = i
    BY <1>4, <1>7, <2>1, <2>2, ConcatProperties
  <2>4. u \in Seq(S) /\ Len(u) = Len(c) + Len(b)
    BY <1>5, <1>6, <2>2, <2>3, ConcatProperties
  <2>5. QED BY <1>5, <1>7, <2>3, <2>4
<1>9. u[i] = e
  <2>1. i = Len(a) + 1
    BY <1>4, <1>7
  <2>2. PICK c : c = a \o <<e>>
    OBVIOUS
  <2>3. c \in Seq(S) /\ Len(c) = Len(a) + 1 /\ c[Len(a) + 1] = e
    BY <1>4, <2>2
  <2>4. u = c \o b /\ Len(a) + 1 \in 1 .. Len(c)
    BY <1>4, <1>6, <1>7, <2>2, <2>3
  <2>5. u[Len(a) + 1] = c[Len(a) + 1]
    BY ONLY <1>5, <2>3, <2>4
  <2>6. QED BY <2>1, <2>3, <2>5, Zenon
<1>10. \A k \in 1 .. i - 1 : u[k] = s[k]
  BY <1>4, <1>5, <1>6, <1>7
<1>11. ASSUME NEW k \in i + 1 .. n + 1 PROVE u[k] = s[k - 1]
  <2>1. u[k] = b[k - i]
    <3>1. PICK c : c = a \o <<e>>
      OBVIOUS
    <3>2. c \in Seq(S) /\ Len(c) = i
      BY <1>4, <1>7, <3>1
    <3>3. u = c \o b
      BY <1>6, <3>1, Zenon
    <3>4. Len(c) < k /\ k <= Len(c) + Len(b)
      BY <1>5, <1>7, <3>2
    <3>5. u[k] = b[k - Len(c)]
      BY ONLY <1>5, <1>7, <3>2, <3>3, <3>4
    <3>6. QED BY <3>2, <3>5, Zenon
  <2>2. b[k - i] = s[k - 1]
    BY <1>5, <1>7
  <2>3. QED BY <2>1, <2>2, Zenon
<1>12. QED BY <1>1, <1>8, <1>9, <1>10, <1>11, Zenon DEF Inserted

LEMMA RemoveIs ==
  ASSUME NEW S, NEW s, s \in Seq(S), NEW i, i \in 1 .. Len(s), NEW u, u = RemoveAt(s, i)
  PROVE  u \in Seq(S) /\ Without(u, s, i)
<1>1. PICK n : n = Len(s)
  OBVIOUS
<1>2. PICK a : a = SubSeq(s, 1, i - 1)
  OBVIOUS
<1>3. PICK b : b = SubSeq(s, i + 1, n)
  OBVIOUS
<1>4. a \in Seq(S) /\ Len(a) = i - 1 /\ \A k \in 1 .. i - 1 : a[k] = s[k]
  <2>1. 1 \in 1 .. Len(s) + 1 /\ i - 1 \in 1 - 1 .. Len(s)
    OBVIOUS
  <2>2. PICK h : h = i - 1
    OBVIOUS
  <2>3. a \in Seq(S) /\ Len(a) = 1 + h - 1 /\ \A k \in 1 .. 1 + h - 1 : a[k] = s[1 + k - 1]
    BY <1>2, <2>1, <2>2, PartIs
  <2>4. QED BY <2>2, <2>3
<1>5. b \in Seq(S) /\ Len(b) = n - i /\ \A k \in 1 .. n - i : b[k] = s[i + k]
  <2>1. i + 1 \in 1 .. Len(s) + 1 /\ n \in (i + 1) - 1 .. Len(s)
    BY <1>1
  <2>2. PICK h : h = i + 1
    OBVIOUS
  <2>3. b \in Seq(S) /\ Len(b) = 1 + n - h /\ \A k \in 1 .. 1 + n - h : b[k] = s[h + k - 1]
    BY <1>3, <2>1, <2>2, PartIs
  <2>4. 1 + n - h = n - i /\ \A k \in 1 .. n - i : h + k - 1 = i + k
    BY <1>1, <2>2
  <2>5. QED BY <2>3, <2>4, Zenon
<1>6. u = a \o b
  BY <1>1, <1>2, <1>3, Zenon DEF RemoveAt
<1>7. n \in Nat /\ i \in 1 .. n
  BY <1>1
<1>8. u \in Seq(S) /\ Len(u) = n - 1
  <2>1. u \in Seq(S) /\ Len(u) = Len(a) + Len(b)
    BY <1>4, <1>5, <1>6, ConcatProperties, Zenon
  <2>2. QED BY <1>4, <1>5, <1>7, <2>1
<1>9. \A k \in 1 .. i - 1 : u[k] = s[k]
  BY <1>4, <1>5, <1>6, <1>7
<1>10. ASSUME NEW k \in i .. n - 1 PROVE u[k] = s[k + 1]
  <2>1. u[k] = b[k - i + 1]
    BY <1>4, <1>5, <1>6, <1>7
  <2>2. b[k - i + 1] = s[k + 1]
    <3>1. PICK h : h = k - i + 1
      OBVIOUS
    <3>2. h \in 1 .. n - i /\ i + h = k + 1
      BY <1>7, <3>1
    <3>3. b[h] = s[k + 1]
      BY <1>5, <3>2, Zenon
    <3>4. QED BY <3>1, <3>3, Zenon
  <2>3. QED BY <2>1, <2>2, Zenon
<1>11. QED BY <1>1, <1>8, <1>9, <1>10, Zenon DEF Without

LEMMA ReplaceIs ==
  ASSUME NEW S, NEW s, s \in Seq(S), NEW i, i \in 1 .. Len(s), NEW e, e \in S, NEW u, u = ReplaceAt(s, i, e)
  PROVE  u \in Seq(S) /\ With(u, s, i, e)
<1>1. u = [s EXCEPT ![i] = e]
  BY Zenon DEF ReplaceAt
<1>2. QED BY <1>1 DEF With

-----------------------------------------------------------------------------
(* The lines of a window. *)

\* What the proofs use of the constants.
LEMMA Constants ==
  /\ length \in Nat \ {0} /\ MaxLines \in Nat \ {0} /\ MaxCount \in Nat \ {0}
  /\ TILDE \notin Text /\ TILDE \notin Texts
BY JournalAssumption DEF Texts

\* The parts of a line.
LEMMA LineIs ==
  ASSUME NEW l \in Line
  PROVE  /\ l = [key |-> l.key, text |-> l.text, attributes |-> l.attributes]
         /\ l.key \in Nat /\ l.key \in Key /\ l.text \in Texts \cup {TILDE}
         /\ l.attributes = {} \/ l.attributes = {"FAKELINE"}
BY Constants DEF Line, Key

\* KeyAt finds a line of that key, if there is one.
LEMMA KeyAtIs ==
  ASSUME NEW ls \in Seq(Line), NEW k
  PROVE  \/ KeyAt(ls, k) = 0 /\ \A j \in 1 .. Len(ls) : ls[j].key # k
         \/ KeyAt(ls, k) \in 1 .. Len(ls) /\ ls[KeyAt(ls, k)].key = k
<1> DEFINE T == { j \in 1 .. Len(ls) : ls[j].key = k }
<1>1. KeyAt(ls, k) = IF T # {} THEN Max(T) ELSE 0
  BY Zenon DEF KeyAt, SelectLastInSeq
<1>2. CASE T = {}
  <2>1. \A j \in 1 .. Len(ls) : ls[j].key # k
    BY <1>2
  <2>2. QED BY <1>1, <1>2, <2>1, Zenon
<1>3. CASE T # {}
  <2>1. T \subseteq 0 .. Len(ls) /\ Len(ls) \in Nat
    OBVIOUS
  <2>2. Max(T) \in T
    BY <1>3, <2>1, MaxExists, Zenon
  <2>3. KeyAt(ls, k) = Max(T)
    BY <1>1, <1>3, Zenon
  <2>4. KeyAt(ls, k) \in T
    BY <2>2, <2>3, Zenon
  <2>5. QED BY <2>4
<1>4. QED BY <1>2, <1>3, Zenon

\* InsPos is the place of a new line of that key: those before it have at
\* most this key, those from there on a higher one.
LEMMA InsPosIs ==
  ASSUME NEW ls \in Seq(Line), Sorted(ls), NEW k \in Key
  PROVE  /\ InsPos(ls, k) \in 1 .. Len(ls) + 1
         /\ \A j \in 1 .. Len(ls) : ls[j].key <= k <=> j < InsPos(ls, k)
<1> DEFINE T == { j \in 1 .. Len(ls) : ls[j].key <= k }
<1>1. PICK i : i = InsPos(ls, k)
  OBVIOUS
<1>2. i = 1 + (IF T # {} THEN Max(T) ELSE 0)
  BY <1>1, Zenon DEF InsPos, SelectLastInSeq
<1>3. \A j \in 1 .. Len(ls) : ls[j] \in Line /\ ls[j].key \in Nat
  <2>1. \A j \in 1 .. Len(ls) : ls[j] \in Line
    OBVIOUS
  <2>2. QED BY <2>1, LineIs, Zenon
<1>4. k \in Nat /\ Len(ls) \in Nat
  BY Constants DEF Key
<1>5. i \in 1 .. Len(ls) + 1 /\ \A j \in 1 .. Len(ls) : ls[j].key <= k <=> j < i
  <2>1. CASE T = {}
    <3>1. i = 1
      BY <1>2, <2>1
    <3>2. \A j \in 1 .. Len(ls) : ~ (ls[j].key <= k)
      BY <2>1
    <3>3. QED BY <1>4, <3>1, <3>2
  <2>2. CASE T # {}
    <3>1. T \subseteq 0 .. Len(ls)
      OBVIOUS
    <3>2. PICK m : m = Max(T)
      OBVIOUS
    <3>3. m \in T /\ \A j \in T : j <= m
      BY <1>4, <2>2, <3>1, <3>2, MaxExists, Zenon
    <3>4. i = 1 + m
      BY <1>2, <2>2, <3>2, Zenon
    <3>5. m \in 1 .. Len(ls) /\ ls[m].key <= k
      BY <3>3
    <3>6. ASSUME NEW j \in 1 .. Len(ls) PROVE ls[j].key <= k <=> j < i
      <4>1. CASE j <= m
        <5>1. j = m \/ ls[j].key < ls[m].key
          BY <3>5, <4>1 DEF Sorted
        <5>2. ls[j].key \in Nat /\ ls[m].key \in Nat
          BY <1>3, <3>5, Zenon
        <5>3. ls[j].key <= k
          BY <1>4, <3>5, <5>1, <5>2
        <5>4. QED BY <3>4, <3>5, <4>1, <5>3
      <4>2. CASE ~ (j <= m)
        <5>1. j \notin T
          BY <3>3, <4>2, Zenon
        <5>2. ~ (ls[j].key <= k)
          BY <5>1
        <5>3. ~ (j < i)
          BY <3>4, <3>5, <4>2
        <5>4. QED BY <5>2, <5>3
      <4>3. QED BY <4>1, <4>2
    <3>7. i \in 1 .. Len(ls) + 1
      BY <1>4, <3>4, <3>5
    <3>8. QED BY <3>6, <3>7, Zenon
  <2>3. QED BY <2>1, <2>2, Zenon
<1>6. QED BY <1>1, <1>5, Zenon

\* The lines r are those of ls, but the one of key k, and those in N.
Changed(r, ls, k, N) ==
  /\ r \in Seq(Line) /\ Sorted(r)
  /\ \A j \in 1 .. Len(r) :
       r[j] \in N \/ (r[j].key # k /\ \E i \in 1 .. Len(ls) : r[j] = ls[i])

LEMMA SortedIs ==
  ASSUME NEW ls, NEW i, NEW j, Sorted(ls), i \in 1 .. Len(ls), j \in 1 .. Len(ls), i < j
  PROVE  ls[i].key < ls[j].key
BY Zenon DEF Sorted

\* A line put in place of one of its key.
LEMMA Replaced ==
  ASSUME NEW ls \in Seq(Line), Sorted(ls), NEW l \in Line, NEW i \in 1 .. Len(ls), ls[i].key = l.key
  PROVE  Changed(ReplaceAt(ls, i, l), ls, l.key, {l})
<1>1. PICK r : r = ReplaceAt(ls, i, l)
  OBVIOUS
<1>2. r \in Seq(Line) /\ Len(r) = Len(ls) /\ \A k \in 1 .. Len(ls) : r[k] = IF k = i THEN l ELSE ls[k]
  <2>1. r \in Seq(Line) /\ With(r, ls, i, l)
    BY <1>1, ReplaceIs
  <2>2. QED BY <2>1, Zenon DEF With
<1>3. \A j \in 1 .. Len(ls) : ls[j].key \in Nat
  <2>1. \A j \in 1 .. Len(ls) : ls[j] \in Line
    OBVIOUS
  <2>2. QED BY <2>1, LineIs, Zenon
<1>4. \A k \in 1 .. Len(ls) : r[k].key = ls[k].key
  BY <1>2, Zenon
<1>5. Sorted(r)
  BY <1>2, <1>4 DEF Sorted
<1>6. ASSUME NEW j \in 1 .. Len(r) PROVE r[j] \in {l} \/ (r[j].key # l.key /\ \E h \in 1 .. Len(ls) : r[j] = ls[h])
  <2>1. CASE j = i
    BY <1>2, <2>1
  <2>2. CASE j # i
    <3>1. r[j] = ls[j] /\ j \in 1 .. Len(ls)
      BY <1>2, <2>2
    <3>2. i < j \/ j < i
      BY <2>2, <3>1
    <3>3. ls[i].key < ls[j].key \/ ls[j].key < ls[i].key
      BY <3>1, <3>2, SortedIs, Zenon
    <3>4. ls[j].key # l.key
      BY <1>3, <3>1, <3>3
    <3>5. QED BY <3>1, <3>4, Zenon
  <2>3. QED BY <2>1, <2>2, Zenon
<1>7. QED BY <1>1, <1>2, <1>5, <1>6, Zenon DEF Changed

\* A line of a new key is inserted in the place of its key.
LEMMA Above ==
  ASSUME NEW ls \in Seq(Line), Sorted(ls), NEW l \in Line, \A j \in 1 .. Len(ls) : ls[j].key # l.key
  PROVE  Changed(InsAbove(ls, l), ls, l.key, {l})
<1>1. l.key \in Key /\ l.key \in Nat
  BY LineIs
<1>2. PICK i : i = InsPos(ls, l.key)
  OBVIOUS
<1>3. i \in 1 .. Len(ls) + 1 /\ \A j \in 1 .. Len(ls) : ls[j].key <= l.key <=> j < i
  BY <1>1, <1>2, InsPosIs, Zenon
<1>4. PICK r : r = InsertAt(ls, i, l)
  OBVIOUS
<1>5. /\ r \in Seq(Line) /\ Len(r) = Len(ls) + 1 /\ r[i] = l
      /\ \A k \in 1 .. i - 1 : r[k] = ls[k]
      /\ \A k \in i + 1 .. Len(ls) + 1 : r[k] = ls[k - 1]
  <2>1. r \in Seq(Line) /\ Inserted(r, ls, i, l)
    BY <1>3, <1>4, InsertIs
  <2>2. QED BY <2>1, Zenon DEF Inserted
<1>6. \A j \in 1 .. Len(ls) : ls[j].key \in Nat
  <2>1. \A j \in 1 .. Len(ls) : ls[j] \in Line
    OBVIOUS
  <2>2. QED BY <2>1, LineIs, Zenon
<1>7. \A k \in 1 .. i - 1 : k \in 1 .. Len(ls) /\ r[k].key < l.key
  <2>1. ASSUME NEW k \in 1 .. i - 1 PROVE k \in 1 .. Len(ls) /\ r[k].key < l.key
    <3>1. k \in 1 .. Len(ls) /\ k < i
      BY <1>3
    <3>2. ls[k].key <= l.key /\ ls[k].key # l.key /\ ls[k].key \in Nat
      BY <1>3, <1>6, <3>1, Zenon
    <3>3. ls[k].key < l.key
      BY <1>1, <3>2
    <3>4. QED BY <1>5, <3>1, <3>3, Zenon
  <2>2. QED BY <2>1, Zenon
<1>8. \A k \in i + 1 .. Len(ls) + 1 : k - 1 \in 1 .. Len(ls) /\ l.key < r[k].key
  <2>1. ASSUME NEW k \in i + 1 .. Len(ls) + 1 PROVE k - 1 \in 1 .. Len(ls) /\ l.key < r[k].key
    <3>1. k - 1 \in 1 .. Len(ls) /\ ~ (k - 1 < i)
      BY <1>3
    <3>2. ~ (ls[k - 1].key <= l.key) /\ ls[k - 1].key \in Nat
      BY <1>3, <1>6, <3>1, Zenon
    <3>3. l.key < ls[k - 1].key
      BY <1>1, <3>2
    <3>4. QED BY <1>5, <3>1, <3>3, Zenon
  <2>2. QED BY <2>1, Zenon
<1>9. ASSUME NEW a \in 1 .. Len(r), NEW b \in 1 .. Len(r), a < b PROVE r[a].key < r[b].key
  <2>1. a \in Nat /\ b \in Nat /\ i \in Nat /\ Len(r) = Len(ls) + 1 /\ Len(ls) \in Nat
    BY <1>3, <1>5
  <2>2. CASE b < i
    <3>1. a \in 1 .. Len(ls) /\ b \in 1 .. Len(ls) /\ a \in 1 .. i - 1 /\ b \in 1 .. i - 1
      BY <1>3, <1>9, <2>1, <2>2
    <3>2. ls[a].key < ls[b].key
      BY <1>9, <3>1, SortedIs, Zenon
    <3>3. QED BY <1>5, <3>1, <3>2, Zenon
  <2>3. CASE b = i
    <3>1. a \in 1 .. i - 1
      BY <1>9, <2>1, <2>3
    <3>2. QED BY <1>5, <1>7, <2>3, <3>1, Zenon
  <2>4. CASE i < b /\ a = i
    <3>1. b \in i + 1 .. Len(ls) + 1
      BY <2>1, <2>4
    <3>2. QED BY <1>5, <1>8, <2>4, <3>1, Zenon
  <2>5. CASE i < b /\ a < i
    <3>1. a \in 1 .. i - 1 /\ b \in i + 1 .. Len(ls) + 1
      BY <2>1, <2>5
    <3>2. r[a].key < l.key /\ l.key < r[b].key /\ r[a] = ls[a] /\ r[b] = ls[b - 1]
      BY <1>5, <1>7, <1>8, <3>1, Zenon
    <3>3. ls[a].key \in Nat /\ ls[b - 1].key \in Nat
      BY <1>6, <1>7, <1>8, <3>1, Zenon
    <3>4. QED BY <1>1, <3>2, <3>3
  <2>6. CASE i < a
    <3>1. a \in i + 1 .. Len(ls) + 1 /\ b \in i + 1 .. Len(ls) + 1
      BY <1>9, <2>1, <2>6
    <3>2. a - 1 \in 1 .. Len(ls) /\ b - 1 \in 1 .. Len(ls) /\ a - 1 < b - 1
      BY <1>9, <1>3, <2>1, <3>1
    <3>3. ls[a - 1].key < ls[b - 1].key
      BY <3>2, SortedIs, Zenon
    <3>4. QED BY <1>5, <3>1, <3>3, Zenon
  <2>7. b < i \/ b = i \/ (i < b /\ a = i) \/ (i < b /\ a < i) \/ i < a
    BY <2>1
  <2>8. QED BY <2>2, <2>3, <2>4, <2>5, <2>6, <2>7, Zenon
<1>10. Sorted(r)
  BY <1>9, Zenon DEF Sorted
<1>11. ASSUME NEW j \in 1 .. Len(r) PROVE r[j] \in {l} \/ (r[j].key # l.key /\ \E h \in 1 .. Len(ls) : r[j] = ls[h])
  <2>1. CASE j = i
    BY <1>5, <2>1
  <2>2. CASE j \in 1 .. i - 1
    <3>1. r[j] = ls[j] /\ j \in 1 .. Len(ls)
      BY <1>5, <1>7, <2>2, Zenon
    <3>2. QED BY <3>1, Zenon
  <2>3. CASE j \in i + 1 .. Len(ls) + 1
    <3>1. r[j] = ls[j - 1] /\ j - 1 \in 1 .. Len(ls)
      BY <1>5, <1>8, <2>3, Zenon
    <3>2. QED BY <3>1, Zenon
  <2>4. j = i \/ j \in 1 .. i - 1 \/ j \in i + 1 .. Len(ls) + 1
    BY <1>3, <1>5
  <2>5. QED BY <2>1, <2>2, <2>3, <2>4, Zenon
<1>12. InsAbove(ls, l) = r
  BY <1>2, <1>4, Zenon DEF InsAbove
<1>13. r \in Seq(Line)
  BY <1>5, Zenon
<1>14. Changed(r, ls, l.key, {l})
  BY <1>10, <1>11, <1>13, Zenon DEF Changed
<1>15. QED BY <1>12, <1>14, Zenon

\* A line removed.
LEMMA Removed ==
  ASSUME NEW ls \in Seq(Line), Sorted(ls), NEW i \in 1 .. Len(ls)
  PROVE  Changed(RemoveAt(ls, i), ls, ls[i].key, {})
<1>1. PICK r : r = RemoveAt(ls, i)
  OBVIOUS
<1>2. /\ r \in Seq(Line) /\ Len(r) = Len(ls) - 1
      /\ \A k \in 1 .. i - 1 : r[k] = ls[k]
      /\ \A k \in i .. Len(ls) - 1 : r[k] = ls[k + 1]
  <2>1. r \in Seq(Line) /\ Without(r, ls, i)
    BY <1>1, RemoveIs
  <2>2. QED BY <2>1, Zenon DEF Without
<1>3. \A j \in 1 .. Len(ls) : ls[j].key \in Nat
  <2>1. \A j \in 1 .. Len(ls) : ls[j] \in Line
    OBVIOUS
  <2>2. QED BY <2>1, LineIs, Zenon
<1>4. PICK p : p = [k \in 1 .. Len(r) |-> IF k < i THEN k ELSE k + 1]
  OBVIOUS
<1>5. \A k \in 1 .. Len(r) : p[k] \in 1 .. Len(ls) /\ p[k] # i /\ r[k] = ls[p[k]]
  <2>1. ASSUME NEW k \in 1 .. Len(r) PROVE p[k] \in 1 .. Len(ls) /\ p[k] # i /\ r[k] = ls[p[k]]
    <3>1. CASE k < i
      <4>1. p[k] = k /\ k \in 1 .. i - 1 /\ k \in 1 .. Len(ls)
        BY <1>4, <3>1
      <4>2. k # i
        BY <3>1
      <4>3. QED BY <1>2, <4>1, <4>2, Zenon
    <3>2. CASE ~ (k < i)
      <4>1. p[k] = k + 1 /\ k \in i .. Len(ls) - 1 /\ k + 1 \in 1 .. Len(ls) /\ k + 1 # i
        BY <1>2, <1>4, <3>2
      <4>2. QED BY <1>2, <4>1, Zenon
    <3>3. QED BY <3>1, <3>2, Zenon
  <2>2. QED BY <2>1, Zenon
<1>6. ASSUME NEW a \in 1 .. Len(r), NEW b \in 1 .. Len(r), a < b PROVE r[a].key < r[b].key
  <2>1. p[a] < p[b]
    BY <1>4, <1>6
  <2>2. p[a] \in 1 .. Len(ls) /\ p[b] \in 1 .. Len(ls)
    BY <1>5, Zenon
  <2>3. ls[p[a]].key < ls[p[b]].key
    BY <2>1, <2>2, SortedIs, Zenon
  <2>4. QED BY <1>5, <2>3, Zenon
<1>7. Sorted(r)
  BY <1>6, Zenon DEF Sorted
<1>8. ASSUME NEW j \in 1 .. Len(r) PROVE r[j].key # ls[i].key /\ \E h \in 1 .. Len(ls) : r[j] = ls[h]
  <2>1. PICK h \in 1 .. Len(ls) : h # i /\ r[j] = ls[h]
    BY <1>5, Zenon
  <2>2. i < h \/ h < i
    BY <2>1
  <2>3. ls[i].key < ls[h].key \/ ls[h].key < ls[i].key
    BY <2>2, SortedIs, Zenon
  <2>4. ls[h].key # ls[i].key
    BY <1>3, <2>3
  <2>5. QED BY <2>1, <2>4, Zenon
<1>9. QED BY <1>1, <1>2, <1>7, <1>8, Zenon DEF Changed

-----------------------------------------------------------------------------
(* The loops: the terminal's over the messages, and those of CreateLine,   *)
(* CRequestLines (for the keys in c), DeletePad and TermServe.             *)

Turn(loop, c, m, e) ==
  CASE loop = "PadOp" -> PadOp(m, e)
    [] loop = "FakeLine" -> FakeLine(m, e)
    [] loop = "Run" -> (IF e \in c THEN Run(m, e) ELSE m)
    [] loop = "DelLineOf" -> DelLineOf(m, e)
    [] loop = "linereq" -> linereq(m, e)

\* h is the recursive function of FoldLeft.
Folding(h, loop, c, m, s, n) ==
  h = [x \in SUBSET (1 .. n) |-> IF x = {} THEN m ELSE Turn(loop, c, h[x \ {Max(x)}], s[Max(x)])]

\* The function that FoldLeft chooses exists, so that choosing it defines it.
LEMMA FoldingExists ==
  ASSUME NEW loop, NEW c, NEW m, NEW s, NEW n \in Nat
  PROVE  \E h : Folding(h, loop, c, m, s, n)
<1> DEFINE T == { k \in Nat : \E h : Folding(h, loop, c, m, s, k) }
<1>1. 0 \in T
  <2> DEFINE h == [x \in {{}} |-> m]
  <2>1. SUBSET (1 .. 0) = {{}}
    OBVIOUS
  <2>2. h = [x \in SUBSET (1 .. 0) |-> IF x = {} THEN m ELSE Turn(loop, c, h[x \ {Max(x)}], s[Max(x)])]
    BY <2>1
  <2>3. Folding(h, loop, c, m, s, 0)
    BY <2>2, Zenon DEF Folding
  <2>4. QED BY <2>3
<1>2. ASSUME NEW k \in Nat, NEW h, Folding(h, loop, c, m, s, k)
      PROVE  \E g : Folding(g, loop, c, m, s, k + 1)
  <2> DEFINE g == [x \in SUBSET (1 .. k + 1) |->
                     IF k + 1 \in x THEN Turn(loop, c, h[x \ {k + 1}], s[k + 1]) ELSE h[x]]
  <2>1. ASSUME NEW x \in SUBSET (1 .. k + 1)
        PROVE  g[x] = IF x = {} THEN m ELSE Turn(loop, c, g[x \ {Max(x)}], s[Max(x)])
    <3>1. CASE k + 1 \in x
      <4>1. x \subseteq Int /\ \A y \in x : y <= k + 1
        OBVIOUS
      <4>2. Max(x) = k + 1
        BY <3>1, <4>1, MaxIs
      <4>3. x \ {k + 1} \in SUBSET (1 .. k + 1) /\ k + 1 \notin x \ {k + 1}
        OBVIOUS
      <4>4. g[x \ {k + 1}] = h[x \ {k + 1}]
        BY <4>3, Zenon
      <4>5. g[x] = Turn(loop, c, h[x \ {k + 1}], s[k + 1])
        BY <3>1, Zenon
      <4>6. QED BY <3>1, <4>2, <4>4, <4>5, Zenon
    <3>2. CASE k + 1 \notin x
      <4>1. x \in SUBSET (1 .. k)
        BY <3>2
      <4>2. h[x] = IF x = {} THEN m ELSE Turn(loop, c, h[x \ {Max(x)}], s[Max(x)])
        BY <1>2, <4>1, Zenon DEF Folding
      <4>3. x \ {Max(x)} \in SUBSET (1 .. k + 1) /\ k + 1 \notin x \ {Max(x)}
        BY <3>2
      <4>4. g[x \ {Max(x)}] = h[x \ {Max(x)}]
        BY <4>3, Zenon
      <4>5. g[x] = h[x]
        BY <3>2, Zenon
      <4>6. QED BY <4>2, <4>4, <4>5, Zenon
    <3>3. QED BY <3>1, <3>2, Zenon
  <2>2. g = [x \in SUBSET (1 .. k + 1) |-> g[x]]
    OBVIOUS
  <2> HIDE DEF g
  <2>3. [x \in SUBSET (1 .. k + 1) |-> g[x]]
          = [x \in SUBSET (1 .. k + 1) |-> IF x = {} THEN m ELSE Turn(loop, c, g[x \ {Max(x)}], s[Max(x)])]
    BY <2>1, Zenon
  <2>4. Folding(g, loop, c, m, s, k + 1)
    BY <2>2, <2>3, Zenon DEF Folding
  <2>5. QED BY <2>4, Zenon
<1>3. \A k \in Nat : k \in T => k + 1 \in T
  BY <1>2
<1> HIDE DEF T
<1>4. n \in T
  BY <1>1, <1>3, Induct
<1>5. QED BY <1>4 DEF T

\* g tells where the loop is after each turn.
Turns(g, loop, c, m, s) ==
  /\ g[0] = m
  /\ \A i \in 1 .. Len(s) : g[i] = Turn(loop, c, g[i - 1], s[i])

\* Its values on the ranges 1 .. i are the turns of the loop.
LEMMA FoldingTurns ==
  ASSUME NEW loop, NEW c, NEW m, NEW s, Len(s) \in Nat, NEW h, Folding(h, loop, c, m, s, Len(s))
  PROVE  \E g : Turns(g, loop, c, m, s) /\ g[Len(s)] = h[1 .. Len(s)]
<1> DEFINE n == Len(s)
           g == [i \in 0 .. n |-> h[1 .. i]]
<1>1. g[0] = m
  <2>1. 1 .. 0 = {} /\ {} \in SUBSET (1 .. n) /\ 0 \in 0 .. n
    OBVIOUS
  <2>2. h[{}] = m
    BY <2>1, Zenon DEF Folding
  <2>3. g[0] = h[1 .. 0]
    BY <2>1, Zenon
  <2>4. QED BY <2>1, <2>2, <2>3, Zenon
<1>2. ASSUME NEW i \in 1 .. n PROVE g[i] = Turn(loop, c, g[i - 1], s[i])
  <2>1. 1 .. i \in SUBSET (1 .. n) /\ 1 .. i # {} /\ i \in 1 .. i /\ 1 .. i \subseteq Int
    OBVIOUS
  <2>2. \A y \in 1 .. i : y <= i
    OBVIOUS
  <2>3. Max(1 .. i) = i
    BY <2>1, <2>2, MaxIs
  <2>4. (1 .. i) \ {i} = 1 .. i - 1
    OBVIOUS
  <2>5. h[1 .. i] = Turn(loop, c, h[1 .. i - 1], s[i])
    <3>1. h[1 .. i] = IF 1 .. i = {} THEN m ELSE Turn(loop, c, h[(1 .. i) \ {Max(1 .. i)}], s[Max(1 .. i)])
      BY <2>1, Zenon DEF Folding
    <3>2. QED BY <2>1, <2>3, <2>4, <3>1, Zenon
  <2>6. i \in 0 .. n /\ i - 1 \in 0 .. n
    OBVIOUS
  <2>7. g[i] = h[1 .. i] /\ g[i - 1] = h[1 .. i - 1]
    BY <2>6, Zenon
  <2>8. QED BY <2>5, <2>7, Zenon
<1>3. g[n] = h[1 .. n]
  <2>1. n \in 0 .. n
    OBVIOUS
  <2>2. QED BY <2>1, Zenon
<1> HIDE DEF g
<1>4. QED BY <1>1, <1>2, <1>3, Zenon DEF Turns

\* Each of the loops, turn by turn.
LEMMA PadOpTurns ==
  ASSUME NEW m, NEW s, Len(s) \in Nat, DOMAIN s = 1 .. Len(s)
  PROVE  \E g : Turns(g, "PadOp", {}, m, s) /\ FoldLeft(PadOp, m, s) = g[Len(s)]
<1>1. PICK h : Folding(h, "PadOp", {}, m, s, Len(s)) /\ FoldLeft(PadOp, m, s) = h[1 .. Len(s)]
  <2> DEFINE h == CHOOSE h : Folding(h, "PadOp", {}, m, s, Len(s))
  <2>1. Folding(h, "PadOp", {}, m, s, Len(s))
    BY FoldingExists, Zenon
  <2>2. FoldLeft(PadOp, m, s) = h[1 .. Len(s)]
    BY Zenon DEF FoldLeft, MapThenFoldSet, Folding, Turn
  <2>3. QED BY <2>1, <2>2, Zenon
<1>2. PICK g : Turns(g, "PadOp", {}, m, s) /\ g[Len(s)] = h[1 .. Len(s)]
  BY <1>1, FoldingTurns
<1>3. QED BY <1>1, <1>2, Zenon

\* The turns of CreateLine, DeletePad, TermServe and CRequestLines.
LEMMA FakeLineTurns ==
  ASSUME NEW m, NEW s, Len(s) \in Nat, DOMAIN s = 1 .. Len(s)
  PROVE  \E g : Turns(g, "FakeLine", {}, m, s) /\ FoldLeft(FakeLine, m, s) = g[Len(s)]
<1>1. PICK h : Folding(h, "FakeLine", {}, m, s, Len(s)) /\ FoldLeft(FakeLine, m, s) = h[1 .. Len(s)]
  <2> DEFINE h == CHOOSE h : Folding(h, "FakeLine", {}, m, s, Len(s))
  <2>1. Folding(h, "FakeLine", {}, m, s, Len(s))
    BY FoldingExists, Zenon
  <2>2. FoldLeft(FakeLine, m, s) = h[1 .. Len(s)]
    BY Zenon DEF FoldLeft, MapThenFoldSet, Folding, Turn
  <2>3. QED BY <2>1, <2>2, Zenon
<1>2. PICK g : Turns(g, "FakeLine", {}, m, s) /\ g[Len(s)] = h[1 .. Len(s)]
  BY <1>1, FoldingTurns
<1>3. QED BY <1>1, <1>2, Zenon

LEMMA DelLineTurns ==
  ASSUME NEW m, NEW s, Len(s) \in Nat, DOMAIN s = 1 .. Len(s)
  PROVE  \E g : Turns(g, "DelLineOf", {}, m, s) /\ FoldLeft(DelLineOf, m, s) = g[Len(s)]
<1>1. PICK h : Folding(h, "DelLineOf", {}, m, s, Len(s)) /\ FoldLeft(DelLineOf, m, s) = h[1 .. Len(s)]
  <2> DEFINE h == CHOOSE h : Folding(h, "DelLineOf", {}, m, s, Len(s))
  <2>1. Folding(h, "DelLineOf", {}, m, s, Len(s))
    BY FoldingExists, Zenon
  <2>2. FoldLeft(DelLineOf, m, s) = h[1 .. Len(s)]
    BY Zenon DEF FoldLeft, MapThenFoldSet, Folding, Turn
  <2>3. QED BY <2>1, <2>2, Zenon
<1>2. PICK g : Turns(g, "DelLineOf", {}, m, s) /\ g[Len(s)] = h[1 .. Len(s)]
  BY <1>1, FoldingTurns
<1>3. QED BY <1>1, <1>2, Zenon

LEMMA linereqTurns ==
  ASSUME NEW m, NEW s, Len(s) \in Nat, DOMAIN s = 1 .. Len(s)
  PROVE  \E g : Turns(g, "linereq", {}, m, s) /\ FoldLeft(linereq, m, s) = g[Len(s)]
<1>1. PICK h : Folding(h, "linereq", {}, m, s, Len(s)) /\ FoldLeft(linereq, m, s) = h[1 .. Len(s)]
  <2> DEFINE h == CHOOSE h : Folding(h, "linereq", {}, m, s, Len(s))
  <2>1. Folding(h, "linereq", {}, m, s, Len(s))
    BY FoldingExists, Zenon
  <2>2. FoldLeft(linereq, m, s) = h[1 .. Len(s)]
    BY Zenon DEF FoldLeft, MapThenFoldSet, Folding, Turn
  <2>3. QED BY <2>1, <2>2, Zenon
<1>2. PICK g : Turns(g, "linereq", {}, m, s) /\ g[Len(s)] = h[1 .. Len(s)]
  BY <1>1, FoldingTurns
<1>3. QED BY <1>1, <1>2, Zenon

LEMMA RunTurns ==
  ASSUME NEW K, NEW s, Len(s) \in Nat, DOMAIN s = 1 .. Len(s)
  PROVE  \E g : Turns(g, "Run", K, <<>>, s) /\ Runs(K, s) = g[Len(s)]
<1>1. PICK no : no = <<>>
  OBVIOUS
<1>2. PICK h : Folding(h, "Run", K, no, s, Len(s)) /\ Runs(K, s) = h[1 .. Len(s)]
  <2> DEFINE h == CHOOSE h : Folding(h, "Run", K, no, s, Len(s))
  <2>1. Folding(h, "Run", K, no, s, Len(s))
    BY FoldingExists, Zenon
  <2>2. Runs(K, s) = h[1 .. Len(s)]
    BY <1>1, Zenon DEF Runs, FoldLeft, MapThenFoldSet, Folding, Turn
  <2>3. QED BY <2>1, <2>2, Zenon
<1>3. PICK g : Turns(g, "Run", K, no, s) /\ g[Len(s)] = h[1 .. Len(s)]
  <2>1. Folding(h, "Run", K, no, s, Len(s))
    BY <1>2, Zenon
  <2>2. QED BY <2>1, FoldingTurns
<1>4. QED BY <1>1, <1>2, <1>3, Zenon

-----------------------------------------------------------------------------
(* What a message does to the window. *)

\* A loop from lo to hi takes each number between them in its turn.
LEMMA UpToIs ==
  ASSUME NEW lo \in Nat, NEW hi \in Nat, lo <= hi + 1
  PROVE  /\ UpTo(lo, hi) \in Seq(Nat)
         /\ Len(UpTo(lo, hi)) = 1 + hi - lo /\ DOMAIN UpTo(lo, hi) = 1 .. Len(UpTo(lo, hi))
         /\ \A i \in 1 .. 1 + hi - lo : UpTo(lo, hi)[i] = lo + i - 1
<1>1. UpTo(lo, hi) = [i \in 1 .. 1 + hi - lo |-> lo + i - 1]
  BY DEF UpTo
<1>2. 1 + hi - lo \in Nat /\ \A i \in 1 .. 1 + hi - lo : lo + i - 1 \in Nat
  OBVIOUS
<1>3. QED BY <1>1, <1>2

Fake(k) == Dummy(k, {"FAKELINE"})

\* The line that CreateLine puts.
LEMMA FakeIs == ASSUME NEW k \in Key PROVE Fake(k) \in Line /\ Fake(k).key = k
BY DEF Fake, Dummy, Line

\* FakeLine puts a line that is to be requested in the place of line k.
LEMMA FakeLineIs ==
  ASSUME NEW ls \in Seq(Line), Sorted(ls), NEW k \in Key
  PROVE  Changed(FakeLine(ls, k), ls, k, {Fake(k)})
<1>1. PICK i : i = InsPos(ls, k) - 1
  OBVIOUS
<1>2. i \in 0 .. Len(ls) /\ \A j \in 1 .. Len(ls) : ls[j].key <= k <=> j <= i
  <2>1. PICK h : h = InsPos(ls, k)
    OBVIOUS
  <2>2. h \in 1 .. Len(ls) + 1 /\ \A j \in 1 .. Len(ls) : ls[j].key <= k <=> j < h
    BY <2>1, InsPosIs, Zenon
  <2>3. i = h - 1
    BY <1>1, <2>1
  <2>4. i \in 0 .. Len(ls) /\ \A j \in 1 .. Len(ls) : j < h <=> j <= i
    BY <2>2, <2>3
  <2>5. QED BY <2>2, <2>4, Zenon
<1>3. FakeLine(ls, k) = IF i # 0 /\ ls[i].key = k THEN ReplaceAt(ls, i, Fake(k)) ELSE InsAbove(ls, Fake(k))
  BY <1>1, Zenon DEF FakeLine, Fake
<1>4. Fake(k) \in Line /\ Fake(k).key = k /\ k \in Nat
  BY FakeIs, Constants DEF Key
<1>5. CASE i # 0 /\ ls[i].key = k
  <2>1. i \in 1 .. Len(ls)
    BY <1>2, <1>5
  <2>2. Changed(ReplaceAt(ls, i, Fake(k)), ls, Fake(k).key, {Fake(k)})
    BY <1>4, <1>5, <2>1, Replaced, Zenon
  <2>3. QED BY <1>3, <1>4, <1>5, <2>2, Zenon
<1>6. CASE ~ (i # 0 /\ ls[i].key = k)
  <2>1. ASSUME NEW j \in 1 .. Len(ls), ls[j].key = k PROVE FALSE
    <3>1. j <= i /\ i \in 1 .. Len(ls)
      BY <1>2, <1>4, <2>1
    <3>2. ls[i].key <= k
      BY <1>2, <3>1
    <3>3. j # i
      BY <1>6, <2>1, <3>1
    <3>4. ls[j].key < ls[i].key
      BY <3>1, <3>3 DEF Sorted
    <3>5. ls[i].key \in Nat
      <4>1. ls[i] \in Line
        BY <3>1
      <4>2. QED BY <4>1, LineIs, Zenon
    <3>6. QED BY <1>4, <2>1, <3>2, <3>4, <3>5
  <2>2. \A j \in 1 .. Len(ls) : ls[j].key # Fake(k).key
    BY <1>4, <2>1, Zenon
  <2>3. Changed(InsAbove(ls, Fake(k)), ls, Fake(k).key, {Fake(k)})
    BY <1>4, <2>2, Above, Zenon
  <2>4. QED BY <1>3, <1>4, <1>6, <2>3, Zenon
<1>7. QED BY <1>5, <1>6, Zenon

\* The parts of the window.
LEMMA WindowIs ==
  ASSUME NEW w \in Window
  PROVE  /\ w.object = Object /\ w.oid = 1 /\ w.max = 0 /\ w.lines \in Seq(Line)
         /\ w.attributes \subseteq {"NO_TILDE", "FAKELINE"}
BY DEF Window

\* CreateLine, PutLine and P_RemoveLine only change line k, and keep the order.
LEMMA CreateLineIs ==
  ASSUME NEW w \in Window, Sorted(w.lines), NEW k \in Key
  PROVE  CreateLine(w, k, k) \in Window /\ Changed(CreateLine(w, k, k).lines, w.lines, k, {Fake(k)})
<1>1. w.max = 0 /\ w.lines \in Seq(Line) /\ w.attributes \subseteq {"NO_TILDE", "FAKELINE"} /\ k \in Nat
  BY WindowIs, Constants DEF Key
<1>2. PICK s : s = UpTo(k, k)
  OBVIOUS
<1>3. Len(s) = 1 /\ DOMAIN s = 1 .. Len(s) /\ s[1] = k
  <2>1. k <= k + 1
    BY <1>1
  <2>2. Len(s) = 1 + k - k /\ DOMAIN s = 1 .. Len(s) /\ \A i \in 1 .. 1 + k - k : s[i] = k + i - 1
    BY <1>1, <1>2, <2>1, UpToIs, Zenon
  <2>3. QED BY <1>1, <2>2
<1>4. PICK g : Turns(g, "FakeLine", {}, w.lines, s) /\ FoldLeft(FakeLine, w.lines, s) = g[Len(s)]
  <2>1. Len(s) \in Nat
    BY <1>3
  <2>2. QED BY <1>3, <2>1, FakeLineTurns, Zenon
<1>5. g[1] = FakeLine(w.lines, k)
  <2>1. 1 \in 1 .. Len(s) /\ 1 - 1 = 0
    BY <1>3
  <2>2. g[0] = w.lines /\ g[1] = Turn("FakeLine", {}, g[1 - 1], s[1])
    BY <1>4, <2>1, Zenon DEF Turns
  <2>3. Turn("FakeLine", {}, w.lines, k) = FakeLine(w.lines, k)
    BY DEF Turn
  <2>4. QED BY <1>3, <2>1, <2>2, <2>3, Zenon
<1>6. FoldLeft(FakeLine, w.lines, UpTo(k, k)) = FakeLine(w.lines, k)
  BY <1>2, <1>3, <1>4, <1>5, Zenon
<1>7. PICK r : r = FakeLine(w.lines, k)
  OBVIOUS
<1>8. Changed(r, w.lines, k, {Fake(k)})
  BY <1>1, <1>7, FakeLineIs, Zenon
<1>9. r \in Seq(Line)
  BY <1>8, Zenon DEF Changed
<1>10. ~ (w.max # 0 \/ k > k)
  BY <1>1
<1>11. CreateLine(w, k, k) = [w EXCEPT !.lines = r, !.attributes = @ \cup {"FAKELINE"}]
  BY <1>6, <1>7, <1>10, Zenon DEF CreateLine
<1>12. CreateLine(w, k, k) \in Window
  BY <1>1, <1>9, <1>11 DEF Window
<1>13. CreateLine(w, k, k).lines = r
  BY <1>11 DEF Window
<1>14. QED BY <1>8, <1>12, <1>13, Zenon

LEMMA PutLineIs ==
  ASSUME NEW w \in Window, Sorted(w.lines), NEW l \in Line
  PROVE  PutLine(w, l) \in Window /\ Changed(PutLine(w, l).lines, w.lines, l.key, {l})
<1>1. w.max = 0 /\ w.lines \in Seq(Line)
  BY WindowIs
<1>2. PICK i : i = KeyAt(w.lines, l.key)
  OBVIOUS
<1>3. PICK r : r = IF i # 0 THEN ReplaceAt(w.lines, i, l) ELSE InsAbove(w.lines, l)
  OBVIOUS
<1>4. PutLine(w, l) = [w EXCEPT !.lines = r]
  BY <1>1, <1>2, <1>3, Zenon DEF PutLine
<1>5. Changed(r, w.lines, l.key, {l})
  <2>1. CASE i = 0 /\ \A j \in 1 .. Len(w.lines) : w.lines[j].key # l.key
    <3>1. Changed(InsAbove(w.lines, l), w.lines, l.key, {l})
      BY <1>1, <2>1, Above, Zenon
    <3>2. QED BY <1>3, <2>1, <3>1, Zenon
  <2>2. CASE i \in 1 .. Len(w.lines) /\ w.lines[i].key = l.key
    <3>1. Changed(ReplaceAt(w.lines, i, l), w.lines, l.key, {l})
      BY <1>1, <2>2, Replaced, Zenon
    <3>2. i # 0
      BY <2>2
    <3>3. QED BY <1>3, <3>1, <3>2, Zenon
  <2>3. QED BY <1>1, <1>2, <2>1, <2>2, KeyAtIs, Zenon
<1>6. r \in Seq(Line)
  BY <1>5, Zenon DEF Changed
<1>7. PutLine(w, l) \in Window /\ PutLine(w, l).lines = r
  BY <1>4, <1>6 DEF Window
<1>8. QED BY <1>5, <1>7, Zenon

LEMMA RemoveLineIs ==
  ASSUME NEW w \in Window, Sorted(w.lines), NEW k \in Key
  PROVE  P_RemoveLine(w, k) \in Window /\ Changed(P_RemoveLine(w, k).lines, w.lines, k, {})
<1>1. w.lines \in Seq(Line)
  BY WindowIs
<1>2. PICK i : i = KeyAt(w.lines, k)
  OBVIOUS
<1>3. P_RemoveLine(w, k) = IF i = 0 THEN w ELSE [w EXCEPT !.lines = RemoveAt(@, i)]
  BY <1>2, Zenon DEF P_RemoveLine
<1>4. CASE i = 0 /\ \A j \in 1 .. Len(w.lines) : w.lines[j].key # k
  BY <1>1, <1>3, <1>4, Zenon DEF Changed
<1>5. CASE i \in 1 .. Len(w.lines) /\ w.lines[i].key = k
  <2>1. PICK r : r = RemoveAt(w.lines, i)
    OBVIOUS
  <2>2. Changed(r, w.lines, k, {})
    BY <1>1, <1>5, <2>1, Removed, Zenon
  <2>3. r \in Seq(Line)
    BY <2>2, Zenon DEF Changed
  <2>4. P_RemoveLine(w, k) = [w EXCEPT !.lines = r]
    BY <1>3, <1>5, <2>1
  <2>5. P_RemoveLine(w, k) \in Window /\ P_RemoveLine(w, k).lines = r
    BY <2>3, <2>4 DEF Window
  <2>6. QED BY <2>2, <2>5, Zenon
<1>6. QED BY <1>1, <1>2, <1>4, <1>5, KeyAtIs, Zenon

\* The parts of the terminal.
LEMMA TerminalIs ==
  ASSUME NEW u \in Terminal
  PROVE  /\ u.wins \in Seq(Window) /\ u.out \in Seq(Request)
         /\ u.LINEobj \in {NoObj, Object} /\ u.prev \in [key : 0 .. MaxLines, attributes : {{}}]
BY DEF Terminal

\* The kinds of messages.
LEMMA MessageIs ==
  ASSUME NEW m \in Message
  PROVE  m = PadDef \/ m = Options \/ \E k \in Key : m = Creates(k) \/ m = Removes(k) \/ \E x \in Texts : m = Shows(k, x)
BY DEF Message

LEMMA MessageOp ==
  /\ PadDef.op = "PADDEF" /\ Options.op = "ATTRIBUTE"
  /\ \A k : Creates(k).op = "CREATELINE" /\ Removes(k).op = "REMOVELINE"
  /\ \A k, x : Shows(k, x).op = "LINE"
BY DEF PadDef, Options, Creates, Removes, Shows

\* The journal's window is found.
LEMMA Found ==
  ASSUME NEW u \in Terminal, Len(u.wins) <= 1
  PROVE  /\ u.wins = <<>> => ObjToPad(u, Object) = 0
         /\ u.wins # <<>> => Len(u.wins) = 1 /\ u.wins[1] \in Window /\ ObjToPad(u, Object) = 1
<1> DEFINE T == { i \in 1 .. Len(u.wins) : u.wins[i].object = Object }
<1>1. ObjToPad(u, Object) = IF T # {} THEN Max(T) ELSE 0
  BY Zenon DEF ObjToPad, SelectLastInSeq
<1>2. u.wins \in Seq(Window)
  BY TerminalIs
<1>3. CASE u.wins = <<>>
  <2>1. T = {}
    BY <1>3
  <2>2. QED BY <1>1, <1>3, <2>1, Zenon
<1>4. CASE u.wins # <<>>
  <2>1. Len(u.wins) = 1 /\ u.wins[1] \in Window
    <3>1. PICK ws : ws = u.wins
      OBVIOUS
    <3>2. ws \in Seq(Window) /\ ws # <<>> /\ Len(ws) <= 1
      BY <1>2, <1>4, <3>1, Zenon
    <3>3. Len(ws) # 0
      BY <3>2, EmptySeq, Zenon
    <3>4. Len(ws) = 1 /\ ws[1] \in Window
      <4>1. Len(ws) \in Nat
        BY <3>2
      <4>2. Len(ws) = 1
        <5>1. PICK n : n = Len(ws)
          OBVIOUS
        <5>2. n \in Nat /\ n <= 1 /\ n # 0
          BY <3>2, <3>3, <4>1, <5>1, Zenon
        <5>3. n = 1
          BY ONLY <5>2
        <5>4. QED BY <5>1, <5>3, Zenon
      <4>3. 1 \in 1 .. Len(ws)
        BY <4>2
      <4>4. QED BY <3>2, <4>2, <4>3
    <3>5. QED BY <3>1, <3>4, Zenon
  <2>2. u.wins[1].object = Object
    BY <2>1, WindowIs, Zenon
  <2>3. 1 \in T /\ T \subseteq Int /\ \A i \in T : i <= 1
    BY <2>1, <2>2
  <2>4. Max(T) = 1
    BY <2>3, MaxIs
  <2>5. T # {}
    BY <2>3
  <2>6. QED BY <1>1, <1>4, <2>1, <2>4, <2>5, Zenon
<1>5. QED BY <1>3, <1>4, Zenon

\* ObjToPad finds the window that is there.
LEMMA FoundOne ==
  ASSUME NEW u \in Terminal, Len(u.wins) = 1
  PROVE  ObjToPad(u, Object) = 1 /\ u.wins[1] \in Window
<1>1. Len(u.wins) <= 1 /\ u.wins # <<>>
  <2>1. PICK ws : ws = u.wins
    OBVIOUS
  <2>2. Len(ws) = 1
    BY <2>1, Zenon
  <2>3. Len(ws) <= 1 /\ ws # <<>>
    BY <2>2
  <2>4. QED BY <2>1, <2>3, Zenon
<1>2. QED BY <1>1, Found, Zenon

\* A window becomes w.
LEMMA Become ==
  ASSUME NEW u \in Terminal, Len(u.wins) = 1, NEW w \in Window, NEW v, v = [u EXCEPT !.wins[1] = w]
  PROVE  v \in Terminal /\ Len(v.wins) = 1 /\ v.wins[1] = w /\ v.out = u.out
<1>1. u.wins \in Seq(Window)
  BY TerminalIs
<1>2. PICK ws : ws = [u.wins EXCEPT ![1] = w]
  OBVIOUS
<1>3. ws \in Seq(Window) /\ Len(ws) = 1 /\ ws[1] = w
  BY <1>1, <1>2
<1>4. v = [u EXCEPT !.wins = ws]
  BY <1>2
<1>5. v \in Terminal
  BY <1>3, <1>4 DEF Terminal
<1>6. v.wins = ws /\ v.out = u.out
  BY <1>4 DEF Terminal
<1>7. QED BY <1>3, <1>5, <1>6, Zenon

NewWindow == [object |-> Object, oid |-> 1, attributes |-> {}, max |-> 0, lines |-> <<>>]

\* The window is defined.
LEMMA DefineRead ==
  ASSUME NEW u \in Terminal, u.wins = <<>>, NEW v, v = PadOp(u, PadDef)
  PROVE  v \in Terminal /\ Len(v.wins) = 1 /\ v.wins[1] = NewWindow /\ v.out = u.out
<1>1. ObjToPad(u, Object) = 0
  <2>1. Len(u.wins) <= 1
    OBVIOUS
  <2>2. QED BY <2>1, Found, Zenon
<1>2. v = P_Define(u, Object, 1)
  BY DEF PadOp, PadDef
<1>3. v = [u EXCEPT !.wins = Append(@, NewWindow)]
  BY <1>1, <1>2, Zenon DEF P_Define, NewWindow
<1>4. PICK ws : ws = Append(u.wins, NewWindow)
  OBVIOUS
<1>5. NewWindow \in Window
  BY DEF NewWindow, Window
<1>6. ws \in Seq(Window) /\ Len(ws) = 1 /\ ws[1] = NewWindow
  BY <1>4, <1>5
<1>7. v = [u EXCEPT !.wins = ws]
  BY <1>3, <1>4
<1>8. v \in Terminal /\ v.wins = ws /\ v.out = u.out
  BY <1>6, <1>7 DEF Terminal
<1>9. QED BY <1>6, <1>8, Zenon


\* What the terminal does with each kind of message.
LEMMA OptionsRead ==
  ASSUME NEW u \in Terminal, Len(u.wins) = 1, NEW v, v = PadOp(u, Options)
  PROVE  v \in Terminal /\ Len(v.wins) = 1 /\ v.wins[1].lines = u.wins[1].lines /\ v.out = u.out
<1>1. ObjToPad(u, Object) = 1 /\ u.wins[1] \in Window
  BY FoundOne, Zenon
<1>2. PICK w : w = [u.wins[1] EXCEPT !.attributes = {"NO_TILDE"}]
  OBVIOUS
<1>3. w \in Window /\ w.lines = u.wins[1].lines
  BY <1>1, <1>2 DEF Window
<1>4. v = [u EXCEPT !.wins[1] = w]
  BY <1>1, <1>2 DEF PadOp, Options
<1>5. v \in Terminal /\ Len(v.wins) = 1 /\ v.wins[1] = w /\ v.out = u.out
  BY <1>3, <1>4, Become
<1>6. QED BY <1>3, <1>5, Zenon

LEMMA CreatesRead ==
  ASSUME NEW u \in Terminal, Len(u.wins) = 1, Sorted(u.wins[1].lines), NEW k \in Key,
         NEW v, v = PadOp(u, Creates(k))
  PROVE  /\ v \in Terminal /\ Len(v.wins) = 1 /\ v.out = u.out
         /\ Changed(v.wins[1].lines, u.wins[1].lines, k, {Fake(k)})
<1>1. ObjToPad(u, Object) = 1 /\ u.wins[1] \in Window
  BY FoundOne, Zenon
<1>2. PICK w : w = CreateLine(u.wins[1], k, k)
  OBVIOUS
<1>3. w \in Window /\ Changed(w.lines, u.wins[1].lines, k, {Fake(k)})
  BY <1>1, <1>2, CreateLineIs, Zenon
<1>4. v = [u EXCEPT !.wins[1] = w]
  BY <1>1, <1>2 DEF PadOp, Creates
<1>5. v \in Terminal /\ Len(v.wins) = 1 /\ v.wins[1] = w /\ v.out = u.out
  BY <1>3, <1>4, Become
<1>6. QED BY <1>3, <1>5, Zenon

LEMMA RemovesRead ==
  ASSUME NEW u \in Terminal, Len(u.wins) = 1, Sorted(u.wins[1].lines), NEW k \in Key,
         NEW v, v = PadOp(u, Removes(k))
  PROVE  /\ v \in Terminal /\ Len(v.wins) = 1 /\ v.out = u.out
         /\ Changed(v.wins[1].lines, u.wins[1].lines, k, {})
<1>1. ObjToPad(u, Object) = 1 /\ u.wins[1] \in Window
  BY FoundOne, Zenon
<1>2. PICK w : w = P_RemoveLine(u.wins[1], k)
  OBVIOUS
<1>3. w \in Window /\ Changed(w.lines, u.wins[1].lines, k, {})
  BY <1>1, <1>2, RemoveLineIs, Zenon
<1>4. v = [u EXCEPT !.wins[1] = w]
  BY <1>1, <1>2 DEF PadOp, Removes
<1>5. v \in Terminal /\ Len(v.wins) = 1 /\ v.wins[1] = w /\ v.out = u.out
  BY <1>3, <1>4, Become
<1>6. QED BY <1>3, <1>5, Zenon

Real(k, x) == [key |-> k, text |-> x, attributes |-> {}]

LEMMA ShowsRead ==
  ASSUME NEW u \in Terminal, Len(u.wins) = 1, Sorted(u.wins[1].lines), NEW k \in Key, NEW x \in Texts,
         NEW v, v = PadOp(u, Shows(k, x))
  PROVE  /\ v \in Terminal /\ Len(v.wins) = 1 /\ v.out = u.out
         /\ Changed(v.wins[1].lines, u.wins[1].lines, k, {Real(k, x)})
<1>1. PICK h : h = Unpacked(u, Shows(k, x))
  OBVIOUS
<1>2. h = [u EXCEPT !.LINEobj = Object, !.prev = [key |-> k, attributes |-> {}]]
  BY <1>1 DEF Unpacked, Shows
<1>3. k \in 0 .. MaxLines
  BY Constants DEF Key
<1>4. h \in Terminal
  BY <1>2, <1>3 DEF Terminal
<1>5. h.wins = u.wins /\ h.out = u.out /\ h.prev = [key |-> k, attributes |-> {}]
  BY <1>2 DEF Terminal
<1>6. ObjToPad(h, Object) = 1 /\ h.wins[1] \in Window
  BY <1>4, <1>5, FoundOne, Zenon
<1>7. Real(k, x) \in Line /\ Real(k, x).key = k
  BY DEF Real, Line
<1>8. PICK w : w = PutLine(h.wins[1], Real(k, x))
  OBVIOUS
<1>9. w \in Window /\ Changed(w.lines, h.wins[1].lines, k, {Real(k, x)})
  BY <1>5, <1>6, <1>7, <1>8, PutLineIs, Zenon
<1>10. v = [h EXCEPT !.wins[1] = w]
  <2>1. Shows(k, x).op = "LINE" /\ Shows(k, x).obj = Object /\ Shows(k, x).text = x
    BY DEF Shows
  <2>2. Real(k, x) = [key |-> h.prev.key, text |-> Shows(k, x).text, attributes |-> h.prev.attributes]
    BY <1>5, <2>1 DEF Real
  <2>3. QED BY <1>1, <1>6, <1>8, <2>1, <2>2 DEF PadOp
<1>11. Len(h.wins) = 1
  BY <1>5
<1>12. v \in Terminal /\ Len(v.wins) = 1 /\ v.wins[1] = w /\ v.out = h.out
  BY <1>4, <1>9, <1>10, <1>11, Become
<1>13. QED BY <1>5, <1>9, <1>12, Zenon

-----------------------------------------------------------------------------
(* A message is read. *)

\* A message touches the one line that it names.
LEMMA TouchesIs ==
  /\ \A k : ~ Touches(PadDef, k) /\ ~ Touches(Options, k)
  /\ \A h, k : Touches(Creates(h), k) => k = h
  /\ \A h, k : Touches(Removes(h), k) => k = h
  /\ \A h, k, x : Touches(Shows(h, x), k) => k = h
<1>1. \A k : ~ Touches(PadDef, k) /\ ~ Touches(Options, k)
  BY MessageOp, Zenon DEF Touches
<1>2. ASSUME NEW h, NEW k, Touches(Creates(h), k) PROVE k = h
  <2>1. Creates(h) = Creates(k)
    BY <1>2, MessageOp, Zenon DEF Touches
  <2>2. Creates(h).lo = h /\ Creates(k).lo = k
    BY DEF Creates
  <2>3. QED BY <2>1, <2>2, Zenon
<1>3. ASSUME NEW h, NEW k, Touches(Removes(h), k) PROVE k = h
  <2>1. Removes(h) = Removes(k)
    BY <1>3, MessageOp, Zenon DEF Touches
  <2>2. Removes(h).key = h /\ Removes(k).key = k
    BY DEF Removes
  <2>3. QED BY <2>1, <2>2, Zenon
<1>4. ASSUME NEW h, NEW k, NEW x, Touches(Shows(h, x), k) PROVE k = h
  <2>1. PICK y : Shows(h, x) = Shows(k, y)
    BY <1>4, MessageOp, Zenon DEF Touches
  <2>2. Shows(h, x).key = h /\ Shows(k, y).key = k
    BY DEF Shows
  <2>3. QED BY <2>1, <2>2, Zenon
<1>5. QED BY <1>1, <1>2, <1>3, <1>4, Zenon

\* What was to come is still to come, if it is not the next message.
LEMMA LaterOn ==
  ASSUME NEW s, NEW n \in Nat, Len(s) \in Nat, NEW k
  PROVE  /\ Later(s, n, k) /\ ~ Touches(s[n + 1], k) => Later(s, n + 1, k)
         /\ \A j : Recent(s, n, j, k) /\ ~ Touches(s[n + 1], k) => Recent(s, n + 1, j, k)
<1>1. \A q \in n + 1 .. Len(s) : q = n + 1 \/ q \in (n + 1) + 1 .. Len(s)
  OBVIOUS
<1>2. Later(s, n, k) /\ ~ Touches(s[n + 1], k) => Later(s, n + 1, k)
  BY <1>1, Zenon DEF Later
<1>3. ASSUME NEW j, Recent(s, n, j, k), ~ Touches(s[n + 1], k) PROVE Recent(s, n + 1, j, k)
  <2>1. s[n + 1] # Removes(k)
    BY <1>3, Zenon DEF Touches
  <2>2. (\E q \in n + 1 .. Len(s) : s[q] = Removes(k)) => \E q \in (n + 1) + 1 .. Len(s) : s[q] = Removes(k)
    BY <1>1, <2>1, Zenon
  <2>3. QED BY <1>3, <2>2, Zenon DEF Recent
<1>4. QED BY <1>2, <1>3, Zenon

\* A line is as right as before when a message about another one is read.
LEMMA LineOn ==
  ASSUME NEW s, NEW n \in Nat, Len(s) \in Nat, NEW j, NEW g, NEW out, NEW l,
         LineOK(out, s, n, j, g, l), ~ Touches(s[n + 1], l.key)
  PROVE  LineOK(out, s, n + 1, j, g, l)
<1>1. Later(s, n, l.key) => Later(s, n + 1, l.key)
  BY LaterOn, Zenon
<1>2. Recent(s, n + 1, j, l.key)
  BY LaterOn, Zenon DEF LineOK
<1>3. QED BY <1>1, <1>2, Zenon DEF LineOK, Right

\* The lines r are right when the next message is read.
LEMMA ChangedOK ==
  ASSUME NEW s, NEW n \in Nat, Len(s) \in Nat, NEW j, NEW g, NEW out, NEW ls,
         LinesOK(ls, out, s, n, j, g), NEW k, \A h : Touches(s[n + 1], h) => h = k,
         NEW r, NEW N, Changed(r, ls, k, N), \A l \in N : LineOK(out, s, n + 1, j, g, l)
  PROVE  LinesOK(r, out, s, n + 1, j, g)
<1>1. ASSUME NEW i \in 1 .. Len(r) PROVE LineOK(out, s, n + 1, j, g, r[i])
  <2>1. CASE r[i] \in N
    BY <2>1, Zenon
  <2>2. CASE r[i].key # k /\ \E h \in 1 .. Len(ls) : r[i] = ls[h]
    <3>1. LineOK(out, s, n, j, g, r[i])
      BY <2>2, Zenon DEF LinesOK
    <3>2. ~ Touches(s[n + 1], r[i].key)
      BY <2>2, Zenon
    <3>3. QED BY <3>1, <3>2, LineOn, Zenon
  <2>3. QED BY <2>1, <2>2, Zenon DEF Changed
<1>2. Sorted(r)
  BY Zenon DEF Changed
<1>3. QED BY <1>1, <1>2, Zenon DEF LinesOK

\* A line that is still to be asked for is right if it is recent.
LEMMA FakeOK ==
  ASSUME NEW s, NEW n, NEW j, NEW g, NEW out, NEW k \in Key, Recent(s, n, j, k)
  PROVE  LineOK(out, s, n, j, g, Fake(k))
<1>1. Fake(k).key = k /\ ~ IsReal(Fake(k)) /\ ~ IsAsked(Fake(k))
  BY DEF Fake, Dummy, IsReal, IsAsked
<1>2. QED BY <1>1, Zenon DEF LineOK

\* A line that was sent is right if its message was.
LEMMA RealOK ==
  ASSUME NEW s, NEW n, NEW j, NEW g, NEW out, NEW k \in Key, NEW x \in Texts,
         Recent(s, n, j, k), Right(s, n, g, k, x)
  PROVE  LineOK(out, s, n, j, g, Real(k, x))
<1>1. Real(k, x).key = k /\ Real(k, x).text = x
  BY DEF Real
<1>2. x # TILDE
  BY Constants, Zenon
<1>3. ~ IsAsked(Real(k, x))
  BY <1>1, <1>2, Zenon DEF IsReal, IsAsked
<1>4. QED BY <1>1, <1>3, Zenon DEF LineOK

\* The lines of the one window.
LEMMA LinesOfOne ==
  ASSUME NEW u \in Terminal, Len(u.wins) = 1
  PROVE  LinesOf(u) = u.wins[1].lines /\ u.wins # <<>>
<1>1. u.wins # <<>>
  <2>1. PICK ws : ws = u.wins
    OBVIOUS
  <2>2. Len(ws) = 1
    BY <2>1, Zenon
  <2>3. ws # <<>>
    BY <2>2
  <2>4. QED BY <2>1, <2>3, Zenon
<1>2. QED BY <1>1, Zenon DEF LinesOf

\* What is left of the messages, for a window that is there.
LEMMA RestOK ==
  ASSUME NEW u, NEW s, NEW n \in Nat, NEW j, NEW g, TermInv(u, s, n, j, g), n < Len(s),
         NEW v \in Terminal, Len(v.wins) = 1
  PROVE  Defines(v, s, n + 1) /\ MessagesOK(s, n + 1, j, g)
<1>1. s \in Seq(Message) /\ Len(s) \in Nat
  <2>1. s \in Seq(Message)
    BY Zenon DEF TermInv
  <2>2. QED BY <2>1
<1>2. v.wins # <<>>
  BY LinesOfOne, Zenon
<1>3. \A q \in (n + 1) + 1 .. Len(s) : q \in n + 1 .. Len(s) /\ q # n + 1
  BY <1>1
<1>4. \A q \in (n + 1) + 1 .. Len(s) : s[q] # PadDef
  BY <1>3, Zenon DEF TermInv, Defines
<1>5. Defines(v, s, n + 1)
  BY <1>2, <1>4, Zenon DEF Defines
<1>6. MessagesOK(s, n + 1, j, g)
  BY <1>3, Zenon DEF TermInv, MessagesOK
<1>7. QED BY <1>5, <1>6

\* The invariant, when the terminal reads the next message.
LEMMA Received ==
  ASSUME NEW u, NEW s, NEW n \in Nat, NEW j, NEW g, TermInv(u, s, n, j, g), n < Len(s),
         NEW v, v = PadOp(u, s[n + 1])
  PROVE  TermInv(v, s, n + 1, j, g) /\ v.out = u.out
<1>1. /\ u \in Terminal /\ Len(u.wins) <= 1 /\ s \in Seq(Message) /\ OutOK(u.out, j)
      /\ LinesOK(LinesOf(u), u.out, s, n, j, g)
  BY Zenon DEF TermInv
<1>2. Len(s) \in Nat /\ n + 1 \in 1 .. Len(s) /\ n + 1 \in n + 1 .. Len(s) /\ s[n + 1] \in Message
  BY <1>1
<1>3. MessageOK(s, n + 1, j, g) /\ (s[n + 1] = PadDef <=> u.wins = <<>>)
  BY <1>2, Zenon DEF TermInv, MessagesOK, Defines
<1>4. v \in Terminal /\ Len(v.wins) = 1 /\ v.out = u.out /\ LinesOK(v.wins[1].lines, u.out, s, n + 1, j, g)
  <2>1. CASE u.wins = <<>>
    <3>1. v = PadOp(u, PadDef)
      BY <1>3, <2>1, Zenon
    <3>2. v \in Terminal /\ Len(v.wins) = 1 /\ v.wins[1] = NewWindow /\ v.out = u.out
      BY <1>1, <2>1, <3>1, DefineRead, Zenon
    <3>3. v.wins[1].lines = <<>>
      BY <3>2 DEF NewWindow
    <3>4. LinesOK(<<>>, u.out, s, n + 1, j, g)
      BY DEF LinesOK, Sorted
    <3>5. QED BY <3>2, <3>3, <3>4, Zenon
  <2>2. CASE u.wins # <<>>
    <3>1. Len(u.wins) = 1
      BY <1>1, <2>2, Found, Zenon
    <3>2. LinesOf(u) = u.wins[1].lines
      BY <2>2, Zenon DEF LinesOf
    <3>3. Sorted(u.wins[1].lines) /\ LinesOK(u.wins[1].lines, u.out, s, n, j, g)
      BY <1>1, <3>2, Zenon DEF LinesOK
    <3>4. CASE s[n + 1] = Options
      <4>1. v \in Terminal /\ Len(v.wins) = 1 /\ v.wins[1].lines = u.wins[1].lines /\ v.out = u.out
        BY <1>1, <3>1, <3>4, OptionsRead, Zenon
      <4>2. \A i \in 1 .. Len(u.wins[1].lines) : LineOK(u.out, s, n, j, g, u.wins[1].lines[i])
        BY <3>3, Zenon DEF LinesOK
      <4>3. \A k : ~ Touches(s[n + 1], k)
        BY <3>4, TouchesIs, Zenon
      <4>4. \A i \in 1 .. Len(u.wins[1].lines) : LineOK(u.out, s, n + 1, j, g, u.wins[1].lines[i])
        BY <1>2, <4>2, <4>3, LineOn, Zenon
      <4>5. LinesOK(u.wins[1].lines, u.out, s, n + 1, j, g)
        BY <3>3, <4>4, Zenon DEF LinesOK
      <4>6. QED BY <4>1, <4>5, Zenon
    <3>5. ASSUME NEW k \in Key, s[n + 1] = Creates(k)
          PROVE  v \in Terminal /\ Len(v.wins) = 1 /\ v.out = u.out /\ LinesOK(v.wins[1].lines, u.out, s, n + 1, j, g)
      <4>1. /\ v \in Terminal /\ Len(v.wins) = 1 /\ v.out = u.out
            /\ Changed(v.wins[1].lines, u.wins[1].lines, k, {Fake(k)})
        BY <1>1, <3>1, <3>3, <3>5, CreatesRead, Zenon
      <4>2. Recent(s, n + 1, j, k)
        BY <1>3, <3>5, Zenon DEF MessageOK
      <4>3. \A l \in {Fake(k)} : LineOK(u.out, s, n + 1, j, g, l)
        BY <4>2, FakeOK, Zenon
      <4>4. \A h : Touches(s[n + 1], h) => h = k
        BY <3>5, TouchesIs, Zenon
      <4>5. LinesOK(v.wins[1].lines, u.out, s, n + 1, j, g)
        BY <1>2, <3>3, <4>1, <4>3, <4>4, ChangedOK, Zenon
      <4>6. QED BY <4>1, <4>5, Zenon
    <3>6. ASSUME NEW k \in Key, s[n + 1] = Removes(k)
          PROVE  v \in Terminal /\ Len(v.wins) = 1 /\ v.out = u.out /\ LinesOK(v.wins[1].lines, u.out, s, n + 1, j, g)
      <4>1. /\ v \in Terminal /\ Len(v.wins) = 1 /\ v.out = u.out
            /\ Changed(v.wins[1].lines, u.wins[1].lines, k, {})
        BY <1>1, <3>1, <3>3, <3>6, RemovesRead, Zenon
      <4>2. PICK N : N = {}
        OBVIOUS
      <4>3. \A h : Touches(s[n + 1], h) => h = k
        BY <3>6, TouchesIs, Zenon
      <4>4. Changed(v.wins[1].lines, u.wins[1].lines, k, N) /\ \A l \in N : LineOK(u.out, s, n + 1, j, g, l)
        BY <4>1, <4>2
      <4>5. LinesOK(v.wins[1].lines, u.out, s, n + 1, j, g)
        BY <1>2, <3>3, <4>3, <4>4, ChangedOK, Zenon
      <4>6. QED BY <4>1, <4>5, Zenon
    <3>7. ASSUME NEW k \in Key, NEW x \in Texts, s[n + 1] = Shows(k, x)
          PROVE  v \in Terminal /\ Len(v.wins) = 1 /\ v.out = u.out /\ LinesOK(v.wins[1].lines, u.out, s, n + 1, j, g)
      <4>1. /\ v \in Terminal /\ Len(v.wins) = 1 /\ v.out = u.out
            /\ Changed(v.wins[1].lines, u.wins[1].lines, k, {Real(k, x)})
        BY <1>1, <3>1, <3>3, <3>7, ShowsRead, Zenon
      <4>2. Recent(s, n + 1, j, k) /\ Right(s, n + 1, g, k, x)
        BY <1>3, <3>7, Zenon DEF MessageOK
      <4>3. \A l \in {Real(k, x)} : LineOK(u.out, s, n + 1, j, g, l)
        BY <4>2, RealOK, Zenon
      <4>4. \A h : Touches(s[n + 1], h) => h = k
        BY <3>7, TouchesIs, Zenon
      <4>5. LinesOK(v.wins[1].lines, u.out, s, n + 1, j, g)
        BY <1>2, <3>3, <4>1, <4>3, <4>4, ChangedOK, Zenon
      <4>6. QED BY <4>1, <4>5, Zenon
    <3>8. s[n + 1] # PadDef
      BY <1>3, <2>2, Zenon
    <3>9. QED BY <1>2, <3>4, <3>5, <3>6, <3>7, <3>8, MessageIs, Zenon
  <2>3. QED BY <2>1, <2>2, Zenon
<1>5. LinesOf(v) = v.wins[1].lines /\ v.wins # <<>> /\ Len(v.wins) <= 1
  <2>1. Len(v.wins) = 1 => Len(v.wins) <= 1
    OBVIOUS
  <2>2. QED BY <1>4, <2>1, LinesOfOne, Zenon
<1>6. Defines(v, s, n + 1) /\ MessagesOK(s, n + 1, j, g)
  BY <1>4, RestOK, Zenon
<1>7. QED BY <1>1, <1>4, <1>5, <1>6, Zenon DEF TermInv

\* The invariant, when the terminal has read all messages.
LEMMA Drained ==
  ASSUME NEW u, NEW s, NEW j, NEW g, TermInv(u, s, 0, j, g), NEW d, d = FoldLeft(PadOp, u, s)
  PROVE  TermInv(d, s, Len(s), j, g) /\ d.wins # <<>> /\ d.out = u.out
<1>1. s \in Seq(Message)
  BY Zenon DEF TermInv
<1>2. Len(s) \in Nat /\ DOMAIN s = 1 .. Len(s)
  BY <1>1
<1>3. PICK f : Turns(f, "PadOp", {}, u, s) /\ d = f[Len(s)]
  BY <1>2, PadOpTurns, Zenon
<1>4. f[0] = u /\ \A i \in 1 .. Len(s) : f[i] = PadOp(f[i - 1], s[i])
  <2>1. \A m, e : Turn("PadOp", {}, m, e) = PadOp(m, e)
    BY DEF Turn
  <2>2. QED BY <1>3, <2>1, Zenon DEF Turns
<1> DEFINE T == { i \in 0 .. Len(s) : TermInv(f[i], s, i, j, g) /\ f[i].out = u.out }
<1>5. 0 \in T
  <2>1. 0 \in 0 .. Len(s)
    BY <1>2
  <2>2. QED BY <1>4, <2>1, Zenon
<1>6. ASSUME NEW i \in 0 .. Len(s) - 1, i \in T PROVE i + 1 \in T
  <2>1. i \in Nat /\ i < Len(s) /\ i + 1 \in 1 .. Len(s) /\ i + 1 \in 0 .. Len(s) /\ (i + 1) - 1 = i
    BY <1>2
  <2>2. f[i + 1] = PadOp(f[i], s[i + 1])
    BY <1>4, <2>1, Zenon
  <2>3. TermInv(f[i], s, i, j, g) /\ f[i].out = u.out
    BY <1>6, Zenon
  <2>4. TermInv(f[i + 1], s, i + 1, j, g) /\ f[i + 1].out = f[i].out
    <3>1. PICK h : h = f[i]
      OBVIOUS
    <3>2. PICK v : v = f[i + 1]
      OBVIOUS
    <3>3. TermInv(h, s, i, j, g) /\ v = PadOp(h, s[i + 1])
      BY <2>2, <2>3, <3>1, <3>2, Zenon
    <3>4. TermInv(v, s, i + 1, j, g) /\ v.out = h.out
      <4>1. i \in Nat /\ i < Len(s)
        BY <2>1, Zenon
      <4>2. QED BY ONLY <3>3, <4>1, Received, SMT
    <3>5. QED BY <3>1, <3>2, <3>4, Zenon
  <2>5. QED BY <2>1, <2>3, <2>4, Zenon
<1> HIDE DEF T
<1>7. \A i \in 0 .. Len(s) - 1 : i \in T => i + 1 \in T
  BY <1>6, Zenon
<1>8. Len(s) \in T
  BY <1>2, <1>5, <1>7, InductTo, Zenon
<1>9. TermInv(d, s, Len(s), j, g)
  BY <1>3, <1>8, Zenon DEF T
<1>10. d.wins # <<>>
  <2>1. ~ (Len(s) < Len(s))
    BY <1>2
  <2>2. QED BY <1>9, <2>1, Zenon DEF TermInv, Defines
<1>11. d.out = u.out
  BY <1>3, <1>8, Zenon DEF T
<1>12. QED BY <1>9, <1>10, <1>11

-----------------------------------------------------------------------------
(* What the invariant gives. *)

LEMMA LengthIs == length \in Nat \ {0}
BY Constants

\* A line of the window when everything is read.
LEMMA LastLines ==
  ASSUME JInv
  PROVE  /\ Lines \in Seq(Line) /\ Sorted(Lines)
         /\ \A i \in 1 .. Len(Lines) : LineOK(t.out, toTerm, Len(toTerm), key, log, Lines[i])
<1>1. PICK d : d = FoldLeft(PadOp, t, toTerm)
  OBVIOUS
<1>2. TermInv(d, toTerm, Len(toTerm), key, log) /\ d.wins # <<>> /\ d.out = t.out
  <2>1. TermInv(t, toTerm, 0, key, log)
    BY Zenon DEF JInv
  <2>2. QED BY <1>1, <2>1, Drained, Zenon
<1>3. Lines = d.wins[1].lines /\ LinesOf(d) = d.wins[1].lines
  BY <1>1, <1>2, Zenon DEF Lines, LinesOf
<1>4. d \in Terminal /\ Len(d.wins) <= 1 /\ LinesOK(LinesOf(d), d.out, toTerm, Len(toTerm), key, log)
  BY <1>2, Zenon DEF TermInv
<1>5. d.wins[1].lines \in Seq(Line)
  BY <1>2, <1>4, Found, WindowIs, Zenon
<1>6. QED BY <1>2, <1>3, <1>4, <1>5, Zenon DEF LinesOK

\* Nothing is to come when everything is read.
LEMMA NothingLater ==
  ASSUME NEW s, Len(s) \in Nat, NEW j, NEW g, NEW out, NEW l, LineOK(out, s, Len(s), j, g, l)
  PROVE  /\ l.key \in 1 .. j /\ l.key > j - length
         /\ IsReal(l) => l.text.text = g[l.key].text /\ l.text.count \in {g[l.key].count - 1, g[l.key].count}
         /\ IsAsked(l) => Covered(out, l.key)
<1>1. \A q : q \notin Len(s) + 1 .. Len(s)
  OBVIOUS
<1>2. ~ Later(s, Len(s), l.key) /\ ~ \E q \in Len(s) + 1 .. Len(s) : s[q] = Removes(l.key)
  BY <1>1, Zenon DEF Later
<1>3. QED BY <1>2, Zenon DEF LineOK, Recent, Right

\* The messages are a sequence.
LEMMA SentIs == ASSUME JInv PROVE toTerm \in Seq(Message) /\ Len(toTerm) \in Nat /\ DOMAIN toTerm = 1 .. Len(toTerm)
<1>1. toTerm \in Seq(Message)
  BY Zenon DEF JInv, TermInv
<1>2. QED BY <1>1

\* The invariant implies the first property of the run.
LEMMA IsRecent == JInv => WindowIsRecent
<1> SUFFICES ASSUME JInv PROVE WindowIsRecent
  OBVIOUS
<1>1. PICK ls : ls = Lines
  OBVIOUS
<1>2. /\ ls \in Seq(Line) /\ Sorted(ls)
      /\ \A i \in 1 .. Len(ls) : LineOK(t.out, toTerm, Len(toTerm), key, log, ls[i])
  BY <1>1, LastLines, Zenon
<1>3. DOMAIN ls = 1 .. Len(ls) /\ \A i \in 1 .. Len(ls) : ls[i] \in Line
  BY <1>2
<1>4. \A i \in 1 .. Len(ls) : ls[i].text \in Texts \cup {TILDE}
  BY <1>3, LineIs, Zenon
<1>5. \A i \in 1 .. Len(ls) : ls[i].key \in 1 + key - length .. key
  <2>1. ASSUME NEW i \in 1 .. Len(ls) PROVE ls[i].key \in 1 + key - length .. key
    <3>1. ls[i].key \in 1 .. key /\ ls[i].key > key - length
      BY <1>2, SentIs, NothingLater, Zenon
    <3>2. key \in Nat
      BY Constants DEF JInv, Ring
    <3>3. QED BY <3>1, <3>2, LengthIs
  <2>2. QED BY <2>1, Zenon
<1>6. \A i \in 1 .. Len(toTerm) : toTerm[i].op \in {"PADDEF", "ATTRIBUTE", "LINE", "CREATELINE", "REMOVELINE"}
  <2>1. ASSUME NEW i \in 1 .. Len(toTerm)
        PROVE  toTerm[i].op \in {"PADDEF", "ATTRIBUTE", "LINE", "CREATELINE", "REMOVELINE"}
    <3>1. toTerm[i] \in Message
      BY SentIs
    <3>2. PICK m : m = toTerm[i]
      OBVIOUS
    <3>3. m.op \in {"PADDEF", "ATTRIBUTE", "LINE", "CREATELINE", "REMOVELINE"}
      <4>1. m = PadDef \/ m = Options \/ \E k \in Key : m = Creates(k) \/ m = Removes(k) \/ \E x \in Texts : m = Shows(k, x)
        BY <3>1, <3>2, MessageIs, Zenon
      <4>2. \/ m.op = "PADDEF" \/ m.op = "ATTRIBUTE" \/ m.op = "LINE" \/ m.op = "CREATELINE"
            \/ m.op = "REMOVELINE"
        BY <4>1, MessageOp, Zenon
      <4>3. QED BY <4>2
    <3>4. QED BY <3>2, <3>3, Zenon
  <2>2. QED BY <2>1, Zenon
<1>7. \A i, k \in 1 .. Len(ls) : i < k => ls[i].key < ls[k].key
  BY <1>2, Zenon DEF Sorted
<1>8. /\ key \in 0 .. MaxLines /\ lastreq \in 0 .. key
      /\ bls \in [Slot -> Text \cup {TILDE}] /\ ct \in [Slot -> 0 .. MaxCount]
      /\ log \in Seq(Texts) /\ Len(log) = key
  BY Zenon DEF JInv, Ring
<1>9. DOMAIN toTerm = 1 .. Len(toTerm)
  BY SentIs
<1>10. QED BY <1>1, <1>3, <1>4, <1>5, <1>6, <1>7, <1>8, <1>9, Zenon DEF WindowIsRecent, Texts

\* What the invariant says of a line of the window to come.
LEMMA InLines ==
  ASSUME JInv, NEW l \in ToSet(Lines)
  PROVE  LineOK(t.out, toTerm, Len(toTerm), key, log, l)
<1>1. PICK ls : ls = Lines
  OBVIOUS
<1>2. ls \in Seq(Line) /\ \A i \in 1 .. Len(ls) : LineOK(t.out, toTerm, Len(toTerm), key, log, ls[i])
  BY <1>1, LastLines, Zenon
<1>3. DOMAIN ls = 1 .. Len(ls)
  BY <1>2
<1>4. PICK i \in DOMAIN ls : l = ls[i]
  BY <1>1, Zenon DEF ToSet
<1>5. QED BY <1>2, <1>3, <1>4, Zenon

\* The invariant implies the second property.
LEMMA AreTrue == JInv => LinesAreTrue
<1> SUFFICES ASSUME JInv, NEW l \in ToSet(Lines), IsReal(l)
             PROVE  /\ l.text.text = log[l.key].text
                    /\ l.text.count \in {log[l.key].count - 1, log[l.key].count}
  BY Zenon DEF LinesAreTrue
<1>1. LineOK(t.out, toTerm, Len(toTerm), key, log, l)
  BY InLines, Zenon
<1>2. QED BY <1>1, SentIs, NothingLater, Zenon

\* The invariant implies the third property.
LEMMA AreAnswered == JInv => RequestsAreAnswered
<1> SUFFICES ASSUME JInv, Overrides, NEW l \in ToSet(Lines), IsAsked(l)
             PROVE  \E i \in DOMAIN t.out : l.key \in t.out[i].lo .. t.out[i].hi
  BY Zenon DEF RequestsAreAnswered
<1>1. LineOK(t.out, toTerm, Len(toTerm), key, log, l)
  BY InLines, Zenon
<1>2. Covered(t.out, l.key)
  BY <1>1, SentIs, NothingLater, Zenon
<1>3. DOMAIN t.out = 1 .. Len(t.out)
  <2>1. t.out \in Seq(Request)
    BY TerminalIs, Zenon DEF JInv, TermInv
  <2>2. QED BY <2>1
<1>4. QED BY <1>2, <1>3, Zenon DEF Covered

-----------------------------------------------------------------------------
(* The steps of the terminal. *)

\* The messages have their kind, and only one of them defines the window.
LEMMA MessagesAre ==
  /\ PadDef \in Message /\ Options \in Message /\ PadDef # Options
  /\ \A k \in Key : Creates(k) \in Message /\ Creates(k) # PadDef
  /\ \A k \in Key : Removes(k) \in Message /\ Removes(k) # PadDef
  /\ \A k \in Key, x \in Texts : Shows(k, x) \in Message /\ Shows(k, x) # PadDef
<1>1. PadDef \in Message /\ Options \in Message
  BY DEF Message
<1>2. ASSUME NEW k \in Key
      PROVE  Creates(k) \in Message /\ Removes(k) \in Message /\ \A x \in Texts : Shows(k, x) \in Message
  BY DEF Message
<1>3. PadDef # Options
  BY MessageOp
<1>4. \A k, x : Creates(k) # PadDef /\ Removes(k) # PadDef /\ Shows(k, x) # PadDef
  BY MessageOp
<1>5. QED BY <1>1, <1>2, <1>3, <1>4, Zenon

\* The first two messages are about no line.
LEMMA ToldOthers ==
  ASSUME NEW m, m = PadDef \/ m = Options
  PROVE  \A k : m # Creates(k) /\ m # Removes(k) /\ \A x : m # Shows(k, x)
BY MessageOp

\* Journal::open: the window and its options are on their way.
LEMMA InitInv == Init => JInv
<1> SUFFICES ASSUME Init PROVE JInv
  OBVIOUS
<1>1. /\ key = 0 /\ lastreq = 0 /\ bls = [i \in Slot |-> TILDE] /\ ct = [i \in Slot |-> 0]
      /\ toTerm = <<PadDef, Options>> /\ t = TermInit /\ log = <<>>
  BY Zenon DEF Init, PadDef, Options
<1>2. Ring
  BY <1>1, Constants DEF Ring
<1>3. t.wins = <<>> /\ t.out = <<>> /\ t \in Terminal
  <2>1. t = [wins |-> <<>>, LINEobj |-> NoObj, out |-> <<>>, prev |-> [key |-> 0, attributes |-> {}]]
    BY <1>1, Zenon DEF TermInit
  <2>2. 0 \in 0 .. MaxLines
    BY Constants
  <2>3. QED BY <2>1, <2>2 DEF Terminal
<1>4. PICK s : s = toTerm
  OBVIOUS
<1>5. s \in Seq(Message) /\ Len(s) = 2 /\ s[1] = PadDef /\ s[2] = Options /\ PadDef # Options
  BY <1>1, <1>4, MessagesAre
<1>6. \A q \in 0 + 1 .. Len(s) : q = 1 \/ q = 2
  BY <1>5
<1>7. Defines(t, s, 0)
  <2>1. 0 < Len(s) /\ 0 + 1 = 1
    BY <1>5
  <2>2. \A q \in 0 + 1 .. Len(s) : s[q] = PadDef <=> q = 0 + 1
    BY <1>5, <1>6
  <2>3. QED BY <1>3, <2>1, <2>2, Zenon DEF Defines
<1>8. MessagesOK(s, 0, key, log)
  <2>1. \A q \in 0 + 1 .. Len(s) : \A k, x : s[q] # Creates(k) /\ s[q] # Shows(k, x)
    BY <1>5, <1>6, ToldOthers, Zenon
  <2>2. QED BY <2>1, Zenon DEF MessagesOK, MessageOK
<1>9. LinesOK(LinesOf(t), t.out, s, 0, key, log) /\ OutOK(t.out, key) /\ Len(t.wins) <= 1
  <2>1. LinesOf(t) = <<>>
    BY <1>3, Zenon DEF LinesOf
  <2>2. LinesOK(<<>>, t.out, s, 0, key, log)
    BY DEF LinesOK, Sorted
  <2>3. OutOK(t.out, key) /\ Len(t.wins) <= 1
    BY <1>3 DEF OutOK
  <2>4. QED BY <2>1, <2>2, <2>3, Zenon
<1>10. QED BY <1>2, <1>3, <1>4, <1>5, <1>7, <1>8, <1>9, Zenon DEF JInv, TermInv

\* The messages but for the first, which was read.
LEMMA Shift ==
  ASSUME NEW s \in Seq(Message), s # <<>>, NEW w, w = Tail(s)
  PROVE  /\ w \in Seq(Message) /\ Len(w) = Len(s) - 1
         /\ \A q \in 1 .. Len(w) : w[q] = s[q + 1]
         /\ \A n \in Nat : \A k : Later(s, n + 1, k) => Later(w, n, k)
         /\ \A n \in Nat : \A j, k : Recent(s, n + 1, j, k) => Recent(w, n, j, k)
<1>1. w \in Seq(Message) /\ Len(w) = Len(s) - 1 /\ \A q \in 1 .. Len(w) : w[q] = s[q + 1]
  BY HeadTailProperties
<1>2. Len(s) \in Nat
  OBVIOUS
<1>3. ASSUME NEW n \in Nat, NEW q \in (n + 1) + 1 .. Len(s)
      PROVE  q - 1 \in n + 1 .. Len(w) /\ w[q - 1] = s[q]
  <2>1. q - 1 \in n + 1 .. Len(w) /\ q - 1 \in 1 .. Len(w) /\ (q - 1) + 1 = q
    BY <1>1, <1>2
  <2>2. QED BY <1>1, <2>1, Zenon
<1>4. \A n \in Nat : \A k : Later(s, n + 1, k) => Later(w, n, k)
  BY <1>3, Zenon DEF Later
<1>5. ASSUME NEW n \in Nat, NEW j, NEW k, Recent(s, n + 1, j, k) PROVE Recent(w, n, j, k)
  BY <1>3, <1>5, Zenon DEF Recent
<1>6. QED BY <1>1, <1>4, <1>5, Zenon

\* The invariant counts the messages from the first that is not read.
LEMMA ShiftInv ==
  ASSUME NEW v, NEW s, NEW j, NEW g, TermInv(v, s, 1, j, g), s # <<>>, NEW w, w = Tail(s)
  PROVE  TermInv(v, w, 0, j, g)
<1>1. /\ v \in Terminal /\ Len(v.wins) <= 1 /\ s \in Seq(Message) /\ OutOK(v.out, j)
      /\ LinesOK(LinesOf(v), v.out, s, 1, j, g) /\ MessagesOK(s, 1, j, g) /\ Defines(v, s, 1)
  BY Zenon DEF TermInv
<1>2. /\ w \in Seq(Message) /\ Len(w) = Len(s) - 1
      /\ \A q \in 1 .. Len(w) : w[q] = s[q + 1]
      /\ \A n \in Nat : \A k : Later(s, n + 1, k) => Later(w, n, k)
      /\ \A n \in Nat : \A j1, k : Recent(s, n + 1, j1, k) => Recent(w, n, j1, k)
  BY <1>1, Shift
<1>3. Len(s) \in Nat /\ Len(w) \in Nat /\ 0 + 1 = 1 /\ 0 \in Nat
  BY <1>1, <1>2
<1>4. \A k : (Later(s, 1, k) => Later(w, 0, k)) /\ (Recent(s, 1, j, k) => Recent(w, 0, j, k))
  BY <1>2, <1>3, Zenon
<1>5. LinesOK(LinesOf(v), v.out, w, 0, j, g)
  BY <1>1, <1>4, Zenon DEF LinesOK, LineOK, Right
<1>6. \A q \in 0 + 1 .. Len(w) : q \in Nat /\ q \in 1 .. Len(w) /\ q + 1 \in 1 + 1 .. Len(s) /\ q # 0
  BY <1>2, <1>3
<1>7. MessagesOK(w, 0, j, g)
  <2>1. ASSUME NEW q \in 0 + 1 .. Len(w) PROVE MessageOK(w, q, j, g)
    <3>1. MessageOK(s, q + 1, j, g) /\ w[q] = s[q + 1] /\ q \in Nat
      BY <1>1, <1>2, <1>6, Zenon DEF MessagesOK
    <3>2. QED BY <1>2, <3>1, Zenon DEF MessageOK, Right
  <2>2. QED BY <2>1, Zenon DEF MessagesOK
<1>8. Defines(v, w, 0)
  <2>1. v.wins = <<>> => 0 < Len(w)
    <3>1. v.wins = <<>> => 1 < Len(s)
      BY <1>1, Zenon DEF Defines
    <3>2. 1 < Len(s) => 0 < Len(w)
      BY <1>2, <1>3
    <3>3. QED BY <3>1, <3>2, Zenon
  <2>2. \A q \in 0 + 1 .. Len(w) : w[q] = s[q + 1] /\ (s[q + 1] = PadDef <=> v.wins = <<>> /\ q + 1 = 1 + 1)
    BY <1>1, <1>2, <1>6, Zenon DEF Defines
  <2>3. \A q \in 0 + 1 .. Len(w) : q + 1 = 1 + 1 <=> q = 0 + 1
    BY <1>3
  <2>4. QED BY <2>1, <2>2, <2>3, Zenon DEF Defines
<1>9. QED BY <1>1, <1>2, <1>5, <1>7, <1>8, Zenon DEF TermInv

\* A step of the terminal leaves the ring alone.
LEMMA RingSame ==
  ASSUME Ring, key' = key, lastreq' = lastreq, bls' = bls, ct' = ct, log' = log
  PROVE  Ring'
BY Zenon DEF Ring

\* PadOp keeps the invariant, as it reads what the invariant allows for.
LEMMA ReceiveStep == ASSUME JInv, Receive PROVE JInv'
<1>1. /\ toTerm # <<>> /\ t' = PadOp(t, Head(toTerm)) /\ toTerm' = Tail(toTerm)
      /\ key' = key /\ lastreq' = lastreq /\ bls' = bls /\ ct' = ct /\ log' = log
  BY Zenon DEF Receive
<1>2. PICK s : s = toTerm
  OBVIOUS
<1>3. TermInv(t, s, 0, key, log) /\ s \in Seq(Message) /\ Ring
  BY <1>2, Zenon DEF JInv, TermInv
<1>4. s # <<>>
  BY <1>1, <1>2, Zenon
<1>5. Head(s) = s[0 + 1] /\ 0 < Len(s) /\ 0 + 1 = 1
  BY <1>3, <1>4
<1>6. PICK v : v = PadOp(t, s[0 + 1])
  OBVIOUS
<1>7. TermInv(v, s, 0 + 1, key, log)
  <2>1. 0 \in Nat
    OBVIOUS
  <2>2. QED BY <1>3, <1>5, <1>6, <2>1, Received, Zenon
<1>8. PICK w : w = Tail(s)
  OBVIOUS
<1>9. TermInv(v, w, 0, key, log)
  BY <1>4, <1>5, <1>7, <1>8, ShiftInv, Zenon
<1>10. t' = v /\ toTerm' = w
  BY <1>1, <1>2, <1>5, <1>6, <1>8, Zenon
<1>11. Ring'
  BY <1>1, <1>3, RingSame
<1>12. TermInv(t', toTerm', 0, key', log')
  BY <1>1, <1>9, <1>10, Zenon
<1>13. QED BY <1>11, <1>12, Zenon DEF JInv

\* The user does something with the window.
LEMMA TermStepInv ==
  ASSUME JInv, NEW v, TermInv(v, toTerm, 0, key, log), TermStep(v)
  PROVE  JInv'
<1>1. t' = v /\ key' = key /\ lastreq' = lastreq /\ bls' = bls /\ ct' = ct /\ toTerm' = toTerm /\ log' = log
  BY Zenon DEF TermStep
<1>2. Ring'
  BY <1>1, RingSame, Zenon DEF JInv
<1>3. TermInv(t', toTerm', 0, key', log')
  BY <1>1, Zenon
<1>4. QED BY <1>2, <1>3, Zenon DEF JInv

\* The window has other lines, and its requests are sent.
LEMMA NewLines ==
  ASSUME NEW u, NEW s, NEW j, NEW g, TermInv(u, s, 0, j, g), u.wins # <<>>,
         NEW v \in Terminal, Len(v.wins) = 1, OutOK(v.out, j),
         LinesOK(v.wins[1].lines, v.out, s, 0, j, g)
  PROVE  TermInv(v, s, 0, j, g)
<1>1. s \in Seq(Message) /\ Defines(u, s, 0) /\ MessagesOK(s, 0, j, g)
  BY Zenon DEF TermInv
<1>2. LinesOf(v) = v.wins[1].lines /\ v.wins # <<>> /\ Len(v.wins) <= 1
  <2>1. Len(v.wins) = 1 => Len(v.wins) <= 1
    OBVIOUS
  <2>2. QED BY <2>1, LinesOfOne, Zenon
<1>3. Defines(v, s, 0)
  BY <1>1, <1>2, Zenon DEF Defines
<1>4. QED BY <1>1, <1>2, <1>3, Zenon DEF TermInv

\* What the invariant says of the window that is there.
LEMMA TheWindow ==
  ASSUME NEW u, NEW s, NEW j, NEW g, TermInv(u, s, 0, j, g), u.wins # <<>>
  PROVE  /\ u \in Terminal /\ Len(u.wins) = 1 /\ u.wins[1] \in Window /\ OutOK(u.out, j)
         /\ u.wins[1].lines \in Seq(Line) /\ LinesOK(u.wins[1].lines, u.out, s, 0, j, g)
         /\ u.out \in Seq(Request)
<1>1. u \in Terminal /\ Len(u.wins) <= 1 /\ OutOK(u.out, j) /\ LinesOK(LinesOf(u), u.out, s, 0, j, g)
  BY Zenon DEF TermInv
<1>2. Len(u.wins) = 1 /\ u.wins[1] \in Window /\ LinesOf(u) = u.wins[1].lines
  BY <1>1, Found, Zenon DEF LinesOf
<1>3. QED BY <1>1, <1>2, WindowIs, TerminalIs, Zenon

\* A line that is cut is missing, which is right.
LEMMA CutStep == ASSUME JInv, NEW i, Cut(i) PROVE JInv'
<1>1. t.wins # <<>> /\ i \in DOMAIN t.wins[1].lines /\ TermStep([t EXCEPT !.wins[1].lines = RemoveAt(@, i)])
  BY Zenon DEF Cut
<1>2. TermInv(t, toTerm, 0, key, log)
  BY Zenon DEF JInv
<1>3. /\ t \in Terminal /\ Len(t.wins) = 1 /\ t.wins[1] \in Window /\ OutOK(t.out, key)
      /\ t.wins[1].lines \in Seq(Line) /\ LinesOK(t.wins[1].lines, t.out, toTerm, 0, key, log)
  BY <1>1, <1>2, TheWindow, Zenon
<1>4. PICK ls : ls = t.wins[1].lines
  OBVIOUS
<1>5. ls \in Seq(Line) /\ Sorted(ls) /\ i \in 1 .. Len(ls)
  <2>1. ls \in Seq(Line) /\ Sorted(ls) /\ i \in DOMAIN ls
    BY <1>1, <1>3, <1>4, Zenon DEF LinesOK
  <2>2. QED BY <2>1
<1>6. PICK r : r = RemoveAt(ls, i)
  OBVIOUS
<1>7. Changed(r, ls, ls[i].key, {})
  BY <1>5, <1>6, Removed, Zenon
<1>8. r \in Seq(Line) /\ Sorted(r) /\ \A h \in 1 .. Len(r) : \E k \in 1 .. Len(ls) : r[h] = ls[k]
  BY <1>7 DEF Changed
<1>9. LinesOK(r, t.out, toTerm, 0, key, log)
  BY <1>3, <1>4, <1>8, Zenon DEF LinesOK
<1>10. PICK w : w = [t.wins[1] EXCEPT !.lines = r]
  OBVIOUS
<1>11. w \in Window /\ w.lines = r
  BY <1>3, <1>8, <1>10 DEF Window
<1>12. PICK v : v = [t EXCEPT !.wins[1].lines = RemoveAt(@, i)]
  OBVIOUS
<1>13. v = [t EXCEPT !.wins[1] = w]
  BY <1>4, <1>6, <1>10, <1>12
<1>14. v \in Terminal /\ Len(v.wins) = 1 /\ v.wins[1] = w /\ v.out = t.out
  BY <1>3, <1>11, <1>13, Become
<1>15. TermInv(v, toTerm, 0, key, log)
  BY <1>1, <1>2, <1>3, <1>9, <1>11, <1>14, NewLines, Zenon
<1>16. QED BY <1>1, <1>12, <1>15, TermStepInv, Zenon

\* No line of the journal is kept when its window is closed.
LEMMA NoneKept ==
  ASSUME NEW ls \in Seq(Line)
  PROVE  FoldLeft(DelLineOf, <<>>, ls) = <<>>
<1>1. Len(ls) \in Nat /\ DOMAIN ls = 1 .. Len(ls)
  OBVIOUS
<1>2. PICK f : Turns(f, "DelLineOf", {}, <<>>, ls) /\ FoldLeft(DelLineOf, <<>>, ls) = f[Len(ls)]
  BY <1>1, DelLineTurns, Zenon
<1>3. f[0] = <<>> /\ \A i \in 1 .. Len(ls) : f[i] = DelLineOf(f[i - 1], ls[i])
  <2>1. \A m, e : Turn("DelLineOf", {}, m, e) = DelLineOf(m, e)
    BY DEF Turn
  <2>2. QED BY <1>2, <2>1, Zenon DEF Turns
<1>4. \A i \in 1 .. Len(ls) : "DONT_CUT" \notin ls[i].attributes
  <2>1. \A i \in 1 .. Len(ls) : ls[i] \in Line
    OBVIOUS
  <2>2. \A i \in 1 .. Len(ls) : ls[i].attributes = {} \/ ls[i].attributes = {"FAKELINE"}
    BY <2>1, LineIs, Zenon
  <2>3. QED BY <2>2
<1>5. \A i \in 1 .. Len(ls) : f[i] = f[i - 1]
  BY <1>3, <1>4, Zenon DEF DelLineOf
<1> DEFINE T == { i \in 0 .. Len(ls) : f[i] = <<>> }
<1>6. 0 \in T
  BY <1>1, <1>3
<1>7. ASSUME NEW i \in 0 .. Len(ls) - 1, i \in T PROVE i + 1 \in T
  <2>1. i + 1 \in 1 .. Len(ls) /\ i + 1 \in 0 .. Len(ls) /\ (i + 1) - 1 = i
    BY <1>1
  <2>2. QED BY <1>5, <1>7, <2>1, Zenon
<1> HIDE DEF T
<1>8. \A i \in 0 .. Len(ls) - 1 : i \in T => i + 1 \in T
  BY <1>7, Zenon
<1>9. Len(ls) \in T
  BY <1>1, <1>6, <1>8, InductTo, Zenon
<1>10. QED BY <1>2, <1>9, Zenon DEF T

\* A window without lines is right.
LEMMA UserCloseStep == ASSUME JInv, UserClose PROVE JInv'
<1>1. t.wins # <<>> /\ TermStep(DeletePad(t, 1))
  BY Zenon DEF UserClose
<1>2. TermInv(t, toTerm, 0, key, log)
  BY Zenon DEF JInv
<1>3. /\ t \in Terminal /\ Len(t.wins) = 1 /\ t.wins[1] \in Window /\ OutOK(t.out, key)
      /\ t.wins[1].lines \in Seq(Line)
  BY <1>1, <1>2, TheWindow, Zenon
<1>4. "USERCLOSE" \notin t.wins[1].attributes /\ "DONT_CLOSE" \notin t.wins[1].attributes
  <2>1. t.wins[1].attributes \subseteq {"NO_TILDE", "FAKELINE"}
    BY <1>3, WindowIs, Zenon
  <2>2. QED BY <2>1
<1>5. PICK v : v = DeletePad(t, 1)
  OBVIOUS
<1>6. v = [t EXCEPT !.wins[1].lines = FoldLeft(DelLineOf, <<>>, @)]
  BY <1>4, <1>5, Zenon DEF DeletePad
<1>7. FoldLeft(DelLineOf, <<>>, t.wins[1].lines) = <<>>
  BY <1>3, NoneKept, Zenon
<1>8. PICK w : w = [t.wins[1] EXCEPT !.lines = <<>>]
  OBVIOUS
<1>9. w \in Window /\ w.lines = <<>>
  <2>1. PICK no : no = <<>>
    OBVIOUS
  <2>2. no \in Seq(Line)
    BY <2>1
  <2>3. w = [t.wins[1] EXCEPT !.lines = no] /\ t.wins[1] \in Window
    BY <1>3, <1>8, <2>1
  <2>4. w \in Window /\ w.lines = no
    BY <2>2, <2>3 DEF Window
  <2>5. QED BY <2>1, <2>4
<1>10. v = [t EXCEPT !.wins[1] = w]
  BY <1>6, <1>7, <1>8
<1>11. v \in Terminal /\ Len(v.wins) = 1 /\ v.wins[1] = w /\ v.out = t.out
  BY <1>3, <1>9, <1>10, Become
<1>12. LinesOK(<<>>, t.out, toTerm, 0, key, log)
  BY DEF LinesOK, Sorted
<1>13. TermInv(v, toTerm, 0, key, log)
  BY <1>1, <1>2, <1>3, <1>9, <1>11, <1>12, NewLines, Zenon
<1>14. QED BY <1>1, <1>5, <1>13, TermStepInv, Zenon

\* The requests rs are of keys up to j, and for each of those in K among the
\* first n of ks there is one.
RunsOK(rs, K, ks, n, j) ==
  /\ rs \in Seq((1 .. j) \X (1 .. j))
  /\ \A i \in 1 .. Len(rs) : rs[i][1] <= rs[i][2]
  /\ \A h \in 1 .. n : ks[h] \in K => \E i \in 1 .. Len(rs) : ks[h] \in rs[i][1] .. rs[i][2]

\* A key that goes with the one before it, or begins a request, is requested.
LEMMA RunStep ==
  ASSUME NEW j \in Nat, NEW rs, NEW K, NEW ks, NEW n \in Nat, RunsOK(rs, K, ks, n, j),
         NEW k, k \in 1 .. j, ks[n + 1] = k
  PROVE  RunsOK(Run(rs, k), K, ks, n + 1, j)
<1> DEFINE P == (1 .. j) \X (1 .. j)
<1>1. /\ rs \in Seq(P) /\ \A i \in 1 .. Len(rs) : rs[i][1] <= rs[i][2]
      /\ \A h \in 1 .. n : ks[h] \in K => \E i \in 1 .. Len(rs) : ks[h] \in rs[i][1] .. rs[i][2]
  BY Zenon DEF RunsOK
<1>2. \A p \in P : p = <<p[1], p[2]>> /\ p[1] \in 1 .. j /\ p[2] \in 1 .. j
  OBVIOUS
<1>3. \A h \in 1 .. n + 1 : h \in 1 .. n \/ h = n + 1
  OBVIOUS
<1>4. <<k, k>> \in P /\ k \in Nat
  OBVIOUS
<1> HIDE DEF P
<1>5. Len(rs) \in Nat /\ \A i \in 1 .. Len(rs) : rs[i] \in P
  BY <1>1
<1>6. PICK us : us = Run(rs, k)
  OBVIOUS
<1>7. /\ us \in Seq(P) /\ \A i \in 1 .. Len(us) : us[i][1] <= us[i][2]
      /\ \A i \in 1 .. Len(rs) : i \in 1 .. Len(us) /\ us[i][1] <= rs[i][1] /\ rs[i][2] <= us[i][2]
      /\ \E i \in 1 .. Len(us) : k \in us[i][1] .. us[i][2]
  <2>1. CASE rs # <<>> /\ rs[Len(rs)][2] + 1 = k
    <3>1. PICK m : m = Len(rs)
      OBVIOUS
    <3>2. m \in 1 .. m /\ m \in Nat
      <4>1. m # 0
        BY <1>1, <2>1, <3>1, EmptySeq, Zenon
      <4>2. QED BY <1>5, <3>1, <4>1
    <3>3. PICK a, b : rs[m] = <<a, b>> /\ a \in 1 .. j /\ b \in 1 .. j
      BY <1>2, <1>5, <3>1, <3>2, Zenon
    <3>4. a <= b /\ b + 1 = k
      <4>1. rs[m][1] <= rs[m][2] /\ rs[m][2] + 1 = k
        BY <1>1, <2>1, <3>1, <3>2, Zenon
      <4>2. QED BY <3>3, <4>1
    <3>5. us = [rs EXCEPT ![m] = <<a, k>>]
      <4>1. us = [rs EXCEPT ![m] = <<rs[m][1], k>>]
        BY <1>6, <2>1, <3>1, Zenon DEF Run
      <4>2. rs[m][1] = a
        BY <3>3
      <4>3. QED BY <4>1, <4>2, Zenon
    <3>6. <<a, k>> \in P
      BY <3>3 DEF P
    <3>7. us \in Seq(P) /\ Len(us) = m /\ \A i \in 1 .. m : us[i] = IF i = m THEN <<a, k>> ELSE rs[i]
      <4>1. PICK e : e = <<a, k>>
        OBVIOUS
      <4>2. us = [rs EXCEPT ![m] = e] /\ e \in P
        BY <3>5, <3>6, <4>1, Zenon
      <4>3. m \in 1 .. Len(rs)
        BY <3>1, <3>2
      <4>4. us \in Seq(P) /\ Len(us) = Len(rs)
        BY ONLY <1>1, <4>2, <4>3
      <4>5. \A i \in 1 .. Len(rs) : us[i] = IF i = m THEN e ELSE rs[i]
        BY ONLY <1>1, <4>2, <4>3
      <4>6. QED BY <3>1, <4>1, <4>4, <4>5, Zenon
    <3>8. ASSUME NEW i \in 1 .. m PROVE us[i][1] <= us[i][2] /\ us[i][1] <= rs[i][1] /\ rs[i][2] <= us[i][2]
      <4>1. CASE i = m
        <5>1. us[i] = <<a, k>> /\ rs[i] = <<a, b>>
          BY <3>3, <3>7, <4>1, Zenon
        <5>2. a \in Nat /\ b \in Nat
          BY <3>3
        <5>3. QED BY <1>4, <3>4, <5>1, <5>2
      <4>2. CASE i # m
        <5>1. us[i] = rs[i] /\ rs[i] \in P
          BY <1>5, <3>1, <3>7, <4>2, Zenon
        <5>2. rs[i][1] \in Nat /\ rs[i][2] \in Nat
          BY <5>1 DEF P
        <5>3. rs[i][1] <= rs[i][2]
          BY <1>1, <3>1, Zenon
        <5>4. QED BY <5>1, <5>2, <5>3
      <4>3. QED BY <4>1, <4>2, Zenon
    <3>9. k \in us[m][1] .. us[m][2]
      <4>1. us[m] = <<a, k>>
        BY <3>2, <3>7, Zenon
      <4>2. a \in Nat /\ b \in Nat
        BY <3>3
      <4>3. QED BY <1>4, <3>4, <4>1, <4>2
    <3>10. QED BY <3>1, <3>2, <3>7, <3>8, <3>9, Zenon
  <2>2. CASE ~ (rs # <<>> /\ rs[Len(rs)][2] + 1 = k)
    <3>1. us = Append(rs, <<k, k>>)
      BY <1>6, <2>2, Zenon DEF Run
    <3>2. us \in Seq(P) /\ Len(us) = Len(rs) + 1 /\ us[Len(rs) + 1] = <<k, k>> /\ \A i \in 1 .. Len(rs) : us[i] = rs[i]
      BY <1>1, <1>4, <3>1
    <3>3. k \in us[Len(rs) + 1][1] .. us[Len(rs) + 1][2] /\ us[Len(rs) + 1][1] <= us[Len(rs) + 1][2]
      BY <1>4, <3>2
    <3>4. \A i \in 1 .. Len(us) : i \in 1 .. Len(rs) \/ i = Len(rs) + 1
      BY <1>5, <3>2
    <3>5. Len(rs) + 1 \in 1 .. Len(us) /\ \A i \in 1 .. Len(rs) : i \in 1 .. Len(us)
      BY <1>5, <3>2
    <3>6. ASSUME NEW i \in 1 .. Len(rs) PROVE us[i][1] <= us[i][2] /\ us[i][1] <= rs[i][1] /\ rs[i][2] <= us[i][2]
      <4>1. us[i] = rs[i] /\ rs[i] \in P /\ rs[i][1] <= rs[i][2]
        BY <1>1, <1>5, <3>2, Zenon
      <4>2. rs[i][1] \in Nat /\ rs[i][2] \in Nat
        BY <4>1 DEF P
      <4>3. QED BY <4>1, <4>2
    <3>7. QED BY <3>2, <3>3, <3>4, <3>5, <3>6, Zenon
  <2>3. QED BY <2>1, <2>2, Zenon
<1>8. ASSUME NEW h \in 1 .. n + 1, ks[h] \in K PROVE \E i \in 1 .. Len(us) : ks[h] \in us[i][1] .. us[i][2]
  <2>1. CASE h = n + 1
    BY <1>7, <2>1, Zenon
  <2>2. CASE h \in 1 .. n
    <3>1. PICK i \in 1 .. Len(rs) : ks[h] \in rs[i][1] .. rs[i][2]
      BY <1>1, <1>8, <2>2, Zenon
    <3>2. i \in 1 .. Len(us) /\ us[i][1] <= rs[i][1] /\ rs[i][2] <= us[i][2] /\ rs[i] \in P /\ us[i] \in P
      <4>1. \A x \in 1 .. Len(us) : us[x] \in P
        BY <1>7
      <4>2. QED BY <1>5, <1>7, <4>1, Zenon
    <3>3. rs[i][1] \in Nat /\ rs[i][2] \in Nat /\ us[i][1] \in Nat /\ us[i][2] \in Nat
      BY <3>2 DEF P
    <3>4. ks[h] \in us[i][1] .. us[i][2]
      <4>1. PICK x, a, b, c, d : x = ks[h] /\ a = rs[i][1] /\ b = rs[i][2] /\ c = us[i][1] /\ d = us[i][2]
        OBVIOUS
      <4>2. x \in a .. b /\ a \in Nat /\ b \in Nat /\ c \in Nat /\ d \in Nat /\ c <= a /\ b <= d
        BY <3>1, <3>2, <3>3, <4>1, Zenon
      <4>3. x \in c .. d
        BY ONLY <4>2
      <4>4. QED BY <4>1, <4>3, Zenon
    <3>5. QED BY <3>2, <3>4, Zenon
  <2>3. QED BY <1>3, <2>1, <2>2, Zenon
<1>9. RunsOK(us, K, ks, n + 1, j)
  BY <1>7, <1>8, Zenon DEF RunsOK, P
<1>10. QED BY <1>6, <1>9, Zenon

\* Each key that is missing is requested.
LEMMA RunsAre ==
  ASSUME NEW j \in Nat, NEW K, NEW ks \in Seq(1 .. j)
  PROVE  RunsOK(Runs(K, ks), K, ks, Len(ks), j)
<1>1. Len(ks) \in Nat /\ DOMAIN ks = 1 .. Len(ks) /\ \A i \in 1 .. Len(ks) : ks[i] \in 1 .. j
  OBVIOUS
<1>2. PICK f : Turns(f, "Run", K, <<>>, ks) /\ Runs(K, ks) = f[Len(ks)]
  <2>1. PICK f : Turns(f, "Run", K, <<>>, ks) /\ Runs(K, ks) = f[Len(ks)]
    BY <1>1, RunTurns, Zenon
  <2>2. QED BY <2>1, Zenon
<1>3. f[0] = <<>> /\ \A i \in 1 .. Len(ks) : f[i] = IF ks[i] \in K THEN Run(f[i - 1], ks[i]) ELSE f[i - 1]
  <2>1. \A m, e : Turn("Run", K, m, e) = IF e \in K THEN Run(m, e) ELSE m
    BY DEF Turn
  <2>2. QED BY <1>2, <2>1, Zenon DEF Turns
<1> DEFINE T == { i \in 0 .. Len(ks) : RunsOK(f[i], K, ks, i, j) }
<1>4. 0 \in T
  <2>1. RunsOK(<<>>, K, ks, 0, j)
    BY DEF RunsOK
  <2>2. 0 \in 0 .. Len(ks)
    BY <1>1
  <2>3. QED BY <1>3, <2>1, <2>2, Zenon
<1>5. ASSUME NEW i \in 0 .. Len(ks) - 1, i \in T PROVE i + 1 \in T
  <2>1. i \in Nat /\ i + 1 \in 1 .. Len(ks) /\ i + 1 \in 0 .. Len(ks) /\ (i + 1) - 1 = i
    BY <1>1
  <2>2. PICK k : k = ks[i + 1]
    OBVIOUS
  <2>3. PICK rs : rs = f[i]
    OBVIOUS
  <2>4. k \in 1 .. j /\ RunsOK(rs, K, ks, i, j) /\ f[i + 1] = IF k \in K THEN Run(rs, k) ELSE rs
    BY <1>1, <1>3, <1>5, <2>1, <2>2, <2>3, Zenon
  <2>5. CASE k \in K
    BY <2>1, <2>2, <2>4, <2>5, RunStep, Zenon
  <2>6. CASE k \notin K
    <3>1. \A h \in 1 .. i + 1 : h \in 1 .. i \/ h = i + 1
      BY <2>1
    <3>2. RunsOK(rs, K, ks, i + 1, j)
      BY <2>2, <2>4, <2>6, <3>1, Zenon DEF RunsOK
    <3>3. QED BY <2>1, <2>4, <2>6, <3>2, Zenon
  <2>7. QED BY <2>5, <2>6, Zenon
<1> HIDE DEF T
<1>6. \A i \in 0 .. Len(ks) - 1 : i \in T => i + 1 \in T
  BY <1>5, Zenon
<1>7. Len(ks) \in T
  BY <1>1, <1>4, <1>6, InductTo, Zenon
<1>8. QED BY <1>2, <1>7, Zenon DEF T

\* The keys of the lines lo to hi are among ks.
LooksAt(ks, ls, lo, hi) == \A i \in lo .. hi : \E h \in 1 .. Len(ks) : ks[h] = ls[i].key

\* CRequestLines looks at the keys of the lines lo to hi.
LEMMA LookedIs ==
  ASSUME NEW w \in Window, NEW S, \A i \in 1 .. Len(w.lines) : w.lines[i].key \in S,
         NEW lo \in Nat \ {0}, NEW hi \in Nat, lo <= hi, hi <= Len(w.lines),
         NEW ks, ks = Looked(w, lo, hi)
  PROVE  ks \in Seq(S) /\ Len(ks) \in Nat /\ LooksAt(ks, w.lines, lo, hi)
<1>1. PICK n, ls : n = 1 + hi - lo /\ ls = w.lines
  OBVIOUS
<1>2. ks = [i \in 1 .. n |-> ls[lo + i - 1].key]
  <2>1. w.max = 0
    BY WindowIs, Zenon
  <2>2. ks = [i \in 1 .. 1 + hi - lo |-> w.lines[lo + i - 1].key]
    BY <2>1, Zenon DEF Looked
  <2>3. QED BY <1>1, <2>2, Zenon
<1>3. n \in Nat /\ \A i \in 1 .. n : lo + i - 1 \in 1 .. Len(ls)
  <2>1. ls \in Seq(Line) /\ hi <= Len(ls)
    BY <1>1, WindowIs, Zenon
  <2>2. Len(ls) \in Nat
    BY <2>1
  <2>3. QED BY <1>1, <2>1, <2>2
<1>4. ASSUME NEW i \in 1 .. n PROVE ks[i] \in S
  <2>1. ks[i] = ls[lo + i - 1].key
    BY <1>2, Zenon
  <2>2. QED BY <1>1, <1>3, <2>1, Zenon
<1>5. ks \in [1 .. n -> S]
  BY <1>2, <1>4, Zenon
<1>6. ks \in Seq(S) /\ Len(ks) = n
  BY ONLY <1>3, <1>5
<1>7. ASSUME NEW i \in lo .. hi PROVE \E h \in 1 .. Len(ks) : ks[h] = w.lines[i].key
  <2>1. PICK h : h = i - lo + 1
    OBVIOUS
  <2>2. h \in 1 .. n /\ lo + h - 1 = i
    BY <1>1, <2>1
  <2>3. ks[h] = ls[lo + h - 1].key
    BY <1>2, <2>2, Zenon
  <2>4. QED BY <1>1, <1>6, <2>2, <2>3, Zenon
<1>8. QED BY <1>3, <1>6, <1>7, Zenon DEF LooksAt

\* What is missing are keys of lines on the screen.
LEMMA MissingIs ==
  ASSUME NEW w \in Window, NEW lo, NEW hi, NEW k, k \in Missing(w, lo, hi)
  PROVE  \E i \in lo .. hi : k = w.lines[i].key
<1>1. w.max = 0
  BY WindowIs, Zenon
<1>2. k \in {w.lines[i].key : i \in {h \in lo .. hi :
               "FAKELINE" \in w.attributes /\ "FAKELINE" \in w.lines[h].attributes}}
  BY <1>1, Zenon DEF Missing
<1>3. QED BY ONLY <1>2, Zenon

\* The lines of which the keys are in K are marked as requested.
Marked(ls, K) ==
  [i \in DOMAIN ls |-> IF ls[i].key \in K THEN [ls[i] EXCEPT !.attributes = @ \ {"FAKELINE"}] ELSE ls[i]]

\* A marked line keeps its key and its text.
LEMMA MarkedIs ==
  ASSUME NEW K, NEW ls \in Seq(Line), NEW r, r = Marked(ls, K)
  PROVE  /\ r \in Seq(Line) /\ Len(r) = Len(ls)
         /\ \A i \in 1 .. Len(ls) : /\ r[i].key = ls[i].key /\ r[i].text = ls[i].text
                                    /\ ls[i].key \notin K => r[i] = ls[i]
<1>1. DOMAIN ls = 1 .. Len(ls) /\ Len(ls) \in Nat /\ \A i \in 1 .. Len(ls) : ls[i] \in Line
  OBVIOUS
<1>2. r = [i \in 1 .. Len(ls) |->
             IF ls[i].key \in K THEN [ls[i] EXCEPT !.attributes = @ \ {"FAKELINE"}] ELSE ls[i]]
  BY <1>1, Zenon DEF Marked
<1>3. ASSUME NEW l \in Line, NEW m, m = [l EXCEPT !.attributes = @ \ {"FAKELINE"}]
      PROVE  m \in Line /\ m.key = l.key /\ m.text = l.text
  <2>1. m.key = l.key /\ m.text = l.text /\ m = [key |-> l.key, text |-> l.text, attributes |-> {}]
    <3>1. PICK k, x, as : k = l.key /\ x = l.text /\ as = l.attributes
      OBVIOUS
    <3>2. l = [key |-> k, text |-> x, attributes |-> as] /\ (as = {} \/ as = {"FAKELINE"})
      BY <3>1, LineIs, Zenon
    <3>3. as \ {"FAKELINE"} = {}
      BY <3>2
    <3>4. m = [key |-> k, text |-> x, attributes |-> as \ {"FAKELINE"}]
      BY <1>3, <3>2
    <3>5. m = [key |-> k, text |-> x, attributes |-> {}]
      BY <3>3, <3>4, Zenon
    <3>6. QED BY <3>1, <3>5
  <2>2. l.key \in Key /\ l.text \in Texts \cup {TILDE}
    BY LineIs, Zenon
  <2>3. m \in Line
    BY <2>1, <2>2 DEF Line
  <2>4. QED BY <2>1, <2>3, Zenon
<1>4. ASSUME NEW i \in 1 .. Len(ls)
      PROVE  r[i] \in Line /\ r[i].key = ls[i].key /\ r[i].text = ls[i].text /\ (ls[i].key \notin K => r[i] = ls[i])
  <2>1. r[i] = IF ls[i].key \in K THEN [ls[i] EXCEPT !.attributes = @ \ {"FAKELINE"}] ELSE ls[i]
    BY <1>2, Zenon
  <2>2. ls[i] \in Line
    BY <1>1, Zenon
  <2>3. CASE ls[i].key \in K
    <3>1. r[i] = [ls[i] EXCEPT !.attributes = @ \ {"FAKELINE"}]
      BY <2>1, <2>3, Zenon
    <3>2. QED BY <1>3, <2>2, <2>3, <3>1, Zenon
  <2>4. CASE ls[i].key \notin K
    BY <2>1, <2>2, <2>4, Zenon
  <2>5. QED BY <2>3, <2>4, Zenon
<1>5. r \in [1 .. Len(ls) -> Line]
  BY <1>2, <1>4, Zenon
<1>6. r \in Seq(Line) /\ Len(r) = Len(ls)
  BY ONLY <1>1, <1>5
<1>7. QED BY <1>4, <1>6, Zenon

\* What the terminal asks for with the requests rs.
Asks(w, rs) == [i \in DOMAIN rs |-> LineReq(w, rs[i])]

\* The requests are of lines that the journal has, and for all that miss.
LEMMA AsksAre ==
  ASSUME NEW w \in Window, NEW j \in 0 .. MaxLines, NEW K, NEW ks, NEW n, NEW rs, RunsOK(rs, K, ks, n, j),
         NEW new, new = Asks(w, rs)
  PROVE  /\ new \in Seq(Request) /\ Len(new) = Len(rs) /\ OutOK(new, j)
         /\ \A h \in 1 .. n : ks[h] \in K => Covered(new, ks[h])
<1> DEFINE P == (1 .. j) \X (1 .. j)
<1>1. rs \in Seq(P)
  BY Zenon DEF RunsOK
<1>2. DOMAIN rs = 1 .. Len(rs) /\ Len(rs) \in Nat /\ \A i \in 1 .. Len(rs) : rs[i] \in P
  BY <1>1
<1>3. \A i \in 1 .. Len(rs) : rs[i][1] \in 1 .. j /\ rs[i][2] \in 1 .. j
  BY <1>2
<1>4. \A k \in 1 .. j : k \in Key
  BY Constants DEF Key
<1>5. new = [i \in 1 .. Len(rs) |-> LineReq(w, rs[i])]
  BY <1>2, Zenon DEF Asks
<1>6. \A r : LineReq(w, r) = [op |-> "LINEREQ", obj |-> Object, oid |-> 1, lo |-> r[1], hi |-> r[2]]
  BY WindowIs, Zenon DEF LineReq
<1>7. ASSUME NEW i \in 1 .. Len(rs) PROVE new[i] \in Request /\ new[i].lo = rs[i][1] /\ new[i].hi = rs[i][2]
  <2>1. PICK a, b : a = rs[i][1] /\ b = rs[i][2]
    OBVIOUS
  <2>2. new[i] = [op |-> "LINEREQ", obj |-> Object, oid |-> 1, lo |-> a, hi |-> b]
    BY <1>5, <1>6, <2>1, Zenon
  <2>3. a \in Key /\ b \in Key
    BY <1>3, <1>4, <2>1, Zenon
  <2>4. new[i] \in Request
    BY <2>2, <2>3 DEF Request
  <2>5. new[i].lo = a /\ new[i].hi = b
    BY <2>2
  <2>6. QED BY <2>1, <2>4, <2>5, Zenon
<1>8. new \in [1 .. Len(rs) -> Request]
  BY <1>5, <1>7, Zenon
<1>9. new \in Seq(Request) /\ Len(new) = Len(rs)
  BY ONLY <1>2, <1>8
<1>10. OutOK(new, j)
  <2>1. \A i \in 1 .. Len(rs) : rs[i][1] <= rs[i][2]
    BY Zenon DEF RunsOK
  <2>2. QED BY <1>3, <1>7, <1>9, <2>1, Zenon DEF OutOK
<1>11. ASSUME NEW h \in 1 .. n, ks[h] \in K PROVE Covered(new, ks[h])
  <2>1. PICK i \in 1 .. Len(rs) : ks[h] \in rs[i][1] .. rs[i][2]
    BY <1>11, Zenon DEF RunsOK
  <2>2. QED BY <1>7, <1>9, <2>1, Zenon DEF Covered
<1>12. QED BY <1>9, <1>10, <1>11, Zenon

\* The requests that are under way stay so.
LEMMA SentToo ==
  ASSUME NEW out \in Seq(Request), NEW new \in Seq(Request), NEW j, OutOK(out, j), OutOK(new, j),
         NEW all, all = out \o new
  PROVE  /\ all \in Seq(Request) /\ OutOK(all, j)
         /\ \A k : Covered(out, k) \/ Covered(new, k) => Covered(all, k)
<1>1. Len(out) \in Nat /\ Len(new) \in Nat
  OBVIOUS
<1>2. /\ all \in Seq(Request) /\ Len(all) = Len(out) + Len(new)
      /\ \A i \in 1 .. Len(all) : all[i] = IF i <= Len(out) THEN out[i] ELSE new[i - Len(out)]
  BY <1>1
<1>3. \A i \in 1 .. Len(all) : (i \in 1 .. Len(out) /\ i <= Len(out)) \/ (i - Len(out) \in 1 .. Len(new) /\ ~ i <= Len(out))
  BY <1>1, <1>2
<1>4. \A i \in 1 .. Len(all) : (\E h \in 1 .. Len(out) : all[i] = out[h]) \/ \E h \in 1 .. Len(new) : all[i] = new[h]
  BY <1>2, <1>3, Zenon
<1>5. OutOK(all, j)
  BY <1>4, Zenon DEF OutOK
<1>6. ASSUME NEW i \in 1 .. Len(out) PROVE i \in 1 .. Len(all) /\ all[i] = out[i]
  <2>1. i \in 1 .. Len(all) /\ i <= Len(out)
    BY <1>1, <1>2
  <2>2. QED BY <1>2, <2>1, Zenon
<1>7. ASSUME NEW i \in 1 .. Len(new) PROVE Len(out) + i \in 1 .. Len(all) /\ all[Len(out) + i] = new[i]
  <2>1. Len(out) + i \in 1 .. Len(all) /\ ~ Len(out) + i <= Len(out) /\ (Len(out) + i) - Len(out) = i
    BY <1>1, <1>2
  <2>2. QED BY <1>2, <2>1, Zenon
<1>8. QED BY <1>2, <1>5, <1>6, <1>7, Zenon DEF Covered

\* RequestLines marks the lines it asks for.
LEMMA PaintedIs ==
  ASSUME NEW w \in Window, NEW lo, NEW hi
  PROVE  RequestLines(w, lo, hi) = [w EXCEPT !.lines = Marked(w.lines, Missing(w, lo, hi))]
<1>1. w.max = 0
  BY WindowIs, Zenon
<1>2. QED BY <1>1, Zenon DEF RequestLines, Marked, Asking

\* A line that is marked as requested is in one of the requests.
LEMMA PaintStep == ASSUME JInv, NEW lo \in Key, NEW hi \in Key, lo <= hi, Paint(lo, hi) PROVE JInv'
<1>1. t.wins # <<>> /\ hi <= Len(t.wins[1].lines) /\ TermStep(Painted(t, 1, lo, hi))
  BY Zenon DEF Paint
<1>2. TermInv(t, toTerm, 0, key, log) /\ key \in 0 .. MaxLines
  BY Zenon DEF JInv, Ring
<1>3. /\ t \in Terminal /\ Len(t.wins) = 1 /\ t.wins[1] \in Window /\ OutOK(t.out, key)
      /\ t.wins[1].lines \in Seq(Line) /\ LinesOK(t.wins[1].lines, t.out, toTerm, 0, key, log)
      /\ t.out \in Seq(Request)
  BY <1>1, <1>2, TheWindow, Zenon
<1>4. PICK w : w = t.wins[1]
  OBVIOUS
<1>5. PICK ls, K, ks, rs : ls = w.lines /\ K = Missing(w, lo, hi) /\ ks = Looked(w, lo, hi) /\ rs = Runs(K, ks)
  OBVIOUS
<1>6. w \in Window /\ ls \in Seq(Line) /\ LinesOK(ls, t.out, toTerm, 0, key, log) /\ hi <= Len(ls)
  BY <1>1, <1>3, <1>4, <1>5, Zenon
<1>7. \A i \in 1 .. Len(ls) : LineOK(t.out, toTerm, 0, key, log, ls[i]) /\ ls[i].key \in 1 .. key
  BY <1>6, Zenon DEF LinesOK, LineOK, Recent
<1>8. key \in Nat /\ lo \in Nat \ {0} /\ hi \in Nat
  BY <1>2, Constants DEF Key
<1>9. ks \in Seq(1 .. key) /\ Len(ks) \in Nat /\ \A i \in lo .. hi : \E h \in 1 .. Len(ks) : ks[h] = ls[i].key
  <2>1. PICK S : S = 1 .. key
    OBVIOUS
  <2>2. hi <= Len(w.lines) /\ \A i \in 1 .. Len(w.lines) : w.lines[i].key \in S
    BY <1>6, <1>7, <1>5, <2>1, Zenon
  <2>3. ks \in Seq(S) /\ Len(ks) \in Nat /\ LooksAt(ks, w.lines, lo, hi)
    <3>1. lo \in Nat \ {0} /\ hi \in Nat /\ lo <= hi /\ w \in Window /\ ks = Looked(w, lo, hi)
      BY <1>6, <1>8, <1>5, Zenon
    <3>2. QED BY ONLY <2>2, <3>1, LookedIs, Zenon
  <2>4. QED BY <1>5, <2>1, <2>3, Zenon DEF LooksAt
<1>10. RunsOK(rs, K, ks, Len(ks), key)
  BY <1>8, <1>9, <1>5, RunsAre
<1>11. PICK new : new = Asks(w, rs)
  OBVIOUS
<1>12. new \in Seq(Request) /\ OutOK(new, key) /\ \A h \in 1 .. Len(ks) : ks[h] \in K => Covered(new, ks[h])
  BY <1>2, <1>6, <1>10, <1>11, AsksAre, Zenon
<1>13. PICK all : all = t.out \o new
  OBVIOUS
<1>14. all \in Seq(Request) /\ OutOK(all, key) /\ \A k : Covered(t.out, k) \/ Covered(new, k) => Covered(all, k)
  BY <1>3, <1>12, <1>13, SentToo, Zenon
<1>15. \A k \in K : Covered(all, k)
  <2>1. ASSUME NEW k \in K PROVE Covered(all, k)
    <3>1. PICK i \in lo .. hi : k = ls[i].key
      <4>1. k \in Missing(w, lo, hi)
        BY <1>5, Zenon
      <4>2. \E i \in lo .. hi : k = w.lines[i].key
        <5>1. w \in Window
          BY <1>6
        <5>2. QED BY ONLY <4>1, <5>1, MissingIs
      <4>3. QED BY <1>5, <4>2, Zenon
    <3>2. PICK h \in 1 .. Len(ks) : ks[h] = k
      BY <1>9, <3>1, Zenon
    <3>3. QED BY <1>12, <1>14, <3>2, Zenon
  <2>2. QED BY <2>1, Zenon
<1>16. PICK r : r = Marked(ls, K)
  OBVIOUS
<1>17. /\ r \in Seq(Line) /\ Len(r) = Len(ls)
       /\ \A i \in 1 .. Len(ls) : /\ r[i].key = ls[i].key /\ r[i].text = ls[i].text
                                  /\ ls[i].key \notin K => r[i] = ls[i]
  BY <1>6, <1>16, MarkedIs
<1>18. ASSUME NEW i \in 1 .. Len(r) PROVE LineOK(all, toTerm, 0, key, log, r[i])
  <2>1. i \in 1 .. Len(ls) /\ r[i].key = ls[i].key /\ r[i].text = ls[i].text /\ LineOK(t.out, toTerm, 0, key, log, ls[i])
    BY <1>7, <1>17, Zenon
  <2>2. Recent(toTerm, 0, key, r[i].key) /\ (IsReal(r[i]) => Right(toTerm, 0, log, r[i].key, r[i].text))
    BY <2>1, Zenon DEF LineOK, IsReal
  <2>3. IsAsked(r[i]) => Covered(all, r[i].key) \/ Later(toTerm, 0, r[i].key)
    <3>1. CASE ls[i].key \in K
      BY <1>15, <2>1, <3>1, Zenon
    <3>2. CASE ls[i].key \notin K
      <4>1. r[i] = ls[i]
        BY <1>17, <2>1, <3>2, Zenon
      <4>2. IsAsked(r[i]) => Covered(t.out, r[i].key) \/ Later(toTerm, 0, r[i].key)
        BY <2>1, <4>1, Zenon DEF LineOK
      <4>3. QED BY <1>14, <4>2, Zenon
    <3>3. QED BY <3>1, <3>2, Zenon
  <2>4. QED BY <2>2, <2>3, Zenon DEF LineOK
<1>19. LinesOK(r, all, toTerm, 0, key, log)
  <2>1. Sorted(ls)
    BY <1>6, Zenon DEF LinesOK
  <2>2. Sorted(r)
    BY <1>17, <2>1, Zenon DEF Sorted
  <2>3. QED BY <1>18, <2>2, Zenon DEF LinesOK
<1>20. PICK x : x = [w EXCEPT !.lines = r]
  OBVIOUS
<1>21. x \in Window /\ x.lines = r
  BY <1>6, <1>17, <1>20 DEF Window
<1>22. PICK u : u = [t EXCEPT !.wins[1] = x]
  OBVIOUS
<1>23. u \in Terminal /\ Len(u.wins) = 1 /\ u.wins[1] = x /\ u.out = t.out
  BY <1>3, <1>21, <1>22, Become
<1>24. PICK v : v = Painted(t, 1, lo, hi)
  OBVIOUS
<1>25. v = [u EXCEPT !.out = all]
  <2>1. v = [t EXCEPT !.wins[1] = RequestLines(w, lo, hi), !.out = @ \o Asks(w, rs)]
    BY <1>4, <1>24, <1>5, Zenon DEF Painted, Asks
  <2>2. RequestLines(w, lo, hi) = x
    <3>1. RequestLines(w, lo, hi) = [w EXCEPT !.lines = Marked(w.lines, Missing(w, lo, hi))]
      BY <1>6, PaintedIs, Zenon
    <3>2. Marked(w.lines, Missing(w, lo, hi)) = r
      BY <1>16, <1>5, Zenon
    <3>3. QED BY <1>20, <3>1, <3>2, Zenon
  <2>3. v = [t EXCEPT !.wins[1] = x, !.out = all]
    BY <1>11, <1>13, <2>1, <2>2, Zenon
  <2>4. QED BY <1>22, <2>3, Zenon
<1>26. v \in Terminal /\ v.wins = u.wins /\ v.out = all
  BY <1>14, <1>23, <1>25 DEF Terminal
<1>27. TermInv(v, toTerm, 0, key, log)
  <2>1. Len(v.wins) = 1 /\ v.wins[1].lines = r
    BY <1>21, <1>23, <1>26, Zenon
  <2>2. OutOK(v.out, key) /\ LinesOK(v.wins[1].lines, v.out, toTerm, 0, key, log)
    BY <1>14, <1>19, <1>26, <2>1, Zenon
  <2>3. QED BY <1>1, <1>2, <1>26, <2>1, <2>2, NewLines, Zenon
<1>28. QED BY <1>1, <1>24, <1>27, TermStepInv, Zenon

-----------------------------------------------------------------------------
(* The steps of the debugger. *)

\* More is sent behind the messages s.
Longer(w, s) == w \in Seq(Message) /\ Len(s) <= Len(w) /\ \A q \in 1 .. Len(s) : w[q] = s[q]

\* What is later or recent stays so when more is sent.
LEMMA LongerIs ==
  ASSUME NEW s \in Seq(Message), NEW w, Longer(w, s)
  PROVE  /\ \A n \in Nat : \A k : Later(s, n, k) => Later(w, n, k)
         /\ \A n \in Nat : \A j, k : Recent(s, n, j, k) => Recent(w, n, j, k)
<1>1. w \in Seq(Message) /\ Len(s) <= Len(w) /\ \A q \in 1 .. Len(s) : w[q] = s[q]
  BY Zenon DEF Longer
<1>2. Len(s) \in Nat /\ Len(w) \in Nat
  BY <1>1
<1>3. ASSUME NEW n \in Nat, NEW q \in n + 1 .. Len(s)
      PROVE  q \in n + 1 .. Len(w) /\ w[q] = s[q]
  <2>1. q \in n + 1 .. Len(w) /\ q \in 1 .. Len(s)
    BY <1>1, <1>2
  <2>2. QED BY <1>1, <2>1, Zenon
<1>4. \A n \in Nat : \A k : Later(s, n, k) => Later(w, n, k)
  BY <1>3, Zenon DEF Later
<1>5. ASSUME NEW n \in Nat, NEW j, NEW k, Recent(s, n, j, k) PROVE Recent(w, n, j, k)
  BY <1>3, <1>5, Zenon DEF Recent
<1>6. QED BY <1>4, <1>5, Zenon

\* Of what was sent behind s, x has m more than w.
OneMore(x, w, s, m) ==
  /\ x[Len(w) + 1] = m /\ Len(w) + 1 \in Len(s) + 1 .. Len(x)
  /\ \A q \in Len(s) + 1 .. Len(x) : q \in Len(s) + 1 .. Len(w) \/ q = Len(w) + 1
  /\ \A q \in Len(s) + 1 .. Len(w) : q \in Len(s) + 1 .. Len(x) /\ x[q] = w[q]

\* One message more.
LEMMA LongerTwice ==
  ASSUME NEW s \in Seq(Message), NEW w, Longer(w, s), NEW m \in Message, NEW x, x = Append(w, m)
  PROVE  Longer(x, s) /\ Len(x) = Len(w) + 1 /\ OneMore(x, w, s, m)
<1>1. w \in Seq(Message) /\ Len(s) <= Len(w) /\ \A q \in 1 .. Len(s) : w[q] = s[q]
  BY Zenon DEF Longer
<1>2. Len(s) \in Nat /\ Len(w) \in Nat
  BY <1>1
<1>3. /\ x \in Seq(Message) /\ Len(x) = Len(w) + 1 /\ x[Len(w) + 1] = m
      /\ \A q \in 1 .. Len(w) : x[q] = w[q]
  BY <1>1
<1>4. \A q \in 1 .. Len(s) : q \in 1 .. Len(w)
  BY <1>1, <1>2
<1>5. Len(s) <= Len(x) /\ Len(w) + 1 \in Len(s) + 1 .. Len(x)
  BY <1>1, <1>2, <1>3
<1>6. Longer(x, s)
  BY <1>1, <1>3, <1>4, <1>5, Zenon DEF Longer
<1>7. \A q \in Len(s) + 1 .. Len(x) : q \in Len(s) + 1 .. Len(w) \/ q = Len(w) + 1
  BY <1>1, <1>2, <1>3
<1>8. \A q \in Len(s) + 1 .. Len(w) : q \in Len(s) + 1 .. Len(x) /\ q \in 1 .. Len(w)
  BY <1>1, <1>2, <1>3
<1>9. QED BY <1>3, <1>5, <1>6, <1>7, <1>8, Zenon DEF OneMore

\* The messages w and a journal of j2 lines put right what s and j lines did.
Keeps(w, j2, g2, s, j, g) ==
  \A n \in 0 .. Len(s) : \A k : Recent(s, n, j, k) =>
    /\ Recent(w, n, j2, k)
    /\ \A x : Right(s, n, g, k, x) => Right(w, n, g2, k, x)

\* More was sent, perhaps with a new line of the journal or one counted
\* again, and perhaps a request was taken.
LEMMA MoreSent ==
  ASSUME NEW u, NEW s, NEW j, NEW g, TermInv(u, s, 0, j, g),
         NEW w, Longer(w, s), NEW j2, NEW g2, Keeps(w, j2, g2, s, j, g),
         \A q \in Len(s) + 1 .. Len(w) : MessageOK(w, q, j2, g2) /\ w[q] # PadDef,
         NEW v \in Terminal, v.wins = u.wins, OutOK(v.out, j2),
         \A k : Recent(s, 0, j, k) /\ Covered(u.out, k) => Covered(v.out, k) \/ Later(w, 0, k)
  PROVE  TermInv(v, w, 0, j2, g2)
<1>1. /\ Len(u.wins) <= 1 /\ s \in Seq(Message) /\ Defines(u, s, 0) /\ MessagesOK(s, 0, j, g)
      /\ LinesOK(LinesOf(u), u.out, s, 0, j, g)
  BY Zenon DEF TermInv
<1>2. w \in Seq(Message) /\ Len(s) <= Len(w) /\ \A q \in 1 .. Len(s) : w[q] = s[q]
  BY Zenon DEF Longer
<1>3. Len(s) \in Nat /\ Len(w) \in Nat /\ 0 + 1 = 1 /\ 0 \in Nat /\ 0 \in 0 .. Len(s)
  BY <1>1, <1>2
<1>4. \A q \in 0 + 1 .. Len(w) :
        \/ q \in 0 + 1 .. Len(s) /\ q \in 0 .. Len(s) /\ q \in 1 .. Len(s)
        \/ q \in Len(s) + 1 .. Len(w) /\ (0 < Len(s) => q # 0 + 1)
  BY <1>2, <1>3
<1>5. Defines(v, w, 0)
  <2>1. v.wins = <<>> => 0 < Len(s) /\ 0 < Len(w)
    <3>1. 0 < Len(s) => 0 < Len(w)
      BY <1>2, <1>3
    <3>2. QED BY <1>1, <3>1, Zenon DEF Defines
  <2>2. ASSUME NEW q \in 0 + 1 .. Len(w) PROVE w[q] = PadDef <=> v.wins = <<>> /\ q = 0 + 1
    <3>1. CASE q \in 0 + 1 .. Len(s) /\ q \in 1 .. Len(s)
      <4>1. w[q] = s[q] /\ (s[q] = PadDef <=> u.wins = <<>> /\ q = 0 + 1)
        BY <1>1, <1>2, <3>1, Zenon DEF Defines
      <4>2. QED BY <4>1, Zenon
    <3>2. CASE q \in Len(s) + 1 .. Len(w) /\ (0 < Len(s) => q # 0 + 1)
      BY <2>1, <3>2, Zenon
    <3>3. QED BY <1>4, <3>1, <3>2, Zenon
  <2>3. QED BY <2>1, <2>2, Zenon DEF Defines
<1>6. MessagesOK(w, 0, j2, g2)
  <2>1. ASSUME NEW q \in 0 + 1 .. Len(w) PROVE MessageOK(w, q, j2, g2)
    <3>1. CASE q \in 0 + 1 .. Len(s) /\ q \in 0 .. Len(s) /\ q \in 1 .. Len(s)
      <4>1. w[q] = s[q] /\ MessageOK(s, q, j, g)
        BY <1>1, <1>2, <3>1, Zenon DEF MessagesOK
      <4>2. \A k : Recent(s, q, j, k) =>
              Recent(w, q, j2, k) /\ \A x : Right(s, q, g, k, x) => Right(w, q, g2, k, x)
        BY <3>1, Zenon DEF Keeps
      <4>3. QED BY <4>1, <4>2, Zenon DEF MessageOK
    <3>2. CASE q \in Len(s) + 1 .. Len(w)
      BY <3>2, Zenon
    <3>3. QED BY <1>4, <3>1, <3>2, Zenon
  <2>2. QED BY <2>1, Zenon DEF MessagesOK
<1>7. LinesOK(LinesOf(v), v.out, w, 0, j2, g2)
  <2>1. LinesOf(v) = LinesOf(u)
    BY Zenon DEF LinesOf
  <2>2. ASSUME NEW l, LineOK(u.out, s, 0, j, g, l) PROVE LineOK(v.out, w, 0, j2, g2, l)
    <3>1. Recent(s, 0, j, l.key)
      BY <2>2, Zenon DEF LineOK
    <3>2. Recent(w, 0, j2, l.key) /\ \A x : Right(s, 0, g, l.key, x) => Right(w, 0, g2, l.key, x)
      BY <1>3, <3>1, Zenon DEF Keeps
    <3>3. Later(s, 0, l.key) => Later(w, 0, l.key)
      <4>1. \A n \in Nat : \A k : Later(s, n, k) => Later(w, n, k)
        BY <1>1, LongerIs, Zenon
      <4>2. QED BY <1>3, <4>1, Zenon
    <3>4. IsAsked(l) => Covered(v.out, l.key) \/ Later(w, 0, l.key)
      BY <2>2, <3>1, <3>3, Zenon DEF LineOK
    <3>5. QED BY <2>2, <3>2, <3>4, Zenon DEF LineOK
  <2>3. QED BY <1>1, <2>1, <2>2, Zenon DEF LinesOK
<1>8. QED BY <1>1, <1>2, <1>5, <1>6, <1>7, Zenon DEF TermInv

\* A line in the ring is sent as it is in the journal.
LEMMA LineOfIs ==
  ASSUME Ring, NEW k \in 1 .. key, k > key - length
  PROVE  LineOf(bls, ct, k) = Shows(k, log[k]) /\ log[k] \in Texts /\ Shows(k, log[k]) \in Message /\ k \in Key
<1>1. key \in 0 .. MaxLines /\ log \in Seq(Texts) /\ Len(log) = key
  BY Zenon DEF Ring
<1>2. bls[k % length] = log[k].text /\ ct[k % length] = log[k].count
  BY Zenon DEF Ring
<1>3. log[k] \in Texts /\ k \in Key
  BY <1>1, Constants DEF Key
<1>4. PICK x : x = log[k]
  OBVIOUS
<1>5. x = [text |-> x.text, count |-> x.count] /\ x.count \in 1 .. MaxCount
  BY <1>3, <1>4 DEF Texts
<1>6. (IF x.count > 1 THEN x.count ELSE 1) = x.count
  BY <1>5, Constants
<1>7. LineOf(bls, ct, k) = Shows(k, [text |-> x.text, count |-> IF x.count > 1 THEN x.count ELSE 1])
  BY <1>2, <1>4, Zenon DEF LineOf, Shows
<1>8. LineOf(bls, ct, k) = Shows(k, x)
  BY <1>5, <1>6, <1>7, Zenon
<1>9. QED BY <1>3, <1>4, <1>8, MessagesAre, Zenon

\* Messages are told apart by their kinds, keys and texts.
LEMMA ShowsIs ==
  /\ \A h, k, x, y : Shows(h, x) = Shows(k, y) => h = k /\ x = y
  /\ \A h, k, x : Shows(h, x) # Creates(k) /\ Shows(h, x) # Removes(k) /\ Creates(h) # Removes(k)
  /\ \A h, k : Creates(h) = Creates(k) => h = k
<1>1. \A k, x : Shows(k, x).key = k /\ Shows(k, x).text = x /\ Creates(k).lo = k
  BY DEF Shows, Creates
<1>2. "LINE" # "CREATELINE" /\ "LINE" # "REMOVELINE" /\ "CREATELINE" # "REMOVELINE"
  OBVIOUS
<1>3. \A h, k, x, y : Shows(h, x) = Shows(k, y) => h = k /\ x = y
  <2>1. ASSUME NEW h, NEW k, NEW x, NEW y, Shows(h, x) = Shows(k, y) PROVE h = k /\ x = y
    <3>1. Shows(h, x).key = Shows(k, y).key /\ Shows(h, x).text = Shows(k, y).text
      BY <2>1, Zenon
    <3>2. QED BY ONLY <1>1, <3>1
  <2>2. QED BY <2>1, Zenon
<1>4. \A h, k : Creates(h) = Creates(k) => h = k
  <2>1. ASSUME NEW h, NEW k, Creates(h) = Creates(k) PROVE h = k
    <3>1. Creates(h).lo = Creates(k).lo
      BY <2>1, Zenon
    <3>2. QED BY ONLY <1>1, <3>1
  <2>2. QED BY <2>1, Zenon
<1>5. \A h, k, x : Shows(h, x) # Creates(k) /\ Shows(h, x) # Removes(k) /\ Creates(h) # Removes(k)
  BY <1>2, MessageOp, Zenon
<1>6. QED BY <1>3, <1>4, <1>5, Zenon

\* The first n lines of ns were served, r is what came of it.
Served(r, ns, n) ==
  /\ Longer(r.sent, toTerm) /\ r.lastreq \in 0 .. key
  /\ \A q \in Len(toTerm) + 1 .. Len(r.sent) :
       \E k \in 1 .. key : k > key - length /\ r.sent[q] = Shows(k, log[k])
  /\ \A h \in 1 .. n : ns[h] > key - length =>
       \E q \in Len(toTerm) + 1 .. Len(r.sent) : r.sent[q] = Shows(ns[h], log[ns[h]])

\* linereq sends the line, as the journal has it, or finds it too late.
LEMMA ServedOne ==
  ASSUME Ring, toTerm \in Seq(Message), NEW r, NEW ns, NEW n \in Nat, Served(r, ns, n),
         NEW k \in 1 .. key, ns[n + 1] = k, NEW v, v = linereq(r, k)
  PROVE  Served(v, ns, n + 1)
<1>1. key \in Nat /\ k \in Int /\ length \in Nat
  BY Constants DEF Ring
<1>2. \A h \in 1 .. n + 1 : h \in 1 .. n \/ h = n + 1
  OBVIOUS
<1>3. TooLate(k) <=> ~ k > key - length
  BY <1>1 DEF TooLate
<1>4. CASE TooLate(k)
  <2>1. v = r
    BY <1>4, Zenon DEF linereq
  <2>2. QED BY <1>2, <1>3, <1>4, <2>1, Zenon DEF Served
<1>5. CASE k > key - length
  <2>1. PICK m : m = Shows(k, log[k])
    OBVIOUS
  <2>2. m = LineOf(bls, ct, k) /\ m \in Message
    BY <1>5, <2>1, LineOfIs, Zenon
  <2>3. v = [sent |-> Append(r.sent, m), lastreq |-> k]
    BY <1>3, <1>5, <2>2, Zenon DEF linereq
  <2>4. v.sent = Append(r.sent, m) /\ v.lastreq \in 0 .. key
    BY <1>1, <2>3
  <2>5. PICK s, w, x : s = toTerm /\ w = r.sent /\ x = v.sent
    OBVIOUS
  <2>6. Longer(w, s) /\ s \in Seq(Message) /\ x = Append(w, m)
    BY <2>4, <2>5, Zenon DEF Served
  <2>7. /\ Longer(x, s) /\ x[Len(w) + 1] = m /\ Len(w) + 1 \in Len(s) + 1 .. Len(x)
        /\ \A q \in Len(s) + 1 .. Len(x) : q \in Len(s) + 1 .. Len(w) \/ q = Len(w) + 1
        /\ \A q \in Len(s) + 1 .. Len(w) : q \in Len(s) + 1 .. Len(x) /\ x[q] = w[q]
    <3>1. Longer(x, s) /\ OneMore(x, w, s, m)
      BY ONLY <2>2, <2>6, LongerTwice
    <3>2. QED BY <3>1, Zenon DEF OneMore
  <2>8. \A q \in Len(s) + 1 .. Len(x) : \E h \in 1 .. key : h > key - length /\ x[q] = Shows(h, log[h])
    <3>1. \A q \in Len(s) + 1 .. Len(w) : \E h \in 1 .. key : h > key - length /\ w[q] = Shows(h, log[h])
      BY <2>5, Zenon DEF Served
    <3>2. ASSUME NEW q \in Len(s) + 1 .. Len(x)
          PROVE  \E h \in 1 .. key : h > key - length /\ x[q] = Shows(h, log[h])
      <4>1. CASE q \in Len(s) + 1 .. Len(w)
        BY <2>7, <3>1, <4>1, Zenon
      <4>2. CASE q = Len(w) + 1
        BY <1>5, <2>1, <2>7, <4>2, Zenon
      <4>3. QED BY <2>7, <4>1, <4>2, Zenon
    <3>3. QED BY <3>2, Zenon
  <2>9. ASSUME NEW h \in 1 .. n + 1, ns[h] > key - length
        PROVE  \E q \in Len(s) + 1 .. Len(x) : x[q] = Shows(ns[h], log[ns[h]])
    <3>1. CASE h = n + 1
      BY <2>1, <2>7, <3>1, Zenon
    <3>2. CASE h \in 1 .. n
      <4>1. PICK q \in Len(s) + 1 .. Len(w) : w[q] = Shows(ns[h], log[ns[h]])
        BY <2>5, <2>9, <3>2, Zenon DEF Served
      <4>2. QED BY <2>7, <4>1, Zenon
    <3>3. QED BY <1>2, <3>1, <3>2, Zenon
  <2>10. QED BY <2>4, <2>5, <2>7, <2>8, <2>9, Zenon DEF Served
<1>6. QED BY <1>3, <1>4, <1>5, Zenon

\* TermServe serves every line of a request.
LEMMA ServedAll ==
  ASSUME Ring, toTerm \in Seq(Message), NEW ns \in Seq(1 .. key),
         NEW v, v = FoldLeft(linereq, [sent |-> toTerm, lastreq |-> lastreq], ns)
  PROVE  Served(v, ns, Len(ns))
<1>1. Len(ns) \in Nat /\ DOMAIN ns = 1 .. Len(ns) /\ \A i \in 1 .. Len(ns) : ns[i] \in 1 .. key
  <2>1. key \in Nat
    BY Constants DEF Ring
  <2>2. QED BY <2>1
<1>2. PICK r : r = [sent |-> toTerm, lastreq |-> lastreq]
  OBVIOUS
<1>3. PICK f : Turns(f, "linereq", {}, r, ns) /\ v = f[Len(ns)]
  BY <1>1, <1>2, linereqTurns, Zenon
<1>4. f[0] = r /\ \A i \in 1 .. Len(ns) : f[i] = linereq(f[i - 1], ns[i])
  <2>1. \A m, e : Turn("linereq", {}, m, e) = linereq(m, e)
    BY DEF Turn
  <2>2. QED BY <1>3, <2>1, Zenon DEF Turns
<1> DEFINE T == { i \in 0 .. Len(ns) : Served(f[i], ns, i) }
<1>5. 0 \in T
  <2>1. r.sent = toTerm /\ r.lastreq = lastreq
    BY <1>2
  <2>2. Longer(toTerm, toTerm)
    BY DEF Longer
  <2>3. Len(toTerm) \in Nat
    OBVIOUS
  <2>4. ~ (\E q \in Len(toTerm) + 1 .. Len(toTerm) : TRUE) /\ ~ (\E h \in 1 .. 0 : TRUE)
    BY <2>3
  <2>5. lastreq \in 0 .. key
    BY Zenon DEF Ring
  <2>6. Served(r, ns, 0)
    BY <2>1, <2>2, <2>4, <2>5, Zenon DEF Served
  <2>7. 0 \in 0 .. Len(ns)
    BY <1>1
  <2>8. QED BY <1>4, <2>6, <2>7, Zenon
<1>6. ASSUME NEW i \in 0 .. Len(ns) - 1, i \in T PROVE i + 1 \in T
  <2>1. i \in Nat /\ i + 1 \in 1 .. Len(ns) /\ i + 1 \in 0 .. Len(ns) /\ (i + 1) - 1 = i
    BY <1>1
  <2>2. PICK k : k = ns[i + 1]
    OBVIOUS
  <2>3. k \in 1 .. key /\ Served(f[i], ns, i) /\ f[i + 1] = linereq(f[i], k)
    BY <1>1, <1>4, <1>6, <2>1, <2>2, Zenon
  <2>4. Served(f[i + 1], ns, i + 1)
    BY <2>1, <2>2, <2>3, ServedOne, Zenon
  <2>5. QED BY <2>1, <2>4, Zenon
<1> HIDE DEF T
<1>7. \A i \in 0 .. Len(ns) - 1 : i \in T => i + 1 \in T
  BY <1>6, Zenon
<1>8. Len(ns) \in T
  BY <1>1, <1>5, <1>7, InductTo, Zenon
<1>9. QED BY <1>3, <1>8, Zenon DEF T

\* The lines of a request, each of which the journal has.
LEMMA RequestedLines ==
  ASSUME NEW lo, NEW hi, NEW j \in Nat, lo \in 1 .. j, hi \in 1 .. j, lo <= hi, NEW ns, ns = UpTo(lo, hi)
  PROVE  ns \in Seq(1 .. j) /\ \A k \in lo .. hi : \E h \in 1 .. Len(ns) : ns[h] = k
<1>1. lo \in Nat /\ hi \in Nat /\ lo <= hi + 1
  OBVIOUS
<1>2. PICK n : n = 1 + hi - lo
  OBVIOUS
<1>3. n \in Nat
  BY <1>2
<1>4. ns = [i \in 1 .. n |-> lo + i - 1]
  BY <1>2, Zenon DEF UpTo
<1>5. \A i \in 1 .. n : lo + i - 1 \in 1 .. j
  BY <1>1, <1>2
<1>6. ns \in [1 .. n -> 1 .. j]
  BY <1>4, <1>5, Zenon
<1>7. ns \in Seq(1 .. j) /\ Len(ns) = n
  BY ONLY <1>3, <1>6
<1>8. ASSUME NEW k \in lo .. hi PROVE \E h \in 1 .. Len(ns) : ns[h] = k
  <2>1. PICK h : h = k - lo + 1
    OBVIOUS
  <2>2. h \in 1 .. n /\ lo + h - 1 = k
    BY <1>1, <1>2, <2>1
  <2>3. ns[h] = lo + h - 1
    BY <1>4, <2>2, Zenon
  <2>4. QED BY <1>7, <2>2, <2>3, Zenon
<1>9. QED BY <1>7, <1>8, Zenon

\* The requests but for the first, which was read.
LEMMA Taken ==
  ASSUME NEW out \in Seq(Request), out # <<>>, NEW j, OutOK(out, j), NEW w, w = Tail(out)
  PROVE  /\ w \in Seq(Request) /\ OutOK(w, j) /\ Head(out) = out[1] /\ 1 \in 1 .. Len(out)
         /\ \A k : Covered(out, k) => k \in out[1].lo .. out[1].hi \/ Covered(w, k)
<1>1. w \in Seq(Request) /\ Len(w) = Len(out) - 1 /\ \A i \in 1 .. Len(w) : w[i] = out[i + 1]
  BY HeadTailProperties
<1>2. Len(out) \in Nat /\ Head(out) = out[1]
  OBVIOUS
<1>3. 1 \in 1 .. Len(out)
  <2>1. Len(out) # 0
    BY EmptySeq, Zenon
  <2>2. QED BY <1>2, <2>1
<1>4. \A i \in 1 .. Len(w) : i + 1 \in 1 .. Len(out)
  BY <1>1, <1>2
<1>5. OutOK(w, j)
  BY <1>1, <1>4, Zenon DEF OutOK
<1>6. ASSUME NEW i \in 1 .. Len(out) PROVE i = 1 \/ (i - 1 \in 1 .. Len(w) /\ w[i - 1] = out[i])
  <2>1. i = 1 \/ (i - 1 \in 1 .. Len(w) /\ (i - 1) + 1 = i)
    BY <1>1, <1>2
  <2>2. QED BY <1>1, <2>1, Zenon
<1>7. QED BY <1>1, <1>2, <1>3, <1>5, <1>6, Zenon DEF Covered

\* A line that is too late will be removed; any other is on its way.
LEMMA ServeStep == ASSUME JInv, ServeLineReq PROVE JInv'
<1>1. PICK m, ns, r :
        /\ m = Head(t.out) /\ ns = Dispatched(m)
        /\ r = FoldLeft(linereq, [sent |-> toTerm, lastreq |-> lastreq], ns)
  OBVIOUS
<1>2. /\ t.out # <<>> /\ toTerm' = r.sent /\ lastreq' = r.lastreq /\ t' = [t EXCEPT !.out = Tail(@)]
      /\ key' = key /\ bls' = bls /\ ct' = ct /\ log' = log
  BY <1>1, Zenon DEF ServeLineReq
<1>3. Ring /\ TermInv(t, toTerm, 0, key, log)
  BY Zenon DEF JInv
<1>4. t \in Terminal /\ toTerm \in Seq(Message) /\ OutOK(t.out, key) /\ t.out \in Seq(Request)
  BY <1>3, TerminalIs, Zenon DEF TermInv
<1>5. PICK out : out = Tail(t.out)
  OBVIOUS
<1>6. /\ out \in Seq(Request) /\ OutOK(out, key) /\ m = t.out[1] /\ 1 \in 1 .. Len(t.out)
      /\ \A k : Covered(t.out, k) => k \in t.out[1].lo .. t.out[1].hi \/ Covered(out, k)
  BY <1>1, <1>2, <1>4, <1>5, Taken, Zenon
<1>7. m.lo \in 1 .. key /\ m.hi \in 1 .. key /\ m.lo <= m.hi
  BY <1>4, <1>6, Zenon DEF OutOK
<1>8. key \in Nat /\ length \in Nat
  BY <1>3, Constants DEF Ring
<1>9. /\ ns \in Seq(1 .. key)
      /\ Overrides => \A k \in m.lo .. m.hi : \E h \in 1 .. Len(ns) : ns[h] = k
  <2>1. CASE Overrides
    <3>1. ns = UpTo(m.lo, m.hi)
      BY <1>1, <2>1, Zenon DEF Dispatched
    <3>2. ns \in Seq(1 .. key) /\ \A k \in m.lo .. m.hi : \E h \in 1 .. Len(ns) : ns[h] = k
      BY <1>7, <1>8, <3>1, RequestedLines
    <3>3. QED BY <3>2, Zenon
  <2>2. CASE ~Overrides
    <3>1. ns = <<>>
      BY <1>1, <2>2, Zenon DEF Dispatched
    <3>2. ns \in Seq(1 .. key)
      BY <1>8, <3>1
    <3>3. QED BY <2>2, <3>2, Zenon
  <2>3. QED BY <2>1, <2>2, Zenon
<1>10. Served(r, ns, Len(ns))
  BY <1>1, <1>3, <1>4, <1>9, ServedAll, Zenon
<1>11. PICK s, w : s = toTerm /\ w = r.sent
  OBVIOUS
<1>12. /\ Longer(w, s) /\ r.lastreq \in 0 .. key /\ s \in Seq(Message) /\ TermInv(t, s, 0, key, log)
       /\ \A q \in Len(s) + 1 .. Len(w) : \E k \in 1 .. key : k > key - length /\ w[q] = Shows(k, log[k])
       /\ \A h \in 1 .. Len(ns) : ns[h] > key - length =>
            \E q \in Len(s) + 1 .. Len(w) : w[q] = Shows(ns[h], log[ns[h]])
  BY <1>3, <1>4, <1>10, <1>11, Zenon DEF Served
<1>13. Len(s) \in Nat /\ Len(w) \in Nat /\ 0 \in Nat /\ \A n \in 0 .. Len(s) : n \in Nat
  BY <1>12 DEF Longer
<1>14. /\ \A n \in Nat : \A k : Later(s, n, k) => Later(w, n, k)
       /\ \A n \in Nat : \A j, k : Recent(s, n, j, k) => Recent(w, n, j, k)
  BY <1>12, LongerIs, Zenon
<1>15. Keeps(w, key, log, s, key, log)
  BY <1>13, <1>14, Zenon DEF Keeps, Right
<1>16. ASSUME NEW q \in Len(s) + 1 .. Len(w) PROVE MessageOK(w, q, key, log) /\ w[q] # PadDef
  <2>1. PICK k \in 1 .. key : k > key - length /\ w[q] = Shows(k, log[k])
    BY <1>12, Zenon
  <2>2. k \in Key /\ log[k] \in Texts
    BY <1>3, <2>1, LineOfIs, Zenon
  <2>3. w[q] # PadDef /\ \A h : w[q] # Creates(h)
    BY <2>1, <2>2, MessagesAre, ShowsIs, Zenon
  <2>4. Recent(w, q, key, k) /\ Right(w, q, log, k, log[k])
    BY <2>1, Zenon DEF Recent, Right
  <2>5. ASSUME NEW h \in Key, NEW x \in Texts, w[q] = Shows(h, x)
        PROVE  Recent(w, q, key, h) /\ Right(w, q, log, h, x)
    <3>1. h = k /\ x = log[k]
      <4>1. PICK y : y = log[k]
        OBVIOUS
      <4>2. Shows(h, x) = Shows(k, y)
        BY <2>1, <2>5, <4>1, Zenon
      <4>3. h = k /\ x = y
        BY ONLY <4>2, ShowsIs
      <4>4. QED BY <4>1, <4>3, Zenon
    <3>2. QED BY <2>4, <3>1, Zenon
  <2>6. QED BY <2>3, <2>5, Zenon DEF MessageOK
<1>17. PICK v : v = [t EXCEPT !.out = out]
  OBVIOUS
<1>18. v \in Terminal /\ v.wins = t.wins /\ v.out = out
  BY <1>4, <1>6, <1>17 DEF Terminal
<1>19. ASSUME NEW k, Recent(s, 0, key, k), Covered(t.out, k) PROVE Covered(v.out, k) \/ Later(w, 0, k)
  <2>1. CASE Covered(out, k)
    BY <1>18, <2>1, Zenon
  <2>0. CASE ~Overrides
    BY <2>0, Zenon DEF Covered
  <2>2. CASE Overrides /\ k \in m.lo .. m.hi
    <3>1. PICK h \in 1 .. Len(ns) : ns[h] = k
      BY <1>9, <2>2, Zenon
    <3>2. CASE k > key - length
      <4>1. PICK q \in Len(s) + 1 .. Len(w) : w[q] = Shows(k, log[k])
        BY <1>12, <3>1, <3>2, Zenon
      <4>2. q \in 0 + 1 .. Len(w)
        BY <1>13
      <4>3. k \in 1 .. key
        BY <1>19, Zenon DEF Recent
      <4>4. log[k] \in Texts
        BY <1>3, <3>2, <4>3, LineOfIs, Zenon
      <4>5. QED BY <4>1, <4>2, <4>4, Zenon DEF Later, Touches
    <3>3. CASE ~ k > key - length
      <4>1. PICK q \in 0 + 1 .. Len(s) : s[q] = Removes(k)
        BY <1>19, <3>3, Zenon DEF Recent
      <4>2. Later(s, 0, k)
        BY <4>1, Zenon DEF Later, Touches
      <4>3. QED BY <1>13, <1>14, <4>2, Zenon
    <3>4. QED BY <3>2, <3>3, Zenon
  <2>3. QED BY <1>6, <1>19, <2>0, <2>1, <2>2, Zenon
<1>20. TermInv(v, w, 0, key, log)
  <2>1. OutOK(v.out, key)
    BY <1>6, <1>18, Zenon
  <2>2. QED BY <1>12, <1>15, <1>16, <1>18, <1>19, <2>1, MoreSent, Zenon
<1>21. t' = v /\ toTerm' = w
  BY <1>2, <1>5, <1>11, <1>17, Zenon
<1>22. Ring'
  <2>1. lastreq' \in 0 .. key
    BY <1>2, <1>12, Zenon
  <2>2. QED BY <1>2, <1>3, <2>1, Zenon DEF Ring
<1>23. TermInv(t', toTerm', 0, key', log')
  BY <1>2, <1>20, <1>21, Zenon
<1>24. QED BY <1>22, <1>23, Zenon DEF JInv

\* The lines of the ring are at different places.
LEMMA OtherPlace ==
  ASSUME NEW n \in Nat \ {0}, NEW h \in Nat, NEW k \in Nat, h < k, k < h + n
  PROVE  h % n # k % n
<1>1. PICK a, b, p, q : a = h % n /\ b = k % n /\ p = h \div n /\ q = k \div n
  OBVIOUS
<1>2. a \in 0 .. n - 1 /\ b \in 0 .. n - 1 /\ p \in Int /\ q \in Int /\ h = n * p + a /\ k = n * q + b
  BY <1>1
<1>3. ASSUME a = b PROVE FALSE
  <2>1. k - h = n * (q - p)
    BY <1>2, <1>3
  <2>2. PICK d : d = q - p
    OBVIOUS
  <2>3. d \in Int /\ n * d = k - h /\ 0 < k - h /\ k - h < n
    BY <1>2, <2>1, <2>2
  <2>4. d <= 0 \/ d >= 1
    BY <2>3
  <2>5. d <= 0 => n * d <= 0
    BY <2>3
  <2>6. d >= 1 => n * d >= n
    BY <2>3
  <2>7. QED BY <2>3, <2>4, <2>5, <2>6
<1>4. QED BY <1>1, <1>3, Zenon

\* What insert does: line k, which is the next one or the latest again, now
\* occurred one more than c times, and the journal is g.
Enters(x, k, c, g, shown) ==
  /\ key' = k /\ k \in 1 .. MaxLines /\ lastreq' = lastreq /\ t' = t
  /\ \/ key # 0 /\ k = key /\ x = log[k].text /\ c = log[k].count
     \/ k = key + 1 /\ c = 0
  /\ c + 1 \in 1 .. MaxCount
  /\ bls' = [bls EXCEPT ![k % length] = x] /\ ct' = [ct EXCEPT ![k % length] = c + 1]
  /\ log' = g /\ g \in Seq(Texts) /\ Len(g) = k /\ g[k] = [text |-> x, count |-> c + 1]
  /\ \A h \in 1 .. k - 1 : h \in 1 .. key /\ g[h] = log[h]
  /\ toTerm' = toTerm \o <<shown>> \o Outdated(k)
  /\ \/ shown = Creates(k)
     \/ k = key /\ shown = Shows(k, log[k])

\* Each line has its place in the ring.
LEMMA SlotIs == \A k \in Nat : k % length \in Slot
BY Constants DEF Slot

\* insert does what Enters says.
LEMMA insertIs ==
  ASSUME Ring, NEW x \in Text, insert(x)
  PROVE  \E k, c, g, shown : Enters(x, k, c, g, shown)
<1>1. PICK k : k = IF Repeats(x) THEN key ELSE key + 1
  OBVIOUS
<1>2. PICK i, old : i = k % length /\ old = IF Repeats(x) THEN ct[i] ELSE 0
  OBVIOUS
<1>3. PICK ring, count :
        ring = [bls EXCEPT ![i] = x] /\ count = [ct EXCEPT ![i] = IF Repeats(x) THEN @ ELSE 0]
  OBVIOUS
<1>4. PICK shown : shown = IF lastreq = k THEN LineOf(ring, count, k)
                           ELSE [op |-> "CREATELINE", obj |-> Object, lo |-> k, hi |-> k]
  OBVIOUS
<1>5. /\ k <= MaxLines /\ count[i] < MaxCount
      /\ key' = k /\ bls' = ring /\ ct' = [count EXCEPT ![i] = @ + 1]
      /\ toTerm' = toTerm \o <<shown>> \o Outdated(k)
      /\ log' = [j \in 1 .. k |-> IF j < k THEN log[j] ELSE [text |-> x, count |-> count[i] + 1]]
      /\ lastreq' = lastreq /\ t' = t
  BY <1>1, <1>2, <1>3, <1>4, Zenon DEF insert
<1>6. /\ key \in 0 .. MaxLines /\ key \in Nat /\ lastreq \in 0 .. key /\ length \in Nat \ {0}
      /\ bls \in [Slot -> Text \cup {TILDE}] /\ ct \in [Slot -> 0 .. MaxCount]
      /\ log \in Seq(Texts) /\ Len(log) = key /\ MaxCount \in Nat /\ MaxLines \in Nat
  BY Constants DEF Ring
<1>7. k \in Nat /\ k \in 1 .. MaxLines /\ (k = key \/ k = key + 1)
  <2>1. Repeats(x) => key # 0
    BY Zenon DEF Repeats
  <2>2. QED BY <1>1, <1>5, <1>6, <2>1
<1>8. i \in Slot
  BY <1>2, <1>7, SlotIs, Zenon
<1>9. old \in 0 .. MaxCount /\ count[i] = old /\ old + 1 \in 1 .. MaxCount
  <2>1. ct[i] \in 0 .. MaxCount
    BY <1>6, <1>8, Zenon
  <2>2. old \in 0 .. MaxCount
    BY <1>2, <1>6, <2>1
  <2>3. count[i] = old
    BY <1>2, <1>3, <1>6, <1>8
  <2>4. QED BY <1>5, <1>6, <2>2, <2>3
<1>10. ct' = [ct EXCEPT ![i] = old + 1]
  BY <1>3, <1>5, <1>6, <1>8, <1>9
<1>11. PICK g : g = [j \in 1 .. k |-> IF j < k THEN log[j] ELSE [text |-> x, count |-> old + 1]]
  OBVIOUS
<1>12. PICK e : e = [text |-> x, count |-> old + 1]
  OBVIOUS
<1>13. e \in Texts
  BY <1>9, <1>12 DEF Texts
<1>14. \A h \in 1 .. k : IF h < k THEN h \in 1 .. key ELSE h = k
  BY <1>6, <1>7
<1>15. \A h \in 1 .. key : log[h] \in Texts
  BY <1>6
<1>16. g = [j \in 1 .. k |-> IF j < k THEN log[j] ELSE e]
  BY <1>11, <1>12, Zenon
<1>17. g \in [1 .. k -> Texts]
  <2>1. \A h \in 1 .. k : (IF h < k THEN log[h] ELSE e) \in Texts
    BY <1>13, <1>14, <1>15, Zenon
  <2>2. QED BY <1>16, <2>1, Zenon
<1>18. g \in Seq(Texts) /\ Len(g) = k
  BY ONLY <1>7, <1>17
<1>19. g[k] = e
  <2>1. k \in 1 .. k /\ ~ k < k
    BY <1>7
  <2>2. QED BY <1>16, <2>1, Zenon
<1>20. \A h \in 1 .. k - 1 : h \in 1 .. key /\ g[h] = log[h]
  <2>1. \A h \in 1 .. k - 1 : h \in 1 .. k /\ h < k
    BY <1>7
  <2>2. QED BY <1>14, <1>16, <2>1, Zenon
<1>21. log' = g
  BY <1>5, <1>9, <1>11, Zenon
<1>22. \/ key # 0 /\ k = key /\ x = log[k].text /\ old = log[k].count
       \/ k = key + 1 /\ old = 0
  <2>1. CASE Repeats(x)
    <3>1. key # 0 /\ k = key /\ bls[k % length] = x /\ old = ct[k % length]
      BY <1>1, <1>2, <2>1, Zenon DEF Repeats
    <3>2. k \in 1 .. key /\ k > key - length
      BY <1>6, <3>1
    <3>3. bls[k % length] = log[k].text /\ ct[k % length] = log[k].count
      BY <3>2, Zenon DEF Ring
    <3>4. QED BY <3>1, <3>3, Zenon
  <2>2. CASE ~ Repeats(x)
    BY <1>1, <1>2, <2>2, Zenon
  <2>3. QED BY <2>1, <2>2, Zenon
<1>23. shown = Creates(k) \/ (k = key /\ shown = Shows(k, log[k]))
  <2>1. CASE lastreq # k
    BY <1>4, <2>1, Zenon DEF Creates
  <2>2. CASE lastreq = k
    <3>1. k = key /\ k # key + 1 /\ k \in 1 .. key /\ k > key - length
      BY <1>6, <1>7, <2>2
    <3>2. Repeats(x)
      BY <1>1, <3>1, Zenon
    <3>3. ring = bls /\ count = ct
      <4>1. bls[i] = x
        BY <1>2, <3>1, <3>2, Zenon DEF Repeats
      <4>2. count = [ct EXCEPT ![i] = ct[i]]
        BY <1>3, <3>2, Zenon
      <4>3. QED BY <1>3, <1>6, <1>8, <4>1, <4>2
    <3>4. shown = LineOf(bls, ct, k)
      BY <1>4, <2>2, <3>3, Zenon
    <3>5. QED BY <3>1, <3>4, LineOfIs, Zenon
  <2>3. QED BY <2>1, <2>2, Zenon
<1>24. Enters(x, k, old, g, shown)
  <2>1. bls' = [bls EXCEPT ![k % length] = x] /\ ct' = [ct EXCEPT ![k % length] = old + 1]
    BY <1>2, <1>3, <1>5, <1>10, Zenon
  <2>2. g[k] = [text |-> x, count |-> old + 1]
    BY <1>12, <1>19, Zenon
  <2>3. QED BY <1>5, <1>7, <1>9, <1>18, <1>20, <1>21, <1>22, <1>23, <2>1, <2>2, Zenon DEF Enters
<1>25. QED BY <1>24, Zenon

\* insert puts the line into its place and touches no other of the ring.
LEMMA EnteredRing ==
  ASSUME Ring, NEW x \in Text, NEW k, NEW c, NEW g, NEW shown, Enters(x, k, c, g, shown)
  PROVE  Ring'
<1>1. /\ key' = k /\ k \in 1 .. MaxLines /\ lastreq' = lastreq /\ c + 1 \in 1 .. MaxCount
      /\ bls' = [bls EXCEPT ![k % length] = x] /\ ct' = [ct EXCEPT ![k % length] = c + 1]
      /\ log' = g /\ g \in Seq(Texts) /\ Len(g) = k /\ g[k] = [text |-> x, count |-> c + 1]
      /\ \A h \in 1 .. k - 1 : h \in 1 .. key /\ g[h] = log[h]
      /\ k = key \/ k = key + 1
  BY Zenon DEF Enters
<1>2. /\ key \in 0 .. MaxLines /\ key \in Nat /\ lastreq \in 0 .. key /\ length \in Nat \ {0}
      /\ bls \in [Slot -> Text \cup {TILDE}] /\ ct \in [Slot -> 0 .. MaxCount] /\ MaxCount \in Nat
      /\ MaxLines \in Nat
  BY Constants DEF Ring
<1>3. k \in Nat /\ k \in 0 .. MaxLines /\ lastreq \in 0 .. k
  BY <1>1, <1>2
<1>4. k % length \in Slot
  BY <1>3, SlotIs, Zenon
<1>5. PICK i, n : i = k % length /\ n = c + 1
  OBVIOUS
<1>6. PICK ring, count : ring = [bls EXCEPT ![i] = x] /\ count = [ct EXCEPT ![i] = n]
  OBVIOUS
<1>7. n \in 0 .. MaxCount /\ i \in Slot
  BY <1>1, <1>2, <1>4, <1>5
<1>8. ring \in [Slot -> Text \cup {TILDE}] /\ count \in [Slot -> 0 .. MaxCount]
  BY <1>2, <1>6, <1>7
<1>9. /\ ring[i] = x /\ count[i] = n
      /\ \A h \in Slot : h # i => ring[h] = bls[h] /\ count[h] = ct[h]
  BY <1>2, <1>6, <1>7
<1>10. ASSUME NEW h \in 1 .. k, h > k - length
       PROVE  ring[h % length] = g[h].text /\ count[h % length] = g[h].count
  <2>1. CASE h = k
    <3>1. g[h].text = x /\ g[h].count = n
      BY <1>1, <1>5, <2>1
    <3>2. QED BY <1>5, <1>9, <2>1, <3>1, Zenon
  <2>2. CASE h # k
    <3>1. h \in Nat /\ h \in 1 .. k - 1 /\ h < k /\ k < h + length /\ h > key - length
      BY <1>1, <1>2, <1>3, <1>10, <2>2
    <3>2. h % length # i /\ h % length \in Slot
      BY <1>2, <1>3, <1>5, <3>1, OtherPlace, SlotIs, Zenon
    <3>3. bls[h % length] = log[h].text /\ ct[h % length] = log[h].count /\ g[h] = log[h]
      BY <1>1, <3>1, Zenon DEF Ring
    <3>4. QED BY <1>9, <3>2, <3>3, Zenon
  <2>3. QED BY <2>1, <2>2, Zenon
<1>11. bls' = ring /\ ct' = count
  BY <1>1, <1>5, <1>6, Zenon
<1>12. key' \in 0 .. MaxLines /\ lastreq' \in 0 .. key'
  BY <1>1, <1>3, Zenon
<1>13. bls' \in [Slot -> Text \cup {TILDE}] /\ ct' \in [Slot -> 0 .. MaxCount]
  BY <1>8, <1>11, Zenon
<1>14. log' \in Seq(Texts) /\ Len(log') = key'
  BY <1>1, Zenon
<1>15. \A h \in 1 .. key' : h > key' - length =>
         bls'[h % length] = log'[h].text /\ ct'[h % length] = log'[h].count
  BY <1>1, <1>10, <1>11, Zenon
<1>16. QED BY <1>12, <1>13, <1>14, <1>15, Zenon DEF Ring

\* What is sent with line k behind the messages s.
SentWith(w, s, k, shown) ==
  /\ Longer(w, s) /\ Len(s) + 1 \in 1 .. Len(w) /\ w[Len(s) + 1] = shown
  /\ k > length => k - length \in Key /\ Len(s) + 2 \in 1 .. Len(w) /\ w[Len(s) + 2] = Removes(k - length)
  /\ \A q \in Len(s) + 1 .. Len(w) : q = Len(s) + 1 \/ (k > length /\ w[q] = Removes(k - length))

\* insert sends the line, or has it created, and removes the one that falls out.
LEMMA SentWithIs ==
  ASSUME NEW s \in Seq(Message), NEW k \in Key, NEW shown \in Message, NEW w, w = s \o <<shown>> \o Outdated(k)
  PROVE  SentWith(w, s, k, shown)
<1>1. Len(s) \in Nat /\ k \in Nat \ {0} /\ length \in Nat /\ MaxLines \in Nat
  BY Constants DEF Key
<1>2. PICK a : a = Append(s, shown)
  OBVIOUS
<1>3. s \o <<shown>> = a
  BY <1>2
<1>4. a \in Seq(Message) /\ Len(a) = Len(s) + 1 /\ a[Len(s) + 1] = shown /\ \A q \in 1 .. Len(s) : a[q] = s[q]
  BY <1>2
<1>5. CASE k > length
  <2>1. k - length \in Key
    BY <1>1, <1>5 DEF Key
  <2>2. PICK r : r = Removes(k - length)
    OBVIOUS
  <2>3. r \in Message
    BY <2>1, <2>2, MessagesAre, Zenon
  <2>4. w = a \o <<r>>
    BY <1>3, <1>5, <2>2, Zenon DEF Outdated, Removes
  <2>5. w = Append(a, r)
    BY <1>4, <2>4
  <2>6. w \in Seq(Message) /\ Len(w) = Len(a) + 1 /\ w[Len(a) + 1] = r /\ \A q \in 1 .. Len(a) : w[q] = a[q]
    BY ONLY <1>4, <2>3, <2>5
  <2>7. Len(w) = Len(s) + 2 /\ Len(a) + 1 = Len(s) + 2 /\ Len(s) <= Len(w)
    BY <1>1, <1>4, <2>6
  <2>8. \A q \in 1 .. Len(s) : q \in 1 .. Len(a)
    BY <1>1, <1>4
  <2>9. Len(s) + 1 \in 1 .. Len(a) /\ Len(s) + 1 \in 1 .. Len(w) /\ Len(s) + 2 \in 1 .. Len(w)
    BY <1>1, <1>4, <2>7
  <2>10. \A q \in Len(s) + 1 .. Len(w) : q = Len(s) + 1 \/ q = Len(s) + 2
    BY <1>1, <2>7
  <2>11. Longer(w, s)
    BY <1>4, <2>6, <2>7, <2>8, Zenon DEF Longer
  <2>12. w[Len(s) + 1] = shown /\ w[Len(s) + 2] = Removes(k - length)
    BY <1>4, <2>2, <2>6, <2>7, <2>9, Zenon
  <2>13. QED BY <1>5, <2>1, <2>9, <2>10, <2>11, <2>12, Zenon DEF SentWith
<1>6. CASE ~ k > length
  <2>1. w = a \o <<>>
    BY <1>3, <1>6, Zenon DEF Outdated
  <2>2. w = a
    BY <1>4, <2>1
  <2>3. Len(s) <= Len(w) /\ Len(s) + 1 \in 1 .. Len(w) /\ \A q \in Len(s) + 1 .. Len(w) : q = Len(s) + 1
    BY <1>1, <1>4, <2>2
  <2>4. QED BY <1>4, <1>6, <2>2, <2>3, Zenon DEF Longer, SentWith
<1>7. QED BY <1>5, <1>6, Zenon

\* A line that is not too old with j lines is, with the next one, not too old
\* or removed; what the journal said of it is still so, or put right.
LEMMA EnteredKeeps ==
  ASSUME Ring, NEW x \in Text, NEW k, NEW c, NEW g, NEW shown, Enters(x, k, c, g, shown),
         NEW s \in Seq(Message), NEW w, w = s \o <<shown>> \o Outdated(k), shown \in Message, k \in Key
  PROVE  Keeps(w, k, g, s, key, log)
<1>1. /\ \/ key # 0 /\ k = key /\ x = log[k].text /\ c = log[k].count
         \/ k = key + 1 /\ c = 0
      /\ g[k] = [text |-> x, count |-> c + 1]
      /\ \A h \in 1 .. k - 1 : h \in 1 .. key /\ g[h] = log[h]
      /\ shown = Creates(k) \/ (k = key /\ shown = Shows(k, log[k]))
  BY Zenon DEF Enters
<1>2. key \in Nat /\ k \in Nat \ {0} /\ length \in Nat \ {0} /\ Len(s) \in Nat
  BY Constants DEF Ring, Key
<1>3. /\ Longer(w, s) /\ Len(s) + 1 \in 1 .. Len(w) /\ w[Len(s) + 1] = shown
      /\ k > length => k - length \in Key /\ Len(s) + 2 \in 1 .. Len(w) /\ w[Len(s) + 2] = Removes(k - length)
  <2>1. SentWith(w, s, k, shown)
    BY SentWithIs, Zenon
  <2>2. QED BY <2>1, Zenon DEF SentWith
<1>4. /\ \A n \in Nat : \A h : Later(s, n, h) => Later(w, n, h)
      /\ \A n \in Nat : \A j, h : Recent(s, n, j, h) => Recent(w, n, j, h)
  BY <1>3, LongerIs, Zenon
<1>5. ASSUME NEW n \in 0 .. Len(s), NEW h, Recent(s, n, key, h)
      PROVE  /\ Recent(w, n, k, h)
             /\ \A y : Right(s, n, log, h, y) => Right(w, n, g, h, y)
  <2>1. n \in Nat /\ n <= Len(s)
    BY <1>2, <1>5
  <2>2. Len(w) \in Nat /\ Len(s) + 1 \in n + 1 .. Len(w) /\ (k > length => Len(s) + 2 \in n + 1 .. Len(w))
    <3>1. Len(w) \in Nat
      BY <1>3 DEF Longer
    <3>2. QED BY <1>2, <1>3, <2>1, <3>1
  <2>3. Recent(w, n, key, h) /\ h \in 1 .. key
    BY <1>4, <1>5, <2>1, Zenon DEF Recent
  <2>4. Recent(w, n, k, h)
    <3>1. h \in 1 .. k
      BY <1>1, <1>2, <2>3
    <3>2. CASE \E q \in n + 1 .. Len(w) : w[q] = Removes(h)
      BY <3>1, <3>2, Zenon DEF Recent
    <3>3. CASE h > key - length
      <4>1. h > k - length \/ (k > length /\ h = k - length)
        BY <1>1, <1>2, <2>3, <3>3
      <4>2. CASE h > k - length
        BY <3>1, <4>2, Zenon DEF Recent
      <4>3. CASE k > length /\ h = k - length
        BY <1>3, <2>2, <3>1, <4>3, Zenon DEF Recent
      <4>4. QED BY <4>1, <4>2, <4>3, Zenon
    <3>4. QED BY <2>3, <3>2, <3>3, Zenon DEF Recent
  <2>5. ASSUME NEW y, Right(s, n, log, h, y) PROVE Right(w, n, g, h, y)
    <3>1. y.text = log[h].text /\ (y.count \in {log[h].count - 1, log[h].count} \/ Later(s, n, h))
      BY <2>5, Zenon DEF Right
    <3>2. CASE h = k
      <4>1. k = key /\ x = log[k].text
        <5>1. k # key + 1
          BY <1>2, <2>3, <3>2
        <5>2. QED BY <1>1, <5>1, Zenon
      <4>2. g[k].text = x
        BY <1>1
      <4>3. Touches(shown, k)
        <5>1. log[k] \in Texts
          <6>1. k \in 1 .. key /\ k > key - length
            BY <1>2, <4>1
          <6>2. QED BY <6>1, LineOfIs, Zenon
        <5>2. QED BY <1>1, <5>1, Zenon DEF Touches
      <4>4. Later(w, n, h)
        BY <1>3, <2>2, <3>2, <4>3, Zenon DEF Later
      <4>5. QED BY <3>1, <3>2, <4>1, <4>2, <4>4, Zenon DEF Right
    <3>3. CASE h # k
      <4>1. h \in 1 .. k - 1
        BY <1>1, <1>2, <2>3, <3>3
      <4>2. g[h] = log[h]
        BY <1>1, <4>1, Zenon
      <4>3. Later(s, n, h) => Later(w, n, h)
        BY <1>4, <2>1, Zenon
      <4>4. QED BY <3>1, <4>2, <4>3, Zenon DEF Right
    <3>4. QED BY <3>2, <3>3, Zenon
  <2>6. QED BY <2>4, <2>5, Zenon
<1>6. QED BY <1>5, Zenon DEF Keeps

\* insert keeps the invariant, whichever requests and lines are under way.
LEMMA InsertStep == ASSUME JInv, NEW x \in Text, insert(x) PROVE JInv'
<1>1. Ring /\ TermInv(t, toTerm, 0, key, log)
  BY Zenon DEF JInv
<1>2. PICK k, c, g, shown : Enters(x, k, c, g, shown)
  BY <1>1, insertIs, Zenon
<1>3. /\ key' = k /\ k \in 1 .. MaxLines /\ t' = t /\ log' = g /\ toTerm' = toTerm \o <<shown>> \o Outdated(k)
      /\ shown = Creates(k) \/ (k = key /\ shown = Shows(k, log[k]))
      /\ g[k] = [text |-> x, count |-> c + 1]
      /\ \/ key # 0 /\ k = key /\ x = log[k].text /\ c = log[k].count
         \/ k = key + 1 /\ c = 0
  BY <1>2, Zenon DEF Enters
<1>4. key \in Nat /\ length \in Nat \ {0} /\ k \in Nat \ {0} /\ k \in Key /\ key <= k
  BY <1>1, <1>3, Constants DEF Ring, Key
<1>5. PICK s, w : s = toTerm /\ w = toTerm'
  OBVIOUS
<1>6. s \in Seq(Message) /\ t \in Terminal /\ OutOK(t.out, key) /\ TermInv(t, s, 0, key, log)
  BY <1>1, <1>5, Zenon DEF TermInv
<1>7. k \in 1 .. k /\ k > k - length
  BY <1>4
<1>8. /\ shown \in Message /\ shown # PadDef
      /\ \A h \in Key : shown = Creates(h) => h = k
      /\ \A h \in Key, y \in Texts : shown = Shows(h, y) => h = k /\ y.text = g[k].text /\ y.count = g[k].count - 1
  <2>1. CASE shown = Creates(k)
    <3>1. \A h : shown = Creates(h) => h = k
      BY <2>1, ShowsIs, Zenon
    <3>2. \A h, y : shown # Shows(h, y)
      BY <2>1, ShowsIs, Zenon
    <3>3. QED BY <1>4, <2>1, <3>1, <3>2, MessagesAre, Zenon
  <2>2. CASE k = key /\ shown = Shows(k, log[k])
    <3>1. PICK y : y = log[k]
      OBVIOUS
    <3>2. y \in Texts /\ Shows(k, y) \in Message
      BY <1>1, <1>7, <2>2, <3>1, LineOfIs, Zenon
    <3>3. y.text = x /\ y.count = c
      <4>1. k # key + 1
        BY <1>4, <2>2
      <4>2. QED BY <1>3, <3>1, <4>1, Zenon
    <3>4. y.count \in Int
      BY <3>2, Constants DEF Texts
    <3>5. y.text = g[k].text /\ y.count = g[k].count - 1
      <4>1. g[k].text = x /\ g[k].count = c + 1
        BY <1>3
      <4>2. QED BY <3>3, <3>4, <4>1
    <3>6. shown = Shows(k, y)
      BY <2>2, <3>1, Zenon
    <3>7. shown \in Message /\ shown # PadDef
      BY <1>4, <3>2, <3>6, MessagesAre, Zenon
    <3>8. \A h : shown # Creates(h)
      BY <3>6, ShowsIs, Zenon
    <3>9. ASSUME NEW h, NEW z, shown = Shows(h, z) PROVE h = k /\ z = y
      <4>1. Shows(h, z) = Shows(k, y)
        BY <3>6, <3>9, Zenon
      <4>2. QED BY ONLY <4>1, ShowsIs
    <3>10. QED BY <3>5, <3>7, <3>8, <3>9, Zenon
  <2>3. QED BY <1>3, <2>1, <2>2, Zenon
<1>9. w = s \o <<shown>> \o Outdated(k)
  BY <1>3, <1>5, Zenon
<1>10. Keeps(w, k, g, s, key, log)
  BY <1>1, <1>2, <1>4, <1>6, <1>8, <1>9, EnteredKeeps, Zenon
<1>11. SentWith(w, s, k, shown)
  BY <1>4, <1>6, <1>8, <1>9, SentWithIs, Zenon
<1>12. /\ Longer(w, s) /\ w[Len(s) + 1] = shown
       /\ \A q \in Len(s) + 1 .. Len(w) : q = Len(s) + 1 \/ (k > length /\ w[q] = Removes(k - length))
       /\ k > length => k - length \in Key
  BY <1>11, Zenon DEF SentWith
<1>13. ASSUME NEW q \in Len(s) + 1 .. Len(w) PROVE MessageOK(w, q, k, g) /\ w[q] # PadDef
  <2>1. CASE q = Len(s) + 1
    <3>1. w[q] = shown
      BY <1>12, <2>1, Zenon
    <3>2. Recent(w, q, k, k)
      BY <1>7, Zenon DEF Recent
    <3>3. ASSUME NEW h \in Key, NEW y \in Texts, w[q] = Shows(h, y) PROVE Recent(w, q, k, h) /\ Right(w, q, g, h, y)
      <4>1. h = k /\ y.text = g[k].text /\ y.count = g[k].count - 1
        BY <1>8, <3>1, <3>3, Zenon
      <4>2. y.count \in {g[k].count - 1, g[k].count}
        BY <4>1, Zenon
      <4>3. QED BY <3>2, <4>1, <4>2, Zenon DEF Right
    <3>4. QED BY <1>8, <3>1, <3>2, <3>3, Zenon DEF MessageOK
  <2>2. CASE k > length /\ w[q] = Removes(k - length)
    <3>1. w[q] # PadDef
      BY <1>12, <2>2, MessagesAre, Zenon
    <3>2. \A h, y : w[q] # Creates(h) /\ w[q] # Shows(h, y)
      BY <2>2, ShowsIs, Zenon
    <3>3. QED BY <3>1, <3>2, Zenon DEF MessageOK
  <2>3. QED BY <1>12, <2>1, <2>2, Zenon
<1>14. OutOK(t.out, k)
  <2>1. \A h \in 1 .. key : h \in 1 .. k
    BY <1>4
  <2>2. QED BY <1>6, <2>1, Zenon DEF OutOK
<1>15. TermInv(t, w, 0, k, g)
  <2>1. \A h : Recent(s, 0, key, h) /\ Covered(t.out, h) => Covered(t.out, h) \/ Later(w, 0, h)
    OBVIOUS
  <2>2. QED BY <1>6, <1>10, <1>12, <1>13, <1>14, <2>1, MoreSent, Zenon
<1>16. TermInv(t', toTerm', 0, key', log')
  BY <1>3, <1>5, <1>15, Zenon
<1>17. Ring'
  BY <1>1, <1>2, EnteredRing, Zenon
<1>18. QED BY <1>16, <1>17, Zenon DEF JInv

-----------------------------------------------------------------------------
(* The theorems. *)

\* The ring has the latest lines, and whatever the window and the messages
\* under way say is right or will be put right: Journal::insert, linereq and
\* the terminal's CreateLine, PutLine, P_RemoveLine and RequestLines keep it.
THEOREM Inductive == Spec => []JInv
<1>1. Init => JInv
  BY InitInv, Zenon
<1>2. JInv /\ [Next]_vars => JInv'
  <2> SUFFICES ASSUME JInv, [Next]_vars PROVE JInv'
    OBVIOUS
  <2>1. ASSUME NEW x \in Text, insert(x) PROVE JInv'
    BY <2>1, InsertStep, Zenon
  <2>2. CASE ServeLineReq
    BY <2>2, ServeStep, Zenon
  <2>3. CASE Receive
    BY <2>3, ReceiveStep, Zenon
  <2>4. ASSUME NEW lo \in Key, NEW hi \in Key, lo <= hi, Paint(lo, hi) PROVE JInv'
    BY <2>4, PaintStep, Zenon
  <2>5. CASE UserClose
    BY <2>5, UserCloseStep, Zenon
  <2>6. ASSUME NEW i \in Key, Cut(i) PROVE JInv'
    BY <2>6, CutStep, Zenon
  <2>7. CASE UNCHANGED vars
    <3>1. /\ t' = t /\ key' = key /\ lastreq' = lastreq /\ bls' = bls /\ ct' = ct
          /\ toTerm' = toTerm /\ log' = log
      BY <2>7, Zenon DEF vars
    <3>2. Ring'
      BY <3>1, RingSame, Zenon DEF JInv
    <3>3. TermInv(t', toTerm', 0, key', log')
      BY <3>1, Zenon DEF JInv
    <3>4. QED BY <3>2, <3>3, Zenon DEF JInv
  <2>8. QED BY <2>1, <2>2, <2>3, <2>4, <2>5, <2>6, <2>7, Zenon DEF Next
<1>3. QED BY <1>1, <1>2, PTL DEF Spec

\* The window has the latest lines of the journal at most, in order and none
\* twice, whatever the order in which requests, lines, removals and the user
\* come (Journal::insert, linereq).
THEOREM Recently == Spec => []WindowIsRecent
BY Inductive, IsRecent, PTL

\* A line shows what was entered as that line, and a count that is at most one
\* behind (Journal::insert sends the line before it counts the event).
THEOREM Truly == Spec => []LinesAreTrue
BY Inductive, AreTrue, PTL

\* Where requests reach the journal, a line that the terminal takes for
\* requested will be answered: its request is under way, and linereq will not
\* find it too late.
THEOREM Answered == Spec => []RequestsAreAnswered
BY Inductive, AreAnswered, PTL
=============================================================================
