---------------------------- MODULE Menus_proofs ----------------------------
(***************************************************************************)
(* Invariants of Menus, for every vocabulary and every bound: the caches   *)
(* keep no doubles, no message and no table of the terminal names anything *)
(* that has not come before, no assert fails, menus are what the program   *)
(* put into them, and so is what the terminal finds in them: CarteEntry is *)
(* a walk from bin to bin, and from a menu to one made before it, that     *)
(* always ends, at the item that the program put there.                    *)
(***************************************************************************)
EXTENDS Menus, SequenceTheorems, WellFoundedInduction, TLAPS

StoredItem == [text : Range(Cut), action : { i.action : i \in Item },
               opand : { i.opand : i \in Item }]

Carte == [title : Nat, bins : Seq(Int), items : Nat]

Message ==
  [op : {"I_DEFINE", "C_DEFINE"}, size : Nat]
    \cup [op : {"I_CACHE"}, index : Nat, text : Range(Cut)]
    \cup [op : {"C_CACHE"}, index : Nat, title : Nat, bins : Seq(Int), items : Nat]
    \cup [op : {"CARTE"}, index : Int]

-----------------------------------------------------------------------------
(* The inductive invariant. *)

\* What a bin may be when there are k items and n menus.
Bin(k, n) == { b \in Int : b \in 1 .. k \/ -b \in 1 .. n }

\* The program's caches.  A menu has only bins that were there before it.
HostInv ==
  /\ items \in Seq(StoredItem) /\ iSIZE \in Nat /\ Len(items) < iSIZE
  /\ cartes \in Seq(Carte) /\ cSIZE \in Nat /\ Len(cartes) < cSIZE
  /\ list \in Seq(Bin(Len(items), Len(cartes)))
  /\ \A c \in 1 .. Len(cartes) :
       /\ cartes[c].title \in 0 .. Len(items)
       /\ cartes[c].bins \in Seq(Bin(Len(items), c - 1))
       /\ cartes[c].bins # <<>>

\* What a bin, and a list of bins, stand for.
Meant(b) ==
  IF b > 0 THEN <<items[b]>>
  ELSE IF cartes[-b].title = Null THEN means[-b] ELSE <<items[cartes[-b].title]>>

MeantBy(bins) == [j \in 1 .. Len(bins) |-> Meant(bins[j])]

\* The histories are what the bins say.
MeansInv ==
  /\ means \in Seq(Seq(StoredItem)) /\ Len(means) = Len(cartes)
  /\ listMeans \in Seq(Seq(StoredItem)) /\ Len(listMeans) = Len(list)
  /\ \A j \in 1 .. Len(list) : listMeans[j] = Meant(list[j])
  /\ \A c \in 1 .. Len(cartes) : means[c] = FlattenSeq(MeantBy(cartes[c].bins))

\* The entries es are those of the bins, one after the other: those of bin j
\* come after the first at[j - 1].
LaidBy(at, bins, es) ==
  /\ at \in [0 .. Len(bins) -> Nat]
  /\ at[0] = 0 /\ at[Len(bins)] = Len(es)
  /\ \A j \in 1 .. Len(bins) :
       /\ at[j] = at[j - 1] + Entries(bins[j])
       /\ \A k \in 1 .. Entries(bins[j]) : es[at[j - 1] + k] = Meant(bins[j])[k]

Laid(bins, es) == \E at \in [0 .. Len(bins) -> Nat] : LaidBy(at, bins, es)

LaidInv ==
  \A c \in 1 .. Len(cartes) :
    cartes[c].items = Len(means[c]) /\ Laid(cartes[c].bins, means[c])

\* What the pipe s says of a cache with n entries and the given size, whose
\* definitions are the messages def and cache, and of the terminal's table of
\* the size ts, which has the entries T: each entry comes once, into a table
\* that is large enough by then, and all of them come.
Follows(s, def, cache, T, ts, n, size) ==
  /\ \A p \in 1 .. Len(s) : s[p].op = cache =>
       /\ s[p].index \in 1 .. n /\ s[p].index \notin T
       /\ s[p].index < ts \/ \E q \in 1 .. p - 1 : s[q].op = def /\ s[p].index < s[q].size
       /\ \A q \in 1 .. p - 1 : s[q].op = cache => s[q].index # s[p].index
  /\ \A k \in 1 .. n : k \in T \/ \E p \in 1 .. Len(s) : s[p].op = cache /\ s[p].index = k
  /\ \A p \in 1 .. Len(s) : s[p].op = def =>
       /\ s[p].size \in Nat /\ ts <= s[p].size /\ s[p].size <= size
       /\ \A q \in 1 .. p - 1 : s[q].op = def => s[q].size <= s[p].size
  /\ ts <= size
  /\ ts = size \/ \E p \in 1 .. Len(s) : s[p].op = def /\ s[p].size = size

\* Entry k is in the terminal's table T, or comes before the message p.
Came(s, cache, T, k, p) ==
  k \in T \/ \E q \in 1 .. p - 1 : s[q].op = cache /\ s[q].index = k

BinCame(s, TI, TC, b, p) ==
  IF b > 0 THEN Came(s, "I_CACHE", TI, b, p) ELSE Came(s, "C_CACHE", TC, -b, p)

\* Message p says what the caches hold, and names only what has come before.
TellsAt(s, TI, TC, is, cs, p) ==
  /\ s[p].op = "I_CACHE" => s[p].text = is[s[p].index].text
  /\ s[p].op = "C_CACHE" =>
       /\ s[p].title = cs[s[p].index].title
       /\ s[p].bins = cs[s[p].index].bins
       /\ s[p].items = cs[s[p].index].items
       /\ s[p].title # Null => Came(s, "I_CACHE", TI, s[p].title, p)
       /\ \A j \in 1 .. Len(s[p].bins) : BinCame(s, TI, TC, s[p].bins[j], p)
  /\ s[p].op = "CARTE" =>
       -s[p].index \in 1 .. Len(cs) /\ Came(s, "C_CACHE", TC, -s[p].index, p)

Tells(s, TI, TC, is, cs) == \A p \in 1 .. Len(s) : TellsAt(s, TI, TC, is, cs, p)

\* The pipe s when the caches are is and cs, of the sizes isz and csz.
PipeOK(s, is, isz, cs, csz) ==
  /\ s \in Seq(Message)
  /\ Follows(s, "I_DEFINE", "I_CACHE", DOMAIN tI, tISIZE, Len(is), isz)
  /\ Follows(s, "C_DEFINE", "C_CACHE", DOMAIN tC, tCSIZE, Len(cs), csz)
  /\ Tells(s, DOMAIN tI, DOMAIN tC, is, cs)

PipeInv == PipeOK(toTerm, items, iSIZE, cartes, cSIZE)

\* The terminal's tables.
TermInv ==
  /\ tISIZE \in Nat /\ tCSIZE \in Nat /\ failed = FALSE
  /\ DOMAIN tI \subseteq 1 .. Len(items) /\ DOMAIN tC \subseteq 1 .. Len(cartes)
  /\ \A k \in DOMAIN tI : tI[k] = items[k].text
  /\ \A c \in DOMAIN tC :
       /\ tC[c] = [title |-> cartes[c].title, bins |-> cartes[c].bins, size |-> cartes[c].items]
       /\ tC[c].title # Null => tC[c].title \in DOMAIN tI
       /\ \A j \in 1 .. Len(tC[c].bins) :
            LET b == tC[c].bins[j] IN IF b > 0 THEN b \in DOMAIN tI ELSE -b \in DOMAIN tC
  /\ tCarte \in Int /\ (tCarte # Null => -tCarte \in DOMAIN tC)

MInv == HostInv /\ MeansInv /\ LaidInv /\ PipeInv /\ TermInv /\ MadeIsMeant

-----------------------------------------------------------------------------
(* What sending and receiving do to the pipe. *)

\* t is s with the message m sent after it.
Sending(t, s, m) ==
  /\ Len(s) \in Nat /\ Len(t) = Len(s) + 1
  /\ \A p \in 1 .. Len(s) : t[p] = s[p]
  /\ t[Len(s) + 1] = m

LEMMA AppendIsSending ==
  ASSUME NEW S, NEW s \in Seq(S), NEW m \in S
  PROVE  Sending(Append(s, m), s, m)
BY AppendProperties, LenProperties DEF Sending

\* A definition of a larger size.
LEMMA FollowsDefine ==
  ASSUME NEW s, NEW t, NEW m, NEW def, NEW cache, def # cache, NEW T, NEW ts \in Nat,
         NEW n \in Nat, NEW size \in Nat,
         Follows(s, def, cache, T, ts, n, size), Sending(t, s, m),
         m.op = def, m.size \in Nat, size <= m.size
  PROVE  Follows(t, def, cache, T, ts, n, m.size)
<1> USE DEF Sending
<1>1. ASSUME NEW p \in 1 .. Len(t), t[p].op = cache
      PROVE  /\ t[p].index \in 1 .. n /\ t[p].index \notin T
             /\ t[p].index < ts \/ \E q \in 1 .. p - 1 : t[q].op = def /\ t[p].index < t[q].size
             /\ \A q \in 1 .. p - 1 : t[q].op = cache => t[q].index # t[p].index
  <2>1. p \in 1 .. Len(s)
    BY <1>1
  <2>2. t[p] = s[p] /\ \A q \in 1 .. p - 1 : q \in 1 .. Len(s) /\ t[q] = s[q]
    BY <2>1
  <2>3. /\ s[p].index \in 1 .. n /\ s[p].index \notin T
        /\ s[p].index < ts \/ \E q \in 1 .. p - 1 : s[q].op = def /\ s[p].index < s[q].size
        /\ \A q \in 1 .. p - 1 : s[q].op = cache => s[q].index # s[p].index
    BY <2>1, <2>2, <1>1 DEF Follows
  <2>4. QED BY <2>2, <2>3, Zenon
<1>2. \A k \in 1 .. n : k \in T \/ \E p \in 1 .. Len(t) : t[p].op = cache /\ t[p].index = k
  BY DEF Follows
<1>3. ASSUME NEW p \in 1 .. Len(t), t[p].op = def
      PROVE  /\ t[p].size \in Nat /\ ts <= t[p].size /\ t[p].size <= m.size
             /\ \A q \in 1 .. p - 1 : t[q].op = def => t[q].size <= t[p].size
  <2>1. \A q \in 1 .. Len(s) : s[q].op = def => s[q].size \in Nat /\ s[q].size <= size
    BY DEF Follows
  <2>2. CASE p = Len(s) + 1
    BY <2>1, <2>2 DEF Follows
  <2>3. CASE p \in 1 .. Len(s)
    <3>1. t[p] = s[p] /\ \A q \in 1 .. p - 1 : q \in 1 .. Len(s) /\ t[q] = s[q]
      BY <2>3
    <3>2. QED BY <3>1, <2>3, <1>3 DEF Follows
  <2>4. QED BY <2>2, <2>3
<1>4. ts <= m.size /\ \E p \in 1 .. Len(t) : t[p].op = def /\ t[p].size = m.size
  BY DEF Follows
<1>5. QED BY <1>1, <1>2, <1>3, <1>4 DEF Follows

\* The next entry, once the table is large enough.
LEMMA FollowsEntry ==
  ASSUME NEW s, NEW t, NEW m, NEW def, NEW cache, def # cache, NEW T, NEW ts \in Nat,
         NEW n \in Nat, NEW size \in Nat,
         Follows(s, def, cache, T, ts, n, size), Sending(t, s, m), T \subseteq 1 .. n,
         m.op = cache, m.index = n + 1, n + 1 < size
  PROVE  Follows(t, def, cache, T, ts, n + 1, size)
<1> USE DEF Sending
<1>1. ASSUME NEW p \in 1 .. Len(t), t[p].op = cache
      PROVE  /\ t[p].index \in 1 .. n + 1 /\ t[p].index \notin T
             /\ t[p].index < ts \/ \E q \in 1 .. p - 1 : t[q].op = def /\ t[p].index < t[q].size
             /\ \A q \in 1 .. p - 1 : t[q].op = cache => t[q].index # t[p].index
  <2>1. \A q \in 1 .. Len(s) : s[q].op = cache => s[q].index \in 1 .. n
    BY DEF Follows
  <2>2. CASE p = Len(s) + 1
    <3>1. t[p] = m /\ \A q \in 1 .. p - 1 : q \in 1 .. Len(s) /\ t[q] = s[q]
      BY <2>2
    <3>2. ts = size \/ \E q \in 1 .. Len(s) : s[q].op = def /\ s[q].size = size
      BY DEF Follows
    <3>3. t[p].index < ts \/ \E q \in 1 .. p - 1 : t[q].op = def /\ t[p].index < t[q].size
      BY <3>1, <3>2, <2>2
    <3>4. t[p].index \in 1 .. n + 1 /\ t[p].index \notin T
      BY <3>1
    <3>5. \A q \in 1 .. p - 1 : t[q].op = cache => t[q].index # t[p].index
      BY <3>1, <2>1
    <3>6. QED BY <3>3, <3>4, <3>5
  <2>3. CASE p \in 1 .. Len(s)
    <3>1. t[p] = s[p] /\ \A q \in 1 .. p - 1 : q \in 1 .. Len(s) /\ t[q] = s[q]
      BY <2>3
    <3>2. /\ s[p].index \in 1 .. n /\ s[p].index \notin T
          /\ s[p].index < ts \/ \E q \in 1 .. p - 1 : s[q].op = def /\ s[p].index < s[q].size
          /\ \A q \in 1 .. p - 1 : s[q].op = cache => s[q].index # s[p].index
      BY <3>1, <2>3, <1>1 DEF Follows
    <3>3. s[p].index \in 1 .. n + 1
      BY <3>2
    <3>4. QED BY <3>1, <3>2, <3>3, Zenon
  <2>4. p = Len(s) + 1 \/ p \in 1 .. Len(s)
    OBVIOUS
  <2>5. QED BY <2>2, <2>3, <2>4, Zenon
<1>2. \A k \in 1 .. n + 1 : k \in T \/ \E p \in 1 .. Len(t) : t[p].op = cache /\ t[p].index = k
  <2>1. \A k \in 1 .. n : k \in T \/ \E p \in 1 .. Len(t) : t[p].op = cache /\ t[p].index = k
    BY DEF Follows
  <2>2. Len(s) + 1 \in 1 .. Len(t) /\ t[Len(s) + 1].op = cache /\ t[Len(s) + 1].index = n + 1
    OBVIOUS
  <2>3. \A k \in 1 .. n + 1 : k \in 1 .. n \/ k = n + 1
    OBVIOUS
  <2>4. QED BY <2>1, <2>2, <2>3, Zenon
<1>3. ASSUME NEW p \in 1 .. Len(t), t[p].op = def
      PROVE  /\ t[p].size \in Nat /\ ts <= t[p].size /\ t[p].size <= size
             /\ \A q \in 1 .. p - 1 : t[q].op = def => t[q].size <= t[p].size
  <2>1. p \in 1 .. Len(s)
    BY <1>3
  <2>2. t[p] = s[p] /\ \A q \in 1 .. p - 1 : q \in 1 .. Len(s) /\ t[q] = s[q]
    BY <2>1
  <2>3. QED BY <2>1, <2>2, <1>3 DEF Follows
<1>4. ts <= size /\ (ts = size \/ \E p \in 1 .. Len(t) : t[p].op = def /\ t[p].size = size)
  BY DEF Follows
<1>5. QED BY <1>1, <1>2, <1>3, <1>4 DEF Follows

\* A message about something else.
LEMMA FollowsOther ==
  ASSUME NEW s, NEW t, NEW m, NEW def, NEW cache, NEW T, NEW ts, NEW n, NEW size,
         Follows(s, def, cache, T, ts, n, size), Sending(t, s, m), m.op \notin {def, cache}
  PROVE  Follows(t, def, cache, T, ts, n, size)
<1> USE DEF Sending
<1>1. \A p \in 1 .. Len(t) : t[p].op \in {def, cache} =>
        p \in 1 .. Len(s) /\ t[p] = s[p] /\ \A q \in 1 .. p - 1 : q \in 1 .. Len(s) /\ t[q] = s[q]
  OBVIOUS
<1>2. ASSUME NEW p \in 1 .. Len(t), t[p].op = cache
      PROVE  /\ t[p].index \in 1 .. n /\ t[p].index \notin T
             /\ t[p].index < ts \/ \E q \in 1 .. p - 1 : t[q].op = def /\ t[p].index < t[q].size
             /\ \A q \in 1 .. p - 1 : t[q].op = cache => t[q].index # t[p].index
  BY <1>1, <1>2 DEF Follows
<1>3. \A k \in 1 .. n : k \in T \/ \E p \in 1 .. Len(t) : t[p].op = cache /\ t[p].index = k
  BY DEF Follows
<1>4. ASSUME NEW p \in 1 .. Len(t), t[p].op = def
      PROVE  /\ t[p].size \in Nat /\ ts <= t[p].size /\ t[p].size <= size
             /\ \A q \in 1 .. p - 1 : t[q].op = def => t[q].size <= t[p].size
  BY <1>1, <1>4 DEF Follows
<1>5. ts <= size /\ (ts = size \/ \E p \in 1 .. Len(t) : t[p].op = def /\ t[p].size = size)
  BY DEF Follows
<1>6. QED BY <1>2, <1>3, <1>4, <1>5 DEF Follows

\* t is what is left of s when its first message has been read.
Receiving(t, s) ==
  /\ Len(s) \in Nat \ {0} /\ Len(t) = Len(s) - 1
  /\ \A p \in 1 .. Len(t) : t[p] = s[p + 1]

LEMMA TailIsReceiving ==
  ASSUME NEW S, NEW s \in Seq(S), s # <<>>
  PROVE  Receiving(Tail(s), s) /\ Head(s) = s[1] /\ s[1] \in S
<1>1. Len(s) \in Nat \ {0}
  BY EmptySeq
<1>2. Len(Tail(s)) = Len(s) - 1 /\ \A p \in 1 .. Len(Tail(s)) : Tail(s)[p] = s[p + 1]
  BY HeadTailProperties
<1>3. Head(s) = s[1] /\ s[1] \in S
  BY <1>1
<1>4. QED BY <1>1, <1>2, <1>3 DEF Receiving

\* What was sent is the message read or one of those left.
LEMMA Left ==
  ASSUME NEW s, NEW t, Receiving(t, s)
  PROVE  /\ \A p \in 1 .. Len(t) : p + 1 \in 1 .. Len(s) /\ t[p] = s[p + 1]
         /\ \A p \in 1 .. Len(s) : p = 1 \/ (p - 1 \in 1 .. Len(t) /\ t[p - 1] = s[p])
BY DEF Receiving

LEMMA DefineReceived ==
  ASSUME NEW s, NEW t, NEW def, NEW cache, def # cache, NEW T, NEW ts \in Nat,
         NEW n \in Nat, NEW size \in Nat,
         Follows(s, def, cache, T, ts, n, size), Receiving(t, s), s[1].op = def
  PROVE  s[1].size \in Nat /\ Follows(t, def, cache, T, s[1].size, n, size)
<1> DEFINE z == s[1].size
<1> HIDE DEF z
<1>1. 1 \in 1 .. Len(s) /\ Len(t) \in Nat
  BY DEF Receiving
<1>2. z \in Nat /\ ts <= z /\ z <= size
  BY <1>1 DEF Follows, z
<1>3. ASSUME NEW p \in 1 .. Len(t), t[p].op = cache
      PROVE  /\ t[p].index \in 1 .. n /\ t[p].index \notin T
             /\ t[p].index < z \/ \E q \in 1 .. p - 1 : t[q].op = def /\ t[p].index < t[q].size
             /\ \A q \in 1 .. p - 1 : t[q].op = cache => t[q].index # t[p].index
  <2>1. /\ t[p] = s[p + 1] /\ p + 1 \in 1 .. Len(s)
        /\ \A q \in 1 .. p - 1 : t[q] = s[q + 1] /\ q + 1 \in 1 .. (p + 1) - 1
    BY <1>1 DEF Receiving
  <2>2. /\ t[p].index \in 1 .. n /\ t[p].index \notin T
        /\ t[p].index < ts \/ \E q \in 1 .. (p + 1) - 1 : s[q].op = def /\ t[p].index < s[q].size
        /\ \A q \in 1 .. (p + 1) - 1 : s[q].op = cache => s[q].index # t[p].index
    <3>1. t[p].index \in 1 .. n /\ t[p].index \notin T
      BY <2>1, <1>3 DEF Follows
    <3>2. t[p].index < ts \/ \E q \in 1 .. (p + 1) - 1 : s[q].op = def /\ t[p].index < s[q].size
      BY <2>1, <1>3 DEF Follows
    <3>3. \A q \in 1 .. (p + 1) - 1 : s[q].op = cache => s[q].index # t[p].index
      BY <2>1, <1>3 DEF Follows
    <3>4. QED BY <3>1, <3>2, <3>3, Zenon
  <2>3. t[p].index < z \/ \E q \in 1 .. p - 1 : t[q].op = def /\ t[p].index < t[q].size
    <3>1. CASE t[p].index < ts
      BY <3>1, <1>2, <2>2
    <3>2. ASSUME NEW q \in 1 .. (p + 1) - 1, s[q].op = def, t[p].index < s[q].size
          PROVE  t[p].index < z \/ \E r \in 1 .. p - 1 : t[r].op = def /\ t[p].index < t[r].size
      <4>1. q = 1 \/ (q - 1 \in 1 .. p - 1 /\ t[q - 1] = s[q])
        BY <1>1 DEF Receiving
      <4>2. QED BY <4>1, <3>2, Zenon DEF z
    <3>3. QED BY <3>1, <3>2, <2>2
  <2>4. \A q \in 1 .. p - 1 : t[q].op = cache => t[q].index # t[p].index
    BY <2>1, <2>2
  <2>5. QED BY <2>2, <2>3, <2>4
<1>4. \A k \in 1 .. n : k \in T \/ \E p \in 1 .. Len(t) : t[p].op = cache /\ t[p].index = k
  <2>1. ASSUME NEW k \in 1 .. n, k \notin T
        PROVE  \E p \in 1 .. Len(t) : t[p].op = cache /\ t[p].index = k
    <3>1. PICK p \in 1 .. Len(s) : s[p].op = cache /\ s[p].index = k
      BY <2>1 DEF Follows
    <3>2. p - 1 \in 1 .. Len(t) /\ t[p - 1] = s[p]
      BY <3>1, Left
    <3>3. QED BY <3>1, <3>2, Zenon
  <2>2. QED BY <2>1
<1>5. ASSUME NEW p \in 1 .. Len(t), t[p].op = def
      PROVE  /\ t[p].size \in Nat /\ z <= t[p].size /\ t[p].size <= size
             /\ \A q \in 1 .. p - 1 : t[q].op = def => t[q].size <= t[p].size
  <2>1. /\ t[p] = s[p + 1] /\ p + 1 \in 1 .. Len(s) /\ 1 \in 1 .. (p + 1) - 1
        /\ \A q \in 1 .. p - 1 : t[q] = s[q + 1] /\ q + 1 \in 1 .. (p + 1) - 1
    BY <1>1 DEF Receiving
  <2>2. /\ t[p].size \in Nat /\ t[p].size <= size
        /\ \A q \in 1 .. (p + 1) - 1 : s[q].op = def => s[q].size <= t[p].size
    BY <2>1, <1>5 DEF Follows
  <2>3. QED BY <2>1, <2>2 DEF z
<1>6. z = size \/ \E p \in 1 .. Len(t) : t[p].op = def /\ t[p].size = size
  <2>1. CASE ts = size
    BY <2>1, <1>2
  <2>2. ASSUME NEW p \in 1 .. Len(s), s[p].op = def, s[p].size = size
        PROVE  z = size \/ \E q \in 1 .. Len(t) : t[q].op = def /\ t[q].size = size
    <3>1. p = 1 \/ (p - 1 \in 1 .. Len(t) /\ t[p - 1] = s[p])
      BY Left
    <3>2. QED BY <3>1, <2>2, Zenon DEF z
  <2>3. QED BY <2>1, <2>2 DEF Follows
<1>7. Follows(t, def, cache, T, z, n, size)
  BY <1>3, <1>4, <1>5, <1>6, <1>2 DEF Follows
<1>8. QED BY <1>7, <1>2 DEF z

LEMMA EntryReceived ==
  ASSUME NEW s, NEW t, NEW def, NEW cache, def # cache, NEW T, NEW ts \in Nat,
         NEW n \in Nat, NEW size \in Nat,
         Follows(s, def, cache, T, ts, n, size), Receiving(t, s), s[1].op = cache
  PROVE  /\ s[1].index \in 1 .. n /\ s[1].index \notin T /\ s[1].index < ts
         /\ Follows(t, def, cache, T \cup {s[1].index}, ts, n, size)
<1> DEFINE x == s[1].index
<1>1. 1 \in 1 .. Len(s) /\ Len(t) \in Nat
  BY DEF Receiving
<1>2. x \in 1 .. n /\ x \notin T /\ x < ts
  BY <1>1 DEF Follows
<1>3. ASSUME NEW p \in 1 .. Len(t), t[p].op = cache
      PROVE  /\ t[p].index \in 1 .. n /\ t[p].index \notin T \cup {x}
             /\ t[p].index < ts \/ \E q \in 1 .. p - 1 : t[q].op = def /\ t[p].index < t[q].size
             /\ \A q \in 1 .. p - 1 : t[q].op = cache => t[q].index # t[p].index
  <2>1. /\ t[p] = s[p + 1] /\ p + 1 \in 1 .. Len(s) /\ 1 \in 1 .. (p + 1) - 1
        /\ \A q \in 1 .. p - 1 : t[q] = s[q + 1] /\ q + 1 \in 1 .. (p + 1) - 1
    BY <1>1 DEF Receiving
  <2>2. /\ t[p].index \in 1 .. n /\ t[p].index \notin T
        /\ t[p].index < ts \/ \E q \in 1 .. (p + 1) - 1 : s[q].op = def /\ t[p].index < s[q].size
        /\ \A q \in 1 .. (p + 1) - 1 : s[q].op = cache => s[q].index # t[p].index
    BY <2>1, <1>3 DEF Follows
  <2>3. t[p].index # x
    BY <2>1, <2>2
  <2>4. t[p].index < ts \/ \E q \in 1 .. p - 1 : t[q].op = def /\ t[p].index < t[q].size
    <3>1. ASSUME NEW q \in 1 .. (p + 1) - 1, s[q].op = def, t[p].index < s[q].size
          PROVE  \E r \in 1 .. p - 1 : t[r].op = def /\ t[p].index < t[r].size
      <4>1. q - 1 \in 1 .. p - 1 /\ t[q - 1] = s[q]
        BY <1>1, <3>1 DEF Receiving
      <4>2. QED BY <4>1, <3>1, Zenon
    <3>2. QED BY <3>1, <2>2
  <2>5. \A q \in 1 .. p - 1 : t[q].op = cache => t[q].index # t[p].index
    BY <2>1, <2>2
  <2>6. QED BY <2>2, <2>4, <2>5, <2>3
<1>4. \A k \in 1 .. n : k \in T \cup {x} \/ \E p \in 1 .. Len(t) : t[p].op = cache /\ t[p].index = k
  <2>1. ASSUME NEW k \in 1 .. n, k \notin T \cup {x}
        PROVE  \E p \in 1 .. Len(t) : t[p].op = cache /\ t[p].index = k
    <3>1. PICK p \in 1 .. Len(s) : s[p].op = cache /\ s[p].index = k
      BY <2>1 DEF Follows
    <3>2. p - 1 \in 1 .. Len(t) /\ t[p - 1] = s[p]
      BY <3>1, <2>1, Left
    <3>3. QED BY <3>1, <3>2, Zenon
  <2>2. QED BY <2>1
<1>5. ASSUME NEW p \in 1 .. Len(t), t[p].op = def
      PROVE  /\ t[p].size \in Nat /\ ts <= t[p].size /\ t[p].size <= size
             /\ \A q \in 1 .. p - 1 : t[q].op = def => t[q].size <= t[p].size
  <2>1. /\ t[p] = s[p + 1] /\ p + 1 \in 1 .. Len(s)
        /\ \A q \in 1 .. p - 1 : t[q] = s[q + 1] /\ q + 1 \in 1 .. (p + 1) - 1
    BY <1>1 DEF Receiving
  <2>2. /\ t[p].size \in Nat /\ ts <= t[p].size /\ t[p].size <= size
        /\ \A q \in 1 .. (p + 1) - 1 : s[q].op = def => s[q].size <= t[p].size
    BY <2>1, <1>5 DEF Follows
  <2>3. QED BY <2>1, <2>2
<1>6. ts <= size /\ (ts = size \/ \E p \in 1 .. Len(t) : t[p].op = def /\ t[p].size = size)
  <2>1. ASSUME NEW p \in 1 .. Len(s), s[p].op = def, s[p].size = size
        PROVE  \E q \in 1 .. Len(t) : t[q].op = def /\ t[q].size = size
    <3>1. p - 1 \in 1 .. Len(t) /\ t[p - 1] = s[p]
      BY Left, <2>1
    <3>2. QED BY <3>1, <2>1, Zenon
  <2>2. QED BY <2>1 DEF Follows
<1>7. Follows(t, def, cache, T \cup {x}, ts, n, size)
  BY <1>3, <1>4, <1>5, <1>6 DEF Follows
<1>8. QED BY <1>7, <1>2

LEMMA OtherReceived ==
  ASSUME NEW s, NEW t, NEW def, NEW cache, NEW T, NEW ts, NEW n, NEW size,
         Follows(s, def, cache, T, ts, n, size), Receiving(t, s), s[1].op \notin {def, cache}
  PROVE  Follows(t, def, cache, T, ts, n, size)
<1>1. 1 \in 1 .. Len(s) /\ Len(t) \in Nat
  BY DEF Receiving
<1>2. ASSUME NEW p \in 1 .. Len(t), t[p].op = cache
      PROVE  /\ t[p].index \in 1 .. n /\ t[p].index \notin T
             /\ t[p].index < ts \/ \E q \in 1 .. p - 1 : t[q].op = def /\ t[p].index < t[q].size
             /\ \A q \in 1 .. p - 1 : t[q].op = cache => t[q].index # t[p].index
  <2>1. /\ t[p] = s[p + 1] /\ p + 1 \in 1 .. Len(s)
        /\ \A q \in 1 .. p - 1 : t[q] = s[q + 1] /\ q + 1 \in 1 .. (p + 1) - 1
    BY <1>1 DEF Receiving
  <2>2. /\ t[p].index \in 1 .. n /\ t[p].index \notin T
        /\ t[p].index < ts \/ \E q \in 1 .. (p + 1) - 1 : s[q].op = def /\ t[p].index < s[q].size
        /\ \A q \in 1 .. (p + 1) - 1 : s[q].op = cache => s[q].index # t[p].index
    BY <2>1, <1>2 DEF Follows
  <2>3. t[p].index < ts \/ \E q \in 1 .. p - 1 : t[q].op = def /\ t[p].index < t[q].size
    <3>1. ASSUME NEW q \in 1 .. (p + 1) - 1, s[q].op = def, t[p].index < s[q].size
          PROVE  \E r \in 1 .. p - 1 : t[r].op = def /\ t[p].index < t[r].size
      <4>1. q - 1 \in 1 .. p - 1 /\ t[q - 1] = s[q]
        BY <1>1, <3>1 DEF Receiving
      <4>2. QED BY <4>1, <3>1, Zenon
    <3>2. QED BY <3>1, <2>2
  <2>4. \A q \in 1 .. p - 1 : t[q].op = cache => t[q].index # t[p].index
    BY <2>1, <2>2
  <2>5. QED BY <2>2, <2>3, <2>4
<1>3. \A k \in 1 .. n : k \in T \/ \E p \in 1 .. Len(t) : t[p].op = cache /\ t[p].index = k
  <2>1. ASSUME NEW k \in 1 .. n, k \notin T
        PROVE  \E p \in 1 .. Len(t) : t[p].op = cache /\ t[p].index = k
    <3>1. PICK p \in 1 .. Len(s) : s[p].op = cache /\ s[p].index = k
      BY <2>1 DEF Follows
    <3>2. p - 1 \in 1 .. Len(t) /\ t[p - 1] = s[p]
      BY <3>1, <2>1, Left
    <3>3. QED BY <3>1, <3>2, Zenon
  <2>2. QED BY <2>1
<1>4. ASSUME NEW p \in 1 .. Len(t), t[p].op = def
      PROVE  /\ t[p].size \in Nat /\ ts <= t[p].size /\ t[p].size <= size
             /\ \A q \in 1 .. p - 1 : t[q].op = def => t[q].size <= t[p].size
  <2>1. /\ t[p] = s[p + 1] /\ p + 1 \in 1 .. Len(s)
        /\ \A q \in 1 .. p - 1 : t[q] = s[q + 1] /\ q + 1 \in 1 .. (p + 1) - 1
    BY <1>1 DEF Receiving
  <2>2. /\ t[p].size \in Nat /\ ts <= t[p].size /\ t[p].size <= size
        /\ \A q \in 1 .. (p + 1) - 1 : s[q].op = def => s[q].size <= t[p].size
    BY <2>1, <1>4 DEF Follows
  <2>3. QED BY <2>1, <2>2
<1>5. ts <= size /\ (ts = size \/ \E p \in 1 .. Len(t) : t[p].op = def /\ t[p].size = size)
  <2>1. ASSUME NEW p \in 1 .. Len(s), s[p].op = def, s[p].size = size
        PROVE  \E q \in 1 .. Len(t) : t[q].op = def /\ t[q].size = size
    <3>1. p - 1 \in 1 .. Len(t) /\ t[p - 1] = s[p]
      BY Left, <2>1
    <3>2. QED BY <3>1, <2>1, Zenon
  <2>2. QED BY <2>1 DEF Follows
<1>6. QED BY <1>2, <1>3, <1>4, <1>5 DEF Follows

-----------------------------------------------------------------------------
(* What the messages tell. *)

\* What has come before a message has come before it still when more is sent.
LEMMA CameSending ==
  ASSUME NEW s, NEW t, NEW m, Sending(t, s, m), NEW cache, NEW T, NEW k,
         NEW p \in 1 .. Len(s) + 1, Came(s, cache, T, k, p)
  PROVE  Came(t, cache, T, k, p)
<1>1. \A q \in 1 .. p - 1 : q \in 1 .. Len(s) /\ t[q] = s[q]
  BY DEF Sending
<1>2. QED BY <1>1, Zenon DEF Came

\* All that a cache holds has come when its next message is sent.
LEMMA AllCame ==
  ASSUME NEW s, NEW def, NEW cache, NEW T, NEW ts, NEW n, NEW size, Len(s) \in Nat,
         Follows(s, def, cache, T, ts, n, size), NEW k \in 1 .. n
  PROVE  Came(s, cache, T, k, Len(s) + 1)
<1>1. Len(s) + 1 - 1 = Len(s)
  OBVIOUS
<1>2. k \in T \/ \E p \in 1 .. Len(s) : s[p].op = cache /\ s[p].index = k
  BY DEF Follows
<1>3. QED BY <1>1, <1>2 DEF Came

\* What has come before a message has come before it still when one is read.
LEMMA CameReceiving ==
  ASSUME NEW s, NEW t, Receiving(t, s), NEW cache, NEW T, NEW U, T \subseteq U,
         s[1].op = cache => s[1].index \in U,
         NEW k, NEW p \in 1 .. Len(t), Came(s, cache, T, k, p + 1)
  PROVE  Came(t, cache, U, k, p)
<1>1. ASSUME NEW q \in 1 .. (p + 1) - 1, s[q].op = cache, s[q].index = k
      PROVE  Came(t, cache, U, k, p)
  <2>1. q = 1 \/ (q - 1 \in 1 .. p - 1 /\ t[q - 1] = s[q])
    BY DEF Receiving
  <2>2. QED BY <2>1, <1>1, Zenon DEF Came
<1>2. k \in T => Came(t, cache, U, k, p)
  BY Zenon DEF Came
<1>3. QED BY <1>1, <1>2, Zenon DEF Came

\* The cache y is the cache x with more entries.
Extended(x, y) ==
  /\ Len(x) \in Nat /\ Len(y) \in Nat /\ Len(x) <= Len(y)
  /\ \A k \in 1 .. Len(x) : y[k] = x[k]

LEMMA TellsSending ==
  ASSUME NEW s, NEW t, NEW m, Sending(t, s, m), NEW TI, NEW TC, NEW is, NEW cs,
         NEW ks, NEW ds, Extended(is, ks), Extended(cs, ds), Tells(s, TI, TC, is, cs),
         \A p \in 1 .. Len(s) : s[p].op = "I_CACHE" => s[p].index \in 1 .. Len(is),
         \A p \in 1 .. Len(s) : s[p].op = "C_CACHE" => s[p].index \in 1 .. Len(cs),
         TellsAt(t, TI, TC, ks, ds, Len(s) + 1)
  PROVE  Tells(t, TI, TC, ks, ds)
<1> SUFFICES ASSUME NEW p \in 1 .. Len(s) PROVE TellsAt(t, TI, TC, ks, ds, p)
  BY DEF Tells, Sending
<1>1. t[p] = s[p] /\ p \in 1 .. Len(s) + 1 /\ TellsAt(s, TI, TC, is, cs, p)
  BY DEF Sending, Tells
<1>2. ASSUME NEW k, NEW cache, NEW T, Came(s, cache, T, k, p) PROVE Came(t, cache, T, k, p)
  BY <1>1, <1>2, CameSending, Zenon
<1>3. \A b : BinCame(s, TI, TC, b, p) => BinCame(t, TI, TC, b, p)
  BY <1>2, Zenon DEF BinCame
<1>4. t[p].op = "I_CACHE" => t[p].text = ks[t[p].index].text
  BY <1>1 DEF TellsAt, Extended
<1>5. t[p].op = "C_CACHE" => ds[t[p].index] = cs[t[p].index]
  BY <1>1 DEF Extended
<1>6. t[p].op = "C_CACHE" =>
         /\ t[p].title = ds[t[p].index].title
         /\ t[p].bins = ds[t[p].index].bins
         /\ t[p].items = ds[t[p].index].items
         /\ t[p].title # Null => Came(t, "I_CACHE", TI, t[p].title, p)
         /\ \A j \in 1 .. Len(t[p].bins) : BinCame(t, TI, TC, t[p].bins[j], p)
  BY <1>1, <1>2, <1>3, <1>5, Zenon DEF TellsAt
<1>7. t[p].op = "CARTE" => -t[p].index \in 1 .. Len(cs) /\ Came(t, "C_CACHE", TC, -t[p].index, p)
  BY <1>1, <1>2, Zenon DEF TellsAt
<1>8. 1 .. Len(cs) \subseteq 1 .. Len(ds)
  BY DEF Extended
<1>9. QED BY <1>4, <1>6, <1>7, <1>8, Zenon DEF TellsAt

LEMMA TellsReceiving ==
  ASSUME NEW s, NEW t, Receiving(t, s), NEW TI, NEW TC, NEW UI, NEW UC, NEW is, NEW cs,
         TI \subseteq UI, s[1].op = "I_CACHE" => s[1].index \in UI,
         TC \subseteq UC, s[1].op = "C_CACHE" => s[1].index \in UC,
         Tells(s, TI, TC, is, cs)
  PROVE  Tells(t, UI, UC, is, cs)
<1> SUFFICES ASSUME NEW p \in 1 .. Len(t) PROVE TellsAt(t, UI, UC, is, cs, p)
  BY DEF Tells
<1>1. t[p] = s[p + 1] /\ TellsAt(s, TI, TC, is, cs, p + 1)
  BY Left DEF Tells
<1>2. \A k : Came(s, "I_CACHE", TI, k, p + 1) => Came(t, "I_CACHE", UI, k, p)
  BY CameReceiving
<1>3. \A k : Came(s, "C_CACHE", TC, k, p + 1) => Came(t, "C_CACHE", UC, k, p)
  BY CameReceiving
<1>4. \A b : BinCame(s, TI, TC, b, p + 1) => BinCame(t, UI, UC, b, p)
  BY <1>2, <1>3, Zenon DEF BinCame
<1>5. QED BY <1>1, <1>2, <1>3, <1>4, Zenon DEF TellsAt

-----------------------------------------------------------------------------
(* Induction, with sets for predicates. *)

\* A set of natural numbers has a least one.
LEMMA Least ==
  ASSUME NEW T, T \subseteq Nat, T # {}
  PROVE  \E m \in T : \A n \in T : m <= n
<1> DEFINE R == OpToRel(<, Nat)
<1>1. IsWellFoundedOn(R, Nat)
  BY NatLessThanWellFounded
<1>2. \A x, y \in Nat : <<y, x>> \in R <=> y < x
  BY DEF OpToRel
<1> HIDE DEF R
<1>3. PICK m \in T : \A y \in T : <<y, m>> \notin R
  BY <1>1, WFMin, Zenon
<1>4. ASSUME NEW n \in T PROVE m <= n
  <2>1. n \in Nat /\ m \in Nat /\ ~ (n < m)
    BY <1>2, <1>3, Zenon
  <2>2. QED BY <2>1
<1>5. QED
  BY <1>4, Zenon

LEMMA Induct ==
  ASSUME NEW T, 0 \in T, \A k \in Nat : k \in T => k + 1 \in T
  PROVE  Nat \subseteq T
<1> SUFFICES ASSUME Nat \ T # {} PROVE FALSE
  OBVIOUS
<1>1. PICK m \in Nat \ T : \A n \in Nat \ T : m <= n
  BY Least
<1>2. m - 1 \in Nat /\ ~ (m <= m - 1)
  BY <1>1
<1>3. m - 1 \in T
  BY <1>1, <1>2, Zenon
<1>4. m \in T
  <2>1. (m - 1) + 1 = m
    BY <1>1
  <2>2. QED BY <1>2, <1>3, <2>1, Zenon
<1>5. QED BY <1>1, <1>4

-----------------------------------------------------------------------------
(* The layout of a menu. *)

\* f is the recursive function of cartelimits, up to bin k.
Sums(f, k, bins) ==
  f = [j \in 0 .. k |-> IF j = 0 THEN 0 ELSE f[j - 1] + Entries(bins[j])]

\* f is the recursive function of FlattenSeq, up to element k.
Joins(f, k, ms) ==
  f = [i \in 1 .. k |-> IF i = 1 THEN ms[i] ELSE f[i - 1] \o ms[i]]

LEMMA SumsExist == ASSUME NEW bins, NEW k \in Nat PROVE \E f : Sums(f, k, bins)
<1> DEFINE T == { n \in Nat : \E f : Sums(f, n, bins) }
<1>1. 0 \in T
  <2>1. [j \in 0 .. 0 |-> 0] = [j \in 0 .. 0 |-> IF j = 0 THEN 0 ELSE [i \in 0 .. 0 |-> 0][j - 1] + Entries(bins[j])]
    OBVIOUS
  <2>2. Sums([j \in 0 .. 0 |-> 0], 0, bins)
    BY <2>1, Zenon DEF Sums
  <2>3. QED BY <2>2
<1>2. ASSUME NEW n \in Nat, NEW f, Sums(f, n, bins) PROVE \E g : Sums(g, n + 1, bins)
  <2> DEFINE g == [j \in 0 .. n + 1 |-> IF j = n + 1 THEN f[n] + Entries(bins[n + 1]) ELSE f[j]]
  <2>1. ASSUME NEW j \in 0 .. n + 1
        PROVE  g[j] = IF j = 0 THEN 0 ELSE g[j - 1] + Entries(bins[j])
    <3>1. CASE j = n + 1
      BY <3>1
    <3>2. CASE j \in 0 .. n
      <4>1. f[j] = IF j = 0 THEN 0 ELSE f[j - 1] + Entries(bins[j])
        BY <1>2, <3>2 DEF Sums
      <4>2. g[j] = f[j] /\ (j # 0 => g[j - 1] = f[j - 1])
        BY <3>2
      <4>3. QED BY <4>1, <4>2, Zenon
    <3>3. QED BY <3>1, <3>2
  <2>2. Sums(g, n + 1, bins)
    <3>1. g = [j \in 0 .. n + 1 |-> g[j]]
      OBVIOUS
    <3> HIDE DEF g
    <3>2. QED BY <2>1, <3>1 DEF Sums
  <2>3. QED BY <2>2, Zenon
<1>3. \A n \in Nat : n \in T => n + 1 \in T
  BY <1>2
<1> HIDE DEF T
<1>4. k \in T
  BY <1>1, <1>3, Induct
<1>5. QED BY <1>4 DEF T

LEMMA JoinsExist == ASSUME NEW ms, NEW k \in Nat PROVE \E f : Joins(f, k, ms)
<1> DEFINE T == { n \in Nat : \E f : Joins(f, n, ms) }
<1>1. 0 \in T
  <2>1. 1 .. 0 = {}
    OBVIOUS
  <2>2. [i \in {} |-> 0] = [i \in {} |-> IF i = 1 THEN ms[i] ELSE [x \in {} |-> 0][i - 1] \o ms[i]]
    OBVIOUS
  <2>3. Joins([i \in {} |-> 0], 0, ms)
    BY <2>1, <2>2, Zenon DEF Joins
  <2>4. QED BY <2>3
<1>2. ASSUME NEW n \in Nat, NEW f, Joins(f, n, ms) PROVE \E g : Joins(g, n + 1, ms)
  <2> DEFINE g == [i \in 1 .. n + 1 |-> IF i = n + 1 THEN (IF n = 0 THEN ms[1] ELSE f[n] \o ms[n + 1]) ELSE f[i]]
  <2>1. ASSUME NEW i \in 1 .. n + 1
        PROVE  g[i] = IF i = 1 THEN ms[i] ELSE g[i - 1] \o ms[i]
    <3>1. CASE i = n + 1
      <4>1. CASE n = 0
        BY <3>1, <4>1
      <4>2. CASE n # 0
        <5>1. i - 1 \in 1 .. n + 1 /\ i - 1 # n + 1 /\ i - 1 = n /\ i # 1
          BY <3>1, <4>2
        <5>2. g[i] = f[n] \o ms[n + 1]
          BY <3>1, <4>2, Zenon
        <5>3. g[i - 1] = f[n]
          BY <5>1, Zenon
        <5>4. QED BY <5>1, <5>2, <5>3, <3>1, Zenon
      <4>3. QED BY <4>1, <4>2, Zenon
    <3>2. CASE i \in 1 .. n
      <4>1. f[i] = IF i = 1 THEN ms[i] ELSE f[i - 1] \o ms[i]
        BY <1>2, <3>2 DEF Joins
      <4>2. g[i] = f[i] /\ (i # 1 => g[i - 1] = f[i - 1])
        BY <3>2
      <4>3. QED BY <4>1, <4>2, Zenon
    <3>3. QED BY <3>1, <3>2
  <2>2. Joins(g, n + 1, ms)
    <3>1. g = [i \in 1 .. n + 1 |-> g[i]]
      OBVIOUS
    <3> HIDE DEF g
    <3>2. [i \in 1 .. n + 1 |-> g[i]] = [i \in 1 .. n + 1 |-> IF i = 1 THEN ms[i] ELSE g[i - 1] \o ms[i]]
      BY <2>1, Zenon
    <3>3. QED BY <3>1, <3>2, Zenon DEF Joins
  <2>3. QED BY <2>2, Zenon
<1>3. \A n \in Nat : n \in T => n + 1 \in T
  BY <1>2
<1> HIDE DEF T
<1>4. k \in T
  BY <1>1, <1>3, Induct
<1>5. QED BY <1>4 DEF T

LEMMA CartelimitsSums ==
  ASSUME NEW bins, Len(bins) \in Nat
  PROVE  \E f : Sums(f, Len(bins), bins) /\ cartelimits(bins) = f[Len(bins)]
<1> DEFINE f == CHOOSE f : Sums(f, Len(bins), bins)
<1>1. cartelimits(bins) = f[Len(bins)]
  BY Zenon DEF cartelimits, Sums
<1>2. Sums(f, Len(bins), bins)
  BY SumsExist, Zenon
<1>3. QED BY <1>1, <1>2, Zenon

LEMMA FlattenJoins ==
  ASSUME NEW ms, Len(ms) \in Nat \ {0}
  PROVE  \E f : Joins(f, Len(ms), ms) /\ FlattenSeq(ms) = f[Len(ms)]
<1> DEFINE f == CHOOSE f : Joins(f, Len(ms), ms)
<1>1. FlattenSeq(ms) = f[Len(ms)]
  <2>1. Len(ms) # 0
    OBVIOUS
  <2>2. QED BY <2>1, Zenon DEF FlattenSeq, Joins
<1>2. Joins(f, Len(ms), ms)
  BY JoinsExist, Zenon
<1>3. QED BY <1>1, <1>2, Zenon

\* Element j of ms has w[j] entries, and begins behind the first at[j - 1].
Widths(S, ms, n, w) == \A j \in 1 .. n : w[j] \in Nat /\ ms[j] \in Seq(S) /\ Len(ms[j]) = w[j]

Begins(n, w, at) == at[0] = 0 /\ \A j \in 1 .. n : at[j] = at[j - 1] + w[j]

\* es are the entries of all of them.
Joined(S, ms, n, w, at, es) ==
  /\ \A j \in 0 .. n : at[j] \in Nat
  /\ es \in Seq(S) /\ Len(es) = at[n]
  /\ \A j \in 1 .. n : \A k \in 1 .. w[j] : es[at[j - 1] + k] = ms[j][k]

LEMMA JoinedAt ==
  ASSUME NEW S, NEW ms, NEW n, n \in Nat \ {0}, NEW w, NEW at, NEW f,
         Widths(S, ms, n, w), Begins(n, w, at), Joins(f, n, ms)
  PROVE  Joined(S, ms, n, w, at, f[n])
<1> USE DEF Widths, Begins, Joined
<1> DEFINE Good(i) ==
      /\ \A j \in 0 .. i : at[j] \in Nat /\ at[j] <= at[i]
      /\ f[i] \in Seq(S) /\ Len(f[i]) = at[i]
      /\ \A j \in 1 .. i : \A k \in 1 .. w[j] : f[i][at[j - 1] + k] = ms[j][k]
    T == { i \in Nat : i + 1 \in 1 .. n => Good(i + 1) }
<1>1. Good(1)
  <2>1. f[1] = ms[1] /\ at[1] = w[1] /\ at[0] = 0 /\ w[1] \in Nat
    <3>1. f[1] = ms[1]
      BY DEF Joins
    <3>2. QED BY <3>1
  <2>2. ms[1] \in Seq(S) /\ Len(ms[1]) = w[1]
    OBVIOUS
  <2>3. \A j \in 0 .. 1 : at[j] \in Nat /\ at[j] <= at[1]
    BY <2>1
  <2>4. \A j \in 1 .. 1 : \A k \in 1 .. w[j] : f[1][at[j - 1] + k] = ms[j][k]
    <3> SUFFICES ASSUME NEW k \in 1 .. w[1] PROVE f[1][at[0] + k] = ms[1][k]
      OBVIOUS
    <3>1. at[0] + k = k
      BY <2>1
    <3>2. QED BY <3>1, <2>1, Zenon
  <2>5. QED BY <2>1, <2>2, <2>3, <2>4
<1>2. ASSUME NEW i \in 1 .. n - 1, Good(i) PROVE Good(i + 1)
  <2>1. f[i + 1] = f[i] \o ms[i + 1]
    <3>1. i + 1 \in 1 .. n /\ i + 1 # 1 /\ (i + 1) - 1 = i
      OBVIOUS
    <3>2. f[i + 1] = IF i + 1 = 1 THEN ms[i + 1] ELSE f[(i + 1) - 1] \o ms[i + 1]
      BY <3>1 DEF Joins
    <3>3. QED BY <3>1, <3>2, Zenon
  <2>2. at[i + 1] = at[i] + w[i + 1] /\ w[i + 1] \in Nat /\ at[i] \in Nat
    <3>1. i + 1 \in 1 .. n /\ (i + 1) - 1 = i /\ i \in 0 .. i
      OBVIOUS
    <3>2. QED BY <3>1, <1>2
  <2>3. ms[i + 1] \in Seq(S) /\ Len(ms[i + 1]) = w[i + 1] /\ f[i] \in Seq(S) /\ Len(f[i]) = at[i]
    BY <1>2
  <2>4. /\ f[i + 1] \in Seq(S) /\ Len(f[i + 1]) = at[i + 1]
        /\ \A k \in 1 .. at[i + 1] : f[i + 1][k] = IF k <= at[i] THEN f[i][k] ELSE ms[i + 1][k - at[i]]
    <3>1. /\ f[i] \o ms[i + 1] \in Seq(S)
          /\ Len(f[i] \o ms[i + 1]) = Len(f[i]) + Len(ms[i + 1])
          /\ \A k \in 1 .. Len(f[i]) + Len(ms[i + 1]) :
               (f[i] \o ms[i + 1])[k] = IF k <= Len(f[i]) THEN f[i][k] ELSE ms[i + 1][k - Len(f[i])]
      BY <2>3, ConcatProperties, Zenon
    <3>2. QED BY <3>1, <2>1, <2>2, <2>3, Zenon
  <2>5. \A j \in 0 .. i + 1 : at[j] \in Nat /\ at[j] <= at[i + 1]
    BY <2>2, <1>2
  <2>6. ASSUME NEW j \in 1 .. i + 1, NEW k \in 1 .. w[j]
        PROVE  f[i + 1][at[j - 1] + k] = ms[j][k]
    <3>1. CASE j = i + 1
      <4>1. at[i] + k \in 1 .. at[i + 1] /\ ~ (at[i] + k <= at[i]) /\ (at[i] + k) - at[i] = k
        BY <2>2, <3>1
      <4>2. f[i + 1][at[i] + k] = ms[i + 1][k]
        BY <4>1, <2>4
      <4>3. j - 1 = i
        BY <3>1
      <4>4. QED BY <4>2, <4>3, <3>1, Zenon
    <3>2. CASE j \in 1 .. i
      <4>1. at[j] = at[j - 1] + w[j] /\ at[j - 1] \in Nat /\ at[j] <= at[i] /\ w[j] \in Nat /\ at[i] <= at[i + 1]
        <5>1. j \in 1 .. n /\ j - 1 \in 0 .. i /\ j \in 0 .. i
          BY <3>2
        <5>2. QED BY <5>1, <1>2, <2>2
      <4>2. at[j - 1] + k \in 1 .. at[i + 1] /\ at[j - 1] + k <= at[i]
        <5>1. k \in Nat /\ 1 <= k /\ k <= w[j]
          BY <4>1
        <5>2. at[i] \in Nat /\ at[i + 1] \in Nat /\ at[j] \in Nat
          <6>1. i \in 0 .. i + 1 /\ i + 1 \in 0 .. i + 1 /\ j \in 0 .. i + 1
            OBVIOUS
          <6>2. QED BY <6>1, <2>5, Zenon
        <5>3. at[j - 1] + k <= at[j] /\ at[j - 1] + k \in Nat /\ 1 <= at[j - 1] + k
          BY <4>1, <5>1
        <5> DEFINE x == at[j - 1] + k
        <5> HIDE DEF x
        <5>4. x \in Nat /\ 1 <= x /\ x <= at[j]
          BY <5>3 DEF x
        <5>5. x \in 1 .. at[i + 1] /\ x <= at[i]
          BY <5>2, <5>4, <4>1
        <5>6. QED BY <5>5 DEF x
      <4>3. f[i + 1][at[j - 1] + k] = f[i][at[j - 1] + k]
        BY <4>2, <2>4
      <4>4. f[i][at[j - 1] + k] = ms[j][k]
        BY <3>2, <1>2
      <4>5. QED BY <4>3, <4>4, Zenon
    <3>3. QED BY <3>1, <3>2
  <2>7. QED BY <2>4, <2>5, <2>6
<1> HIDE DEF Good
<1>3. 0 \in T
  BY <1>1
<1>4. ASSUME NEW i \in Nat, i \in T PROVE i + 1 \in T
  <2> SUFFICES ASSUME i + 2 \in 1 .. n PROVE Good(i + 2)
    <3>1. (i + 1) + 1 = i + 2 /\ i + 1 \in Nat
      OBVIOUS
    <3>2. QED BY <3>1
  <2>1. i + 1 \in 1 .. n - 1 /\ i + 1 \in 1 .. n /\ (i + 1) + 1 = i + 2
    OBVIOUS
  <2>2. Good(i + 1)
    BY <2>1, <1>4
  <2>3. QED BY <2>1, <2>2, <1>2, Zenon
<1> HIDE DEF T
<1>5. n - 1 \in T
  <2>1. n - 1 \in Nat
    OBVIOUS
  <2>2. Nat \subseteq T
    BY <1>3, <1>4, Induct
  <2>3. QED BY <2>1, <2>2, Zenon
<1>6. Good(n)
  <2>1. (n - 1) + 1 = n /\ n \in 1 .. n
    OBVIOUS
  <2>2. QED BY <1>5, <2>1, Zenon DEF T
<1>7. QED BY <1>6 DEF Good

-----------------------------------------------------------------------------
(* What a bin stands for. *)

LEMMA BinMeant ==
  ASSUME HostInv, MeansInv, LaidInv, NEW b \in Bin(Len(items), Len(cartes))
  PROVE  Entries(b) \in Nat /\ Meant(b) \in Seq(StoredItem) /\ Len(Meant(b)) = Entries(b)
<1>1. CASE b > 0
  <2>1. b \in 1 .. Len(items) /\ items \in Seq(StoredItem)
    BY <1>1 DEF Bin, HostInv
  <2>2. items[b] \in StoredItem
    BY <2>1, ElementOfSeq, Zenon
  <2>3. Entries(b) = 1 /\ Meant(b) = <<items[b]>>
    BY <1>1 DEF Entries, Meant
  <2>4. QED BY <2>2, <2>3
<1>2. CASE ~ (b > 0)
  <2>1. -b \in 1 .. Len(cartes) /\ cartes[-b].title \in 0 .. Len(items)
    <3>1. -b \in 1 .. Len(cartes)
      BY <1>2 DEF Bin
    <3>2. QED BY <3>1 DEF HostInv
  <2>2. CASE cartes[-b].title = Null
    <3>1. Entries(b) = cartes[-b].items /\ Meant(b) = means[-b]
      BY <1>2, <2>2 DEF Entries, Meant
    <3>2. cartes[-b].items = Len(means[-b])
      BY <2>1 DEF LaidInv
    <3>3. means[-b] \in Seq(StoredItem)
      BY <2>1 DEF MeansInv
    <3>4. QED BY <3>1, <3>2, <3>3
  <2>3. CASE cartes[-b].title # Null
    <3>1. Entries(b) = 1 /\ Meant(b) = <<items[cartes[-b].title]>>
      BY <1>2, <2>3 DEF Entries, Meant
    <3>2. cartes[-b].title \in 1 .. Len(items)
      BY <2>1, <2>3 DEF Null
    <3>3. items[cartes[-b].title] \in StoredItem
      BY <3>2, ElementOfSeq, Zenon DEF HostInv
    <3>4. QED BY <3>1, <3>3
  <2>4. QED BY <2>2, <2>3, Zenon
<1>3. QED BY <1>1, <1>2, Zenon

LEMMA ListLaid ==
  ASSUME HostInv, MeansInv, LaidInv, list # <<>>
  PROVE  /\ listMeans = MeantBy(list)
         /\ FlattenSeq(listMeans) \in Seq(StoredItem)
         /\ cartelimits(list) = Len(FlattenSeq(listMeans))
         /\ Laid(list, FlattenSeq(listMeans))
<1> DEFINE n == Len(list)
           ms == listMeans
           w == [j \in 1 .. n |-> Entries(list[j])]
<1>1. n \in Nat \ {0} /\ Len(ms) = n
  <2>1. list \in Seq(Bin(Len(items), Len(cartes)))
    BY DEF HostInv
  <2>2. n \in Nat \ {0}
    BY <2>1, EmptySeq
  <2>3. QED BY <2>2 DEF MeansInv
<1>2. \A j \in 1 .. n : w[j] \in Nat /\ ms[j] \in Seq(StoredItem) /\ Len(ms[j]) = w[j]
  <2> SUFFICES ASSUME NEW j \in 1 .. n
               PROVE  w[j] \in Nat /\ ms[j] \in Seq(StoredItem) /\ Len(ms[j]) = w[j]
    OBVIOUS
  <2>1. list[j] \in Bin(Len(items), Len(cartes))
    BY ElementOfSeq, Zenon DEF HostInv
  <2>2. ms[j] = Meant(list[j])
    BY DEF MeansInv
  <2>3. w[j] = Entries(list[j])
    OBVIOUS
  <2>4. QED BY <2>1, <2>2, <2>3, BinMeant, Zenon
<1>3. PICK at : Sums(at, n, list) /\ cartelimits(list) = at[n]
  BY <1>1, CartelimitsSums
<1>4. PICK f : Joins(f, n, ms) /\ FlattenSeq(ms) = f[n]
  BY <1>1, FlattenJoins
<1>5. at[0] = 0 /\ \A j \in 1 .. n : at[j] = at[j - 1] + w[j]
  <2>1. at[0] = 0
    BY <1>1, <1>3 DEF Sums
  <2>2. ASSUME NEW j \in 1 .. n PROVE at[j] = at[j - 1] + Entries(list[j])
    <3>1. j \in 0 .. n /\ j # 0
      BY <1>1
    <3>2. QED BY <3>1, <1>3, Zenon DEF Sums
  <2>3. QED BY <2>1, <2>2
<1> HIDE DEF w
<1>6. /\ \A j \in 0 .. n : at[j] \in Nat
      /\ f[n] \in Seq(StoredItem) /\ Len(f[n]) = at[n]
      /\ \A j \in 1 .. n : \A k \in 1 .. w[j] : f[n][at[j - 1] + k] = ms[j][k]
  <2> HIDE DEF n, ms
  <2>1. Widths(StoredItem, ms, n, w)
    BY <1>2, Zenon DEF Widths
  <2>2. Begins(n, w, at)
    BY <1>5, Zenon DEF Begins
  <2>3. Joins(f, n, ms) /\ n \in Nat \ {0}
    BY <1>1, <1>4
  <2>4. Joined(StoredItem, ms, n, w, at, f[n])
    BY <2>1, <2>2, <2>3, JoinedAt, Zenon
  <2>5. QED BY <2>4, Zenon DEF Joined
<1>7. at \in [0 .. n -> Nat]
  <2>1. at = [j \in 0 .. n |-> at[j]]
    BY <1>3 DEF Sums
  <2>2. QED BY <2>1, <1>6
<1>8. LaidBy(at, list, f[n])
  <2>1. ASSUME NEW j \in 1 .. Len(list)
        PROVE  /\ at[j] = at[j - 1] + Entries(list[j])
               /\ \A k \in 1 .. Entries(list[j]) : f[n][at[j - 1] + k] = Meant(list[j])[k]
    <3>1. w[j] = Entries(list[j])
      BY DEF w
    <3>2. ms[j] = Meant(list[j])
      BY DEF MeansInv
    <3>3. QED BY <3>1, <3>2, <1>5, <1>6, Zenon
  <2>2. at[0] = 0 /\ at[Len(list)] = Len(f[n])
    BY <1>5, <1>6
  <2>3. QED BY <2>1, <2>2, <1>7, Zenon DEF LaidBy
<1>9. listMeans = MeantBy(list)
  <2>1. listMeans = [j \in 1 .. n |-> listMeans[j]]
    BY <1>1 DEF MeansInv
  <2>2. \A j \in 1 .. n : listMeans[j] = Meant(list[j])
    BY DEF MeansInv
  <2>3. [j \in 1 .. n |-> listMeans[j]] = [j \in 1 .. n |-> Meant(list[j])]
    BY <2>2, Zenon
  <2>4. QED BY <2>1, <2>3, Zenon DEF MeantBy
<1>10. Laid(list, f[n])
  BY <1>7, <1>8 DEF Laid
<1>11. QED BY <1>3, <1>4, <1>6, <1>9, <1>10, Zenon

-----------------------------------------------------------------------------
(* The caches grow. *)

HostGrows == Extended(items, items') /\ Extended(cartes, cartes') /\ Extended(means, means')

\* What a bin stands for does not change any more.
LEMMA GrowKeeps ==
  ASSUME HostInv, MeansInv, HostGrows, NEW b \in Bin(Len(items), Len(cartes))
  PROVE  Entries(b)' = Entries(b) /\ Meant(b)' = Meant(b)
<1>1. CASE b > 0
  <2>1. items'[b] = items[b]
    BY <1>1 DEF Bin, HostGrows, Extended
  <2>2. QED BY <2>1, <1>1, Zenon DEF Entries, Meant
<1>2. CASE ~ (b > 0)
  <2>1. -b \in 1 .. Len(cartes)
    BY <1>2 DEF Bin
  <2>2. cartes'[-b] = cartes[-b]
    BY <2>1 DEF HostGrows, Extended
  <2>3. means'[-b] = means[-b]
    BY <2>1 DEF HostGrows, Extended, MeansInv
  <2>4. cartes[-b].title \in 0 .. Len(items)
    BY <2>1 DEF HostInv
  <2>5. cartes[-b].title = Null \/ items'[cartes[-b].title] = items[cartes[-b].title]
    <3>1. cartes[-b].title = 0 \/ cartes[-b].title \in 1 .. Len(items)
      BY <2>4
    <3>2. QED BY <3>1 DEF HostGrows, Extended, Null
  <2>6. QED BY <1>2, <2>2, <2>3, <2>5, Zenon DEF Entries, Meant
<1>3. QED BY <1>1, <1>2, Zenon

LEMMA BinsGrow ==
  ASSUME NEW k \in Nat, NEW n \in Nat, NEW l \in Nat, NEW m \in Nat, k <= l, n <= m
  PROVE  Bin(k, n) \subseteq Bin(l, m)
BY DEF Bin

\* The menus that were there are as they were.
LEMMA OldMenus ==
  ASSUME HostInv, MeansInv, LaidInv, HostGrows, NEW c \in 1 .. Len(cartes)
  PROVE  /\ cartes'[c] = cartes[c] /\ means'[c] = means[c]
         /\ cartes[c].title \in 0 .. Len(items')
         /\ cartes[c].bins \in Seq(Bin(Len(items'), c - 1)) /\ cartes[c].bins # <<>>
         /\ means[c] = FlattenSeq(MeantBy(cartes[c].bins)')
         /\ cartes[c].items = Len(means[c])
         /\ Laid(cartes[c].bins, means[c])'
<1>1. PICK bins, es : bins = cartes[c].bins /\ es = means[c]
  OBVIOUS
<1>2. cartes'[c] = cartes[c]
  BY DEF HostGrows, Extended
<1>3. means'[c] = means[c]
  BY DEF HostGrows, Extended, MeansInv
<1>4. Len(items) \in Nat /\ Len(items') \in Nat /\ Len(items) <= Len(items') /\ Len(cartes) \in Nat
  BY DEF HostGrows, Extended
<1>5. cartes[c].title \in 0 .. Len(items')
  BY <1>4 DEF HostInv
<1>6. bins \in Seq(Bin(Len(items), c - 1)) /\ bins # <<>>
  BY <1>1 DEF HostInv
<1>7. bins \in Seq(Bin(Len(items'), c - 1))
  <2>1. Bin(Len(items), c - 1) \subseteq Bin(Len(items'), c - 1)
    BY <1>4, BinsGrow
  <2>2. QED BY <1>6, <2>1, SeqMonotonic, Zenon
<1>8. \A j \in 1 .. Len(bins) : bins[j] \in Bin(Len(items), Len(cartes))
  <2>1. Bin(Len(items), c - 1) \subseteq Bin(Len(items), Len(cartes))
    BY <1>4, BinsGrow
  <2>2. \A j \in 1 .. Len(bins) : bins[j] \in Bin(Len(items), c - 1)
    BY <1>6, ElementOfSeq, Zenon
  <2>3. QED BY <2>1, <2>2, Zenon
<1>9. \A j \in 1 .. Len(bins) : Entries(bins[j])' = Entries(bins[j]) /\ Meant(bins[j])' = Meant(bins[j])
  BY <1>8, GrowKeeps, Zenon
<1>10. MeantBy(bins)' = MeantBy(bins)
  <2>1. [j \in 1 .. Len(bins) |-> Meant(bins[j])'] = [j \in 1 .. Len(bins) |-> Meant(bins[j])]
    BY <1>9, Zenon
  <2>2. QED BY <2>1, Zenon DEF MeantBy
<1>11. es = FlattenSeq(MeantBy(bins)')
  BY <1>1, <1>10, Zenon DEF MeansInv
<1>12. PICK at \in [0 .. Len(bins) -> Nat] : LaidBy(at, bins, es)
  BY <1>1, Zenon DEF LaidInv, Laid
<1>13. LaidBy(at, bins, es)'
  BY <1>9, <1>12, Zenon DEF LaidBy
<1>14. Laid(bins, es)'
  BY <1>13, Zenon DEF Laid
<1>15. Laid(cartes[c].bins, means[c])'
  <2>1. bins = cartes'[c].bins /\ es = means'[c]
    BY <1>1, <1>2, <1>3, Zenon
  <2>2. QED BY <1>14, <2>1, Zenon
<1>16. cartes[c].items = Len(means[c])
  BY Zenon DEF LaidInv
<1>17. QED BY <1>1, <1>2, <1>3, <1>5, <1>6, <1>7, <1>11, <1>15, <1>16, Zenon

-----------------------------------------------------------------------------
(* The list that the program fills. *)

\* t is s with e put in at place p.
PutIn(t, S, s, p, e) ==
  /\ t \in Seq(S) /\ Len(t) = Len(s) + 1
  /\ \A j \in 1 .. Len(s) + 1 : t[j] = IF j < p THEN s[j] ELSE IF j = p THEN e ELSE s[j - 1]

LEMMA Inserted ==
  ASSUME NEW S, NEW s \in Seq(S), NEW p, p \in 1 .. Len(s) + 1, NEW e \in S
  PROVE  PutIn(InsertAt(s, p, e), S, s, p, e)
<1> DEFINE n == Len(s)
           a == SubSeq(s, 1, p - 1)
           b == SubSeq(s, p, n)
           t == a \o <<e>>
<1>1. n \in Nat /\ p \in Nat /\ 1 <= p /\ p <= n + 1
  BY LenProperties
<1>2. a \in Seq(S) /\ Len(a) = p - 1 /\ \A j \in 1 .. p - 1 : a[j] = s[j]
  <2>1. \A j \in 1 .. p - 1 : j \in 1 .. n /\ s[j] \in S
    BY <1>1, ElementOfSeq
  <2>2. /\ a \in Seq(S) /\ Len(a) = IF 1 <= p - 1 THEN (p - 1) - 1 + 1 ELSE 0
        /\ \A j \in 1 .. (p - 1) - 1 + 1 : a[j] = s[1 + j - 1]
    BY <1>1, <2>1, SubSeqProperties
  <2>3. QED BY <2>2, <1>1
<1>3. b \in Seq(S) /\ Len(b) = n - p + 1 /\ \A j \in 1 .. n - p + 1 : b[j] = s[p + j - 1]
  <2>1. \A j \in p .. n : j \in 1 .. n /\ s[j] \in S
    BY <1>1, ElementOfSeq
  <2>2. /\ b \in Seq(S) /\ Len(b) = IF p <= n THEN n - p + 1 ELSE 0
        /\ \A j \in 1 .. n - p + 1 : b[j] = s[p + j - 1]
    BY <1>1, <2>1, SubSeqProperties
  <2>3. QED BY <2>2, <1>1
<1>4. InsertAt(s, p, e) = t \o b
  BY DEF InsertAt
<1> HIDE DEF a, b
<1>5. <<e>> \in Seq(S) /\ Len(<<e>>) = 1 /\ <<e>>[1] = e
  OBVIOUS
<1>6. t \in Seq(S) /\ Len(t) = p /\ \A j \in 1 .. p : t[j] = IF j < p THEN s[j] ELSE e
  <2>1. /\ t \in Seq(S) /\ Len(t) = Len(a) + 1
        /\ \A j \in 1 .. Len(a) + 1 : t[j] = IF j <= Len(a) THEN a[j] ELSE <<e>>[j - Len(a)]
    BY <1>2, <1>5, ConcatProperties
  <2>2. Len(t) = p
    BY <1>1, <1>2, <2>1
  <2>3. ASSUME NEW j \in 1 .. p PROVE t[j] = IF j < p THEN s[j] ELSE e
    <3>1. CASE j < p
      BY <3>1, <1>1, <1>2, <2>1
    <3>2. CASE j = p
      <4>1. j \in 1 .. Len(a) + 1 /\ ~ (j <= Len(a)) /\ j - Len(a) = 1 /\ ~ (j < p)
        BY <3>2, <1>1, <1>2
      <4>2. t[j] = <<e>>[j - Len(a)]
        BY <4>1, <2>1, Zenon
      <4>3. <<e>>[j - Len(a)] = e
        BY <4>1, <1>5
      <4>4. t[j] = e
        BY <4>2, <4>3, Zenon
      <4>5. QED BY <4>1, <4>4, Zenon
    <3>3. j < p \/ j = p
      BY <1>1
    <3>4. QED BY <3>1, <3>2, <3>3, Zenon
  <2>4. QED BY <2>1, <2>2, <2>3, Zenon
<1> HIDE DEF t
<1>7. /\ t \o b \in Seq(S) /\ Len(t \o b) = p + Len(b)
      /\ \A j \in 1 .. p + Len(b) : (t \o b)[j] = IF j <= p THEN t[j] ELSE b[j - p]
  <2>1. /\ t \o b \in Seq(S) /\ Len(t \o b) = Len(t) + Len(b)
        /\ \A j \in 1 .. Len(t) + Len(b) : (t \o b)[j] = IF j <= Len(t) THEN t[j] ELSE b[j - Len(t)]
    BY <1>3, <1>6, ConcatProperties, Zenon
  <2>2. QED BY <2>1, <1>6, Zenon
<1>8. p + Len(b) = n + 1
  BY <1>1, <1>3
<1>9. ASSUME NEW j \in 1 .. n + 1
      PROVE  (t \o b)[j] = IF j < p THEN s[j] ELSE IF j = p THEN e ELSE s[j - 1]
  <2>1. (t \o b)[j] = IF j <= p THEN t[j] ELSE b[j - p]
    BY <1>7, <1>8, Zenon
  <2>2. CASE j < p
    BY <2>1, <2>2, <1>1, <1>6
  <2>3. CASE j = p
    BY <2>1, <2>3, <1>1, <1>6
  <2>4. CASE j > p
    <3>1. j - p \in 1 .. n - p + 1 /\ p + (j - p) - 1 = j - 1 /\ ~ (j <= p) /\ ~ (j < p) /\ j # p
      BY <2>4, <1>1
    <3>2. (t \o b)[j] = b[j - p]
      BY <3>1, <2>1, Zenon
    <3>3. b[j - p] = s[p + (j - p) - 1]
      BY <3>1, <1>3, Zenon
    <3>4. s[p + (j - p) - 1] = s[j - 1]
      BY <3>1
    <3>5. (t \o b)[j] = s[j - 1]
      BY <3>2, <3>3, <3>4, Zenon
    <3>6. ~ (j < p)
      BY <3>1
    <3>7. j # p
      BY <3>1
    <3>8. QED BY <3>5, <3>6, <3>7, Zenon
  <2>5. j < p \/ j = p \/ j > p
    BY <1>1
  <2>6. QED BY <2>2, <2>3, <2>4, <2>5, Zenon
<1>10. QED BY <1>4, <1>7, <1>8, <1>9, Zenon DEF PutIn

\* What MeansInv says of the list.
ListMeant ==
  /\ list \in Seq(Bin(Len(items), Len(cartes)))
  /\ listMeans \in Seq(Seq(StoredItem)) /\ Len(listMeans) = Len(list)
  /\ \A j \in 1 .. Len(list) : listMeans[j] = Meant(list[j])

\* A bin and what it stands for are put at the same place.
LEMMA PutMeant ==
  ASSUME HostInv, MeansInv, HostGrows, NEW p \in 1 .. Len(list) + 1,
         NEW k \in Bin(Len(items'), Len(cartes')), NEW e \in Seq(StoredItem), e = Meant(k)',
         list' = InsertAt(list, p, k), listMeans' = InsertAt(listMeans, p, e)
  PROVE  ListMeant'
<1> DEFINE B == Bin(Len(items'), Len(cartes'))
<1>1. /\ Len(items) \in Nat /\ Len(items') \in Nat /\ Len(items) <= Len(items')
      /\ Len(cartes) \in Nat /\ Len(cartes') \in Nat /\ Len(cartes) <= Len(cartes')
  BY DEF HostGrows, Extended
<1>2. Bin(Len(items), Len(cartes)) \subseteq B
  BY <1>1, BinsGrow
<1>3. PICK l, ms : l = list /\ ms = listMeans
  OBVIOUS
<1>4. /\ l \in Seq(Bin(Len(items), Len(cartes))) /\ l \in Seq(B)
      /\ ms \in Seq(Seq(StoredItem)) /\ Len(ms) = Len(l) /\ Len(l) \in Nat
      /\ \A j \in 1 .. Len(l) : ms[j] = Meant(l[j])
  <2>1. l \in Seq(Bin(Len(items), Len(cartes)))
    BY <1>3 DEF HostInv
  <2>2. l \in Seq(B) /\ Len(l) \in Nat
    BY <2>1, <1>2, SeqMonotonic, LenProperties, Zenon
  <2>3. /\ ms \in Seq(Seq(StoredItem)) /\ Len(ms) = Len(l)
        /\ \A j \in 1 .. Len(l) : ms[j] = Meant(l[j])
    BY <1>3, Zenon DEF MeansInv
  <2>4. QED BY <2>1, <2>2, <2>3
<1>5. ASSUME NEW j \in 1 .. Len(l) PROVE ms[j] = Meant(l[j])'
  <2>1. l[j] \in Bin(Len(items), Len(cartes))
    BY <1>4, ElementOfSeq, Zenon
  <2>2. Meant(l[j])' = Meant(l[j])
    BY <2>1, GrowKeeps, Zenon
  <2>3. QED BY <2>2, <1>4, Zenon
<1>6. PICK t, u : t = list' /\ u = listMeans'
  OBVIOUS
<1>7. /\ t \in Seq(B) /\ Len(t) = Len(l) + 1
      /\ \A j \in 1 .. Len(l) + 1 : t[j] = IF j < p THEN l[j] ELSE IF j = p THEN k ELSE l[j - 1]
  <2>1. t = InsertAt(l, p, k) /\ p \in 1 .. Len(l) + 1 /\ l \in Seq(B) /\ k \in B
    BY <1>3, <1>4, <1>6
  <2> HIDE DEF B
  <2>2. PutIn(t, B, l, p, k)
    BY <2>1, Inserted, Zenon
  <2>3. QED BY <2>2, Zenon DEF PutIn
<1>8. /\ u \in Seq(Seq(StoredItem)) /\ Len(u) = Len(l) + 1
      /\ \A j \in 1 .. Len(l) + 1 : u[j] = IF j < p THEN ms[j] ELSE IF j = p THEN e ELSE ms[j - 1]
  <2>1. u = InsertAt(ms, p, e) /\ p \in 1 .. Len(ms) + 1
    BY <1>3, <1>4, <1>6
  <2>2. PutIn(u, Seq(StoredItem), ms, p, e)
    BY <2>1, <1>4, Inserted, Zenon
  <2>3. QED BY <2>2, <1>4, Zenon DEF PutIn
<1>9. ASSUME NEW j \in 1 .. Len(t) PROVE u[j] = Meant(t[j])'
  <2>1. j \in 1 .. Len(l) + 1 /\ p \in 1 .. Len(l) + 1
    BY <1>3, <1>7
  <2>2. CASE j < p
    <3>1. j \in 1 .. Len(l)
      BY <2>1, <2>2, <1>4
    <3>2. QED BY <3>1, <2>1, <2>2, <1>5, <1>7, <1>8, Zenon
  <2>3. CASE j = p
    <3>1. ~ (j < p)
      BY <2>1, <2>3, <1>4
    <3>2. QED BY <3>1, <2>1, <2>3, <1>7, <1>8, Zenon
  <2>4. CASE j > p
    <3>1. j - 1 \in 1 .. Len(l) /\ ~ (j < p) /\ j # p
      BY <2>1, <2>4, <1>4
    <3>2. QED BY <3>1, <2>1, <1>5, <1>7, <1>8, Zenon
  <2>5. QED BY <2>2, <2>3, <2>4, <2>1, <1>4
<1>10. t \in Seq(Bin(Len(items'), Len(cartes'))) /\ Len(u) = Len(t)
  BY <1>7, <1>8
<1>11. QED BY <1>6, <1>8, <1>9, <1>10, Zenon DEF ListMeant

-----------------------------------------------------------------------------
(* What the host sends. *)

LEMMA SameExtends == ASSUME NEW S, NEW x \in Seq(S) PROVE Extended(x, x)
BY LenProperties DEF Extended

LEMMA AppendExtends ==
  ASSUME NEW S, NEW x \in Seq(S), NEW e \in S
  PROVE  /\ Extended(x, Append(x, e)) /\ Append(x, e) \in Seq(S)
         /\ Len(Append(x, e)) = Len(x) + 1 /\ Append(x, e)[Len(x) + 1] = e
BY AppendProperties, LenProperties DEF Extended

\* The entries that are on their way are in the caches.
LEMMA Cached ==
  ASSUME NEW s, NEW is, NEW isz, NEW cs, NEW csz, PipeOK(s, is, isz, cs, csz)
  PROVE  /\ \A p \in 1 .. Len(s) : s[p].op = "I_CACHE" => s[p].index \in 1 .. Len(is)
         /\ \A p \in 1 .. Len(s) : s[p].op = "C_CACHE" => s[p].index \in 1 .. Len(cs)
BY Zenon DEF PipeOK, Follows

LEMMA ItemsDefined ==
  ASSUME TermInv, NEW s, NEW S, NEW is \in Seq(S), NEW isz \in Nat, NEW U, NEW cs \in Seq(U),
         NEW csz, PipeOK(s, is, isz, cs, csz), NEW k
  PROVE  PipeOK(s \o Define("I_DEFINE", k, isz), is, Grown(k, isz), cs, csz)
<1> DEFINE z == Grown(k, isz)
           m == [op |-> "I_DEFINE", size |-> z]
           t == Append(s, m)
<1>1. s \in Seq(Message)
  BY DEF PipeOK
<1>2. CASE z = isz
  <2>1. Define("I_DEFINE", k, isz) = <<>>
    BY <1>2, Zenon DEF Define
  <2>2. s \o <<>> = s
    BY <1>1, ConcatEmptySeq
  <2>3. QED BY <1>2, <2>1, <2>2, Zenon
<1>3. CASE z # isz
  <2>1. Define("I_DEFINE", k, isz) = <<m>>
    BY <1>3, Zenon DEF Define
  <2>2. s \o <<m>> = t
    BY <1>1, AppendIsConcat
  <2>3. z \in Nat /\ isz <= z
    BY DEF Grown
  <2>4. m \in Message /\ m.op = "I_DEFINE" /\ m.size = z
    BY <2>3 DEF Message
  <2> HIDE DEF m, z
  <2>5. t \in Seq(Message) /\ Sending(t, s, m)
    BY <1>1, <2>4, AppendExtends, AppendIsSending
  <2> HIDE DEF t
  <2>6. Follows(t, "I_DEFINE", "I_CACHE", DOMAIN tI, tISIZE, Len(is), z)
    <3>1. Len(is) \in Nat /\ tISIZE \in Nat /\ m.size \in Nat /\ isz <= m.size
      BY <2>3, <2>4, LenProperties DEF TermInv
    <3>2. Follows(s, "I_DEFINE", "I_CACHE", DOMAIN tI, tISIZE, Len(is), isz) /\ "I_DEFINE" # "I_CACHE"
      BY DEF PipeOK
    <3>3. Follows(t, "I_DEFINE", "I_CACHE", DOMAIN tI, tISIZE, Len(is), m.size)
      BY <3>1, <3>2, <2>4, <2>5, FollowsDefine, Zenon
    <3>4. QED BY <3>3, <2>4, Zenon
  <2>7. Follows(t, "C_DEFINE", "C_CACHE", DOMAIN tC, tCSIZE, Len(cs), csz)
    <3>1. m.op \notin {"C_DEFINE", "C_CACHE"}
      BY <2>4
    <3>2. QED BY <3>1, <2>5, FollowsOther, Zenon DEF PipeOK
  <2>8. Tells(t, DOMAIN tI, DOMAIN tC, is, cs)
    <3>1. t[Len(s) + 1] = m
      BY <2>5 DEF Sending
    <3>2. TellsAt(t, DOMAIN tI, DOMAIN tC, is, cs, Len(s) + 1)
      BY <3>1, <2>4 DEF TellsAt
    <3>3. Extended(is, is) /\ Extended(cs, cs)
      BY SameExtends, Zenon
    <3>4. Tells(s, DOMAIN tI, DOMAIN tC, is, cs)
      BY DEF PipeOK
    <3>5. QED BY <3>2, <3>3, <3>4, <2>5, Cached, TellsSending, Zenon
  <2>9. PipeOK(t, is, z, cs, csz)
    BY <2>5, <2>6, <2>7, <2>8, Zenon DEF PipeOK
  <2>10. QED BY <2>1, <2>2, <2>9, Zenon DEF z
<1>4. QED BY <1>2, <1>3, Zenon

LEMMA CartesDefined ==
  ASSUME TermInv, NEW s, NEW S, NEW is \in Seq(S), NEW isz, NEW U, NEW cs \in Seq(U),
         NEW csz \in Nat, PipeOK(s, is, isz, cs, csz), NEW k
  PROVE  PipeOK(s \o Define("C_DEFINE", k, csz), is, isz, cs, Grown(k, csz))
<1> DEFINE z == Grown(k, csz)
           m == [op |-> "C_DEFINE", size |-> z]
           t == Append(s, m)
<1>1. s \in Seq(Message)
  BY DEF PipeOK
<1>2. CASE z = csz
  <2>1. Define("C_DEFINE", k, csz) = <<>>
    BY <1>2, Zenon DEF Define
  <2>2. s \o <<>> = s
    BY <1>1, ConcatEmptySeq
  <2>3. QED BY <1>2, <2>1, <2>2, Zenon
<1>3. CASE z # csz
  <2>1. Define("C_DEFINE", k, csz) = <<m>>
    BY <1>3, Zenon DEF Define
  <2>2. s \o <<m>> = t
    BY <1>1, AppendIsConcat
  <2>3. z \in Nat /\ csz <= z
    BY DEF Grown
  <2>4. m \in Message /\ m.op = "C_DEFINE" /\ m.size = z
    BY <2>3 DEF Message
  <2> HIDE DEF m, z
  <2>5. t \in Seq(Message) /\ Sending(t, s, m)
    BY <1>1, <2>4, AppendExtends, AppendIsSending
  <2> HIDE DEF t
  <2>6. Follows(t, "C_DEFINE", "C_CACHE", DOMAIN tC, tCSIZE, Len(cs), z)
    <3>1. Len(cs) \in Nat /\ tCSIZE \in Nat /\ m.size \in Nat /\ csz <= m.size
      BY <2>3, <2>4, LenProperties DEF TermInv
    <3>2. Follows(s, "C_DEFINE", "C_CACHE", DOMAIN tC, tCSIZE, Len(cs), csz) /\ "C_DEFINE" # "C_CACHE"
      BY DEF PipeOK
    <3>3. Follows(t, "C_DEFINE", "C_CACHE", DOMAIN tC, tCSIZE, Len(cs), m.size)
      BY <3>1, <3>2, <2>4, <2>5, FollowsDefine, Zenon
    <3>4. QED BY <3>3, <2>4, Zenon
  <2>7. Follows(t, "I_DEFINE", "I_CACHE", DOMAIN tI, tISIZE, Len(is), isz)
    <3>1. m.op \notin {"I_DEFINE", "I_CACHE"}
      BY <2>4
    <3>2. QED BY <3>1, <2>5, FollowsOther, Zenon DEF PipeOK
  <2>8. Tells(t, DOMAIN tI, DOMAIN tC, is, cs)
    <3>1. t[Len(s) + 1] = m
      BY <2>5 DEF Sending
    <3>2. TellsAt(t, DOMAIN tI, DOMAIN tC, is, cs, Len(s) + 1)
      BY <3>1, <2>4 DEF TellsAt
    <3>3. Extended(is, is) /\ Extended(cs, cs)
      BY SameExtends, Zenon
    <3>4. Tells(s, DOMAIN tI, DOMAIN tC, is, cs)
      BY DEF PipeOK
    <3>5. QED BY <3>2, <3>3, <3>4, <2>5, Cached, TellsSending, Zenon
  <2>9. PipeOK(t, is, isz, cs, z)
    BY <2>5, <2>6, <2>7, <2>8, Zenon DEF PipeOK
  <2>10. QED BY <2>1, <2>2, <2>9, Zenon DEF z
<1>4. QED BY <1>2, <1>3, Zenon

LEMMA SentAppend ==
  ASSUME NEW S, NEW s \in Seq(S), NEW d \in Seq(S), NEW m \in S
  PROVE  s \o (d \o <<m>>) = Append(s \o d, m) /\ (s \o d) \o <<m>> = Append(s \o d, m)
<1>1. <<m>> \in Seq(S) /\ s \o d \in Seq(S)
  <2>1. <<m>> \in Seq(S)
    OBVIOUS
  <2>2. s \o d \in Seq(S)
    BY ConcatProperties, Zenon
  <2>3. QED BY <2>1, <2>2
<1>2. PICK u : u = <<m>>
  OBVIOUS
<1>3. (s \o d) \o u = s \o (d \o u)
  BY <1>1, <1>2, ConcatAssociative
<1>4. Append(s \o d, m) = (s \o d) \o u
  BY <1>1, <1>2, AppendIsConcat, Zenon
<1>5. QED BY <1>2, <1>3, <1>4, Zenon

LEMMA DefineSent ==
  ASSUME NEW what \in {"I_DEFINE", "C_DEFINE"}, NEW n, NEW size \in Nat
  PROVE  Define(what, n, size) \in Seq(Message)
<1>1. Grown(n, size) \in Nat
  BY DEF Grown
<1>2. [op |-> what, size |-> Grown(n, size)] \in Message
  BY <1>1 DEF Message
<1>3. << [op |-> what, size |-> Grown(n, size)] >> \in Seq(Message)
  BY <1>2
<1>4. <<>> \in Seq(Message)
  OBVIOUS
<1>5. QED BY <1>3, <1>4, Zenon DEF Define

LEMMA ItemPlaced ==
  ASSUME HostInv, NEW i \in Item, NEW k \in ItemNumbers(i), Entered(i, k)
  PROVE  /\ k \in 1 .. Len(items') /\ items'[k] = Stored(i)
         /\ items' \in Seq(StoredItem) /\ Extended(items, items')
         /\ iSIZE' \in Nat /\ Len(items') < iSIZE'
<1> DEFINE n == Len(items)
<1>1. items \in Seq(StoredItem) /\ n \in Nat /\ iSIZE \in Nat /\ n < iSIZE
  BY LenProperties DEF HostInv
<1>2. /\ i = [text |-> i.text, action |-> i.action, opand |-> i.opand]
      /\ i.text \in Text /\ Cut[i.text] \in Range(Cut)
      /\ \A t \in Range(Cut) : Cut[t] = t
  BY MenusAssumption DEF Range
<1>3. Stored(i) = [text |-> Cut[i.text], action |-> i.action, opand |-> i.opand]
  BY <1>2 DEF Stored
<1>4. Stored(i) \in StoredItem
  BY <1>2, <1>3 DEF StoredItem
<1>5. CASE k \in 1 .. n
  <2>1. items' = items /\ iSIZE' = iSIZE
    BY <1>1, <1>5 DEF Entered
  <2>2. Equal(i, k)
    BY <1>1, <1>5 DEF ItemNumbers
  <2>3. items[k] \in StoredItem
    BY <1>1, <1>5, ElementOfSeq, Zenon
  <2>4. items[k] = [text |-> i.text, action |-> i.action, opand |-> i.opand] /\ i.text \in Range(Cut)
    BY <2>2, <2>3 DEF StoredItem, Equal
  <2>5. items[k] = Stored(i)
    BY <2>4, <1>2, <1>3, Zenon
  <2>6. Extended(items, items)
    BY <1>1, SameExtends, Zenon
  <2>7. QED BY <1>1, <1>5, <2>1, <2>5, <2>6, Zenon
<1>6. CASE k \notin 1 .. n
  <2>1. k = n + 1
    BY <1>1, <1>6 DEF ItemNumbers
  <2>2. items' = Append(items, Stored(i)) /\ iSIZE' = Grown(k, iSIZE)
    BY <1>1, <1>6 DEF Entered
  <2>3. /\ Extended(items, items') /\ items' \in Seq(StoredItem)
        /\ Len(items') = n + 1 /\ items'[n + 1] = Stored(i)
    BY <1>1, <1>4, <2>2, AppendExtends, Zenon
  <2>4. iSIZE' \in Nat /\ n + 1 < iSIZE'
    BY <1>1, <2>1, <2>2 DEF Grown
  <2>5. k \in 1 .. n + 1
    BY <1>1, <2>1
  <2>6. QED BY <2>1, <2>3, <2>4, <2>5, Zenon
<1>7. QED BY <1>5, <1>6, Zenon

\* The message of a new item.
LEMMA ItemSent ==
  ASSUME HostInv, TermInv, PipeInv, NEW i \in Item, NEW k \in ItemNumbers(i), Entered(i, k)
  PROVE  PipeOK(toTerm \o Sent(i, k), items', iSIZE', cartes, cSIZE)
<1> DEFINE n == Len(items)
           s == toTerm
           d == s \o Define("I_DEFINE", k, iSIZE)
           z == Grown(k, iSIZE)
           m == [op |-> "I_CACHE", index |-> k, text |-> Cut[i.text]]
           t == Append(d, m)
<1>1. /\ items \in Seq(StoredItem) /\ n \in Nat /\ iSIZE \in Nat /\ n < iSIZE
      /\ cartes \in Seq(Carte) /\ s \in Seq(Message)
  BY LenProperties DEF HostInv, PipeInv, PipeOK
<1>2. CASE k \in DOMAIN items
  <2>1. Sent(i, k) = <<>> /\ items' = items /\ iSIZE' = iSIZE
    BY <1>2, Zenon DEF Sent, Entered
  <2>2. s \o <<>> = s
    BY <1>1, ConcatEmptySeq, Zenon
  <2>3. QED BY <2>1, <2>2, Zenon DEF PipeInv
<1>3. CASE k \notin DOMAIN items
  <2>1. k = n + 1
    BY <1>1, <1>3 DEF ItemNumbers
  <2>2. Sent(i, k) = Define("I_DEFINE", k, iSIZE) \o <<m>> /\ iSIZE' = z
    BY <1>3, Zenon DEF Sent, Entered
  <2>3. items'[k] = Stored(i) /\ items' \in Seq(StoredItem) /\ Extended(items, items')
    BY ItemPlaced, Zenon
  <2>4. Len(items') = n + 1
    BY <1>1, <1>3, AppendProperties DEF Entered
  <2>5. Stored(i).text = Cut[i.text] /\ Cut[i.text] \in Range(Cut)
    BY MenusAssumption DEF Range, Stored
  <2>6. /\ m \in Message /\ m.op = "I_CACHE" /\ m.index = n + 1
        /\ m.text = items'[k].text
    BY <1>1, <2>1, <2>3, <2>5 DEF Message
  <2>7. s \o Sent(i, k) = t
    <3>1. Define("I_DEFINE", k, iSIZE) \in Seq(Message)
      BY <1>1, DefineSent
    <3> HIDE DEF m
    <3>2. s \o (Define("I_DEFINE", k, iSIZE) \o <<m>>) = Append(s \o Define("I_DEFINE", k, iSIZE), m)
      BY <1>1, <3>1, <2>6, SentAppend
    <3>3. QED BY <2>2, <3>2, Zenon
  <2>8. PipeOK(d, items, z, cartes, cSIZE)
    BY <1>1, ItemsDefined, Zenon DEF PipeInv
  <2>9. z \in Nat /\ n + 1 < z
    BY <1>1, <2>1 DEF Grown
  <2> HIDE DEF m, z, d
  <2>10. d \in Seq(Message)
    BY <2>8, Zenon DEF PipeOK
  <2>11. t \in Seq(Message) /\ Sending(t, d, m)
    BY <2>6, <2>10, AppendExtends, AppendIsSending, Zenon
  <2> HIDE DEF t
  <2>12. Follows(t, "I_DEFINE", "I_CACHE", DOMAIN tI, tISIZE, Len(items'), z)
    <3>1. Follows(d, "I_DEFINE", "I_CACHE", DOMAIN tI, tISIZE, n, z) /\ "I_DEFINE" # "I_CACHE"
      BY <2>8 DEF PipeOK
    <3>2. tISIZE \in Nat /\ DOMAIN tI \subseteq 1 .. n
      BY DEF TermInv
    <3>3. Follows(t, "I_DEFINE", "I_CACHE", DOMAIN tI, tISIZE, n + 1, z)
      BY <1>1, <3>1, <3>2, <2>6, <2>9, <2>11, FollowsEntry, Zenon
    <3>4. QED BY <3>3, <2>4, Zenon
  <2>13. Follows(t, "C_DEFINE", "C_CACHE", DOMAIN tC, tCSIZE, Len(cartes), cSIZE)
    <3>1. m.op \notin {"C_DEFINE", "C_CACHE"}
      BY <2>6
    <3>2. Follows(d, "C_DEFINE", "C_CACHE", DOMAIN tC, tCSIZE, Len(cartes), cSIZE)
      BY <2>8 DEF PipeOK
    <3>3. QED BY <3>1, <3>2, <2>11, FollowsOther, Zenon
  <2>14. Tells(t, DOMAIN tI, DOMAIN tC, items', cartes)
    <3>1. t[Len(d) + 1] = m
      BY <2>11 DEF Sending
    <3>2. m.text = items'[m.index].text
      BY <2>1, <2>6, Zenon
    <3>3. TellsAt(t, DOMAIN tI, DOMAIN tC, items', cartes, Len(d) + 1)
      BY <3>1, <3>2, <2>6 DEF TellsAt
    <3>4. Extended(cartes, cartes)
      BY <1>1, SameExtends, Zenon
    <3>5. Tells(d, DOMAIN tI, DOMAIN tC, items, cartes)
      BY <2>8 DEF PipeOK
    <3>6. QED BY <3>3, <3>4, <3>5, <2>3, <2>8, <2>11, Cached, TellsSending, Zenon
  <2>15. PipeOK(t, items', z, cartes, cSIZE)
    BY <2>11, <2>12, <2>13, <2>14, Zenon DEF PipeOK
  <2>16. QED BY <2>2, <2>7, <2>15, Zenon
<1>4. QED BY <1>2, <1>3, Zenon

-----------------------------------------------------------------------------
(* Steps that put something into the list. *)

\* The terminal's tables are what they were, and the caches have grown.
LEMMA TermKept ==
  ASSUME HostInv, TermInv, HostGrows, UNCHANGED term
  PROVE  TermInv'
<1>1. Len(items) \in Nat /\ Len(items') \in Nat /\ Len(items) <= Len(items')
  BY DEF HostGrows, Extended
<1>2. Len(cartes) \in Nat /\ Len(cartes') \in Nat /\ Len(cartes) <= Len(cartes')
  BY DEF HostGrows, Extended
<1>3. \A k \in 1 .. Len(items) : items'[k] = items[k]
  BY DEF HostGrows, Extended
<1>4. \A c \in 1 .. Len(cartes) : cartes'[c] = cartes[c]
  BY DEF HostGrows, Extended
<1>5. DOMAIN tI \subseteq 1 .. Len(items') /\ DOMAIN tC \subseteq 1 .. Len(cartes')
  BY <1>1, <1>2 DEF TermInv
<1>6. \A k \in DOMAIN tI : tI[k] = items'[k].text
  BY <1>3 DEF TermInv
<1>7. \A c \in DOMAIN tC :
        tC[c] = [title |-> cartes'[c].title, bins |-> cartes'[c].bins, size |-> cartes'[c].items]
  BY <1>4 DEF TermInv
<1>8. /\ tI' = tI /\ tISIZE' = tISIZE /\ tC' = tC /\ tCSIZE' = tCSIZE
      /\ tCarte' = tCarte /\ failed' = failed
  BY DEF term
<1>9. QED BY <1>5, <1>6, <1>7, <1>8, Zenon DEF TermInv

\* A step that enters no menu.
LEMMA NoCarte ==
  ASSUME HostInv, MeansInv, LaidInv, TermInv, HostGrows, ListMeant',
         items' \in Seq(StoredItem), iSIZE' \in Nat, Len(items') < iSIZE',
         UNCHANGED <<cartes, cSIZE, means, term>>, made' = Unmade
  PROVE  HostInv' /\ MeansInv' /\ LaidInv' /\ TermInv' /\ MadeIsMeant'
<1>1. cartes' = cartes /\ cSIZE' = cSIZE /\ means' = means
  OBVIOUS
<1>2. \A c \in 1 .. Len(cartes) :
        /\ cartes[c].title \in 0 .. Len(items')
        /\ cartes[c].bins \in Seq(Bin(Len(items'), c - 1)) /\ cartes[c].bins # <<>>
  BY OldMenus, Zenon
<1>3. HostInv'
  <2>1. cartes \in Seq(Carte) /\ cSIZE \in Nat /\ Len(cartes) < cSIZE
    BY DEF HostInv
  <2>2. list' \in Seq(Bin(Len(items'), Len(cartes')))
    BY DEF ListMeant
  <2>3. QED BY <1>1, <1>2, <2>1, <2>2, Zenon DEF HostInv
<1>4. MeansInv'
  <2>1. \A c \in 1 .. Len(cartes) : means[c] = FlattenSeq(MeantBy(cartes[c].bins)')
    BY OldMenus, Zenon
  <2>2. \A c \in 1 .. Len(cartes') : means'[c] = FlattenSeq(MeantBy(cartes[c].bins))'
    BY <2>1, <1>1, Zenon
  <2>3. means \in Seq(Seq(StoredItem)) /\ Len(means) = Len(cartes)
    BY DEF MeansInv
  <2>4. QED BY <1>1, <2>2, <2>3, Zenon DEF MeansInv, ListMeant
<1>5. LaidInv'
  <2>1. \A c \in 1 .. Len(cartes) : cartes[c].items = Len(means[c]) /\ Laid(cartes[c].bins, means[c])'
    BY OldMenus, Zenon
  <2>2. QED BY <2>1, <1>1, Zenon DEF LaidInv
<1>6. TermInv'
  BY TermKept, Zenon
<1>7. MadeIsMeant'
  BY DEF MadeIsMeant
<1>8. QED BY <1>3, <1>4, <1>5, <1>6, <1>7, Zenon

\* A step that places an item.
LEMMA ItemStep ==
  ASSUME MInv, NEW i \in Item, NEW k \in ItemNumbers(i), ItemPlace(i, k), ListMeant',
         UNCHANGED <<cartes, cSIZE, means, term>>, made' = Unmade
  PROVE  MInv'
<1>1. Entered(i, k) /\ toTerm' = toTerm \o Sent(i, k)
  BY DEF ItemPlace
<1>2. HostInv /\ MeansInv /\ LaidInv /\ PipeInv /\ TermInv
  BY Zenon DEF MInv
<1>3. /\ items' \in Seq(StoredItem) /\ Extended(items, items')
      /\ iSIZE' \in Nat /\ Len(items') < iSIZE'
  BY <1>1, <1>2, ItemPlaced, Zenon
<1>4. HostGrows
  <2>1. cartes' = cartes /\ means' = means
    OBVIOUS
  <2>2. Extended(cartes, cartes) /\ Extended(means, means)
    BY <1>2, SameExtends, Zenon DEF HostInv, MeansInv
  <2>3. QED BY <1>3, <2>1, <2>2, Zenon DEF HostGrows
<1>5. HostInv' /\ MeansInv' /\ LaidInv' /\ TermInv' /\ MadeIsMeant'
  BY <1>2, <1>3, <1>4, NoCarte, Zenon
<1>6. PipeInv'
  <2>1. PipeOK(toTerm', items', iSIZE', cartes', cSIZE')
    <3>1. cartes' = cartes /\ cSIZE' = cSIZE
      OBVIOUS
    <3>2. QED BY <3>1, <1>1, <1>2, ItemSent, Zenon
  <2>2. tI' = tI /\ tISIZE' = tISIZE /\ tC' = tC /\ tCSIZE' = tCSIZE
    BY DEF term
  <2>3. QED BY <2>1, <2>2, Zenon DEF PipeInv, PipeOK
<1>7. QED BY <1>5, <1>6, Zenon DEF MInv

LEMMA ListIsMeant == ASSUME HostInv, MeansInv PROVE ListMeant
BY Zenon DEF HostInv, MeansInv, ListMeant

\* The list stays what it was while the caches grow.
LEMMA ListKept ==
  ASSUME HostInv, MeansInv, HostGrows, UNCHANGED <<list, listMeans>>
  PROVE  ListMeant'
<1>1. /\ Len(items) \in Nat /\ Len(items') \in Nat /\ Len(items) <= Len(items')
      /\ Len(cartes) \in Nat /\ Len(cartes') \in Nat /\ Len(cartes) <= Len(cartes')
  BY DEF HostGrows, Extended
<1>2. Bin(Len(items), Len(cartes)) \subseteq Bin(Len(items'), Len(cartes'))
  BY <1>1, BinsGrow
<1>3. list \in Seq(Bin(Len(items), Len(cartes)))
  BY DEF HostInv
<1>4. list \in Seq(Bin(Len(items'), Len(cartes')))
  BY <1>2, <1>3, SeqMonotonic, Zenon
<1>5. list' = list /\ listMeans' = listMeans
  OBVIOUS
<1>6. PICK l : l = list
  OBVIOUS
<1>7. ASSUME NEW j \in 1 .. Len(l) PROVE listMeans[j] = Meant(l[j])'
  <2>1. l[j] \in Bin(Len(items), Len(cartes))
    BY <1>3, <1>6, ElementOfSeq, Zenon
  <2>2. listMeans[j] = Meant(l[j])
    BY <1>6, Zenon DEF MeansInv
  <2>3. QED BY <2>1, <2>2, GrowKeeps, Zenon
<1>8. listMeans \in Seq(Seq(StoredItem)) /\ Len(listMeans) = Len(list)
  BY DEF MeansInv
<1>9. \A j \in 1 .. Len(list') : listMeans'[j] = Meant(list[j])'
  BY <1>5, <1>6, <1>7, Zenon
<1>10. QED BY <1>4, <1>5, <1>8, <1>9, Zenon DEF ListMeant

\* An item goes into the list.
LEMMA ItemListed ==
  ASSUME MInv, NEW i \in Item, NEW k \in ItemNumbers(i), ItemPlace(i, k),
         NEW p \in 1 .. Len(list) + 1, list' = InsertAt(list, p, k),
         listMeans' = InsertAt(listMeans, p, <<Stored(i)>>),
         UNCHANGED <<cartes, cSIZE, means, term>>, made' = Unmade
  PROVE  MInv'
<1>1. HostInv /\ MeansInv /\ Entered(i, k)
  BY DEF MInv, ItemPlace
<1>2. /\ k \in 1 .. Len(items') /\ items'[k] = Stored(i)
      /\ items' \in Seq(StoredItem) /\ Extended(items, items')
  BY <1>1, ItemPlaced, Zenon
<1>3. HostGrows
  <2>1. cartes' = cartes /\ means' = means
    OBVIOUS
  <2>2. Extended(cartes, cartes) /\ Extended(means, means)
    BY <1>1, SameExtends, Zenon DEF HostInv, MeansInv
  <2>3. QED BY <1>2, <2>1, <2>2, Zenon DEF HostGrows
<1>4. /\ k \in Bin(Len(items'), Len(cartes'))
      /\ Meant(k)' = <<Stored(i)>> /\ <<Stored(i)>> \in Seq(StoredItem)
  <2>1. k \in Bin(Len(items'), Len(cartes'))
    BY <1>2 DEF Bin
  <2>2. Meant(k)' = <<items'[k]>>
    <3>1. k > 0
      BY <1>2
    <3>2. QED BY <3>1, Zenon DEF Meant
  <2>3. Stored(i) \in StoredItem
    BY <1>2, ElementOfSeq, Zenon
  <2>4. <<Stored(i)>> \in Seq(StoredItem)
    BY <2>3
  <2>5. QED BY <2>1, <2>2, <2>4, <1>2, Zenon
<1>5. ListMeant'
  BY <1>1, <1>3, <1>4, PutMeant, Zenon
<1>6. QED BY <1>5, ItemStep, Zenon

LEMMA PutStep == ASSUME MInv, NEW i \in Item, Put(i) PROVE MInv'
<1>1. PICK k \in ItemNumbers(i) :
        /\ ItemPlace(i, k)
        /\ \E p \in {1, Len(list) + 1} :
             list' = InsertAt(list, p, k) /\ listMeans' = InsertAt(listMeans, p, <<Stored(i)>>)
  BY Zenon DEF Put
<1>2. PICK p \in {1, Len(list) + 1} :
        list' = InsertAt(list, p, k) /\ listMeans' = InsertAt(listMeans, p, <<Stored(i)>>)
  BY <1>1, Zenon
<1>3. Len(list) \in Nat
  BY LenProperties, Zenon DEF MInv, HostInv
<1>4. p \in 1 .. Len(list) + 1
  BY <1>3
<1>5. UNCHANGED <<cartes, cSIZE, means, term>> /\ made' = Unmade
  BY DEF Put
<1>6. QED BY <1>1, <1>2, <1>4, <1>5, ItemListed, Zenon

\* The place of an item in a sorted list is one of the list.
LEMMA SortedInside == ASSUME HostInv, NEW i PROVE SortedAt(i) \in 1 .. Len(list) + 1
<1> DEFINE after == { p \in DOMAIN list : Cut[i.text] < items[list[p]].text }
           T == {Len(list) + 1} \cup after
<1>1. Len(list) \in Nat /\ DOMAIN list = 1 .. Len(list)
  BY LenProperties, Zenon DEF HostInv
<1>2. T \subseteq 1 .. Len(list) + 1 /\ T # {} /\ T \subseteq Nat
  BY <1>1
<1>3. SortedAt(i) = CHOOSE x \in T : \A y \in T : x <= y
  BY Zenon DEF SortedAt, Min
<1> HIDE DEF T
<1>4. \E x \in T : \A y \in T : x <= y
  BY <1>2, Least, Zenon
<1>5. SortedAt(i) \in T
  BY <1>3, <1>4, Zenon
<1>6. QED BY <1>2, <1>5, Zenon

LEMMA SortStep == ASSUME MInv, NEW i \in Item, Sort(i) PROVE MInv'
<1>1. PICK k \in ItemNumbers(i) :
        /\ ItemPlace(i, k)
        /\ \/ UNCHANGED <<list, listMeans>>
           \/ /\ list' = InsertAt(list, SortedAt(i), k)
              /\ listMeans' = InsertAt(listMeans, SortedAt(i), <<Stored(i)>>)
  BY Zenon DEF Sort
<1>2. UNCHANGED <<cartes, cSIZE, means, term>> /\ made' = Unmade
  BY DEF Sort
<1>3. HostInv /\ MeansInv /\ Entered(i, k)
  BY <1>1 DEF MInv, ItemPlace
<1>4. SortedAt(i) \in 1 .. Len(list) + 1
  BY <1>3, SortedInside, Zenon
<1>5. CASE UNCHANGED <<list, listMeans>>
  <2>1. HostGrows
    <3>1. cartes' = cartes /\ means' = means
      BY <1>2
    <3>2. Extended(cartes, cartes) /\ Extended(means, means)
      BY <1>3, SameExtends, Zenon DEF HostInv, MeansInv
    <3>3. Extended(items, items')
      BY <1>3, ItemPlaced, Zenon
    <3>4. QED BY <3>1, <3>2, <3>3, Zenon DEF HostGrows
  <2>2. ListMeant'
    BY <1>3, <1>5, <2>1, ListKept, Zenon
  <2>3. QED BY <1>1, <1>2, <2>2, ItemStep, Zenon
<1>6. CASE /\ list' = InsertAt(list, SortedAt(i), k)
           /\ listMeans' = InsertAt(listMeans, SortedAt(i), <<Stored(i)>>)
  BY <1>1, <1>2, <1>4, <1>6, ItemListed, Zenon
<1>7. QED BY <1>1, <1>5, <1>6, Zenon

LEMMA PutCarteStep == ASSUME MInv, NEW c \in DOMAIN cartes, PutCarte(c) PROVE MInv'
<1> DEFINE b == CARTE(c)
           e == IF cartes[c].title = Null THEN means[c] ELSE <<items[cartes[c].title]>>
<1>1. HostInv /\ MeansInv /\ LaidInv /\ TermInv /\ PipeInv
  BY Zenon DEF MInv
<1>2. /\ list' = Append(list, b) /\ listMeans' = Append(listMeans, e) /\ made' = Unmade
      /\ items' = items /\ iSIZE' = iSIZE /\ UNCHANGED <<cartes, cSIZE, means, term>>
      /\ cartes' = cartes /\ cSIZE' = cSIZE /\ means' = means /\ toTerm' = toTerm /\ UNCHANGED term
  BY DEF PutCarte
<1>3. HostGrows
  <2>1. Extended(items, items) /\ Extended(cartes, cartes) /\ Extended(means, means)
    BY <1>1, SameExtends, Zenon DEF HostInv, MeansInv
  <2>2. QED BY <1>2, <2>1, Zenon DEF HostGrows
<1>4. c \in 1 .. Len(cartes) /\ cartes[c].title \in 0 .. Len(items) /\ Len(cartes) \in Nat
  BY <1>1, LenProperties DEF HostInv
<1>5. b \in Bin(Len(items), Len(cartes))
  BY <1>4 DEF Bin, CARTE
<1>6. e = Meant(b)
  <2>1. ~ (b > 0) /\ -b = c
    BY <1>4 DEF CARTE
  <2>2. QED BY <2>1, Zenon DEF Meant
<1>7. e \in Seq(StoredItem)
  BY <1>1, <1>5, <1>6, BinMeant, Zenon
<1>8. ListMeant'
  <2> HIDE DEF b, e
  <2>1. PICK l, ms : l = list /\ ms = listMeans
    OBVIOUS
  <2>2. /\ l \in Seq(Bin(Len(items), Len(cartes)))
        /\ ms \in Seq(Seq(StoredItem)) /\ Len(ms) = Len(l)
        /\ \A j \in 1 .. Len(l) : ms[j] = Meant(l[j])
    BY <1>1, <2>1, Zenon DEF HostInv, MeansInv
  <2>3. /\ Append(l, b) \in Seq(Bin(Len(items), Len(cartes))) /\ Len(Append(l, b)) = Len(l) + 1
        /\ Append(l, b)[Len(l) + 1] = b /\ Extended(l, Append(l, b))
    BY <2>2, <1>5, AppendExtends, Zenon
  <2>4. /\ Append(ms, e) \in Seq(Seq(StoredItem)) /\ Len(Append(ms, e)) = Len(ms) + 1
        /\ Append(ms, e)[Len(ms) + 1] = e /\ Extended(ms, Append(ms, e))
    BY <2>2, <1>7, AppendExtends, Zenon
  <2>5. PICK t, u : t = Append(l, b) /\ u = Append(ms, e)
    OBVIOUS
  <2>6. Len(l) \in Nat
    BY <2>2, LenProperties
  <2>7. \A j \in 1 .. Len(l) : t[j] = l[j] /\ u[j] = ms[j]
    BY <2>2, <2>3, <2>4, <2>5, Zenon DEF Extended
  <2>8. \A j \in 1 .. Len(l) + 1 : u[j] = Meant(t[j])
    <3>1. u[Len(l) + 1] = Meant(t[Len(l) + 1])
      BY <2>2, <2>3, <2>4, <2>5, <1>6, Zenon
    <3>2. \A j \in 1 .. Len(l) : u[j] = Meant(t[j])
      BY <2>2, <2>7, Zenon
    <3>3. \A j \in 1 .. Len(l) + 1 : j \in 1 .. Len(l) \/ j = Len(l) + 1
      BY <2>6
    <3>4. QED BY <3>1, <3>2, <3>3, Zenon
  <2>9. list' = t /\ listMeans' = u
    BY <2>1, <2>5, <1>2, Zenon
  <2>10. \A j \in 1 .. Len(t) : u[j] = Meant(t[j])'
    BY <2>8, <2>3, <2>5, <1>2, Zenon DEF Meant
  <2>11. \A j \in 1 .. Len(list') : listMeans'[j] = Meant(list[j])'
    BY <2>9, <2>10, Zenon
  <2>12. QED BY <2>2, <2>3, <2>4, <2>5, <2>9, <2>11, <1>2, Zenon DEF ListMeant
<1>9. HostInv' /\ MeansInv' /\ LaidInv' /\ TermInv' /\ MadeIsMeant'
  <2>1. items' \in Seq(StoredItem) /\ iSIZE' \in Nat /\ Len(items') < iSIZE'
    BY <1>1, <1>2, Zenon DEF HostInv
  <2>2. QED BY <1>1, <1>2, <1>3, <1>8, <2>1, NoCarte, Zenon
<1>10. PipeInv'
  <2>1. tI' = tI /\ tISIZE' = tISIZE /\ tC' = tC /\ tCSIZE' = tCSIZE
    BY <1>2 DEF term
  <2>2. QED BY <1>1, <1>2, <2>1, Zenon DEF PipeInv, PipeOK
<1>11. QED BY <1>9, <1>10, Zenon DEF MInv

-----------------------------------------------------------------------------
(* Steps that place the list as a menu. *)

\* What a list of old bins stands for, and how it is laid, does not change.
LEMMA BinsKept ==
  ASSUME HostInv, MeansInv, HostGrows, NEW bins \in Seq(Bin(Len(items), Len(cartes))), NEW es
  PROVE  MeantBy(bins)' = MeantBy(bins) /\ (Laid(bins, es) => Laid(bins, es)')
<1>1. \A j \in 1 .. Len(bins) : Entries(bins[j])' = Entries(bins[j]) /\ Meant(bins[j])' = Meant(bins[j])
  BY ElementOfSeq, GrowKeeps, Zenon
<1>2. MeantBy(bins)' = MeantBy(bins)
  <2>1. [j \in 1 .. Len(bins) |-> Meant(bins[j])'] = [j \in 1 .. Len(bins) |-> Meant(bins[j])]
    BY <1>1, Zenon
  <2>2. QED BY <2>1, Zenon DEF MeantBy
<1>3. ASSUME Laid(bins, es) PROVE Laid(bins, es)'
  <2>1. PICK at \in [0 .. Len(bins) -> Nat] : LaidBy(at, bins, es)
    BY <1>3, Zenon DEF Laid
  <2>2. LaidBy(at, bins, es)'
    BY <1>1, <2>1, Zenon DEF LaidBy
  <2>3. QED BY <2>2, Zenon DEF Laid
<1>4. QED BY <1>2, <1>3, Zenon

\* The message of a new menu, when the pipe holds s already.
LEMMA CarteSent ==
  ASSUME TermInv, NEW s, NEW is \in Seq(StoredItem), NEW isz \in Nat,
         NEW cs \in Seq(Carte), NEW csz \in Nat, Len(cs) < csz,
         DOMAIN tC \subseteq 1 .. Len(cs), PipeOK(s, is, isz, cs, csz),
         NEW c, c = Len(cs) + 1, NEW x \in Carte, x.title \in 0 .. Len(is),
         x.bins \in Seq(Bin(Len(is), Len(cs)))
  PROVE  PipeOK((s \o Define("C_DEFINE", c, csz))
                  \o << [op |-> "C_CACHE", index |-> c, title |-> x.title,
                         bins |-> x.bins, items |-> x.items] >>,
                is, isz, Append(cs, x), Grown(c, csz))
<1> DEFINE n == Len(cs)
           d == s \o Define("C_DEFINE", c, csz)
           z == Grown(c, csz)
           ds == Append(cs, x)
           m == [op |-> "C_CACHE", index |-> c, title |-> x.title,
                 bins |-> x.bins, items |-> x.items]
           t == Append(d, m)
<1>1. n \in Nat /\ Len(is) \in Nat
  BY LenProperties
<1>2. z \in Nat /\ n + 1 < z
  BY <1>1 DEF Grown
<1>3. PipeOK(d, is, isz, cs, z)
  BY CartesDefined, Zenon
<1>4. m \in Message /\ m.op = "C_CACHE" /\ m.index = n + 1
  BY <1>1 DEF Message, Carte
<1>5. m.title = x.title /\ m.bins = x.bins /\ m.items = x.items
  OBVIOUS
<1>6. Extended(cs, ds) /\ Len(ds) = n + 1 /\ ds[n + 1] = x
  BY AppendExtends, Zenon
<1> HIDE DEF m, z, ds
<1>7. s \in Seq(Message) /\ d \in Seq(Message) /\ Define("C_DEFINE", c, csz) \in Seq(Message)
  BY <1>3, DefineSent DEF PipeOK
<1>8. d \o <<m>> = t
  BY <1>4, <1>7, SentAppend
<1> HIDE DEF d
<1>9. t \in Seq(Message) /\ Sending(t, d, m)
  BY <1>4, <1>7, AppendExtends, AppendIsSending, Zenon
<1> HIDE DEF t
<1>10. Follows(t, "C_DEFINE", "C_CACHE", DOMAIN tC, tCSIZE, Len(ds), z)
  <2>1. tCSIZE \in Nat
    BY DEF TermInv
  <2>2. Follows(d, "C_DEFINE", "C_CACHE", DOMAIN tC, tCSIZE, n, z) /\ "C_DEFINE" # "C_CACHE"
    BY <1>3 DEF PipeOK
  <2>3. Follows(t, "C_DEFINE", "C_CACHE", DOMAIN tC, tCSIZE, n + 1, z)
    BY <1>1, <1>2, <1>4, <1>9, <2>1, <2>2, FollowsEntry, Zenon
  <2>4. QED BY <2>3, <1>6, Zenon
<1>11. Follows(t, "I_DEFINE", "I_CACHE", DOMAIN tI, tISIZE, Len(is), isz)
  <2>1. m.op \notin {"I_DEFINE", "I_CACHE"}
    BY <1>4
  <2>2. Follows(d, "I_DEFINE", "I_CACHE", DOMAIN tI, tISIZE, Len(is), isz)
    BY <1>3 DEF PipeOK
  <2>3. QED BY <2>1, <2>2, <1>9, FollowsOther, Zenon
<1>12. Tells(t, DOMAIN tI, DOMAIN tC, is, ds)
  <2>1. t[Len(d) + 1] = m /\ Len(d) \in Nat /\ Len(d) + 1 \in 1 .. Len(d) + 1
    BY <1>9 DEF Sending
  <2>2. \A k \in 1 .. Len(is) : Came(t, "I_CACHE", DOMAIN tI, k, Len(d) + 1)
    BY <1>3, <1>9, <2>1, AllCame, CameSending, Zenon DEF PipeOK
  <2>3. \A k \in 1 .. n : Came(t, "C_CACHE", DOMAIN tC, k, Len(d) + 1)
    BY <1>3, <1>9, <2>1, AllCame, CameSending, Zenon DEF PipeOK
  <2>4. x.title # Null => Came(t, "I_CACHE", DOMAIN tI, x.title, Len(d) + 1)
    <3>1. x.title # Null => x.title \in 1 .. Len(is)
      BY <1>1 DEF Null
    <3>2. QED BY <3>1, <2>2, Zenon
  <2>5. \A j \in 1 .. Len(x.bins) : BinCame(t, DOMAIN tI, DOMAIN tC, x.bins[j], Len(d) + 1)
    <3> SUFFICES ASSUME NEW j \in 1 .. Len(x.bins)
                 PROVE  BinCame(t, DOMAIN tI, DOMAIN tC, x.bins[j], Len(d) + 1)
      OBVIOUS
    <3>1. x.bins[j] \in Bin(Len(is), n)
      BY ElementOfSeq, Zenon
    <3>2. x.bins[j] > 0 => x.bins[j] \in 1 .. Len(is)
      BY <3>1, <1>1 DEF Bin
    <3>3. ~ (x.bins[j] > 0) => -x.bins[j] \in 1 .. n
      BY <3>1, <1>1 DEF Bin
    <3>4. QED BY <3>2, <3>3, <2>2, <2>3, Zenon DEF BinCame
  <2>6. TellsAt(t, DOMAIN tI, DOMAIN tC, is, ds, Len(d) + 1)
    <3>1. m.op # "I_CACHE" /\ m.op # "CARTE"
      BY <1>4
    <3>2. QED BY <3>1, <1>4, <1>5, <1>6, <2>1, <2>4, <2>5, Zenon DEF TellsAt
  <2>7. Extended(is, is)
    BY SameExtends, Zenon
  <2>8. Tells(d, DOMAIN tI, DOMAIN tC, is, cs)
    BY <1>3 DEF PipeOK
  <2>9. QED BY <2>6, <2>7, <2>8, <1>3, <1>6, <1>9, Cached, TellsSending, Zenon
<1>13. PipeOK(t, is, isz, ds, z)
  BY <1>9, <1>10, <1>11, <1>12, Zenon DEF PipeOK
<1>14. QED BY <1>8, <1>13, Zenon DEF d, m, z, ds

\* What CartePlace needs of the caches when the title is entered already.
LEMMA CarteStep ==
  ASSUME HostInv, MeansInv, LaidInv, TermInv, list # <<>>,
         items' \in Seq(StoredItem), Extended(items, items'), iSIZE' \in Nat, Len(items') < iSIZE',
         NEW title \in 0 .. Len(items'), NEW s, PipeOK(s, items', iSIZE', cartes, cSIZE),
         CartePlace(title, s)
  PROVE  HostInv' /\ MeansInv' /\ LaidInv' /\ PipeInv' /\ TermInv' /\ MadeIsMeant'
<1> DEFINE n == Len(cartes)
           same == { c \in DOMAIN cartes : SameCarte(c, title, list) }
           c == IF same # {} THEN Min(same) ELSE n + 1
           ms == FlattenSeq(listMeans)
           size == cartelimits(list)
           x == [title |-> title, bins |-> list, items |-> size]
<1>1. /\ n \in Nat /\ DOMAIN cartes = 1 .. n /\ cartes \in Seq(Carte) /\ cSIZE \in Nat /\ n < cSIZE
      /\ Len(means) = n /\ means \in Seq(Seq(StoredItem)) /\ Len(items') \in Nat
  BY LenProperties DEF HostInv, MeansInv
<1>2. /\ made' = [index |-> c, title |-> IF title = Null THEN <<>> ELSE <<items'[title]>>, entries |-> ms]
      /\ list' = <<>> /\ listMeans' = <<>> /\ UNCHANGED term
  BY Zenon DEF CartePlace
<1>3. \/ same # {} /\ toTerm' = s /\ UNCHANGED <<cartes, cSIZE, means>>
      \/ /\ same = {} /\ c = n + 1
         /\ cartes' = Append(cartes, x) /\ cSIZE' = Grown(c, cSIZE)
         /\ toTerm' = (s \o Define("C_DEFINE", c, cSIZE))
                        \o << [op |-> "C_CACHE", index |-> c, title |-> title,
                               bins |-> list, items |-> size] >>
         /\ means' = Append(means, ms)
  BY Zenon DEF CartePlace
<1>4. /\ listMeans = MeantBy(list) /\ ms \in Seq(StoredItem)
      /\ size = Len(ms) /\ Laid(list, ms)
  BY ListLaid, Zenon
<1>5. list \in Seq(Bin(Len(items), n)) /\ list \in Seq(Bin(Len(items'), n)) /\ list \in Seq(Int)
  <2>1. list \in Seq(Bin(Len(items), n))
    BY DEF HostInv
  <2>2. Bin(Len(items), n) \subseteq Bin(Len(items'), n) /\ Bin(Len(items), n) \subseteq Int
    BY <1>1, BinsGrow DEF Extended, Bin
  <2>3. QED BY <2>1, <2>2, SeqMonotonic, Zenon
<1>6. x \in Carte
  <2>1. size \in Nat /\ title \in Nat
    BY <1>1, <1>4, LenProperties
  <2>2. QED BY <2>1, <1>5 DEF Carte
<1>7. x.title = title /\ x.bins = list /\ x.items = size
  OBVIOUS
<1>8. tI' = tI /\ tISIZE' = tISIZE /\ tC' = tC /\ tCSIZE' = tCSIZE
  BY <1>2 DEF term
<1> HIDE DEF x, ms, size
<1>9. CASE same # {}
  <2>1. toTerm' = s /\ cartes' = cartes /\ cSIZE' = cSIZE /\ means' = means
    BY <1>3, <1>9
  <2>2. c \in same
    <3>1. same \subseteq Nat
      BY <1>1
    <3>2. c = CHOOSE y \in same : \A z \in same : y <= z
      BY <1>9, Zenon DEF Min
    <3> HIDE DEF same, c
    <3>3. \E y \in same : \A z \in same : y <= z
      BY <1>9, <3>1, Least, Zenon
    <3>4. QED BY <3>2, <3>3, Zenon
  <2>3. c \in 1 .. n /\ cartes[c].title = title /\ cartes[c].bins = list
    BY <1>1, <2>2, Zenon DEF SameCarte
  <2> HIDE DEF same, c
  <2>4. HostGrows
    <3>1. Extended(cartes, cartes) /\ Extended(means, means)
      BY <1>1, SameExtends, Zenon
    <3>2. QED BY <2>1, <3>1, Zenon DEF HostGrows
  <2>5. HostInv'
    <3>1. \A k \in 1 .. n :
            /\ cartes[k].title \in 0 .. Len(items')
            /\ cartes[k].bins \in Seq(Bin(Len(items'), k - 1)) /\ cartes[k].bins # <<>>
      BY <2>4, OldMenus, Zenon
    <3>2. list' \in Seq(Bin(Len(items'), n))
      BY <1>2
    <3>3. QED BY <1>1, <2>1, <3>1, <3>2, Zenon DEF HostInv
  <2>6. MeansInv'
    <3>1. \A k \in 1 .. n : means[k] = FlattenSeq(MeantBy(cartes[k].bins)')
      BY <2>4, OldMenus, Zenon
    <3>2. \A k \in 1 .. Len(cartes') : means'[k] = FlattenSeq(MeantBy(cartes[k].bins))'
      BY <2>1, <3>1, Zenon
    <3>3. listMeans' \in Seq(Seq(StoredItem)) /\ Len(listMeans') = Len(list')
      BY <1>2
    <3>4. \A j \in 1 .. Len(list') : listMeans'[j] = Meant(list[j])'
      BY <1>2
    <3>5. QED BY <1>1, <2>1, <3>2, <3>3, <3>4, Zenon DEF MeansInv
  <2>7. LaidInv'
    <3>1. \A k \in 1 .. n : cartes[k].items = Len(means[k]) /\ Laid(cartes[k].bins, means[k])'
      BY <2>4, OldMenus, Zenon
    <3>2. QED BY <2>1, <3>1, Zenon DEF LaidInv
  <2>8. PipeInv'
    BY <2>1, <1>8, Zenon DEF PipeInv, PipeOK
  <2>9. TermInv'
    BY <2>4, <1>2, TermKept, Zenon
  <2>10. means[c] = ms
    BY <1>4, <2>3, Zenon DEF MeansInv, ms
  <2>11. MadeIsMeant'
    <3>1. made'.index = c /\ made'.entries = ms
      BY <1>2
    <3>2. made'.title = IF title = Null THEN <<>> ELSE <<items'[title]>>
      BY <1>2
    <3>3. (title = Null) = (made'.title = <<>>)
      BY <3>2
    <3>4. title # Null => items'[title] = made'.title[1]
      BY <3>2
    <3>5. QED BY <2>1, <2>3, <2>10, <3>1, <3>3, <3>4, Zenon DEF MadeIsMeant
  <2>12. QED BY <2>5, <2>6, <2>7, <2>8, <2>9, <2>11, Zenon
<1>10. CASE same = {}
  <2>1. c = n + 1 /\ x \in Carte
    BY <1>3, <1>6, <1>10
  <2>2. /\ cartes' = Append(cartes, x) /\ means' = Append(means, ms) /\ cSIZE' = Grown(c, cSIZE)
        /\ toTerm' = (s \o Define("C_DEFINE", c, cSIZE))
                       \o << [op |-> "C_CACHE", index |-> c, title |-> x.title,
                              bins |-> x.bins, items |-> x.items] >>
    BY <1>3, <1>7, <1>10, Zenon
  <2>3. \A k \in 1 .. n : ~ SameCarte(k, title, list)
    BY <1>1, <1>10
  <2> HIDE DEF same, c
  <2>4. /\ Extended(cartes, cartes') /\ cartes' \in Seq(Carte)
        /\ Len(cartes') = n + 1 /\ cartes'[n + 1] = x
    BY <1>1, <2>1, <2>2, AppendExtends, Zenon
  <2>5. /\ Extended(means, means') /\ means' \in Seq(Seq(StoredItem))
        /\ Len(means') = n + 1 /\ means'[n + 1] = ms
    <3>1. /\ Extended(means, means') /\ means' \in Seq(Seq(StoredItem))
          /\ Len(means') = Len(means) + 1 /\ means'[Len(means) + 1] = ms
      BY <1>1, <1>4, <2>2, AppendExtends
    <3>2. QED BY <1>1, <3>1, Zenon
  <2>6. HostGrows
    BY <2>4, <2>5, Zenon DEF HostGrows
  <2>7. \A k \in 1 .. n + 1 : k \in 1 .. n \/ k = n + 1
    BY <1>1
  <2>8. \A k \in 1 .. n :
          /\ cartes'[k] = cartes[k] /\ means'[k] = means[k]
          /\ cartes[k].title \in 0 .. Len(items')
          /\ cartes[k].bins \in Seq(Bin(Len(items'), k - 1)) /\ cartes[k].bins # <<>>
          /\ means[k] = FlattenSeq(MeantBy(cartes[k].bins)')
          /\ cartes[k].items = Len(means[k])
          /\ Laid(cartes[k].bins, means[k])'
    BY <2>6, OldMenus, Zenon
  <2>9. PICK l, e : l = list /\ e = ms
    OBVIOUS
  <2>10. MeantBy(l)' = MeantBy(l) /\ Laid(l, e)'
    <3>1. l \in Seq(Bin(Len(items), Len(cartes))) /\ Laid(l, e)
      BY <1>4, <1>5, <2>9, Zenon
    <3>2. QED BY <3>1, <2>6, BinsKept, Zenon
  <2>11. HostInv'
    <3>1. list' \in Seq(Bin(Len(items'), Len(cartes')))
      BY <1>2
    <3>2. cSIZE' \in Nat /\ n + 1 < cSIZE'
      BY <1>1, <2>1, <2>2 DEF Grown
    <3>3. \A k \in 1 .. n :
            /\ cartes'[k].title \in 0 .. Len(items')
            /\ cartes'[k].bins \in Seq(Bin(Len(items'), k - 1)) /\ cartes'[k].bins # <<>>
      BY <2>8, Zenon
    <3>4. /\ cartes'[n + 1].title \in 0 .. Len(items')
          /\ cartes'[n + 1].bins \in Seq(Bin(Len(items'), (n + 1) - 1)) /\ cartes'[n + 1].bins # <<>>
      <4>1. (n + 1) - 1 = n
        BY <1>1
      <4>2. QED BY <4>1, <1>5, <1>7, <2>4, Zenon
    <3>5. \A k \in 1 .. n + 1 :
            /\ cartes'[k].title \in 0 .. Len(items')
            /\ cartes'[k].bins \in Seq(Bin(Len(items'), k - 1)) /\ cartes'[k].bins # <<>>
      BY <2>7, <3>3, <3>4, Zenon
    <3>6. QED BY <2>4, <3>1, <3>2, <3>5, Zenon DEF HostInv
  <2>12. MeansInv'
    <3>1. listMeans' \in Seq(Seq(StoredItem)) /\ Len(listMeans') = Len(list')
      BY <1>2
    <3>2. \A j \in 1 .. Len(list') : listMeans'[j] = Meant(list[j])'
      BY <1>2
    <3>3. \A k \in 1 .. n : means'[k] = FlattenSeq(MeantBy(cartes[k].bins))'
      BY <2>8, Zenon
    <3>4. means'[n + 1] = FlattenSeq(MeantBy(l)') /\ cartes'[n + 1].bins = l
      <4>1. cartes'[n + 1].bins = l
        BY <1>7, <2>4, <2>9, Zenon
      <4>2. ms = FlattenSeq(MeantBy(l))
        BY <1>4, <2>9, Zenon DEF ms
      <4>3. QED BY <4>1, <4>2, <2>5, <2>10, Zenon
    <3>5. \A k \in 1 .. n + 1 : means'[k] = FlattenSeq(MeantBy(cartes[k].bins))'
      <4> SUFFICES ASSUME NEW k \in 1 .. n + 1
                   PROVE  means'[k] = FlattenSeq(MeantBy(cartes[k].bins))'
        OBVIOUS
      <4>1. CASE k \in 1 .. n
        BY <4>1, <3>3, Zenon
      <4>2. CASE k = n + 1
        <5>1. means'[k] = FlattenSeq(MeantBy(l)') /\ cartes'[k].bins = l
          BY <4>2, <3>4, Zenon
        <5>2. QED BY <5>1, Zenon
      <4>3. QED BY <4>1, <4>2, <2>7, Zenon
    <3>6. QED BY <2>4, <2>5, <3>1, <3>2, <3>5, Zenon DEF MeansInv
  <2>13. LaidInv'
    <3>1. \A k \in 1 .. n : cartes'[k].items = Len(means'[k]) /\ Laid(cartes[k].bins, means[k])'
      BY <2>8, Zenon
    <3>2. /\ cartes'[n + 1].items = Len(means'[n + 1])
          /\ cartes'[n + 1].bins = l /\ means'[n + 1] = e
      BY <1>4, <1>7, <2>4, <2>5, <2>9, Zenon
    <3>3. \A k \in 1 .. n + 1 : cartes'[k].items = Len(means'[k]) /\ Laid(cartes[k].bins, means[k])'
      <4> SUFFICES ASSUME NEW k \in 1 .. n + 1
                   PROVE  cartes'[k].items = Len(means'[k]) /\ Laid(cartes[k].bins, means[k])'
        OBVIOUS
      <4>1. CASE k \in 1 .. n
        BY <4>1, <3>1, Zenon
      <4>2. CASE k = n + 1
        <5>1. /\ cartes'[k].items = Len(means'[k])
              /\ cartes'[k].bins = l /\ means'[k] = e
          BY <4>2, <3>2, Zenon
        <5>2. QED BY <5>1, <2>10, Zenon
      <4>3. QED BY <4>1, <4>2, <2>7, Zenon
    <3>4. QED BY <2>4, <3>3, Zenon DEF LaidInv
  <2>14. PipeInv'
    <3>1. x.title \in 0 .. Len(items') /\ x.bins \in Seq(Bin(Len(items'), Len(cartes)))
      BY <1>5, <1>7
    <3>2. DOMAIN tC \subseteq 1 .. Len(cartes)
      BY DEF TermInv
    <3>3. PipeOK(toTerm', items', iSIZE', cartes', cSIZE')
      BY <1>1, <2>1, <2>2, <3>1, <3>2, CarteSent, Zenon
    <3>4. QED BY <1>8, <3>3, Zenon DEF PipeInv, PipeOK
  <2>15. TermInv'
    BY <1>2, <2>6, TermKept, Zenon
  <2>16. MadeIsMeant'
    <3>1. made'.index = n + 1 /\ made'.entries = ms
      BY <1>2, <2>1
    <3>2. made'.title = IF title = Null THEN <<>> ELSE <<items'[title]>>
      BY <1>2
    <3>3. (title = Null) = (made'.title = <<>>)
      BY <3>2
    <3>4. title # Null => items'[title] = made'.title[1]
      BY <3>2
    <3>5. QED BY <1>7, <2>4, <2>5, <3>1, <3>3, <3>4, Zenon DEF MadeIsMeant
  <2>17. QED BY <2>11, <2>12, <2>13, <2>14, <2>15, <2>16, Zenon
<1>11. QED BY <1>9, <1>10, Zenon

LEMMA IndexStep == ASSUME MInv, Index PROVE MInv'
<1>1. HostInv /\ MeansInv /\ LaidInv /\ PipeInv /\ TermInv
  BY Zenon DEF MInv
<1>2. list # <<>> /\ CartePlace(Null, toTerm) /\ items' = items /\ iSIZE' = iSIZE
  BY DEF Index
<1>3. /\ items' \in Seq(StoredItem) /\ Extended(items, items')
      /\ iSIZE' \in Nat /\ Len(items') < iSIZE' /\ Null \in 0 .. Len(items')
  <2>1. Extended(items, items) /\ Len(items) \in Nat
    BY <1>1, SameExtends, LenProperties, Zenon DEF HostInv
  <2>2. Null \in 0 .. Len(items)
    BY <2>1 DEF Null
  <2>3. QED BY <1>1, <1>2, <2>1, <2>2, Zenon DEF HostInv
<1>4. PipeOK(toTerm, items', iSIZE', cartes, cSIZE)
  BY <1>1, <1>2, Zenon DEF PipeInv
<1>5. HostInv' /\ MeansInv' /\ LaidInv' /\ PipeInv' /\ TermInv' /\ MadeIsMeant'
  BY <1>1, <1>2, <1>3, <1>4, CarteStep, Zenon
<1>6. QED BY <1>5, Zenon DEF MInv

LEMMA IndexTitledStep == ASSUME MInv, NEW i \in Titles, IndexTitled(i) PROVE MInv'
<1>1. HostInv /\ MeansInv /\ LaidInv /\ PipeInv /\ TermInv
  BY Zenon DEF MInv
<1>2. i \in Item
  BY MenusAssumption
<1>3. PICK k \in ItemNumbers(i) : Entered(i, k) /\ CartePlace(k, toTerm \o Sent(i, k))
  BY Zenon DEF IndexTitled
<1>4. list # <<>>
  BY DEF IndexTitled
<1>5. /\ k \in 1 .. Len(items') /\ items' \in Seq(StoredItem) /\ Extended(items, items')
      /\ iSIZE' \in Nat /\ Len(items') < iSIZE'
  BY <1>1, <1>2, <1>3, ItemPlaced, Zenon
<1>6. k \in 0 .. Len(items')
  BY <1>5
<1>7. PipeOK(toTerm \o Sent(i, k), items', iSIZE', cartes, cSIZE)
  BY <1>1, <1>2, <1>3, ItemSent, Zenon
<1>8. HostInv' /\ MeansInv' /\ LaidInv' /\ PipeInv' /\ TermInv' /\ MadeIsMeant'
  BY <1>1, <1>3, <1>4, <1>5, <1>6, <1>7, CarteStep, Zenon
<1>9. QED BY <1>8, Zenon DEF MInv

LEMMA HostSame ==
  ASSUME MInv, UNCHANGED host
  PROVE  /\ HostInv' /\ MeansInv' /\ LaidInv' /\ MadeIsMeant'
         /\ items' = items /\ iSIZE' = iSIZE /\ cartes' = cartes /\ cSIZE' = cSIZE
<1>1. /\ items' = items /\ iSIZE' = iSIZE /\ cartes' = cartes /\ cSIZE' = cSIZE
      /\ list' = list /\ listMeans' = listMeans /\ means' = means /\ made' = made
  BY DEF host
<1>2. HostInv'
  BY <1>1, Zenon DEF MInv, HostInv
<1>3. MeansInv'
  <2>1. /\ means \in Seq(Seq(StoredItem)) /\ Len(means) = Len(cartes)
        /\ listMeans \in Seq(Seq(StoredItem)) /\ Len(listMeans) = Len(list)
        /\ \A j \in 1 .. Len(list) : listMeans[j] = Meant(list[j])
        /\ \A c \in 1 .. Len(cartes) : means[c] = FlattenSeq(MeantBy(cartes[c].bins))
    BY DEF MInv, MeansInv
  <2>2. \A b : Meant(b)' = Meant(b)
    BY <1>1, Zenon DEF Meant
  <2>3. \A c \in 1 .. Len(cartes) : MeantBy(cartes[c].bins)' = MeantBy(cartes[c].bins)
    BY <1>1, Zenon DEF MeantBy, Meant
  <2>4. \A j \in 1 .. Len(list') : listMeans'[j] = Meant(list[j])'
    BY <1>1, <2>1, Zenon DEF Meant
  <2>5. \A c \in 1 .. Len(cartes') : means'[c] = FlattenSeq(MeantBy(cartes[c].bins))'
    BY <1>1, <2>1, <2>3, Zenon
  <2>6. QED BY <1>1, <2>1, <2>4, <2>5, Zenon DEF MeansInv
<1>4. LaidInv'
  <2>1. \A b : Meant(b)' = Meant(b) /\ Entries(b)' = Entries(b)
    BY <1>1, Zenon DEF Meant, Entries
  <2>2. ASSUME NEW bins, NEW es, Laid(bins, es) PROVE Laid(bins, es)'
    <3>1. PICK at \in [0 .. Len(bins) -> Nat] : LaidBy(at, bins, es)
      BY <2>2, Zenon DEF Laid
    <3>2. LaidBy(at, bins, es)'
      BY <2>1, <3>1, Zenon DEF LaidBy
    <3>3. QED BY <3>2, Zenon DEF Laid
  <2>3. ASSUME NEW c \in 1 .. Len(cartes)
        PROVE  cartes'[c].items = Len(means'[c]) /\ Laid(cartes[c].bins, means[c])'
    <3>1. cartes[c].items = Len(means[c]) /\ Laid(cartes[c].bins, means[c])
      BY Zenon DEF MInv, LaidInv
    <3>2. PICK bins, es : bins = cartes[c].bins /\ es = means[c]
      OBVIOUS
    <3>3. Laid(bins, es)'
      BY <2>2, <3>1, <3>2, Zenon
    <3>4. cartes'[c].bins = bins /\ means'[c] = es
      BY <1>1, <3>2, Zenon
    <3>5. Laid(cartes[c].bins, means[c])'
      BY <3>3, <3>4, Zenon
    <3>6. QED BY <1>1, <3>1, <3>5, Zenon
  <2>4. QED BY <1>1, <2>3, Zenon DEF LaidInv
<1>5. MadeIsMeant'
  BY <1>1, Zenon DEF MInv, MadeIsMeant
<1>6. QED BY <1>1, <1>2, <1>3, <1>4, <1>5, Zenon

\* A window is told of a menu that has been sent before.
LEMMA MenuStep == ASSUME MInv, NEW c \in DOMAIN cartes, menu(c) PROVE MInv'
<1> DEFINE s == toTerm
           m == [op |-> "CARTE", index |-> CARTE(c)]
           t == Append(s, m)
<1>1. HostInv /\ PipeInv /\ TermInv
  BY DEF MInv
<1>2. toTerm' = t /\ UNCHANGED host /\ UNCHANGED term
  BY DEF menu
<1>3. /\ HostInv' /\ MeansInv' /\ LaidInv' /\ MadeIsMeant'
      /\ items' = items /\ iSIZE' = iSIZE /\ cartes' = cartes /\ cSIZE' = cSIZE
  BY <1>2, HostSame, Zenon
<1>4. /\ tI' = tI /\ tISIZE' = tISIZE /\ tC' = tC /\ tCSIZE' = tCSIZE
      /\ tCarte' = tCarte /\ failed' = failed
  BY <1>2 DEF term
<1>5. TermInv'
  BY <1>1, <1>3, <1>4, Zenon DEF TermInv
<1>6. c \in 1 .. Len(cartes) /\ -CARTE(c) = c /\ Len(cartes) \in Nat
  BY <1>1, LenProperties DEF HostInv, CARTE
<1>7. m \in Message /\ m.op = "CARTE" /\ -m.index = c
  BY <1>6 DEF Message, CARTE
<1>8. s \in Seq(Message)
  BY <1>1 DEF PipeInv, PipeOK
<1> HIDE DEF m
<1>9. t \in Seq(Message) /\ Sending(t, s, m)
  BY <1>7, <1>8, AppendExtends, AppendIsSending, Zenon
<1> HIDE DEF t
<1>10. Follows(t, "I_DEFINE", "I_CACHE", DOMAIN tI, tISIZE, Len(items), iSIZE)
  <2>1. m.op \notin {"I_DEFINE", "I_CACHE"}
    BY <1>7
  <2>2. QED BY <2>1, <1>1, <1>9, FollowsOther, Zenon DEF PipeInv, PipeOK
<1>11. Follows(t, "C_DEFINE", "C_CACHE", DOMAIN tC, tCSIZE, Len(cartes), cSIZE)
  <2>1. m.op \notin {"C_DEFINE", "C_CACHE"}
    BY <1>7
  <2>2. QED BY <2>1, <1>1, <1>9, FollowsOther, Zenon DEF PipeInv, PipeOK
<1>12. Tells(t, DOMAIN tI, DOMAIN tC, items, cartes)
  <2>1. t[Len(s) + 1] = m /\ Len(s) \in Nat /\ Len(s) + 1 \in 1 .. Len(s) + 1
    BY <1>9 DEF Sending
  <2>2. Came(s, "C_CACHE", DOMAIN tC, c, Len(s) + 1)
    BY <1>1, <1>6, <2>1, AllCame, Zenon DEF PipeInv, PipeOK
  <2>3. Came(t, "C_CACHE", DOMAIN tC, c, Len(s) + 1)
    BY <1>9, <2>1, <2>2, CameSending, Zenon
  <2>4. TellsAt(t, DOMAIN tI, DOMAIN tC, items, cartes, Len(s) + 1)
    <3>1. m.op # "I_CACHE" /\ m.op # "C_CACHE"
      BY <1>7
    <3>2. QED BY <3>1, <1>6, <1>7, <2>1, <2>3, Zenon DEF TellsAt
  <2>5. Extended(items, items) /\ Extended(cartes, cartes)
    BY <1>1, SameExtends, Zenon DEF HostInv
  <2>6. Tells(s, DOMAIN tI, DOMAIN tC, items, cartes)
    BY <1>1 DEF PipeInv, PipeOK
  <2>7. /\ \A p \in 1 .. Len(s) : s[p].op = "I_CACHE" => s[p].index \in 1 .. Len(items)
        /\ \A p \in 1 .. Len(s) : s[p].op = "C_CACHE" => s[p].index \in 1 .. Len(cartes)
    BY <1>1, Cached, Zenon DEF PipeInv
  <2>8. QED BY <2>4, <2>5, <2>6, <2>7, <1>9, TellsSending, Zenon
<1>13. PipeInv'
  BY <1>2, <1>3, <1>4, <1>9, <1>10, <1>11, <1>12, Zenon DEF PipeInv, PipeOK
<1>14. QED BY <1>3, <1>5, <1>13, Zenon DEF MInv

-----------------------------------------------------------------------------
(* Steps of the terminal. *)

\* What comes before the first message is in the tables.
LEMMA FirstCame == ASSUME NEW s, NEW cache, NEW T, NEW k PROVE Came(s, cache, T, k, 1) => k \in T
BY DEF Came

LEMMA ReceiveStep == ASSUME MInv, TermReceive PROVE MInv'
<1> DEFINE s == toTerm
           t == Tail(s)
           m == s[1]
<1>1. HostInv /\ PipeInv /\ TermInv
  BY DEF MInv
<1>2. s \in Seq(Message) /\ s # <<>> /\ toTerm' = t /\ UNCHANGED host
  BY <1>1 DEF TermReceive, PipeInv, PipeOK
<1>3. Receiving(t, s) /\ Head(s) = m /\ m \in Message
  BY <1>2, TailIsReceiving
<1>4. t \in Seq(Message)
  BY <1>2, HeadTailProperties
<1>5. /\ HostInv' /\ MeansInv' /\ LaidInv' /\ MadeIsMeant'
      /\ items' = items /\ iSIZE' = iSIZE /\ cartes' = cartes /\ cSIZE' = cSIZE
  BY <1>2, HostSame, Zenon
<1>6. /\ tISIZE \in Nat /\ tCSIZE \in Nat /\ failed = FALSE
      /\ Len(items) \in Nat /\ iSIZE \in Nat /\ Len(cartes) \in Nat /\ cSIZE \in Nat
  BY <1>1, LenProperties DEF HostInv, TermInv
<1>7. /\ Follows(s, "I_DEFINE", "I_CACHE", DOMAIN tI, tISIZE, Len(items), iSIZE)
      /\ Follows(s, "C_DEFINE", "C_CACHE", DOMAIN tC, tCSIZE, Len(cartes), cSIZE)
      /\ Tells(s, DOMAIN tI, DOMAIN tC, items, cartes)
  BY <1>1, Zenon DEF PipeInv, PipeOK
<1>8. TellsAt(s, DOMAIN tI, DOMAIN tC, items, cartes, 1)
  <2>1. 1 \in 1 .. Len(s)
    BY <1>3 DEF Receiving
  <2>2. QED BY <2>1, <1>7, Zenon DEF Tells
<1> DEFINE
  Pipe == /\ Follows(t, "I_DEFINE", "I_CACHE", DOMAIN tI', tISIZE', Len(items), iSIZE)
          /\ Follows(t, "C_DEFINE", "C_CACHE", DOMAIN tC', tCSIZE', Len(cartes), cSIZE)
          /\ Tells(t, DOMAIN tI', DOMAIN tC', items, cartes)
  Tables == /\ tISIZE' \in Nat /\ tCSIZE' \in Nat /\ failed' = FALSE
            /\ DOMAIN tI' \subseteq 1 .. Len(items) /\ DOMAIN tC' \subseteq 1 .. Len(cartes)
            /\ \A k \in DOMAIN tI' : tI'[k] = items[k].text
            /\ \A c \in DOMAIN tC' :
                 /\ tC'[c] = [title |-> cartes[c].title, bins |-> cartes[c].bins, size |-> cartes[c].items]
                 /\ tC'[c].title # Null => tC'[c].title \in DOMAIN tI'
                 /\ \A j \in 1 .. Len(tC'[c].bins) :
                      LET b == tC'[c].bins[j] IN IF b > 0 THEN b \in DOMAIN tI' ELSE -b \in DOMAIN tC'
            /\ tCarte' \in Int /\ (tCarte' # Null => -tCarte' \in DOMAIN tC')
<1>9. /\ tISIZE \in Nat /\ tCSIZE \in Nat /\ failed = FALSE
      /\ DOMAIN tI \subseteq 1 .. Len(items) /\ DOMAIN tC \subseteq 1 .. Len(cartes)
      /\ \A k \in DOMAIN tI : tI[k] = items[k].text
      /\ \A c \in DOMAIN tC :
           /\ tC[c] = [title |-> cartes[c].title, bins |-> cartes[c].bins, size |-> cartes[c].items]
           /\ tC[c].title # Null => tC[c].title \in DOMAIN tI
           /\ \A j \in 1 .. Len(tC[c].bins) :
                LET b == tC[c].bins[j] IN IF b > 0 THEN b \in DOMAIN tI ELSE -b \in DOMAIN tC
      /\ tCarte \in Int /\ (tCarte # Null => -tCarte \in DOMAIN tC)
  BY <1>1, Zenon DEF TermInv
<1>10. m.op \in {"I_DEFINE", "C_DEFINE", "I_CACHE", "C_CACHE", "CARTE"}
  BY <1>3 DEF Message
<1>11. /\ m.op = "I_DEFINE" => tISIZE' = m.size /\ UNCHANGED <<tI, tC, tCSIZE, tCarte, failed>>
       /\ m.op = "C_DEFINE" => tCSIZE' = m.size /\ UNCHANGED <<tI, tISIZE, tC, tCarte, failed>>
       /\ m.op = "I_CACHE" =>
           /\ failed' = ~Fits(m.index, tI, tISIZE)
           /\ tI' = Filled(m.index, tI, m.text)
           /\ UNCHANGED <<tISIZE, tC, tCSIZE, tCarte>>
       /\ m.op = "C_CACHE" =>
           /\ failed' = ~Fits(m.index, tC, tCSIZE)
           /\ tC' = Filled(m.index, tC, [title |-> m.title, bins |-> m.bins, size |-> m.items])
           /\ UNCHANGED <<tI, tISIZE, tCSIZE, tCarte>>
       /\ m.op = "CARTE" => tCarte' = m.index /\ UNCHANGED <<tI, tISIZE, tC, tCSIZE, failed>>
  BY <1>3 DEF TermReceive
<1> HIDE DEF s, t, m
<1>12. ASSUME Pipe, Tables PROVE MInv'
  <2>1. PipeInv'
    BY <1>2, <1>4, <1>5, <1>12, Zenon DEF PipeInv, PipeOK, t
  <2>2. TermInv'
    BY <1>5, <1>12, Zenon DEF TermInv
  <2>3. QED BY <1>5, <2>1, <2>2, Zenon DEF MInv
<1> SUFFICES Pipe /\ Tables
  BY <1>12, Zenon
<1>13. CASE m.op = "I_DEFINE"
  <2>1. m.op \notin {"C_DEFINE", "C_CACHE"} /\ m.op # "I_CACHE" /\ m.op # "C_CACHE"
    BY <1>13
  <2>2. tISIZE' = m.size /\ tI' = tI /\ tC' = tC /\ tCSIZE' = tCSIZE /\ tCarte' = tCarte /\ failed' = failed
    BY <1>11, <1>13
  <2>3. m.size \in Nat /\ Follows(t, "I_DEFINE", "I_CACHE", DOMAIN tI, m.size, Len(items), iSIZE)
    <3>1. "I_DEFINE" # "I_CACHE"
      OBVIOUS
    <3>2. QED BY <3>1, <1>3, <1>6, <1>7, <1>13, DefineReceived, Zenon DEF m
  <2>4. Follows(t, "C_DEFINE", "C_CACHE", DOMAIN tC, tCSIZE, Len(cartes), cSIZE)
    BY <2>1, <1>3, <1>7, OtherReceived, Zenon DEF m
  <2>5. Tells(t, DOMAIN tI, DOMAIN tC, items, cartes)
    <3>1. DOMAIN tI \subseteq DOMAIN tI /\ DOMAIN tC \subseteq DOMAIN tC
      OBVIOUS
    <3>2. QED BY <2>1, <3>1, <1>3, <1>7, TellsReceiving, Zenon DEF m
  <2>6. Pipe
    BY <2>2, <2>3, <2>4, <2>5, Zenon
  <2>7. Tables
    BY <2>2, <2>3, <1>9, Zenon
  <2>8. QED BY <2>6, <2>7, Zenon
<1>14. CASE m.op = "C_DEFINE"
  <2>1. m.op \notin {"I_DEFINE", "I_CACHE"} /\ m.op # "I_CACHE" /\ m.op # "C_CACHE"
    BY <1>14
  <2>2. tCSIZE' = m.size /\ tI' = tI /\ tC' = tC /\ tISIZE' = tISIZE /\ tCarte' = tCarte /\ failed' = failed
    BY <1>11, <1>14
  <2>3. m.size \in Nat /\ Follows(t, "C_DEFINE", "C_CACHE", DOMAIN tC, m.size, Len(cartes), cSIZE)
    <3>1. "C_DEFINE" # "C_CACHE"
      OBVIOUS
    <3>2. QED BY <3>1, <1>3, <1>6, <1>7, <1>14, DefineReceived, Zenon DEF m
  <2>4. Follows(t, "I_DEFINE", "I_CACHE", DOMAIN tI, tISIZE, Len(items), iSIZE)
    BY <2>1, <1>3, <1>7, OtherReceived, Zenon DEF m
  <2>5. Tells(t, DOMAIN tI, DOMAIN tC, items, cartes)
    <3>1. DOMAIN tI \subseteq DOMAIN tI /\ DOMAIN tC \subseteq DOMAIN tC
      OBVIOUS
    <3>2. QED BY <2>1, <3>1, <1>3, <1>7, TellsReceiving, Zenon DEF m
  <2>6. Pipe
    BY <2>2, <2>3, <2>4, <2>5, Zenon
  <2>7. Tables
    BY <2>2, <2>3, <1>9, Zenon
  <2>8. QED BY <2>6, <2>7, Zenon
<1>15. CASE m.op = "I_CACHE"
  <2> DEFINE x == m.index
  <2>1. m.op \notin {"C_DEFINE", "C_CACHE"} /\ m.op # "C_CACHE"
    BY <1>15
  <2>2. /\ failed' = ~Fits(x, tI, tISIZE) /\ tI' = Filled(x, tI, m.text)
        /\ tISIZE' = tISIZE /\ tC' = tC /\ tCSIZE' = tCSIZE /\ tCarte' = tCarte
    BY <1>11, <1>15
  <2>3. /\ x \in 1 .. Len(items) /\ x \notin DOMAIN tI /\ x < tISIZE
        /\ Follows(t, "I_DEFINE", "I_CACHE", DOMAIN tI \cup {x}, tISIZE, Len(items), iSIZE)
    <3>1. "I_DEFINE" # "I_CACHE"
      OBVIOUS
    <3>2. QED BY <3>1, <1>3, <1>6, <1>7, <1>15, EntryReceived, Zenon DEF m
  <2> HIDE DEF x
  <2>4. /\ DOMAIN tI' = DOMAIN tI \cup {x} /\ tI'[x] = m.text
        /\ \A k \in DOMAIN tI : tI'[k] = tI[k]
    <3>1. /\ DOMAIN tI' = DOMAIN tI \cup {x} /\ tI'[x] = m.text
          /\ \A k \in DOMAIN tI : k # x => tI'[k] = tI[k]
      BY <2>2 DEF Filled
    <3>2. \A k \in DOMAIN tI : k # x
      BY <2>3
    <3>3. QED BY <3>1, <3>2, Zenon
  <2>5. Follows(t, "C_DEFINE", "C_CACHE", DOMAIN tC, tCSIZE, Len(cartes), cSIZE)
    BY <2>1, <1>3, <1>7, OtherReceived, Zenon DEF m
  <2>6. Tells(t, DOMAIN tI \cup {x}, DOMAIN tC, items, cartes)
    <3>1. DOMAIN tI \subseteq DOMAIN tI \cup {x} /\ DOMAIN tC \subseteq DOMAIN tC
      OBVIOUS
    <3>2. s[1].index \in DOMAIN tI \cup {x}
      BY DEF x, m
    <3>3. QED BY <2>1, <3>1, <3>2, <1>3, <1>7, TellsReceiving, Zenon DEF m
  <2>7. Pipe
    BY <2>2, <2>3, <2>4, <2>5, <2>6, Zenon
  <2>8. failed' = FALSE
    BY <2>2, <2>3, Zenon DEF Fits
  <2>9. m.text = items[x].text
    BY <1>8, <1>15, Zenon DEF TellsAt, m, x
  <2>10. Tables
    <3>1. DOMAIN tI' \subseteq 1 .. Len(items) /\ DOMAIN tI \subseteq DOMAIN tI'
      BY <2>3, <2>4, <1>9
    <3>2. \A k \in DOMAIN tI' : tI'[k] = items[k].text
      BY <2>4, <2>9, <1>9, Zenon
    <3>3. \A c \in DOMAIN tC' :
            /\ tC'[c] = [title |-> cartes[c].title, bins |-> cartes[c].bins, size |-> cartes[c].items]
            /\ tC'[c].title # Null => tC'[c].title \in DOMAIN tI'
            /\ \A j \in 1 .. Len(tC'[c].bins) :
                 LET b == tC'[c].bins[j] IN IF b > 0 THEN b \in DOMAIN tI' ELSE -b \in DOMAIN tC'
      BY <3>1, <2>2, <1>9, Zenon
    <3>4. QED BY <3>1, <3>2, <3>3, <2>2, <2>8, <1>9, Zenon
  <2>11. QED BY <2>7, <2>10, Zenon
<1>16. CASE m.op = "C_CACHE"
  <2> DEFINE x == m.index
             e == [title |-> m.title, bins |-> m.bins, size |-> m.items]
  <2>1. m.op \notin {"I_DEFINE", "I_CACHE"} /\ m.op # "I_CACHE"
    BY <1>16
  <2>2. /\ failed' = ~Fits(x, tC, tCSIZE) /\ tC' = Filled(x, tC, e)
        /\ tISIZE' = tISIZE /\ tI' = tI /\ tCSIZE' = tCSIZE /\ tCarte' = tCarte
    BY <1>11, <1>16
  <2>3. /\ x \in 1 .. Len(cartes) /\ x \notin DOMAIN tC /\ x < tCSIZE
        /\ Follows(t, "C_DEFINE", "C_CACHE", DOMAIN tC \cup {x}, tCSIZE, Len(cartes), cSIZE)
    <3>1. "C_DEFINE" # "C_CACHE"
      OBVIOUS
    <3>2. QED BY <3>1, <1>3, <1>6, <1>7, <1>16, EntryReceived, Zenon DEF m
  <2>4. e.title = m.title /\ e.bins = m.bins /\ e.size = m.items
    OBVIOUS
  <2>5. /\ m.title = cartes[x].title /\ m.bins = cartes[x].bins /\ m.items = cartes[x].items
        /\ m.title # Null => m.title \in DOMAIN tI
        /\ \A j \in 1 .. Len(m.bins) : BinCame(s, DOMAIN tI, DOMAIN tC, m.bins[j], 1)
    BY <1>8, <1>16, FirstCame, Zenon DEF TellsAt, m
  <2>6. \A j \in 1 .. Len(m.bins) :
          IF m.bins[j] > 0 THEN m.bins[j] \in DOMAIN tI ELSE -m.bins[j] \in DOMAIN tC
    BY <2>5, FirstCame, Zenon DEF BinCame
  <2>7. e = [title |-> cartes[x].title, bins |-> cartes[x].bins, size |-> cartes[x].items]
    BY <2>5, Zenon
  <2> HIDE DEF x, e
  <2>8. /\ DOMAIN tC' = DOMAIN tC \cup {x} /\ tC'[x] = e
        /\ \A k \in DOMAIN tC : tC'[k] = tC[k]
    <3>1. /\ DOMAIN tC' = DOMAIN tC \cup {x} /\ tC'[x] = e
          /\ \A k \in DOMAIN tC : k # x => tC'[k] = tC[k]
      BY <2>2 DEF Filled
    <3>2. \A k \in DOMAIN tC : k # x
      BY <2>3
    <3>3. QED BY <3>1, <3>2, Zenon
  <2>9. Follows(t, "I_DEFINE", "I_CACHE", DOMAIN tI, tISIZE, Len(items), iSIZE)
    BY <2>1, <1>3, <1>7, OtherReceived, Zenon DEF m
  <2>10. Tells(t, DOMAIN tI, DOMAIN tC \cup {x}, items, cartes)
    <3>1. DOMAIN tC \subseteq DOMAIN tC \cup {x} /\ DOMAIN tI \subseteq DOMAIN tI
      OBVIOUS
    <3>2. s[1].index \in DOMAIN tC \cup {x}
      BY DEF x, m
    <3>3. QED BY <2>1, <3>1, <3>2, <1>3, <1>7, TellsReceiving, Zenon DEF m
  <2>11. Pipe
    BY <2>2, <2>3, <2>8, <2>9, <2>10, Zenon
  <2>12. failed' = FALSE
    BY <2>2, <2>3, Zenon DEF Fits
  <2>13. Tables
    <3>1. DOMAIN tC' \subseteq 1 .. Len(cartes) /\ DOMAIN tC \subseteq DOMAIN tC'
      BY <2>3, <2>8, <1>9
    <3>2. ASSUME NEW c \in DOMAIN tC
          PROVE  /\ tC'[c] = [title |-> cartes[c].title, bins |-> cartes[c].bins, size |-> cartes[c].items]
                 /\ tC'[c].title # Null => tC'[c].title \in DOMAIN tI'
                 /\ \A j \in 1 .. Len(tC'[c].bins) :
                      LET b == tC'[c].bins[j] IN IF b > 0 THEN b \in DOMAIN tI' ELSE -b \in DOMAIN tC'
      <4>1. tC'[c] = tC[c] /\ tI' = tI
        BY <2>2, <2>8
      <4>2. QED BY <4>1, <3>1, <1>9, Zenon
    <3>3. /\ tC'[x] = [title |-> cartes[x].title, bins |-> cartes[x].bins, size |-> cartes[x].items]
          /\ tC'[x].title # Null => tC'[x].title \in DOMAIN tI'
          /\ \A j \in 1 .. Len(tC'[x].bins) :
               LET b == tC'[x].bins[j] IN IF b > 0 THEN b \in DOMAIN tI' ELSE -b \in DOMAIN tC'
      <4>1. tC'[x].title = m.title /\ tC'[x].bins = m.bins /\ tI' = tI
        BY <2>2, <2>8, <2>4, Zenon
      <4>2. QED BY <4>1, <3>1, <2>8, <2>5, <2>6, <2>7, Zenon
    <3>4. \A c \in DOMAIN tC' : c \in DOMAIN tC \/ c = x
      BY <2>8
    <3>5. \A c \in DOMAIN tC' :
            /\ tC'[c] = [title |-> cartes[c].title, bins |-> cartes[c].bins, size |-> cartes[c].items]
            /\ tC'[c].title # Null => tC'[c].title \in DOMAIN tI'
            /\ \A j \in 1 .. Len(tC'[c].bins) :
                 LET b == tC'[c].bins[j] IN IF b > 0 THEN b \in DOMAIN tI' ELSE -b \in DOMAIN tC'
      BY <3>2, <3>3, <3>4, Zenon
    <3>6. QED BY <3>1, <3>5, <2>2, <2>12, <1>9, Zenon
  <2>14. QED BY <2>11, <2>13, Zenon
<1>17. CASE m.op = "CARTE"
  <2>1. /\ m.op \notin {"I_DEFINE", "I_CACHE"} /\ m.op \notin {"C_DEFINE", "C_CACHE"}
        /\ m.op # "I_CACHE" /\ m.op # "C_CACHE"
    BY <1>17
  <2>2. tCarte' = m.index /\ tI' = tI /\ tC' = tC /\ tISIZE' = tISIZE /\ tCSIZE' = tCSIZE /\ failed' = failed
    BY <1>11, <1>17
  <2>3. /\ Follows(t, "I_DEFINE", "I_CACHE", DOMAIN tI, tISIZE, Len(items), iSIZE)
        /\ Follows(t, "C_DEFINE", "C_CACHE", DOMAIN tC, tCSIZE, Len(cartes), cSIZE)
    BY <2>1, <1>3, <1>7, OtherReceived, Zenon DEF m
  <2>4. Tells(t, DOMAIN tI, DOMAIN tC, items, cartes)
    <3>1. DOMAIN tI \subseteq DOMAIN tI /\ DOMAIN tC \subseteq DOMAIN tC
      OBVIOUS
    <3>2. QED BY <2>1, <3>1, <1>3, <1>7, TellsReceiving, Zenon DEF m
  <2>5. -m.index \in DOMAIN tC
    BY <1>8, <1>17, FirstCame, Zenon DEF TellsAt, m
  <2>6. m.index \in Int
    BY <1>3, <1>17 DEF Message
  <2>7. Pipe
    BY <2>2, <2>3, <2>4, Zenon
  <2>8. Tables
    BY <2>2, <2>5, <2>6, <1>9, Zenon
  <2>9. QED BY <2>7, <2>8, Zenon
<1>18. QED BY <1>10, <1>13, <1>14, <1>15, <1>16, <1>17

-----------------------------------------------------------------------------
(* The theorems. *)

LEMMA InitInv == Init => MInv
<1> SUFFICES ASSUME Init PROVE MInv
  OBVIOUS
<1> DEFINE d == [op |-> "I_DEFINE", size |-> InitialSize]
           e == [op |-> "C_DEFINE", size |-> InitialSize]
<1>1. /\ items = <<>> /\ iSIZE = InitialSize /\ cartes = <<>> /\ cSIZE = InitialSize
      /\ list = <<>> /\ toTerm = <<d, e>>
      /\ tI = <<>> /\ tISIZE = 0 /\ tC = <<>> /\ tCSIZE = 0 /\ tCarte = Null /\ failed = FALSE
      /\ listMeans = <<>> /\ means = <<>> /\ made = Unmade
  BY DEF Init
<1>2. InitialSize \in Nat /\ 0 < InitialSize
  BY MenusAssumption
<1>3. HostInv
  BY <1>1, <1>2 DEF HostInv
<1>4. MeansInv
  BY <1>1 DEF MeansInv
<1>5. LaidInv
  BY <1>1 DEF LaidInv
<1>6. TermInv
  <2>1. DOMAIN tI = {} /\ DOMAIN tC = {}
    BY <1>1
  <2>2. QED BY <1>1, <2>1 DEF TermInv, Null
<1>7. MadeIsMeant
  BY <1>1 DEF MadeIsMeant
<1>8. PipeInv
  <2>1. d \in Message /\ e \in Message
    BY <1>2 DEF Message
  <2>2. d.op = "I_DEFINE" /\ e.op = "C_DEFINE" /\ d.size = InitialSize /\ e.size = InitialSize
    OBVIOUS
  <2> HIDE DEF d, e
  <2>3. toTerm \in Seq(Message) /\ Len(toTerm) = 2 /\ toTerm[1] = d /\ toTerm[2] = e
    BY <1>1, <2>1
  <2>4. \A p \in 1 .. Len(toTerm) : p = 1 \/ p = 2
    BY <2>3
  <2>5. /\ \A p \in 1 .. Len(toTerm) : toTerm[p].op \notin {"I_CACHE", "C_CACHE", "CARTE"}
        /\ \A p \in 1 .. Len(toTerm) : toTerm[p].size = InitialSize
    BY <2>2, <2>3, <2>4
  <2>6. /\ \E p \in 1 .. Len(toTerm) : toTerm[p].op = "I_DEFINE"
        /\ \E p \in 1 .. Len(toTerm) : toTerm[p].op = "C_DEFINE"
    BY <2>2, <2>3
  <2>7. \A p \in 1 .. Len(toTerm) : \A q \in 1 .. p - 1 : q \in 1 .. Len(toTerm)
    BY <2>3
  <2>8. Follows(toTerm, "I_DEFINE", "I_CACHE", DOMAIN tI, tISIZE, Len(items), iSIZE)
    BY <1>1, <1>2, <2>5, <2>6, <2>7 DEF Follows
  <2>9. Follows(toTerm, "C_DEFINE", "C_CACHE", DOMAIN tC, tCSIZE, Len(cartes), cSIZE)
    BY <1>1, <1>2, <2>5, <2>6, <2>7 DEF Follows
  <2>10. Tells(toTerm, DOMAIN tI, DOMAIN tC, items, cartes)
    BY <2>5 DEF Tells, TellsAt
  <2>11. QED BY <2>3, <2>8, <2>9, <2>10 DEF PipeInv, PipeOK
<1>9. QED BY <1>3, <1>4, <1>5, <1>6, <1>7, <1>8, Zenon DEF MInv

LEMMA Stutter == ASSUME MInv, UNCHANGED vars PROVE MInv'
<1>1. UNCHANGED host /\ toTerm' = toTerm /\ UNCHANGED term
  BY DEF vars
<1>2. /\ HostInv' /\ MeansInv' /\ LaidInv' /\ MadeIsMeant'
      /\ items' = items /\ iSIZE' = iSIZE /\ cartes' = cartes /\ cSIZE' = cSIZE
  BY <1>1, HostSame, Zenon
<1>3. /\ tI' = tI /\ tISIZE' = tISIZE /\ tC' = tC /\ tCSIZE' = tCSIZE
      /\ tCarte' = tCarte /\ failed' = failed
  BY <1>1 DEF term
<1>4. TermInv'
  BY <1>2, <1>3, Zenon DEF MInv, TermInv
<1>5. PipeInv'
  BY <1>1, <1>2, <1>3, Zenon DEF MInv, PipeInv, PipeOK
<1>6. QED BY <1>2, <1>4, <1>5, Zenon DEF MInv

\* MInv holds in every state: the caches, the pipe and the terminal's tables
\* always say the same.
THEOREM Inductive == Spec => []MInv
<1>1. Init => MInv
  BY InitInv
<1>2. MInv /\ [Next]_vars => MInv'
  <2> SUFFICES ASSUME MInv, [Next]_vars PROVE MInv'
    OBVIOUS
  <2>1. ASSUME NEW i \in Item, Put(i) PROVE MInv'
    BY <2>1, PutStep
  <2>2. ASSUME NEW i \in Item, Sort(i) PROVE MInv'
    BY <2>2, SortStep
  <2>3. ASSUME NEW i \in Titles, IndexTitled(i) PROVE MInv'
    BY <2>3, IndexTitledStep
  <2>4. CASE Index
    BY <2>4, IndexStep
  <2>5. ASSUME NEW c \in DOMAIN cartes, PutCarte(c) PROVE MInv'
    BY <2>5, PutCarteStep
  <2>6. ASSUME NEW c \in DOMAIN cartes, menu(c) PROVE MInv'
    BY <2>6, MenuStep
  <2>7. CASE TermReceive
    BY <2>7, ReceiveStep
  <2>8. CASE UNCHANGED vars
    BY <2>8, Stutter
  <2>9. QED BY <2>1, <2>2, <2>3, <2>4, <2>5, <2>6, <2>7, <2>8, Zenon DEF Next
<1>3. QED BY <1>1, <1>2, PTL DEF Spec

\* The menu that a program is given a number for is the one that it filled,
\* when it was made now and when the caches found it.
THEOREM MadeMeant == Spec => []MadeIsMeant
BY Inductive, PTL DEF MInv

LEMMA InvDefined == MInv => Defined
<1> SUFFICES ASSUME MInv PROVE Defined
  OBVIOUS
<1>1. HostInv /\ MeansInv /\ TermInv
  BY DEF MInv
<1>2. /\ Len(items) \in Nat /\ DOMAIN items = 1 .. Len(items)
      /\ Len(cartes) \in Nat /\ DOMAIN cartes = 1 .. Len(cartes)
  BY <1>1, LenProperties DEF HostInv
<1>3. ASSUME NEW bins, NEW n \in Nat, n <= Len(cartes), bins \in Seq(Bin(Len(items), n)), NEW b \in Range(bins)
      PROVE  b \in DOMAIN items \/ -b \in DOMAIN cartes
  <2>1. PICK j \in 1 .. Len(bins) : b = bins[j]
    BY <1>3, LenProperties DEF Range
  <2>2. b \in Bin(Len(items), n)
    BY <1>3, <2>1, ElementOfSeq, Zenon
  <2>3. QED BY <2>2, <1>2, <1>3 DEF Bin
<1>4. ASSUME NEW c \in Range(cartes)
      PROVE  /\ c.title \in {Null} \cup DOMAIN items
             /\ \A b \in Range(c.bins) : b \in DOMAIN items \/ -b \in DOMAIN cartes
             /\ c.items \in Nat
  <2>1. PICK k \in 1 .. Len(cartes) : c = cartes[k]
    BY <1>2 DEF Range
  <2>2. c.title \in 0 .. Len(items) /\ c.bins \in Seq(Bin(Len(items), k - 1))
    BY <1>1, <2>1 DEF HostInv
  <2>3. c \in Carte
    BY <1>1, <2>1, ElementOfSeq, Zenon DEF HostInv
  <2>4. c.title \in {Null} \cup DOMAIN items
    BY <1>2, <2>2 DEF Null
  <2>5. \A b \in Range(c.bins) : b \in DOMAIN items \/ -b \in DOMAIN cartes
    <3>1. k - 1 \in Nat /\ k - 1 <= Len(cartes)
      BY <1>2
    <3>2. QED BY <3>1, <2>2, <1>3
  <2>6. c.items \in Nat
    BY <2>3 DEF Carte
  <2>7. QED BY <2>4, <2>5, <2>6
<1>5. \A b \in Range(list) : b \in DOMAIN items \/ -b \in DOMAIN cartes
  <2>1. list \in Seq(Bin(Len(items), Len(cartes))) /\ Len(cartes) <= Len(cartes)
    BY <1>1, <1>2 DEF HostInv
  <2>2. QED BY <2>1, <1>2, <1>3
<1>6. /\ items \in Seq(StoredItem) /\ iSIZE \in Nat /\ cSIZE \in Nat
      /\ Len(listMeans) = Len(list) /\ Len(means) = Len(cartes)
      /\ DOMAIN tI \subseteq DOMAIN items /\ DOMAIN tC \subseteq DOMAIN cartes
      /\ tISIZE \in Nat /\ tCSIZE \in Nat /\ ~failed
      /\ tCarte # Null => -tCarte \in DOMAIN tC
  BY <1>1, <1>2 DEF HostInv, MeansInv, TermInv
<1>7. tCarte \in {Null} \cup { CARTE(c) : c \in DOMAIN cartes }
  <2>1. CASE tCarte = Null
    BY <2>1
  <2>2. CASE tCarte # Null
    <3>1. tCarte \in Int /\ -tCarte \in DOMAIN cartes
      BY <1>1, <1>6, <2>2 DEF TermInv
    <3>2. tCarte = CARTE(-tCarte)
      BY <3>1 DEF CARTE
    <3>3. QED BY <3>1, <3>2
  <2>3. QED BY <2>1, <2>2
<1>8. ASSUME NEW c \in DOMAIN tC
      PROVE  /\ tC[c].title # Null => tC[c].title \in DOMAIN tI
             /\ \A b \in Range(tC[c].bins) : b \in DOMAIN tI \/ -b \in DOMAIN tC
  <2>1. /\ tC[c].title # Null => tC[c].title \in DOMAIN tI
        /\ \A j \in 1 .. Len(tC[c].bins) :
             LET b == tC[c].bins[j] IN IF b > 0 THEN b \in DOMAIN tI ELSE -b \in DOMAIN tC
    BY <1>1, Zenon DEF TermInv
  <2>2. tC[c].bins \in Seq(Int)
    <3>1. tC[c].bins = cartes[c].bins /\ c \in 1 .. Len(cartes)
      BY <1>1 DEF TermInv
    <3>2. cartes[c] \in Carte
      BY <1>1, <3>1, ElementOfSeq, Zenon DEF HostInv
    <3>3. QED BY <3>1, <3>2 DEF Carte
  <2>3. ASSUME NEW b \in Range(tC[c].bins) PROVE b \in DOMAIN tI \/ -b \in DOMAIN tC
    <3>1. PICK j \in 1 .. Len(tC[c].bins) : b = tC[c].bins[j]
      BY <2>2, LenProperties DEF Range
    <3>2. QED BY <2>1, <3>1, Zenon
  <2>4. QED BY <2>1, <2>3, Zenon
<1>9. QED BY <1>4, <1>5, <1>6, <1>7, <1>8, Zenon DEF Defined, StoredItem

\* Everything that a message, a table, a menu or a window names is there, and
\* no assert of the terminal fails.
THEOREM AllDefined == Spec => []Defined
BY Inductive, InvDefined, PTL

-----------------------------------------------------------------------------
(* Walks.  A walk ends at the points st of D with the values val; from any   *)
(* other point it goes on to the point nx, which has a smaller rank.         *)

Walk(D, st, nx, rank) ==
  /\ \A w \in D : rank[w] \in Nat
  /\ \A w \in D : w \notin st => nx[w] \in D /\ rank[nx[w]] < rank[w]

\* f gives for each point of D the value at the end of the walk from there.
Ends(f, D, st, val, nx) == f = [w \in D |-> IF w \in st THEN val[w] ELSE f[nx[w]]]

LEMMA WalksEnd ==
  ASSUME NEW D, NEW st, NEW val, NEW nx, NEW rank, Walk(D, st, nx, rank),
         NEW K \in Nat, \A w \in D : rank[w] < K
  PROVE  \E f : Ends(f, D, st, val, nx)
<1> DEFINE Below(k) == { w \in D : rank[w] < k }
           Partial(f, k) == f = [w \in Below(k) |-> IF w \in st THEN val[w] ELSE f[nx[w]]]
           T == { k \in Nat : \E f : Partial(f, k) }
<1>1. 0 \in T
  <2>1. Below(0) = {}
    BY DEF Walk
  <2>2. Partial([w \in {} |-> 0], 0)
    BY <2>1
  <2>3. QED BY <2>2
<1>2. ASSUME NEW k \in Nat, NEW f, Partial(f, k) PROVE \E g : Partial(g, k + 1)
  <2> DEFINE g == [w \in Below(k + 1) |-> IF w \in st THEN val[w] ELSE f[nx[w]]]
  <2>1. \A w \in Below(k) : w \in Below(k + 1) /\ f[w] = IF w \in st THEN val[w] ELSE f[nx[w]]
    <3>1. \A w \in Below(k) : w \in Below(k + 1)
      BY DEF Walk
    <3>2. \A w \in Below(k) : f[w] = IF w \in st THEN val[w] ELSE f[nx[w]]
      <4> HIDE DEF Below
      <4>1. QED BY <1>2
    <3>3. QED BY <3>1, <3>2, Zenon
  <2>2. \A w \in Below(k + 1) : w \notin st => nx[w] \in Below(k)
    BY DEF Walk
  <2> HIDE DEF Below, Partial
  <2>3. \A w \in Below(k) : g[w] = f[w]
    BY <2>1, Zenon
  <2>4. \A w \in Below(k + 1) : g[w] = IF w \in st THEN val[w] ELSE f[nx[w]]
    BY Zenon
  <2>5. \A w \in Below(k + 1) : g[w] = IF w \in st THEN val[w] ELSE g[nx[w]]
    BY <2>2, <2>3, <2>4, Zenon
  <2>6. g = [w \in Below(k + 1) |-> g[w]]
    BY Zenon
  <2> HIDE DEF g
  <2>7. g = [w \in Below(k + 1) |-> IF w \in st THEN val[w] ELSE g[nx[w]]]
    BY <2>5, <2>6, Zenon
  <2>8. QED BY <2>7, Zenon DEF Partial
<1> HIDE DEF Partial
<1>3. \A k \in Nat : k \in T => k + 1 \in T
  BY <1>2
<1> HIDE DEF T
<1>4. K \in T
  BY <1>1, <1>3, Induct, Zenon
<1>5. Below(K) = D
  OBVIOUS
<1> HIDE DEF Below
<1>6. PICK f : Partial(f, K)
  BY <1>4, Zenon DEF T
<1>7. Ends(f, D, st, val, nx)
  BY <1>5, <1>6, Zenon DEF Partial, Ends
<1>8. QED BY <1>7, Zenon

\* What a walk is after stays the same from point to point of G, and is found
\* at the end.
Finds(G, D, st, val, nx, aim, Right) ==
  /\ G \subseteq D
  /\ \A w \in G : w \in st => <<val[w], aim[w]>> \in Right
  /\ \A w \in G : w \notin st => nx[w] \in G /\ aim[nx[w]] = aim[w]

LEMMA WalksFind ==
  ASSUME NEW D, NEW st, NEW val, NEW nx, NEW rank, Walk(D, st, nx, rank),
         NEW f, Ends(f, D, st, val, nx), NEW G, NEW aim, NEW Right,
         Finds(G, D, st, val, nx, aim, Right), NEW w \in G
  PROVE  <<f[w], aim[w]>> \in Right
<1> DEFINE Bad == { v \in G : <<f[v], aim[v]>> \notin Right }
           T == { rank[v] : v \in Bad }
<1>1. \A v \in G : v \in D
  BY DEF Finds
<1>2. \A v \in D : f[v] = IF v \in st THEN val[v] ELSE f[nx[v]]
  BY Zenon DEF Ends
<1>3. SUFFICES ASSUME Bad # {} PROVE FALSE
  BY Zenon
<1>4. T \subseteq Nat /\ T # {}
  BY <1>1, <1>3 DEF Walk
<1>5. PICK v \in Bad : \A u \in Bad : rank[v] <= rank[u]
  <2>1. PICK m \in T : \A n \in T : m <= n
    BY <1>4, Least, Zenon
  <2>2. QED BY <2>1
<1>6. v \notin st
  BY <1>1, <1>2, Zenon DEF Finds
<1>7. nx[v] \in G /\ aim[nx[v]] = aim[v] /\ f[nx[v]] = f[v]
  BY <1>1, <1>2, <1>6, Zenon DEF Finds
<1>8. nx[v] \in Bad
  BY <1>7, Zenon
<1>9. rank[v] <= rank[nx[v]]
  BY <1>5, <1>8, Zenon
<1>10. rank[nx[v]] < rank[v] /\ rank[v] \in Nat /\ rank[nx[v]] \in Nat
  BY <1>1, <1>6, <1>7, Zenon DEF Walk
<1>11. QED BY <1>9, <1>10

-----------------------------------------------------------------------------
(* The walk of CarteEntry. *)

Points == (DOMAIN tC) \X Nat \X Nat

BinAt(w) == tC[w[1]].bins[w[3]]

\* One step of it, as CarteEntry has it.
EntryBody(f, w) ==
  IF w[3] \notin 1 .. Len(tC[w[1]].bins) THEN Null
  ELSE IF BinAt(w) > 0 THEN (IF w[2] = 0 THEN BinAt(w) ELSE f[<<w[1], w[2] - 1, w[3] + 1>>])
  ELSE IF -BinAt(w) \notin DOMAIN tC THEN Null
  ELSE IF tC[-BinAt(w)].title # Null
       THEN (IF w[2] = 0 THEN tC[-BinAt(w)].title ELSE f[<<w[1], w[2] - 1, w[3] + 1>>])
  ELSE IF w[2] < tC[-BinAt(w)].size THEN f[<<-BinAt(w), w[2], 1>>]
  ELSE f[<<w[1], w[2] - tC[-BinAt(w)].size, w[3] + 1>>]

IsEntry(f) == f = [w \in Points |-> EntryBody(f, w)]

LEMMA CarteEntryIs ==
  \A c, i : CarteEntry(c, i) = IF i >= tC[c].size THEN Null ELSE (CHOOSE f : IsEntry(f))[<<c, i, 1>>]
BY Zenon DEF CarteEntry, IsEntry, EntryBody, Points, BinAt

\* The same as a walk.
Ending ==
  { w \in Points :
      \/ w[3] \notin 1 .. Len(tC[w[1]].bins)
      \/ BinAt(w) > 0 /\ w[2] = 0
      \/ ~ (BinAt(w) > 0) /\ -BinAt(w) \notin DOMAIN tC
      \/ ~ (BinAt(w) > 0) /\ tC[-BinAt(w)].title # Null /\ w[2] = 0 }

EndValue ==
  [w \in Points |->
    IF w[3] \notin 1 .. Len(tC[w[1]].bins) THEN Null
    ELSE IF BinAt(w) > 0 THEN BinAt(w)
    ELSE IF -BinAt(w) \notin DOMAIN tC THEN Null
    ELSE tC[-BinAt(w)].title]

Onto ==
  [w \in Points |->
    IF BinAt(w) > 0 \/ tC[-BinAt(w)].title # Null THEN <<w[1], w[2] - 1, w[3] + 1>>
    ELSE IF w[2] < tC[-BinAt(w)].size THEN <<-BinAt(w), w[2], 1>>
    ELSE <<w[1], w[2] - tC[-BinAt(w)].size, w[3] + 1>>]

LEMMA EntryIsWalk == \A f : IsEntry(f) <=> Ends(f, Points, Ending, EndValue, Onto)
<1>1. ASSUME NEW f, NEW w \in Points
      PROVE  EntryBody(f, w) = IF w \in Ending THEN EndValue[w] ELSE f[Onto[w]]
  <2>1. EndValue[w] = IF w[3] \notin 1 .. Len(tC[w[1]].bins) THEN Null
                      ELSE IF BinAt(w) > 0 THEN BinAt(w)
                      ELSE IF -BinAt(w) \notin DOMAIN tC THEN Null
                      ELSE tC[-BinAt(w)].title
    BY Zenon DEF EndValue
  <2>2. Onto[w] = IF BinAt(w) > 0 \/ tC[-BinAt(w)].title # Null THEN <<w[1], w[2] - 1, w[3] + 1>>
                  ELSE IF w[2] < tC[-BinAt(w)].size THEN <<-BinAt(w), w[2], 1>>
                  ELSE <<w[1], w[2] - tC[-BinAt(w)].size, w[3] + 1>>
    BY Zenon DEF Onto
  <2>3. w \in Ending <=> \/ w[3] \notin 1 .. Len(tC[w[1]].bins)
                         \/ BinAt(w) > 0 /\ w[2] = 0
                         \/ ~ (BinAt(w) > 0) /\ -BinAt(w) \notin DOMAIN tC
                         \/ ~ (BinAt(w) > 0) /\ tC[-BinAt(w)].title # Null /\ w[2] = 0
    BY Zenon DEF Ending
  <2>4. CASE w[3] \notin 1 .. Len(tC[w[1]].bins)
    BY <2>1, <2>3, <2>4, Zenon DEF EntryBody
  <2>5. CASE w[3] \in 1 .. Len(tC[w[1]].bins) /\ BinAt(w) > 0
    BY <2>1, <2>2, <2>3, <2>5, Zenon DEF EntryBody
  <2>6. CASE w[3] \in 1 .. Len(tC[w[1]].bins) /\ ~ (BinAt(w) > 0) /\ -BinAt(w) \notin DOMAIN tC
    BY <2>1, <2>3, <2>6, Zenon DEF EntryBody
  <2>7. CASE /\ w[3] \in 1 .. Len(tC[w[1]].bins) /\ ~ (BinAt(w) > 0) /\ -BinAt(w) \in DOMAIN tC
             /\ tC[-BinAt(w)].title # Null
    BY <2>1, <2>2, <2>3, <2>7, Zenon DEF EntryBody
  <2>8. CASE /\ w[3] \in 1 .. Len(tC[w[1]].bins) /\ ~ (BinAt(w) > 0) /\ -BinAt(w) \in DOMAIN tC
             /\ tC[-BinAt(w)].title = Null
    BY <2>2, <2>3, <2>8, Zenon DEF EntryBody
  <2>9. QED BY <2>4, <2>5, <2>6, <2>7, <2>8, Zenon
<1>2. ASSUME NEW f
      PROVE  [w \in Points |-> EntryBody(f, w)]
             = [w \in Points |-> IF w \in Ending THEN EndValue[w] ELSE f[Onto[w]]]
  BY <1>1, Zenon
<1>3. QED BY <1>2, Zenon DEF IsEntry, Ends

LEMMA Times == ASSUME NEW a \in Nat, NEW d \in Nat, NEW K \in Nat, a < d PROVE a * K + K <= d * K
<1>1. PICK e \in Nat : d = a + 1 + e
  <2>1. d - a - 1 \in Nat /\ d = a + 1 + (d - a - 1)
    OBVIOUS
  <2>2. QED BY <2>1, Zenon
<1>2. d * K = a * K + K + e * K
  BY <1>1
<1>3. e * K \in Nat /\ a * K \in Nat
  OBVIOUS
<1>4. QED BY <1>2, <1>3

\* A number above the length of every menu.
LEMMA Longest ==
  ASSUME HostInv PROVE \E L \in Nat : \A c \in 1 .. Len(cartes) : Len(cartes[c].bins) < L
<1> DEFINE T == { n \in Nat : n <= Len(cartes) =>
                    \E L \in Nat : \A c \in 1 .. n : Len(cartes[c].bins) < L }
<1>1. Len(cartes) \in Nat /\ \A c \in 1 .. Len(cartes) : Len(cartes[c].bins) \in Nat
  <2>1. Len(cartes) \in Nat
    BY LenProperties, Zenon DEF HostInv
  <2>2. \A c \in 1 .. Len(cartes) : cartes[c].bins \in Seq(Bin(Len(items), c - 1))
    BY DEF HostInv
  <2>3. QED BY <2>1, <2>2, LenProperties, Zenon
<1>2. 0 \in T
  OBVIOUS
<1>3. ASSUME NEW n \in Nat, n \in T PROVE n + 1 \in T
  <2> SUFFICES ASSUME n + 1 <= Len(cartes)
               PROVE  \E L \in Nat : \A c \in 1 .. n + 1 : Len(cartes[c].bins) < L
    OBVIOUS
  <2>1. PICK L \in Nat : \A c \in 1 .. n : Len(cartes[c].bins) < L
    BY <1>1, <1>3
  <2>2. Len(cartes[n + 1].bins) \in Nat
    BY <1>1
  <2> DEFINE M == L + Len(cartes[n + 1].bins) + 1
  <2>3. M \in Nat /\ \A c \in 1 .. n + 1 : Len(cartes[c].bins) < M
    <3>1. M \in Nat /\ L <= M /\ Len(cartes[n + 1].bins) < M
      BY <2>2
    <3> HIDE DEF M
    <3>2. ASSUME NEW c \in 1 .. n + 1 PROVE Len(cartes[c].bins) < M
      <4>1. CASE c \in 1 .. n
        <5>1. Len(cartes[c].bins) \in Nat /\ Len(cartes[c].bins) < L
          BY <1>1, <2>1, <4>1
        <5>2. QED BY <5>1, <3>1
      <4>2. CASE c = n + 1
        BY <4>2, <3>1
      <4>3. QED BY <4>1, <4>2
    <3>3. QED BY <3>1, <3>2
  <2>4. QED BY <2>3, Zenon
<1> HIDE DEF T
<1>4. Len(cartes) \in T
  BY <1>1, <1>2, <1>3, Induct
<1>5. QED BY <1>1, <1>4 DEF T

\* A point that the walk goes on from, and its bin.
LEMMA WalksOn ==
  ASSUME HostInv, TermInv, NEW c \in DOMAIN tC, NEW n \in Nat, NEW j \in Nat,
         <<c, n, j>> \notin Ending
  PROVE  LET b == cartes[c].bins[j]
             w == <<c, n, j>> IN
         /\ c \in 1 .. Len(cartes) /\ j \in 1 .. Len(cartes[c].bins)
         /\ b \in Bin(Len(items), c - 1) /\ j + 1 \in Nat
         /\ \/ b > 0 /\ n - 1 \in Nat /\ Onto[w] = <<c, n - 1, j + 1>>
            \/ /\ ~ (b > 0) /\ -b \in DOMAIN tC /\ -b \in 1 .. c - 1
               /\ \/ /\ cartes[-b].title # Null
                     /\ n - 1 \in Nat /\ Onto[w] = <<c, n - 1, j + 1>>
                  \/ /\ cartes[-b].title = Null /\ n < cartes[-b].items
                     /\ Onto[w] = <<-b, n, 1>>
                  \/ /\ cartes[-b].title = Null /\ ~ (n < cartes[-b].items)
                     /\ n - cartes[-b].items \in Nat
                     /\ Onto[w] = <<c, n - cartes[-b].items, j + 1>>
<1> DEFINE w == <<c, n, j>>
           b == cartes[c].bins[j]
<1>1. w \in Points /\ w[1] = c /\ w[2] = n /\ w[3] = j
  BY DEF Points
<1>2. /\ c \in 1 .. Len(cartes) /\ tC[c].bins = cartes[c].bins
      /\ \A d \in DOMAIN tC : tC[d].title = cartes[d].title /\ tC[d].size = cartes[d].items
  <2>1. \A d \in DOMAIN tC :
          tC[d] = [title |-> cartes[d].title, bins |-> cartes[d].bins, size |-> cartes[d].items]
    BY DEF TermInv
  <2>2. \A d \in DOMAIN tC :
          tC[d].title = cartes[d].title /\ tC[d].size = cartes[d].items /\ tC[d].bins = cartes[d].bins
    BY <2>1
  <2>3. c \in 1 .. Len(cartes)
    BY DEF TermInv
  <2>4. QED BY <2>2, <2>3, Zenon
<1>3. BinAt(w) = b
  BY <1>1, <1>2, Zenon DEF BinAt
<1> HIDE DEF w
<1>4. w \notin Ending
  BY DEF w
<1>5. /\ j \in 1 .. Len(cartes[c].bins)
      /\ b > 0 => n # 0
      /\ ~ (b > 0) => -b \in DOMAIN tC /\ (tC[-b].title # Null => n # 0)
  BY <1>1, <1>2, <1>3, <1>4, Zenon DEF Ending
<1>6. Onto[w] = IF b > 0 \/ tC[-b].title # Null THEN <<c, n - 1, j + 1>>
                ELSE IF n < tC[-b].size THEN <<-b, n, 1>>
                ELSE <<c, n - tC[-b].size, j + 1>>
  <2>1. Onto[w] = IF BinAt(w) > 0 \/ tC[-BinAt(w)].title # Null THEN <<w[1], w[2] - 1, w[3] + 1>>
                  ELSE IF w[2] < tC[-BinAt(w)].size THEN <<-BinAt(w), w[2], 1>>
                  ELSE <<w[1], w[2] - tC[-BinAt(w)].size, w[3] + 1>>
    BY <1>1, Zenon DEF Onto
  <2> HIDE DEF b
  <2>2. QED BY <2>1, <1>1, <1>3, Zenon
<1>7. b \in Bin(Len(items), c - 1)
  <2>1. cartes[c].bins \in Seq(Bin(Len(items), c - 1))
    BY <1>2 DEF HostInv
  <2>2. QED BY <2>1, <1>5, ElementOfSeq, Zenon
<1>8. ~ (b > 0) => -b \in 1 .. c - 1 /\ cartes[-b].items \in Nat
  <2>1. ~ (b > 0) => -b \in 1 .. c - 1
    BY <1>7 DEF Bin
  <2>2. -b \in 1 .. c - 1 => -b \in 1 .. Len(cartes)
    BY <1>2
  <2>3. -b \in 1 .. Len(cartes) => cartes[-b] \in Carte
    BY ElementOfSeq, Zenon DEF HostInv
  <2>4. cartes[-b] \in Carte => cartes[-b].items \in Nat
    BY DEF Carte
  <2>5. QED BY <2>1, <2>2, <2>3, <2>4, Zenon
<1> HIDE DEF b
<1>9. j + 1 \in Nat /\ (n # 0 => n - 1 \in Nat)
  OBVIOUS
<1>10. CASE b > 0
  BY <1>2, <1>5, <1>6, <1>7, <1>9, <1>10, Zenon DEF w, b
<1>11. CASE ~ (b > 0)
  <2>1. tC[-b].title = cartes[-b].title /\ tC[-b].size = cartes[-b].items
    BY <1>2, <1>5, <1>11, Zenon
  <2>2. CASE cartes[-b].title # Null
    BY <1>2, <1>5, <1>6, <1>7, <1>8, <1>9, <1>11, <2>1, <2>2, Zenon DEF w, b
  <2>3. CASE cartes[-b].title = Null /\ n < cartes[-b].items
    BY <1>2, <1>5, <1>6, <1>7, <1>8, <1>9, <1>11, <2>1, <2>3, Zenon DEF w, b
  <2>4. CASE cartes[-b].title = Null /\ ~ (n < cartes[-b].items)
    <3>1. n - cartes[-b].items \in Nat
      BY <1>8, <1>11, <2>4
    <3>2. QED BY <1>2, <1>5, <1>6, <1>7, <1>8, <1>9, <1>11, <2>1, <2>4, <3>1, Zenon DEF w, b
  <2>5. QED BY <2>2, <2>3, <2>4, Zenon
<1>12. QED BY <1>10, <1>11, Zenon

\* From bin to bin, and from a menu to a menu made before it.
LEMMA WalksDown ==
  ASSUME HostInv, TermInv
  PROVE  \E rank, K : Walk(Points, Ending, Onto, rank) /\ K \in Nat /\ \A w \in Points : rank[w] < K
<1>1. PICK L \in Nat : \A c \in 1 .. Len(cartes) : Len(cartes[c].bins) < L
  BY Longest
<1> DEFINE R(c, j) == IF j \in 1 .. Len(cartes[c].bins) THEN c * L + (L - j) ELSE 0
           rank == [w \in Points |-> R(w[1], w[3])]
           K == (Len(cartes) + 1) * L + L + 1
<1>2. /\ Len(cartes) \in Nat
      /\ \A c \in 1 .. Len(cartes) : Len(cartes[c].bins) \in Nat
      /\ DOMAIN tC \subseteq 1 .. Len(cartes)
  <2>1. Len(cartes) \in Nat
    BY LenProperties, Zenon DEF HostInv
  <2>2. \A c \in 1 .. Len(cartes) : cartes[c].bins \in Seq(Bin(Len(items), c - 1))
    BY DEF HostInv
  <2>3. \A c \in 1 .. Len(cartes) : Len(cartes[c].bins) \in Nat
    BY <2>2, LenProperties, Zenon
  <2>4. QED BY <2>1, <2>3 DEF TermInv
<1>3. \A c \in DOMAIN tC, n, j \in Nat : <<c, n, j>> \in Points /\ rank[<<c, n, j>>] = R(c, j)
  BY DEF Points
<1>4. ASSUME NEW w \in Points PROVE \E c \in DOMAIN tC, n, j \in Nat : w = <<c, n, j>>
  <2>1. w[1] \in DOMAIN tC /\ w[2] \in Nat /\ w[3] \in Nat /\ w = <<w[1], w[2], w[3]>>
    BY DEF Points
  <2>2. QED BY <2>1, Zenon
<1>5. K \in Nat
  <2> DEFINE x == Len(cartes) + 1
  <2>1. x \in Nat
    BY <1>2
  <2> HIDE DEF x
  <2>2. x * L \in Nat
    BY <2>1
  <2> DEFINE y == x * L
  <2>3. y \in Nat
    BY <2>2
  <2> HIDE DEF y
  <2>4. y + L + 1 \in Nat
    BY <2>3
  <2>5. QED BY <2>4 DEF x, y
<1>6. ASSUME NEW c \in DOMAIN tC, NEW j \in Nat PROVE R(c, j) \in Nat /\ R(c, j) < K
  <2>1. c \in Nat /\ c < Len(cartes) + 1 /\ Len(cartes[c].bins) \in Nat /\ Len(cartes[c].bins) < L
    BY <1>1, <1>2
  <2>2. c * L + L <= (Len(cartes) + 1) * L
    BY <2>1, <1>2, Times
  <2>3. c * L \in Nat /\ (Len(cartes) + 1) * L \in Nat
    BY <2>1, <1>2
  <2>4. CASE j \in 1 .. Len(cartes[c].bins)
    <3>1. L - j \in Nat /\ L - j <= L
      BY <2>1, <2>4
    <3> DEFINE x == c * L
               y == (Len(cartes) + 1) * L
    <3>2. x \in Nat /\ y \in Nat /\ x + L <= y
      BY <2>2, <2>3
    <3> HIDE DEF x, y
    <3>3. x + (L - j) \in Nat /\ x + (L - j) < y + L + 1
      BY <3>1, <3>2
    <3>4. R(c, j) = x + (L - j) /\ K = y + L + 1
      BY <2>4, Zenon DEF x, y
    <3>5. QED BY <3>3, <3>4, Zenon
  <2>5. CASE j \notin 1 .. Len(cartes[c].bins)
    <3>1. 0 < K /\ 0 \in Nat
      <4> DEFINE y == (Len(cartes) + 1) * L
      <4>1. y \in Nat
        BY <2>3
      <4> HIDE DEF y
      <4>2. 0 < y + L + 1
        BY <4>1
      <4>3. QED BY <4>2 DEF y
    <3>2. R(c, j) = 0
      BY <2>5, Zenon
    <3>3. QED BY <3>1, <3>2, Zenon
  <2>6. QED BY <2>4, <2>5, Zenon
<1>7. ASSUME NEW c \in DOMAIN tC, NEW j \in 1 .. Len(cartes[c].bins) PROVE R(c, j + 1) < R(c, j)
  <2>1. c \in Nat /\ Len(cartes[c].bins) \in Nat /\ Len(cartes[c].bins) < L /\ c * L \in Nat
    BY <1>1, <1>2
  <2> DEFINE x == c * L
  <2>2. x \in Nat
    BY <2>1
  <2> HIDE DEF x
  <2>3. 0 < x + (L - j) /\ x + (L - (j + 1)) < x + (L - j)
    BY <2>1, <2>2
  <2>4. R(c, j) = x + (L - j)
    BY Zenon DEF x
  <2>5. R(c, j + 1) = x + (L - (j + 1)) \/ R(c, j + 1) = 0
    BY Zenon DEF x
  <2>6. QED BY <2>3, <2>4, <2>5, Zenon
<1>8. ASSUME NEW c \in DOMAIN tC, NEW j \in 1 .. Len(cartes[c].bins), NEW d \in DOMAIN tC, d \in 1 .. c - 1
      PROVE  R(d, 1) < R(c, j)
  <2>1. c \in Nat /\ d \in Nat /\ d < c /\ Len(cartes[c].bins) \in Nat /\ Len(cartes[c].bins) < L
    BY <1>1, <1>2, <1>8
  <2>2. d * L + L <= c * L /\ d * L \in Nat /\ c * L \in Nat
    BY <2>1, Times
  <2> DEFINE x == c * L
             y == d * L
  <2>3. x \in Nat /\ y \in Nat /\ y + L <= x
    BY <2>2
  <2> HIDE DEF x, y
  <2>4. 0 < x + (L - j) /\ y + (L - 1) < x + (L - j)
    BY <2>1, <2>3
  <2>5. R(c, j) = x + (L - j)
    BY Zenon DEF x
  <2>6. R(d, 1) = y + (L - 1) \/ R(d, 1) = 0
    BY Zenon DEF y
  <2>7. QED BY <2>4, <2>5, <2>6, Zenon
<1> HIDE DEF R, rank, K
<1>9. ASSUME NEW w \in Points PROVE rank[w] \in Nat /\ rank[w] < K
  <2>1. PICK c \in DOMAIN tC, n \in Nat, j \in Nat : w = <<c, n, j>>
    BY <1>4, Zenon
  <2>2. rank[w] = R(c, j)
    BY <2>1, <1>3, Zenon
  <2>3. QED BY <2>2, <1>6, Zenon
<1>10. ASSUME NEW w \in Points, w \notin Ending
       PROVE  Onto[w] \in Points /\ rank[Onto[w]] < rank[w]
  <2>1. PICK c \in DOMAIN tC, n \in Nat, j \in Nat : w = <<c, n, j>>
    BY <1>4, Zenon
  <2> DEFINE b == cartes[c].bins[j]
  <2>2. /\ j \in 1 .. Len(cartes[c].bins) /\ j + 1 \in Nat
        /\ \/ n - 1 \in Nat /\ Onto[w] = <<c, n - 1, j + 1>>
           \/ -b \in DOMAIN tC /\ -b \in 1 .. c - 1 /\ Onto[w] = <<-b, n, 1>>
           \/ n - cartes[-b].items \in Nat /\ Onto[w] = <<c, n - cartes[-b].items, j + 1>>
    BY <1>10, <2>1, WalksOn, Zenon
  <2>3. rank[w] = R(c, j)
    BY <2>1, <1>3, Zenon
  <2>4. ASSUME NEW m \in Nat, Onto[w] = <<c, m, j + 1>>
        PROVE  Onto[w] \in Points /\ rank[Onto[w]] < rank[w]
    <3>1. <<c, m, j + 1>> \in Points /\ rank[<<c, m, j + 1>>] = R(c, j + 1)
      BY <2>2, <1>3, Zenon
    <3>2. R(c, j + 1) < R(c, j)
      BY <2>2, <1>7, Zenon
    <3>3. QED BY <2>3, <2>4, <3>1, <3>2, Zenon
  <2>5. CASE -b \in DOMAIN tC /\ -b \in 1 .. c - 1 /\ Onto[w] = <<-b, n, 1>>
    <3>1. PICK d : d = -b
      OBVIOUS
    <3>2. d \in DOMAIN tC /\ d \in 1 .. c - 1 /\ Onto[w] = <<d, n, 1>>
      BY <2>5, <3>1, Zenon
    <3>3. 1 \in Nat
      OBVIOUS
    <3>4. <<d, n, 1>> \in Points /\ rank[<<d, n, 1>>] = R(d, 1)
      BY <3>2, <3>3, <1>3
    <3>5. R(d, 1) < R(c, j)
      BY <2>2, <3>2, <1>8, Zenon
    <3>6. QED BY <2>3, <3>2, <3>4, <3>5, Zenon
  <2>6. QED BY <2>2, <2>4, <2>5, Zenon
<1>11. Walk(Points, Ending, Onto, rank)
  BY <1>9, <1>10, Zenon DEF Walk
<1>12. QED BY <1>5, <1>9, <1>11, Zenon

\* Where the entries of the bins of menu c begin.
At(c) == CHOOSE at : LaidBy(at, cartes[c].bins, means[c])

LEMMA AtLaid ==
  ASSUME LaidInv, NEW c \in 1 .. Len(cartes) PROVE LaidBy(At(c), cartes[c].bins, means[c])
<1>1. \E at : LaidBy(at, cartes[c].bins, means[c])
  BY Zenon DEF LaidInv, Laid
<1>2. QED BY <1>1, Zenon DEF At

\* The points of a walk that still has an entry to come to, and the item that
\* it is to find.
Searching ==
  { w \in Points : w[3] \in 1 .. Len(cartes[w[1]].bins) /\ At(w[1])[w[3] - 1] + w[2] < Len(means[w[1]]) }

Sought == [w \in Points |-> means[w[1]][At(w[1])[w[3] - 1] + w[2] + 1]]

Found == { <<e, items[e]>> : e \in DOMAIN tI }

\* Past a bin with m entries.
LEMMA PastBin ==
  ASSUME HostInv, MeansInv, LaidInv, TermInv, NEW c \in DOMAIN tC, NEW n \in Nat, NEW j \in Nat,
         <<c, n, j>> \in Searching, NEW m \in Nat, m = Entries(cartes[c].bins[j]), ~ (n < m)
  PROVE  /\ <<c, n - m, j + 1>> \in Searching
         /\ Sought[<<c, n - m, j + 1>>] = Sought[<<c, n, j>>]
<1> DEFINE at == At(c)
           es == means[c]
           l == Len(cartes[c].bins)
           z == Len(es)
<1>1. c \in 1 .. Len(cartes) /\ l \in Nat /\ z \in Nat
  <2>1. c \in 1 .. Len(cartes)
    BY DEF TermInv
  <2>2. cartes[c].bins \in Seq(Bin(Len(items), c - 1)) /\ means \in Seq(Seq(StoredItem)) /\ Len(means) = Len(cartes)
    BY <2>1 DEF HostInv, MeansInv
  <2>3. es \in Seq(StoredItem)
    BY <2>1, <2>2, ElementOfSeq, Zenon
  <2>4. QED BY <2>1, <2>2, <2>3, LenProperties, Zenon
<1>2. <<c, n, j>> \in Points /\ n - m \in Nat /\ j + 1 \in Nat /\ <<c, n - m, j + 1>> \in Points
  BY DEF Points
<1>3. j \in 1 .. l /\ at[j - 1] + n < z
  BY <1>2 DEF Searching
<1>4. at \in [0 .. l -> Nat] /\ at[l] = z /\ at[j] = at[j - 1] + m
  BY <1>1, <1>3, AtLaid, Zenon DEF LaidBy
<1>5. Sought[<<c, n - m, j + 1>>] = es[at[(j + 1) - 1] + (n - m) + 1]
  BY <1>2 DEF Sought
<1>6. Sought[<<c, n, j>>] = es[at[j - 1] + n + 1]
  BY <1>2 DEF Sought
<1>7. <<c, n - m, j + 1>> \in Searching <=> j + 1 \in 1 .. l /\ at[(j + 1) - 1] + (n - m) < z
  BY <1>2 DEF Searching
<1> HIDE DEF at, es, l, z
<1>8. (j + 1) - 1 = j /\ at[j - 1] \in Nat /\ at[j] \in Nat
  <2>1. j - 1 \in 0 .. l /\ j \in 0 .. l /\ (j + 1) - 1 = j
    BY <1>1, <1>3
  <2>2. QED BY <2>1, <1>4, Zenon
<1> DEFINE x == at[j - 1]
           y == at[j]
<1>9. x \in Nat /\ y = x + m /\ x + n < z
  BY <1>3, <1>4, <1>8
<1> HIDE DEF x, y
<1>10. y + (n - m) = x + n
  BY <1>9
<1>11. j # l
  <2>1. j = l => y = z
    BY <1>4, Zenon DEF y
  <2>2. y <= x + n
    BY <1>9
  <2>3. QED BY <2>1, <2>2, <1>1, <1>9
<1>12. j + 1 \in 1 .. l
  BY <1>1, <1>3, <1>11
<1>13. at[(j + 1) - 1] + (n - m) = at[j - 1] + n
  BY <1>8, <1>10, Zenon DEF x, y
<1>14. QED BY <1>3, <1>5, <1>6, <1>7, <1>12, <1>13, Zenon

LEMMA SearchFinds ==
  ASSUME HostInv, MeansInv, LaidInv, TermInv
  PROVE  Finds(Searching, Points, Ending, EndValue, Onto, Sought, Found)
<1>1. Searching \subseteq Points
  BY DEF Searching
<1>2. ASSUME NEW w \in Points PROVE \E c \in DOMAIN tC, n, j \in Nat : w = <<c, n, j>>
  <2>1. w[1] \in DOMAIN tC /\ w[2] \in Nat /\ w[3] \in Nat /\ w = <<w[1], w[2], w[3]>>
    BY DEF Points
  <2>2. QED BY <2>1, Zenon
<1>3. ASSUME NEW c \in DOMAIN tC, NEW n \in Nat, NEW j \in Nat, <<c, n, j>> \in Searching
      PROVE  /\ <<c, n, j>> \in Ending => <<EndValue[<<c, n, j>>], Sought[<<c, n, j>>]>> \in Found
             /\ <<c, n, j>> \notin Ending =>
                  Onto[<<c, n, j>>] \in Searching /\ Sought[Onto[<<c, n, j>>]] = Sought[<<c, n, j>>]
  <2> DEFINE w == <<c, n, j>>
             b == cartes[c].bins[j]
             at == At(c)
             es == means[c]
  <2>1. /\ c \in 1 .. Len(cartes) /\ tC[c].bins = cartes[c].bins
        /\ \A d \in DOMAIN tC : tC[d].title = cartes[d].title /\ tC[d].size = cartes[d].items
        /\ \A i \in 1 .. Len(cartes[c].bins) :
             IF cartes[c].bins[i] > 0 THEN cartes[c].bins[i] \in DOMAIN tI ELSE -cartes[c].bins[i] \in DOMAIN tC
        /\ \A d \in DOMAIN tC : cartes[d].title # Null => cartes[d].title \in DOMAIN tI
    <3>1. \A d \in DOMAIN tC :
            tC[d] = [title |-> cartes[d].title, bins |-> cartes[d].bins, size |-> cartes[d].items]
      BY DEF TermInv
    <3>2. \A d \in DOMAIN tC :
            tC[d].title = cartes[d].title /\ tC[d].size = cartes[d].items /\ tC[d].bins = cartes[d].bins
      BY <3>1
    <3>3. /\ tC[c].bins = cartes[c].bins
          /\ \A d \in DOMAIN tC : tC[d].title # Null => tC[d].title \in DOMAIN tI
          /\ \A i \in 1 .. Len(tC[c].bins) :
               IF tC[c].bins[i] > 0 THEN tC[c].bins[i] \in DOMAIN tI ELSE -tC[c].bins[i] \in DOMAIN tC
      BY <3>2, Zenon DEF TermInv
    <3>4. c \in 1 .. Len(cartes)
      BY DEF TermInv
    <3>5. QED BY <3>2, <3>3, <3>4, Zenon
  <2>2. w \in Points /\ w[1] = c /\ w[2] = n /\ w[3] = j /\ j \in 1 .. Len(cartes[c].bins)
    BY <1>3 DEF Points, Searching
  <2>3. Sought[w] = es[at[j - 1] + n + 1]
    BY <2>2 DEF Sought
  <2>4. BinAt(w) = b
    BY <2>1, <2>2, Zenon DEF BinAt
  <2>5. \A k \in 1 .. Entries(b) : es[at[j - 1] + k] = Meant(b)[k]
    BY <2>1, <2>2, AtLaid, Zenon DEF LaidBy
  <2>6. at[j - 1] \in Nat
    <3>1. at \in [0 .. Len(cartes[c].bins) -> Nat]
      BY <2>1, AtLaid, Zenon DEF LaidBy
    <3>2. j - 1 \in 0 .. Len(cartes[c].bins)
      BY <2>2
    <3>3. QED BY <3>1, <3>2, Zenon
  <2>7. EndValue[w] = IF b > 0 THEN b ELSE IF -b \notin DOMAIN tC THEN Null ELSE tC[-b].title
    <3>1. EndValue[w] = IF w[3] \notin 1 .. Len(tC[w[1]].bins) THEN Null
                        ELSE IF BinAt(w) > 0 THEN BinAt(w)
                        ELSE IF -BinAt(w) \notin DOMAIN tC THEN Null
                        ELSE tC[-BinAt(w)].title
      BY <2>2, Zenon DEF EndValue
    <3> HIDE DEF w, b
    <3>2. QED BY <3>1, <2>1, <2>2, <2>4, Zenon
  <2>8. w \in Ending <=> \/ b > 0 /\ n = 0
                         \/ ~ (b > 0) /\ -b \notin DOMAIN tC
                         \/ ~ (b > 0) /\ tC[-b].title # Null /\ n = 0
    <3>1. w \in Ending <=> \/ w[3] \notin 1 .. Len(tC[w[1]].bins)
                           \/ BinAt(w) > 0 /\ w[2] = 0
                           \/ ~ (BinAt(w) > 0) /\ -BinAt(w) \notin DOMAIN tC
                           \/ ~ (BinAt(w) > 0) /\ tC[-BinAt(w)].title # Null /\ w[2] = 0
      BY <2>2, Zenon DEF Ending
    <3> HIDE DEF w, b
    <3>2. QED BY <3>1, <2>1, <2>2, <2>4, Zenon
  <2>9. IF b > 0 THEN b \in DOMAIN tI ELSE -b \in DOMAIN tC
    BY <2>1, <2>2, Zenon
  <2>10. ASSUME w \in Ending PROVE <<EndValue[w], Sought[w]>> \in Found
    <3> HIDE DEF w, b, at, es
    <3>1. n = 0
      BY <2>9, <2>10, <2>8, Zenon
    <3>2. at[j - 1] + n + 1 = at[j - 1] + 1
      BY <2>6, <3>1
    <3>3. Sought[w] = es[at[j - 1] + 1]
      BY <2>3, <3>2, Zenon
    <3>4. CASE b > 0
      <4>1. Entries(b) = 1 /\ Meant(b) = <<items[b]>>
        BY <3>4 DEF Entries, Meant
      <4>2. 1 \in 1 .. Entries(b) /\ Meant(b)[1] = items[b]
        BY <4>1
      <4>3. Sought[w] = items[b] /\ EndValue[w] = b /\ b \in DOMAIN tI
        BY <3>3, <3>4, <4>2, <2>5, <2>7, <2>9, Zenon
      <4>4. QED BY <4>3, Zenon DEF Found
    <3>5. CASE ~ (b > 0)
      <4>1. -b \in DOMAIN tC /\ cartes[-b].title # Null /\ tC[-b].title = cartes[-b].title
        BY <3>5, <2>1, <2>9, <2>10, <2>8, Zenon
      <4>2. Entries(b) = 1 /\ Meant(b) = <<items[cartes[-b].title]>>
        BY <3>5, <4>1 DEF Entries, Meant
      <4>3. 1 \in 1 .. Entries(b) /\ Meant(b)[1] = items[cartes[-b].title]
        BY <4>2
      <4>4. /\ Sought[w] = items[cartes[-b].title] /\ EndValue[w] = cartes[-b].title
            /\ cartes[-b].title \in DOMAIN tI
        BY <3>3, <3>5, <4>1, <4>3, <2>1, <2>5, <2>7, Zenon
      <4>5. QED BY <4>4, Zenon DEF Found
    <3>6. QED BY <3>4, <3>5, Zenon
  <2>11. ASSUME w \notin Ending
         PROVE  Onto[w] \in Searching /\ Sought[Onto[w]] = Sought[w]
    <3>1. /\ \/ b > 0 /\ n - 1 \in Nat /\ Onto[w] = <<c, n - 1, j + 1>>
             \/ /\ ~ (b > 0) /\ -b \in DOMAIN tC
                /\ \/ /\ cartes[-b].title # Null
                      /\ n - 1 \in Nat /\ Onto[w] = <<c, n - 1, j + 1>>
                   \/ /\ cartes[-b].title = Null /\ n < cartes[-b].items
                      /\ Onto[w] = <<-b, n, 1>>
                   \/ /\ cartes[-b].title = Null /\ ~ (n < cartes[-b].items)
                      /\ n - cartes[-b].items \in Nat
                      /\ Onto[w] = <<c, n - cartes[-b].items, j + 1>>
      BY <2>11, WalksOn, Zenon
    <3>2. ASSUME NEW m \in Nat, m = Entries(b), ~ (n < m), Onto[w] = <<c, n - m, j + 1>>
          PROVE  Onto[w] \in Searching /\ Sought[Onto[w]] = Sought[w]
      <4>1. m = Entries(cartes[c].bins[j]) /\ <<c, n, j>> \in Searching /\ ~ (n < m)
        BY <1>3, <3>2, Zenon DEF b
      <4>2. /\ <<c, n - m, j + 1>> \in Searching
            /\ Sought[<<c, n - m, j + 1>>] = Sought[<<c, n, j>>]
        BY <4>1, PastBin, Zenon
      <4>3. QED BY <3>2, <4>2, Zenon DEF w
    <3>3. CASE /\ b > 0 \/ (~ (b > 0) /\ cartes[-b].title # Null)
               /\ n - 1 \in Nat /\ Onto[w] = <<c, n - 1, j + 1>>
      <4>1. Entries(b) = 1
        BY <3>3 DEF Entries
      <4>2. 1 \in Nat /\ ~ (n < 1)
        BY <3>3
      <4>3. QED BY <3>2, <3>3, <4>1, <4>2, Zenon
    <3>4. CASE /\ ~ (b > 0) /\ -b \in DOMAIN tC /\ cartes[-b].title = Null /\ ~ (n < cartes[-b].items)
               /\ n - cartes[-b].items \in Nat
               /\ Onto[w] = <<c, n - cartes[-b].items, j + 1>>
      <4>1. Entries(b) = cartes[-b].items
        BY <3>4, Zenon DEF Entries
      <4>2. cartes[-b].items \in Nat
        <5>1. -b \in 1 .. Len(cartes)
          BY <3>4 DEF TermInv
        <5>2. cartes[-b] \in Carte
          BY <5>1, ElementOfSeq, Zenon DEF HostInv
        <5>3. QED BY <5>2 DEF Carte
      <4>3. QED BY <3>2, <3>4, <4>1, <4>2, Zenon
    <3>5. CASE /\ ~ (b > 0) /\ -b \in DOMAIN tC /\ cartes[-b].title = Null /\ n < cartes[-b].items
               /\ Onto[w] = <<-b, n, 1>>
      <4>1. PICK d : d = -b
        OBVIOUS
      <4>2. d \in DOMAIN tC /\ d \in 1 .. Len(cartes) /\ Onto[w] = <<d, n, 1>> /\ n < cartes[d].items
        BY <3>5, <4>1 DEF TermInv
      <4>3. cartes[d].items = Len(means[d])
        BY <4>2, Zenon DEF LaidInv
      <4>4. Entries(b) = cartes[d].items /\ Meant(b) = means[d]
        BY <3>5, <4>1, Zenon DEF Entries, Meant
      <4>5. LaidBy(At(d), cartes[d].bins, means[d])
        BY <4>2, AtLaid, Zenon
      <4>6. At(d)[0] = 0
        BY <4>5, Zenon DEF LaidBy
      <4>7. <<d, n, 1>> \in Points
        BY <4>2 DEF Points
      <4>8. 1 \in 1 .. Len(cartes[d].bins)
        <5>1. cartes[d].bins \in Seq(Bin(Len(items), d - 1)) /\ cartes[d].bins # <<>>
          BY <4>2 DEF HostInv
        <5>2. Len(cartes[d].bins) \in Nat \ {0}
          BY <5>1, EmptySeq
        <5>3. QED BY <5>2
      <4>9. At(d)[1 - 1] + n = n
        BY <4>6
      <4>10. <<d, n, 1>> \in Searching
        <5>1. At(d)[1 - 1] + n < Len(means[d])
          BY <4>2, <4>3, <4>9, Zenon
        <5>2. QED BY <4>7, <4>8, <5>1 DEF Searching
      <4>11. Sought[<<d, n, 1>>] = means[d][n + 1]
        <5>1. Sought[<<d, n, 1>>] = means[d][At(d)[1 - 1] + n + 1]
          BY <4>7 DEF Sought
        <5>2. QED BY <5>1, <4>9, Zenon
      <4>12. es[at[j - 1] + (n + 1)] = means[d][n + 1]
        <5>1. n + 1 \in 1 .. Entries(b)
          <6>1. n < Len(means[d]) /\ Len(means[d]) \in Nat
            <7>1. means[d] \in Seq(StoredItem)
              BY <4>2 DEF MeansInv
            <7>2. QED BY <7>1, <4>2, <4>3, LenProperties
          <6>2. QED BY <6>1, <4>3, <4>4
        <5>2. QED BY <5>1, <4>4, <2>5, Zenon
      <4>13. at[j - 1] + (n + 1) = at[j - 1] + n + 1
        BY <2>6
      <4>14. Sought[w] = means[d][n + 1]
        BY <2>3, <4>12, <4>13, Zenon
      <4>15. QED BY <4>2, <4>10, <4>11, <4>14, Zenon
    <3> HIDE DEF w, b
    <3>6. QED BY <3>1, <3>3, <3>4, <3>5, Zenon
  <2>12. QED BY <2>10, <2>11, Zenon
<1>4. ASSUME NEW w \in Searching
      PROVE  /\ w \in Ending => <<EndValue[w], Sought[w]>> \in Found
             /\ w \notin Ending => Onto[w] \in Searching /\ Sought[Onto[w]] = Sought[w]
  <2>1. w \in Points
    BY <1>1, Zenon
  <2>2. PICK c \in DOMAIN tC, n \in Nat, j \in Nat : w = <<c, n, j>>
    BY <1>2, <2>1, Zenon
  <2>3. <<c, n, j>> \in Searching
    BY <2>2, Zenon
  <2>4. QED BY <1>3, <2>2, <2>3, Zenon
<1>5. QED BY <1>1, <1>4, Zenon DEF Finds

LEMMA InvEntries == MInv => EntriesAreMeant
<1> SUFFICES ASSUME MInv PROVE EntriesAreMeant
  OBVIOUS
<1>1. HostInv /\ MeansInv /\ LaidInv /\ TermInv
  BY DEF MInv
<1>2. PICK rank, K : Walk(Points, Ending, Onto, rank) /\ K \in Nat /\ \A w \in Points : rank[w] < K
  BY <1>1, WalksDown, Zenon
<1>3. \E f : Ends(f, Points, Ending, EndValue, Onto)
  BY <1>2, WalksEnd, Zenon
<1> DEFINE f == CHOOSE f : IsEntry(f)
<1>4. Ends(f, Points, Ending, EndValue, Onto)
  BY <1>3, EntryIsWalk, Zenon
<1>5. \A w \in Searching : <<f[w], Sought[w]>> \in Found
  <2> HIDE DEF f
  <2>1. QED BY <1>1, <1>2, <1>4, SearchFinds, WalksFind, Zenon
<1>6. ASSUME NEW c \in DOMAIN tC
      PROVE  /\ tC[c].size = Len(means[c])
             /\ \A i \in 0 .. tC[c].size - 1 :
                  LET e == CarteEntry(c, i) IN
                  /\ e \in DOMAIN tI
                  /\ tI[e] = means[c][i + 1].text
                  /\ items[e] = means[c][i + 1]
  <2>1. c \in 1 .. Len(cartes) /\ tC[c].size = cartes[c].items
    BY <1>1 DEF TermInv
  <2>2. cartes[c].items = Len(means[c]) /\ LaidBy(At(c), cartes[c].bins, means[c])
    BY <1>1, <2>1, AtLaid, Zenon DEF LaidInv
  <2>3. Len(means[c]) \in Nat /\ 1 \in 1 .. Len(cartes[c].bins)
    <3>1. means[c] \in Seq(StoredItem)
      BY <1>1, <2>1 DEF MeansInv
    <3>2. cartes[c].bins \in Seq(Bin(Len(items), c - 1)) /\ cartes[c].bins # <<>>
      BY <1>1, <2>1 DEF HostInv
    <3>3. Len(cartes[c].bins) \in Nat \ {0}
      BY <3>2, EmptySeq
    <3>4. QED BY <3>1, <3>3, LenProperties
  <2>4. ASSUME NEW i \in 0 .. Len(means[c]) - 1
        PROVE  LET e == CarteEntry(c, i) IN
               /\ e \in DOMAIN tI
               /\ tI[e] = means[c][i + 1].text
               /\ items[e] = means[c][i + 1]
    <3> DEFINE w == <<c, i, 1>>
    <3>1. i \in Nat /\ ~ (i >= tC[c].size) /\ i < Len(means[c])
      BY <2>1, <2>2, <2>3
    <3>2. CarteEntry(c, i) = f[w]
      BY <3>1, CarteEntryIs, Zenon
    <3>3. w \in Points
      BY <3>1 DEF Points
    <3>4. At(c)[1 - 1] + i = i
      BY <2>2, <3>1 DEF LaidBy
    <3>5. w \in Searching
      <4>1. At(c)[1 - 1] + i < Len(means[c])
        BY <3>1, <3>4, Zenon
      <4>2. QED BY <2>3, <3>3, <4>1 DEF Searching
    <3>6. Sought[w] = means[c][i + 1]
      <4>1. Sought[w] = means[c][At(c)[1 - 1] + i + 1]
        BY <3>3 DEF Sought
      <4>2. QED BY <4>1, <3>4, Zenon
    <3> HIDE DEF f, w
    <3>7. PICK e \in DOMAIN tI : <<f[w], Sought[w]>> = <<e, items[e]>>
      BY <1>5, <3>5, Zenon DEF Found
    <3>8. f[w] = e /\ Sought[w] = items[e]
      BY <3>7
    <3>9. tI[e] = items[e].text
      BY <1>1, Zenon DEF TermInv
    <3>10. QED BY <3>2, <3>6, <3>7, <3>8, <3>9, Zenon
  <2>5. QED BY <2>1, <2>2, <2>4, Zenon
<1>7. QED BY <1>6, Zenon DEF EntriesAreMeant

\* Each entry that the terminal finds in a menu shows the text of the item
\* that the program put there, and sends the number of this item.
THEOREM EntriesMeant == Spec => []EntriesAreMeant
BY Inductive, InvEntries, PTL
=============================================================================
