------------------------------- MODULE Menus -------------------------------
(***************************************************************************)
(* The menus of the Pads library (pads/host/cache.c, menu.c) and their     *)
(* copies in the terminal (pads/term/cache.c, buttons.c).                  *)
(*                                                                         *)
(* The program puts items (a text, and the member function and operand to  *)
(* call when it is picked) and other menus into a Menu.  ItemCache and     *)
(* CarteCache number what they see for the first time and send it; what    *)
(* they find again gets its old number.  Lines and windows carry numbers   *)
(* only: the terminal makes the entries out of its own tables, and answers *)
(* a pick with the number of an item.                                      *)
(*                                                                         *)
(* A menu without a title that is put into another one is spread there,    *)
(* one with a title becomes an entry of its own that opens it.  Numeric    *)
(* menus are left out: CarteCache::numeric writes through a pointer it     *)
(* never set.                                                              *)
(***************************************************************************)
EXTENDS Integers, SequencesExt, FiniteSetsExt

CONSTANTS
  Text,       \* texts of items: numbers, in strcmp's order
  Cut,        \* Cut[t]: the first 64 characters of t
  Item,       \* items the program uses, [text, action, opand]
  Titles,     \* those it uses as titles
  InitialSize,\* entries of a new cache (2048)
  MaxItems,   \* bound: items
  MaxCartes,  \* bound: menus
  MaxSize,    \* bound: entries put into one menu
  MaxSend     \* bound: messages on their way at which the program waits

ASSUME MenusAssumption ==
  /\ Text \subseteq Int /\ Cut \in [Text -> Text]
  /\ \A t \in Text : Cut[Cut[t]] = Cut[t]
  /\ \A i \in Item : i = [text |-> i.text, action |-> i.action, opand |-> i.opand] /\ i.text \in Text
  /\ Titles \subseteq Item
  /\ \A n \in {InitialSize, MaxItems, MaxCartes, MaxSize, MaxSend} : n \in Nat \ {0}

VARIABLES
  items,    \* ICache: the Items by number, texts cut
  iSIZE,    \* ICache->SIZE
  cartes,   \* CCache: the Cartes by number, [title, bins, items]
  cSIZE,    \* CCache->SIZE
  list,     \* the Menu the program fills
  toTerm,   \* messages to the terminal
  tI, tISIZE,  \* ICache and I_SIZE of the terminal
  tC, tCSIZE,  \* CCache and C_SIZE of the terminal
  tCarte,   \* Pad.carte of the window in the terminal
  failed,   \* an assert of the terminal failed
  listMeans,\* history: the entries each element of list stands for
  means,    \* history: the entries each menu was made of
  made      \* history: the Menu just finished, and the number it got

host == <<items, iSIZE, cartes, cSIZE, list, listMeans, means, made>>
term == <<tI, tISIZE, tC, tCSIZE, tCarte, failed>>
vars == <<host, toTerm, term>>

\* An Index: an item, the number of a menu with the CARTE bit (here: below
\* zero), or null.
CARTE(c) == -c
Null == 0

Unmade == [index |-> Null, title |-> <<>>, entries |-> <<>>]

Stored(i) == [i EXCEPT !.text = Cut[@]]

Init ==
  /\ items = <<>> /\ iSIZE = InitialSize
  /\ cartes = <<>> /\ cSIZE = InitialSize
  /\ list = <<>>
  /\ toTerm = << [op |-> "I_DEFINE", size |-> InitialSize],
                 [op |-> "C_DEFINE", size |-> InitialSize] >>
  /\ tI = <<>> /\ tISIZE = 0 /\ tC = <<>> /\ tCSIZE = 0
  /\ tCarte = Null /\ failed = FALSE
  /\ listMeans = <<>> /\ means = <<>> /\ made = Unmade

-----------------------------------------------------------------------------
(* The host. *)

\* ItemCache::compare is zero: the text as given against the stored one.
Equal_IgnoresOpand(i, k) == items[k].text = i.text /\ items[k].action = i.action

Equal(i, k) ==
  items[k].text = i.text /\ items[k].action = i.action /\ items[k].opand = i.opand

\* Where place may put i.  The search goes down a binary tree; at an item of
\* the same text and another action it goes either way, as the difference of
\* two unrelated pointers has it, and may miss an equal item.
ItemNumbers(i) ==
  LET same == { k \in DOMAIN items : Equal(i, k) }
      mayMiss == \E k \in DOMAIN items : items[k].text = i.text /\ items[k].action # i.action
  IN  same \cup (IF same = {} \/ mayMiss THEN {Len(items) + 1} ELSE {})

\* A cache that is full doubles first.
Grown_Late(n, size) == IF n > size THEN 2 * size ELSE size

Grown(n, size) == IF n >= size THEN 2 * size ELSE size

Define(what, n, size) ==
  IF Grown(n, size) = size THEN <<>> ELSE << [op |-> what, size |-> Grown(n, size)] >>

\* What ItemCache::place of i as number k does, and what it sends.
Entered(i, k) ==
  /\ items' = IF k \in DOMAIN items THEN items ELSE Append(items, Stored(i))
  /\ iSIZE' = IF k \in DOMAIN items THEN iSIZE ELSE Grown(k, iSIZE)

Sent(i, k) ==
  IF k \in DOMAIN items THEN <<>>
  ELSE Define("I_DEFINE", k, iSIZE) \o << [op |-> "I_CACHE", index |-> k, text |-> Cut[i.text]] >>

ItemPlace(i, k) == Entered(i, k) /\ toTerm' = toTerm \o Sent(i, k)

\* Menu::sort: before the first item with a greater text; none twice.
SortedAt(i) ==
  LET after == { p \in DOMAIN list : Cut[i.text] < items[list[p]].text }
  IN  Min({Len(list) + 1} \cup after)

Busy == Len(toTerm) >= MaxSend

\* Menu::first, last and sort of an item.
Put(i) ==
  /\ ~Busy /\ Len(list) < MaxSize /\ Len(items) < MaxItems
  /\ \E k \in ItemNumbers(i) :
       /\ ItemPlace(i, k)
       /\ \E p \in {1, Len(list) + 1} :
            list' = InsertAt(list, p, k) /\ listMeans' = InsertAt(listMeans, p, <<Stored(i)>>)
  /\ made' = Unmade
  /\ UNCHANGED <<cartes, cSIZE, means, term>>

Sort(i) ==
  /\ ~Busy /\ Len(list) < MaxSize /\ Len(items) < MaxItems
  /\ \A b \in Range(list) : b > 0
  /\ \E k \in ItemNumbers(i) :
       /\ ItemPlace(i, k)
       /\ IF \E p \in 1..SortedAt(i) - 1 : items[list[p]].text = Cut[i.text]
          THEN UNCHANGED <<list, listMeans>>
          ELSE /\ list' = InsertAt(list, SortedAt(i), k)
               /\ listMeans' = InsertAt(listMeans, SortedAt(i), <<Stored(i)>>)
  /\ made' = Unmade
  /\ UNCHANGED <<cartes, cSIZE, means, term>>

\* Menu::last of a menu.
PutCarte(c) ==
  /\ Len(list) < MaxSize
  /\ list' = Append(list, CARTE(c))
  /\ listMeans' = Append(listMeans,
                         IF cartes[c].title = Null THEN means[c] ELSE <<items[cartes[c].title]>>)
  /\ made' = Unmade
  /\ UNCHANGED <<items, iSIZE, cartes, cSIZE, means, toTerm, term>>

\* CarteCache::compare is zero, but for the items that make up the size.
SameCarte_NoTitle(c, title, bins) == cartes[c].bins = bins

SameCarte(c, title, bins) == cartes[c].title = title /\ cartes[c].bins = bins

\* CarteCache::cartelimits: the entries a bin comes to, and a menu.
Entries(b) == IF b > 0 \/ cartes[-b].title # Null THEN 1 ELSE cartes[-b].items

cartelimits(bins) ==
  LET n[j \in 0 .. Len(bins)] == IF j = 0 THEN 0 ELSE n[j - 1] + Entries(bins[j])
  IN  n[Len(bins)]

\* CarteCache::place of the list, under a title, after messages m.
CartePlace(title, m) ==
  LET same == { c \in DOMAIN cartes : SameCarte(c, title, list) }
      c == IF same # {} THEN Min(same) ELSE Len(cartes) + 1
      n == cartelimits(list)
  IN  /\ made' = [index |-> c,
                  title |-> IF title = Null THEN <<>> ELSE <<items'[title]>>,
                  entries |-> FlattenSeq(listMeans)]
      /\ IF same # {} THEN toTerm' = m /\ UNCHANGED <<cartes, cSIZE, means>>
         ELSE /\ cartes' = Append(cartes, [title |-> title, bins |-> list, items |-> n])
              /\ cSIZE' = Grown(c, cSIZE)
              /\ toTerm' = m \o Define("C_DEFINE", c, cSIZE)
                             \o << [op |-> "C_CACHE", index |-> c, title |-> title,
                                    bins |-> list, items |-> n] >>
              /\ means' = Append(means, FlattenSeq(listMeans))
      /\ list' = <<>> /\ listMeans' = <<>>
      /\ UNCHANGED term

\* Menu::index without a title, and with one.
Index ==
  /\ ~Busy /\ list # <<>> /\ Len(cartes) < MaxCartes
  /\ CartePlace(Null, toTerm)
  /\ UNCHANGED <<items, iSIZE>>

IndexTitled(i) ==
  /\ ~Busy /\ list # <<>> /\ Len(cartes) < MaxCartes /\ Len(items) < MaxItems
  /\ \E k \in ItemNumbers(i) : Entered(i, k) /\ CartePlace(k, toTerm \o Sent(i, k))

\* Pad::menu of a menu made now or long ago.
menu(c) ==
  /\ ~Busy
  /\ toTerm' = Append(toTerm, [op |-> "CARTE", index |-> CARTE(c)])
  /\ UNCHANGED <<host, term>>

-----------------------------------------------------------------------------
(* The terminal. *)

\* CacheOp and P_Carte.  An index out of a table's range would be written
\* behind it; a slot already taken fails an assert.
Fits(n, table, size) == n < size /\ n \notin DOMAIN table

Filled(n, table, e) == [k \in DOMAIN table \cup {n} |-> IF k = n THEN e ELSE table[k]]

TermReceive ==
  /\ toTerm # <<>> /\ ~failed
  /\ toTerm' = Tail(toTerm)
  /\ LET m == Head(toTerm) IN
     \/ /\ m.op = "I_DEFINE"
        /\ tISIZE' = m.size
        /\ UNCHANGED <<tI, tC, tCSIZE, tCarte, failed>>
     \/ /\ m.op = "C_DEFINE"
        /\ tCSIZE' = m.size
        /\ UNCHANGED <<tI, tISIZE, tC, tCarte, failed>>
     \/ /\ m.op = "I_CACHE"
        /\ failed' = ~Fits(m.index, tI, tISIZE)
        /\ tI' = Filled(m.index, tI, m.text)
        /\ UNCHANGED <<tISIZE, tC, tCSIZE, tCarte>>
     \/ /\ m.op = "C_CACHE"
        /\ failed' = ~Fits(m.index, tC, tCSIZE)
        /\ tC' = Filled(m.index, tC, [title |-> m.title, bins |-> m.bins, size |-> m.items])
        /\ UNCHANGED <<tI, tISIZE, tCSIZE, tCarte>>
     \/ /\ m.op = "CARTE"
        /\ tCarte' = m.index
        /\ UNCHANGED <<tI, tISIZE, tC, tCSIZE, failed>>
  /\ UNCHANGED host

\* CarteEntry: what entry i of menu c would send.  The walk is in menu w[1], at
\* bin w[3], with w[2] entries to go; it ends with Null where an assert fails
\* or the bins are left.
CarteEntry(c, i) ==
  LET entry[w \in (DOMAIN tC) \X Nat \X Nat] ==
        LET bins == tC[w[1]].bins
            b == bins[w[3]]
            n == w[2]
            past(k) == entry[<<w[1], n - k, w[3] + 1>>]
        IN IF w[3] \notin 1 .. Len(bins) THEN Null
           ELSE IF b > 0 THEN (IF n = 0 THEN b ELSE past(1))
           ELSE IF -b \notin DOMAIN tC THEN Null
           ELSE IF tC[-b].title # Null THEN (IF n = 0 THEN tC[-b].title ELSE past(1))
           ELSE IF n < tC[-b].size THEN entry[<<-b, n, 1>>]
           ELSE past(tC[-b].size)
  IN IF i >= tC[c].size THEN Null ELSE entry[<<c, i, 1>>]

Next ==
  \/ \E i \in Item : Put(i) \/ Sort(i)
  \/ \E i \in Titles : IndexTitled(i)
  \/ Index
  \/ \E c \in DOMAIN cartes : PutCarte(c) \/ menu(c)
  \/ TermReceive

Spec == Init /\ [][Next]_vars

-----------------------------------------------------------------------------
\* The menu a program gets a number for has the title and the entries it put
\* in, also when the caches found it, or parts of it, made earlier.
MadeIsMeant ==
  made # Unmade =>
    LET c == cartes[made.index] IN
    /\ means[made.index] = made.entries
    /\ (c.title = Null) = (made.title = <<>>)
    /\ c.title # Null => items[c.title] = made.title[1]

\* Every entry the terminal makes of a menu shows the text, and sends the
\* number of the item (its function and its operand), that the program put
\* at this place; and there are as many.
EntriesAreMeant ==
  \A c \in DOMAIN tC :
    /\ tC[c].size = Len(means[c])
    /\ \A i \in 0..tC[c].size - 1 :
         LET e == CarteEntry(c, i) IN
         /\ e \in DOMAIN tI
         /\ tI[e] = means[c][i + 1].text
         /\ items[e] = means[c][i + 1]

\* The variables hold values of their types, no assert of the terminal fails,
\* and every menu and text a window or a menu of the terminal names has come
\* before.
Defined ==
  /\ items \in Seq([text : Range(Cut), action : { i.action : i \in Item },
                    opand : { i.opand : i \in Item }])
  /\ iSIZE \in Nat /\ cSIZE \in Nat
  /\ \A c \in Range(cartes) :
       /\ c.title \in {Null} \cup DOMAIN items
       /\ \A b \in Range(c.bins) : b \in DOMAIN items \/ -b \in DOMAIN cartes
       /\ c.items \in Nat
  /\ \A b \in Range(list) : b \in DOMAIN items \/ -b \in DOMAIN cartes
  /\ DOMAIN tI \subseteq DOMAIN items /\ DOMAIN tC \subseteq DOMAIN cartes
  /\ tISIZE \in Nat /\ tCSIZE \in Nat
  /\ tCarte \in {Null} \cup { CARTE(c) : c \in DOMAIN cartes }
  /\ ~failed
  /\ Len(listMeans) = Len(list) /\ Len(means) = Len(cartes)
  /\ tCarte # Null => -tCarte \in DOMAIN tC
  /\ \A c \in DOMAIN tC :
       /\ tC[c].title # Null => tC[c].title \in DOMAIN tI
       /\ \A b \in Range(tC[c].bins) : b \in DOMAIN tI \/ -b \in DOMAIN tC
=============================================================================
