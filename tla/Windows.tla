------------------------------ MODULE Windows ------------------------------
(***************************************************************************)
(* What the calls of class Pad promise the program that makes them, said   *)
(* without messages: a function `s' gives for each object the window that  *)
(* is bound to it, and a window has the lines that were inserted and not   *)
(* removed.  A call has its effect at once, on the one window it is about, *)
(* and none on a window that is not there.                                 *)
(***************************************************************************)
EXTENDS Naturals

\* No window: the program has not opened it, or the user has closed it.
Closed == [open |-> FALSE, max |-> 0, lines |-> <<>>]

Opened(s, o, n) == [s EXCEPT ![o] = [open |-> TRUE, max |-> n, lines |-> <<>>]]

Gone(s, o) == [s EXCEPT ![o] = Closed]

\* The lines K show c; keys beyond the last line of a window do not.
Inserted(s, o, K, c) ==
  LET in == {k \in K : s[o].open /\ (s[o].max = 0 \/ k <= s[o].max)}
  IN [s EXCEPT ![o].lines = [k \in in \cup DOMAIN @ |-> IF k \in in THEN c ELSE @[k]]]

\* Lines are removed, cut, or left to be requested again.
Vanished(s, o, K) == [s EXCEPT ![o].lines = [k \in DOMAIN @ \ K |-> @[k]]]

\* A window that gets fewer lines loses those it has.
Resized(s, o, n) ==
  IF ~s[o].open THEN s
  ELSE [s EXCEPT ![o].max = n,
                 ![o].lines = IF n < s[o].max THEN <<>> ELSE @]

\* Lines from k on move to make room.
Spread(s, o, k, gap) ==
  LET moved(j) == IF j >= k THEN j + gap ELSE j
  IN [s EXCEPT ![o].lines =
        [i \in {moved(j) : j \in DOMAIN @} |-> @[CHOOSE j \in DOMAIN @ : moved(j) = i]]]
=============================================================================
