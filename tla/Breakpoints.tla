---------------------------- MODULE Breakpoints ----------------------------
(***************************************************************************)
(* What a breakpoint list promises, said without traps, saved bytes or a   *)
(* laid flag.  `bps' is the set of addresses that carry a breakpoint and   *)
(* `planted' the set of addresses where the subject would find a breakpoint*)
(* instruction if it ran now.                                              *)
(*                                                                         *)
(* The promise is all or nothing: the subject runs either its own text or  *)
(* its text with every breakpoint in place, and a breakpoint instruction   *)
(* is never left behind by a breakpoint that is gone.                      *)
(***************************************************************************)
CONSTANT Addr

VARIABLES bps, planted

AllOrNothing == planted \in {{}, bps}

Init == bps = {} /\ planted = {}

\* One breakpoint is added; it takes effect at once if the others have.
Add == \E a \in Addr \ bps :
         /\ bps' = bps \cup {a}
         /\ planted' \in {planted, planted \cup {a}}
         /\ AllOrNothing'

\* Breakpoints are dropped, and with them their instructions.
Drop == /\ bps' \in SUBSET bps
        /\ planted' = planted \cap bps'

\* The breakpoints are planted or all removed, those out of reach dropped.
Plant == /\ bps' \in SUBSET bps
         /\ planted' = bps'

Remove == /\ bps' \in SUBSET bps
          /\ planted' = {}

Next == Add \/ Drop \/ Plant \/ Remove

Spec == Init /\ [][Next]_<<bps, planted>>
=============================================================================
