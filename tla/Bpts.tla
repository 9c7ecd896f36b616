-------------------------------- MODULE Bpts --------------------------------
(***************************************************************************)
(* The breakpoint list of one process (class Bpts, pi.linux/bpts.c) and    *)
(* the text of the subject it edits.                                       *)
(*                                                                         *)
(* A Trap names a statement; laying it saves the byte at the statement's   *)
(* first address and writes TRAPINST there, lifting it writes the saved    *)
(* byte back.  Dead traps (stmt = 0) stay on the C++ list but no operation *)
(* looks at them, so `trap' is the set of the statements of live traps.    *)
(*                                                                         *)
(* Each action takes `ok', the addresses at which ptrace succeeds while    *)
(* the operation runs.  An operation that fails forgets the trap it was    *)
(* working on (Trap::liftorlay sets stmt = 0) and goes on with the others. *)
(***************************************************************************)
CONSTANTS
  Stmt,        \* statements: source lines and assembler lines alike
  Addr,        \* addresses of instructions
  Byte,        \* first bytes of instructions
  TRAPINST,    \* the byte of the breakpoint instruction (INT 3)
  Lo           \* Lo[s] is s->range.lo

ASSUME LoAssumption   == Lo \in [Stmt -> Addr]
ASSUME TrapAssumption == TRAPINST \in Byte

VARIABLES
  trap,        \* statements of the live traps
  saved,       \* saved[s]: Trap::saved of the trap of s
  layed,       \* Bpts::layed
  text         \* the subject's memory at Addr

bptsVars == <<trap, saved, layed>>

BptsTypeOK ==
  /\ trap \subseteq Stmt
  /\ saved \in [Stmt -> Byte]
  /\ layed \in BOOLEAN
  /\ text \in [Addr -> Byte]

Locs(S) == { Lo[s] : s \in S }

\* Bpts::istrap: the live traps at the address of s (never more than one).
istrap(s) == { t \in trap : Lo[t] = Lo[s] }

-----------------------------------------------------------------------------
\* HostCore::laybpt on each trap of S: read the byte, then write TRAPINST.
\* The read comes first, so an inaccessible address changes nothing.
laybpts_OnlyThese(S) ==
  /\ saved' = [s \in S |-> text[Lo[s]]]
  /\ text' = [a \in Addr |-> IF a \in Locs(S) THEN TRAPINST ELSE text[a]]

laybpts(S) ==
  /\ saved' = [s \in Stmt |-> IF s \in S THEN text[Lo[s]] ELSE saved[s]]
  /\ text' = [a \in Addr |-> IF a \in Locs(S) THEN TRAPINST ELSE text[a]]

\* HostCore::liftbpt on each trap of S.
liftbpts(S) ==
  /\ text' = [a \in Addr |-> IF \E s \in S : Lo[s] = a
                             THEN saved[CHOOSE s \in S : Lo[s] = a]
                             ELSE text[a]]
  /\ UNCHANGED saved

\* Those of S whose address ptrace can reach.
Reached(S, ok) == { s \in S : Lo[s] \in ok }

\* Bpts::set.  A second statement at the address of a live trap makes no
\* new trap; a trap set while the others are laid is laid at once.
set_KeepsStaleTrap(s, ok) ==
  /\ trap' = trap \cup {s}
  /\ IF layed /\ istrap(s) = {} THEN laybpts({s}) ELSE UNCHANGED <<saved, text>>
  /\ UNCHANGED layed

set(s, ok) ==
  \/ /\ istrap(s) # {}
     /\ UNCHANGED <<trap, saved, layed, text>>
  \/ /\ istrap(s) = {}
     /\ ~layed
     /\ trap' = trap \cup {s}
     /\ UNCHANGED <<saved, layed, text>>
  \/ /\ istrap(s) = {}
     /\ layed
     /\ trap' = trap \cup Reached({s}, ok)
     /\ laybpts(Reached({s}, ok))
     /\ UNCHANGED layed

\* Bpts::clr.  The trap found by address is forgotten, lifted first if laid.
\* `errored': liftbpt returns at once for a process known to be gone.
clr_NoLift(s, ok, errored) ==
  /\ trap' = trap \ istrap(s)
  /\ UNCHANGED <<saved, layed, text>>

clr(s, ok, errored) ==
  /\ trap' = trap \ istrap(s)
  /\ IF layed /\ ~errored THEN liftbpts(Reached(istrap(s), ok))
                          ELSE UNCHANGED <<saved, text>>
  /\ UNCHANGED layed

\* Bpts::clearall: clr of every live trap, then the whole list is dropped.
clearall(ok, errored) ==
  /\ trap' = {}
  /\ IF layed /\ ~errored THEN liftbpts(Reached(trap, ok))
                          ELSE UNCHANGED <<saved, text>>
  /\ UNCHANGED layed

\* Bpts::lay of a process without a slave.
lay_Twice(ok) ==
  /\ trap' = Reached(trap, ok)
  /\ laybpts(Reached(trap, ok))
  /\ layed' = TRUE

lay(ok) ==
  \/ /\ layed
     /\ UNCHANGED <<trap, saved, layed, text>>
  \/ /\ ~layed
     /\ trap' = Reached(trap, ok)
     /\ laybpts(Reached(trap, ok))
     /\ layed' = TRUE

\* Bpts::lift of a process without a slave.
lift(ok, errored) ==
  \/ /\ ~layed
     /\ UNCHANGED <<trap, saved, layed, text>>
  \/ /\ layed
     /\ errored
     /\ layed' = FALSE
     /\ UNCHANGED <<trap, saved, text>>
  \/ /\ layed
     /\ ~errored
     /\ trap' = Reached(trap, ok)
     /\ liftbpts(Reached(trap, ok))
     /\ layed' = FALSE
=============================================================================
