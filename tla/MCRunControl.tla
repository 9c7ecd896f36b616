---------------------------- MODULE MCRunControl ----------------------------
(* Instances of RunControl: a subject that loops over two instructions, the *)
(* second of which may carry a breakpoint with a condition.                 *)
EXTENDS RunControl

MCAddr == 1..2
MCLo   == [a \in MCAddr |-> a]
MCByte == {"int3", "a1", "a2"}
MCSucc == [a \in MCAddr |-> 3 - a]
MCCode == [a \in MCAddr |-> <<"a1", "a2">>[a]]
MCConditional == {2}
MCNone == {}
=============================================================================
