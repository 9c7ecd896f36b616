--------------------------- MODULE MCBptsSession ---------------------------
(* Instances of BptsSession: three statements, two of them at the same     *)
(* address (a source line and the assembler line of its first instruction) *)
(* and one at an address that one of the images does not have.             *)
EXTENDS BptsSession, Naturals

MCStmt == {"src1", "asm1", "src2", "src3"}
MCAddr == 1..3
MCLo   == [s \in MCStmt |-> CASE s = "src1" -> 1 [] s = "asm1" -> 1
                              [] s = "src2" -> 2 [] s = "src3" -> 3]
MCByte == {"int3"} \cup {"a1", "a2", "a3", "b1", "b2", "b3"}
MCImage == {"A", "B"}
MCCode == [i \in MCImage |-> [a \in MCAddr |->
            IF i = "A" THEN <<"a1", "a2", "a3">>[a] ELSE <<"b1", "b2", "b3">>[a]]]
MCMapped == [i \in MCImage |-> IF i = "A" THEN {1, 2} ELSE {1, 2, 3}]
MCAllMapped == [i \in MCImage |-> MCAddr]
=============================================================================
