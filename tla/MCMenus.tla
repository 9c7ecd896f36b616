------------------------------ MODULE MCMenus ------------------------------
(* Instances of Menus: two functions that go by the same text, two operands   *)
(* of one function, and two long texts (4 and 5) with one beginning (3).      *)
EXTENDS Menus

MCText == 1..5
MCCut == [t \in MCText |-> IF t > 3 THEN 3 ELSE t]
It(t, a, o) == [text |-> t, action |-> a, opand |-> o]
MCItem == { It(1, "f", 0), It(1, "g", 0), It(1, "f", 1), It(4, "f", 0) }
MCTitles == { It(1, "f", 0) }
=============================================================================
