------------------------------ MODULE MCFrames ------------------------------
(* Instances of Frames: main, and two functions that call each other and     *)
(* themselves; which is which does not matter.                               *)
EXTENDS Frames

Callees == Permutations(Func \ {Main})
=============================================================================
