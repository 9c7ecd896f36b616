------------------------------- MODULE MCExprs -------------------------------
(* The Exprs of one window: activation 0, of the function a called by main, *)
(* which has an integer and an array; main has an integer of each name too; *)
(* g and p are global.                                                      *)
EXTENDS Exprs

Integer == <<>>
MCSymbols == [a    |-> [i |-> [off |-> 0, type |-> Integer], v |-> [off |-> 1, type |-> <<"a">>]],
              main |-> [i |-> [off |-> 0, type |-> Integer]],
              b    |-> [i |-> [off |-> 0, type |-> Integer]],
              glb  |-> [g |-> [off |-> 5, type |-> Integer], p |-> [off |-> 6, type |-> <<"p">>]]]
MCFunc    == (0 :> "a") @@ (1 :> "main") @@ (2 :> "b")
MCFp      == (0 :> 1) @@ (1 :> 4) @@ (2 :> 0)
MCMem0    == (1 :> 1) @@ (2 :> 3) @@ (3 :> 2) @@ (4 :> 5) @@ (5 :> 0) @@ (6 :> 1)
MCStores  == {<<1, 2>>, <<6, 0>>}
MCTyped   == {Id("v"), Id("p"), Env(Id("i"), "main"), Bin(Id("i"), ",", Un("-", Id("i")))}
MCDerived == {Un("-", Cur), Un("*", Cur), Un("&", Cur), Bin(Num(1), "+", Cur),
              Bin(Cur, "[]", Id("i")), Bin(Id("i"), ":=", Bin(Cur, "+", Cur)),
              Bin(Cur, "&&", Env(Id("i"), "b")), Bin(Cur, ",", Num(7))}
==============================================================================
