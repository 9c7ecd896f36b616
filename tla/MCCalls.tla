------------------------------ MODULE MCCalls ------------------------------
(* Instances of Calls: a function that may call itself, in the statement     *)
(* that also returns, or return at once.                                     *)
EXTENDS Calls

\* 1 enter  2 branch  3 call 1  4 go on or call again  5 leave  6 ret
\* 9 the start code main returns to   20, 21 the scratch address and behind
MCAddr == 1..6 \cup {9, 20, 21}
MCKind == [a \in MCAddr |->
             CASE a = 1 -> "enter" [] a = 3 -> "call" [] a = 5 -> "leave"
               [] a = 6 -> "ret" [] a > 6 -> "exit" [] OTHER -> "plain"]
MCSucc == [a \in MCAddr |-> CASE a = 2 -> {3, 5} [] a = 4 -> {3, 5} [] OTHER -> {}]
\* 100 is mapped and holds data, 200 is not mapped
MCStmts == {<<1, 2>>, <<2, 3>>, <<3, 7>>}
MCStack0 == << [ret |-> 9, entered |-> FALSE] >>
MCData == {100}
MCWords == {100, 200, 1, 4}
=============================================================================
