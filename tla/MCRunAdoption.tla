---------------------------- MODULE MCRunAdoption ----------------------------
(* Two queued reports of two runs, and a request for the run of the first.    *)
EXTENDS RunAdoption, TLC

CONSTANTS j1, j2, s1

MCReports  == {j1, j2, s1}
MCRunOf    == (j1 :> "r1") @@ (s1 :> "r1") @@ (j2 :> "r2")
MCAttempts == (j1 :> 3) @@ (s1 :> 1) @@ (j2 :> 3)
MCKeys     == {"x", "A::x", "B::x", "y"}
MCBare     == [k \in MCKeys |-> IF k = "y" THEN "y" ELSE "x"]
MCOldCases == {<<>>, <<[key |-> "x", name |-> "x", version |-> 0]>>}
MCContents == {<<"A::x", "y">>, <<"y", "B::x">>, <<"A::x", "B::x">>}

\* Bound: the old case is that of either class for a report, of neither for one
\* with both; two reports draft the same test, in the other order.
Classes == tests = (j1 :> <<"A::x", "y">>) @@ (j2 :> <<"y", "B::x">>) @@ (s1 :> <<"A::x", "B::x">>)
MCInit  == Init /\ Classes
MCSpec  == MCInit /\ [][Next]_vars /\ Fairness
=============================================================================
