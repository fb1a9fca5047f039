---------------------------- MODULE MCManualRuns ----------------------------
(* Either a push of two files, or a manual run of two cases, of which one     *)
(* passed before, with two requests at once.                                  *)
EXTENDS ManualRuns

CONSTANTS q1, q2

MCCases    == {"a", "b"}
MCRequests == {q1, q2}
MCRunJobs  == MCRequests \X {"end", "regression"}
MCEndJob     == [q \in MCRequests |-> <<q, "end">>]
MCRegressJob == [q \in MCRequests |-> <<q, "regression">>]
MCPlainKeys  == {"run_failed", "run_completed"} \cup MCCases

\* Bound: a behaviour has the push or the manual run as its source.
OneSource == (\A j \in PushJobs : job[j] = "absent") \/ (\A q \in Requests : req[q].step = "absent")
MCInit    == Init /\ OneSource
MCSpec    == MCInit /\ [][Next]_vars /\ Fairness
=============================================================================
