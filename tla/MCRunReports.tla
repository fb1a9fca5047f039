---------------------------- MODULE MCRunReports ----------------------------
(* A report of three groups in two chunks: a passing and a rejected group    *)
(* in the second, whose size the first chunk understates, and a retry.       *)
EXTENDS RunReports, TLC

CONSTANTS a, b, c, d1, d2, d3

MCGroups     == {a, b, c}
MCVerdict    == a :> "pass" @@ b :> "rejected" @@ c :> "fail"
MCDeliveries == {d1, d2, d3}
MCChunk      == d1 :> {a} @@ d2 :> {b, c} @@ d3 :> {b, c}
MCReportSize == d1 :> 2 @@ d2 :> 3 @@ d3 :> 3
=============================================================================
