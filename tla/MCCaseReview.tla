---------------------------- MODULE MCCaseReview ----------------------------
\* Small instances of CaseReview.
EXTENDS CaseReview, TLC

MCPushes == {1, 2}
\* Reviewers act alike; pushes are ordered and are not permuted.
MCSymmetry == Permutations(Reviewers)
\* Bound: once Document is pressed again, one other transaction at a time.
Quieter == presses < 2 \/ Cardinality({t \in Txs \ {Run} : tx[t].step # "none"}) <= 1
=============================================================================
