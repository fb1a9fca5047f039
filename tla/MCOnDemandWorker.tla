-------------------------- MODULE MCOnDemandWorker --------------------------
(* Symmetry sets of OnDemandWorker, for the runs that check no liveness.    *)
EXTENDS OnDemandWorker, TLC

Symmetry == Permutations(Workers)
============================================================================
