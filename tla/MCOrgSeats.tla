----------------------------- MODULE MCOrgSeats -----------------------------
(***************************************************************************)
(* OrgSeats with a founder and two more users, for TLC.                    *)
(***************************************************************************)
EXTENDS OrgSeats, TLC

CONSTANTS o, a, b, r1, r2

MCUsers    == {o, a, b}
MCRequests == {r1, r2}

\* The plans of the code are 3, 10 and 25 members: a plan three users exceed
\* and one they just fit.
SmallLimits == [gratuito |-> 2, equipo |-> 3]
\* The free plan as it is.
FreeLimit == [gratuito |-> 3]

\* The free plan's one project, beside a plan without a limit as empresa is.
SmallProjects == [gratuito |-> 1, equipo |-> None]
FreeProjects  == [gratuito |-> 1]

\* Nothing tells the invited users or the requests apart.
Symmetry == Permutations({a, b}) \cup Permutations(MCRequests)
=============================================================================
