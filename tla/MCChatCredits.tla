---------------------------- MODULE MCChatCredits ----------------------------
(* Two sends and two extractions, a budget of one request a day, two plans of *)
(* one and two credits.                                                       *)
EXTENDS ChatCredits, TLC

CONSTANTS s1, s2, x1, x2

MCPlans  == {"gratuito", "equipo"}
MCLimit  == ("gratuito" :> 1) @@ ("equipo" :> 2)
\* Sends act alike, and so do extractions.
Symmetry == Permutations({s1, s2}) \cup Permutations({x1, x2})
=============================================================================
