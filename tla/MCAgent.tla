------------------------------ MODULE MCAgent ------------------------------
(* A channel of one or two places, one or two workers, few samples. *)
EXTENDS Agent, TLC

OneEach == [p \in {"poll", "system"} |-> 1]
TwoPolls == [p \in {"poll", "system"} |-> IF p = "poll" THEN 2 ELSE 1]

Symmetry == Permutations(Workers)
=============================================================================
