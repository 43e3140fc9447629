--------------------------- MODULE MCNodeChannel ---------------------------
(* The node channel with two nodes; each escalation has a file of its own. *)
EXTENDS NodeChannel, TLC

CONSTANTS n1, n2, e1, e2

MCNodeOf == [e \in Escalations |-> IF e = e1 THEN n1 ELSE n2]
MCFileOf == [e \in Escalations |-> e]

MCMaxTries == [e \in Escalations |-> IF e = e1 THEN 2 ELSE 1]

Symmetry == Permutations(Threads)

=============================================================================
