--------------------------- MODULE MCRepairCycle ---------------------------
(* One repair cycle with two aliases, ids and patches. *)
EXTENDS RepairCycle, TLC

Symmetry == Permutations(Ids) \cup Permutations(Patches) \cup Permutations(Aliases)

=============================================================================
