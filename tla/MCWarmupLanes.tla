--------------------------- MODULE MCWarmupLanes ---------------------------
(* Warmup containment with interchangeable overlapping sweeps. *)
EXTENDS WarmupLanes, TLC

Symmetry == Permutations(Evaluators)
=============================================================================
