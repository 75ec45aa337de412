----------------------------- MODULE MCSessions -----------------------------
(* Small instances of Sessions for TLC. *)
EXTENDS Sessions, TLC

CONSTANTS t1, t2, b1

\* Two tabs that share one cookie jar.
OneBrowser == [t \in {t1, t2} |-> b1]
Symmetry   == Permutations({t1, t2})
=============================================================================
