----------------------------- MODULE MCSessions -----------------------------
(* One user with two devices; calls are interchangeable.                   *)
EXTENDS Sessions, TLC

Symmetry == Permutations(Calls)
=============================================================================
