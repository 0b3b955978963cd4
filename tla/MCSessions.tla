----------------------------- MODULE MCSessions -----------------------------
(* Sessions for TLC.                                                       *)
EXTENDS Sessions, TLC

MCSymmetry == Permutations(Handlers) \cup Permutations(Keys)
=============================================================================
