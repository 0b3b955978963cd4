---------------------------- MODULE MCAdminKeys -----------------------------
(* AdminKeys for TLC.                                                      *)
EXTENDS AdminKeys, TLC

MCSymmetry == Permutations(Handlers) \cup Permutations(Aliases) \cup Permutations(Secrets)
=============================================================================
