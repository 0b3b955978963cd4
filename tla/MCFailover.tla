----------------------------- MODULE MCFailover -----------------------------
(* Failover for TLC: small payloads for reorder, and symmetry of requests. *)
EXTENDS Failover, TLC

(* Every list of at most MaxId ids, repeats and unknown ids included.      *)
MCPayloads == UNION {[1..n -> Ids] : n \in 0..MaxId}

MCSymmetry == Permutations(Handlers)
=============================================================================
