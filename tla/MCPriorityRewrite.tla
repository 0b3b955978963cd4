------------------------- MODULE MCPriorityRewrite --------------------------
(* PriorityRewrite for TLC.                                                *)
EXTENDS PriorityRewrite

(* Every list of at most MaxId ids, repeats and unknown ids included.      *)
MCPayloads == UNION {[1..n -> Ids] : n \in 0..MaxId}
=============================================================================
