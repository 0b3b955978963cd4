------------------------------ MODULE MCAccess -------------------------------
(* Access for TLC.                                                         *)
EXTENDS Access, TLC

MCTables == { << >>, ("a" :> "b") @@ ("b" :> "c") }

Absent == [name |-> "", padded |-> FALSE]

Plain(name) == [name |-> name, padded |-> FALSE]

Padded(name) == [name |-> name, padded |-> TRUE]

Body(model, Model, last) == [model |-> model, Model |-> Model, last |-> last]

MCBodies ==
    { Body(Padded("a"), Absent, "model"), Body(Absent, Plain("b"), "Model"),
      Body(Plain("b"), Plain("a"), "model"), Body(Plain("c"), Plain("a"), "Model"),
      Body(Plain("a"), Padded(""), "Model") }

Sent(xApiKey, authorization) ==
    ("X-Api-Key" :> xApiKey) @@ ("Authorization" :> authorization)
    @@ [n \in {"Connection", "Upgrade", "Accept"} |-> "text"]

(* One credential, two that differ, or none, with all other headers.       *)
MCHeaderSets ==
    { Sent(x, a) : x, a \in Keys \cup {NULL} } \ { Sent(k, k) : k \in Keys }

MCNominations == { {}, {"Authorization", "Accept"} }

MCSymmetry == Permutations(Keys)
=============================================================================
