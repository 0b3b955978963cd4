--------------------------- MODULE MCConfigUpdate ---------------------------
(* ConfigUpdate for TLC: lists that are accepted, and one of each fault.   *)
EXTENDS ConfigUpdate, TLC

Plain(name) == [name |-> name, padded |-> FALSE]

Padded(name) == [name |-> name, padded |-> TRUE]

Entry(from, to) == [from |-> from, to |-> to]

MCRedirectLists ==
    { << >>,
      << Entry(Plain("a"), Padded("b")) >>,
      << Entry(Plain("a"), Plain("c")), Entry(Padded("b"), Plain("c")) >>,
      << Entry(Plain("a"), Plain("b")), Entry(Padded("a"), Plain("c")) >>,
      << Entry(Plain("a"), Padded("")) >> }

MCSymmetry == Permutations(Handlers) \cup Permutations(Columns)
=============================================================================
