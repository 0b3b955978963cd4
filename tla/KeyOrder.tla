------------------------------ MODULE KeyOrder ------------------------------
(***************************************************************************)
(* What the administrator's operations on upstream keys promise about the  *)
(* order in which keys are tried: new keys go last, removing a key leaves  *)
(* the others in their order, and a reorder is complete or does nothing.   *)
(* There are no priorities here, and every operation is one step.          *)
(***************************************************************************)
EXTENDS Integers, Sequences, Functions

VARIABLES
    order,    \* the ids of the keys, first to be tried first
    created   \* how many keys were ever created: the last id given out

orderVars == <<order, created>>

Init ==
    /\ order = << >>
    /\ created = 0

Create ==
    /\ created' = created + 1
    /\ order' = Append(order, created')

Delete(id) ==
    /\ \E n \in DOMAIN order :
          /\ order[n] = id
          /\ order' = [m \in 1..(Len(order) - 1) |-> order[IF m < n THEN m ELSE m + 1]]
    /\ UNCHANGED created

Reorder ==
    /\ \/ order' = order
       \/ /\ order' \in [DOMAIN order -> Range(order)]
          /\ Range(order') = Range(order)
    /\ UNCHANGED created

Next ==
    \/ Reorder
    \/ Create
    \/ \E id \in Range(order) : Delete(id)

Spec == Init /\ [][Next]_orderVars
=============================================================================
