------------------------------ MODULE KeyTable ------------------------------
(***************************************************************************)
(* The upstream_keys table of internal/store: what each statement of the   *)
(* repository does to the rows, as operators on one value.  A table is a   *)
(* function from the ids of its rows to rows.  Columns no property tells   *)
(* apart (alias, hint, secret, balance, timestamps) are left out.          *)
(*                                                                         *)
(* cooldown_until is kept as the time that is left: NULL when the column   *)
(* is NULL, otherwise the number of ticks until it lies in the past.  The  *)
(* column is never cleared by time, so 0 ("over, not cleared") and NULL    *)
(* are different values.                                                   *)
(*                                                                         *)
(* Definitions named Faulty... here and in the other modules are mistakes  *)
(* of the kind a change to the code could make.  No specification uses     *)
(* them; putting one in the place of the definition after it shows that a  *)
(* property notices.                                                       *)
(***************************************************************************)
EXTENDS Integers, FiniteSets, Sequences, Functions

CONSTANT NULL

ASSUME NullAssumption == NULL \notin Nat

Row == [enabled : BOOLEAN, priority : Nat, failures : Nat,
        cooldown : Nat \cup {NULL}]

FreshRow(enabled, priority) ==
    [enabled |-> enabled, priority |-> priority, failures |-> 0, cooldown |-> NULL]

-----------------------------------------------------------------------------
(***************************************************************************)
(* Order: every listing is ORDER BY priority ASC, id ASC.                  *)
(***************************************************************************)
Priorities(t) == {t[i].priority : i \in DOMAIN t}

Before(t, i, j) ==
    \/ t[i].priority < t[j].priority
    \/ t[i].priority = t[j].priority /\ i < j

Rank(t, i) == Cardinality({j \in DOMAIN t : Before(t, j, i)}) + 1

(* The ids as every SELECT of the repository returns them. *)
Listing(t) == [n \in 1..Cardinality(DOMAIN t) |-> CHOOSE i \in DOMAIN t : Rank(t, i) = n]

First(t, ids) == CHOOSE i \in ids : \A j \in ids \ {i} : Before(t, i, j)

(* Faulty: every new key gets the same number. *)
FaultyNextPriority(t) == 0

(* MAX(priority) + 1, or 1 for an empty table *)
NextPriority(t) ==
    IF DOMAIN t = {} THEN 1
    ELSE 1 + (CHOOSE p \in Priorities(t) : \A q \in Priorities(t) : q =< p)

WithPriorities(t, p) == [i \in DOMAIN t |-> [t[i] EXCEPT !.priority = p[i]]]

Normalized(t) == WithPriorities(t, [i \in DOMAIN t |-> Rank(t, i)])

-----------------------------------------------------------------------------
(***************************************************************************)
(* Statements and transactions that add, remove and reorder rows.          *)
(***************************************************************************)
Inserted(t, id, enabled) ==
    [i \in DOMAIN t \cup {id} |->
        IF i = id THEN FreshRow(enabled, NextPriority(t)) ELSE t[i]]

Without(t, id) == [i \in DOMAIN t \ {id} |-> t[i]]

Deleted(t, id) == Normalized(Without(t, id))

(* The distance by which a rewrite first moves every row out of the way. *)
Shift == 1000000

(* The two checks on a reorder payload; it has no check for repeated ids. *)
ReorderAccepted(t, ids) ==
    /\ Len(ids) = Cardinality(DOMAIN t)
    /\ DOMAIN t \subseteq Range(ids)

(* After the shift, UPDATE runs once per entry: the last one for an id wins. *)
LastPosition(ids, i) ==
    CHOOSE n \in 1..Len(ids) : ids[n] = i /\ \A m \in (n+1)..Len(ids) : ids[m] # i

Reordered(t, ids) ==
    WithPriorities(t, [i \in DOMAIN t |->
        IF i \in Range(ids) THEN LastPosition(ids, i) ELSE t[i].priority + Shift])

-----------------------------------------------------------------------------
(***************************************************************************)
(* Health: which rows may serve, and what a result does to a row.          *)
(***************************************************************************)
(* CooldownUntil.After(now) *)
Cooling(row) == row.cooldown # NULL /\ row.cooldown > 0

(* Faulty: one failure is enough to be passed over. *)
FaultyCanServe(row) == row.enabled /\ row.failures = 0

CanServe(row) == row.enabled /\ ~ Cooling(row)

Available(t) == {i \in DOMAIN t : CanServe(t[i])}

(* Faulty: one failure too early; once only, not again after the cooldown. *)
EarlyTripped(failures, threshold) == failures + 1 >= threshold
OnceTripped(failures, threshold) == failures = threshold

Tripped(failures, threshold) == failures >= threshold

Succeeded(row) == [row EXCEPT !.failures = 0, !.cooldown = NULL]

Failed(row, threshold, cooldown) ==
    [row EXCEPT !.failures = @ + 1,
                !.cooldown = IF Tripped(row.failures + 1, threshold) THEN cooldown ELSE @]

AfterResult(row, success, threshold, cooldown) ==
    IF success THEN Succeeded(row) ELSE Failed(row, threshold, cooldown)

(* Faulty: counts on below zero; compares with a time that stands still. *)
FaultyElapsed(t) ==
    [i \in DOMAIN t |->
        [t[i] EXCEPT !.cooldown = IF @ # NULL THEN @ - 1 ELSE @]]
FrozenElapsed(t) == t

(* One tick of the clock, for every row at once. *)
Older(row) == [row EXCEPT !.cooldown = IF Cooling(row) THEN @ - 1 ELSE @]

Elapsed(t) == [i \in DOMAIN t |-> Older(t[i])]
=============================================================================
