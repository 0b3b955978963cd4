-------------------------- MODULE PriorityRewrite ---------------------------
(***************************************************************************)
(* The transactions that write upstream_keys.priority, statement by        *)
(* statement, under the unique index on that column: CreateUpstreamKey,    *)
(* DeleteUpstreamKey with normalizePrioritiesTx, and ReorderUpstreamKeys.  *)
(* SQLite checks a unique index row by row, also within one UPDATE, so a   *)
(* renumbering has to move every row out of the way first.  The pool has   *)
(* one connection, so there is one transaction at a time; at any point it  *)
(* may be rolled back: by an error, by the client leaving (its context     *)
(* belongs to the transaction), or by a crash of the process.              *)
(***************************************************************************)
EXTENDS KeyTable

CONSTANTS
    MaxId,      \* bound: how many keys are ever created
    Payloads    \* the id lists a client may send to reorder

ASSUME RewriteAssumption ==
    /\ MaxId \in 0..Shift
    /\ Payloads \subseteq Seq(Nat)

VARIABLES
    table,    \* committed rows, as a KeyTable of rows with one column
    lastId,   \* committed sqlite_sequence
    tx        \* the open transaction, or NoTx

vars == <<table, lastId, tx>>

Ids == 1..MaxId

NoTx == [stage |-> "none"]

Column(ids) == [ids -> [priority : Nat]]

(* view, last   the rows and sequence as the transaction sees them         *)
(* ids          the ids in the order the rows are to be numbered           *)
(* left         rows that the shifting UPDATE has still to visit           *)
(* next         index of the next entry of ids to be given its number      *)
IsTx(t) ==
    /\ t.stage \in {"insert", "shift", "assign", "commit", "clash"}
    /\ t.last \in 0..MaxId
    /\ DOMAIN t.view \subseteq 1..t.last
    /\ t.view \in Column(DOMAIN t.view)
    /\ t.ids \in Seq(Nat)
    /\ t.left \subseteq DOMAIN t.view
    /\ t.next \in 1..(Len(t.ids) + 1)

(* Types: rows committed or in the open transaction have ids that the      *)
(* sequence has given out (CreateUpstreamKey, AUTOINCREMENT).              *)
TypeOK ==
    /\ lastId \in 0..MaxId
    /\ DOMAIN table \subseteq 1..lastId
    /\ table \in Column(DOMAIN table)
    /\ tx = NoTx \/ IsTx(tx)

Init ==
    /\ table = << >>
    /\ lastId = 0
    /\ tx = NoTx

-----------------------------------------------------------------------------
Begin(stage, view, ids) ==
    /\ tx.stage = "none"
    /\ tx' = [stage |-> stage, view |-> view, last |-> lastId, ids |-> ids,
              left |-> DOMAIN view, next |-> 1]
    /\ UNCHANGED <<table, lastId>>

(* Writing priority to row id of rows.  If the unique index rejects it the *)
(* statement fails and with it the transaction.                            *)
Write(rows, id, priority, rest) ==
    /\ tx' = IF id \in rows /\ \E j \in rows \ {id} : tx.view[j].priority = priority
             THEN [tx EXCEPT !.stage = "clash"]
             ELSE [rest EXCEPT !.view =
                     [j \in rows |-> IF j = id THEN [priority |-> priority] ELSE @[j]]]
    /\ UNCHANGED <<table, lastId>>

Insert(id, priority, rest) == Write(DOMAIN tx.view \cup {id}, id, priority, rest)
Update(id, priority, rest) == Write(DOMAIN tx.view, id, priority, rest)

BeginCreate == lastId < MaxId /\ Begin("insert", table, << >>)

(* Faulty: the sequence of ids is not advanced. *)
FaultyInsertRow ==
    /\ tx.stage = "insert"
    /\ Insert(tx.last + 1, NextPriority(tx.view), [tx EXCEPT !.stage = "commit"])

InsertRow ==
    /\ tx.stage = "insert"
    /\ Insert(tx.last + 1, NextPriority(tx.view),
              [tx EXCEPT !.stage = "commit", !.last = @ + 1])

(* Faulty: lists the ids before the row is gone; lists them by id. *)
FaultyBeginDelete(id) ==
    id \in DOMAIN table /\ Begin("shift", Without(table, id), Listing(table))
FaultyBeginDeleteById(id) ==
    LET remaining == Without(table, id)
        ById(n) == CHOOSE i \in DOMAIN remaining :
                       Cardinality({j \in DOMAIN remaining : j =< i}) = n
    IN  /\ id \in DOMAIN table
        /\ Begin("shift", remaining, [n \in 1..Cardinality(DOMAIN remaining) |-> ById(n)])

(* The row goes first, then the remaining ids are listed in their order.   *)
BeginDelete(id) ==
    LET remaining == Without(table, id)
    IN  id \in DOMAIN table /\ Begin("shift", remaining, Listing(remaining))

(* Faulty: assigns the new numbers without moving the rows out of the way. *)
FaultyBeginReorder(ids) ==
    /\ ids # << >>
    /\ ReorderAccepted(table, ids)
    /\ Begin("assign", table, ids)

(* Both checks of the payload come before the first write.                 *)
BeginReorder(ids) ==
    /\ ids # << >>
    /\ ReorderAccepted(table, ids)
    /\ Begin("shift", table, ids)

(* An unknown id, or a payload that is not a full listing: the transaction *)
(* ends before it has written anything.                                    *)
RefuseDelete(id) ==
    /\ tx.stage = "none"
    /\ id \notin DOMAIN table
    /\ UNCHANGED vars

RefuseReorder(ids) ==
    /\ tx.stage = "none"
    /\ ids = << >> \/ ~ ReorderAccepted(table, ids)
    /\ UNCHANGED vars

(* UPDATE ... SET priority = priority + 1000000, row by row.               *)
ShiftRow(id) ==
    /\ tx.stage = "shift"
    /\ id \in tx.left
    /\ Update(id, tx.view[id].priority + Shift, [tx EXCEPT !.left = @ \ {id}])

ShiftDone ==
    /\ tx.stage = "shift"
    /\ tx.left = {}
    /\ tx' = [tx EXCEPT !.stage = "assign"]
    /\ UNCHANGED <<table, lastId>>

AssignRow ==
    /\ tx.stage = "assign"
    /\ tx.next \in DOMAIN tx.ids
    /\ Update(tx.ids[tx.next], tx.next, [tx EXCEPT !.next = @ + 1])

Commit ==
    /\ \/ tx.stage = "commit"
       \/ tx.stage = "assign" /\ tx.next > Len(tx.ids)
    /\ table' = tx.view
    /\ lastId' = tx.last
    /\ tx' = NoTx

Rollback ==
    /\ tx.stage # "none"
    /\ tx' = NoTx
    /\ UNCHANGED <<table, lastId>>

Next ==
    \/ BeginCreate \/ InsertRow
    \/ \E id \in Ids : BeginDelete(id) \/ RefuseDelete(id) \/ ShiftRow(id)
    \/ \E ids \in Payloads : BeginReorder(ids) \/ RefuseReorder(ids)
    \/ ShiftDone \/ AssignRow \/ Commit \/ Rollback

Spec == Init /\ [][Next]_vars

-----------------------------------------------------------------------------
(* No write of any of the three transactions ever meets the unique index,  *)
(* at no intermediate step of a renumbering: an accepted reorder, a delete *)
(* and a create succeed whatever the order of the rows is before.          *)
NoClash == tx.stage # "clash"

(* What a transaction commits is what KeyTable says of its operation: the  *)
(* numbers written statement by statement come out as those Failover       *)
(* writes in one step (CreateUpstreamKey, DeleteUpstreamKey,               *)
(* ReorderUpstreamKeys), whatever was rolled back before.                  *)
Numbers(t) == [i \in DOMAIN t |-> t[i].priority]

Outcomes ==
    {Numbers(Inserted(table, lastId + 1, enabled)) : enabled \in BOOLEAN}
        \cup {Numbers(Deleted(table, id)) : id \in DOMAIN table}
        \cup {Numbers(Reordered(table, ids)) : ids \in {p \in Payloads : ReorderAccepted(table, p)}}

CommitsAreOperations == [][table' # table => Numbers(table') \in Outcomes]_vars

(* The order readers list, as a state of KeyOrder. *)
Order == INSTANCE KeyOrder WITH order <- Listing(table), created <- lastId

(* Readers see each operation take effect at once and completely, on the   *)
(* order they list: create appends, delete keeps the others' order,        *)
(* reorder permutes; a refused or rolled back operation changes nothing.   *)
OrderSpec == Order!Spec
=============================================================================
