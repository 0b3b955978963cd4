------------------------ MODULE PriorityRewriteProofs ------------------------
(***************************************************************************)
(* PriorityRewrite for any number of keys and any payloads: no statement   *)
(* of the three transactions meets the unique index, what is committed is  *)
(* what KeyTable says of the operation, and readers see the operations of  *)
(* KeyOrder.                                                               *)
(*                                                                         *)
(* The inductive invariant says how far a transaction has come: which rows *)
(* are already out of the way, which have their final number, and which    *)
(* operation on the committed table it carries out.                        *)
(***************************************************************************)
EXTENDS PriorityRewrite, KeyTableProofs

(* A transaction that renumbers: of which rows, and in which order.        *)
Operation(view, ids) ==
    \/ \E id \in DOMAIN table :
          DOMAIN view = DOMAIN table \ {id} /\ ids = Listing(Without(table, id))
    \/ /\ ids \in Payloads /\ ReorderAccepted(table, ids)
       /\ DOMAIN view = DOMAIN table

Inserting(t) == t.view = table /\ t.last = lastId /\ lastId < MaxId

Shifting(t) ==
    /\ t.last = lastId /\ t.next = 1 /\ Operation(t.view, t.ids)
    /\ \A i \in DOMAIN t.view :
          t.view[i].priority = IF i \in t.left THEN table[i].priority
                               ELSE table[i].priority + Shift

Assigning(t) ==
    /\ t.last = lastId /\ Operation(t.view, t.ids)
    /\ \A m \in 1..Len(t.ids) :
          IF m < t.next THEN t.view[t.ids[m]].priority = m
          ELSE t.view[t.ids[m]].priority > Shift

Committing(t) ==
    /\ t.last = lastId + 1
    /\ Numbers(t.view) = Numbers(Inserted(table, lastId + 1, TRUE))

Tx(stage, view, last, ids, left, next) ==
    [stage |-> stage, view |-> view, last |-> last, ids |-> ids, left |-> left, next |-> next]

TxOK(t) ==
    /\ t = Tx(t.stage, t.view, t.last, t.ids, t.left, t.next) /\ IsTx(t)
    /\ \/ t.stage = "insert" /\ Inserting(t)
       \/ t.stage = "shift" /\ Shifting(t)
       \/ t.stage = "assign" /\ Assigning(t)
       \/ t.stage = "commit" /\ Committing(t)

IInv ==
    /\ TypeOK /\ Dense(table)
    /\ tx = NoTx \/ TxOK(tx)

-----------------------------------------------------------------------------
LEMMA ShiftIsNatural == Shift \in Nat
BY SMT DEF Shift

(* The committed table is one the lemmas of KeyTableProofs are about.      *)
LEMMA Committed ==
    ASSUME IInv
    PROVE  /\ Numbered(table) /\ Dense(table)
           /\ lastId \in Nat /\ MaxId \in Nat /\ Shift \in Nat /\ MaxId =< Shift
           /\ Cardinality(DOMAIN table) \in Nat /\ Cardinality(DOMAIN table) =< Shift
           /\ \A i \in DOMAIN table : /\ i \in 1..lastId /\ table[i] \in [priority : Nat]
                                      /\ table[i].priority \in 1..Cardinality(DOMAIN table)
<1>1. /\ lastId \in Nat /\ MaxId \in Nat /\ Shift \in Nat /\ MaxId =< Shift
      /\ lastId =< MaxId
    BY RewriteAssumption, ShiftIsNatural DEF IInv, TypeOK
<1>2. DOMAIN table \in SUBSET (1..lastId) BY DEF IInv, TypeOK
<1>3. IsFiniteSet(1..lastId) /\ Cardinality(1..lastId) = lastId
    <2>1. Cardinality(1..lastId) = IF 1 > lastId THEN 0 ELSE lastId - 1 + 1
        BY <1>1, FS_Interval
    <2> QED BY <1>1, <2>1, FS_Interval
<1>4. IsFiniteSet(DOMAIN table) /\ Cardinality(DOMAIN table) =< lastId
    BY <1>2, <1>3, FS_Subset
<1>5. Cardinality(DOMAIN table) \in Nat BY <1>4, FS_CardinalityType
<1>6. \A i \in DOMAIN table : table[i] \in [priority : Nat]
    BY DEF IInv, TypeOK, Column
<1>7. Numbered(table) BY <1>1, <1>2, <1>4, <1>6 DEF Numbered
<1>8. Dense(table) BY DEF IInv
<1>9. \A i \in DOMAIN table : table[i].priority \in 1..Cardinality(DOMAIN table)
    BY <1>7, <1>8, NumbersAreUnique
<1> QED BY <1>1, <1>2, <1>4, <1>5, <1>6, <1>7, <1>8, <1>9

LEMMA WithoutIsNumbered ==
    ASSUME IInv, NEW id \in DOMAIN table
    PROVE  /\ Numbered(Without(table, id))
           /\ DOMAIN Without(table, id) = DOMAIN table \ {id}
           /\ \A i \in DOMAIN table \ {id} : Without(table, id)[i] = table[i]
<1>1. /\ DOMAIN Without(table, id) = DOMAIN table \ {id}
      /\ \A i \in DOMAIN table \ {id} : Without(table, id)[i] = table[i]
    BY DEF Without
<1>2. IsFiniteSet(DOMAIN table \ {id}) BY Committed, FS_RemoveElement DEF Numbered
<1> QED BY <1>1, <1>2, Committed DEF Numbered

(* The ids of a renumbering are the rows of the view, each once.           *)
LEMMA IdsAreTheRows ==
    ASSUME IInv, NEW view, NEW ids, Operation(view, ids)
    PROVE  /\ ids \in Seq(Nat) /\ Len(ids) \in Nat /\ DOMAIN ids = 1..Len(ids)
           /\ Len(ids) = Cardinality(DOMAIN view) /\ Len(ids) =< Shift
           /\ \A m \in 1..Len(ids) : ids[m] \in DOMAIN view
           /\ \A i \in DOMAIN view : \E m \in 1..Len(ids) : ids[m] = i
           /\ \A m, n \in 1..Len(ids) : ids[m] = ids[n] => m = n
           /\ DOMAIN view \subseteq DOMAIN table
<1>1. CASE ids \in Payloads /\ ReorderAccepted(table, ids) /\ DOMAIN view = DOMAIN table
    <2>1. ids \in Seq(Nat) /\ Len(ids) \in Nat /\ DOMAIN ids = 1..Len(ids)
        BY <1>1, RewriteAssumption
    <2>2. /\ Range(ids) = DOMAIN table
          /\ \A m, n \in 1..Len(ids) : ids[m] = ids[n] => m = n
        BY <1>1, <2>1, Committed, AcceptedPayloadIsPermutation
    <2>3. Len(ids) = Cardinality(DOMAIN table) BY <1>1 DEF ReorderAccepted
    <2>4. (\A m \in 1..Len(ids) : ids[m] \in DOMAIN table)
          /\ \A i \in DOMAIN table : \E m \in 1..Len(ids) : ids[m] = i
        BY <2>1, <2>2 DEF Range
    <2> QED BY <1>1, <2>1, <2>2, <2>3, <2>4, Committed
<1>2. ASSUME NEW id \in DOMAIN table, DOMAIN view = DOMAIN table \ {id},
             ids = Listing(Without(table, id))
      PROVE  /\ ids \in Seq(Nat) /\ Len(ids) \in Nat /\ DOMAIN ids = 1..Len(ids)
             /\ Len(ids) = Cardinality(DOMAIN view) /\ Len(ids) =< Shift
             /\ \A m \in 1..Len(ids) : ids[m] \in DOMAIN view
             /\ \A i \in DOMAIN view : \E m \in 1..Len(ids) : ids[m] = i
             /\ \A m, n \in 1..Len(ids) : ids[m] = ids[n] => m = n
             /\ DOMAIN view \subseteq DOMAIN table
    <2>1. PICK w : w = Without(table, id) OBVIOUS
    <2>2. PICK n : n = Cardinality(DOMAIN view) OBVIOUS
    <2>3. Numbered(w) /\ DOMAIN w = DOMAIN view BY <1>2, <2>1, WithoutIsNumbered
    <2>4. /\ n \in Nat /\ ids \in [1..n -> DOMAIN view]
          /\ \A m \in 1..n : Rank(w, ids[m]) = m
          /\ \A i \in DOMAIN view : Rank(w, i) \in 1..n /\ ids[Rank(w, i)] = i
        BY <1>2, <2>1, <2>2, <2>3, ListingByRank
    <2>5. DOMAIN view \subseteq Nat BY <2>3 DEF Numbered
    <2>6. ids \in Seq(Nat) /\ Len(ids) = n /\ DOMAIN ids = 1..n BY <2>4, <2>5
    <2>7. n =< Shift
        <3>1. n =< Cardinality(DOMAIN table)
            BY <1>2, <2>2, Committed, FS_Subset DEF Numbered
        <3> QED BY <2>4, <3>1, Committed
    <2> QED BY <1>2, <2>2, <2>4, <2>6, <2>7
<1> QED BY <1>1, <1>2 DEF Operation

-----------------------------------------------------------------------------
(***************************************************************************)
(* Steps within a transaction.                                             *)
(***************************************************************************)
LEMMA TxStep ==
    ASSUME IInv, NEW t, tx' = t, table' = table, lastId' = lastId,
           t = NoTx \/ TxOK(t)
    PROVE  IInv'
<1>1. TypeOK' BY DEF IInv, TypeOK, TxOK
<1>2. TxOK(t) => TxOK(t)'
    BY DEF TxOK, Inserting, Shifting, Assigning, Committing, Operation
<1> QED BY <1>1, <1>2 DEF IInv

LEMMA TxHasStage ==
    ASSUME IInv, tx.stage # "none"
    PROVE  TxOK(tx)
BY DEF IInv, NoTx

LEMMA BeginStep ==
    ASSUME IInv, NEW stage \in {"insert", "shift"}, NEW view, NEW ids, Begin(stage, view, ids),
           DOMAIN view \subseteq DOMAIN table, \A i \in DOMAIN view : view[i] = table[i],
           view = [i \in DOMAIN view |-> view[i]], ids \in Seq(Nat),
           stage = "insert" => view = table /\ lastId < MaxId,
           stage = "shift" => Operation(view, ids)
    PROVE  IInv'
<1> DEFINE t == Tx(stage, view, lastId, ids, DOMAIN view, 1)
<1>1. tx' = t /\ table' = table /\ lastId' = lastId BY DEF Begin, Tx
<1>2. IsTx(t)
    <2>1. lastId \in 0..MaxId /\ DOMAIN view \subseteq 1..lastId
        BY DEF IInv, TypeOK
    <2>2. view \in Column(DOMAIN view) BY Committed DEF Column
    <2>3. Len(ids) \in Nat /\ 1 \in 1..(Len(ids) + 1) BY SMT
    <2> QED BY <2>1, <2>2, <2>3 DEF IsTx, Tx
<1>3. t.stage = "insert" => Inserting(t) BY DEF Tx, Inserting
<1>4. t.stage = "shift" => Shifting(t) BY DEF Tx, Shifting
<1>5. t = Tx(t.stage, t.view, t.last, t.ids, t.left, t.next) /\ t.stage = stage
    BY DEF Tx
<1>6. TxOK(t)
    <2> HIDE DEF t
    <2> QED BY <1>2, <1>3, <1>4, <1>5 DEF TxOK
<1> QED
    <2> HIDE DEF t
    <2> QED BY <1>1, <1>6, TxStep

LEMMA BeginSteps ==
    ASSUME IInv,
           \/ BeginCreate
           \/ \E id \in Ids : BeginDelete(id)
           \/ \E ids \in Payloads : BeginReorder(ids)
    PROVE  IInv'
<1>1. table = [i \in DOMAIN table |-> table[i]] BY DEF IInv, TypeOK, Column
<1>2. CASE BeginCreate
    <2>1. PICK ids : ids = << >> /\ Begin("insert", table, ids) /\ lastId < MaxId
        BY <1>2 DEF BeginCreate
    <2>2. ids \in Seq(Nat) BY <2>1
    <2>3. PICK view : view = table OBVIOUS
    <2> QED BY <1>1, <2>1, <2>2, <2>3, BeginStep
<1>3. ASSUME NEW id \in Ids, BeginDelete(id) PROVE IInv'
    <2>1. PICK view, ids : view = Without(table, id) /\ ids = Listing(view)
        OBVIOUS
    <2>2. id \in DOMAIN table /\ Begin("shift", view, ids) BY <1>3, <2>1 DEF BeginDelete
    <2>3. /\ DOMAIN view = DOMAIN table \ {id} /\ \A i \in DOMAIN view : view[i] = table[i]
          /\ view = [i \in DOMAIN view |-> view[i]]
        BY <2>1 DEF Without
    <2>4. Operation(view, ids) BY <2>1, <2>2, <2>3 DEF Operation
    <2>5. ids \in Seq(Nat) BY <2>4, IdsAreTheRows
    <2> QED BY <2>2, <2>3, <2>4, <2>5, BeginStep
<1>4. ASSUME NEW ids \in Payloads, BeginReorder(ids) PROVE IInv'
    <2>1. Begin("shift", table, ids) /\ Operation(table, ids)
        BY <1>4 DEF BeginReorder, Operation
    <2>2. PICK view : view = table OBVIOUS
    <2> QED BY <1>1, <2>1, <2>2, RewriteAssumption, BeginStep
<1> QED BY <1>2, <1>3, <1>4

(* A write that meets no other row's number goes through.                  *)
LEMMA WriteGoesThrough ==
    ASSUME NEW rows, NEW id, NEW p, NEW rest, Write(rows, id, p, rest),
           NEW stage, NEW view, NEW last, NEW ids, NEW left, NEW next,
           rest = Tx(stage, view, last, ids, left, next),
           \A j \in rows \ {id} : tx.view[j].priority # p
    PROVE  /\ tx' = Tx(stage,
                       [j \in rows |-> IF j = id THEN [priority |-> p] ELSE view[j]],
                       last, ids, left, next)
           /\ table' = table /\ lastId' = lastId
<1>1. tx' = [rest EXCEPT !.view = [j \in rows |-> IF j = id THEN [priority |-> p] ELSE @[j]]]
      /\ table' = table /\ lastId' = lastId
    BY DEF Write
<1> QED BY <1>1 DEF Tx

(* The numbers of the committed table with a row added.                    *)
LEMMA InsertedNumbers ==
    ASSUME IInv, NEW enabled
    PROVE  /\ DOMAIN Inserted(table, lastId + 1, enabled) = DOMAIN table \cup {lastId + 1}
           /\ lastId + 1 \notin DOMAIN table
           /\ NextPriority(table) = Cardinality(DOMAIN table) + 1
           /\ Inserted(table, lastId + 1, enabled)[lastId + 1].priority = NextPriority(table)
           /\ \A i \in DOMAIN table :
                 Inserted(table, lastId + 1, enabled)[i].priority = table[i].priority
<1>1. lastId + 1 \notin DOMAIN table BY Committed
<1>2. NextPriority(table) = Cardinality(DOMAIN table) + 1 BY Committed, NextAfterDense
<1> QED BY <1>1, <1>2 DEF Inserted, FreshRow

LEMMA InsertRowStep ==
    ASSUME IInv, InsertRow
    PROVE  IInv'
<1>1. tx.stage = "insert" /\ TxOK(tx) BY TxHasStage DEF InsertRow
<1>2. Inserting(tx) BY <1>1 DEF TxOK
<1>3. PICK ids, left, next :
          tx = Tx("insert", table, lastId, ids, left, next)
    BY <1>1, <1>2 DEF TxOK, Inserting
<1>4. IsTx(tx) BY <1>1 DEF TxOK
<1>5. PICK id, p, rows : /\ id = lastId + 1 /\ p = NextPriority(table)
                         /\ rows = DOMAIN table \cup {id}
    OBVIOUS
<1>6. PICK rest : rest = Tx("commit", table, id, ids, left, next) OBVIOUS
<1>7. tx.view = table /\ tx.last = lastId /\ [tx EXCEPT !.stage = "commit", !.last = @ + 1] = rest
    <2>1. tx.view = table /\ tx.last = lastId BY <1>3 DEF Tx
    <2>2. PICK u : u = [tx EXCEPT !.stage = "commit"] OBVIOUS
    <2>3. u = Tx("commit", table, lastId, ids, left, next) BY <1>3, <2>2 DEF Tx
    <2>4. [u EXCEPT !.last = id] = rest BY <1>6, <2>3 DEF Tx
    <2>5. [tx EXCEPT !.stage = "commit", !.last = id] = [u EXCEPT !.last = id]
        BY <2>2
    <2> QED BY <1>5, <2>1, <2>4, <2>5
<1>8. Write(rows, id, p, rest) BY <1>5, <1>7 DEF InsertRow, Insert
<1>9. \A j \in rows \ {id} : tx.view[j].priority # p
    BY <1>5, <1>7, Committed, InsertedNumbers
<1>10. PICK view : view = [j \in rows |-> IF j = id THEN [priority |-> p] ELSE table[j]]
    OBVIOUS
<1>11. PICK t : t = Tx("commit", view, id, ids, left, next) OBVIOUS
<1>12. tx' = t /\ table' = table /\ lastId' = lastId
    BY <1>6, <1>8, <1>9, <1>10, <1>11, WriteGoesThrough
<1>13. /\ t.stage = "commit" /\ t.view = view /\ t.last = id /\ t.ids = ids
       /\ t.left = left /\ t.next = next /\ t = Tx(t.stage, t.view, t.last, t.ids, t.left, t.next)
    BY <1>11 DEF Tx
<1>14. IsTx(t)
    <2>1. id \in 1..MaxId BY <1>2, <1>5, Committed DEF Inserting
    <2>2. p \in Nat BY <1>5, Committed, InsertedNumbers
    <2>3. view \in Column(DOMAIN view) /\ DOMAIN view = rows
        BY <1>5, <1>10, <2>2, Committed DEF Column
    <2>4. DOMAIN view \subseteq 1..id BY <1>5, <2>3, Committed
    <2>5. ids \in Seq(Nat) /\ next \in 1..(Len(ids) + 1) /\ left \subseteq DOMAIN table
        BY <1>3, <1>4 DEF IsTx, Tx
    <2> QED BY <1>5, <1>13, <2>1, <2>3, <2>4, <2>5 DEF IsTx
<1>15. Numbers(view) = Numbers(Inserted(table, lastId + 1, TRUE))
    <2>1. PICK new : new = Inserted(table, lastId + 1, TRUE) OBVIOUS
    <2>2. /\ DOMAIN new = rows /\ DOMAIN view = rows
          /\ \A i \in rows : view[i].priority = new[i].priority
        BY <1>5, <1>10, <2>1, InsertedNumbers
    <2> QED BY <2>1, <2>2 DEF Numbers
<1>16. TxOK(t) BY <1>5, <1>13, <1>14, <1>15 DEF TxOK, Committing
<1> QED BY <1>12, <1>16, TxStep

(* A row is moved out of the way of rows that are still in their places.   *)
LEMMA ShiftRowStep ==
    ASSUME IInv, NEW id \in Ids, ShiftRow(id)
    PROVE  IInv'
<1>1. tx.stage = "shift" /\ TxOK(tx) /\ id \in tx.left BY TxHasStage DEF ShiftRow
<1>2. Shifting(tx) /\ IsTx(tx) BY <1>1 DEF TxOK
<1>3. PICK view, last, ids, left :
          tx = Tx("shift", view, last, ids, left, 1) /\ last = lastId
    BY <1>1, <1>2 DEF TxOK, Shifting
<1>4. tx.view = view /\ tx.last = last /\ tx.ids = ids /\ tx.left = left /\ tx.next = 1
    BY <1>3 DEF Tx
<1>5. /\ Operation(view, ids)
      /\ \A i \in DOMAIN view :
            view[i].priority = IF i \in left THEN table[i].priority
                               ELSE table[i].priority + Shift
    BY <1>2, <1>4 DEF Shifting
<1>6. DOMAIN view \subseteq DOMAIN table /\ id \in left /\ id \in DOMAIN view
    BY <1>1, <1>2, <1>4, <1>5, IdsAreTheRows DEF IsTx
<1>7. PICK p, rest, rows : /\ p = table[id].priority + Shift
                           /\ rest = Tx("shift", view, last, ids, left \ {id}, 1)
                           /\ rows = DOMAIN view
    OBVIOUS
<1>8. [tx EXCEPT !.left = @ \ {id}] = rest BY <1>3, <1>4, <1>7 DEF Tx
<1>9. view[id].priority = table[id].priority BY <1>5, <1>6
<1>10. Write(rows, id, p, rest) BY <1>4, <1>7, <1>8, <1>9 DEF ShiftRow, Update
<1>11. \A i \in DOMAIN view : table[i].priority \in Nat /\ table[i].priority > 0
                              /\ table[i].priority =< Shift
    BY <1>6, Committed
<1>12. \A j \in rows \ {id} : tx.view[j].priority # p
    <2> TAKE j \in rows \ {id}
    <2>1. table[j].priority # table[id].priority BY <1>6, <1>7, Committed, NumbersAreUnique
    <2>2. Shift \in Nat BY ShiftIsNatural
    <2> QED BY <1>4, <1>5, <1>6, <1>7, <1>11, <2>1, <2>2
<1>13. PICK new : new = [j \in rows |-> IF j = id THEN [priority |-> p] ELSE view[j]]
    OBVIOUS
<1>14. PICK t : t = Tx("shift", new, last, ids, left \ {id}, 1) OBVIOUS
<1>15. tx' = t /\ table' = table /\ lastId' = lastId
    BY <1>7, <1>10, <1>12, <1>13, <1>14, WriteGoesThrough
<1>16. /\ t.stage = "shift" /\ t.view = new /\ t.last = last /\ t.ids = ids
       /\ t.left = left \ {id} /\ t.next = 1
       /\ t = Tx(t.stage, t.view, t.last, t.ids, t.left, t.next)
    BY <1>14 DEF Tx
<1>17. IsTx(t)
    <2>1. p \in Nat BY <1>6, <1>7, <1>11, ShiftIsNatural
    <2>2. view \in Column(DOMAIN view) BY <1>2, <1>4 DEF IsTx
    <2>3. DOMAIN new = DOMAIN view /\ new \in Column(DOMAIN new)
        BY <1>7, <1>13, <2>1, <2>2 DEF Column
    <2> QED BY <1>2, <1>4, <1>16, <2>3 DEF IsTx
<1>18. Operation(new, ids) BY <1>5, <1>7, <1>13 DEF Operation
<1>19. \A i \in DOMAIN new :
          new[i].priority = IF i \in left \ {id} THEN table[i].priority
                            ELSE table[i].priority + Shift
    BY <1>5, <1>6, <1>7, <1>13
<1>20. TxOK(t) BY <1>3, <1>16, <1>17, <1>18, <1>19 DEF TxOK, Shifting
<1> QED BY <1>15, <1>20, TxStep

(* All rows are out of the way, so every number up to Shift is free.       *)
LEMMA ShiftDoneStep ==
    ASSUME IInv, ShiftDone
    PROVE  IInv'
<1>1. tx.stage = "shift" /\ TxOK(tx) /\ tx.left = {} BY TxHasStage DEF ShiftDone
<1>2. Shifting(tx) /\ IsTx(tx) BY <1>1 DEF TxOK
<1>3. PICK view, last, ids, left :
          tx = Tx("shift", view, last, ids, left, 1) /\ last = lastId
    BY <1>1, <1>2 DEF TxOK, Shifting
<1>4. tx.view = view /\ tx.last = last /\ tx.ids = ids /\ tx.left = left /\ tx.next = 1
    BY <1>3 DEF Tx
<1>5. PICK t : t = Tx("assign", view, last, ids, left, 1) OBVIOUS
<1>6. tx' = t /\ table' = table /\ lastId' = lastId
    <2>1. [tx EXCEPT !.stage = "assign"] = t BY <1>3, <1>5 DEF Tx
    <2> QED BY <2>1 DEF ShiftDone
<1>7. /\ t.stage = "assign" /\ t.view = view /\ t.last = last /\ t.ids = ids
      /\ t.left = left /\ t.next = 1 /\ t = Tx(t.stage, t.view, t.last, t.ids, t.left, t.next)
    BY <1>5 DEF Tx
<1>8. IsTx(t) BY <1>2, <1>4, <1>7 DEF IsTx
<1>9. Operation(view, ids) /\ \A i \in DOMAIN view : view[i].priority = table[i].priority + Shift
    BY <1>1, <1>2, <1>4 DEF Shifting
<1>10. \A i \in DOMAIN view : view[i].priority > Shift
    <2> TAKE i \in DOMAIN view
    <2>1. i \in DOMAIN table BY <1>9, IdsAreTheRows
    <2>2. table[i].priority \in Nat /\ table[i].priority > 0 BY <2>1, Committed
    <2> QED BY <1>9, <2>2, ShiftIsNatural
<1>11. \A m \in 1..Len(ids) : ids[m] \in DOMAIN view /\ ~ (m < 1)
    BY <1>9, IdsAreTheRows
<1>12. Assigning(t) BY <1>3, <1>7, <1>9, <1>10, <1>11 DEF Assigning
<1>13. TxOK(t) BY <1>7, <1>8, <1>12 DEF TxOK
<1> QED BY <1>6, <1>13, TxStep

(* The next number is free: smaller ones are given, the rest is out of the *)
(* way.                                                                    *)
LEMMA AssignRowStep ==
    ASSUME IInv, AssignRow
    PROVE  IInv'
<1>1. tx.stage = "assign" /\ TxOK(tx) /\ tx.next \in DOMAIN tx.ids
    BY TxHasStage DEF AssignRow
<1>2. Assigning(tx) /\ IsTx(tx) BY <1>1 DEF TxOK
<1>3. PICK view, last, ids, left, next :
          tx = Tx("assign", view, last, ids, left, next) /\ last = lastId
    BY <1>1, <1>2 DEF TxOK, Assigning
<1>4. tx.view = view /\ tx.last = last /\ tx.ids = ids /\ tx.left = left /\ tx.next = next
    BY <1>3 DEF Tx
<1>5. Operation(view, ids) BY <1>2, <1>4 DEF Assigning
<1>6. /\ ids \in Seq(Nat) /\ Len(ids) \in Nat /\ DOMAIN ids = 1..Len(ids) /\ Len(ids) =< Shift
      /\ \A m \in 1..Len(ids) : ids[m] \in DOMAIN view
      /\ \A i \in DOMAIN view : \E m \in 1..Len(ids) : ids[m] = i
      /\ \A m, n \in 1..Len(ids) : ids[m] = ids[n] => m = n
    BY <1>5, IdsAreTheRows
<1>7. next \in 1..Len(ids) BY <1>1, <1>4, <1>6
<1>8. \A m \in 1..Len(ids) : IF m < next THEN view[ids[m]].priority = m
                             ELSE view[ids[m]].priority > Shift
    BY <1>2, <1>4 DEF Assigning
<1>9. PICK id, rest, rows : /\ id = ids[next]
                            /\ rest = Tx("assign", view, last, ids, left, next + 1)
                            /\ rows = DOMAIN view
    OBVIOUS
<1>10. [tx EXCEPT !.next = @ + 1] = rest BY <1>3, <1>4, <1>9 DEF Tx
<1>11. Write(rows, id, next, rest) BY <1>4, <1>9, <1>10 DEF AssignRow, Update
<1>12. view \in Column(DOMAIN view) BY <1>2, <1>4 DEF IsTx
<1>13. \A j \in rows \ {id} : tx.view[j].priority # next
    <2> TAKE j \in rows \ {id}
    <2>1. PICK m \in 1..Len(ids) : ids[m] = j BY <1>6, <1>9
    <2>2. m # next BY <1>9, <2>1
    <2>3. view[j].priority \in Nat BY <1>9, <1>12 DEF Column
    <2>4. IF m < next THEN view[j].priority = m ELSE view[j].priority > Shift
        BY <1>8, <2>1
    <2> QED BY <1>4, <1>6, <1>7, <2>2, <2>3, <2>4, ShiftIsNatural
<1>14. PICK new : new = [j \in rows |-> IF j = id THEN [priority |-> next] ELSE view[j]]
    OBVIOUS
<1>15. PICK t : t = Tx("assign", new, last, ids, left, next + 1) OBVIOUS
<1>16. tx' = t /\ table' = table /\ lastId' = lastId
    BY <1>9, <1>11, <1>13, <1>14, <1>15, WriteGoesThrough
<1>17. /\ t.stage = "assign" /\ t.view = new /\ t.last = last /\ t.ids = ids
       /\ t.left = left /\ t.next = next + 1
       /\ t = Tx(t.stage, t.view, t.last, t.ids, t.left, t.next)
    BY <1>15 DEF Tx
<1>18. IsTx(t)
    <2>1. next \in Nat /\ next + 1 \in 1..(Len(ids) + 1) BY <1>6, <1>7
    <2>2. DOMAIN new = DOMAIN view /\ new \in Column(DOMAIN new)
        BY <1>9, <1>12, <1>14, <2>1 DEF Column
    <2> QED BY <1>2, <1>4, <1>17, <2>1, <2>2 DEF IsTx
<1>19. Operation(new, ids) BY <1>5, <1>9, <1>14 DEF Operation
<1>20. \A m \in 1..Len(ids) : IF m < next + 1 THEN new[ids[m]].priority = m
                              ELSE new[ids[m]].priority > Shift
    <2> TAKE m \in 1..Len(ids)
    <2>1. CASE m = next
        <3>1. new[ids[m]].priority = m BY <1>6, <1>9, <1>14, <2>1
        <3> QED BY <1>7, <2>1, <3>1
    <2>2. CASE m # next
        <3>1. ids[m] # id /\ ids[m] \in rows BY <1>6, <1>7, <1>9, <2>2
        <3>2. new[ids[m]] = view[ids[m]] BY <1>14, <3>1
        <3>3. m < next + 1 <=> m < next BY <1>7, <2>2
        <3> QED BY <1>8, <3>2, <3>3
    <2> QED BY <2>1, <2>2
<1>21. TxOK(t) BY <1>3, <1>17, <1>18, <1>19, <1>20 DEF TxOK, Assigning
<1> QED BY <1>16, <1>21, TxStep

-----------------------------------------------------------------------------
(***************************************************************************)
(* What a transaction has written when it commits.                         *)
(***************************************************************************)
LEMMA InsertedRows ==
    ASSUME IInv, NEW view, view \in Column(DOMAIN view),
           Numbers(view) = Numbers(Inserted(table, lastId + 1, TRUE))
    PROVE  /\ Numbered(view) /\ Dense(view)
           /\ DOMAIN view = DOMAIN table \cup {lastId + 1} /\ lastId + 1 \notin DOMAIN table
           /\ \A i \in DOMAIN table : view[i].priority = table[i].priority
<1>1. PICK new, id, n : /\ new = Inserted(table, lastId + 1, TRUE) /\ id = lastId + 1
                        /\ n = Cardinality(DOMAIN table)
    OBVIOUS
<1>2. /\ DOMAIN new = DOMAIN table \cup {id} /\ id \notin DOMAIN table
      /\ new[id].priority = n + 1
      /\ \A i \in DOMAIN table : new[i].priority = table[i].priority
    BY <1>1, InsertedNumbers
<1>3. DOMAIN view = DOMAIN new /\ \A i \in DOMAIN new : view[i].priority = new[i].priority
    <2>1. /\ DOMAIN Numbers(view) = DOMAIN view /\ DOMAIN Numbers(new) = DOMAIN new
          /\ \A i \in DOMAIN view : Numbers(view)[i] = view[i].priority
          /\ \A i \in DOMAIN new : Numbers(new)[i] = new[i].priority
        BY DEF Numbers
    <2> QED BY <1>1, <2>1
<1>4. /\ Numbered(table) /\ Dense(table) /\ id \in Nat /\ n \in Nat
    BY <1>1, Committed
<1>5. IsFiniteSet(DOMAIN view) /\ Cardinality(DOMAIN view) = n + 1
    BY <1>1, <1>2, <1>3, <1>4, FS_AddElement DEF Numbered
<1>6. Numbered(view)
    <2>1. DOMAIN view \subseteq Nat BY <1>2, <1>3, <1>4 DEF Numbered
    <2> QED BY <1>5, <2>1 DEF Numbered, Column
<1>7. Dense(view)
    <2>1. {table[i].priority : i \in DOMAIN table} = 1..n
        BY <1>1, <1>4 DEF Dense, Priorities
    <2>2. {view[i].priority : i \in DOMAIN view} = 1..n \cup {n + 1}
        BY <1>2, <1>3, <2>1
    <2>3. 1..n \cup {n + 1} = 1..(n + 1) BY <1>4
    <2> QED BY <1>5, <2>2, <2>3 DEF Dense, Priorities
<1> QED BY <1>1, <1>2, <1>3, <1>6, <1>7

(* Rows that have their place in ids as number are numbered without gaps.  *)
LEMMA RenumberedRows ==
    ASSUME IInv, NEW view, view \in Column(DOMAIN view), NEW ids, Operation(view, ids),
           \A m \in 1..Len(ids) : view[ids[m]].priority = m
    PROVE  Numbered(view) /\ Dense(view)
<1>1. /\ Len(ids) \in Nat /\ Len(ids) = Cardinality(DOMAIN view)
      /\ \A m \in 1..Len(ids) : ids[m] \in DOMAIN view
      /\ \A i \in DOMAIN view : \E m \in 1..Len(ids) : ids[m] = i
      /\ DOMAIN view \subseteq DOMAIN table
    BY IdsAreTheRows
<1>2. Numbered(table) BY Committed
<1>3. IsFiniteSet(DOMAIN view) /\ DOMAIN view \subseteq Nat
    BY <1>1, <1>2, FS_Subset DEF Numbered
<1>4. Numbered(view) BY <1>3 DEF Numbered, Column
<1>5. {view[i].priority : i \in DOMAIN view} = 1..Len(ids) BY <1>1
<1> QED BY <1>1, <1>4, <1>5 DEF Dense, Priorities

LEMMA ReorderedRows ==
    ASSUME IInv, NEW view, NEW ids \in Payloads, ReorderAccepted(table, ids),
           DOMAIN view = DOMAIN table,
           \A m \in 1..Len(ids) : view[ids[m]].priority = m
    PROVE  Numbers(view) = Numbers(Reordered(table, ids))
<1>1. PICK new : new = Reordered(table, ids) OBVIOUS
<1>2. ids \in Seq(Nat) /\ Len(ids) \in Nat /\ Range(ids) = DOMAIN table
    BY RewriteAssumption, Committed, AcceptedPayloadIsPermutation
<1>3. DOMAIN new = DOMAIN table BY <1>1 DEF Reordered, WithPriorities
<1>4. ASSUME NEW i \in DOMAIN table PROVE new[i].priority = view[i].priority
    <2>0. /\ \A n \in 1..Len(ids) : ids[n] \in DOMAIN table /\ LastPosition(ids, ids[n]) = n
          /\ \A j \in DOMAIN table : \E n \in 1..Len(ids) : ids[n] = j
        BY <1>2, Committed, PayloadPositions
    <2>1. PICK m \in 1..Len(ids) : ids[m] = i /\ LastPosition(ids, i) = m
        BY <2>0
    <2>2. table[i] \in [priority : Nat] BY Committed
    <2>3. new[i] = [table[i] EXCEPT !.priority = m]
        BY <1>1, <1>2, <2>1 DEF Reordered, WithPriorities
    <2> QED BY <2>1, <2>2, <2>3
<1> QED BY <1>1, <1>3, <1>4 DEF Numbers

LEMMA DeletedRows ==
    ASSUME IInv, NEW view, NEW ids, NEW id \in DOMAIN table,
           DOMAIN view = DOMAIN table \ {id}, ids = Listing(Without(table, id)),
           \A m \in 1..Len(ids) : view[ids[m]].priority = m
    PROVE  /\ Numbers(view) = Numbers(Deleted(table, id))
           /\ \A i \in DOMAIN view : view[i].priority = Rank(Without(table, id), i)
<1>1. PICK w, n, new : w = Without(table, id) /\ n = Cardinality(DOMAIN w) /\ new = Deleted(table, id)
    OBVIOUS
<1>2. /\ Numbered(w) /\ DOMAIN w = DOMAIN view
      /\ \A i \in DOMAIN w : w[i] = table[i]
    BY <1>1, WithoutIsNumbered
<1>3. /\ n \in Nat /\ ids \in [1..n -> DOMAIN w]
      /\ \A i \in DOMAIN w : Rank(w, i) \in 1..n /\ ids[Rank(w, i)] = i
    BY <1>1, <1>2, ListingByRank
<1>4. Len(ids) = n
    <2>1. DOMAIN w \subseteq Nat BY <1>2 DEF Numbered
    <2> QED BY <1>3, <2>1
<1>5. \A i \in DOMAIN view : view[i].priority = Rank(w, i) BY <1>2, <1>3, <1>4
<1>6. DOMAIN new = DOMAIN w BY <1>1 DEF Deleted, Normalized, WithPriorities
<1>7. ASSUME NEW i \in DOMAIN w PROVE new[i].priority = Rank(w, i)
    <2>1. w[i] \in [priority : Nat] BY <1>2, Committed
    <2>2. new[i] = [w[i] EXCEPT !.priority = Rank(w, i)]
        BY <1>1 DEF Deleted, Normalized, WithPriorities
    <2> QED BY <2>1, <2>2
<1>8. Numbers(view) = Numbers(new) BY <1>2, <1>5, <1>6, <1>7 DEF Numbers
<1> QED BY <1>1, <1>5, <1>8

(* What a committing transaction leaves behind, as one operation.          *)
CreatesRow(view) ==
    /\ lastId < MaxId
    /\ DOMAIN view = DOMAIN table \cup {lastId + 1} /\ lastId + 1 \notin DOMAIN table
    /\ \A i \in DOMAIN table : view[i].priority = table[i].priority
    /\ Numbers(view) = Numbers(Inserted(table, lastId + 1, TRUE))

DeletesRow(view, id) ==
    /\ DOMAIN view = DOMAIN table \ {id}
    /\ Numbers(view) = Numbers(Deleted(table, id))
    /\ \A i \in DOMAIN view : view[i].priority = Rank(Without(table, id), i)

ReordersRows(view, ids) ==
    /\ ReorderAccepted(table, ids) /\ DOMAIN view = DOMAIN table
    /\ Numbers(view) = Numbers(Reordered(table, ids))

LEMMA CommitMeans ==
    ASSUME IInv, Commit, NEW view, view = tx.view
    PROVE  /\ table' = view /\ tx' = NoTx /\ lastId' \in 0..MaxId
           /\ view \in Column(DOMAIN view) /\ DOMAIN view \subseteq 1..lastId'
           /\ Numbered(view) /\ Dense(view)
           /\ \/ lastId' = lastId + 1 /\ CreatesRow(view)
              \/ lastId' = lastId /\ \E id \in DOMAIN table : DeletesRow(view, id)
              \/ lastId' = lastId /\ \E ids \in Payloads : ReordersRows(view, ids)
<1>1. table' = view /\ tx' = NoTx /\ lastId' = tx.last BY DEF Commit
<1>2. TxOK(tx) BY TxHasStage DEF Commit
<1>3. /\ tx.last \in 0..MaxId /\ view \in Column(DOMAIN view)
      /\ DOMAIN view \subseteq 1..tx.last
    BY <1>2 DEF TxOK, IsTx
<1>4. CASE tx.stage = "commit"
    <2>1. Committing(tx) BY <1>2, <1>4 DEF TxOK
    <2>2. tx.last = lastId + 1 /\ Numbers(view) = Numbers(Inserted(table, lastId + 1, TRUE))
        BY <2>1 DEF Committing
    <2>3. /\ Numbered(view) /\ Dense(view)
          /\ DOMAIN view = DOMAIN table \cup {lastId + 1} /\ lastId + 1 \notin DOMAIN table
          /\ \A i \in DOMAIN table : view[i].priority = table[i].priority
        BY <1>3, <2>2, InsertedRows
    <2>4. lastId < MaxId BY <1>3, <2>2, Committed
    <2>5. CreatesRow(view) BY <2>2, <2>3, <2>4 DEF CreatesRow
    <2> QED BY <1>1, <1>3, <2>2, <2>3, <2>5
<1>5. CASE tx.stage = "assign" /\ tx.next > Len(tx.ids)
    <2>1. Assigning(tx) /\ IsTx(tx) BY <1>2, <1>5 DEF TxOK
    <2>2. PICK ids : ids = tx.ids OBVIOUS
    <2>3. tx.last = lastId /\ Operation(view, ids) BY <2>1, <2>2 DEF Assigning
    <2>4. tx.next \in Nat /\ Len(ids) \in Nat BY <2>1, <2>2 DEF IsTx
    <2>5. \A m \in 1..Len(ids) : view[ids[m]].priority = m
        BY <1>5, <2>1, <2>2, <2>4 DEF Assigning
    <2>6. Numbered(view) /\ Dense(view) BY <1>3, <2>3, <2>5, RenumberedRows
    <2>7. CASE ids \in Payloads /\ ReorderAccepted(table, ids) /\ DOMAIN view = DOMAIN table
        <3>1. Numbers(view) = Numbers(Reordered(table, ids)) BY <2>5, <2>7, ReorderedRows
        <3>2. ReordersRows(view, ids) BY <2>7, <3>1 DEF ReordersRows
        <3> QED BY <1>1, <1>3, <2>3, <2>6, <2>7, <3>2
    <2>8. ASSUME NEW id \in DOMAIN table, DOMAIN view = DOMAIN table \ {id},
                 ids = Listing(Without(table, id))
          PROVE  DeletesRow(view, id)
        <3>1. /\ Numbers(view) = Numbers(Deleted(table, id))
              /\ \A i \in DOMAIN view : view[i].priority = Rank(Without(table, id), i)
            BY <2>5, <2>8, DeletedRows
        <3> QED BY <2>8, <3>1 DEF DeletesRow
    <2>9. \/ ids \in Payloads /\ ReorderAccepted(table, ids) /\ DOMAIN view = DOMAIN table
          \/ \E id \in DOMAIN table : DeletesRow(view, id)
        BY <2>3, <2>8 DEF Operation
    <2> QED BY <1>1, <1>3, <2>3, <2>6, <2>7, <2>9
<1> QED BY <1>4, <1>5 DEF Commit

-----------------------------------------------------------------------------
(***************************************************************************)
(* The invariant.                                                          *)
(***************************************************************************)
LEMMA InitIInv == Init => IInv
<1> SUFFICES ASSUME Init PROVE IInv OBVIOUS
<1>1. DOMAIN table = {} BY DEF Init
<1>2. TypeOK BY <1>1, RewriteAssumption, ShiftIsNatural DEF Init, TypeOK, Column
<1>3. Dense(table) BY <1>1, FS_EmptySet DEF Dense, Priorities
<1> QED BY <1>2, <1>3 DEF Init, IInv

LEMMA CommitStep ==
    ASSUME IInv, Commit
    PROVE  IInv'
<1>1. PICK view : view = tx.view OBVIOUS
<1>2. /\ table' = view /\ tx' = NoTx /\ lastId' \in 0..MaxId
      /\ view \in Column(DOMAIN view) /\ DOMAIN view \subseteq 1..lastId'
      /\ Dense(view)
    BY <1>1, CommitMeans
<1>3. TypeOK' BY <1>2 DEF TypeOK
<1>4. Dense(table)' BY <1>2 DEF Dense, Priorities
<1> QED BY <1>2, <1>3, <1>4 DEF IInv

LEMMA NextIInv == IInv /\ [Next]_vars => IInv'
<1> SUFFICES ASSUME IInv, [Next]_vars PROVE IInv' OBVIOUS
<1>1. CASE \/ BeginCreate
           \/ \E id \in Ids : BeginDelete(id)
           \/ \E ids \in Payloads : BeginReorder(ids)
    BY <1>1, BeginSteps
<1>2. CASE InsertRow BY <1>2, InsertRowStep
<1>3. CASE \E id \in Ids : ShiftRow(id) BY <1>3, ShiftRowStep
<1>4. CASE ShiftDone BY <1>4, ShiftDoneStep
<1>5. CASE AssignRow BY <1>5, AssignRowStep
<1>6. CASE Commit BY <1>6, CommitStep
<1>7. CASE Rollback
    <2>1. PICK t : t = NoTx /\ tx' = t BY <1>7 DEF Rollback
    <2> QED BY <1>7, <2>1, TxStep DEF Rollback
<1>8. CASE UNCHANGED vars
    BY <1>8 DEF vars, IInv, TypeOK, Dense, TxOK, Inserting, Shifting, Assigning, Committing, Operation
<1>9. CASE \E id \in Ids : RefuseDelete(id) BY <1>8, <1>9 DEF RefuseDelete
<1>10. CASE \E ids \in Payloads : RefuseReorder(ids) BY <1>8, <1>10 DEF RefuseReorder
<1> QED
    BY <1>1, <1>2, <1>3, <1>4, <1>5, <1>6, <1>7, <1>8, <1>9, <1>10 DEF Next

(* The invariant holds of every reachable state.                           *)
THEOREM Invariant == Spec => []IInv
BY InitIInv, NextIInv, PTL DEF Spec

(* CreateUpstreamKey, DeleteUpstreamKey, ReorderUpstreamKeys: rows have    *)
(* ids the sequence has given out, in the table and in the transaction.    *)
THEOREM TypesAreRight == Spec => []TypeOK
<1>1. IInv => TypeOK BY DEF IInv
<1> QED BY <1>1, Invariant, PTL

(* No statement of a create, a delete or a reorder meets the unique index  *)
(* on priority: rows that wait to be numbered are all beyond Shift, so the *)
(* next number is free (normalizePrioritiesTx, ReorderUpstreamKeys).       *)
THEOREM NoWriteClashes == Spec => []NoClash
<1>1. IInv => NoClash BY DEF IInv, NoClash, TxOK, NoTx
<1> QED BY <1>1, Invariant, PTL

(* The numbers that statements write one by one are those KeyTable writes  *)
(* at once, so the models that use KeyTable see what is committed.         *)
THEOREM CommitsAreTheOperations == Spec => CommitsAreOperations
<1>1. ASSUME IInv, Commit PROVE Numbers(table') \in Outcomes
    <2>1. PICK view : view = tx.view OBVIOUS
    <2>2. /\ table' = view
          /\ \/ CreatesRow(view)
             \/ \E id \in DOMAIN table : DeletesRow(view, id)
             \/ \E ids \in Payloads : ReordersRows(view, ids)
        BY <1>1, <2>1, CommitMeans
    <2>3. CASE CreatesRow(view)
        <3>1. Numbers(view) = Numbers(Inserted(table, lastId + 1, TRUE))
            BY <2>3 DEF CreatesRow
        <3> QED BY <2>2, <3>1 DEF Outcomes
    <2>4. CASE \E id \in DOMAIN table : DeletesRow(view, id)
        BY <2>2, <2>4 DEF Outcomes, DeletesRow
    <2>5. CASE \E ids \in Payloads : ReordersRows(view, ids)
        BY <2>2, <2>5 DEF Outcomes, ReordersRows
    <2> QED BY <2>2, <2>3, <2>4, <2>5
<1>2. [Next]_vars => table' = table \/ Commit
    BY DEF Next, vars, BeginCreate, BeginDelete, BeginReorder, Begin, RefuseDelete,
           RefuseReorder, InsertRow, Insert, ShiftRow, AssignRow, Update, Write,
           ShiftDone, Rollback
<1>3. IInv /\ [Next]_vars => (table' # table => Numbers(table') \in Outcomes)
    BY <1>1, <1>2
<1> QED BY <1>3, Invariant, PTL DEF Spec, CommitsAreOperations

-----------------------------------------------------------------------------
(***************************************************************************)
(* Readers see the operations of KeyOrder.                                 *)
(***************************************************************************)
LEMMA CommitsAreOrderSteps ==
    ASSUME IInv, Commit
    PROVE  Order!Next
<1>1. PICK view, r : view = tx.view /\ r = Listing(view) OBVIOUS
<1>2. /\ table' = view /\ Numbered(view) /\ Dense(view)
      /\ \/ lastId' = lastId + 1 /\ CreatesRow(view)
         \/ lastId' = lastId /\ \E id \in DOMAIN table : DeletesRow(view, id)
         \/ lastId' = lastId /\ \E ids \in Payloads : ReordersRows(view, ids)
    BY <1>1, CommitMeans
<1>3. Listing(table') = r BY <1>1, <1>2
<1>4. Numbered(table) /\ Dense(table) BY Committed
<1>5. \A s : Order!Range(s) = Range(s) BY DEF Range, Order!Range
<1>6. CASE lastId' = lastId + 1 /\ CreatesRow(view)
    <2>1. PICK id : id = lastId + 1 OBVIOUS
    <2>2. /\ id \notin DOMAIN table /\ DOMAIN view = DOMAIN table \cup {id}
          /\ \A i \in DOMAIN table : view[i].priority = table[i].priority
        BY <1>6, <2>1 DEF CreatesRow
    <2>3. r = Append(Listing(table), id) BY <1>1, <1>2, <1>4, <2>2, ListingGrows
    <2>4. Order!Create BY <1>3, <1>6, <2>1, <2>3 DEF Order!Create
    <2> QED BY <2>4 DEF Order!Next
<1>7. ASSUME NEW id \in DOMAIN table, lastId' = lastId, DeletesRow(view, id)
      PROVE  Order!Next
    <2>1. /\ DOMAIN view = DOMAIN table \ {id}
          /\ \A i \in DOMAIN view : view[i].priority = Rank(Without(table, id), i)
        BY <1>7 DEF DeletesRow
    <2>2. \E n \in DOMAIN Listing(table) :
              /\ Listing(table)[n] = id
              /\ r = [m \in 1..(Len(Listing(table)) - 1) |->
                         Listing(table)[IF m < n THEN m ELSE m + 1]]
        BY <1>1, <1>2, <1>4, <2>1, ListingShrinks
    <2>3. Order!Delete(id) BY <1>3, <1>7, <2>2 DEF Order!Delete
    <2>4. id \in Range(Listing(table)) BY <1>4, ListingIsSequence
    <2> QED BY <1>5, <2>3, <2>4 DEF Order!Next
<1>8. CASE lastId' = lastId /\ \E ids \in Payloads : ReordersRows(view, ids)
    <2>1. DOMAIN view = DOMAIN table BY <1>8 DEF ReordersRows
    <2>2. /\ r \in [DOMAIN Listing(table) -> Range(Listing(table))]
          /\ Range(r) = Range(Listing(table))
        BY <1>1, <1>2, <1>4, <2>1, ListingPermutes
    <2>3. Order!Reorder BY <1>3, <1>8, <1>5, <2>2 DEF Order!Reorder
    <2> QED BY <2>3 DEF Order!Next
<1> QED BY <1>2, <1>6, <1>7, <1>8

(* The order readers list changes only as KeyOrder allows: statements and  *)
(* rollbacks are invisible, and a commit is one whole create, delete or    *)
(* reorder (CreateUpstreamKey, DeleteUpstreamKey, ReorderUpstreamKeys).    *)
THEOREM ImplementsKeyOrder == Spec => OrderSpec
<1>1. Init => Order!Init
    <2> SUFFICES ASSUME Init PROVE Order!Init OBVIOUS
    <2>1. Listing(table) = << >> /\ lastId = 0 BY EmptyListing DEF Init
    <2> QED BY <2>1 DEF Order!Init
<1>2. IInv /\ [Next]_vars => [Order!Next]_(Order!orderVars)
    <2> SUFFICES ASSUME IInv, [Next]_vars PROVE [Order!Next]_(Order!orderVars) OBVIOUS
    <2>1. CASE Commit BY <2>1, CommitsAreOrderSteps
    <2>2. (table' = table /\ lastId' = lastId) \/ Commit
        BY DEF Next, vars, BeginCreate, BeginDelete, BeginReorder, Begin, RefuseDelete,
               RefuseReorder, InsertRow, Insert, ShiftRow, AssignRow, Update, Write,
               ShiftDone, Rollback
    <2>3. CASE table' = table /\ lastId' = lastId
        <3>1. Listing(table)' = Listing(table) BY <2>3 DEF Listing, Rank, Before
        <3> QED BY <2>3, <3>1 DEF Order!orderVars
    <2> QED BY <2>1, <2>2, <2>3
<1> QED BY <1>1, <1>2, Invariant, PTL DEF Spec, OrderSpec, Order!Spec
=============================================================================
