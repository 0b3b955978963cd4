--------------------------- MODULE FailoverProofs ---------------------------
(***************************************************************************)
(* Failover for any number of requests, keys, thresholds and cooldowns:    *)
(* types, the numbering of the keys, and that cooldown and threshold go    *)
(* together.  The inductive invariant adds to these what a request may     *)
(* hold while it is between two steps.                                     *)
(***************************************************************************)
EXTENDS Failover, KeyTableProofs

(* A request's variables: the key it holds is one that was given out, a    *)
(* threshold it holds was in force once, and 401 is not to be recorded.    *)
Local(r) ==
    /\ r \in Request
    /\ r.pc \in {"sent", "body", "mark", "record", "update"} => r.key \in 1..lastId
    /\ r.pc \in {"mark", "record", "update"} => r.status # "unauthorized"
    /\ r.pc \in {"record", "update"} => r.threshold \in seen

LocalsOK == \A h \in Handlers : Local(req[h])

(* A transaction that is open is the only one, and what it has read is     *)
(* what is in the table.                                                   *)
InTransaction ==
    \A h \in Handlers : req[h].pc = "update" =>
        /\ req[h].key \in DOMAIN keys
        /\ req[h].row = keys[req[h].key]
        /\ \A g \in Handlers \ {h} : req[g].pc # "update"

(* The column counts what was committed. *)
StreaksOK == \A i \in Ids : streak[i] = IF i \in DOMAIN keys THEN keys[i].failures ELSE 0

IInv ==
    /\ TypeOK
    /\ LocalsOK
    /\ config.threshold \in seen
    /\ PrioritiesDense
    /\ CooldownOnlyAtThreshold
    /\ InTransaction
    /\ StreaksOK

(* The part of it that is about one row. *)
RowOK(row) ==
    /\ row \in Row
    /\ row.cooldown # NULL => \E t \in seen : row.failures >= t

-----------------------------------------------------------------------------
(* What the fields of a request are at each of its program points. *)
LEMMA RequestFields ==
    ASSUME NEW r \in Request
    PROVE  /\ r.pc = "keys" => r.egress \in EgressStates
           /\ r.pc \in {"sent", "body", "mark", "record", "update"} => r.key \in Ids
           /\ r.pc \in {"body", "mark", "record", "update"} => r.status \in Statuses
           /\ r.pc \in {"mark", "record", "update"} => r.success \in BOOLEAN
           /\ r.pc \in {"record", "update"} =>
                  r.threshold \in Thresholds /\ r.cooldown \in Cooldowns
           /\ r.pc = "update" => r.row \in Row
BY DEF Request, Idle, Logging

(* Every local value a step may write is a request. *)
LEMMA LocalValues ==
    ASSUME IInv
    PROVE  /\ Local(Idle) /\ Local([pc |-> "config"])
           /\ \A b \in BOOLEAN : Local(Logging(b))
           /\ \A e \in EgressStates : Local([pc |-> "keys", egress |-> e])
           /\ \A k \in 1..lastId : Local([pc |-> "sent", key |-> k])
           /\ \A k \in 1..lastId, s \in Statuses :
                  Local([pc |-> "body", key |-> k, status |-> s])
           /\ \A k \in 1..lastId, s \in Statuses \ {"unauthorized"}, b \in BOOLEAN :
                  Local([pc |-> "mark", key |-> k, status |-> s, success |-> b])
           /\ \A k \in 1..lastId, s \in Statuses \ {"unauthorized"}, b \in BOOLEAN,
                 t \in Thresholds \cap seen, c \in Cooldowns :
                  Local([pc |-> "record", key |-> k, status |-> s, success |-> b,
                         threshold |-> t, cooldown |-> c])
           /\ \A k \in 1..lastId, s \in Statuses \ {"unauthorized"}, b \in BOOLEAN,
                 t \in Thresholds \cap seen, c \in Cooldowns, row \in Row :
                  Local([pc |-> "update", key |-> k, status |-> s, success |-> b,
                         threshold |-> t, cooldown |-> c, row |-> row])
<1>1. \A k \in 1..lastId : k \in Ids
    BY BoundAssumption DEF IInv, TypeOK, Ids
<1>2. Local(Idle) /\ Local([pc |-> "config"]) BY DEF Local, Request, Idle
<1>3. \A b \in BOOLEAN : Local(Logging(b)) BY DEF Local, Request, Logging
<1>4. \A e \in EgressStates : Local([pc |-> "keys", egress |-> e])
    BY DEF Local, Request
<1>5. \A k \in 1..lastId : Local([pc |-> "sent", key |-> k])
    BY <1>1 DEF Local, Request
<1>6. \A k \in 1..lastId, s \in Statuses :
                  Local([pc |-> "body", key |-> k, status |-> s])
    BY <1>1 DEF Local, Request
<1>7. \A k \in 1..lastId, s \in Statuses \ {"unauthorized"}, b \in BOOLEAN :
                  Local([pc |-> "mark", key |-> k, status |-> s, success |-> b])
    BY <1>1 DEF Local, Request
<1>8. \A k \in 1..lastId, s \in Statuses \ {"unauthorized"}, b \in BOOLEAN,
                 t \in Thresholds \cap seen, c \in Cooldowns :
                  Local([pc |-> "record", key |-> k, status |-> s, success |-> b,
                         threshold |-> t, cooldown |-> c])
    BY <1>1 DEF Local, Request
<1>9. \A k \in 1..lastId, s \in Statuses \ {"unauthorized"}, b \in BOOLEAN,
                 t \in Thresholds \cap seen, c \in Cooldowns, row \in Row :
                  Local([pc |-> "update", key |-> k, status |-> s, success |-> b,
                         threshold |-> t, cooldown |-> c, row |-> row])
    BY <1>1 DEF Local, Request
<1> QED BY <1>2, <1>3, <1>4, <1>5, <1>6, <1>7, <1>8, <1>9

(* The keys are a finite table of well formed rows. *)
LEMMA KeysIsTable ==
    ASSUME TypeOK
    PROVE  IsTable(keys)
<1>1. IsFiniteSet(1..lastId) BY BoundAssumption, FS_Interval DEF TypeOK
<1>2. IsFiniteSet(DOMAIN keys) BY <1>1, FS_Subset DEF TypeOK
<1> QED BY <1>2, BoundAssumption DEF TypeOK, IsTable

(* The invariant, read one row at a time. *)
LEMMA RowsAreOK ==
    ASSUME IInv
    PROVE  \A i \in DOMAIN keys : RowOK(keys[i])
BY DEF IInv, TypeOK, RowOK, CooldownOnlyAtThreshold

-----------------------------------------------------------------------------
(* A step of a request other than the recording of its result writes only  *)
(* its own variables, and leaves them well formed.                         *)
RequestStep(h) ==
    \/ Arrive(h) \/ SelectConfig(h) \/ SelectFails(h) \/ SelectNone(h)
    \/ EgressUnusable(h) \/ SelectKey(h) \/ MarkConfig(h) \/ MarkFails(h) \/ Log(h)
    \/ RecordRead(h) \/ RecordNothing(h)
    \/ Answer(h) \/ BodyEnds(h) \/ BodyBreaks(h)

(* Who is in a transaction has just begun it, and has read its key's row.  *)
Begins(r) ==
    r.pc = "update" => Connected /\ r.key \in DOMAIN keys /\ r.row = keys[r.key]

(* Such a step only replaces the request's variables by well formed ones:  *)
(* the key it takes exists, the threshold it takes is in force.            *)
LEMMA RequestStepIsLocal ==
    ASSUME IInv, NEW h \in Handlers, RequestStep(h)
    PROVE  UnchangedStore /\ \E r : Local(r) /\ Begins(r) /\ Goto(h, r)
<1> DEFINE r == req[h]
<1>1. r \in Request /\ Local(r)
    BY DEF IInv, TypeOK, LocalsOK
<1>2. /\ r.pc \in {"sent", "body", "mark", "record"} => r.key \in 1..lastId
      /\ r.pc \in {"mark", "record"} => r.status \in Statuses \ {"unauthorized"}
      /\ r.pc \in {"body"} => r.status \in Statuses
      /\ r.pc \in {"mark", "record"} => r.success \in BOOLEAN
      /\ r.pc = "record" => r.threshold \in Thresholds \cap seen /\ r.cooldown \in Cooldowns
    BY <1>1, RequestFields DEF Local
<1>3. \A s \in Statuses, b \in BOOLEAN :
          r.pc \in {"sent", "body"} => Local(Outcome(h, s, b)) /\ Begins(Outcome(h, s, b))
    BY <1>2, LocalValues DEF Outcome, Counted, Begins, Logging
<1>4. CASE Arrive(h) BY <1>4, LocalValues DEF Arrive, Begins
<1>5. CASE SelectConfig(h)
    <2>1. config.egress \in EgressStates BY DEF IInv, TypeOK, Config
    <2> QED BY <1>5, <2>1, LocalValues DEF SelectConfig, Begins
<1>6. CASE SelectFails(h) BY <1>6, LocalValues DEF SelectFails, Begins, Logging
<1>7. CASE SelectNone(h) BY <1>7, LocalValues DEF SelectNone, Begins, Logging
<1>8. CASE EgressUnusable(h) BY <1>8, LocalValues DEF EgressUnusable, Begins, Logging
<1>9. CASE SelectKey(h)
    <2>1. Available(keys) \in SUBSET DOMAIN keys /\ Available(keys) # {}
        BY <1>9 DEF SelectKey, Available
    <2>2. First(keys, Available(keys)) \in DOMAIN keys
        BY <2>1, KeysIsTable, TablesAreNumbered, FirstIsFirst DEF IInv
    <2>3. First(keys, Available(keys)) \in 1..lastId
        BY <2>2 DEF IInv, TypeOK
    <2> QED BY <1>9, <2>3, LocalValues DEF SelectKey, Begins
<1>10. CASE MarkConfig(h)
    <2>1. config.threshold \in Thresholds \cap seen /\ config.cooldown \in Cooldowns
        BY DEF IInv, TypeOK, Config
    <2> QED BY <1>2, <1>10, <2>1, LocalValues DEF MarkConfig, Begins
<1>11. CASE MarkFails(h) BY <1>11, LocalValues DEF MarkFails, Begins, Logging
<1>12. CASE Log(h) BY <1>12, LocalValues DEF Log, Begins, Idle
<1>13. CASE Answer(h)
    <2>1. CASE TransportFails(h)
        BY <1>3, <2>1 DEF TransportFails, Statuses
    <2>2. ASSUME NEW s \in Statuses, Respond(h, s)
          PROVE  UnchangedStore /\ \E x : Local(x) /\ Begins(x) /\ Goto(h, x)
        BY <1>2, <2>2, LocalValues DEF Respond, Begins
    <2> QED BY <1>13, <2>1, <2>2 DEF Answer
<1>14. CASE BodyEnds(h) BY <1>2, <1>3, <1>14 DEF BodyEnds
<1>15. CASE BodyBreaks(h) BY <1>2, <1>3, <1>15 DEF BodyBreaks
<1>16. CASE RecordRead(h)
    <2>1. r.key \in DOMAIN keys /\ keys[r.key] \in Row
        BY <1>16 DEF RecordRead, IInv, TypeOK
    <2> QED BY <1>2, <1>16, <2>1, LocalValues DEF RecordRead, Begins
<1>17. CASE RecordNothing(h) BY <1>17, LocalValues DEF RecordNothing, Begins, Logging
<1> QED BY <1>4, <1>5, <1>6, <1>7, <1>8, <1>9, <1>10, <1>11, <1>12, <1>13,
           <1>14, <1>15, <1>16, <1>17 DEF RequestStep

(* Requests stay well formed when one of them moves: ids and thresholds    *)
(* that were given out stay given out.                                     *)
LEMMA LocalPreserved ==
    ASSUME IInv, UNCHANGED lastId, seen \subseteq seen', NEW h \in Handlers,
           NEW r, Local(r), Goto(h, r)
    PROVE  req' \in [Handlers -> Request] /\ LocalsOK'
<1>1. \A x : Local(x) => Local(x)'
    BY DEF Local, Request
<1>2. req' = [req EXCEPT ![h] = r] /\ req \in [Handlers -> Request] /\ r \in Request
    BY DEF Goto, IInv, TypeOK, Local
<1>3. \A g \in Handlers : Local(req'[g])
    BY <1>2 DEF IInv, LocalsOK
<1> QED BY <1>1, <1>2, <1>3 DEF LocalsOK

(* Requests stay well formed when none of them moves. *)
LEMMA OthersPreserved ==
    ASSUME IInv, UNCHANGED <<lastId, req>>, seen \subseteq seen'
    PROVE  req' \in [Handlers -> Request] /\ LocalsOK'
<1>1. \A x : Local(x) => Local(x)'
    BY DEF Local, Request
<1> QED BY <1>1 DEF IInv, TypeOK, LocalsOK

(* A step while the connection is free finds no transaction and opens none.*)
LEMMA NoTransaction ==
    ASSUME Connected, UNCHANGED req
    PROVE  InTransaction'
BY DEF Connected, InTransaction

(* The history goes on as long as rows and their counts stay. *)
LEMMA StreaksStay ==
    ASSUME IInv, UNCHANGED streak, DOMAIN keys' = DOMAIN keys,
           \A i \in DOMAIN keys : keys'[i].failures = keys[i].failures
    PROVE  streak' \in [Ids -> Nat] /\ StreaksOK'
BY DEF IInv, TypeOK, StreaksOK, Ids

(* The invariant after a step that leaves a well formed table behind. *)
LEMMA StoreStep ==
    ASSUME IInv, IsTable(keys'), Dense(keys'),
           DOMAIN keys' \subseteq 1..lastId', lastId' \in 0..MaxId,
           \A i \in DOMAIN keys' : RowOK(keys'[i]),
           UNCHANGED <<config, seen>>,
           req' \in [Handlers -> Request], LocalsOK', InTransaction',
           streak' \in [Ids -> Nat], StreaksOK'
    PROVE  IInv'
<1>1. TypeOK' BY DEF TypeOK, IInv, IsTable, Config, Ids
<1>2. PrioritiesDense' BY DEF PrioritiesDense, Dense
<1>3. CooldownOnlyAtThreshold' BY DEF CooldownOnlyAtThreshold, RowOK
<1> QED BY <1>1, <1>2, <1>3 DEF IInv

(* A row that differs in enabled or priority alone is as well formed. *)
LEMMA SameHealth ==
    ASSUME NEW row, RowOK(row), NEW other \in Row,
           other.failures = row.failures, other.cooldown = row.cooldown
    PROVE  RowOK(other)
BY DEF RowOK

(* A row that was never failed is well formed. *)
LEMMA HealthyRow ==
    ASSUME NEW row \in Row, row.failures = 0, row.cooldown = NULL
    PROVE  RowOK(row)
BY DEF RowOK

(* What a result makes of the count and the cooldown of a row. *)
LEMMA WhatResultsDo ==
    ASSUME NEW row \in Row, NEW success \in BOOLEAN,
           NEW threshold \in Thresholds, NEW cooldown \in Cooldowns,
           NEW new, new = AfterResult(row, success, threshold, cooldown)
    PROVE  /\ new \in Row
           /\ success => new.failures = 0 /\ new.cooldown = NULL
           /\ ~ success => /\ new.failures = row.failures + 1
                           /\ new.cooldown = IF row.failures + 1 >= threshold
                                             THEN cooldown ELSE row.cooldown
<1>1. threshold \in Nat \ {0} /\ cooldown \in Nat \ {0}
    BY ConfigAssumption
<1>2. row.failures \in Nat /\ row.cooldown \in Nat \cup {NULL}
    BY DEF Row
<1>3. CASE success
    BY <1>3 DEF AfterResult, Succeeded, Row
<1>4. CASE ~ success
    <2> DEFINE count == row.failures + 1
               left == IF Tripped(count, threshold) THEN cooldown ELSE row.cooldown
    <2>1. count \in Nat /\ left \in Nat \cup {NULL}
        BY <1>1, <1>2
    <2>2. new = [row EXCEPT !.failures = count, !.cooldown = left]
        BY <1>4 DEF AfterResult, Failed
    <2>3. left = IF row.failures + 1 >= threshold THEN cooldown ELSE row.cooldown
        BY DEF Tripped
    <2>4. count = row.failures + 1 OBVIOUS
    <2> HIDE DEF left, count
    <2>5. new \in Row /\ new.failures = count /\ new.cooldown = left
        BY <2>1, <2>2 DEF Row
    <2> QED BY <1>4, <2>3, <2>4, <2>5
<1> QED BY <1>3, <1>4

(* The heart of the matter: a result keeps cooldown and threshold together *)
(* although its threshold may be out of date, because only a threshold     *)
(* that was in force once can be held, and counting is not interrupted.    *)
LEMMA ResultKeepsRowOK ==
    ASSUME IInv, NEW row, RowOK(row), NEW success \in BOOLEAN,
           NEW threshold \in Thresholds \cap seen, NEW cooldown \in Cooldowns,
           NEW new, new = AfterResult(row, success, threshold, cooldown)
    PROVE  RowOK(new)
<1>1. row \in Row BY DEF RowOK
<1>2. row.failures \in Nat /\ \A t \in seen : t \in Nat
    BY <1>1, ConfigAssumption DEF Row, IInv, TypeOK
<1>3. CASE success
    <2>1. new = [row EXCEPT !.failures = 0, !.cooldown = NULL]
        BY <1>3 DEF AfterResult, Succeeded
    <2>2. PICK healthy : healthy = [row EXCEPT !.failures = 0, !.cooldown = NULL]
        OBVIOUS
    <2>3. healthy \in Row /\ healthy.failures = 0 /\ healthy.cooldown = NULL
        BY <1>1, <2>2 DEF Row
    <2> QED BY <2>1, <2>2, <2>3, HealthyRow
<1>4. CASE ~ success
    <2>1. /\ new \in Row /\ new.failures = row.failures + 1
          /\ new.cooldown = IF row.failures + 1 >= threshold THEN cooldown ELSE row.cooldown
        BY <1>1, <1>4, WhatResultsDo
    <2>2. \A t \in seen : row.failures >= t => new.failures >= t
        BY <1>2, <2>1
    <2> QED BY <2>1, <2>2 DEF RowOK
<1> QED BY <1>3, <1>4

-----------------------------------------------------------------------------
(* A table with the same rows, but for health, is numbered as before. *)
LEMMA SameNumbers ==
    ASSUME NEW t, IsTable(t), Dense(t), NEW u, DOMAIN u = DOMAIN t,
           u = [i \in DOMAIN t |-> u[i]],
           \A i \in DOMAIN t : u[i] \in Row /\ u[i].priority = t[i].priority
    PROVE  IsTable(u) /\ Dense(u)
<1>1. u \in [DOMAIN u -> Row] OBVIOUS
<1>2. Priorities(u) = Priorities(t) BY DEF Priorities
<1> QED BY <1>1, <1>2 DEF IsTable, Dense

(* Recording a result keeps the invariant, with a threshold that may have  *)
(* been replaced since it was read (MarkResult, RecordUpstreamResult).     *)
LEMMA RecordStep ==
    ASSUME IInv, NEW h \in Handlers, Record(h)
    PROVE  /\ IInv'
           /\ req[h].key \in DOMAIN keys
           /\ HealthOf(keys', req[h].key) =
                  LET new == AfterResult(keys[req[h].key], req[h].success,
                                         req[h].threshold, req[h].cooldown)
                  IN  <<new.failures, new.cooldown>>
<1> DEFINE r == req[h]
           row == keys[r.key]
           new == AfterResult(row, r.success, r.threshold, r.cooldown)
<1>1. /\ r.success \in BOOLEAN /\ r.threshold \in Thresholds \cap seen
      /\ r.cooldown \in Cooldowns /\ r.key \in Ids
    BY RequestFields DEF Record, IInv, TypeOK, LocalsOK, Local
<1>2. keys' = Recorded(keys, r) /\ UNCHANGED <<lastId, config, seen>>
      /\ streak' = [streak EXCEPT ![r.key] = IF r.success THEN 0 ELSE @ + 1]
    BY DEF Record
<1>3. r.key \in DOMAIN keys /\ r.row = row /\ row \in Row /\ RowOK(row)
    BY RowsAreOK DEF Record, IInv, InTransaction, TypeOK
<1>4. /\ DOMAIN keys' = DOMAIN keys
      /\ keys'[r.key] = [row EXCEPT !.failures = new.failures, !.cooldown = new.cooldown]
      /\ \A i \in DOMAIN keys \ {r.key} : keys'[i] = keys[i]
      /\ keys' = [i \in DOMAIN keys |-> keys'[i]]
    BY <1>2, <1>3 DEF Recorded
<1> HIDE DEF new
<1>5. /\ new \in Row /\ RowOK(new)
      /\ new.failures = IF r.success THEN 0 ELSE row.failures + 1
    <2> HIDE DEF r, row
    <2> QED BY <1>1, <1>3, WhatResultsDo, ResultKeepsRowOK DEF new
<1>6. /\ keys'[r.key] \in Row /\ RowOK(keys'[r.key])
      /\ keys'[r.key].priority = row.priority
      /\ keys'[r.key].failures = new.failures /\ keys'[r.key].cooldown = new.cooldown
    <2>1. PICK f, c : f = new.failures /\ c = new.cooldown OBVIOUS
    <2>2. f \in Nat /\ c \in Nat \cup {NULL} BY <1>5, <2>1 DEF Row
    <2>3. keys'[r.key] = [row EXCEPT !.failures = f, !.cooldown = c] BY <1>4, <2>1
    <2>4. /\ keys'[r.key] \in Row /\ keys'[r.key].priority = row.priority
          /\ keys'[r.key].failures = f /\ keys'[r.key].cooldown = c
        BY <1>3, <2>2, <2>3 DEF Row
    <2> QED BY <1>5, <2>1, <2>4 DEF RowOK
<1>7. \A i \in DOMAIN keys :
          RowOK(keys'[i]) /\ keys'[i] \in Row /\ keys'[i].priority = keys[i].priority
    BY <1>4, <1>6, RowsAreOK DEF RowOK
<1>8. IsTable(keys') /\ Dense(keys')
    <2>1. IsTable(keys) /\ Dense(keys)
        BY KeysIsTable DEF IInv, PrioritiesDense, Dense
    <2> QED BY <1>4, <1>7, <2>1, SameNumbers
<1>9. req' \in [Handlers -> Request] /\ LocalsOK'
    <2>1. Local(Logging(FALSE)) BY LocalValues
    <2> QED BY <1>2, <2>1, LocalPreserved DEF Record
<1>10. DOMAIN keys' \subseteq 1..lastId' /\ lastId' \in 0..MaxId
    BY <1>2, <1>4 DEF IInv, TypeOK
<1>11. InTransaction'
    <2>1. req' = [req EXCEPT ![h] = Logging(FALSE)] /\ req \in [Handlers -> Request]
        BY DEF Record, Goto, IInv, TypeOK
    <2>2. \A g \in Handlers \ {h} : req[g].pc # "update"
        BY DEF Record, IInv, InTransaction
    <2> QED BY <2>1, <2>2 DEF InTransaction, Logging
<1>12. streak' \in [Ids -> Nat] /\ StreaksOK'
    <2>1. streak \in [Ids -> Nat] /\ DOMAIN keys \subseteq Ids
        BY BoundAssumption DEF IInv, TypeOK, Ids
    <2>2. streak[r.key] = row.failures BY <1>1, <1>3 DEF IInv, StreaksOK
    <2>3. streak'[r.key] = keys'[r.key].failures
        BY <1>1, <1>2, <1>5, <1>6, <2>1, <2>2
    <2>4. streak' \in [Ids -> Nat] BY <1>1, <1>2, <2>1
    <2>5. \A i \in Ids \ {r.key} : streak'[i] = streak[i] BY <1>2, <2>1
    <2> QED BY <1>3, <1>4, <2>3, <2>4, <2>5 DEF IInv, StreaksOK
<1>13. IInv' BY <1>2, <1>4, <1>7, <1>8, <1>9, <1>10, <1>11, <1>12, StoreStep
<1> QED BY <1>3, <1>6, <1>13 DEF HealthOf, new

(* A row a tick later. *)
LEMMA OlderRow ==
    ASSUME NEW row \in Row
    PROVE  /\ Older(row) \in Row
           /\ Older(row).failures = row.failures /\ Older(row).priority = row.priority
           /\ Older(row).cooldown = NULL <=> row.cooldown = NULL
<1> DEFINE left == IF Cooling(row) THEN row.cooldown - 1 ELSE row.cooldown
<1>1. Older(row) = [row EXCEPT !.cooldown = left] BY DEF Older
<1>2. left \in Nat \cup {NULL} /\ (left = NULL <=> row.cooldown = NULL)
    BY NullAssumption DEF Row, Cooling
<1> HIDE DEF left
<1> QED BY <1>1, <1>2 DEF Row

(* What a request holds stays well formed while time passes. *)
LEMMA AgedIsLocal ==
    ASSUME NEW r, Local(r)
    PROVE  /\ Local(Aged(r)) /\ Aged(r).pc = r.pc
           /\ r.pc = "update" => Aged(r).key = r.key /\ Aged(r).row = Older(r.row)
<1>1. CASE r.pc = "update"
    <2>1. r \in [pc : {"update"}, key : Ids, status : Statuses, success : BOOLEAN,
                 threshold : Thresholds, cooldown : Cooldowns, row : Row]
        BY <1>1 DEF Local, Request, Idle, Logging
    <2>2. PICK old : old = Older(r.row) OBVIOUS
    <2>3. old \in Row BY <2>1, <2>2, OlderRow
    <2>4. Aged(r) = [r EXCEPT !.row = old] BY <1>1, <2>2 DEF Aged
    <2>5. /\ Aged(r) \in [pc : {"update"}, key : Ids, status : Statuses, success : BOOLEAN,
                          threshold : Thresholds, cooldown : Cooldowns, row : Row]
          /\ Aged(r).key = r.key /\ Aged(r).status = r.status
          /\ Aged(r).threshold = r.threshold /\ Aged(r).row = old
        BY <2>1, <2>3, <2>4
    <2> QED BY <1>1, <2>2, <2>5 DEF Local, Request
<1>2. CASE r.pc # "update"
    BY <1>2 DEF Aged
<1> QED BY <1>1, <1>2

(* Time keeps the invariant: a cooldown that ran down is 0, not NULL. *)
LEMMA TickStep ==
    ASSUME IInv, Tick
    PROVE  IInv'
<1>1. keys' = Elapsed(keys) /\ UNCHANGED <<lastId, config, seen, streak>>
      /\ req' = [h \in Handlers |-> Aged(req[h])]
    BY DEF Tick
<1>2. DOMAIN keys' = DOMAIN keys /\ keys' = [i \in DOMAIN keys |-> keys'[i]]
      /\ \A i \in DOMAIN keys : keys'[i] = Older(keys[i])
    BY <1>1 DEF Elapsed
<1>3. ASSUME NEW i \in DOMAIN keys
      PROVE  /\ RowOK(keys'[i]) /\ keys'[i].priority = keys[i].priority
             /\ keys'[i].failures = keys[i].failures
    <2>1. RowOK(keys[i]) /\ keys[i] \in Row BY RowsAreOK DEF RowOK
    <2> QED BY <1>2, <2>1, OlderRow DEF RowOK
<1>4. IsTable(keys') /\ Dense(keys')
    <2>1. IsTable(keys) /\ Dense(keys)
        BY KeysIsTable DEF IInv, PrioritiesDense, Dense
    <2>2. \A i \in DOMAIN keys : keys'[i] \in Row BY <1>3 DEF RowOK
    <2> QED BY <1>2, <1>3, <2>1, <2>2, SameNumbers
<1>5. req' \in [Handlers -> Request] /\ LocalsOK'
    <2>1. \A x : Local(x) => Local(x)' BY <1>1 DEF Local, Request
    <2>2. \A h \in Handlers : Local(Aged(req[h])) BY AgedIsLocal DEF IInv, LocalsOK
    <2>3. \A h \in Handlers : Local(req'[h]) BY <1>1, <2>2
    <2> QED BY <1>1, <2>1, <2>3 DEF LocalsOK, Local
<1>6. InTransaction'
    <2>1. ASSUME NEW h \in Handlers
          PROVE  /\ req'[h].pc = req[h].pc
                 /\ req[h].pc = "update" => /\ req'[h].key = req[h].key
                                            /\ req'[h].row = Older(req[h].row)
        <3>1. req'[h] = Aged(req[h]) /\ Local(req[h]) BY <1>1 DEF IInv, LocalsOK
        <3> QED BY <3>1, AgedIsLocal
    <2> QED BY <1>2, <2>1 DEF IInv, InTransaction
<1>7. streak' \in [Ids -> Nat] /\ StreaksOK'
    BY <1>1, <1>2, <1>3, StreaksStay
<1>8. DOMAIN keys' \subseteq 1..lastId' /\ lastId' \in 0..MaxId
    BY <1>1, <1>2 DEF IInv, TypeOK
<1> QED BY <1>1, <1>2, <1>3, <1>4, <1>5, <1>6, <1>7, <1>8, StoreStep

-----------------------------------------------------------------------------
(* The administrator's steps. *)
(* CreateUpstreamKey keeps the invariant. *)
LEMMA CreateStep ==
    ASSUME IInv, NEW enabled \in BOOLEAN, CreateKey(enabled)
    PROVE  IInv'
<1> DEFINE id == lastId + 1
<1>1. lastId \in Nat /\ id \in 1..MaxId /\ DOMAIN keys \subseteq 1..lastId
    BY BoundAssumption DEF CreateKey, IInv, TypeOK
<1>2. keys' = Inserted(keys, id, enabled) /\ lastId' = id
      /\ UNCHANGED <<config, req, seen, streak>> /\ Connected
    BY DEF CreateKey, NextId
<1> HIDE DEF id
<1>3. id \in Nat /\ id \notin DOMAIN keys
    BY <1>1 DEF id
<1>4. IsTable(keys) /\ Dense(keys)
    BY KeysIsTable DEF IInv, PrioritiesDense, Dense
<1>5. IsTable(keys') /\ Dense(keys')
    BY <1>2, <1>3, <1>4, InsertedIsDense
<1>6. DOMAIN keys' = DOMAIN keys \cup {id}
    BY <1>2 DEF Inserted
<1>7. \A i \in DOMAIN keys' : RowOK(keys'[i])
    <2>1. keys'[id] \in Row BY <1>5, <1>6 DEF IsTable
    <2>2. keys'[id].failures = 0 /\ keys'[id].cooldown = NULL
        BY <1>2 DEF Inserted, FreshRow
    <2>3. RowOK(keys'[id]) BY <2>1, <2>2, HealthyRow
    <2>4. \A i \in DOMAIN keys : keys'[i] = keys[i] BY <1>2, <1>3 DEF Inserted
    <2> QED BY <1>6, <2>3, <2>4, RowsAreOK
<1>8. req' \in [Handlers -> Request] /\ LocalsOK'
    <2>1. \A x : Local(x) => Local(x)'
        BY <1>1, <1>2 DEF Local, Request, id
    <2> QED BY <1>2, <2>1 DEF IInv, TypeOK, LocalsOK
<1>9. DOMAIN keys' \subseteq 1..lastId' /\ lastId' \in 0..MaxId
    BY <1>1, <1>2, <1>6 DEF id
<1>10. InTransaction' BY <1>2, NoTransaction
<1>11. streak' \in [Ids -> Nat] /\ StreaksOK'
    <2>1. keys'[id].failures = 0 BY <1>2 DEF Inserted, FreshRow
    <2>2. \A i \in DOMAIN keys : keys'[i] = keys[i] BY <1>2, <1>3 DEF Inserted
    <2> QED BY <1>2, <1>3, <1>6, <2>1, <2>2 DEF IInv, TypeOK, StreaksOK
<1> QED BY <1>2, <1>5, <1>7, <1>8, <1>9, <1>10, <1>11, StoreStep

(* SetUpstreamEnabled and ReplaceUpstreamKey keep the invariant. *)
LEMMA SetEnabledStep ==
    ASSUME IInv, NEW id \in DOMAIN keys, NEW enabled \in BOOLEAN,
           SetEnabled(id, enabled)
    PROVE  IInv'
<1>1. keys' = [keys EXCEPT ![id].enabled = enabled]
      /\ UNCHANGED <<lastId, config, req, seen, streak>> /\ Connected
    BY DEF SetEnabled
<1>2. IsTable(keys) /\ Dense(keys)
    BY KeysIsTable DEF IInv, PrioritiesDense, Dense
<1>3. DOMAIN keys' = DOMAIN keys /\ keys' = [i \in DOMAIN keys |-> keys'[i]]
    BY <1>1, <1>2 DEF IsTable
<1>4. ASSUME NEW i \in DOMAIN keys
      PROVE  /\ RowOK(keys'[i]) /\ keys'[i].priority = keys[i].priority
             /\ keys'[i].failures = keys[i].failures
    <2>1. RowOK(keys[i]) /\ keys[i] \in Row BY RowsAreOK DEF RowOK
    <2>2. CASE i = id
        <3>1. keys'[i] = [keys[i] EXCEPT !.enabled = enabled]
            BY <1>1, <1>2, <2>2 DEF IsTable
        <3>2. keys'[i] \in Row /\ keys'[i].failures = keys[i].failures
              /\ keys'[i].cooldown = keys[i].cooldown
              /\ keys'[i].priority = keys[i].priority
            BY <2>1, <3>1 DEF Row
        <3> QED BY <2>1, <3>2, SameHealth
    <2>3. CASE i # id
        BY <1>1, <1>2, <2>1, <2>3 DEF IsTable
    <2> QED BY <2>2, <2>3
<1>5. IsTable(keys') /\ Dense(keys')
    <2>1. \A i \in DOMAIN keys : keys'[i] \in Row BY <1>4 DEF RowOK
    <2> QED BY <1>2, <1>3, <1>4, <2>1, SameNumbers
<1>6. req' \in [Handlers -> Request] /\ LocalsOK'
    BY <1>1, OthersPreserved
<1>7. DOMAIN keys' \subseteq 1..lastId' /\ lastId' \in 0..MaxId
    BY <1>1, <1>3 DEF IInv, TypeOK
<1>8. InTransaction' /\ streak' \in [Ids -> Nat] /\ StreaksOK'
    BY <1>1, <1>3, <1>4, NoTransaction, StreaksStay
<1> QED BY <1>1, <1>3, <1>4, <1>5, <1>6, <1>7, <1>8, StoreStep

(* Renumbering moves no health. *)
LEMMA RenumberedStep ==
    ASSUME IInv, IsTable(keys'), Dense(keys'), DOMAIN keys' \subseteq DOMAIN keys,
           \A i \in DOMAIN keys' : /\ keys'[i].failures = keys[i].failures
                                   /\ keys'[i].cooldown = keys[i].cooldown,
           Connected, UNCHANGED <<lastId, config, req, seen>>,
           \A i \in Ids : streak'[i] = IF i \in DOMAIN keys' THEN streak[i] ELSE 0,
           streak' \in [Ids -> Nat]
    PROVE  IInv'
<1>1. \A i \in DOMAIN keys' : RowOK(keys'[i])
    <2>1. \A i \in DOMAIN keys' : keys'[i] \in Row BY DEF IsTable
    <2> QED BY <2>1, RowsAreOK, SameHealth
<1>2. req' \in [Handlers -> Request] /\ LocalsOK'
    BY OthersPreserved
<1>3. DOMAIN keys' \subseteq 1..lastId' /\ lastId' \in 0..MaxId
    BY DEF IInv, TypeOK
<1>4. InTransaction' BY NoTransaction
<1>5. StreaksOK' BY DEF IInv, StreaksOK
<1> QED BY <1>1, <1>2, <1>3, <1>4, <1>5, StoreStep

(* DeleteUpstreamKey keeps the invariant. *)
LEMMA DeleteStep ==
    ASSUME IInv, NEW id \in DOMAIN keys, DeleteKey(id)
    PROVE  IInv'
<1>1. keys' = Deleted(keys, id) /\ UNCHANGED <<lastId, config, req, seen>>
      /\ Connected /\ streak' = [streak EXCEPT ![id] = 0]
    BY DEF DeleteKey
<1>2. IsTable(keys) BY KeysIsTable DEF IInv
<1>3. IsTable(keys') /\ Dense(keys')
    BY <1>1, <1>2, DeletedIsDense
<1>4. DOMAIN keys' = DOMAIN keys \ {id}
    BY <1>1 DEF Deleted, Normalized, WithPriorities, Without
<1>5. ASSUME NEW i \in DOMAIN keys'
      PROVE  keys'[i].failures = keys[i].failures /\ keys'[i].cooldown = keys[i].cooldown
    <2> DEFINE p == Rank(Without(keys, id), i)
    <2>1. keys[i] \in Row BY <1>2, <1>4 DEF IsTable
    <2>2. keys'[i] = [keys[i] EXCEPT !.priority = p]
        BY <1>1, <1>4 DEF Deleted, Normalized, WithPriorities, Without
    <2> HIDE DEF p
    <2> QED BY <2>1, <2>2 DEF Row
<1>6. /\ \A i \in Ids : streak'[i] = IF i \in DOMAIN keys' THEN streak[i] ELSE 0
      /\ streak' \in [Ids -> Nat]
    <2>1. streak \in [Ids -> Nat] BY DEF IInv, TypeOK
    <2>2. \A i \in Ids \ DOMAIN keys : streak[i] = 0 BY DEF IInv, StreaksOK
    <2> QED BY <1>1, <1>4, <2>1, <2>2
<1> QED BY <1>1, <1>3, <1>4, <1>5, <1>6, RenumberedStep

(* ReorderUpstreamKeys keeps the invariant for every accepted payload. *)
LEMMA ReorderStep ==
    ASSUME IInv, NEW ids \in Payloads, Reorder(ids)
    PROVE  IInv'
<1>1. keys' = Reordered(keys, ids) /\ UNCHANGED <<lastId, config, req, seen, streak>>
      /\ Connected /\ ReorderAccepted(keys, ids) /\ ids \in Seq(Nat)
    BY BoundAssumption DEF Reorder
<1>2. IsTable(keys) BY KeysIsTable DEF IInv
<1>3. IsTable(keys') /\ Dense(keys')
    BY <1>1, <1>2, ReorderedIsDense
<1>4. DOMAIN keys' = DOMAIN keys
    BY <1>1 DEF Reordered, WithPriorities
<1>5. ASSUME NEW i \in DOMAIN keys'
      PROVE  keys'[i].failures = keys[i].failures /\ keys'[i].cooldown = keys[i].cooldown
    <2> DEFINE p == IF i \in Range(ids) THEN LastPosition(ids, i)
                    ELSE keys[i].priority + Shift
    <2>1. keys[i] \in Row BY <1>2, <1>4 DEF IsTable
    <2>2. keys'[i] = [keys[i] EXCEPT !.priority = p]
        BY <1>1, <1>4 DEF Reordered, WithPriorities
    <2> HIDE DEF p
    <2> QED BY <2>1, <2>2 DEF Row
<1>6. /\ \A i \in Ids : streak'[i] = IF i \in DOMAIN keys' THEN streak[i] ELSE 0
      /\ streak' \in [Ids -> Nat]
    BY <1>1, <1>4 DEF IInv, TypeOK, StreaksOK
<1> QED BY <1>1, <1>3, <1>4, <1>5, <1>6, RenumberedStep

(* UpdateAppConfig keeps the invariant: a new threshold is one more seen. *)
LEMMA UpdateConfigStep ==
    ASSUME IInv, NEW threshold \in Thresholds, NEW cooldown \in Cooldowns,
           NEW egress \in EgressStates, UpdateConfig(threshold, cooldown, egress)
    PROVE  IInv'
<1>1. config' = [threshold |-> threshold, cooldown |-> cooldown, egress |-> egress]
      /\ seen' = seen \cup {threshold} /\ UNCHANGED <<keys, lastId, req, streak>>
      /\ Connected
    BY DEF UpdateConfig
<1>2. req' \in [Handlers -> Request] /\ LocalsOK'
    BY <1>1, OthersPreserved
<1>3. TypeOK' BY <1>1, <1>2 DEF IInv, TypeOK, Config
<1>4. (config.threshold \in seen)' BY <1>1
<1>5. PrioritiesDense' BY <1>1 DEF IInv, PrioritiesDense
<1>6. CooldownOnlyAtThreshold' BY <1>1 DEF IInv, CooldownOnlyAtThreshold
<1>7. InTransaction' /\ StreaksOK' BY <1>1, NoTransaction, StreaksStay
<1> QED BY <1>2, <1>3, <1>4, <1>5, <1>6, <1>7 DEF IInv

-----------------------------------------------------------------------------
(* A new database satisfies the invariant. *)
LEMMA InitIInv == Init => IInv
<1> SUFFICES ASSUME Init PROVE IInv
    OBVIOUS
<1>1. keys = << >> /\ lastId = 0 /\ req = [h \in Handlers |-> Idle]
      /\ config \in [threshold : Thresholds, cooldown : Cooldowns, egress : {SeededEgress}]
      /\ seen = {config.threshold} /\ streak = [i \in Ids |-> 0]
    BY DEF Init
<1>2. DOMAIN keys = {} BY <1>1
<1>3. keys \in [DOMAIN keys -> Row] BY <1>1, <1>2
<1>4. config \in Config /\ config.threshold \in Thresholds
    BY <1>1, ConfigAssumption DEF Config
<1>5. req \in [Handlers -> Request] BY <1>1 DEF Request
<1>6. TypeOK BY <1>1, <1>2, <1>3, <1>4, <1>5, BoundAssumption DEF TypeOK
<1>7. LocalsOK BY <1>1 DEF LocalsOK, Local, Request, Idle
<1>8. PrioritiesDense
    <2>1. Cardinality(DOMAIN keys) = 0 BY <1>2, FS_EmptySet
    <2>2. Priorities(keys) = {} BY <1>2 DEF Priorities
    <2> QED BY <2>1, <2>2 DEF PrioritiesDense
<1>9. CooldownOnlyAtThreshold /\ InTransaction /\ StreaksOK
    BY <1>1, <1>2 DEF CooldownOnlyAtThreshold, InTransaction, StreaksOK, Idle
<1> QED BY <1>1, <1>6, <1>7, <1>8, <1>9 DEF IInv

(* Every step keeps the invariant. *)
LEMMA NextIInv == IInv /\ [Next]_vars => IInv'
<1> SUFFICES ASSUME IInv, [Next]_vars PROVE IInv'
    OBVIOUS
<1>1. ASSUME NEW h \in Handlers, RequestStep(h) PROVE IInv'
    <2>1. PICK r : Local(r) /\ Begins(r) /\ Goto(h, r) BY <1>1, RequestStepIsLocal
    <2>2. UNCHANGED <<keys, lastId, config, seen, streak>>
        BY <1>1, RequestStepIsLocal DEF UnchangedStore
    <2>3. req' \in [Handlers -> Request] /\ LocalsOK'
        BY <2>1, <2>2, LocalPreserved
    <2>4. IsTable(keys') /\ Dense(keys')
        BY <2>2, KeysIsTable DEF IInv, PrioritiesDense, Dense
    <2>5. DOMAIN keys' \subseteq 1..lastId' /\ lastId' \in 0..MaxId
        BY <2>2 DEF IInv, TypeOK
    <2>6. \A i \in DOMAIN keys' : RowOK(keys'[i])
        BY <2>2, RowsAreOK
    <2>7. InTransaction'
        <3>1. req' = [req EXCEPT ![h] = r] /\ req \in [Handlers -> Request]
            BY <2>1 DEF Goto, IInv, TypeOK
        <3> QED BY <2>1, <2>2, <3>1 DEF IInv, InTransaction, Begins, Connected
    <2>8. streak' \in [Ids -> Nat] /\ StreaksOK' BY <2>2, StreaksStay
    <2> QED BY <2>2, <2>3, <2>4, <2>5, <2>6, <2>7, <2>8, StoreStep
<1>2. ASSUME NEW h \in Handlers, Record(h) PROVE IInv'
    BY <1>2, RecordStep
<1>3. CASE Admin
    BY <1>3, CreateStep, SetEnabledStep, DeleteStep, ReorderStep, UpdateConfigStep
       DEF Admin
<1>4. CASE Tick
    BY <1>4, TickStep
<1>5. CASE UNCHANGED vars
    <2>1. UNCHANGED <<keys, lastId, config, req, seen, streak>> BY <1>5 DEF vars
    <2>2. IsTable(keys') /\ Dense(keys')
        BY <2>1, KeysIsTable DEF IInv, PrioritiesDense, Dense
    <2>3. \A i \in DOMAIN keys' : RowOK(keys'[i]) BY <2>1, RowsAreOK
    <2>4. req' \in [Handlers -> Request] /\ LocalsOK' BY <2>1, OthersPreserved
    <2>5. DOMAIN keys' \subseteq 1..lastId' /\ lastId' \in 0..MaxId
        BY <2>1 DEF IInv, TypeOK
    <2>6. InTransaction' BY <2>1 DEF IInv, InTransaction
    <2>7. streak' \in [Ids -> Nat] /\ StreaksOK' BY <2>1, StreaksStay
    <2> QED BY <2>1, <2>2, <2>3, <2>4, <2>5, <2>6, <2>7, StoreStep
<1> QED BY <1>1, <1>2, <1>3, <1>4, <1>5 DEF Next, Work, Trouble, RequestStep

(* The invariant holds for every behaviour of the specification. *)
THEOREM Invariant == Spec => []IInv
BY InitIInv, NextIInv, PTL DEF Spec

(* Types: in particular a request only ever holds the id of a key. *)
THEOREM TypesAreRight == Spec => []TypeOK
<1>1. IInv => TypeOK BY DEF IInv
<1> QED BY <1>1, Invariant, PTL

(* Keys stay numbered 1..n through any mix of creates, deletes, accepted   *)
(* reorders and results, for any number of keys.                           *)
THEOREM NumberingIsDense == Spec => []PrioritiesDense
<1>1. IInv => PrioritiesDense BY DEF IInv
<1> QED BY <1>1, Invariant, PTL

(* No key is cooled below every threshold, whatever the interleaving of    *)
(* requests that report and of configuration changes.                      *)
THEOREM CooldownIsEarned == Spec => []CooldownOnlyAtThreshold
<1>1. IInv => CooldownOnlyAtThreshold BY DEF IInv
<1> QED BY <1>1, Invariant, PTL

-----------------------------------------------------------------------------
(* Only its own steps move a request. *)
LEMMA OwnSteps ==
    ASSUME TypeOK, [Next]_vars, NEW h \in Handlers, req'[h].pc # req[h].pc
    PROVE  RequestStep(h) \/ Record(h)
<1>1. ASSUME NEW g \in Handlers, NEW r, Goto(g, r) PROVE g = h
    BY <1>1 DEF Goto, TypeOK
<1>2. ASSUME NEW g \in Handlers, RequestStep(g) PROVE RequestStep(h)
    <2>1. \E r : Goto(g, r)
        BY <1>2 DEF RequestStep, Arrive, SelectConfig, SelectFails, SelectNone,
               EgressUnusable, SelectKey, MarkConfig, MarkFails, Log, Answer,
               RecordRead, RecordNothing, TransportFails, Respond, BodyEnds, BodyBreaks
    <2> QED BY <1>1, <1>2, <2>1
<1>3. ASSUME NEW g \in Handlers, Record(g) PROVE Record(h)
    BY <1>1, <1>3 DEF Record
<1>4. CASE Admin
    BY <1>4 DEF Admin, CreateKey, SetEnabled, DeleteKey, Reorder, UpdateConfig
<1>5. CASE Tick BY <1>5 DEF Tick, Aged
<1>6. CASE UNCHANGED vars BY <1>6 DEF vars
<1> QED BY <1>2, <1>3, <1>4, <1>5, <1>6 DEF Next, Work, Trouble, RequestStep

(* Only four actions leave the point where keys are listed. *)
LEMMA SelectionSteps ==
    ASSUME TypeOK, [Next]_vars, NEW h \in Handlers,
           req[h].pc = "keys", req'[h].pc # "keys"
    PROVE  SelectFails(h) \/ SelectNone(h) \/ EgressUnusable(h) \/ SelectKey(h)
<1>1. RequestStep(h) \/ Record(h) BY OwnSteps
<1> QED BY <1>1 DEF RequestStep, Record, Arrive, SelectConfig, MarkConfig, MarkFails,
               RecordRead, RecordNothing, Log, Answer, TransportFails, Respond, BodyEnds, BodyBreaks

(* A step that passes over an enabled key finds it cooling, and so failed  *)
(* as often as some threshold (filterAvailable takes the first that can).  *)
LEMMA OneSwitch ==
    ASSUME IInv, [Next]_vars, NEW h \in Handlers, NEW i \in DOMAIN keys,
           keys[i].enabled, PassedOver(h, i)
    PROVE  \E t \in seen : keys[i].failures >= t
<1>1. TypeOK /\ IsTable(keys) BY KeysIsTable DEF IInv
<1>2. SelectFails(h) \/ SelectNone(h) \/ EgressUnusable(h) \/ SelectKey(h)
    BY <1>1, SelectionSteps DEF PassedOver
<1>3. \A x : Goto(h, x) => req'[h] = x
    BY <1>1 DEF TypeOK, Goto
<1>4. i \notin Available(keys)
    <2>1. CASE SelectNone(h) BY <2>1 DEF SelectNone
    <2>2. CASE SelectFails(h)
        BY <1>3, <2>2 DEF SelectFails, PassedOver, Logging
    <2>3. CASE EgressUnusable(h)
        BY <1>3, <2>3 DEF EgressUnusable, PassedOver, Logging
    <2>4. CASE SelectKey(h)
        <3> DEFINE S == Available(keys)
                   first == First(keys, S)
        <3>1. S \in SUBSET DOMAIN keys /\ S # {} BY <2>4 DEF SelectKey, Available
        <3>2. first \in S /\ \A j \in S \ {first} : Before(keys, first, j)
            <4> HIDE DEF S
            <4> QED BY <1>1, <3>1, TablesAreNumbered, FirstIsFirst
        <3>3. Before(keys, i, first)
            BY <1>3, <2>4 DEF SelectKey, PassedOver
        <3> HIDE DEF S, first
        <3>4. first \in DOMAIN keys BY <3>1, <3>2
        <3> QED BY <1>1, <3>2, <3>3, <3>4, TablesAreNumbered, BeforeIsStrictOrder DEF S
    <2> QED BY <1>2, <2>1, <2>2, <2>3, <2>4
<1>5. keys[i].cooldown # NULL
    BY <1>4 DEF Available, CanServe, Cooling
<1> QED BY <1>5 DEF IInv, CooldownOnlyAtThreshold

(* No committed failure is lost, and at the threshold each of them cools   *)
(* the key for the full time, whatever else is reported and configured.    *)
THEOREM ThresholdTrips == Spec => ThresholdAlwaysTrips
<1>1. ASSUME IInv, [Next]_vars, NEW i \in DOMAIN keys, streak'[i] > streak[i]
      PROVE  /\ keys'[i].failures = streak'[i]
             /\ (\A t \in seen : streak'[i] >= t) => keys'[i].cooldown \in Cooldowns
    <2>1. i \in Ids /\ streak \in [Ids -> Nat] /\ streak[i] = keys[i].failures
          /\ keys[i] \in Row
        BY <1>1, BoundAssumption DEF IInv, TypeOK, StreaksOK, Ids
    <2>2. streak'[i] # streak[i] BY <1>1, <2>1
    <2>3. PICK h \in Handlers : Record(h)
        <3>1. ASSUME NEW g \in Handlers, RequestStep(g) PROVE FALSE
            BY <1>1, <2>2, <3>1, RequestStepIsLocal DEF UnchangedStore
        <3>2. ASSUME NEW id \in DOMAIN keys, DeleteKey(id) PROVE FALSE
            BY <1>1, <2>1, <3>2 DEF DeleteKey
        <3> QED BY <1>1, <2>2, <3>1, <3>2
                DEF Next, Work, Trouble, RequestStep, Admin, CreateKey, SetEnabled,
                    Reorder, UpdateConfig, Tick, vars
    <2>4. PICK r : r = req[h] OBVIOUS
    <2>5. /\ r.success \in BOOLEAN /\ r.threshold \in Thresholds \cap seen
          /\ r.cooldown \in Cooldowns
        BY <1>1, <2>3, <2>4, RequestFields DEF Record, IInv, TypeOK, LocalsOK, Local
    <2>6. streak' = [streak EXCEPT ![r.key] = IF r.success THEN 0 ELSE @ + 1]
        BY <2>3, <2>4 DEF Record
    <2>7. i = r.key /\ ~ r.success /\ streak'[i] = streak[i] + 1
        BY <1>1, <2>1, <2>5, <2>6
    <2>8. PICK new : new = AfterResult(keys[i], r.success, r.threshold, r.cooldown) OBVIOUS
    <2>9. keys'[i].failures = new.failures /\ keys'[i].cooldown = new.cooldown
        BY <1>1, <2>3, <2>4, <2>7, <2>8, RecordStep DEF HealthOf
    <2>10. /\ new.failures = keys[i].failures + 1
           /\ new.cooldown = IF keys[i].failures + 1 >= r.threshold
                             THEN r.cooldown ELSE keys[i].cooldown
        BY <2>1, <2>5, <2>7, <2>8, WhatResultsDo
    <2> QED BY <2>1, <2>5, <2>7, <2>9, <2>10
<1>2. IInv /\ [Next]_vars =>
          [\A i \in DOMAIN keys : streak'[i] > streak[i] =>
              /\ keys'[i].failures = streak'[i]
              /\ (\A t \in seen : streak'[i] >= t) => keys'[i].cooldown \in Cooldowns]_vars
    BY <1>1
<1> QED BY <1>2, Invariant, PTL DEF Spec, ThresholdAlwaysTrips

(* A better key is passed over only after its failures reached a threshold *)
(* that was in force, for any number of keys and concurrent requests.      *)
THEOREM SwitchIsEarned == Spec => SwitchOnlyAfterThreshold
<1>1. IInv /\ [Next]_vars =>
          [\A h \in Handlers, i \in DOMAIN keys :
              keys[i].enabled /\ PassedOver(h, i) =>
                  \E t \in seen : keys[i].failures >= t]_vars
    BY OneSwitch
<1> QED BY <1>1, Invariant, PTL DEF Spec, SwitchOnlyAfterThreshold

(* Late results are never held against a key that took a deleted key's     *)
(* place, because no id is given twice.                                    *)
THEOREM NewKeysAreFresh == Spec => NewKeysAreNobodysKey
<1>1. ASSUME IInv, Next, NEW i \in DOMAIN keys' \ DOMAIN keys,
             NEW h \in Handlers, HoldsKey(h)
      PROVE  req[h].key # i
    <2>1. req[h].key \in 1..lastId
        BY <1>1 DEF IInv, LocalsOK, Local, HoldsKey
    <2>2. PICK enabled \in BOOLEAN : CreateKey(enabled)
        <3>1. ASSUME NEW g \in Handlers, RequestStep(g) PROVE FALSE
            BY <1>1, <3>1, RequestStepIsLocal DEF UnchangedStore
        <3>2. ASSUME NEW g \in Handlers, Record(g) PROVE FALSE
            BY <1>1, <3>2 DEF Record, Recorded
        <3>3. CASE Tick BY <1>1, <3>3 DEF Tick, Elapsed
        <3>4. ASSUME NEW id \in DOMAIN keys, NEW b \in BOOLEAN, SetEnabled(id, b)
              PROVE FALSE
            BY <1>1, <3>4 DEF SetEnabled
        <3>5. ASSUME NEW id \in DOMAIN keys, DeleteKey(id) PROVE FALSE
            BY <1>1, <3>5 DEF DeleteKey, Deleted, Normalized, WithPriorities, Without
        <3>6. ASSUME NEW ids \in Payloads, Reorder(ids) PROVE FALSE
            BY <1>1, <3>6 DEF Reorder, Reordered, WithPriorities
        <3>7. ASSUME NEW a \in Thresholds, NEW b \in Cooldowns, NEW c \in EgressStates,
                     UpdateConfig(a, b, c)
              PROVE FALSE
            BY <1>1, <3>7 DEF UpdateConfig
        <3> QED BY <1>1, <3>1, <3>2, <3>3, <3>4, <3>5, <3>6, <3>7
                DEF Next, Work, Trouble, RequestStep, Admin
    <2>3. i = lastId + 1 BY <1>1, <2>2 DEF CreateKey, Inserted, NextId
    <2>4. lastId \in Nat BY <1>1, BoundAssumption DEF IInv, TypeOK
    <2> QED BY <2>1, <2>3, <2>4
<1>2. IInv /\ [Next]_vars =>
          [\A i \in DOMAIN keys' \ DOMAIN keys :
              \A h \in Handlers : HoldsKey(h) => req[h].key # i]_vars
    BY <1>1
<1> QED BY <1>2, Invariant, PTL DEF Spec, NewKeysAreNobodysKey

(* Health moves only by a counted answer of a request to this very key, or *)
(* by time: 401s and administration never touch it.                        *)
THEOREM HealthIsEarned == Spec => HealthOnlyFromOwnResults
<1>1. ASSUME IInv, Next, NEW i \in DOMAIN keys \cap DOMAIN keys',
             HealthOf(keys', i) # HealthOf(keys, i), ~ Tick
      PROVE  \E h \in Handlers : Reports(h, i)
    <2>0. keys[i] \in Row BY <1>1 DEF IInv, TypeOK
    <2>1. PICK h \in Handlers : Record(h)
        <3>1. ASSUME NEW g \in Handlers, RequestStep(g) PROVE FALSE
            BY <1>1, <3>1, RequestStepIsLocal DEF UnchangedStore
        <3>2. ASSUME NEW b \in BOOLEAN, CreateKey(b) PROVE FALSE
            <4>1. i # NextId /\ keys' = Inserted(keys, NextId, b)
                BY <1>1, <3>2, BoundAssumption DEF CreateKey, NextId, IInv, TypeOK
            <4>2. keys'[i] = keys[i] BY <1>1, <4>1 DEF Inserted
            <4> QED BY <1>1, <4>2 DEF HealthOf
        <3>3. ASSUME NEW id \in DOMAIN keys, NEW b \in BOOLEAN, SetEnabled(id, b)
              PROVE FALSE
            BY <1>1, <2>0, <3>3 DEF SetEnabled, HealthOf, Row, IInv, TypeOK
        <3>4. ASSUME NEW id \in DOMAIN keys, DeleteKey(id) PROVE FALSE
            <4> DEFINE p == Rank(Without(keys, id), i)
            <4>1. i # id /\ keys'[i] = [keys[i] EXCEPT !.priority = p]
                BY <1>1, <3>4
                   DEF DeleteKey, Deleted, Normalized, WithPriorities, Without
            <4> HIDE DEF p
            <4> QED BY <1>1, <2>0, <4>1 DEF HealthOf, Row
        <3>5. ASSUME NEW ids \in Payloads, Reorder(ids) PROVE FALSE
            <4> DEFINE p == IF i \in Range(ids) THEN LastPosition(ids, i)
                            ELSE keys[i].priority + Shift
            <4>1. keys'[i] = [keys[i] EXCEPT !.priority = p]
                BY <1>1, <3>5 DEF Reorder, Reordered, WithPriorities
            <4> HIDE DEF p
            <4> QED BY <1>1, <2>0, <4>1 DEF HealthOf, Row
        <3>6. ASSUME NEW a \in Thresholds, NEW b \in Cooldowns, NEW c \in EgressStates,
                     UpdateConfig(a, b, c)
              PROVE FALSE
            BY <1>1, <3>6 DEF UpdateConfig
        <3> QED BY <1>1, <3>1, <3>2, <3>3, <3>4, <3>5, <3>6
                DEF Next, Work, Trouble, RequestStep, Admin
    <2>2. req[h].pc = "update" /\ req'[h] = Logging(FALSE)
        BY <1>1, <2>1 DEF Record, Goto, IInv, TypeOK
    <2>3. req[h].status # "unauthorized"
        BY <1>1, <2>2 DEF IInv, LocalsOK, Local
    <2>4. req[h].key = i
        BY <1>1, <2>1 DEF Record, Recorded, HealthOf
    <2> QED BY <2>2, <2>3, <2>4 DEF Reports, Logging
<1>2. IInv /\ [Next]_vars =>
          [\A i \in DOMAIN keys \cap DOMAIN keys' :
              HealthOf(keys', i) # HealthOf(keys, i) =>
                  (\E h \in Handlers : Reports(h, i)) \/ Tick]_vars
    BY <1>1
<1> QED BY <1>2, Invariant, PTL DEF Spec, HealthOnlyFromOwnResults

-----------------------------------------------------------------------------
(***************************************************************************)
(* The order of the keys is that of KeyOrder.                              *)
(***************************************************************************)
(* Steps that write no priority do not move the listing.                   *)
LEMMA HealthStepsKeepOrder ==
    ASSUME IInv,
           \/ \E h \in Handlers : Record(h)
           \/ Tick
           \/ \E id \in DOMAIN keys, enabled \in BOOLEAN : SetEnabled(id, enabled)
    PROVE  Listing(keys') = Listing(keys) /\ lastId' = lastId
<1>1. \A i \in DOMAIN keys : keys[i] \in Row BY DEF IInv, TypeOK
<1>2. keys = [i \in DOMAIN keys |-> keys[i]] BY DEF IInv, TypeOK
<1>3. PICK t, u : t = keys /\ u = keys' OBVIOUS
<1>4. ASSUME NEW h \in Handlers, Record(h)
      PROVE  DOMAIN u = DOMAIN t /\ \A i \in DOMAIN t : u[i].priority = t[i].priority
    <2>1. PICK r : r = req[h] OBVIOUS
    <2> DEFINE new == AfterResult(r.row, r.success, r.threshold, r.cooldown)
    <2>2. PICK f, c : f = new.failures /\ c = new.cooldown OBVIOUS
    <2>3. u = Recorded(t, r) BY <1>3, <1>4, <2>1 DEF Record
    <2>4. u = [t EXCEPT ![r.key].failures = f, ![r.key].cooldown = c]
        BY <2>2, <2>3 DEF Recorded
    <2> HIDE DEF new
    <2>5. \A i \in DOMAIN t : t[i] \in Row BY <1>1, <1>3
    <2> QED BY <1>2, <1>3, <2>4, <2>5 DEF Row
<1>5. ASSUME Tick
      PROVE  DOMAIN u = DOMAIN t /\ \A i \in DOMAIN t : u[i].priority = t[i].priority
    <2>1. u = Elapsed(t) BY <1>3, <1>5 DEF Tick
    <2>2. \A i \in DOMAIN t : t[i] \in Row BY <1>1, <1>3
    <2> QED BY <2>1, <2>2 DEF Elapsed, Older, Row
<1>6. ASSUME NEW id \in DOMAIN keys, NEW enabled \in BOOLEAN, SetEnabled(id, enabled)
      PROVE  DOMAIN u = DOMAIN t /\ \A i \in DOMAIN t : u[i].priority = t[i].priority
    <2>1. u = [t EXCEPT ![id].enabled = enabled] BY <1>3, <1>6 DEF SetEnabled
    <2>2. \A i \in DOMAIN t : t[i] \in Row BY <1>1, <1>3
    <2> QED BY <1>2, <1>3, <2>1, <2>2 DEF Row
<1>7. Listing(u) = Listing(t) BY <1>4, <1>5, <1>6, ListingStays
<1> QED BY <1>3, <1>7 DEF Record, Tick, SetEnabled

LEMMA AdminStepsAreOrderSteps ==
    ASSUME IInv,
           \/ \E enabled \in BOOLEAN : CreateKey(enabled)
           \/ \E id \in DOMAIN keys : DeleteKey(id)
           \/ \E ids \in Payloads : Reorder(ids)
    PROVE  Order!Next
<1>1. IsTable(keys) /\ Dense(keys) BY KeysIsTable DEF IInv, PrioritiesDense, Dense
<1>2. PICK t, u : t = keys /\ u = keys' OBVIOUS
<1>3. IsTable(t) /\ Dense(t) /\ Numbered(t) BY <1>1, <1>2, TablesAreNumbered
<1>4. \A s : Order!Range(s) = Range(s) BY DEF Range, Order!Range
<1>5. ASSUME NEW enabled \in BOOLEAN, CreateKey(enabled) PROVE Order!Next
    <2>1. PICK id : id = lastId + 1 OBVIOUS
    <2>2. id \in Nat /\ id \notin DOMAIN t
        BY <1>2, <2>1, BoundAssumption DEF IInv, TypeOK
    <2>3. u = Inserted(t, id, enabled) /\ lastId' = id
        BY <1>2, <1>5, <2>1 DEF CreateKey, NextId
    <2>4. Dense(u) /\ Numbered(u) BY <1>3, <2>2, <2>3, InsertedIsDense, TablesAreNumbered
    <2>5. DOMAIN u = DOMAIN t \cup {id} /\ \A i \in DOMAIN t : u[i].priority = t[i].priority
        BY <2>2, <2>3 DEF Inserted
    <2>6. Listing(u) = Append(Listing(t), id) BY <1>3, <2>2, <2>4, <2>5, ListingGrows
    <2>7. Order!Create BY <1>2, <2>1, <2>3, <2>6 DEF Order!Create
    <2> QED BY <2>7 DEF Order!Next
<1>6. ASSUME NEW id \in DOMAIN keys, DeleteKey(id) PROVE Order!Next
    <2>1. id \in DOMAIN t /\ u = Deleted(t, id) /\ lastId' = lastId
        BY <1>2, <1>6 DEF DeleteKey
    <2>2. Dense(u) /\ Numbered(u) BY <1>3, <2>1, DeletedIsDense, TablesAreNumbered
    <2>3. DOMAIN u = DOMAIN t \ {id}
        BY <2>1 DEF Deleted, Normalized, WithPriorities, Without
    <2>4. ASSUME NEW i \in DOMAIN u PROVE u[i].priority = Rank(Without(t, id), i)
        <3>1. PICK p : p = Rank(Without(t, id), i) OBVIOUS
        <3>2. t[i] \in Row BY <1>3, <2>3 DEF IsTable
        <3>3. u[i] = [t[i] EXCEPT !.priority = p]
            BY <2>1, <2>3, <3>1 DEF Deleted, Normalized, WithPriorities, Without
        <3> QED BY <3>1, <3>2, <3>3 DEF Row
    <2>5. \E n \in DOMAIN Listing(t) :
              /\ Listing(t)[n] = id
              /\ Listing(u) = [m \in 1..(Len(Listing(t)) - 1) |->
                                  Listing(t)[IF m < n THEN m ELSE m + 1]]
        BY <1>3, <2>1, <2>2, <2>3, <2>4, ListingShrinks
    <2>6. Order!Delete(id) BY <1>2, <2>1, <2>5 DEF Order!Delete
    <2>7. id \in Range(Listing(keys)) BY <1>2, <1>3, <2>1, ListingIsSequence
    <2> QED BY <1>4, <2>6, <2>7 DEF Order!Next
<1>7. ASSUME NEW ids \in Payloads, Reorder(ids) PROVE Order!Next
    <2>1. /\ u = Reordered(t, ids) /\ ReorderAccepted(t, ids) /\ ids \in Seq(Nat)
          /\ lastId' = lastId
        BY <1>2, <1>7, BoundAssumption DEF Reorder
    <2>2. Dense(u) /\ Numbered(u) BY <1>3, <2>1, ReorderedIsDense, TablesAreNumbered
    <2>3. DOMAIN u = DOMAIN t BY <2>1 DEF Reordered, WithPriorities
    <2>4. /\ Listing(u) \in [DOMAIN Listing(t) -> Range(Listing(t))]
          /\ Range(Listing(u)) = Range(Listing(t))
        BY <1>3, <2>2, <2>3, ListingPermutes
    <2>5. Order!Reorder BY <1>2, <1>4, <2>1, <2>4 DEF Order!Reorder
    <2> QED BY <2>5 DEF Order!Next
<1> QED BY <1>5, <1>6, <1>7

(* Whatever requests, results, time and settings do, the order in which    *)
(* keys are tried changes only as KeyOrder allows: CreateUpstreamKey       *)
(* appends, DeleteUpstreamKey keeps the others' order, ReorderUpstreamKeys *)
(* permutes, and nothing else moves it.                                    *)
THEOREM ImplementsKeyOrder == Spec => OrderSpec
<1>1. Init => Order!Init BY EmptyListing DEF Init, Order!Init
<1>2. IInv /\ [Next]_vars => [Order!Next]_(Order!orderVars)
    <2> SUFFICES ASSUME IInv, [Next]_vars PROVE [Order!Next]_(Order!orderVars) OBVIOUS
    <2>1. CASE Listing(keys') = Listing(keys) /\ lastId' = lastId
        BY <2>1 DEF Order!orderVars
    <2>2. CASE keys' = keys /\ lastId' = lastId BY <2>1, <2>2
    <2>3. ASSUME NEW h \in Handlers, RequestStep(h) PROVE [Order!Next]_(Order!orderVars)
        BY <2>2, <2>3, RequestStepIsLocal DEF UnchangedStore
    <2>4. CASE \/ \E h \in Handlers : Record(h)
               \/ Tick
               \/ \E id \in DOMAIN keys, enabled \in BOOLEAN : SetEnabled(id, enabled)
        BY <2>1, <2>4, HealthStepsKeepOrder
    <2>5. CASE \/ \E enabled \in BOOLEAN : CreateKey(enabled)
               \/ \E id \in DOMAIN keys : DeleteKey(id)
               \/ \E ids \in Payloads : Reorder(ids)
        BY <2>5, AdminStepsAreOrderSteps
    <2>6. CASE \E threshold \in Thresholds, cooldown \in Cooldowns, egress \in EgressStates :
                   UpdateConfig(threshold, cooldown, egress)
        BY <2>2, <2>6 DEF UpdateConfig
    <2>7. CASE UNCHANGED vars BY <2>2, <2>7 DEF vars
    <2> QED BY <2>3, <2>4, <2>5, <2>6, <2>7 DEF Next, Work, Trouble, RequestStep, Admin
<1> QED BY <1>1, <1>2, Invariant, PTL DEF Spec, OrderSpec, Order!Spec
=============================================================================
