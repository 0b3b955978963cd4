------------------------------ MODULE Failover ------------------------------
(***************************************************************************)
(* Failover between upstream keys: public requests that choose a key, send *)
(* to it and report the outcome, beside the administrator's operations on  *)
(* the keys and the passing of time.                                       *)
(*                                                                         *)
(* Every request runs in a goroutine of its own and shares nothing but the *)
(* database with the others.  A step here is one database call or one      *)
(* event of the exchange with the upstream, and between two steps of a     *)
(* request anything else may happen.  The transaction that records a       *)
(* result is two steps, a read and a write: that nobody comes between them *)
(* is because the pool has one connection.  The administrator's            *)
(* transactions are one step (PriorityRewrite has their statements).       *)
(***************************************************************************)
EXTENDS KeyTable

CONSTANTS
    Handlers,     \* request goroutines that may be active at the same time
    Thresholds,   \* values of failover_threshold
    Cooldowns,    \* values of cooldown_seconds, in ticks of the model's clock
    SeededEgress, \* whether the environment's URLs can be used
    Payloads,     \* the id lists a client may send to reorder
    MaxId,        \* bound: how many keys are ever created
    MaxFailures   \* bound: the upstream stops failing a key that has this many

(* The base and proxy URL can be used, or one of them cannot: what the     *)
(* environment seeds is not validated (config.Load).                       *)
EgressStates == {"ok", "unusable"}

(* What a response status means to the code: 2xx, 401, any other.          *)
Statuses == {"success", "unauthorized", "error"}

ASSUME ConfigAssumption ==
    /\ Thresholds \subseteq Nat \ {0} /\ Thresholds # {}
    /\ Cooldowns \subseteq Nat \ {0} /\ Cooldowns # {}
    /\ SeededEgress \in EgressStates

ASSUME BoundAssumption ==
    /\ MaxId \in Nat
    /\ MaxFailures \in Nat
    /\ Payloads \subseteq Seq(Nat)

VARIABLES
    keys,     \* table upstream_keys, see KeyTable
    lastId,   \* sqlite_sequence: AUTOINCREMENT never gives an id twice
    config,   \* the columns of app_config that failover reads
    req,      \* the local variables of each request
    seen,     \* history: every failover_threshold that was ever in force
    streak    \* history: failures of each key committed since its last success

vars == <<keys, lastId, config, req, seen, streak>>

Ids == 1..MaxId

Config == [threshold : Thresholds, cooldown : Cooldowns, egress : EgressStates]

(***************************************************************************)
(* Program points of a request.                                            *)
(*   config   about to read app_config in Select                           *)
(*   keys     about to list the keys; holds the egress of its config       *)
(*   sent     in client.Do with a key                                      *)
(*   body     has a status, copies or reads the body                       *)
(*   mark     about to read app_config in MarkResult                       *)
(*   record   about to begin the transaction of RecordUpstreamResult       *)
(*   update   in it: has read the row, about to write it                   *)
(*   log      about to finish the answer and run the deferred              *)
(*            InsertRequestLog; refused when the answer is "no available   *)
(*            upstream"                                                    *)
(***************************************************************************)
Idle == [pc |-> "idle"]

Logging(refused) == [pc |-> "log", refused |-> refused]

Request ==
    {Idle, [pc |-> "config"]}
        \cup [pc : {"log"}, refused : BOOLEAN]
        \cup [pc : {"keys"}, egress : EgressStates]
        \cup [pc : {"sent"}, key : Ids]
        \cup [pc : {"body"}, key : Ids, status : Statuses]
        \cup [pc : {"mark"}, key : Ids, status : Statuses, success : BOOLEAN]
        \cup [pc : {"record"}, key : Ids, status : Statuses, success : BOOLEAN,
              threshold : Thresholds, cooldown : Cooldowns]
        \cup [pc : {"update"}, key : Ids, status : Statuses, success : BOOLEAN,
              threshold : Thresholds, cooldown : Cooldowns, row : Row]

HoldsKey(h) == req[h].pc \in {"sent", "body", "mark", "record", "update"}

(* Types; in particular ids stay below the sequence, and a cooldown is     *)
(* NULL or a natural number: it is over at 0 and not counted on.           *)
TypeOK ==
    /\ lastId \in 0..MaxId
    /\ DOMAIN keys \subseteq 1..lastId
    /\ keys \in [DOMAIN keys -> Row]
    /\ config \in Config
    /\ req \in [Handlers -> Request]
    /\ seen \subseteq Thresholds
    /\ streak \in [Ids -> Nat]

Init ==
    /\ keys = << >>
    /\ lastId = 0
    /\ config \in [threshold : Thresholds, cooldown : Cooldowns, egress : {SeededEgress}]
    /\ req = [h \in Handlers |-> Idle]
    /\ seen = {config.threshold}
    /\ streak = [i \in Ids |-> 0]

-----------------------------------------------------------------------------
(***************************************************************************)
(* A request.                                                              *)
(***************************************************************************)
Goto(h, local) == req' = [req EXCEPT ![h] = local]

UnchangedStore == UNCHANGED <<keys, lastId, config, seen, streak>>

(* Faulty: results are recorded without a transaction. *)
FaultyConnected == TRUE

(* The one connection is free; other statements wait while a transaction   *)
(* has it.                                                                 *)
Connected == \A h \in Handlers : req[h].pc # "update"

Arrive(h) ==
    /\ req[h].pc = "idle"
    /\ Goto(h, [pc |-> "config"])
    /\ UnchangedStore

SelectConfig(h) ==
    /\ req[h].pc = "config" /\ Connected
    /\ Goto(h, [pc |-> "keys", egress |-> config.egress])
    /\ UnchangedStore

(* The client left or a statement failed before a key was sent to: 500.    *)
SelectFails(h) ==
    /\ req[h].pc \in {"config", "keys"}
    /\ Goto(h, Logging(FALSE))
    /\ UnchangedStore

(* Faulty: waits for a key to become available. *)
FaultySelectNone(h) ==
    /\ req[h].pc = "keys" /\ Connected
    /\ Available(keys) # {}
    /\ Goto(h, [pc |-> "keys", egress |-> config.egress])
    /\ UnchangedStore

(* ErrNoCandidate: 503.                                                    *)
SelectNone(h) ==
    /\ req[h].pc = "keys" /\ Connected
    /\ Available(keys) = {}
    /\ Goto(h, Logging(TRUE))
    /\ UnchangedStore

(* A key was found but the base or proxy URL cannot be used: 500, and      *)
(* nothing is held against the key.                                        *)
EgressUnusable(h) ==
    /\ req[h].pc = "keys" /\ Connected
    /\ Available(keys) # {} /\ req[h].egress # "ok"
    /\ Goto(h, Logging(FALSE))
    /\ UnchangedStore

SelectKey(h) ==
    /\ req[h].pc = "keys" /\ Connected
    /\ Available(keys) # {} /\ req[h].egress = "ok"
    /\ Goto(h, [pc |-> "sent", key |-> First(keys, Available(keys))])
    /\ UnchangedStore

(* Faulty: every answer counts. *)
FaultyCounted(status) == TRUE

(* recordUpstreamResult returns at once for a 401.                         *)
Counted(status) == status # "unauthorized"

Outcome(h, status, success) ==
    IF Counted(status) THEN [pc |-> "mark", key |-> req[h].key, status |-> status, success |-> success]
    ELSE Logging(FALSE)

(* The environment's bound: only a key with few failures is failed again.  *)
MayFail(h) == req[h].key \in DOMAIN keys => keys[req[h].key].failures < MaxFailures

(* client.Do returns an error: refused, timed out, or the client left.     *)
TransportFails(h) ==
    /\ req[h].pc = "sent"
    /\ MayFail(h)
    /\ Goto(h, Outcome(h, "error", FALSE))
    /\ UnchangedStore

Respond(h, status) ==
    /\ req[h].pc = "sent"
    /\ status = "error" => MayFail(h)
    /\ Goto(h, [pc |-> "body", key |-> req[h].key, status |-> status])
    /\ UnchangedStore

BodyEnds(h) ==
    /\ req[h].pc = "body"
    /\ Goto(h, Outcome(h, req[h].status, req[h].status = "success"))
    /\ UnchangedStore

(* The upstream or, for a stream, the client breaks off; the status that   *)
(* decides whether the result counts is still the upstream's.              *)
BodyBreaks(h) ==
    /\ req[h].pc = "body"
    /\ MayFail(h)
    /\ Goto(h, Outcome(h, req[h].status, FALSE))
    /\ UnchangedStore

MarkConfig(h) ==
    /\ req[h].pc = "mark" /\ Connected
    /\ Goto(h, [pc |-> "record", key |-> req[h].key,
                status |-> req[h].status, success |-> req[h].success,
                threshold |-> config.threshold, cooldown |-> config.cooldown])
    /\ UnchangedStore

(* BeginTx and SELECT.                                                     *)
RecordRead(h) ==
    /\ req[h].pc = "record" /\ Connected
    /\ req[h].key \in DOMAIN keys
    /\ Goto(h, [pc |-> "update", key |-> req[h].key,
                status |-> req[h].status, success |-> req[h].success,
                threshold |-> req[h].threshold, cooldown |-> req[h].cooldown,
                row |-> keys[req[h].key]])
    /\ UnchangedStore

(* A key deleted meanwhile is not found, and the error is dropped.         *)
RecordNothing(h) ==
    /\ req[h].pc = "record" /\ Connected
    /\ req[h].key \notin DOMAIN keys
    /\ Goto(h, Logging(FALSE))
    /\ UnchangedStore

(* The UPDATE: count and cooldown, computed from the row that was read.    *)
Recorded(t, r) ==
    LET new == AfterResult(r.row, r.success, r.threshold, r.cooldown)
    IN  [i \in DOMAIN t |->
            IF i = r.key
            THEN [t[i] EXCEPT !.failures = new.failures, !.cooldown = new.cooldown]
            ELSE t[i]]

(* UPDATE and COMMIT.                                                      *)
Record(h) ==
    /\ req[h].pc = "update"
    /\ keys' = Recorded(keys, req[h])
    /\ streak' = [streak EXCEPT ![req[h].key] = IF req[h].success THEN 0 ELSE @ + 1]
    /\ Goto(h, Logging(FALSE))
    /\ UNCHANGED <<lastId, config, seen>>

(* A database error in MarkResult is dropped and the result with it; the   *)
(* transaction is rolled back.                                             *)
MarkFails(h) ==
    /\ req[h].pc \in {"mark", "record", "update"}
    /\ Goto(h, Logging(FALSE))
    /\ UnchangedStore

Log(h) ==
    /\ req[h].pc = "log" /\ Connected
    /\ Goto(h, Idle)
    /\ UnchangedStore

-----------------------------------------------------------------------------
(***************************************************************************)
(* The administrator, and time.                                            *)
(***************************************************************************)
(* Faulty: SQLite's choice without AUTOINCREMENT, the largest id plus one. *)
FaultyNextId ==
    IF DOMAIN keys = {} THEN 1
    ELSE 1 + (CHOOSE i \in DOMAIN keys : \A j \in DOMAIN keys : j =< i)

NextId == lastId + 1

CreateKey(enabled) ==
    /\ Connected
    /\ lastId < MaxId
    /\ keys' = Inserted(keys, NextId, enabled)
    /\ lastId' = NextId
    /\ UNCHANGED <<config, req, seen, streak>>

(* Enable, disable, and the is_enabled column of an edit.                  *)
SetEnabled(id, enabled) ==
    /\ Connected
    /\ keys' = [keys EXCEPT ![id].enabled = enabled]
    /\ UNCHANGED <<lastId, config, req, seen, streak>>

DeleteKey(id) ==
    /\ Connected
    /\ keys' = Deleted(keys, id)
    /\ streak' = [streak EXCEPT ![id] = 0]
    /\ UNCHANGED <<lastId, config, req, seen>>

Reorder(ids) ==
    /\ Connected
    /\ ids # << >>
    /\ ReorderAccepted(keys, ids)
    /\ keys' = Reordered(keys, ids)
    /\ UNCHANGED <<lastId, config, req, seen, streak>>

(* Any column may be sent.  One that is not is written back as the handler *)
(* read it before, so it may return to any value it had; a URL that is     *)
(* sent is validated.                                                      *)
UpdateConfig(threshold, cooldown, egress) ==
    /\ Connected
    /\ egress \in {SeededEgress, "ok"}
    /\ config' = [threshold |-> threshold, cooldown |-> cooldown, egress |-> egress]
    /\ seen' = seen \cup {threshold}
    /\ UNCHANGED <<keys, lastId, req, streak>>

(* The column is a point in time: what was read of it comes nearer, too.   *)
Aged(r) == IF r.pc = "update" THEN [r EXCEPT !.row = Older(@)] ELSE r

(* Time matters only to keys that are cooling.                             *)
Tick ==
    /\ \E i \in DOMAIN keys : Cooling(keys[i])
    /\ keys' = Elapsed(keys)
    /\ req' = [h \in Handlers |-> Aged(req[h])]
    /\ UNCHANGED <<lastId, config, seen, streak>>

-----------------------------------------------------------------------------
Answer(h) == TransportFails(h) \/ \E status \in Statuses : Respond(h, status)

Work(h) ==
    \/ SelectConfig(h) \/ SelectNone(h) \/ EgressUnusable(h) \/ SelectKey(h)
    \/ MarkConfig(h) \/ RecordRead(h) \/ RecordNothing(h) \/ Record(h)

Trouble(h) == SelectFails(h) \/ MarkFails(h) \/ BodyBreaks(h)

Admin ==
    \/ \E enabled \in BOOLEAN : CreateKey(enabled)
    \/ \E id \in DOMAIN keys, enabled \in BOOLEAN : SetEnabled(id, enabled)
    \/ \E id \in DOMAIN keys : DeleteKey(id)
    \/ \E ids \in Payloads : Reorder(ids)
    \/ \E threshold \in Thresholds, cooldown \in Cooldowns, egress \in EgressStates :
            UpdateConfig(threshold, cooldown, egress)

Next ==
    \/ \E h \in Handlers :
            Arrive(h) \/ Work(h) \/ Answer(h) \/ BodyEnds(h) \/ Trouble(h) \/ Log(h)
    \/ Admin
    \/ Tick

Spec == Init /\ [][Next]_vars

(* The scheduler runs every goroutine, and time passes.  A statement that  *)
(* waits for the connection gets it in the end, although others take it    *)
(* before: database/sql hands it over in the order of asking (SF).         *)
(* Nothing is assumed of the other side of a connection: no timeout bounds *)
(* how long the upstream takes to read the request or to send its body, or *)
(* the client to take the answer.                                          *)
Fairness ==
    /\ \A h \in Handlers : SF_vars(Work(h))
    /\ WF_vars(Tick)

FairSpec == Spec /\ Fairness

-----------------------------------------------------------------------------
(***************************************************************************)
(* Safety.                                                                 *)
(***************************************************************************)
(* Priorities are 1..n without gaps or repeats whatever is created,        *)
(* deleted and reordered, so the unique index never rejects a new key      *)
(* (nextPriority, normalizePrioritiesTx, ReorderUpstreamKeys).             *)
PrioritiesDense == Priorities(keys) = 1..Cardinality(DOMAIN keys)

(* A key is put in cooldown only after as many failures in a row as some   *)
(* threshold that was in force, although the threshold is read in one step *)
(* and used in a later one (MarkResult, RecordUpstreamResult).             *)
CooldownOnlyAtThreshold ==
    \A i \in DOMAIN keys :
        keys[i].cooldown # NULL => \E t \in seen : keys[i].failures >= t

(* A failure that is committed is counted on top of all that were          *)
(* committed since the last success: results reported at the same time are *)
(* not lost to each other.  When there are as many of them as every        *)
(* threshold that was in force, it puts the key in cooldown for the full   *)
(* time, also if the key has been through one before (the transaction of   *)
(* RecordUpstreamResult, which reads the count and writes it back).        *)
ThresholdAlwaysTrips ==
    [][\A i \in DOMAIN keys : streak'[i] > streak[i] =>
          /\ keys'[i].failures = streak'[i]
          /\ (\A t \in seen : streak'[i] >= t) => keys'[i].cooldown \in Cooldowns]_vars

(* A request passes over an enabled key only when that key has failed as   *)
(* often as some threshold: for the request's own key, or for an answer of *)
(* "no available upstream" (Select, filterAvailable; README "switch only   *)
(* after consecutive failures").                                           *)
PassedOver(h, i) ==
    /\ req[h].pc = "keys"
    /\ \/ req'[h].pc = "sent" /\ Before(keys, i, req'[h].key)
       \/ req'[h].pc = "log" /\ req'[h].refused

SwitchOnlyAfterThreshold ==
    [][\A h \in Handlers, i \in DOMAIN keys :
          keys[i].enabled /\ PassedOver(h, i) =>
              \E t \in seen : keys[i].failures >= t]_vars

(* The failure count and cooldown of a key move only when a request that   *)
(* was sent to this very key reports an answer other than 401, or a        *)
(* cooldown runs down: a 401, a local error, a request to another or to a  *)
(* deleted key moves neither (recordUpstreamResult; the test               *)
(* TestUnauthorizedDoesNotCountTowardFailoverOrLogs).                      *)
HealthOf(t, i) == <<t[i].failures, t[i].cooldown>>

Reports(h, i) ==
    /\ req[h].pc = "update" /\ req'[h].pc = "log"
    /\ req[h].key = i
    /\ req[h].status # "unauthorized"

HealthOnlyFromOwnResults ==
    [][\A i \in DOMAIN keys \cap DOMAIN keys' :
          HealthOf(keys', i) # HealthOf(keys, i) =>
              (\E h \in Handlers : Reports(h, i)) \/ Tick]_vars

(* A new key never has the id of a key that a request still holds, so the  *)
(* late result of a deleted key is never held against another (schema.sql, *)
(* AUTOINCREMENT).                                                         *)
NewKeysAreNobodysKey ==
    [][\A i \in DOMAIN keys' \ DOMAIN keys :
          \A h \in Handlers : HoldsKey(h) => req[h].key # i]_vars

(* What the README says of the cooldown, which the code does not keep: a   *)
(* key that is cooling is out until its time has passed, so it comes back  *)
(* only on a tick.  A request sent before the cooldown began may succeed   *)
(* after it, and RecordUpstreamResult then clears the cooldown at once.    *)
CooldownRunsItsFullTime ==
    [][\A i \in DOMAIN keys \cap DOMAIN keys' :
          Cooling(keys[i]) /\ ~ Cooling(keys'[i]) => Tick]_vars

-----------------------------------------------------------------------------
(***************************************************************************)
(* Liveness, of FairSpec.                                                  *)
(***************************************************************************)
(* A key that is cooling does not stay so for ever, even if requests sent  *)
(* to it before go on failing and renew its cooldown.                      *)
IsCooling(i) == i \in DOMAIN keys /\ Cooling(keys[i])

CooldownIsTemporary == \A i \in Ids : IsCooling(i) ~> ~ IsCooling(i)

(* Only upstream and client can hold a request up for ever: choosing a key *)
(* and reporting a result come to an end, whatever happens to the keys and *)
(* the configuration meanwhile (Select, MarkResult).                       *)
OnlyPeersHang ==
    \A h \in Handlers :
        req[h].pc # "idle" ~> req[h].pc \in {"idle", "sent", "body", "log"}

-----------------------------------------------------------------------------
(***************************************************************************)
(* Failover implements KeyOrder: whatever requests do, the order the keys  *)
(* are tried in changes only as the administrator's operations promise     *)
(* (CreateUpstreamKey, DeleteUpstreamKey, ReorderUpstreamKeys).            *)
(***************************************************************************)
Order == INSTANCE KeyOrder WITH order <- Listing(keys), created <- lastId

(* Every behaviour of Failover, seen through the listing, is one of        *)
(* KeyOrder: the steps of requests do not touch the order, those of the    *)
(* administrator are its Create, Delete and Reorder.                       *)
OrderSpec == Order!Spec
=============================================================================
