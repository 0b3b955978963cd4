----------------------------- MODULE RequestLog -----------------------------
(***************************************************************************)
(* Who writes the request log: public requests leave a row each, the       *)
(* cleanup job removes rows that are older than 24 hours, and deleting an  *)
(* upstream key takes its id out of the rows.                              *)
(*                                                                         *)
(* A step is one database statement, or one reading of the clock: the      *)
(* cutoff of a cleanup is computed before the statement that uses it runs. *)
(***************************************************************************)
EXTENDS LogTable

CONSTANT Handlers   \* request goroutines that may be active at the same time

ASSUME RequestLogAssumption == IsFiniteSet(Handlers)

VARIABLES
    keys,      \* ids in upstream_keys
    req,       \* the local variables of each request
    gone,      \* requests whose client has left: r.Context() is cancelled
    cleanup    \* the cleanup job

vars == <<now, keys, logs, lastId, req, gone, cleanup>>

(***************************************************************************)
(* What a request may end with: the status is 401 or another, and the      *)
(* token counts the upstream reports may not be numbers a row can hold.    *)
(***************************************************************************)
Outcomes ==
    [success : {TRUE}, status : {"other"}, tokens : {"natural", "negative"}]
        \cup [success : {FALSE}, status : {"other", "unauthorized"}, tokens : {"natural"}]

Failure(status) == [success |-> FALSE, status |-> status, tokens |-> "natural"]

(***************************************************************************)
(* Program points of a request.                                            *)
(*   public   before the forwarder: body, authentication, model redirect   *)
(*   proxy    in Forwarder.Proxy, without a key                            *)
(*   sent     with a key                                                   *)
(*   store    about to run InsertRequestLog, under the request's context   *)
(*            or one that nothing cancels                                  *)
(***************************************************************************)
Request ==
    {Idle, [pc |-> "public"]}
        \cup [pc : {"proxy"}, ts : Times]
        \cup [pc : {"sent"}, ts : Times, key : Keys]
        \cup [pc : {"store"}, ts : Times, key : Keys \cup {NULL},
              outcome : Outcomes, context : {"request", "background"}]

Cleanup == {Idle} \cup [pc : {"delete"}, before : {t - Window : t \in Times}]

(* Types; a row names a key that exists or none, although the key may be   *)
(* deleted between its choice and the insertion of the row (the FOREIGN    *)
(* KEY of request_logs).                                                   *)
TypeOK ==
    /\ TableTypeOK
    /\ keys \subseteq Keys
    /\ \A id \in DOMAIN logs : logs[id].key \in keys \cup {NULL}
    /\ req \in [Handlers -> Request]
    /\ gone \subseteq Handlers
    /\ cleanup \in Cleanup

Init ==
    /\ TableInit
    /\ keys = Keys
    /\ req = [h \in Handlers |-> Idle]
    /\ gone = {}
    /\ cleanup = Idle

-----------------------------------------------------------------------------
(***************************************************************************)
(* Requests.                                                               *)
(***************************************************************************)
Goto(h, local) == req' = [req EXCEPT ![h] = local]

UnchangedLog == UNCHANGED <<now, keys, logs, lastId, cleanup>>

Active == {h \in Handlers : req[h].pc # "idle"}

Arrive(h) ==
    /\ req[h].pc = "idle"
    /\ Cardinality(Active) + lastId < MaxRows
    /\ Goto(h, [pc |-> "public"])
    /\ UNCHANGED gone /\ UnchangedLog

(* The client closes the connection.                                       *)
Leave(h) ==
    /\ h \in Active \ gone
    /\ gone' = gone \cup {h}
    /\ UNCHANGED req /\ UnchangedLog

(* Unreadable body, no or a wrong downstream key, no redirect: the handler *)
(* answers itself and logs under the context of the request.               *)
Refuse(h) ==
    /\ req[h].pc = "public"
    /\ \E status \in {"other", "unauthorized"} :
           Goto(h, [pc |-> "store", ts |-> now, key |-> NULL,
                    outcome |-> Failure(status), context |-> "request"])
    /\ UNCHANGED gone /\ UnchangedLog

(* Forwarder.Proxy begins: the row will have this time.                    *)
TakeOn(h) ==
    /\ req[h].pc = "public"
    /\ Goto(h, [pc |-> "proxy", ts |-> now])
    /\ UNCHANGED gone /\ UnchangedLog

(* Faulty: the deferred insert runs under the context of the request. *)
FaultyEnd(h, key, outcome) ==
    Goto(h, [pc |-> "store", ts |-> req[h].ts, key |-> key,
             outcome |-> outcome, context |-> "request"])

(* The deferred insert of Forwarder.Proxy is next.                         *)
End(h, key, outcome) ==
    Goto(h, [pc |-> "store", ts |-> req[h].ts, key |-> key,
             outcome |-> outcome, context |-> "background"])

(* No key is available, or choosing one fails.                             *)
SelectNone(h) ==
    /\ req[h].pc = "proxy"
    /\ End(h, NULL, Failure("other"))
    /\ UNCHANGED gone /\ UnchangedLog

SelectKey(h) ==
    /\ req[h].pc = "proxy"
    /\ \E k \in keys : Goto(h, [pc |-> "sent", ts |-> req[h].ts, key |-> k])
    /\ UNCHANGED gone /\ UnchangedLog

(* The exchange with the upstream is over, whichever way.                  *)
Exchanged(h) ==
    /\ req[h].pc = "sent"
    /\ \E outcome \in Outcomes : End(h, req[h].key, outcome)
    /\ UNCHANGED gone /\ UnchangedLog

(* The foreign key and the CHECKs of the token columns.                    *)
RowAccepted(key, outcome) == key \in keys \cup {NULL} /\ outcome.tokens = "natural"

Cancelled(h) == req[h].context = "request" /\ h \in gone

Insert(h) ==
    /\ req[h].pc = "store"
    /\ req[h].outcome.status # "unauthorized" /\ ~Cancelled(h)
    /\ RowAccepted(req[h].key, req[h].outcome)
    /\ AddRow(req[h].ts, req[h].key, req[h].outcome.success)
    /\ Goto(h, Idle)
    /\ gone' = gone \ {h}
    /\ UNCHANGED <<keys, cleanup>>

(* A 401 is not logged; an error of the insert is thrown away.             *)
InsertNothing(h) ==
    /\ req[h].pc = "store"
    /\ \/ req[h].outcome.status = "unauthorized"
       \/ Cancelled(h)
       \/ ~RowAccepted(req[h].key, req[h].outcome)
    /\ Goto(h, Idle)
    /\ gone' = gone \ {h}
    /\ UnchangedLog

-----------------------------------------------------------------------------
(***************************************************************************)
(* Deleting a key, and the cleanup job.                                    *)
(***************************************************************************)
DeleteKey(k) ==
    /\ k \in keys
    /\ keys' = keys \ {k}
    /\ TakeKey(k)
    /\ UNCHANGED <<req, gone, cleanup>>

CleanupTick ==
    /\ cleanup.pc = "idle"
    /\ cleanup' = [pc |-> "delete", before |-> Cutoff]
    /\ UNCHANGED <<now, keys, logs, lastId, req, gone>>

CleanupDelete ==
    /\ cleanup.pc = "delete"
    /\ RemoveOlder(cleanup.before)
    /\ cleanup' = Idle
    /\ UNCHANGED <<keys, req, gone>>

(* Faulty: the job returns when a cleanup fails. *)
FaultyCleanupFails ==
    /\ cleanup.pc = "delete"
    /\ cleanup' = [pc |-> "returned"]
    /\ UNCHANGED <<now, keys, logs, lastId, req, gone>>

(* The statement fails; the job only writes that down.                     *)
CleanupFails ==
    /\ cleanup.pc = "delete"
    /\ cleanup' = Idle
    /\ UNCHANGED <<now, keys, logs, lastId, req, gone>>

Tick ==
    /\ Advance
    /\ UNCHANGED <<keys, req, gone, cleanup>>

-----------------------------------------------------------------------------
Serve(h) ==
    \/ Arrive(h) \/ Leave(h) \/ Refuse(h) \/ TakeOn(h)
    \/ SelectNone(h) \/ SelectKey(h) \/ Exchanged(h)
    \/ Insert(h) \/ InsertNothing(h)

Next ==
    \/ \E h \in Handlers : Serve(h)
    \/ \E k \in Keys : DeleteKey(k)
    \/ CleanupTick \/ CleanupDelete \/ CleanupFails
    \/ Tick

Spec == Init /\ [][Next]_vars

(***************************************************************************)
(* The ticker fires, the clock advances, and the statement of the cleanup  *)
(* does not fail for ever.  No client or administrator owes a step.        *)
(***************************************************************************)
Fairness == WF_vars(CleanupTick) /\ SF_vars(CleanupDelete) /\ WF_vars(Tick)

FairSpec == Spec /\ Fairness

-----------------------------------------------------------------------------
(***************************************************************************)
(* Properties.                                                             *)
(***************************************************************************)

(* The request ends, with something that a row can hold.                   *)
Ends(h) ==
    /\ req[h].pc = "store" /\ req'[h].pc = "idle"
    /\ req[h].outcome.status # "unauthorized" /\ req[h].outcome.tokens = "natural"

(* The log of the window is complete but for keys that are deleted: a      *)
(* request whose key still exists leaves a row that names it, even if its  *)
(* client has left, and the cleanup takes no row that a listing would      *)
(* still show, although its cutoff is computed before it deletes (the      *)
(* deferred InsertRequestLog of Forwarder.Proxy, CleanupJob.Run).          *)
Logged(h) ==
    /\ lastId' \in DOMAIN logs' \ DOMAIN logs
    /\ logs'[lastId'].key = req[h].key
    /\ logs'[lastId'].ts = req[h].ts

LogIsComplete ==
    [][/\ \A h \in Handlers : Ends(h) /\ req[h].key \in keys => Logged(h)
       /\ \A id \in DOMAIN logs \ DOMAIN logs' : logs[id].ts < now - Window]_vars

(* Rows do not outlive the window for good, late insertions and failed     *)
(* cleanups included (CleanupJob.Run).                                     *)
ExpiredRowsGo ==
    \A id \in 1..MaxRows :
        (id \in DOMAIN logs /\ logs[id].ts < Cutoff) ~> id \notin DOMAIN logs

(* What the documents say of the log: a request that is over, and was not  *)
(* answered 401, has left a row (README.md:15, schema.sql:84).             *)
EveryRequestLogged ==
    [][\A h \in Handlers : Ends(h) /\ h \notin gone => lastId' = lastId + 1]_vars
=============================================================================
