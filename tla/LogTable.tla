------------------------------ MODULE LogTable ------------------------------
(***************************************************************************)
(* The request_logs table, and the clock its rows are dated by: what each  *)
(* statement of the repository does to the rows.  RequestLog says who runs *)
(* these statements and when; LogPage reads the rows, and needs to know no *)
(* more of the others than TableNext: a row may come late, with any time   *)
(* that has been, and only rows that are older than the window go.         *)
(***************************************************************************)
EXTENDS Integers, FiniteSets, Functions

CONSTANTS
    NULL,        \* a row without a key
    Keys,        \* upstream keys that exist in the beginning
    Window,      \* 24 hours, in ticks of the model's clock
    MaxTime,     \* bound: the clock stops here
    MaxRows      \* bound: how many rows are ever inserted

ASSUME LogTableAssumption ==
    /\ NULL \notin Keys
    /\ Window \in Nat /\ MaxTime \in Nat /\ MaxRows \in Nat

VARIABLES
    now,       \* the clock
    logs,      \* table request_logs: id -> row
    lastId     \* its AUTOINCREMENT sequence

tableVars == <<now, logs, lastId>>

Times == 0..MaxTime

(* The columns that others read.  The route filter works like that of      *)
(* success, on a column that never changes either.                         *)
Row == [ts : Times, key : Keys \cup {NULL}, success : BOOLEAN]

TableTypeOK ==
    /\ now \in Times
    /\ lastId \in 0..MaxRows
    /\ DOMAIN logs \subseteq 1..lastId
    /\ logs \in [DOMAIN logs -> Row]

TableInit ==
    /\ now = 0
    /\ logs = << >>
    /\ lastId = 0

(* What the window begins with: time.Now().Add(-24h).                      *)
Cutoff == now - Window

(* A request, a load or another activity while there is nothing to it.     *)
Idle == [pc |-> "idle"]

-----------------------------------------------------------------------------
(* InsertRequestLog. *)
AddRow(ts, key, success) ==
    /\ lastId' = lastId + 1
    /\ logs' = [id \in DOMAIN logs \cup {lastId'} |->
                  IF id \in DOMAIN logs THEN logs[id]
                  ELSE [ts |-> ts, key |-> key, success |-> success]]
    /\ UNCHANGED now

(* Faulty: the foreign key has no ON DELETE action and is not enforced. *)
FaultyWithoutKey(k) == logs

(* ON DELETE SET NULL. *)
WithoutKey(k) ==
    [id \in DOMAIN logs |->
        IF logs[id].key = k THEN [logs[id] EXCEPT !.key = NULL] ELSE logs[id]]

TakeKey(k) ==
    /\ logs' = WithoutKey(k)
    /\ UNCHANGED <<now, lastId>>

(* CleanupRequestLogs. *)
RemoveOlder(before) ==
    /\ logs' = Restrict(logs, {id \in DOMAIN logs : ~(logs[id].ts < before)})
    /\ UNCHANGED <<now, lastId>>

Advance ==
    /\ now < MaxTime
    /\ now' = now + 1
    /\ UNCHANGED <<logs, lastId>>

TableNext ==
    \/ /\ lastId < MaxRows
       /\ \E ts \in 0..now, key \in Keys \cup {NULL}, success \in BOOLEAN :
              AddRow(ts, key, success)
    \/ \E k \in Keys : TakeKey(k)
    \/ \E time \in 0..now : RemoveOlder(time - Window)
    \/ Advance

TableSpec == TableInit /\ [][TableNext]_tableVars
=============================================================================
