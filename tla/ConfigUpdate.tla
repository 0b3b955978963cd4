---------------------------- MODULE ConfigUpdate ----------------------------
(***************************************************************************)
(* Changing the settings: PUT /admin/api/config reads the row of           *)
(* app_config, then decodes the request (whose body the client may take    *)
(* its time to send), writes all columns back, and replaces the model      *)
(* redirects in a transaction of its own.                                  *)
(*                                                                         *)
(* The pool has one connection: while a transaction is open every other    *)
(* statement waits.  A statement of the handler may fail, also because the *)
(* client has left.                                                        *)
(***************************************************************************)
EXTENDS Integers, Sequences, Functions

CONSTANTS
    Handlers,      \* calls that may be active at the same time
    Columns,       \* columns of app_config that the call can change
    Values,        \* what they may hold, trimmed and in lower case
    Unacceptable,  \* what the validation of a column refuses
    Default,       \* the value each column has in the beginning
    RedirectLists, \* model_redirects of a request: from and to as they are sent
    NULL           \* the request has no model_redirects

(* Names as they are sent; "" when nothing but spaces was.                 *)
Names == [name : STRING, padded : BOOLEAN]

ASSUME ConfigUpdateAssumption ==
    /\ Default \in Values /\ Unacceptable \notin Values
    /\ NULL \notin RedirectLists \cup Handlers
    /\ RedirectLists \subseteq Seq([from : Names, to : Names])

VARIABLES
    config,     \* the row of app_config
    redirects,  \* table model_redirects as committed: from |-> to
    tx,         \* the transaction that is open
    req,        \* the local variables of each call
    raced,      \* history: columns set by others since a call read the row
    accepted    \* history: the redirects of every list that was accepted

vars == <<config, redirects, tx, req, raced, accepted>>

InitialConfig == [c \in Columns |-> Default]

(* The fields a request has, and their values.                             *)
Edits == UNION {[D -> Values \cup {Unacceptable}] : D \in SUBSET Columns}

(***************************************************************************)
(* normalizeModelRedirects: names are trimmed, then none may be empty and  *)
(* no downstream name may occur twice.                                     *)
(***************************************************************************)
Trimmed(list) ==
    [i \in DOMAIN list |-> [from |-> list[i].from.name, to |-> list[i].to.name]]

Complete(list) == \A i \in DOMAIN list : list[i].from.name # "" /\ list[i].to.name # ""

(* Faulty: looks for duplicates before trimming. *)
FaultyListAccepted(list) ==
    Complete(list) /\ \A i, j \in DOMAIN list : list[i].from = list[j].from => i = j

ListAccepted(list) ==
    Complete(list) /\ \A i, j \in DOMAIN list : list[i].from.name = list[j].from.name => i = j

EditAccepted(edit, list) ==
    /\ Unacceptable \notin Range(edit)
    /\ list # NULL => ListAccepted(list)

(* A list as the table that holds it.                                      *)
AsTable(list) ==
    [from \in {list[i].from : i \in DOMAIN list} |->
        list[CHOOSE i \in DOMAIN list : list[i].from = from].to]

-----------------------------------------------------------------------------
(***************************************************************************)
(* Program points of a call.                                               *)
(*   decode   has read the row, waits for the body and validates it        *)
(*   write    about to run UpdateAppConfig                                 *)
(*   replace  about to begin the transaction of ReplaceModelRedirects      *)
(*   clear, insert                  in it                                  *)
(*   reload   about to list the redirects for the answer                   *)
(*   answer   the answer's status                                          *)
(***************************************************************************)
Idle == [pc |-> "idle"]

NoTx == [by |-> NULL]

Answer(status) == [pc |-> "answer", status |-> status]

(* Types; a transaction is of the call that is inside it.                  *)
TypeOK ==
    /\ config \in [Columns -> Values]
    /\ DOMAIN req = Handlers
    /\ \A h \in Handlers :
          /\ req[h].pc \in {"idle", "decode", "write", "replace", "clear",
                            "insert", "reload", "answer"}
          /\ req[h].pc \in {"decode", "write"} => req[h].current \in [Columns -> Values]
          /\ (tx.by = h) <=> (req[h].pc \in {"clear", "insert"})
    /\ tx # NoTx => Range(tx.rest) \subseteq [from : STRING, to : STRING]
    /\ raced \in [Handlers -> SUBSET Columns]

Init ==
    /\ config = InitialConfig
    /\ redirects = << >>
    /\ tx = NoTx
    /\ req = [h \in Handlers |-> Idle]
    /\ raced = [h \in Handlers |-> {}]
    /\ accepted = {<< >>}

Goto(h, local) == req' = [req EXCEPT ![h] = local]

(* A statement outside of a transaction gets the connection.               *)
Connected == tx = NoTx

UnchangedTables == UNCHANGED <<config, redirects, tx>>

(* Faulty: what a request does not name falls back to the defaults. *)
FaultyCurrent == InitialConfig

Current == config

(* GetAppConfig comes first, before the body of the request is read.       *)
Begin(h) ==
    /\ req[h].pc = "idle" /\ Connected
    /\ Goto(h, [pc |-> "decode", current |-> Current])
    /\ raced' = [raced EXCEPT ![h] = {}]
    /\ UnchangedTables /\ UNCHANGED accepted

Decode(h) ==
    /\ req[h].pc = "decode"
    /\ \E edit \in Edits, list \in RedirectLists \cup {NULL} :
          /\ EditAccepted(edit, list)
          /\ Goto(h, [pc |-> "write", current |-> req[h].current,
                      edit |-> edit, list |-> list])
          /\ accepted' = IF list = NULL THEN accepted
                         ELSE accepted \cup {AsTable(Trimmed(list))}
    /\ UnchangedTables /\ UNCHANGED raced

(* The row that UpdateAppConfig writes.                                    *)
Merged(local) ==
    [c \in Columns |-> IF c \in DOMAIN local.edit THEN local.edit[c] ELSE local.current[c]]

RacedAfter(h, columns) ==
    [other \in Handlers |-> IF other = h THEN raced[h] ELSE raced[other] \cup columns]

(* Not JSON, or a field is not acceptable.                                 *)
Refuse(h) ==
    /\ req[h].pc = "decode"
    /\ Goto(h, Answer(400))
    /\ UnchangedTables /\ UNCHANGED <<raced, accepted>>

Write(h) ==
    /\ req[h].pc = "write" /\ Connected
    /\ config' = Merged(req[h])
    /\ raced' = RacedAfter(h, DOMAIN req[h].edit \cup {c \in Columns : config'[c] # config[c]})
    /\ Goto(h, IF req[h].list = NULL THEN [pc |-> "reload"]
               ELSE [pc |-> "replace", list |-> Trimmed(req[h].list)])
    /\ UNCHANGED <<redirects, tx, accepted>>

BeginReplace(h) ==
    /\ req[h].pc = "replace" /\ Connected
    /\ tx' = [by |-> h, work |-> redirects, rest |-> req[h].list]
    /\ Goto(h, [pc |-> "clear"])
    /\ UNCHANGED <<config, redirects, raced, accepted>>

(* Faulty: the statements run on the pool, each commits by itself. *)
FaultyStatement(work, rest) ==
    /\ tx' = [tx EXCEPT !.work = work, !.rest = rest]
    /\ redirects' = work

(* A statement of the transaction: nobody sees what it leaves.             *)
Statement(work, rest) ==
    /\ tx' = [tx EXCEPT !.work = work, !.rest = rest]
    /\ UNCHANGED redirects

Clear(h) ==
    /\ req[h].pc = "clear"
    /\ Statement(<< >>, tx.rest)
    /\ Goto(h, [pc |-> "insert"])
    /\ UNCHANGED <<config, raced, accepted>>

(* downstream_model is the primary key.                                    *)
Clash == tx.rest # << >> /\ Head(tx.rest).from \in DOMAIN tx.work

Insert(h) ==
    /\ req[h].pc = "insert"
    /\ tx.rest # << >> /\ ~Clash
    /\ LET row == Head(tx.rest)
       IN  Statement([from \in DOMAIN tx.work \cup {row.from} |->
                         IF from = row.from THEN row.to ELSE tx.work[from]],
                     Tail(tx.rest))
    /\ UNCHANGED <<config, req, raced, accepted>>

(* Faulty: reads the list back over the pool before it commits. *)
FaultyCommit(h) ==
    /\ req[h].pc = "insert" /\ tx.rest = << >>
    /\ Connected
    /\ redirects' = tx.work
    /\ tx' = NoTx
    /\ Goto(h, [pc |-> "reload"])
    /\ UNCHANGED <<config, raced, accepted>>

Commit(h) ==
    /\ req[h].pc = "insert" /\ tx.rest = << >>
    /\ redirects' = tx.work
    /\ tx' = NoTx
    /\ Goto(h, [pc |-> "reload"])
    /\ UNCHANGED <<config, raced, accepted>>

(* A statement outside of the transaction fails.                           *)
Fails(h) ==
    /\ req[h].pc \in {"write", "replace", "reload"}
    /\ Goto(h, Answer(500))
    /\ UnchangedTables /\ UNCHANGED <<raced, accepted>>

(* Faulty: nothing rolls the transaction back. *)
FaultyRollback(h) ==
    /\ req[h].pc \in {"clear", "insert"}
    /\ Goto(h, Answer(500))
    /\ UNCHANGED <<config, redirects, tx, raced, accepted>>

(* A statement of the transaction fails, or the client leaves: rollback.   *)
Rollback(h) ==
    /\ req[h].pc \in {"clear", "insert"}
    /\ tx' = NoTx
    /\ Goto(h, Answer(500))
    /\ UNCHANGED <<config, redirects, raced, accepted>>

(* configPayload lists the redirects for the answer.                       *)
Reload(h) ==
    /\ req[h].pc = "reload" /\ Connected
    /\ Goto(h, Answer(200))
    /\ UnchangedTables /\ UNCHANGED <<raced, accepted>>

Finish(h) ==
    /\ req[h].pc = "answer"
    /\ Goto(h, Idle)
    /\ raced' = [raced EXCEPT ![h] = {}]
    /\ UnchangedTables /\ UNCHANGED accepted

Proceed(h) ==
    \/ Write(h) \/ BeginReplace(h) \/ Clear(h) \/ Insert(h) \/ Commit(h)
    \/ Reload(h) \/ Finish(h)

Next ==
    \E h \in Handlers :
        \/ Begin(h) \/ Decode(h) \/ Refuse(h)
        \/ Proceed(h)
        \/ Fails(h) \/ Rollback(h)

Spec == Init /\ [][Next]_vars

(***************************************************************************)
(* A call that has its body goes on: database/sql gives the connection to  *)
(* those who wait in order.  The client need not send the body.            *)
(***************************************************************************)
Fairness == \A h \in Handlers : SF_vars(Proceed(h))

FairSpec == Spec /\ Fairness

-----------------------------------------------------------------------------
(***************************************************************************)
(* Properties.                                                             *)
(***************************************************************************)

Writes(h) == req[h].pc = "write" /\ req'[h].pc \in {"replace", "reload"}

(* A call undoes a setting it does not name only if another call set it    *)
(* after this one had read the row: without an overlap no edit is lost     *)
(* (handleUpdateConfig writes all columns back).                           *)
LostOnlyToOverlap ==
    [][\A h \in Handlers, c \in Columns :
          Writes(h) /\ c \notin DOMAIN req[h].edit /\ config'[c] # config[c]
              => c \in raced[h]]_vars

(* The redirects in force are one list that an administrator sent, never a *)
(* part of one or a mixture of two, whichever statement fails or whoever   *)
(* saves at the same time (ReplaceModelRedirects).                         *)
RedirectsAreOneList == redirects \in accepted

(* A list that passed the validation is never rejected by the primary key  *)
(* (normalizeModelRedirects and the INSERTs of ReplaceModelRedirects).     *)
AcceptedNeverClashes == tx # NoTx /\ req[tx.by].pc = "insert" => ~Clash

(* No call waits for the connection for ever: none needs a second one      *)
(* while it holds the only one (ReplaceModelRedirects, SetMaxOpenConns).   *)
CallsEnd == \A h \in Handlers : req[h].pc = "write" ~> req[h].pc = "idle"
=============================================================================
