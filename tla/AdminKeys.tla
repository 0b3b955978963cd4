----------------------------- MODULE AdminKeys ------------------------------
(***************************************************************************)
(* The administrator's calls on upstream keys: creating, editing,          *)
(* enabling, deleting, and refreshing the balance.                         *)
(*                                                                         *)
(* Editing and refreshing take several database calls, and refreshing two  *)
(* requests to the upstream; each step here is one of them, and anything   *)
(* may happen between two.  Order and health of the keys are in Failover.  *)
(***************************************************************************)
EXTENDS Integers, Functions

CONSTANTS
    NULL,          \* a field that is absent, a column that is NULL
    Handlers,      \* calls that may be active at the same time
    Aliases,
    Secrets,       \* API keys of the upstream
    ShortSecrets,  \* those of at most eight characters
    Amounts,       \* what the upstream may report
    Unlimited,     \* granted amounts from here on mean "no limit" (1e8)
    MaxId          \* bound: how many keys are ever created

ASSUME AdminKeysAssumption ==
    /\ NULL \notin Aliases \cup Secrets \cup Amounts
    /\ ShortSecrets \subseteq Secrets
    /\ Amounts \subseteq Nat /\ Unlimited \in Nat
    /\ MaxId \in Nat

VARIABLES
    rows,     \* table upstream_keys: id -> row
    lastId,   \* its AUTOINCREMENT sequence
    req,      \* the local variables of each call
    raced,    \* history: columns that others set since a call read them
    had       \* history: the secrets each key has had

vars == <<rows, lastId, req, raced, had>>

Ids == 1..MaxId

(* keyHint: both ends of a long secret, nothing of a short one.            *)
Hint(secret) == IF secret \in ShortSecrets THEN "****" ELSE <<"ends of", secret>>

(* The three columns, and of which secret they are (history).              *)
Balance == [granted : Amounts \cup {NULL}, used : Amounts \cup {NULL},
            available : Nat \cup {NULL}, of : Secrets \cup {NULL}]

NoBalance == [granted |-> NULL, used |-> NULL, available |-> NULL, of |-> NULL]

IsRow(row) ==
    /\ row.alias \in Aliases /\ row.secret \in Secrets
    /\ row.hint \in {Hint(s) : s \in Secrets}
    /\ row.enabled \in BOOLEAN
    /\ row.balance \in Balance

Columns == {"alias", "secret", "enabled"}

(***************************************************************************)
(* Program points of a call.                                               *)
(*   decode   handleUpdateUpstream: has read the row, waits for the body   *)
(*   load     Service.Update: about to read the row again                  *)
(*   replace  about to run ReplaceUpstreamKey                              *)
(*   fetch    RefreshBalance: asks the upstream with the secret it read    *)
(*   store    about to run UpdateUpstreamBalance                           *)
(*   reload   has written, about to read the row for the answer            *)
(*   refused  about to answer that there is no such key                    *)
(***************************************************************************)
Idle == [pc |-> "idle"]

Reloading == [pc |-> "reload"]

Refused == [pc |-> "refused"]

Editing(h) == req[h].pc \in {"decode", "load", "replace"}

TypeOK ==
    /\ lastId \in 0..MaxId
    /\ DOMAIN rows \subseteq 1..lastId
    /\ \A id \in DOMAIN rows : IsRow(rows[id])
    /\ \A h \in Handlers :
          /\ req[h] \in {Idle, Reloading, Refused} \/ Editing(h) \/ req[h].pc \in {"fetch", "store"}
          /\ req[h] \notin {Idle, Reloading, Refused} => req[h].id \in 1..lastId
    /\ raced \in [Handlers -> SUBSET Columns]
    /\ had \in [Ids -> SUBSET Secrets]

Init ==
    /\ rows = << >>
    /\ lastId = 0
    /\ req = [h \in Handlers |-> Idle]
    /\ raced = [h \in Handlers |-> {}]
    /\ had = [id \in Ids |-> {}]

Goto(h, local) == req' = [req EXCEPT ![h] = local]

Exists(id) == id \in DOMAIN rows

UnchangedTable == UNCHANGED <<rows, lastId, had>>

(* alias is UNIQUE.                                                        *)
AliasFree(alias, id) == \A other \in DOMAIN rows \ {id} : rows[other].alias # alias

(* Others that work on this key learn, as history, what was set under them. *)
RacedAfter(h, id, columns) ==
    [other \in Handlers |->
        IF other = h THEN {}
        ELSE IF Editing(other) /\ req[other].id = id THEN raced[other] \cup columns
        ELSE raced[other]]

-----------------------------------------------------------------------------
(***************************************************************************)
(* Calls that are one transaction or statement.                            *)
(***************************************************************************)

NextId == lastId + 1

Create ==
    \E alias \in Aliases, secret \in Secrets, enabled \in BOOLEAN :
        LET id == NextId
        IN  /\ id <= MaxId
            /\ AliasFree(alias, id)
            /\ lastId' = id
            /\ rows' = [i \in DOMAIN rows \cup {id} |->
                          IF i \in DOMAIN rows THEN rows[i]
                          ELSE [alias |-> alias, secret |-> secret, hint |-> Hint(secret),
                                enabled |-> enabled, balance |-> NoBalance]]
            /\ had' = [had EXCEPT ![id] = {secret}]
            /\ UNCHANGED <<req, raced>>

Delete(id) ==
    /\ Exists(id)
    /\ rows' = Restrict(rows, DOMAIN rows \ {id})
    /\ had' = [had EXCEPT ![id] = {}]
    /\ UNCHANGED <<lastId, req, raced>>

SetEnabled(h, id) ==
    /\ req[h].pc = "idle" /\ Exists(id)
    /\ \E enabled \in BOOLEAN : rows' = [rows EXCEPT ![id].enabled = enabled]
    /\ raced' = RacedAfter(h, id, {"enabled"})
    /\ Goto(h, Reloading)
    /\ UNCHANGED <<lastId, had>>

-----------------------------------------------------------------------------
(***************************************************************************)
(* Editing a key.                                                          *)
(***************************************************************************)
BeginEdit(h, id) ==
    /\ req[h].pc = "idle" /\ Exists(id)
    /\ Goto(h, [pc |-> "decode", id |-> id, enabled |-> rows[id].enabled])
    /\ raced' = [raced EXCEPT ![h] = {}]
    /\ UnchangedTable

(* Faulty: an edit without is_enabled enables the key, like a creation. *)
FaultyKeep(enabled) == TRUE

Keep(enabled) == enabled

(* The alias is required; the secret and is_enabled may be absent.         *)
Decode(h) ==
    /\ req[h].pc = "decode"
    /\ \E alias \in Aliases, secret \in Secrets \cup {NULL}, enabled \in BOOLEAN \cup {NULL} :
          Goto(h, [pc |-> "load", id |-> req[h].id, alias |-> alias, secret |-> secret,
                   enabled |-> IF enabled = NULL THEN Keep(req[h].enabled) ELSE enabled,
                   named |-> {"alias"} \cup (IF secret = NULL THEN {} ELSE {"secret"})
                                       \cup (IF enabled = NULL THEN {} ELSE {"enabled"})])
    /\ UNCHANGED raced /\ UnchangedTable

(* Service.Update takes secret and hint from the row unless it has a new.  *)
Load(h) ==
    /\ req[h].pc = "load" /\ Exists(req[h].id)
    /\ LET current == rows[req[h].id]
           secret  == IF req[h].secret = NULL THEN current.secret ELSE req[h].secret
           hint    == IF req[h].secret = NULL THEN current.hint ELSE Hint(req[h].secret)
       IN  Goto(h, [pc |-> "replace", id |-> req[h].id, alias |-> req[h].alias,
                    secret |-> secret, hint |-> hint, enabled |-> req[h].enabled,
                    named |-> req[h].named])
    /\ raced' = [raced EXCEPT ![h] = @ \ {"secret"}]
    /\ UnchangedTable

(* Faulty: COALESCE keeps the secret of an edit that has none, not the hint. *)
FaultyReplaced(row, edit) ==
    [row EXCEPT !.alias = edit.alias, !.hint = edit.hint, !.enabled = edit.enabled,
                !.secret = IF "secret" \in edit.named THEN edit.secret ELSE @]

Replaced(row, edit) ==
    [row EXCEPT !.alias = edit.alias, !.secret = edit.secret,
                !.hint = edit.hint, !.enabled = edit.enabled]

Changed(row, new) == {column \in Columns : row[column] # new[column]}

Replace(h) ==
    /\ req[h].pc = "replace"
    /\ Exists(req[h].id) /\ AliasFree(req[h].alias, req[h].id)
    /\ LET id == req[h].id
       IN  /\ rows' = [rows EXCEPT ![id] = Replaced(@, req[h])]
           /\ raced' = RacedAfter(h, id, req[h].named \cup Changed(rows[id], rows'[id]))
           /\ had' = [had EXCEPT ![id] = @ \cup {rows'[id].secret}]
           /\ Goto(h, Reloading)
    /\ UNCHANGED lastId

-----------------------------------------------------------------------------
(***************************************************************************)
(* Refreshing the balance.                                                 *)
(***************************************************************************)
BeginRefresh(h, id) ==
    /\ req[h].pc = "idle" /\ Exists(id)
    /\ Goto(h, [pc |-> "fetch", id |-> id, secret |-> rows[id].secret])
    /\ UNCHANGED raced /\ UnchangedTable

(* hard_limit_usd counts if it is positive and not "no limit".             *)
Granted(limit) == IF limit # NULL /\ limit > 0 /\ limit < Unlimited THEN limit ELSE NULL

(* Faulty: more may be used than granted. *)
FaultyRemaining(granted, used) ==
    IF granted = NULL \/ used = NULL THEN NULL ELSE granted - used

Remaining(granted, used) ==
    IF granted = NULL \/ used = NULL THEN NULL
    ELSE IF granted > used THEN granted - used ELSE 0

(* Both requests to the upstream are answered; NULL: no such number.       *)
Fetch(h) ==
    /\ req[h].pc = "fetch"
    /\ \E limit, used \in Amounts \cup {NULL} :
          Goto(h, [pc |-> "store", id |-> req[h].id,
                   balance |-> [granted |-> Granted(limit), used |-> used,
                                available |-> Remaining(Granted(limit), used),
                                of |-> IF Granted(limit) = NULL /\ used = NULL THEN NULL
                                       ELSE req[h].secret]])
    /\ UNCHANGED raced /\ UnchangedTable

(* Faulty: COALESCE keeps the numbers that a refresh did not bring. *)
FaultyBalance(old, new) ==
    [column \in DOMAIN new |-> IF new[column] = NULL THEN old[column] ELSE new[column]]

NewBalance(old, new) == new

Store(h) ==
    /\ req[h].pc = "store" /\ Exists(req[h].id)
    /\ rows' = [rows EXCEPT ![req[h].id].balance = NewBalance(@, req[h].balance)]
    /\ Goto(h, Reloading)
    /\ UNCHANGED <<lastId, raced, had>>

-----------------------------------------------------------------------------
(* There is no such key, whatever the call.                                *)
NotFound(h, id) ==
    /\ req[h].pc = "idle" /\ ~Exists(id)
    /\ Goto(h, Refused)
    /\ UNCHANGED raced /\ UnchangedTable

(* Answers that end a call before it has written: bad request, not found,  *)
(* alias taken, an error of the upstream or of the database.               *)
GiveUp(h) ==
    /\ req[h].pc \in {"decode", "load", "replace", "fetch", "store", "refused"}
    /\ Goto(h, Idle)
    /\ raced' = [raced EXCEPT ![h] = {}]
    /\ UnchangedTable

(* The row for the answer; "not found" if the key is gone by now.          *)
Reload(h) ==
    /\ req[h].pc = "reload"
    /\ Goto(h, Idle)
    /\ UNCHANGED raced /\ UnchangedTable

Edit(h) ==
    \/ \E id \in Ids : BeginEdit(h, id)
    \/ Decode(h) \/ Load(h) \/ Replace(h)

Refresh(h) ==
    \/ \E id \in Ids : BeginRefresh(h, id)
    \/ Fetch(h) \/ Store(h)

Next ==
    \/ Create
    \/ \E id \in Ids : Delete(id)
    \/ \E h \in Handlers :
          \/ \E id \in Ids : SetEnabled(h, id) \/ NotFound(h, id)
          \/ Edit(h) \/ Refresh(h)
          \/ GiveUp(h) \/ Reload(h)

Spec == Init /\ [][Next]_vars

-----------------------------------------------------------------------------
(***************************************************************************)
(* Properties.                                                             *)
(***************************************************************************)

(* The hint an administrator sees is that of the secret which is used,     *)
(* although an edit writes both back from a row it read before             *)
(* (Service.Update, ReplaceUpstreamKey).                                   *)
HintMatchesSecret == \A id \in DOMAIN rows : rows[id].hint = Hint(rows[id].secret)

(* The numbers of a balance are of one refresh and add up, however         *)
(* refreshes overlap and whichever number the upstream leaves out; they    *)
(* were reported for a secret that this key had at some time, never for    *)
(* another key's, although they are stored under an id that may have been  *)
(* deleted meanwhile (RefreshBalance, UpdateUpstreamBalance).              *)
BalanceIsOwn ==
    \A id \in DOMAIN rows :
        LET balance == rows[id].balance
        IN  /\ balance.available = Remaining(balance.granted, balance.used)
            /\ balance.of \in had[id] \cup {NULL}

(* An edit takes effect only on a key that still exists, and changes a     *)
(* column it does not name only if another call set it after this one had  *)
(* read it (handleUpdateUpstream, Service.Update, ReplaceUpstreamKey).     *)
EditsLoseOnlyToOverlap ==
    [][\A h \in Handlers :
          req[h].pc = "replace" /\ req'[h].pc = "reload" =>
              /\ Exists(req[h].id)
              /\ Changed(rows[req[h].id], rows'[req[h].id])
                     \subseteq req[h].named \cup raced[h]]_vars
=============================================================================
