-------------------------- MODULE AdminKeysProofs ---------------------------
(***************************************************************************)
(* AdminKeys for any number of calls, keys, secrets and amounts: hint and  *)
(* secret go together, a balance is the key's own and adds up, and an edit *)
(* loses only to an edit it overlaps.                                      *)
(*                                                                         *)
(* The inductive invariant says of every value that a call has read and    *)
(* has still to write back that it is the row's, or was noted as changed,  *)
(* or that the row is gone; and no id is given out twice, so a row that is *)
(* gone does not come back under it.                                       *)
(***************************************************************************)
EXTENDS AdminKeys, TLAPS

Rows == [alias : Aliases, secret : Secrets, hint : {Hint(s) : s \in Secrets},
         enabled : BOOLEAN, balance : Balance]

(* The numbers are of one refresh, with a secret of the given ones.        *)
BalanceOK(balance, secrets) ==
    /\ balance \in Balance
    /\ balance.available = Remaining(balance.granted, balance.used)
    /\ balance.of \in secrets \cup {NULL}

RowOK(row, secrets) ==
    /\ row \in Rows
    /\ row.hint = Hint(row.secret)
    /\ row.secret \in secrets
    /\ BalanceOK(row.balance, secrets)

(* A call that has read a column and will write it back has the row's      *)
(* value, unless others have set it since.                                 *)
EnabledKept(h, r) ==
    r.id \in DOMAIN rows => rows[r.id].enabled = r.enabled \/ "enabled" \in raced[h]

SecretKept(h, r) ==
    r.id \in DOMAIN rows => rows[r.id].secret = r.secret \/ "secret" \in raced[h]

(* What a call may hold between two steps.                                 *)
Local(h, r) ==
    /\ \/ r \in {Idle, Reloading, Refused}
       \/ r.pc \in {"decode", "load", "replace", "fetch", "store"} /\ r.id \in 1..lastId
    /\ r.pc = "decode" => r.enabled \in BOOLEAN /\ EnabledKept(h, r)
    /\ r.pc \in {"load", "replace"} =>
          /\ r.alias \in Aliases /\ r.enabled \in BOOLEAN
          /\ r.named \subseteq Columns /\ "alias" \in r.named
          /\ "enabled" \notin r.named => EnabledKept(h, r)
    /\ r.pc = "load" =>
          /\ r.secret \in Secrets \cup {NULL}
          /\ "secret" \notin r.named => r.secret = NULL
    /\ r.pc = "replace" =>
          /\ r.secret \in Secrets /\ r.hint = Hint(r.secret)
          /\ "secret" \notin r.named => SecretKept(h, r)
    /\ r.pc = "fetch" =>
          r.secret \in Secrets /\ (r.id \in DOMAIN rows => r.secret \in had[r.id])
    /\ r.pc = "store" =>
          /\ BalanceOK(r.balance, Secrets)
          /\ r.id \in DOMAIN rows => BalanceOK(r.balance, had[r.id])

IInv ==
    /\ lastId \in 0..MaxId
    /\ DOMAIN rows \subseteq 1..lastId
    /\ \A id \in DOMAIN rows : RowOK(rows[id], had[id])
    /\ DOMAIN req = Handlers
    /\ \A h \in Handlers : Local(h, req[h])
    /\ raced \in [Handlers -> SUBSET Columns]
    /\ had \in [Ids -> SUBSET Secrets]

-----------------------------------------------------------------------------
(* A step of one call, or of none, leaves what another holds in order, if  *)
(* it notes what it changes and brings no row back.                        *)
LEMMA OtherCalls ==
    ASSUME IInv, NEW g \in Handlers, req'[g] = req[g],
           lastId' \in Nat, lastId =< lastId',
           raced[g] \subseteq raced'[g],
           \A id \in 1..lastId : id \in DOMAIN rows' =>
              /\ id \in DOMAIN rows /\ had[id] \subseteq had'[id]
              /\ Editing(g) /\ req[g].id = id =>
                    /\ rows'[id].enabled = rows[id].enabled \/ "enabled" \in raced'[g]
                    /\ rows'[id].secret = rows[id].secret \/ "secret" \in raced'[g]
    PROVE  Local(g, req[g])'
<1> DEFINE r == req[g]
<1>1. Local(g, r) /\ lastId \in Nat
    BY AdminKeysAssumption DEF IInv
<1>2. CASE r \in {Idle, Reloading, Refused}
    BY <1>2 DEF Local, Idle, Reloading, Refused
<1>3. CASE r.pc \in {"decode", "load", "replace"} /\ r.id \in 1..lastId
    <2>1. Editing(g) /\ r.id \in 1..lastId' BY <1>1, <1>3 DEF Editing
    <2>2. EnabledKept(g, r) => EnabledKept(g, r)'
        BY <1>3, <2>1 DEF EnabledKept
    <2>3. SecretKept(g, r) => SecretKept(g, r)'
        BY <1>3, <2>1 DEF SecretKept
    <2> QED BY <1>1, <1>3, <2>1, <2>2, <2>3 DEF Local
<1>4. CASE r.pc \in {"fetch", "store"} /\ r.id \in 1..lastId
    <2>1. r.id \in 1..lastId' BY <1>1, <1>4
    <2>2. r.pc = "fetch" => r.secret \in Secrets
                            /\ (r.id \in DOMAIN rows' => r.secret \in had'[r.id])
        BY <1>1, <1>4 DEF Local
    <2>3. r.pc = "store" => BalanceOK(r.balance, Secrets)
                            /\ (r.id \in DOMAIN rows' => BalanceOK(r.balance, had'[r.id]))
        BY <1>1, <1>4 DEF Local, BalanceOK
    <2> QED BY <1>4, <2>1, <2>2, <2>3 DEF Local
<1> QED BY <1>1, <1>2, <1>3, <1>4 DEF Local

(* The steps of a call that leave the table alone.                         *)
LEMMA CallStep ==
    ASSUME IInv, NEW h \in Handlers, UnchangedTable,
           NEW r, Goto(h, r), Local(h, r)',
           raced' \in [Handlers -> SUBSET Columns],
           \A g \in Handlers \ {h} : raced'[g] = raced[g]
    PROVE  IInv'
<1>1. rows' = rows /\ lastId' = lastId /\ had' = had /\ req' = [req EXCEPT ![h] = r]
    BY DEF UnchangedTable, Goto
<1>2. lastId \in Nat BY AdminKeysAssumption DEF IInv
<1>3. ASSUME NEW g \in Handlers PROVE Local(g, req[g])'
    <2>1. CASE g = h BY <1>1, <2>1 DEF IInv
    <2>2. CASE g # h
        <3>1. req'[g] = req[g] BY <1>1, <2>2 DEF IInv
        <3> QED BY <1>1, <1>2, <2>2, <3>1, OtherCalls
    <2> QED BY <2>1, <2>2
<1> QED BY <1>1, <1>3 DEF IInv

(* An id somebody holds is one that was given out; the primed facts a step *)
(* of a call needs when the table stays.                                   *)
LEMMA TableStays ==
    ASSUME IInv, UnchangedTable
    PROVE  /\ rows' = rows /\ lastId' = lastId /\ had' = had
           /\ \A id \in DOMAIN rows : id \in 1..lastId /\ RowOK(rows[id], had[id])
BY DEF IInv, UnchangedTable

LEMMA BeginEditStep ==
    ASSUME IInv, NEW h \in Handlers, NEW id \in Ids, BeginEdit(h, id)
    PROVE  IInv'
<1>1. UnchangedTable /\ id \in DOMAIN rows /\ raced' = [raced EXCEPT ![h] = {}]
    BY DEF BeginEdit, Exists
<1>2. PICK r : r = [pc |-> "decode", id |-> id, enabled |-> rows[id].enabled]
    OBVIOUS
<1>3. Goto(h, r) BY <1>2 DEF BeginEdit
<1>4. rows[id].enabled \in BOOLEAN BY <1>1, TableStays DEF RowOK, Rows
<1>5. Local(h, r)'
    BY <1>1, <1>2, <1>4, TableStays DEF Local, EnabledKept
<1> QED BY <1>1, <1>3, <1>5, CallStep DEF IInv

LEMMA DecodeStep ==
    ASSUME IInv, NEW h \in Handlers, Decode(h)
    PROVE  IInv'
<1>1. UnchangedTable /\ raced' = raced /\ req[h].pc = "decode"
    BY DEF Decode
<1>2. PICK alias \in Aliases, secret \in Secrets \cup {NULL}, enabled \in BOOLEAN \cup {NULL} :
          Goto(h, [pc |-> "load", id |-> req[h].id, alias |-> alias, secret |-> secret,
                   enabled |-> IF enabled = NULL THEN Keep(req[h].enabled) ELSE enabled,
                   named |-> {"alias"} \cup (IF secret = NULL THEN {} ELSE {"secret"})
                                       \cup (IF enabled = NULL THEN {} ELSE {"enabled"})])
    BY DEF Decode
<1>3. PICK id, e, n : /\ id = req[h].id
                      /\ e = IF enabled = NULL THEN req[h].enabled ELSE enabled
                      /\ n = {"alias"} \cup (IF secret = NULL THEN {} ELSE {"secret"})
                                       \cup (IF enabled = NULL THEN {} ELSE {"enabled"})
    OBVIOUS
<1> DEFINE r == [pc |-> "load", id |-> id, alias |-> alias, secret |-> secret,
                 enabled |-> e, named |-> n]
<1>4. Goto(h, r) BY <1>2, <1>3 DEF Keep
<1>5. Local(h, req[h]) /\ req[h].pc = "decode" BY <1>1 DEF IInv
<1>6. /\ id \in 1..lastId /\ e \in BOOLEAN /\ n \subseteq Columns /\ "alias" \in n
      /\ "enabled" \notin n => e = req[h].enabled
      /\ "secret" \notin n => secret = NULL
    BY <1>3, <1>5 DEF Local, Columns, Idle, Reloading, Refused
<1>7. EnabledKept(h, req[h]) BY <1>5 DEF Local
<1>8. "enabled" \notin n => EnabledKept(h, r)'
    BY <1>1, <1>3, <1>6, <1>7, TableStays DEF EnabledKept
<1>9. Local(h, r)'
    BY <1>1, <1>6, <1>8, TableStays DEF Local
<1> QED BY <1>1, <1>4, <1>9, CallStep DEF IInv

LEMMA LoadStep ==
    ASSUME IInv, NEW h \in Handlers, Load(h)
    PROVE  IInv'
<1>1. UnchangedTable /\ raced' = [raced EXCEPT ![h] = @ \ {"secret"}]
      /\ req[h].pc = "load" /\ req[h].id \in DOMAIN rows
    BY DEF Load, Exists
<1>2. Local(h, req[h]) BY DEF IInv
<1>3. PICK id, current, alias, enabled, named :
          /\ id = req[h].id /\ current = rows[id] /\ alias = req[h].alias
          /\ enabled = req[h].enabled /\ named = req[h].named
    OBVIOUS
<1>4. PICK secret, hint :
          /\ secret = IF req[h].secret = NULL THEN current.secret ELSE req[h].secret
          /\ hint = IF req[h].secret = NULL THEN current.hint ELSE Hint(req[h].secret)
    OBVIOUS
<1> DEFINE r == [pc |-> "replace", id |-> id, alias |-> alias, secret |-> secret,
                 hint |-> hint, enabled |-> enabled, named |-> named]
<1>5. Goto(h, r) BY <1>3, <1>4 DEF Load
<1>6. RowOK(current, had[id]) /\ id \in 1..lastId BY <1>1, <1>3, TableStays
<1>7. secret \in Secrets /\ hint = Hint(secret)
    BY <1>1, <1>2, <1>4, <1>6 DEF Local, RowOK, Rows
<1>8. /\ alias \in Aliases /\ enabled \in BOOLEAN /\ named \subseteq Columns
      /\ "alias" \in named
    BY <1>1, <1>2, <1>3 DEF Local
<1>9. "enabled" \notin named => EnabledKept(h, r)'
    <2>1. "enabled" \notin named => EnabledKept(h, req[h])
        BY <1>1, <1>2, <1>3 DEF Local
    <2>2. "enabled" \in raced[h] => "enabled" \in raced'[h]
        BY <1>1 DEF IInv
    <2> QED BY <1>1, <1>3, <2>1, <2>2, TableStays DEF EnabledKept
<1>10. "secret" \notin named => SecretKept(h, r)'
    <2>1. "secret" \notin named => secret = current.secret
        BY <1>1, <1>2, <1>3, <1>4 DEF Local
    <2> QED BY <1>1, <1>3, <2>1, TableStays DEF SecretKept
<1>11. Local(h, r)'
    BY <1>1, <1>6, <1>7, <1>8, <1>9, <1>10, TableStays DEF Local
<1> QED BY <1>1, <1>5, <1>11, CallStep DEF IInv

LEMMA BeginRefreshStep ==
    ASSUME IInv, NEW h \in Handlers, NEW id \in Ids, BeginRefresh(h, id)
    PROVE  IInv'
<1>1. UnchangedTable /\ id \in DOMAIN rows /\ raced' = raced
    BY DEF BeginRefresh, Exists
<1>2. PICK r : r = [pc |-> "fetch", id |-> id, secret |-> rows[id].secret]
    OBVIOUS
<1>3. Goto(h, r) BY <1>2 DEF BeginRefresh
<1>4. Local(h, r)'
    BY <1>1, <1>2, TableStays DEF Local, RowOK, Rows
<1> QED BY <1>1, <1>3, <1>4, CallStep DEF IInv

(* What is computed from the two answers adds up.                          *)
LEMMA FetchedBalance ==
    ASSUME NEW limit \in Amounts \cup {NULL}, NEW used \in Amounts \cup {NULL},
           NEW secret \in Secrets, NEW granted, granted = Granted(limit)
    PROVE  BalanceOK([granted |-> granted, used |-> used,
                      available |-> Remaining(granted, used),
                      of |-> IF granted = NULL /\ used = NULL THEN NULL ELSE secret],
                     {secret})
<1>1. granted \in Amounts \cup {NULL} BY DEF Granted
<1>2. Remaining(granted, used) \in Nat \cup {NULL}
    <2>1. CASE granted = NULL \/ used = NULL BY <2>1 DEF Remaining
    <2>2. CASE granted # NULL /\ used # NULL
        <3>1. granted \in Nat /\ used \in Nat BY <1>1, <2>2, AdminKeysAssumption
        <3> QED BY <2>2, <3>1 DEF Remaining
    <2> QED BY <2>1, <2>2
<1> QED BY <1>1, <1>2 DEF BalanceOK, Balance

LEMMA FetchStep ==
    ASSUME IInv, NEW h \in Handlers, Fetch(h)
    PROVE  IInv'
<1>1. UnchangedTable /\ raced' = raced /\ req[h].pc = "fetch"
    BY DEF Fetch
<1>2. PICK id, secret : id = req[h].id /\ secret = req[h].secret
    OBVIOUS
<1>3. Local(h, req[h]) BY DEF IInv
<1>4. /\ id \in 1..lastId /\ secret \in Secrets
      /\ id \in DOMAIN rows => secret \in had[id]
    BY <1>1, <1>2, <1>3 DEF Local, Idle, Reloading, Refused
<1>5. PICK balance : /\ Goto(h, [pc |-> "store", id |-> id, balance |-> balance])
                     /\ BalanceOK(balance, {secret})
    BY <1>2, <1>4, FetchedBalance DEF Fetch
<1>6. BalanceOK(balance, Secrets) /\ (id \in DOMAIN rows => BalanceOK(balance, had[id]))
    BY <1>4, <1>5 DEF BalanceOK
<1>7. Local(h, [pc |-> "store", id |-> id, balance |-> balance])'
    BY <1>1, <1>4, <1>6, TableStays DEF Local
<1> QED BY <1>1, <1>5, <1>7, CallStep DEF IInv

(* The steps that end a call, or begin one that is refused.                *)
LEMMA EndStep ==
    ASSUME IInv, NEW h \in Handlers,
           (\E id \in Ids : NotFound(h, id)) \/ GiveUp(h) \/ Reload(h)
    PROVE  IInv'
<1>1. UnchangedTable /\ (Goto(h, Idle) \/ Goto(h, Refused))
      /\ (raced' = raced \/ raced' = [raced EXCEPT ![h] = {}])
    BY DEF NotFound, GiveUp, Reload
<1>2. Local(h, Idle)' /\ Local(h, Refused)'
    BY DEF Local, Idle, Reloading, Refused
<1> QED BY <1>1, <1>2, CallStep DEF IInv

-----------------------------------------------------------------------------
(* A new key has an id nobody holds.                                       *)
LEMMA CreateStep ==
    ASSUME IInv, Create
    PROVE  IInv'
<1> PICK id : id = NextId
    OBVIOUS
<1>1. PICK alias \in Aliases, secret \in Secrets, enabled \in BOOLEAN :
          /\ id = lastId + 1
          /\ id <= MaxId /\ lastId' = id
          /\ rows' = [i \in DOMAIN rows \cup {id} |->
                        IF i \in DOMAIN rows THEN rows[i]
                        ELSE [alias |-> alias, secret |-> secret, hint |-> Hint(secret),
                              enabled |-> enabled, balance |-> NoBalance]]
          /\ had' = [had EXCEPT ![id] = {secret}]
          /\ UNCHANGED <<req, raced>>
    BY DEF Create, NextId
<1>2. lastId \in Nat /\ id \in Ids /\ id \notin 1..lastId /\ lastId' \in 0..MaxId
      /\ lastId =< lastId'
    BY <1>1, AdminKeysAssumption DEF IInv, Ids
<1>3. DOMAIN rows \subseteq 1..lastId /\ id \notin DOMAIN rows BY <1>2 DEF IInv
<1>4. had' \in [Ids -> SUBSET Secrets] /\ had'[id] = {secret}
      /\ \A i \in 1..lastId : had'[i] = had[i]
    <2>1. \A i \in 1..lastId : i \in Ids BY AdminKeysAssumption DEF IInv, Ids
    <2> QED BY <1>1, <1>2, <2>1 DEF IInv
<1>5. RowOK(rows'[id], had'[id])
    <2> DEFINE row == [alias |-> alias, secret |-> secret, hint |-> Hint(secret),
                       enabled |-> enabled, balance |-> NoBalance]
    <2>1. BalanceOK(NoBalance, {secret})
        BY DEF BalanceOK, NoBalance, Balance, Remaining
    <2>2. row \in Rows
        BY <2>1 DEF Rows, BalanceOK
    <2>3. row.hint = Hint(row.secret) /\ row.secret = secret /\ row.balance = NoBalance
        OBVIOUS
    <2>4. rows'[id] = row BY <1>1, <1>3
    <2> HIDE DEF row
    <2> QED BY <1>4, <2>1, <2>2, <2>3, <2>4 DEF RowOK
<1>6. \A i \in DOMAIN rows' : RowOK(rows'[i], had'[i])
    <2> TAKE i \in DOMAIN rows'
    <2>1. CASE i = id BY <1>5, <2>1
    <2>2. CASE i \in DOMAIN rows
        <3>1. rows'[i] = rows[i] BY <1>1, <2>2
        <3>2. had'[i] = had[i] BY <1>3, <1>4, <2>2
        <3> QED BY <2>2, <3>1, <3>2 DEF IInv
    <2> QED BY <1>1, <2>1, <2>2
<1>7. \A i \in 1..lastId : i \in DOMAIN rows' =>
          i \in DOMAIN rows /\ rows'[i] = rows[i] /\ had'[i] = had[i]
    BY <1>1, <1>2, <1>4
<1>8. \A g \in Handlers : Local(g, req[g])'
    BY <1>1, <1>2, <1>7, OtherCalls
<1>9. DOMAIN rows' \subseteq 1..lastId'
    BY <1>1, <1>2, <1>3
<1> QED BY <1>1, <1>2, <1>4, <1>6, <1>8, <1>9 DEF IInv

LEMMA DeleteStep ==
    ASSUME IInv, NEW id \in Ids, Delete(id)
    PROVE  IInv'
<1>1. rows' = [i \in DOMAIN rows \ {id} |-> rows[i]]
      /\ had' = [had EXCEPT ![id] = {}] /\ UNCHANGED <<lastId, req, raced>>
    BY DEF Delete, Restrict
<1>2. lastId \in Nat BY AdminKeysAssumption DEF IInv
<1>3. had' \in [Ids -> SUBSET Secrets] /\ \A i \in Ids \ {id} : had'[i] = had[i]
    BY <1>1 DEF IInv
<1>4. \A i \in DOMAIN rows : i \in Ids BY <1>2, AdminKeysAssumption DEF IInv, Ids
<1>5. \A i \in DOMAIN rows' : i \in DOMAIN rows /\ rows'[i] = rows[i] /\ had'[i] = had[i]
    BY <1>1, <1>3, <1>4
<1>6. \A i \in DOMAIN rows' : RowOK(rows'[i], had'[i])
    BY <1>5 DEF IInv
<1>7. \A g \in Handlers : Local(g, req[g])'
    BY <1>1, <1>2, <1>5, OtherCalls
<1> QED BY <1>1, <1>3, <1>5, <1>6, <1>7 DEF IInv

(* A step of one call that changes one row and goes on to Reloading.       *)
LEMMA RowStep ==
    ASSUME IInv, NEW h \in Handlers, NEW id \in DOMAIN rows, NEW row,
           rows' = [rows EXCEPT ![id] = row], RowOK(row, had'[id]),
           had' \in [Ids -> SUBSET Secrets], had[id] \subseteq had'[id],
           \A i \in Ids \ {id} : had'[i] = had[i],
           lastId' = lastId, Goto(h, Reloading),
           raced' \in [Handlers -> SUBSET Columns],
           \A g \in Handlers \ {h} :
               /\ raced[g] \subseteq raced'[g]
               /\ Editing(g) /\ req[g].id = id =>
                     /\ row.enabled = rows[id].enabled \/ "enabled" \in raced'[g]
                     /\ row.secret = rows[id].secret \/ "secret" \in raced'[g]
    PROVE  IInv'
<1>1. lastId \in Nat /\ \A i \in DOMAIN rows : i \in Ids
    BY AdminKeysAssumption DEF IInv, Ids
<1>2. rows'[id] = row /\ DOMAIN rows' = DOMAIN rows
      /\ \A i \in DOMAIN rows \ {id} : rows'[i] = rows[i]
    OBVIOUS
<1>3. \A i \in DOMAIN rows' : RowOK(rows'[i], had'[i])
    BY <1>1, <1>2 DEF IInv
<1>4. ASSUME NEW g \in Handlers PROVE Local(g, req[g])'
    <2>1. CASE g = h
        <3>1. req'[g] = Reloading BY <2>1 DEF Goto, IInv
        <3> QED BY <3>1 DEF Local, Reloading
    <2>2. CASE g # h
        <3>1. req'[g] = req[g] BY <2>2 DEF Goto, IInv
        <3>2. \A i \in 1..lastId : i \in DOMAIN rows' =>
                 /\ i \in DOMAIN rows /\ had[i] \subseteq had'[i]
                 /\ Editing(g) /\ req[g].id = i =>
                       /\ rows'[i].enabled = rows[i].enabled \/ "enabled" \in raced'[g]
                       /\ rows'[i].secret = rows[i].secret \/ "secret" \in raced'[g]
            BY <1>1, <1>2, <2>2
        <3> QED BY <1>1, <2>2, <3>1, <3>2, OtherCalls
    <2> QED BY <2>1, <2>2
<1> QED BY <1>2, <1>3, <1>4 DEF IInv, Goto

(* What the others learn of a change.                                      *)
LEMMA OthersLearn ==
    ASSUME IInv, NEW h \in Handlers, NEW id, NEW columns \in SUBSET Columns,
           raced' = RacedAfter(h, id, columns)
    PROVE  /\ raced' \in [Handlers -> SUBSET Columns]
           /\ \A g \in Handlers \ {h} :
                 /\ raced[g] \subseteq raced'[g]
                 /\ Editing(g) /\ req[g].id = id => columns \subseteq raced'[g]
BY DEF RacedAfter, IInv

LEMMA SetEnabledStep ==
    ASSUME IInv, NEW h \in Handlers, NEW id \in Ids, SetEnabled(h, id)
    PROVE  IInv'
<1>1. id \in DOMAIN rows /\ raced' = RacedAfter(h, id, {"enabled"})
      /\ Goto(h, Reloading) /\ lastId' = lastId /\ had' = had
    BY DEF SetEnabled, Exists
<1>2. PICK enabled \in BOOLEAN : rows' = [rows EXCEPT ![id].enabled = enabled]
    BY DEF SetEnabled
<1>3. PICK row : row = [rows[id] EXCEPT !.enabled = enabled]
    OBVIOUS
<1>4. RowOK(rows[id], had[id]) BY <1>1 DEF IInv
<1>5. RowOK(row, had[id]) /\ row.secret = rows[id].secret
    BY <1>3, <1>4 DEF RowOK, Rows
<1>6. rows' = [rows EXCEPT ![id] = row] BY <1>2, <1>3
<1>7. PICK columns \in SUBSET Columns : columns = {"enabled"} BY DEF Columns
<1>8. raced' = RacedAfter(h, id, columns) BY <1>1, <1>7
<1>9. /\ raced' \in [Handlers -> SUBSET Columns]
      /\ \A g \in Handlers \ {h} :
            /\ raced[g] \subseteq raced'[g]
            /\ Editing(g) /\ req[g].id = id => columns \subseteq raced'[g]
    BY <1>8, OthersLearn
<1>10. \A g \in Handlers \ {h} :
           /\ raced[g] \subseteq raced'[g]
           /\ Editing(g) /\ req[g].id = id =>
                 /\ row.enabled = rows[id].enabled \/ "enabled" \in raced'[g]
                 /\ row.secret = rows[id].secret \/ "secret" \in raced'[g]
    BY <1>5, <1>7, <1>9
<1>11. had' \in [Ids -> SUBSET Secrets] /\ had[id] \subseteq had'[id]
       /\ (\A i \in Ids \ {id} : had'[i] = had[i]) /\ RowOK(row, had'[id])
    BY <1>1, <1>5 DEF IInv
<1> QED BY <1>1, <1>6, <1>9, <1>10, <1>11, RowStep

(* An edit writes a secret and its hint, and notes what changes.           *)
LEMMA ReplaceStep ==
    ASSUME IInv, NEW h \in Handlers, Replace(h)
    PROVE  IInv'
<1>1. PICK id, row :
          /\ id = req[h].id /\ id \in DOMAIN rows /\ row = Replaced(rows[id], req[h])
          /\ rows' = [rows EXCEPT ![id] = row]
    BY DEF Replace, Exists
<1>2. rows'[id] = row BY <1>1
<1>3. /\ raced' = RacedAfter(h, id, req[h].named \cup Changed(rows[id], row))
      /\ had' = [had EXCEPT ![id] = @ \cup {row.secret}]
      /\ Goto(h, Reloading) /\ lastId' = lastId /\ req[h].pc = "replace"
    BY <1>1, <1>2 DEF Replace
<1>4. Local(h, req[h]) /\ RowOK(rows[id], had[id]) BY <1>1 DEF IInv
<1>5. id \in Ids BY <1>1, AdminKeysAssumption DEF IInv, Ids
<1>6. had' \in [Ids -> SUBSET Secrets] /\ had'[id] = had[id] \cup {row.secret}
      /\ \A i \in Ids \ {id} : had'[i] = had[i]
    <2>1. row.secret \in Secrets
        BY <1>1, <1>3, <1>4 DEF Local, RowOK, Rows, Replaced
    <2> QED BY <1>3, <1>5, <2>1 DEF IInv
<1>7. row \in Rows /\ row.hint = Hint(row.secret) /\ row.balance = rows[id].balance
    BY <1>1, <1>3, <1>4 DEF Local, RowOK, Rows, Replaced
<1>8. RowOK(row, had'[id])
    BY <1>4, <1>6, <1>7 DEF RowOK, BalanceOK
<1>9. PICK columns \in SUBSET Columns : columns = req[h].named \cup Changed(rows[id], row)
    BY <1>3, <1>4 DEF Local, Changed
<1>10. raced' = RacedAfter(h, id, columns) BY <1>3, <1>9
<1>11. /\ raced' \in [Handlers -> SUBSET Columns]
       /\ \A g \in Handlers \ {h} :
             /\ raced[g] \subseteq raced'[g]
             /\ Editing(g) /\ req[g].id = id => columns \subseteq raced'[g]
    BY <1>10, OthersLearn
<1>12. \A g \in Handlers \ {h} : Editing(g) /\ req[g].id = id =>
            /\ row.enabled = rows[id].enabled \/ "enabled" \in raced'[g]
            /\ row.secret = rows[id].secret \/ "secret" \in raced'[g]
    <2> TAKE g \in Handlers \ {h}
    <2> HAVE Editing(g) /\ req[g].id = id
    <2>1. Changed(rows[id], row) \subseteq raced'[g] BY <1>9, <1>11
    <2>2. row \in Rows /\ rows[id] \in Rows BY <1>4, <1>7 DEF RowOK
    <2>3. row["enabled"] = row.enabled /\ rows[id]["enabled"] = rows[id].enabled
          /\ row["secret"] = row.secret /\ rows[id]["secret"] = rows[id].secret
        BY <2>2 DEF Rows
    <2> QED BY <2>1, <2>3 DEF Changed, Columns
<1>13. \A g \in Handlers \ {h} :
           /\ raced[g] \subseteq raced'[g]
           /\ Editing(g) /\ req[g].id = id =>
                 /\ row.enabled = rows[id].enabled \/ "enabled" \in raced'[g]
                 /\ row.secret = rows[id].secret \/ "secret" \in raced'[g]
    BY <1>12, <1>11
<1>14. /\ id \in DOMAIN rows /\ rows' = [rows EXCEPT ![id] = row]
       /\ had[id] \subseteq had'[id]
    BY <1>1, <1>6
<1> QED BY <1>3, <1>6, <1>8, <1>11, <1>13, <1>14, RowStep

LEMMA StoreStep ==
    ASSUME IInv, NEW h \in Handlers, Store(h)
    PROVE  IInv'
<1>1. PICK id, balance, row :
          /\ id = req[h].id /\ id \in DOMAIN rows /\ balance = req[h].balance
          /\ row = [rows[id] EXCEPT !.balance = balance]
          /\ rows' = [rows EXCEPT ![id] = row]
    BY DEF Store, Exists, NewBalance
<1>2. /\ Goto(h, Reloading) /\ lastId' = lastId /\ raced' = raced /\ had' = had
      /\ req[h].pc = "store"
    BY DEF Store
<1>3. RowOK(rows[id], had[id]) /\ BalanceOK(balance, had[id])
    BY <1>1, <1>2 DEF IInv, Local
<1>4. RowOK(row, had'[id]) /\ row.enabled = rows[id].enabled /\ row.secret = rows[id].secret
    BY <1>1, <1>2, <1>3 DEF RowOK, Rows, BalanceOK
<1>5. /\ had' \in [Ids -> SUBSET Secrets] /\ had[id] \subseteq had'[id]
      /\ \A i \in Ids \ {id} : had'[i] = had[i]
      /\ raced' \in [Handlers -> SUBSET Columns]
    BY <1>2 DEF IInv
<1>6. \A g \in Handlers \ {h} :
          /\ raced[g] \subseteq raced'[g]
          /\ Editing(g) /\ req[g].id = id =>
                /\ row.enabled = rows[id].enabled \/ "enabled" \in raced'[g]
                /\ row.secret = rows[id].secret \/ "secret" \in raced'[g]
    BY <1>2, <1>4
<1>7. id \in DOMAIN rows /\ rows' = [rows EXCEPT ![id] = row]
    BY <1>1
<1> QED BY <1>2, <1>4, <1>5, <1>6, <1>7, RowStep

-----------------------------------------------------------------------------
LEMMA InitIInv == Init => IInv
<1> SUFFICES ASSUME Init PROVE IInv
    OBVIOUS
<1>1. DOMAIN rows = {} BY DEF Init
<1> QED BY <1>1, AdminKeysAssumption DEF Init, IInv, Local, Idle

LEMMA NextIInv == IInv /\ [Next]_vars => IInv'
<1> SUFFICES ASSUME IInv, [Next]_vars PROVE IInv'
    OBVIOUS
<1>1. CASE UNCHANGED vars
    BY <1>1 DEF vars, IInv, Local, EnabledKept, SecretKept
<1>2. CASE Next
    BY <1>2, CreateStep, DeleteStep, SetEnabledStep, BeginEditStep, DecodeStep, LoadStep,
       ReplaceStep, BeginRefreshStep, FetchStep, StoreStep, EndStep
       DEF Next, Edit, Refresh
<1> QED BY <1>1, <1>2

(* The invariant holds for every behaviour of the specification.           *)
THEOREM Invariant == Spec => []IInv
BY InitIInv, NextIInv, PTL DEF Spec

(* Types; in particular every id that a call holds was given out.          *)
THEOREM TypesAreRight == Spec => []TypeOK
<1>1. IInv => TypeOK
    <2> SUFFICES ASSUME IInv PROVE TypeOK
        OBVIOUS
    <2>1. \A id \in DOMAIN rows : IsRow(rows[id])
        BY DEF IInv, RowOK, Rows, IsRow
    <2>2. ASSUME NEW h \in Handlers
          PROVE  /\ \/ req[h] \in {Idle, Reloading, Refused}
                    \/ Editing(h) \/ req[h].pc \in {"fetch", "store"}
                 /\ req[h] \notin {Idle, Reloading, Refused} => req[h].id \in 1..lastId
        BY DEF IInv, Local, Editing
    <2> QED BY <2>1, <2>2 DEF IInv, TypeOK
<1> QED BY <1>1, Invariant, PTL

(* The hint shown is that of the secret used.                              *)
THEOREM HintsAreRight == Spec => []HintMatchesSecret
<1>1. IInv => HintMatchesSecret BY DEF IInv, RowOK, HintMatchesSecret
<1> QED BY <1>1, Invariant, PTL

(* A balance adds up, and was reported for a secret of its key.            *)
THEOREM BalancesAreOwn == Spec => []BalanceIsOwn
<1>1. IInv => BalanceIsOwn BY DEF IInv, RowOK, BalanceOK, BalanceIsOwn
<1> QED BY <1>1, Invariant, PTL

(* Only Replace takes a call from replace to reload.                       *)
LEMMA EditsAreReplacements ==
    ASSUME IInv, Next, NEW h \in Handlers, req[h].pc = "replace", req'[h].pc = "reload"
    PROVE  Replace(h)
<1>1. PICK g \in Handlers : \/ \E id \in Ids : SetEnabled(g, id) \/ NotFound(g, id)
                            \/ Edit(g) \/ Refresh(g) \/ GiveUp(g) \/ Reload(g)
    BY DEF Next, Create, Delete
<1>2. \E r : Goto(g, r)
    BY <1>1 DEF SetEnabled, NotFound, Edit, Refresh, BeginEdit, Decode, Load, Replace,
       BeginRefresh, Fetch, Store, GiveUp, Reload
<1>3. g = h BY <1>2 DEF Goto, IInv
<1> QED BY <1>1, <1>3 DEF IInv, Goto, SetEnabled, NotFound, Edit, Refresh, BeginEdit,
       Decode, Load, BeginRefresh, Fetch, Store, GiveUp, Reload, Idle

(* An edit takes effect only on a key that exists, and changes a column    *)
(* that it does not name only if it overlaps with another change of it.    *)
THEOREM EditsLoseOnlyToOverlaps == Spec => EditsLoseOnlyToOverlap
<1>1. ASSUME IInv, [Next]_vars
      PROVE  \A h \in Handlers :
                 req[h].pc = "replace" /\ req'[h].pc = "reload" =>
                     /\ Exists(req[h].id)
                     /\ Changed(rows[req[h].id], rows'[req[h].id])
                            \subseteq req[h].named \cup raced[h]
    <2> SUFFICES ASSUME NEW h \in Handlers, req[h].pc = "replace", req'[h].pc = "reload"
                 PROVE  /\ Exists(req[h].id)
                        /\ Changed(rows[req[h].id], rows'[req[h].id])
                               \subseteq req[h].named \cup raced[h]
        OBVIOUS
    <2>1. Replace(h) BY <1>1, EditsAreReplacements DEF vars
    <2>2. PICK id, row :
              /\ id = req[h].id /\ id \in DOMAIN rows /\ row = Replaced(rows[id], req[h])
              /\ rows'[id] = row
        BY <2>1 DEF Replace, Exists
    <2>3. Local(h, req[h]) /\ RowOK(rows[id], had[id]) BY <1>1, <2>2 DEF IInv
    <2>4. rows[id] \in Rows BY <2>3 DEF RowOK
    <2>5. row.enabled = req[h].enabled /\ row.secret = req[h].secret
        BY <2>2, <2>4 DEF Replaced, Rows
    <2>6. "enabled" \in Changed(rows[id], row) => "enabled" \in req[h].named \cup raced[h]
        BY <2>2, <2>3, <2>5 DEF Local, EnabledKept, Changed
    <2>7. "secret" \in Changed(rows[id], row) => "secret" \in req[h].named \cup raced[h]
        BY <2>2, <2>3, <2>5 DEF Local, SecretKept, Changed
    <2>8. "alias" \in req[h].named BY <2>3 DEF Local
    <2>9. Changed(rows[id], row) \subseteq req[h].named \cup raced[h]
        BY <2>6, <2>7, <2>8 DEF Changed, Columns
    <2> QED BY <2>2, <2>9 DEF Exists
<1> QED BY <1>1, Invariant, PTL DEF Spec, EditsLoseOnlyToOverlap
=============================================================================
