------------------------- MODULE ConfigUpdateProofs -------------------------
(***************************************************************************)
(* ConfigUpdate for any number of calls, settings and lists: the redirects *)
(* in force are one list that was sent, no accepted list is rejected, and  *)
(* a setting that a call does not name is lost only to an overlap.         *)
(*                                                                         *)
(* The inductive invariant says of the transaction that what it has        *)
(* inserted and what it has still to insert make up one accepted table,    *)
(* and of a call that the columns that differ from what it read are those  *)
(* that others have set since.                                             *)
(***************************************************************************)
EXTENDS ConfigUpdate, SequenceTheorems, TLAPS

Rows == [from : STRING, to : STRING]

Distinct(list) == \A i, j \in DOMAIN list : list[i].from = list[j].from => i = j

(* Inserting the rows of rest into work gives the table t, without meeting *)
(* the primary key.                                                        *)
Builds(t, work, rest) ==
    /\ Distinct(rest)
    /\ \A i \in DOMAIN rest : rest[i].from \notin DOMAIN work
    /\ t = [from \in DOMAIN work \cup {rest[i].from : i \in DOMAIN rest} |-> t[from]]
    /\ \A from \in DOMAIN work : t[from] = work[from]
    /\ \A i \in DOMAIN rest : t[rest[i].from] = rest[i].to

IsFunction(f) == f = [x \in DOMAIN f |-> f[x]]

(* A list that was accepted when the request was decoded.                  *)
Sent(list) ==
    /\ list \in Seq(Rows)
    /\ \E t \in accepted : Builds(t, << >>, list)

TxOK ==
    tx # NoTx =>
        /\ tx = [by |-> tx.by, work |-> tx.work, rest |-> tx.rest]
        /\ tx.by \in Handlers
        /\ tx.rest \in Seq(Rows)
        /\ req[tx.by].pc = "clear" => Sent(tx.rest)
        /\ req[tx.by].pc = "insert" =>
              /\ IsFunction(tx.work)
              /\ \E t \in accepted : Builds(t, tx.work, tx.rest)

(* The columns that differ from what a call holds were set by others.      *)
Fresh(r, setByOthers) ==
    /\ r.current \in [Columns -> Values]
    /\ \A c \in Columns : config[c] # r.current[c] => c \in setByOthers

(* What a call may hold between two steps.                                 *)
Local(h, r) ==
    /\ r.pc \in {"idle", "decode", "write", "replace", "clear", "insert", "reload", "answer"}
    /\ r.pc \in {"decode", "write"} => Fresh(r, raced[h])
    /\ r.pc = "write" =>
          /\ \E D \in SUBSET Columns : r.edit \in [D -> Values]
          /\ r.list = NULL \/ Sent(Trimmed(r.list))
    /\ r.pc = "replace" => Sent(r.list)
    /\ (tx.by = h) <=> (r.pc \in {"clear", "insert"})

IInv ==
    /\ config \in [Columns -> Values]
    /\ redirects \in accepted
    /\ TxOK
    /\ DOMAIN req = Handlers
    /\ \A h \in Handlers : Local(h, req[h])
    /\ raced \in [Handlers -> SUBSET Columns]

-----------------------------------------------------------------------------
(* What is sent is decoded to rows; trimming keeps the length.             *)
LEMMA TrimmedRows ==
    ASSUME NEW list \in RedirectLists
    PROVE  /\ Trimmed(list) \in Seq(Rows)
           /\ DOMAIN Trimmed(list) = DOMAIN list
           /\ \A i \in DOMAIN list : Trimmed(list)[i].from = list[i].from.name
<1>1. list \in Seq([from : Names, to : Names])
    BY ConfigUpdateAssumption
<1>2. Len(list) \in Nat /\ DOMAIN list = 1..Len(list)
    BY <1>1, LenProperties
<1>3. \A i \in 1..Len(list) : list[i] \in [from : Names, to : Names]
    BY <1>1, ElementOfSeq
<1>4. \A i \in 1..Len(list) : [from |-> list[i].from.name, to |-> list[i].to.name] \in Rows
    BY <1>3 DEF Names, Rows
<1>5. Trimmed(list) = [i \in 1..Len(list) |->
                          [from |-> list[i].from.name, to |-> list[i].to.name]]
    BY <1>2 DEF Trimmed
<1>6. Trimmed(list) \in [1..Len(list) -> Rows]
    BY <1>4, <1>5
<1>7. Trimmed(list) \in Seq(Rows)
    BY <1>2, <1>6
<1> QED BY <1>2, <1>5, <1>7

(* A list without duplicates, row by row into an empty table, gives the    *)
(* table that holds it.                                                    *)
LEMMA ListBuildsTable ==
    ASSUME NEW list, Distinct(list)
    PROVE  Builds(AsTable(list), << >>, list)
<1> DEFINE t == AsTable(list)
           names == {list[i].from : i \in DOMAIN list}
<1>1. DOMAIN << >> = {}
    OBVIOUS
<1>2. t = [from \in names |-> list[CHOOSE i \in DOMAIN list : list[i].from = from].to]
    BY DEF AsTable
<1>3. ASSUME NEW i \in DOMAIN list PROVE t[list[i].from] = list[i].to
    <2> DEFINE j == CHOOSE k \in DOMAIN list : list[k].from = list[i].from
    <2>1. j \in DOMAIN list /\ list[j].from = list[i].from
        OBVIOUS
    <2>2. j = i BY <2>1 DEF Distinct
    <2>3. t[list[i].from] = list[j].to BY <1>2
    <2> QED BY <2>2, <2>3
<1>4. t = [from \in names |-> t[from]]
    BY <1>2
<1> QED BY <1>1, <1>3, <1>4 DEF Builds

(* What is accepted builds a table once it is trimmed.                     *)
LEMMA AcceptedIsSent ==
    ASSUME NEW list \in RedirectLists, ListAccepted(list),
           AsTable(Trimmed(list)) \in accepted
    PROVE  Sent(Trimmed(list))
<1>1. Distinct(Trimmed(list))
    BY TrimmedRows DEF ListAccepted, Distinct
<1> QED BY <1>1, TrimmedRows, ListBuildsTable DEF Sent

(* One INSERT: the row moves from what is left to what is there.           *)
LEMMA InsertBuilds ==
    ASSUME NEW t, NEW work, NEW rest \in Seq(Rows), rest # << >>,
           Builds(t, work, rest),
           NEW new, new = [from \in DOMAIN work \cup {Head(rest).from} |->
                              IF from = Head(rest).from THEN Head(rest).to ELSE work[from]]
    PROVE  Tail(rest) \in Seq(Rows) /\ IsFunction(new) /\ Builds(t, new, Tail(rest))
<1>1. /\ Len(rest) \in Nat \ {0} /\ DOMAIN rest = 1..Len(rest)
      /\ Tail(rest) \in Seq(Rows) /\ Len(Tail(rest)) = Len(rest) - 1
      /\ \A i \in 1..Len(Tail(rest)) : Tail(rest)[i] = rest[i + 1]
    BY LenProperties, EmptySeq, HeadTailProperties
<1>2. DOMAIN Tail(rest) = 1..(Len(rest) - 1)
    BY <1>1, LenProperties
<1>3. Head(rest) = rest[1]
    OBVIOUS
<1>4. DOMAIN new = DOMAIN work \cup {rest[1].from}
    BY <1>3
<1>5. Distinct(Tail(rest)) /\ \A i \in DOMAIN Tail(rest) : Tail(rest)[i].from \notin DOMAIN new
    <2>1. \A i \in DOMAIN Tail(rest) :
              i + 1 \in DOMAIN rest /\ Tail(rest)[i] = rest[i + 1] /\ i \in Nat
        BY <1>1, <1>2
    <2>2. 1 \in DOMAIN rest BY <1>1
    <2> QED BY <1>4, <2>1, <2>2 DEF Builds, Distinct
<1>6. DOMAIN new \cup {Tail(rest)[i].from : i \in DOMAIN Tail(rest)}
        = DOMAIN work \cup {rest[i].from : i \in DOMAIN rest}
    <2>1. \A i \in DOMAIN rest : i = 1 \/ (i - 1 \in DOMAIN Tail(rest) /\ rest[i] = Tail(rest)[i - 1])
        BY <1>1, <1>2
    <2>2. \A i \in DOMAIN Tail(rest) : i + 1 \in DOMAIN rest /\ Tail(rest)[i] = rest[i + 1]
        BY <1>1, <1>2
    <2>3. 1 \in DOMAIN rest BY <1>1
    <2> DEFINE names == {rest[i].from : i \in DOMAIN rest}
               others == {Tail(rest)[i].from : i \in DOMAIN Tail(rest)}
    <2>4. names \subseteq {rest[1].from} \cup others BY <2>1
    <2>5. others \cup {rest[1].from} \subseteq names BY <2>2, <2>3
    <2> QED BY <1>4, <2>4, <2>5
<1>7. \A from \in DOMAIN new : t[from] = new[from]
    <2>1. 1 \in DOMAIN rest BY <1>1
    <2> QED BY <1>3, <1>4, <2>1 DEF Builds
<1>8. \A i \in DOMAIN Tail(rest) : t[Tail(rest)[i].from] = Tail(rest)[i].to
    BY <1>1, <1>2 DEF Builds
<1>9. IsFunction(new)
    BY <1>4 DEF IsFunction
<1> QED BY <1>1, <1>5, <1>6, <1>7, <1>8, <1>9 DEF Builds

(* With nothing left to insert the table is built.                         *)
LEMMA NothingLeft ==
    ASSUME NEW t, NEW work, IsFunction(work), Builds(t, work, << >>)
    PROVE  work = t
BY DEF Builds, IsFunction

-----------------------------------------------------------------------------
(* What was sent stays sent. *)
LEMMA SentStays ==
    ASSUME NEW list, Sent(list), accepted \subseteq accepted'
    PROVE  Sent(list)'
BY DEF Sent

(* A step of one call leaves what another holds in order, if it notes the  *)
(* columns that it changes.                                                *)
LEMMA OtherCalls ==
    ASSUME IInv, NEW g \in Handlers, req'[g] = req[g],
           accepted \subseteq accepted',
           raced[g] \subseteq raced'[g],
           \A c \in Columns : config'[c] # config[c] => c \in raced'[g],
           tx'.by = g <=> tx.by = g
    PROVE  Local(g, req[g])'
<1>1. Local(g, req[g]) BY DEF IInv
<1>2. Fresh(req[g], raced[g]) => Fresh(req[g], raced[g])'
    BY DEF Fresh
<1>3. req[g].pc = "write" => req[g].list = NULL \/ Sent(Trimmed(req[g].list))'
    BY <1>1, SentStays DEF Local
<1>4. req[g].pc = "replace" => Sent(req[g].list)'
    BY <1>1, SentStays DEF Local
<1> QED BY <1>1, <1>2, <1>3, <1>4 DEF Local

(* A step of a call that is outside of the transaction leaves it alone.    *)
LEMMA TxStays ==
    ASSUME IInv, NEW h \in Handlers, req[h].pc \notin {"clear", "insert"},
           tx' = tx, accepted \subseteq accepted',
           NEW r, req' = [req EXCEPT ![h] = r]
    PROVE  TxOK'
<1> SUFFICES ASSUME tx # NoTx PROVE TxOK'
    BY DEF TxOK
<1>1. TxOK /\ DOMAIN req = Handlers BY DEF IInv
<1>2. tx.by \in Handlers /\ tx.by # h
    BY <1>1 DEF TxOK, IInv, Local
<1>3. req'[tx.by] = req[tx.by] BY <1>1, <1>2
<1>4. Sent(tx.rest) => Sent(tx.rest)' BY SentStays
<1> QED BY <1>1, <1>2, <1>3, <1>4 DEF TxOK

(* The steps that leave the tables alone.                                  *)
LEMMA CallStep ==
    ASSUME IInv, NEW h \in Handlers,
           \/ Begin(h) \/ Decode(h) \/ Refuse(h)
           \/ Fails(h) \/ Reload(h) \/ Finish(h)
    PROVE  IInv'
<1>1. UnchangedTables
    BY DEF Begin, Decode, Refuse, Fails, Reload, Finish
<1>2. config' = config /\ redirects' = redirects /\ tx' = tx
    BY <1>1 DEF UnchangedTables
<1>3. accepted \subseteq accepted'
    BY DEF Begin, Decode, Refuse, Fails, Reload, Finish
<1>4. req[h].pc \notin {"clear", "insert"} /\ tx.by # h
    BY DEF Begin, Decode, Refuse, Fails, Reload, Finish, IInv, Local
<1>5. /\ raced' \in [Handlers -> SUBSET Columns]
      /\ \A g \in Handlers \ {h} : raced'[g] = raced[g]
    BY DEF Begin, Decode, Refuse, Fails, Reload, Finish, IInv
<1>6. PICK r : req' = [req EXCEPT ![h] = r] /\ Local(h, r)'
    <2>1. CASE Begin(h)
        <3>1. PICK r : r = [pc |-> "decode", current |-> config]
            OBVIOUS
        <3>2. req' = [req EXCEPT ![h] = r] BY <2>1, <3>1 DEF Begin, Goto, Current
        <3>3. Fresh(r, raced[h])' BY <1>2, <3>1 DEF IInv, Fresh
        <3>4. Local(h, r)' BY <1>2, <1>4, <3>1, <3>3 DEF Local
        <3> QED BY <3>2, <3>4
    <2>2. CASE Decode(h)
        <3>1. PICK edit \in Edits, list \in RedirectLists \cup {NULL} :
                  /\ EditAccepted(edit, list)
                  /\ Goto(h, [pc |-> "write", current |-> req[h].current,
                              edit |-> edit, list |-> list])
                  /\ accepted' = IF list = NULL THEN accepted
                                 ELSE accepted \cup {AsTable(Trimmed(list))}
            BY <2>2 DEF Decode
        <3>0. PICK r : r = [pc |-> "write", current |-> req[h].current,
                            edit |-> edit, list |-> list]
            OBVIOUS
        <3>2. Fresh(r, raced[h])'
            <4>1. Fresh(req[h], raced[h]) /\ raced' = raced
                BY <2>2 DEF Decode, IInv, Local
            <4> QED BY <1>2, <3>0, <4>1 DEF Fresh
        <3>3. \E D \in SUBSET Columns : edit \in [D -> Values]
            <4>1. PICK D \in SUBSET Columns : edit \in [D -> Values \cup {Unacceptable}]
                BY DEF Edits
            <4>2. \A c \in D : edit[c] # Unacceptable
                BY <3>1, <4>1 DEF EditAccepted, Range
            <4> QED BY <4>1, <4>2
        <3>4. list = NULL \/ Sent(Trimmed(list))'
            <4> SUFFICES ASSUME list # NULL PROVE Sent(Trimmed(list))'
                OBVIOUS
            <4>1. list \in RedirectLists /\ ListAccepted(list)
                BY <3>1 DEF EditAccepted
            <4>2. AsTable(Trimmed(list)) \in accepted' BY <3>1
            <4>3. Distinct(Trimmed(list))
                BY <4>1, TrimmedRows DEF ListAccepted, Distinct
            <4> QED BY <4>1, <4>2, <4>3, TrimmedRows, ListBuildsTable DEF Sent
        <3>5. Local(h, r)' BY <1>2, <1>4, <3>0, <3>2, <3>3, <3>4 DEF Local
        <3> QED BY <3>0, <3>1, <3>5 DEF Goto
    <2>3. CASE Refuse(h) \/ Fails(h) \/ Reload(h) \/ Finish(h)
        <3>1. ASSUME NEW status PROVE Local(h, Answer(status))'
            BY <1>2, <1>4 DEF Local, Answer
        <3>2. ASSUME Finish(h)
              PROVE  req' = [req EXCEPT ![h] = Idle] /\ Local(h, Idle)'
            BY <1>2, <1>4, <3>2 DEF Finish, Goto, Local, Idle
        <3> QED BY <2>3, <3>1, <3>2 DEF Refuse, Fails, Reload, Goto
    <2> QED BY <2>1, <2>2, <2>3
<1>7. TxOK' BY <1>2, <1>3, <1>4, <1>6, TxStays
<1>8. ASSUME NEW g \in Handlers PROVE Local(g, req[g])'
    <2>1. CASE g = h BY <1>6, <2>1 DEF IInv
    <2>2. CASE g # h
        <3>1. req'[g] = req[g] BY <1>6, <2>2 DEF IInv
        <3> QED BY <1>2, <1>3, <1>5, <2>2, <3>1, OtherCalls
    <2> QED BY <2>1, <2>2
<1> QED BY <1>2, <1>3, <1>5, <1>6, <1>7, <1>8 DEF IInv

(* What a call writes back for columns it does not name differs from what  *)
(* is there only where others have been.                                   *)
LEMMA MergedRow ==
    ASSUME IInv, NEW h \in Handlers, req[h].pc = "write"
    PROVE  /\ Merged(req[h]) \in [Columns -> Values]
           /\ \A c \in Columns : Merged(req[h])[c] # config[c]
                  => c \in DOMAIN req[h].edit \cup raced[h]
<1>1. Fresh(req[h], raced[h]) BY DEF IInv, Local
<1>2. PICK D \in SUBSET Columns : req[h].edit \in [D -> Values]
    BY DEF IInv, Local
<1> QED BY <1>1, <1>2 DEF Merged, Fresh

LEMMA WriteStep ==
    ASSUME IInv, NEW h \in Handlers, Write(h)
    PROVE  IInv'
<1>1. /\ config' = Merged(req[h]) /\ req[h].pc = "write" /\ tx = NoTx
      /\ UNCHANGED <<redirects, tx, accepted>>
      /\ raced' = RacedAfter(h, DOMAIN req[h].edit \cup {c \in Columns : config'[c] # config[c]})
    BY DEF Write, Connected
<1>2. PICK r : /\ req' = [req EXCEPT ![h] = r]
               /\ \/ r = [pc |-> "reload"]
                  \/ \E list : Sent(list) /\ r = [pc |-> "replace", list |-> list]
    <2>1. req[h].list = NULL \/ Sent(Trimmed(req[h].list))
        BY <1>1 DEF IInv, Local
    <2> QED BY <2>1 DEF Write, Goto
<1>3. DOMAIN req[h].edit \subseteq Columns
    BY <1>1 DEF IInv, Local
<1>4. /\ raced' \in [Handlers -> SUBSET Columns]
      /\ \A g \in Handlers \ {h} : /\ raced[g] \subseteq raced'[g]
                                 /\ \A c \in Columns : config'[c] # config[c] => c \in raced'[g]
    BY <1>1, <1>3 DEF RacedAfter, IInv
<1>5. config' \in [Columns -> Values] BY <1>1, MergedRow
<1>6. TxOK' BY <1>1 DEF TxOK
<1>7. tx.by # h BY <1>1 DEF IInv, Local
<1>8. Local(h, r)'
    <2>1. ASSUME NEW list, Sent(list) PROVE Sent(list)'
        BY <1>1, <2>1, SentStays
    <2> QED BY <1>1, <1>2, <1>7, <2>1 DEF Local
<1>9. ASSUME NEW g \in Handlers PROVE Local(g, req[g])'
    <2>1. CASE g = h BY <1>2, <1>8, <2>1 DEF IInv
    <2>2. CASE g # h
        <3>1. req'[g] = req[g] BY <1>2, <2>2 DEF IInv
        <3> QED BY <1>1, <1>4, <2>2, <3>1, OtherCalls
    <2> QED BY <2>1, <2>2
<1> QED BY <1>1, <1>2, <1>4, <1>5, <1>6, <1>9 DEF IInv

-----------------------------------------------------------------------------
(* A step of the transaction changes nothing that other calls hold.        *)
LEMMA TransactionStep ==
    ASSUME IInv, NEW h \in Handlers, NEW r, req' = [req EXCEPT ![h] = r],
           UNCHANGED <<config, raced, accepted>>,
           tx = NoTx \/ tx.by = h, tx' = NoTx \/ tx'.by = h,
           TxOK', redirects' \in accepted, Local(h, r)'
    PROVE  IInv'
<1>1. ASSUME NEW g \in Handlers PROVE Local(g, req[g])'
    <2>1. CASE g = h BY <2>1 DEF IInv
    <2>2. CASE g # h
        <3>1. req'[g] = req[g] BY <2>2 DEF IInv
        <3>2. NoTx.by # g BY ConfigUpdateAssumption DEF NoTx
        <3>3. tx.by # g /\ tx'.by # g BY <2>2, <3>2
        <3> QED BY <3>1, <3>3, OtherCalls
    <2> QED BY <2>1, <2>2
<1> QED BY <1>1 DEF IInv

(* A transaction as the three statements that go on in it leave it.        *)
LEMMA TxAfter ==
    ASSUME NEW h \in Handlers, NEW work, NEW rest \in Seq(Rows),
           tx' = [by |-> h, work |-> work, rest |-> rest],
           req'[h].pc \in {"clear", "insert"},
           req'[h].pc = "clear" => Sent(rest)',
           req'[h].pc = "insert" => IsFunction(work) /\ \E t \in accepted' : Builds(t, work, rest)
    PROVE  TxOK'
<1>1. tx'.by = h /\ tx'.work = work /\ tx'.rest = rest
    OBVIOUS
<1> QED BY <1>1 DEF TxOK

LEMMA BeginReplaceStep ==
    ASSUME IInv, NEW h \in Handlers, BeginReplace(h)
    PROVE  IInv'
<1> DEFINE r == [pc |-> "clear"]
<1>1. /\ req[h].pc = "replace" /\ tx = NoTx
      /\ UNCHANGED <<config, redirects, raced, accepted>>
      /\ req' = [req EXCEPT ![h] = r]
    BY DEF BeginReplace, Connected, Goto
<1>2. PICK work, list : Sent(list) /\ tx' = [by |-> h, work |-> work, rest |-> list]
    BY <1>1 DEF BeginReplace, IInv, Local
<1>3. Sent(list)' BY <1>1, <1>2, SentStays
<1>4. req'[h] = r BY <1>1 DEF IInv
<1>5. TxOK' BY <1>1, <1>2, <1>3, <1>4, TxAfter DEF Sent
<1>6. tx'.by = h BY <1>2
<1>7. Local(h, r)' BY <1>6 DEF Local
<1>8. redirects' \in accepted BY <1>1 DEF IInv
<1> QED BY <1>1, <1>5, <1>6, <1>7, <1>8, TransactionStep

(* The call that is inside the transaction. *)
LEMMA InTransaction ==
    ASSUME IInv, NEW h \in Handlers, req[h].pc \in {"clear", "insert"}
    PROVE  /\ tx # NoTx /\ tx.by = h
           /\ \E work, rest : tx = [by |-> h, work |-> work, rest |-> rest]
<1>1. tx.by = h BY DEF IInv, Local
<1>2. tx # NoTx BY <1>1, ConfigUpdateAssumption DEF NoTx
<1>3. tx = [by |-> h, work |-> tx.work, rest |-> tx.rest]
    BY <1>1, <1>2 DEF IInv, TxOK
<1> QED BY <1>1, <1>2, <1>3

LEMMA ClearStep ==
    ASSUME IInv, NEW h \in Handlers, Clear(h)
    PROVE  IInv'
<1> DEFINE r == [pc |-> "insert"]
<1>1. PICK work, rest : tx = [by |-> h, work |-> work, rest |-> rest]
    BY InTransaction DEF Clear
<1>2. /\ req[h].pc = "clear" /\ UNCHANGED <<config, redirects, raced, accepted>>
      /\ tx' = [by |-> h, work |-> << >>, rest |-> rest]
      /\ req' = [req EXCEPT ![h] = r]
    BY <1>1 DEF Clear, Goto, Statement
<1>3. Sent(rest)
    <2>1. tx # NoTx /\ tx.by = h /\ tx.rest = rest BY <1>1, <1>2, InTransaction
    <2> QED BY <1>2, <2>1 DEF IInv, TxOK
<1>4. IsFunction(<< >>)
    BY DEF IsFunction
<1>5. req'[h] = r BY <1>2 DEF IInv
<1>6. TxOK'
    <2>1. rest \in Seq(Rows) /\ \E t \in accepted : Builds(t, << >>, rest)
        BY <1>3 DEF Sent
    <2> QED BY <1>2, <1>4, <1>5, <2>1, TxAfter
<1>7. tx.by = h /\ tx'.by = h BY <1>1, <1>2
<1>8. Local(h, r)' BY <1>7 DEF Local
<1>9. redirects' \in accepted BY <1>2 DEF IInv
<1> QED BY <1>2, <1>6, <1>7, <1>8, <1>9, TransactionStep

LEMMA InsertStep ==
    ASSUME IInv, NEW h \in Handlers, Insert(h)
    PROVE  IInv'
<1>1. PICK work, rest : tx = [by |-> h, work |-> work, rest |-> rest]
    BY InTransaction DEF Insert
<1> DEFINE row == Head(rest)
           new == [from \in DOMAIN work \cup {row.from} |->
                      IF from = row.from THEN row.to ELSE work[from]]
<1>2. /\ req[h].pc = "insert" /\ rest # << >>
      /\ UNCHANGED <<config, redirects, raced, accepted>> /\ req' = req
      /\ tx' = [by |-> h, work |-> new, rest |-> Tail(rest)]
    BY <1>1 DEF Insert, Statement
<1>3. rest \in Seq(Rows) /\ \E t \in accepted : Builds(t, work, rest)
    <2>1. tx # NoTx /\ tx.by = h /\ tx.rest = rest /\ tx.work = work
        BY <1>1, <1>2, InTransaction
    <2> QED BY <1>2, <2>1 DEF IInv, TxOK
<1>4. PICK t \in accepted : Builds(t, work, rest)
    BY <1>3
<1>5. Tail(rest) \in Seq(Rows) /\ IsFunction(new) /\ Builds(t, new, Tail(rest))
    BY <1>2, <1>3, <1>4, InsertBuilds
<1> HIDE DEF new
<1>6. TxOK'
    BY <1>2, <1>4, <1>5, TxAfter
<1>7. tx.by = h /\ tx'.by = h BY <1>1, <1>2
<1>8. \A g \in Handlers : Local(g, req[g])'
    <2> TAKE g \in Handlers
    <2>1. CASE g = h BY <1>2, <1>7, <2>1 DEF Local
    <2>2. CASE g # h BY <1>2, <1>7, <2>2, OtherCalls
    <2> QED BY <2>1, <2>2
<1> QED BY <1>2, <1>6, <1>8 DEF IInv

(* What is committed is the accepted table that was to be built.           *)
LEMMA CommitStep ==
    ASSUME IInv, NEW h \in Handlers, Commit(h)
    PROVE  IInv'
<1> DEFINE r == [pc |-> "reload"]
<1>1. tx # NoTx /\ tx.by = h BY InTransaction DEF Commit
<1>2. /\ req[h].pc = "insert" /\ tx.rest = << >>
      /\ redirects' = tx.work /\ tx' = NoTx
      /\ UNCHANGED <<config, raced, accepted>>
      /\ req' = [req EXCEPT ![h] = r]
    BY DEF Commit, Goto
<1>3. redirects' \in accepted
    BY <1>1, <1>2, NothingLeft DEF IInv, TxOK
<1>4. TxOK' BY <1>2 DEF TxOK
<1>5. Local(h, r)' BY <1>2, ConfigUpdateAssumption DEF Local, NoTx
<1> QED BY <1>1, <1>2, <1>3, <1>4, <1>5, TransactionStep

LEMMA RollbackStep ==
    ASSUME IInv, NEW h \in Handlers, Rollback(h)
    PROVE  IInv'
<1>1. tx # NoTx /\ tx.by = h BY InTransaction DEF Rollback
<1>2. /\ tx' = NoTx /\ UNCHANGED <<config, redirects, raced, accepted>>
      /\ req' = [req EXCEPT ![h] = Answer(500)]
    BY DEF Rollback, Goto
<1>3. redirects' \in accepted BY <1>2 DEF IInv
<1>4. TxOK' BY <1>2 DEF TxOK
<1>5. Local(h, Answer(500))' BY <1>2, ConfigUpdateAssumption DEF Local, NoTx, Answer
<1> QED BY <1>1, <1>2, <1>3, <1>4, <1>5, TransactionStep

-----------------------------------------------------------------------------
LEMMA InitIInv == Init => IInv
BY ConfigUpdateAssumption DEF Init, IInv, InitialConfig, TxOK, Local, Idle, NoTx

LEMMA NextIInv == IInv /\ [Next]_vars => IInv'
<1> SUFFICES ASSUME IInv, [Next]_vars PROVE IInv'
    OBVIOUS
<1>1. CASE UNCHANGED vars
    BY <1>1 DEF vars, IInv, TxOK, Local, Fresh, Sent
<1>2. CASE Next
    BY <1>2, CallStep, WriteStep, BeginReplaceStep, ClearStep, InsertStep, CommitStep,
       RollbackStep DEF Next, Proceed
<1> QED BY <1>1, <1>2

(* The invariant holds for every behaviour of the specification.           *)
THEOREM Invariant == Spec => []IInv
BY InitIInv, NextIInv, PTL DEF Spec

(* Types; in particular one call at most is inside the transaction.        *)
THEOREM TypesAreRight == Spec => []TypeOK
<1>1. IInv => TypeOK
    <2> SUFFICES ASSUME IInv PROVE TypeOK
        OBVIOUS
    <2>1. tx # NoTx => Range(tx.rest) \subseteq [from : STRING, to : STRING]
        <3> SUFFICES ASSUME tx # NoTx PROVE Range(tx.rest) \subseteq Rows
            BY DEF Rows
        <3>1. tx.rest \in Seq(Rows) BY DEF IInv, TxOK
        <3>2. tx.rest \in [1..Len(tx.rest) -> Rows] BY <3>1, LenProperties
        <3> QED BY <3>2 DEF Range
    <2> QED BY <2>1 DEF IInv, TypeOK, Local, Fresh
<1> QED BY <1>1, Invariant, PTL

(* The redirects in force are always one list that somebody sent.          *)
THEOREM OneListAtATime == Spec => []RedirectsAreOneList
<1>1. IInv => RedirectsAreOneList BY DEF IInv, RedirectsAreOneList
<1> QED BY <1>1, Invariant, PTL

(* The validation is enough for the primary key.                           *)
THEOREM ValidationSuffices == Spec => []AcceptedNeverClashes
<1>1. IInv => AcceptedNeverClashes
    <2> SUFFICES ASSUME IInv, tx # NoTx, req[tx.by].pc = "insert", tx.rest # << >>
                 PROVE  Head(tx.rest).from \notin DOMAIN tx.work
        BY DEF AcceptedNeverClashes, Clash
    <2>1. tx.rest \in Seq(Rows) /\ \E t \in accepted : Builds(t, tx.work, tx.rest)
        BY DEF IInv, TxOK
    <2>2. 1 \in DOMAIN tx.rest /\ Head(tx.rest) = tx.rest[1]
        BY <2>1, LenProperties, EmptySeq
    <2> QED BY <2>1, <2>2 DEF Builds
<1> QED BY <1>1, Invariant, PTL

(* A call undoes a setting it does not name only if another call set it    *)
(* since this one had read the row.                                        *)
THEOREM OverlapsAlone == Spec => LostOnlyToOverlap
<1>1. ASSUME IInv, [Next]_vars
      PROVE  \A h \in Handlers, c \in Columns :
                 Writes(h) /\ c \notin DOMAIN req[h].edit /\ config'[c] # config[c]
                     => c \in raced[h]
    <2> SUFFICES ASSUME NEW h \in Handlers, NEW c \in Columns, Writes(h),
                        c \notin DOMAIN req[h].edit, config'[c] # config[c]
                 PROVE  c \in raced[h]
        OBVIOUS
    <2>1. req[h].pc = "write" /\ config' # config BY DEF Writes
    <2>2. PICK g \in Handlers : Write(g)
        BY <1>1, <2>1 DEF vars, Next, Proceed, Begin, Decode, Refuse, BeginReplace, Clear,
           Insert, Commit, Reload, Finish, Fails, Rollback, UnchangedTables
    <2>3. g = h
        BY <1>1, <2>2 DEF Write, Goto, Writes, IInv
    <2>4. config' = Merged(req[h]) BY <2>2, <2>3 DEF Write
    <2> QED BY <1>1, <2>1, <2>4, MergedRow
<1> QED BY <1>1, Invariant, PTL DEF Spec, LostOnlyToOverlap
=============================================================================
