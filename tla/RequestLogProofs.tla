-------------------------- MODULE RequestLogProofs --------------------------
(***************************************************************************)
(* RequestLog for any number of requests, keys and rows, and LogPage for   *)
(* any number of loads and any page sizes: the log of the window is        *)
(* complete, its writers do to the rows what LogTable says, and paging     *)
(* through rows of which this is true loses none between two pages.        *)
(*                                                                         *)
(* How deep a row is in the listing is counted over all rows, expired ones *)
(* included: newer rows come in, but none that is newer than a row still   *)
(* in the window goes, so a row only gets deeper while it is waited for.   *)
(* That is the inductive invariant of the page, with an answer full        *)
(* whenever a row lies behind it, which holds because the positions of a   *)
(* listing have no gaps.                                                   *)
(***************************************************************************)
EXTENDS RequestLog, LogPage, FiniteSetTheorems, TLAPS

(***************************************************************************)
(* The invariant of RequestLog.                                            *)
(***************************************************************************)

(* Every request that is under way has a row left to fill.                 *)
Room == Cardinality(Active) + lastId =< MaxRows

(* What the handler logs itself is no row with a key; and the time of a    *)
(* row to come has been.                                                   *)
LocalOK(r) ==
    /\ r.pc = "store" /\ r.context = "request" => r.key = NULL
    /\ r.pc \in {"proxy", "sent", "store"} => r.ts =< now

IInv ==
    /\ TypeOK /\ Room
    /\ \A h \in Handlers : LocalOK(req[h])
    /\ cleanup.pc = "delete" => cleanup.before =< Cutoff

(***************************************************************************)
(* The invariant of LogPage, on a reader r and a load or all loads ls.     *)
(***************************************************************************)
Depth(id, filter) ==
    {i \in DOMAIN logs : Matches(logs[i], filter) /\ Newer(i, id)}

(* Rows that are owed, still in the window, and not shown yet.             *)
Waiting(r) == (r.owed \cap Listed(Cutoff, r.filter)) \ r.shown

(* Those that are not in S either are at least n deep.                     *)
Deeper(r, S, n) == \A id \in Waiting(r) \ S : Cardinality(Depth(id, r.filter)) >= n

(* An answer above which there is no gap has what it should have.          *)
Joined(r, load) ==
    /\ Deeper(r, load.page, load.offset + load.limit)
    /\ Cardinality(load.page) < load.limit => Waiting(r) \subseteq load.page

LoadOK(r, load) ==
    load.pc # "idle" =>
        /\ r.pc = "open"
        /\ load.pc = "asked" => load.at =< now
        /\ load.current => /\ load.limit = r.limit
                           /\ load.pc = "asked" => load.filter = r.filter
        /\ load.pc = "answer" /\ load.current /\ load.joins => Joined(r, load)

(* What is so as long as no load fails and none overlaps another.          *)
SmoothOK(r, ls) ==
    /\ r.offset =< r.depth
    /\ \A l, m \in Loads : ls[l].pc # "idle" /\ ls[m].pc # "idle" => l = m
    /\ \A l \in Loads : ls[l].pc # "idle" =>
           /\ ls[l].current /\ ls[l].offset = r.offset
           /\ ls[l].pc = "answer" => ls[l].joins
    /\ (\A l \in Loads : ls[l].pc = "idle") =>
           r.depth >= r.offset + r.limit /\ (r.next \/ r.last)

ReaderOK(r, ls) ==
    r.pc = "open" =>
        /\ r.owed \subseteq 1..lastId
        /\ Deeper(r, {}, r.depth)
        /\ r.last => Waiting(r) = {}
        /\ r.smooth => SmoothOK(r, ls)

PageIInv ==
    /\ PageTypeOK
    /\ ReaderOK(reader, loads)
    /\ \A l \in Loads : LoadOK(reader, loads[l])

-----------------------------------------------------------------------------
(***************************************************************************)
(* Positions in a finite, strictly and totally ordered set D, where R says *)
(* which of two elements comes first.                                      *)
(***************************************************************************)
Ahead(D, R, i) == {j \in D : <<j, i>> \in R}

StrictOrder(D, R) ==
    /\ \A i \in D : <<i, i>> \notin R
    /\ \A i, j \in D : i # j => <<i, j>> \in R \/ <<j, i>> \in R
    /\ \A i, j, k \in D : <<i, j>> \in R /\ <<j, k>> \in R => <<i, k>> \in R

(* As many positions as elements, and every one of them is taken.          *)
LEMMA PositionsAreDense ==
    ASSUME NEW D, IsFiniteSet(D), NEW R, StrictOrder(D, R)
    PROVE  /\ \A i \in D : Cardinality(Ahead(D, R, i)) \in 0..(Cardinality(D) - 1)
           /\ \A p \in 0..(Cardinality(D) - 1) :
                  \E i \in D : Cardinality(Ahead(D, R, i)) = p
<1> DEFINE n == Cardinality(D)
           size(i) == Cardinality(Ahead(D, R, i))
           position == [i \in D |-> size(i)]
<1>1. n \in Nat BY FS_CardinalityType
<1>2. ASSUME NEW i \in D
      PROVE  IsFiniteSet(Ahead(D, R, i)) /\ size(i) \in Nat /\ size(i) < n
    <2>1. Ahead(D, R, i) \in SUBSET D /\ Ahead(D, R, i) # D
        BY DEF Ahead, StrictOrder
    <2>2. IsFiniteSet(Ahead(D, R, i)) /\ size(i) =< n /\ (n = size(i) => D = Ahead(D, R, i))
        BY <2>1, FS_Subset
    <2>3. size(i) \in Nat BY <2>2, FS_CardinalityType
    <2> QED BY <1>1, <2>1, <2>2, <2>3
<1>3. ASSUME NEW i \in D, NEW j \in D, <<i, j>> \in R
      PROVE  size(i) < size(j)
    <2>1. Ahead(D, R, i) \in SUBSET Ahead(D, R, j)
        BY <1>3 DEF Ahead, StrictOrder
    <2>2. i \in Ahead(D, R, j) /\ i \notin Ahead(D, R, i)
        BY <1>3 DEF Ahead, StrictOrder
    <2>3. size(i) =< size(j) /\ (size(j) = size(i) => Ahead(D, R, j) = Ahead(D, R, i))
        BY <1>2, <2>1, FS_Subset
    <2> QED BY <1>2, <2>2, <2>3
<1>4. position \in [D -> 0..(n - 1)]
    <2>1. \A i \in D : size(i) \in 0..(n - 1)
        <3> HIDE DEF n, size
        <3> QED BY <1>1, <1>2
    <2> QED BY <2>1
<1>5. \A i, j \in D : i # j => position[i] # position[j]
    <2> SUFFICES ASSUME NEW i \in D, NEW j \in D, i # j PROVE position[i] # position[j]
        OBVIOUS
    <2>1. <<i, j>> \in R \/ <<j, i>> \in R BY DEF StrictOrder
    <2>2. size(i) # size(j)
        <3> HIDE DEF size
        <3> QED BY <1>2, <1>3, <2>1
    <2> QED BY <2>2
<1>6. position \in Injection(D, 0..(n - 1))
    <2> HIDE DEF position, n
    <2> QED BY <1>4, <1>5 DEF Injection, IsInjective
<1>7. IsFiniteSet(0..(n - 1)) /\ Cardinality(0..(n - 1)) = n
    <2> HIDE DEF n
    <2>1. n - 1 \in Int /\ 0 \in Int BY <1>1
    <2>2. IsFiniteSet(0..(n - 1))
          /\ Cardinality(0..(n - 1)) = IF 0 > n - 1 THEN 0 ELSE n - 1 - 0 + 1
        BY <2>1, FS_Interval
    <2> QED BY <1>1, <2>2
<1>8. position \in Surjection(D, 0..(n - 1))
    <2> HIDE DEF position
    <2> QED BY <1>6, <1>7, FS_Injection
<1>9. \A p \in 0..(n - 1) : \E i \in D : position[i] = p
    <2> HIDE DEF position, n
    <2> QED BY <1>8 DEF Surjection
<1>10. \A i \in D : position[i] = size(i)
    OBVIOUS
<1> QED
    <2> HIDE DEF position, size
    <2>1. \A i \in D : size(i) \in 0..(n - 1) BY <1>4, <1>10
    <2>2. \A p \in 0..(n - 1) : \E i \in D : size(i) = p BY <1>9, <1>10
    <2> QED BY <2>1, <2>2 DEF size

(* Where an element lies behind a page, the page is full.                  *)
LEMMA PageIsFull ==
    ASSUME NEW D, IsFiniteSet(D), NEW R, StrictOrder(D, R),
           NEW offset \in Nat, NEW limit \in Nat, NEW id \in D,
           Cardinality(Ahead(D, R, id)) >= offset + limit
    PROVE  Cardinality({i \in D : /\ Cardinality(Ahead(D, R, i)) >= offset
                                  /\ Cardinality(Ahead(D, R, i)) < offset + limit}) >= limit
<1> DEFINE size(i) == Cardinality(Ahead(D, R, i))
           page == {i \in D : size(i) >= offset /\ size(i) < offset + limit}
           numbers == offset..(offset + limit - 1)
           position == [i \in page |-> size(i)]
           n == Cardinality(D)
<1>1. n \in Nat BY FS_CardinalityType
<1>2. /\ \A i \in D : size(i) \in 0..(n - 1)
      /\ \A p \in 0..(n - 1) : \E i \in D : size(i) = p
    BY PositionsAreDense
<1>3. offset + limit < n BY <1>1, <1>2
<1>4. \A i \in page : size(i) \in numbers
    <2> HIDE DEF size, n
    <2> QED BY <1>2
<1>5. \A p \in numbers : \E i \in page : size(i) = p
    <2> HIDE DEF size, n
    <2> QED BY <1>1, <1>2, <1>3
<1>6. position \in Surjection(page, numbers)
    <2>1. position \in [page -> numbers] BY <1>4
    <2>2. \A p \in numbers : \E i \in page : position[i] = p BY <1>5
    <2> HIDE DEF position, page, numbers
    <2> QED BY <2>1, <2>2 DEF Surjection
<1>7. IsFiniteSet(page)
    <2>1. page \in SUBSET D OBVIOUS
    <2> HIDE DEF page
    <2> QED BY <2>1, FS_Subset
<1>8. Cardinality(numbers) =< Cardinality(page)
    <2> HIDE DEF position, page, numbers
    <2> QED BY <1>6, <1>7, FS_Surjection
<1>9. Cardinality(numbers) = limit
    <2>1. offset \in Int /\ offset + limit - 1 \in Int OBVIOUS
    <2>2. Cardinality(numbers) =
              IF offset > offset + limit - 1 THEN 0 ELSE offset + limit - 1 - offset + 1
        BY <2>1, FS_Interval
    <2> QED BY <2>2
<1>10. Cardinality(page) \in Nat BY <1>7, FS_CardinalityType
<1>11. Cardinality(page) >= limit
    <2> HIDE DEF page, numbers
    <2> QED BY <1>8, <1>9, <1>10
<1> QED BY <1>11

-----------------------------------------------------------------------------
(***************************************************************************)
(* The table.                                                              *)
(***************************************************************************)

(* What the types say of a row.                                            *)
LEMMA RowsOfLog ==
    ASSUME TableTypeOK
    PROVE  /\ IsFiniteSet(DOMAIN logs) /\ DOMAIN logs \subseteq Nat
           /\ now \in Nat /\ lastId \in Nat /\ Cutoff \in Int
           /\ \A id \in DOMAIN logs :
                 /\ logs[id].ts \in Nat /\ logs[id].success \in BOOLEAN
                 /\ logs[id] \in Row
<1>1. lastId \in Nat /\ now \in Nat /\ Cutoff \in Int
    BY LogTableAssumption DEF TableTypeOK, Times, Cutoff
<1>2. IsFiniteSet(1..lastId) BY <1>1, FS_Interval
<1>3. IsFiniteSet(DOMAIN logs) BY <1>2, FS_Subset DEF TableTypeOK
<1>4. \A id \in DOMAIN logs : logs[id] \in Row BY DEF TableTypeOK
<1>5. \A id \in DOMAIN logs : logs[id].ts \in Nat /\ logs[id].success \in BOOLEAN
    BY <1>4, LogTableAssumption DEF Row, Times
<1> QED BY <1>1, <1>3, <1>4, <1>5 DEF TableTypeOK

(* The same of the rows after a step.                                      *)
LEMMA NextRowsOfLog ==
    ASSUME TableTypeOK'
    PROVE  /\ IsFiniteSet(DOMAIN logs') /\ now' \in Nat /\ Cutoff' \in Int
           /\ \A id \in DOMAIN logs' : logs'[id].ts \in Nat
<1>1. lastId' \in Nat /\ now' \in Nat /\ Cutoff' \in Int
    BY LogTableAssumption DEF TableTypeOK, Times, Cutoff
<1>2. IsFiniteSet(1..lastId') BY <1>1, FS_Interval
<1>3. IsFiniteSet(DOMAIN logs') BY <1>2, FS_Subset DEF TableTypeOK
<1>4. \A id \in DOMAIN logs' : logs'[id] \in Row BY DEF TableTypeOK
<1> QED BY <1>1, <1>3, <1>4, LogTableAssumption DEF Row, Times

(* What a step of the table may do to a reading: rows that go are out of   *)
(* the window, the others stay as they are, and new ones have new ids.     *)
Preserves ==
    /\ now =< now' /\ lastId =< lastId'
    /\ DOMAIN logs' \cap (1..lastId) \subseteq DOMAIN logs
    /\ \A id \in DOMAIN logs \cap DOMAIN logs' :
          logs'[id].ts = logs[id].ts /\ logs'[id].success = logs[id].success
    /\ \A id \in DOMAIN logs \ DOMAIN logs' : logs[id].ts < Cutoff

LEMMA AddRowStep ==
    ASSUME TableTypeOK, lastId < MaxRows, NEW ts \in 0..now, NEW key \in Keys \cup {NULL},
           NEW success \in BOOLEAN, AddRow(ts, key, success)
    PROVE  TableTypeOK' /\ Preserves
<1> DEFINE row == [ts |-> ts, key |-> key, success |-> success]
<1>1. /\ lastId' = lastId + 1 /\ now' = now
      /\ logs' = [id \in DOMAIN logs \cup {lastId'} |->
                    IF id \in DOMAIN logs THEN logs[id] ELSE row]
    BY DEF AddRow
<1>2. row \in Row
    <2>1. ts \in Times BY LogTableAssumption DEF TableTypeOK, Times
    <2> QED BY <2>1 DEF Row
<1> HIDE DEF row
<1>3. lastId \in Nat /\ now \in Nat /\ DOMAIN logs \subseteq 1..lastId
    BY RowsOfLog DEF TableTypeOK
<1>4. DOMAIN logs' \subseteq 1..lastId' /\ lastId' \in 0..MaxRows /\ lastId' \notin DOMAIN logs
    BY <1>1, <1>3, LogTableAssumption
<1>5. logs' \in [DOMAIN logs' -> Row] BY <1>1, <1>2 DEF TableTypeOK
<1>6. Preserves BY <1>1, <1>3, <1>4 DEF Preserves
<1> QED BY <1>1, <1>4, <1>5, <1>6 DEF TableTypeOK

LEMMA TakeKeyStep ==
    ASSUME TableTypeOK, NEW k, TakeKey(k)
    PROVE  /\ TableTypeOK' /\ Preserves /\ DOMAIN logs' = DOMAIN logs
           /\ \A id \in DOMAIN logs :
                 logs'[id].key = IF logs[id].key = k THEN NULL ELSE logs[id].key
<1>1. /\ logs' = [id \in DOMAIN logs |->
                    IF logs[id].key = k THEN [logs[id] EXCEPT !.key = NULL] ELSE logs[id]]
      /\ UNCHANGED <<now, lastId>>
    BY DEF TakeKey, WithoutKey
<1>2. DOMAIN logs' = DOMAIN logs BY <1>1
<1>3. ASSUME NEW id \in DOMAIN logs
      PROVE  /\ logs'[id].ts = logs[id].ts /\ logs'[id].success = logs[id].success
             /\ logs'[id].key = IF logs[id].key = k THEN NULL ELSE logs[id].key
             /\ logs'[id] \in Row
    <2>1. logs[id] \in Row BY RowsOfLog
    <2>2. logs'[id] = IF logs[id].key = k THEN [logs[id] EXCEPT !.key = NULL] ELSE logs[id]
        BY <1>1
    <2> QED BY <2>1, <2>2 DEF Row
<1>4. logs' \in [DOMAIN logs' -> Row] BY <1>1, <1>2, <1>3
<1>5. Preserves BY <1>1, <1>2, <1>3, RowsOfLog DEF Preserves
<1> QED BY <1>1, <1>2, <1>3, <1>4, <1>5 DEF TableTypeOK

LEMMA RemoveOlderStep ==
    ASSUME TableTypeOK, NEW before \in Int, before =< Cutoff, RemoveOlder(before)
    PROVE  /\ TableTypeOK' /\ Preserves /\ DOMAIN logs' \subseteq DOMAIN logs
           /\ \A id \in DOMAIN logs' : logs'[id] = logs[id]
<1>1. /\ logs' = Restrict(logs, {id \in DOMAIN logs : ~(logs[id].ts < before)})
      /\ UNCHANGED <<now, lastId>>
    BY DEF RemoveOlder
<1>2. DOMAIN logs' = {id \in DOMAIN logs : ~(logs[id].ts < before)}
    BY <1>1 DEF Restrict
<1>3. logs' = [id \in DOMAIN logs' |-> logs[id]] BY <1>1, <1>2 DEF Restrict
<1>4. ASSUME NEW id \in DOMAIN logs \ DOMAIN logs' PROVE logs[id].ts < Cutoff
    <2>1. logs[id].ts < before /\ logs[id].ts \in Nat BY <1>2, RowsOfLog
    <2> QED BY <2>1, RowsOfLog
<1>5. \A id \in DOMAIN logs' : logs'[id] = logs[id] BY <1>3
<1>6. TableTypeOK' BY <1>1, <1>2, <1>3 DEF TableTypeOK
<1>7. Preserves
    <2>1. DOMAIN logs' \subseteq DOMAIN logs BY <1>2
    <2>2. now =< now' /\ lastId =< lastId' BY <1>1, RowsOfLog
    <2> QED BY <1>4, <1>5, <2>1, <2>2 DEF Preserves
<1> QED BY <1>2, <1>5, <1>6, <1>7

LEMMA AdvanceStep ==
    ASSUME TableTypeOK, Advance
    PROVE  TableTypeOK' /\ Preserves
<1>1. now \in Nat /\ now' = now + 1 /\ now < MaxTime /\ UNCHANGED <<logs, lastId>>
    BY RowsOfLog DEF Advance
<1>2. TableTypeOK' BY <1>1, LogTableAssumption DEF TableTypeOK, Times
<1>3. Preserves BY <1>1, RowsOfLog DEF Preserves
<1> QED BY <1>2, <1>3

LEMMA TableStep ==
    ASSUME TableTypeOK, [TableNext]_tableVars
    PROVE  TableTypeOK' /\ Preserves
<1>1. CASE UNCHANGED tableVars
    <2>1. TableTypeOK' BY <1>1 DEF tableVars, TableTypeOK
    <2>2. Preserves BY <1>1, RowsOfLog DEF tableVars, Preserves
    <2> QED BY <2>1, <2>2
<1>2. ASSUME NEW time \in 0..now, RemoveOlder(time - Window)
      PROVE  TableTypeOK' /\ Preserves
    <2>1. time - Window \in Int /\ time - Window =< Cutoff
        BY RowsOfLog, LogTableAssumption DEF Cutoff
    <2> QED BY <1>2, <2>1, RemoveOlderStep
<1> QED BY <1>1, <1>2, AddRowStep, TakeKeyStep, AdvanceStep DEF TableNext

-----------------------------------------------------------------------------
(***************************************************************************)
(* Requests.                                                               *)
(***************************************************************************)

(* How many requests are under way is a number.                            *)
LEMMA ActiveIsFinite ==
    /\ IsFiniteSet(Active) /\ Cardinality(Active) \in Nat
    /\ IsFiniteSet(Active') /\ Cardinality(Active') \in Nat
<1>1. Active \in SUBSET Handlers /\ Active' \in SUBSET Handlers BY DEF Active
<1>2. IsFiniteSet(Active) /\ IsFiniteSet(Active')
    BY <1>1, RequestLogAssumption, FS_Subset
<1> QED BY <1>2, FS_CardinalityType

(* The fields of a request that has begun.                                 *)
LEMMA RequestFields ==
    ASSUME IInv, NEW h \in Handlers
    PROVE  /\ req[h].pc \in {"proxy", "sent", "store"} =>
                 req[h].ts \in Times /\ req[h].ts \in 0..now
           /\ req[h].pc = "sent" => req[h].key \in Keys
           /\ req[h].pc = "store" =>
                 /\ req[h].key \in Keys \cup {NULL} /\ req[h].outcome \in Outcomes
                 /\ req[h].context \in {"request", "background"}
           /\ req[h].pc \in {"public", "proxy", "sent", "store"} => h \in Active
           /\ LocalOK(req[h])
<1>1. req[h] \in Request /\ LocalOK(req[h]) BY DEF IInv, TypeOK
<1>2. now \in Nat BY RowsOfLog DEF IInv, TypeOK
<1>3. req[h].pc \in {"proxy", "sent", "store"} => req[h].ts \in Times
    BY <1>1 DEF Request, Idle
<1>4. req[h].pc \in {"proxy", "sent", "store"} => req[h].ts \in 0..now
    BY <1>1, <1>2, <1>3, LogTableAssumption DEF LocalOK, Times
<1> QED BY <1>1, <1>3, <1>4 DEF Request, Idle, Active

(* What a failed request may end with.                                     *)
LEMMA FailureIsOutcome ==
    ASSUME NEW status \in {"other", "unauthorized"}
    PROVE  Failure(status) \in Outcomes
BY DEF Failure, Outcomes

(* Values a request may go on with.                                        *)
LEMMA RequestValues ==
    ASSUME TableTypeOK
    PROVE  /\ Idle \in Request /\ LocalOK(Idle)
           /\ [pc |-> "public"] \in Request /\ LocalOK([pc |-> "public"])
           /\ \A ts \in Times : ts =< now =>
                 /\ [pc |-> "proxy", ts |-> ts] \in Request
                 /\ LocalOK([pc |-> "proxy", ts |-> ts])
           /\ \A ts \in Times, k \in Keys : ts =< now =>
                 /\ [pc |-> "sent", ts |-> ts, key |-> k] \in Request
                 /\ LocalOK([pc |-> "sent", ts |-> ts, key |-> k])
           /\ \A ts \in Times, k \in Keys \cup {NULL}, o \in Outcomes,
                 c \in {"request", "background"} :
                 LET r == [pc |-> "store", ts |-> ts, key |-> k, outcome |-> o, context |-> c]
                 IN  ts =< now /\ (c = "background" \/ k = NULL) => r \in Request /\ LocalOK(r)
BY DEF Request, LocalOK, Idle

(* A request goes on; the table and the cleanup do not notice.             *)
LEMMA RequestStep ==
    ASSUME IInv, UnchangedLog, NEW h \in Handlers, NEW r \in Request,
           Goto(h, r), LocalOK(r), gone' \subseteq Handlers,
           h \in Active \/ Cardinality(Active) + lastId < MaxRows
    PROVE  IInv'
<1>1. /\ now' = now /\ keys' = keys /\ logs' = logs /\ lastId' = lastId
      /\ cleanup' = cleanup
    BY DEF UnchangedLog
<1>2. req \in [Handlers -> Request] /\ req' = [req EXCEPT ![h] = r]
    BY DEF IInv, TypeOK, Goto
<1>3. TypeOK' BY <1>1, <1>2 DEF IInv, TypeOK, TableTypeOK
<1>4. Room'
    <2>1. Active' \subseteq Active \cup {h} BY <1>2 DEF Active
    <2>2. Cardinality(Active') =< Cardinality(Active \cup {h})
          /\ Cardinality(Active \cup {h}) =
               IF h \in Active THEN Cardinality(Active) ELSE Cardinality(Active) + 1
        <3>1. IsFiniteSet(Active \cup {h}) BY ActiveIsFinite, FS_AddElement
        <3> QED BY <2>1, <3>1, ActiveIsFinite, FS_AddElement, FS_Subset
    <2>3. lastId \in Nat BY RowsOfLog DEF IInv, TypeOK
    <2> QED BY <1>1, <2>2, <2>3, ActiveIsFinite, LogTableAssumption DEF Room, IInv
<1>5. \A g \in Handlers : LocalOK(req'[g])
    <2>1. \A g \in Handlers : req'[g] = IF g = h THEN r ELSE req[g] BY <1>2
    <2>2. \A g \in Handlers : LocalOK(req[g]) BY DEF IInv
    <2> QED BY <2>1, <2>2
<1>6. cleanup'.pc = "delete" => cleanup'.before =< Cutoff'
    BY <1>1 DEF IInv, Cutoff
<1> QED BY <1>1, <1>3, <1>4, <1>5, <1>6 DEF IInv, LocalOK

LEMMA LeaveStep ==
    ASSUME IInv, NEW h \in Handlers, Leave(h)
    PROVE  IInv'
<1>1. h \in Active /\ gone' \subseteq Handlers /\ UnchangedLog /\ req' = req
    BY DEF Leave, IInv, TypeOK
<1>2. PICK r \in Request : r = req[h] BY DEF IInv, TypeOK
<1>3. Goto(h, r) BY <1>1, <1>2 DEF Goto, IInv, TypeOK
<1> QED BY <1>1, <1>2, <1>3, RequestStep, RequestFields

LEMMA ServeStep ==
    ASSUME IInv, NEW h \in Handlers,
           Arrive(h) \/ Refuse(h) \/ TakeOn(h) \/ SelectNone(h) \/ SelectKey(h)
           \/ Exchanged(h) \/ InsertNothing(h)
    PROVE  IInv'
<1>1. UnchangedLog /\ gone' \subseteq Handlers
    BY DEF Arrive, Refuse, TakeOn, SelectNone, SelectKey, Exchanged, InsertNothing, IInv, TypeOK
<1>2. h \in Active \/ Cardinality(Active) + lastId < MaxRows
    BY RequestFields
       DEF Arrive, Refuse, TakeOn, SelectNone, SelectKey, Exchanged, InsertNothing
<1>3. PICK ts, key : ts = req[h].ts /\ key = req[h].key
    OBVIOUS
<1>4. TableTypeOK /\ now \in Times /\ now =< now
    <2>1. TableTypeOK BY DEF IInv, TypeOK
    <2> QED BY <2>1, RowsOfLog DEF TableTypeOK
<1>5. \E r \in Request : Goto(h, r) /\ LocalOK(r)
    <2>1. CASE Arrive(h) BY <1>4, <2>1, RequestValues DEF Arrive
    <2>2. CASE Refuse(h)
        <3>1. PICK o \in Outcomes :
                 Goto(h, [pc |-> "store", ts |-> now, key |-> NULL,
                          outcome |-> o, context |-> "request"])
            BY <2>2, FailureIsOutcome DEF Refuse
        <3> QED BY <1>4, <3>1, RequestValues
    <2>3. CASE TakeOn(h) BY <1>4, <2>3, RequestValues DEF TakeOn
    <2>4. CASE SelectNone(h)
        <3>1. ts \in Times /\ ts =< now BY <1>3, <2>4, RequestFields DEF SelectNone
        <3>2. PICK o \in Outcomes :
                 Goto(h, [pc |-> "store", ts |-> ts, key |-> NULL,
                          outcome |-> o, context |-> "background"])
            BY <1>3, <2>4, FailureIsOutcome DEF SelectNone, End
        <3> QED BY <1>4, <3>1, <3>2, RequestValues
    <2>5. CASE SelectKey(h)
        <3>1. ts \in Times /\ ts =< now BY <1>3, <2>5, RequestFields DEF SelectKey
        <3>2. PICK k \in Keys : Goto(h, [pc |-> "sent", ts |-> ts, key |-> k])
            BY <1>3, <2>5 DEF SelectKey, IInv, TypeOK
        <3> QED BY <1>4, <3>1, <3>2, RequestValues
    <2>6. CASE Exchanged(h)
        <3>1. ts \in Times /\ ts =< now /\ key \in Keys
            BY <1>3, <2>6, RequestFields DEF Exchanged
        <3>2. PICK o \in Outcomes :
                 Goto(h, [pc |-> "store", ts |-> ts, key |-> key,
                          outcome |-> o, context |-> "background"])
            BY <1>3, <2>6 DEF Exchanged, End
        <3> QED BY <1>4, <3>1, <3>2, RequestValues
    <2>7. CASE InsertNothing(h) BY <1>4, <2>7, RequestValues DEF InsertNothing
    <2> QED BY <2>1, <2>2, <2>3, <2>4, <2>5, <2>6, <2>7
<1> QED BY <1>1, <1>2, <1>5, RequestStep

(* A row comes in as the table allows it.                                  *)
LEMMA InsertAddsRow ==
    ASSUME IInv, NEW h \in Handlers, Insert(h)
    PROVE  /\ lastId < MaxRows
           /\ \E ts \in 0..now, key \in keys \cup {NULL}, success \in BOOLEAN :
                  AddRow(ts, key, success)
<1>1. PICK ts, key, outcome :
          /\ ts = req[h].ts /\ key = req[h].key /\ outcome = req[h].outcome
    OBVIOUS
<1>2. /\ req[h].pc = "store" /\ RowAccepted(key, outcome)
      /\ AddRow(ts, key, outcome.success)
    BY <1>1 DEF Insert
<1>3. h \in Active /\ ts \in 0..now /\ outcome \in Outcomes
    BY <1>1, <1>2, RequestFields
<1>4. outcome.success \in BOOLEAN /\ key \in keys \cup {NULL}
    BY <1>2, <1>3 DEF Outcomes, RowAccepted
<1>5. lastId < MaxRows
    <2>1. Cardinality(Active) + lastId =< MaxRows BY DEF IInv, Room
    <2>2. Cardinality(Active) # 0 BY <1>3, ActiveIsFinite, FS_EmptySet
    <2>3. lastId \in Nat BY RowsOfLog DEF IInv, TypeOK
    <2> QED BY <2>1, <2>2, <2>3, ActiveIsFinite, LogTableAssumption
<1> QED BY <1>2, <1>3, <1>4, <1>5

(* A row is inserted under an id that was never used.                      *)
LEMMA InsertStep ==
    ASSUME IInv, NEW h \in Handlers, Insert(h)
    PROVE  IInv'
<1>1. lastId < MaxRows /\ TableTypeOK /\ keys \subseteq Keys /\ lastId \in Nat
    BY InsertAddsRow, RowsOfLog DEF IInv, TypeOK
<1>2. PICK ts \in 0..now, key \in keys \cup {NULL}, success \in BOOLEAN :
          AddRow(ts, key, success)
    BY InsertAddsRow
<1>3. /\ req[h].pc = "store" /\ Goto(h, Idle) /\ gone' = gone \ {h}
      /\ UNCHANGED <<keys, cleanup>>
    BY DEF Insert
<1>4. now' = now /\ lastId' = lastId + 1 BY <1>2 DEF AddRow
<1>5. TableTypeOK' BY <1>1, <1>2, AddRowStep
<1>6. h \in Active BY <1>3, RequestFields
<1>7. Cardinality(Active') = Cardinality(Active) - 1
    <2>1. Active' = Active \ {h}
        BY <1>3 DEF Goto, Idle, Active, IInv, TypeOK
    <2> QED BY <1>6, <2>1, ActiveIsFinite, FS_RemoveElement
<1>8. Room'
    <2>1. Cardinality(Active) + lastId =< MaxRows BY DEF IInv, Room
    <2> QED BY <1>1, <1>4, <1>7, <2>1, ActiveIsFinite, LogTableAssumption DEF Room
<1>9. \A id \in DOMAIN logs' : logs'[id].key \in keys \cup {NULL}
    <2>1. \A id \in DOMAIN logs : logs[id].key \in keys \cup {NULL} BY DEF IInv, TypeOK
    <2> QED BY <1>2, <2>1 DEF AddRow
<1>10. req' \in [Handlers -> Request] /\ gone' \subseteq Handlers
    BY <1>1, <1>3, RequestValues DEF Goto, IInv, TypeOK
<1>11. TypeOK' BY <1>3, <1>5, <1>9, <1>10 DEF IInv, TypeOK
<1>12. \A g \in Handlers : LocalOK(req'[g])
    BY <1>1, <1>3, RequestValues DEF Goto, IInv, TypeOK
<1>13. cleanup'.pc = "delete" => cleanup'.before =< Cutoff'
    BY <1>3, <1>4 DEF IInv, Cutoff
<1> QED BY <1>4, <1>8, <1>11, <1>12, <1>13 DEF IInv, LocalOK

-----------------------------------------------------------------------------
(***************************************************************************)
(* Deleting keys, cleaning up, and the clock.                              *)
(***************************************************************************)
LEMMA DeleteKeyStep ==
    ASSUME IInv, NEW k \in Keys, DeleteKey(k)
    PROVE  IInv'
<1>1. /\ keys' = keys \ {k} /\ TakeKey(k)
      /\ UNCHANGED <<now, lastId, req, gone, cleanup>>
    BY DEF DeleteKey, TakeKey
<1>2. /\ TableTypeOK' /\ DOMAIN logs' = DOMAIN logs
      /\ \A id \in DOMAIN logs :
            logs'[id].key = IF logs[id].key = k THEN NULL ELSE logs[id].key
    BY <1>1, TakeKeyStep DEF IInv, TypeOK
<1>3. \A id \in DOMAIN logs' : logs'[id].key \in keys' \cup {NULL}
    BY <1>1, <1>2 DEF IInv, TypeOK
<1>4. TypeOK' BY <1>1, <1>2, <1>3 DEF IInv, TypeOK
<1>5. Room' /\ (cleanup'.pc = "delete" => cleanup'.before =< Cutoff')
    BY <1>1 DEF IInv, Room, Active, Cutoff
<1>6. \A h \in Handlers : LocalOK(req[h])' BY <1>1 DEF IInv, LocalOK
<1> QED BY <1>4, <1>5, <1>6 DEF IInv

(* What the cleanup removes is out of the window.                          *)
LEMMA RemovedAreExpired ==
    ASSUME IInv, CleanupDelete
    PROVE  /\ TableTypeOK' /\ DOMAIN logs' \subseteq DOMAIN logs
           /\ \A id \in DOMAIN logs' : logs'[id] = logs[id]
           /\ \A id \in DOMAIN logs \ DOMAIN logs' : logs[id].ts < Cutoff
           /\ \E time \in 0..now : cleanup.before = time - Window
<1>1. cleanup.pc = "delete" /\ RemoveOlder(cleanup.before) BY DEF CleanupDelete
<1>2. PICK time \in Times : cleanup.before = time - Window
    BY <1>1 DEF IInv, TypeOK, Cleanup, Idle
<1>3. /\ time \in Nat /\ now \in Nat /\ cleanup.before \in Int
      /\ cleanup.before =< Cutoff /\ time =< now
    BY <1>1, <1>2, RowsOfLog, LogTableAssumption DEF IInv, TypeOK, Times, Cutoff
<1>4. TableTypeOK' /\ Preserves /\ DOMAIN logs' \subseteq DOMAIN logs
      /\ \A id \in DOMAIN logs' : logs'[id] = logs[id]
    BY <1>1, <1>3, RemoveOlderStep DEF IInv, TypeOK
<1> QED BY <1>2, <1>3, <1>4 DEF Preserves

LEMMA CleanupStep ==
    ASSUME IInv, CleanupTick \/ CleanupDelete \/ CleanupFails
    PROVE  IInv'
<1>1. /\ UNCHANGED <<now, keys, lastId, req, gone>>
      /\ cleanup' = Idle \/ cleanup' = [pc |-> "delete", before |-> Cutoff]
    BY DEF CleanupTick, CleanupDelete, CleanupFails, RemoveOlder
<1>2. /\ TableTypeOK' /\ DOMAIN logs' \subseteq DOMAIN logs
      /\ \A id \in DOMAIN logs' : logs'[id] = logs[id]
    <2>1. CASE CleanupDelete BY <2>1, RemovedAreExpired
    <2>2. CASE logs' = logs BY <1>1, <2>2 DEF IInv, TypeOK, TableTypeOK
    <2> QED BY <2>1, <2>2 DEF CleanupTick, CleanupFails
<1>3. cleanup' \in Cleanup
    BY <1>1 DEF Cleanup, Cutoff, IInv, TypeOK, TableTypeOK
<1>4. TypeOK' BY <1>1, <1>2, <1>3 DEF IInv, TypeOK
<1>5. cleanup'.pc = "delete" => cleanup'.before =< Cutoff'
    BY <1>1, RowsOfLog DEF Idle, Cutoff, IInv, TypeOK
<1>6. Room' BY <1>1 DEF IInv, Room, Active
<1>7. \A h \in Handlers : LocalOK(req[h])' BY <1>1 DEF IInv, LocalOK
<1> QED BY <1>4, <1>5, <1>6, <1>7 DEF IInv

LEMMA TickStep ==
    ASSUME IInv, Tick
    PROVE  IInv'
<1>1. /\ now' = now + 1 /\ Advance
      /\ UNCHANGED <<keys, logs, lastId, req, gone, cleanup>>
    BY DEF Tick, Advance
<1>2. TypeOK' BY <1>1, AdvanceStep DEF IInv, TypeOK
<1>3. now \in Nat BY RowsOfLog DEF IInv, TypeOK
<1>4. cleanup'.pc = "delete" => cleanup'.before =< Cutoff'
    <2> SUFFICES ASSUME cleanup.pc = "delete" PROVE cleanup.before =< Cutoff'
        BY <1>1
    <2>1. cleanup.before \in {t - Window : t \in Times}
        BY DEF IInv, TypeOK, Cleanup, Idle
    <2>2. cleanup.before \in Int BY <2>1, LogTableAssumption DEF Times
    <2>3. cleanup.before =< Cutoff BY DEF IInv
    <2> QED BY <1>1, <1>3, <2>2, <2>3, LogTableAssumption DEF Cutoff
<1>5. Room' BY <1>1 DEF IInv, Room, Active
<1>6. \A h \in Handlers : LocalOK(req[h])'
    <2> SUFFICES ASSUME NEW h \in Handlers, req[h].pc \in {"proxy", "sent", "store"}
                 PROVE  req[h].ts =< now'
        BY <1>1 DEF IInv, LocalOK
    <2>1. req[h].ts \in 0..now BY RequestFields
    <2> QED BY <1>1, <1>3, <2>1
<1> QED BY <1>2, <1>4, <1>5, <1>6 DEF IInv

-----------------------------------------------------------------------------
LEMMA InitIInv == Init => IInv
<1> SUFFICES ASSUME Init PROVE IInv
    OBVIOUS
<1>1. Active = {} BY DEF Init, Active, Idle
<1>2. Room
    BY <1>1, FS_EmptySet, LogTableAssumption DEF Init, TableInit, Room
<1>3. TableTypeOK BY LogTableAssumption DEF Init, TableInit, TableTypeOK, Times
<1>4. TypeOK BY <1>3 DEF Init, TableInit, TypeOK, Cleanup, Request, Idle
<1> QED BY <1>2, <1>4 DEF Init, IInv, LocalOK, Idle

LEMMA NextIInv == IInv /\ [Next]_vars => IInv'
<1> SUFFICES ASSUME IInv, [Next]_vars PROVE IInv'
    OBVIOUS
<1>1. CASE UNCHANGED vars
    <2>1. TypeOK' BY <1>1 DEF IInv, TypeOK, TableTypeOK, vars
    <2> QED BY <1>1, <2>1 DEF IInv, vars, Room, Active, Cutoff, LocalOK
<1>2. CASE Next
    BY <1>2, LeaveStep, ServeStep, InsertStep, DeleteKeyStep, CleanupStep, TickStep
       DEF Next, Serve
<1> QED BY <1>1, <1>2

(* The invariant holds for every behaviour of the specification.           *)
THEOREM Invariant == Spec => []IInv
BY InitIInv, NextIInv, PTL DEF Spec

(* Types; a logged row names a key that exists or none, the id of a row    *)
(* is never given out twice (InsertRequestLog, ON DELETE SET NULL).        *)
THEOREM TypesAreRight == Spec => []TypeOK
<1>1. IInv => TypeOK BY DEF IInv
<1> QED BY <1>1, Invariant, PTL

(* A request whose key still exists leaves a row that names it, even if    *)
(* its client has left, and the cleanup takes no row a listing would still *)
(* show (the deferred InsertRequestLog of Forwarder.Proxy, CleanupJob.Run). *)
THEOREM TheLogIsComplete == Spec => LogIsComplete
<1>1. ASSUME IInv, [Next]_vars
      PROVE  /\ \A h \in Handlers : Ends(h) /\ req[h].key \in keys => Logged(h)
             /\ \A id \in DOMAIN logs \ DOMAIN logs' : logs[id].ts < now - Window
    <2>1. ASSUME NEW h \in Handlers, Ends(h), req[h].key \in keys
          PROVE  Logged(h)
        <3>1. req \in [Handlers -> Request] /\ keys \subseteq Keys /\ lastId \in Nat
            BY <1>1, RowsOfLog DEF IInv, TypeOK
        <3>2. req[h].pc = "store" /\ req'[h].pc = "idle" /\ req'[h] # req[h]
            BY <2>1 DEF Ends
        <3>3. Insert(h) \/ InsertNothing(h)
            <4>1. \A g \in Handlers : (\E r : Goto(g, r)) => g = h \/ req'[h] = req[h]
                BY <3>1 DEF Goto
            <4>2. PICK g \in Handlers : Serve(g)
                BY <1>1, <3>2 DEF Next, vars, DeleteKey, CleanupTick, CleanupDelete,
                   CleanupFails, Tick
            <4>3. ~ Leave(g) BY <3>2 DEF Leave
            <4>4. g = h
                BY <3>2, <4>1, <4>2, <4>3
                   DEF Serve, Arrive, Refuse, TakeOn, SelectNone, SelectKey, Exchanged, End,
                       Insert, InsertNothing
            <4> QED BY <3>2, <4>2, <4>3, <4>4
                    DEF Serve, Arrive, Refuse, TakeOn, SelectNone, SelectKey, Exchanged
        <3>4. ~ InsertNothing(h)
            <4>1. ~ Cancelled(h)
                <5>1. req[h].key # NULL BY <2>1, <3>1, LogTableAssumption
                <5> QED BY <1>1, <3>2, <5>1 DEF IInv, LocalOK, Cancelled
            <4>2. RowAccepted(req[h].key, req[h].outcome)
                BY <2>1 DEF Ends, RowAccepted
            <4> QED BY <2>1, <4>1, <4>2 DEF Ends, InsertNothing
        <3>5. Insert(h) BY <3>3, <3>4
        <3>6. lastId' \notin DOMAIN logs
            BY <1>1, <3>1, <3>5 DEF Insert, AddRow, IInv, TypeOK, TableTypeOK
        <3> QED BY <3>5, <3>6 DEF Insert, AddRow, Logged
    <2>2. ASSUME NEW id \in DOMAIN logs \ DOMAIN logs'
          PROVE  logs[id].ts < now - Window
        <3>1. CleanupDelete
            BY <1>1, <2>2 DEF Next, vars, Serve, Arrive, Leave, Refuse, TakeOn, SelectNone,
               SelectKey, Exchanged, Insert, InsertNothing, UnchangedLog, AddRow,
               DeleteKey, TakeKey, WithoutKey, CleanupTick, CleanupFails, Tick, Advance
        <3> QED BY <1>1, <2>2, <3>1, RemovedAreExpired DEF Cutoff
    <2> QED BY <2>1, <2>2
<1> QED BY <1>1, Invariant, PTL DEF Spec, LogIsComplete

(* Requests, the cleanup and the deletion of keys do to the rows what      *)
(* LogTable says and nothing else, so that what is proved of the page, for *)
(* any behaviour of LogTable, is true beside them: no row is dated later   *)
(* than it is inserted, and a cleanup uses the cutoff of a time that has   *)
(* been, however late it runs (Forwarder.Proxy, CleanupJob.Run).           *)
THEOREM ImplementsLogTable == Spec => TableSpec
<1>1. Init => TableInit BY DEF Init
<1>2. ASSUME IInv, [Next]_vars PROVE [TableNext]_tableVars
    <2>1. ASSUME NEW h \in Handlers, Serve(h) PROVE [TableNext]_tableVars
        <3>1. CASE Insert(h)
            BY <1>2, <3>1, InsertAddsRow DEF TableNext, IInv, TypeOK
        <3>2. CASE ~ Insert(h)
            BY <2>1, <3>2 DEF Serve, Arrive, Leave, Refuse, TakeOn, SelectNone, SelectKey,
               Exchanged, InsertNothing, UnchangedLog, tableVars
        <3> QED BY <3>1, <3>2
    <2>2. ASSUME NEW k \in Keys, DeleteKey(k) PROVE TableNext
        BY <2>2 DEF DeleteKey, TableNext
    <2>3. ASSUME CleanupDelete PROVE TableNext
        BY <1>2, <2>3, RemovedAreExpired DEF CleanupDelete, TableNext
    <2>4. ASSUME CleanupTick \/ CleanupFails \/ UNCHANGED vars PROVE UNCHANGED tableVars
        BY <2>4 DEF CleanupTick, CleanupFails, vars, tableVars
    <2>5. ASSUME Tick PROVE TableNext
        BY <2>5 DEF Tick, TableNext
    <2> QED BY <1>2, <2>1, <2>2, <2>3, <2>4, <2>5 DEF Next
<1> QED BY <1>1, <1>2, Invariant, PTL DEF Spec, TableSpec

-----------------------------------------------------------------------------
(***************************************************************************)
(* The listing, and how deep a row is in it.                               *)
(***************************************************************************)

(* The depth of a row is a number.                                         *)
LEMMA DepthIsNatural ==
    ASSUME TableTypeOK, NEW id, NEW filter
    PROVE  IsFiniteSet(Depth(id, filter)) /\ Cardinality(Depth(id, filter)) \in Nat
<1>1. Depth(id, filter) \in SUBSET DOMAIN logs BY DEF Depth
<1>2. IsFiniteSet(DOMAIN logs) BY RowsOfLog
<1>3. IsFiniteSet(Depth(id, filter)) BY <1>1, <1>2, FS_Subset
<1> QED BY <1>3, FS_CardinalityType

(* A listed row has the position of its depth, whatever the cutoff.        *)
LEMMA PositionIsDepth ==
    ASSUME TableTypeOK, NEW since \in Int, NEW filter, NEW id \in Listed(since, filter)
    PROVE  Position(since, filter, id) = Cardinality(Depth(id, filter))
<1>1. id \in DOMAIN logs /\ logs[id].ts >= since BY DEF Listed
<1>2. \A i \in DOMAIN logs : Newer(i, id) => logs[i].ts >= since
    BY <1>1, RowsOfLog DEF Newer
<1>3. {i \in Listed(since, filter) : Newer(i, id)} = Depth(id, filter)
    BY <1>2 DEF Listed, Depth
<1> QED BY <1>3 DEF Position

(* ORDER BY request_ts DESC, id DESC leaves nothing open.                  *)
LEMMA NewerIsStrictOrder ==
    ASSUME TableTypeOK, NEW S \in SUBSET DOMAIN logs
    PROVE  StrictOrder(S, {p \in S \X S : Newer(p[1], p[2])})
<1>1. \A i \in S : i \in Nat /\ logs[i].ts \in Nat BY RowsOfLog
<1>2. \A i, j \in S :
          <<i, j>> \in {p \in S \X S : Newer(p[1], p[2])} <=> Newer(i, j)
    OBVIOUS
<1>3. \A i \in S : ~ Newer(i, i) BY <1>1 DEF Newer
<1>4. \A i, j \in S : i # j => Newer(i, j) \/ Newer(j, i) BY <1>1 DEF Newer
<1>5. \A i, j, k \in S : Newer(i, j) /\ Newer(j, k) => Newer(i, k) BY <1>1 DEF Newer
<1> QED BY <1>2, <1>3, <1>4, <1>5 DEF StrictOrder

(* A listing with a row behind the page fills the page.                    *)
LEMMA FullPage ==
    ASSUME TableTypeOK, NEW since \in Int, NEW filter, NEW limit \in Nat, NEW offset \in Nat,
           NEW id \in Listed(since, filter),
           Position(since, filter, id) >= offset + limit
    PROVE  Cardinality(Page(since, filter, limit, offset)) >= limit
<1> DEFINE S == Listed(since, filter)
           R == {p \in S \X S : Newer(p[1], p[2])}
<1>1. S \in SUBSET DOMAIN logs BY DEF Listed
<1>2. IsFiniteSet(S)
    <2>1. IsFiniteSet(DOMAIN logs) BY RowsOfLog
    <2> HIDE DEF S
    <2> QED BY <1>1, <2>1, FS_Subset
<1>3. StrictOrder(S, R)
    <2> HIDE DEF S
    <2> QED BY <1>1, NewerIsStrictOrder
<1>4. \A i \in S : Ahead(S, R, i) = {j \in S : Newer(j, i)}
    <2> HIDE DEF S
    <2> QED BY DEF Ahead
<1>5. \A i \in S : Position(since, filter, i) = Cardinality(Ahead(S, R, i))
    BY <1>4 DEF Position
<1>6. Page(since, filter, limit, offset) =
          {i \in S : /\ Cardinality(Ahead(S, R, i)) >= offset
                     /\ Cardinality(Ahead(S, R, i)) < offset + limit}
    <2> HIDE DEF R
    <2> QED BY <1>5 DEF Page
<1> HIDE DEF S, R
<1>7. id \in S BY DEF S
<1> QED BY <1>2, <1>3, <1>5, <1>6, <1>7, PageIsFull

(* Whatever happens to the table, a row that is waited for gets deeper.    *)
LEMMA WaitingGetDeeper ==
    ASSUME TableTypeOK, TableTypeOK', Preserves, NEW r, r.owed \subseteq 1..lastId
    PROVE  /\ Waiting(r)' \subseteq Waiting(r)
           /\ \A S : \A n \in Nat : Deeper(r, S, n) => Deeper(r, S, n)'
<1>1. /\ \A id \in DOMAIN logs : logs[id].ts \in Nat /\ id \in Nat
      /\ \A id \in DOMAIN logs' : logs'[id].ts \in Nat
      /\ Cutoff \in Int /\ Cutoff' \in Int /\ Cutoff =< Cutoff'
      /\ now \in Nat /\ now' \in Nat
    <2>1. now \in Nat /\ now' \in Nat BY RowsOfLog, NextRowsOfLog
    <2>2. now =< now' BY DEF Preserves
    <2>3. Cutoff =< Cutoff' BY <2>1, <2>2, LogTableAssumption DEF Cutoff
    <2> QED BY <2>1, <2>3, RowsOfLog, NextRowsOfLog
<1>2. ASSUME NEW id \in Waiting(r)'
      PROVE  /\ id \in Waiting(r) /\ id \in DOMAIN logs'
             /\ logs'[id].ts = logs[id].ts /\ logs[id].ts >= Cutoff
    <2>1. id \in r.owed /\ id \notin r.shown /\ id \in DOMAIN logs'
          /\ logs'[id].ts >= Cutoff' /\ Matches(logs'[id], r.filter)
        BY DEF Waiting, Listed
    <2>2. id \in DOMAIN logs BY <2>1 DEF Preserves
    <2>3. logs'[id].ts = logs[id].ts /\ logs'[id].success = logs[id].success
        BY <2>1, <2>2 DEF Preserves
    <2>4. Matches(logs[id], r.filter) BY <2>1, <2>3 DEF Matches
    <2>5. logs[id].ts >= Cutoff BY <1>1, <2>1, <2>2, <2>3
    <2> QED BY <2>1, <2>2, <2>3, <2>4, <2>5 DEF Waiting, Listed
<1>3. ASSUME NEW id \in Waiting(r)'
      PROVE  Depth(id, r.filter) \subseteq Depth(id, r.filter)'
    <2> SUFFICES ASSUME NEW i \in Depth(id, r.filter)
                 PROVE  i \in Depth(id, r.filter)'
        OBVIOUS
    <2>1. i \in DOMAIN logs /\ Matches(logs[i], r.filter) /\ Newer(i, id)
          /\ id \in DOMAIN logs
        BY <1>2 DEF Depth, Waiting, Listed
    <2>2. logs[i].ts >= logs[id].ts BY <1>1, <2>1 DEF Newer
    <2>3. logs[i].ts >= Cutoff BY <1>1, <1>2, <2>1, <2>2
    <2>4. i \in DOMAIN logs' BY <1>1, <2>1, <2>3 DEF Preserves
    <2>5. logs'[i].ts = logs[i].ts /\ logs'[i].success = logs[i].success
        BY <2>1, <2>4 DEF Preserves
    <2>6. Matches(logs'[i], r.filter) BY <2>1, <2>5 DEF Matches
    <2>7. Newer(i, id)' BY <1>2, <2>1, <2>5 DEF Newer
    <2> QED BY <2>4, <2>6, <2>7 DEF Depth
<1>4. ASSUME NEW id \in Waiting(r)'
      PROVE  /\ Cardinality(Depth(id, r.filter)) \in Nat
             /\ Cardinality(Depth(id, r.filter)') \in Nat
             /\ Cardinality(Depth(id, r.filter)) =< Cardinality(Depth(id, r.filter)')
    <2>1. Cardinality(Depth(id, r.filter)) \in Nat BY DepthIsNatural
    <2>2. Depth(id, r.filter)' \in SUBSET DOMAIN logs' BY DEF Depth
    <2>3. IsFiniteSet(Depth(id, r.filter)') BY <2>2, NextRowsOfLog, FS_Subset
    <2> QED BY <1>3, <2>1, <2>3, FS_CardinalityType, FS_Subset
<1>5. ASSUME NEW S, NEW n \in Nat, Deeper(r, S, n) PROVE Deeper(r, S, n)'
    <2> SUFFICES ASSUME NEW id \in Waiting(r)', id \notin S
                 PROVE  Cardinality(Depth(id, r.filter)') >= n
        BY DEF Deeper
    <2>1. Cardinality(Depth(id, r.filter)) >= n BY <1>2, <1>5 DEF Deeper
    <2> QED BY <1>4, <2>1
<1> QED BY <1>2, <1>5

-----------------------------------------------------------------------------
(***************************************************************************)
(* The page.                                                               *)
(***************************************************************************)

(* The fields of the page, and of a load.                                  *)
LEMMA ReaderFields ==
    ASSUME PageTypeOK, reader.pc = "open"
    PROVE  /\ reader \in OpenPages
           /\ reader.filter \in Filters /\ reader.limit \in Limits /\ reader.limit \in Nat
           /\ reader.limit > 0 /\ reader.offset \in Nat /\ reader.depth \in Nat
           /\ reader.owed \subseteq 1..MaxRows /\ reader.shown \subseteq 1..MaxRows
<1>1. reader \in OpenPages BY DEF PageTypeOK, Reader, Idle
<1>2. reader.limit \in Limits BY <1>1 DEF OpenPages
<1>3. reader.limit \in Nat /\ reader.limit > 0
    <2>1. \A n \in Limits : n \in Nat /\ n > 0 BY LogPageAssumption
    <2> QED BY <1>2, <2>1
<1> QED BY <1>1, <1>3 DEF OpenPages

LEMMA LoadFields ==
    ASSUME PageTypeOK, NEW l \in Loads, loads[l].pc # "idle"
    PROVE  /\ loads[l].limit \in Limits /\ loads[l].limit \in Nat /\ loads[l].limit > 0
           /\ loads[l].offset \in Nat /\ loads[l].current \in BOOLEAN
           /\ \/ /\ loads[l].pc = "asked" /\ loads[l] \in AskedLoads
                 /\ loads[l].filter \in Filters /\ loads[l].at \in Times
              \/ /\ loads[l].pc = "answer" /\ loads[l] \in AnsweredLoads
                 /\ loads[l].page \subseteq 1..MaxRows /\ loads[l].joins \in BOOLEAN
                 /\ Cardinality(loads[l].page) \in Nat
<1>1. loads[l] \in AskedLoads \/ loads[l] \in AnsweredLoads
    BY DEF PageTypeOK, Load, Idle
<1>2. loads[l].limit \in Limits BY <1>1 DEF AskedLoads, AnsweredLoads
<1>3. loads[l].limit \in Nat /\ loads[l].limit > 0
    <2>1. \A n \in Limits : n \in Nat /\ n > 0 BY LogPageAssumption
    <2> QED BY <1>2, <2>1
<1>4. ASSUME loads[l] \in AnsweredLoads
      PROVE  loads[l].page \subseteq 1..MaxRows /\ Cardinality(loads[l].page) \in Nat
    <2>1. loads[l].page \in SUBSET (1..MaxRows) BY <1>4 DEF AnsweredLoads
    <2>2. IsFiniteSet(1..MaxRows) BY LogTableAssumption, FS_Interval
    <2> QED BY <2>1, <2>2, FS_Subset, FS_CardinalityType
<1> QED BY <1>1, <1>2, <1>3, <1>4 DEF AskedLoads, AnsweredLoads

(* The page moves, and the table does not.                                 *)
LEMMA PageStep ==
    ASSUME PageIInv, UNCHANGED tableVars,
           NEW r \in Reader, NEW ls \in [Loads -> Load], reader' = r, loads' = ls,
           ReaderOK(r, ls), \A l \in Loads : LoadOK(r, ls[l])
    PROVE  PageIInv'
<1>1. now' = now /\ logs' = logs /\ lastId' = lastId BY DEF tableVars
<1>2. PageTypeOK' BY <1>1 DEF PageIInv, PageTypeOK, TableTypeOK
<1>3. ReaderOK(reader, loads)'
    BY <1>1 DEF ReaderOK, SmoothOK, Deeper, Waiting, Depth, Newer, Listed, Cutoff
<1>4. ASSUME NEW l \in Loads PROVE LoadOK(reader, loads[l])'
    BY <1>1 DEF LoadOK, Joined, Deeper, Waiting, Depth, Newer, Listed, Cutoff
<1> QED BY <1>2, <1>3, <1>4 DEF PageIInv

(* The table moves, and the page does not.                                 *)
LEMMA RowsStep ==
    ASSUME PageIInv, [TableNext]_tableVars, UNCHANGED <<reader, loads>>
    PROVE  PageIInv'
<1>1. TableTypeOK /\ TableTypeOK' /\ Preserves
    BY TableStep DEF PageIInv, PageTypeOK
<1>2. PageTypeOK' BY <1>1 DEF PageIInv, PageTypeOK
<1>3. PICK r \in Reader, ls \in [Loads -> Load] :
          r = reader /\ ls = loads /\ reader' = r /\ loads' = ls
    BY DEF PageIInv, PageTypeOK
<1>4. CASE r.pc # "open"
    <2>1. ReaderOK(reader, loads)' BY <1>3, <1>4 DEF ReaderOK
    <2>2. \A l \in Loads : LoadOK(reader, loads[l])' BY <1>3, <1>4 DEF PageIInv, LoadOK
    <2> QED BY <1>2, <2>1, <2>2 DEF PageIInv
<1>5. CASE r.pc = "open"
    <2>1. r.owed \subseteq 1..lastId /\ r.depth \in Nat
        BY <1>3, <1>5, ReaderFields DEF PageIInv, ReaderOK
    <2>2. /\ Waiting(r)' \subseteq Waiting(r)
          /\ \A S : \A n \in Nat : Deeper(r, S, n) => Deeper(r, S, n)'
        BY <1>1, <2>1, WaitingGetDeeper
    <2>3. now \in Nat /\ now' \in Nat /\ now =< now' /\ 1..lastId \subseteq 1..lastId'
        <3>1. now =< now' /\ lastId =< lastId' BY <1>1 DEF Preserves
        <3>2. lastId' \in Nat BY <1>1, LogTableAssumption DEF TableTypeOK
        <3> QED BY <1>1, <3>1, <3>2, RowsOfLog, NextRowsOfLog
    <2>4. ReaderOK(r, ls)'
        <3>1. ReaderOK(r, ls) BY <1>3 DEF PageIInv
        <3>2. Deeper(r, {}, r.depth)' BY <1>5, <2>1, <2>2, <3>1 DEF ReaderOK
        <3>3. r.last => Waiting(r)' = {} BY <1>5, <2>2, <3>1 DEF ReaderOK
        <3>4. r.smooth => SmoothOK(r, ls)' BY <1>5, <3>1 DEF ReaderOK, SmoothOK
        <3> QED BY <2>1, <2>3, <3>2, <3>3, <3>4 DEF ReaderOK
    <2>5. ASSUME NEW l \in Loads PROVE LoadOK(r, ls[l])'
        <3>1. LoadOK(r, ls[l]) BY <1>3 DEF PageIInv
        <3>2. ls[l].pc = "asked" => ls[l].at =< now'
            <4> SUFFICES ASSUME ls[l].pc = "asked" PROVE ls[l].at =< now'
                OBVIOUS
            <4>1. ls[l].at \in Nat
                BY <1>3, LoadFields, LogTableAssumption DEF PageIInv, Times
            <4>2. ls[l].at =< now BY <3>1 DEF LoadOK
            <4> QED BY <2>3, <4>1, <4>2
        <3>3. ASSUME ls[l].pc = "answer", ls[l].current, ls[l].joins PROVE Joined(r, ls[l])'
            <4>1. Joined(r, ls[l]) BY <3>1, <3>3 DEF LoadOK
            <4>2. ls[l].offset + ls[l].limit \in Nat
                BY <1>3, <3>3, LoadFields DEF PageIInv
            <4>3. Deeper(r, ls[l].page, ls[l].offset + ls[l].limit)'
                BY <2>2, <4>1, <4>2 DEF Joined
            <4> QED BY <2>2, <4>1, <4>3 DEF Joined
        <3> QED BY <1>5, <3>1, <3>2, <3>3 DEF LoadOK
    <2>6. ReaderOK(reader, loads)' BY <1>3, <2>4
    <2>7. \A l \in Loads : LoadOK(reader, loads[l])' BY <1>3, <2>5
    <2> QED BY <1>2, <2>6, <2>7 DEF PageIInv
<1> QED BY <1>4, <1>5

(* A reading goes on, and may have seen more.                              *)
LEMMA ReadingGoesOn ==
    ASSUME NEW r, NEW new, new.owed = r.owed, new.filter = r.filter, r.shown \subseteq new.shown
    PROVE  /\ Waiting(new) \subseteq Waiting(r)
           /\ \A S, n : Deeper(r, S, n) => Deeper(new, S, n)
           /\ \A load : /\ LoadOK(r, load) /\ r.pc = "open"
                        /\ new.pc = "open" /\ new.limit = r.limit
                        => LoadOK(new, load)
<1>1. Waiting(new) \subseteq Waiting(r) BY DEF Waiting
<1>2. \A S, n : Deeper(r, S, n) => Deeper(new, S, n) BY <1>1 DEF Deeper
<1> QED BY <1>1, <1>2 DEF LoadOK, Joined

(* A new reading begins with one load, and no other is current.            *)
FirstLoad(l, filter, limit) ==
    [m \in Loads |-> IF m = l THEN Asked(filter, limit, 0) ELSE Stale(loads[m])]

LEMMA ReadingBegins ==
    ASSUME PageIInv, UNCHANGED tableVars, NEW l \in Loads,
           NEW r \in OpenPages, reader' = r,
           NEW filter \in Filters, NEW limit \in Limits,
           r.filter = filter, r.limit = limit, r.offset = 0, r.owed = Listed(Cutoff, filter),
           r.depth = 0, r.last = FALSE, r.smooth => Quiet,
           loads' = FirstLoad(l, filter, limit)
    PROVE  PageIInv'
<1>1. TableTypeOK BY DEF PageIInv, PageTypeOK
<1>2. PICK ls : /\ ls = [m \in Loads |->
                            IF m = l THEN Asked(filter, limit, 0) ELSE Stale(loads[m])]
                /\ loads' = ls
    BY DEF FirstLoad
<1>3. Asked(filter, limit, 0) \in AskedLoads BY <1>1 DEF Asked, AskedLoads, TableTypeOK
<1>4. ASSUME NEW m \in Loads, m # l
      PROVE  /\ ls[m] \in Load
             /\ loads[m].pc = "idle" => ls[m] = loads[m]
             /\ loads[m].pc # "idle" =>
                   /\ ls[m].pc = loads[m].pc /\ ~ls[m].current
                   /\ ls[m].pc = "asked" => ls[m].at = loads[m].at
    <2>1. ls[m] = Stale(loads[m]) /\ loads[m] \in Load
        BY <1>2, <1>4 DEF PageIInv, PageTypeOK
    <2>2. CASE loads[m].pc = "idle" BY <2>1, <2>2 DEF Stale
    <2>3. CASE loads[m].pc # "idle"
        <3>1. ls[m] = [loads[m] EXCEPT !.current = FALSE] BY <2>1, <2>3 DEF Stale
        <3>2. loads[m] \in AskedLoads \/ loads[m] \in AnsweredLoads
            BY <2>1, <2>3 DEF Load, Idle
        <3> QED BY <2>3, <3>1, <3>2 DEF AskedLoads, AnsweredLoads, Load
    <2> QED BY <2>2, <2>3
<1>5. ls \in [Loads -> Load] BY <1>2, <1>3, <1>4 DEF Load
<1>6. r \in Reader /\ r.pc = "open" BY DEF Reader, OpenPages
<1>7. r.owed \subseteq 1..lastId BY <1>1 DEF Listed, TableTypeOK
<1>8. Deeper(r, {}, r.depth)
    <2> SUFFICES ASSUME NEW id PROVE Cardinality(Depth(id, r.filter)) >= 0
        BY DEF Deeper
    <2>1. Cardinality(Depth(id, r.filter)) \in Nat BY <1>1, DepthIsNatural
    <2> QED BY <2>1
<1>9. ls[l] = Asked(filter, limit, 0) BY <1>2
<1>10. r.smooth => SmoothOK(r, ls)
    <2> SUFFICES ASSUME \A m \in Loads : loads[m].pc = "idle"
                 PROVE  SmoothOK(r, ls)
        BY DEF Quiet
    <2>1. \A m \in Loads : m # l => ls[m].pc = "idle" BY <1>4
    <2>2. ls[l].pc = "asked" /\ ls[l].current /\ ls[l].offset = 0 BY <1>9 DEF Asked
    <2> QED BY <2>1, <2>2 DEF SmoothOK
<1>11. ReaderOK(r, ls) BY <1>7, <1>8, <1>10 DEF ReaderOK
<1>12. ASSUME NEW m \in Loads PROVE LoadOK(r, ls[m])
    <2>1. CASE m = l
        <3>1. now =< now BY <1>1, RowsOfLog
        <3> QED BY <1>6, <1>9, <2>1, <3>1 DEF LoadOK, Asked
    <2>2. CASE m # l
        <3>1. LoadOK(reader, loads[m]) BY DEF PageIInv
        <3> QED BY <1>4, <1>6, <2>2, <3>1 DEF LoadOK
    <2> QED BY <2>1, <2>2
<1> QED BY <1>2, <1>5, <1>6, <1>11, <1>12, PageStep

LEMMA ReaderOpensStep ==
    ASSUME PageIInv, NEW l \in Loads, ReaderOpens(l)
    PROVE  PageIInv'
<1>1. PICK filter \in Filters, limit \in Limits :
          /\ reader' = [pc |-> "open", filter |-> filter, limit |-> limit, offset |-> 0,
                        next |-> TRUE, previous |-> TRUE,
                        owed |-> Listed(Cutoff, filter), shown |-> {},
                        depth |-> 0, last |-> FALSE, smooth |-> TRUE]
          /\ loads' = [loads EXCEPT ![l] = Asked(filter, limit, 0)]
          /\ reader.pc = "idle" /\ UNCHANGED tableVars
    BY DEF ReaderOpens
<1>2. PICK r : /\ r = [pc |-> "open", filter |-> filter, limit |-> limit, offset |-> 0,
                       next |-> TRUE, previous |-> TRUE,
                       owed |-> Listed(Cutoff, filter), shown |-> {},
                       depth |-> 0, last |-> FALSE, smooth |-> TRUE]
               /\ reader' = r
    BY <1>1
<1>3. Listed(Cutoff, filter) \subseteq 1..MaxRows
    <2>1. DOMAIN logs \subseteq 1..lastId /\ lastId \in 0..MaxRows
        BY DEF PageIInv, PageTypeOK, TableTypeOK
    <2>2. 1..lastId \subseteq 1..MaxRows BY <2>1, LogTableAssumption
    <2> QED BY <2>1, <2>2 DEF Listed
<1>4. r \in OpenPages BY <1>2, <1>3 DEF OpenPages
<1>5. \A m \in Loads : loads[m].pc = "idle" BY <1>1 DEF PageIInv, LoadOK
<1>6. loads' = FirstLoad(l, filter, limit)
    BY <1>1, <1>5 DEF FirstLoad, Stale, PageIInv, PageTypeOK
<1>7. /\ r.filter = filter /\ r.limit = limit /\ r.offset = 0 /\ r.depth = 0
      /\ r.owed = Listed(Cutoff, filter) /\ r.last = FALSE
    BY <1>2
<1>8. Quiet BY <1>5 DEF Quiet
<1> QED BY <1>1, <1>2, <1>4, <1>6, <1>7, <1>8, ReadingBegins

LEMMA ReaderSubmitsStep ==
    ASSUME PageIInv, NEW l \in Loads, ReaderSubmits(l)
    PROVE  PageIInv'
<1>1. PICK filter \in Filters, limit \in Limits :
          /\ reader' = [reader EXCEPT !.filter = filter, !.limit = limit, !.offset = 0,
                        !.owed = Listed(Cutoff, filter), !.shown = {},
                        !.depth = 0, !.last = FALSE, !.smooth = Quiet]
          /\ loads' = FirstLoad(l, filter, limit)
          /\ reader.pc = "open" /\ UNCHANGED tableVars
    BY DEF ReaderSubmits, FirstLoad
<1>2. PICK quiet \in BOOLEAN : quiet = Quiet BY DEF Quiet
<1>3. PICK r : /\ r = [reader EXCEPT !.filter = filter, !.limit = limit, !.offset = 0,
                       !.owed = Listed(Cutoff, filter), !.shown = {},
                       !.depth = 0, !.last = FALSE, !.smooth = quiet]
               /\ reader' = r
    BY <1>1, <1>2
<1>4. Listed(Cutoff, filter) \subseteq 1..MaxRows
    <2>1. DOMAIN logs \subseteq 1..lastId /\ lastId \in 0..MaxRows
        BY DEF PageIInv, PageTypeOK, TableTypeOK
    <2>2. 1..lastId \subseteq 1..MaxRows BY <2>1, LogTableAssumption
    <2> QED BY <2>1, <2>2 DEF Listed
<1>5. reader \in OpenPages BY <1>1, ReaderFields DEF PageIInv
<1>6. /\ r \in OpenPages /\ r.filter = filter /\ r.limit = limit /\ r.offset = 0
      /\ r.owed = Listed(Cutoff, filter) /\ r.depth = 0 /\ r.last = FALSE /\ r.smooth = quiet
    BY <1>3, <1>4, <1>5 DEF OpenPages
<1> QED BY <1>1, <1>2, <1>3, <1>6, ReadingBegins

(* The offset moves no further than the pages shown go without a gap, if   *)
(* nothing else is under way.                                              *)
LEMMA TurnStep ==
    ASSUME PageIInv, reader.pc = "open", NEW l \in Loads, NEW offset \in Nat,
           offset =< reader.offset + reader.limit, Turn(l, offset)
    PROVE  PageIInv'
<1>1. /\ reader \in OpenPages /\ reader.offset \in Nat /\ reader.limit \in Nat
      /\ reader.depth \in Nat /\ reader.filter \in Filters /\ reader.limit \in Limits
    BY ReaderFields DEF PageIInv
<1>2. PICK quiet \in BOOLEAN : quiet = (reader.smooth /\ Quiet) BY DEF Quiet
<1>3. PICK r : /\ r = [reader EXCEPT !.offset = offset, !.smooth = quiet]
               /\ reader' = r
    BY <1>2 DEF Turn
<1>4. PICK ls : /\ ls = [loads EXCEPT ![l] = Asked(reader.filter, reader.limit, offset)]
                /\ loads' = ls
    BY DEF Turn
<1>5. /\ r \in OpenPages /\ r.pc = "open" /\ r.filter = reader.filter
      /\ r.limit = reader.limit /\ r.offset = offset /\ r.depth = reader.depth
      /\ r.owed = reader.owed /\ r.shown = reader.shown /\ r.last = reader.last
      /\ r.smooth = quiet
    BY <1>1, <1>3 DEF OpenPages
<1>6. Asked(reader.filter, reader.limit, offset) \in AskedLoads
    BY <1>1 DEF Asked, AskedLoads, PageIInv, PageTypeOK, TableTypeOK
<1>7. ls \in [Loads -> Load] BY <1>4, <1>6 DEF PageIInv, PageTypeOK, Load
<1>8. \A m \in Loads : ls[m] = IF m = l THEN Asked(reader.filter, reader.limit, offset)
                               ELSE loads[m]
    BY <1>4 DEF PageIInv, PageTypeOK
<1>9. ReaderOK(reader, loads) BY DEF PageIInv
<1>10. Waiting(r) \subseteq Waiting(reader) /\ Deeper(r, {}, r.depth)
    BY <1>5, <1>9, ReadingGoesOn DEF ReaderOK
<1>11. quiet => SmoothOK(r, ls)
    <2> SUFFICES ASSUME reader.smooth, \A m \in Loads : loads[m].pc = "idle"
                 PROVE  SmoothOK(r, ls)
        BY <1>2 DEF Quiet
    <2>1. reader.depth >= reader.offset + reader.limit BY <1>9 DEF ReaderOK, SmoothOK
    <2>2. r.offset =< r.depth BY <1>1, <1>5, <2>1
    <2>3. \A m \in Loads : m # l => ls[m].pc = "idle" BY <1>8
    <2>4. ls[l].pc = "asked" /\ ls[l].current /\ ls[l].offset = r.offset
        BY <1>5, <1>8 DEF Asked
    <2> QED BY <2>2, <2>3, <2>4 DEF SmoothOK
<1>12. ReaderOK(r, ls) BY <1>5, <1>9, <1>10, <1>11 DEF ReaderOK
<1>13. ASSUME NEW m \in Loads PROVE LoadOK(r, ls[m])
    <2>1. CASE m = l
        <3>1. now =< now BY RowsOfLog DEF PageIInv, PageTypeOK
        <3> QED BY <1>5, <1>8, <2>1, <3>1 DEF LoadOK, Asked
    <2>2. CASE m # l
        <3>1. LoadOK(reader, loads[m]) BY DEF PageIInv
        <3> QED BY <1>5, <1>8, <2>2, <3>1, ReadingGoesOn
    <2> QED BY <2>1, <2>2
<1>14. UNCHANGED tableVars /\ r \in Reader BY <1>5 DEF Turn, Reader
<1> QED BY <1>3, <1>4, <1>7, <1>12, <1>13, <1>14, PageStep

LEMMA ReaderTurnsStep ==
    ASSUME PageIInv, NEW l \in Loads, ReaderNext(l) \/ ReaderPrevious(l)
    PROVE  PageIInv'
<1>1. reader.pc = "open" BY DEF ReaderNext, ReaderPrevious
<1>2. reader.offset \in Nat /\ reader.limit \in Nat BY <1>1, ReaderFields DEF PageIInv
<1>3. \E offset \in Nat : offset =< reader.offset + reader.limit /\ Turn(l, offset)
    <2>1. CASE ReaderNext(l) BY <1>2, <2>1 DEF ReaderNext
    <2>2. CASE ReaderPrevious(l)
        <3>1. PICK offset : /\ offset = IF reader.offset > reader.limit
                                        THEN reader.offset - reader.limit ELSE 0
                            /\ Turn(l, offset)
            BY <2>2 DEF ReaderPrevious
        <3>2. offset \in Nat /\ offset =< reader.offset + reader.limit BY <1>2, <3>1
        <3> QED BY <3>1, <3>2
    <2> QED BY <2>1, <2>2
<1> QED BY <1>1, <1>3, TurnStep

LEMMA ReaderLeavesStep ==
    ASSUME PageIInv, ReaderLeaves
    PROVE  PageIInv'
<1>1. PICK ls : ls = [l \in Loads |-> Idle] /\ loads' = ls /\ reader' = Idle
    BY DEF ReaderLeaves
<1>2. ls \in [Loads -> Load] /\ Idle \in Reader BY <1>1 DEF Load, Reader
<1>3. ReaderOK(Idle, ls) /\ \A l \in Loads : LoadOK(Idle, ls[l])
    BY <1>1 DEF ReaderOK, LoadOK, Idle
<1>4. UNCHANGED tableVars BY DEF ReaderLeaves
<1> QED BY <1>1, <1>2, <1>3, <1>4, PageStep

(* What is waited for is on the page or behind it, and then it is full.    *)
LEMMA PageJoins ==
    ASSUME PageIInv, reader.pc = "open", NEW since \in Int, since =< Cutoff,
           NEW offset \in Nat, offset =< reader.depth,
           NEW load, load.limit = reader.limit, load.offset = offset,
           load.page = Page(since, reader.filter, reader.limit, offset)
    PROVE  Joined(reader, load)
<1>1. TableTypeOK /\ reader.limit \in Nat /\ reader.depth \in Nat
    BY ReaderFields DEF PageIInv, PageTypeOK
<1>2. Deeper(reader, {}, reader.depth) BY DEF PageIInv, ReaderOK
<1>3. ASSUME NEW id \in Waiting(reader), id \notin load.page
      PROVE  /\ Cardinality(Depth(id, reader.filter)) >= offset + reader.limit
             /\ Cardinality(load.page) >= reader.limit
    <2>1. id \in DOMAIN logs /\ logs[id].ts >= Cutoff /\ Matches(logs[id], reader.filter)
        BY <1>3 DEF Waiting, Listed
    <2>2. id \in Listed(since, reader.filter)
        <3>1. logs[id].ts >= since BY <1>1, <2>1, RowsOfLog
        <3> QED BY <2>1, <3>1 DEF Listed
    <2>3. Position(since, reader.filter, id) = Cardinality(Depth(id, reader.filter))
        BY <1>1, <2>2, PositionIsDepth
    <2>4. Cardinality(Depth(id, reader.filter)) \in Nat BY <1>1, DepthIsNatural
    <2>5. Cardinality(Depth(id, reader.filter)) >= reader.depth BY <1>2, <1>3 DEF Deeper
    <2>6. Position(since, reader.filter, id) >= offset + reader.limit
        BY <1>1, <1>3, <2>2, <2>3, <2>4, <2>5 DEF Page
    <2>7. Cardinality(load.page) >= reader.limit BY <1>1, <2>2, <2>6, FullPage
    <2> QED BY <2>3, <2>6, <2>7
<1>4. Deeper(reader, load.page, load.offset + load.limit) BY <1>3 DEF Deeper
<1>5. Cardinality(load.page) \in Nat
    <2>1. load.page \subseteq DOMAIN logs BY DEF Page, Listed
    <2>2. IsFiniteSet(load.page) BY <1>1, <2>1, RowsOfLog, FS_Subset
    <2> QED BY <2>2, FS_CardinalityType
<1>6. Cardinality(load.page) < load.limit => Waiting(reader) \subseteq load.page
    BY <1>1, <1>3, <1>5
<1> QED BY <1>4, <1>6 DEF Joined

LEMMA LoadReadsStep ==
    ASSUME PageIInv, NEW l \in Loads, LoadReads(l)
    PROVE  PageIInv'
<1>1. PICK load : load = loads[l] OBVIOUS
<1>2. /\ load.pc = "asked" /\ UNCHANGED tableVars /\ reader' = reader
      /\ \E time \in load.at..now :
             loads' = [loads EXCEPT ![l] =
                [pc |-> "answer", limit |-> load.limit, offset |-> load.offset,
                 current |-> load.current,
                 page |-> Page(time - Window, load.filter, load.limit, load.offset),
                 joins |-> load.offset =< reader.depth]]
    BY <1>1 DEF LoadReads
<1>3. PICK time \in load.at..now :
          loads' = [loads EXCEPT ![l] =
             [pc |-> "answer", limit |-> load.limit, offset |-> load.offset,
              current |-> load.current,
              page |-> Page(time - Window, load.filter, load.limit, load.offset),
              joins |-> load.offset =< reader.depth]]
    BY <1>2
<1>4. PICK since : since = time - Window OBVIOUS
<1>5. PICK joins \in BOOLEAN : joins = (load.offset =< reader.depth)
    <2>1. load.offset \in Nat /\ reader.depth \in Nat
        BY <1>1, <1>2, LoadFields, ReaderFields DEF PageIInv, LoadOK
    <2>2. (load.offset =< reader.depth) \in BOOLEAN BY <2>1
    <2> QED BY <2>2, Zenon
<1>6. PICK answer :
          answer = [pc |-> "answer", limit |-> load.limit, offset |-> load.offset,
                    current |-> load.current,
                    page |-> Page(since, load.filter, load.limit, load.offset),
                    joins |-> joins]
    OBVIOUS
<1>7. PICK ls : ls = [loads EXCEPT ![l] = answer] /\ loads' = ls
    BY <1>3, <1>4, <1>5, <1>6
<1>8. /\ answer.pc = "answer" /\ answer.limit = load.limit /\ answer.offset = load.offset
      /\ answer.current = load.current /\ answer.joins = joins
      /\ answer.page = Page(since, load.filter, load.limit, load.offset)
    BY <1>6
<1>9. TableTypeOK /\ PageTypeOK BY DEF PageIInv, PageTypeOK
<1>10. /\ load.limit \in Limits /\ load.offset \in Nat /\ load.current \in BOOLEAN
      /\ load.at \in Times
    BY <1>1, <1>2, <1>9, LoadFields
<1>11. since \in Int /\ since =< Cutoff
    <2>1. load.at \in Nat /\ now \in Nat /\ Window \in Nat
        BY <1>9, <1>10, RowsOfLog, LogTableAssumption DEF Times
    <2>2. time \in Int /\ time =< now BY <2>1
    <2> QED BY <1>4, <2>1, <2>2 DEF Cutoff
<1>12. answer \in AnsweredLoads
    <2>1. answer.page \subseteq 1..MaxRows
        <3>1. DOMAIN logs \subseteq 1..lastId /\ lastId \in 0..MaxRows BY <1>9 DEF TableTypeOK
        <3>2. 1..lastId \subseteq 1..MaxRows BY <3>1, LogTableAssumption
        <3> QED BY <1>8, <3>1, <3>2 DEF Page, Listed
    <2> QED BY <1>6, <1>8, <1>10, <2>1 DEF AnsweredLoads
<1>13. ls \in [Loads -> Load] BY <1>7, <1>9, <1>12 DEF PageTypeOK, Load
<1>14. \A m \in Loads : ls[m] = IF m = l THEN answer ELSE loads[m]
    BY <1>7, <1>9 DEF PageTypeOK
<1>15. LoadOK(reader, load) /\ reader.pc = "open"
    BY <1>1, <1>2 DEF PageIInv, LoadOK
<1>16. ReaderOK(reader, loads) BY DEF PageIInv
<1>17. reader.smooth => SmoothOK(reader, ls)
    <2> SUFFICES ASSUME SmoothOK(reader, loads) PROVE SmoothOK(reader, ls)
        BY <1>15, <1>16 DEF ReaderOK
    <2>1. load.current /\ load.offset = reader.offset /\ reader.offset =< reader.depth
        BY <1>1, <1>2 DEF SmoothOK
    <2>2. joins BY <1>5, <2>1
    <2>3. \A m \in Loads : ls[m].pc = "idle" <=> loads[m].pc = "idle"
        BY <1>1, <1>2, <1>8, <1>14
    <2>4. \A m, n \in Loads : ls[m].pc # "idle" /\ ls[n].pc # "idle" => m = n
        BY <2>3 DEF SmoothOK
    <2>5. \A m \in Loads : ls[m].pc # "idle" =>
              /\ ls[m].current /\ ls[m].offset = reader.offset
              /\ ls[m].pc = "answer" => ls[m].joins
        BY <1>8, <1>14, <2>1, <2>2 DEF SmoothOK
    <2> QED BY <2>1, <2>3, <2>4, <2>5, <1>1, <1>2 DEF SmoothOK
<1>18. ReaderOK(reader, ls) BY <1>15, <1>16, <1>17 DEF ReaderOK
<1>19. ASSUME load.current, joins PROVE Joined(reader, answer)
    <2>1. load.limit = reader.limit /\ load.filter = reader.filter
        BY <1>2, <1>15, <1>19 DEF LoadOK
    <2>2. load.offset =< reader.depth BY <1>5, <1>19
    <2> QED BY <1>8, <1>10, <1>11, <1>15, <2>1, <2>2, PageJoins
<1>20. ASSUME NEW m \in Loads PROVE LoadOK(reader, ls[m])
    <2>1. CASE m = l
        <3>1. load.current => load.limit = reader.limit BY <1>2, <1>15 DEF LoadOK
        <3> QED BY <1>8, <1>14, <1>15, <1>19, <2>1, <3>1 DEF LoadOK
    <2>2. CASE m # l BY <1>14, <2>2 DEF PageIInv
    <2> QED BY <2>1, <2>2
<1>21. PICK r \in Reader : r = reader BY <1>9 DEF PageTypeOK
<1> QED BY <1>2, <1>7, <1>13, <1>18, <1>20, <1>21, PageStep

(* After a load nothing else is under way, if the reading is smooth.       *)
LEMMA LoadEnds ==
    ASSUME PageIInv, NEW l \in Loads, loads[l].pc # "idle",
           NEW r \in OpenPages, reader' = r, loads' = [loads EXCEPT ![l] = Idle],
           UNCHANGED tableVars,
           r.owed = reader.owed, r.filter = reader.filter, r.limit = reader.limit,
           reader.shown \subseteq r.shown,
           Deeper(r, {}, r.depth), r.last => Waiting(r) = {},
           r.smooth => /\ reader.smooth
                       /\ r.offset =< r.depth /\ r.depth >= r.offset + r.limit
                       /\ r.next \/ r.last
    PROVE  PageIInv'
<1>1. PICK ls : ls = [loads EXCEPT ![l] = Idle] /\ loads' = ls OBVIOUS
<1>2. loads \in [Loads -> Load] BY DEF PageIInv, PageTypeOK
<1>3. ls \in [Loads -> Load] BY <1>1, <1>2 DEF Load
<1>4. \A m \in Loads : ls[m] = IF m = l THEN Idle ELSE loads[m] BY <1>1, <1>2
<1>5. reader.pc = "open" /\ r.pc = "open" /\ r \in Reader
    BY DEF PageIInv, LoadOK, OpenPages, Reader
<1>6. ReaderOK(reader, loads) BY DEF PageIInv
<1>7. r.smooth => SmoothOK(r, ls)
    <2> SUFFICES ASSUME r.smooth, SmoothOK(reader, loads) PROVE SmoothOK(r, ls)
        BY <1>5, <1>6 DEF ReaderOK
    <2>1. \A m \in Loads : loads[m].pc # "idle" => m = l BY DEF SmoothOK
    <2>2. \A m \in Loads : ls[m].pc = "idle" BY <1>4, <2>1 DEF Idle
    <2> QED BY <2>2 DEF SmoothOK
<1>8. ReaderOK(r, ls) BY <1>5, <1>6, <1>7 DEF ReaderOK
<1>9. ASSUME NEW m \in Loads PROVE LoadOK(r, ls[m])
    <2>1. CASE m = l BY <1>4, <2>1 DEF LoadOK, Idle
    <2>2. CASE m # l
        <3>1. LoadOK(reader, loads[m]) BY DEF PageIInv
        <3> QED BY <1>4, <1>5, <2>2, <3>1, ReadingGoesOn
    <2> QED BY <2>1, <2>2
<1> QED BY <1>1, <1>3, <1>5, <1>8, <1>9, PageStep

LEMMA LoadFailsStep ==
    ASSUME PageIInv, NEW l \in Loads, LoadFails(l)
    PROVE  PageIInv'
<1>1. /\ loads[l].pc # "idle" /\ loads' = [loads EXCEPT ![l] = Idle]
      /\ UNCHANGED tableVars
    BY DEF LoadFails
<1>2. reader.pc = "open" BY <1>1 DEF PageIInv, LoadOK
<1>3. reader \in OpenPages BY <1>2, ReaderFields DEF PageIInv
<1>4. PICK r : r = [reader EXCEPT !.smooth = FALSE] /\ reader' = r BY DEF LoadFails
<1>5. /\ r \in OpenPages /\ r.owed = reader.owed /\ r.filter = reader.filter
      /\ r.limit = reader.limit /\ r.shown = reader.shown /\ r.depth = reader.depth
      /\ r.last = reader.last /\ r.smooth = FALSE
    BY <1>3, <1>4 DEF OpenPages
<1>6. Deeper(reader, {}, reader.depth) /\ (reader.last => Waiting(reader) = {})
    BY <1>2 DEF PageIInv, ReaderOK
<1>7. Waiting(r) \subseteq Waiting(reader) /\ Deeper(r, {}, r.depth)
    BY <1>5, <1>6, ReadingGoesOn
<1>8. r.last => Waiting(r) = {} BY <1>5, <1>6, <1>7
<1> QED BY <1>1, <1>4, <1>5, <1>7, <1>8, LoadEnds

(* What is shown of this reading is waited for no longer.                  *)
LEMMA LoadShowsStep ==
    ASSUME PageIInv, NEW l \in Loads, LoadShows(l)
    PROVE  PageIInv'
<1>1. PICK load : load = loads[l] OBVIOUS
<1>2. /\ load.pc = "answer" /\ loads' = [loads EXCEPT ![l] = Idle]
      /\ reader' = [Seen(load) EXCEPT !.next = Cardinality(load.page) >= reader.limit,
                                      !.previous = reader.offset > 0]
      /\ UNCHANGED tableVars
    BY <1>1 DEF LoadShows
<1>3. LoadOK(reader, load) /\ reader.pc = "open"
    BY <1>1, <1>2 DEF PageIInv, LoadOK
<1>4. PageTypeOK /\ ReaderOK(reader, loads) BY DEF PageIInv
<1>5. /\ reader \in OpenPages /\ reader.offset \in Nat /\ reader.limit \in Nat
      /\ reader.depth \in Nat
    BY <1>3, <1>4, ReaderFields
<1>6. /\ load.limit \in Nat /\ load.offset \in Nat /\ load.current \in BOOLEAN
      /\ load.page \subseteq 1..MaxRows /\ load.joins \in BOOLEAN
      /\ Cardinality(load.page) \in Nat
    BY <1>1, <1>2, <1>4, LoadFields
<1>7. PICK next \in BOOLEAN, previous \in BOOLEAN :
          next = (Cardinality(load.page) >= reader.limit) /\ previous = (reader.offset > 0)
    <2>1. (Cardinality(load.page) >= reader.limit) \in BOOLEAN /\ (reader.offset > 0) \in BOOLEAN
        BY <1>5, <1>6
    <2> QED BY <2>1, Zenon
<1>8. Deeper(reader, {}, reader.depth) /\ (reader.last => Waiting(reader) = {})
    BY <1>3, <1>4 DEF ReaderOK
<1>9. reader.smooth => /\ reader.offset =< reader.depth /\ load.current /\ load.joins
                       /\ load.offset = reader.offset
    BY <1>1, <1>2, <1>3, <1>4 DEF ReaderOK, SmoothOK
<1>10. CASE ~load.current
    <2>1. PICK r : /\ r = [reader EXCEPT !.next = next, !.previous = previous]
                   /\ reader' = r
        BY <1>2, <1>7, <1>10 DEF Seen
    <2>2. /\ r \in OpenPages /\ r.owed = reader.owed /\ r.filter = reader.filter
          /\ r.limit = reader.limit /\ r.shown = reader.shown /\ r.depth = reader.depth
          /\ r.last = reader.last /\ r.smooth = reader.smooth
        BY <1>5, <2>1 DEF OpenPages
    <2>3. Waiting(r) \subseteq Waiting(reader) /\ Deeper(r, {}, r.depth)
        BY <1>8, <2>2, ReadingGoesOn
    <2>4. r.last => Waiting(r) = {} BY <1>8, <2>2, <2>3
    <2>5. ~r.smooth BY <1>9, <1>10, <2>2
    <2> QED BY <1>1, <1>2, <2>1, <2>2, <2>3, <2>4, <2>5, LoadEnds
<1>11. CASE load.current
    <2>1. PICK last \in BOOLEAN, depth \in Nat :
              /\ last = (reader.last \/ (load.joins /\ Cardinality(load.page) < load.limit))
              /\ depth = IF load.joins /\ reader.depth < load.offset + load.limit
                         THEN load.offset + load.limit ELSE reader.depth
        <3>1. reader.last \in BOOLEAN BY <1>5 DEF OpenPages
        <3> QED BY <1>5, <1>6, <3>1
    <2>2. PICK r : /\ r = [reader EXCEPT !.shown = reader.shown \cup (load.page \cap reader.owed),
                                         !.last = last, !.depth = depth,
                                         !.next = next, !.previous = previous]
                   /\ reader' = r
        BY <1>2, <1>7, <1>11, <2>1 DEF Seen
    <2>3. /\ r \in OpenPages /\ r.owed = reader.owed /\ r.filter = reader.filter
          /\ r.limit = reader.limit /\ r.offset = reader.offset
          /\ r.shown = reader.shown \cup (load.page \cap reader.owed)
          /\ r.depth = depth /\ r.last = last /\ r.next = next /\ r.smooth = reader.smooth
        BY <1>5, <1>6, <2>2 DEF OpenPages
    <2>4. load.limit = reader.limit /\ (load.joins => Joined(reader, load))
        BY <1>2, <1>3, <1>11 DEF LoadOK
    <2>5. Waiting(r) \subseteq Waiting(reader) \ load.page
        BY <2>3 DEF Waiting
    <2>6. Deeper(r, {}, r.depth)
        <3>1. CASE depth = reader.depth BY <1>8, <2>3, <2>5, <3>1 DEF Deeper
        <3>2. CASE load.joins /\ depth = load.offset + load.limit
            BY <2>3, <2>4, <2>5, <3>2 DEF Joined, Deeper
        <3> QED BY <2>1, <3>1, <3>2
    <2>7. r.last => Waiting(r) = {}
        BY <1>8, <2>1, <2>3, <2>4, <2>5 DEF Joined
    <2>8. ASSUME r.smooth
          PROVE  /\ reader.smooth
                 /\ r.offset =< r.depth /\ r.depth >= r.offset + r.limit
                 /\ r.next \/ r.last
        <3>1. load.joins /\ load.offset = reader.offset BY <1>9, <2>3, <2>8
        <3>2. depth >= reader.offset + reader.limit BY <1>5, <1>6, <2>1, <2>4, <3>1
        <3>3. next \/ last
            <4>1. next <=> Cardinality(load.page) >= reader.limit BY <1>5, <1>6, <1>7
            <4>2. Cardinality(load.page) < load.limit => last BY <2>1, <3>1
            <4> QED BY <1>5, <1>6, <2>4, <4>1, <4>2
        <3>4. r.offset =< r.depth /\ r.depth >= r.offset + r.limit
            BY <1>5, <2>1, <2>3, <3>2
        <3>5. r.next \/ r.last BY <2>3, <3>3
        <3> QED BY <2>3, <2>8, <3>4, <3>5
    <2> QED BY <1>1, <1>2, <2>2, <2>3, <2>6, <2>7, <2>8, LoadEnds
<1> QED BY <1>6, <1>10, <1>11

-----------------------------------------------------------------------------
LEMMA InitPage == PageInit => PageIInv
<1> SUFFICES ASSUME PageInit PROVE PageIInv
    OBVIOUS
<1>1. TableTypeOK BY LogTableAssumption DEF PageInit, TableInit, TableTypeOK, Times
<1>2. PageTypeOK BY <1>1 DEF PageInit, PageTypeOK, Reader, Load
<1>3. ReaderOK(reader, loads) BY DEF PageInit, ReaderOK, Idle
<1>4. \A l \in Loads : LoadOK(reader, loads[l]) BY DEF PageInit, LoadOK, Idle
<1> QED BY <1>2, <1>3, <1>4 DEF PageIInv

(* What is true of a reading and of the loads under way, whatever happens  *)
(* to the table, whichever loads fail, and in whatever order their answers *)
(* are shown (logs.js, ListRequestLogs).                                   *)
THEOREM PageInvariant == PageSpec => []PageIInv
<1>1. PageIInv /\ [PageNext]_pageVars => PageIInv'
    <2> SUFFICES ASSUME PageIInv, [PageNext]_pageVars PROVE PageIInv'
        OBVIOUS
    <2>1. CASE Read
        BY <2>1, ReaderOpensStep, ReaderSubmitsStep, ReaderTurnsStep, ReaderLeavesStep,
           LoadReadsStep, LoadShowsStep, LoadFailsStep DEF Read
    <2>2. CASE TableNext /\ UNCHANGED <<reader, loads>> BY <2>2, RowsStep
    <2>3. CASE UNCHANGED pageVars BY <2>3, RowsStep DEF pageVars, tableVars
    <2> QED BY <2>1, <2>2, <2>3 DEF PageNext
<1> QED BY <1>1, InitPage, PTL DEF PageSpec

(* A row that was owed in the beginning, still is in the window and was on *)
(* no page shown lies deeper than the pages go without a gap; and if no    *)
(* load failed and nothing was clicked during another, it is on a page     *)
(* still to come.  This is so for any page sizes, any number of rows and   *)
(* of loads at once, and whatever is inserted, deleted or cleaned up       *)
(* between two pages (ListRequestLogs, logs.js).                           *)
THEOREM PagingIsComplete == PageSpec => []PagingSkipsNothing
<1>1. PageIInv => PagingSkipsNothing
    <2> SUFFICES ASSUME PageIInv, reader.pc = "open",
                        NEW id \in reader.owed \cap Listed(Cutoff, reader.filter),
                        id \notin reader.shown
                 PROVE  LET position == Position(Cutoff, reader.filter, id)
                        IN  /\ ~reader.last /\ position >= reader.depth
                            /\ reader.smooth /\ Quiet =>
                                   reader.next /\ position >= reader.offset + reader.limit
        BY DEF PagingSkipsNothing
    <2>1. id \in Waiting(reader) /\ ReaderOK(reader, loads) /\ TableTypeOK
        BY DEF Waiting, PageIInv, PageTypeOK
    <2>2. ~reader.last /\ Cardinality(Depth(id, reader.filter)) >= reader.depth
        BY <2>1 DEF ReaderOK, Deeper
    <2>3. Position(Cutoff, reader.filter, id) = Cardinality(Depth(id, reader.filter))
        BY <2>1, RowsOfLog, PositionIsDepth
    <2>4. ASSUME reader.smooth, Quiet
          PROVE  reader.next /\ reader.depth >= reader.offset + reader.limit
        BY <2>1, <2>2, <2>4 DEF ReaderOK, SmoothOK, Quiet
    <2>5. /\ reader.depth \in Nat /\ reader.offset \in Nat /\ reader.limit \in Nat
          /\ Cardinality(Depth(id, reader.filter)) \in Nat
        BY <2>1, ReaderFields, DepthIsNatural DEF PageIInv
    <2> QED BY <2>2, <2>3, <2>4, <2>5
<1> QED BY <1>1, PageInvariant, PTL
=============================================================================
