------------------------------ MODULE LogPage ------------------------------
(***************************************************************************)
(* The log page of the administration, logs.js, and the listing it reads:  *)
(* an administrator pages through the log while requests, the cleanup and  *)
(* the deletion of keys change its rows (LogTable).                        *)
(*                                                                         *)
(* The page does not wait: a click moves the offset and starts a load, any *)
(* number of loads may be under way, their answers are shown in the order  *)
(* they arrive in, and a load that fails leaves everything else as it is.  *)
(***************************************************************************)
EXTENDS LogTable

CONSTANTS
    Loads,       \* bound: loads that may be under way at once
    Filters,     \* results the page is asked for
    Limits       \* page sizes the page offers; the server serves any of them

ASSUME LogPageAssumption ==
    /\ Filters \subseteq {"all", "success", "failure"}
    /\ Limits \subseteq Nat \ {0}

VARIABLES
    reader,    \* the page
    loads      \* the loads under way

pageVars == <<now, logs, lastId, reader, loads>>

(***************************************************************************)
(* The log page, logs.js: what it asks for (state), and whether its two    *)
(* buttons are enabled.  History of a reading, which begins when the page  *)
(* is opened or its form submitted:                                        *)
(*   owed     the rows that a first page with no limit would have shown    *)
(*   shown    those of them that were on a page shown since                *)
(*   depth    the pages shown leave no gap from the top to this position   *)
(*   last     one of these had no next page                                *)
(*   smooth   no load failed, and nothing was clicked during another load  *)
(***************************************************************************)
OpenPages ==
    [pc : {"open"}, filter : Filters, limit : Limits, offset : Nat,
     next : BOOLEAN, previous : BOOLEAN,
     owed : SUBSET (1..MaxRows), shown : SUBSET (1..MaxRows),
     depth : Nat, last : BOOLEAN, smooth : BOOLEAN]

Reader == {Idle} \cup OpenPages

(***************************************************************************)
(* A load, that is a call of loadLogs and the request it makes: asked at a *)
(* time, answered.  current: it belongs to this reading.  History of an    *)
(* answer: joins, there is no gap above this page.                         *)
(***************************************************************************)
AskedLoads ==
    [pc : {"asked"}, filter : Filters, limit : Limits, offset : Nat,
     at : Times, current : BOOLEAN]

AnsweredLoads ==
    [pc : {"answer"}, limit : Limits, offset : Nat, current : BOOLEAN,
     page : SUBSET (1..MaxRows), joins : BOOLEAN]

Load == {Idle} \cup AskedLoads \cup AnsweredLoads

PageTypeOK ==
    /\ TableTypeOK
    /\ reader \in Reader
    /\ loads \in [Loads -> Load]

PageInit ==
    /\ TableInit
    /\ reader = Idle
    /\ loads = [l \in Loads |-> Idle]

-----------------------------------------------------------------------------
(***************************************************************************)
(* ListRequestLogs.                                                        *)
(***************************************************************************)
Matches(row, filter) ==
    \/ filter = "all"
    \/ filter = "success" /\ row.success
    \/ filter = "failure" /\ ~row.success

(* Faulty: the newest row is the one that was inserted last. *)
FaultyNewer(i, j) == i > j

(* ORDER BY request_ts DESC, id DESC. *)
Newer(i, j) == logs[i].ts > logs[j].ts \/ (logs[i].ts = logs[j].ts /\ i > j)

Listed(since, filter) ==
    {id \in DOMAIN logs : logs[id].ts >= since /\ Matches(logs[id], filter)}

(* How many rows the listing has before this one.                          *)
Position(since, filter, id) ==
    Cardinality({i \in Listed(since, filter) : Newer(i, id)})

(* LIMIT ? OFFSET ?                                                        *)
Page(since, filter, limit, offset) ==
    {id \in Listed(since, filter) :
        /\ Position(since, filter, id) >= offset
        /\ Position(since, filter, id) < offset + limit}

-----------------------------------------------------------------------------
(***************************************************************************)
(* The page.                                                               *)
(***************************************************************************)
Quiet == \A l \in Loads : loads[l].pc = "idle"

Asked(filter, limit, offset) ==
    [pc |-> "asked", filter |-> filter, limit |-> limit, offset |-> offset,
     at |-> now, current |-> TRUE]

(* The page is opened: both buttons are enabled until something is shown.  *)
ReaderOpens(l) ==
    /\ reader.pc = "idle" /\ loads[l].pc = "idle"
    /\ \E filter \in Filters, limit \in Limits :
           /\ reader' = [pc |-> "open", filter |-> filter, limit |-> limit, offset |-> 0,
                         next |-> TRUE, previous |-> TRUE,
                         owed |-> Listed(Cutoff, filter), shown |-> {},
                         depth |-> 0, last |-> FALSE, smooth |-> TRUE]
           /\ loads' = [loads EXCEPT ![l] = Asked(filter, limit, 0)]
    /\ UNCHANGED tableVars

Stale(load) == IF load.pc = "idle" THEN load ELSE [load EXCEPT !.current = FALSE]

(* The form is submitted: a new reading, and the answers to the old one    *)
(* will still be shown.                                                    *)
ReaderSubmits(l) ==
    /\ reader.pc = "open" /\ loads[l].pc = "idle"
    /\ \E filter \in Filters, limit \in Limits :
           /\ reader' = [reader EXCEPT !.filter = filter, !.limit = limit, !.offset = 0,
                         !.owed = Listed(Cutoff, filter), !.shown = {},
                         !.depth = 0, !.last = FALSE, !.smooth = Quiet]
           /\ loads' = [m \in Loads |->
                           IF m = l THEN Asked(filter, limit, 0) ELSE Stale(loads[m])]
    /\ UNCHANGED tableVars

(* A button: the offset moves first, and nothing moves it back.            *)
Turn(l, offset) ==
    /\ loads[l].pc = "idle"
    /\ reader' = [reader EXCEPT !.offset = offset, !.smooth = @ /\ Quiet]
    /\ loads' = [loads EXCEPT ![l] = Asked(reader.filter, reader.limit, offset)]
    /\ UNCHANGED tableVars

(* MaxRows bounds the offset, too: there is no row any further.            *)
ReaderNext(l) ==
    /\ reader.pc = "open" /\ reader.next
    /\ reader.offset + reader.limit =< MaxRows
    /\ Turn(l, reader.offset + reader.limit)

ReaderPrevious(l) ==
    /\ reader.pc = "open" /\ reader.previous
    /\ Turn(l, IF reader.offset > reader.limit THEN reader.offset - reader.limit ELSE 0)

ReaderLeaves ==
    /\ reader.pc = "open"
    /\ reader' = Idle
    /\ loads' = [l \in Loads |-> Idle]
    /\ UNCHANGED tableVars

(* handleLogs, which computes since at some time after the page asked, and *)
(* then ListRequestLogs.                                                   *)
LoadReads(l) ==
    LET load == loads[l]
    IN  /\ load.pc = "asked"
        /\ \E time \in load.at..now :
               loads' = [loads EXCEPT ![l] =
                  [pc |-> "answer", limit |-> load.limit, offset |-> load.offset,
                   current |-> load.current,
                   page |-> Page(time - Window, load.filter, load.limit, load.offset),
                   joins |-> load.offset =< reader.depth]]
        /\ UNCHANGED reader /\ UNCHANGED tableVars

(* What a reading has seen once this answer is shown.                      *)
Seen(load) ==
    IF ~load.current THEN reader
    ELSE [reader EXCEPT
            !.shown = @ \cup (load.page \cap reader.owed),
            !.last = @ \/ (load.joins /\ Cardinality(load.page) < load.limit),
            !.depth = IF load.joins /\ @ < load.offset + load.limit
                      THEN load.offset + load.limit ELSE @]

(* render: the buttons follow the rows of this answer and what the page    *)
(* asks for by now.                                                        *)
LoadShows(l) ==
    LET load == loads[l]
    IN  /\ load.pc = "answer"
        /\ reader' = [Seen(load) EXCEPT !.next = Cardinality(load.page) >= reader.limit,
                                        !.previous = reader.offset > 0]
        /\ loads' = [loads EXCEPT ![l] = Idle]
        /\ UNCHANGED tableVars

(* The call fails, before or after the statement: only a message is shown. *)
LoadFails(l) ==
    /\ loads[l].pc # "idle"
    /\ reader' = [reader EXCEPT !.smooth = FALSE]
    /\ loads' = [loads EXCEPT ![l] = Idle]
    /\ UNCHANGED tableVars

Read ==
    \/ ReaderLeaves
    \/ \E l \in Loads :
           \/ ReaderOpens(l) \/ ReaderSubmits(l) \/ ReaderNext(l) \/ ReaderPrevious(l)
           \/ LoadReads(l) \/ LoadShows(l) \/ LoadFails(l)

PageNext == Read \/ (TableNext /\ UNCHANGED <<reader, loads>>)

PageSpec == PageInit /\ [][PageNext]_pageVars

-----------------------------------------------------------------------------
(* A row that was there when a reading began and still is in the window,   *)
(* whatever is inserted, removed or expires meanwhile, is never lost       *)
(* between two pages.  Whichever loads fail, and in whatever order their   *)
(* answers are shown: if it was on no page shown, it lies deeper than the  *)
(* pages go without a gap, and none of them was the last.  A page can be   *)
(* skipped, because "next" moves the offset before the load that may fail, *)
(* and can be clicked during another; but if neither happened, the button  *)
(* is enabled and the row is on a page still to come (ListRequestLogs with *)
(* LIMIT and OFFSET, logs.js).                                             *)
PagingSkipsNothing ==
    reader.pc = "open" =>
        \A id \in reader.owed \cap Listed(Cutoff, reader.filter) :
            LET position == Position(Cutoff, reader.filter, id)
            IN  \/ id \in reader.shown
                \/ /\ ~reader.last /\ position >= reader.depth
                   /\ reader.smooth /\ Quiet =>
                          reader.next /\ position >= reader.offset + reader.limit
=============================================================================
