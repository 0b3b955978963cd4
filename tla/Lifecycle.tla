----------------------------- MODULE Lifecycle ------------------------------
(***************************************************************************)
(* Running and stopping: App.Run with its two listeners, the requests they *)
(* serve, and the database that is closed at the end.                      *)
(*                                                                         *)
(* A signal or the failure of a listener begins the shutdown.  The two     *)
(* servers are shut down one after the other under one deadline: each      *)
(* stops accepting and then waits for its requests.  No request has a      *)
(* deadline of its own: the upstream may keep the body open for ever.      *)
(***************************************************************************)
EXTENDS Integers

CONSTANTS
    Handlers,    \* requests that may be active at the same time
    Grace        \* the ten seconds of the shutdown, in ticks

VARIABLES
    listener,    \* of each server
    pending,     \* errors in errCh, which has room for both
    signalled,   \* SIGTERM or an interrupt has come: ctx is done
    main,        \* where App.Run is
    grace,       \* what is left of the deadline; Grace until it is set
    db,          \* the database handle
    req          \* requests

Servers == {"public", "admin"}

(***************************************************************************)
(* Program points of App.Run.                                              *)
(*   select             waits for the signal or an error                   *)
(*   shut, drain        in Shutdown of a server: before and after its      *)
(*                      listener is closed                                 *)
(*   close              about to close the database                        *)
(*   exited             the process has ended                              *)
(***************************************************************************)
At(pc, server) == [pc |-> pc, server |-> server]

Select == [pc |-> "select"]

Exited == [pc |-> "exited"]

Main == {Select, [pc |-> "close"], Exited} \cup [pc : {"shut", "drain"}, server : Servers]

(***************************************************************************)
(* A request is being worked on, upstream or otherwise, or is about to run *)
(* the statements that store its outcome.                                  *)
(***************************************************************************)
Idle == [pc |-> "idle"]

Request == {Idle} \cup [pc : {"working", "storing"}, server : Servers]

TypeOK ==
    /\ listener \in [Servers -> {"starting", "accepting", "failed", "closed"}]
    /\ pending \in 0..2
    /\ signalled \in BOOLEAN
    /\ main \in Main
    /\ grace \in 0..Grace
    /\ db \in {"open", "closed"}
    /\ req \in [Handlers -> Request]

Init ==
    /\ listener = [s \in Servers |-> "starting"]
    /\ pending = 0
    /\ signalled = FALSE
    /\ main = Select
    /\ grace = Grace
    /\ db = "open"
    /\ req = [h \in Handlers |-> Idle]

Running == main # Exited

ActiveOn(s) == {h \in Handlers : req[h].pc # "idle" /\ req[h].server = s}

-----------------------------------------------------------------------------
(***************************************************************************)
(* Listeners and requests.                                                 *)
(***************************************************************************)
UnchangedMain == UNCHANGED <<signalled, main, grace, db>>

Listen(s) ==
    /\ Running /\ listener[s] = "starting"
    /\ listener' = [listener EXCEPT ![s] = "accepting"]
    /\ UNCHANGED <<pending, req>> /\ UnchangedMain

(* Faulty: the error is only logged. *)
FaultyReport == UNCHANGED pending

(* errCh <- err does not block. *)
Report == pending' = pending + 1

(* The address is in use, or Accept fails.  Requests go on.                *)
ListenerFails(s) ==
    /\ Running /\ listener[s] \in {"starting", "accepting"}
    /\ listener' = [listener EXCEPT ![s] = "failed"]
    /\ Report
    /\ UNCHANGED req /\ UnchangedMain

Arrive(h, s) ==
    /\ Running /\ listener[s] = "accepting" /\ req[h] = Idle
    /\ req' = [req EXCEPT ![h] = At("working", s)]
    /\ UNCHANGED <<listener, pending>> /\ UnchangedMain

(* The upstream has answered, or whatever the request waits for.           *)
Worked(h) ==
    /\ Running /\ req[h].pc = "working"
    /\ req' = [req EXCEPT ![h].pc = "storing"]
    /\ UNCHANGED <<listener, pending>> /\ UnchangedMain

(* The statements run, or fail because the handle is closed; both ways the *)
(* request is over.                                                        *)
Stored(h) ==
    /\ Running /\ req[h].pc = "storing"
    /\ req' = [req EXCEPT ![h] = Idle]
    /\ UNCHANGED <<listener, pending>> /\ UnchangedMain

Signal ==
    /\ Running /\ ~signalled
    /\ signalled' = TRUE
    /\ UNCHANGED <<listener, pending, main, grace, db, req>>

-----------------------------------------------------------------------------
(***************************************************************************)
(* App.Run.                                                                *)
(***************************************************************************)

First == At("shut", "public")

StopsFor ==
    \/ signalled /\ UNCHANGED pending
    \/ pending > 0 /\ pending' = pending - 1

BeginShutdown ==
    /\ main = Select
    /\ StopsFor
    /\ main' = First
    /\ UNCHANGED <<listener, signalled, grace, db, req>>

(* Shutdown closes the listener; one that has not started will not.        *)
Shut(s) ==
    /\ main = At("shut", s)
    /\ listener' = [listener EXCEPT ![s] = IF @ = "failed" THEN "failed" ELSE "closed"]
    /\ main' = At("drain", s)
    /\ UNCHANGED <<pending, signalled, grace, db, req>>

(* Shutdown returns when its server is idle or the deadline has passed.    *)
MayReturn(s) == ActiveOn(s) = {} \/ grace = 0

(* Faulty: only the public server is shut down. *)
FaultyNextStop(s) == [pc |-> "close"]

NextStop(s) == IF s = "public" THEN At("shut", "admin") ELSE [pc |-> "close"]

Drained(s) ==
    /\ main = At("drain", s)
    /\ MayReturn(s)
    /\ main' = NextStop(s)
    /\ UNCHANGED <<listener, pending, signalled, grace, db, req>>

(* repo.Close, after which Run is about to return.                         *)
Close ==
    /\ main.pc = "close" /\ db = "open"
    /\ db' = "closed"
    /\ UNCHANGED <<listener, pending, signalled, main, grace, req>>

(* Every goroutine ends where it is.                                       *)
Die ==
    /\ main' = Exited
    /\ listener' = [s \in Servers |-> "closed"]
    /\ req' = [h \in Handlers |-> Idle]
    /\ UNCHANGED <<pending, signalled, grace, db>>

(* main returns.                                                           *)
Exit ==
    /\ main.pc = "close" /\ db = "closed"
    /\ Die

Tick ==
    /\ main.pc \in {"shut", "drain", "close"} /\ grace > 0
    /\ grace' = grace - 1
    /\ UNCHANGED <<listener, pending, signalled, main, db, req>>

MainStep == BeginShutdown \/ (\E s \in Servers : Shut(s) \/ Drained(s)) \/ Close

(* What listeners, clients and whoever sends the signal do.                *)
Outside ==
    \/ \E s \in Servers : Listen(s) \/ ListenerFails(s)
    \/ \E h \in Handlers : (\E s \in Servers : Arrive(h, s)) \/ Worked(h) \/ Stored(h)
    \/ Signal

-----------------------------------------------------------------------------
(***************************************************************************)
(* Properties of a process that runs; Service states them of every one.    *)
(***************************************************************************)

(* The database is closed under a request only when the deadline has       *)
(* passed, also under one that came to the admin server while the public   *)
(* one was waiting for its own; and by then neither server accepts         *)
(* requests, nor will a listener that had not started yet (the order of    *)
(* the two Shutdown calls and Close).                                      *)
DatabaseClosesLast ==
    db = "closed" =>
        /\ (\E h \in Handlers : req[h] # Idle) => grace = 0
        /\ \A s \in Servers : listener[s] \notin {"starting", "accepting"}

(* A signal ends the process although requests may hang for ever, and so   *)
(* does the failure of either listener: the other does not serve on alone  *)
(* (the deadline of Shutdown, errCh).                                      *)
ShutdownEnds ==
    /\ signalled ~> main = Exited
    /\ \A s \in Servers : listener[s] = "failed" ~> main = Exited
=============================================================================
