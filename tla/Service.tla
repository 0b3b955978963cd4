------------------------------ MODULE Service -------------------------------
(***************************************************************************)
(* The whole life of the program on one database file: main calls app.New  *)
(* (Startup) and then App.Run (Lifecycle), the process ends, and its       *)
(* supervisor starts the next one on what the last one left in the file.   *)
(* A kill may end it at any point of either.                               *)
(***************************************************************************)
EXTENDS Startup

CONSTANTS
    Handlers,    \* requests that may be active at the same time
    Grace        \* the ten seconds of the shutdown, in ticks

ASSUME ServiceAssumption == Grace \in Nat \ {0}

VARIABLES listener, pending, signalled, main, grace, db, req

file == <<exists, applied, row, proc, mode, stops>>

process == <<listener, pending, signalled, main, grace, db, req>>

all == <<file, process>>

Life == INSTANCE Lifecycle

(* Types of both parts; nothing of App.Run has happened to a process that  *)
(* is still in app.New.                                                    *)
ServiceTypeOK ==
    /\ TypeOK
    /\ Life!TypeOK
    /\ proc.pc \in {"open", "migrate", "seed"} => main = Life!Select /\ db = "open"

ServiceInit == Init /\ Life!Init

-----------------------------------------------------------------------------
(* The variables of a new process, which no earlier one shares.            *)
Fresh ==
    /\ listener' = [s \in Life!Servers |-> "starting"]
    /\ pending' = 0
    /\ signalled' = FALSE
    /\ main' = Life!Select
    /\ grace' = Grace
    /\ db' = "open"
    /\ req' = [h \in Handlers |-> Life!Idle]

NewProcess == Start /\ Fresh

(* app.New step by step; log.Fatalf ends a start that fails.               *)
Boot ==
    \/ (Open \/ MigrateStatement \/ MigrateDone \/ Seed) /\ UNCHANGED process
    \/ SeedRejected /\ Life!Die

Serving == proc.pc = "serving"

MainReturns ==
    /\ Serving
    /\ Life!Exit
    /\ proc' = Down
    /\ UNCHANGED <<exists, applied, row, mode, stops>>

(* PUT /admin/api/config, served by either listener: the statement of a    *)
(* request that finds the database open.                                   *)
StoreSettings(h) ==
    /\ db = "open"
    /\ Life!Stored(h)
    /\ AdminUpdate

Run == Serving /\ Life!MainStep /\ UNCHANGED file

Clock == Serving /\ Life!Tick /\ UNCHANGED file

Kill == Stop /\ Life!Die

ServiceNext ==
    \/ NewProcess
    \/ Boot
    \/ Run \/ MainReturns
    \/ Clock
    \/ Serving /\ Life!Outside /\ UNCHANGED file
    \/ \E h \in Handlers : StoreSettings(h)
    \/ Kill

(***************************************************************************)
(* The supervisor starts the program whenever it is down, the main         *)
(* goroutine runs, and the clock advances.  No client, upstream or         *)
(* listener owes a step.                                                   *)
(***************************************************************************)
ServiceSpec ==
    /\ ServiceInit /\ [][ServiceNext]_all
    /\ WF_all(NewProcess) /\ WF_all(Boot)
    /\ WF_all(Run) /\ WF_all(MainReturns)
    /\ WF_all(Clock)

-----------------------------------------------------------------------------
(* Of every process there ever is (App.Run).                               *)
DatabaseClosesLast == Life!DatabaseClosesLast

ShutdownEnds == Life!ShutdownEnds

(* Whatever ends it - kills in the middle of a start, settings that the    *)
(* database rejects, signals, listeners that fail - the program gets to    *)
(* serving again, on the file as it is by then (New, Run).                 *)
ServesAgain == []<>Serving
=============================================================================
