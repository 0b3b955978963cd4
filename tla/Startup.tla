------------------------------ MODULE Startup -------------------------------
(***************************************************************************)
(* Starting the program on a database file: app.New with store.Open and    *)
(* store.Migrate, under a supervisor that starts it again whenever it ends *)
(* (docker-compose.yml, restart: unless-stopped).                          *)
(*                                                                         *)
(* The schema is a script of statements that commit one by one.  Whether   *)
(* the environment's settings are written is decided before all that, by   *)
(* looking whether the file exists.                                        *)
(***************************************************************************)
EXTENDS Integers, Sequences, Functions

CONSTANTS
    AuthModes,   \* spellings of UPSTREAM_AUTH_MODE that the environment may have
    MaxStops     \* bound: how often the process is killed

(* config.Load accepts a name in any case, and keeps it as it is spelled.  *)
LoadAccepts == {"lowerCase", "otherCase"}

(* The column has a CHECK for the lower-case names.                        *)
ColumnAccepts == {"lowerCase"}

ASSUME StartupAssumption ==
    /\ AuthModes \subseteq LoadAccepts /\ AuthModes # {}
    /\ MaxStops \in Nat

VARIABLES
    exists,    \* there is a database file
    applied,   \* statements of the schema that have taken effect
    row,       \* where the settings in the row of app_config come from
    proc,      \* the process
    mode,      \* the environment's UPSTREAM_AUTH_MODE
    stops      \* how often the process was killed

vars == <<exists, applied, row, proc, mode, stops>>

(* schema.sql, every CREATE ... IF NOT EXISTS and the INSERT of the row.   *)
Script == << "app_config", "default row", "upstream_keys", "priority index",
             "model_redirects", "request_logs", "log index 1", "log index 2",
             "log index 3" >>

NoRow == "no row"

Down == [pc |-> "down"]

(* fresh: newDatabase; next: the statement of the script to run next       *)
Process ==
    {Down}
        \cup [pc : {"open", "seed", "serving"}, fresh : BOOLEAN]
        \cup [pc : {"migrate"}, fresh : BOOLEAN, next : 1..(Len(Script) + 1)]

(* Types; a start runs every statement of the script from the first on.    *)
TypeOK ==
    /\ exists \in BOOLEAN
    /\ applied \subseteq Range(Script)
    /\ row \in {NoRow, "defaults", "environment", "admin"}
    /\ proc \in Process
    /\ mode \in AuthModes
    /\ stops \in 0..MaxStops

Init ==
    /\ exists = FALSE
    /\ applied = {}
    /\ row = NoRow
    /\ proc = Down
    /\ mode \in AuthModes
    /\ stops = 0

-----------------------------------------------------------------------------
(* Faulty: decided by whether the settings were edited. *)
FaultyNewDatabase == row # "admin"

NewDatabase == ~ exists

Start ==
    /\ proc.pc = "down"
    /\ proc' = [pc |-> "open", fresh |-> NewDatabase]
    /\ UNCHANGED <<exists, applied, row, mode, stops>>

(* Faulty: counts the statements from 0; migrates only a new database. *)
FaultyOpen ==
    /\ proc.pc = "open"
    /\ exists' = TRUE
    /\ proc' = [pc |-> "migrate", fresh |-> proc.fresh, next |-> 0]
    /\ UNCHANGED <<applied, row, mode, stops>>
FaultyOpenTrusting ==
    /\ proc.pc = "open"
    /\ exists' = TRUE
    /\ proc' = IF proc.fresh THEN [pc |-> "migrate", fresh |-> TRUE, next |-> 1]
               ELSE [pc |-> "serving", fresh |-> FALSE]
    /\ UNCHANGED <<applied, row, mode, stops>>

(* The first pragma creates the file.                                      *)
Open ==
    /\ proc.pc = "open"
    /\ exists' = TRUE
    /\ proc' = [pc |-> "migrate", fresh |-> proc.fresh, next |-> 1]
    /\ UNCHANGED <<applied, row, mode, stops>>

(* Faulty: INSERT OR REPLACE. *)
FaultyDefaultRow == "defaults"

(* INSERT ... WHERE NOT EXISTS.                                            *)
DefaultRow == IF row = NoRow THEN "defaults" ELSE row

MigrateStatement ==
    /\ proc.pc = "migrate"
    /\ proc.next \in DOMAIN Script
    /\ applied' = applied \cup {Script[proc.next]}
    /\ row' = IF Script[proc.next] = "default row" THEN DefaultRow ELSE row
    /\ proc' = [proc EXCEPT !.next = @ + 1]
    /\ UNCHANGED <<exists, mode, stops>>

MigrateDone ==
    /\ proc.pc = "migrate"
    /\ proc.next > Len(Script)
    /\ proc' = [pc |-> IF proc.fresh THEN "seed" ELSE "serving", fresh |-> proc.fresh]
    /\ UNCHANGED <<exists, applied, row, mode, stops>>

Seed ==
    /\ proc.pc = "seed"
    /\ mode \in ColumnAccepts
    /\ row' = "environment"
    /\ proc' = [proc EXCEPT !.pc = "serving"]
    /\ UNCHANGED <<exists, applied, mode, stops>>

(* "seed runtime defaults": the CHECK fails and the program ends.          *)
SeedRejected ==
    /\ proc.pc = "seed"
    /\ mode \notin ColumnAccepts
    /\ proc' = Down
    /\ UNCHANGED <<exists, applied, row, mode, stops>>

(* PUT /admin/api/config.                                                  *)
AdminUpdate ==
    /\ proc.pc = "serving"
    /\ row' = "admin"
    /\ UNCHANGED <<exists, applied, proc, mode, stops>>

(* A signal, a crash, or any error while starting; what is committed stays.*)
Stop ==
    /\ proc.pc # "down"
    /\ stops < MaxStops
    /\ stops' = stops + 1
    /\ proc' = Down
    /\ UNCHANGED <<exists, applied, row, mode>>

Progress ==
    \/ Start \/ Open \/ MigrateStatement \/ MigrateDone \/ Seed \/ SeedRejected

Next == Progress \/ AdminUpdate \/ Stop

Spec == Init /\ [][Next]_vars

-----------------------------------------------------------------------------
(* However often a start was cut short before, what serves requests has    *)
(* every table and index and the one row of settings (Migrate).            *)
ServesWholeSchema ==
    proc.pc \in {"seed", "serving"} => applied = Range(Script) /\ row # NoRow

(* Settings saved by the administrator are never replaced by a later start *)
(* (README: the environment's settings are for a new database).            *)
EditsSurviveRestarts == [][row = "admin" => row' = "admin"]_vars

(* What the README says of the environment's settings, which the code does *)
(* not keep: a database that serves has them, unless edited since.  The    *)
(* file exists from Open on, so a start that ends between Open and the     *)
(* seeding leaves the schema's defaults in place for good.                 *)
EnvironmentReachesDatabase == proc.pc = "serving" => row # "defaults"
=============================================================================
