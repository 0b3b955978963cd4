--------------------------- MODULE ServiceProofs ----------------------------
(***************************************************************************)
(* Service for any number of requests, kills and restarts and any grace:   *)
(* what serves has the whole schema, no start overwrites what the          *)
(* administrator saved, and the database is closed last.                   *)
(*                                                                         *)
(* The inductive invariant has a part for each half of a process's life:   *)
(* Booted says how far app.New has come with the file, Stopping how far    *)
(* App.Run has come with the shutdown.                                     *)
(***************************************************************************)
EXTENDS Service, TLAPS

Booted ==
    /\ ~ exists => row = NoRow /\ proc.pc \in {"down", "open"}
    /\ proc.pc \in {"open", "migrate", "seed"} /\ proc.fresh => row # "admin"
    /\ proc.pc = "seed" => proc.fresh
    /\ proc.pc = "migrate" =>
          \A n \in 1..9 : n < proc.next => Script[n] \in applied
    /\ "default row" \in applied => row # NoRow

(* A server whose listener is gone for good, and one without requests that *)
(* still have time.                                                        *)
Silent(s) == listener[s] \in {"failed", "closed"}
Quiet(s) == \A h \in Handlers : req[h] # Life!Idle /\ req[h].server = s => grace = 0

Failed(s) == IF listener[s] = "failed" THEN 1 ELSE 0

DrainPublic == Life!At("drain", "public")
ShutAdmin == Life!At("shut", "admin")
DrainAdmin == Life!At("drain", "admin")
Closing == [pc |-> "close"]

Stopping ==
    /\ main # Life!Exited => pending =< Failed("public") + Failed("admin")
    /\ main \in {DrainPublic, ShutAdmin, DrainAdmin, Closing, Life!Exited} => Silent("public")
    /\ main \in {ShutAdmin, DrainAdmin, Closing} => Quiet("public")
    /\ main \in {DrainAdmin, Closing, Life!Exited} => Silent("admin")
    /\ main = Closing => Quiet("admin")
    /\ main = Life!Exited => \A h \in Handlers : req[h] = Life!Idle
    /\ db = "closed" => main \in {Closing, Life!Exited}

IInv ==
    /\ ServiceTypeOK /\ ServesWholeSchema
    /\ Booted /\ Stopping

-----------------------------------------------------------------------------
(***************************************************************************)
(* app.New and the file.                                                   *)
(***************************************************************************)
LEMMA ScriptFacts ==
    /\ Len(Script) = 9 /\ DOMAIN Script = 1..9
    /\ Range(Script) = {Script[n] : n \in 1..9}
    /\ Script[2] = "default row" /\ \A n \in 1..9 : Script[n] = "default row" => n = 2
<1>1. Len(Script) = 9 /\ DOMAIN Script = 1..9 BY DEF Script
<1>2. Script[2] = "default row" /\ \A n \in 1..9 : Script[n] = "default row" => n = 2
    BY DEF Script
<1> QED BY <1>1, <1>2 DEF Range

File == TypeOK /\ ServesWholeSchema /\ Booted

LEMMA ProcessIs ==
    Process = {Down}
        \cup [pc : {"open", "seed", "serving"}, fresh : BOOLEAN]
        \cup [pc : {"migrate"}, fresh : BOOLEAN, next : 1..10]
<1>1. Len(Script) = 9 BY ScriptFacts
<1>2. 1..(Len(Script) + 1) = 1..10 BY <1>1
<1> QED BY <1>2 DEF Process

LEMMA ProcessFields ==
    ASSUME NEW p \in Process
    PROVE  /\ p.pc \in {"down", "open", "migrate", "seed", "serving"}
           /\ p.pc # "down" => p.fresh \in BOOLEAN
           /\ p.pc = "migrate" =>
                 /\ p.next \in 1..10
                 /\ p = [pc |-> "migrate", fresh |-> p.fresh, next |-> p.next]
           /\ p.pc = "seed" => p = [pc |-> "seed", fresh |-> p.fresh]
BY ProcessIs DEF Down

LEMMA FileValues ==
    /\ Down \in Process
    /\ \A f \in BOOLEAN, c \in {"open", "seed", "serving"} : [pc |-> c, fresh |-> f] \in Process
    /\ \A f \in BOOLEAN, n \in 1..10 : [pc |-> "migrate", fresh |-> f, next |-> n] \in Process
BY ProcessIs

LEMMA StartSteps ==
    ASSUME File, Start \/ Open \/ SeedRejected \/ Stop \/ AdminUpdate \/ Seed
    PROVE  File'
<1>1. TypeOK /\ proc \in Process BY DEF File, TypeOK
<1>2. CASE Start
    <2>1. proc' = [pc |-> "open", fresh |-> ~ exists] /\ UNCHANGED <<exists, applied, row, mode, stops>>
        BY <1>2 DEF Start, NewDatabase
    <2>2. TypeOK' BY <1>1, <2>1, FileValues DEF TypeOK
    <2>3. ~ exists => row = NoRow BY DEF File, Booted
    <2>4. Booted' BY <2>1, <2>3 DEF File, Booted, NoRow
    <2> QED BY <2>1, <2>2, <2>4 DEF File, ServesWholeSchema
<1>3. CASE Open
    <2>1. /\ proc.pc = "open" /\ exists' = TRUE
          /\ proc' = [pc |-> "migrate", fresh |-> proc.fresh, next |-> 1]
          /\ UNCHANGED <<applied, row, mode, stops>>
        BY <1>3 DEF Open
    <2>2. proc.fresh \in BOOLEAN BY <1>1, <2>1, ProcessFields
    <2>3. proc' \in Process /\ \A n \in 1..9 : ~ (n < 1)
        <3>1. 1 \in 1..10 /\ \A n \in 1..9 : ~ (n < 1) OBVIOUS
        <3> QED BY <2>1, <2>2, <3>1, FileValues
    <2>4. TypeOK' BY <1>1, <2>1, <2>3 DEF TypeOK
    <2>5. proc.fresh => row # "admin" BY <2>1 DEF File, Booted
    <2>6. Booted' BY <2>1, <2>3, <2>5 DEF File, Booted
    <2> QED BY <2>1, <2>4, <2>6 DEF File, ServesWholeSchema
<1>4. CASE SeedRejected
    <2>1. proc.pc = "seed" /\ proc' = Down /\ UNCHANGED <<exists, applied, row, mode, stops>>
        BY <1>4 DEF SeedRejected
    <2>2. TypeOK' BY <1>1, <2>1, FileValues DEF TypeOK
    <2> QED BY <2>1, <2>2 DEF File, Booted, ServesWholeSchema, Down
<1>5. CASE Stop
    <2>1. /\ proc' = Down /\ UNCHANGED <<exists, applied, row, mode>>
          /\ stops' = stops + 1 /\ stops < MaxStops
        BY <1>5 DEF Stop
    <2>2. TypeOK' BY <1>1, <2>1, FileValues, StartupAssumption DEF TypeOK
    <2> QED BY <2>1, <2>2 DEF File, Booted, ServesWholeSchema, Down
<1>6. CASE AdminUpdate
    <2>1. proc.pc = "serving" /\ row' = "admin" /\ UNCHANGED <<exists, applied, proc, mode, stops>>
        BY <1>6 DEF AdminUpdate
    <2>2. TypeOK' BY <1>1, <2>1 DEF TypeOK
    <2> QED BY <2>1, <2>2 DEF File, Booted, ServesWholeSchema, NoRow
<1>7. CASE Seed
    <2>1. proc.pc = "seed" /\ row' = "environment" /\ proc' = [proc EXCEPT !.pc = "serving"]
          /\ UNCHANGED <<exists, applied, mode, stops>>
        BY <1>7 DEF Seed
    <2>2. proc.fresh \in BOOLEAN /\ proc' = [pc |-> "serving", fresh |-> proc.fresh]
        BY <1>1, <2>1, ProcessFields
    <2>3. TypeOK' BY <1>1, <2>1, <2>2, FileValues DEF TypeOK
    <2> QED BY <2>1, <2>2, <2>3 DEF File, Booted, ServesWholeSchema, NoRow
<1> QED BY <1>2, <1>3, <1>4, <1>5, <1>6, <1>7

(* A statement adds itself to those that have taken effect.                *)
LEMMA MigrateStep ==
    ASSUME File, MigrateStatement
    PROVE  File'
<1>1. TypeOK /\ proc \in Process BY DEF File, TypeOK
<1>2. PICK n : n = proc.next OBVIOUS
<1>0. proc.pc = "migrate" /\ n \in 1..9 BY <1>2, ScriptFacts DEF MigrateStatement
<1>3. /\ proc.pc = "migrate" /\ applied' = applied \cup {Script[n]}
      /\ row' = IF Script[n] = "default row" THEN DefaultRow ELSE row
      /\ proc' = [proc EXCEPT !.next = @ + 1]
      /\ UNCHANGED <<exists, mode, stops>>
    BY <1>2 DEF MigrateStatement
<1>4. proc.fresh \in BOOLEAN /\ proc' = [pc |-> "migrate", fresh |-> proc.fresh, next |-> n + 1]
    <2>1. PICK f : f = proc.fresh OBVIOUS
    <2>2. f \in BOOLEAN /\ proc = [pc |-> "migrate", fresh |-> f, next |-> n]
        BY <1>1, <1>0, <1>2, <2>1, ProcessFields
    <2>3. proc' = [proc EXCEPT !.next = n + 1] BY <1>2, <1>3
    <2> QED BY <2>1, <2>2, <2>3
<1>5. Script[n] \in Range(Script) BY <1>0, ScriptFacts
<1>6. /\ row' \in {NoRow, "defaults", "environment", "admin"}
      /\ row' # row => row' = "defaults"
      /\ Script[n] = "default row" => row' # NoRow
    BY <1>1, <1>3 DEF TypeOK, DefaultRow, NoRow
<1>7. TypeOK'
    <2>1. n + 1 \in 1..10 BY <1>0
    <2>2. proc' \in Process BY <1>4, <2>1, FileValues
    <2>3. applied' \subseteq Range(Script) BY <1>1, <1>3, <1>5 DEF TypeOK
    <2> QED BY <1>1, <1>3, <1>6, <2>2, <2>3 DEF TypeOK
<1>8. \A m \in 1..9 : m < n + 1 => Script[m] \in applied'
    <2> TAKE m \in 1..9
    <2>1. m < n => Script[m] \in applied BY <1>0, <1>2 DEF File, Booted
    <2>2. m < n + 1 => m < n \/ m = n BY <1>0
    <2> QED BY <1>3, <2>1, <2>2
<1>9. "default row" \in applied' => row' # NoRow
    BY <1>3, <1>6 DEF File, Booted, NoRow
<1>10. exists /\ (proc.fresh => row' # "admin")
    BY <1>3, <1>6 DEF File, Booted
<1>11. Booted'
    <2>1. exists' BY <1>3, <1>10
    <2>2. proc'.pc = "migrate" /\ proc'.fresh = proc.fresh /\ proc'.next = n + 1
        BY <1>4
    <2> QED BY <1>8, <1>9, <1>10, <2>1, <2>2 DEF Booted
<1> QED BY <1>4, <1>7, <1>11 DEF File, ServesWholeSchema

(* After the last statement nothing of the schema is missing.              *)
LEMMA MigrateDoneStep ==
    ASSUME File, MigrateDone
    PROVE  File'
<1>1. TypeOK /\ proc \in Process BY DEF File, TypeOK
<1>2. PICK c : c = IF proc.fresh THEN "seed" ELSE "serving" OBVIOUS
<1>3. /\ proc.pc = "migrate" /\ proc.next > 9 /\ proc' = [pc |-> c, fresh |-> proc.fresh]
      /\ UNCHANGED <<exists, applied, row, mode, stops>>
    BY <1>2, ScriptFacts DEF MigrateDone
<1>4. proc.fresh \in BOOLEAN /\ c \in {"seed", "serving"} /\ proc.next \in 1..10
    BY <1>1, <1>2, <1>3, ProcessFields
<1>5. TypeOK' BY <1>1, <1>3, <1>4, FileValues DEF TypeOK
<1>6. \A n \in 1..9 : Script[n] \in applied
    <2>1. \A n \in 1..9 : n < proc.next BY <1>3, <1>4
    <2> QED BY <1>3, <2>1 DEF File, Booted
<1>7. applied = Range(Script) /\ "default row" \in applied
    <2>1. applied \subseteq Range(Script) BY <1>1 DEF TypeOK
    <2>2. Range(Script) \subseteq applied BY <1>6, ScriptFacts
    <2>3. 2 \in 1..9 OBVIOUS
    <2>4. "default row" \in applied BY <1>6, <2>3, ScriptFacts
    <2> QED BY <2>1, <2>2, <2>4
<1>8. row # NoRow BY <1>7 DEF File, Booted
<1>9. ServesWholeSchema' BY <1>3, <1>7, <1>8 DEF ServesWholeSchema
<1>10. Booted' BY <1>2, <1>3, <1>4 DEF File, Booted
<1> QED BY <1>5, <1>9, <1>10 DEF File

-----------------------------------------------------------------------------
(***************************************************************************)
(* App.Run and the process.                                                *)
(***************************************************************************)
RunOK == Life!TypeOK /\ Stopping

LEMMA MainValues ==
    ASSUME NEW m \in Life!Main
    PROVE  /\ m \in {Life!Select, Life!At("shut", "public"), DrainPublic, ShutAdmin,
                     DrainAdmin, Closing, Life!Exited}
           /\ m.pc = "close" => m = Closing
           /\ m.pc # "close" => m # Closing
BY DEF Life!Main, Life!Servers, Life!Select, Life!At, Life!Exited, DrainPublic, ShutAdmin,
       DrainAdmin, Closing

LEMMA MainsDiffer ==
    /\ Life!Select \notin {DrainPublic, ShutAdmin, DrainAdmin, Closing, Life!Exited}
    /\ Life!At("shut", "public") \notin {DrainPublic, ShutAdmin, DrainAdmin, Closing, Life!Exited}
    /\ DrainPublic \notin {ShutAdmin, DrainAdmin, Closing, Life!Exited}
    /\ ShutAdmin \notin {DrainAdmin, Closing, Life!Exited}
    /\ DrainAdmin \notin {Closing, Life!Exited} /\ Closing # Life!Exited
    /\ {Life!Select, Life!At("shut", "public"), DrainPublic, ShutAdmin, DrainAdmin, Closing,
        Life!Exited} \subseteq Life!Main
BY DEF Life!Main, Life!Servers, Life!Select, Life!At, Life!Exited, DrainPublic, ShutAdmin,
       DrainAdmin, Closing

(* A new process has its variables to itself.                              *)
LEMMA FreshStep ==
    ASSUME Fresh
    PROVE  RunOK'
<1>1. /\ listener' = [s \in {"public", "admin"} |-> "starting"] /\ pending' = 0 /\ signalled' = FALSE
      /\ main' = Life!Select /\ grace' = Grace /\ db' = "open" /\ req' = [h \in Handlers |-> Life!Idle]
    BY DEF Fresh, Life!Servers
<1>2. Life!TypeOK'
    <2>1. Grace \in 0..Grace /\ Life!Select \in Life!Main BY MainsDiffer, ServiceAssumption
    <2>2. req' \in [Handlers -> Life!Request] BY <1>1 DEF Life!Request
    <2>3. listener' \in [{"public", "admin"} -> {"starting", "accepting", "failed", "closed"}]
        BY <1>1
    <2>4. /\ pending' \in 0..2 /\ grace' \in 0..Grace /\ main' \in Life!Main
          /\ db' \in {"open", "closed"}
        BY <1>1, <2>1
    <2>5. signalled' \in BOOLEAN BY <1>1
    <2> QED BY <2>2, <2>3, <2>4, <2>5 DEF Life!TypeOK, Life!Servers
<1>3. Stopping' BY <1>1, MainsDiffer DEF Stopping, Failed
<1> QED BY <1>2, <1>3 DEF RunOK

(* Whatever ends the process, nothing of it goes on.                       *)
LEMMA DieStep ==
    ASSUME RunOK, Life!Die
    PROVE  RunOK'
<1>1. /\ main' = Life!Exited /\ listener' = [s \in {"public", "admin"} |-> "closed"]
      /\ req' = [h \in Handlers |-> Life!Idle] /\ UNCHANGED <<pending, signalled, grace, db>>
    BY DEF Life!Die, Life!Servers
<1>2. Life!TypeOK'
    BY <1>1, MainsDiffer DEF RunOK, Life!TypeOK, Life!Servers, Life!Request
<1>3. Stopping' BY <1>1, MainsDiffer DEF Stopping, Silent
<1> QED BY <1>2, <1>3 DEF RunOK

(* Listeners: one that is gone does not come back, and each fails once.    *)
LEMMA ListenerStep ==
    ASSUME RunOK, NEW s \in {"public", "admin"}, Life!Listen(s) \/ Life!ListenerFails(s)
    PROVE  RunOK'
<1>1. PICK v \in {"accepting", "failed"} : listener' = [listener EXCEPT ![s] = v]
    BY DEF Life!Listen, Life!ListenerFails
<1>2. /\ listener[s] \in {"starting", "accepting"} /\ main # Life!Exited
      /\ UNCHANGED <<signalled, main, grace, db, req>>
    BY DEF Life!Listen, Life!ListenerFails, Life!Running, Life!UnchangedMain
<1>3. pending' = pending + (IF v = "failed" THEN 1 ELSE 0) /\ pending \in 0..2
    <2>1. /\ listener \in [{"public", "admin"} -> {"starting", "accepting", "failed", "closed"}]
          /\ pending \in 0..2
        BY DEF RunOK, Life!TypeOK, Life!Servers
    <2>2. listener'[s] = v BY <1>1, <2>1
    <2> QED BY <2>1, <2>2 DEF Life!Listen, Life!ListenerFails, Life!Report
<1>4. listener' \in [{"public", "admin"} -> {"starting", "accepting", "failed", "closed"}]
      /\ \A x \in {"public", "admin"} : listener'[x] = IF x = s THEN v ELSE listener[x]
    BY <1>1 DEF RunOK, Life!TypeOK, Life!Servers
<1>5. pending' =< Failed("public")' + Failed("admin")'
    <2>1. pending =< Failed("public") + Failed("admin") BY <1>2 DEF RunOK, Stopping
    <2> QED BY <1>2, <1>3, <1>4, <2>1 DEF Failed
<1>6. pending' \in 0..2 BY <1>3, <1>5 DEF Failed
<1>7. Life!TypeOK' BY <1>2, <1>4, <1>6 DEF RunOK, Life!TypeOK, Life!Servers
<1>8. \A x \in {"public", "admin"} : (Silent(x) => Silent(x)') /\ (Quiet(x) => Quiet(x)')
    BY <1>2, <1>4 DEF Silent, Quiet
<1>9. Stopping' BY <1>2, <1>5, <1>8 DEF RunOK, Stopping
<1> QED BY <1>7, <1>9 DEF RunOK

(* A request arrives at a listener that accepts, so not after the drain.   *)
LEMMA RequestStep ==
    ASSUME RunOK, NEW h \in Handlers,
           \/ \E s \in {"public", "admin"} : Life!Arrive(h, s)
           \/ Life!Worked(h) \/ Life!Stored(h)
    PROVE  RunOK'
<1>1. main # Life!Exited /\ UNCHANGED <<listener, pending, signalled, main, grace, db>>
    BY DEF Life!Arrive, Life!Worked, Life!Stored, Life!Running, Life!UnchangedMain
<1>2. req \in [Handlers -> Life!Request] BY DEF RunOK, Life!TypeOK
<1>3. PICK r : /\ r \in Life!Request /\ req' = [req EXCEPT ![h] = r]
               /\ r = Life!Idle \/ (req[h] # Life!Idle /\ r.server = req[h].server)
                  \/ (r.server \in {"public", "admin"} /\ listener[r.server] = "accepting")
    <2>1. ASSUME NEW s \in {"public", "admin"}, Life!Arrive(h, s)
          PROVE  \E r : /\ r \in Life!Request /\ req' = [req EXCEPT ![h] = r]
                        /\ r.server \in {"public", "admin"} /\ listener[r.server] = "accepting"
        <3>1. PICK r : r = [pc |-> "working", server |-> s] OBVIOUS
        <3>2. r \in Life!Request /\ r.server = s BY <3>1 DEF Life!Request, Life!Servers
        <3> QED BY <2>1, <3>1, <3>2 DEF Life!Arrive, Life!At
    <2>2. ASSUME Life!Worked(h)
          PROVE  \E r : /\ r \in Life!Request /\ req' = [req EXCEPT ![h] = r]
                        /\ req[h] # Life!Idle /\ r.server = req[h].server
        <3>1. PICK q, r : q = req[h] /\ r = [q EXCEPT !.pc = "storing"] OBVIOUS
        <3>2. q \in Life!Request /\ q.pc = "working" BY <1>2, <2>2, <3>1 DEF Life!Worked
        <3>3. q # Life!Idle /\ r \in Life!Request /\ r.server = q.server
            BY <3>1, <3>2 DEF Life!Request, Life!Idle
        <3>4. req' = [req EXCEPT ![h] = r] BY <1>2, <2>2, <3>1 DEF Life!Worked
        <3> QED BY <3>1, <3>3, <3>4
    <2>3. ASSUME Life!Stored(h)
          PROVE  \E r : r \in Life!Request /\ req' = [req EXCEPT ![h] = r] /\ r = Life!Idle
        BY <2>3 DEF Life!Stored, Life!Request
    <2> QED BY <2>1, <2>2, <2>3
<1>4. /\ req' \in [Handlers -> Life!Request]
      /\ \A g \in Handlers : req'[g] = IF g = h THEN r ELSE req[g]
    BY <1>2, <1>3
<1>5. Life!TypeOK' BY <1>1, <1>4 DEF RunOK, Life!TypeOK
<1>6. \A x \in {"public", "admin"} : /\ Silent(x) => Silent(x)'
                                     /\ Silent(x) /\ Quiet(x) => Quiet(x)'
    <2> TAKE x \in {"public", "admin"}
    <2>1. Silent(x) => Silent(x)' BY <1>1 DEF Silent
    <2>2. ASSUME Silent(x), Quiet(x) PROVE Quiet(x)'
        <3>1. listener[x] # "accepting" BY <2>2 DEF Silent
        <3>2. r # Life!Idle /\ r.server = x => grace = 0 BY <1>3, <2>2, <3>1 DEF Quiet
        <3> QED BY <1>1, <1>4, <2>2, <3>2 DEF Quiet
    <2> QED BY <2>1, <2>2
<1>7. Stopping' BY <1>1, <1>6 DEF RunOK, Stopping, Failed
<1> QED BY <1>5, <1>7 DEF RunOK

(* App.Run goes on to the next server only when this one is quiet or the   *)
(* deadline is over, and to the database only after both.                  *)
LEMMA BeginShutdownStep ==
    ASSUME RunOK, Life!BeginShutdown
    PROVE  RunOK'
<1>1. /\ main = Life!Select /\ main' = Life!At("shut", "public")
      /\ UNCHANGED <<listener, signalled, grace, db, req>>
    BY DEF Life!BeginShutdown, Life!First
<1>2. pending' \in 0..2 /\ pending' =< pending
    BY DEF Life!BeginShutdown, Life!StopsFor, RunOK, Life!TypeOK
<1>3. Life!TypeOK' BY <1>1, <1>2, MainsDiffer DEF RunOK, Life!TypeOK
<1>4. pending' =< Failed("public")' + Failed("admin")'
    <2>1. pending =< Failed("public") + Failed("admin") /\ pending \in 0..2
        BY <1>1, MainsDiffer DEF RunOK, Stopping, Life!TypeOK
    <2>2. Failed("public") \in 0..1 /\ Failed("admin") \in 0..1 BY DEF Failed
    <2>3. Failed("public")' = Failed("public") /\ Failed("admin")' = Failed("admin")
        BY <1>1 DEF Failed
    <2> QED BY <1>2, <2>1, <2>2, <2>3
<1>5. db # "closed" BY <1>1, MainsDiffer DEF RunOK, Stopping
<1>6. Stopping' BY <1>1, <1>4, <1>5, MainsDiffer DEF Stopping
<1> QED BY <1>3, <1>6 DEF RunOK

LEMMA ShutStep ==
    ASSUME RunOK, NEW s \in {"public", "admin"}, Life!Shut(s)
    PROVE  RunOK'
<1>1. /\ main = Life!At("shut", s) /\ main' = Life!At("drain", s)
      /\ listener' = [listener EXCEPT ![s] = IF @ = "failed" THEN "failed" ELSE "closed"]
      /\ UNCHANGED <<pending, signalled, grace, db, req>>
    BY DEF Life!Shut
<1>2. /\ listener' \in [{"public", "admin"} -> {"starting", "accepting", "failed", "closed"}]
      /\ \A x \in {"public", "admin"} :
            listener'[x] = IF x = s THEN (IF listener[x] = "failed" THEN "failed" ELSE "closed")
                           ELSE listener[x]
    BY <1>1 DEF RunOK, Life!TypeOK, Life!Servers
<1>3. main' \in Life!Main BY <1>1 DEF Life!Main, Life!At, Life!Servers
<1>4. Life!TypeOK' BY <1>1, <1>2, <1>3 DEF RunOK, Life!TypeOK, Life!Servers
<1>5. /\ Silent(s)' /\ \A x \in {"public", "admin"} : /\ Silent(x) => Silent(x)'
                                                     /\ Quiet(x) => Quiet(x)'
      /\ Failed("public")' = Failed("public") /\ Failed("admin")' = Failed("admin")
    BY <1>1, <1>2 DEF Silent, Quiet, Failed
<1>6. CASE s = "public"
    <2>1. main = Life!At("shut", "public") /\ main' = DrainPublic
        BY <1>1, <1>6 DEF DrainPublic
    <2> QED BY <1>1, <1>4, <1>5, <1>6, <2>1, MainsDiffer DEF RunOK, Stopping
<1>7. CASE s = "admin"
    <2>1. main = ShutAdmin /\ main' = DrainAdmin
        BY <1>1, <1>7 DEF ShutAdmin, DrainAdmin
    <2>2. Silent("public") /\ Quiet("public") /\ db # "closed"
          /\ pending =< Failed("public") + Failed("admin")
        BY <2>1, MainsDiffer DEF RunOK, Stopping
    <2>3. Silent("public")' /\ Quiet("public")' /\ Silent("admin")'
        BY <1>1, <1>2, <1>7, <2>2 DEF Silent, Quiet
    <2>4. Stopping' BY <1>1, <1>5, <2>1, <2>2, <2>3, MainsDiffer DEF Stopping
    <2> QED BY <1>4, <2>4 DEF RunOK
<1> QED BY <1>6, <1>7

LEMMA DrainedStep ==
    ASSUME RunOK, NEW s \in {"public", "admin"}, Life!Drained(s)
    PROVE  RunOK'
<1>1. /\ main = Life!At("drain", s) /\ Life!MayReturn(s)
      /\ main' = IF s = "public" THEN ShutAdmin ELSE Closing
      /\ UNCHANGED <<listener, pending, signalled, grace, db, req>>
    BY DEF Life!Drained, Life!NextStop, ShutAdmin, Closing
<1>2. Life!TypeOK' BY <1>1, MainsDiffer DEF RunOK, Life!TypeOK
<1>3. Quiet(s)
    <2>1. \A h \in Handlers : req[h] # Life!Idle => req[h].pc # "idle"
        BY DEF RunOK, Life!TypeOK, Life!Request
    <2> QED BY <1>1, <2>1 DEF Quiet, Life!MayReturn, Life!ActiveOn
<1>4. /\ \A x \in {"public", "admin"} : (Silent(x) => Silent(x)') /\ (Quiet(x) => Quiet(x)')
      /\ Failed("public")' = Failed("public") /\ Failed("admin")' = Failed("admin")
    BY <1>1 DEF Silent, Quiet, Failed
<1>5. CASE s = "public"
    <2>1. main = DrainPublic /\ main' = ShutAdmin BY <1>1, <1>5 DEF DrainPublic
    <2> QED BY <1>1, <1>2, <1>3, <1>4, <1>5, <2>1, MainsDiffer DEF RunOK, Stopping
<1>6. CASE s = "admin"
    <2>1. main = DrainAdmin /\ main' = Closing BY <1>1, <1>6 DEF DrainAdmin
    <2> QED BY <1>1, <1>2, <1>3, <1>4, <1>6, <2>1, MainsDiffer DEF RunOK, Stopping
<1> QED BY <1>5, <1>6

LEMMA CloseStep ==
    ASSUME RunOK, Life!Close
    PROVE  RunOK'
<1>1. main = Closing /\ db' = "closed" /\ UNCHANGED <<listener, pending, signalled, main, grace, req>>
    BY MainValues DEF Life!Close, RunOK, Life!TypeOK
<1>2. Life!TypeOK' BY <1>1 DEF RunOK, Life!TypeOK
<1>3. Stopping' BY <1>1 DEF RunOK, Stopping, Silent, Quiet, Failed
<1> QED BY <1>2, <1>3 DEF RunOK

LEMMA TickStep ==
    ASSUME RunOK, Life!Tick
    PROVE  RunOK'
<1>1. grace > 0 /\ grace' = grace - 1 /\ UNCHANGED <<listener, pending, signalled, main, db, req>>
    BY DEF Life!Tick
<1>2. grace \in 0..Grace BY DEF RunOK, Life!TypeOK
<1>3. grace' \in 0..Grace BY <1>1, <1>2, ServiceAssumption
<1>4. Life!TypeOK' BY <1>1, <1>3 DEF RunOK, Life!TypeOK
<1>5. \A x \in {"public", "admin"} : (Silent(x) => Silent(x)') /\ (Quiet(x) => Quiet(x)')
    BY <1>1, <1>2 DEF Silent, Quiet
<1>6. Stopping' BY <1>1, <1>5 DEF RunOK, Stopping, Failed
<1> QED BY <1>4, <1>6 DEF RunOK

LEMMA UnchangedRun ==
    ASSUME RunOK, UNCHANGED process
    PROVE  RunOK'
BY DEF RunOK, process, Life!TypeOK, Stopping, Silent, Quiet, Failed

-----------------------------------------------------------------------------
(***************************************************************************)
(* The invariant.                                                          *)
(***************************************************************************)
LEMMA InitIInv == ServiceInit => IInv
<1> SUFFICES ASSUME ServiceInit PROVE IInv OBVIOUS
<1>1. File
    <2>1. TypeOK
        <3>1. exists \in BOOLEAN BY DEF ServiceInit, Init
        <3>2. applied \subseteq Range(Script) /\ stops \in 0..MaxStops /\ proc \in Process
            BY FileValues, StartupAssumption DEF ServiceInit, Init
        <3>3. row \in {NoRow, "defaults", "environment", "admin"} /\ mode \in AuthModes
            BY DEF ServiceInit, Init
        <3> QED BY <3>1, <3>2, <3>3 DEF TypeOK
    <2> QED BY <2>1 DEF ServiceInit, Init, File, Booted, ServesWholeSchema, Down
<1>2. RunOK
    <2>1. Grace \in 0..Grace /\ Life!Select \in Life!Main BY MainsDiffer, ServiceAssumption
    <2>2. req \in [Handlers -> Life!Request] BY DEF ServiceInit, Life!Init, Life!Request
    <2>3. Life!TypeOK
        <3>1. pending \in 0..2 /\ grace \in 0..Grace /\ main \in Life!Main /\ db \in {"open", "closed"}
            BY <2>1 DEF ServiceInit, Life!Init
        <3>2. signalled \in BOOLEAN BY DEF ServiceInit, Life!Init
        <3>3. listener \in [Life!Servers -> {"starting", "accepting", "failed", "closed"}]
            BY DEF ServiceInit, Life!Init
        <3> QED BY <2>2, <3>1, <3>2, <3>3 DEF Life!TypeOK
    <2>4. Stopping BY MainsDiffer DEF ServiceInit, Life!Init, Stopping, Failed, Life!Servers
    <2> QED BY <2>3, <2>4 DEF RunOK
<1>3. proc.pc = "down" BY DEF ServiceInit, Init, Down
<1> QED BY <1>1, <1>2, <1>3 DEF IInv, ServiceTypeOK, File, RunOK

LEMMA NextIInv == IInv /\ [ServiceNext]_all => IInv'
<1> SUFFICES ASSUME IInv, [ServiceNext]_all PROVE IInv' OBVIOUS
<1>1. File /\ RunOK BY DEF IInv, File, RunOK, ServiceTypeOK
<1>2. ASSUME UNCHANGED file PROVE File'
    <2>1. UNCHANGED <<exists, applied, row, proc, mode, stops>> BY <1>2 DEF file
    <2>2. TypeOK' BY <1>1, <2>1 DEF File, TypeOK
    <2>3. Booted' BY <1>1, <2>1 DEF File, Booted
    <2> QED BY <1>1, <2>1, <2>2, <2>3 DEF File, ServesWholeSchema
<1> DEFINE Starting(p, m, d) == p.pc \in {"open", "migrate", "seed"} => m = Life!Select /\ d = "open"
<1>3. SUFFICES File' /\ RunOK' /\ Starting(proc, main, db)'
    BY DEF IInv, File, RunOK, ServiceTypeOK
<1>4. Starting(proc, main, db) BY DEF IInv, ServiceTypeOK
<1>5. CASE NewProcess
    <2>1. File' BY <1>1, <1>5, StartSteps DEF NewProcess
    <2> QED BY <1>5, <2>1, FreshStep DEF NewProcess, Fresh
<1>6. CASE (Open \/ MigrateStatement \/ MigrateDone \/ Seed) /\ UNCHANGED process
    <2>1. File' BY <1>1, <1>6, StartSteps, MigrateStep, MigrateDoneStep
    <2>2. RunOK' BY <1>1, <1>6, UnchangedRun
    <2>3. proc.pc \in {"open", "migrate", "seed"}
        BY <1>6 DEF Open, MigrateStatement, MigrateDone, Seed
    <2> QED BY <1>4, <1>6, <2>1, <2>2, <2>3 DEF process
<1>7. CASE SeedRejected /\ Life!Die
    <2>1. File' /\ RunOK' BY <1>1, <1>7, StartSteps, DieStep
    <2> QED BY <1>7, <2>1 DEF SeedRejected, Down
<1>8. CASE Serving /\ UNCHANGED file /\ (Life!MainStep \/ Life!Tick \/ Life!Outside)
    <2>1. RunOK'
        <3>1. CASE Life!MainStep
            BY <1>1, <3>1, BeginShutdownStep, ShutStep, DrainedStep, CloseStep
               DEF Life!MainStep, Life!Servers
        <3>2. CASE Life!Tick BY <1>1, <3>2, TickStep
        <3>3. CASE \E s \in {"public", "admin"} : Life!Listen(s) \/ Life!ListenerFails(s)
            BY <1>1, <3>3, ListenerStep
        <3>4. CASE \E h \in Handlers : \/ \E s \in {"public", "admin"} : Life!Arrive(h, s)
                                      \/ Life!Worked(h) \/ Life!Stored(h)
            BY <1>1, <3>4, RequestStep
        <3>5. CASE Life!Signal
            <4>1. signalled' = TRUE /\ UNCHANGED <<listener, pending, main, grace, db, req>>
                BY <3>5 DEF Life!Signal
            <4> QED BY <1>1, <4>1 DEF RunOK, Life!TypeOK, Stopping, Silent, Quiet, Failed
        <3> QED BY <1>8, <3>1, <3>2, <3>3, <3>4, <3>5 DEF Life!Outside, Life!Servers
    <2> QED BY <1>2, <1>8, <2>1 DEF Serving, file
<1>9. CASE MainReturns
    <2>1. /\ proc' = Down /\ proc.pc = "serving" /\ UNCHANGED <<exists, applied, row, mode, stops>>
          /\ Life!Die
        BY <1>9 DEF MainReturns, Serving, Life!Exit
    <2>2. TypeOK' BY <1>1, <2>1, FileValues DEF File, TypeOK
    <2>3. File' BY <1>1, <2>1, <2>2 DEF File, Booted, ServesWholeSchema, Down
    <2> QED BY <1>1, <2>1, <2>3, DieStep DEF Down
<1>10. ASSUME NEW h \in Handlers, StoreSettings(h)
       PROVE  File' /\ RunOK' /\ Starting(proc, main, db)'
    <2>1. File' BY <1>1, <1>10, StartSteps DEF StoreSettings
    <2>2. RunOK' BY <1>1, <1>10, RequestStep DEF StoreSettings
    <2>3. proc'.pc = "serving" BY <1>10 DEF StoreSettings, AdminUpdate
    <2> QED BY <2>1, <2>2, <2>3
<1>11. CASE Kill
    <2>1. File' /\ RunOK' BY <1>1, <1>11, StartSteps, DieStep DEF Kill
    <2> QED BY <1>11, <2>1 DEF Kill, Stop, Down
<1>12. CASE UNCHANGED all
    <2>1. UNCHANGED file /\ UNCHANGED process BY <1>12 DEF all
    <2>2. RunOK' BY <1>1, <2>1, UnchangedRun
    <2> QED BY <1>2, <1>4, <2>1, <2>2 DEF file, process
<1> QED
    BY <1>5, <1>6, <1>7, <1>8, <1>9, <1>10, <1>11, <1>12
       DEF ServiceNext, Boot, Run, Clock

(* The invariant holds of every process there ever is.                     *)
THEOREM Invariant == ServiceSpec => []IInv
BY InitIInv, NextIInv, PTL DEF ServiceSpec

(* Types of app.New and App.Run together.                                  *)
THEOREM TypesAreRight == ServiceSpec => []ServiceTypeOK
<1>1. IInv => ServiceTypeOK BY DEF IInv
<1> QED BY <1>1, Invariant, PTL

(* However often starts are cut short, what serves has every statement of  *)
(* the schema behind it and a row of settings (Migrate).                   *)
THEOREM WhatServesIsMigrated == ServiceSpec => []ServesWholeSchema
<1>1. IInv => ServesWholeSchema BY DEF IInv
<1> QED BY <1>1, Invariant, PTL

(* The database is closed under a request only when the grace is over, and *)
(* when both listeners are gone for good (App.Run).                        *)
THEOREM TheDatabaseIsLast == ServiceSpec => []DatabaseClosesLast
<1>1. IInv => DatabaseClosesLast
    <2> SUFFICES ASSUME IInv, db = "closed" PROVE Life!DatabaseClosesLast
        BY DEF DatabaseClosesLast, Life!DatabaseClosesLast
    <2>1. main \in {Closing, Life!Exited} /\ RunOK
        BY DEF IInv, ServiceTypeOK, RunOK, Stopping
    <2>2. \A s \in {"public", "admin"} : listener[s] \notin {"starting", "accepting"}
        BY <2>1 DEF RunOK, Stopping, Silent
    <2>3. ASSUME NEW h \in Handlers, req[h] # Life!Idle PROVE grace = 0
        <3>1. main = Closing BY <2>1, <2>3 DEF RunOK, Stopping
        <3>2. Quiet("public") /\ Quiet("admin") BY <2>1, <3>1 DEF RunOK, Stopping
        <3>3. req[h].server \in {"public", "admin"}
            BY <2>1, <2>3 DEF RunOK, Life!TypeOK, Life!Request, Life!Servers
        <3> QED BY <2>3, <3>2, <3>3 DEF Quiet
    <2> QED BY <2>2, <2>3 DEF Life!DatabaseClosesLast, Life!Servers
<1> QED BY <1>1, Invariant, PTL

(* No start replaces what the administrator saved: what the environment    *)
(* has is only written by a start that found no file, and by then there is *)
(* nothing saved (New, seedRuntimeDefaults).                               *)
THEOREM EditsAreKept == ServiceSpec => EditsSurviveRestarts
<1>1. ASSUME IInv, [ServiceNext]_all, row = "admin" PROVE row' = "admin"
    <2>1. ~ Seed BY <1>1 DEF IInv, Booted, Seed
    <2>2. MigrateStatement => row' = row BY <1>1 DEF MigrateStatement, DefaultRow, NoRow
    <2>3. UNCHANGED file \/ UNCHANGED all => row' = row BY DEF file, all
    <2> QED
        BY <1>1, <2>1, <2>2, <2>3
           DEF ServiceNext, NewProcess, Start, Boot, Open, MigrateDone, SeedRejected, Run,
               MainReturns, Clock, StoreSettings, AdminUpdate, Kill, Stop
<1> QED BY <1>1, Invariant, PTL DEF ServiceSpec, EditsSurviveRestarts
=============================================================================
