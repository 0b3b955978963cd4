------------------------------- MODULE Access --------------------------------
(***************************************************************************)
(* Both handlers on one row of app_config: administrators who set and      *)
(* reset the downstream key (Sessions), and clients who present it to the  *)
(* public API (PublicApi).  Neither handler knows of the other's requests; *)
(* a reset reaches a client's request between any two of its steps, and a  *)
(* restart ends the requests of both.                                      *)
(***************************************************************************)
EXTENDS Sessions

CONSTANTS
    NULL, Secret, Tables, Bodies, HeaderSets, Nominations,    \* see PublicApi
    Callers    \* requests to the public API active at the same time

VARIABLES mode, table, calls, valid, served

Api == INSTANCE PublicApi WITH Handlers <- Callers, req <- calls

(* "text" is what is no credential.  A client has no upstream key, and     *)
(* sends its own in no header but those that are looked at.  A redirect    *)
(* has no empty name, and no empty target (normalizeModelRedirects).       *)
ASSUME AccessAssumption ==
    /\ NULL \notin Keys \cup {NoKey, Secret, "text"}
    /\ Secret \notin Keys /\ "text" \notin Keys \cup {Secret}
    /\ \A headers \in HeaderSets :
          /\ headers \in [Api!Names -> Keys \cup {NULL, "text"}]
          /\ \A n \in Api!Names \ Api!Credentials : headers[n] \in {NULL, "text"}
    /\ \A t \in Tables : "" \notin DOMAIN t /\ \A model \in DOMAIN t : t[model] # ""

sessions == <<version, cookies, req, created>>

all == <<vars, mode, table, calls, valid, served>>

AccessTypeOK == TypeOK /\ Api!TypeOK

AccessInit == Init /\ Api!Init

-----------------------------------------------------------------------------
(* A step of an administrator's request, which may store a key.            *)
AdminStep(h) == Administer(h) /\ Api!KeyStored

(* Faulty: saves settings for whoever asks. *)
FaultyConfigure(h) == (Api!SetMode \/ Api!SetTable) /\ UNCHANGED sessions

(* PUT /admin/api/config, once past requireAuth: two transactions, the     *)
(* settings and the redirects.                                             *)
Configure(h) ==
    /\ req[h].pc = "allowed"
    /\ Api!SetMode \/ Api!SetTable
    /\ UNCHANGED sessions

Call(c) == Api!Serve(c) /\ UNCHANGED sessions

(* A browser drops a cookie; cookies get older.                            *)
Browser ==
    /\ Tick \/ \E c \in cookies : ForgetCookie(c)
    /\ UNCHANGED <<mode, table, calls, valid, served>>

AccessNext ==
    \/ \E h \in Handlers : AdminStep(h) \/ Configure(h)
    \/ \E c \in Callers : Call(c)
    \/ Browser
    \/ Restart /\ Api!Restart

AccessSpec == AccessInit /\ [][AccessNext]_all

-----------------------------------------------------------------------------
(* What PublicApi says of a key that changes freely holds of one that only *)
(* bootstrap and reset change (handleBootstrap, handleResetDownstream,     *)
(* authenticate): this is its specification, under which a key that was    *)
(* set is replaced but never removed.                                      *)
ApiSpec == Api!Spec

OnlyHoldersPass == Api!OnlyHoldersPass

UpstreamGets == Api!UpstreamGets

(* Until a bootstrap has set a key nobody administers the program and      *)
(* nobody uses it, whatever requests either handler gets and however often *)
(* it restarts: no redirect is in force, no session is given, no request   *)
(* passes (requireAuth, authenticate, BootstrapDownstreamKey).             *)
NothingBeforeBootstrap ==
    created = 0 =>
        /\ DOMAIN table = {}
        /\ cookies = {}
        /\ \A c \in Callers : ~ Api!Passed(c)
=============================================================================
