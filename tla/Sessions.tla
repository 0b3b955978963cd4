------------------------------ MODULE Sessions ------------------------------
(***************************************************************************)
(* The downstream key and the administrator's sessions: bootstrap, login,  *)
(* reset, and the check in front of every administrative handler.          *)
(*                                                                         *)
(* A session is a signed cookie that holds the auth_version it was issued  *)
(* for and its expiry; the server keeps nothing about it.  Resetting the   *)
(* downstream key increments auth_version, and that alone ends sessions.   *)
(* Handlers run concurrently and read app_config once, in one statement.   *)
(* What they do with it later, verify a password or sign a cookie, takes   *)
(* time in which another handler may reset the key.                        *)
(***************************************************************************)
EXTENDS Integers, FiniteSets

CONSTANTS
    Handlers,    \* administrative requests active at the same time
    Keys,        \* downstream keys an administrator may choose
    NoKey,       \* downstream_key_hash is empty
    TTL,         \* lifetime of a session in ticks
    MaxVersion   \* bound: auth_version is not incremented beyond it

ASSUME SessionAssumption ==
    /\ NoKey \notin Keys
    /\ TTL \in Nat \ {0}
    /\ MaxVersion \in Nat \ {0}

VARIABLES
    key,       \* downstream_key_hash, as the key it is the hash of
    version,   \* auth_version
    cookies,   \* every session cookie a browser has received
    req,       \* the local variables of each request
    created    \* history: how many bootstraps set the key

vars == <<key, version, cookies, req, created>>

(* left: ticks until the expiry; knows: the key its holder gave for it.    *)
Cookies == [version : 1..MaxVersion, left : 0..TTL, knows : Keys]

Idle == [pc |-> "idle"]

(* bootstrap  about to run BootstrapDownstreamKey with a key               *)
(* login      holds a password, about to read app_config                   *)
(* verify     holds the password and the row it read                       *)
(* issue      about to sign a cookie for a version                         *)
(* decoded    holds an unexpired cookie's version, about to read app_config*)
(* allowed    passed requireAuth; the handler may write from here          *)
Requests ==
    {Idle}
        \cup [pc : {"bootstrap"}, given : Keys]
        \cup [pc : {"login"}, given : Keys]
        \cup [pc : {"verify"}, given : Keys, key : Keys, version : 1..MaxVersion]
        \cup [pc : {"issue"}, given : Keys, version : 1..MaxVersion]
        \cup [pc : {"decoded", "allowed"}, version : 1..MaxVersion]

(* Types; in particular no cookie counts on after its expiry (Decode).     *)
TypeOK ==
    /\ key \in Keys \cup {NoKey}
    /\ version \in 1..MaxVersion
    /\ cookies \subseteq Cookies
    /\ req \in [Handlers -> Requests]
    /\ created \in Nat

Init ==
    /\ key = NoKey
    /\ version = 1
    /\ cookies = {}
    /\ req = [h \in Handlers |-> Idle]
    /\ created = 0

Goto(h, local) == req' = [req EXCEPT ![h] = local]

UnchangedStore == UNCHANGED <<key, version, cookies, created>>

-----------------------------------------------------------------------------
(***************************************************************************)
(* Bootstrap: only the first one sets the key.                             *)
(***************************************************************************)
ArriveBootstrap(h, given) ==
    /\ req[h].pc = "idle"
    /\ Goto(h, [pc |-> "bootstrap", given |-> given])
    /\ UnchangedStore

(* Faulty: the key is set without looking. *)
FaultyMayBootstrap == TRUE

MayBootstrap == key = NoKey

(* The first session is signed for version 1, whatever is in force by then.*)
Bootstrap(h) ==
    /\ req[h].pc = "bootstrap"
    /\ MayBootstrap
    /\ key' = req[h].given
    /\ version' = 1
    /\ created' = created + 1
    /\ Goto(h, [pc |-> "issue", given |-> req[h].given, version |-> 1])
    /\ UNCHANGED cookies

AlreadyInitialized(h) ==
    /\ req[h].pc = "bootstrap"
    /\ ~ MayBootstrap
    /\ Goto(h, Idle)
    /\ UnchangedStore

-----------------------------------------------------------------------------
(***************************************************************************)
(* Login.                                                                  *)
(***************************************************************************)
ArriveLogin(h, given) ==
    /\ req[h].pc = "idle"
    /\ Goto(h, [pc |-> "login", given |-> given])
    /\ UnchangedStore

(* Before the bootstrap a login is refused.                                *)
LoginConfig(h) ==
    /\ req[h].pc = "login"
    /\ Goto(h, IF key = NoKey THEN Idle
               ELSE [pc |-> "verify", given |-> req[h].given,
                     key |-> key, version |-> version])
    /\ UnchangedStore

(* Faulty: the version is read again when the cookie is signed. *)
FaultySessionVersion(h) == version

(* The cookie is for the version that was read together with the hash.     *)
SessionVersion(h) == req[h].version

Verify(h) ==
    /\ req[h].pc = "verify"
    /\ Goto(h, IF req[h].given = req[h].key
               THEN [pc |-> "issue", given |-> req[h].given,
                     version |-> SessionVersion(h)]
               ELSE Idle)
    /\ UnchangedStore

SetCookie(h) ==
    /\ req[h].pc = "issue"
    /\ cookies' = cookies \cup
            {[version |-> req[h].version, left |-> TTL, knows |-> req[h].given]}
    /\ Goto(h, Idle)
    /\ UNCHANGED <<key, version, created>>

-----------------------------------------------------------------------------
(***************************************************************************)
(* requireAuth and the one handler that changes what it checks.            *)
(***************************************************************************)
(* Decode refuses a cookie at the second of its expiry.                    *)
Unexpired(c) == c.left > 0

ArriveWithCookie(h, c) ==
    /\ req[h].pc = "idle"
    /\ Unexpired(c)
    /\ Goto(h, [pc |-> "decoded", version |-> c.version])
    /\ UnchangedStore

Matches(v) == v = version

RequireAuth(h) ==
    /\ req[h].pc = "decoded"
    /\ Goto(h, IF Matches(req[h].version)
               THEN [pc |-> "allowed", version |-> req[h].version]
               ELSE Idle)
    /\ UnchangedStore

(* Faulty: the key changes, the version does not. *)
FaultyReset(h, new) ==
    /\ req[h].pc = "allowed"
    /\ key' = new
    /\ Goto(h, Idle)
    /\ UNCHANGED <<version, cookies, created>>

(* UpdateDownstreamKey, one transaction, no second look at the session.    *)
Reset(h, new) ==
    /\ req[h].pc = "allowed"
    /\ version < MaxVersion
    /\ key' = new
    /\ version' = version + 1
    /\ Goto(h, Idle)
    /\ UNCHANGED <<cookies, created>>

(* Any other handler, or a failing step: the key and version stay.         *)
Finish(h) ==
    /\ req[h].pc # "idle"
    /\ Goto(h, Idle)
    /\ UnchangedStore

(* The browser drops a cookie: logout, or the reset's own response.        *)
ForgetCookie(c) ==
    /\ cookies' = cookies \ {c}
    /\ UNCHANGED <<key, version, req, created>>

(* Cookies and the database outlive the process; requests do not.          *)
Restart ==
    /\ req' = [h \in Handlers |-> Idle]
    /\ UnchangedStore

Tick ==
    /\ \E c \in cookies : Unexpired(c)
    /\ cookies' = {[c EXCEPT !.left = IF Unexpired(c) THEN @ - 1 ELSE @] : c \in cookies}
    /\ UNCHANGED <<key, version, req, created>>

-----------------------------------------------------------------------------
Work(h) ==
    \/ Bootstrap(h) \/ AlreadyInitialized(h)
    \/ LoginConfig(h) \/ Verify(h) \/ SetCookie(h)
    \/ RequireAuth(h) \/ \E new \in Keys : Reset(h, new)
    \/ Finish(h)

Administer(h) ==
    \/ \E given \in Keys : ArriveBootstrap(h, given) \/ ArriveLogin(h, given)
    \/ \E c \in cookies : ArriveWithCookie(h, c)
    \/ Work(h)

Next ==
    \/ \E h \in Handlers : Administer(h)
    \/ \E c \in cookies : ForgetCookie(c)
    \/ Restart
    \/ Tick

Spec == Init /\ [][Next]_vars

-----------------------------------------------------------------------------
(* Whoever holds a session that is accepted has given the key that is in   *)
(* force now: a login whose password was checked before a reset and whose  *)
(* cookie is signed after it gives no session (handleLogin, SetCookie).    *)
SessionsKnowTheKey ==
    \A c \in cookies : Unexpired(c) /\ Matches(c.version) => c.knows = key

(* Setting or resetting the key ends every session there is and every one  *)
(* that a request is still about to be given or to be checked for; only    *)
(* requests that already passed the check go on (UpdateDownstreamKey).     *)
LiveVersions == {c.version : c \in cookies}
                    \cup {req[h].version : h \in {g \in Handlers :
                              req[g].pc \in {"verify", "issue", "decoded"}}}

ResetEndsSessions ==
    [][<<key, version>>' # <<key, version>> => version' \notin LiveVersions]_vars

(* Of any number of simultaneous bootstraps one wins, and its key stays    *)
(* until somebody who passed requireAuth resets it; this holds across      *)
(* restarts too (BootstrapDownstreamKey).                                  *)
BootstrapOnce ==
    /\ created =< 1
    /\ created = 0 <=> key = NoKey
=============================================================================
