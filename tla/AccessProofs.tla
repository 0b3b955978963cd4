---------------------------- MODULE AccessProofs ----------------------------
(***************************************************************************)
(* Access for any number of requests to either handler, keys, resets,      *)
(* redirects and headers.                                                  *)
(*                                                                         *)
(* Sessions: whoever is let in knows the key in force, one bootstrap wins, *)
(* and a reset ends every session.  The inductive invariant, IInv, follows *)
(* a version through everything that carries one: rows that were read,     *)
(* cookies about to be signed, and cookies that were handed out.           *)
(*                                                                         *)
(* PublicApi: only who presents a key that was in force while the request  *)
(* ran passes, and what goes upstream has one credential and one redirect. *)
(* ApiIInv says what a request holds between its steps.                    *)
(*                                                                         *)
(* Access: the composition implements both specifications, so everything   *)
(* that is true of either is true of it.                                   *)
(***************************************************************************)
EXTENDS Access, TLAPS

-----------------------------------------------------------------------------
(***************************************************************************)
(* Sessions.                                                               *)
(***************************************************************************)
(* A version and the key that was given or read together with it: no       *)
(* version is from the future, and the one in force goes with its key.     *)
Pair(v, k) == v =< version /\ (v = version => k = key)

(* What a request may hold between two steps.                              *)
Local(r) ==
    /\ r.pc = "verify" => Pair(r.version, r.key)
    /\ r.pc = "issue" => Pair(r.version, r.given)
    /\ r.pc \in {"decoded", "allowed"} => r.version =< version
    /\ r.pc \in {"verify", "issue", "decoded", "allowed"} => key # NoKey

LocalsOK == \A h \in Handlers : Local(req[h])

CookiesOK == \A c \in cookies : Pair(c.version, c.knows) /\ key # NoKey

IInv == TypeOK /\ BootstrapOnce /\ LocalsOK /\ CookiesOK

-----------------------------------------------------------------------------
(* What the fields of a request are at each of its program points.         *)
LEMMA RequestFields ==
    ASSUME NEW r \in Requests
    PROVE  /\ r.pc \in {"bootstrap", "login", "verify", "issue"} => r.given \in Keys
           /\ r.pc = "verify" => r.key \in Keys
           /\ r.pc \in {"verify", "issue", "decoded", "allowed"} => r.version \in 1..MaxVersion
BY DEF Requests, Idle

(* The values the steps of a request assign are requests.                  *)
LEMMA RequestValues ==
    /\ Idle \in Requests
    /\ \A k \in Keys : [pc |-> "bootstrap", given |-> k] \in Requests
    /\ \A k \in Keys : [pc |-> "login", given |-> k] \in Requests
    /\ \A k, l \in Keys, v \in 1..MaxVersion :
          [pc |-> "verify", given |-> k, key |-> l, version |-> v] \in Requests
    /\ \A k \in Keys, v \in 1..MaxVersion :
          [pc |-> "issue", given |-> k, version |-> v] \in Requests
    /\ \A v \in 1..MaxVersion : [pc |-> "decoded", version |-> v] \in Requests
    /\ \A v \in 1..MaxVersion : [pc |-> "allowed", version |-> v] \in Requests
BY DEF Requests

(* A step that leaves the store and the cookies alone keeps the invariant  *)
(* if what it leaves in its own variables is in order.                     *)
LEMMA LocalStep ==
    ASSUME IInv, UnchangedStore, NEW h \in Handlers, NEW r \in Requests, Local(r), Goto(h, r)
    PROVE  IInv'
<1>1. key' = key /\ version' = version /\ cookies' = cookies /\ created' = created
    BY DEF UnchangedStore
<1>2. req' = [req EXCEPT ![h] = r] /\ req \in [Handlers -> Requests]
    BY DEF Goto, IInv, TypeOK
<1>3. TypeOK' BY <1>1, <1>2 DEF IInv, TypeOK
<1>4. ASSUME NEW g \in Handlers PROVE Local(req[g])'
    <2>1. Local(req'[g])
        BY <1>2 DEF IInv, LocalsOK
    <2> QED BY <1>1, <2>1 DEF Local, Pair
<1>5. CookiesOK' /\ BootstrapOnce'
    BY <1>1 DEF IInv, CookiesOK, BootstrapOnce, Pair
<1> QED BY <1>3, <1>4, <1>5 DEF IInv, LocalsOK

(* The steps of a request that write nothing but its own variables.        *)
LEMMA RequestStep ==
    ASSUME IInv, NEW h \in Handlers,
           \/ \E given \in Keys : ArriveBootstrap(h, given) \/ ArriveLogin(h, given)
           \/ \E c \in cookies : ArriveWithCookie(h, c)
           \/ AlreadyInitialized(h) \/ LoginConfig(h) \/ Verify(h)
           \/ RequireAuth(h) \/ Finish(h)
    PROVE  IInv'
<1>1. req[h] \in Requests /\ Local(req[h]) /\ version \in 1..MaxVersion
      /\ key \in Keys \cup {NoKey} /\ version \in Nat
    BY SessionAssumption DEF IInv, TypeOK, LocalsOK
<1>2. UnchangedStore
    BY DEF ArriveBootstrap, ArriveLogin, ArriveWithCookie, AlreadyInitialized,
           LoginConfig, Verify, RequireAuth, Finish
<1>3. Idle \in Requests /\ Local(Idle)
    BY RequestValues DEF Local, Idle
<1>4. ASSUME NEW given \in Keys, ArriveBootstrap(h, given) \/ ArriveLogin(h, given)
      PROVE  \E r \in Requests : Local(r) /\ Goto(h, r)
    BY <1>4, RequestValues DEF ArriveBootstrap, ArriveLogin, Local
<1>5. ASSUME NEW c \in cookies, ArriveWithCookie(h, c)
      PROVE  \E r \in Requests : Local(r) /\ Goto(h, r)
    <2>1. c.version \in 1..MaxVersion /\ c.version =< version /\ key # NoKey
        BY DEF IInv, TypeOK, Cookies, CookiesOK, Pair
    <2> QED BY <1>5, <2>1, RequestValues DEF ArriveWithCookie, Local
<1>6. ASSUME LoginConfig(h) PROVE \E r \in Requests : Local(r) /\ Goto(h, r)
    <2>1. req[h].given \in Keys BY <1>1, <1>6, RequestFields DEF LoginConfig
    <2>2. CASE key = NoKey BY <1>3, <1>6, <2>2 DEF LoginConfig
    <2>3. CASE key # NoKey
        <3> DEFINE r == [pc |-> "verify", given |-> req[h].given, key |-> key,
                         version |-> version]
        <3>1. r \in Requests BY <1>1, <2>1, <2>3, RequestValues
        <3>2. Local(r) BY <1>1, <2>3 DEF Local, Pair
        <3>3. Goto(h, r) BY <1>6, <2>3 DEF LoginConfig
        <3> QED BY <3>1, <3>2, <3>3
    <2> QED BY <2>2, <2>3
<1>7. ASSUME Verify(h) PROVE \E r \in Requests : Local(r) /\ Goto(h, r)
    <2>1. req[h].given \in Keys /\ req[h].version \in 1..MaxVersion
          /\ Pair(req[h].version, req[h].key) /\ key # NoKey
        BY <1>1, <1>7, RequestFields DEF Verify, Local
    <2>2. CASE req[h].given = req[h].key
        <3> DEFINE r == [pc |-> "issue", given |-> req[h].given, version |-> req[h].version]
        <3>1. r \in Requests BY <2>1, RequestValues
        <3>2. Local(r) BY <2>1, <2>2 DEF Local
        <3>3. Goto(h, r) BY <1>7, <2>2 DEF Verify, SessionVersion
        <3> QED BY <3>1, <3>2, <3>3
    <2>3. CASE req[h].given # req[h].key BY <1>3, <1>7, <2>3 DEF Verify
    <2> QED BY <2>2, <2>3
<1>8. ASSUME RequireAuth(h) PROVE \E r \in Requests : Local(r) /\ Goto(h, r)
    <2>1. req[h].version \in 1..MaxVersion /\ req[h].version =< version /\ key # NoKey
        BY <1>1, <1>8, RequestFields DEF RequireAuth, Local
    <2> QED BY <1>3, <1>8, <2>1, RequestValues DEF RequireAuth, Local
<1>9. ASSUME AlreadyInitialized(h) \/ Finish(h)
      PROVE  \E r \in Requests : Local(r) /\ Goto(h, r)
    BY <1>3, <1>9 DEF AlreadyInitialized, Finish
<1> QED BY <1>2, <1>4, <1>5, <1>6, <1>7, <1>8, <1>9, LocalStep

-----------------------------------------------------------------------------
(* The first key: nobody holds a version yet, so nothing can disagree.     *)
LEMMA BootstrapStep ==
    ASSUME IInv, NEW h \in Handlers, Bootstrap(h)
    PROVE  IInv'
<1>1. key = NoKey /\ key' = req[h].given /\ version' = 1 /\ created' = created + 1
      /\ cookies' = cookies
    BY DEF Bootstrap, MayBootstrap
<1> DEFINE r == [pc |-> "issue", given |-> req[h].given, version |-> 1]
<1>2. req' = [req EXCEPT ![h] = r] /\ req \in [Handlers -> Requests]
    BY DEF Bootstrap, Goto, IInv, TypeOK
<1>3. req[h].given \in Keys
    BY <1>2, RequestFields DEF Bootstrap
<1>4. created = 0 /\ cookies = {}
    BY <1>1 DEF IInv, BootstrapOnce, CookiesOK
<1>5. r \in Requests BY <1>3, SessionAssumption, RequestValues
<1>6. TypeOK'
    BY <1>1, <1>2, <1>3, <1>5, SessionAssumption DEF IInv, TypeOK
<1>7. ASSUME NEW g \in Handlers PROVE Local(req[g])'
    <2>1. CASE g = h
        <3>1. req'[g] = r BY <1>2, <2>1
        <3>2. key' # NoKey BY <1>1, <1>3, SessionAssumption
        <3> QED BY <1>1, <3>1, <3>2 DEF Local, Pair
    <2>2. CASE g # h
        <3>1. req'[g] = req[g] BY <1>2, <2>2
        <3>2. req[g].pc \notin {"verify", "issue", "decoded", "allowed"}
            BY <1>1 DEF IInv, LocalsOK, Local
        <3> QED BY <3>1, <3>2 DEF Local
    <2> QED BY <2>1, <2>2
<1>8. BootstrapOnce'
    BY <1>1, <1>3, <1>4, SessionAssumption DEF BootstrapOnce
<1>9. CookiesOK' BY <1>1, <1>4 DEF CookiesOK
<1> QED BY <1>6, <1>7, <1>8, <1>9 DEF IInv, LocalsOK

(* A cookie takes over what its request held.                              *)
LEMMA SetCookieStep ==
    ASSUME IInv, NEW h \in Handlers, SetCookie(h)
    PROVE  IInv'
<1>1. UNCHANGED <<key, version, created>> /\ req' = [req EXCEPT ![h] = Idle]
    BY DEF SetCookie, Goto
<1> DEFINE c == [version |-> req[h].version, left |-> TTL, knows |-> req[h].given]
<1>2. cookies' = cookies \cup {c} BY DEF SetCookie
<1>3. req[h].pc = "issue" /\ req[h] \in Requests /\ Local(req[h])
    BY DEF SetCookie, IInv, TypeOK, LocalsOK
<1>4. c \in Cookies
    <2>1. TTL \in 0..TTL BY SessionAssumption
    <2> QED BY <1>3, <2>1, RequestFields DEF Cookies
<1>5. Pair(c.version, c.knows) /\ key # NoKey
    BY <1>3 DEF Local
<1>6. TypeOK'
    BY <1>1, <1>2, <1>4, RequestValues DEF IInv, TypeOK
<1>7. CookiesOK'
    BY <1>1, <1>2, <1>5 DEF IInv, CookiesOK, Pair
<1>8. ASSUME NEW g \in Handlers PROVE Local(req[g])'
    <2>1. req'[g] = Idle \/ req'[g] = req[g]
        BY <1>1 DEF IInv, TypeOK
    <2>2. Local(req[g]) BY DEF IInv, LocalsOK
    <2> QED BY <1>1, <2>1, <2>2 DEF Local, Pair, Idle
<1> QED BY <1>1, <1>6, <1>7, <1>8 DEF IInv, LocalsOK, BootstrapOnce

(* A reset gives a version that nobody holds.                              *)
LEMMA ResetStep ==
    ASSUME IInv, NEW h \in Handlers, NEW new \in Keys, Reset(h, new)
    PROVE  IInv'
<1>1. UNCHANGED <<cookies, created>> /\ req' = [req EXCEPT ![h] = Idle]
      /\ key' = new /\ version' = version + 1 /\ version < MaxVersion
    BY DEF Reset, Goto
<1>2. key # NoKey /\ new # NoKey
    BY SessionAssumption DEF Reset, IInv, LocalsOK, Local
<1>3. version \in 1..MaxVersion /\ version' \in 1..MaxVersion
    BY <1>1, SessionAssumption DEF IInv, TypeOK
<1>4. TypeOK'
    BY <1>1, <1>3, RequestValues DEF IInv, TypeOK
<1>5. ASSUME NEW c \in cookies PROVE Pair(c.version, c.knows)'
    <2>1. c.version \in 1..MaxVersion /\ c.version =< version
        BY DEF IInv, TypeOK, Cookies, CookiesOK, Pair
    <2> QED BY <1>1, <1>3, <2>1 DEF Pair
<1>6. ASSUME NEW g \in Handlers PROVE Local(req[g])'
    <2>1. CASE req'[g] = Idle BY <2>1 DEF Local, Idle
    <2>2. CASE req'[g] = req[g]
        <3>1. req[g] \in Requests /\ Local(req[g]) BY DEF IInv, TypeOK, LocalsOK
        <3>2. req[g].pc \in {"verify", "issue", "decoded", "allowed"}
                 => req[g].version \in 1..MaxVersion /\ req[g].version < version'
            BY <1>1, <1>3, <3>1, RequestFields DEF Local, Pair
        <3> QED BY <1>1, <1>2, <1>3, <2>2, <3>2 DEF Local, Pair
    <2> QED BY <1>1, <2>1, <2>2 DEF IInv, TypeOK
<1>7. BootstrapOnce'
    BY <1>1, <1>2 DEF IInv, BootstrapOnce
<1> QED BY <1>1, <1>2, <1>4, <1>5, <1>6, <1>7 DEF IInv, LocalsOK, CookiesOK

(* Cookies that grow old or are dropped, and requests that are cut short.  *)
LEMMA CookieStep ==
    ASSUME IInv, Tick \/ (\E c \in cookies : ForgetCookie(c))
    PROVE  IInv'
<1>1. UNCHANGED <<key, version, req, created>>
    BY DEF Tick, ForgetCookie
<1>2. \A d \in cookies' : d \in Cookies /\ \E c \in cookies :
                              d.version = c.version /\ d.knows = c.knows
    <2>1. CASE Tick
        <3> DEFINE Older(c) == [c EXCEPT !.left = IF Unexpired(c) THEN @ - 1 ELSE @]
        <3>1. cookies' = {Older(c) : c \in cookies} BY <2>1 DEF Tick
        <3>2. ASSUME NEW c \in cookies
              PROVE  /\ Older(c) \in Cookies
                     /\ Older(c).version = c.version /\ Older(c).knows = c.knows
            <4>1. c \in Cookies BY DEF IInv, TypeOK
            <4> QED BY <4>1, SessionAssumption DEF Cookies, Unexpired
        <3> HIDE DEF Older
        <3> QED BY <3>1, <3>2
    <2>2. CASE \E c \in cookies : ForgetCookie(c)
        BY <2>2 DEF ForgetCookie, IInv, TypeOK
    <2> QED BY <2>1, <2>2
<1>3. TypeOK' BY <1>1, <1>2 DEF IInv, TypeOK
<1>4. CookiesOK'
    BY <1>1, <1>2 DEF IInv, CookiesOK, Pair
<1>5. LocalsOK' /\ BootstrapOnce'
    BY <1>1 DEF IInv, LocalsOK, Local, Pair, BootstrapOnce
<1> QED BY <1>3, <1>4, <1>5 DEF IInv

LEMMA RestartStep ==
    ASSUME IInv, Restart
    PROVE  IInv'
<1>1. UNCHANGED <<key, version, cookies, created>> /\ req' = [h \in Handlers |-> Idle]
    BY DEF Restart, UnchangedStore
<1>2. TypeOK' BY <1>1, RequestValues DEF IInv, TypeOK
<1>3. LocalsOK' BY <1>1 DEF LocalsOK, Local, Idle
<1>4. CookiesOK' /\ BootstrapOnce'
    BY <1>1 DEF IInv, CookiesOK, BootstrapOnce, Pair
<1> QED BY <1>2, <1>3, <1>4 DEF IInv

-----------------------------------------------------------------------------
LEMMA InitIInv == Init => IInv
<1> SUFFICES ASSUME Init PROVE IInv
    OBVIOUS
<1>1. TypeOK BY RequestValues, SessionAssumption DEF Init, TypeOK
<1>2. LocalsOK BY DEF Init, LocalsOK, Local, Idle
<1>3. CookiesOK /\ BootstrapOnce BY DEF Init, CookiesOK, BootstrapOnce
<1> QED BY <1>1, <1>2, <1>3 DEF IInv

LEMMA NextIInv == IInv /\ [Next]_vars => IInv'
<1> SUFFICES ASSUME IInv, [Next]_vars PROVE IInv'
    OBVIOUS
<1>1. CASE UNCHANGED vars
    <2>1. UNCHANGED <<key, version, cookies, req, created>> BY <1>1 DEF vars
    <2>2. TypeOK' /\ BootstrapOnce' BY <2>1 DEF IInv, TypeOK, BootstrapOnce
    <2>3. LocalsOK' /\ CookiesOK' BY <2>1 DEF IInv, LocalsOK, Local, CookiesOK, Pair
    <2> QED BY <2>2, <2>3 DEF IInv
<1>2. CASE Next
    BY <1>2, RequestStep, BootstrapStep, SetCookieStep, ResetStep, CookieStep, RestartStep
       DEF Next, Administer, Work
<1> QED BY <1>1, <1>2

(* The invariant holds for every behaviour of the specification.           *)
THEOREM Invariant == Spec => []IInv
BY InitIInv, NextIInv, PTL DEF Spec

(* Types; in particular every version anybody holds was given out.         *)
THEOREM TypesAreRight == Spec => []TypeOK
<1>1. IInv => TypeOK BY DEF IInv
<1> QED BY <1>1, Invariant, PTL

(* Of any number of simultaneous bootstraps one wins.                      *)
THEOREM OneBootstrapWins == Spec => []BootstrapOnce
<1>1. IInv => BootstrapOnce BY DEF IInv
<1> QED BY <1>1, Invariant, PTL

(* Whoever is let in has given the key that is in force, however logins    *)
(* and resets overlap.                                                     *)
THEOREM SessionsAreEarned == Spec => []SessionsKnowTheKey
<1>1. IInv => SessionsKnowTheKey
    BY DEF IInv, CookiesOK, Pair, SessionsKnowTheKey, Matches
<1> QED BY <1>1, Invariant, PTL

-----------------------------------------------------------------------------
(* Only a bootstrap and a reset change key or version.                     *)
LEMMA KeySteps ==
    ASSUME Next, <<key, version>>' # <<key, version>>
    PROVE  \E h \in Handlers : Bootstrap(h) \/ \E new \in Keys : Reset(h, new)
BY DEF Next, Administer, Work, ArriveBootstrap, ArriveLogin, ArriveWithCookie, AlreadyInitialized,
       LoginConfig, Verify, SetCookie, RequireAuth, Finish, ForgetCookie, Restart, Tick,
       UnchangedStore

(* A change of the key leaves no session behind, neither one that a        *)
(* browser has nor one that a request is about to give or to check.        *)
THEOREM ResetIsFinal == Spec => ResetEndsSessions
<1>1. ASSUME IInv, [Next]_vars, <<key, version>>' # <<key, version>>
      PROVE  version' \notin LiveVersions
    <2> SUFFICES ASSUME version' \in LiveVersions PROVE FALSE
        OBVIOUS
    <2>1. PICK h \in Handlers : Bootstrap(h) \/ \E new \in Keys : Reset(h, new)
        BY <1>1, KeySteps DEF vars
    <2>2. version' \in 1..MaxVersion /\ version' =< version /\ key # NoKey
        <3>1. CASE \E c \in cookies : version' = c.version
            BY <1>1, <3>1 DEF IInv, TypeOK, Cookies, CookiesOK, Pair
        <3>2. CASE \E g \in Handlers : /\ req[g].pc \in {"verify", "issue", "decoded"}
                                       /\ version' = req[g].version
            <4>1. PICK g \in Handlers : /\ req[g].pc \in {"verify", "issue", "decoded"}
                                        /\ version' = req[g].version
                BY <3>2
            <4>2. req[g] \in Requests /\ Local(req[g]) BY <1>1 DEF IInv, TypeOK, LocalsOK
            <4> QED BY <4>1, <4>2, RequestFields DEF Local, Pair
        <3> QED BY <3>1, <3>2 DEF LiveVersions
    <2>3. version' = version + 1
        BY <2>1, <2>2 DEF Bootstrap, MayBootstrap, Reset
    <2>4. version \in Nat BY <1>1, SessionAssumption DEF IInv, TypeOK
    <2> QED BY <2>2, <2>3, <2>4
<1> QED BY <1>1, Invariant, PTL DEF Spec, ResetEndsSessions

-----------------------------------------------------------------------------
(***************************************************************************)
(* PublicApi.                                                              *)
(***************************************************************************)
(* What goes upstream, of one request.                                     *)
OneCredential(r) ==
    /\ r.outHeaders[Api!AuthHeader(r.outMode)] = Secret
    /\ \A n \in Api!Names \ {Api!AuthHeader(r.outMode)} :
          r.outHeaders[n] \notin Keys \cup {Secret}

Redirected(r, t) == Api!RedirectedBy(t, r.body, r.out)

(* What a request may hold between two steps, of the keys and the tables   *)
(* that were in force since it came.                                       *)
CallOK(r, given, tables) ==
    /\ r.pc \in Api!ProgramPoints
    /\ r.pc = "idle" => r = Api!Idle
    /\ r.pc \notin {"idle", "refused"} => r.headers \in HeaderSets
    /\ r.pc = "verify" => r.hash \in Keys /\ r.hash \in given
    /\ r.pc \in {"lookup", "proxy", "sent"} => Api!Provided(r.headers) \in given \ {NoKey}
    /\ r.pc \in {"proxy", "sent"} => \E t \in tables : Redirected(r, t)
    /\ r.pc = "sent" => OneCredential(r)
    /\ r.pc = "refused" => r.status \in {400, 401, 500, 503}

(* The histories of a request that is under way have what is in force.     *)
InForce(r, given, tables) ==
    IF r = Api!Idle THEN given = {} /\ tables = {} ELSE key \in given /\ table \in tables

ApiIInv ==
    /\ key \in Keys \cup {NoKey}
    /\ mode \in Api!AuthModes
    /\ table \in Tables
    /\ DOMAIN calls = Callers
    /\ valid \in [Callers -> SUBSET (Keys \cup {NoKey})]
    /\ served \in [Callers -> SUBSET Tables]
    /\ \A c \in Callers : CallOK(calls[c], valid[c], served[c])
    /\ \A c \in Callers : InForce(calls[c], valid[c], served[c])

LEMMA IdleOK == \A given, tables : CallOK(Api!Idle, given, tables)
BY DEF CallOK, Api!Idle, Api!ProgramPoints

LEMMA RefusedOK ==
    ASSUME NEW status \in {400, 401, 500, 503}, NEW given, NEW tables
    PROVE  CallOK(Api!Refused(status), given, tables) /\ Api!Refused(status) # Api!Idle
BY DEF CallOK, Api!Refused, Api!Idle, Api!ProgramPoints

(* Keys and tables that come into force take nothing from a request.       *)
LEMMA Longer ==
    ASSUME NEW r, NEW given, NEW tables, CallOK(r, given, tables),
           NEW moreGiven, given \subseteq moreGiven,
           NEW moreTables, tables \subseteq moreTables
    PROVE  CallOK(r, moreGiven, moreTables)
BY DEF CallOK

(* A step of one request that leaves the settings and histories alone.     *)
LEMMA OwnStep ==
    ASSUME ApiIInv, NEW c \in Callers, NEW r, calls[c] # Api!Idle, r # Api!Idle,
           CallOK(r, valid[c], served[c]), Api!Goto(c, r), Api!UnchangedSettings
    PROVE  ApiIInv'
<1>1. UNCHANGED <<key, mode, table, valid, served>> /\ calls' = [calls EXCEPT ![c] = r]
    BY DEF Api!Goto, Api!UnchangedSettings
<1>2. DOMAIN calls' = Callers BY <1>1 DEF ApiIInv
<1>3. ASSUME NEW d \in Callers
      PROVE  CallOK(calls[d], valid[d], served[d])' /\ InForce(calls[d], valid[d], served[d])'
    <2>1. CASE d = c
        <3>1. calls'[d] = r BY <1>1, <2>1 DEF ApiIInv
        <3>2. InForce(calls[c], valid[c], served[c]) BY DEF ApiIInv
        <3> QED BY <1>1, <2>1, <3>1, <3>2 DEF CallOK, InForce
    <2>2. CASE d # c
        <3>1. calls'[d] = calls[d] BY <1>1, <2>2 DEF ApiIInv
        <3>2. CallOK(calls[d], valid[d], served[d]) /\ InForce(calls[d], valid[d], served[d])
            BY DEF ApiIInv
        <3> QED BY <1>1, <3>1, <3>2 DEF CallOK, InForce
    <2> QED BY <2>1, <2>2
<1> QED BY <1>1, <1>2, <1>3 DEF ApiIInv

(* Headers: whatever the client sends and its Connection header names, one *)
(* credential leaves, in the header the auth mode asks for.                *)
LEMMA OneCredentialLeaves ==
    ASSUME NEW headers \in HeaderSets, NEW nominated, NEW m \in Api!AuthModes
    PROVE  LET out == Api!Outgoing(headers, nominated, m)
           IN  /\ out[Api!AuthHeader(m)] = Secret
               /\ \A n \in Api!Names \ {Api!AuthHeader(m)} : out[n] \notin Keys \cup {Secret}
<1> DEFINE copied == Api!Copied(headers, nominated)
           stripped == Api!Stripped(copied)
           out == Api!Outgoing(headers, nominated, m)
<1>1. Api!AuthHeader(m) \in Api!Credentials /\ Api!Credentials \subseteq Api!Names
    BY DEF Api!AuthHeader, Api!Credentials, Api!Names
<1>2. \A n \in Api!Names \ Api!Credentials : copied[n] \in {NULL, "text"}
    BY AccessAssumption DEF Api!Copied
<1>3. /\ DOMAIN stripped = Api!Names
      /\ \A n \in Api!Names : stripped[n] \in {NULL, "text"}
    BY <1>2 DEF Api!Stripped
<1>4. NULL \notin Keys \cup {Secret} /\ "text" \notin Keys \cup {Secret}
    BY AccessAssumption
<1>5. out = [stripped EXCEPT ![Api!AuthHeader(m)] = Secret]
    BY DEF Api!Outgoing, Api!WithUpstreamAuth
<1>6. /\ out[Api!AuthHeader(m)] = Secret
      /\ \A n \in Api!Names \ {Api!AuthHeader(m)} : out[n] \notin Keys \cup {Secret}
    <2> HIDE DEF stripped, out
    <2> QED BY <1>1, <1>3, <1>4, <1>5
<1> QED BY <1>6

(* Bodies.                                                                 *)
LEMMA AbsentHasNoName == Api!Absent.name = ""
BY DEF Api!Absent

(* A lookup in the table in force redirects by that table, once: neither   *)
(* names nor targets are empty, and what was set is the last of two.       *)
LEMMA LookupRedirects ==
    ASSUME NEW body,
           "" \notin DOMAIN table, \A model \in DOMAIN table : table[model] # ""
    PROVE  Api!RedirectedBy(table, body,
                            Api!Rewritten(body, Api!ExtractModel(body), table))
<1>1. PICK field : field = Api!Given(body) /\ field.name = Api!ExtractModel(body)
    BY DEF Api!ExtractModel
<1>2. field \in Api!Models(body) \/ (Api!Models(body) = {} /\ field = Api!Absent)
    BY <1>1 DEF Api!Given, Api!Models
<1>3. PICK out : out = Api!Rewritten(body, Api!ExtractModel(body), table) OBVIOUS
<1>4. CASE field.name \in DOMAIN table
    <2>1. field \in Api!Models(body)
        <3>1. field # Api!Absent BY <1>4, AbsentHasNoName
        <3> QED BY <1>2, <3>1
    <2>2. PICK target : target = Api!Plain(table[field.name]) OBVIOUS
    <2>3. out.model = target /\ out.Model = body.Model /\ out.last = "model"
        <3>1. field.name # "" BY <1>4
        <3>2. out = [model |-> target, Model |-> body.Model, last |-> "model"]
            BY <1>1, <1>3, <1>4, <2>2, <3>1 DEF Api!Rewritten, Api!Target
        <3> QED BY <3>2
    <2>4. target # Api!Absent
        <3>1. target.name # "" BY <1>4, <2>2 DEF Api!Plain
        <3> QED BY <3>1, AbsentHasNoName
    <2>5. Api!Given(out) = out.model BY <2>3, <2>4 DEF Api!Given
    <2> QED BY <1>3, <1>4, <2>1, <2>2, <2>3, <2>5 DEF Api!RedirectedBy
<1>5. CASE field.name \notin DOMAIN table
    <2>1. out = body BY <1>1, <1>3, <1>5 DEF Api!Rewritten
    <2> QED BY <1>2, <1>3, <1>5, <2>1 DEF Api!RedirectedBy
<1> QED BY <1>4, <1>5

-----------------------------------------------------------------------------
LEMMA ReadSteps ==
    ASSUME ApiIInv, NEW c \in Callers, Api!ReadBody(c) \/ Api!ReadConfig(c) \/ Api!Verify(c)
    PROVE  ApiIInv'
<1> DEFINE r == calls[c]
<1>1. CallOK(r, valid[c], served[c]) /\ InForce(r, valid[c], served[c])
    BY DEF ApiIInv
<1>2. r # Api!Idle /\ r.pc \in {"body", "config", "verify"} /\ Api!UnchangedSettings
    BY DEF Api!ReadBody, Api!ReadConfig, Api!Verify, Api!Idle
<1>3. r.headers \in HeaderSets /\ key \in valid[c] BY <1>1, <1>2 DEF CallOK, InForce
<1>4. ASSUME NEW status \in {400, 401, 500, 503}, Api!Goto(c, Api!Refused(status))
      PROVE  ApiIInv'
    BY <1>2, <1>4, RefusedOK, OwnStep
<1>5. CASE Api!ReadBody(c)
    <2> DEFINE s == [r EXCEPT !.pc = "config"]
    <2>1. ASSUME Api!Goto(c, s) PROVE ApiIInv'
        <3>1. s.pc = "config" /\ s.headers = r.headers
            BY <1>5 DEF Api!ReadBody
        <3>2. CallOK(s, valid[c], served[c]) /\ s # Api!Idle
            BY <1>3, <3>1 DEF CallOK, Api!ProgramPoints, Api!Idle
        <3> QED BY <1>2, <2>1, <3>2, OwnStep
    <2> QED BY <1>4, <1>5, <2>1 DEF Api!ReadBody
<1>6. CASE Api!ReadConfig(c)
    <2> DEFINE s == [pc |-> "verify", headers |-> r.headers, nominated |-> r.nominated,
                     body |-> r.body, hash |-> key]
    <2>1. ASSUME key # NoKey, Api!Goto(c, s) PROVE ApiIInv'
        <3>1. key \in Keys BY <2>1 DEF ApiIInv
        <3>2. CallOK(s, valid[c], served[c]) /\ s # Api!Idle
            BY <1>3, <3>1 DEF CallOK, Api!ProgramPoints, Api!Idle
        <3> QED BY <1>2, <2>1, <3>2, OwnStep
    <2> QED BY <1>4, <1>6, <2>1 DEF Api!ReadConfig
<1>7. CASE Api!Verify(c)
    <2> DEFINE s == [pc |-> "lookup", headers |-> r.headers,
                     nominated |-> r.nominated, body |-> r.body]
    <2>1. CASE Api!Verifies(r.headers, r.hash)
        <3>1. Api!Goto(c, s) BY <1>7, <2>1 DEF Api!Verify
        <3>2. r.hash \in valid[c] /\ r.hash \in Keys BY <1>1, <1>7 DEF CallOK, Api!Verify
        <3>3. Api!Provided(r.headers) \in valid[c] \ {NoKey}
            BY <2>1, <3>2, SessionAssumption DEF Api!Verifies
        <3>4. CallOK(s, valid[c], served[c]) /\ s # Api!Idle
            BY <1>3, <3>3 DEF CallOK, Api!ProgramPoints, Api!Idle
        <3> QED BY <1>2, <3>1, <3>4, OwnStep
    <2>2. CASE ~ Api!Verifies(r.headers, r.hash)
        BY <1>4, <1>7, <2>2 DEF Api!Verify
    <2> QED BY <2>1, <2>2
<1> QED BY <1>5, <1>6, <1>7

LEMMA LookupStep ==
    ASSUME ApiIInv, NEW c \in Callers, Api!Lookup(c)
    PROVE  ApiIInv'
<1> DEFINE r == calls[c]
           s == [pc |-> "proxy", headers |-> r.headers, nominated |-> r.nominated,
                 body |-> r.body,
                 out |-> Api!Rewritten(r.body, Api!ExtractModel(r.body), table)]
<1>1. CallOK(r, valid[c], served[c]) /\ InForce(r, valid[c], served[c])
    BY DEF ApiIInv
<1>2. r # Api!Idle /\ r.pc = "lookup" /\ Api!UnchangedSettings
    BY DEF Api!Lookup, Api!Idle
<1>3. /\ table \in served[c] /\ "" \notin DOMAIN table
      /\ \A model \in DOMAIN table : table[model] # ""
    BY <1>1, <1>2, AccessAssumption DEF InForce, ApiIInv
<1>4. Redirected(s, table)
    BY <1>3, LookupRedirects DEF Redirected
<1>5. CallOK(s, valid[c], served[c]) /\ s # Api!Idle
    <2>1. s.pc = "proxy" /\ s.headers = r.headers OBVIOUS
    <2>2. \E t \in served[c] : Redirected(s, t) BY <1>3, <1>4
    <2>3. r.headers \in HeaderSets /\ Api!Provided(r.headers) \in valid[c] \ {NoKey}
        BY <1>1, <1>2 DEF CallOK
    <2> HIDE DEF s
    <2> QED BY <2>1, <2>2, <2>3 DEF CallOK, Api!ProgramPoints, Api!Idle
<1>6. Api!Goto(c, s) \/ Api!Goto(c, Api!Refused(500))
    BY DEF Api!Lookup
<1> HIDE DEF s
<1> QED BY <1>2, <1>5, <1>6, RefusedOK, OwnStep

LEMMA SendStep ==
    ASSUME ApiIInv, NEW c \in Callers, Api!Send(c)
    PROVE  ApiIInv'
<1> DEFINE r == calls[c]
           s == [pc |-> "sent", headers |-> r.headers, nominated |-> r.nominated,
                 body |-> r.body, out |-> r.out,
                 outHeaders |-> Api!Outgoing(r.headers, r.nominated, mode),
                 outMode |-> mode]
<1>1. CallOK(r, valid[c], served[c]) BY DEF ApiIInv
<1>2. r # Api!Idle /\ r.pc = "proxy" /\ Api!UnchangedSettings /\ Api!Goto(c, s)
    BY DEF Api!Send, Api!Idle
<1>3. OneCredential(s)
    <2>1. r.headers \in HeaderSets /\ mode \in Api!AuthModes
        BY <1>1, <1>2 DEF CallOK, ApiIInv
    <2> QED BY <2>1, OneCredentialLeaves DEF OneCredential
<1>4. \E t \in served[c] : Redirected(s, t)
    BY <1>1, <1>2 DEF CallOK, Redirected
<1>5. s.pc = "sent" /\ s.headers = r.headers OBVIOUS
<1> HIDE DEF s
<1>6. CallOK(s, valid[c], served[c]) /\ s # Api!Idle
    BY <1>1, <1>2, <1>3, <1>4, <1>5 DEF CallOK, Api!ProgramPoints, Api!Idle
<1> QED BY <1>2, <1>6, OwnStep

(* A request comes, and what is in force then is what it starts with.      *)
LEMMA ArriveStep ==
    ASSUME ApiIInv, NEW c \in Callers, Api!Arrive(c)
    PROVE  ApiIInv'
<1>1. PICK headers \in HeaderSets, nominated \in Nominations, body \in Bodies :
          Api!Goto(c, [pc |-> "body", headers |-> headers, nominated |-> nominated,
                       body |-> body])
    BY DEF Api!Arrive
<1> DEFINE s == [pc |-> "body", headers |-> headers, nominated |-> nominated, body |-> body]
<1>2. /\ calls' = [calls EXCEPT ![c] = s]
      /\ valid' = [valid EXCEPT ![c] = {key}] /\ served' = [served EXCEPT ![c] = {table}]
      /\ UNCHANGED <<key, mode, table>>
    BY <1>1 DEF Api!Arrive, Api!Goto
<1>3. CallOK(s, {key}, {table}) /\ s # Api!Idle
    BY DEF CallOK, Api!ProgramPoints, Api!Idle
<1> HIDE DEF s
<1>4. /\ DOMAIN calls' = Callers
      /\ valid' \in [Callers -> SUBSET (Keys \cup {NoKey})]
      /\ served' \in [Callers -> SUBSET Tables]
    BY <1>2 DEF ApiIInv
<1>5. ASSUME NEW d \in Callers
      PROVE  CallOK(calls[d], valid[d], served[d])' /\ InForce(calls[d], valid[d], served[d])'
    <2>1. CASE d = c
        <3>1. calls'[d] = s /\ valid'[d] = {key} /\ served'[d] = {table}
            BY <1>2, <2>1 DEF ApiIInv
        <3> QED BY <1>2, <1>3, <3>1 DEF CallOK, InForce
    <2>2. CASE d # c
        <3>1. calls'[d] = calls[d] /\ valid'[d] = valid[d] /\ served'[d] = served[d]
            BY <1>2, <2>2 DEF ApiIInv
        <3>2. CallOK(calls[d], valid[d], served[d]) /\ InForce(calls[d], valid[d], served[d])
            BY DEF ApiIInv
        <3> QED BY <1>2, <3>1, <3>2 DEF CallOK, InForce
    <2> QED BY <2>1, <2>2
<1> QED BY <1>2, <1>4, <1>5 DEF ApiIInv

(* Requests that end, one or all of them.                                  *)
LEMMA EndStep ==
    ASSUME ApiIInv, (\E c \in Callers : Api!Finish(c)) \/ Api!Restart
    PROVE  ApiIInv'
<1>1. UNCHANGED <<key, mode, table>> BY DEF Api!Finish, Api!Restart
<1>2. /\ DOMAIN calls' = Callers
      /\ valid' \in [Callers -> SUBSET (Keys \cup {NoKey})]
      /\ served' \in [Callers -> SUBSET Tables]
    BY DEF ApiIInv, Api!Finish, Api!Restart, Api!Goto
<1>3. ASSUME NEW d \in Callers
      PROVE  \/ calls'[d] = Api!Idle /\ valid'[d] = {} /\ served'[d] = {}
             \/ calls'[d] = calls[d] /\ valid'[d] = valid[d] /\ served'[d] = served[d]
    BY DEF ApiIInv, Api!Finish, Api!Restart, Api!Goto
<1>4. ASSUME NEW d \in Callers
      PROVE  CallOK(calls[d], valid[d], served[d])' /\ InForce(calls[d], valid[d], served[d])'
    <2>1. CallOK(calls[d], valid[d], served[d]) /\ InForce(calls[d], valid[d], served[d])
        BY DEF ApiIInv
    <2>2. CallOK(calls'[d], valid'[d], served'[d])
        BY <1>3, <2>1, IdleOK
    <2> QED BY <1>1, <1>3, <2>1, <2>2 DEF CallOK, InForce
<1> QED BY <1>1, <1>2, <1>4 DEF ApiIInv

(* Settings that change are noted with every request that is under way.    *)
LEMMA SettingsStep ==
    ASSUME ApiIInv, \/ key' \in Keys \cup {NoKey} /\ Api!KeyStored
                    \/ Api!SetMode \/ Api!SetTable
    PROVE  ApiIInv'
<1>1. key' \in Keys \cup {NoKey} /\ mode' \in Api!AuthModes /\ table' \in Tables /\ calls' = calls
    BY DEF ApiIInv, Api!KeyStored, Api!SetMode, Api!SetTable
<1>2. ASSUME NEW d \in Callers
      PROVE  IF calls[d] = Api!Idle THEN valid'[d] = {} /\ served'[d] = {}
             ELSE /\ valid'[d] = valid[d] \cup {key'}
                  /\ served'[d] = served[d] \cup {table'}
    <2>1. InForce(calls[d], valid[d], served[d]) BY DEF ApiIInv
    <2> QED BY <2>1 DEF InForce, ApiIInv, Api!KeyStored, Api!SetMode, Api!SetTable, Api!Active
<1>3. /\ valid' \in [Callers -> SUBSET (Keys \cup {NoKey})]
      /\ served' \in [Callers -> SUBSET Tables]
    <2>1. DOMAIN valid' = Callers /\ valid' = [d \in Callers |-> valid'[d]]
        BY DEF ApiIInv, Api!KeyStored, Api!SetMode, Api!SetTable
    <2>2. DOMAIN served' = Callers /\ served' = [d \in Callers |-> served'[d]]
        BY DEF ApiIInv, Api!KeyStored, Api!SetMode, Api!SetTable
    <2>3. ASSUME NEW d \in Callers
          PROVE  valid'[d] \subseteq Keys \cup {NoKey} /\ served'[d] \subseteq Tables
        BY <1>1, <1>2 DEF ApiIInv
    <2> QED BY <2>1, <2>2, <2>3
<1>4. ASSUME NEW d \in Callers
      PROVE  CallOK(calls[d], valid[d], served[d])' /\ InForce(calls[d], valid[d], served[d])'
    <2>1. CallOK(calls[d], valid[d], served[d]) /\ InForce(calls[d], valid[d], served[d])
        BY DEF ApiIInv
    <2>2. valid[d] \subseteq valid'[d] /\ served[d] \subseteq served'[d]
        BY <1>2, <2>1 DEF InForce
    <2>3. CallOK(calls[d], valid'[d], served'[d])
        BY <2>1, <2>2, Longer
    <2> QED BY <1>1, <1>2, <2>3 DEF CallOK, InForce
<1> QED BY <1>1, <1>3, <1>4 DEF ApiIInv

-----------------------------------------------------------------------------
LEMMA ApiInitIInv == Api!Init => ApiIInv
<1> SUFFICES ASSUME Api!Init PROVE ApiIInv
    OBVIOUS
<1>1. \A c \in Callers : calls[c] = Api!Idle /\ valid[c] = {} /\ served[c] = {}
    BY DEF Api!Init
<1>2. \A c \in Callers : CallOK(calls[c], valid[c], served[c])
    BY <1>1, IdleOK
<1>3. \A c \in Callers : InForce(calls[c], valid[c], served[c])
    BY <1>1 DEF InForce
<1> QED BY <1>2, <1>3 DEF Api!Init, ApiIInv

LEMMA ServeStep ==
    ASSUME ApiIInv, NEW c \in Callers, Api!Serve(c)
    PROVE  ApiIInv'
BY ArriveStep, ReadSteps, LookupStep, SendStep, EndStep DEF Api!Serve

LEMMA ApiNextIInv == ApiIInv /\ [Api!Next]_(Api!vars) => ApiIInv'
<1> SUFFICES ASSUME ApiIInv, [Api!Next]_(Api!vars) PROVE ApiIInv'
    OBVIOUS
<1>1. CASE UNCHANGED Api!vars
    <2>1. UNCHANGED <<key, mode, table, calls, valid, served>> BY <1>1 DEF Api!vars
    <2> QED BY <2>1 DEF ApiIInv, CallOK, InForce
<1>2. CASE Api!Next
    <2>1. CASE Api!SetKey BY <2>1, SettingsStep DEF Api!SetKey
    <2> QED BY <1>2, <2>1, ServeStep, SettingsStep, EndStep DEF Api!Next
<1> QED BY <1>1, <1>2

LEMMA ApiIInvImplies == ApiIInv => Api!TypeOK /\ OnlyHoldersPass /\ UpstreamGets
<1> SUFFICES ASSUME ApiIInv PROVE Api!TypeOK /\ OnlyHoldersPass /\ UpstreamGets
    OBVIOUS
<1>1. HeaderSets \subseteq Api!Headers
    BY AccessAssumption DEF Api!Headers
<1>2. Api!TypeOK
    BY <1>1 DEF ApiIInv, CallOK, Api!TypeOK
<1>3. OnlyHoldersPass
    BY DEF ApiIInv, CallOK, OnlyHoldersPass, Api!OnlyHoldersPass, Api!Passed
<1>4. Api!OneCredentialUpstream
    BY DEF ApiIInv, CallOK, OneCredential, Api!OneCredentialUpstream
<1>5. Api!RedirectedByOneTable
    BY DEF ApiIInv, CallOK, Redirected, Api!RedirectedByOneTable
<1> QED BY <1>2, <1>3, <1>4, <1>5 DEF UpstreamGets, Api!UpstreamGets

-----------------------------------------------------------------------------
(***************************************************************************)
(* Access.                                                                 *)
(***************************************************************************)
(* Without a key there is nobody who could have changed anything.          *)
Untouched ==
    key = NoKey => DOMAIN table = {} /\ \A c \in Callers : valid[c] \subseteq {NoKey}

AccessIInv == IInv /\ ApiIInv /\ Untouched

LEMMA AccessInitIInv == AccessInit => AccessIInv
<1> SUFFICES ASSUME AccessInit PROVE AccessIInv
    OBVIOUS
<1>1. IInv /\ ApiIInv BY InitIInv, ApiInitIInv DEF AccessInit
<1>2. Untouched BY DEF AccessInit, Api!Init, Untouched
<1> QED BY <1>1, <1>2 DEF AccessIInv

(* A caller's step changes no setting, and no key comes into force by it.  *)
LEMMA CallersChangeNothing ==
    ASSUME ApiIInv, NEW c \in Callers, Api!Serve(c)
    PROVE  /\ UNCHANGED <<key, mode, table>>
           /\ \A d \in Callers : valid'[d] \subseteq valid[d] \cup {key}
<1>1. CASE Api!Arrive(c)
    BY <1>1 DEF Api!Arrive, ApiIInv
<1>2. CASE Api!Finish(c)
    BY <1>2 DEF Api!Finish, ApiIInv
<1>3. CASE Api!UnchangedSettings
    BY <1>3 DEF Api!UnchangedSettings
<1> QED BY <1>1, <1>2, <1>3 DEF Api!Serve, Api!ReadBody, Api!ReadConfig, Api!Verify,
           Api!Lookup, Api!Send

(* What a step of either handler is to the other.                          *)
LEMMA ServersApart ==
    ASSUME AccessIInv, AccessNext
    PROVE  /\ Next \/ UNCHANGED vars
           /\ Api!Next \/ UNCHANGED Api!vars
<1>1. ASSUME NEW h \in Handlers, AdminStep(h)
      PROVE  Next /\ (Api!Next \/ UNCHANGED Api!vars)
    <2>1. Next /\ Api!KeyStored BY <1>1 DEF AdminStep, Next
    <2>2. CASE key' = key
        <3>1. UNCHANGED <<mode, table, calls, served>> /\
              valid' = [c \in Callers |-> IF c \in Api!Active THEN valid[c] \cup {key'} ELSE {}]
            BY <2>1 DEF Api!KeyStored
        <3>2. ASSUME NEW c \in Callers
              PROVE  (IF c \in Api!Active THEN valid[c] \cup {key'} ELSE {}) = valid[c]
            BY <2>2 DEF AccessIInv, ApiIInv, InForce, Api!Active
        <3>3. valid' = valid BY <3>1, <3>2 DEF AccessIInv, ApiIInv
        <3> QED BY <2>1, <2>2, <3>1, <3>3 DEF Api!vars
    <2>3. CASE key' # key
        <3>1. \E g \in Handlers : Bootstrap(g) \/ \E new \in Keys : Reset(g, new)
            BY <2>1, <2>3, KeySteps
        <3>2. \A g \in Handlers : Bootstrap(g) => req[g].given \in Keys
            BY RequestFields DEF AccessIInv, IInv, TypeOK, Bootstrap
        <3>3. key' \in Keys BY <3>1, <3>2 DEF Bootstrap, Reset
        <3> QED BY <2>1, <2>3, <3>3 DEF Api!Next, Api!SetKey
    <2> QED BY <2>1, <2>2, <2>3
<1>2. ASSUME NEW h \in Handlers, Configure(h)
      PROVE  UNCHANGED vars /\ Api!Next
    BY <1>2 DEF Configure, vars, sessions, Api!Next, Api!SetMode, Api!SetTable
<1>3. ASSUME NEW c \in Callers, Call(c)
      PROVE  UNCHANGED vars /\ Api!Next
    BY <1>3, CallersChangeNothing DEF AccessIInv, Call, vars, sessions, Api!Next
<1>4. ASSUME Browser
      PROVE  Next /\ UNCHANGED Api!vars
    BY <1>4 DEF Browser, Next, Tick, ForgetCookie, Api!vars
<1>5. ASSUME Restart, Api!Restart
      PROVE  Next /\ Api!Next
    BY <1>5 DEF Next, Api!Next
<1> QED BY <1>1, <1>2, <1>3, <1>4, <1>5 DEF AccessNext

(* Only who passed requireAuth changes a redirect, and only once there is  *)
(* a key does anybody pass.                                                *)
LEMMA StaysUntouched ==
    ASSUME AccessIInv, AccessNext, IInv'
    PROVE  Untouched'
<1> SUFFICES ASSUME key' = NoKey
             PROVE  DOMAIN table' = {} /\ \A c \in Callers : valid'[c] \subseteq {NoKey}
    BY DEF Untouched
<1>1. key = NoKey
    <2> SUFFICES ASSUME key # NoKey PROVE FALSE
        OBVIOUS
    <2>1. Next BY ServersApart DEF vars
    <2>2. \E g \in Handlers : Bootstrap(g) \/ \E new \in Keys : Reset(g, new)
        BY <2>1, KeySteps
    <2> QED BY <2>2, SessionAssumption DEF Bootstrap, MayBootstrap, Reset
<1>2. DOMAIN table = {} /\ \A c \in Callers : valid[c] \subseteq {NoKey}
    BY <1>1 DEF AccessIInv, Untouched
<1>3. \A h \in Handlers : req[h].pc # "allowed"
    BY <1>1 DEF AccessIInv, IInv, LocalsOK, Local
<1>4. table' = table
    BY <1>3, CallersChangeNothing DEF AccessIInv, AccessNext, AdminStep, Configure, Call,
           Browser, Api!KeyStored, Api!Restart
<1>5. ASSUME NEW c \in Callers PROVE valid'[c] \subseteq valid[c] \cup {key, key'}
    <2>1. CASE \E h \in Handlers : AdminStep(h)
        BY <2>1 DEF AdminStep, Api!KeyStored
    <2>2. CASE \E d \in Callers : Call(d)
        BY <2>2, CallersChangeNothing DEF AccessIInv, Call
    <2>3. CASE Browser \/ Api!Restart
        BY <2>3 DEF Browser, Api!Restart
    <2> QED BY <1>3, <2>1, <2>2, <2>3 DEF AccessNext, Configure
<1> QED BY <1>1, <1>2, <1>4, <1>5

LEMMA AccessNextIInv == AccessIInv /\ [AccessNext]_all => AccessIInv'
<1> SUFFICES ASSUME AccessIInv, [AccessNext]_all PROVE AccessIInv'
    OBVIOUS
<1>1. (Next \/ UNCHANGED vars) /\ (Api!Next \/ UNCHANGED Api!vars)
    <2>1. CASE UNCHANGED all BY <2>1 DEF all, vars, Api!vars
    <2>2. CASE AccessNext BY <2>2, ServersApart
    <2> QED BY <2>1, <2>2
<1>2. IInv' /\ ApiIInv'
    BY <1>1, NextIInv, ApiNextIInv DEF AccessIInv
<1>3. Untouched'
    <2>1. CASE UNCHANGED all
        <3>1. UNCHANGED <<key, table, valid>> BY <2>1 DEF all, vars
        <3> QED BY <3>1 DEF AccessIInv, Untouched
    <2>2. CASE AccessNext BY <1>2, <2>2, StaysUntouched
    <2> QED BY <2>1, <2>2
<1> QED BY <1>2, <1>3 DEF AccessIInv

-----------------------------------------------------------------------------
(* The parts of the invariant that speak of callers hold under any         *)
(* administrator that PublicApi allows.                                    *)
THEOREM CallersInvariant == ApiSpec => []ApiIInv
BY ApiInitIInv, ApiNextIInv, PTL DEF ApiSpec, Api!Spec

(* The invariant of the composition.                                       *)
THEOREM AccessInvariant == AccessSpec => []AccessIInv
BY AccessInitIInv, AccessNextIInv, PTL DEF AccessSpec

(* Seen by the administrators, the public API does nothing: what is proved *)
(* of Sessions holds beside it.                                            *)
THEOREM ImplementsSessions == AccessSpec => Spec
<1>1. AccessInit => Init BY DEF AccessInit
<1>2. ASSUME AccessIInv, [AccessNext]_all PROVE [Next]_vars
    BY <1>2, ServersApart DEF all, vars
<1> QED BY <1>1, <1>2, AccessInvariant, PTL DEF AccessSpec, Spec

(* Seen by the callers, bootstraps and resets are keys that change, and    *)
(* no key that was set is ever removed.                                    *)
THEOREM ImplementsPublicApi == AccessSpec => ApiSpec
<1>1. AccessInit => Api!Init BY DEF AccessInit
<1>2. ASSUME AccessIInv, [AccessNext]_all PROVE [Api!Next]_(Api!vars)
    BY <1>2, ServersApart DEF all, vars, Api!vars
<1> QED BY <1>1, <1>2, AccessInvariant, PTL DEF AccessSpec, ApiSpec, Api!Spec

(* Types of both handlers.                                                 *)
THEOREM AccessTypesAreRight == AccessSpec => []AccessTypeOK
<1>1. AccessIInv => AccessTypeOK
    BY ApiIInvImplies DEF AccessIInv, IInv, AccessTypeOK
<1> QED BY <1>1, AccessInvariant, PTL

(* Nobody passes with a key that was not in force while the request ran.   *)
THEOREM HoldersAlonePass == AccessSpec => []OnlyHoldersPass
<1>1. ApiIInv => OnlyHoldersPass BY ApiIInvImplies
<1> QED BY <1>1, CallersInvariant, ImplementsPublicApi, PTL

(* What goes upstream has one credential and is redirected by one table.   *)
THEOREM OneCredentialOneRedirect == AccessSpec => []UpstreamGets
<1>1. ApiIInv => UpstreamGets BY ApiIInvImplies
<1> QED BY <1>1, CallersInvariant, ImplementsPublicApi, PTL

(* Nobody administers or uses the program before it has a key.             *)
THEOREM NothingIsOpenAtFirst == AccessSpec => []NothingBeforeBootstrap
<1>1. ASSUME AccessIInv PROVE NothingBeforeBootstrap
    <2> SUFFICES ASSUME created = 0
                 PROVE  /\ DOMAIN table = {} /\ cookies = {}
                        /\ \A c \in Callers : ~ Api!Passed(c)
        BY DEF NothingBeforeBootstrap
    <2>1. key = NoKey BY <1>1 DEF AccessIInv, IInv, BootstrapOnce
    <2>2. cookies = {} BY <1>1, <2>1 DEF AccessIInv, IInv, CookiesOK
    <2>3. DOMAIN table = {} /\ \A c \in Callers : valid[c] \subseteq {NoKey}
        BY <1>1, <2>1 DEF AccessIInv, Untouched
    <2>4. \A c \in Callers : ~ Api!Passed(c)
        BY <1>1, <2>3 DEF AccessIInv, ApiIInv, CallOK, Api!Passed
    <2> QED BY <2>2, <2>3, <2>4
<1> QED BY <1>1, AccessInvariant, PTL
=============================================================================
