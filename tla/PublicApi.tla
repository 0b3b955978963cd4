----------------------------- MODULE PublicApi ------------------------------
(***************************************************************************)
(* The public API in front of the forwarder: a request presents the        *)
(* downstream key, its model is redirected, and it leaves for the upstream *)
(* with the upstream's key in place of its own.                            *)
(*                                                                         *)
(* The key, the redirects and the auth mode are each read once, between    *)
(* slow steps (reading the body, verifying a password hash), while the     *)
(* administrator may change all of them.                                   *)
(***************************************************************************)
EXTENDS Integers, FiniteSets, Functions

CONSTANTS
    NULL,          \* no header
    NoKey,         \* the downstream key has not been set
    Handlers,      \* requests that may be active at the same time
    Keys,          \* downstream keys, right and wrong ones
    Secret,        \* the key of the chosen upstream
    Tables,        \* contents the table model_redirects may have
    Bodies,        \* bodies that clients send
    HeaderSets,    \* headers that clients send
    Nominations    \* what their Connection header may name

(* No such field, or the body is not a JSON object with text in it.  A     *)
(* field that holds no more than spaces is [name |-> "", padded |-> TRUE]. *)
Absent == [name |-> "", padded |-> FALSE]

AuthModes == {"authorization_bearer", "x_api_key"}

Names == {"Authorization", "X-Api-Key", "Connection", "Upgrade", "Accept"}

Credentials == {"Authorization", "X-Api-Key"}

VARIABLES
    key,      \* downstream_key_hash, as the key it is of
    mode,     \* upstream_auth_mode
    table,    \* model_redirects
    req,      \* the local variables of each request
    valid,    \* history: keys in force since a request came
    served    \* history: tables in force since a request came

vars == <<key, mode, table, req, valid, served>>

-----------------------------------------------------------------------------
(***************************************************************************)
(* Headers.  A set of headers is a function to a value each, NULL if it is *)
(* absent; which headers there are is what the code tells apart.           *)
(***************************************************************************)
HopByHop == {"Connection", "Upgrade"}

(* x-api-key goes before Authorization.                                    *)
Provided(headers) ==
    IF headers["X-Api-Key"] # NULL THEN headers["X-Api-Key"] ELSE headers["Authorization"]

(* CopyHeaders: neither hop-by-hop headers nor those Connection names.     *)
Copied(headers, nominated) ==
    [n \in Names |-> IF n \in HopByHop \cup nominated THEN NULL ELSE headers[n]]

(* Faulty: relies on applyUpstreamAuth to replace the client's. *)
FaultyStripped(headers) == headers

Stripped(headers) ==
    [n \in Names |-> IF n \in Credentials THEN NULL ELSE headers[n]]

AuthHeader(m) == IF m = "x_api_key" THEN "X-Api-Key" ELSE "Authorization"

WithUpstreamAuth(headers, m) == [headers EXCEPT ![AuthHeader(m)] = Secret]

Outgoing(headers, nominated, m) == WithUpstreamAuth(Stripped(Copied(headers, nominated)), m)

-----------------------------------------------------------------------------
(***************************************************************************)
(* Bodies.  Go's decoder takes a field "Model" for "model" too, and of two *)
(* the later one; last says which that is.                                 *)
(***************************************************************************)
Given(body) ==
    IF body.model = Absent \/ (body.Model # Absent /\ body.last = "Model")
    THEN body.Model ELSE body.model

(* extractModel; "" if there is none.  Spaces around it do not count.      *)
ExtractModel(body) == Given(body).name

Plain(name) == [name |-> name, padded |-> FALSE]

Target(redirects, model) == redirects[model]

(* Faulty: the model is replaced where it is. *)
FaultyRewritten(body, model, redirects) ==
    IF model # "" /\ model \in DOMAIN redirects
    THEN [body EXCEPT !.model = Plain(Target(redirects, model))]
    ELSE body

(* rewriteModelRequest and replaceModel, which decodes the body to a map,  *)
(* sets "model" and encodes it: the fields are sorted then, and "Model",   *)
(* which stays, comes before "model".  Without a redirect nothing is       *)
(* encoded again.                                                          *)
Rewritten(body, model, redirects) ==
    IF model # "" /\ model \in DOMAIN redirects
    THEN [model |-> Plain(Target(redirects, model)), Model |-> body.Model, last |-> "model"]
    ELSE body

-----------------------------------------------------------------------------
(***************************************************************************)
(* Program points of a request.                                            *)
(*   body     reading the body                                             *)
(*   config   about to read the configuration in authenticate              *)
(*   verify   has the hash, compares the provided key with it              *)
(*   lookup   about to look up the redirect                                *)
(*   proxy    about to choose the upstream and build the request           *)
(*   sent     what goes to the upstream                                    *)
(*   refused  answered by this program                                     *)
(***************************************************************************)
Idle == [pc |-> "idle"]

Headers == [Names -> Keys \cup {NULL, Secret, "text"}]

ProgramPoints == {"idle", "body", "config", "verify", "lookup", "proxy", "sent", "refused"}

TypeOK ==
    /\ key \in Keys \cup {NoKey}
    /\ mode \in AuthModes
    /\ table \in Tables
    /\ \A h \in Handlers :
          /\ req[h].pc \in ProgramPoints
          /\ req[h].pc \notin {"idle", "refused"} => req[h].headers \in Headers
          /\ req[h].pc = "verify" => req[h].hash \in Keys
          /\ req[h].pc = "refused" => req[h].status \in {400, 401, 500, 503}
    /\ valid \in [Handlers -> SUBSET (Keys \cup {NoKey})]
    /\ served \in [Handlers -> SUBSET Tables]

Init ==
    /\ key = NoKey
    /\ mode \in AuthModes
    /\ table \in {t \in Tables : DOMAIN t = {}}
    /\ req = [h \in Handlers |-> Idle]
    /\ valid = [h \in Handlers |-> {}]
    /\ served = [h \in Handlers |-> {}]

Goto(h, local) == req' = [req EXCEPT ![h] = local]

Refused(status) == [pc |-> "refused", status |-> status]

UnchangedSettings == UNCHANGED <<key, mode, table, valid, served>>

Arrive(h) ==
    /\ req[h] = Idle
    /\ \E headers \in HeaderSets, nominated \in Nominations, body \in Bodies :
          /\ headers["Connection"] = NULL => nominated = {}
          /\ Goto(h, [pc |-> "body", headers |-> headers, nominated |-> nominated, body |-> body])
    /\ valid' = [valid EXCEPT ![h] = {key}]
    /\ served' = [served EXCEPT ![h] = {table}]
    /\ UNCHANGED <<key, mode, table>>

ReadBody(h) ==
    /\ req[h].pc = "body"
    /\ \/ Goto(h, [req[h] EXCEPT !.pc = "config"])
       \/ Goto(h, Refused(400))
    /\ UnchangedSettings

(* Faulty: does not look whether a key is set. *)
FaultyReadConfig(h) ==
    /\ req[h].pc = "config"
    /\ Goto(h, [pc |-> "verify", headers |-> req[h].headers, nominated |-> req[h].nominated,
                body |-> req[h].body, hash |-> key])
    /\ UnchangedSettings

(* No key set: 503.  None provided: 401.                                   *)
ReadConfig(h) ==
    /\ req[h].pc = "config"
    /\ \/ /\ key # NoKey /\ Provided(req[h].headers) # NULL
          /\ Goto(h, [pc |-> "verify", headers |-> req[h].headers, nominated |-> req[h].nominated,
                      body |-> req[h].body, hash |-> key])
       \/ key = NoKey /\ Goto(h, Refused(503))
       \/ key # NoKey /\ Provided(req[h].headers) = NULL /\ Goto(h, Refused(401))
       \/ Goto(h, Refused(500))
    /\ UnchangedSettings

(* Faulty: either header may hold the key, whatever is in the other. *)
FaultyVerifies(headers, hash) == hash \in {headers["X-Api-Key"], headers["Authorization"]}

Verifies(headers, hash) == Provided(headers) = hash

Verify(h) ==
    /\ req[h].pc = "verify"
    /\ Goto(h, IF Verifies(req[h].headers, req[h].hash)
               THEN [pc |-> "lookup", headers |-> req[h].headers,
                     nominated |-> req[h].nominated, body |-> req[h].body]
               ELSE Refused(401))
    /\ UnchangedSettings

Lookup(h) ==
    /\ req[h].pc = "lookup"
    /\ \/ Goto(h, [pc |-> "proxy", headers |-> req[h].headers,
                   nominated |-> req[h].nominated, body |-> req[h].body,
                   out |-> Rewritten(req[h].body, ExtractModel(req[h].body), table)])
       \/ Goto(h, Refused(500))
    /\ UnchangedSettings

(* Select reads the auth mode; what the client had is kept to compare.     *)
Send(h) ==
    /\ req[h].pc = "proxy"
    /\ Goto(h, [pc |-> "sent", headers |-> req[h].headers,
                nominated |-> req[h].nominated, body |-> req[h].body, out |-> req[h].out,
                outHeaders |-> Outgoing(req[h].headers, req[h].nominated, mode),
                outMode |-> mode])
    /\ UnchangedSettings

Finish(h) ==
    /\ req[h].pc \in {"sent", "refused"}
    /\ Goto(h, Idle)
    /\ valid' = [valid EXCEPT ![h] = {}]
    /\ served' = [served EXCEPT ![h] = {}]
    /\ UNCHANGED <<key, mode, table>>

Active == {h \in Handlers : req[h] # Idle}

(* What the requests that are under way see of a key that is stored.       *)
KeyStored ==
    /\ valid' = [h \in Handlers |-> IF h \in Active THEN valid[h] \cup {key'} ELSE {}]
    /\ UNCHANGED <<mode, table, req, served>>

(* Bootstrap or reset.                                                     *)
SetKey == key' \in Keys \ {key} /\ KeyStored

SetMode ==
    /\ mode' \in AuthModes \ {mode}
    /\ UNCHANGED <<key, table, req, valid, served>>

SetTable ==
    /\ table' \in Tables \ {table}
    /\ served' = [h \in Handlers |-> IF h \in Active THEN served[h] \cup {table'} ELSE {}]
    /\ UNCHANGED <<key, mode, req, valid>>

(* Requests do not outlive the process; the settings do.                   *)
Restart ==
    /\ req' = [h \in Handlers |-> Idle]
    /\ valid' = [h \in Handlers |-> {}]
    /\ served' = [h \in Handlers |-> {}]
    /\ UNCHANGED <<key, mode, table>>

Serve(h) ==
    \/ Arrive(h) \/ ReadBody(h) \/ ReadConfig(h) \/ Verify(h)
    \/ Lookup(h) \/ Send(h) \/ Finish(h)

Next == (\E h \in Handlers : Serve(h)) \/ SetKey \/ SetMode \/ SetTable \/ Restart

Spec == Init /\ [][Next]_vars

-----------------------------------------------------------------------------
(***************************************************************************)
(* Properties.                                                             *)
(***************************************************************************)

Passed(h) == req[h].pc \in {"lookup", "proxy", "sent"}

(* Only who presents a key that was in force while the request ran gets    *)
(* past authenticate: a key that was replaced before it came is worth      *)
(* nothing, and before there is a key nobody passes (authenticate).        *)
OnlyHoldersPass ==
    \A h \in Handlers : Passed(h) =>
        Provided(req[h].headers) \in valid[h] \ {NoKey}

(* The upstream gets its own key, in the header its auth mode asks for,    *)
(* and neither the client's nor its own in any other (CopyHeaders,         *)
(* StripAuthHeaders and applyUpstreamAuth, in this order).                 *)
OneCredentialUpstream ==
    \A h \in Handlers : req[h].pc = "sent" =>
        LET out == req[h].outHeaders
        IN  /\ out[AuthHeader(req[h].outMode)] = Secret
            /\ \A n \in Names \ {AuthHeader(req[h].outMode)} : out[n] \notin Keys \cup {Secret}

(* What may leave under a table: a body with a model that has no redirect  *)
(* as it came, or with one model's target, and then that is the model      *)
(* whoever reads the fields in their order takes.  Which of two fields     *)
(* counts is left open.                                                    *)
Models(body) == {body.model, body.Model} \ {Absent}

RedirectedBy(t, body, out) ==
    \/ /\ out = body
       /\ Models(body) = {} \/ \E field \in Models(body) : field.name \notin DOMAIN t
    \/ /\ \E field \in Models(body) :
              field.name \in DOMAIN t /\ out.model = Plain(t[field.name])
       /\ Given(out) = out.model /\ out.Model = body.Model

(* A model is redirected at most once, by one table that was in force      *)
(* while the request ran; what has no redirect there goes out as it came   *)
(* (rewriteModelRequest, replaceModel).                                    *)
RedirectedByOneTable ==
    \A h \in Handlers : req[h].pc \in {"proxy", "sent"} =>
        \E t \in served[h] : RedirectedBy(t, req[h].body, req[h].out)

(* The request that leaves is right in both respects, whatever was changed *)
(* while it ran (Forwarder.Proxy, Server.handle).                          *)
UpstreamGets == OneCredentialUpstream /\ RedirectedByOneTable
=============================================================================
