------------------------------- MODULE Vault --------------------------------
(***************************************************************************)
(* Vault (agents/vault): the credential store, the tokens it vends, the    *)
(* HTTP service (service.py, a thread per request), the bus agent          *)
(* (agent.py) and library users who keep a vended token, while operators   *)
(* onboard, rotate and revoke credentials through the same store.          *)
(*                                                                         *)
(* A credential is the consumer pair and the token pair of a tenant.  One  *)
(* call of the store (keyring or dictionary) or of the clock is one step:  *)
(* rotate_token and vend_token make two each.  A signature is modelled by  *)
(* the credential it needs.                                                *)
(***************************************************************************)
EXTENDS Naturals

CONSTANTS Caller,       \* request threads, bus agent and library users
          Operator,     \* processes that change the store
          Tenant, Consumer, Token,
          None,
          Onboardings,  \* (tenant, credential) operators may store
          Requests,     \* what callers ask for
          api_secret,   \* CAVI_VAULT_API_SECRET, None when empty
          allowlist,    \* CAVI_VAULT_TENANT_ALLOWLIST
          TTL,          \* DEFAULT_TTL_SECONDS, in ticks
          MaxTTL,       \* bound: the ttl a caller may ask for
          MaxLag,       \* bound: ticks between the two calls of vend_token
          MaxRequests,  \* bound: calls of callers
          MaxChanges    \* bound: calls of operators

VARIABLES store,        \* each tenant's credential, None if there is none
          pc, req,      \* each caller's next call and its request
          held,         \* the VendedToken it has or is making
          opc, change,  \* each operator's next call, and a rotation under way
          answer,       \* its last response or vault.secret.* event
          word,         \* history: consumer last onboarded, None once revoked
          overtaken,    \* history: tenants whose last such change met a rotation
          gone,         \* history: ticks since a credential was last stored
          requests, changes

callerVars == <<pc, req, held, answer, requests>>
operatorVars == <<opc, change, changes>>
changeVars == <<word, overtaken>>
vars == <<store, callerVars, operatorVars, changeVars, gone>>

Credential == [consumer : Consumer, token : Token]
Horizon == MaxTTL + MaxLag   \* where the clocks of the model stop
\* The credential bound into a token, the ticks from reading it to issued_at, the
\* ticks from issued_at to expires_at, the ticks since issued_at.
VendedToken == [creds : Credential \cup {None}, lag : 0..MaxLag, life : 0..MaxTTL,
                age : 0..Horizon]
NoToken == [creds |-> None, lag |-> 0, life |-> 0, age |-> 0]
NoChange == [tenant |-> None, creds |-> None, token |-> None]

ASSUME InputAssumption ==
    /\ Onboardings \subseteq Tenant \X Credential
    /\ \A r \in Requests : /\ DOMAIN r = {"path", "secret", "tenant", "platform", "ttl",
                                          "clock"}
                           /\ r.path \in {"vend", "sign", "bus", "library"}
                           /\ r.tenant \in Tenant \cup {None}
                           \* only the body of an HTTP request may lack a tenant
                           /\ r.tenant = None => r.path \in {"vend", "sign"}
                           \* only a library user passes ttl= and now=
                           /\ r.ttl \in 0..MaxTTL \cup {None}
                           /\ r.clock \in {"wall", "own"}
                           /\ r.path # "library" => r.ttl = None /\ r.clock = "wall"
    /\ allowlist \subseteq Tenant
    /\ None \notin Tenant \cup Credential
ASSUME BoundAssumption == /\ MaxTTL \in Nat /\ MaxLag \in Nat
                          /\ TTL \in 1..MaxTTL /\ None \notin Nat
                          /\ MaxRequests \in Nat /\ MaxChanges \in Nat

-----------------------------------------------------------------------------
(* _normalize_platform, make_handler, the checks of vend and sign.         *)

supported(platform) == platform \in {"netsuite", "ns", "netsuite_tba"}

\* _authorized: an unconfigured secret refuses everyone.
authorized(r) == api_secret # None /\ r.secret = api_secret

permitted(t) == allowlist = {} \/ t \in allowlist

\* The request gets past every check made before the store is read.
accepted(r) == r.path \in {"vend", "sign"} =>
                   authorized(r) /\ permitted(r.tenant) /\ r.tenant # None

-----------------------------------------------------------------------------
TypeOK ==
    /\ store \in [Tenant -> Credential \cup {None}]
    /\ pc \in [Caller -> {"idle", "read", "stamp", "sign"}]
    /\ req \in [Caller -> Requests \cup {None}]
    /\ held \in [Caller -> VendedToken]
    /\ \A c \in Caller : pc[c] \in {"stamp", "sign"} <=> held[c].creds # None
    /\ opc \in [Operator -> {"idle", "put"}]
    /\ change \in [Operator -> [tenant : Tenant \cup {None},
                                creds : Credential \cup {None},
                                token : Token \cup {None}]]
    /\ answer \in [Caller -> {None, "refused", "not found", "metadata", "signed",
                              "expired", "granted", "denied"}]
    /\ word \in [Tenant -> Consumer \cup {None}]
    /\ overtaken \subseteq Tenant
    /\ gone \in [Tenant \X Credential -> 0..Horizon]
    /\ requests \in 0..MaxRequests /\ changes \in 0..MaxChanges

Init ==
    /\ store = [t \in Tenant |-> None]
    /\ pc = [c \in Caller |-> "idle"]
    /\ req = [c \in Caller |-> None]
    /\ held = [c \in Caller |-> NoToken]
    /\ opc = [o \in Operator |-> "idle"]
    /\ change = [o \in Operator |-> NoChange]
    /\ answer = [c \in Caller |-> None]
    /\ word = [t \in Tenant |-> None]
    /\ overtaken = {}
    /\ gone = [p \in Tenant \X Credential |-> Horizon]
    /\ requests = 0 /\ changes = 0

-----------------------------------------------------------------------------
(* Callers.                                                                *)

Answer(c, a) == answer' = [answer EXCEPT ![c] = a]

Finish(c) == /\ pc' = [pc EXCEPT ![c] = "idle"]
             /\ req' = [req EXCEPT ![c] = None]
             /\ held' = [held EXCEPT ![c] = NoToken]

\* do_POST up to service.vend or service.sign: 503, 401, 403 and 400 touch nothing.
\* The bus agent and the library have no such gate.
Ask(c, r) ==
    /\ pc[c] = "idle"
    /\ requests < MaxRequests /\ requests' = requests + 1
    /\ IF accepted(r)
       THEN /\ pc' = [pc EXCEPT ![c] = "read"] /\ req' = [req EXCEPT ![c] = r]
            /\ UNCHANGED answer
       ELSE Answer(c, "refused") /\ UNCHANGED <<pc, req>>
    /\ UNCHANGED <<store, held, operatorVars, changeVars, gone>>

\* vend_token: the credential is read once, to be bound into the token.
VendRead(c) ==
    LET creds == IF supported(req[c].platform) THEN store[req[c].tenant] ELSE None
    IN
    /\ pc[c] = "read"
    /\ \/ /\ creds = None
          /\ Answer(c, IF req[c].path = "bus" THEN "denied"
                       ELSE IF supported(req[c].platform) THEN "not found"
                       ELSE "refused")
          /\ Finish(c)
       \/ /\ creds # None
          /\ held' = [held EXCEPT ![c] = [NoToken EXCEPT !.creds = creds]]
          /\ pc' = [pc EXCEPT ![c] = "stamp"]
          /\ UNCHANGED <<req, answer>>
    /\ UNCHANGED <<store, requests, operatorVars, changeVars, gone>>

\* `ttl` or the default.
lifetime(r) == IF r.ttl = None THEN TTL ELSE r.ttl

\* ... and the token is stamped: issued_at is what the clock says now.  (A caller with a
\* `now` of its own stamps what it likes, and Sign takes nothing from the clock.)  /vend
\* and the bus agent answer with metadata and drop the token.
VendStamp(c) ==
    /\ pc[c] = "stamp"
    /\ \/ /\ req[c].path \in {"vend", "bus"}
          /\ Answer(c, IF req[c].path = "bus" THEN "granted" ELSE "metadata")
          /\ Finish(c)
       \/ /\ req[c].path \in {"sign", "library"}
          /\ held' = [held EXCEPT ![c].life = lifetime(req[c])]
          /\ pc' = [pc EXCEPT ![c] = "sign"]
          /\ UNCHANGED <<req, answer>>
    /\ UNCHANGED <<store, requests, operatorVars, changeVars, gone>>

\* Mutant of is_expired: `now > expires_at`.
is_expired_late(token) == token.age > token.life

\* now >= expires_at
is_expired(token) == token.age >= token.life

\* authorization_header: TokenExpired once the TTL has passed, or whenever the caller's
\* own `now` says so.  The service drops the token after one signature, a library user
\* may keep it.
Sign(c) ==
    /\ pc[c] = "sign"
    /\ \E expired \in IF req[c].clock = "own" THEN BOOLEAN ELSE {is_expired(held[c])} :
           Answer(c, IF expired THEN "expired" ELSE "signed")
    /\ \/ Finish(c)
       \/ req[c].path = "library" /\ UNCHANGED <<pc, req, held>>
    /\ UNCHANGED <<store, requests, operatorVars, changeVars, gone>>

-----------------------------------------------------------------------------
(* Operators.                                                              *)

Change == changes < MaxChanges /\ changes' = changes + 1

Put(t, creds) == /\ store' = [store EXCEPT ![t] = creds]
                 /\ gone' = [gone EXCEPT ![<<t, creds>>] = 0]

\* History: the integration a tenant should have, and whether an operator is in the
\* middle of rotating its token.
LastWord(t, consumer) ==
    /\ word' = [word EXCEPT ![t] = consumer]
    /\ overtaken' = IF \E o \in Operator : opc[o] = "put" /\ change[o].tenant = t
                    THEN overtaken \cup {t} ELSE overtaken \ {t}

\* store_credentials, also from load_from_dotenv and _seed_from_env, with all the
\* required fields; without them it raises and changes nothing.
StoreCredentials(o, t, creds) ==
    /\ opc[o] = "idle"
    /\ Change
    /\ Put(t, creds)
    /\ LastWord(t, creds.consumer)
    /\ UNCHANGED <<callerVars, opc, change>>

\* Mutant of RotateRead: a tenant without credentials is rotated all the same.
RotateRead_unchecked(o, t, k) ==
    /\ opc[o] = "idle"
    /\ Change
    /\ opc' = [opc EXCEPT ![o] = "put"]
    /\ change' = [change EXCEPT ![o] = [tenant |-> t, token |-> k, creds |->
           IF store[t] = None THEN CHOOSE creds \in Credential : TRUE ELSE store[t]]]
    /\ UNCHANGED <<store, callerVars, changeVars, gone>>

\* rotate_token reads the credential; CredentialNotFound ends it.
RotateRead(o, t, k) ==
    /\ opc[o] = "idle"
    /\ Change
    /\ IF store[t] = None THEN UNCHANGED <<opc, change>>
       ELSE /\ opc' = [opc EXCEPT ![o] = "put"]
            /\ change' = [change EXCEPT ![o] =
                   [tenant |-> t, creds |-> store[t], token |-> k]]
    /\ UNCHANGED <<store, callerVars, changeVars, gone>>

\* ... and writes it back with the new token.
RotatePut(o) ==
    /\ opc[o] = "put"
    /\ Put(change[o].tenant, [change[o].creds EXCEPT !.token = change[o].token])
    /\ opc' = [opc EXCEPT ![o] = "idle"]
    /\ change' = [change EXCEPT ![o] = NoChange]
    /\ UNCHANGED <<callerVars, changes, changeVars>>

Revoke(o, t) ==
    /\ opc[o] = "idle"
    /\ Change
    /\ store' = [store EXCEPT ![t] = None]
    /\ LastWord(t, None)
    /\ UNCHANGED <<callerVars, opc, change, gone>>

tick(n) == IF n < Horizon THEN n + 1 ELSE Horizon

\* time.time() advances for every token and every credential that has left; a thread
\* gets to its second call within MaxLag.
Tick ==
    /\ \A c \in Caller : pc[c] = "stamp" => held[c].lag < MaxLag
    /\ held' = [c \in Caller |->
           CASE pc[c] = "stamp" -> [held[c] EXCEPT !.lag = @ + 1]
             [] pc[c] = "sign"  -> [held[c] EXCEPT !.age = tick(@)]
             [] OTHER           -> held[c]]
    /\ gone' = [p \in Tenant \X Credential |->
           IF store[p[1]] = p[2] THEN 0 ELSE tick(gone[p])]
    /\ UNCHANGED <<store, pc, req, answer, requests, operatorVars, changeVars>>

-----------------------------------------------------------------------------
Next ==
    \/ \E c \in Caller : \/ \E r \in Requests : Ask(c, r)
                         \/ VendRead(c)
                         \/ VendStamp(c)
                         \/ Sign(c)
    \/ \E o \in Operator : \/ \E p \in Onboardings : StoreCredentials(o, p[1], p[2])
                           \/ RotatePut(o)
                           \/ \E t \in Tenant : \/ \E k \in Token : RotateRead(o, t, k)
                                                \/ Revoke(o, t)
    \/ Tick

Spec == Init /\ [][Next]_vars

-----------------------------------------------------------------------------
\* Revocation and rotation bite, though tokens are handed out and kept: a token that
\* can still sign by the clock holds a credential of its own tenant that is in the store
\* or left it less than the token's ttl ago -- and, when the change fell between the
\* thread's reading of the store and its issued_at, so much longer as lay between the
\* two (vend_token, authorization_header).
RevocationBites ==
    \A c \in Caller :
        pc[c] = "sign" /\ req[c].clock = "wall" /\ ~is_expired(held[c]) =>
            LET t == req[c].tenant IN
            \/ store[t] = held[c].creds
            \/ gone[<<t, held[c].creds>>] < lifetime(req[c]) + held[c].lag

\* The operators' last word stands: the credential stored for a tenant is of the
\* integration last onboarded for it, and there is none after a revoke -- unless that
\* change fell between the two store calls of a rotation (rotate_token, revoke).
LastWordStands ==
    \A t \in Tenant \ overtaken :
        word[t] = IF store[t] = None THEN None ELSE store[t].consumer
=============================================================================
