---------------------------- MODULE VaultProofs -----------------------------
(***************************************************************************)
(* Proofs about Vault, for any number of callers, operators, tenants and   *)
(* credentials, any requests and any TTL: a revoked or rotated credential  *)
(* stops signing within the TTL of the tokens and the time their making    *)
(* took, and what operators last said of a tenant is what the store holds, *)
(* unless a rotation was under way.                                        *)
(***************************************************************************)
EXTENDS Vault, TLAPS

-----------------------------------------------------------------------------
(* The inductive invariant.                                                *)

\* The typing of the variables the two properties are about.  A caller past the
\* checks of do_POST asks for a tenant.
CallerType ==
    /\ pc \in [Caller -> {"idle", "read", "stamp", "sign"}]
    /\ req \in [Caller -> Requests \cup {None}]
    /\ held \in [Caller -> VendedToken]
    /\ \A c \in Caller : pc[c] # "idle" => /\ req[c] \in Requests
                                           /\ req[c].tenant \in Tenant
    /\ \A c \in Caller : pc[c] \in {"stamp", "sign"} <=> held[c].creds # None
    /\ \A c \in Caller : pc[c] \in {"idle", "read"} => held[c] = NoToken

OperatorType ==
    /\ opc \in [Operator -> {"idle", "put"}]
    /\ change \in [Operator -> [tenant : Tenant \cup {None},
                                creds : Credential \cup {None},
                                token : Token \cup {None}]]
    /\ \A o \in Operator : opc[o] = "put" => /\ change[o].tenant \in Tenant
                                             /\ change[o].creds \in Credential
                                             /\ change[o].token \in Token

StoreType ==
    /\ store \in [Tenant -> Credential \cup {None}]
    /\ word \in [Tenant -> Consumer \cup {None}]
    /\ overtaken \subseteq Tenant
    /\ gone \in [Tenant \X Credential -> 0..Horizon]

TypeInv == CallerType /\ OperatorType /\ StoreType

\* A credential in the store has been gone for no time.
StoredNow ==
    \A t \in Tenant : store[t] # None => gone[<<t, store[t]>>] = 0

\* A token is at least as old, counted from the reading of the store, as the absence
\* of its credential: it was bound to what the store held, and the clocks run together
\* from there.
TokenInv ==
    \A c \in Caller : pc[c] \in {"stamp", "sign"} =>
        LET t == req[c].tenant IN
        \/ store[t] = held[c].creds
        \/ gone[<<t, held[c].creds>>] <= held[c].lag + held[c].age

\* The life of a token is the one its caller asked for.
LifeInv ==
    \A c \in Caller : pc[c] = "sign" => held[c].life = lifetime(req[c])

\* A rotation that nobody has overtaken writes back the tenant's own integration.
RotationInv ==
    \A o \in Operator : opc[o] = "put" /\ change[o].tenant \notin overtaken =>
        word[change[o].tenant] = change[o].creds.consumer

VaultInv == /\ TypeInv /\ StoredNow /\ TokenInv /\ LifeInv
            /\ RotationInv /\ LastWordStands

-----------------------------------------------------------------------------
(* Preservation.                                                           *)

\* The fields of a token.
LEMMA TokenFields ==
    /\ Horizon \in Nat /\ MaxTTL <= Horizon /\ NoToken \in VendedToken
    /\ NoToken.creds = None
    /\ \A token \in VendedToken :
           /\ token.creds \in Credential \cup {None}
           /\ token.lag \in 0..MaxLag /\ token.age \in 0..Horizon
           /\ token.lag \in Nat /\ token.age \in Nat
BY BoundAssumption, InputAssumption DEF VendedToken, NoToken, Horizon

\* A rotated credential is a credential, of the same consumer.
LEMMA Rotated ==
    ASSUME NEW creds \in Credential, NEW k \in Token
    PROVE  LET new == [creds EXCEPT !.token = k] IN
           new \in Credential /\ new.consumer = creds.consumer
BY DEF Credential

\* Put keeps the two clocks related: the new credential is there now, and the one
\* it replaces was there until now (put of the backends).
LEMMA PutKeeps ==
    ASSUME TypeInv, StoredNow, TokenInv, UNCHANGED callerVars,
           NEW t \in Tenant, NEW creds \in Credential, Put(t, creds)
    PROVE  /\ store' \in [Tenant -> Credential \cup {None}]
           /\ gone' \in [Tenant \X Credential -> 0..Horizon]
           /\ StoredNow' /\ TokenInv'
<1> USE TokenFields DEF TypeInv, CallerType, OperatorType, StoreType, callerVars, Put
<1>1. /\ store' \in [Tenant -> Credential \cup {None}]
      /\ gone' \in [Tenant \X Credential -> 0..Horizon]
  BY BoundAssumption
<1>2. StoredNow'
  <2> SUFFICES ASSUME NEW u \in Tenant, store'[u] # None
               PROVE  gone'[<<u, store'[u]>>] = 0
    BY DEF StoredNow
  <2>1. CASE u = t
    BY <2>1
  <2>2. CASE u # t
    BY <2>2 DEF StoredNow
  <2> QED BY <2>1, <2>2
<1>3. TokenInv'
  <2> SUFFICES ASSUME NEW c \in Caller, pc[c] \in {"stamp", "sign"},
                      store'[req[c].tenant] # held[c].creds
               PROVE  gone'[<<req[c].tenant, held[c].creds>>]
                      <= held[c].lag + held[c].age
    BY DEF TokenInv
  <2> DEFINE u == req[c].tenant
             p == <<u, held[c].creds>>
  <2>1. /\ u \in Tenant /\ held[c].creds \in Credential
        /\ held[c].lag \in Nat /\ held[c].age \in Nat
    OBVIOUS
  <2>2. p # <<t, creds>>
    BY <2>1
  <2>3. gone'[p] = gone[p]
    BY <2>1, <2>2
  <2>4. CASE store[u] = held[c].creds
    <3>1. held[c].creds # None
      BY <2>1
    <3>2. gone[p] = 0
      BY <2>1, <2>4, <3>1 DEF StoredNow
    <3> QED BY <2>1, <2>3, <3>2
  <2>5. CASE store[u] # held[c].creds
    BY <2>3, <2>5 DEF TokenInv
  <2> QED BY <2>4, <2>5
<1> QED BY <1>1, <1>2, <1>3

\* A caller's step changes neither the store nor what operators do: what it leaves
\* to prove is that its own token is sound.
LEMMA CallerStep ==
    ASSUME VaultInv, UNCHANGED <<store, operatorVars, changeVars, gone>>,
           NEW c \in Caller, NEW p \in {"idle", "read", "stamp", "sign"},
           NEW r \in Requests \cup {None}, NEW token \in VendedToken,
           pc' = [pc EXCEPT ![c] = p], req' = [req EXCEPT ![c] = r],
           held' = [held EXCEPT ![c] = token],
           p # "idle" => r \in Requests /\ r.tenant \in Tenant,
           p \in {"stamp", "sign"} <=> token.creds # None,
           p \in {"idle", "read"} => token = NoToken,
           p = "sign" => token.life = lifetime(r),
           p \in {"stamp", "sign"} =>
               \/ store[r.tenant] = token.creds
               \/ gone[<<r.tenant, token.creds>>] <= token.lag + token.age
    PROVE  VaultInv'
<1>1. /\ pc \in [Caller -> {"idle", "read", "stamp", "sign"}]
      /\ req \in [Caller -> Requests \cup {None}]
      /\ held \in [Caller -> VendedToken]
  BY DEF VaultInv, TypeInv, CallerType
<1>2. /\ pc' \in [Caller -> {"idle", "read", "stamp", "sign"}]
      /\ req' \in [Caller -> Requests \cup {None}]
      /\ held' \in [Caller -> VendedToken]
  BY <1>1
<1>3. pc'[c] = p /\ req'[c] = r /\ held'[c] = token
  BY <1>1
<1>4. \A d \in Caller \ {c} : /\ pc'[d] = pc[d] /\ req'[d] = req[d]
                              /\ held'[d] = held[d]
  BY <1>1
<1>5. CallerType'
  BY <1>2, <1>3, <1>4 DEF VaultInv, TypeInv, CallerType
<1>6. TokenInv'
  BY <1>3, <1>4 DEF VaultInv, TokenInv
<1>7. LifeInv'
  BY <1>3, <1>4 DEF VaultInv, LifeInv
<1>8. OperatorType' /\ StoreType'
  BY DEF VaultInv, TypeInv, OperatorType, StoreType, operatorVars, changeVars
<1>9. StoredNow' /\ RotationInv' /\ LastWordStands'
  BY DEF VaultInv, StoredNow, RotationInv, LastWordStands, operatorVars, changeVars
<1> QED BY <1>5, <1>6, <1>7, <1>8, <1>9 DEF VaultInv, TypeInv

\* A caller that has its answer holds no token and asks for nothing (Finish).
LEMMA FinishKeeps ==
    ASSUME VaultInv, NEW c \in Caller, Finish(c),
           UNCHANGED <<store, operatorVars, changeVars, gone>>
    PROVE  VaultInv'
BY TokenFields, CallerStep DEF Finish

\* Every step keeps the invariant.
LEMMA VaultNext == VaultInv /\ [Next]_vars => VaultInv'
<1> SUFFICES ASSUME VaultInv, [Next]_vars PROVE VaultInv'
  OBVIOUS
<1> USE InputAssumption, BoundAssumption
<1>0. ASSUME UNCHANGED <<store, pc, req, held, operatorVars, changeVars, gone>>
      PROVE  VaultInv'
  BY <1>0 DEF VaultInv, TypeInv, CallerType, OperatorType, StoreType, StoredNow,
              TokenInv, LifeInv, RotationInv, LastWordStands, operatorVars, changeVars
<1>1. ASSUME NEW c \in Caller, NEW r \in Requests, Ask(c, r)
      PROVE  VaultInv'
  <2>1. CASE accepted(r)
    <3>1. r.tenant \in Tenant
      BY <2>1 DEF accepted
    <3>2. held[c] = NoToken /\ held' = [held EXCEPT ![c] = NoToken]
      BY <1>1 DEF Ask, VaultInv, TypeInv, CallerType
    <3>3. pc' = [pc EXCEPT ![c] = "read"] /\ req' = [req EXCEPT ![c] = r]
      BY <1>1, <2>1 DEF Ask
    <3>4. UNCHANGED <<store, operatorVars, changeVars, gone>>
      BY <1>1 DEF Ask
    <3> QED BY <3>1, <3>2, <3>3, <3>4, TokenFields, CallerStep
  <2>2. CASE ~accepted(r)
    BY <1>0, <1>1, <2>2 DEF Ask
  <2> QED BY <2>1, <2>2
<1>2. ASSUME NEW c \in Caller, VendRead(c)
      PROVE  VaultInv'
  <2> DEFINE creds == IF supported(req[c].platform) THEN store[req[c].tenant]
                      ELSE None
             token == [NoToken EXCEPT !.creds = creds]
  <2>1. UNCHANGED <<store, operatorVars, changeVars, gone>>
    BY <1>2 DEF VendRead
  <2>2. CASE Finish(c)
    BY <2>1, <2>2, FinishKeeps
  <2>3. CASE /\ creds # None
             /\ held' = [held EXCEPT ![c] = token]
             /\ pc' = [pc EXCEPT ![c] = "stamp"]
             /\ UNCHANGED req
    <3>1. req[c].tenant \in Tenant /\ req[c] \in Requests
      BY <1>2 DEF VendRead, VaultInv, TypeInv, CallerType
    <3>2. creds \in Credential /\ creds = store[req[c].tenant]
      BY <2>3, <3>1 DEF VaultInv, TypeInv, StoreType
    <3>3. req' = [req EXCEPT ![c] = req[c]]
      BY <2>3 DEF VaultInv, TypeInv, CallerType
    <3> HIDE DEF creds
    <3>4. token \in VendedToken /\ token.creds = creds
      BY <3>2 DEF NoToken, VendedToken, Horizon
    <3> HIDE DEF token
    <3> QED BY <2>1, <2>3, <3>1, <3>2, <3>3, <3>4, CallerStep
  <2> QED BY <1>2, <2>2, <2>3 DEF VendRead
<1>10. ASSUME NEW c \in Caller, VendStamp(c)
       PROVE  VaultInv'
  <2> DEFINE life == lifetime(req[c])
             token == [held[c] EXCEPT !.life = life]
  <2>1. UNCHANGED <<store, operatorVars, changeVars, gone>> /\ pc[c] = "stamp"
    BY <1>10 DEF VendStamp
  <2>2. CASE Finish(c)
    BY <2>1, <2>2, FinishKeeps
  <2>3. CASE /\ held' = [held EXCEPT ![c].life = life]
             /\ pc' = [pc EXCEPT ![c] = "sign"]
             /\ UNCHANGED req
    <3>1. /\ req[c].tenant \in Tenant /\ req[c] \in Requests
          /\ held[c] \in VendedToken /\ held[c].creds # None
      BY <2>1 DEF VaultInv, TypeInv, CallerType
    <3>2. life \in 0..MaxTTL
      <4>1. req[c].ttl \in 0..MaxTTL \cup {None}
        BY <3>1
      <4> QED BY <4>1 DEF lifetime
    <3>3. req' = [req EXCEPT ![c] = req[c]] /\ held' = [held EXCEPT ![c] = token]
      BY <2>3 DEF VaultInv, TypeInv, CallerType
    <3> HIDE DEF life
    <3>4. /\ token \in VendedToken /\ token.creds = held[c].creds
          /\ token.lag = held[c].lag /\ token.age = held[c].age /\ token.life = life
      BY <3>1, <3>2 DEF VendedToken
    <3>5. \/ store[req[c].tenant] = token.creds
          \/ gone[<<req[c].tenant, token.creds>>] <= token.lag + token.age
      BY <2>1, <3>4 DEF VaultInv, TokenInv
    <3>6. token.life = lifetime(req[c])
      BY <3>4 DEF life
    <3>7. pc' = [pc EXCEPT ![c] = "sign"]
      BY <2>3
    <3> HIDE DEF token
    <3> QED BY <2>1, <3>1, <3>3, <3>4, <3>5, <3>6, <3>7, CallerStep
  <2> QED BY <1>10, <2>2, <2>3 DEF VendStamp
<1>3. ASSUME NEW c \in Caller, Sign(c)
      PROVE  VaultInv'
  <2>1. UNCHANGED <<store, operatorVars, changeVars, gone>>
    BY <1>3 DEF Sign
  <2>2. CASE Finish(c)
    BY <2>1, <2>2, FinishKeeps
  <2>3. CASE UNCHANGED <<pc, req, held>>
    BY <1>0, <2>1, <2>3
  <2> QED BY <1>3, <2>2, <2>3 DEF Sign
<1>4. ASSUME NEW o \in Operator, NEW p \in Onboardings,
             StoreCredentials(o, p[1], p[2])
      PROVE  VaultInv'
  <2> DEFINE t == p[1]
             creds == p[2]
  <2>0. t \in Tenant /\ creds \in Credential /\ creds.consumer \in Consumer
    BY DEF Credential
  <2>1. /\ store' \in [Tenant -> Credential \cup {None}]
        /\ gone' \in [Tenant \X Credential -> 0..Horizon]
        /\ StoredNow' /\ TokenInv'
    BY <1>4, <2>0, PutKeeps DEF StoreCredentials, VaultInv
  <2>2. TypeInv'
    BY <1>4, <2>0, <2>1 DEF VaultInv, TypeInv, CallerType, OperatorType, StoreType,
                            StoreCredentials, LastWord, callerVars
  <2>3. RotationInv'
    <3> SUFFICES ASSUME NEW q \in Operator, opc[q] = "put",
                        change[q].tenant \notin overtaken'
                 PROVE  word'[change[q].tenant] = change[q].creds.consumer
      BY <1>4 DEF RotationInv, StoreCredentials
    <3>1. change[q].tenant # t
      BY <1>4, <2>0 DEF StoreCredentials, LastWord, VaultInv, TypeInv, CallerType,
                        OperatorType, StoreType
    <3>2. change[q].tenant \notin overtaken
      BY <1>4, <3>1 DEF StoreCredentials, LastWord
    <3> QED BY <1>4, <3>1, <3>2 DEF StoreCredentials, LastWord, VaultInv, TypeInv,
                                    CallerType, OperatorType, StoreType, RotationInv
  <2>4. LastWordStands'
    <3> SUFFICES ASSUME NEW u \in Tenant, u \notin overtaken'
                 PROVE  word'[u] = IF store'[u] = None THEN None
                                   ELSE store'[u].consumer
      BY DEF LastWordStands
    <3>1. CASE u = t
      BY <1>4, <2>0, <3>1 DEF StoreCredentials, LastWord, Put, VaultInv, TypeInv,
                              CallerType, OperatorType, StoreType
    <3>2. CASE u # t
      BY <1>4, <2>0, <3>2 DEF StoreCredentials, LastWord, Put, VaultInv, TypeInv,
                              CallerType, OperatorType, StoreType, LastWordStands
    <3> QED BY <3>1, <3>2
  <2>5. LifeInv'
    BY <1>4 DEF VaultInv, LifeInv, StoreCredentials, callerVars
  <2> QED BY <2>1, <2>2, <2>3, <2>4, <2>5 DEF VaultInv
<1>5. ASSUME NEW o \in Operator, RotatePut(o)
      PROVE  VaultInv'
  <2> DEFINE t == change[o].tenant
             creds == [change[o].creds EXCEPT !.token = change[o].token]
  <2>0. t \in Tenant /\ creds \in Credential
        /\ creds.consumer = change[o].creds.consumer
    BY <1>5, Rotated DEF RotatePut, VaultInv, TypeInv, CallerType, OperatorType,
                         StoreType
  <2>1. /\ store' \in [Tenant -> Credential \cup {None}]
        /\ gone' \in [Tenant \X Credential -> 0..Horizon]
        /\ StoredNow' /\ TokenInv'
    BY <1>5, <2>0, PutKeeps DEF RotatePut, VaultInv
  <2>2. TypeInv'
    BY <1>5, <2>0, <2>1 DEF VaultInv, TypeInv, CallerType, OperatorType, StoreType,
                            RotatePut, NoChange, callerVars, changeVars
  <2>3. RotationInv'
    BY <1>5 DEF VaultInv, TypeInv, CallerType, OperatorType, StoreType, RotationInv,
                RotatePut, changeVars
  <2>4. LastWordStands'
    <3> SUFFICES ASSUME NEW u \in Tenant, u \notin overtaken
                 PROVE  word[u] = IF store'[u] = None THEN None
                                  ELSE store'[u].consumer
      BY <1>5 DEF LastWordStands, RotatePut, changeVars
    <3>1. CASE u = t
      <4>1. store'[u] = creds
        BY <1>5, <3>1, <2>0 DEF RotatePut, Put, VaultInv, TypeInv, CallerType,
                                OperatorType, StoreType
      <4>2. word[u] = change[o].creds.consumer
        BY <1>5, <3>1 DEF RotatePut, VaultInv, RotationInv
      <4> QED BY <4>1, <4>2, <2>0
    <3>2. CASE u # t
      BY <1>5, <3>2 DEF RotatePut, Put, VaultInv, TypeInv, CallerType, OperatorType,
                        StoreType, LastWordStands
    <3> QED BY <3>1, <3>2
  <2>5. LifeInv'
    BY <1>5 DEF VaultInv, LifeInv, RotatePut, callerVars
  <2> QED BY <2>1, <2>2, <2>3, <2>4, <2>5 DEF VaultInv
<1>6. ASSUME NEW o \in Operator, NEW t \in Tenant, NEW k \in Token,
             RotateRead(o, t, k)
      PROVE  VaultInv'
  <2>1. TypeInv'
    <3>1. CASE store[t] = None
      BY <1>6, <3>1 DEF VaultInv, TypeInv, CallerType, OperatorType, StoreType,
                        RotateRead, callerVars, changeVars
    <3>2. CASE store[t] # None
      <4>1. store[t] \in Credential
        BY <3>2 DEF VaultInv, TypeInv, StoreType
      <4>2. OperatorType'
        BY <1>6, <3>2, <4>1 DEF VaultInv, TypeInv, OperatorType, RotateRead
      <4>3. CallerType' /\ StoreType'
        BY <1>6 DEF VaultInv, TypeInv, CallerType, StoreType, RotateRead, callerVars,
                    changeVars
      <4> QED BY <4>2, <4>3 DEF TypeInv
    <3> QED BY <3>1, <3>2
  <2>2. RotationInv'
    BY <1>6 DEF VaultInv, TypeInv, CallerType, OperatorType, StoreType, RotationInv,
                LastWordStands, RotateRead, changeVars
  <2>3. StoredNow' /\ TokenInv' /\ LifeInv' /\ LastWordStands'
    BY <1>6 DEF VaultInv, StoredNow, TokenInv, LifeInv, LastWordStands, RotateRead,
                callerVars, changeVars
  <2> QED BY <2>1, <2>2, <2>3 DEF VaultInv
<1>7. ASSUME NEW o \in Operator, NEW t \in Tenant, Revoke(o, t)
      PROVE  VaultInv'
  <2>1. TypeInv'
    BY <1>7 DEF VaultInv, TypeInv, CallerType, OperatorType, StoreType, Revoke,
                LastWord, callerVars
  <2>2. StoredNow'
    BY <1>7 DEF VaultInv, TypeInv, CallerType, OperatorType, StoreType, StoredNow,
                Revoke
  <2>3. TokenInv' /\ LifeInv'
    <3>0. LifeInv'
      BY <1>7 DEF VaultInv, LifeInv, Revoke, callerVars
    <3> SUFFICES ASSUME NEW c \in Caller, pc[c] \in {"stamp", "sign"}
                 PROVE  gone[<<req[c].tenant, held[c].creds>>]
                        <= held[c].lag + held[c].age
      BY <1>7, <3>0 DEF TokenInv, Revoke, callerVars
    <3>1. /\ req[c].tenant \in Tenant /\ held[c].creds # None
          /\ held[c].lag \in Nat /\ held[c].age \in Nat
      BY TokenFields DEF VaultInv, TypeInv, CallerType
    <3>2. CASE store[req[c].tenant] = held[c].creds
      BY <3>1, <3>2 DEF VaultInv, StoredNow
    <3>3. CASE store[req[c].tenant] # held[c].creds
      BY <3>3 DEF VaultInv, TokenInv
    <3> QED BY <3>2, <3>3
  <2>4. RotationInv'
    <3> SUFFICES ASSUME NEW q \in Operator, opc[q] = "put",
                        change[q].tenant \notin overtaken'
                 PROVE  word'[change[q].tenant] = change[q].creds.consumer
      BY <1>7 DEF RotationInv, Revoke
    <3>1. change[q].tenant # t
      BY <1>7 DEF Revoke, LastWord, VaultInv, TypeInv, CallerType, OperatorType,
                  StoreType
    <3>2. change[q].tenant \notin overtaken
      BY <1>7, <3>1 DEF Revoke, LastWord
    <3> QED BY <1>7, <3>1, <3>2 DEF Revoke, LastWord, VaultInv, TypeInv, CallerType,
                                    OperatorType, StoreType, RotationInv
  <2>5. LastWordStands'
    BY <1>7 DEF Revoke, LastWord, VaultInv, TypeInv, CallerType, OperatorType,
                StoreType, LastWordStands
  <2> QED BY <2>1, <2>2, <2>3, <2>4, <2>5 DEF VaultInv
<1>8. ASSUME Tick
      PROVE  VaultInv'
  <2>0. ASSUME NEW c \in Caller
        PROVE  /\ held'[c] \in VendedToken /\ held'[c].creds = held[c].creds
               /\ held'[c].life = held[c].life
               /\ pc[c] \notin {"stamp", "sign"} => held'[c] = held[c]
               /\ pc[c] = "stamp" => /\ held'[c].lag = held[c].lag + 1
                                     /\ held'[c].age = held[c].age
               /\ pc[c] = "sign" => /\ held'[c].age = tick(held[c].age)
                                    /\ held'[c].lag = held[c].lag
    <3>1. held[c] \in VendedToken /\ pc[c] \in {"idle", "read", "stamp", "sign"}
      BY DEF VaultInv, TypeInv, CallerType
    <3>2. CASE pc[c] = "stamp"
      <4>1. held'[c] = [held[c] EXCEPT !.lag = @ + 1] /\ held[c].lag < MaxLag
        BY <1>8, <3>2 DEF Tick
      <4>2. held[c].lag + 1 \in 0..MaxLag
        BY <3>1, <4>1, TokenFields
      <4> QED BY <3>1, <3>2, <4>1, <4>2 DEF VendedToken
    <3>3. CASE pc[c] = "sign"
      <4>1. held'[c] = [held[c] EXCEPT !.age = tick(@)]
        BY <1>8, <3>3 DEF Tick
      <4>2. tick(held[c].age) \in 0..Horizon
        BY <3>1, TokenFields DEF tick
      <4> QED BY <3>1, <3>3, <4>1, <4>2 DEF VendedToken
    <3>4. CASE pc[c] \notin {"stamp", "sign"}
      <4>1. held'[c] = held[c]
        BY <1>8, <3>4 DEF Tick
      <4> QED BY <3>1, <3>4, <4>1
    <3> QED BY <3>1, <3>2, <3>3, <3>4
  <2>1. TypeInv'
    <3>1. held' \in [Caller -> VendedToken]
      BY <1>8, <2>0 DEF Tick
    <3>2. CallerType'
      BY <1>8, <2>0, <3>1 DEF VaultInv, TypeInv, CallerType, Tick
    <3>3. gone' \in [Tenant \X Credential -> 0..Horizon]
      <4>1. \A p \in Tenant \X Credential : gone[p] \in 0..Horizon
        BY DEF VaultInv, TypeInv, StoreType
      <4> QED BY <1>8, <4>1, TokenFields DEF Tick, tick
    <3>4. OperatorType' /\ StoreType'
      BY <1>8, <3>3 DEF VaultInv, TypeInv, OperatorType, StoreType, Tick,
                        operatorVars, changeVars
    <3> QED BY <3>2, <3>4 DEF TypeInv
  <2>2. StoredNow'
    BY <1>8 DEF VaultInv, TypeInv, StoreType, StoredNow, Tick
  <2>3. TokenInv' /\ LifeInv'
    <3>0. LifeInv'
      BY <1>8, <2>0 DEF VaultInv, LifeInv, Tick
    <3> SUFFICES ASSUME NEW c \in Caller, pc[c] \in {"stamp", "sign"}
                 PROVE  gone'[<<req[c].tenant, held'[c].creds>>]
                        <= held'[c].lag + held'[c].age
      BY <1>8, <3>0 DEF TokenInv, Tick
    <3> DEFINE p == <<req[c].tenant, held[c].creds>>
    <3>1. /\ p \in Tenant \X Credential /\ gone[p] \in 0..Horizon
          /\ held[c].lag \in Nat /\ held[c].age \in 0..Horizon
      BY TokenFields DEF VaultInv, TypeInv, CallerType, StoreType
    <3>2. gone'[p] = IF store[req[c].tenant] = held[c].creds THEN 0 ELSE tick(gone[p])
      BY <1>8, <3>1 DEF Tick
    <3>3. store[req[c].tenant] = held[c].creds \/ gone[p] <= held[c].lag + held[c].age
      BY DEF VaultInv, TokenInv
    <3>4. tick(gone[p]) <= gone[p] + 1 /\ tick(gone[p]) <= Horizon
          /\ tick(gone[p]) \in Nat
      BY <3>1, TokenFields DEF tick
    <3>5. tick(held[c].age) \in Nat
          /\ (tick(held[c].age) = held[c].age + 1 \/ tick(held[c].age) = Horizon)
      BY <3>1, TokenFields DEF tick
    <3>6. held'[c].lag + held'[c].age \in Nat
          /\ \/ held'[c].lag + held'[c].age = held[c].lag + held[c].age + 1
             \/ held'[c].lag + held'[c].age >= Horizon
      BY <2>0, <3>1, <3>5, TokenFields
    <3> HIDE DEF p
    <3>7. gone'[p] <= held'[c].lag + held'[c].age
      BY <3>1, <3>2, <3>3, <3>4, <3>6, TokenFields
    <3> QED BY <2>0, <3>7 DEF p
  <2>4. RotationInv' /\ LastWordStands'
    BY <1>8 DEF VaultInv, RotationInv, LastWordStands, Tick, operatorVars, changeVars
  <2> QED BY <2>1, <2>2, <2>3, <2>4 DEF VaultInv
<1>9. CASE UNCHANGED vars
  BY <1>9 DEF VaultInv, TypeInv, CallerType, OperatorType, StoreType, StoredNow,
              TokenInv, LifeInv, RotationInv, LastWordStands, vars, callerVars,
              operatorVars, changeVars
<1> QED BY <1>1, <1>2, <1>3, <1>4, <1>5, <1>6, <1>7, <1>8, <1>9, <1>10 DEF Next

\* The invariant holds in every state.
LEMMA VaultAlways == Spec => []VaultInv
<1>1. Init => VaultInv
  BY InputAssumption, BoundAssumption, TokenFields
     DEF Init, VaultInv, TypeInv, CallerType, OperatorType, StoreType, StoredNow,
         TokenInv, LifeInv, RotationInv, LastWordStands, NoChange
<1> QED BY <1>1, VaultNext, PTL DEF Spec

-----------------------------------------------------------------------------
\* A token that can still sign by the clock holds a credential that is stored for its
\* tenant or left the store less than the token's own ttl ago, plus the time that lay
\* between reading the store and stamping the token: revoke and rotate_token bite,
\* however many callers keep a token (vend_token, authorization_header).
THEOREM RevocationTakesEffect == Spec => []RevocationBites
<1>1. VaultInv => RevocationBites
  <2> SUFFICES ASSUME VaultInv, NEW c \in Caller, pc[c] = "sign", ~is_expired(held[c]),
                      store[req[c].tenant] # held[c].creds
               PROVE  gone[<<req[c].tenant, held[c].creds>>]
                      < lifetime(req[c]) + held[c].lag
    BY DEF RevocationBites
  <2> DEFINE g == gone[<<req[c].tenant, held[c].creds>>]
  <2>1. /\ held[c] \in VendedToken /\ held[c].creds \in Credential
        /\ req[c].tenant \in Tenant
    BY TokenFields DEF VaultInv, TypeInv, CallerType
  <2>2. g <= held[c].lag + held[c].age /\ held[c].life = lifetime(req[c])
    BY DEF VaultInv, TokenInv, LifeInv
  <2>3. g \in Nat /\ held[c].lag \in Nat /\ held[c].age \in Nat /\ held[c].life \in Nat
    <3>1. g \in 0..Horizon
      BY <2>1 DEF VaultInv, TypeInv, StoreType
    <3>2. held[c].life \in 0..MaxTTL
      BY <2>1 DEF VendedToken
    <3> QED BY <2>1, <3>1, <3>2, TokenFields, BoundAssumption
  <2> HIDE DEF g
  <2>4. held[c].age < held[c].life
    BY <2>3 DEF is_expired
  <2>5. g < lifetime(req[c]) + held[c].lag
    BY <2>2, <2>3, <2>4
  <2> QED BY <2>5 DEF g
<1> QED BY <1>1, VaultAlways, PTL

\* The credential stored for a tenant is of the integration last onboarded for it,
\* none after a revoke, unless that change met a rotation of the tenant's token
\* between its two store calls (store_credentials, revoke, rotate_token).
THEOREM StoreFollowsOperators == Spec => []LastWordStands
<1>1. VaultInv => LastWordStands
  BY DEF VaultInv
<1> QED BY <1>1, VaultAlways, PTL
=============================================================================
