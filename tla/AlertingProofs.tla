--------------------------- MODULE AlertingProofs ---------------------------
(***************************************************************************)
(* Proofs about Alerting, for any number of Beacon replicas, any events    *)
(* and any deduplication window: an alert is sent at most once per         *)
(* lifetime of its key, and one that is suppressed repeats one that was    *)
(* claimed, and that was sent, is being sent, or died with its replica.    *)
(***************************************************************************)
EXTENDS Alerting, FiniteSetTheorems, TLAPS

-----------------------------------------------------------------------------
(* The inductive invariant.                                                *)

Calls == {"down", "idle", "dispatch", "quarantine", "republish", "dedup", "send"}

\* The replicas and the keys; every message at hand is an event.
ReplicaType ==
    /\ pc \in [Replica -> Calls]
    /\ msg \in [Replica -> Event \cup {None}]
    /\ \A b \in Replica : pc[b] \notin {"down", "idle"} => msg[b] \in Event
    /\ inbox \in [Replica -> Seq(Event)]

KeyType ==
    /\ ttl \in [Key -> 0..Window]
    /\ sent \in [Key -> Nat] /\ expiries \in [Key -> Nat]
    /\ claimed \in [Event -> 0..Window] /\ orphaned \subseteq Key

\* Replicas that have claimed key k and not yet sent its alert.
Sending(k) == {b \in Replica : pc[b] = "send" /\ dedup_key(msg[b]) = k}

\* Alerts sent and on their way: one for each lifetime of the key that is over, and
\* one more while the key lives.
CountInv ==
    \A k \in Key : /\ IsFiniteSet(Sending(k))
                   /\ sent[k] + Cardinality(Sending(k))
                      <= expiries[k] + IF ttl[k] > 0 THEN 1 ELSE 0

\* A key that lives was set for an event with that key, as long ago as it has aged, ...
ClaimInv ==
    \A k \in Key : ttl[k] > 0 =>
        \E f \in Event : dedup_key(f) = k /\ claimed[f] + ttl[k] <= Window

\* ... and its alert has been sent, is on its way, or died with its replica.
AccountInv ==
    \A k \in Key : ttl[k] > 0 => sent[k] > 0 \/ k \in orphaned \/ Sending(k) # {}

AlertInv == ReplicaType /\ KeyType /\ CountInv /\ ClaimInv /\ AccountInv

-----------------------------------------------------------------------------
(* Steps of one replica.                                                   *)

\* A step of replica b changes nobody else's place among the senders.
LEMMA SendersMove ==
    ASSUME ReplicaType, NEW b \in Replica, NEW p, NEW e,
           pc' = [pc EXCEPT ![b] = p], msg' = [msg EXCEPT ![b] = e], NEW k
    PROVE  Sending(k)' = IF p = "send" /\ dedup_key(e) = k THEN Sending(k) \cup {b}
                         ELSE Sending(k) \ {b}
<1>1. pc'[b] = p /\ msg'[b] = e
  BY DEF ReplicaType
<1>2. \A c \in Replica \ {b} : pc'[c] = pc[c] /\ msg'[c] = msg[c]
  BY DEF ReplicaType
<1> QED BY <1>1, <1>2 DEF Sending

\* A step that claims no key, sends nothing and abandons nothing.
LEMMA Quiet ==
    ASSUME AlertInv, ReplicaType',
           UNCHANGED <<ttl, claimed, sent, orphaned, expiries>>,
           \A k \in Key : Sending(k)' = Sending(k)
    PROVE  AlertInv'
<1>1. KeyType'
  BY DEF AlertInv, KeyType
<1>2. CountInv'
  BY DEF AlertInv, CountInv
<1>3. ClaimInv' /\ AccountInv'
  BY DEF AlertInv, ClaimInv, AccountInv
<1> QED BY <1>1, <1>2, <1>3 DEF AlertInv

\* A replica that is not sending, before and after.
LEMMA QuietReplica ==
    ASSUME AlertInv, NEW b \in Replica, pc[b] # "send",
           NEW p \in Calls \ {"send"}, NEW e \in Event \cup {None},
           p \notin {"down", "idle"} => e \in Event,
           pc' = [pc EXCEPT ![b] = p], msg' = [msg EXCEPT ![b] = e],
           inbox' \in [Replica -> Seq(Event)],
           UNCHANGED <<ttl, claimed, sent, orphaned, expiries>>
    PROVE  AlertInv'
<1>1. ReplicaType'
  BY DEF AlertInv, ReplicaType
<1>2. \A k \in Key : Sending(k)' = Sending(k) \ {b}
  BY SendersMove DEF AlertInv
<1>3. \A k \in Key : b \notin Sending(k)
  BY DEF Sending
<1>4. \A k \in Key : Sending(k)' = Sending(k)
  BY <1>2, <1>3
<1> QED BY <1>1, <1>4, Quiet

\* PUBLISH leaves every socket with events.
LEMMA PublishKeeps ==
    ASSUME inbox \in [Replica -> Seq(Event)], NEW e \in Event, Publish(e)
    PROVE  inbox' \in [Replica -> Seq(Event)]
BY DEF Publish

\* SET NX EX by a replica: the key did not live, so all its alerts so far belong to
\* lifetimes that are over (is_duplicate, notify).
LEMMA ClaimKeeps ==
    ASSUME AlertInv, NEW b \in Replica, Dedup(b), ~is_duplicate(dedup_key(msg[b]))
    PROVE  AlertInv'
<1>0. PICK k0 \in Key : k0 = dedup_key(msg[b])
  BY DEF Dedup, AlertInv, ReplicaType, Key
<1>1. /\ pc[b] = "dedup" /\ msg[b] \in Event
      /\ pc' = [pc EXCEPT ![b] = "send"] /\ msg' = [msg EXCEPT ![b] = msg[b]]
      /\ ttl' = [ttl EXCEPT ![k0] = Window]
      /\ claimed' = [claimed EXCEPT ![msg[b]] = 0]
      /\ UNCHANGED <<inbox, sent, orphaned, expiries>>
  BY <1>0 DEF Dedup, Goto, expiry, AlertInv, ReplicaType
<1>2. ttl[k0] = 0 /\ Window > 0
  BY <1>0, BoundAssumption DEF is_duplicate, AlertInv, KeyType
<1>3. /\ Sending(k0)' = Sending(k0) \cup {b}
      /\ b \notin Sending(k0)
      /\ \A k \in Key \ {k0} : Sending(k)' = Sending(k)
  <2>1. \A k : b \notin Sending(k)
    BY <1>1 DEF Sending
  <2>2. \A k : Sending(k)' = IF k0 = k THEN Sending(k) \cup {b} ELSE Sending(k) \ {b}
    BY <1>0, <1>1, SendersMove DEF AlertInv
  <2>3. Sending(k0)' = Sending(k0) \cup {b}
    BY <2>2
  <2>4. \A k \in Key \ {k0} : Sending(k)' = Sending(k)
    BY <2>1, <2>2
  <2> QED BY <2>1, <2>3, <2>4
<1>4. /\ ttl'[k0] = Window
      /\ \A k \in Key \ {k0} : ttl'[k] = ttl[k]
  BY <1>1, <1>2 DEF AlertInv, KeyType
<1>5. ReplicaType'
  BY <1>1 DEF AlertInv, ReplicaType, Calls
<1>6. KeyType'
  BY <1>1, <1>2, BoundAssumption DEF AlertInv, KeyType
<1>7. CountInv'
  <2> SUFFICES ASSUME NEW k \in Key
               PROVE  /\ IsFiniteSet(Sending(k)')
                      /\ sent[k] + Cardinality(Sending(k)')
                         <= expiries[k] + IF ttl'[k] > 0 THEN 1 ELSE 0
    BY <1>1 DEF CountInv
  <2>1. /\ IsFiniteSet(Sending(k)) /\ sent[k] \in Nat /\ expiries[k] \in Nat
        /\ sent[k] + Cardinality(Sending(k))
           <= expiries[k] + IF ttl[k] > 0 THEN 1 ELSE 0
    BY DEF AlertInv, KeyType, CountInv
  <2>2. CASE k = k0
    <3>0. Sending(k)' = Sending(k) \cup {b} /\ b \notin Sending(k)
      BY <1>3, <2>2
    <3>1. /\ IsFiniteSet(Sending(k)')
          /\ Cardinality(Sending(k)') = Cardinality(Sending(k)) + 1
      BY <2>1, <3>0, FS_AddElement
    <3>2. Cardinality(Sending(k)) \in Nat
      BY <2>1, FS_CardinalityType
    <3> QED BY <1>2, <1>4, <2>1, <2>2, <3>1, <3>2
  <2>3. CASE k # k0
    BY <1>3, <1>4, <2>1, <2>3
  <2> QED BY <2>2, <2>3
<1>8. ClaimInv'
  <2>1. /\ claimed'[msg[b]] = 0
        /\ \A f \in Event : dedup_key(f) # k0 => claimed'[f] = claimed[f]
    BY <1>0, <1>1 DEF AlertInv, KeyType
  <2>2. CASE Window \in Nat
    <3> SUFFICES ASSUME NEW k \in Key, ttl'[k] > 0
                 PROVE  \E f \in Event : dedup_key(f) = k
                                        /\ claimed'[f] + ttl'[k] <= Window
      BY DEF ClaimInv
    <3>1. CASE k = k0
      BY <1>0, <1>1, <1>4, <2>1, <2>2, <3>1
    <3>2. CASE k # k0
      BY <1>4, <2>1, <3>2 DEF AlertInv, ClaimInv
    <3> QED BY <3>1, <3>2
  <2> QED BY <2>2, BoundAssumption
<1>9. AccountInv'
  BY <1>1, <1>3, <1>4 DEF AlertInv, AccountInv
<1> QED BY <1>5, <1>6, <1>7, <1>8, <1>9 DEF AlertInv

\* A replica that stops sending, because it has sent or because it died.
LEMMA ReleaseKeeps ==
    ASSUME AlertInv, NEW b \in Replica, pc[b] = "send",
           NEW p \in {"idle", "down"},
           pc' = [pc EXCEPT ![b] = p], msg' = [msg EXCEPT ![b] = None],
           inbox' \in [Replica -> Seq(Event)],
           UNCHANGED <<ttl, claimed, expiries>>,
           \/ /\ sent' = [sent EXCEPT ![dedup_key(msg[b])] = @ + 1]
              /\ UNCHANGED orphaned
           \/ /\ orphaned' = orphaned \cup {dedup_key(msg[b])}
              /\ UNCHANGED sent
    PROVE  AlertInv'
<1>1. PICK k0 \in Key : k0 = dedup_key(msg[b])
  BY DEF AlertInv, ReplicaType, Key
<1>2. /\ b \in Sending(k0) /\ Sending(k0)' = Sending(k0) \ {b}
      /\ \A k \in Key \ {k0} : Sending(k)' = Sending(k)
  <2>1. \A k : b \in Sending(k) <=> k = k0
    BY <1>1 DEF Sending
  <2>2. \A k : Sending(k)' = Sending(k) \ {b}
    BY SendersMove DEF AlertInv
  <2>3. b \in Sending(k0) /\ Sending(k0)' = Sending(k0) \ {b}
    BY <2>1, <2>2
  <2>4. \A k \in Key \ {k0} : Sending(k)' = Sending(k)
    BY <2>1, <2>2
  <2> QED BY <2>3, <2>4
<1>3. /\ sent' \in [Key -> Nat] /\ orphaned' \subseteq Key
      /\ \A k \in Key \ {k0} : sent'[k] = sent[k]
      /\ \/ sent'[k0] = sent[k0] + 1
         \/ sent'[k0] = sent[k0] /\ k0 \in orphaned'
      /\ \A k \in Key : k \in orphaned => k \in orphaned'
  <2>1. sent \in [Key -> Nat] /\ orphaned \subseteq Key
    BY DEF AlertInv, KeyType
  <2> QED BY <1>1, <2>1
<1>4. ReplicaType'
  BY DEF AlertInv, ReplicaType, Calls
<1>5. KeyType'
  BY <1>3 DEF AlertInv, KeyType
<1>6. CountInv'
  <2> SUFFICES ASSUME NEW k \in Key
               PROVE  /\ IsFiniteSet(Sending(k)')
                      /\ sent'[k] + Cardinality(Sending(k)')
                         <= expiries[k] + IF ttl[k] > 0 THEN 1 ELSE 0
    BY DEF CountInv
  <2>1. /\ IsFiniteSet(Sending(k)) /\ sent[k] \in Nat /\ expiries[k] \in Nat
        /\ sent[k] + Cardinality(Sending(k))
           <= expiries[k] + IF ttl[k] > 0 THEN 1 ELSE 0
    BY DEF AlertInv, KeyType, CountInv
  <2>2. CASE k = k0
    <3>0. Sending(k)' = Sending(k) \ {b} /\ b \in Sending(k)
      BY <1>2, <2>2
    <3>1. /\ IsFiniteSet(Sending(k)')
          /\ Cardinality(Sending(k)') = Cardinality(Sending(k)) - 1
      BY <2>1, <3>0, FS_RemoveElement
    <3>2. Cardinality(Sending(k)) \in Nat
      BY <2>1, FS_CardinalityType
    <3> QED BY <1>3, <2>1, <2>2, <3>1, <3>2
  <2>3. CASE k # k0
    BY <1>2, <1>3, <2>1, <2>3
  <2> QED BY <2>2, <2>3
<1>7. ClaimInv'
  BY DEF AlertInv, ClaimInv
<1>8. AccountInv'
  BY <1>1, <1>2, <1>3 DEF AlertInv, AccountInv, KeyType
<1> QED BY <1>4, <1>5, <1>6, <1>7, <1>8 DEF AlertInv

\* Redis ages its keys: a key that dies ends a lifetime.
LEMMA TickKeeps ==
    ASSUME AlertInv, Tick
    PROVE  AlertInv'
<1>1. UNCHANGED <<pc, msg, inbox, sent, orphaned>>
  BY DEF Tick, replicaVars
<1>2. \A k \in Key : /\ ttl'[k] = IF ttl[k] > 0 THEN ttl[k] - 1 ELSE 0
                     /\ expiries'[k] = expiries[k] + IF ttl[k] = 1 THEN 1 ELSE 0
  BY DEF Tick
<1>3. KeyType'
  BY <1>1, BoundAssumption DEF Tick, AlertInv, KeyType
<1>4. \A k \in Key : Sending(k)' = Sending(k)
  BY <1>1 DEF Sending
<1>5. CountInv'
  <2> SUFFICES ASSUME NEW k \in Key
               PROVE  sent[k] + Cardinality(Sending(k))
                      <= expiries'[k] + IF ttl'[k] > 0 THEN 1 ELSE 0
    BY <1>1, <1>4 DEF AlertInv, CountInv
  <2>1. /\ IsFiniteSet(Sending(k)) /\ sent[k] \in Nat /\ expiries[k] \in Nat
        /\ ttl[k] \in 0..Window
        /\ sent[k] + Cardinality(Sending(k))
           <= expiries[k] + IF ttl[k] > 0 THEN 1 ELSE 0
    BY DEF AlertInv, KeyType, CountInv
  <2>2. Cardinality(Sending(k)) \in Nat
    BY <2>1, FS_CardinalityType
  <2> QED BY <1>2, <2>1, <2>2, BoundAssumption
<1>6. ReplicaType'
  BY <1>1 DEF AlertInv, ReplicaType
<1>7. AccountInv'
  <2>1. \A k \in Key : ttl'[k] > 0 => ttl[k] > 0
    BY <1>2 DEF AlertInv, KeyType
  <2> QED BY <1>1, <1>4, <2>1 DEF AlertInv, AccountInv
<1>8. ClaimInv'
  <2> SUFFICES ASSUME NEW k \in Key, ttl'[k] > 0
               PROVE  \E f \in Event : dedup_key(f) = k
                                      /\ claimed'[f] + ttl'[k] <= Window
    BY DEF ClaimInv
  <2>1. ttl[k] \in Nat /\ ttl[k] > 0 /\ ttl'[k] = ttl[k] - 1
    BY <1>2 DEF AlertInv, KeyType
  <2>2. PICK f \in Event : dedup_key(f) = k /\ claimed[f] + ttl[k] <= Window
    BY <2>1 DEF AlertInv, ClaimInv
  <2>3. claimed[f] \in Nat /\ claimed'[f] = IF claimed[f] < Window THEN claimed[f] + 1
                                           ELSE Window
    BY DEF Tick, AlertInv, KeyType
  <2> QED BY <2>1, <2>2, <2>3, BoundAssumption
<1> QED BY <1>3, <1>5, <1>6, <1>7, <1>8 DEF AlertInv

-----------------------------------------------------------------------------
(* Preservation.                                                           *)

\* Every step keeps the invariant.
LEMMA AlertNext == AlertInv /\ [Next]_vars => AlertInv'
<1> SUFFICES ASSUME AlertInv, [Next]_vars PROVE AlertInv'
  OBVIOUS
<1>0. ASSUME UNCHANGED <<pc, msg, ttl, claimed, sent, orphaned, expiries>>,
             inbox' \in [Replica -> Seq(Event)]
      PROVE  AlertInv'
  <2>1. ReplicaType'
    BY <1>0 DEF AlertInv, ReplicaType
  <2>2. \A k \in Key : Sending(k)' = Sending(k)
    BY <1>0 DEF Sending
  <2> QED BY <1>0, <2>1, <2>2, Quiet
<1>1. ASSUME NEW e \in Event, Trigger(e)
      PROVE  AlertInv'
  <2>1. inbox' \in [Replica -> Seq(Event)]
    BY <1>1, PublishKeeps DEF Trigger, AlertInv, ReplicaType
  <2> QED BY <1>0, <1>1, <2>1 DEF Trigger, history
<1>2. ASSUME NEW b \in Replica, Take(b)
      PROVE  AlertInv'
  <2>1. Head(inbox[b]) \in Event /\ Tail(inbox[b]) \in Seq(Event)
    BY <1>2 DEF Take, AlertInv, ReplicaType
  <2>2. inbox' \in [Replica -> Seq(Event)]
    BY <1>2, <2>1 DEF Take, AlertInv, ReplicaType
  <2> QED BY <1>2, <2>1, <2>2, QuietReplica DEF Take, Goto, history, Calls
<1>3. ASSUME NEW b \in Replica, Dispatch(b) \/ RecordDeadLetter(b)
      PROVE  AlertInv'
  <2>1. /\ msg[b] \in Event /\ msg' = [msg EXCEPT ![b] = msg[b]]
        /\ inbox' \in [Replica -> Seq(Event)] /\ pc[b] # "send"
        /\ UNCHANGED <<ttl, claimed, sent, orphaned, expiries>>
    BY <1>3 DEF Dispatch, RecordDeadLetter, history, AlertInv, ReplicaType
  <2>2. PICK p \in {"dedup", "quarantine", "republish"} : pc' = [pc EXCEPT ![b] = p]
    BY <1>3 DEF Dispatch, RecordDeadLetter, Goto
  <2> QED BY <2>1, <2>2, QuietReplica DEF Calls
<1>4. ASSUME NEW b \in Replica, PublishDeadLetter(b)
      PROVE  AlertInv'
  <2>1. inbox' \in [Replica -> Seq(Event)]
    BY <1>4, PublishKeeps DEF PublishDeadLetter, AlertInv, ReplicaType
  <2> QED BY <1>4, <2>1, QuietReplica DEF PublishDeadLetter, Return, Goto, history, Calls
<1>5. ASSUME NEW b \in Replica, Dedup(b)
      PROVE  AlertInv'
  <2>1. CASE is_duplicate(dedup_key(msg[b]))
    <3>1. /\ pc[b] = "dedup" /\ Return(b)
          /\ UNCHANGED <<inbox, ttl, claimed, sent, orphaned, expiries>>
      BY <1>5, <2>1 DEF Dedup
    <3>2. inbox' \in [Replica -> Seq(Event)]
      BY <3>1 DEF AlertInv, ReplicaType
    <3> QED BY <3>1, <3>2, QuietReplica DEF Return, Goto, Calls
  <2>2. CASE ~is_duplicate(dedup_key(msg[b]))
    BY <1>5, <2>2, ClaimKeeps
  <2> QED BY <2>1, <2>2
<1>6. ASSUME NEW b \in Replica, Send(b)
      PROVE  AlertInv'
  <2>1. /\ pc[b] = "send" /\ pc' = [pc EXCEPT ![b] = "idle"]
        /\ msg' = [msg EXCEPT ![b] = None]
        /\ UNCHANGED <<inbox, ttl, claimed, orphaned, expiries>>
        /\ sent' = [sent EXCEPT ![dedup_key(msg[b])] = @ + 1]
    BY <1>6 DEF Send, Return, Goto
  <2>2. inbox' \in [Replica -> Seq(Event)]
    BY <2>1 DEF AlertInv, ReplicaType
  <2> QED BY <2>1, <2>2, ReleaseKeeps
<1>7. ASSUME NEW b \in Replica, Crash(b)
      PROVE  AlertInv'
  <2>1. /\ pc' = [pc EXCEPT ![b] = "down"] /\ msg' = [msg EXCEPT ![b] = None]
        /\ UNCHANGED <<ttl, claimed, sent, expiries>>
        /\ orphaned' = orphaned \cup
               (IF pc[b] = "send" THEN {dedup_key(msg[b])} ELSE {})
    BY <1>7 DEF Crash, Goto
  <2>2. inbox' \in [Replica -> Seq(Event)]
    BY <1>7 DEF Crash, AlertInv, ReplicaType
  <2>3. CASE pc[b] = "send"
    BY <2>1, <2>2, <2>3, ReleaseKeeps
  <2>4. CASE pc[b] # "send"
    <3>1. orphaned' = orphaned
      BY <2>1, <2>4
    <3> QED BY <2>1, <2>2, <2>4, <3>1, QuietReplica DEF Calls
  <2> QED BY <2>3, <2>4
<1>8. ASSUME NEW b \in Replica, Restart(b)
      PROVE  AlertInv'
  <2>1. /\ pc[b] = "down" /\ pc' = [pc EXCEPT ![b] = "idle"]
        /\ msg[b] \in Event \cup {None} /\ msg' = [msg EXCEPT ![b] = msg[b]]
        /\ inbox' \in [Replica -> Seq(Event)]
        /\ UNCHANGED <<ttl, claimed, sent, orphaned, expiries>>
    BY <1>8 DEF Restart, Goto, history, AlertInv, ReplicaType
  <2> QED BY <2>1, QuietReplica DEF Calls
<1>9. CASE UNCHANGED vars
  <2>1. inbox' \in [Replica -> Seq(Event)]
    BY <1>9 DEF vars, replicaVars, AlertInv, ReplicaType
  <2> QED BY <1>0, <1>9, <2>1 DEF vars, replicaVars, history
<1> QED BY <1>1, <1>2, <1>3, <1>4, <1>5, <1>6, <1>7, <1>8, <1>9, TickKeeps
        DEF Next, Step, Announce, Quarantine, Quiescent, Event

\* The invariant holds in every state.
LEMMA AlertAlways == Spec => []AlertInv
<1>1. Init => AlertInv
  <2> SUFFICES ASSUME Init PROVE AlertInv
    OBVIOUS
  <2>1. ReplicaType /\ KeyType
    BY BoundAssumption DEF Init, ReplicaType, KeyType, Calls
  <2>2. \A k \in Key : Sending(k) = {}
    BY DEF Init, Sending
  <2>3. CountInv
    <3> SUFFICES ASSUME NEW k \in Key
                 PROVE  /\ IsFiniteSet(Sending(k))
                        /\ sent[k] + Cardinality(Sending(k))
                           <= expiries[k] + IF ttl[k] > 0 THEN 1 ELSE 0
      BY DEF CountInv
    <3>1. sent[k] = 0 /\ expiries[k] = 0 /\ ttl[k] = 0
      BY DEF Init
    <3>2. IsFiniteSet(Sending(k)) /\ Cardinality(Sending(k)) = 0
      BY <2>2, FS_EmptySet
    <3> QED BY <3>1, <3>2
  <2>4. ClaimInv /\ AccountInv
    BY DEF Init, ClaimInv, AccountInv
  <2> QED BY <2>1, <2>3, <2>4 DEF AlertInv
<1> QED BY <1>1, AlertNext, PTL DEF Spec

-----------------------------------------------------------------------------
\* A storm is collapsed fleet-wide: for any number of replicas, redeliveries and
\* deaths, an alert is sent at most once per lifetime of its key, even by a replica
\* so slow that the key expires before it sends (is_duplicate, notify).
THEOREM OncePerWindow == Spec => []AlertedOncePerWindow
<1>1. AlertInv => AlertedOncePerWindow
  <2> SUFFICES ASSUME AlertInv, NEW k \in Key
               PROVE  sent[k] <= expiries[k] + 1
    BY DEF AlertedOncePerWindow
  <2>1. /\ sent[k] \in Nat /\ expiries[k] \in Nat /\ IsFiniteSet(Sending(k))
        /\ sent[k] + Cardinality(Sending(k))
           <= expiries[k] + IF ttl[k] > 0 THEN 1 ELSE 0
    BY DEF AlertInv, KeyType, CountInv
  <2>2. Cardinality(Sending(k)) \in Nat
    BY <2>1, FS_CardinalityType
  <2> QED BY <2>1, <2>2
<1> QED BY <1>1, AlertAlways, PTL

\* Only a replica that found the key alive suppresses an alert (is_duplicate).
LEMMA SuppressedFoundKey ==
    ASSUME AlertInv, [Next]_vars, NEW b \in Replica, Suppressed(b)
    PROVE  /\ msg[b] \in Event /\ dedup_key(msg[b]) \in Key
           /\ ttl[dedup_key(msg[b])] > 0
<1>1. PICK c \in Replica : Step(c) \/ Crash(c)
  BY DEF Suppressed, Next, Announce, Quarantine, Trigger, Tick, Quiescent, vars,
         replicaVars
<1>2. c = b
  BY <1>1 DEF Suppressed, Step, Take, Dispatch, RecordDeadLetter, PublishDeadLetter,
              Dedup, Send, Restart, Crash, Goto, Return, AlertInv, ReplicaType
<1>3. Dedup(b) /\ is_duplicate(dedup_key(msg[b]))
  BY <1>1, <1>2 DEF Suppressed, Step, Take, Dispatch, RecordDeadLetter,
              PublishDeadLetter, Dedup, Send, Restart, Crash, Goto, AlertInv,
              ReplicaType
<1> QED BY <1>3 DEF Dedup, is_duplicate, AlertInv, ReplicaType, Key

\* Events with the same key share an identifier, or both have none (classify).
LEMMA SameKeyRepeats ==
    ASSUME NEW e \in Event, NEW f \in Event, dedup_key(e) = dedup_key(f)
    PROVE  Repeats(e, f)
<1>1. e.subject = f.subject /\ ident(e) = ident(f)
  BY DEF dedup_key
<1>2. \A g \in Event : \/ ident(g) \in names(g)
                       \/ ident(g) = None /\ names(g) = {}
  BY DEF ident, or, names, Named
<1>3. \A g \in Event : None \notin names(g)
  BY DEF names
<1> QED BY <1>1, <1>2, <1>3 DEF Repeats

\* An alert is suppressed only less than a window after an event of its subject that
\* shares an identifier with it, or has none like it, was let through (classify,
\* is_duplicate), however replicas race for the key.
THEOREM RepeatsAreSuppressed == Spec => SuppressedIsRepeat
<1>1. ASSUME AlertInv, [Next]_vars, NEW b \in Replica, Suppressed(b)
      PROVE  \E f \in Event : claimed[f] < Window /\ Repeats(msg[b], f)
  <2> DEFINE k == dedup_key(msg[b])
  <2>1. msg[b] \in Event /\ k \in Key /\ ttl[k] > 0
    BY <1>1, SuppressedFoundKey
  <2>2. PICK f \in Event : dedup_key(f) = k /\ claimed[f] + ttl[k] <= Window
    BY <1>1, <2>1 DEF AlertInv, ClaimInv
  <2>3. claimed[f] < Window
    <3>1. claimed[f] \in Nat /\ ttl[k] \in Nat
      BY <1>1, <2>1 DEF AlertInv, KeyType
    <3> QED BY <2>1, <2>2, <3>1, BoundAssumption
  <2>4. Repeats(msg[b], f)
    BY <2>1, <2>2, SameKeyRepeats
  <2> QED BY <2>3, <2>4
<1>2. AlertInv /\ [Next]_vars =>
        [\A b \in Replica : Suppressed(b) =>
            \E f \in Event : claimed[f] < Window /\ Repeats(msg[b], f)]_vars
  BY <1>1
<1> QED BY <1>2, AlertAlways, PTL DEF Spec, SuppressedIsRepeat

\* "have I paged about this already?": when an alert is suppressed, one with its key
\* has been sent, another replica is about to send it, or one died doing so (notify).
THEOREM SuppressedIsAccounted == Spec => SuppressedWasAlerted
<1>1. ASSUME AlertInv, [Next]_vars, NEW b \in Replica, Suppressed(b)
      PROVE  LET k == dedup_key(msg[b]) IN
             \/ sent[k] > 0 \/ k \in orphaned
             \/ \E c \in Replica \ {b} : pc[c] = "send" /\ dedup_key(msg[c]) = k
  <2> DEFINE k == dedup_key(msg[b])
  <2>1. k \in Key /\ ttl[k] > 0
    BY <1>1, SuppressedFoundKey
  <2>2. sent[k] > 0 \/ k \in orphaned \/ Sending(k) # {}
    BY <1>1, <2>1 DEF AlertInv, AccountInv
  <2>3. b \notin Sending(k)
    BY <1>1 DEF Suppressed, Sending
  <2> QED BY <2>2, <2>3 DEF Sending
<1>2. AlertInv /\ [Next]_vars =>
        [\A b \in Replica : Suppressed(b) =>
            LET k == dedup_key(msg[b]) IN
            \/ sent[k] > 0 \/ k \in orphaned
            \/ \E c \in Replica \ {b} : pc[c] = "send" /\ dedup_key(msg[c]) = k]_vars
  BY <1>1
<1> QED BY <1>2, AlertAlways, PTL DEF Spec, SuppressedWasAlerted
=============================================================================
