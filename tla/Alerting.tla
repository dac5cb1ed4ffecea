------------------------------ MODULE Alerting ------------------------------
(***************************************************************************)
(* Beacon, the sink of everything the other agents flag (beacon/agent.py,  *)
(* beacon/beacon.py on base/agent.py): replicas subscribed to Redis, an    *)
(* alert deduplicated fleet-wide with SET NX EX, channels by severity.     *)
(*                                                                         *)
(* A message reaches a replica on its own subject or, quarantined by       *)
(* another agent, on deadletter.<subject>.  run() looks at the data alone, *)
(* and the envelope of a dead letter keeps the original event's subject    *)
(* and payload, so a message here is the event: the channel it came on is  *)
(* not part of what Beacon sees.  A subject is the sequence of its parts.  *)
(***************************************************************************)
EXTENDS Naturals, Sequences, FiniteSets, BeaconPolicy

CONSTANTS Replica,       \* Beacon processes
          Announced,     \* events other agents emit on their own subject
          Quarantined,   \* events other agents dead-letter
          Registered,    \* subjects with a schema in the registry
          None,          \* no identifier
          Window,        \* dedup_window_seconds, in ticks
          MaxQueue,      \* bound: messages in a replica's socket
          MaxTriggers,   \* bound: messages from other agents
          MaxCrashes     \* bound: deaths of replicas

VARIABLES pc, msg, inbox,   \* each replica: next call, event, socket
          ttl,              \* Redis: time to live of each dedup key, 0 if absent
          dead,             \* ids in event_deadletter
          claimed,          \* history: ticks since a dedup key was set for each event,
                            \* Window if it was not set within a window
          logged, paged,    \* history: events sent to the log and to Hermes
          sent,             \* history: alerts sent for each key
          orphaned,         \* history: keys set by a replica that died before sending
          expiries,         \* history: times each key has expired
          published, triggers, crashes

replicaVars == <<pc, msg, inbox>>
history == <<claimed, logged, paged, sent, orphaned>>
vars == <<replicaVars, ttl, dead, history, expiries, published, triggers, crashes>>

Event == Announced \cup Quarantined
Named == {"entry_id", "work_order_id", "run_id", "id"}   \* of the payload

ASSUME EventAssumption ==
    /\ \A e \in Event : /\ DOMAIN e = {"id", "subject", "valid", "tenant", "payload"}
                        /\ DOMAIN e.payload = Named
    /\ \A e \in Announced : e.valid /\ e.subject \in Registered
    /\ None \notin Event
ASSUME BoundAssumption == /\ Window \in Nat \ {0} /\ MaxQueue \in Nat
                          /\ MaxTriggers \in Nat /\ MaxCrashes \in Nat

-----------------------------------------------------------------------------
(* beacon.py: classify, DEFAULT_ROUTES.                                    *)

\* Python's `or`; None stands for an absent, null or empty value.
or(x, y) == IF x # None THEN x ELSE y

\* The first identifier in the payload.  The tenant, in the envelope, is not part of it.
ident(e) == LET p == e.payload IN
            or(p.entry_id, or(p.work_order_id, or(p.run_id, p.id)))

\* Mutant of dedup_key: the identifier is left out.
dedup_key_bare(e) == <<e.subject, None>>

dedup_key(e) == <<e.subject, ident(e)>>
Key == {dedup_key(e) : e \in Event}

routes(severity) ==
    IF severity \in {"error", "critical"} THEN {"log", "hermes"} ELSE {"log"}

-----------------------------------------------------------------------------
TypeOK ==
    /\ pc \in [Replica -> {"down", "idle", "dispatch", "quarantine", "republish",
                           "dedup", "send"}]
    /\ msg \in [Replica -> Event \cup {None}]
    /\ \A b \in Replica : /\ inbox[b] \in Seq(Event) /\ Len(inbox[b]) <= MaxQueue
                          /\ pc[b] \in {"down", "idle"} <=> msg[b] = None
    /\ ttl \in [Key -> 0..Window]
    /\ dead \subseteq {e.id : e \in Event}
    /\ claimed \in [Event -> 0..Window]
    /\ logged \subseteq Event /\ paged \subseteq Event
    /\ sent \in [Key -> Nat] /\ expiries \in [Key -> Nat]
    /\ orphaned \subseteq Key /\ published \subseteq Event
    /\ triggers \in 0..MaxTriggers /\ crashes \in 0..MaxCrashes

Init ==
    /\ pc = [b \in Replica |-> "idle"]
    /\ msg = [b \in Replica |-> None]
    /\ inbox = [b \in Replica |-> <<>>]
    /\ ttl = [k \in Key |-> 0]
    /\ claimed = [e \in Event |-> Window]
    /\ dead = {} /\ logged = {} /\ paged = {}
    /\ sent = [k \in Key |-> 0] /\ expiries = [k \in Key |-> 0]
    /\ orphaned = {} /\ published = {} /\ triggers = 0 /\ crashes = 0

\* Redis PUBLISH: a copy for every connected replica; one whose output buffer is
\* full does not get it.
Publish(e) ==
    inbox' = [b \in Replica |-> IF pc[b] = "down" \/ Len(inbox[b]) = MaxQueue
                                THEN inbox[b] ELSE Append(inbox[b], e)]

Goto(b, step) == pc' = [pc EXCEPT ![b] = step]
Return(b) == Goto(b, "idle") /\ msg' = [msg EXCEPT ![b] = None]

-----------------------------------------------------------------------------
(* The other agents.                                                       *)

Trigger(e) == /\ triggers < MaxTriggers /\ triggers' = triggers + 1
              /\ published' = published \cup {e}
              /\ Publish(e)
              /\ UNCHANGED <<pc, msg, ttl, history, expiries, crashes>>

\* BaseAgent.emit of an event Beacon listens to, or its redelivery.
Announce(e) == Trigger(e) /\ UNCHANGED dead

\* BaseAgent._dead_letter of an event, malformed or refused by its handler.
Quarantine(e) == Trigger(e) /\ dead' = dead \cup {e.id}

-----------------------------------------------------------------------------
(* A Beacon replica.                                                       *)

\* run(): the next message off the socket, as Event.from_dict reads it.
Take(b) ==
    /\ pc[b] = "idle" /\ inbox[b] # <<>>
    /\ msg' = [msg EXCEPT ![b] = Head(inbox[b])]
    /\ inbox' = [inbox EXCEPT ![b] = Tail(@)]
    /\ Goto(b, "dispatch")
    /\ UNCHANGED <<ttl, dead, history, expiries, published, triggers, crashes>>

\* _dispatch validates against the schema of the event's own subject.
Dispatch(b) ==
    /\ pc[b] = "dispatch"
    /\ Goto(b, IF msg[b].subject \in Registered /\ msg[b].valid
               THEN "dedup" ELSE "quarantine")
    /\ UNCHANGED <<msg, inbox, ttl, dead, history, expiries, published, triggers,
                   crashes>>

\* record_deadletter: ON CONFLICT (id) DO NOTHING.
RecordDeadLetter(b) ==
    /\ pc[b] = "quarantine"
    /\ dead' = dead \cup {msg[b].id}
    /\ Goto(b, "republish")
    /\ UNCHANGED <<msg, inbox, ttl, history, expiries, published, triggers, crashes>>

\* On deadletter.<subject>, which Beacon itself is subscribed to.
PublishDeadLetter(b) ==
    /\ pc[b] = "republish"
    /\ Publish(msg[b])
    /\ Return(b)
    /\ UNCHANGED <<ttl, dead, history, expiries, published, triggers, crashes>>

\* Mutant of is_duplicate: SET without NX.
is_duplicate_never(k) == FALSE

\* Mutant of is_duplicate: `return was_set` instead of `return not was_set`.
is_duplicate_flipped(k) == ttl[k] = 0

\* SET key NX EX window: the key is there already.
is_duplicate(k) == ttl[k] > 0

\* EX window_seconds
expiry == Window

\* notify: suppress the alert, or claim its key and go on to the channels.
Dedup(b) ==
    LET k == dedup_key(msg[b]) IN
    /\ pc[b] = "dedup"
    /\ IF is_duplicate(k) THEN Return(b) /\ UNCHANGED <<ttl, claimed>>
       ELSE /\ ttl' = [ttl EXCEPT ![k] = expiry]
            /\ claimed' = [claimed EXCEPT ![msg[b]] = 0]
            /\ Goto(b, "send") /\ UNCHANGED msg
    /\ UNCHANGED <<inbox, dead, logged, paged, sent, orphaned, expiries, published,
                   triggers, crashes>>

\* build_hermes_sender: unconfigured, or a failed POST, is logged and swallowed.
hermes_outcomes(e) == {{}, {e}}

\* Mutant of Send: the alert is built and returned, and no channel gets it.
Send_nowhere(b) ==
    /\ pc[b] = "send"
    /\ Return(b)
    /\ UNCHANGED <<inbox, ttl, dead, history, expiries, published, triggers, crashes>>

\* Beacon._dispatch: every routed channel in turn.
Send(b) ==
    LET channels == routes(severity_for(msg[b].subject)) IN
    /\ pc[b] = "send"
    /\ logged' = logged \cup (IF "log" \in channels THEN {msg[b]} ELSE {})
    /\ \E delivered \in hermes_outcomes(msg[b]) :
           paged' = paged \cup (IF "hermes" \in channels THEN delivered ELSE {})
    /\ sent' = [sent EXCEPT ![dedup_key(msg[b])] = @ + 1]
    /\ Return(b)
    /\ UNCHANGED <<inbox, ttl, dead, claimed, orphaned, expiries, published, triggers,
                   crashes>>

\* A replica dies, and its socket with it; Redis keeps the dedup keys.
Crash(b) ==
    /\ pc[b] # "down"
    /\ crashes < MaxCrashes /\ crashes' = crashes + 1
    /\ Goto(b, "down")
    /\ msg' = [msg EXCEPT ![b] = None]
    /\ inbox' = [inbox EXCEPT ![b] = <<>>]
    /\ orphaned' = orphaned \cup (IF pc[b] = "send" THEN {dedup_key(msg[b])} ELSE {})
    /\ UNCHANGED <<ttl, dead, claimed, logged, paged, sent, expiries, published,
                   triggers>>

Restart(b) ==
    /\ pc[b] = "down"
    /\ Goto(b, "idle")
    /\ UNCHANGED <<msg, inbox, ttl, dead, history, expiries, published, triggers,
                   crashes>>

\* Redis ages its keys.
Tick ==
    /\ \E k \in Key : ttl[k] > 0
    /\ ttl' = [k \in Key |-> IF ttl[k] > 0 THEN ttl[k] - 1 ELSE 0]
    /\ expiries' = [k \in Key |-> expiries[k] + IF ttl[k] = 1 THEN 1 ELSE 0]
    /\ claimed' = [e \in Event |-> IF claimed[e] < Window THEN claimed[e] + 1
                                   ELSE Window]
    /\ UNCHANGED <<replicaVars, dead, logged, paged, sent, orphaned, published,
                   triggers, crashes>>

-----------------------------------------------------------------------------
Step(b) == \/ Take(b) \/ Dispatch(b) \/ RecordDeadLetter(b) \/ PublishDeadLetter(b)
           \/ Dedup(b) \/ Send(b) \/ Restart(b)

\* Nothing more will arrive (the bound on triggers): not a deadlock.
Quiescent == /\ triggers = MaxTriggers
             /\ \A b \in Replica : pc[b] = "idle" /\ inbox[b] = <<>>
             /\ \A k \in Key : ttl[k] = 0
             /\ UNCHANGED vars

Next == \/ \E e \in Announced : Announce(e)
        \/ \E e \in Quarantined : Quarantine(e)
        \/ \E b \in Replica : Step(b) \/ Crash(b)
        \/ Tick
        \/ Quiescent

Spec == Init /\ [][Next]_vars

-----------------------------------------------------------------------------
(* Safety.                                                                 *)

\* A storm is collapsed fleet-wide: however many replicas receive an event and
\* however often it is redelivered, it is alerted once per lifetime of its key.
AlertedOncePerWindow == \A k \in Key : sent[k] <= expiries[k] + 1

Suppressed(b) == pc[b] = "dedup" /\ pc'[b] = "idle"

names(e) == {e.payload[n] : n \in Named} \ {None}

\* They share an identifier, or neither has one.
Repeats(e, f) == /\ e.subject = f.subject
                 /\ \/ names(e) \cap names(f) # {}
                    \/ names(e) = {} /\ names(f) = {}

\* classify and is_duplicate: an event is suppressed only if, less than a window ago,
\* one of the same subject was let through that has an identifier in common with it, or
\* has none like it -- never because of another failure that names something else.  It
\* may be another tenant's: AlertingTenants.cfg.
SuppressedIsRepeat ==
    [][\A b \in Replica : Suppressed(b) =>
          \E f \in Event : claimed[f] < Window /\ Repeats(msg[b], f)]_vars

\* "have I paged about this already?": when an alert is suppressed, one with its key
\* has been sent, another replica is about to send it, or one died doing so (notify).
SuppressedWasAlerted ==
    [][\A b \in Replica : Suppressed(b) =>
          LET k == dedup_key(msg[b]) IN
          \/ sent[k] > 0 \/ k \in orphaned
          \/ \E c \in Replica \ {b} : pc[c] = "send" /\ dedup_key(msg[c]) = k]_vars

-----------------------------------------------------------------------------
(* Liveness: a replica's loop keeps running, and a dead one is restarted.  *)
LiveSpec == Spec /\ \A b \in Replica : WF_vars(Step(b))

\* Every event that reaches a replica ends in an alert, its own or one with its key,
\* though replicas race for the key, suppress each other and are kept busy by dead
\* letters, unless a replica died (notify).
AnnouncedIsAlerted ==
    \A e \in Announced :
        (\E b \in Replica : \E i \in DOMAIN inbox[b] : inbox[b][i] = e) ~>
            \/ \E f \in logged : dedup_key(f) = dedup_key(e)
            \/ crashes > 0

-----------------------------------------------------------------------------
(* What the repository says and the code does not do: AlertingTenants.cfg, *)
(* AlertingLoop.cfg.                                                       *)

\* beacon.py on the identifier, "keeps repeats of the *same* failure deduped while
\* distinct failures stay separate": what is suppressed repeats what the same tenant
\* was alerted to.
DistinctFailuresStaySeparate ==
    [][\A b \in Replica : Suppressed(b) =>
          \E f \in Event : /\ claimed[f] < Window
                           /\ f.tenant = msg[b].tenant /\ Repeats(msg[b], f)]_vars

\* beacon/agent.py on the dead-letter subjects, "the write path's escalation
\* channel": a quarantined event is eventually handed to the human channel.
DeadLetterEscalates ==
    \A e \in Quarantined :
        e \in published ~>
            \E f \in logged : f = e /\ "hermes" \in routes(severity_for(f.subject))
=============================================================================
