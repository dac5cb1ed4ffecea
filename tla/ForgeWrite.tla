----------------------------- MODULE ForgeWrite -----------------------------
(***************************************************************************)
(* The gated ERP write-back: the Forge write agent (write_agent.py) driving*)
(* the coordinator's state machine (write.py), the NetSuite client         *)
(* (netsuite.py), one circuit breaker per (tenant, ERP) (breaker.py), the  *)
(* event log, the dead-letter table and the bus (base/agent.py).           *)
(*                                                                         *)
(* The agent is one process with one handler loop.  A handler is cut where *)
(* it touches something outside the process -- Postgres, Redis, the ERP -- *)
(* because between two such calls the process may die, the clock may move  *)
(* and other users may edit the ERP.  `pc` is the next such call.  A call  *)
(* that raises anything the handler does not catch ends run() and with it  *)
(* the process: that is the Crash action, and the container is restarted   *)
(* with empty dictionaries.                                                *)
(*                                                                         *)
(* Triggers come from outside: whenever the agent is idle any of them may  *)
(* be delivered, so lost, duplicated and reordered triggers are covered.   *)
(***************************************************************************)
EXTENDS CircuitBreaker

CONSTANTS WriteId,        \* ids _new_write_id can mint
          Tenant, Platform,
          Record,         \* the ERP's own external ids, in use or not
          Edited,         \* those other users of the ERP change
          Payload,        \* record bodies
          None, Empty,    \* Python's None, and the empty external id ""
          Proposals,      \* payloads of forge.write.propose
          Compensations,  \* (operation, payload) of forge.write.reverse
          MaxFaults,      \* bound: failed calls to Vault and the ERP
          MaxCrashes      \* bound: deaths of the agent process

VARIABLES
    ops,        \* ops[w]: the WriteOperation minted as w (immutable fields)
    pending,    \* _pending: the state of each write held there, or None
    completed,  \* keys of _completed
    breaker,    \* _breakers, created on first use
    pc, job,    \* where the running handler is, and what it works on
    log, bus,   \* stages of each write in event_log, and published
    dead, deadbus,  \* triggers in event_deadletter, and published
    erp,        \* body of each ERP record, None where there is none
    landed,     \* history: writes whose PUT the ERP has applied
    streak,     \* history: consecutive failed executes per (tenant, ERP)
    faults, crashes

agentVars == <<pending, completed, breaker, pc, job>>
auditVars == <<log, bus, dead, deadbus>>
erpVars == <<erp, landed, streak>>
vars == <<ops, agentVars, auditVars, erpVars, faults, crashes>>

-----------------------------------------------------------------------------
Subject == {"requested", "approved", "rejected", "completed"}
Verb == {"create", "update", "void"}
Address == ({"cavi"} \X WriteId) \cup ({"ext"} \X Record)

Target == Address \cup {None, Empty}

Proposal == [tenant : Tenant, platform : Platform, operation : Verb,
             target : Target, payload : Payload]
Operation == [tenant : Tenant, platform : Platform, operation : Verb,
              target : Target, payload : Payload,
              reverses : WriteId \cup {None}]

\* The inbound event of a handler, as the dead-letter envelope preserves it.
Trigger == [kind : {"propose", "reverse", "approve", "reject"},
            w : WriteId \cup {None}]

Steps == {"idle", "record", "publish", "check", "put", "reply",
          "quarantine", "alert"}

ASSUME NoneAssumption == /\ None \notin WriteId \cup Address \cup Payload
                         /\ None \notin Operation \cup {"requested", "approved"}
                         /\ Empty \notin Address \cup {None}
ASSUME InputAssumption == /\ Edited \subseteq Record
                          /\ Proposals \subseteq Proposal
                          /\ Compensations \subseteq [operation : Verb,
                                                      payload : Payload]
ASSUME BoundAssumption == MaxFaults \in Nat /\ MaxCrashes \in Nat

NoJob == [w |-> None, subject |-> None, cause |-> None]
Job == [w : WriteId \cup {None}, subject : Subject \cup {None},
        cause : Trigger \cup {None}]

TypeOK ==
    /\ ops \in [WriteId -> Operation \cup {None}]
    /\ pending \in [WriteId -> {"requested", "approved", None}]
    /\ completed \in SUBSET WriteId
    /\ breaker \in [Tenant \X Platform -> Breaker]
    /\ pc \in Steps
    /\ job \in Job
    /\ log \in [WriteId -> SUBSET Subject]
    /\ bus \in [WriteId -> SUBSET Subject]
    /\ dead \in SUBSET Trigger
    /\ deadbus \in SUBSET Trigger
    /\ erp \in [Address -> Payload \cup {None}]
    /\ landed \in SUBSET WriteId
    /\ streak \in [Tenant \X Platform -> 0..Threshold]
    /\ faults \in 0..MaxFaults
    /\ crashes \in 0..MaxCrashes

Init ==
    /\ ops = [w \in WriteId |-> None]
    /\ pending = [w \in WriteId |-> None]
    /\ completed = {}
    /\ breaker = [k \in Tenant \X Platform |-> NewBreaker]
    /\ pc = "idle"
    /\ job = NoJob
    /\ log = [w \in WriteId |-> {}]
    /\ bus = [w \in WriteId |-> {}]
    /\ dead = {}
    /\ deadbus = {}
    /\ erp \in [Address -> Payload \cup {None}]
    /\ \A w \in WriteId : erp[<<"cavi", w>>] = None
    /\ landed = {}
    /\ streak = [k \in Tenant \X Platform |-> 0]
    /\ faults = 0
    /\ crashes = 0

-----------------------------------------------------------------------------
(* Addressing: WriteOperation.idempotency_key and erp_address.             *)

\* "cavi-<write_id>": injective, and apart from the ERP's own external ids.
idempotency_key(w) == <<"cavi", w>>

\* target_external_id or idempotency_key: the empty target is falsy too.
erp_address(w) == IF ops[w].target \in {None, Empty} THEN idempotency_key(w)
                  ELSE ops[w].target

\* Mutant of breaker_key: one breaker per ERP, shared by all tenants.
breaker_key_shared(o) == <<CHOOSE t \in Tenant : TRUE, o.platform>>

\* _breaker_for: one breaker per (tenant, ERP).
breaker_key(o) == <<o.tenant, o.platform>>

\* Mutant of addressable: an update without a target is let through.
addressable_untargeted(o) == \/ o.operation = "create" /\ o.target = None
                             \/ o.operation = "update"

\* The checks of NetSuiteClient.apply before any network call: only create and
\* update exist, the target of an update is not None, that of a create is.  The
\* empty target is not None: an update with it goes to the write's own key.
addressable(o) == \/ o.operation = "create" /\ o.target = None
                  \/ o.operation = "update" /\ o.target # None

-----------------------------------------------------------------------------
(* How a handler ends or goes on.                                          *)

Emit(w, s, cause) == /\ pc' = "record"
                     /\ job' = [w |-> w, subject |-> s, cause |-> cause]
DeadLetter(cause) == /\ pc' = "quarantine"
                     /\ job' = [NoJob EXCEPT !.cause = cause]
Return == pc' = "idle" /\ job' = NoJob

Fault == faults < MaxFaults /\ faults' = faults + 1

-----------------------------------------------------------------------------
(* _propose and _reverse: request() fetches the record for the dry-run     *)
(* diff, the proposal is held in _pending and forge.write.requested emitted*)
(* A record the ERP does not have is a 404 and the fetch returns None: the *)
(* proposal is held all the same.                                          *)

Hold(w, o, cause) ==
    /\ ops[w] = None
    /\ ops' = [ops EXCEPT ![w] = o]
    /\ pending' = [pending EXCEPT ![w] = "requested"]
    /\ Emit(w, "requested", cause)
    /\ UNCHANGED <<completed, breaker, auditVars, erpVars, faults, crashes>>

Propose(w, p) ==
    /\ pc = "idle"
    /\ Hold(w, [tenant |-> p.tenant, platform |-> p.platform,
                operation |-> p.operation, target |-> p.target,
                payload |-> p.payload, reverses |-> None],
            [kind |-> "propose", w |-> None])

\* request_reversal: the new write takes tenant and ERP from the original and
\* links to it; the agent passes no target_external_id.
Reverse(w0, w, c) ==
    /\ pc = "idle"
    /\ w0 \in completed
    /\ Hold(w, [tenant |-> ops[w0].tenant, platform |-> ops[w0].platform,
                operation |-> c.operation, target |-> None,
                payload |-> c.payload, reverses |-> w0],
            [kind |-> "reverse", w |-> w0])

\* A reversal of a write this process does not know as completed.
ReverseUnknown(w0) ==
    /\ pc = "idle"
    /\ w0 \notin completed
    /\ DeadLetter([kind |-> "reverse", w |-> w0])
    /\ UNCHANGED <<ops, pending, completed, breaker, auditVars, erpVars,
                   faults, crashes>>

\* The fetch raises ErpWriteError: nothing is held, the trigger is quarantined.
DryRunFails(cause) ==
    /\ pc = "idle"
    /\ cause.kind = "reverse" => cause.w \in completed
    /\ Fault
    /\ DeadLetter(cause)
    /\ UNCHANGED <<ops, pending, completed, breaker, auditVars, erpVars, crashes>>

-----------------------------------------------------------------------------
(* _decide.                                                                *)

DecideUnknown(w) ==
    /\ pc = "idle"
    /\ pending[w] = None
    /\ UNCHANGED vars

\* Mutant of Approve: the write is executed without its approval being emitted.
Approve_unrecorded(w) ==
    /\ pc = "idle"
    /\ pending[w] = "requested"
    /\ pending' = [pending EXCEPT ![w] = "approved"]
    /\ pc' = "check"
    /\ job' = [w |-> w, subject |-> None, cause |-> [kind |-> "approve", w |-> w]]
    /\ UNCHANGED <<ops, completed, breaker, auditVars, erpVars, faults, crashes>>

Approve(w) ==
    /\ pc = "idle"
    /\ pending[w] = "requested"
    /\ pending' = [pending EXCEPT ![w] = "approved"]
    /\ Emit(w, "approved", [kind |-> "approve", w |-> w])
    /\ UNCHANGED <<ops, completed, breaker, auditVars, erpVars, faults, crashes>>

\* A replayed approval: the write is already APPROVED, so only execute it.
RetryApproved(w) ==
    /\ pc = "idle"
    /\ pending[w] = "approved"
    /\ pc' = "check"
    /\ job' = [w |-> w, subject |-> None, cause |-> [kind |-> "approve", w |-> w]]
    /\ UNCHANGED <<ops, pending, completed, breaker, auditVars, erpVars,
                   faults, crashes>>

Reject(w) ==
    /\ pc = "idle"
    /\ pending[w] = "requested"
    /\ pending' = [pending EXCEPT ![w] = None]
    /\ Emit(w, "rejected", [kind |-> "reject", w |-> w])
    /\ UNCHANGED <<ops, completed, breaker, auditVars, erpVars, faults, crashes>>

\* APPROVED -> REJECTED is an InvalidTransition: the decision is quarantined.
RejectApproved(w) ==
    /\ pc = "idle"
    /\ pending[w] = "approved"
    /\ DeadLetter([kind |-> "reject", w |-> w])
    /\ UNCHANGED <<ops, pending, completed, breaker, auditVars, erpVars,
                   faults, crashes>>

-----------------------------------------------------------------------------
(* BaseAgent.emit and _dead_letter: the durable record, then the bus.      *)

RecordEvent ==
    /\ pc = "record"
    /\ log' = [log EXCEPT ![job.w] = @ \cup {job.subject}]
    /\ pc' = "publish"
    /\ UNCHANGED <<ops, pending, completed, breaker, job, bus, dead, deadbus,
                   erpVars, faults, crashes>>

\* After forge.write.approved the handler goes on to _execute.
Publish ==
    /\ pc = "publish"
    /\ bus' = [bus EXCEPT ![job.w] = @ \cup {job.subject}]
    /\ IF job.subject = "approved" THEN pc' = "check" /\ UNCHANGED job ELSE Return
    /\ UNCHANGED <<ops, pending, completed, breaker, log, dead, deadbus,
                   erpVars, faults, crashes>>

RecordDeadLetter ==
    /\ pc = "quarantine"
    /\ dead' = dead \cup {job.cause}
    /\ pc' = "alert"
    /\ UNCHANGED <<ops, pending, completed, breaker, job, log, bus, deadbus,
                   erpVars, faults, crashes>>

PublishDeadLetter ==
    /\ pc = "alert"
    /\ deadbus' = deadbus \cup {job.cause}
    /\ Return
    /\ UNCHANGED <<ops, pending, completed, breaker, log, bus, dead,
                   erpVars, faults, crashes>>

-----------------------------------------------------------------------------
(* _execute: the breaker's check, then NetSuiteClient.apply.               *)

Key == breaker_key(ops[job.w])

\* The connection the ERP sees, whatever breaker the agent picks for it.
Link == <<ops[job.w].tenant, ops[job.w].platform>>

CheckBreaker ==
    /\ pc = "check"
    /\ \/ /\ admits(breaker[Key])
          /\ breaker' = [breaker EXCEPT ![Key] = check(@)]
          /\ pc' = "put"
          /\ UNCHANGED job
       \/ /\ ~admits(breaker[Key])
          /\ DeadLetter(job.cause)
          /\ UNCHANGED breaker
    /\ UNCHANGED <<ops, pending, completed, auditVars, erpVars, faults, crashes>>

\* The ErpWriteError branch: count it, escalate only when the breaker says so;
\* the write stays APPROVED in _pending.
ExecuteFailed ==
    /\ breaker' = [breaker EXCEPT ![Key] = record_failure(@)]
    /\ streak' = [streak EXCEPT ![Link] = IF @ < Threshold THEN @ + 1 ELSE @]
    /\ IF escalates(breaker[Key]) THEN DeadLetter(job.cause) ELSE Return
    /\ UNCHANGED <<ops, pending, completed, auditVars, landed, crashes>>

\* apply refuses an incoherent operation without any network call.
ApplyRefused ==
    /\ pc = "put"
    /\ ~addressable(ops[job.w])
    /\ ExecuteFailed
    /\ UNCHANGED <<erp, faults>>

\* Mutant of ApplyFails: the ErpWriteError is swallowed and the write completed.
ApplyFails_swallowed ==
    /\ pc = "put"
    /\ addressable(ops[job.w])
    /\ Fault
    /\ pending' = [pending EXCEPT ![job.w] = None]
    /\ Emit(job.w, "completed", job.cause)
    /\ UNCHANGED <<ops, completed, breaker, auditVars, erpVars, crashes>>

\* Vault refuses to sign or is down, or the PUT never takes effect.
ApplyFails ==
    /\ pc = "put"
    /\ addressable(ops[job.w])
    /\ Fault
    /\ ExecuteFailed
    /\ UNCHANGED erp

\* The ERP upserts the record at the write's address.
ApplyLands ==
    /\ pc = "put"
    /\ addressable(ops[job.w])
    /\ erp' = [erp EXCEPT ![erp_address(job.w)] = ops[job.w].payload]
    /\ landed' = landed \cup {job.w}
    /\ pc' = "reply"
    /\ UNCHANGED <<ops, pending, completed, breaker, job, auditVars, streak,
                   faults, crashes>>

\* The response to a PUT that took effect is lost or not 2xx.
ReplyLost ==
    /\ pc = "reply"
    /\ Fault
    /\ ExecuteFailed
    /\ UNCHANGED erp

ReplyOk ==
    /\ pc = "reply"
    /\ breaker' = [breaker EXCEPT ![Key] = record_success(@)]
    /\ streak' = [streak EXCEPT ![Link] = 0]
    /\ pending' = [pending EXCEPT ![job.w] = None]
    /\ completed' = completed \cup {job.w}
    /\ Emit(job.w, "completed", job.cause)
    /\ UNCHANGED <<ops, auditVars, erp, landed, faults, crashes>>

-----------------------------------------------------------------------------
(* The world around the agent.                                             *)

\* The process dies anywhere -- an uncaught exception, a kill, a redeploy --
\* and is restarted: its dictionaries and the running handler are gone.
Crash ==
    /\ crashes < MaxCrashes
    /\ crashes' = crashes + 1
    /\ pending' = [w \in WriteId |-> None]
    /\ completed' = {}
    /\ breaker' = [k \in Tenant \X Platform |-> NewBreaker]
    /\ Return
    /\ UNCHANGED <<ops, auditVars, erpVars, faults>>

\* Another user of the ERP edits or adds one of its own records.
ErpEdit(r, v) ==
    /\ erp[<<"ext", r>>] # v
    /\ erp' = [erp EXCEPT ![<<"ext", r>>] = v]
    /\ UNCHANGED <<ops, agentVars, auditVars, landed, streak, faults, crashes>>

\* time.monotonic advances for every open breaker.
Tick ==
    /\ \E k \in Tenant \X Platform : tick(breaker[k]) # breaker[k]
    /\ breaker' = [k \in Tenant \X Platform |-> tick(breaker[k])]
    /\ UNCHANGED <<ops, pending, completed, pc, job, auditVars, erpVars,
                   faults, crashes>>

-----------------------------------------------------------------------------
Handle == \* steps of a handler already running
    \/ RecordEvent \/ Publish \/ RecordDeadLetter \/ PublishDeadLetter
    \/ CheckBreaker \/ ApplyRefused \/ ApplyFails \/ ApplyLands
    \/ ReplyLost \/ ReplyOk

Deliver == \* a trigger reaches the idle agent
    \E w \in WriteId :
        \/ \E p \in Proposals : Propose(w, p)
        \/ \E w0 \in WriteId, c \in Compensations : Reverse(w0, w, c)
        \/ ReverseUnknown(w)
        \/ DryRunFails([kind |-> "propose", w |-> None])
        \/ DryRunFails([kind |-> "reverse", w |-> w])
        \/ DecideUnknown(w)
        \/ Approve(w)
        \/ RetryApproved(w)
        \/ Reject(w)
        \/ RejectApproved(w)

Next ==
    \/ Handle
    \/ Deliver
    \/ Crash
    \/ \E r \in Edited, v \in Payload : ErpEdit(r, v)
    \/ Tick

Spec == Init /\ [][Next]_vars

-----------------------------------------------------------------------------
(* Safety.                                                                 *)

\* Nothing reaches the ERP without an approval that was already durable in the
\* event log: _decide emits forge.write.approved before it calls _execute, and
\* no crash or replay lets a PUT overtake it.
ApprovalGate == \A w \in landed : "approved" \in log[w]

\* A write a human rejected is never applied and never approved, whatever
\* decisions are replayed before or after (write.py, _ALLOWED).
RejectedNeverApplied ==
    \A w \in WriteId : "rejected" \in log[w] =>
        w \notin landed /\ "approved" \notin log[w]

\* The agent implements the abstract gate: the audit trail of each write grows
\* in its order and matches what the ERP was made to do (write.py, write_agent.py).
Gate == INSTANCE WriteGate WITH audit <- log, applied <- landed
ImplementsGate == Gate!Spec

\* Consumers only ever see what the durable tables hold: emit and _dead_letter
\* record before they publish, across crashes between the two calls.
PublishedIsRecorded == /\ \A w \in WriteId : bus[w] \subseteq log[w]
                       /\ deadbus \subseteq dead

\* A half-open probe always reports back: the probing flag never outlives the
\* ERP call it was set for, or check() would refuse the tenant for ever.
ProbeNeverWedged ==
    \A k \in Tenant \X Platform :
        breaker[k].probing => pc \in {"put", "reply"} /\ Key = k

\* While a tenant's breaker is open the ERP is not called for that tenant, and
\* half-open it is called only as the probe (breaker.check before apply).
OpenBreakerShieldsErp ==
    pc \in {"put", "reply"} =>
        \/ state(breaker[Key]) = "closed"
        \/ state(breaker[Key]) = "half_open" /\ breaker[Key].probing

\* One tenant's outage never halts another: an open breaker means that very
\* connection has failed Threshold times in a row (_breaker_for).
OutageIsolated ==
    \A k \in Tenant \X Platform : breaker[k].opened => streak[k] = Threshold

\* An open breaker is never silent: when the handler that tripped it returns, a
\* decision on that connection is in the dead-letter table (_execute).
TripIsEscalated ==
    pc = "idle" => \A k \in Tenant \X Platform :
        breaker[k].opened => \E d \in dead :
            d.kind = "approve" /\ breaker_key(ops[d.w]) = k

\* A Cavi key never names a stray record: what the ERP holds under it is the body of
\* an applied write that was sent there on purpose -- the create that owns the key,
\* an update that named it -- or of the update with the empty target, the one case the
\* `is None` tests let through; an update with no target makes no record, whatever is
\* retried, replayed, reversed or edited (netsuite.py apply, write.py erp_address).
CaviRecordsAreAsked ==
    \A w \in WriteId : erp[idempotency_key(w)] # None =>
        \E v \in landed :
            /\ erp[idempotency_key(w)] = ops[v].payload
            /\ \/ ops[v].operation = "update" /\ ops[v].target = idempotency_key(w)
               \/ v = w /\ ops[v].operation = "create"
               \/ v = w /\ ops[v].operation = "update" /\ ops[v].target = Empty

-----------------------------------------------------------------------------
(* Liveness.  The handler loop keeps running and the clock keeps moving;   *)
(* the operator keeps re-driving an approval that has not completed (the   *)
(* replay _decide is written for).  Crashes and faults end: MaxCrashes is 0*)
(* and MaxFaults finite in the runs that use this specification.           *)

Fairness ==
    /\ WF_vars(Handle)
    /\ WF_vars(Tick)
    /\ \A w \in WriteId : SF_vars(RetryApproved(w))

LiveSpec == Spec /\ Fairness

\* An approved write the client can address is eventually committed once the ERP
\* recovers: the breaker's cooldown and single probe delay it, never lose it.
ApprovedEventuallyCompletes ==
    \A w \in WriteId :
        ("approved" \in log[w] /\ addressable(ops[w])) ~> "completed" \in log[w]

-----------------------------------------------------------------------------
(* What the repository says and the code does not do: ForgeWriteStuck.cfg, *)
(* ForgeWriteRetry.cfg, ForgeWriteEmpty.cfg.                               *)

\* PRD FR9, "halts and escalates to a human": when the agent is idle, an approved
\* write that has not been committed has its decision in the dead letters.
StuckIsEscalated ==
    pc = "idle" => \A w \in WriteId :
        pending[w] = "approved" => [kind |-> "approve", w |-> w] \in dead

\* netsuite.py on retries of an update: "Retries stay safe either way" -- a repeated
\* PUT never takes back what another, completed write has put into the record.
RetryIsSafe ==
    [][\A v \in WriteId \ {job.w} :
           /\ pc = "put" /\ pc' = "reply" /\ job.w \in landed
           /\ "completed" \in log[v]
           /\ erp_address(v) = erp_address(job.w)
           /\ erp[erp_address(v)] = ops[v].payload
           => erp' = erp]_vars

\* netsuite.py on addressing, "an update without a target would upsert a duplicate
\* under a fresh external id instead of modifying the intended record" and is refused:
\* no update is ever applied under the write's own fresh key.
UpdatesNeverMintRecords ==
    \A w \in landed : ops[w].operation = "update" =>
        erp_address(w) # idempotency_key(w)
=============================================================================
