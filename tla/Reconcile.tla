----------------------------- MODULE Reconcile ------------------------------
(***************************************************************************)
(* Ledger's reconciliation (ledger/reconcile.py, ledger/reconcile_agent.py)*)
(* while Forge writes to the ERP and its users edit the same records.      *)
(*                                                                         *)
(* A record is a function from the fields it holds to their values.  Forge *)
(* lands a write in the ERP and only then records it, so the two sides may *)
(* differ for a while with nothing wrong.  The agent reads what Cavi       *)
(* expects, then what the ERP holds, and compares; the list of             *)
(* discrepancies, sorted in the code, is a set here.                       *)
(***************************************************************************)
EXTENDS Naturals, Sequences, FiniteSets

CONSTANTS Id, Field, Value,
          Write,        \* approved writes: [id, fields], the fields Cavi manages
          Due,          \* ticker.reconciliation.due events, of one tenant and scope
          Malformed,    \* those the schema refuses
          None,
          MaxWrites, MaxEdits, MaxCrashes       \* bounds

Records == UNION {[S -> Value] : S \in SUBSET Field}
Mappings == [Id -> Records \cup {None}]         \* None: no such key

ASSUME ReconcileAssumption ==
    /\ Write \subseteq [id : Id, fields : Records \ {<<>>}]
    /\ Malformed \subseteq Due
    /\ None \notin Records \cup Value \cup Write \cup Due
    /\ MaxWrites \in Nat /\ MaxEdits \in Nat /\ MaxCrashes \in Nat

VARIABLES erp,          \* what the ERP holds
          log,          \* forge.write.completed, projected: what Cavi expects
          landed,       \* Forge: the write that is in the ERP and not recorded
          pc, due,      \* the agent: where it is, the event it handles
          held,         \* the snapshots it has read, by side
          result,       \* the run's figures
          outbox,       \* subjects still to be emitted for this result
          taken,        \* due events that reached the agent
          recorded,     \* event_log: <<subject, due, drift_count>>
          published,    \* the bus: <<subject, due, drift_count>>
          dead,         \* due events dead-lettered
          deleted,      \* history: ids somebody deleted in the ERP
          touched,      \* history: ids that changed since the pass began
          writes, edits, crashes

world == <<erp, log, landed, deleted, touched, writes, edits>>
agent == <<pc, due, held, result, outbox, taken, recorded, published, dead>>
vars == <<world, agent, crashes>>

-----------------------------------------------------------------------------
(* compare and the figures of a run.                                       *)

Keys(m) == {i \in Id : m[i] # None}
get(record, f) == IF f \in DOMAIN record THEN record[f] ELSE None

\* Mutant of mismatches: only the fields that both sides hold.
mismatches_shared(record, current) ==
    {f \in DOMAIN record \cap DOMAIN current : record[f] # current[f]}

\* Only managed fields are compared.
mismatches(record, current) == {f \in DOMAIN record : record[f] # get(current, f)}

discrepancy(i, kind, fields) == [external_id |-> i, kind |-> kind, fields |-> fields]

compare(exp, act) ==
    {discrepancy(i, "missing_in_erp", {}) : i \in Keys(exp) \ Keys(act)}
    \cup {discrepancy(i, "field_mismatch", mismatches(exp[i], act[i])) :
              i \in {i \in Keys(exp) \cap Keys(act) : mismatches(exp[i], act[i]) # {}}}
    \cup {discrepancy(i, "unexpected_in_erp", {}) : i \in Keys(act) \ Keys(exp)}

\* Reconciler.run and completed_payload.
run(exp, act) ==
    LET found == compare(exp, act)
        checked == Cardinality(Keys(exp) \cup Keys(act))
    IN [discrepancies |-> found, checked |-> checked,
        matched |-> checked - Cardinality(found), drift_count |-> Cardinality(found)]

-----------------------------------------------------------------------------
Completed == "ledger.reconciliation.completed"
Drift == "ledger.drift.detected"

Sides == {"expected", "actual"}
Nothing == [side \in Sides |-> None]

TypeOK ==
    /\ erp \in Mappings /\ log \in Mappings /\ landed \in Write \cup {None}
    /\ pc \in {"idle", "first", "second", "record", "publish", "down"}
    /\ due \in Due \cup {None} /\ (due # None) = (pc \notin {"idle", "down"})
    /\ pc \in {"record", "publish"} => held \in [Sides -> Mappings] /\ outbox # <<>>
    /\ outbox \in {<<>>, <<Completed>>, <<Drift>>, <<Completed, Drift>>}
    /\ taken \subseteq Due /\ dead \subseteq taken
    /\ published \subseteq recorded /\ recorded \subseteq {Completed, Drift} \X (taken \ dead) \X Nat
    /\ writes \in 0..MaxWrites /\ edits \in 0..MaxEdits /\ crashes \in 0..MaxCrashes

Init ==
    /\ erp = [i \in Id |-> None] /\ log = [i \in Id |-> None] /\ landed = None
    /\ pc = "idle" /\ due = None /\ held = Nothing /\ result = None /\ outbox = <<>>
    /\ taken = {} /\ recorded = {} /\ published = {} /\ dead = {}
    /\ deleted = {} /\ touched = {} /\ writes = 0 /\ edits = 0 /\ crashes = 0

-----------------------------------------------------------------------------
(* Forge and the ERP's users.                                              *)

Merge(fields, record) ==
    IF record = None THEN fields
    ELSE [f \in DOMAIN fields \cup DOMAIN record |->
             IF f \in DOMAIN fields THEN fields[f] ELSE record[f]]

\* Nobody asks what was touched outside a pass.
Touch(i) == touched' = IF pc \in {"idle", "down"} THEN {} ELSE touched \cup {i}

\* Forge: the upsert is applied.
Land(w) ==
    /\ landed = None
    /\ writes < MaxWrites /\ writes' = writes + 1
    /\ erp' = [erp EXCEPT ![w.id] = Merge(w.fields, @)]
    /\ landed' = w /\ Touch(w.id)
    /\ UNCHANGED <<log, deleted, edits, agent, crashes>>

\* Forge: forge.write.completed is recorded in event_log.
RecordWrite ==
    /\ landed # None
    /\ log' = [log EXCEPT ![landed.id] = Merge(landed.fields, @)]
    /\ landed' = None /\ Touch(landed.id)
    /\ UNCHANGED <<erp, deleted, writes, edits, agent, crashes>>

\* Forge dies between the two: the write is in the ERP, and nobody recorded it.
LoseWrite ==
    /\ landed # None
    /\ landed' = None
    /\ UNCHANGED <<erp, log, deleted, touched, writes, edits, agent, crashes>>

\* A user of the ERP edits one field, or clears it, or creates a record.
Edit(i) ==
    /\ edits < MaxEdits /\ edits' = edits + 1
    /\ \/ \E f \in Field, v \in Value : erp' = [erp EXCEPT ![i] = Merge([g \in {f} |-> v], @)]
       \/ \E f \in Field :
              /\ erp[i] # None /\ f \in DOMAIN erp[i]
              /\ erp' = [erp EXCEPT ![i] = [g \in DOMAIN erp[i] \ {f} |-> erp[i][g]]]
    /\ erp' # erp /\ Touch(i)
    /\ UNCHANGED <<log, landed, deleted, writes, agent, crashes>>

Delete(i) ==
    /\ erp[i] # None
    /\ edits < MaxEdits /\ edits' = edits + 1
    /\ erp' = [erp EXCEPT ![i] = None]
    /\ deleted' = deleted \cup {i} /\ Touch(i)
    /\ UNCHANGED <<log, landed, writes, agent, crashes>>

-----------------------------------------------------------------------------
(* LedgerReconcileAgent.                                                   *)

\* The handler has returned.
Return == /\ pc' = "idle" /\ due' = None
          /\ held' = Nothing /\ result' = None /\ outbox' = <<>> /\ touched' = {}

\* run() and _dispatch: a due event, or its dead letter when the schema refuses it.
Take(d) ==
    /\ pc = "idle" /\ d \notin taken
    /\ taken' = taken \cup {d}
    /\ IF d \in Malformed THEN dead' = dead \cup {d} /\ UNCHANGED <<pc, due>>
       ELSE pc' = "first" /\ due' = d /\ UNCHANGED dead
    /\ UNCHANGED <<world, held, result, outbox, recorded, published, crashes>>

\* Mutant of sources: the ERP is asked first.
sources_swapped == <<"actual", "expected">>

\* The order of the two reads in handle.
sources == <<"expected", "actual">>

records(side) == IF side = "expected" THEN log ELSE erp

ReadFirst ==
    /\ pc = "first"
    /\ held' = [held EXCEPT ![sources[1]] = records(sources[1])]
    /\ pc' = "second"
    /\ UNCHANGED <<world, due, result, outbox, taken, recorded, published, dead, crashes>>

\* The second read, the run, and the events its result calls for.
ReadSecond ==
    /\ pc = "second"
    /\ held' = [held EXCEPT ![sources[2]] = records(sources[2])]
    /\ result' = run(held'.expected, held'.actual)
    /\ outbox' = IF result'.discrepancies = {} THEN <<Completed>> ELSE <<Completed, Drift>>
    /\ pc' = "record"
    /\ UNCHANGED <<world, due, taken, recorded, published, dead, crashes>>

\* Mutant of Unavailable: logged, and nothing more.
Unavailable_swallowed ==
    /\ pc \in {"first", "second"}
    /\ Return
    /\ UNCHANGED <<erp, log, landed, deleted, writes, edits, taken, recorded, published,
                   dead, crashes>>

\* SourceUnavailable from either source: the due event is dead-lettered.
Unavailable ==
    /\ pc \in {"first", "second"}
    /\ dead' = dead \cup {due}
    /\ Return
    /\ UNCHANGED <<erp, log, landed, deleted, writes, edits, taken, recorded, published,
                   crashes>>

\* BaseAgent.emit of the next event: recorded, then published.
Record ==
    /\ pc = "record"
    /\ recorded' = recorded \cup {<<Head(outbox), due, result.drift_count>>}
    /\ pc' = "publish"
    /\ UNCHANGED <<world, due, held, result, outbox, taken, published, dead, crashes>>

Publish ==
    /\ pc = "publish"
    /\ published' = published \cup {<<Head(outbox), due, result.drift_count>>}
    /\ IF Len(outbox) = 1 THEN Return
       ELSE /\ outbox' = Tail(outbox) /\ pc' = "record"
            /\ UNCHANGED <<due, held, result, touched>>
    /\ UNCHANGED <<erp, log, landed, deleted, writes, edits, taken, recorded, dead, crashes>>

\* Any other exception of a source, of event_log or of the bus, or the process dies.
Crash ==
    /\ pc # "down"
    /\ crashes < MaxCrashes /\ crashes' = crashes + 1
    /\ pc' = "down" /\ due' = None
    /\ held' = Nothing /\ result' = None /\ outbox' = <<>> /\ touched' = {}
    /\ UNCHANGED <<erp, log, landed, deleted, writes, edits, taken, recorded, published,
                   dead>>

Restart ==
    /\ pc = "down"
    /\ pc' = "idle"
    /\ UNCHANGED <<world, due, held, result, outbox, taken, recorded, published, dead,
                   crashes>>

Agent == ReadFirst \/ ReadSecond \/ Unavailable \/ Record \/ Publish \/ Restart

\* No due event is left, and the bounds are reached: not a deadlock.
Quiescent == /\ taken = Due /\ pc = "idle" /\ landed = None
             /\ writes = MaxWrites /\ edits = MaxEdits
             /\ UNCHANGED vars

Next == \/ \E w \in Write : Land(w)
        \/ \E i \in Id : Edit(i) \/ Delete(i)
        \/ \E d \in Due : Take(d)
        \/ RecordWrite \/ LoseWrite \/ Agent \/ Crash \/ Quiescent

Spec == Init /\ [][Next]_vars

\* The agent's loop runs on while its process lives, and is started again.
LiveSpec == Spec /\ WF_vars(Agent)

-----------------------------------------------------------------------------
\* A record reported missing_in_erp is one somebody deleted there: no write of Forge,
\* at whatever point the two reads meet it, is ever taken for a lost record (handle
\* reads the log before the ERP).
MissingIsReal ==
    result # None =>
        \A d \in result.discrepancies : d.kind = "missing_in_erp" => d.external_id \in deleted

\* The ERP holds what Cavi wrote, whatever else it holds.
Agrees(i) ==
    IF log[i] = None THEN erp[i] = None
    ELSE erp[i] # None /\ \A f \in DOMAIN log[i] : f \in DOMAIN erp[i] /\ erp[i][f] = log[i][f]

\* Drift that stands is found, and nothing else is reported: a record that nobody touched
\* since the pass began is reported exactly if the two sides disagree on a field Cavi
\* manages; if nothing at all moved, `matched` is the number of records in agreement.
StandingDriftIsReported ==
    result # None =>
        /\ \A i \in Id \ touched :
               (\E d \in result.discrepancies : d.external_id = i) <=> ~Agrees(i)
        /\ touched = {} =>
               result.matched = Cardinality({i \in Keys(log) : Agrees(i)})

Answered(d) ==
    \E n \in 0..Cardinality(Id) : /\ <<Completed, d, n>> \in published
                                  /\ n > 0 => <<Drift, d, n>> \in published

\* "silence is itself a signal": each due event that reaches the agent ends in a
\* completed event, with the drift event if it counts any drift, or in a dead letter and
\* no completed event, unless the agent died (handle).
DueIsAnswered ==
    \A d \in Due :
        d \in taken ~> \/ d \in dead /\ \A m \in published : m[2] # d
                       \/ d \notin dead /\ Answered(d)
                       \/ crashes > 0
=============================================================================
