-------------------------------- MODULE Desk --------------------------------
(***************************************************************************)
(* The agents that answer requests, each on the loop of base/agent.py:     *)
(* Mapper (mapper/agent.py), the ERP mapper (mapper/erp_agent.py over      *)
(* erp.py), Ledger's reads (ledger/query_agent.py over query.py), webhooks *)
(* (ticker/webhook_agent.py over webhook.py) and reports                   *)
(* (beacon/report_agent.py over report.py).                                *)
(*                                                                         *)
(* A request is a tuple that begins with its subject.  The subjects of     *)
(* schema_registry/ hold none of the five requests, so as shipped every    *)
(* one of them is in Refused; what handle does shows once they have a      *)
(* schema.                                                                 *)
(***************************************************************************)
EXTENDS RecordMapping, Mapper, BeaconPolicy, FiniteSets

CONSTANTS Request,      \* requests, and the outcome events that reports count
          Refused,      \* those without a schema, or that violate it
          Unreadable,   \* those without what handle reads: a key missing, a version that
                        \* is no number, a raw payload that is no mapping
          Unlabelled,   \* those that give an outcome its schema refuses: an empty
                        \* tenant_id, a period that is no date, an error without words
          Transforms,   \* Mapper: the edges registered for each subject
          Buggy,        \* Mapper: transforms that raise or break the target schema
          None,
          Sole,         \* more requests, sent with no other in the same behaviour
          MaxQueue, MaxSends, MaxCrashes        \* bounds

Agents == {"mapper", "erp", "query", "webhook", "report"}
subjects == [mapper |-> {"mapper.transform"}, erp |-> {"mapper.erp.transform"},
             query |-> {"ledger.query.request"}, webhook |-> {"ticker.webhook"},
             report |-> {"beacon.report.request", "outcome"}]
agent_for(q) == CHOOSE a \in Agents : q[1] \in subjects[a]

\* A value of a record begins with its type.
IsValue(v) ==
    /\ v[1] = "null" => v = Null
    /\ v[1] = "int" => v[2] \in Int
    /\ v[1] = "list" => v = List(v[2]) /\ v[2] \in Seq({v[2][i] : i \in DOMAIN v[2]})

\* A coercion names a version of a subject whose transforms are finitely many; a raw
\* webhook has none but the keys looked for, and a type is not None.
WellFormed(q) ==
    /\ \E a \in Agents : q[1] \in subjects[a]
    /\ q[1] = "mapper.transform" =>
           /\ q[3] \in Nat /\ IsFiniteSet(Transforms[q[2]])
           /\ Transforms[q[2]] \subseteq Nat \X Nat
    /\ q[1] = "mapper.erp.transform" => \A f \in DOMAIN q[4] : IsValue(q[4][f])
    /\ q[1] = "ticker.webhook" =>
           /\ DOMAIN q[2] \subseteq {"event_type", "type", "kind"}
           /\ \A k \in DOMAIN q[2] : q[2][k][1] = "type" => q[2][k][2] # None

ASSUME DeskAssumption ==
    /\ \A q \in Request \cup Sole : WellFormed(q)
    /\ \A q \in Unreadable : q[1] # "outcome"
    /\ Refused \subseteq Request /\ None \notin Request \cup Sole
    /\ MaxQueue \in Nat \ {0} /\ MaxSends \in Nat /\ MaxCrashes \in Nat

VARIABLES pc, msg, inbox,       \* each agent: next call, event, socket
          event,                \* each agent: the event it is emitting
          observed,             \* BeaconReportAgent._observed
          recorded,             \* requests whose answer is in event_log
          answers,              \* what was published in answer to each request taken
          quiet,                \* requests that handle ended without an event
          dead,                 \* requests in event_deadletter and on deadletter.*
          fatal,                \* requests whose handler raised
          tallied, reported, lost,      \* history: outcomes counted by the report agent,
                                        \* in published reports, and gone with its memory
          sends, crashes

agentVars == <<pc, msg, inbox, event>>
history == <<recorded, answers, quiet, dead, fatal, tallied, reported, lost>>
vars == <<agentVars, observed, history, sends, crashes>>

-----------------------------------------------------------------------------
(* What each handler makes of a request: the event it emits, "quiet" when  *)
(* it returns without one, "raise" when an exception leaves it.            *)

quiet_ == <<"quiet">>
raise_ == <<"raise">>

\* MapperAgent.handle; ValidationError is not caught.
handle_mapper(q) ==
    LET r == transform(Transforms[q[2]], Buggy, q[3], q[4], q[5]) IN
    IF r[1] = "no path" THEN quiet_
    ELSE IF r[1] = "invalid" THEN raise_
    ELSE <<"coerced", q[2], q[4], r[2]>>

\* ErpTransformer.transform over the registered reference mappings: whatever the mapping
\* raises becomes an ErpTransformError.
erp_transform(source, target, rec) ==
    IF source \notin DOMAIN NETSUITE_RECORD_MAPPINGS \/ target # "netsuite"
    THEN <<"unregistered">> ELSE apply(NETSUITE_RECORD_MAPPINGS[source], rec)

\* ErpMapperAgent.handle
handle_erp(q) ==
    LET r == erp_transform(q[2], q[3], q[4]) IN
    IF r[1] = "output" THEN <<"mapper.transform.completed", r[2]>>
    ELSE <<"mapper.transform.failed", r>>

\* Mutant of handle_query: only LedgerQueryError is a query failure, and an error of the
\* ERP leaves handle.
handle_query_narrow(q) ==
    IF q[2] # "mapping" \/ q[3] \in {<<"raised">>, <<"no rows">>} THEN raise_
    ELSE <<"ledger.query.completed", q[3][2]>>

\* LedgerQueryAgent.handle of filters q[2] to which the ErpReader answers q[3], <<"rows",
\* the kind of each>>, <<"no rows">> for None, or <<"raised">>.  dict(filters) fails the
\* read, and then the failure too; list(rows) is outside the try.
handle_query(q) ==
    IF q[2] # "mapping" \/ q[3] = <<"no rows">> THEN raise_
    ELSE IF q[3] = <<"raised">> THEN <<"ledger.query.failed">>
    ELSE <<"ledger.query.completed", q[3][2]>>

type_keys == <<"event_type", "type", "kind">>
DEFAULT_ROUTES == [invoice_paid |-> "ledger.query", invoice_updated |-> "mapper.transform",
                   salesorder_created |-> "forge.write.propose"]
DEFAULT_FALLBACK == "ticker.unrouted"
route_for(type) ==
    IF type \in DOMAIN DEFAULT_ROUTES THEN DEFAULT_ROUTES[type] ELSE DEFAULT_FALLBACK

\* The first key that holds a non-blank string, None for MalformedWebhook.  A raw
\* payload maps some of the keys to <<"type", name>>, or to what is not a type.
event_type_of(raw) ==
    LET held == {i \in 1..Len(type_keys) : get(raw, type_keys[i])[1] = "type"}
    IN IF held = {} THEN None
       ELSE get(raw, type_keys[CHOOSE i \in held : \A j \in held : i <= j])[2]

\* WebhookIngestor.ingest: type, payload and route, <<>> for MalformedWebhook.
ingest(raw) ==
    LET type == event_type_of(raw) IN
    IF type = None THEN <<>> ELSE <<type, raw, route_for(type)>>

\* TickerWebhookAgent.handle
handle_webhook(q) ==
    LET r == ingest(q[2]) IN
    IF r = <<>> THEN quiet_ ELSE <<"ticker.event.received">> \o r

\* summarize_kpis
count(seen, P(_)) == Cardinality({i \in DOMAIN seen : P(seen[i])})
summarize_kpis(seen) ==
    [events_total |-> Len(seen),
     distinct_subjects |-> Cardinality({seen[i] : i \in DOMAIN seen}),
     dead_letters |-> count(seen, LAMBDA s : s[1] = "deadletter"),
     by_severity |-> [v \in Severity |-> count(seen, LAMBDA s : severity_for(s) = v)]]

\* BeaconReportAgent.handle
handle_report(q) ==
    IF q[1] = "beacon.report.request"
    THEN <<"beacon.report.generated", summarize_kpis(observed)>> ELSE quiet_

handle(q) ==
    CASE q \in Unreadable -> raise_
      [] q \notin Unreadable /\ q[1] = "mapper.transform" -> handle_mapper(q)
      [] q \notin Unreadable /\ q[1] = "mapper.erp.transform" -> handle_erp(q)
      [] q \notin Unreadable /\ q[1] = "ledger.query.request" -> handle_query(q)
      [] q \notin Unreadable /\ q[1] = "ticker.webhook" -> handle_webhook(q)
      [] OTHER -> handle_report(q)

\* registry.validate in emit: the labels of the outcome, and the rows of a query, which
\* are objects.  What Mapper emits, transform has just validated.
valid(q, e) ==
    /\ q \in Unlabelled => q[1] = "mapper.transform"
    /\ q[1] = "ledger.query.request" /\ e[1] = "ledger.query.completed" =>
           \A i \in DOMAIN e[2] : e[2][i] = "object"

-----------------------------------------------------------------------------
TypeOK ==
    /\ pc \in [Agents -> {"down", "idle", "dispatch", "quarantine", "republish",
                          "record", "publish"}]
    /\ \A a \in Agents : /\ msg[a] # None <=> pc[a] \notin {"down", "idle"}
                         /\ event[a] # None <=> pc[a] \in {"record", "publish"}
                         /\ Len(inbox[a]) <= MaxQueue
                         /\ \A i \in DOMAIN inbox[a] : agent_for(inbox[a][i]) = a
    /\ recorded \subseteq DOMAIN answers /\ DOMAIN answers \subseteq Request \cup Sole
    /\ quiet \cup dead \cup fatal \subseteq DOMAIN answers
    /\ tallied \in Nat /\ reported \in Nat /\ lost \in Nat
    /\ sends \in 0..MaxSends /\ crashes \in 0..MaxCrashes

Init ==
    /\ pc = [a \in Agents |-> "idle"] /\ msg = [a \in Agents |-> None]
    /\ inbox = [a \in Agents |-> <<>>] /\ event = [a \in Agents |-> None]
    /\ observed = <<>> /\ recorded = {} /\ answers = [q \in {} |-> <<>>]
    /\ quiet = {} /\ dead = {} /\ fatal = {}
    /\ tallied = 0 /\ reported = 0 /\ lost = 0 /\ sends = 0 /\ crashes = 0

Goto(a, step) == pc' = [pc EXCEPT ![a] = step]
Return(a) == /\ Goto(a, "idle") /\ msg' = [msg EXCEPT ![a] = None]
             /\ event' = [event EXCEPT ![a] = None]

\* A request is published, once; the socket of an agent that is down takes nothing.
Send(q) ==
    /\ q \notin DOMAIN answers
    /\ \A i \in DOMAIN inbox[agent_for(q)] : inbox[agent_for(q)][i] # q
    /\ inbox' = [inbox EXCEPT ![agent_for(q)] =
                    IF pc[agent_for(q)] = "down" \/ Len(@) = MaxQueue THEN @
                    ELSE Append(@, q)]
    /\ UNCHANGED <<pc, msg, event, observed, history, crashes>>

Sends ==
    \/ /\ sends < MaxSends /\ sends' = sends + 1
       /\ \E q \in Request : Send(q)
    \/ /\ sends = 0 /\ sends' = MaxSends
       /\ \E q \in Sole : Send(q)

-----------------------------------------------------------------------------
(* An agent.                                                               *)

\* run(): the next message.
Take(a) ==
    /\ pc[a] = "idle" /\ inbox[a] # <<>>
    /\ msg' = [msg EXCEPT ![a] = Head(inbox[a])]
    /\ inbox' = [inbox EXCEPT ![a] = Tail(@)]
    /\ answers' = [q \in DOMAIN answers \cup {Head(inbox[a])} |->
                      IF q \in DOMAIN answers THEN answers[q] ELSE <<>>]
    /\ Goto(a, "dispatch")
    /\ UNCHANGED <<event, observed, recorded, quiet, dead, fatal, tallied, reported, lost,
                   sends, crashes>>

\* An agent is gone: its socket, and what the report agent has counted.
Die(a) ==
    /\ Goto(a, "down")
    /\ msg' = [msg EXCEPT ![a] = None] /\ event' = [event EXCEPT ![a] = None]
    /\ inbox' = [inbox EXCEPT ![a] = <<>>]
    /\ IF a = "report" THEN observed' = <<>> /\ lost' = lost + Len(observed)
       ELSE UNCHANGED <<observed, lost>>

\* _dispatch and handle, up to the emit.
Dispatch(a) ==
    LET q == msg[a]
        r == handle(q)
    IN
    /\ pc[a] = "dispatch"
    /\ \/ /\ q \in Refused
          /\ Goto(a, "quarantine")
          /\ UNCHANGED <<msg, inbox, event, observed, quiet, fatal, tallied, lost>>
       \/ /\ q \notin Refused /\ r = quiet_
          /\ Return(a) /\ quiet' = quiet \cup {q}
          /\ IF q[1] = "outcome"
             THEN observed' = Append(observed, q[2]) /\ tallied' = tallied + 1
             ELSE UNCHANGED <<observed, tallied>>
          /\ UNCHANGED <<inbox, fatal, lost>>
       \/ /\ q \notin Refused /\ r = raise_
          /\ Die(a) /\ fatal' = fatal \cup {q}
          /\ UNCHANGED <<quiet, tallied>>
       \/ /\ q \notin Refused /\ r \notin {quiet_, raise_}
          /\ Goto(a, "record") /\ event' = [event EXCEPT ![a] = r]
          /\ UNCHANGED <<msg, inbox, observed, quiet, fatal, tallied, lost>>
    /\ UNCHANGED <<recorded, answers, dead, reported, sends, crashes>>

\* emit: validate, whose error ends the agent, then record_event; publish is next.
Record(a) ==
    /\ pc[a] = "record"
    /\ \/ /\ valid(msg[a], event[a])
          /\ recorded' = recorded \cup {msg[a]}
          /\ Goto(a, "publish")
          /\ UNCHANGED <<msg, inbox, event, observed, fatal, lost>>
       \/ /\ ~valid(msg[a], event[a])
          /\ Die(a) /\ fatal' = fatal \cup {msg[a]}
          /\ UNCHANGED recorded
    /\ UNCHANGED <<answers, quiet, dead, tallied, reported, sends, crashes>>

\* Mutant of new_window: the tally is kept.
new_window_kept == observed

\* "New window starts fresh."
new_window == <<>>

\* The last step of handle; a report resets the tally after it.
Publish(a) ==
    /\ pc[a] = "publish"
    /\ answers' = [answers EXCEPT ![msg[a]] = Append(@, event[a])]
    /\ IF a = "report"
       THEN observed' = new_window /\ reported' = reported + event[a][2].events_total
       ELSE UNCHANGED <<observed, reported>>
    /\ Return(a)
    /\ UNCHANGED <<inbox, recorded, quiet, dead, fatal, tallied, lost, sends, crashes>>

\* _dead_letter: record_deadletter, then publish on deadletter.<subject>.
RecordDeadLetter(a) ==
    /\ pc[a] = "quarantine"
    /\ dead' = dead \cup {msg[a]}
    /\ Goto(a, "republish")
    /\ UNCHANGED <<msg, inbox, event, observed, recorded, answers, quiet, fatal, tallied,
                   reported, lost, sends, crashes>>

PublishDeadLetter(a) ==
    /\ pc[a] = "republish"
    /\ Return(a)
    /\ UNCHANGED <<inbox, observed, history, sends, crashes>>

\* Postgres or Redis raises, or the process dies.
Crash(a) ==
    /\ pc[a] # "down"
    /\ crashes < MaxCrashes /\ crashes' = crashes + 1
    /\ Die(a)
    /\ UNCHANGED <<recorded, answers, quiet, dead, fatal, tallied, reported, sends>>

Restart(a) ==
    /\ pc[a] = "down"
    /\ Goto(a, "idle")
    /\ UNCHANGED <<msg, inbox, event, observed, history, sends, crashes>>

Step(a) == \/ Take(a) \/ Dispatch(a) \/ Record(a) \/ Publish(a)
           \/ RecordDeadLetter(a) \/ PublishDeadLetter(a) \/ Restart(a)

\* Nothing more will arrive (the bound on sends): not a deadlock.
Quiescent == /\ sends = MaxSends
             /\ \A a \in Agents : pc[a] = "idle" /\ inbox[a] = <<>>
             /\ UNCHANGED vars

Next == \/ Sends
        \/ \E a \in Agents : Step(a) \/ Crash(a)
        \/ Quiescent

Spec == Init /\ [][Next]_vars

-----------------------------------------------------------------------------
Finished(q) == \A a \in Agents : msg[a] # q

\* Versions that a chain of registered transforms reaches in at most n steps.
Reach(edges, src, n) ==
    LET r[k \in Nat] == IF k = 0 THEN {src}
                        ELSE r[k - 1] \cup {e[2] : e \in {e \in edges : e[1] \in r[k - 1]}}
    IN r[n]

\* The requests the code documents as dropped with a warning: no chain of transforms, or a
\* webhook that names no type under any key.
MayBeDropped(q) ==
    \/ q[1] = "outcome"
    \/ /\ q[1] = "mapper.transform"
       /\ q[4] \notin Reach(Transforms[q[2]], q[3], Cardinality(Transforms[q[2]]))
    \/ /\ q[1] = "ticker.webhook"
       /\ \A k \in DOMAIN q[2] : q[2][k][1] # "type"

\* A chain of registered transforms leads from version src to version v.
Leads(edges, src, v) ==
    \A S \in SUBSET ({src} \cup {e[2] : e \in edges}) :
        src \in S /\ (\A e \in edges : e[1] \in S => e[2] \in S) => v \in S

\* The requests that may end an agent: one that handle cannot read or whose outcome has
\* labels no schema lets through; a payload that is not of the version it claims, or
\* that a broken transform on a way to the target takes; a query whose filters are no
\* mapping, or whose answer is no list of objects.
MayKill(q) ==
    \/ q \in Unreadable
    \/ q \in Unlabelled /\ q[1] # "mapper.transform"
    \/ /\ q[1] = "mapper.transform"
       /\ \/ q[5] # q[3]
          \/ \E e \in Buggy \cap Transforms[q[2]] :
                 e[1] # q[4] /\ Leads(Transforms[q[2]], q[3], e[1])
    \/ /\ q[1] = "ledger.query.request"
       /\ \/ q[2] # "mapping" \/ q[3] = <<"no rows">>
          \/ q[3] # <<"raised">> /\ \E i \in DOMAIN q[3][2] : q[3][2][i] # "object"

\* "emits exactly one canonical outcome": a request that an agent has taken ends, unless
\* somebody crashed, in one published event that is in event_log, or in a dead letter, or
\* in silence where the code says so, or with the agent itself, but of no other request
\* than those above: not of a record the ERP mapper cannot map, an error of the ERP, or
\* a webhook of unknown type (handle of the five agents, emit).
ExactlyOneOutcome ==
    \A q \in {q \in DOMAIN answers : Finished(q)} :
        \/ Len(answers[q]) = 1 /\ q \in recorded /\ q \notin quiet \cup dead \cup fatal
        \/ Len(answers[q]) = 0 /\ \/ q \in dead \cap Refused
                                  \/ q \in quiet /\ MayBeDropped(q)
                                  \/ q \in fatal /\ MayKill(q)
                                  \/ crashes > 0

\* "A read failure is emitted (never crashes the agent)": LedgerQueryAgent outlives a
\* query whose read raises, in the ErpReader or over filters that are no mapping.
ReadFailureIsEmitted ==
    \A q \in fatal : ~ /\ q[1] = "ledger.query.request" /\ q \notin Unreadable \cup Unlabelled
                       /\ q[2] # "mapping" \/ q[3] = <<"raised">>

-----------------------------------------------------------------------------
(* What the ERP mapper publishes.                                          *)

Present(f, k, empties) == k \in DOMAIN f /\ f[k] \notin empties

\* v, of field f, as NetSuite gets it: money as the decimal of a hundredth.
Same(m, f, v, got) ==
    IF f \notin m.money THEN got = v
    ELSE /\ v[1] = "int" /\ got[1] = "decimal" /\ got[4] \in 0..99
         /\ v[2] = (IF got[2] = "-" THEN -1 ELSE 1) * (100 * got[3] + got[4])

\* A line may hold an empty list where a field is required; the record may not.
LinesHold(lm, v) ==
    /\ v[1] = "list" /\ v[2] # <<>>
    /\ \A i \in DOMAIN v[2] :
           /\ v[2][i][1] = "object"
           /\ \A f \in lm.required : Present(v[2][i][2], f, {Null, Blank})
           /\ DOMAIN v[2][i][2] \subseteq DOMAIN lm.fields

\* The record is whole: everything required is there, everything else is known, and
\* money is in integer minor units.
Whole(m, rec) ==
    /\ \A f \in m.required : Present(rec, f, {Null, Blank, List(<<>>)})
    /\ DOMAIN rec \subseteq DOMAIN m.fields \cup m.unmapped \cup DOMAIN m.lines
    /\ \A f \in m.money \cap DOMAIN rec : rec[f][1] \in {"null", "int"}
    /\ \A f \in DOMAIN m.lines \cap DOMAIN rec : LinesHold(m.lines[f], rec[f])

\* Each field that says something arrives under a name of its own, in every line too.
Arrives(fields, m, rec, out) ==
    LET said == {f \in DOMAIN rec : f \in DOMAIN fields /\ rec[f] # Null}
    IN /\ \A f \in said : fields[f] \in DOMAIN out /\ Same(m, f, rec[f], out[fields[f]])
       /\ \A f, g \in said : fields[f] = fields[g] => f = g

\* "No silent drops", "never a partial ERP record": the ERP mapper completes a record
\* exactly if it is whole and its mapping is registered, and then every field of the
\* record that carries a value is in the output, those of each line in that line
\* (RecordMapping.apply, LineMapping.apply).
CompleteOrBlocked ==
    \A q \in {q \in DOMAIN answers : q[1] = "mapper.erp.transform" /\ answers[q] # <<>>} :
        LET completed == answers[q][1][1] = "mapper.transform.completed"
            m == NETSUITE_RECORD_MAPPINGS[q[2]]
            rec == q[4]
            out == answers[q][1][2]
        IN /\ completed <=> /\ q[2] \in DOMAIN NETSUITE_RECORD_MAPPINGS
                            /\ q[3] = "netsuite" /\ Whole(m, rec)
           /\ completed =>
                /\ Arrives(m.fields, m, rec, out)
                /\ \A f \in DOMAIN m.lines \cap DOMAIN rec :
                       LET lines == out[m.lines[f].target][2] IN
                       /\ Len(lines) = Len(rec[f][2])
                       /\ \A i \in DOMAIN lines :
                              Arrives(m.lines[f].fields, m, rec[f][2][i][2], lines[i])

\* The payload Mapper re-emits went through registered transforms from one version to
\* the other, and no chain of them is shorter (_find_path).
ShortestChain ==
    \A q \in {q \in DOMAIN answers : q[1] = "mapper.transform" /\ answers[q] # <<>>} :
        LET path == answers[q][1][4]
            edges == Transforms[q[2]]
        IN /\ path[1] = q[3] /\ path[Len(path)] = q[4]
           /\ \A i \in 1..(Len(path) - 1) : <<path[i], path[i + 1]>> \in edges
           /\ Len(path) > 1 => q[4] \notin Reach(edges, q[3], Len(path) - 2)

\* Each outcome the report agent has counted is in exactly one published report, still in
\* the tally, or lost with the agent's memory, and a report's severities add up
\* (_emit_report, summarize_kpis).
TallyIsAccounted ==
    /\ tallied = reported + Len(observed) + lost
    /\ \A q \in {q \in DOMAIN answers : q[1] = "beacon.report.request" /\ answers[q] # <<>>} :
           LET k == answers[q][1][2]
           IN k.events_total = k.by_severity["info"] + k.by_severity["warning"]
                               + k.by_severity["error"] + k.by_severity["critical"]
=============================================================================
