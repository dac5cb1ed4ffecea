# Cavi-ERP: a TLA+ verification project

Cavi-ERP is a set of small Python agents around a Redis bus and a Postgres
database. Agents turn business facts into journal entries, propose changes to a
customer's ERP that a human must approve, hold the ERP credentials, and tell
people when something goes wrong. This directory holds TLA+ specifications of
the parts that carry its correctness, the TLC configurations that check them on
small instances, and TLAPS proofs of the most important ones.

## 1. Inventory

| Component | State | Operations | What is hard | What makes it correct |
|---|---|---|---|---|
| Forge write-back (`agents/forge/write.py`, `write_agent.py`) | `_pending`, `_completed`, one breaker per (tenant, ERP) | propose, reverse, approve, reject, execute, execute_batch | decisions replayed in any order, crash between log, bus and ERP, lost replies | nothing reaches the ERP without a durable approval; a rejection is final; approved writes complete |
| Circuit breaker (`breaker.py`) | failure count, opening time, probing flag | check, record_success, record_failure | cooldown racing calls, a probe that never reports | open means not called; one probe; never wedged |
| NetSuite client (`netsuite.py`) | none | apply, fetch, sign through Vault | PUT applied and reply lost; targets absent, empty or missing | retries converge on one record; no record nobody asked for |
| Agent base (`agents/base`) | subscriptions, schema registry | emit, run, _dispatch, _dead_letter | crash between record and publish; pub/sub loses | recorded before published; malformed events quarantined |
| Event log (`shared/events.py`, `audit.py`) | `event_log`, hash chain, advisory lock | record_event, verify_chain, export | concurrent transactions, rollback, duplicates | one unforked chain, each event once |
| Forge and Ledger (`forge.py`, `ledger.py`, their agents) | `journal_entry`, `journal_line` | complete a work order, post an entry | two workers and one entry, ids two tenants share, crash in a posting, an event its own schema refuses, rounding | balanced whole entries, posted once, announced; nothing discarded but replays |
| Beacon (`agents/beacon`) | dedup keys in Redis | classify, dedup, dispatch | replicas racing, keys that expire, crash after the claim, its own dead letters | one alert per failure and window; nothing quarantined vanishes |
| Vault (`agents/vault`) | credential store, vended tokens | store, vend, sign, rotate, revoke | tokens in flight or in the making when a credential changes; read-modify-write | revocation bites within the token's life; the last change stands |
| Reconciliation (`ledger/reconcile.py`, `reconcile_agent.py`) | none; snapshots in a pass | on a due event: read what Cavi expects, read the ERP, compare, report | writes and edits between the two reads; one of two emits missing | no write taken for a lost record; drift that stands is reported; silence never |
| Ticker (`ticker/ticker.py`) | rates cached in Redis for a TTL | price request, conversion | slow provider calls, replicas overwriting each other, decimals that round twice | a bounded age, an honest `as_of`, a bounded rounding error |
| Request agents: Mapper, ERP mapper, Query, webhooks, reports | Beacon's tally; otherwise none | one request, one outcome | many shapes of input, an exception at any call, an outcome its own schema refuses, unregistered subjects | exactly one outcome, and a known list of requests that may kill; whole ERP records or none; shortest coercion; each event in one report |
| Migrations and bootstrap (`scripts/migrate.py`, `bootstrap.py`) | `schema_migrations`, the schema, `schema_registry` | apply pending, roll back the last, load contracts | two runners, checkouts of different age, death half-way | tracking equals schema; applied once; exit 0 means ready |

The agents interact only through the bus (Redis pub/sub), the event and
dead-letter tables and the journal tables; the NetSuite client calls Vault and
the ERP over HTTP. The hazards this gives rise to are listed, each at its line,
in `PROJECT.json` with the properties that cover them.

## 2. Modules

| Module | What it is |
|---|---|
| `CircuitBreaker` | the breaker as operators on a value |
| `ForgeWrite` | the write agent, coordinator, client, breakers, log, dead letters, ERP |
| `WriteGate` | abstract: an approval gate over an audit trail |
| `WriteBatch` | `execute_batch` called repeatedly against an ERP that loses replies |
| `EventChain` | concurrent `record_event` transactions and `verify_chain` |
| `AuditLog` | abstract: an append-only log without duplicates |
| `SalePosting` | Forge agent, Redis, Ledger agents, journal tables |
| `Journal` | abstract: a set of balanced entries that only grows |
| `Alerting` | Beacon replicas, Redis dedup keys, dead-letter subjects |
| `Vault` | callers with tokens, operators changing the store |
| `Reconcile` | the reconciliation agent between Forge's writes and the ERP's users |
| `Ticker` | replicas of the rate lookup on a shared cache |
| `Migrate` | runners of the migration job on one database |
| `RecordMapping`, `Mapper` | pure: the NetSuite mapping tables and `apply`; `_find_path` and `transform` |
| `BeaconPolicy` | pure: `severity_for`, shared by `Alerting` and `Desk` |
| `Desk` | the five request agents on one bus, over the three pure modules |
| `ReconcileProofs`, `VaultProofs`, `SalePostingProofs`, `AlertingProofs`, `TickerProofs` | theorems about the module each is named after |
| `ForgeWriteProofs` | theorems about `ForgeWrite` and `WriteBatch`, the two halves of the write coordinator |
| `PostgresProofs` | theorems about `EventChain` and `Migrate`, what Postgres holds and how it got there |
| `DeskProofs` | theorems about `Desk`, `Mapper` and `RecordMapping` |
| `MC*` | small instances for TLC |

### How state and actions correspond to the code

**ForgeWrite.** `pending`, `completed` and `breaker` are the agent's
dictionaries, lost in `Crash`. `ops[w]` is the frozen `WriteOperation`; ids are
never reused. A handler is cut at each call that leaves the process, and `pc`
names the next one: `record`/`publish` (`emit`), `check` then `put` then `reply`
(`_execute` and `NetSuiteClient.apply`), `quarantine`/`alert` (`_dead_letter`).
Every branch of `_propose`, `_reverse`, `_decide` and `_execute` is an action or
a disjunct. Triggers are delivered at any time the agent is idle, in any order
and any number of times. The ERP is a function from addresses to record bodies.
A target is an address, None or the empty string, which `erp_address` takes for
missing (`or`) and `apply` for present (`is None`); an update may name a record
that is not there, since the dry run of a 404 is an empty current state, and then
makes it.

**WriteBatch.** One call of `execute_batch` is a guard over the whole batch,
then per write a PUT and its confirmation. `Halt` is an `ErpWriteError` at either,
`Raise` any other exception of the writer, which leaves the call with the local
list of completed steps. The caller has the completed operations (`held`) when
the call returns, not before.

**EventChain.** Each SQL statement of `record_event` is an action, the row joins
the table on commit, an abort at any point releases the lock. A hash is the
sequence of events it covers, so hash equality is content equality.

**SalePosting.** The Forge agent's two `emit` calls are four steps. A Ledger
agent takes a message, validates, checks the balance, inserts the head (waiting
for another transaction with the same key), commits with the lines, records and
publishes `ledger.posted`. Redis delivers to the agents that are up. Amounts are
integers in minor units and tax is `div 10000` as in the code. Each `emit`
validates first: an order of price zero fails `forge.completed`, one whose memo
is over 280 characters fails `ledger.entry` with `forge.completed` already out, and
either ends the agent. An id is a sequence of tokens and colons, so that
`ledger_entry_id` joins as the code does.

**Alerting.** A message is the original event: the dead-letter envelope keeps
subject and payload, which is where `DeadLetterEscalates` fails. `ident` is the
first of the four fields of the payload, as in `classify`; the tenant is in the
envelope and takes no part. Dedup keys live in Redis and survive the replica.

**Vault.** A credential is its consumer pair and its token pair. `rotate_token`
is two steps because it makes two calls of the store, `vend_token` because it
reads the store and then the clock (`VendRead`, `VendStamp`), with up to `MaxLag`
ticks in between. A caller is a request thread of the service, the bus agent, or
library code that keeps its token and may choose its ttl, or judge expiry by a
clock of its own.

**Reconcile.** The two reads of `handle` and the two calls of each `emit` are
steps. Forge's side is `Land` (the PUT) and `RecordWrite` (the
`forge.write.completed` that Cavi's expectation is projected from), with
`LoseWrite` for a death in between; `Edit` and `Delete` are the ERP's users. The
two state sources are Protocols in the code, so their content is external; a
write is taken to merge its fields into the record.

**Ticker.** `get_rate` is `CacheGet`, `Fetch`, `Stamp`, `CacheSet`; `Emit` is the
rest of the handler, conversion and schema check included: what `Raises` ends the
replica. `decimal` is the result of a Decimal operation, which keeps `log10(Limit)`
digits and rounds to even what is longer; `convert_minor` then rounds that to a
minor unit, and `1 / inverse` is a Decimal too. `quoted` remembers what the source quoted when. The code
gives its calls no deadline: `Latency` is how long the environment lets a lookup
take, and the guarantee is stated in terms of it.

**Migrate.** A job reads the applied versions once, then takes each migration of
its checkout through a transaction of its own, then loads the contracts. DDL
locks make a second transaction on the same migration wait; the primary key of
`schema_migrations` makes it fail. `--rollback` reads the highest version in one
transaction and reverts it in another.

**Desk.** Each agent is `Take`, `Dispatch` (validation and the handler up to its
emit), `Record` (which validates, records, or ends the agent), `Publish`, or
`RecordDeadLetter`, `PublishDeadLetter`. What a handler makes of a request is a
pure operator (`handle_mapper`, `handle_erp`, `handle_query`, ...), as in the code;
`Unreadable` are requests without the fields it reads and `Unlabelled` those whose
labels the outcome's schema refuses. A value of a record is a tagged tuple, a payload in
`Mapper` is the version whose schema it satisfies.

### Abstractions worth knowing

* The record type (`target_module`) is folded into the record's address.
* Payload texts, diffs, signatures and log lines are left out.
* In ForgeWrite and Ticker the schemas of the trigger subjects are taken to be
  registered; SalePosting (`Registered`) and Desk (`Refused`) model registration.
* A rate is an integer in units of 1/Scale. The precision of the Decimal context is
  a parameter: 28 digits in the code, three in the runs, any number in the proofs.
* In Alerting a replica whose socket buffer is full (`MaxQueue`) misses a
  message, as with Redis' output buffer limit; this also bounds the state.
* Digest collisions (SHA-256, UUIDv5) do not happen.
* `streak`, `landed`, `touched`, `suspect`, `claimed`, `orphaned`, `sent`, `word`,
  `overtaken`, `gone`, `quoted`, `deleted`, `undone`, `ups`, `downs`, `lost` and the
  like are history: no guard reads them.

## 3. Runs that pass

| Run | Shows | Instance |
|---|---|---|
| `forge_write` | approval gate, finality of rejection (in `ImplementsGate`), soundness of the breaker, tenant isolation, escalation of a trip, no record under a Cavi key that no write asked for | 2 writes, 2 tenants, threshold 2, 2 faults, 1 crash, targets present, absent, missing and empty; 8.5M states |
| `forge_write_live` | an approved, addressable write completes once faults end | 3 faults with threshold 2, so the breaker trips and its probe can fail too |
| `event_chain` | the chain never forks, changes are reported, refinement of an append-only log without duplicates, `record_event` terminates though lock holders die | 3 writers, 5 calls, a row from before the chain, repeated events |
| `write_batch` | the batch report is sound over repeated calls, and only an exception hides a change | 3 writes in every initial state, 3 calls; 41k states |
| `sale_posting` | single posting, announcements backed by the books, refinement of a journal of whole balanced entries; an entry is discarded for another tenant's only where a tenant has a colon in its name or a foreign producer uses the id; every sale whose events meet their schemas ends in `ledger.posted` unless a process died or its id was taken | 2 Ledger agents, 2 messages out of 12 kinds, every clash of ids among them, 2 crashes; 92k states |
| `alerting` | one alert per key and window; suppressed is a repeat, and was alerted; every announced event ends in an alert unless a replica died | 2 replicas, 2 triggers, 1 crash, window 2, two tenants with one work order id, two without an identifier, a malformed dead letter circling; 129k states |
| `vault` | tokens stop signing within their ttl, and the lag of their making, after a revocation; the store follows the last change | 2 callers, 2 operators, 3 changes, TTL 2 or the caller's 1, lag 1; 2.3M states |
| `migrate` | a version is recorded exactly if it is in the schema; a job that exits 0 has left every migration and contract of its checkout; between two rollbacks a version is applied once; contenders do not all lose | 3 runners from two releases, the repository's versions 1 to 4 of which two can be reverted, 4 runs, 1 death, a fresh database or one from initdb; 478k states |
| `ticker` | a quote is no older than TTL + 2 lookups, `as_of` no later than one lookup, a conversion off by no more than its two roundings allow | 2 replicas, TTL 2, latency 1, 1 crash; three digits, products below and above them, a half, an inverse and an unknown pair, a negative amount, one too long for `quantize`, a rate with an exponent; 4.0M states |
| `reconcile` | a reported missing record was deleted by somebody; an untouched record is reported exactly if it disagrees; every due event is answered unless the agent died | 2 records of 2 fields, 2 writes, 2 edits, 1 crash, a malformed due event; 820k states |
| `desk` | one outcome per request, and death only of those in `MayKill`; completed exactly if the record is whole, and then with every field; a shortest chain; each outcome in one report | all 64 graphs on 6 edges; all item and adjustment records over chosen values with up to 2 lines; mixes of 4 requests, unreadable and unlabelled ones and odd filters and rows among them, with 1 crash; 2.3M states |

Bounds. Two writes and two tenants are what isolation, reversal (a write of a
write) and probe contention take. Three writers are needed for two to wait on
one lock. Two Ledger agents and one repeated message give the insert race. A
window or TTL of 2 separates "just before", "at" and "after" expiry; a lag of 1 is
enough for a revoke to fall into the making of a token. Three digits are as many as
the double rounding needs (3 at 1/1.2 is 2.499, held as 2.50, answered as 3). Two rate
replicas, one of them slow, give the overwrite. One release that lacks the last
migration is what makes "highest applied" and "highest of my checkout" differ.
Two fields tell a field Cavi manages from one it does not. Six edges give three
chains of different length and a cycle. Counters (`MaxFaults`, `MaxCrashes`,
`MaxAborts`, `MaxTriggers`, `MaxAttempts`, `MaxRequests`, `MaxRuns`, `MaxSends`,
`MaxWrites`, `MaxEdits`, `MaxMoves`, `MaxChanges`, `MaxCalls`) bound the
environment only, never the code. Symmetry is used only in runs without liveness
properties. Deadlock is checked everywhere; a `Quiescent` or `Done` step stands
for "the bounded environment has nothing more to send".

## 4. Disagreements with what the repository says

* `alerting_loop` (`DeadLetterEscalates`, a run that expects a violation): the README
  has Beacon watch the dead letters. The envelope of a malformed `ledger.entry` keeps
  its subject, so Beacon's own `_dispatch` rejects it again and republishes it on a
  subject it is subscribed to. It circles for ever and is never alerted; with several
  replicas every round multiplies the copies.

More, each with a configuration in which TLC finds the property named violated, and
not part of the regular runs:

* `WriteBatchRaise.cfg` (`HalfPostedIsReported`): write.py:429-430 says a partial batch
  "never leaves half-posted state unreported". Only `ErpWriteError` is caught; any
  other exception of the writer (a `/sign` reply that is not JSON, `netsuite.py:124`)
  leaves `execute_batch` and takes the list of committed steps with it.
* `ForgeWriteEmpty.cfg` (`UpdatesNeverMintRecords`): netsuite.py:145-148 refuses an
  update without a target, because it would make a duplicate under a fresh id. The
  empty string passes its `is None` and is no target to write.py:109: the update is
  upserted under the write's own key.
* `SaleClash.cfg` (`DuplicateIsOwn`): ledger/agent.py:65 takes a duplicate for a replay
  of a posted entry. Order "b:x" of tenant "a" and order "x" of tenant "a:b" have the
  same entry id (`forge.py:104`), and the second is discarded unposted.
* `SaleMemo.cfg` (`CompletionIsPosted`): forge/agent.py:8-9 has a completed order become
  a posted entry. The memo (`forge.py:158`) may be longer than `ledger.entry` allows:
  the agent dies on it after `forge.completed` is out.
* `AlertingTenants.cfg` (`DistinctFailuresStaySeparate`): beacon.py:70-71 says distinct
  failures stay separate. The key has no tenant, so one tenant's alert suppresses
  another's; TLC shows it for events without an identifier, and two tenants with
  one `work_order_id` fare alike.
* `DeskReads.cfg` (`ReadFailureIsEmitted`): ledger/query_agent.py:14-15 says a read
  failure never crashes the agent. Filters that are no mapping fail the read, and the
  failure event made of them raises again, outside the `try` (`query.py:90`).
* `ForgeWriteStuck.cfg` (`StuckIsEscalated`): docs/PRD-writeback.md:46 has any
  failure halt and escalate to a human. An execution that fails below the
  breaker's threshold is only logged (`write_agent.py:192`), and the approved
  write waits in memory for a replay nobody is told to make.
* `ForgeWriteRetry.cfg` (`RetryIsSafe`): `netsuite.py:133` calls the retry of an
  update safe. Update A lands and its reply is lost, update B of the same record
  completes, the retry of A overwrites B.

## 5. Where the guarantees end

Properties of section 3 that hold under a condition, with what happens beyond it.
TLC finds each counterexample after the change of
configuration named here or, where the property states its own exception, without
that exception.

| Property | Condition | Beyond it |
|---|---|---|
| `ApprovedEventuallyCompletes` | the client can address the tenant's writes | `Proposals <- PoisonProposals`, one tenant, no faults: a write that `apply` refuses locally counts as a breaker failure and takes every half-open probe; a good write waits for ever (`write_agent.py:192`, against middleware/n8n/README.md:96-99) |
| `SaleIsAnnounced` | nobody crashes | both Ledger agents are down when `ledger.entry` is published, and nothing replays `event_log` (README.md:20, "never be silently lost"); or death between commit and emit: a redelivered entry is a duplicate and stays unannounced (`ledger/agent.py:64`) |
| `SaleIsAnnounced` | the trigger's schema is registered | `Registered = {}`, which is what `schema_registry/` ships for `forge.workorder`: every order is dead-lettered (`base/agent.py:107`) |
| `SaleIsAnnounced` | both events meet their schemas; nobody else has the id | a price of zero or a long memo ends the agent, before or after `forge.completed`; a clash of ids (section 4) drops the sale |
| `SuppressedIsRepeat` | tenants are not told apart | section 4, `AlertingTenants.cfg` |
| `TripIsEscalated` | the first trip | a failure below the threshold and a re-trip add nothing to the dead letters (`write_agent.py:192`) |
| `NoUnreportedChange` | the writer raises nothing but `ErpWriteError` | section 4, `WriteBatchRaise.cfg`; the steps lost are completed ones |
| `RevocationBites` | expiry by the clock; a thread gets from the store read to its stamp | a caller that passes its own `now` signs for as long as it likes (`vault.py:226`); a thread held up between `vault.py:307` and `:313` vends a token of a credential revoked meanwhile, which lives its full ttl from the stamp on |
| `SuppressedWasAlerted` | the replica lives on | the key is set before the channels are called; a crash in between silences the fleet for the window (`beacon.py:224`) |
| `LastWordStands` | the change met no rotation half-way | `rotate_token` reads, a revoke removes, the rotation writes the old credential back (`vault.py:346`) |
| `ChangeIsReported` | not the newest row | `verify_chain` cannot notice that the end of the chain is gone (`audit.py:56`, docstring "An empty list means the log is intact") |
| `ReportIsSound` | | a write reported as failed may have been applied: the report is sound and not exact (`write.py:428`) |

The newer modules:

| Property | Condition | Beyond it |
|---|---|---|
| `ExactlyOneOutcome` | the request's schema is registered | `mapper.transform`, `mapper.erp.transform`, `ledger.query.request`, `ticker.webhook`, `ticker.price.request` and `beacon.report.request` have no schema in `schema_registry/`: every one is dead-lettered, though `mapper/erp_agent.py:3-4` and `ledger/query_agent.py:3-4` promise one canonical outcome |
| `ExactlyOneOutcome` | | the requests in `MayKill` end their agent, and what was queued on its socket is gone: one without the fields `handle` reads; one whose labels (an empty `tenant_id`, a period that is no date) its outcome's schema refuses at `base/agent.py:63`; a coercion whose payload is not of the version it claims, or that a broken transform takes (`mapper/agent.py:43`); a query with filters that are no mapping, or an answer that is no list of objects (`query.py:64`, `:90`) |
| `ConversionIsNearest` | the product fits the context | beyond 28 digits the answer may be the second nearest (`ticker.py:51`); a negative amount, a rate `str()` writes with an exponent and a result too long for `quantize` end the replica |
| `CompleteOrBlocked` | | a price that is not an integer raises before the gaps are gathered, so the failure names that one problem, though the module's docstring says all gaps are reported at once (`netsuite_records.py:122`) |
| `CompleteOrBlocked` | | a required field of a line may be an empty list: `LineMapping.apply` refuses null and blank (`netsuite_records.py:80`) where `RecordMapping.apply` refuses an empty list too (`:116`). The property says so; the proof of the stricter one failed at exactly this case |
| `TallyIsAccounted` | the agent lives on | the tally is memory: a crash loses the window (`report_agent.py:50`); a dead letter keeps its original subject, so `dead_letters` counts none of them |
| `QuoteIsFresh` | lookups take at most `Latency` | the code sets no deadline; with the TTL as the only bound TLC shows a slow replica storing an old rate over a newer one (`ticker.py:178`) |
| `AsOfIsHonest` | | `as_of` is read after the source answered, so it may be younger than the rate by the time the call took (`ticker.py:177`) |
| `StandingDriftIsReported` | the record was not touched during the pass | a write that lands between the two reads is reported as unexpected or mismatched, and so is one between its PUT and its record; advisory by design (`reconcile_agent.py:85`) |
| `DueIsAnswered` | the agent lives on | a crash between the two emits leaves a heartbeat whose `drift_count` no drift event explains (`reconcile_agent.py:106`) |
| `MissingIsReal` | | the converse fails with `LoseWrite`: a write whose record Forge never made is "unexpected" for ever |
| `ExitMeansMigrated` | no rollback meanwhile | a version rolled back after it was read as applied is missing when the job exits 0, and the next ones are applied over the gap (`migrate.py:88`) |
| `ContendedIsApplied` | | the loser of the race dies on the primary key with its later migrations still pending, until it is run again (`migrate.py:96`) |
| `AppliedOnce` | | two rollbacks that read the same version both report having reverted it; `rollback_last` takes the highest version where its docstring says the most recently applied (`migrate.py:126`) |

Without a property of their own: `_reverse` passes no
`target_external_id` (`write_agent.py:123`), so an update compensation is
approved and then refused by `apply`, while write.py:373 says it targets the
original's record; a dead letter that is well formed (for example
`ticker.reconciliation.due`) is classified by its original subject, INFO, and
never goes to Hermes, though `beacon/agent.py:105` lists it as ERROR; an event
type with blanks around it is kept as it is and routed to the fallback
(`webhook.py:55`); and Beacon's report agent, subscribed to
`deadletter.ledger.entry` too, takes part in the loop of section 4.

## 6. Fairness

* ForgeWrite: weak fairness of the handler loop and of the clock; strong fairness
  of re-driving each approved write, which is the operator's replay `_decide` is
  written for (the agent itself never retries). Faults are finite; no crash, since
  a restarted agent has forgotten its pending writes.
* EventChain: weak fairness of statements, strong fairness of the lock, which
  Postgres grants in queue order.
* SalePosting and Alerting: weak fairness of each process, restart included
  (containers are restarted by Compose). A behaviour with a crash is excepted
  from their liveness properties, which would fail (section 5).
* Reconcile: weak fairness of the agent's own steps, restart included; nothing is
  assumed of Forge or of the ERP's users.
* Migrate: weak fairness of each started job; starting one is up to its operator.

## 7. What is proved

For every value of the constants that satisfies the modules' assumptions, with
TLAPS:

`ForgeWriteProofs`

* `TypeCorrect`, from `TypeInv` = `TypeOK` and `Known` (what a handler or
  dictionary mentions has been minted).
* `GateHolds`, `RejectionIsFinal`, `Refinement`, from `GateInv`. `ApprovalGate`
  alone is not inductive: a PUT only looks at `pc` and `job`. `PendingLogged`
  and `RunningLogged` say what the log holds for a write in a dictionary or a
  running handler, `LogShape` that a trail is a prefix of one of the two legal
  ones; together they give each action the guard of the abstract step it maps to.
* `NoWedgedProbe`, `ErpIsShielded`, `OutageStaysIsolated`, from `BreakerInv`:
  besides the three properties, `FailuresCounted` ties the breaker's counter to
  the history of failures on that connection.
* `DurableFirst`, from `OutboxInv`: at `publish` the event, and at `alert` the
  dead letter, is in its table.

* `CaviKeysAreAsked`, from `RecordInv`: `CaviRecordsAreAsked`, with the fact that what
  has landed was minted before. Each record under a Cavi key goes back to the PUT that
  wrote it, the create that owns the key, an update that named it or the one with the
  empty target; no update without a target is among them.
* `TripsAreEscalated`, from `TripInv`: an open breaker has a dead letter of its
  connection or the handler that tripped it is about to write one; for that the
  cause a running execution would quarantine is always its own approval.

* `RefusalIsWhole`, `ReportsAreSound`, `NothingUnreported` about `WriteBatch`, from
  `BatchInv`. The three properties speak of a call that has returned or of writes
  that landed; `LoopInv` says where the loop is meanwhile: the writes before `index`
  are its local list of steps, in order, all of the batch is still approved in the
  caller's hands, and what was touched are those writes and the one whose PUT has
  landed and whose answer is out.

`PostgresProofs`

* `TypeCorrect`, `ChainNeverForks`, `NoDoubleRecord`, `GrowsAtTheEnd`,
  `ChainRefinesLog`, from `ChainInv`: a writer past the lock is its holder
  (`LockInv`), what it has read is still the tip (`TipInv`), and its sequence
  number is above every row (`FreshInv`). Without the lock none of these holds.
* `TamperingShows`, from `ListInv` = `ChainInv` and `Listed`: the chained rows are a
  list in which each has a next one, so a change shows at the row itself and a
  removal at the row that came next.

* `MigrateTypeCorrect`, `TrackingIsTrue`, `NoSecondApplication`,
  `JobDeliversCheckout`, from `MigrateInv`. `RecordedIsApplied` is inductive;
  `AppliedOnce` is not: `CountInv` adds that a version that is not recorded has been
  rolled back as often as applied, which is what the primary key protects.
  `ExitMeansMigrated` needs `Progress`: what a run read as applied, and each migration
  its loop has passed, is recorded or was reverted since the run began, at every step
  of every other runner.

`ReconcileProofs`

* `NoFalseMissing`, from `ReconcileInv`: what Forge wrote, recorded or not, is in
  the ERP unless somebody deleted it (`WrittenInv`), and what the first read found
  recorded still is at the second (`SnapshotInv`). With the two reads in the other
  order the second fails.
* `DriftIsFound`, from `DriftInv`. `CompareFinds` says what `compare` returns for any
  two snapshots; `StandingInv` that a snapshot still shows every record nobody has
  touched since the pass began, whatever happened to the others.

`VaultProofs`

* `RevocationTakesEffect`, from `TokenInv` and `LifeInv`: the absence of a token's
  credential is no longer than the lag of its making and its age together, because
  it was bound to what the store held and all clocks run together from then on; and
  a token lives as long as its request asked or the default says. `StoredNow` restarts the second clock when a
  credential comes back.
* `StoreFollowsOperators`: `LastWordStands` needs `RotationInv`, that a rotation
  nobody has overtaken holds the tenant's current integration.

`SalePostingProofs`

* `PostedAndReportedOnce`, `AnnouncedIsBooked`, `BooksAlwaysBalance`,
  `TablesImplementJournal`, from `SaleInv`. `ClaimInv` is what the primary key and
  the wait on it give: a transaction between insert and commit is alone with its
  id. `SoundInv` carries the balance check to the commit, `BookInv` says head and
  lines arrive together, `RecordInv` that an agent which has committed is the only
  one to report the entry. Every step is then a step of `Journal` or leaves its
  entries alone.
* `DiscardsAreExplained`, from `OriginInv`, every entry in a socket, in hand or in the
  books is some order's or a foreign producer's. It has no hypothesis about names: that
  two equal ids of orders have their first colon in the same place (`FirstColon`) makes
  the tenants equal unless one of them holds a colon, and that case the property names.

`AlertingProofs`

* `OncePerWindow`, `RepeatsAreSuppressed`, `SuppressedIsAccounted`, from `AlertInv`.
  `CountInv` counts: alerts sent plus replicas about to send are at most one for
  each lifetime of the key that is over, and one more while it lives. The replica
  that is still sending when the key expires is why a count of sent alerts alone is
  not inductive. `ClaimInv` ties a live key to an event let through less than a window
  ago, and `SameKeyRepeats` says what a shared key means for the payloads: a common
  identifier or none on either side. `AccountInv` follows a claim to the alert or to
  the crash.

`TickerProofs`

* `QuotesAreFresh`, `AsOfIsLateByALookup`, from `TickerInv`: every rate in hand, in
  the cache or in an answer comes with the moment the source quoted it, `LookupInv`
  and `CacheInv` bound the distance to it. The two lookups in the bound are the slow
  one that stored the rate and the slow one that answers from it.
* `ConvertsToNearest`, from `ConvertClose`: `Product` bounds what the context's
  rounding does to the product (nothing while it fits, half a last digit otherwise,
  by `LastDigit` and `RoundEven`), `RoundUp` what quantize adds, for every precision,
  scale, rate and amount. That a reply meets the schema (`Raises`) gives the sign.

`DeskProofs`

* `OneOutcomeAlways`, `ShortestChainAlways`, `TallyAlways`, `CompleteAlways`, from
  `DeskInv`: the request an agent is at has no answer and no other fate (`AtWork`),
  one in its socket has not been taken and is there once (`Waiting`), one that was
  taken has at most one answer, and an outcome when no agent is at it (`Taken`).
  `Fates` is what handle and the schema check of emit make of any request; for a
  coercion `OnTheWay` puts the transform that failed on a chain from the version the
  request names, so that no other request of Mapper's may end it.
  `LocalSuffices` reduces a step to the agent that takes it and the request it is
  about.
* `FindPath`: `_find_path` returns None exactly if no chain of transforms reaches the
  target, else a chain than which none is shorter, for every finite table. `SearchInv`
  is the invariant of breadth-first search: the queue is in order of length, of at
  most two lengths and one path to each version; everything as near as its first path
  has been seen; no path ends at a version that is nearer than it is long. Each turn
  leaves one more version, so the search has stopped after as many turns as there are
  transforms and one.
* `CompleteAlways` rests on `Applied`, what `RecordMapping.apply` makes of any record:
  the tables give each field a target of its own (`Tables`), which is why nothing is
  overwritten, and `Money` is the arithmetic of cents for every integer.

Induction in `DeskProofs` is over natural numbers, by a least counterexample (`Least`,
from the well-foundedness of `<`). That the recursive functions of `Mapper` and `Desk`
exist is `Iterates`, proved the same way.

Assumptions: thresholds and bounds are naturals, `None` is not a value, proposals
have their record type, versions are positive numbers, a write's fields form a
record, rows from before the chain have smaller sequence numbers and no hash, the
parts of an id other than its separator have no colon, only an HTTP request to Vault
may lack its tenant and only a library call brings a ttl or a clock, a rate table has no pair of a currency with itself, the
places a Decimal is rounded to are powers of ten that reach the scale's, an event on a
watched subject has its envelope and four named fields, a request to the desk has its fields, an agent
that subscribes to it and, if a coercion, a finite table of transforms. TLC evaluates
each of them in the runs.

## 8. What is only model-checked

All liveness properties (the prover has no support for fairness):
`ApprovedEventuallyCompletes`, `RecordTerminates`, `SaleIsAnnounced`,
`AnnouncedIsAlerted`, `ContendedIsApplied`, `DueIsAnswered`.

Every invariant and every action property of the runs is a theorem. What remains
with TLC besides liveness is `TypeOK` in full for SalePosting (that the total of an
entry is a natural number is a fact about a sum over a sequence), Desk, WriteBatch,
Vault, Alerting and Ticker: their inductive invariants carry the types the proofs need.

The `TypeOK` of each module can be added to its configuration; the regular runs
leave it out.

## 9. What is not modelled

Settings, logging, metrics, health endpoints, n8n workflows and deployment files
(I/O or external, no state the properties speak of); the bodies of the version
transforms and the content of the ERP reads of Query; the JSON text of exports
and events; `Forge.cancel`, which no agent calls; `migrate --status`, which only
reads. The in-memory stores used by the tests are the atomic counterparts of the
modelled ones. Hazards without a property have a note in `PROJECT.json`.

## 10. Plan

Done, in this order: the write path with its gate and breaker; the event chain;
the batch; work order to books; alerts; credentials; the proofs of the first two;
migrations; rates; reconciliation; the request agents with their pure algorithms;
the proofs about migrations, reconciliation, credentials, postings, alerts and
rates; the proofs about the batch and the request agents, path search and record
mapping included.

Left: a composition of ForgeWrite's dead letters with Alerting, to ask whether an
open breaker reaches a human through a live Beacon.

## 11. Running it

    tlc -workers 2 -config ForgeWrite.cfg MCForgeWrite
    tlapm ForgeWriteProofs.tla

Each run in `PROJECT.json` names its module and configuration. The operators
named `<definition>_<change>` are mutants: plausible bugs of one definition, used
to confirm that the properties notice them. They take part in no specification.
