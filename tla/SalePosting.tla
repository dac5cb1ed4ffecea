---------------------------- MODULE SalePosting -----------------------------
(***************************************************************************)
(* From a work order to the books: the Forge agent (forge/agent.py,        *)
(* forge.py) completes an order and emits forge.completed and ledger.entry;*)
(* Ledger agents (ledger/agent.py, ledger.py) post the entry in Postgres   *)
(* and emit ledger.posted or ledger.rejected.  Between them is Redis       *)
(* pub/sub: a message goes to the agents that are subscribed when it is    *)
(* published, and to nobody else.                                          *)
(*                                                                         *)
(* Any process may die between two calls to the outside; a dead agent is   *)
(* restarted with an empty inbox.  An id is the sequence of its tokens,    *)
(* because the entry id is made by joining two of them.                    *)
(***************************************************************************)
EXTENDS Naturals, Sequences, FiniteSetsExt, Bags

CONSTANTS Worker,       \* Ledger agent processes
          Token,        \* what tenant and work order ids are made of
          Orders,       \* payloads of forge.workorder
          Foreign,      \* ledger.entry messages of other producers (n8n, Mapper)
          Registered,   \* versions of forge.workorder in schema_registry_dir
          MaxTriggers,  \* bound: messages from outside
          MaxCrashes    \* bound: deaths of processes

VARIABLES fpc, order,       \* the Forge agent: its next call, its work order
          wpc, msg, inbox,  \* each Ledger agent: next call, message, socket
          heads, lines,     \* the tables journal_entry and journal_line
          log,              \* event_log, a bag: every event has a fresh id
          announced,        \* ledger.posted events consumers have seen
          dead,             \* event_deadletter
          delivered,        \* history: work orders that reached Forge
          triggers, crashes

forgeVars == <<fpc, order>>
workerVars == <<wpc, msg, inbox>>
bookVars == <<heads, lines>>
vars == <<forgeVars, workerVars, bookVars, log, announced, dead, delivered,
          triggers, crashes>>

-----------------------------------------------------------------------------
Id == Seq(Token \cup {":"})
Line == [direction : {"debit", "credit"}, amount : Nat]
Order == [id : Id, tenant : Id, quantity : Nat, price : Nat, bps : Nat,
          memo : Nat,  \* the length of the memo made of its sku and id
          version : Nat,
          state : {"created", "in_progress", "completed", "cancelled"}]
Entry == [id : Id, tenant : Id, memo : Nat, lines : Seq(Line)]
Fact == [subject : {"forge.completed", "ledger.entry", "ledger.posted",
                    "ledger.rejected"}, tenant : Id, id : Id]

NoOrder == [id |-> <<>>, tenant |-> <<>>, quantity |-> 0, price |-> 0,
            bps |-> 0, memo |-> 0, version |-> 0, state |-> "cancelled"]
NoEntry == [id |-> <<>>, tenant |-> <<>>, memo |-> 0, lines |-> <<>>]

ASSUME InputAssumption == /\ Orders \subseteq Order /\ Foreign \subseteq Entry
                          /\ ":" \notin Token
                          /\ MaxTriggers \in Nat /\ MaxCrashes \in Nat

fact(subject, tenant, id) == [subject |-> subject, tenant |-> tenant, id |-> id]

-----------------------------------------------------------------------------
(* forge.py: WorkOrder, ledger_entry_id, revenue_lines.                    *)

net_minor(o) == o.quantity * o.price

tax_minor(o) == (net_minor(o) * o.bps) \div 10000

\* Mutant of gross_minor: rounded up on its own, not the sum of net and tax.
gross_minor_rounded(o) == (net_minor(o) * (10000 + o.bps) + 9999) \div 10000

gross_minor(o) == net_minor(o) + tax_minor(o)

\* Mutant of ledger_entry_id: the tenant is left out of the name.
ledger_entry_id_bare(o) == o.id

\* uuid5 of "tenant:work_order", collisions of the digest aside.
ledger_entry_id(o) == o.tenant \o <<":">> \o o.id

revenue_lines(o) ==
    <<[direction |-> "debit", amount |-> gross_minor(o)],
      [direction |-> "credit", amount |-> net_minor(o)]>>
    \o IF tax_minor(o) = 0 THEN <<>>
       ELSE <<[direction |-> "credit", amount |-> tax_minor(o)]>>

ledger_entry(o) == [id |-> ledger_entry_id(o), tenant |-> o.tenant,
                    memo |-> o.memo, lines |-> revenue_lines(o)]

\* Forge.start then Forge.complete: only a created or started order completes.
completes(o) == o.state \in {"created", "in_progress"}

\* What the registered schemas ask of the two events.
completed_valid(o) == o.tenant # <<>> /\ o.quantity >= 1 /\ net_minor(o) >= 1
entry_valid(e) == /\ e.memo <= 280
                  /\ Len(e.lines) >= 2
                  /\ \A i \in DOMAIN e.lines : e.lines[i].amount >= 1

-----------------------------------------------------------------------------
(* ledger.py: the rows of an entry and its totals.                         *)

rows(e) == {[entry |-> e.id, tenant |-> e.tenant, n |-> i,
             direction |-> e.lines[i].direction, amount |-> e.lines[i].amount] :
            i \in DOMAIN e.lines}

total(rs, direction) ==
    MapThenSumSet(LAMBDA r : r.amount, {r \in rs : r.direction = direction})

is_balanced(rs) == /\ total(rs, "debit") = total(rs, "credit")
                   /\ total(rs, "debit") > 0

head(e) == [id |-> e.id, tenant |-> e.tenant, total |-> total(rows(e), "debit")]

\* The entry a row of journal_entry stands for, with its lines.
book(h) == [id |-> h.id, tenant |-> h.tenant,
            lines |-> {l \in lines : l.entry = h.id}]

-----------------------------------------------------------------------------
TypeOK ==
    /\ fpc \in {"idle", "record_completed", "publish_completed",
                "record_entry", "publish_entry"}
    /\ order \in Orders \cup {NoOrder}
    /\ wpc \in [Worker -> {"down", "idle", "dispatch", "insert", "commit",
                           "record", "announce", "reject"}]
    /\ msg \in [Worker -> Entry]
    /\ inbox \in [Worker -> Seq(Entry)]
    /\ \A h \in heads : h.id \in Id /\ h.tenant \in Id /\ h.total \in Nat \ {0}
    /\ \A l \in lines : \E h \in heads : h.id = l.entry /\ h.tenant = l.tenant
    /\ IsABag(log) /\ BagToSet(log) \subseteq Fact
    /\ announced \subseteq Fact
    /\ dead \subseteq Orders \cup Entry
    /\ delivered \subseteq Orders
    /\ triggers \in 0..MaxTriggers
    /\ crashes \in 0..MaxCrashes

Init ==
    /\ fpc = "idle" /\ order = NoOrder
    /\ wpc = [w \in Worker |-> "idle"]
    /\ msg = [w \in Worker |-> NoEntry]
    /\ inbox = [w \in Worker |-> <<>>]
    /\ heads = {} /\ lines = {}
    /\ log = EmptyBag /\ announced = {} /\ dead = {}
    /\ delivered = {} /\ triggers = 0 /\ crashes = 0

Trigger == triggers < MaxTriggers /\ triggers' = triggers + 1
Record(f) == log' = log (+) SetToBag({f})

\* Redis PUBLISH: a copy for every subscriber connected now.
Publish(e) == inbox' = [w \in Worker |-> IF wpc[w] = "down" THEN inbox[w]
                                         ELSE Append(inbox[w], e)]

-----------------------------------------------------------------------------
(* The Forge agent.                                                        *)

\* _dispatch and handle up to the first emit.
WorkOrderArrives(o) ==
    /\ fpc = "idle"
    /\ Trigger
    /\ delivered' = delivered \cup {o}
    /\ \/ /\ o.version \notin Registered
          /\ dead' = dead \cup {o}
          /\ UNCHANGED forgeVars
       \/ /\ o.version \in Registered
          /\ completes(o)
          /\ fpc' = "record_completed" /\ order' = o
          /\ UNCHANGED dead
       \/ /\ o.version \in Registered
          /\ ~completes(o)
          /\ UNCHANGED <<forgeVars, dead>>
    /\ UNCHANGED <<workerVars, bookVars, log, announced, crashes>>

ForgeIdle == fpc' = "idle" /\ order' = NoOrder

\* emit(forge.completed).  A payload that violates its own schema raises out of
\* handle(): the agent dies and is restarted.
RecordCompleted ==
    /\ fpc = "record_completed"
    /\ IF completed_valid(order)
       THEN /\ Record(fact("forge.completed", order.tenant, order.id))
            /\ fpc' = "publish_completed" /\ UNCHANGED order
       ELSE ForgeIdle /\ UNCHANGED log
    /\ UNCHANGED <<workerVars, bookVars, announced, dead, delivered, triggers,
                   crashes>>

PublishCompleted ==
    /\ fpc = "publish_completed"
    /\ fpc' = "record_entry"
    /\ UNCHANGED <<order, workerVars, bookVars, log, announced, dead, delivered,
                   triggers, crashes>>

\* emit(ledger.entry).  sku and work order id have no maximal length and the memo
\* made of them has: here too the schema may refuse the agent's own payload.
RecordEntry ==
    /\ fpc = "record_entry"
    /\ IF entry_valid(ledger_entry(order))
       THEN /\ Record(fact("ledger.entry", order.tenant, ledger_entry_id(order)))
            /\ fpc' = "publish_entry" /\ UNCHANGED order
       ELSE ForgeIdle /\ UNCHANGED log
    /\ UNCHANGED <<workerVars, bookVars, announced, dead, delivered, triggers,
                   crashes>>

PublishEntry ==
    /\ fpc = "publish_entry"
    /\ Publish(ledger_entry(order))
    /\ ForgeIdle
    /\ UNCHANGED <<wpc, msg, bookVars, log, announced, dead, delivered, triggers,
                   crashes>>

CrashForge ==
    /\ fpc # "idle"
    /\ crashes < MaxCrashes /\ crashes' = crashes + 1
    /\ ForgeIdle
    /\ UNCHANGED <<workerVars, bookVars, log, announced, dead, delivered, triggers>>

\* Another producer publishes a ledger.entry; a repeated one is a redelivery.
ForeignEntry(e) ==
    /\ Trigger
    /\ Publish(e)
    /\ UNCHANGED <<forgeVars, wpc, msg, bookVars, log, announced, dead, delivered,
                   crashes>>

-----------------------------------------------------------------------------
(* A Ledger agent.                                                         *)

Goto(w, step) == wpc' = [wpc EXCEPT ![w] = step]
Return(w) == Goto(w, "idle") /\ msg' = [msg EXCEPT ![w] = NoEntry]

Take(w) ==
    /\ wpc[w] = "idle" /\ inbox[w] # <<>>
    /\ msg' = [msg EXCEPT ![w] = Head(inbox[w])]
    /\ inbox' = [inbox EXCEPT ![w] = Tail(@)]
    /\ Goto(w, "dispatch")
    /\ UNCHANGED <<forgeVars, bookVars, log, announced, dead, delivered, triggers,
                   crashes>>

\* _dispatch quarantines what violates the schema; handle drops an entry without
\* a tenant and post refuses one that does not balance.
Dispatch(w) ==
    /\ wpc[w] = "dispatch"
    /\ \/ /\ ~entry_valid(msg[w])
          /\ dead' = dead \cup {msg[w]}
          /\ Return(w)
       \/ /\ entry_valid(msg[w]) /\ msg[w].tenant = <<>>
          /\ Return(w) /\ UNCHANGED dead
       \/ /\ entry_valid(msg[w]) /\ msg[w].tenant # <<>>
          /\ Goto(w, IF is_balanced(rows(msg[w])) THEN "insert" ELSE "reject")
          /\ UNCHANGED <<msg, dead>>
    /\ UNCHANGED <<forgeVars, inbox, bookVars, log, announced, delivered, triggers,
                   crashes>>

\* Another transaction has inserted the same key and has not ended.
claimed(w) == \E v \in Worker \ {w} : wpc[v] = "commit" /\ msg[v].id = msg[w].id

\* Mutant of present: ON CONFLICT is dropped, the key is the row's serial.
present_never(e) == FALSE

present(e) == \E h \in heads : h.id = e.id

\* Mutant of InsertHead: autocommit, so the head is durable before its lines.
InsertHead_autocommit(w) ==
    /\ wpc[w] = "insert"
    /\ ~claimed(w)
    /\ IF present(msg[w]) THEN Return(w) /\ UNCHANGED heads
       ELSE heads' = heads \cup {head(msg[w])} /\ Goto(w, "commit") /\ UNCHANGED msg
    /\ UNCHANGED <<forgeVars, inbox, lines, log, announced, dead, delivered,
                   triggers, crashes>>

\* INSERT ... ON CONFLICT (entry_id) DO NOTHING: waits for a transaction that holds
\* the key, then a row that exists makes this one a duplicate.
InsertHead(w) ==
    /\ wpc[w] = "insert"
    /\ ~claimed(w)
    /\ IF present(msg[w]) THEN Return(w) ELSE Goto(w, "commit") /\ UNCHANGED msg
    /\ UNCHANGED <<forgeVars, inbox, bookVars, log, announced, dead, delivered,
                   triggers, crashes>>

\* Mutant of Commit: the connection is returned without a commit.
Commit_lost(w) ==
    /\ wpc[w] = "commit"
    /\ Goto(w, "record")
    /\ UNCHANGED <<forgeVars, msg, inbox, bookVars, log, announced, dead, delivered,
                   triggers, crashes>>

\* The lines are inserted and the transaction commits.
Commit(w) ==
    /\ wpc[w] = "commit"
    /\ heads' = heads \cup {head(msg[w])}
    /\ lines' = lines \cup rows(msg[w])
    /\ Goto(w, "record")
    /\ UNCHANGED <<forgeVars, msg, inbox, log, announced, dead, delivered, triggers,
                   crashes>>

RecordPosted(w) ==
    /\ wpc[w] = "record"
    /\ Record(fact("ledger.posted", msg[w].tenant, msg[w].id))
    /\ Goto(w, "announce")
    /\ UNCHANGED <<forgeVars, msg, inbox, bookVars, announced, dead, delivered,
                   triggers, crashes>>

PublishPosted(w) ==
    /\ wpc[w] = "announce"
    /\ announced' = announced \cup {fact("ledger.posted", msg[w].tenant, msg[w].id)}
    /\ Return(w)
    /\ UNCHANGED <<forgeVars, inbox, bookVars, log, dead, delivered, triggers,
                   crashes>>

\* emit(ledger.rejected)
RecordRejected(w) ==
    /\ wpc[w] = "reject"
    /\ Record(fact("ledger.rejected", msg[w].tenant, msg[w].id))
    /\ Return(w)
    /\ UNCHANGED <<forgeVars, inbox, bookVars, announced, dead, delivered, triggers,
                   crashes>>

\* The process dies: its transaction is rolled back, its socket is gone.
CrashLedger(w) ==
    /\ wpc[w] # "down"
    /\ crashes < MaxCrashes /\ crashes' = crashes + 1
    /\ Goto(w, "down")
    /\ msg' = [msg EXCEPT ![w] = NoEntry]
    /\ inbox' = [inbox EXCEPT ![w] = <<>>]
    /\ UNCHANGED <<forgeVars, bookVars, log, announced, dead, delivered, triggers>>

Restart(w) ==
    /\ wpc[w] = "down"
    /\ Goto(w, "idle")
    /\ UNCHANGED <<forgeVars, msg, inbox, bookVars, log, announced, dead, delivered,
                   triggers, crashes>>

-----------------------------------------------------------------------------
ForgeStep == RecordCompleted \/ PublishCompleted \/ RecordEntry \/ PublishEntry

LedgerStep(w) ==
    \/ Take(w) \/ Dispatch(w) \/ InsertHead(w) \/ Commit(w)
    \/ RecordPosted(w) \/ PublishPosted(w) \/ RecordRejected(w) \/ Restart(w)

\* Nothing more will arrive (the bound on triggers): not a deadlock.
Quiescent == /\ triggers = MaxTriggers /\ fpc = "idle"
             /\ \A w \in Worker : wpc[w] = "idle" /\ inbox[w] = <<>>
             /\ UNCHANGED vars

Next ==
    \/ \E o \in Orders : WorkOrderArrives(o)
    \/ \E e \in Foreign : ForeignEntry(e)
    \/ ForgeStep
    \/ \E w \in Worker : LedgerStep(w) \/ CrashLedger(w)
    \/ CrashForge
    \/ Quiescent

Spec == Init /\ [][Next]_vars

-----------------------------------------------------------------------------
(* Safety.                                                                 *)

\* The books balance at every moment, whichever process dies when: every entry has
\* all its lines, of its tenant, with debits and credits equal to its total.
BooksBalance ==
    \A h \in heads : /\ is_balanced(book(h).lines)
                     /\ total(book(h).lines, "debit") = h.total

\* Two Ledger agents that both receive an entry, and any redelivery of it, post it
\* and report it once (ON CONFLICT (entry_id), status "duplicate").
PostedOnce ==
    /\ \A h, k \in heads : h.id = k.id => h = k
    /\ \A f \in BagToSet(log) : f.subject = "ledger.posted" => log[f] = 1

\* A consumer of ledger.posted finds the entry in that tenant's books, and the event
\* in the log, though other transactions race and fail (Ledger.handle).
AnnouncedIsInBooks ==
    \A f \in announced : /\ BagIn(f, log)
                         /\ \E h \in heads : h.id = f.id /\ h.tenant = f.tenant

\* A colon in the tenant's name, which ledger_entry_id takes for its separator.
colon(id) == \E i \in DOMAIN id : id[i] = ":"

\* Whose duplicate it is (insert_if_absent keys on entry_id alone): an entry is
\* discarded for another tenant's only if one of the two tenants has a colon in its
\* name, or a producer other than Forge uses that id; work order ids may hold anything
\* and tenants may share them.
DiscardIsExplained ==
    [][\A w \in Worker :
          wpc[w] = "insert" /\ wpc'[w] = "idle" =>
              \E h \in heads :
                  /\ h.id = msg[w].id
                  /\ \/ h.tenant = msg[w].tenant
                     \/ colon(h.tenant) \/ colon(msg[w].tenant)
                     \/ \E e \in Foreign : e.id = msg[w].id]_vars

\* The two tables implement a journal of whole, balanced entries.
Books == INSTANCE Journal WITH entries <- {book(h) : h \in heads},
                               Balanced <- LAMBDA e : is_balanced(e.lines)
ImplementsJournal == Books!Spec

-----------------------------------------------------------------------------
(* Liveness: processes keep running, and a dead one is restarted.          *)
LiveSpec == /\ Spec
            /\ WF_vars(ForgeStep)
            /\ \A w \in Worker : WF_vars(LedgerStep(w))

\* The trigger's schema is registered, and both events satisfy theirs.
Sellable(o) == /\ o.version \in Registered /\ completes(o)
               /\ completed_valid(o) /\ entry_valid(ledger_entry(o))

posted(o) == fact("ledger.posted", o.tenant, ledger_entry_id(o)) \in announced

\* A completed work order becomes a posted journal entry: every order whose two events
\* satisfy their schemas ends in a ledger.posted, through two agents and the bus, though
\* both workers post it and the duplicate is silent, unless a process died or another
\* tenant's entry has taken its id (forge/agent.py, ledger/agent.py).
SaleIsAnnounced ==
    \A o \in {o \in Orders : Sellable(o)} :
        o \in delivered ~>
            \/ posted(o)
            \/ crashes > 0
            \/ \E h \in heads : h.id = ledger_entry_id(o) /\ h.tenant # o.tenant

-----------------------------------------------------------------------------
(* What the repository says and the code does not do: SaleClash.cfg,       *)
(* SaleMemo.cfg.                                                           *)

\* ledger/agent.py on a duplicate, "At-least-once delivery replayed an already-posted
\* entry -- ignore": what is discarded is in its own tenant's books.
DuplicateIsOwn ==
    [][\A w \in Worker :
          wpc[w] = "insert" /\ wpc'[w] = "idle" =>
              \E h \in heads : h.id = msg[w].id /\ h.tenant = msg[w].tenant]_vars

\* forge/agent.py, "a completed work order in Forge becomes a posted journal entry in
\* Ledger": once forge.completed is in the log the entry is posted, if no process dies.
CompletionIsPosted ==
    \A o \in Orders :
        fact("forge.completed", o.tenant, o.id) \in DOMAIN log ~> posted(o) \/ crashes > 0
=============================================================================
