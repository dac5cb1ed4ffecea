----------------------------- MODULE EventChain -----------------------------
(***************************************************************************)
(* The hash-chained event_log table (shared/events.py, shared/audit.py,    *)
(* migration 0004): several agent processes run record_event at once, each *)
(* in a Postgres transaction of its own -- take the advisory lock, read the*)
(* tip, insert, commit -- and any of them may die or fail before it commits*)
(*                                                                         *)
(* A hash is modelled by what it stands for, collisions aside: chain_hash  *)
(* of a previous hash and an event is the sequence of events it covers.    *)
(* The rows the transactions see are the committed ones (READ COMMITTED);  *)
(* the row a transaction has inserted joins them when it commits.          *)
(***************************************************************************)
EXTENDS Naturals, Sequences

CONSTANTS Writer,       \* processes with a PostgresEventStore
          EventId,      \* ids of the events they record
          None,         \* NULL: no hash, no lock holder, no event
          Legacy,       \* rows from before migration 0004, chain_hash NULL
          FirstSeq,     \* the identity column's next value at the start
          MaxAttempts   \* bound: calls of record_event

VARIABLES rows,     \* committed rows of event_log
          nextSeq,  \* next value of the identity column seq
          holder,   \* transaction holding the advisory lock
          pc, ev,   \* each writer's next statement and event
          prev,     \* the tip each writer has read
          staged,   \* rows inserted by each writer, not yet committed
          attempts

vars == <<rows, nextSeq, holder, pc, ev, prev, staged, attempts>>

Hash == Seq(EventId)
Row == [seq : Nat, id : EventId, hash : Hash \cup {None}]

ASSUME NoneNotHash == None \notin Hash \cup Writer
ASSUME LegacyAssumption ==
    /\ FirstSeq \in Nat /\ MaxAttempts \in Nat
    /\ Legacy \subseteq [seq : Nat, id : EventId, hash : {None}]
    /\ \A r \in Legacy : r.seq < FirstSeq
    /\ \A r, s \in Legacy : r.seq = s.seq \/ r.id = s.id => r = s

-----------------------------------------------------------------------------
(* shared/audit.py                                                         *)

GENESIS_HASH == <<>>

\* Mutant of chain_hash: the previous hash is not part of the material.
chain_hash_unlinked(previous, e) == <<e>>

chain_hash(previous, e) == Append(previous, e)

\* Rows of the chain era, and the hash an ORDER BY seq DESC LIMIT 1 finds.
chained(rs) == {r \in rs : r.hash # None}
last_hash(rs) == IF rs = {} THEN GENESIS_HASH
                 ELSE (CHOOSE r \in rs : \A s \in rs : s.seq <= r.seq).hash

\* verify_chain reports each row whose recorded hash does not follow from the
\* recorded hash of the row before it.
preceding(rs, r) == {s \in chained(rs) : s.seq < r.seq}
verify_chain(rs) ==
    {r \in chained(rs) : r.hash # chain_hash(last_hash(preceding(rs, r)), r.id)}

-----------------------------------------------------------------------------
TypeOK ==
    /\ rows \in SUBSET Row
    /\ nextSeq \in Nat
    /\ holder \in Writer \cup {None}
    /\ pc \in [Writer -> {"idle", "lock", "tip", "insert", "commit"}]
    /\ ev \in [Writer -> EventId \cup {None}]
    /\ prev \in [Writer -> Hash]
    /\ staged \in [Writer -> SUBSET Row]
    /\ attempts \in 0..MaxAttempts

Init ==
    /\ rows = Legacy
    /\ nextSeq = FirstSeq
    /\ holder = None
    /\ pc = [w \in Writer |-> "idle"]
    /\ ev = [w \in Writer |-> None]
    /\ prev = [w \in Writer |-> GENESIS_HASH]
    /\ staged = [w \in Writer |-> {}]
    /\ attempts = 0

-----------------------------------------------------------------------------
(* PostgresEventStore.record_event                                         *)

\* A call, of a new event or of one recorded before (a redelivery).
RecordEvent(w, e) ==
    /\ pc[w] = "idle"
    /\ attempts < MaxAttempts
    /\ attempts' = attempts + 1
    /\ ev' = [ev EXCEPT ![w] = e]
    /\ pc' = [pc EXCEPT ![w] = "lock"]
    /\ UNCHANGED <<rows, nextSeq, holder, prev, staged>>

\* Mutant of TakeLock: the advisory lock is not taken.
TakeLock_none(w) ==
    /\ pc[w] = "lock"
    /\ pc' = [pc EXCEPT ![w] = "tip"]
    /\ UNCHANGED <<rows, nextSeq, holder, ev, prev, staged, attempts>>

\* SELECT pg_advisory_xact_lock: waits for the transaction that holds it.
TakeLock(w) ==
    /\ pc[w] = "lock"
    /\ holder = None
    /\ holder' = w
    /\ pc' = [pc EXCEPT ![w] = "tip"]
    /\ UNCHANGED <<rows, nextSeq, ev, prev, staged, attempts>>

\* The chain_hash of the newest row that has one, or the genesis hash.
ReadTip(w) ==
    /\ pc[w] = "tip"
    /\ prev' = [prev EXCEPT ![w] = last_hash(chained(rows))]
    /\ pc' = [pc EXCEPT ![w] = "insert"]
    /\ UNCHANGED <<rows, nextSeq, holder, ev, staged, attempts>>

\* INSERT ... ON CONFLICT (id) DO NOTHING: a sequence value is drawn either way.
InsertRow(w) ==
    /\ pc[w] = "insert"
    /\ nextSeq' = nextSeq + 1
    /\ staged' = [staged EXCEPT ![w] =
           IF \E r \in rows : r.id = ev[w] THEN {}
           ELSE {[seq |-> nextSeq, id |-> ev[w],
                  hash |-> chain_hash(prev[w], ev[w])]}]
    /\ pc' = [pc EXCEPT ![w] = "commit"]
    /\ UNCHANGED <<rows, holder, ev, prev, attempts>>

\* End of the transaction: the lock goes with it.
EndTransaction(w) ==
    /\ holder' = IF holder = w THEN None ELSE holder
    /\ pc' = [pc EXCEPT ![w] = "idle"]
    /\ ev' = [ev EXCEPT ![w] = None]
    /\ prev' = [prev EXCEPT ![w] = GENESIS_HASH]
    /\ staged' = [staged EXCEPT ![w] = {}]
    /\ UNCHANGED <<nextSeq, attempts>>

Commit(w) ==
    /\ pc[w] = "commit"
    /\ rows' = rows \cup staged[w]
    /\ EndTransaction(w)

\* Mutant of Rollback: a session-level lock, which an abort does not release.
Rollback_keeps_lock(w) ==
    /\ pc[w] # "idle"
    /\ pc' = [pc EXCEPT ![w] = "idle"]
    /\ ev' = [ev EXCEPT ![w] = None]
    /\ prev' = [prev EXCEPT ![w] = GENESIS_HASH]
    /\ staged' = [staged EXCEPT ![w] = {}]
    /\ UNCHANGED <<rows, nextSeq, holder, attempts>>

\* The process dies or a statement fails before the commit.
Rollback(w) ==
    /\ pc[w] # "idle"
    /\ EndTransaction(w)
    /\ UNCHANGED rows

-----------------------------------------------------------------------------
Step(w) == ReadTip(w) \/ InsertRow(w) \/ Commit(w)

\* Nothing more to record (the bound on calls): not a deadlock.
Quiescent == /\ attempts = MaxAttempts
             /\ \A w \in Writer : pc[w] = "idle"
             /\ UNCHANGED vars

Next == \/ \E w \in Writer : \/ \E e \in EventId : RecordEvent(w, e)
                             \/ TakeLock(w)
                             \/ Step(w)
                             \/ Rollback(w)
        \/ Quiescent

Spec == Init /\ [][Next]_vars

-----------------------------------------------------------------------------
\* The chain never forks: at every moment -- whatever writers are in flight, have
\* crashed or have repeated an event -- audit_export --verify finds no break.
ChainIntact == verify_chain(rows) = {}

\* An event is recorded at most once, redelivered or raced (ON CONFLICT (id)).
RecordedOnce == \A r, s \in rows : r.id = s.id => r = s

\* Rows are never changed and only ever added after every row the table has, so
\* the order of seq is the order of the commits (the lock covers both).
AppendOnly == [][/\ rows \subseteq rows'
                 /\ \A n \in rows' \ rows : \A r \in rows : r.seq < n.seq]_rows

\* The chain covers what migration 0004 says: changing any chained row's event, or
\* removing one that is not the last, makes verify_chain report it.
ChangeIsReported ==
    \A r \in chained(rows) :
        /\ \A e \in EventId \ {r.id} :
               verify_chain((rows \ {r}) \cup {[r EXCEPT !.id = e]}) # {}
        /\ (\E s \in chained(rows) : r.seq < s.seq) => verify_chain(rows \ {r}) # {}

\* The table implements an atomic, duplicate-free, append-only log; the log is what
\* the hash at the tip covers (record_event as its callers see it).
Audit == INSTANCE AuditLog WITH entries <- last_hash(chained(rows))
ImplementsAuditLog == Audit!Spec

-----------------------------------------------------------------------------
(* Postgres queues the waiters of a lock, so a waiter whose lock keeps     *)
(* being freed gets it: strong fairness.  Processes keep running.          *)
LiveSpec == /\ Spec
            /\ \A w \in Writer : WF_vars(Step(w)) /\ SF_vars(TakeLock(w))

\* No call of record_event waits for ever behind another agent's transaction, even
\* if agents die holding the lock.
RecordTerminates == \A w \in Writer : pc[w] # "idle" ~> pc[w] = "idle"
=============================================================================
