--------------------------- MODULE PostgresProofs ---------------------------
(***************************************************************************)
(* What Postgres holds.  The audit chain (EventChain), proved for any      *)
(* number of agents, events and calls; and the job that brings its schema  *)
(* up to date (Migrate), proved for any number of runners, releases, runs  *)
(* and deaths.                                                             *)
(***************************************************************************)
EXTENDS EventChain, Migrate, WellFoundedInduction, TLAPS

Locked(w) == pc[w] \in {"tip", "insert", "commit"}

\* One transaction at a time between taking the lock and ending.
LockInv == \A w \in Writer : /\ Locked(w) => holder = w
                             /\ pc[w] # "idle" => ev[w] \in EventId

\* The newest chained row exists, so the tip query has an answer; every row has a
\* sequence number below the next one; a hash covers recorded events only.
TipInv ==
    /\ chained(rows) # {} =>
           \E r \in chained(rows) : \A s \in chained(rows) : s.seq <= r.seq
    /\ \A r \in rows : r.seq < nextSeq
    /\ \A r \in chained(rows) :
           \A i \in DOMAIN r.hash : \E s \in rows : s.id = r.hash[i]

\* A row that may be committed next: newer than all, not recorded yet, and chained
\* to the tip.
Extends(n) ==
    /\ n \in Row /\ n.hash \in Hash
    /\ n.seq < nextSeq
    /\ n.hash = chain_hash(last_hash(chained(rows)), n.id)
    /\ \A r \in rows : r.seq < n.seq /\ r.id # n.id

\* What a writer holding the lock has read and staged is still true.
FreshInv ==
    \A w \in Writer :
        /\ pc[w] = "insert" => prev[w] = last_hash(chained(rows))
        /\ pc[w] # "commit" => staged[w] = {}
        /\ staged[w] = {} \/ \E n \in Row : staged[w] = {n} /\ Extends(n)

ChainInv == /\ TypeOK /\ LockInv /\ TipInv /\ FreshInv
            /\ ChainIntact /\ RecordedOnce

-----------------------------------------------------------------------------
\* The tip query returns a hash.
LEMMA TipIsHash ==
    ASSUME TypeOK, TipInv PROVE last_hash(chained(rows)) \in Hash
<1>1. CASE chained(rows) = {}
  BY <1>1 DEF last_hash, GENESIS_HASH, Hash
<1>2. CASE chained(rows) # {}
  <2> DEFINE t == CHOOSE r \in chained(rows) : \A s \in chained(rows) : s.seq <= r.seq
  <2>1. t \in chained(rows)
    BY <1>2 DEF TipInv
  <2>2. t.hash \in Hash
    BY <2>1 DEF chained, TypeOK, Row
  <2> QED BY <1>2, <2>2 DEF last_hash
<1> QED BY <1>1, <1>2

\* The tip's hash covers recorded events only.
LEMMA TipCovers ==
    ASSUME TipInv
    PROVE  \A i \in DOMAIN last_hash(chained(rows)) :
              \E s \in rows : s.id = last_hash(chained(rows))[i]
<1>1. CASE chained(rows) = {}
  BY <1>1 DEF last_hash, GENESIS_HASH
<1>2. CASE chained(rows) # {}
  <2> DEFINE t == CHOOSE r \in chained(rows) : \A s \in chained(rows) : s.seq <= r.seq
  <2>1. t \in chained(rows)
    BY <1>2 DEF TipInv
  <2>2. last_hash(chained(rows)) = t.hash
    BY <1>2 DEF last_hash
  <2> HIDE DEF t
  <2> QED BY <2>1, <2>2 DEF TipInv
<1> QED BY <1>1, <1>2

\* Committing a row that extends the chain: what precedes the old rows is as before,
\* what precedes the new one is the whole chain, and the new one is the tip.
LEMMA Extension ==
    ASSUME TypeOK, NEW n, Extends(n), rows' = rows \cup {n}
    PROVE  /\ chained(rows') = chained(rows) \cup {n}
           /\ \A r \in rows : preceding(rows', r) = preceding(rows, r)
           /\ preceding(rows', n) = chained(rows)
           /\ last_hash(chained(rows')) = n.hash
<1>1. n.hash # None /\ n.seq \in Nat /\ \A r \in rows : r.seq \in Nat /\ r.seq < n.seq
  BY NoneNotHash DEF Extends, TypeOK, Row
<1>2. chained(rows') = chained(rows) \cup {n}
  BY <1>1 DEF chained
<1>3. \A r \in rows : preceding(rows', r) = preceding(rows, r)
  BY <1>1, <1>2 DEF preceding, chained
<1>4. preceding(rows', n) = chained(rows)
  BY <1>1, <1>2 DEF preceding, chained
<1>5. last_hash(chained(rows')) = n.hash
  <2> DEFINE Top(r) == \A s \in chained(rows') : s.seq <= r.seq
  <2>1. n \in chained(rows') /\ Top(n)
    BY <1>1, <1>2 DEF chained
  <2>2. \A r \in chained(rows') : Top(r) => r = n
    BY <1>1, <1>2, <2>1 DEF chained
  <2>3. (CHOOSE r \in chained(rows') : Top(r)) = n
    BY <2>1, <2>2
  <2> QED BY <2>1, <2>3 DEF last_hash
<1> QED BY <1>2, <1>3, <1>4, <1>5

-----------------------------------------------------------------------------
\* A table of legacy rows and idle writers satisfies the chain's inductive invariant.
LEMMA ChainInit == Init => ChainInv
<1> SUFFICES ASSUME Init PROVE ChainInv
  OBVIOUS
<1>1. chained(rows) = {}
  BY LegacyAssumption DEF Init, chained
<1>2. TypeOK
  <2>1. rows \in SUBSET Row
    BY LegacyAssumption DEF Init, Row
  <2>2. GENESIS_HASH \in Hash
    BY DEF GENESIS_HASH, Hash
  <2> QED BY <2>1, <2>2, LegacyAssumption DEF Init, TypeOK
<1>3. LockInv /\ FreshInv
  BY DEF Init, LockInv, Locked, FreshInv
<1>4. TipInv
  BY <1>1, LegacyAssumption DEF Init, TipInv
<1>5. ChainIntact
  BY <1>1 DEF ChainIntact, verify_chain
<1>6. RecordedOnce
  BY LegacyAssumption DEF Init, RecordedOnce
<1> QED BY <1>2, <1>3, <1>4, <1>5, <1>6 DEF ChainInv

\* A step that leaves the table and the identity column alone.
LEMMA TableQuiet ==
    ASSUME ChainInv, UNCHANGED rows, nextSeq' = nextSeq
    PROVE  TipInv' /\ ChainIntact' /\ RecordedOnce' /\ (\A n : Extends(n)' <=> Extends(n))
  BY DEF ChainInv, TipInv, ChainIntact, RecordedOnce, Extends

\* Every statement of every transaction keeps the chain's inductive invariant.
LEMMA ChainNext == ChainInv /\ [Next]_vars => ChainInv'
<1> SUFFICES ASSUME ChainInv, [Next]_vars PROVE ChainInv'
  OBVIOUS
<1> USE DEF ChainInv
<1>1. ASSUME NEW w \in Writer, NEW e \in EventId, RecordEvent(w, e) PROVE ChainInv'
  <2>1. TypeOK'
    BY <1>1, LegacyAssumption DEF RecordEvent, TypeOK
  <2>2. LockInv' /\ FreshInv'
    BY <1>1, TableQuiet DEF RecordEvent, TypeOK, LockInv, Locked, FreshInv
  <2> QED BY <1>1, <2>1, <2>2, TableQuiet DEF RecordEvent
<1>2. ASSUME NEW w \in Writer, TakeLock(w) PROVE ChainInv'
  <2>1. TypeOK'
    BY <1>2 DEF TakeLock, TypeOK
  <2>2. LockInv'
    BY <1>2, NoneNotHash DEF TakeLock, TypeOK, LockInv, Locked
  <2>3. FreshInv'
    BY <1>2, TableQuiet DEF TakeLock, TypeOK, FreshInv
  <2> QED BY <1>2, <2>1, <2>2, <2>3, TableQuiet DEF TakeLock
<1>3. ASSUME NEW w \in Writer, ReadTip(w) PROVE ChainInv'
  <2>1. TypeOK'
    BY <1>3, TipIsHash DEF ReadTip, TypeOK
  <2>2. LockInv' /\ FreshInv'
    BY <1>3, TableQuiet DEF ReadTip, TypeOK, LockInv, Locked, FreshInv
  <2> QED BY <1>3, <2>1, <2>2, TableQuiet DEF ReadTip
<1>4. ASSUME NEW w \in Writer, InsertRow(w) PROVE ChainInv'
  <2>0. PICK n : n = [seq |-> nextSeq, id |-> ev[w],
                      hash |-> chain_hash(prev[w], ev[w])]
    OBVIOUS
  <2>1. /\ pc[w] = "insert" /\ ev[w] \in EventId /\ holder = w
        /\ prev[w] \in Hash /\ prev[w] = last_hash(chained(rows))
        /\ nextSeq \in Nat /\ nextSeq' = nextSeq + 1
        /\ UNCHANGED <<rows, holder, ev, prev, attempts>>
        /\ pc' = [pc EXCEPT ![w] = "commit"]
    BY <1>4 DEF InsertRow, LockInv, Locked, FreshInv, TypeOK
  <2>2. n \in Row /\ n.hash \in Hash
    BY <2>0, <2>1 DEF Row, Hash, chain_hash
  <2>3. /\ n.seq = nextSeq /\ n.id = ev[w]
        /\ n.hash = chain_hash(prev[w], ev[w])
    BY <2>0
  <2>4. staged' = [staged EXCEPT ![w] =
                      IF \E r \in rows : r.id = ev[w] THEN {} ELSE {n}]
    BY <1>4, <2>0 DEF InsertRow
  <2>5. TypeOK'
    BY <2>1, <2>2, <2>4 DEF TypeOK
  <2>6. LockInv'
    BY <2>1 DEF LockInv, Locked, TypeOK
  <2>7. TipInv'
    BY <2>1 DEF TipInv, TypeOK, Row
  <2>8. ASSUME NEW m, Extends(m) PROVE Extends(m)'
    <3>1. m.seq \in Nat
      BY <2>8 DEF Extends, Row
    <3> QED BY <2>1, <2>8, <3>1 DEF Extends
  <2>9. (~ \E r \in rows : r.id = ev[w]) => Extends(n)'
    <3>1. ASSUME ~ \E r \in rows : r.id = ev[w] PROVE Extends(n)'
      <4>1. n \in Row /\ n.hash \in Hash /\ n.seq < nextSeq'
        BY <2>1, <2>2, <2>3
      <4>2. n.hash = chain_hash(last_hash(chained(rows')), n.id)
        BY <2>1, <2>3
      <4>3. \A r \in rows' : r.seq < n.seq /\ r.id # n.id
        BY <2>1, <2>3, <3>1 DEF TipInv
      <4> QED BY <4>1, <4>2, <4>3 DEF Extends
    <3> QED BY <3>1
  <2>10. FreshInv'
    <3> SUFFICES ASSUME NEW v \in Writer
                 PROVE  /\ pc'[v] = "insert" => prev'[v] = last_hash(chained(rows'))
                        /\ pc'[v] # "commit" => staged'[v] = {}
                        /\ staged'[v] = {} \/
                              \E m \in Row : staged'[v] = {m} /\ Extends(m)'
      BY DEF FreshInv
    <3>1. CASE v = w
      BY <3>1, <2>1, <2>2, <2>4, <2>9 DEF TypeOK
    <3>2. CASE v # w
      BY <3>2, <2>1, <2>4, <2>8 DEF TypeOK, FreshInv
    <3> QED BY <3>1, <3>2
  <2>11. ChainIntact' /\ RecordedOnce'
    BY <2>1 DEF ChainIntact, RecordedOnce
  <2> QED BY <2>5, <2>6, <2>7, <2>10, <2>11
<1>5. ASSUME NEW w \in Writer, EndTransaction(w), pc[w] # "idle",
             rows' = rows \/ Locked(w),
             rows' \in SUBSET Row
      PROVE  TypeOK' /\ LockInv' /\
             \A v \in Writer : /\ staged'[v] = IF v = w THEN {} ELSE staged[v]
                               /\ pc'[v] = IF v = w THEN "idle" ELSE pc[v]
                               /\ v # w => prev'[v] = prev[v]
  <2>1. GENESIS_HASH \in Hash
    BY DEF GENESIS_HASH, Hash
  <2>2. TypeOK'
    BY <1>5, <2>1 DEF EndTransaction, TypeOK
  <2>3. LockInv'
    BY <1>5, NoneNotHash DEF EndTransaction, LockInv, Locked, TypeOK
  <2> QED BY <1>5, <2>2, <2>3 DEF EndTransaction, TypeOK
<1>6. ASSUME NEW w \in Writer, Rollback(w) PROVE ChainInv'
  <2>1. EndTransaction(w) /\ pc[w] # "idle" /\ rows' = rows /\ nextSeq' = nextSeq
    BY <1>6 DEF Rollback, EndTransaction
  <2>2. rows' \in SUBSET Row
    BY <2>1 DEF TypeOK
  <2>3. FreshInv'
    BY <2>1, <2>2, <1>5, TableQuiet DEF FreshInv
  <2> QED BY <2>1, <2>2, <2>3, <1>5, TableQuiet
<1>7. ASSUME NEW w \in Writer, Commit(w) PROVE ChainInv'
  <2>1. /\ EndTransaction(w) /\ pc[w] = "commit" /\ Locked(w)
        /\ rows' = rows \cup staged[w] /\ nextSeq' = nextSeq
    BY <1>7 DEF Commit, EndTransaction, Locked
  <2>2. rows' \in SUBSET Row
    BY <2>1 DEF TypeOK
  <2>3. \A v \in Writer : v # w => ~Locked(v)
    BY <2>1 DEF LockInv
  <2>4. FreshInv'
    <3> SUFFICES ASSUME NEW v \in Writer
                 PROVE  pc'[v] \notin {"insert", "commit"} /\ staged'[v] = {}
      BY DEF FreshInv
    <3> QED BY <2>1, <2>2, <2>3, <1>5 DEF FreshInv, Locked
  <2>5. CASE staged[w] = {}
    BY <2>1, <2>2, <2>4, <2>5, <1>5, TableQuiet
  <2>6. CASE staged[w] # {}
    <3>1. PICK n \in Row : staged[w] = {n} /\ Extends(n)
      BY <2>6 DEF FreshInv
    <3>2. rows' = rows \cup {n}
      BY <2>1, <3>1
    <3>3. /\ chained(rows') = chained(rows) \cup {n}
          /\ \A r \in rows : preceding(rows', r) = preceding(rows, r)
          /\ preceding(rows', n) = chained(rows)
          /\ last_hash(chained(rows')) = n.hash
      BY <3>1, <3>2, Extension
    <3>4. RecordedOnce'
      BY <3>1, <3>2 DEF RecordedOnce, Extends
    <3>5. ChainIntact'
      <4> SUFFICES ASSUME NEW r \in chained(rows')
                   PROVE  r.hash = chain_hash(last_hash(preceding(rows', r)), r.id)
        BY DEF ChainIntact, verify_chain
      <4>1. CASE r = n
        BY <4>1, <3>1, <3>3 DEF Extends
      <4>2. CASE r \in chained(rows)
        <5>1. r \in rows
          BY <4>2 DEF chained
        <5> QED BY <4>2, <5>1, <3>3 DEF ChainIntact, verify_chain
      <4> QED BY <4>1, <4>2, <3>3
    <3>6. TipInv'
      <4>1. /\ n \in chained(rows') /\ n.seq \in Nat
            /\ \A s \in chained(rows') : s.seq <= n.seq
        <5>1. \A s \in rows : s.seq \in Nat /\ s.seq < n.seq
          BY <3>1 DEF Extends, TypeOK, Row
        <5> QED BY <5>1, <3>1, <3>3 DEF chained, Row
      <4>2. \A r \in rows' : r.seq < nextSeq'
        BY <2>1, <3>1, <3>2 DEF TipInv, Extends
      <4>3. \A i \in DOMAIN n.hash : \E s \in rows' : s.id = n.hash[i]
        <5> DEFINE p == last_hash(chained(rows))
        <5>1. p \in Seq(EventId) /\ n.id \in EventId /\ n.hash = Append(p, n.id)
          BY <3>1, TipIsHash DEF Extends, Row, Hash, chain_hash
        <5>2. \A i \in DOMAIN p : \E s \in rows : s.id = p[i]
          BY TipCovers
        <5> HIDE DEF p
        <5>3. \A i \in DOMAIN n.hash : \/ i \in DOMAIN p /\ n.hash[i] = p[i]
                                      \/ n.hash[i] = n.id
          BY <5>1
        <5> QED BY <5>2, <5>3, <3>2
      <4>4. \A r \in chained(rows) :
               \A i \in DOMAIN r.hash : \E s \in rows' : s.id = r.hash[i]
        BY <3>2 DEF TipInv
      <4> QED BY <4>1, <4>2, <4>3, <4>4, <3>3 DEF TipInv
    <3> QED BY <2>1, <2>2, <2>4, <3>4, <3>5, <3>6, <1>5
  <2> QED BY <2>5, <2>6
<1>8. CASE UNCHANGED vars
  BY <1>8, TableQuiet DEF vars, TypeOK, LockInv, Locked, FreshInv
<1> QED BY <1>1, <1>2, <1>3, <1>4, <1>6, <1>7, <1>8 DEF Next, Step, Quiescent

\* The chain's inductive invariant holds throughout (record_event).
LEMMA ChainInvariant == Spec => []ChainInv
  BY ChainInit, ChainNext, PTL DEF Spec

\* Every variable keeps its type.
THEOREM TypeCorrect == Spec => []TypeOK
<1>1. ChainInv => TypeOK
  BY DEF ChainInv
<1> QED BY <1>1, ChainInvariant, PTL

\* The chain never forks, with any number of agents recording at once and dying
\* anywhere (shared/events.py record_event, shared/audit.py verify_chain).
THEOREM ChainNeverForks == Spec => []ChainIntact
<1>1. ChainInv => ChainIntact
  BY DEF ChainInv
<1> QED BY <1>1, ChainInvariant, PTL

\* An event is recorded at most once (ON CONFLICT (id) DO NOTHING).
THEOREM NoDoubleRecord == Spec => []RecordedOnce
<1>1. ChainInv => RecordedOnce
  BY DEF ChainInv
<1> QED BY <1>1, ChainInvariant, PTL

-----------------------------------------------------------------------------
(* Only a commit changes the table, and it adds one row that extends it.   *)

\* A step leaves the committed rows as they are or adds the row a transaction staged.
LEMMA OnlyExtended ==
    ChainInv /\ [Next]_vars =>
        rows' = rows \/ \E n \in Row : Extends(n) /\ rows' = rows \cup {n}
<1> SUFFICES ASSUME ChainInv, [Next]_vars, rows' # rows
             PROVE  \E n \in Row : Extends(n) /\ rows' = rows \cup {n}
  OBVIOUS
<1>1. PICK w \in Writer : Commit(w)
  BY DEF Next, vars, Step, Quiescent, RecordEvent, TakeLock, ReadTip, InsertRow, Rollback
<1>2. rows' = rows \cup staged[w]
  BY <1>1 DEF Commit
<1>3. staged[w] # {}
  BY <1>2
<1> QED BY <1>2, <1>3 DEF ChainInv, FreshInv

\* The table only grows at its end: seq is the order of the commits, so a reader who
\* has seen a row never finds an older one appear (the lock covers both).
THEOREM GrowsAtTheEnd == Spec => AppendOnly
<1>1. ChainInv /\ [Next]_vars =>
          [/\ rows \subseteq rows'
           /\ \A n \in rows' \ rows : \A r \in rows : r.seq < n.seq]_rows
  BY OnlyExtended DEF Extends
<1> QED BY <1>1, ChainInvariant, PTL DEF Spec, AppendOnly

\* The table implements the abstract log its callers are promised (shared/events.py).
THEOREM ChainRefinesLog == Spec => ImplementsAuditLog
<1>1. Init => Audit!Init
  <2> SUFFICES ASSUME Init PROVE last_hash(chained(rows)) = <<>>
    BY DEF Audit!Init
  <2>1. chained(rows) = {}
    BY LegacyAssumption DEF Init, chained
  <2> QED BY <2>1 DEF last_hash, GENESIS_HASH
<1>2. ChainInv /\ [Next]_vars => [Audit!Next]_(last_hash(chained(rows)))
  <2> SUFFICES ASSUME ChainInv, [Next]_vars, rows' # rows PROVE Audit!Next
    OBVIOUS
  <2>1. PICK n \in Row : Extends(n) /\ rows' = rows \cup {n}
    BY OnlyExtended
  <2>2. last_hash(chained(rows')) = Append(last_hash(chained(rows)), n.id)
    BY <2>1, Extension DEF ChainInv, Extends, chain_hash
  <2>3. n.id \in EventId
    BY DEF Row
  <2>4. n.id \notin Audit!Recorded
    <3> DEFINE p == last_hash(chained(rows))
    <3>1. \A i \in DOMAIN p : \E s \in rows : s.id = p[i]
      BY TipCovers DEF ChainInv
    <3> QED BY <2>1, <3>1 DEF Extends, Audit!Recorded
  <2> QED BY <2>2, <2>3, <2>4 DEF Audit!Next, Audit!Record
<1> QED BY <1>1, <1>2, ChainInvariant, PTL DEF Spec, ImplementsAuditLog, Audit!Spec
-----------------------------------------------------------------------------
(* What the chain covers: a change of a row, or its loss, shows.           *)

\* Row t is the newest of rs.
Newest(t, rs) == t \in rs /\ \A q \in rs : q.seq <= t.seq

\* The rows form a list: no two share a number, each chained row has a newest one before
\* it unless it is the first, and one right after it unless it is the last.
Listed ==
    /\ \A r, s \in rows : r.seq = s.seq => r = s
    /\ \A r \in chained(rows) :
           preceding(rows, r) # {} =>
               \E t \in preceding(rows, r) : Newest(t, preceding(rows, r))
    /\ \A r, s \in chained(rows) : r.seq < s.seq =>
           \E next \in chained(rows) : Newest(r, preceding(rows, next))

ListInv == ChainInv /\ Listed

\* The newest row of a set whose numbers differ gives the set's last hash.
LEMMA LastIsNewest ==
    ASSUME Listed, TypeOK, NEW rs \in SUBSET rows, NEW t, Newest(t, rs)
    PROVE  last_hash(rs) = t.hash
<1>1. \A q \in rs : (\A s \in rs : s.seq <= q.seq) => q = t
  BY DEF Newest, Listed, TypeOK, Row
<1>2. (CHOOSE q \in rs : \A s \in rs : s.seq <= q.seq) = t
  BY <1>1 DEF Newest
<1> QED BY <1>2 DEF last_hash, Newest

\* What a chained row was linked to is a hash.
LEMMA LinkIsHash ==
    ASSUME ListInv, NEW r \in chained(rows)
    PROVE  last_hash(preceding(rows, r)) \in Hash
<1>1. CASE preceding(rows, r) = {}
  BY <1>1 DEF last_hash, GENESIS_HASH, Hash
<1>2. CASE preceding(rows, r) # {}
  <2>1. PICK t \in preceding(rows, r) : Newest(t, preceding(rows, r))
    BY <1>2 DEF ListInv, Listed
  <2>2. last_hash(preceding(rows, r)) = t.hash
    BY <2>1, LastIsNewest DEF ListInv, ChainInv, preceding, chained
  <2>3. t.hash \in Hash
    BY DEF ListInv, ChainInv, TypeOK, Row, preceding, chained
  <2> QED BY <2>2, <2>3
<1> QED BY <1>1, <1>2

\* Committing a row at the end keeps the rows a list.
LEMMA ListNext == ListInv /\ [Next]_vars => ListInv'
<1> SUFFICES ASSUME ListInv, [Next]_vars PROVE ListInv'
  OBVIOUS
<1>1. ChainInv /\ ChainInv'
  BY ChainNext DEF ListInv
<1>2. CASE rows' = rows
  BY <1>1, <1>2 DEF ListInv, Listed, chained, preceding, Newest
<1>3. ASSUME NEW n \in Row, Extends(n), rows' = rows \cup {n} PROVE ListInv'
  <2>1. /\ chained(rows') = chained(rows) \cup {n}
        /\ \A r \in rows : preceding(rows', r) = preceding(rows, r)
        /\ preceding(rows', n) = chained(rows)
    BY <1>1, <1>3, Extension DEF ChainInv
  <2>2. /\ n.seq \in Nat /\ \A r \in rows : r.seq \in Nat /\ r.seq < n.seq
        /\ chained(rows) \subseteq rows
    BY <1>1, <1>3 DEF ChainInv, TypeOK, Row, Extends, chained
  <2>3. \A r, s \in rows' : r.seq = s.seq => r = s
    BY <1>3, <2>2 DEF ListInv, Listed
  <2>4. chained(rows) # {} => \E t \in chained(rows) : Newest(t, chained(rows))
    BY <1>1 DEF ChainInv, TipInv, Newest
  <2>5. \A r \in chained(rows') : preceding(rows', r) # {} =>
            \E t \in preceding(rows', r) : Newest(t, preceding(rows', r))
    BY <2>1, <2>2, <2>4 DEF ListInv, Listed
  <2>6. ASSUME NEW r \in chained(rows'), NEW s \in chained(rows'), r.seq < s.seq
        PROVE  \E next \in chained(rows') : Newest(r, preceding(rows', next))
    <3>1. r \in chained(rows)
      BY <2>1, <2>2, <2>6
    <3>2. CASE \E q \in chained(rows) : r.seq < q.seq
      <4>1. PICK next \in chained(rows) : Newest(r, preceding(rows, next))
        BY <3>1, <3>2 DEF ListInv, Listed
      <4> QED BY <4>1, <2>1, <2>2
    <3>3. CASE ~\E q \in chained(rows) : r.seq < q.seq
      <4>1. Newest(r, chained(rows))
        BY <3>1, <3>3, <2>2 DEF Newest
      <4> QED BY <4>1, <2>1
    <3> QED BY <3>2, <3>3
  <2> QED BY <1>1, <2>3, <2>5, <2>6 DEF ListInv, Listed
<1> QED BY <1>1, <1>2, <1>3, OnlyExtended

\* A row whose event is changed no longer follows from the row before it.
LEMMA ChangedShows ==
    ASSUME ListInv, NEW r \in chained(rows), NEW e \in EventId \ {r.id}
    PROVE  verify_chain((rows \ {r}) \cup {[r EXCEPT !.id = e]}) # {}
<1> DEFINE q == [r EXCEPT !.id = e]
           rs == (rows \ {r}) \cup {q}
           h == last_hash(preceding(rows, r))
<1>1. /\ r \in rows /\ r \in Row /\ r.hash # None /\ r.hash = Append(h, r.id)
      /\ \A s \in rows : s.seq \in Nat
  BY DEF ListInv, ChainInv, TypeOK, ChainIntact, verify_chain, chained, chain_hash, Row
<1>2. q.seq = r.seq /\ q.hash = r.hash /\ q.id = e
  BY <1>1 DEF Row
<1> HIDE DEF q
<1>3. preceding(rs, q) = preceding(rows, r)
  BY <1>1, <1>2 DEF preceding, chained
<1>4. h \in Seq(EventId) /\ r.id \in EventId
  BY <1>1, LinkIsHash DEF Hash, Row
<1> HIDE DEF h
<1>5. Append(h, r.id) # Append(h, e)
  <2>1. Append(h, r.id)[Len(h) + 1] = r.id /\ Append(h, e)[Len(h) + 1] = e
    BY <1>4
  <2> QED BY <2>1
<1>6. q \in chained(rs) /\ q.hash # chain_hash(last_hash(preceding(rs, q)), q.id)
  BY <1>1, <1>2, <1>3, <1>5 DEF chained, chain_hash, h
<1>7. q \in verify_chain(rs)
  BY <1>6 DEF verify_chain
<1> QED BY <1>7 DEF q

\* When a row is lost, the row after it no longer follows from the row before it.
LEMMA LossShows ==
    ASSUME ListInv, NEW r \in chained(rows), NEW s \in chained(rows), r.seq < s.seq
    PROVE  verify_chain(rows \ {r}) # {}
<1> DEFINE h == last_hash(preceding(rows, r))
<1>1. PICK next \in chained(rows) : Newest(r, preceding(rows, next))
  BY DEF ListInv, Listed
<1>2. /\ \A q \in rows : q.seq \in Nat
      /\ r \in rows /\ next \in rows /\ r.seq < next.seq /\ r # next
  BY <1>1 DEF ListInv, ChainInv, TypeOK, Row, chained, Newest, preceding
<1>3. /\ r.hash = Append(h, r.id)
      /\ next.hash = Append(last_hash(preceding(rows, next)), next.id)
  BY DEF ListInv, ChainInv, ChainIntact, verify_chain, chain_hash
<1>4. last_hash(preceding(rows, next)) = r.hash
  BY <1>1, LastIsNewest DEF ListInv, ChainInv, preceding, chained
<1>5. preceding(rows \ {r}, next) = preceding(rows, r)
  <2>1. ASSUME NEW q \in chained(rows), q # r PROVE q.seq < next.seq <=> q.seq < r.seq
    <3>1. q \in rows /\ q.seq \in Nat /\ q.seq # r.seq
      BY <1>2, <2>1 DEF ListInv, Listed, chained
    <3>2. q.seq < next.seq => q.seq <= r.seq
      BY <1>1, <2>1 DEF Newest, preceding
    <3> QED BY <1>2, <3>1, <3>2
  <2> QED BY <1>2, <2>1 DEF preceding, chained
<1>6. h \in Seq(EventId) /\ r.id \in EventId /\ next.id \in EventId
  BY <1>2, LinkIsHash DEF Hash, Row, ListInv, ChainInv, TypeOK
<1> HIDE DEF h
<1>7. Append(Append(h, r.id), next.id) # Append(h, next.id)
  <2>1. /\ Append(h, r.id) \in Seq(EventId) /\ Len(Append(h, r.id)) = Len(h) + 1
        /\ Len(Append(h, next.id)) = Len(h) + 1 /\ Len(h) \in Nat
    BY <1>6
  <2>2. Len(Append(Append(h, r.id), next.id)) = Len(h) + 2
    BY <1>6, <2>1
  <2> QED BY <2>1, <2>2
<1>8. next \in chained(rows \ {r})
  BY <1>2 DEF chained
<1>9. next.hash # chain_hash(last_hash(preceding(rows \ {r}, next)), next.id)
  BY <1>3, <1>4, <1>5, <1>7 DEF chain_hash, h
<1> QED BY <1>8, <1>9 DEF verify_chain

\* audit_export --verify finds any chained event that was changed and any that was
\* removed, the last one excepted, at whatever length of the table (verify_chain).
THEOREM TamperingShows == Spec => []ChangeIsReported
<1>1. Init => ListInv
  <2> SUFFICES ASSUME Init PROVE ListInv
    OBVIOUS
  <2>1. chained(rows) = {}
    BY LegacyAssumption DEF Init, chained
  <2> QED BY <2>1, ChainInit, LegacyAssumption DEF Init, ListInv, Listed
<1>2. ListInv => ChangeIsReported
  BY ChangedShows, LossShows DEF ChangeIsReported
<1> QED BY <1>1, <1>2, ListNext, PTL DEF Spec

-----------------------------------------------------------------------------
(* The migration job.                                                      *)

\* Between an application and the next rollback the version is recorded.
CountInv == \A v \in Version : /\ ups[v] <= downs[v] + 1
                               /\ v \notin tracking => ups[v] <= downs[v]

\* What need not be applied for r: recorded, or reverted since its run began.
Settled(r) == tracking \cup undone[r]

\* How far a run has got: what it read as applied, and what its loop has passed.
Progress(r) ==
    /\ jobPc[r] = "read" => at[r] = 0
    /\ jobPc[r] \in {"next", "tx", "insert"} => done[r] \subseteq Settled(r)
    /\ jobPc[r] = "next" => \A v \in files[r] : v <= at[r] => v \in Settled(r)
    /\ jobPc[r] \in {"tx", "insert"} => \A v \in files[r] : v < at[r] => v \in Settled(r)
    /\ jobPc[r] \in {"bootstrap", "migrated"} => files[r] \subseteq Settled(r)
    /\ jobPc[r] = "migrated" => schemas[r] \subseteq registry

MigrateInv == /\ JobTypeOK /\ RecordedIsApplied /\ CountInv
              /\ \A r \in Runner : Progress(r)

-----------------------------------------------------------------------------
\* The loop's next migration is the first of those it has yet to come to.
LEMMA NextIsFirst ==
    ASSUME NEW r \in Runner, pending(r) # {}
    PROVE  /\ Min(pending(r)) \in pending(r)
           /\ \A v \in pending(r) : Min(pending(r)) <= v
<1>1. pending(r) \subseteq Nat
  BY MigrateAssumption DEF pending
<1> DEFINE Below == {p \in Nat \X Nat : p[1] < p[2]}
<1>2. IsWellFoundedOn(Below, Nat)
  BY NatLessThanWellFounded DEF OpToRel
<1>3. \E m \in pending(r) : \A v \in pending(r) : <<v, m>> \notin Below
  <2> HIDE DEF Below
  <2> QED BY <1>1, <1>2, WFMin
<1>4. PICK m \in pending(r) : \A v \in pending(r) : <<v, m>> \notin Below
  BY <1>3
<1>5. ASSUME NEW v \in pending(r) PROVE m <= v
  <2>1. v \in Nat /\ m \in Nat
    BY <1>1
  <2>2. ~(v < m)
    BY <1>4, <2>1
  <2> QED BY <2>1, <2>2
<1> QED BY <1>5 DEF Min

\* Versions are numbers, and so is a run's place among them.
LEMMA Numbers ==
    ASSUME JobTypeOK, NEW r \in Runner
    PROVE  files[r] \subseteq Nat /\ at[r] \in Nat
<1>1. Version \subseteq Nat /\ files[r] \subseteq Version
  BY MigrateAssumption
<1>2. at[r] \in Version \cup {0}
  BY DEF JobTypeOK
<1>3. \A x : x \in Version \cup {0} => x \in Nat
  BY <1>1
<1>4. files[r] \subseteq Nat
  BY <1>1
<1> QED BY <1>2, <1>3, <1>4, Zenon

\* Counting one more application or rollback keeps the counters natural numbers.
LEMMA CountOne ==
    ASSUME NEW f \in [Version -> Nat], NEW v \in Version
    PROVE  [f EXCEPT ![v] = @ + 1] \in [Version -> Nat]
<1>1. f[v] + 1 \in Nat
  OBVIOUS
<1> QED BY <1>1

\* Nothing settled for a run becomes unsettled but by a run of its own.
LEMMA SettledStays ==
    ASSUME NEW s \in Runner, Settled(s) \subseteq Settled(s)',
           registry \subseteq registry',
           UNCHANGED <<jobPc[s], done[s], at[s]>>, Progress(s)
    PROVE  Progress(s)'
BY DEF Progress

-----------------------------------------------------------------------------
\* Every action of the job keeps the types of its variables.
LEMMA TypeStep ==
    ASSUME JobTypeOK, [JobNext]_jobVars PROVE JobTypeOK'
<1> USE MigrateAssumption DEF JobTypeOK, Goto, Active, Ended, dbVars, history
<1>1. ASSUME NEW r \in Runner, NEW step \in {"read", "last"}, Start(r, step)
      PROVE  JobTypeOK'
  BY <1>1 DEF Start
<1>2. ASSUME NEW r \in Runner, ReadApplied(r) PROVE JobTypeOK'
  BY <1>2 DEF ReadApplied
<1>3. ASSUME NEW r \in Runner, NextMigration(r) PROVE JobTypeOK'
  <2>1. CASE pending(r) = {}
    BY <1>3, <2>1 DEF NextMigration
  <2>2. CASE pending(r) # {}
    <3>1. Min(pending(r)) \in Version /\ Min(pending(r)) # 0
      BY <2>2, NextIsFirst DEF pending
    <3> QED BY <1>3, <2>2, <3>1 DEF NextMigration
  <2> QED BY <2>1, <2>2
<1>4. ASSUME NEW r \in Runner, ExecuteUp(r) PROVE JobTypeOK'
  BY <1>4 DEF ExecuteUp
<1>5. ASSUME NEW r \in Runner, Insert(r) PROVE JobTypeOK'
  <2>1. at[r] \in Version
    BY <1>5 DEF Insert
  <2>2. CASE conflicts(r)
    BY <1>5, <2>2 DEF Insert
  <2>3. CASE ~conflicts(r)
    <3>1. ups' \in [Version -> Nat]
      BY <1>5, <2>1, <2>3, CountOne DEF Insert
    <3> QED BY <1>5, <2>1, <2>3, <3>1 DEF Insert
  <2> QED BY <2>2, <2>3
<1>6. ASSUME NEW r \in Runner, LoadSchemas(r) PROVE JobTypeOK'
  BY <1>6 DEF LoadSchemas
<1>7. ASSUME NEW r \in Runner, ReadLast(r) PROVE JobTypeOK'
  BY <1>7 DEF ReadLast
<1>8. ASSUME NEW r \in Runner, ExecuteDown(r) PROVE JobTypeOK'
  BY <1>8 DEF ExecuteDown
<1>9. ASSUME NEW r \in Runner, Delete(r) PROVE JobTypeOK'
  <2>1. at[r] \in Version
    BY <1>9 DEF Delete
  <2>2. undone' \in [Runner -> SUBSET Version]
    BY <1>9, <2>1 DEF Delete
  <2>3. downs' \in [Version -> Nat]
    BY <1>9, <2>1, CountOne DEF Delete
  <2> QED BY <1>9, <2>1, <2>2, <2>3 DEF Delete
<1>10. ASSUME NEW r \in Runner, Abort(r) PROVE JobTypeOK'
  BY <1>10 DEF Abort
<1>11. CASE UNCHANGED jobVars
  BY <1>11 DEF jobVars
<1> QED
  BY <1>1, <1>2, <1>3, <1>4, <1>5, <1>6, <1>7, <1>8, <1>9, <1>10, <1>11
     DEF JobNext, JobStep, JobQuiescent

\* Tracking table and schema change together, and applications and rollbacks of a
\* version alternate.
LEMMA RecordStep ==
    ASSUME JobTypeOK, RecordedIsApplied, CountInv, [JobNext]_jobVars
    PROVE  RecordedIsApplied' /\ CountInv'
<1> USE DEF RecordedIsApplied, CountInv, dbVars, history
<1>1. ASSUME NEW r \in Runner, Insert(r) PROVE RecordedIsApplied' /\ CountInv'
  <2>1. CASE conflicts(r)
    BY <1>1, <2>1 DEF Insert
  <2>2. CASE ~conflicts(r)
    <3>1. at[r] \in Version /\ at[r] \notin tracking
      BY <1>1, <2>2 DEF JobTypeOK, Insert, conflicts
    <3>2. /\ tracking' = tracking \cup {at[r]} /\ effect' = effect \cup {at[r]}
          /\ ups' = [ups EXCEPT ![at[r]] = @ + 1] /\ downs' = downs
      BY <1>1, <2>2 DEF Insert
    <3>3. CountInv'
      BY <3>1, <3>2 DEF JobTypeOK
    <3> QED BY <3>2, <3>3
  <2> QED BY <2>1, <2>2
<1>2. ASSUME NEW r \in Runner, Delete(r) PROVE RecordedIsApplied' /\ CountInv'
  <2>1. at[r] \in Version
    BY <1>2 DEF JobTypeOK, Delete
  <2>2. /\ tracking' = tracking \ {at[r]} /\ effect' = effect \ {at[r]}
        /\ downs' = [downs EXCEPT ![at[r]] = @ + 1] /\ ups' = ups
    BY <1>2 DEF Delete
  <2>3. CountInv'
    BY <2>1, <2>2 DEF JobTypeOK
  <2> QED BY <2>2, <2>3
<1>3. ASSUME UNCHANGED <<tracking, effect, ups, downs>>
      PROVE  RecordedIsApplied' /\ CountInv'
  BY <1>3
<1>4. ASSUME NEW r \in Runner,
             \/ Start(r, "read") \/ Start(r, "last") \/ ReadApplied(r) \/ NextMigration(r)
             \/ ExecuteUp(r) \/ LoadSchemas(r) \/ ReadLast(r) \/ ExecuteDown(r) \/ Abort(r)
      PROVE  UNCHANGED <<tracking, effect, ups, downs>>
  BY <1>4 DEF Start, ReadApplied, NextMigration, ExecuteUp, LoadSchemas, ReadLast,
              ExecuteDown, Abort
<1>5. CASE UNCHANGED jobVars
  BY <1>5 DEF jobVars
<1> QED
  <2> HIDE DEF RecordedIsApplied, CountInv
  <2> QED BY <1>1, <1>2, <1>3, <1>4, <1>5 DEF JobNext, JobStep, JobQuiescent

\* Whatever the others do, a run's loop passes only what is settled.
LEMMA ProgressStep ==
    ASSUME JobTypeOK, \A r \in Runner : Progress(r), [JobNext]_jobVars
    PROVE  \A s \in Runner : Progress(s)'
<1> SUFFICES ASSUME NEW s \in Runner PROVE Progress(s)'
  OBVIOUS
<1> USE DEF Goto, dbVars, history
<1>1. ASSUME NEW r \in Runner, NEW step \in {"read", "last"}, Start(r, step)
      PROVE  Progress(s)'
  <2>1. CASE s = r
    BY <1>1, <2>1 DEF Start, Progress, JobTypeOK
  <2>2. CASE s # r
    BY <1>1, <2>2, SettledStays DEF Start, Settled, JobTypeOK
  <2> QED BY <2>1, <2>2
<1>2. ASSUME NEW r \in Runner, ReadApplied(r) PROVE Progress(s)'
  <2>1. CASE s = r
    <3>1. \A v \in files[s] : ~(v <= 0)
      BY MigrateAssumption
    <3> QED BY <1>2, <2>1, <3>1 DEF ReadApplied, Progress, Settled, JobTypeOK
  <2>2. CASE s # r
    BY <1>2, <2>2, SettledStays DEF ReadApplied, Settled, JobTypeOK
  <2> QED BY <2>1, <2>2
<1>3. ASSUME NEW r \in Runner, NextMigration(r) PROVE Progress(s)'
  <2>1. CASE s = r /\ pending(r) = {}
    <3>1. files[r] \subseteq Settled(r)
      <4> SUFFICES ASSUME NEW v \in files[r] PROVE v \in Settled(r)
        OBVIOUS
      <4>1. v \in Nat /\ at[r] \in Nat
        BY Numbers
      <4>2. v \in done[r] \/ v <= at[r]
        BY <2>1, <4>1 DEF pending
      <4> QED BY <1>3, <4>2 DEF NextMigration, Progress
    <3> QED BY <1>3, <2>1, <3>1 DEF NextMigration, Progress, Settled, JobTypeOK
  <2>2. CASE s = r /\ pending(r) # {}
    <3>1. /\ at'[r] = Min(pending(r)) /\ jobPc'[r] = "tx"
          /\ done' = done /\ Settled(r)' = Settled(r)
      BY <1>3, <2>2 DEF NextMigration, JobTypeOK, Settled
    <3>2. ASSUME NEW v \in files[r], v < Min(pending(r)) PROVE v \in Settled(r)
      <4>1. v \in Nat /\ at[r] \in Nat /\ Min(pending(r)) \in Nat
        BY <2>2, NextIsFirst, Numbers DEF pending
      <4>2. v \notin pending(r)
        BY <2>2, <3>2, <4>1, NextIsFirst
      <4>3. v \in done[r] \/ v <= at[r]
        BY <4>1, <4>2 DEF pending
      <4> QED BY <1>3, <4>3 DEF NextMigration, Progress
    <3>3. done[r] \subseteq Settled(r)
      BY <1>3 DEF NextMigration, Progress
    <3> QED BY <2>2, <3>1, <3>2, <3>3 DEF Progress
  <2>3. CASE s # r
    BY <1>3, <2>3, SettledStays DEF NextMigration, Settled, JobTypeOK
  <2> QED BY <2>1, <2>2, <2>3
<1>4. ASSUME NEW r \in Runner, ExecuteUp(r) PROVE Progress(s)'
  <2>1. CASE s = r
    BY <1>4, <2>1 DEF ExecuteUp, Progress, Settled, JobTypeOK
  <2>2. CASE s # r
    BY <1>4, <2>2, SettledStays DEF ExecuteUp, Settled, JobTypeOK
  <2> QED BY <2>1, <2>2
<1>5. ASSUME NEW r \in Runner, Insert(r) PROVE Progress(s)'
  <2>1. tracking \subseteq tracking' /\ undone' = undone /\ registry' = registry
    BY <1>5 DEF Insert
  <2>2. CASE s = r /\ conflicts(r)
    BY <1>5, <2>2 DEF Insert, Progress, JobTypeOK
  <2>3. CASE s = r /\ ~conflicts(r)
    <3>1. jobPc'[r] = "next" /\ at' = at /\ done' = done /\ at[r] \in Settled(r)'
      BY <1>5, <2>3 DEF Insert, Settled, JobTypeOK
    <3>2. Settled(r) \subseteq Settled(r)'
      BY <2>1 DEF Settled
    <3>3. ASSUME NEW v \in files[r], v <= at[r] PROVE v \in Settled(r)'
      <4>1. v < at[r] \/ v = at[r]
        BY <3>3, Numbers
      <4> QED BY <1>5, <3>1, <3>2, <4>1 DEF Insert, Progress
    <3>4. done[r] \subseteq Settled(r)'
      BY <1>5, <3>2 DEF Insert, Progress
    <3> QED BY <2>3, <3>1, <3>3, <3>4 DEF Progress
  <2>4. CASE s # r
    BY <1>5, <2>1, <2>4, SettledStays DEF Insert, Settled, JobTypeOK
  <2> QED BY <2>2, <2>3, <2>4
<1>6. ASSUME NEW r \in Runner, LoadSchemas(r) PROVE Progress(s)'
  <2>1. CASE s = r
    BY <1>6, <2>1 DEF LoadSchemas, Progress, Settled, JobTypeOK
  <2>2. CASE s # r
    BY <1>6, <2>2, SettledStays DEF LoadSchemas, Settled, JobTypeOK
  <2> QED BY <2>1, <2>2
<1>7. ASSUME NEW r \in Runner, ReadLast(r) \/ ExecuteDown(r) \/ Abort(r)
      PROVE  Progress(s)'
  <2>1. CASE s = r
    BY <1>7, <2>1 DEF ReadLast, ExecuteDown, Abort, Progress, JobTypeOK
  <2>2. CASE s # r
    BY <1>7, <2>2, SettledStays DEF ReadLast, ExecuteDown, Abort, Settled, JobTypeOK
  <2> QED BY <2>1, <2>2
<1>8. ASSUME NEW r \in Runner, Delete(r) PROVE Progress(s)'
  <2>1. CASE s = r
    BY <1>8, <2>1 DEF Delete, Progress, JobTypeOK
  <2>2. CASE s # r
    <3>1. Settled(s) \subseteq Settled(s)'
      BY <1>8 DEF Delete, Settled, JobTypeOK
    <3> QED BY <1>8, <2>2, <3>1, SettledStays DEF Delete, JobTypeOK
  <2> QED BY <2>1, <2>2
<1>9. CASE UNCHANGED jobVars
  BY <1>9 DEF jobVars, Progress, Settled
<1> QED
  BY <1>1, <1>2, <1>3, <1>4, <1>5, <1>6, <1>7, <1>8, <1>9
     DEF JobNext, JobStep, JobQuiescent

-----------------------------------------------------------------------------
\* The invariant, from which the theorems follow.
LEMMA Invariance == JobSpec => []MigrateInv
<1>1. JobInit => MigrateInv
  <2> SUFFICES ASSUME JobInit PROVE MigrateInv
    OBVIOUS
  <2>1. JobTypeOK
    <3>1. 0 \in 0..MaxRuns /\ 0 \in 0..MaxAborts
      BY MigrateAssumption
    <3>2. effect \subseteq Version
      BY MigrateAssumption DEF JobInit
    <3>3. ups \in [Version -> Nat] /\ downs \in [Version -> Nat]
      BY DEF JobInit
    <3> QED BY <3>1, <3>2, <3>3 DEF JobInit, JobTypeOK, Active, Ended
  <2>2. RecordedIsApplied /\ CountInv
    BY DEF JobInit, RecordedIsApplied, CountInv
  <2>3. \A r \in Runner : Progress(r)
    BY DEF JobInit, Progress
  <2> QED BY <2>1, <2>2, <2>3 DEF MigrateInv
<1>2. MigrateInv /\ [JobNext]_jobVars => MigrateInv'
  <2> SUFFICES ASSUME MigrateInv, [JobNext]_jobVars PROVE MigrateInv'
    OBVIOUS
  <2>1. JobTypeOK'
    BY TypeStep DEF MigrateInv
  <2>2. RecordedIsApplied' /\ CountInv'
    BY RecordStep DEF MigrateInv
  <2>3. \A r \in Runner : Progress(r)'
    BY ProgressStep DEF MigrateInv
  <2> QED BY <2>1, <2>2, <2>3 DEF MigrateInv
<1> QED BY <1>1, <1>2, PTL DEF JobSpec

\* Every variable of the migration job keeps its type (migrate.py).
THEOREM MigrateTypeCorrect == JobSpec => []JobTypeOK
<1>1. MigrateInv => JobTypeOK
  BY DEF MigrateInv
<1> QED BY <1>1, Invariance, PTL

\* The tracking table and the schema agree, whoever dies where (apply_pending and
\* rollback_last, each migration in its own transaction).
THEOREM TrackingIsTrue == JobSpec => []RecordedIsApplied
<1>1. MigrateInv => RecordedIsApplied
  BY DEF MigrateInv
<1> QED BY <1>1, Invariance, PTL

\* Between two rollbacks of a version one runner applies it (the primary key of
\* schema_migrations).
THEOREM NoSecondApplication == JobSpec => []AppliedOnce
<1>1. MigrateInv => AppliedOnce
  BY DEF MigrateInv, CountInv, AppliedOnce
<1> QED BY <1>1, Invariance, PTL

\* A job that exits 0 has every migration and contract of its checkout in place,
\* however many others ran beside it (main, load_schemas).
THEOREM JobDeliversCheckout == JobSpec => []ExitMeansMigrated
<1>1. MigrateInv => ExitMeansMigrated
  BY DEF MigrateInv, Progress, Settled, ExitMeansMigrated
<1> QED BY <1>1, Invariance, PTL
=============================================================================
