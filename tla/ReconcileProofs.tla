-------------------------- MODULE ReconcileProofs ---------------------------
(***************************************************************************)
(* Reconciliation never takes a write for a lost record, and finds exactly *)
(* the drift that stands, proved for any records, fields, writes, edits and*)
(* crashes.                                                                *)
(***************************************************************************)
EXTENDS Reconcile, FiniteSetTheorems, TLAPS

\* The parts of the state the argument speaks of.
SideTypes == /\ erp \in Mappings /\ log \in Mappings /\ landed \in Write \cup {None}
             /\ held \in [Sides -> Mappings \cup {None}]

\* What Forge wrote is in the ERP unless somebody deleted it, recorded or not.
WrittenInv == /\ \A i \in Id : log[i] # None /\ erp[i] = None => i \in deleted
              /\ landed # None /\ erp[landed.id] = None => landed.id \in deleted

\* What the first read found recorded still is.
SnapshotInv == pc = "second" => \A i \in Id : held["expected"][i] # None => log[i] # None

ReconcileInv == SideTypes /\ WrittenInv /\ SnapshotInv /\ MissingIsReal

-----------------------------------------------------------------------------
\* A record is never None.
LEMMA RecordIsSomething == None \notin Records
BY ReconcileAssumption

\* A write merged into a record, or into none, gives a record.
LEMMA MergeIsRecord ==
    ASSUME NEW fields \in Records, NEW record \in Records \cup {None}
    PROVE  Merge(fields, record) \in Records
<1>1. CASE record = None
  BY <1>1 DEF Merge
<1>2. CASE record # None
  <2>1. PICK S \in SUBSET Field : fields \in [S -> Value]
    BY DEF Records
  <2>2. PICK T \in SUBSET Field : record \in [T -> Value]
    BY <1>2 DEF Records
  <2>3. Merge(fields, record) \in [S \cup T -> Value]
    BY <1>2, <2>1, <2>2 DEF Merge
  <2>4. S \cup T \in SUBSET Field
    OBVIOUS
  <2> QED BY <2>3, <2>4 DEF Records
<1> QED BY <1>1, <1>2

\* A record with one field cleared is a record.
LEMMA ClearedIsRecord ==
    ASSUME NEW record \in Records, NEW f
    PROVE  [g \in DOMAIN record \ {f} |-> record[g]] \in Records
<1>1. PICK S \in SUBSET Field : record \in [S -> Value]
  BY DEF Records
<1>2. [g \in DOMAIN record \ {f} |-> record[g]] \in [S \ {f} -> Value]
  BY <1>1
<1>3. S \ {f} \in SUBSET Field
  OBVIOUS
<1> QED BY <1>2, <1>3 DEF Records

\* A field on its own is a record.
LEMMA FieldIsRecord ==
    ASSUME NEW f \in Field, NEW v \in Value
    PROVE  [g \in {f} |-> v] \in Records
<1>1. [g \in {f} |-> v] \in [{f} -> Value] /\ {f} \in SUBSET Field
  OBVIOUS
<1> QED BY <1>1 DEF Records

-----------------------------------------------------------------------------
\* The sides change only into sides, and a written record disappears only when
\* somebody deletes it.
LEMMA WorldStep ==
    ASSUME SideTypes, WrittenInv, [Next]_vars
    PROVE  /\ erp' \in Mappings /\ log' \in Mappings /\ landed' \in Write \cup {None}
           /\ WrittenInv' /\ deleted \subseteq deleted'
           /\ \A i \in Id : log[i] # None => log'[i] # None
<1> DEFINE Goal == /\ erp' \in Mappings /\ log' \in Mappings /\ landed' \in Write \cup {None}
                   /\ WrittenInv' /\ deleted \subseteq deleted'
                   /\ \A i \in Id : log[i] # None => log'[i] # None
<1>1. ASSUME NEW w \in Write, Land(w) PROVE Goal
  <2>1. w.id \in Id /\ w.fields \in Records /\ w # None
    BY ReconcileAssumption
  <2>2. Merge(w.fields, erp[w.id]) \in Records
    BY <2>1, MergeIsRecord DEF SideTypes, Mappings
  <2>3. /\ erp' = [erp EXCEPT ![w.id] = Merge(w.fields, erp[w.id])]
        /\ landed' = w /\ log' = log /\ deleted' = deleted
    BY <1>1 DEF Land
  <2>4. erp' \in Mappings
    BY <2>1, <2>2, <2>3 DEF SideTypes, Mappings
  <2>5. erp'[w.id] # None /\ \A i \in Id : erp[i] # None => erp'[i] # None
    BY <2>1, <2>2, <2>3, RecordIsSomething DEF SideTypes, Mappings
  <2>6. WrittenInv'
    BY <2>3, <2>5 DEF WrittenInv
  <2> QED BY <2>3, <2>4, <2>6 DEF SideTypes
<1>2. ASSUME RecordWrite PROVE Goal
  <2>1. landed \in Write /\ landed.id \in Id /\ landed.fields \in Records
    BY <1>2, ReconcileAssumption DEF RecordWrite, SideTypes
  <2>2. Merge(landed.fields, log[landed.id]) \in Records
    BY <2>1, MergeIsRecord DEF SideTypes, Mappings
  <2>3. /\ log' = [log EXCEPT ![landed.id] = Merge(landed.fields, log[landed.id])]
        /\ landed' = None /\ erp' = erp /\ deleted' = deleted
    BY <1>2 DEF RecordWrite
  <2>4. log' \in Mappings
    BY <2>1, <2>2, <2>3 DEF SideTypes, Mappings
  <2>5. \A i \in Id : log[i] # None => log'[i] # None
    BY <2>1, <2>2, <2>3, RecordIsSomething DEF SideTypes, Mappings
  <2>6. \A i \in Id : i # landed.id => log'[i] = log[i]
    BY <2>1, <2>3 DEF SideTypes, Mappings
  <2>7. WrittenInv'
    BY <1>2, <2>1, <2>3, <2>6 DEF WrittenInv, RecordWrite
  <2> QED BY <2>3, <2>4, <2>5, <2>7 DEF SideTypes
<1>3. ASSUME LoseWrite PROVE Goal
  BY <1>3 DEF LoseWrite, SideTypes, WrittenInv
<1>4. ASSUME NEW i \in Id, Edit(i) PROVE Goal
  <2>1. /\ landed' = landed /\ log' = log /\ deleted' = deleted
        /\ \E r \in Records : erp' = [erp EXCEPT ![i] = r]
    <3>1. ASSUME NEW f \in Field, NEW v \in Value
          PROVE  Merge([g \in {f} |-> v], erp[i]) \in Records
      BY FieldIsRecord, MergeIsRecord DEF SideTypes, Mappings
    <3>2. ASSUME NEW f \in Field, erp[i] # None
          PROVE  [g \in DOMAIN erp[i] \ {f} |-> erp[i][g]] \in Records
      BY <3>2, ClearedIsRecord DEF SideTypes, Mappings
    <3> QED BY <1>4, <3>1, <3>2 DEF Edit
  <2>2. PICK r \in Records : erp' = [erp EXCEPT ![i] = r]
    BY <2>1
  <2>3. erp' \in Mappings /\ \A j \in Id : erp[j] # None => erp'[j] # None
    BY <2>2, RecordIsSomething DEF SideTypes, Mappings
  <2>4. landed # None => landed.id \in Id
    BY ReconcileAssumption DEF SideTypes
  <2>5. WrittenInv'
    BY <2>1, <2>3, <2>4 DEF WrittenInv
  <2> QED BY <2>1, <2>3, <2>5 DEF SideTypes
<1>5. ASSUME NEW i \in Id, Delete(i) PROVE Goal
  <2>1. /\ erp' = [erp EXCEPT ![i] = None] /\ deleted' = deleted \cup {i}
        /\ landed' = landed /\ log' = log
    BY <1>5 DEF Delete
  <2>2. erp' \in Mappings /\ \A j \in Id : j # i => erp'[j] = erp[j]
    BY <2>1 DEF SideTypes, Mappings
  <2>3. landed # None => landed.id \in Id
    BY ReconcileAssumption DEF SideTypes
  <2>4. WrittenInv'
    BY <2>1, <2>2, <2>3 DEF WrittenInv
  <2> QED BY <2>1, <2>2, <2>4 DEF SideTypes
<1>6. ASSUME UNCHANGED <<erp, log, landed, deleted>> PROVE Goal
  BY <1>6 DEF SideTypes, WrittenInv
<1>7. ASSUME \/ \E d \in Due : Take(d)
             \/ Agent \/ Crash \/ Quiescent \/ UNCHANGED vars
      PROVE  UNCHANGED <<erp, log, landed, deleted>>
  BY <1>7 DEF Take, Agent, ReadFirst, ReadSecond, Unavailable, Record, Publish, Restart,
              Crash, Quiescent, vars, world
<1> QED
  <2> HIDE DEF Goal
  <2>1. Goal
    BY <1>1, <1>2, <1>3, <1>4, <1>5, <1>6, <1>7 DEF Next
  <2> QED BY <2>1 DEF Goal

\* What the agent holds, and what it makes of it.
LEMMA AgentStep ==
    ASSUME ReconcileInv, [Next]_vars, deleted \subseteq deleted',
           \A i \in Id : log[i] # None => log'[i] # None
    PROVE  held' \in [Sides -> Mappings \cup {None}] /\ SnapshotInv' /\ MissingIsReal'
<1> DEFINE Goal == held' \in [Sides -> Mappings \cup {None}] /\ SnapshotInv' /\ MissingIsReal'
<1> USE DEF ReconcileInv, SideTypes
<1>0. Nothing \in [Sides -> Mappings \cup {None}]
  BY DEF Nothing
<1>1. ASSUME UNCHANGED <<pc, held, result>> PROVE Goal
  BY <1>1 DEF SnapshotInv, MissingIsReal
<1>2. ASSUME NEW d \in Due, Take(d) PROVE Goal
  BY <1>2 DEF Take, SnapshotInv, MissingIsReal
<1>3. ASSUME ReadFirst PROVE Goal
  <2>1. held' = [held EXCEPT !["expected"] = log] /\ UNCHANGED <<log, result, deleted>>
    BY <1>3 DEF ReadFirst, sources, records, world
  <2>2. held' \in [Sides -> Mappings \cup {None}] /\ held'["expected"] = log
    BY <2>1 DEF Sides
  <2> QED BY <2>1, <2>2 DEF SnapshotInv, MissingIsReal
<1>4. ASSUME ReadSecond PROVE Goal
  <2>1. /\ held' = [held EXCEPT !["actual"] = erp] /\ UNCHANGED <<erp, log, deleted>>
        /\ pc = "second" /\ pc' = "record"
    BY <1>4 DEF ReadSecond, sources, records, world
  <2>2. /\ held' \in [Sides -> Mappings \cup {None}]
        /\ held'["actual"] = erp /\ held'["expected"] = held["expected"]
    BY <2>1 DEF Sides
  <2>3. result'.discrepancies = compare(held'["expected"], held'["actual"])
    BY <1>4 DEF ReadSecond, run
  <2>4. ASSUME NEW d \in compare(held'["expected"], held'["actual"]),
               d.kind = "missing_in_erp"
        PROVE  d.external_id \in deleted
    <3>1. PICK i \in Keys(held["expected"]) \ Keys(erp) :
              d = discrepancy(i, "missing_in_erp", {})
      BY <2>2, <2>4 DEF compare, discrepancy
    <3>2. i \in Id /\ held["expected"][i] # None /\ erp[i] = None
      BY <3>1 DEF Keys
    <3>3. i \in deleted
      BY <2>1, <3>2 DEF SnapshotInv, WrittenInv
    <3> QED BY <3>1, <3>3 DEF discrepancy
  <2>5. MissingIsReal'
    BY <2>1, <2>3, <2>4 DEF MissingIsReal
  <2> QED BY <2>1, <2>2, <2>5 DEF SnapshotInv
<1>5. ASSUME Unavailable \/ Crash PROVE Goal
  BY <1>0, <1>5 DEF Unavailable, Crash, Return, SnapshotInv, MissingIsReal
<1>6. ASSUME Record \/ Restart PROVE Goal
  BY <1>6 DEF Record, Restart, SnapshotInv, MissingIsReal
<1>7. ASSUME Publish PROVE Goal
  BY <1>0, <1>7 DEF Publish, Return, SnapshotInv, MissingIsReal
<1>8. ASSUME \/ \E w \in Write : Land(w)
             \/ \E i \in Id : Edit(i) \/ Delete(i)
             \/ RecordWrite \/ LoseWrite \/ Quiescent \/ UNCHANGED vars
      PROVE  UNCHANGED <<pc, held, result>>
  BY <1>8 DEF Land, Edit, Delete, RecordWrite, LoseWrite, Quiescent, vars, agent
<1> QED
  <2> HIDE DEF Goal
  <2>1. Goal
    BY <1>1, <1>2, <1>3, <1>4, <1>5, <1>6, <1>7, <1>8 DEF Next, Agent
  <2> QED BY <2>1 DEF Goal

-----------------------------------------------------------------------------
\* Every step keeps the inductive invariant.
LEMMA ReconcileStep == ReconcileInv /\ [Next]_vars => ReconcileInv'
<1> SUFFICES ASSUME ReconcileInv, [Next]_vars PROVE ReconcileInv'
  OBVIOUS
<1>1. /\ erp' \in Mappings /\ log' \in Mappings /\ landed' \in Write \cup {None}
      /\ WrittenInv' /\ deleted \subseteq deleted'
      /\ \A i \in Id : log[i] # None => log'[i] # None
  BY WorldStep DEF ReconcileInv
<1>2. held' \in [Sides -> Mappings \cup {None}] /\ SnapshotInv' /\ MissingIsReal'
  BY <1>1, AgentStep
<1> QED BY <1>1, <1>2 DEF ReconcileInv, SideTypes

\* A record that reconciliation reports missing was deleted in the ERP: no write of
\* Forge, wherever the two reads of handle meet it, is taken for a lost record.
THEOREM NoFalseMissing == Spec => []MissingIsReal
<1>1. Init => ReconcileInv
  BY DEF Init, ReconcileInv, SideTypes, WrittenInv, SnapshotInv, MissingIsReal, Mappings,
         Nothing
<1>2. ReconcileInv => MissingIsReal
  BY DEF ReconcileInv
<1> QED BY <1>1, <1>2, ReconcileStep, PTL DEF Spec

-----------------------------------------------------------------------------
(* Drift that stands is found, and nothing else.                           *)

\* What two snapshots, rather than the two sides, say about record i.
Match(exp, act, i) ==
    IF exp[i] = None THEN act[i] = None
    ELSE act[i] # None /\ \A f \in DOMAIN exp[i] : f \in DOMAIN act[i] /\ act[i][f] = exp[i][f]

\* compare reports the records that do not match, each of them once.
LEMMA CompareFinds ==
    ASSUME NEW exp \in Mappings, NEW act \in Mappings
    PROVE  /\ \A d \in compare(exp, act) :
                  d.external_id \in Keys(exp) \cup Keys(act) /\ ~Match(exp, act, d.external_id)
           /\ \A i \in Id : ~Match(exp, act, i) =>
                  \E d \in compare(exp, act) : d.external_id = i
           /\ \A d, e \in compare(exp, act) : d.external_id = e.external_id => d = e
<1>0. \A i \in Id : exp[i] # None => \A f \in DOMAIN exp[i] : exp[i][f] # None
  <2> SUFFICES ASSUME NEW i \in Id, NEW f \in DOMAIN exp[i], exp[i] # None
               PROVE  exp[i][f] # None
    OBVIOUS
  <2>1. PICK S \in SUBSET Field : exp[i] \in [S -> Value]
    BY DEF Mappings, Records
  <2> QED BY <2>1, ReconcileAssumption
<1>1. ASSUME NEW i \in Keys(exp) \cap Keys(act)
      PROVE  Match(exp, act, i) <=> mismatches(exp[i], act[i]) = {}
  <2>1. i \in Id /\ exp[i] # None /\ act[i] # None
    BY DEF Keys
  <2>2. \A f \in DOMAIN exp[i] :
           exp[i][f] = get(act[i], f) <=> f \in DOMAIN act[i] /\ act[i][f] = exp[i][f]
    BY <1>0, <2>1 DEF get
  <2> QED BY <2>1, <2>2 DEF Match, mismatches
<1>2. \A i \in Keys(exp) \ Keys(act) : i \in Id /\ ~Match(exp, act, i)
  BY DEF Keys, Match
<1>3. \A i \in Keys(act) \ Keys(exp) : i \in Id /\ ~Match(exp, act, i)
  BY DEF Keys, Match
<1>4. \A i \in Id : ~Match(exp, act, i) => i \in Keys(exp) \cup Keys(act)
  BY DEF Keys, Match
<1> DEFINE missing == Keys(exp) \ Keys(act)
           unexpected == Keys(act) \ Keys(exp)
           differing == {i \in Keys(exp) \cap Keys(act) : mismatches(exp[i], act[i]) # {}}
<1>5. \A i, k, fs : discrepancy(i, k, fs).external_id = i
  BY DEF discrepancy
<1>6. compare(exp, act) = {discrepancy(i, "missing_in_erp", {}) : i \in missing}
          \cup {discrepancy(i, "field_mismatch", mismatches(exp[i], act[i])) : i \in differing}
          \cup {discrepancy(i, "unexpected_in_erp", {}) : i \in unexpected}
  BY DEF compare
<1>7. /\ \A i \in missing : i \notin differing /\ i \notin unexpected
      /\ \A i \in differing : i \notin unexpected
      /\ \A i \in missing \cup differing \cup unexpected :
             i \in Keys(exp) \cup Keys(act) /\ i \in Id /\ ~Match(exp, act, i)
      /\ \A i \in Id : ~Match(exp, act, i) => i \in missing \cup differing \cup unexpected
  BY <1>1, <1>2, <1>3, <1>4 DEF Keys
<1> HIDE DEF missing, unexpected, differing
<1>8. \A d \in compare(exp, act) : d.external_id \in missing \cup differing \cup unexpected
  BY <1>5, <1>6
<1>9. \A i \in missing \cup differing \cup unexpected :
          \E d \in compare(exp, act) : d.external_id = i
  BY <1>5, <1>6
<1>10. \A d, e \in compare(exp, act) : d.external_id = e.external_id => d = e
  <2> SUFFICES ASSUME NEW d \in compare(exp, act), NEW e \in compare(exp, act),
                      d.external_id = e.external_id
               PROVE  d = e
    OBVIOUS
  <2> DEFINE i == d.external_id
  <2>1. ASSUME NEW x \in compare(exp, act), x.external_id = i
        PROVE  /\ i \in missing => x = discrepancy(i, "missing_in_erp", {})
               /\ i \in differing =>
                    x = discrepancy(i, "field_mismatch", mismatches(exp[i], act[i]))
               /\ i \in unexpected => x = discrepancy(i, "unexpected_in_erp", {})
    BY <1>5, <1>6, <1>7, <2>1
  <2>2. i \in missing \/ i \in differing \/ i \in unexpected
    BY <1>8
  <2> HIDE DEF i
  <2> QED BY <2>1, <2>2 DEF i
<1> QED BY <1>7, <1>8, <1>9, <1>10

\* The figure `matched` counts the records that match, if there are finitely many.
LEMMA MatchedCounts ==
    ASSUME NEW exp \in Mappings, NEW act \in Mappings,
           IsFiniteSet(Keys(exp)), IsFiniteSet(Keys(act))
    PROVE  run(exp, act).matched = Cardinality({i \in Keys(exp) : Match(exp, act, i)})
<1> DEFINE all == Keys(exp) \cup Keys(act)
           bad == {i \in all : ~Match(exp, act, i)}
           good == {i \in Keys(exp) : Match(exp, act, i)}
           found == compare(exp, act)
           id == [d \in found |-> d.external_id]
<1>1. IsFiniteSet(all)
  BY FS_Union
<1>2. bad \in SUBSET all /\ IsFiniteSet(bad)
  BY <1>1, FS_Subset
<1>3. id \in Injection(found, bad) /\ id \in Surjection(found, bad)
  <2>1. id \in [found -> bad]
    BY CompareFinds
  <2>2. \A d, e \in found : id[d] = id[e] => d = e
    BY CompareFinds
  <2>3. \A i \in bad : \E d \in found : id[d] = i
    <3>1. \A i \in bad : i \in Id /\ ~Match(exp, act, i)
      BY DEF Keys
    <3> QED BY <3>1, CompareFinds
  <2> HIDE DEF id, found, bad
  <2> QED BY <2>1, <2>2, <2>3 DEF Injection, Surjection, IsInjective
<1> HIDE DEF id
<1>4. Cardinality(found) = Cardinality(bad)
  BY <1>2, <1>3, FS_Injection
<1>5. Cardinality(all \ bad) = Cardinality(all) - Cardinality(all \cap bad)
  BY <1>1, FS_Difference
<1>6. all \cap bad = bad /\ all \ bad = good
  BY DEF Keys, Match
<1>7. run(exp, act).matched = Cardinality(all) - Cardinality(found)
  BY DEF run
<1> QED BY <1>4, <1>5, <1>6, <1>7

\* Both sides hold finitely many records: each came with a write or an edit.
FiniteInv == IsFiniteSet(Keys(erp)) /\ IsFiniteSet(Keys(log))

\* A snapshot is still true of the records nobody has touched; a result is what run makes
\* of the two snapshots at hand.
StandingInv ==
    /\ pc = "second" => /\ held["expected"] \in Mappings
                        /\ \A i \in Id \ touched : held["expected"][i] = log[i]
    /\ result # None =>
           /\ pc \in {"record", "publish"}
           /\ held["expected"] \in Mappings /\ held["actual"] \in Mappings
           /\ IsFiniteSet(Keys(held["expected"])) /\ IsFiniteSet(Keys(held["actual"]))
           /\ result = run(held["expected"], held["actual"])
           /\ \A i \in Id \ touched : /\ held["expected"][i] = log[i]
                                      /\ held["actual"][i] = erp[i]
    /\ pc = "second" => IsFiniteSet(Keys(held["expected"]))

DriftInv == ReconcileInv /\ FiniteInv /\ StandingInv
\* The set of records held grows by one at most.
LEMMA KeysFinite ==
    ASSUME NEW m, NEW i \in Id, NEW r, IsFiniteSet(Keys(m)), m \in Mappings
    PROVE  IsFiniteSet(Keys([m EXCEPT ![i] = r]))
<1>1. Keys([m EXCEPT ![i] = r]) \in SUBSET (Keys(m) \cup {i})
  BY DEF Keys, Mappings
<1>2. IsFiniteSet(Keys(m) \cup {i})
  BY FS_AddElement
<1> QED BY <1>1, <1>2, FS_Subset

\* What moves in the world is in touched during a pass, and the world stays finite.
LEMMA WorldMoves ==
    ASSUME DriftInv, [Next]_vars
    PROVE  /\ FiniteInv'
           /\ UNCHANGED <<pc, held, result>> /\ pc \notin {"idle", "down"} =>
                  /\ touched \subseteq touched'
                  /\ \A i \in Id \ touched' : log'[i] = log[i] /\ erp'[i] = erp[i]
<1> DEFINE Moves == UNCHANGED <<pc, held, result>> /\ pc \notin {"idle", "down"} =>
                  /\ touched \subseteq touched'
                  /\ \A i \in Id \ touched' : log'[i] = log[i] /\ erp'[i] = erp[i]
<1> USE DEF DriftInv, FiniteInv, ReconcileInv, SideTypes
<1>1. ASSUME NEW i \in Id, NEW r, erp' = [erp EXCEPT ![i] = r], log' = log, Touch(i)
      PROVE  FiniteInv' /\ Moves
  <2>1. FiniteInv'
    <3>1. IsFiniteSet(Keys([erp EXCEPT ![i] = r]))
      BY KeysFinite
    <3>2. Keys(erp') = Keys([erp EXCEPT ![i] = r]) /\ Keys(log') = Keys(log)
      BY <1>1
    <3> QED BY <3>1, <3>2 DEF Keys
  <2>2. \A j \in Id : j # i => erp'[j] = erp[j]
    BY <1>1 DEF Mappings
  <2> QED BY <1>1, <2>1, <2>2 DEF Touch
<1>2. ASSUME NEW i \in Id, NEW r, log' = [log EXCEPT ![i] = r], erp' = erp, Touch(i)
      PROVE  FiniteInv' /\ Moves
  <2>1. FiniteInv'
    <3>1. IsFiniteSet(Keys([log EXCEPT ![i] = r]))
      BY KeysFinite
    <3>2. Keys(log') = Keys([log EXCEPT ![i] = r]) /\ Keys(erp') = Keys(erp)
      BY <1>2
    <3> QED BY <3>1, <3>2 DEF Keys
  <2>2. \A j \in Id : j # i => log'[j] = log[j]
    BY <1>2 DEF Mappings
  <2> QED BY <1>2, <2>1, <2>2 DEF Touch
<1>3. ASSUME UNCHANGED <<erp, log, touched>> PROVE FiniteInv' /\ Moves
  BY <1>3
<1>4. ASSUME UNCHANGED <<erp, log>>, pc' # pc PROVE FiniteInv' /\ Moves
  BY <1>4
<1>5. ASSUME NEW w \in Write, Land(w) PROVE FiniteInv' /\ Moves
  <2>1. w.id \in Id
    BY ReconcileAssumption
  <2> HIDE DEF Moves, FiniteInv
  <2> QED BY <1>1, <1>5, <2>1 DEF Land
<1>6. ASSUME RecordWrite PROVE FiniteInv' /\ Moves
  <2>1. landed.id \in Id
    BY <1>6, ReconcileAssumption DEF RecordWrite
  <2> HIDE DEF Moves, FiniteInv
  <2> QED BY <1>2, <1>6, <2>1 DEF RecordWrite
<1>7. ASSUME NEW i \in Id, Edit(i) \/ Delete(i) PROVE FiniteInv' /\ Moves
  <2>1. log' = log /\ Touch(i) /\ \E r : erp' = [erp EXCEPT ![i] = r]
    BY <1>7 DEF Edit, Delete
  <2> HIDE DEF Moves, FiniteInv
  <2> QED BY <1>1, <2>1
<1>8. ASSUME LoseWrite \/ Quiescent \/ UNCHANGED vars \/ \E d \in Due : Take(d)
      PROVE  FiniteInv' /\ Moves
  BY <1>3, <1>8 DEF LoseWrite, Quiescent, Take, vars, world
<1>9. ASSUME Agent \/ Crash PROVE FiniteInv' /\ Moves
  BY <1>4, <1>9 DEF Agent, ReadFirst, ReadSecond, Unavailable, Record, Publish, Return,
                    Restart, Crash, world
<1> QED
  <2> HIDE DEF Moves, FiniteInv
  <2>1. FiniteInv' /\ Moves
    BY <1>5, <1>6, <1>7, <1>8, <1>9 DEF Next
  <2> QED BY <2>1 DEF Moves

\* Every step keeps the snapshots true of what nobody has touched.
LEMMA StandingStep ==
    ASSUME DriftInv, [Next]_vars
    PROVE  StandingInv'
<1>a. FiniteInv /\ erp \in Mappings /\ log \in Mappings
      /\ held \in [Sides -> Mappings \cup {None}]
  BY DEF DriftInv, ReconcileInv, SideTypes
<1>1. ASSUME UNCHANGED <<pc, held, result>> PROVE StandingInv'
  <2>1. CASE pc \in {"idle", "down"}
    BY <1>1, <2>1 DEF DriftInv, StandingInv
  <2>2. CASE pc \notin {"idle", "down"}
    <3>1. /\ touched \subseteq touched'
          /\ \A i \in Id \ touched' : log'[i] = log[i] /\ erp'[i] = erp[i]
      BY <1>1, <2>2, WorldMoves
    <3>2. \A i \in Id \ touched' : i \in Id \ touched
      BY <3>1
    <3> QED BY <1>1, <3>1, <3>2 DEF DriftInv, StandingInv
  <2> QED BY <2>1, <2>2
<1>2. ASSUME NEW d \in Due, Take(d) PROVE StandingInv'
  BY <1>2 DEF Take, DriftInv, StandingInv, world
<1>3. ASSUME ReadFirst PROVE StandingInv'
  <2>1. held' = [held EXCEPT !["expected"] = log] /\ UNCHANGED <<log, result, touched>>
        /\ pc = "first" /\ pc' = "second"
    BY <1>3 DEF ReadFirst, sources, records, world
  <2>2. held'["expected"] = log /\ result' = None
    BY <1>a, <2>1 DEF Sides, DriftInv, StandingInv
  <2> QED BY <1>a, <2>1, <2>2 DEF StandingInv, FiniteInv
<1>4. ASSUME ReadSecond PROVE StandingInv'
  <2>1. /\ held' = [held EXCEPT !["actual"] = erp] /\ UNCHANGED <<erp, log, touched>>
        /\ pc = "second" /\ pc' = "record" /\ result' = run(held'.expected, held'.actual)
    BY <1>4 DEF ReadSecond, sources, records, world
  <2>2. held'["actual"] = erp /\ held'["expected"] = held["expected"]
    BY <1>a, <2>1 DEF Sides
  <2> QED BY <1>a, <2>1, <2>2 DEF DriftInv, StandingInv, FiniteInv
<1>5. ASSUME Unavailable \/ Crash PROVE StandingInv'
  BY <1>5 DEF Unavailable, Crash, Return, StandingInv
<1>6. ASSUME Record \/ Restart PROVE StandingInv'
  BY <1>6 DEF Record, Restart, DriftInv, StandingInv, world
<1>7. ASSUME Publish PROVE StandingInv'
  BY <1>7 DEF Publish, Return, DriftInv, StandingInv
<1>8. ASSUME \/ \E w \in Write : Land(w)
             \/ \E i \in Id : Edit(i) \/ Delete(i)
             \/ RecordWrite \/ LoseWrite \/ Quiescent \/ UNCHANGED vars
      PROVE  UNCHANGED <<pc, held, result>>
  BY <1>8 DEF Land, Edit, Delete, RecordWrite, LoseWrite, Quiescent, vars, agent
<1> QED
  BY <1>1, <1>2, <1>3, <1>4, <1>5, <1>6, <1>7, <1>8 DEF Next, Agent

\* A record that nobody touched since the pass began is reported exactly if the two sides
\* disagree on a field Cavi manages, and the figure `matched` is right if nothing moved
\* (handle, compare, run).
THEOREM DriftIsFound == Spec => []StandingDriftIsReported
<1>1. Init => DriftInv
  <2> SUFFICES ASSUME Init PROVE DriftInv
    OBVIOUS
  <2>1. Keys(erp) = {} /\ Keys(log) = {}
    BY DEF Init, Keys
  <2>2. FiniteInv /\ StandingInv
    BY <2>1, FS_EmptySet DEF Init, FiniteInv, StandingInv
  <2>3. ReconcileInv
    BY DEF Init, ReconcileInv, SideTypes, WrittenInv, SnapshotInv, MissingIsReal, Mappings,
           Nothing
  <2> QED BY <2>2, <2>3 DEF DriftInv
<1>2. DriftInv /\ [Next]_vars => DriftInv'
  BY ReconcileStep, WorldMoves, StandingStep DEF DriftInv
<1>3. DriftInv => StandingDriftIsReported
  <2> SUFFICES ASSUME DriftInv, result # None PROVE StandingDriftIsReported
    BY DEF StandingDriftIsReported
  <2> DEFINE exp == held["expected"]
             act == held["actual"]
  <2>1. /\ exp \in Mappings /\ act \in Mappings /\ result = run(exp, act)
        /\ IsFiniteSet(Keys(exp)) /\ IsFiniteSet(Keys(act))
        /\ \A i \in Id \ touched : exp[i] = log[i] /\ act[i] = erp[i]
    BY DEF DriftInv, StandingInv
  <2> HIDE DEF exp, act
  <2>2. \A i \in Id \ touched : Match(exp, act, i) <=> Agrees(i)
    BY <2>1 DEF Match, Agrees
  <2>3. result.discrepancies = compare(exp, act)
    BY <2>1 DEF run
  <2>4. \A i \in Id \ touched :
           (\E d \in result.discrepancies : d.external_id = i) <=> ~Agrees(i)
    BY <2>1, <2>2, <2>3, CompareFinds
  <2>5. ASSUME touched = {} PROVE result.matched = Cardinality({i \in Keys(log) : Agrees(i)})
    <3>1. {i \in Keys(exp) : Match(exp, act, i)} = {i \in Keys(log) : Agrees(i)}
      BY <2>1, <2>2, <2>5 DEF Keys
    <3> QED BY <2>1, <3>1, MatchedCounts
  <2> QED BY <2>4, <2>5 DEF StandingDriftIsReported
<1> QED BY <1>1, <1>2, <1>3, PTL DEF Spec
=============================================================================
