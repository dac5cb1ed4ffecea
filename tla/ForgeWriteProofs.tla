-------------------------- MODULE ForgeWriteProofs --------------------------
(***************************************************************************)
(* The approval gate, proved for every number of writes, tenants, ERPs,    *)
(* faults and crashes and for every breaker threshold and cooldown; and    *)
(* execute_batch, for batches of any length and any number of calls.       *)
(***************************************************************************)
EXTENDS ForgeWrite, WriteBatch, SequenceTheorems, TLAPS

USE DEF Subject, Verb

-----------------------------------------------------------------------------
(* The breaker's operations stay within its type.                          *)

\* check, record_success, record_failure and tick take breakers to breakers.
LEMMA BreakerType ==
    ASSUME NEW b \in Breaker
    PROVE  /\ check(b) \in Breaker
           /\ record_success(b) \in Breaker
           /\ record_failure(b) \in Breaker
           /\ tick(b) \in Breaker
<1>1. /\ b.failures \in 0..Threshold /\ b.age \in 0..Cooldown
      /\ b.opened \in BOOLEAN /\ b.probing \in BOOLEAN
  BY DEF Breaker
<1>2. 0 \in 0..Threshold /\ 0 \in 0..Cooldown /\ Threshold \in 0..Threshold
  BY ThresholdAssumption, CooldownAssumption
<1>4. check(b) \in Breaker
  <2>1. (b.probing \/ state(b) = "half_open") \in BOOLEAN
    OBVIOUS
  <2> QED BY <1>1, <2>1 DEF check, Breaker
<1>5. record_success(b) \in Breaker
  BY <1>1, <1>2 DEF record_success, Breaker
<1>6. record_failure(b) \in Breaker
  <2> DEFINE f == IF b.failures < Threshold THEN b.failures + 1 ELSE Threshold
             a == IF trips(b) THEN 0 ELSE b.age
             o == b.opened \/ trips(b)
  <2>1. f \in 0..Threshold
    BY <1>1, <1>2, ThresholdAssumption
  <2>2. a \in 0..Cooldown
    BY <1>1, <1>2
  <2>3. o \in BOOLEAN
    OBVIOUS
  <2> HIDE DEF f, a, o
  <2>4. [failures |-> f, opened |-> o, age |-> a, probing |-> FALSE] \in Breaker
    BY <2>1, <2>2, <2>3 DEF Breaker
  <2> QED BY <2>4 DEF record_failure, f, a, o
<1>7. tick(b) \in Breaker
  <2>1. CASE b.opened /\ b.age < Cooldown
    <3>1. b.age + 1 \in 0..Cooldown
      BY <1>1, <2>1, CooldownAssumption
    <3> QED BY <1>1, <2>1, <3>1 DEF tick, Breaker
  <2>2. CASE ~(b.opened /\ b.age < Cooldown)
    BY <2>2 DEF tick
  <2> QED BY <2>1, <2>2
<1> QED BY <1>4, <1>5, <1>6, <1>7

\* __init__ makes a breaker.
LEMMA NewBreakerType == NewBreaker \in Breaker
  BY ThresholdAssumption, CooldownAssumption DEF NewBreaker, Breaker

-----------------------------------------------------------------------------
(* Type correctness.                                                       *)

\* A running handler works on a known write, and what the agent holds in memory
\* was proposed: what TypeOK lacks to be inductive.
Known ==
    /\ \A w \in WriteId : pending[w] # None \/ w \in completed => ops[w] # None
    /\ pc # "idle" => job.cause \in Trigger
    /\ pc \in {"record", "publish"} => job.subject \in Subject
    /\ pc \in {"record", "publish", "check", "put", "reply"} =>
           job.w \in WriteId /\ ops[job.w] # None

TypeInv == TypeOK /\ Known

\* The records the handlers build.
LEMMA Built ==
    /\ NoJob \in Job
    /\ \A w \in WriteId \cup {None}, s \in Subject \cup {None},
          c \in Trigger \cup {None} :
          [w |-> w, subject |-> s, cause |-> c] \in Job
    /\ \A c \in Trigger \cup {None} : [NoJob EXCEPT !.cause = c] \in Job
    /\ \A c \in Trigger : [NoJob EXCEPT !.cause = c].cause = c
    /\ \A w \in WriteId \cup {None},
          k \in {"propose", "reverse", "approve", "reject"} :
          [kind |-> k, w |-> w] \in Trigger
  BY DEF NoJob, Job, Trigger

\* _dead_letter is handed the trigger of the running handler.
LEMMA Quarantined ==
    ASSUME NEW c \in Trigger, DeadLetter(c)
    PROVE  pc' = "quarantine" /\ job' \in Job /\ job'.cause \in Trigger
  BY Built DEF DeadLetter

\* What an operation is made of, and where it is sent.
LEMMA Addressing ==
    /\ \A o \in Operation : /\ o.tenant \in Tenant /\ o.platform \in Platform
                             /\ o.target \in Target
                             /\ o.payload \in Payload
                             /\ breaker_key(o) \in Tenant \X Platform
                             /\ <<o.tenant, o.platform>> \in Tenant \X Platform
    /\ \A w \in WriteId : idempotency_key(w) \in Address
    /\ \A r \in Record : <<"ext", r>> \in Address
    /\ \A t \in Target : t \notin {None, Empty} => t \in Address
  BY DEF Operation, Target, breaker_key, idempotency_key, Address

\* A freshly started agent, with empty dictionaries, satisfies the type invariant.
LEMMA TypeInit == Init => TypeInv
<1> SUFFICES ASSUME Init PROVE TypeInv
  OBVIOUS
<1>2. TypeOK
  BY NewBreakerType, Built, BoundAssumption, ThresholdAssumption DEF Init, TypeOK, Steps
<1>3. Known
  BY DEF Init, Known
<1> QED BY <1>2, <1>3 DEF TypeInv

\* Every handler step, crash and clock tick keeps the state well typed and every write
\* the agent refers to minted.
LEMMA TypeNext == TypeInv /\ [Next]_vars => TypeInv'
<1> SUFFICES ASSUME TypeInv, [Next]_vars PROVE TypeInv'
  OBVIOUS
<1> USE DEF TypeInv, TypeOK, Known, Steps, agentVars, auditVars, erpVars
<1>1. ASSUME NEW w \in WriteId, NEW p \in Proposals, Propose(w, p)
      PROVE  TypeInv'
  <2> DEFINE o == [tenant |-> p.tenant, platform |-> p.platform,
                   operation |-> p.operation, target |-> p.target,
                   payload |-> p.payload, reverses |-> None]
             c == [kind |-> "propose", w |-> None]
  <2>1. o \in Operation
    BY InputAssumption DEF Proposal, Operation
  <2>2. c \in Trigger
    BY Built
  <2> HIDE DEF o, c
  <2>3. pc = "idle" /\ Hold(w, o, c)
    BY <1>1 DEF Propose, o, c
  <2> QED BY <2>1, <2>2, <2>3, Built, NoneAssumption DEF Hold, Emit
<1>2. ASSUME NEW w \in WriteId, NEW w0 \in WriteId, NEW d \in Compensations,
             Reverse(w0, w, d)
      PROVE  TypeInv'
  <2> DEFINE o == [tenant |-> ops[w0].tenant, platform |-> ops[w0].platform,
                   operation |-> d.operation, target |-> None,
                   payload |-> d.payload, reverses |-> w0]
             c == [kind |-> "reverse", w |-> w0]
  <2>1. ops[w0] \in Operation
    BY <1>2 DEF Reverse
  <2>2. o \in Operation
    BY <2>1, Addressing, InputAssumption DEF Operation, Target
  <2>3. c \in Trigger
    BY Built
  <2> HIDE DEF o, c
  <2>4. pc = "idle" /\ Hold(w, o, c)
    BY <1>2 DEF Reverse, o, c
  <2> QED BY <2>2, <2>3, <2>4, Built, NoneAssumption DEF Hold, Emit
<1>3. ASSUME NEW w \in WriteId, ReverseUnknown(w) PROVE TypeInv'
  BY <1>3, Built DEF ReverseUnknown, DeadLetter
<1>4. ASSUME NEW c \in Trigger, DryRunFails(c) PROVE TypeInv'
  BY <1>4, Built, BoundAssumption DEF DryRunFails, DeadLetter, Fault
<1>5. ASSUME NEW w \in WriteId, DecideUnknown(w) PROVE TypeInv'
  BY <1>5 DEF DecideUnknown, vars
<1>6. ASSUME NEW w \in WriteId, Approve(w) PROVE TypeInv'
  BY <1>6, Built, NoneAssumption DEF Approve, Emit
<1>7. ASSUME NEW w \in WriteId, RetryApproved(w) PROVE TypeInv'
  BY <1>7, Built, NoneAssumption DEF RetryApproved
<1>8. ASSUME NEW w \in WriteId, Reject(w) PROVE TypeInv'
  BY <1>8, Built, NoneAssumption DEF Reject, Emit
<1>9. ASSUME NEW w \in WriteId, RejectApproved(w) PROVE TypeInv'
  BY <1>9, Built DEF RejectApproved, DeadLetter
<1>10. CASE RecordEvent
  BY <1>10 DEF RecordEvent
<1>11. CASE Publish
  BY <1>11, Built DEF Publish, Return
<1>12. CASE RecordDeadLetter
  BY <1>12 DEF RecordDeadLetter
<1>13. CASE PublishDeadLetter
  BY <1>13, Built DEF PublishDeadLetter, Return
<1>14. ASSUME pc \in {"check", "put", "reply"}
       PROVE  Key \in Tenant \X Platform /\ Link \in Tenant \X Platform
  BY <1>14, Addressing DEF Key, Link
<1>15. CASE CheckBreaker
  <2>1. job.cause \in Trigger /\ job.w \in WriteId /\ Key \in Tenant \X Platform
    BY <1>15, <1>14 DEF CheckBreaker
  <2>2. CASE admits(breaker[Key])
    <3>1. breaker' \in [Tenant \X Platform -> Breaker]
      BY <1>15, <2>1, <2>2, BreakerType DEF CheckBreaker
    <3> QED BY <1>15, <2>1, <2>2, <3>1 DEF CheckBreaker
  <2>3. CASE ~admits(breaker[Key])
    BY <1>15, <2>1, <2>3, Quarantined DEF CheckBreaker
  <2> QED BY <2>2, <2>3
<1>16. ASSUME ExecuteFailed, pc \in {"put", "reply"},
              UNCHANGED erp, faults' \in 0..MaxFaults
       PROVE  TypeInv'
  <2>1. streak' \in [Tenant \X Platform -> 0..Threshold]
    BY <1>16, <1>14, ThresholdAssumption DEF ExecuteFailed
  <2>2. breaker' \in [Tenant \X Platform -> Breaker]
    BY <1>16, <1>14, BreakerType DEF ExecuteFailed
  <2>3. /\ pc' \in {"idle", "quarantine"} /\ job' \in Job
        /\ pc' # "idle" => job'.cause \in Trigger
    BY <1>16, Quarantined, Built DEF ExecuteFailed, Return
  <2> QED BY <1>16, <2>1, <2>2, <2>3 DEF ExecuteFailed
<1>17. CASE ApplyRefused
  BY <1>17, <1>16 DEF ApplyRefused
<1>18. CASE ApplyFails
  BY <1>18, <1>16, BoundAssumption DEF ApplyFails, Fault
<1>19. CASE ApplyLands
  <2>1. erp_address(job.w) \in Address /\ ops[job.w].payload \in Payload
    BY <1>19, Addressing DEF ApplyLands, erp_address
  <2> QED BY <1>19, <2>1 DEF ApplyLands
<1>20. CASE ReplyLost
  BY <1>20, <1>16, BoundAssumption DEF ReplyLost, Fault
<1>21. CASE ReplyOk
  BY <1>21, <1>14, Built, BreakerType, ThresholdAssumption DEF ReplyOk, Emit
<1>22. CASE Crash
  BY <1>22, Built, NewBreakerType, BoundAssumption DEF Crash, Return
<1>23. ASSUME NEW r \in Edited, NEW v \in Payload, ErpEdit(r, v) PROVE TypeInv'
  BY <1>23, Addressing, InputAssumption DEF ErpEdit
<1>24. CASE Tick
  BY <1>24, BreakerType DEF Tick
<1>25. CASE UNCHANGED vars
  BY <1>25 DEF vars
<1> QED
  <2>1. \A w \in WriteId : /\ [kind |-> "propose", w |-> None] \in Trigger
                           /\ [kind |-> "reverse", w |-> w] \in Trigger
    BY Built
  <2> QED BY <2>1, <1>1, <1>2, <1>3, <1>4, <1>5, <1>6, <1>7, <1>8, <1>9, <1>10,
             <1>11, <1>12, <1>13, <1>15, <1>17, <1>18, <1>19, <1>20, <1>21,
             <1>22, <1>23, <1>24, <1>25
          DEF Next, Handle, Deliver

\* Every variable of the write agent keeps its type, whatever is delivered and
\* whatever fails (write_agent.py, breaker.py).
THEOREM TypeCorrect == Spec => []TypeOK
<1>1. TypeInv => TypeOK
  BY DEF TypeInv
<1> QED BY <1>1, TypeInit, TypeNext, PTL DEF Spec

-----------------------------------------------------------------------------
(* The approval gate.                                                      *)

\* What the log holds for a write in _pending: its stage, or one less while the
\* event of that stage is about to be recorded.
PendingLogged ==
    \A w \in WriteId :
        /\ ops[w] = None => log[w] = {}
        /\ pending[w] = "requested" =>
               \/ log[w] = {"requested"}
               \/ pc = "record" /\ job.w = w
        /\ pending[w] = "approved" =>
               \/ log[w] = {"requested", "approved"}
               \/ pc = "record" /\ job.w = w

\* What the log and the ERP hold for the write the handler works on.
RunningLogged ==
    /\ pc = "record" =>
        \/ /\ job.subject = "requested" /\ pending[job.w] = "requested"
           /\ log[job.w] = {}
        \/ /\ job.subject = "approved" /\ pending[job.w] = "approved"
           /\ log[job.w] = {"requested"}
        \/ /\ job.subject = "rejected" /\ pending[job.w] = None
           /\ log[job.w] = {"requested"}
        \/ /\ job.subject = "completed" /\ pending[job.w] = None
           /\ log[job.w] = {"requested", "approved"} /\ job.w \in landed
    /\ pc \in {"check", "put", "reply"} \/ (pc = "publish" /\ job.subject = "approved") =>
           /\ pending[job.w] = "approved"
           /\ log[job.w] = {"requested", "approved"}
    /\ pc = "reply" => job.w \in landed

\* The only audit trails there are.
Trails == {{}, {"requested"}, {"requested", "approved"}, {"requested", "rejected"},
           {"requested", "approved", "completed"}}

LogShape == \A w \in WriteId : log[w] \in Trails

GateInv == TypeInv /\ PendingLogged /\ RunningLogged /\ LogShape /\ ApprovalGate

\* The gate's inductive invariant holds of an agent that has seen nothing.
LEMMA GateInit == Init => GateInv
<1> SUFFICES ASSUME Init PROVE GateInv
  OBVIOUS
<1>1. TypeInv
  BY TypeInit
<1>2. PendingLogged
  BY NoneAssumption DEF Init, PendingLogged
<1>3. RunningLogged
  BY DEF Init, RunningLogged
<1>4. LogShape /\ ApprovalGate
  BY DEF Init, LogShape, Trails, ApprovalGate
<1> QED BY <1>1, <1>2, <1>3, <1>4 DEF GateInv

\* The trails grow along the gate's edges.
LEMMA TrailEdges ==
    /\ {} \cup {"requested"} = {"requested"}
    /\ {"requested"} \cup {"approved"} = {"requested", "approved"}
    /\ {"requested"} \cup {"rejected"} = {"requested", "rejected"}
    /\ {"requested", "approved"} \cup {"completed"}
           = {"requested", "approved", "completed"}
  OBVIOUS

\* The handler steps that leave the log and the ERP alone, and the crash.
LEMMA GateQuiet ==
    ASSUME GateInv, TypeInv',
           UNCHANGED <<log, landed>>,
           \A w \in WriteId : ops[w] # None => ops'[w] = ops[w],
           \A w \in WriteId : pending'[w] \in {pending[w], None},
           pc # "record",
           pc' \in {"idle", "quarantine", "alert"}
    PROVE  GateInv'
<1>1. PendingLogged'
  BY NoneAssumption DEF GateInv, PendingLogged, TypeInv, TypeOK
<1>2. RunningLogged'
  BY DEF RunningLogged
<1>3. LogShape' /\ ApprovalGate'
  BY DEF GateInv, LogShape, ApprovalGate
<1> QED BY <1>1, <1>2, <1>3 DEF GateInv

\* Every step of the write agent keeps the gate's inductive invariant.
LEMMA GateNext == GateInv /\ [Next]_vars => GateInv'
<1> SUFFICES ASSUME GateInv, [Next]_vars PROVE GateInv'
  OBVIOUS
<1>a. TypeInv /\ TypeInv'
  BY TypeNext DEF GateInv
<1> USE DEF agentVars, auditVars, erpVars
<1>1. ASSUME NEW w \in WriteId, NEW o, NEW c, pc = "idle", Hold(w, o, c),
             o # None
      PROVE  GateInv'
  <2>1. PendingLogged'
    BY <1>1, <1>a, NoneAssumption DEF GateInv, PendingLogged, Hold, Emit, TypeInv, TypeOK
  <2>2. RunningLogged'
    BY <1>1, <1>a DEF GateInv, PendingLogged, RunningLogged, Hold, Emit, TypeInv, TypeOK
  <2>3. LogShape' /\ ApprovalGate'
    BY <1>1 DEF GateInv, LogShape, ApprovalGate, Hold
  <2> QED BY <1>a, <2>1, <2>2, <2>3 DEF GateInv
<1>2. ASSUME NEW w \in WriteId, NEW p \in Proposals, Propose(w, p)
      PROVE  GateInv'
  <2> DEFINE o == [tenant |-> p.tenant, platform |-> p.platform,
                   operation |-> p.operation, target |-> p.target,
                   payload |-> p.payload, reverses |-> None]
  <2>1. o \in Operation
    BY InputAssumption DEF Proposal, Operation
  <2>2. o # None
    BY <2>1, NoneAssumption
  <2> QED BY <1>2, <1>1, <2>2 DEF Propose
<1>3. ASSUME NEW w \in WriteId, NEW w0 \in WriteId, NEW d \in Compensations,
             Reverse(w0, w, d)
      PROVE  GateInv'
  <2> DEFINE o == [tenant |-> ops[w0].tenant, platform |-> ops[w0].platform,
                   operation |-> d.operation, target |-> None,
                   payload |-> d.payload, reverses |-> w0]
  <2>1. ops[w0] \in Operation
    BY <1>3, <1>a DEF Reverse, TypeInv, TypeOK, Known
  <2>2. o \in Operation
    BY <2>1, Addressing, InputAssumption DEF Operation, Target
  <2>3. o # None
    BY <2>2, NoneAssumption
  <2> QED BY <1>3, <1>1, <2>3 DEF Reverse
<1>4. ASSUME NEW w \in WriteId, ReverseUnknown(w) PROVE GateInv'
  BY <1>4, <1>a, GateQuiet DEF ReverseUnknown, DeadLetter
<1>5. ASSUME NEW c \in Trigger, DryRunFails(c) PROVE GateInv'
  BY <1>5, <1>a, GateQuiet DEF DryRunFails, DeadLetter
<1>6. ASSUME UNCHANGED vars PROVE GateInv'
  BY <1>6, <1>a DEF vars, GateInv, PendingLogged, RunningLogged, LogShape, ApprovalGate
<1>7. ASSUME NEW w \in WriteId, DecideUnknown(w) PROVE GateInv'
  BY <1>7, <1>6 DEF DecideUnknown
<1>8. ASSUME NEW w \in WriteId, Approve(w) PROVE GateInv'
  <2>1. PendingLogged' /\ RunningLogged'
    BY <1>8, <1>a, NoneAssumption
    DEF Approve, Emit, GateInv, PendingLogged, RunningLogged, TypeInv, TypeOK
  <2> QED BY <1>8, <1>a, <2>1 DEF Approve, GateInv, LogShape, ApprovalGate
<1>9. ASSUME NEW w \in WriteId, RetryApproved(w) PROVE GateInv'
  <2>1. PendingLogged' /\ RunningLogged'
    BY <1>9, <1>a DEF RetryApproved, GateInv, PendingLogged, RunningLogged
  <2> QED BY <1>9, <1>a, <2>1 DEF RetryApproved, GateInv, LogShape, ApprovalGate
<1>10. ASSUME NEW w \in WriteId, Reject(w) PROVE GateInv'
  <2>1. PendingLogged' /\ RunningLogged'
    BY <1>10, <1>a, NoneAssumption
    DEF Reject, Emit, GateInv, PendingLogged, RunningLogged, TypeInv, TypeOK
  <2> QED BY <1>10, <1>a, <2>1 DEF Reject, GateInv, LogShape, ApprovalGate
<1>11. ASSUME NEW w \in WriteId, RejectApproved(w) PROVE GateInv'
  BY <1>11, <1>a, GateQuiet DEF RejectApproved, DeadLetter
<1>12. CASE RecordEvent
  <2>1. job.w \in WriteId /\ pc = "record"
    BY <1>12, <1>a DEF RecordEvent, TypeInv, Known
  <2>2. /\ log'[job.w] \in Trails
        /\ pending[job.w] = "requested" => log'[job.w] = {"requested"}
        /\ pending[job.w] = "approved" => log'[job.w] = {"requested", "approved"}
        /\ job.subject = "approved" => pending[job.w] = "approved"
        /\ log[job.w] \subseteq log'[job.w]
        /\ \A w \in WriteId \ {job.w} : log'[w] = log[w]
    BY <1>12, <1>a, <2>1, TrailEdges, NoneAssumption
    DEF RecordEvent, GateInv, RunningLogged, Trails, TypeInv, TypeOK
  <2>3. PendingLogged'
    BY <1>12, <1>a, <2>1, <2>2 DEF RecordEvent, GateInv, PendingLogged, TypeInv, Known
  <2>4. RunningLogged'
    BY <1>12, <1>a, <2>1, <2>2 DEF RecordEvent, GateInv, RunningLogged
  <2>5. LogShape' /\ ApprovalGate'
    BY <1>12, <1>a, <2>1, <2>2 DEF RecordEvent, GateInv, LogShape, ApprovalGate,
                                  TypeInv, TypeOK
  <2> QED BY <1>a, <2>3, <2>4, <2>5 DEF GateInv
<1>13. CASE Publish
  <2>1. PendingLogged' /\ RunningLogged'
    BY <1>13, <1>a DEF Publish, Return, GateInv, PendingLogged, RunningLogged
  <2> QED BY <1>13, <1>a, <2>1 DEF Publish, GateInv, LogShape, ApprovalGate
<1>14. CASE RecordDeadLetter
  BY <1>14, <1>a, GateQuiet DEF RecordDeadLetter
<1>15. CASE PublishDeadLetter
  BY <1>15, <1>a, GateQuiet DEF PublishDeadLetter, Return
<1>16. CASE CheckBreaker
  <2>1. CASE admits(breaker[Key])
    <3>1. PendingLogged' /\ RunningLogged'
      BY <1>16, <2>1, <1>a DEF CheckBreaker, GateInv, PendingLogged, RunningLogged
    <3> QED BY <1>16, <1>a, <3>1 DEF CheckBreaker, GateInv, LogShape, ApprovalGate
  <2>2. CASE ~admits(breaker[Key])
    BY <1>16, <2>2, <1>a, GateQuiet DEF CheckBreaker, DeadLetter
  <2> QED BY <2>1, <2>2
<1>17. ASSUME pc \in {"put", "reply"}, ExecuteFailed PROVE GateInv'
  BY <1>17, <1>a, GateQuiet DEF ExecuteFailed, DeadLetter, Return
<1>18. CASE ApplyRefused \/ ApplyFails \/ ReplyLost
  BY <1>18, <1>17 DEF ApplyRefused, ApplyFails, ReplyLost
<1>19. CASE ApplyLands
  <2>1. PendingLogged' /\ RunningLogged'
    BY <1>19, <1>a DEF ApplyLands, GateInv, PendingLogged, RunningLogged
  <2>2. ApprovalGate'
    BY <1>19 DEF ApplyLands, GateInv, RunningLogged, ApprovalGate
  <2> QED BY <1>19, <1>a, <2>1, <2>2 DEF ApplyLands, GateInv, LogShape
<1>20. CASE ReplyOk
  <2>1. PendingLogged' /\ RunningLogged'
    BY <1>20, <1>a, NoneAssumption
    DEF ReplyOk, Emit, GateInv, PendingLogged, RunningLogged, TypeInv, TypeOK, Known
  <2> QED BY <1>20, <1>a, <2>1 DEF ReplyOk, GateInv, LogShape, ApprovalGate
<1>21. CASE Crash
  <2>1. PendingLogged' /\ RunningLogged'
    BY <1>21, NoneAssumption DEF Crash, Return, GateInv, PendingLogged, RunningLogged
  <2> QED BY <1>21, <1>a, <2>1 DEF Crash, GateInv, LogShape, ApprovalGate
<1>22. ASSUME NEW r \in Edited, NEW v \in Payload, ErpEdit(r, v) PROVE GateInv'
  BY <1>22, <1>a DEF ErpEdit, GateInv, PendingLogged, RunningLogged, LogShape,
                     ApprovalGate
<1>23. CASE Tick
  BY <1>23, <1>a DEF Tick, GateInv, PendingLogged, RunningLogged, LogShape,
                     ApprovalGate
<1> QED
  <2>1. \A w \in WriteId : /\ [kind |-> "propose", w |-> None] \in Trigger
                           /\ [kind |-> "reverse", w |-> w] \in Trigger
    BY Built
  <2> QED BY <2>1, <1>2, <1>3, <1>4, <1>5, <1>6, <1>7, <1>8, <1>9, <1>10, <1>11,
             <1>12, <1>13, <1>14, <1>15, <1>16, <1>18, <1>19, <1>20, <1>21,
             <1>22, <1>23
          DEF Next, Handle, Deliver

\* The gate's inductive invariant holds throughout (write_agent.py, write.py).
LEMMA GateInvariant == Spec => []GateInv
  BY GateInit, GateNext, PTL DEF Spec

\* No write reaches the ERP before its approval is durable in the event log, for any
\* number of writes, replays, faults and crashes (write_agent.py _decide, _execute).
THEOREM GateHolds == Spec => []ApprovalGate
<1>1. GateInv => ApprovalGate
  BY DEF GateInv
<1> QED BY <1>1, GateInvariant, PTL

\* A rejected write is never approved and never applied (write.py _ALLOWED, reject).
THEOREM RejectionIsFinal == Spec => []RejectedNeverApplied
<1>1. GateInv => RejectedNeverApplied
  BY DEF GateInv, LogShape, Trails, ApprovalGate, RejectedNeverApplied
<1> QED BY <1>1, GateInvariant, PTL

-----------------------------------------------------------------------------
(* Refinement: recording an event is the gate's step, and so is the PUT;   *)
(* everything else leaves the audit trail and the ERP's changes alone.     *)

\* Each step of the agent is a step of the abstract gate, or changes neither the audit
\* trail nor the ERP.
LEMMA GateStep == GateInv /\ [Next]_vars => [Gate!Next]_(Gate!vars)
<1> SUFFICES ASSUME GateInv, [Next]_vars PROVE [Gate!Next]_(Gate!vars)
  OBVIOUS
<1> USE DEF agentVars, auditVars, erpVars
<1>1. CASE RecordEvent
  <2>1. job.w \in WriteId /\ pc = "record" /\ log \in [WriteId -> SUBSET Subject]
    BY <1>1 DEF RecordEvent, GateInv, TypeInv, TypeOK, Known
  <2>2. /\ log' = [log EXCEPT ![job.w] = log[job.w] \cup {job.subject}]
        /\ UNCHANGED landed
    BY <1>1 DEF RecordEvent
  <2>3. CASE job.subject = "requested"
    <3>1. log[job.w] = {}
      BY <2>1, <2>3 DEF GateInv, RunningLogged
    <3>2. log' = [log EXCEPT ![job.w] = {"requested"}]
      BY <2>2, <2>3, <3>1, TrailEdges
    <3>3. Gate!Request(job.w)
      BY <2>2, <3>1, <3>2 DEF Gate!Request
    <3> QED BY <2>1, <3>3 DEF Gate!Next
  <2>4. CASE job.subject \in {"approved", "rejected"}
    <3>1. log[job.w] = {"requested"}
      BY <2>1, <2>4 DEF GateInv, RunningLogged
    <3>2. Gate!Decide(job.w, job.subject)
      BY <2>2, <3>1 DEF Gate!Decide
    <3> QED BY <2>1, <2>4, <3>2 DEF Gate!Next
  <2>5. CASE job.subject = "completed"
    <3>1. log[job.w] = {"requested", "approved"} /\ job.w \in landed
      BY <2>1, <2>5 DEF GateInv, RunningLogged
    <3>2. Gate!Complete(job.w)
      BY <2>2, <2>5, <3>1 DEF Gate!Complete
    <3> QED BY <2>1, <3>2 DEF Gate!Next
  <2> QED BY <2>1, <2>3, <2>4, <2>5 DEF GateInv, TypeInv, Known
<1>2. CASE ApplyLands
  <2>1. job.w \in WriteId /\ "approved" \in log[job.w]
    BY <1>2 DEF ApplyLands, GateInv, TypeInv, Known, RunningLogged
  <2>2. Gate!Apply(job.w)
    BY <1>2, <2>1 DEF ApplyLands, Gate!Apply
  <2> QED BY <2>1, <2>2 DEF Gate!Next
<1>3. ASSUME Next, ~RecordEvent, ~ApplyLands PROVE UNCHANGED <<log, landed>>
  <2>1. CASE Deliver
    BY <2>1 DEF Deliver, Propose, Reverse, Hold, ReverseUnknown, DryRunFails,
       DecideUnknown, Approve, RetryApproved, Reject, RejectApproved, vars
  <2>2. CASE Handle
    BY <1>3, <2>2 DEF Handle, Publish, RecordDeadLetter, PublishDeadLetter, CheckBreaker,
       ApplyRefused, ApplyFails, ReplyLost, ExecuteFailed, ReplyOk
  <2>3. CASE \/ Crash \/ Tick
             \/ \E r \in Edited, v \in Payload : ErpEdit(r, v)
    BY <2>3 DEF Crash, Tick, ErpEdit
  <2> QED BY <1>3, <2>1, <2>2, <2>3 DEF Next
<1>4. CASE UNCHANGED vars
  BY <1>4 DEF vars, Gate!vars
<1> QED BY <1>1, <1>2, <1>3, <1>4 DEF Gate!vars

\* The agent, with its crashes, lost replies and replays, implements the abstract gate
\* (write.py, write_agent.py).
THEOREM Refinement == Spec => ImplementsGate
<1>1. Init => Gate!Init
  BY DEF Init, Gate!Init
<1> QED BY <1>1, GateInvariant, GateStep, PTL DEF Spec, ImplementsGate, Gate!Spec

-----------------------------------------------------------------------------
(* The circuit breaker in its place: nobody is wedged, nobody is exposed,  *)
(* nobody pays for another tenant's outage.                                *)

\* What each operation of the breaker does to the fields.
LEMMA BreakerFields ==
    ASSUME NEW b \in Breaker
    PROVE  /\ check(b).failures = b.failures /\ check(b).opened = b.opened
           /\ check(b).age = b.age
           /\ check(b).probing <=> b.probing \/ state(b) = "half_open"
           /\ tick(b).failures = b.failures /\ tick(b).opened = b.opened
           /\ tick(b).probing = b.probing
           /\ state(b) = "half_open" => tick(b) = b
           /\ record_success(b).failures = 0 /\ ~record_success(b).opened
           /\ ~record_success(b).probing
           /\ ~record_failure(b).probing
           /\ record_failure(b).opened <=> b.opened \/ b.failures + 1 >= Threshold
           /\ record_failure(b).failures =
                  IF b.failures < Threshold THEN b.failures + 1 ELSE Threshold
<1>1. /\ b = [failures |-> b.failures, opened |-> b.opened, age |-> b.age,
              probing |-> b.probing]
      /\ b.failures \in 0..Threshold /\ b.age \in 0..Cooldown
      /\ b.opened \in BOOLEAN /\ b.probing \in BOOLEAN
  BY DEF Breaker
<1>2. /\ check(b).failures = b.failures /\ check(b).opened = b.opened
      /\ check(b).age = b.age
      /\ check(b).probing <=> b.probing \/ state(b) = "half_open"
  BY <1>1 DEF check
<1>3. /\ tick(b).failures = b.failures /\ tick(b).opened = b.opened
      /\ tick(b).probing = b.probing
  <2>1. CASE b.opened /\ b.age < Cooldown
    BY <1>1, <2>1 DEF tick
  <2>2. CASE ~(b.opened /\ b.age < Cooldown)
    BY <2>2 DEF tick
  <2> QED BY <2>1, <2>2
<1>4. state(b) = "half_open" => tick(b) = b
  BY <1>1, CooldownAssumption DEF state, tick
<1>5. /\ record_success(b).failures = 0 /\ ~record_success(b).opened
      /\ ~record_success(b).probing
  BY <1>1 DEF record_success
<1>6. /\ ~record_failure(b).probing
      /\ record_failure(b).opened <=> b.opened \/ b.failures + 1 >= Threshold
      /\ record_failure(b).failures =
             IF b.failures < Threshold THEN b.failures + 1 ELSE Threshold
  BY <1>1 DEF record_failure, trips
<1> QED BY <1>2, <1>3, <1>4, <1>5, <1>6

\* A breaker has counted no more failures than the connection had in a row (a
\* restarted agent has counted fewer).
FailuresCounted == \A k \in Tenant \X Platform : breaker[k].failures <= streak[k]

BreakerInv == /\ TypeInv /\ FailuresCounted
              /\ ProbeNeverWedged /\ OpenBreakerShieldsErp /\ OutageIsolated

\* The breakers' inductive invariant holds of freshly created breakers.
LEMMA BreakerInit == Init => BreakerInv
  BY TypeInit, ThresholdAssumption
  DEF Init, BreakerInv, FailuresCounted, ProbeNeverWedged, OpenBreakerShieldsErp,
      OutageIsolated, NewBreaker

\* A step that leaves the breakers and the ERP's answers alone, outside an ERP call.
LEMMA BreakerQuiet ==
    ASSUME BreakerInv, TypeInv', UNCHANGED <<breaker, streak>>,
           pc \notin {"put", "reply"}, pc' \notin {"put", "reply"}
    PROVE  BreakerInv'
  BY DEF BreakerInv, FailuresCounted, ProbeNeverWedged, OpenBreakerShieldsErp,
         OutageIsolated

\* Every step of the write agent keeps the breakers' inductive invariant.
LEMMA BreakerNext == BreakerInv /\ [Next]_vars => BreakerInv'
<1> SUFFICES ASSUME BreakerInv, [Next]_vars PROVE BreakerInv'
  OBVIOUS
<1>a. TypeInv /\ TypeInv'
  BY TypeNext DEF BreakerInv
<1>b. /\ breaker \in [Tenant \X Platform -> Breaker]
      /\ streak \in [Tenant \X Platform -> 0..Threshold]
      /\ \A k \in Tenant \X Platform :
            breaker[k].failures \in 0..Threshold /\ breaker[k].opened \in BOOLEAN
  BY <1>a DEF TypeInv, TypeOK, Breaker
<1> USE DEF agentVars, auditVars, erpVars
<1>1. CASE Deliver
  BY <1>1, <1>a, BreakerQuiet
  DEF Deliver, Propose, Reverse, Hold, Emit, ReverseUnknown, DryRunFails, DeadLetter,
      DecideUnknown, Approve, RetryApproved, Reject, RejectApproved, vars
<1>2. CASE RecordEvent \/ Publish \/ RecordDeadLetter \/ PublishDeadLetter
  BY <1>2, <1>a, BreakerQuiet
  DEF RecordEvent, Publish, RecordDeadLetter, PublishDeadLetter, Return
<1>3. ASSUME pc \in {"check", "put", "reply"}
      PROVE  Key \in Tenant \X Platform /\ Link = Key
  BY <1>3, <1>a, Addressing DEF Key, Link, breaker_key, TypeInv, TypeOK, Known
<1>4. CASE CheckBreaker
  <2>1. CASE ~admits(breaker[Key])
    BY <1>4, <2>1, <1>a, BreakerQuiet DEF CheckBreaker, DeadLetter
  <2>2. CASE admits(breaker[Key])
    <3>1. /\ pc = "check" /\ pc' = "put" /\ UNCHANGED <<job, ops, streak>>
          /\ breaker' = [breaker EXCEPT ![Key] = check(breaker[Key])]
      BY <1>4, <2>2 DEF CheckBreaker
    <3>2. Key \in Tenant \X Platform /\ Key' = Key
      BY <3>1, <1>3 DEF Key, breaker_key
    <3>3. \A k \in Tenant \X Platform :
             /\ breaker'[k].failures = breaker[k].failures
             /\ breaker'[k].opened = breaker[k].opened
             /\ k # Key => breaker'[k] = breaker[k]
      BY <3>1, <3>2, <1>b, BreakerFields
    <3>4. FailuresCounted' /\ OutageIsolated'
      BY <3>1, <3>3 DEF BreakerInv, FailuresCounted, OutageIsolated
    <3>5. ProbeNeverWedged'
      BY <3>1, <3>2, <3>3 DEF BreakerInv, ProbeNeverWedged
    <3>6. /\ state(breaker'[Key]) = state(breaker[Key])
          /\ state(breaker[Key]) = "half_open" => breaker'[Key].probing
      BY <3>1, <3>2, <1>b, BreakerFields DEF state
    <3>7. OpenBreakerShieldsErp'
      BY <3>2, <3>6, <2>2 DEF OpenBreakerShieldsErp, admits, state
    <3> QED BY <1>a, <3>4, <3>5, <3>7 DEF BreakerInv
  <2> QED BY <2>1, <2>2
<1>5. ASSUME pc \in {"put", "reply"}, ExecuteFailed PROVE BreakerInv'
  <2>1. /\ Key \in Tenant \X Platform /\ Link = Key
        /\ breaker' = [breaker EXCEPT ![Key] = record_failure(breaker[Key])]
        /\ streak' = [streak EXCEPT ![Key] =
                         IF streak[Key] < Threshold THEN streak[Key] + 1 ELSE streak[Key]]
        /\ pc' \in {"idle", "quarantine"}
    BY <1>5, <1>3 DEF ExecuteFailed, DeadLetter, Return
  <2>2. /\ streak'[Key] = IF streak[Key] < Threshold THEN streak[Key] + 1
                          ELSE streak[Key]
        /\ breaker'[Key] = record_failure(breaker[Key])
        /\ \A k \in Tenant \X Platform : k # Key =>
               breaker'[k] = breaker[k] /\ streak'[k] = streak[k]
    BY <2>1, <1>b
  <2>3. /\ breaker[Key].failures <= streak[Key]
        /\ breaker[Key].opened => streak[Key] = Threshold
    BY <2>1 DEF BreakerInv, FailuresCounted, OutageIsolated
  <2>4. /\ breaker'[Key].failures <= streak'[Key]
        /\ breaker'[Key].opened => streak'[Key] = Threshold
    <3>1. /\ breaker[Key] \in Breaker /\ streak[Key] \in 0..Threshold
          /\ breaker[Key].failures \in 0..Threshold
      BY <2>1, <1>b
    <3>2. /\ breaker'[Key].failures = IF breaker[Key].failures < Threshold
                                      THEN breaker[Key].failures + 1 ELSE Threshold
          /\ breaker'[Key].opened <=>
                breaker[Key].opened \/ breaker[Key].failures + 1 >= Threshold
      BY <2>2, <3>1, BreakerFields
    <3>3. streak'[Key] = IF streak[Key] < Threshold THEN streak[Key] + 1
                         ELSE streak[Key]
      BY <2>2
    <3>4. streak[Key] = Threshold => streak'[Key] = Threshold
      BY <3>1, <3>3, ThresholdAssumption
    <3>5. /\ breaker'[Key].failures <= streak'[Key]
          /\ breaker[Key].failures + 1 >= Threshold => streak'[Key] = Threshold
      <4> DEFINE f == breaker[Key].failures
                 s == streak[Key]
                 g == breaker'[Key].failures
                 t == streak'[Key]
      <4>1. /\ f \in 0..Threshold /\ s \in 0..Threshold /\ f <= s
            /\ g = (IF f < Threshold THEN f + 1 ELSE Threshold)
            /\ t = (IF s < Threshold THEN s + 1 ELSE s)
        BY <2>3, <3>1, <3>2, <3>3
      <4> HIDE DEF f, s, g, t
      <4>2. g <= t /\ (f + 1 >= Threshold => t = Threshold)
        BY <4>1, ThresholdAssumption
      <4> QED BY <4>2 DEF f, s, g, t
    <3>6. breaker[Key].opened => streak'[Key] = Threshold
      BY <2>3, <3>4
    <3> QED BY <3>2, <3>5, <3>6, Zenon
  <2>5. FailuresCounted' /\ OutageIsolated'
    BY <2>2, <2>4 DEF BreakerInv, FailuresCounted, OutageIsolated
  <2>6. ProbeNeverWedged'
    BY <1>5, <2>1, <2>2, <1>b, BreakerFields DEF BreakerInv, ProbeNeverWedged
  <2>7. OpenBreakerShieldsErp'
    BY <2>1 DEF OpenBreakerShieldsErp
  <2> QED BY <1>a, <2>5, <2>6, <2>7 DEF BreakerInv
<1>6. CASE ApplyRefused \/ ApplyFails \/ ReplyLost
  BY <1>6, <1>5 DEF ApplyRefused, ApplyFails, ReplyLost
<1>7. CASE ApplyLands
  BY <1>7, <1>a DEF ApplyLands, BreakerInv, FailuresCounted, ProbeNeverWedged,
                    OpenBreakerShieldsErp, OutageIsolated, Key
<1>8. CASE ReplyOk
  <2>1. /\ Key \in Tenant \X Platform /\ Link = Key /\ pc' = "record"
        /\ breaker' = [breaker EXCEPT ![Key] = record_success(breaker[Key])]
        /\ streak' = [streak EXCEPT ![Key] = 0]
        /\ pc = "reply"
    BY <1>8, <1>3 DEF ReplyOk, Emit
  <2>2. /\ streak'[Key] = 0 /\ breaker'[Key] = record_success(breaker[Key])
        /\ \A k \in Tenant \X Platform : k # Key =>
               breaker'[k] = breaker[k] /\ streak'[k] = streak[k]
    BY <2>1, <1>b
  <2>3. FailuresCounted' /\ OutageIsolated'
    BY <2>1, <2>2, <1>b, BreakerFields DEF BreakerInv, FailuresCounted, OutageIsolated
  <2>4. ProbeNeverWedged'
    BY <2>1, <2>2, <1>b, BreakerFields DEF BreakerInv, ProbeNeverWedged
  <2>5. OpenBreakerShieldsErp'
    BY <2>1 DEF OpenBreakerShieldsErp
  <2> QED BY <1>a, <2>3, <2>4, <2>5 DEF BreakerInv
<1>9. CASE Crash
  <2>1. /\ \A k \in Tenant \X Platform : breaker'[k] = NewBreaker
        /\ pc' = "idle" /\ UNCHANGED streak
    BY <1>9 DEF Crash, Return
  <2> QED BY <2>1, <1>a, <1>b DEF BreakerInv, FailuresCounted, ProbeNeverWedged,
             OpenBreakerShieldsErp, OutageIsolated, NewBreaker
<1>10. ASSUME NEW r \in Edited, NEW v \in Payload, ErpEdit(r, v) PROVE BreakerInv'
  BY <1>10, <1>a DEF ErpEdit, BreakerInv, FailuresCounted, ProbeNeverWedged,
                     OpenBreakerShieldsErp, OutageIsolated, Key
<1>11. CASE Tick
  <2>1. /\ \A k \in Tenant \X Platform : breaker'[k] = tick(breaker[k])
        /\ UNCHANGED <<pc, job, ops, streak>> /\ Key' = Key
    BY <1>11 DEF Tick, Key, breaker_key
  <2>2. FailuresCounted' /\ OutageIsolated' /\ ProbeNeverWedged'
    BY <2>1, <1>b, BreakerFields DEF BreakerInv, FailuresCounted, ProbeNeverWedged,
                                     OutageIsolated
  <2>3. OpenBreakerShieldsErp'
    BY <2>1, <1>b, <1>3, BreakerFields DEF BreakerInv, OpenBreakerShieldsErp, state
  <2> QED BY <1>a, <2>2, <2>3 DEF BreakerInv
<1>12. CASE UNCHANGED vars
  BY <1>12, <1>a DEF vars, BreakerInv, FailuresCounted, ProbeNeverWedged,
                     OpenBreakerShieldsErp, OutageIsolated, Key
<1> QED BY <1>1, <1>2, <1>4, <1>6, <1>7, <1>8, <1>9, <1>10, <1>11, <1>12
        DEF Next, Handle

\* The breakers' inductive invariant holds throughout (breaker.py, _execute).
LEMMA BreakerInvariant == Spec => []BreakerInv
  BY BreakerInit, BreakerNext, PTL DEF Spec

\* The probe always reports back: a breaker is probing only while the ERP call it let
\* through is running, so no tenant is refused for ever (breaker.py, _execute).
THEOREM NoWedgedProbe == Spec => []ProbeNeverWedged
<1>1. BreakerInv => ProbeNeverWedged
  BY DEF BreakerInv
<1> QED BY <1>1, BreakerInvariant, PTL

\* Behind an open breaker the ERP is left alone (breaker.check before apply).
THEOREM ErpIsShielded == Spec => []OpenBreakerShieldsErp
<1>1. BreakerInv => OpenBreakerShieldsErp
  BY DEF BreakerInv
<1> QED BY <1>1, BreakerInvariant, PTL

\* A tenant's breaker opens only on its own connection's failures in a row.
THEOREM OutageStaysIsolated == Spec => []OutageIsolated
<1>1. BreakerInv => OutageIsolated
  BY DEF BreakerInv
<1> QED BY <1>1, BreakerInvariant, PTL

-----------------------------------------------------------------------------
(* Durable first: emit and _dead_letter.                                   *)

\* The event about to be published is the one just recorded.
OutboxInv == /\ TypeInv
             /\ PublishedIsRecorded
             /\ pc = "publish" => job.subject \in log[job.w]
             /\ pc = "alert" => job.cause \in dead

\* Every step keeps what is published inside what is recorded, and the event or dead
\* letter about to be published recorded.
LEMMA OutboxNext == OutboxInv /\ [Next]_vars => OutboxInv'
<1> SUFFICES ASSUME OutboxInv, [Next]_vars PROVE OutboxInv'
  OBVIOUS
<1>a. TypeInv /\ TypeInv'
  BY TypeNext DEF OutboxInv
<1> USE DEF agentVars, auditVars, erpVars
<1>1. ASSUME UNCHANGED auditVars, pc' \notin {"publish", "alert"} PROVE OutboxInv'
  BY <1>1, <1>a DEF OutboxInv, PublishedIsRecorded
<1>2. CASE Deliver
  BY <1>2, <1>1, <1>a
  DEF Deliver, Propose, Reverse, Hold, Emit, ReverseUnknown, DryRunFails, DeadLetter,
      DecideUnknown, Approve, RetryApproved, Reject, RejectApproved, vars, OutboxInv,
      PublishedIsRecorded
<1>3. CASE RecordEvent
  BY <1>3, <1>a DEF RecordEvent, OutboxInv, PublishedIsRecorded, TypeInv, TypeOK, Known
<1>4. CASE Publish
  BY <1>4, <1>a DEF Publish, Return, OutboxInv, PublishedIsRecorded, TypeInv, TypeOK,
                    Known
<1>5. CASE RecordDeadLetter
  BY <1>5, <1>a DEF RecordDeadLetter, OutboxInv, PublishedIsRecorded
<1>6. CASE PublishDeadLetter
  BY <1>6, <1>a DEF PublishDeadLetter, Return, OutboxInv, PublishedIsRecorded
<1>7. CASE CheckBreaker
  BY <1>7, <1>1 DEF CheckBreaker, DeadLetter
<1>8. CASE ApplyRefused \/ ApplyFails \/ ReplyLost
  BY <1>8, <1>1 DEF ApplyRefused, ApplyFails, ReplyLost, ExecuteFailed, DeadLetter, Return
<1>9. CASE ApplyLands \/ ReplyOk \/ Crash
  BY <1>9, <1>1 DEF ApplyLands, ReplyOk, Emit, Crash, Return
<1>10. CASE Tick \/ \E r \in Edited, v \in Payload : ErpEdit(r, v)
  BY <1>10, <1>a DEF Tick, ErpEdit, OutboxInv, PublishedIsRecorded
<1>11. CASE UNCHANGED vars
  BY <1>11, <1>a DEF vars, OutboxInv, PublishedIsRecorded
<1> QED BY <1>2, <1>3, <1>4, <1>5, <1>6, <1>7, <1>8, <1>9, <1>10, <1>11
        DEF Next, Handle

\* Nothing is on the bus that the durable tables do not hold, wherever the agent dies
\* (base/agent.py emit, _dead_letter).
THEOREM DurableFirst == Spec => []PublishedIsRecorded
<1>1. Init => OutboxInv
  BY TypeInit DEF Init, OutboxInv, PublishedIsRecorded
<1>2. OutboxInv => PublishedIsRecorded
  BY DEF OutboxInv
<1> QED BY <1>1, <1>2, OutboxNext, PTL DEF Spec
-----------------------------------------------------------------------------
(* Records under a Cavi key.                                               *)

\* What has landed was minted.
LandedMinted == \A w \in landed : ops[w] # None

RecordInv == TypeInv /\ CaviRecordsAreAsked /\ LandedMinted

\* Every step leaves a Cavi key to the writes that were sent there.
LEMMA RecordNext == RecordInv /\ [Next]_vars => RecordInv'
<1> SUFFICES ASSUME RecordInv, [Next]_vars PROVE RecordInv'
  OBVIOUS
<1>a. TypeInv /\ TypeInv'
  BY TypeNext DEF RecordInv
<1> USE DEF agentVars, auditVars, erpVars
<1>b. /\ \A w \in WriteId : idempotency_key(w) \in Address
      /\ \A v, w \in WriteId : idempotency_key(v) = idempotency_key(w) => v = w
      /\ \A w \in WriteId, r \in Record : idempotency_key(w) # <<"ext", r>>
      /\ \A r \in Record : <<"ext", r>> \in Address
  BY Addressing DEF idempotency_key
<1>1. ASSUME UNCHANGED <<ops, erp, landed>> PROVE RecordInv'
  BY <1>1, <1>a DEF RecordInv, CaviRecordsAreAsked, LandedMinted
<1>2. ASSUME NEW w \in WriteId, NEW o \in Operation, NEW c, Hold(w, o, c)
      PROVE  RecordInv'
  <2>1. /\ ops[w] = None /\ ops' = [ops EXCEPT ![w] = o] /\ UNCHANGED <<erp, landed>>
        /\ o # None
    BY <1>2, NoneAssumption DEF Hold
  <2>2. ops'[w] = o /\ \A v \in WriteId : v # w => ops'[v] = ops[v]
    BY <2>1, <1>a DEF TypeInv, TypeOK
  <2>3. w \notin landed /\ landed \subseteq WriteId
    BY <2>1, <1>a DEF RecordInv, LandedMinted, TypeInv, TypeOK
  <2>4. \A v \in landed : ops'[v] = ops[v]
    BY <2>2, <2>3
  <2>5. CaviRecordsAreAsked'
    <3> SUFFICES ASSUME NEW u \in WriteId, erp[idempotency_key(u)] # None
                 PROVE  \E v \in landed :
                   /\ erp[idempotency_key(u)] = ops'[v].payload
                   /\ \/ ops'[v].operation = "update" /\ ops'[v].target = idempotency_key(u)
                      \/ v = u /\ ops'[v].operation = "create"
                      \/ v = u /\ ops'[v].operation = "update" /\ ops'[v].target = Empty
      BY <2>1 DEF CaviRecordsAreAsked, idempotency_key
    <3> QED BY <2>4 DEF RecordInv, CaviRecordsAreAsked
  <2>6. LandedMinted'
    BY <2>1, <2>4 DEF RecordInv, LandedMinted
  <2> QED BY <1>a, <2>5, <2>6 DEF RecordInv
<1>3. ASSUME NEW w \in WriteId, NEW p \in Proposals, Propose(w, p) PROVE RecordInv'
  <2> DEFINE o == [tenant |-> p.tenant, platform |-> p.platform,
                   operation |-> p.operation, target |-> p.target,
                   payload |-> p.payload, reverses |-> None]
  <2>1. o \in Operation
    BY InputAssumption DEF Proposal, Operation
  <2>2. \E c : Hold(w, o, c)
    BY <1>3 DEF Propose
  <2> HIDE DEF o
  <2> QED BY <1>2, <2>1, <2>2
<1>4. ASSUME NEW w \in WriteId, NEW w0 \in WriteId, NEW d \in Compensations,
             Reverse(w0, w, d)
      PROVE  RecordInv'
  <2> DEFINE o == [tenant |-> ops[w0].tenant, platform |-> ops[w0].platform,
                   operation |-> d.operation, target |-> None,
                   payload |-> d.payload, reverses |-> w0]
  <2>1. ops[w0] \in Operation
    BY <1>4, <1>a DEF Reverse, TypeInv, TypeOK, Known
  <2>2. o \in Operation
    BY <2>1, Addressing, InputAssumption DEF Operation, Target
  <2>3. \E c : Hold(w, o, c)
    BY <1>4 DEF Reverse
  <2> HIDE DEF o
  <2> QED BY <1>2, <2>2, <2>3
<1>5. CASE ApplyLands
  <2> DEFINE w == job.w
             a == erp_address(job.w)
  <2>1. /\ w \in WriteId /\ ops[w] \in Operation /\ ops[w] # None
        /\ a \in Address /\ ops[w].payload \in Payload /\ ops[w].payload # None
    <3>1. w \in WriteId /\ ops[w] \in Operation /\ ops[w] # None
      BY <1>5, <1>a DEF ApplyLands, TypeInv, TypeOK, Known
    <3> QED BY <3>1, Addressing, NoneAssumption DEF erp_address
  <2>2. /\ erp' = [erp EXCEPT ![a] = ops[w].payload] /\ landed' = landed \cup {w}
        /\ UNCHANGED ops /\ addressable(ops[w])
    BY <1>5 DEF ApplyLands
  <2>3. /\ \A b \in Address : b # a => erp'[b] = erp[b]
        /\ erp'[a] = ops[w].payload
    BY <2>1, <2>2, <1>a DEF TypeInv, TypeOK
  <2>4. \/ a = ops[w].target /\ ops[w].operation = "update"
        \/ a = idempotency_key(w) /\ ops[w].operation = "create"
        \/ a = idempotency_key(w) /\ ops[w].operation = "update" /\ ops[w].target = Empty
    BY <2>2 DEF erp_address, addressable
  <2> HIDE DEF w, a
  <2>5. ASSUME NEW u \in WriteId, erp'[idempotency_key(u)] # None
        PROVE  \E v \in landed' :
                   /\ erp'[idempotency_key(u)] = ops'[v].payload
                   /\ \/ ops'[v].operation = "update" /\ ops'[v].target = idempotency_key(u)
                      \/ v = u /\ ops'[v].operation = "create"
                      \/ v = u /\ ops'[v].operation = "update" /\ ops'[v].target = Empty
    <3>1. CASE a = idempotency_key(u)
      <4>1. a = idempotency_key(w) => w = u
        BY <3>1, <2>1, <1>b
      <4>2. w \in landed'
        BY <2>2
      <4> QED BY <2>2, <2>3, <2>4, <3>1, <4>1, <4>2
    <3>2. CASE a # idempotency_key(u)
      <4>1. erp'[idempotency_key(u)] = erp[idempotency_key(u)]
        BY <3>2, <2>3, <1>b
      <4>2. PICK v \in landed :
                /\ erp[idempotency_key(u)] = ops[v].payload
                /\ \/ ops[v].operation = "update" /\ ops[v].target = idempotency_key(u)
                   \/ v = u /\ ops[v].operation = "create"
                   \/ v = u /\ ops[v].operation = "update" /\ ops[v].target = Empty
        BY <2>5, <4>1 DEF RecordInv, CaviRecordsAreAsked
      <4> QED BY <2>2, <4>1, <4>2
    <3> QED BY <3>1, <3>2
  <2>6. CaviRecordsAreAsked'
    BY <2>5 DEF CaviRecordsAreAsked, idempotency_key
  <2>7. LandedMinted'
    BY <2>1, <2>2 DEF RecordInv, LandedMinted
  <2> QED BY <1>a, <2>6, <2>7 DEF RecordInv
<1>6. ASSUME NEW r \in Edited, NEW v \in Payload, ErpEdit(r, v) PROVE RecordInv'
  <2>1. /\ erp' = [erp EXCEPT ![<<"ext", r>>] = v] /\ UNCHANGED <<ops, landed>>
        /\ r \in Record
    BY <1>6, InputAssumption DEF ErpEdit
  <2>2. \A w \in WriteId : erp'[idempotency_key(w)] = erp[idempotency_key(w)]
    BY <2>1, <1>a, <1>b DEF TypeInv, TypeOK
  <2>3. CaviRecordsAreAsked' /\ LandedMinted'
    BY <2>1, <2>2 DEF RecordInv, CaviRecordsAreAsked, LandedMinted, idempotency_key
  <2> QED BY <1>a, <2>3 DEF RecordInv
<1>7. CASE \E w \in WriteId : \/ ReverseUnknown(w)
                              \/ DryRunFails([kind |-> "propose", w |-> None])
                              \/ DryRunFails([kind |-> "reverse", w |-> w])
                              \/ DecideUnknown(w) \/ Approve(w) \/ RetryApproved(w)
                              \/ Reject(w) \/ RejectApproved(w)
  BY <1>7, <1>1 DEF ReverseUnknown, DryRunFails, DecideUnknown, Approve, RetryApproved,
                    Reject, RejectApproved, vars
<1>8. CASE \/ RecordEvent \/ Publish \/ RecordDeadLetter \/ PublishDeadLetter
           \/ CheckBreaker \/ ApplyRefused \/ ApplyFails \/ ReplyLost \/ ReplyOk
  BY <1>8, <1>1 DEF RecordEvent, Publish, RecordDeadLetter, PublishDeadLetter,
         CheckBreaker, ApplyRefused, ApplyFails, ReplyLost, ReplyOk, ExecuteFailed
<1>9. CASE Crash \/ Tick \/ UNCHANGED vars
  BY <1>9, <1>1 DEF Crash, Tick, vars
<1> QED BY <1>3, <1>4, <1>5, <1>6, <1>7, <1>8, <1>9 DEF Next, Handle, Deliver

\* What the ERP holds under a Cavi key is the body of an applied write sent there on
\* purpose, or of its own update with an empty target, for every set of proposals and
\* whatever is retried, reversed or updated (netsuite.py apply, write.py erp_address).
THEOREM CaviKeysAreAsked == Spec => []CaviRecordsAreAsked
<1>1. Init => RecordInv
  BY TypeInit, Addressing
  DEF Init, RecordInv, CaviRecordsAreAsked, LandedMinted, idempotency_key
<1>2. RecordInv => CaviRecordsAreAsked
  BY DEF RecordInv
<1> QED BY <1>1, <1>2, RecordNext, PTL DEF Spec
-----------------------------------------------------------------------------
(* A breaker that trips is reported.                                       *)

\* The trigger d is an approval of a minted write on connection k.
Escalates(d, k) == /\ d.kind = "approve" /\ d.w \in WriteId
                   /\ ops[d.w] # None /\ breaker_key(ops[d.w]) = k

\* An open breaker's dead letter is in the table, or the handler that tripped it is about
\* to put it there.
TripReported ==
    \A k \in Tenant \X Platform : breaker[k].opened =>
        (\E d \in dead : Escalates(d, k)) \/ (pc = "quarantine" /\ Escalates(job.cause, k))

\* Only an approval leads to the ERP, and it is the one that would be quarantined.
ExecutesApproval ==
    (\/ pc \in {"check", "put", "reply"}
     \/ pc \in {"record", "publish"} /\ job.subject = "approved")
        => job.cause = [kind |-> "approve", w |-> job.w]

TripInv == TypeInv /\ TripReported /\ ExecutesApproval

\* A write's connection is fixed when it is minted.
LEMMA EscalationStands ==
    ASSUME TypeInv, NEW d, NEW k, Escalates(d, k),
           \A w \in WriteId : ops[w] # None => ops'[w] = ops[w]
    PROVE  Escalates(d, k)'
  BY DEF Escalates, breaker_key

\* Every step keeps each open breaker reported, or about to be.
LEMMA TripNext == TripInv /\ [Next]_vars => TripInv'
<1> SUFFICES ASSUME TripInv, [Next]_vars PROVE TripInv'
  OBVIOUS
<1>a. TypeInv /\ TypeInv'
  BY TypeNext DEF TripInv
<1>b. breaker \in [Tenant \X Platform -> Breaker]
  BY <1>a DEF TypeInv, TypeOK
<1> USE DEF agentVars, auditVars, erpVars
<1>1. ASSUME \A k \in Tenant \X Platform : breaker'[k].opened => breaker[k].opened,
             \A w \in WriteId : ops[w] # None => ops'[w] = ops[w],
             dead \subseteq dead',
             pc = "quarantine" => pc' = "quarantine" /\ job' = job
      PROVE  TripReported'
  <2> SUFFICES ASSUME NEW k \in Tenant \X Platform, breaker'[k].opened
               PROVE  \/ \E d \in dead' : Escalates(d, k)'
                      \/ pc' = "quarantine" /\ Escalates(job.cause, k)'
    BY DEF TripReported
  <2>1. CASE \E d \in dead : Escalates(d, k)
    <3>1. PICK d \in dead : Escalates(d, k)
      BY <2>1
    <3>2. Escalates(d, k)'
      BY <3>1, <1>1, <1>a, EscalationStands
    <3> QED BY <3>1, <3>2, <1>1
  <2>2. CASE pc = "quarantine" /\ Escalates(job.cause, k)
    <3>1. pc' = "quarantine" /\ job' = job
      BY <2>2, <1>1
    <3>2. Escalates(job.cause, k)'
      BY <2>2, <3>1, <1>1 DEF Escalates, breaker_key
    <3> QED BY <3>1, <3>2
  <2> QED BY <2>1, <2>2, <1>1 DEF TripInv, TripReported
<1>2. CASE Deliver
  <2>1. /\ pc = "idle" /\ UNCHANGED <<breaker, dead>>
        /\ \A w \in WriteId : ops[w] # None => ops'[w] = ops[w]
    BY <1>2, <1>a DEF Deliver, Propose, Reverse, Hold, Emit, ReverseUnknown, DryRunFails,
           DecideUnknown, Approve, RetryApproved, Reject, RejectApproved, vars, TypeInv,
           TypeOK
  <2>2. ExecutesApproval'
    <3>2. CASE \E w \in WriteId : Approve(w) \/ RetryApproved(w)
      BY <3>2 DEF Approve, RetryApproved, Emit, ExecutesApproval
    <3>3. CASE \E w \in WriteId : DecideUnknown(w)
      BY <3>3 DEF DecideUnknown, vars, ExecutesApproval
    <3>4. CASE \E w \in WriteId : \/ Reject(w) \/ RejectApproved(w) \/ ReverseUnknown(w)
                                  \/ DryRunFails([kind |-> "propose", w |-> None])
                                  \/ DryRunFails([kind |-> "reverse", w |-> w])
      BY <3>4 DEF Reject, RejectApproved, ReverseUnknown, DryRunFails, DeadLetter, Emit,
                  ExecutesApproval
    <3>5. CASE \E w \in WriteId : \/ \E p \in Proposals : Propose(w, p)
                                  \/ \E w0 \in WriteId, c \in Compensations : Reverse(w0, w, c)
      BY <3>5 DEF Propose, Reverse, Hold, Emit, ExecutesApproval
    <3> QED BY <1>2, <3>2, <3>3, <3>4, <3>5 DEF Deliver
  <2> QED BY <1>1, <1>a, <2>1, <2>2 DEF TripInv
<1>3. CASE RecordEvent \/ Publish
  BY <1>3, <1>1, <1>a DEF RecordEvent, Publish, Return, TripInv, ExecutesApproval
<1>4. CASE RecordDeadLetter
  <2>1. /\ pc = "quarantine" /\ pc' = "alert" /\ dead' = dead \cup {job.cause}
        /\ UNCHANGED <<breaker, ops, job>>
    BY <1>4 DEF RecordDeadLetter
  <2>2. \A d, k : Escalates(d, k)' <=> Escalates(d, k)
    BY <2>1 DEF Escalates, breaker_key
  <2> QED BY <2>1, <2>2, <1>a DEF TripInv, TripReported, ExecutesApproval
<1>5. CASE PublishDeadLetter
  BY <1>5, <1>1, <1>a DEF PublishDeadLetter, Return, TripInv, ExecutesApproval
<1>6. ASSUME pc \in {"check", "put", "reply"}
      PROVE  /\ Key \in Tenant \X Platform
             /\ job.cause = [kind |-> "approve", w |-> job.w] /\ Escalates(job.cause, Key)
  <2>1. /\ job.w \in WriteId /\ ops[job.w] \in Operation /\ ops[job.w] # None
        /\ job.cause = [kind |-> "approve", w |-> job.w]
    BY <1>6, <1>a DEF TypeInv, TypeOK, Known, TripInv, ExecutesApproval
  <2>2. job.cause.kind = "approve" /\ job.cause.w = job.w
    BY <2>1
  <2> QED BY <2>1, <2>2, Addressing DEF Key, Escalates
<1>7. CASE CheckBreaker
  <2>1. /\ pc = "check" /\ UNCHANGED <<ops, dead>>
        /\ \/ /\ breaker' = [breaker EXCEPT ![Key] = check(breaker[Key])]
              /\ pc' = "put" /\ job' = job
           \/ pc' = "quarantine" /\ UNCHANGED breaker
    BY <1>7 DEF CheckBreaker, DeadLetter
  <2>2. \A k \in Tenant \X Platform : breaker'[k].opened => breaker[k].opened
    BY <2>1, <1>b, <1>6, BreakerFields
  <2>3. ExecutesApproval'
    BY <2>1 DEF TripInv, ExecutesApproval
  <2> QED BY <2>1, <2>2, <2>3, <1>1, <1>a DEF TripInv
<1>8. ASSUME pc \in {"put", "reply"}, ExecuteFailed PROVE TripInv'
  <2>1. /\ Key \in Tenant \X Platform /\ UNCHANGED <<ops, dead>>
        /\ breaker' = [breaker EXCEPT ![Key] = record_failure(breaker[Key])]
        /\ breaker[Key] \in Breaker
    BY <1>8, <1>6, <1>b DEF ExecuteFailed
  <2>2. ExecutesApproval'
    BY <1>8 DEF ExecuteFailed, DeadLetter, Return, ExecutesApproval
  <2>3. CASE ~escalates(breaker[Key])
    <3>1. record_failure(breaker[Key]).opened => breaker[Key].opened
      BY <2>1, <2>3, BreakerFields DEF escalates, trips
    <3>2. \A k \in Tenant \X Platform : breaker'[k].opened => breaker[k].opened
      BY <2>1, <3>1, <1>b
    <3> QED BY <2>1, <2>2, <3>2, <1>1, <1>8, <1>a DEF TripInv
  <2>4. CASE escalates(breaker[Key])
    <3>1. pc' = "quarantine" /\ job'.cause = job.cause
      BY <1>8, <2>4 DEF ExecuteFailed, DeadLetter, NoJob
    <3>2. \A d, k : Escalates(d, k)' <=> Escalates(d, k)
      BY <2>1 DEF Escalates, breaker_key
    <3>3. Escalates(job'.cause, Key)
      BY <1>6, <1>8, <3>1
    <3>4. ASSUME NEW k \in Tenant \X Platform, breaker'[k].opened
          PROVE  \/ \E d \in dead' : Escalates(d, k)'
                 \/ pc' = "quarantine" /\ Escalates(job'.cause, k)
      <4>1. CASE k = Key
        BY <4>1, <3>1, <3>3
      <4>2. CASE k # Key
        BY <4>2, <3>4, <2>1, <1>b, <3>2, <1>8 DEF TripInv, TripReported
      <4> QED BY <4>1, <4>2
    <3>5. TripReported'
      BY <3>1, <3>2, <3>4 DEF TripReported, Escalates, breaker_key
    <3> QED BY <2>2, <3>5, <1>a DEF TripInv
  <2> QED BY <2>3, <2>4
<1>9. CASE ApplyRefused \/ ApplyFails \/ ReplyLost
  BY <1>9, <1>8 DEF ApplyRefused, ApplyFails, ReplyLost
<1>10. CASE ApplyLands
  BY <1>10, <1>1, <1>a DEF ApplyLands, TripInv, ExecutesApproval
<1>11. CASE ReplyOk
  <2>1. /\ pc = "reply" /\ UNCHANGED <<ops, dead>>
        /\ pc' = "record" /\ job'.subject = "completed"
        /\ breaker' = [breaker EXCEPT ![Key] = record_success(breaker[Key])]
    BY <1>11 DEF ReplyOk, Emit
  <2>2. \A k \in Tenant \X Platform : breaker'[k].opened => breaker[k].opened
    BY <2>1, <1>b, <1>6, BreakerFields
  <2>3. ExecutesApproval'
    BY <2>1 DEF ExecutesApproval
  <2> QED BY <2>1, <2>2, <2>3, <1>1, <1>a DEF TripInv
<1>12. CASE Crash
  BY <1>12, <1>a DEF Crash, Return, TripInv, TripReported, ExecutesApproval, NewBreaker
<1>13. CASE Tick
  <2>1. \A k \in Tenant \X Platform : breaker'[k].opened => breaker[k].opened
    BY <1>13, <1>b, BreakerFields DEF Tick
  <2> QED BY <1>13, <2>1, <1>1, <1>a DEF Tick, TripInv, ExecutesApproval
<1>14. CASE (\E r \in Edited, v \in Payload : ErpEdit(r, v)) \/ UNCHANGED vars
  BY <1>14, <1>1, <1>a DEF ErpEdit, vars, TripInv, ExecutesApproval
<1> QED BY <1>2, <1>3, <1>4, <1>5, <1>7, <1>9, <1>10, <1>11, <1>12, <1>13, <1>14
        DEF Next, Handle

\* An open breaker is never silent: once the handler that tripped it has returned, an
\* approval on that very connection is in the dead-letter table (_execute, _dead_letter).
THEOREM TripsAreEscalated == Spec => []TripIsEscalated
<1>1. Init => TripInv
  BY TypeInit DEF Init, TripInv, TripReported, ExecutesApproval, NewBreaker
<1>2. TripInv => TripIsEscalated
  BY DEF TripInv, TripReported, TripIsEscalated, Escalates
<1> QED BY <1>1, <1>2, TripNext, PTL DEF Spec

-----------------------------------------------------------------------------
(* execute_batch.                                                          *)

\* The writes that loop has dealt with, and the one whose PUT took effect.
Done_ == {batch[i] : i \in 1..(index - 1)}
Reached == IF batchPc = "reply" THEN Done_ \cup {batch[index]} ELSE Done_

\* The types the argument needs.
BatchType ==
    /\ held \in [Write -> State]
    /\ batch \in Seq(Write) /\ IsInjective(batch)
    /\ applied \subseteq Write
    /\ index \in Nat \ {0}
    /\ batchPc \in {"idle", "guard", "put", "reply", "refused", "raised"}

\* Nothing has been said or done yet.
Fresh == report = NoReport /\ doneSteps = <<>> /\ touched = {} /\ index = 1

\* The loop is at an operation of a batch the caller holds as approved; its list has
\* the ones before it, in order.
LoopInv ==
    batchPc \in {"put", "reply"} =>
        /\ index <= Len(batch)
        /\ \A i \in 1..Len(batch) : held[batch[i]] = "approved"
        /\ doneSteps = SubSeq(batch, 1, index - 1)
        /\ touched = Reached

\* The inductive invariant.
BatchInv == /\ BatchType /\ LoopInv
            /\ batchPc = "guard" => Fresh
            /\ RefusedTouchesNothing /\ ReportIsSound /\ NoUnreportedChange

\* A batch is cut at the operation the loop is at.
LEMMA Cut ==
    ASSUME NEW s \in Seq(Write), NEW n \in 1..Len(s)
    PROVE  /\ SubSeq(s, 1, n - 1) \in Seq(Write)
           /\ SubSeq(s, n + 1, Len(s)) \in Seq(Write)
           /\ SubSeq(s, 1, n - 1) \o <<s[n]>> = SubSeq(s, 1, n)
           /\ s = SubSeq(s, 1, n) \o SubSeq(s, n + 1, Len(s))
           /\ Range(SubSeq(s, 1, n - 1)) = {s[i] : i \in 1..(n - 1)}
           /\ Range(SubSeq(s, n + 1, Len(s))) = {s[i] : i \in (n + 1)..Len(s)}
<1> DEFINE a == SubSeq(s, 1, n - 1)
           b == SubSeq(s, 1, n)
           c == SubSeq(s, n + 1, Len(s))
<1>1. /\ a \in Seq(Write) /\ b \in Seq(Write) /\ c \in Seq(Write)
      /\ Len(a) = n - 1 /\ Len(b) = n /\ Len(c) = Len(s) - n
      /\ \A i \in 1..(n - 1) : a[i] = s[i]
      /\ \A i \in 1..n : b[i] = s[i]
      /\ \A i \in 1..(Len(s) - n) : c[i] = s[n + i]
  BY SubSeqProperties
<1> HIDE DEF a, b, c
<1>2. a \o <<s[n]>> = b
  BY SubSeqRecursiveSecond DEF a, b
<1>3. s = b \o c
  BY ConcatAdjacentSubSeq, SubSeqFull DEF b, c
<1>4. Range(a) = {s[i] : i \in 1..(n - 1)}
  <2>1. DOMAIN a = 1..(n - 1)
    BY <1>1
  <2>2. \A i \in 1..(n - 1) : a[i] = s[i]
    BY <1>1
  <2>3. {a[i] : i \in 1..(n - 1)} = {s[i] : i \in 1..(n - 1)}
    BY <2>2
  <2> QED BY <2>1, <2>3 DEF Range
<1>5. Range(c) = {s[i] : i \in (n + 1)..Len(s)}
  <2>1. ASSUME NEW x \in Range(c) PROVE x \in {s[i] : i \in (n + 1)..Len(s)}
    <3>1. PICK i \in 1..(Len(s) - n) : x = c[i]
      BY <1>1 DEF Range
    <3>2. n + i \in (n + 1)..Len(s) /\ x = s[n + i]
      BY <1>1, <3>1
    <3> QED BY <3>2
  <2>2. ASSUME NEW i \in (n + 1)..Len(s) PROVE s[i] \in Range(c)
    <3>1. i - n \in 1..(Len(s) - n) /\ n + (i - n) = i
      OBVIOUS
    <3>2. c[i - n] = s[i] /\ i - n \in DOMAIN c
      BY <1>1, <3>1
    <3> QED BY <3>2 DEF Range
  <2> QED BY <2>1, <2>2
<1> QED BY <1>1, <1>2, <1>3, <1>4, <1>5 DEF a, b, c

\* What the loop has touched is before the operation it is at, or is that one.
LEMMA Untouched ==
    ASSUME BatchType, NEW n \in 1..Len(batch)
    PROVE  {batch[i] : i \in 1..n} \cap {batch[i] : i \in (n + 1)..Len(batch)} = {}
BY DEF BatchType, IsInjective

\* No call has been made.
LEMMA BatchStarts == BatchInit => BatchInv
BY DEF BatchInit, BatchInv, BatchType, LoopInv, RefusedTouchesNothing, ReportIsSound,
       NoUnreportedChange, underway, NoReport, State, IsInjective, Range, steps, failed,
       not_attempted

\* Every step of a call, and between calls, keeps the invariant.
LEMMA BatchSteps == BatchInv /\ [BatchNext]_batchVars => BatchInv'
<1> SUFFICES ASSUME BatchInv, [BatchNext]_batchVars PROVE BatchInv'
  OBVIOUS
<1> USE DEF BatchInv
<1>1. ASSUME NEW s \in Batches, Call(s) PROVE BatchInv'
  <2>1. s \in Seq(Write) /\ IsInjective(s)
    BY DEF Batches, Injection
  <2> QED BY <1>1, <2>1 DEF Call, BatchType, LoopInv, Fresh, RefusedTouchesNothing,
             ReportIsSound, NoUnreportedChange, underway
<1>2. CASE Guard
  <2>1. /\ BatchType' /\ Fresh
        /\ UNCHANGED <<held, batch, index, doneSteps, report, touched>>
    BY <1>2 DEF Guard, BatchType
  <2>2. LoopInv'
    <3>1. CASE batchPc' = "put"
      <4>1. \A w \in Range(batch) : held[w] = "approved"
        BY <1>2, <3>1 DEF Guard, guarded
      <4>2. Len(batch) # 0
        BY <1>2, <3>1 DEF Guard, BatchType
      <4>3. \A i \in 1..Len(batch) : held[batch[i]] = "approved"
        BY <4>1 DEF Range, BatchType
      <4>4. SubSeq(batch, 1, 0) = <<>>
        BY SubSeqEmpty
      <4> QED BY <2>1, <3>1, <4>2, <4>3, <4>4 DEF LoopInv, Fresh, Reached, Done_,
                 BatchType
    <3>2. CASE batchPc' # "put"
      BY <1>2, <3>2 DEF Guard, LoopInv
    <3> QED BY <3>1, <3>2
  <2>3. RefusedTouchesNothing'
    BY <1>2 DEF Guard, RefusedTouchesNothing
  <2>4. NoUnreportedChange'
    BY <1>2 DEF Guard, NoUnreportedChange, underway
  <2>5. ReportIsSound'
    <3>1. batchPc' = "idle" => batch = <<>>
      BY <1>2 DEF Guard
    <3>2. report' = NoReport /\ touched' = {} /\ batch' = batch
      BY <2>1 DEF Fresh
    <3>3. failed' = {} /\ steps' = {} /\ not_attempted' = {}
      BY <3>2 DEF NoReport, failed, steps, not_attempted, Range
    <3>4. <<>> = <<>> \o <<>> \o <<>>
      OBVIOUS
    <3> QED BY <3>1, <3>2, <3>3, <3>4 DEF ReportIsSound, NoReport
  <2> QED BY <1>2, <2>1, <2>2, <2>3, <2>4, <2>5 DEF Guard
<1>3. CASE Land
  <2>1. BatchType' /\ batch[index] \in Write /\ batchPc = "put"
    BY <1>3 DEF Land, BatchType, LoopInv
  <2>2. LoopInv'
    BY <1>3 DEF Land, LoopInv, Reached, Done_
  <2>3. RefusedTouchesNothing'
    <3>1. \A w \in Range(batch) : held[w] = "approved"
      BY <2>1 DEF LoopInv, BatchType, Range
    <3> QED BY <1>3, <3>1 DEF Land, RefusedTouchesNothing
  <2>4. NoUnreportedChange'
    BY <1>3 DEF Land, NoUnreportedChange, underway
  <2> QED BY <1>3, <2>1, <2>2, <2>3, <2>4 DEF Land, ReportIsSound
<1>4. CASE Halt
  <2>1. /\ index \in 1..Len(batch) /\ batch[index] \in Write
        /\ batchPc \in {"put", "reply"} /\ batchPc' = "idle"
        /\ suspect' = suspect \cup {batch[index]}
        /\ UNCHANGED <<batch, index, applied, touched, orphaned>>
    BY <1>4 DEF Halt, Returns, BatchType, LoopInv
  <2>2. report' = [steps |-> doneSteps, failed |-> batch[index], not_attempted |-> rest]
    BY <1>4 DEF Halt, Returns
  <2>3. /\ doneSteps = SubSeq(batch, 1, index - 1) /\ Range(doneSteps) = Done_
        /\ Range(rest) = {batch[i] : i \in (index + 1)..Len(batch)}
    BY <2>1, Cut DEF LoopInv, BatchType, rest, Done_
  <2>4. held' = [w \in Write |-> IF w \in Done_ THEN "completed" ELSE held[w]]
    BY <1>4, <2>3 DEF Halt, Returns
  <2>5. touched \in {Done_, Done_ \cup {batch[index]}}
    BY <2>1 DEF LoopInv, Reached
  <2>6. BatchType'
    BY <1>4, <2>1, <2>4 DEF BatchType, State
  <2>7. RefusedTouchesNothing'
    <3>1. \A w \in Range(batch) : w \in Write /\ held[w] = "approved"
      BY <2>1 DEF LoopInv, BatchType, Range
    <3> QED BY <2>1, <2>4, <3>1 DEF RefusedTouchesNothing
  <2>8. NoUnreportedChange'
    <3> SUFFICES ASSUME NEW w \in applied
                 PROVE  held'[w] = "completed" \/ w \in suspect' \/ w \in orphaned'
      BY <2>1 DEF NoUnreportedChange
    <3>1. held[w] = "completed" => held'[w] = "completed"
      BY <2>4 DEF BatchType
    <3>2. w \in Done_ => held'[w] = "completed"
      BY <2>4, <2>1 DEF Done_, BatchType
    <3> QED BY <2>1, <2>5, <3>1, <3>2 DEF NoUnreportedChange, underway
  <2>9. ReportIsSound'
    <3>2. batch' = report'.steps \o <<report'.failed>> \o report'.not_attempted
      BY <2>1, <2>2, <2>3, Cut DEF BatchType, rest
    <3>3. failed' = {batch[index]}
      BY <2>1, <2>2, BatchAssumption DEF failed
    <3>4. steps' = Done_ /\ not_attempted' = {batch[i] : i \in (index + 1)..Len(batch)}
      BY <2>2, <2>3 DEF steps, not_attempted
    <3>6. Done_ \cup {batch[index]} = {batch[i] : i \in 1..index}
      BY <2>1 DEF Done_, BatchType
    <3>7. not_attempted' \cap touched = {}
      BY <2>1, <2>5, <3>4, <3>6, Untouched
    <3> QED BY <2>1, <2>5, <3>2, <3>3, <3>4, <3>7 DEF ReportIsSound
  <2> QED BY <2>1, <2>6, <2>7, <2>8, <2>9 DEF LoopInv
<1>5. CASE Confirm
  <2>1. /\ index \in 1..Len(batch) /\ batch[index] \in Write /\ batchPc = "reply"
        /\ index' = index + 1
        /\ UNCHANGED <<batch, applied, touched, suspect, orphaned>>
    BY <1>5 DEF Confirm, LoopInv, BatchType
  <2>2. doneSteps' = SubSeq(batch, 1, index)
    <3>1. Append(SubSeq(batch, 1, index - 1), batch[index]) = SubSeq(batch, 1, index)
      BY <2>1, Cut, AppendIsConcat DEF BatchType
    <3> QED BY <1>5, <2>1, <3>1 DEF Confirm, LoopInv
  <2>3. touched = {batch[i] : i \in 1..index}
    BY <2>1 DEF LoopInv, Reached, Done_, BatchType
  <2>4. CASE index < Len(batch)
    <3>1. batchPc' = "put" /\ UNCHANGED <<held, report>>
      BY <1>5, <2>4 DEF Confirm
    <3>2. BatchType'
      BY <2>1, <3>1 DEF BatchType
    <3>3. index' <= Len(batch') /\ index' - 1 = index
      BY <2>1, <2>4
    <3>4. Reached' = {batch[i] : i \in 1..index}
      BY <2>1, <3>1, <3>3 DEF Reached, Done_
    <3>5. LoopInv'
      BY <2>1, <2>2, <2>3, <3>1, <3>3, <3>4 DEF LoopInv
    <3>6. RefusedTouchesNothing' /\ NoUnreportedChange' /\ ReportIsSound'
      BY <2>1, <3>1 DEF RefusedTouchesNothing, NoUnreportedChange, underway, ReportIsSound
    <3> QED BY <3>1, <3>2, <3>5, <3>6
  <2>5. CASE index = Len(batch)
    <3>1. /\ batchPc' = "idle" /\ report' = [NoReport EXCEPT !.steps = doneSteps']
          /\ held' = [w \in Write |-> IF w \in Range(doneSteps') THEN "completed"
                                      ELSE held[w]]
      BY <1>5, <2>5 DEF Confirm, Returns, NoReport
    <3>2. doneSteps' = batch
      BY <2>2, <2>5, SubSeqFull DEF BatchType
    <3>3. Range(batch) = touched /\ Range(batch) \subseteq Write
      BY <2>3, <2>5 DEF Range, BatchType
    <3>4. BatchType'
      BY <2>1, <3>1 DEF BatchType, State
    <3>5. RefusedTouchesNothing'
      BY <2>1, <3>1, <3>2, <3>3 DEF RefusedTouchesNothing
    <3>6. NoUnreportedChange'
      <4> SUFFICES ASSUME NEW w \in applied
                   PROVE  held'[w] = "completed" \/ w \in suspect \/ w \in orphaned
        BY <2>1 DEF NoUnreportedChange
      <4>1. w \in touched => held'[w] = "completed"
        BY <3>1, <3>2, <3>3
      <4>2. w \in Write /\ held[w] = "completed" => held'[w] = "completed"
        BY <3>1
      <4> QED BY <4>1, <4>2 DEF NoUnreportedChange, underway, BatchType
    <3>7. ReportIsSound'
      <4>1. report' = [steps |-> batch, failed |-> NoWrite, not_attempted |-> <<>>]
        BY <3>1, <3>2 DEF NoReport
      <4>2. failed' = {} /\ not_attempted' = {} /\ steps' = touched
        BY <3>3, <4>1 DEF failed, not_attempted, steps, Range
      <4>3. batch = batch \o <<>> \o <<>>
        BY ConcatEmptySeq DEF BatchType
      <4> QED BY <2>1, <4>1, <4>2, <4>3 DEF ReportIsSound
    <3> QED BY <3>1, <3>4, <3>5, <3>6, <3>7 DEF LoopInv
  <2> QED BY <2>1, <2>4, <2>5
<1>7. CASE Raise
  <2>1. /\ batchPc = "put" /\ batchPc' = "raised"
        /\ orphaned' = orphaned \cup Range(doneSteps)
        /\ UNCHANGED <<held, batch, index, doneSteps, report, applied, touched, suspect>>
    BY <1>7 DEF Raise
  <2>2. touched = Range(doneSteps)
    <3>1. index \in 1..Len(batch)
      BY <2>1 DEF LoopInv, BatchType
    <3> QED BY <2>1, <3>1, Cut DEF LoopInv, Reached, Done_, BatchType
  <2>3. NoUnreportedChange'
    BY <2>1, <2>2 DEF NoUnreportedChange, underway
  <2> QED BY <2>1, <2>3 DEF BatchType, LoopInv, RefusedTouchesNothing, ReportIsSound
<1>6. CASE Done \/ UNCHANGED batchVars
  <2>1. UNCHANGED batchVars
    BY <1>6 DEF Done
  <2>2. UNCHANGED <<BatchType, Fresh, LoopInv, RefusedTouchesNothing>>
    BY <2>1 DEF batchVars, BatchType, Fresh, LoopInv, Reached, Done_,
                RefusedTouchesNothing
  <2>3. UNCHANGED <<ReportIsSound, NoUnreportedChange>>
    BY <2>1 DEF batchVars, ReportIsSound, NoUnreportedChange, underway, steps, failed,
                not_attempted
  <2> QED BY <2>1, <2>2, <2>3 DEF batchVars
<1> QED BY <1>1, <1>2, <1>3, <1>4, <1>5, <1>6, <1>7 DEF BatchNext

\* The invariant, from which the theorems follow.
LEMMA BatchAlways == BatchSpec => []BatchInv
BY BatchStarts, BatchSteps, PTL DEF BatchSpec

\* A batch with any write that is not approved changes nothing in the ERP, whichever
\* place in the list that write has (the first loop of execute_batch).
THEOREM RefusalIsWhole == BatchSpec => []RefusedTouchesNothing
<1>1. BatchInv => RefusedTouchesNothing
  BY DEF BatchInv
<1> QED BY <1>1, BatchAlways, PTL

\* The report of a batch of any length splits it in order into committed, failed and
\* never tried, and errs in one direction only (execute_batch, BatchExecution).
THEOREM ReportsAreSound == BatchSpec => []ReportIsSound
<1>1. BatchInv => ReportIsSound
  BY DEF BatchInv
<1> QED BY <1>1, BatchAlways, PTL

\* However many batches are run and answers lost, a write that landed is completed in
\* the caller's hands, in the call still running, was reported as failed, or was a
\* completed step of a call that raised (execute_batch).
THEOREM NothingUnreported == BatchSpec => []NoUnreportedChange
<1>1. BatchInv => NoUnreportedChange
  BY DEF BatchInv
<1> QED BY <1>1, BatchAlways, PTL
=============================================================================
