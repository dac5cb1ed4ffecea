----------------------------- MODULE WriteBatch -----------------------------
(***************************************************************************)
(* WriteCoordinator.execute_batch (agents/forge/write.py) against an ERP   *)
(* whose answers get lost.  A caller holds write operations in some state  *)
(* and hands a list of distinct ones to execute_batch, again and again; it *)
(* keeps the COMPLETED operation of every step a call reports.  Operations *)
(* are frozen values, so a call can only change what it returns -- and a   *)
(* call that raises returns nothing.                                       *)
(***************************************************************************)
EXTENDS Naturals, Sequences, Functions

CONSTANTS Write, NoWrite,
          MaxBatch,     \* bound: length of a batch
          MaxCalls      \* bound: calls of execute_batch

ASSUME BatchAssumption == NoWrite \notin Write /\ MaxBatch \in Nat /\ MaxCalls \in Nat

VARIABLES held,     \* the state of each operation as the caller holds it
          batch,    \* the argument of the call in progress or last made
          index,    \* the operation it is at
          batchPc,  \* the next call of the loop
          doneSteps, \* the local list `completed`
          report,   \* the BatchExecution returned: steps, failed, not_attempted
          applied,  \* history: writes the ERP has applied
          touched,  \* history: those it applied during this call
          suspect,  \* history: writes some call reported as failed
          orphaned, \* history: steps completed in a call that raised
          calls

batchVars == <<held, batch, index, batchPc, doneSteps, report, applied, touched,
               suspect, orphaned, calls>>

State == {"requested", "approved", "rejected", "completed"}
NoReport == [steps |-> <<>>, failed |-> NoWrite, not_attempted |-> <<>>]

\* Lists of distinct operations.
Batches == UNION {Injection(1..n, Write) : n \in 0..MaxBatch}

BatchTypeOK ==
    /\ held \in [Write -> State]
    /\ batch \in Batches
    /\ index \in 1..(MaxBatch + 1)
    /\ batchPc \in {"idle", "guard", "put", "reply", "refused", "raised"}
    /\ doneSteps \in Batches
    /\ report \in [steps : Batches, failed : Write \cup {NoWrite},
                   not_attempted : Batches]
    /\ applied \in SUBSET Write /\ touched \in SUBSET Write
    /\ suspect \in SUBSET Write /\ orphaned \in SUBSET Write
    /\ calls \in 0..MaxCalls

BatchInit ==
    /\ held \in [Write -> {"requested", "approved", "rejected"}]
    /\ batch = <<>> /\ index = 1 /\ batchPc = "idle"
    /\ doneSteps = <<>> /\ report = NoReport
    /\ applied = {} /\ touched = {} /\ suspect = {} /\ orphaned = {} /\ calls = 0

Call(ops) ==
    /\ batchPc \in {"idle", "refused", "raised"}
    /\ calls < MaxCalls /\ calls' = calls + 1
    /\ batch' = ops /\ index' = 1 /\ batchPc' = "guard"
    /\ doneSteps' = <<>> /\ report' = NoReport /\ touched' = {}
    /\ UNCHANGED <<held, applied, suspect, orphaned>>

\* Mutant of guarded: the guard of execute alone, on the operation at hand.
guarded_each == IF batch = <<>> THEN {} ELSE {Head(batch)}

\* The operations the first loop wants APPROVED: all of them.
guarded == Range(batch)

\* The first loop passes, or raises InvalidTransition before any ERP call.
Guard ==
    /\ batchPc = "guard"
    /\ batchPc' = IF \A w \in guarded : held[w] = "approved"
             THEN IF batch = <<>> THEN "idle" ELSE "put"
             ELSE "refused"
    /\ UNCHANGED <<held, batch, index, doneSteps, report, applied, touched, suspect,
                   orphaned, calls>>

\* The writer's PUT takes effect.
Land ==
    /\ batchPc = "put"
    /\ applied' = applied \cup {batch[index]}
    /\ touched' = touched \cup {batch[index]}
    /\ batchPc' = "reply"
    /\ UNCHANGED <<held, batch, index, doneSteps, report, suspect, orphaned, calls>>

\* The call returns r, and with it the COMPLETED operations of its steps.
Returns(r) ==
    /\ batchPc' = "idle"
    /\ report' = r
    /\ held' = [w \in Write |-> IF w \in Range(r.steps) THEN "completed" ELSE held[w]]

\* ops[index + 1:]
rest == SubSeq(batch, index + 1, Len(batch))

\* Mutant of Halt: the loop goes on with the next write.
Halt_continues ==
    /\ batchPc \in {"put", "reply"}
    /\ suspect' = suspect \cup {batch[index]}
    /\ index' = index + 1
    /\ IF index < Len(batch)
       THEN batchPc' = "put" /\ UNCHANGED <<held, report>>
       ELSE Returns([NoReport EXCEPT !.steps = doneSteps, !.failed = batch[index]])
    /\ UNCHANGED <<batch, doneSteps, applied, touched, orphaned, calls>>

\* Mutant of Halt: the loop breaks and only the committed steps are returned.
Halt_silent ==
    /\ batchPc \in {"put", "reply"}
    /\ Returns([NoReport EXCEPT !.steps = doneSteps])
    /\ UNCHANGED <<batch, index, doneSteps, applied, touched, suspect, orphaned, calls>>

\* ErpWriteError: before the PUT took effect, or after it when only the
\* confirmation is lost.  The call returns and tries nothing more.
Halt ==
    /\ batchPc \in {"put", "reply"}
    /\ Returns([steps |-> doneSteps, failed |-> batch[index], not_attempted |-> rest])
    /\ suspect' = suspect \cup {batch[index]}
    /\ UNCHANGED <<batch, index, doneSteps, applied, touched, orphaned, calls>>

\* Any other exception of the writer before its PUT -- _sign reading a 200 that is not
\* a JSON object, a URL httpx refuses -- passes the except clause: it leaves
\* execute_batch, and the list of completed steps is gone.
Raise ==
    /\ batchPc = "put"
    /\ batchPc' = "raised"
    /\ orphaned' = orphaned \cup Range(doneSteps)
    /\ UNCHANGED <<held, batch, index, doneSteps, report, applied, touched, suspect,
                   calls>>

\* execute returns a completed step, which goes into the local list; after the last
\* one the list is returned.
Confirm ==
    /\ batchPc = "reply"
    /\ doneSteps' = Append(doneSteps, batch[index])
    /\ index' = index + 1
    /\ IF index < Len(batch)
       THEN batchPc' = "put" /\ UNCHANGED <<held, report>>
       ELSE Returns([NoReport EXCEPT !.steps = doneSteps'])
    /\ UNCHANGED <<batch, applied, touched, suspect, orphaned, calls>>

\* The bound on calls is reached: not a deadlock.
Done == /\ batchPc \in {"idle", "refused", "raised"} /\ calls = MaxCalls
        /\ UNCHANGED batchVars

BatchNext == \/ \E ops \in Batches : Call(ops)
             \/ Guard \/ Land \/ Halt \/ Raise \/ Confirm \/ Done

BatchSpec == BatchInit /\ [][BatchNext]_batchVars

-----------------------------------------------------------------------------
steps == Range(report.steps)
failed == {report.failed} \ {NoWrite}
not_attempted == Range(report.not_attempted)

\* A batch with any write that is not approved changes nothing in the ERP: the
\* guard covers the whole batch before the first call (execute_batch).
RefusedTouchesNothing ==
    (\E w \in Range(batch) : held[w] \notin {"approved", "completed"}) => touched = {}

\* The report of a call that returned splits the batch in its order into committed,
\* failed and never tried, and errs in one direction only: what it calls committed has
\* landed, and what it says was never tried has not been touched by this call
\* (execute_batch).
ReportIsSound ==
    batchPc = "idle" =>
        /\ batch = report.steps \o (IF failed = {} THEN <<>> ELSE <<report.failed>>)
                   \o report.not_attempted
        /\ steps \subseteq touched
        /\ touched \subseteq steps \cup failed
        /\ not_attempted \cap touched = {}

\* A change the call in progress still has in its hands.
underway(w) == batchPc \in {"put", "reply"} /\ w \in touched

\* Over any number of calls, the one way a change to the ERP escapes the reports is an
\* exception out of execute_batch, and it loses completed steps only: any other write
\* that landed is COMPLETED in the caller's hands, in the call still running, or was
\* reported as failed (execute_batch).
NoUnreportedChange ==
    \A w \in applied : held[w] = "completed" \/ w \in suspect \/ w \in orphaned \/ underway(w)

-----------------------------------------------------------------------------
(* What the repository says and the code does not do: WriteBatchRaise.cfg. *)

\* execute_batch's docstring, "a partial batch halts loudly, it never leaves
\* half-posted state unreported": when no call is running, a write that landed is
\* COMPLETED in the caller's hands or was reported as failed.
HalfPostedIsReported ==
    \A w \in applied : held[w] = "completed" \/ w \in suspect \/ underway(w)
=============================================================================
