----------------------------- MODULE WriteGate ------------------------------
(***************************************************************************)
(* What the gated write-back promises (README.md, "Nothing reaches the     *)
(* external ERP without an explicit human approval event"), stated with    *)
(* nothing but the audit trail and the set of writes the ERP has applied.  *)
(* There are no processes, no memory to lose and no failures here: a       *)
(* detailed specification that implements this one keeps the promise       *)
(* through all of them.                                                    *)
(***************************************************************************)
CONSTANT WriteId
VARIABLES audit,      \* audit[w]: the stages of w in the event log
          applied     \* writes whose change the ERP has taken

vars == <<audit, applied>>

Subject == {"requested", "approved", "rejected", "completed"}

TypeOK == /\ audit \in [WriteId -> SUBSET Subject]
          /\ applied \in SUBSET WriteId

Init == /\ audit = [w \in WriteId |-> {}]
        /\ applied = {}

Request(w) == /\ audit[w] = {}
              /\ audit' = [audit EXCEPT ![w] = {"requested"}]
              /\ UNCHANGED applied

\* The human decision: taken once, on a write nobody has decided.
Decide(w, d) == /\ audit[w] = {"requested"}
                /\ audit' = [audit EXCEPT ![w] = @ \cup {d}]
                /\ UNCHANGED applied

\* The ERP takes the change; a retry may make it do so again.
Apply(w) == /\ "approved" \in audit[w]
            /\ applied' = applied \cup {w}
            /\ UNCHANGED audit

Complete(w) == /\ audit[w] = {"requested", "approved"}
               /\ w \in applied
               /\ audit' = [audit EXCEPT ![w] = @ \cup {"completed"}]
               /\ UNCHANGED applied

Next == \E w \in WriteId :
            \/ Request(w)
            \/ \E d \in {"approved", "rejected"} : Decide(w, d)
            \/ Apply(w)
            \/ Complete(w)

Spec == Init /\ [][Next]_vars
=============================================================================
