----------------------------- MODULE MCAlerting -----------------------------
(***************************************************************************)
(* Small instances of Alerting, with the subjects the repository registers.*)
(***************************************************************************)
EXTENDS Alerting, TLC

Replicas == Permutations(Replica)

Rejected == <<"ledger", "rejected">>
Completed == <<"forge", "completed">>
Denied == <<"vault", "secret", "denied">>
Entry == <<"ledger", "entry">>
Subjects == {Rejected, Completed, Denied, Entry}

Anonymous == [n \in Named |-> None]
E(n, s, ok, tenant, p) ==
    [id |-> n, subject |-> s, valid |-> ok, tenant |-> tenant, payload |-> p]

\* Two rejected postings of a tenant.
Rejections == {E(1, Rejected, TRUE, "a", [Anonymous EXCEPT !.entry_id = "x"]),
               E(2, Rejected, TRUE, "a", [Anonymous EXCEPT !.entry_id = "y"])}
\* A malformed journal entry.
Malformed == {E(3, Entry, FALSE, "a", [Anonymous EXCEPT !.entry_id = "z"])}
\* Two tenants refused a credential.
Denials == {E(4, Denied, TRUE, "a", Anonymous), E(5, Denied, TRUE, "b", Anonymous)}
\* Two tenants' work orders of one name.
Completions == {E(6, Completed, TRUE, "a", [Anonymous EXCEPT !.work_order_id = "x"]),
                E(7, Completed, TRUE, "b", [Anonymous EXCEPT !.work_order_id = "x"])}

\* Repeats are redeliveries.
Flagged == Rejections \cup Denials \cup Completions
Nothing == {}
=============================================================================
