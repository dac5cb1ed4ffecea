---------------------------- MODULE MCReconcile -----------------------------
(***************************************************************************)
(* Small instances of Reconcile.                                           *)
(***************************************************************************)
EXTENDS Reconcile, TLC

\* Two writes to one record that manage different fields, and one to another.
Writes == {[id |-> "je1", fields |-> ("amount" :> 1)],
           [id |-> "je1", fields |-> [f \in {"amount", "memo"} |-> 2]],
           [id |-> "je2", fields |-> ("amount" :> 1)]}
=============================================================================
