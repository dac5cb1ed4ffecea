---------------------------- MODULE MCEventChain ----------------------------
(***************************************************************************)
(* Small instances of EventChain.  Append on the events of one table stays *)
(* short, so Seq(EventId) is only ever asked about membership.             *)
(***************************************************************************)
EXTENDS EventChain

CONSTANTS e1, e2, e3, old

\* One row from before the chain era.
OneLegacyRow == {[seq |-> 1, id |-> old, hash |-> None]}
=============================================================================
