---------------------------- MODULE BeaconPolicy ----------------------------
(***************************************************************************)
(* Beacon's severity policy (beacon/beacon.py), which alerts and reports   *)
(* share.  A subject is the sequence of its parts.                         *)
(***************************************************************************)
EXTENDS Sequences

Severity == {"info", "warning", "error", "critical"}

severity_for(s) ==
    IF s[1] = "deadletter" THEN IF s[2] = "ledger" THEN "critical" ELSE "error"
    ELSE IF s \in {<<"ledger", "rejected">>, <<"vault", "secret", "denied">>,
                   <<"ledger", "drift", "detected">>} THEN "warning"
    ELSE "info"
=============================================================================
