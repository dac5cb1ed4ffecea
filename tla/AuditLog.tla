------------------------------ MODULE AuditLog ------------------------------
(***************************************************************************)
(* What the event store promises its callers (shared/events.py): one       *)
(* append-only sequence of events, each recorded at most once.             *)
(***************************************************************************)
EXTENDS Sequences

CONSTANT EventId
VARIABLE entries

Recorded == {entries[i] : i \in DOMAIN entries}

Init == entries = <<>>

Record(e) == /\ e \notin Recorded
             /\ entries' = Append(entries, e)

Next == \E e \in EventId : Record(e)

Spec == Init /\ [][Next]_entries
=============================================================================
