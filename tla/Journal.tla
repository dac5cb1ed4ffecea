------------------------------ MODULE Journal -------------------------------
(***************************************************************************)
(* What the Ledger promises (agents/ledger/ledger.py): the books are a set *)
(* of whole, balanced entries, each posted once under its id, never changed*)
(* and never removed.                                                      *)
(***************************************************************************)
CONSTANT Balanced(_)    \* debits equal credits and money moved
VARIABLE entries

Init == entries = {}

Post(e) == /\ Balanced(e)
           /\ \A f \in entries : f.id # e.id
           /\ entries' = entries \cup {e}

\* Whatever is new in the books got there by one Post.
Next == \E e \in entries' : Post(e)

Spec == Init /\ [][Next]_entries
=============================================================================
