------------------------------- MODULE Mapper -------------------------------
(***************************************************************************)
(* Mapper's version coercion (mapper/mapper.py), as pure operators.        *)
(*                                                                         *)
(* The transforms of a subject are the edges of a graph on its schema      *)
(* versions.  Of a payload all that matters is the version whose schema it *)
(* satisfies, Corrupt if none; a transform takes what satisfies its source *)
(* version to its target version unless it is one of the Buggy ones.       *)
(***************************************************************************)
EXTENDS Naturals, Sequences, FiniteSets, SequencesExt

Corrupt == 0                            \* versions count from 1

\* The versions one transform away.
adjacency(edges, node) == {e[2] : e \in {e \in edges : e[1] = node}}

\* Its members in increasing order.
sorted(S) == CHOOSE s \in [1..Cardinality(S) -> S] :
                 \A i, j \in 1..Cardinality(S) : i < j => s[i] < s[j]

\* One turn of the search: the first path is extended by the versions not yet seen, in
\* order.  It stops when the first path ends at dst, or none is left.
Pop(edges, dst, s) ==
    IF s.queue = <<>> \/ Last(s.queue[1]) = dst THEN s
    ELSE LET path == Head(s.queue)
             next == adjacency(edges, Last(path)) \ s.seen
             longer == [i \in 1..Cardinality(next) |-> Append(path, sorted(next)[i])]
         IN [queue |-> Tail(s.queue) \o longer, seen |-> s.seen \cup next]

\* The search after n turns.
search(edges, src, dst) ==
    LET s[n \in Nat] == IF n = 0 THEN [queue |-> <<<<src>>>>, seen |-> {src}]
                        ELSE Pop(edges, dst, s[n - 1])
    IN s

\* Mutant of _find_path: deque.pop, the newest path first.
_find_path_newest(edges, src, dst) ==
    LET step(s) == IF s.queue = <<>> THEN s
                   ELSE Pop(edges, dst, [s EXCEPT !.queue = <<Last(@)>> \o Front(@)])
        s[n \in Nat] == IF n = 0 THEN [queue |-> <<<<src>>>>, seen |-> {src}]
                        ELSE step(s[n - 1])
        last == s[Cardinality(edges) + 1].queue
    IN IF last = <<>> THEN <<>> ELSE last[1]

\* The versions on the way from src to dst, <<>> for None.  Each version is put on the
\* queue once, so the search has stopped after as many turns.
_find_path(edges, src, dst) ==
    LET last == search(edges, src, dst)[Cardinality(edges) + 1].queue
    IN IF last = <<>> THEN <<>> ELSE last[1]

\* The payload after the transforms along a path.
chain(path, buggy, payload) ==
    LET p[i \in 1..Len(path)] ==
            IF i = 1 THEN payload
            ELSE IF p[i - 1] = path[i - 1] /\ <<path[i - 1], path[i]>> \notin buggy
            THEN path[i] ELSE Corrupt
    IN p[Len(path)]

\* Mapper.transform: the coerced payload, NoTransformPath, or ValidationError -- only the
\* result is validated, not the payload that came in nor what lies between.
transform(edges, buggy, src, dst, payload) ==
    LET path == IF src = dst THEN <<src>> ELSE _find_path(edges, src, dst)
    IN IF path = <<>> THEN <<"no path">>
       ELSE IF chain(path, buggy, payload) # dst THEN <<"invalid">>
       ELSE <<"output", path>>
=============================================================================
