----------------------------- MODULE DeskProofs -----------------------------
(***************************************************************************)
(* The agents that answer one request at a time, proved for any set of     *)
(* requests, any tables of transforms, any tally and any number of deaths. *)
(*                                                                         *)
(* Mapper's path search is proved by the invariant of breadth-first search,*)
(* and induction over its turns by a least counterexample.                 *)
(***************************************************************************)
EXTENDS Desk, FiniteSetTheorems, SequenceTheorems, WellFoundedInduction, TLAPS

-----------------------------------------------------------------------------
(* Numbers and iteration.                                                  *)

\* A non-empty set of natural numbers has a least element: the arguments by a least
\* counterexample below rest on it.
LEMMA Least ==
    ASSUME NEW T \in SUBSET Nat, T # {}
    PROVE  \E n \in T : \A m \in T : n <= m
<1> DEFINE R == OpToRel(<, Nat)
<1>1. IsWellFoundedOn(R, Nat)
  BY NatLessThanWellFounded
<1>2. R = {p \in Nat \X Nat : p[1] < p[2]}
  BY DEF OpToRel
<1> HIDE DEF R
<1>3. PICK n \in T : \A m \in T : ~(<<m, n>> \in R)
  BY <1>1, WFMin
<1>4. \A m \in T : ~(m < n)
  BY <1>2, <1>3
<1> QED BY <1>4

\* The values of G applied again and again to a are a sequence.
Iterated(D, G, a) ==
    \E f \in [Nat -> D] : f[0] = a /\ \A n \in Nat : f[n + 1] = G[f[n]]

\* A function applied again and again defines a sequence, so the recursive functions
\* of Mapper and Desk exist.
LEMMA Iterates ==
    ASSUME NEW D, NEW G \in [D -> D], NEW a \in D
    PROVE  Iterated(D, G, a)
<1> DEFINE Upto(n, h) == /\ h \in [0..n -> D] /\ h[0] = a
                         /\ \A i \in 0..(n - 1) : h[i + 1] = G[h[i]]
           T == {n \in Nat : ~ \E h : Upto(n, h)}
<1>1. \A n \in Nat : \E h : Upto(n, h)
  <2> SUFFICES ASSUME T # {} PROVE FALSE
    OBVIOUS
  <2>1. PICK n \in T : \A m \in T : n <= m
    BY Least
  <2>2. CASE n = 0
    <3>1. Upto(0, [i \in 0..0 |-> a])
      OBVIOUS
    <3> QED BY <2>1, <2>2, <3>1
  <2>3. CASE n # 0
    <3>0. n - 1 \in Nat /\ ~(n <= n - 1)
      BY <2>3
    <3>1. PICK h : Upto(n - 1, h)
      BY <2>1, <3>0
    <3> DEFINE g == [i \in 0..n |-> IF i = n THEN G[h[n - 1]] ELSE h[i]]
    <3>2. Upto(n, g)
      BY <3>1, <2>3
    <3> QED BY <2>1, <3>2
  <2> QED BY <2>2, <2>3
<1>2. ASSUME NEW n \in Nat, NEW m \in Nat, n <= m, NEW h, NEW g, Upto(n, h), Upto(m, g)
      PROVE  \A i \in 0..n : h[i] = g[i]
  <2> DEFINE U == {i \in Nat : i <= n /\ h[i] # g[i]}
  <2> SUFFICES ASSUME U # {} PROVE FALSE
    OBVIOUS
  <2>1. PICK i \in U : \A j \in U : i <= j
    BY Least
  <2>2. i # 0
    BY <1>2, <2>1
  <2>3. i - 1 \in 0..(n - 1) /\ i - 1 \notin U
    BY <2>1, <2>2
  <2>4. h[i] = G[h[i - 1]] /\ g[i] = G[g[i - 1]]
    BY <1>2, <2>1, <2>3
  <2> QED BY <2>1, <2>3, <2>4
<1> DEFINE H(n) == CHOOSE h : Upto(n, h)
           f == [n \in Nat |-> H(n)[n]]
<1>3. \A n \in Nat : Upto(n, H(n))
  BY <1>1
<1> HIDE DEF H
<1>4. f \in [Nat -> D] /\ f[0] = a
  BY <1>3
<1>5. ASSUME NEW n \in Nat PROVE f[n + 1] = G[f[n]]
  <2>1. H(n + 1)[n] = H(n)[n]
    <3>1. n + 1 \in Nat /\ n <= n + 1 /\ n \in 0..n
      OBVIOUS
    <3>2. Upto(n, H(n)) /\ Upto(n + 1, H(n + 1))
      BY <1>3, <3>1
    <3> HIDE DEF Upto
    <3>3. \A i \in 0..n : H(n)[i] = H(n + 1)[i]
      BY <1>2, <3>1, <3>2
    <3> QED BY <3>1, <3>3
  <2>2. H(n + 1)[n + 1] = G[H(n + 1)[n]]
    BY <1>3
  <2> QED BY <2>1, <2>2
<1> HIDE DEF f
<1> QED BY <1>4, <1>5 DEF Iterated

\* sorted lists every version of a finite set once.
LEMMA SortedLists ==
    ASSUME NEW S \in SUBSET Nat, IsFiniteSet(S)
    PROVE  /\ sorted(S) \in [1..Cardinality(S) -> S]
           /\ \A i, j \in 1..Cardinality(S) : sorted(S)[i] = sorted(S)[j] => i = j
           /\ \A v \in S : \E i \in 1..Cardinality(S) : sorted(S)[i] = v
<1> DEFINE n == Cardinality(S)
           below(v) == {u \in S : u <= v}
           rank == [v \in S |-> Cardinality(below(v))]
           Increasing(s) == \A i, j \in 1..n : i < j => s[i] < s[j]
<1>1. n \in Nat /\ IsFiniteSet(1..n) /\ Cardinality(1..n) = n
  BY FS_CardinalityType, FS_Interval
<1>2. \A v \in S : IsFiniteSet(below(v)) /\ Cardinality(below(v)) \in 1..n
  <2> SUFFICES ASSUME NEW v \in S PROVE IsFiniteSet(below(v)) /\ Cardinality(below(v)) \in 1..n
    OBVIOUS
  <2>1. below(v) \in SUBSET S /\ below(v) # {}
    OBVIOUS
  <2> HIDE DEF below
  <2>2. IsFiniteSet(below(v)) /\ Cardinality(below(v)) <= n
    BY <2>1, FS_Subset
  <2>3. Cardinality(below(v)) \in Nat /\ Cardinality(below(v)) # 0
    BY <2>1, <2>2, FS_CardinalityType, FS_EmptySet
  <2> QED BY <1>1, <2>2, <2>3
<1>3. ASSUME NEW u \in S, NEW v \in S, u < v PROVE rank[u] < rank[v]
  <2>1. below(u) \in SUBSET below(v) /\ v \in below(v) /\ v \notin below(u)
    <3>1. \A w \in S : w \in Nat
      OBVIOUS
    <3>2. u \in Nat /\ v \in Nat /\ v <= v /\ ~(v <= u)
      BY <1>3, <3>1
    <3>3. \A w \in S : w <= u => w <= v
      BY <1>3, <3>1, <3>2
    <3> QED BY <3>2, <3>3
  <2> HIDE DEF below
  <2>2. Cardinality(below(u)) <= Cardinality(below(v))
    BY <1>2, <2>1, FS_Subset
  <2>3. Cardinality(below(u)) # Cardinality(below(v))
    BY <1>2, <2>1, FS_Subset
  <2> QED BY <1>1, <1>2, <2>2, <2>3
<1>4. rank \in [S -> 1..n]
  <2> HIDE DEF below
  <2> QED BY <1>2
<1> HIDE DEF rank
<1>5. rank \in Surjection(S, 1..n)
  <2>1. \A u, v \in S : rank[u] = rank[v] => u = v
    <3> SUFFICES ASSUME NEW u \in S, NEW v \in S, u # v PROVE rank[u] # rank[v]
      OBVIOUS
    <3>1. u < v \/ v < u
      OBVIOUS
    <3>2. rank[u] \in Nat /\ rank[v] \in Nat
      BY <1>1, <1>4
    <3> QED BY <1>3, <3>1, <3>2
  <2>2. rank \in Injection(S, 1..n)
    BY <1>4, <2>1 DEF Injection, IsInjective
  <2> QED BY <1>1, <2>2, FS_Injection
<1> DEFINE g == [i \in 1..n |-> CHOOSE v \in S : rank[v] = i]
<1>6. \A i \in 1..n : g[i] \in S /\ rank[g[i]] = i
  BY <1>5 DEF Surjection
<1>7. g \in [1..n -> S] /\ Increasing(g)
  <2>1. g \in [1..n -> S]
    BY <1>6
  <2>2. ASSUME NEW i \in 1..n, NEW j \in 1..n, i < j PROVE g[i] < g[j]
    <3>1. g[i] \in S /\ g[j] \in S /\ rank[g[i]] = i /\ rank[g[j]] = j
      BY <1>6
    <3> HIDE DEF g
    <3>2. g[i] \in Nat /\ g[j] \in Nat
      BY <3>1
    <3>3. ~(g[j] < g[i])
      <4> SUFFICES ASSUME g[j] < g[i] PROVE FALSE
        OBVIOUS
      <4>1. rank[g[j]] < rank[g[i]]
        BY <1>3, <3>1
      <4> QED BY <1>1, <2>2, <3>1, <4>1
    <3>4. g[i] # g[j]
      BY <1>1, <2>2, <3>1
    <3> QED BY <3>2, <3>3, <3>4
  <2> HIDE DEF g
  <2> QED BY <2>1, <2>2
<1> DEFINE s == sorted(S)
<1>8. s \in [1..n -> S] /\ Increasing(s)
  <2>1. s = CHOOSE t \in [1..n -> S] : Increasing(t)
    BY DEF sorted
  <2> HIDE DEF s, g, n, Increasing
  <2> QED BY <1>7, <2>1
<1> HIDE DEF s
<1>9. \A i, j \in 1..n : s[i] = s[j] => i = j
  <2> SUFFICES ASSUME NEW i \in 1..n, NEW j \in 1..n, i # j PROVE s[i] # s[j]
    OBVIOUS
  <2>1. i < j \/ j < i
    BY <1>1
  <2>2. s[i] \in Nat /\ s[j] \in Nat
    BY <1>8
  <2> QED BY <1>8, <2>1, <2>2
<1>10. s \in Surjection(1..n, S)
  <2>1. s \in Injection(1..n, S)
    BY <1>8, <1>9 DEF Injection, IsInjective
  <2> QED BY <1>1, <2>1, FS_Injection
<1> QED BY <1>8, <1>9, <1>10 DEF Surjection, s

-----------------------------------------------------------------------------
(* Mapper._find_path: breadth-first search over the table of transforms.   *)

\* A table of transforms between versions.
Graph(edges) == IsFiniteSet(edges) /\ edges \subseteq Nat \X Nat

\* The locals of _find_path.
SearchState == [queue : Seq(Seq(Nat)), seen : SUBSET Nat]

\* The loop is over: the queue is empty, or its first path ends at dst.
Stopped(dst, s) == s.queue = <<>> \/ Last(s.queue[1]) = dst

\* The versions at which the paths in the queue end: seen, and not yet left.
Ends(s) == {Last(s.queue[i]) : i \in 1..Len(s.queue)}

\* The versions a turn appends paths to.
unseen(edges, s) == adjacency(edges, Last(s.queue[1])) \ s.seen

\* A chain of transforms from src.
IsPath(edges, src, p) ==
    /\ Len(p) > 0 /\ p[1] = src
    /\ \A j \in 1..(Len(p) - 1) : <<p[j], p[j + 1]>> \in edges

\* R[k] is what a chain of at most k transforms reaches.
Levels(edges, src, R) ==
    /\ R \in [Nat -> SUBSET Nat] /\ R[0] = {src}
    /\ \A k \in Nat : R[k + 1] = R[k] \cup {e[2] : e \in {e \in edges : e[1] \in R[k]}}

\* Each version has finitely many neighbours, each by a transform.
LEMMA AdjacencyType ==
    ASSUME NEW edges, Graph(edges), NEW v
    PROVE  /\ adjacency(edges, v) \in SUBSET Nat /\ IsFiniteSet(adjacency(edges, v))
           /\ \A u \in adjacency(edges, v) : <<v, u>> \in edges
<1> DEFINE E == {e \in edges : e[1] = v}
           f == [e \in E |-> e[2]]
<1>1. IsFiniteSet(E)
  BY FS_Subset DEF Graph
<1>2. adjacency(edges, v) = {f[e] : e \in E}
  BY DEF adjacency
<1>3. f \in Surjection(E, adjacency(edges, v))
  BY <1>2 DEF Surjection
<1>4. IsFiniteSet(adjacency(edges, v))
  BY <1>1, <1>3, FS_Surjection
<1>5. \A e \in E : e = <<v, e[2]>> /\ e[2] \in Nat
  BY DEF Graph
<1> QED BY <1>2, <1>4, <1>5

\* One turn of the search that has not stopped.
LEMMA Turn ==
    ASSUME NEW edges, Graph(edges), NEW dst, NEW s \in SearchState, ~Stopped(dst, s)
    PROVE  LET t == Pop(edges, dst, s)
               m == Len(s.queue)
               next == unseen(edges, s)
               k == Cardinality(next)
           IN /\ t \in SearchState /\ t.seen = s.seen \cup next
              /\ m \in Nat \ {0} /\ k \in Nat /\ IsFiniteSet(next) /\ next \subseteq Nat
              /\ Len(t.queue) = m - 1 + k
              /\ \A i \in 1..(m - 1) : t.queue[i] = s.queue[i + 1]
              /\ \A i \in 1..k : t.queue[m - 1 + i] = Append(s.queue[1], sorted(next)[i])
<1> DEFINE q == s.queue
           m == Len(q)
           next == unseen(edges, s)
           k == Cardinality(next)
           longer == [i \in 1..k |-> Append(q[1], sorted(next)[i])]
           t == Pop(edges, dst, s)
<1>1. q \in Seq(Seq(Nat)) /\ q # <<>> /\ m \in Nat \ {0} /\ s.seen \in SUBSET Nat
  BY EmptySeq DEF SearchState, Stopped
<1>2. next \in SUBSET Nat /\ IsFiniteSet(next)
  BY AdjacencyType, FS_Subset DEF unseen
<1> HIDE DEF next
<1>3. k \in Nat
  BY <1>2, FS_CardinalityType
<1>4. Head(q) = q[1] /\ q[1] \in Seq(Nat)
  BY <1>1
<1>5. t = [queue |-> Tail(q) \o longer, seen |-> s.seen \cup next]
  BY <1>4 DEF Pop, Stopped, next, unseen
<1> HIDE DEF t
<1>6. longer \in Seq(Seq(Nat)) /\ Len(longer) = k
  <2>1. \A i \in 1..k : sorted(next)[i] \in Nat
    BY <1>2, SortedLists
  <2>2. \A i \in 1..k : Append(q[1], sorted(next)[i]) \in Seq(Nat)
    BY <1>4, <2>1
  <2>3. longer \in [1..k -> Seq(Nat)]
    BY <2>2
  <2> HIDE DEF longer, k
  <2> QED BY <1>3, <2>3
<1>7. /\ Tail(q) \in Seq(Seq(Nat)) /\ Len(Tail(q)) = m - 1
      /\ \A i \in 1..(m - 1) : Tail(q)[i] = q[i + 1]
  BY <1>1, HeadTailProperties
<1>8. \A i \in 1..k : longer[i] = Append(q[1], sorted(next)[i])
  OBVIOUS
<1> HIDE DEF longer, k, m
<1>9. /\ t.queue \in Seq(Seq(Nat)) /\ Len(t.queue) = m - 1 + k
      /\ \A i \in 1..(m - 1 + k) :
             t.queue[i] = IF i <= m - 1 THEN Tail(q)[i] ELSE longer[i - (m - 1)]
  <2> DEFINE r == Tail(q)
             c == r \o longer
  <2>1. r \in Seq(Seq(Nat)) /\ Len(r) = m - 1
    BY <1>7
  <2> HIDE DEF r
  <2>2. /\ c \in Seq(Seq(Nat)) /\ Len(c) = Len(r) + Len(longer)
        /\ \A i \in 1..(Len(r) + Len(longer)) :
               c[i] = IF i <= Len(r) THEN r[i] ELSE longer[i - Len(r)]
    <3> HIDE DEF m, q, k
    <3> QED BY ONLY <1>6, <2>1, ConcatProperties
  <2> HIDE DEF c
  <2>3. t.queue = c
    BY <1>5 DEF c, r
  <2> QED BY <1>6, <2>1, <2>2, <2>3 DEF r
<1>10. t \in SearchState /\ t.seen = s.seen \cup next
  BY <1>1, <1>2, <1>5, <1>9 DEF SearchState
<1>11. \A i \in 1..(m - 1) : t.queue[i] = q[i + 1]
  <2> SUFFICES ASSUME NEW i \in 1..(m - 1) PROVE t.queue[i] = q[i + 1]
    OBVIOUS
  <2>1. i \in 1..(m - 1 + k) /\ i <= m - 1
    BY <1>1, <1>3 DEF m
  <2> QED BY <1>7, <1>9, <2>1
<1>12. \A i \in 1..k : t.queue[m - 1 + i] = Append(q[1], sorted(next)[i])
  <2> SUFFICES ASSUME NEW i \in 1..k
               PROVE  t.queue[m - 1 + i] = Append(q[1], sorted(next)[i])
    OBVIOUS
  <2>1. m - 1 + i \in 1..(m - 1 + k) /\ ~(m - 1 + i <= m - 1) /\ (m - 1 + i) - (m - 1) = i
    BY <1>1, <1>3
  <2> QED BY <1>8, <1>9, <2>1
<1> QED BY <1>1, <1>2, <1>3, <1>9, <1>10, <1>11, <1>12 DEF t, k, m, next

\* Every queued path leads from src to a version seen and not nearer than it is long.
Paths(edges, src, R, s) ==
    \A i \in 1..Len(s.queue) :
        /\ IsPath(edges, src, s.queue[i])
        /\ Last(s.queue[i]) \in s.seen
        /\ Len(s.queue[i]) > 1 => Last(s.queue[i]) \notin R[Len(s.queue[i]) - 2]

\* The queue is in order of length, of at most two lengths, one path to each version.
Ordered(s) ==
    \A i, j \in 1..Len(s.queue) :
        /\ i <= j => /\ Len(s.queue[i]) <= Len(s.queue[j])
                     /\ Len(s.queue[j]) <= Len(s.queue[i]) + 1
        /\ Last(s.queue[i]) = Last(s.queue[j]) => i = j

\* What is as near as the first path has been seen, and so has what is next to a version
\* the search has left; dst it never leaves.
Frontier(edges, dst, R, s) ==
    /\ s.queue # <<>> => R[Len(s.queue[1]) - 1] \subseteq s.seen
    /\ \A v \in s.seen \ Ends(s) : adjacency(edges, v) \subseteq s.seen
    /\ dst \in s.seen => dst \in Ends(s)

\* The invariant of breadth-first search.
SearchInv(edges, src, dst, R, s) ==
    /\ s \in SearchState /\ Ends(s) \subseteq s.seen
    /\ src \in s.seen /\ s.seen \subseteq {src} \cup {e[2] : e \in edges}
    /\ Paths(edges, src, R, s) /\ Ordered(s) /\ Frontier(edges, dst, R, s)

\* A path and a neighbour of its end make a path.
LEMMA ExtendPath ==
    ASSUME NEW edges, Graph(edges), NEW src \in Nat, NEW p \in Seq(Nat), IsPath(edges, src, p),
           NEW v \in adjacency(edges, Last(p))
    PROVE  /\ Append(p, v) \in Seq(Nat) /\ Len(Append(p, v)) = Len(p) + 1
           /\ Last(Append(p, v)) = v
           /\ IsPath(edges, src, Append(p, v))
<1>1. v \in Nat /\ <<Last(p), v>> \in edges
  BY AdjacencyType
<1>2. /\ Append(p, v) \in Seq(Nat) /\ Len(Append(p, v)) = Len(p) + 1
      /\ \A i \in 1..Len(p) : Append(p, v)[i] = p[i]
      /\ Append(p, v)[Len(p) + 1] = v
  BY <1>1
<1>3. Len(p) \in Nat /\ Len(p) > 0
  BY DEF IsPath
<1> DEFINE r == Append(p, v)
<1> HIDE DEF r
<1>4. \A j \in 1..(Len(r) - 1) : <<r[j], r[j + 1]>> \in edges
  <2> SUFFICES ASSUME NEW j \in 1..(Len(r) - 1) PROVE <<r[j], r[j + 1]>> \in edges
    OBVIOUS
  <2>1. CASE j = Len(p)
    <3>1. r[j] = p[Len(p)] /\ r[j + 1] = v
      BY <1>2, <1>3, <2>1 DEF r
    <3> QED BY <1>1, <3>1 DEF Last
  <2>2. CASE j # Len(p)
    <3>1. j \in 1..(Len(p) - 1) /\ j \in 1..Len(p) /\ j + 1 \in 1..Len(p)
      BY <1>2, <1>3, <2>2 DEF r
    <3>2. r[j] = p[j] /\ r[j + 1] = p[j + 1]
      BY <1>2, <3>1 DEF r
    <3> QED BY <3>1, <3>2 DEF IsPath
  <2> QED BY <2>1, <2>2
<1> QED BY <1>2, <1>3, <1>4 DEF r, IsPath, Last

\* A turn keeps the invariant of the search, and leaves one version.
LEMMA TurnKeeps ==
    ASSUME NEW edges, Graph(edges), NEW src \in Nat, NEW dst, NEW R, Levels(edges, src, R),
           NEW s, SearchInv(edges, src, dst, R, s), ~Stopped(dst, s)
    PROVE  LET t == Pop(edges, dst, s) IN
           /\ SearchInv(edges, src, dst, R, t)
           /\ Last(s.queue[1]) \notin s.seen \ Ends(s)
           /\ t.seen \ Ends(t) = (s.seen \ Ends(s)) \cup {Last(s.queue[1])}
<1> DEFINE t == Pop(edges, dst, s)
           q == s.queue
           m == Len(q)
           next == unseen(edges, s)
           k == Cardinality(next)
           f == sorted(next)
           first == q[1]
           L == Len(first)
           v == Last(first)
<1>1. /\ s \in SearchState /\ Ends(s) \subseteq s.seen
      /\ src \in s.seen /\ s.seen \subseteq {src} \cup {e[2] : e \in edges}
      /\ Paths(edges, src, R, s) /\ Ordered(s) /\ Frontier(edges, dst, R, s)
  BY DEF SearchInv
<1>2. /\ t \in SearchState /\ t.seen = s.seen \cup next
      /\ m \in Nat \ {0} /\ k \in Nat /\ IsFiniteSet(next) /\ next \subseteq Nat
      /\ Len(t.queue) = m - 1 + k
      /\ \A i \in 1..(m - 1) : t.queue[i] = q[i + 1]
      /\ \A i \in 1..k : t.queue[m - 1 + i] = Append(first, f[i])
  BY <1>1, Turn
<1>3. /\ f \in [1..k -> next]
      /\ \A i, j \in 1..k : f[i] = f[j] => i = j
      /\ \A u \in next : \E i \in 1..k : f[i] = u
  BY <1>2, SortedLists
<1>4. /\ q \in Seq(Seq(Nat)) /\ \A i \in 1..m : q[i] \in Seq(Nat)
      /\ first \in Seq(Nat) /\ L \in Nat \ {0} /\ IsPath(edges, src, first)
      /\ v \in s.seen /\ v # dst /\ 1 \in 1..m
  <2>1. q \in Seq(Seq(Nat)) /\ 1 \in 1..m
    BY <1>1, <1>2 DEF SearchState
  <2>2. IsPath(edges, src, first) /\ v \in s.seen
    BY <1>1, <2>1 DEF Paths
  <2>3. v # dst
    BY DEF Stopped
  <2> HIDE DEF q
  <2>4. \A i \in 1..m : q[i] \in Seq(Nat)
    BY <2>1
  <2>5. first \in Seq(Nat)
    BY <2>1, <2>4
  <2> HIDE DEF first
  <2>6. L \in Nat \ {0}
    BY <2>2, <2>5 DEF IsPath
  <2> QED BY <2>1, <2>2, <2>3, <2>4, <2>5, <2>6
<1>5. next = adjacency(edges, v) \ s.seen
  BY DEF unseen
<1> HIDE DEF t, q, m, next, k, f, first, L, v
\* the new queue: the old one without its first path, then the longer ones
<1>6. ASSUME NEW i \in 1..Len(t.queue)
      PROVE  \/ i \in 1..(m - 1) /\ i + 1 \in 1..m /\ t.queue[i] = q[i + 1]
             \/ \E j \in 1..k : /\ i = m - 1 + j /\ t.queue[i] = Append(first, f[j])
                                /\ Len(t.queue[i]) = L + 1 /\ Last(t.queue[i]) = f[j]
                                /\ IsPath(edges, src, t.queue[i])
  <2>1. CASE i <= m - 1
    BY <1>2, <2>1
  <2>2. CASE ~(i <= m - 1)
    <3> DEFINE j == i - (m - 1)
    <3>1. j \in 1..k /\ i = m - 1 + j
      BY <1>2, <2>2
    <3>2. t.queue[i] = Append(first, f[j]) /\ f[j] \in adjacency(edges, v)
      BY <1>2, <1>3, <1>5, <3>1
    <3> HIDE DEF j
    <3> DEFINE u == f[j]
    <3> HIDE DEF u
    <3>3. u \in adjacency(edges, Last(first))
      BY <3>2 DEF u, v
    <3>4. /\ Len(Append(first, u)) = Len(first) + 1 /\ Last(Append(first, u)) = u
          /\ IsPath(edges, src, Append(first, u))
      BY <1>4, <3>3, ExtendPath
    <3>5. /\ Len(t.queue[i]) = L + 1 /\ Last(t.queue[i]) = f[j]
          /\ IsPath(edges, src, t.queue[i])
      BY <3>2, <3>4 DEF L, u
    <3> QED BY <3>1, <3>2, <3>5
  <2> QED BY <2>1, <2>2
<1>7. Ends(t) = (Ends(s) \ {v}) \cup next
  <2>1. ASSUME NEW x \in Ends(t) PROVE x \in (Ends(s) \ {v}) \cup next
    <3>1. PICK i \in 1..Len(t.queue) : x = Last(t.queue[i])
      BY <2>1 DEF Ends
    <3>2. CASE i \in 1..(m - 1) /\ i + 1 \in 1..m /\ t.queue[i] = q[i + 1]
      <4>1. i + 1 # 1
        BY <1>2, <3>2
      <4>2. Last(q[i + 1]) # Last(q[1])
        BY <1>1, <1>4, <3>2, <4>1 DEF Ordered, q, m
      <4> QED BY <3>1, <3>2, <4>2 DEF Ends, q, m, v, first
    <3>3. CASE \E j \in 1..k : Last(t.queue[i]) = f[j]
      BY <1>3, <3>1, <3>3
    <3> QED BY <1>6, <3>2, <3>3
  <2>2. ASSUME NEW x \in Ends(s) \ {v} PROVE x \in Ends(t)
    <3>1. PICK i \in 1..m : x = Last(q[i])
      BY <2>2 DEF Ends, q, m
    <3>2. i # 1
      BY <2>2, <3>1 DEF v, first
    <3>3. i - 1 \in 1..(m - 1) /\ i - 1 \in 1..Len(t.queue) /\ (i - 1) + 1 = i
      BY <1>2, <3>1, <3>2
    <3>4. t.queue[i - 1] = q[i]
      BY <1>2, <3>3
    <3> QED BY <3>1, <3>3, <3>4 DEF Ends
  <2>3. ASSUME NEW x \in next PROVE x \in Ends(t)
    <3>1. PICK j \in 1..k : f[j] = x
      BY <1>3
    <3>2. m - 1 + j \in 1..Len(t.queue) /\ ~(m - 1 + j <= m - 1)
      BY <1>2, <3>1
    <3>3. t.queue[m - 1 + j] = Append(first, f[j]) /\ f[j] \in adjacency(edges, v)
      BY <1>2, <1>3, <1>5
    <3>4. Last(t.queue[m - 1 + j]) = x
      BY <1>4, <3>1, <3>3, ExtendPath DEF v
    <3> QED BY <3>2, <3>4 DEF Ends
  <2> QED BY <2>1, <2>2, <2>3
<1>8. v \in Ends(s) /\ next \cap s.seen = {}
  BY <1>4, <1>5 DEF Ends, v, first, q, m
<1>9. t.seen \ Ends(t) = (s.seen \ Ends(s)) \cup {v}
  BY <1>1, <1>2, <1>4, <1>7, <1>8
<1>10. /\ Ends(t) \subseteq t.seen /\ src \in t.seen
       /\ t.seen \subseteq {src} \cup {e[2] : e \in edges}
  <2>1. next \subseteq {e[2] : e \in edges}
    BY <1>5 DEF adjacency
  <2> QED BY <1>1, <1>2, <1>7, <2>1
<1>11. R[L - 1] \subseteq s.seen
  BY <1>1, <1>2, <1>4 DEF Frontier, L, first, q, SearchState, Stopped
<1>12. Paths(edges, src, R, t)
  <2> SUFFICES ASSUME NEW i \in 1..Len(t.queue)
               PROVE  /\ IsPath(edges, src, t.queue[i])
                      /\ Last(t.queue[i]) \in t.seen
                      /\ Len(t.queue[i]) > 1 => Last(t.queue[i]) \notin R[Len(t.queue[i]) - 2]
    BY DEF Paths
  <2>1. CASE i \in 1..(m - 1) /\ i + 1 \in 1..m /\ t.queue[i] = q[i + 1]
    BY <1>1, <1>2, <2>1 DEF Paths, q, m
  <2>2. ASSUME NEW j \in 1..k, Len(t.queue[i]) = L + 1, Last(t.queue[i]) = f[j],
               IsPath(edges, src, t.queue[i])
        PROVE  /\ IsPath(edges, src, t.queue[i])
               /\ Last(t.queue[i]) \in t.seen
               /\ Len(t.queue[i]) > 1 => Last(t.queue[i]) \notin R[Len(t.queue[i]) - 2]
    <3>1. f[j] \in next /\ f[j] \notin s.seen
      BY <1>3, <1>8
    <3>2. Len(t.queue[i]) - 2 = L - 1
      BY <1>4, <2>2
    <3> QED BY <1>2, <1>11, <2>2, <3>1, <3>2
  <2> QED BY <1>6, <2>1, <2>2
<1>13. \A i \in 1..m : L <= Len(q[i]) /\ Len(q[i]) <= L + 1 /\ Len(q[i]) \in Nat
  <2> SUFFICES ASSUME NEW i \in 1..m
               PROVE  L <= Len(q[i]) /\ Len(q[i]) <= L + 1 /\ Len(q[i]) \in Nat
    OBVIOUS
  <2>1. 1 \in 1..m /\ 1 <= i /\ q[i] \in Seq(Nat)
    BY <1>4
  <2>2. Len(q[1]) <= Len(q[i]) /\ Len(q[i]) <= Len(q[1]) + 1
    BY <1>1, <2>1 DEF Ordered, q, m
  <2> QED BY <2>1, <2>2 DEF L, first
<1>14. ASSUME NEW i \in 1..Len(t.queue)
       PROVE  Len(t.queue[i]) \in {L, L + 1}
  <2>1. CASE i + 1 \in 1..m /\ t.queue[i] = q[i + 1]
    BY <1>4, <1>13, <2>1
  <2>2. CASE Len(t.queue[i]) = L + 1
    BY <2>2
  <2> QED BY <1>6, <2>1, <2>2
<1>15. Ordered(t)
  <2> SUFFICES ASSUME NEW i \in 1..Len(t.queue), NEW j \in 1..Len(t.queue)
               PROVE  /\ i <= j => /\ Len(t.queue[i]) <= Len(t.queue[j])
                                   /\ Len(t.queue[j]) <= Len(t.queue[i]) + 1
                      /\ Last(t.queue[i]) = Last(t.queue[j]) => i = j
    BY DEF Ordered
  <2> DEFINE Old(x) == x \in 1..(m - 1) /\ x + 1 \in 1..m /\ t.queue[x] = q[x + 1]
             New(x, y) == /\ x = m - 1 + y /\ Len(t.queue[x]) = L + 1
                          /\ Last(t.queue[x]) = f[y]
  <2>1. Old(i) \/ \E y \in 1..k : New(i, y)
    BY <1>6
  <2>2. Old(j) \/ \E y \in 1..k : New(j, y)
    BY <1>6
  <2>3. ASSUME NEW x, Old(x), NEW y \in 1..k PROVE Last(t.queue[x]) # f[y]
    <3>1. Last(q[x + 1]) \in s.seen
      BY <1>1, <2>3 DEF Paths, q, m
    <3> QED BY <1>3, <1>8, <2>3, <3>1
  <2>4. CASE Old(i) /\ Old(j)
    <3>1. /\ i + 1 <= j + 1 => /\ Len(q[i + 1]) <= Len(q[j + 1])
                               /\ Len(q[j + 1]) <= Len(q[i + 1]) + 1
          /\ Last(q[i + 1]) = Last(q[j + 1]) => i + 1 = j + 1
      BY <1>1, <2>4 DEF Ordered, q, m
    <3> QED BY <1>2, <2>4, <3>1
  <2>5. ASSUME Old(i), NEW y \in 1..k, New(j, y)
        PROVE  /\ Len(t.queue[i]) <= L + 1 /\ L + 1 <= Len(t.queue[i]) + 1
               /\ Len(t.queue[j]) = L + 1 /\ Last(t.queue[i]) # Last(t.queue[j])
    <3>1. /\ L <= Len(t.queue[i]) /\ Len(t.queue[i]) <= L + 1 /\ Len(t.queue[i]) \in Nat
      BY <1>13, <2>5
    <3>2. Last(t.queue[i]) # f[y]
      BY <2>3, <2>5
    <3>3. Len(t.queue[j]) = L + 1 /\ Last(t.queue[j]) = f[y]
      BY <2>5
    <3> HIDE DEF Old, New
    <3> QED BY <1>4, <3>1, <3>2, <3>3
  <2>6. ASSUME NEW y \in 1..k, New(i, y), Old(j)
        PROVE  ~(i <= j) /\ Last(t.queue[i]) # Last(t.queue[j])
    <3>1. ~(i <= j)
      BY <1>2, <2>6
    <3> QED BY <2>3, <2>6, <3>1
  <2>7. ASSUME NEW y \in 1..k, New(i, y), NEW z \in 1..k, New(j, z)
        PROVE  /\ Len(t.queue[i]) = L + 1 /\ Len(t.queue[j]) = L + 1
               /\ Last(t.queue[i]) = Last(t.queue[j]) => i = j
    BY <1>3, <2>7
  <2>8. L + 1 <= L + 1 /\ L + 1 <= L + 1 + 1
    BY <1>4
  <2>9. CASE Old(i)
    <3>1. CASE \E y \in 1..k : New(j, y)
      <4> PICK y \in 1..k : New(j, y)
        BY <3>1
      <4> HIDE DEF Old, New
      <4> QED BY <2>5, <2>9
    <3> HIDE DEF Old, New
    <3> QED BY <2>2, <2>4, <2>9, <3>1
  <2>10. ASSUME NEW y \in 1..k, New(i, y)
         PROVE  /\ i <= j => /\ Len(t.queue[i]) <= Len(t.queue[j])
                             /\ Len(t.queue[j]) <= Len(t.queue[i]) + 1
                /\ Last(t.queue[i]) = Last(t.queue[j]) => i = j
    <3>1. CASE Old(j)
      BY <2>6, <2>10, <3>1
    <3>2. CASE \E z \in 1..k : New(j, z)
      <4> PICK z \in 1..k : New(j, z)
        BY <3>2
      <4> HIDE DEF Old, New
      <4> QED BY <2>7, <2>8, <2>10
    <3> HIDE DEF Old, New
    <3> QED BY <2>2, <3>1, <3>2
  <2> HIDE DEF Old, New
  <2> QED BY <2>1, <2>9, <2>10
<1>16. \A u \in t.seen \ Ends(t) : adjacency(edges, u) \subseteq t.seen
  <2>1. \A u \in s.seen \ Ends(s) : adjacency(edges, u) \subseteq s.seen
    BY <1>1 DEF Frontier
  <2> QED BY <1>2, <1>5, <1>9, <2>1
<1>17. dst \in t.seen => dst \in Ends(t)
  <2>1. dst \in s.seen => dst \in Ends(s)
    BY <1>1 DEF Frontier
  <2> QED BY <1>2, <1>4, <1>7, <2>1
<1>18. ASSUME t.queue # <<>> PROVE R[Len(t.queue[1]) - 1] \subseteq t.seen
  <2>1. 1 \in 1..Len(t.queue) /\ t.queue \in Seq(Seq(Nat))
    BY <1>2, <1>18, EmptySeq DEF SearchState
  <2>2. CASE Len(t.queue[1]) = L
    BY <1>2, <1>11, <2>2
  <2>3. CASE Len(t.queue[1]) = L + 1
    <3>1. ASSUME NEW i \in 1..Len(t.queue) PROVE Last(t.queue[i]) \notin R[L - 1]
      <4>1. Len(t.queue[1]) <= Len(t.queue[i])
        <5>1. \A x, y \in 1..Len(t.queue) :
                  x <= y => Len(t.queue[x]) <= Len(t.queue[y])
          BY <1>15, Zenon DEF Ordered
        <5>2. 1 <= i
          BY <3>1
        <5> QED BY <2>1, <3>1, <5>1, <5>2, Zenon
      <4>2. Len(t.queue[i]) = L + 1
        <5>1. Len(t.queue[i]) \in {L, L + 1}
          BY <1>14, <3>1
        <5> QED BY <1>4, <2>3, <4>1, <5>1
      <4>3. Len(t.queue[i]) > 1 /\ Len(t.queue[i]) - 2 = L - 1
        BY <1>4, <4>2
      <4> QED BY <1>12, <4>3 DEF Paths
    <3>2. ASSUME NEW u \in R[L - 1] PROVE u \in t.seen \ Ends(t)
      BY <1>2, <1>11, <3>1 DEF Ends
    <3>3. L - 1 \in Nat /\ L - 1 + 1 = L
      BY <1>4
    <3>4. R[L] = R[L - 1] \cup {e[2] : e \in {e \in edges : e[1] \in R[L - 1]}}
      BY <3>3 DEF Levels
    <3>5. ASSUME NEW e \in edges, e[1] \in R[L - 1] PROVE e[2] \in t.seen
      <4>1. e[2] \in adjacency(edges, e[1])
        BY <3>5 DEF adjacency
      <4> QED BY <1>16, <3>2, <3>5, <4>1
    <3>6. R[L] \subseteq t.seen
      BY <3>2, <3>4, <3>5
    <3>7. Len(t.queue[1]) - 1 = L
      BY <1>4, <2>3
    <3> QED BY <3>6, <3>7
  <2> QED BY <1>14, <2>1, <2>2, <2>3
<1>19. SearchInv(edges, src, dst, R, t)
  BY <1>2, <1>10, <1>12, <1>15, <1>16, <1>17, <1>18 DEF SearchInv, Frontier
<1> QED BY <1>8, <1>9, <1>19 DEF t, v, first, q

\* The locals before the loop.
start(src) == [queue |-> <<<<src>>>>, seen |-> {src}]

\* The search: its first state, and a turn at a time.
LEMMA SearchRuns ==
    ASSUME NEW edges, Graph(edges), NEW src \in Nat, NEW dst
    PROVE  LET s == search(edges, src, dst)
           IN /\ s \in [Nat -> SearchState] /\ s[0] = start(src)
              /\ \A n \in Nat : s[n + 1] = Pop(edges, dst, s[n])
<1> DEFINE G == [x \in SearchState |-> Pop(edges, dst, x)]
           P(s) == s = [n \in Nat |-> IF n = 0 THEN start(src) ELSE Pop(edges, dst, s[n - 1])]
<1>1. \A x \in SearchState : Pop(edges, dst, x) \in SearchState
  <2> SUFFICES ASSUME NEW x \in SearchState PROVE Pop(edges, dst, x) \in SearchState
    OBVIOUS
  <2>1. CASE Stopped(dst, x)
    BY <2>1 DEF Stopped, Pop
  <2>2. CASE ~Stopped(dst, x)
    BY <2>2, Turn
  <2> QED BY <2>1, <2>2
<1>2. G \in [SearchState -> SearchState]
  BY <1>1
<1>3. start(src) \in SearchState
  <2>1. <<src>> \in Seq(Nat)
    OBVIOUS
  <2>2. <<<<src>>>> \in Seq(Seq(Nat))
    BY <2>1
  <2> QED BY <2>2 DEF start, SearchState
<1>4. PICK f \in [Nat -> SearchState] : f[0] = start(src) /\ \A n \in Nat : f[n + 1] = G[f[n]]
  <2>1. Iterated(SearchState, G, start(src))
    <3> HIDE DEF G
    <3> QED BY <1>2, <1>3, Iterates
  <2> QED BY <2>1 DEF Iterated
<1>5. P(f)
  <2>1. ASSUME NEW n \in Nat, n # 0 PROVE f[n] = Pop(edges, dst, f[n - 1])
    <3>1. n - 1 \in Nat /\ (n - 1) + 1 = n
      BY <2>1
    <3>2. f[n] = G[f[n - 1]] /\ f[n - 1] \in SearchState
      BY <1>4, <3>1
    <3> QED BY <3>2
  <2>2. \A n \in Nat : f[n] = IF n = 0 THEN start(src) ELSE Pop(edges, dst, f[n - 1])
    BY <1>4, <2>1
  <2> QED BY <1>4, <2>2
<1>6. search(edges, src, dst) = CHOOSE s : P(s)
  BY Zenon DEF search, start
<1>7. P(search(edges, src, dst))
  <2> HIDE DEF P
  <2> QED BY <1>5, <1>6
<1> DEFINE s == search(edges, src, dst)
<1> HIDE DEF s
<1>8. s[0] = start(src) /\ \A n \in Nat : s[n + 1] = Pop(edges, dst, s[n])
  <2>1. \A n \in Nat : s[n] = IF n = 0 THEN start(src) ELSE Pop(edges, dst, s[n - 1])
    BY <1>7 DEF s
  <2>2. \A n \in Nat : n + 1 \in Nat /\ n + 1 # 0 /\ (n + 1) - 1 = n
    OBVIOUS
  <2> QED BY <2>1, <2>2
<1>9. \A n \in Nat : s[n] \in SearchState
  <2> DEFINE T == {n \in Nat : s[n] \notin SearchState}
  <2> SUFFICES ASSUME T # {} PROVE FALSE
    OBVIOUS
  <2>1. PICK n \in T : \A i \in T : n <= i
    BY Least
  <2>2. n # 0
    BY <1>3, <1>8, <2>1
  <2>3. n - 1 \in Nat /\ (n - 1) + 1 = n /\ n - 1 \notin T
    BY <2>1, <2>2
  <2> QED BY <1>1, <1>8, <2>1, <2>3
<1>10. s = [n \in Nat |-> s[n]]
  BY <1>7 DEF s
<1> QED BY <1>8, <1>9, <1>10 DEF s

\* The search has stopped, or has left n versions.
Progress(dst, s, n) ==
    \/ Stopped(dst, s)
    \/ IsFiniteSet(s.seen \ Ends(s)) /\ Cardinality(s.seen \ Ends(s)) = n

\* Until it stops, the search leaves one more version at every turn.
LEMMA SearchKeeps ==
    ASSUME NEW edges, Graph(edges), NEW src \in Nat, NEW dst, NEW R, Levels(edges, src, R)
    PROVE  \A n \in Nat :
               /\ SearchInv(edges, src, dst, R, search(edges, src, dst)[n])
               /\ Progress(dst, search(edges, src, dst)[n], n)
<1> DEFINE s == search(edges, src, dst)
           left(n) == s[n].seen \ Ends(s[n])
           Good(n) == /\ SearchInv(edges, src, dst, R, s[n])
                      /\ \/ Stopped(dst, s[n])
                         \/ IsFiniteSet(left(n)) /\ Cardinality(left(n)) = n
           T == {n \in Nat : ~Good(n)}
<1> SUFFICES ASSUME T # {} PROVE FALSE
  BY DEF Progress
<1>1. PICK n \in T : \A i \in T : n <= i
  BY Least
<1>2. /\ s \in [Nat -> SearchState] /\ s[0] = start(src)
      /\ \A i \in Nat : s[i + 1] = Pop(edges, dst, s[i])
  BY SearchRuns
<1> HIDE DEF s
<1>3. CASE n = 0
  <2> DEFINE z == s[0]
  <2>1. z.queue = <<<<src>>>> /\ z.seen = {src} /\ z \in SearchState
    <3>1. z = start(src) /\ z \in SearchState
      BY <1>2
    <3> HIDE DEF z
    <3> QED BY <3>1 DEF start
  <2>2. Len(z.queue) = 1 /\ z.queue[1] = <<src>> /\ Len(z.queue[1]) = 1 /\ z.queue # <<>>
    <3> HIDE DEF z
    <3>1. Len(z.queue) = 1 /\ z.queue[1] = <<src>> /\ z.queue # <<>>
      BY <2>1
    <3> QED BY <3>1
  <2> HIDE DEF z
  <2>3. Last(z.queue[1]) = src /\ z.queue[1][1] = src
    BY <2>2 DEF Last
  <2>4. Ends(z) = {src}
    BY <2>2, <2>3 DEF Ends
  <2>5. Paths(edges, src, R, z)
    <3>1. IsPath(edges, src, z.queue[1])
      BY <2>2, <2>3 DEF IsPath
    <3>2. \A i \in 1..Len(z.queue) : i = 1
      BY <2>2
    <3>3. ~(Len(z.queue[1]) > 1) /\ Last(z.queue[1]) \in z.seen
      BY <2>1, <2>2, <2>3
    <3> QED BY <3>1, <3>2, <3>3 DEF Paths
  <2>6. Ordered(z)
    <3> SUFFICES ASSUME NEW i \in 1..Len(z.queue), NEW j \in 1..Len(z.queue)
                 PROVE  /\ i <= j => /\ Len(z.queue[i]) <= Len(z.queue[j])
                                     /\ Len(z.queue[j]) <= Len(z.queue[i]) + 1
                        /\ Last(z.queue[i]) = Last(z.queue[j]) => i = j
      BY DEF Ordered
    <3>1. i = 1 /\ j = 1
      BY <2>2
    <3> QED BY <2>2, <3>1
  <2>7. Frontier(edges, dst, R, z)
    BY <2>1, <2>2, <2>4 DEF Frontier, Levels
  <2>8. SearchInv(edges, src, dst, R, z)
    BY <2>1, <2>4, <2>5, <2>6, <2>7 DEF SearchInv
  <2>9. left(0) = {}
    BY <2>1, <2>4 DEF z
  <2> HIDE DEF left
  <2> QED BY <1>1, <1>3, <2>8, <2>9, FS_EmptySet DEF z
<1>4. CASE n # 0
  <2> DEFINE b == s[n - 1]
  <2>1. n - 1 \in Nat /\ (n - 1) + 1 = n /\ Good(n - 1)
    BY <1>1, <1>4
  <2>2. s[n] = Pop(edges, dst, b) /\ SearchInv(edges, src, dst, R, b)
    BY <1>2, <2>1
  <2>3. CASE Stopped(dst, b)
    <3>1. s[n] = b
      BY <2>2, <2>3 DEF Pop, Stopped
    <3> QED BY <1>1, <2>2, <2>3, <3>1
  <2>4. CASE ~Stopped(dst, b)
    <3> DEFINE v == Last(b.queue[1])
    <3>1. IsFiniteSet(left(n - 1)) /\ Cardinality(left(n - 1)) = n - 1
      BY <2>1, <2>4
    <3> HIDE DEF b
    <3>2. /\ SearchInv(edges, src, dst, R, s[n]) /\ v \notin b.seen \ Ends(b)
          /\ s[n].seen \ Ends(s[n]) = (b.seen \ Ends(b)) \cup {v}
      BY <2>2, <2>4, TurnKeeps
    <3>3. v \notin left(n - 1) /\ left(n) = left(n - 1) \cup {v}
      BY <3>2 DEF b
    <3> HIDE DEF left, v
    <3>4. IsFiniteSet(left(n)) /\ Cardinality(left(n)) = n
      BY <2>1, <3>1, <3>3, FS_AddElement
    <3> QED BY <1>1, <3>2, <3>4
  <2> QED BY <2>3, <2>4
<1> QED BY <1>3, <1>4

\* So it has stopped after as many turns as there are versions.
LEMMA SearchStops ==
    ASSUME NEW edges, Graph(edges), NEW src \in Nat, NEW dst, NEW R, Levels(edges, src, R)
    PROVE  Stopped(dst, search(edges, src, dst)[Cardinality(edges) + 1])
<1> DEFINE N == Cardinality(edges)
           s == search(edges, src, dst)[N + 1]
           left == s.seen \ Ends(s)
           targets == {e[2] : e \in edges}
           g == [e \in edges |-> e[2]]
<1>1. N \in Nat /\ IsFiniteSet(edges)
  BY FS_CardinalityType DEF Graph
<1>2. N + 1 \in Nat
  BY <1>1
<1>3. g \in Surjection(edges, targets)
  BY DEF Surjection
<1>4. IsFiniteSet(targets) /\ Cardinality(targets) <= N
  BY <1>1, <1>3, FS_Surjection
<1> HIDE DEF targets
<1>5. IsFiniteSet({src} \cup targets) /\ Cardinality({src} \cup targets) <= N + 1
  <2>1. Cardinality(targets) \in Nat
    BY <1>4, FS_CardinalityType
  <2>2. {src} \cup targets = targets \cup {src}
    OBVIOUS
  <2>3. /\ IsFiniteSet(targets \cup {src})
        /\ Cardinality(targets \cup {src}) = IF src \in targets THEN Cardinality(targets)
                                             ELSE Cardinality(targets) + 1
    BY <1>4, FS_AddElement
  <2> QED BY <1>1, <1>4, <2>1, <2>2, <2>3
<1> SUFFICES ASSUME ~Stopped(dst, s) PROVE FALSE
  OBVIOUS
<1>6. SearchInv(edges, src, dst, R, s) /\ IsFiniteSet(left) /\ Cardinality(left) = N + 1
  <2>1. SearchInv(edges, src, dst, R, s) /\ Progress(dst, s, N + 1)
    <3> HIDE DEF N
    <3> QED BY <1>2, SearchKeeps
  <2> HIDE DEF s
  <2> QED BY <2>1 DEF Progress
<1> HIDE DEF N, s
<1>7. s.queue # <<>> /\ s.queue \in Seq(Seq(Nat)) /\ Ends(s) \subseteq s.seen
      /\ s.seen \subseteq {src} \cup targets
  BY <1>6 DEF SearchInv, SearchState, Stopped, targets
<1>8. 1 \in 1..Len(s.queue)
  BY <1>7, EmptySeq
<1>9. left # s.seen
  BY <1>7, <1>8 DEF Ends
<1>10. IsFiniteSet(s.seen) /\ Cardinality(s.seen) <= Cardinality({src} \cup targets)
  BY <1>5, <1>7, FS_Subset
<1>11. Cardinality(left) <= Cardinality(s.seen) /\ Cardinality(left) # Cardinality(s.seen)
  BY <1>9, <1>10, FS_Subset
<1>12. Cardinality(s.seen) \in Nat /\ Cardinality({src} \cup targets) \in Nat
  BY <1>5, <1>10, FS_CardinalityType
<1> QED BY <1>1, <1>5, <1>6, <1>10, <1>11, <1>12

\* _find_path returns None exactly if no chain of transforms reaches dst, and otherwise a
\* chain of transforms than which none is shorter.
THEOREM FindPath ==
    ASSUME NEW edges, Graph(edges), NEW src \in Nat, NEW dst, NEW R, Levels(edges, src, R)
    PROVE  LET p == _find_path(edges, src, dst)
           IN \/ p = <<>> /\ \A k \in Nat : dst \notin R[k]
              \/ /\ p \in Seq(Nat) /\ p # <<>> /\ IsPath(edges, src, p) /\ Last(p) = dst
                 /\ Len(p) > 1 => dst \notin R[Len(p) - 2]
<1> DEFINE s == search(edges, src, dst)[Cardinality(edges) + 1]
<1>1. Cardinality(edges) + 1 \in Nat
  BY FS_CardinalityType DEF Graph
<1>2. SearchInv(edges, src, dst, R, s) /\ Stopped(dst, s)
  BY <1>1, SearchKeeps, SearchStops
<1>3. _find_path(edges, src, dst) = IF s.queue = <<>> THEN <<>> ELSE s.queue[1]
  BY DEF _find_path
<1> HIDE DEF s
<1>4. CASE s.queue = <<>>
  <2>1. Ends(s) = {}
    BY <1>4 DEF Ends
  <2>2. /\ dst \notin s.seen /\ src \in s.seen
        /\ \A u \in s.seen : adjacency(edges, u) \subseteq s.seen
    BY <1>2, <2>1 DEF SearchInv, Frontier
  <2> DEFINE T == {k \in Nat : ~(R[k] \subseteq s.seen)}
  <2>3. T = {}
    <3> SUFFICES ASSUME T # {} PROVE FALSE
      OBVIOUS
    <3>1. PICK k \in T : \A i \in T : k <= i
      BY Least
    <3>2. k # 0
      BY <2>2, <3>1 DEF Levels
    <3>3. k - 1 \in Nat /\ (k - 1) + 1 = k /\ R[k - 1] \subseteq s.seen
      BY <3>1, <3>2
    <3>4. R[k] = R[k - 1] \cup {e[2] : e \in {e \in edges : e[1] \in R[k - 1]}}
      BY <3>3 DEF Levels
    <3>5. ASSUME NEW e \in edges, e[1] \in R[k - 1] PROVE e[2] \in s.seen
      BY <2>2, <3>3, <3>5 DEF adjacency
    <3> QED BY <3>1, <3>3, <3>4, <3>5
  <2> QED BY <1>3, <1>4, <2>2, <2>3
<1>5. CASE s.queue # <<>>
  <2>1. 1 \in 1..Len(s.queue) /\ s.queue \in Seq(Seq(Nat))
    BY <1>2, <1>5, EmptySeq DEF SearchInv, SearchState
  <2> DEFINE p == s.queue[1]
  <2>2. p \in Seq(Nat) /\ Last(p) = dst
    BY <1>2, <1>5, <2>1 DEF Stopped
  <2>3. IsPath(edges, src, p) /\ (Len(p) > 1 => Last(p) \notin R[Len(p) - 2])
    BY <1>2, <2>1 DEF SearchInv, Paths
  <2> HIDE DEF p
  <2>4. p # <<>>
    BY <2>2, <2>3 DEF IsPath
  <2> QED BY <1>3, <1>5, <2>2, <2>3, <2>4 DEF p
<1> QED BY <1>4, <1>5

-----------------------------------------------------------------------------
(* The desk: agents, requests and their outcomes.                          *)

\* What agents are called with.
All == Request \cup Sole
\* What the report agent may count.
Subjects == {q[2] : q \in All}
\* Where an agent may be.
Steps == {"down", "idle", "dispatch", "quarantine", "republish", "record", "publish"}

\* What an agent may publish in answer to q.
Answer(q, e) ==
    /\ e \notin {quiet_, raise_}
    /\ q[1] = "mapper.transform" => e = handle_mapper(q)
    /\ q[1] = "mapper.erp.transform" => e = handle_erp(q)
    /\ q[1] = "ledger.query.request" => e = handle_query(q)
    /\ q[1] = "beacon.report.request" =>
           \E seen \in Seq(Subjects) : e = <<"beacon.report.generated", summarize_kpis(seen)>>

\* The types of the desk.
DeskType ==
    /\ pc \in [Agents -> Steps] /\ msg \in [Agents -> All \cup {None}]
    /\ inbox \in [Agents -> Seq(All)] /\ DOMAIN event = Agents
    /\ observed \in Seq(Subjects)
    /\ DOMAIN answers \subseteq All
    /\ recorded \subseteq DOMAIN answers
    /\ quiet \cup dead \cup fatal \subseteq DOMAIN answers
    /\ tallied \in Nat /\ reported \in Nat /\ lost \in Nat /\ crashes \in Nat

\* The request an agent is at has no answer and no other fate yet, and the event it is
\* emitting is an answer to it; a report counts what has been observed.
AtWork(a) ==
    /\ msg[a] = None <=> pc[a] \in {"down", "idle"}
    /\ msg[a] # None =>
        /\ msg[a] \in DOMAIN answers /\ agent_for(msg[a]) = a /\ answers[msg[a]] = <<>>
        /\ pc[a] # "republish" => msg[a] \notin quiet \cup dead \cup fatal
        /\ pc[a] \in {"quarantine", "republish"} => msg[a] \in Refused
        /\ pc[a] = "republish" => msg[a] \in dead
        /\ pc[a] \in {"record", "publish"} => Answer(msg[a], event[a])
        /\ pc[a] \in {"record", "publish"} /\ a = "report" =>
               event[a] = <<"beacon.report.generated", summarize_kpis(observed)>>
        /\ pc[a] = "publish" => msg[a] \in recorded

\* The requests in an agent's socket are its own, each is there once, and none was taken.
Waiting(a) ==
    \A i \in 1..Len(inbox[a]) :
        /\ agent_for(inbox[a][i]) = a /\ inbox[a][i] \notin DOMAIN answers
        /\ \A j \in 1..Len(inbox[a]) : inbox[a][i] = inbox[a][j] => i = j

\* What became of a request.
Outcome(q) ==
    \/ Len(answers[q]) = 1 /\ q \in recorded /\ q \notin quiet \cup dead \cup fatal
    \/ Len(answers[q]) = 0 /\ \/ q \in dead \cap Refused
                              \/ q \in quiet /\ MayBeDropped(q)
                              \/ q \in fatal /\ MayKill(q)
                              \/ crashes > 0

\* A request taken has at most one answer, and an outcome once no agent is at it.
Taken(q) ==
    /\ answers[q] = <<>> \/ \E e : answers[q] = <<e>> /\ Answer(q, e)
    /\ Finished(q) => Outcome(q)

\* Where the outcomes counted are.
Balance == tallied = reported + Len(observed) + lost

\* The inductive invariant.
DeskInv == /\ DeskType /\ Balance
           /\ \A a \in Agents : AtWork(a) /\ Waiting(a)
           /\ \A q \in DOMAIN answers : Taken(q)

\* A step of a, about the request q or about none, leaves the rest alone.
Local(a, q) ==
    /\ q = None \/ agent_for(q) = a
    /\ msg[a] \in {None, q} /\ msg'[a] \in {None, q}
    /\ \A b \in Agents \ {a} : /\ pc'[b] = pc[b] /\ msg'[b] = msg[b] /\ event'[b] = event[b]
                               /\ inbox'[b] = inbox[b]
    /\ DOMAIN answers \subseteq DOMAIN answers' /\ DOMAIN answers' \subseteq DOMAIN answers \cup {q}
    /\ \A x \in DOMAIN answers \ {q} : answers'[x] = answers[x]
    /\ recorded \subseteq recorded' /\ recorded' \subseteq recorded \cup {q}
    /\ quiet \subseteq quiet' /\ quiet' \subseteq quiet \cup {q}
    /\ dead \subseteq dead' /\ dead' \subseteq dead \cup {q}
    /\ fatal \subseteq fatal' /\ fatal' \subseteq fatal \cup {q}
    /\ a # "report" => observed' = observed
    /\ crashes > 0 => crashes' > 0

\* No request is None.
LEMMA NoneIsNone == None \notin All
  BY DeskAssumption DEF All

\* What a step leaves alone keeps its invariant.
LEMMA LocalKeeps ==
    ASSUME DeskInv, NEW a \in Agents, NEW q, Local(a, q)
    PROVE  /\ \A b \in Agents \ {a} : AtWork(b)' /\ Waiting(b)'
           /\ \A x \in DOMAIN answers' \ {q} : x \in DOMAIN answers /\ Taken(x)'
<1>1. ASSUME NEW b \in Agents \ {a} PROVE AtWork(b)'
  <2>1. AtWork(b) /\ pc'[b] = pc[b] /\ msg'[b] = msg[b] /\ event'[b] = event[b]
    BY DEF DeskInv, Local
  <2>2. CASE msg[b] = None
    BY <2>1, <2>2 DEF AtWork
  <2>3. CASE msg[b] # None
    <3> DEFINE x == msg[b]
    <3>1. x # q /\ x \in DOMAIN answers
      BY <2>1, <2>3 DEF AtWork, Local
    <3>2. /\ x \in DOMAIN answers' /\ answers'[x] = answers[x]
          /\ x \in recorded' <=> x \in recorded
          /\ x \in quiet' <=> x \in quiet
          /\ x \in dead' <=> x \in dead
          /\ x \in fatal' <=> x \in fatal
      BY <3>1 DEF Local
    <3>3. b = "report" => observed' = observed
      BY DEF Local
    <3>4. (Answer(x, event[b]))' <=> Answer(x, event[b])
      BY <2>1
    <3> QED BY <2>1, <2>3, <3>1, <3>2, <3>3, <3>4 DEF AtWork
  <2> QED BY <2>2, <2>3
<1>2. ASSUME NEW b \in Agents \ {a} PROVE Waiting(b)'
  <2>1. Waiting(b) /\ inbox'[b] = inbox[b] /\ inbox[b] \in Seq(All)
    BY DEF DeskInv, DeskType, Local
  <2>2. ASSUME NEW i \in 1..Len(inbox[b]) PROVE inbox[b][i] \notin DOMAIN answers'
    <3>1. inbox[b][i] \in All /\ agent_for(inbox[b][i]) = b /\ inbox[b][i] \notin DOMAIN answers
      BY <2>1 DEF Waiting
    <3>2. inbox[b][i] # q
      BY <3>1, NoneIsNone DEF Local
    <3> QED BY <3>1, <3>2 DEF Local
  <2> QED BY <2>1, <2>2 DEF Waiting
<1>3. ASSUME NEW x \in DOMAIN answers' \ {q} PROVE x \in DOMAIN answers /\ Taken(x)'
  <2>1. x \in DOMAIN answers
    BY DEF Local
  <2>2. /\ Taken(x) /\ x # None /\ x # q
    BY <2>1, NoneIsNone DEF DeskInv, DeskType
  <2>3. /\ answers'[x] = answers[x]
        /\ x \in recorded' <=> x \in recorded
        /\ x \in quiet' <=> x \in quiet
        /\ x \in dead' <=> x \in dead
        /\ x \in fatal' <=> x \in fatal
        /\ crashes > 0 => crashes' > 0
    BY <2>1, <2>2 DEF Local
  <2>4. Finished(x)' => Finished(x)
    BY <2>2 DEF Local, Finished
  <2>5. Outcome(x) => Outcome(x)'
    BY <2>3 DEF Outcome, MayBeDropped, MayKill, Leads
  <2>6. \A e : Answer(x, e)' <=> Answer(x, e)
    BY DEF Answer
  <2> QED BY <2>1, <2>2, <2>3, <2>4, <2>5, <2>6 DEF Taken
<1> QED BY <1>1, <1>2, <1>3

\* Every request has an agent that subscribes to it.
LEMMA AgentFor ==
    ASSUME NEW q \in All
    PROVE  agent_for(q) \in Agents /\ q[1] \in subjects[agent_for(q)]
<1>1. \E a \in Agents : q[1] \in subjects[a]
  BY DeskAssumption DEF All, WellFormed
<1> QED BY <1>1 DEF agent_for

\* The report agent gets requests for reports and outcomes, and no other agent does.
LEMMA ReportSubjects ==
    ASSUME NEW q \in All
    PROVE  /\ agent_for(q) = "report" => q[1] \in {"beacon.report.request", "outcome"}
           /\ q[1] \in {"beacon.report.request", "outcome"} => agent_for(q) = "report"
<1>1. agent_for(q) \in Agents /\ q[1] \in subjects[agent_for(q)]
  BY AgentFor
<1>2. /\ subjects["mapper"] = {"mapper.transform"}
      /\ subjects["erp"] = {"mapper.erp.transform"}
      /\ subjects["query"] = {"ledger.query.request"}
      /\ subjects["webhook"] = {"ticker.webhook"}
      /\ subjects["report"] = {"beacon.report.request", "outcome"}
  BY DEF subjects
<1> QED BY <1>1, <1>2 DEF Agents

\* For a local step the invariant is left to prove of its agent and its request.
LEMMA LocalSuffices ==
    ASSUME DeskInv, NEW a \in Agents, NEW q, Local(a, q),
           DeskType', Balance', AtWork(a)', Waiting(a)', q \in DOMAIN answers' => Taken(q)'
    PROVE  DeskInv'
<1>1. /\ \A b \in Agents \ {a} : AtWork(b)' /\ Waiting(b)'
      /\ \A x \in DOMAIN answers' \ {q} : Taken(x)'
  BY LocalKeeps
<1>2. \A b \in Agents : AtWork(b)' /\ Waiting(b)'
  BY <1>1
<1>3. \A x \in DOMAIN answers' : Taken(x)'
  BY <1>1
<1> QED BY <1>2, <1>3 DEF DeskInv

\* The request an agent is at.
LEMMA AtRequest ==
    ASSUME DeskInv, NEW a \in Agents, pc[a] \notin {"down", "idle"}
    PROVE  /\ msg[a] # None /\ msg[a] \in All /\ agent_for(msg[a]) = a
           /\ msg[a] \in DOMAIN answers /\ answers[msg[a]] = <<>>
  BY DEF DeskInv, DeskType, AtWork

\* Agents start idle, with nothing taken.
LEMMA DeskInit == Init => DeskInv
<1> SUFFICES ASSUME Init PROVE DeskInv
  OBVIOUS
<1> USE DEF Init
<1>1. DeskType
  BY DEF DeskType, Steps
<1>2. Balance
  BY DEF Balance
<1>3. \A a \in Agents : AtWork(a) /\ Waiting(a)
  BY DEF AtWork, Waiting
<1> QED BY <1>1, <1>2, <1>3 DEF DeskInv

\* run() takes the next message.
LEMMA TakeKeeps ==
    ASSUME DeskInv, NEW a \in Agents, Take(a)
    PROVE  DeskInv'
<1> DEFINE box == inbox[a]
<1> PICK q : q = Head(box)
  OBVIOUS
<1>1. /\ DeskType /\ Balance /\ AtWork(a) /\ Waiting(a) /\ msg[a] = None
      /\ box \in Seq(All) /\ box # <<>>
  BY DEF DeskInv, DeskType, Take, AtWork
<1>2. /\ Len(box) \in Nat \ {0} /\ q = box[1] /\ q \in All
      /\ Tail(box) \in Seq(All) /\ Len(Tail(box)) = Len(box) - 1
      /\ \A i \in 1..Len(Tail(box)) : i + 1 \in 1..Len(box) /\ Tail(box)[i] = box[i + 1]
  BY <1>1, HeadTailProperties, EmptySeq
<1>3. agent_for(q) = a /\ q \notin DOMAIN answers /\ q # None
  BY <1>1, <1>2, NoneIsNone DEF Waiting
<1>4. /\ \A b \in Agents : /\ msg'[b] = IF b = a THEN q ELSE msg[b]
                           /\ inbox'[b] = IF b = a THEN Tail(box) ELSE inbox[b]
                           /\ pc'[b] = IF b = a THEN "dispatch" ELSE pc[b]
      /\ event' = event /\ observed' = observed /\ recorded' = recorded /\ quiet' = quiet
      /\ dead' = dead /\ fatal' = fatal /\ crashes' = crashes
      /\ tallied' = tallied /\ reported' = reported /\ lost' = lost
      /\ DOMAIN answers' = DOMAIN answers \cup {q} /\ answers'[q] = <<>>
      /\ \A x \in DOMAIN answers : answers'[x] = answers[x]
  BY <1>1, <1>3 DEF Take, Goto, DeskType
<1> HIDE DEF box
<1>5. Local(a, q)
  BY <1>1, <1>3, <1>4 DEF Local, DeskType
<1>6. DeskType'
  <2>1. /\ pc' \in [Agents -> Steps] /\ msg' \in [Agents -> All \cup {None}]
        /\ inbox' \in [Agents -> Seq(All)]
    BY <1>1, <1>2 DEF Take, Goto, DeskType, Steps, box
  <2> QED BY <1>1, <1>2, <1>4, <2>1 DEF DeskType
<1>7. Balance'
  BY <1>1, <1>4 DEF Balance
<1>8. AtWork(a)'
  <2>1. q \notin quiet \cup dead \cup fatal
    BY <1>1, <1>3 DEF DeskType
  <2> QED BY <1>1, <1>3, <1>4, <2>1 DEF AtWork
<1>9. Waiting(a)'
  <2>1. inbox'[a] = Tail(box)
    BY <1>4
  <2>2. ASSUME NEW i \in 1..Len(Tail(box)), NEW j \in 1..Len(Tail(box))
        PROVE  /\ agent_for(Tail(box)[i]) = a /\ Tail(box)[i] \notin DOMAIN answers'
               /\ Tail(box)[i] = Tail(box)[j] => i = j
    <3>1. /\ agent_for(box[i + 1]) = a /\ box[i + 1] \notin DOMAIN answers
          /\ box[i + 1] = box[j + 1] => i + 1 = j + 1
          /\ box[i + 1] = box[1] => i + 1 = 1
      BY <1>1, <1>2 DEF Waiting, box
    <3>2. i + 1 # 1 /\ (i + 1 = j + 1 => i = j)
      BY <1>2
    <3> QED BY <1>2, <1>4, <3>1, <3>2
  <2>3. \A i \in 1..Len(Tail(box)) :
            /\ agent_for(Tail(box)[i]) = a /\ Tail(box)[i] \notin DOMAIN answers'
            /\ \A j \in 1..Len(Tail(box)) : Tail(box)[i] = Tail(box)[j] => i = j
    BY <2>2
  <2> QED BY <2>1, <2>3 DEF Waiting
<1>10. Taken(q)'
  <2>1. ~Finished(q)'
    BY <1>4 DEF Finished
  <2> QED BY <1>4, <2>1 DEF Taken
<1> QED BY <1>5, <1>6, <1>7, <1>8, <1>9, <1>10, LocalSuffices

-----------------------------------------------------------------------------
(* What the handlers answer.                                               *)

\* The versions within n transforms, as the property counts them.
LEMMA ReachLevels ==
    ASSUME NEW edges, Graph(edges), NEW src \in Nat
    PROVE  \E R : Levels(edges, src, R) /\ \A n \in Nat : Reach(edges, src, n) = R[n]
<1> DEFINE next(S) == S \cup {e[2] : e \in {e \in edges : e[1] \in S}}
           G == [S \in SUBSET Nat |-> next(S)]
           P(r) == r = [k \in Nat |-> IF k = 0 THEN {src} ELSE next(r[k - 1])]
<1>1. G \in [SUBSET Nat -> SUBSET Nat] /\ {src} \in SUBSET Nat
  BY DEF Graph
<1>2. PICK f \in [Nat -> SUBSET Nat] : f[0] = {src} /\ \A n \in Nat : f[n + 1] = G[f[n]]
  <2>1. Iterated(SUBSET Nat, G, {src})
    <3> HIDE DEF G
    <3> QED BY <1>1, Iterates
  <2> QED BY <2>1 DEF Iterated
<1>3. \A n \in Nat : f[n + 1] = next(f[n])
  BY <1>2
<1> HIDE DEF next
<1>4. P(f)
  <2>1. ASSUME NEW n \in Nat, n # 0 PROVE f[n] = next(f[n - 1])
    <3>1. n - 1 \in Nat /\ (n - 1) + 1 = n
      BY <2>1
    <3> QED BY <1>3, <3>1
  <2> QED BY <1>2, <2>1
<1> DEFINE R == CHOOSE r : P(r)
<1>5. \A n \in Nat : Reach(edges, src, n) = R[n]
  BY Zenon DEF Reach, next
<1>6. P(R)
  <2> HIDE DEF P
  <2> QED BY <1>4
<1> HIDE DEF R
<1>7. R[0] = {src} /\ \A k \in Nat : R[k + 1] = next(R[k])
  <2>1. \A n \in Nat : R[n] = IF n = 0 THEN {src} ELSE next(R[n - 1])
    BY <1>6
  <2>2. \A n \in Nat : n + 1 \in Nat /\ n + 1 # 0 /\ (n + 1) - 1 = n
    OBVIOUS
  <2> QED BY <2>1, <2>2
<1>8. \A n \in Nat : R[n] \in SUBSET Nat
  <2> DEFINE T == {n \in Nat : R[n] \notin SUBSET Nat}
  <2> SUFFICES ASSUME T # {} PROVE FALSE
    OBVIOUS
  <2>1. PICK n \in T : \A i \in T : n <= i
    BY Least
  <2>2. n # 0
    BY <1>7, <2>1
  <2>3. n - 1 \in Nat /\ (n - 1) + 1 = n /\ n - 1 \notin T
    BY <2>1, <2>2
  <2>4. \A S \in SUBSET Nat : next(S) \in SUBSET Nat
    BY DEF next, Graph
  <2> QED BY <1>7, <2>1, <2>3, <2>4
<1>9. R \in [Nat -> SUBSET Nat]
  <2>1. R = [n \in Nat |-> R[n]]
    BY <1>6
  <2> QED BY <1>8, <2>1
<1>10. Levels(edges, src, R)
  BY <1>7, <1>9 DEF Levels, next
<1> QED BY <1>5, <1>10

\* Sound transforms take a payload of the first version to the last.
LEMMA SoundChain ==
    ASSUME NEW path \in Seq(Nat), path # <<>>, NEW buggy, NEW payload, payload = path[1],
           \A j \in 1..(Len(path) - 1) : <<path[j], path[j + 1]>> \notin buggy
    PROVE  chain(path, buggy, payload) = Last(path)
<1> DEFINE n == Len(path)
           next(i, v) == IF v = path[i - 1] /\ <<path[i - 1], path[i]>> \notin buggy
                         THEN path[i] ELSE Corrupt
           P(p) == p = [i \in 1..n |-> IF i = 1 THEN payload ELSE next(i, p[i - 1])]
           f == [i \in 1..n |-> path[i]]
           g == CHOOSE p : P(p)
<1>1. n \in Nat \ {0}
  BY EmptySeq
<1>2. ASSUME NEW i \in 1..n, i # 1
      PROVE  /\ i - 1 \in 1..(n - 1) /\ i - 1 \in 1..n
             /\ <<path[i - 1], path[i]>> \notin buggy
  <2>1. i - 1 \in 1..(n - 1) /\ i - 1 \in 1..n /\ (i - 1) + 1 = i
    BY <1>1, <1>2
  <2> QED BY <2>1
<1>3. P(f)
  <2>1. \A i \in 1..n : path[i] = IF i = 1 THEN payload ELSE next(i, f[i - 1])
    BY <1>2
  <2> QED BY <2>1
<1>4. chain(path, buggy, payload) = g[n]
  BY Zenon DEF chain
<1>5. P(g)
  <2> HIDE DEF P, f
  <2> QED BY <1>3
<1> HIDE DEF g
<1>6. \A i \in 1..n : g[i] = IF i = 1 THEN payload ELSE next(i, g[i - 1])
  BY <1>5
<1> DEFINE T == {i \in Nat : i \in 1..n /\ g[i] # path[i]}
<1>7. T = {}
  <2> SUFFICES ASSUME T # {} PROVE FALSE
    OBVIOUS
  <2>1. PICK i \in T : \A j \in T : i <= j
    BY Least
  <2>2. i \in 1..n /\ g[i] # path[i] /\ i # 1
    BY <1>6, <2>1
  <2>3. g[i - 1] = path[i - 1]
    <3>1. i - 1 \in 1..n /\ ~(i <= i - 1)
      BY <1>2, <2>2
    <3> QED BY <2>1, <3>1
  <2> QED BY <1>2, <1>6, <2>2, <2>3
<1>8. n \in 1..n
  BY <1>1
<1> QED BY <1>4, <1>7, <1>8 DEF Last

\* Along a shortest path to dst every version before the last is led to, and none is dst.
LEMMA OnTheWay ==
    ASSUME NEW edges, Graph(edges), NEW src \in Nat, NEW dst, NEW R, Levels(edges, src, R),
           NEW p \in Seq(Nat), IsPath(edges, src, p), Len(p) > 1 => dst \notin R[Len(p) - 2]
    PROVE  \A j \in 1..(Len(p) - 1) : p[j] # dst /\ Leads(edges, src, p[j])
<1> SUFFICES ASSUME NEW j \in 1..(Len(p) - 1)
             PROVE  p[j] # dst /\ Leads(edges, src, p[j])
  OBVIOUS
<1>1. Len(p) \in Nat /\ Len(p) > 1 /\ p[1] = src
  BY DEF IsPath
<1>2. \A i \in 1..(Len(p) - 1) : <<p[i], p[i + 1]>> \in edges
  BY DEF IsPath
<1>3. \A k \in Nat : R[k] \subseteq R[k + 1]
  BY DEF Levels
<1>4. \A i \in 1..(Len(p) - 1) : p[i] \in R[i - 1]
  <2> DEFINE T == {i \in Nat : i \in 1..(Len(p) - 1) /\ p[i] \notin R[i - 1]}
  <2>0. ASSUME NEW i \in 1..(Len(p) - 1), i \notin T PROVE p[i] \in R[i - 1]
    BY <1>1, <2>0
  <2> SUFFICES ASSUME T # {} PROVE FALSE
    <3> HIDE DEF T
    <3> QED BY <2>0
  <2>1. PICK i \in T : \A k \in T : i <= k
    BY Least
  <2>2. i # 1
    BY <1>1, <2>1 DEF Levels
  <2>3. /\ i - 1 \in 1..(Len(p) - 1) /\ (i - 1) + 1 = i /\ ~(i <= i - 1) /\ i - 1 \in Nat
        /\ i - 2 \in Nat /\ (i - 2) + 1 = i - 1 /\ (i - 1) - 1 = i - 2
    BY <1>1, <2>1, <2>2
  <2>4. p[i - 1] \in R[i - 2] /\ <<p[i - 1], p[i]>> \in edges
    <3>1. i - 1 \notin T
      <4> HIDE DEF T
      <4> QED BY <2>1, <2>3
    <3>2. p[i - 1] \in R[(i - 1) - 1]
      BY <2>3, <3>1
    <3>3. <<p[i - 1], p[(i - 1) + 1]>> \in edges
      <4> HIDE DEF T
      <4> QED BY <1>2, <2>3
    <3> QED BY <2>3, <3>2, <3>3
  <2>5. p[i] \in R[(i - 2) + 1]
    <3>1. <<p[i - 1], p[i]>>[1] = p[i - 1] /\ <<p[i - 1], p[i]>>[2] = p[i]
      OBVIOUS
    <3>2. R[(i - 2) + 1] = R[i - 2] \cup {e[2] : e \in {e \in edges : e[1] \in R[i - 2]}}
      BY <2>3 DEF Levels
    <3> QED BY <2>4, <3>1, <3>2
  <2> QED BY <2>1, <2>3, <2>5
<1>5. p[j] \in R[Len(p) - 2]
  <2> DEFINE T == {k \in Nat : j - 1 <= k /\ p[j] \notin R[k]}
  <2>0. j - 1 \in Nat /\ Len(p) - 2 \in Nat /\ j - 1 <= Len(p) - 2
    BY <1>1
  <2>1. T = {}
    <3> SUFFICES ASSUME T # {} PROVE FALSE
      OBVIOUS
    <3>1. PICK k \in T : \A i \in T : k <= i
      BY Least
    <3>2. k # j - 1
      BY <1>4, <3>1
    <3>3. k - 1 \in Nat /\ (k - 1) + 1 = k /\ j - 1 <= k - 1 /\ ~(k <= k - 1)
      BY <2>0, <3>1, <3>2
    <3> QED BY <1>3, <3>1, <3>3
  <2> QED BY <2>0, <2>1
<1>6. p[j] # dst
  BY <1>1, <1>5
<1>7. ASSUME NEW S \in SUBSET ({src} \cup {e[2] : e \in edges}), src \in S,
             \A e \in edges : e[1] \in S => e[2] \in S
      PROVE  p[j] \in S
  <2> DEFINE T == {i \in Nat : i \in 1..(Len(p) - 1) /\ p[i] \notin S}
  <2>1. T = {}
    <3> SUFFICES ASSUME T # {} PROVE FALSE
      OBVIOUS
    <3>1. PICK i \in T : \A k \in T : i <= k
      BY Least
    <3>2. i \in Nat /\ i \in 1..(Len(p) - 1) /\ i # 1
      BY <1>1, <1>7, <3>1
    <3>3. /\ i - 1 \in 1..(Len(p) - 1) /\ (i - 1) + 1 = i /\ ~(i <= i - 1)
          /\ i - 1 \in Nat
      <4> HIDE DEF T
      <4> QED BY <1>1, <3>2
    <3>4. p[i - 1] \in S /\ <<p[i - 1], p[i]>> \in edges
      <4>1. i - 1 \notin T
        <5> HIDE DEF T
        <5> QED BY <3>1, <3>3
      <4>2. <<p[i - 1], p[(i - 1) + 1]>> \in edges
        <5> HIDE DEF T
        <5> QED BY <1>2, <3>3
      <4> QED BY <3>3, <4>1, <4>2
    <3>5. <<p[i - 1], p[i]>>[1] = p[i - 1] /\ <<p[i - 1], p[i]>>[2] = p[i]
      OBVIOUS
    <3> QED BY <1>7, <3>1, <3>4, <3>5
  <2> QED BY <1>1, <2>1
<1> QED BY <1>6, <1>7 DEF Leads

\* What Mapper answers is a shortest chain of transforms, what it drops has none, and what
\* ends it is of another version than it says, or meets a broken transform.
LEMMA Coerced ==
    ASSUME NEW q \in All, q[1] = "mapper.transform"
    PROVE  LET edges == Transforms[q[2]]
               e == handle_mapper(q)
               path == e[4]
           IN /\ e = raise_ => MayKill(q)
              /\ e = quiet_ => \A k \in Nat : q[4] \notin Reach(edges, q[3], k)
              /\ e \notin {quiet_, raise_} =>
                    /\ path \in Seq(Nat) /\ IsPath(edges, q[3], path) /\ Last(path) = q[4]
                    /\ Len(path) > 1 => q[4] \notin Reach(edges, q[3], Len(path) - 2)
<1> DEFINE edges == Transforms[q[2]]
           src == q[3]
           dst == q[4]
           e == handle_mapper(q)
           r == transform(edges, Buggy, src, dst, q[5])
           path == IF src = dst THEN <<src>> ELSE _find_path(edges, src, dst)
<1>1. src \in Nat /\ Graph(edges)
  BY DeskAssumption DEF All, WellFormed, Graph
<1>2. PICK R : Levels(edges, src, R) /\ \A n \in Nat : Reach(edges, src, n) = R[n]
  BY <1>1, ReachLevels
<1>3. \/ path = <<>> /\ \A k \in Nat : dst \notin R[k]
      \/ /\ path \in Seq(Nat) /\ path # <<>> /\ IsPath(edges, src, path) /\ Last(path) = dst
         /\ Len(path) > 1 => dst \notin R[Len(path) - 2]
  <2>1. CASE src = dst
    <3>1. path = <<src>>
      BY <2>1
    <3>2. /\ <<src>> \in Seq(Nat) /\ <<src>> # <<>> /\ Len(<<src>>) = 1 /\ <<src>>[1] = src
      BY <1>1
    <3> QED BY <2>1, <3>1, <3>2 DEF IsPath, Last
  <2>2. CASE src # dst
    <3> HIDE DEF edges, src, dst
    <3> QED BY <1>1, <1>2, <2>2, FindPath
  <2> QED BY <2>1, <2>2
<1>4. r = IF path = <<>> THEN <<"no path">>
          ELSE IF chain(path, Buggy, q[5]) # dst THEN <<"invalid">> ELSE <<"output", path>>
  BY Zenon DEF transform
<1>5. e = IF r[1] = "no path" THEN quiet_
          ELSE IF r[1] = "invalid" THEN raise_ ELSE <<"coerced", q[2], dst, r[2]>>
  BY DEF handle_mapper
<1> HIDE DEF edges, src, dst, r, path
<1>6. \/ e = quiet_ /\ path = <<>>
      \/ e = raise_ /\ path # <<>> /\ chain(path, Buggy, q[5]) # dst
      \/ e = <<"coerced", q[2], dst, path>> /\ path # <<>>
  BY <1>4, <1>5
<1>7. quiet_ # raise_ /\ \A x : <<"coerced", q[2], dst, x>> \notin {quiet_, raise_}
  BY DEF quiet_, raise_
<1> HIDE DEF e
<1>8. e = quiet_ => \A k \in Nat : dst \notin Reach(edges, src, k)
  BY <1>2, <1>3, <1>6, <1>7
<1>9. ASSUME e \notin {quiet_, raise_}
      PROVE  /\ e[4] = path /\ path \in Seq(Nat) /\ IsPath(edges, src, path) /\ Last(path) = dst
             /\ Len(path) > 1 => dst \notin Reach(edges, src, Len(path) - 2)
  <2>1. e = <<"coerced", q[2], dst, path>> /\ path # <<>>
    BY <1>6, <1>9
  <2>2. e[4] = path
    BY <2>1
  <2>3. /\ path \in Seq(Nat) /\ IsPath(edges, src, path) /\ Last(path) = dst
        /\ Len(path) > 1 => dst \notin R[Len(path) - 2]
    BY <1>3, <2>1
  <2>4. Len(path) > 1 => Len(path) - 2 \in Nat
    BY <2>3
  <2> QED BY <1>2, <2>2, <2>3, <2>4
<1>10. ASSUME e = raise_
       PROVE  \/ q[5] # src
              \/ \E b \in Buggy \cap edges : b[1] # dst /\ Leads(edges, src, b[1])
  <2> SUFFICES ASSUME q[5] = src
               PROVE  \E b \in Buggy \cap edges : b[1] # dst /\ Leads(edges, src, b[1])
    OBVIOUS
  <2>1. path # <<>> /\ chain(path, Buggy, q[5]) # dst
    BY <1>6, <1>7, <1>10
  <2>2. /\ path \in Seq(Nat) /\ IsPath(edges, src, path) /\ Last(path) = dst
        /\ Len(path) > 1 => dst \notin R[Len(path) - 2]
    BY <1>3, <2>1
  <2>3. PICK j \in 1..(Len(path) - 1) : <<path[j], path[j + 1]>> \in Buggy
    <3>1. path[1] = src
      BY <2>2 DEF IsPath
    <3> QED BY <2>1, <2>2, <3>1, SoundChain
  <2>4. path[j] # dst /\ Leads(edges, src, path[j])
    <3>1. Levels(edges, src, R)
      BY <1>2
    <3>2. \A i \in 1..(Len(path) - 1) : path[i] # dst /\ Leads(edges, src, path[i])
      BY <1>1, <2>2, <3>1, OnTheWay
    <3> QED BY <3>2
  <2>5. <<path[j], path[j + 1]>> \in Buggy \cap edges
    BY <2>2, <2>3 DEF IsPath
  <2> QED BY <2>4, <2>5
<1>11. e = raise_ => MayKill(q)
  BY <1>10 DEF MayKill, edges, src, dst
<1> QED BY <1>8, <1>9, <1>11 DEF edges, src, dst, e

\* The ERP mapper answers every request, with a failure too.
LEMMA ErpAnswers ==
    ASSUME NEW q
    PROVE  handle_erp(q) \notin {quiet_, raise_}
BY DEF handle_erp, quiet_, raise_

\* A webhook is dropped only if no key holds a type.
LEMMA WebhookAnswers ==
    ASSUME NEW q \in All, q[1] = "ticker.webhook"
    PROVE  /\ handle_webhook(q) # raise_
           /\ handle_webhook(q) = quiet_ => \A k \in DOMAIN q[2] : q[2][k][1] # "type"
<1> DEFINE raw == q[2]
           held == {i \in 1..Len(type_keys) : get(raw, type_keys[i])[1] = "type"}
           first == CHOOSE i \in held : \A j \in held : i <= j
           r == ingest(raw)
<1>1. /\ DOMAIN raw \subseteq {"event_type", "type", "kind"}
      /\ \A k \in DOMAIN raw : raw[k][1] = "type" => raw[k][2] # None
  BY DeskAssumption DEF All, WellFormed
<1>2. /\ Len(type_keys) = 3 /\ type_keys[1] = "event_type" /\ type_keys[2] = "type"
      /\ type_keys[3] = "kind"
  BY DEF type_keys
<1>3. \A i \in held : /\ type_keys[i] \in DOMAIN raw /\ raw[type_keys[i]][1] = "type"
                      /\ get(raw, type_keys[i]) = raw[type_keys[i]]
  BY DEF get, Null
<1>4. event_type_of(raw) = IF held = {} THEN None ELSE get(raw, type_keys[first])[2]
  BY DEF event_type_of
<1>5. held # {} => first \in held
  <2> SUFFICES ASSUME held # {} PROVE first \in held
    OBVIOUS
  <2>1. held \in SUBSET Nat
    BY <1>2
  <2> HIDE DEF held
  <2>2. \E i \in held : \A j \in held : i <= j
    BY <2>1, Least
  <2> QED BY <2>2
<1>6. held # {} => event_type_of(raw) # None
  <2> HIDE DEF held, first
  <2> QED BY <1>1, <1>3, <1>4, <1>5
<1>7. event_type_of(raw) = None => \A k \in DOMAIN raw : raw[k][1] # "type"
  <2> SUFFICES ASSUME event_type_of(raw) = None, NEW k \in DOMAIN raw, raw[k][1] = "type"
               PROVE  FALSE
    OBVIOUS
  <2>1. \E i \in 1..3 : k = type_keys[i]
    BY <1>1, <1>2
  <2>2. \E i \in held : TRUE
    BY <1>2, <2>1 DEF get
  <2> QED BY <1>6, <2>2
<1> HIDE DEF raw, held, first
<1>8. r = IF event_type_of(raw) = None THEN <<>>
          ELSE <<event_type_of(raw), raw, route_for(event_type_of(raw))>>
  BY DEF ingest
<1>9. handle_webhook(q) = IF r = <<>> THEN quiet_ ELSE <<"ticker.event.received">> \o r
  BY DEF handle_webhook, raw
<1>10. CASE event_type_of(raw) = None
  <2>1. handle_webhook(q) = quiet_
    BY <1>8, <1>9, <1>10
  <2> QED BY <1>7, <1>10, <2>1 DEF raw, quiet_, raise_
<1>11. CASE event_type_of(raw) # None
  <2> DEFINE x == event_type_of(raw)
             y == route_for(x)
             t == <<"ticker.event.received">> \o <<x, raw, y>>
             S == {"ticker.event.received", x, raw, y}
  <2> HIDE DEF x, y
  <2>1. <<"ticker.event.received">> \in Seq(S) /\ <<x, raw, y>> \in Seq(S)
    OBVIOUS
  <2>2. Len(t) = 4
    BY <2>1
  <2>3. Len(quiet_) = 1 /\ Len(raise_) = 1
    BY DEF quiet_, raise_
  <2>4. handle_webhook(q) = t
    BY <1>8, <1>9, <1>11 DEF x, y
  <2> HIDE DEF t
  <2> QED BY <2>2, <2>3, <2>4
<1> QED BY <1>10, <1>11

\* The fate of a request that handle is called with.
LEMMA Fates ==
    ASSUME NEW q \in All, NEW r, r = handle(q), observed \in Seq(Subjects)
    PROVE  /\ r = quiet_ => MayBeDropped(q)
           /\ r = raise_ => MayKill(q)
           /\ r \notin {quiet_, raise_} =>
                 /\ Answer(q, r)
                 /\ agent_for(q) = "report" =>
                        r = <<"beacon.report.generated", summarize_kpis(observed)>>
<1>0. /\ quiet_ # raise_
      /\ \E a \in Agents : q[1] \in subjects[a]
  BY DeskAssumption DEF quiet_, raise_, All, WellFormed
<1>1. q[1] \in {"mapper.transform", "mapper.erp.transform", "ledger.query.request",
                "ticker.webhook", "beacon.report.request", "outcome"}
  BY <1>0 DEF Agents, subjects
<1>2. agent_for(q) = "report" => q[1] \in {"beacon.report.request", "outcome"}
  BY ReportSubjects
<1>3. CASE q \in Unreadable
  BY <1>0, <1>3 DEF handle, MayKill
<1>4. CASE q \notin Unreadable /\ q[1] = "mapper.transform"
  <2>1. r = handle_mapper(q)
    BY <1>4 DEF handle
  <2>2. (r = quiet_ => MayBeDropped(q)) /\ (r = raise_ => MayKill(q))
    <3>1. Cardinality(Transforms[q[2]]) \in Nat
      BY <1>4, DeskAssumption, FS_CardinalityType DEF All, WellFormed
    <3> QED BY <1>4, <2>1, <3>1, Coerced DEF MayBeDropped
  <2> QED BY <1>2, <1>4, <2>1, <2>2 DEF Answer
<1>5. CASE q \notin Unreadable /\ q[1] = "mapper.erp.transform"
  <2>1. r = handle_erp(q)
    BY <1>5 DEF handle
  <2>2. r \notin {quiet_, raise_}
    BY <2>1, ErpAnswers
  <2> QED BY <1>2, <1>5, <2>1, <2>2 DEF Answer
<1>6. CASE q \notin Unreadable /\ q[1] = "ledger.query.request"
  <2>1. r = handle_query(q)
    BY <1>6 DEF handle
  <2>2. r # quiet_ /\ (r = raise_ => MayKill(q))
    <3>1. CASE q[2] # "mapping" \/ q[3] = <<"no rows">>
      <4>1. r = raise_ /\ MayKill(q)
        BY <1>6, <2>1, <3>1 DEF handle_query, MayKill
      <4> QED BY <1>0, <4>1
    <3>2. CASE ~(q[2] # "mapping" \/ q[3] = <<"no rows">>)
      <4>1. r = <<"ledger.query.failed">> \/ r = <<"ledger.query.completed", q[3][2]>>
        BY <2>1, <3>2 DEF handle_query
      <4>2. r[1] \in {"ledger.query.failed", "ledger.query.completed"}
        BY <4>1
      <4>3. quiet_[1] = "quiet" /\ raise_[1] = "raise"
        BY DEF quiet_, raise_
      <4> QED BY <4>2, <4>3
    <3> QED BY <3>1, <3>2
  <2> QED BY <1>2, <1>6, <2>1, <2>2 DEF Answer
<1>7. CASE q \notin Unreadable /\ q[1] = "ticker.webhook"
  <2>1. r = handle_webhook(q)
    BY <1>7 DEF handle
  <2>2. r # raise_ /\ (r = quiet_ => MayBeDropped(q))
    BY <1>7, <2>1, WebhookAnswers DEF MayBeDropped
  <2> QED BY <1>2, <1>7, <2>2 DEF Answer
<1>8. CASE q \notin Unreadable /\ q[1] = "beacon.report.request"
  <2>1. r = <<"beacon.report.generated", summarize_kpis(observed)>>
    BY <1>8 DEF handle, handle_report
  <2>2. r \notin {quiet_, raise_}
    BY <2>1 DEF quiet_, raise_
  <2> QED BY <1>8, <2>1, <2>2 DEF Answer
<1>9. CASE q \notin Unreadable /\ q[1] = "outcome"
  <2>1. r = quiet_
    BY <1>9 DEF handle, handle_report
  <2> QED BY <1>0, <1>9, <2>1 DEF MayBeDropped
<1> QED BY <1>1, <1>3, <1>4, <1>5, <1>6, <1>7, <1>8, <1>9

-----------------------------------------------------------------------------
(* Each action keeps the invariant.                                        *)

\* What Goto, Return and Die make of the agents.
LEMMA Moves ==
    ASSUME DeskType, NEW a \in Agents
    PROVE  /\ \A step \in Steps : Goto(a, step) =>
                  /\ pc' \in [Agents -> Steps]
                  /\ \A b \in Agents : pc'[b] = IF b = a THEN step ELSE pc[b]
           /\ Return(a) =>
                  /\ pc' \in [Agents -> Steps] /\ msg' \in [Agents -> All \cup {None}]
                  /\ DOMAIN event' = Agents
                  /\ \A b \in Agents : /\ pc'[b] = IF b = a THEN "idle" ELSE pc[b]
                                       /\ msg'[b] = IF b = a THEN None ELSE msg[b]
                                       /\ b # a => event'[b] = event[b]
           /\ Die(a) =>
                  /\ pc' \in [Agents -> Steps] /\ msg' \in [Agents -> All \cup {None}]
                  /\ DOMAIN event' = Agents /\ inbox' \in [Agents -> Seq(All)]
                  /\ \A b \in Agents : /\ pc'[b] = IF b = a THEN "down" ELSE pc[b]
                                       /\ msg'[b] = IF b = a THEN None ELSE msg[b]
                                       /\ inbox'[b] = IF b = a THEN <<>> ELSE inbox[b]
                                       /\ b # a => event'[b] = event[b]
<1> USE DEF DeskType, Goto, Steps
<1>1. \A step \in Steps : Goto(a, step) =>
          /\ pc' \in [Agents -> Steps]
          /\ \A b \in Agents : pc'[b] = IF b = a THEN step ELSE pc[b]
  OBVIOUS
<1>2. \A v : event' = [event EXCEPT ![a] = v] =>
          DOMAIN event' = Agents /\ \A b \in Agents : b # a => event'[b] = event[b]
  OBVIOUS
<1>3. msg' = [msg EXCEPT ![a] = None] =>
          /\ msg' \in [Agents -> All \cup {None}]
          /\ \A b \in Agents : msg'[b] = IF b = a THEN None ELSE msg[b]
  OBVIOUS
<1>4. inbox' = [inbox EXCEPT ![a] = <<>>] =>
          /\ inbox' \in [Agents -> Seq(All)]
          /\ \A b \in Agents : inbox'[b] = IF b = a THEN <<>> ELSE inbox[b]
  <2>1. <<>> \in Seq(All)
    OBVIOUS
  <2> QED BY <2>1
<1> QED BY <1>1, <1>2, <1>3, <1>4 DEF Return, Die

\* An agent is gone: its tally with it.
LEMMA DieBalance ==
    ASSUME DeskType, Balance, NEW a \in Agents, Die(a), tallied' = tallied, reported' = reported
    PROVE  Balance' /\ observed' \in Seq(Subjects) /\ lost' \in Nat
                    /\ (a # "report" => observed' = observed)
<1>1. CASE a = "report"
  <2>1. observed' = <<>> /\ lost' = lost + Len(observed)
    BY <1>1 DEF Die
  <2>2. Len(observed) \in Nat /\ lost \in Nat
    BY DEF DeskType
  <2>3. Len(observed') = 0 /\ observed' \in Seq(Subjects)
    BY <2>1
  <2> QED BY <1>1, <2>1, <2>2, <2>3 DEF Balance, DeskType
<1>2. CASE a # "report"
  BY <1>2 DEF Die, Balance, DeskType
<1> QED BY <1>1, <1>2

\* The empty sequence has no elements.
LEMMA EmptyLen == Len(<<>>) = 0
  OBVIOUS

\* A death loses the request the agent is at.
LEMMA CrashKeeps ==
    ASSUME DeskInv, NEW a \in Agents, Crash(a)
    PROVE  DeskInv'
<1> PICK q : q = msg[a]
  OBVIOUS
<1>1. /\ DeskType /\ Balance /\ AtWork(a) /\ Waiting(a)
      /\ q # None => agent_for(q) = a /\ q \in DOMAIN answers /\ answers[q] = <<>>
  BY DEF DeskInv, AtWork
<1>2. /\ pc' \in [Agents -> Steps] /\ msg' \in [Agents -> All \cup {None}]
      /\ DOMAIN event' = Agents /\ inbox' \in [Agents -> Seq(All)]
      /\ \A b \in Agents : /\ pc'[b] = IF b = a THEN "down" ELSE pc[b]
                           /\ msg'[b] = IF b = a THEN None ELSE msg[b]
                           /\ inbox'[b] = IF b = a THEN <<>> ELSE inbox[b]
                           /\ b # a => event'[b] = event[b]
  BY <1>1, Moves DEF Crash
<1>3. /\ recorded' = recorded /\ answers' = answers /\ quiet' = quiet /\ dead' = dead
      /\ fatal' = fatal /\ tallied' = tallied /\ reported' = reported /\ crashes' = crashes + 1
  BY DEF Crash
<1>4. Balance' /\ observed' \in Seq(Subjects) /\ lost' \in Nat
               /\ (a # "report" => observed' = observed)
  BY <1>1, <1>3, DieBalance DEF Crash
<1>5. crashes' \in Nat /\ crashes' > 0
  BY <1>1, <1>3 DEF DeskType
<1>6. Local(a, q)
  BY <1>1, <1>2, <1>3, <1>4, <1>5 DEF Local
<1>7. DeskType'
  BY <1>1, <1>2, <1>3, <1>4, <1>5 DEF DeskType
<1>8. AtWork(a)'
  BY <1>2 DEF AtWork
<1>9. Waiting(a)'
  <2>1. inbox'[a] = <<>>
    BY <1>2
  <2> QED BY <2>1, EmptyLen DEF Waiting
<1>10. q \in DOMAIN answers' => Taken(q)'
  <2> SUFFICES ASSUME q \in DOMAIN answers' PROVE Taken(q)'
    OBVIOUS
  <2>1. q # None
    BY <1>1, <1>3, NoneIsNone DEF DeskType
  <2>2. answers'[q] = <<>>
    BY <1>1, <1>3, <2>1
  <2>3. Outcome(q)'
    BY <1>5, <2>2, EmptyLen DEF Outcome
  <2> QED BY <2>2, <2>3 DEF Taken
<1> QED BY <1>4, <1>6, <1>7, <1>8, <1>9, <1>10, LocalSuffices

\* An exception ends an agent, and the request it is at with it.
LEMMA FatalKeeps ==
    ASSUME DeskInv, NEW a \in Agents, NEW q, q = msg[a], q # None, MayKill(q),
           Die(a), fatal' = fatal \cup {q},
           UNCHANGED <<recorded, answers, quiet, dead, tallied, reported, crashes>>
    PROVE  DeskInv'
<1>1. /\ DeskType /\ Balance /\ AtWork(a) /\ Waiting(a)
      /\ agent_for(q) = a /\ q \in DOMAIN answers /\ answers[q] = <<>>
  BY DEF DeskInv, AtWork
<1>2. /\ pc' \in [Agents -> Steps] /\ msg' \in [Agents -> All \cup {None}]
      /\ DOMAIN event' = Agents /\ inbox' \in [Agents -> Seq(All)]
      /\ \A b \in Agents : /\ pc'[b] = IF b = a THEN "down" ELSE pc[b]
                           /\ msg'[b] = IF b = a THEN None ELSE msg[b]
                           /\ inbox'[b] = IF b = a THEN <<>> ELSE inbox[b]
                           /\ b # a => event'[b] = event[b]
  BY <1>1, Moves
<1>3. Balance' /\ observed' \in Seq(Subjects) /\ lost' \in Nat
               /\ (a # "report" => observed' = observed)
  BY <1>1, DieBalance
<1>4. Local(a, q)
  BY <1>1, <1>2, <1>3 DEF Local
<1>5. DeskType'
  BY <1>1, <1>2, <1>3 DEF DeskType
<1>6. AtWork(a)'
  BY <1>2 DEF AtWork
<1>7. Waiting(a)'
  <2>1. inbox'[a] = <<>>
    BY <1>2
  <2> QED BY <2>1, EmptyLen DEF Waiting
<1>8. Taken(q)'
  <2>1. MayKill(q)'
    BY DEF MayKill, Leads
  <2>2. Outcome(q)'
    BY <1>1, <2>1, EmptyLen DEF Outcome
  <2> QED BY <1>1, <2>2 DEF Taken
<1> QED BY <1>3, <1>4, <1>5, <1>6, <1>7, <1>8, LocalSuffices

\* The event is in the log before it is on the bus, if its schema lets it through.
LEMMA RecordKeeps ==
    ASSUME DeskInv, NEW a \in Agents, Record(a)
    PROVE  DeskInv'
<1> PICK q : q = msg[a]
  OBVIOUS
<1>1. /\ DeskType /\ Balance /\ AtWork(a) /\ Waiting(a) /\ Taken(q)
      /\ q # None /\ q \in All /\ agent_for(q) = a /\ q \in DOMAIN answers
      /\ pc[a] = "record" /\ Answer(q, event[a])
  BY AtRequest DEF DeskInv, Record, AtWork
<1>2. CASE valid(q, event[a])
  <2>1. /\ msg' = msg /\ inbox' = inbox /\ event' = event /\ observed' = observed
        /\ answers' = answers /\ quiet' = quiet /\ dead' = dead /\ fatal' = fatal
        /\ tallied' = tallied /\ reported' = reported /\ lost' = lost /\ crashes' = crashes
        /\ recorded' = recorded \cup {q}
        /\ \A b \in Agents : pc'[b] = IF b = a THEN "publish" ELSE pc[b]
        /\ pc' \in [Agents -> Steps]
    BY <1>1, <1>2 DEF Record, Goto, DeskType, Steps
  <2>2. Local(a, q)
    BY <1>1, <2>1 DEF Local
  <2>3. DeskType' /\ Balance'
    BY <1>1, <2>1 DEF DeskType, Balance
  <2>4. AtWork(a)' /\ Waiting(a)'
    <3>1. Waiting(a)'
      BY <1>1, <2>1 DEF Waiting
    <3>2. (Answer(q, event[a]))' <=> Answer(q, event[a])
      BY <2>1
    <3> QED BY <1>1, <2>1, <3>1, <3>2 DEF AtWork
  <2>5. Taken(q)'
    <3>1. ~Finished(q)'
      BY <2>1 DEF Finished
    <3> QED BY <1>1, <2>1, <3>1 DEF Taken
  <2> QED BY <2>2, <2>3, <2>4, <2>5, LocalSuffices
<1>3. CASE ~valid(q, event[a])
  <2>1. MayKill(q)
    <3>1. CASE q \in Unlabelled /\ q[1] # "mapper.transform"
      BY <3>1 DEF MayKill
    <3>2. CASE /\ q[1] = "ledger.query.request" /\ event[a][1] = "ledger.query.completed"
               /\ \E i \in DOMAIN event[a][2] : event[a][2][i] # "object"
      <4>1. event[a] = handle_query(q) /\ event[a] # raise_
        BY <1>1, <3>2 DEF Answer
      <4>2. \/ event[a] = <<"ledger.query.failed">>
            \/ q[3] # <<"raised">> /\ event[a] = <<"ledger.query.completed", q[3][2]>>
        BY <4>1 DEF handle_query
      <4>3. q[3] # <<"raised">> /\ event[a][2] = q[3][2]
        BY <3>2, <4>2
      <4> QED BY <3>2, <4>3 DEF MayKill
    <3> QED BY <1>3, <3>1, <3>2 DEF valid
  <2>2. Die(a) /\ fatal' = fatal \cup {q}
    BY <1>3 DEF Record
  <2>3. UNCHANGED <<recorded, answers, quiet, dead, tallied, reported, crashes>>
    BY <1>3 DEF Record
  <2> QED BY <1>1, <2>1, <2>2, <2>3, FatalKeeps
<1> QED BY <1>2, <1>3

\* The container comes back with nothing.
LEMMA RestartKeeps ==
    ASSUME DeskInv, NEW a \in Agents, Restart(a)
    PROVE  DeskInv'
<1>1. /\ DeskType /\ Balance /\ AtWork(a) /\ Waiting(a) /\ msg[a] = None
  BY DEF DeskInv, Restart, AtWork
<1>2. /\ pc' \in [Agents -> Steps]
      /\ \A b \in Agents : pc'[b] = IF b = a THEN "idle" ELSE pc[b]
      /\ msg' = msg /\ inbox' = inbox /\ event' = event /\ observed' = observed
      /\ answers' = answers /\ quiet' = quiet /\ dead' = dead /\ fatal' = fatal
      /\ recorded' = recorded /\ crashes' = crashes
      /\ tallied' = tallied /\ reported' = reported /\ lost' = lost
  BY <1>1, Moves DEF Restart, Steps, history
<1>3. Local(a, None)
  BY <1>1, <1>2 DEF Local
<1>4. DeskType' /\ Balance'
  BY <1>1, <1>2 DEF DeskType, Balance
<1>5. AtWork(a)' /\ Waiting(a)'
  BY <1>1, <1>2 DEF AtWork, Waiting
<1>6. None \notin DOMAIN answers'
  BY <1>1, <1>2, NoneIsNone DEF DeskType
<1> QED BY <1>3, <1>4, <1>5, <1>6, LocalSuffices

\* The dead-letter row is written: the request has its fate.
LEMMA RecordDeadLetterKeeps ==
    ASSUME DeskInv, NEW a \in Agents, RecordDeadLetter(a)
    PROVE  DeskInv'
<1> PICK q : q = msg[a]
  OBVIOUS
<1>1. /\ DeskType /\ Balance /\ AtWork(a) /\ Waiting(a) /\ Taken(q)
      /\ q # None /\ q \in All /\ agent_for(q) = a /\ q \in DOMAIN answers
  BY AtRequest DEF DeskInv, RecordDeadLetter
<1>2. /\ pc' \in [Agents -> Steps] /\ pc[a] = "quarantine"
      /\ \A b \in Agents : pc'[b] = IF b = a THEN "republish" ELSE pc[b]
      /\ msg' = msg /\ inbox' = inbox /\ event' = event /\ observed' = observed
      /\ answers' = answers /\ quiet' = quiet /\ dead' = dead \cup {q} /\ fatal' = fatal
      /\ recorded' = recorded /\ crashes' = crashes
      /\ tallied' = tallied /\ reported' = reported /\ lost' = lost
  BY <1>1, Moves DEF RecordDeadLetter, Steps
<1>3. Local(a, q)
  BY <1>1, <1>2 DEF Local
<1>4. DeskType' /\ Balance'
  BY <1>1, <1>2 DEF DeskType, Balance
<1>5. AtWork(a)' /\ Waiting(a)'
  BY <1>1, <1>2 DEF AtWork, Waiting
<1>6. Taken(q)'
  <2>1. ~Finished(q)'
    BY <1>2 DEF Finished
  <2> QED BY <1>1, <1>2, <2>1 DEF Taken
<1> QED BY <1>3, <1>4, <1>5, <1>6, LocalSuffices

\* The copy on the bus comes after the row.
LEMMA PublishDeadLetterKeeps ==
    ASSUME DeskInv, NEW a \in Agents, PublishDeadLetter(a)
    PROVE  DeskInv'
<1> PICK q : q = msg[a]
  OBVIOUS
<1>1. /\ DeskType /\ Balance /\ AtWork(a) /\ Waiting(a)
      /\ q # None /\ q \in All /\ agent_for(q) = a /\ q \in DOMAIN answers
      /\ answers[q] = <<>> /\ q \in dead /\ q \in Refused
  BY AtRequest DEF DeskInv, PublishDeadLetter, AtWork
<1>2. /\ pc' \in [Agents -> Steps] /\ msg' \in [Agents -> All \cup {None}]
      /\ DOMAIN event' = Agents
      /\ \A b \in Agents : /\ pc'[b] = IF b = a THEN "idle" ELSE pc[b]
                           /\ msg'[b] = IF b = a THEN None ELSE msg[b]
                           /\ b # a => event'[b] = event[b]
      /\ inbox' = inbox /\ observed' = observed
      /\ answers' = answers /\ quiet' = quiet /\ dead' = dead /\ fatal' = fatal
      /\ recorded' = recorded /\ crashes' = crashes
      /\ tallied' = tallied /\ reported' = reported /\ lost' = lost
  BY <1>1, Moves DEF PublishDeadLetter, history
<1>3. Local(a, q)
  BY <1>1, <1>2 DEF Local
<1>4. DeskType' /\ Balance'
  BY <1>1, <1>2 DEF DeskType, Balance
<1>5. AtWork(a)' /\ Waiting(a)'
  BY <1>1, <1>2 DEF AtWork, Waiting
<1>6. Taken(q)'
  <2>1. Outcome(q)'
    BY <1>1, <1>2, EmptyLen DEF Outcome
  <2> QED BY <1>1, <1>2, <2>1 DEF Taken
<1> QED BY <1>3, <1>4, <1>5, <1>6, LocalSuffices

\* The answer goes out, once; a report takes the tally with it.
LEMMA PublishKeeps ==
    ASSUME DeskInv, NEW a \in Agents, Publish(a)
    PROVE  DeskInv'
<1> PICK q : q = msg[a]
  OBVIOUS
<1> PICK e : e = event[a]
  OBVIOUS
<1>1. /\ DeskType /\ Balance /\ AtWork(a) /\ Waiting(a) /\ pc[a] = "publish"
      /\ q # None /\ q \in All /\ agent_for(q) = a /\ q \in DOMAIN answers
      /\ answers[q] = <<>> /\ q \in recorded /\ q \notin quiet \cup dead \cup fatal
      /\ Answer(q, e)
      /\ a = "report" => e = <<"beacon.report.generated", summarize_kpis(observed)>>
  BY AtRequest DEF DeskInv, Publish, AtWork
<1>2. /\ pc' \in [Agents -> Steps] /\ msg' \in [Agents -> All \cup {None}]
      /\ DOMAIN event' = Agents
      /\ \A b \in Agents : /\ pc'[b] = IF b = a THEN "idle" ELSE pc[b]
                           /\ msg'[b] = IF b = a THEN None ELSE msg[b]
                           /\ b # a => event'[b] = event[b]
      /\ inbox' = inbox /\ quiet' = quiet /\ dead' = dead /\ fatal' = fatal
      /\ recorded' = recorded /\ crashes' = crashes
      /\ tallied' = tallied /\ lost' = lost
  BY <1>1, Moves DEF Publish
<1>3. /\ DOMAIN answers' = DOMAIN answers /\ answers'[q] = <<e>>
      /\ \A x \in DOMAIN answers \ {q} : answers'[x] = answers[x]
  <2>1. answers' = [answers EXCEPT ![q] = Append(answers[q], e)]
    BY DEF Publish
  <2>2. Append(<<>>, e) = <<e>>
    OBVIOUS
  <2> QED BY <1>1, <2>1, <2>2
<1>4. /\ Balance' /\ observed' \in Seq(Subjects) /\ reported' \in Nat
      /\ a # "report" => observed' = observed
  <2>1. CASE a = "report"
    <3>1. observed' = <<>> /\ reported' = reported + e[2].events_total
      BY <2>1 DEF Publish, new_window
    <3>2. e[2] = summarize_kpis(observed)
      BY <1>1, <2>1
    <3>3. summarize_kpis(observed).events_total = Len(observed)
      BY DEF summarize_kpis
    <3>4. Len(observed) \in Nat /\ reported \in Nat /\ lost \in Nat
      BY <1>1 DEF DeskType
    <3>5. Len(observed') = 0 /\ observed' \in Seq(Subjects)
      BY <3>1
    <3> QED BY <1>1, <1>2, <2>1, <3>1, <3>2, <3>3, <3>4, <3>5 DEF Balance
  <2>2. CASE a # "report"
    BY <1>1, <1>2, <2>2 DEF Publish, Balance, DeskType
  <2> QED BY <2>1, <2>2
<1>5. Local(a, q)
  BY <1>1, <1>2, <1>3, <1>4 DEF Local
<1>6. DeskType'
  BY <1>1, <1>2, <1>3, <1>4 DEF DeskType
<1>7. AtWork(a)' /\ Waiting(a)'
  BY <1>1, <1>2, <1>3 DEF AtWork, Waiting
<1>8. Taken(q)'
  <2>1. Len(<<e>>) = 1
    OBVIOUS
  <2>2. Outcome(q)'
    BY <1>1, <1>2, <1>3, <2>1 DEF Outcome
  <2> QED BY <1>1, <1>3, <2>2 DEF Taken
<1> QED BY <1>4, <1>5, <1>6, <1>7, <1>8, LocalSuffices

\* handle is called: an answer, a refusal, silence or an uncaught error, each as the
\* request deserves.
LEMMA DispatchKeeps ==
    ASSUME DeskInv, NEW a \in Agents, Dispatch(a)
    PROVE  DeskInv'
<1> PICK q : q = msg[a]
  OBVIOUS
<1>1. /\ DeskType /\ Balance /\ AtWork(a) /\ Waiting(a) /\ pc[a] = "dispatch"
      /\ q # None /\ q \in All /\ agent_for(q) = a /\ q \in DOMAIN answers
      /\ answers[q] = <<>> /\ q \notin quiet \cup dead \cup fatal
  BY AtRequest DEF DeskInv, Dispatch, AtWork
<1>2. /\ recorded' = recorded /\ answers' = answers /\ dead' = dead
      /\ reported' = reported /\ crashes' = crashes
  BY DEF Dispatch
<1>3. CASE /\ q \in Refused /\ Goto(a, "quarantine")
           /\ UNCHANGED <<msg, inbox, event, observed, quiet, fatal, tallied, lost>>
  <2>1. /\ pc' \in [Agents -> Steps]
        /\ \A b \in Agents : pc'[b] = IF b = a THEN "quarantine" ELSE pc[b]
        /\ msg' = msg /\ inbox' = inbox /\ event' = event /\ observed' = observed
        /\ quiet' = quiet /\ fatal' = fatal /\ tallied' = tallied /\ lost' = lost
    BY <1>1, <1>3, Moves DEF Steps
  <2>2. Local(a, q)
    BY <1>1, <1>2, <2>1 DEF Local
  <2>3. DeskType' /\ Balance'
    BY <1>1, <1>2, <2>1 DEF DeskType, Balance
  <2>4. AtWork(a)' /\ Waiting(a)'
    BY <1>1, <1>2, <1>3, <2>1 DEF AtWork, Waiting
  <2>5. Taken(q)'
    BY <1>1, <1>2, <2>1 DEF Taken, Finished
  <2> QED BY <2>2, <2>3, <2>4, <2>5, LocalSuffices
<1>4. ASSUME NEW r, r = handle(q), r = quiet_, Return(a), quiet' = quiet \cup {q},
             IF q[1] = "outcome"
             THEN observed' = Append(observed, q[2]) /\ tallied' = tallied + 1
             ELSE UNCHANGED <<observed, tallied>>,
             UNCHANGED <<inbox, fatal, lost>>
      PROVE  DeskInv'
  <2>1. /\ pc' \in [Agents -> Steps] /\ msg' \in [Agents -> All \cup {None}]
        /\ DOMAIN event' = Agents
        /\ \A b \in Agents : /\ pc'[b] = IF b = a THEN "idle" ELSE pc[b]
                             /\ msg'[b] = IF b = a THEN None ELSE msg[b]
                             /\ b # a => event'[b] = event[b]
        /\ inbox' = inbox /\ fatal' = fatal /\ lost' = lost
    BY <1>1, <1>4, Moves
  <2>2. MayBeDropped(q)
    BY <1>1, <1>4, Fates DEF DeskType
  <2>3. /\ Balance' /\ observed' \in Seq(Subjects) /\ tallied' \in Nat
        /\ a # "report" => observed' = observed
    <3>1. CASE q[1] = "outcome"
      <4>1. a = "report" /\ q[2] \in Subjects
        BY <1>1, <3>1, ReportSubjects DEF Subjects
      <4>2. observed \in Seq(Subjects) /\ tallied \in Nat /\ reported \in Nat /\ lost \in Nat
        BY <1>1 DEF DeskType
      <4>3. observed' \in Seq(Subjects) /\ Len(observed') = Len(observed) + 1
        BY <1>4, <3>1, <4>1, <4>2
      <4>4. Len(observed) \in Nat
        BY <4>2
      <4> QED BY <1>1, <1>2, <1>4, <2>1, <3>1, <4>1, <4>2, <4>3, <4>4 DEF Balance
    <3>2. CASE q[1] # "outcome"
      BY <1>1, <1>2, <1>4, <2>1, <3>2 DEF Balance, DeskType
    <3> QED BY <3>1, <3>2
  <2>4. Local(a, q)
    BY <1>1, <1>2, <1>4, <2>1, <2>3 DEF Local
  <2>5. DeskType'
    BY <1>1, <1>2, <1>4, <2>1, <2>3 DEF DeskType
  <2>6. AtWork(a)' /\ Waiting(a)'
    BY <1>1, <1>2, <2>1 DEF AtWork, Waiting
  <2>7. Taken(q)'
    <3>1. MayBeDropped(q)'
      BY <2>2 DEF MayBeDropped
    <3>2. Outcome(q)'
      BY <1>1, <1>2, <1>4, <3>1, EmptyLen DEF Outcome
    <3> QED BY <1>1, <1>2, <3>2 DEF Taken
  <2> QED BY <2>3, <2>4, <2>5, <2>6, <2>7, LocalSuffices
<1>5. ASSUME NEW r, r = handle(q), r = raise_, Die(a), fatal' = fatal \cup {q},
             UNCHANGED <<quiet, tallied>>
      PROVE  DeskInv'
  <2>1. MayKill(q)
    BY <1>1, <1>5, Fates DEF DeskType
  <2>2. UNCHANGED <<recorded, answers, quiet, dead, tallied, reported, crashes>>
    BY <1>2, <1>5
  <2> QED BY <1>1, <1>5, <2>1, <2>2, FatalKeeps
<1>6. ASSUME NEW r, r = handle(q), r \notin {quiet_, raise_}, Goto(a, "record"),
             event' = [event EXCEPT ![a] = r],
             UNCHANGED <<msg, inbox, observed, quiet, fatal, tallied, lost>>
      PROVE  DeskInv'
  <2>1. /\ pc' \in [Agents -> Steps]
        /\ \A b \in Agents : pc'[b] = IF b = a THEN "record" ELSE pc[b]
        /\ msg' = msg /\ inbox' = inbox /\ observed' = observed
        /\ quiet' = quiet /\ fatal' = fatal /\ tallied' = tallied /\ lost' = lost
        /\ DOMAIN event' = Agents
        /\ \A b \in Agents : event'[b] = IF b = a THEN r ELSE event[b]
    BY <1>1, <1>6, Moves DEF Steps, DeskType
  <2>2. /\ Answer(q, r)
        /\ a = "report" => r = <<"beacon.report.generated", summarize_kpis(observed)>>
    BY <1>1, <1>6, Fates DEF DeskType
  <2>3. Local(a, q)
    BY <1>1, <1>2, <2>1 DEF Local
  <2>4. DeskType' /\ Balance'
    BY <1>1, <1>2, <2>1 DEF DeskType, Balance
  <2>5. AtWork(a)' /\ Waiting(a)'
    <3>1. (Answer(msg[a], event[a]))'
      BY <2>1, <2>2
    <3>2. a = "report" =>
              (event[a] = <<"beacon.report.generated", summarize_kpis(observed)>>)'
      BY <2>1, <2>2
    <3>3. AtWork(a)'
      BY <1>1, <1>2, <2>1, <3>1, <3>2 DEF AtWork
    <3> QED BY <1>1, <1>2, <2>1, <3>3 DEF Waiting
  <2>6. Taken(q)'
    BY <1>1, <1>2, <2>1 DEF Taken, Finished
  <2> QED BY <2>3, <2>4, <2>5, <2>6, LocalSuffices
<1> QED BY <1>3, <1>4, <1>5, <1>6 DEF Dispatch

\* A request arrives in the socket of its agent, or in none.
LEMMA SendKeeps ==
    ASSUME DeskInv, NEW q \in All, Send(q)
    PROVE  DeskInv'
<1> PICK a : a = agent_for(q)
  OBVIOUS
<1>1. /\ DeskType /\ Balance /\ a \in Agents
      /\ \A b \in Agents : AtWork(b) /\ Waiting(b)
      /\ \A x \in DOMAIN answers : Taken(x)
  BY AgentFor DEF DeskInv
<1>2. /\ pc' = pc /\ msg' = msg /\ event' = event /\ observed' = observed
      /\ recorded' = recorded /\ answers' = answers /\ quiet' = quiet /\ dead' = dead
      /\ fatal' = fatal /\ tallied' = tallied /\ reported' = reported /\ lost' = lost
      /\ crashes' = crashes
  BY DEF Send, history
<1>3. /\ inbox' \in [Agents -> Seq(All)]
      /\ \A b \in Agents : b # a => inbox'[b] = inbox[b]
      /\ inbox'[a] = inbox[a] \/ inbox'[a] = Append(inbox[a], q)
      /\ inbox[a] \in Seq(All)
  BY <1>1 DEF Send, DeskType
<1>4. Waiting(a)'
  <2>1. CASE inbox'[a] = inbox[a]
    BY <1>1, <1>2, <2>1 DEF Waiting
  <2>2. CASE inbox'[a] = Append(inbox[a], q)
    <3> DEFINE box == inbox[a]
               new == Append(box, q)
               n == Len(box)
    <3>1. /\ n \in Nat /\ Len(new) = n + 1 /\ new[n + 1] = q
          /\ \A i \in 1..n : new[i] = box[i]
      BY <1>3
    <3>2. /\ q \notin DOMAIN answers /\ \A i \in 1..n : box[i] # q
      BY <1>3 DEF Send
    <3>3. \A i \in 1..n : /\ agent_for(box[i]) = a /\ box[i] \notin DOMAIN answers
                          /\ \A j \in 1..n : box[i] = box[j] => i = j
      BY <1>1 DEF Waiting
    <3> HIDE DEF new, box, n
    <3>4. \A i \in 1..Len(new) : i = n + 1 \/ i \in 1..n
      BY <3>1
    <3>5. \A i \in 1..Len(new) :
              /\ agent_for(new[i]) = a /\ new[i] \notin DOMAIN answers
              /\ \A j \in 1..Len(new) : new[i] = new[j] => i = j
      BY <3>1, <3>2, <3>3, <3>4
    <3> QED BY <1>2, <2>2, <3>5 DEF Waiting, new, box
  <2> QED BY <1>3, <2>1, <2>2
<1>5. \A b \in Agents : b # a => Waiting(b)'
  BY <1>1, <1>2, <1>3 DEF Waiting
<1>6. \A b \in Agents : AtWork(b)'
  BY <1>1, <1>2 DEF AtWork
<1>7. \A x \in DOMAIN answers' : Taken(x)'
  BY <1>1, <1>2 DEF Taken, Finished, Outcome, MayBeDropped, MayKill, Leads
<1>8. DeskType' /\ Balance'
  BY <1>1, <1>2, <1>3 DEF DeskType, Balance
<1>9. \A b \in Agents : AtWork(b)' /\ Waiting(b)'
  BY <1>4, <1>5, <1>6
<1> QED BY <1>7, <1>8, <1>9 DEF DeskInv

\* Every step keeps the invariant.
LEMMA DeskNext == DeskInv /\ [Next]_vars => DeskInv'
<1> SUFFICES ASSUME DeskInv, [Next]_vars PROVE DeskInv'
  OBVIOUS
<1>1. CASE Sends
  BY <1>1, SendKeeps DEF Sends, All
<1>2. ASSUME NEW a \in Agents, Step(a) PROVE DeskInv'
  BY <1>2, TakeKeeps, DispatchKeeps, RecordKeeps, PublishKeeps, RecordDeadLetterKeeps,
     PublishDeadLetterKeeps, RestartKeeps DEF Step
<1>3. ASSUME NEW a \in Agents, Crash(a) PROVE DeskInv'
  BY <1>3, CrashKeeps
<1>4. CASE UNCHANGED vars
  <2>1. UNCHANGED <<pc, msg, inbox, event, observed, recorded, answers, quiet, dead, fatal,
                    tallied, reported, lost, crashes>>
    BY <1>4 DEF vars, agentVars, history
  <2>2. DeskType' /\ Balance' /\ \A a \in Agents : AtWork(a)' /\ Waiting(a)'
    BY <2>1 DEF DeskInv, DeskType, Balance, AtWork, Waiting
  <2>3. \A q \in DOMAIN answers' : Taken(q)'
    BY <2>1 DEF DeskInv, Taken, Finished, Outcome, MayBeDropped, MayKill, Leads
  <2> QED BY <2>2, <2>3 DEF DeskInv
<1> QED BY <1>1, <1>2, <1>3, <1>4 DEF Next, Quiescent

\* The invariant, from which the theorems follow.
LEMMA DeskAlways == Spec => []DeskInv
  BY DeskInit, DeskNext, PTL DEF Spec

\* Every request an agent takes ends in exactly one way: one recorded answer, a dead
\* letter for one that is refused, silence where the code means it, or, of the requests
\* named in MayKill and of no other, the death of the agent (run, handle, emit,
\* _dead_letter of the five agents).
THEOREM OneOutcomeAlways == Spec => []ExactlyOneOutcome
<1>1. DeskInv => ExactlyOneOutcome
  BY DEF DeskInv, Taken, Outcome, ExactlyOneOutcome
<1> QED BY <1>1, DeskAlways, PTL

\* The chain of transforms Mapper answers with leads from the source version to the target
\* and none is shorter, whatever the table of transforms (Mapper._find_path).
THEOREM ShortestChainAlways == Spec => []ShortestChain
<1>1. ASSUME DeskInv, NEW q \in DOMAIN answers, q[1] = "mapper.transform", answers[q] # <<>>
      PROVE  LET path == answers[q][1][4]
                 edges == Transforms[q[2]]
             IN /\ path[1] = q[3] /\ path[Len(path)] = q[4]
                /\ \A i \in 1..(Len(path) - 1) : <<path[i], path[i + 1]>> \in edges
                /\ Len(path) > 1 => q[4] \notin Reach(edges, q[3], Len(path) - 2)
  <2>1. PICK e : answers[q] = <<e>> /\ Answer(q, e)
    BY <1>1 DEF DeskInv, Taken
  <2>2. q \in All /\ answers[q][1] = e /\ e = handle_mapper(q) /\ e \notin {quiet_, raise_}
    BY <1>1, <2>1 DEF DeskInv, DeskType, Answer
  <2>3. /\ e[4] \in Seq(Nat) /\ IsPath(Transforms[q[2]], q[3], e[4]) /\ Last(e[4]) = q[4]
        /\ Len(e[4]) > 1 => q[4] \notin Reach(Transforms[q[2]], q[3], Len(e[4]) - 2)
    BY <1>1, <2>2, Coerced
  <2> QED BY <2>2, <2>3 DEF IsPath, Last
<1>2. DeskInv => ShortestChain
  BY <1>1 DEF ShortestChain
<1> QED BY <1>2, DeskAlways, PTL

-----------------------------------------------------------------------------
(* Reports.                                                                *)

\* The severities of a report add up.
LEMMA SeveritiesAddUp ==
    ASSUME NEW S, NEW seen \in Seq(S)
    PROVE  LET k == summarize_kpis(seen)
           IN k.events_total = k.by_severity["info"] + k.by_severity["warning"]
                               + k.by_severity["error"] + k.by_severity["critical"]
<1> DEFINE n == Len(seen)
           of(v) == {i \in DOMAIN seen : severity_for(seen[i]) = v}
           k == summarize_kpis(seen)
           I == of("info")
           W == of("warning")
           E == of("error")
           C == of("critical")
<1>1. /\ k.events_total = n
      /\ \A v \in Severity : k.by_severity[v] = Cardinality(of(v))
  BY DEF summarize_kpis, count
<1>2. n \in Nat /\ DOMAIN seen = 1..n /\ IsFiniteSet(1..n) /\ Cardinality(1..n) = n
  <2>1. n \in Nat /\ DOMAIN seen = 1..n
    OBVIOUS
  <2> HIDE DEF n
  <2> QED BY <2>1, FS_Interval
<1>3. \A i \in DOMAIN seen : severity_for(seen[i]) \in {"info", "warning", "error", "critical"}
  BY DEF severity_for
<1>4. /\ I \subseteq 1..n /\ W \subseteq 1..n /\ E \subseteq 1..n /\ C \subseteq 1..n
      /\ ((I \cup W) \cup E) \cup C = 1..n
  BY <1>2, <1>3
<1>5. I \cap W = {} /\ (I \cup W) \cap E = {} /\ ((I \cup W) \cup E) \cap C = {}
  OBVIOUS
<1>6. /\ k.by_severity["info"] = Cardinality(I) /\ k.by_severity["warning"] = Cardinality(W)
      /\ k.by_severity["error"] = Cardinality(E) /\ k.by_severity["critical"] = Cardinality(C)
  BY <1>1 DEF Severity
<1> HIDE DEF I, W, E, C, of, k
<1>7. /\ IsFiniteSet(I) /\ IsFiniteSet(W) /\ IsFiniteSet(E) /\ IsFiniteSet(C)
  BY <1>2, <1>4, FS_Subset
<1>8. \A A, B : IsFiniteSet(A) /\ IsFiniteSet(B) /\ A \cap B = {} =>
          IsFiniteSet(A \cup B) /\ Cardinality(A \cup B) = Cardinality(A) + Cardinality(B)
  <2> SUFFICES ASSUME NEW A, NEW B, IsFiniteSet(A), IsFiniteSet(B), A \cap B = {}
               PROVE  /\ IsFiniteSet(A \cup B)
                      /\ Cardinality(A \cup B) = Cardinality(A) + Cardinality(B)
    OBVIOUS
  <2>1. /\ IsFiniteSet(A \cup B)
        /\ Cardinality(A \cup B) = Cardinality(A) + Cardinality(B) - Cardinality(A \cap B)
    BY FS_Union
  <2>2. Cardinality(A \cap B) = 0 /\ Cardinality(A) \in Nat /\ Cardinality(B) \in Nat
    BY FS_EmptySet, FS_CardinalityType
  <2> QED BY <2>1, <2>2
<1>9. IsFiniteSet(I \cup W) /\ Cardinality(I \cup W) = Cardinality(I) + Cardinality(W)
  BY <1>5, <1>7, <1>8
<1>10. /\ IsFiniteSet((I \cup W) \cup E)
       /\ Cardinality((I \cup W) \cup E) = Cardinality(I \cup W) + Cardinality(E)
  BY <1>5, <1>7, <1>8, <1>9
<1>11. Cardinality(((I \cup W) \cup E) \cup C) = Cardinality((I \cup W) \cup E) + Cardinality(C)
  BY <1>5, <1>7, <1>8, <1>10
<1> QED BY <1>1, <1>2, <1>4, <1>6, <1>9, <1>10, <1>11 DEF k

\* Each outcome counted is in one published report, in the tally or lost with the agent,
\* and the severities of every report add up (_emit_report, summarize_kpis).
THEOREM TallyAlways == Spec => []TallyIsAccounted
<1>1. ASSUME DeskInv, NEW q \in DOMAIN answers, q[1] = "beacon.report.request", answers[q] # <<>>
      PROVE  LET k == answers[q][1][2]
             IN k.events_total = k.by_severity["info"] + k.by_severity["warning"]
                                 + k.by_severity["error"] + k.by_severity["critical"]
  <2>1. PICK e : answers[q] = <<e>> /\ Answer(q, e)
    BY <1>1 DEF DeskInv, Taken
  <2>2. PICK seen \in Seq(Subjects) : e = <<"beacon.report.generated", summarize_kpis(seen)>>
    BY <1>1, <2>1 DEF Answer
  <2>3. answers[q][1][2] = summarize_kpis(seen)
    BY <2>1, <2>2
  <2> QED BY <2>3, SeveritiesAddUp
<1>2. DeskInv => TallyIsAccounted
  BY <1>1 DEF TallyIsAccounted, DeskInv, Balance
<1> QED BY <1>2, DeskAlways, PTL

-----------------------------------------------------------------------------
(* ERP records.                                                            *)

\* Each field of a table has a target of its own, which no list field shares; money is
\* not among the fields of a line.
Table(m) ==
    /\ \A f, g \in DOMAIN m.fields : m.fields[f] = m.fields[g] => f = g
    /\ m.money \subseteq DOMAIN m.fields
    /\ \A f, g \in DOMAIN m.lines : m.lines[f].target = m.lines[g].target => f = g
    /\ \A l \in DOMAIN m.lines :
           /\ \A f \in DOMAIN m.fields : m.fields[f] # m.lines[l].target
           /\ \A f, g \in DOMAIN m.lines[l].fields :
                  m.lines[l].fields[f] = m.lines[l].fields[g] => f = g
           /\ m.money \cap DOMAIN m.lines[l].fields = {}

\* The tables NETSUITE_RECORD_MAPPINGS holds are such tables.
LEMMA Tables ==
    \A s \in DOMAIN NETSUITE_RECORD_MAPPINGS : Table(NETSUITE_RECORD_MAPPINGS[s])
<1>1. Table(ITEM)
  BY DEF Table, ITEM, NoLines
<1>2. Table(ADJUSTMENT)
  BY DEF Table, ADJUSTMENT, ADJUSTMENT_LINES
<1>3. Table(TRANSFER)
  BY DEF Table, TRANSFER, TRANSFER_LINES
<1> QED BY <1>1, <1>2, <1>3 DEF NETSUITE_RECORD_MAPPINGS

\* Money: the decimal of a hundredth.
LEMMA Money ==
    ASSUME NEW n \in Int
    PROVE  LET got == _minor_to_major(n)
           IN /\ got[1] = "decimal" /\ got[4] \in 0..99
              /\ n = (IF got[2] = "-" THEN -1 ELSE 1) * (100 * got[3] + got[4])
<1>1. CASE n < 0
  <2> DEFINE x == -n
  <2>1. x \in Nat
    BY <1>1
  <2>2. _minor_to_major(n) = <<"decimal", "-", x \div 100, x % 100>>
    BY <1>1 DEF _minor_to_major
  <2>3. x % 100 \in 0..99 /\ x = 100 * (x \div 100) + (x % 100) /\ x \div 100 \in Int
    <3> HIDE DEF x
    <3> QED BY <2>1
  <2>4. n = (-1) * x
    OBVIOUS
  <2> HIDE DEF x
  <2> QED BY <2>2, <2>3, <2>4
<1>2. CASE ~(n < 0)
  <2>1. _minor_to_major(n) = <<"decimal", "+", n \div 100, n % 100>>
    BY <1>2 DEF _minor_to_major
  <2>2. n % 100 \in 0..99 /\ n = 100 * (n \div 100) + (n % 100) /\ n \div 100 \in Int
    BY <1>2
  <2> QED BY <2>1, <2>2
<1> QED BY <1>1, <1>2

\* Every field of the table that says something is there, under its target.
Carries(fields, money, rec, out) ==
    LET said == {f \in DOMAIN rec : f \in DOMAIN fields /\ rec[f] # Null}
    IN /\ DOMAIN out = {fields[f] : f \in said}
       /\ \A f \in said :
              out[fields[f]] = IF f \in money THEN _minor_to_major(rec[f][2]) ELSE rec[f]

\* What carried makes of a record.
LEMMA Carried ==
    ASSUME NEW fields, NEW money, NEW rec,
           \A f, g \in DOMAIN fields : fields[f] = fields[g] => f = g
    PROVE  Carries(fields, money, rec, carried(fields, money, rec))
<1> DEFINE sent == {f \in DOMAIN fields \cap DOMAIN rec : rec[f] # Null}
           source(t) == CHOOSE f \in sent : fields[f] = t
           out == carried(fields, money, rec)
<1>1. out = [t \in {fields[f] : f \in sent} |->
                IF source(t) \in money THEN _minor_to_major(rec[source(t)][2])
                ELSE rec[source(t)]]
  BY DEF carried
<1>2. sent = {f \in DOMAIN rec : f \in DOMAIN fields /\ rec[f] # Null}
  OBVIOUS
<1>3. ASSUME NEW f \in sent PROVE source(fields[f]) = f
  <2>1. \E g \in sent : fields[g] = fields[f]
    OBVIOUS
  <2>2. source(fields[f]) \in sent /\ fields[source(fields[f])] = fields[f]
    BY <2>1
  <2> HIDE DEF source
  <2> QED BY <2>2
<1> HIDE DEF source, sent, out
<1>4. \A f \in sent :
          out[fields[f]] = IF f \in money THEN _minor_to_major(rec[f][2]) ELSE rec[f]
  BY <1>1, <1>3
<1>5. DOMAIN out = {fields[f] : f \in sent}
  BY <1>1
<1> QED BY <1>2, <1>4, <1>5 DEF out, Carries

\* No gap exactly if every required field is there.
LEMMA RequiredGaps ==
    ASSUME NEW required, NEW rec, NEW empties, Null \in empties
    PROVE  required_gaps(required, rec, empties) = {} <=>
               \A f \in required : Present(rec, f, empties)
  BY DEF required_gaps, Present, get

\* Null is the only value of its kind.
LEMMA NullIsNull == \A v : IsValue(v) => (v[1] = "null" <=> v = Null)
<1>1. Null[1] = "null"
  BY DEF Null
<1> QED BY <1>1 DEF IsValue

\* No gap exactly if every line holds, and then every line.
LinesAre(lm, v, r) ==
    /\ r.gaps = {} <=> LinesHold(lm, v)
    /\ LinesHold(lm, v) =>
          /\ v[2] \in Seq({v[2][i] : i \in DOMAIN v[2]})
          /\ r.out = [i \in DOMAIN v[2] |-> carried(lm.fields, {}, v[2][i][2])]

\* LineMapping.apply on every line of a field.
LEMMA LinesApplied ==
    ASSUME NEW lm, NEW v, IsValue(v), NEW name
    PROVE  LinesAre(lm, v, apply_lines(lm, v, name))
<1> DEFINE r == apply_lines(lm, v, name)
           lines == v[2]
           gaps(i) == line_gaps(lm, lines[i], <<name, i>>)
           all == UNION {gaps(i) : i \in DOMAIN lines}
<1>1. CASE v[1] # "list" \/ v = List(<<>>)
  <2>1. r = [gaps |-> {<<"non-empty list", name>>}, out |-> <<>>]
    BY <1>1 DEF apply_lines
  <2>2. ~LinesHold(lm, v)
    BY <1>1 DEF LinesHold, List
  <2> HIDE DEF r
  <2>3. r.gaps # {}
    BY <2>1
  <2> QED BY <2>2, <2>3 DEF LinesAre, r
<1>2. CASE ~(v[1] # "list" \/ v = List(<<>>))
  <2>1. v[1] = "list" /\ lines # <<>> /\ lines \in Seq({lines[i] : i \in DOMAIN lines})
    BY <1>2 DEF IsValue
  <2>2. r = [gaps |-> all,
             out |-> IF all # {} THEN <<>>
                     ELSE [i \in DOMAIN lines |-> carried(lm.fields, {}, lines[i][2])]]
    BY <1>2 DEF apply_lines
  <2>3. ASSUME NEW i \in DOMAIN lines
        PROVE  gaps(i) = {} <=> /\ lines[i][1] = "object"
                                /\ \A f \in lm.required : Present(lines[i][2], f, {Null, Blank})
                                /\ DOMAIN lines[i][2] \subseteq DOMAIN lm.fields
    <3> DEFINE req == required_gaps(lm.required, lines[i][2], {Null, Blank})
               und == undeclared(DOMAIN lm.fields, lines[i][2])
    <3>1. req = {} <=> \A f \in lm.required : Present(lines[i][2], f, {Null, Blank})
      BY RequiredGaps
    <3>2. und = {} <=> DOMAIN lines[i][2] \subseteq DOMAIN lm.fields
      BY DEF undeclared
    <3>3. gaps(i) = IF lines[i][1] # "object" THEN {<<"object", <<name, i>>>>}
                    ELSE {<<"required", <<name, i>>, f>> : f \in req}
                         \cup {<<"undeclared", <<name, i>>, f>> : f \in und}
      BY DEF line_gaps
    <3> HIDE DEF req, und
    <3> QED BY <3>1, <3>2, <3>3
  <2> HIDE DEF gaps, lines
  <2>4. all = {} <=> \A i \in DOMAIN lines : gaps(i) = {}
    OBVIOUS
  <2>5. all = {} <=> LinesHold(lm, v)
    BY <2>1, <2>3, <2>4 DEF LinesHold, lines
  <2> HIDE DEF all
  <2>6. r.gaps = all
    BY <2>2
  <2>7. all = {} => r.out = [i \in DOMAIN lines |-> carried(lm.fields, {}, lines[i][2])]
    BY <2>2
  <2> HIDE DEF r
  <2> QED BY <2>1, <2>5, <2>6, <2>7 DEF LinesAre, lines, r
<1> QED BY <1>1, <1>2

\* What arrives of the fields that carried carries.
LEMMA CarriedArrives ==
    ASSUME NEW fields, NEW m, NEW money, NEW rec, NEW out,
           \A f, g \in DOMAIN fields : fields[f] = fields[g] => f = g,
           \A t \in DOMAIN carried(fields, money, rec) :
               t \in DOMAIN out /\ out[t] = carried(fields, money, rec)[t],
           \A f \in DOMAIN fields : f \in money <=> f \in m.money,
           \A f \in money \cap DOMAIN rec : rec[f] # Null => rec[f][1] = "int" /\ rec[f][2] \in Int
    PROVE  Arrives(fields, m, rec, out)
<1> DEFINE said == {f \in DOMAIN rec : f \in DOMAIN fields /\ rec[f] # Null}
           c == carried(fields, money, rec)
<1>1. /\ DOMAIN c = {fields[f] : f \in said}
      /\ \A f \in said : c[fields[f]] = IF f \in money THEN _minor_to_major(rec[f][2]) ELSE rec[f]
  <2>1. Carries(fields, money, rec, c)
    BY Carried
  <2> HIDE DEF c
  <2> QED BY <2>1 DEF Carries
<1> HIDE DEF c
<1>2. ASSUME NEW f \in said
      PROVE  fields[f] \in DOMAIN out /\ Same(m, f, rec[f], out[fields[f]])
  <2>1. /\ fields[f] \in DOMAIN out
        /\ out[fields[f]] = IF f \in money THEN _minor_to_major(rec[f][2]) ELSE rec[f]
    BY <1>1 DEF c
  <2>2. CASE f \notin money
    BY <2>1, <2>2 DEF Same
  <2>3. CASE f \in money
    <3>1. rec[f][1] = "int" /\ rec[f][2] \in Int
      BY <2>3
    <3> DEFINE got == _minor_to_major(rec[f][2])
    <3>2. /\ got[1] = "decimal" /\ got[4] \in 0..99
          /\ rec[f][2] = (IF got[2] = "-" THEN -1 ELSE 1) * (100 * got[3] + got[4])
      BY <3>1, Money
    <3> HIDE DEF got
    <3>3. out[fields[f]] = got
      BY <2>1, <2>3 DEF got
    <3> QED BY <2>1, <2>3, <3>1, <3>2, <3>3 DEF Same
  <2> QED BY <2>2, <2>3
<1>3. \A f, g \in said : fields[f] = fields[g] => f = g
  OBVIOUS
<1> HIDE DEF said
<1> QED BY <1>2, <1>3 DEF Arrives, said

\* RecordMapping.apply has an output exactly if the record is whole, and then all of it.
LEMMA Applied ==
    ASSUME NEW m, Table(m), NEW rec, \A f \in DOMAIN rec : IsValue(rec[f])
    PROVE  LET r == apply(m, rec)
               out == r[2]
           IN /\ r[1] = "output" <=> Whole(m, rec)
              /\ Whole(m, rec) =>
                   /\ Arrives(m.fields, m, rec, out)
                   /\ \A f \in DOMAIN m.lines \cap DOMAIN rec :
                          LET lines == out[m.lines[f].target][2] IN
                          /\ Len(lines) = Len(rec[f][2])
                          /\ \A i \in DOMAIN lines :
                                 Arrives(m.lines[f].fields, m, rec[f][2][i][2], lines[i])
<1> DEFINE declared == DOMAIN m.fields \cup m.unmapped \cup DOMAIN m.lines
           raising == {f \in m.money \cap DOMAIN rec : rec[f] # Null /\ rec[f][1] # "int"}
           listed == DOMAIN m.lines \cap DOMAIN rec
           lines(f) == apply_lines(m.lines[f], rec[f], f)
           req == required_gaps(m.required, rec, {Null, Blank, List(<<>>)})
           und == undeclared(declared, rec)
           gaps == {<<"required", f>> : f \in req} \cup {<<"undeclared", f>> : f \in und}
                   \cup UNION {lines(f).gaps : f \in listed}
           field(t) == CHOOSE f \in listed : m.lines[f].target = t
           targets == {m.lines[f].target : f \in listed}
           scalars == carried(m.fields, m.money, rec)
           made == [t \in targets \cup DOMAIN scalars |->
                       IF t \in targets THEN List(lines(field(t)).out) ELSE scalars[t]]
           r == apply(m, rec)
<1>1. r = IF raising # {} THEN <<"raised", raising>>
          ELSE IF gaps # {} THEN <<"blocked", gaps>> ELSE <<"output", made>>
  BY Zenon DEF apply
<1>2. raising = {} <=> \A f \in m.money \cap DOMAIN rec : rec[f][1] \in {"null", "int"}
  <2>1. \A f \in DOMAIN rec : rec[f][1] = "null" <=> rec[f] = Null
    BY NullIsNull
  <2> QED BY <2>1
<1>3. req = {} <=> \A f \in m.required : Present(rec, f, {Null, Blank, List(<<>>)})
  BY RequiredGaps
<1>4. und = {} <=> DOMAIN rec \subseteq declared
  BY DEF undeclared
<1>5. ASSUME NEW f \in listed
      PROVE  /\ lines(f).gaps = {} <=> LinesHold(m.lines[f], rec[f])
             /\ LinesHold(m.lines[f], rec[f]) =>
                   /\ rec[f][2] \in Seq({rec[f][2][i] : i \in DOMAIN rec[f][2]})
                   /\ lines(f).out = [i \in DOMAIN rec[f][2] |->
                                         carried(m.lines[f].fields, {}, rec[f][2][i][2])]
  <2>1. LinesAre(m.lines[f], rec[f], lines(f))
    BY LinesApplied
  <2> HIDE DEF lines
  <2> QED BY <2>1 DEF LinesAre
<1> HIDE DEF lines, req, und, raising
<1>6. gaps = {} <=> req = {} /\ und = {} /\ \A f \in listed : lines(f).gaps = {}
  OBVIOUS
<1>7. raising = {} /\ gaps = {} <=> Whole(m, rec)
  <2> HIDE DEF gaps
  <2> QED BY <1>2, <1>3, <1>4, <1>5, <1>6 DEF Whole
<1> HIDE DEF gaps, made
<1>8. /\ r[1] = "output" <=> Whole(m, rec)
      /\ Whole(m, rec) => r[2] = made
  BY <1>1, <1>7
<1> SUFFICES ASSUME Whole(m, rec)
             PROVE  /\ Arrives(m.fields, m, rec, made)
                    /\ \A f \in listed :
                           /\ Len(made[m.lines[f].target][2]) = Len(rec[f][2])
                           /\ \A i \in DOMAIN made[m.lines[f].target][2] :
                                  Arrives(m.lines[f].fields, m, rec[f][2][i][2],
                                          made[m.lines[f].target][2][i])
  BY <1>8
<1>9. DOMAIN scalars = {m.fields[f] : f \in {f \in DOMAIN rec : f \in DOMAIN m.fields
                                                                /\ rec[f] # Null}}
  <2>1. Carries(m.fields, m.money, rec, scalars)
    BY Carried DEF Table
  <2> HIDE DEF scalars
  <2> QED BY <2>1 DEF Carries
<1>10. \A t \in DOMAIN scalars : t \notin targets
  BY <1>9 DEF Table
<1> HIDE DEF scalars
<1>11. \A t \in DOMAIN scalars : t \in DOMAIN made /\ made[t] = scalars[t]
  BY <1>10 DEF made
<1>12. Arrives(m.fields, m, rec, made)
  <2>1. \A f \in m.money \cap DOMAIN rec : rec[f] # Null => rec[f][1] = "int" /\ rec[f][2] \in Int
    BY <1>7 DEF raising, IsValue
  <2>2. \A f, g \in DOMAIN m.fields : m.fields[f] = m.fields[g] => f = g
    BY DEF Table
  <2> QED BY <1>11, <2>1, <2>2, CarriedArrives DEF scalars
<1>13. ASSUME NEW f \in listed
       PROVE  /\ Len(made[m.lines[f].target][2]) = Len(rec[f][2])
              /\ \A i \in DOMAIN made[m.lines[f].target][2] :
                     Arrives(m.lines[f].fields, m, rec[f][2][i][2],
                             made[m.lines[f].target][2][i])
  <2> DEFINE t == m.lines[f].target
             lm == m.lines[f]
             w == rec[f][2]
             c == [i \in DOMAIN w |-> carried(lm.fields, {}, w[i][2])]
  <2>1. t \in targets /\ field(t) = f
    <3>1. field(t) \in listed /\ m.lines[field(t)].target = t
      OBVIOUS
    <3> HIDE DEF field
    <3> QED BY <3>1 DEF Table
  <2>2. made[t] = List(lines(f).out)
    BY <2>1 DEF made
  <2>3. LinesHold(lm, rec[f])
    BY DEF Whole
  <2>4. w \in Seq({w[i] : i \in DOMAIN w}) /\ lines(f).out = c
    BY <1>5, <2>3
  <2>5. made[t][2] = c
    BY <2>2, <2>4 DEF List
  <2> HIDE DEF w
  <2>6. Len(w) \in Nat /\ DOMAIN w = 1..Len(w)
    BY <2>4
  <2>7. Len(c) = Len(w)
    BY <2>6
  <2>8. ASSUME NEW i \in DOMAIN w PROVE Arrives(lm.fields, m, w[i][2], c[i])
    <3> DEFINE x == w[i][2]
               d == carried(lm.fields, {}, x)
    <3>1. c[i] = d
      OBVIOUS
    <3> HIDE DEF x
    <3>2. Arrives(lm.fields, m, x, d)
      <4>1. /\ \A g, h \in DOMAIN lm.fields : lm.fields[g] = lm.fields[h] => g = h
            /\ \A g \in DOMAIN lm.fields : g \in {} <=> g \in m.money
        BY DEF Table
      <4>2. /\ \A u \in DOMAIN carried(lm.fields, {}, x) :
                   u \in DOMAIN d /\ d[u] = carried(lm.fields, {}, x)[u]
            /\ \A g \in {} \cap DOMAIN x : x[g] # Null => x[g][1] = "int" /\ x[g][2] \in Int
        OBVIOUS
      <4> HIDE DEF lm, d
      <4> QED BY <4>1, <4>2, CarriedArrives
    <3> QED BY <3>1, <3>2 DEF x
  <2>9. DOMAIN c = DOMAIN w
    OBVIOUS
  <2> HIDE DEF c
  <2> QED BY <2>5, <2>7, <2>8, <2>9 DEF w
<1> QED BY <1>12, <1>13

\* An ERP record is completed exactly if nothing required is missing, and then every field
\* of it arrives under its own name, the money to the cent and the lines in order
\* (RecordMapping.apply, LineMapping.apply, _minor_to_major).
THEOREM CompleteAlways == Spec => []CompleteOrBlocked
<1>1. ASSUME DeskInv, NEW q \in DOMAIN answers, q[1] = "mapper.erp.transform",
             answers[q] # <<>>
      PROVE  LET completed == answers[q][1][1] = "mapper.transform.completed"
                 m == NETSUITE_RECORD_MAPPINGS[q[2]]
                 rec == q[4]
                 out == answers[q][1][2]
             IN /\ completed <=> /\ q[2] \in DOMAIN NETSUITE_RECORD_MAPPINGS
                                 /\ q[3] = "netsuite" /\ Whole(m, rec)
                /\ completed =>
                     /\ Arrives(m.fields, m, rec, out)
                     /\ \A f \in DOMAIN m.lines \cap DOMAIN rec :
                            LET lines == out[m.lines[f].target][2] IN
                            /\ Len(lines) = Len(rec[f][2])
                            /\ \A i \in DOMAIN lines :
                                   Arrives(m.lines[f].fields, m, rec[f][2][i][2], lines[i])
  <2> DEFINE m == NETSUITE_RECORD_MAPPINGS[q[2]]
             rec == q[4]
             r == apply(m, rec)
             x == erp_transform(q[2], q[3], q[4])
             known == q[2] \in DOMAIN NETSUITE_RECORD_MAPPINGS /\ q[3] = "netsuite"
  <2>1. PICK e : answers[q] = <<e>> /\ Answer(q, e)
    BY <1>1 DEF DeskInv, Taken
  <2>2. q \in All /\ answers[q][1] = e /\ e = handle_erp(q)
    BY <1>1, <2>1 DEF DeskInv, DeskType, Answer
  <2>3. x = IF ~known THEN <<"unregistered">> ELSE r
    BY DEF erp_transform
  <2>4. /\ x[1] = "output" => e = <<"mapper.transform.completed", x[2]>>
        /\ x[1] # "output" => e = <<"mapper.transform.failed", x>>
    BY <2>2 DEF handle_erp
  <2>5. \A f \in DOMAIN rec : IsValue(rec[f])
    BY <1>1, <2>2, DeskAssumption DEF All, WellFormed
  <2>6. known => Table(m)
    BY Tables
  <2> HIDE DEF x, r, m, rec
  <2>7. x[1] = "output" <=> e[1] = "mapper.transform.completed"
    BY <2>4
  <2>8. x[1] = "output" => known /\ x = r
    BY <2>3
  <2>9. x[1] = "output" => e[2] = r[2]
    BY <2>4, <2>8
  <2>10. known =>
           /\ r[1] = "output" <=> Whole(m, rec)
           /\ Whole(m, rec) =>
                /\ Arrives(m.fields, m, rec, r[2])
                /\ \A f \in DOMAIN m.lines \cap DOMAIN rec :
                       LET lines == r[2][m.lines[f].target][2] IN
                       /\ Len(lines) = Len(rec[f][2])
                       /\ \A i \in DOMAIN lines :
                              Arrives(m.lines[f].fields, m, rec[f][2][i][2], lines[i])
    BY <2>5, <2>6, Applied DEF r
  <2> HIDE DEF known
  <2>11. known => x = r
    BY <2>3
  <2> QED BY <2>2, <2>7, <2>8, <2>9, <2>10, <2>11 DEF known, m, rec
<1>2. DeskInv => CompleteOrBlocked
  BY <1>1 DEF CompleteOrBlocked
<1> QED BY <1>2, DeskAlways, PTL
=============================================================================
