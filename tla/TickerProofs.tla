---------------------------- MODULE TickerProofs ----------------------------
(***************************************************************************)
(* Proofs about Ticker, for any number of replicas, any table and any      *)
(* course of the market, any TTL and any latency: a quote is fresh, its    *)
(* as_of is honest, and a conversion is off by its two roundings at most.  *)
(***************************************************************************)
EXTENDS Ticker, TLAPS

-----------------------------------------------------------------------------
(* Rounding.                                                               *)

\* Integer division, as the prover needs it.
LEMMA Division ==
    ASSUME NEW a \in Nat, NEW b \in Nat \ {0}
    PROVE  /\ a \div b \in Nat
           /\ b * (a \div b) <= a
           /\ a < b * (a \div b) + b
OBVIOUS

\* Halves up: the quotient of a natural number (Decimal.quantize, ROUND_HALF_UP).
LEMMA RoundUp ==
    ASSUME NEW n \in Nat, NEW d \in Nat \ {0}
    PROVE  /\ round_half_up(n, d) \in Nat
           /\ -d <= 2 * (n - round_half_up(n, d) * d)
           /\ 2 * (n - round_half_up(n, d) * d) < d
<1> DEFINE c == (2 * n + d) \div (2 * d)
<1>1. 2 * n + d \in Nat /\ 2 * d \in Nat \ {0}
  OBVIOUS
<1>2. /\ c \in Nat
      /\ (2 * d) * c <= 2 * n + d
      /\ 2 * n + d < (2 * d) * c + 2 * d
  BY <1>1, Division
<1>3. round_half_up(n, d) = c
  BY DEF round_half_up
<1> HIDE DEF c
<1>4. c * d \in Nat /\ (2 * d) * c = 2 * (c * d)
  BY <1>2
<1> QED BY <1>2, <1>3, <1>4

\* Halves to even: never off by more than a half (the Decimal context).
LEMMA RoundEven ==
    ASSUME NEW n \in Nat, NEW d \in Nat \ {0}
    PROVE  /\ round_half_even(n, d) \in Nat
           /\ -d <= 2 * (n - round_half_even(n, d) * d)
           /\ 2 * (n - round_half_even(n, d) * d) <= d
<1> DEFINE c == n \div d
           e == round_half_even(n, d)
<1>1. c \in Nat /\ d * c <= n /\ n < d * c + d
  BY Division
<1>2. \/ e = c /\ ~(2 * (n - c * d) > d)
      \/ e = c + 1 /\ (2 * (n - c * d) > d \/ 2 * (n - c * d) = d)
  BY DEF round_half_even
<1> HIDE DEF c, e
<1>3. c * d \in Nat /\ d * c = c * d /\ (c + 1) * d = c * d + d
  BY <1>1
<1>4. CASE e = c /\ ~(2 * (n - c * d) > d)
  BY <1>1, <1>3, <1>4 DEF e
<1>5. CASE e = c + 1 /\ (2 * (n - c * d) > d \/ 2 * (n - c * d) = d)
  <2>1. e \in Nat /\ e * d = c * d + d
    BY <1>1, <1>3, <1>5
  <2> QED BY <1>1, <1>3, <1>5, <2>1 DEF e
<1> QED BY <1>2, <1>4, <1>5

\* The last digit kept is a place of Unit, and the units place for what fits.
LEMMA LastDigit ==
    ASSUME NEW n \in Nat, NEW d \in Nat \ {0}
    PROVE  /\ ulp(n, d) \in Unit
           /\ ulp(n, d) \in Nat \ {0}
           /\ d = 1 => ulp(n, d) = 1 \/ Limit * ulp(n, d) <= 10 * n
           /\ d = 1 /\ n < Limit => ulp(n, d) = 1
<1> DEFINE last(u) == n < Limit * u * d /\ (u = 1 \/ Limit * (u \div 10) * d <= n)
<1>1. CASE \E u \in Unit : last(u)
  <2>1. ulp(n, d) = CHOOSE u \in Unit : last(u)
    BY <1>1, Zenon DEF ulp
  <2>2. ulp(n, d) \in Unit /\ last(ulp(n, d))
    <3> HIDE DEF last
    <3> QED BY <1>1, <2>1, Zenon
  <2>3. ASSUME NEW u \in Unit, last(u), d = 1, u # 1
        PROVE  Limit * u <= 10 * n /\ Limit <= n
    <3> DEFINE w == u \div 10
    <3>1. u \in Nat /\ w \in Nat \ {0} /\ u % 10 = 0
      BY <2>3, TickerAssumption
    <3>2. u = 10 * w
      BY <3>1
    <3>3. Limit * w * d <= n
      BY <2>3
    <3> HIDE DEF w
    <3>4. Limit * w * d = Limit * w /\ Limit * u = 10 * (Limit * w)
      BY <2>3, <3>1, <3>2, TickerAssumption
    <3>5. Limit * w \in Nat /\ Limit <= Limit * w
      <4>1. w = 1 \/ w - 1 \in Nat
        BY <3>1
      <4>2. Limit * w = Limit * (w - 1) + Limit /\ Limit * (w - 1) \in Nat
        BY <3>1, <4>1, TickerAssumption
      <4> QED BY <4>2, TickerAssumption
    <3> QED BY <3>3, <3>4, <3>5, TickerAssumption
  <2>4. ulp(n, d) \in Nat \ {0}
    BY <2>2, TickerAssumption
  <2>5. d = 1 /\ ulp(n, d) # 1 => Limit * ulp(n, d) <= 10 * n /\ Limit <= n
    <3> HIDE DEF last
    <3> QED BY <2>2, <2>3
  <2> QED BY <2>2, <2>4, <2>5, TickerAssumption
<1>2. CASE ~ \E u \in Unit : last(u)
  <2>1. ulp(n, d) = 1
    BY <1>2, Zenon DEF ulp
  <2> QED BY <2>1, TickerAssumption
<1> QED BY <1>1, <1>2

\* A Decimal operation returns a natural number of units.
LEMMA DecimalType ==
    ASSUME NEW n \in Nat, NEW d \in Nat \ {0}
    PROVE  decimal(n, d) \in Nat
<1> DEFINE u == ulp(n, d)
<1>1. u \in Nat \ {0}
  BY LastDigit
<1> HIDE DEF u
<1>2. u * d \in Nat \ {0}
  BY <1>1
<1>3. round_half_even(n, u * d) \in Nat
  BY <1>2, RoundEven
<1>4. u * round_half_even(n, u * d) \in Nat
  BY <1>1, <1>3
<1> QED BY <1>4 DEF decimal, u

\* The product is off by half of its last digit, and exact when it fits.
LEMMA Product ==
    ASSUME NEW n \in Nat
    PROVE  LET u == ulp(n, 1)
               e == decimal(n, 1)
           IN /\ u \in Nat \ {0} /\ e \in Nat
              /\ -u <= 2 * (n - e) /\ 2 * (n - e) <= u
              /\ u = 1 => e = n
              /\ u = 1 \/ Limit * u <= 10 * n
              /\ n < Limit => u = 1
<1> DEFINE u == ulp(n, 1)
           e == decimal(n, 1)
           c == round_half_even(n, u * 1)
<1>1. /\ u \in Nat \ {0} /\ e \in Nat
      /\ u = 1 \/ Limit * u <= 10 * n
      /\ n < Limit => u = 1
  BY LastDigit, DecimalType
<1>2. e = u * c
  BY DEF decimal
<1> HIDE DEF u, e
<1>3. u * 1 = u /\ u * 1 \in Nat \ {0}
  BY <1>1
<1>4. /\ c \in Nat
      /\ -u <= 2 * (n - c * u) /\ 2 * (n - c * u) <= u
  BY <1>1, <1>3, RoundEven
<1> HIDE DEF c
<1>5. c * u = e
  BY <1>1, <1>2, <1>4
<1>6. -u <= 2 * (n - e) /\ 2 * (n - e) <= u
  BY <1>4, <1>5
<1>7. u = 1 => e = n
  BY <1>1, <1>6
<1> QED BY <1>1, <1>6, <1>7 DEF u, e

\* How far the answer c to n, in units of 1/Scale, may be off.
Close(n, c) ==
    LET error == n - c * Scale IN
    /\ c >= 0
    /\ n < Limit => -Scale <= 2 * error /\ 2 * error < Scale
    /\ Limit * (2 * error - Scale) <= 10 * n
    /\ Limit * (-2 * error - Scale) <= 10 * n

\* convert_minor rounds twice, and this is what the two may add up to.
LEMMA ConvertClose ==
    ASSUME NEW amount \in Nat, NEW r \in Nat
    PROVE  Close(amount * r, convert_minor(amount, r))
<1> DEFINE n == amount * r
           u == ulp(n, 1)
           e == decimal(n, 1)
           c == convert_minor(amount, r)
           error == n - c * Scale
<1>1. n \in Nat
  OBVIOUS
<1>2. c = round_half_up(e, Scale)
  BY DEF convert_minor
<1> HIDE DEF n
<1>3. /\ u \in Nat \ {0} /\ e \in Nat
      /\ -u <= 2 * (n - e) /\ 2 * (n - e) <= u
      /\ u = 1 => e = n
      /\ u = 1 \/ Limit * u <= 10 * n
      /\ n < Limit => u = 1
  BY <1>1, Product
<1> HIDE DEF u, e, c
<1>4. /\ c \in Nat /\ -Scale <= 2 * (e - c * Scale) /\ 2 * (e - c * Scale) < Scale
  BY <1>2, <1>3, RoundUp, TickerAssumption
<1>5. c * Scale \in Nat
  BY <1>4, TickerAssumption
<1>6. error \in Int /\ n \in Nat /\ Limit \in Nat \ {0} /\ Scale \in Nat
  BY <1>1, <1>5, TickerAssumption
<1>7. n < Limit => -Scale <= 2 * error /\ 2 * error < Scale
  BY <1>3, <1>4, <1>5, <1>6
<1>8. ASSUME NEW z \in Int, z <= 0 \/ (u # 1 /\ z <= u)
      PROVE  Limit * z <= 10 * n
  <2>1. CASE z <= 0
    <3>1. Limit * (-z) \in Nat /\ Limit * z = -(Limit * (-z))
      BY <1>6, <2>1
    <3> QED BY <1>6, <3>1
  <2>2. CASE u # 1 /\ z <= u
    <3>1. Limit * (u - z) \in Nat /\ Limit * u = Limit * z + Limit * (u - z)
      BY <1>3, <1>6, <2>2
    <3>2. Limit * z \in Int
      BY <1>6
    <3> QED BY <1>3, <1>6, <2>2, <3>1, <3>2
  <2> QED BY <1>8, <2>1, <2>2
<1>9. Limit * (2 * error - Scale) <= 10 * n
  <2>1. 2 * error - Scale <= 0 \/ (u # 1 /\ 2 * error - Scale <= u)
    BY <1>3, <1>4, <1>5, <1>6
  <2>2. 2 * error - Scale \in Int
    BY <1>6
  <2> HIDE DEF error
  <2> QED BY <1>8, <2>1, <2>2
<1>10. Limit * (-2 * error - Scale) <= 10 * n
  <2>1. -2 * error - Scale <= 0 \/ (u # 1 /\ -2 * error - Scale <= u)
    BY <1>3, <1>4, <1>5, <1>6
  <2>2. -2 * error - Scale \in Int
    BY <1>6
  <2> HIDE DEF error
  <2> QED BY <1>8, <2>1, <2>2
<1> QED BY <1>4, <1>7, <1>9, <1>10 DEF Close, n, c

\* The source quotes natural numbers.
LEMMA FetchType ==
    ASSUME NEW tab \in [Table -> Rates], NEW p \in Pair, known(p)
    PROVE  fetch(tab, p) \in Nat
<1>1. CASE p[1] = p[2]
  BY <1>1, TickerAssumption DEF fetch
<1>2. CASE p[1] # p[2] /\ p \in Table
  BY <1>2, TickerAssumption DEF fetch
<1>3. CASE p[1] # p[2] /\ p \notin Table
  <2>1. tab[<<p[2], p[1]>>] \in Nat \ {0}
    BY <1>3, TickerAssumption DEF known
  <2>2. Scale * Scale \in Nat
    BY TickerAssumption
  <2> QED BY <1>3, <2>1, <2>2, DecimalType DEF fetch
<1> QED BY <1>1, <1>2, <1>3

-----------------------------------------------------------------------------
(* The inductive invariant.                                                *)

Stamped == Nat \X Nat

CallType ==
    /\ now \in Nat
    /\ table \in [Table -> Rates]
    /\ pc \in [Replica -> Calls \cup {"idle", "down"}]
    /\ request \in [Replica -> Request \cup {None}]
    /\ since \in [Replica -> Nat]
    /\ rate = [r \in Replica |-> rate[r]]
    /\ reply = [r \in Replica |-> reply[r]]
    /\ cache = [p \in Pair |-> cache[p]]

\* The history has what the source says now.
SourceInv == Quotes(table, now) \subseteq quoted

\* Rate v, sourced for pair p at t, and stamped at most Latency later.
SourcedAt(p, v, t) ==
    /\ v \in Stamped /\ t \in Nat
    /\ <<p, v[1], t>> \in quoted
    /\ t <= v[2] /\ v[2] <= now /\ v[2] <= t + Latency

\* A replica whose next call is c, for request q, with rate v in hand: its lookup,
\* begun at s, takes no longer than Latency; its rate was sourced since then, or came
\* from an entry that had not expired then.
Lookup(c, q, s, v) ==
    /\ c \in Calls => q \in Request /\ s <= now /\ now <= s + Latency
    /\ c = "stamp" =>
           /\ v \in Stamped
           /\ \E t \in Nat : s <= t /\ t <= now /\ <<q.pair, v[1], t>> \in quoted
    /\ c = "set" => \E t \in Nat : s <= t /\ SourcedAt(q.pair, v, t)
    /\ c = "emit" =>
           \E t \in Nat : s < t + Latency + TTL /\ SourcedAt(q.pair, v, t)

LookupInv == \A r \in Replica : Lookup(pc[r], request[r], since[r], rate[r])

\* A stored rate expires within a TTL and a lookup of when it was sourced.
CacheInv ==
    \A p \in Pair : cache[p] # None =>
        \E t \in Nat : /\ cache[p].expires \in Int
                       /\ cache[p].expires <= t + Latency + TTL
                       /\ SourcedAt(p, cache[p].rate, t)

\* What has been answered.
ReplyInv ==
    \A r \in Replica : reply[r] # None =>
        LET q == reply[r] IN
        /\ q.at \in Nat /\ q.as_of <= q.at
        /\ \E t \in Nat : /\ <<q.pair, q.rate, t>> \in quoted
                          /\ t <= q.as_of /\ q.as_of <= t + Latency
                          /\ q.at < t + TTL + 2 * Latency
        /\ q.as_of \in Nat
        /\ q.amount # None => Close(q.amount * q.rate, q.converted)

TickerInv == CallType /\ SourceInv /\ LookupInv /\ CacheInv /\ ReplyInv

-----------------------------------------------------------------------------
(* Preservation.                                                           *)

\* Time that no lookup overruns, and the market, only add to the history.
LEMMA HistoryGrows ==
    ASSUME TickerInv, quoted \subseteq quoted', now' \in Nat, now <= now',
           \A r \in Replica : pc[r] \in Calls => now' <= since[r] + Latency,
           UNCHANGED <<cache, callVars>>
    PROVE  LookupInv' /\ CacheInv' /\ ReplyInv'
<1>1. ASSUME NEW p, NEW v, NEW t \in Nat, SourcedAt(p, v, t)
      PROVE  SourcedAt(p, v, t)'
  BY <1>1 DEF SourcedAt, TickerInv, CallType, Stamped
<1>2. LookupInv'
  <2> SUFFICES ASSUME NEW r \in Replica, NEW c, NEW q, NEW s \in Nat, NEW v,
                      c = pc[r], q = request[r], s = since[r], v = rate[r]
               PROVE  Lookup(c, q, s, v)'
    BY DEF LookupInv, callVars, TickerInv, CallType
  <2>1. Lookup(c, q, s, v) /\ (c \in Calls => now' <= s + Latency)
    BY DEF TickerInv, LookupInv
  <2> QED BY <1>1, <2>1 DEF Lookup, TickerInv, CallType
<1>3. CacheInv'
  BY <1>1 DEF TickerInv, CacheInv
<1>4. ReplyInv'
  BY DEF TickerInv, ReplyInv, callVars
<1> QED BY <1>2, <1>3, <1>4

\* A step of one replica: what it leaves to prove is that its own lookup is sound.
LEMMA ReplicaStep ==
    ASSUME TickerInv, UNCHANGED <<now, table, quoted>>, NEW r \in Replica,
           NEW c \in Calls \cup {"idle", "down"}, NEW q \in Request \cup {None},
           NEW s \in Nat, NEW v,
           pc' = [pc EXCEPT ![r] = c], request' = [request EXCEPT ![r] = q],
           since' = [since EXCEPT ![r] = s], rate' = [rate EXCEPT ![r] = v],
           reply' = [x \in Replica |-> reply'[x]], cache' = [x \in Pair |-> cache'[x]],
           Lookup(c, q, s, v)
    PROVE  CallType' /\ SourceInv' /\ LookupInv'
<1>1. pc'[r] = c /\ request'[r] = q /\ since'[r] = s /\ rate'[r] = v
  BY DEF TickerInv, CallType
<1>2. \A x \in Replica \ {r} : /\ pc'[x] = pc[x] /\ request'[x] = request[x]
                               /\ since'[x] = since[x] /\ rate'[x] = rate[x]
  BY DEF TickerInv, CallType
<1>3. CallType'
  BY DEF TickerInv, CallType
<1>4. SourceInv'
  BY DEF TickerInv, SourceInv, Quotes
<1>5. LookupInv'
  <2> SUFFICES ASSUME NEW x \in Replica, NEW d, NEW y, NEW u, NEW w,
                      d = pc'[x], y = request'[x], u = since'[x], w = rate'[x]
               PROVE  Lookup(d, y, u, w)'
    BY DEF LookupInv
  <2>1. Lookup(d, y, u, w)
    <3>1. CASE x = r
      BY <1>1, <3>1
    <3>2. CASE x # r
      BY <1>2, <3>2 DEF TickerInv, LookupInv
    <3> QED BY <3>1, <3>2
  <2> QED BY <2>1 DEF Lookup, SourcedAt
<1> QED BY <1>3, <1>4, <1>5

\* A step that stores no rate keeps the cache sound.
LEMMA CacheStands ==
    ASSUME TickerInv, UNCHANGED <<now, quoted, cache>>
    PROVE  CacheInv'
BY DEF TickerInv, CacheInv, SourcedAt

\* A step that answers nothing keeps the replies sound.
LEMMA RepliesStand ==
    ASSUME TickerInv, UNCHANGED quoted,
           \A r \in Replica : reply'[r] = reply[r] \/ reply'[r] = None
    PROVE  ReplyInv'
BY DEF TickerInv, ReplyInv

\* A replica in the middle of a lookup.
LEMMA InLookup ==
    ASSUME TickerInv, NEW r \in Replica, pc[r] \in Calls
    PROVE  /\ request[r] \in Request /\ request[r].pair \in Pair
           /\ request[r].amount \in Int \cup {None}
           /\ now \in Nat /\ since[r] \in Nat
           /\ since[r] <= now /\ now <= since[r] + Latency
           /\ Lookup(pc[r], request[r], since[r], rate[r])
BY TickerAssumption DEF TickerInv, CallType, LookupInv, Lookup

\* A lookup begins: a hit hands out an entry that has not expired (CacheGet).
LEMMA GetKeeps ==
    ASSUME TickerInv, NEW r \in Replica, NEW q \in Request, CacheGet(r, q)
    PROVE  TickerInv'
<1>1. /\ UNCHANGED <<now, table, cache, quoted>>
      /\ request' = [request EXCEPT ![r] = q]
      /\ since' = [since EXCEPT ![r] = now]
      /\ reply' = [reply EXCEPT ![r] = None]
  BY DEF CacheGet, Begin
<1>2. /\ reply' = [x \in Replica |-> reply'[x]]
      /\ cache' = [x \in Pair |-> cache'[x]]
      /\ \A x \in Replica : reply'[x] = reply[x] \/ reply'[x] = None
  BY <1>1 DEF TickerInv, CallType
<1>3. now \in Nat /\ now <= now + Latency /\ q.pair \in Pair
  BY TickerAssumption DEF TickerInv, CallType
<1>4. CallType' /\ SourceInv' /\ LookupInv'
  <2>1. CASE Hit(q.pair)
    <3> DEFINE v == cache[q.pair].rate
    <3>1. rate' = [rate EXCEPT ![r] = v] /\ pc' = [pc EXCEPT ![r] = "emit"]
      BY <2>1 DEF CacheGet, Goto, _cache_key
    <3>2. PICK t \in Nat : /\ cache[q.pair].expires \in Int
                           /\ cache[q.pair].expires <= t + Latency + TTL
                           /\ SourcedAt(q.pair, v, t)
      BY <1>3, <2>1 DEF Hit, _cache_key, TickerInv, CacheInv
    <3>3. now < t + Latency + TTL
      BY <1>3, <2>1, <3>2, TickerAssumption DEF Hit, _cache_key
    <3> HIDE DEF v
    <3>4. Lookup("emit", q, now, v) /\ "emit" \in Calls
      BY <1>3, <3>2, <3>3 DEF Lookup, Calls
    <3> QED BY <1>1, <1>2, <1>3, <3>1, <3>4, ReplicaStep
  <2>2. CASE ~Hit(q.pair)
    <3>1. pc' = [pc EXCEPT ![r] = "fetch"] /\ rate' = [rate EXCEPT ![r] = rate[r]]
      BY <2>2 DEF CacheGet, Goto, TickerInv, CallType
    <3>2. Lookup("fetch", q, now, rate[r]) /\ "fetch" \in Calls
      BY <1>3 DEF Lookup, Calls
    <3> QED BY <1>1, <1>2, <1>3, <3>1, <3>2, ReplicaStep
  <2> QED BY <2>1, <2>2
<1>5. CacheInv' /\ ReplyInv'
  BY <1>1, <1>2, CacheStands, RepliesStand
<1> QED BY <1>4, <1>5 DEF TickerInv

\* The source answers with what it quotes now, or does not know the pair (Fetch).
LEMMA FetchKeeps ==
    ASSUME TickerInv, NEW r \in Replica, Fetch(r)
    PROVE  TickerInv'
<1>0. pc[r] \in Calls /\ Calls = {"fetch", "stamp", "set", "emit"}
  BY DEF Fetch, Calls
<1>1. /\ UNCHANGED <<now, table, cache, quoted, reply>>
      /\ since' = [since EXCEPT ![r] = since[r]]
      /\ reply' = [x \in Replica |-> reply'[x]]
      /\ cache' = [x \in Pair |-> cache'[x]]
  BY DEF Fetch, TickerInv, CallType
<1>2. CallType' /\ SourceInv' /\ LookupInv'
  <2>1. CASE known(request[r].pair)
    <3> DEFINE p == request[r].pair
               v == <<fetch(table, p), 0>>
    <3>1. /\ rate' = [rate EXCEPT ![r] = v] /\ pc' = [pc EXCEPT ![r] = "stamp"]
          /\ request' = [request EXCEPT ![r] = request[r]]
      BY <2>1 DEF Fetch, Goto, TickerInv, CallType
    <3>2. fetch(table, p) \in Nat
      BY <1>0, <2>1, InLookup, FetchType DEF TickerInv, CallType
    <3>3. <<p, fetch(table, p), now>> \in quoted
      BY <1>0, <2>1, InLookup DEF TickerInv, SourceInv, Quotes
    <3>4. v \in Stamped /\ <<p, v[1], now>> \in quoted
      BY <3>2, <3>3 DEF Stamped
    <3> HIDE DEF v
    <3>5. Lookup("stamp", request[r], since[r], v)
      BY <1>0, <3>4, InLookup DEF Lookup
    <3> QED BY <1>0, <1>1, <3>1, <3>5, InLookup, ReplicaStep
  <2>2. CASE ~known(request[r].pair)
    <3>1. /\ rate' = [rate EXCEPT ![r] = rate[r]] /\ pc' = [pc EXCEPT ![r] = "idle"]
          /\ request' = [request EXCEPT ![r] = None]
      BY <2>2 DEF Fetch, Goto, TickerInv, CallType
    <3>2. Lookup("idle", None, since[r], rate[r])
      BY <1>0 DEF Lookup
    <3> QED BY <1>0, <1>1, <3>1, <3>2, InLookup, ReplicaStep
  <2> QED BY <2>1, <2>2
<1>3. CacheInv' /\ ReplyInv'
  BY <1>1, CacheStands, RepliesStand
<1> QED BY <1>2, <1>3 DEF TickerInv

\* The rate is stamped after the source has answered (Stamp).
LEMMA StampKeeps ==
    ASSUME TickerInv, NEW r \in Replica, Stamp(r)
    PROVE  TickerInv'
<1>0. /\ pc[r] = "stamp" /\ pc[r] \in Calls
      /\ Calls = {"fetch", "stamp", "set", "emit"}
  BY DEF Stamp, Calls
<1>1. /\ UNCHANGED <<now, table, cache, quoted, reply>>
      /\ since' = [since EXCEPT ![r] = since[r]]
      /\ request' = [request EXCEPT ![r] = request[r]]
      /\ pc' = [pc EXCEPT ![r] = "set"]
      /\ reply' = [x \in Replica |-> reply'[x]]
      /\ cache' = [x \in Pair |-> cache'[x]]
  BY DEF Stamp, Goto, TickerInv, CallType
<1> DEFINE v == <<rate[r][1], now>>
<1>2. PICK t \in Nat : /\ rate[r] \in Stamped /\ since[r] <= t /\ t <= now
                       /\ <<request[r].pair, rate[r][1], t>> \in quoted
  BY <1>0, InLookup DEF Lookup
<1>3. rate' = [rate EXCEPT ![r] = v]
  <2>1. [rate[r] EXCEPT ![2] = now] = <<rate[r][1], now>>
    BY <1>2 DEF Stamped
  <2> QED BY <2>1 DEF Stamp
<1>4. SourcedAt(request[r].pair, v, t)
  BY <1>0, <1>2, InLookup, TickerAssumption DEF SourcedAt, Stamped
<1> HIDE DEF v
<1>5. Lookup("set", request[r], since[r], v)
  BY <1>0, <1>2, <1>4, InLookup DEF Lookup
<1>6. CallType' /\ SourceInv' /\ LookupInv'
  BY <1>0, <1>1, <1>3, <1>5, InLookup, ReplicaStep
<1>7. CacheInv' /\ ReplyInv'
  BY <1>1, CacheStands, RepliesStand
<1> QED BY <1>6, <1>7 DEF TickerInv

\* The rate is stored, whatever another replica has stored meanwhile: it was sourced
\* since this lookup began (CacheSet).
LEMMA SetKeeps ==
    ASSUME TickerInv, NEW r \in Replica, CacheSet(r)
    PROVE  TickerInv'
<1>0. /\ pc[r] = "set" /\ pc[r] \in Calls
      /\ Calls = {"fetch", "stamp", "set", "emit"}
  BY DEF CacheSet, Calls
<1> DEFINE p0 == request[r].pair
           entry == [rate |-> rate[r], expires |-> now + TTL]
<1>1. /\ UNCHANGED <<now, table, quoted, reply>>
      /\ since' = [since EXCEPT ![r] = since[r]]
      /\ request' = [request EXCEPT ![r] = request[r]]
      /\ rate' = [rate EXCEPT ![r] = rate[r]]
      /\ pc' = [pc EXCEPT ![r] = "emit"]
      /\ cache' = [cache EXCEPT ![p0] = entry]
      /\ reply' = [x \in Replica |-> reply'[x]]
      /\ cache' = [x \in Pair |-> cache'[x]]
  BY DEF CacheSet, Goto, _cache_key, TickerInv, CallType
<1>2. PICK t \in Nat : since[r] <= t /\ SourcedAt(request[r].pair, rate[r], t)
  BY <1>0, InLookup DEF Lookup
<1>3. Lookup("emit", request[r], since[r], rate[r])
  <2>1. since[r] < t + Latency + TTL
    BY <1>0, <1>2, InLookup, TickerAssumption
  <2> QED BY <1>0, <1>2, <2>1, InLookup DEF Lookup
<1>4. CallType' /\ SourceInv' /\ LookupInv'
  BY <1>0, <1>1, <1>3, InLookup, ReplicaStep
<1>5. CacheInv'
  <2> SUFFICES ASSUME NEW p \in Pair, cache'[p] # None
               PROVE  \E z \in Nat : /\ cache'[p].expires \in Int
                                     /\ cache'[p].expires <= z + Latency + TTL
                                     /\ SourcedAt(p, cache'[p].rate, z)
    BY <1>1 DEF CacheInv, SourcedAt
  <2>1. CASE p = p0
    <3>1. cache'[p] = entry
      BY <1>1, <2>1 DEF TickerInv, CallType
    <3>2. /\ now + TTL \in Int
          /\ now + TTL <= t + Latency + TTL
      BY <1>0, <1>2, InLookup, TickerAssumption
    <3> QED BY <1>2, <2>1, <3>1, <3>2
  <2>2. CASE p # p0
    <3>1. cache'[p] = cache[p]
      BY <1>1, <2>2 DEF TickerInv, CallType
    <3> QED BY <3>1 DEF TickerInv, CacheInv
  <2> QED BY <2>1, <2>2
<1>6. ReplyInv'
  BY <1>1, RepliesStand
<1> QED BY <1>4, <1>5, <1>6 DEF TickerInv

\* The reply: the rate in hand, and the amount at that rate, unless handle raises
\* (Emit).
LEMMA EmitKeeps ==
    ASSUME TickerInv, NEW r \in Replica, Emit(r)
    PROVE  TickerInv'
<1>0. /\ pc[r] = "emit" /\ pc[r] \in Calls
      /\ Calls = {"fetch", "stamp", "set", "emit"}
  BY DEF Emit, Calls
<1> DEFINE v == rate[r]
           q == request[r]
           answer == [pair |-> q.pair, rate |-> v[1], as_of |-> v[2],
                      amount |-> q.amount, at |-> now,
                      converted |-> IF q.amount = None THEN None
                                    ELSE convert_minor(q.amount, v[1])]
<1>1. /\ UNCHANGED <<now, table, cache, quoted>>
      /\ since' = [since EXCEPT ![r] = 0]
      /\ request' = [request EXCEPT ![r] = None]
      /\ rate' = [rate EXCEPT ![r] = None]
      /\ cache' = [x \in Pair |-> cache'[x]]
  BY DEF Emit, TickerInv, CallType
<1>2. CacheInv'
  BY <1>1, CacheStands
<1>3. ASSUME NEW c \in {"idle", "down"} PROVE Lookup(c, None, 0, None)
  BY <1>0, <1>3 DEF Lookup
<1>4. CASE Raises(q, v[1])
  <2>1. pc' = [pc EXCEPT ![r] = "down"] /\ UNCHANGED reply
    BY <1>4 DEF Emit, Goto
  <2>2. reply' = [x \in Replica |-> reply'[x]]
    BY <2>1 DEF TickerInv, CallType
  <2>3. CallType' /\ SourceInv' /\ LookupInv'
    BY <1>1, <1>3, <2>1, <2>2, ReplicaStep
  <2> QED BY <1>1, <1>2, <2>1, <2>3, RepliesStand DEF TickerInv
<1>5. CASE ~Raises(q, v[1])
  <2>1. pc' = [pc EXCEPT ![r] = "idle"] /\ reply' = [reply EXCEPT ![r] = answer]
    BY <1>5 DEF Emit, Goto
  <2>2. /\ reply' = [x \in Replica |-> reply'[x]]
        /\ reply'[r] = answer
        /\ \A x \in Replica \ {r} : reply'[x] = reply[x]
    BY <2>1 DEF TickerInv, CallType
  <2>3. CallType' /\ SourceInv' /\ LookupInv'
    BY <1>1, <1>3, <2>1, <2>2, ReplicaStep
  <2>4. PICK t \in Nat : since[r] < t + Latency + TTL /\ SourcedAt(q.pair, v, t)
    BY <1>0, InLookup DEF Lookup
  <2>5. now < t + TTL + 2 * Latency
    BY <1>0, <2>4, InLookup, TickerAssumption
  <2>6. q.amount # None => Close(q.amount * v[1], convert_minor(q.amount, v[1]))
    <3>1. v[1] \in Nat
      BY <2>4 DEF SourcedAt, Stamped
    <3>2. q.amount # None => q.amount \in Nat
      BY <1>0, <1>5, InLookup DEF Raises
    <3> QED BY <3>1, <3>2, ConvertClose
  <2>7. /\ now \in Nat /\ v[2] \in Nat /\ v[2] <= now
        /\ <<q.pair, v[1], t>> \in quoted
        /\ t <= v[2] /\ v[2] <= t + Latency
    BY <1>0, <2>4, InLookup DEF SourcedAt, Stamped
  <2>8. ReplyInv'
    <3> SUFFICES ASSUME NEW x \in Replica, reply'[x] # None
                 PROVE  LET y == reply'[x] IN
                        /\ y.at \in Nat /\ y.as_of <= y.at
                        /\ \E z \in Nat : /\ <<y.pair, y.rate, z>> \in quoted
                                          /\ z <= y.as_of /\ y.as_of <= z + Latency
                                          /\ y.at < z + TTL + 2 * Latency
                        /\ y.as_of \in Nat
                        /\ y.amount # None => Close(y.amount * y.rate, y.converted)
      BY <1>1 DEF ReplyInv
    <3>1. CASE x = r
      BY <2>2, <2>5, <2>6, <2>7, <3>1
    <3>2. CASE x # r
      BY <2>2, <3>2 DEF TickerInv, ReplyInv
    <3> QED BY <3>1, <3>2
  <2> QED BY <1>2, <2>3, <2>8 DEF TickerInv
<1> QED BY <1>4, <1>5

\* A replica dies or comes back: what it had in hand is gone (Crash, Restart).
LEMMA CrashKeeps ==
    ASSUME TickerInv, NEW r \in Replica, Crash(r) \/ Restart(r)
    PROVE  TickerInv'
<1>1. /\ UNCHANGED <<now, table, cache, quoted, reply>>
      /\ reply' = [x \in Replica |-> reply'[x]]
      /\ cache' = [x \in Pair |-> cache'[x]]
  BY DEF Crash, Restart, TickerInv, CallType
<1>2. CallType' /\ SourceInv' /\ LookupInv'
  <2>1. CASE Crash(r)
    <3>1. Lookup("down", None, 0, None)
      BY DEF Lookup, Calls
    <3> QED BY <1>1, <2>1, <3>1, ReplicaStep DEF Crash, Goto
  <2>2. CASE Restart(r)
    <3>1. Lookup("idle", request[r], since[r], rate[r])
      BY DEF Lookup, Calls
    <3>2. /\ pc' = [pc EXCEPT ![r] = "idle"]
          /\ request' = [request EXCEPT ![r] = request[r]]
          /\ since' = [since EXCEPT ![r] = since[r]]
          /\ rate' = [rate EXCEPT ![r] = rate[r]]
          /\ request[r] \in Request \cup {None} /\ since[r] \in Nat
      BY <2>2 DEF Restart, Goto, TickerInv, CallType
    <3> QED BY <1>1, <3>1, <3>2, ReplicaStep
  <2> QED BY <2>1, <2>2
<1>3. CacheInv' /\ ReplyInv'
  BY <1>1, CacheStands, RepliesStand
<1> QED BY <1>2, <1>3 DEF TickerInv

\* The market moves, or time passes (Move, Tick).
LEMMA WorldKeeps ==
    ASSUME TickerInv, Move \/ Tick
    PROVE  TickerInv'
<1>1. /\ quoted' = quoted \cup Quotes(table', now') /\ now' \in Nat /\ now <= now'
      /\ table' \in [Table -> Rates]
      /\ UNCHANGED <<cache, callVars>>
  BY DEF Move, Tick, TickerInv, CallType
<1>2. ASSUME NEW r \in Replica, pc[r] \in Calls
      PROVE  now' <= since[r] + Latency
  BY <1>2, InLookup, TickerAssumption DEF Move, Tick
<1>3. LookupInv' /\ CacheInv' /\ ReplyInv'
  BY <1>1, <1>2, HistoryGrows
<1>4. CallType'
  BY <1>1 DEF TickerInv, CallType, callVars
<1>5. SourceInv'
  BY <1>1 DEF SourceInv
<1> QED BY <1>3, <1>4, <1>5 DEF TickerInv

\* Every step keeps the invariant.
LEMMA TickerNext == TickerInv /\ [Next]_vars => TickerInv'
<1> SUFFICES ASSUME TickerInv, [Next]_vars PROVE TickerInv'
  OBVIOUS
<1>1. CASE UNCHANGED vars
  <2>1. /\ now' \in Nat /\ now <= now' /\ quoted \subseteq quoted'
        /\ UNCHANGED <<now, table, quoted, cache, callVars>>
    BY <1>1 DEF vars, TickerInv, CallType
  <2>2. ASSUME NEW r \in Replica, pc[r] \in Calls
        PROVE  now' <= since[r] + Latency
    BY <2>1, <2>2, InLookup
  <2>3. LookupInv' /\ CacheInv' /\ ReplyInv'
    BY <2>1, <2>2, HistoryGrows
  <2>4. CallType' /\ SourceInv'
    BY <2>1 DEF TickerInv, CallType, SourceInv, Quotes, callVars
  <2> QED BY <2>3, <2>4 DEF TickerInv
<1> QED BY <1>1, GetKeeps, FetchKeeps, StampKeeps, SetKeeps, EmitKeeps, CrashKeeps,
           WorldKeeps DEF Next, Step, Quiescent

\* The invariant holds in every state.
LEMMA TickerAlways == Spec => []TickerInv
<1>1. Init => TickerInv
  BY DEF Init, TickerInv, CallType, SourceInv, LookupInv, Lookup, Calls, CacheInv,
         ReplyInv
<1> QED BY <1>1, TickerNext, PTL DEF Spec

-----------------------------------------------------------------------------
\* What Ticker answers was the source's rate for that very pair no longer ago than
\* one TTL and two lookups, although a slow replica may overwrite a newer rate in
\* the cache (get_rate).
THEOREM QuotesAreFresh == Spec => []QuoteIsFresh
<1>1. TickerInv => QuoteIsFresh
  <2> SUFFICES ASSUME TickerInv, NEW r \in Replica, reply[r] # None
               PROVE  LET q == reply[r] IN
                      \E t \in (q.at - TTL - 2 * Latency + 1)..q.at :
                          <<q.pair, q.rate, t>> \in quoted
    BY DEF QuoteIsFresh, Replies
  <2> DEFINE q == reply[r]
  <2>1. q.at \in Nat /\ q.as_of \in Nat /\ q.as_of <= q.at
    BY DEF TickerInv, ReplyInv
  <2>2. PICK t \in Nat : /\ <<q.pair, q.rate, t>> \in quoted
                         /\ t <= q.as_of /\ q.at < t + TTL + 2 * Latency
    BY DEF TickerInv, ReplyInv
  <2>3. t \in (q.at - TTL - 2 * Latency + 1)..q.at
    BY <2>1, <2>2, TickerAssumption
  <2> QED BY <2>2, <2>3
<1> QED BY <1>1, TickerAlways, PTL

\* as_of, "epoch seconds the rate was sourced", is late by no more than the lookup
\* took, from the cache too (get_rate, _decode).
THEOREM AsOfIsLateByALookup == Spec => []AsOfIsHonest
<1>1. TickerInv => AsOfIsHonest
  <2> SUFFICES ASSUME TickerInv, NEW r \in Replica, reply[r] # None
               PROVE  LET q == reply[r] IN
                      /\ q.as_of <= q.at
                      /\ \E t \in (q.as_of - Latency)..q.as_of :
                             <<q.pair, q.rate, t>> \in quoted
    BY DEF AsOfIsHonest, Replies
  <2> DEFINE q == reply[r]
  <2>1. q.at \in Nat /\ q.as_of \in Nat /\ q.as_of <= q.at
    BY DEF TickerInv, ReplyInv
  <2>2. PICK t \in Nat : /\ <<q.pair, q.rate, t>> \in quoted
                         /\ t <= q.as_of /\ q.as_of <= t + Latency
    BY DEF TickerInv, ReplyInv
  <2>3. t \in (q.as_of - Latency)..q.as_of
    BY <2>1, <2>2, TickerAssumption
  <2> QED BY <2>1, <2>2, <2>3
<1> QED BY <1>1, TickerAlways, PTL

\* An answered amount is the nearest, halves up, while the product fits the digits of a
\* Decimal, and beyond that off by half a minor unit and half of the product's last
\* digit at most, for every amount, rate, scale and precision (convert_minor, the
\* context's rounding and what emit refuses).
THEOREM ConvertsToNearest == Spec => []ConversionIsNearest
<1>1. TickerInv => ConversionIsNearest
  BY DEF TickerInv, ReplyInv, Close, ConversionIsNearest, Replies
<1> QED BY <1>1, TickerAlways, PTL
=============================================================================
