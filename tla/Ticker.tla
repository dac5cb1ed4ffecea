------------------------------- MODULE Ticker -------------------------------
(***************************************************************************)
(* Exchange rates through a read-through cache (ticker/ticker.py, the      *)
(* handler of ticker/agent.py): replicas share the cache in Redis, a lookup*)
(* that misses asks the rate source and stores the answer for TTL.         *)
(*                                                                         *)
(* get_rate is cut at each call that leaves the process, so the source may *)
(* move, and another replica may store a rate, between any two of them.    *)
(* The code sets no deadline on those calls; Latency stands for how long   *)
(* the environment lets them take.  A rate is an integer in units of       *)
(* 1/Scale, an amount in minor units.  Decimal arithmetic keeps the digits *)
(* of its context, 28 in the code and log10(Limit) here, and rounds what   *)
(* is longer to even before the code rounds it again.                      *)
(* A request is one that _dispatch has let through: as shipped             *)
(* ticker.price.request has no schema (Desk has that path).                *)
(***************************************************************************)
EXTENDS Integers

CONSTANTS Replica,
          Currency,
          Table,        \* pairs the source quotes; it derives the inverse ones
          Rates,        \* rates the source may quote, in units of 1/Scale
          Scale,
          Limit,        \* 10 to the precision of the Decimal context
          Unit,         \* the places a long result is rounded to: 1, 10, ... Scale
          Scientific,   \* rates str() writes with an exponent: 1 / 0.1 is '1E+1'
          Code,         \* the currencies written as ^[A-Z]{3}$
          Request,      \* requests: [pair, amount], amount_minor None if absent
          TTL,          \* ttl_seconds, in ticks
          Latency,      \* environment: longest get_rate, in ticks
          None,
          MaxTime, MaxMoves, MaxRequests, MaxCrashes    \* bounds

Pair == Currency \X Currency

ASSUME TickerAssumption ==
    /\ Table \subseteq {p \in Pair : p[1] # p[2]}
    /\ Scale \in Nat \ {0} /\ Rates \subseteq Nat \ {0}
    /\ Limit \in Nat \ {0} /\ Unit \subseteq Nat \ {0} /\ 1 \in Unit
    /\ \A u \in Unit : u # 1 => u % 10 = 0 /\ u \div 10 \in Unit
    /\ \A t \in Rates : Limit * t <= 10 * Scale * Scale   \* Scale holds an inverse
    /\ Request \subseteq [pair : Pair, amount : Int \cup {None}]
    /\ TTL \in Nat \ {0} /\ Latency \in Nat
    /\ None \notin Request
    /\ MaxTime \in Nat /\ MaxMoves \in Nat /\ MaxRequests \in Nat /\ MaxCrashes \in Nat

VARIABLES now,
          table,        \* the source's rate for each pair of Table
          cache,        \* Redis: [rate, as_of, expires] of each key, or None
          pc, request,  \* each replica: next call, the request it handles
          since,        \* when its lookup began
          rate,         \* the Rate in hand: [rate, as_of]
          reply,        \* the ticker.price it last emitted, None since a new request
          quoted,       \* history: <<pair, rate, t>> the source quoted at time t
          moves, requests, crashes

callVars == <<pc, request, since, rate, reply>>
vars == <<now, table, cache, callVars, quoted, moves, requests, crashes>>

-----------------------------------------------------------------------------
(* Pure parts.                                                             *)

\* n / d to the nearest integer, for n >= 0 and d > 0: halves up, and halves to even.
round_half_up(n, d) == (2 * n + d) \div (2 * d)
round_half_even(n, d) ==
    LET c == n \div d
        rest == 2 * (n - c * d)
    IN IF rest > d \/ (rest = d /\ c % 2 = 1) THEN c + 1 ELSE c

\* The place of the last digit the context keeps of n / d.
ulp(n, d) ==
    LET last(u) == n < Limit * u * d /\ (u = 1 \/ Limit * (u \div 10) * d <= n)
    IN IF \E u \in Unit : last(u) THEN CHOOSE u \in Unit : last(u) ELSE 1

\* The result n / d of a Decimal operation.
decimal(n, d) == ulp(n, d) * round_half_even(n, ulp(n, d) * d)

\* Mutant of convert_minor: int() of the product, without quantize.
convert_minor_truncated(amount, r) == decimal(amount * r, 1) \div Scale

\* Rate.convert_minor with ROUND_HALF_UP of an amount that is not negative: the
\* product is a Decimal, rounded before quantize rounds it.
convert_minor(amount, r) == round_half_up(decimal(amount * r, 1), Scale)

known(p) == p[1] = p[2] \/ p \in Table \/ <<p[2], p[1]>> \in Table

\* StaticRateSource.fetch of a known pair: identity, the table, or 1 / inverse.
fetch(tab, p) ==
    IF p[1] = p[2] THEN Scale
    ELSE IF p \in Table THEN tab[p]
    ELSE decimal(Scale * Scale, tab[<<p[2], p[1]>>])

_cache_key(p) == p

\* What the source would answer to the requests at time t.
Quotes(tab, t) ==
    {<<p, fetch(tab, p), t>> : p \in {p \in {q.pair : q \in Request} : known(p)}}

-----------------------------------------------------------------------------
Rate == Nat \X (0..MaxTime)
Calls == {"fetch", "stamp", "set", "emit"}

TypeOK ==
    /\ now \in 0..MaxTime
    /\ table \in [Table -> Rates]
    /\ \A p \in Pair : cache[p] = None \/
           /\ cache[p].rate \in Rate /\ cache[p].rate[1] > 0
           /\ cache[p].rate[2] <= now /\ cache[p].expires \in 0..(MaxTime + TTL)
    /\ pc \in [Replica -> Calls \cup {"idle", "down"}]
    /\ \A r \in Replica : pc[r] \in Calls <=> request[r] \in Request
    /\ since \in [Replica -> 0..MaxTime]
    /\ \A r \in Replica : pc[r] = "emit" => rate[r] \in Rate /\ rate[r][2] <= now
    /\ moves \in 0..MaxMoves /\ requests \in 0..MaxRequests
    /\ crashes \in 0..MaxCrashes

Init ==
    /\ now = 0 /\ table \in [Table -> Rates]
    /\ cache = [p \in Pair |-> None]
    /\ pc = [r \in Replica |-> "idle"] /\ request = [r \in Replica |-> None]
    /\ since = [r \in Replica |-> 0] /\ rate = [r \in Replica |-> None]
    /\ reply = [r \in Replica |-> None]
    /\ quoted = Quotes(table, 0)
    /\ moves = 0 /\ requests = 0 /\ crashes = 0

Goto(r, step) == pc' = [pc EXCEPT ![r] = step]

\* The market moves.
Move ==
    /\ moves < MaxMoves /\ moves' = moves + 1
    /\ table' \in [Table -> Rates] /\ table' # table
    /\ quoted' = quoted \cup Quotes(table', now)
    /\ UNCHANGED <<now, cache, callVars, requests, crashes>>

\* Time passes, while no call of a get_rate is out for longer than Latency.
Tick ==
    /\ now < MaxTime /\ now' = now + 1
    /\ \A r \in Replica : pc[r] \in Calls => now - since[r] < Latency
    /\ quoted' = quoted \cup Quotes(table, now')
    /\ UNCHANGED <<table, cache, callVars, moves, requests, crashes>>

-----------------------------------------------------------------------------
(* A replica.                                                              *)

Hit(p) == cache[_cache_key(p)] # None /\ now < cache[_cache_key(p)].expires

\* A replica takes the next request, its previous reply gone.
Begin(r, q) ==
    /\ pc[r] = "idle"
    /\ requests < MaxRequests /\ requests' = requests + 1
    /\ request' = [request EXCEPT ![r] = q]
    /\ reply' = [reply EXCEPT ![r] = None]
    /\ since' = [since EXCEPT ![r] = now]

\* Mutant of CacheGet: a hit renews the entry.
CacheGet_renews(r, q) ==
    /\ Begin(r, q)
    /\ IF Hit(q.pair)
       THEN /\ rate' = [rate EXCEPT ![r] = cache[_cache_key(q.pair)].rate]
            /\ cache' = [cache EXCEPT ![_cache_key(q.pair)].expires = now + TTL]
            /\ Goto(r, "emit")
       ELSE Goto(r, "fetch") /\ UNCHANGED <<rate, cache>>
    /\ UNCHANGED <<now, table, quoted, moves, crashes>>

\* Mutant of CacheGet: a hit is stamped with the time it is served.
CacheGet_restamps(r, q) ==
    /\ Begin(r, q)
    /\ IF Hit(q.pair)
       THEN /\ rate' = [rate EXCEPT ![r] = <<cache[_cache_key(q.pair)].rate[1], now>>]
            /\ Goto(r, "emit")
       ELSE Goto(r, "fetch") /\ UNCHANGED rate
    /\ UNCHANGED <<now, table, cache, quoted, moves, crashes>>

\* handle of a ticker.price.request, up to cache.get and _decode of a hit.
CacheGet(r, q) ==
    /\ Begin(r, q)
    /\ IF Hit(q.pair)
       THEN rate' = [rate EXCEPT ![r] = cache[_cache_key(q.pair)].rate] /\ Goto(r, "emit")
       ELSE Goto(r, "fetch") /\ UNCHANGED rate
    /\ UNCHANGED <<now, table, cache, quoted, moves, crashes>>

\* The source answers, or raises RateNotFound: a warning, and no reply.
Fetch(r) ==
    /\ pc[r] = "fetch"
    /\ IF known(request[r].pair)
       THEN /\ rate' = [rate EXCEPT ![r] = <<fetch(table, request[r].pair), 0>>]
            /\ Goto(r, "stamp") /\ UNCHANGED request
       ELSE /\ Goto(r, "idle") /\ request' = [request EXCEPT ![r] = None]
            /\ UNCHANGED rate
    /\ UNCHANGED <<now, table, cache, since, reply, quoted, moves, requests, crashes>>

\* as_of=self._clock(), read when fetch has returned.
Stamp(r) ==
    /\ pc[r] = "stamp"
    /\ rate' = [rate EXCEPT ![r][2] = now]
    /\ Goto(r, "set")
    /\ UNCHANGED <<now, table, cache, request, since, reply, quoted, moves, requests,
                   crashes>>

\* SETEX, whatever another replica has stored meanwhile.
CacheSet(r) ==
    /\ pc[r] = "set"
    /\ cache' = [cache EXCEPT ![_cache_key(request[r].pair)] =
                    [rate |-> rate[r], expires |-> now + TTL]]
    /\ Goto(r, "emit")
    /\ UNCHANGED <<now, table, request, since, rate, reply, quoted, moves, requests,
                   crashes>>

\* What raises out of handle: a converted amount with more digits than quantize may
\* return, and what ticker.price.v1 refuses in emit, a negative amount, a rate with an
\* exponent, a currency that is not three capitals.
Raises(q, v) ==
    \/ q.amount # None /\ (q.amount < 0 \/ convert_minor(q.amount, v) >= Limit)
    \/ v \in Scientific \/ q.pair \notin Code \X Code

\* The rest of handle: the ticker.price goes out, or an exception ends the agent.
Emit(r) ==
    /\ pc[r] = "emit"
    /\ LET q == request[r]
           v == rate[r][1]
       IN IF Raises(q, v) THEN Goto(r, "down") /\ UNCHANGED reply
          ELSE /\ reply' = [reply EXCEPT ![r] =
                      [pair |-> q.pair, rate |-> v, as_of |-> rate[r][2],
                       amount |-> q.amount, at |-> now,
                       converted |-> IF q.amount = None THEN None
                                     ELSE convert_minor(q.amount, v)]]
               /\ Goto(r, "idle")
    /\ request' = [request EXCEPT ![r] = None]
    /\ rate' = [rate EXCEPT ![r] = None] /\ since' = [since EXCEPT ![r] = 0]
    /\ UNCHANGED <<now, table, cache, quoted, moves, requests, crashes>>

\* The replica dies: an exception of Redis or of the source, or the process itself.
Crash(r) ==
    /\ pc[r] # "down"
    /\ crashes < MaxCrashes /\ crashes' = crashes + 1
    /\ Goto(r, "down") /\ request' = [request EXCEPT ![r] = None]
    /\ rate' = [rate EXCEPT ![r] = None] /\ since' = [since EXCEPT ![r] = 0]
    /\ UNCHANGED <<now, table, cache, reply, quoted, moves, requests>>

Restart(r) ==
    /\ pc[r] = "down"
    /\ Goto(r, "idle")
    /\ UNCHANGED <<now, table, cache, request, since, rate, reply, quoted, moves,
                   requests, crashes>>

Step(r) == Fetch(r) \/ Stamp(r) \/ CacheSet(r) \/ Emit(r) \/ Restart(r)

\* The bounds are reached: not a deadlock.
Quiescent == /\ now = MaxTime /\ requests = MaxRequests
             /\ \A r \in Replica : pc[r] = "idle"
             /\ UNCHANGED vars

Next == \/ Move \/ Tick \/ Quiescent
        \/ \E r \in Replica : Step(r) \/ Crash(r) \/ \E q \in Request : CacheGet(r, q)

Spec == Init /\ [][Next]_vars

-----------------------------------------------------------------------------
Replies == {reply[r] : r \in Replica} \ {None}

\* "fresh enough for pricing": what Ticker answers was the source's rate for that very
\* pair no longer ago than one TTL and the lookups of who stored it and of who serves it,
\* although a slow replica may overwrite a newer rate in the cache (get_rate).
QuoteIsFresh ==
    \A q \in Replies : \E t \in (q.at - TTL - 2 * Latency + 1)..q.at :
        <<q.pair, q.rate, t>> \in quoted

\* as_of, "epoch seconds the rate was sourced", is late by no more than the lookup
\* took: the clock is read after the source has answered.
AsOfIsHonest ==
    \A q \in Replies : /\ q.as_of <= q.at
                       /\ \E t \in (q.as_of - Latency)..q.as_of :
                              <<q.pair, q.rate, t>> \in quoted

\* What is answered is the minor amount nearest to amount * rate, halves up, as long as
\* the product has no more digits than a Decimal keeps; beyond that the two roundings of
\* convert_minor may add up, but the answer is never further off than half a minor unit
\* and half a unit of the product's last digit.  No answer is negative.
ConversionIsNearest ==
    \A q \in {q \in Replies : q.amount # None} :
        LET exact == q.amount * q.rate                \* in units of 1/Scale
            error == exact - q.converted * Scale
        IN /\ q.converted >= 0
           /\ exact < Limit => -Scale <= 2 * error /\ 2 * error < Scale
           /\ Limit * (2 * error - Scale) <= 10 * exact
           /\ Limit * (-2 * error - Scale) <= 10 * exact
=============================================================================
