------------------------------ MODULE MCTicker ------------------------------
(***************************************************************************)
(* Small instances of Ticker.                                              *)
(***************************************************************************)
EXTENDS Ticker, TLC

Replicas == Permutations(Replica)
Dollars == {<<"USD", "EUR">>}

Price(b, q, n) == [pair |-> <<b, q>>, amount |-> n]

\* With three digits, 1 / 1.2 is 0.833, and 3 at that rate 2.499, held as 2.50; 5 at 0.1
\* is a half and at 1.2 six thousand units, one digit too many.  Then a pair nobody
\* quotes, and what ends the agent: a negative amount, one too long for quantize.
Prices == {Price("USD", "EUR", n) : n \in {-1, 5, 900}} \cup
          {Price("EUR", "USD", 3), Price("EUR", "GBP", None)}
=============================================================================
