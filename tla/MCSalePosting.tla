--------------------------- MODULE MCSalePosting ----------------------------
(***************************************************************************)
(* Small instances of SalePosting.                                         *)
(***************************************************************************)
EXTENDS SalePosting, TLC

Workers == Permutations(Worker)

WorkOrder(tenant, id, price, bps, st) ==
    [id |-> id, tenant |-> tenant, quantity |-> 3, price |-> price, bps |-> bps,
     memo |-> 20, version |-> 1, state |-> st]
Dr(n) == [direction |-> "debit", amount |-> n]
Cr(n) == [direction |-> "credit", amount |-> n]
Message(tenant, id, ls) == [id |-> id, tenant |-> tenant, memo |-> 20, lines |-> ls]

\* Tenant "a" with work order "b:x", tenant "a:b" with work order "x".
ColonSales == {WorkOrder(<<"a">>, <<"b", ":", "x">>, 4, 0, "created"),
               WorkOrder(<<"a", ":", "b">>, <<"x">>, 5, 0, "created")}
LongSale == {[WorkOrder(<<"a">>, <<"v">>, 1, 0, "created") EXCEPT !.memo = 281]}

\* A taxed sale whose tax is rounded down, and an untaxed one of another tenant.
PlainSales == {WorkOrder(<<"a">>, <<"x">>, 41, 825, "created"),
               WorkOrder(<<"b">>, <<"x">>, 5, 0, "in_progress")}
\* Also one for nothing, one already cancelled, one of a schema version nobody
\* registered, one whose memo is too long, and two that share an entry id.
MixedOrders == {[WorkOrder(<<"a">>, <<"w">>, 1, 0, "created") EXCEPT !.version = 2],
                WorkOrder(<<"a">>, <<"y">>, 0, 825, "created"),
                WorkOrder(<<"a">>, <<"z">>, 1, 0, "cancelled")}
               \cup PlainSales \cup LongSale \cup ColonSales

\* A split posting under the id of another tenant's sale, an entry that does not balance,
\* one without a tenant, a malformed one.
MixedForeign == {Message(<<"a">>, <<"b", ":", "x">>, <<Dr(2), Cr(1), Cr(1)>>),
                 Message(<<"a">>, <<"z">>, <<Dr(2), Cr(1)>>),
                 Message(<<>>, <<"z">>, <<Dr(2), Cr(2)>>),
                 Message(<<"a">>, <<"z">>, <<Dr(2)>>)}
NoForeign == {}
=============================================================================
