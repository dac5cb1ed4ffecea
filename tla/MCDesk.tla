------------------------------- MODULE MCDesk -------------------------------
(***************************************************************************)
(* Small instances of Desk.                                                *)
(***************************************************************************)
EXTENDS Desk

\* Every graph over these edges stands for a subject of its own: up to three ways from 1
\* to 5, of different lengths, one with a cycle.
Edges == {<<1, 2>>, <<1, 3>>, <<2, 5>>, <<3, 4>>, <<4, 5>>, <<5, 1>>}
Graphs == SUBSET Edges
Own == [g \in Graphs |-> g]
Broken == {<<5, 1>>}

Coercions == {<<"mapper.transform", g, 1, 5, 1>> : g \in Graphs}
Coercion(from, to, payload) == <<"mapper.transform", Edges, from, to, payload>>

\* Records with some of the fields of S, each with one of its values.
Some(S, values(_)) == UNION {{r \in [D -> UNION {values(f) : f \in D}] :
                                  \A f \in D : r[f] \in values(f)} : D \in SUBSET S}

item(f) == CASE f = "sku" -> {Null, Blank, Text} [] f = "unit_price_minor" ->
               {Null, Text, Int_(1405), Int_(-5)} [] OTHER -> {Text}
Items == {<<"mapper.erp.transform", "item", "netsuite", r>> :
              r \in Some({"sku", "name", "unit_price_minor", "notes", "colour"}, item)}

Line(f) == Object(f)
ALines == {Text, Line([sku |-> Text, quantity_delta |-> Int_(0)]),
           Line([sku |-> Text, quantity_delta |-> Null]),
           Line([sku |-> List(<<>>), quantity_delta |-> Int_(0)]),
           Line([sku |-> Text, quantity_delta |-> Int_(3), lot_number |-> Text]),
           Line([sku |-> Text, quantity_delta |-> Int_(3), bin |-> Text])}
adjustment(f) == IF f # "lines" THEN {Text}
                 ELSE {Null, Text, List(<<>>)} \cup {List(<<l>>) : l \in ALines}
                      \cup {List(<<l, k>>) : l, k \in ALines}
Adjustments == {<<"mapper.erp.transform", "adjustment", "netsuite", r>> :
                    r \in Some({"account", "location", "lines"}, adjustment)}

\* One record of each fate.
Whole1 == [sku |-> Text, name |-> Text, unit_price_minor |-> Int_(1405)]
Transfer1 == [location_from |-> Text, location_to |-> Text, memo |-> Null,
              lines |-> List(<<Line([sku |-> Text, quantity |-> Int_(2)])>>)]
Samples == {<<"mapper.erp.transform", "item", "netsuite", Whole1>>,
            <<"mapper.erp.transform", "item", "sap", Whole1>>,
            Coercion(4, 1, 4), Coercion(1, 5, 3)}
MoreSamples == {<<"mapper.erp.transform", "transfer", "netsuite", Transfer1>>,
                Coercion(2, 2, 2), Coercion(5, 5, 1), Coercion(5, 3, 5)}

raw(v, w) == [event_type |-> v, kind |-> w]
Webhooks == {<<"ticker.webhook", raw(Blank, <<"type", "invoice_paid">>)>>,
             <<"ticker.webhook", raw(Null, Int_(7))>>}
MoreWebhooks ==
    {<<"ticker.webhook", raw(<<"type", "credit_memo">>, <<"type", "invoice_paid">>)>>}

Reports == {<<"outcome", <<"ledger", "posted">>, 1>>, <<"outcome", <<"ledger", "rejected">>, 2>>,
            <<"beacon.report.request", 1>>, <<"beacon.report.request", 2>>}

\* Queries: rows, an error of the ERP, and what ends the agent.
Query(filters, reading) == <<"ledger.query.request", filters, reading>>
Rows(kinds) == <<"rows", kinds>>
Queries == {Query("mapping", <<"raised">>), Query("null", Rows(<<"object">>))}
MoreQueries == {Query("mapping", Rows(<<"object", "object">>)),
                Query("mapping", Rows(<<"object", "text">>)), Query("mapping", <<"no rows">>),
                Query("mapping", Rows(<<>>)), Query("null", <<"raised">>)}

Unregistered == {Query("mapping", Rows(<<"object">>))}
Untagged == {<<"beacon.report.request", 3>>, <<"ticker.webhook", raw(<<"type", "paid">>, Null)>>,
             <<"mapper.erp.transform", "transfer", "sap", Transfer1>>}
Unread == {<<"beacon.report.request", 4>>, Coercion(3, 5, 3), <<"ticker.webhook", raw(Null, Null)>>}

Sweep == Coercions \cup Items \cup Adjustments \cup MoreSamples \cup MoreWebhooks
         \cup MoreQueries \cup Untagged \cup Unread
Mixed == Samples \cup Webhooks \cup Reports \cup Queries \cup Unregistered
         \cup {<<"beacon.report.request", 3>>}
=============================================================================
