--------------------------- MODULE RecordMapping ----------------------------
(***************************************************************************)
(* The Cavi -> NetSuite mapping tables and what applies them               *)
(* (mapper/netsuite_records.py), as pure operators.                        *)
(*                                                                         *)
(* A record, or an object among its lines, is a function from field names  *)
(* to values; a value is a tuple that begins with its type.  Gaps, a list  *)
(* of sentences in the code, are a set of <<problem, path>>.               *)
(***************************************************************************)
EXTENDS Integers, Sequences

Null == <<"null">>                      \* None
Blank == <<"blank">>                    \* ""
Text == <<"text">>                      \* any other string
Int_(n) == <<"int", n>>
List(s) == <<"list", s>>
Object(f) == <<"object", f>>

get(f, k) == IF k \in DOMAIN f THEN f[k] ELSE Null

-----------------------------------------------------------------------------
(* The tables.                                                             *)

NoLines == [f \in {} |-> {}]

ITEM == [fields |-> [sku |-> "itemId", name |-> "displayName", upc |-> "upcCode",
                     shelf_life_days |-> "shelfLife", unit_price_minor |-> "basePrice"],
         required |-> {"sku", "name"}, money |-> {"unit_price_minor"},
         unmapped |-> {"item_id", "notes"}, lines |-> NoLines]

ADJUSTMENT_LINES ==
    [target |-> "inventory", required |-> {"sku", "quantity_delta"},
     fields |-> [sku |-> "item", quantity_delta |-> "adjustQtyBy",
                 lot_number |-> "receiptInventoryNumber", expiry_date |-> "expirationDate"]]

ADJUSTMENT == [fields |-> [account |-> "account", location |-> "adjLocation", memo |-> "memo"],
               required |-> {"account", "location", "lines"}, money |-> {},
               unmapped |-> {"adjustment_id", "counted_by"},
               lines |-> [lines |-> ADJUSTMENT_LINES]]

TRANSFER_LINES ==
    [target |-> "item", required |-> {"sku", "quantity"},
     fields |-> [sku |-> "item", quantity |-> "quantity",
                 lot_number |-> "issueInventoryNumber"]]

TRANSFER == [fields |-> [location_from |-> "location", location_to |-> "transferLocation",
                         expected_ship_date |-> "shipDate", memo |-> "memo"],
             required |-> {"location_from", "location_to", "lines"}, money |-> {},
             unmapped |-> {"transfer_id"}, lines |-> [lines |-> TRANSFER_LINES]]

NETSUITE_RECORD_MAPPINGS ==
    [item |-> ITEM, adjustment |-> ADJUSTMENT, transfer |-> TRANSFER]

-----------------------------------------------------------------------------
(* apply.                                                                  *)

\* str(Decimal(value) / 100) of an integer: sign, units and hundredths.
_minor_to_major(n) ==
    LET abs == IF n < 0 THEN -n ELSE n
    IN <<"decimal", IF n < 0 THEN "-" ELSE "+", abs \div 100, abs % 100>>

\* The fields that travel, under their target names.  A converter is there only for
\* money.
carried(fields, money, rec) ==
    LET sent == {f \in DOMAIN fields \cap DOMAIN rec : rec[f] # Null}
        source(t) == CHOOSE f \in sent : fields[f] = t
    IN [t \in {fields[f] : f \in sent} |->
           IF source(t) \in money THEN _minor_to_major(rec[source(t)][2]) ELSE rec[source(t)]]

\* Mutant of undeclared: what the table does not know is skipped.
undeclared_skipped(declared, rec) == {}

\* Fields in neither set block the mapping.
undeclared(declared, rec) == DOMAIN rec \ declared

required_gaps(required, rec, empties) ==
    {f \in required : get(rec, f) \in empties}

\* The gaps of one element of a list field.
line_gaps(lm, line, path) ==
    IF line[1] # "object" THEN {<<"object", path>>}
    ELSE {<<"required", path, f>> : f \in required_gaps(lm.required, line[2], {Null, Blank})}
         \cup {<<"undeclared", path, f>> : f \in undeclared(DOMAIN lm.fields, line[2])}

\* LineMapping.apply: its gaps, and the lines when there are none.
apply_lines(lm, value, name) ==
    IF value[1] # "list" \/ value = List(<<>>)
    THEN [gaps |-> {<<"non-empty list", name>>}, out |-> <<>>]
    ELSE LET lines == value[2]
             gaps == UNION {line_gaps(lm, lines[i], <<name, i>>) : i \in DOMAIN lines}
         IN [gaps |-> gaps,
             out |-> IF gaps # {} THEN <<>>
                     ELSE [i \in DOMAIN lines |-> carried(lm.fields, {}, lines[i][2])]]

\* RecordMapping.apply: the output, every gap, or the field whose converter raised --
\* and then no gap, for the conversion comes before `if gaps`.
apply(m, rec) ==
    LET declared == DOMAIN m.fields \cup m.unmapped \cup DOMAIN m.lines
        raising == {f \in m.money \cap DOMAIN rec : rec[f] # Null /\ rec[f][1] # "int"}
        listed == DOMAIN m.lines \cap DOMAIN rec
        lines(f) == apply_lines(m.lines[f], rec[f], f)
        gaps == {<<"required", f>> : f \in required_gaps(m.required, rec,
                                                         {Null, Blank, List(<<>>)})}
                \cup {<<"undeclared", f>> : f \in undeclared(declared, rec)}
                \cup UNION {lines(f).gaps : f \in listed}
        field(t) == CHOOSE f \in listed : m.lines[f].target = t
        targets == {m.lines[f].target : f \in listed}
        scalars == carried(m.fields, m.money, rec)
    IN IF raising # {} THEN <<"raised", raising>>
       ELSE IF gaps # {} THEN <<"blocked", gaps>>
       ELSE <<"output", [t \in targets \cup DOMAIN scalars |->
                            IF t \in targets THEN List(lines(field(t)).out)
                            ELSE scalars[t]]>>
=============================================================================
