------------------------------- MODULE MCIngest -------------------------------
(***************************************************************************)
(* An instance of Ingest for TLC, with the header of InsertHeader.         *)
(***************************************************************************)
EXTENDS IngestInvariant, InsertHeader

\* StarRocks with a database and without, Kafka with brokers and without, and a
\* sink there is not.
SomeEnvironments ==
    {[sink |-> "", database |-> "coroot", brokers |-> ""],
     [sink |-> "starrocks", database |-> "", brokers |-> ""],
     [sink |-> "kafka", database |-> "", brokers |-> "k1"],
     [sink |-> "kafka", database |-> "", brokers |-> ""],
     [sink |-> "clickhouse", database |-> "coroot", brokers |-> "k1"]}

\* The columns of a table in some order, without the first of them or of the key, or
\* with one it does not have.
ListOf(S) == FoldSet(LAMBDA e, list : Append(list, e), <<>>, S)
ColumnLists(t) ==
    LET all == ListOf(DOMAIN InsertSchemas[t])
    IN  {all, Reverse(all), Tail(all), Remove(all, <<"ServiceName">>),
         Append(all, <<"NetSockPeerAddr">>), <<>>}

Inserts ==
    [style : Styles, table : {"metrics"}, cols : ColumnLists("otel_logs")]
    \cup UNION {[style : Styles, table : {t}, cols : ColumnLists(t)] : t \in DOMAIN InsertSchemas}

AllHeaders == [w \in Inserts |-> ExtractValues(InsertText(w))]

\* The value of form f in a column: numbers at the ends of their words, times
\* between microseconds, lists and maps of up to two elements, in form 4 with texts
\* that are too long; in form 5 the other texts are.  Forms 0 and 4 have one key.
Ends(low, high) == <<0, 1, high, low, 0, 1>>
Numbers == [i32 |-> Ends(-(2 ^ (Word - 1)), 2 ^ (Word - 1) - 1),
            u32 |-> Ends(2 ^ Word - 1, 2 ^ (Word - 1) - 1),
            i64 |-> Ends(-(2 ^ (2 * Word - 1)), 2 ^ (2 * Word - 1) - 1),
            u64 |-> Ends(2 ^ (2 * Word) - 1, 2 ^ (2 * Word - 1) - 1)]

OfLen(n) == [i \in 1 .. n |-> "x"]

TextOf(n, f) ==
    CASE n = <<"Body">> /\ f \in {3, 4} -> OfLen(IF f = 3 THEN MaxBody ELSE MaxBody + 1)
      [] f \in {0, 4} -> <<>>
      [] f = 5 -> OfLen(MaxText + 1)
      [] OTHER -> Append(n, ToString(f))

MapOf(n, f) ==
    LET long == OfLen(MaxText + 1)
    IN  IF f = 4 THEN IF n = <<"Labels">> THEN long :> n ELSE <<"1">> :> long
        ELSE [k \in {<<ToString(i)>> : i \in 1 .. f % 3} |-> n \o k]

ValueOne(type, n, f) ==
    CASE type \in DOMAIN Numbers -> Numbers[type][f + 1]
      [] type = "dt64" -> 1500 * f
      [] type = "str" -> TextOf(n, f)
      [] type = "map" -> MapOf(n, f)

ValueOf(type, n, f) ==
    CASE type \notin DOMAIN ElementType -> ValueOne(type, n, f)
      [] type = "strArr" /\ f = 4 -> <<OfLen(MaxText + 1)>>
      [] OTHER -> [i \in 1 .. f % 3 |-> ValueOne(ElementType[type], n, f)]

\* Rows of the forms.  A name has the same type in all schemas that have it.
SixRows ==
    LET names == UNION {DOMAIN InsertSchemas[t] : t \in DOMAIN InsertSchemas}
        TableOf(n) == CHOOSE t \in DOMAIN InsertSchemas : n \in DOMAIN InsertSchemas[t]
        Type(n) == InsertSchemas[TableOf(n)][n]
    IN  {[n \in names |-> ValueOf(Type(n), n, f)] : f \in 0 .. 5}
=============================================================================
