------------------------------- MODULE Records -------------------------------
(***************************************************************************)
(* The rows of an INSERT on their way from ClickHouse's columns to the     *)
(* document a sink is handed: the columns an INSERT may name               *)
(* (chserver/schema.go), the decoding of a block (chserver/decode.go), the *)
(* JSON of the Stream Load (starrocks/values.go, streamload.go) and of a   *)
(* Kafka message (kafka/kafka.go).                                         *)
(*                                                                         *)
(* The name of a column is a text as in Sql: one word, or three elements   *)
(* with a dot for the second.                                              *)
(***************************************************************************)
EXTENDS Integers, Sequences, SequencesExt

-----------------------------------------------------------------------------
\* insertSchemas: the type of every column an INSERT may name.

Words(words) == {<<w>> : w \in words}
Fields(name, fields) == {<<name, ".", f>> : f \in fields}

\* The type of each name, from the names of each type.
Typed(names) ==
    [n \in UNION {names[t] : t \in DOMAIN names} |-> CHOOSE t \in DOMAIN names : n \in names[t]]

InsertSchemas ==
    [otel_logs |-> Typed(
        [dt64 |-> Words({"Timestamp"}), map |-> Words({"ResourceAttributes", "LogAttributes"}),
         u32 |-> Words({"TraceFlags"}), i32 |-> Words({"SeverityNumber"}),
         str |-> Words({"TraceId", "SpanId", "SeverityText", "ServiceName", "Body"})]),
     otel_traces |-> Typed(
        [dt64 |-> Words({"Timestamp"}), map |-> Words({"ResourceAttributes", "SpanAttributes"}),
         i64 |-> Words({"Duration"}),
         str |-> Words({"TraceId", "SpanId", "ParentSpanId", "TraceState", "SpanName", "SpanKind",
                        "ServiceName", "StatusCode", "StatusMessage"}),
         dt64Arr |-> Fields("Events", {"Timestamp"}),
         strArr |-> Fields("Events", {"Name"})
                    \cup Fields("Links", {"TraceId", "SpanId", "TraceState"}),
         mapArr |-> Fields("Events", {"Attributes"}) \cup Fields("Links", {"Attributes"})]),
     profiling_stacks |-> Typed(
        [str |-> Words({"ServiceName"}), u64 |-> Words({"Hash"}), dt64 |-> Words({"LastSeen"}),
         strArr |-> Words({"Stack"})]),
     profiling_samples |-> Typed(
        [str |-> Words({"ServiceName", "Type"}), dt64 |-> Words({"Start", "End"}),
         map |-> Words({"Labels"}), u64 |-> Words({"StackHash"}), i64 |-> Words({"Value"})])]

NoInsert == [ok |-> FALSE, table |-> <<>>, names |-> <<>>]

\* handleInsert: the table and every column are known.
Known(insert) ==
    /\ insert.table \in Words(DOMAIN InsertSchemas)
    /\ ToSet(insert.names) \subseteq DOMAIN InsertSchemas[insert.table[1]]

Schema(insert) == InsertSchemas[insert.table[1]]

-----------------------------------------------------------------------------
\* Values.

Value(kind, v) == [kind |-> kind, v |-> v]
KindOf == [str |-> "String", dt64 |-> "Time", i32 |-> "Int", i64 |-> "Int", u32 |-> "Uint",
           u64 |-> "Uint"]
ElementType == [strArr |-> "str", dt64Arr |-> "dt64", mapArr |-> "map"]

\* mapValue, and the getters of a single value.
DecodedOne(type, x) ==
    IF type = "map" THEN Value("Map", [k \in DOMAIN x |-> Value("String", x[k])])
    ELSE Value(KindOf[type], x)

\* columnGetter, with strArrValue, timeArrValue, mapArrValue.
Decoded(type, x) ==
    IF type \in DOMAIN ElementType
    THEN Value("Array", [i \in DOMAIN x |-> DecodedOne(ElementType[type], x[i])])
    ELSE DecodedOne(type, x)

\* Mutant of Records: every record has the values of the first row.
FirstRows(insert, block) ==
    [r \in DOMAIN block |->
        [i \in DOMAIN insert.names |->
            Decoded(Schema(insert)[insert.names[i]], block[1][insert.names[i]])]]

\* blockRecords: a record of values for every row of the block.
Records(insert, block) ==
    [r \in DOMAIN block |->
        [i \in DOMAIN insert.names |->
            Decoded(Schema(insert)[insert.names[i]], block[r][insert.names[i]])]]

-----------------------------------------------------------------------------
\* JSON.  A time is a text in the layout 2006-01-02 15:04:05.000000000.

Json(tag, x) == [tag |-> tag, x |-> x]
JsonNull == Json("null", <<>>)

TimeText(ns) == Json("time", ns)

\* Mutant of JsonScalar: there is no case for unsigned numbers.
NoUint(v) ==
    CASE v.kind = "Time" -> TimeText(v.v)
      [] v.kind = "String" -> Json("text", v.v)
      [] v.kind = "Int" -> Json("number", v.v)
      [] OTHER -> JsonNull

\* jsonValue, of both adapters.  Its recursion goes from a list to maps and from
\* a map to texts, and no further.
JsonScalar(v) ==
    CASE v.kind = "Time" -> TimeText(v.v)
      [] v.kind = "String" -> Json("text", v.v)
      [] v.kind \in {"Int", "Uint"} -> Json("number", v.v)

JsonOne(v) ==
    IF v.kind = "Map" THEN Json("object", [k \in DOMAIN v.v |-> JsonScalar(v.v[k])])
    ELSE JsonScalar(v)

\* Mutant of JsonList: what is no []Value is null.
NoList(elems) == JsonNull

JsonList(elems) == Json("list", [i \in DOMAIN elems |-> JsonOne(elems[i])])

JsonValue(v) == IF v.kind = "Array" THEN JsonList(v.v) ELSE JsonOne(v)

\* An object of the values under keys; of equal keys the last one stays.
Object(keys, record) ==
    [k \in ToSet(keys) |-> JsonValue(record[SelectLastInSeq(keys, LAMBDA key : key = k)])]

\* Mutant of JsonKey: dots stay in the key, and part it in the path.
Dotted(name) == name

\* jsonKey: dots become underscores.  (It drops backquotes, which no name of the
\* schemas has.)
JsonKey(name) == [i \in DOMAIN name |-> IF name[i] = "." THEN "_" ELSE name[i]]

\* A load: the path of every column, without the "$." in front, and documents.
StreamLoad(insert, records) ==
    LET keys == [i \in DOMAIN insert.names |-> JsonKey(insert.names[i])]
    IN  [paths |-> [c \in ToSet(insert.names) |-> JsonKey(c)],
         docs |-> [r \in DOMAIN records |-> Object(keys, records[r])]]

\* A Kafka message.
EncodeRecord(insert, record) == Object(insert.names, record)
=============================================================================
