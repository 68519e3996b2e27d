-------------------------------- MODULE Ingest --------------------------------
(***************************************************************************)
(* What becomes of the rows of an INSERT: from the text Coroot writes,     *)
(* through hermeneus and the sink its environment names, into the tables   *)
(* of src/migrations.  How a Write may fail on the way is the matter of    *)
(* InsertSink; here a load fails only for what is in its rows.  StarRocks  *)
(* (external) is as its loads are left to be by hermeneus: not strict, and *)
(* without a row that may be filtered.                                     *)
(***************************************************************************)
EXTENDS Records

CONSTANTS
    Environments,   \* the HERMENEUS_* variables, "" where one is not set
    Headers,        \* what ExtractValues makes of each INSERT of Coroot's
    CorootRows,     \* rows, with a value for every column of a schema
    MaxRows,        \* bound: rows of the block
    Word,           \* bound: the bits that stand for 32; twice as many are 64
    MaxText,        \* bound: the length that stands for VARCHAR(65533)
    MaxBody         \* bound: the length that stands for VARCHAR(1048576)

InWord(x, bits) == -(2 ^ (bits - 1)) <= x /\ x < 2 ^ (bits - 1)

\* StarRocks' integers are signed: what a column of the width of its type cannot hold.
Overflows(type, x) ==
    \/ type = "u32" /\ ~InWord(x, Word)
    \/ type = "u64" /\ ~InWord(x, 2 * Word)

\* The values of a type.
IsOf(type, x) ==
    CASE type = "str" -> TRUE
      [] type = "dt64" -> x \in Int
      [] type = "i32" -> x \in Int /\ InWord(x, Word)
      [] type = "i64" -> x \in Int /\ InWord(x, 2 * Word)
      [] type = "u32" -> x \in Nat /\ x < 2 ^ Word
      [] type = "u64" -> x \in Nat /\ x < 2 ^ (2 * Word)
      [] type = "map" -> x = [k \in DOMAIN x |-> x[k]]
      [] type = "strArr" -> x \in Seq(ToSet(x))
      [] type = "dt64Arr" -> x \in Seq(Int)
      [] type = "mapArr" ->
            x \in Seq(ToSet(x)) /\ \A i \in DOMAIN x : x[i] = [k \in DOMAIN x[i] |-> x[i][k]]

ASSUME IngestAssumption ==
    /\ MaxRows \in Nat
    /\ \A w \in DOMAIN Headers : Headers[w].names \in Seq(ToSet(Headers[w].names))
    /\ \A t \in DOMAIN InsertSchemas : \A n \in DOMAIN InsertSchemas[t] : \A row \in CorootRows :
           n \in DOMAIN row /\ IsOf(InsertSchemas[t][n], row[n])

VARIABLES
    env,        \* the environment
    config,     \* what FromEnv makes of it
    written,    \* the INSERT as Coroot means it: table, columns, and style of its text
    pc,
    insert,     \* the INSERT as handleInsert reads it
    block,      \* the rows of the block, as Coroot means them
    topic,      \* messages the Routine Load of the table has yet to take
    table,      \* rows of the table in StarRocks
    stopped     \* the Routine Load is paused, for a row that was refused

\* topic and table are functions: each message and each row has the number its row
\* has in the block.
vars == <<env, config, written, pc, insert, block, topic, table, stopped>>

-----------------------------------------------------------------------------
\* Configuration.

Or(value, default) == IF value = "" THEN default ELSE value

Default ==
    [sink |-> "starrocks", database |-> "", brokers |-> "",
     topics |-> {<<t>> : t \in {"otel_logs", "otel_traces", "profiling_stacks",
                                "profiling_samples"}}]

\* FromEnv, of StarRocks' database and the choice of a sink.
FromEnv(e) ==
    [Default EXCEPT !.sink = Or(e.sink, @), !.database = Or(e.database, @),
                    !.brokers = Or(e.brokers, @)]

-----------------------------------------------------------------------------
\* StarRocks: the tables and Routine Loads of src/migrations.

LogsTable == Typed(
    [DATETIME |-> Words({"Timestamp"}), MAP |-> Words({"ResourceAttributes", "LogAttributes"}),
     INT |-> Words({"TraceFlags", "SeverityNumber"}),
     VARCHAR |-> Words({"TraceId", "SpanId", "SeverityText", "ServiceName"}),
     LONG |-> Words({"Body"})])

TracesTable == Typed(
    [DATETIME |-> Words({"Timestamp"}), MAP |-> Words({"ResourceAttributes", "SpanAttributes"}),
     BIGINT |-> Words({"Duration"}),
     VARCHAR |-> Words({"TraceId", "SpanId", "ParentSpanId", "TraceState", "SpanName", "SpanKind",
                        "ServiceName", "StatusCode", "StatusMessage", "NetSockPeerAddr"}),
     DATETIMES |-> Fields("Events", {"Timestamp"}), VARCHARS |-> Fields("Events", {"Name"}),
     MAPS |-> Fields("Events", {"Attributes"})])

StacksTable == Typed(
    [VARCHAR |-> Words({"ServiceName"}), BIGINT |-> Words({"Hash"}),
     DATETIME |-> Words({"LastSeen"}), VARCHARS |-> Words({"Stack"})])

SamplesTable == Typed(
    [VARCHAR |-> Words({"ServiceName", "Type"}), DATETIME |-> Words({"Start", "End"}),
     MAP |-> Words({"Labels"}), BIGINT |-> Words({"StackHash", "Value"})])

Tables == [otel_logs |-> LogsTable, otel_traces |-> TracesTable,
           profiling_stacks |-> StacksTable, profiling_samples |-> SamplesTable]

Columns == Tables[insert.table[1]]

\* The columns of the PRIMARY KEY; only one table has any.
Key == IF insert.table = <<"profiling_stacks">> THEN Words({"ServiceName", "Hash"}) ELSE {}

\* Of the arrays.
ElementOf == [DATETIMES |-> "DATETIME", VARCHARS |-> "VARCHAR", MAPS |-> "MAP"]

\* The lengths of texts.
Short(text, limit) == Len(text) <= limit
Limits == [VARCHAR |-> MaxText, LONG |-> MaxBody]

\* A column of a type can hold what a JSON value says.
FitsScalar(type, json) ==
    \/ json.tag = "null"
    \/ type = "DATETIME" /\ json.tag = "time"
    \/ type \in DOMAIN Limits /\ json.tag = "text" /\ Short(json.x, Limits[type])
    \/ type = "INT" /\ json.tag = "number" /\ InWord(json.x, Word)
    \/ type = "BIGINT" /\ json.tag = "number" /\ InWord(json.x, 2 * Word)

FitsOne(type, json) ==
    \/ FitsScalar(type, json)
    \/ type = "MAP" /\ json.tag = "object"
       /\ \A k \in DOMAIN json.x : Short(k, MaxText) /\ FitsScalar("VARCHAR", json.x[k])

Fits(type, json) ==
    \/ FitsOne(type, json)
    \/ type \in DOMAIN ElementOf /\ json.tag = "list"
       /\ \A i \in DOMAIN json.x : FitsOne(ElementOf[type], json.x[i])

\* What the column then holds: microseconds of a time, and nothing for null.
HeldScalar(json) == IF json.tag = "time" THEN json.x \div 1000 ELSE json.x

HeldOne(json) ==
    IF json.tag = "object" THEN [k \in DOMAIN json.x |-> HeldScalar(json.x[k])]
    ELSE HeldScalar(json)

Held(json) ==
    IF json.tag = "list" THEN [i \in DOMAIN json.x |-> HeldOne(json.x[i])] ELSE HeldOne(json)

Nothing == <<>>
Cell(json) == IF json.tag = "null" THEN Nothing ELSE <<Held(json)>>

\* A path goes down one object at a dot; there is one dot at most.
Under(json, key) ==
    IF json.tag = "object" /\ key \in DOMAIN json.x THEN json.x[key] ELSE JsonNull

At(doc, path) ==
    LET root == Json("object", doc)
        dot == SelectInSeq(path, LAMBDA ch : ch = ".")
    IN  IF dot = 0 THEN Under(root, path)
        ELSE Under(Under(root, SubSeq(path, 1, dot - 1)), SubSeq(path, dot + 1, Len(path)))

\* The JSON a load has for a column of the table.
Found(load, doc, column) ==
    IF column \in DOMAIN load.paths THEN At(doc, load.paths[column]) ELSE JsonNull

\* The row of a document: what does not fit its column is NULL, as strict_mode is
\* not set.
RowOf(load, doc) ==
    [c \in DOMAIN Columns |->
        LET json == Found(load, doc, c) IN IF Fits(Columns[c], json) THEN Cell(json) ELSE Nothing]

\* A NULL in the key is refused.
Refused(load, doc) == \E c \in Key : RowOf(load, doc)[c] = Nothing

\* A row with a text that is too long may be, too.
Refusable(load, doc) ==
    \/ Refused(load, doc)
    \/ \E c \in DOMAIN Columns :
          Columns[c] \notin {"INT", "BIGINT"} /\ ~Fits(Columns[c], Found(load, doc, c))

\* Two rows of which the table keeps one.
SameKey(a, b) == Key # {} /\ \A c \in Key : a[c] = b[c]

\* CREATE ROUTINE LOAD: every column of the table, at the path of its own name.
RoutineLoad(message) == [paths |-> [c \in DOMAIN Columns |-> c], docs |-> <<message>>]

-----------------------------------------------------------------------------
Init ==
    /\ env \in Environments
    /\ written \in DOMAIN Headers
    /\ config = Default /\ pc = "start" /\ insert = NoInsert
    /\ block = <<>> /\ topic = <<>> /\ table = <<>> /\ stopped = FALSE

\* main: an unknown sink ends the process.
Start ==
    /\ pc = "start"
    /\ config' = FromEnv(env)
    /\ pc' = IF config'.sink \in {"starrocks", "kafka"} THEN "insert" ELSE "exited"
    /\ UNCHANGED <<env, written, insert, block, topic, table, stopped>>

\* handleInsert up to the header.
ReadInsert ==
    /\ pc = "insert"
    /\ insert' = Headers[written]
    /\ pc' = IF insert'.ok /\ Known(insert') THEN "block" ELSE "rejected"
    /\ UNCHANGED <<env, config, written, block, topic, table, stopped>>

\* Coroot's rows, under the columns of the header.
SendBlock ==
    /\ pc = "block"
    /\ \E rows \in UNION {[1 .. n -> CorootRows] : n \in 1 .. MaxRows} :
           block' = [r \in DOMAIN rows |-> [n \in ToSet(insert.names) |-> rows[r][n]]]
    /\ pc' = "write"
    /\ UNCHANGED <<env, config, written, insert, topic, table, stopped>>

\* The Stream Load of all rows, which go in together, one of each key.  There is no
\* URL without a database.
WriteToStarRocks ==
    LET load == StreamLoad(insert, Records(insert, block))
        rows == [d \in DOMAIN load.docs |-> RowOf(load, load.docs[d])]
    IN  /\ pc = "write" /\ config.sink = "starrocks"
        /\ \/ /\ config.database # "" /\ \A d \in DOMAIN rows : ~Refused(load, load.docs[d])
              /\ \E kept \in SUBSET DOMAIN rows :
                    /\ \A d \in DOMAIN rows : \E k \in kept : k = d \/ SameKey(rows[k], rows[d])
                    /\ \A d, k \in kept : SameKey(rows[k], rows[d]) => k = d
                    /\ table' = Restrict(rows, kept)
              /\ pc' = "acked"
           \/ /\ \/ config.database = ""
                 \/ \E d \in DOMAIN rows : Refusable(load, load.docs[d])
              /\ pc' = "failed" /\ UNCHANGED table
        /\ UNCHANGED <<env, config, written, insert, block, topic, stopped>>

WriteToKafka ==
    LET records == Records(insert, block)
    IN  /\ pc = "write" /\ config.sink = "kafka"
        /\ IF config.brokers # "" /\ insert.table \in config.topics
           THEN /\ pc' = "acked"
                /\ topic' = [r \in DOMAIN records |-> EncodeRecord(insert, records[r])]
           ELSE pc' = "failed" /\ UNCHANGED topic
        /\ UNCHANGED <<env, config, written, insert, block, table, stopped>>

\* A task of the Routine Load takes a message.  Messages have no key, and each
\* partition of the topic may have a task of its own: any may be the next.
Consume(r) ==
    /\ r \in DOMAIN topic /\ ~stopped
    /\ LET load == RoutineLoad(topic[r])
           row == RowOf(load, topic[r])
           others == {k \in DOMAIN table : ~SameKey(table[k], row)}
       IN  /\ ~Refused(load, topic[r])
           /\ table' = [k \in others \cup {r} |-> IF k = r THEN row ELSE table[k]]
    /\ topic' = Restrict(topic, DOMAIN topic \ {r})
    /\ UNCHANGED <<env, config, written, pc, insert, block, stopped>>

\* A row it refuses is one more than the Routine Load is allowed.
Stop(r) ==
    /\ r \in DOMAIN topic /\ ~stopped
    /\ Refusable(RoutineLoad(topic[r]), topic[r])
    /\ stopped' = TRUE
    /\ UNCHANGED <<env, config, written, pc, insert, block, topic, table>>

Next ==
    \/ Start \/ ReadInsert \/ SendBlock \/ WriteToStarRocks \/ WriteToKafka
    \/ \E r \in DOMAIN topic : Consume(r) \/ Stop(r)

Spec == Init /\ [][Next]_vars

-----------------------------------------------------------------------------
\* The row of a table that a row of the block is to become: each column its value,
\* to the microsecond.  NULL are a number above the range of its column, which a
\* column that is unsigned in schema.go and signed in the table may have, and every
\* column the INSERT does not name; among them always NetSockPeerAddr, which no
\* INSERT can name, though 0002_traces.sql:25-26 leaves it to the ingest path.
InMicroseconds(type, x) ==
    CASE type = "dt64" -> x \div 1000
      [] type = "dt64Arr" -> [i \in DOMAIN x |-> x[i] \div 1000]
      [] OTHER -> x

Sent(row) ==
    [c \in DOMAIN Columns |->
        IF c \in DOMAIN row /\ ~Overflows(Schema(insert)[c], row[c])
        THEN <<InMicroseconds(Schema(insert)[c], row[c])>> ELSE Nothing]

\* A text of a value is longer than the column takes.
Long(c, text) == ~Short(text, IF c = <<"Body">> THEN MaxBody ELSE MaxText)
LongMap(c, map) == \E k \in DOMAIN map : Long(c, k) \/ Long(c, map[k])

TooLong(c, x) ==
    LET type == Schema(insert)[c]
    IN  \/ type = "str" /\ Long(c, x)
        \/ type = "map" /\ LongMap(c, x)
        \/ type = "strArr" /\ \E i \in DOMAIN x : Long(c, x[i])
        \/ type = "mapArr" /\ \E i \in DOMAIN x : LongMap(c, x[i])

\* A column of a row of the table is as it was sent; of texts that are too long
\* nothing is said.
Holds(held, row, c) == held[c] = Sent(row)[c] \/ (c \in DOMAIN row /\ TooLong(c, row[c]))

\* The table has a row of the block, or another one of its key.
InTable(r) == \E k \in DOMAIN table : k = r \/ SameKey(table[k], Sent(block[r]))

\* What StarRocks may refuse a row of the block for: it has no key, or a text that
\* is too long.
HasFault(row) ==
    \/ \E c \in Key : c \notin DOMAIN row \/ Overflows(Schema(insert)[c], row[c])
    \/ \E c \in DOMAIN Columns \cap DOMAIN row : TooLong(c, row[c])

\* An INSERT is read as the client means it, table, columns and their order,
\* however it quotes or qualifies them; it is refused if it names what the schemas
\* do not have, or quotes the parts of the table's name (values.go:32-55,
\* insert.go:15-38).
HeaderAsMeant ==
    LET known == /\ written.style # "quoted parts" /\ written.table \in DOMAIN InsertSchemas
                 /\ written.cols # <<>>
                 /\ ToSet(written.cols) \subseteq DOMAIN InsertSchemas[written.table]
    IN  /\ pc \in {"block", "write", "acked", "failed"} =>
            known /\ insert.table = <<written.table>> /\ insert.names = written.cols
        /\ pc = "rejected" => ~known

\* Of what a Stream Load acknowledges each row is in the table, or one of its key,
\* and what is in the table is as it was sent: no column under another's key, no
\* number bent into its column's range, no row without the others (decode.go:11-37,
\* streamload.go:29-56).
RowsArrive ==
    pc = "acked" /\ config.sink = "starrocks" =>
        /\ \A r \in DOMAIN table :
              r \in DOMAIN block /\ \A c \in DOMAIN Columns : Holds(table[r], block[r], c)
        /\ \A r \in DOMAIN block : InTable(r)

\* With HERMENEUS_DATABASE set, a Write to StarRocks fails, and a Routine Load stops,
\* only for a row without a key or with a text that is too long.  A row has no key
\* if the INSERT does not name a column of it, which insert.go:25-38 lets pass, or if
\* the hash of the stack, unsigned in schema.go:67, is above the BIGINT of
\* 0003_profiles.sql:6.
OnlyKeysAndTextsRefused ==
    (pc = "failed" /\ config.sink = "starrocks" /\ env.database # "") \/ stopped =>
        \E r \in DOMAIN block : HasFault(block[r])

\* What Kafka acknowledges is taken in any order, yet no row is lost or mixed up with
\* another: each is in the topic still or in the table, or one of its key is, and as
\* it was sent, but for the columns of Events.  Those are lost: a message has a key
\* with a dot in it for each, and the path of the Routine Load takes the dot for a
\* level (kafka.go:60-69, 0005_routine_loads.sql:27).
OnlyEventsLost ==
    config.sink = "kafka" =>
        /\ \A r \in DOMAIN table :
              /\ r \in DOMAIN block
              /\ \A c \in DOMAIN Columns :
                    IF c[1] = "Events" THEN table[r][c] = Nothing ELSE Holds(table[r], block[r], c)
        /\ pc = "acked" => \A r \in DOMAIN block : r \in DOMAIN topic \/ InTable(r)
=============================================================================
