------------------------------ MODULE Recognise ------------------------------
(***************************************************************************)
(* The rules of recognise (translate/extract.go): which Coroot query a     *)
(* parsed SELECT is, and the result shape it is answered with.  A rule     *)
(* looks at the statement and at its leftmost table t.                     *)
(***************************************************************************)
EXTENDS ResultShape, Sql, FiniteSetsExt

-----------------------------------------------------------------------------
\* What the rules look at.

IsIdent(col, n) == col.args[1].op = "ident" /\ col.args[1].x = <<n>>
IsAnyCall(col) == col.args[1].op \in {"call", "call distinct"}
IsCall(col, f) == IsAnyCall(col) /\ col.args[1].x = <<f>>

\* The tables whose names begin with one of two (strings.HasPrefix): those themselves,
\* and a longer one for each.
ServiceTables ==
    {"otel_logs_service_name_severity_text", "otel_logs_service_name_severity_text_v2",
     "otel_traces_service_name", "otel_traces_service_name_v2"}

\* The tables compared as a whole.
SpanTables == {"otel_traces_histogram", "otel_traces"}

\* Result shapes: name and ClickHouse type of every column.

Col(n, type) == [name |-> n, type |-> type]

SpanNames == <<"Timestamp", "TraceId", "SpanId", "ParentSpanId", "SpanName",
               "ServiceName", "Duration", "StatusCode", "StatusMessage",
               "ResourceAttributes", "SpanAttributes", "Events.Timestamp",
               "Events.Name", "Events.Attributes">>

SpanType(n) ==
    CASE n = "Timestamp" -> "DateTime64(9)"
      [] n = "Duration" -> "Int64"
      [] n \in {"ResourceAttributes", "SpanAttributes"} -> "Map(String,String)"
      [] n = "Events.Timestamp" -> "Array(DateTime64(9))"
      [] n = "Events.Name" -> "Array(String)"
      [] n = "Events.Attributes" -> "Array(Map(String,String))"
      [] OTHER -> "String"

SpanShape == [i \in 1 .. Len(SpanNames) |-> Col(SpanNames[i], SpanType(SpanNames[i]))]

LogsShape == <<Col("ServiceName", "String"), Col("Timestamp", "DateTime64(9)"),
               Col("severity", "Int64"), Col("Body", "String"),
               Col("TraceId", "String"),
               Col("ResourceAttributes", "Map(String,String)"),
               Col("LogAttributes", "Map(String,String)")>>

ProfileTypesShape == <<Col("ServiceName", "String"), Col("Type", "String")>>

LogsHistogramShape ==
    <<Col("severity", "Int64"), Col("ts", "DateTime"), Col("count", "UInt64")>>

TraceWindowShape == <<Col("min", "DateTime"), Col("max", "DateTime")>>

TracesShape == <<Col("count", "UInt64"), Col("traceIds", "Array(String)")>>

SpansHistogramShape ==
    <<Col("ts", "DateTime"), Col("bucket", "Float64"), Col("total", "UInt64"),
      Col("failed", "UInt64")>>

SpanStatsShape ==
    <<Col("ServiceName", "String"), Col("SpanName", "String"),
      Col("bucket", "Float64"), Col("total", "UInt64"), Col("failed", "UInt64")>>

ProfileShape == <<Col("value", "Int64"), Col("stack", "Array(String)")>>

DiffShape ==
    <<Col("base", "Int64"), Col("comp", "Int64"), Col("stack", "Array(String)")>>

-----------------------------------------------------------------------------
\* The rules of recognise.

IsServices(s, t) ==
    /\ s.distinct /\ Len(s.cols) = 1 /\ IsIdent(s.cols[1], "ServiceName")
    /\ t \in ServiceTables

IsProfileTypes(s, t) ==
    /\ s.distinct /\ Len(s.cols) = 2 /\ t = "profiling_profiles"
    /\ IsIdent(s.cols[1], "ServiceName") /\ IsIdent(s.cols[2], "Type")

IsSeverities(s, t) ==
    /\ s.distinct /\ Len(s.cols) = 1 /\ t = "otel_logs"
    /\ IsCall(s.cols[1], "multiIf")

ArrayJoined(col) ==
    IF IsCall(col, "arrayJoin") /\ Len(col.args[1].args) = 1
    THEN col.args[1].args[1] ELSE Null

IsAttributeValues(s, t) ==
    /\ s.distinct /\ Len(s.cols) = 1 /\ t = "otel_logs"
    /\ ArrayJoined(s.cols[1]).op = "array"

IsAttributeNames(s, t) ==
    /\ ~s.distinct /\ Len(s.cols) = 1 /\ t = "otel_logs"
    /\ s.cols[1].x = <<"k">>
    /\ ArrayJoined(s.cols[1]).op \in {"call", "call distinct"}
    /\ ArrayJoined(s.cols[1]).x = <<"arrayConcat">>

IsLogsHistogram(s, t) ==
    /\ Len(s.cols) = 3 /\ t = "otel_logs" /\ ~s.distinct
    /\ IsCall(s.cols[1], "multiIf") /\ IsCall(s.cols[2], "toStartOfInterval")

IsLogs(s, t) ==
    /\ Len(s.cols) = 7 /\ t = "otel_logs"
    /\ IsIdent(s.cols[1], "ServiceName") /\ IsAnyCall(s.cols[3])

IsTraceWindow(s, t) ==
    /\ Len(s.cols) = 2 /\ t = "otel_traces_trace_id_ts"
    /\ IsCall(s.cols[1], "min")

\* Mutant of IsTraces: the derived table it selects from is overlooked.
IsTracesOfTable(s, t) ==
    /\ Len(s.cols) = 2 /\ t = "otel_traces"
    /\ IsCall(s.cols[1], "count") /\ IsCall(s.cols[2], "groupArray")

IsTraces(s, t) ==
    Len(s.cols) = 2 /\ IsCall(s.cols[1], "count") /\ IsCall(s.cols[2], "groupArray")

IsSpans(s, t) ==
    /\ Len(s.cols) = 14 /\ t = "otel_traces"
    /\ IsIdent(s.cols[1], "Timestamp") /\ s.cols[12].args[1].op = "member"

\* Mutant of IsSpansHistogram: the number of columns is not looked at.
IsAnyHistogram(s, t) ==
    Len(s.cols) > 0 /\ IsCall(s.cols[1], "toStartOfInterval") /\ t \in SpanTables

IsSpansHistogram(s, t) ==
    /\ Len(s.cols) = 4
    /\ IsCall(s.cols[1], "toStartOfInterval") /\ t \in SpanTables

IsSpanStats(s, t) ==
    /\ Len(s.cols) = 5 /\ t \in SpanTables
    /\ IsIdent(s.cols[1], "ServiceName") /\ IsIdent(s.cols[2], "SpanName")

WithSamples(s) == s.with # <<>> /\ s.with[1].x = <<"samples">>

IsProfile(s) == WithSamples(s) /\ Len(s.cols) = 2

IsDiff(s) == WithSamples(s) /\ Len(s.cols) = 3

\* In the order recognise asks them.
Rules(s, t) ==
    << <<IsServices(s, t), <<Col("ServiceName", "String")>> >>,
       <<IsProfileTypes(s, t), ProfileTypesShape>>,
       <<IsSeverities(s, t), <<Col("severity", "Int64")>> >>,
       <<IsAttributeValues(s, t), <<Col("v", "String")>> >>,
       <<IsAttributeNames(s, t), <<Col("k", "String")>> >>,
       <<IsLogsHistogram(s, t), LogsHistogramShape>>,
       <<IsLogs(s, t), LogsShape>>,
       <<IsTraceWindow(s, t), TraceWindowShape>>,
       <<IsTraces(s, t), TracesShape>>,
       <<IsSpans(s, t), SpanShape>>,
       <<IsSpansHistogram(s, t), SpansHistogramShape>>,
       <<IsSpanStats(s, t), SpanStatsShape>>,
       <<IsProfile(s), ProfileShape>>,
       <<IsDiff(s), DiffShape>> >>

\* The first rule that matches decides.
ShapeFor(s, t) ==
    LET hits == {i \in DOMAIN Rules(s, t) : Rules(s, t)[i][1]}
    IN  IF hits = {} THEN NoShape ELSE Rules(s, t)[Min(hits)][2]
=============================================================================
