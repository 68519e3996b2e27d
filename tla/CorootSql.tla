------------------------------ MODULE CorootSql ------------------------------
(***************************************************************************)
(* The SQL that Coroot sends: how it writes a statement, and the queries   *)
(* that the comments of internal/translate/extract.go name.  Coroot is     *)
(* outside the repository.                                                 *)
(***************************************************************************)
EXTENDS Translator

-----------------------------------------------------------------------------
\* Coroot's text: parentheses where ClickHouse's grammar needs them.

RECURSIVE Written(_, _), WrittenStatement(_), WrittenFrom(_)

WrittenOp(op) ==
    CASE op = "NOT IN" -> <<" ", "NOT", " ", "IN", " ">>
      [] op = "NOT BETWEEN" -> <<" ", "NOT", " ", "BETWEEN", " ">>
      [] OTHER -> <<" ", op, " ">>

WrittenAll(es) == Each(es, LAMBDA e : Written(e, OrLevel))

WrittenMembers(right) ==
    IF right.op = "subquery" THEN WrittenStatement(right.args[1])
    ELSE Listed(WrittenAll(right.args))

WrittenWhens(args) ==
    LET n == Len(args)
        Branch(i) == <<"WHEN", " ">> \o Infix(Written(args[i], OrLevel), "THEN",
                                             Written(args[i + 1], OrLevel)) \o <<" ">>
    IN  <<"CASE", " ">> \o FlattenSeq([i \in 1 .. n \div 2 |-> Branch(2 * i - 1)])
        \o (IF n % 2 = 1 THEN <<"ELSE", " ">> \o Written(args[n], OrLevel) \o <<" ">> ELSE <<>>)
        \o <<"END">>

\* Where an expression of a level at least must stand.
Written(e, level) ==
    LET own == Level(e.op)
        Left == Written(e.args[1], IF own \in Chained THEN own ELSE AddLevel)
        Right(i) == Written(e.args[i], own + 1)
        listed == Listed(WrittenAll(e.args))
        text ==
            CASE e.op \in {"ident", "member", "number", "string"} -> e.x
              [] e.op = "null" -> <<"NULL">>
              [] e.op = "star" -> <<"*">>
              [] e.op = "interval" -> <<"INTERVAL", " ", e.x[1], " ", e.x[2]>>
              [] e.op = "array" -> InBrackets(listed)
              [] e.op = "tuple" -> InParentheses(listed)
              [] e.op = "index" ->
                    Written(e.args[1], PostfixLevel) \o InBrackets(Written(e.args[2], OrLevel))
              [] e.op = "call" -> e.x \o InParentheses(listed)
              [] e.op = "call distinct" -> e.x \o InParentheses(<<"DISTINCT", " ">> \o listed)
              [] e.op = "subquery" -> InParentheses(WrittenStatement(e.args[1]))
              [] e.op = "case" -> WrittenWhens(e.args)
              [] e.op = "NOT" -> <<"NOT", " ">> \o Written(e.args[1], NotLevel)
              [] e.op \in {"IN", "NOT IN"} ->
                    Left \o (IF e.x = <<>> THEN <<>> ELSE <<" ", "GLOBAL">>)
                    \o WrittenOp(e.op) \o InParentheses(WrittenMembers(e.args[2]))
              [] e.op \in {"BETWEEN", "NOT BETWEEN"} ->
                    Left \o WrittenOp(e.op) \o Infix(Right(2), "AND", Right(3))
              [] OTHER -> Left \o WrittenOp(e.op) \o Right(2)
    IN  IF own < level THEN InParentheses(text) ELSE text

WrittenFrom(f) ==
    LET Side(i) == WrittenFrom(f.args[i])
    IN  CASE f.op = "table" -> f.x
          [] f.op = "derived" ->
                InParentheses(WrittenStatement(f.args[1]))
                \o (IF f.x = <<>> THEN <<>> ELSE <<" ", "AS", " ">> \o f.x)
          [] f.op = "comma" -> Side(1) \o <<",", " ">> \o Side(2)
          [] f.op = "join" ->
                Infix(Side(1), "JOIN", Side(2)) \o <<" ", "USING", " ">>
                \o InParentheses(Listed(Each(f.x, LAMBDA n : <<n>>)))

WrittenStatement(s) ==
    LET comma == <<",", " ">>
        Alias(c) == IF c.x = <<>> THEN <<>> ELSE <<" ", "AS", " ">> \o c.x
        cols == Each(s.cols, LAMBDA c : Written(c.args[1], OrLevel) \o Alias(c))
        order == Each(s.orderBy, LAMBDA o : Written(o.args[1], OrLevel)
                                            \o (IF o.op = "desc" THEN <<" ", "DESC">> ELSE <<>>))
        ctes == Each(s.with, LAMBDA c : c.x \o <<" ", "AS", " ">>
                                        \o InParentheses(WrittenStatement(c.args[1])))
        with == IF ctes = <<>> THEN <<>> ELSE <<"WITH", " ">> \o Joined(ctes, comma) \o <<" ">>
    IN  with \o <<"SELECT", " ">> \o (IF s.distinct THEN <<"DISTINCT", " ">> ELSE <<>>)
        \o Joined(cols, comma)
        \o Clause(<<"FROM">>, Each(s.from, WrittenFrom), comma)
        \o Clause(<<"WHERE">>, WrittenAll(s.where), comma)
        \o Clause(<<"GROUP", "BY">>, WrittenAll(s.groupBy), comma)
        \o Clause(<<"HAVING">>, WrittenAll(s.having), comma)
        \o Clause(<<"ORDER", "BY">>, order, comma)
        \o Clause(<<"LIMIT">>, Each(s.limit, LAMBDA n : <<n>>), comma)
        \o Clause(<<"SETTINGS">>, s.settings, <<" ">>)

-----------------------------------------------------------------------------
\* The queries, each with the shape it is to get.

Unnamed(e) == Column(e, <<>>)
As(e, name) == Column(e, <<name>>)
Plain(es) == [i \in DOMAIN es |-> Unnamed(es[i])]
Idents(names) == [i \in DOMAIN names |-> Ident(names[i])]

Service == Ident("ServiceName")
Severity ==
    Call("multiIf", <<Binary("=", Ident("SeverityNumber"), Number("0")), Number("0"),
                      Binary("+", Call("intDiv", <<Ident("SeverityNumber"), Number("4")>>),
                             Number("1"))>>)
Minute == Call("toStartOfInterval", <<Ident("Timestamp"), Interval("60")>>)
CountOne == Call("count", <<Number("1")>>)
Bucket ==
    Call("roundDown", <<Binary("/", Ident("Duration"), Number("1000")),
                        Array(<<Number("0"), Number("10"), Number("60")>>)>>)
Failures == Call("countIf", <<Binary("=", Ident("StatusCode"), Literal(<<"Error">>))>>)

Time(digits) ==
    Call("toDateTime64", <<Literal(<<"T0", ".">> \o digits), Number("9")>>)
Window ==
    Between("BETWEEN", Ident("Timestamp"), Time(<<"1", "2", "3", "4", "5", "6", "7", "8", "9">>),
            Time(<<"5">>))

From(cols, table) == [Select(cols) EXCEPT !.from = <<Table(table, <<>>)>>]
During(cols, table) == [From(cols, table) EXCEPT !.where = <<Window>>]
Distinct(s) == [s EXCEPT !.distinct = TRUE]
Grouped(s, es) == [s EXCEPT !.groupBy = es]
Filtered(s, e) ==
    [s EXCEPT !.where = IF @ = <<>> THEN <<e>> ELSE <<Binary("AND", @[1], e)>>]

Attribute(map) == Index(Ident(map), Literal(<<"b", ".", "\\", "'">>))
LogSearch ==
    Binary("AND",
        In("IN", Service, List(<<Literal(<<"b">>), Literal(<<"k">>)>>)),
        Binary("OR", Call("hasToken", <<Ident("Body"), Literal(<<"b">>)>>),
               Binary("OR", Call("match", <<Ident("Body"), Literal(<<"b", "\\", "\\", ".">>)>>),
                      Binary("=", Attribute("LogAttributes"), Literal(<<>>)))))
SpanColumns ==
    Idents(SubSeq(SpanNames, 1, 11))
    \o <<Member("Events", "Timestamp"), Member("Events", "Name"), Member("Events", "Attributes")>>
SpanSearch ==
    Binary("AND", In("IN", Tuple(<<Service, Ident("SpanName")>>),
                     Tuples(<<Tuple(<<Literal(<<"b">>), Literal(<<"k">>)>>),
                              Tuple(<<Literal(<<"k">>), Literal(<<"b">>)>>)>>)),
           Not(Call("empty", <<Ident("SpanAttributes")>>)))

Samples(name, filter) ==
    Cte(name, Grouped(Filtered(From(<<Unnamed(Ident("StackHash")),
                                      As(Call("sum", <<Ident("Value")>>), "value")>>,
                                    "profiling_samples"), filter), <<Ident("StackHash")>>))
Stacks == Table("profiling_stacks", <<"s">>)
AnyStack == Call("any", <<Member("s", "Stack")>>)

Profile(cols) ==
    [Select(cols) EXCEPT
        !.with = <<Samples("samples", In("IN", Service, List(<<>>)))>>,
        !.from = <<Join(Table("samples", <<>>), Stacks, <<"StackHash">>)>>,
        !.groupBy = <<Ident("StackHash")>>]

Query(stmt, shape) == [stmt |-> stmt, shape |-> shape]

Catalogue == [
    logServices |-> Query(
        Distinct(From(<<Unnamed(Service)>>, "otel_logs_service_name_severity_text")),
        <<Col("ServiceName", "String")>>),
    traceServices |-> Query(
        Distinct(From(<<Unnamed(Service)>>, "otel_traces_service_name")),
        <<Col("ServiceName", "String")>>),
    profileTypes |-> Query(
        Distinct(From(Plain(<<Service, Ident("Type")>>), "profiling_profiles")),
        ProfileTypesShape),
    severities |-> Query(
        Distinct(During(<<Unnamed(Severity)>>, "otel_logs")), <<Col("severity", "Int64")>>),
    attributeValues |-> Query(
        Distinct(During(<<Unnamed(Call("arrayJoin",
            <<Array(<<Attribute("LogAttributes"), Attribute("ResourceAttributes")>>)>>))>>,
            "otel_logs")),
        <<Col("v", "String")>>),
    attributeNames |-> Query(
        [Grouped(During(<<As(Call("arrayJoin",
            <<Call("arrayConcat", <<Call("mapKeys", <<Ident("LogAttributes")>>),
                                    Call("mapKeys", <<Ident("ResourceAttributes")>>)>>)>>),
            "k")>>, "otel_logs"), <<Ident("k")>>)
         EXCEPT !.orderBy = <<Desc(Call("count", <<>>))>>, !.limit = <<"10">>,
                !.settings = << <<"max_execution_time">>, <<"=">>, <<"60">> >>],
        <<Col("k", "String")>>),
    logsHistogram |-> Query(
        Grouped(Filtered(During(Plain(<<Severity, Minute, CountOne>>), "otel_logs"), LogSearch),
                <<Number("1"), Number("2")>>),
        LogsHistogramShape),
    logs |-> Query(
        [Filtered(During(Plain(<<Service, Ident("Timestamp"), Severity, Ident("Body"),
                                 Ident("TraceId"), Ident("ResourceAttributes"),
                                 Ident("LogAttributes")>>), "otel_logs"), LogSearch)
         EXCEPT !.orderBy = <<Desc(Ident("Timestamp"))>>, !.limit = <<"1000">>],
        LogsShape),
    traceWindow |-> Query(
        Filtered(From(Plain(<<Call("min", <<Ident("Start")>>),
                              Binary("+", Call("max", <<Ident("End")>>), Number("1"))>>),
                      "otel_traces_trace_id_ts"),
                 In("IN", Ident("TraceId"), List(<<Literal(<<"b">>)>>))),
        TraceWindowShape),
    traces |-> Query(
        [Select(Plain(<<CountOne, CallDistinct("groupArray", <<Ident("TraceId")>>)>>))
         EXCEPT !.from = <<Derived([During(<<Unnamed(Ident("TraceId"))>>, "otel_traces")
                                    EXCEPT !.limit = <<"1000">>], <<>>)>>],
        TracesShape),
    spans |-> Query(
        Filtered(Filtered(During(Plain(SpanColumns), "otel_traces"), SpanSearch),
                 Node("IN", <<"GLOBAL">>,
                      <<Ident("TraceId"),
                        Subquery(Distinct(From(<<Unnamed(Ident("TraceId"))>>, "otel_traces")))>>)),
        SpanShape),
    spansHistogram |-> Query(
        Grouped(During(<<Unnamed(Minute), As(Bucket, "bucket"), As(CountOne, "total"),
                         As(Failures, "failed")>>, "otel_traces"),
                <<Number("1"), Ident("bucket")>>),
        SpansHistogramShape),
    spanStats |-> Query(
        [Grouped(From(<<Unnamed(Service), Unnamed(Ident("SpanName")), As(Ident("Bucket"), "bucket"),
                        As(Call("sum", <<Ident("Total")>>), "total"),
                        As(Call("sum", <<Ident("Failed")>>), "failed")>>,
                      "otel_traces_histogram"),
                 <<Service, Ident("SpanName"), Ident("bucket")>>)
         EXCEPT !.having = <<Binary(">", Ident("total"), Number("0"))>>,
                !.orderBy = <<Asc(Ident("SpanName"))>>],
        SpanStatsShape),
    profile |-> Query(
        Profile(<<As(Call("toInt64", <<Binary("/", Call("sum", <<Ident("value")>>),
                                              Number("2"))>>), "value"), Unnamed(AnyStack)>>),
        ProfileShape),
    profileDiff |-> Query(
        Profile(<<Unnamed(Call("sum", <<Case(<<Call("startsWith", <<Service, Literal(<<"b">>)>>),
                                             Ident("value"), Number("0")>>)>>)),
                  Unnamed(Call("sum", <<Call("if", <<Call("has", <<Ident("Types"),
                                                                Literal(<<"k">>)>>),
                                                    Ident("value"), Null>>)>>)),
                  Unnamed(AnyStack)>>),
        DiffShape)]
=============================================================================
