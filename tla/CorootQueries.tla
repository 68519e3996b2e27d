---------------------------- MODULE CorootQueries ----------------------------
(***************************************************************************)
(* What hermeneus makes of Coroot's SQL, as text: the extractor reads it,  *)
(* recognise names its shape, the Reader renders it, StarRocks reads that. *)
(*                                                                         *)
(* Statements are explored from the queries of the catalogue by the edits  *)
(* a release of Coroot might make to them, and from terms and conditions   *)
(* that are built step by step, as Coroot's filters are.                   *)
(***************************************************************************)
EXTENDS CorootSql, Meaning

CONSTANTS
    MaxEdits,       \* bound: edits of a query
    MaxSize,        \* bound: steps to build a condition
    Lists           \* the lists used after IN

ASSUME CorootQueriesAssumption ==
    /\ MaxEdits \in Nat /\ MaxSize \in Nat
    /\ Lists \subseteq {<<>>, <<"1">>, <<"1", "2">>}

VARIABLES
    query,      \* the query the statement began as, or "built"
    stmt,       \* the statement
    sort,       \* of the part built: "term" or "condition"; "query" for a query
    steps       \* edits or building steps so far

vars == <<query, stmt, sort, steps>>

-----------------------------------------------------------------------------
\* What a release may put in the place of a column; StarRocks has no uniqExact.
NewColumns ==
    {Service, Ident("Body"), Ident("TraceId"), Member("Events", "Name"), Severity, CountOne,
     Call("groupArray", <<Ident("TraceId")>>), Call("min", <<Ident("Start")>>), Minute,
     Call("uniqExact", <<Ident("TraceId")>>), Number("1")}

NewTables ==
    ServiceTables \cup SpanTables
    \cup {"profiling_profiles", "otel_logs", "otel_traces_trace_id_ts"}

\* A term is a column of the statement built, a condition its WHERE.
Built(e, s) ==
    IF s = "term" THEN From(<<Unnamed(e)>>, "t") ELSE Filtered(From(<<Unnamed(Star)>>, "t"), e)

expr == IF sort = "term" THEN stmt.cols[1].args[1] ELSE stmt.where[1]

Terms == {Ident("a"), Number("1")}
SimpleConditions == {Binary("=", Ident("a"), Number("1"))}

Init ==
    /\ steps = 0
    /\ \/ /\ query \in DOMAIN Catalogue
          /\ stmt = Catalogue[query].stmt /\ sort = "query"
       \/ /\ query = "built"
          /\ stmt \in {Built(e, "term") : e \in Terms} /\ sort = "term"

-----------------------------------------------------------------------------
\* Edits.

Edit(s) ==
    /\ sort = "query" /\ steps < MaxEdits
    /\ stmt' = s /\ steps' = steps + 1
    /\ UNCHANGED <<query, sort>>

WithCols(cols) == [stmt EXCEPT !.cols = cols]

ReplaceColumn ==
    \E i \in DOMAIN stmt.cols, e \in NewColumns :
        Edit(WithCols([stmt.cols EXCEPT ![i] = Unnamed(e)]))

SwapColumns ==
    \E i, j \in DOMAIN stmt.cols :
        i < j /\ Edit(WithCols([stmt.cols EXCEPT ![i] = stmt.cols[j], ![j] = stmt.cols[i]]))

AddColumn == \E e \in NewColumns : Edit(WithCols(Append(stmt.cols, Unnamed(e))))

DropColumn ==
    /\ Len(stmt.cols) > 1
    /\ \E i \in DOMAIN stmt.cols : Edit(WithCols(RemoveAt(stmt.cols, i)))

MoveTable == \E t \in NewTables : Edit([stmt EXCEPT !.from = <<Table(t, <<>>)>>])

ToggleDistinct == Edit([stmt EXCEPT !.distinct = ~@])

\* A search that a release adds to the others, or sets beside them.
AddFilter ==
    LET e == Binary("OR", Call("startsWith", <<Service, Literal(<<"b">>)>>),
                    Not(Call("has", <<Ident("Types"), Literal(<<"k">>)>>)))
    IN  \/ Edit(Filtered(stmt, e))
        \/ stmt.where # <<>> /\ Edit([stmt EXCEPT !.where = <<Binary("OR", @[1], e)>>])

-----------------------------------------------------------------------------
\* Building.

Build(e, s) ==
    /\ query = "built" /\ steps < MaxSize
    /\ stmt' = Built(e, s) /\ sort' = s /\ steps' = steps + 1
    /\ UNCHANGED query

Calculate ==
    /\ sort = "term"
    /\ \E t \in Terms :
        Build(Binary("+", expr, t), "term") \/ Build(Binary("+", t, expr), "term")

\* Functions, and forms with brackets, of a term that has none on top.
Apply ==
    /\ sort = "term" /\ expr.op \in {"ident", "number", "+"}
    /\ \E e \in {Call("intDiv", <<expr, Number("2")>>),
                 Call("roundDown", <<expr, Array(<<Number("1"), Number("2")>>)>>),
                 Call("toStartOfInterval", <<expr, Interval("2")>>),
                 Call("toInt64", <<expr>>), Call("sum", <<expr>>),
                 Call("countIf", <<Binary("<", expr, Number("2"))>>),
                 Index(Ident("m"), expr),
                 Call("multiIf", <<Binary("<", expr, Number("1")), expr,
                                   Binary("=", expr, Number("1")), Number("2"), Number("0")>>)} :
        Build(e, "term")

CompareTerm ==
    /\ sort = "term"
    /\ \E op \in {"=", "<"}, t \in Terms :
        Build(Binary(op, expr, t), "condition") \/ Build(Binary(op, t, expr), "condition")

BetweenTerms ==
    /\ sort = "term"
    /\ \E op \in {"BETWEEN", "NOT BETWEEN"}, t \in Terms :
        \/ Build(Between(op, expr, t, Number("2")), "condition")
        \/ Build(Between(op, t, Number("1"), expr), "condition")

InList ==
    /\ sort = "term"
    /\ \E op \in {"IN", "NOT IN"}, l \in Lists :
        Build(In(op, expr, List([i \in DOMAIN l |-> Number(l[i])])), "condition")

InPairs ==
    /\ sort = "term"
    /\ \E op \in {"IN", "NOT IN"}, t \in Terms :
        Build(In(op, Tuple(<<expr, t>>),
                 Tuples(<<Tuple(<<Number("1"), Number("2")>>),
                          Tuple(<<Number("2"), Number("1")>>)>>)), "condition")

Combine ==
    /\ sort = "condition"
    /\ \E op \in {"AND", "OR"}, p \in SimpleConditions :
        Build(Binary(op, expr, p), "condition") \/ Build(Binary(op, p, expr), "condition")

Deny == sort = "condition" /\ Build(Not(expr), "condition")

Next ==
    \/ ReplaceColumn \/ SwapColumns \/ AddColumn \/ DropColumn \/ MoveTable
    \/ ToggleDistinct \/ AddFilter
    \/ Calculate \/ Apply \/ CompareTerm \/ BetweenTerms \/ InList \/ InPairs
    \/ Combine \/ Deny

Spec == Init /\ [][Next]_vars

-----------------------------------------------------------------------------
Text == WrittenStatement(stmt)

Rendering == ReadStarRocks(Extract(Text).e)

SameAs(read) == read # Failed /\ Answer(read.e) = Answer(stmt)

\* The extractor reads a statement as ClickHouse does: the same clauses, and
\* the grouping that the parentheses, or their absence, mean; quotes and
\* backslashes in literals included (extractor.go:79-751, lexer.go:74-177).
ExtractorReads == Extract(Text).e = stmt

\* What the Reader renders, read by StarRocks, answers what the statement answers
\* in ClickHouse: columns, rows kept, groups and order, times to the microsecond
\* (starrocks.go:23-594).
SameAnswer == Fails(Rendering) \/ SameAs(StarRocks(Rendering))

\* Every query Coroot emits is translated, and answered with its own shape: no
\* rule asked before its own takes it (extract.go:50-204), and the Reader maps
\* all its functions (starrocks.go:366-443).
CatalogueTranslated ==
    sort = "query" /\ steps = 0 => Translate(Text) = Catalogue[query].shape

\* Whatever becomes of a query, its answer has a column for each of the select
\* list: rows.Scan (encode.go:219) and Coroot's decoder go by position.
ShapeFitsColumns ==
    LET shape == TranslateStatement(stmt)
    IN  shape # NoShape => Len(shape) = Len(stmt.cols)

\* README.md:42-44: a changed query "fails loud ... instead of silently returning
\* wrong data".  So no column of the table comes back under the name of another.
NoSilentMislabel ==
    LET shape == TranslateStatement(stmt)
    IN  \A i \in DOMAIN stmt.cols :
            /\ shape # NoShape
            /\ stmt.cols[i].args[1].op = "ident" /\ stmt.cols[i].x = <<>>
            => shape[i].name = stmt.cols[i].args[1].x[1]

\* starrocks.go:314: "Empty IN () -> IN (NULL): never matches, mirrors CH
\* semantics".  So an IN or a NOT IN of the empty list keeps the same rows.
EmptyInMirrored ==
    /\ sort = "condition"
    /\ expr.op \in {"IN", "NOT IN"}
    /\ expr.args[2] = List(<<>>)
    => SameAs(StarRocks(Rendering))
=============================================================================
