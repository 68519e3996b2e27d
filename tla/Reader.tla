-------------------------------- MODULE Reader --------------------------------
(***************************************************************************)
(* The StarRocks Reader: the SQL it renders for a parsed statement         *)
(* (internal/adapter/starrocks/starrocks.go).                              *)
(***************************************************************************)
EXTENDS Sql

\* What b.fail leaves in the text: Read answers with an error.
Fail == <<"#">>
Fails(text) == \E i \in DOMAIN text : text[i] = "#"

\* lowerArrayJoin: a select list of one arrayJoin becomes a lateral UNNEST.
Lowered(s) ==
    LET e == s.cols[1].args[1]
    IN  IF /\ Len(s.cols) = 1
           /\ e.op \in {"call", "call distinct"} /\ e.x = <<"arrayJoin">>
           /\ Len(e.args) = 1
        THEN [s EXCEPT !.cols = <<Column(Ident("k"), <<>>)>>,
                       !.from = <<Comma(IF @ = <<>> THEN Null ELSE @[1],
                                        Unnest(e.args[1], <<"k">>))>>]
        ELSE s

\* Mutant of RenderLogical: AND and OR are rendered like other operators.
Bare(left, op, right) == Infix(left, op, right)

RenderLogical(left, op, right) == InParentheses(Infix(left, op, right))

Applied(f, texts) == <<f>> \o InParentheses(Listed(texts))

\* simpleFnMap, and the names that other functions of fixed arguments get.
Renamed == [groupArray |-> "array_agg", any |-> "any_value", arrayConcat |-> "array_concat",
            mapKeys |-> "map_keys", count |-> "count", sum |-> "sum", min |-> "min",
            max |-> "max", floor |-> "floor", if |-> "if", arrayJoin |-> "arrayJoin"]
RenamedOfTwo == [has |-> "array_contains", match |-> "regexp", startsWith |-> "starts_with"]

\* toDateTime64: six digits after the point.
Microseconds(text) ==
    LET dot == SelectInSeq(text, LAMBDA ch : ch = ".")
    IN  IF dot = 0 THEN text ELSE SubSeq(text, 1, IF dot + 6 < Len(text) THEN dot + 6 ELSE Len(text))

RECURSIVE Render(_), RenderStatement(_), RenderFrom(_)

Rendered(es) == Each(es, Render)

\* CASE and multiIf: conditions and results in turn, an ELSE last.
RenderWhens(args) ==
    LET n == Len(args)
        When(i) == <<" ", "WHEN", " ">> \o Render(args[i])
                   \o <<" ", "THEN", " ">> \o Render(args[i + 1])
    IN  <<"CASE">>
        \o FlattenSeq([i \in 1 .. n \div 2 |-> When(2 * i - 1)])
        \o (IF n % 2 = 1 THEN <<" ", "ELSE", " ">> \o Render(args[n]) ELSE <<>>)
        \o <<" ", "END">>

\* tupleIn: an equality for each side of each pair.
RenderPairs(op, left, tuples) ==
    LET Side(k, t) == Infix(Render(left.args[k]), "=", Render(t.args[k]))
        Pair(t) == InParentheses(Infix(Side(1, t), "AND", Side(2, t)))
    IN  IF left.op # "tuple" \/ Len(left.args) # 2 \/ \E i \in DOMAIN tuples : Len(tuples[i].args) # 2
        THEN Fail
        ELSE (IF op = "NOT IN" THEN <<"NOT", " ">> ELSE <<>>)
             \o InParentheses(Joined(Each(tuples, Pair),
                                     <<" ", "OR", " ">>))

RenderIn(op, left, right) ==
    LET members == CASE right.op = "subquery" -> RenderStatement(right.args[1])
                     [] right.op = "list" /\ right.args = <<>> -> <<"NULL">>
                     [] OTHER -> Listed(Rendered(right.args))
    IN  IF right.op = "tuples" THEN RenderPairs(op, left, right.args)
        ELSE Render(left) \o (IF op = "NOT IN" THEN <<" ", "NOT">> ELSE <<>>)
             \o <<" ", "IN", " ">> \o InParentheses(members)

\* roundDown: a ladder over the bounds.  Its argument is rendered apart, and is
\* nothing where that fails.
RenderRoundDown(x, array) ==
    LET bounds == Rendered(array.args)
        text == IF Fails(Render(x)) THEN <<>> ELSE Render(x)
        Rung(i) == <<" ", "WHEN", " ">> \o Infix(InParentheses(text), ">=", bounds[i])
                   \o <<" ", "THEN", " ">> \o bounds[i]
    IN  IF array.op # "array" \/ array.args = <<>> THEN Fail
        ELSE <<"CASE">> \o FlattenSeq([i \in 1 .. Len(bounds) - 1 |-> Rung(Len(bounds) + 1 - i)])
             \o <<" ", "ELSE", " ">> \o bounds[1] \o <<" ", "END">>

RenderInterval(x, interval) ==
    LET n == interval.x[1]
    IN  IF interval.op # "interval" \/ interval.x[2] # "second" THEN Fail
        ELSE Applied("from_unixtime",
                   <<Applied("floor", <<Applied("unix_timestamp", <<Render(x)>>) \o <<"/", n>> >>)
                     \o <<"*", n>> >>)

\* hasToken(col, 'tok') is regexp(col, '\\btok\\b').
RenderHasToken(x, token) ==
    IF token.op # "string" THEN Fail
    ELSE Applied("regexp", <<Render(x), <<"'", "\\", "\\", "b">> \o Unquoted(token)
                                       \o <<"\\", "\\", "b", "'">> >>)

RenderCall(f, distinct, args) ==
    LET texts == Rendered(args)
        n == Len(args)
    IN  CASE f = "intDiv" /\ n = 2 ->
                Applied("floor", <<InParentheses(texts[1]) \o <<"/">> \o InParentheses(texts[2])>>)
          [] f \in {"groupArray", "any"} ->
                <<Renamed[f]>> \o InParentheses((IF distinct THEN <<"DISTINCT", " ">> ELSE <<>>)
                                                \o Listed(texts))
          [] f \in DOMAIN Renamed \ {"groupArray", "any"} -> Applied(Renamed[f], texts)
          [] f = "multiIf" /\ n >= 3 /\ n % 2 = 1 -> RenderWhens(args)
          [] f = "countIf" /\ n = 1 ->
                Applied("count", <<Applied("if", <<texts[1], <<"1">>, <<"NULL">> >>)>>)
          [] f \in DOMAIN RenamedOfTwo /\ n = 2 -> Applied(RenamedOfTwo[f], texts)
          [] f = "empty" /\ n = 1 -> Infix(Applied("array_length", texts), "=", <<"0">>)
          [] f = "toInt64" /\ n = 1 -> <<"cast">> \o InParentheses(Infix(texts[1], "AS", <<"bigint">>))
          [] f = "hasToken" /\ n = 2 -> RenderHasToken(args[1], args[2])
          [] f = "toStartOfInterval" /\ n = 2 -> RenderInterval(args[1], args[2])
          [] f = "toDateTime64" /\ n >= 1 /\ args[1].op = "string" ->
                <<"'">> \o Microseconds(Unquoted(args[1])) \o <<"'">>
          [] f = "roundDown" /\ n = 2 -> RenderRoundDown(args[1], args[2])
          [] OTHER -> Fail

\* max(End) + 1, which StarRocks has no second to add to.
IsEndOfWindow(e) ==
    /\ e.op = "+" /\ e.args[2] = Number("1")
    /\ e.args[1] \in {Call("max", <<Ident("End")>>), CallDistinct("max", <<Ident("End")>>)}

RenderMember(x) ==
    IF x[1] = "Events" /\ x[3] \in {"Timestamp", "Name", "Attributes"}
    THEN <<BackQuote>> \o x \o <<BackQuote>> ELSE x

Render(e) ==
    LET Arg(i) == Render(e.args[i])
    IN  CASE e.op \in {"ident", "number", "string"} -> e.x
          [] e.op = "member" -> RenderMember(e.x)
          [] e.op = "null" -> <<"NULL">>
          [] e.op = "star" -> <<"*">>
          [] e.op = "array" -> InBrackets(Listed(Rendered(e.args)))
          [] e.op = "tuple" -> InParentheses(Listed(Rendered(e.args)))
          [] e.op = "index" -> Arg(1) \o InBrackets(Arg(2))
          [] IsEndOfWindow(e) ->
                Applied("date_add", <<Applied("max", <<<<"End">>>>),
                                      <<"INTERVAL", " ", "1", " ", "SECOND">> >>)
          [] e.op \in {"AND", "OR"} -> RenderLogical(Arg(1), e.op, Arg(2))
          [] e.op = "NOT" -> <<"NOT", " ">> \o Arg(1)
          [] e.op = "BETWEEN" -> Infix(Arg(1), "BETWEEN", Infix(Arg(2), "AND", Arg(3)))
          [] e.op = "NOT BETWEEN" ->
                Arg(1) \o <<" ", "NOT">> \o Infix(<<>>, "BETWEEN", Infix(Arg(2), "AND", Arg(3)))
          [] e.op = "subquery" -> InParentheses(RenderStatement(e.args[1]))
          [] e.op = "case" -> RenderWhens(e.args)
          [] e.op \in {"IN", "NOT IN"} -> RenderIn(e.op, e.args[1], e.args[2])
          [] e.op = "call" -> RenderCall(e.x[1], FALSE, e.args)
          [] e.op = "call distinct" -> RenderCall(e.x[1], TRUE, e.args)
          [] e.op = "interval" -> Fail
          [] ~IsEndOfWindow(e) /\ Level(e.op) \in {CompareLevel, AddLevel, MultiplyLevel} ->
                Infix(Arg(1), e.op, Arg(2))

RenderFrom(f) ==
    CASE f.op = "table" -> f.x
      [] f.op = "derived" -> InParentheses(RenderStatement(f.args[1])) \o <<" ">>
                             \o (IF f.x = <<>> THEN <<"t1">> ELSE f.x)
      [] f.op = "comma" -> RenderFrom(f.args[1]) \o <<",", " ">> \o RenderFrom(f.args[2])
      [] f.op = "join" ->
            RenderFrom(f.args[1]) \o <<" ", "JOIN", " ">> \o RenderFrom(f.args[2])
            \o <<" ", "USING">> \o InParentheses(Listed(Each(f.x, LAMBDA n : <<n>>)))
      [] f.op = "unnest" ->
            Infix(Applied("unnest", <<Render(f.args[1])>>), "AS",
                  <<"t">> \o InParentheses(f.x))
      [] f.op = "null" -> Fail

RenderColumn(c) ==
    Render(c.args[1]) \o (IF c.x = <<>> THEN <<>> ELSE <<" ", "AS", " ">> \o c.x)

RenderOrder(item) ==
    Render(item.args[1]) \o (IF item.op = "desc" THEN <<" ", "DESC">> ELSE <<>>)

RenderCte(c) == c.x \o <<" ", "AS", " ">> \o InParentheses(RenderStatement(c.args[1]))

\* selectStmt; SETTINGS is dropped.
RenderStatement(s) ==
    LET comma == <<",", " ">>
        with == IF s.with = <<>> THEN <<>>
                ELSE <<"WITH", " ">> \o Joined(Each(s.with, RenderCte), comma) \o <<" ">>
    IN  with \o <<"SELECT", " ">> \o (IF s.distinct THEN <<"DISTINCT", " ">> ELSE <<>>)
        \o Joined(Each(s.cols, RenderColumn), comma)
        \o Clause(<<"FROM">>, Each(s.from, RenderFrom), comma)
        \o Clause(<<"WHERE">>, Each(s.where, Render), comma)
        \o Clause(<<"GROUP", "BY">>, Each(s.groupBy, Render), comma)
        \o Clause(<<"HAVING">>, Each(s.having, Render), comma)
        \o Clause(<<"ORDER", "BY">>, Each(s.orderBy, RenderOrder), comma)
        \o Clause(<<"LIMIT">>, Each(s.limit, LAMBDA n : <<n>>), comma)

\* Read, without what the error says.
ReadStarRocks(s) == RenderStatement(Lowered(s))
=============================================================================
