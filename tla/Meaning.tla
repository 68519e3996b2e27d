------------------------------- MODULE Meaning -------------------------------
(***************************************************************************)
(* What ClickHouse and StarRocks mean by SQL.  All of it is outside the    *)
(* repository.                                                             *)
(*                                                                         *)
(* A value is a tagged number, truth or NULL, or a term that stays as it   *)
(* is: two terms are the same value only if they are the same function of  *)
(* the same values.  The functions of StarRocks that the Reader uses are   *)
(* known by their ClickHouse names.                                        *)
(***************************************************************************)
EXTENDS Extractor, Reader

-----------------------------------------------------------------------------
\* Values.  A number is a fraction.

Num(p, q) == <<"n", p, q>>
Whole(n) == Num(n, 1)
Truth(b) == <<"b", b>>
NullValue == <<"null">>
Term(f, args) == <<"term", f, args>>

IsNum(v) == v[1] = "n"

IsSum(v) == v[1] = "term" /\ v[2] = "+"

\* A sum of terms is the same however it is grouped.
RECURSIVE Arithmetic(_, _, _)
Arithmetic(op, l, r) ==
    CASE op = "+" /\ IsSum(r) -> Arithmetic("+", Arithmetic("+", l, r[3][1]), r[3][2])
      [] NullValue \in {l, r} -> NullValue
      [] ~(IsNum(l) /\ IsNum(r)) /\ ~(op = "+" /\ IsSum(r)) -> Term(op, <<l, r>>)
      [] op = "+" -> Num(l[2] * r[3] + r[2] * l[3], l[3] * r[3])
      [] op = "-" -> Num(l[2] * r[3] - r[2] * l[3], l[3] * r[3])
      [] op = "*" -> Num(l[2] * r[2], l[3] * r[3])
      [] op = "/" /\ r[2] > 0 -> Num(l[2] * r[3], l[3] * r[2])
      [] OTHER -> Term(op, <<l, r>>)

Floor(v) == IF IsNum(v) THEN Whole(v[2] \div v[3]) ELSE Term("floor", <<v>>)

Compared(op, l, r) ==
    LET d == l[2] * r[3] - r[2] * l[3]
    IN  CASE NullValue \in {l, r} -> NullValue
          [] ~(IsNum(l) /\ IsNum(r)) -> Term(op, <<l, r>>)
          [] op = "=" -> Truth(d = 0) [] op = "!=" -> Truth(d # 0)
          [] op = "<" -> Truth(d < 0) [] op = "<=" -> Truth(d <= 0)
          [] op = ">" -> Truth(d > 0) [] op = ">=" -> Truth(d >= 0)

Negation(v) ==
    CASE v[1] = "b" -> Truth(~v[2])
      [] v = NullValue -> NullValue
      [] v[1] = "term" /\ v[2] = "NOT" -> v[3][1]
      [] OTHER -> Term("NOT", <<v>>)

Both(l, r) ==
    CASE Truth(FALSE) \in {l, r} -> Truth(FALSE)
      [] l = Truth(TRUE) -> r
      [] r \in {l, Truth(TRUE)} -> l
      [] OTHER -> Term("AND", <<l, r>>)

Either(l, r) == Negation(Both(Negation(l), Negation(r)))

Equal(l, r) == Compared("=", l, r)
OneOf(truths) == FoldLeft(Either, Truth(FALSE), truths)

\* CASE over the values of its conditions and results.
RECURSIVE Chosen(_)
Chosen(vs) ==
    CASE vs = <<>> -> NullValue
      [] Len(vs) = 1 -> vs[1]
      [] Len(vs) > 1 /\ vs[1] = Truth(TRUE) -> vs[2]
      [] Len(vs) > 1 /\ vs[1] \in {Truth(FALSE), NullValue} -> Chosen(SubSeq(vs, 3, Len(vs)))
      [] OTHER -> Term("if", <<vs[1], vs[2], Chosen(SubSeq(vs, 3, Len(vs)))>>)

\* The largest bound that is not above x, or the first one.
RoundedDown(x, bounds) ==
    LET below == {i \in DOMAIN bounds : Compared(">=", x, bounds[i]) = Truth(TRUE)}
        Ladder(i) == <<Compared(">=", x, bounds[i]), bounds[i]>>
    IN  CASE ~IsNum(x) ->
                Chosen(FlattenSeq([k \in 1 .. Len(bounds) - 1 |-> Ladder(Len(bounds) + 1 - k)])
                       \o <<bounds[1]>>)
          [] IsNum(x) /\ below = {} -> bounds[1]
          [] OTHER -> bounds[Max(below)]

\* ClickHouse's names of StarRocks' functions.
InClickHouse(f) ==
    CASE f = "array_agg" -> "groupArray" [] f = "any_value" -> "any"
      [] f = "array_concat" -> "arrayConcat" [] f = "map_keys" -> "mapKeys"
      [] f = "array_contains" -> "has" [] f = "regexp" -> "match"
      [] f = "starts_with" -> "startsWith" [] OTHER -> f

\* The calls whose value is more than a term; an interval is its seconds.
ValueOfCall(f, vs) ==
    CASE f = "intDiv" -> Floor(Arithmetic("/", vs[1], vs[2]))
      [] f = "floor" -> Floor(vs[1])
      [] f \in {"multiIf", "if"} -> Chosen(vs)
      [] f = "countIf" -> Term("count", <<Chosen(<<vs[1], Whole(1), NullValue>>)>>)
      [] f = "empty" -> Compared("=", Term("array_length", vs), Whole(0))
      [] f = "hasToken" ->
            Term("match", <<vs[1], <<"s">> \o <<"\\", "\\", "b">> \o Tail(vs[2])
                                   \o <<"\\", "\\", "b">> >>)
      [] f = "toStartOfInterval" ->
            Arithmetic("*", Floor(Arithmetic("/", vs[1], vs[2])), vs[2])
      [] f \in {"unix_timestamp", "from_unixtime", "toDateTime64"} -> vs[1]
      [] f = "date_add" -> Arithmetic("+", vs[1], vs[2])
      [] f = "roundDown" -> RoundedDown(vs[1], vs[2][3])
      [] f = "cast" -> Term("toInt64", <<vs[1]>>)
      [] f \in {"arrayJoin", "unnest"} -> Term("each", vs)
      [] OTHER -> Term(InClickHouse(f), vs)

\* Digits a time has behind its point that StarRocks' DATETIME can hold.
TimeDigits == 6

\* A literal: a time, to the microsecond, or any other text.
LiteralValue(chars) ==
    LET dot == SelectInSeq(chars, LAMBDA ch : ch = ".")
    IN  <<"s">> \o (IF dot > 1 /\ chars[1] = "T0" THEN SubSeq(chars, 1, Min({dot + TimeDigits, Len(chars)}))
                    ELSE chars)

-----------------------------------------------------------------------------
\* The columns that hold numbers, and the rows: in each all have one value.
NumberColumns == {"a", "Duration", "Timestamp"}
Rows == {[c \in NumberColumns |-> Whole(n)] : n \in {0, 1, 2, 7}}

RECURSIVE Value(_, _), FromMeaning(_)

\* What a statement answers, whatever row it stands beside.
Answer(s) == Value(Subquery(s), <<>>)

MemberValue(left, right, row) ==
    LET v == Value(left, row)
        Sides(t) == Both(Equal(Value(left.args[1], row), Value(t.args[1], row)),
                         Equal(Value(left.args[2], row), Value(t.args[2], row)))
    IN  CASE right.op = "subquery" -> Term("IN", <<v, Value(right, row)>>)
          [] right.op = "tuples" -> OneOf(Each(right.args, Sides))
          [] OTHER -> OneOf(Each(right.args, LAMBDA a : Equal(v, Value(a, row))))

IsUnnest(f) == f.op = "derived" /\ f.args[1].from = <<>>

\* What each name stands for that FROM gives to the elements of an array.
RECURSIVE Elements(_)
Elements(f) ==
    CASE IsUnnest(f) -> f.x[1] :> Call("arrayJoin", <<f.args[1].cols[1].args[1]>>)
      [] f.op \in {"comma", "join"} -> Elements(f.args[1]) @@ Elements(f.args[2])
      [] OTHER -> <<>>

FromMeaning(f) ==
    CASE f.op = "table" -> Term("table", f.x)
      [] f.op = "derived" -> Term("derived", <<Answer(f.args[1])>>)
      [] f.op = "comma" /\ IsUnnest(f.args[2]) -> FromMeaning(f.args[1])
      [] OTHER -> Term(f.op, <<FromMeaning(f.args[1]), FromMeaning(f.args[2]), f.x>>)

\* The clauses of a statement over the rows.
StatementMeaning(s) ==
    LET elements == IF s.from = <<>> THEN <<>> ELSE Elements(s.from[1])
        Bound(row, names) == [n \in DOMAIN names |-> Value(names[n], row)] @@ row
        aliases == [n \in {c.x[1] : c \in {d \in Range(s.cols) : d.x # <<>>}} |->
                        (CHOOSE c \in Range(s.cols) : c.x = <<n>>).args[1]]
        Selected(e) == [row \in Rows |-> Value(e, Bound(row, elements))]
        \* The names of columns are known behind the select list.
        Behind(e) == [row \in Rows |-> Value(e, Bound(Bound(row, elements), aliases))]
        Keeps(e) == LET values == Behind(e)
                    IN  [row \in Rows |-> IF values[row] = NullValue THEN Truth(FALSE)
                                          ELSE values[row]]
    IN  << [i \in DOMAIN s.with |-> <<s.with[i].x, Answer(s.with[i].args[1])>>],
           s.distinct, Each(s.cols, LAMBDA c : Selected(c.args[1])),
           Each(s.from, FromMeaning), Each(s.where, Keeps), Each(s.groupBy, Behind),
           Each(s.having, Keeps), Each(s.orderBy, LAMBDA o : <<o.op, Behind(o.args[1])>>),
           s.limit>>

Value(e, row) ==
    LET vs == Each(e.args, LAMBDA a : Value(a, row))
    IN  CASE e.op = "ident" ->
                IF e.x[1] \in DOMAIN row THEN row[e.x[1]] ELSE Term("column", e.x)
          [] e.op = "member" -> Term("column", <<FoldLeft(LAMBDA a, b : a \o b, "", e.x)>>)
          [] e.op = "number" -> IF Len(e.x) = 1 THEN Whole(NumberOf[e.x[1]]) ELSE Term("number", e.x)
          [] e.op = "interval" -> Whole(NumberOf[e.x[1]])
          [] e.op = "string" -> LiteralValue(Unquoted(e))
          [] e.op = "null" -> NullValue
          [] e.op = "call" -> ValueOfCall(e.x[1], vs)
          [] e.op = "call distinct" -> Term("distinct", <<Value([e EXCEPT !.op = "call"], row)>>)
          [] e.op = "OR" -> Either(vs[1], vs[2])
          [] e.op = "AND" -> Both(vs[1], vs[2])
          [] e.op = "NOT" -> Negation(vs[1])
          [] e.op = "IN" -> MemberValue(e.args[1], e.args[2], row)
          [] e.op = "BETWEEN" -> Both(Compared(">=", vs[1], vs[2]), Compared("<=", vs[1], vs[3]))
          [] e.op = "NOT IN" -> Negation(Value([e EXCEPT !.op = "IN"], row))
          [] e.op = "NOT BETWEEN" -> Negation(Value([e EXCEPT !.op = "BETWEEN"], row))
          [] e.op \in Comparisons -> Compared(e.op, vs[1], vs[2])
          [] Level(e.op) \in {AddLevel, MultiplyLevel} -> Arithmetic(e.op, vs[1], vs[2])
          [] e.op = "case" -> Chosen(vs)
          [] e.op = "subquery" -> StatementMeaning(e.args[1])
          [] OTHER -> Term(e.op, vs)

-----------------------------------------------------------------------------
\* StarRocks reads what the Reader renders with the grammar of the extractor,
\* to which its own forms are brought: a name in back quotes is one word, CAST
\* a call of two arguments, UNNEST a derived table.

Opens(text, i) ==
    {i, i + 4} \subseteq DOMAIN text /\ text[i] = BackQuote /\ text[i + 4] = BackQuote
    /\ text[i + 2] = "."

Unquote(text) ==
    FlattenSeq([i \in DOMAIN text |->
        CASE Opens(text, i) -> <<text[i + 1] \o "." \o text[i + 3]>>
          [] ~Opens(text, i) /\ \E d \in 1 .. 4 : Opens(text, i - d) -> <<>>
          [] OTHER -> <<text[i]>>])

InGrammar(toks) ==
    LET IsAs(i, word) == At(toks, i, "AS") /\ At(toks, i + 1, word)
        Names(i) == IsAs(i, "t") /\ At(toks, i + 2, "(")
        Tok(i) == CASE IsAs(i, "bigint") -> << <<",">> >>
                    [] At(toks, i, "unnest") -> << <<"(">> >>
                    [] At(toks, i - 1, "unnest") -> << <<"SELECT">> >>
                    [] \E d \in {0, 1, 2, 4} : Names(i - d) -> <<>>
                    [] OTHER -> <<toks[i]>>
    IN  FlattenSeq([i \in DOMAIN toks |-> Tok(i)])

StarRocks(text) == ExtractTokens(InGrammar(Tokens(Unquote(text), 1)))
=============================================================================
