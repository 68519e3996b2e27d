--------------------------------- MODULE Sql ---------------------------------
(***************************************************************************)
(* The AST of internal/extractor/ast.go, and SQL as text.                  *)
(*                                                                         *)
(* A node is an operator, its own text and its arguments.  A text is a     *)
(* sequence of characters, but for words (names, keywords, numbers) and    *)
(* operators, which are one element each; a string literal is its          *)
(* characters, quotes and backslashes among them.                          *)
(***************************************************************************)
EXTENDS Integers, Sequences, SequencesExt

Node(op, x, args) == [op |-> op, x |-> x, args |-> args]

\* Leaves.
Ident(n) == Node("ident", <<n>>, <<>>)
Member(b, f) == Node("member", <<b, ".", f>>, <<>>)
Number(n) == Node("number", <<n>>, <<>>)
Literal(text) == Node("string", <<"'">> \o text \o <<"'">>, <<>>)
Null == Node("null", <<>>, <<>>)
Star == Node("star", <<>>, <<>>)
Interval(n) == Node("interval", <<n, "second">>, <<>>)

\* Expressions.  CASE has its conditions and results in turn, and an ELSE last.
Call(f, args) == Node("call", <<f>>, args)
CallDistinct(f, args) == Node("call distinct", <<f>>, args)
Binary(op, l, r) == Node(op, <<>>, <<l, r>>)
Not(e) == Node("NOT", <<>>, <<e>>)
Between(op, e, lo, hi) == Node(op, <<>>, <<e, lo, hi>>)
Array(elems) == Node("array", <<>>, elems)
Tuple(elems) == Node("tuple", <<>>, elems)
Index(e, i) == Node("index", <<>>, <<e, i>>)
Case(args) == Node("case", <<>>, args)
Subquery(s) == Node("subquery", <<>>, <<s>>)

\* The right side of IN: a list, tuples or a subquery.  x is GLOBAL or nothing.
List(elems) == Node("list", <<>>, elems)
Tuples(tuples) == Node("tuples", <<>>, tuples)
In(op, e, right) == Node(op, <<>>, <<e, right>>)

\* The parts of a statement.
Column(e, alias) == Node("column", alias, <<e>>)
Asc(e) == Node("asc", <<>>, <<e>>)
Desc(e) == Node("desc", <<>>, <<e>>)
Cte(name, s) == Node("cte", <<name>>, <<s>>)
Aliased(name, alias) == IF alias = <<>> THEN name ELSE name \o <<" ">> \o alias
Table(name, alias) == Node("table", Aliased(<<name>>, alias), <<>>)
Derived(s, alias) == Node("derived", alias, <<s>>)
Join(l, r, using) == Node("join", using, <<l, r>>)
Comma(l, r) == Node("comma", <<>>, <<l, r>>)
Unnest(e, alias) == Node("unnest", alias, <<e>>)

\* from, where and having are empty or of one element, limit and settings texts.
Select(cols) ==
    [with |-> <<>>, distinct |-> FALSE, cols |-> cols, from |-> <<>>, where |-> <<>>,
     groupBy |-> <<>>, having |-> <<>>, orderBy |-> <<>>, limit |-> <<>>,
     settings |-> <<>>]

\* M of every element.
Each(es, M(_)) == <<>> \o [i \in DOMAIN es |-> M(es[i])]

-----------------------------------------------------------------------------
\* Text.

\* The character, which a TLA+ string cannot hold.
BackQuote == "BACKQUOTE"

Joined(texts, separator) ==
    FlattenSeq([i \in DOMAIN texts |-> IF i = 1 THEN texts[i] ELSE separator \o texts[i]])

Spaced(texts) == Joined(texts, <<" ">>)
Listed(texts) == Joined(texts, <<",", " ">>)
InParentheses(text) == <<"(">> \o text \o <<")">>
InBrackets(text) == <<"[">> \o text \o <<"]">>

\* An operator between its sides.
Infix(left, op, right) == left \o <<" ", op, " ">> \o right

\* A clause that is left out where it has nothing to say.
Clause(keywords, texts, separator) ==
    IF texts = <<>> THEN <<>>
    ELSE <<" ">> \o Spaced([i \in DOMAIN keywords |-> <<keywords[i]>>]) \o <<" ">>
         \o Joined(texts, separator)

\* The text of a literal without its quotes.
Unquoted(e) == SubSeq(e.x, 2, Len(e.x) - 1)

-----------------------------------------------------------------------------
\* Precedence, the loosest operators first, as the grammar of extractor.go has
\* it, and ClickHouse and StarRocks too.

OrLevel == 1
AndLevel == 2
NotLevel == 3
CompareLevel == 4
AddLevel == 5
MultiplyLevel == 6
PostfixLevel == 7

Comparisons == {"=", "!=", "<", "<=", ">", ">="}

LevelOf ==
    [op \in Comparisons \cup {"IN", "NOT IN", "BETWEEN", "NOT BETWEEN"} |-> CompareLevel]
    @@ [op \in {"+", "-"} |-> AddLevel]
    @@ [op \in {"*", "/", "%"} |-> MultiplyLevel]
    @@ ("OR" :> OrLevel @@ "AND" :> AndLevel @@ "NOT" :> NotLevel)

Level(op) == IF op \in DOMAIN LevelOf THEN LevelOf[op] ELSE PostfixLevel

\* Levels whose operators make a chain.
Chained == {OrLevel, AndLevel, AddLevel, MultiplyLevel}
=============================================================================
