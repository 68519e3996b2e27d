------------------------------ MODULE Extractor ------------------------------
(***************************************************************************)
(* ExtractLogicalIR: the lexer (internal/extractor/lexer.go) and the       *)
(* recursive-descent parser (extractor.go) of the SELECT dialect Coroot    *)
(* uses.  A token is its text.                                             *)
(***************************************************************************)
EXTENDS Sql, FiniteSetsExt

-----------------------------------------------------------------------------
\* The lexer.

Keywords == {"SELECT", "DISTINCT", "FROM", "WHERE", "GROUP", "BY", "HAVING", "ORDER",
             "LIMIT", "SETTINGS", "WITH", "AS", "JOIN", "USING", "ON", "AND", "OR",
             "NOT", "IN", "BETWEEN", "GLOBAL", "INTERVAL", "ASC", "DESC", "NULL"}

\* The digits, and some whole numbers as one.
NumberOf == [n \in {ToString(k) : k \in (0 .. 10) \cup {60, 1000}} |->
                CHOOSE k \in 0 .. 1000 : ToString(k) = n]
Digits == DOMAIN NumberOf

Punctuation == {"(", ")", "[", "]", ",", ".", "+", "-", "*", "/", "%", "=", "<", ">",
                ">=", "<=", "!=", "<>", "::"}

NotInWords == Punctuation \cup {" ", "'", "\\", BackQuote, "#"}
IsWord(ch) == ch \notin NotInWords

\* Mutant of AfterEscape: a backslash is a character like any other.
NoEscape(i) == i + 1

\* A backslash takes the next character with it.
AfterEscape(i) == i + 2

\* The place behind the literal whose characters go on at i; 0 if it has no end.
RECURSIVE EndOfString(_, _)
EndOfString(src, i) ==
    CASE i > Len(src) -> 0
      [] i < Len(src) /\ src[i] = "\\" -> EndOfString(src, AfterEscape(i))
      [] i <= Len(src) /\ src[i] = "'" -> i + 1
      [] OTHER -> EndOfString(src, i + 1)

\* The place behind the number, or the word, that begins at i.
EndOfNumber(src, i) ==
    Min({j \in i .. Len(src) + 1 : j > Len(src) \/ src[j] \notin Digits \cup {"."}})
EndOfWord(src, i) == Min({j \in i .. Len(src) + 1 : j > Len(src) \/ ~IsWord(src[j])})

EndOfToken(src, i) ==
    CASE src[i] = "'" -> EndOfString(src, i + 1)
      [] src[i] \in Digits \/ (src[i] = "." /\ i < Len(src) /\ src[i + 1] \in Digits) ->
            EndOfNumber(src, i)
      [] IsWord(src[i]) /\ src[i] \notin Digits -> EndOfWord(src, i)
      [] src[i] \in Punctuation -> i + 1
      [] OTHER -> 0

\* What stands for a character, or an open literal, that is no token.
Unlexable == <<"#">>

RECURSIVE Tokens(_, _)
Tokens(src, i) ==
    CASE i > Len(src) -> <<>>
      [] i <= Len(src) /\ src[i] = " " -> Tokens(src, i + 1)
      [] i <= Len(src) /\ src[i] # " " ->
            LET end == EndOfToken(src, i)
            IN  IF end = 0 THEN <<Unlexable>>
                ELSE <<SubSeq(src, i, end - 1)>> \o Tokens(src, end)

IsNumberToken(tok) == tok[1] \in Digits \/ (tok[1] = "." /\ Len(tok) > 1)
IsStringToken(tok) == tok[1] = "'"
IsIdentToken(tok) ==
    IsWord(tok[1]) /\ tok[1] \notin Digits /\ tok[1] \notin Keywords /\ tok[1] # "EOF"

-----------------------------------------------------------------------------
\* The parser.  Read is what it has read and the place of the next token; place
\* 0 is an error, which nothing can be read at.

Read(e, i) == [e |-> e, i |-> i]
Failed == Read(Node("error", <<>>, <<>>), 0)

Token(toks, i) == IF i \in DOMAIN toks THEN toks[i] ELSE <<"EOF">>

At(toks, i, word) == Token(toks, i) = <<word>>

\* The place behind the word, which must stand at i.
Eat(toks, i, word) == IF At(toks, i, word) THEN i + 1 ELSE 0

\* The place behind the name, or the number, that must stand at i.
EatIdent(toks, i) == IF IsIdentToken(Token(toks, i)) THEN i + 1 ELSE 0
EatNumber(toks, i) == IF IsNumberToken(Token(toks, i)) THEN i + 1 ELSE 0

AtQuery(toks, i) == At(toks, i, "SELECT") \/ At(toks, i, "WITH")

\* What stands at a place: an expression of a level of Sql, or, looser than all of
\* them, what has expressions for its parts.
StatementLevel == 0
CteLevel == -1
ColumnLevel == -2
OrderLevel == -3
TupleLevel == -4
NameLevel == -5
FromLevel == -6
TableLevel == -7

RECURSIVE ReadAt(_, _, _), ReadMore(_, _, _), ReadIndexes(_, _), ReadWhens(_, _),
          ReadItems(_, _, _), ReadJoins(_, _)

\* Mutant of Operand: operators of a level group from the right.
FromTheRight(toks, i, level) == ReadAt(toks, i, level)

Operand(toks, i, level) == ReadAt(toks, i, level + 1)

\* The loops of orExpr, andExpr, addExpr and mulExpr.
ReadMore(toks, left, level) ==
    IF Level(Token(toks, left.i)[1]) # level THEN left
    ELSE LET right == Operand(toks, left.i + 1, level)
         IN  ReadMore(toks, Read(Binary(Token(toks, left.i)[1], left.e, right.e), right.i),
                      level)

ReadArray(toks, i) ==
    IF At(toks, i + 1, "]") THEN Read(Array(<<>>), i + 2)
    ELSE LET elems == ReadItems(toks, i + 1, OrLevel)
         IN  Read(Array(elems.e), Eat(toks, elems.i, "]"))

\* A statement, and the parenthesis behind it.
ReadQuery(toks, i) ==
    LET s == ReadAt(toks, i, StatementLevel) IN Read(Subquery(s.e), Eat(toks, s.i, ")"))

\* A list of one array is the array's.
Flattened(elems) ==
    IF Len(elems) = 1 /\ elems[1].op = "array" THEN elems[1].args ELSE elems

\* inRHS: what stands behind IN.
ReadMembers(toks, left, i) ==
    CASE At(toks, i, "[") ->
            LET array == ReadArray(toks, i) IN Read(List(array.e.args), array.i)
      [] At(toks, i, "(") /\ AtQuery(toks, i + 1) -> ReadQuery(toks, i + 1)
      [] At(toks, i, "(") /\ At(toks, i + 1, ")") -> Read(List(<<>>), i + 2)
      [] At(toks, i, "(") /\ At(toks, i + 1, "(") /\ left.e.op = "tuple" ->
            LET tuples == ReadItems(toks, i + 1, TupleLevel)
            IN  Read(Tuples(tuples.e), Eat(toks, tuples.i, ")"))
      [] OTHER ->
            LET list == ReadItems(toks, Eat(toks, i, "("), OrLevel)
            IN  Read(List(Flattened(list.e)), Eat(toks, list.i, ")"))

ReadIn(toks, left, global, op, i) ==
    LET right == ReadMembers(toks, left, i)
    IN  Read(Node(op, global, <<left.e, right.e>>), right.i)

ReadBetween(toks, left, op, i) ==
    LET lo == ReadAt(toks, i, AddLevel)
        hi == ReadAt(toks, Eat(toks, lo.i, "AND"), AddLevel)
    IN  Read(Between(op, left.e, lo.e, hi.e), hi.i)

\* cmpExpr, after its left side.
ReadCompare(toks, left) ==
    LET global == IF At(toks, left.i, "GLOBAL") THEN <<"GLOBAL">> ELSE <<>>
        i == left.i + Len(global)
        op == IF At(toks, i, "<>") THEN "!=" ELSE Token(toks, i)[1]
        right == ReadAt(toks, i + 1, AddLevel)
    IN  CASE At(toks, i, "IN") -> ReadIn(toks, left, global, "IN", i + 1)
          [] At(toks, i, "NOT") /\ At(toks, i + 1, "IN") ->
                ReadIn(toks, left, global, "NOT IN", i + 2)
          [] global # <<>> -> Failed
          [] At(toks, i, "BETWEEN") -> ReadBetween(toks, left, "BETWEEN", i + 1)
          [] At(toks, i, "NOT") /\ At(toks, i + 1, "BETWEEN") ->
                ReadBetween(toks, left, "NOT BETWEEN", i + 2)
          [] op \in Comparisons -> Read(Binary(op, left.e, right.e), right.i)
          [] OTHER -> left

\* CaseExpression, behind CASE: its conditions and results, its ELSE.
ReadWhens(toks, i) ==
    LET cond == ReadAt(toks, i + 1, OrLevel)
        result == ReadAt(toks, Eat(toks, cond.i, "THEN"), OrLevel)
        rest == ReadWhens(toks, result.i)
    IN  CASE At(toks, i, "WHEN") -> Read(<<cond.e, result.e>> \o rest.e, rest.i)
          [] At(toks, i, "ELSE") -> Read(<<cond.e>>, cond.i)
          [] OTHER -> Read(<<>>, i)

ReadCase(toks, i) ==
    LET whens == ReadWhens(toks, i) IN Read(Case(whens.e), Eat(toks, whens.i, "END"))

\* Behind "(": an expression, a tuple if it has a comma, or a subquery.
ReadParenthesised(toks, i) ==
    LET items == ReadItems(toks, i, OrLevel)
        close == Eat(toks, items.i, ")")
    IN  CASE AtQuery(toks, i) -> ReadQuery(toks, i)
          [] ~AtQuery(toks, i) /\ Len(items.e) = 1 -> Read(items.e[1], close)
          [] OTHER -> Read(Tuple(items.e), close)

\* call, behind its "(".
ReadCall(toks, f, i) ==
    LET distinct == At(toks, i, "DISTINCT")
        args == ReadItems(toks, IF distinct THEN i + 1 ELSE i, OrLevel)
    IN  IF At(toks, i, ")") THEN Read(Node("call", f, <<>>), i + 1)
        ELSE Read(Node(IF distinct THEN "call distinct" ELSE "call", f, args.e),
                  Eat(toks, args.i, ")"))

ReadIdentOrCall(toks, i) ==
    LET name == Token(toks, i)
    IN  CASE At(toks, i + 1, "(") -> ReadCall(toks, name, i + 2)
          [] At(toks, i + 1, ".") ->
                Read(Node("member", name \o <<".">> \o Token(toks, i + 2), <<>>),
                     EatIdent(toks, i + 2))
          [] OTHER -> Read(Node("ident", name, <<>>), i + 1)

ReadPrimary(toks, i) ==
    LET tok == Token(toks, i)
    IN  CASE At(toks, i, "NULL") -> Read(Null, i + 1)
          [] At(toks, i, "CASE") -> ReadCase(toks, i + 1)
          [] At(toks, i, "INTERVAL") ->
                Read(Node("interval", Token(toks, i + 1) \o Token(toks, i + 2), <<>>),
                     EatIdent(toks, EatNumber(toks, i + 1)))
          [] At(toks, i, "*") -> Read(Star, i + 1)
          [] At(toks, i, "[") -> ReadArray(toks, i)
          [] At(toks, i, "(") -> ReadParenthesised(toks, i + 1)
          [] IsNumberToken(tok) -> Read(Node("number", tok, <<>>), i + 1)
          [] IsStringToken(tok) -> Read(Node("string", tok, <<>>), i + 1)
          [] IsIdentToken(tok) /\ ~At(toks, i, "CASE") -> ReadIdentOrCall(toks, i)
          [] OTHER -> Failed

\* The loop of postfix.
ReadIndexes(toks, base) ==
    IF ~At(toks, base.i, "[") THEN base
    ELSE LET index == ReadAt(toks, base.i + 1, OrLevel)
         IN  ReadIndexes(toks, Read(Index(base.e, index.e), Eat(toks, index.i, "]")))

ReadNot(toks, i) ==
    LET e == ReadAt(toks, i + 1, NotLevel)
    IN  IF At(toks, i, "NOT") THEN Read(Not(e.e), e.i) ELSE ReadAt(toks, i, CompareLevel)

-----------------------------------------------------------------------------
\* Statements.

\* An identifier behind AS, which a select column must have there.
ReadColumn(toks, i) ==
    LET e == ReadAt(toks, i, OrLevel)
    IN  IF At(toks, e.i, "AS")
        THEN Read(Column(e.e, Token(toks, e.i + 1)), EatIdent(toks, e.i + 1))
        ELSE Read(Column(e.e, <<>>), e.i)

ReadOrder(toks, i) ==
    LET e == ReadAt(toks, i, OrLevel)
    IN  CASE At(toks, e.i, "ASC") -> Read(Asc(e.e), e.i + 1)
          [] At(toks, e.i, "DESC") -> Read(Desc(e.e), e.i + 1)
          [] OTHER -> Read(Asc(e.e), e.i)

ReadCte(toks, i) ==
    LET s == ReadAt(toks, Eat(toks, Eat(toks, EatIdent(toks, i), "AS"), "("), StatementLevel)
    IN  Read(Node("cte", Token(toks, i), <<s.e>>), Eat(toks, s.i, ")"))

ReadTuple(toks, i) ==
    LET elems == ReadItems(toks, Eat(toks, i, "("), OrLevel)
    IN  Read(Tuple(elems.e), Eat(toks, elems.i, ")"))

\* The loops over what commas separate.
ReadItems(toks, i, level) ==
    LET first == ReadAt(toks, i, level)
        rest == ReadItems(toks, first.i + 1, level)
    IN  IF At(toks, first.i, ",") THEN Read(<<first.e>> \o rest.e, rest.i)
        ELSE Read(<<first.e>>, first.i)

\* optAlias: the alias at i.
ReadAlias(toks, i) ==
    LET j == IF At(toks, i, "AS") THEN i + 1 ELSE i
    IN  IF IsIdentToken(Token(toks, j)) THEN Read(Token(toks, j), j + 1) ELSE Read(<<>>, j)

ReadFromPrimary(toks, i) ==
    LET s == ReadAt(toks, i + 1, StatementLevel)
        alias == ReadAlias(toks, IF At(toks, i, "(") THEN Eat(toks, s.i, ")")
                                 ELSE EatIdent(toks, i))
    IN  Read(IF At(toks, i, "(") THEN Derived(s.e, alias.e)
             ELSE Node("table", Aliased(Token(toks, i), alias.e), <<>>), alias.i)

\* The loop of fromClause.
ReadJoins(toks, left) ==
    LET right == ReadAt(toks, left.i + 1, TableLevel)
        using == ReadItems(toks, Eat(toks, Eat(toks, right.i, "USING"), "("), NameLevel)
    IN  CASE At(toks, left.i, "JOIN") ->
                ReadJoins(toks, Read(Join(left.e, right.e, FlattenSeq(using.e)),
                                     Eat(toks, using.i, ")")))
          [] At(toks, left.i, ",") -> ReadJoins(toks, Read(Comma(left.e, right.e), right.i))
          [] OTHER -> left

\* A clause that need not be there: nothing, or what stands behind its keyword.
ReadClause(toks, i, keyword) ==
    LET one == ReadAt(toks, i + 1, IF keyword = "FROM" THEN FromLevel ELSE OrLevel)
    IN  CASE ~At(toks, i, keyword) -> Read(<<>>, i)
          [] keyword \in {"FROM", "WHERE", "HAVING"} /\ At(toks, i, keyword) -> Read(<<one.e>>, one.i)
          [] At(toks, i, "WITH") -> ReadItems(toks, i + 1, CteLevel)
          [] At(toks, i, "GROUP") -> ReadItems(toks, Eat(toks, i + 1, "BY"), OrLevel)
          [] At(toks, i, "ORDER") -> ReadItems(toks, Eat(toks, i + 1, "BY"), OrderLevel)
          [] At(toks, i, "LIMIT") -> Read(Token(toks, i + 1), EatNumber(toks, i + 1))
          [] At(toks, i, "SETTINGS") -> Read(SubSeq(toks, i + 1, Len(toks)), Len(toks) + 1)

ReadStatement(toks, i) ==
    LET with == ReadClause(toks, i, "WITH")
        select == Eat(toks, with.i, "SELECT")
        distinct == At(toks, select, "DISTINCT")
        cols == ReadItems(toks, IF distinct THEN select + 1 ELSE select, ColumnLevel)
        from == ReadClause(toks, cols.i, "FROM")
        where == ReadClause(toks, from.i, "WHERE")
        groupBy == ReadClause(toks, where.i, "GROUP")
        having == ReadClause(toks, groupBy.i, "HAVING")
        orderBy == ReadClause(toks, having.i, "ORDER")
        limit == ReadClause(toks, orderBy.i, "LIMIT")
        settings == ReadClause(toks, limit.i, "SETTINGS")
    IN  Read([with |-> with.e, distinct |-> distinct, cols |-> cols.e, from |-> from.e,
              where |-> where.e, groupBy |-> groupBy.e, having |-> having.e,
              orderBy |-> orderBy.e, limit |-> limit.e, settings |-> settings.e],
             settings.i)

ReadAt(toks, i, level) ==
    CASE level \in Chained -> ReadMore(toks, ReadAt(toks, i, level + 1), level)
      [] level = NotLevel -> ReadNot(toks, i)
      [] level = CompareLevel -> ReadCompare(toks, ReadAt(toks, i, AddLevel))
      [] level = PostfixLevel -> ReadIndexes(toks, ReadPrimary(toks, i))
      [] level = StatementLevel -> ReadStatement(toks, i)
      [] level = CteLevel -> ReadCte(toks, i)
      [] level = ColumnLevel -> ReadColumn(toks, i)
      [] level = OrderLevel -> ReadOrder(toks, i)
      [] level = TupleLevel -> ReadTuple(toks, i)
      [] level = FromLevel -> ReadJoins(toks, ReadAt(toks, i, TableLevel))
      [] level = TableLevel -> ReadFromPrimary(toks, i)
      [] level = NameLevel -> Read(Token(toks, i), EatIdent(toks, i))

\* The statement of a whole text: what trails it is an error.
ExtractTokens(toks) ==
    LET s == ReadAt(toks, 1, StatementLevel)
    IN  IF Unlexable \notin Range(toks) /\ s.i = Len(toks) + 1 THEN s ELSE Failed

\* ExtractLogicalIR.
Extract(text) == ExtractTokens(Tokens(text, 1))
=============================================================================
