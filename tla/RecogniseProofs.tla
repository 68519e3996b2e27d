--------------------------- MODULE RecogniseProofs ---------------------------
(***************************************************************************)
(* Proofs about recognise, for every parsed statement and leftmost table:  *)
(* its answer has a column for each of the select list, of a type          *)
(* newAppender knows, and the order of the rules decides nothing but where *)
(* a statement's first CTE is called samples.                              *)
(***************************************************************************)
EXTENDS Recognise, WellFoundedInduction, TLAPS

-----------------------------------------------------------------------------
\* The shapes.  Types have parentheses, which the SMT backend cannot read, so
\* what it has to say is said of any columns.

\* A shape of n columns, of types newAppender knows.
Fits(shape, n) ==
    Len(shape) = n /\ \A i \in 1 .. n : shape[i].type \in ColumnTypes

LEMMA KnownTypes ==
    /\ "String" \in ColumnTypes /\ "Int64" \in ColumnTypes /\ "UInt64" \in ColumnTypes
    /\ "Float64" \in ColumnTypes /\ "DateTime" \in ColumnTypes
    /\ "DateTime64(9)" \in ColumnTypes /\ "Array(String)" \in ColumnTypes
    /\ "Array(DateTime64(9))" \in ColumnTypes /\ "Map(String,String)" \in ColumnTypes
    /\ "Array(Map(String,String))" \in ColumnTypes
  BY Zenon DEF ColumnTypes

LEMMA OneColumn ==
    ASSUME NEW n1, NEW t1 \in ColumnTypes
    PROVE  Fits(<<Col(n1, t1)>>, 1)
  BY DEF Fits, Col

LEMMA TwoColumns ==
    ASSUME NEW n1, NEW t1 \in ColumnTypes, NEW n2, NEW t2 \in ColumnTypes
    PROVE  Fits(<<Col(n1, t1), Col(n2, t2)>>, 2)
  BY DEF Fits, Col

LEMMA ThreeColumns ==
    ASSUME NEW n1, NEW t1 \in ColumnTypes, NEW n2, NEW t2 \in ColumnTypes,
           NEW n3, NEW t3 \in ColumnTypes
    PROVE  Fits(<<Col(n1, t1), Col(n2, t2), Col(n3, t3)>>, 3)
  BY DEF Fits, Col

LEMMA FourColumns ==
    ASSUME NEW n1, NEW t1 \in ColumnTypes, NEW n2, NEW t2 \in ColumnTypes,
           NEW n3, NEW t3 \in ColumnTypes, NEW n4, NEW t4 \in ColumnTypes
    PROVE  Fits(<<Col(n1, t1), Col(n2, t2), Col(n3, t3), Col(n4, t4)>>, 4)
  BY DEF Fits, Col

LEMMA FiveColumns ==
    ASSUME NEW n1, NEW t1 \in ColumnTypes, NEW n2, NEW t2 \in ColumnTypes,
           NEW n3, NEW t3 \in ColumnTypes, NEW n4, NEW t4 \in ColumnTypes,
           NEW n5, NEW t5 \in ColumnTypes
    PROVE  Fits(<<Col(n1, t1), Col(n2, t2), Col(n3, t3), Col(n4, t4), Col(n5, t5)>>, 5)
  BY DEF Fits, Col

LEMMA SevenColumns ==
    ASSUME NEW n1, NEW t1 \in ColumnTypes, NEW n2, NEW t2 \in ColumnTypes,
           NEW n3, NEW t3 \in ColumnTypes, NEW n4, NEW t4 \in ColumnTypes,
           NEW n5, NEW t5 \in ColumnTypes, NEW n6, NEW t6 \in ColumnTypes,
           NEW n7, NEW t7 \in ColumnTypes
    PROVE  Fits(<<Col(n1, t1), Col(n2, t2), Col(n3, t3), Col(n4, t4), Col(n5, t5),
                  Col(n6, t6), Col(n7, t7)>>, 7)
  BY DEF Fits, Col

LEMMA SpanShapeFits == Fits(SpanShape, 14)
<1>1. Len(SpanNames) = 14
  BY DEF SpanNames
<1>2. \A n : SpanType(n) \in ColumnTypes
  BY KnownTypes, Zenon DEF SpanType
<1>3. \A i \in 1 .. 14 : SpanShape[i].type = SpanType(SpanNames[i])
  BY <1>1 DEF SpanShape, Col
<1>4. Len(SpanShape) = 14
  BY <1>1 DEF SpanShape
<1> QED
  BY <1>2, <1>3, <1>4 DEF Fits

-----------------------------------------------------------------------------
\* The rules.

\* Rule by rule, what a statement it matches looks like and is answered with.
LEMMA RuleList ==
    ASSUME NEW s, NEW t
    PROVE  /\ DOMAIN Rules(s, t) = 1 .. 14
           /\ Rules(s, t)[1][1] <=> IsServices(s, t)
           /\ Rules(s, t)[2][1] <=> IsProfileTypes(s, t)
           /\ Rules(s, t)[3][1] <=> IsSeverities(s, t)
           /\ Rules(s, t)[4][1] <=> IsAttributeValues(s, t)
           /\ Rules(s, t)[5][1] <=> IsAttributeNames(s, t)
           /\ Rules(s, t)[6][1] <=> IsLogsHistogram(s, t)
           /\ Rules(s, t)[7][1] <=> IsLogs(s, t)
           /\ Rules(s, t)[8][1] <=> IsTraceWindow(s, t)
           /\ Rules(s, t)[9][1] <=> IsTraces(s, t)
           /\ Rules(s, t)[10][1] <=> IsSpans(s, t)
           /\ Rules(s, t)[11][1] <=> IsSpansHistogram(s, t)
           /\ Rules(s, t)[12][1] <=> IsSpanStats(s, t)
           /\ Rules(s, t)[13][1] <=> IsProfile(s)
           /\ Rules(s, t)[14][1] <=> IsDiff(s)
<1>1. DOMAIN Rules(s, t) = 1 .. 14
  BY SMT DEF Rules
<1>2. /\ Rules(s, t)[1][1] <=> IsServices(s, t)
      /\ Rules(s, t)[2][1] <=> IsProfileTypes(s, t)
      /\ Rules(s, t)[3][1] <=> IsSeverities(s, t)
      /\ Rules(s, t)[4][1] <=> IsAttributeValues(s, t)
      /\ Rules(s, t)[5][1] <=> IsAttributeNames(s, t)
  BY SMT DEF Rules
<1>3. /\ Rules(s, t)[6][1] <=> IsLogsHistogram(s, t)
      /\ Rules(s, t)[7][1] <=> IsLogs(s, t)
      /\ Rules(s, t)[8][1] <=> IsTraceWindow(s, t)
      /\ Rules(s, t)[9][1] <=> IsTraces(s, t)
  BY SMT DEF Rules
<1>4. /\ Rules(s, t)[10][1] <=> IsSpans(s, t)
      /\ Rules(s, t)[11][1] <=> IsSpansHistogram(s, t)
      /\ Rules(s, t)[12][1] <=> IsSpanStats(s, t)
  BY SMT DEF Rules
<1>5. /\ Rules(s, t)[13][1] <=> IsProfile(s)
      /\ Rules(s, t)[14][1] <=> IsDiff(s)
  BY SMT DEF Rules
<1> QED
  BY <1>1, <1>2, <1>3, <1>4, <1>5

LEMMA AnswerList ==
    ASSUME NEW s, NEW t
    PROVE  /\ Fits(Rules(s, t)[1][2], 1) /\ Fits(Rules(s, t)[2][2], 2)
           /\ Fits(Rules(s, t)[3][2], 1) /\ Fits(Rules(s, t)[4][2], 1)
           /\ Fits(Rules(s, t)[5][2], 1) /\ Fits(Rules(s, t)[6][2], 3)
           /\ Fits(Rules(s, t)[7][2], 7) /\ Fits(Rules(s, t)[8][2], 2)
           /\ Fits(Rules(s, t)[9][2], 2) /\ Fits(Rules(s, t)[10][2], 14)
           /\ Fits(Rules(s, t)[11][2], 4) /\ Fits(Rules(s, t)[12][2], 5)
           /\ Fits(Rules(s, t)[13][2], 2) /\ Fits(Rules(s, t)[14][2], 3)
<1>1. /\ Rules(s, t)[1][2] = <<Col("ServiceName", "String")>>
      /\ Rules(s, t)[2][2] = ProfileTypesShape
      /\ Rules(s, t)[3][2] = <<Col("severity", "Int64")>>
      /\ Rules(s, t)[4][2] = <<Col("v", "String")>>
      /\ Rules(s, t)[5][2] = <<Col("k", "String")>>
      /\ Rules(s, t)[6][2] = LogsHistogramShape
      /\ Rules(s, t)[7][2] = LogsShape
      /\ Rules(s, t)[8][2] = TraceWindowShape
      /\ Rules(s, t)[9][2] = TracesShape
      /\ Rules(s, t)[10][2] = SpanShape
      /\ Rules(s, t)[11][2] = SpansHistogramShape
      /\ Rules(s, t)[12][2] = SpanStatsShape
      /\ Rules(s, t)[13][2] = ProfileShape
      /\ Rules(s, t)[14][2] = DiffShape
  BY SMT DEF Rules
<1>2. /\ Fits(<<Col("ServiceName", "String")>>, 1) /\ Fits(<<Col("v", "String")>>, 1)
      /\ Fits(<<Col("severity", "Int64")>>, 1) /\ Fits(<<Col("k", "String")>>, 1)
  BY KnownTypes, OneColumn, Zenon
<1>3. Fits(ProfileTypesShape, 2)
  BY KnownTypes, TwoColumns, Zenon DEF ProfileTypesShape
<1>4. Fits(LogsHistogramShape, 3)
  BY KnownTypes, ThreeColumns, Zenon DEF LogsHistogramShape
<1>5. Fits(LogsShape, 7)
  BY KnownTypes, SevenColumns, Zenon DEF LogsShape
<1>6. Fits(TraceWindowShape, 2)
  BY KnownTypes, TwoColumns, Zenon DEF TraceWindowShape
<1>7. Fits(TracesShape, 2)
  BY KnownTypes, TwoColumns, Zenon DEF TracesShape
<1>8. Fits(SpansHistogramShape, 4)
  BY KnownTypes, FourColumns, Zenon DEF SpansHistogramShape
<1>9. Fits(SpanStatsShape, 5)
  BY KnownTypes, FiveColumns, Zenon DEF SpanStatsShape
<1>10. Fits(ProfileShape, 2)
  BY KnownTypes, TwoColumns, Zenon DEF ProfileShape
<1>11. Fits(DiffShape, 3)
  BY KnownTypes, ThreeColumns, Zenon DEF DiffShape
<1> QED
  BY <1>1, <1>2, <1>3, <1>4, <1>5, <1>6, <1>7, <1>8, <1>9, <1>10, <1>11,
     SpanShapeFits, Zenon

LEMMA OneOfRules ==
    ASSUME NEW i \in 1 .. 14
    PROVE  \/ i = 1 \/ i = 2 \/ i = 3 \/ i = 4 \/ i = 5 \/ i = 6 \/ i = 7
           \/ i = 8 \/ i = 9 \/ i = 10 \/ i = 11 \/ i = 12 \/ i = 13 \/ i = 14
  OBVIOUS

\* Every rule counts the columns of the statement it matches.
Selects(i, n) ==
    /\ i \in {1, 3, 4, 5} => n = 1
    /\ i \in {2, 8, 9, 13} => n = 2
    /\ i \in {6, 14} => n = 3
    /\ i = 7 => n = 7
    /\ i = 10 => n = 14
    /\ i = 11 => n = 4
    /\ i = 12 => n = 5

LEMMA RulesCount ==
    ASSUME NEW s, NEW t, NEW i \in 1 .. 14, Rules(s, t)[i][1]
    PROVE  Selects(i, Len(s.cols))
<1>1. i \in {1, 3, 4, 5} => Len(s.cols) = 1
  BY RuleList DEF IsServices, IsSeverities, IsAttributeValues, IsAttributeNames
<1>2. i \in {2, 8, 9, 13} => Len(s.cols) = 2
  BY RuleList DEF IsProfileTypes, IsTraceWindow, IsTraces, IsProfile
<1>3. i \in {6, 14} => Len(s.cols) = 3
  BY RuleList DEF IsLogsHistogram, IsDiff
<1>4. i = 7 => Len(s.cols) = 7
  BY RuleList DEF IsLogs
<1>5. i = 10 => Len(s.cols) = 14
  BY RuleList DEF IsSpans
<1>6. i = 11 => Len(s.cols) = 4
  BY RuleList DEF IsSpansHistogram
<1>7. i = 12 => Len(s.cols) = 5
  BY RuleList DEF IsSpanStats
<1> QED
  BY <1>1, <1>2, <1>3, <1>4, <1>5, <1>6, <1>7 DEF Selects

LEMMA RuleAnswers ==
    ASSUME NEW s, NEW t, NEW i \in 1 .. 14, Rules(s, t)[i][1]
    PROVE  Fits(Rules(s, t)[i][2], Len(s.cols))
<1> DEFINE n == Len(s.cols)
           answer(k) == Rules(s, t)[k][2]
<1>1. Selects(i, n)
  BY RulesCount
<1>2. /\ Fits(answer(1), 1) /\ Fits(answer(2), 2) /\ Fits(answer(3), 1)
      /\ Fits(answer(4), 1) /\ Fits(answer(5), 1) /\ Fits(answer(6), 3)
      /\ Fits(answer(7), 7) /\ Fits(answer(8), 2) /\ Fits(answer(9), 2)
      /\ Fits(answer(10), 14) /\ Fits(answer(11), 4) /\ Fits(answer(12), 5)
      /\ Fits(answer(13), 2) /\ Fits(answer(14), 3)
  BY AnswerList
<1> SUFFICES Fits(answer(i), n)
  OBVIOUS
<1> HIDE DEF n, answer
<1> QED
  BY <1>1, <1>2, OneOfRules, SMT DEF Selects

LEMMA NatOrdered ==
    \E R : IsWellFoundedOn(R, Nat) /\ \A x, y \in Nat : x < y => <<x, y>> \in R
<1>1. \A x, y \in Nat : x < y => <<x, y>> \in OpToRel(<, Nat)
  BY DEF OpToRel
<1> QED
  BY <1>1, NatLessThanWellFounded, Zenon

LEMMA LeastRule ==
    ASSUME NEW I \in SUBSET (1 .. 14), I # {}
    PROVE  Min(I) \in I
<1>1. PICK R : IsWellFoundedOn(R, Nat) /\ \A x, y \in Nat : x < y => <<x, y>> \in R
  BY NatOrdered
<1>2. I \subseteq Nat
  OBVIOUS
<1>3. PICK i \in I : \A j \in I : ~(<<j, i>> \in R)
  <2>1. IsWellFoundedOn(R, Nat)
    BY <1>1
  <2> QED
    BY <1>2, <2>1, WFMin
<1>4. \A j \in I : ~(j < i)
  BY <1>1, <1>2, <1>3, Zenon
<1>5. \A j \in I : i =< j
  BY <1>4
<1> QED
  BY <1>5, Zenon DEF Min

-----------------------------------------------------------------------------
\* Whatever a statement is and selects from, recognise refuses it, or answers it
\* with as many columns as it selects, each of a type newAppender knows: rows.Scan
\* (encode.go:219) has a place for every cell, and Coroot a cell for every column
\* (extract.go:47-207).
THEOREM AnswerHasItsColumns ==
    ASSUME NEW s, NEW t
    PROVE  \/ ShapeFor(s, t) = NoShape
           \/ /\ Len(ShapeFor(s, t)) = Len(s.cols)
              /\ \A c \in 1 .. Len(s.cols) : ShapeFor(s, t)[c].type \in ColumnTypes
<1> DEFINE hits == {i \in DOMAIN Rules(s, t) : Rules(s, t)[i][1]}
<1>1. CASE hits = {}
  BY <1>1, Zenon DEF ShapeFor
<1>2. CASE hits # {}
  <2>1. hits \in SUBSET (1 .. 14)
    BY RuleList, Zenon
  <2>2. Min(hits) \in hits
    BY <1>2, <2>1, LeastRule, Zenon
  <2>3. Fits(Rules(s, t)[Min(hits)][2], Len(s.cols))
    BY <2>1, <2>2, RuleAnswers, Zenon
  <2>4. ShapeFor(s, t) = Rules(s, t)[Min(hits)][2]
    BY <1>2, Zenon DEF ShapeFor
  <2> QED
    BY <2>3, <2>4, Zenon DEF Fits
<1> QED
  BY <1>1, <1>2, Zenon

\* No statement is two of the first twelve queries: asked in any other order,
\* they would answer it with the same shape.  Only the two rules about a CTE
\* called samples have to be asked last (extract.go:50-204).
THEOREM NoRuleTakesAnothers ==
    ASSUME NEW s, NEW t, NEW i \in 1 .. 12, NEW j \in 1 .. 12,
           Rules(s, t)[i][1], Rules(s, t)[j][1]
    PROVE  i = j
<1>1. Selects(i, Len(s.cols)) /\ Selects(j, Len(s.cols))
  <2>1. i \in 1 .. 14 /\ j \in 1 .. 14
    OBVIOUS
  <2> QED
    BY <2>1, RulesCount
<1>2. ~(IsServices(s, t) /\ (IsSeverities(s, t) \/ IsAttributeValues(s, t)))
  BY DEF IsServices, IsSeverities, IsAttributeValues, ServiceTables
<1>3. ~(/\ IsAttributeNames(s, t)
        /\ IsServices(s, t) \/ IsSeverities(s, t) \/ IsAttributeValues(s, t))
  BY Zenon DEF IsAttributeNames, IsServices, IsSeverities, IsAttributeValues
<1>4. ~(IsSeverities(s, t) /\ IsAttributeValues(s, t))
  BY DEF IsSeverities, IsAttributeValues, ArrayJoined, IsCall, Null, Node
<1>5. ~(IsTraceWindow(s, t) /\ (IsProfileTypes(s, t) \/ IsTraces(s, t)))
  BY DEF IsTraceWindow, IsProfileTypes, IsTraces, IsCall
<1>6. ~(IsProfileTypes(s, t) /\ IsTraces(s, t))
  BY DEF IsProfileTypes, IsTraces, IsIdent, IsCall, IsAnyCall
<1>7. i \in {1, 3, 4, 5} /\ j \in {1, 3, 4, 5} => i = j
  BY <1>2, <1>3, <1>4, RuleList
<1>8. i \in {2, 8, 9} /\ j \in {2, 8, 9} => i = j
  BY <1>5, <1>6, RuleList
<1> QED
  <2> DEFINE n == Len(s.cols)
  <2>1. Selects(i, n) /\ Selects(j, n)
    BY <1>1
  <2> HIDE DEF n
  <2> QED
    BY <2>1, <1>7, <1>8, OneOfRules DEF Selects
=============================================================================
