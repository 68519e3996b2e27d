-------------------------- MODULE QueryAnswerProofs --------------------------
(***************************************************************************)
(* Proofs about QueryAnswer, for every Translator, every number of rows    *)
(* and every cell.  AnswerInv is inductive: between two steps of           *)
(* encodeRows every column has the cells of the rows before the one in     *)
(* hand, the columns in front of the loop's index that one's too, and only *)
(* what no probe matches has got that far.                                 *)
(***************************************************************************)
EXTENDS QueryAnswer, TLAPS

-----------------------------------------------------------------------------
\* The inductive invariant.

\* How many cells column c has: those behind the loop's index lack the last.
Filled(c) == IF pc = "cells" /\ c >= at THEN Len(table) - 1 ELSE Len(table)

\* The columns hold the cells of the rows, each at its row's place.
ColumnsOfRows ==
    /\ columns \in [DOMAIN shape -> Seq(CellForms)]
    /\ \A c \in DOMAIN shape :
        /\ Len(columns[c]) = Filled(c)
        /\ \A r \in 1 .. Filled(c) : columns[c][r] = table[r][c]

\* Where the handler is.
Place ==
    /\ pc \in {"classify", "ask", "rows", "cells", "done"}
    /\ pc \in {"classify", "ask"} => table = <<>>
    /\ pc \in {"ask", "rows", "cells"} => shape # NoShape
    /\ pc = "cells" => at \in DOMAIN shape /\ table # <<>>
    /\ pc # "done" => reply = NoReply

\* Only a text that no probe matches is asked of StarRocks; one that a probe
\* matches has the answer of the first that does.
ProbesFirst ==
    body.verb # "INSERT" /\ IsProbe =>
        /\ pc \in {"classify", "done"}
        /\ pc = "done" => reply.names = Probes[SystemMatch(body.words)][2]

AnswerInv ==
    /\ body.query \in Queries \cup {""}
    /\ shape \in Shapes
    /\ table \in Seq([DOMAIN shape -> CellForms])
    /\ Place
    /\ pc \in {"rows", "cells"} => ColumnsOfRows
    /\ ProbesFirst
    /\ ResultIsComplete

-----------------------------------------------------------------------------
\* Rows, cells and probes.

LEMMA NativeForm ==
    ASSUME NEW type \in ColumnTypes
    PROVE  Native(type) \in CellForms
<1> DEFINE Fits(form) == Accepts(type, form) /\ (type = "String" => form = "text")
<1>1. \E form \in CellForms \ {""} : Fits(form)
  <2>1. \/ Fits("text") \/ Fits("integer") \/ Fits("strings") \/ Fits("times")
        \/ Fits("map") \/ Fits("maps")
    BY DEF ColumnTypes, Accepts
  <2>2. {"text", "integer", "strings", "times", "map", "maps"} \subseteq CellForms \ {""}
    BY DEF CellForms
  <2> QED
    BY <2>1, <2>2
<1> HIDE DEF Fits
<1>2. (CHOOSE form \in CellForms \ {""} : Fits(form)) \in CellForms
  BY <1>1
<1> QED
  BY <1>2 DEF Native, Fits

LEMMA ShapeFacts ==
    ASSUME NEW s \in Shapes
    PROVE  /\ DOMAIN s = 1 .. Len(s) /\ Len(s) \in Nat
           /\ s # NoShape => 1 \in DOMAIN s
<1> DEFINE columnTypes == [name : STRING, type : ColumnTypes]
<1>1. s \in Seq(columnTypes)
  BY DEF Shapes
<1> HIDE DEF columnTypes
<1> QED
  BY <1>1 DEF NoShape

\* A row has a cell for every column of the shape.
LEMMA RowsFit == shape \in Shapes => Rows \subseteq [DOMAIN shape -> CellForms]
<1> SUFFICES ASSUME shape \in Shapes
             PROVE  Rows \subseteq [DOMAIN shape -> CellForms]
  OBVIOUS
<1> DEFINE native == [i \in DOMAIN shape |-> Native(shape[i].type)]
<1>1. \A i \in DOMAIN shape : shape[i].type \in ColumnTypes
  <2> DEFINE columnTypes == [name : STRING, type : ColumnTypes]
  <2>1. shape \in Seq(columnTypes)
    BY DEF Shapes
  <2>2. \A col \in columnTypes : col.type \in ColumnTypes
    OBVIOUS
  <2> HIDE DEF columnTypes
  <2> QED
    BY <2>1, <2>2
<1>2. native \in [DOMAIN shape -> CellForms]
  BY <1>1, NativeForm
<1> HIDE DEF native
<1>3. \A i \in DOMAIN shape, form \in CellForms :
          [native EXCEPT ![i] = form] \in [DOMAIN shape -> CellForms]
  BY <1>2
<1>4. Rows = {native} \cup {[native EXCEPT ![i] = form] : i \in DOMAIN shape, form \in CellForms}
  BY DEF Rows, native
<1> QED
  BY <1>2, <1>3, <1>4

LEMMA NineProbes == DOMAIN Probes = 1 .. 9
BY DEF Probes

\* The words of a probe match no probe in front of it.
LEMMA FirstMatch ==
    ASSUME NEW p \in DOMAIN Probes
    PROVE  SystemMatch(Probes[p][1]) = p
<1>1. DOMAIN Probes = 1 .. 9
  BY NineProbes
<1>2. \A j \in 1 .. 9 : j < p => ~(Probes[j][1] \subseteq Probes[p][1])
  <2> DEFINE words(j) == Probes[j][1]
             cloud == "clickhouse cloud"
             engine == "engine = 'Distributed'"
             current == "currentdatabase()"
             plain == {"system.zookeeper", "system.tables", "system.clusters", "system.parts",
                       "partition_id", "metadata_modification_time", "system.disks"}
  <2>1. /\ words(1) = {"system.zookeeper"} /\ words(2) = {cloud}
        /\ words(3) = {"system.tables", engine} /\ words(4) = {"system.clusters"}
    BY DEF Probes
  <2>2. /\ words(5) = {"system.parts", "partition_id"} /\ words(6) = {"system.parts"}
        /\ words(7) = {current}
    BY DEF Probes
  <2>3. /\ words(8) = {"system.tables", "metadata_modification_time"}
        /\ words(9) = {"system.disks"}
    BY DEF Probes
  <2>4. /\ cloud \notin plain /\ engine \notin plain /\ current \notin plain
        /\ cloud # engine /\ cloud # current /\ engine # current
    OBVIOUS
  <2> HIDE DEF words, cloud, engine, current
  <2>5. \A k \in 1 .. 9 : \/ k = 1 \/ k = 2 \/ k = 3 \/ k = 4 \/ k = 5 \/ k = 6
                          \/ k = 7 \/ k = 8 \/ k = 9
    OBVIOUS
  <2>6. \/ p = 1 \/ p = 2 \/ p = 3 \/ p = 4 \/ p = 5 \/ p = 6 \/ p = 7 \/ p = 8 \/ p = 9
    BY <1>1, <2>5
  <2>7. /\ "system.zookeeper" \in words(p) => p = 1
        /\ cloud \in words(p) => p = 2
        /\ engine \in words(p) => p = 3
        /\ "system.clusters" \in words(p) => p = 4
    BY <2>1, <2>2, <2>3, <2>4, <2>6
  <2>8. /\ "partition_id" \in words(p) => p = 5
        /\ "system.parts" \in words(p) => p \in {5, 6}
        /\ current \in words(p) => p = 7
        /\ "metadata_modification_time" \in words(p) => p = 8
    BY <2>1, <2>2, <2>3, <2>4, <2>6
  <2>9. ASSUME NEW j \in 1 .. 9, j < p, words(j) \subseteq words(p)
        PROVE  FALSE
    <3>1. \/ j = 1 \/ j = 2 \/ j = 3 \/ j = 4 \/ j = 5 \/ j = 6 \/ j = 7 \/ j = 8
      BY <1>1, <2>5, <2>9
    <3>2. /\ j = 1 => "system.zookeeper" \in words(p)
          /\ j = 2 => cloud \in words(p)
          /\ j = 4 => "system.clusters" \in words(p)
          /\ j = 7 => current \in words(p)
      BY <2>1, <2>2, <2>9
    <3>3. /\ j = 3 => engine \in words(p)
          /\ j = 5 => "partition_id" \in words(p)
          /\ j = 6 => "system.parts" \in words(p)
          /\ j = 8 => "metadata_modification_time" \in words(p)
      BY <2>1, <2>2, <2>3, <2>9
    <3> QED
      BY <1>1, <2>7, <2>8, <2>9, <3>1, <3>2, <3>3
  <2> QED
    BY <2>9 DEF words
<1>3. p \in Matching(Probes[p][1]) /\ Matching(Probes[p][1]) \subseteq 1 .. 9
  BY <1>1 DEF Matching
<1>4. \A j \in Matching(Probes[p][1]) : p <= j
  BY <1>1, <1>2 DEF Matching
<1>5. Min(Matching(Probes[p][1])) = p
  BY <1>1, <1>3, <1>4 DEF Min
<1> QED
  BY <1>3, <1>5 DEF SystemMatch

-----------------------------------------------------------------------------
\* Each action.

\* A cell more in the column of the loop's index.
LEMMA AppendHolds ==
    ASSUME AnswerInv, AppendCell
    PROVE  AnswerInv'
<1> DEFINE n == Len(table)
<1>1. /\ shape \in Shapes /\ at \in DOMAIN shape /\ DOMAIN shape = 1 .. Len(shape)
      /\ Len(shape) \in Nat
  BY ShapeFacts DEF AnswerInv, Place, AppendCell
<1>2. n \in Nat /\ n > 0 /\ Cell \in CellForms
  <2>1. table \in Seq([DOMAIN shape -> CellForms]) /\ table # <<>>
    BY DEF AnswerInv, Place, AppendCell
  <2>2. n \in Nat \ {0} /\ table[n] \in [DOMAIN shape -> CellForms]
    BY <2>1
  <2> QED
    BY <1>1, <2>2 DEF Cell
<1>3. /\ columns \in [DOMAIN shape -> Seq(CellForms)]
      /\ \A c \in DOMAIN shape :
            /\ Len(columns[c]) = IF c >= at THEN n - 1 ELSE n
            /\ \A r \in 1 .. Len(columns[c]) : columns[c][r] = table[r][c]
  BY DEF AnswerInv, AppendCell, ColumnsOfRows, Filled
<1>4. /\ columns' = [columns EXCEPT ![at] = Append(columns[at], Cell)]
      /\ Cell = table[n][at] /\ reply' = reply
      /\ at' = at + 1 /\ pc' = IF at = Len(shape) THEN "rows" ELSE "cells"
      /\ UNCHANGED <<body, shape, table, broken>>
  BY DEF AppendCell, Cell
<1> HIDE DEF n
<1>5. Len(columns'[at]) = n /\ columns'[at] \in Seq(CellForms)
  BY <1>1, <1>2, <1>3, <1>4
<1>6. \A r \in 1 .. n : columns'[at][r] = table[r][at]
  <2>1. columns[at] \in Seq(CellForms) /\ Len(columns[at]) = n - 1
    BY <1>1, <1>2, <1>3
  <2>2. columns'[at] = Append(columns[at], Cell)
    BY <1>1, <1>3, <1>4
  <2>3. \A r \in 1 .. n - 1 : Append(columns[at], Cell)[r] = columns[at][r]
    BY <1>2, <2>1
  <2>4. Append(columns[at], Cell)[n] = Cell
    BY <1>2, <2>1
  <2> QED
    BY <1>1, <1>2, <1>3, <1>4, <2>1, <2>2, <2>3, <2>4
<1>7. \A c \in DOMAIN shape \ {at} : columns'[c] = columns[c]
  BY <1>3, <1>4
<1>8. \A c \in DOMAIN shape : Filled(c)' = IF c > at THEN n - 1 ELSE n
  BY <1>1, <1>4 DEF Filled, n
<1>9. ColumnsOfRows'
  <2>1. columns' \in [DOMAIN shape -> Seq(CellForms)]
    BY <1>1, <1>2, <1>3, <1>4
  <2>2. ASSUME NEW c \in DOMAIN shape
        PROVE  /\ Len(columns'[c]) = Filled(c)'
               /\ \A r \in 1 .. Filled(c)' : columns'[c][r] = table[r][c]
    <3>1. CASE c = at
      BY <1>1, <1>5, <1>6, <1>8, <3>1
    <3>2. CASE c # at
      BY <1>1, <1>3, <1>7, <1>8, <3>2
    <3> QED
      BY <3>1, <3>2
  <2> QED
    BY <1>4, <2>1, <2>2 DEF ColumnsOfRows
<1>10. Place'
  <2>1. pc = "cells" /\ reply = NoReply /\ table # <<>> /\ shape # NoShape
    BY DEF AnswerInv, Place, AppendCell
  <2>2. at # Len(shape) => at + 1 \in DOMAIN shape
    BY <1>1
  <2> QED
    BY <1>1, <1>4, <2>1, <2>2 DEF Place
<1>11. ProbesFirst' /\ ResultIsComplete'
  <2>1. pc \notin {"classify", "done"} /\ reply = NoReply
    BY DEF AnswerInv, Place, AppendCell
  <2>2. pc' # "done"
    BY <1>4
  <2> QED
    BY <1>4, <2>1, <2>2 DEF AnswerInv, ProbesFirst, IsProbe, ResultIsComplete, NoReply
<1> QED
  BY <1>4, <1>9, <1>10, <1>11 DEF AnswerInv

\* A row is in hand, and the loop over its cells begins.
LEMMA NextRowHolds ==
    ASSUME AnswerInv, NextRow
    PROVE  AnswerInv'
<1>1. /\ shape \in Shapes /\ table \in Seq([DOMAIN shape -> CellForms])
      /\ Len(table) \in Nat
  <2>1. shape \in Shapes /\ table \in Seq([DOMAIN shape -> CellForms])
    BY DEF AnswerInv
  <2> QED
    BY <2>1
<1>2. PICK row \in Rows : table' = Append(table, row)
  BY DEF NextRow
<1>3. row \in [DOMAIN shape -> CellForms]
  BY <1>1, <1>2, RowsFit
<1>4. /\ pc = "rows" /\ pc' = "cells" /\ at' = 1
      /\ UNCHANGED <<body, shape, broken, columns, reply>>
  BY DEF NextRow
<1>5. /\ table' \in Seq([DOMAIN shape -> CellForms]) /\ table' # <<>>
      /\ Len(table') = Len(table) + 1
      /\ \A r \in 1 .. Len(table) : table'[r] = table[r]
  BY <1>1, <1>2, <1>3
<1>6. \A c \in DOMAIN shape : Filled(c) = Len(table) /\ Filled(c)' = Len(table)
  BY <1>1, <1>4, <1>5 DEF Filled
<1>7. ColumnsOfRows'
  BY <1>1, <1>4, <1>5, <1>6 DEF AnswerInv, ColumnsOfRows
<1>8. Place'
  <2>1. 1 \in DOMAIN shape /\ shape # NoShape /\ reply = NoReply
    BY <1>4, ShapeFacts DEF AnswerInv, Place
  <2> QED
    BY <1>4, <1>5, <2>1 DEF Place
<1>9. ProbesFirst'
  BY <1>4 DEF AnswerInv, ProbesFirst, IsProbe
<1>10. ResultIsComplete'
  <2>1. reply' = NoReply
    BY <1>4 DEF AnswerInv, Place
  <2> QED
    BY <2>1 DEF ResultIsComplete, NoReply
<1> QED
  BY <1>1, <1>4, <1>5, <1>7, <1>8, <1>9, <1>10 DEF AnswerInv

\* The block that is sent has all cells of all rows.
LEMMA EndHolds ==
    ASSUME AnswerInv, EndRows
    PROVE  AnswerInv'
<1>1. /\ pc = "rows" /\ pc' = "done" /\ UNCHANGED <<body, shape, table, broken, columns, at>>
      /\ reply' = IF broken THEN Exception
                  ELSE Data([i \in DOMAIN shape |-> shape[i].name], columns)
  BY DEF EndRows, RowsErr, Send, encoding
<1>2. ResultIsComplete'
  <2>1. CASE broken
    BY <1>1, <2>1 DEF ResultIsComplete, Exception, NoReply
  <2>2. CASE ~broken
    <3>1. reply'.cells = columns /\ table \in Seq([DOMAIN shape -> CellForms])
      BY <1>1, <2>2 DEF Data, AnswerInv
    <3>2. ASSUME NEW c \in DOMAIN shape
          PROVE  columns[c] = [r \in DOMAIN table |-> table[r][c]]
      <4>1. /\ columns[c] \in Seq(CellForms) /\ Len(columns[c]) = Len(table)
            /\ \A r \in 1 .. Len(table) : columns[c][r] = table[r][c]
        BY <1>1 DEF AnswerInv, ColumnsOfRows, Filled
      <4> QED
        BY <3>1, <4>1
    <3>3. DOMAIN columns = DOMAIN shape
      BY <1>1 DEF AnswerInv, ColumnsOfRows
    <3> QED
      BY <1>1, <2>2, <3>1, <3>2, <3>3 DEF ResultIsComplete, Data
  <2> QED
    BY <2>1, <2>2
<1>3. ProbesFirst' /\ Place'
  BY <1>1 DEF AnswerInv, ProbesFirst, IsProbe, Place
<1> QED
  BY <1>1, <1>2, <1>3 DEF AnswerInv

\* A reply without rows.
LEMMA ReplyHolds ==
    ASSUME AnswerInv, pc # "done", NEW r, Send(r), UNCHANGED <<body, encoding>>,
           r.cells = <<>>,
           body.verb # "INSERT" /\ IsProbe => r.names = Probes[SystemMatch(body.words)][2]
    PROVE  AnswerInv'
<1>1. /\ pc' = "done" /\ reply' = r
      /\ UNCHANGED <<body, shape, table, broken, columns, at>>
  BY DEF Send, encoding
<1>2. ResultIsComplete'
  BY <1>1 DEF ResultIsComplete
<1>3. ProbesFirst' /\ Place'
  BY <1>1 DEF ProbesFirst, IsProbe, Place
<1> QED
  BY <1>1, <1>2, <1>3 DEF AnswerInv

\* AnswerInv is inductive.
LEMMA Inductive == AnswerInv /\ [Next]_vars => AnswerInv'
<1> SUFFICES ASSUME AnswerInv, [Next]_vars
             PROVE  AnswerInv'
  OBVIOUS
<1>1. CASE HandOnInsert
  BY <1>1, ReplyHolds DEF HandOnInsert, NoReply
<1>2. CASE AnswerProbe
  BY <1>2, ReplyHolds DEF AnswerProbe, Data
<1>3. CASE SwallowDdl
  BY <1>3, ReplyHolds DEF SwallowDdl, Data
<1>4. CASE Reject
  BY <1>4, ReplyHolds DEF Reject, Exception, NoReply
<1>5. CASE Ask
  <2>1. /\ pc = "classify" /\ pc' = "ask" /\ ~IsProbe /\ shape' = Translation
        /\ UNCHANGED <<body, table, broken, columns, at, reply>>
    BY <1>5 DEF Ask
  <2>2. shape' \in Shapes
    <3>1. NoShape \in Shapes
      BY DEF NoShape, Shapes
    <3> QED
      BY <2>1, <3>1, QueryAnswerAssumption DEF AnswerInv, Translation
  <2>3. table = <<>> /\ reply = NoReply
    BY <2>1 DEF AnswerInv, Place
  <2>4. <<>> \in Seq([DOMAIN shape' -> CellForms])
    OBVIOUS
  <2>5. shape' # NoShape
    BY <1>5 DEF Ask
  <2>6. Place' /\ ProbesFirst'
    BY <2>1, <2>3, <2>5 DEF Place, ProbesFirst, IsProbe
  <2>7. ResultIsComplete'
    BY <2>1, <2>3 DEF ResultIsComplete, NoReply
  <2> QED
    BY <2>1, <2>2, <2>3, <2>4, <2>6, <2>7 DEF AnswerInv
<1>6. CASE StarRocksRefuses \/ BadCell
  <2>1. Send(Exception) /\ pc \in {"ask", "cells"} /\ UNCHANGED <<body, encoding>>
    BY <1>6 DEF StarRocksRefuses, BadCell
  <2>2. ~(body.verb # "INSERT" /\ IsProbe)
    BY <2>1 DEF AnswerInv, ProbesFirst
  <2> QED
    BY <2>1, <2>2, ReplyHolds DEF Exception, NoReply
<1>7. CASE StarRocksAccepts
  <2>1. /\ pc = "ask" /\ pc' = "rows" /\ columns' = [i \in DOMAIN shape |-> <<>>]
        /\ UNCHANGED <<body, shape, table, broken, at, reply>>
    BY <1>7 DEF StarRocksAccepts
  <2>2. table = <<>> /\ reply = NoReply
    BY <2>1 DEF AnswerInv, Place
  <2>3. ColumnsOfRows'
    <3>1. \A c \in DOMAIN shape : Filled(c)' = 0
      BY <2>1, <2>2 DEF Filled
    <3>2. <<>> \in Seq(CellForms) /\ Len(<<>>) = 0
      OBVIOUS
    <3> QED
      BY <2>1, <3>1, <3>2 DEF ColumnsOfRows
  <2>4. Place' /\ ProbesFirst'
    BY <2>1, <2>2 DEF AnswerInv, Place, ProbesFirst, IsProbe
  <2>5. ResultIsComplete'
    BY <2>1, <2>2 DEF ResultIsComplete, NoReply
  <2> QED
    BY <2>1, <2>2, <2>3, <2>4, <2>5 DEF AnswerInv
<1>8. CASE BreakOff
  <2>1. pc = "rows" /\ broken' /\ UNCHANGED <<body, pc, shape, table, columns, at, reply>>
    BY <1>8 DEF BreakOff
  <2>2. ColumnsOfRows'
    BY <2>1 DEF AnswerInv, ColumnsOfRows, Filled
  <2>3. Place' /\ ProbesFirst'
    BY <2>1 DEF AnswerInv, Place, ProbesFirst, IsProbe
  <2>4. ResultIsComplete'
    <3>1. reply' = NoReply
      BY <2>1 DEF AnswerInv, Place
    <3> QED
      BY <3>1 DEF ResultIsComplete, NoReply
  <2> QED
    BY <2>1, <2>2, <2>3, <2>4 DEF AnswerInv
<1>9. CASE UNCHANGED vars
  <2>1. UNCHANGED <<body, pc, shape, table, broken, columns, at, reply>>
    BY <1>9 DEF vars, encoding
  <2>2. Place' /\ ProbesFirst' /\ (pc' \in {"rows", "cells"} => ColumnsOfRows')
    BY <2>1 DEF AnswerInv, Place, ColumnsOfRows, Filled, ProbesFirst, IsProbe
  <2>3. ResultIsComplete'
    BY <2>1 DEF AnswerInv, ResultIsComplete
  <2> QED
    BY <2>1, <2>2, <2>3 DEF AnswerInv
<1> QED
  BY <1>1, <1>2, <1>3, <1>4, <1>5, <1>6, <1>7, <1>8, <1>9, NextRowHolds, AppendHolds, EndHolds
     DEF Next

-----------------------------------------------------------------------------
\* The theorems.

LEMMA InitAnswer == Init => AnswerInv
<1> SUFFICES ASSUME Init
             PROVE  AnswerInv
  OBVIOUS
<1>1. body.query \in Queries \cup {""}
  BY DEF Init, Bodies
<1>2. NoShape \in Shapes /\ <<>> \in Seq([DOMAIN shape -> CellForms])
  BY DEF NoShape, Shapes
<1>3. Place /\ ProbesFirst /\ ResultIsComplete
  BY DEF Init, Place, ProbesFirst, ResultIsComplete, NoReply
<1> QED
  BY <1>1, <1>2, <1>3 DEF Init, AnswerInv

\* AnswerInv holds of every behaviour.
THEOREM AnswerInvariance == Spec => []AnswerInv
BY InitAnswer, Inductive, PTL DEF Spec

\* Whatever the Translator knows and StarRocks sends, a block built from rows is
\* the whole result (encodeRows and rows.Err, encode.go:218-230).
THEOREM ResultsComplete == Spec => []ResultIsComplete
<1>1. AnswerInv => ResultIsComplete
  BY DEF AnswerInv
<1> QED
  BY <1>1, AnswerInvariance, PTL

\* Each probe of Coroot's gets its own answer (systemRegistry and its order,
\* system.go:34-147).
THEOREM ProbesGetTheirAnswers == Spec => []ProbesAnswered
<1>1. AnswerInv => ProbesAnswered
  <2> SUFFICES ASSUME AnswerInv, NEW i \in DOMAIN Probes, pc = "done",
                      body.verb \in {"SELECT", "EXISTS"}, body.words = Probes[i][1]
               PROVE  reply.names = Probes[i][2]
    BY DEF ProbesAnswered
  <2>1. SystemMatch(body.words) = i
    BY FirstMatch
  <2>2. i # 0
    BY NineProbes
  <2> QED
    BY <2>1, <2>2 DEF AnswerInv, ProbesFirst, IsProbe
<1> QED
  BY <1>1, AnswerInvariance, PTL
=============================================================================
