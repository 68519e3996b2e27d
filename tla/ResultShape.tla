----------------------------- MODULE ResultShape -----------------------------
(***************************************************************************)
(* ResultShape of translate/translate.go: the columns an answer has, as    *)
(* recognise names them and encodeRows fills them.                         *)
(***************************************************************************)
EXTENDS Sequences

\* The column types newAppender knows.
ColumnTypes ==
    {"String", "Int64", "UInt64", "Float64", "DateTime", "DateTime64(9)", "Array(String)",
     "Array(DateTime64(9))", "Map(String,String)", "Array(Map(String,String))"}

\* A result shape: the name and the type of every column.
Shapes == Seq([name : STRING, type : ColumnTypes])

NoShape == <<>>
=============================================================================
