----------------------------- MODULE Translator -----------------------------
(***************************************************************************)
(* Translate (translate/translate.go): a statement is parsed, recognised   *)
(* and rendered.                                                           *)
(***************************************************************************)
EXTENDS Extractor, Reader, Recognise

\* The leftmost table of FROM; "" for a derived table.
RECURSIVE LeftTable(_)
LeftTable(f) ==
    CASE f.op = "table" -> f.x[1]
      [] f.op \in {"join", "comma"} -> LeftTable(f.args[1])
      [] f.op = "derived" -> ""

TableOf(s) == IF s.from = <<>> THEN "" ELSE LeftTable(s.from[1])

Recognised(s) == ShapeFor(s, TableOf(s))

\* Translate, of a statement: ErrUnknownQuery, or the shape the answer is encoded
\* with.
TranslateStatement(s) ==
    IF Recognised(s) # NoShape /\ Fails(ReadStarRocks(s)) THEN NoShape ELSE Recognised(s)

TranslateRead(read) == IF read = Failed THEN NoShape ELSE TranslateStatement(read.e)

Translate(text) == TranslateRead(Extract(text))
=============================================================================
