----------------------------- MODULE InsertHeader -----------------------------
(***************************************************************************)
(* The text that begins an INSERT: as Coroot writes it, and as             *)
(* ExtractValues (extractor/values.go) reads it.  A text is as in Sql.     *)
(***************************************************************************)
EXTENDS Sql, Records

DoubleQuote == "DOUBLEQUOTE"
Quotes == {BackQuote, DoubleQuote}

\* The pieces of a text between separators.
Pieces(text, separator) ==
    LET places == SelectSeq([i \in DOMAIN text |-> i], LAMBDA i : text[i] = separator)
        cuts == <<0>> \o places \o <<Len(text) + 1>>
    IN  [k \in 1 .. Len(cuts) - 1 |-> SubSeq(text, cuts[k] + 1, cuts[k + 1] - 1)]

Unspaced(text) == SelectSeq(text, LAMBDA ch : ch # " ")

\* A text without the quotes at its ends.
Trimmed(text) ==
    LET Bare(ch) == ch \notin Quotes
    IN  IF SelectInSeq(text, Bare) = 0 THEN <<>>
        ELSE SubSeq(text, SelectInSeq(text, Bare), SelectLastInSeq(text, Bare))

\* Mutant of Target: the database stays in the name.
Qualified(name) == name

\* A table's name without its database.
Target(name) == Last(Pieces(name, "."))

\* ExtractValues.  The name is quoted as a whole or not at all.
ExtractValues(text) ==
    LET open == SelectInSeq(text, LAMBDA ch : ch = "(")
        close == SelectInSeq(text, LAMBDA ch : ch = ")")
        head == Unspaced(SubSeq(text, 1, open - 1))
        name == Trimmed(SubSeq(head, 3, Len(head)))
        cols == Pieces(SubSeq(text, open + 1, close - 1), ",")
        names == [i \in DOMAIN cols |-> Trimmed(Unspaced(cols[i]))]
        given == SelectSeq(names, LAMBDA n : n # <<>>)
    IN  IF /\ 0 < open /\ open < close
           /\ SubSeq(head, 1, 2) = <<"INSERT", "INTO">>
           /\ name # <<>> /\ name[1] # "." /\ \A i \in DOMAIN name : name[i] \notin Quotes
           /\ given # <<>>
        THEN [ok |-> TRUE, table |-> Target(name), names |-> given]
        ELSE NoInsert

-----------------------------------------------------------------------------
\* Coroot.  Ways to write the name of a table: the last one quotes its parts.
Styles == {"bare", "quoted", "qualified", "quoted parts"}

TableText(style, t) ==
    CASE style = "bare" -> <<t>>
      [] style = "quoted" -> <<BackQuote, t, BackQuote>>
      [] style = "qualified" -> <<"coroot", ".", t>>
      [] style = "quoted parts" -> <<BackQuote, "coroot", BackQuote, ".", BackQuote, t, BackQuote>>

Quoted(name) == <<DoubleQuote>> \o name \o <<DoubleQuote>>

InsertText(w) ==
    <<"INSERT", " ", "INTO", " ">> \o TableText(w.style, w.table) \o <<" ">>
    \o InParentheses(Listed(Each(w.cols, LAMBDA n : IF w.style = "bare" THEN n ELSE Quoted(n))))
    \o <<" ", "VALUES">>
=============================================================================
