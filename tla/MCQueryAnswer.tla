---------------------------- MODULE MCQueryAnswer ----------------------------
(***************************************************************************)
(* QueryAnswer for TLC, with the Translate of module Translator: what it   *)
(* makes of queries of the catalogue, from their text.                     *)
(***************************************************************************)
EXTENDS QueryAnswer

Coroot == INSTANCE CorootSql

\* Of queries of the catalogue, what Translate makes of their text.
TranslatedOf(queries) ==
    [q \in queries |-> Coroot!Translate(Coroot!WrittenStatement(Coroot!Catalogue[q].stmt))]

\* Their shapes have every type of newAppender but Float64, which differs from
\* Int64 in one form.
FiveQueries == TranslatedOf({"logs", "logsHistogram", "traceWindow", "traces", "spans"})
OneQuery == TranslatedOf({"logs"})
=============================================================================
