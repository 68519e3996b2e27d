---------------------------- MODULE QueryAnswer ----------------------------
(***************************************************************************)
(* How one Query packet is answered (handleQuery, chserver/server.go): its *)
(* text is classified, a system probe gets a canned block, DDL an empty    *)
(* one, a recognised SELECT the rows StarRocks returns, encoded cell by    *)
(* cell (encodeRows, chserver/encode.go); what fails gets an exception.    *)
(*                                                                         *)
(* A text is its leading keyword, the catalogue query it is ("" for none)  *)
(* and the probe substrings it contains, in identifiers or in literals: a  *)
(* log or trace search carries whatever the user typed.  What Translate    *)
(* makes of the queries is a parameter (module Translator has it): nothing *)
(* here depends on which queries it knows.                                 *)
(***************************************************************************)
EXTENDS ResultShape, Integers, FiniteSets, FiniteSetsExt

CONSTANTS
    Translated, \* the shape Translate gives to each query Coroot asks, or NoShape
    MaxRows,    \* bound: rows of a StarRocks result
    MaxWords    \* bound: probe substrings in the literals of a query

Queries == DOMAIN Translated

ASSUME QueryAnswerAssumption ==
    /\ "" \notin Queries
    /\ \A q \in Queries : Translated[q] \in Shapes
    /\ MaxRows \in Nat /\ MaxWords \in Nat

VARIABLES
    body,       \* the text of the query
    pc,         \* "classify", "ask", "rows", "cells" or "done"
    shape,      \* tr.Shape: what Translate made of the query
    table,      \* history: the rows StarRocks has delivered
    broken,     \* history: StarRocks broke the result off
    columns,    \* the columns encodeRows is filling
    at,         \* the column whose cell is appended next
    reply       \* [kind, names, cells]

encoding == <<shape, table, broken, columns, at>>
vars == <<body, pc, encoding, reply>>

-----------------------------------------------------------------------------
\* Probes, in the order of systemRegistry: the substrings of a probe and the
\* columns of its canned answer.

Probes ==
    << <<{"system.zookeeper"}, <<"result">> >>,
       <<{"clickhouse cloud"}, <<"result">> >>,
       <<{"system.tables", "engine = 'Distributed'"}, <<"cluster_name">> >>,
       <<{"system.clusters"},
         <<"cluster", "shard_num", "replica_num", "host_name", "port">> >>,
       <<{"system.parts", "partition_id"}, <<"database", "table", "partition_id">> >>,
       <<{"system.parts"}, <<"database", "table", "bytes_on_disk",
                             "data_uncompressed_bytes", "ttl_expr", "data_since">> >>,
       <<{"currentdatabase()"}, <<"currentDatabase()">> >>,
       <<{"system.tables", "metadata_modification_time"},
         <<"metadata_modification_time">> >>,
       <<{"system.disks"}, <<"name", "path", "free_space", "total_space", "type">> >> >>

ProbeWords == UNION {Probes[i][1] : i \in DOMAIN Probes}

Matching(words) == {i \in DOMAIN Probes : Probes[i][1] \subseteq words}

\* Mutant of SystemMatch: the last probe that matches answers.
LastMatch(words) == IF Matching(words) = {} THEN 0 ELSE Max(Matching(words))

SystemMatch(words) == IF Matching(words) = {} THEN 0 ELSE Min(Matching(words))

DdlVerbs == {"CREATE", "ALTER", "DROP", "RENAME", "SET", "USE", "TRUNCATE", "OPTIMIZE"}

Text(verb, query, words) == [verb |-> verb, query |-> query, words |-> words]

Bodies ==
    [verb : {"SELECT"}, query : Queries \cup {""},
     words : {W \in SUBSET ProbeWords : Cardinality(W) <= MaxWords}]
    \cup [verb : DdlVerbs \cup {"INSERT"}, query : {""}, words : {{}}]
    \cup [verb : {"SELECT", "EXISTS"}, query : {""},
          words : {Probes[i][1] : i \in DOMAIN Probes}]

-----------------------------------------------------------------------------
\* Cells.  What StarRocks sends for one is raw text, known here by its form;
\* a NULL is the empty text.

CellForms ==
    {"", "text", "integer", "decimal", "time", "strings", "times", "map", "maps"}

\* The text forms the column's append parses (newAppender).
Accepts(type, form) ==
    \/ type = "String"
    \/ type \in {"Int64", "UInt64"} /\ form = "integer"
    \/ type = "Float64" /\ form \in {"integer", "decimal"}
    \/ type \in {"DateTime", "DateTime64(9)"} /\ form \in {"time", "integer"}
    \/ type = "Array(String)" /\ form \in {"", "strings", "times"}
    \/ type = "Array(DateTime64(9))" /\ form \in {"", "times"}
    \/ type = "Map(String,String)" /\ form \in {"", "map"}
    \/ type = "Array(Map(String,String))" /\ form \in {"", "maps"}

\* The form a StarRocks column of the matching type comes in.
Native(type) ==
    CHOOSE form \in CellForms \ {""} :
        Accepts(type, form) /\ (type = "String" => form = "text")

\* A row comes in the native forms, one cell at most in some other form.  Its
\* width is that of the shape (ShapeFitsColumns), so that rows.Scan fits.
Rows ==
    LET native == [i \in DOMAIN shape |-> Native(shape[i].type)]
    IN  {native} \cup {[native EXCEPT ![i] = form] : i \in DOMAIN shape, form \in CellForms}

-----------------------------------------------------------------------------

NoReply == [kind |-> "none", names |-> <<>>, cells |-> <<>>]
Exception == [NoReply EXCEPT !.kind = "exception"]
Data(names, cells) == [kind |-> "data", names |-> names, cells |-> cells]

Send(r) == reply' = r /\ pc' = "done"

Init ==
    /\ body \in Bodies
    /\ pc = "classify" /\ shape = NoShape
    /\ table = <<>> /\ broken = FALSE /\ columns = <<>> /\ at = 1
    /\ reply = NoReply

\* Blocks of an INSERT are read by handleInsert (module ChServer).
HandOnInsert ==
    /\ pc = "classify" /\ body.verb = "INSERT"
    /\ Send([NoReply EXCEPT !.kind = "insert"])
    /\ UNCHANGED <<body, encoding>>

IsProbe == SystemMatch(body.words) # 0

AnswerProbe ==
    /\ pc = "classify" /\ body.verb # "INSERT" /\ IsProbe
    /\ Send(Data(Probes[SystemMatch(body.words)][2], <<>>))
    /\ UNCHANGED <<body, encoding>>

SwallowDdl ==
    /\ pc = "classify" /\ ~IsProbe /\ body.verb \in DdlVerbs
    /\ Send(Data(<<>>, <<>>))
    /\ UNCHANGED <<body, encoding>>

Translation == IF body.query = "" THEN NoShape ELSE Translated[body.query]

\* ErrUnknownQuery, the tripwire.
Reject ==
    /\ pc = "classify" /\ ~IsProbe /\ body.verb \notin DdlVerbs \cup {"INSERT"}
    /\ Translation = NoShape
    /\ Send(Exception)
    /\ UNCHANGED <<body, encoding>>

Ask ==
    /\ pc = "classify" /\ ~IsProbe /\ body.verb \notin DdlVerbs \cup {"INSERT"}
    /\ Translation # NoShape
    /\ shape' = Translation
    /\ pc' = "ask"
    /\ UNCHANGED <<body, table, broken, columns, at, reply>>

StarRocksRefuses ==
    /\ pc = "ask"
    /\ Send(Exception)
    /\ UNCHANGED <<body, encoding>>

StarRocksAccepts ==
    /\ pc = "ask"
    /\ columns' = [i \in DOMAIN shape |-> <<>>]
    /\ pc' = "rows"
    /\ UNCHANGED <<body, shape, table, broken, at, reply>>

\* rows.Next and rows.Scan: the next row is in the cells.
NextRow ==
    /\ pc = "rows" /\ ~broken /\ Len(table) < MaxRows
    /\ \E row \in Rows : table' = Append(table, row)
    /\ at' = 1 /\ pc' = "cells"
    /\ UNCHANGED <<body, shape, broken, columns, reply>>

\* What the row in the cells has for the column.
Cell == table[Len(table)][at]

AppendCell ==
    /\ pc = "cells"
    /\ Accepts(shape[at].type, Cell)
    /\ columns' = [columns EXCEPT ![at] = Append(@, Cell)]
    /\ at' = at + 1
    /\ pc' = IF at = Len(shape) THEN "rows" ELSE "cells"
    /\ UNCHANGED <<body, shape, table, broken, reply>>

BadCell ==
    /\ pc = "cells"
    /\ ~Accepts(shape[at].type, Cell)
    /\ Send(Exception)
    /\ UNCHANGED <<body, encoding>>

\* The connection to StarRocks fails amid the rows: rows.Next answers false,
\* as it does after the last row.
BreakOff ==
    /\ pc = "rows" /\ ~broken
    /\ broken' = TRUE
    /\ UNCHANGED <<body, pc, shape, table, columns, at, reply>>

\* Mutant of RowsErr: it is not asked.
NoRowsErr == FALSE

RowsErr == broken

\* rows.Next was false.
EndRows ==
    /\ pc = "rows"
    /\ Send(IF RowsErr THEN Exception
            ELSE Data([i \in DOMAIN shape |-> shape[i].name], columns))
    /\ UNCHANGED <<body, encoding>>

Next ==
    \/ HandOnInsert \/ AnswerProbe \/ SwallowDdl \/ Reject \/ Ask
    \/ StarRocksRefuses \/ StarRocksAccepts
    \/ NextRow \/ AppendCell \/ BadCell \/ BreakOff \/ EndRows

Spec == Init /\ [][Next]_vars

-----------------------------------------------------------------------------
\* A block built from StarRocks rows is the whole result: StarRocks did not
\* break off, and every column has the cell of every row, at the row's place
\* (a block has one row count, that of its first column, server.go:204-207).
ResultIsComplete ==
    reply.kind = "data" /\ reply.cells # <<>> =>
        /\ ~broken
        /\ \A i \in DOMAIN reply.cells :
            reply.cells[i] = [r \in DOMAIN table |-> table[r][i]]

\* Coroot's probes (the texts of no catalogue query with just the substrings of
\* a probe) get the answer of that probe, whichever others they match too.
ProbesAnswered ==
    \A i \in DOMAIN Probes :
        /\ pc = "done" /\ body.query = "" /\ body.verb \in {"SELECT", "EXISTS"}
        /\ body.words = Probes[i][1]
        => reply.names = Probes[i][2]

\* server.go:126-127: "known SELECT -> translate + StarRocks query -> result
\* block".
KnownSelectIsTranslated ==
    body.query # "" /\ reply.kind = "data" => shape = Translation
=============================================================================
