----------------------------- MODULE MCHermeneus -----------------------------
EXTENDS HermeneusInvariant

CONSTANTS c1, r1, r2

OneConn == {c1}
TwoRows == {r1, r2}

OnlyInserts == {"insert"}
Uncompressed == {FALSE}
QuotaVersion == {"quota"}

\* The insert mode sends one request where Stream Load may send several.
LoadOnly == {"stream_load"}

\* Every table has a topic.
AllMapped == Blocks
=============================================================================
