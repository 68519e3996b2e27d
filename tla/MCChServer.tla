----------------------------- MODULE MCChServer -----------------------------
EXTENDS ChServerInvariant, TLC

CONSTANTS c1, c2

OneConn == {c1}
TwoConns == {c1, c2}
Symmetry == Permutations(TwoConns)

AnyKind == AllKinds
\* A select is answered as a probe or as an unknown query is, or not at all.
EveryReply == {"insert", "badinsert", "select"}
InsertOrSelect == {"insert", "select"}
AnyCompression == BOOLEAN
Uncompressed == {FALSE}
AnyVersion == {"old", "quota"}
QuotaVersion == {"quota"}

\* Constraint: nothing has begun to end the process.
Serving == srv = "serving" /\ ~ctxDone
=============================================================================
