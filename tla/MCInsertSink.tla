---------------------------- MODULE MCInsertSink ----------------------------
EXTENDS InsertSinkInvariant, TLC

CONSTANTS w1, w2, w3, r1, r2

AllCalls == {w1, w2, w3}

\* Two batches, and the empty one of a block without rows.
Batches == (w1 :> {r1, r2}) @@ (w2 :> {r1}) @@ (w3 :> {})

AllModes == {"stream_load", "insert", "other"}

WithTopic == {w1, w2}
=============================================================================
