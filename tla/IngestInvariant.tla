--------------------------- MODULE IngestInvariant ---------------------------
(***************************************************************************)
(* The inductive invariant of Ingest: what is already certain of an INSERT *)
(* and its rows at each step of their way.                                 *)
(***************************************************************************)
EXTENDS Ingest

IsList(x) == x \in Seq(ToSet(x))

\* The INSERT is one that the schemas know; a row of it has a value for each of its
\* columns; this is the record of the row.
KnownInsert == Known(insert) /\ IsList(insert.names)

RowOfInsert(row) ==
    DOMAIN row = ToSet(insert.names) /\ \A c \in DOMAIN row : IsOf(Schema(insert)[c], row[c])

RecordOf(row) ==
    [i \in DOMAIN insert.names |-> Decoded(Schema(insert)[insert.names[i]], row[insert.names[i]])]

\* What the table has of a row: what was sent and is not too long; by Kafka, nothing
\* for the columns of Events.
Stored(row) ==
    [c \in DOMAIN Columns |->
        IF c \in DOMAIN row /\ TooLong(c, row[c]) THEN Nothing ELSE Sent(row)[c]]

Routed(row) == [c \in DOMAIN Columns |-> IF c[1] = "Events" THEN Nothing ELSE Stored(row)[c]]

ConfigRead ==
    /\ pc \in {"start", "exited", "insert", "rejected", "block", "write", "acked", "failed"}
    /\ pc # "start" => config = FromEnv(env)

InsertRead ==
    /\ written \in DOMAIN Headers
    /\ pc \in {"block", "write", "acked", "failed"} => KnownInsert

BlockRead ==
    /\ IsList(block)
    /\ pc \in {"write", "acked", "failed"} => \A r \in DOMAIN block : RowOfInsert(block[r])

\* Nothing is anywhere before it is acknowledged, nor in a topic without Kafka.
NothingYet ==
    /\ pc # "acked" => table = <<>> /\ topic = <<>> /\ ~stopped
    /\ config.sink # "kafka" => topic = <<>> /\ ~stopped

\* A Write to StarRocks has failed for want of a database, or for a row at fault; only
\* that stops a Routine Load.
FailedFor ==
    /\ pc = "failed" /\ config.sink = "starrocks" =>
          config.database = "" \/ \E r \in DOMAIN block : HasFault(block[r])
    /\ stopped => \E r \in DOMAIN block : HasFault(block[r])

\* Of what Kafka has acknowledged, the topic has the messages of some rows, and the
\* table those of the others, one of each key.
ByKafka ==
    pc = "acked" /\ config.sink = "kafka" =>
        /\ \A r \in DOMAIN topic :
              r \in DOMAIN block /\ topic[r] = EncodeRecord(insert, RecordOf(block[r]))
        /\ \A r \in DOMAIN table : r \in DOMAIN block /\ table[r] = Routed(block[r])
        /\ \A r \in DOMAIN block : r \in DOMAIN topic \/ InTable(r)

\* At every step of its way a row is what Coroot has sent: in the block, as a message
\* of the topic, or in the table, itself or by one of its key, and nowhere else.
IngestInv ==
    ConfigRead /\ InsertRead /\ BlockRead /\ NothingYet /\ RowsArrive /\ FailedFor /\ ByKafka
=============================================================================
