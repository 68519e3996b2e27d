------------------------- MODULE InsertSinkInvariant -------------------------
(***************************************************************************)
(* The inductive invariant of InsertSink: what a call of Write, its load   *)
(* or its messages, and the answers on their way know of each other.       *)
(* SinkTypeOK, and the promise of module WriteSink, follow from it.        *)
(***************************************************************************)
EXTENDS InsertSink

Kept == {"committed", "visible"}

\* A call has asked StarRocks for nothing before it began, returns once, and
\* follows a redirect only where the loop has a turn left.
CallPlace(w) ==
    /\ pc[w] = "off" => txn[w] = "none" /\ ~asked[w]
    /\ pc[w] = "done" <=> result[w] # "none"
    /\ pc[w] = "put" => mode = "stream_load"
    /\ pc[w] = "exec" => mode = "insert"
    /\ pc[w] = "waiting" /\ mode = "stream_load" => hop[w] < MaxHops
    /\ answer[w] = "redirect" => mode = "stream_load"

\* An answer that Write takes for success is on its way only when the load is
\* committed, and so the nil error says that it is.
AnswerHolds(w) ==
    /\ Accepted(answer[w]) => txn[w] \in Kept
    /\ result[w] = "nil" /\ Batch[w] # {} => txn[w] \in Kept

LoadsHold == TypeOK /\ \A w \in Calls : CallPlace(w) /\ AnswerHolds(w)

\* No message of a call goes out before it began, and a nil error says that the
\* brokers have them all.
MessagesPlace(w) ==
    /\ pc[w] = "done" <=> result[w] # "none"
    /\ pc[w] = "off" => \A m \in Kafka!Records(w) : message[m] = "none" /\ m \notin log
    /\ result[w] = "nil" => Kafka!Records(w) \subseteq log

\* What the client takes for acknowledged has been appended.
AckedInLog == \A m \in Kafka!AllRecords : message[m] = "acked" => m \in log

MessagesHold == Kafka!TypeOK /\ AckedInLog /\ \A w \in Calls : MessagesPlace(w)

SinkInv ==
    /\ sink \in {"starrocks", "kafka"}
    /\ sink = "starrocks" => LoadsHold
    /\ sink = "kafka" => MessagesHold
=============================================================================
