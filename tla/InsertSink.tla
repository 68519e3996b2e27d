----------------------------- MODULE InsertSink -----------------------------
(***************************************************************************)
(* The Writer of a process: main builds the StarRocks adapter, whose query *)
(* client every process needs, and takes it or a Kafka adapter for the     *)
(* sink (HERMENEUS_SINK).  pc and result are those of the calls of the one *)
(* Writer; the steps are those of StarRocksWriter or of KafkaWriter.       *)
(***************************************************************************)
EXTENDS StarRocksWriter

CONSTANTS
    Mapped,         \* the calls whose target has a Kafka topic
    HasBrokers      \* HERMENEUS_KAFKA_BROKERS is set

VARIABLES
    sink,           \* cfg.Sink
    message,        \* of KafkaWriter
    log,            \* of KafkaWriter
    closed          \* of KafkaWriter

Kafka == INSTANCE KafkaWriter

kafka == <<message, log, closed>>
starRocks == <<mode, db, hop, asked, txn, answer>>
sinkVars == <<sink, vars, kafka>>

SinkInit == sink \in {"starrocks", "kafka"} /\ Init /\ Kafka!Init

\* A step of the StarRocks adapter, or of StarRocks.
InStarRocks(A) == sink = "starrocks" /\ A /\ UNCHANGED <<sink, kafka>>

\* A step of the Kafka adapter, or of the brokers.
InKafka(A) == sink = "kafka" /\ A /\ UNCHANGED <<sink, starRocks>>

SinkNext == InStarRocks(Next) \/ InKafka(Kafka!Next)

SinkSpec == SinkInit /\ [][SinkNext]_sinkVars

\* The calls run and their deadlines pass, which a message under way to a broker
\* does not heed; StarRocks publishes what it has committed.  Nothing else is
\* expected of StarRocks or of the brokers.
SinkFairness ==
    \A w \in Calls :
        /\ WF_sinkVars(InStarRocks(Begin(w))) /\ WF_sinkVars(InStarRocks(Put(w)))
        /\ WF_sinkVars(InStarRocks(Exec(w))) /\ WF_sinkVars(InStarRocks(ReadAnswer(w)))
        /\ WF_sinkVars(InStarRocks(Fails(w))) /\ WF_sinkVars(InStarRocks(Publish(w)))
        /\ WF_sinkVars(InKafka(Kafka!Begin(w))) /\ WF_sinkVars(InKafka(Kafka!Finish(w)))
        /\ WF_sinkVars(InKafka(Kafka!Timeout(w)))

FairSinkSpec == SinkSpec /\ SinkFairness

-----------------------------------------------------------------------------
\* The StarRocks adapter's part of the state; a hop is one of the loop's
\* (streamload.go:81).
SinkTypeOK ==
    /\ sink = "starrocks" => TypeOK
    /\ sink = "kafka" => Kafka!TypeOK

\* Write keeps the promise of a Writer: a nil error only for a batch that is
\* committed (streamload.go:74, insert.go:48), or of which every message is
\* appended (kafka.go:51).
Promise == INSTANCE WriteSink WITH
    begun <- {w \in Calls : pc[w] # "off"},
    durable <- IF sink = "kafka" THEN log ELSE Stored

ImplementsSink == Promise!Spec

\* The rows of a nil Write to StarRocks are there to be read at last, also those
\* of a load that answered Publish Timeout (streamload.go:74).
WrittenBecomesVisible ==
    \A w \in Calls :
        sink = "starrocks" /\ result[w] = "nil" /\ Batch[w] # {} ~> txn[w] = "visible"

\* No broker leaves a message under way unanswered for good.
BrokersAnswer == []<>(\A m \in Kafka!AllRecords : message[m] # "sent")

\* Write to StarRocks returns, however StarRocks redirects and whether it answers or
\* not (client.go:51, streamload.go:81).  Write to Kafka does if the brokers answer
\* what they have been sent: the 30 seconds of kafka.go:49 end the wait for the
\* other messages only.
EveryWriteReturns ==
    BrokersAnswer => \A w \in Calls : pc[w] # "off" ~> pc[w] = "done"
=============================================================================
