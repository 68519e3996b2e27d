------------------------------ MODULE Hermeneus ------------------------------
(***************************************************************************)
(* The whole of a hermeneus process: the wire server of ChServer with the  *)
(* Writer of InsertSink in the place of the sink ChServer only assumes.    *)
(* Each block of an INSERT is one call of Write, made by the handler that  *)
(* read it; a handler goes on when its call returns, with what it returns. *)
(* main ties the two together: it chooses the sink and, when it returns,   *)
(* closes it, while handlers are still running.                            *)
(*                                                                         *)
(* When the process is gone its calls stop where they are; StarRocks and   *)
(* the brokers, which are others' processes, finish what they were given.  *)
(***************************************************************************)
EXTENDS ChServerProperties

CONSTANTS
    Rows,           \* the records of a block
    MaxHops,        \* of StarRocksWriter
    Modes,          \* of StarRocksWriter
    Mapped,         \* of InsertSink: the blocks whose table has a Kafka topic
    HasBrokers      \* of KafkaWriter

\* handleInsert ends at the block without columns and rows; of a block without
\* rows alone nothing can be lost.
ASSUME RowsAssumption == Rows # {}

ASSUME WriterAssumption ==
    /\ MaxHops \in Nat \ {0}
    /\ Modes \subseteq {"stream_load", "insert", "other"}

VARIABLES
    target,     \* cfg.Sink
    mode, db, wpc, hop, asked, txn, answer,     \* of StarRocksWriter
    message, log, closed,                       \* of KafkaWriter
    result,     \* what the call of Write for a block has returned
    deferred    \* main returns and runs its deferred calls: no log.Fatalf

Batch == [b \in Blocks |-> Rows]

Sink == INSTANCE InsertSink WITH Calls <- Blocks, sink <- target, pc <- wpc

writer == <<target, mode, db, wpc, hop, asked, txn, answer, message, log, closed, result>>
hermeneus == <<vars, writer, deferred>>

\* One *sql.DB serves the queries and the insert mode.
HermeneusInit ==
    /\ Init /\ Sink!SinkInit
    /\ db = SrConfigured
    /\ deferred = FALSE

-----------------------------------------------------------------------------
\* The server.

Serves(A) == A /\ UNCHANGED <<writer, deferred>>

\* ListenAndServe returns the error of ctx when there is one; any other ends in
\* log.Fatalf.
Returns(A) == A /\ deferred' = ctxDone /\ UNCHANGED writer

\* The call of Write the handler of c is in.
Call(c) == <<<<c, cur[c]>>, blk[c]>>

\* Mutant of WriteReturned: the error of Write is not looked at.
ErrorIgnored(c) ==
    /\ At(c, "inswrite") /\ result[Call(c)] # "none"
    /\ Goto(c, "insread")
    /\ UNCHANGED <<others, request, reader, replies, sink, acked, failed, desync>>

\* The handler goes on with what its call has returned.
WriteReturned(c) ==
    /\ At(c, "inswrite")
    /\ \/ result[Call(c)] = "nil" /\ Goto(c, "insread") /\ UNCHANGED <<replies, failed>>
       \/ result[Call(c)] = "error" /\ FailInsert(c)
    /\ UNCHANGED <<others, request, reader, sink, acked, desync>>

\* k.Close, which only a main that returns and that built a Kafka sink has
\* deferred.
CloseSink == deferred /\ target = "kafka" /\ HasBrokers

-----------------------------------------------------------------------------
\* The Writer and what is behind it.  A block is stored when all its rows are.

StoredBlocks ==
    {b \in Blocks :
        IF target = "kafka" THEN Sink!Kafka!Records(b) \subseteq log
        ELSE txn[b] \in {"committed", "visible"}}

Settles ==
    /\ stored' = StoredBlocks'
    /\ inflight' = inflight \ stored'
    /\ UNCHANGED <<process, pc, request, reader, wire, replies, client, history, deferred>>

\* Steps of the process, and steps of others.
InProcess(A) == srv # "exited" /\ A /\ Settles
Outside(A) == A /\ Settles

\* Mutant of Called: the call is not of the block that was read.
InAnyCall(b) == At(b[1][1], "inswrite")

\* Only the handler that has read a block begins its call.
Called(b) == At(b[1][1], "inswrite") /\ Call(b[1][1]) = b

Begin(b) ==
    /\ Called(b)
    /\ \/ Sink!InStarRocks(Sink!Begin(b))
       \/ Sink!InKafka(Sink!Kafka!Begin(b))

\* A call runs until it returns.
Runs(b) ==
    \/ Begin(b)
    \/ Sink!InStarRocks(Sink!Put(b) \/ Sink!Exec(b) \/ Sink!ReadAnswer(b) \/ Sink!Fails(b))
    \/ Sink!InKafka(Sink!Kafka!Finish(b) \/ Sink!Kafka!Timeout(b))

\* The goroutines of the Kafka client.
KafkaClient ==
    \E m \in Sink!Kafka!AllRecords :
        Sink!InKafka(Sink!Kafka!Send(m) \/ Sink!Kafka!Acknowledge(m) \/ Sink!Kafka!Refuse(m))

Close == srv = "returned" /\ CloseSink /\ Sink!InKafka(Sink!Kafka!Close)

Brokers == \E m \in Sink!Kafka!AllRecords : Sink!InKafka(Sink!Kafka!Append(m))

StarRocks == \E b \in Blocks : Sink!InStarRocks(Sink!StarRocksNext(b))

-----------------------------------------------------------------------------
HandlerServes(c) ==
    \/ Accept(c) \/ HandlerReads(c) \/ HandlerRuns(c)
    \/ StarRocksAnswers(c) \/ StarRocksFails(c)
    \/ Misread(c) \/ SwallowPacket(c) \/ LeaveLost(c)

MainExits == (CloseSink => closed) /\ Exit

HermeneusNext ==
    \/ \E c \in Conns : Serves(HandlerServes(c) \/ WriteReturned(c) \/ ClientNext(c))
    \/ Serves(Signal \/ CloseListener \/ MainExits)
    \/ Returns(AcceptAfterClose \/ AcceptError)
    \/ \E b \in Blocks : InProcess(Runs(b))
    \/ InProcess(KafkaClient \/ Close)
    \/ Outside(Brokers \/ StarRocks)

HermeneusSpec == HermeneusInit /\ [][HermeneusNext]_hermeneus

\* Each goroutine is scheduled: a handler, with the call of Write it is in, a
\* client, and those of main.  A handler with nothing to read, and one whose query
\* StarRocks does not answer, may stand for ever; so may StarRocks and the brokers.
HermeneusFairness ==
    /\ \A c \in Conns :
          /\ WF_hermeneus(Serves(Accept(c) \/ HandlerReads(c) \/ HandlerRuns(c)
                                    \/ WriteReturned(c)))
          /\ WF_hermeneus(Serves(ClientReads(c) \/ SeeClose(c)))
    /\ WF_hermeneus(\E b \in Blocks : InProcess(Runs(b)))
    /\ WF_hermeneus(\/ Serves(CloseListener \/ MainExits)
                    \/ Returns(AcceptAfterClose) \/ InProcess(Close))

FairHermeneus == HermeneusSpec /\ HermeneusFairness

-----------------------------------------------------------------------------
\* With either Writer, hermeneus does what ChServer says of it with the Writer
\* it assumes: an INSERT goes on only from a block that is durable
\* (insert.go:71).
ImplementsServer == Spec

\* And every Write returns: to StarRocks as its deadline passes (client.go:51), to
\* Kafka unless the brokers leave a message under way unanswered, for which the
\* 30 seconds of kafka.go:49 do not help.  It is what ChServer takes for its
\* fairness.
WritesReturn == Sink!BrokersAnswer => \A c \in Conns : WF_vars(WriteReturns(c))

\* No row becomes durable before those of the blocks sent earlier are, though a
\* load may end, or a message be appended, long after its Write has given up or
\* the process is gone (insert.go:71).
DurableRows == IF target = "kafka" THEN log ELSE Sink!Stored

RowsInBlockOrder ==
    \A x \in DurableRows :
        \A m \in 1 .. x[1][2] - 1 : <<x[1][1], m>> \in StoredBlocks

\* An INSERT answered with EndOfStream lost no row on the whole way: StarRocks or
\* the brokers have every one its client sent (insert.go:71,76).
AckedRowsDurable ==
    \A b \in Offered : b[1] \in acked => \A r \in Rows : <<b, r>> \in DurableRows
=============================================================================
