--------------------------- MODULE HermeneusProofs ---------------------------
(***************************************************************************)
(* Proofs about the whole process, for every number of connections,        *)
(* requests, blocks and rows, and either Writer.  What InsertSinkProofs    *)
(* has of the Writer (it keeps the promise of WriteSink) is what ChServer  *)
(* assumes of its sink: so each step of Hermeneus is one of ChServer, or   *)
(* none, and every theorem about the server holds of the process.          *)
(***************************************************************************)
EXTENDS HermeneusInvariant, ChServerDialogueProofs

Writer == INSTANCE InsertSinkProofs WITH Calls <- Blocks, sink <- target, pc <- wpc

LEMMA WriterAssumptions == Writer!MaxHopsAssumption /\ Writer!ModesAssumption
BY WriterAssumption DEF Writer!MaxHopsAssumption, Writer!ModesAssumption

-----------------------------------------------------------------------------
\* Every step of the process is a step of its Writer, or leaves it alone.

LEMMA SameLoad ==
    ASSUME NEW b \in Blocks
    PROVE  /\ Sink!Begin(b) => Writer!Begin(b)
           /\ Sink!Put(b) => Writer!Put(b)
           /\ Sink!Exec(b) => Writer!Exec(b)
           /\ Sink!ReadAnswer(b) => Writer!ReadAnswer(b)
           /\ Sink!Fails(b) => Writer!Fails(b)
           /\ Sink!StarRocksNext(b) => Writer!StarRocksNext(b)
<1>1. Sink!Begin(b) => Writer!Begin(b)
  BY DEF Sink!Begin, Writer!Begin, Sink!Goto, Writer!Goto, Sink!Return, Writer!Return,
     Sink!config, Writer!config
<1>2. Sink!Put(b) => Writer!Put(b)
  BY DEF Sink!Put, Writer!Put, Sink!MayHop, Writer!MayHop, Sink!Goto, Writer!Goto,
     Sink!Return, Writer!Return, Sink!config, Writer!config
<1>3. Sink!Exec(b) => Writer!Exec(b)
  BY DEF Sink!Exec, Writer!Exec, Sink!Goto, Writer!Goto, Sink!config, Writer!config
<1>4. Sink!ReadAnswer(b) => Writer!ReadAnswer(b)
  BY DEF Sink!ReadAnswer, Writer!ReadAnswer, Sink!Accepted, Writer!Accepted, Sink!Goto,
     Writer!Goto, Sink!Return, Writer!Return, Sink!config, Writer!config
<1>5. Sink!Fails(b) => Writer!Fails(b)
  BY DEF Sink!Fails, Writer!Fails, Sink!Deadline, Writer!Deadline, Sink!Goto,
     Writer!Goto, Sink!Return, Writer!Return, Sink!config, Writer!config
<1>6. Sink!StarRocksNext(b) => Writer!StarRocksNext(b)
  BY DEF Sink!StarRocksNext, Writer!StarRocksNext, Sink!Redirect, Writer!Redirect,
     Sink!StartLoad, Writer!StartLoad, Sink!EndLoad, Writer!EndLoad, Sink!Publish,
     Writer!Publish, Sink!Report, Writer!Report, Sink!Answer, Writer!Answer,
     Sink!client, Writer!client, Sink!config, Writer!config
<1> QED
  BY <1>1, <1>2, <1>3, <1>4, <1>5, <1>6

LEMMA SameKafka ==
    /\ Sink!Kafka!AllRecords = Writer!Kafka!AllRecords
    /\ Sink!Kafka!Close => Writer!Kafka!Close
    /\ \A b \in Blocks : /\ Sink!Kafka!Begin(b) => Writer!Kafka!Begin(b)
                         /\ Sink!Kafka!Finish(b) => Writer!Kafka!Finish(b)
                         /\ Sink!Kafka!Timeout(b) => Writer!Kafka!Timeout(b)
    /\ \A m \in Sink!Kafka!AllRecords :
          /\ Sink!Kafka!Send(m) => Writer!Kafka!Send(m)
          /\ Sink!Kafka!Append(m) => Writer!Kafka!Append(m)
          /\ Sink!Kafka!Acknowledge(m) => Writer!Kafka!Acknowledge(m)
          /\ Sink!Kafka!Refuse(m) => Writer!Kafka!Refuse(m)
<1>1. Sink!Kafka!AllRecords = Writer!Kafka!AllRecords
  BY DEF Sink!Kafka!AllRecords, Writer!Kafka!AllRecords, Sink!Kafka!Records,
     Writer!Kafka!Records
<1>2. \A b \in Blocks : Sink!Kafka!Records(b) = Writer!Kafka!Records(b)
  BY DEF Sink!Kafka!Records, Writer!Kafka!Records
<1>3. Sink!Kafka!Close => Writer!Kafka!Close
  BY <1>1 DEF Sink!Kafka!Close, Writer!Kafka!Close, Sink!Kafka!GiveUp, Writer!Kafka!GiveUp
<1>4. ASSUME NEW b \in Blocks
      PROVE  /\ Sink!Kafka!Begin(b) => Writer!Kafka!Begin(b)
             /\ Sink!Kafka!Finish(b) => Writer!Kafka!Finish(b)
             /\ Sink!Kafka!Timeout(b) => Writer!Kafka!Timeout(b)
  <2>1. Sink!Kafka!Begin(b) => Writer!Kafka!Begin(b)
    BY <1>1, <1>2 DEF Sink!Kafka!Begin, Writer!Kafka!Begin, Sink!Kafka!Return,
       Writer!Kafka!Return, Sink!Kafka!Become, Writer!Kafka!Become
  <2>2. Sink!Kafka!Settled(b) <=> Writer!Kafka!Settled(b)
    BY <1>2 DEF Sink!Kafka!Settled, Writer!Kafka!Settled
  <2>3. Sink!Kafka!NoneFailed(b) <=> Writer!Kafka!NoneFailed(b)
    BY <1>2 DEF Sink!Kafka!NoneFailed, Writer!Kafka!NoneFailed
  <2>4. Sink!Kafka!Finish(b) => Writer!Kafka!Finish(b)
    BY <2>2, <2>3 DEF Sink!Kafka!Finish, Writer!Kafka!Finish, Sink!Kafka!Return,
       Writer!Kafka!Return
  <2>5. Sink!Kafka!Timeout(b) => Writer!Kafka!Timeout(b)
    BY <1>1, <1>2 DEF Sink!Kafka!Timeout, Writer!Kafka!Timeout, Sink!Kafka!Unsent,
       Writer!Kafka!Unsent, Sink!Kafka!Become, Writer!Kafka!Become
  <2> QED
    BY <2>1, <2>4, <2>5
<1>5. ASSUME NEW m \in Sink!Kafka!AllRecords
      PROVE  /\ Sink!Kafka!Send(m) => Writer!Kafka!Send(m)
             /\ Sink!Kafka!Append(m) => Writer!Kafka!Append(m)
             /\ Sink!Kafka!Acknowledge(m) => Writer!Kafka!Acknowledge(m)
             /\ Sink!Kafka!Refuse(m) => Writer!Kafka!Refuse(m)
  BY <1>1 DEF Sink!Kafka!Send, Writer!Kafka!Send, Sink!Kafka!Append, Writer!Kafka!Append,
     Sink!Kafka!Acknowledge, Writer!Kafka!Acknowledge, Sink!Kafka!Refuse,
     Writer!Kafka!Refuse, Sink!Kafka!Become, Writer!Kafka!Become
<1> QED
  BY <1>1, <1>3, <1>4, <1>5

LEMMA LoadStep ==
    ASSUME NEW b \in Blocks,
           Sink!InStarRocks(\/ Sink!Begin(b) \/ Sink!Put(b) \/ Sink!Exec(b)
                            \/ Sink!ReadAnswer(b) \/ Sink!Fails(b)
                            \/ Sink!StarRocksNext(b))
    PROVE  Writer!SinkNext
<1>1. Writer!Next
  BY SameLoad DEF Sink!InStarRocks, Writer!Next, Writer!WriteNext
<1>2. target = "starrocks" /\ UNCHANGED <<target, message, log, closed>>
  BY DEF Sink!InStarRocks, Sink!kafka
<1> QED
  BY <1>1, <1>2 DEF Writer!SinkNext, Writer!InStarRocks, Writer!kafka

LEMMA MessageStep ==
    ASSUME Sink!InKafka(
              \/ \E b \in Blocks : \/ Sink!Kafka!Begin(b) \/ Sink!Kafka!Finish(b)
                                   \/ Sink!Kafka!Timeout(b)
              \/ Sink!Kafka!Close
              \/ \E m \in Sink!Kafka!AllRecords :
                    \/ Sink!Kafka!Send(m) \/ Sink!Kafka!Append(m)
                    \/ Sink!Kafka!Acknowledge(m) \/ Sink!Kafka!Refuse(m))
    PROVE  Writer!SinkNext
<1>1. Writer!Kafka!Next
  BY SameKafka DEF Sink!InKafka, Writer!Kafka!Next
<1>2. target = "kafka" /\ UNCHANGED <<target, mode, db, hop, asked, txn, answer>>
  BY DEF Sink!InKafka, Sink!starRocks
<1> QED
  BY <1>1, <1>2 DEF Writer!SinkNext, Writer!InKafka, Writer!starRocks

\* A step of the server, with the Writer left alone,
ServerMoves ==
    /\ UNCHANGED writer
    /\ \/ \E c \in Conns : HandlerServes(c) \/ WriteReturned(c) \/ ClientNext(c)
       \/ ProcessNext

\* or of the Writer, which begins no call but the one a handler is in.
WriterMoves ==
    /\ Writer!SinkNext
    /\ Settles
    /\ \A b \in Blocks : wpc[b] = "off" /\ wpc'[b] # "off" => Called(b)

LEMMA WriterInvTypes ==
    ASSUME Writer!SinkInv
    PROVE  /\ target \in {"starrocks", "kafka"}
           /\ \E S : wpc \in [Blocks -> S]
           /\ \E S : result \in [Blocks -> S]
BY DEF Writer!SinkInv, Writer!LoadsHold, Writer!MessagesHold, Writer!TypeOK,
   Writer!Kafka!TypeOK

\* What is begun is the call of a handler that has read a block.
LEMMA BeginsOnlyCalled ==
    ASSUME Writer!SinkInv, NEW b \in Blocks, Runs(b)
    PROVE  \A d \in Blocks : wpc[d] = "off" /\ wpc'[d] # "off" => Called(d)
<1>1. PICK S : wpc \in [Blocks -> S]
  BY WriterInvTypes
<1>2. CASE Begin(b)
  <2>1. Called(b)
    BY <1>2 DEF Begin
  <2>2. \E p : wpc' = [wpc EXCEPT ![b] = p]
    BY <1>2 DEF Begin, Sink!InStarRocks, Sink!InKafka, Sink!Begin, Sink!Kafka!Begin,
       Sink!Goto, Sink!Return, Sink!Kafka!Return
  <2> QED
    BY <1>1, <2>1, <2>2
<1>3. CASE Sink!InStarRocks(Sink!Put(b) \/ Sink!Exec(b) \/ Sink!ReadAnswer(b) \/ Sink!Fails(b))
  <2>1. wpc[b] # "off" /\ \E p : wpc' = [wpc EXCEPT ![b] = p]
    BY <1>3 DEF Sink!InStarRocks, Sink!Put, Sink!Exec, Sink!ReadAnswer, Sink!Fails,
       Sink!Goto, Sink!Return
  <2> QED
    BY <1>1, <2>1
<1>4. CASE Sink!InKafka(Sink!Kafka!Finish(b) \/ Sink!Kafka!Timeout(b))
  <2>1. \/ wpc' = wpc
        \/ wpc[b] # "off" /\ \E p : wpc' = [wpc EXCEPT ![b] = p]
    BY <1>4 DEF Sink!InKafka, Sink!Kafka!Finish, Sink!Kafka!Timeout, Sink!Kafka!Return
  <2> QED
    BY <1>1, <2>1
<1> QED
  BY <1>2, <1>3, <1>4 DEF Runs

LEMMA Moves ==
    ASSUME Writer!SinkInv, HermeneusNext
    PROVE  ServerMoves \/ WriterMoves
<1>1. CASE \E c \in Conns : Serves(HandlerServes(c) \/ WriteReturned(c) \/ ClientNext(c))
  BY <1>1 DEF Serves, ServerMoves
<1>2. CASE Serves(Signal \/ CloseListener \/ MainExits)
  BY <1>2 DEF Serves, ServerMoves, MainExits, ProcessNext
<1>3. CASE Returns(AcceptAfterClose \/ AcceptError)
  BY <1>3 DEF Returns, ServerMoves, ProcessNext
<1>4. ASSUME NEW b \in Blocks, InProcess(Runs(b))
      PROVE  WriterMoves
  <2>1. Runs(b) /\ Settles
    BY <1>4 DEF InProcess
  <2>2. Writer!SinkNext
    <3>1. CASE Sink!InStarRocks(Sink!Begin(b))
      BY <3>1, LoadStep DEF Sink!InStarRocks
    <3>2. CASE Sink!InKafka(Sink!Kafka!Begin(b))
      BY <3>2, MessageStep DEF Sink!InKafka
    <3>3. CASE Sink!InStarRocks(Sink!Put(b) \/ Sink!Exec(b) \/ Sink!ReadAnswer(b) \/ Sink!Fails(b))
      BY <3>3, LoadStep DEF Sink!InStarRocks
    <3>4. CASE Sink!InKafka(Sink!Kafka!Finish(b) \/ Sink!Kafka!Timeout(b))
      BY <3>4, MessageStep DEF Sink!InKafka
    <3> QED
      BY <2>1, <3>1, <3>2, <3>3, <3>4 DEF Runs, Begin
  <2> QED
    BY <2>1, <2>2, BeginsOnlyCalled DEF WriterMoves
<1>5. CASE InProcess(KafkaClient \/ Close) \/ Outside(Brokers \/ StarRocks)
  <2>1. Settles
    BY <1>5 DEF InProcess, Outside
  <2>2. Writer!SinkNext
    <3>1. CASE KafkaClient
      BY <3>1, MessageStep DEF KafkaClient, Sink!InKafka
    <3>2. CASE Close
      BY <3>2, MessageStep DEF Close, Sink!InKafka
    <3>3. CASE Brokers
      BY <3>3, MessageStep DEF Brokers, Sink!InKafka
    <3>4. CASE StarRocks
      BY <3>4, LoadStep DEF StarRocks, Sink!InStarRocks
    <3> QED
      BY <1>5, <3>1, <3>2, <3>3, <3>4 DEF InProcess, Outside
  <2>3. wpc' = wpc
    BY <1>5 DEF InProcess, Outside, KafkaClient, Close, Brokers, StarRocks, Sink!InKafka,
       Sink!InStarRocks, Sink!Kafka!Send, Sink!Kafka!Append, Sink!Kafka!Acknowledge,
       Sink!Kafka!Refuse, Sink!Kafka!Close, Sink!StarRocksNext, Sink!Redirect,
       Sink!StartLoad, Sink!EndLoad, Sink!Publish, Sink!Report, Sink!client
  <2> QED
    BY <2>1, <2>2, <2>3 DEF WriterMoves
<1> QED
  BY <1>1, <1>2, <1>3, <1>4, <1>5 DEF HermeneusNext

-----------------------------------------------------------------------------
\* What the Writer keeps is what the server sees stored.

LEMMA StoredByRows ==
    Writer!SinkInv => StoredBlocks = {b \in Blocks : \A r \in Rows : <<b, r>> \in DurableRows}
<1> SUFFICES ASSUME Writer!SinkInv, NEW b \in Blocks
             PROVE  (IF target = "kafka" THEN Sink!Kafka!Records(b) \subseteq log
                     ELSE txn[b] \in {"committed", "visible"})
                       <=> \A r \in Rows : <<b, r>> \in DurableRows
  BY DEF StoredBlocks
<1>1. CASE target = "kafka"
  BY <1>1 DEF DurableRows, Sink!Kafka!Records, Batch
<1>2. CASE target # "kafka"
  <2>1. PICK r0 \in Rows : TRUE
    BY RowsAssumption
  <2>2. ASSUME NEW r \in Rows
        PROVE  <<b, r>> \in Sink!Stored <=> txn[b] \in {"committed", "visible"}
    BY DEF Sink!Stored, Batch
  <2> QED
    BY <1>2, <2>1, <2>2 DEF DurableRows
<1> QED
  BY <1>1, <1>2

LEMMA SameDurable == DurableRows = Writer!Lasting
BY DEF DurableRows, Writer!Lasting, Sink!Stored, Writer!Stored

\* A nil Write is of a block that is stored (the promise of WriteSink).
LEMMA NilIsStored ==
    ASSUME Writer!SinkInv, NEW b \in Blocks, result[b] = "nil"
    PROVE  b \in StoredBlocks
<1>1. CASE target = "kafka"
  BY <1>1 DEF Writer!SinkInv, Writer!MessagesHold, Writer!MessagesPlace,
     Writer!Kafka!Records, StoredBlocks, Sink!Kafka!Records
<1>2. CASE target = "starrocks"
  BY <1>2, RowsAssumption DEF Writer!SinkInv, Writer!LoadsHold, Writer!AnswerHolds,
     Writer!Kept, StoredBlocks, Batch
<1> QED
  BY <1>1, <1>2 DEF Writer!SinkInv

\* No row is durable but of a call that was made.
LEMMA DurableIsBegun ==
    ASSUME Writer!SinkInv, NEW x \in DurableRows
    PROVE  \E b \in Blocks : \E r \in Rows : x = <<b, r>> /\ wpc[b] # "off"
<1>1. CASE target = "kafka"
  <2>1. x \in log
    BY <1>1 DEF DurableRows
  <2>2. x \in Writer!Kafka!AllRecords
    BY <1>1, <2>1 DEF Writer!SinkInv, Writer!MessagesHold, Writer!Kafka!TypeOK
  <2>3. PICK b \in Blocks : x \in Writer!Kafka!Records(b)
    BY <2>2 DEF Writer!Kafka!AllRecords
  <2>4. wpc[b] # "off"
    BY <1>1, <2>1, <2>3 DEF Writer!SinkInv, Writer!MessagesHold, Writer!MessagesPlace
  <2> QED
    BY <2>3, <2>4 DEF Writer!Kafka!Records, Batch
<1>2. CASE target = "starrocks"
  <2>1. PICK b \in Blocks : /\ txn[b] \in {"committed", "visible"}
                            /\ \E r \in Rows : x = <<b, r>>
    BY <1>2 DEF DurableRows, Sink!Stored, Batch
  <2>2. wpc[b] # "off"
    BY <1>2, <2>1 DEF Writer!SinkInv, Writer!LoadsHold, Writer!CallPlace
  <2> QED
    BY <2>1, <2>2
<1> QED
  BY <1>1, <1>2 DEF Writer!SinkInv

\* By the promise of WriteSink alone, a step of the Writer makes rows of one block
\* durable, whose call was made, and forgets none.
LEMMA RowsKept ==
    ASSUME Writer!SinkInv, Writer!SinkNext
    PROVE  /\ DurableRows \subseteq DurableRows'
           /\ \/ DurableRows' = DurableRows
              \/ \E b \in Blocks :
                    /\ wpc[b] # "off"
                    /\ \A x \in DurableRows' \ DurableRows : \E r \in Rows : x = <<b, r>>
<1>1. [Writer!Promise!Next]_(Writer!Promise!vars)
  BY WriterAssumptions, Writer!PromiseStep
<1>2. SUFFICES
        ASSUME NEW D, NEW E, D = Writer!Lasting, E = Writer!Lasting'
        PROVE  /\ D \subseteq E
               /\ \/ E = D
                  \/ \E b \in Blocks :
                        /\ wpc[b] # "off"
                        /\ \A x \in E \ D : \E r \in Rows : x = <<b, r>>
  <2>1. DurableRows' = Writer!Lasting'
    BY DEF DurableRows, Writer!Lasting, Sink!Stored, Writer!Stored
  <2> QED
    BY <2>1, SameDurable
<1>3. CASE UNCHANGED Writer!Promise!vars
  BY <1>2, <1>3 DEF Writer!Promise!vars, Writer!Lasting
<1>4. ASSUME NEW b \in Blocks, Writer!Promise!Keep(b)
      PROVE  /\ D \subseteq E
             /\ wpc[b] # "off"
             /\ \A x \in E \ D : \E r \in Rows : x = <<b, r>>
  BY <1>2, <1>4 DEF Writer!Promise!Keep, Writer!Promise!Records, Writer!Lasting, Batch
<1>5. ASSUME NEW b \in Blocks,
             \/ Writer!Promise!Begin(b) \/ Writer!Promise!Return(b, "nil")
             \/ Writer!Promise!Return(b, "error")
      PROVE  E = D
  BY <1>2, <1>5 DEF Writer!Promise!Begin, Writer!Promise!Return, Writer!Lasting
<1> QED
  BY <1>1, <1>2, <1>3, <1>4, <1>5 DEF Writer!Promise!Next

-----------------------------------------------------------------------------
\* Each step of the process is one of ChServer.

HermeneusInv == IInv /\ OrderInv /\ OnceInv /\ Writer!SinkInv /\ JointInv

ServerNext == ProcessNext \/ \E c \in Conns : HandlerNext(c) \/ ClientNext(c)

\* The server's own steps, and a Write that returns what the Writer said.
LEMMA ServerStep ==
    ASSUME HermeneusInv, ServerMoves
    PROVE  ServerNext /\ stored' = stored /\ StoredBlocks' = StoredBlocks
<1>1. StoredBlocks' = StoredBlocks
  BY DEF ServerMoves, writer, StoredBlocks
<1>2. ASSUME NEW c \in Conns, WriteReturned(c)
      PROVE  WriteReturns(c)
  <2>1. Call(c) \in inflight \cup stored /\ inflight \cup stored \subseteq Blocks
    BY <1>2 DEF HermeneusInv, JointInv, CallsAreOfBlocks, IInv, TypeOK, SinkTypeOK,
       WriteReturned, At
  <2>2. CASE result[Call(c)] = "nil"
    <3>1. Call(c) \in stored
      BY <2>1, <2>2, NilIsStored DEF HermeneusInv, JointInv, StoredAgrees
    <3>2. Durable(c)
      BY <3>1 DEF Durable, Call
    <3>3. CASE Goto(c, "insread") /\ UNCHANGED <<replies, failed>>
      BY <1>2, <3>2, <3>3 DEF WriteReturned, WriteReturns, WriteOk
    <3>4. CASE result[Call(c)] = "error" /\ FailInsert(c)
      BY <2>2, <3>4
    <3> QED
      BY <1>2, <3>3, <3>4 DEF WriteReturned
  <2>3. CASE result[Call(c)] # "nil"
    BY <1>2, <2>3 DEF WriteReturned, WriteReturns, WriteFails
  <2> QED
    BY <2>2, <2>3
<1>3. ServerNext
  BY <1>2 DEF ServerMoves, HandlerServes, ServerNext, HandlerNext
<1>4. stored' = stored
  <2>1. ASSUME NEW c \in Conns, HandlerNext(c)
        PROVE  stored' = stored
    BY <2>1, HandlerFootprint
  <2>2. ASSUME NEW c \in Conns, ClientNext(c)
        PROVE  stored' = stored
    BY <2>2, ClientFootprint DEF sink, HermeneusInv
  <2>3. CASE ProcessNext
    BY <2>3, ProcessFootprint DEF sink
  <2> QED
    BY <1>3, <2>1, <2>2, <2>3 DEF ServerNext
<1> QED
  BY <1>1, <1>3, <1>4

\* What the Writer makes durable is at most one more block, which was handed in.
LEMMA WriterStores ==
    ASSUME HermeneusInv, WriterMoves
    PROVE  /\ stored' = StoredBlocks'
           /\ stored \subseteq stored'
           /\ \/ stored' = stored /\ inflight' = inflight
              \/ \E b \in inflight : stored' = stored \cup {b} /\ inflight' = inflight \ {b}
<1>1. /\ stored' = StoredBlocks' /\ inflight' = inflight \ stored'
      /\ stored = StoredBlocks /\ inflight \cap stored = {}
  BY DEF HermeneusInv, JointInv, StoredAgrees, WriterMoves, Settles
<1>2. Writer!SinkInv /\ Writer!SinkInv'
  <2>1. Writer!SinkInv /\ [Writer!SinkNext]_(Writer!sinkVars)
    BY DEF HermeneusInv, WriterMoves
  <2> QED
    BY <2>1, WriterAssumptions, Writer!SinkInductive
<1>3. stored = {b \in Blocks : \A r \in Rows : <<b, r>> \in DurableRows}
  BY <1>1, <1>2, StoredByRows
<1>4. stored' = {b \in Blocks : \A r \in Rows : <<b, r>> \in DurableRows'}
  <2>1. (StoredBlocks = {b \in Blocks : \A r \in Rows : <<b, r>> \in DurableRows})'
    BY <1>2, StoredByRows, PTL
  <2> QED
    BY <1>1, <2>1
<1>5. DurableRows \subseteq DurableRows'
  BY <1>2, RowsKept DEF WriterMoves
<1>6. CASE DurableRows' = DurableRows
  BY <1>1, <1>3, <1>4, <1>6
<1>7. ASSUME NEW b \in Blocks, wpc[b] # "off",
             \A x \in DurableRows' \ DurableRows : \E r \in Rows : x = <<b, r>>
      PROVE  \/ stored' = stored /\ inflight' = inflight
             \/ \E d \in inflight : stored' = stored \cup {d} /\ inflight' = inflight \ {d}
  <2>1. b \in inflight \cup stored
    BY <1>7 DEF HermeneusInv, JointInv, CallsAreOfBlocks
  <2>2. ASSUME NEW d \in stored', d # b
        PROVE  d \in stored
    BY <1>3, <1>4, <1>7, <2>2
  <2>3. stored \subseteq stored'
    BY <1>3, <1>4, <1>5
  <2>4. CASE b \in stored'
    <3>1. stored' = stored \cup {b}
      BY <2>2, <2>3, <2>4
    <3>2. inflight' = inflight \ {b}
      BY <1>1, <3>1
    <3> QED
      BY <1>1, <2>1, <3>1, <3>2
  <2>5. CASE b \notin stored'
    BY <1>1, <2>2, <2>3, <2>5
  <2> QED
    BY <2>4, <2>5
<1>8. stored \subseteq stored'
  BY <1>3, <1>4, <1>5
<1> QED
  BY <1>1, <1>2, <1>6, <1>7, <1>8, RowsKept DEF WriterMoves

LEMMA WriterStep ==
    ASSUME HermeneusInv, WriterMoves
    PROVE  [Next]_vars
<1>1. UNCHANGED <<process, pc, request, reader, wire, replies, client, history>>
  BY DEF WriterMoves, Settles
<1>2. CASE stored' = stored /\ inflight' = inflight
  BY <1>1, <1>2 DEF vars, sink
<1>3. ASSUME NEW b \in inflight, stored' = stored \cup {b}, inflight' = inflight \ {b}
      PROVE  Next
  <2>1. b \in Blocks
    BY DEF HermeneusInv, IInv, TypeOK, SinkTypeOK
  <2>2. Settle(b)
    BY <1>1, <1>3 DEF Settle
  <2> QED
    BY <2>1, <2>2 DEF Next, SinkNext
<1> QED
  BY <1>2, <1>3, WriterStores

LEMMA ServerImplemented ==
    ASSUME HermeneusInv, [HermeneusNext]_hermeneus
    PROVE  [Next]_vars
<1>1. CASE HermeneusNext
  BY <1>1, Moves, ServerStep, WriterStep DEF HermeneusInv, ServerNext, Next
<1>2. CASE UNCHANGED hermeneus
  BY <1>2 DEF hermeneus
<1> QED
  BY <1>1, <1>2

-----------------------------------------------------------------------------
\* The server and its Writer stay in step.

\* A handler comes to a Write only with the block it reads.
LEMMA InWrite ==
    ASSUME IInv, NEW c \in Conns, HandlerNext(c), NEW d \in Conns, pc'[d] = "inswrite"
    PROVE  \/ pc[d] = "inswrite" /\ Call(d)' = Call(d)
           \/ d = c /\ ReadBlock(c)
<1>1. /\ pc \in [Conns -> PCs] /\ blk \in [Conns -> 0 .. MaxBlocks]
      /\ cur \in [Conns -> 0 .. MaxRequests]
  BY DEF IInv, TypeOK, HandlerTypeOK
<1>2. CASE d # c
  <2>1. ~PanicOnQuery(c)
    BY <1>1 DEF PanicOnQuery, EndProcess
  <2>2. pc'[d] = pc[d] /\ cur'[d] = cur[d]
    BY <1>2, <2>1, HandlerStays DEF Same
  <2>3. blk'[d] = blk[d]
    <3>1. CASE ReadBlock(c) \/ BeginInsert(c)
      BY <1>1, <1>2, <3>1 DEF ReadBlock, BeginInsert
    <3>2. CASE Accept(c) \/ (HandlerReads(c) /\ ~ReadBlock(c))
      BY <3>2 DEF Accept, HandlerReads, ReadHello, ReadAddendum, ReadPing, ReadQuery,
         ReadOther, Drain, BadBlock, EndInsert, ProtocolError, ReadEOF, request
    <3>3. CASE HandlerRuns(c) /\ ~BeginInsert(c)
      BY <3>3 DEF HandlerRuns, LoopCheck, AnswerProbe, RejectQuery, AskStarRocks,
         PanicOnQuery, RejectInsert, request
    <3>4. CASE \/ WriteReturns(c) \/ StarRocksAnswers(c) \/ StarRocksFails(c)
               \/ Misread(c) \/ SwallowPacket(c) \/ LeaveLost(c)
      BY <3>4 DEF WriteReturns, WriteOk, WriteFails, StarRocksAnswers, StarRocksFails,
         Misread, SwallowPacket, LeaveLost, request
    <3> QED
      BY <3>1, <3>2, <3>3, <3>4 DEF HandlerNext
  <2> QED
    BY <2>2, <2>3 DEF Call
<1>3. CASE d = c /\ ~ReadBlock(c)
  <2>1. ASSUME Accept(c) \/ ReadHello(c) \/ ReadAddendum(c) \/ ReadPing(c) \/ ReadQuery(c)
        PROVE  pc'[c] # "inswrite"
    BY <1>1, <2>1 DEF Accept, ReadHello, ReadAddendum, ReadPing, ReadQuery, Goto, SendStray,
       Flush, AfterHello, AfterQuery
  <2>2. ASSUME ReadOther(c) \/ Drain(c) \/ BadBlock(c) \/ EndInsert(c)
        PROVE  pc'[c] # "inswrite"
    BY <1>1, <2>2 DEF ReadOther, Drain, BadBlock, EndInsert, Goto, SendStray, Flush,
       FailInsert, SendException, SendEndOfStream, AfterFailure
  <2>3. ASSUME ProtocolError(c) \/ ReadEOF(c) \/ LoopCheck(c) \/ AskStarRocks(c)
        PROVE  pc'[c] # "inswrite"
    BY <1>1, <2>3 DEF ProtocolError, ReadEOF, LoopCheck, AskStarRocks, Goto
  <2>4. ASSUME AnswerProbe(c) \/ RejectQuery(c) \/ RejectInsert(c) \/ BeginInsert(c)
        PROVE  pc'[c] # "inswrite"
    BY <1>1, <2>4 DEF AnswerProbe, RejectQuery, RejectInsert, BeginInsert, Goto, Flush,
       SendResult, SendException, SendHeader
  <2>5. ASSUME PanicOnQuery(c)
        PROVE  pc'[c] # "inswrite"
    BY <1>1, <2>5 DEF PanicOnQuery, EndProcess
  <2>6. ASSUME WriteOk(c) \/ WriteFails(c) \/ StarRocksAnswers(c) \/ StarRocksFails(c)
        PROVE  pc'[c] # "inswrite"
    BY <1>1, <2>6 DEF WriteOk, WriteFails, StarRocksAnswers, StarRocksFails, Goto, Flush,
       SendResult, SendException, FailInsert, AfterFailure
  <2>7. ASSUME Misread(c) \/ LeaveLost(c)
        PROVE  pc'[c] # "inswrite"
    BY <1>1, <2>7 DEF Misread, LeaveLost, Goto, Flush, SendStray
  <2>8. ASSUME SwallowPacket(c)
        PROVE  UNCHANGED <<pc, cur, blk>>
    BY <2>8 DEF SwallowPacket, request
  <2>9. UNCHANGED <<pc, cur, blk>>
    BY <1>3, <2>1, <2>2, <2>3, <2>4, <2>5, <2>6, <2>7, <2>8 DEF HandlerNext, HandlerReads,
       HandlerRuns, WriteReturns
  <2> QED
    BY <1>3, <2>9 DEF Call
<1> QED
  BY <1>2, <1>3

\* What a step of the server hands in, and where it leaves the handlers.
LEMMA ServerFootprint ==
    ASSUME IInv, OnceInv, ServerNext
    PROVE  /\ inflight \subseteq inflight'
           /\ (inflight' \ inflight) \cap stored = {}
           /\ \A c \in Conns :
                 pc'[c] = "inswrite" =>
                    \/ pc[c] = "inswrite" /\ Call(c)' = Call(c)
                    \/ Call(c)' \in inflight'
<1>1. pc \in [Conns -> PCs] /\ blk \in [Conns -> 0 .. MaxBlocks]
  BY DEF IInv, TypeOK, HandlerTypeOK
<1>2. ASSUME NEW c \in Conns, ReadBlock(c)
      PROVE  /\ inflight' = inflight \cup {<<<<c, cur[c]>>, NextPacket(c).n>>}
             /\ Call(c)' = <<<<c, cur[c]>>, NextPacket(c).n>>
  <2>1. /\ blk' = [blk EXCEPT ![c] = NextPacket(c).n] /\ cur' = cur
        /\ inflight' = inflight \cup {<<<<c, cur[c]>>, NextPacket(c).n>>}
    BY <1>2 DEF ReadBlock
  <2> QED
    BY <1>1, <2>1 DEF Call
<1>3. CASE \E c \in Conns : HandlerNext(c)
  <2>1. PICK c \in Conns : HandlerNext(c)
    BY <1>3
  <2>2. inflight' = inflight \/ ReadBlock(c)
    BY <2>1, HandlerFootprint
  <2>3. inflight \subseteq inflight' /\ (inflight' \ inflight) \cap stored = {}
    <3>1. CASE inflight' = inflight
      BY <3>1
    <3>2. CASE ReadBlock(c)
      BY <1>2, <3>2, HandedInOnce
    <3> QED
      BY <2>2, <3>1, <3>2
  <2>4. ASSUME NEW d \in Conns, pc'[d] = "inswrite"
        PROVE  \/ pc[d] = "inswrite" /\ Call(d)' = Call(d)
               \/ Call(d)' \in inflight'
    BY <1>2, <2>1, <2>4, InWrite
  <2> QED
    BY <2>3, <2>4
<1>4. CASE \E c \in Conns : ClientNext(c)
  <2>1. PICK c \in Conns : ClientNext(c)
    BY <1>4
  <2>2. UNCHANGED <<cur, blk, inflight>>
    BY <2>1, ClientFootprint DEF request, sink
  <2>3. pc' = pc \/ pc' = [pc EXCEPT ![c] = "backlog"]
    BY <2>1 DEF ClientNext, ClientReads, Connect, GetHello, GetPong, GetData, GetEnd,
       GetException, GetWrongReply, SendPing, SendQuery, SendBlock, SendEnd, Cancel, Leave,
       SeeClose, Goto, server
  <2> QED
    BY <1>1, <2>2, <2>3 DEF Call
<1>5. CASE ProcessNext
  <2>1. UNCHANGED <<cur, blk, inflight>>
    BY <1>5, ProcessFootprint DEF request, sink
  <2>2. \A d \in Conns : pc'[d] = "inswrite" => pc[d] = "inswrite"
    BY <1>1, <1>5 DEF ProcessNext, Signal, CloseListener, StopListening, AcceptAfterClose,
       AcceptError, Exit, EndProcess
  <2> QED
    BY <2>1, <2>2 DEF Call
<1> QED
  BY <1>3, <1>4, <1>5 DEF ServerNext

LEMMA InitHermeneus == HermeneusInit => HermeneusInv
<1> SUFFICES ASSUME HermeneusInit
             PROVE  HermeneusInv
  OBVIOUS
<1>1. IInv /\ OrderInv /\ OnceInv
  BY InitIInv, InitOrder, InitOnce DEF HermeneusInit
<1>2. Writer!SinkInit
  BY SameKafka DEF HermeneusInit, Sink!SinkInit, Writer!SinkInit, Sink!Init, Writer!Init,
     Sink!Kafka!Init, Writer!Kafka!Init
<1>3. Writer!SinkInv
  BY <1>2, WriterAssumptions, Writer!InitSink
<1>4. PICK r \in Rows : TRUE
  BY RowsAssumption
<1>5. stored = {} /\ inflight = {} /\ \A c \in Conns : pc[c] = "off"
  BY DEF HermeneusInit, Init
<1>6. \A b \in Blocks : wpc[b] = "off"
  BY DEF HermeneusInit, Sink!SinkInit, Sink!Init
<1>7. StoredBlocks = {}
  <2>1. CASE target = "kafka"
    <3>1. log = {}
      BY <2>1 DEF HermeneusInit, Sink!SinkInit, Sink!Kafka!Init
    <3>2. \A b \in Blocks : <<b, r>> \in Sink!Kafka!Records(b)
      BY <1>4 DEF Sink!Kafka!Records, Batch
    <3> QED
      BY <2>1, <3>1, <3>2 DEF StoredBlocks
  <2>2. CASE target # "kafka"
    <3>1. \A b \in Blocks : txn[b] = "none"
      BY <2>2 DEF HermeneusInit, Sink!SinkInit, Sink!Init
    <3> QED
      BY <2>2, <3>1 DEF StoredBlocks
  <2> QED
    BY <2>1, <2>2
<1> QED
  BY <1>1, <1>3, <1>5, <1>6, <1>7 DEF HermeneusInv, JointInv, StoredAgrees, CallsAreOfBlocks

LEMMA JointStep ==
    ASSUME HermeneusInv, [HermeneusNext]_hermeneus
    PROVE  JointInv'
<1>1. CASE ServerMoves
  <2>1. ServerNext /\ stored' = stored /\ StoredBlocks' = StoredBlocks /\ wpc' = wpc
    BY <1>1, ServerStep DEF ServerMoves, writer
  <2>2. /\ inflight \subseteq inflight'
        /\ (inflight' \ inflight) \cap stored = {}
        /\ \A c \in Conns :
              pc'[c] = "inswrite" =>
                 \/ pc[c] = "inswrite" /\ Call(c)' = Call(c)
                 \/ Call(c)' \in inflight'
    BY <2>1, ServerFootprint DEF HermeneusInv
  <2>3. StoredAgrees'
    BY <2>1, <2>2 DEF HermeneusInv, JointInv, StoredAgrees
  <2>4. CallsAreOfBlocks'
    BY <2>1, <2>2 DEF HermeneusInv, JointInv, CallsAreOfBlocks
  <2> QED
    BY <2>3, <2>4 DEF JointInv
<1>2. CASE WriterMoves
  <2>1. stored' = StoredBlocks' /\ inflight' = inflight \ stored' /\ UNCHANGED <<pc, cur, blk>>
    BY <1>2, WriterStores DEF WriterMoves, Settles, request
  <2>2. inflight \cup stored \subseteq inflight' \cup stored'
    BY <1>2, <2>1, WriterStores
  <2>3. StoredAgrees'
    BY <2>1 DEF StoredAgrees
  <2>4. ASSUME NEW b \in Blocks, wpc'[b] # "off"
        PROVE  b \in inflight \cup stored
    <3>1. CASE wpc[b] # "off"
      BY <3>1 DEF HermeneusInv, JointInv, CallsAreOfBlocks
    <3>2. CASE wpc[b] = "off"
      <4>1. Called(b)
        BY <1>2, <2>4, <3>2 DEF WriterMoves
      <4>2. b[1][1] \in Conns
        BY DEF Blocks, Inserts
      <4> QED
        BY <4>1, <4>2 DEF Called, At, HermeneusInv, JointInv, CallsAreOfBlocks
    <3> QED
      BY <3>1, <3>2
  <2>5. CallsAreOfBlocks'
    BY <2>1, <2>2, <2>4 DEF HermeneusInv, JointInv, CallsAreOfBlocks, Call
  <2> QED
    BY <2>3, <2>5 DEF JointInv
<1>3. CASE UNCHANGED hermeneus
  BY <1>3 DEF hermeneus, writer, vars, request, sink, HermeneusInv, JointInv, StoredAgrees,
     CallsAreOfBlocks, StoredBlocks, Call
<1> QED
  BY <1>1, <1>2, <1>3, Moves DEF HermeneusInv

\* The Writer keeps its own invariant.
LEMMA WriterKeeps ==
    ASSUME Writer!SinkInv, [HermeneusNext]_hermeneus
    PROVE  Writer!SinkInv'
<1>1. [Writer!SinkNext]_(Writer!sinkVars)
  <2>1. CASE UNCHANGED writer
    BY <2>1 DEF writer, Writer!sinkVars, Writer!vars, Writer!client, Writer!config,
       Writer!kafka
  <2>2. CASE UNCHANGED hermeneus
    BY <2>1, <2>2 DEF hermeneus
  <2> QED
    BY <2>1, <2>2, Moves DEF ServerMoves, WriterMoves
<1> QED
  BY <1>1, WriterAssumptions, Writer!SinkInductive

LEMMA HermeneusInductive ==
    ASSUME HermeneusInv, [HermeneusNext]_hermeneus
    PROVE  HermeneusInv'
<1>1. [Next]_vars
  BY ServerImplemented
<1>2. IInv' /\ OrderInv' /\ OnceInv'
  BY <1>1, Inductive, OrderInductive, OnceInductive DEF HermeneusInv
<1>3. Writer!SinkInv' /\ JointInv'
  BY WriterKeeps, JointStep DEF HermeneusInv
<1> QED
  BY <1>2, <1>3 DEF HermeneusInv

-----------------------------------------------------------------------------
THEOREM HermeneusInvariance == HermeneusSpec => []HermeneusInv
BY InitHermeneus, HermeneusInductive, PTL DEF HermeneusSpec

\* Server and Writer agree on what is stored and on what is being written.
THEOREM JointInvariance == HermeneusSpec => []JointInv
<1>1. HermeneusInv => JointInv
  BY DEF HermeneusInv
<1> QED
  BY <1>1, HermeneusInvariance, PTL

\* With either Writer in it, the process does what ChServer allows: an INSERT
\* goes on only from a durable block (insert.go:71).
THEOREM HermeneusServes == HermeneusSpec => ImplementsServer
<1>1. HermeneusInit => Init
  BY DEF HermeneusInit
<1> QED
  BY <1>1, HermeneusInvariance, ServerImplemented, PTL
     DEF HermeneusSpec, ImplementsServer, Spec

\* So every theorem about the wire server holds of it inside the process: what is
\* acknowledged or confirmed is stored, in order, and no dialogue goes wrong.
THEOREM ServerHolds ==
    HermeneusSpec =>
        /\ []AckedInsertIsStored /\ []ConfirmedIsStored /\ []StoredInBlockOrder
        /\ []RepliesMatchRequests /\ []OnlyFailedInsertDesyncs /\ []NoMutualWait
        /\ NeverWrittenAgain /\ ImplementsService
BY HermeneusServes, AckedIsStored, ConfirmedStored, BlocksStoredInOrder, RepliesMatch,
   OnlyFailedInsertsDesync, NobodyWaitsForNobody, WrittenOnce, ServiceImplemented, PTL
   DEF ImplementsServer

\* The rows of an INSERT become durable block by block, whatever a Write that has
\* given up, or a process that is gone, has left on its way (insert.go:71).
THEOREM RowsDurableInOrder == HermeneusSpec => []RowsInBlockOrder
<1>1. HermeneusInv => RowsInBlockOrder
  <2> SUFFICES ASSUME HermeneusInv, NEW x \in DurableRows, NEW m \in 1 .. x[1][2] - 1
               PROVE  <<x[1][1], m>> \in StoredBlocks
    BY DEF RowsInBlockOrder
  <2>1. PICK b \in Blocks : \E r \in Rows : x = <<b, r>> /\ wpc[b] # "off"
    BY DurableIsBegun DEF HermeneusInv
  <2>2. b \in inflight \cup stored
    BY <2>1 DEF HermeneusInv, JointInv, CallsAreOfBlocks
  <2>3. <<b[1], m>> \in stored
    BY <2>1, <2>2 DEF HermeneusInv, OrderInv, HandedInOrder
  <2> QED
    BY <2>1, <2>3 DEF HermeneusInv, JointInv, StoredAgrees
<1> QED
  BY <1>1, HermeneusInvariance, PTL

\* EndOfStream is sent only when StarRocks or the brokers have every row of the
\* INSERT (insert.go:71,76).
THEOREM AckedRowsStored == HermeneusSpec => []AckedRowsDurable
<1>1. HermeneusInv => AckedRowsDurable
  <2> SUFFICES ASSUME HermeneusInv, NEW b \in Offered, b[1] \in acked, NEW r \in Rows
               PROVE  <<b, r>> \in DurableRows
    BY DEF AckedRowsDurable
  <2>1. b \in stored
    BY InvariantSuffices DEF HermeneusInv, AckedInsertIsStored
  <2>2. b \in {d \in Blocks : \A s \in Rows : <<d, s>> \in DurableRows}
    BY <2>1, StoredByRows DEF HermeneusInv, JointInv, StoredAgrees
  <2> QED
    BY <2>2
<1> QED
  BY <1>1, HermeneusInvariance, PTL
=============================================================================
