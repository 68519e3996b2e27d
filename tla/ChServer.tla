------------------------------ MODULE ChServer ------------------------------
(***************************************************************************)
(* The ClickHouse wire server of hermeneus (internal/chserver/server.go    *)
(* and insert.go) inside its process (cmd/hermeneus/main.go): the listener *)
(* goroutine, one handler goroutine per connection, and the sink a handler *)
(* writes the blocks of an INSERT to.                                      *)
(*                                                                         *)
(* The sink does what every Writer promises (module WriteSink): a nil      *)
(* error means stored; after an error the records may be stored, never     *)
(* stored, or stored later.                                                *)
(***************************************************************************)
EXTENDS ChClient

\* Steps of a handler.

Arrived(c) == rd[c] <= Len(wire[c])

NextPacket(c) == wire[c][rd[c]]

\* The handler goroutine of c runs, and stands at p.
At(c, p) == srv # "exited" /\ pc[c] = p

Take(c) == rd' = [rd EXCEPT ![c] = @ + 1]

\* flush: a write to a connection the client has closed is lost; TCP reports
\* it at once, and then the handler returns, or only to a later write.
Flush(c, rs, p) ==
    \/ cl[c] # "gone" /\ Goto(c, p) /\ replies' = [replies EXCEPT ![c] = @ \o rs]
    \/ cl[c] = "gone" /\ UNCHANGED replies /\ (Goto(c, p) \/ Goto(c, "closed"))

\* The answers to the request in hand; writeBlock compresses as the query asked.
Answer(c, code) == Reply(code, cur[c], comp[c])

\* Mutant of the three below: nothing is sent.
SendNothing(c, p) == Goto(c, p) /\ UNCHANGED replies

SendException(c, p) == Flush(c, <<Answer(c, "Exception")>>, p)
SendHeader(c, p) == Flush(c, <<Answer(c, "Data")>>, p)
SendEndOfStream(c, p) == Flush(c, <<Answer(c, "End")>>, p)
SendResult(c, p) == Flush(c, <<Answer(c, "Data"), Answer(c, "End")>>, p)

\* An answer to no request.
SendStray(c, code, p) == Flush(c, <<Reply(code, 0, FALSE)>>, p)

Accept(c) ==
    /\ srv = "serving" /\ listening
    /\ At(c, "backlog")
    /\ Goto(c, "hello")
    /\ UNCHANGED <<others, request, reader, replies, sink, acked, failed, desync>>

\* Mutants of AfterHello.
AlwaysAddendum(version) == "addendum"
NeverAddendum(version) == "loop"

\* FeatureQuotaKey: these clients send an addendum.
AfterHello(version) == IF version = "quota" THEN "addendum" ELSE "loop"

\* handshake: ServerHello goes out before the addendum is read.
ReadHello(c) ==
    /\ At(c, "hello") /\ Arrived(c)
    /\ NextPacket(c).code = "Hello"
    /\ Take(c)
    /\ SendStray(c, "Hello", AfterHello(NextPacket(c).kind))
    /\ UNCHANGED <<others, request, left, sink, acked, failed, desync>>

ReadAddendum(c) ==
    /\ At(c, "addendum") /\ Arrived(c)
    /\ Take(c)
    /\ Goto(c, "loop")
    /\ UNCHANGED <<others, request, left, replies, sink, acked, failed, desync>>

\* The handler notices a cancelled ctx only between two requests.
LoopCheck(c) ==
    /\ At(c, "loop")
    /\ Goto(c, IF ctxDone THEN "closed" ELSE "read")
    /\ UNCHANGED <<others, request, reader, replies, sink, acked, failed, desync>>

\* readCode at a packet boundary.
ReadsCode(c) == At(c, "read") /\ Arrived(c) /\ left[c] = 0

ReadPing(c) ==
    /\ ReadsCode(c) /\ NextPacket(c).code = "Ping"
    /\ Take(c)
    /\ Flush(c, <<Reply("Pong", NextPacket(c).q, FALSE)>>, "loop")
    /\ UNCHANGED <<others, request, left, sink, acked, failed, desync>>

\* Mutant of AfterQuery: drainClientData is forgotten.
NoDrain == "route"

AfterQuery == "drain"

\* handleQuery decodes the query and takes over its compression flag.
ReadQuery(c) ==
    /\ ReadsCode(c) /\ NextPacket(c).code = "Query"
    /\ Take(c)
    /\ cur' = [cur EXCEPT ![c] = NextPacket(c).q]
    /\ kind' = [kind EXCEPT ![c] = NextPacket(c).kind]
    /\ comp' = [comp EXCEPT ![c] = NextPacket(c).comp]
    /\ Goto(c, AfterQuery)
    /\ UNCHANGED <<others, blk, left, replies, sink, acked, failed, desync>>

\* Mutant of Unread: the code itself is read once more.
UnreadWithCode(code) == MaxResidue + 1

\* Of all packets only Data reaches the default branch with a payload.
Unread(code) == IF code = "Data" THEN MaxResidue ELSE 0

\* The default branch of handle: an exception; the payload is not read.
ReadOther(c) ==
    /\ ReadsCode(c) /\ NextPacket(c).code \notin {"Ping", "Query"}
    /\ Take(c)
    /\ left' = [left EXCEPT ![c] = Unread(NextPacket(c).code)]
    /\ desync' = [desync EXCEPT ![c] = @ \/ NextPacket(c).code # "Cancel"]
    /\ SendStray(c, "Exception", "loop")
    /\ UNCHANGED <<others, request, sink, acked, failed>>

\* readCode inside a payload.  The byte it finds is no client code, or the code
\* of Ping, or of a packet handle does not serve, or the code of Query: then
\* the decoder is lost.
Misread(c) ==
    /\ At(c, "read") /\ left[c] > 0
    /\ left' = [left EXCEPT ![c] = @ - 1]
    /\ \/ Goto(c, "closed") /\ UNCHANGED replies
       \/ SendStray(c, "Pong", "loop")
       \/ SendStray(c, "Exception", "loop")
       \/ Goto(c, "lost") /\ UNCHANGED replies
    /\ UNCHANGED <<others, request, rd, sink, acked, failed, desync>>

\* A lost decoder takes the following packets, or the beginning of one, for
\* the fields of a query,
SwallowPacket(c) ==
    /\ At(c, "lost") /\ Arrived(c)
    /\ Take(c)
    /\ \E m \in 0 .. MaxResidue : left' = [left EXCEPT ![c] = m]
    /\ UNCHANGED <<others, pc, request, replies, sink, acked, failed, desync>>

\* until it fails, or rejects what it takes for one.
LeaveLost(c) ==
    /\ At(c, "lost")
    /\ \/ Goto(c, "closed") /\ UNCHANGED replies
       \/ SendStray(c, "Exception", "loop")
    /\ UNCHANGED <<others, request, reader, sink, acked, failed, desync>>

\* decodeBlock and drainClientData read a Data packet compressed or not, as
\* the query in hand said.
ReadsData(c) == NextPacket(c).code = "Data" /\ NextPacket(c).comp = comp[c]

\* drainClientData: the blank block behind the query.
Drain(c) ==
    /\ At(c, "drain") /\ Arrived(c)
    /\ ReadsData(c)
    /\ Take(c)
    /\ Goto(c, "route")
    /\ UNCHANGED <<others, request, left, replies, sink, acked, failed, desync>>

\* A system.* probe or DDL: a canned block.
AnswerProbe(c) ==
    /\ At(c, "route") /\ kind[c] = "probe"
    /\ SendResult(c, "loop")
    /\ UNCHANGED <<others, request, reader, sink, acked, failed, desync>>

\* A query Translate does not recognise.
RejectQuery(c) ==
    /\ At(c, "route") /\ kind[c] = "unknown"
    /\ SendException(c, "loop")
    /\ UNCHANGED <<others, request, reader, sink, acked, failed, desync>>

\* An INSERT that does not parse, or names an unknown table or column.
RejectInsert(c) ==
    /\ At(c, "route") /\ kind[c] = "badinsert"
    /\ SendException(c, "loop")
    /\ UNCHANGED <<others, request, reader, sink, acked, failed, desync>>

\* sr.Query with context.Background(): no deadline, no cancellation.
AskStarRocks(c) ==
    /\ At(c, "route") /\ kind[c] = "select" /\ SrConfigured
    /\ Goto(c, "query")
    /\ UNCHANGED <<others, request, reader, replies, sink, acked, failed, desync>>

\* The process is gone and every connection with it.
EndProcess ==
    /\ srv' = "exited"
    /\ listening' = FALSE
    /\ pc' = [c \in Conns |-> IF pc[c] = "off" THEN "off" ELSE "closed"]

\* Without HERMENEUS_SR_HOST sr.db is nil and QueryContext panics; nothing
\* recovers, so one query ends the process.
PanicOnQuery(c) ==
    /\ At(c, "route") /\ kind[c] = "select" /\ ~SrConfigured
    /\ EndProcess
    /\ UNCHANGED <<ctxDone, request, reader, wire, replies, client, sink, history>>

StarRocksAnswers(c) ==
    /\ At(c, "query")
    /\ SendResult(c, "loop")
    /\ UNCHANGED <<others, request, reader, sink, acked, failed, desync>>

\* The query fails, or encodeRows does.
StarRocksFails(c) ==
    /\ At(c, "query")
    /\ SendException(c, "loop")
    /\ UNCHANGED <<others, request, reader, sink, acked, failed, desync>>

\* handleInsert: the header block tells the client to go on.
BeginInsert(c) ==
    /\ At(c, "route") /\ kind[c] = "insert"
    /\ SendHeader(c, "insread")
    /\ blk' = [blk EXCEPT ![c] = 0]
    /\ UNCHANGED <<others, cur, kind, comp, reader, sink, acked, failed, desync>>

\* Mutant of AfterReadBlock: Write runs in a goroutine of its own.
NoWait == "insread"

AfterReadBlock == "inswrite"

\* handleInsert reads a data block and hands its records to the sink.
ReadBlock(c) ==
    /\ At(c, "insread") /\ Arrived(c)
    /\ ReadsData(c) /\ NextPacket(c).n > 0
    /\ Take(c)
    /\ blk' = [blk EXCEPT ![c] = NextPacket(c).n]
    /\ inflight' = inflight \cup {<<<<c, cur[c]>>, NextPacket(c).n>>}
    /\ Goto(c, AfterReadBlock)
    /\ UNCHANGED <<others, cur, kind, comp, left, replies, stored, acked, failed,
                   desync>>

\* Mutant of AfterFailure: the handler goes on reading blocks.
GoOn == "insread"

\* The error is the client's; handleInsert returns nil to the loop of handle.
AfterFailure == "loop"

FailInsert(c) ==
    /\ SendException(c, AfterFailure)
    /\ failed' = [failed EXCEPT ![c] = TRUE]

\* blockRecords fails.
BadBlock(c) ==
    /\ At(c, "insread") /\ Arrived(c)
    /\ ReadsData(c) /\ NextPacket(c).n > 0
    /\ Take(c)
    /\ FailInsert(c)
    /\ UNCHANGED <<others, request, left, sink, acked, desync>>

\* Mutant of Durable: the sink accepts what it has not stored yet.
Accepted(c) == TRUE

\* What a nil error of Write promises.
Durable(c) == <<<<c, cur[c]>>, blk[c]>> \in stored

WriteOk(c) ==
    /\ At(c, "inswrite") /\ Durable(c)
    /\ Goto(c, "insread")
    /\ UNCHANGED <<others, request, reader, replies, sink, acked, failed, desync>>

\* Mutant of WriteFails: the block is written once more.
WriteRetried(c) ==
    /\ At(c, "inswrite")
    /\ inflight' = inflight \cup {<<<<c, cur[c]>>, blk[c]>>}
    /\ UNCHANGED <<others, pc, request, reader, replies, stored, acked, failed, desync>>

\* Write returns an error, whatever has become of the records.
WriteFails(c) ==
    /\ At(c, "inswrite")
    /\ FailInsert(c)
    /\ UNCHANGED <<others, request, reader, sink, acked, desync>>

\* The blank block, or Cancel: EndOfStream.
EndInsert(c) ==
    /\ At(c, "insread") /\ Arrived(c)
    /\ \/ ReadsData(c) /\ NextPacket(c).n = 0
       \/ NextPacket(c).code = "Cancel"
    /\ Take(c)
    /\ SendEndOfStream(c, "loop")
    /\ acked' = acked \cup {<<c, cur[c]>>}
    /\ UNCHANGED <<others, request, left, sink, failed, desync>>

\* A packet that must not come here, or data that does not decode: the
\* handler returns and the connection closes.
ProtocolError(c) ==
    /\ Arrived(c) /\ ~ReadsData(c)
    /\ \/ At(c, "drain")
       \/ At(c, "insread") /\ NextPacket(c).code # "Cancel"
    /\ Goto(c, "closed")
    /\ UNCHANGED <<others, request, reader, replies, sink, acked, failed, desync>>

\* Every read ends in io.EOF once the client is gone and its bytes are read.
ReadEOF(c) ==
    /\ \E p \in ReadingPCs : At(c, p)
    /\ ~Arrived(c) /\ cl[c] = "gone"
    /\ Goto(c, "closed")
    /\ UNCHANGED <<others, request, reader, replies, sink, acked, failed, desync>>

-----------------------------------------------------------------------------
\* The process: the listener goroutine of ListenAndServe, and main.

Signal ==
    /\ ~ctxDone
    /\ ctxDone' = TRUE
    /\ UNCHANGED <<listening, srv, pc, request, reader, wire, replies, client, sink,
                   history>>

\* Connections nobody has accepted are reset.
StopListening ==
    /\ listening /\ listening' = FALSE
    /\ pc' = [c \in Conns |-> IF pc[c] = "backlog" THEN "closed" ELSE pc[c]]

CloseListener ==
    /\ ctxDone
    /\ StopListening
    /\ UNCHANGED <<ctxDone, srv, request, reader, wire, replies, client, sink, history>>

\* Mutant of AcceptReturns: the listener waits for every handler.
AcceptReturnsLast == ~listening /\ \A c \in Conns : pc[c] \in {"off", "closed"}

AcceptReturns == ~listening

\* Accept fails on the closed listener and ListenAndServe returns.
AcceptAfterClose ==
    /\ srv = "serving" /\ AcceptReturns
    /\ srv' = "returned"
    /\ UNCHANGED <<ctxDone, listening, pc, request, reader, wire, replies, client,
                   sink, history>>

\* It does so when Accept fails for another reason, such as no file descriptors.
AcceptError ==
    /\ srv = "serving" /\ srv' = "returned"
    /\ StopListening
    /\ UNCHANGED <<ctxDone, request, reader, wire, replies, client, sink, history>>

\* main returns, or log.Fatalf: nobody waits for the handlers.
Exit ==
    /\ srv = "returned"
    /\ EndProcess
    /\ UNCHANGED <<ctxDone, request, reader, wire, replies, client, sink, history>>

-----------------------------------------------------------------------------
\* The sink (external): it commits or drops what it was given at a time of its
\* own, also after the Write that gave it has returned an error or its process
\* is gone.

Settle(b) ==
    /\ b \in inflight
    /\ inflight' = inflight \ {b}
    /\ stored' \in {stored, stored \cup {b}}
    /\ UNCHANGED <<process, pc, request, reader, wire, replies, client, history>>

-----------------------------------------------------------------------------
HandlerReads(c) ==
    \/ ReadHello(c) \/ ReadAddendum(c) \/ ReadPing(c) \/ ReadQuery(c)
    \/ ReadOther(c) \/ Drain(c) \/ ReadBlock(c) \/ BadBlock(c)
    \/ EndInsert(c) \/ ProtocolError(c) \/ ReadEOF(c)

HandlerRuns(c) ==
    \/ LoopCheck(c) \/ AnswerProbe(c) \/ RejectQuery(c) \/ AskStarRocks(c)
    \/ PanicOnQuery(c) \/ RejectInsert(c) \/ BeginInsert(c)

WriteReturns(c) == WriteOk(c) \/ WriteFails(c)

HandlerNext(c) ==
    \/ Accept(c) \/ HandlerReads(c) \/ HandlerRuns(c) \/ WriteReturns(c)
    \/ StarRocksAnswers(c) \/ StarRocksFails(c)
    \/ Misread(c) \/ SwallowPacket(c) \/ LeaveLost(c)

ProcessNext ==
    Signal \/ CloseListener \/ AcceptAfterClose \/ AcceptError \/ Exit

SinkNext == \E b \in Blocks : Settle(b)

Next ==
    \/ ProcessNext
    \/ SinkNext
    \/ \E c \in Conns : HandlerNext(c) \/ ClientNext(c)

Spec == Init /\ [][Next]_vars

\* Fairness.  A handler with something to read or to answer is scheduled; Write
\* returns, to StarRocks within its 5 minutes and to Kafka if no broker leaves a
\* message under way unanswered (module Hermeneus); clients read what arrives and see
\* a closed connection; the listener and main run.  A query has no deadline.
Fairness ==
    /\ \A c \in Conns :
          /\ WF_vars(Accept(c))
          /\ WF_vars(HandlerReads(c))
          /\ WF_vars(HandlerRuns(c))
          /\ WF_vars(WriteReturns(c))
          /\ WF_vars(ClientReads(c))
          /\ WF_vars(SeeClose(c))
    /\ WF_vars(CloseListener)
    /\ WF_vars(AcceptAfterClose)
    /\ WF_vars(Exit)

FairSpec == Spec /\ Fairness
=============================================================================
