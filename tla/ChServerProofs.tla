--------------------------- MODULE ChServerProofs ---------------------------
(***************************************************************************)
(* Proofs about ChServer, for every number of connections, requests and    *)
(* blocks.  IInv is inductive, and it implies AckedInsertIsStored.         *)
(*                                                                         *)
(* A step changes the log of at most one client, or the place of its       *)
(* handler, or what is stored: the frame lemmas say what each part of      *)
(* IInv depends on, and leave to the proof of a step the few actions that  *)
(* move a handler into, through or out of an INSERT.                       *)
(***************************************************************************)
EXTENDS ChServerInvariant, SequenceTheorems, TLAPS

-----------------------------------------------------------------------------
\* Initially there is no packet and no handler.
LEMMA InitIInv == Init => IInv
<1>1. Init => TypeOK
  <2>1. <<>> \in Seq(Packets) /\ <<>> \in Seq(Replies)
    OBVIOUS
  <2>2. /\ "off" \in PCs /\ "off" \in Clients /\ "-" \in PacketKinds
        /\ 0 \in 0 .. MaxRequests /\ 0 \in 0 .. MaxBlocks /\ 0 \in 0 .. MaxResidue
    BY BoundsAssumption DEF PCs, Clients, PacketKinds
  <2>3. Init => /\ wire \in [Conns -> Seq(Packets)]
                /\ replies \in [Conns -> Seq(Replies)]
    BY <2>1 DEF Init
  <2>4. Init => /\ pc \in [Conns -> PCs]
                /\ kind \in [Conns -> PacketKinds]
                /\ cl \in [Conns -> Clients]
    BY <2>2 DEF Init
  <2>5. Init => /\ cur \in [Conns -> 0 .. MaxRequests]
                /\ nreq \in [Conns -> 0 .. MaxRequests]
                /\ blk \in [Conns -> 0 .. MaxBlocks]
                /\ sent \in [Conns -> 0 .. MaxBlocks]
                /\ left \in [Conns -> 0 .. MaxResidue]
                /\ rd \in [Conns -> Nat]
    BY <2>2 DEF Init
  <2>6. Init => /\ comp \in [Conns -> BOOLEAN]
                /\ failed \in [Conns -> BOOLEAN]
                /\ desync \in [Conns -> BOOLEAN]
    BY DEF Init
  <2>7. Init => /\ ctxDone \in BOOLEAN
                /\ listening \in BOOLEAN
                /\ srv \in {"serving", "returned", "exited"}
                /\ inflight \subseteq Blocks /\ stored \subseteq Blocks
                /\ acked \subseteq Inserts /\ confirmed \subseteq Inserts
    BY DEF Init
  <2> QED
    BY <2>3, <2>4, <2>5, <2>6, <2>7, Zenon
       DEF TypeOK, ProcessTypeOK, HandlerTypeOK, ClientTypeOK, SinkTypeOK
<1>2. ASSUME Init, NEW c \in Conns
      PROVE  LogInv(c) /\ HandlerInv(c)
  <2>1. /\ wire[c] = <<>> /\ DOMAIN wire[c] = {} /\ cl[c] = "off"
        /\ nreq[c] = 0 /\ pc[c] = "off" /\ rd[c] = 1 /\ acked = {}
    BY <1>2 DEF Init
  <2>2. LogInv(c)
    BY <2>1 DEF LogInv, ClientPlace, RequestsInOrder, BlankBehindQuery,
       OpenInsert, NothingBehindEnd
  <2>3. HandlerInv(c)
    BY <2>1 DEF HandlerInv, HandlerPlace, ReadBlocksStored, AckedIsFinal,
       InRequest
  <2> QED
    BY <2>2, <2>3
<1> QED
  BY <1>1, <1>2 DEF IInv

-----------------------------------------------------------------------------
\* Frame lemmas.

\* The log's part of the invariant depends on the log and its client only; the
\* client may end its request, and start to send the blocks of an INSERT.
LEMMA LogFrame ==
    ASSUME NEW c \in Conns, LogInv(c),
           wire'[c] = wire[c], nreq'[c] = nreq[c],
           \/ cl'[c] = cl[c]
           \/ cl[c] # "off" /\ cl'[c] \in {"idle", "gone"}
           \/ cl[c] = "header" /\ cl'[c] = "sending"
    PROVE  LogInv(c)'
BY DEF LogInv, ClientPlace, RequestsInOrder, BlankBehindQuery, OpenInsert,
   NothingBehindEnd, Ends, IsBlock

\* The handler's part stays true when more is stored and when the handler
\* leaves the request it has in hand.
LEMMA HandlerFrame ==
    ASSUME NEW c \in Conns, HandlerInv(c),
           wire'[c] = wire[c], nreq'[c] = nreq[c],
           cl'[c] \in {"header", "sending"} => cl[c] \in {"header", "sending"},
           \A q \in 1 .. MaxRequests : <<c, q>> \in acked' <=> <<c, q>> \in acked,
           stored \subseteq stored',
           \/ /\ rd'[c] = rd[c] /\ cur'[c] = cur[c] /\ blk'[c] = blk[c]
              /\ pc'[c] = pc[c]
           \/ /\ rd'[c] > 0
              /\ pc'[c] \notin InRequest
    PROVE  HandlerInv(c)'
BY DEF HandlerInv, HandlerPlace, ReadBlocksStored, AckedIsFinal, IsBlock, BlockOf,
   InRequest

-----------------------------------------------------------------------------
\* Types.

\* What flush leaves behind.
LEMMA FlushType ==
    ASSUME TypeOK, NEW c \in Conns, NEW p \in PCs, NEW rs \in Seq(Replies),
           Flush(c, rs, p)
    PROVE  /\ pc' \in [Conns -> PCs]
           /\ replies' \in [Conns -> Seq(Replies)]
           /\ \A d \in Conns \ {c} : pc'[d] = pc[d]
           /\ pc'[c] \in {p, "closed"}
<1>1. pc \in [Conns -> PCs] /\ replies \in [Conns -> Seq(Replies)] /\ "closed" \in PCs
  BY DEF TypeOK, HandlerTypeOK, ClientTypeOK, PCs
<1>2. replies[c] \o rs \in Seq(Replies)
  BY <1>1
<1> QED
  BY <1>1, <1>2 DEF Flush, Goto

\* The answers of a handler are replies.
LEMMA AnswerType ==
    ASSUME TypeOK, NEW c \in Conns
    PROVE  /\ \A code \in {"Data", "End", "Exception"} :
                 <<Answer(c, code)>> \in Seq(Replies)
           /\ <<Answer(c, "Data"), Answer(c, "End")>> \in Seq(Replies)
           /\ \A code \in {"Hello", "Pong", "Exception"} :
                 \A q \in 0 .. MaxRequests : <<Reply(code, q, FALSE)>> \in Seq(Replies)
<1>1. \A code \in {"Data", "End", "Exception"} : Answer(c, code) \in Replies
  BY DEF TypeOK, HandlerTypeOK, Answer, Reply, Replies
<1>2. \A code \in {"Hello", "Pong", "Exception"} :
         \A q \in 0 .. MaxRequests : Reply(code, q, FALSE) \in Replies
  BY DEF Reply, Replies
<1>3. ASSUME NEW r \in Replies, NEW t \in Replies
      PROVE  <<r>> \in Seq(Replies) /\ <<r, t>> \in Seq(Replies)
  OBVIOUS
<1> QED
  BY <1>1, <1>2, <1>3

\* The packet a reader takes.
LEMMA PacketType ==
    ASSUME IInv, NEW c \in Conns, Arrived(c)
    PROVE  /\ rd[c] \in DOMAIN wire[c]
           /\ NextPacket(c) \in Packets
           /\ rd[c] \in Nat \ {0}
BY DEF IInv, TypeOK, HandlerTypeOK, ClientTypeOK, HandlerInv, HandlerPlace,
   Arrived, NextPacket

-----------------------------------------------------------------------------
\* Steps of the handlers.

\* A handler's step leaves every log as it is, and the other handlers where
\* they are: what is left to show is its own part of the invariant.
LEMMA HandlerLocal ==
    ASSUME IInv, NEW c \in Conns, TypeOK',
           UNCHANGED <<wire, nreq, cl, stored>>,
           \A d \in Conns \ {c} :
              /\ rd'[d] = rd[d] /\ cur'[d] = cur[d]
              /\ blk'[d] = blk[d] /\ pc'[d] = pc[d]
              /\ \A q \in 1 .. MaxRequests : <<d, q>> \in acked' <=> <<d, q>> \in acked,
           HandlerInv(c)'
    PROVE  IInv'
<1>1. ASSUME NEW d \in Conns
      PROVE  LogInv(d)'
  BY LogFrame DEF IInv
<1>2. ASSUME NEW d \in Conns \ {c}
      PROVE  HandlerInv(d)'
  BY HandlerFrame DEF IInv
<1> QED
  BY <1>1, <1>2 DEF IInv

\* A step outside of requests, or out of one.
LEMMA QuietStep ==
    ASSUME IInv, NEW c \in Conns,
           UNCHANGED <<process, cur, kind, comp, blk, wire, client, sink, acked,
                       confirmed>>,
           rd' = rd \/ Take(c),
           pc' \in [Conns -> PCs],
           \A d \in Conns \ {c} : pc'[d] = pc[d],
           pc'[c] \notin InRequest,
           left' \in [Conns -> 0 .. MaxResidue],
           replies' \in [Conns -> Seq(Replies)],
           failed' \in [Conns -> BOOLEAN],
           desync' \in [Conns -> BOOLEAN]
    PROVE  IInv'
<1>1. rd' \in [Conns -> Nat] /\ rd'[c] > 0 /\ \A d \in Conns \ {c} : rd'[d] = rd[d]
  BY DEF IInv, TypeOK, HandlerTypeOK, HandlerInv, HandlerPlace, Take
<1>2. TypeOK'
  BY <1>1 DEF IInv, TypeOK, ProcessTypeOK, HandlerTypeOK, ClientTypeOK, SinkTypeOK,
     process, client, sink
<1>3. HandlerInv(c)'
  BY <1>1, HandlerFrame DEF IInv, client, sink
<1> QED
  BY <1>1, <1>2, <1>3, HandlerLocal DEF client, sink

\* A quiet step whose only effects are where the handler goes and what it sends.
LEMMA QuietFlush ==
    ASSUME IInv, NEW c \in Conns, NEW p \in PCs \ InRequest,
           NEW rs \in Seq(Replies), Flush(c, rs, p),
           UNCHANGED <<others, request, sink, acked>>,
           rd' = rd \/ Take(c),
           left' \in [Conns -> 0 .. MaxResidue],
           failed' \in [Conns -> BOOLEAN],
           desync' \in [Conns -> BOOLEAN]
    PROVE  IInv'
<1>1. /\ pc' \in [Conns -> PCs]
      /\ replies' \in [Conns -> Seq(Replies)]
      /\ \A d \in Conns \ {c} : pc'[d] = pc[d]
      /\ pc'[c] \in {p, "closed"}
  BY FlushType DEF IInv
<1>2. pc'[c] \notin InRequest
  BY <1>1 DEF InRequest
<1> QED
  BY <1>1, <1>2, QuietStep DEF others, request

\* A quiet step that sends nothing.
LEMMA QuietGoto ==
    ASSUME IInv, NEW c \in Conns, NEW p \in PCs \ InRequest, Goto(c, p),
           UNCHANGED <<others, request, replies, sink, acked, failed, desync>>,
           rd' = rd \/ Take(c),
           left' \in [Conns -> 0 .. MaxResidue]
    PROVE  IInv'
<1>1. /\ pc' \in [Conns -> PCs]
      /\ \A d \in Conns \ {c} : pc'[d] = pc[d]
      /\ pc'[c] = p
  BY DEF Goto, IInv, TypeOK, HandlerTypeOK
<1>2. /\ replies' \in [Conns -> Seq(Replies)]
      /\ failed' \in [Conns -> BOOLEAN]
      /\ desync' \in [Conns -> BOOLEAN]
  BY DEF IInv, TypeOK, ClientTypeOK, SinkTypeOK
<1> QED
  BY <1>1, <1>2, QuietStep DEF others, request

\* The handshake, the loop of handle, and what it does outside of queries.
LEMMA LoopSteps ==
    ASSUME IInv, NEW c \in Conns,
           \/ Accept(c) \/ ReadHello(c) \/ ReadAddendum(c) \/ LoopCheck(c)
           \/ ReadPing(c) \/ ReadOther(c) \/ Misread(c) \/ LeaveLost(c)
           \/ ProtocolError(c) \/ ReadEOF(c)
    PROVE  IInv'
<1>1. /\ left \in [Conns -> 0 .. MaxResidue]
      /\ failed \in [Conns -> BOOLEAN]
      /\ desync \in [Conns -> BOOLEAN]
  BY DEF IInv, TypeOK, HandlerTypeOK, SinkTypeOK
<1>2. {"hello", "addendum", "loop", "read", "lost", "closed"} \subseteq PCs \ InRequest
  BY DEF PCs, InRequest
<1>3. \A code \in {"Hello", "Pong", "Exception"} :
         \A q \in 0 .. MaxRequests : <<Reply(code, q, FALSE)>> \in Seq(Replies)
  BY AnswerType DEF IInv
<1>4. 0 \in 0 .. MaxRequests /\ 0 \in 0 .. MaxResidue /\ MaxResidue \in 0 .. MaxResidue
  BY BoundsAssumption
<1>5. CASE Accept(c)
  BY <1>1, <1>2, <1>5, QuietGoto DEF Accept, reader
<1>6. CASE ReadHello(c)
  <2>1. AfterHello(NextPacket(c).kind) \in PCs \ InRequest
    BY <1>2 DEF AfterHello
  <2> QED
    BY <1>1, <1>3, <1>4, <1>6, <2>1, QuietFlush DEF ReadHello, SendStray
<1>7. CASE ReadAddendum(c)
  BY <1>1, <1>2, <1>7, QuietGoto DEF ReadAddendum
<1>8. CASE LoopCheck(c)
  BY <1>1, <1>2, <1>8, QuietGoto DEF LoopCheck, reader
<1>9. CASE ReadPing(c)
  <2>1. NextPacket(c).q \in 0 .. MaxRequests
    BY <1>9, PacketType DEF ReadPing, ReadsCode, Packets
  <2> QED
    BY <1>1, <1>2, <1>3, <1>9, <2>1, QuietFlush DEF ReadPing
<1>10. CASE ReadOther(c)
  <2>1. /\ left' \in [Conns -> 0 .. MaxResidue]
        /\ desync' \in [Conns -> BOOLEAN]
    BY <1>1, <1>4, <1>10 DEF ReadOther, Unread
  <2> QED
    BY <1>1, <1>2, <1>3, <1>4, <1>10, <2>1, QuietFlush DEF ReadOther, SendStray
<1>11. CASE Misread(c)
  <2>1. left' \in [Conns -> 0 .. MaxResidue]
    BY <1>1, <1>11, BoundsAssumption DEF Misread
  <2>2. CASE Goto(c, "closed") /\ UNCHANGED replies
    BY <1>2, <1>11, <2>1, <2>2, QuietGoto DEF Misread
  <2>3. CASE Goto(c, "lost") /\ UNCHANGED replies
    BY <1>2, <1>11, <2>1, <2>3, QuietGoto DEF Misread
  <2>4. CASE SendStray(c, "Pong", "loop")
    BY <1>1, <1>2, <1>3, <1>4, <1>11, <2>1, <2>4, QuietFlush DEF Misread, SendStray
  <2>5. CASE SendStray(c, "Exception", "loop")
    BY <1>1, <1>2, <1>3, <1>4, <1>11, <2>1, <2>5, QuietFlush DEF Misread, SendStray
  <2> QED
    BY <1>11, <2>2, <2>3, <2>4, <2>5 DEF Misread
<1>12. CASE LeaveLost(c)
  <2>1. CASE Goto(c, "closed") /\ UNCHANGED replies
    BY <1>1, <1>2, <1>12, <2>1, QuietGoto DEF LeaveLost, reader
  <2>2. CASE SendStray(c, "Exception", "loop")
    BY <1>1, <1>2, <1>3, <1>4, <1>12, <2>2, QuietFlush DEF LeaveLost, SendStray, reader
  <2> QED
    BY <1>12, <2>1, <2>2 DEF LeaveLost
<1>13. CASE ProtocolError(c)
  BY <1>1, <1>2, <1>13, QuietGoto DEF ProtocolError, reader
<1>14. CASE ReadEOF(c)
  BY <1>1, <1>2, <1>14, QuietGoto DEF ReadEOF, reader
<1> QED
  BY <1>5, <1>6, <1>7, <1>8, <1>9, <1>10, <1>11, <1>12, <1>13, <1>14

\* The log, packet by packet.
LEMMA LogTypes ==
    ASSUME IInv, NEW c \in Conns
    PROVE  /\ wire[c] \in Seq(Packets)
           /\ Len(wire[c]) \in Nat /\ DOMAIN wire[c] = 1 .. Len(wire[c])
           /\ \A i \in DOMAIN wire[c] :
                 /\ wire[c][i] \in Packets
                 /\ wire[c][i].q \in 0 .. MaxRequests /\ wire[c][i].q \in Int
                 /\ wire[c][i].n \in 0 .. MaxBlocks
           /\ rd[c] \in Nat \ {0}
<1>1. wire[c] \in Seq(Packets) /\ rd[c] \in Nat \ {0}
  BY DEF IInv, TypeOK, HandlerTypeOK, ClientTypeOK, HandlerInv, HandlerPlace
<1>2. \A p \in Packets : /\ p.q \in 0 .. MaxRequests /\ p.q \in Int
                         /\ p.n \in 0 .. MaxBlocks
  BY BoundsAssumption DEF Packets
<1>3. \A i \in DOMAIN wire[c] : wire[c][i] \in Packets
  BY <1>1
<1> QED
  BY <1>1, <1>2, <1>3

\* A handler's step types the variables it may change.
LEMMA TypeFrame ==
    ASSUME TypeOK, UNCHANGED others, HandlerTypeOK', SinkTypeOK',
           replies' \in [Conns -> Seq(Replies)]
    PROVE  TypeOK'
BY DEF TypeOK, ProcessTypeOK, ClientTypeOK, others, process, client

\* What the step of one handler leaves to the others.
LEMMA OthersStay ==
    ASSUME IInv, NEW c \in Conns,
           rd' = rd \/ Take(c),
           pc' = pc \/ \E p : Goto(c, p)
    PROVE  \A d \in Conns \ {c} : rd'[d] = rd[d] /\ pc'[d] = pc[d]
BY DEF IInv, TypeOK, HandlerTypeOK, Take, Goto

\* The answers that end a request, and an INSERT given up.
LEMMA AnswerSteps ==
    ASSUME IInv, NEW c \in Conns,
           \/ AnswerProbe(c) \/ RejectQuery(c) \/ RejectInsert(c)
           \/ StarRocksAnswers(c) \/ StarRocksFails(c)
           \/ BadBlock(c) \/ WriteFails(c)
    PROVE  IInv'
<1>1. /\ left \in [Conns -> 0 .. MaxResidue]
      /\ failed \in [Conns -> BOOLEAN]
      /\ desync \in [Conns -> BOOLEAN]
  BY DEF IInv, TypeOK, HandlerTypeOK, SinkTypeOK
<1>2. "loop" \in PCs \ InRequest
  BY DEF PCs, InRequest
<1>3. /\ <<Answer(c, "Exception")>> \in Seq(Replies)
      /\ <<Answer(c, "Data"), Answer(c, "End")>> \in Seq(Replies)
  BY AnswerType DEF IInv
<1>4. CASE AnswerProbe(c) \/ StarRocksAnswers(c)
  BY <1>1, <1>2, <1>3, <1>4, QuietFlush
     DEF AnswerProbe, StarRocksAnswers, SendResult, reader
<1>5. CASE RejectQuery(c) \/ RejectInsert(c) \/ StarRocksFails(c)
  BY <1>1, <1>2, <1>3, <1>5, QuietFlush
     DEF RejectQuery, RejectInsert, StarRocksFails, SendException, reader
<1>6. CASE BadBlock(c) \/ WriteFails(c)
  <2>1. failed' \in [Conns -> BOOLEAN]
    BY <1>1, <1>6 DEF BadBlock, WriteFails, FailInsert
  <2> QED
    BY <1>1, <1>2, <1>3, <1>6, <2>1, QuietFlush
       DEF BadBlock, WriteFails, FailInsert, AfterFailure, SendException, reader
<1> QED
  BY <1>4, <1>5, <1>6

\* A query is decoded and its blank block drained: nothing of an INSERT is read.
LEMMA QuerySteps ==
    ASSUME IInv, NEW c \in Conns,
           ReadQuery(c) \/ Drain(c) \/ AskStarRocks(c) \/ SwallowPacket(c)
    PROVE  IInv'
<1>1. CASE ReadQuery(c)
  <2>1. rd[c] \in DOMAIN wire[c] /\ NextPacket(c) \in Packets /\ rd[c] \in Nat \ {0}
    BY <1>1, PacketType DEF ReadQuery, ReadsCode
  <2>2. TypeOK'
    <3>1. HandlerTypeOK'
      BY <1>1, <2>1 DEF ReadQuery, AfterQuery, Take, Goto, IInv, TypeOK,
         HandlerTypeOK, Packets, PCs
    <3>2. SinkTypeOK' /\ replies' \in [Conns -> Seq(Replies)] /\ UNCHANGED others
      BY <1>1 DEF ReadQuery, IInv, TypeOK, SinkTypeOK, ClientTypeOK, others, sink
    <3> QED
      BY <3>1, <3>2, TypeFrame DEF IInv
  <2>3. /\ pc'[c] = "drain" /\ cur'[c] = wire[c][rd[c]].q /\ rd'[c] = rd[c] + 1
        /\ wire[c][rd[c]].code = "Query"
        /\ UNCHANGED <<wire, cl, nreq, acked, stored>>
    BY <1>1 DEF ReadQuery, ReadsCode, AfterQuery, Take, Goto, NextPacket, others,
       client, sink, IInv, TypeOK, HandlerTypeOK
  <2>4. HandlerPlace(c)'
    BY <2>1, <2>3 DEF HandlerPlace
  <2>5. ReadBlocksStored(c)'
    <3>1. ASSUME NEW i \in DOMAIN wire[c], i < rd[c] + 1, wire[c][i].q = cur'[c]
          PROVE  ~IsBlock(c, i)
      <4>1. CASE i = rd[c]
        BY <2>3, <4>1 DEF IsBlock
      <4>2. CASE i < rd[c]
        <5>1. i \in 1 .. rd[c] - 1
          BY <2>1, <4>2, LogTypes
        <5>2. wire[c][i].q < wire[c][rd[c]].q
          BY <2>1, <2>3, <5>1 DEF IInv, LogInv, RequestsInOrder
        <5>3. wire[c][i].q \in Int /\ wire[c][rd[c]].q \in Int
          BY <2>1, LogTypes
        <5> QED
          BY <2>3, <3>1, <5>2, <5>3
      <4> QED
        BY <2>1, <3>1, <4>1, <4>2, LogTypes
    <3> QED
      BY <2>3, <3>1 DEF ReadBlocksStored, IsBlock
  <2>6. AckedIsFinal(c)'
    BY <2>3 DEF IInv, HandlerInv, AckedIsFinal, IsBlock, BlockOf
  <2> QED
    <3>1. \A d \in Conns \ {c} : cur'[d] = cur[d] /\ blk'[d] = blk[d]
      BY <1>1 DEF ReadQuery, IInv, TypeOK, HandlerTypeOK
    <3> QED
      BY <1>1, <2>2, <2>3, <2>4, <2>5, <2>6, <3>1, OthersStay, HandlerLocal
         DEF HandlerInv, ReadQuery
<1>2. CASE Drain(c)
  <2>1. rd[c] \in DOMAIN wire[c] /\ NextPacket(c) \in Packets /\ rd[c] \in Nat \ {0}
    BY <1>2, PacketType DEF Drain
  <2>2. TypeOK'
    <3>1. HandlerTypeOK'
      BY <1>2 DEF Drain, Take, Goto, IInv, TypeOK, HandlerTypeOK, request, PCs
    <3>2. SinkTypeOK' /\ replies' \in [Conns -> Seq(Replies)] /\ UNCHANGED others
      BY <1>2 DEF Drain, IInv, TypeOK, SinkTypeOK, ClientTypeOK, others, sink
    <3> QED
      BY <3>1, <3>2, TypeFrame DEF IInv
  <2>3. /\ pc[c] = "drain" /\ pc'[c] = "route" /\ rd'[c] = rd[c] + 1
        /\ wire[c][rd[c]].code = "Data"
        /\ UNCHANGED <<wire, cl, nreq, acked, stored, cur, blk>>
    BY <1>2 DEF Drain, At, ReadsData, Take, Goto, NextPacket, others, request,
       client, sink, IInv, TypeOK, HandlerTypeOK
  <2>4. /\ rd[c] - 1 \in DOMAIN wire[c]
        /\ wire[c][rd[c] - 1].q = cur[c]
        /\ wire[c][rd[c] - 1].code = "Query"
    BY <2>3 DEF IInv, HandlerInv, HandlerPlace, InRequest
  <2>5. wire[c][rd[c]].q = cur[c] /\ wire[c][rd[c]].n = 0
    <3>1. rd[c] > 1
      BY <2>1, <2>4, LogTypes
    <3>2. wire[c][rd[c]].q = wire[c][rd[c] - 1].q
      BY <2>1, <2>3, <3>1 DEF IInv, LogInv, RequestsInOrder
    <3>3. wire[c][rd[c] - 1 + 1].n = 0
      BY <2>4 DEF IInv, LogInv, BlankBehindQuery
    <3> QED
      BY <2>1, <2>4, <3>2, <3>3
  <2>6. HandlerPlace(c)'
    BY <2>1, <2>3, <2>5 DEF HandlerPlace, InRequest
  <2>7. ReadBlocksStored(c)'
    <3>1. ASSUME NEW i \in DOMAIN wire[c], i < rd[c] + 1, wire[c][i].q = cur[c]
          PROVE  ~IsBlock(c, i)
      <4>1. CASE i = rd[c]
        BY <2>5, <4>1 DEF IsBlock
      <4>2. CASE i < rd[c]
        BY <2>3, <3>1, <4>2 DEF IInv, HandlerInv, ReadBlocksStored
      <4> QED
        BY <2>1, <3>1, <4>1, <4>2, LogTypes
    <3> QED
      BY <2>3, <3>1 DEF ReadBlocksStored, IsBlock
  <2>8. AckedIsFinal(c)'
    BY <2>3 DEF IInv, HandlerInv, AckedIsFinal, IsBlock, BlockOf
  <2> QED
    BY <1>2, <2>2, <2>3, <2>6, <2>7, <2>8, OthersStay, HandlerLocal
       DEF HandlerInv, Drain
<1>3. CASE AskStarRocks(c)
  <2>1. TypeOK'
    <3>1. HandlerTypeOK'
      BY <1>3 DEF AskStarRocks, Goto, IInv, TypeOK, HandlerTypeOK, request, reader, PCs
    <3>2. SinkTypeOK' /\ replies' \in [Conns -> Seq(Replies)] /\ UNCHANGED others
      BY <1>3 DEF AskStarRocks, IInv, TypeOK, SinkTypeOK, ClientTypeOK, others, sink
    <3> QED
      BY <3>1, <3>2, TypeFrame DEF IInv
  <2>2. /\ pc[c] = "route" /\ pc'[c] = "query"
        /\ UNCHANGED <<wire, cl, nreq, acked, stored, cur, blk, rd>>
    BY <1>3 DEF AskStarRocks, At, Goto, others, request, reader, client, sink,
       IInv, TypeOK, HandlerTypeOK
  <2>3. HandlerInv(c)'
    BY <2>2 DEF IInv, HandlerInv, HandlerPlace, ReadBlocksStored, AckedIsFinal,
       InRequest, IsBlock, BlockOf
  <2> QED
    BY <1>3, <2>1, <2>2, <2>3, OthersStay, HandlerLocal DEF AskStarRocks
<1>4. CASE SwallowPacket(c)
  <2>1. /\ rd' \in [Conns -> Nat] /\ left' \in [Conns -> 0 .. MaxResidue]
        /\ UNCHANGED <<others, pc, request, replies, sink, acked, failed, desync>>
        /\ pc[c] = "lost" /\ Take(c)
    BY <1>4 DEF SwallowPacket, At, Take, IInv, TypeOK, HandlerTypeOK
  <2> QED
    BY <2>1, QuietStep DEF IInv, TypeOK, HandlerTypeOK, ClientTypeOK, SinkTypeOK,
       others, request, InRequest
<1> QED
  BY <1>1, <1>2, <1>3, <1>4

\* The header, the blocks and the end of an INSERT.
LEMMA InsertSteps ==
    ASSUME IInv, NEW c \in Conns,
           BeginInsert(c) \/ ReadBlock(c) \/ WriteOk(c) \/ EndInsert(c)
    PROVE  IInv'
<1>1. CASE BeginInsert(c)
  <2>1. /\ pc' \in [Conns -> PCs] /\ replies' \in [Conns -> Seq(Replies)]
        /\ \A d \in Conns \ {c} : pc'[d] = pc[d]
        /\ pc'[c] \in {"insread", "closed"}
    <3>1. "insread" \in PCs /\ <<Answer(c, "Data")>> \in Seq(Replies)
      BY AnswerType DEF IInv, PCs
    <3> QED
      BY <1>1, <3>1, FlushType DEF BeginInsert, SendHeader, IInv
  <2>2. TypeOK'
    <3>1. HandlerTypeOK'
      <4>1. /\ blk' = [blk EXCEPT ![c] = 0]
            /\ UNCHANGED <<cur, kind, comp, rd, left>>
        BY <1>1 DEF BeginInsert, reader
      <4>2. 0 \in 0 .. MaxBlocks
        BY BoundsAssumption
      <4> QED
        BY <2>1, <4>1, <4>2 DEF IInv, TypeOK, HandlerTypeOK
    <3>2. SinkTypeOK' /\ UNCHANGED others
      BY <1>1 DEF BeginInsert, IInv, TypeOK, SinkTypeOK, others, sink
    <3> QED
      BY <2>1, <3>1, <3>2, TypeFrame DEF IInv
  <2>3. /\ pc[c] = "route"
        /\ UNCHANGED <<wire, cl, nreq, acked, stored, cur, rd>>
        /\ \A d \in Conns \ {c} : blk'[d] = blk[d]
    BY <1>1 DEF BeginInsert, At, others, reader, client, sink, IInv, TypeOK,
       HandlerTypeOK
  <2>4. HandlerInv(c)'
    BY <2>1, <2>3 DEF IInv, HandlerInv, HandlerPlace, ReadBlocksStored,
       AckedIsFinal, InRequest, IsBlock, BlockOf
  <2> QED
    BY <2>1, <2>2, <2>3, <2>4, HandlerLocal
<1>2. CASE ReadBlock(c)
  <2>1. rd[c] \in DOMAIN wire[c] /\ NextPacket(c) \in Packets /\ rd[c] \in Nat \ {0}
    BY <1>2, PacketType DEF ReadBlock
  <2>2. /\ pc[c] = "insread" /\ pc'[c] = "inswrite" /\ rd'[c] = rd[c] + 1
        /\ wire[c][rd[c]].code = "Data" /\ wire[c][rd[c]].n > 0
        /\ blk'[c] = wire[c][rd[c]].n
        /\ UNCHANGED <<wire, cl, nreq, acked, stored, cur>>
        /\ \A d \in Conns \ {c} : blk'[d] = blk[d]
    BY <1>2 DEF ReadBlock, AfterReadBlock, At, ReadsData, Take, Goto, NextPacket,
       others, client, IInv, TypeOK, HandlerTypeOK
  <2>3. rd[c] - 1 \in DOMAIN wire[c] /\ wire[c][rd[c] - 1].q = cur[c]
    BY <2>2 DEF IInv, HandlerInv, HandlerPlace, InRequest
  <2>4. wire[c][rd[c]].q = cur[c] /\ cur[c] \in 1 .. MaxRequests
    <3>1. rd[c] > 1
      BY <2>1, <2>3, LogTypes
    <3>2. wire[c][rd[c]].q = wire[c][rd[c] - 1].q /\ wire[c][rd[c]].q > 0
      BY <2>1, <2>2, <3>1 DEF IInv, LogInv, RequestsInOrder
    <3> QED
      BY <2>1, <2>3, <3>2, LogTypes
  <2>5. TypeOK'
    <3>1. wire[c][rd[c]].n \in 1 .. MaxBlocks /\ NextPacket(c).n = wire[c][rd[c]].n
      BY <2>1, <2>2, LogTypes DEF NextPacket
    <3>2. HandlerTypeOK'
      BY <1>2, <3>1 DEF ReadBlock, AfterReadBlock, Take, Goto, IInv, TypeOK,
         HandlerTypeOK, PCs
    <3>3. <<<<c, cur[c]>>, NextPacket(c).n>> \in Blocks
      BY <2>4, <3>1 DEF Blocks, Inserts
    <3>4. SinkTypeOK' /\ replies' \in [Conns -> Seq(Replies)] /\ UNCHANGED others
      BY <1>2, <3>3 DEF ReadBlock, IInv, TypeOK, SinkTypeOK, ClientTypeOK, others
    <3> QED
      BY <3>2, <3>4, TypeFrame DEF IInv
  <2>6. HandlerPlace(c)'
    BY <2>1, <2>2, <2>4 DEF HandlerPlace, InRequest
  <2>7. ReadBlocksStored(c)'
    <3>1. rd'[c] - 1 = rd[c]
      BY <2>1, <2>2
    <3> QED
      BY <2>2, <3>1 DEF IInv, HandlerInv, ReadBlocksStored, IsBlock, BlockOf
  <2>8. AckedIsFinal(c)'
    BY <2>2 DEF IInv, HandlerInv, AckedIsFinal, IsBlock, BlockOf
  <2> QED
    BY <1>2, <2>2, <2>5, <2>6, <2>7, <2>8, OthersStay, HandlerLocal
       DEF HandlerInv, ReadBlock
<1>3. CASE WriteOk(c)
  <2>1. TypeOK'
    <3>1. HandlerTypeOK'
      BY <1>3 DEF WriteOk, Goto, IInv, TypeOK, HandlerTypeOK, request, reader, PCs
    <3>2. SinkTypeOK' /\ replies' \in [Conns -> Seq(Replies)] /\ UNCHANGED others
      BY <1>3 DEF WriteOk, IInv, TypeOK, SinkTypeOK, ClientTypeOK, others, sink
    <3> QED
      BY <3>1, <3>2, TypeFrame DEF IInv
  <2>2. /\ pc[c] = "inswrite" /\ pc'[c] = "insread"
        /\ <<<<c, cur[c]>>, blk[c]>> \in stored
        /\ UNCHANGED <<wire, cl, nreq, acked, stored, cur, blk, rd>>
    BY <1>3 DEF WriteOk, Durable, At, Goto, others, request, reader, client, sink,
       IInv, TypeOK, HandlerTypeOK
  <2>3. HandlerPlace(c)'
    BY <2>2 DEF IInv, HandlerInv, HandlerPlace, InRequest
  <2>4. ReadBlocksStored(c)'
    <3>1. ASSUME NEW i \in DOMAIN wire[c], i < rd[c], wire[c][i].q = cur[c],
                 IsBlock(c, i)
          PROVE  BlockOf(c, i) \in stored
      <4>1. CASE i = rd[c] - 1
        BY <2>2, <3>1, <4>1 DEF BlockOf, IInv, HandlerInv, ReadBlocksStored
      <4>2. CASE i < rd[c] - 1
        BY <2>2, <3>1, <4>2 DEF IInv, HandlerInv, ReadBlocksStored
      <4> QED
        BY <3>1, <4>1, <4>2, LogTypes
    <3> QED
      BY <2>2, <3>1 DEF ReadBlocksStored, IsBlock, BlockOf
  <2>5. AckedIsFinal(c)'
    BY <2>2 DEF IInv, HandlerInv, AckedIsFinal, IsBlock, BlockOf
  <2> QED
    BY <1>3, <2>1, <2>2, <2>3, <2>4, <2>5, OthersStay, HandlerLocal
       DEF HandlerInv, WriteOk
<1>4. CASE EndInsert(c)
  <2>1. rd[c] \in DOMAIN wire[c] /\ NextPacket(c) \in Packets /\ rd[c] \in Nat \ {0}
    BY <1>4, PacketType DEF EndInsert
  <2>2. /\ pc' \in [Conns -> PCs] /\ replies' \in [Conns -> Seq(Replies)]
        /\ \A d \in Conns \ {c} : pc'[d] = pc[d]
        /\ pc'[c] \in {"loop", "closed"}
    <3>1. "loop" \in PCs /\ <<Answer(c, "End")>> \in Seq(Replies)
      BY AnswerType DEF IInv, PCs
    <3> QED
      BY <1>4, <3>1, FlushType DEF EndInsert, SendEndOfStream, IInv
  <2>3. /\ pc[c] = "insread" /\ rd'[c] = rd[c] + 1
        /\ \/ wire[c][rd[c]].code = "Data" /\ wire[c][rd[c]].n = 0
           \/ wire[c][rd[c]].code = "Cancel"
        /\ UNCHANGED <<wire, cl, nreq, stored, cur, blk>>
        /\ acked' = acked \cup {<<c, cur[c]>>}
    BY <1>4 DEF EndInsert, At, ReadsData, Take, NextPacket, others, request, client,
       sink, IInv, TypeOK, HandlerTypeOK
  <2>4. /\ rd[c] - 1 \in DOMAIN wire[c] /\ wire[c][rd[c] - 1].q = cur[c]
        /\ wire[c][rd[c] - 1].code = "Data"
    BY <2>3 DEF IInv, HandlerInv, HandlerPlace, InRequest
  <2>5. /\ rd[c] > 1 /\ wire[c][rd[c]].q = cur[c]
        /\ cur[c] \in 1 .. MaxRequests /\ cur[c] <= nreq[c]
    <3>1. rd[c] > 1
      BY <2>1, <2>4, LogTypes
    <3>2. /\ wire[c][rd[c]].q = wire[c][rd[c] - 1].q
          /\ wire[c][rd[c]].q <= nreq[c]
          /\ wire[c][rd[c] - 1].q > 0
      BY <2>1, <2>3, <2>4, <3>1 DEF IInv, LogInv, RequestsInOrder
    <3> QED
      BY <2>1, <2>4, <3>1, <3>2, LogTypes
  <2>6. Ends(c, rd[c])
    BY <2>3, <2>4, <2>5 DEF Ends
  <2>7. TypeOK'
    <3>1. HandlerTypeOK'
      <4>1. /\ rd' = [rd EXCEPT ![c] = @ + 1]
            /\ UNCHANGED <<cur, kind, comp, blk, left>>
        BY <1>4 DEF EndInsert, Take, request
      <4> QED
        BY <2>2, <4>1 DEF IInv, TypeOK, HandlerTypeOK
    <3>2. SinkTypeOK' /\ UNCHANGED others
      BY <1>4, <2>5 DEF EndInsert, IInv, TypeOK, SinkTypeOK, others, sink, Inserts
    <3> QED
      BY <2>2, <3>1, <3>2, TypeFrame DEF IInv
  <2>8. ASSUME NEW i \in DOMAIN wire[c], wire[c][i].q = cur[c], IsBlock(c, i)
        PROVE  BlockOf(c, i) \in stored
    <3>1. CASE i < rd[c]
      BY <2>3, <2>8, <3>1 DEF IInv, HandlerInv, ReadBlocksStored
    <3>2. CASE i = rd[c]
      BY <2>3, <2>8, <3>2 DEF IsBlock
    <3>3. CASE rd[c] < i
      BY <2>1, <2>5, <2>6, <2>8, <3>3 DEF IInv, LogInv, NothingBehindEnd
    <3> QED
      BY <2>1, <2>8, <3>1, <3>2, <3>3, LogTypes
  <2>9. cur[c] = nreq[c] => cl[c] \notin {"header", "sending"}
    BY <2>1, <2>5, <2>6 DEF IInv, LogInv, OpenInsert
  <2>10. HandlerInv(c)'
    <3>1. HandlerPlace(c)' /\ ReadBlocksStored(c)'
      BY <2>1, <2>2, <2>3 DEF HandlerPlace, ReadBlocksStored, InRequest
    <3>2. AckedIsFinal(c)'
      BY <2>3, <2>5, <2>8, <2>9 DEF IInv, HandlerInv, AckedIsFinal, IsBlock, BlockOf
    <3> QED
      BY <3>1, <3>2 DEF HandlerInv
  <2>11. \A d \in Conns \ {c} :
            /\ rd'[d] = rd[d]
            /\ \A q \in 1 .. MaxRequests : <<d, q>> \in acked' <=> <<d, q>> \in acked
    BY <1>4, <2>3 DEF EndInsert, Take, IInv, TypeOK, HandlerTypeOK
  <2> QED
    BY <2>2, <2>3, <2>7, <2>10, <2>11, HandlerLocal
<1> QED
  BY <1>1, <1>2, <1>3, <1>4

-----------------------------------------------------------------------------
\* Steps of the process and of the sink.

\* A step that closes connections leaves every other part of them alone.
LEMMA ClosingStep ==
    ASSUME IInv, ProcessTypeOK',
           UNCHANGED <<request, reader, wire, replies, client, sink, history>>,
           pc' \in [Conns -> PCs],
           \A d \in Conns : pc'[d] \in {pc[d], "closed"}
    PROVE  IInv'
<1>1. TypeOK'
  BY DEF IInv, TypeOK, HandlerTypeOK, ClientTypeOK, SinkTypeOK, request, reader,
     client, sink, history
<1>2. ASSUME NEW d \in Conns
      PROVE  LogInv(d)' /\ HandlerInv(d)'
  <2>1. UNCHANGED <<cur, blk, rd, wire, cl, nreq, stored, acked>>
    BY DEF request, reader, client, sink, history
  <2>2. rd[d] > 0
    BY DEF IInv, HandlerInv, HandlerPlace
  <2>3. pc'[d] = pc[d] \/ pc'[d] \notin InRequest
    BY DEF InRequest
  <2> QED
    BY <2>1, <2>2, <2>3, LogFrame, HandlerFrame DEF IInv
<1> QED
  BY <1>1, <1>2 DEF IInv

LEMMA ProcessSteps ==
    ASSUME IInv, ProcessNext \/ \E c \in Conns : PanicOnQuery(c)
    PROVE  IInv'
<1>1. pc \in [Conns -> PCs] /\ "closed" \in PCs /\ "off" \in PCs
  BY DEF IInv, TypeOK, HandlerTypeOK, PCs
<1>2. CASE Signal \/ AcceptAfterClose
  BY <1>1, <1>2, ClosingStep
     DEF Signal, AcceptAfterClose, IInv, TypeOK, ProcessTypeOK
<1>3. CASE CloseListener \/ AcceptError
  BY <1>1, <1>3, ClosingStep
     DEF CloseListener, AcceptError, StopListening, IInv, TypeOK, ProcessTypeOK
<1>4. CASE Exit \/ \E c \in Conns : PanicOnQuery(c)
  BY <1>1, <1>4, ClosingStep
     DEF Exit, PanicOnQuery, EndProcess, IInv, TypeOK, ProcessTypeOK
<1> QED
  BY <1>2, <1>3, <1>4 DEF ProcessNext

\* More is stored, nothing else changes.
LEMMA SinkSteps ==
    ASSUME IInv, SinkNext
    PROVE  IInv'
<1>1. PICK b \in Blocks : Settle(b)
  BY DEF SinkNext
<1>2. /\ stored \subseteq stored' /\ stored' \subseteq Blocks
      /\ inflight' \subseteq Blocks
      /\ UNCHANGED <<process, pc, request, reader, wire, replies, client, history>>
  BY <1>1 DEF Settle, IInv, TypeOK, SinkTypeOK
<1>3. TypeOK'
  BY <1>2 DEF IInv, TypeOK, ProcessTypeOK, HandlerTypeOK, ClientTypeOK, SinkTypeOK,
     process, request, reader, client, history
<1>4. ASSUME NEW d \in Conns
      PROVE  LogInv(d)' /\ HandlerInv(d)'
  BY <1>2, LogFrame, HandlerFrame DEF IInv, request, reader, client, history
<1> QED
  BY <1>3, <1>4 DEF IInv

-----------------------------------------------------------------------------
\* Steps of the clients.

\* A client's step leaves the other connections alone.
LEMMA ClientLocal ==
    ASSUME IInv, NEW c \in Conns, TypeOK',
           UNCHANGED <<request, reader, stored, acked>>,
           \A d \in Conns \ {c} : /\ pc'[d] = pc[d] /\ wire'[d] = wire[d]
                                  /\ cl'[d] = cl[d] /\ nreq'[d] = nreq[d],
           LogInv(c)', HandlerInv(c)'
    PROVE  IInv'
<1>1. ASSUME NEW d \in Conns \ {c}
      PROVE  LogInv(d)' /\ HandlerInv(d)'
  BY LogFrame, HandlerFrame DEF IInv, request, reader
<1> QED
  BY <1>1 DEF IInv

\* What the variables of a client's step may become.
LEMMA ClientType ==
    ASSUME TypeOK, UNCHANGED server, ClientTypeOK', confirmed' \subseteq Inserts
    PROVE  TypeOK'
BY DEF TypeOK, ProcessTypeOK, HandlerTypeOK, SinkTypeOK, server, process, request,
   reader, sink

\* A client that sends nothing reads a reply or leaves.
LEMMA ClientQuiet ==
    ASSUME IInv, NEW c \in Conns, NEW s \in Clients, Become(c, s),
           \/ s \in {"idle", "gone"} /\ cl[c] # "off"
           \/ s = cl[c]
           \/ cl[c] = "header" /\ s = "sending",
           UNCHANGED <<server, wire, nreq, sent>>,
           replies' \in [Conns -> Seq(Replies)],
           confirmed' \subseteq Inserts
    PROVE  IInv'
<1>1. /\ cl' \in [Conns -> Clients] /\ cl'[c] = s
      /\ \A d \in Conns \ {c} : cl'[d] = cl[d]
  BY DEF Become, IInv, TypeOK, ClientTypeOK
<1>2. TypeOK'
  <2>1. ClientTypeOK'
    BY <1>1 DEF IInv, TypeOK, ClientTypeOK
  <2> QED
    BY <2>1, ClientType DEF IInv
<1>3. UNCHANGED <<process, pc, rd, cur, blk, stored, acked, request, reader>>
  BY DEF server, request, reader, sink
<1>4. LogInv(c)'
  BY <1>1, LogFrame DEF IInv
<1>5. HandlerInv(c)'
  BY <1>1, <1>3, HandlerFrame DEF IInv
<1> QED
  BY <1>1, <1>2, <1>3, <1>4, <1>5, ClientLocal

\* A client reads a reply, or closes its connection.
LEMMA ClientReadSteps ==
    ASSUME IInv, NEW c \in Conns,
           \/ GetPong(c) \/ GetData(c) \/ GetEnd(c) \/ GetException(c)
           \/ GetWrongReply(c) \/ Leave(c) \/ SeeClose(c)
    PROVE  IInv'
<1>1. /\ {"idle", "gone", "sending", "awaiting"} \subseteq Clients
      /\ replies \in [Conns -> Seq(Replies)]
      /\ confirmed \subseteq Inserts
  BY DEF IInv, TypeOK, ClientTypeOK, SinkTypeOK, Clients
<1>2. ASSUME NEW code, Receives(c, code)
      PROVE  replies' \in [Conns -> Seq(Replies)]
  BY <1>1, <1>2 DEF Receives
<1>3. ASSUME HangUp(c)
      PROVE  replies' \in [Conns -> Seq(Replies)]
  <2>1. <<>> \in Seq(Replies)
    OBVIOUS
  <2> QED
    BY <1>1, <1>3, <2>1 DEF HangUp
<1>4. CASE GetPong(c) \/ GetException(c)
  BY <1>1, <1>2, <1>4, ClientQuiet DEF GetPong, GetException
<1>5. CASE GetData(c)
  BY <1>1, <1>2, <1>5, ClientQuiet DEF GetData
<1>6. CASE GetEnd(c)
  <2>1. cl[c] = "ending" => <<c, nreq[c]>> \in Inserts
    BY DEF IInv, LogInv, ClientPlace, TypeOK, ClientTypeOK, Inserts
  <2>2. confirmed' \subseteq Inserts
    BY <1>1, <1>6, <2>1 DEF GetEnd
  <2> QED
    BY <1>1, <1>2, <1>6, <2>2, ClientQuiet DEF GetEnd
<1>7. CASE GetWrongReply(c)
  BY <1>1, <1>3, <1>7, ClientQuiet DEF GetWrongReply, HangUp
<1>8. CASE Leave(c) \/ SeeClose(c)
  BY <1>1, <1>3, <1>8, ClientQuiet DEF Leave, SeeClose, HangUp
<1> QED
  BY <1>4, <1>5, <1>6, <1>7, <1>8

\* What a longer log looks like.
LEMMA Longer ==
    ASSUME IInv, NEW c \in Conns, NEW ps \in Seq(Packets), Send(c, ps)
    PROVE  /\ wire' \in [Conns -> Seq(Packets)]
           /\ DOMAIN wire'[c] = 1 .. Len(wire[c]) + Len(ps)
           /\ Len(wire'[c]) = Len(wire[c]) + Len(ps)
           /\ \A i \in DOMAIN wire[c] : wire'[c][i] = wire[c][i]
           /\ \A k \in 1 .. Len(ps) : wire'[c][Len(wire[c]) + k] = ps[k]
           /\ \A d \in Conns \ {c} : wire'[d] = wire[d]
<1>1. wire \in [Conns -> Seq(Packets)]
  BY DEF IInv, TypeOK, ClientTypeOK
<1>2. wire'[c] = wire[c] \o ps /\ \A d \in Conns \ {c} : wire'[d] = wire[d]
  BY <1>1 DEF Send
<1>3. wire[c] \o ps \in Seq(Packets)
  BY <1>1
<1>4. wire' \in [Conns -> Seq(Packets)]
  BY <1>1, <1>3 DEF Send
<1>5. /\ DOMAIN wire'[c] = 1 .. Len(wire[c]) + Len(ps)
      /\ Len(wire'[c]) = Len(wire[c]) + Len(ps)
      /\ \A i \in 1 .. Len(wire[c]) : wire'[c][i] = wire[c][i]
      /\ \A k \in 1 .. Len(ps) : wire'[c][Len(wire[c]) + k] = ps[k]
  BY <1>1, <1>2, <1>3
<1> QED
  BY <1>1, <1>2, <1>4, <1>5

\* A handler does not notice that its log grows: the new packets are behind the
\* ones it has read, and belong to no acknowledged INSERT.
LEMMA HandlerLonger ==
    ASSUME IInv, NEW c \in Conns, NEW ps \in Seq(Packets), Send(c, ps),
           UNCHANGED <<rd, cur, blk, stored, acked>>, pc'[c] = pc[c],
           \A k \in 1 .. Len(ps) :
              ps[k].code = "Data" /\ ps[k].n > 0 =>
                 ps[k].q = nreq[c] /\ cl[c] = "sending",
           \/ nreq'[c] = nreq[c] /\ (cl'[c] \in {"header", "sending"} => cl'[c] = cl[c])
           \/ nreq'[c] = nreq[c] + 1
    PROVE  HandlerInv(c)'
<1>1. /\ \A i \in DOMAIN wire[c] : i \in DOMAIN wire'[c] /\ wire'[c][i] = wire[c][i]
      /\ Len(wire[c]) \in Nat /\ Len(ps) \in Nat
      /\ nreq[c] \in Nat
  BY Longer, LogTypes DEF IInv, TypeOK, ClientTypeOK
<1>2. HandlerPlace(c)'
  <2>1. HandlerPlace(c) /\ rd'[c] = rd[c] /\ cur'[c] = cur[c]
    BY DEF IInv, HandlerInv
  <2>2. pc[c] \in InRequest => wire'[c][rd[c] - 1] = wire[c][rd[c] - 1]
    BY <1>1, <2>1 DEF HandlerPlace
  <2> QED
    BY <1>1, <2>1, <2>2 DEF HandlerPlace, InRequest
<1>3. ASSUME pc[c] \in InRequest, NEW i \in DOMAIN wire'[c], i < rd[c]
      PROVE  i \in DOMAIN wire[c]
  <2>1. rd[c] - 1 \in 1 .. Len(wire[c])
    BY <1>3, LogTypes DEF IInv, HandlerInv, HandlerPlace
  <2>2. i \in 1 .. Len(wire[c]) + Len(ps)
    BY <1>3, Longer
  <2> QED
    BY <1>1, <1>3, <2>1, <2>2, LogTypes
<1>4. ReadBlocksStored(c)'
  <2>1. /\ rd'[c] = rd[c] /\ cur'[c] = cur[c] /\ blk'[c] = blk[c] /\ stored' = stored
        /\ ReadBlocksStored(c)
        /\ pc[c] \in InRequest => rd[c] - 1 \in DOMAIN wire[c] /\ rd[c] \in Nat
    BY LogTypes DEF IInv, HandlerInv, HandlerPlace
  <2>2. ASSUME NEW i \in DOMAIN wire'[c], i < rd[c], pc[c] \in InRequest
        PROVE  /\ i \in DOMAIN wire[c] /\ wire'[c][i] = wire[c][i]
               /\ IsBlock(c, i)' <=> IsBlock(c, i)
               /\ BlockOf(c, i)' = BlockOf(c, i)
    BY <1>1, <1>3, <2>2 DEF IsBlock, BlockOf
  <2>3. CASE pc[c] \in {"drain", "route"}
    BY <2>1, <2>2, <2>3 DEF ReadBlocksStored, InRequest
  <2>4. CASE pc[c] = "insread"
    BY <2>1, <2>2, <2>4 DEF ReadBlocksStored, InRequest
  <2>5. CASE pc[c] = "inswrite"
    <3>1. ASSUME NEW i \in DOMAIN wire'[c], i < rd[c] - 1
          PROVE  i < rd[c]
      BY <2>1, <2>5, <3>1, Longer, LogTypes DEF InRequest
    <3> QED
      BY <1>1, <2>1, <2>2, <2>5, <3>1 DEF ReadBlocksStored, InRequest
  <2> QED
    BY <2>3, <2>4, <2>5 DEF ReadBlocksStored
<1>5. ASSUME NEW q \in 1 .. MaxRequests, <<c, q>> \in acked
      PROVE  /\ q = nreq'[c] => cl'[c] \notin {"header", "sending"}
             /\ q <= nreq'[c]
             /\ \A i \in DOMAIN wire'[c] :
                   wire'[c][i].q = q /\ IsBlock(c, i)' => BlockOf(c, i)' \in stored
  <2>1. /\ q = nreq[c] => cl[c] \notin {"header", "sending"}
        /\ q <= nreq[c]
        /\ \A i \in DOMAIN wire[c] :
              wire[c][i].q = q /\ IsBlock(c, i) => BlockOf(c, i) \in stored
    BY <1>5 DEF IInv, HandlerInv, AckedIsFinal
  <2>2. ASSUME NEW i \in DOMAIN wire'[c], wire'[c][i].q = q, IsBlock(c, i)'
        PROVE  BlockOf(c, i)' \in stored
    <3>1. CASE i \in DOMAIN wire[c]
      BY <1>1, <2>1, <2>2, <3>1 DEF IsBlock, BlockOf
    <3>2. CASE i \notin DOMAIN wire[c]
      <4>1. i \in 1 .. Len(wire[c]) + Len(ps) /\ i \notin 1 .. Len(wire[c])
        BY <3>2, Longer, LogTypes
      <4>2. PICK k \in 1 .. Len(ps) : i = Len(wire[c]) + k
        <5>1. i \in Int /\ Len(wire[c]) \in Nat /\ Len(ps) \in Nat
          BY <1>1, <4>1
        <5>2. i - Len(wire[c]) \in 1 .. Len(ps) /\ i = Len(wire[c]) + (i - Len(wire[c]))
          BY <4>1, <5>1
        <5> QED
          BY <5>2
      <4>3. wire'[c][i] = ps[k]
        BY <4>2, Longer
      <4> QED
        BY <2>1, <2>2, <4>3 DEF IsBlock
    <3> QED
      BY <3>1, <3>2
  <2> QED
    BY <1>1, <2>1, <2>2
<1>6. AckedIsFinal(c)'
  BY <1>5 DEF AckedIsFinal
<1> QED
  BY <1>2, <1>4, <1>6 DEF HandlerInv

\* The packets of a longer log that were there before are what they were.
LEMMA OldPackets ==
    ASSUME IInv, NEW c \in Conns, NEW ps \in Seq(Packets), Send(c, ps)
    PROVE  \A i \in 1 .. Len(wire[c]) :
              /\ i \in DOMAIN wire[c] /\ i \in DOMAIN wire'[c]
              /\ wire'[c][i] = wire[c][i]
              /\ Ends(c, i)' <=> Ends(c, i)
              /\ IsBlock(c, i)' <=> IsBlock(c, i)
<1>1. ASSUME NEW i \in 1 .. Len(wire[c])
      PROVE  /\ i \in DOMAIN wire[c] /\ i \in DOMAIN wire'[c]
             /\ wire'[c][i] = wire[c][i]
             /\ i > 1 => wire'[c][i - 1] = wire[c][i - 1]
  <2>1. DOMAIN wire[c] = 1 .. Len(wire[c]) /\ Len(wire[c]) \in Nat /\ Len(ps) \in Nat
    BY LogTypes
  <2>2. i \in 1 .. Len(wire[c]) + Len(ps) /\ (i > 1 => i - 1 \in 1 .. Len(wire[c]))
    BY <2>1
  <2> QED
    BY <2>1, <2>2, Longer
<1> QED
  BY <1>1 DEF Ends, IsBlock

\* What the client adds to its log when it has been greeted: a packet of a
\* request already begun, or a Ping.
LEMMA LogAppend ==
    ASSUME IInv, NEW c \in Conns, NEW p \in Packets, Send(c, <<p>>),
           wire[c] # <<>>, nreq'[c] \in 0 .. MaxRequests,
           p.code # "Query", p.q = nreq'[c],
           p.code = "Data" => p.q > 0,
           p.code = "Data" /\ p.n > 0 => cl[c] = "sending",
           \/ nreq'[c] = nreq[c] /\ wire[c][Len(wire[c])].q = nreq[c]
           \/ nreq'[c] = nreq[c] + 1 /\ p.code = "Ping",
           \/ cl'[c] \in {"idle", "pinging", "gone"}
           \/ cl'[c] = "ending" /\ p.code = "Data"
           \/ /\ cl'[c] = "sending" /\ cl[c] = "sending" /\ nreq'[c] = nreq[c]
              /\ p.code = "Data" /\ p.n > 0
    PROVE  LogInv(c)'
<1>. PICK L \in Nat : L = Len(wire[c])
  BY LogTypes
<1>1. <<p>> \in Seq(Packets) /\ Len(<<p>>) = 1 /\ <<p>>[1] = p
  OBVIOUS
<1>2. /\ L \in Nat /\ DOMAIN wire[c] = 1 .. L
      /\ DOMAIN wire'[c] = 1 .. L + 1 /\ Len(wire'[c]) = L + 1
      /\ wire'[c][L + 1] = p
      /\ \A i \in 1 .. L : /\ wire'[c][i] = wire[c][i]
                           /\ Ends(c, i)' <=> Ends(c, i)
                           /\ IsBlock(c, i)' <=> IsBlock(c, i)
      /\ \A i \in 1 .. L : wire[c][i].q \in Int
  <2>1. /\ L \in Nat /\ DOMAIN wire[c] = 1 .. L
        /\ \A i \in 1 .. L : wire[c][i].q \in Int
    BY LogTypes
  <2>2. /\ DOMAIN wire'[c] = 1 .. L + 1 /\ Len(wire'[c]) = L + 1
        /\ \A k \in 1 .. 1 : wire'[c][L + k] = <<p>>[k]
    BY <1>1, Longer
  <2>3. wire'[c][L + 1] = p
    BY <1>1, <2>2
  <2> QED
    BY <1>1, <2>1, <2>2, <2>3, OldPackets
<1>3. L > 0 /\ nreq[c] \in Nat /\ nreq'[c] \in Nat /\ nreq[c] <= nreq'[c]
  <2>1. nreq[c] \in 0 .. MaxRequests
    BY DEF IInv, TypeOK, ClientTypeOK
  <2> QED
    BY <1>2, <2>1, LogTypes, BoundsAssumption
<1>4. \A i \in DOMAIN wire'[c] : i \in 1 .. L \/ i = L + 1
  BY <1>2
<1>5. LogInv(c)
  BY DEF IInv
<1>6. ClientPlace(c)'
  BY <1>2, <1>3 DEF ClientPlace
<1>7. RequestsInOrder(c)'
  <2>1. ASSUME NEW i \in 1 .. L
        PROVE  /\ wire[c][i].q <= nreq[c]
               /\ wire[c][i].code \in {"Query", "Data"} => wire[c][i].q > 0
               /\ \A j \in 1 .. i - 1 : j \in 1 .. L /\ wire[c][j].q <= wire[c][i].q
               /\ wire[c][i].code = "Query" =>
                     \A j \in 1 .. i - 1 : wire[c][j].q < wire[c][i].q
               /\ i > 1 /\ wire[c][i].code \notin {"Query", "Ping"} =>
                     i - 1 \in 1 .. L /\ wire[c][i].q = wire[c][i - 1].q
    <3>1. i \in DOMAIN wire[c] /\ \A j \in 1 .. i - 1 : j \in 1 .. L
      BY <1>2
    <3>2. i > 1 => i - 1 \in 1 .. L
      BY <1>2
    <3> QED
      BY <1>5, <3>1, <3>2 DEF LogInv, RequestsInOrder
  <2>2. ASSUME NEW j \in 1 .. L
        PROVE  wire'[c][j].q <= p.q
    <3>1. wire'[c][j] = wire[c][j] /\ wire[c][j].q \in Int /\ wire[c][j].q <= nreq[c]
      BY <1>2, <2>1
    <3> QED
      BY <1>3, <3>1
  <2>3. L + 1 > 1 /\ p.code \notin {"Query", "Ping"} => wire'[c][L + 1].q = wire'[c][L].q
    BY <1>2, <1>3
  <2>4. ASSUME NEW i \in 1 .. L
        PROVE  /\ wire'[c][i].q <= nreq'[c]
               /\ wire'[c][i].code \in {"Query", "Data"} => wire'[c][i].q > 0
               /\ \A j \in 1 .. i - 1 : wire'[c][j].q <= wire'[c][i].q
               /\ wire'[c][i].code = "Query" =>
                     \A j \in 1 .. i - 1 : wire'[c][j].q < wire'[c][i].q
               /\ i > 1 /\ wire'[c][i].code \notin {"Query", "Ping"} =>
                     wire'[c][i].q = wire'[c][i - 1].q
    <3>1. /\ wire'[c][i] = wire[c][i] /\ wire[c][i].q \in Int
          /\ \A j \in 1 .. L : wire'[c][j] = wire[c][j]
      BY <1>2
    <3>2. wire'[c][i].q <= nreq'[c]
      BY <1>3, <2>1, <3>1
    <3> QED
      BY <2>1, <3>1, <3>2
  <2>5. /\ wire'[c][L + 1].q <= nreq'[c]
        /\ wire'[c][L + 1].code \in {"Query", "Data"} => wire'[c][L + 1].q > 0
        /\ \A j \in 1 .. (L + 1) - 1 : wire'[c][j].q <= wire'[c][L + 1].q
        /\ wire'[c][L + 1].code # "Query"
        /\ L + 1 > 1 /\ wire'[c][L + 1].code \notin {"Query", "Ping"} =>
              wire'[c][L + 1].q = wire'[c][(L + 1) - 1].q
    BY <1>2, <1>3, <2>2, <2>3
  <2> QED
    BY <1>4, <2>4, <2>5 DEF RequestsInOrder
<1>8. BlankBehindQuery(c)'
  <2>1. \A i \in 1 .. L : wire[c][i].code = "Query" =>
           /\ i + 1 \in 1 .. L
           /\ wire[c][i + 1].code = "Data"
           /\ wire[c][i + 1].n = 0
    BY <1>2, <1>5 DEF LogInv, BlankBehindQuery
  <2>2. ASSUME NEW i \in DOMAIN wire'[c], wire'[c][i].code = "Query"
        PROVE  /\ i + 1 \in DOMAIN wire'[c]
               /\ wire'[c][i + 1].code = "Data"
               /\ wire'[c][i + 1].n = 0
    <3>1. i \in 1 .. L /\ wire[c][i].code = "Query"
      BY <1>2, <1>4, <2>2
    <3>2. i + 1 \in 1 .. L /\ wire'[c][i + 1] = wire[c][i + 1]
      BY <1>2, <2>1, <3>1
    <3> QED
      BY <1>2, <2>1, <3>1, <3>2
  <2> QED
    BY <2>2 DEF BlankBehindQuery
<1>9. OpenInsert(c)'
  <2>1. ASSUME cl'[c] = "sending"
        PROVE  \A i \in DOMAIN wire'[c] : Ends(c, i)' => wire'[c][i].q # nreq'[c]
    <3>1. \A i \in 1 .. L : Ends(c, i) => wire[c][i].q # nreq[c]
      BY <1>2, <1>5, <2>1 DEF LogInv, OpenInsert
    <3>2. ~Ends(c, L + 1)'
      <4>1. wire'[c][L + 1].code = "Data" /\ wire'[c][L + 1].n > 0
        BY <1>2, <2>1
      <4>2. wire'[c][L + 1].n # 0 /\ wire'[c][L + 1].code # "Cancel"
        BY <4>1
      <4> QED
        BY <4>2 DEF Ends
    <3>3. nreq'[c] = nreq[c]
      BY <2>1
    <3> QED
      BY <1>2, <1>4, <3>1, <3>2, <3>3
  <2> QED
    BY <2>1 DEF OpenInsert
<1>10. NothingBehindEnd(c)'
  <2>1. ASSUME NEW i \in DOMAIN wire'[c], NEW j \in DOMAIN wire'[c],
               i < j, Ends(c, i)', wire'[c][j].q = wire'[c][i].q
        PROVE  ~IsBlock(c, j)'
    <3>1. i \in 1 .. L
      BY <1>2, <1>4, <2>1
    <3>2. CASE j \in 1 .. L
      BY <1>2, <1>5, <2>1, <3>1, <3>2 DEF LogInv, NothingBehindEnd
    <3>3. CASE j = L + 1 /\ IsBlock(c, j)'
      <4>1. cl[c] = "sending" /\ p.q = nreq[c]
        BY <1>2, <3>3 DEF IsBlock
      <4>2. Ends(c, i) => wire[c][i].q # nreq[c]
        BY <1>2, <1>5, <3>1, <4>1 DEF LogInv, OpenInsert
      <4> QED
        BY <1>2, <2>1, <3>1, <3>3, <4>1, <4>2
    <3> QED
      BY <1>4, <3>2, <3>3
  <2> QED
    BY <2>1 DEF NothingBehindEnd
<1> QED
  BY <1>6, <1>7, <1>8, <1>9, <1>10 DEF LogInv

\* A Query and its blank block begin a request.
LEMMA LogQuery ==
    ASSUME IInv, NEW c \in Conns, NEW p \in Packets, NEW b \in Packets,
           Send(c, <<p, b>>), wire[c] # <<>>,
           nreq'[c] = nreq[c] + 1, p.q = nreq'[c], b.q = nreq'[c],
           p.code = "Query", b.code = "Data", b.n = 0,
           cl'[c] \in {"header", "awaiting"}
    PROVE  LogInv(c)'
<1>. PICK L \in Nat : L = Len(wire[c])
  BY LogTypes
<1>1. /\ <<p, b>> \in Seq(Packets) /\ Len(<<p, b>>) = 2
      /\ <<p, b>>[1] = p /\ <<p, b>>[2] = b
  OBVIOUS
<1>2. /\ DOMAIN wire[c] = 1 .. L
      /\ DOMAIN wire'[c] = 1 .. L + 2 /\ Len(wire'[c]) = L + 2
      /\ wire'[c][L + 1] = p /\ wire'[c][L + 2] = b
      /\ \A i \in 1 .. L : /\ wire'[c][i] = wire[c][i]
                           /\ Ends(c, i)' <=> Ends(c, i)
                           /\ IsBlock(c, i)' <=> IsBlock(c, i)
      /\ \A i \in 1 .. L : wire[c][i].q \in Int
  <2>1. /\ DOMAIN wire[c] = 1 .. L
        /\ \A i \in 1 .. L : wire[c][i].q \in Int
    BY LogTypes
  <2>2. /\ DOMAIN wire'[c] = 1 .. L + 2 /\ Len(wire'[c]) = L + 2
        /\ \A k \in 1 .. 2 : wire'[c][L + k] = <<p, b>>[k]
    BY <1>1, Longer
  <2>3. wire'[c][L + 1] = p /\ wire'[c][L + 2] = b
    BY <1>1, <2>2
  <2> QED
    BY <1>1, <2>1, <2>2, <2>3, OldPackets
<1>3. L > 0 /\ nreq[c] \in Nat /\ nreq'[c] \in Nat /\ nreq[c] < nreq'[c]
  <2>1. nreq[c] \in 0 .. MaxRequests
    BY DEF IInv, TypeOK, ClientTypeOK
  <2> QED
    BY <1>2, <2>1, LogTypes, BoundsAssumption
<1>4. \A i \in DOMAIN wire'[c] : i \in 1 .. L \/ i = L + 1 \/ i = L + 2
  BY <1>2
<1>5. LogInv(c)
  BY DEF IInv
<1>6. ClientPlace(c)'
  BY <1>2, <1>3 DEF ClientPlace
<1>7. RequestsInOrder(c)'
  <2>1. ASSUME NEW i \in 1 .. L
        PROVE  /\ wire[c][i].q <= nreq[c]
               /\ wire[c][i].code \in {"Query", "Data"} => wire[c][i].q > 0
               /\ \A j \in 1 .. i - 1 : j \in 1 .. L /\ wire[c][j].q <= wire[c][i].q
               /\ wire[c][i].code = "Query" =>
                     \A j \in 1 .. i - 1 : wire[c][j].q < wire[c][i].q
               /\ i > 1 /\ wire[c][i].code \notin {"Query", "Ping"} =>
                     i - 1 \in 1 .. L /\ wire[c][i].q = wire[c][i - 1].q
    <3>1. i \in DOMAIN wire[c] /\ \A j \in 1 .. i - 1 : j \in 1 .. L
      BY <1>2
    <3>2. i > 1 => i - 1 \in 1 .. L
      BY <1>2
    <3> QED
      BY <1>5, <3>1, <3>2 DEF LogInv, RequestsInOrder
  <2>2. ASSUME NEW j \in 1 .. L
        PROVE  wire'[c][j].q < nreq'[c]
    <3>1. wire'[c][j] = wire[c][j] /\ wire[c][j].q \in Int /\ wire[c][j].q <= nreq[c]
      BY <1>2, <2>1
    <3> QED
      BY <1>3, <3>1
  <2>3. ASSUME NEW i \in 1 .. L
        PROVE  /\ wire'[c][i].q <= nreq'[c]
               /\ wire'[c][i].code \in {"Query", "Data"} => wire'[c][i].q > 0
               /\ \A j \in 1 .. i - 1 : wire'[c][j].q <= wire'[c][i].q
               /\ wire'[c][i].code = "Query" =>
                     \A j \in 1 .. i - 1 : wire'[c][j].q < wire'[c][i].q
               /\ i > 1 /\ wire'[c][i].code \notin {"Query", "Ping"} =>
                     wire'[c][i].q = wire'[c][i - 1].q
    <3>1. /\ wire'[c][i] = wire[c][i] /\ wire[c][i].q \in Int
          /\ \A j \in 1 .. L : wire'[c][j] = wire[c][j]
      BY <1>2
    <3>2. wire'[c][i].q <= nreq'[c]
      BY <1>3, <2>1, <3>1
    <3> QED
      BY <2>1, <3>1, <3>2
  <2>4. /\ \A j \in 1 .. (L + 1) - 1 : wire'[c][j].q < wire'[c][L + 1].q
        /\ \A j \in 1 .. (L + 2) - 1 : wire'[c][j].q <= wire'[c][L + 2].q
    <3>1. \A j \in 1 .. (L + 2) - 1 : j \in 1 .. L \/ j = L + 1
      OBVIOUS
    <3>2. \A j \in 1 .. (L + 1) - 1 : j \in 1 .. L
      OBVIOUS
    <3>3. \A j \in 1 .. L : wire'[c][j].q \in Int
      BY <1>2
    <3>4. wire'[c][L + 1].q = nreq'[c] /\ wire'[c][L + 2].q = nreq'[c]
      BY <1>2
    <3>5. ASSUME NEW j \in 1 .. (L + 2) - 1
          PROVE  wire'[c][j].q <= nreq'[c]
      <4>1. CASE j \in 1 .. L
        BY <1>3, <2>2, <3>3, <4>1
      <4>2. CASE j = L + 1
        BY <1>3, <3>4, <4>2
      <4> QED
        BY <3>1, <4>1, <4>2
    <3> QED
      BY <2>2, <3>2, <3>4, <3>5
  <2>5. \A i \in {L + 1, L + 2} :
           /\ wire'[c][i].q = nreq'[c] /\ wire'[c][i].q > 0
           /\ wire'[c][i].q <= nreq'[c]
    <3>1. wire'[c][L + 1].q = nreq'[c] /\ wire'[c][L + 2].q = nreq'[c]
      BY <1>2
    <3>2. nreq'[c] > 0 /\ nreq'[c] <= nreq'[c]
      BY <1>3
    <3> QED
      BY <3>1, <3>2
  <2>6. wire'[c][(L + 2) - 1] = p
    BY <1>2
  <2> QED
    <3>1. ASSUME NEW i \in {L + 1, L + 2}
          PROVE  /\ wire'[c][i].q <= nreq'[c]
                 /\ wire'[c][i].code \in {"Query", "Data"} => wire'[c][i].q > 0
                 /\ \A j \in 1 .. i - 1 : wire'[c][j].q <= wire'[c][i].q
                 /\ wire'[c][i].code = "Query" =>
                       \A j \in 1 .. i - 1 : wire'[c][j].q < wire'[c][i].q
                 /\ i > 1 /\ wire'[c][i].code \notin {"Query", "Ping"} =>
                       wire'[c][i].q = wire'[c][i - 1].q
      <4>1. CASE i = L + 1
        <5>1. \A j \in 1 .. (L + 1) - 1 : j \in 1 .. L /\ wire'[c][j].q \in Int
          <6>1. \A j \in 1 .. (L + 1) - 1 : j \in 1 .. L
            OBVIOUS
          <6>2. \A j \in 1 .. L : wire'[c][j].q \in Int
            BY <1>2
          <6> QED
            BY <6>1, <6>2
        <5>2. wire'[c][L + 1].q \in Int
          BY <1>3, <2>5
        <5> QED
          BY <1>2, <2>4, <2>5, <4>1, <5>1, <5>2
      <4>2. CASE i = L + 2
        BY <1>2, <2>4, <2>5, <2>6, <4>2
      <4> QED
        BY <4>1, <4>2
    <3>2. ASSUME NEW i \in DOMAIN wire'[c]
          PROVE  /\ wire'[c][i].q <= nreq'[c]
                 /\ wire'[c][i].code \in {"Query", "Data"} => wire'[c][i].q > 0
                 /\ \A j \in 1 .. i - 1 : wire'[c][j].q <= wire'[c][i].q
                 /\ wire'[c][i].code = "Query" =>
                       \A j \in 1 .. i - 1 : wire'[c][j].q < wire'[c][i].q
                 /\ i > 1 /\ wire'[c][i].code \notin {"Query", "Ping"} =>
                       wire'[c][i].q = wire'[c][i - 1].q
      <4>1. CASE i \in 1 .. L
        BY <2>3, <4>1
      <4>2. CASE i \in {L + 1, L + 2}
        BY <3>1, <4>2
      <4> QED
        BY <1>4, <4>1, <4>2
    <3> QED
      BY <3>2 DEF RequestsInOrder
<1>8. BlankBehindQuery(c)'
  <2>1. \A i \in 1 .. L : wire[c][i].code = "Query" =>
           /\ i + 1 \in 1 .. L
           /\ wire[c][i + 1].code = "Data"
           /\ wire[c][i + 1].n = 0
    BY <1>2, <1>5 DEF LogInv, BlankBehindQuery
  <2>2. ASSUME NEW i \in DOMAIN wire'[c], wire'[c][i].code = "Query"
        PROVE  /\ i + 1 \in DOMAIN wire'[c]
               /\ wire'[c][i + 1].code = "Data"
               /\ wire'[c][i + 1].n = 0
    <3>1. CASE i \in 1 .. L
      <4>1. i + 1 \in 1 .. L /\ wire'[c][i + 1] = wire[c][i + 1]
        BY <1>2, <2>1, <2>2, <3>1
      <4> QED
        BY <1>2, <2>1, <2>2, <3>1, <4>1
    <3>2. CASE i = L + 1
      <4>1. i + 1 = L + 2
        BY <3>2
      <4> QED
        BY <1>2, <4>1
    <3> QED
      BY <1>2, <1>4, <2>2, <3>1, <3>2
  <2> QED
    BY <2>2 DEF BlankBehindQuery
<1>9. \A i \in DOMAIN wire'[c] : Ends(c, i)' => i \in 1 .. L
  <2>1. ~Ends(c, L + 1)'
    BY <1>2 DEF Ends
  <2>2. ~Ends(c, L + 2)'
    <3>1. wire'[c][(L + 2) - 1].code = "Query" /\ wire'[c][L + 2].code = "Data"
      BY <1>2
    <3> QED
      BY <3>1 DEF Ends
  <2> QED
    BY <1>4, <2>1, <2>2
<1>10. OpenInsert(c)'
  <2>1. \A i \in 1 .. L : wire'[c][i].q # nreq'[c]
    <3>1. ASSUME NEW i \in 1 .. L
          PROVE  wire'[c][i].q # nreq'[c]
      <4>1. wire[c][i].q <= nreq[c] /\ wire'[c][i] = wire[c][i]
        BY <1>2, <1>5 DEF LogInv, RequestsInOrder
      <4>2. wire[c][i].q \in Int
        BY <1>2
      <4> QED
        BY <1>3, <4>1, <4>2
    <3> QED
      BY <3>1
  <2> QED
    BY <1>9, <2>1 DEF OpenInsert
<1>11. NothingBehindEnd(c)'
  <2>1. ASSUME NEW i \in DOMAIN wire'[c], NEW j \in DOMAIN wire'[c],
               i < j, Ends(c, i)', wire'[c][j].q = wire'[c][i].q, IsBlock(c, j)'
        PROVE  FALSE
    <3>1. i \in 1 .. L
      BY <1>9, <2>1
    <3>2. j \in 1 .. L
      <4>1. ~IsBlock(c, L + 1)' /\ ~IsBlock(c, L + 2)'
        BY <1>2 DEF IsBlock
      <4> QED
        BY <1>4, <2>1, <4>1
    <3> QED
      BY <1>2, <1>5, <2>1, <3>1, <3>2 DEF LogInv, NothingBehindEnd
  <2> QED
    BY <2>1 DEF NothingBehindEnd
<1> QED
  BY <1>6, <1>7, <1>8, <1>10, <1>11 DEF LogInv

\* A client that has been greeted sends packets.
LEMMA ClientSends ==
    ASSUME IInv, NEW c \in Conns, NEW ps \in Seq(Packets), Send(c, ps),
           UNCHANGED <<server, confirmed>>,
           replies' \in [Conns -> Seq(Replies)],
           cl' \in [Conns -> Clients], nreq' \in [Conns -> 0 .. MaxRequests],
           sent' \in [Conns -> 0 .. MaxBlocks],
           \A d \in Conns \ {c} : cl'[d] = cl[d] /\ nreq'[d] = nreq[d],
           \A k \in 1 .. Len(ps) :
              ps[k].code = "Data" /\ ps[k].n > 0 =>
                 ps[k].q = nreq[c] /\ cl[c] = "sending",
           \/ nreq'[c] = nreq[c] /\ (cl'[c] \in {"header", "sending"} => cl'[c] = cl[c])
           \/ nreq'[c] = nreq[c] + 1,
           LogInv(c)'
    PROVE  IInv'
<1>1. UNCHANGED <<pc, request, reader, rd, cur, blk, stored, acked>>
  BY DEF server, request, reader, sink
<1>2. HandlerInv(c)'
  BY <1>1, HandlerLonger
<1>3. TypeOK'
  <2>1. ClientTypeOK' /\ confirmed' \subseteq Inserts
    BY Longer DEF IInv, TypeOK, ClientTypeOK, SinkTypeOK
  <2> QED
    BY <2>1, ClientType DEF IInv
<1>4. \A d \in Conns \ {c} : wire'[d] = wire[d]
  BY Longer
<1> QED
  BY <1>1, <1>2, <1>3, <1>4, ClientLocal

\* Facts about a client the steps below share.
LEMMA ClientFacts ==
    ASSUME IInv, NEW c \in Conns
    PROVE  /\ cl \in [Conns -> Clients] /\ nreq \in [Conns -> 0 .. MaxRequests]
           /\ sent \in [Conns -> 0 .. MaxBlocks]
           /\ replies \in [Conns -> Seq(Replies)]
           /\ nreq[c] \in 0 .. MaxRequests
           /\ wire[c] # <<>> => RequestComp(c) \in BOOLEAN
           /\ ClientPlace(c)
           /\ {"idle", "gone", "pinging", "awaiting", "header", "ending"}
                 \subseteq Clients
<1>1. wire[c] # <<>> => Len(wire[c]) \in DOMAIN wire[c]
  BY LogTypes
<1>2. \A p \in Packets : p.comp \in BOOLEAN
  BY DEF Packets
<1>3. wire[c] # <<>> => RequestComp(c) \in BOOLEAN
  BY <1>1, <1>2, LogTypes DEF RequestComp
<1> QED
  BY <1>3 DEF IInv, TypeOK, ClientTypeOK, LogInv, Clients

LEMMA SendPingStep ==
    ASSUME IInv, NEW c \in Conns, SendPing(c)
    PROVE  IInv'
<1> DEFINE p == Packet("Ping", "-", nreq[c] + 1, 0, FALSE)
<1>1. /\ cl[c] = "idle" /\ nreq[c] < MaxRequests
      /\ Send(c, <<p>>) /\ Become(c, "pinging")
      /\ nreq' = [nreq EXCEPT ![c] = @ + 1]
      /\ UNCHANGED <<server, confirmed, replies, sent>>
  BY DEF SendPing
<1>2. /\ cl' \in [Conns -> Clients] /\ cl'[c] = "pinging"
      /\ \A d \in Conns \ {c} : cl'[d] = cl[d]
  BY <1>1, ClientFacts DEF Become
<1>3. /\ nreq' \in [Conns -> 0 .. MaxRequests] /\ nreq'[c] = nreq[c] + 1
      /\ \A d \in Conns \ {c} : nreq'[d] = nreq[d]
      /\ nreq'[c] \in 0 .. MaxRequests
  BY <1>1, ClientFacts, BoundsAssumption
<1>4. p \in Packets /\ p.code = "Ping" /\ p.q = nreq'[c]
  BY <1>3, BoundsAssumption DEF Packets, PacketKinds, Packet
<1> HIDE DEF p
<1>5. LogInv(c)'
  BY <1>1, <1>2, <1>3, <1>4, ClientFacts, LogAppend DEF ClientPlace
<1>6. <<p>> \in Seq(Packets) /\ \A k \in 1 .. Len(<<p>>) : <<p>>[k] = p
  BY <1>4
<1> QED
  BY <1>1, <1>2, <1>3, <1>4, <1>5, <1>6, ClientFacts, ClientSends

LEMMA SendQueryStep ==
    ASSUME IInv, NEW c \in Conns, NEW k \in Kinds, NEW z \in Compressions,
           SendQuery(c, k, z)
    PROVE  IInv'
<1> DEFINE p == Packet("Query", k, nreq[c] + 1, 0, z)
           b == Packet("Data", "-", nreq[c] + 1, 0, z)
<1>1. /\ cl[c] = "idle" /\ nreq[c] < MaxRequests
      /\ Send(c, <<p, b>>)
      /\ Become(c, IF k \in InsertKinds THEN "header" ELSE "awaiting")
      /\ nreq' = [nreq EXCEPT ![c] = @ + 1]
      /\ sent' = [sent EXCEPT ![c] = 0]
      /\ UNCHANGED <<server, confirmed, replies>>
  BY DEF SendQuery
<1>2. /\ cl' \in [Conns -> Clients] /\ cl'[c] \in {"header", "awaiting"}
      /\ \A d \in Conns \ {c} : cl'[d] = cl[d]
  BY <1>1, ClientFacts DEF Become
<1>3. /\ nreq' \in [Conns -> 0 .. MaxRequests] /\ nreq'[c] = nreq[c] + 1
      /\ \A d \in Conns \ {c} : nreq'[d] = nreq[d]
      /\ nreq'[c] \in 0 .. MaxRequests
      /\ sent' \in [Conns -> 0 .. MaxBlocks]
  BY <1>1, ClientFacts, BoundsAssumption
<1>4. /\ p \in Packets /\ p.code = "Query" /\ p.q = nreq'[c]
      /\ b \in Packets /\ b.code = "Data" /\ b.q = nreq'[c] /\ b.n = 0
  BY <1>3, BoundsAssumption, InputsAssumption
     DEF Packets, PacketKinds, AllKinds, InsertKinds, Packet
<1> HIDE DEF p, b
<1>5. <<p, b>> \in Seq(Packets) /\ \A i \in 1 .. Len(<<p, b>>) : <<p, b>>[i] \in {p, b}
  BY <1>4
<1>6. LogInv(c)'
  BY <1>1, <1>2, <1>3, <1>4, ClientFacts, LogQuery DEF ClientPlace
<1>7. \A i \in 1 .. Len(<<p, b>>) : ~(<<p, b>>[i].code = "Data" /\ <<p, b>>[i].n > 0)
  BY <1>4, <1>5
<1> QED
  BY <1>1, <1>2, <1>3, <1>5, <1>6, <1>7, ClientFacts, ClientSends

LEMMA SendDataSteps ==
    ASSUME IInv, NEW c \in Conns, SendBlock(c) \/ SendEnd(c) \/ Cancel(c)
    PROVE  IInv'
<1>1. /\ cl[c] \in {"awaiting", "header", "sending", "ending"}
      /\ UNCHANGED <<server, confirmed, nreq>>
      /\ nreq'[c] = nreq[c]
      /\ wire[c] # <<>> /\ wire[c][Len(wire[c])].q = nreq[c] /\ nreq[c] > 0
  BY ClientFacts DEF SendBlock, SendEnd, Cancel, ClientPlace
<1>2. ASSUME NEW p \in Packets
      PROVE  <<p>> \in Seq(Packets) /\ \A k \in 1 .. Len(<<p>>) : <<p>>[k] = p
  OBVIOUS
<1>3. CASE SendBlock(c)
  <2> DEFINE p == Packet("Data", "-", nreq[c], sent[c] + 1, RequestComp(c))
  <2>1. /\ cl[c] = "sending" /\ Send(c, <<p>>)
        /\ sent[c] + 1 \in 1 .. MaxBlocks
        /\ sent' \in [Conns -> 0 .. MaxBlocks]
        /\ UNCHANGED <<cl, replies>>
    BY <1>3, ClientFacts, BoundsAssumption DEF SendBlock
  <2>2. p \in Packets /\ p.code = "Data" /\ p.q = nreq[c] /\ p.n > 0
    BY <1>1, <2>1, ClientFacts, BoundsAssumption DEF Packets, PacketKinds, Packet
  <2> HIDE DEF p
  <2>3. LogInv(c)'
    BY <1>1, <2>1, <2>2, ClientFacts, LogAppend
  <2>4. /\ nreq' \in [Conns -> 0 .. MaxRequests] /\ cl' \in [Conns -> Clients]
        /\ replies' \in [Conns -> Seq(Replies)]
        /\ \A d \in Conns \ {c} : cl'[d] = cl[d] /\ nreq'[d] = nreq[d]
    BY <1>1, <2>1, ClientFacts
  <2>5. /\ <<p>> \in Seq(Packets)
        /\ \A k \in 1 .. Len(<<p>>) :
              <<p>>[k].code = "Data" /\ <<p>>[k].n > 0 =>
                 <<p>>[k].q = nreq[c] /\ cl[c] = "sending"
    BY <1>2, <2>1, <2>2
  <2>6. /\ nreq'[c] = nreq[c] /\ (cl'[c] \in {"header", "sending"} => cl'[c] = cl[c])
        /\ Send(c, <<p>>) /\ sent' \in [Conns -> 0 .. MaxBlocks]
        /\ UNCHANGED <<server, confirmed>>
    BY <1>1, <2>1
  <2> QED
    BY <2>3, <2>4, <2>5, <2>6, ClientSends
<1>4. CASE SendEnd(c)
  <2> DEFINE p == Packet("Data", "-", nreq[c], 0, RequestComp(c))
  <2>1. /\ cl[c] = "sending" /\ Send(c, <<p>>)
        /\ cl' \in [Conns -> Clients] /\ cl'[c] = "ending"
        /\ \A d \in Conns \ {c} : cl'[d] = cl[d]
        /\ UNCHANGED <<sent, replies>>
    BY <1>4, ClientFacts DEF SendEnd, Become
  <2>2. p \in Packets /\ p.code = "Data" /\ p.q = nreq[c] /\ p.n = 0
    BY <1>1, ClientFacts, BoundsAssumption DEF Packets, PacketKinds, Packet
  <2> HIDE DEF p
  <2>3. LogInv(c)'
    BY <1>1, <2>1, <2>2, ClientFacts, LogAppend
  <2>4. /\ nreq' \in [Conns -> 0 .. MaxRequests] /\ replies' \in [Conns -> Seq(Replies)]
        /\ sent' \in [Conns -> 0 .. MaxBlocks]
        /\ \A d \in Conns \ {c} : cl'[d] = cl[d] /\ nreq'[d] = nreq[d]
    BY <1>1, <2>1, ClientFacts
  <2>5. /\ <<p>> \in Seq(Packets)
        /\ \A k \in 1 .. Len(<<p>>) : ~(<<p>>[k].code = "Data" /\ <<p>>[k].n > 0)
    BY <1>2, <2>1, <2>2
  <2>6. nreq'[c] = nreq[c] /\ cl'[c] \notin {"header", "sending"}
    BY <1>1, <2>1
  <2> QED
    BY <1>1, <2>1, <2>3, <2>4, <2>5, <2>6, ClientSends
<1>5. CASE Cancel(c)
  <2> DEFINE p == Packet("Cancel", "-", nreq[c], 0, FALSE)
  <2>1. /\ Send(c, <<p>>)
        /\ cl' \in [Conns -> Clients] /\ cl'[c] = "gone"
        /\ \A d \in Conns \ {c} : cl'[d] = cl[d]
        /\ replies' \in [Conns -> Seq(Replies)]
        /\ sent' = sent
    <3>1. <<>> \in Seq(Replies)
      OBVIOUS
    <3> QED
      BY <1>5, <3>1, ClientFacts DEF Cancel, HangUp, Become
  <2>2. p \in Packets /\ p.code = "Cancel" /\ p.q = nreq[c]
    BY ClientFacts, BoundsAssumption DEF Packets, PacketKinds, Packet
  <2> HIDE DEF p
  <2>3. LogInv(c)'
    BY <1>1, <2>1, <2>2, ClientFacts, LogAppend
  <2> QED
    BY <1>1, <1>2, <2>1, <2>2, <2>3, ClientFacts, ClientSends
<1> QED
  BY <1>3, <1>4, <1>5

\* The client reads ServerHello and may send the addendum.
LEMMA GetHelloStep ==
    ASSUME IInv, NEW c \in Conns, GetHello(c)
    PROVE  IInv'
<1> DEFINE p == Packet("Addendum", "-", 0, 0, FALSE)
<1>1. /\ cl[c] = "greet" /\ Become(c, "idle")
      /\ Send(c, <<p>>) \/ Send(c, <<>>)
      /\ UNCHANGED <<server, confirmed, nreq, sent>>
      /\ replies' \in [Conns -> Seq(Replies)]
  BY ClientFacts DEF GetHello, Receives
<1>2. /\ cl' \in [Conns -> Clients] /\ cl'[c] = "idle"
      /\ \A d \in Conns \ {c} : cl'[d] = cl[d]
  BY <1>1, ClientFacts DEF Become
<1>3. nreq[c] = 0 /\ wire[c] # <<>>
  BY <1>1, ClientFacts DEF ClientPlace
<1>4. p \in Packets /\ p.code = "Addendum" /\ p.q = 0
  BY BoundsAssumption DEF Packets, PacketKinds, Packet
<1> HIDE DEF p
<1>5. CASE Send(c, <<p>>)
  <2>1. <<p>> \in Seq(Packets) /\ \A k \in 1 .. Len(<<p>>) : <<p>>[k] = p
    BY <1>4
  <2>2. wire[c][Len(wire[c])].q = nreq[c]
    <3>1. Len(wire[c]) \in DOMAIN wire[c]
      BY <1>3, LogTypes
    <3>2. wire[c][Len(wire[c])].q <= 0 /\ wire[c][Len(wire[c])].q \in 0 .. MaxRequests
      BY <1>3, <3>1, LogTypes DEF IInv, LogInv, RequestsInOrder
    <3> QED
      BY <1>3, <3>2, BoundsAssumption
  <2>3. LogInv(c)'
    BY <1>1, <1>2, <1>3, <1>4, <1>5, <2>2, ClientFacts, LogAppend
  <2> QED
    BY <1>1, <1>2, <1>4, <1>5, <2>1, <2>3, ClientFacts, ClientSends
<1>6. CASE Send(c, <<>>)
  <2>1. <<>> \in Seq(Packets) /\ \A k \in 1 .. Len(<<>>) : FALSE
    OBVIOUS
  <2>2. wire'[c] = wire[c]
    BY <1>6, ConcatEmptySeq, LogTypes DEF Send, IInv, TypeOK, ClientTypeOK
  <2>3. LogInv(c)'
    BY <1>1, <1>2, <2>2, LogFrame DEF IInv
  <2>4. /\ nreq' \in [Conns -> 0 .. MaxRequests] /\ sent' \in [Conns -> 0 .. MaxBlocks]
        /\ nreq'[c] = nreq[c] /\ cl'[c] \notin {"header", "sending"}
        /\ \A d \in Conns \ {c} : cl'[d] = cl[d] /\ nreq'[d] = nreq[d]
    BY <1>1, <1>2, ClientFacts
  <2> QED
    BY <1>1, <1>2, <1>6, <2>1, <2>3, <2>4, ClientSends
<1> QED
  BY <1>1, <1>5, <1>6

LEMMA ConnectStep ==
    ASSUME IInv, NEW c \in Conns, Connect(c)
    PROVE  IInv'
<1>1. PICK v \in Versions : Send(c, <<Packet("Hello", v, 0, 0, FALSE)>>)
  BY DEF Connect
<1> DEFINE p == Packet("Hello", v, 0, 0, FALSE)
<1>2. p \in Packets /\ p.code = "Hello" /\ p.q = 0
  BY BoundsAssumption, InputsAssumption DEF Packets, PacketKinds, Packet
<1> HIDE DEF p
<1>3. /\ cl[c] = "off" /\ Become(c, "greet") /\ Goto(c, "backlog")
      /\ UNCHANGED <<process, request, reader, replies, nreq, sent, sink, history>>
  BY DEF Connect
<1>4. /\ cl' \in [Conns -> Clients] /\ cl'[c] = "greet"
      /\ pc' \in [Conns -> PCs] /\ pc'[c] = "backlog"
      /\ \A d \in Conns \ {c} : cl'[d] = cl[d] /\ pc'[d] = pc[d]
  BY <1>3 DEF Become, Goto, IInv, TypeOK, ClientTypeOK, HandlerTypeOK, Clients, PCs
<1>5. wire[c] = <<>> /\ nreq[c] = 0 /\ nreq'[c] = 0
  BY <1>3, ClientFacts DEF ClientPlace
<1>6. <<p>> \in Seq(Packets) /\ Len(<<p>>) = 1 /\ <<p>>[1] = p
  BY <1>2
<1>7. /\ wire' \in [Conns -> Seq(Packets)]
      /\ DOMAIN wire'[c] = {1} /\ wire'[c][1] = p
      /\ \A d \in Conns \ {c} : wire'[d] = wire[d]
  <2>1. Send(c, <<p>>)
    BY <1>1 DEF p
  <2>2. Len(wire[c]) = 0
    BY <1>5
  <2>3. /\ wire' \in [Conns -> Seq(Packets)]
        /\ DOMAIN wire'[c] = 1 .. 0 + 1
        /\ \A k \in 1 .. 1 : wire'[c][0 + k] = <<p>>[k]
        /\ \A d \in Conns \ {c} : wire'[d] = wire[d]
    BY <1>6, <2>1, <2>2, Longer
  <2>4. wire'[c][0 + 1] = <<p>>[1]
    BY <2>3
  <2> QED
    BY <1>6, <2>3, <2>4
<1>8. TypeOK'
  <2>1. UNCHANGED <<ctxDone, listening, srv, cur, kind, comp, blk, rd, left, replies,
                    nreq, sent, inflight, stored, acked, confirmed, failed, desync>>
    BY <1>3 DEF process, request, reader, sink, history
  <2> QED
    BY <1>4, <1>7, <2>1 DEF IInv, TypeOK, ProcessTypeOK, HandlerTypeOK, ClientTypeOK,
       SinkTypeOK
<1>9. LogInv(c)'
  <2>1. wire'[c] # <<>>
    BY <1>7
  <2>2. ~Ends(c, 1)'
    BY <1>2, <1>7 DEF Ends
  <2> QED
    BY <1>2, <1>4, <1>5, <1>7, <2>1, <2>2 DEF LogInv, ClientPlace, RequestsInOrder,
       BlankBehindQuery, OpenInsert, NothingBehindEnd
<1>10. HandlerInv(c)'
  <2>1. UNCHANGED <<rd, acked, stored, nreq>> /\ rd[c] > 0
    BY <1>3 DEF IInv, HandlerInv, HandlerPlace, reader, sink, history
  <2>2. \A q \in 1 .. MaxRequests : <<c, q>> \notin acked
    BY <1>5 DEF IInv, HandlerInv, AckedIsFinal
  <2> QED
    BY <1>4, <2>1, <2>2 DEF HandlerInv, HandlerPlace, ReadBlocksStored, AckedIsFinal,
       InRequest
<1>11. UNCHANGED <<request, reader, stored, acked>>
       /\ \A d \in Conns \ {c} : nreq'[d] = nreq[d]
  BY <1>3 DEF sink, history
<1> QED
  BY <1>4, <1>7, <1>8, <1>9, <1>10, <1>11, ClientLocal

LEMMA ClientSteps ==
    ASSUME IInv, NEW c \in Conns, ClientNext(c)
    PROVE  IInv'
BY ConnectStep, GetHelloStep, SendPingStep, SendQueryStep, SendDataSteps,
   ClientReadSteps DEF ClientNext, ClientReads

-----------------------------------------------------------------------------
\* The results.

\* IInv is inductive.
LEMMA Inductive ==
    ASSUME IInv, [Next]_vars
    PROVE  IInv'
<1>1. CASE UNCHANGED vars
  <2>1. UNCHANGED <<ctxDone, listening, srv, pc, cur, kind, comp, blk, rd, left, wire,
                    replies, cl, nreq, sent, inflight, stored, acked, confirmed,
                    failed, desync>>
    BY <1>1 DEF vars, process, request, reader, client, sink, history
  <2>2. TypeOK'
    BY <2>1 DEF IInv, TypeOK, ProcessTypeOK, HandlerTypeOK, ClientTypeOK, SinkTypeOK
  <2>3. ASSUME NEW c \in Conns
        PROVE  LogInv(c)' /\ HandlerInv(c)'
    BY <2>1, LogFrame, HandlerFrame DEF IInv
  <2> QED
    BY <2>2, <2>3 DEF IInv
<1>2. CASE ProcessNext \/ SinkNext
  BY <1>2, ProcessSteps, SinkSteps
<1>3. ASSUME NEW c \in Conns, HandlerNext(c)
      PROVE  IInv'
  BY <1>3, LoopSteps, AnswerSteps, QuerySteps, InsertSteps, ProcessSteps
     DEF HandlerNext, HandlerReads, HandlerRuns, WriteReturns
<1>4. ASSUME NEW c \in Conns, ClientNext(c)
      PROVE  IInv'
  BY <1>4, ClientSteps
<1> QED
  BY <1>1, <1>2, <1>3, <1>4 DEF Next

\* The invariant implies the property: an acknowledged INSERT has a number that
\* AckedIsFinal speaks of.
LEMMA InvariantSuffices == IInv => AckedInsertIsStored
<1> SUFFICES ASSUME IInv, NEW b \in Offered, b[1] \in acked
             PROVE  b \in stored
  BY DEF AckedInsertIsStored
<1>0. PICK c \in Conns : \E i \in DOMAIN wire[c] : IsBlock(c, i) /\ b = BlockOf(c, i)
  BY DEF Offered
<1>1. PICK i \in DOMAIN wire[c] : IsBlock(c, i) /\ b = BlockOf(c, i)
  BY <1>0
<1>2. b[1] = <<c, wire[c][i].q>>
  BY <1>1 DEF BlockOf
<1>3. wire[c][i].q \in 1 .. MaxRequests
  BY <1>2 DEF IInv, TypeOK, SinkTypeOK, Inserts
<1> QED
  BY <1>1, <1>2, <1>3 DEF IInv, HandlerInv, AckedIsFinal

\* The invariant of ChServerInvariant holds in every state: it relates the log
\* of a client, the place of its handler in it, and what is stored.
THEOREM Invariance == Spec => []IInv
<1>1. Init => IInv
  BY InitIInv
<1>2. IInv /\ [Next]_vars => IInv'
  BY Inductive
<1> QED
  BY <1>1, <1>2, PTL DEF Spec

\* Every variable keeps its type.
THEOREM TypeCorrect == Spec => []TypeOK
<1>1. IInv => TypeOK
  BY DEF IInv
<1> QED
  BY <1>1, Invariance, PTL

\* For any number of connections, requests and blocks: an INSERT answered with
\* EndOfStream (insert.go:76) is stored to the last block its client sent,
\* whatever fails, is cancelled or ends in between.
THEOREM AckedIsStored == Spec => []AckedInsertIsStored
BY Invariance, InvariantSuffices, PTL
=============================================================================
