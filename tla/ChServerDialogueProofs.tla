----------------------- MODULE ChServerDialogueProofs -----------------------
(***************************************************************************)
(* Proofs of the properties of the dialogue, for every number of           *)
(* connections, requests and blocks: replies match the requests they are   *)
(* read for, client and handler never wait for each other, only a failed   *)
(* INSERT loses the packet boundaries, and what a client takes for the     *)
(* confirmation of its INSERT is one.  SyncInv is inductive relative to    *)
(* IInv; the proof goes connection by connection, as a step of one         *)
(* connection leaves Sync of the others alone.                             *)
(***************************************************************************)
EXTENDS ChServerServiceProofs

-----------------------------------------------------------------------------
\* Frames.

\* What Sync depends on, besides the history.
Same(c) ==
    /\ wire'[c] = wire[c] /\ cl'[c] = cl[c] /\ nreq'[c] = nreq[c]
    /\ rd'[c] = rd[c] /\ left'[c] = left[c]
    /\ cur'[c] = cur[c] /\ kind'[c] = kind[c] /\ comp'[c] = comp[c]
    /\ replies'[c] = replies[c]
    /\ desync'[c] = desync[c] /\ failed'[c] = failed[c]

\* What a step of another connection leaves alone.
SameHistory(c) ==
    \A q :
        /\ <<c, q>> \in acked => <<c, q>> \in acked'
        /\ <<c, q>> \in confirmed' => <<c, q>> \in confirmed

LEMMA LogFixed ==
    ASSUME NEW c \in Conns, LogSync(c),
           wire'[c] = wire[c], cl'[c] = cl[c], nreq'[c] = nreq[c]
    PROVE  LogSync(c)'
BY DEF LogSync, HandshakeFirst, RequestsBegin, LastSent, Begins, Ends

\* A connection whose handler stays, or is closed, keeps Sync.
LEMMA SyncFixed ==
    ASSUME NEW c \in Conns, Sync(c), Same(c), SameHistory(c),
           \/ pc'[c] = pc[c]
           \/ pc[c] # "off" /\ pc'[c] = "closed"
    PROVE  Sync(c)'
<1>1. LogSync(c)'
  BY LogFixed DEF Sync, Same
<1>2. ReaderPlace(c)'
  BY DEF Sync, Same, ReaderPlace, Ends, InRequest
<1>3. UnreadInsert(c)'
  BY DEF Sync, Same, UnreadInsert, OfInsert
<1>4. /\ Unserved(c)' = Unserved(c) /\ RequestComp(c)' = RequestComp(c)
      /\ \A code : Owed(c, code)' = Owed(c, code)
  BY DEF Same, Unserved, Begins, RequestComp, Owed
<1>5. ASSUME InPhase(c)
      PROVE  InPhase(c)'
  <2>1. CASE Greeting(c)
    BY <2>1 DEF Greeting, Same, InPhase
  <2>2. CASE Resting(c)
    BY <1>4, <2>2 DEF Resting, Same, InPhase
  <2>3. CASE Ahead(c)
    BY <1>4, <2>3 DEF Ahead, Same, InPhase
  <2>4. CASE InHand(c)
    BY <1>4, <2>4 DEF InHand, CutOff, Same, InPhase
  <2>5. CASE Answered(c)
    <3>1. <<c, nreq[c]>> \in acked => <<c, nreq[c]>> \in acked'
      BY DEF SameHistory
    <3> QED
      BY <1>4, <2>5, <3>1 DEF Answered, Same, InPhase
  <2>6. CASE CutOff(c)
    BY <1>4, <2>6 DEF CutOff, Same, InPhase
  <2> QED
    BY <1>5, <2>1, <2>2, <2>3, <2>4, <2>5, <2>6 DEF InPhase
<1>6. ConfirmedAcked(c)'
  BY DEF Sync, Same, SameHistory, ConfirmedAcked
<1> QED
  BY <1>1, <1>2, <1>3, <1>5, <1>6 DEF Sync, Dialogue, Same

-----------------------------------------------------------------------------
\* What every step of a handler does.

\* A handler leaves the other connections alone.
LEMMA HandlerStays ==
    ASSUME IInv, NEW c \in Conns, HandlerNext(c), ~PanicOnQuery(c)
    PROVE  \A d \in Conns \ {c} : Same(d) /\ SameHistory(d) /\ pc'[d] = pc[d]
<1> SUFFICES ASSUME NEW d \in Conns \ {c}
             PROVE  Same(d) /\ SameHistory(d) /\ pc'[d] = pc[d]
  OBVIOUS
<1>1. /\ UNCHANGED <<wire, cl, nreq>> /\ UNCHANGED confirmed
      /\ UNCHANGED acked \/ EndInsert(c)
  BY HandlerFootprint
<1>2. SameHistory(d)
  <2>1. acked' \subseteq acked \cup {<<c, cur[c]>>} /\ acked \subseteq acked'
    BY <1>1 DEF EndInsert
  <2> QED
    BY <1>1, <2>1 DEF SameHistory
<1>3. /\ rd \in [Conns -> Nat] /\ left \in [Conns -> 0 .. MaxResidue]
      /\ cur \in [Conns -> 0 .. MaxRequests] /\ kind \in [Conns -> PacketKinds]
      /\ comp \in [Conns -> BOOLEAN] /\ replies \in [Conns -> Seq(Replies)]
      /\ pc \in [Conns -> PCs] /\ failed \in [Conns -> BOOLEAN]
      /\ desync \in [Conns -> BOOLEAN]
  BY DEF IInv, TypeOK, HandlerTypeOK, ClientTypeOK, SinkTypeOK
<1>4. CASE \/ Accept(c) \/ ReadHello(c) \/ ReadAddendum(c) \/ LoopCheck(c)
           \/ ReadPing(c) \/ ReadOther(c)
  BY <1>1, <1>2, <1>3, <1>4 DEF Accept, ReadHello, ReadAddendum, LoopCheck, ReadPing,
     ReadOther, request, reader, Take, Goto, Flush, SendStray, Same
<1>5. CASE \/ Misread(c) \/ LeaveLost(c) \/ ProtocolError(c) \/ ReadEOF(c)
           \/ SwallowPacket(c)
  BY <1>1, <1>2, <1>3, <1>5 DEF Misread, LeaveLost, ProtocolError, ReadEOF, SwallowPacket,
     request, reader, Take, Goto, Flush, SendStray, Same
<1>6. CASE \/ ReadQuery(c) \/ Drain(c) \/ AnswerProbe(c) \/ RejectQuery(c)
           \/ RejectInsert(c) \/ AskStarRocks(c) \/ StarRocksAnswers(c)
           \/ StarRocksFails(c)
  BY <1>1, <1>2, <1>3, <1>6 DEF ReadQuery, Drain, AnswerProbe, RejectQuery, RejectInsert,
     AskStarRocks, StarRocksAnswers, StarRocksFails, SendResult, SendException,
     request, reader, Take, Goto, Flush, Same
<1>7. CASE \/ BeginInsert(c) \/ ReadBlock(c) \/ BadBlock(c) \/ WriteOk(c)
           \/ WriteFails(c) \/ EndInsert(c)
  BY <1>1, <1>2, <1>3, <1>7 DEF BeginInsert, ReadBlock, BadBlock, WriteOk, WriteFails,
     EndInsert, FailInsert, SendHeader, SendException, SendEndOfStream, request, reader,
     Take, Goto, Flush, Same
<1> QED
  BY <1>4, <1>5, <1>6, <1>7 DEF HandlerNext, HandlerReads, HandlerRuns, WriteReturns

\* What flush does, for a client that is there and for one that is gone.
LEMMA Sends ==
    ASSUME IInv, NEW c \in Conns, NEW rs \in Seq(Replies), NEW p, Flush(c, rs, p)
    PROVE  /\ pc'[c] \in {p, "closed"}
           /\ cl[c] = "gone" => replies'[c] = replies[c]
           /\ cl[c] # "gone" => pc'[c] = p /\ replies'[c] = replies[c] \o rs
           /\ cl[c] # "gone" /\ replies[c] = <<>> => replies'[c] = rs
<1>1. replies \in [Conns -> Seq(Replies)] /\ pc \in [Conns -> PCs]
  BY DEF IInv, TypeOK, ClientTypeOK, HandlerTypeOK
<1>2. <<>> \o rs = rs
  OBVIOUS
<1> QED
  BY <1>1, <1>2 DEF Flush, Goto

LEMMA Goes ==
    ASSUME IInv, NEW c \in Conns, NEW p, Goto(c, p)
    PROVE  pc'[c] = p
BY DEF IInv, TypeOK, HandlerTypeOK, Goto

LEMMA Takes ==
    ASSUME IInv, NEW c \in Conns, Take(c)
    PROVE  rd'[c] = rd[c] + 1 /\ rd[c] \in Nat
BY DEF IInv, TypeOK, HandlerTypeOK, Take

\* A handler's step keeps Sync of its connection if it keeps the three parts
\* that speak of the handler.
LEMMA HandlerSync ==
    ASSUME IInv, NEW c \in Conns, Sync(c), HandlerNext(c), pc[c] # "off",
           cl[c] = "gone" => replies'[c] = replies[c],
           desync[c] => desync'[c],
           ReaderPlace(c)', UnreadInsert(c)',
           cl[c] \notin {"off", "gone"} /\ ~desync'[c] => InPhase(c)'
    PROVE  Sync(c)'
<1>1. UNCHANGED <<wire, cl, nreq, confirmed>> /\ acked \subseteq acked'
  <2>1. UNCHANGED acked \/ acked' = acked \cup {<<c, cur[c]>>}
    BY HandlerFootprint DEF EndInsert
  <2> QED
    BY <2>1, HandlerFootprint
<1>2. LogSync(c)'
  BY <1>1, LogFixed DEF Sync
<1>3. ConfirmedAcked(c)'
  BY <1>1 DEF Sync, ConfirmedAcked
<1>4. Dialogue(c)'
  BY <1>1 DEF Sync, Dialogue
<1> QED
  BY <1>2, <1>3, <1>4 DEF Sync

\* What is asked for and not read, as the handler goes on.
LEMMA UnservedShrinks ==
    ASSUME IInv, NEW c \in Conns, wire'[c] = wire[c], nreq'[c] = nreq[c],
           rd'[c] \in {rd[c], rd[c] + 1}
    PROVE  /\ Unserved(c)' \subseteq Unserved(c)
           /\ rd'[c] = rd[c] \/ ~Begins(c, rd[c]) => Unserved(c)' = Unserved(c)
           /\ RequestComp(c)' = RequestComp(c)
           /\ \A code : Owed(c, code)' = Owed(c, code)
<1>1. rd[c] \in Nat /\ Len(wire[c]) \in Nat
  BY LogTypes
<1> QED
  BY <1>1 DEF Unserved, Begins, RequestComp, Owed

\* A handler with no INSERT in hand leaves no packet of one unread.
LEMMA UnreadStays ==
    ASSUME IInv, NEW c \in Conns, UnreadInsert(c),
           pc[c] \notin {"insread", "inswrite", "closed"},
           wire'[c] = wire[c], rd'[c] \in {rd[c], rd[c] + 1},
           desync[c] => desync'[c], failed[c] => failed'[c]
    PROVE  UnreadInsert(c)'
<1>1. rd[c] \in Nat /\ Len(wire[c]) \in Nat
  BY LogTypes
<1>2. \A i \in Int : OfInsert(c, i)' <=> OfInsert(c, i)
  BY DEF OfInsert
<1>3. rd'[c] .. Len(wire[c]) \subseteq rd[c] .. Len(wire[c])
  BY <1>1
<1>4. ASSUME ~desync'[c], ~failed'[c], NEW i \in rd'[c] .. Len(wire[c]), OfInsert(c, i)
      PROVE  FALSE
  BY <1>1, <1>3, <1>4 DEF UnreadInsert
<1> QED
  BY <1>1, <1>2, <1>3, <1>4 DEF UnreadInsert

\* The reader of a handler that has taken one more packet.
LEMMA ReaderMoves ==
    ASSUME IInv, NEW c \in Conns, Sync(c),
           pc[c] \notin {"off", "backlog", "hello", "addendum", "closed"},
           pc'[c] \notin {"off", "backlog", "hello", "addendum"},
           wire'[c] = wire[c], rd'[c] = rd[c] + 1, rd[c] \in 1 .. Len(wire[c]),
           pc'[c] \in InRequest \ {"drain"} => ~Ends(c, rd[c]),
           left'[c] > 0 \/ pc'[c] = "lost" => desync'[c],
           ~desync'[c] /\ pc'[c] \in {"loop", "read"} => wire[c][rd[c]].code # "Query"
    PROVE  ReaderPlace(c)'
<1>1. /\ rd[c] \in Nat /\ Len(wire[c]) \in Nat
      /\ rd'[c] - 1 = rd[c] /\ rd'[c] <= Len(wire[c]) + 1
  BY LogTypes
<1>2. rd[c] > 1 /\ (wire[c][1].kind = "quota" => rd[c] > 2)
  BY DEF Sync, ReaderPlace
<1>3. rd'[c] > 1 /\ (wire[c][1].kind = "quota" => rd'[c] > 2)
  BY <1>1, <1>2
<1>4. Ends(c, rd[c] - 1)' <=> Ends(c, rd[c])
  BY <1>1 DEF Ends
<1> QED
  BY <1>1, <1>3, <1>4 DEF ReaderPlace

-----------------------------------------------------------------------------
\* The handshake and the loop of handle.

LEMMA AcceptSync ==
    ASSUME IInv, NEW c \in Conns, Sync(c), Accept(c)
    PROVE  Sync(c)'
<1>1. /\ pc[c] = "backlog" /\ pc'[c] = "hello"
      /\ UNCHANGED <<wire, cl, nreq, rd, left, replies, failed, desync>>
  BY Goes DEF Accept, At, others, client, reader
<1>2. ReaderPlace(c)'
  BY <1>1 DEF Sync, ReaderPlace, Ends, InRequest
<1>3. UnreadInsert(c)'
  BY <1>1, UnreadStays DEF Sync
<1>4. ASSUME cl[c] \notin {"off", "gone"}, ~desync'[c]
      PROVE  InPhase(c)'
  <2>1. Greeting(c)
    BY <1>1, <1>4 DEF Sync, Dialogue, InPhase, Greeting, Resting, Ahead, InHand, Answered,
       CutOff
  <2> QED
    BY <1>1, <2>1 DEF Greeting, InPhase
<1> QED
  BY <1>1, <1>2, <1>3, <1>4, HandlerSync DEF HandlerNext

LEMMA ReadHelloSync ==
    ASSUME IInv, NEW c \in Conns, Sync(c), ReadHello(c)
    PROVE  Sync(c)'
<1> DEFINE p == AfterHello(NextPacket(c).kind)
<1>1. /\ pc[c] = "hello" /\ Arrived(c) /\ wire[c][rd[c]].code = "Hello" /\ Take(c)
      /\ Flush(c, <<Hello>>, p)
      /\ UNCHANGED <<wire, cl, nreq, left, failed, desync>>
  BY DEF ReadHello, At, others, client, NextPacket, SendStray, Hello
<1>2. rd[c] = 1 /\ rd'[c] = 2 /\ 1 \in DOMAIN wire[c] /\ 2 <= Len(wire[c]) + 1
  <2>1. rd[c] = 1 /\ rd'[c] = rd[c] + 1
    BY <1>1, Takes DEF Sync, ReaderPlace
  <2>2. rd[c] \in 1 .. Len(wire[c]) /\ Len(wire[c]) \in Nat /\ rd[c] \in DOMAIN wire[c]
    BY <1>1, LogTypes, PacketType
  <2> QED
    BY <2>1, <2>2
<1>3. <<Hello>> \in Seq(Replies)
  <2>1. 0 \in 0 .. MaxRequests
    BY BoundsAssumption
  <2> QED
    BY <2>1, AnswerType DEF Hello, IInv
<1>4. \/ p = "addendum" /\ wire[c][1].kind = "quota"
      \/ p = "loop" /\ wire[c][1].kind # "quota"
  BY <1>2 DEF AfterHello, NextPacket
<1> HIDE DEF p
<1>5. /\ pc'[c] \in {p, "closed"}
      /\ cl[c] = "gone" => replies'[c] = replies[c]
      /\ cl[c] # "gone" => pc'[c] = p
      /\ cl[c] # "gone" /\ replies[c] = <<>> => replies'[c] = <<Hello>>
  BY <1>1, <1>3, Sends
<1>6. ReaderPlace(c)'
  BY <1>1, <1>2, <1>4, <1>5 DEF Sync, ReaderPlace, Ends, InRequest
<1>7. UnreadInsert(c)'
  BY <1>1, <1>2, UnreadStays DEF Sync
<1>8. ASSUME cl[c] \notin {"off", "gone"}, ~desync'[c]
      PROVE  InPhase(c)'
  <2>1. Greeting(c)
    BY <1>1, <1>8 DEF Sync, Dialogue, InPhase, Greeting, Resting, Ahead, InHand, Answered,
       CutOff
  <2>2. replies[c] = <<>>
    BY <1>1, <2>1 DEF Greeting
  <2> QED
    BY <1>1, <1>4, <1>5, <1>8, <2>1, <2>2 DEF Greeting, InPhase
<1> QED
  BY <1>1, <1>5, <1>6, <1>7, <1>8, HandlerSync DEF HandlerNext, HandlerReads

LEMMA ReadAddendumSync ==
    ASSUME IInv, NEW c \in Conns, Sync(c), ReadAddendum(c)
    PROVE  Sync(c)'
<1>1. /\ pc[c] = "addendum" /\ Arrived(c) /\ Take(c) /\ pc'[c] = "loop"
      /\ UNCHANGED <<wire, cl, nreq, left, replies, failed, desync>>
  BY Goes DEF ReadAddendum, At, others, client
<1>2. rd[c] = 2 /\ rd'[c] = 3 /\ 2 \in DOMAIN wire[c] /\ 3 <= Len(wire[c]) + 1
  BY <1>1, Takes, LogTypes, PacketType DEF Sync, ReaderPlace
<1>3. wire[c][2].code = "Addendum"
  BY <1>1, <1>2 DEF Sync, ReaderPlace, LogSync, HandshakeFirst
<1>4. ReaderPlace(c)'
  BY <1>1, <1>2, <1>3 DEF Sync, ReaderPlace, Ends, InRequest
<1>5. UnreadInsert(c)'
  BY <1>1, <1>2, UnreadStays DEF Sync
<1>6. ASSUME cl[c] \notin {"off", "gone"}, ~desync'[c]
      PROVE  InPhase(c)'
  <2>1. Greeting(c) \/ Resting(c) \/ Ahead(c)
    BY <1>1, <1>6 DEF Sync, Dialogue, InPhase, Greeting, Resting, Ahead, InHand, Answered,
       CutOff
  <2>2. Unserved(c)' = Unserved(c)
    BY <1>1, <1>2, <1>3, UnservedShrinks DEF Begins
  <2> QED
    BY <1>1, <2>1, <2>2 DEF Greeting, Resting, Ahead, InPhase
<1> QED
  BY <1>1, <1>4, <1>5, <1>6, HandlerSync DEF HandlerNext, HandlerReads

LEMMA LoopCheckSync ==
    ASSUME IInv, NEW c \in Conns, Sync(c), LoopCheck(c)
    PROVE  Sync(c)'
<1>1. /\ pc[c] = "loop" /\ pc'[c] \in {"closed", "read"}
      /\ UNCHANGED <<wire, cl, nreq, rd, left, replies, acked, failed, desync>>
  BY Goes DEF LoopCheck, At, others, client, reader
<1>2. ReaderPlace(c)'
  BY <1>1 DEF Sync, ReaderPlace, Ends, InRequest
<1>3. UnreadInsert(c)'
  BY <1>1, UnreadStays DEF Sync
<1>4. ASSUME cl[c] \notin {"off", "gone"}, ~desync'[c]
      PROVE  InPhase(c)'
  <2>1. Greeting(c) \/ Resting(c) \/ Ahead(c) \/ Answered(c)
    BY <1>1, <1>4 DEF Sync, Dialogue, InPhase, Greeting, Resting, Ahead, InHand, Answered,
       CutOff
  <2>2. Unserved(c)' = Unserved(c) /\ \A code : Owed(c, code)' = Owed(c, code)
    BY <1>1, UnservedShrinks
  <2> QED
    BY <1>1, <2>1, <2>2 DEF Greeting, Resting, Ahead, Answered, InPhase
<1> QED
  BY <1>1, <1>2, <1>3, <1>4, HandlerSync DEF HandlerNext, HandlerRuns

\* A handler that comes to a request the client waits for finds what the client
\* has sent last.
LEMMA AheadPlace ==
    ASSUME IInv, NEW c \in Conns, LogSync(c), Ahead(c), NEW i \in Unserved(c)
    PROVE  /\ wire[c][i].q = nreq[c]
           /\ \/ cl[c] = "pinging" /\ i = Len(wire[c]) /\ wire[c][i].code = "Ping"
              \/ /\ cl[c] \in {"awaiting", "header"} /\ i = Len(wire[c]) - 1
                 /\ wire[c][i].code = "Query"
<1> DEFINE last == Len(wire[c])
<1>1. /\ last \in Nat /\ DOMAIN wire[c] = 1 .. last /\ rd[c] \in Nat \ {0}
      /\ \A j \in DOMAIN wire[c] : wire[c][j].q \in Int
  BY LogTypes
<1>2. i \in 1 .. last /\ Begins(c, i) /\ wire[c][i].q = nreq[c]
  BY <1>1 DEF Ahead, Unserved
<1>3. \A k, j \in 1 .. last :
         Begins(c, k) /\ wire[c][k].q = nreq[c] /\ wire[c][j].q = nreq[c] => j >= k
  BY <1>1 DEF LogSync, RequestsBegin
<1>4. CASE cl[c] = "pinging"
  <2>1. last > 0 /\ wire[c][last].code = "Ping" /\ wire[c][last].q = nreq[c]
    BY <1>4 DEF LogSync, LastSent
  <2>2. Begins(c, last)
    BY <2>1 DEF Begins
  <2>3. i >= last
    BY <1>1, <1>2, <1>3, <2>1, <2>2
  <2>4. i = last
    BY <1>1, <1>2, <2>3
  <2> QED
    BY <1>2, <1>4, <2>1, <2>4
<1>5. CASE cl[c] \in {"awaiting", "header"}
  <2>1. /\ last > 1 /\ wire[c][last - 1].code = "Query"
        /\ wire[c][last - 1].q = nreq[c] /\ wire[c][last].q = nreq[c]
    BY <1>5 DEF LogSync, LastSent
  <2>2. last - 1 \in 1 .. last /\ last \in 1 .. last
    BY <1>1, <2>1
  <2>3. Begins(c, last - 1)
    BY <2>1 DEF Begins
  <2>4. i >= last - 1
    BY <1>2, <1>3, <2>1, <2>2, <2>3
  <2>5. i # last
    BY <1>1, <1>2, <1>3, <2>1, <2>2
  <2>6. i = last - 1
    BY <1>1, <1>2, <2>4, <2>5
  <2> QED
    BY <1>2, <1>5, <2>1, <2>6
<1> QED
  BY <1>4, <1>5 DEF Ahead

\* The handler reads the request its client waits for, and no other follows.
LEMMA ComesToRequest ==
    ASSUME IInv, NEW c \in Conns, Sync(c), pc[c] = "read", Arrived(c),
           cl[c] \notin {"off", "gone"}, ~desync[c], Begins(c, rd[c]),
           wire'[c] = wire[c], rd'[c] = rd[c] + 1
    PROVE  /\ wire[c][rd[c]].q = nreq[c] /\ replies[c] = <<>>
           /\ \/ /\ cl[c] = "pinging" /\ rd[c] = Len(wire[c])
                 /\ wire[c][rd[c]].code = "Ping"
              \/ /\ cl[c] \in {"awaiting", "header"} /\ rd[c] = Len(wire[c]) - 1
                 /\ wire[c][rd[c]].code = "Query"
           /\ Unserved(c)' = {}
<1>1. rd[c] \in Nat /\ rd[c] \in 1 .. Len(wire[c]) /\ Len(wire[c]) \in Nat
  BY LogTypes, PacketType
<1>2. rd[c] \in Unserved(c)
  BY <1>1 DEF Unserved
<1>3. ~Greeting(c)
  <2>1. cl[c] = "greet" => Len(wire[c]) = 1
    BY DEF Sync, LogSync, HandshakeFirst
  <2>2. rd[c] > 1
    BY DEF Sync, ReaderPlace
  <2>3. ~(rd[c] <= 1)
    BY <1>1, <2>2
  <2>4. rd[c] <= Len(wire[c])
    BY <1>1
  <2>5. cl[c] # "greet"
    BY <2>1, <2>3, <2>4
  <2> QED
    BY <2>5 DEF Greeting
<1>4. Ahead(c)
  BY <1>2, <1>3 DEF Sync, Dialogue, InPhase, Resting, InHand, Answered, CutOff
<1>5. LogSync(c)
  BY DEF Sync
<1>6. \A i \in Unserved(c) :
         /\ wire[c][i].q = nreq[c]
         /\ \/ cl[c] = "pinging" /\ i = Len(wire[c]) /\ wire[c][i].code = "Ping"
            \/ /\ cl[c] \in {"awaiting", "header"} /\ i = Len(wire[c]) - 1
               /\ wire[c][i].code = "Query"
  BY <1>4, <1>5, AheadPlace
<1>7. ASSUME NEW i \in Unserved(c)'
      PROVE  FALSE
  <2>1. i \in Unserved(c) /\ i > rd[c]
    BY <1>1, <1>7 DEF Unserved, Begins
  <2> QED
    BY <1>1, <1>2, <1>6, <2>1
<1> QED
  BY <1>2, <1>4, <1>6, <1>7 DEF Ahead

LEMMA ReadPingSync ==
    ASSUME IInv, NEW c \in Conns, Sync(c), ReadPing(c)
    PROVE  Sync(c)'
<1> DEFINE pong == Reply("Pong", wire[c][rd[c]].q, FALSE)
<1>1. /\ pc[c] = "read" /\ Arrived(c) /\ wire[c][rd[c]].code = "Ping" /\ Take(c)
      /\ Flush(c, <<pong>>, "loop")
      /\ UNCHANGED <<wire, cl, nreq, left, failed, desync>>
  BY DEF ReadPing, ReadsCode, At, others, client, NextPacket
<1>2. rd'[c] = rd[c] + 1 /\ rd[c] \in 1 .. Len(wire[c]) /\ Len(wire[c]) \in Nat
  BY <1>1, Takes, LogTypes, PacketType
<1>3. <<pong>> \in Seq(Replies)
  <2>1. wire[c][rd[c]].q \in 0 .. MaxRequests
    BY <1>1, LogTypes, PacketType
  <2> QED
    BY <2>1, AnswerType DEF IInv
<1> HIDE DEF pong
<1>4. /\ pc'[c] \in {"loop", "closed"}
      /\ cl[c] = "gone" => replies'[c] = replies[c]
      /\ cl[c] # "gone" => pc'[c] = "loop"
      /\ cl[c] # "gone" /\ replies[c] = <<>> => replies'[c] = <<pong>>
  BY <1>1, <1>3, Sends
<1>5. ReaderPlace(c)'
  <2>1. left'[c] > 0 \/ pc'[c] = "lost" => desync'[c]
    BY <1>1, <1>4 DEF Sync, ReaderPlace
  <2> QED
    BY <1>1, <1>2, <1>4, <2>1, ReaderMoves DEF InRequest
<1>6. UnreadInsert(c)'
  BY <1>1, <1>2, UnreadStays DEF Sync
<1>7. ASSUME cl[c] \notin {"off", "gone"}, ~desync'[c]
      PROVE  InPhase(c)'
  <2>1. /\ wire[c][rd[c]].q = nreq[c] /\ replies[c] = <<>>
        /\ cl[c] = "pinging" /\ rd[c] = Len(wire[c])
        /\ Unserved(c)' = {}
    BY <1>1, <1>2, <1>7, ComesToRequest DEF Begins
  <2>2. ~wire[c][Len(wire[c])].comp
    BY <2>1 DEF Sync, LogSync, LastSent
  <2>3. RequestComp(c) = FALSE
    <3>1. wire[c][Len(wire[c])].comp \in BOOLEAN
      BY <1>1, <2>1, PacketType DEF NextPacket, Packets
    <3> QED
      BY <2>2, <3>1 DEF RequestComp
  <2>4. pong = Owed(c, "Pong")'
    BY <1>1, <2>1, <2>3 DEF pong, Owed, RequestComp
  <2> QED
    BY <1>1, <1>4, <1>7, <2>1, <2>4 DEF Answered, InPhase
<1> QED
  BY <1>1, <1>4, <1>5, <1>6, <1>7, HandlerSync DEF HandlerNext, HandlerReads

LEMMA ReadQuerySync ==
    ASSUME IInv, NEW c \in Conns, Sync(c), ReadQuery(c)
    PROVE  Sync(c)'
<1>1. /\ pc[c] = "read" /\ Arrived(c) /\ wire[c][rd[c]].code = "Query" /\ Take(c)
      /\ pc'[c] = "drain"
      /\ UNCHANGED <<wire, cl, nreq, left, replies, failed, desync>>
  BY Goes DEF ReadQuery, ReadsCode, At, others, client, NextPacket, AfterQuery
<1>2. /\ cur'[c] = wire[c][rd[c]].q /\ kind'[c] = wire[c][rd[c]].kind
      /\ comp'[c] = wire[c][rd[c]].comp
  BY DEF ReadQuery, NextPacket, IInv, TypeOK, HandlerTypeOK
<1>3. rd'[c] = rd[c] + 1 /\ rd[c] \in 1 .. Len(wire[c]) /\ Len(wire[c]) \in Nat
  BY <1>1, Takes, LogTypes, PacketType
<1>4. ReaderPlace(c)'
  BY <1>1, <1>3 DEF Sync, ReaderPlace, Ends, InRequest
<1>5. UnreadInsert(c)'
  BY <1>1, <1>3, UnreadStays DEF Sync
<1>6. ASSUME cl[c] \notin {"off", "gone"}, ~desync'[c]
      PROVE  InPhase(c)'
  <2>1. /\ wire[c][rd[c]].q = nreq[c] /\ replies[c] = <<>>
        /\ cl[c] \in {"awaiting", "header"} /\ rd[c] = Len(wire[c]) - 1
        /\ Unserved(c)' = {}
    BY <1>1, <1>3, <1>6, ComesToRequest DEF Begins
  <2>2. /\ wire[c][rd[c]].comp = RequestComp(c)
        /\ wire[c][rd[c]].kind \in InsertKinds <=> cl[c] = "header"
    BY <2>1 DEF Sync, LogSync, LastSent, RequestComp
  <2>3. RequestComp(c)' = RequestComp(c)
    BY <1>1 DEF RequestComp
  <2>4. InHand(c)'
    BY <1>1, <1>2, <2>1, <2>2, <2>3 DEF InHand
  <2> QED
    BY <2>4 DEF InPhase
<1> QED
  BY <1>1, <1>4, <1>5, <1>6, HandlerSync DEF HandlerNext, HandlerReads

\* What handle does not serve: Cancel comes from a client that is gone, anything
\* else loses the packet boundaries.
LEMMA ReadOtherSync ==
    ASSUME IInv, NEW c \in Conns, Sync(c), ReadOther(c)
    PROVE  Sync(c)'
<1> DEFINE stray == Reply("Exception", 0, FALSE)
<1>1. /\ pc[c] = "read" /\ Arrived(c) /\ Take(c)
      /\ wire[c][rd[c]].code \notin {"Ping", "Query"}
      /\ Flush(c, <<stray>>, "loop")
      /\ left'[c] = Unread(wire[c][rd[c]].code)
      /\ desync'[c] <=> desync[c] \/ wire[c][rd[c]].code # "Cancel"
      /\ UNCHANGED <<wire, cl, nreq, failed>>
  BY DEF ReadOther, ReadsCode, At, others, client, NextPacket, SendStray, IInv, TypeOK,
     HandlerTypeOK, SinkTypeOK
<1>2. rd'[c] = rd[c] + 1 /\ rd[c] \in 1 .. Len(wire[c]) /\ Len(wire[c]) \in Nat
  BY <1>1, Takes, LogTypes, PacketType
<1>3. <<stray>> \in Seq(Replies)
  <2>1. 0 \in 0 .. MaxRequests
    BY BoundsAssumption
  <2> QED
    BY <2>1, AnswerType DEF IInv
<1> HIDE DEF stray
<1>4. pc'[c] \in {"loop", "closed"} /\ (cl[c] = "gone" => replies'[c] = replies[c])
  BY <1>1, <1>3, Sends
<1>5. ReaderPlace(c)'
  <2>1. left'[c] > 0 => desync'[c]
    <3>1. left'[c] > 0 => wire[c][rd[c]].code = "Data"
      BY <1>1 DEF Unread
    <3> QED
      BY <1>1, <3>1
  <2> QED
    BY <1>1, <1>2, <1>4, <2>1, ReaderMoves DEF InRequest
<1>6. UnreadInsert(c)'
  BY <1>1, <1>2, UnreadStays DEF Sync
<1>7. cl[c] \in {"off", "gone"} \/ desync'[c]
  BY <1>1, <1>2, LogTypes DEF Sync, LogSync, RequestsBegin
<1> QED
  BY <1>1, <1>4, <1>5, <1>6, <1>7, HandlerSync DEF HandlerNext, HandlerReads

\* A reader that has lost the packet boundaries.
LEMMA LostSync ==
    ASSUME IInv, NEW c \in Conns, Sync(c), Misread(c) \/ SwallowPacket(c) \/ LeaveLost(c)
    PROVE  Sync(c)'
<1>1. /\ pc[c] \in {"read", "lost"} /\ desync[c]
      /\ UNCHANGED <<wire, cl, nreq, failed, desync>>
      /\ \/ rd' = rd
         \/ Take(c) /\ Arrived(c) /\ pc' = pc
  BY DEF Misread, SwallowPacket, LeaveLost, At, others, client, reader, Sync, ReaderPlace
<1>2. /\ pc'[c] \in {"loop", "lost", "closed"}
      /\ cl[c] = "gone" => replies'[c] = replies[c]
  <2>1. \A code \in {"Pong", "Exception"} : <<Reply(code, 0, FALSE)>> \in Seq(Replies)
    <3>1. 0 \in 0 .. MaxRequests
      BY BoundsAssumption
    <3> QED
      BY <3>1, AnswerType DEF IInv
  <2>2. \/ SwallowPacket(c)
        \/ \E p \in {"closed", "lost"} : Goto(c, p) /\ UNCHANGED replies
        \/ \E code \in {"Pong", "Exception"} : SendStray(c, code, "loop")
    BY DEF Misread, LeaveLost
  <2>3. CASE SwallowPacket(c)
    BY <2>3 DEF SwallowPacket, At
  <2>4. CASE \E p \in {"closed", "lost"} : Goto(c, p) /\ UNCHANGED replies
    BY <2>4, Goes
  <2>5. CASE \E code \in {"Pong", "Exception"} : SendStray(c, code, "loop")
    BY <2>1, <2>5, Sends DEF SendStray
  <2> QED
    BY <2>2, <2>3, <2>4, <2>5
<1>3. /\ rd[c] \in Nat /\ Len(wire[c]) \in Nat
      /\ \/ rd'[c] = rd[c]
         \/ rd'[c] = rd[c] + 1 /\ rd[c] <= Len(wire[c])
  BY <1>1, Takes, LogTypes DEF Arrived
<1>4. ReaderPlace(c)'
  BY <1>1, <1>2, <1>3 DEF Sync, ReaderPlace, Ends, InRequest
<1>5. UnreadInsert(c)'
  BY <1>1, <1>3, UnreadStays DEF Sync
<1> QED
  BY <1>1, <1>2, <1>4, <1>5, HandlerSync DEF HandlerNext

\* The handler returns.
LEMMA CloseSync ==
    ASSUME IInv, NEW c \in Conns, Sync(c), ProtocolError(c) \/ ReadEOF(c)
    PROVE  Sync(c)'
<1>1. pc[c] # "off" /\ pc'[c] = "closed"
  BY Goes DEF ProtocolError, ReadEOF, At, ReadingPCs
<1>2. Same(c) /\ SameHistory(c)
  BY DEF ProtocolError, ReadEOF, others, client, request, reader, Same, SameHistory
<1> QED
  BY <1>1, <1>2, SyncFixed

-----------------------------------------------------------------------------
\* A request in hand.

LEMMA RequestInHand ==
    ASSUME NEW c \in Conns, Sync(c), pc[c] \in InRequest,
           cl[c] \notin {"off", "gone"}, ~desync[c]
    PROVE  /\ InHand(c)
           /\ \A code : Answer(c, code) = Owed(c, code)
<1>1. InHand(c)
  BY DEF InRequest, Sync, Dialogue, InPhase, Greeting, Resting, Ahead, InHand, Answered,
     CutOff
<1> QED
  BY <1>1 DEF InHand, Answer, Owed

\* Where the handler stands as it has a request in hand.
LEMMA BehindData ==
    ASSUME IInv, NEW c \in Conns, Sync(c), pc[c] \in InRequest \ {"drain"}
    PROVE  /\ rd[c] \in Nat /\ rd[c] - 1 \in 1 .. Len(wire[c]) /\ Len(wire[c]) \in Nat
           /\ wire[c][rd[c] - 1].code = "Data" /\ wire[c][rd[c] - 1].q = cur[c]
           /\ ~Ends(c, rd[c] - 1)
           /\ rd[c] > 1 /\ (wire[c][1].kind = "quota" => rd[c] > 2)
<1>1. /\ rd[c] - 1 \in DOMAIN wire[c] /\ wire[c][rd[c] - 1].code = "Data"
      /\ wire[c][rd[c] - 1].q = cur[c]
  BY DEF InRequest, IInv, HandlerInv, HandlerPlace
<1> QED
  BY <1>1, LogTypes DEF InRequest, Sync, ReaderPlace

LEMMA DrainSync ==
    ASSUME IInv, NEW c \in Conns, Sync(c), Drain(c)
    PROVE  Sync(c)'
<1>1. /\ pc[c] = "drain" /\ pc'[c] = "route" /\ Arrived(c) /\ Take(c)
      /\ wire[c][rd[c]].code = "Data"
      /\ UNCHANGED <<wire, cl, nreq, cur, kind, comp, left, replies, failed, desync>>
  BY Goes DEF Drain, ReadsData, At, others, client, request, NextPacket
<1>2. rd'[c] = rd[c] + 1 /\ rd[c] \in 1 .. Len(wire[c]) /\ Len(wire[c]) \in Nat
  BY <1>1, Takes, LogTypes, PacketType
<1>3. wire[c][rd[c] - 1].code = "Query"
  BY <1>1 DEF IInv, HandlerInv, HandlerPlace
<1>4. ReaderPlace(c)'
  <2>1. ~Ends(c, rd[c])
    BY <1>1, <1>3 DEF Ends
  <2>2. left'[c] > 0 => desync'[c]
    BY <1>1 DEF Sync, ReaderPlace
  <2> QED
    BY <1>1, <1>2, <2>1, <2>2, ReaderMoves DEF InRequest
<1>5. UnreadInsert(c)'
  BY <1>1, <1>2, UnreadStays DEF Sync
<1>6. ASSUME cl[c] \notin {"off", "gone"}, ~desync'[c]
      PROVE  InPhase(c)'
  <2>1. InHand(c)
    BY <1>1, <1>6, RequestInHand DEF InRequest
  <2>2. Unserved(c)' \subseteq Unserved(c) /\ RequestComp(c)' = RequestComp(c)
    BY <1>1, <1>2, UnservedShrinks
  <2> QED
    BY <1>1, <2>1, <2>2 DEF InHand, InPhase
<1> QED
  BY <1>1, <1>4, <1>5, <1>6, HandlerSync DEF HandlerNext, HandlerReads

\* The request is answered, with a result or with an exception.
LEMMA AnswerSync ==
    ASSUME IInv, NEW c \in Conns, Sync(c),
           \/ AnswerProbe(c) \/ RejectQuery(c) \/ RejectInsert(c)
           \/ StarRocksAnswers(c) \/ StarRocksFails(c)
    PROVE  Sync(c)'
<1>1. /\ pc[c] \in {"route", "query"} /\ pc[c] \in InRequest \ {"drain"}
      /\ UNCHANGED <<wire, cl, nreq, cur, kind, comp, rd, left, failed, desync>>
      /\ HandlerNext(c)
  BY DEF AnswerProbe, RejectQuery, RejectInsert, StarRocksAnswers, StarRocksFails, At, others,
     client, request, reader, InRequest, HandlerNext, HandlerRuns
<1>2. PICK rs \in {<<Answer(c, "Data"), Answer(c, "End")>>, <<Answer(c, "Exception")>>} :
         /\ Flush(c, rs, "loop")
         /\ \/ rs = <<Answer(c, "Exception")>>
            \/ pc[c] = "query" \/ kind[c] = "probe"
  BY DEF AnswerProbe, RejectQuery, RejectInsert, StarRocksAnswers, StarRocksFails,
     SendResult, SendException, At
<1>3. rs \in Seq(Replies)
  BY <1>2, AnswerType DEF IInv
<1>4. /\ pc'[c] \in {"loop", "closed"}
      /\ cl[c] = "gone" => replies'[c] = replies[c]
      /\ cl[c] # "gone" /\ replies[c] = <<>> => replies'[c] = rs
  BY <1>2, <1>3, Sends
<1>5. ReaderPlace(c)'
  <2>1. wire[c][rd[c] - 1].code = "Data"
    BY <1>1, BehindData
  <2> QED
    BY <1>1, <1>4, <2>1 DEF Sync, ReaderPlace, Ends, InRequest
<1>6. UnreadInsert(c)'
  BY <1>1, UnreadStays DEF Sync
<1>7. ASSUME cl[c] \notin {"off", "gone"}, ~desync'[c]
      PROVE  InPhase(c)'
  <2>1. InHand(c) /\ \A code : Answer(c, code) = Owed(c, code)
    BY <1>1, <1>7, RequestInHand
  <2>2. /\ Unserved(c)' = Unserved(c)
        /\ \A code : Owed(c, code)' = Owed(c, code)
    BY <1>1, UnservedShrinks
  <2>3. Unserved(c) = {} /\ replies[c] = <<>> /\ cl[c] \in {"awaiting", "header"}
    BY <1>1, <2>1 DEF InHand
  <2>4. pc[c] = "query" \/ kind[c] = "probe" => cl[c] = "awaiting"
    BY <1>1, <2>1 DEF InHand, InsertKinds
  <2>5. Answered(c)'
    <3>1. CASE rs = <<Answer(c, "Exception")>>
      BY <1>1, <1>4, <1>7, <2>1, <2>2, <2>3, <3>1 DEF Answered
    <3>2. CASE rs = <<Answer(c, "Data"), Answer(c, "End")>> /\ cl[c] = "awaiting"
      BY <1>1, <1>4, <1>7, <2>1, <2>2, <2>3, <3>2 DEF Answered
    <3> QED
      BY <1>2, <2>4, <3>1, <3>2
  <2> QED
    BY <2>5 DEF InPhase
<1> QED
  BY <1>1, <1>4, <1>5, <1>6, <1>7, HandlerSync

LEMMA AskSync ==
    ASSUME IInv, NEW c \in Conns, Sync(c), AskStarRocks(c)
    PROVE  Sync(c)'
<1>1. /\ pc[c] = "route" /\ pc'[c] = "query" /\ kind[c] = "select"
      /\ UNCHANGED <<wire, cl, nreq, cur, kind, comp, rd, left, replies, failed, desync>>
  BY Goes DEF AskStarRocks, At, others, client, request, reader
<1>2. ReaderPlace(c)'
  BY <1>1 DEF Sync, ReaderPlace, Ends, InRequest
<1>3. UnreadInsert(c)'
  BY <1>1, UnreadStays DEF Sync
<1>4. ASSUME cl[c] \notin {"off", "gone"}, ~desync'[c]
      PROVE  InPhase(c)'
  <2>1. InHand(c)
    BY <1>1, <1>4, RequestInHand DEF InRequest
  <2>2. Unserved(c)' = Unserved(c) /\ RequestComp(c)' = RequestComp(c)
    BY <1>1, UnservedShrinks
  <2> QED
    BY <1>1, <2>1, <2>2 DEF InHand, InPhase, InsertKinds
<1> QED
  BY <1>1, <1>2, <1>3, <1>4, HandlerSync DEF HandlerNext, HandlerRuns

-----------------------------------------------------------------------------
\* An INSERT in hand.

LEMMA BeginInsertSync ==
    ASSUME IInv, NEW c \in Conns, Sync(c), BeginInsert(c)
    PROVE  Sync(c)'
<1>1. /\ pc[c] = "route" /\ kind[c] = "insert"
      /\ Flush(c, <<Answer(c, "Data")>>, "insread")
      /\ UNCHANGED <<wire, cl, nreq, cur, kind, comp, rd, left, failed, desync>>
  BY DEF BeginInsert, SendHeader, At, others, client, reader
<1>2. <<Answer(c, "Data")>> \in Seq(Replies)
  BY AnswerType DEF IInv
<1>3. /\ pc'[c] \in {"insread", "closed"}
      /\ cl[c] = "gone" => replies'[c] = replies[c]
      /\ cl[c] # "gone" => pc'[c] = "insread"
      /\ cl[c] # "gone" /\ replies[c] = <<>> => replies'[c] = <<Answer(c, "Data")>>
  BY <1>1, <1>2, Sends
<1>4. ReaderPlace(c)'
  BY <1>1, <1>3 DEF Sync, ReaderPlace, Ends, InRequest
<1>5. UnreadInsert(c)'
  BY <1>1, UnreadStays DEF Sync
<1>6. ASSUME cl[c] \notin {"off", "gone"}, ~desync'[c]
      PROVE  InPhase(c)'
  <2>1. InHand(c) /\ Answer(c, "Data") = Owed(c, "Data")
    BY <1>1, <1>6, RequestInHand DEF InRequest
  <2>2. /\ Unserved(c)' = Unserved(c) /\ RequestComp(c)' = RequestComp(c)
        /\ Owed(c, "Data")' = Owed(c, "Data")
    BY <1>1, UnservedShrinks
  <2>3. cl[c] = "header" /\ replies[c] = <<>>
    BY <1>1, <2>1 DEF InHand, InsertKinds
  <2> QED
    BY <1>1, <1>3, <2>1, <2>2, <2>3 DEF InHand, InPhase
<1> QED
  BY <1>1, <1>3, <1>4, <1>5, <1>6, HandlerSync DEF HandlerNext, HandlerRuns

\* A client that waits for the header has sent nothing behind its query.
LEMMA NothingBeforeHeader ==
    ASSUME IInv, NEW c \in Conns, Sync(c), InHand(c), pc[c] = "insread", Arrived(c)
    PROVE  cl[c] \in {"sending", "ending"} /\ replies[c] = <<>>
<1>1. CASE cl[c] = "header"
  <2> DEFINE last == Len(wire[c])
  <2>1. /\ last > 1 /\ wire[c][last - 1].code = "Query"
        /\ wire[c][last - 1].q = nreq[c]
    BY <1>1 DEF Sync, LogSync, LastSent
  <2>2. /\ rd[c] \in Nat /\ rd[c] - 1 \in 1 .. last /\ last \in Nat
        /\ wire[c][rd[c] - 1].code = "Data" /\ wire[c][rd[c] - 1].q = nreq[c]
    BY BehindData DEF InHand, InRequest
  <2>3. rd[c] <= last
    BY DEF Arrived
  <2>4. last - 1 \in 1 .. last /\ DOMAIN wire[c] = 1 .. last
    BY <2>1, <2>2, LogTypes
  <2>5. rd[c] - 1 \notin 1 .. (last - 1) - 1
    <3>1. Begins(c, last - 1)
      BY <2>1 DEF Begins
    <3>2. \A j \in 1 .. (last - 1) - 1 : wire[c][j].q < nreq[c]
      BY <2>1, <2>4, <3>1 DEF Sync, LogSync, RequestsBegin
    <3>3. nreq[c] \in Int
      BY ClientFacts
    <3>4. rd[c] - 1 \in 1 .. (last - 1) - 1 => nreq[c] < nreq[c]
      <4> HIDE DEF last
      <4> QED
        BY <2>2, <3>2
    <3> QED
      BY <3>3, <3>4
  <2>6. rd[c] - 1 # last - 1
    BY <2>1, <2>2
  <2>7. FALSE
    BY <2>2, <2>3, <2>5, <2>6
  <2> QED
    BY <2>7
<1>2. CASE cl[c] # "header"
  BY <1>2 DEF InHand
<1> QED
  BY <1>1, <1>2

LEMMA ReadBlockSync ==
    ASSUME IInv, NEW c \in Conns, Sync(c), ReadBlock(c)
    PROVE  Sync(c)'
<1>1. /\ pc[c] = "insread" /\ pc'[c] = "inswrite" /\ Arrived(c) /\ Take(c)
      /\ wire[c][rd[c]].code = "Data" /\ wire[c][rd[c]].n > 0
      /\ UNCHANGED <<wire, cl, nreq, cur, kind, comp, left, replies, failed, desync>>
  BY Goes DEF ReadBlock, ReadsData, AfterReadBlock, At, others, client, NextPacket
<1>2. rd'[c] = rd[c] + 1 /\ rd[c] \in 1 .. Len(wire[c]) /\ Len(wire[c]) \in Nat
  BY <1>1, Takes, LogTypes, PacketType
<1>3. ReaderPlace(c)'
  <2>1. ~Ends(c, rd[c])
    <3>1. wire[c][rd[c]].n # 0 /\ wire[c][rd[c]].code # "Cancel"
      BY <1>1, <1>2, LogTypes, PacketType
    <3> QED
      BY <3>1 DEF Ends
  <2>2. left'[c] > 0 => desync'[c]
    BY <1>1 DEF Sync, ReaderPlace
  <2> QED
    BY <1>1, <1>2, <2>1, <2>2, ReaderMoves
<1>4. UnreadInsert(c)'
  BY <1>1, <1>2 DEF Sync, UnreadInsert, OfInsert
<1>5. ASSUME cl[c] \notin {"off", "gone"}, ~desync'[c]
      PROVE  InPhase(c)'
  <2>1. InHand(c)
    BY <1>1, <1>5, RequestInHand DEF InRequest
  <2>2. cl[c] \in {"sending", "ending"} /\ replies[c] = <<>>
    BY <1>1, <2>1, NothingBeforeHeader
  <2>3. Unserved(c)' \subseteq Unserved(c) /\ RequestComp(c)' = RequestComp(c)
    BY <1>1, <1>2, UnservedShrinks
  <2> QED
    BY <1>1, <2>1, <2>2, <2>3 DEF InHand, InPhase
<1> QED
  BY <1>1, <1>3, <1>4, <1>5, HandlerSync DEF HandlerNext, HandlerReads

LEMMA WriteOkSync ==
    ASSUME IInv, NEW c \in Conns, Sync(c), WriteOk(c)
    PROVE  Sync(c)'
<1>1. /\ pc[c] = "inswrite" /\ pc'[c] = "insread"
      /\ UNCHANGED <<wire, cl, nreq, cur, kind, comp, rd, left, replies, failed, desync>>
  BY Goes DEF WriteOk, At, others, client, request, reader
<1>2. ReaderPlace(c)'
  BY <1>1 DEF Sync, ReaderPlace, Ends, InRequest
<1>3. UnreadInsert(c)'
  BY <1>1 DEF Sync, UnreadInsert, OfInsert
<1>4. ASSUME cl[c] \notin {"off", "gone"}, ~desync'[c]
      PROVE  InPhase(c)'
  <2>1. InHand(c)
    BY <1>1, <1>4, RequestInHand DEF InRequest
  <2>2. Unserved(c)' = Unserved(c) /\ RequestComp(c)' = RequestComp(c)
    BY <1>1, UnservedShrinks
  <2> QED
    BY <1>1, <2>1, <2>2 DEF InHand, InPhase
<1> QED
  BY <1>1, <1>2, <1>3, <1>4, HandlerSync DEF HandlerNext, WriteReturns

\* The INSERT fails between two blocks: the exception answers it, and what its
\* client still sends stays unread.
LEMMA FailSync ==
    ASSUME IInv, NEW c \in Conns, Sync(c), BadBlock(c) \/ WriteFails(c)
    PROVE  Sync(c)'
<1>1. /\ pc[c] \in {"insread", "inswrite"} /\ pc[c] \in InRequest \ {"drain"}
      /\ Flush(c, <<Answer(c, "Exception")>>, "loop") /\ failed'[c]
      /\ UNCHANGED <<wire, cl, nreq, cur, kind, comp, left, desync>>
      /\ HandlerNext(c)
  BY DEF BadBlock, WriteFails, FailInsert, AfterFailure, SendException, At, others, client,
     request, reader, InRequest, HandlerNext, HandlerReads, WriteReturns, IInv, TypeOK,
     SinkTypeOK
<1>2. \/ rd'[c] = rd[c] /\ pc[c] = "inswrite"
      \/ /\ pc[c] = "insread" /\ Arrived(c) /\ rd'[c] = rd[c] + 1
         /\ wire[c][rd[c]].code = "Data"
  BY Takes DEF BadBlock, WriteFails, ReadsData, NextPacket, At, reader
<1>3. /\ rd[c] \in Nat /\ rd[c] - 1 \in 1 .. Len(wire[c]) /\ Len(wire[c]) \in Nat
      /\ wire[c][rd[c] - 1].code = "Data"
      /\ rd[c] > 1 /\ (wire[c][1].kind = "quota" => rd[c] > 2)
  BY <1>1, BehindData
<1>4. <<Answer(c, "Exception")>> \in Seq(Replies)
  BY AnswerType DEF IInv
<1>5. /\ pc'[c] \in {"loop", "closed"}
      /\ cl[c] = "gone" => replies'[c] = replies[c]
      /\ cl[c] # "gone" /\ replies[c] = <<>> => replies'[c] = <<Answer(c, "Exception")>>
  BY <1>1, <1>4, Sends
<1>6. ReaderPlace(c)'
  <2>1. left'[c] > 0 \/ pc'[c] = "lost" => desync'[c]
    BY <1>1, <1>5 DEF Sync, ReaderPlace
  <2>2. CASE rd'[c] = rd[c]
    BY <1>1, <1>3, <1>5, <2>1, <2>2 DEF ReaderPlace, InRequest
  <2>3. CASE /\ Arrived(c) /\ rd'[c] = rd[c] + 1
             /\ wire[c][rd[c]].code = "Data"
    <3>1. rd[c] \in 1 .. Len(wire[c])
      BY <1>3, <2>3 DEF Arrived
    <3> QED
      BY <1>1, <1>5, <2>1, <2>3, <3>1, ReaderMoves DEF InRequest
  <2> QED
    BY <1>2, <2>2, <2>3
<1>7. UnreadInsert(c)'
  BY <1>1 DEF UnreadInsert
<1>8. ASSUME cl[c] \notin {"off", "gone"}, ~desync'[c]
      PROVE  InPhase(c)'
  <2>1. InHand(c) /\ Answer(c, "Exception") = Owed(c, "Exception")
    BY <1>1, <1>8, RequestInHand
  <2>2. cl[c] \in {"sending", "ending"} /\ replies[c] = <<>>
    BY <1>2, <2>1, NothingBeforeHeader DEF InHand
  <2>3. /\ Unserved(c)' \subseteq Unserved(c)
        /\ Owed(c, "Exception")' = Owed(c, "Exception")
    BY <1>1, <1>2, UnservedShrinks
  <2> QED
    BY <1>1, <1>5, <2>1, <2>2, <2>3 DEF InHand, Answered, InPhase
<1> QED
  BY <1>1, <1>5, <1>6, <1>7, <1>8, HandlerSync

\* The INSERT ends: nothing of it is unread, and the client waits for EndOfStream.
LEMMA EndInsertSync ==
    ASSUME IInv, NEW c \in Conns, Sync(c), EndInsert(c)
    PROVE  Sync(c)'
<1>1. /\ pc[c] = "insread" /\ pc[c] \in InRequest \ {"drain"} /\ Arrived(c) /\ Take(c)
      /\ \/ wire[c][rd[c]].code = "Data" /\ wire[c][rd[c]].n = 0
         \/ wire[c][rd[c]].code = "Cancel"
      /\ Flush(c, <<Answer(c, "End")>>, "loop")
      /\ <<c, cur[c]>> \in acked'
      /\ UNCHANGED <<wire, cl, nreq, cur, kind, comp, left, failed, desync>>
  BY DEF EndInsert, SendEndOfStream, ReadsData, NextPacket, At, others, client, request,
     InRequest
<1>2. rd'[c] = rd[c] + 1 /\ rd[c] \in 1 .. Len(wire[c]) /\ Len(wire[c]) \in Nat
  BY <1>1, Takes, LogTypes, PacketType
<1>3. /\ rd[c] - 1 \in 1 .. Len(wire[c])
      /\ wire[c][rd[c] - 1].code = "Data" /\ wire[c][rd[c] - 1].q = cur[c]
      /\ rd[c] > 1 /\ (wire[c][1].kind = "quota" => rd[c] > 2)
  BY <1>1, BehindData
<1>4. Ends(c, rd[c]) /\ wire[c][rd[c]].q = cur[c]
  <2>1. rd[c] \in DOMAIN wire[c]
    BY <1>2, LogTypes
  <2>2. wire[c][rd[c]].q = wire[c][rd[c] - 1].q
    BY <1>1, <1>3, <2>1 DEF IInv, LogInv, RequestsInOrder
  <2> QED
    BY <1>1, <1>3, <2>2 DEF Ends
<1>5. <<Answer(c, "End")>> \in Seq(Replies)
  BY AnswerType DEF IInv
<1>6. /\ pc'[c] \in {"loop", "closed"}
      /\ cl[c] = "gone" => replies'[c] = replies[c]
      /\ cl[c] # "gone" /\ replies[c] = <<>> => replies'[c] = <<Answer(c, "End")>>
  BY <1>1, <1>5, Sends
<1>7. ReaderPlace(c)'
  <2>1. /\ rd'[c] \in Nat /\ rd'[c] - 1 = rd[c] /\ rd'[c] <= Len(wire[c]) + 1
        /\ rd'[c] > 2
    BY <1>2, <1>3
  <2>2. wire'[c][rd'[c] - 1].code # "Query"
    BY <1>1, <2>1
  <2> QED
    BY <1>1, <1>6, <2>1, <2>2 DEF Sync, ReaderPlace, InRequest
<1>8. UnreadInsert(c)'
  <2>1. ASSUME ~desync[c], ~failed[c], NEW i \in rd[c] + 1 .. Len(wire[c]), OfInsert(c, i)
        PROVE  FALSE
    <3>1. i \in rd[c] .. Len(wire[c]) /\ rd[c] \in DOMAIN wire[c]
      BY <1>2, LogTypes
    <3>2. wire[c][i].q = cur[c]
      BY <1>1, <2>1, <3>1 DEF Sync, UnreadInsert
    <3>3. wire[c][i].code = "Cancel"
      BY <1>4, <2>1, <3>1, <3>2 DEF Sync, LogSync, RequestsBegin
    <3> QED
      BY <2>1, <3>3 DEF OfInsert
  <2> QED
    BY <1>1, <1>2, <2>1 DEF UnreadInsert, OfInsert
<1>9. ASSUME cl[c] \notin {"off", "gone"}, ~desync'[c]
      PROVE  InPhase(c)'
  <2>1. InHand(c) /\ Answer(c, "End") = Owed(c, "End")
    BY <1>1, <1>9, RequestInHand
  <2>2. cl[c] \in {"sending", "ending"} /\ replies[c] = <<>>
    BY <1>1, <2>1, NothingBeforeHeader
  <2>3. cur[c] = nreq[c]
    BY <2>1 DEF InHand
  <2>4. cl[c] = "ending"
    <3>1. rd[c] \in DOMAIN wire[c]
      BY <1>2, LogTypes
    <3>2. cl[c] # "sending"
      BY <1>4, <2>3, <3>1 DEF IInv, LogInv, OpenInsert
    <3> QED
      BY <2>2, <3>2
  <2>5. /\ Unserved(c)' \subseteq Unserved(c)
        /\ Owed(c, "End")' = Owed(c, "End")
    BY <1>1, <1>2, UnservedShrinks
  <2> QED
    BY <1>1, <1>6, <2>1, <2>2, <2>3, <2>4, <2>5 DEF InHand, Answered, InPhase
<1> QED
  BY <1>1, <1>6, <1>7, <1>8, <1>9, HandlerSync DEF HandlerNext, HandlerReads

LEMMA HandlerKeepsSync ==
    ASSUME IInv, NEW c \in Conns, Sync(c), HandlerNext(c), ~PanicOnQuery(c)
    PROVE  Sync(c)'
BY AcceptSync, ReadHelloSync, ReadAddendumSync, LoopCheckSync, ReadPingSync, ReadQuerySync,
   ReadOtherSync, LostSync, CloseSync, DrainSync, AnswerSync, AskSync, BeginInsertSync,
   ReadBlockSync, WriteOkSync, FailSync, EndInsertSync
   DEF HandlerNext, HandlerReads, HandlerRuns, WriteReturns

-----------------------------------------------------------------------------
\* The client reads.

LEMMA SequenceFacts ==
    /\ \A a : <<a>> # <<>> /\ Head(<<a>>) = a /\ Tail(<<a>>) = <<>>
    /\ \A a, b : <<a, b>> # <<>> /\ Head(<<a, b>>) = a /\ Tail(<<a, b>>) = <<b>>
OBVIOUS

\* What a client that reads or leaves leaves alone.
Unheard(c) ==
    /\ wire'[c] = wire[c] /\ nreq'[c] = nreq[c] /\ pc'[c] = pc[c]
    /\ rd'[c] = rd[c] /\ left'[c] = left[c]
    /\ cur'[c] = cur[c] /\ kind'[c] = kind[c] /\ comp'[c] = comp[c]
    /\ desync'[c] = desync[c] /\ failed'[c] = failed[c] /\ acked' = acked

\* The client's step keeps Sync if it keeps the phase.
LEMMA ClientSync ==
    ASSUME NEW c \in Conns, Sync(c), Unheard(c), cl[c] \notin {"off", "gone"},
           \/ cl'[c] = "gone"
           \/ cl[c] # "greet" /\ cl'[c] \in {"idle", "sending"}
           \/ cl[c] = "awaiting" /\ cl'[c] = "awaiting",
           cl'[c] = "gone" => replies'[c] = <<>>,
           cl'[c] # "gone" /\ ~desync[c] => InPhase(c)',
           ConfirmedAcked(c)'
    PROVE  Sync(c)'
<1>1. LogSync(c)'
  BY DEF Sync, Unheard, LogSync, HandshakeFirst, RequestsBegin, LastSent, Begins, Ends
<1>2. ReaderPlace(c)'
  BY DEF Sync, Unheard, ReaderPlace, Ends
<1>3. UnreadInsert(c)'
  BY DEF Sync, Unheard, UnreadInsert, OfInsert
<1> QED
  BY <1>1, <1>2, <1>3 DEF Sync, Dialogue, Unheard

LEMMA UnheardFacts ==
    ASSUME NEW c \in Conns, Unheard(c)
    PROVE  /\ Unserved(c)' = Unserved(c) /\ RequestComp(c)' = RequestComp(c)
           /\ \A code : Owed(c, code)' = Owed(c, code)
BY DEF Unheard, Unserved, Begins, RequestComp, Owed

\* A client that has asked for something reads an answer, or the header.
LEMMA ReplyPhase ==
    ASSUME NEW c \in Conns, Sync(c), replies[c] # <<>>, ~desync[c],
           cl[c] \notin {"off", "gone", "greet"}
    PROVE  \/ Answered(c)
           \/ /\ cl[c] = "header" /\ replies[c] = <<Owed(c, "Data")>>
              /\ \/ InHand(c) /\ pc[c] = "insread"
                 \/ CutOff(c)
BY DEF Sync, Dialogue, InPhase, Greeting, Resting, Ahead, InHand, CutOff

LEMMA LeaveSync ==
    ASSUME IInv, NEW c \in Conns, Sync(c),
           GetWrongReply(c) \/ Leave(c) \/ SeeClose(c)
    PROVE  Sync(c)'
<1>1. cl[c] \notin {"off", "gone"}
  BY DEF GetWrongReply, Leave, SeeClose
<1>2. Unheard(c) /\ confirmed' = confirmed
  BY DEF GetWrongReply, Leave, SeeClose, server, reader, request, Unheard
<1>3. cl'[c] = "gone" /\ replies'[c] = <<>>
  BY ClientFacts DEF GetWrongReply, Leave, SeeClose, HangUp, Become
<1>4. ConfirmedAcked(c)'
  BY <1>2 DEF Sync, ConfirmedAcked, Unheard
<1> QED
  BY <1>1, <1>2, <1>3, <1>4, ClientSync

LEMMA GetPongSync ==
    ASSUME IInv, NEW c \in Conns, Sync(c), GetPong(c)
    PROVE  Sync(c)'
<1>1. /\ cl[c] = "pinging" /\ cl'[c] = "idle" /\ replies[c] # <<>>
      /\ replies'[c] = Tail(replies[c])
  BY ClientFacts DEF GetPong, Receives, Become
<1>2. Unheard(c) /\ confirmed' = confirmed
  BY DEF GetPong, server, reader, request, Unheard
<1>3. ASSUME ~desync[c]
      PROVE  InPhase(c)'
  <2>1. Answered(c)
    BY <1>1, <1>3, ReplyPhase
  <2>2. replies'[c] = <<>>
    BY <1>1, <2>1, SequenceFacts DEF Answered
  <2>3. Resting(c)'
    BY <1>1, <1>2, <2>1, <2>2, UnheardFacts DEF Resting, Answered, Unheard
  <2> QED
    BY <2>3 DEF InPhase
<1>4. ConfirmedAcked(c)'
  BY <1>2 DEF Sync, ConfirmedAcked, Unheard
<1> QED
  BY <1>1, <1>2, <1>3, <1>4, ClientSync

LEMMA GetDataSync ==
    ASSUME IInv, NEW c \in Conns, Sync(c), GetData(c)
    PROVE  Sync(c)'
<1>1. /\ cl[c] \in {"awaiting", "header"}
      /\ cl'[c] = IF cl[c] = "header" THEN "sending" ELSE "awaiting"
      /\ replies[c] # <<>> /\ Head(replies[c]).code = "Data"
      /\ replies'[c] = Tail(replies[c])
  BY ClientFacts DEF GetData, Receives, Become
<1>2. Unheard(c) /\ confirmed' = confirmed
  BY DEF GetData, server, reader, request, Unheard
<1>3. \A code : Owed(c, code).code = code
  BY DEF Owed, Reply
<1>4. ASSUME ~desync[c]
      PROVE  InPhase(c)'
  <2>1. CASE Answered(c)
    <3>1. /\ cl[c] = "awaiting" /\ replies[c] = <<Owed(c, "Data"), Owed(c, "End")>>
      BY <1>1, <1>3, <2>1, SequenceFacts DEF Answered
    <3>2. cl'[c] = "awaiting" /\ replies'[c] = <<Owed(c, "End")>>
      BY <1>1, <3>1, SequenceFacts
    <3>3. Answered(c)'
      BY <1>2, <2>1, <3>2, UnheardFacts DEF Answered, Unheard
    <3> QED
      BY <3>3 DEF InPhase
  <2>2. ASSUME cl[c] = "header", replies[c] = <<Owed(c, "Data")>>
        PROVE  cl'[c] = "sending" /\ replies'[c] = <<>>
    BY <1>1, <2>2, SequenceFacts
  <2>3. CASE /\ cl[c] = "header" /\ replies[c] = <<Owed(c, "Data")>>
             /\ InHand(c) /\ pc[c] = "insread"
    <3>1. InHand(c)'
      BY <1>2, <2>2, <2>3, UnheardFacts DEF InHand, Unheard
    <3> QED
      BY <3>1 DEF InPhase
  <2>4. CASE /\ cl[c] = "header" /\ replies[c] = <<Owed(c, "Data")>>
             /\ CutOff(c)
    <3>1. CutOff(c)'
      BY <1>2, <2>2, <2>4 DEF CutOff, Unheard
    <3> QED
      BY <3>1 DEF InPhase
  <2> QED
    BY <1>1, <1>4, <2>1, <2>3, <2>4, ReplyPhase
<1>5. ConfirmedAcked(c)'
  BY <1>2 DEF Sync, ConfirmedAcked, Unheard
<1> QED
  BY <1>1, <1>2, <1>4, <1>5, ClientSync

LEMMA GetExceptionSync ==
    ASSUME IInv, NEW c \in Conns, Sync(c), GetException(c)
    PROVE  Sync(c)'
<1>1. /\ cl[c] \in {"pinging", "awaiting", "header", "sending", "ending"}
      /\ cl'[c] = "idle" /\ replies[c] # <<>> /\ Head(replies[c]).code = "Exception"
      /\ replies'[c] = Tail(replies[c])
  BY ClientFacts DEF GetException, Receives, Become
<1>2. Unheard(c) /\ confirmed' = confirmed
  BY DEF GetException, server, reader, request, Unheard
<1>3. \A code : Owed(c, code).code = code
  BY DEF Owed, Reply
<1>4. ASSUME ~desync[c]
      PROVE  InPhase(c)'
  <2>1. replies[c] # <<Owed(c, "Data")>>
    BY <1>1, <1>3, SequenceFacts
  <2>2. Answered(c)
    BY <1>1, <1>4, <2>1, ReplyPhase
  <2>3. replies'[c] = <<>>
    <3>1. replies[c] = <<Owed(c, "Exception")>>
      <4>1. /\ Head(<<Owed(c, "Data"), Owed(c, "End")>>) = Owed(c, "Data")
            /\ \A code : Head(<<Owed(c, code)>>) = Owed(c, code)
        BY SequenceFacts
      <4> QED
        BY <1>1, <1>3, <2>2, <4>1 DEF Answered
    <3> QED
      BY <1>1, <3>1, SequenceFacts
  <2>4. Resting(c)'
    BY <1>1, <1>2, <2>2, <2>3, UnheardFacts DEF Resting, Answered, Unheard
  <2> QED
    BY <2>4 DEF InPhase
<1>5. ConfirmedAcked(c)'
  BY <1>2 DEF Sync, ConfirmedAcked, Unheard
<1> QED
  BY <1>1, <1>2, <1>4, <1>5, ClientSync

\* EndOfStream ends a query, or confirms an INSERT that is acknowledged.
LEMMA GetEndSync ==
    ASSUME IInv, NEW c \in Conns, Sync(c), GetEnd(c)
    PROVE  Sync(c)'
<1>1. /\ cl[c] \in {"awaiting", "header", "ending"} /\ cl'[c] = "idle"
      /\ replies[c] # <<>> /\ Head(replies[c]).code = "End"
      /\ replies'[c] = Tail(replies[c])
  BY ClientFacts DEF GetEnd, Receives, Become
<1>2. /\ Unheard(c)
      /\ confirmed' = IF cl[c] = "ending" THEN confirmed \cup {<<c, nreq[c]>>}
                      ELSE confirmed
  BY DEF GetEnd, server, reader, request, Unheard
<1>3. \A code : Owed(c, code).code = code
  BY DEF Owed, Reply
<1>4. ASSUME ~desync[c]
      PROVE  /\ Answered(c) /\ InPhase(c)'
             /\ cl[c] = "ending" => <<c, nreq[c]>> \in acked
  <2>1. replies[c] # <<Owed(c, "Data")>>
    BY <1>1, <1>3, SequenceFacts
  <2>2. Answered(c)
    BY <1>1, <1>4, <2>1, ReplyPhase
  <2>3. /\ replies'[c] = <<>>
        /\ cl[c] = "ending" => <<c, nreq[c]>> \in acked
    <3>1. /\ Head(<<Owed(c, "Data"), Owed(c, "End")>>) = Owed(c, "Data")
          /\ \A code : Head(<<Owed(c, code)>>) = Owed(c, code)
      BY SequenceFacts
    <3>2. /\ replies[c] = <<Owed(c, "End")>>
          /\ cl[c] = "ending" => <<c, nreq[c]>> \in acked
      BY <1>1, <1>3, <2>2, <3>1 DEF Answered
    <3> QED
      BY <1>1, <3>2, SequenceFacts
  <2>4. Resting(c)'
    BY <1>1, <1>2, <2>2, <2>3, UnheardFacts DEF Resting, Answered, Unheard
  <2> QED
    BY <2>2, <2>3, <2>4 DEF InPhase
<1>5. ConfirmedAcked(c)'
  BY <1>2, <1>4 DEF Sync, ConfirmedAcked, Unheard
<1> QED
  BY <1>1, <1>2, <1>4, <1>5, ClientSync

-----------------------------------------------------------------------------
\* The client writes.

\* The log of c grows from L to N packets.
Grows(c, L, N) ==
    /\ L \in Nat \ {0} /\ N \in Nat /\ L <= N
    /\ L = Len(wire[c]) /\ N = Len(wire'[c])
    /\ DOMAIN wire[c] = 1 .. L /\ DOMAIN wire'[c] = 1 .. N
    /\ \A i \in 1 .. L : wire'[c][i] = wire[c][i]

\* What a client that writes leaves alone.
Unasked(c) ==
    /\ pc'[c] = pc[c] /\ rd'[c] = rd[c] /\ left'[c] = left[c]
    /\ cur'[c] = cur[c] /\ kind'[c] = kind[c] /\ comp'[c] = comp[c]
    /\ desync'[c] = desync[c] /\ failed'[c] = failed[c]
    /\ acked' = acked /\ confirmed' = confirmed

LEMMA GrownReader ==
    ASSUME IInv, NEW c \in Conns, ReaderPlace(c), NEW L, NEW N, Grows(c, L, N), Unasked(c)
    PROVE  ReaderPlace(c)'
<1>1. rd[c] \in Nat \ {0} /\ rd[c] <= L + 1 /\ L \in Nat
  BY LogTypes DEF ReaderPlace, Grows
<1>2. ASSUME pc[c] \in InRequest \ {"drain"}
      PROVE  ~Ends(c, rd[c] - 1)'
  <2>1. rd[c] - 1 \in 1 .. L /\ ~Ends(c, rd[c] - 1)
    BY <1>2 DEF IInv, HandlerInv, HandlerPlace, ReaderPlace, Grows
  <2>2. rd[c] - 1 > 1 => (rd[c] - 1) - 1 \in 1 .. L
    BY <1>1
  <2>3. rd'[c] = rd[c]
    BY DEF Unasked
  <2> QED
    BY <2>1, <2>2, <2>3 DEF Ends, Grows
<1>3. ASSUME ~desync[c], pc[c] \in {"loop", "read"}
      PROVE  wire'[c][rd'[c] - 1].code # "Query"
  <2>1. rd[c] > 1 /\ wire[c][rd[c] - 1].code # "Query"
    BY <1>3 DEF ReaderPlace
  <2>2. rd[c] - 1 \in 1 .. L
    BY <1>1, <2>1
  <2> QED
    BY <2>1, <2>2 DEF Unasked, Grows
<1>4. wire'[c][1] = wire[c][1] /\ rd[c] <= N + 1
  BY <1>1 DEF Grows
<1>5. N = Len(wire'[c])
  BY DEF Grows
<1> QED
  BY <1>1, <1>2, <1>3, <1>4, <1>5 DEF ReaderPlace, Unasked

\* New packets of an INSERT come to a handler that has it in hand.
LEMMA GrownUnread ==
    ASSUME IInv, NEW c \in Conns, UnreadInsert(c), NEW L, NEW N, Grows(c, L, N), Unasked(c),
           \A i \in L + 1 .. N :
              OfInsert(c, i)' /\ ~desync[c] /\ ~failed[c] =>
                 \/ pc[c] \in {"insread", "inswrite"} /\ wire'[c][i].q = cur[c]
                 \/ pc[c] = "closed"
    PROVE  UnreadInsert(c)'
<1> SUFFICES ASSUME ~desync[c], ~failed[c], NEW i \in rd[c] .. N, OfInsert(c, i)'
             PROVE  \/ pc[c] \in {"insread", "inswrite"} /\ wire'[c][i].q = cur[c]
                    \/ pc[c] = "closed"
  BY DEF UnreadInsert, Unasked, Grows
<1>1. rd[c] \in Nat \ {0}
  BY LogTypes
<1>2. CASE i \in L + 1 .. N
  BY <1>2
<1>3. CASE i \in 1 .. L
  <2>1. i > 1 => i - 1 \in 1 .. L
    BY <1>3 DEF Grows
  <2>2. OfInsert(c, i)
    BY <1>3, <2>1 DEF OfInsert, Grows
  <2>3. i \in rd[c] .. Len(wire[c])
    BY <1>3 DEF Grows
  <2> QED
    BY <1>3, <2>2, <2>3 DEF UnreadInsert, Grows
<1> QED
  BY <1>1, <1>2, <1>3 DEF Grows

LEMMA GrownUnserved ==
    ASSUME IInv, NEW c \in Conns, ReaderPlace(c), NEW L, NEW N, Grows(c, L, N), Unasked(c)
    PROVE  Unserved(c)' = Unserved(c) \cup {i \in L + 1 .. N : Begins(c, i)'}
<1>1. rd[c] \in Nat \ {0} /\ rd[c] <= L + 1
  BY LogTypes DEF ReaderPlace, Grows
<1>2. rd[c] .. N = (rd[c] .. L) \cup (L + 1 .. N)
  BY <1>1 DEF Grows
<1>3. \A i \in rd[c] .. L : Begins(c, i)' <=> Begins(c, i)
  BY <1>1 DEF Begins, Grows
<1>4. /\ Unserved(c)' = {i \in rd[c] .. N : Begins(c, i)'}
      /\ Unserved(c) = {i \in rd[c] .. L : Begins(c, i)}
  BY DEF Unserved, Unasked, Grows
<1> QED
  BY <1>2, <1>3, <1>4

LEMMA GrownHandshake ==
    ASSUME NEW c \in Conns, HandshakeFirst(c), NEW L, NEW N, Grows(c, L, N),
           cl[c] \notin {"off", "greet", "gone"}, cl'[c] # "greet",
           \A i \in L + 1 .. N : wire'[c][i].code \notin {"Hello", "Addendum"}
    PROVE  HandshakeFirst(c)'
<1>1. L > 1 \/ wire[c][1].kind # "quota"
  BY DEF HandshakeFirst, Grows
<1>2. wire'[c][1] = wire[c][1]
  BY DEF Grows
<1>3. ASSUME NEW i \in 1 .. N
      PROVE  /\ wire'[c][i].code = "Hello" <=> i = 1
             /\ wire'[c][i].code = "Addendum" <=> i = 2 /\ wire'[c][1].kind = "quota"
  <2>1. CASE i \in 1 .. L
    BY <1>2, <2>1 DEF HandshakeFirst, Grows
  <2>2. CASE i \in L + 1 .. N
    BY <1>1, <1>2, <2>2 DEF Grows
  <2> QED
    BY <2>1, <2>2 DEF Grows
<1> QED
  BY <1>1, <1>2, <1>3 DEF HandshakeFirst, Grows

LEMMA GrownBegins ==
    ASSUME NEW c \in Conns, RequestsBegin(c), NEW L, NEW N, Grows(c, L, N),
           cl[c] # "gone",
           \A i \in L + 1 .. N :
              /\ Begins(c, i)' => \A j \in 1 .. i - 1 : wire'[c][j].q < wire'[c][i].q
              /\ Ends(c, i)' => i = N
              /\ wire'[c][i].code = "Cancel" => cl'[c] = "gone"
              /\ wire'[c][i].code # "Cancel" =>
                    \A j \in 1 .. L : Ends(c, j) => wire[c][j].q # wire'[c][i].q
    PROVE  RequestsBegin(c)'
<1>1. ASSUME NEW i \in 1 .. L
      PROVE  /\ Begins(c, i)' => \A j \in 1 .. i - 1 : wire'[c][j].q < wire'[c][i].q
             /\ Ends(c, i)' => \A j \in i + 1 .. N :
                    wire'[c][j].q = wire'[c][i].q => wire'[c][j].code = "Cancel"
             /\ wire'[c][i].code = "Cancel" => cl'[c] = "gone"
  <2>1. /\ wire'[c][i] = wire[c][i] /\ \A j \in 1 .. i - 1 : wire'[c][j] = wire[c][j]
        /\ i \in DOMAIN wire[c]
    BY DEF Grows
  <2>2. Ends(c, i)' <=> Ends(c, i)
    <3>1. i > 1 => wire'[c][i - 1] = wire[c][i - 1]
      BY <2>1
    <3> QED
      BY <2>1, <3>1 DEF Ends
  <2>3. Begins(c, i)' => \A j \in 1 .. i - 1 : wire'[c][j].q < wire'[c][i].q
    BY <2>1 DEF RequestsBegin, Begins
  <2>4. ASSUME Ends(c, i), NEW j \in i + 1 .. N, wire'[c][j].q = wire'[c][i].q
        PROVE  wire'[c][j].code = "Cancel"
    <3>1. CASE j \in i + 1 .. L
      BY <2>1, <2>4, <3>1 DEF RequestsBegin, Grows
    <3>2. CASE j \in L + 1 .. N
      BY <2>1, <2>4, <3>2
    <3> QED
      BY <3>1, <3>2 DEF Grows
  <2>5. wire'[c][i].code # "Cancel"
    BY <2>1 DEF RequestsBegin
  <2> QED
    BY <2>2, <2>3, <2>4, <2>5
<1>2. ASSUME NEW i \in L + 1 .. N, Ends(c, i)', NEW j \in i + 1 .. N
      PROVE  FALSE
  BY <1>2 DEF Grows
<1>3. 1 .. N = (1 .. L) \cup (L + 1 .. N)
  BY DEF Grows
<1>4. ASSUME NEW i \in 1 .. N
      PROVE  /\ Begins(c, i)' => \A j \in 1 .. i - 1 : wire'[c][j].q < wire'[c][i].q
             /\ Ends(c, i)' => \A j \in i + 1 .. N :
                    wire'[c][j].q = wire'[c][i].q => wire'[c][j].code = "Cancel"
             /\ wire'[c][i].code = "Cancel" => cl'[c] = "gone"
  BY <1>1, <1>2, <1>3
<1>5. DOMAIN wire'[c] = 1 .. N /\ Len(wire'[c]) = N
  BY DEF Grows
<1> QED
  BY <1>4, <1>5 DEF RequestsBegin

\* One packet more.
LEMMA Appended ==
    ASSUME IInv, NEW c \in Conns, NEW p \in Packets, Send(c, <<p>>), wire[c] # <<>>
    PROVE  \E L \in Nat \ {0} :
              /\ L = Len(wire[c]) /\ Grows(c, L, L + 1)
              /\ wire'[c][L + 1] = p
              /\ L + 1 .. L + 1 = {L + 1}
<1>1. <<p>> \in Seq(Packets) /\ Len(<<p>>) = 1 /\ <<p>>[1] = p
  OBVIOUS
<1>2. PICK L \in Nat : L = Len(wire[c])
  BY LogTypes
<1>3. L # 0
  BY <1>2, LogTypes
<1>4. /\ DOMAIN wire'[c] = 1 .. L + 1 /\ Len(wire'[c]) = L + 1
      /\ \A k \in 1 .. 1 : wire'[c][L + k] = <<p>>[k]
      /\ \A i \in DOMAIN wire[c] : wire'[c][i] = wire[c][i]
  BY <1>1, <1>2, Longer
<1>5. DOMAIN wire[c] = 1 .. L
  BY <1>2, LogTypes
<1>6. L + 1 .. L + 1 = {L + 1}
  OBVIOUS
<1> QED
  BY <1>1, <1>2, <1>3, <1>4, <1>5, <1>6 DEF Grows

\* The client's step keeps Sync.
LEMMA SentSync ==
    ASSUME IInv, NEW c \in Conns, Sync(c), NEW L, NEW N, Grows(c, L, N), Unasked(c),
           cl[c] # "off", cl'[c] # "off",
           HandshakeFirst(c)', RequestsBegin(c)', LastSent(c)', UnreadInsert(c)',
           cl'[c] = "gone" => replies'[c] = <<>>,
           cl'[c] # "gone" /\ ~desync[c] => InPhase(c)'
    PROVE  Sync(c)'
<1>1. LogSync(c)'
  BY DEF LogSync
<1>2. ReaderPlace(c)'
  BY GrownReader DEF Sync
<1>3. ConfirmedAcked(c)'
  BY DEF Sync, Unasked, ConfirmedAcked
<1> QED
  BY <1>1, <1>2, <1>3 DEF Sync, Dialogue, Unasked

LEMMA SendGrows ==
    ASSUME IInv, NEW c \in Conns, NEW ps \in Seq(Packets), Send(c, ps), wire[c] # <<>>
    PROVE  \E L \in Nat \ {0} :
              /\ L = Len(wire[c]) /\ Grows(c, L, L + Len(ps))
              /\ \A k \in 1 .. Len(ps) : wire'[c][L + k] = ps[k]
<1>1. PICK L \in Nat : L = Len(wire[c])
  BY LogTypes
<1>2. L # 0
  BY <1>1, LogTypes
<1>3. Len(ps) \in Nat
  OBVIOUS
<1>4. /\ DOMAIN wire'[c] = 1 .. L + Len(ps) /\ Len(wire'[c]) = L + Len(ps)
      /\ \A k \in 1 .. Len(ps) : wire'[c][L + k] = ps[k]
      /\ \A i \in DOMAIN wire[c] : wire'[c][i] = wire[c][i]
  BY <1>1, Longer
<1>5. DOMAIN wire[c] = 1 .. L
  BY <1>1, LogTypes
<1>6. L + Len(ps) \in Nat /\ L <= L + Len(ps)
  BY <1>3
<1>7. Grows(c, L, L + Len(ps))
  BY <1>1, <1>2, <1>4, <1>5, <1>6 DEF Grows
<1> QED
  BY <1>1, <1>2, <1>4, <1>7

\* A request that is sent now is behind all others.
LEMMA FreshRequest ==
    ASSUME IInv, NEW c \in Conns, NEW L, NEW N, Grows(c, L, N)
    PROVE  /\ nreq[c] \in Nat
           /\ \A j \in 1 .. L : /\ wire[c][j].q <= nreq[c] /\ wire[c][j].q \in Int
                                /\ wire[c][j].q # nreq[c] + 1
                                /\ wire'[c][j].q < nreq[c] + 1
<1>1. nreq[c] \in Nat
  BY ClientFacts, BoundsAssumption
<1>2. \A j \in 1 .. L : wire[c][j].q <= nreq[c] /\ wire[c][j].q \in Int
  BY LogTypes DEF IInv, LogInv, RequestsInOrder, Grows
<1> QED
  BY <1>1, <1>2 DEF Grows

LEMMA SendPingSync ==
    ASSUME IInv, NEW c \in Conns, Sync(c), SendPing(c)
    PROVE  Sync(c)'
<1> DEFINE p == Packet("Ping", "-", nreq[c] + 1, 0, FALSE)
<1>1. /\ cl[c] = "idle" /\ cl'[c] = "pinging" /\ nreq'[c] = nreq[c] + 1
      /\ nreq[c] \in Nat /\ nreq[c] + 1 \in 0 .. MaxRequests
      /\ Send(c, <<p>>) /\ Unasked(c) /\ replies' = replies
  BY ClientFacts, BoundsAssumption DEF SendPing, Become, server, request, reader, Unasked
<1>2. p \in Packets
  BY <1>1, BoundsAssumption DEF Packets, PacketKinds, Packet
<1>3. p.code = "Ping" /\ p.q = nreq[c] + 1 /\ p.comp = FALSE
  BY DEF Packet
<1> HIDE DEF p
<1>4. wire[c] # <<>>
  BY <1>1, ClientFacts DEF ClientPlace
<1>5. PICK L \in Nat \ {0} :
         /\ L = Len(wire[c]) /\ Grows(c, L, L + 1)
         /\ wire'[c][L + 1] = p /\ L + 1 .. L + 1 = {L + 1}
  BY <1>1, <1>2, <1>4, Appended
<1>6. \A i \in L + 1 .. L + 1 : i = L + 1 /\ wire'[c][i] = p
  BY <1>5
<1>7. HandshakeFirst(c)'
  BY <1>1, <1>3, <1>5, <1>6, GrownHandshake DEF Sync, LogSync
<1>8. RequestsBegin(c)'
  <2>1. \A j \in 1 .. (L + 1) - 1 : wire'[c][j].q < p.q
    <3>1. (L + 1) - 1 = L
      OBVIOUS
    <3> QED
      BY <1>3, <1>5, <3>1, FreshRequest
  <2>2. \A j \in 1 .. L : wire[c][j].q # p.q
    BY <1>3, <1>5, FreshRequest
  <2> QED
    BY <1>1, <1>3, <1>5, <1>6, <2>1, <2>2, GrownBegins DEF Sync, LogSync
<1>9. LastSent(c)'
  <2>1. Len(wire'[c]) = L + 1 /\ L + 1 > 0
    BY <1>5 DEF Grows
  <2> QED
    BY <1>1, <1>3, <1>5, <2>1 DEF LastSent
<1>10. UnreadInsert(c)'
  <2>1. \A i \in L + 1 .. L + 1 : ~OfInsert(c, i)'
    BY <1>3, <1>6 DEF OfInsert
  <2> QED
    BY <1>1, <1>5, <2>1, GrownUnread DEF Sync
<1>11. ASSUME ~desync[c]
       PROVE  InPhase(c)'
  <2>1. Resting(c)
    BY <1>1, <1>11 DEF Sync, Dialogue, InPhase, Greeting, Resting, Ahead, InHand, Answered,
       CutOff
  <2>2. Begins(c, L + 1)'
    BY <1>3, <1>5 DEF Begins
  <2>3. Unserved(c)' = {L + 1}
    <3>1. Unserved(c)' = Unserved(c) \cup {i \in L + 1 .. L + 1 : Begins(c, i)'}
      BY <1>1, <1>5, GrownUnserved DEF Sync
    <3> QED
      BY <1>5, <2>1, <2>2, <3>1 DEF Resting
  <2>4. Ahead(c)'
    BY <1>1, <1>3, <1>5, <2>1, <2>3 DEF Ahead, Resting, Unasked
  <2> QED
    BY <2>4 DEF InPhase
<1> QED
  BY <1>1, <1>5, <1>7, <1>8, <1>9, <1>10, <1>11, SentSync

LEMMA SendQuerySync ==
    ASSUME IInv, NEW c \in Conns, Sync(c), NEW k \in Kinds, NEW z \in Compressions,
           SendQuery(c, k, z)
    PROVE  Sync(c)'
<1> DEFINE p == Packet("Query", k, nreq[c] + 1, 0, z)
           b == Packet("Data", "-", nreq[c] + 1, 0, z)
<1>1. /\ cl[c] = "idle" /\ nreq'[c] = nreq[c] + 1
      /\ cl'[c] = IF k \in InsertKinds THEN "header" ELSE "awaiting"
      /\ nreq[c] \in Nat /\ nreq[c] + 1 \in 0 .. MaxRequests
      /\ Send(c, <<p, b>>) /\ Unasked(c) /\ replies' = replies
  BY ClientFacts, BoundsAssumption DEF SendQuery, Become, server, request, reader, Unasked
<1>2. p \in Packets /\ b \in Packets
  BY <1>1, BoundsAssumption, InputsAssumption
     DEF Packets, PacketKinds, AllKinds, InsertKinds, Packet
<1>3. /\ p.code = "Query" /\ p.q = nreq[c] + 1 /\ p.kind = k /\ p.comp = z
      /\ b.code = "Data" /\ b.q = nreq[c] + 1 /\ b.n = 0 /\ b.comp = z
  BY DEF Packet
<1> HIDE DEF p, b
<1>4. wire[c] # <<>>
  BY <1>1, ClientFacts DEF ClientPlace
<1>5. PICK L \in Nat \ {0} :
         /\ L = Len(wire[c]) /\ Grows(c, L, L + 2)
         /\ wire'[c][L + 1] = p /\ wire'[c][L + 2] = b
  <2>1. /\ <<p, b>> \in Seq(Packets) /\ Len(<<p, b>>) = 2
        /\ <<p, b>>[1] = p /\ <<p, b>>[2] = b
    BY <1>2
  <2>2. PICK L \in Nat \ {0} :
           /\ L = Len(wire[c]) /\ Grows(c, L, L + 2)
           /\ \A i \in 1 .. 2 : wire'[c][L + i] = <<p, b>>[i]
    BY <1>1, <1>4, <2>1, SendGrows
  <2> QED
    BY <2>1, <2>2
<1>6. \A i \in L + 1 .. L + 2 :
         \/ i = L + 1 /\ wire'[c][i] = p
         \/ i = L + 2 /\ wire'[c][i] = b
  <2>1. L + 1 .. L + 2 = {L + 1, L + 2}
    OBVIOUS
  <2> QED
    BY <1>5, <2>1
<1>7. HandshakeFirst(c)'
  <2>1. cl'[c] # "greet"
    BY <1>1
  <2> QED
    BY <1>1, <1>3, <1>5, <1>6, <2>1, GrownHandshake DEF Sync, LogSync
<1>8. ~Ends(c, L + 2)' /\ ~OfInsert(c, L + 2)' /\ ~Ends(c, L + 1)' /\ ~OfInsert(c, L + 1)'
  <2>1. (L + 2) - 1 = L + 1
    OBVIOUS
  <2> QED
    BY <1>3, <1>5, <2>1 DEF Ends, OfInsert
<1>9. Begins(c, L + 1)' /\ ~Begins(c, L + 2)'
  BY <1>3, <1>5 DEF Begins
<1>10. RequestsBegin(c)'
  <2>1. \A j \in 1 .. (L + 1) - 1 : wire'[c][j].q < p.q
    <3>1. (L + 1) - 1 = L
      OBVIOUS
    <3> QED
      BY <1>3, <1>5, <3>1, FreshRequest
  <2>2. \A j \in 1 .. L : wire[c][j].q # p.q /\ wire[c][j].q # b.q
    BY <1>3, <1>5, FreshRequest
  <2>3. RequestsBegin(c)
    BY DEF Sync, LogSync
  <2>4. ASSUME NEW i \in L + 1 .. L + 2
        PROVE  /\ Begins(c, i)' => \A j \in 1 .. i - 1 : wire'[c][j].q < wire'[c][i].q
               /\ ~Ends(c, i)'
               /\ wire'[c][i].code # "Cancel"
               /\ \A j \in 1 .. L : wire[c][j].q # wire'[c][i].q
    <3>1. CASE i = L + 1 /\ wire'[c][i] = p
      BY <1>3, <1>8, <2>1, <2>2, <3>1
    <3>2. CASE i = L + 2 /\ wire'[c][i] = b
      BY <1>3, <1>8, <1>9, <2>2, <3>2
    <3> QED
      BY <1>6, <3>1, <3>2
  <2> QED
    BY <1>1, <1>5, <2>3, <2>4, GrownBegins
<1>11. /\ Len(wire'[c]) = L + 2 /\ (L + 2) - 1 = L + 1 /\ L + 2 > 1
  BY <1>5 DEF Grows
<1>12. LastSent(c)'
  BY <1>1, <1>3, <1>5, <1>11 DEF LastSent
<1>13. UnreadInsert(c)'
  BY <1>1, <1>5, <1>6, <1>8, GrownUnread DEF Sync
<1>14. ASSUME ~desync[c]
       PROVE  InPhase(c)'
  <2>1. Resting(c)
    BY <1>1, <1>14 DEF Sync, Dialogue, InPhase, Greeting, Resting, Ahead, InHand, Answered,
       CutOff
  <2>2. Unserved(c)' = {L + 1}
    <3>1. Unserved(c)' = Unserved(c) \cup {i \in L + 1 .. L + 2 : Begins(c, i)'}
      BY <1>1, <1>5, GrownUnserved DEF Sync
    <3>2. L + 1 \in L + 1 .. L + 2
      OBVIOUS
    <3> QED
      BY <1>6, <1>9, <2>1, <3>1, <3>2 DEF Resting
  <2>3. cl'[c] \in {"pinging", "awaiting", "header"}
    BY <1>1
  <2>4. Ahead(c)'
    BY <1>1, <1>3, <1>5, <2>1, <2>2, <2>3 DEF Ahead, Resting, Unasked
  <2> QED
    BY <2>4 DEF InPhase
<1>15. cl'[c] \notin {"off", "gone"}
  BY <1>1
<1> QED
  BY <1>1, <1>5, <1>7, <1>10, <1>12, <1>13, <1>14, <1>15, SentSync

\* A block of an INSERT, or the blank one behind its blocks.
LEMMA SendDataSync ==
    ASSUME IInv, NEW c \in Conns, Sync(c), SendBlock(c) \/ SendEnd(c)
    PROVE  Sync(c)'
<1>1. PICK n \in 0 .. MaxBlocks :
         /\ Send(c, <<Packet("Data", "-", nreq[c], n, RequestComp(c))>>)
         /\ \/ cl'[c] = "sending"
            \/ cl'[c] = "ending" /\ n = 0
  <2>1. CASE SendBlock(c)
    <3>1. sent[c] + 1 \in 0 .. MaxBlocks /\ cl'[c] = "sending"
      BY <2>1, SendBlockSends, BoundsAssumption
    <3> QED
      BY <2>1, <3>1 DEF SendBlock
  <2>2. CASE SendEnd(c)
    <3>1. 0 \in 0 .. MaxBlocks /\ cl'[c] = "ending"
      BY <2>2, ClientFacts, BoundsAssumption DEF SendEnd, Become
    <3> QED
      BY <2>2, <3>1 DEF SendEnd
  <2> QED
    BY <2>1, <2>2
<1> DEFINE p == Packet("Data", "-", nreq[c], n, RequestComp(c))
<1>2. /\ cl[c] = "sending" /\ nreq'[c] = nreq[c] /\ Unasked(c) /\ replies' = replies
  BY DEF SendBlock, SendEnd, server, request, reader, Unasked
<1>3. wire[c] # <<>>
  BY <1>2, ClientFacts DEF ClientPlace
<1>4. p \in Packets
  BY <1>1, <1>3, ClientFacts, BoundsAssumption DEF Packets, PacketKinds, Packet
<1>5. p.code = "Data" /\ p.q = nreq[c] /\ p.n = n /\ p.comp = RequestComp(c)
  BY DEF Packet
<1>6. Send(c, <<p>>)
  BY <1>1
<1> HIDE DEF p
<1>7. PICK L \in Nat \ {0} :
         /\ L = Len(wire[c]) /\ Grows(c, L, L + 1)
         /\ wire'[c][L + 1] = p /\ L + 1 .. L + 1 = {L + 1}
  BY <1>3, <1>4, <1>6, Appended
<1>8. \A i \in L + 1 .. L + 1 : i = L + 1 /\ wire'[c][i] = p
  BY <1>7
<1>9. HandshakeFirst(c)'
  BY <1>1, <1>2, <1>5, <1>7, <1>8, GrownHandshake DEF Sync, LogSync
<1>10. ~Begins(c, L + 1)'
  BY <1>5, <1>7 DEF Begins
<1>11. RequestsBegin(c)'
  <2>1. \A j \in 1 .. L : Ends(c, j) => wire[c][j].q # p.q
    BY <1>2, <1>5, <1>7 DEF IInv, LogInv, OpenInsert, Grows
  <2>2. RequestsBegin(c)
    BY DEF Sync, LogSync
  <2> QED
    BY <1>2, <1>5, <1>7, <1>8, <1>10, <2>1, <2>2, GrownBegins
<1>12. LastSent(c)'
  <2>1. Len(wire'[c]) = L + 1 /\ L + 1 > 1 /\ (L + 1) - 1 = L
    BY <1>7 DEF Grows
  <2>2. wire'[c][L].code # "Query"
    <3>1. L \in DOMAIN wire[c] /\ L + 1 \notin DOMAIN wire[c] /\ wire'[c][L] = wire[c][L]
      BY <1>7 DEF Grows
    <3> QED
      BY <3>1 DEF IInv, LogInv, BlankBehindQuery
  <2>3. n = 0 => Ends(c, L + 1)'
    BY <1>5, <1>7, <2>1, <2>2 DEF Ends
  <2> QED
    BY <1>1, <2>1, <2>3 DEF LastSent
<1>13. ASSUME ~desync[c]
       PROVE  \/ InHand(c) /\ pc[c] \in {"insread", "inswrite"} /\ replies[c] = <<>>
              \/ Answered(c) /\ failed[c] /\ replies[c] = <<Owed(c, "Exception")>>
              \/ CutOff(c) /\ replies[c] = <<>>
  BY <1>2, <1>13 DEF Sync, Dialogue, InPhase, Greeting, Resting, Ahead, InHand, Answered,
     CutOff
<1>14. UnreadInsert(c)'
  <2>1. ~desync[c] /\ ~failed[c] =>
           \/ pc[c] \in {"insread", "inswrite"} /\ p.q = cur[c]
           \/ pc[c] = "closed"
    BY <1>5, <1>13 DEF InHand, CutOff
  <2> QED
    BY <1>2, <1>7, <1>8, <2>1, GrownUnread DEF Sync
<1>15. ASSUME ~desync[c]
       PROVE  InPhase(c)'
  <2>1. Unserved(c)' = Unserved(c)
    <3>1. Unserved(c)' = Unserved(c) \cup {i \in L + 1 .. L + 1 : Begins(c, i)'}
      BY <1>2, <1>7, GrownUnserved DEF Sync
    <3> QED
      BY <1>7, <1>10, <3>1
  <2>2. RequestComp(c)' = RequestComp(c) /\ \A code : Owed(c, code)' = Owed(c, code)
    <3>1. Len(wire'[c]) = L + 1
      BY <1>7 DEF Grows
    <3>2. RequestComp(c)' = RequestComp(c)
      BY <1>5, <1>7, <3>1 DEF RequestComp
    <3> QED
      BY <1>2, <3>2 DEF Owed
  <2>3. CASE InHand(c) /\ pc[c] \in {"insread", "inswrite"} /\ replies[c] = <<>>
    <3>1. InHand(c)'
      BY <1>1, <1>2, <2>1, <2>2, <2>3 DEF InHand, Unasked
    <3> QED
      BY <3>1 DEF InPhase
  <2>4. CASE Answered(c) /\ failed[c] /\ replies[c] = <<Owed(c, "Exception")>>
    <3>1. Answered(c)'
      BY <1>1, <1>2, <2>1, <2>2, <2>4 DEF Answered, Unasked
    <3> QED
      BY <3>1 DEF InPhase
  <2>5. CASE CutOff(c) /\ replies[c] = <<>>
    <3>1. CutOff(c)'
      BY <1>1, <1>2, <2>5 DEF CutOff, Unasked
    <3> QED
      BY <3>1 DEF InPhase
  <2> QED
    BY <1>13, <1>15, <2>3, <2>4, <2>5
<1> QED
  BY <1>1, <1>2, <1>7, <1>9, <1>11, <1>12, <1>14, <1>15, SentSync

LEMMA CancelSync ==
    ASSUME IInv, NEW c \in Conns, Sync(c), Cancel(c)
    PROVE  Sync(c)'
<1> DEFINE p == Packet("Cancel", "-", nreq[c], 0, FALSE)
<1>1. /\ cl[c] \in {"awaiting", "header", "sending", "ending"} /\ cl'[c] = "gone"
      /\ replies'[c] = <<>> /\ Send(c, <<p>>) /\ Unasked(c)
  BY ClientFacts DEF Cancel, HangUp, Become, server, request, reader, Unasked
<1>2. p \in Packets
  BY ClientFacts, BoundsAssumption DEF Packets, PacketKinds, Packet
<1>3. p.code = "Cancel"
  BY DEF Packet
<1> HIDE DEF p
<1>4. wire[c] # <<>>
  BY <1>1, ClientFacts DEF ClientPlace
<1>5. PICK L \in Nat \ {0} :
         /\ L = Len(wire[c]) /\ Grows(c, L, L + 1)
         /\ wire'[c][L + 1] = p /\ L + 1 .. L + 1 = {L + 1}
  BY <1>1, <1>2, <1>4, Appended
<1>6. \A i \in L + 1 .. L + 1 : i = L + 1 /\ wire'[c][i] = p
  BY <1>5
<1>7. HandshakeFirst(c)'
  BY <1>1, <1>3, <1>5, <1>6, GrownHandshake DEF Sync, LogSync
<1>8. RequestsBegin(c)'
  <2>1. RequestsBegin(c) /\ ~Begins(c, L + 1)'
    BY <1>3, <1>5 DEF Sync, LogSync, Begins
  <2> QED
    BY <1>1, <1>3, <1>5, <1>6, <2>1, GrownBegins
<1>9. LastSent(c)'
  BY <1>1 DEF LastSent
<1>10. UnreadInsert(c)'
  <2>1. \A i \in L + 1 .. L + 1 : ~OfInsert(c, i)'
    BY <1>3, <1>6 DEF OfInsert
  <2> QED
    BY <1>1, <1>5, <2>1, GrownUnread DEF Sync
<1> QED
  BY <1>1, <1>5, <1>7, <1>8, <1>9, <1>10, SentSync

\* The client has read ServerHello, and sends the addendum if it has quota keys.
LEMMA GetHelloSync ==
    ASSUME IInv, NEW c \in Conns, Sync(c), GetHello(c)
    PROVE  Sync(c)'
<1> DEFINE p == Packet("Addendum", "-", 0, 0, FALSE)
           ps == IF wire[c][1].kind = "quota" THEN <<p>> ELSE <<>>
<1>1. /\ cl[c] = "greet" /\ cl'[c] = "idle" /\ Send(c, ps) /\ Unasked(c)
      /\ replies[c] # <<>> /\ replies'[c] = Tail(replies[c])
  BY ClientFacts DEF GetHello, Receives, Become, server, request, reader, Unasked
<1>2. p \in Packets /\ p.code = "Addendum"
  BY BoundsAssumption DEF Packets, PacketKinds, Packet
<1> HIDE DEF p
<1>3. wire[c] # <<>> /\ Len(wire[c]) = 1
  BY <1>1, ClientFacts DEF ClientPlace, Sync, LogSync, HandshakeFirst
<1>4. PICK N \in {1, 2} :
         /\ Grows(c, 1, N)
         /\ N = 1 => wire[c][1].kind # "quota"
         /\ N = 2 => wire[c][1].kind = "quota" /\ wire'[c][2] = p
  <2>1. CASE wire[c][1].kind = "quota"
    <3>1. Send(c, <<p>>)
      BY <1>1, <2>1
    <3>2. PICK L \in Nat \ {0} :
             L = Len(wire[c]) /\ Grows(c, L, L + 1) /\ wire'[c][L + 1] = p
      BY <1>2, <1>3, <3>1, Appended
    <3>3. L = 1 /\ L + 1 = 2
      BY <1>3, <3>2
    <3>4. Grows(c, 1, 2) /\ wire'[c][2] = p
      BY <3>2, <3>3
    <3>5. 2 \in {1, 2} /\ 2 # 1
      OBVIOUS
    <3> QED
      BY <2>1, <3>4, <3>5
  <2>2. CASE wire[c][1].kind # "quota"
    <3>1. <<>> \in Seq(Packets) /\ Len(<<>>) = 0 /\ Send(c, <<>>)
      BY <1>1, <2>2
    <3>2. PICK L \in Nat \ {0} : L = Len(wire[c]) /\ Grows(c, L, L + Len(<<>>))
      BY <1>3, <3>1, SendGrows
    <3>3. L = 1 /\ L + Len(<<>>) = 1
      BY <1>3, <3>1, <3>2
    <3>4. Grows(c, 1, 1)
      BY <3>2, <3>3
    <3>5. 1 \in {1, 2} /\ 1 # 2
      OBVIOUS
    <3> QED
      BY <2>2, <3>4, <3>5
  <2> QED
    BY <2>1, <2>2
<1> HIDE DEF ps
<1>5. /\ DOMAIN wire[c] = {1} /\ wire'[c][1] = wire[c][1] /\ wire[c][1].code = "Hello"
      /\ DOMAIN wire'[c] = 1 .. N /\ Len(wire'[c]) = N
      /\ \A i \in 1 .. N : i = 1 \/ (i = 2 /\ N = 2)
  <2>1. 1 .. 1 = {1} /\ 1 \in 1 .. 1 /\ N \in Nat /\ (N = 1 \/ N = 2)
    BY <1>4
  <2>2. /\ DOMAIN wire[c] = {1} /\ wire'[c][1] = wire[c][1]
        /\ DOMAIN wire'[c] = 1 .. N /\ Len(wire'[c]) = N
    BY <1>4, <2>1 DEF Grows
  <2>3. wire[c][1].code = "Hello"
    BY <2>2 DEF Sync, LogSync, HandshakeFirst
  <2>4. \A i \in 1 .. N : i = 1 \/ (i = 2 /\ N = 2)
    BY <2>1
  <2> QED
    BY <2>2, <2>3, <2>4
<1>6. \A i \in 1 .. N : /\ ~Begins(c, i)' /\ ~Ends(c, i)' /\ ~OfInsert(c, i)'
                        /\ wire'[c][i].code # "Cancel"
  BY <1>2, <1>4, <1>5 DEF Begins, Ends, OfInsert
<1>7. HandshakeFirst(c)'
  <2>1. ASSUME NEW i \in 1 .. N
        PROVE  /\ wire'[c][i].code = "Hello" <=> i = 1
               /\ wire'[c][i].code = "Addendum" <=> i = 2 /\ wire'[c][1].kind = "quota"
    BY <1>2, <1>4, <1>5
  <2>2. N > 1 \/ wire'[c][1].kind # "quota"
    BY <1>4, <1>5
  <2> QED
    BY <1>1, <1>5, <2>1, <2>2 DEF HandshakeFirst
<1>8. RequestsBegin(c)'
  BY <1>5, <1>6 DEF RequestsBegin
<1>9. LastSent(c)'
  BY <1>1 DEF LastSent
<1>10. \A i \in 1 + 1 .. N : i \in 1 .. N
  BY <1>4
<1>11. UnreadInsert(c)'
  BY <1>1, <1>4, <1>6, <1>10, GrownUnread DEF Sync
<1>12. ASSUME ~desync[c]
       PROVE  InPhase(c)'
  <2>1. Greeting(c)
    BY <1>1, <1>12 DEF Sync, Dialogue, InPhase, Greeting, Resting, Ahead, InHand, Answered,
       CutOff
  <2>2. replies'[c] = <<>> /\ pc[c] \in {"addendum", "loop", "read", "closed"}
    BY <1>1, <2>1, SequenceFacts DEF Greeting
  <2>3. Unserved(c)' = {}
    <3>1. Unserved(c)' = Unserved(c) \cup {i \in 1 + 1 .. N : Begins(c, i)'}
      BY <1>1, <1>4, GrownUnserved DEF Sync
    <3>2. Unserved(c) = {}
      <4>1. ~Begins(c, 1) /\ rd[c] \in Nat \ {0}
        BY <1>5, LogTypes DEF Begins
      <4> QED
        BY <1>3, <4>1 DEF Unserved
    <3> QED
      BY <1>6, <1>10, <3>1, <3>2
  <2>4. Resting(c)'
    BY <1>1, <2>2, <2>3 DEF Resting, Unasked
  <2> QED
    BY <2>4 DEF InPhase
<1> QED
  BY <1>1, <1>4, <1>7, <1>8, <1>9, <1>11, <1>12, SentSync

LEMMA ConnectSync ==
    ASSUME IInv, NEW c \in Conns, Sync(c), Connect(c)
    PROVE  Sync(c)'
<1>1. PICK v \in Versions : Send(c, <<Packet("Hello", v, 0, 0, FALSE)>>)
  BY DEF Connect
<1> DEFINE p == Packet("Hello", v, 0, 0, FALSE)
<1>2. /\ cl[c] = "off" /\ cl'[c] = "greet" /\ pc'[c] = "backlog"
      /\ UNCHANGED <<rd, left, replies, desync, failed, acked, confirmed>>
  BY ClientFacts, Goes DEF Connect, Become, reader, sink, history
<1>3. wire[c] = <<>> /\ pc[c] = "off" /\ replies[c] = <<>>
  BY <1>2, ClientFacts DEF ClientPlace, Sync, Dialogue
<1>4. p \in Packets /\ p.code = "Hello" /\ Send(c, <<p>>)
  BY <1>1, BoundsAssumption, InputsAssumption DEF Packets, PacketKinds, Packet
<1> HIDE DEF p
<1>5. DOMAIN wire'[c] = {1} /\ Len(wire'[c]) = 1 /\ wire'[c][1] = p
  <2>1. wire'[c] = <<>> \o <<p>>
    BY <1>3, <1>4 DEF Send, IInv, TypeOK, ClientTypeOK
  <2>2. <<>> \o <<p>> = <<p>>
    BY <1>4
  <2> QED
    BY <2>1, <2>2
<1>6. LogSync(c)'
  <2>1. HandshakeFirst(c)'
    BY <1>2, <1>4, <1>5 DEF HandshakeFirst
  <2>2. RequestsBegin(c)'
    BY <1>4, <1>5 DEF RequestsBegin, Begins, Ends
  <2>3. LastSent(c)'
    BY <1>2 DEF LastSent
  <2> QED
    BY <2>1, <2>2, <2>3 DEF LogSync
<1>7. rd'[c] = 1 /\ ReaderPlace(c)'
  <2>1. rd[c] = 1 /\ (left[c] > 0 => desync[c])
    BY <1>3 DEF Sync, ReaderPlace
  <2> QED
    BY <1>2, <1>5, <2>1 DEF ReaderPlace, InRequest
<1>8. UnreadInsert(c)'
  BY <1>5, <1>7 DEF UnreadInsert, OfInsert
<1>9. Dialogue(c)'
  BY <1>2, <1>3 DEF Dialogue, InPhase, Greeting
<1>10. ConfirmedAcked(c)'
  BY <1>2 DEF Sync, ConfirmedAcked
<1> QED
  BY <1>6, <1>7, <1>8, <1>9, <1>10 DEF Sync

LEMMA ClientKeepsSync ==
    ASSUME IInv, NEW c \in Conns, Sync(c), ClientNext(c)
    PROVE  Sync(c)'
BY ConnectSync, GetHelloSync, GetPongSync, GetDataSync, GetEndSync, GetExceptionSync,
   LeaveSync, SendPingSync, SendQuerySync, SendDataSync, CancelSync
   DEF ClientNext, ClientReads

\* A client leaves the other connections alone.
LEMMA ClientStays ==
    ASSUME IInv, NEW c \in Conns, ClientNext(c)
    PROVE  \A d \in Conns \ {c} : Same(d) /\ SameHistory(d) /\ pc'[d] = pc[d]
<1>1. \/ confirmed' = confirmed
      \/ confirmed' = confirmed \cup {<<c, nreq[c]>>}
  BY DEF ClientNext, ClientReads, Connect, GetHello, GetPong, GetData, GetEnd, GetException,
     GetWrongReply, SendPing, SendQuery, SendBlock, SendEnd, Cancel, Leave, SeeClose, history
<1> QED
  BY <1>1, ClientFootprint DEF Same, SameHistory, request, reader

-----------------------------------------------------------------------------
\* All steps.

LEMMA InitSync == Init => SyncInv
<1> SUFFICES ASSUME Init, NEW c \in Conns
             PROVE  Sync(c)
  BY DEF SyncInv
<1>1. /\ wire[c] = <<>> /\ replies[c] = <<>> /\ pc[c] = "off" /\ cl[c] = "off"
      /\ rd[c] = 1 /\ left[c] = 0 /\ confirmed = {} /\ ~desync[c]
  BY DEF Init
<1>2. LogSync(c)
  BY <1>1 DEF LogSync, HandshakeFirst, RequestsBegin, LastSent
<1>3. ReaderPlace(c)
  BY <1>1 DEF ReaderPlace, InRequest
<1>4. UnreadInsert(c) /\ Dialogue(c) /\ ConfirmedAcked(c)
  BY <1>1 DEF UnreadInsert, Dialogue, ConfirmedAcked
<1> QED
  BY <1>2, <1>3, <1>4 DEF Sync

\* The process ends connections, and touches nothing else.
LEMMA ProcessSync ==
    ASSUME IInv, SyncInv, ProcessNext \/ \E c \in Conns : PanicOnQuery(c)
    PROVE  SyncInv'
<1> SUFFICES ASSUME NEW c \in Conns
             PROVE  Sync(c)'
  BY DEF SyncInv
<1>1. UNCHANGED <<request, reader, wire, replies, client, sink, history>>
  BY ProcessFootprint DEF PanicOnQuery
<1>2. \/ pc'[c] = pc[c]
      \/ pc[c] # "off" /\ pc'[c] = "closed"
  BY DEF ProcessNext, Signal, CloseListener, AcceptAfterClose, AcceptError, Exit,
     PanicOnQuery, StopListening, EndProcess
<1>3. Same(c) /\ SameHistory(c)
  BY <1>1 DEF request, reader, client, history, Same, SameHistory
<1> QED
  BY <1>2, <1>3, SyncFixed DEF SyncInv

LEMMA SyncInductive ==
    ASSUME IInv, SyncInv, [Next]_vars
    PROVE  SyncInv'
<1>1. CASE UNCHANGED vars \/ SinkNext
  <2>1. \A c \in Conns : Same(c) /\ SameHistory(c) /\ pc'[c] = pc[c]
    BY <1>1 DEF vars, SinkNext, Settle, request, reader, client, history, Same, SameHistory
  <2> QED
    BY <2>1, SyncFixed DEF SyncInv
<1>2. CASE ProcessNext
  BY <1>2, ProcessSync
<1>3. ASSUME NEW c \in Conns, HandlerNext(c)
      PROVE  SyncInv'
  <2>1. CASE PanicOnQuery(c)
    BY <2>1, ProcessSync
  <2>2. CASE ~PanicOnQuery(c)
    <3>1. Sync(c)'
      BY <1>3, <2>2, HandlerKeepsSync DEF SyncInv
    <3>2. \A d \in Conns \ {c} : Sync(d)'
      BY <1>3, <2>2, HandlerStays, SyncFixed DEF SyncInv
    <3> QED
      BY <3>1, <3>2 DEF SyncInv
  <2> QED
    BY <2>1, <2>2
<1>4. ASSUME NEW c \in Conns, ClientNext(c)
      PROVE  SyncInv'
  <2>1. Sync(c)'
    BY <1>4, ClientKeepsSync DEF SyncInv
  <2>2. \A d \in Conns \ {c} : Sync(d)'
    BY <1>4, ClientStays, SyncFixed DEF SyncInv
  <2> QED
    BY <2>1, <2>2 DEF SyncInv
<1> QED
  BY <1>1, <1>2, <1>3, <1>4 DEF Next

\* As long as the reader has the packet boundaries, client and handler are in one
\* phase of the dialogue together (handle, server.go:75; handleInsert,
\* insert.go:39).
THEOREM DialogueInvariance == Spec => []SyncInv
<1>1. IInv /\ SyncInv /\ [Next]_vars => SyncInv'
  BY SyncInductive
<1> QED
  BY <1>1, InitSync, Invariance, PTL DEF Spec

-----------------------------------------------------------------------------
\* What follows.

LEMMA PhasesMatchRequests == IInv /\ SyncInv => RepliesMatchRequests
<1> SUFFICES ASSUME SyncInv, NEW c \in Conns, ~desync[c], NEW i \in DOMAIN replies[c]
             PROVE  LET r == replies[c][i]
                    IN  \/ r.code = "Hello"
                        \/ r.q = nreq[c] /\ r.comp = RequestComp(c)
  BY DEF RepliesMatchRequests
<1>1. Dialogue(c)
  BY DEF SyncInv, Sync
<1>2. \A r : /\ DOMAIN <<r>> = {1} /\ <<r>>[1] = r
             /\ \A s : DOMAIN <<r, s>> = {1, 2} /\ <<r, s>>[1] = r /\ <<r, s>>[2] = s
  OBVIOUS
<1>3. DOMAIN <<>> = {}
  OBVIOUS
<1>4. \A code : Owed(c, code).q = nreq[c] /\ Owed(c, code).comp = RequestComp(c)
  BY DEF Owed, Reply
<1>5. Hello.code = "Hello"
  BY DEF Hello, Reply
<1>6. \/ replies[c] = <<>> \/ replies[c] = <<Hello>>
      \/ \E code : replies[c] = <<Owed(c, code)>>
      \/ \E code, then : replies[c] = <<Owed(c, code), Owed(c, then)>>
  BY <1>1 DEF Dialogue, InPhase, Greeting, Resting, Ahead, InHand, Answered, CutOff
<1>7. \/ replies[c][i] = Hello
      \/ \E code : replies[c][i] = Owed(c, code)
  BY <1>2, <1>3, <1>6
<1> QED
  BY <1>4, <1>5, <1>7

\* Whatever a client is about to read answers the request it waits for, in the
\* compression that request asked for (server.go:133-136).
THEOREM RepliesMatch == Spec => []RepliesMatchRequests
BY PhasesMatchRequests, Invariance, DialogueInvariance, PTL

LEMMA PhasesMakeProgress == IInv /\ SyncInv => NoMutualWait
<1> SUFFICES ASSUME IInv, SyncInv, NEW c \in Conns, ~desync[c], pc[c] \in ReadingPCs,
                    ~Arrived(c), cl[c] \in WaitingClients, replies[c] = <<>>
             PROVE  FALSE
  BY DEF NoMutualWait
<1>1. Sync(c)
  BY DEF SyncInv
<1>2. /\ rd[c] \in Nat \ {0} /\ Len(wire[c]) \in Nat /\ DOMAIN wire[c] = 1 .. Len(wire[c])
      /\ rd[c] > Len(wire[c])
  BY LogTypes DEF Arrived
<1>3. \/ Greeting(c) /\ pc[c] = "hello"
      \/ Ahead(c)
      \/ InHand(c) /\ pc[c] = "drain"
      \/ InHand(c) /\ pc[c] = "insread" /\ cl[c] = "ending"
  <2>1. <<Hello>> # <<>> /\ \A code : <<Owed(c, code)>> # <<>>
    BY SequenceFacts
  <2>2. \A code, then : <<Owed(c, code), Owed(c, then)>> # <<>>
    BY SequenceFacts
  <2> QED
    BY <1>1, <2>1, <2>2 DEF Sync, Dialogue, InPhase, Greeting, Resting, Ahead, InHand,
       Answered, CutOff, ReadingPCs, WaitingClients
<1>4. CASE Greeting(c) /\ pc[c] = "hello"
  <2>1. rd[c] = 1 /\ Len(wire[c]) = 1
    BY <1>1, <1>4 DEF Sync, ReaderPlace, LogSync, HandshakeFirst, Greeting
  <2> QED
    BY <1>2, <2>1
<1>5. CASE Ahead(c)
  BY <1>2, <1>5 DEF Ahead, Unserved
<1>6. CASE InHand(c) /\ pc[c] = "drain"
  <2>1. rd[c] - 1 \in DOMAIN wire[c] /\ wire[c][rd[c] - 1].code = "Query"
    BY <1>6 DEF IInv, HandlerInv, HandlerPlace, InRequest
  <2>2. (rd[c] - 1) + 1 \in DOMAIN wire[c]
    BY <2>1 DEF IInv, LogInv, BlankBehindQuery
  <2> QED
    BY <1>2, <2>2
<1>7. CASE InHand(c) /\ pc[c] = "insread" /\ cl[c] = "ending"
  <2>1. rd[c] - 1 \in 1 .. Len(wire[c]) /\ ~Ends(c, rd[c] - 1)
    BY <1>1, <1>7, BehindData DEF InRequest
  <2>2. Ends(c, Len(wire[c]))
    BY <1>1, <1>7 DEF Sync, LogSync, LastSent
  <2>3. rd[c] - 1 = Len(wire[c])
    BY <1>2, <2>1
  <2> QED
    BY <2>1, <2>2, <2>3
<1> QED
  BY <1>3, <1>4, <1>5, <1>6, <1>7

\* Client and handler never wait for each other with nothing under way.
THEOREM NobodyWaitsForNobody == Spec => []NoMutualWait
BY PhasesMakeProgress, Invariance, DialogueInvariance, PTL

LEMMA ConfirmedAckedStored == IInv /\ SyncInv => ConfirmedIsStored
<1> SUFFICES ASSUME IInv, SyncInv, NEW b \in Offered, b[1] \in confirmed,
                    ~desync[b[1][1]]
             PROVE  b \in stored
  BY DEF ConfirmedIsStored
<1>1. PICK c \in Conns, q \in 1 .. MaxRequests : b[1] = <<c, q>>
  BY DEF IInv, TypeOK, SinkTypeOK, Inserts
<1>2. ConfirmedAcked(c) /\ ~desync[c]
  BY <1>1 DEF SyncInv, Sync
<1>3. b[1] \in acked
  BY <1>1, <1>2 DEF ConfirmedAcked
<1>4. AckedInsertIsStored
  BY InvariantSuffices
<1> QED
  BY <1>3, <1>4 DEF AckedInsertIsStored

\* What a client takes for the confirmation of its INSERT is one: what it sent is
\* durable (insert.go:76, and the client's reading of EndOfStream).
THEOREM ConfirmedStored == Spec => []ConfirmedIsStored
BY ConfirmedAckedStored, Invariance, DialogueInvariance, PTL

\* Only ReadOther loses the packet boundaries, and what it finds is what a failed
\* INSERT has left unread.
LEMMA StrayPacket ==
    ASSUME IInv, SyncInv, NEW c \in Conns, ReadOther(c),
           desync[c] => failed[c]
    PROVE  desync'[c] => failed'[c]
<1>1. /\ pc[c] = "read" /\ Arrived(c) /\ wire[c][rd[c]].code \notin {"Ping", "Query"}
      /\ desync'[c] <=> desync[c] \/ wire[c][rd[c]].code # "Cancel"
      /\ failed'[c] = failed[c]
  BY DEF ReadOther, ReadsCode, At, NextPacket, IInv, TypeOK, SinkTypeOK
<1>2. ASSUME ~desync[c], ~failed[c], wire[c][rd[c]].code # "Cancel"
      PROVE  FALSE
  <2>1. /\ rd[c] \in DOMAIN wire[c] /\ DOMAIN wire[c] = 1 .. Len(wire[c])
        /\ Len(wire[c]) \in Nat /\ wire[c][rd[c]] \in Packets
    BY <1>1, LogTypes, PacketType
  <2>2. /\ rd[c] > 1 /\ (wire[c][1].kind = "quota" => rd[c] > 2)
        /\ wire[c][rd[c] - 1].code # "Query"
    BY <1>1, <1>2 DEF SyncInv, Sync, ReaderPlace
  <2>3. wire[c][rd[c]].code \notin {"Hello", "Addendum"}
    BY <2>1, <2>2 DEF SyncInv, Sync, LogSync, HandshakeFirst
  <2>4. wire[c][rd[c]].code = "Data"
    BY <1>1, <1>2, <2>1, <2>3 DEF Packets
  <2>5. OfInsert(c, rd[c]) /\ rd[c] \in rd[c] .. Len(wire[c])
    BY <2>1, <2>2, <2>4 DEF OfInsert
  <2>6. UnreadInsert(c)
    BY DEF SyncInv, Sync
  <2> QED
    BY <1>1, <1>2, <2>5, <2>6 DEF UnreadInsert
<1> QED
  BY <1>1, <1>2


\* Steps and the loss of the packet boundaries.
LEMMA DesyncStep ==
    ASSUME IInv, SyncInv, OnlyFailedInsertDesyncs, [Next]_vars
    PROVE  OnlyFailedInsertDesyncs'
<1>1. CASE UNCHANGED vars \/ SinkNext \/ ProcessNext
  BY <1>1, ProcessFootprint DEF vars, SinkNext, Settle, history, OnlyFailedInsertDesyncs
<1>2. ASSUME NEW c \in Conns, ClientNext(c)
      PROVE  OnlyFailedInsertDesyncs'
  BY <1>2, ClientFootprint DEF OnlyFailedInsertDesyncs
<1>3. ASSUME NEW c \in Conns, HandlerNext(c)
      PROVE  OnlyFailedInsertDesyncs'
  <2>1. CASE PanicOnQuery(c)
    BY <2>1 DEF PanicOnQuery, history, OnlyFailedInsertDesyncs
  <2>2. CASE ~PanicOnQuery(c)
    <3>1. \A d \in Conns \ {c} : desync'[d] = desync[d] /\ failed'[d] = failed[d]
      BY <1>3, <2>2, HandlerStays DEF Same
    <3>2. desync'[c] => failed'[c]
      <4>1. CASE ReadOther(c)
        BY <4>1, StrayPacket DEF OnlyFailedInsertDesyncs
      <4>2. CASE BadBlock(c) \/ WriteFails(c)
        BY <4>2 DEF BadBlock, WriteFails, FailInsert, IInv, TypeOK, SinkTypeOK
      <4>3. CASE UNCHANGED <<failed, desync>>
        BY <4>3 DEF OnlyFailedInsertDesyncs
      <4> QED
        BY <1>3, <2>2, <4>1, <4>2, <4>3 DEF HandlerNext, HandlerReads, HandlerRuns,
           WriteReturns, Accept, ReadHello, ReadAddendum, LoopCheck, ReadPing, ReadQuery,
           Misread, SwallowPacket, LeaveLost, Drain, AnswerProbe, RejectQuery, RejectInsert,
           AskStarRocks, StarRocksAnswers, StarRocksFails, BeginInsert, ReadBlock, WriteOk,
           EndInsert, ProtocolError, ReadEOF
    <3> QED
      BY <3>1, <3>2 DEF OnlyFailedInsertDesyncs
  <2> QED
    BY <2>1, <2>2
<1> QED
  BY <1>1, <1>2, <1>3 DEF Next

\* Only a failed INSERT, whose remaining blocks nobody reads, can make a reader
\* take bytes for a packet code that are none (server.go:116, insert.go:71).
THEOREM OnlyFailedInsertsDesync == Spec => []OnlyFailedInsertDesyncs
<1>1. Init => OnlyFailedInsertDesyncs
  BY DEF Init, OnlyFailedInsertDesyncs
<1>2. IInv /\ SyncInv /\ OnlyFailedInsertDesyncs /\ [Next]_vars => OnlyFailedInsertDesyncs'
  BY DesyncStep
<1> QED
  BY <1>1, <1>2, Invariance, DialogueInvariance, PTL DEF Spec
=============================================================================
