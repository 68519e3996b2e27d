----------------------- MODULE ChServerServiceProofs -----------------------
(***************************************************************************)
(* Proofs that the wire server implements InsertService, and that a failed *)
(* INSERT leaves a prefix, for every number of connections, requests and   *)
(* blocks.  OrderInv is inductive relative to IInv, which ChServerProofs   *)
(* has; the steps that matter to the service are those of a client that    *)
(* sends a block, of the sink that stores one, and of a handler that hands *)
(* one over or acknowledges an INSERT.                                     *)
(***************************************************************************)
EXTENDS ChServerProofs

-----------------------------------------------------------------------------
\* What a step may change.

\* A handler's step leaves the clients and what is stored alone; one action
\* hands blocks to the sink, and one acknowledges.
LEMMA HandlerFootprint ==
    ASSUME NEW c \in Conns, HandlerNext(c)
    PROVE  /\ UNCHANGED <<wire, cl, nreq, sent, stored, confirmed>>
           /\ UNCHANGED inflight \/ ReadBlock(c)
           /\ UNCHANGED acked \/ EndInsert(c)
<1>1. CASE \/ Accept(c) \/ ReadHello(c) \/ ReadAddendum(c) \/ LoopCheck(c)
           \/ ReadPing(c) \/ ReadOther(c) \/ Misread(c) \/ LeaveLost(c)
           \/ ProtocolError(c) \/ ReadEOF(c) \/ SwallowPacket(c)
  BY <1>1 DEF Accept, ReadHello, ReadAddendum, LoopCheck, ReadPing, ReadOther,
     Misread, LeaveLost, ProtocolError, ReadEOF, SwallowPacket, others, client, sink
<1>2. CASE \/ ReadQuery(c) \/ Drain(c) \/ AnswerProbe(c) \/ RejectQuery(c)
           \/ RejectInsert(c) \/ AskStarRocks(c) \/ StarRocksAnswers(c)
           \/ StarRocksFails(c) \/ PanicOnQuery(c)
  BY <1>2 DEF ReadQuery, Drain, AnswerProbe, RejectQuery, RejectInsert, AskStarRocks,
     StarRocksAnswers, StarRocksFails, PanicOnQuery, others, client, sink, history
<1>3. CASE \/ BeginInsert(c) \/ ReadBlock(c) \/ BadBlock(c) \/ WriteOk(c)
           \/ WriteFails(c) \/ EndInsert(c)
  BY <1>3 DEF BeginInsert, ReadBlock, BadBlock, WriteOk, WriteFails, EndInsert, others,
     client, sink
<1> QED
  BY <1>1, <1>2, <1>3 DEF HandlerNext, HandlerReads, HandlerRuns, WriteReturns

LEMMA ProcessFootprint ==
    ASSUME ProcessNext
    PROVE  UNCHANGED <<request, reader, wire, replies, client, sink, history>>
BY DEF ProcessNext, Signal, CloseListener, AcceptAfterClose, AcceptError, Exit

\* A client's step leaves the sink and the acknowledgements alone, and the other
\* connections.
LEMMA ClientFootprint ==
    ASSUME IInv, NEW c \in Conns, ClientNext(c)
    PROVE  /\ UNCHANGED <<request, reader, sink, acked, failed, desync>>
           /\ \A d \in Conns \ {c} : /\ cl'[d] = cl[d] /\ nreq'[d] = nreq[d]
                                     /\ sent'[d] = sent[d] /\ wire'[d] = wire[d]
                                     /\ replies'[d] = replies[d] /\ pc'[d] = pc[d]
<1>1. /\ cl \in [Conns -> Clients] /\ nreq \in [Conns -> 0 .. MaxRequests]
      /\ sent \in [Conns -> 0 .. MaxBlocks] /\ wire \in [Conns -> Seq(Packets)]
      /\ replies \in [Conns -> Seq(Replies)] /\ pc \in [Conns -> PCs]
  BY DEF IInv, TypeOK, ClientTypeOK, HandlerTypeOK
<1>2. CASE Connect(c)
  BY <1>1, <1>2 DEF Connect, Send, Become, Goto, sink, history
<1>3. CASE ClientReads(c)
  BY <1>1, <1>3 DEF ClientReads, GetHello, GetPong, GetData, GetEnd, GetException,
     GetWrongReply, Receives, HangUp, Become, Send, server, sink
<1>4. CASE SendPing(c) \/ \E k \in Kinds, z \in Compressions : SendQuery(c, k, z)
  BY <1>1, <1>4 DEF SendPing, SendQuery, Become, Send, server, sink
<1>5. CASE SendBlock(c) \/ SendEnd(c) \/ Cancel(c)
  BY <1>1, <1>5 DEF SendBlock, SendEnd, Cancel, HangUp, Become, Send, server, sink
<1>6. CASE Leave(c) \/ SeeClose(c)
  BY <1>1, <1>6 DEF Leave, SeeClose, HangUp, Become, server, sink
<1> QED
  BY <1>2, <1>3, <1>4, <1>5, <1>6 DEF ClientNext

-----------------------------------------------------------------------------
\* What is offered.

\* The new packets of a longer log are behind the old ones.
LEMMA NewPackets ==
    ASSUME IInv, NEW c \in Conns, NEW ps \in Seq(Packets), Send(c, ps)
    PROVE  /\ Len(wire[c]) \in Nat /\ Len(ps) \in Nat
           /\ DOMAIN wire[c] = 1 .. Len(wire[c])
           /\ \A i \in DOMAIN wire'[c] \ DOMAIN wire[c] :
                 /\ i > Len(wire[c])
                 /\ i - Len(wire[c]) \in 1 .. Len(ps)
                 /\ wire'[c][i] = ps[i - Len(wire[c])]
<1>1. /\ Len(wire[c]) \in Nat /\ Len(ps) \in Nat
      /\ DOMAIN wire[c] = 1 .. Len(wire[c])
      /\ DOMAIN wire'[c] = 1 .. Len(wire[c]) + Len(ps)
  BY LogTypes, Longer
<1>2. ASSUME NEW i \in DOMAIN wire'[c] \ DOMAIN wire[c]
      PROVE  /\ i > Len(wire[c])
             /\ i - Len(wire[c]) \in 1 .. Len(ps)
             /\ wire'[c][i] = ps[i - Len(wire[c])]
  <2>1. i > Len(wire[c]) /\ i - Len(wire[c]) \in 1 .. Len(ps)
        /\ i = Len(wire[c]) + (i - Len(wire[c]))
    BY <1>1
  <2>2. \A k \in 1 .. Len(ps) : wire'[c][Len(wire[c]) + k] = ps[k]
    BY Longer
  <2> QED
    BY <2>1, <2>2
<1> QED
  BY <1>1, <1>2

\* Packet k of ps carries a block.
Carries(ps, k) == ps[k].code = "Data" /\ ps[k].n > 0

\* What a client sends adds the blocks in it to what is offered.
LEMMA OfferedGrows ==
    ASSUME IInv, NEW c \in Conns, NEW ps \in Seq(Packets), Send(c, ps)
    PROVE  Offered' = Offered \cup {<<<<c, ps[k].q>>, ps[k].n>> :
                                       k \in {k \in 1 .. Len(ps) : Carries(ps, k)}}
<1> DEFINE New == {<<<<c, ps[k].q>>, ps[k].n>> : k \in {k \in 1 .. Len(ps) : Carries(ps, k)}}
<1>1. ASSUME NEW b \in Offered
      PROVE  b \in Offered'
  <2>1. PICK d \in Conns : \E i \in DOMAIN wire[d] : IsBlock(d, i) /\ b = BlockOf(d, i)
    BY <1>1 DEF Offered
  <2>2. PICK i \in DOMAIN wire[d] : IsBlock(d, i) /\ b = BlockOf(d, i)
    BY <2>1
  <2>3. i \in DOMAIN wire'[d] /\ wire'[d][i] = wire[d][i]
    <3>1. CASE d = c
      BY <2>2, <3>1, OldPackets, NewPackets
    <3>2. CASE d # c
      BY <2>2, <3>2, Longer
    <3> QED
      BY <3>1, <3>2
  <2> QED
    BY <2>2, <2>3 DEF Offered, IsBlock, BlockOf
<1>2. ASSUME NEW b \in New
      PROVE  b \in Offered'
  <2>1. PICK k \in 1 .. Len(ps) : Carries(ps, k) /\ b = <<<<c, ps[k].q>>, ps[k].n>>
    BY <1>2
  <2>2. /\ Len(wire[c]) + k \in DOMAIN wire'[c]
        /\ wire'[c][Len(wire[c]) + k] = ps[k]
    BY Longer, NewPackets
  <2> QED
    BY <2>1, <2>2 DEF Offered, IsBlock, BlockOf, Carries
<1>3. ASSUME NEW b \in Offered'
      PROVE  b \in Offered \cup New
  <2>1. PICK d \in Conns : \E i \in DOMAIN wire'[d] : IsBlock(d, i)' /\ b = BlockOf(d, i)'
    BY <1>3 DEF Offered
  <2>2. PICK i \in DOMAIN wire'[d] : IsBlock(d, i)' /\ b = BlockOf(d, i)'
    BY <2>1
  <2>3. CASE i \in DOMAIN wire[d]
    <3>1. wire'[d][i] = wire[d][i]
      BY <2>3, Longer
    <3> QED
      BY <2>2, <2>3, <3>1 DEF Offered, IsBlock, BlockOf
  <2>4. CASE i \notin DOMAIN wire[d]
    <3>1. d = c
      BY <2>2, <2>4, Longer
    <3>2. i - Len(wire[c]) \in 1 .. Len(ps) /\ wire'[c][i] = ps[i - Len(wire[c])]
      BY <2>2, <2>4, <3>1, NewPackets
    <3> QED
      BY <2>2, <3>1, <3>2 DEF IsBlock, BlockOf, Carries
  <2> QED
    BY <2>3, <2>4
<1> QED
  BY <1>1, <1>2, <1>3

-----------------------------------------------------------------------------
\* OrderInv.

LEMMA InitOrder == Init => OrderInv
BY DEF Init, OrderInv, HandedInOrder, BlocksInOrder, SentInLog

\* A connection's part of OrderInv depends on its log and its client only.
LEMMA OrderFrame ==
    ASSUME NEW c \in Conns, BlocksInOrder(c), SentInLog(c),
           wire'[c] = wire[c],
           \/ cl'[c] \notin {"header", "sending"}
           \/ /\ cl[c] \in {"header", "sending"}
              /\ sent'[c] = sent[c] /\ nreq'[c] = nreq[c]
    PROVE  BlocksInOrder(c)' /\ SentInLog(c)'
BY DEF BlocksInOrder, SentInLog, IsBlock, BlockOf

\* The old part of a longer log is in order as it was.
LEMMA OldInOrder ==
    ASSUME IInv, NEW c \in Conns, NEW ps \in Seq(Packets), Send(c, ps), BlocksInOrder(c),
           NEW i \in DOMAIN wire[c], IsBlock(c, i)'
    PROVE  \A m \in 1 .. wire'[c][i].n - 1 :
              \E j \in 1 .. i - 1 :
                 IsBlock(c, j)' /\ BlockOf(c, j)' = <<<<c, wire'[c][i].q>>, m>>
<1>1. /\ wire'[c][i] = wire[c][i]
      /\ \A j \in 1 .. i - 1 : j \in DOMAIN wire[c] /\ wire'[c][j] = wire[c][j]
  BY Longer, NewPackets
<1>2. IsBlock(c, i)
  BY <1>1 DEF IsBlock
<1>3. ASSUME NEW m \in 1 .. wire'[c][i].n - 1
      PROVE  \E j \in 1 .. i - 1 :
                IsBlock(c, j)' /\ BlockOf(c, j)' = <<<<c, wire'[c][i].q>>, m>>
  <2>1. PICK j \in 1 .. i - 1 : IsBlock(c, j) /\ BlockOf(c, j) = <<<<c, wire[c][i].q>>, m>>
    BY <1>1, <1>2 DEF BlocksInOrder
  <2>2. wire'[c][j] = wire[c][j]
    BY <1>1
  <2> QED
    BY <1>1, <2>1, <2>2 DEF IsBlock, BlockOf
<1> QED
  BY <1>3

\* What a client sends besides blocks, a new request included.
LEMMA OrderSend ==
    ASSUME IInv, OrderInv, NEW c \in Conns, NEW ps \in Seq(Packets), Send(c, ps),
           \A k \in 1 .. Len(ps) : ~Carries(ps, k),
           \/ cl'[c] \notin {"header", "sending"}
           \/ sent'[c] = 0
    PROVE  /\ BlocksInOrder(c)' /\ SentInLog(c)'
           /\ Offered' = Offered
<1>1. BlocksInOrder(c)'
  <2>1. ASSUME NEW i \in DOMAIN wire'[c], IsBlock(c, i)'
        PROVE  i \in DOMAIN wire[c]
    BY <2>1, NewPackets DEF IsBlock, Carries
  <2> QED
    BY <2>1, OldInOrder DEF OrderInv, BlocksInOrder
<1>2. SentInLog(c)'
  BY DEF SentInLog
<1>3. Offered' = Offered
  BY OfferedGrows
<1> QED
  BY <1>1, <1>2, <1>3

\* What SendBlock sends, and offers.
LEMMA SendBlockSends ==
    ASSUME IInv, NEW c \in Conns, SendBlock(c)
    PROVE  /\ \E p \in Packets :
                 /\ Send(c, <<p>>) /\ p.code = "Data" /\ p.q = nreq[c]
                 /\ p.n = sent[c] + 1
           /\ cl[c] = "sending" /\ sent'[c] = sent[c] + 1
           /\ sent[c] \in Nat /\ sent[c] + 1 \in 1 .. MaxBlocks
           /\ nreq[c] \in 1 .. MaxRequests
           /\ UNCHANGED <<cl, nreq>>
<1> DEFINE p == Packet("Data", "-", nreq[c], sent[c] + 1, RequestComp(c))
<1>1. /\ cl[c] = "sending" /\ sent[c] < MaxBlocks /\ Send(c, <<p>>)
      /\ sent' = [sent EXCEPT ![c] = @ + 1] /\ UNCHANGED <<cl, nreq>>
  BY DEF SendBlock
<1>2. /\ sent[c] \in Nat /\ sent[c] + 1 \in 1 .. MaxBlocks
      /\ sent'[c] = sent[c] + 1
  BY <1>1, ClientFacts, BoundsAssumption
<1>3. wire[c] # <<>> /\ nreq[c] \in 1 .. MaxRequests /\ RequestComp(c) \in BOOLEAN
  BY <1>1, ClientFacts, BoundsAssumption DEF ClientPlace
<1>4. p \in Packets /\ p.code = "Data" /\ p.q = nreq[c] /\ p.n = sent[c] + 1
  BY <1>2, <1>3, BoundsAssumption DEF Packets, PacketKinds, Packet
<1> QED
  BY <1>1, <1>2, <1>3, <1>4

\* The next block of an INSERT.
LEMMA OrderBlock ==
    ASSUME IInv, OrderInv, NEW c \in Conns, SendBlock(c)
    PROVE  /\ BlocksInOrder(c)' /\ SentInLog(c)'
           /\ Offered' = Offered \cup {<<<<c, nreq[c]>>, sent[c] + 1>>}
           /\ \A m \in 1 .. sent[c] : <<<<c, nreq[c]>>, m>> \in Offered
<1>. PICK p \in Packets : /\ Send(c, <<p>>) /\ p.code = "Data" /\ p.q = nreq[c]
                          /\ p.n = sent[c] + 1
  BY SendBlockSends
<1>. PICK L \in Nat : L = Len(wire[c])
  BY LogTypes
<1>1. /\ cl[c] = "sending" /\ cl'[c] = "sending" /\ sent[c] \in Nat
      /\ nreq'[c] = nreq[c] /\ sent'[c] = sent[c] + 1
  BY SendBlockSends
<1>2. <<p>> \in Seq(Packets) /\ Len(<<p>>) = 1 /\ <<p>>[1] = p
  OBVIOUS
<1>3. /\ DOMAIN wire[c] = 1 .. L /\ DOMAIN wire'[c] = 1 .. L + 1
      /\ wire'[c][L + 1] = p
      /\ \A i \in 1 .. L : wire'[c][i] = wire[c][i]
  <2>1. /\ DOMAIN wire'[c] = 1 .. L + 1
        /\ \A k \in 1 .. 1 : wire'[c][L + k] = <<p>>[k]
        /\ \A i \in DOMAIN wire[c] : wire'[c][i] = wire[c][i]
    BY <1>2, Longer
  <2> QED
    BY <1>2, <2>1, NewPackets
<1>4. \A m \in 1 .. sent[c] :
         \E j \in 1 .. L : IsBlock(c, j) /\ BlockOf(c, j) = <<<<c, nreq[c]>>, m>>
  BY <1>1, <1>3 DEF OrderInv, SentInLog
<1>5. \A m \in 1 .. sent[c] :
         \E j \in 1 .. L : IsBlock(c, j)' /\ BlockOf(c, j)' = <<<<c, nreq[c]>>, m>>
  BY <1>3, <1>4 DEF IsBlock, BlockOf
<1>6. IsBlock(c, L + 1)' /\ BlockOf(c, L + 1)' = <<<<c, nreq[c]>>, sent[c] + 1>>
  BY <1>1, <1>3 DEF IsBlock, BlockOf
<1>7. BlocksInOrder(c)'
  <2>1. ASSUME NEW i \in DOMAIN wire'[c], IsBlock(c, i)'
        PROVE  \A m \in 1 .. wire'[c][i].n - 1 :
                  \E j \in 1 .. i - 1 :
                     IsBlock(c, j)' /\ BlockOf(c, j)' = <<<<c, wire'[c][i].q>>, m>>
    <3>1. CASE i \in DOMAIN wire[c]
      BY <1>2, <2>1, <3>1, OldInOrder DEF OrderInv
    <3>2. CASE i = L + 1
      <4>0. wire'[c][i].q = nreq[c] /\ wire'[c][i].n = sent[c] + 1
        BY <1>3, <3>2
      <4>1. wire'[c][i].q = nreq[c] /\ wire'[c][i].n - 1 = sent[c] /\ i - 1 = L
        BY <1>1, <3>2, <4>0
      <4>2. \A m \in 1 .. wire'[c][i].n - 1 :
              \E j \in 1 .. i - 1 :
                 IsBlock(c, j)' /\ BlockOf(c, j)' = <<<<c, nreq[c]>>, m>>
        BY <1>5, <4>1, Zenon
      <4> QED
        BY <4>1, <4>2
    <3> QED
      BY <1>3, <3>1, <3>2
  <2> QED
    BY <2>1 DEF BlocksInOrder
<1>8. SentInLog(c)'
  <2>1. ASSUME NEW m \in 1 .. sent[c] + 1
        PROVE  \E j \in DOMAIN wire'[c] :
                  IsBlock(c, j)' /\ BlockOf(c, j)' = <<<<c, nreq'[c]>>, m>>
    <3>1. CASE m \in 1 .. sent[c]
      <4>1. \A j \in 1 .. L : j \in DOMAIN wire'[c]
        BY <1>3
      <4> QED
        BY <1>1, <1>5, <3>1, <4>1
    <3>2. CASE m = sent[c] + 1
      <4>1. L + 1 \in DOMAIN wire'[c]
        BY <1>3
      <4> QED
        BY <1>1, <1>6, <3>2, <4>1
    <3> QED
      BY <1>1, <3>1, <3>2
  <2> QED
    BY <1>1, <2>1 DEF SentInLog
<1>9. Offered' = Offered \cup {<<<<c, nreq[c]>>, sent[c] + 1>>}
  <2>1. {k \in 1 .. Len(<<p>>) : Carries(<<p>>, k)} = {1}
    BY <1>1, <1>2 DEF Carries
  <2>2. {<<<<c, <<p>>[k].q>>, <<p>>[k].n>> : k \in {1}} = {<<<<c, nreq[c]>>, sent[c] + 1>>}
    BY <1>2
  <2> QED
    BY <1>2, <2>1, <2>2, OfferedGrows
<1>10. \A m \in 1 .. sent[c] : <<<<c, nreq[c]>>, m>> \in Offered
  BY <1>3, <1>4 DEF Offered
<1> QED
  BY <1>7, <1>8, <1>9, <1>10

\* What a client writes without a block in it: a new request, or the last packet
\* of the one it is at.
Blockless(c) ==
    \E ps \in Seq(Packets) :
        /\ Send(c, ps) /\ \A k \in 1 .. Len(ps) : ~Carries(ps, k)
        /\ \/ cl'[c] \notin {"header", "sending"}
           \/ sent'[c] = 0 /\ nreq'[c] = nreq[c] + 1

LEMMA BlocklessSends ==
    ASSUME NEW c \in Conns, NEW ps \in Seq(Packets), Send(c, ps),
           \A k \in 1 .. Len(ps) : ~Carries(ps, k),
           \/ cl'[c] \notin {"header", "sending"}
           \/ sent'[c] = 0 /\ nreq'[c] = nreq[c] + 1
    PROVE  Blockless(c)
BY DEF Blockless

\* A client that writes nothing.
Quiet(c) ==
    /\ UNCHANGED wire
    /\ \/ cl'[c] \notin {"header", "sending"}
       \/ /\ cl[c] \in {"header", "sending"}
          /\ sent'[c] = sent[c] /\ nreq'[c] = nreq[c]

LEMMA ClientWrites ==
    ASSUME IInv, NEW c \in Conns, ClientNext(c)
    PROVE  SendBlock(c) \/ Quiet(c) \/ Blockless(c)
<1>1. ASSUME NEW p \in Packets, p.code = "Data" => p.n = 0
      PROVE  <<p>> \in Seq(Packets) /\ \A k \in 1 .. Len(<<p>>) : ~Carries(<<p>>, k)
  <2>1. <<p>> \in Seq(Packets) /\ \A k \in 1 .. Len(<<p>>) : <<p>>[k] = p
    OBVIOUS
  <2> QED
    BY <1>1, <2>1 DEF Carries
<1>2. CASE Connect(c)
  <2>1. PICK v \in Versions : Send(c, <<Packet("Hello", v, 0, 0, FALSE)>>)
    BY <1>2 DEF Connect
  <2>2. Packet("Hello", v, 0, 0, FALSE) \in Packets
    BY BoundsAssumption, InputsAssumption DEF Packets, PacketKinds, Packet
  <2>3. Packet("Hello", v, 0, 0, FALSE).code = "Data" => Packet("Hello", v, 0, 0, FALSE).n = 0
    BY DEF Packet
  <2>4. cl'[c] = "greet"
    BY <1>2, ClientFacts DEF Connect, Become
  <2> QED
    BY <1>1, <2>1, <2>2, <2>3, <2>4, BlocklessSends
<1>3. CASE GetHello(c)
  <2>1. cl'[c] = "idle"
    BY <1>3, ClientFacts DEF GetHello, Become
  <2>2. CASE Send(c, <<Packet("Addendum", "-", 0, 0, FALSE)>>)
    <3>1. Packet("Addendum", "-", 0, 0, FALSE) \in Packets
      BY BoundsAssumption DEF Packets, PacketKinds, Packet
    <3>2. Packet("Addendum", "-", 0, 0, FALSE).code = "Data" => Packet("Addendum", "-", 0, 0, FALSE).n = 0
      BY DEF Packet
    <3> QED
      BY <1>1, <2>1, <2>2, <3>1, <3>2, BlocklessSends
  <2>3. CASE Send(c, <<>>)
    <3>1. <<>> \in Seq(Packets) /\ \A k \in 1 .. Len(<<>>) : ~Carries(<<>>, k)
      OBVIOUS
    <3> QED
      BY <2>1, <2>3, <3>1, BlocklessSends
  <2> QED
    BY <1>3, <2>2, <2>3 DEF GetHello
<1>4. CASE SendPing(c)
  <2> DEFINE p == Packet("Ping", "-", nreq[c] + 1, 0, FALSE)
  <2>1. cl'[c] = "pinging" /\ Send(c, <<p>>) /\ nreq[c] + 1 \in 0 .. MaxRequests
    BY <1>4, ClientFacts, BoundsAssumption DEF SendPing, Become
  <2>2. p \in Packets
    BY <2>1, BoundsAssumption DEF Packets, PacketKinds, Packet
  <2>3. p.code = "Data" => p.n = 0
    BY DEF Packet
  <2> HIDE DEF p
  <2> QED
    BY <1>1, <2>1, <2>2, <2>3, BlocklessSends
<1>5. ASSUME NEW k \in Kinds, NEW z \in Compressions, SendQuery(c, k, z)
      PROVE  Blockless(c)
  <2> DEFINE p == Packet("Query", k, nreq[c] + 1, 0, z)
             b == Packet("Data", "-", nreq[c] + 1, 0, z)
  <2>1. sent'[c] = 0 /\ nreq'[c] = nreq[c] + 1 /\ Send(c, <<p, b>>) /\ nreq[c] + 1 \in 0 .. MaxRequests
    BY <1>5, ClientFacts, BoundsAssumption DEF SendQuery
  <2>2. p \in Packets /\ b \in Packets
    BY <2>1, BoundsAssumption, InputsAssumption
       DEF Packets, PacketKinds, AllKinds, InsertKinds, Packet
  <2>3. p.code = "Query" /\ b.n = 0
    BY DEF Packet
  <2> HIDE DEF p, b
  <2>4. /\ <<p, b>> \in Seq(Packets)
        /\ \A i \in 1 .. Len(<<p, b>>) : <<p, b>>[i] \in {p, b}
    BY <2>2
  <2>5. \A i \in 1 .. Len(<<p, b>>) : ~Carries(<<p, b>>, i)
    BY <2>3, <2>4 DEF Carries
  <2> QED
    BY <2>1, <2>4, <2>5, BlocklessSends
<1>6. CASE SendEnd(c)
  <2> DEFINE p == Packet("Data", "-", nreq[c], 0, RequestComp(c))
  <2>1. cl'[c] = "ending" /\ Send(c, <<p>>) /\ cl[c] = "sending"
    BY <1>6, ClientFacts DEF SendEnd, Become
  <2>2. p \in Packets
    BY <2>1, ClientFacts, BoundsAssumption DEF ClientPlace, Packets, PacketKinds, Packet
  <2>3. p.code = "Data" => p.n = 0
    BY DEF Packet
  <2> HIDE DEF p
  <2> QED
    BY <1>1, <2>1, <2>2, <2>3, BlocklessSends
<1>7. CASE Cancel(c)
  <2> DEFINE p == Packet("Cancel", "-", nreq[c], 0, FALSE)
  <2>1. cl'[c] = "gone" /\ Send(c, <<p>>)
    BY <1>7, ClientFacts DEF Cancel, HangUp, Become
  <2>2. p \in Packets
    BY ClientFacts, BoundsAssumption DEF Packets, PacketKinds, Packet
  <2>3. p.code = "Data" => p.n = 0
    BY DEF Packet
  <2> HIDE DEF p
  <2> QED
    BY <1>1, <2>1, <2>2, <2>3, BlocklessSends
<1>8. CASE \/ GetPong(c) \/ GetData(c) \/ GetEnd(c) \/ GetException(c)
           \/ GetWrongReply(c) \/ Leave(c) \/ SeeClose(c)
  <2>1. /\ UNCHANGED <<wire, nreq, sent>>
        /\ \/ cl'[c] \in {"idle", "gone", "awaiting"}
           \/ cl[c] = "header" /\ cl'[c] = "sending"
    BY <1>8, ClientFacts DEF GetPong, GetData, GetEnd, GetException, GetWrongReply, Leave,
       SeeClose, HangUp, Become
  <2> QED
    BY <2>1 DEF Quiet
<1> QED
  BY <1>2, <1>3, <1>4, <1>5, <1>6, <1>7, <1>8 DEF ClientNext, ClientReads

\* A client's step keeps its log in order, and offers at most the next block of
\* an INSERT that is not acknowledged.
LEMMA OrderClient ==
    ASSUME IInv, OrderInv, NEW c \in Conns, ClientNext(c)
    PROVE  /\ BlocksInOrder(c)' /\ SentInLog(c)'
           /\ UNCHANGED Offered \/ SendBlock(c)
<1>1. CASE SendBlock(c)
  BY <1>1, OrderBlock
<1>2. CASE Quiet(c)
  <2>1. UNCHANGED Offered
    BY <1>2 DEF Quiet, Offered, IsBlock, BlockOf
  <2> QED
    BY <1>2, <2>1, OrderFrame DEF Quiet, OrderInv
<1>3. CASE Blockless(c)
  <2>1. PICK ps \in Seq(Packets) :
           /\ Send(c, ps) /\ \A k \in 1 .. Len(ps) : ~Carries(ps, k)
           /\ \/ cl'[c] \notin {"header", "sending"}
              \/ sent'[c] = 0 /\ nreq'[c] = nreq[c] + 1
    BY <1>3 DEF Blockless
  <2> QED
    BY <2>1, OrderSend
<1> QED
  BY <1>1, <1>2, <1>3, ClientWrites

\* The connections a step does not touch.
LEMMA OrderStays ==
    ASSUME OrderInv, NEW c \in Conns,
           wire'[c] = wire[c], cl'[c] = cl[c], nreq'[c] = nreq[c], sent'[c] = sent[c]
    PROVE  BlocksInOrder(c)' /\ SentInLog(c)'
<1>1. BlocksInOrder(c) /\ SentInLog(c)
  BY DEF OrderInv
<1> QED
  BY <1>1, OrderFrame

\* The block a handler reads is the next packet, and one of its INSERT.
LEMMA ReadBlockIsNext ==
    ASSUME IInv, NEW c \in Conns, ReadBlock(c)
    PROVE  /\ inflight' = inflight \cup {<<<<c, cur[c]>>, NextPacket(c).n>>}
           /\ pc[c] = "insread" /\ rd[c] \in DOMAIN wire[c]
           /\ DOMAIN wire[c] = 1 .. Len(wire[c]) /\ rd[c] \in Nat
           /\ wire[c][rd[c]].q = cur[c]
           /\ IsBlock(c, rd[c])
           /\ BlockOf(c, rd[c]) = <<<<c, cur[c]>>, NextPacket(c).n>>
<1>1. /\ inflight' = inflight \cup {<<<<c, cur[c]>>, NextPacket(c).n>>}
      /\ pc[c] = "insread" /\ Arrived(c)
      /\ wire[c][rd[c]].code = "Data" /\ wire[c][rd[c]].n > 0
  BY DEF ReadBlock, At, ReadsData, NextPacket
<1>2. rd[c] \in DOMAIN wire[c] /\ DOMAIN wire[c] = 1 .. Len(wire[c]) /\ rd[c] \in Nat
  BY <1>1, PacketType, LogTypes
<1>3. wire[c][rd[c]].q = cur[c]
  <2>1. rd[c] - 1 \in DOMAIN wire[c] /\ wire[c][rd[c] - 1].q = cur[c]
    BY <1>1 DEF IInv, HandlerInv, HandlerPlace, InRequest
  <2>2. rd[c] > 1
    BY <1>2, <2>1
  <2>3. wire[c][rd[c]].q = wire[c][rd[c] - 1].q
    BY <1>1, <1>2, <2>2 DEF IInv, LogInv, RequestsInOrder
  <2> QED
    BY <2>1, <2>3
<1>4. IsBlock(c, rd[c]) /\ BlockOf(c, rd[c]) = <<<<c, cur[c]>>, NextPacket(c).n>>
  BY <1>1, <1>3 DEF IsBlock, BlockOf, NextPacket
<1> QED
  BY <1>1, <1>2, <1>3, <1>4

\* The block a handler reads is one of its INSERT, and those before it are
\* stored.
LEMMA ReadBlockInOrder ==
    ASSUME IInv, OrderInv, NEW c \in Conns, ReadBlock(c)
    PROVE  /\ inflight' = inflight \cup {<<<<c, cur[c]>>, NextPacket(c).n>>}
           /\ <<<<c, cur[c]>>, NextPacket(c).n>> \in Offered
           /\ \A m \in 1 .. NextPacket(c).n - 1 : <<<<c, cur[c]>>, m>> \in stored
<1>1. /\ inflight' = inflight \cup {<<<<c, cur[c]>>, NextPacket(c).n>>}
      /\ pc[c] = "insread"
  BY ReadBlockIsNext
<1>2. rd[c] \in DOMAIN wire[c] /\ DOMAIN wire[c] = 1 .. Len(wire[c]) /\ rd[c] \in Nat
  BY ReadBlockIsNext
<1>3. wire[c][rd[c]].q = cur[c]
  BY ReadBlockIsNext
<1>4. IsBlock(c, rd[c]) /\ BlockOf(c, rd[c]) = <<<<c, cur[c]>>, NextPacket(c).n>>
  BY ReadBlockIsNext
<1>5. <<<<c, cur[c]>>, NextPacket(c).n>> \in Offered
  BY <1>2, <1>4 DEF Offered
<1>6. ASSUME NEW m \in 1 .. NextPacket(c).n - 1
      PROVE  <<<<c, cur[c]>>, m>> \in stored
  <2>1. PICK j \in 1 .. rd[c] - 1 :
           IsBlock(c, j) /\ BlockOf(c, j) = <<<<c, cur[c]>>, m>>
    BY <1>2, <1>3, <1>4 DEF OrderInv, BlocksInOrder, NextPacket
  <2>2. j \in DOMAIN wire[c] /\ j < rd[c]
    BY <1>2
  <2>3. wire[c][j].q = cur[c]
    BY <2>1 DEF BlockOf
  <2>4. BlockOf(c, j) \in stored
    BY <1>1, <2>1, <2>2, <2>3 DEF IInv, HandlerInv, ReadBlocksStored
  <2> QED
    BY <2>1, <2>4
<1> QED
  BY <1>1, <1>5, <1>6

LEMMA OrderInductive ==
    ASSUME IInv, OrderInv, [Next]_vars
    PROVE  OrderInv'
<1>1. \A b \in inflight \cup stored :
         b \in Offered /\ \A m \in 1 .. b[2] - 1 : <<b[1], m>> \in stored
  BY DEF OrderInv, HandedInOrder
<1>2. ASSUME UNCHANGED <<wire, cl, nreq, sent>>
      PROVE  /\ \A c \in Conns : BlocksInOrder(c)' /\ SentInLog(c)'
             /\ Offered' = Offered
  BY <1>2, OrderStays DEF Offered, IsBlock, BlockOf
<1>3. CASE UNCHANGED vars \/ ProcessNext
  <2>1. UNCHANGED <<wire, client, sink>>
    BY <1>3, ProcessFootprint DEF vars
  <2> QED
    BY <1>1, <1>2, <2>1 DEF OrderInv, HandedInOrder, client, sink
<1>4. CASE SinkNext
  <2>1. PICK b \in Blocks : Settle(b)
    BY <1>4 DEF SinkNext
  <2>2. /\ UNCHANGED <<wire, cl, nreq, sent>>
        /\ b \in inflight /\ stored \subseteq stored'
        /\ inflight' \cup stored' \subseteq inflight \cup stored
    BY <2>1 DEF Settle, client
  <2> QED
    BY <1>1, <1>2, <2>2 DEF OrderInv, HandedInOrder
<1>5. ASSUME NEW c \in Conns, HandlerNext(c)
      PROVE  OrderInv'
  <2>1. UNCHANGED <<wire, cl, nreq, sent, stored>>
    BY <1>5, HandlerFootprint
  <2>2. CASE UNCHANGED inflight
    BY <1>1, <1>2, <2>1, <2>2 DEF OrderInv, HandedInOrder
  <2>3. CASE ReadBlock(c)
    <3> DEFINE new == <<<<c, cur[c]>>, NextPacket(c).n>>
    <3>1. /\ inflight' = inflight \cup {new} /\ new \in Offered
          /\ new[1] = <<c, cur[c]>> /\ new[2] = NextPacket(c).n
          /\ \A m \in 1 .. NextPacket(c).n - 1 : <<<<c, cur[c]>>, m>> \in stored
      BY <2>3, ReadBlockInOrder
    <3> HIDE DEF new
    <3>2. ASSUME NEW b \in inflight' \cup stored'
          PROVE  b \in Offered /\ \A m \in 1 .. b[2] - 1 : <<b[1], m>> \in stored
      BY <1>1, <2>1, <3>1, <3>2
    <3> QED
      BY <1>2, <2>1, <3>2 DEF OrderInv, HandedInOrder
  <2> QED
    BY <1>5, <2>2, <2>3, HandlerFootprint
<1>6. ASSUME NEW c \in Conns, ClientNext(c)
      PROVE  OrderInv'
  <2>1. BlocksInOrder(c)' /\ SentInLog(c)'
    BY <1>6, OrderClient
  <2>2. \A d \in Conns \ {c} : BlocksInOrder(d)' /\ SentInLog(d)'
    BY <1>6, ClientFootprint, OrderStays
  <2>3. Offered \subseteq Offered'
    BY <1>6, OrderClient, OrderBlock
  <2>4. UNCHANGED sink
    BY <1>6, ClientFootprint
  <2>5. HandedInOrder'
    BY <1>1, <2>3, <2>4 DEF HandedInOrder, sink
  <2> QED
    BY <2>1, <2>2, <2>5 DEF OrderInv
<1> QED
  BY <1>3, <1>4, <1>5, <1>6 DEF Next

\* What is handed to the sink and what is stored is in the order of the blocks.
THEOREM OrderInvariance == Spec => []OrderInv
<1>1. IInv /\ OrderInv /\ [Next]_vars => OrderInv'
  BY OrderInductive
<1> QED
  BY <1>1, InitOrder, Invariance, PTL DEF Spec

\* The blocks of an INSERT become durable in the order they were sent: a failed
\* INSERT leaves a prefix, whatever the sink does with what Write gave it
\* (handleInsert stops at the first error, insert.go:71).
THEOREM BlocksStoredInOrder == Spec => []StoredInBlockOrder
<1>1. OrderInv => StoredInBlockOrder
  BY DEF OrderInv, HandedInOrder, StoredInBlockOrder
<1> QED
  BY <1>1, OrderInvariance, PTL

-----------------------------------------------------------------------------
\* OnceInv.

LEMMA InitOnce == Init => OnceInv
BY DEF Init, OnceInv, HandedRead, BlocksOnce

\* A packet that a client's step adds is the block it sends, or none.
LEMMA OnceClient ==
    ASSUME IInv, NEW c \in Conns, BlocksOnce(c), ClientNext(c)
    PROVE  BlocksOnce(c)'
<1>1. CASE Quiet(c)
  BY <1>1 DEF Quiet, BlocksOnce, IsBlock
<1>2. CASE Blockless(c)
  <2>1. PICK ps \in Seq(Packets) :
           /\ Send(c, ps) /\ \A k \in 1 .. Len(ps) : ~Carries(ps, k)
           /\ \/ cl'[c] \notin {"header", "sending"}
              \/ sent'[c] = 0 /\ nreq'[c] = nreq[c] + 1
    BY <1>2 DEF Blockless
  <2>2. ASSUME NEW i \in DOMAIN wire'[c], IsBlock(c, i)'
        PROVE  i \in DOMAIN wire[c] /\ wire'[c][i] = wire[c][i] /\ IsBlock(c, i)
    <3>1. i \in DOMAIN wire[c]
      BY <2>1, <2>2, NewPackets DEF IsBlock, Carries
    <3>2. wire'[c][i] = wire[c][i]
      BY <2>1, <3>1, OldPackets
    <3> QED
      BY <2>2, <3>1, <3>2 DEF IsBlock
  <2>3. ASSUME NEW i \in DOMAIN wire[c], sent'[c] = 0, nreq'[c] = nreq[c] + 1
        PROVE  wire[c][i].q # nreq'[c]
    <3>1. wire[c][i].q <= nreq[c]
      BY DEF IInv, LogInv, RequestsInOrder
    <3>2. wire[c][i].q \in Nat /\ nreq[c] \in Nat
      BY LogTypes, ClientFacts, BoundsAssumption DEF Packets
    <3> QED
      BY <2>3, <3>1, <3>2
  <2> QED
    BY <2>1, <2>2, <2>3 DEF BlocksOnce
<1>3. CASE SendBlock(c)
  <2>1. PICK p \in Packets : /\ Send(c, <<p>>) /\ p.code = "Data" /\ p.q = nreq[c]
                             /\ p.n = sent[c] + 1
    BY <1>3, SendBlockSends
  <2>2. /\ cl[c] = "sending" /\ sent'[c] = sent[c] + 1 /\ sent[c] \in Nat
        /\ nreq'[c] = nreq[c]
    BY <1>3, SendBlockSends
  <2>3. PICK L \in Nat : L = Len(wire[c])
    BY LogTypes
  <2>4. <<p>> \in Seq(Packets) /\ Len(<<p>>) = 1 /\ <<p>>[1] = p
    OBVIOUS
  <2>5. /\ DOMAIN wire[c] = 1 .. L /\ DOMAIN wire'[c] = 1 .. L + 1
        /\ wire'[c][L + 1] = p
        /\ \A i \in 1 .. L : wire'[c][i] = wire[c][i]
    <3>1. /\ DOMAIN wire'[c] = 1 .. L + 1
          /\ \A k \in 1 .. 1 : wire'[c][L + k] = <<p>>[k]
          /\ \A i \in DOMAIN wire[c] : wire'[c][i] = wire[c][i]
      BY <2>1, <2>3, <2>4, Longer
    <3> QED
      BY <2>1, <2>3, <2>4, <3>1, NewPackets
  <2>6. \A i \in 1 .. L : /\ IsBlock(c, i)' <=> IsBlock(c, i)
                          /\ IsBlock(c, i) /\ wire[c][i].q = nreq[c] => wire[c][i].n <= sent[c]
                          /\ wire[c][i].n \in Nat
    <3>1. \A i \in 1 .. L : wire[c][i].n \in Nat
      BY <2>5, LogTypes, BoundsAssumption
    <3>2. \A i \in 1 .. L : IsBlock(c, i)' <=> IsBlock(c, i)
      BY <2>5 DEF IsBlock
    <3>3. ASSUME NEW i \in 1 .. L, IsBlock(c, i), wire[c][i].q = nreq[c]
          PROVE  wire[c][i].n <= sent[c]
      <4>1. i \in DOMAIN wire[c] /\ cl[c] \in {"header", "sending"}
        BY <2>2, <2>5
      <4> QED
        BY <3>3, <4>1 DEF BlocksOnce
    <3> QED
      BY <3>1, <3>2, <3>3
  <2>7. ASSUME NEW i \in 1 .. L + 1, NEW j \in 1 .. L + 1, i < j, IsBlock(c, i)',
               IsBlock(c, j)', wire'[c][i].q = wire'[c][j].q
        PROVE  wire'[c][i].n < wire'[c][j].n
    <3>1. i \in 1 .. L /\ wire'[c][i] = wire[c][i] /\ IsBlock(c, i)
      BY <2>5, <2>6, <2>7
    <3>2. CASE j = L + 1
      <4>1. wire'[c][j].n = sent[c] + 1 /\ wire'[c][j].q = nreq[c]
        BY <2>1, <2>5, <3>2
      <4>2. wire[c][i].n <= sent[c] /\ wire[c][i].n \in Nat
        BY <2>6, <2>7, <3>1, <4>1
      <4> QED
        BY <2>2, <3>1, <4>1, <4>2
    <3>3. CASE j # L + 1
      <4>1. j \in 1 .. L /\ wire'[c][j] = wire[c][j] /\ IsBlock(c, j)
        BY <2>5, <2>6, <2>7, <3>3
      <4> QED
        BY <2>5, <2>7, <3>1, <4>1 DEF BlocksOnce
    <3> QED
      BY <3>2, <3>3
  <2>8. ASSUME NEW i \in 1 .. L + 1, IsBlock(c, i)', wire'[c][i].q = nreq'[c]
        PROVE  wire'[c][i].n <= sent'[c]
    <3>1. CASE i = L + 1
      BY <2>1, <2>2, <2>5, <3>1
    <3>2. CASE i # L + 1
      <4>1. i \in 1 .. L /\ wire'[c][i] = wire[c][i] /\ IsBlock(c, i)
        BY <2>5, <2>6, <2>8, <3>2
      <4> QED
        BY <2>2, <2>6, <2>8, <4>1
    <3> QED
      BY <3>1, <3>2
  <2> QED
    BY <2>5, <2>7, <2>8 DEF BlocksOnce
<1> QED
  BY <1>1, <1>2, <1>3, ClientWrites

\* What a client has sent stays in its log, and in its place.
LEMMA ClientKeepsLog ==
    ASSUME IInv, NEW c \in Conns, ClientNext(c)
    PROVE  \A d \in Conns : \A i \in DOMAIN wire[d] : /\ i \in DOMAIN wire'[d]
                                                   /\ wire'[d][i] = wire[d][i]
<1>0. \A d \in Conns \ {c} : wire'[d] = wire[d]
  BY ClientFootprint
<1>1. ASSUME NEW ps \in Seq(Packets), Send(c, ps)
      PROVE  \A i \in DOMAIN wire[c] : i \in DOMAIN wire'[c] /\ wire'[c][i] = wire[c][i]
  BY <1>1, OldPackets, Longer, NewPackets
<1>2. CASE Quiet(c)
  BY <1>2 DEF Quiet
<1>3. CASE Blockless(c)
  <2>1. PICK ps \in Seq(Packets) : Send(c, ps)
    BY <1>3 DEF Blockless
  <2> QED
    BY <1>0, <1>1, <2>1
<1>4. CASE SendBlock(c)
  <2>1. PICK p \in Packets : Send(c, <<p>>)
    BY <1>4, SendBlockSends
  <2>2. <<p>> \in Seq(Packets)
    OBVIOUS
  <2> QED
    BY <1>0, <1>1, <2>1, <2>2
<1> QED
  BY <1>2, <1>3, <1>4, ClientWrites

LEMMA OnceStays ==
    ASSUME NEW c \in Conns, BlocksOnce(c),
           wire'[c] = wire[c], cl'[c] = cl[c], nreq'[c] = nreq[c], sent'[c] = sent[c]
    PROVE  BlocksOnce(c)'
BY DEF BlocksOnce, IsBlock

\* A handler reads one packet after the other.
LEMMA HandlerReader ==
    ASSUME IInv, NEW c \in Conns, HandlerNext(c)
    PROVE  \A d \in Conns : rd[d] \in Nat /\ rd'[d] \in {rd[d], rd[d] + 1}
<1>1. rd \in [Conns -> Nat]
  BY DEF IInv, TypeOK, HandlerTypeOK
<1>2. UNCHANGED rd \/ Take(c)
  <2>1. CASE \/ Accept(c) \/ ReadHello(c) \/ ReadAddendum(c) \/ LoopCheck(c)
             \/ ReadPing(c) \/ ReadOther(c) \/ Misread(c) \/ LeaveLost(c)
             \/ ProtocolError(c) \/ ReadEOF(c) \/ SwallowPacket(c)
    BY <2>1 DEF Accept, ReadHello, ReadAddendum, LoopCheck, ReadPing, ReadOther,
       Misread, LeaveLost, ProtocolError, ReadEOF, SwallowPacket, reader, others
  <2>2. CASE \/ ReadQuery(c) \/ Drain(c) \/ AnswerProbe(c) \/ RejectQuery(c)
             \/ RejectInsert(c) \/ AskStarRocks(c) \/ StarRocksAnswers(c)
             \/ StarRocksFails(c) \/ PanicOnQuery(c)
    BY <2>2 DEF ReadQuery, Drain, AnswerProbe, RejectQuery, RejectInsert, AskStarRocks,
       StarRocksAnswers, StarRocksFails, PanicOnQuery, reader
  <2>3. CASE \/ BeginInsert(c) \/ ReadBlock(c) \/ BadBlock(c) \/ WriteOk(c)
             \/ WriteFails(c) \/ EndInsert(c)
    BY <2>3 DEF BeginInsert, ReadBlock, BadBlock, WriteOk, WriteFails, EndInsert, reader
  <2> QED
    BY <2>1, <2>2, <2>3 DEF HandlerNext, HandlerReads, HandlerRuns, WriteReturns
<1> QED
  BY <1>1, <1>2 DEF Take

\* What the sink has was read, and still is when more is read or sent.
LEMMA ReadStays ==
    ASSUME NEW b \in Blocks, NEW i \in DOMAIN wire[b[1][1]],
           i < rd[b[1][1]], IsBlock(b[1][1], i), BlockOf(b[1][1], i) = b,
           i \in DOMAIN wire'[b[1][1]], wire'[b[1][1]][i] = wire[b[1][1]][i],
           rd[b[1][1]] \in Nat, rd'[b[1][1]] \in {rd[b[1][1]], rd[b[1][1]] + 1},
           DOMAIN wire[b[1][1]] \subseteq Nat
    PROVE  \E k \in DOMAIN wire'[b[1][1]] :
              k < rd'[b[1][1]] /\ IsBlock(b[1][1], k)' /\ BlockOf(b[1][1], k)' = b
<1> DEFINE d == b[1][1]
<1>1. /\ i \in DOMAIN wire'[d] /\ i < rd'[d]
      /\ IsBlock(d, i)' /\ BlockOf(d, i)' = b
  BY DEF IsBlock, BlockOf
<1> HIDE DEF d
<1> QED
  BY <1>1 DEF d


LEMMA OnceInductive ==
    ASSUME IInv, OnceInv, [Next]_vars
    PROVE  OnceInv'
<1>0. /\ \A b \in inflight \cup stored : b \in Blocks /\ b[1][1] \in Conns
      /\ \A d \in Conns : rd[d] \in Nat /\ DOMAIN wire[d] \subseteq Nat
  <2>1. inflight \cup stored \subseteq Blocks
    BY DEF IInv, TypeOK, SinkTypeOK
  <2>2. \A d \in Conns : rd[d] \in Nat /\ DOMAIN wire[d] \subseteq Nat
    BY LogTypes
  <2> QED
    BY <2>1, <2>2 DEF Blocks, Inserts
<1>1. ASSUME \A d \in Conns : /\ \A i \in DOMAIN wire[d] : /\ i \in DOMAIN wire'[d]
                                                        /\ wire'[d][i] = wire[d][i]
                             /\ rd'[d] \in {rd[d], rd[d] + 1},
             NEW b \in inflight \cup stored
      PROVE  \E i \in DOMAIN wire'[b[1][1]] :
                i < rd'[b[1][1]] /\ IsBlock(b[1][1], i)' /\ BlockOf(b[1][1], i)' = b
  <2>1. PICK i \in DOMAIN wire[b[1][1]] :
           i < rd[b[1][1]] /\ IsBlock(b[1][1], i) /\ BlockOf(b[1][1], i) = b
    BY DEF OnceInv, HandedRead
  <2> QED
    BY <1>0, <1>1, <2>1, ReadStays
<1>2. ASSUME UNCHANGED <<wire, cl, nreq, sent>>
      PROVE  \A c \in Conns : BlocksOnce(c)'
  BY <1>2, OnceStays DEF OnceInv
<1>3. ASSUME UNCHANGED <<wire, cl, nreq, sent, rd>>,
             inflight' \cup stored' \subseteq inflight \cup stored
      PROVE  OnceInv'
  BY <1>1, <1>2, <1>3 DEF OnceInv, HandedRead
<1>4. CASE UNCHANGED vars \/ ProcessNext
  <2>1. UNCHANGED <<wire, client, reader, sink>>
    BY <1>4, ProcessFootprint DEF vars
  <2> QED
    BY <1>3, <2>1 DEF client, reader, sink
<1>5. CASE SinkNext
  <2>1. PICK b \in Blocks : Settle(b)
    BY <1>5 DEF SinkNext
  <2> QED
    BY <1>3, <2>1 DEF Settle, client, reader
<1>6. ASSUME NEW c \in Conns, HandlerNext(c)
      PROVE  OnceInv'
  <2>1. UNCHANGED <<wire, cl, nreq, sent, stored>>
    BY <1>6, HandlerFootprint
  <2>2. \A d \in Conns : rd'[d] \in {rd[d], rd[d] + 1}
    BY <1>6, HandlerReader
  <2>3. \A b \in inflight \cup stored :
           \E i \in DOMAIN wire'[b[1][1]] :
              i < rd'[b[1][1]] /\ IsBlock(b[1][1], i)' /\ BlockOf(b[1][1], i)' = b
    BY <1>1, <2>1, <2>2
  <2>4. CASE UNCHANGED inflight
    BY <1>2, <2>1, <2>3, <2>4 DEF OnceInv, HandedRead
  <2>5. CASE ReadBlock(c)
    <3>0. PICK new : new = <<<<c, cur[c]>>, NextPacket(c).n>>
      OBVIOUS
    <3>1. PICK k \in DOMAIN wire[c] :
             /\ k = rd[c] /\ inflight' = inflight \cup {new} /\ new[1][1] = c
             /\ IsBlock(c, k) /\ BlockOf(c, k) = new
      BY <2>5, <3>0, ReadBlockIsNext
    <3>2. k \in Nat /\ rd'[c] = k + 1
      BY <2>5, <3>1, LogTypes DEF ReadBlock, Take, IInv, TypeOK, HandlerTypeOK
    <3>3. k \in DOMAIN wire'[c] /\ IsBlock(c, k)' /\ BlockOf(c, k)' = new
      BY <2>1, <3>1, <3>2 DEF IsBlock, BlockOf
    <3>4. \E i \in DOMAIN wire'[new[1][1]] :
             /\ i < rd'[new[1][1]] /\ IsBlock(new[1][1], i)'
             /\ BlockOf(new[1][1], i)' = new
      BY <3>1, <3>2, <3>3
    <3> QED
      BY <1>2, <2>1, <2>3, <3>1, <3>4 DEF OnceInv, HandedRead
  <2> QED
    BY <1>6, <2>4, <2>5, HandlerFootprint
<1>7. ASSUME NEW c \in Conns, ClientNext(c)
      PROVE  OnceInv'
  <2>1. \A d \in Conns : BlocksOnce(d)'
    BY <1>7, OnceClient, ClientFootprint, OnceStays DEF OnceInv
  <2>2. UNCHANGED <<reader, sink>>
    BY <1>7, ClientFootprint
  <2>3. \A d \in Conns : \A i \in DOMAIN wire[d] : /\ i \in DOMAIN wire'[d]
                                               /\ wire'[d][i] = wire[d][i]
    BY <1>7, ClientKeepsLog
  <2> QED
    BY <1>1, <2>1, <2>2, <2>3 DEF OnceInv, HandedRead, reader, sink
<1> QED
  BY <1>4, <1>5, <1>6, <1>7 DEF Next

\* No block is handed to the sink twice: each Write is of a block of its own.
THEOREM OnceInvariance == Spec => []OnceInv
<1>1. IInv /\ OnceInv /\ [Next]_vars => OnceInv'
  BY OnceInductive
<1> QED
  BY <1>1, InitOnce, Invariance, PTL DEF Spec

\* A block that is handed in has not been before.
LEMMA HandedInOnce ==
    ASSUME IInv, OnceInv, NEW c \in Conns, ReadBlock(c)
    PROVE  <<<<c, cur[c]>>, NextPacket(c).n>> \notin stored
<1> DEFINE b == <<<<c, cur[c]>>, NextPacket(c).n>>
<1>1. SUFFICES ASSUME b \in stored PROVE FALSE
  OBVIOUS
<1>2. PICK i \in DOMAIN wire[c] : i < rd[c] /\ IsBlock(c, i) /\ BlockOf(c, i) = b
  BY <1>1 DEF OnceInv, HandedRead
<1>3. rd[c] \in DOMAIN wire[c] /\ IsBlock(c, rd[c]) /\ BlockOf(c, rd[c]) = b
  BY ReadBlockIsNext
<1>4. wire[c][i].q = wire[c][rd[c]].q /\ wire[c][i].n = wire[c][rd[c]].n
  BY <1>2, <1>3 DEF BlockOf
<1>5. wire[c][i].n < wire[c][rd[c]].n
  BY <1>2, <1>3, <1>4 DEF OnceInv, BlocksOnce
<1>6. wire[c][i].n \in Nat
  BY <1>2, LogTypes
<1> QED
  BY <1>4, <1>5, <1>6

LEMMA OnceStep ==
    ASSUME IInv, OnceInv, [Next]_vars
    PROVE  [\A b \in stored : b \in inflight' => b \in inflight]_vars
<1>1. ASSUME NEW c \in Conns, HandlerNext(c)
      PROVE  \A b \in stored : b \in inflight' => b \in inflight
  <2>1. CASE inflight' = inflight
    BY <2>1
  <2>2. CASE ReadBlock(c)
    BY <2>2, HandedInOnce, ReadBlockIsNext
  <2> QED
    BY <1>1, <2>1, <2>2, HandlerFootprint
<1>2. CASE ProcessNext \/ \E c \in Conns : ClientNext(c)
  BY <1>2, ProcessFootprint, ClientFootprint DEF sink
<1>3. CASE SinkNext
  BY <1>3 DEF SinkNext, Settle
<1> QED
  BY <1>1, <1>2, <1>3 DEF Next

\* No block that is stored comes to the sink again (insert.go:71).
THEOREM WrittenOnce == Spec => NeverWrittenAgain
BY Invariance, OnceInvariance, OnceStep, PTL DEF Spec, NeverWrittenAgain

-----------------------------------------------------------------------------
\* The refinement.

LEMMA InitService == Init => Service!Init
BY DEF Init, Service!Init, Offered

\* A client sends no more of an acknowledged INSERT.
LEMMA AckedSendsNoMore ==
    ASSUME IInv, NEW c \in Conns, cl[c] \in {"header", "sending"},
           nreq[c] \in 1 .. MaxRequests
    PROVE  <<c, nreq[c]>> \notin acked
BY DEF IInv, HandlerInv, AckedIsFinal

\* The sink makes a block durable that was offered, behind those before it.
LEMMA StoreStep ==
    ASSUME IInv, OrderInv, NEW b \in Blocks, Settle(b)
    PROVE  [Service!Next]_(Service!vars)
<1>1. PICK i \in Inserts, n \in 1 .. MaxBlocks : b = <<i, n>>
  BY DEF Blocks
<1>2. /\ b \in inflight /\ stored' \in {stored, stored \cup {b}}
      /\ UNCHANGED <<wire, acked>>
  BY DEF Settle, history
<1>3. UNCHANGED Offered
  BY <1>2 DEF Offered, IsBlock, BlockOf
<1>4. CASE stored' = stored
  BY <1>2, <1>3, <1>4 DEF Service!vars
<1>5. CASE stored' = stored \cup {b}
  <2>1. <<i, n>> \in Offered /\ \A m \in 1 .. n - 1 : <<i, m>> \in stored
    <3>1. b[1] = i /\ b[2] = n
      BY <1>1
    <3>2. b \in Offered /\ \A m \in 1 .. b[2] - 1 : <<b[1], m>> \in stored
      BY <1>2 DEF OrderInv, HandedInOrder
    <3> QED
      BY <1>1, <3>1, <3>2
  <2>2. Service!Store(i, n)
    BY <1>1, <1>2, <1>3, <1>5, <2>1 DEF Service!Store
  <2> QED
    BY <2>2 DEF Service!Next
<1> QED
  BY <1>2, <1>4, <1>5

\* A handler acknowledges an INSERT whose blocks are all stored.
LEMMA AckStep ==
    ASSUME IInv, IInv', NEW c \in Conns, EndInsert(c)
    PROVE  Service!Next
<1>1. /\ acked' = acked \cup {<<c, cur[c]>>} /\ UNCHANGED <<wire, stored>>
      /\ pc[c] = "insread"
  BY DEF EndInsert, others, sink, At
<1>2. UNCHANGED Offered
  BY <1>1 DEF Offered, IsBlock, BlockOf
<1>3. cur[c] \in 1 .. MaxRequests
  <2>1. <<c, cur[c]>> \in Inserts
    BY <1>1 DEF IInv, TypeOK, SinkTypeOK
  <2> QED
    BY <2>1 DEF Inserts
<1>4. \A n : <<<<c, cur[c]>>, n>> \in Offered' => <<<<c, cur[c]>>, n>> \in stored'
  <2>1. AckedInsertIsStored'
    BY InvariantSuffices, PTL
  <2>2. <<c, cur[c]>> \in acked'
    BY <1>1
  <2> QED
    BY <2>1, <2>2 DEF AckedInsertIsStored
<1>5. Service!Ack(<<c, cur[c]>>)
  BY <1>1, <1>2, <1>4 DEF Service!Ack
<1>6. <<c, cur[c]>> \in Inserts
  BY <1>3 DEF Inserts
<1> QED
  BY <1>5, <1>6 DEF Service!Next

\* A client offers the next block of an INSERT that is not acknowledged.
LEMMA OfferStep ==
    ASSUME IInv, OrderInv, NEW c \in Conns, SendBlock(c)
    PROVE  Service!Next
<1>1. /\ cl[c] = "sending" /\ nreq[c] \in 1 .. MaxRequests
      /\ sent[c] + 1 \in 1 .. MaxBlocks /\ sent[c] \in Nat
  BY SendBlockSends
<1>2. <<c, nreq[c]>> \in Inserts /\ <<c, nreq[c]>> \notin acked
  BY <1>1, AckedSendsNoMore DEF Inserts
<1>3. UNCHANGED <<stored, acked>>
  BY DEF SendBlock, server, sink
<1>4. \A m \in 1 .. (sent[c] + 1) - 1 : <<<<c, nreq[c]>>, m>> \in Offered
  BY <1>1, OrderBlock
<1>5. Service!Offer(<<c, nreq[c]>>, sent[c] + 1)
  BY <1>2, <1>3, <1>4, OrderBlock DEF Service!Offer
<1> QED
  BY <1>1, <1>2, <1>5 DEF Service!Next

LEMMA ServiceStep ==
    ASSUME IInv, IInv', OrderInv, [Next]_vars
    PROVE  [Service!Next]_(Service!vars)
<1>1. CASE UNCHANGED vars \/ ProcessNext
  <2>1. UNCHANGED <<wire, stored, acked>>
    BY <1>1, ProcessFootprint DEF vars, sink, history
  <2> QED
    BY <2>1 DEF Service!vars, Offered, IsBlock, BlockOf
<1>2. CASE SinkNext
  BY <1>2, StoreStep DEF SinkNext
<1>3. ASSUME NEW c \in Conns, HandlerNext(c)
      PROVE  [Service!Next]_(Service!vars)
  <2>1. UNCHANGED <<wire, stored>>
    BY <1>3, HandlerFootprint
  <2>2. CASE UNCHANGED acked
    BY <2>1, <2>2 DEF Service!vars, Offered, IsBlock, BlockOf
  <2>3. CASE EndInsert(c)
    BY <2>3, AckStep
  <2> QED
    BY <1>3, <2>2, <2>3, HandlerFootprint
<1>4. ASSUME NEW c \in Conns, ClientNext(c)
      PROVE  [Service!Next]_(Service!vars)
  <2>1. UNCHANGED <<stored, acked>>
    BY <1>4, ClientFootprint DEF sink
  <2>2. CASE UNCHANGED Offered
    BY <2>1, <2>2 DEF Service!vars
  <2>3. CASE SendBlock(c)
    BY <2>3, OfferStep
  <2> QED
    BY <1>4, <2>2, <2>3, OrderClient
<1> QED
  BY <1>1, <1>2, <1>3, <1>4 DEF Next

\* The wire server implements InsertService: every block that becomes durable
\* was offered and comes behind those before it, an INSERT is acknowledged
\* (insert.go:76) only when all its blocks are durable, and none is offered
\* afterwards.
THEOREM ServiceImplemented == Spec => ImplementsService
<1>1. IInv /\ IInv' /\ OrderInv /\ [Next]_vars => [Service!Next]_(Service!vars)
  BY ServiceStep
<1> QED
  BY <1>1, InitService, Invariance, OrderInvariance, PTL
     DEF Spec, ImplementsService, Service!Spec
=============================================================================
