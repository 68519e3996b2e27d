-------------------------- MODULE ChServerInvariant -------------------------
(***************************************************************************)
(* The inductive invariant behind AckedInsertIsStored.  What a handler     *)
(* confirms depends on what it has read, and what it has read on the order *)
(* in which the client wrote: so the invariant describes the log wire[c]   *)
(* (requests in order, blocks of an INSERT behind its Query and before its *)
(* end), the place rd[c] of the handler in it, and then what is stored of  *)
(* the part already read.                                                  *)
(***************************************************************************)
EXTENDS ChServerProperties

\* Packet i of c ends an INSERT: Cancel, or a blank block that is not the one
\* behind a Query.
Ends(c, i) ==
    \/ wire[c][i].code = "Cancel"
    \/ /\ wire[c][i].code = "Data" /\ wire[c][i].n = 0
       /\ i > 1 /\ wire[c][i - 1].code # "Query"

\* The client is at its first packets, or sends the packets of request nreq.
ClientPlace(c) ==
    /\ cl[c] = "off" => wire[c] = <<>>
    /\ cl[c] \in {"off", "greet"} => nreq[c] = 0
    /\ cl[c] # "off" => wire[c] # <<>>
    /\ cl[c] \in {"awaiting", "header", "sending", "ending"} =>
          wire[c][Len(wire[c])].q = nreq[c] /\ nreq[c] > 0

\* The packets of a request follow its first one, requests follow in order.
RequestsInOrder(c) ==
    \A i \in DOMAIN wire[c] :
        /\ wire[c][i].q <= nreq[c]
        /\ wire[c][i].code \in {"Query", "Data"} => wire[c][i].q > 0
        /\ \A j \in 1 .. i - 1 : wire[c][j].q <= wire[c][i].q
        /\ wire[c][i].code = "Query" =>
              \A j \in 1 .. i - 1 : wire[c][j].q < wire[c][i].q
        /\ i > 1 /\ wire[c][i].code \notin {"Query", "Ping"} =>
              wire[c][i].q = wire[c][i - 1].q

\* A blank block follows every Query.
BlankBehindQuery(c) ==
    \A i \in DOMAIN wire[c] :
        wire[c][i].code = "Query" =>
            /\ i + 1 \in DOMAIN wire[c]
            /\ wire[c][i + 1].code = "Data"
            /\ wire[c][i + 1].n = 0

\* An INSERT that is being sent has not ended yet,
OpenInsert(c) ==
    cl[c] \in {"header", "sending"} =>
        \A i \in DOMAIN wire[c] : Ends(c, i) => wire[c][i].q # nreq[c]

\* and no block of an INSERT comes behind its end.
NothingBehindEnd(c) ==
    \A i, j \in DOMAIN wire[c] :
        i < j /\ Ends(c, i) /\ wire[c][j].q = wire[c][i].q => ~IsBlock(c, j)

LogInv(c) ==
    /\ ClientPlace(c)
    /\ RequestsInOrder(c)
    /\ BlankBehindQuery(c)
    /\ OpenInsert(c)
    /\ NothingBehindEnd(c)

\* The handler has a request in hand.
InRequest == {"drain", "route", "query", "insread", "inswrite"}

\* Then it stands among the packets of that request.
HandlerPlace(c) ==
    /\ rd[c] > 0
    /\ pc[c] \in InRequest =>
          rd[c] - 1 \in DOMAIN wire[c] /\ wire[c][rd[c] - 1].q = cur[c]
    /\ pc[c] = "drain" => wire[c][rd[c] - 1].code = "Query"
    /\ pc[c] \in InRequest \ {"drain"} => wire[c][rd[c] - 1].code = "Data"

\* Before an INSERT's header the handler has read none of its blocks; between
\* two blocks all it has read are stored, during a Write all but the last one.
ReadBlocksStored(c) ==
    /\ pc[c] \in {"drain", "route"} =>
          \A i \in DOMAIN wire[c] :
              i < rd[c] /\ wire[c][i].q = cur[c] => ~IsBlock(c, i)
    /\ pc[c] = "insread" =>
          \A i \in DOMAIN wire[c] :
              i < rd[c] /\ wire[c][i].q = cur[c] /\ IsBlock(c, i)
                  => BlockOf(c, i) \in stored
    /\ pc[c] = "inswrite" =>
          /\ wire[c][rd[c] - 1].n = blk[c]
          /\ \A i \in DOMAIN wire[c] :
                i < rd[c] - 1 /\ wire[c][i].q = cur[c] /\ IsBlock(c, i)
                    => BlockOf(c, i) \in stored

\* An acknowledged INSERT is stored, and its client sends no more of it.
AckedIsFinal(c) ==
    \A q \in 1 .. MaxRequests :
        <<c, q>> \in acked =>
            /\ q = nreq[c] => cl[c] \notin {"header", "sending"}
            /\ q <= nreq[c]
            /\ \A i \in DOMAIN wire[c] :
                  wire[c][i].q = q /\ IsBlock(c, i) => BlockOf(c, i) \in stored

HandlerInv(c) ==
    /\ HandlerPlace(c)
    /\ ReadBlocksStored(c)
    /\ AckedIsFinal(c)

IInv ==
    /\ TypeOK
    /\ \A c \in Conns : LogInv(c) /\ HandlerInv(c)

-----------------------------------------------------------------------------
(***************************************************************************)
(* The invariant behind StoredInBlockOrder and ImplementsService: a client *)
(* numbers the blocks of an INSERT one by one, and a block is handed to    *)
(* the sink only when all before it are stored.                            *)
(***************************************************************************)

\* A block comes behind all earlier blocks of its INSERT.
BlocksInOrder(c) ==
    \A i \in DOMAIN wire[c] :
        IsBlock(c, i) =>
            \A m \in 1 .. wire[c][i].n - 1 :
                \E j \in 1 .. i - 1 :
                    IsBlock(c, j) /\ BlockOf(c, j) = <<<<c, wire[c][i].q>>, m>>

\* A client has sent the blocks it has counted.
SentInLog(c) ==
    cl[c] \in {"header", "sending"} =>
        \A m \in 1 .. sent[c] :
            \E j \in DOMAIN wire[c] :
                IsBlock(c, j) /\ BlockOf(c, j) = <<<<c, nreq[c]>>, m>>

\* What the sink has was offered, behind blocks that are stored.
HandedInOrder ==
    \A b \in inflight \cup stored :
        /\ b \in Offered
        /\ \A m \in 1 .. b[2] - 1 : <<b[1], m>> \in stored

OrderInv == HandedInOrder /\ \A c \in Conns : BlocksInOrder(c) /\ SentInLog(c)

\* No block is sent twice,
BlocksOnce(c) ==
    /\ \A i, j \in DOMAIN wire[c] :
          i < j /\ IsBlock(c, i) /\ IsBlock(c, j) /\ wire[c][i].q = wire[c][j].q
              => wire[c][i].n < wire[c][j].n
    /\ cl[c] \in {"header", "sending"} =>
          \A i \in DOMAIN wire[c] :
              IsBlock(c, i) /\ wire[c][i].q = nreq[c] => wire[c][i].n <= sent[c]

\* and what the sink has, its handler has read: so no block is handed in twice.
HandedRead ==
    \A b \in inflight \cup stored :
        \E i \in DOMAIN wire[b[1][1]] :
            i < rd[b[1][1]] /\ IsBlock(b[1][1], i) /\ BlockOf(b[1][1], i) = b

OnceInv == HandedRead /\ \A c \in Conns : BlocksOnce(c)

-----------------------------------------------------------------------------
(***************************************************************************)
(* The invariant behind the properties of the dialogue.  As long as the    *)
(* reader has the packet boundaries, client and handler are in one of the  *)
(* phases below together: what the client waits for, where the handler is, *)
(* and what is on its way back between them.                               *)
(***************************************************************************)

\* Every connection begins with the handshake.
HandshakeFirst(c) ==
    /\ \A i \in DOMAIN wire[c] :
          /\ wire[c][i].code = "Hello" <=> i = 1
          /\ wire[c][i].code = "Addendum" <=> i = 2 /\ wire[c][1].kind = "quota"
    /\ cl[c] = "greet" => Len(wire[c]) = 1
    /\ cl[c] \notin {"off", "greet", "gone"} =>
          Len(wire[c]) > 1 \/ wire[c][1].kind # "quota"

Begins(c, i) == wire[c][i].code \in {"Query", "Ping"}

\* A Query or a Ping begins a new request; behind the end of an INSERT comes at
\* most a Cancel, and behind Cancel nothing, as the client is gone.
RequestsBegin(c) ==
    \A i \in DOMAIN wire[c] :
        /\ Begins(c, i) => \A j \in 1 .. i - 1 : wire[c][j].q < wire[c][i].q
        /\ Ends(c, i) => \A j \in i + 1 .. Len(wire[c]) :
                            wire[c][j].q = wire[c][i].q => wire[c][j].code = "Cancel"
        /\ wire[c][i].code = "Cancel" => cl[c] = "gone"

\* What the client has sent last.
LastSent(c) ==
    LET last == Len(wire[c])
    IN  /\ cl[c] = "pinging" =>
              /\ last > 0 /\ wire[c][last].code = "Ping"
              /\ wire[c][last].q = nreq[c] /\ ~wire[c][last].comp
        /\ cl[c] \in {"awaiting", "header"} =>
              /\ last > 1 /\ wire[c][last - 1].code = "Query"
              /\ wire[c][last - 1].q = nreq[c] /\ wire[c][last].q = nreq[c]
              /\ wire[c][last - 1].comp = wire[c][last].comp
              /\ wire[c][last - 1].kind \in InsertKinds <=> cl[c] = "header"
        /\ cl[c] = "ending" => last > 0 /\ Ends(c, last)

LogSync(c) == HandshakeFirst(c) /\ RequestsBegin(c) /\ LastSent(c)

\* The reader is at a packet that is there or comes next; it passes the
\* handshake first; a handler with an INSERT in hand has not read its end.
ReaderPlace(c) ==
    /\ rd[c] <= Len(wire[c]) + 1
    /\ pc[c] \in {"off", "backlog", "hello"} => rd[c] = 1
    /\ pc[c] = "addendum" => rd[c] = 2 /\ wire[c][1].kind = "quota"
    /\ pc[c] \notin {"off", "backlog", "hello", "addendum", "closed"} =>
          rd[c] > 1 /\ (wire[c][1].kind = "quota" => rd[c] > 2)
    /\ pc[c] \in InRequest \ {"drain"} => ~Ends(c, rd[c] - 1)
    /\ left[c] > 0 \/ pc[c] = "lost" => desync[c]
    /\ ~desync[c] /\ pc[c] \in {"loop", "read"} => wire[c][rd[c] - 1].code # "Query"

\* Packet i is of the blocks of an INSERT or the blank one behind them.
OfInsert(c, i) == wire[c][i].code = "Data" /\ i > 1 /\ wire[c][i - 1].code # "Query"

\* Until an INSERT has failed, only a handler that reads an INSERT has packets
\* of one before it, and of no other.
UnreadInsert(c) ==
    ~desync[c] /\ ~failed[c] =>
        \A i \in rd[c] .. Len(wire[c]) :
            OfInsert(c, i) =>
                \/ pc[c] \in {"insread", "inswrite"} /\ wire[c][i].q = cur[c]
                \/ pc[c] = "closed"

\* The requests the handler has not read.
Unserved(c) == {i \in rd[c] .. Len(wire[c]) : Begins(c, i)}

\* A reply to the current request, as it is asked for.
Owed(c, code) == Reply(code, nreq[c], RequestComp(c))

Hello == Reply("Hello", 0, FALSE)

\* The connection is being made.
Greeting(c) ==
    /\ cl[c] = "greet"
    /\ \/ pc[c] \in {"backlog", "hello"} /\ replies[c] = <<>>
       \/ pc[c] \in {"addendum", "loop", "read"} /\ replies[c] = <<Hello>>
       \/ pc[c] = "closed" /\ replies[c] \in {<<>>, <<Hello>>}

\* The client asks for nothing.
Resting(c) ==
    /\ cl[c] = "idle" /\ replies[c] = <<>>
    /\ pc[c] \in {"addendum", "loop", "read", "closed"}
    /\ Unserved(c) = {}

\* The handler has not come to the current request.
Ahead(c) ==
    /\ cl[c] \in {"pinging", "awaiting", "header"} /\ replies[c] = <<>>
    /\ pc[c] \in {"addendum", "loop", "read", "closed"}
    /\ Unserved(c) # {} /\ \A i \in Unserved(c) : wire[c][i].q = nreq[c]

\* The handler has the current request in hand.
InHand(c) ==
    /\ cur[c] = nreq[c] /\ comp[c] = RequestComp(c) /\ Unserved(c) = {}
    /\ \/ /\ cl[c] = "awaiting" /\ pc[c] \in {"drain", "route", "query"}
          /\ kind[c] \notin InsertKinds /\ replies[c] = <<>>
       \/ /\ cl[c] = "header" /\ pc[c] \in {"drain", "route"}
          /\ kind[c] \in InsertKinds /\ replies[c] = <<>>
       \/ cl[c] = "header" /\ pc[c] = "insread" /\ replies[c] = <<Owed(c, "Data")>>
       \/ /\ cl[c] \in {"sending", "ending"} /\ pc[c] \in {"insread", "inswrite"}
          /\ replies[c] = <<>>

\* The handler is done with the current request and what answers it is on its
\* way.
Answered(c) ==
    /\ pc[c] \in {"loop", "read", "closed"} /\ Unserved(c) = {}
    /\ \/ cl[c] = "pinging" /\ replies[c] = <<Owed(c, "Pong")>>
       \/ cl[c] = "awaiting" /\ replies[c] = <<Owed(c, "Data"), Owed(c, "End")>>
       \/ cl[c] = "awaiting" /\ replies[c] = <<Owed(c, "End")>>
       \/ cl[c] \in {"awaiting", "header"} /\ replies[c] = <<Owed(c, "Exception")>>
       \/ /\ cl[c] \in {"sending", "ending"} /\ failed[c]
          /\ replies[c] = <<Owed(c, "Exception")>>
       \/ /\ cl[c] = "ending" /\ <<c, nreq[c]>> \in acked
          /\ replies[c] = <<Owed(c, "End")>>

\* The connection was closed with the current request in hand.
CutOff(c) ==
    /\ pc[c] = "closed"
    /\ \/ cl[c] \in {"awaiting", "header", "sending", "ending"} /\ replies[c] = <<>>
       \/ cl[c] = "header" /\ replies[c] = <<Owed(c, "Data")>>

InPhase(c) ==
    Greeting(c) \/ Resting(c) \/ Ahead(c) \/ InHand(c) \/ Answered(c) \/ CutOff(c)

Dialogue(c) ==
    /\ cl[c] = "off" => pc[c] = "off"
    /\ cl[c] \in {"off", "gone"} => replies[c] = <<>>
    /\ ~desync[c] /\ cl[c] \notin {"off", "gone"} => InPhase(c)

\* A client is right to take its INSERT for acknowledged.
ConfirmedAcked(c) ==
    ~desync[c] => \A q \in 1 .. MaxRequests : <<c, q>> \in confirmed => <<c, q>> \in acked

Sync(c) ==
    /\ LogSync(c) /\ ReaderPlace(c)
    /\ UnreadInsert(c) /\ Dialogue(c) /\ ConfirmedAcked(c)

SyncInv == \A c \in Conns : Sync(c)
=============================================================================
