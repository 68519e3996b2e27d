------------------------------ MODULE ChClient ------------------------------
(***************************************************************************)
(* The clients of the wire server: not code of this repository, modelled   *)
(* from what the server's comments and code expect of ch-go.  A client     *)
(* sends a blank Data packet behind every Query, waits for the header      *)
(* block before it sends the blocks of an INSERT, keeps its connection     *)
(* after an exception and closes it after Cancel.  It may leave at any     *)
(* moment.                                                                 *)
(***************************************************************************)
EXTENDS ChConnection

Send(c, ps) == wire' = [wire EXCEPT ![c] = @ \o ps]

Become(c, s) == cl' = [cl EXCEPT ![c] = s]

\* The client closes the connection; what it has not read is lost.
HangUp(c) == Become(c, "gone") /\ replies' = [replies EXCEPT ![c] = <<>>]

Connect(c) ==
    /\ cl[c] = "off" /\ listening
    /\ \E v \in Versions : Send(c, <<Packet("Hello", v, 0, 0, FALSE)>>)
    /\ Become(c, "greet")
    /\ Goto(c, "backlog")
    /\ UNCHANGED <<process, request, reader, replies, nreq, sent, sink, history>>

\* The client reads a reply with this code.
Receives(c, code) ==
    /\ replies[c] # <<>> /\ Head(replies[c]).code = code
    /\ replies' = [replies EXCEPT ![c] = Tail(@)]

\* ServerHello: a client with quota keys sends the addendum.
GetHello(c) ==
    /\ cl[c] = "greet" /\ Receives(c, "Hello")
    /\ Become(c, "idle")
    /\ Send(c, IF wire[c][1].kind = "quota"
               THEN <<Packet("Addendum", "-", 0, 0, FALSE)>> ELSE <<>>)
    /\ UNCHANGED <<server, nreq, sent, confirmed>>

SendPing(c) ==
    /\ cl[c] = "idle" /\ nreq[c] < MaxRequests
    /\ nreq' = [nreq EXCEPT ![c] = @ + 1]
    /\ Send(c, <<Packet("Ping", "-", nreq[c] + 1, 0, FALSE)>>)
    /\ Become(c, "pinging")
    /\ UNCHANGED <<server, replies, sent, confirmed>>

SendQuery(c, k, z) ==
    /\ cl[c] = "idle" /\ nreq[c] < MaxRequests
    /\ nreq' = [nreq EXCEPT ![c] = @ + 1]
    /\ Send(c, <<Packet("Query", k, nreq[c] + 1, 0, z),
                 Packet("Data", "-", nreq[c] + 1, 0, z)>>)
    /\ sent' = [sent EXCEPT ![c] = 0]
    /\ Become(c, IF k \in InsertKinds THEN "header" ELSE "awaiting")
    /\ UNCHANGED <<server, replies, confirmed>>

\* The compression of the request in hand: every packet of it has the same.
RequestComp(c) == wire[c][Len(wire[c])].comp

SendBlock(c) ==
    /\ cl[c] = "sending" /\ sent[c] < MaxBlocks
    /\ sent' = [sent EXCEPT ![c] = @ + 1]
    /\ Send(c, <<Packet("Data", "-", nreq[c], sent[c] + 1, RequestComp(c))>>)
    /\ UNCHANGED <<server, replies, cl, nreq, confirmed>>

SendEnd(c) ==
    /\ cl[c] = "sending"
    /\ Send(c, <<Packet("Data", "-", nreq[c], 0, RequestComp(c))>>)
    /\ Become(c, "ending")
    /\ UNCHANGED <<server, replies, nreq, sent, confirmed>>

\* Its context is cancelled: ch-go sends Cancel and closes the connection.
Cancel(c) ==
    /\ cl[c] \in {"awaiting", "header", "sending", "ending"}
    /\ Send(c, <<Packet("Cancel", "-", nreq[c], 0, FALSE)>>)
    /\ HangUp(c)
    /\ UNCHANGED <<server, nreq, sent, confirmed>>

GetPong(c) ==
    /\ cl[c] = "pinging" /\ Receives(c, "Pong")
    /\ Become(c, "idle")
    /\ UNCHANGED <<server, wire, nreq, sent, confirmed>>

\* A block of the result, or the header an INSERT waits for.
GetData(c) ==
    /\ cl[c] \in {"awaiting", "header"} /\ Receives(c, "Data")
    /\ Become(c, IF cl[c] = "header" THEN "sending" ELSE "awaiting")
    /\ UNCHANGED <<server, wire, nreq, sent, confirmed>>

GetEnd(c) ==
    /\ cl[c] \in {"awaiting", "header", "ending"} /\ Receives(c, "End")
    /\ confirmed' = IF cl[c] = "ending"
                    THEN confirmed \cup {<<c, nreq[c]>>} ELSE confirmed
    /\ Become(c, "idle")
    /\ UNCHANGED <<server, wire, nreq, sent>>

\* The request failed; the connection is kept, also when an INSERT fails while
\* its blocks are being sent.
GetException(c) ==
    /\ cl[c] \in {"pinging", "awaiting", "header", "sending", "ending"}
    /\ Receives(c, "Exception")
    /\ Become(c, "idle")
    /\ UNCHANGED <<server, wire, nreq, sent, confirmed>>

\* A reply that answers nothing the client asked: it closes the connection.
GetWrongReply(c) ==
    /\ replies[c] # <<>>
    /\ LET code == Head(replies[c]).code IN
          \/ cl[c] = "pinging" /\ code \in {"Data", "End"}
          \/ cl[c] \in {"awaiting", "header", "ending"} /\ code = "Pong"
          \/ cl[c] = "ending" /\ code = "Data"
    /\ HangUp(c)
    /\ UNCHANGED <<server, wire, nreq, sent, confirmed>>

Leave(c) ==
    /\ cl[c] \notin {"off", "gone"}
    /\ HangUp(c)
    /\ UNCHANGED <<server, wire, nreq, sent, confirmed>>

\* The server has closed the connection.
SeeClose(c) == pc[c] = "closed" /\ Leave(c)

-----------------------------------------------------------------------------
ClientReads(c) ==
    \/ GetHello(c) \/ GetPong(c) \/ GetData(c) \/ GetEnd(c)
    \/ GetException(c) \/ GetWrongReply(c)

ClientNext(c) ==
    \/ Connect(c) \/ ClientReads(c) \/ SendPing(c)
    \/ \E k \in Kinds, z \in Compressions : SendQuery(c, k, z)
    \/ SendBlock(c) \/ SendEnd(c) \/ Cancel(c) \/ Leave(c) \/ SeeClose(c)
=============================================================================
