------------------------- MODULE ChServerProperties -------------------------
(***************************************************************************)
(* What the wire server must guarantee.                                    *)
(***************************************************************************)
EXTENDS ChServer

\* The block a Data packet carries.
BlockOf(c, i) == <<<<c, wire[c][i].q>>, wire[c][i].n>>

IsBlock(c, i) == wire[c][i].code = "Data" /\ wire[c][i].n > 0

\* All blocks of INSERTs that clients have sent.
Offered ==
    UNION {{BlockOf(c, i) : i \in {j \in DOMAIN wire[c] : IsBlock(c, j)}} :
              c \in Conns}

\* EndOfStream for an INSERT (insert.go:76) means that every block its client
\* sent is durable: the handler has read all of them and each Write has
\* returned nil.
AckedInsertIsStored ==
    \A b \in Offered : b[1] \in acked => b \in stored

\* What a client takes for the confirmation of its INSERT is one: what it sent
\* is durable (unless its connection has lost the packet boundaries).
ConfirmedIsStored ==
    \A b \in Offered :
        b[1] \in confirmed /\ ~desync[b[1][1]] => b \in stored

\* The blocks of an INSERT become durable in the order they were sent, so that
\* a failed INSERT leaves a prefix (insert.go:71 stops at the first error).
StoredInBlockOrder ==
    \A b \in stored : \A m \in 1 .. b[2] - 1 : <<b[1], m>> \in stored

\* What a Write has stored, be it one that ended in an error, is never written
\* again (insert.go:71): each Write has a label of its own (streamload.go:53), so
\* that StarRocks would keep the rows twice.
NeverWrittenAgain == [][\A b \in stored : b \in inflight' => b \in inflight]_vars

\* Whatever a client is about to read answers the request it waits for, in the
\* compression that request asked for (server.go:133-136).
RepliesMatchRequests ==
    \A c \in Conns :
        ~desync[c] =>
            \A i \in DOMAIN replies[c] :
                LET r == replies[c][i]
                IN  \/ r.code = "Hello"
                    \/ r.q = nreq[c] /\ r.comp = RequestComp(c)

\* Only a failed INSERT, whose remaining blocks nobody reads, can make a reader
\* take bytes for a packet code that are none (server.go:116, insert.go:71).
OnlyFailedInsertDesyncs == \A c \in Conns : desync[c] => failed[c]

\* server.go:268-270 has the rule: what a client sends is consumed, "else its
\* bytes are misread as the next packet code".
NeverDesynced == \A c \in Conns : ~desync[c]

\* Client and handler never wait for each other with nothing under way.
NoMutualWait ==
    \A c \in Conns :
        ~ /\ ~desync[c]
          /\ pc[c] \in ReadingPCs /\ ~Arrived(c)
          /\ cl[c] \in WaitingClients /\ replies[c] = <<>>

\* The wire server implements the insert service.
Service == INSTANCE InsertService WITH
    Inserts <- Inserts, MaxBlocks <- MaxBlocks,
    offered <- Offered, stored <- stored, acked <- acked

ImplementsService == Service!Spec

\* A client that has sent its whole INSERT is answered or sees the connection
\* close.
InsertAnswered ==
    \A c \in Conns : cl[c] = "ending" ~> cl[c] # "ending" \/ desync[c]

\* A client waits for ever for the result of a query only while StarRocks does
\* not answer that query (server.go:161).
OnlyStarRocksStalls ==
    \A c \in Conns :
        <>[](cl[c] = "awaiting") => <>[](pc[c] = "query" \/ desync[c])

\* A signal ends the process, whatever its handlers are doing (server.go:44-56,
\* main.go:46).
ShutdownCompletes == ctxDone ~> srv = "exited"
=============================================================================
