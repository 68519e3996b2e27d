---------------------------- MODULE ChConnection ----------------------------
(***************************************************************************)
(* The state of hermeneus's ClickHouse wire server: its process, a handler *)
(* goroutine and a client per connection, the two directions of each       *)
(* connection, and the sink.  ChClient has the steps of the clients,       *)
(* ChServer those of the server.                                           *)
(*                                                                         *)
(* A connection's bytes are modelled packet by packet: wire[c] is all the  *)
(* client has written, rd[c] the packet the handler's reader is at.  A     *)
(* reader that took a packet's code and left its payload unread has        *)
(* left[c] more bytes to take for codes before the next packet.            *)
(***************************************************************************)
EXTENDS Integers, Sequences

CONSTANTS
    Conns,          \* connections
    MaxRequests,    \* bound: requests (queries and pings) per connection
    MaxBlocks,      \* bound: data blocks of one INSERT
    MaxResidue,     \* bound: codes an unread payload is taken for
    Kinds,          \* the kinds of query clients send
    Compressions,   \* the Compression flags of the queries clients send
    Versions,       \* protocol versions of the clients
    SrConfigured    \* HERMENEUS_SR_HOST is set, so that the *sql.DB exists

InsertKinds == {"insert", "badinsert"}

AllKinds == {"probe", "unknown", "select"} \cup InsertKinds

ASSUME BoundsAssumption ==
    MaxRequests \in Nat /\ MaxBlocks \in Nat /\ MaxResidue \in Nat

ASSUME InputsAssumption ==
    /\ Kinds \subseteq AllKinds
    /\ Compressions \subseteq BOOLEAN
    /\ Versions \subseteq {"old", "quota"}
    /\ SrConfigured \in BOOLEAN

VARIABLES
    \* the process
    ctxDone,    \* SIGINT or SIGTERM arrived: ctx is cancelled
    listening,  \* the listener is open
    srv,        \* "serving", ListenAndServe "returned", process "exited"
    \* a connection's handler goroutine
    pc,         \* where the handler is
    cur,        \* the request it handles
    kind,       \* what the text of that query is
    comp,       \* cc.compressed
    blk,        \* the block of the INSERT it read last
    rd,         \* the next packet its reader takes
    left,       \* payload of packet rd - 1 it will take for packet codes
    \* the two directions of a connection
    wire,       \* everything the client has written
    replies,    \* what the client has not read yet
    \* a connection's client
    cl,         \* what the client does
    nreq,       \* its requests so far
    sent,       \* blocks of the current INSERT it has sent
    \* the sink, in blocks <<<<connection, request>>, number>>
    inflight,   \* handed to the sink, fate unknown
    stored,     \* durable
    \* history
    acked,      \* inserts <<connection, request>> answered with EndOfStream
    confirmed,  \* inserts whose client read that EndOfStream
    failed,     \* connections with an INSERT failed between its blocks
    desync      \* connections whose reader took bytes for what they are not

process == <<ctxDone, listening, srv>>
request == <<cur, kind, comp, blk>>
reader  == <<rd, left>>
client  == <<cl, nreq, sent>>
sink    == <<inflight, stored>>
history == <<acked, confirmed, failed, desync>>

\* What a handler leaves alone, and what a client does.
others == <<process, wire, client, confirmed>>
server == <<process, pc, request, reader, sink, acked, failed, desync>>

vars == <<process, pc, request, reader, wire, replies, client, sink, history>>

-----------------------------------------------------------------------------
\* Packets.  q, the request a packet belongs to, and the number n of a block
\* are not on the wire: they are there for the properties.  n = 0 is the blank
\* block, which ends an INSERT and follows every Query.

PacketKinds == AllKinds \cup {"old", "quota", "-"}

Packets == [code : {"Hello", "Addendum", "Ping", "Query", "Data", "Cancel"},
            kind : PacketKinds, q : 0 .. MaxRequests, n : 0 .. MaxBlocks,
            comp : BOOLEAN]

Packet(code, k, q, n, z) ==
    [code |-> code, kind |-> k, q |-> q, n |-> n, comp |-> z]

\* Replies.  A result is a Data reply and an End reply (EndOfStream).

Replies == [code : {"Hello", "Pong", "Data", "End", "Exception"},
            q : 0 .. MaxRequests, comp : BOOLEAN]

Reply(code, q, z) == [code |-> code, q |-> q, comp |-> z]

PCs == {"off", "backlog", "hello", "addendum", "loop", "read", "drain",
        "route", "query", "insread", "inswrite", "lost", "closed"}

\* The handler blocks on the client's bytes.
ReadingPCs == {"hello", "addendum", "read", "drain", "insread", "lost"}

Clients == {"off", "greet", "idle", "pinging", "awaiting", "header",
            "sending", "ending", "gone"}

\* The client waits for the server.
WaitingClients == {"greet", "pinging", "awaiting", "header", "ending"}

Inserts == Conns \X (1 .. MaxRequests)

Blocks == Inserts \X (1 .. MaxBlocks)

ProcessTypeOK ==
    /\ ctxDone \in BOOLEAN
    /\ listening \in BOOLEAN
    /\ srv \in {"serving", "returned", "exited"}

HandlerTypeOK ==
    /\ pc \in [Conns -> PCs]
    /\ cur \in [Conns -> 0 .. MaxRequests]
    /\ kind \in [Conns -> PacketKinds]
    /\ comp \in [Conns -> BOOLEAN]
    /\ blk \in [Conns -> 0 .. MaxBlocks]
    /\ rd \in [Conns -> Nat]
    /\ left \in [Conns -> 0 .. MaxResidue]

ClientTypeOK ==
    /\ wire \in [Conns -> Seq(Packets)]
    /\ replies \in [Conns -> Seq(Replies)]
    /\ cl \in [Conns -> Clients]
    /\ nreq \in [Conns -> 0 .. MaxRequests]
    /\ sent \in [Conns -> 0 .. MaxBlocks]

SinkTypeOK ==
    /\ inflight \subseteq Blocks
    /\ stored \subseteq Blocks
    /\ acked \subseteq Inserts
    /\ confirmed \subseteq Inserts
    /\ failed \in [Conns -> BOOLEAN]
    /\ desync \in [Conns -> BOOLEAN]

\* Every variable has its type.
TypeOK == ProcessTypeOK /\ HandlerTypeOK /\ ClientTypeOK /\ SinkTypeOK

Init ==
    /\ ctxDone = FALSE
    /\ listening = TRUE
    /\ srv = "serving"
    /\ pc = [c \in Conns |-> "off"]
    /\ cur = [c \in Conns |-> 0]
    /\ kind = [c \in Conns |-> "-"]
    /\ comp = [c \in Conns |-> FALSE]
    /\ blk = [c \in Conns |-> 0]
    /\ rd = [c \in Conns |-> 1]
    /\ left = [c \in Conns |-> 0]
    /\ wire = [c \in Conns |-> <<>>]
    /\ replies = [c \in Conns |-> <<>>]
    /\ cl = [c \in Conns |-> "off"]
    /\ nreq = [c \in Conns |-> 0]
    /\ sent = [c \in Conns |-> 0]
    /\ inflight = {}
    /\ stored = {}
    /\ acked = {}
    /\ confirmed = {}
    /\ failed = [c \in Conns |-> FALSE]
    /\ desync = [c \in Conns |-> FALSE]

Goto(c, p) == pc' = [pc EXCEPT ![c] = p]
=============================================================================
