------------------------- MODULE HermeneusInvariant -------------------------
(***************************************************************************)
(* How the server and its Writer stay in step: with this, what each of     *)
(* them keeps by itself (IInv, OrderInv, OnceInv; SinkInv) makes Hermeneus *)
(* implement ChServer, and keep the rows of its blocks in order.           *)
(***************************************************************************)
EXTENDS Hermeneus, ChServerInvariant

\* The server sees stored what the Writer has made durable, and waits for the
\* rest of what it has handed in.
StoredAgrees == stored = StoredBlocks /\ inflight \cap stored = {}

\* No call of Write is made but for a block that was handed in, and a handler is
\* in the call of the block it has read.
CallsAreOfBlocks ==
    /\ \A b \in Blocks : wpc[b] # "off" => b \in inflight \cup stored
    /\ \A c \in Conns : pc[c] = "inswrite" => Call(c) \in inflight \cup stored

JointInv == StoredAgrees /\ CallsAreOfBlocks
=============================================================================
