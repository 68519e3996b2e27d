---------------------------- MODULE InsertService ----------------------------
(***************************************************************************)
(* What an INSERT through hermeneus promises, with no wire, no handlers    *)
(* and no sink in it: a client offers the blocks of an insert one after    *)
(* the other, the sink makes them durable in that order, and the insert is *)
(* acknowledged (EndOfStream) only when everything offered is durable.     *)
(* A block may stay unstored for ever: then the insert is never            *)
(* acknowledged.  A block may also be stored and the insert still fail: a  *)
(* client that was not acknowledged knows nothing.                         *)
(*                                                                         *)
(* ChServer implements this specification (handleInsert, insert.go).       *)
(***************************************************************************)
EXTENDS Naturals

CONSTANTS
    Inserts,    \* the inserts of all clients
    MaxBlocks   \* blocks 1 .. MaxBlocks of each insert

VARIABLES
    offered,    \* blocks <<i, n>> a client has sent
    stored,     \* blocks the sink has made durable
    acked       \* inserts answered with EndOfStream

vars == <<offered, stored, acked>>

Blocks == Inserts \X (1 .. MaxBlocks)

TypeOK ==
    /\ offered \subseteq Blocks
    /\ stored \subseteq offered
    /\ acked \subseteq Inserts

Init ==
    /\ offered = {}
    /\ stored = {}
    /\ acked = {}

\* The client sends block n of insert i, after the ones before it.
Offer(i, n) ==
    /\ i \notin acked
    /\ \A m \in 1 .. n - 1 : <<i, m>> \in offered
    /\ offered' = offered \cup {<<i, n>>}
    /\ UNCHANGED <<stored, acked>>

\* The sink makes an offered block durable, after the ones before it.
Store(i, n) ==
    /\ <<i, n>> \in offered
    /\ \A m \in 1 .. n - 1 : <<i, m>> \in stored
    /\ stored' = stored \cup {<<i, n>>}
    /\ UNCHANGED <<offered, acked>>

\* The insert is confirmed to the client.
Ack(i) ==
    /\ \A n \in 1 .. MaxBlocks : <<i, n>> \in offered => <<i, n>> \in stored
    /\ acked' = acked \cup {i}
    /\ UNCHANGED <<offered, stored>>

Next ==
    \E i \in Inserts :
        \/ \E n \in 1 .. MaxBlocks : Offer(i, n) \/ Store(i, n)
        \/ Ack(i)

Spec == Init /\ [][Next]_vars
=============================================================================
