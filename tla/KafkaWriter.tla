----------------------------- MODULE KafkaWriter -----------------------------
(***************************************************************************)
(* Kafka.Write: one message per record, produced together and awaited, and *)
(* Close, which main defers.  The client (franz-go, external) answers for  *)
(* each message by itself.  It is the idempotent producer that franz-go is *)
(* by default, which NewKafka keeps: a message under way is not given up   *)
(* for the deadline of its Write, only by Close, and the broker may append *)
(* it even then.                                                           *)
(***************************************************************************)
EXTENDS Naturals

CONSTANTS
    Calls,          \* calls of Write
    Batch,          \* the records given to each of them
    Mapped,         \* the calls whose target has a topic
    HasBrokers      \* HERMENEUS_KAFKA_BROKERS is set, so that the client exists

VARIABLES
    pc,         \* where a call is
    message,    \* what the client knows of the message of a record
    log,        \* records <<w, r>> the brokers have appended
    closed,     \* Close has been called
    result      \* what Write has returned

vars == <<pc, message, log, closed, result>>

Records(w) == {<<w, r>> : r \in Batch[w]}

AllRecords == UNION {Records(w) : w \in Calls}

TypeOK ==
    /\ pc \in [Calls -> {"off", "producing", "done"}]
    /\ message \in [AllRecords -> {"none", "buffered", "sent", "acked", "failed", "unknown"}]
    /\ log \subseteq AllRecords
    /\ closed \in BOOLEAN
    /\ result \in [Calls -> {"none", "nil", "error"}]

Init ==
    /\ pc = [w \in Calls |-> "off"]
    /\ message = [m \in AllRecords |-> "none"]
    /\ log = {}
    /\ closed = FALSE
    /\ result = [w \in Calls |-> "none"]

\* The messages ms become s.
Become(ms, s) == message' = [m \in AllRecords |-> IF m \in ms THEN s ELSE message[m]]

Return(w, v) ==
    /\ pc' = [pc EXCEPT ![w] = "done"]
    /\ result' = [result EXCEPT ![w] = v]

-----------------------------------------------------------------------------
\* Write without a client or without a topic fails; otherwise the messages are
\* given to ProduceSync, which fails them at once on a closed client.
Begin(w) ==
    /\ pc[w] = "off"
    /\ \/ ~(HasBrokers /\ w \in Mapped) /\ Return(w, "error") /\ UNCHANGED message
       \/ /\ HasBrokers /\ w \in Mapped
          /\ pc' = [pc EXCEPT ![w] = "producing"]
          /\ Become(Records(w), IF closed THEN "failed" ELSE "buffered")
          /\ UNCHANGED result
    /\ UNCHANGED <<log, closed>>

\* Mutant of NoneFailed: the outcome of one message stands for all.
SomeAcked(w) == Batch[w] = {} \/ \E m \in Records(w) : message[m] = "acked"

\* FirstErr of the results is nil.
NoneFailed(w) == \A m \in Records(w) : message[m] \notin {"failed", "unknown"}

\* ProduceSync returns when it has an answer for every message.
Settled(w) == \A m \in Records(w) : message[m] \in {"acked", "failed", "unknown"}

Finish(w) ==
    /\ pc[w] = "producing" /\ Settled(w)
    /\ Return(w, IF NoneFailed(w) THEN "nil" ELSE "error")
    /\ UNCHANGED <<message, log, closed>>

\* Mutant of Timeout: Write runs without a deadline.
NoTimeout(w) == FALSE

Unsent(w) == {m \in Records(w) : message[m] = "buffered"}

\* The 30 seconds of Write's context: what is not under way yet has failed.
Timeout(w) ==
    /\ pc[w] = "producing" /\ Unsent(w) # {}
    /\ Become(Unsent(w), "failed")
    /\ UNCHANGED <<pc, log, closed, result>>

\* The client fails what it still holds, and gives up what is under way.
GiveUp ==
    message' = [m \in AllRecords |->
        CASE message[m] = "buffered" -> "failed"
          [] message[m] = "sent" -> "unknown"
          [] OTHER -> message[m]]

\* Close, when main returns.
Close ==
    /\ HasBrokers /\ ~closed /\ closed' = TRUE /\ GiveUp
    /\ UNCHANGED <<pc, log, result>>

-----------------------------------------------------------------------------
\* The client's senders and the brokers (external).

Send(m) ==
    /\ message[m] = "buffered" /\ Become({m}, "sent")
    /\ UNCHANGED <<pc, log, closed, result>>

\* A broker appends a message it has been sent, also when nobody waits for it.
Append(m) ==
    /\ message[m] \in {"sent", "unknown"} /\ m \notin log
    /\ log' = log \cup {m}
    /\ UNCHANGED <<pc, message, closed, result>>

\* Mutant of Acknowledge: the client asks for no acknowledgement (kgo.NoAck).
AcknowledgeUnasked(m) ==
    /\ message[m] = "sent" /\ Become({m}, "acked")
    /\ UNCHANGED <<pc, log, closed, result>>

Acknowledge(m) ==
    /\ message[m] = "sent" /\ m \in log /\ Become({m}, "acked")
    /\ UNCHANGED <<pc, log, closed, result>>

\* A broker refuses one message of the batch.
Refuse(m) ==
    /\ message[m] = "sent" /\ Become({m}, "failed")
    /\ UNCHANGED <<pc, log, closed, result>>

-----------------------------------------------------------------------------
Next ==
    \/ \E w \in Calls : Begin(w) \/ Finish(w) \/ Timeout(w)
    \/ Close
    \/ \E m \in AllRecords : Send(m) \/ Append(m) \/ Acknowledge(m) \/ Refuse(m)

Spec == Init /\ [][Next]_vars
=============================================================================
