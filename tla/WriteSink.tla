------------------------------ MODULE WriteSink ------------------------------
(***************************************************************************)
(* What Writer.Write (interface Writer, chserver/server.go) promises to a  *)
(* handler, with no StarRocks and no Kafka in it.  Write(w) is given a     *)
(* batch of records.  It answers nil only when all of them are durable;    *)
(* after an error, any of them may be durable, or become durable later.    *)
(*                                                                         *)
(* InsertSink (StarRocksWriter or KafkaWriter) implements this             *)
(* specification, and the sink of ChServer behaves like it, with one block *)
(* for a batch.                                                            *)
(***************************************************************************)

CONSTANTS
    Calls,      \* calls of Write
    Batch       \* the records given to each of them

VARIABLES
    begun,      \* calls begun
    durable,    \* records <<w, r>> the sink keeps
    result      \* what each call has returned

vars == <<begun, durable, result>>

Records(w) == {<<w, r>> : r \in Batch[w]}

TypeOK ==
    /\ begun \subseteq Calls
    /\ durable \subseteq UNION {Records(w) : w \in begun}
    /\ result \in [Calls -> {"none", "nil", "error"}]

Init ==
    /\ begun = {}
    /\ durable = {}
    /\ result = [w \in Calls |-> "none"]

Begin(w) ==
    /\ w \notin begun
    /\ begun' = begun \cup {w}
    /\ UNCHANGED <<durable, result>>

\* The sink keeps some of the records, at a time of its own.
Keep(w) ==
    /\ w \in begun
    /\ \E rs \in SUBSET Records(w) : durable' = durable \cup rs
    /\ UNCHANGED <<begun, result>>

\* The call answers; it may do so at once.
Return(w, v) ==
    /\ result[w] = "none"
    /\ v = "nil" => Records(w) \subseteq durable
    /\ begun' = begun \cup {w}
    /\ result' = [result EXCEPT ![w] = v]
    /\ UNCHANGED durable

Next == \E w \in Calls : Begin(w) \/ Keep(w) \/ Return(w, "nil") \/ Return(w, "error")

Spec == Init /\ [][Next]_vars
=============================================================================
