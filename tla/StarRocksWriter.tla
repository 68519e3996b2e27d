--------------------------- MODULE StarRocksWriter ---------------------------
(***************************************************************************)
(* Client.Write of the StarRocks adapter: Stream Load over HTTP, or one    *)
(* INSERT statement over the MySQL wire, against a StarRocks (external)    *)
(* that redirects, loads, answers late or never.                           *)
(*                                                                         *)
(* A call labels its load with a fresh UUID, so that StarRocks has one     *)
(* transaction for it: txn[w].  hermeneus asks for no max_filter_ratio: a  *)
(* load with a bad row is aborted.                                         *)
(***************************************************************************)
EXTENDS Naturals

CONSTANTS
    Calls,          \* calls of Write
    Batch,          \* the records given to each of them
    MaxHops,        \* the loop of put: 10 in the code
    Modes           \* values of HERMENEUS_SR_WRITE_MODE, one for the process

ASSUME MaxHopsAssumption == MaxHops \in Nat \ {0}

ASSUME ModesAssumption == Modes \subseteq {"stream_load", "insert", "other"}

VARIABLES
    mode,       \* cfg.WriteMode
    db,         \* the *sql.DB exists: HERMENEUS_SR_HOST is set
    pc,         \* where a call is
    hop,        \* redirects it has followed
    asked,      \* a request of it is on its way to StarRocks
    txn,        \* its transaction
    answer,     \* the answer on its way back
    result      \* what Write has returned

config == <<mode, db>>
client == <<config, pc, hop, result>>
vars == <<client, asked, txn, answer>>

Answers == {"redirect", "lost redirect", "http error", "bad body", "Success",
            "Publish Timeout", "Fail", "OK", "SQL error"}

TypeOK ==
    /\ mode \in Modes
    /\ db \in BOOLEAN
    /\ pc \in [Calls -> {"off", "put", "exec", "waiting", "done"}]
    /\ hop \in [Calls -> 0 .. MaxHops]
    /\ asked \in [Calls -> BOOLEAN]
    /\ txn \in [Calls -> {"none", "loading", "committed", "visible", "aborted"}]
    /\ answer \in [Calls -> Answers \cup {"none"}]
    /\ result \in [Calls -> {"none", "nil", "error"}]

Init ==
    /\ mode \in Modes
    /\ db \in BOOLEAN
    /\ pc = [w \in Calls |-> "off"]
    /\ hop = [w \in Calls |-> 0]
    /\ asked = [w \in Calls |-> FALSE]
    /\ txn = [w \in Calls |-> "none"]
    /\ answer = [w \in Calls |-> "none"]
    /\ result = [w \in Calls |-> "none"]

Goto(w, p) == pc' = [pc EXCEPT ![w] = p]

Return(w, v) == Goto(w, "done") /\ result' = [result EXCEPT ![w] = v]

-----------------------------------------------------------------------------
\* Write.

\* The body of Write before anything is sent.  Without a host Stream Load
\* still tries; only insert mode needs the *sql.DB.
Begin(w) ==
    /\ pc[w] = "off"
    /\ \/ Batch[w] = {} /\ Return(w, "nil")
       \/ Batch[w] # {} /\ mode = "stream_load" /\ Goto(w, "put") /\ UNCHANGED result
       \/ Batch[w] # {} /\ mode = "insert" /\ db
             /\ Goto(w, "exec") /\ UNCHANGED result
       \/ Batch[w] # {} /\ mode = "insert" /\ ~db /\ Return(w, "error")
       \/ Batch[w] # {} /\ mode = "other" /\ Return(w, "error")
    /\ UNCHANGED <<config, hop, asked, txn, answer>>

\* Mutant of MayHop: the bound of the loop is one too far.
OneMoreHop(w) == hop[w] <= MaxHops

MayHop(w) == hop[w] < MaxHops

\* put sends the request, or gives up after MaxHops redirects.
Put(w) ==
    /\ pc[w] = "put"
    /\ \/ /\ MayHop(w)
          /\ asked' = [asked EXCEPT ![w] = TRUE]
          /\ Goto(w, "waiting") /\ UNCHANGED result
       \/ ~MayHop(w) /\ Return(w, "error") /\ UNCHANGED asked
    /\ UNCHANGED <<config, hop, txn, answer>>

\* ExecContext.
Exec(w) ==
    /\ pc[w] = "exec"
    /\ asked' = [asked EXCEPT ![w] = TRUE]
    /\ Goto(w, "waiting")
    /\ UNCHANGED <<config, hop, txn, answer, result>>

\* Mutant of Accepted: the HTTP status is taken for the outcome.
AnyStatus(status) == status \notin {"http error", "bad body", "lost redirect", "SQL error"}

\* The statuses streamLoad takes for success, and a statement that returned.
Accepted(status) == status \in {"Success", "Publish Timeout", "OK"}

ReadAnswer(w) ==
    /\ pc[w] = "waiting" /\ answer[w] # "none"
    /\ answer' = [answer EXCEPT ![w] = "none"]
    /\ \/ /\ answer[w] = "redirect"
          /\ hop' = [hop EXCEPT ![w] = @ + 1]
          /\ Goto(w, "put") /\ UNCHANGED result
       \/ /\ answer[w] # "redirect"
          /\ Return(w, IF Accepted(answer[w]) THEN "nil" ELSE "error")
          /\ UNCHANGED hop
    /\ UNCHANGED <<config, asked, txn>>

\* Mutant of Deadline: the statement runs without the context of Write; the
\* HTTP client has a timeout of its own.
OnlyHttpTimeout == mode = "stream_load"

\* The five minutes of Write's context, and of the HTTP client.
Deadline == TRUE

\* A connection that fails, or the deadline: at any time, and whatever has
\* become of the request.
Fails(w) ==
    /\ pc[w] = "waiting" /\ Deadline
    /\ Return(w, "error")
    /\ UNCHANGED <<config, hop, asked, txn, answer>>

-----------------------------------------------------------------------------
\* StarRocks (external).

Answer(w, a) == answer' = [answer EXCEPT ![w] = a]

\* A frontend redirects to a backend, or to another frontend; a proxy between
\* may answer instead.
Redirect(w) ==
    /\ asked[w] /\ txn[w] = "none" /\ mode = "stream_load"
    /\ asked' = [asked EXCEPT ![w] = FALSE]
    /\ \E a \in {"redirect", "lost redirect", "http error", "bad body"} : Answer(w, a)
    /\ UNCHANGED <<client, txn>>

\* The load or the statement begins, or is refused.
StartLoad(w) ==
    /\ asked[w] /\ txn[w] = "none"
    /\ asked' = [asked EXCEPT ![w] = FALSE]
    /\ txn' = [txn EXCEPT ![w] = "loading"]
    /\ UNCHANGED <<client, answer>>

\* All rows become durable at once, or none does.
EndLoad(w) ==
    /\ txn[w] = "loading"
    /\ \E s \in {"committed", "aborted"} : txn' = [txn EXCEPT ![w] = s]
    /\ UNCHANGED <<client, asked, answer>>

Publish(w) ==
    /\ txn[w] = "committed"
    /\ txn' = [txn EXCEPT ![w] = "visible"]
    /\ UNCHANGED <<client, asked, answer>>

\* The outcome is reported, when the connection still stands.
Report(w) ==
    /\ pc[w] = "waiting" /\ answer[w] = "none" /\ ~asked[w]
    /\ \/ txn[w] = "visible" /\ Answer(w, IF mode = "insert" THEN "OK" ELSE "Success")
       \/ txn[w] = "committed"
             /\ Answer(w, IF mode = "insert" THEN "OK" ELSE "Publish Timeout")
       \/ txn[w] = "aborted" /\ Answer(w, IF mode = "insert" THEN "SQL error" ELSE "Fail")
       \/ txn[w] # "none" /\ mode = "stream_load"
             /\ \E a \in {"http error", "bad body"} : Answer(w, a)
    /\ UNCHANGED <<client, asked, txn>>

-----------------------------------------------------------------------------
WriteNext(w) == Begin(w) \/ Put(w) \/ Exec(w) \/ ReadAnswer(w) \/ Fails(w)

StarRocksNext(w) ==
    Redirect(w) \/ StartLoad(w) \/ EndLoad(w) \/ Publish(w) \/ Report(w)

Next == \E w \in Calls : WriteNext(w) \/ StarRocksNext(w)

Spec == Init /\ [][Next]_vars

-----------------------------------------------------------------------------
\* The records that are durable.
Stored ==
    UNION {{<<w, r>> : r \in Batch[w]} :
              w \in {v \in Calls : txn[v] \in {"committed", "visible"}}}
=============================================================================
