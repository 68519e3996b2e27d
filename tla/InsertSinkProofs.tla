-------------------------- MODULE InsertSinkProofs --------------------------
(***************************************************************************)
(* Proofs about the two Writers, for every number of calls, every batch    *)
(* and every length of the redirect loop.  SinkInv is inductive; SinkTypeOK *)
(* follows from it, and that InsertSink implements WriteSink: each step of *)
(* a call, of StarRocks, of the Kafka client or of a broker is one of the  *)
(* steps a Writer may take, or none.                                       *)
(***************************************************************************)
EXTENDS InsertSinkInvariant, TLAPS

-----------------------------------------------------------------------------
\* Initially nothing has begun.

LEMMA InitSink == SinkInit => SinkInv
<1>1. Init => LoadsHold
  <2>1. 0 \in 0 .. MaxHops
    BY MaxHopsAssumption
  <2>2. Init => TypeOK
    BY <2>1 DEF Init, TypeOK
  <2>3. Init => \A w \in Calls : CallPlace(w) /\ AnswerHolds(w)
    BY DEF Init, CallPlace, AnswerHolds, Accepted
  <2> QED
    BY <2>2, <2>3 DEF LoadsHold
<1>2. Kafka!Init => MessagesHold
  BY DEF Kafka!Init, Kafka!TypeOK, MessagesHold, AckedInLog, MessagesPlace,
     Kafka!AllRecords
<1> QED
  BY <1>1, <1>2 DEF SinkInit, SinkInv

-----------------------------------------------------------------------------
\* The StarRocks adapter.

\* A step of one call leaves the others where they are.
Same(v) ==
    /\ pc'[v] = pc[v] /\ hop'[v] = hop[v] /\ (asked'[v] <=> asked[v])
    /\ txn'[v] = txn[v] /\ answer'[v] = answer[v] /\ result'[v] = result[v]

LEMMA OthersHold ==
    ASSUME NEW v \in Calls, CallPlace(v), AnswerHolds(v), Same(v), mode' = mode
    PROVE  CallPlace(v)' /\ AnswerHolds(v)'
BY DEF Same, CallPlace, AnswerHolds

LEMMA CallStep ==
    ASSUME NEW w \in Calls, LoadsHold, TypeOK', mode' = mode,
           \A v \in Calls \ {w} : Same(v),
           CallPlace(w)', AnswerHolds(w)'
    PROVE  LoadsHold'
<1>1. ASSUME NEW v \in Calls
      PROVE  CallPlace(v)' /\ AnswerHolds(v)'
  BY <1>1, OthersHold DEF LoadsHold
<1> QED
  BY <1>1 DEF LoadsHold

LEMMA BeginHolds ==
    ASSUME NEW w \in Calls, LoadsHold, Begin(w)
    PROVE  LoadsHold'
<1>1. TypeOK'
  BY DEF LoadsHold, TypeOK, Begin, Goto, Return, config
<1>2. mode' = mode /\ \A v \in Calls \ {w} : Same(v)
  BY DEF LoadsHold, TypeOK, Begin, Goto, Return, config, Same
<1>3. CallPlace(w)' /\ AnswerHolds(w)'
  BY DEF LoadsHold, TypeOK, CallPlace, AnswerHolds, Begin, Goto, Return, config
<1> QED
  BY <1>1, <1>2, <1>3, CallStep

LEMMA PutHolds ==
    ASSUME NEW w \in Calls, LoadsHold, Put(w)
    PROVE  LoadsHold'
<1>1. TypeOK'
  BY DEF LoadsHold, TypeOK, Put, Goto, Return, config
<1>2. mode' = mode /\ \A v \in Calls \ {w} : Same(v)
  BY DEF LoadsHold, TypeOK, Put, Goto, Return, config, Same
<1>3. CallPlace(w)' /\ AnswerHolds(w)'
  BY DEF LoadsHold, TypeOK, CallPlace, AnswerHolds, Put, MayHop, Goto, Return, config
<1> QED
  BY <1>1, <1>2, <1>3, CallStep

LEMMA ExecHolds ==
    ASSUME NEW w \in Calls, LoadsHold, Exec(w)
    PROVE  LoadsHold'
<1>1. TypeOK'
  BY DEF LoadsHold, TypeOK, Exec, Goto, config
<1>2. mode' = mode /\ \A v \in Calls \ {w} : Same(v)
  BY DEF LoadsHold, TypeOK, Exec, Goto, config, Same
<1>3. CallPlace(w)' /\ AnswerHolds(w)'
  BY DEF LoadsHold, TypeOK, CallPlace, AnswerHolds, Exec, Goto, config
<1> QED
  BY <1>1, <1>2, <1>3, CallStep

\* The hop that a redirect costs is within the loop: the request it answers was
\* sent because one was left.
LEMMA ReadAnswerHolds ==
    ASSUME NEW w \in Calls, LoadsHold, ReadAnswer(w)
    PROVE  LoadsHold'
<1>1. TypeOK'
  <2>1. CASE answer[w] = "redirect"
    <3>1. hop[w] \in 0 .. MaxHops /\ hop[w] < MaxHops
      BY <2>1 DEF LoadsHold, TypeOK, CallPlace, ReadAnswer
    <3>2. hop[w] + 1 \in 0 .. MaxHops
      BY <3>1, MaxHopsAssumption
    <3> QED
      BY <2>1, <3>2 DEF LoadsHold, TypeOK, ReadAnswer, Goto, config
  <2>2. CASE answer[w] # "redirect"
    BY <2>2 DEF LoadsHold, TypeOK, ReadAnswer, Goto, Return, config
  <2> QED
    BY <2>1, <2>2
<1>2. mode' = mode /\ \A v \in Calls \ {w} : Same(v)
  BY DEF LoadsHold, TypeOK, ReadAnswer, Goto, Return, config, Same
<1>3. CallPlace(w)' /\ AnswerHolds(w)'
  <2>1. CASE answer[w] = "redirect"
    BY <2>1 DEF LoadsHold, TypeOK, CallPlace, AnswerHolds, Accepted, ReadAnswer, Goto, config
  <2>2. CASE answer[w] # "redirect"
    <3>1. /\ pc'[w] = "done" /\ answer'[w] = "none" /\ result'[w] # "none"
          /\ result'[w] = "nil" => Accepted(answer[w])
          /\ UNCHANGED <<mode, hop, asked, txn>>
      BY <2>2 DEF LoadsHold, TypeOK, ReadAnswer, Goto, Return, config
    <3>2. CallPlace(w)'
      BY <3>1 DEF CallPlace
    <3>3. AnswerHolds(w)'
      BY <3>1 DEF LoadsHold, AnswerHolds, Accepted
    <3> QED
      BY <3>2, <3>3
  <2> QED
    BY <2>1, <2>2
<1> QED
  BY <1>1, <1>2, <1>3, CallStep

LEMMA FailsHolds ==
    ASSUME NEW w \in Calls, LoadsHold, Fails(w)
    PROVE  LoadsHold'
<1>1. TypeOK'
  BY DEF LoadsHold, TypeOK, Fails, Goto, Return, config
<1>2. mode' = mode /\ \A v \in Calls \ {w} : Same(v)
  BY DEF LoadsHold, TypeOK, Fails, Goto, Return, config, Same
<1>3. CallPlace(w)' /\ AnswerHolds(w)'
  BY DEF LoadsHold, TypeOK, CallPlace, AnswerHolds, Fails, Goto, Return, config
<1> QED
  BY <1>1, <1>2, <1>3, CallStep

\* StarRocks takes only requests that were sent, keeps what it has committed,
\* and reports a load by what has become of it.
LEMMA StarRocksHolds ==
    ASSUME NEW w \in Calls, LoadsHold, StarRocksNext(w)
    PROVE  LoadsHold'
<1>1. mode' = mode /\ UNCHANGED <<db, pc, hop, result>>
  BY DEF StarRocksNext, Redirect, StartLoad, EndLoad, Publish, Report, client, config
<1>2. CASE Redirect(w)
  <2>1. TypeOK' /\ \A v \in Calls \ {w} : Same(v)
    <3>1. PICK a \in Answers : answer' = [answer EXCEPT ![w] = a]
      BY <1>2 DEF Redirect, Answer, Answers
    <3>2. asked' = [asked EXCEPT ![w] = FALSE] /\ txn' = txn
      BY <1>2 DEF Redirect
    <3> QED
      BY <1>1, <3>1, <3>2 DEF LoadsHold, TypeOK, Same
  <2>2. CallPlace(w)' /\ AnswerHolds(w)'
    BY <1>2, <1>1 DEF LoadsHold, TypeOK, CallPlace, AnswerHolds, Accepted, Redirect, Answer
  <2> QED
    BY <1>1, <2>1, <2>2, CallStep
<1>3. CASE StartLoad(w)
  <2>1. TypeOK' /\ \A v \in Calls \ {w} : Same(v)
    BY <1>3, <1>1 DEF LoadsHold, TypeOK, StartLoad, Same
  <2>2. CallPlace(w)' /\ AnswerHolds(w)'
    BY <1>3, <1>1 DEF LoadsHold, TypeOK, CallPlace, AnswerHolds, Kept, StartLoad
  <2> QED
    BY <1>1, <2>1, <2>2, CallStep
<1>4. CASE EndLoad(w)
  <2>1. TypeOK' /\ \A v \in Calls \ {w} : Same(v)
    BY <1>4, <1>1 DEF LoadsHold, TypeOK, EndLoad, Same
  <2>2. CallPlace(w)' /\ AnswerHolds(w)'
    BY <1>4, <1>1 DEF LoadsHold, TypeOK, CallPlace, AnswerHolds, Kept, EndLoad
  <2> QED
    BY <1>1, <2>1, <2>2, CallStep
<1>5. CASE Publish(w)
  <2>1. TypeOK' /\ \A v \in Calls \ {w} : Same(v)
    BY <1>5, <1>1 DEF LoadsHold, TypeOK, Publish, Same
  <2>2. CallPlace(w)' /\ AnswerHolds(w)'
    BY <1>5, <1>1 DEF LoadsHold, TypeOK, CallPlace, AnswerHolds, Kept, Publish
  <2> QED
    BY <1>1, <2>1, <2>2, CallStep
<1>6. CASE Report(w)
  <2>1. TypeOK' /\ \A v \in Calls \ {w} : Same(v)
    <3>1. PICK a \in Answers : answer' = [answer EXCEPT ![w] = a]
      BY <1>6 DEF Answers, Report, Answer
    <3>2. UNCHANGED <<client, asked, txn>>
      BY <1>6 DEF Report
    <3> QED
      BY <3>1, <3>2, <1>1 DEF LoadsHold, TypeOK, Same
  <2>2. CallPlace(w)' /\ AnswerHolds(w)'
    BY <1>6, <1>1 DEF LoadsHold, TypeOK, CallPlace, AnswerHolds, Accepted, Kept, Report,
       Answer
  <2> QED
    BY <1>1, <2>1, <2>2, CallStep
<1> QED
  BY <1>2, <1>3, <1>4, <1>5, <1>6 DEF StarRocksNext

LEMMA LoadsInductive ==
    ASSUME LoadsHold, Next
    PROVE  LoadsHold'
BY BeginHolds, PutHolds, ExecHolds, ReadAnswerHolds, FailsHolds, StarRocksHolds
   DEF Next, WriteNext

-----------------------------------------------------------------------------
\* The Kafka adapter.

\* A message belongs to one call.
LEMMA OneCall ==
    ASSUME NEW m \in Kafka!AllRecords
    PROVE  \E w \in Calls : /\ m \in Kafka!Records(w)
                            /\ \A v \in Calls : m \in Kafka!Records(v) => v = w
BY DEF Kafka!AllRecords, Kafka!Records

LEMMA RecordsOfCalls ==
    ASSUME NEW w \in Calls, NEW m \in Kafka!Records(w)
    PROVE  m \in Kafka!AllRecords
BY DEF Kafka!AllRecords

LEMMA KafkaBeginHolds ==
    ASSUME NEW w \in Calls, MessagesHold, Kafka!Begin(w)
    PROVE  MessagesHold'
<1>1. pc[w] = "off" /\ log' = log /\ closed' = closed /\ result[w] = "none"
  BY DEF MessagesHold, MessagesPlace, Kafka!TypeOK, Kafka!Begin
<1>2. CASE ~(HasBrokers /\ w \in Mapped)
  <2>1. /\ message' = message /\ pc' = [pc EXCEPT ![w] = "done"]
        /\ result' = [result EXCEPT ![w] = "error"]
    BY <1>2 DEF Kafka!Begin, Kafka!Return
  <2> QED
    BY <1>1, <2>1 DEF MessagesHold, MessagesPlace, AckedInLog, Kafka!TypeOK
<1>3. CASE HasBrokers /\ w \in Mapped
  <2>1. PICK s \in {"failed", "buffered"} : Kafka!Become(Kafka!Records(w), s)
    BY <1>3 DEF Kafka!Begin
  <2>2. pc' = [pc EXCEPT ![w] = "producing"] /\ result' = result
    BY <1>3 DEF Kafka!Begin
  <2>3. \A m \in Kafka!AllRecords :
           message'[m] = IF m \in Kafka!Records(w) THEN s ELSE message[m]
    BY <2>1 DEF Kafka!Become
  <2>4. Kafka!TypeOK' /\ AckedInLog'
    BY <1>1, <2>1, <2>2 DEF MessagesHold, AckedInLog, Kafka!TypeOK, Kafka!Become
  <2>5. ASSUME NEW v \in Calls
        PROVE  MessagesPlace(v)'
    <3>1. CASE v = w
      BY <1>1, <2>2, <3>1 DEF MessagesHold, MessagesPlace, Kafka!TypeOK
    <3>2. CASE v # w
      <4>1. \A m \in Kafka!Records(v) : message'[m] = message[m]
        BY <2>3, <3>2, RecordsOfCalls, OneCall
      <4>2. pc'[v] = pc[v]
        BY <2>2, <3>2 DEF MessagesHold, Kafka!TypeOK
      <4> QED
        BY <1>1, <2>2, <4>1, <4>2 DEF MessagesHold, MessagesPlace
    <3> QED
      BY <3>1, <3>2
  <2> QED
    BY <2>4, <2>5 DEF MessagesHold
<1> QED
  BY <1>2, <1>3

LEMMA FinishHolds ==
    ASSUME NEW w \in Calls, MessagesHold, Kafka!Finish(w)
    PROVE  MessagesHold'
<1>1. /\ pc[w] = "producing" /\ UNCHANGED <<message, log, closed>>
      /\ pc' = [pc EXCEPT ![w] = "done"]
  BY DEF Kafka!Finish, Kafka!Return
<1>2. PICK v \in {"nil", "error"} :
         /\ result' = [result EXCEPT ![w] = v]
         /\ v = "nil" => \A m \in Kafka!Records(w) : message[m] \notin {"failed", "unknown"}
  BY DEF Kafka!Finish, Kafka!Return, Kafka!NoneFailed
<1>3. v = "nil" => Kafka!Records(w) \subseteq log
  <2>1. \A m \in Kafka!Records(w) : message[m] \in {"acked", "failed", "unknown"}
    BY DEF Kafka!Finish, Kafka!Settled
  <2> QED
    BY <1>2, <2>1, RecordsOfCalls DEF MessagesHold, AckedInLog
<1>4. Kafka!TypeOK'
  BY <1>1, <1>2 DEF MessagesHold, Kafka!TypeOK
<1>5. AckedInLog'
  BY <1>1 DEF MessagesHold, AckedInLog
<1>6. ASSUME NEW u \in Calls
      PROVE  MessagesPlace(u)'
  <2>1. CASE u = w
    BY <1>1, <1>2, <1>3, <2>1 DEF MessagesHold, MessagesPlace, Kafka!TypeOK
  <2>2. CASE u # w
    BY <1>1, <1>2, <2>2 DEF MessagesHold, MessagesPlace, Kafka!TypeOK
  <2> QED
    BY <2>1, <2>2
<1> QED
  BY <1>4, <1>5, <1>6 DEF MessagesHold

\* A step that gives messages up acknowledges none, and touches none that has
\* not been produced.
LEMMA GiveUpHolds ==
    ASSUME MessagesHold, UNCHANGED <<pc, log, result>>, closed' \in BOOLEAN,
           message' = [m \in Kafka!AllRecords |-> message'[m]],
           \A m \in Kafka!AllRecords :
              /\ message'[m] \in {message[m], "failed", "unknown"}
              /\ message[m] = "none" => message'[m] = "none"
    PROVE  MessagesHold'
<1>1. Kafka!TypeOK' /\ AckedInLog'
  BY DEF MessagesHold, AckedInLog, Kafka!TypeOK
<1>2. ASSUME NEW v \in Calls
      PROVE  MessagesPlace(v)'
  BY RecordsOfCalls DEF MessagesHold, MessagesPlace
<1> QED
  BY <1>1, <1>2 DEF MessagesHold

\* A message that is no longer in the client's hands: sent, answered or
\* appended.
LEMMA MessageHolds ==
    ASSUME MessagesHold, NEW m \in Kafka!AllRecords, NEW s \in {"sent", "acked", "failed"},
           Kafka!Become({m}, s), message[m] # "none", s = "acked" => m \in log,
           UNCHANGED <<pc, log, closed, result>>
    PROVE  MessagesHold'
<1>1. /\ message'[m] = s
      /\ \A n \in Kafka!AllRecords : n # m => message'[n] = message[n]
  BY DEF Kafka!Become
<1>2. Kafka!TypeOK' /\ AckedInLog'
  BY <1>1 DEF MessagesHold, AckedInLog, Kafka!TypeOK, Kafka!Become
<1>3. ASSUME NEW v \in Calls
      PROVE  MessagesPlace(v)'
  BY <1>1, RecordsOfCalls DEF MessagesHold, MessagesPlace
<1> QED
  BY <1>2, <1>3 DEF MessagesHold

LEMMA AppendHolds ==
    ASSUME MessagesHold, NEW m \in Kafka!AllRecords, Kafka!Append(m)
    PROVE  MessagesHold'
<1>1. /\ message[m] # "none" /\ log' = log \cup {m}
      /\ UNCHANGED <<pc, message, closed, result>>
  BY DEF Kafka!Append
<1>2. Kafka!TypeOK' /\ AckedInLog'
  BY <1>1 DEF MessagesHold, AckedInLog, Kafka!TypeOK
<1>3. ASSUME NEW v \in Calls
      PROVE  MessagesPlace(v)'
  BY <1>1 DEF MessagesHold, MessagesPlace
<1> QED
  BY <1>2, <1>3 DEF MessagesHold

LEMMA MessagesInductive ==
    ASSUME MessagesHold, Kafka!Next
    PROVE  MessagesHold'
<1>1. ASSUME NEW w \in Calls, Kafka!Timeout(w)
      PROVE  MessagesHold'
  <2>1. UNCHANGED <<pc, log, result>> /\ closed' \in BOOLEAN
    BY <1>1 DEF Kafka!Timeout, MessagesHold, Kafka!TypeOK
  <2>2. /\ message' = [m \in Kafka!AllRecords |-> message'[m]]
        /\ \A m \in Kafka!AllRecords :
              /\ message'[m] \in {message[m], "failed"}
              /\ message[m] = "none" => message'[m] = "none"
    BY <1>1 DEF Kafka!Timeout, Kafka!Unsent, Kafka!Become
  <2> QED
    BY <2>1, <2>2, GiveUpHolds
<1>2. CASE Kafka!Close
  <2>1. UNCHANGED <<pc, log, result>> /\ closed' \in BOOLEAN
    BY <1>2 DEF Kafka!Close
  <2>2. /\ message' = [m \in Kafka!AllRecords |-> message'[m]]
        /\ \A m \in Kafka!AllRecords :
              /\ message'[m] \in {message[m], "failed", "unknown"}
              /\ message[m] = "none" => message'[m] = "none"
    BY <1>2 DEF Kafka!Close, Kafka!GiveUp
  <2> QED
    BY <2>1, <2>2, GiveUpHolds
<1>3. ASSUME NEW m \in Kafka!AllRecords,
             Kafka!Send(m) \/ Kafka!Acknowledge(m) \/ Kafka!Refuse(m)
      PROVE  MessagesHold'
  BY <1>3, MessageHolds DEF Kafka!Send, Kafka!Acknowledge, Kafka!Refuse
<1> QED
  BY <1>1, <1>2, <1>3, KafkaBeginHolds, FinishHolds, AppendHolds DEF Kafka!Next

-----------------------------------------------------------------------------
\* Both Writers.

\* Nothing of the other adapter moves.
LEMMA SinkInductive == SinkInv /\ [SinkNext]_sinkVars => SinkInv'
<1> SUFFICES ASSUME SinkInv, [SinkNext]_sinkVars
             PROVE  SinkInv'
  OBVIOUS
<1>1. CASE InStarRocks(Next)
  BY <1>1, LoadsInductive DEF InStarRocks, SinkInv
<1>2. CASE InKafka(Kafka!Next)
  BY <1>2, MessagesInductive DEF InKafka, SinkInv
<1>3. CASE UNCHANGED sinkVars
  BY <1>3 DEF sinkVars, kafka, vars, client, config, SinkInv, LoadsHold, TypeOK, CallPlace,
     AnswerHolds, MessagesHold, Kafka!TypeOK, AckedInLog, MessagesPlace
<1> QED
  BY <1>1, <1>2, <1>3 DEF SinkNext

THEOREM SinkInvariance == SinkSpec => []SinkInv
BY InitSink, SinkInductive, PTL DEF SinkSpec

\* Every call, load, message and answer keeps its type, and no call is sent on
\* more often than the loop of put allows (streamload.go:81).
THEOREM SinkTypeCorrect == SinkSpec => []SinkTypeOK
<1>1. SinkInv => SinkTypeOK
  BY DEF SinkInv, LoadsHold, MessagesHold, SinkTypeOK
<1> QED
  BY <1>1, SinkInvariance, PTL

-----------------------------------------------------------------------------
\* The refinement.  Begun and Lasting are what the mapping makes of the state.

Begun == {w \in Calls : pc[w] # "off"}

Lasting == IF sink = "kafka" THEN log ELSE Stored

LEMMA InitPromise == SinkInit => Promise!Init
<1>1. Init => Stored = {} /\ Begun = {}
  BY DEF Init, Stored, Begun
<1> QED
  BY <1>1 DEF SinkInit, Init, Kafka!Init, Promise!Init, Begun, Lasting

\* A call that begins without an answer.
LEMMA BeginsPromise ==
    ASSUME NEW w \in Calls, w \notin Begun, Begun' = Begun \cup {w},
           Lasting' = Lasting, result' = result
    PROVE  Promise!Begin(w)
BY DEF Promise!Begin, Begun, Lasting

\* A call that answers, at once or later.
LEMMA ReturnsPromise ==
    ASSUME NEW w \in Calls, NEW v \in {"nil", "error"}, result[w] = "none",
           v = "nil" => Promise!Records(w) \subseteq Lasting,
           Begun' = Begun \cup {w}, Lasting' = Lasting,
           result' = [result EXCEPT ![w] = v]
    PROVE  Promise!Next
<1>1. Promise!Return(w, v)
  BY DEF Promise!Return, Begun, Lasting
<1> QED
  BY <1>1 DEF Promise!Next

\* Records that become durable.
LEMMA KeepsPromise ==
    ASSUME NEW w \in Begun, NEW rs \in SUBSET Promise!Records(w),
           Lasting' = Lasting \cup rs, Begun' = Begun, result' = result
    PROVE  Promise!Next
<1>1. w \in Calls /\ Promise!Keep(w)
  BY DEF Promise!Keep, Begun, Lasting
<1> QED
  BY <1>1 DEF Promise!Next

LEMMA NoPromise ==
    ASSUME UNCHANGED <<Begun, Lasting, result>>
    PROVE  [Promise!Next]_(Promise!vars)
BY DEF Promise!vars, Begun, Lasting

-----------------------------------------------------------------------------
\* The StarRocks adapter keeps the promise.

LEMMA KeptIsStored ==
    ASSUME NEW w \in Calls, txn[w] \in Kept
    PROVE  Promise!Records(w) \subseteq Stored
BY DEF Kept, Stored, Promise!Records

LEMMA WritePromise ==
    ASSUME LoadsHold, sink = "starrocks", sink' = sink, NEW w \in Calls, WriteNext(w)
    PROVE  [Promise!Next]_(Promise!vars)
<1>1. txn' = txn /\ Stored' = Stored /\ Lasting' = Lasting /\ Lasting = Stored
  <2>1. txn' = txn
    BY DEF WriteNext, Begin, Put, Exec, ReadAnswer, Fails
  <2> QED
    BY <2>1 DEF Stored, Lasting
<1>2. ASSUME NEW p, pc' = [pc EXCEPT ![w] = p], p # "off", p \in {"put", "exec", "waiting", "done"}
      PROVE  Begun' = Begun \cup {w}
  BY <1>2 DEF LoadsHold, TypeOK, Begun
<1>3. pc[w] # "off" => Begun = Begun \cup {w}
  BY DEF Begun
<1>4. CASE \E v \in {"nil", "error"} :
              /\ Return(w, v) /\ pc[w] # "done"
              /\ v = "nil" => Batch[w] = {} \/ txn[w] \in Kept
  <2>1. PICK v \in {"nil", "error"} :
           /\ Return(w, v) /\ pc[w] # "done"
           /\ v = "nil" => Batch[w] = {} \/ txn[w] \in Kept
    BY <1>4
  <2>2. result[w] = "none"
    BY <2>1 DEF LoadsHold, CallPlace
  <2>3. v = "nil" => Promise!Records(w) \subseteq Lasting
    BY <1>1, <2>1, KeptIsStored DEF Promise!Records
  <2>4. Begun' = Begun \cup {w} /\ result' = [result EXCEPT ![w] = v]
    BY <1>2, <2>1 DEF Return, Goto
  <2> QED
    BY <1>1, <2>2, <2>3, <2>4, ReturnsPromise
<1>5. CASE \E p \in {"put", "exec", "waiting"} : Goto(w, p) /\ result' = result
  <2>1. Begun' = Begun \cup {w}
    BY <1>2, <1>5 DEF Goto
  <2>2. CASE w \in Begun
    <3>1. Begun' = Begun
      BY <2>1, <2>2
    <3> QED
      BY <1>1, <1>5, <3>1, NoPromise
  <2>3. CASE w \notin Begun
    <3>1. Promise!Begin(w)
      BY <1>1, <1>5, <2>1, <2>3, BeginsPromise
    <3> QED
      BY <3>1 DEF Promise!Next
  <2> QED
    BY <2>2, <2>3
<1>6. CASE Begin(w)
  BY <1>4, <1>5, <1>6 DEF Begin
<1>7. CASE Put(w)
  BY <1>4, <1>5, <1>7 DEF Put
<1>8. CASE Exec(w)
  BY <1>5, <1>8 DEF Exec
<1>9. CASE ReadAnswer(w)
  <2>1. Accepted(answer[w]) => txn[w] \in Kept
    BY DEF LoadsHold, AnswerHolds
  <2> QED
    BY <1>4, <1>5, <1>9, <2>1 DEF ReadAnswer
<1>10. CASE Fails(w)
  BY <1>4, <1>10 DEF Fails
<1> QED
  BY <1>6, <1>7, <1>8, <1>9, <1>10 DEF WriteNext

\* StarRocks commits a load of a call that has begun, all of it at once, and
\* takes nothing back.
LEMMA StarRocksPromise ==
    ASSUME LoadsHold, sink = "starrocks", sink' = sink, NEW w \in Calls, StarRocksNext(w)
    PROVE  [Promise!Next]_(Promise!vars)
<1>1. pc' = pc /\ result' = result /\ Begun' = Begun
  BY DEF StarRocksNext, Redirect, StartLoad, EndLoad, Publish, Report, client, Begun
<1>2. Lasting = Stored /\ Lasting' = Stored'
  BY DEF Lasting
<1>3. CASE EndLoad(w) /\ txn' = [txn EXCEPT ![w] = "committed"]
  <2>1. txn[w] = "loading" /\ w \in Begun
    BY <1>3 DEF EndLoad, LoadsHold, CallPlace, Begun
  <2>2. Stored' = Stored \cup Promise!Records(w)
    BY <1>3, <2>1 DEF LoadsHold, TypeOK, Stored, Promise!Records
  <2> QED
    BY <1>1, <1>2, <2>1, <2>2, KeepsPromise
<1>4. CASE ~(EndLoad(w) /\ txn' = [txn EXCEPT ![w] = "committed"])
  <2>1. \A v \in Calls : txn'[v] \in Kept <=> txn[v] \in Kept
    <3>1. CASE StartLoad(w) \/ EndLoad(w) \/ Publish(w)
      BY <1>4, <3>1 DEF StartLoad, EndLoad, Publish, LoadsHold, TypeOK, Kept
    <3>2. CASE Redirect(w) \/ Report(w)
      BY <3>2 DEF Redirect, Report
    <3> QED
      BY <3>1, <3>2 DEF StarRocksNext
  <2>2. Stored' = Stored
    BY <2>1 DEF Stored, Kept
  <2> QED
    BY <1>1, <1>2, <2>2, NoPromise
<1> QED
  BY <1>3, <1>4

-----------------------------------------------------------------------------
\* The Kafka adapter keeps the promise.

LEMMA SameRecords ==
    ASSUME NEW w \in Calls
    PROVE  Promise!Records(w) = Kafka!Records(w)
BY DEF Promise!Records, Kafka!Records

LEMMA KafkaBeginPromise ==
    ASSUME MessagesHold, sink = "kafka", sink' = sink, NEW w \in Calls, Kafka!Begin(w)
    PROVE  [Promise!Next]_(Promise!vars)
<1>1. Lasting' = Lasting /\ pc[w] = "off" /\ w \notin Begun
  BY DEF Kafka!Begin, Lasting, Begun
<1>2. result[w] = "none"
  BY <1>1 DEF MessagesHold, MessagesPlace, Kafka!TypeOK
<1>3. Begun' = Begun \cup {w}
  BY DEF Kafka!Begin, Kafka!Return, MessagesHold, Kafka!TypeOK, Begun
<1>4. CASE Kafka!Return(w, "error")
  BY <1>1, <1>2, <1>3, <1>4, ReturnsPromise DEF Kafka!Return
<1>5. CASE result' = result
  <2>1. Promise!Begin(w)
    BY <1>1, <1>3, <1>5, BeginsPromise
  <2> QED
    BY <2>1 DEF Promise!Next
<1> QED
  BY <1>4, <1>5 DEF Kafka!Begin

\* ProduceSync has an answer for every message, and none of them is an error:
\* all are appended.
LEMMA FinishPromise ==
    ASSUME MessagesHold, sink = "kafka", sink' = sink, NEW w \in Calls, Kafka!Finish(w)
    PROVE  [Promise!Next]_(Promise!vars)
<1>1. Lasting' = Lasting /\ Lasting = log /\ pc[w] = "producing"
  BY DEF Kafka!Finish, Lasting
<1>2. result[w] = "none"
  BY <1>1 DEF MessagesHold, MessagesPlace, Kafka!TypeOK
<1>3. Begun' = Begun \cup {w}
  BY <1>1 DEF Kafka!Finish, Kafka!Return, MessagesHold, Kafka!TypeOK, Begun
<1>4. PICK v \in {"nil", "error"} :
         /\ result' = [result EXCEPT ![w] = v]
         /\ v = "nil" => \A m \in Kafka!Records(w) : message[m] \notin {"failed", "unknown"}
  BY DEF Kafka!Finish, Kafka!Return, Kafka!NoneFailed
<1>5. v = "nil" => Promise!Records(w) \subseteq Lasting
  <2>1. \A m \in Kafka!Records(w) : message[m] \in {"acked", "failed", "unknown"}
    BY DEF Kafka!Finish, Kafka!Settled
  <2>2. v = "nil" => Kafka!Records(w) \subseteq log
    BY <1>4, <2>1, RecordsOfCalls DEF MessagesHold, AckedInLog
  <2> QED
    BY <1>1, <2>2, SameRecords
<1> QED
  BY <1>1, <1>2, <1>3, <1>4, <1>5, ReturnsPromise

\* A broker appends a message of a call that has begun, whether or not that
\* call still waits.
LEMMA AppendPromise ==
    ASSUME MessagesHold, sink = "kafka", sink' = sink, NEW m \in Kafka!AllRecords,
           Kafka!Append(m)
    PROVE  [Promise!Next]_(Promise!vars)
<1>1. PICK w \in Calls : m \in Kafka!Records(w)
  BY OneCall
<1>2. /\ message[m] # "none" /\ log' = log \cup {m} /\ UNCHANGED <<pc, result>>
  BY DEF Kafka!Append
<1>3. w \in Begun /\ Begun' = Begun
  BY <1>1, <1>2 DEF MessagesHold, MessagesPlace, Begun
<1>4. Lasting' = Lasting \cup {m} /\ {m} \in SUBSET Promise!Records(w)
  BY <1>1, <1>2, SameRecords DEF Lasting
<1> QED
  BY <1>2, <1>3, <1>4, KeepsPromise

LEMMA KafkaPromise ==
    ASSUME MessagesHold, sink = "kafka", sink' = sink, Kafka!Next
    PROVE  [Promise!Next]_(Promise!vars)
<1>1. CASE UNCHANGED <<pc, log, result>>
  BY <1>1, NoPromise DEF Begun, Lasting
<1>2. ASSUME NEW w \in Calls, Kafka!Timeout(w)
      PROVE  UNCHANGED <<pc, log, result>>
  BY <1>2 DEF Kafka!Timeout
<1>3. CASE Kafka!Close
  BY <1>1, <1>3 DEF Kafka!Close
<1>4. ASSUME NEW m \in Kafka!AllRecords,
             Kafka!Send(m) \/ Kafka!Acknowledge(m) \/ Kafka!Refuse(m)
      PROVE  UNCHANGED <<pc, log, result>>
  BY <1>4 DEF Kafka!Send, Kafka!Acknowledge, Kafka!Refuse
<1> QED
  BY <1>1, <1>2, <1>3, <1>4, KafkaBeginPromise, FinishPromise, AppendPromise DEF Kafka!Next

-----------------------------------------------------------------------------
LEMMA PromiseStep == SinkInv /\ [SinkNext]_sinkVars => [Promise!Next]_(Promise!vars)
<1> SUFFICES ASSUME SinkInv, [SinkNext]_sinkVars
             PROVE  [Promise!Next]_(Promise!vars)
  OBVIOUS
<1>1. CASE InStarRocks(Next)
  <2>1. sink = "starrocks" /\ sink' = sink /\ LoadsHold /\ Next
    BY <1>1 DEF InStarRocks, SinkInv
  <2> QED
    BY <2>1, WritePromise, StarRocksPromise DEF Next
<1>2. CASE InKafka(Kafka!Next)
  <2>1. sink = "kafka" /\ sink' = sink /\ MessagesHold /\ Kafka!Next
    BY <1>2 DEF InKafka, SinkInv
  <2> QED
    BY <2>1, KafkaPromise
<1>3. CASE UNCHANGED sinkVars
  <2>1. UNCHANGED <<sink, pc, txn, log, result>>
    BY <1>3 DEF sinkVars, vars, client, kafka
  <2> QED
    BY <2>1, NoPromise DEF Begun, Lasting, Stored
<1> QED
  BY <1>1, <1>2, <1>3 DEF SinkNext

\* Either Writer implements WriteSink: Write answers once, it answers nil only
\* for records that are durable (streamload.go:74, insert.go:48, kafka.go:51),
\* and nothing but a batch that was given to it becomes durable, though that
\* may be after it has answered with an error.
THEOREM WriterImplemented == SinkSpec => ImplementsSink
BY InitPromise, PromiseStep, SinkInvariance, PTL
   DEF SinkSpec, ImplementsSink, Promise!Spec
=============================================================================
