--------------------------- MODULE ResponseProofs ---------------------------
(***************************************************************************)
(* Proofs about the calls and the reader of the response topic, for any    *)
(* number of calls and answers and any capacity of the registration        *)
(* channel.                                                                *)
(***************************************************************************)
EXTENDS Response, TLAPS

\* No two calls are made in the same trace.
OneCallPerTrace == \A t, u \in Calls : TraceOf[t] = TraceOf[u] => t = u

\* What the place in the reader's loop says of the reader's variables.
ReaderInv ==
    /\ at # "drain" => msg = None
    /\ msg # None => pos > 0 /\ msg = topic[pos]
    /\ at \notin {"clean", "sendnil"} => todo = {}
    /\ at = "sendnil" => TxnId(to) \notin todo

\* An entry is found under the id of its call, and an answer has that id too.
IdsInv ==
    /\ \A id \in DOMAIN reqMap : TxnId(reqMap[id]) = id
    /\ \A i \in DOMAIN topic : topic[i].id = TxnId(topic[i].call)

TypeInv == TypeOK /\ ReaderInv /\ IdsInv

LEMMA ElementType ==
    ASSUME NEW S, NEW s \in Seq(S), NEW i \in DOMAIN s
    PROVE  s[i] \in S
OBVIOUS

LEMMA TxnIdType == \A t \in Calls : TxnId(t) \in Traces
BY TraceAssumption DEF TxnId

LEMMA InitTypeInv == Init => TypeInv
<1> SUFFICES ASSUME Init
             PROVE  TypeInv
  OBVIOUS
<1> USE DEF Init
<1>1. DOMAIN reqMap = {} /\ DOMAIN topic = {}
  OBVIOUS
<1>2. queue \in Seq(Calls) /\ Len(queue) <= Cap
  BY CapAssumption
<1>3. topic \in Seq([id : Traces, call : Calls]) /\ pos \in Nat /\ pos <= Len(topic)
  OBVIOUS
<1>4. pc \in [Calls -> {"idle", "register", "produce", "wait", "done"}]
  OBVIOUS
<1>5. result \in [Calls -> Results]
  BY DEF Results
<1>6. TypeOK
  BY <1>1, <1>2, <1>3, <1>4, <1>5 DEF TypeOK
<1>7. ReaderInv /\ IdsInv
  BY <1>1 DEF ReaderInv, IdsInv
<1> QED
  BY <1>6, <1>7 DEF TypeInv

\* The steps of the calls, of the engine and of the clock leave the reader alone.
LEMMA ClientsKeepTypeInv ==
    ASSUME TypeInv, NEW t \in Calls,
           \/ Call(t) \/ Register(t) \/ Execute(t) \/ TimeOut(t)
           \/ ContextDone(t) \/ MinutePasses(t)
    PROVE  TypeInv'
<1> USE DEF TypeInv, TypeOK, ReaderInv, IdsInv, Results, reader, client, Return
<1>1. CASE Call(t)
  BY <1>1 DEF Call
<1>2. CASE Register(t)
  BY <1>2, CapAssumption DEF Register
<1>3. CASE Execute(t)
  BY <1>3 DEF Execute
<1>4. CASE TimeOut(t) \/ ContextDone(t)
  BY <1>4 DEF TimeOut, ContextDone
<1>5. CASE MinutePasses(t)
  BY <1>5 DEF MinutePasses
<1> QED
  BY <1>1, <1>2, <1>3, <1>4, <1>5

LEMMA AnswerKeepsTypeInv ==
    ASSUME TypeInv, NEW t \in Calls, Answer(t)
    PROVE  TypeInv'
<1> USE DEF TypeInv, TypeOK, ReaderInv, IdsInv
<1>1. [id |-> TxnId(t), call |-> t] \in [id : Traces, call : Calls]
  BY TxnIdType
<1>2. /\ topic' \in Seq([id : Traces, call : Calls])
      /\ Len(topic') = Len(topic) + 1
      /\ \A i \in DOMAIN topic : topic'[i] = topic[i]
      /\ topic'[Len(topic) + 1] = [id |-> TxnId(t), call |-> t]
  BY <1>1 DEF Answer
<1>3. UNCHANGED <<pc, result, closed, old, queue, pos, at, msg, to, val, todo, reqMap, down>>
  BY DEF Answer, client, reader
<1>4. TypeOK'
  BY <1>2, <1>3
<1>5. ReaderInv'
  BY <1>2, <1>3
<1>6. IdsInv'
  BY <1>2, <1>3, TxnIdType
<1> QED
  BY <1>4, <1>5, <1>6

LEMMA ReaderKeepsTypeInv ==
    ASSUME TypeInv, ReadMessage \/ CleanupTick \/ Proceed
    PROVE  TypeInv'
<1> USE NoneAssumption DEF TypeInv, TypeOK, ReaderInv, IdsInv, client
<1>1. CASE ReadMessage
  <2>1. CASE pos < Len(topic) /\ msg' = topic[pos + 1] /\ pos' = pos + 1
    <3>1. pos + 1 \in DOMAIN topic /\ pos + 1 > 0
      BY <2>1
    <3>2. topic[pos + 1] \in [id : Traces, call : Calls]
      BY <3>1, ElementType
    <3>3. /\ at = "select" /\ at' = "drain"
          /\ UNCHANGED <<pc, result, closed, old, queue, topic, to, val, todo, reqMap, down>>
      BY <1>1 DEF ReadMessage
    <3>4. TypeOK'
      BY <2>1, <3>1, <3>2, <3>3
    <3>5. pos' > 0 /\ msg' = topic'[pos']
      BY <2>1, <3>1, <3>3
    <3>6. ReaderInv'
      BY <3>3, <3>5
    <3>7. IdsInv'
      BY <3>3
    <3> QED
      BY <3>4, <3>6, <3>7
  <2>2. CASE msg' = None /\ UNCHANGED pos
    BY <1>1, <2>2 DEF ReadMessage
  <2> QED
    BY <1>1, <2>1, <2>2 DEF ReadMessage
<1>2. CASE CleanupTick
  BY <1>2 DEF CleanupTick
<1>3. CASE Drain
  <2>1. PICK t \in Calls :
           /\ t = Head(queue)
           /\ reqMap' = [id \in DOMAIN reqMap \cup {TxnId(t)} |->
                             IF id = TxnId(t) THEN t ELSE reqMap[id]]
    BY <1>3 DEF Drain
  <2>2. queue' \in Seq(Calls) /\ Len(queue') <= Cap
    BY <1>3, CapAssumption DEF Drain
  <2>3. UNCHANGED <<pc, result, closed, old, topic, pos, at, msg, to, val, todo, down>>
    BY <1>3 DEF Drain
  <2> QED
    BY <2>1, <2>2, <2>3, TxnIdType
<1>4. CASE Handle
  BY <1>4, TxnIdType DEF Handle, Without
<1>5. ASSUME NEW id \in Traces, CleanupVisit(id)
      PROVE  TypeInv'
  BY <1>5 DEF CleanupVisit
<1>6. CASE CleanupEnd \/ Exit
  BY <1>6 DEF CleanupEnd, Exit
<1>7. CASE SendPanics
  BY <1>7 DEF SendPanics, Sent, Without
<1> QED
  BY <1>1, <1>2, <1>3, <1>4, <1>5, <1>6, <1>7 DEF Proceed

LEMMA ReceiveKeepsTypeInv ==
    ASSUME TypeInv, NEW t \in Calls, Receive(t)
    PROVE  TypeInv'
BY NoneAssumption DEF TypeInv, TypeOK, ReaderInv, IdsInv, Results, Receive, Return, Sent, Without

LEMMA StepTypeInv == TypeInv /\ [Next]_vars => TypeInv'
<1> SUFFICES ASSUME TypeInv, [Next]_vars
             PROVE  TypeInv'
  OBVIOUS
<1>1. CASE ShutDown \/ UNCHANGED vars
  BY <1>1 DEF ShutDown, vars, client, reader, TypeInv, TypeOK, ReaderInv, IdsInv
<1> QED
  BY <1>1, ClientsKeepTypeInv, AnswerKeepsTypeInv, ReaderKeepsTypeInv,
     ReceiveKeepsTypeInv DEF Next

\* The state keeps its type: no more registrations wait than respRegisterCh
\* holds, and the cleanup visits only entries that are still there.
THEOREM TypeCorrect == Spec => []TypeOK
<1>1. TypeInv => TypeOK
  BY DEF TypeInv
<1> QED
  BY <1>1, InitTypeInv, StepTypeInv, PTL DEF Spec

-----------------------------------------------------------------------------

\* AnswerIsOwn does not say why an answer finds its call, and NoAnswerPassedBy
\* nothing of the answers to come.  A call that has registered is to be found
\* until it has its answer: in the channel, in the map or at the end of a send.
Registered ==
    \A t \in Calls :
        pc[t] \in {"produce", "wait"} =>
            \/ \E i \in DOMAIN queue : queue[i] = t
            \/ TxnId(t) \in DOMAIN reqMap /\ reqMap[TxnId(t)] = t
            \/ to = t

\* Only a call that has returned has its channel closed, and only one that has
\* produced its transaction is answered.
LifeInv ==
    /\ \A t \in closed : pc[t] = "done"
    /\ \A i \in DOMAIN topic : pc[topic[i].call] \in {"wait", "done"}

CallsInv == Registered /\ LifeInv /\ AnswerIsOwn /\ NoAnswerPassedBy

LEMMA OwnId ==
    ASSUME OneCallPerTrace
    PROVE  \A t, u \in Calls : TxnId(t) = TxnId(u) => t = u
BY DEF OneCallPerTrace, TxnId

LEMMA TopicCalls ==
    ASSUME TypeInv, NEW i \in 1..pos
    PROVE  i \in DOMAIN topic /\ topic[i].call \in Calls
<1>1. i \in DOMAIN topic
  BY DEF TypeInv, TypeOK
<1>2. topic[i] \in [id : Traces, call : Calls]
  BY <1>1, ElementType DEF TypeInv, TypeOK
<1> QED
  BY <1>1, <1>2

LEMMA InitCallsInv == Init => CallsInv
<1> SUFFICES ASSUME Init
             PROVE  CallsInv
  OBVIOUS
<1>1. DOMAIN topic = {} /\ 1..pos = {}
  BY DEF Init
<1>2. val \notin Calls /\ \A t \in Calls : result[t] \notin Calls
  BY NoneAssumption DEF Init
<1>3. \A t \in Calls : pc[t] = "idle"
  BY DEF Init
<1> QED
  BY <1>1, <1>2, <1>3 DEF Init, CallsInv, Registered, LifeInv, AnswerIsOwn, NoAnswerPassedBy

\* A call that returns without an answer.
LEMMA ReturnKeepsCallsInv ==
    ASSUME TypeInv, CallsInv, NEW t \in Calls, pc[t] # "idle",
           NEW v \in {"error", "timeout", "context"}, Return(t, v),
           UNCHANGED <<queue, topic, reader>>
    PROVE  CallsInv'
<1> USE DEF TypeInv, TypeOK, CallsInv, Return, reader
<1>1. Registered'
  BY DEF Registered, TxnId
<1>2. LifeInv'
  BY DEF LifeInv
<1>3. AnswerIsOwn'
  BY ResultAssumption DEF AnswerIsOwn
<1>4. NoAnswerPassedBy'
  BY TopicCalls DEF NoAnswerPassedBy
<1> QED
  BY <1>1, <1>2, <1>3, <1>4

LEMMA ClientsKeepCallsInv ==
    ASSUME TypeInv, CallsInv, NEW t \in Calls,
           \/ Call(t) \/ Register(t) \/ Execute(t) \/ TimeOut(t)
           \/ ContextDone(t) \/ MinutePasses(t)
    PROVE  CallsInv'
<1>1. CASE Call(t)
  <2> USE <1>1 DEF TypeInv, TypeOK, CallsInv, Call, reader
  <2>1. Registered'
    BY DEF Registered, TxnId
  <2>2. LifeInv'
    BY DEF LifeInv
  <2>3. AnswerIsOwn' /\ NoAnswerPassedBy'
    BY TopicCalls DEF AnswerIsOwn, NoAnswerPassedBy
  <2> QED
    BY <2>1, <2>2, <2>3
<1>2. CASE Register(t)
  <2> USE <1>2 DEF TypeInv, TypeOK, CallsInv, Register, reader
  <2>1. /\ \E i \in DOMAIN queue' : queue'[i] = t
        /\ \A i \in DOMAIN queue : i \in DOMAIN queue' /\ queue'[i] = queue[i]
    <3>1. queue \in Seq(Calls) /\ t \in Calls /\ queue' = Append(queue, t)
      OBVIOUS
    <3>2. /\ Len(queue') = Len(queue) + 1 /\ Len(queue) \in Nat
          /\ DOMAIN queue = 1..Len(queue) /\ DOMAIN queue' = 1..Len(queue')
          /\ queue'[Len(queue) + 1] = t
          /\ \A i \in 1..Len(queue) : queue'[i] = queue[i]
      BY ONLY <3>1
    <3> QED
      BY ONLY <3>2
  <2>2. Registered'
    BY <2>1 DEF Registered, TxnId
  <2>3. LifeInv'
    BY DEF LifeInv
  <2>4. AnswerIsOwn' /\ NoAnswerPassedBy'
    BY TopicCalls DEF AnswerIsOwn, NoAnswerPassedBy
  <2> QED
    BY <2>2, <2>3, <2>4
<1>3. CASE Execute(t) /\ pc' = [pc EXCEPT ![t] = "wait"] /\ UNCHANGED <<result, closed>>
  <2> USE <1>3 DEF TypeInv, TypeOK, CallsInv, Execute, reader
  <2>1. Registered'
    BY DEF Registered, TxnId
  <2>2. LifeInv'
    BY DEF LifeInv
  <2>3. AnswerIsOwn'
    BY DEF AnswerIsOwn
  <2>4. \A i \in 1..pos : topic[i].call # t
    BY TopicCalls DEF LifeInv
  <2>5. NoAnswerPassedBy'
    BY <2>4, TopicCalls DEF NoAnswerPassedBy
  <2> QED
    BY <2>1, <2>2, <2>3, <2>5
<1>4. CASE Execute(t) /\ Return(t, "error")
  BY <1>4, ReturnKeepsCallsInv DEF Execute
<1>5. CASE TimeOut(t) \/ ContextDone(t)
  BY <1>5, ReturnKeepsCallsInv DEF TimeOut, ContextDone
<1>6. CASE MinutePasses(t)
  BY <1>6 DEF MinutePasses, client, reader, CallsInv, Registered, LifeInv,
              AnswerIsOwn, NoAnswerPassedBy, TxnId
<1> QED
  BY <1>1, <1>2, <1>3, <1>4, <1>5, <1>6 DEF Execute

LEMMA AnswerKeepsCallsInv ==
    ASSUME TypeInv, CallsInv, NEW t \in Calls, Answer(t)
    PROVE  CallsInv'
<1>1. /\ Len(topic') = Len(topic) + 1
      /\ \A i \in DOMAIN topic : topic'[i] = topic[i]
      /\ topic'[Len(topic) + 1].call = t
      /\ DOMAIN topic' = DOMAIN topic \cup {Len(topic) + 1}
  BY TxnIdType DEF Answer, TypeInv, TypeOK
<1>2. UNCHANGED <<pc, result, closed, queue, pos, at, msg, to, val, reqMap>>
  BY DEF Answer, client, reader
<1>3. pc[t] \in {"wait", "done"}
  BY DEF Answer
<1>4. Registered' /\ AnswerIsOwn'
  BY <1>2 DEF CallsInv, Registered, AnswerIsOwn, TxnId
<1>5. LifeInv'
  BY <1>1, <1>2, <1>3 DEF CallsInv, LifeInv
<1>6. NoAnswerPassedBy'
  BY <1>1, <1>2, TopicCalls DEF CallsInv, NoAnswerPassedBy
<1> QED
  BY <1>4, <1>5, <1>6 DEF CallsInv

\* The reader reads only when it has dealt with the message before.
LEMMA ReadKeepsCallsInv ==
    ASSUME TypeInv, CallsInv, ReadMessage
    PROVE  CallsInv'
<1>1. UNCHANGED <<pc, result, closed, queue, topic, to, val, reqMap>>
  BY DEF ReadMessage, client
<1>2. Registered' /\ LifeInv' /\ AnswerIsOwn'
  BY <1>1 DEF CallsInv, Registered, LifeInv, AnswerIsOwn, TxnId
<1>3. msg = None /\ to = None
  BY DEF ReadMessage, TypeInv, TypeOK, ReaderInv
<1>4. \A i \in 1..pos : pc[topic[i].call] # "wait"
  BY <1>3, TopicCalls, NoneAssumption DEF CallsInv, NoAnswerPassedBy
<1>5. CASE pos < Len(topic) /\ msg' = topic[pos + 1] /\ pos' = pos + 1
  <2>1. pos \in Nat /\ pos + 1 \in DOMAIN topic
    BY <1>5 DEF TypeInv, TypeOK
  <2>2. msg' # None
    <3>1. topic[pos + 1] \in [id : Traces, call : Calls]
      BY <2>1, ElementType DEF TypeInv, TypeOK
    <3> QED
      BY <1>5, <3>1, NoneAssumption
  <2>3. NoAnswerPassedBy'
    BY <1>1, <1>4, <1>5, <2>1, <2>2 DEF NoAnswerPassedBy
  <2> QED
    BY <1>2, <2>3 DEF CallsInv
<1>6. CASE UNCHANGED pos
  BY <1>1, <1>2, <1>4, <1>6 DEF CallsInv, NoAnswerPassedBy
<1> QED
  BY <1>5, <1>6 DEF ReadMessage

LEMMA DrainKeepsCallsInv ==
    ASSUME OneCallPerTrace, TypeInv, CallsInv, Drain
    PROVE  CallsInv'
<1>1. PICK t \in Calls :
         /\ t = Head(queue)
         /\ reqMap' = [id \in DOMAIN reqMap \cup {TxnId(t)} |->
                           IF id = TxnId(t) THEN t ELSE reqMap[id]]
  BY DEF Drain, TypeInv, TypeOK
<1>2. UNCHANGED <<pc, result, closed, topic, pos, at, msg, to, val>>
  BY DEF Drain, client
<1>3. LifeInv' /\ AnswerIsOwn' /\ NoAnswerPassedBy'
  BY <1>2 DEF CallsInv, LifeInv, AnswerIsOwn, NoAnswerPassedBy
<1>4. ASSUME NEW u \in Calls, u # t, NEW i \in DOMAIN queue, queue[i] = u
      PROVE  \E j \in DOMAIN queue' : queue'[j] = u
  <2>1. /\ queue \in Seq(Calls) /\ queue # <<>> /\ queue' = Tail(queue)
        /\ i \in 1..Len(queue) /\ i # 1
    BY <1>1, <1>4 DEF Drain, TypeInv, TypeOK
  <2>2. i - 1 \in DOMAIN queue' /\ queue'[i - 1] = u
    BY <1>4, <2>1
  <2> QED
    BY <2>2
<1>5. ASSUME NEW u \in Calls, u # t
      PROVE  TxnId(u) # TxnId(t)
  BY <1>5, OwnId
<1>6. Registered'
  BY <1>1, <1>2, <1>4, <1>5 DEF CallsInv, Registered, TxnId
<1> QED
  BY <1>3, <1>6 DEF CallsInv

\* With no registration left to take, a call that waits is in the map.
LEMMA HandleKeepsCallsInv ==
    ASSUME OneCallPerTrace, TypeInv, CallsInv, Handle
    PROVE  CallsInv'
<1>1. /\ UNCHANGED <<pc, result, closed, queue, topic, pos>>
      /\ msg' = None /\ to = None /\ DOMAIN queue = {}
  BY DEF Handle, client, TypeInv, TypeOK
<1>2. LifeInv'
  BY <1>1 DEF CallsInv, LifeInv
<1>3. CASE msg = None
  <2>1. UNCHANGED <<to, val, reqMap>>
    BY <1>3 DEF Handle
  <2> QED
    BY <1>1, <1>2, <1>3, <2>1
       DEF CallsInv, Registered, AnswerIsOwn, NoAnswerPassedBy, TxnId
<1>4. CASE msg # None
  <2>1. pos \in DOMAIN topic /\ pos \in 1..pos /\ msg = topic[pos]
    BY <1>4 DEF TypeInv, TypeOK, ReaderInv
  <2>2. PICK t \in Calls : t = msg.call /\ msg.id = TxnId(t)
    BY <2>1, TopicCalls DEF TypeInv, IdsInv
  <2>3. CASE TxnId(t) \in DOMAIN reqMap
    <3>1. /\ to' = reqMap[TxnId(t)] /\ val' = t
          /\ reqMap' = Without(reqMap, TxnId(t))
      BY <1>4, <2>2, <2>3 DEF Handle
    <3>2. reqMap[TxnId(t)] = t
      BY <2>3, OwnId DEF TypeInv, TypeOK, IdsInv
    <3>3. AnswerIsOwn'
      BY <1>1, <3>1, <3>2 DEF CallsInv, AnswerIsOwn
    <3>4. Registered'
      BY <1>1, <3>1, <3>2, OwnId, NoneAssumption DEF CallsInv, Registered, Without, TxnId
    <3>5. NoAnswerPassedBy'
      BY <1>1, <2>1, <2>2, <3>1, <3>2, TopicCalls, NoneAssumption
         DEF CallsInv, NoAnswerPassedBy
    <3> QED
      BY <1>2, <3>3, <3>4, <3>5 DEF CallsInv
  <2>4. CASE TxnId(t) \notin DOMAIN reqMap
    <3>1. UNCHANGED <<to, val, reqMap>>
      BY <1>4, <2>2, <2>4 DEF Handle
    <3>2. pc[t] # "wait"
      BY <1>1, <2>4, NoneAssumption DEF CallsInv, Registered
    <3>3. NoAnswerPassedBy'
      BY <1>1, <2>1, <2>2, <3>1, <3>2, TopicCalls, NoneAssumption
         DEF CallsInv, NoAnswerPassedBy
    <3> QED
      BY <1>1, <1>2, <3>1, <3>3 DEF CallsInv, Registered, AnswerIsOwn, TxnId
  <2> QED
    BY <2>3, <2>4
<1> QED
  BY <1>3, <1>4

\* The cleanup sends no answers, and the reader holds no message meanwhile.
LEMMA CleanupKeepsCallsInv ==
    ASSUME TypeInv, CallsInv,
           CleanupTick \/ CleanupEnd \/ Exit \/ \E id \in Traces : CleanupVisit(id)
    PROVE  CallsInv'
<1>1. UNCHANGED <<pc, result, closed, queue, topic, pos, msg, reqMap>>
  BY DEF CleanupTick, CleanupEnd, Exit, CleanupVisit, client
<1>2. LifeInv'
  BY <1>1 DEF CallsInv, LifeInv
<1>3. CASE UNCHANGED <<to, val>>
  BY <1>1, <1>2, <1>3 DEF CallsInv, Registered, AnswerIsOwn, NoAnswerPassedBy, TxnId
<1>4. CASE val' = "nil" /\ at = "clean"
  <2>1. to = None /\ msg = None
    BY <1>4 DEF TypeInv, TypeOK, ReaderInv
  <2>2. Registered'
    BY <1>1, <2>1, NoneAssumption DEF CallsInv, Registered, TxnId
  <2>3. AnswerIsOwn'
    BY <1>1, <1>4, ResultAssumption DEF CallsInv, AnswerIsOwn
  <2>4. NoAnswerPassedBy'
    BY <1>1, <2>1, TopicCalls, NoneAssumption DEF CallsInv, NoAnswerPassedBy
  <2> QED
    BY <1>2, <2>2, <2>3, <2>4 DEF CallsInv
<1> QED
  BY <1>3, <1>4 DEF CleanupTick, CleanupEnd, Exit, CleanupVisit

\* A send ends with a call that has returned, so that nobody needs the entry.
LEMMA SentKeepsCallsInv ==
    ASSUME OneCallPerTrace, TypeInv, CallsInv,
           SendPanics \/ \E t \in Calls : Receive(t)
    PROVE  CallsInv'
<1>1. /\ to \in Calls /\ to' = None /\ val' = None
      /\ msg = None /\ msg' = None
      /\ reqMap' = reqMap \/ reqMap' = Without(reqMap, TxnId(to))
      /\ UNCHANGED <<queue, topic, pos>>
  BY DEF TypeInv, TypeOK, ReaderInv, SendPanics, Receive, Sent
<1>2. pc'[to] = "done" /\ \A u \in Calls : u # to => pc'[u] = pc[u]
  BY DEF TypeInv, TypeOK, CallsInv, LifeInv, SendPanics, Receive, Return, client
<1>3. Registered'
  <2> SUFFICES ASSUME NEW u \in Calls, pc'[u] \in {"produce", "wait"}
               PROVE  \/ \E i \in DOMAIN queue' : queue'[i] = u
                      \/ TxnId(u) \in DOMAIN reqMap' /\ reqMap'[TxnId(u)] = u
    BY DEF Registered, TxnId
  <2>1. u # to /\ TxnId(u) # TxnId(to) /\ pc[u] = pc'[u]
    BY <1>1, <1>2, OwnId
  <2> QED
    BY <1>1, <2>1 DEF CallsInv, Registered, Without
<1>4. LifeInv'
  <2>1. \A u \in closed' : u \in closed \/ u = to
    BY DEF SendPanics, Receive, Return, client
  <2>2. \A i \in DOMAIN topic : topic[i].call \in Calls
    <3>1. ASSUME NEW i \in DOMAIN topic
          PROVE  topic[i] \in [id : Traces, call : Calls]
      BY ElementType DEF TypeInv, TypeOK
    <3> QED
      BY <3>1
  <2> QED
    BY <1>1, <1>2, <2>1, <2>2 DEF TypeInv, TypeOK, CallsInv, LifeInv
<1>5. AnswerIsOwn'
  <2>1. \A u \in Calls : result'[u] = result[u] \/ (u = to /\ result'[u] = val)
    BY DEF TypeInv, TypeOK, SendPanics, Receive, Return, client
  <2> QED
    BY <1>1, <2>1, NoneAssumption DEF CallsInv, AnswerIsOwn
<1>6. NoAnswerPassedBy'
  BY <1>1, <1>2, TopicCalls DEF CallsInv, NoAnswerPassedBy
<1> QED
  BY <1>3, <1>4, <1>5, <1>6 DEF CallsInv

LEMMA StepCallsInv ==
    ASSUME OneCallPerTrace
    PROVE  TypeInv /\ CallsInv /\ [Next]_vars => CallsInv'
<1> SUFFICES ASSUME TypeInv, CallsInv, [Next]_vars
             PROVE  CallsInv'
  OBVIOUS
<1>1. CASE ShutDown \/ UNCHANGED vars
  BY <1>1 DEF ShutDown, vars, client, reader, CallsInv, Registered, LifeInv,
              AnswerIsOwn, NoAnswerPassedBy, TxnId
<1> QED
  BY <1>1, ClientsKeepCallsInv, AnswerKeepsCallsInv, ReadKeepsCallsInv,
     DrainKeepsCallsInv, HandleKeepsCallsInv, CleanupKeepsCallsInv,
     SentKeepsCallsInv DEF Next, Proceed

\* When no two calls share a trace, the reader of the response topic gives an
\* answer to the call it belongs to and to no other.
THEOREM AnswersAreOwn ==
    ASSUME OneCallPerTrace
    PROVE  Spec => []AnswerIsOwn
<1>1. TypeInv /\ CallsInv /\ [Next]_vars => CallsInv'
  BY StepCallsInv
<1>2. CallsInv => AnswerIsOwn
  BY DEF CallsInv
<1> QED
  BY <1>1, <1>2, InitTypeInv, StepTypeInv, InitCallsInv, PTL DEF Spec

\* Under the same hypothesis no answer is dropped for want of a registration:
\* the channel is registered before the transaction is produced, and the reader
\* takes all registrations between reading a message and looking it up.
THEOREM NoneIsPassedBy ==
    ASSUME OneCallPerTrace
    PROVE  Spec => []NoAnswerPassedBy
<1>1. TypeInv /\ CallsInv /\ [Next]_vars => CallsInv'
  BY StepCallsInv
<1>2. CallsInv => NoAnswerPassedBy
  BY DEF CallsInv
<1> QED
  BY <1>1, <1>2, InitTypeInv, StepTypeInv, InitCallsInv, PTL DEF Spec
=============================================================================
