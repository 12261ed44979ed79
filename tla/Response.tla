------------------------------ MODULE Response ------------------------------
(***************************************************************************)
(* ExecuteTxnSync and ConsumeResponseTopic: how the answer to a            *)
(* transaction finds the call that waits for it.                           *)
(*                                                                         *)
(* A call makes an unbuffered channel, registers it under its transaction  *)
(* id and waits on it; a timer or the end of its context may end the wait, *)
(* and the channel is closed when the call returns.  One goroutine reads   *)
(* the response topic.  It sends each answer to the channel registered for *)
(* its id, and a nil to the calls that have waited for a minute.  A send   *)
(* blocks it until the call takes the value or closes the channel.         *)
(***************************************************************************)
EXTENDS Naturals, Sequences, FiniteSets

CONSTANTS
    Calls,       \* calls of ExecuteTxnSync
    Traces,      \* trace ids
    TraceOf,     \* TraceOf[t]: the trace in whose context t is made
    None,        \* no call, no value
    Cap,         \* capacity of respRegisterCh
    MaxAnswers   \* bound on the answers to one transaction

ASSUME TraceAssumption == TraceOf \in [Calls -> Traces]
ASSUME NoneAssumption == None \notin Calls \cup [id : Traces, call : Calls]
ASSUME ResultAssumption == Calls \cap {"nil", "timeout", "error", "context"} = {}
ASSUME CapAssumption == Cap \in Nat \ {0}
ASSUME MaxAnswersAssumption == MaxAnswers \in Nat

VARIABLES
    pc,          \* pc[t]: where the call is
    result,      \* result[t]: what it returned
    closed,      \* calls whose channel is closed
    old,         \* calls that started a minute ago or more
    queue,       \* respRegisterCh
    topic,       \* the response topic: [id, call] of the transactions answered
    pos,         \* number of messages the reader has taken
    at,          \* where the reader is
    msg,         \* the message it has read, or None
    to, val,     \* the call it sends to, and what
    todo,        \* ids the cleanup has still to look at
    reqMap,      \* the calls registered by id
    down         \* the context of the process has ended

client == <<pc, result, closed>>
reader == <<pos, at, msg, to, val, todo, reqMap>>
vars == <<client, old, queue, topic, reader, down>>

Results == Calls \cup {None, "nil", "timeout", "error", "context"}

Init ==
    /\ pc = [t \in Calls |-> "idle"]
    /\ result = [t \in Calls |-> None]
    /\ closed = {} /\ old = {}
    /\ queue = <<>> /\ topic = <<>>
    /\ pos = 0 /\ at = "select" /\ msg = None
    /\ to = None /\ val = None /\ todo = {}
    /\ reqMap = [id \in {} |-> None]
    /\ down = FALSE

-----------------------------------------------------------------------------
(* The calls *)

\* One id for all the calls of the process.
TxnIdShared(t) == CHOOSE id \in Traces : TRUE

\* The id of a transaction is the trace id of the caller's context.
TxnId(t) == TraceOf[t]

\* The channel is left open.
ReturnOpen(t, value) ==
    /\ pc' = [pc EXCEPT ![t] = "done"]
    /\ result' = [result EXCEPT ![t] = value]
    /\ UNCHANGED closed

\* The call returns, and the deferred function closes its channel.
Return(t, value) ==
    /\ pc' = [pc EXCEPT ![t] = "done"]
    /\ result' = [result EXCEPT ![t] = value]
    /\ closed' = closed \cup {t}

\* The steps are prepared and the channel is made.
Call(t) ==
    /\ pc[t] = "idle"
    /\ pc' = [pc EXCEPT ![t] = "register"]
    /\ UNCHANGED <<result, closed, old, queue, topic, reader, down>>

\* The channel takes any number of registrations.
RegisterUnbounded(t) ==
    /\ pc[t] = "register"
    /\ queue' = Append(queue, t)
    /\ pc' = [pc EXCEPT ![t] = "produce"]
    /\ UNCHANGED <<result, closed, old, topic, reader, down>>

\* RegisterResponseChannel blocks while the channel is full.
Register(t) ==
    /\ pc[t] = "register"
    /\ Len(queue) < Cap
    /\ queue' = Append(queue, t)
    /\ pc' = [pc EXCEPT ![t] = "produce"]
    /\ UNCHANGED <<result, closed, old, topic, reader, down>>

\* executeTxn; its error ends the call and leaves the registration behind.
Execute(t) ==
    /\ pc[t] = "produce"
    /\ \/ /\ pc' = [pc EXCEPT ![t] = "wait"]
          /\ UNCHANGED <<result, closed>>
       \/ Return(t, "error")
    /\ UNCHANGED <<old, queue, topic, reader, down>>

\* waitForResponse: the timer ...
TimeOut(t) ==
    /\ pc[t] = "wait"
    /\ Return(t, "timeout")
    /\ UNCHANGED <<old, queue, topic, reader, down>>

\* ... and the caller's context, which ends when the caller gives up.
ContextDone(t) ==
    /\ pc[t] = "wait"
    /\ Return(t, "context")
    /\ UNCHANGED <<old, queue, topic, reader, down>>

-----------------------------------------------------------------------------
(* The engine, the clock and the end of the process *)

\* The engine reports the transaction, and again when it replays a message.  A
\* transaction is produced by the last statement of executeTxn.
Answer(t) ==
    /\ pc[t] = "wait" \/ (pc[t] = "done" /\ result[t] # "error")
    /\ Cardinality({i \in DOMAIN topic : topic[i].call = t}) < MaxAnswers
    /\ topic' = Append(topic, [id |-> TxnId(t), call |-> t])
    /\ UNCHANGED <<client, old, queue, reader, down>>

MinutePasses(t) ==
    /\ pc[t] # "idle"
    /\ t \notin old
    /\ old' = old \cup {t}
    /\ UNCHANGED <<client, queue, topic, reader, down>>

ShutDown ==
    /\ ~down
    /\ down' = TRUE
    /\ UNCHANGED <<client, old, queue, topic, reader>>

-----------------------------------------------------------------------------
(* The reader of the response topic *)

\* ReadMessage returns a message, a time-out or an error that is logged.  The
\* default branch is for when no other is ready.
ReadMessage ==
    /\ at = "select"
    /\ ~down
    /\ at' = "drain"
    /\ \/ /\ pos < Len(topic)
          /\ msg' = topic[pos + 1]
          /\ pos' = pos + 1
       \/ msg' = None /\ UNCHANGED pos
    /\ UNCHANGED <<client, old, queue, topic, to, val, todo, reqMap, down>>

\* Registrations are taken only when there is a message to look up.
DrainWithMessage ==
    /\ at = "drain"
    /\ queue # <<>> /\ msg # None
    /\ queue' = Tail(queue)
    /\ LET t == Head(queue)
       IN reqMap' = [id \in DOMAIN reqMap \cup {TxnId(t)} |->
                        IF id = TxnId(t) THEN t ELSE reqMap[id]]
    /\ UNCHANGED <<client, old, topic, pos, at, msg, to, val, todo, down>>

\* One of the registrations is taken; one with the same id is replaced.
Drain ==
    /\ at = "drain"
    /\ queue # <<>>
    /\ queue' = Tail(queue)
    /\ LET t == Head(queue)
       IN reqMap' = [id \in DOMAIN reqMap \cup {TxnId(t)} |->
                        IF id = TxnId(t) THEN t ELSE reqMap[id]]
    /\ UNCHANGED <<client, old, topic, pos, at, msg, to, val, todo, down>>

Without(map, id) == [i \in DOMAIN map \ {id} |-> map[i]]

\* The message is looked up whatever waits to be registered.
HandleUndrained ==
    /\ at = "drain"
    /\ IF msg # None /\ msg.id \in DOMAIN reqMap
       THEN /\ at' = "send" /\ to' = reqMap[msg.id] /\ val' = msg.call
            /\ reqMap' = Without(reqMap, msg.id)
       ELSE at' = "select" /\ UNCHANGED <<to, val, reqMap>>
    /\ msg' = None
    /\ UNCHANGED <<client, old, queue, topic, pos, todo, down>>

\* No registration is left: the message is looked up, if there is one.
Handle ==
    /\ at = "drain"
    /\ queue = <<>>
    /\ IF msg # None /\ msg.id \in DOMAIN reqMap
       THEN /\ at' = "send" /\ to' = reqMap[msg.id] /\ val' = msg.call
            /\ reqMap' = Without(reqMap, msg.id)
       ELSE at' = "select" /\ UNCHANGED <<to, val, reqMap>>
    /\ msg' = None
    /\ UNCHANGED <<client, old, queue, topic, pos, todo, down>>

CleanupTick ==
    /\ at = "select"
    /\ DOMAIN reqMap # {}
    /\ at' = "clean"
    /\ todo' = DOMAIN reqMap
    /\ UNCHANGED <<client, old, queue, topic, pos, msg, to, val, reqMap, down>>

\* The loop over reqMap, in any order: a request of a minute ago gets a nil.
CleanupVisit(id) ==
    /\ at = "clean"
    /\ id \in todo
    /\ todo' = todo \ {id}
    /\ IF reqMap[id] \in old
       THEN at' = "sendnil" /\ to' = reqMap[id] /\ val' = "nil"
       ELSE UNCHANGED <<at, to, val>>
    /\ UNCHANGED <<client, old, queue, topic, pos, msg, reqMap, down>>

CleanupEnd ==
    /\ at = "clean"
    /\ todo = {}
    /\ at' = "select"
    /\ UNCHANGED <<client, old, queue, topic, pos, msg, to, val, todo, reqMap, down>>

\* The entry stays.
SentKept ==
    /\ at' = IF at = "send" THEN "select" ELSE "clean"
    /\ to' = None /\ val' = None
    /\ UNCHANGED reqMap

\* respondThroughChannel has returned.  The cleanup deletes the entry now, the
\* reader did so before.
Sent ==
    /\ at' = IF at = "send" THEN "select" ELSE "clean"
    /\ reqMap' = IF at = "send" THEN reqMap ELSE Without(reqMap, TxnId(to))
    /\ to' = None /\ val' = None

\* The call takes the value from its channel ...
Receive(t) ==
    /\ at \in {"send", "sendnil"} /\ to = t
    /\ pc[t] = "wait"
    /\ Return(t, val)
    /\ Sent
    /\ UNCHANGED <<old, queue, topic, pos, msg, todo, down>>

\* ... or has closed it: the send panics, and the panic is recovered from.
SendPanics ==
    /\ at \in {"send", "sendnil"}
    /\ to \in closed
    /\ Sent
    /\ UNCHANGED <<client, old, queue, topic, pos, msg, todo, down>>

Exit ==
    /\ at = "select"
    /\ down
    /\ at' = "exit"
    /\ UNCHANGED <<client, old, queue, topic, pos, msg, to, val, todo, reqMap, down>>

-----------------------------------------------------------------------------

\* The reader, once it is in a branch of its loop.
Proceed ==
    \/ Drain \/ Handle \/ CleanupEnd \/ SendPanics \/ Exit
    \/ \E id \in Traces : CleanupVisit(id)

Next ==
    \/ \E t \in Calls : \/ Call(t) \/ Register(t) \/ Execute(t) \/ TimeOut(t)
                        \/ ContextDone(t) \/ Receive(t)
                        \/ Answer(t) \/ MinutePasses(t)
    \/ ReadMessage \/ CleanupTick \/ Proceed \/ ShutDown

Spec == Init /\ [][Next]_vars

\* Timers fire, executeTxn returns and the reader's loop goes on.  A sender that
\* is blocked on a channel is served in turn, and neither the ticker nor the
\* default branch is for ever passed over at the select.
FairSpec ==
    /\ Spec
    /\ WF_vars(Proceed) /\ SF_vars(ReadMessage) /\ SF_vars(CleanupTick)
    /\ \A t \in Calls :
          /\ SF_vars(Register(t)) /\ WF_vars(Execute(t)) /\ WF_vars(TimeOut(t))
          /\ WF_vars(MinutePasses(t))

-----------------------------------------------------------------------------
(* Properties *)

\* The registrations never exceed the channel, and the reader sends to a call
\* exactly while it is in respondThroughChannel.
TypeOK ==
    /\ pc \in [Calls -> {"idle", "register", "produce", "wait", "done"}]
    /\ result \in [Calls -> Results]
    /\ closed \subseteq Calls /\ old \subseteq Calls
    /\ queue \in Seq(Calls) /\ Len(queue) <= Cap
    /\ topic \in Seq([id : Traces, call : Calls])
    /\ pos \in Nat /\ pos <= Len(topic)
    /\ at \in {"select", "drain", "send", "clean", "sendnil", "exit"}
    /\ msg \in [id : Traces, call : Calls] \cup {None}
    /\ to \in Calls \cup {None} /\ val \in Calls \cup {None, "nil"}
    /\ (at \in {"send", "sendnil"}) <=> (to # None)
    /\ DOMAIN reqMap \subseteq Traces /\ todo \subseteq DOMAIN reqMap
    /\ \A id \in DOMAIN reqMap : reqMap[id] \in Calls
    /\ down \in BOOLEAN

\* An answer that the reader has dealt with has found the call that waits for
\* it: "Read all registration messages here so we are sure to catch them before
\* handling message".
NoAnswerPassedBy ==
    \A i \in 1..pos :
        LET t == topic[i].call
        IN pc[t] = "wait" => to = t \/ (i = pos /\ msg # None)

\* The reader sends an answer to the call whose transaction it is about, and a
\* call returns no other, also when an answer comes twice, or after the time-out
\* of the call that waited for it.
AnswerIsOwn ==
    /\ val \in Calls => to = val
    /\ \A t \in Calls : result[t] \in Calls => result[t] = t

\* Every call returns, unless the process ends before its channel is registered.
EveryCallReturns ==
    \A t \in Calls : (pc[t] # "idle") ~> (pc[t] = "done" \/ down)

\* A call that has gone, or that is late to wait, never holds up the reader.
ReaderGoesOn == (at \in {"send", "sendnil"}) ~> (at \in {"select", "clean"})

\* The entry of a call that has returned is removed at last.
NoEntryLeaks ==
    \A t \in Calls :
        (pc[t] = "done" /\ \E id \in DOMAIN reqMap : reqMap[id] = t)
            ~> (down \/ \A id \in DOMAIN reqMap : reqMap[id] # t)
=============================================================================
