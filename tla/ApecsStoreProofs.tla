-------------------------- MODULE ApecsStoreProofs --------------------------
(***************************************************************************)
(* Memory leads storage: while no consumer restarts, the record of an      *)
(* instance in the store is not older than its row in the database.        *)
(*                                                                         *)
(* The reason is the offsets.  A write to storage is made from a command   *)
(* that has changed the store under the same offset, and a record that     *)
(* comes into the store later, after it was flushed or was never there,    *)
(* has the offset of the message that is being read, which is beyond that  *)
(* of every command read before it.                                        *)
(***************************************************************************)
EXTENDS ApecsProofs

-----------------------------------------------------------------------------
(* The inductive invariant *)

\* No client replaces an instance as a whole: CREATE and UPDATE write storage
\* first and refresh the store after it, so storage is ahead in between.  And
\* every step names its instance.
CommandsOnly ==
    \A t \in Txns : \A i \in DOMAIN Requests[t] :
        /\ Requests[t][i].cmd \notin {"Create", "Update"}
        /\ Requests[t][i].key # NoKey

Home(k) == <<"PROCESS", PartOf[k]>>

\* off is the offset of a message about k that its consumer has passed, or is
\* from before the start, and what the memory holds of k is not older.
Behind(k, off, read, mem) ==
    /\ off \in CmpdOffsets /\ off.part = PartOf[k] /\ off.gen <= Generation
    /\ off.gen = Generation => off.off < read[Home(k)]
    /\ k \in DOMAIN mem => OffsetGTE(mem[k].off, off)

\* The steps that write the primary target, and those that make such steps.
LeadsToWrite(step) ==
    \/ step.sys = "STORAGE" /\ step.cmd = "UpdateAsync"
    \/ step.sys = "PROCESS" /\ step.rslt # Nil /\ step.rslt.inst # Nil

LedSteps(read, mem) ==
    {step \in Steps :
        /\ step.cmd \notin {"Create", "Update", "ValidateCreate", "ValidateUpdate"}
        /\ step.sys # "STORAGE_SCND" => step.key # NoKey
        /\ LeadsToWrite(step) => Behind(step.key, step.off, read, mem)}

MadeOf(S) == {m \in Messages : m.steps \in Seq(S)}

LeadInv ==
    crashes = 0 =>
        /\ \A k \in DOMAIN db : Behind(k, db[k].off, pos, store)
        /\ \A c \in Consumers : log[c] \in Seq(MadeOf(LedSteps(pos, store)))
        /\ \A c, d \in Consumers : out[c][d] \in Seq(MadeOf(LedSteps(pos, store)))

-----------------------------------------------------------------------------
(* Steps *)

\* What becomes of a step of a transaction, and what is made from it when the
\* transaction is complete, is led as the step is.
LEMMA LedRefilled ==
    ASSUME NEW read, NEW mem, NEW step \in LedSteps(read, mem), step.rslt = Nil,
           NEW key \in Keys, NEW payload \in Instances \cup {Nil},
           NEW off \in CmpdOffsets \cup {Nil},
           step.sys # "PROCESS" => key = step.key /\ (step.off # Nil => off = step.off)
    PROVE  [sys |-> step.sys, cmd |-> step.cmd, key |-> key,
            payload |-> payload, off |-> off, rslt |-> step.rslt] \in LedSteps(read, mem)
<1> DEFINE new == [sys |-> step.sys, cmd |-> step.cmd, key |-> key,
                   payload |-> payload, off |-> off, rslt |-> step.rslt]
<1>1. /\ step \in Steps
      /\ step.cmd \notin {"Create", "Update", "ValidateCreate", "ValidateUpdate"}
      /\ LeadsToWrite(step) => Behind(step.key, step.off, read, mem)
  BY DEF LedSteps
<1>2. new \in Steps
  BY <1>1, StepFields DEF Steps
<1>3. key # NoKey
  BY NilAssumption
<1>4. ASSUME LeadsToWrite(new) PROVE Behind(key, off, read, mem)
  <2>1. step.sys = "STORAGE" /\ step.cmd = "UpdateAsync"
    BY <1>4 DEF LeadsToWrite
  <2>2. Behind(step.key, step.off, read, mem)
    BY <1>1, <2>1 DEF LeadsToWrite
  <2>3. step.off # Nil
    BY <2>2, NilAssumption DEF Behind
  <2> QED BY <2>1, <2>2, <2>3
<1> QED
  BY <1>1, <1>2, <1>3, <1>4 DEF LedSteps

LEMMA LedUpdateAsync ==
    ASSUME NEW read, NEW mem, NEW step \in LedSteps(read, mem), step.rslt # Nil,
           step.sys = "PROCESS", step.rslt.inst # Nil, NEW sys \in {"STORAGE", "STORAGE_SCND"}
    PROVE  Step(sys, "UpdateAsync", step.key, step.rslt.inst, step.off) \in LedSteps(read, mem)
<1> DEFINE new == Step(sys, "UpdateAsync", step.key, step.rslt.inst, step.off)
<1>1. /\ step \in Steps /\ step.key # NoKey /\ Behind(step.key, step.off, read, mem)
  BY DEF LedSteps, LeadsToWrite
<1>2. step.rslt.inst \in Instances \cup {Nil}
  BY <1>1, StepFields DEF Results
<1>3. sys \in Systems /\ "UpdateAsync" \in Commands
  BY DEF Systems, Commands, ReservedCommands
<1>4. new \in Steps
  BY <1>1, <1>2, <1>3, StepFields DEF Steps, Step
<1> QED
  BY <1>1, <1>4 DEF LedSteps, Step

LEMMA LedSecondary ==
    ASSUME NEW read, NEW mem, NEW step \in LedSteps(read, mem), step.rslt # Nil
    PROVE  Step("STORAGE_SCND", step.cmd, step.rslt.key, step.rslt.payload, step.off)
             \in LedSteps(read, mem)
<1> DEFINE new == Step("STORAGE_SCND", step.cmd, step.rslt.key, step.rslt.payload, step.off)
<1>1. /\ step \in Steps
      /\ step.cmd \notin {"Create", "Update", "ValidateCreate", "ValidateUpdate"}
  BY DEF LedSteps
<1>2. step.rslt.key \in Keys \cup {NoKey} /\ step.rslt.payload \in Instances \cup {Nil}
  BY <1>1, StepFields DEF Results
<1>3. "STORAGE_SCND" \in Systems
  BY DEF Systems
<1>4. new \in Steps
  BY <1>1, <1>2, <1>3, StepFields DEF Steps, Step
<1> QED
  BY <1>1, <1>4 DEF LedSteps, Step, LeadsToWrite

\* A step that is made is led, unless it writes the primary target.
LEMMA LedNew ==
    ASSUME NEW read, NEW mem, NEW step \in Steps, step.rslt = Nil, step.key # NoKey,
           step.cmd \in {"Read", "Delete", "RefreshInstance", "FlushInstance", "Change",
                         "Query", "Reject"}
    PROVE  step \in LedSteps(read, mem)
BY DEF LedSteps, LeadsToWrite

-----------------------------------------------------------------------------
(* Transactions *)

LEMMA NextLed ==
    ASSUME NEW read, NEW mem, NEW S, S = LedSteps(read, mem),
           NEW m, StepDone(m), CanAdvance(m), m.steps \in Seq(S)
    PROVE  NextStepTxn(m) \in MadeOf(S)
<1> DEFINE step == CurrentStep(m)
           next == m.steps[m.cur + 1]
           payload == IF next.payload = Nil /\ next.cmd \notin ReservedCommands
                      THEN step.rslt.payload ELSE next.payload
           off == IF next.sys = "STORAGE" /\ next.off = Nil
                  THEN step.off ELSE next.off
           st == [next EXCEPT !.payload = payload, !.off = off]
           steps == [m.steps EXCEPT ![m.cur + 1] = st]
           new == NextStepTxn(m)
<1>1. /\ m = [id |-> m.id, upon |-> m.upon, cur |-> m.cur, steps |-> m.steps]
      /\ m.steps \in Seq(Steps) /\ m.cur \in Nat \ {0}
  BY DEF StepDone, Messages
<1>2. Len(m.steps) \in Nat /\ m.cur \in 1..Len(m.steps) /\ m.cur + 1 \in 1..Len(m.steps)
  BY <1>1, LenProperties DEF StepDone, CanAdvance
<1>3. IsDone(step, m.id) /\ IsTodo(next, m.id)
  BY <1>1, <1>2 DEF StepDone, CurrentStep
<1>4. TxnOK(new)
  BY NextOK
<1>5. new.steps = steps
  <2>1. new = [m EXCEPT !.cur = m.cur + 1, !.steps = steps]
    BY DEF NextStepTxn
  <2> HIDE DEF steps, new
  <2> QED BY <1>1, <2>1
<1>6. next \in S
  BY <1>2, ElementOfSeq
<1>7. /\ step \in Steps /\ step.off # Nil /\ step.rslt \in Results
      /\ next \in Steps /\ next.rslt = Nil
  BY <1>3, StepFields DEF IsDone, IsTodo, StepOK
<1>8. /\ step.rslt.payload \in Instances \cup {Nil} /\ next.payload \in Instances \cup {Nil}
      /\ step.off \in CmpdOffsets \cup {Nil} /\ next.off \in CmpdOffsets \cup {Nil}
  BY <1>7, StepFields DEF Results
<1> HIDE DEF step, next, new
<1>9. /\ payload \in Instances \cup {Nil} /\ off \in CmpdOffsets \cup {Nil}
      /\ next.off # Nil => off = next.off
  BY <1>8
<1> HIDE DEF payload, off
<1>10. st = [sys |-> next.sys, cmd |-> next.cmd, key |-> next.key,
             payload |-> payload, off |-> off, rslt |-> next.rslt]
  <2> DEFINE n1 == [next EXCEPT !.payload = payload]
  <2>1. n1 = [sys |-> next.sys, cmd |-> next.cmd, key |-> next.key,
              payload |-> payload, off |-> next.off, rslt |-> next.rslt]
    BY <1>7, StepFields
  <2>2. st = [n1 EXCEPT !.off = off]
    BY <1>7, StepFields
  <2> HIDE DEF n1
  <2> QED BY <2>1, <2>2
<1> HIDE DEF st
<1>11. st \in S
  <2>1. CASE next.key \in Keys
    BY <1>6, <1>7, <1>9, <1>10, <2>1, LedRefilled
  <2>2. CASE next.key = NoKey
    <3>1. next.sys = "STORAGE_SCND" /\ next \in LedSteps(read, mem)
      BY <1>6, <2>2 DEF LedSteps
    <3>2. st \in Steps
      BY <1>7, <1>9, <1>10, StepFields DEF Steps
    <3> QED BY <1>10, <3>1, <3>2 DEF LedSteps, LeadsToWrite
  <2> QED BY <1>7, <2>1, <2>2, StepFields
<1>12. steps \in Seq(S)
  BY <1>2, <1>11, ExceptSeq
<1> QED
  BY <1>4, <1>5, <1>12 DEF MadeOf, TxnOK, new

\* The messages of one step that are made at the end.
LEMMA OneStepLed ==
    ASSUME NEW S, NEW st \in S, NEW m, m \in Messages, m.steps = <<st>>
    PROVE  m \in MadeOf(S)
BY DEF MadeOf

LEMMA GeneratedLed ==
    ASSUME NEW read, NEW mem, NEW S, S = LedSteps(read, mem),
           NEW m, StepDone(m), ~CanAdvance(m), m.steps \in Seq(S), NEW d \in Consumers,
           NEW fst \in Seq(SecondaryStepsAt(m, d[2])), NEW snd \in Seq(UpdateStepsAt(m, d[2]))
    PROVE  Generated(m, d, fst, snd) \in Seq(MadeOf(S))
<1> DEFINE loop1 == IF d[1] = "STORAGE_SCND"
                    THEN [i \in 1..Len(fst) |-> SecondaryTxn(m, fst[i])] ELSE <<>>
           loop2 == IF d[1] # "PROCESS"
                    THEN [i \in 1..Len(snd) |-> UpdateAsyncTxn(m, d[1], snd[i])] ELSE <<>>
           X == MadeOf(S)
<1>1. Generated(m, d, fst, snd) = loop1 \o loop2
  BY DEF Generated
<1>2. d = <<d[1], d[2]>> /\ d[1] \in {"PROCESS", "STORAGE", "STORAGE_SCND"}
  BY ConsumerPair DEF Systems
<1>3. ASSUME NEW i \in DOMAIN m.steps PROVE m.steps[i] \in S /\ m.steps[i].rslt # Nil
  <2>1. DOMAIN m.steps = 1..Len(m.steps) /\ Len(m.steps) \in Nat /\ m.cur \in Nat
    BY LenProperties DEF StepDone, Messages
  <2>2. m.steps[i] \in S
    BY <2>1, ElementOfSeq
  <2>3. IsDone(m.steps[i], m.id)
    BY <2>1 DEF StepDone, CanAdvance
  <2> QED BY <2>2, <2>3 DEF IsDone
<1>4. ASSUME d[1] = "STORAGE_SCND", NEW i \in 1..Len(fst) PROVE SecondaryTxn(m, fst[i]) \in X
  <2>1. fst[i] \in SecondaryStepsAt(m, d[2])
    BY ElementOfSeq
  <2>2. d = <<"STORAGE_SCND", d[2]>>
    BY <1>2, <1>4
  <2>3. SecondaryTxn(m, fst[i]) \in Messages
    BY <2>1, <2>2, SecondaryGood DEF Good
  <2> DEFINE st == m.steps[fst[i]]
             new == Step("STORAGE_SCND", st.cmd, st.rslt.key, st.rslt.payload, st.off)
  <2>4. st \in S /\ st.rslt # Nil
    BY <1>3, <2>1 DEF SecondaryStepsAt, SecondarySteps
  <2>5. SecondaryTxn(m, fst[i]).steps = <<new>>
    BY DEF SecondaryTxn, StorageTxn
  <2> HIDE DEF st
  <2>6. new \in S
    BY <2>4, LedSecondary
  <2> HIDE DEF new
  <2> QED BY <2>3, <2>5, <2>6, OneStepLed
<1>5. ASSUME d[1] # "PROCESS", NEW i \in 1..Len(snd) PROVE UpdateAsyncTxn(m, d[1], snd[i]) \in X
  <2>1. snd[i] \in UpdateStepsAt(m, d[2])
    BY ElementOfSeq
  <2>2. d[1] \in {"STORAGE", "STORAGE_SCND"}
    BY <1>2, <1>5
  <2>3. UpdateAsyncTxn(m, d[1], snd[i]) \in Messages
    BY <1>2, <2>1, <2>2, UpdateAsyncGood DEF Good
  <2> DEFINE st == m.steps[snd[i]]
             new == Step(d[1], "UpdateAsync", st.key, st.rslt.inst, st.off)
  <2>4. st \in S /\ st.rslt # Nil /\ st.sys = "PROCESS" /\ st.rslt.inst # Nil
    BY <1>3, <2>1 DEF UpdateStepsAt, UpdateSteps
  <2>5. UpdateAsyncTxn(m, d[1], snd[i]).steps = <<new>>
    BY DEF UpdateAsyncTxn, StorageTxn
  <2> HIDE DEF st
  <2>6. new \in S
    BY <2>2, <2>4, LedUpdateAsync
  <2> HIDE DEF new
  <2> QED BY <2>3, <2>5, <2>6, OneStepLed
<1>6. Len(fst) \in Nat /\ Len(snd) \in Nat
  BY LenProperties
<1> HIDE DEF X
<1>7. loop1 \in Seq(X)
  <2>1. CASE d[1] = "STORAGE_SCND"
    BY <1>4, <1>6, <2>1, SeqDef
  <2>2. CASE d[1] # "STORAGE_SCND"
    BY <2>2
  <2> QED BY <2>1, <2>2
<1>8. loop2 \in Seq(X)
  <2>1. CASE d[1] # "PROCESS"
    BY <1>5, <1>6, <2>1, SeqDef
  <2>2. CASE d[1] = "PROCESS"
    BY <2>2
  <2> QED BY <2>1, <2>2
<1> HIDE DEF loop1, loop2
<1> QED
  BY <1>1, <1>7, <1>8, ConcatProperties DEF X

-----------------------------------------------------------------------------
(* What a consumer produces *)

QueuesMadeOf(S) == \A b, d \in Consumers : out[b][d] \in Seq(MadeOf(S))

LEMMA ProduceLed ==
    ASSUME Inv, NEW c \in Consumers, NEW S, QueuesMadeOf(S), NEW m \in MadeOf(S), Produce(c, m)
    PROVE  \A b, d \in Consumers : out'[b][d] \in Seq(MadeOf(S))
<1>1. PICK random \in Parts :
        out' = [out EXCEPT ![c][Dest(m, random)] = Append(@, m)]
  BY DEF Produce
<1> SUFFICES ASSUME NEW b \in Consumers, NEW d \in Consumers
             PROVE  out'[b][d] \in Seq(MadeOf(S))
  OBVIOUS
<1>2. out'[b][d] = out[b][d] \/ out'[b][d] = Append(out[b][d], m)
  BY <1>1, QueueTypes DEF Destinations
<1> DEFINE X == MadeOf(S)
           s == out[b][d]
<1>3. s \in Seq(X) /\ m \in X
  BY DEF QueuesMadeOf
<1> HIDE DEF X, s
<1>4. Append(s, m) \in Seq(X)
  BY <1>3, AppendProperties
<1> QED
  BY <1>2, <1>3, <1>4 DEF X, s

LEMMA ErrorLed ==
    ASSUME Inv, NEW c \in Consumers, NEW S, QueuesMadeOf(S), NEW code,
           ProduceError(c, Msg(c), code)
    PROVE  \A b, d \in Consumers : out'[b][d] \in Seq(MadeOf(S))
<1> SUFFICES ASSUME NEW b \in Consumers, NEW d \in Consumers
             PROVE  out'[b][d] \in Seq(MadeOf(S))
  OBVIOUS
<1> DEFINE r == Report(Msg(c), code)
<1>1. out' = [out EXCEPT ![c][Reports] = @ \o r]
  BY DEF ProduceError
<1> HIDE DEF r
<1>2. d # Reports /\ d \in Destinations
  BY ReportsApart DEF Destinations
<1>3. out'[b][d] = out[b][d]
  BY <1>1, <1>2, QueueTypes
<1> QED
  BY <1>3 DEF QueuesMadeOf

LEMMA EndLed ==
    ASSUME Inv, NEW c \in Consumers, NEW read, NEW mem, NEW S, S = LedSteps(read, mem),
           QueuesMadeOf(S), NEW m, StepDone(m), ~CanAdvance(m), m.steps \in Seq(S),
           ProduceAtEnd(c, m)
    PROVE  \A b, d \in Consumers : out'[b][d] \in Seq(MadeOf(S))
<1>1. PICK fst \in [Parts -> UNION {Ascending(SecondaryStepsAt(m, p)) : p \in Parts}],
           snd \in [Parts -> UNION {Enumerations(UpdateStepsAt(m, p)) : p \in Parts}] :
        /\ \A p \in Parts : /\ fst[p] \in Ascending(SecondaryStepsAt(m, p))
                            /\ snd[p] \in Enumerations(UpdateStepsAt(m, p))
        /\ out' = [out EXCEPT ![c] = [d \in Destinations |->
                      @[d] \o IF d = Reports THEN Report(m, "OK")
                              ELSE Generated(m, d, fst[d[2]], snd[d[2]])]]
  BY DEF ProduceAtEnd
<1> SUFFICES ASSUME NEW b \in Consumers, NEW d \in Consumers
             PROVE  out'[b][d] \in Seq(MadeOf(S))
  OBVIOUS
<1> DEFINE gen == Generated(m, d, fst[d[2]], snd[d[2]])
           queue == [e \in Destinations |->
                      out[c][e] \o IF e = Reports THEN Report(m, "OK")
                                   ELSE Generated(m, e, fst[e[2]], snd[e[2]])]
<1>2. d[2] \in Parts /\ d \in Destinations /\ d # Reports
  BY ConsumerPair, ReportsApart DEF Destinations
<1>3. m.steps \in Seq(Steps)
  BY DEF StepDone, Messages
<1>4. Len(m.steps) \in Nat /\ DOMAIN m.steps = 1..Len(m.steps)
  BY <1>3, LenProperties
<1>5. /\ SecondaryStepsAt(m, d[2]) \in SUBSET (1..Len(m.steps))
      /\ UpdateStepsAt(m, d[2]) \in SUBSET (1..Len(m.steps))
  BY <1>4 DEF SecondaryStepsAt, SecondarySteps, UpdateStepsAt, UpdateSteps
<1>6. fst[d[2]] \in Enumerations(SecondaryStepsAt(m, d[2]))
      /\ snd[d[2]] \in Enumerations(UpdateStepsAt(m, d[2]))
  BY <1>1, <1>2 DEF Ascending
<1>7. fst[d[2]] \in Seq(SecondaryStepsAt(m, d[2])) /\ snd[d[2]] \in Seq(UpdateStepsAt(m, d[2]))
  BY <1>4, <1>5, <1>6, EnumerationType
<1>8. gen \in Seq(MadeOf(S))
  BY <1>7, GeneratedLed
<1>9. queue[d] = out[c][d] \o gen
  BY <1>2
<1>10. out' = [out EXCEPT ![c] = queue]
  BY <1>1
<1> HIDE DEF gen, queue
<1>11. out[b][d] \in Seq(MadeOf(S)) /\ out[c][d] \in Seq(MadeOf(S))
  BY DEF QueuesMadeOf
<1>12. out'[b][d] = out[b][d] \/ out'[b][d] = out[c][d] \o gen
  BY <1>9, <1>10, QueueTypes
<1> DEFINE X == MadeOf(S)
           s == out[c][d]
<1>13. s \o gen \in Seq(X)
  <2>1. s \in Seq(X) /\ gen \in Seq(X)
    BY <1>8, <1>11
  <2> HIDE DEF X, s
  <2> QED BY <2>1, ConcatProperties
<1> QED
  BY <1>11, <1>12, <1>13

\* A handler ends well: what it produces is led if the steps of the message, the
\* step it has done and the steps it adds are.
LEMMA FinishesLed ==
    ASSUME Inv, NEW c \in Consumers, Ready(c), NEW read, NEW mem, NEW S, S = LedSteps(read, mem),
           QueuesMadeOf(S), Msg(c).steps \in Seq(S),
           NEW key \in Keys \cup {NoKey}, NEW payload \in Instances \cup {Nil},
           NEW inst \in Instances \cup {Nil}, NEW add \in Seq(S),
           \A i \in 1..Len(add) : IsTodo(add[i], Msg(c).id),
           NEW done \in S,
           done = [Arrived(c) EXCEPT !.rslt =
                     Result("OK", key, IF payload = Nil THEN Arrived(c).payload ELSE payload, inst)],
           Finishes(c, key, payload, inst, add)
    PROVE  \A b, d \in Consumers : out'[b][d] \in Seq(MadeOf(S))
<1> DEFINE step == Arrived(c)
           m == Msg(c)
           pl == IF payload = Nil THEN step.payload ELSE payload
           set == SetCurrentStep(m, done)
           txn == InsertSteps(set, m.cur + 1, add)
<1>1. \/ CanAdvance(txn) /\ Produce(c, NextStepTxn(txn))
      \/ ~CanAdvance(txn) /\ ProduceAtEnd(c, txn)
  BY DEF Finishes
<1>2. TxnOK(m) /\ IsTodo(step, m.id) /\ step.off # Nil
  BY ReadFacts, ArrivedTodo
<1>3. pl \in Instances \cup {Nil} /\ (step.payload # Nil => pl # Nil)
  BY <1>2, StepFields DEF IsTodo, StepOK
<1>4. IsDone(done, m.id)
  <2>1. done = [step EXCEPT !.rslt = Result("OK", key, pl, inst)]
    OBVIOUS
  <2> HIDE DEF step, pl, m
  <2>2. IsDone([step EXCEPT !.rslt = Result("OK", key, pl, inst)], m.id)
    BY <1>2, <1>3, TodoFinished, Zenon
  <2> QED BY <2>1, <2>2
<1>5. add \in Seq(Steps)
  <2>1. S \subseteq Steps
    BY DEF LedSteps
  <2>2. add \in Seq(S)
    OBVIOUS
  <2> QED BY ONLY <2>1, <2>2, SeqMonotonic
<1> HIDE DEF m
<1>6. StepDone(txn)
  BY <1>2, <1>4, <1>5, StepIsDone DEF m
<1>7. txn.steps \in Seq(S)
  <2> DEFINE s == [m.steps EXCEPT ![m.cur] = done]
  <2>1. /\ m = [id |-> m.id, upon |-> m.upon, cur |-> m.cur, steps |-> m.steps]
        /\ Len(m.steps) \in Nat /\ m.cur \in 1..Len(m.steps) /\ m.steps \in Seq(S)
    BY <1>2, TxnFields DEF m
  <2>2. set = [id |-> m.id, upon |-> m.upon, cur |-> m.cur, steps |-> s]
    BY <2>1, SetCurrentFields
  <2>3. s \in Seq(S) /\ Len(s) = Len(m.steps)
    BY <2>1, ExceptSeq
  <2> HIDE DEF s, set
  <2>4. txn.steps = Inserted(s, m.cur + 1, add)
    BY <2>2, InsertFields
  <2>5. m.cur + 1 \in 1..(Len(s) + 1) /\ add \in Seq(S)
    BY <2>1, <2>3
  <2>6. Inserted(s, m.cur + 1, add) \in Seq(S)
    BY ONLY <2>3, <2>5, InsertedSteps
  <2> QED BY ONLY <2>4, <2>6
<1> HIDE DEF txn
<1>8. CASE CanAdvance(txn) /\ Produce(c, NextStepTxn(txn))
  <2> DEFINE next == NextStepTxn(txn)
  <2>1. next \in MadeOf(S)
    BY <1>6, <1>7, <1>8, NextLed
  <2>2. Produce(c, next)
    BY <1>8
  <2> HIDE DEF next
  <2> QED BY <2>1, <2>2, ProduceLed
<1>9. CASE ~CanAdvance(txn) /\ ProduceAtEnd(c, txn)
  BY <1>6, <1>7, <1>9, EndLed
<1> QED
  BY <1>1, <1>8, <1>9

-----------------------------------------------------------------------------
(* What is led stays so *)

LEMMA HomeConsumer == \A k \in Keys : Home(k) \in Consumers /\ PartOf[k] \in Nat
BY PartsAssumption DEF Home, Consumers, Systems

\* The offset that a message about k has when it is read now.
Now(k) == [gen |-> Generation, part |-> PartOf[k], off |-> pos[Home(k)]]

LEMMA NowType ==
    ASSUME Inv, NEW k \in Keys
    PROVE  Now(k) \in CmpdOffsets
BY HomeConsumer DEF Now, CmpdOffsets, Generation, Inv, PositionsOK

\* Consumers go forward, and a record comes to be in the store, or is replaced
\* there, by one that is newer or of this very message.
GoesForward ==
    /\ \A b \in Consumers : pos'[b] \in Nat /\ pos[b] <= pos'[b]
    /\ \A k \in DOMAIN store' :
          /\ k \in Keys /\ store'[k].off \in CmpdOffsets
          /\ \/ k \in DOMAIN store /\ OffsetGTE(store'[k].off, store[k].off)
             \/ OffsetGTE(store'[k].off, Now(k))

LEMMA Transitive ==
    ASSUME NEW a \in CmpdOffsets, NEW b \in CmpdOffsets, NEW c \in CmpdOffsets,
           OffsetGTE(a, b), OffsetGTE(b, c)
    PROVE  OffsetGTE(a, c)
BY OffsetOrder

LEMMA BehindKept ==
    ASSUME Inv, GoesForward, NEW k \in Keys, NEW off, Behind(k, off, pos, store),
           NEW read, NEW mem, read = pos', mem = store'
    PROVE  Behind(k, off, read, mem)
<1>1. /\ off \in CmpdOffsets /\ off.part = PartOf[k] /\ off.gen <= Generation
      /\ off.gen = Generation => off.off < pos[Home(k)]
      /\ k \in DOMAIN store => OffsetGTE(store[k].off, off)
  BY DEF Behind
<1>2. Home(k) \in Consumers
  BY HomeConsumer
<1>3. pos[Home(k)] \in Nat /\ pos'[Home(k)] \in Nat /\ pos[Home(k)] <= pos'[Home(k)]
  BY <1>2 DEF Inv, PositionsOK, GoesForward
<1>4. off.gen \in Nat /\ off.off \in Nat
  BY <1>1 DEF CmpdOffsets
<1>5. off.gen = Generation => off.off < read[Home(k)]
  BY <1>1, <1>3, <1>4
<1>6. OffsetGTE(Now(k), off)
  BY <1>1, <1>3, <1>4, HomeConsumer DEF OffsetGTE, Now, Generation
<1>7. ASSUME k \in DOMAIN mem PROVE OffsetGTE(mem[k].off, off)
  <2>1. /\ mem[k].off \in CmpdOffsets
        /\ \/ k \in DOMAIN store /\ OffsetGTE(mem[k].off, store[k].off)
           \/ OffsetGTE(mem[k].off, Now(k))
    BY <1>7 DEF GoesForward
  <2>2. CASE k \in DOMAIN store /\ OffsetGTE(mem[k].off, store[k].off)
    <3>1. store[k].off \in CmpdOffsets
      BY <2>2, InstanceThere
    <3> QED BY <1>1, <2>1, <2>2, <3>1, Transitive
  <2>3. CASE OffsetGTE(mem[k].off, Now(k))
    BY <1>1, <1>6, <2>1, <2>3, NowType, Transitive
  <2> QED BY <2>1, <2>2, <2>3
<1> QED
  BY <1>1, <1>5, <1>7 DEF Behind

LEMMA LedKept ==
    ASSUME Inv, GoesForward, NEW read, NEW mem, read = pos', mem = store'
    PROVE  /\ LedSteps(pos, store) \subseteq LedSteps(read, mem)
           /\ MadeOf(LedSteps(pos, store)) \subseteq MadeOf(LedSteps(read, mem))
<1> DEFINE S == LedSteps(pos, store)
           T == LedSteps(read, mem)
<1>1. ASSUME NEW step \in S PROVE step \in T
  <2>1. /\ step \in Steps
        /\ step.cmd \notin {"Create", "Update", "ValidateCreate", "ValidateUpdate"}
        /\ step.sys # "STORAGE_SCND" => step.key # NoKey
        /\ LeadsToWrite(step) => Behind(step.key, step.off, pos, store)
    BY <1>1 DEF LedSteps
  <2>2. ASSUME LeadsToWrite(step) PROVE Behind(step.key, step.off, read, mem)
    <3>1. step.key \in Keys
      BY <2>1, <2>2, StepFields DEF LeadsToWrite
    <3> QED BY <2>1, <2>2, <3>1, BehindKept
  <2> QED BY <2>1, <2>2 DEF LedSteps
<1>2. S \subseteq T
  BY <1>1
<1> HIDE DEF S, T
<1>3. ASSUME NEW m \in MadeOf(S) PROVE m \in MadeOf(T)
  <2>1. m \in Messages /\ m.steps \in Seq(S)
    BY <1>3 DEF MadeOf
  <2>2. m.steps \in Seq(T)
    BY ONLY <1>2, <2>1, SeqMonotonic
  <2> QED BY <2>1, <2>2 DEF MadeOf
<1> QED
  BY <1>2, <1>3 DEF S, T

\* The message that is read.
LEMMA ArrivedLed ==
    ASSUME Inv, NEW c \in Consumers, Ready(c), NEW read, NEW mem,
           Msg(c).steps \in Seq(LedSteps(read, mem))
    PROVE  LET step == Arrived(c)
           IN /\ step \in LedSteps(read, mem) /\ step \in Steps /\ step.rslt = Nil
              /\ step.cmd \notin {"Create", "Update", "ValidateCreate", "ValidateUpdate"}
              /\ c[1] # "STORAGE_SCND" => step.key \in Keys
              /\ c[1] = "PROCESS" => c = Home(step.key) /\ step.off = Now(step.key)
<1> DEFINE step == Arrived(c)
           cur == CurrentStep(Msg(c))
           S == LedSteps(read, mem)
<1>1. /\ IsTodo(step, Msg(c).id) /\ step.sys = c[1] /\ cur.sys = c[1]
      /\ step.cmd = cur.cmd /\ (cur.key # NoKey => step.key = cur.key)
      /\ c[1] # "PROCESS" => step.off = cur.off
  BY ArrivedTodo
<1>2. step \in Steps /\ step.rslt = Nil
  BY <1>1 DEF IsTodo, StepOK
<1>3. TxnOK(Msg(c)) /\ Resumable(c, Msg(c))
  BY ReadFacts
<1>4. cur \in S
  <2>1. Msg(c).cur \in 1..Len(Msg(c).steps) /\ Msg(c).steps \in Seq(S)
    BY <1>3, TxnFields
  <2> HIDE DEF S
  <2> QED BY <2>1, ElementOfSeq DEF CurrentStep
<1>5. /\ cur \in Steps
      /\ cur.cmd \notin {"Create", "Update", "ValidateCreate", "ValidateUpdate"}
      /\ cur.sys # "STORAGE_SCND" => cur.key # NoKey
      /\ LeadsToWrite(cur) => Behind(cur.key, cur.off, read, mem)
  BY <1>4 DEF LedSteps
<1>6. c[1] # "STORAGE_SCND" => step.key = cur.key /\ step.key \in Keys
  BY <1>1, <1>5, StepFields
<1>7. ASSUME c[1] = "PROCESS" PROVE c = Home(step.key) /\ step.off = Now(step.key)
  <2>1. PartOf[cur.key] = c[2]
    BY <1>1, <1>3, <1>5 DEF Resumable, IsKeylessStep
  <2>2. c = <<c[1], c[2]>>
    BY ConsumerPair
  <2>3. c = Home(step.key)
    BY <1>6, <1>7, <2>1, <2>2 DEF Home
  <2>4. step.off = [gen |-> Generation, part |-> c[2], off |-> pos[c]]
    <3> DEFINE key == IF cur.key = NoKey /\ ~IsKeylessStep(cur) /\ PreviousResult(Msg(c)) # Nil
                      THEN PreviousResult(Msg(c)).key ELSE cur.key
               off == [gen |-> Generation, part |-> c[2], off |-> pos[c]]
    <3>1. Arrived(c) = [cur EXCEPT !.key = key, !.off = off]
      BY <1>1, <1>7 DEF Arrived
    <3>2. cur = [sys |-> cur.sys, cmd |-> cur.cmd, key |-> cur.key,
                 payload |-> cur.payload, off |-> cur.off, rslt |-> cur.rslt]
      BY <1>5, StepFields
    <3> HIDE DEF key, off, cur
    <3> QED BY <3>1, <3>2 DEF off
  <2> QED BY <1>6, <1>7, <2>1, <2>3, <2>4 DEF Now
<1>8. ASSUME LeadsToWrite(step) PROVE Behind(step.key, step.off, read, mem)
  <2>1. c[1] = "STORAGE" /\ step.cmd = "UpdateAsync"
    BY <1>1, <1>2, <1>8 DEF LeadsToWrite
  <2>2. LeadsToWrite(cur)
    BY <1>1, <2>1 DEF LeadsToWrite
  <2> QED BY <1>1, <1>5, <1>6, <2>1, <2>2
<1>9. step \in S
  BY <1>1, <1>2, <1>5, <1>6, <1>8, NilAssumption DEF LedSteps
<1> QED
  BY <1>1, <1>2, <1>5, <1>6, <1>7, <1>9

-----------------------------------------------------------------------------
(* One iteration of a consumer's loop *)

\* The invariant for the state that follows.
LedAfter(read, mem) ==
    /\ \A k \in DOMAIN db' : Behind(k, db'[k].off, read, mem)
    /\ \A b \in Consumers : log[b] \in Seq(MadeOf(LedSteps(read, mem)))
    /\ \A b, d \in Consumers : out'[b][d] \in Seq(MadeOf(LedSteps(read, mem)))

\* What was there before the step, seen after it.
SeenAfter(c, read, mem) ==
    /\ read = pos' /\ mem = store'
    /\ \A k \in DOMAIN db : Behind(k, db[k].off, read, mem)
    /\ \A b \in Consumers : log[b] \in Seq(MadeOf(LedSteps(read, mem)))
    /\ QueuesMadeOf(LedSteps(read, mem))
    /\ Msg(c).steps \in Seq(LedSteps(read, mem))

LEMMA Seen ==
    ASSUME Inv, LeadInv, crashes = 0, NEW c \in Consumers, Ready(c), GoesForward,
           NEW read, NEW mem, read = pos', mem = store'
    PROVE  SeenAfter(c, read, mem)
<1> DEFINE X == MadeOf(LedSteps(pos, store))
           Y == MadeOf(LedSteps(read, mem))
<1>1. X \subseteq Y
  BY LedKept
<1>2. /\ \A k \in DOMAIN db : Behind(k, db[k].off, pos, store)
      /\ \A b \in Consumers : log[b] \in Seq(X)
      /\ \A b, d \in Consumers : out[b][d] \in Seq(X)
  BY DEF LeadInv
<1>3. \A k \in DOMAIN db : Behind(k, db[k].off, read, mem)
  BY <1>2, InstanceThere, BehindKept
<1>4. Msg(c) \in X
  <2>1. log[c] \in Seq(X) /\ pos[c] + 1 \in 1..Len(log[c])
    BY <1>2, ReadFacts
  <2> HIDE DEF X
  <2> QED BY <2>1, ElementOfSeq DEF Msg
<1>5. Msg(c).steps \in Seq(LedSteps(read, mem))
  BY <1>1, <1>4 DEF MadeOf
<1> HIDE DEF X
<1>6. ASSUME NEW s, s \in Seq(X) PROVE s \in Seq(Y)
  <2> HIDE DEF Y
  <2> QED BY ONLY <1>1, <1>6, SeqMonotonic
<1> QED
  BY <1>2, <1>3, <1>5, <1>6 DEF SeenAfter, QueuesMadeOf

\* The step that has been done.
LEMMA DoneLed ==
    ASSUME Inv, NEW c \in Consumers, Ready(c), NEW read, NEW mem, SeenAfter(c, read, mem),
           NEW key \in Keys \cup {NoKey}, NEW payload \in Instances \cup {Nil},
           NEW inst \in Instances \cup {Nil},
           inst # Nil => Behind(Arrived(c).key, Arrived(c).off, read, mem)
    PROVE  [Arrived(c) EXCEPT !.rslt =
              Result("OK", key, IF payload = Nil THEN Arrived(c).payload ELSE payload, inst)]
             \in LedSteps(read, mem)
<1> DEFINE step == Arrived(c)
           pl == IF payload = Nil THEN step.payload ELSE payload
           rslt == Result("OK", key, pl, inst)
           new == [sys |-> step.sys, cmd |-> step.cmd, key |-> step.key,
                   payload |-> step.payload, off |-> step.off, rslt |-> rslt]
<1>1. step \in LedSteps(read, mem) /\ step \in Steps
  BY ArrivedLed DEF SeenAfter
<1>2. /\ step.cmd \notin {"Create", "Update", "ValidateCreate", "ValidateUpdate"}
      /\ step.sys # "STORAGE_SCND" => step.key # NoKey
      /\ LeadsToWrite(step) => Behind(step.key, step.off, read, mem)
  BY <1>1 DEF LedSteps
<1>3. inst # Nil => Behind(step.key, step.off, read, mem)
  OBVIOUS
<1>4. step.payload \in Instances \cup {Nil}
  BY <1>1, StepFields
<1> HIDE DEF step
<1>5. pl \in Instances \cup {Nil}
  BY <1>4
<1> HIDE DEF pl
<1>6. rslt \in Results /\ rslt.inst = inst
  BY <1>5 DEF Results, Result
<1> HIDE DEF rslt
<1>7. [step EXCEPT !.rslt = rslt] = new
  BY <1>1, StepFields
<1>8. new \in Steps
  BY <1>1, <1>6, StepFields DEF Steps
<1>9. LeadsToWrite(new) => Behind(step.key, step.off, read, mem)
  BY <1>2, <1>3, <1>6 DEF LeadsToWrite
<1>10. new \in LedSteps(read, mem)
  BY <1>2, <1>8, <1>9 DEF LedSteps
<1> QED
  BY <1>7, <1>10 DEF rslt, pl, step

LEMMA FinishesLedAfter ==
    ASSUME Inv, NEW c \in Consumers, Ready(c), NEW read, NEW mem, SeenAfter(c, read, mem),
           NEW key \in Keys \cup {NoKey}, NEW payload \in Instances \cup {Nil},
           NEW inst \in Instances \cup {Nil},
           inst # Nil => Behind(Arrived(c).key, Arrived(c).off, read, mem),
           NEW add \in Seq(LedSteps(read, mem)),
           \A i \in 1..Len(add) : IsTodo(add[i], Msg(c).id),
           Finishes(c, key, payload, inst, add),
           \A k \in DOMAIN db' : Behind(k, db'[k].off, read, mem)
    PROVE  LedAfter(read, mem)
<1>1. PICK S : S = LedSteps(read, mem)
  OBVIOUS
<1>2. PICK done : done = [Arrived(c) EXCEPT !.rslt =
                     Result("OK", key, IF payload = Nil THEN Arrived(c).payload ELSE payload, inst)]
  OBVIOUS
<1>3. done \in S
  BY <1>1, <1>2, DoneLed
<1>4. QueuesMadeOf(S) /\ Msg(c).steps \in Seq(S) /\ add \in Seq(S)
  BY <1>1 DEF SeenAfter
<1>5. \A b, d \in Consumers : out'[b][d] \in Seq(MadeOf(S))
  BY <1>1, <1>2, <1>3, <1>4, FinishesLed
<1> QED
  BY <1>1, <1>5 DEF LedAfter, SeenAfter

\* A handler that adds no step, and one that adds a single one.
LEMMA FinishesLedNone ==
    ASSUME Inv, NEW c \in Consumers, Ready(c), NEW read, NEW mem, SeenAfter(c, read, mem),
           NEW key \in Keys \cup {NoKey}, NEW payload \in Instances \cup {Nil},
           NEW inst \in Instances \cup {Nil},
           inst # Nil => Behind(Arrived(c).key, Arrived(c).off, read, mem),
           Finishes(c, key, payload, inst, <<>>),
           \A k \in DOMAIN db' : Behind(k, db'[k].off, read, mem)
    PROVE  LedAfter(read, mem)
<1> DEFINE add == <<>>
<1>1. /\ add \in Seq(LedSteps(read, mem)) /\ \A i \in 1..Len(add) : IsTodo(add[i], Msg(c).id)
      /\ Finishes(c, key, payload, inst, add)
  OBVIOUS
<1> HIDE DEF add
<1> QED
  BY <1>1, FinishesLedAfter

LEMMA FinishesLedOne ==
    ASSUME Inv, NEW c \in Consumers, Ready(c), NEW read, NEW mem, SeenAfter(c, read, mem),
           NEW key \in Keys \cup {NoKey}, NEW payload \in Instances \cup {Nil},
           NEW st \in LedSteps(read, mem), IsTodo(st, Msg(c).id),
           Finishes(c, key, payload, Nil, <<st>>),
           \A k \in DOMAIN db' : Behind(k, db'[k].off, read, mem)
    PROVE  LedAfter(read, mem)
<1> DEFINE add == <<st>>
<1>1. /\ add \in Seq(LedSteps(read, mem)) /\ \A i \in 1..Len(add) : IsTodo(add[i], Msg(c).id)
      /\ Finishes(c, key, payload, Nil, add)
  OBVIOUS
<1> HIDE DEF add
<1> QED
  BY <1>1, FinishesLedAfter

LEMMA FailsLed ==
    ASSUME Inv, NEW c \in Consumers, NEW read, NEW mem, SeenAfter(c, read, mem), NEW code,
           Fails(c, code), db' = db
    PROVE  LedAfter(read, mem)
<1>1. PICK S : S = LedSteps(read, mem)
  OBVIOUS
<1>2. \A b, d \in Consumers : out'[b][d] \in Seq(MadeOf(S))
  BY <1>1, ErrorLed DEF Fails, SeenAfter
<1> QED
  BY <1>1, <1>2 DEF LedAfter, SeenAfter

\* The message before the step, and what its consumer finds in it.
LEMMA ReadLed ==
    ASSUME Inv, LeadInv, crashes = 0, NEW c \in Consumers, Ready(c)
    PROVE  /\ Arrived(c).cmd \notin {"Create", "Update", "ValidateCreate", "ValidateUpdate"}
           /\ c[1] # "STORAGE_SCND" => Arrived(c).key \in Keys
           /\ c[1] = "PROCESS" => c = Home(Arrived(c).key) /\ Arrived(c).off = Now(Arrived(c).key)
<1> DEFINE X == MadeOf(LedSteps(pos, store))
<1>1. Msg(c) \in X
  <2>1. log[c] \in Seq(X) /\ pos[c] + 1 \in 1..Len(log[c])
    BY ReadFacts DEF LeadInv
  <2> HIDE DEF X
  <2> QED BY <2>1, ElementOfSeq DEF Msg
<1>2. Msg(c).steps \in Seq(LedSteps(pos, store))
  BY <1>1 DEF MadeOf
<1> QED
  BY <1>2, ArrivedLed

LEMMA ReadsOn ==
    ASSUME Inv, NEW c \in Consumers, StoreOffsets(c)
    PROVE  /\ \A b \in Consumers : pos'[b] \in Nat /\ pos[b] <= pos'[b]
           /\ pos'[c] = pos[c] + 1
BY DEF Inv, PositionsOK, StoreOffsets

LEMMA SameOffset ==
    ASSUME NEW off \in CmpdOffsets
    PROVE  OffsetGTE(off, off)
BY OffsetOrder

LEMMA ForwardSame ==
    ASSUME Inv, NEW c \in Consumers, StoreOffsets(c), store' = store
    PROVE  GoesForward
<1>1. ASSUME NEW k \in DOMAIN store
      PROVE  k \in Keys /\ store[k].off \in CmpdOffsets /\ OffsetGTE(store[k].off, store[k].off)
  BY InstanceThere, SameOffset
<1> QED
  BY <1>1, ReadsOn DEF GoesForward

LEMMA ForwardSet ==
    ASSUME Inv, NEW c \in Consumers, StoreOffsets(c), NEW key \in Keys, NEW inst \in Instances,
           NEW off, off = Now(key), store' = StoreSet(store, key, inst, off)
    PROVE  GoesForward /\ key \in DOMAIN store' /\ OffsetGTE(store'[key].off, off)
<1>1. off \in CmpdOffsets /\ IsMapTo(store, Keys, InstanceRecord(Instances))
  BY NowType DEF Inv, MapsOK
<1>2. PICK new : new = store'
  OBVIOUS
<1>3. new = DbUpdate(store, key, inst, off)
  BY <1>2 DEF DbUpdate, StoreSet
<1>4. /\ DOMAIN new = DOMAIN store \cup {key}
      /\ \A k \in DOMAIN store : OffsetGTE(new[k].off, store[k].off)
      /\ OffsetGTE(new[key].off, off)
  <2>1. DOMAIN new = DOMAIN store \cup {key}
    BY ONLY <1>3 DEF DbUpdate, Put
  <2>2. \A k \in DOMAIN store : OffsetGTE(new[k].off, store[k].off)
    BY ONLY <1>1, <1>3, UpdateIsNewer
  <2>3. OffsetGTE(new[key].off, off)
    BY ONLY <1>1, <1>3, UpdateIsNewer
  <2> QED BY <2>1, <2>2, <2>3
<1>5. IsMapTo(new, Keys, InstanceRecord(Instances))
  BY <1>1, <1>3, WriteType
<1>6. ASSUME NEW k \in DOMAIN new
      PROVE  /\ k \in Keys /\ new[k].off \in CmpdOffsets
             /\ \/ k \in DOMAIN store /\ OffsetGTE(new[k].off, store[k].off)
                \/ OffsetGTE(new[k].off, Now(k))
  BY <1>4, <1>5 DEF IsMapTo, InstanceRecord
<1> QED
  BY <1>2, <1>4, <1>6, ReadsOn DEF GoesForward

LEMMA ForwardRemove ==
    ASSUME Inv, NEW c \in Consumers, StoreOffsets(c), NEW key, store' = StoreRemove(store, key)
    PROVE  GoesForward
<1>1. ASSUME NEW k \in DOMAIN store'
      PROVE  /\ k \in DOMAIN store /\ k \in Keys /\ store'[k] = store[k]
             /\ store[k].off \in CmpdOffsets /\ OffsetGTE(store[k].off, store[k].off)
  BY InstanceThere, SameOffset DEF StoreRemove
<1> QED
  BY <1>1, ReadsOn DEF GoesForward

\* One that leaves the rows as they are.
LEMMA RowsLed ==
    ASSUME NEW c, NEW read, NEW mem, SeenAfter(c, read, mem), db' = db
    PROVE  \A k \in DOMAIN db' : Behind(k, db'[k].off, read, mem)
BY DEF SeenAfter

\* What is proved of each action.
LeadKept == \E read, mem : read = pos' /\ mem = store' /\ LedAfter(read, mem)

LEMMA ProcessReadLead ==
    ASSUME Inv, LeadInv, crashes = 0, NEW c \in Consumers, ProcessRead(c)
    PROVE  LeadKept
<1>1. /\ Handles(c, "PROCESS", {"Read"})
      /\ Finishes(c, NoKey, store[Arrived(c).key].inst, Nil, <<>>)
      /\ store' = store /\ db' = db
  BY DEF ProcessRead
<1>2. Ready(c) /\ store[Arrived(c).key].inst \in Instances /\ StoreOffsets(c)
  BY <1>1, HandlesFacts DEF NeedsInstance, IsKeylessStep, IsInstanceStoreStep, Finishes
<1>3. PICK read, mem : read = pos' /\ mem = store'
  OBVIOUS
<1>4. SeenAfter(c, read, mem)
  BY <1>1, <1>2, <1>3, ForwardSame, Seen
<1>5. LedAfter(read, mem)
  BY <1>1, <1>2, <1>4, RowsLed, FinishesLedNone
<1> QED
  BY <1>3, <1>5 DEF LeadKept

LEMMA ProcessForwardLead ==
    ASSUME Inv, LeadInv, crashes = 0, NEW c \in Consumers, ProcessForward(c)
    PROVE  LeadKept
<1> DEFINE step == Arrived(c)
           payload == IF step.cmd = "Update" THEN step.payload ELSE store[step.key].inst
           sys == "STORAGE"
           st == Step(sys, step.cmd, step.key, payload, Nil)
<1>1. /\ Handles(c, "PROCESS", {"Update", "Delete"})
      /\ Finishes(c, NoKey, Nil, Nil, <<st>>)
      /\ store' = store /\ db' = db
  BY DEF ProcessForward
<1>2. /\ Ready(c) /\ c[1] = "PROCESS" /\ store[step.key].inst \in Instances
      /\ step.sys = "PROCESS" /\ step.cmd \in {"Update", "Delete"}
  BY <1>1, HandlesFacts DEF NeedsInstance, IsKeylessStep, IsInstanceStoreStep
<1>3. step.cmd = "Delete" /\ step.key \in Keys /\ DeletesAsked
  BY <1>2, ReadLed, CheckedFacts
<1>4. payload \in Instances \cup {Nil} /\ payload # Nil
  BY <1>2, <1>3, NilAssumption
<1>5. step.cmd \in Commands /\ sys \in Systems /\ sys # "STORAGE_SCND"
  BY <1>2 DEF Commands, ReservedCommands, Systems
<1>6. Finishes(c, NoKey, Nil, Nil, <<st>>) /\ StoreOffsets(c)
  BY <1>1 DEF Finishes
<1>7. PICK read, mem : read = pos' /\ mem = store'
  OBVIOUS
<1>8. SeenAfter(c, read, mem)
  BY <1>1, <1>2, <1>6, <1>7, ForwardSame, Seen
<1> HIDE DEF payload, step, sys
<1>9. IsTodo(st, Msg(c).id)
  BY <1>3, <1>4, <1>5, NewStep
<1>10. st \in LedSteps(read, mem)
  <2>1. st \in Steps /\ st.rslt = Nil
    BY <1>9 DEF IsTodo, StepOK
  <2>2. st.key # NoKey /\ st.cmd = "Delete"
    BY <1>3, NilAssumption DEF Step
  <2> QED BY <2>1, <2>2, LedNew
<1> HIDE DEF st
<1>11. LedAfter(read, mem)
  BY <1>1, <1>2, <1>6, <1>8, <1>9, <1>10, RowsLed, FinishesLedOne
<1> QED
  BY <1>7, <1>11 DEF LeadKept

LEMMA RefreshInstanceLead ==
    ASSUME Inv, LeadInv, crashes = 0, NEW c \in Consumers, RefreshInstance(c)
    PROVE  LeadKept
<1> DEFINE step == Arrived(c)
           set == StoreSet(store, step.key, step.payload, step.off)
<1>1. /\ Handles(c, "PROCESS", {"RefreshInstance"})
      /\ store' = set
      /\ Finishes(c, NoKey, set[step.key].inst, Nil, <<>>)
      /\ db' = db
  BY DEF RefreshInstance
<1>2. /\ Ready(c) /\ c[1] = "PROCESS" /\ step.cmd = "RefreshInstance" /\ step.key \in Keys
      /\ StoreOffsets(c)
  BY <1>1, HandlesFacts DEF IsKeylessStep, Finishes
<1>3. step.payload \in Instances /\ step.off \in CmpdOffsets /\ step.off = Now(step.key)
  BY <1>2, CheckedFacts, ReadLed DEF NeedsPayload
<1> HIDE DEF step
<1>4. IsMapTo(set, Keys, InstanceRecord(Instances))
  BY <1>2, <1>3, WriteType DEF Inv, MapsOK
<1>5. step.key \in DOMAIN set
  BY DEF StoreSet, Put
<1>6. GoesForward
  BY <1>1, <1>2, <1>3, ForwardSet
<1> HIDE DEF set
<1>7. set[step.key].inst \in Instances
  BY <1>4, <1>5 DEF IsMapTo, InstanceRecord
<1>8. PICK read, mem : read = pos' /\ mem = store'
  OBVIOUS
<1>9. SeenAfter(c, read, mem)
  BY <1>2, <1>6, <1>8, Seen
<1>10. LedAfter(read, mem)
  BY <1>1, <1>2, <1>7, <1>9, RowsLed, FinishesLedNone
<1> QED
  BY <1>8, <1>10 DEF LeadKept

LEMMA FlushInstanceLead ==
    ASSUME Inv, LeadInv, crashes = 0, NEW c \in Consumers, FlushInstance(c)
    PROVE  LeadKept
<1> DEFINE key == Arrived(c).key
           packed == IF key \in DOMAIN store THEN store[key].inst ELSE Nil
<1>1. /\ Handles(c, "PROCESS", {"FlushInstance"})
      /\ store' = StoreRemove(store, key)
      /\ Finishes(c, NoKey, packed, Nil, <<>>)
      /\ db' = db
  BY DEF FlushInstance
<1>2. Ready(c) /\ StoreOffsets(c)
  BY <1>1, HandlesFacts DEF Finishes
<1>3. packed \in Instances \cup {Nil}
  BY InstanceThere
<1> HIDE DEF packed, key
<1>4. PICK read, mem : read = pos' /\ mem = store'
  OBVIOUS
<1>5. SeenAfter(c, read, mem)
  BY <1>1, <1>2, <1>4, ForwardRemove, Seen
<1>6. LedAfter(read, mem)
  BY <1>1, <1>2, <1>3, <1>5, RowsLed, FinishesLedNone
<1> QED
  BY <1>4, <1>6 DEF LeadKept

\* The command is in memory, under its offset, before anything is made of it.
LEMMA ChangeLead ==
    ASSUME Inv, LeadInv, crashes = 0, NEW c \in Consumers, Change(c)
    PROVE  LeadKept
<1> DEFINE step == Arrived(c)
           old == store[step.key].inst
           inst == [old EXCEPT !.ops = Append(old.ops, Msg(c).id)]
<1>1. /\ Handles(c, "PROCESS", {"Change"})
      /\ store' = StoreSet(store, step.key, inst, step.off)
      /\ Finishes(c, NoKey, Nil, inst, <<>>)
      /\ db' = db
  BY DEF Change
<1>2. /\ Ready(c) /\ c[1] = "PROCESS" /\ step.key \in DOMAIN store /\ old \in Instances
      /\ StoreOffsets(c)
  BY <1>1, HandlesFacts DEF NeedsInstance, IsKeylessStep, IsInstanceStoreStep, Finishes
<1>3. /\ step.key \in Keys /\ step.off \in CmpdOffsets /\ Msg(c).id \in Txns
      /\ step.off = Now(step.key) /\ c = Home(step.key)
  BY <1>2, CheckedFacts, InstanceThere, ReadLed
<1> HIDE DEF old
<1>4. inst \in Instances
  BY <1>2, <1>3 DEF Instances
<1> HIDE DEF inst, step
<1>5. GoesForward /\ OffsetGTE(store'[step.key].off, step.off)
  BY <1>1, <1>2, <1>3, <1>4, ForwardSet
<1>6. PICK read, mem : read = pos' /\ mem = store'
  OBVIOUS
<1>7. SeenAfter(c, read, mem)
  BY <1>2, <1>5, <1>6, Seen
<1>8. Behind(step.key, step.off, read, mem)
  <2>1. read[c] = pos[c] + 1 /\ pos[c] \in Nat
    BY <1>2, <1>6, ReadsOn, ReadFacts
  <2>2. /\ step.off.part = PartOf[step.key] /\ step.off.gen = Generation
        /\ step.off.off = pos[c]
    BY <1>3 DEF Now
  <2>3. step.off.off < read[Home(step.key)]
    BY <1>3, <2>1, <2>2
  <2>4. Generation <= Generation
    BY DEF Generation
  <2> QED BY <1>3, <1>5, <1>6, <2>2, <2>3, <2>4 DEF Behind
<1>9. LedAfter(read, mem)
  <2>1. Behind(Arrived(c).key, Arrived(c).off, read, mem)
    BY <1>8 DEF step
  <2>2. inst \in Instances \cup {Nil} /\ NoKey \in Keys \cup {NoKey} /\ Nil \in Instances \cup {Nil}
    BY <1>4
  <2>3. \A k \in DOMAIN db' : Behind(k, db'[k].off, read, mem)
    BY <1>1, <1>7, RowsLed
  <2> QED BY <1>1, <1>2, <1>7, <2>1, <2>2, <2>3, FinishesLedNone
<1> QED
  BY <1>6, <1>9 DEF LeadKept

LEMMA QueryOrRejectLead ==
    ASSUME Inv, LeadInv, crashes = 0, NEW c \in Consumers, Query(c) \/ Reject(c)
    PROVE  LeadKept
<1>1. PICK cmds : Handles(c, "PROCESS", cmds)
  BY DEF Query, Reject
<1>2. /\ Ready(c) /\ StoreOffsets(c) /\ store' = store /\ db' = db
      /\ Finishes(c, NoKey, Nil, Nil, <<>>) \/ Fails(c, "INTERNAL")
  BY <1>1, HandlesFacts DEF Query, Reject, Finishes, Fails
<1>3. PICK read, mem : read = pos' /\ mem = store'
  OBVIOUS
<1>4. SeenAfter(c, read, mem)
  BY <1>2, <1>3, ForwardSame, Seen
<1>5. LedAfter(read, mem)
  BY <1>2, <1>4, RowsLed, FinishesLedNone, FailsLed
<1> QED
  BY <1>3, <1>5 DEF LeadKept

LEMMA SetLed ==
    ASSUME NEW S, NEW m, TxnOK(m), m.steps \in Seq(S), NEW st \in S
    PROVE  SetCurrentStep(m, st).steps \in Seq(S)
<1> DEFINE s == [m.steps EXCEPT ![m.cur] = st]
<1>1. /\ m = [id |-> m.id, upon |-> m.upon, cur |-> m.cur, steps |-> m.steps]
      /\ Len(m.steps) \in Nat /\ m.cur \in 1..Len(m.steps)
  BY TxnFields
<1>2. SetCurrentStep(m, st) = [id |-> m.id, upon |-> m.upon, cur |-> m.cur, steps |-> s]
  BY <1>1, SetCurrentFields
<1>3. s \in Seq(S)
  BY <1>1, ExceptSeq
<1> HIDE DEF s
<1> QED
  BY <1>2, <1>3

LEMMA InsertLed ==
    ASSUME NEW S, NEW m, TxnOK(m), m.steps \in Seq(S), NEW st \in S
    PROVE  InsertSteps(m, m.cur, <<st>>).steps \in Seq(S)
<1> DEFINE one == <<st>>
           new == InsertSteps(m, m.cur, one)
<1>1. /\ m = [id |-> m.id, upon |-> m.upon, cur |-> m.cur, steps |-> m.steps]
      /\ Len(m.steps) \in Nat /\ m.cur \in 1..Len(m.steps)
  BY TxnFields
<1>2. one \in Seq(S)
  OBVIOUS
<1>3. m.cur \in 1..(Len(m.steps) + 1)
  BY <1>1
<1> HIDE DEF one
<1>4. new = [id |-> m.id, upon |-> m.upon, cur |-> m.cur, steps |-> Inserted(m.steps, m.cur, one)]
  BY <1>1, InsertFields
<1>5. Inserted(m.steps, m.cur, one) \in Seq(S)
  BY <1>2, <1>3, InsertedSteps
<1>6. new.steps \in Seq(S)
  BY <1>4, <1>5
<1> QED
  BY <1>6 DEF one

LEMMA CacheMissLead ==
    ASSUME Inv, LeadInv, crashes = 0, NEW c \in Consumers, CacheMiss(c)
    PROVE  LeadKept
<1> DEFINE step == Arrived(c)
           m == Msg(c)
           sys == "STORAGE"
           cmd == "Read"
           get == Step(sys, cmd, step.key, Nil, step.off)
           txn == SetCurrentStep(m, step)
           set == SetCurrentStep(txn, get)
           ins == InsertSteps(txn, txn.cur, <<get>>)
<1>1. /\ Ready(c) /\ NeedsInstance(step)
      /\ Produce(c, set) \/ Produce(c, ins)
      /\ StoreOffsets(c)
      /\ store' = store /\ db' = db
  BY DEF CacheMiss, Reads
<1>2. /\ c[1] = "PROCESS" /\ IsTodo(step, m.id) /\ step.off # Nil /\ Versioned(step.off, m.id)
      /\ step.key \in Keys /\ TxnOK(m)
  BY <1>1, ArrivedTodo, CheckedFacts, ReadFacts, ReadLed DEF NeedsInstance
<1>3. PICK read, mem : read = pos' /\ mem = store'
  OBVIOUS
<1>4. SeenAfter(c, read, mem)
  BY <1>1, <1>3, ForwardSame, Seen
<1>5. PICK S : S = LedSteps(read, mem)
  OBVIOUS
<1>6. step \in S /\ m.steps \in Seq(S) /\ QueuesMadeOf(S)
  BY <1>1, <1>4, <1>5, ArrivedLed DEF SeenAfter
<1> HIDE DEF step
<1>7. /\ sys \in Systems /\ cmd \in Commands /\ cmd # "Delete"
      /\ NeedsPayload(get) => Nil # Nil
      /\ get.cmd = "Read" /\ get.key # NoKey /\ get.rslt = Nil
  BY <1>2, NilAssumption DEF Systems, Commands, ReservedCommands, NeedsPayload, Step
<1>8. get.sys = sys /\ get.off = step.off /\ Nil \in Instances \cup {Nil}
  BY DEF Step
<1> HIDE DEF sys, cmd
<1>9. IsTodo(get, m.id)
  BY <1>2, <1>7, <1>8, NewStep
<1> HIDE DEF get, m
<1>10. get \in S
  BY <1>5, <1>7, <1>9, LedNew DEF IsTodo, StepOK
<1>11. TxnOK(txn) /\ txn.id = m.id /\ txn.steps \in Seq(S)
  BY <1>2, <1>6, SetTodo, SetLed
<1> HIDE DEF txn
<1>12. TxnOK(set) /\ set.steps \in Seq(S)
  BY <1>9, <1>10, <1>11, SetTodo, SetLed
<1>13. TxnOK(ins) /\ ins.steps \in Seq(S)
  BY <1>9, <1>10, <1>11, InsertTodo, InsertLed
<1> HIDE DEF set, ins
<1>14. set \in MadeOf(S) /\ ins \in MadeOf(S)
  BY <1>12, <1>13 DEF MadeOf, TxnOK
<1>15. \A b, d \in Consumers : out'[b][d] \in Seq(MadeOf(S))
  BY <1>1, <1>6, <1>14, ProduceLed
<1>16. LedAfter(read, mem)
  BY <1>1, <1>4, <1>5, <1>15 DEF LedAfter, SeenAfter
<1> QED
  BY <1>3, <1>16 DEF LeadKept

LEMMA StorageReadLead ==
    ASSUME Inv, LeadInv, crashes = 0, NEW c \in Consumers, StorageRead(c)
    PROVE  LeadKept
<1> DEFINE key == Arrived(c).key
           inst == db[key].inst
           st == Refresh(key, inst)
<1>1. /\ Handles(c, "STORAGE", {"Read"})
      /\ \/ key \in DOMAIN db /\ Finishes(c, key, inst, Nil, <<st>>)
         \/ Fails(c, "INTERNAL")
      /\ store' = store /\ db' = db
  BY DEF StorageRead
<1>2. Ready(c) /\ StoreOffsets(c)
  BY <1>1, HandlesFacts DEF Finishes, Fails
<1>3. PICK read, mem : read = pos' /\ mem = store'
  OBVIOUS
<1>4. SeenAfter(c, read, mem)
  BY <1>1, <1>2, <1>3, ForwardSame, Seen
<1>5. LedAfter(read, mem)
  <2>1. CASE Fails(c, "INTERNAL")
    BY <1>1, <1>4, <2>1, FailsLed
  <2>2. CASE key \in DOMAIN db /\ Finishes(c, key, inst, Nil, <<st>>)
    <3>1. key \in Keys /\ inst \in Instances
      BY <2>2, InstanceThere
    <3> HIDE DEF inst, key
    <3>2. IsTodo(st, Msg(c).id)
      BY <3>1, NewRefresh
    <3>3. st.cmd = "RefreshInstance" /\ st.key # NoKey
      BY <3>1, NilAssumption DEF Refresh, Step
    <3> HIDE DEF st
    <3>4. st \in LedSteps(read, mem)
      BY <3>2, <3>3, LedNew DEF IsTodo, StepOK
    <3> QED BY <1>1, <1>2, <1>4, <2>2, <3>1, <3>2, <3>4, RowsLed, FinishesLedOne
  <2> QED BY <1>1, <2>1, <2>2
<1> QED
  BY <1>3, <1>5 DEF LeadKept

\* The write is of a command that memory has: the row is not newer than it.
LEMMA StorageUpdateLead ==
    ASSUME Inv, LeadInv, crashes = 0, NEW c \in Consumers, StorageUpdate(c)
    PROVE  LeadKept
<1> DEFINE step == Arrived(c)
           payload == step.payload
<1>1. /\ Handles(c, "STORAGE", {"Update", "UpdateAsync"})
      /\ db' = DbUpdate(db, step.key, payload, step.off)
      /\ store' = store
      /\ step.cmd # "Update" => Finishes(c, NoKey, payload, Nil, <<>>)
  BY DEF StorageUpdate
<1>2. /\ Ready(c) /\ c[1] = "STORAGE" /\ step.sys = "STORAGE"
      /\ step.cmd \in {"Update", "UpdateAsync"} /\ step.key \in Keys
  BY <1>1, HandlesFacts DEF IsKeylessStep
<1>3. payload \in Instances /\ step.cmd = "UpdateAsync"
  BY <1>2, CheckedFacts, ReadLed DEF NeedsPayload
<1>4. Finishes(c, NoKey, payload, Nil, <<>>) /\ StoreOffsets(c)
  BY <1>1, <1>3 DEF Finishes
<1>5. PICK read, mem : read = pos' /\ mem = store'
  OBVIOUS
<1>6. SeenAfter(c, read, mem)
  BY <1>1, <1>2, <1>4, <1>5, ForwardSame, Seen
<1>7. step \in LedSteps(read, mem)
  BY <1>2, <1>6, ArrivedLed DEF SeenAfter
<1> HIDE DEF step, payload
<1>8. Behind(step.key, step.off, read, mem)
  BY <1>2, <1>3, <1>7 DEF LedSteps, LeadsToWrite
<1>9. ASSUME NEW k \in DOMAIN db' PROVE Behind(k, db'[k].off, read, mem)
  <2>1. \/ k \in DOMAIN db /\ db'[k] = db[k]
        \/ k = step.key /\ db'[k].off = step.off
    BY <1>1, <1>9 DEF DbUpdate, Put
  <2> QED BY <1>6, <1>8, <2>1 DEF SeenAfter
<1>10. LedAfter(read, mem)
  BY <1>2, <1>3, <1>4, <1>6, <1>9, FinishesLedNone
<1> QED
  BY <1>5, <1>10 DEF LeadKept

LEMMA StorageDeleteLead ==
    ASSUME Inv, LeadInv, crashes = 0, NEW c \in Consumers, StorageDelete(c)
    PROVE  LeadKept
<1> DEFINE step == Arrived(c)
           sys == "PROCESS"
           cmd == "FlushInstance"
           st == Step(sys, cmd, step.key, Nil, Nil)
<1>1. /\ Handles(c, "STORAGE", {"Delete"})
      /\ db' = DbDelete(db, step.key, step.off)
      /\ Finishes(c, step.key, Nil, Nil, <<st>>)
      /\ store' = store
  BY DEF StorageDelete
<1>2. /\ Ready(c) /\ step.key \in Keys /\ StoreOffsets(c)
  BY <1>1, HandlesFacts DEF IsKeylessStep, Finishes
<1>3. PICK read, mem : read = pos' /\ mem = store'
  OBVIOUS
<1>4. SeenAfter(c, read, mem)
  BY <1>1, <1>2, <1>3, ForwardSame, Seen
<1>5. ASSUME NEW k \in DOMAIN db' PROVE Behind(k, db'[k].off, read, mem)
  <2>1. k \in DOMAIN db /\ db'[k] = db[k]
    BY <1>1, <1>5 DEF DbDelete
  <2> QED BY <1>4, <2>1 DEF SeenAfter
<1>6. /\ sys \in Systems /\ cmd \in Commands /\ cmd # "Delete" /\ sys # "STORAGE_SCND"
      /\ ~NeedsPayload(st) /\ Nil \in Instances \cup {Nil} /\ cmd = "FlushInstance"
  BY DEF Systems, Commands, ReservedCommands, NeedsPayload, Step
<1>7. Finishes(c, step.key, Nil, Nil, <<st>>)
  BY <1>1
<1> HIDE DEF sys, cmd, step
<1>8. IsTodo(st, Msg(c).id)
  BY <1>2, <1>6, NewStep
<1>9. st.cmd = cmd /\ st.key = step.key
  BY DEF Step
<1> HIDE DEF st
<1>10. st \in LedSteps(read, mem)
  BY <1>2, <1>6, <1>8, <1>9, LedNew, NilAssumption DEF IsTodo, StepOK
<1>11. LedAfter(read, mem)
  BY <1>2, <1>4, <1>5, <1>6, <1>7, <1>8, <1>10, FinishesLedOne
<1> QED
  BY <1>3, <1>11 DEF LeadKept

LEMMA SecondaryStorageLead ==
    ASSUME Inv, LeadInv, crashes = 0, NEW c \in Consumers, SecondaryStorage(c)
    PROVE  LeadKept
<1> DEFINE key == IF Arrived(c).cmd \in {"Update", "UpdateAsync"} THEN NoKey ELSE Arrived(c).key
<1>1. /\ Handles(c, "STORAGE_SCND", {"Create", "Update", "UpdateAsync", "Delete"})
      /\ Finishes(c, key, Nil, Nil, <<>>)
      /\ store' = store /\ db' = db
  BY DEF SecondaryStorage
<1>2. Ready(c) /\ StoreOffsets(c)
  BY <1>1, HandlesFacts DEF Finishes
<1>3. key \in Keys \cup {NoKey}
  BY <1>2, CheckedFacts
<1> HIDE DEF key
<1>4. PICK read, mem : read = pos' /\ mem = store'
  OBVIOUS
<1>5. SeenAfter(c, read, mem)
  BY <1>1, <1>2, <1>4, ForwardSame, Seen
<1>6. LedAfter(read, mem)
  BY <1>1, <1>2, <1>3, <1>5, RowsLed, FinishesLedNone
<1> QED
  BY <1>4, <1>6 DEF LeadKept

\* What ends a transaction leaves the rest alone.
LEMMA EndedLead ==
    ASSUME Inv, LeadInv, crashes = 0, NEW c \in Consumers, Ready(c), NEW code, Fails(c, code),
           store' = store, db' = db
    PROVE  LeadKept
<1>1. PICK read, mem : read = pos' /\ mem = store'
  OBVIOUS
<1>2. SeenAfter(c, read, mem)
  BY <1>1, ForwardSame, Seen DEF Fails
<1>3. LedAfter(read, mem)
  BY <1>2, FailsLed
<1> QED
  BY <1>1, <1>3 DEF LeadKept

LEMMA StillLed ==
    ASSUME LeadInv, crashes = 0, UNCHANGED <<log, out, pos, store, db, crashes>>
    PROVE  LeadInv'
BY DEF LeadInv

\* The consumers that would write storage ahead of memory are never reached.
LEMMA ConsumeLead ==
    ASSUME Inv, LeadInv, crashes = 0, NEW c \in Consumers, Consume(c)
    PROVE  LeadInv'
<1>1. log' = log /\ crashes' = crashes /\ Ready(c)
  BY ConsumeEffect DEF Effect, Iteration, outside
<1>2. ~Validate(c) /\ ~StorageCreate(c)
  BY HandlesFacts, ReadLed DEF Validate, StorageCreate
<1>3. ASSUME StorageFails(c) PROVE LeadKept \/ UNCHANGED <<out, pos, store, db>>
  BY <1>1, <1>3, EndedLead DEF StorageFails
<1>4. LeadKept \/ UNCHANGED <<out, pos, store, db>>
  BY <1>1, <1>2, <1>3, ProcessReadLead, ProcessForwardLead, RefreshInstanceLead,
     FlushInstanceLead, ChangeLead, QueryOrRejectLead, CacheMissLead, StorageReadLead,
     StorageUpdateLead, StorageDeleteLead, SecondaryStorageLead, EndedLead
     DEF Consume, RefuseStep, CancelTxn
<1>5. CASE LeadKept
  <2>1. PICK read, mem : read = pos' /\ mem = store' /\ LedAfter(read, mem)
    BY <1>5 DEF LeadKept
  <2>2. /\ \A k \in DOMAIN db' : Behind(k, db'[k].off, read, mem)
        /\ \A b \in Consumers : log'[b] \in Seq(MadeOf(LedSteps(read, mem)))
        /\ \A b, d \in Consumers : out'[b][d] \in Seq(MadeOf(LedSteps(read, mem)))
    BY <1>1, <2>1 DEF LedAfter
  <2> QED BY <2>1, <2>2 DEF LeadInv
<1> QED
  BY <1>1, <1>4, <1>5, StillLed

-----------------------------------------------------------------------------
(* Clients, producers and the rest *)

LEMMA ClientStepLed ==
    ASSUME CommandsOnly, NEW read, NEW mem, NEW t \in Txns, NEW i \in DOMAIN Requests[t]
    PROVE  ExpandStep(ClientStep(t, Requests[t][i])) \in Seq(LedSteps(read, mem)) \ {<<>>}
<1> DEFINE req == Requests[t][i]
           sys == "PROCESS"
           step == Step(sys, req.cmd, req.key, Nil, Nil)
           S == LedSteps(read, mem)
<1>1. /\ Requests[t] \in Seq([cmd : Commands, key : Keys \cup {NoKey}])
      /\ req.cmd \notin TxnProhibitedCommands
  BY RequestsAssumption DEF ValidTxn
<1>2. req \in [cmd : Commands, key : Keys \cup {NoKey}]
  <2> DEFINE R == [cmd : Commands, key : Keys \cup {NoKey}]
  <2>1. Requests[t] \in Seq(R)
    BY <1>1
  <2> HIDE DEF R
  <2>2. Requests[t][i] \in R
    BY <2>1, ElementOfSeq, LenProperties
  <2> QED BY <2>2 DEF R
<1>3. req.cmd \notin {"Create", "Update"} /\ req.key # NoKey
  BY DEF CommandsOnly
<1>4. ClientStep(t, req) = step
  BY <1>3 DEF ClientStep
<1>5. ExpandStep(step) = <<step>>
  <2>1. step.cmd = req.cmd
    BY DEF Step
  <2> QED BY <1>3, <2>1 DEF ExpandStep
<1>6. /\ sys \in Systems /\ Nil \in Instances \cup {Nil} /\ Nil \in CmpdOffsets \cup {Nil}
      /\ Nil \in Results \cup {Nil} /\ sys = "PROCESS"
      /\ req.cmd \notin {"ValidateCreate", "ValidateUpdate"}
  BY <1>1 DEF Systems, TxnProhibitedCommands
<1> HIDE DEF req, sys
<1>7. step \in Steps
  BY <1>2, <1>6 DEF Steps, Step
<1>8. /\ step.cmd = req.cmd /\ step.key = req.key /\ step.rslt = Nil /\ step.sys = "PROCESS"
  BY <1>6 DEF Step
<1> HIDE DEF step
<1>9. step \in S
  BY <1>3, <1>6, <1>7, <1>8 DEF LedSteps, LeadsToWrite
<1> HIDE DEF S
<1>10. <<step>> \in Seq(S) \ {<<>>}
  BY <1>9
<1> QED
  BY <1>4, <1>5, <1>10 DEF req, S

LEMMA SubmittedLed ==
    ASSUME CommandsOnly, NEW read, NEW mem, NEW t \in Txns, NEW S, S = LedSteps(read, mem)
    PROVE  LET steps == [i \in DOMAIN Requests[t] |-> ClientStep(t, Requests[t][i])]
           IN NewApecsTxn(t, "REPORT", steps) \in MadeOf(S)
<1> DEFINE steps == [i \in DOMAIN Requests[t] |-> ClientStep(t, Requests[t][i])]
           lists == [i \in DOMAIN steps |-> ExpandStep(steps[i])]
           flat == FlattenSeq(lists)
           txn == NewApecsTxn(t, "REPORT", steps)
<1>1. /\ Requests[t] \in Seq([cmd : Commands, key : Keys \cup {NoKey}])
      /\ Requests[t] # <<>>
  BY RequestsAssumption DEF ValidTxn
<1>2. /\ DOMAIN Requests[t] = 1..Len(Requests[t]) /\ Len(Requests[t]) \in Nat
      /\ Len(Requests[t]) # 0
  BY <1>1, EmptySeq, LenProperties
<1>3. ASSUME NEW i \in 1..Len(Requests[t]) PROVE lists[i] \in Seq(S) \ {<<>>}
  <2>1. lists[i] = ExpandStep(ClientStep(t, Requests[t][i]))
    BY <1>2
  <2> QED BY <1>2, <2>1, ClientStepLed
<1>4. lists = [i \in 1..Len(Requests[t]) |-> lists[i]]
  BY <1>2
<1>5. txn = [id |-> t, upon |-> "REPORT", cur |-> 1, steps |-> flat]
  BY DEF NewApecsTxn
<1>6. txn \in Messages
  BY SubmittedOK DEF TxnOK
<1> HIDE DEF lists, txn
<1>7. lists \in Seq(Seq(S) \ {<<>>}) /\ lists # <<>>
  <2> DEFINE L == Seq(S) \ {<<>>}
             n == Len(Requests[t])
  <2>1. n \in Nat /\ n # 0 /\ (\A i \in 1..n : lists[i] \in L)
        /\ lists = [i \in 1..n |-> lists[i]]
    BY <1>2, <1>3, <1>4
  <2> HIDE DEF L, n
  <2>2. lists \in [1..n -> L]
    BY <2>1
  <2>3. lists \in Seq(L) /\ Len(lists) = n
    BY <2>1, <2>2, SeqDef, LenProperties
  <2>4. lists # <<>>
    BY <2>1, <2>3
  <2> QED BY <2>3, <2>4 DEF L
<1>8. flat \in Seq(S)
  BY <1>7, FlattenType
<1> HIDE DEF flat
<1>9. txn \in MadeOf(S)
  BY <1>5, <1>6, <1>8 DEF MadeOf
<1> QED
  BY <1>9 DEF txn

\* A message that is led is put on a topic.
LEMMA AppendLed ==
    ASSUME Inv, LeadInv, crashes = 0, NEW e \in Consumers, NEW m,
           m \in MadeOf(LedSteps(pos, store)), log' = [log EXCEPT ![e] = Append(@, m)]
    PROVE  \A b \in Consumers : log'[b] \in Seq(MadeOf(LedSteps(pos, store)))
<1> DEFINE X == MadeOf(LedSteps(pos, store))
<1>1. m \in X /\ \A b \in Consumers : log[b] \in Seq(X)
  BY DEF LeadInv
<1>2. \A b \in Consumers : log'[b] = IF b = e THEN Append(log[b], m) ELSE log[b]
  BY DEF Inv, MessagesOK
<1> HIDE DEF X
<1>3. ASSUME NEW b \in Consumers PROVE log'[b] \in Seq(X)
  BY <1>1, <1>2, AppendProperties
<1> QED
  BY <1>3 DEF X

LEMMA SubmitLead ==
    ASSUME Inv, LeadInv, crashes = 0, CommandsOnly, NEW t \in Txns, Submit(t)
    PROVE  LeadInv'
<1> DEFINE steps == [i \in DOMAIN Requests[t] |-> ClientStep(t, Requests[t][i])]
           txn == NewApecsTxn(t, "REPORT", steps)
<1>1. PICK random \in Parts : log' = [log EXCEPT ![Dest(txn, random)] = Append(@, txn)]
  BY DEF Submit
<1>2. TxnOK(txn) /\ CurrentStep(txn).sys = "PROCESS" /\ txn \in MadeOf(LedSteps(pos, store))
  BY SubmittedOK, SubmittedLed
<1>3. UNCHANGED <<out, pos, store, db, crashes>>
  BY DEF Submit
<1> HIDE DEF txn
<1> DEFINE e == Dest(txn, random)
<1>4. e \in Consumers /\ log' = [log EXCEPT ![e] = Append(@, txn)]
  BY <1>1, <1>2, ProducedGood
<1> HIDE DEF e
<1>5. \A b \in Consumers : log'[b] \in Seq(MadeOf(LedSteps(pos, store)))
  BY <1>2, <1>4, AppendLed
<1> QED
  BY <1>3, <1>5 DEF LeadInv

LEMMA TakenLed ==
    ASSUME Inv, LeadInv, crashes = 0, NEW c \in Consumers, NEW d \in Destinations,
           out[c][d] # <<>>, out' = [out EXCEPT ![c][d] = Tail(@)]
    PROVE  /\ \A b, e \in Consumers : out'[b][e] \in Seq(MadeOf(LedSteps(pos, store)))
           /\ d # Reports => d \in Consumers /\ Head(out[c][d]) \in MadeOf(LedSteps(pos, store))
<1> DEFINE X == MadeOf(LedSteps(pos, store))
<1>1. \A b, e \in Consumers : out[b][e] \in Seq(X)
  BY DEF LeadInv
<1>2. \A b \in Consumers, e \in Destinations :
         out'[b][e] = IF b = c /\ e = d THEN Tail(out[c][d]) ELSE out[b][e]
  <2>1. /\ out \in [Consumers -> [Destinations -> Seq(Messages \cup ReportMsgs)]]
        /\ c \in Consumers /\ d \in Destinations
        /\ out' = [out EXCEPT ![c][d] = Tail(@)]
    BY QueueTypes
  <2> QED BY ONLY <2>1
<1> HIDE DEF X
<1>3. ASSUME d \in Consumers PROVE Tail(out[c][d]) \in Seq(X) /\ Head(out[c][d]) \in X
  BY <1>1, <1>3, HeadTailProperties
<1>4. ASSUME NEW b \in Consumers, NEW e \in Consumers PROVE out'[b][e] \in Seq(X)
  BY <1>1, <1>2, <1>3 DEF Destinations
<1> QED
  BY <1>3, <1>4 DEF X, Destinations

LEMMA DeliverLead ==
    ASSUME Inv, LeadInv, crashes = 0, NEW c \in Consumers, NEW d \in Destinations,
           Deliver(c, d) \/ DeliveryFails(c, d)
    PROVE  LeadInv'
<1> DEFINE msg == Head(out[c][d])
<1>1. /\ out[c][d] # <<>> /\ out' = [out EXCEPT ![c][d] = Tail(@)]
      /\ UNCHANGED <<pos, store, db, crashes>>
      /\ \/ log' = log
         \/ d # Reports /\ log' = [log EXCEPT ![d] = Append(@, msg)]
  BY DEF Deliver, DeliveryFails
<1>2. /\ \A b, e \in Consumers : out'[b][e] \in Seq(MadeOf(LedSteps(pos, store)))
      /\ d # Reports => d \in Consumers /\ msg \in MadeOf(LedSteps(pos, store))
  BY <1>1, TakenLed
<1> HIDE DEF msg
<1>3. \A b \in Consumers : log'[b] \in Seq(MadeOf(LedSteps(pos, store)))
  <2>1. CASE log' = log
    BY <2>1 DEF LeadInv
  <2>2. CASE d # Reports /\ log' = [log EXCEPT ![d] = Append(@, msg)]
    BY <1>2, <2>2, AppendLed
  <2> QED BY <1>1, <2>1, <2>2
<1> QED
  BY <1>1, <1>2, <1>3 DEF LeadInv

LEMMA NextLead ==
    ASSUME Inv, LeadInv, CommandsOnly, [Next]_vars
    PROVE  LeadInv'
<1>1. CASE crashes = 0
  <2>1. CASE UNCHANGED vars
    BY <1>1, <2>1, StillLed DEF vars
  <2>2. ASSUME NEW c \in Consumers, NEW t \in Txns, CancelDirective(c, t) PROVE LeadInv'
    BY <1>1, <2>2, StillLed DEF CancelDirective, outside
  <2>3. ASSUME NEW c \in Consumers, Commit(c) PROVE LeadInv'
    BY <1>1, <2>3, StillLed DEF Commit, outside
  <2>4. ASSUME NEW c \in Consumers, Crash(c) PROVE LeadInv'
    BY <1>1, <2>4 DEF Crash, LeadInv
  <2> QED
    BY <1>1, <2>1, <2>2, <2>3, <2>4, SubmitLead, ConsumeLead, DeliverLead DEF Next
<1>2. CASE crashes # 0
  <2>1. crashes' # 0
    <3>1. ASSUME NEW c \in Consumers, Consume(c) PROVE crashes' = crashes
      BY <3>1, ConsumeEffect DEF Effect, Iteration, outside
    <3>2. crashes \in Nat
      BY BoundsAssumption DEF Inv, RestOK
    <3>3. ASSUME NEW t \in Txns, Submit(t) PROVE crashes' = crashes
      BY <3>3 DEF Submit
    <3>4. ASSUME NEW c \in Consumers, Commit(c) PROVE crashes' = crashes
      BY <3>4 DEF Commit, outside
    <3>5. ASSUME NEW c \in Consumers, Crash(c) PROVE crashes' = crashes + 1
      BY <3>5 DEF Crash
    <3>6. ASSUME NEW c \in Consumers, NEW d \in Destinations, Deliver(c, d) \/ DeliveryFails(c, d)
          PROVE  crashes' = crashes
      BY <3>6 DEF Deliver, DeliveryFails
    <3>7. ASSUME NEW c \in Consumers, NEW t \in Txns, CancelDirective(c, t)
          PROVE  crashes' = crashes
      BY <3>7 DEF CancelDirective, outside
    <3>8. crashes' = crashes \/ crashes' = crashes + 1
      BY <3>1, <3>3, <3>4, <3>5, <3>6, <3>7 DEF Next, vars
    <3> QED BY <1>2, <3>2, <3>8
  <2> QED BY <2>1 DEF LeadInv
<1> QED
  BY <1>1, <1>2

LEMMA InitLead ==
    ASSUME Init
    PROVE  LeadInv
<1> DEFINE X == MadeOf(LedSteps(pos, store))
<1>1. <<>> \in Seq(X)
  OBVIOUS
<1> HIDE DEF X
<1>2. /\ \A c \in Consumers : log[c] = <<>>
      /\ \A c, d \in Consumers : out[c][d] = <<>>
  BY DEF Init, Destinations
<1>3. ASSUME NEW k \in DOMAIN db PROVE Behind(k, db[k].off, pos, store)
  <2>1. k \in Keys /\ db[k].off = OldOffset(k)
    BY <1>3, StoredAssumption DEF Init
  <2>2. /\ OldOffset(k) \in CmpdOffsets /\ OldOffset(k).part = PartOf[k]
        /\ OldOffset(k).gen = 0 /\ 0 <= Generation /\ 0 # Generation
    BY <2>1, HomeConsumer DEF OldOffset, CmpdOffsets, Generation
  <2>3. k \in DOMAIN store => store[k].off = OldOffset(k)
    BY DEF Init
  <2> QED BY <2>1, <2>2, <2>3, SameOffset DEF Behind
<1> QED
  BY <1>1, <1>2, <1>3 DEF LeadInv, X

\* While no consumer restarts, the record of an instance in its consumer's
\* store is not older than the row in the database, for any commands, reads and
\* deletes, any number of partitions and keys, any misses, failed writes,
\* cancellations and lost messages: what memory answers is never behind what
\* storage has.  It is a promise of the offsets that produceNextStep hands to
\* the UPDATE_ASYNC transactions, and of the guards of instance_store.go and
\* RamDb.  CREATE and UPDATE write storage first and are left out.
THEOREM MemoryLeads ==
    ASSUME CommandsOnly
    PROVE  Spec => []StoreNotOlderThanDb
<1>1. Inv /\ LeadInv /\ [Next]_vars => LeadInv'
  BY NextLead
<1>2. Init => LeadInv
  BY InitLead
<1>3. LeadInv => StoreNotOlderThanDb
  BY DEF LeadInv, Behind, StoreNotOlderThanDb
<1> QED
  BY <1>1, <1>2, <1>3, Invariance, PTL DEF Spec
=============================================================================
