------------------------------- MODULE Apecs --------------------------------
(***************************************************************************)
(* The APECS engine: transactions travel as messages through the           *)
(* partitions of the PROCESS, STORAGE and STORAGE_SCND topics of a         *)
(* concern, and the consumer of a partition advances the transaction it    *)
(* reads by one step and produces it again for the next one.               *)
(*                                                                         *)
(* One action of a consumer is one iteration of the default branch of      *)
(* consumeApecsTopic: read a message, cancel or advance the transaction,   *)
(* store the offset.  What it produces waits in the producers of its       *)
(* process until the brokers have it: nothing waits for that, and nothing  *)
(* but the log file learns of a delivery that fails.  A consumer is a      *)
(* process of its own and may crash; when it is started again it reads on  *)
(* from the offset committed last, with an empty memory.                   *)
(***************************************************************************)
EXTENDS ApecsTxn

CONSTANTS
    Keys,        \* keys of the concern's instances
    Parts,       \* partitions, the same numbers for each of the topics
    PartOf,      \* the partition the producer's hash gives a key
    Txns,        \* transactions the clients submit
    Requests,    \* Requests[t]: the steps of t, as [cmd, key] records
    Stored,      \* keys that are in the database at the start
    Cached,      \* the ones of them that are in the instance store as well
    Cancels,     \* transactions an operator may ask to cancel
    MaxCrashes,  \* bound on consumer crashes
    MaxFaults    \* bound on errors of the database and failed deliveries

VARIABLES
    log,         \* log[c]: the messages of the topic partition c, for ever
    out,         \* out[c][d]: what c's process has produced to d, undelivered
    pos,         \* pos[c]: offset of the next message its consumer reads
    committed,   \* committed[c]: offset it would restart from
    store,       \* the instance stores; each key is in one partition's store
    db, scnd,    \* the primary and a secondary storage target
    submitted,   \* client transactions submitted so far
    outcome,     \* outcome[t]: codes of the COMPLETE and ERROR messages of t
    cancels,     \* cancels[c]: txnsToCancel of the consumer of c
    crashes, faults,
    lost         \* transactions a message of which was dropped undelivered

vars == <<log, out, pos, committed, store, db, scnd, submitted, outcome,
          cancels, crashes, faults, lost>>

\* What no iteration of a consumer's loop changes.
outside == <<log, submitted, outcome, crashes, lost>>

Systems == {"PROCESS", "STORAGE", "STORAGE_SCND"}
Consumers == Systems \X Parts

\* The topics that tell the outcome: COMPLETE, ERROR and the response topic.
Reports == <<"REPORTS", 0>>
Destinations == Consumers \cup {Reports}
Codes == {"OK", "CANCELLED", "INTERNAL", "INVALID_ARGUMENT", "KEY_NOT_PRESENT",
          "STEP_ALREADY_COMPLETE", "MISMATCHED_SYSTEM"}

\* An instance: its key, and the transactions whose commands changed it.
Instances == [key : Keys \cup {NoKey}, ops : Seq(Txns)]
NewInstance(key) == [key |-> key, ops |-> <<>>]

\* The PROCESS topic starts at generation 1; the offset of an instance that
\* was there before the start is older than the offset of any message.
Generation == 1
OldOffset(key) == [gen |-> 0, part |-> PartOf[key], off |-> 0]

\* The platform's commands, and the application's: one that changes the
\* instance, one that reads it and one that fails.
Commands == ReservedCommands \cup {"Change", "Query", "Reject"}

\* ValidateTxn: a client's transaction has a step, and none whose command the
\* platform keeps to itself.
TxnProhibitedCommands ==
    {"ValidateCreate", "ValidateUpdate", "RefreshInstance", "FlushInstance",
     "RequestRelated", "RefreshRelated"}

ValidTxn(steps) ==
    /\ steps # <<>>
    /\ \A i \in DOMAIN steps : steps[i].cmd \notin TxnProhibitedCommands

\* The result of a step that went well.
Results == [code : {"OK"}, key : Keys \cup {NoKey},
            payload : Instances \cup {Nil}, inst : Instances \cup {Nil}]

ASSUME PartsAssumption ==
    Parts \subseteq Nat /\ \A k \in Keys \cup {NoKey} : PartOf[k] \in Parts
ASSUME RequestsAssumption ==
    \A t \in Txns : /\ Requests[t] \in Seq([cmd : Commands, key : Keys \cup {NoKey}])
                    /\ ValidTxn(Requests[t])
ASSUME StoredAssumption == Cached \subseteq Keys /\ Stored \subseteq Keys
ASSUME NilAssumption ==
    NoKey \notin Keys /\ Nil \notin Instances /\ Nil \notin CmpdOffsets /\ Nil \notin Results
ASSUME BoundsAssumption == MaxCrashes \in Nat /\ MaxFaults \in Nat

-----------------------------------------------------------------------------
(* Producing messages *)

\* The random key for every step, with or without a key of its own.
DestRandom(txn, random) == <<CurrentStep(txn).sys, random>>

\* ProduceCurrentStep: a keyless step goes to the partition of a random key.
Dest(txn, random) ==
    LET step == CurrentStep(txn)
    IN <<step.sys, IF IsKeylessStep(step) THEN random ELSE PartOf[step.key]>>

Produce(c, txn) ==
    \E random \in Parts :
        out' = [out EXCEPT ![c][Dest(txn, random)] = Append(@, txn)]

\* The STORAGE step is left without the PROCESS offset.
NextStepTxnNoOffset(txn) == [txn EXCEPT !.cur = @ + 1]

\* produceNextStep, the transaction can advance: the next step gets the
\* payload if it is a command of the application, and the PROCESS offset.
NextStepTxn(txn) ==
    LET step == CurrentStep(txn)
        next == txn.steps[txn.cur + 1]
        payload == IF next.payload = Nil /\ next.cmd \notin ReservedCommands
                   THEN step.rslt.payload ELSE next.payload
        off == IF next.sys = "STORAGE" /\ next.off = Nil
               THEN step.off ELSE next.off
    IN [txn EXCEPT !.cur = @ + 1,
                   !.steps[txn.cur + 1] = [next EXCEPT !.payload = payload, !.off = off]]

\* The storage transactions generated when a transaction is complete are of
\* one step, and are retried until they succeed.
StorageTxn(txn, sys, cmd, key, payload, off) ==
    [id |-> txn.id, upon |-> "BAILOUT", cur |-> 1,
     steps |-> <<Step(sys, cmd, key, payload, off)>>]

\* Each CREATE, UPDATE and DELETE of the primary target goes to the secondary.
SecondarySteps(txn) ==
    {i \in DOMAIN txn.steps :
        /\ txn.steps[i].sys = "STORAGE"
        /\ txn.steps[i].cmd \in {"Create", "Update", "Delete"}}

SecondaryTxn(txn, i) ==
    LET step == txn.steps[i]
    IN StorageTxn(txn, "STORAGE_SCND", step.cmd, step.rslt.key,
                  step.rslt.payload, step.off)

\* Only the step that completes the transaction is looked at.
UpdateStepsOfLast(txn) ==
    {i \in {Len(txn.steps)} :
        txn.steps[i].sys = "PROCESS" /\ txn.steps[i].rslt.inst # Nil}

\* storageStepsMap: for each key the last step that changed its instance.
UpdateSteps(txn) ==
    LET changed(i) == txn.steps[i].sys = "PROCESS" /\ txn.steps[i].rslt.inst # Nil
    IN {i \in DOMAIN txn.steps :
           /\ changed(i)
           /\ \A j \in (i + 1)..Len(txn.steps) :
                 changed(j) => txn.steps[j].key # txn.steps[i].key}

UpdateAsyncTxn(txn, sys, i) ==
    LET step == txn.steps[i]
    IN StorageTxn(txn, sys, "UpdateAsync", step.key, step.rslt.inst, step.off)

\* The enumerations of a set of step numbers: increasing ones for a loop over
\* the steps, any for a loop over a Go map.
Enumerations(S) ==
    {f \in [1..Cardinality(S) -> S] :
        \A i, j \in 1..Cardinality(S) : i # j => f[i] # f[j]}

Ascending(S) ==
    {f \in Enumerations(S) :
        \A i, j \in 1..Cardinality(S) : i < j => f[i] < f[j]}

\* What the consumer that completes txn produces to the partition d, given the
\* order in which its two loops meet the steps whose keys are in it.
Generated(txn, d, fst, snd) ==
    LET loop1 == IF d[1] = "STORAGE_SCND"
                 THEN [i \in 1..Len(fst) |-> SecondaryTxn(txn, fst[i])]
                 ELSE <<>>
        loop2 == IF d[1] # "PROCESS"
                 THEN [i \in 1..Len(snd) |-> UpdateAsyncTxn(txn, d[1], snd[i])]
                 ELSE <<>>
    IN loop1 \o loop2

SecondaryStepsAt(txn, p) ==
    {i \in SecondarySteps(txn) : PartOf[txn.steps[i].rslt.key] = p}

UpdateStepsAt(txn, p) ==
    {i \in UpdateSteps(txn) : PartOf[txn.steps[i].key] = p}

\* The storage transactions answer the client of their parent as well.
ReportAll(txn, code) == <<[id |-> txn.id, code |-> code]>>

\* ProduceComplete and ProduceError: the message that ends a transaction.  The
\* storage transactions' ones are read by nobody.
Report(txn, code) ==
    IF txn.upon = "BAILOUT" THEN <<>> ELSE <<[id |-> txn.id, code |-> code]>>

ProduceError(c, txn, code) ==
    out' = [out EXCEPT ![c][Reports] = @ \o Report(txn, code)]

\* The storage transactions, and then ProduceComplete.
ProduceAtEnd(c, txn) ==
    \E fst \in [Parts -> UNION {Ascending(SecondaryStepsAt(txn, p)) : p \in Parts}],
       snd \in [Parts -> UNION {Enumerations(UpdateStepsAt(txn, p)) : p \in Parts}] :
        /\ \A p \in Parts : /\ fst[p] \in Ascending(SecondaryStepsAt(txn, p))
                            /\ snd[p] \in Enumerations(UpdateStepsAt(txn, p))
        /\ out' = [out EXCEPT ![c] = [d \in Destinations |->
                      @[d] \o IF d = Reports THEN Report(txn, "OK")
                              ELSE Generated(txn, d, fst[d[2]], snd[d[2]])]]

-----------------------------------------------------------------------------
(* Advancing a transaction by one step *)

Ready(c) == pos[c] < Len(log[c])
Msg(c) == log[c][pos[c] + 1]

\* The offset of the message after the one that was read.
ArrivedNext(c) ==
    LET step == CurrentStep(Msg(c))
    IN IF step.sys = "PROCESS"
       THEN [step EXCEPT !.off = [gen |-> Generation, part |-> c[2], off |-> pos[c] + 1]]
       ELSE step

\* The current step as advanceApecsTxn completes it: a missing key is taken
\* from the previous result, and a PROCESS step gets the message's offset.
Arrived(c) ==
    LET step == CurrentStep(Msg(c))
        prev == PreviousResult(Msg(c))
        key == IF step.key = NoKey /\ ~IsKeylessStep(step) /\ prev # Nil
               THEN prev.key ELSE step.key
        off == IF step.sys = "PROCESS"
               THEN [gen |-> Generation, part |-> c[2], off |-> pos[c]]
               ELSE step.off
    IN [step EXCEPT !.key = key, !.off = off]

\* The checks before the handler is called, in the code's order.
RefuseCode(c) ==
    LET step == Arrived(c)
    IN CASE step.rslt # Nil -> "STEP_ALREADY_COMPLETE"
         [] step.sys # c[1] -> "MISMATCHED_SYSTEM"
         [] step.key = NoKey /\ ~IsKeylessStep(step) -> "KEY_NOT_PRESENT"
         [] step.off = Nil -> "INTERNAL"
         [] OTHER -> "OK"

NeedsInstance(step) ==
    /\ step.sys = "PROCESS"
    /\ ~IsKeylessStep(step)
    /\ ~IsInstanceStoreStep(step)

\* The generated storage transactions have ids that no client knows of.
ShouldCancel(c) == Msg(c).upon # "BAILOUT" /\ Msg(c).id \in cancels[c]

\* The consumer reads a transaction it was not asked to cancel ...
Reads(c) == Ready(c) /\ ~ShouldCancel(c)

\* ... whose step passes the checks, and calls the handler of the command.
Handles(c, sys, cmds) ==
    /\ Reads(c)
    /\ c[1] = sys
    /\ CurrentStep(Msg(c)).cmd \in cmds
    /\ RefuseCode(c) = "OK"
    /\ NeedsInstance(Arrived(c)) => Arrived(c).key \in DOMAIN store

\* One message too many.
StoreOffsetsTwice(c) == pos' = [pos EXCEPT ![c] = @ + 2]

StoreOffsets(c) == pos' = [pos EXCEPT ![c] = @ + 1]

\* The step ends with an error: nothing is undone, nothing follows.
Fails(c, code) ==
    /\ ProduceError(c, Msg(c), code)
    /\ StoreOffsets(c)

\* The step ends well: its result is recorded, the steps the handler adds are
\* put behind it, and the transaction goes to its next step or is complete.
Finishes(c, key, payload, inst, addSteps) ==
    LET step == Arrived(c)
        rslt == Result("OK", key, IF payload = Nil THEN step.payload ELSE payload, inst)
        txn == InsertSteps(SetCurrentStep(Msg(c), [step EXCEPT !.rslt = rslt]),
                           Msg(c).cur + 1, addSteps)
    IN /\ \/ CanAdvance(txn) /\ Produce(c, NextStepTxn(txn))
          \/ ~CanAdvance(txn) /\ ProduceAtEnd(c, txn)
       /\ StoreOffsets(c)

-----------------------------------------------------------------------------
(* Steps on an instance: HandleLogicCommand *)

\* PROCESS READ answers from the instance store.
ProcessRead(c) ==
    /\ Handles(c, "PROCESS", {"Read"})
    /\ Finishes(c, NoKey, store[Arrived(c).key].inst, Nil, <<>>)
    /\ UNCHANGED <<outside, faults, committed, store, db, scnd, cancels>>

\* UPDATE and DELETE leave the store alone and add the storage step.
ProcessForward(c) ==
    LET step == Arrived(c)
        payload == IF step.cmd = "Update" THEN step.payload ELSE store[step.key].inst
    IN /\ Handles(c, "PROCESS", {"Update", "Delete"})
       /\ Finishes(c, NoKey, Nil, Nil,
                   <<Step("STORAGE", step.cmd, step.key, payload, Nil)>>)
       /\ UNCHANGED <<outside, faults, committed, store, db, scnd, cancels>>

\* The payload read from or written to storage is put into the store, at the
\* offset of this step; the store's record is the answer, whichever it is.
RefreshInstance(c) ==
    LET step == Arrived(c)
        set == StoreSet(store, step.key, step.payload, step.off)
    IN /\ Handles(c, "PROCESS", {"RefreshInstance"})
       /\ store' = set
       /\ Finishes(c, NoKey, set[step.key].inst, Nil, <<>>)
       /\ UNCHANGED <<outside, faults, committed, db, scnd, cancels>>

FlushInstance(c) ==
    LET key == Arrived(c).key
        packed == IF key \in DOMAIN store THEN store[key].inst ELSE Nil
    IN /\ Handles(c, "PROCESS", {"FlushInstance"})
       /\ store' = StoreRemove(store, key)
       /\ Finishes(c, NoKey, packed, Nil, <<>>)
       /\ UNCHANGED <<outside, faults, committed, db, scnd, cancels>>

\* The application accepts the new instance or does not.
Validate(c) ==
    /\ Handles(c, "PROCESS", {"ValidateCreate", "ValidateUpdate"})
    /\ \/ Finishes(c, NoKey, Arrived(c).payload, Nil, <<>>)
       \/ Fails(c, "INVALID_ARGUMENT")
    /\ UNCHANGED <<outside, faults, committed, store, db, scnd, cancels>>

\* The change goes to storage only.
ChangeUnstored(c) ==
    /\ Handles(c, "PROCESS", {"Change"})
    /\ Finishes(c, NoKey, Nil,
                [store[Arrived(c).key].inst EXCEPT !.ops = Append(@, Msg(c).id)], <<>>)
    /\ UNCHANGED <<outside, faults, committed, store, db, scnd, cancels>>

\* A command of the application that changes the instance.
Change(c) ==
    LET step == Arrived(c)
        inst == [store[step.key].inst EXCEPT !.ops = Append(@, Msg(c).id)]
    IN /\ Handles(c, "PROCESS", {"Change"})
       /\ store' = StoreSet(store, step.key, inst, step.off)
       /\ Finishes(c, NoKey, Nil, inst, <<>>)
       /\ UNCHANGED <<outside, faults, committed, db, scnd, cancels>>

\* One that reads it only, and one that returns an error or panics.
Query(c) ==
    /\ Handles(c, "PROCESS", {"Query"})
    /\ Finishes(c, NoKey, Nil, Nil, <<>>)
    /\ UNCHANGED <<outside, faults, committed, store, db, scnd, cancels>>

\* The application's command returns an error, or the command is none that
\* PROCESS knows: UPDATE_ASYNC, which nothing keeps a client from asking for.
Reject(c) ==
    /\ Handles(c, "PROCESS", {"Reject", "UpdateAsync"})
    /\ Fails(c, "INTERNAL")
    /\ UNCHANGED <<outside, faults, committed, store, db, scnd, cancels>>

\* The transaction is not produced again.
CacheMissDropped(c) ==
    /\ Reads(c)
    /\ RefuseCode(c) = "OK"
    /\ NeedsInstance(Arrived(c)) /\ Arrived(c).key \notin DOMAIN store
    /\ StoreOffsets(c)
    /\ UNCHANGED <<outside, faults, out, committed, store, db, scnd, cancels>>

\* The instance is not in the store: a STORAGE READ is put before the step, or
\* in its place if all it does is to read.
CacheMiss(c) ==
    LET step == Arrived(c)
        read == Step("STORAGE", "Read", step.key, Nil, step.off)
        txn == SetCurrentStep(Msg(c), step)
    IN /\ Reads(c)
       /\ RefuseCode(c) = "OK"
       /\ NeedsInstance(step) /\ step.key \notin DOMAIN store
       /\ Produce(c, IF step.cmd = "Read" THEN SetCurrentStep(txn, read)
                     ELSE InsertSteps(txn, txn.cur, <<read>>))
       /\ StoreOffsets(c)
       /\ UNCHANGED <<outside, faults, committed, store, db, scnd, cancels>>

-----------------------------------------------------------------------------
(* Steps on a storage target: HandleCrudCommand *)

Refresh(key, payload) ==
    Step("PROCESS", "RefreshInstance", key, payload, Nil)

\* The storage target chooses the key of an instance that comes without one.
StorageCreate(c) ==
    LET step == Arrived(c)
    IN /\ Handles(c, "STORAGE", {"Create"})
       /\ \E key \in IF step.payload.key # NoKey THEN {step.payload.key}
                     ELSE Keys \ DOMAIN db :
             LET inst == [step.payload EXCEPT !.key = key]
             IN /\ db' = DbUpdate(db, key, inst, step.off)
                /\ Finishes(c, key, inst, Nil, <<Refresh(key, inst)>>)
       /\ UNCHANGED <<outside, faults, committed, store, scnd, cancels>>

StorageRead(c) ==
    LET key == Arrived(c).key
    IN /\ Handles(c, "STORAGE", {"Read"})
       /\ \/ /\ key \in DOMAIN db
             /\ Finishes(c, key, db[key].inst, Nil, <<Refresh(key, db[key].inst)>>)
          \/ /\ key \notin DOMAIN db
             /\ Fails(c, "INTERNAL")
       /\ UNCHANGED <<outside, faults, committed, store, db, scnd, cancels>>

StorageUpdate(c) ==
    LET step == Arrived(c)
        sync == step.cmd = "Update"
    IN /\ Handles(c, "STORAGE", {"Update", "UpdateAsync"})
       /\ db' = DbUpdate(db, step.key, step.payload, step.off)
       /\ Finishes(c, IF sync THEN step.key ELSE NoKey, step.payload, Nil,
                   IF sync THEN <<Refresh(step.key, step.payload)>> ELSE <<>>)
       /\ UNCHANGED <<outside, faults, committed, store, scnd, cancels>>

StorageDelete(c) ==
    LET step == Arrived(c)
    IN /\ Handles(c, "STORAGE", {"Delete"})
       /\ db' = DbDelete(db, step.key, step.off)
       /\ Finishes(c, step.key, Nil, Nil,
                   <<Step("PROCESS", "FlushInstance", step.key, Nil, Nil)>>)
       /\ UNCHANGED <<outside, faults, committed, store, scnd, cancels>>

\* The secondary target follows; it never adds a step.
SecondaryStorage(c) ==
    LET step == Arrived(c)
    IN /\ Handles(c, "STORAGE_SCND", {"Create", "Update", "UpdateAsync", "Delete"})
       /\ scnd' = IF step.cmd = "Delete" THEN DbDelete(scnd, step.key, step.off)
                  ELSE DbUpdate(scnd, step.key, step.payload, step.off)
       /\ Finishes(c, IF step.cmd \in {"Update", "UpdateAsync"} THEN NoKey ELSE step.key,
                   Nil, Nil, <<>>)
       /\ UNCHANGED <<outside, faults, committed, store, db, cancels>>

\* A failed storage transaction is passed over.
StorageFailsOn(c) ==
    /\ faults < MaxFaults
    /\ Reads(c) /\ c[1] # "PROCESS" /\ RefuseCode(c) = "OK"
    /\ Fails(c, "INTERNAL")
    /\ faults' = faults + 1
    /\ UNCHANGED <<outside, committed, store, db, scnd, cancels>>

\* The database returns an error.  A client's transaction fails; for a storage
\* transaction the consumer commits the offset of this very message and exits,
\* and reads it again when it is restarted.
StorageFails(c) ==
    /\ faults < MaxFaults
    /\ Reads(c) /\ c[1] # "PROCESS" /\ RefuseCode(c) = "OK"
    /\ \/ /\ Msg(c).upon # "BAILOUT"
          /\ Fails(c, "INTERNAL")
          /\ UNCHANGED <<committed, cancels>>
       \/ /\ Msg(c).upon = "BAILOUT"
          /\ committed' = [committed EXCEPT ![c] = pos[c]]
          /\ cancels' = [cancels EXCEPT ![c] = {}]
          /\ UNCHANGED <<out, pos>>
    /\ faults' = faults + 1
    /\ UNCHANGED <<outside, store, db, scnd>>

-----------------------------------------------------------------------------
(* The other branches of the consumer, crashes, clients and operators *)

\* The step fails one of the checks.  A storage transaction without an offset
\* would bail out here, but there are none: MessagesResumable.
RefuseStep(c) ==
    /\ Reads(c)
    /\ RefuseCode(c) # "OK"
    /\ Fails(c, RefuseCode(c))
    /\ UNCHANGED <<outside, faults, committed, store, db, scnd, cancels>>

CancelTxn(c) ==
    /\ Ready(c) /\ ShouldCancel(c)
    /\ cancels' = [cancels EXCEPT ![c] = @ \ {Msg(c).id}]
    /\ Fails(c, "CANCELLED")
    /\ UNCHANGED <<outside, faults, committed, store, db, scnd>>

\* The offset of the message that is about to be read is committed with it.
CommitAhead(c) ==
    /\ crashes < MaxCrashes
    /\ Ready(c) /\ committed[c] # pos[c] + 1
    /\ committed' = [committed EXCEPT ![c] = pos[c] + 1]
    /\ UNCHANGED <<outside, faults, out, pos, store, db, scnd, cancels>>

\* The commit ticker.  Without a crash to come the committed offset is never
\* read again, so the commits after the last crash are left out.
Commit(c) ==
    /\ crashes < MaxCrashes
    /\ committed[c] # pos[c]
    /\ committed' = [committed EXCEPT ![c] = pos[c]]
    /\ UNCHANGED <<outside, faults, out, pos, store, db, scnd, cancels>>

\* The brokers acknowledge a message that c's process has produced to d ...
Deliver(c, d) ==
    /\ out[c][d] # <<>>
    /\ out' = [out EXCEPT ![c][d] = Tail(@)]
    /\ LET msg == Head(out[c][d])
       IN IF d = Reports
          THEN /\ outcome' = [outcome EXCEPT ![msg.id] = Append(@, msg.code)]
               /\ UNCHANGED log
          ELSE /\ log' = [log EXCEPT ![d] = Append(@, msg)]
               /\ UNCHANGED outcome
    /\ UNCHANGED <<pos, committed, store, db, scnd, submitted, cancels, crashes,
                   faults, lost>>

\* ... or the delivery report is an error, which is logged.
DeliveryFails(c, d) ==
    /\ faults < MaxFaults
    /\ out[c][d] # <<>>
    /\ out' = [out EXCEPT ![c][d] = Tail(@)]
    /\ lost' = lost \cup {Head(out[c][d]).id}
    /\ faults' = faults + 1
    /\ UNCHANGED <<log, pos, committed, store, db, scnd, submitted, outcome,
                   cancels, crashes>>

Undelivered(c) ==
    UNION {{out[c][d][i].id : i \in DOMAIN out[c][d]} : d \in Destinations}

\* A crash and the restart: the memory is lost, the queues of the producers
\* with it, and reading resumes at the committed offset.
Crash(c) ==
    /\ crashes < MaxCrashes
    /\ crashes' = crashes + 1
    /\ pos' = [pos EXCEPT ![c] = committed[c]]
    /\ store' = StoreOfOthers(store, {k \in Keys : c = <<"PROCESS", PartOf[k]>>})
    /\ cancels' = [cancels EXCEPT ![c] = {}]
    /\ out' = [out EXCEPT ![c] = [d \in Destinations |-> <<>>]]
    /\ lost' = lost \cup Undelivered(c)
    /\ UNCHANGED <<log, committed, db, scnd, submitted, outcome, faults>>

\* The CANCEL_TXN directive of the concern's admin topic reaches a consumer.
CancelDirective(c, t) ==
    /\ t \in submitted \cap Cancels
    /\ t \notin cancels[c]
    /\ cancels' = [cancels EXCEPT ![c] = @ \cup {t}]
    /\ UNCHANGED <<outside, faults, out, pos, committed, store, db, scnd>>

\* ExecuteTxnSync and ExecuteTxnAsync: all of a client's steps are PROCESS.
ClientStep(t, req) ==
    Step("PROCESS", req.cmd,
         IF req.cmd = "Create" THEN NoKey ELSE req.key,
         IF req.cmd \in {"Create", "Update"}
         THEN [key |-> req.key, ops |-> <<t>>] ELSE Nil,
         Nil)

Submit(t) ==
    /\ t \notin submitted
    /\ submitted' = submitted \cup {t}
    /\ LET steps == [i \in DOMAIN Requests[t] |-> ClientStep(t, Requests[t][i])]
           txn == NewApecsTxn(t, "REPORT", steps)
       IN \E random \in Parts :
             log' = [log EXCEPT ![Dest(txn, random)] = Append(@, txn)]
    /\ UNCHANGED <<out, pos, committed, store, db, scnd, outcome, cancels, crashes,
                   faults, lost>>

Init ==
    /\ log = [c \in Consumers |-> <<>>]
    /\ out = [c \in Consumers |-> [d \in Destinations |-> <<>>]]
    /\ pos = [c \in Consumers |-> 0]
    /\ committed = [c \in Consumers |-> 0]
    /\ store = [k \in Cached |-> [inst |-> NewInstance(k), off |-> OldOffset(k)]]
    /\ db = [k \in Stored |-> [inst |-> NewInstance(k), off |-> OldOffset(k)]]
    /\ scnd = db
    /\ submitted = {}
    /\ outcome = [t \in Txns |-> <<>>]
    /\ cancels = [c \in Consumers |-> {}]
    /\ crashes = 0 /\ faults = 0 /\ lost = {}

\* One iteration of a consumer's loop that reads a message.
Consume(c) ==
    \/ ProcessRead(c) \/ ProcessForward(c) \/ RefreshInstance(c)
    \/ FlushInstance(c) \/ Validate(c) \/ Change(c) \/ Query(c) \/ Reject(c)
    \/ CacheMiss(c) \/ StorageCreate(c) \/ StorageRead(c) \/ StorageUpdate(c)
    \/ StorageDelete(c) \/ SecondaryStorage(c) \/ StorageFails(c)
    \/ RefuseStep(c) \/ CancelTxn(c)

Next ==
    \/ \E t \in Txns : Submit(t)
    \/ \E c \in Consumers : Consume(c) \/ Commit(c) \/ Crash(c)
    \/ \E c \in Consumers, d \in Destinations : Deliver(c, d) \/ DeliveryFails(c, d)
    \/ \E c \in Consumers, t \in Txns : CancelDirective(c, t)

Spec == Init /\ [][Next]_vars

\* Every partition has a running consumer, which reads what is there, and the
\* brokers are reachable.
FairSpec ==
    /\ Spec
    /\ \A c \in Consumers : WF_vars(Consume(c))
    /\ \A c \in Consumers : WF_vars(\E d \in Destinations : Deliver(c, d))

-----------------------------------------------------------------------------
(* Properties *)

Steps ==
    [sys : Systems, cmd : Commands, key : Keys \cup {NoKey},
     payload : Instances \cup {Nil}, off : CmpdOffsets \cup {Nil},
     rslt : Results \cup {Nil}]

Messages ==
    [id : Txns, upon : {"REPORT", "BAILOUT"}, cur : Nat \ {0}, steps : Seq(Steps)]

\* Types of the engine's state; a message's current step is one of its steps.
TypeOK ==
    /\ log \in [Consumers -> Seq(Messages)]
    /\ \A c \in Consumers : \A i \in DOMAIN log[c] : log[c][i].cur <= Len(log[c][i].steps)
    /\ \A c \in Consumers : out[c] \in [Destinations -> Seq(Messages \cup [id : Txns, code : Codes])]
    /\ pos \in [Consumers -> Nat] /\ committed \in [Consumers -> Nat]
    /\ \A c \in Consumers : committed[c] <= pos[c] /\ pos[c] <= Len(log[c])
    /\ \A map \in {store, db, scnd} : IsMapTo(map, Keys, InstanceRecord(Instances))
    /\ submitted \subseteq Txns
    /\ outcome \in [Txns -> Seq(Codes)]
    /\ cancels \in [Consumers -> SUBSET Txns]
    /\ crashes \in 0..MaxCrashes /\ faults \in 0..MaxFaults /\ lost \subseteq Txns

\* Every message is where the consumer that reads it can carry on: its current
\* step is of the topic's system and of the partition of its key, the steps
\* before it are done, the others are not, and a storage step has an offset.
\* The checks of advanceApecsTxn for a finished step, for a wrong system and
\* for a nil offset therefore never refuse a message.
Resumable(c, txn) ==
    /\ CurrentStep(txn).sys = c[1]
    /\ ~IsKeylessStep(CurrentStep(txn)) => PartOf[CurrentStep(txn).key] = c[2]
    /\ \A i \in DOMAIN txn.steps : (txn.steps[i].rslt # Nil) <=> (i < txn.cur)
    /\ CurrentStep(txn).sys # "PROCESS" => CurrentStep(txn).off # Nil

MessagesResumable ==
    \A c \in Consumers : \A i \in DOMAIN log[c] : Resumable(c, log[c][i])

\* A storage step carries the offset of a PROCESS message of its own
\* transaction ("STORAGE steps always need the value PROCESS Offset"): the
\* order that OffsetGT gives two writes is the order of their commands.
VersionedByOwnMessage ==
    \A c \in Consumers : \A i \in DOMAIN log[c] :
        LET txn == log[c][i]
            off == CurrentStep(txn).off
        IN c[1] # "PROCESS" =>
             /\ off.gen = Generation
             /\ off.off < Len(log[<<"PROCESS", off.part>>])
             /\ log[<<"PROCESS", off.part>>][off.off + 1].id = txn.id

\* While no consumer restarts, the record in the store is never older than the
\* one in the database: storage only ever catches up with memory.
StoreNotOlderThanDb ==
    crashes = 0 =>
        \A k \in DOMAIN store \cap DOMAIN db : OffsetGTE(store[k].off, db[k].off)

\* The commands applied to an instance are those of the PROCESS messages its
\* partition's consumer has read, in the order of their offsets.
IsChangeOf(k, txn) ==
    CurrentStep(txn).sys = "PROCESS" /\ CurrentStep(txn).cmd = "Change"
        /\ CurrentStep(txn).key = k

AppliedInLogOrder ==
    \A k \in DOMAIN store :
        LET c == <<"PROCESS", PartOf[k]>>
            read == {i \in 1..pos[c] : IsChangeOf(k, log[c][i])}
        IN \E f \in Ascending(read) :
              store[k].inst.ops = [i \in DOMAIN f |-> log[c][f[i]].id]

\* Whatever order the storage messages of several transactions arrive in, are
\* retried in or are read again in, a row is never older than a write that the
\* storage consumer has done: the offset guard of both targets.  A storage
\* transaction that was read has been done; one of a client may have failed or
\* been cancelled, and its CREATE has the key in its payload.
IsStorageWrite(step) ==
    step.cmd \in {"Create", "Update", "UpdateAsync", "Delete"} /\ ~IsKeylessStep(step)

MustBeDone(txn) == txn.upon = "BAILOUT" \/ (faults = 0 /\ Cancels = {})

DbHasNewest ==
    \A p \in Parts, target \in {<<"STORAGE", db>>, <<"STORAGE_SCND", scnd>>} :
        LET c == <<target[1], p>>
            rows == target[2]
        IN \A i \in 1..pos[c] :
             LET step == CurrentStep(log[c][i])
             IN IsStorageWrite(step) /\ MustBeDone(log[c][i]) /\ step.key \in DOMAIN rows =>
                    OffsetGTE(rows[step.key].off, step.off)

\* A row that stays is never replaced by an older one, though a restarted
\* storage consumer is given writes again that newer ones have overtaken.
RowsOnlyGetNewer ==
    [][\A rows \in {<<db, db'>>, <<scnd, scnd'>>} :
          \A k \in DOMAIN rows[1] \cap DOMAIN rows[2] :
              OffsetGTE(rows[2][k].off, rows[1][k].off)]_vars

Quiescent ==
    \A c \in Consumers : pos[c] = Len(log[c]) /\ Undelivered(c) = {}
NoFailures == \A t \in Txns : \A i \in DOMAIN outcome[t] : outcome[t][i] = "OK"

\* When everything produced has been delivered and consumed, and no transaction
\* has failed, both storage targets hold the instances that are in memory, however the
\* storage transactions of the various clients were interleaved or retried.
StorageCatchesUp ==
    Quiescent /\ NoFailures /\ lost = {} =>
        \A k \in DOMAIN store :
            /\ k \in DOMAIN db /\ k \in DOMAIN scnd
            /\ db[k].inst = store[k].inst /\ scnd[k] = db[k]

\* A change that was reported as complete is in the instance, as often as the
\* transaction asked for it.
ChangesOf(t, k) ==
    {i \in DOMAIN Requests[t] : Requests[t][i] = [cmd |-> "Change", key |-> k]}

NoLostUpdate ==
    Quiescent =>
        \A t \in Txns, k \in Keys :
            outcome[t] = <<"OK">> /\ t \notin lost /\ k \in DOMAIN store =>
                Cardinality({i \in DOMAIN store[k].inst.ops : store[k].inst.ops[i] = t})
                    >= Cardinality(ChangesOf(t, k))

\* Without restarts a transaction is reported once, as complete or as failed,
\* even when it is cancelled or the database fails.
ReportedOnce ==
    crashes = 0 => \A t \in Txns : Len(outcome[t]) <= 1

\* A transaction is under way while a message of it is in a producer's queue,
\* or in a topic where its consumer would find it after a restart.
UnderWay(t) ==
    \/ \E c \in Consumers : \E i \in (committed[c] + 1)..Len(log[c]) :
          log[c][i].id = t /\ log[c][i].upon # "BAILOUT"
    \/ \E c \in Consumers, d \in Destinations : \E i \in DOMAIN out[c][d] :
          out[c][d][i].id = t /\ (d # Reports => out[c][d][i].upon # "BAILOUT")

\* A consumer commits an offset only after it has handed on what followed from
\* the messages before it, so restarts alone lose no transaction: as long as the
\* producers' queues drop nothing, it is under way or reported.
NothingVanishes ==
    \A t \in submitted \ lost : UnderWay(t) \/ outcome[t] # <<>>

\* The README's promise that the state of a transaction is preserved while it is
\* being processed.  The commit of a consumer's offset does not wait for the
\* delivery of what it produced.
StatePreserved ==
    \A t \in submitted : UnderWay(t) \/ outcome[t] # <<>>

\* Every transaction that is submitted is reported at last.
EveryTxnReported ==
    \A t \in Txns : (t \in submitted) ~> (outcome[t] # <<>>)

\* A change that is reported as complete reaches both storage targets.
EveryChangeStored ==
    \A t \in Txns, k \in Keys :
        (outcome[t] = <<"OK">> /\ ChangesOf(t, k) # {}) ~>
            \A map \in {db, scnd} :
                k \in DOMAIN map /\ t \in {map[k].inst.ops[i] : i \in DOMAIN map[k].inst.ops}
=============================================================================
