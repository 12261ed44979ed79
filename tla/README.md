# Rocketcycle in TLA+

A verification development of [Rocketcycle](../src/README.md): its APECS
transaction engine and the management that runs it. TLA+ modules, the TLC configurations that
model-check them, and TLAPS proofs. `PROJECT.json` holds the machine-readable
index: components, runs, the lines each definition models, findings, hazards
and theorems.

## The system

Rocketcycle runs multi-step transactions over *concerns* (kinds of records). A
concern owns Kafka topics PROCESS, STORAGE and STORAGE_SCND, plus COMPLETE and
ERROR. A message **is** a transaction: its steps, the results so far and the
index of the current step. The consumer of a topic partition reads a message,
runs the current step and produces the transaction to the partition of the next
step's key. There is no coordinator.

| Component | State | Operations | Interacts with |
|---|---|---|---|
| APECS engine (`pkg/apecs/apecs_runner.go`) | position, stored and committed offset, transactions to cancel | one loop iteration: read, check, cancel or advance, store the offset; commit ticker; bailout | reads topics, calls the handlers, produces to topics |
| Transactions (`pkg/rkcy/apecs_txn.go`) | the step list | expansion of CREATE and UPDATE, insertion and replacement of steps | carried in messages |
| Command handlers (`cmd/protoc-gen-rkcy/templates/rkcy.go.tmpl`) | - | HandleLogicCommand, HandleCrudCommand | instance store, storage target |
| Instance store (`pkg/rkcy/instance_store.go`) | key -> instance, compound offset | Get, Set, SetInstance, SetRelated, Remove | PROCESS consumer of the key's partition |
| Storage targets (`pkg/storage/ramdb`, PostgreSQL of the example) | key -> row, compound offset | Create, Read, Update, Delete | STORAGE and STORAGE_SCND consumers |
| Producers (`pkg/stream`) | current topic, paused, queue of undelivered messages | Produce, delivery reports, platform updates, pause, ping | engine, brokers, admin |
| Client API (`pkg/apecs/apecs.go`, `pkg/platform/platform.go`) | map of waiting requests | ExecuteTxnSync/Async, response consumer, time-outs | engine, response topic |
| Related (template, `pkg/rkcy`) | related bytes of an instance | REQUEST_RELATED, REFRESH_RELATED | engine, other concerns |
| Runner (`pkg/runner`) | running programs | start, stop, maintenance | consumers topic, processes |
| Management topics (`pkg/mgmt`), admin (`pkg/admin`) | current platform definition, producers seen | publish, consume from the last match, track producers | all processes |
| Platform definition (`pkg/rkcy/platform_def.go`, `topics.go`), configuration, payload packing | - | validation, difference, encoding | everybody |

What is hard here: consumers of many partitions interleave over the same keys;
storage writes of one key come from different producers; everything produced is
asynchronous and a failed delivery is only logged; processes crash and resume
at an offset committed a while ago; a cache miss takes a transaction through
storage and back while others go on; storage transactions must be retried until
they succeed; copies of related instances travel through the same topics by
different ways; operators, admin and the runner act on each other through topics
that each reads from a place of its own. Correctness is: commands on a key take effect in log order and
none is lost; storage ends up with what memory has, whatever the order of the
writes; a transaction is always somewhere, ends, and is reported once; a
restart skips no message; related instances come to know each other's latest
state; the programs of the current definition run, each once.

## Modules

| Module | Models |
|---|---|
| `CmpdOffset` | compound offsets (generation, partition, offset) and their order |
| `InstanceStore` | the instance store as operators on a map |
| `RamDb` | the storage target as operators on a map |
| `ApecsTxn` | the transaction and the operations on its step list |
| `Apecs` | the engine: consumers, producers' queues, handlers, storage, crashes, clients |
| `MCApecs` | the requests of the small instances |
| `ApecsProofs` | theorems about `Apecs`: types, messages, versions, rows; lemmas about its operators |
| `ApecsDeliveryProofs` | what becomes of a transaction, and what storage has of it |
| `ApecsStoreProofs` | memory against storage |
| `ApecsMemoryProofs` | what becomes of a change of an instance that is in memory |
| `Delivery` | abstract: what the consumers of a partition promise |
| `ApecsConsumer` | the offsets of `consumeApecsTopic` in detail |
| `MCApecsConsumer` | its small instances |
| `ApecsConsumerProofs` | theorems about `ApecsConsumer` |
| `Response` | ExecuteTxnSync and the reader of the response topic |
| `MCResponse` | its small instance |
| `ResponseProofs` | theorems about `Response` |
| `Related` | the copies related instances keep of each other |
| `MCRelated` | its small instances |
| `RelatedProofs` | theorems about `Related` |
| `PlatformDef` | a platform definition: completion, validation, its programs, difference, topics |
| `Runner` | the runner's map of programs and their processes |
| `Mgmt` | operators, the platform topic, admin and the runner together |
| `MCMgmt` | its small platform |
| `MgmtProofs` | theorems about `PlatformDef`, `Runner` and `Mgmt` |

`Apecs` extends `ApecsTxn`, which extends `RamDb`, `InstanceStore` and
`CmpdOffset`. Each of the latter is a chain of pure operators, so that the
engine's actions read as the code does: `StoreSet`, `DbUpdate`, `InsertSteps`.

### `Apecs`

A consumer is a pair of a system and a partition. `log[c]` is the topic
partition, `pos[c]` the offset it reads next, `committed[c]` where a restart
resumes, `cancels[c]` its `txnsToCancel`. `out[c][d]` is what c's process has
produced to the destination d and the brokers have not acknowledged; Kafka
keeps the order of one producer and partition, which is all the model assumes.
The instance stores of the PROCESS consumers are one map `store`, since a key
belongs to one partition; a crash empties the keys of that partition. `db` and
`scnd` are the primary and a secondary target. `outcome[t]` collects what is
reported of the transaction t.

An action of a consumer is a whole iteration of the loop: `Reads` and
`RefuseCode` are the checks of `advanceApecsTxn`, `Arrived` the step as it is
completed by them, and `Finishes` or `Fails` the end of the function with all
it produces. `CacheMiss` is the injected STORAGE READ. The actions between are
the branches of the two generated handlers. `ProduceAtEnd` is the last part of
`produceNextStep`: the secondary writes in step order, then one UPDATE_ASYNC per
changed key in any order (the code ranges over a Go map), then the report.
`StorageFails` is an error of the database: a client's transaction fails, a
storage transaction makes the consumer commit the offset of that message and
exit. Its process flushes its producers when it ends that way, so `out` stays;
`Crash` drops it.

The data is abstracted: an instance is its key and the sequence of transactions
that changed it, which is what the properties tell apart. Application commands
are `Change` (changes the instance), `Query` (does not) and `Reject` (returns an
error or panics). Related data is left to `Related`.

### `ApecsConsumer` and `Delivery`

The same loop with the position inside it (`pc`), the first-message commit, the
stored offset and `shouldCommit`. One program per storage target reads the
partition; the brokers keep an offset per consumer group, and `GroupName` is the
code's. Without a committed offset a consumer starts at the end of the
partition. `Delivery` says what the targets may rely on: from some first message
on, every message is handled, in order, perhaps again, never left out.

### `Response`

A call goes through `Call`, `Register`, `Execute` and then waits (`pc`); it
returns by `Receive`, `TimeOut`, `ContextDone` or an error of `Execute`, and
closes its channel (`closed`). `queue` is `respRegisterCh`, `reqMap` the map of
the reader. The reader's loop is cut where another goroutine can be seen between
(`at`): at the select, while it takes registrations, and while it blocks on a
send. A send ends with `Receive` or, on a closed channel, with the recovered
panic (`SendPanics`). The clock is one bit per call: whether it started a minute
ago (`old`). `Answer` is the engine, which may report a transaction again when it
replays a message. The reader's commits and its error returns without effect on
the map are left out; `ApecsConsumer` has the same offsets in detail.

### `Related`

A player and its characters, as in the rpg example: a character names its player
in a field, a player has the reverse of that field. `store[k]` is the instance
(the number of its version), the copies `rel` and the offset of a key; `db` the
rows. A transaction is the list of its steps with the current index; `Handled`
gives, for a step and an offset, the record after it, its result and the steps
it adds, as `HandleLogicCommand` does, and `Handle` is the whole iteration: the
handler, the insertion of steps, and the next message or the writes at the end
(`WriteSteps`, `UpdateAsync`). `flight` keeps the order of one producer and
partition only, so two ways to one partition race. What `Apecs` has in full
(cache misses, crashes, errors, the partition of VALIDATE_CREATE) is left out, and
so are UPDATE and DELETE.

### `PlatformDef`, `Runner` and `Mgmt`

`PlatformDef` has `NewRtPlatformDef` in two halves: `Completed`, which fills the
definition in place, and `Accepted`, its error returns. `AllProgs` are the keys of
the programs a definition asks for, `UpdateTopics` the creation of what is
missing.

In `Runner` a handle of the map owns one process. `running` is the map, `held` the
handles whose process is alive, `live` counts processes nobody has told to end.
`Maintenance` changes nothing: `exec.Cmd` can be started once.

`Mgmt` composes them. `Publish` and `Deliver` are `PlatformReplaceFromJson`, cut
between the stamp and the delivery, since two operators race there. `AdminFind`,
`AdminFatal` and `AdminRead` are the reader of the platform topic and
`managePlatform`; `AdminSend` is one message of `updateRunner`. The runner's actions
are those of `Runner` with what they mean for its admin. Directives sent while no
runner has asked for the end of the consumers topic are read by nobody, so
`consTopic` holds only what is to be read. `asked`, `missed` and `ended` are
history, for `ProgramsStart`.

## Runs

Bounds: `MaxCrashes` consumer crashes, `MaxFaults` database errors and failed
deliveries together (in `Mgmt`: programs that end or do not start, and failures to
create topics), `MaxMsgs` messages of a partition, `MaxChanges` transactions of
changes, `MaxPublish` definitions, `MaxStarts` starts of the runner. Deadlock is not checked
in any run: when the clients have submitted all they had, the consumers wait for
ever, and that is how the program idles.

| Run | Instance | Shows |
|---|---|---|
| `concurrent` | two keys in two partitions, in memory; a transaction over both and one over the first; one fault | `AppliedInLogOrder`, `NoLostUpdate`, `StorageCatchesUp`, `StoreNotOlderThanDb`, `DbHasNewest`, `ReportedOnce`, `MessagesResumable` |
| `life` | one partition; create with a key chosen by storage, query, read, update, delete, reject, cancel | `TypeOK`, `MessagesResumable`, `ReportedOnce` |
| `crash` | one key, two changes, one crash of any consumer with commits at any time | `VersionedByOwnMessage`, `NothingVanishes`, `RowsOnlyGetNewer` |
| `live` | one partition, one key in memory and one not; fair consumers and deliveries | `EveryTxnReported`, `EveryChangeStored` |
| `consumer_storage` | two programs of a STORAGE partition, three messages, any number of starts, stops, bailouts and crashes | `IInv`, `TypeOK`, `NoMessageSkipped`, `CommittedIsHandled`, and `HandledInOrder`: it implements `Delivery` |
| `response` | two calls in traces of their own, a channel for one registration, two answers to each transaction | `TypeOK`, `AnswerIsOwn`, `NoAnswerPassedBy`, and the liveness `EveryCallReturns`, `ReaderGoesOn`, `NoEntryLeaks` |
| `related` | a player in one partition, its two characters in another, both created, two transactions of changes, one of them over both characters | `TypeOK`, `RelatedCatchesUp`, `RelatedStored` |
| `mgmt` | three definitions (more partitions than the limit; a new generation and a second target; one that is refused), two published, two starts of the runner, one fault | `TypeOK`, `NoOrphan`, `ReadersAgree`, `CompletedIsStable`, `PartitionsThere`, and the liveness `ProgramsStart` |

In `concurrent` the two transactions complete in different consumers, so their
UPDATE_ASYNC of the shared key travel through different producers and arrive in
either order; one database error between them brings the retry in, one failed
delivery the loss. That is the smallest instance in which the offset guard
decides, and dropping the guard breaks `DbHasNewest` in it. `crash` needs two
changes for a replayed storage message to be older than the row. Three messages let
a program skip the middle one. In `response` the second call finds the channel
full (`Cap` is 10 in the code), and a second answer (`MaxAnswers`) comes when the
entry is gone. In `related` two characters are the least for a change of the player
to travel through one of them to the other, and for a transaction to write two rows
of a partition. In `mgmt` two definitions are the least for stamps to arrive in the
wrong order and for a generation to be replaced, two starts for what an earlier
runner left behind to matter.

Four runs refute what the repository says of itself; the quoted lines are under
`findings`.

| Run | Property | What happens |
|---|---|---|
| `lost_update` | `NoLostUpdate` | Two commands miss the cache together. The first is refreshed and runs; the second's REFRESH_INSTANCE, with what storage held before, has a greater PROCESS offset and replaces it. Both are reported complete. The "dead zone" that `docs/notes.org` asks for does not exist. |
| `state_vanishes` | `StatePreserved` | The offset is committed before the delivery of the next step; a crash in between loses the transaction. |
| `restart` | `EndedIsRestarted` | A program that ended is "started" again every second through an `exec.Cmd` that refuses it. The bailout of a storage consumer relies on the restart. |
| `related_stale` | `RelatedCatchesUp` | Characters in partitions of their own. The player's answer to a request is overtaken by a later refresh that comes through the other character, and then replaces it. |

Four more disagreements follow from the same models in other instances and are
kept here as observations, without a run:

- `apecs_txn.go:101`: VALIDATE_UPDATE is built without a key, so a client's UPDATE is
  refused unless the step before it left one, although `apecs_runner.go:404` says that
  "only storage CREATE and process VALIDATE_CREATE can have empty key" (`life` has an
  UPDATE that is refused).
- `apecs.go:421`: a created row is versioned with the random partition of its
  VALIDATE_CREATE; `sp_player.sql:28` raises on the first update from the key's
  partition, and RamDb ignores it when that is lower (`Apecs` with two partitions and
  a Create followed by a Change).
- `ramdb.go:88`: an UPDATE_ASYNC older than a DELETE that arrives after it puts the row
  back (`Apecs` with two partitions, a Change of both keys and a Delete of the first).
- `apecs_runner.go:711`: two secondary targets share one consumer group and resume at
  each other's offset (`ApecsConsumer` with STORAGE_SCND and two targets).

`NothingVanishes` (in `crash`) is the counterpart of `state_vanishes`: what a
producer's queue drops is the only way to lose a transaction; commits and
restarts alone lose none. `concurrent` is the counterpart of `lost_update`:
with the instances in memory no update is lost. `related` is the counterpart of
`related_stale`: with the characters in one partition all that reaches them comes
in the order of the player's changes.

### Fairness

`FairSpec` asks that a consumer whose partition has an unread message reads it
(its loop polls for ever and no branch of the `select` can starve the default
branch, as the others fire on tickers and on rare management messages), and that
the brokers acknowledge what a producer has queued. Crashes and faults are
bounded by 0 in `live`: a program that is down is the runner's to restart, which
`restart` shows it does not.

`Response!FairSpec` asks that the reader's loop goes on once it is in a branch,
that executeTxn returns and that timers fire (weak fairness). Strong fairness is
asked of `Register`, since Go serves blocked senders in turn, and of `ReadMessage`
and `CleanupTick`, since `select` chooses at random among the ready branches and
the two tickers are not ready most of the time. Answers are not assumed to come.

`Mgmt!FairSpec` asks, by weak fairness, that admin's loop goes on while its process
is there (`AdminStep`), that the runner reads the directives (`RunnerStep`) and that
its ticker fires (`Maintain`). Each is a loop of its own goroutine that nothing in
the model can block. Operators, ends of programs, and starts and stops of the runner
are not assumed to happen.

## Proofs

`ApecsConsumerProofs` proves, for any set of targets and any number of messages:

- `TypeCorrect`: `Spec => []TypeOK`;
- `NothingSkipped`, `CommittedWasHandled`: `[]NoMessageSkipped` and
  `[]CommittedIsHandled`;
- `KeepsPromise`: the consumer implements `Delivery`.

The last three assume `OwnGroup`: programs with the same group name are the same
program. `GroupsApart` derives that from the code for STORAGE topics, and for
the others when there is a single target. It cannot be dropped: with two secondary
targets, whose programs share one group, a program may skip messages. The other assumptions are those on the constants, which the
runs evaluate.

`NoMessageSkipped` is not inductive: it says nothing of where a program would
read on. `IInv` adds that reading on leaves no gap from any offset that may be
read next: the brokers' (`GroupInv`), the position and the stored offset of a
running program (`ProgramInv`), and what the place in the loop implies
(`LoopInv`), above all that a committed offset exists before a first message is
handled, which is what the first-message commit is for. One lemma per action
shows that it keeps `IInv`; `OthersKeep` says that a step of one program leaves
the others' part alone, and is where `OwnGroup` is used.

`Inductive` states `[]IInv` itself, under the same hypothesis, since `consumer_storage`
checks it as well.

`ApecsProofs`, `ApecsDeliveryProofs`, `ApecsStoreProofs` and `ApecsMemoryProofs` are about the
engine, for any keys, partitions, requests, cancellations and any bounds on crashes and faults:

- `TypeCorrect`, `AllResumable`, `AllVersioned`: `[]TypeOK`, `[]MessagesResumable`,
  `[]VersionedByOwnMessage`;
- `RowsGetNewer`: the action property `RowsOnlyGetNewer`;
- `RestartsLoseNothing`: `[]NothingVanishes`;
- `ReportedAtMostOnce`: `[]ReportedOnce`;
- `StorageHasNewest`: `DbHasNewest`, where no client asks for a DELETE
  (`~DeletesAsked`);
- `MemoryLeads`: `[]StoreNotOlderThanDb`, where clients neither CREATE nor UPDATE and
  every request names its key (`CommandsOnly`);
- `ReportedIsApplied`: `[]NoLostUpdate`, for instances in memory (`InMemory`: no consumer
  restarts, and the clients' commands are application commands, reads and updates to
  storage of instances that are in the store from the start);
- `StorageEndsUpSame`: `[]StorageCatchesUp`, for instances in memory that storage has too;
- `DoneInLogOrder`: `[]AppliedInLogOrder`, for instances in memory and without cancel
  directives.

The hypotheses are needed. RamDb keeps no tombstone, so a row that was deleted takes
an older write. CREATE and UPDATE write storage first, and memory is behind until
the REFRESH_INSTANCE that follows. Of the constants the theorems assume what
`Apecs` declares: partitions are numbers and every key has one, the requests are
sequences that `ValidTxn` admits, and the nil values are none of the others.

None of these properties is inductive. `Inv` says what a message is on its way: the
steps before the current one are done and have an offset, the others are not, each
offset is that of a PROCESS message of the same transaction (`Versioned`), the
steps whose handler unpacks a payload have one (`MessagesOK`); and it says so of the
producers' queues as of the topics. The lemmas `NextOK`, `StepIsDone`, `InsertTodo`,
`SecondaryGood` and `UpdateAsyncGood` show it of everything that can be made from a
message, one lemma per action concludes with `Effect`, what an iteration does in
terms of what it emits and writes, and the other modules reason from that.

`ApecsDeliveryProofs` follows a transaction by its token: the message that is to be
read, the one in a producer's queue, or the report of its end. `TokenInv` says that a
transaction has one unless a queue dropped a message of it, `UniqueInv` that it has no
two while nobody restarts: a step replaces the token that was read by one other,
and a delivery moves it. `StorageHasNewest` needs `NewestInv`: the row of a key is not
older than any write a storage consumer has passed.

`ApecsStoreProofs` needs to know that a write to the primary target is made from a
command that memory has. `LeadInv` says of every step, on a topic or in a queue, that
writes storage or will be made into one that does, that its offset is *behind*: its
partition is the key's home, the home consumer has passed it, and what the store
holds of the key, if anything, is not older. A record that enters the store later
has the offset of the message that is being read, so what was passed stays behind
(`BehindKept`): this is why a refresh from a stale read, which does lose updates
(`lost_update`), still cannot put memory behind storage as far as offsets go. TLC checked
`LeadInv` on an instance with misses and a DELETE before the proof was written.

`ApecsMemoryProofs` is about what `concurrent` checks, for any number of transactions over
any number of instances and partitions; that run is an instance of `InMemory`. Its three
properties fail without it: a miss or a restart fills the store from storage, which may be
behind (`lost_update`), and a cancelled command is read and not applied. `StoreInv` and
`ShapeInv` say what the hypothesis comes to: every record in memory is older than the
message about its key that is read next, so no guard of the store ever refuses a change;
and all messages are transactions with the steps a client asked for, or single
writes made from them. From these `NextKind` sorts every step of the engine into
few kinds: a message arrives, moves, is lost or is answered, or a consumer *advances*:
a step goes well (`GoesOn`), ends badly (`EndsBadly`) or writes a row (`IsWritten`). The
three results have an invariant each:

- `CountInv`: a transaction has changed an instance at least as often as the steps that
  its message has behind it ask for; one that ends well has all of them behind it;
- `AheadInv` and `CarriedInv`: a row, a write and the result of a step are never newer than
  memory, and have its instance if they are as new (`NotAhead`); and until something
  has failed, the latest change of an instance is in both targets, or in a write that is on
  its way there, or in a done step of a transaction that will end in such a write
  (`Carried`). When nothing is on its way, only the first is left;
- `OrderInv`: the list of the commands that an instance has seen is the ascending
  enumeration of the changes on its topic up to the position of its consumer. A topic only
  grows (`LogGrows`), and a change that is read comes last in both (`ListAdd`).

FlattenSeq of the step lists is defined by recursion. What it computes is shown
by a least counterexample (`Smallest`), as the library's induction theorems are
out of the provers' reach.

`ResponseProofs` proves, for any number of calls and answers and any capacity of
the channel:

- `TypeCorrect`: `Spec => []TypeOK`, by the inductive `TypeInv`, which adds what
  the place in the loop says of the reader's variables (`ReaderInv`) and that
  entries and answers carry the id of their call (`IdsInv`);
- `AnswersAreOwn` and `NoneIsPassedBy`: `[]AnswerIsOwn` and `[]NoAnswerPassedBy`,
  when no two calls share a trace (`OneCallPerTrace`).

The last two rest on `CallsInv`. Neither property is inductive: that an answer
finds its call needs `Registered`, that a call which has registered is in the
channel, in the map or at the end of a send until it returns, and `LifeInv`, that
only a transaction that was produced is answered. The transaction id is the
caller's trace id, so the hypothesis is a real one: a caller that makes two calls
in one trace may be given the wrong answer.

`MgmtProofs` proves, for any definitions and programs and any bounds:

- `Stable`: `[]CompletedIsStable`. The invariant (`TopicInv`) is only that what is on
  the topic was accepted; the work is in the lemmas about `PlatformDef`:
  `InitTopicTwice`, `InitTopicsTwice` and `CompletedTwice` show that completing is
  idempotent, `AcceptedTwice` that it does not make a definition unacceptable;
- `Agreement`: `[]ReadersAgree`, by `AdmInv`: a reader never gets past the end, has no
  current definition to compare with, and so passes on every definition. The proof
  shows what the missing assignment of currRtPlatDef is good for: with it, the step
  `AdminRead` would need stamps in the order of the topic;
- `NoneOrphaned`: `[]NoOrphan`, by `ProcInv`, which adds that only handles in the map
  have processes and that a runner that is not there has none;
- `TypeCorrect`: `[]TypeOK`, by `MgmtInv`, which adds to the above that every topic was
  made for a definition that was published (`TopicsInv`), what admin has left to send
  (`TodoInv`), and that messages and definitions on their way are not more than were
  stamped (`SizeInv`);
- `PartitionsExist`: `PartitionsThere`, where no definition changes the number of
  partitions of a generation (`GenerationsKept`; the definitions of `mgmt` do not).
  `PartsInv` follows the programs from admin's list through the consumers topic to the
  runner's map; `WantedThere` is the creation of topics that comes before. The
  hypothesis is the operator's part: `createMissingTopics` leaves a topic that is there
  as it is.

They assume of the constants what `PlatformDef`, `Runner` and `Mgmt` declare: above all
that generations and partition counts are integers, of any sign.

`RelatedProofs` proves, for any characters, partitions and requests:

- `TypeCorrect`: `[]TypeOK`. The invariant is about the steps: each finds its instance in
  memory when its message is read, a request is only made for a character that is in
  memory or about to be (`Known`), and whatever is added to a list of copies keeps it to
  one of each key;
- `StoredInTheEnd`: `[]RelatedStored`, when the changes of one transaction are all in one
  partition (`SamePartition`).

`RelatedStored` speaks of the end only. What leads to it is `StoredInv`: a message is in
the partition of its current step's key (`HereInv`), so the offsets at which a key is
handled grow; a character is created once, and what its CREATE stores is what its
REFRESH_INSTANCE puts in memory (`NewInv`, `RowsInv`); no row, write or done step is
ahead of memory, and one that is as new has the same (`RowBehind`, `StepBehind`); and the
latest of an instance is in storage, or in a write on its way there, or in the last
step about that key of a transaction that goes on (`Carried`). When nothing is on
its way only the first is left. The hypothesis is needed where a changed instance is
packed with the copies that the last consumer finds in its own store: `Local` says
that a transaction with a change ends in the partition of that change, as the READ that
`RefreshRelatedSteps` adds brings it back. A transaction over two partitions does not, and
stores the first row without its copies. The run `related` is an instance of the
hypothesis: its transaction over two characters stays in their partition.

Model-checked only:

- liveness (`EveryTxnReported`, `EveryChangeStored`, `EveryCallReturns`, `ReaderGoesOn`,
  `NoEntryLeaks`, `ProgramsStart`): fairness and ENABLED are beyond the prover;
- `RelatedCatchesUp`: it holds for characters of one partition only (`related_stale`). An
  invariant for it would have to follow every copy of every instance through all
  that is in flight, in the order in which it arrives.

## Assumptions and what is left out

- One concern with one generation of its topics. The change of a generation is
  not acted on by the consumers of this version.
- The forward direction: nothing sets `Direction_REVERSE`, and `UponError_REVERT`
  is only recorded.
- Brokers keep messages, and keep the order of one producer and partition.
- Clients produce atomically: what a client's process loses before delivery was
  never submitted.
- Errors of `proto.Marshal`, of step-index checks and of creating a message are
  left out: they need data that was not produced by the program itself.
- In the engine's models a restarted consumer is started by somebody; `Mgmt` shows by
  whom, and that it is not the runner.
- `Mgmt`: one APECS concern on one cluster; the runner ends in order and signals its
  programs. A runner that is killed leaves them behind, and so does one that panics:
  when `newRunnableFunc` fails (no pipe can be opened), `updateRunning`
  (`manager.go:47`) logs the error and goes on with a nil handle. Neither is modelled;
  the start that may fail in the model is the one of the handle, after which the
  program is not in the map. What a signalled process still does is left out.
- `Related`: instances in memory, no crash, no UPDATE or DELETE.
- Not modelled: the routine and offline runners, which run everything in one process
  for tests; the pausing of producers and the producer tracker, which nothing uses;
  the configuration manager, which only replaces a map; the packing of payloads.
- Not modelled: the minified Swagger UI bundles under `pkg/portal/static` and
  `examples/rpg/edge/static`. They are third-party JavaScript, served as files; the
  program is written in Go, and nothing in it calls them.
- Not modelled: portal, watch, telemetry, JSON utilities, the code generator,
  the examples and the infrastructure (I/O, display, build time), and the
  offline stream provider, a stand-in for Kafka in tests.

## Plan

Done: the engine and its operators, the consumer's offsets with their abstract
specification, the client's wait for its answer, related concerns, and the way from
a definition to running programs; proofs about all of them. To do, in this order:

1. A proof of `RelatedCatchesUp` for the characters of one partition.
2. UPDATE, DELETE and cache misses in `Related`.
3. The payload encoding against its reference.
