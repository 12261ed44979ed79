--------------------------- MODULE ApecsConsumer ----------------------------
(***************************************************************************)
(* The offsets of consumeApecsTopic: which messages of a topic partition a *)
(* consumer program handles over its starts, stops, bailouts and crashes.  *)
(*                                                                         *)
(* A program assigns itself the partition at the offset that the brokers   *)
(* keep for its consumer group.  It stores in memory the offset after each *)
(* message it has handled, and a ticker commits that to the brokers.       *)
(***************************************************************************)
EXTENDS Naturals

CONSTANTS
    System,      \* the system of the topic
    Targets,     \* the storage targets that have a consumer program each
    None,        \* no offset
    MaxMsgs      \* bound on the messages of the partition

ASSUME SystemAssumption == System \in {"PROCESS", "STORAGE", "STORAGE_SCND"}
ASSUME NoneAssumption == None \notin Nat
ASSUME MaxMsgsAssumption == MaxMsgs \in Nat

VARIABLES
    produced,    \* number of messages in the partition
    groupOff,    \* groupOff[g]: offset the brokers keep for the group g, or None
    pc,          \* pc[m]: where the program of the target m is in its loop
    next,        \* next[m]: offset of the message it reads next or is reading
    first,       \* first[m]: firstMessage
    stored,      \* stored[m]: argument of the last StoreOffsets, or None
    shouldCommit,
    handled      \* handled[m]: offsets of the messages whose step m has done

vars == <<produced, groupOff, pc, next, first, stored, shouldCommit, handled>>

\* One group for the topic.
GroupNameShared(m) == <<System>>

\* The group of the program that feeds the target: only the groups of the
\* STORAGE topics have the target in their name.
GroupName(m) == IF System = "STORAGE" THEN <<System, m>> ELSE <<System>>
Groups == {GroupName(m) : m \in Targets}

SetGroup(m, off) == groupOff' = [groupOff EXCEPT ![GroupName(m)] = off]

Init ==
    /\ produced = 0
    /\ groupOff = [g \in Groups |-> None]
    /\ pc = [m \in Targets |-> "down"]
    /\ next = [m \in Targets |-> 0]
    /\ first = [m \in Targets |-> TRUE]
    /\ stored = [m \in Targets |-> None]
    /\ shouldCommit = [m \in Targets |-> FALSE]
    /\ handled = [m \in Targets |-> {}]

\* Somebody produces a message to the partition.
Produce ==
    /\ produced < MaxMsgs
    /\ produced' = produced + 1
    /\ UNCHANGED <<groupOff, pc, next, first, stored, shouldCommit, handled>>

\* The end of the partition is not looked up.
StartUnresolved(m) ==
    /\ pc[m] = "down"
    /\ pc' = [pc EXCEPT ![m] = "poll"]
    /\ next' = [next EXCEPT ![m] = groupOff[GroupName(m)]]
    /\ first' = [first EXCEPT ![m] = TRUE]
    /\ stored' = [stored EXCEPT ![m] = None]
    /\ shouldCommit' = [shouldCommit EXCEPT ![m] = FALSE]
    /\ UNCHANGED <<produced, groupOff, handled>>

\* Assign with OffsetStored: without a committed offset librdkafka falls back
\* to its default, the end of the partition.
Start(m) ==
    /\ pc[m] = "down"
    /\ pc' = [pc EXCEPT ![m] = "poll"]
    /\ next' = [next EXCEPT ![m] = IF groupOff[GroupName(m)] = None THEN produced
                                   ELSE groupOff[GroupName(m)]]
    /\ first' = [first EXCEPT ![m] = TRUE]
    /\ stored' = [stored EXCEPT ![m] = None]
    /\ shouldCommit' = [shouldCommit EXCEPT ![m] = FALSE]
    /\ UNCHANGED <<produced, groupOff, handled>>

\* Without the initial commit.
ReadUncommitted(m) ==
    /\ pc[m] = "poll"
    /\ next[m] < produced
    /\ pc' = [pc EXCEPT ![m] = "handle"]
    /\ first' = [first EXCEPT ![m] = FALSE]
    /\ UNCHANGED <<produced, groupOff, next, stored, shouldCommit, handled>>

\* ReadMessage; the offset of the first message read is committed at once.
Read(m) ==
    /\ pc[m] = "poll"
    /\ next[m] < produced
    /\ pc' = [pc EXCEPT ![m] = "handle"]
    /\ first' = [first EXCEPT ![m] = FALSE]
    /\ IF first[m] THEN SetGroup(m, next[m]) ELSE UNCHANGED groupOff
    /\ UNCHANGED <<produced, next, stored, shouldCommit, handled>>

\* The transaction is cancelled or advanced.
Handle(m) ==
    /\ pc[m] = "handle"
    /\ pc' = [pc EXCEPT ![m] = "store"]
    /\ handled' = [handled EXCEPT ![m] = @ \cup {next[m]}]
    /\ UNCHANGED <<produced, groupOff, next, first, stored, shouldCommit>>

\* The bailout commits the offset after the message.
BailoutPast(m) ==
    /\ pc[m] = "handle"
    /\ System # "PROCESS"
    /\ pc' = [pc EXCEPT ![m] = "down"]
    /\ SetGroup(m, next[m] + 1)
    /\ UNCHANGED <<produced, next, first, stored, shouldCommit, handled>>

\* A storage step fails that must be retried: the offset of this message is
\* committed and the program exits; the deferred function commits what was
\* stored, if that is new.  An error of either commit is only logged.
Bailout(m) ==
    /\ pc[m] = "handle"
    /\ System # "PROCESS"
    /\ pc' = [pc EXCEPT ![m] = "down"]
    /\ \/ SetGroup(m, next[m])
       \/ shouldCommit[m] /\ SetGroup(m, stored[m])
       \/ UNCHANGED groupOff
    /\ UNCHANGED <<produced, next, first, stored, shouldCommit, handled>>

\* The offset stored is one too high.
StoreOffsetsPast(m) ==
    /\ pc[m] = "store"
    /\ pc' = [pc EXCEPT ![m] = "poll"]
    /\ next' = [next EXCEPT ![m] = @ + 1]
    /\ stored' = [stored EXCEPT ![m] = next[m] + 2]
    /\ shouldCommit' = [shouldCommit EXCEPT ![m] = TRUE]
    /\ UNCHANGED <<produced, groupOff, first, handled>>

StoreOffsets(m) ==
    /\ pc[m] = "store"
    /\ pc' = [pc EXCEPT ![m] = "poll"]
    /\ next' = [next EXCEPT ![m] = @ + 1]
    /\ stored' = [stored EXCEPT ![m] = next[m] + 1]
    /\ shouldCommit' = [shouldCommit EXCEPT ![m] = TRUE]
    /\ UNCHANGED <<produced, groupOff, first, handled>>

\* The commit ticker.
Commit(m) ==
    /\ pc[m] = "poll"
    /\ shouldCommit[m]
    /\ SetGroup(m, stored[m])
    /\ shouldCommit' = [shouldCommit EXCEPT ![m] = FALSE]
    /\ UNCHANGED <<produced, pc, next, first, stored, handled>>

\* ctx.Done, with the deferred commit, which may fail as well.
Stop(m) ==
    /\ pc[m] = "poll"
    /\ pc' = [pc EXCEPT ![m] = "down"]
    /\ \/ shouldCommit[m] /\ SetGroup(m, stored[m])
       \/ UNCHANGED groupOff
    /\ UNCHANGED <<produced, next, first, stored, shouldCommit, handled>>

\* The process ends where it is: log.Fatal, a signal, the machine.
Crash(m) ==
    /\ pc[m] # "down"
    /\ pc' = [pc EXCEPT ![m] = "down"]
    /\ UNCHANGED <<produced, groupOff, next, first, stored, shouldCommit, handled>>

Next ==
    \/ Produce
    \/ \E m \in Targets :
          \/ Start(m) \/ Read(m) \/ Handle(m) \/ Bailout(m) \/ StoreOffsets(m)
          \/ Commit(m) \/ Stop(m) \/ Crash(m)

Spec == Init /\ [][Next]_vars

-----------------------------------------------------------------------------
(* Properties *)

TypeOK ==
    /\ produced \in 0..MaxMsgs
    /\ groupOff \in [Groups -> Nat \cup {None}]
    /\ pc \in [Targets -> {"down", "poll", "handle", "store"}]
    /\ next \in [Targets -> Nat]
    /\ first \in [Targets -> BOOLEAN]
    /\ stored \in [Targets -> Nat \cup {None}]
    /\ shouldCommit \in [Targets -> BOOLEAN]
    /\ handled \in [Targets -> SUBSET Nat]

\* The consumers of the topic, as what they promise to the storage targets.
Promise == INSTANCE Delivery WITH Members <- Targets

\* No message is left out between two that a target was given: a restart after
\* a crash, a stop or a bailout resumes before the first unhandled message.
NoMessageSkipped == Promise!NoGap

\* The same as a step property: a program only ever handles its first message,
\* one it has handled before, or the one after it.
HandledInOrder == Promise!Spec

\* The commitment behind it: below the offset the brokers keep for a target's
\* group, the target has handled everything since its first message.
CommittedIsHandled ==
    \A m \in Targets :
        LET off == groupOff[GroupName(m)]
        IN off # None => \A i \in handled[m] : \A o \in i..(off - 1) : o \in handled[m]

-----------------------------------------------------------------------------
(* The inductive invariant of the proofs *)

\* Reading on at the offset n leaves no gap in what m has handled.
Reaches(m, n) ==
    handled[m] # {} =>
        /\ \E i \in handled[m] : i <= n
        /\ \A i \in handled[m] : \A o \in i..(n - 1) : o \in handled[m]

\* The offset the brokers keep: there is one as soon as a message is handled.
GroupInv(m) ==
    LET off == groupOff[GroupName(m)]
    IN /\ off = None => handled[m] = {}
       /\ off # None => Reaches(m, off)

\* A program that runs: what it reads next and what it would commit.
ProgramInv(m) ==
    pc[m] # "down" =>
        /\ Reaches(m, next[m])
        /\ handled[m] = {} => stored[m] = None
        /\ stored[m] # None => Reaches(m, stored[m])
        /\ shouldCommit[m] => stored[m] # None

\* Where it is in the loop.
LoopInv(m) ==
    /\ pc[m] = "poll" /\ ~first[m] => handled[m] # {}
    /\ pc[m] \in {"handle", "store"} =>
           /\ next[m] < produced
           /\ groupOff[GroupName(m)] # None
    /\ pc[m] = "handle" /\ handled[m] = {} => groupOff[GroupName(m)] = next[m]
    /\ pc[m] = "store" => next[m] \in handled[m]

IInv ==
    /\ TypeOK
    /\ \A m \in Targets : GroupInv(m) /\ ProgramInv(m) /\ LoopInv(m)
    /\ NoMessageSkipped
=============================================================================
