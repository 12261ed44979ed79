---------------------------- MODULE PlatformDef -----------------------------
(***************************************************************************)
(* The definition of a platform as operators: what NewRtPlatformDef fills  *)
(* in and refuses, which consumer programs a definition asks for, and the  *)
(* difference of two definitions.                                          *)
(*                                                                         *)
(* A definition has one concern, of type APECS, on one cluster.  topics is *)
(* a function on the names of the topics it lists; each has a current      *)
(* generation, perhaps a future one, and consumer programs.  targets are   *)
(* the storage targets, in order.  The zero values of the protocol buffers *)
(* are generation and partition count 0.                                   *)
(***************************************************************************)
EXTENDS Integers, Sequences, FiniteSets

CONSTANTS MaxPartition,  \* MAX_PARTITION
          NoFuture       \* a nil Future

\* Concern_Topic: what an operator writes may be out of bounds.
Topic == [gen : Int, parts : Int]

ASSUME MaxPartitionAssumption == MaxPartition \in Nat \ {0}
ASSUME NoFutureAssumption == NoFuture \notin Topic

IsTopics(ts) == ts.cur \in Topic /\ ts.fut \in Topic \cup {NoFuture}

IsDef(def) ==
    /\ def = [topics |-> def.topics, targets |-> def.targets]
    /\ def.topics = [n \in DOMAIN def.topics |-> def.topics[n]]
    /\ \A n \in DOMAIN def.topics : IsTopics(def.topics[n])

RequiredTopics ==
    {"admin", "process", "error", "complete", "storage", "storage-scnd"}

SinglePartitionTopics == {"admin", "error", "complete"}

\* The defaults without the upper limit.
InitTopicUncapped(t) ==
    [gen |-> IF t.gen <= 0 THEN 1 ELSE t.gen,
     parts |-> IF t.parts <= 0 THEN 1 ELSE t.parts]

InitTopic(t) ==
    [gen |-> IF t.gen <= 0 THEN 1 ELSE t.gen,
     parts |-> IF t.parts <= 0 THEN 1
               ELSE IF t.parts > MaxPartition THEN MaxPartition ELSE t.parts]

\* The consumer programs of a topic: one for each storage target that is fed
\* from it, and one that feeds none for the PROCESS topic.
ConsumerPrograms(name, targets) ==
    LET fed(primary) ==
            SelectSeq(targets, LAMBDA tgt : tgt.primary = primary)
    IN CASE name = "process"      -> <<"process">>
         [] name = "storage"      -> [i \in DOMAIN fed(TRUE) |-> fed(TRUE)[i].name]
         [] name = "storage-scnd" -> [i \in DOMAIN fed(FALSE) |-> fed(FALSE)[i].name]
         [] OTHER                 -> <<>>

\* The programs are added to the ones that are there.
InitTopicsAdds(name, ts, targets) ==
    [cur |-> InitTopic(ts.cur),
     fut |-> IF ts.fut = NoFuture THEN NoFuture ELSE InitTopic(ts.fut),
     progs |-> ts.progs \o ConsumerPrograms(name, targets)]

InitTopics(name, ts, targets) ==
    [cur |-> InitTopic(ts.cur),
     fut |-> IF ts.fut = NoFuture THEN NoFuture ELSE InitTopic(ts.fut),
     progs |-> ConsumerPrograms(name, targets)]

\* What a required topic that is not listed starts from.
EmptyTopics == [cur |-> [gen |-> 0, parts |-> 0], fut |-> NoFuture, progs |-> <<>>]

ValidTopics(name, ts) ==
    /\ name \in SinglePartitionTopics =>
          ts.cur.parts = 1 /\ (ts.fut # NoFuture => ts.fut.parts = 1)
    /\ ts.fut # NoFuture => ts.cur.gen = ts.fut.gen + 1

ValidTargets(targets) ==
    /\ Cardinality({i \in DOMAIN targets : targets[i].primary}) = 1
    /\ \A i, j \in DOMAIN targets : i # j => targets[i].name # targets[j].name

\* NewRtPlatformDef completes the definition in place, so that what is
\* published afterwards is the completed one.
Completed(def) ==
    [def EXCEPT !.topics = [n \in DOMAIN def.topics \cup RequiredTopics |->
        InitTopics(n, IF n \in DOMAIN def.topics THEN def.topics[n] ELSE EmptyTopics,
                   def.targets)]]

\* The definitions that NewRtPlatformDef returns without an error.
Accepted(def) ==
    /\ ValidTargets(def.targets)
    /\ DOMAIN def.topics \subseteq RequiredTopics
    /\ LET completed == Completed(def).topics
       IN \A n \in RequiredTopics : ValidTopics(n, completed[n])

-----------------------------------------------------------------------------
\* The partitions counted from 1.
PartitionsFromOne(ts) == 1..ts.cur.parts

Partitions(ts) == 0..(ts.cur.parts - 1)

\* ProgKey: the arguments of a program name its topic with the generation, the
\* partition and the storage target.
ProgKey(name, gen, part, prog) ==
    [topic |-> name, gen |-> gen, part |-> part, prog |-> prog]

\* expandProgs and getAllProgs: a map, so a set of keys.
AllProgs(def) ==
    UNION {{ProgKey(n, def.topics[n].cur.gen, part, def.topics[n].progs[i]) :
               part \in Partitions(def.topics[n]),
               i \in DOMAIN def.topics[n].progs} : n \in DOMAIN def.topics}

\* The two sides exchanged.
DiffSwapped(progs, oldProgs) ==
    [stop |-> progs \ oldProgs, start |-> oldProgs \ progs]

\* Diff: the programs to stop and to start, given the ones of the old
\* definition, none when there is no old definition.
Diff(progs, oldProgs) ==
    [stop |-> oldProgs \ progs, start |-> progs \ oldProgs]

\* createMissingTopics: a topic that exists is left as it is, whatever the
\* number of partitions it has.
UpdateTopics(existing, def) ==
    LET wanted == UNION {{<<n, t.gen>> : t \in {def.topics[n].cur, def.topics[n].fut} \ {NoFuture}}
                            : n \in DOMAIN def.topics}
        parts(n, g) == IF def.topics[n].cur.gen = g
                       THEN def.topics[n].cur.parts ELSE def.topics[n].fut.parts
    IN [t \in DOMAIN existing \cup wanted |->
           IF t \in DOMAIN existing THEN existing[t] ELSE parts(t[1], t[2])]
=============================================================================
