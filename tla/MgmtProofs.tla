----------------------------- MODULE MgmtProofs -----------------------------
(***************************************************************************)
(* Theorems about Mgmt, for any definitions, programs and bounds: types,   *)
(* the runner leaves no process behind, a published definition is left as  *)
(* it is by its readers, the readers agree, and programs are started on    *)
(* partitions that exist.                                                  *)
(***************************************************************************)
EXTENDS Mgmt, FiniteSetTheorems, SequenceTheorems, TLAPS

USE DEF Topic

-----------------------------------------------------------------------------
(* Completing a definition twice. *)

\* The defaults and the limits of initTopic are within its bounds.
LEMMA InitTopicTwice ==
    ASSUME NEW t \in Topic
    PROVE  InitTopic(t) \in Topic /\ InitTopic(InitTopic(t)) = InitTopic(t)
BY MaxPartitionAssumption DEF InitTopic

\* initTopics replaces the consumer programs by ones that do not depend on those
\* that were there.
LEMMA InitTopicsTwice ==
    ASSUME NEW name, NEW targets, NEW ts, IsTopics(ts)
    PROVE  LET once == InitTopics(name, ts, targets)
           IN IsTopics(once) /\ InitTopics(name, once, targets) = once
<1> DEFINE once == InitTopics(name, ts, targets)
<1>1. once.cur \in Topic /\ InitTopic(once.cur) = once.cur
  BY InitTopicTwice DEF InitTopics, IsTopics
<1>2. \/ once.fut = NoFuture
      \/ once.fut # NoFuture /\ once.fut \in Topic /\ InitTopic(once.fut) = once.fut
  <2>1. CASE ts.fut = NoFuture
    BY <2>1 DEF InitTopics
  <2>2. CASE ts.fut # NoFuture
    <3>1. ts.fut \in Topic
      BY <2>2 DEF IsTopics
    <3>2. once.fut = InitTopic(ts.fut)
      BY <2>2 DEF InitTopics
    <3> QED
      BY <3>1, <3>2, InitTopicTwice, NoFutureAssumption
  <2> QED
    BY <2>1, <2>2
<1>3. once.progs = ConsumerPrograms(name, targets)
  BY DEF InitTopics
<1>4. once = [cur |-> once.cur, fut |-> once.fut, progs |-> once.progs]
  BY DEF InitTopics
<1>5. InitTopics(name, once, targets)
        = [cur |-> InitTopic(once.cur),
           fut |-> IF once.fut = NoFuture THEN NoFuture ELSE InitTopic(once.fut),
           progs |-> ConsumerPrograms(name, targets)]
  BY DEF InitTopics
<1> HIDE DEF once
<1>6. InitTopics(name, once, targets) = once
  BY <1>1, <1>2, <1>3, <1>4, <1>5
<1>7. IsTopics(once)
  BY <1>1, <1>2 DEF IsTopics
<1> QED
  BY <1>6, <1>7 DEF once

\* What Completed makes of a definition, field by field.
LEMMA CompletedFields ==
    ASSUME NEW def, IsDef(def)
    PROVE  /\ Completed(def) = [topics |-> Completed(def).topics, targets |-> def.targets]
           /\ Completed(def).targets = def.targets
           /\ Completed(def).topics =
                [n \in DOMAIN def.topics \cup RequiredTopics |->
                   InitTopics(n, IF n \in DOMAIN def.topics THEN def.topics[n] ELSE EmptyTopics,
                              def.targets)]
BY DEF Completed, IsDef

\* NewRtPlatformDef leaves a definition alone that it has completed before.
LEMMA CompletedTwice ==
    ASSUME NEW def, IsDef(def)
    PROVE  IsDef(Completed(def)) /\ Completed(Completed(def)) = Completed(def)
<1> DEFINE names == DOMAIN def.topics \cup RequiredTopics
           from(n) == IF n \in DOMAIN def.topics THEN def.topics[n] ELSE EmptyTopics
           once == Completed(def)
<1>1. \A n \in names : IsTopics(from(n))
  BY DEF IsDef, EmptyTopics, IsTopics
<1>2. /\ once = [topics |-> once.topics, targets |-> def.targets]
      /\ once.targets = def.targets
      /\ once.topics = [n \in names |-> InitTopics(n, from(n), def.targets)]
  BY CompletedFields
<1>3. \A n \in names : /\ IsTopics(once.topics[n])
                       /\ InitTopics(n, once.topics[n], def.targets) = once.topics[n]
  <2> TAKE n \in names
  <2>1. once.topics[n] = InitTopics(n, from(n), def.targets)
    BY <1>2
  <2>2. IsTopics(from(n))
    BY <1>1
  <2> HIDE DEF from, once
  <2> QED
    BY <2>1, <2>2, InitTopicsTwice
<1> HIDE DEF once, from
<1>4. DOMAIN once.topics = names
  BY <1>2
<1>5. IsDef(once)
  <2>1. once.topics = [n \in DOMAIN once.topics |-> once.topics[n]]
    BY <1>2
  <2> QED
    BY <1>2, <1>3, <1>4, <2>1 DEF IsDef
<1>6. Completed(once).topics = once.topics
  <2>1. Completed(once).topics =
          [n \in names |->
             InitTopics(n, IF n \in names THEN once.topics[n] ELSE EmptyTopics, def.targets)]
    <3>1. Completed(once).topics =
            [n \in DOMAIN once.topics \cup RequiredTopics |->
               InitTopics(n, IF n \in DOMAIN once.topics THEN once.topics[n] ELSE EmptyTopics,
                          once.targets)]
      BY <1>5, CompletedFields
    <3>2. DOMAIN once.topics \cup RequiredTopics = names
      BY <1>4
    <3> HIDE DEF names
    <3> QED
      BY <1>2, <1>4, <3>1, <3>2, Zenon
  <2>2. \A n \in names :
          InitTopics(n, IF n \in names THEN once.topics[n] ELSE EmptyTopics, def.targets)
            = once.topics[n]
    BY <1>3
  <2> QED
    BY <1>2, <2>1, <2>2
<1>7. Completed(once) = once
  BY <1>2, <1>5, <1>6, CompletedFields
<1> QED
  BY <1>5, <1>7 DEF once

\* A definition that was accepted is accepted again after it was completed.
LEMMA AcceptedTwice ==
    ASSUME NEW def, IsDef(def), Accepted(def)
    PROVE  Accepted(Completed(def))
<1>1. Completed(def).targets = def.targets
  BY CompletedFields
<1>2. DOMAIN Completed(def).topics = DOMAIN def.topics \cup RequiredTopics
  BY CompletedFields
<1>3. Completed(Completed(def)) = Completed(def)
  BY CompletedTwice
<1> QED
  BY <1>1, <1>2, <1>3 DEF Accepted

LEMMA PublishableIsStable ==
    ASSUME NEW i \in Publishable
    PROVE  i \in Readable /\ AsRead[i] = Published[i]
<1>1. i \in DOMAIN RawDefs /\ Accepted(RawDefs[i]) /\ IsDef(RawDefs[i])
  BY RawDefsAssumption DEF Publishable
<1>2. Published[i] = Completed(RawDefs[i])
  BY <1>1 DEF Published
<1>3. AsRead[i] = Completed(Published[i])
  BY <1>1 DEF AsRead
<1> QED
  BY <1>1, <1>2, <1>3, CompletedTwice, AcceptedTwice DEF Readable

-----------------------------------------------------------------------------
(* The platform topic and its readers. *)

\* What is on its way and on the topic was accepted.
TopicInv ==
    /\ platTopic \in Seq(Defs)
    /\ pending \subseteq Defs
    /\ clock \in 0..MaxPublish

LEMMA TopicStep == TopicInv /\ [Next]_vars => TopicInv'
<1> SUFFICES ASSUME TopicInv, [Next]_vars PROVE TopicInv'
  OBVIOUS
<1> USE DEF TopicInv
<1>1. ASSUME NEW i \in DOMAIN RawDefs, Publish(i) PROVE TopicInv'
  <2>1. [id |-> i, stamp |-> clock + 1] \in Defs
    BY <1>1, MaxPublishAssumption DEF Publish, Defs
  <2>2. clock + 1 \in 0..MaxPublish
    BY <1>1, MaxPublishAssumption DEF Publish
  <2> QED
    BY <1>1, <2>1, <2>2 DEF Publish
<1>2. ASSUME NEW d \in pending, Deliver(d) PROVE TopicInv'
  BY <1>2 DEF Deliver
<1>3. ASSUME UNCHANGED <<platTopic, pending, clock>> PROVE TopicInv'
  BY <1>3
<1>4. CASE AdminFind \/ AdminFatal \/ \E created \in BOOLEAN : AdminRead(created)
  BY <1>3, <1>4 DEF AdminFind, AdminFatal, AdminRead
<1>5. CASE \E p \in Programs : AdminSend(p) \/ End(p)
  BY <1>3, <1>5 DEF AdminSend, End
<1>6. CASE (\E started \in SUBSET Base : Start(started)) \/ (\E ok \in BOOLEAN : Handle(ok))
  BY <1>3, <1>6 DEF Start, Handle
<1>7. CASE Query \/ Maintain \/ Stop
  BY <1>3, <1>7 DEF Query, Maintain, Stop, mgmtVars
<1>8. CASE UNCHANGED vars
  BY <1>3, <1>8 DEF vars, mgmtVars
<1> QED
  BY <1>1, <1>2, <1>4, <1>5, <1>6, <1>7, <1>8 DEF Next

LEMMA TopicInvariant == Spec => []TopicInv
<1>1. Init => TopicInv
  BY MaxPublishAssumption DEF Init, TopicInv
<1> QED
  BY <1>1, TopicStep, PTL DEF Spec

\* However a definition was written, once it was published every reader accepts
\* it and completes it to what it already is (NewRtPlatformDef, initTopics).
THEOREM Stable == Spec => []CompletedIsStable
<1>1. TopicInv => CompletedIsStable
  <2> SUFFICES ASSUME TopicInv, NEW k \in DOMAIN platTopic
               PROVE  platTopic[k].id \in Readable
                        /\ AsRead[platTopic[k].id] = Published[platTopic[k].id]
    BY Zenon DEF CompletedIsStable
  <2>1. platTopic[k] \in Defs
    BY DEF TopicInv
  <2>2. platTopic[k].id \in Publishable
    BY <2>1 DEF Defs
  <2> QED
    BY <2>2, PublishableIsStable
<1> QED
  BY <1>1, TopicInvariant, PTL

\* Admin's reader is within the topic or waits at its end, has no current
\* definition, and at the end holds the last one.
AdmInv ==
    /\ adm = [pos |-> adm.pos, curr |-> adm.curr, def |-> adm.def, todo |-> adm.todo]
    /\ adm.curr = NoDef
    /\ adm.pos \in 0..(Len(platTopic) + 1)
    /\ ReadersAgree

LEMMA AdmStep == TopicInv /\ AdmInv /\ [Next]_vars => AdmInv'
<1> SUFFICES ASSUME TopicInv, AdmInv, [Next]_vars PROVE AdmInv'
  OBVIOUS
<1>0. platTopic \in Seq(Defs) /\ Len(platTopic) \in Nat
  BY DEF TopicInv
<1>1. ASSUME UNCHANGED <<platTopic, adm>> PROVE AdmInv'
  BY <1>1 DEF AdmInv, ReadersAgree, LastMatch
<1>2. ASSUME NEW d \in pending, Deliver(d) PROVE AdmInv'
  <2>1. Len(platTopic') = Len(platTopic) + 1
    BY <1>0, <1>2 DEF Deliver, TopicInv
  <2>2. adm' = adm
    BY <1>2 DEF Deliver
  <2>3. adm.pos # Len(platTopic') + 1
    BY <1>0, <2>1 DEF AdmInv
  <2> QED
    BY <1>0, <2>1, <2>2, <2>3 DEF AdmInv, ReadersAgree
<1>3. CASE AdminFind
  <2>1. /\ adm' = [adm EXCEPT !.pos = LastMatch]
        /\ platTopic' = platTopic
    BY <1>3 DEF AdminFind
  <2>2. /\ LastMatch \in 0..(Len(platTopic) + 1)
        /\ platTopic # <<>> => LastMatch # Len(platTopic) + 1
    BY <1>0 DEF LastMatch
  <2>3. adm' = [pos |-> LastMatch, curr |-> NoDef, def |-> adm.def, todo |-> adm.todo]
    BY <2>1 DEF AdmInv
  <2> QED
    BY <2>1, <2>2, <2>3 DEF AdmInv, ReadersAgree
<1>4. ASSUME NEW created \in BOOLEAN, AdminRead(created) PROVE AdmInv'
  <2> DEFINE d == platTopic[adm.pos]
  <2>1. adm.pos \in 1..Len(platTopic) /\ platTopic' = platTopic
    BY <1>4 DEF AdminRead
  <2>2. d \in Defs
    BY <1>0, <2>1
  <2>3. Passes(adm.curr, d)
    BY <2>2, PublishableIsStable DEF AdmInv, Passes, Defs
  <2>4. ReadNext(adm) = [pos |-> adm.pos + 1, curr |-> NoDef, def |-> d, todo |-> adm.todo]
    BY <2>3 DEF ReadNext, CurrAfter, AdmInv
  <2>5. adm' = [ReadNext(adm) EXCEPT !.todo =
                  Diff(ProgsOf(ReadNext(adm).def), ProgsOf(adm.curr))]
    BY <1>4, <2>3 DEF AdminRead
  <2> DEFINE todo == Diff(ProgsOf(ReadNext(adm).def), ProgsOf(adm.curr))
  <2> HIDE DEF d, todo
  <2>6. adm' = [pos |-> adm.pos + 1, curr |-> NoDef, def |-> d, todo |-> todo]
    BY <2>4, <2>5 DEF todo
  <2>7. adm.pos + 1 = Len(platTopic) + 1 => d = platTopic[LastMatch]
    BY <1>0, <2>1 DEF d, LastMatch
  <2> QED
    BY <1>0, <2>1, <2>6, <2>7 DEF AdmInv, ReadersAgree, LastMatch
<1>5. ASSUME NEW p \in Programs, AdminSend(p) PROVE AdmInv'
  <2>1. PICK todo : adm' = [adm EXCEPT !.todo = todo]
    <3>1. CASE adm.todo.stop # {}
      BY <1>5, <3>1 DEF AdminSend
    <3>2. CASE adm.todo.stop = {}
      BY <1>5, <3>2 DEF AdminSend
    <3> QED
      BY <3>1, <3>2
  <2>2. platTopic' = platTopic
    BY <1>5 DEF AdminSend
  <2>3. adm' = [pos |-> adm.pos, curr |-> NoDef, def |-> adm.def, todo |-> todo]
    BY <2>1 DEF AdmInv
  <2> QED
    BY <2>2, <2>3 DEF AdmInv, ReadersAgree, LastMatch
<1>6. ASSUME NEW started \in SUBSET Base, Start(started) PROVE AdmInv'
  BY <1>0, <1>6 DEF Start, AdmStart, AdmInv, ReadersAgree
<1>7. CASE \E i \in DOMAIN RawDefs : Publish(i)
  BY <1>1, <1>7 DEF Publish
<1>8. CASE AdminFatal \/ (\E p \in Programs : End(p)) \/ (\E ok \in BOOLEAN : Handle(ok))
  BY <1>1, <1>8 DEF AdminFatal, End, Handle
<1>9. CASE Query \/ Maintain \/ Stop \/ UNCHANGED vars
  BY <1>1, <1>9 DEF Query, Maintain, Stop, vars, mgmtVars
<1> QED
  BY <1>2, <1>3, <1>4, <1>5, <1>6, <1>7, <1>8, <1>9 DEF Next

\* A reader that has been there from the start and one that starts now hold the
\* same definition once they have read what there is, whatever the order in
\* which two operators' definitions arrive (ConsumePlatformTopic).
THEOREM Agreement == Spec => []ReadersAgree
<1>1. Init => AdmInv
  BY DEF Init, AdmInv, AdmStart, ReadersAgree
<1>2. AdmInv => ReadersAgree
  BY DEF AdmInv
<1> QED
  BY <1>1, <1>2, AdmStep, TopicInvariant, PTL DEF Spec

-----------------------------------------------------------------------------
(* The runner's processes. *)

\* NoOrphan, with what makes it inductive: only what is in the map is held, and
\* a runner that is not there holds nothing.
ProcInv ==
    /\ live \in [Programs -> Int]
    /\ held \subseteq running
    /\ ~up => running = {}
    /\ NoOrphan

LEMMA ExitStep ==
    ASSUME ProcInv, NEW p \in Programs, Exit(p) PROVE ProcInv'
<1>1. /\ p \in held
      /\ held' = held \ {p}
      /\ live' = [live EXCEPT ![p] = @ - 1]
      /\ UNCHANGED <<up, running>>
  BY DEF Exit
<1>2. live' \in [Programs -> Int]
  BY <1>1 DEF ProcInv
<1>3. \A q \in Programs : live'[q] = IF q = p THEN live[q] - 1 ELSE live[q]
  BY <1>1 DEF ProcInv
<1>4. NoOrphan'
  BY <1>1, <1>3 DEF ProcInv, NoOrphan
<1> QED
  BY <1>1, <1>2, <1>4 DEF ProcInv

LEMMA DirectiveStep ==
    ASSUME ProcInv, NEW ok, HandleDirective(ok) PROVE ProcInv'
<1> DEFINE d == Head(consTopic)
<1>1. up /\ up' /\ UpdateRunning(d, ok)
  BY DEF HandleDirective
<1> HIDE DEF d
<1>2. CASE d.dir = "START" /\ ~AlreadyRunning(d.prog) /\ ok
  <2>1. /\ running' = running \cup {d.prog}
        /\ held' = held \cup {d.prog}
        /\ live' = [live EXCEPT ![d.prog] = @ + 1]
        /\ d.prog \notin held
    BY <1>1, <1>2 DEF UpdateRunning, AlreadyRunning, ProcInv
  <2>2. live' = [q \in Programs |-> IF q = d.prog THEN live[q] + 1 ELSE live[q]]
    BY <2>1 DEF ProcInv
  <2>3. live' \in [Programs -> Int]
    BY <2>2 DEF ProcInv
  <2>4. NoOrphan'
    BY <2>1, <2>2 DEF ProcInv, NoOrphan
  <2> QED
    BY <1>1, <2>1, <2>3, <2>4 DEF ProcInv
<1>3. CASE d.dir = "STOP" /\ d.prog \in running
  <2>1. /\ running' = running \ {d.prog}
        /\ held' = held \ {d.prog}
        /\ live' = Killed({d.prog})
    BY <1>1, <1>3 DEF UpdateRunning
  <2> QED
    BY <1>1, <2>1 DEF ProcInv, NoOrphan, Killed
<1>4. CASE ~(d.dir = "START" /\ ~AlreadyRunning(d.prog) /\ ok)
           /\ ~(d.dir = "STOP" /\ d.prog \in running)
  <2>1. UNCHANGED <<running, held, live>>
    BY <1>1, <1>4 DEF UpdateRunning
  <2> QED
    BY <1>1, <2>1 DEF ProcInv, NoOrphan
<1> QED
  BY <1>2, <1>3, <1>4

LEMMA ProcStep == ProcInv /\ [Next]_vars => ProcInv'
<1> SUFFICES ASSUME ProcInv, [Next]_vars PROVE ProcInv'
  OBVIOUS
<1>1. ASSUME UNCHANGED <<up, running, held, live>> PROVE ProcInv'
  BY <1>1 DEF ProcInv, NoOrphan
<1>2. ASSUME NEW started \in SUBSET Base, Start(started) PROVE ProcInv'
  <2>1. held = {} /\ \A p \in Programs : live[p] = 0
    BY <1>2 DEF Start, RunnerStart, ProcInv, NoOrphan
  <2> QED
    BY <1>2, <2>1 DEF Start, RunnerStart, ProcInv, NoOrphan
<1>3. CASE Stop
  BY <1>3 DEF Stop, RunnerStop, Killed, ProcInv, NoOrphan
<1>4. ASSUME NEW ok \in BOOLEAN, Handle(ok) PROVE ProcInv'
  BY <1>4, DirectiveStep DEF Handle
<1>5. ASSUME NEW p \in Programs, End(p) PROVE ProcInv'
  BY <1>5, ExitStep DEF End
<1>6. CASE AdminFatal
  BY <1>6, ExitStep, AdminAssumption, BaseAssumption DEF AdminFatal
<1>7. CASE Query \/ Maintain \/ UNCHANGED vars
  BY <1>1, <1>7 DEF Query, QueryWatermark, Maintain, Maintenance, vars, runnerVars
<1>8. CASE AdminFind \/ (\E created \in BOOLEAN : AdminRead(created))
           \/ (\E p \in Programs : AdminSend(p))
  BY <1>1, <1>8 DEF AdminFind, AdminRead, AdminSend, runnerVars
<1>9. CASE (\E i \in DOMAIN RawDefs : Publish(i)) \/ (\E d \in pending : Deliver(d))
  BY <1>1, <1>9 DEF Publish, Deliver, runnerVars
<1> QED
  BY <1>2, <1>3, <1>4, <1>5, <1>6, <1>7, <1>8, <1>9 DEF Next

\* Whatever directives come, however often, and whatever programs end: a process
\* that was not told to end is the only one of its program and in the runner's
\* map, and a runner that stops leaves none (updateRunning, RunConsumerPrograms).
THEOREM NoneOrphaned == Spec => []NoOrphan
<1>1. Init => ProcInv
  BY DEF Init, RunnerInit, ProcInv, NoOrphan
<1>2. ProcInv => NoOrphan
  BY DEF ProcInv
<1> QED
  BY <1>1, <1>2, ProcStep, PTL DEF Spec

-----------------------------------------------------------------------------
(* The topics a definition asks for. *)

\* The generations of a topic: the current one and perhaps a future one.
Generations(ts) == {ts.cur, ts.fut} \ {NoFuture}

\* What a published definition is, for the ones who read it.
LEMMA ReadDef ==
    ASSUME NEW i \in Publishable
    PROVE  /\ DOMAIN AsRead[i].topics = RequiredTopics
           /\ \A n \in RequiredTopics : ValidTopics(n, AsRead[i].topics[n])
           /\ \A n \in RequiredTopics : \A g \in Generations(AsRead[i].topics[n]) :
                 g \in Topic /\ g.parts \in 1..MaxPartition
           /\ \A n \in RequiredTopics : AsRead[i].topics[n].cur \in Topic
<1> DEFINE def == RawDefs[i]
           from(n) == IF n \in DOMAIN def.topics THEN def.topics[n] ELSE EmptyTopics
<1>1. i \in DOMAIN RawDefs /\ Accepted(def) /\ IsDef(def)
  BY RawDefsAssumption DEF Publishable
<1>2. AsRead[i] = Completed(def)
  BY <1>1, PublishableIsStable DEF Published
<1>3. DOMAIN def.topics \subseteq RequiredTopics
  BY <1>1 DEF Accepted
<1>4. \A n \in RequiredTopics : ValidTopics(n, Completed(def).topics[n])
  BY <1>1 DEF Accepted
<1>5. Completed(def).topics = [n \in DOMAIN def.topics \cup RequiredTopics |->
                                 InitTopics(n, from(n), def.targets)]
  BY <1>1, CompletedFields
<1>6. DOMAIN def.topics \cup RequiredTopics = RequiredTopics
  BY <1>3
<1>7. \A n \in RequiredTopics : IsTopics(from(n))
  BY <1>1 DEF IsDef, EmptyTopics, IsTopics
<1>8. ASSUME NEW ts, IsTopics(ts), NEW n, NEW targets,
             NEW g \in Generations(InitTopics(n, ts, targets))
      PROVE  g \in Topic /\ g.parts \in 1..MaxPartition
  <2>1. \E t \in Topic : g = InitTopic(t)
    BY <1>8 DEF Generations, InitTopics, IsTopics
  <2> QED
    BY <2>1, MaxPartitionAssumption DEF InitTopic
<1>11. ASSUME NEW ts, IsTopics(ts), NEW n, NEW targets
       PROVE  InitTopics(n, ts, targets).cur \in Topic
  BY <1>11, MaxPartitionAssumption DEF InitTopics, InitTopic, IsTopics, Topic
<1> HIDE DEF def, from
<1>9. \A n \in RequiredTopics : Completed(def).topics[n] = InitTopics(n, from(n), def.targets)
  BY <1>5
<1>10. DOMAIN Completed(def).topics = RequiredTopics
  BY <1>5, <1>6
<1> QED
  BY <1>2, <1>4, <1>7, <1>8, <1>9, <1>10, <1>11

\* createMissingTopics: what was there stays as it was, and every generation that
\* was not there has the partitions that the definition gives it.
LEMMA TopicsUpdated ==
    ASSUME NEW i \in Publishable, NEW old, NEW new, new = UpdateTopics(old, AsRead[i])
    PROVE  /\ \A t \in DOMAIN old : t \in DOMAIN new /\ new[t] = old[t]
           /\ \A n \in RequiredTopics : \A g \in Generations(AsRead[i].topics[n]) :
                 /\ <<n, g.gen>> \in DOMAIN new
                 /\ <<n, g.gen>> \notin DOMAIN old => new[<<n, g.gen>>] = g.parts
           /\ \A t \in DOMAIN new \ DOMAIN old :
                 \E n \in RequiredTopics : \E g \in Generations(AsRead[i].topics[n]) :
                     t = <<n, g.gen>> /\ new[t] = g.parts
<1> DEFINE ts == AsRead[i].topics
           wanted == UNION {{<<n, t.gen>> : t \in {ts[n].cur, ts[n].fut} \ {NoFuture}}
                              : n \in DOMAIN ts}
           parts(n, g) == IF ts[n].cur.gen = g THEN ts[n].cur.parts ELSE ts[n].fut.parts
<1>1. new = [t \in DOMAIN old \cup wanted |->
               IF t \in DOMAIN old THEN old[t] ELSE parts(t[1], t[2])]
  BY DEF UpdateTopics
<1>2. DOMAIN ts = RequiredTopics
  BY ReadDef
<1>3. ASSUME NEW n \in RequiredTopics, NEW g \in Generations(ts[n])
      PROVE  <<n, g.gen>> \in wanted /\ parts(n, g.gen) = g.parts
  <2>1. <<n, g.gen>> \in wanted
    BY <1>2, <1>3 DEF Generations
  <2>2. CASE g = ts[n].cur
    BY <2>1, <2>2
  <2>3. CASE g = ts[n].fut /\ g # NoFuture
    <3>1. g \in Topic /\ ts[n].cur.gen = g.gen + 1
      BY <2>3, ReadDef DEF ValidTopics
    <3>2. ts[n].cur.gen # g.gen
      BY <3>1
    <3> QED
      BY <2>1, <2>3, <3>2
  <2> QED
    BY <2>1, <2>2, <2>3 DEF Generations
<1>4. ASSUME NEW t \in wanted
      PROVE  \E n \in RequiredTopics : \E g \in Generations(ts[n]) : t = <<n, g.gen>>
  BY <1>2, <1>4 DEF Generations
<1> HIDE DEF ts, wanted, parts
<1>5. \A t \in DOMAIN old : t \in DOMAIN new /\ new[t] = old[t]
  BY <1>1
<1>6. ASSUME NEW n \in RequiredTopics, NEW g \in Generations(ts[n])
      PROVE  /\ <<n, g.gen>> \in DOMAIN new
             /\ <<n, g.gen>> \notin DOMAIN old => new[<<n, g.gen>>] = g.parts
  BY <1>1, <1>3
<1>7. ASSUME NEW t \in DOMAIN new \ DOMAIN old
      PROVE  \E n \in RequiredTopics : \E g \in Generations(ts[n]) :
                 t = <<n, g.gen>> /\ new[t] = g.parts
  <2>1. t \in wanted
    BY <1>1
  <2>2. PICK n \in RequiredTopics : \E g \in Generations(ts[n]) : t = <<n, g.gen>>
    BY <1>4, <2>1
  <2>3. PICK g \in Generations(ts[n]) : t = <<n, g.gen>>
    BY <2>2
  <2> QED
    BY <1>6, <2>3
<1> QED
  BY <1>5, <1>6, <1>7 DEF ts

-----------------------------------------------------------------------------
(* Types. *)

\* Every definition published takes a tick of the clock, and is pending or in the
\* topic.
SizeInv ==
    /\ IsFiniteSet(pending)
    /\ Len(platTopic) + Cardinality(pending) <= clock

LEMMA SizeStep ==
    ASSUME TopicInv, SizeInv, [Next]_vars PROVE SizeInv'
<1>1. Len(platTopic) \in Nat /\ Cardinality(pending) \in Nat /\ clock \in Nat
  BY FS_CardinalityType DEF TopicInv, SizeInv
<1>2. ASSUME NEW i \in DOMAIN RawDefs, Publish(i) PROVE SizeInv'
  <2> DEFINE d == [id |-> i, stamp |-> clock + 1]
  <2>1. pending' = pending \cup {d} /\ clock' = clock + 1 /\ platTopic' = platTopic
    BY <1>2 DEF Publish
  <2> HIDE DEF d
  <2>2. IsFiniteSet(pending') /\ Cardinality(pending') <= Cardinality(pending) + 1
    <3>1. /\ IsFiniteSet(pending \cup {d})
          /\ Cardinality(pending \cup {d}) =
                IF d \in pending THEN Cardinality(pending) ELSE Cardinality(pending) + 1
      BY FS_AddElement DEF SizeInv
    <3> QED
      BY <1>1, <2>1, <3>1
  <2>3. Cardinality(pending') \in Nat
    BY <2>2, FS_CardinalityType
  <2> QED
    BY <1>1, <2>1, <2>2, <2>3 DEF SizeInv
<1>3. ASSUME NEW d \in pending, Deliver(d) PROVE SizeInv'
  <2>1. pending' = pending \ {d} /\ clock' = clock /\ platTopic' = Append(platTopic, d)
    BY <1>3 DEF Deliver
  <2>2. IsFiniteSet(pending') /\ Cardinality(pending') = Cardinality(pending) - 1
    BY <2>1, FS_RemoveElement DEF SizeInv
  <2>3. Len(platTopic') = Len(platTopic) + 1
    BY <2>1 DEF TopicInv
  <2> QED
    BY <1>1, <2>1, <2>2, <2>3 DEF SizeInv
<1>4. ASSUME UNCHANGED <<platTopic, pending, clock>> PROVE SizeInv'
  BY <1>4 DEF SizeInv
<1>5. CASE AdminFind \/ AdminFatal \/ \E created \in BOOLEAN : AdminRead(created)
  BY <1>4, <1>5 DEF AdminFind, AdminFatal, AdminRead
<1>6. CASE \E p \in Programs : AdminSend(p) \/ End(p)
  BY <1>4, <1>6 DEF AdminSend, End
<1>7. CASE (\E started \in SUBSET Base : Start(started)) \/ (\E ok \in BOOLEAN : Handle(ok))
  BY <1>4, <1>7 DEF Start, Handle
<1>8. CASE Query \/ Maintain \/ Stop \/ UNCHANGED vars
  BY <1>4, <1>8 DEF Query, Maintain, Stop, vars, mgmtVars
<1> QED
  BY <1>2, <1>3, <1>5, <1>6, <1>7, <1>8 DEF Next

\* What admin has read and has yet to send.  It never has a program to stop, as it
\* compares with no definition.
TodoInv ==
    /\ adm.def \in Defs \cup {NoDef}
    /\ adm.todo = [stop |-> {}, start |-> adm.todo.start]
    /\ adm.todo.start \subseteq Programs

HistoryInv == asked \subseteq Programs /\ missed \subseteq Programs /\ ended \subseteq Programs

\* Every topic that exists is a generation of a published definition, with the
\* number of partitions that definition gives it.
MadeFor(t, n) ==
    \E i \in Publishable : \E name \in RequiredTopics :
        \E g \in Generations(AsRead[i].topics[name]) : t = <<name, g.gen>> /\ n = g.parts

TopicsInv == \A t \in DOMAIN topics : MadeFor(t, topics[t])

RunInv ==
    /\ consTopic \in Seq(Directives)
    /\ up \in BOOLEAN /\ reading \in BOOLEAN
    /\ running \subseteq Programs
    /\ starts \in 0..MaxStarts /\ faults \in 0..MaxFaults

MgmtInv ==
    /\ TopicInv /\ AdmInv /\ ProcInv /\ SizeInv
    /\ TodoInv /\ HistoryInv /\ TopicsInv /\ RunInv

\* What admin does with the next definition of the topic.
LEMMA ReadStep ==
    ASSUME TopicInv, AdmInv, NEW created \in BOOLEAN, AdminRead(created)
    PROVE  \E d \in Defs :
              /\ adm'.def = d
              /\ adm'.todo = [stop |-> {}, start |-> ProgsOf(d)]
              /\ topics' = IF created THEN UpdateTopics(topics, AsRead[d.id]) ELSE topics
              /\ asked' = asked \cup ProgsOf(d)
              /\ faults' = IF created THEN faults ELSE faults + 1
              /\ ~created => faults < MaxFaults
              /\ UNCHANGED <<consTopic, up, reading, running, held, live, starts, missed, ended>>
<1> DEFINE d == platTopic[adm.pos]
<1>1. adm.pos \in 1..Len(platTopic)
  BY DEF AdminRead
<1>2. d \in Defs
  BY <1>1 DEF TopicInv
<1>3. Passes(adm.curr, d)
  BY <1>2, PublishableIsStable DEF AdmInv, Passes, Defs
<1>4. ReadNext(adm) = [pos |-> adm.pos + 1, curr |-> NoDef, def |-> d, todo |-> adm.todo]
  BY <1>3 DEF ReadNext, CurrAfter, AdmInv
<1>5. /\ adm' = [ReadNext(adm) EXCEPT !.todo = Diff(ProgsOf(ReadNext(adm).def), ProgsOf(adm.curr))]
      /\ topics' = IF created THEN UpdateTopics(topics, AsRead[ReadNext(adm).def.id]) ELSE topics
      /\ asked' = asked \cup ProgsOf(ReadNext(adm).def)
  BY <1>3 DEF AdminRead
<1>6. Diff(ProgsOf(d), ProgsOf(adm.curr)) = [stop |-> {}, start |-> ProgsOf(d)]
  BY DEF Diff, ProgsOf, AdmInv
<1> HIDE DEF d
<1>7. adm'.def = d /\ adm'.todo = [stop |-> {}, start |-> ProgsOf(d)]
  BY <1>4, <1>5, <1>6
<1> QED
  BY <1>2, <1>4, <1>5, <1>7 DEF AdminRead

LEMMA ProgsKnown ==
    ASSUME NEW d \in Defs PROVE ProgsOf(d) \subseteq Programs
BY ProgramsAssumption DEF ProgsOf, Defs

\* What admin sends.
LEMMA SendStep ==
    ASSUME AdmInv, TodoInv, NEW p \in Programs, AdminSend(p)
    PROVE  /\ p \in adm.todo.start
           /\ adm'.def = adm.def
           /\ adm'.todo = [stop |-> {}, start |-> adm.todo.start \ {p}]
           /\ missed' \subseteq missed \cup {p}
           /\ consTopic' = IF reading THEN Append(consTopic, [dir |-> "START", prog |-> p])
                           ELSE consTopic
           /\ UNCHANGED <<runnerVars, topics, asked, ended>>
<1>1. adm.todo.stop = {}
  BY DEF TodoInv
<1>2. adm' = [adm EXCEPT !.todo.start = @ \ {p}]
  BY <1>1 DEF AdminSend
<1>3. adm'.def = adm.def /\ adm'.todo = [stop |-> {}, start |-> adm.todo.start \ {p}]
  <2> DEFINE todo == [adm.todo EXCEPT !.start = @ \ {p}]
  <2>1. todo = [stop |-> {}, start |-> adm.todo.start \ {p}]
    BY DEF TodoInv
  <2>2. adm' = [adm EXCEPT !.todo = todo]
    BY <1>2
  <2> HIDE DEF todo
  <2>3. adm' = [pos |-> adm.pos, curr |-> adm.curr, def |-> adm.def, todo |-> todo]
    BY <2>2 DEF AdmInv
  <2> QED
    BY <2>1, <2>3
<1> QED
  BY <1>1, <1>3 DEF AdminSend, Send

LEMMA TodoStep ==
    ASSUME MgmtInv, [Next]_vars PROVE TodoInv'
<1> USE DEF MgmtInv
<1>1. ASSUME adm' = adm PROVE TodoInv'
  BY <1>1 DEF TodoInv
<1>2. CASE AdminFind
  <2>1. adm' = [pos |-> LastMatch, curr |-> adm.curr, def |-> adm.def, todo |-> adm.todo]
    BY <1>2 DEF AdminFind, AdmInv
  <2> QED
    BY <2>1 DEF TodoInv
<1>3. ASSUME NEW created \in BOOLEAN, AdminRead(created) PROVE TodoInv'
  <2>1. PICK d \in Defs : adm'.def = d /\ adm'.todo = [stop |-> {}, start |-> ProgsOf(d)]
    BY <1>3, ReadStep
  <2> QED
    BY <2>1, ProgsKnown DEF TodoInv
<1>4. ASSUME NEW p \in Programs, AdminSend(p) PROVE TodoInv'
  <2>1. adm'.def = adm.def /\ adm'.todo = [stop |-> {}, start |-> adm.todo.start \ {p}]
    BY <1>4, SendStep
  <2>2. adm'.todo.start = adm.todo.start \ {p}
    BY <2>1
  <2>3. adm'.todo.start \subseteq Programs
    BY <2>2 DEF TodoInv
  <2> QED
    BY <2>1, <2>2, <2>3 DEF TodoInv
<1>5. ASSUME NEW started \in SUBSET Base, Start(started) PROVE TodoInv'
  BY <1>5 DEF Start, AdmStart, NoTodo, TodoInv
<1>6. CASE (\E i \in DOMAIN RawDefs : Publish(i)) \/ (\E d \in pending : Deliver(d))
  BY <1>1, <1>6 DEF Publish, Deliver
<1>7. CASE AdminFatal \/ (\E p \in Programs : End(p)) \/ (\E ok \in BOOLEAN : Handle(ok))
  BY <1>1, <1>7 DEF AdminFatal, End, Handle
<1>8. CASE Query \/ Maintain \/ Stop \/ UNCHANGED vars
  BY <1>1, <1>8 DEF Query, Maintain, Stop, vars, mgmtVars
<1> QED
  BY <1>2, <1>3, <1>4, <1>5, <1>6, <1>7, <1>8 DEF Next

LEMMA HistoryStep ==
    ASSUME MgmtInv, [Next]_vars PROVE HistoryInv'
<1> USE DEF MgmtInv, HistoryInv
<1>1. ASSUME UNCHANGED <<asked, missed, ended>> PROVE HistoryInv'
  BY <1>1
<1>2. CASE AdminFatal
  BY <1>2, AdminAssumption, BaseAssumption DEF AdminFatal
<1>3. ASSUME NEW created \in BOOLEAN, AdminRead(created) PROVE HistoryInv'
  <2>1. PICK d \in Defs : asked' = asked \cup ProgsOf(d) /\ UNCHANGED <<missed, ended>>
    BY <1>3, ReadStep
  <2> QED
    BY <2>1, ProgsKnown
<1>4. ASSUME NEW p \in Programs, AdminSend(p) PROVE HistoryInv'
  BY <1>4, SendStep
<1>5. ASSUME NEW started \in SUBSET Base, Start(started) PROVE HistoryInv'
  BY <1>5, BaseAssumption DEF Start
<1>6. ASSUME NEW ok \in BOOLEAN, Handle(ok) PROVE HistoryInv'
  <2>1. consTopic # <<>> /\ consTopic \in Seq(Directives)
    BY <1>6 DEF Handle, HandleDirective, RunInv
  <2>2. Head(consTopic) \in Directives
    BY <2>1, HeadTailProperties
  <2>3. Head(consTopic).prog \in Programs
    BY <2>2 DEF Directives
  <2> QED
    BY <1>6, <2>3 DEF Handle
<1>7. ASSUME NEW p \in Programs, End(p) PROVE HistoryInv'
  BY <1>7 DEF End
<1>8. CASE AdminFind \/ (\E i \in DOMAIN RawDefs : Publish(i)) \/ (\E d \in pending : Deliver(d))
  BY <1>1, <1>8 DEF AdminFind, Publish, Deliver
<1>9. CASE Query \/ Maintain \/ Stop \/ UNCHANGED vars
  BY <1>1, <1>9 DEF Query, Maintain, Stop, vars, mgmtVars
<1> QED
  BY <1>2, <1>3, <1>4, <1>5, <1>6, <1>7, <1>8, <1>9 DEF Next

LEMMA TopicsStep ==
    ASSUME MgmtInv, [Next]_vars PROVE TopicsInv'
<1> USE DEF MgmtInv
<1>1. ASSUME topics' = topics PROVE TopicsInv'
  BY <1>1 DEF TopicsInv, MadeFor
<1>2. ASSUME NEW created \in BOOLEAN, AdminRead(created) PROVE TopicsInv'
  <2>1. PICK d \in Defs :
          topics' = IF created THEN UpdateTopics(topics, AsRead[d.id]) ELSE topics
    BY <1>2, ReadStep
  <2>2. CASE created
    <3>1. PICK i \in Publishable : topics' = UpdateTopics(topics, AsRead[i])
      BY <2>1, <2>2 DEF Defs
    <3>2. PICK old : old = topics
      OBVIOUS
    <3>3. PICK new : new = topics' /\ new = UpdateTopics(old, AsRead[i])
      BY <3>1, <3>2
    <3>4. /\ \A t \in DOMAIN old : t \in DOMAIN new /\ new[t] = old[t]
          /\ \A t \in DOMAIN new \ DOMAIN old :
                \E n \in RequiredTopics : \E g \in Generations(AsRead[i].topics[n]) :
                    t = <<n, g.gen>> /\ new[t] = g.parts
      BY <3>3, TopicsUpdated
    <3>5. \A t \in DOMAIN old : MadeFor(t, old[t])
      BY <3>2 DEF TopicsInv
    <3>6. \A t \in DOMAIN new : MadeFor(t, new[t])
      BY <3>4, <3>5 DEF MadeFor
    <3> QED
      BY <3>3, <3>6 DEF TopicsInv, MadeFor
  <2> QED
    BY <1>1, <2>1, <2>2
<1>3. CASE AdminFind \/ AdminFatal \/ \E p \in Programs : AdminSend(p) \/ End(p)
  BY <1>1, <1>3 DEF AdminFind, AdminFatal, AdminSend, End
<1>4. CASE (\E i \in DOMAIN RawDefs : Publish(i)) \/ (\E d \in pending : Deliver(d))
  BY <1>1, <1>4 DEF Publish, Deliver
<1>5. CASE (\E started \in SUBSET Base : Start(started)) \/ (\E ok \in BOOLEAN : Handle(ok))
  BY <1>1, <1>5 DEF Start, Handle
<1>6. CASE Query \/ Maintain \/ Stop \/ UNCHANGED vars
  BY <1>1, <1>6 DEF Query, Maintain, Stop, vars, mgmtVars
<1> QED
  BY <1>2, <1>3, <1>4, <1>5, <1>6 DEF Next

\* The directive at the head of the consumers topic is taken.
LEMMA DirectiveTaken ==
    ASSUME RunInv, NEW ok, HandleDirective(ok)
    PROVE  /\ Head(consTopic) \in Directives /\ Head(consTopic) = consTopic[1]
           /\ 1 \in DOMAIN consTopic
           /\ consTopic' \in Seq(Directives)
           /\ \A k \in DOMAIN consTopic' : /\ k + 1 \in DOMAIN consTopic
                                           /\ consTopic'[k] = consTopic[k + 1]
<1>1. consTopic \in Seq(Directives) /\ consTopic # <<>> /\ consTopic' = Tail(consTopic)
  BY DEF RunInv, HandleDirective
<1>2. Len(consTopic) \in Nat /\ Len(consTopic) # 0 /\ DOMAIN consTopic = 1..Len(consTopic)
  BY <1>1, LenProperties, EmptySeq
<1>3. /\ Head(consTopic) \in Directives /\ Head(consTopic) = consTopic[1]
      /\ Tail(consTopic) \in Seq(Directives) /\ Len(Tail(consTopic)) = Len(consTopic) - 1
      /\ \A k \in 1..Len(Tail(consTopic)) : Tail(consTopic)[k] = consTopic[k + 1]
  BY <1>1, HeadTailProperties
<1>4. DOMAIN consTopic' = 1..(Len(consTopic) - 1)
  BY <1>1, <1>3, LenProperties
<1> QED
  BY <1>1, <1>2, <1>3, <1>4

LEMMA RunStep ==
    ASSUME MgmtInv, [Next]_vars PROVE RunInv'
<1> USE DEF MgmtInv
<1>0. starts \in Nat /\ faults \in Nat
  BY RunnerBoundsAssumption DEF RunInv
<1>1. ASSUME UNCHANGED <<consTopic, up, reading, running, starts, faults>> PROVE RunInv'
  BY <1>1 DEF RunInv
<1>2. ASSUME NEW created \in BOOLEAN, AdminRead(created) PROVE RunInv'
  BY <1>0, <1>2, RunnerBoundsAssumption DEF AdminRead, RunInv
<1>3. ASSUME NEW p \in Programs, AdminSend(p) PROVE RunInv'
  <2>1. [dir |-> "START", prog |-> p] \in Directives
    BY DEF Directives
  <2>2. /\ consTopic' = IF reading THEN Append(consTopic, [dir |-> "START", prog |-> p])
                         ELSE consTopic
        /\ UNCHANGED runnerVars
    BY <1>3, SendStep
  <2>3. consTopic' \in Seq(Directives)
    BY <2>1, <2>2, AppendProperties DEF RunInv
  <2> QED
    BY <2>2, <2>3 DEF RunInv, runnerVars
<1>4. ASSUME NEW started \in SUBSET Base, Start(started) PROVE RunInv'
  <2>1. /\ starts < MaxStarts /\ starts' = starts + 1
        /\ faults' = faults \/ (faults < MaxFaults /\ faults' = faults + 1)
        /\ up' = TRUE /\ running' = started /\ UNCHANGED <<consTopic, reading>>
    BY <1>4 DEF Start, RunnerStart
  <2>2. starts' \in 0..MaxStarts /\ faults' \in 0..MaxFaults
    BY <1>0, <2>1, RunnerBoundsAssumption DEF RunInv
  <2> QED
    BY <2>1, <2>2, BaseAssumption DEF RunInv
<1>5. ASSUME NEW ok \in BOOLEAN, Handle(ok) PROVE RunInv'
  <2>1. HandleDirective(ok)
    BY <1>5 DEF Handle
  <2>2. consTopic' \in Seq(Directives) /\ Head(consTopic).prog \in Programs
    BY <2>1, DirectiveTaken DEF Directives
  <2>3. running' \subseteq running \cup {Head(consTopic).prog}
    BY <2>1 DEF HandleDirective, UpdateRunning
  <2>4. /\ UNCHANGED <<up, reading, starts>>
        /\ faults' = faults \/ (faults < MaxFaults /\ faults' = faults + 1)
    BY <2>1 DEF HandleDirective
  <2>5. faults' \in 0..MaxFaults
    BY <1>0, <2>4, RunnerBoundsAssumption DEF RunInv
  <2> QED
    BY <2>2, <2>3, <2>4, <2>5 DEF RunInv
<1>6. ASSUME NEW p \in Programs, End(p) PROVE RunInv'
  <2>1. UNCHANGED <<consTopic, up, reading, running, starts>> /\ faults' \in 0..MaxFaults
    BY <1>0, <1>6, RunnerBoundsAssumption DEF End, Exit
  <2> QED
    BY <2>1 DEF RunInv
<1>7. CASE Stop
  <2>1. consTopic' = <<>> /\ up' = FALSE /\ reading' = FALSE /\ running' = {}
    BY <1>7 DEF Stop, RunnerStop
  <2>2. <<>> \in Seq(Directives)
    BY EmptySeq
  <2>3. UNCHANGED <<starts, faults>>
    BY <1>7 DEF Stop, RunnerStop
  <2> QED
    BY <2>1, <2>2, <2>3 DEF RunInv
<1>8. CASE Query
  BY <1>8 DEF Query, QueryWatermark, RunInv
<1>9. CASE AdminFind \/ AdminFatal
  BY <1>1, <1>9 DEF AdminFind, AdminFatal, Exit, runnerVars
<1>10. CASE (\E i \in DOMAIN RawDefs : Publish(i)) \/ (\E d \in pending : Deliver(d))
  BY <1>1, <1>10 DEF Publish, Deliver, runnerVars
<1>11. CASE Maintain \/ UNCHANGED vars
  BY <1>1, <1>11 DEF Maintain, Maintenance, vars, runnerVars
<1> QED
  BY <1>2, <1>3, <1>4, <1>5, <1>6, <1>7, <1>8, <1>9, <1>10, <1>11 DEF Next

LEMMA MgmtInvariant == Spec => []MgmtInv
<1>1. Init => MgmtInv
  <2> SUFFICES ASSUME Init PROVE MgmtInv
    OBVIOUS
  <2>1. TopicInv /\ AdmInv
    BY MaxPublishAssumption DEF Init, TopicInv, AdmInv, AdmStart, ReadersAgree
  <2>2. ProcInv
    BY DEF Init, RunnerInit, ProcInv, NoOrphan
  <2>3. SizeInv
    BY FS_EmptySet DEF Init, SizeInv
  <2>4. TodoInv /\ HistoryInv /\ TopicsInv
    BY DEF Init, AdmStart, NoTodo, TodoInv, HistoryInv, TopicsInv
  <2>5. RunInv
    <3>1. <<>> \in Seq(Directives)
      BY EmptySeq
    <3>2. starts \in 0..MaxStarts /\ faults \in 0..MaxFaults
      BY RunnerBoundsAssumption DEF Init, RunnerInit
    <3>3. consTopic = <<>> /\ up = FALSE /\ reading = FALSE /\ running = {}
      BY DEF Init, RunnerInit
    <3> QED
      BY <3>1, <3>2, <3>3 DEF RunInv
  <2> QED
    BY <2>1, <2>2, <2>3, <2>4, <2>5 DEF MgmtInv
<1>2. MgmtInv /\ [Next]_vars => MgmtInv'
  <2> SUFFICES ASSUME MgmtInv, [Next]_vars PROVE MgmtInv'
    OBVIOUS
  <2>1. TopicInv' /\ AdmInv' /\ ProcInv' /\ SizeInv'
    BY TopicStep, AdmStep, ProcStep, SizeStep DEF MgmtInv
  <2> QED
    BY <2>1, TodoStep, HistoryStep, TopicsStep, RunStep DEF MgmtInv
<1> QED
  BY <1>1, <1>2, PTL DEF Spec

\* The state of operators, admin and runner stays within its types: topics have
\* between one and MAX_PARTITION partitions whatever was written, admin's reader
\* never runs past the topic, no program is counted below zero.
THEOREM TypeCorrect == Spec => []TypeOK
<1>1. ASSUME MgmtInv PROVE TypeOK
  <2> USE <1>1 DEF MgmtInv
  <2>1. RunnerTypeOK
    <3>1. live \in [Programs -> Nat]
      BY DEF ProcInv, NoOrphan
    <3> QED
      BY <3>1 DEF RunnerTypeOK, RunInv, ProcInv
  <2>2. \A t \in DOMAIN topics : t[1] \in RequiredTopics /\ topics[t] \in 1..MaxPartition
    <3> SUFFICES ASSUME NEW t \in DOMAIN topics
                 PROVE  t[1] \in RequiredTopics /\ topics[t] \in 1..MaxPartition
      OBVIOUS
    <3>1. PICK i \in Publishable : \E name \in RequiredTopics :
             \E g \in Generations(AsRead[i].topics[name]) :
                 t = <<name, g.gen>> /\ topics[t] = g.parts
      BY DEF TopicsInv, MadeFor
    <3> QED
      BY <3>1, ReadDef
  <2>3. adm.pos \in 0..(MaxPublish + 1)
    <3>1. Cardinality(pending) \in Nat /\ Len(platTopic) \in Nat
      BY FS_CardinalityType DEF SizeInv, TopicInv
    <3>2. Len(platTopic) <= MaxPublish
      BY <3>1, MaxPublishAssumption DEF SizeInv, TopicInv
    <3> QED
      BY <3>1, <3>2, MaxPublishAssumption DEF AdmInv
  <2>4. adm.def \in Defs \cup {NoDef} /\ adm.todo.stop \cup adm.todo.start \subseteq Programs
    BY DEF TodoInv
  <2> QED
    BY <2>1, <2>2, <2>3, <2>4 DEF TypeOK, TopicInv, HistoryInv
<1> QED
  BY <1>1, MgmtInvariant, PTL

-----------------------------------------------------------------------------
(* A program runs on a partition that is there. *)

\* No definition changes the number of partitions of a generation: who wants
\* another number writes a new generation.
GenerationsKept ==
    \A i, j \in Publishable : \A n \in RequiredTopics :
        \A g \in Generations(AsRead[i].topics[n]) : \A h \in Generations(AsRead[j].topics[n]) :
            g.gen = h.gen => g.parts = h.parts

There(ts, p) == <<p.topic, p.gen>> \in DOMAIN ts /\ p.part < ts[<<p.topic, p.gen>>]

\* As long as nothing has failed, what admin has to start, what it has told the
\* runner to start and what the runner has started is on partitions that exist.
PartsInv ==
    faults = 0 =>
        /\ \A p \in adm.todo.start : There(topics, p)
        /\ \A k \in DOMAIN consTopic : There(topics, consTopic[k].prog)
        /\ \A p \in held \ Base : There(topics, p)

\* The topics of a definition are there once createMissingTopics has seen to it,
\* also the ones that an earlier definition had created.
LEMMA WantedThere ==
    ASSUME GenerationsKept, NEW old, \A t \in DOMAIN old : MadeFor(t, old[t]),
           NEW i \in Publishable, NEW new, new = UpdateTopics(old, AsRead[i]),
           NEW p \in Progs[i]
    PROVE  There(new, p)
<1>1. DOMAIN AsRead[i].topics = RequiredTopics
  BY ReadDef
<1>2. PICK n \in RequiredTopics :
        /\ p.topic = n /\ p.gen = AsRead[i].topics[n].cur.gen
        /\ p.part \in Partitions(AsRead[i].topics[n])
  BY <1>1 DEF Progs, Publishable, AllProgs, ProgKey
<1> DEFINE g == AsRead[i].topics[n].cur
           key == <<n, g.gen>>
<1>3. g \in Generations(AsRead[i].topics[n]) /\ g \in Topic
  <2>1. g \in Topic
    BY ReadDef
  <2> QED
    BY <2>1, NoFutureAssumption DEF Generations
<1>4. p.part < g.parts
  BY <1>2, <1>3 DEF Partitions, Topic
<1> HIDE DEF g
<1>5. /\ key \in DOMAIN new
      /\ key \notin DOMAIN old => new[key] = g.parts
      /\ key \in DOMAIN old => new[key] = old[key]
  BY <1>3, TopicsUpdated
<1>6. ASSUME key \in DOMAIN old PROVE old[key] = g.parts
  <2>1. PICK j \in Publishable : \E m \in RequiredTopics :
          \E h \in Generations(AsRead[j].topics[m]) : key = <<m, h.gen>> /\ old[key] = h.parts
    BY <1>6 DEF MadeFor
  <2>2. PICK m \in RequiredTopics :
          \E h \in Generations(AsRead[j].topics[m]) : key = <<m, h.gen>> /\ old[key] = h.parts
    BY <2>1
  <2>3. PICK h \in Generations(AsRead[j].topics[m]) : key = <<m, h.gen>> /\ old[key] = h.parts
    BY <2>2
  <2>4. m = n /\ h.gen = g.gen
    BY <2>3
  <2> QED
    BY <1>3, <2>3, <2>4 DEF GenerationsKept
<1>7. new[key] = g.parts
  BY <1>5, <1>6
<1>8. key = <<p.topic, p.gen>>
  BY <1>2 DEF g
<1> QED
  BY <1>4, <1>5, <1>7, <1>8 DEF There

\* Topics are only added.
LEMMA TopicsOnlyGrow ==
    ASSUME MgmtInv, [Next]_vars
    PROVE  \A t \in DOMAIN topics : t \in DOMAIN topics' /\ topics'[t] = topics[t]
<1> USE DEF MgmtInv
<1>1. ASSUME NEW created \in BOOLEAN, AdminRead(created)
      PROVE  \A t \in DOMAIN topics : t \in DOMAIN topics' /\ topics'[t] = topics[t]
  <2>1. PICK d \in Defs :
          topics' = IF created THEN UpdateTopics(topics, AsRead[d.id]) ELSE topics
    BY <1>1, ReadStep
  <2>2. topics' = topics \/ \E i \in Publishable : topics' = UpdateTopics(topics, AsRead[i])
    BY <2>1 DEF Defs
  <2>3. CASE \E i \in Publishable : topics' = UpdateTopics(topics, AsRead[i])
    <3>1. PICK i \in Publishable : topics' = UpdateTopics(topics, AsRead[i])
      BY <2>3
    <3>2. PICK old : old = topics
      OBVIOUS
    <3>3. PICK new : new = topics' /\ new = UpdateTopics(old, AsRead[i])
      BY <3>1, <3>2
    <3>4. \A t \in DOMAIN old : t \in DOMAIN new /\ new[t] = old[t]
      BY <3>3, TopicsUpdated
    <3> QED
      BY <3>2, <3>3, <3>4
  <2> QED
    BY <2>2, <2>3
<1>2. CASE UNCHANGED topics
  BY <1>2
<1>3. CASE AdminFind \/ AdminFatal \/ \E p \in Programs : AdminSend(p) \/ End(p)
  BY <1>2, <1>3 DEF AdminFind, AdminFatal, AdminSend, End
<1>4. CASE (\E i \in DOMAIN RawDefs : Publish(i)) \/ (\E d \in pending : Deliver(d))
  BY <1>2, <1>4 DEF Publish, Deliver
<1>5. CASE (\E started \in SUBSET Base : Start(started)) \/ (\E ok \in BOOLEAN : Handle(ok))
  BY <1>2, <1>5 DEF Start, Handle
<1>6. CASE Query \/ Maintain \/ Stop \/ UNCHANGED vars
  BY <1>2, <1>6 DEF Query, Maintain, Stop, vars, mgmtVars
<1> QED
  BY <1>1, <1>3, <1>4, <1>5, <1>6 DEF Next

LEMMA PartsStep ==
    ASSUME GenerationsKept, MgmtInv, PartsInv, [Next]_vars PROVE PartsInv'
<1> USE DEF MgmtInv
<1>0. faults \in Nat /\ starts \in Nat
  BY RunnerBoundsAssumption DEF RunInv
<1> DEFINE Stays(p) == There(topics, p) => There(topics', p)
<1>1. \A p : Stays(p)
  BY TopicsOnlyGrow DEF There
<1> HIDE DEF Stays
<1>2. ASSUME faults' = 0 => faults = 0,
             adm'.todo.start \subseteq adm.todo.start,
             \A k \in DOMAIN consTopic' : \E m \in DOMAIN consTopic : consTopic'[k] = consTopic[m],
             held' \subseteq held \cup Base
      PROVE  PartsInv'
  <2> SUFFICES ASSUME faults' = 0 PROVE PartsInv'
    BY DEF PartsInv
  <2>1. /\ \A p \in adm.todo.start : There(topics', p)
        /\ \A k \in DOMAIN consTopic : There(topics', consTopic[k].prog)
        /\ \A p \in held \ Base : There(topics', p)
    BY <1>1, <1>2 DEF PartsInv, Stays
  <2> QED
    BY <1>2, <2>1 DEF PartsInv
<1>3. ASSUME NEW created \in BOOLEAN, AdminRead(created) PROVE PartsInv'
  <2>1. PICK d \in Defs :
          /\ adm'.todo = [stop |-> {}, start |-> ProgsOf(d)]
          /\ topics' = IF created THEN UpdateTopics(topics, AsRead[d.id]) ELSE topics
          /\ faults' = IF created THEN faults ELSE faults + 1
          /\ UNCHANGED <<consTopic, held>>
    BY <1>3, ReadStep
  <2> SUFFICES ASSUME faults' = 0 PROVE PartsInv'
    BY DEF PartsInv
  <2>2. created /\ faults = 0
    BY <1>0, <2>1
  <2>3. /\ \A k \in DOMAIN consTopic' : There(topics', consTopic'[k].prog)
        /\ \A p \in held' \ Base : There(topics', p)
    BY <1>1, <2>1, <2>2 DEF PartsInv, Stays
  <2>4. \A p \in adm'.todo.start : There(topics', p)
    <3>1. PICK i \in Publishable : d.id = i
      BY DEF Defs
    <3>2. PICK old : old = topics
      OBVIOUS
    <3>3. PICK new : new = topics' /\ new = UpdateTopics(old, AsRead[i])
      BY <2>1, <2>2, <3>1, <3>2
    <3>4. \A t \in DOMAIN old : MadeFor(t, old[t])
      BY <3>2 DEF TopicsInv
    <3>5. \A p \in Progs[i] : There(new, p)
      BY <3>3, <3>4, WantedThere
    <3>6. adm'.todo.start \subseteq Progs[i]
      BY <2>1, <3>1 DEF ProgsOf
    <3> QED
      BY <3>3, <3>5, <3>6
  <2> QED
    BY <2>3, <2>4 DEF PartsInv
<1>4. ASSUME NEW p \in Programs, AdminSend(p) PROVE PartsInv'
  <2> DEFINE m == [dir |-> "START", prog |-> p]
  <2>1. /\ p \in adm.todo.start /\ adm'.todo = [stop |-> {}, start |-> adm.todo.start \ {p}]
        /\ consTopic' = IF reading THEN Append(consTopic, m) ELSE consTopic
        /\ UNCHANGED <<faults, held, topics>>
    BY <1>4, SendStep DEF runnerVars
  <2>2. m.prog = p
    OBVIOUS
  <2> HIDE DEF m
  <2>3. \A k \in DOMAIN consTopic' : consTopic'[k] = m \/ \E l \in DOMAIN consTopic : consTopic'[k] = consTopic[l]
    <3>1. consTopic \in Seq(Directives)
      BY DEF RunInv
    <3> QED
      BY <2>1, <3>1
  <2>4. adm'.todo.start \subseteq adm.todo.start
    BY <2>1
  <2> QED
    BY <2>1, <2>2, <2>3, <2>4 DEF PartsInv
<1>5. ASSUME NEW started \in SUBSET Base, Start(started) PROVE PartsInv'
  <2>1. /\ adm'.todo.start = {} /\ consTopic' = consTopic /\ held' \subseteq Base
        /\ faults' = faults \/ faults' = faults + 1
    BY <1>5 DEF Start, RunnerStart, AdmStart, NoTodo
  <2> QED
    BY <1>0, <1>2, <2>1
<1>6. ASSUME NEW ok \in BOOLEAN, Handle(ok) PROVE PartsInv'
  <2>1. HandleDirective(ok) /\ adm' = adm
    BY <1>6 DEF Handle
  <2>2. /\ 1 \in DOMAIN consTopic /\ Head(consTopic) = consTopic[1]
        /\ \A k \in DOMAIN consTopic' : /\ k + 1 \in DOMAIN consTopic
                                        /\ consTopic'[k] = consTopic[k + 1]
    BY <2>1, DirectiveTaken
  <2>3. held' \subseteq held \cup {Head(consTopic).prog}
    BY <2>1 DEF HandleDirective, UpdateRunning
  <2>4. faults' = 0 => faults = 0
    BY <1>0, <2>1 DEF HandleDirective
  <2> SUFFICES ASSUME faults' = 0 PROVE PartsInv'
    BY DEF PartsInv
  <2>5. /\ \A q \in adm.todo.start : There(topics', q)
        /\ \A k \in DOMAIN consTopic : There(topics', consTopic[k].prog)
        /\ \A q \in held \ Base : There(topics', q)
    BY <1>1, <2>4 DEF PartsInv, Stays
  <2> QED
    BY <2>1, <2>2, <2>3, <2>5 DEF PartsInv
<1>7. CASE AdminFind
  <2>1. adm'.todo = adm.todo
    BY <1>7 DEF AdminFind, AdmInv
  <2>2. UNCHANGED <<consTopic, held, faults>>
    BY <1>7 DEF AdminFind, runnerVars
  <2> QED
    BY <1>2, <2>1, <2>2
<1>8. ASSUME NEW p \in Programs, End(p) \/ AdminFatal PROVE PartsInv'
  <2>1. /\ UNCHANGED <<consTopic, adm>> /\ held' \subseteq held
        /\ faults' = faults \/ faults' = faults + 1
    BY <1>8 DEF End, AdminFatal, Exit
  <2> QED
    BY <1>0, <1>2, <2>1
<1>9. CASE Stop
  <2>1. consTopic' = <<>> /\ held' = {} /\ UNCHANGED <<adm, faults>>
    BY <1>9 DEF Stop, RunnerStop, mgmtVars
  <2> QED
    BY <1>2, <2>1
<1>10. CASE (\E i \in DOMAIN RawDefs : Publish(i)) \/ (\E d \in pending : Deliver(d))
  <2>1. UNCHANGED <<consTopic, held, adm, faults>>
    BY <1>10 DEF Publish, Deliver, runnerVars
  <2> QED
    BY <1>2, <2>1
<1>11. CASE Query \/ Maintain \/ UNCHANGED vars
  <2>1. UNCHANGED <<consTopic, held, adm, faults>>
    BY <1>11 DEF Query, QueryWatermark, Maintain, Maintenance, vars, mgmtVars, runnerVars
  <2> QED
    BY <1>2, <2>1
<1>12. CASE AdminFatal
  BY <1>8, <1>12, AdminAssumption, BaseAssumption
<1> QED
  BY <1>3, <1>4, <1>5, <1>6, <1>7, <1>8, <1>9, <1>10, <1>11, <1>12 DEF Next

\* A program that the runner holds, other than its base programs, is on a
\* partition that exists, however reading, creation and directives interleave,
\* unless a creation failed, for all definitions of which none changes the
\* partitions of a generation (managePlatform creates before it tells the runner).
THEOREM PartitionsExist == Spec => [](GenerationsKept => PartitionsThere)
<1> DEFINE I == GenerationsKept => PartsInv
<1>1. Init => I
  BY DEF Init, RunnerInit, AdmStart, NoTodo, PartsInv
<1>2. MgmtInv /\ I /\ [Next]_vars => I'
  <2>1. GenerationsKept' <=> GenerationsKept
    BY DEF GenerationsKept
  <2> QED
    BY <2>1, PartsStep
<1>3. MgmtInv /\ I => (GenerationsKept => PartitionsThere)
  <2> SUFFICES ASSUME MgmtInv, PartsInv PROVE PartitionsThere
    OBVIOUS
  <2>1. faults \in Nat
    BY RunnerBoundsAssumption DEF MgmtInv, RunInv
  <2>2. faults > 0 \/ faults = 0
    BY <2>1
  <2>3. faults = 0 => \A p \in held \ Base : There(topics, p)
    BY DEF PartsInv
  <2> QED
    BY <2>2, <2>3, Zenon DEF PartitionsThere, There
<1> QED
  BY <1>1, <1>2, <1>3, MgmtInvariant, PTL DEF Spec
=============================================================================
