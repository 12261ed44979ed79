-------------------------------- MODULE Mgmt --------------------------------
(***************************************************************************)
(* From a definition of the platform to the programs that run: operators   *)
(* publish definitions on the platform topic, admin (a program of the      *)
(* runner) reads them, creates topics and sends directives on the          *)
(* consumers topic, and the runner starts the programs.                    *)
(*                                                                         *)
(* The state of admin is that of ConsumePlatformTopic (pos: the next       *)
(* message, 0 before the search for the last one; curr: its currRtPlatDef) *)
(* and its own (def, todo).  Managed producers, consumers, the portal and  *)
(* watch follow the platform topic through the same ConsumePlatformTopic.  *)
(***************************************************************************)
EXTENDS PlatformDef, Runner

CONSTANTS RawDefs,     \* a sequence: the definitions as operators write them
          NoDef,       \* a nil definition
          AdminProg,   \* the key of admin's program
          MaxPublish   \* bound: definitions that are published

ASSUME AdminAssumption == AdminProg \in Base
ASSUME RawDefsAssumption == \A i \in DOMAIN RawDefs : IsDef(RawDefs[i])
ASSUME MaxPublishAssumption == MaxPublish \in Nat

VARIABLES platTopic,  \* the platform topic
          pending,    \* definitions stamped and not yet delivered
          clock,      \* the last UpdateTime that was given
          topics,     \* the physical topics and their partition counts
          adm,        \* admin: pos, curr, def, and the directives to send
          asked,      \* history: the programs of the definitions admin has read
          missed,     \* history: STARTs sent before the runner's query
          ended       \* history: programs that ended, or did not start

mgmtVars == <<platTopic, pending, clock, topics, adm, asked, missed, ended>>
vars == <<consTopic, runnerVars, mgmtVars>>

NoTodo == [stop |-> {}, start |-> {}]
AdmStart == [pos |-> 0, curr |-> NoDef, def |-> NoDef, todo |-> NoTodo]

\* On the topic a definition is its number in RawDefs and its UpdateTime.  It
\* was completed when it was published, and is completed again by who reads it.
Published == [i \in DOMAIN RawDefs |-> Completed(RawDefs[i])]
AsRead == [i \in DOMAIN RawDefs |-> Completed(Published[i])]
Publishable == {i \in DOMAIN RawDefs : Accepted(RawDefs[i])}
Readable == {i \in DOMAIN RawDefs : Accepted(Published[i])}
Progs == [i \in DOMAIN RawDefs |-> AllProgs(AsRead[i])]

ASSUME ProgramsAssumption == \A i \in Publishable : Progs[i] \subseteq Programs

ProgsOf(def) == IF def = NoDef THEN {} ELSE Progs[def.id]

Init ==
    /\ RunnerInit
    /\ platTopic = <<>>
    /\ pending = {}
    /\ clock = 0
    /\ topics = [t \in {} |-> 0]
    /\ adm = AdmStart
    /\ asked = {}
    /\ missed = {}
    /\ ended = {}

-----------------------------------------------------------------------------
\* PlatformReplaceFromJson: the definition is stamped with the time and
\* completed; one that is refused is not published ...
Publish(i) ==
    /\ clock < MaxPublish
    /\ i \in Publishable
    /\ clock' = clock + 1
    /\ pending' = pending \cup {[id |-> i, stamp |-> clock + 1]}
    /\ UNCHANGED <<consTopic, runnerVars, platTopic, topics, adm, asked, missed, ended>>

\* ... and produced after the platform's topics have been seen to, so the
\* definitions of two operators need not arrive in the order of their stamps.
\* One that could not be produced stays pending.
Deliver(d) ==
    /\ d \in pending
    /\ pending' = pending \ {d}
    /\ platTopic' = Append(platTopic, d)
    /\ UNCHANGED <<consTopic, runnerVars, clock, topics, adm, asked, missed, ended>>

-----------------------------------------------------------------------------
\* FindMostRecentMatching, AT_LAST_MATCH: the last message of the topic, as all
\* of them are definitions; when there is none, the first one to arrive.
LastMatch == IF platTopic = <<>> THEN 1 ELSE Len(platTopic)

\* What currRtPlatDef would be, were it assigned.
CurrAfterAssigned(curr, d) == d

\* No line of ConsumePlatformTopic assigns currRtPlatDef.
CurrAfter(curr, d) == curr

\* Its handler passes a definition on when it can be completed and is not, by
\* its hash or its time, one that the current one stands against.
Passes(curr, d) ==
    /\ d.id \in Readable
    /\ curr # NoDef => d # curr /\ d.stamp > curr.stamp

\* One turn of the reader's loop.
ReadNext(r) ==
    LET d == platTopic[r.pos]
    IN IF Passes(r.curr, d)
       THEN [r EXCEPT !.pos = @ + 1, !.def = d, !.curr = CurrAfter(@, d)]
       ELSE [r EXCEPT !.pos = @ + 1]

-----------------------------------------------------------------------------
AdminRuns == AdminProg \in held

AdminFind ==
    /\ AdminRuns
    /\ adm.pos = 0
    /\ adm' = [adm EXCEPT !.pos = LastMatch]
    /\ UNCHANGED <<consTopic, runnerVars, platTopic, pending, clock, topics, asked,
                   missed, ended>>

\* Nothing arrives within five seconds: log.Fatal.
AdminFatal ==
    /\ AdminRuns
    /\ adm.pos = 1
    /\ platTopic = <<>>
    /\ Exit(AdminProg)
    /\ ended' = ended \cup {AdminProg}
    /\ UNCHANGED <<faults, platTopic, pending, clock, topics, adm, asked, missed>>

\* managePlatform: the difference to the old definition, the missing topics,
\* and the directives that updateRunner will send.  UpdateTopics may fail
\* (created is FALSE), and nobody looks at its error.
AdminRead(created) ==
    /\ AdminRuns
    /\ adm.pos \in 1..Len(platTopic)
    /\ adm.todo = NoTodo
    /\ LET next == ReadNext(adm)
           passed == Passes(adm.curr, platTopic[adm.pos])
       IN /\ adm' = IF passed
                    THEN [next EXCEPT !.todo = Diff(ProgsOf(next.def), ProgsOf(adm.curr))]
                    ELSE next
          /\ topics' = IF passed /\ created THEN UpdateTopics(topics, AsRead[next.def.id]) ELSE topics
          /\ asked' = IF passed THEN asked \cup ProgsOf(next.def) ELSE asked
    /\ ~created => faults < MaxFaults
    /\ faults' = IF created THEN faults ELSE faults + 1
    /\ UNCHANGED <<consTopic, up, reading, running, held, live, starts, platTopic, pending,
                   clock, missed, ended>>

\* updateRunner: the STOPs, then the STARTs, each in the order of a Go map.
AdminSend(p) ==
    /\ AdminRuns
    /\ LET stopping == adm.todo.stop # {}
       IN /\ p \in IF stopping THEN adm.todo.stop ELSE adm.todo.start
          /\ Send([dir |-> IF stopping THEN "STOP" ELSE "START", prog |-> p])
          /\ adm' = IF stopping THEN [adm EXCEPT !.todo.stop = @ \ {p}]
                                ELSE [adm EXCEPT !.todo.start = @ \ {p}]
          /\ missed' = IF stopping THEN missed
                       ELSE IF reading THEN missed \ {p} ELSE missed \cup {p}
    /\ UNCHANGED <<runnerVars, platTopic, pending, clock, topics, asked, ended>>

-----------------------------------------------------------------------------
\* The runner's steps, and what they mean for its admin.
Start(started) ==
    /\ RunnerStart(started)
    /\ adm' = AdmStart
    /\ asked' = {}
    /\ missed' = {}
    /\ ended' = Base \ started
    /\ UNCHANGED <<platTopic, pending, clock, topics>>

Query == QueryWatermark /\ UNCHANGED mgmtVars

Handle(ok) ==
    /\ HandleDirective(ok)
    /\ ended' = IF ok THEN ended ELSE ended \cup {Head(consTopic).prog}
    /\ UNCHANGED <<platTopic, pending, clock, topics, adm, asked, missed>>

Maintain == Maintenance /\ UNCHANGED mgmtVars

End(p) ==
    /\ faults < MaxFaults
    /\ faults' = faults + 1
    /\ Exit(p)
    /\ ended' = ended \cup {p}
    /\ UNCHANGED <<platTopic, pending, clock, topics, adm, asked, missed>>

Stop == RunnerStop /\ UNCHANGED mgmtVars

Next ==
    \/ \E i \in DOMAIN RawDefs : Publish(i)
    \/ \E d \in pending : Deliver(d)
    \/ AdminFind
    \/ AdminFatal
    \/ \E created \in BOOLEAN : AdminRead(created)
    \/ \E p \in Programs : AdminSend(p)
    \/ \E started \in SUBSET Base : Start(started)
    \/ Query
    \/ \E ok \in BOOLEAN : Handle(ok)
    \/ Maintain
    \/ \E p \in Programs : End(p)
    \/ Stop

Spec == Init /\ [][Next]_vars

\* Admin's loop, the reader of the consumers topic, and the runner's ticker: each
\* goes on by itself as long as its process is there.  The steps of admin
\* exclude each other, and so do Query and Handle.
AdminStep ==
    \/ AdminFind
    \/ \E created \in BOOLEAN : AdminRead(created)
    \/ \E p \in Programs : AdminSend(p)
RunnerStep == Query \/ \E ok \in BOOLEAN : Handle(ok)

Fairness == WF_vars(AdminStep) /\ WF_vars(RunnerStep) /\ WF_vars(Maintain)

FairSpec == Spec /\ Fairness

-----------------------------------------------------------------------------
Defs == [id : Publishable, stamp : 1..MaxPublish]

TypeOK ==
    /\ RunnerTypeOK
    /\ platTopic \in Seq(Defs)
    /\ pending \subseteq Defs
    /\ clock \in 0..MaxPublish
    /\ \A t \in DOMAIN topics : t[1] \in RequiredTopics /\ topics[t] \in 1..MaxPartition
    /\ adm.pos \in 0..(MaxPublish + 1) /\ adm.def \in Defs \cup {NoDef}
    /\ adm.todo.stop \cup adm.todo.start \subseteq Programs
    /\ asked \subseteq Programs
    /\ missed \subseteq Programs
    /\ ended \subseteq Programs

\* Admin at the end of the platform topic holds what a reader that starts now
\* would take, the last definition there, whatever the UpdateTimes of the
\* definitions: all who follow the topic are of one mind, whenever they
\* started (ConsumePlatformTopic begins AT_LAST_MATCH).
ReadersAgree ==
    platTopic # <<>> /\ adm.pos = Len(platTopic) + 1 => adm.def = platTopic[LastMatch]

\* A definition that was accepted when it was published is accepted and left as
\* it is by every reader, each of which completes it again (NewRtPlatformDef,
\* initTopics).
CompletedIsStable ==
    \A k \in DOMAIN platTopic :
        LET i == platTopic[k].id IN i \in Readable /\ AsRead[i] = Published[i]

Excused(p) == ~up \/ ~AdminRuns \/ p \in missed \cup ended

\* When no more definitions are published, every program of the definitions
\* that admin has read comes to run and goes on running, so that a generation
\* that was replaced is still read to its end.  Excused is a program whose
\* START came before the runner's query of the topic's end, that did not start
\* or has ended, and the end of admin or the runner (managePlatform,
\* updateRunner and updateRunning).
ProgramsStart ==
    <>[](\A p \in asked : p \in held \/ Excused(p))

\* A program is started for a partition that is there, however the reading of
\* definitions, the creation of topics and the directives interleave, unless
\* the creation failed (managePlatform updates the topics first).
PartitionsThere ==
    \A p \in held \ Base :
        \/ faults > 0
        \/ <<p.topic, p.gen>> \in DOMAIN topics /\ p.part < topics[<<p.topic, p.gen>>]

\* A program that has ended is started again, as long as the runner goes on
\* (doMaintenance).
EndedIsRestarted ==
    \A p \in Programs : (p \in running \ held) ~> (p \in held \/ ~up)
=============================================================================
