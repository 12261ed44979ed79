------------------------ MODULE ApecsConsumerProofs -------------------------
(***************************************************************************)
(* Proofs about the consumers of a topic partition, for any number of      *)
(* messages and of storage targets.  A consumer group of its own for each  *)
(* target is what they rest on.                                            *)
(***************************************************************************)
EXTENDS ApecsConsumer, TLAPS

OwnGroup == \A m, n \in Targets : GroupName(m) = GroupName(n) => m = n

\* The groups of the STORAGE topics have the target in their name, and a single
\* target shares its group with none.
LEMMA GroupsApart ==
    ASSUME System = "STORAGE" \/ (\A m, n \in Targets : m = n)
    PROVE  OwnGroup
BY DEF OwnGroup, GroupName

LEMMA GroupNameType == \A m \in Targets : GroupName(m) \in Groups
BY DEF Groups

-----------------------------------------------------------------------------

\* The state keeps its type, and the brokers' offsets stay offsets.
THEOREM TypeCorrect == Spec => []TypeOK
<1>1. Init => TypeOK
  BY MaxMsgsAssumption DEF Init, TypeOK
<1>2. TypeOK /\ [Next]_vars => TypeOK'
  <2> SUFFICES ASSUME TypeOK, [Next]_vars
               PROVE  TypeOK'
    OBVIOUS
  <2> USE GroupNameType DEF TypeOK
  <2>1. CASE Produce
    BY <2>1, MaxMsgsAssumption DEF Produce
  <2>2. ASSUME NEW m \in Targets, Start(m)
        PROVE  TypeOK'
    BY <2>2, MaxMsgsAssumption DEF Start
  <2>3. ASSUME NEW m \in Targets, Read(m)
        PROVE  TypeOK'
    BY <2>3 DEF Read, SetGroup
  <2>4. ASSUME NEW m \in Targets, Handle(m)
        PROVE  TypeOK'
    BY <2>4 DEF Handle
  <2>5. ASSUME NEW m \in Targets, Bailout(m)
        PROVE  TypeOK'
    BY <2>5 DEF Bailout, SetGroup
  <2>6. ASSUME NEW m \in Targets, StoreOffsets(m)
        PROVE  TypeOK'
    BY <2>6 DEF StoreOffsets
  <2>7. ASSUME NEW m \in Targets, Commit(m)
        PROVE  TypeOK'
    BY <2>7 DEF Commit, SetGroup
  <2>8. ASSUME NEW m \in Targets, Stop(m)
        PROVE  TypeOK'
    BY <2>8 DEF Stop, SetGroup
  <2>9. ASSUME NEW m \in Targets, Crash(m)
        PROVE  TypeOK'
    BY <2>9 DEF Crash
  <2>10. CASE UNCHANGED vars
    BY <2>10 DEF vars
  <2> QED
    BY <2>1, <2>2, <2>3, <2>4, <2>5, <2>6, <2>7, <2>8, <2>9, <2>10 DEF Next
<1> QED
  BY <1>1, <1>2, PTL DEF Spec

-----------------------------------------------------------------------------

\* What is true of one program stays true while another one takes a step: it
\* has its own variables and its own group.
OwnState(m) ==
    <<groupOff[GroupName(m)], pc[m], next[m], first[m], stored[m],
      shouldCommit[m], handled[m]>>

LEMMA OthersKeep ==
    ASSUME NEW m \in Targets, UNCHANGED OwnState(m),
           produced \in Nat, produced' \in Nat, produced <= produced',
           TypeOK, GroupInv(m), ProgramInv(m), LoopInv(m)
    PROVE  GroupInv(m)' /\ ProgramInv(m)' /\ LoopInv(m)'
BY DEF OwnState, GroupInv, ProgramInv, LoopInv, Reaches, TypeOK

\* Handling the message at an offset that reading on may start from, gives no
\* gap, and leaves every other such offset one.
LEMMA HandleKeepsReaches ==
    ASSUME NEW H \in SUBSET Nat, NEW n \in Nat, NEW k \in Nat, H # {},
           \E i \in H : i <= n, \A i \in H : \A o \in i..(n - 1) : o \in H,
           \E i \in H : i <= k, \A i \in H : \A o \in i..(k - 1) : o \in H
    PROVE  /\ \E i \in H \cup {n} : i <= k
           /\ \A i \in H \cup {n} : \A o \in i..(k - 1) : o \in H \cup {n}
<1>1. PICK e \in H : e <= n
  OBVIOUS
<1>2. ASSUME NEW o \in n..(k - 1)
      PROVE  o \in H
  <2>1. o \in e..(k - 1)
    BY <1>1
  <2> QED
    BY <2>1
<1> QED
  BY <1>2

LEMMA HandleKeepsNoGap ==
    ASSUME NEW H \in SUBSET Nat, NEW n \in Nat, H # {},
           \E i \in H : i <= n, \A i \in H : \A o \in i..(n - 1) : o \in H,
           \A i, j \in H : \A o \in i..j : o \in H
    PROVE  \A i, j \in H \cup {n} : \A o \in i..j : o \in H \cup {n}
<1>1. PICK e \in H : e <= n
  OBVIOUS
<1>2. ASSUME NEW j \in H, NEW o \in n..j
      PROVE  o \in H
  <2>1. o \in e..j
    BY <1>1
  <2> QED
    BY <2>1
<1>3. ASSUME NEW i \in H, NEW o \in i..n
      PROVE  o \in H \cup {n}
  <2>1. o = n \/ o \in i..(n - 1)
    OBVIOUS
  <2> QED
    BY <2>1
<1>4. \A o \in n..n : o = n
  OBVIOUS
<1> QED
  BY <1>2, <1>3, <1>4

-----------------------------------------------------------------------------

\* A step of the program m leaves the state of the others alone.
LEMMA OneProgramSteps ==
    ASSUME TypeOK, OwnGroup, NEW m \in Targets,
           \/ Start(m) \/ Read(m) \/ Handle(m) \/ Bailout(m)
           \/ StoreOffsets(m) \/ Commit(m) \/ Stop(m) \/ Crash(m)
    PROVE  \A n \in Targets \ {m} : UNCHANGED OwnState(n)
<1> SUFFICES ASSUME NEW n \in Targets \ {m}
             PROVE  UNCHANGED OwnState(n)
  OBVIOUS
<1>1. GroupName(n) # GroupName(m) /\ GroupName(n) \in Groups
  BY GroupNameType DEF OwnGroup
<1> QED
  BY <1>1 DEF OwnState, TypeOK, Start, Read, Handle, Bailout, StoreOffsets,
              Commit, Stop, Crash, SetGroup

LEMMA StartInv ==
    ASSUME TypeOK, NEW m \in Targets, Start(m),
           GroupInv(m), ProgramInv(m), LoopInv(m)
    PROVE  GroupInv(m)' /\ ProgramInv(m)' /\ LoopInv(m)'
BY GroupNameType DEF Start, TypeOK, GroupInv, ProgramInv, LoopInv, Reaches

LEMMA ReadInv ==
    ASSUME TypeOK, NEW m \in Targets, Read(m),
           GroupInv(m), ProgramInv(m), LoopInv(m)
    PROVE  GroupInv(m)' /\ ProgramInv(m)' /\ LoopInv(m)'
BY GroupNameType, NoneAssumption
   DEF Read, SetGroup, TypeOK, GroupInv, ProgramInv, LoopInv, Reaches

LEMMA HandleInv ==
    ASSUME TypeOK, NEW m \in Targets, Handle(m),
           GroupInv(m), ProgramInv(m), LoopInv(m)
    PROVE  GroupInv(m)' /\ ProgramInv(m)' /\ LoopInv(m)'
<1> DEFINE H == handled[m]
           n == next[m]
           g == groupOff[GroupName(m)]
<1>1. /\ H \in SUBSET Nat /\ n \in Nat /\ g \in Nat
      /\ handled'[m] = H \cup {n} /\ UNCHANGED <<n, g, stored, shouldCommit>>
      /\ stored[m] \in Nat \cup {None}
      /\ pc[m] = "handle" /\ pc'[m] = "store" /\ n < produced /\ produced' = produced
  BY GroupNameType DEF Handle, TypeOK, LoopInv
<1>2. ASSUME NEW k \in Nat, Reaches(m, k), H = {} => k = n
      PROVE  Reaches(m, k)'
  <2>1. CASE H = {}
    BY <1>1, <1>2, <2>1 DEF Reaches
  <2>2. CASE H # {}
    <3>1. Reaches(m, n)
      BY <1>1 DEF ProgramInv
    <3> HIDE DEF n
    <3>2. /\ \E i \in H \cup {n} : i <= k
          /\ \A i \in H \cup {n} : \A o \in i..(k - 1) : o \in H \cup {n}
      BY <1>1, <1>2, <2>2, <3>1, HandleKeepsReaches DEF Reaches
    <3> QED
      BY <1>1, <3>2 DEF Reaches
  <2> QED
    BY <2>1, <2>2
<1>3. Reaches(m, g)' /\ Reaches(m, n)'
  <2>1. Reaches(m, g) /\ (H = {} => g = n)
    BY <1>1, NoneAssumption DEF GroupInv, LoopInv
  <2>2. Reaches(m, n)
    BY <1>1 DEF ProgramInv
  <2>3. Reaches(m, g)'
    BY <1>1, <1>2, <2>1 DEF Reaches
  <2>4. Reaches(m, n)'
    BY <1>1, <1>2, <2>2 DEF Reaches
  <2> QED
    BY <2>3, <2>4
<1>4. stored[m] # None => Reaches(m, stored[m])'
  <2> SUFFICES ASSUME stored[m] # None
               PROVE  Reaches(m, stored[m])'
    OBVIOUS
  <2>1. stored[m] \in Nat /\ H # {} /\ Reaches(m, stored[m])
    BY <1>1 DEF ProgramInv
  <2> QED
    BY <1>1, <1>2, <2>1 DEF Reaches
<1> QED
  BY <1>1, <1>3, <1>4, NoneAssumption
     DEF Handle, GroupInv, ProgramInv, LoopInv

LEMMA BailoutInv ==
    ASSUME TypeOK, NEW m \in Targets, Bailout(m),
           GroupInv(m), ProgramInv(m), LoopInv(m)
    PROVE  GroupInv(m)' /\ ProgramInv(m)' /\ LoopInv(m)'
BY GroupNameType, NoneAssumption
   DEF Bailout, SetGroup, TypeOK, GroupInv, ProgramInv, LoopInv, Reaches

\* The message at next is handled, so reading on after it leaves no gap.
LEMMA StoreOffsetsInv ==
    ASSUME TypeOK, NEW m \in Targets, StoreOffsets(m),
           GroupInv(m), ProgramInv(m), LoopInv(m)
    PROVE  GroupInv(m)' /\ ProgramInv(m)' /\ LoopInv(m)'
<1> DEFINE n == next[m]
<1>1. /\ n \in Nat /\ n \in handled[m] /\ handled[m] \in SUBSET Nat
      /\ pc[m] = "store" /\ pc'[m] = "poll" /\ next'[m] = n + 1
      /\ stored'[m] = n + 1 /\ shouldCommit'[m] = TRUE
      /\ UNCHANGED <<produced, groupOff, first, handled>>
  BY DEF StoreOffsets, TypeOK, LoopInv
<1>2. Reaches(m, n)
  BY <1>1 DEF ProgramInv
<1>3. Reaches(m, n + 1)
  <2>1. ASSUME NEW i \in handled[m], NEW o \in i..((n + 1) - 1)
        PROVE  o \in handled[m]
    <3>1. o = n \/ o \in i..(n - 1)
      BY <1>1
    <3> QED
      BY <1>1, <1>2, <3>1 DEF Reaches
  <2> QED
    BY <1>1, <2>1 DEF Reaches
<1>4. Reaches(m, next[m])' /\ Reaches(m, stored[m])'
  BY <1>1, <1>3 DEF Reaches
<1>5. GroupInv(m)'
  BY <1>1 DEF GroupInv, Reaches
<1> QED
  BY <1>1, <1>4, <1>5, NoneAssumption DEF ProgramInv, LoopInv

LEMMA CommitInv ==
    ASSUME TypeOK, NEW m \in Targets, Commit(m),
           GroupInv(m), ProgramInv(m), LoopInv(m)
    PROVE  GroupInv(m)' /\ ProgramInv(m)' /\ LoopInv(m)'
BY GroupNameType, NoneAssumption
   DEF Commit, SetGroup, TypeOK, GroupInv, ProgramInv, LoopInv, Reaches

LEMMA StopInv ==
    ASSUME TypeOK, NEW m \in Targets, Stop(m),
           GroupInv(m), ProgramInv(m), LoopInv(m)
    PROVE  GroupInv(m)' /\ ProgramInv(m)' /\ LoopInv(m)'
BY GroupNameType, NoneAssumption
   DEF Stop, SetGroup, TypeOK, GroupInv, ProgramInv, LoopInv, Reaches

LEMMA CrashInv ==
    ASSUME TypeOK, NEW m \in Targets, Crash(m),
           GroupInv(m), ProgramInv(m), LoopInv(m)
    PROVE  GroupInv(m)' /\ ProgramInv(m)' /\ LoopInv(m)'
BY DEF Crash, TypeOK, GroupInv, ProgramInv, LoopInv, Reaches

-----------------------------------------------------------------------------

\* The parts of the invariant that are about one program, for every program.
ProgramsInv == \A m \in Targets : GroupInv(m) /\ ProgramInv(m) /\ LoopInv(m)

LEMMA InitInv == Init => ProgramsInv /\ NoMessageSkipped
BY GroupNameType
   DEF Init, ProgramsInv, GroupInv, ProgramInv, LoopInv, Reaches,
       NoMessageSkipped, Promise!NoGap

LEMMA StepInv ==
    ASSUME OwnGroup, TypeOK, TypeOK', ProgramsInv, [Next]_vars
    PROVE  ProgramsInv'
<1>1. produced \in Nat /\ produced' \in Nat /\ produced <= produced'
  BY MaxMsgsAssumption
     DEF TypeOK, Next, vars, Produce, Start, Read, Handle, Bailout,
         StoreOffsets, Commit, Stop, Crash
<1>2. ASSUME NEW m \in Targets, UNCHANGED OwnState(m)
      PROVE  GroupInv(m)' /\ ProgramInv(m)' /\ LoopInv(m)'
  BY <1>1, <1>2, OthersKeep DEF ProgramsInv
<1>3. CASE Produce \/ UNCHANGED vars
  <2>1. \A m \in Targets : UNCHANGED OwnState(m)
    BY <1>3 DEF Produce, vars, OwnState
  <2> QED
    BY <1>2, <2>1 DEF ProgramsInv
<1>4. ASSUME NEW m \in Targets,
             \/ Start(m) \/ Read(m) \/ Handle(m) \/ Bailout(m)
             \/ StoreOffsets(m) \/ Commit(m) \/ Stop(m) \/ Crash(m)
      PROVE  ProgramsInv'
  <2>1. \A n \in Targets \ {m} : UNCHANGED OwnState(n)
    BY <1>4, OneProgramSteps
  <2>2. GroupInv(m) /\ ProgramInv(m) /\ LoopInv(m)
    BY DEF ProgramsInv
  <2>3. GroupInv(m)' /\ ProgramInv(m)' /\ LoopInv(m)'
    BY <1>4, <2>2, StartInv, ReadInv, HandleInv, BailoutInv, StoreOffsetsInv,
       CommitInv, StopInv, CrashInv
  <2> QED
    BY <1>2, <2>1, <2>3 DEF ProgramsInv
<1> QED
  BY <1>3, <1>4 DEF Next

\* A step that handles a message handles one that leaves no gap.
LEMMA StepNoGap ==
    ASSUME TypeOK, ProgramsInv, NoMessageSkipped, [Next]_vars
    PROVE  NoMessageSkipped'
<1>1. ASSUME NEW m \in Targets, Handle(m)
      PROVE  NoMessageSkipped'
  <2> DEFINE H == handled[m]
             n == next[m]
  <2>1. /\ H \in SUBSET Nat /\ n \in Nat /\ Reaches(m, n)
        /\ handled' = [handled EXCEPT ![m] = H \cup {n}]
    BY <1>1 DEF Handle, TypeOK, ProgramsInv, ProgramInv
  <2>2. \A i, j \in H : \A o \in i..j : o \in H
    BY DEF NoMessageSkipped, Promise!NoGap
  <2>3. \A i, j \in H \cup {n} : \A o \in i..j : o \in H \cup {n}
    <3>1. CASE H = {}
      BY <2>1, <3>1
    <3>2. CASE H # {}
      <4> HIDE DEF H, n
      <4> QED
        BY <2>1, <2>2, <3>2, HandleKeepsNoGap DEF Reaches, H
    <3> QED
      BY <3>1, <3>2
  <2>4. ASSUME NEW k \in Targets
        PROVE  \A i, j \in handled'[k] : \A o \in i..j : o \in handled'[k]
    <3>1. CASE k = m
      BY <2>1, <2>3, <3>1 DEF TypeOK
    <3>2. CASE k # m
      BY <2>1, <3>2 DEF TypeOK, NoMessageSkipped, Promise!NoGap
    <3> QED
      BY <3>1, <3>2
  <2> QED
    BY <2>4 DEF NoMessageSkipped, Promise!NoGap
<1>2. CASE UNCHANGED handled
  BY <1>2 DEF NoMessageSkipped, Promise!NoGap
<1> QED
  BY <1>1, <1>2
     DEF Next, vars, Produce, Start, Read, Bailout, StoreOffsets, Commit, Stop, Crash

\* The whole invariant: what the brokers keep, what a running program reads next
\* and would commit, and where it is in its loop, when each target's program has
\* a consumer group of its own.
THEOREM Inductive ==
    ASSUME OwnGroup
    PROVE  Spec => []IInv
<1>1. Init => ProgramsInv /\ NoMessageSkipped
  BY InitInv
<1>2. TypeOK /\ TypeOK' /\ ProgramsInv /\ NoMessageSkipped /\ [Next]_vars
        => ProgramsInv' /\ NoMessageSkipped'
  BY StepInv, StepNoGap
<1>3. TypeOK /\ ProgramsInv /\ NoMessageSkipped => IInv
  BY DEF IInv, ProgramsInv
<1> QED
  BY <1>1, <1>2, <1>3, TypeCorrect, PTL DEF Spec

\* No message is skipped between two that a target was given, whatever the
\* stops, bailouts and crashes of its program, under the same hypothesis.
THEOREM NothingSkipped ==
    ASSUME OwnGroup
    PROVE  Spec => []NoMessageSkipped
<1>1. IInv => NoMessageSkipped
  BY DEF IInv
<1> QED
  BY <1>1, Inductive, PTL

\* Below the offset that the brokers keep for it, a target has been given every
\* message since its first one.
THEOREM CommittedWasHandled ==
    ASSUME OwnGroup
    PROVE  Spec => []CommittedIsHandled
<1>1. IInv => CommittedIsHandled
  BY DEF IInv, GroupInv, Reaches, CommittedIsHandled
<1> QED
  BY <1>1, Inductive, PTL

\* The consumers keep the promise of Delivery: every step of a program is one
\* that handles a permitted message, or is none of the storage target's
\* business.
THEOREM KeepsPromise ==
    ASSUME OwnGroup
    PROVE  Spec => HandledInOrder
<1>1. Init => Promise!Init
  BY DEF Init, Promise!Init
<1>2. IInv /\ [Next]_vars => [Promise!Next]_(Promise!vars)
  <2> SUFFICES ASSUME IInv, [Next]_vars
               PROVE  [Promise!Next]_(Promise!vars)
    OBVIOUS
  <2>1. CASE Produce
    BY <2>1 DEF Produce, Promise!Next, Promise!Produce
  <2>2. ASSUME NEW m \in Targets, Handle(m)
        PROVE  Promise!Next
    <3>1. /\ next[m] \in Nat /\ produced \in Nat /\ next[m] < produced
          /\ handled[m] \in SUBSET Nat
          /\ handled' = [handled EXCEPT ![m] = @ \cup {next[m]}]
          /\ produced' = produced /\ Reaches(m, next[m])
      BY <2>2, MaxMsgsAssumption DEF Handle, TypeOK, IInv, ProgramInv, LoopInv
    <3>2. \/ handled[m] = {}
          \/ next[m] \in handled[m]
          \/ \E prev \in handled[m] : next[m] = prev + 1
      <4> SUFFICES ASSUME handled[m] # {}, next[m] \notin handled[m]
                   PROVE  \E prev \in handled[m] : next[m] = prev + 1
        OBVIOUS
      <4>1. PICK i \in handled[m] : i <= next[m]
        BY <3>1 DEF Reaches
      <4>2. next[m] - 1 \in i..(next[m] - 1)
        BY <3>1, <4>1
      <4>3. next[m] - 1 \in handled[m]
        BY <3>1, <4>1, <4>2 DEF Reaches
      <4> QED
        BY <3>1, <4>3
    <3>3. next[m] \in 0..(produced - 1)
      BY <3>1
    <3>4. Promise!Handle(m)
      BY <3>1, <3>2, <3>3 DEF Promise!Handle
    <3> QED
      BY <3>4 DEF Promise!Next
  <2>3. CASE UNCHANGED <<produced, handled>>
    BY <2>3 DEF Promise!vars
  <2> QED
    BY <2>1, <2>2, <2>3
       DEF Next, vars, Start, Read, Bailout, StoreOffsets, Commit, Stop, Crash
<1> QED
  BY <1>1, <1>2, Inductive, PTL DEF Spec, HandledInOrder, Promise!Spec
=============================================================================
