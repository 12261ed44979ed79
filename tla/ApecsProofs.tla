---------------------------- MODULE ApecsProofs -----------------------------
(***************************************************************************)
(* Proofs about the APECS engine, for any keys, partitions, transactions   *)
(* and bounds: types, that every message can be carried on with where it   *)
(* is, that storage writes are versioned by messages of their own          *)
(* transaction, and that rows only get newer.                              *)
(*                                                                         *)
(* What one iteration of a consumer's loop does is said once, in           *)
(* ConsumeEffect, and the invariants are proved from that.  Before it come *)
(* facts about the operators that the engine is made of: the order of the  *)
(* compound offsets, the guarded writes of the instance store and of the   *)
(* storage targets, and the operations on a transaction's list of steps.   *)
(***************************************************************************)
EXTENDS Apecs, FiniteSetTheorems, SequenceTheorems, WellFoundedInduction, TLAPS

-----------------------------------------------------------------------------
(* Compound offsets *)

\* OffsetGT is a strict total order and OffsetGTE is the order that goes with
\* it, though the code compares them field by field in two different ways.
LEMMA OffsetOrder ==
    ASSUME NEW a \in CmpdOffsets, NEW b \in CmpdOffsets, NEW c \in CmpdOffsets
    PROVE  /\ OffsetGTE(a, b) <=> OffsetGT(a, b) \/ a = b
           /\ OffsetGT(a, b) => ~OffsetGT(b, a)
           /\ OffsetGT(a, b) \/ OffsetGT(b, a) \/ a = b
           /\ OffsetGT(a, b) /\ OffsetGT(b, c) => OffsetGT(a, c)
<1>1. a = [gen |-> a.gen, part |-> a.part, off |-> a.off]
      /\ b = [gen |-> b.gen, part |-> b.part, off |-> b.off]
  BY DEF CmpdOffsets
<1>2. /\ a.gen \in Nat /\ a.part \in Nat /\ a.off \in Nat
      /\ b.gen \in Nat /\ b.part \in Nat /\ b.off \in Nat
      /\ c.gen \in Nat /\ c.part \in Nat /\ c.off \in Nat
  BY DEF CmpdOffsets
<1>3. a = b <=> a.gen = b.gen /\ a.part = b.part /\ a.off = b.off
  BY <1>1
<1> QED
  BY <1>2, <1>3 DEF OffsetGT, OffsetGTE

\* A write, taken or not, leaves a map from keys to records.
LEMMA WriteType ==
    ASSUME NEW K, NEW I, NEW map, IsMapTo(map, K, InstanceRecord(I)),
           NEW key \in K, NEW inst \in I, NEW off \in CmpdOffsets
    PROVE  /\ IsMapTo(StoreSet(map, key, inst, off), K, InstanceRecord(I))
           /\ IsMapTo(DbUpdate(map, key, inst, off), K, InstanceRecord(I))
<1>1. [inst |-> inst, off |-> off] \in InstanceRecord(I)
  BY DEF InstanceRecord
<1>2. IsMapTo(Put(map, key, [inst |-> inst, off |-> off]), K, InstanceRecord(I))
  BY <1>1 DEF IsMapTo, Put
<1> QED
  BY <1>2 DEF StoreSet, DbUpdate

LEMMA RestrictType ==
    ASSUME NEW K, NEW R, NEW map, IsMapTo(map, K, R), NEW X
    PROVE  IsMapTo([k \in DOMAIN map \ X |-> map[k]], K, R)
BY DEF IsMapTo

\* The offset guard: a write leaves no record older than it was, and the record
\* of its key not older than the write itself.
LEMMA UpdateIsNewer ==
    ASSUME NEW K, NEW I, NEW map, IsMapTo(map, K, InstanceRecord(I)),
           NEW key, NEW inst, NEW off \in CmpdOffsets,
           NEW new, new = DbUpdate(map, key, inst, off)
    PROVE  /\ DOMAIN new = DOMAIN map \cup {key}
           /\ \A k \in DOMAIN map : OffsetGTE(new[k].off, map[k].off)
           /\ OffsetGTE(new[key].off, off)
<1>1. \A k \in DOMAIN map : map[k].off \in CmpdOffsets
  BY DEF IsMapTo, InstanceRecord
<1>2. CASE key \in DOMAIN map /\ ~OffsetGT(off, map[key].off)
  <2>1. new = map
    BY <1>2 DEF DbUpdate
  <2> QED
    BY <1>1, <1>2, <2>1, OffsetOrder
<1>3. CASE ~(key \in DOMAIN map /\ ~OffsetGT(off, map[key].off))
  <2>1. new = Put(map, key, [inst |-> inst, off |-> off])
    BY <1>3 DEF DbUpdate
  <2>2. /\ DOMAIN new = DOMAIN map \cup {key}
        /\ new[key].off = off
        /\ \A k \in DOMAIN map \ {key} : new[k] = map[k]
    BY <2>1 DEF Put
  <2> QED
    BY ONLY <1>1, <1>3, <2>2, off \in CmpdOffsets, OffsetOrder
<1> QED
  BY <1>2, <1>3

\* A DELETE changes no row that stays.
LEMMA DeleteKeeps ==
    ASSUME NEW map, NEW key, NEW off, NEW new, new = DbDelete(map, key, off)
    PROVE  /\ DOMAIN new \subseteq DOMAIN map
           /\ \A k \in DOMAIN new : new[k] = map[k]
BY DEF DbDelete

\* The smallest element of a set of naturals.
LEMMA Smallest ==
    ASSUME NEW T \in SUBSET Nat, T # {}
    PROVE  \E n \in T : \A m \in T : n <= m
<1> DEFINE R == {p \in Nat \X Nat : p[1] < p[2]}
<1>1. OpToRel(<, Nat) = R
  BY Zenon DEF OpToRel
<1>2. IsWellFoundedOn(R, Nat)
  BY <1>1, NatLessThanWellFounded, Zenon
<1>3. PICK n \in T : \A m \in T : ~(<<m, n>> \in R)
  <2> HIDE DEF R
  <2> QED BY <1>2, WFMin
<1>4. ASSUME NEW m \in T PROVE n <= m
  <2>1. m \in Nat /\ n \in Nat /\ (m < n => <<m, n>> \in R)
    OBVIOUS
  <2> QED BY <2>1, <1>3
<1> QED
  BY <1>4

-----------------------------------------------------------------------------
(* Lists of steps *)

\* The equation by which FlattenSeq is defined has a solution.
LEMMA FlattenExists ==
    ASSUME NEW s, NEW k \in Nat
    PROVE  \E f : f = [i \in 1..k |-> IF i = 1 THEN s[i] ELSE f[i - 1] \o s[i]]
<1> DEFINE Solves(f, n) == f = [i \in 1..n |-> IF i = 1 THEN s[i] ELSE f[i - 1] \o s[i]]
           T == {n \in Nat : ~ \E f : Solves(f, n)}
<1> SUFFICES ASSUME T # {} PROVE FALSE
  OBVIOUS
<1>1. PICK n \in T : \A m \in T : n <= m
  <2> HIDE DEF T
  <2>1. T \in SUBSET Nat
    BY DEF T
  <2> QED BY <2>1, Smallest
<1>2. CASE n = 0
  <2>1. Solves([i \in 1..0 |-> 0], 0)
    OBVIOUS
  <2> QED BY <2>1, <1>1, <1>2
<1>3. CASE n # 0
  <2>1. n - 1 \in Nat /\ n - 1 \notin T
    <3>1. n \in Nat
      OBVIOUS
    <3> HIDE DEF T
    <3> QED BY <1>1, <1>3, <3>1
  <2>2. PICK f : Solves(f, n - 1)
    BY <2>1
  <2> DEFINE g == [i \in 1..n |-> IF i < n THEN f[i]
                                  ELSE IF n = 1 THEN s[n] ELSE f[n - 1] \o s[n]]
  <2>3. ASSUME NEW i \in 1..n
        PROVE  g[i] = IF i = 1 THEN s[i] ELSE g[i - 1] \o s[i]
    <3>1. CASE i < n
      <4>1. i \in 1..(n - 1) /\ g[i] = f[i] /\ (i # 1 => g[i - 1] = f[i - 1])
        BY <3>1
      <4>2. f[i] = IF i = 1 THEN s[i] ELSE f[i - 1] \o s[i]
        BY <2>2, <4>1
      <4> QED BY <4>1, <4>2
    <3>2. CASE i = n
      <4>1. g[n] = IF n = 1 THEN s[n] ELSE f[n - 1] \o s[n]
        BY <1>3
      <4>2. n # 1 => g[n - 1] = f[n - 1]
        BY <1>3
      <4> QED BY <3>2, <4>1, <4>2
    <3> QED BY <3>1, <3>2
  <2>4. Solves(g, n)
    <3> HIDE DEF g
    <3>1. g = [i \in 1..n |-> g[i]]
      BY DEF g
    <3> QED BY <2>3, <3>1
  <2> QED BY <2>4, <1>1
<1> QED BY <1>2, <1>3

\* Flattening a list of lists of steps gives a list of steps, and not an empty
\* one, whatever the length of the list is; it starts with the first step.
LEMMA FlattenType ==
    ASSUME NEW S, NEW s \in Seq(Seq(S) \ {<<>>}), s # <<>>
    PROVE  FlattenSeq(s) \in Seq(S) \ {<<>>} /\ FlattenSeq(s)[1] = s[1][1]
<1> DEFINE k == Len(s)
           Solves(f) == f = [i \in 1..k |-> IF i = 1 THEN s[i] ELSE f[i - 1] \o s[i]]
           f == CHOOSE f : Solves(f)
           T == {n \in 1..k : ~(f[n] \in Seq(S) \ {<<>>} /\ f[n][1] = s[1][1])}
<1>1. k \in Nat \ {0}
  BY EmptySeq
<1>2. FlattenSeq(s) = f[k]
  BY <1>1 DEF FlattenSeq
<1>3. Solves(f)
  <2>1. \E g : Solves(g)
    BY <1>1, FlattenExists
  <2> QED BY <2>1, Zenon
<1>4. \A i \in 1..k : s[i] \in Seq(S) \ {<<>>}
  OBVIOUS
<1> HIDE DEF f
<1>5. T = {}
  <2> SUFFICES ASSUME T # {} PROVE FALSE
    OBVIOUS
  <2>1. PICK n \in T : \A m \in T : n <= m
    <3> HIDE DEF T
    <3>1. T \in SUBSET Nat
      BY <1>1 DEF T
    <3> QED BY <3>1, Smallest
  <2>2. CASE n = 1
    <3>1. f[1] = s[1]
      BY <1>3, <1>1
    <3> QED BY <3>1, <1>4, <2>1, <2>2
  <2>3. CASE n # 1
    <3>1. n \in 1..k /\ n - 1 \in 1..k /\ n - 1 \notin T
      <4>1. n \in 1..k
        BY <2>1
      <4> HIDE DEF T, Solves, k
      <4>2. n - 1 \in 1..k /\ ~(n <= n - 1)
        BY ONLY <1>1, <2>3, <4>1
      <4> QED BY <2>1, <4>1, <4>2
    <3>2. f[n] = f[n - 1] \o s[n]
      BY <1>3, <2>3, <3>1
    <3>3. /\ f[n - 1] \in Seq(S) \ {<<>>} /\ s[n] \in Seq(S) \ {<<>>}
          /\ f[n - 1][1] = s[1][1]
      BY <3>1, <1>4
    <3>4. f[n] \in Seq(S) \ {<<>>}
      BY <3>2, <3>3, ConcatProperties, EmptySeq
    <3>5. f[n][1] = f[n - 1][1]
      <4> DEFINE a == Len(f[n - 1])
                 b == Len(s[n])
      <4>1. a \in Nat /\ a # 0 /\ b \in Nat
        BY <3>3, EmptySeq, LenProperties
      <4> HIDE DEF a, b, T, Solves
      <4>2. 1 \in 1..(a + b) /\ 1 <= a
        BY <4>1
      <4> QED BY <3>2, <3>3, <4>2, ConcatProperties DEF a, b
    <3> QED BY <3>3, <3>4, <3>5, <2>1
  <2> QED BY <2>2, <2>3
<1>6. f[k] \in Seq(S) \ {<<>>} /\ f[k][1] = s[1][1]
  <2>1. k \in 1..k
    BY <1>1
  <2> HIDE DEF k, Solves
  <2> QED BY <1>5, <2>1
<1> QED
  BY <1>2, <1>6, Zenon

\* InsertSteps: the new steps stand from position i on, the others keep their
\* order before and behind them.
Inserted(s, i, add) == SubSeq(s, 1, i - 1) \o add \o SubSeq(s, i, Len(s))

LEMMA InsertedSteps ==
    ASSUME NEW S, NEW s \in Seq(S), NEW add \in Seq(S), NEW i \in 1..(Len(s) + 1)
    PROVE  LET r == Inserted(s, i, add)
           IN /\ r \in Seq(S)
              /\ Len(r) = Len(s) + Len(add)
              /\ \A j \in 1..Len(r) :
                    r[j] = IF j < i THEN s[j]
                           ELSE IF j < i + Len(add) THEN add[j - i + 1]
                           ELSE s[j - Len(add)]
<1> DEFINE a == SubSeq(s, 1, i - 1)
           b == SubSeq(s, i, Len(s))
<1>0. Len(s) \in Nat /\ Len(add) \in Nat /\ i \in Int
      /\ \A j \in 1..Len(s) : s[j] \in S
  BY LenProperties, ElementOfSeq
<1>1. /\ a \in Seq(S) /\ Len(a) = i - 1
      /\ \A j \in 1..(i - 1) : a[j] = s[j]
  <2>1. \A j \in 1..(i - 1) : s[j] \in S
    BY <1>0
  <2>2. i - 1 \in Int /\ (i - 1) - 1 + 1 = i - 1
    BY <1>0
  <2> QED BY <1>0, <2>1, <2>2, SubSeqProperties
<1>2. /\ b \in Seq(S) /\ Len(b) = Len(s) - i + 1
      /\ \A j \in 1..(Len(s) - i + 1) : b[j] = s[i + j - 1]
  <2>1. \A j \in i..Len(s) : s[j] \in S
    BY <1>0
  <2> QED BY <1>0, <2>1, SubSeqProperties
<1> DEFINE ab == a \o add
           r == ab \o b
<1> HIDE DEF a, b
<1>3. /\ ab \in Seq(S) /\ Len(ab) = Len(a) + Len(add)
      /\ \A j \in 1..(Len(a) + Len(add)) :
            ab[j] = IF j <= Len(a) THEN a[j] ELSE add[j - Len(a)]
  BY <1>1, ConcatProperties
<1> HIDE DEF ab
<1>4. /\ r \in Seq(S) /\ Len(r) = Len(ab) + Len(b)
      /\ \A j \in 1..(Len(ab) + Len(b)) :
            r[j] = IF j <= Len(ab) THEN ab[j] ELSE b[j - Len(ab)]
  <2>1. ab \in Seq(S) /\ b \in Seq(S)
    BY <1>2, <1>3
  <2> QED BY ONLY <2>1, ConcatProperties
<1> HIDE DEF r
<1>5. r \in Seq(S) /\ Len(r) = Len(s) + Len(add) /\ Len(ab) = i - 1 + Len(add)
  BY <1>0, <1>1, <1>2, <1>3, <1>4
<1>6. ASSUME NEW j \in 1..Len(r)
      PROVE  r[j] = IF j < i THEN s[j]
                    ELSE IF j < i + Len(add) THEN add[j - i + 1]
                    ELSE s[j - Len(add)]
  <2>0. /\ Len(a) = i - 1 /\ Len(ab) = i - 1 + Len(add) /\ Len(b) = Len(s) - i + 1
        /\ Len(r) = Len(s) + Len(add) /\ Len(s) \in Nat /\ Len(add) \in Nat
        /\ i \in Int /\ 1 <= i /\ i <= Len(s) + 1 /\ j \in Int /\ 1 <= j /\ j <= Len(r)
    <3>1. 1 <= i /\ i <= Len(s) + 1
      BY <1>0
    <3>2. Len(r) \in Nat
      BY <1>0, <1>5
    <3>3. j \in Int /\ 1 <= j /\ j <= Len(r)
      BY <3>2
    <3> QED BY ONLY <1>0, <1>1, <1>2, <1>5, <3>1, <3>3
  <2>1. CASE j < i
    <3>1. /\ j \in 1..(Len(ab) + Len(b)) /\ j <= Len(ab)
          /\ j \in 1..(Len(a) + Len(add)) /\ j <= Len(a) /\ j \in 1..(i - 1)
      BY ONLY <2>0, <2>1
    <3>2. r[j] = ab[j]
      BY ONLY <1>4, <3>1
    <3>3. ab[j] = a[j]
      BY ONLY <1>3, <3>1
    <3>4. a[j] = s[j]
      BY ONLY <1>1, <3>1
    <3> QED BY ONLY <2>1, <3>2, <3>3, <3>4
  <2>2. CASE j >= i /\ j < i + Len(add)
    <3>0. /\ j \in 1..(Len(ab) + Len(b)) /\ j <= Len(ab)
          /\ j - Len(a) = j - i + 1 /\ ~(j < i)
      BY ONLY <2>0, <2>2
    <3>1. r[j] = ab[j]
      BY ONLY <1>4, <3>0
    <3>2. ab[j] = add[j - Len(a)]
      <4>1. j \in 1..(Len(a) + Len(add)) /\ ~(j <= Len(a))
        BY ONLY <2>0, <2>2
      <4> QED BY ONLY <4>1, <1>3
    <3> QED BY ONLY <2>2, <3>0, <3>1, <3>2
  <2>3. CASE j >= i + Len(add)
    <3>1. r[j] = b[j - Len(ab)]
      <4>1. j \in 1..(Len(ab) + Len(b)) /\ ~(j <= Len(ab))
        BY ONLY <2>0, <2>3
      <4> QED BY ONLY <4>1, <1>4
    <3>2. j - Len(ab) \in 1..(Len(s) - i + 1) /\ i + (j - Len(ab)) - 1 = j - Len(add)
      BY ONLY <2>0, <2>3
    <3>3. b[j - Len(ab)] = s[i + (j - Len(ab)) - 1]
      BY ONLY <3>2, <1>2
    <3>4. ~(j < i) /\ ~(j < i + Len(add))
      BY ONLY <2>0, <2>3
    <3>5. r[j] = s[j - Len(add)]
      BY ONLY <3>1, <3>2, <3>3
    <3> QED BY ONLY <3>4, <3>5
  <2>4. j < i \/ (j >= i /\ j < i + Len(add)) \/ j >= i + Len(add)
    BY ONLY <2>0
  <2> QED BY ONLY <2>1, <2>2, <2>3, <2>4
<1> QED
  BY <1>5, <1>6 DEF Inserted, r, ab, a, b

-----------------------------------------------------------------------------
(* The inductive invariant *)

\* An offset that a step of the transaction id carries: the one of a PROCESS
\* message of that transaction.
Versioned(off, id) ==
    /\ off \in CmpdOffsets
    /\ off.gen = Generation /\ off.part \in Parts
    /\ off.off < Len(log[<<"PROCESS", off.part>>])
    /\ log[<<"PROCESS", off.part>>][off.off + 1].id = id

\* The steps whose handler unpacks an instance from the payload.
NeedsPayload(step) ==
    \/ step.cmd \in {"Update", "RefreshInstance"}
    \/ step.sys # "PROCESS" /\ step.cmd \in {"Create", "UpdateAsync"}

\* A client asks for a DELETE.
DeletesAsked ==
    \E t \in Txns : \E i \in DOMAIN Requests[t] : Requests[t][i].cmd = "Delete"

StepOK(step, id) ==
    /\ step \in Steps
    /\ step.cmd = "Delete" => DeletesAsked
    /\ step.off # Nil => Versioned(step.off, id)
    /\ step.sys = "STORAGE_SCND" => step.off # Nil
    /\ NeedsPayload(step) => step.payload # Nil

IsTodo(step, id) == StepOK(step, id) /\ step.rslt = Nil

IsDone(step, id) ==
    /\ StepOK(step, id)
    /\ step.rslt # Nil /\ step.off # Nil
    /\ step.payload # Nil => step.rslt.payload # Nil

\* A transaction on its way: the steps before the current one are done, each
\* with an offset, and the others are as they were made.
TxnOK(txn) ==
    /\ txn \in Messages
    /\ txn.cur <= Len(txn.steps)
    /\ \A i \in 1..Len(txn.steps) :
          IF i < txn.cur THEN IsDone(txn.steps[i], txn.id)
          ELSE IsTodo(txn.steps[i], txn.id)

\* The messages that may be on the topic partition d.
Good(d) == {m \in Messages : TxnOK(m) /\ Resumable(d, m)}

ReportMsgs == [id : Txns, code : Codes]

MapsOK == /\ IsMapTo(store, Keys, InstanceRecord(Instances))
          /\ IsMapTo(db, Keys, InstanceRecord(Instances))
          /\ IsMapTo(scnd, Keys, InstanceRecord(Instances))

\* What is on the topics and what is about to be there.
MessagesOK ==
    /\ log \in [Consumers -> Seq(Messages)]
    /\ \A d \in Consumers : log[d] \in Seq(Good(d))
    /\ out \in [Consumers -> [Destinations -> Seq(Messages \cup ReportMsgs)]]
    /\ \A c, d \in Consumers : out[c][d] \in Seq(Good(d))
    /\ \A c \in Consumers : out[c][Reports] \in Seq(ReportMsgs)

PositionsOK ==
    /\ pos \in [Consumers -> Nat] /\ committed \in [Consumers -> Nat]
    /\ \A c \in Consumers : committed[c] <= pos[c] /\ pos[c] <= Len(log[c])

RestOK ==
    /\ submitted \subseteq Txns
    /\ outcome \in [Txns -> Seq(Codes)]
    /\ cancels \in [Consumers -> SUBSET (Txns \cap Cancels)]
    /\ crashes \in 0..MaxCrashes /\ faults \in 0..MaxFaults /\ lost \subseteq Txns

Inv == MessagesOK /\ PositionsOK /\ MapsOK /\ RestOK

-----------------------------------------------------------------------------
(* Steps *)

\* The fields of a step.
LEMMA StepFields ==
    ASSUME NEW step \in Steps
    PROVE  /\ step.sys \in Systems /\ step.cmd \in Commands
           /\ step.key \in Keys \cup {NoKey}
           /\ step.payload \in Instances \cup {Nil}
           /\ step.off \in CmpdOffsets \cup {Nil}
           /\ step.rslt \in Results \cup {Nil}
           /\ step = [sys |-> step.sys, cmd |-> step.cmd, key |-> step.key,
                      payload |-> step.payload, off |-> step.off, rslt |-> step.rslt]
BY DEF Steps

\* A step that is made has no result yet.
LEMMA NewStep ==
    ASSUME NEW id, NEW sys \in Systems, NEW cmd \in Commands, NEW key \in Keys \cup {NoKey},
           NEW payload \in Instances \cup {Nil}, NEW off,
           off # Nil => Versioned(off, id), cmd = "Delete" => DeletesAsked,
           sys = "STORAGE_SCND" => off # Nil,
           NeedsPayload(Step(sys, cmd, key, payload, off)) => payload # Nil
    PROVE  IsTodo(Step(sys, cmd, key, payload, off), id)
<1>1. off \in CmpdOffsets \cup {Nil}
  BY DEF Versioned
<1>2. Step(sys, cmd, key, payload, off) \in Steps
  BY <1>1 DEF Step, Steps
<1> QED
  BY <1>2 DEF Step, IsTodo, StepOK

\* A step that is given an offset and a key or a payload is still to do.
LEMMA TodoRefilled ==
    ASSUME NEW id, NEW step, IsTodo(step, id), NEW key \in Keys \cup {NoKey},
           NEW payload \in Instances \cup {Nil}, step.payload # Nil => payload # Nil,
           NEW off, off # Nil => Versioned(off, id), step.off # Nil => off # Nil
    PROVE  IsTodo([sys |-> step.sys, cmd |-> step.cmd, key |-> key,
                   payload |-> payload, off |-> off, rslt |-> step.rslt], id)
<1>1. /\ step \in Steps /\ step.rslt = Nil
      /\ step.cmd = "Delete" => DeletesAsked
      /\ step.sys = "STORAGE_SCND" => step.off # Nil
      /\ NeedsPayload(step) => step.payload # Nil
  BY DEF IsTodo, StepOK
<1>2. off \in CmpdOffsets \cup {Nil}
  BY DEF Versioned
<1>3. [sys |-> step.sys, cmd |-> step.cmd, key |-> key,
       payload |-> payload, off |-> off, rslt |-> step.rslt] \in Steps
  BY <1>1, <1>2, StepFields DEF Steps
<1> QED
  BY <1>1, <1>3 DEF IsTodo, StepOK, NeedsPayload

LEMMA TodoWithKey ==
    ASSUME NEW id, NEW step, IsTodo(step, id), NEW key \in Keys \cup {NoKey},
           NEW off, off # Nil => Versioned(off, id), step.off # Nil => off # Nil
    PROVE  IsTodo([step EXCEPT !.key = key, !.off = off], id)
<1> DEFINE new == [step EXCEPT !.key = key]
<1>1. step \in Steps
  BY DEF IsTodo, StepOK
<1>2. new = [sys |-> step.sys, cmd |-> step.cmd, key |-> key,
             payload |-> step.payload, off |-> step.off, rslt |-> step.rslt]
  BY <1>1, StepFields
<1>3. [step EXCEPT !.key = key, !.off = off] = [new EXCEPT !.off = off]
  BY <1>1, StepFields
<1> HIDE DEF new
<1>4. [new EXCEPT !.off = off] =
        [sys |-> step.sys, cmd |-> step.cmd, key |-> key,
         payload |-> step.payload, off |-> off, rslt |-> step.rslt]
  BY <1>2
<1>5. step.payload \in Instances \cup {Nil}
  BY <1>1, StepFields
<1> QED
  BY <1>3, <1>4, <1>5, TodoRefilled

LEMMA TodoWithPayload ==
    ASSUME NEW id, NEW step, IsTodo(step, id),
           NEW payload \in Instances \cup {Nil}, step.payload # Nil => payload # Nil,
           NEW off, off # Nil => Versioned(off, id), step.off # Nil => off # Nil
    PROVE  IsTodo([step EXCEPT !.payload = payload, !.off = off], id)
<1> DEFINE new == [step EXCEPT !.payload = payload]
<1>1. step \in Steps
  BY DEF IsTodo, StepOK
<1>2. new = [sys |-> step.sys, cmd |-> step.cmd, key |-> step.key,
             payload |-> payload, off |-> step.off, rslt |-> step.rslt]
  BY <1>1, StepFields
<1>3. [step EXCEPT !.payload = payload, !.off = off] = [new EXCEPT !.off = off]
  BY <1>1, StepFields
<1> HIDE DEF new
<1>4. [new EXCEPT !.off = off] =
        [sys |-> step.sys, cmd |-> step.cmd, key |-> step.key,
         payload |-> payload, off |-> off, rslt |-> step.rslt]
  BY <1>2
<1>5. step.key \in Keys \cup {NoKey}
  BY <1>1, StepFields
<1> QED
  BY <1>3, <1>4, <1>5, TodoRefilled

\* A step that is given its result is done.
LEMMA TodoFinished ==
    ASSUME NEW id, NEW step, IsTodo(step, id), step.off # Nil,
           NEW key \in Keys \cup {NoKey}, NEW payload \in Instances \cup {Nil},
           NEW inst \in Instances \cup {Nil}, step.payload # Nil => payload # Nil
    PROVE  IsDone([step EXCEPT !.rslt = Result("OK", key, payload, inst)], id)
<1> DEFINE rslt == Result("OK", key, payload, inst)
           new == [sys |-> step.sys, cmd |-> step.cmd, key |-> step.key,
                   payload |-> step.payload, off |-> step.off, rslt |-> rslt]
<1>1. step \in Steps /\ StepOK(step, id)
  BY DEF IsTodo, StepOK
<1>2. rslt \in Results /\ rslt # Nil /\ rslt.payload = payload
  BY NilAssumption DEF Results, Result
<1> HIDE DEF rslt
<1>3. [step EXCEPT !.rslt = rslt] = new
  BY <1>1, StepFields
<1>4. new \in Steps
  BY <1>1, <1>2, StepFields DEF Steps
<1>5. StepOK(new, id)
  BY <1>1, <1>4 DEF StepOK, NeedsPayload
<1> QED
  BY <1>2, <1>3, <1>5 DEF IsDone, rslt

-----------------------------------------------------------------------------
(* The message that is read, and its current step *)

LEMMA TxnFields ==
    ASSUME NEW m, TxnOK(m)
    PROVE  /\ m = [id |-> m.id, upon |-> m.upon, cur |-> m.cur, steps |-> m.steps]
           /\ m.id \in Txns /\ m.upon \in {"REPORT", "BAILOUT"}
           /\ m.steps \in Seq(Steps) /\ Len(m.steps) \in Nat
           /\ DOMAIN m.steps = 1..Len(m.steps)
           /\ m.cur \in 1..Len(m.steps)
           /\ IsTodo(CurrentStep(m), m.id)
<1>1. /\ m = [id |-> m.id, upon |-> m.upon, cur |-> m.cur, steps |-> m.steps]
      /\ m.id \in Txns /\ m.upon \in {"REPORT", "BAILOUT"}
      /\ m.steps \in Seq(Steps) /\ m.cur \in Nat \ {0}
  BY DEF TxnOK, Messages
<1>2. Len(m.steps) \in Nat /\ DOMAIN m.steps = 1..Len(m.steps)
  BY <1>1, LenProperties
<1>3. m.cur \in 1..Len(m.steps)
  BY <1>1, <1>2 DEF TxnOK
<1>4. IsTodo(CurrentStep(m), m.id)
  BY <1>2, <1>3 DEF TxnOK, CurrentStep
<1> QED
  BY <1>1, <1>2, <1>3, <1>4

LEMMA ConsumerPair ==
    \A c \in Consumers : c = <<c[1], c[2]>> /\ c[1] \in Systems /\ c[2] \in Parts
BY DEF Consumers

LEMMA ReadFacts ==
    ASSUME Inv, NEW c \in Consumers, Ready(c)
    PROVE  /\ TxnOK(Msg(c)) /\ Resumable(c, Msg(c))
           /\ pos[c] \in Nat /\ pos[c] + 1 \in 1..Len(log[c])
<1>1. pos[c] \in Nat /\ log[c] \in Seq(Good(c))
  BY DEF Inv, PositionsOK, MessagesOK
<1>2. Len(log[c]) \in Nat
  BY <1>1, LenProperties
<1>3. pos[c] + 1 \in 1..Len(log[c])
  BY <1>1, <1>2 DEF Ready
<1>4. Msg(c) \in Good(c)
  BY <1>1, <1>3, ElementOfSeq DEF Msg
<1> QED
  BY <1>1, <1>3, <1>4 DEF Good

\* The current step is of the consumer's own system, has no result and comes to
\* have an offset: three of the checks of advanceApecsTxn never refuse it.
LEMMA ArrivedTodo ==
    ASSUME Inv, NEW c \in Consumers, Ready(c)
    PROVE  /\ IsTodo(Arrived(c), Msg(c).id)
           /\ Arrived(c).sys = c[1] /\ Arrived(c).off # Nil
           /\ CurrentStep(Msg(c)).sys = c[1]
           /\ Arrived(c).cmd = CurrentStep(Msg(c)).cmd
           /\ Arrived(c).payload = CurrentStep(Msg(c)).payload
           /\ CurrentStep(Msg(c)).key # NoKey => Arrived(c).key = CurrentStep(Msg(c)).key
           /\ c[1] # "PROCESS" => Arrived(c).off = CurrentStep(Msg(c)).off
<1> DEFINE m == Msg(c)
           step == CurrentStep(m)
           prev == PreviousResult(m)
           key == IF step.key = NoKey /\ ~IsKeylessStep(step) /\ prev # Nil
                  THEN prev.key ELSE step.key
           off == IF step.sys = "PROCESS"
                  THEN [gen |-> Generation, part |-> c[2], off |-> pos[c]]
                  ELSE step.off
<1>1. TxnOK(m) /\ Resumable(c, m) /\ pos[c] \in Nat /\ pos[c] + 1 \in 1..Len(log[c])
  BY ReadFacts
<1>2. IsTodo(step, m.id) /\ m.cur \in 1..Len(m.steps) /\ Len(m.steps) \in Nat
  BY <1>1, TxnFields
<1>3. Arrived(c) = [step EXCEPT !.key = key, !.off = off]
  BY DEF Arrived
<1>4. step \in Steps
  BY <1>2 DEF IsTodo, StepOK
<1>5. key \in Keys \cup {NoKey}
  <2>1. step.key \in Keys \cup {NoKey}
    BY <1>4, StepFields
  <2>2. ASSUME prev # Nil PROVE prev.key \in Keys \cup {NoKey}
    <3>1. m.cur # 1 /\ prev = m.steps[m.cur - 1].rslt
      BY <2>2 DEF PreviousResult
    <3>2. m.cur - 1 \in 1..Len(m.steps) /\ m.cur - 1 < m.cur
      BY <1>2, <3>1
    <3>3. m.steps[m.cur - 1] \in Steps
      BY <1>1, <3>2 DEF TxnOK, IsDone, StepOK
    <3>4. prev \in Results
      BY <2>2, <3>1, <3>3, StepFields
    <3> QED BY <3>4 DEF Results
  <2> QED BY <2>1, <2>2
<1>6. step.sys = c[1] /\ (step.sys # "PROCESS" => step.off # Nil)
  BY <1>1 DEF Resumable
<1>7. off # Nil /\ (off # Nil => Versioned(off, m.id))
  <2>1. CASE step.sys = "PROCESS"
    <3>1. c = <<"PROCESS", c[2]>> /\ c[2] \in Parts /\ c[2] \in Nat
      BY <1>6, <2>1, PartsAssumption, ConsumerPair
    <3>2. off \in CmpdOffsets /\ off.gen = Generation /\ off.part = c[2] /\ off.off = pos[c]
      BY <1>1, <2>1, <3>1 DEF CmpdOffsets, Generation
    <3>3. pos[c] < Len(log[c]) /\ log[c][pos[c] + 1].id = m.id
      BY DEF Msg, Ready
    <3> HIDE DEF off, m
    <3>4. Versioned(off, m.id)
      BY <3>1, <3>2, <3>3 DEF Versioned
    <3> QED BY <3>2, <3>4, NilAssumption
  <2>2. CASE step.sys # "PROCESS"
    BY <1>2, <1>6, <2>2 DEF IsTodo, StepOK
  <2> QED BY <2>1, <2>2
<1>71. (step.key # NoKey => key = step.key) /\ (c[1] # "PROCESS" => off = step.off)
  BY <1>6
<1> HIDE DEF off, key, step, m
<1>8. step.payload \in Instances \cup {Nil}
  BY <1>4, StepFields
<1>9. IsTodo(Arrived(c), m.id)
  <2>1. IsTodo([step EXCEPT !.key = key, !.off = off], m.id)
    BY <1>2, <1>5, <1>7, TodoWithKey, Zenon
  <2> QED BY <1>3, <2>1, Zenon
<1>10. /\ Arrived(c).sys = step.sys /\ Arrived(c).off = off /\ Arrived(c).key = key
       /\ Arrived(c).cmd = step.cmd /\ Arrived(c).payload = step.payload
  <2>1. step = [sys |-> step.sys, cmd |-> step.cmd, key |-> step.key,
                payload |-> step.payload, off |-> step.off, rslt |-> step.rslt]
    BY <1>4, StepFields
  <2> QED BY <1>3, <2>1
<1> QED
  BY <1>6, <1>7, <1>71, <1>9, <1>10 DEF m, step

-----------------------------------------------------------------------------
(* Transactions *)

\* The fields of what the operations on the list of steps return.
LEMMA SetCurrentFields ==
    ASSUME NEW m, NEW st,
           m = [id |-> m.id, upon |-> m.upon, cur |-> m.cur, steps |-> m.steps]
    PROVE  SetCurrentStep(m, st) =
             [id |-> m.id, upon |-> m.upon, cur |-> m.cur,
              steps |-> [m.steps EXCEPT ![m.cur] = st]]
<1>1. SetCurrentStep(m, st) = [m EXCEPT !.steps = [m.steps EXCEPT ![m.cur] = st]]
  BY DEF SetCurrentStep
<1> QED
  BY <1>1

LEMMA InsertFields ==
    ASSUME NEW m, NEW i, NEW add,
           m = [id |-> m.id, upon |-> m.upon, cur |-> m.cur, steps |-> m.steps]
    PROVE  InsertSteps(m, i, add) =
             [id |-> m.id, upon |-> m.upon, cur |-> m.cur,
              steps |-> Inserted(m.steps, i, add)]
<1>1. InsertSteps(m, i, add) = [m EXCEPT !.steps = Inserted(m.steps, i, add)]
  BY DEF InsertSteps, Inserted
<1> QED
  BY <1>1

\* The current step is replaced by another one to do, as when it is given its
\* offset, or when a cache miss makes it a read.
LEMMA SetTodo ==
    ASSUME NEW m, TxnOK(m), NEW st, IsTodo(st, m.id)
    PROVE  LET new == SetCurrentStep(m, st)
           IN /\ TxnOK(new) /\ CurrentStep(new) = st
              /\ new.id = m.id /\ new.upon = m.upon /\ new.cur = m.cur
<1> DEFINE steps == [m.steps EXCEPT ![m.cur] = st]
           new == SetCurrentStep(m, st)
<1>1. /\ m = [id |-> m.id, upon |-> m.upon, cur |-> m.cur, steps |-> m.steps]
      /\ m.id \in Txns /\ m.upon \in {"REPORT", "BAILOUT"}
      /\ m.steps \in Seq(Steps) /\ Len(m.steps) \in Nat /\ m.cur \in 1..Len(m.steps)
  BY TxnFields
<1>2. new = [id |-> m.id, upon |-> m.upon, cur |-> m.cur, steps |-> steps]
  BY <1>1, SetCurrentFields
<1>3. st \in Steps
  BY DEF IsTodo, StepOK
<1>4. /\ steps \in Seq(Steps) /\ Len(steps) = Len(m.steps)
      /\ \A j \in 1..Len(m.steps) : steps[j] = IF j = m.cur THEN st ELSE m.steps[j]
  BY <1>1, <1>3, ExceptSeq
<1> HIDE DEF steps, new
<1>5. new \in Messages
  BY <1>1, <1>2, <1>4 DEF Messages
<1>6. TxnOK(new)
  BY <1>1, <1>2, <1>4, <1>5 DEF TxnOK
<1> QED
  BY <1>1, <1>2, <1>4, <1>6 DEF CurrentStep, new

\* A step is put before the current one and becomes it.
LEMMA InsertTodo ==
    ASSUME NEW m, TxnOK(m), NEW st, IsTodo(st, m.id)
    PROVE  LET new == InsertSteps(m, m.cur, <<st>>)
           IN /\ TxnOK(new) /\ CurrentStep(new) = st
              /\ new.id = m.id /\ new.upon = m.upon
<1> DEFINE one == <<st>>
           steps == Inserted(m.steps, m.cur, one)
           new == InsertSteps(m, m.cur, one)
<1>1. /\ m = [id |-> m.id, upon |-> m.upon, cur |-> m.cur, steps |-> m.steps]
      /\ m.id \in Txns /\ m.upon \in {"REPORT", "BAILOUT"}
      /\ m.steps \in Seq(Steps) /\ Len(m.steps) \in Nat /\ m.cur \in 1..Len(m.steps)
  BY TxnFields
<1>2. new = [id |-> m.id, upon |-> m.upon, cur |-> m.cur, steps |-> steps]
  BY <1>1, InsertFields
<1>3. st \in Steps
  BY DEF IsTodo, StepOK
<1>4. one \in Seq(Steps) /\ Len(one) = 1 /\ one[1] = st
  BY <1>3
<1> HIDE DEF one
<1>5. /\ steps \in Seq(Steps)
      /\ Len(steps) = Len(m.steps) + Len(one)
      /\ \A j \in 1..Len(steps) :
            steps[j] = IF j < m.cur THEN m.steps[j]
                       ELSE IF j < m.cur + Len(one) THEN one[j - m.cur + 1]
                       ELSE m.steps[j - Len(one)]
  <2>1. m.cur \in 1..(Len(m.steps) + 1)
    BY <1>1
  <2> QED BY <1>1, <1>4, <2>1, InsertedSteps
<1> HIDE DEF steps, new
<1>6. /\ Len(steps) = Len(m.steps) + 1
      /\ \A j \in 1..Len(steps) :
            steps[j] = IF j < m.cur THEN m.steps[j]
                       ELSE IF j = m.cur THEN st ELSE m.steps[j - 1]
  <2>1. ASSUME NEW j \in 1..Len(steps), j = m.cur PROVE j - m.cur + 1 = 1
    BY <1>1, <2>1
  <2> QED BY <1>1, <1>4, <1>5, <2>1
<1>7. new \in Messages
  BY <1>1, <1>2, <1>5 DEF Messages
<1>8. TxnOK(new)
  <2>1. ASSUME NEW j \in 1..Len(steps)
        PROVE  IF j < m.cur THEN IsDone(steps[j], m.id) ELSE IsTodo(steps[j], m.id)
    <3>1. CASE j < m.cur
      BY <1>1, <1>6, <3>1 DEF TxnOK
    <3>2. CASE j = m.cur
      BY <1>1, <1>6, <3>2
    <3>3. CASE j > m.cur
      <4>1. steps[j] = m.steps[j - 1] /\ j - 1 \in 1..Len(m.steps) /\ ~(j - 1 < m.cur)
        BY <1>1, <1>6, <3>3
      <4> QED BY <4>1, <3>3, <1>1 DEF TxnOK
    <3> QED BY <1>1, <3>1, <3>2, <3>3
  <2> QED BY <1>1, <1>2, <1>6, <1>7, <2>1 DEF TxnOK
<1>9. CurrentStep(new) = st
  BY <1>1, <1>2, <1>6 DEF CurrentStep
<1> QED
  BY <1>2, <1>8, <1>9 DEF new, one

\* A transaction whose current step has been done as well.
StepDone(txn) ==
    /\ txn \in Messages
    /\ txn.cur <= Len(txn.steps)
    /\ \A i \in 1..Len(txn.steps) :
          IF i <= txn.cur THEN IsDone(txn.steps[i], txn.id)
          ELSE IsTodo(txn.steps[i], txn.id)

\* The current step is given its result, and the steps the handler adds come
\* to stand behind it.
LEMMA StepIsDone ==
    ASSUME NEW m, TxnOK(m), NEW st, IsDone(st, m.id), NEW add \in Seq(Steps),
           \A i \in 1..Len(add) : IsTodo(add[i], m.id)
    PROVE  LET new == InsertSteps(SetCurrentStep(m, st), m.cur + 1, add)
           IN StepDone(new) /\ new.id = m.id /\ new.upon = m.upon
<1> DEFINE s == [m.steps EXCEPT ![m.cur] = st]
           set == SetCurrentStep(m, st)
           steps == Inserted(s, m.cur + 1, add)
           new == InsertSteps(set, m.cur + 1, add)
<1>1. /\ m = [id |-> m.id, upon |-> m.upon, cur |-> m.cur, steps |-> m.steps]
      /\ m.id \in Txns /\ m.upon \in {"REPORT", "BAILOUT"}
      /\ m.steps \in Seq(Steps) /\ Len(m.steps) \in Nat /\ m.cur \in 1..Len(m.steps)
  BY TxnFields
<1>2. set = [id |-> m.id, upon |-> m.upon, cur |-> m.cur, steps |-> s]
  BY <1>1, SetCurrentFields
<1>3. st \in Steps
  BY DEF IsDone, StepOK
<1>4. /\ s \in Seq(Steps) /\ Len(s) = Len(m.steps)
      /\ \A j \in 1..Len(m.steps) : s[j] = IF j = m.cur THEN st ELSE m.steps[j]
  BY <1>1, <1>3, ExceptSeq
<1> HIDE DEF s, set
<1>5. new = [id |-> m.id, upon |-> m.upon, cur |-> m.cur, steps |-> steps]
  <2>1. set = [id |-> set.id, upon |-> set.upon, cur |-> set.cur, steps |-> set.steps]
    BY <1>2
  <2>2. new = [id |-> set.id, upon |-> set.upon, cur |-> set.cur,
               steps |-> Inserted(set.steps, m.cur + 1, add)]
    BY <2>1, InsertFields
  <2>3. set.id = m.id /\ set.upon = m.upon /\ set.cur = m.cur /\ set.steps = s
    BY <1>2
  <2> QED BY <2>2, <2>3
<1>6. /\ steps \in Seq(Steps)
      /\ Len(steps) = Len(s) + Len(add)
      /\ \A j \in 1..Len(steps) :
            steps[j] = IF j < m.cur + 1 THEN s[j]
                       ELSE IF j < m.cur + 1 + Len(add) THEN add[j - (m.cur + 1) + 1]
                       ELSE s[j - Len(add)]
  <2>1. m.cur + 1 \in 1..(Len(s) + 1) /\ s \in Seq(Steps) /\ add \in Seq(Steps)
    BY <1>1, <1>4
  <2> QED BY ONLY <2>1, InsertedSteps
<1> HIDE DEF steps, new
<1>7. Len(add) \in Nat
  BY LenProperties
<1>8. new \in Messages
  BY <1>1, <1>5, <1>6 DEF Messages
<1>9. ASSUME NEW j \in 1..Len(steps)
      PROVE  IF j <= m.cur THEN IsDone(steps[j], m.id) ELSE IsTodo(steps[j], m.id)
  <2>1. CASE j <= m.cur
    <3>1. steps[j] = s[j] /\ j \in 1..Len(m.steps)
      BY <1>1, <1>6, <2>1
    <3>2. s[j] = IF j = m.cur THEN st ELSE m.steps[j]
      BY <3>1, <1>4
    <3>3. j # m.cur => IsDone(m.steps[j], m.id)
      BY <1>1, <2>1, <3>1 DEF TxnOK
    <3> QED BY <2>1, <3>1, <3>2, <3>3
  <2>2. CASE j > m.cur /\ j < m.cur + 1 + Len(add)
    <3>1. steps[j] = add[j - (m.cur + 1) + 1] /\ j - (m.cur + 1) + 1 \in 1..Len(add)
      BY <1>1, <1>6, <1>7, <2>2
    <3> QED BY <1>1, <2>2, <3>1
  <2>3. CASE j >= m.cur + 1 + Len(add)
    <3>1. /\ steps[j] = s[j - Len(add)] /\ j - Len(add) \in 1..Len(m.steps)
          /\ j - Len(add) # m.cur /\ ~(j - Len(add) < m.cur) /\ ~(j <= m.cur)
      BY <1>1, <1>4, <1>6, <1>7, <2>3
    <3>2. s[j - Len(add)] = m.steps[j - Len(add)]
      BY <3>1, <1>4
    <3> QED BY <3>1, <3>2 DEF TxnOK
  <2> QED BY <1>1, <1>7, <2>1, <2>2, <2>3
<1>10. m.cur <= Len(steps)
  BY <1>1, <1>4, <1>6, <1>7
<1>11. StepDone(new)
  BY <1>5, <1>8, <1>9, <1>10 DEF StepDone
<1> QED
  BY <1>5, <1>11 DEF new, set

\* The transaction goes on to its next step, and a STORAGE step is given the
\* offset of the step that was done.
LEMMA NextOK ==
    ASSUME NEW m, StepDone(m), CanAdvance(m)
    PROVE  LET new == NextStepTxn(m)
           IN /\ TxnOK(new) /\ new.id = m.id /\ new.upon = m.upon
              /\ CurrentStep(new).sys # "PROCESS" => CurrentStep(new).off # Nil
<1> DEFINE step == CurrentStep(m)
           next == m.steps[m.cur + 1]
           payload == IF next.payload = Nil /\ next.cmd \notin ReservedCommands
                      THEN step.rslt.payload ELSE next.payload
           off == IF next.sys = "STORAGE" /\ next.off = Nil
                  THEN step.off ELSE next.off
           st == [next EXCEPT !.payload = payload, !.off = off]
           steps == [m.steps EXCEPT ![m.cur + 1] = st]
           new == NextStepTxn(m)
<1>1. /\ m = [id |-> m.id, upon |-> m.upon, cur |-> m.cur, steps |-> m.steps]
      /\ m.id \in Txns /\ m.upon \in {"REPORT", "BAILOUT"}
      /\ m.steps \in Seq(Steps) /\ m.cur \in Nat \ {0}
  BY DEF StepDone, Messages
<1>2. Len(m.steps) \in Nat /\ m.cur \in 1..Len(m.steps) /\ m.cur + 1 \in 1..Len(m.steps)
  BY <1>1, LenProperties DEF StepDone, CanAdvance
<1>3. IsDone(step, m.id) /\ IsTodo(next, m.id)
  BY <1>1, <1>2 DEF StepDone, CurrentStep
<1>4. new = [id |-> m.id, upon |-> m.upon, cur |-> m.cur + 1, steps |-> steps]
  <2>1. new = [m EXCEPT !.cur = m.cur + 1, !.steps = steps]
    BY DEF NextStepTxn
  <2> HIDE DEF steps, new
  <2> DEFINE m1 == [m EXCEPT !.cur = m.cur + 1]
  <2>2. m1 = [id |-> m.id, upon |-> m.upon, cur |-> m.cur + 1, steps |-> m.steps]
    BY <1>1
  <2>3. [m EXCEPT !.cur = m.cur + 1, !.steps = steps] = [m1 EXCEPT !.steps = steps]
    BY <1>1
  <2> HIDE DEF m1
  <2>4. [m1 EXCEPT !.steps = steps] =
          [id |-> m.id, upon |-> m.upon, cur |-> m.cur + 1, steps |-> steps]
    BY <2>2
  <2> QED BY <2>1, <2>3, <2>4
<1>5. step \in Steps /\ step.off # Nil /\ step.rslt \in Results
      /\ next \in Steps /\ (step.off # Nil => Versioned(step.off, m.id))
      /\ (next.off # Nil => Versioned(next.off, m.id))
      /\ (next.sys = "STORAGE_SCND" => next.off # Nil)
  BY <1>3, StepFields DEF IsDone, IsTodo, StepOK
<1>6. step.rslt.payload \in Instances \cup {Nil} /\ next.payload \in Instances \cup {Nil}
  BY <1>5, StepFields DEF Results
<1> HIDE DEF step, next
<1>7. /\ payload \in Instances \cup {Nil} /\ (next.payload # Nil => payload # Nil)
      /\ (off # Nil => Versioned(off, m.id)) /\ (next.off # Nil => off # Nil)
      /\ (next.sys # "PROCESS" => off # Nil)
  <2>1. next.sys \in {"PROCESS", "STORAGE", "STORAGE_SCND"}
    BY <1>5, StepFields DEF Systems
  <2> QED BY <1>5, <1>6, <2>1
<1> HIDE DEF payload, off
<1>8. IsTodo(st, m.id)
  BY <1>3, <1>7, TodoWithPayload, Zenon
<1>9. st.sys = next.sys /\ st.off = off
  <2>1. next = [sys |-> next.sys, cmd |-> next.cmd, key |-> next.key,
                payload |-> next.payload, off |-> next.off, rslt |-> next.rslt]
    BY <1>5, StepFields
  <2> QED BY <2>1
<1> HIDE DEF st
<1>10. /\ steps \in Seq(Steps) /\ Len(steps) = Len(m.steps)
       /\ \A j \in 1..Len(m.steps) : steps[j] = IF j = m.cur + 1 THEN st ELSE m.steps[j]
  <2>1. st \in Steps
    BY <1>8 DEF IsTodo, StepOK
  <2> QED BY <1>1, <1>2, <2>1, ExceptSeq
<1> HIDE DEF steps, new
<1>11. new \in Messages
  BY <1>1, <1>4, <1>10 DEF Messages
<1>12. ASSUME NEW j \in 1..Len(steps)
       PROVE  IF j < m.cur + 1 THEN IsDone(steps[j], m.id) ELSE IsTodo(steps[j], m.id)
  <2>1. CASE j < m.cur + 1
    <3>1. steps[j] = m.steps[j] /\ j <= m.cur /\ j \in 1..Len(m.steps)
      BY <1>1, <1>2, <1>10, <2>1
    <3> QED BY <2>1, <3>1 DEF StepDone
  <2>2. CASE j = m.cur + 1
    BY <1>1, <1>8, <1>10, <2>2
  <2>3. CASE j > m.cur + 1
    <3>1. steps[j] = m.steps[j] /\ ~(j <= m.cur) /\ ~(j < m.cur + 1) /\ j \in 1..Len(m.steps)
      BY <1>1, <1>2, <1>10, <2>3
    <3> QED BY <3>1 DEF StepDone
  <2> QED BY <1>1, <2>1, <2>2, <2>3
<1>13. TxnOK(new)
  BY <1>2, <1>4, <1>10, <1>11, <1>12 DEF TxnOK
<1>14. CurrentStep(new) = st
  BY <1>2, <1>4, <1>10 DEF CurrentStep
<1> QED
  BY <1>4, <1>7, <1>9, <1>13, <1>14 DEF new

\* Wherever the random key of a keyless step leads, the transaction is produced
\* to a partition whose consumer can carry on with it.
LEMMA ProducedGood ==
    ASSUME NEW m, TxnOK(m), CurrentStep(m).sys # "PROCESS" => CurrentStep(m).off # Nil,
           NEW random \in Parts
    PROVE  Dest(m, random) \in Consumers /\ m \in Good(Dest(m, random))
<1> DEFINE step == CurrentStep(m)
           p == IF IsKeylessStep(step) THEN random ELSE PartOf[step.key]
<1>1. /\ m.cur \in 1..Len(m.steps) /\ IsTodo(step, m.id)
      /\ DOMAIN m.steps = 1..Len(m.steps) /\ Len(m.steps) \in Nat
  BY TxnFields
<1>2. step.sys \in Systems /\ step.key \in Keys \cup {NoKey}
  BY <1>1, StepFields DEF IsTodo, StepOK
<1>3. p \in Parts
  BY <1>2, PartsAssumption
<1>4. Dest(m, random) = <<step.sys, p>>
  BY DEF Dest
<1> HIDE DEF p, step
<1>5. <<step.sys, p>> \in Consumers
  BY <1>2, <1>3 DEF Consumers
<1>6. \A i \in DOMAIN m.steps : (m.steps[i].rslt # Nil) <=> (i < m.cur)
  BY <1>1 DEF TxnOK, IsDone, IsTodo
<1>7. Resumable(<<step.sys, p>>, m)
  BY <1>6 DEF Resumable, step, p
<1> QED
  BY <1>4, <1>5, <1>7 DEF Good, TxnOK

-----------------------------------------------------------------------------
(* What a consumer produces *)

OwnGood(c, d) == {m \in Good(d) : m.id = Msg(c).id}
OwnReports(c) == {r \in ReportMsgs : r.id = Msg(c).id}

\* The messages with which the client's transaction goes on or ends; the
\* others are the storage transactions made from it.
CarriesOn(d, m) == d = Reports \/ m.upon # "BAILOUT"

OneCarriesOn(new) ==
    \E d \in Destinations : \E i \in DOMAIN new[d] :
        /\ CarriesOn(d, new[d][i])
        /\ \A e \in Destinations : \A j \in DOMAIN new[e] :
              CarriesOn(e, new[e][j]) => e = d /\ j = i

NoneCarriesOn(new) ==
    \A d \in Destinations : \A i \in DOMAIN new[d] : ~CarriesOn(d, new[d][i])

\* new[d] is put at the end of the queue of c's process for d.
Queues(c, new) ==
    out' = [b \in Consumers |-> [d \in Destinations |->
               IF b = c THEN out[b][d] \o new[d] ELSE out[b][d]]]

\* Handling the message c has read, its process produces new: messages of the
\* same transaction that can be carried on with, and just one of them carries on
\* the client's transaction, if the message did.
Emits(c, new) ==
    /\ \A d \in Consumers : new[d] \in Seq(OwnGood(c, d))
    /\ new[Reports] \in Seq(OwnReports(c))
    /\ Queues(c, new)
    /\ IF Msg(c).upon = "BAILOUT" THEN NoneCarriesOn(new) ELSE OneCarriesOn(new)

LEMMA ReportsApart == Reports \notin Consumers /\ Reports \in Destinations
BY DEF Reports, Consumers, Systems, Destinations

LEMMA OutFields ==
    ASSUME Inv, NEW c \in Consumers, NEW d \in Destinations
    PROVE  /\ out = [b \in Consumers |-> out[b]]
           /\ out[c] = [e \in Destinations |-> out[c][e]]
           /\ out[c][d] \in Seq(Messages \cup ReportMsgs)
BY DEF Inv, MessagesOK

\* A single message is put at the end of one queue.
Only(d, s) == [x \in Destinations |-> IF x = d THEN s ELSE <<>>]
AppendsTo(c, d, s) == out' = [out EXCEPT ![c][d] = @ \o s]

LEMMA AppendsOne ==
    ASSUME Inv, NEW c \in Consumers, NEW d \in Destinations, NEW s, AppendsTo(c, d, s)
    PROVE  Queues(c, Only(d, s))
<1> DEFINE new == Only(d, s)
<1>1. ASSUME NEW b \in Consumers
      PROVE  out'[b] = [e \in Destinations |->
                IF b = c THEN out[b][e] \o new[e]
                ELSE out[b][e]]
  <2>0. new = [x \in Destinations |-> IF x = d THEN s ELSE <<>>]
    BY DEF Only
  <2> HIDE DEF new
  <2>1. out[b] = [e \in Destinations |-> out[b][e]]
    BY OutFields
  <2>2. CASE b # c
    <3>1. out'[b] = out[b]
      BY <2>2, OutFields DEF AppendsTo
    <3> QED BY <2>1, <2>2, <3>1
  <2>3. CASE b = c
    <3>1. out'[c] = [out[c] EXCEPT ![d] = out[c][d] \o s]
      BY OutFields DEF AppendsTo
    <3>2. out'[c] = [e \in Destinations |-> IF e = d THEN out[c][d] \o s ELSE out[c][e]]
      BY <2>1, <2>3, <3>1
    <3>3. \A e \in Destinations : out[c][e] \o <<>> = out[c][e]
      BY OutFields, ConcatEmptySeq
    <3> QED BY <2>0, <2>3, <3>2, <3>3
  <2> QED BY <2>2, <2>3
<1>2. out' = [b \in Consumers |-> out'[b]]
  BY OutFields DEF AppendsTo
<1> QED
  BY <1>1, <1>2 DEF Queues

LEMMA ProduceMakes ==
    ASSUME Inv, NEW c \in Consumers, Ready(c), NEW m, TxnOK(m),
           m.id = Msg(c).id, m.upon = Msg(c).upon,
           CurrentStep(m).sys # "PROCESS" => CurrentStep(m).off # Nil,
           Produce(c, m)
    PROVE  \E d \in Consumers : \E one : one = <<m>> /\ Emits(c, Only(d, one))
<1>1. PICK random \in Parts :
        out' = [out EXCEPT ![c][Dest(m, random)] = Append(@, m)]
  BY DEF Produce
<1> DEFINE d == Dest(m, random)
           one == <<m>>
           new == Only(d, one)
<1>2. d \in Consumers /\ m \in Good(d) /\ d \in Destinations /\ d # Reports
  BY ProducedGood, ReportsApart DEF Destinations
<1> HIDE DEF d
<1>3. m \in OwnGood(c, d) /\ m \in Messages \cup ReportMsgs
  BY <1>2 DEF OwnGood, Good
<1>4. AppendsTo(c, d, one)
  <2>1. Append(out[c][d], m) = out[c][d] \o <<m>>
    <3>1. out[c][d] \in Seq(Messages \cup ReportMsgs) /\ m \in Messages \cup ReportMsgs
      BY <1>2, <1>3, OutFields
    <3> QED BY ONLY <3>1, AppendIsConcat
  <2> QED BY <1>1, <2>1 DEF d, AppendsTo
<1>5. Queues(c, new)
  <2> HIDE DEF one
  <2> QED BY <1>2, <1>4, AppendsOne
<1>6. \A x \in Consumers : new[x] \in Seq(OwnGood(c, x))
  BY <1>3 DEF Destinations, Only
<1>7. new[Reports] \in Seq(OwnReports(c))
  BY <1>2, ReportsApart DEF Only
<1>8. /\ DOMAIN new[d] = {1} /\ new[d][1] = m
      /\ \A x \in Destinations : x # d => DOMAIN new[x] = {}
  BY <1>2 DEF Only
<1> HIDE DEF new
<1>9. IF Msg(c).upon = "BAILOUT" THEN NoneCarriesOn(new) ELSE OneCarriesOn(new)
  <2>1. CASE Msg(c).upon = "BAILOUT"
    <3>1. \A x \in Destinations : \A i \in DOMAIN new[x] : x = d /\ new[x][i] = m
      BY <1>8
    <3> QED BY <1>2, <2>1, <3>1 DEF NoneCarriesOn, CarriesOn
  <2>2. CASE Msg(c).upon # "BAILOUT"
    <3>1. \A x \in Destinations : \A i \in DOMAIN new[x] : x = d /\ i = 1
      BY <1>8
    <3>2. 1 \in DOMAIN new[d] /\ CarriesOn(d, new[d][1])
      BY <1>8, <2>2 DEF CarriesOn
    <3>3. OneCarriesOn(new)
      BY <1>2, <3>1, <3>2 DEF OneCarriesOn
    <3> QED BY <2>2, <3>3
  <2> QED BY <2>1, <2>2
<1>10. Emits(c, new)
  BY <1>5, <1>6, <1>7, <1>9 DEF Emits
<1>11. one = <<m>>
  OBVIOUS
<1> HIDE DEF one
<1> QED
  BY <1>2, <1>10, <1>11 DEF new

LEMMA ProduceEmits ==
    ASSUME Inv, NEW c \in Consumers, Ready(c), NEW m, TxnOK(m),
           m.id = Msg(c).id, m.upon = Msg(c).upon,
           CurrentStep(m).sys # "PROCESS" => CurrentStep(m).off # Nil,
           Produce(c, m)
    PROVE  \E new : Emits(c, new)
BY ProduceMakes

\* The report of the end of a transaction.
LEMMA ReportType ==
    ASSUME NEW c, NEW m, m.id = Msg(c).id, m.id \in Txns, NEW code \in Codes
    PROVE  /\ Report(m, code) \in Seq(OwnReports(c))
           /\ m.upon = "BAILOUT" => Report(m, code) = <<>>
           /\ m.upon # "BAILOUT" => Report(m, code) = <<[id |-> m.id, code |-> code]>>
<1>1. [id |-> m.id, code |-> code] \in OwnReports(c)
  BY DEF OwnReports, ReportMsgs
<1> QED
  BY <1>1 DEF Report

LEMMA ErrorMakes ==
    ASSUME Inv, NEW c \in Consumers, Ready(c), NEW code \in Codes,
           ProduceError(c, Msg(c), code)
    PROVE  Emits(c, Only(Reports, Report(Msg(c), code)))
<1> DEFINE m == Msg(c)
           r == Report(m, code)
           new == Only(Reports, r)
<1>1. m.id \in Txns
  BY ReadFacts, TxnFields
<1>2. /\ r \in Seq(OwnReports(c))
      /\ m.upon = "BAILOUT" => r = <<>>
      /\ m.upon # "BAILOUT" => r = <<[id |-> m.id, code |-> code]>>
  BY <1>1, ReportType
<1>3. AppendsTo(c, Reports, r)
  BY DEF ProduceError, AppendsTo
<1> HIDE DEF r, m
<1>4. Queues(c, new)
  BY <1>3, AppendsOne, ReportsApart
<1>5. \A x \in Consumers : new[x] \in Seq(OwnGood(c, x))
  BY ReportsApart DEF Destinations, Only
<1>6. new[Reports] \in Seq(OwnReports(c))
  BY <1>2, ReportsApart DEF Only
<1>7. /\ DOMAIN new[Reports] = IF m.upon = "BAILOUT" THEN {} ELSE {1}
      /\ \A x \in Destinations : x # Reports => DOMAIN new[x] = {}
  BY <1>2, ReportsApart DEF Only
<1> HIDE DEF new
<1>8. IF m.upon = "BAILOUT" THEN NoneCarriesOn(new) ELSE OneCarriesOn(new)
  <2>1. CASE m.upon = "BAILOUT"
    <3>1. \A x \in Destinations : DOMAIN new[x] = {}
      BY <1>7, <2>1
    <3> QED BY <2>1, <3>1 DEF NoneCarriesOn
  <2>2. CASE m.upon # "BAILOUT"
    <3>1. \A x \in Destinations : \A i \in DOMAIN new[x] : x = Reports /\ i = 1
      BY <1>7, <2>2
    <3>2. OneCarriesOn(new)
      BY <1>7, <2>2, <3>1, ReportsApart DEF OneCarriesOn, CarriesOn
    <3> QED BY <2>2, <3>2
  <2> QED BY <2>1, <2>2
<1>9. Emits(c, new)
  BY <1>4, <1>5, <1>6, <1>8 DEF Emits, m
<1> QED
  BY <1>9 DEF new, r, m

LEMMA ErrorEmits ==
    ASSUME Inv, NEW c \in Consumers, Ready(c), NEW code \in Codes,
           ProduceError(c, Msg(c), code)
    PROVE  \E new : Emits(c, new)
BY ErrorMakes

-----------------------------------------------------------------------------
(* The storage transactions made from a complete one *)

LEMMA StorageTxnGood ==
    ASSUME NEW id \in Txns, NEW st, IsTodo(st, id), st.sys # "PROCESS", st.off # Nil,
           NEW d, d = <<st.sys, PartOf[st.key]>>,
           NEW new, new = [id |-> id, upon |-> "BAILOUT", cur |-> 1, steps |-> <<st>>]
    PROVE  new \in Good(d) /\ new.id = id /\ new.upon = "BAILOUT"
<1> DEFINE one == <<st>>
<1>1. st \in Steps /\ st.rslt = Nil
  BY DEF IsTodo, StepOK
<1>2. one \in Seq(Steps) /\ Len(one) = 1 /\ one[1] = st /\ DOMAIN one = {1}
  BY <1>1
<1>3. /\ new.id = id /\ new.upon = "BAILOUT" /\ new.cur = 1 /\ new.steps = one
      /\ new \in Messages
  <2> HIDE DEF one
  <2> QED BY <1>2 DEF Messages, one
<1> HIDE DEF one
<1>4. \A i \in 1..Len(one) : i = 1
  BY <1>2
<1>5. TxnOK(new)
  <2>1. new.cur <= Len(new.steps)
    BY <1>2, <1>3
  <2>2. \A i \in 1..Len(new.steps) : ~(i < new.cur) /\ new.steps[i] = st
    BY <1>2, <1>3, <1>4
  <2> QED BY <1>3, <2>1, <2>2 DEF TxnOK
<1>6. CurrentStep(new) = st
  BY <1>2, <1>3 DEF CurrentStep
<1>7. Resumable(d, new)
  <2>1. d[1] = st.sys /\ d[2] = PartOf[st.key]
    OBVIOUS
  <2> QED BY <1>1, <1>2, <1>3, <1>6, <2>1 DEF Resumable
<1> QED
  BY <1>3, <1>5, <1>7 DEF Good

LEMMA SecondaryGood ==
    ASSUME NEW m, StepDone(m), ~CanAdvance(m), NEW p, NEW i \in SecondaryStepsAt(m, p),
           NEW d, d = <<"STORAGE_SCND", p>>
    PROVE  /\ SecondaryTxn(m, i) \in Good(d)
           /\ SecondaryTxn(m, i).id = m.id /\ SecondaryTxn(m, i).upon = "BAILOUT"
<1> DEFINE st == m.steps[i]
<1>1. /\ i \in DOMAIN m.steps /\ st.sys = "STORAGE"
      /\ st.cmd \in {"Create", "Update", "Delete"} /\ PartOf[st.rslt.key] = p
  BY DEF SecondaryStepsAt, SecondarySteps
<1>2. m.id \in Txns /\ m.steps \in Seq(Steps) /\ m.cur \in Nat
  BY DEF StepDone, Messages
<1>3. IsDone(st, m.id)
  <2>1. DOMAIN m.steps = 1..Len(m.steps) /\ Len(m.steps) \in Nat
    BY <1>2, LenProperties
  <2> QED BY <1>1, <1>2, <2>1 DEF StepDone, CanAdvance
<1>4. SecondaryTxn(m, i) =
        [id |-> m.id, upon |-> "BAILOUT", cur |-> 1,
         steps |-> <<Step("STORAGE_SCND", st.cmd, st.rslt.key, st.rslt.payload, st.off)>>]
  BY DEF SecondaryTxn, StorageTxn
<1> HIDE DEF st
<1>5. /\ st \in Steps /\ st.rslt # Nil /\ st.off # Nil /\ Versioned(st.off, m.id)
      /\ st.cmd = "Delete" => DeletesAsked
      /\ st.payload # Nil => st.rslt.payload # Nil
      /\ NeedsPayload(st) => st.payload # Nil
  BY <1>3 DEF IsDone, StepOK
<1>6. st.rslt.key \in Keys \cup {NoKey} /\ st.rslt.payload \in Instances \cup {Nil}
  BY <1>5, StepFields DEF Results
<1> DEFINE new == Step("STORAGE_SCND", st.cmd, st.rslt.key, st.rslt.payload, st.off)
<1>7. NeedsPayload(new) => st.rslt.payload # Nil
  <2>1. NeedsPayload(new) => st.cmd \in {"Create", "Update"}
    BY <1>1 DEF NeedsPayload, Step
  <2>2. st.cmd \in {"Create", "Update"} => NeedsPayload(st)
    BY <1>1 DEF NeedsPayload
  <2> QED BY <1>5, <2>1, <2>2
<1>8. IsTodo(new, m.id)
  <2>1. st.cmd \in Commands /\ "STORAGE_SCND" \in Systems
    BY <1>5, StepFields DEF Systems
  <2> QED BY <1>5, <1>6, <1>7, <2>1, NewStep
<1>9. new.sys = "STORAGE_SCND" /\ new.key = st.rslt.key /\ new.off = st.off
  BY DEF Step
<1>10. SecondaryTxn(m, i) = [id |-> m.id, upon |-> "BAILOUT", cur |-> 1, steps |-> <<new>>]
  BY <1>4
<1> HIDE DEF new
<1>11. d = <<new.sys, PartOf[new.key]>> /\ new.sys # "PROCESS" /\ new.off # Nil
  BY <1>1, <1>5, <1>9
<1> QED
  BY ONLY <1>2, <1>8, <1>10, <1>11, StorageTxnGood

LEMMA UpdateAsyncGood ==
    ASSUME NEW m, StepDone(m), ~CanAdvance(m), NEW sys \in {"STORAGE", "STORAGE_SCND"},
           NEW p, NEW i \in UpdateStepsAt(m, p), NEW d, d = <<sys, p>>
    PROVE  /\ UpdateAsyncTxn(m, sys, i) \in Good(d)
           /\ UpdateAsyncTxn(m, sys, i).id = m.id
           /\ UpdateAsyncTxn(m, sys, i).upon = "BAILOUT"
<1> DEFINE st == m.steps[i]
<1>1. i \in DOMAIN m.steps /\ st.rslt.inst # Nil /\ PartOf[st.key] = p
  BY DEF UpdateStepsAt, UpdateSteps
<1>2. m.id \in Txns /\ m.steps \in Seq(Steps) /\ m.cur \in Nat
  BY DEF StepDone, Messages
<1>3. IsDone(st, m.id)
  <2>1. DOMAIN m.steps = 1..Len(m.steps) /\ Len(m.steps) \in Nat
    BY <1>2, LenProperties
  <2> QED BY <1>1, <1>2, <2>1 DEF StepDone, CanAdvance
<1>4. UpdateAsyncTxn(m, sys, i) =
        [id |-> m.id, upon |-> "BAILOUT", cur |-> 1,
         steps |-> <<Step(sys, "UpdateAsync", st.key, st.rslt.inst, st.off)>>]
  BY DEF UpdateAsyncTxn, StorageTxn
<1> HIDE DEF st
<1>5. st \in Steps /\ st.rslt # Nil /\ st.off # Nil /\ Versioned(st.off, m.id)
  BY <1>3 DEF IsDone, StepOK
<1>6. st.key \in Keys \cup {NoKey} /\ st.rslt.inst \in Instances \cup {Nil}
  BY <1>5, StepFields DEF Results
<1> DEFINE cmd == "UpdateAsync"
           new == Step(sys, cmd, st.key, st.rslt.inst, st.off)
<1>7. cmd \in Commands /\ cmd # "Delete"
  BY DEF Commands, ReservedCommands
<1>8. sys \in Systems
  BY DEF Systems
<1>9. IsTodo(new, m.id)
  <2> HIDE DEF cmd
  <2> QED BY <1>1, <1>5, <1>6, <1>7, <1>8, NewStep
<1>10. new.sys = sys /\ new.key = st.key /\ new.off = st.off /\ sys # "PROCESS"
  BY DEF Step
<1>11. UpdateAsyncTxn(m, sys, i) =
         [id |-> m.id, upon |-> "BAILOUT", cur |-> 1, steps |-> <<new>>]
  BY <1>4
<1> HIDE DEF new
<1>12. d = <<new.sys, PartOf[new.key]>> /\ new.sys # "PROCESS" /\ new.off # Nil
  BY <1>1, <1>5, <1>10
<1> QED
  BY ONLY <1>2, <1>9, <1>11, <1>12, StorageTxnGood

\* An enumeration of step numbers is a sequence of them.
LEMMA EnumerationType ==
    ASSUME NEW n \in Nat, NEW S \in SUBSET (1..n), NEW f \in Enumerations(S)
    PROVE  f \in Seq(S)
<1> DEFINE I == 1..n
<1>1. IsFiniteSet(S)
  <2>1. IsFiniteSet(I)
    BY FS_Interval
  <2>2. S \in SUBSET I
    OBVIOUS
  <2> HIDE DEF I
  <2> QED BY <2>1, <2>2, FS_Subset
<1>2. Cardinality(S) \in Nat
  BY <1>1, FS_CardinalityType
<1>3. f \in [1..Cardinality(S) -> S]
  BY DEF Enumerations
<1> QED
  BY <1>2, <1>3, SeqDef

\* Made transactions are BAILOUT ones of the same id, and can be carried on
\* with at their destination.
LEMMA GeneratedType ==
    ASSUME NEW m, StepDone(m), ~CanAdvance(m), NEW d \in Consumers,
           NEW fst \in Seq(SecondaryStepsAt(m, d[2])), NEW snd \in Seq(UpdateStepsAt(m, d[2]))
    PROVE  Generated(m, d, fst, snd) \in
             Seq({x \in Good(d) : x.id = m.id /\ x.upon = "BAILOUT"})
<1> DEFINE X == {x \in Good(d) : x.id = m.id /\ x.upon = "BAILOUT"}
           loop1 == IF d[1] = "STORAGE_SCND"
                    THEN [i \in 1..Len(fst) |-> SecondaryTxn(m, fst[i])] ELSE <<>>
           loop2 == IF d[1] # "PROCESS"
                    THEN [i \in 1..Len(snd) |-> UpdateAsyncTxn(m, d[1], snd[i])] ELSE <<>>
<1>1. Generated(m, d, fst, snd) = loop1 \o loop2
  BY DEF Generated
<1>2. d = <<d[1], d[2]>> /\ d[1] \in {"PROCESS", "STORAGE", "STORAGE_SCND"}
  BY ConsumerPair DEF Systems
<1>3. ASSUME d[1] = "STORAGE_SCND", NEW i \in 1..Len(fst) PROVE SecondaryTxn(m, fst[i]) \in X
  <2>1. fst[i] \in SecondaryStepsAt(m, d[2])
    BY ElementOfSeq
  <2>2. d = <<"STORAGE_SCND", d[2]>>
    BY <1>2, <1>3
  <2> QED BY <2>1, <2>2, SecondaryGood
<1>4. ASSUME d[1] # "PROCESS", NEW i \in 1..Len(snd) PROVE UpdateAsyncTxn(m, d[1], snd[i]) \in X
  <2>1. snd[i] \in UpdateStepsAt(m, d[2])
    BY ElementOfSeq
  <2>2. d[1] \in {"STORAGE", "STORAGE_SCND"}
    BY <1>2, <1>4
  <2> QED BY <1>2, <2>1, <2>2, UpdateAsyncGood
<1>5. Len(fst) \in Nat /\ Len(snd) \in Nat
  BY LenProperties
<1> HIDE DEF X
<1>6. loop1 \in Seq(X)
  <2>1. CASE d[1] = "STORAGE_SCND"
    BY <1>3, <1>5, <2>1, SeqDef
  <2>2. CASE d[1] # "STORAGE_SCND"
    BY <2>2
  <2> QED BY <2>1, <2>2
<1>7. loop2 \in Seq(X)
  <2>1. CASE d[1] # "PROCESS"
    BY <1>4, <1>5, <2>1, SeqDef
  <2>2. CASE d[1] = "PROCESS"
    BY <2>2
  <2> QED BY <2>1, <2>2
<1> HIDE DEF loop1, loop2
<1> QED
  BY <1>1, <1>6, <1>7, ConcatProperties DEF X

\* What a consumer produces when a transaction is complete: its report, and the
\* transactions made from it in some order of the steps.
EndsWith(m, new) ==
    /\ new[Reports] = Report(m, "OK")
    /\ \A d \in Consumers :
          \E fst \in Ascending(SecondaryStepsAt(m, d[2])),
             snd \in Enumerations(UpdateStepsAt(m, d[2])) :
                new[d] = Generated(m, d, fst, snd)

LEMMA EndMakes ==
    ASSUME Inv, NEW c \in Consumers, Ready(c), NEW m, StepDone(m), ~CanAdvance(m),
           m.id = Msg(c).id, m.upon = Msg(c).upon, ProduceAtEnd(c, m)
    PROVE  \E new : Emits(c, new) /\ EndsWith(m, new)
<1>1. PICK fst \in [Parts -> UNION {Ascending(SecondaryStepsAt(m, p)) : p \in Parts}],
           snd \in [Parts -> UNION {Enumerations(UpdateStepsAt(m, p)) : p \in Parts}] :
        /\ \A p \in Parts : /\ fst[p] \in Ascending(SecondaryStepsAt(m, p))
                            /\ snd[p] \in Enumerations(UpdateStepsAt(m, p))
        /\ out' = [out EXCEPT ![c] = [d \in Destinations |->
                      @[d] \o IF d = Reports THEN Report(m, "OK")
                              ELSE Generated(m, d, fst[d[2]], snd[d[2]])]]
  BY DEF ProduceAtEnd
<1> DEFINE new == [d \in Destinations |->
                      IF d = Reports THEN Report(m, "OK")
                      ELSE Generated(m, d, fst[d[2]], snd[d[2]])]
<1>2. m.id \in Txns /\ m.steps \in Seq(Steps)
  BY DEF StepDone, Messages
<1>3. /\ Report(m, "OK") \in Seq(OwnReports(c))
      /\ m.upon = "BAILOUT" => Report(m, "OK") = <<>>
      /\ m.upon # "BAILOUT" => Report(m, "OK") = <<[id |-> m.id, code |-> "OK"]>>
  BY <1>2, ReportType DEF Codes
<1>4. ASSUME NEW d \in Consumers
      PROVE  new[d] \in Seq({x \in Good(d) : x.id = m.id /\ x.upon = "BAILOUT"})
  <2>1. d[2] \in Parts /\ d \in Destinations /\ d # Reports
    BY ConsumerPair, ReportsApart DEF Destinations
  <2>2. Len(m.steps) \in Nat /\ DOMAIN m.steps = 1..Len(m.steps)
    BY <1>2, LenProperties
  <2>3. /\ SecondaryStepsAt(m, d[2]) \in SUBSET (1..Len(m.steps))
        /\ UpdateStepsAt(m, d[2]) \in SUBSET (1..Len(m.steps))
    BY <2>2 DEF SecondaryStepsAt, SecondarySteps, UpdateStepsAt, UpdateSteps
  <2>4. fst[d[2]] \in Enumerations(SecondaryStepsAt(m, d[2]))
        /\ snd[d[2]] \in Enumerations(UpdateStepsAt(m, d[2]))
    BY <1>1, <2>1 DEF Ascending
  <2>5. fst[d[2]] \in Seq(SecondaryStepsAt(m, d[2])) /\ snd[d[2]] \in Seq(UpdateStepsAt(m, d[2]))
    BY <2>2, <2>3, <2>4, EnumerationType
  <2>6. new[d] = Generated(m, d, fst[d[2]], snd[d[2]])
    BY <2>1
  <2> QED BY <2>5, <2>6, GeneratedType
<1>5. \A d \in Consumers : new[d] \in Seq(OwnGood(c, d))
  <2> SUFFICES ASSUME NEW d \in Consumers PROVE new[d] \in Seq(OwnGood(c, d))
    OBVIOUS
  <2> DEFINE X == {x \in Good(d) : x.id = m.id /\ x.upon = "BAILOUT"}
  <2>1. X \subseteq OwnGood(c, d)
    BY DEF OwnGood
  <2>2. new[d] \in Seq(X)
    BY <1>4
  <2> HIDE DEF X, new
  <2> QED BY <2>1, <2>2, SeqMonotonic
<1>6. new[Reports] \in Seq(OwnReports(c))
  BY <1>3, ReportsApart
<1>7. Queues(c, new)
  <2> DEFINE queue == [d \in Destinations |-> out[c][d] \o new[d]]
  <2>0. out' = [out EXCEPT ![c] = queue]
    <3>1. queue = [d \in Destinations |->
                     out[c][d] \o IF d = Reports THEN Report(m, "OK")
                                  ELSE Generated(m, d, fst[d[2]], snd[d[2]])]
      OBVIOUS
    <3> HIDE DEF queue
    <3> QED BY <1>1, <3>1
  <2> HIDE DEF new
  <2>1. out'[c] = [d \in Destinations |-> out[c][d] \o new[d]]
    <3> HIDE DEF queue
    <3>1. out'[c] = queue
      BY <2>0, OutFields, ReportsApart
    <3> QED BY <3>1 DEF queue
  <2> HIDE DEF queue
  <2>2. \A b \in Consumers : b # c => out'[b] = [d \in Destinations |-> out[b][d]]
    <3> SUFFICES ASSUME NEW b \in Consumers, b # c
                 PROVE  out'[b] = [d \in Destinations |-> out[b][d]]
      OBVIOUS
    <3>1. out'[b] = out[b]
      BY <2>0, OutFields, ReportsApart
    <3>2. out[b] = [d \in Destinations |-> out[b][d]]
      BY OutFields, ReportsApart
    <3> QED BY <3>1, <3>2
  <2>3. out' = [b \in Consumers |-> out'[b]]
    BY <2>0, OutFields, ReportsApart
  <2>4. ASSUME NEW b \in Consumers
        PROVE  out'[b] = [d \in Destinations |->
                             IF b = c THEN out[b][d] \o new[d] ELSE out[b][d]]
    BY <2>1, <2>2
  <2> QED BY <2>3, <2>4 DEF Queues
<1>8. /\ DOMAIN new[Reports] = IF m.upon = "BAILOUT" THEN {} ELSE {1}
      /\ \A d \in Destinations : d # Reports =>
            \A i \in DOMAIN new[d] : ~CarriesOn(d, new[d][i])
  <2>1. DOMAIN new[Reports] = IF m.upon = "BAILOUT" THEN {} ELSE {1}
    BY <1>3, ReportsApart
  <2>2. ASSUME NEW d \in Destinations, d # Reports, NEW i \in DOMAIN new[d]
        PROVE  ~CarriesOn(d, new[d][i])
    <3> DEFINE X == {x \in Good(d) : x.id = m.id /\ x.upon = "BAILOUT"}
    <3>1. new[d] \in Seq(X)
      BY <1>4, <2>2 DEF Destinations
    <3>2. \A x \in X : x.upon = "BAILOUT"
      OBVIOUS
    <3> HIDE DEF X, new
    <3>3. new[d][i] \in X
      BY <3>1, LenProperties
    <3> QED BY <2>2, <3>2, <3>3 DEF CarriesOn
  <2> HIDE DEF new
  <2> QED BY <2>1, <2>2
<1>10. EndsWith(m, new)
  <2>1. ASSUME NEW d \in Consumers
        PROVE  \E f \in Ascending(SecondaryStepsAt(m, d[2])),
                  s \in Enumerations(UpdateStepsAt(m, d[2])) :
                     new[d] = Generated(m, d, f, s)
    <3>1. d[2] \in Parts /\ d \in Destinations /\ d # Reports
      BY ConsumerPair, ReportsApart DEF Destinations
    <3>2. new[d] = Generated(m, d, fst[d[2]], snd[d[2]])
      BY <3>1
    <3> HIDE DEF new
    <3> QED BY <1>1, <3>1, <3>2
  <2>2. new[Reports] = Report(m, "OK")
    BY ReportsApart
  <2> HIDE DEF new
  <2> QED BY <2>1, <2>2 DEF EndsWith
<1> HIDE DEF new
<1>9. IF m.upon = "BAILOUT" THEN NoneCarriesOn(new) ELSE OneCarriesOn(new)
  <2>1. CASE m.upon = "BAILOUT"
    <3>1. NoneCarriesOn(new)
      BY <1>8, <2>1 DEF NoneCarriesOn
    <3> QED BY <2>1, <3>1
  <2>2. CASE m.upon # "BAILOUT"
    <3>1. \A x \in Destinations : \A i \in DOMAIN new[x] :
             CarriesOn(x, new[x][i]) => x = Reports /\ i = 1
      BY <1>8, <2>2
    <3>2. 1 \in DOMAIN new[Reports] /\ CarriesOn(Reports, new[Reports][1])
      BY <1>8, <2>2 DEF CarriesOn
    <3>3. OneCarriesOn(new)
      BY <3>1, <3>2, ReportsApart DEF OneCarriesOn
    <3> QED BY <2>2, <3>3
  <2> QED BY <2>1, <2>2
<1> QED
  BY <1>5, <1>6, <1>7, <1>9, <1>10 DEF Emits

LEMMA EndEmits ==
    ASSUME Inv, NEW c \in Consumers, Ready(c), NEW m, StepDone(m), ~CanAdvance(m),
           m.id = Msg(c).id, m.upon = Msg(c).upon, ProduceAtEnd(c, m)
    PROVE  \E new : Emits(c, new)
BY EndMakes

-----------------------------------------------------------------------------
(* Ways a handler ends *)

\* The message is read: its process has produced what follows, and the consumer
\* has stored its offset.
Handled(c) == StoreOffsets(c) /\ \E new : Emits(c, new)

LEMMA FinishesHandled ==
    ASSUME Inv, NEW c \in Consumers, Ready(c),
           NEW key \in Keys \cup {NoKey}, NEW payload \in Instances \cup {Nil},
           NEW inst \in Instances \cup {Nil}, NEW add \in Seq(Steps),
           \A i \in 1..Len(add) : IsTodo(add[i], Msg(c).id),
           Finishes(c, key, payload, inst, add)
    PROVE  Handled(c)
<1> DEFINE step == Arrived(c)
           m == Msg(c)
           pl == IF payload = Nil THEN step.payload ELSE payload
           done == [step EXCEPT !.rslt = Result("OK", key, pl, inst)]
           txn == InsertSteps(SetCurrentStep(m, done), m.cur + 1, add)
<1>1. /\ \/ CanAdvance(txn) /\ Produce(c, NextStepTxn(txn))
         \/ ~CanAdvance(txn) /\ ProduceAtEnd(c, txn)
      /\ StoreOffsets(c)
  BY DEF Finishes
<1>2. TxnOK(m) /\ IsTodo(step, m.id) /\ step.off # Nil
  BY ReadFacts, ArrivedTodo
<1>3. pl \in Instances \cup {Nil} /\ (step.payload # Nil => pl # Nil)
  BY <1>2, StepFields DEF IsTodo, StepOK
<1> HIDE DEF pl, step, m
<1>4. IsDone(done, m.id)
  BY <1>2, <1>3, TodoFinished, Zenon
<1> HIDE DEF done
<1>5. StepDone(txn) /\ txn.id = m.id /\ txn.upon = m.upon
  BY <1>2, <1>4, StepIsDone DEF m
<1> HIDE DEF txn
<1>6. \E new : Emits(c, new)
  <2>1. CASE CanAdvance(txn) /\ Produce(c, NextStepTxn(txn))
    <3> DEFINE next == NextStepTxn(txn)
    <3>1. /\ TxnOK(next) /\ next.id = txn.id /\ next.upon = txn.upon
          /\ CurrentStep(next).sys # "PROCESS" => CurrentStep(next).off # Nil
      BY <1>5, <2>1, NextOK
    <3>2. Produce(c, next)
      BY <2>1
    <3> HIDE DEF next
    <3> QED BY <1>5, <3>1, <3>2, ProduceEmits DEF m
  <2>2. CASE ~CanAdvance(txn) /\ ProduceAtEnd(c, txn)
    BY <1>5, <2>2, EndEmits DEF m
  <2> QED BY <1>1, <2>1, <2>2
<1> QED
  BY <1>1, <1>6 DEF Handled

LEMMA FailsHandled ==
    ASSUME Inv, NEW c \in Consumers, Ready(c), NEW code \in Codes, Fails(c, code)
    PROVE  Handled(c)
BY ErrorEmits DEF Fails, Handled

\* A handler that adds no step, and one that adds a single one.
LEMMA FinishesWithNone ==
    ASSUME Inv, NEW c \in Consumers, Ready(c),
           NEW key \in Keys \cup {NoKey}, NEW payload \in Instances \cup {Nil},
           NEW inst \in Instances \cup {Nil}, Finishes(c, key, payload, inst, <<>>)
    PROVE  Handled(c)
<1> DEFINE add == <<>>
<1>1. add \in Seq(Steps) /\ \A i \in 1..Len(add) : IsTodo(add[i], Msg(c).id)
  OBVIOUS
<1>2. Finishes(c, key, payload, inst, add)
  OBVIOUS
<1> HIDE DEF add
<1> QED
  BY <1>1, <1>2, FinishesHandled

LEMMA FinishesWithOne ==
    ASSUME Inv, NEW c \in Consumers, Ready(c),
           NEW key \in Keys \cup {NoKey}, NEW payload \in Instances \cup {Nil},
           NEW inst \in Instances \cup {Nil}, NEW st, IsTodo(st, Msg(c).id),
           Finishes(c, key, payload, inst, <<st>>)
    PROVE  Handled(c)
<1> DEFINE add == <<st>>
<1>0. st \in Steps
  BY DEF IsTodo, StepOK
<1>1. add \in Seq(Steps) /\ \A i \in 1..Len(add) : IsTodo(add[i], Msg(c).id)
  BY <1>0
<1>2. Finishes(c, key, payload, inst, add)
  OBVIOUS
<1> HIDE DEF add
<1> QED
  BY <1>1, <1>2, FinishesHandled
-----------------------------------------------------------------------------
(* One iteration of a consumer's loop *)

\* A consumer stores the offset of the message it has handled, or exits after it
\* has committed the offset of the message it could not handle.
Iteration(c) ==
    /\ Ready(c) /\ UNCHANGED outside
    /\ \/ Handled(c) /\ UNCHANGED committed
       \/ UNCHANGED <<out, pos>> /\ committed' = [committed EXCEPT ![c] = pos[c]]
    /\ cancels' \in [Consumers -> SUBSET (Txns \cap Cancels)]
    /\ faults' \in 0..MaxFaults /\ faults <= faults'

\* The rows of the storage target of sys: none but its own consumers write them,
\* under the offset of the current step.
Writes(c, sys, rows, new) ==
    \/ new = rows
    \/ c[1] = sys /\ \E key \in Keys, inst \in Instances :
          new = DbUpdate(rows, key, inst, Arrived(c).off)
    \/ c[1] = sys /\ Arrived(c).cmd = "Delete" /\ \E key \in Keys :
          new = DbDelete(rows, key, Arrived(c).off)

\* A write that is not a client's, or cannot have failed, has been done when the
\* consumer goes on.
WriteDone(c, sys, new) ==
    LET step == CurrentStep(Msg(c))
    IN /\ c[1] = sys /\ pos' # pos
       /\ IsStorageWrite(step) /\ step.cmd # "Delete" /\ step.key # NoKey
       /\ Msg(c).upon = "BAILOUT" \/ (faults' = 0 /\ Cancels = {})
       => step.key \in DOMAIN new /\ OffsetGTE(new[step.key].off, step.off)

Effect(c) ==
    /\ Iteration(c)
    /\ IsMapTo(store', Keys, InstanceRecord(Instances))
    /\ Writes(c, "STORAGE", db, db') /\ WriteDone(c, "STORAGE", db')
    /\ Writes(c, "STORAGE_SCND", scnd, scnd') /\ WriteDone(c, "STORAGE_SCND", scnd')

\* What the checks before a handler establish.
LEMMA CheckedFacts ==
    ASSUME Inv, NEW c \in Consumers, Ready(c)
    PROVE  LET step == Arrived(c)
           IN /\ IsTodo(step, Msg(c).id) /\ Msg(c).id \in Txns
              /\ step.off \in CmpdOffsets /\ Versioned(step.off, Msg(c).id) /\ step.off # Nil
              /\ step.payload \in Instances \cup {Nil}
              /\ NeedsPayload(step) => step.payload \in Instances
              /\ step.cmd = "Delete" => DeletesAsked
              /\ step.key \in Keys \cup {NoKey}
              /\ RefuseCode(c) = "OK" => step.key \in Keys \/ IsKeylessStep(step)
              /\ RefuseCode(c) # "OK" => step.key = NoKey
              /\ RefuseCode(c) \in Codes
<1> DEFINE step == Arrived(c)
<1>1. IsTodo(step, Msg(c).id) /\ step.sys = c[1] /\ step.off # Nil
  BY ArrivedTodo
<1>2. Msg(c).id \in Txns
  BY ReadFacts, TxnFields
<1>3. /\ step \in Steps /\ step.rslt = Nil /\ Versioned(step.off, Msg(c).id)
      /\ step.cmd = "Delete" => DeletesAsked
      /\ NeedsPayload(step) => step.payload # Nil
  BY <1>1 DEF IsTodo, StepOK
<1>4. /\ step.off \in CmpdOffsets /\ step.payload \in Instances \cup {Nil}
      /\ step.key \in Keys \cup {NoKey}
  BY <1>1, <1>3, StepFields
<1>5. /\ RefuseCode(c) = "OK" => ~(step.key = NoKey /\ ~IsKeylessStep(step))
      /\ RefuseCode(c) # "OK" => step.key = NoKey
      /\ RefuseCode(c) \in {"OK", "KEY_NOT_PRESENT"}
  <2>1. RefuseCode(c) = CASE step.key = NoKey /\ ~IsKeylessStep(step) -> "KEY_NOT_PRESENT"
                          [] OTHER -> "OK"
    <3> HIDE DEF step
    <3> QED BY <1>1, <1>3 DEF RefuseCode, step
  <2> QED BY <2>1
<1> QED
  BY <1>1, <1>2, <1>3, <1>4, <1>5 DEF Codes

LEMMA InstanceThere ==
    ASSUME Inv, NEW map \in {store, db, scnd}, NEW key \in DOMAIN map
    PROVE  key \in Keys /\ map[key].inst \in Instances /\ map[key].off \in CmpdOffsets
BY DEF Inv, MapsOK, IsMapTo, InstanceRecord

\* An iteration that handles the message and leaves the storage targets alone.
LEMMA NoWrite ==
    ASSUME Inv, NEW c \in Consumers, Ready(c), Handled(c),
           UNCHANGED <<outside, faults, committed, store, db, scnd, cancels>>,
           \/ c[1] = "PROCESS"
           \/ ~IsStorageWrite(CurrentStep(Msg(c)))
           \/ CurrentStep(Msg(c)).key = NoKey
    PROVE  Effect(c)
<1>1. faults' \in 0..MaxFaults /\ faults <= faults'
      /\ cancels' \in [Consumers -> SUBSET (Txns \cap Cancels)]
  BY BoundsAssumption DEF Inv, RestOK
<1>2. Iteration(c)
  BY <1>1 DEF Iteration
<1>3. IsMapTo(store', Keys, InstanceRecord(Instances))
  BY DEF Inv, MapsOK
<1>4. Writes(c, "STORAGE", db, db') /\ Writes(c, "STORAGE_SCND", scnd, scnd')
  BY DEF Writes
<1>5. WriteDone(c, "STORAGE", db') /\ WriteDone(c, "STORAGE_SCND", scnd')
  BY DEF WriteDone
<1> QED
  BY <1>2, <1>3, <1>4, <1>5 DEF Effect

LEMMA StoreWrite ==
    ASSUME Inv, NEW c \in Consumers, Ready(c), Handled(c), c[1] = "PROCESS",
           UNCHANGED <<outside, faults, committed, db, scnd, cancels>>,
           IsMapTo(store', Keys, InstanceRecord(Instances))
    PROVE  Effect(c)
<1>1. faults' \in 0..MaxFaults /\ faults <= faults'
      /\ cancels' \in [Consumers -> SUBSET (Txns \cap Cancels)]
  BY BoundsAssumption DEF Inv, RestOK
<1>2. Iteration(c)
  BY <1>1 DEF Iteration
<1>4. Writes(c, "STORAGE", db, db') /\ Writes(c, "STORAGE_SCND", scnd, scnd')
  BY DEF Writes
<1>5. WriteDone(c, "STORAGE", db') /\ WriteDone(c, "STORAGE_SCND", scnd')
  BY DEF WriteDone
<1> QED
  BY <1>2, <1>4, <1>5 DEF Effect
\* What a handler finds.
LEMMA HandlesFacts ==
    ASSUME Inv, NEW c \in Consumers, NEW sys, NEW cmds, Handles(c, sys, cmds)
    PROVE  LET step == Arrived(c)
           IN /\ Ready(c) /\ c[1] = sys /\ step.sys = sys /\ step.cmd \in cmds
              /\ RefuseCode(c) = "OK"
              /\ CurrentStep(Msg(c)).sys = sys /\ CurrentStep(Msg(c)).cmd = step.cmd
              /\ step.key \in Keys \/ IsKeylessStep(step)
              /\ NeedsInstance(step) =>
                    step.key \in DOMAIN store /\ store[step.key].inst \in Instances
BY ArrivedTodo, CheckedFacts, InstanceThere DEF Handles, Reads

LEMMA ProcessReadEffect ==
    ASSUME Inv, NEW c \in Consumers, ProcessRead(c)
    PROVE  Effect(c)
<1>1. /\ Handles(c, "PROCESS", {"Read"})
      /\ Finishes(c, NoKey, store[Arrived(c).key].inst, Nil, <<>>)
      /\ UNCHANGED <<outside, faults, committed, store, db, scnd, cancels>>
  BY DEF ProcessRead
<1>2. Ready(c) /\ c[1] = "PROCESS" /\ store[Arrived(c).key].inst \in Instances
  BY <1>1, HandlesFacts DEF NeedsInstance, IsKeylessStep, IsInstanceStoreStep
<1>3. Handled(c)
  BY <1>1, <1>2, FinishesWithNone
<1> QED
  BY <1>1, <1>2, <1>3, NoWrite

LEMMA ProcessForwardEffect ==
    ASSUME Inv, NEW c \in Consumers, ProcessForward(c)
    PROVE  Effect(c)
<1> DEFINE step == Arrived(c)
           payload == IF step.cmd = "Update" THEN step.payload ELSE store[step.key].inst
           sys == "STORAGE"
           st == Step(sys, step.cmd, step.key, payload, Nil)
<1>1. /\ Handles(c, "PROCESS", {"Update", "Delete"})
      /\ Finishes(c, NoKey, Nil, Nil, <<st>>)
      /\ UNCHANGED <<outside, faults, committed, store, db, scnd, cancels>>
  BY DEF ProcessForward
<1>2. /\ Ready(c) /\ c[1] = "PROCESS" /\ store[step.key].inst \in Instances
      /\ step.sys = "PROCESS" /\ step.cmd \in {"Update", "Delete"}
  BY <1>1, HandlesFacts DEF NeedsInstance, IsKeylessStep, IsInstanceStoreStep
<1>3. /\ step.key \in Keys \cup {NoKey}
      /\ step.cmd = "Delete" => DeletesAsked
      /\ step.cmd = "Update" => step.payload \in Instances
  BY <1>2, CheckedFacts DEF NeedsPayload
<1>4. payload \in Instances \cup {Nil} /\ payload # Nil
  BY <1>2, <1>3, NilAssumption
<1>5. step.cmd \in Commands /\ sys \in Systems /\ sys # "STORAGE_SCND"
  BY <1>2 DEF Commands, ReservedCommands, Systems
<1>6. Finishes(c, NoKey, Nil, Nil, <<st>>)
  BY <1>1
<1> HIDE DEF payload, step, sys
<1>7. IsTodo(st, Msg(c).id)
  BY <1>3, <1>4, <1>5, NewStep
<1> HIDE DEF st
<1>8. Handled(c)
  BY <1>2, <1>6, <1>7, FinishesWithOne
<1> QED
  BY <1>1, <1>2, <1>8, NoWrite

LEMMA RefreshInstanceEffect ==
    ASSUME Inv, NEW c \in Consumers, RefreshInstance(c)
    PROVE  Effect(c)
<1> DEFINE step == Arrived(c)
           set == StoreSet(store, step.key, step.payload, step.off)
<1>1. /\ Handles(c, "PROCESS", {"RefreshInstance"})
      /\ store' = set
      /\ Finishes(c, NoKey, set[step.key].inst, Nil, <<>>)
      /\ UNCHANGED <<outside, faults, committed, db, scnd, cancels>>
  BY DEF RefreshInstance
<1>2. Ready(c) /\ c[1] = "PROCESS" /\ step.cmd = "RefreshInstance" /\ step.key \in Keys
  BY <1>1, HandlesFacts DEF IsKeylessStep
<1>3. step.payload \in Instances /\ step.off \in CmpdOffsets
  BY <1>2, CheckedFacts DEF NeedsPayload
<1> HIDE DEF step
<1>4. IsMapTo(set, Keys, InstanceRecord(Instances))
  BY <1>2, <1>3, WriteType DEF Inv, MapsOK
<1>5. step.key \in DOMAIN set
  BY DEF StoreSet, Put
<1> HIDE DEF set
<1>6. set[step.key].inst \in Instances
  BY <1>4, <1>5 DEF IsMapTo, InstanceRecord
<1>7. Handled(c)
  BY <1>1, <1>2, <1>6, FinishesWithNone
<1> QED
  BY <1>1, <1>2, <1>4, <1>7, StoreWrite

LEMMA FlushInstanceEffect ==
    ASSUME Inv, NEW c \in Consumers, FlushInstance(c)
    PROVE  Effect(c)
<1> DEFINE key == Arrived(c).key
           packed == IF key \in DOMAIN store THEN store[key].inst ELSE Nil
<1>1. /\ Handles(c, "PROCESS", {"FlushInstance"})
      /\ store' = StoreRemove(store, key)
      /\ Finishes(c, NoKey, packed, Nil, <<>>)
      /\ UNCHANGED <<outside, faults, committed, db, scnd, cancels>>
  BY DEF FlushInstance
<1>2. Ready(c) /\ c[1] = "PROCESS"
  BY <1>1, HandlesFacts
<1>3. packed \in Instances \cup {Nil}
  BY InstanceThere
<1>4. IsMapTo(store', Keys, InstanceRecord(Instances))
  BY <1>1, RestrictType DEF StoreRemove, Inv, MapsOK
<1> HIDE DEF packed, key
<1>5. Handled(c)
  BY <1>1, <1>2, <1>3, FinishesWithNone
<1> QED
  BY <1>1, <1>2, <1>4, <1>5, StoreWrite

LEMMA ValidateEffect ==
    ASSUME Inv, NEW c \in Consumers, Validate(c)
    PROVE  Effect(c)
<1> DEFINE payload == Arrived(c).payload
<1>1. /\ Handles(c, "PROCESS", {"ValidateCreate", "ValidateUpdate"})
      /\ \/ Finishes(c, NoKey, payload, Nil, <<>>)
         \/ Fails(c, "INVALID_ARGUMENT")
      /\ UNCHANGED <<outside, faults, committed, store, db, scnd, cancels>>
  BY DEF Validate
<1>2. Ready(c) /\ c[1] = "PROCESS"
  BY <1>1, HandlesFacts
<1>3. payload \in Instances \cup {Nil}
  BY <1>2, CheckedFacts
<1> HIDE DEF payload
<1>4. Handled(c)
  BY <1>1, <1>2, <1>3, FinishesWithNone, FailsHandled DEF Codes
<1> QED
  BY <1>1, <1>2, <1>4, NoWrite

LEMMA ChangeEffect ==
    ASSUME Inv, NEW c \in Consumers, Change(c)
    PROVE  Effect(c)
<1> DEFINE step == Arrived(c)
           old == store[step.key].inst
           inst == [old EXCEPT !.ops = Append(old.ops, Msg(c).id)]
<1>1. /\ Handles(c, "PROCESS", {"Change"})
      /\ store' = StoreSet(store, step.key, inst, step.off)
      /\ Finishes(c, NoKey, Nil, inst, <<>>)
      /\ UNCHANGED <<outside, faults, committed, db, scnd, cancels>>
  BY DEF Change
<1>2. /\ Ready(c) /\ c[1] = "PROCESS" /\ step.key \in DOMAIN store /\ old \in Instances
  BY <1>1, HandlesFacts DEF NeedsInstance, IsKeylessStep, IsInstanceStoreStep
<1>3. step.key \in Keys /\ step.off \in CmpdOffsets /\ Msg(c).id \in Txns
  BY <1>2, CheckedFacts, InstanceThere
<1> HIDE DEF old
<1>4. inst \in Instances
  BY <1>2, <1>3 DEF Instances
<1> HIDE DEF inst, step
<1>5. IsMapTo(store', Keys, InstanceRecord(Instances))
  BY <1>1, <1>3, <1>4, WriteType DEF Inv, MapsOK
<1>6. Handled(c)
  BY <1>1, <1>2, <1>4, FinishesWithNone
<1> QED
  BY <1>1, <1>2, <1>5, <1>6, StoreWrite

LEMMA QueryOrRejectEffect ==
    ASSUME Inv, NEW c \in Consumers, Query(c) \/ Reject(c)
    PROVE  Effect(c)
<1>1. PICK cmds : Handles(c, "PROCESS", cmds)
  BY DEF Query, Reject
<1>2. Ready(c) /\ c[1] = "PROCESS"
  BY <1>1, HandlesFacts
<1>3. Handled(c)
  BY <1>2, FinishesWithNone, FailsHandled DEF Query, Reject, Codes
<1> QED
  BY <1>2, <1>3, NoWrite DEF Query, Reject

\* A missing instance is read from storage, under the offset of this message.
LEMMA CacheMissEffect ==
    ASSUME Inv, NEW c \in Consumers, CacheMiss(c)
    PROVE  Effect(c)
<1> DEFINE step == Arrived(c)
           m == Msg(c)
           sys == "STORAGE"
           cmd == "Read"
           read == Step(sys, cmd, step.key, Nil, step.off)
           txn == SetCurrentStep(m, step)
           set == SetCurrentStep(txn, read)
           ins == InsertSteps(txn, txn.cur, <<read>>)
<1>1. /\ Ready(c) /\ NeedsInstance(step)
      /\ Produce(c, set) \/ Produce(c, ins)
      /\ StoreOffsets(c)
      /\ UNCHANGED <<outside, faults, committed, store, db, scnd, cancels>>
  BY DEF CacheMiss, Reads
<1>2. /\ c[1] = "PROCESS" /\ IsTodo(step, m.id) /\ step.off # Nil /\ Versioned(step.off, m.id)
      /\ step.key \in Keys \cup {NoKey} /\ TxnOK(m)
  BY <1>1, ArrivedTodo, CheckedFacts, ReadFacts DEF NeedsInstance
<1> HIDE DEF step
<1>3. /\ sys \in Systems /\ cmd \in Commands /\ cmd # "Delete"
      /\ NeedsPayload(read) => Nil # Nil
  BY DEF Systems, Commands, ReservedCommands, NeedsPayload, Step
<1>4. read.sys = sys /\ read.off = step.off /\ Nil \in Instances \cup {Nil}
  BY DEF Step
<1> HIDE DEF sys, cmd
<1>5. IsTodo(read, m.id)
  BY <1>2, <1>3, <1>4, NewStep
<1> HIDE DEF read, m
<1>6. TxnOK(txn) /\ txn.id = m.id /\ txn.upon = m.upon
  BY <1>2, SetTodo
<1> HIDE DEF txn
<1>7. /\ TxnOK(set) /\ set.id = m.id /\ set.upon = m.upon /\ CurrentStep(set) = read
  BY <1>5, <1>6, SetTodo
<1>8. /\ TxnOK(ins) /\ ins.id = m.id /\ ins.upon = m.upon /\ CurrentStep(ins) = read
  BY <1>5, <1>6, InsertTodo
<1> HIDE DEF set, ins
<1>9. \E new : Emits(c, new)
  BY <1>1, <1>2, <1>4, <1>7, <1>8, ProduceEmits DEF m
<1>10. Handled(c)
  BY <1>1, <1>9 DEF Handled
<1> QED
  BY <1>1, <1>2, <1>10, NoWrite
\* An iteration that writes to the target of its own system.
LEMMA TargetWrite ==
    ASSUME Inv, NEW c \in Consumers, Ready(c), Handled(c),
           UNCHANGED <<outside, faults, committed, store, cancels>>,
           \/ /\ c[1] = "STORAGE" /\ UNCHANGED scnd
              /\ Writes(c, "STORAGE", db, db') /\ WriteDone(c, "STORAGE", db')
           \/ /\ c[1] = "STORAGE_SCND" /\ UNCHANGED db
              /\ Writes(c, "STORAGE_SCND", scnd, scnd') /\ WriteDone(c, "STORAGE_SCND", scnd')
    PROVE  Effect(c)
<1>1. faults' \in 0..MaxFaults /\ faults <= faults'
      /\ cancels' \in [Consumers -> SUBSET (Txns \cap Cancels)]
  BY BoundsAssumption DEF Inv, RestOK
<1>2. Iteration(c)
  BY <1>1 DEF Iteration
<1>3. IsMapTo(store', Keys, InstanceRecord(Instances))
  BY DEF Inv, MapsOK
<1>4. c[1] # "STORAGE" => WriteDone(c, "STORAGE", db')
  BY DEF WriteDone
<1>5. c[1] # "STORAGE_SCND" => WriteDone(c, "STORAGE_SCND", scnd')
  BY DEF WriteDone
<1>6. (db' = db => Writes(c, "STORAGE", db, db'))
      /\ (scnd' = scnd => Writes(c, "STORAGE_SCND", scnd, scnd'))
  BY DEF Writes
<1> QED
  BY <1>2, <1>3, <1>4, <1>5, <1>6 DEF Effect

\* The write of the current step to the row of its own key.
LEMMA OwnRowWritten ==
    ASSUME Inv, NEW c \in Consumers, Ready(c), NEW sys, c[1] = sys, sys # "PROCESS",
           NEW rows \in {db, scnd}, NEW new, NEW inst \in Instances,
           Arrived(c).key \in Keys, new = DbUpdate(rows, Arrived(c).key, inst, Arrived(c).off)
    PROVE  Writes(c, sys, rows, new) /\ WriteDone(c, sys, new)
<1> DEFINE step == CurrentStep(Msg(c))
           key == Arrived(c).key
           off == Arrived(c).off
<1>1. off \in CmpdOffsets /\ off = step.off /\ (step.key # NoKey => key = step.key)
  BY CheckedFacts, ArrivedTodo
<1>2. IsMapTo(rows, Keys, InstanceRecord(Instances))
  BY DEF Inv, MapsOK
<1>3. Writes(c, sys, rows, new)
  BY DEF Writes
<1>4. new = DbUpdate(rows, key, inst, off)
  OBVIOUS
<1> HIDE DEF step, key, off
<1>5. key \in DOMAIN new /\ OffsetGTE(new[key].off, off)
  <2>0. off \in CmpdOffsets
    BY <1>1
  <2>1. key \in DOMAIN new
    BY ONLY <1>4 DEF DbUpdate, Put
  <2>2. OffsetGTE(new[key].off, off)
    BY ONLY <2>0, <1>2, <1>4, UpdateIsNewer
  <2> QED BY <2>1, <2>2
<1>6. WriteDone(c, sys, new)
  BY <1>1, <1>5 DEF WriteDone, step
<1> QED
  BY <1>3, <1>6

LEMMA NewRefresh ==
    ASSUME NEW id, NEW key \in Keys \cup {NoKey}, NEW inst \in Instances
    PROVE  IsTodo(Refresh(key, inst), id)
<1> DEFINE sys == "PROCESS"
           cmd == "RefreshInstance"
<1>1. /\ sys \in Systems /\ cmd \in Commands /\ cmd # "Delete"
      /\ sys # "STORAGE_SCND" /\ inst # Nil /\ inst \in Instances \cup {Nil}
  BY NilAssumption DEF Systems, Commands, ReservedCommands
<1>2. Refresh(key, inst) = Step(sys, cmd, key, inst, Nil)
  BY DEF Refresh
<1> HIDE DEF sys, cmd
<1> QED
  BY <1>1, <1>2, NewStep

LEMMA StorageCreateEffect ==
    ASSUME Inv, NEW c \in Consumers, StorageCreate(c)
    PROVE  Effect(c)
<1> DEFINE step == Arrived(c)
           payload == step.payload
<1>1. /\ Handles(c, "STORAGE", {"Create"})
      /\ UNCHANGED <<outside, faults, committed, store, scnd, cancels>>
  BY DEF StorageCreate
<1>2. PICK key \in IF payload.key # NoKey THEN {payload.key} ELSE Keys \ DOMAIN db :
        LET inst == [payload EXCEPT !.key = key]
        IN /\ db' = DbUpdate(db, key, inst, step.off)
           /\ Finishes(c, key, inst, Nil, <<Refresh(key, inst)>>)
  BY DEF StorageCreate
<1> DEFINE inst == [payload EXCEPT !.key = key]
           st == Refresh(key, inst)
<1>3. /\ Ready(c) /\ c[1] = "STORAGE" /\ step.sys = "STORAGE" /\ step.cmd = "Create"
      /\ CurrentStep(Msg(c)).sys = "STORAGE" /\ CurrentStep(Msg(c)).cmd = "Create"
  BY <1>1, HandlesFacts
<1>4. payload \in Instances /\ step.off \in CmpdOffsets
  BY <1>3, CheckedFacts DEF NeedsPayload
<1>5. Finishes(c, key, inst, Nil, <<st>>) /\ db' = DbUpdate(db, key, inst, step.off)
  BY <1>2
<1> HIDE DEF payload
<1>6. key \in Keys
  BY <1>2, <1>4 DEF Instances
<1>7. inst \in Instances
  BY <1>4, <1>6 DEF Instances
<1> HIDE DEF inst
<1>8. IsTodo(st, Msg(c).id)
  BY <1>6, <1>7, NewRefresh
<1> HIDE DEF st
<1>9. Handled(c)
  BY <1>3, <1>5, <1>6, <1>7, <1>8, FinishesWithOne
<1>10. Writes(c, "STORAGE", db, db')
  BY <1>3, <1>5, <1>6, <1>7 DEF Writes
<1>11. WriteDone(c, "STORAGE", db')
  BY <1>3 DEF WriteDone, IsStorageWrite, IsKeylessStep
<1> QED
  BY <1>1, <1>3, <1>9, <1>10, <1>11, TargetWrite

LEMMA StorageReadEffect ==
    ASSUME Inv, NEW c \in Consumers, StorageRead(c)
    PROVE  Effect(c)
<1> DEFINE key == Arrived(c).key
           inst == db[key].inst
           st == Refresh(key, inst)
<1>1. /\ Handles(c, "STORAGE", {"Read"})
      /\ \/ key \in DOMAIN db /\ Finishes(c, key, inst, Nil, <<st>>)
         \/ Fails(c, "INTERNAL")
      /\ UNCHANGED <<outside, faults, committed, store, db, scnd, cancels>>
  BY DEF StorageRead
<1>2. Ready(c) /\ CurrentStep(Msg(c)).cmd = "Read"
  BY <1>1, HandlesFacts
<1>3. Handled(c)
  <2>1. CASE Fails(c, "INTERNAL")
    BY <1>2, <2>1, FailsHandled DEF Codes
  <2>2. CASE key \in DOMAIN db /\ Finishes(c, key, inst, Nil, <<st>>)
    <3>1. key \in Keys /\ inst \in Instances
      BY <2>2, InstanceThere
    <3> HIDE DEF inst, key
    <3>2. IsTodo(st, Msg(c).id)
      BY <3>1, NewRefresh
    <3> HIDE DEF st
    <3> QED BY <1>2, <2>2, <3>1, <3>2, FinishesWithOne
  <2> QED BY <1>1, <2>1, <2>2
<1>4. ~IsStorageWrite(CurrentStep(Msg(c)))
  BY <1>2 DEF IsStorageWrite
<1> QED
  BY <1>1, <1>2, <1>3, <1>4, NoWrite

LEMMA StorageUpdateEffect ==
    ASSUME Inv, NEW c \in Consumers, StorageUpdate(c)
    PROVE  Effect(c)
<1> DEFINE step == Arrived(c)
           payload == step.payload
           key == IF step.cmd = "Update" THEN step.key ELSE NoKey
           st == Refresh(step.key, payload)
<1>1. /\ Handles(c, "STORAGE", {"Update", "UpdateAsync"})
      /\ db' = DbUpdate(db, step.key, payload, step.off)
      /\ Finishes(c, key, payload, Nil, IF step.cmd = "Update" THEN <<st>> ELSE <<>>)
      /\ UNCHANGED <<outside, faults, committed, store, scnd, cancels>>
  BY DEF StorageUpdate
<1>2. /\ Ready(c) /\ c[1] = "STORAGE" /\ step.sys = "STORAGE"
      /\ step.cmd \in {"Update", "UpdateAsync"} /\ step.key \in Keys
  BY <1>1, HandlesFacts DEF IsKeylessStep
<1>3. payload \in Instances /\ key \in Keys \cup {NoKey}
  BY <1>2, CheckedFacts DEF NeedsPayload
<1>4. Writes(c, "STORAGE", db, db') /\ WriteDone(c, "STORAGE", db')
  BY <1>1, <1>2, <1>3, OwnRowWritten
<1> HIDE DEF step, key, payload
<1>5. IsTodo(st, Msg(c).id)
  BY <1>2, <1>3, NewRefresh
<1> HIDE DEF st
<1>6. Handled(c)
  <2>1. CASE step.cmd = "Update"
    <3>1. Finishes(c, key, payload, Nil, <<st>>)
      BY <1>1, <2>1
    <3> QED BY <1>2, <1>3, <1>5, <3>1, FinishesWithOne
  <2>2. CASE step.cmd # "Update"
    <3>1. Finishes(c, key, payload, Nil, <<>>)
      BY <1>1, <2>2
    <3> QED BY <1>2, <1>3, <3>1, FinishesWithNone
  <2> QED BY <2>1, <2>2
<1> QED
  BY <1>1, <1>2, <1>4, <1>6, TargetWrite

LEMMA StorageDeleteEffect ==
    ASSUME Inv, NEW c \in Consumers, StorageDelete(c)
    PROVE  Effect(c)
<1> DEFINE step == Arrived(c)
           sys == "PROCESS"
           cmd == "FlushInstance"
           st == Step(sys, cmd, step.key, Nil, Nil)
<1>1. /\ Handles(c, "STORAGE", {"Delete"})
      /\ db' = DbDelete(db, step.key, step.off)
      /\ Finishes(c, step.key, Nil, Nil, <<st>>)
      /\ UNCHANGED <<outside, faults, committed, store, scnd, cancels>>
  BY DEF StorageDelete
<1>2. /\ Ready(c) /\ c[1] = "STORAGE" /\ step.sys = "STORAGE" /\ step.cmd = "Delete"
      /\ step.key \in Keys /\ CurrentStep(Msg(c)).cmd = "Delete"
  BY <1>1, HandlesFacts DEF IsKeylessStep
<1>3. Writes(c, "STORAGE", db, db') /\ WriteDone(c, "STORAGE", db')
  BY <1>1, <1>2 DEF Writes, WriteDone
<1>4. /\ sys \in Systems /\ cmd \in Commands /\ cmd # "Delete" /\ sys # "STORAGE_SCND"
      /\ ~NeedsPayload(st) /\ Nil \in Instances \cup {Nil}
  BY DEF Systems, Commands, ReservedCommands, NeedsPayload, Step
<1>5. Finishes(c, step.key, Nil, Nil, <<st>>)
  BY <1>1
<1> HIDE DEF sys, cmd, step
<1>6. IsTodo(st, Msg(c).id)
  BY <1>2, <1>4, NewStep
<1> HIDE DEF st
<1>7. Handled(c)
  BY <1>2, <1>5, <1>6, FinishesWithOne
<1> QED
  BY <1>1, <1>2, <1>3, <1>7, TargetWrite

LEMMA SecondaryStorageEffect ==
    ASSUME Inv, NEW c \in Consumers, SecondaryStorage(c)
    PROVE  Effect(c)
<1> DEFINE step == Arrived(c)
           key == IF step.cmd \in {"Update", "UpdateAsync"} THEN NoKey ELSE step.key
           payload == step.payload
<1>1. /\ Handles(c, "STORAGE_SCND", {"Create", "Update", "UpdateAsync", "Delete"})
      /\ scnd' = IF step.cmd = "Delete" THEN DbDelete(scnd, step.key, step.off)
                 ELSE DbUpdate(scnd, step.key, payload, step.off)
      /\ Finishes(c, key, Nil, Nil, <<>>)
      /\ UNCHANGED <<outside, faults, committed, store, db, cancels>>
  BY DEF SecondaryStorage
<1>2. /\ Ready(c) /\ c[1] = "STORAGE_SCND" /\ step.sys = "STORAGE_SCND"
      /\ step.cmd \in {"Create", "Update", "UpdateAsync", "Delete"}
      /\ step.key \in Keys /\ CurrentStep(Msg(c)).cmd = step.cmd
  BY <1>1, HandlesFacts DEF IsKeylessStep
<1>3. Writes(c, "STORAGE_SCND", scnd, scnd') /\ WriteDone(c, "STORAGE_SCND", scnd')
  <2>1. CASE step.cmd = "Delete"
    BY <1>1, <1>2, <2>1 DEF Writes, WriteDone
  <2>2. CASE step.cmd # "Delete"
    <3>1. payload \in Instances
      BY <1>2, <2>2, CheckedFacts DEF NeedsPayload
    <3> QED BY <1>1, <1>2, <2>2, <3>1, OwnRowWritten
  <2> QED BY <2>1, <2>2
<1>4. key \in Keys \cup {NoKey}
  BY <1>2
<1> HIDE DEF key
<1>5. Handled(c)
  BY <1>1, <1>2, <1>4, FinishesWithNone
<1> QED
  BY <1>1, <1>2, <1>3, <1>5, TargetWrite

\* The database fails: a client's transaction is reported, and the message of a
\* storage transaction is left to be read again.
LEMMA StorageFailsEffect ==
    ASSUME Inv, NEW c \in Consumers, StorageFails(c)
    PROVE  Effect(c)
<1>1. /\ Ready(c) /\ faults < MaxFaults /\ faults' = faults + 1
      /\ UNCHANGED <<outside, store, db, scnd>>
  BY DEF StorageFails, Reads
<1>2. faults' \in 0..MaxFaults /\ faults <= faults' /\ faults' # 0
  BY <1>1, BoundsAssumption DEF Inv, RestOK
<1>3. IsMapTo(store', Keys, InstanceRecord(Instances))
      /\ Writes(c, "STORAGE", db, db') /\ Writes(c, "STORAGE_SCND", scnd, scnd')
  BY <1>1 DEF Inv, MapsOK, Writes
<1>4. CASE /\ Msg(c).upon # "BAILOUT" /\ Fails(c, "INTERNAL")
           /\ UNCHANGED <<committed, cancels>>
  <2>1. Handled(c)
    BY <1>1, <1>4, FailsHandled DEF Codes
  <2>2. Iteration(c)
    BY <1>1, <1>2, <1>4, <2>1 DEF Iteration, Inv, RestOK
  <2>3. WriteDone(c, "STORAGE", db') /\ WriteDone(c, "STORAGE_SCND", scnd')
    BY <1>2, <1>4 DEF WriteDone
  <2> QED BY <1>3, <2>2, <2>3 DEF Effect
<1>5. CASE /\ committed' = [committed EXCEPT ![c] = pos[c]]
           /\ cancels' = [cancels EXCEPT ![c] = {}]
           /\ UNCHANGED <<out, pos>>
  <2>1. cancels' \in [Consumers -> SUBSET (Txns \cap Cancels)]
    BY <1>5 DEF Inv, RestOK
  <2>2. Iteration(c)
    BY <1>1, <1>2, <1>5, <2>1 DEF Iteration
  <2>3. WriteDone(c, "STORAGE", db') /\ WriteDone(c, "STORAGE_SCND", scnd')
    BY <1>5 DEF WriteDone
  <2> QED BY <1>3, <2>2, <2>3 DEF Effect
<1> QED
  BY <1>4, <1>5 DEF StorageFails

\* The only check that may refuse a step is the one for its key.
LEMMA RefuseStepEffect ==
    ASSUME Inv, NEW c \in Consumers, RefuseStep(c)
    PROVE  Effect(c)
<1>1. /\ Ready(c) /\ RefuseCode(c) # "OK" /\ Fails(c, RefuseCode(c))
      /\ UNCHANGED <<outside, faults, committed, store, db, scnd, cancels>>
  BY DEF RefuseStep, Reads
<1>2. RefuseCode(c) \in Codes /\ CurrentStep(Msg(c)).key = NoKey
  BY <1>1, CheckedFacts, ArrivedTodo
<1>3. Handled(c)
  BY <1>1, <1>2, FailsHandled
<1> QED
  BY <1>1, <1>2, <1>3, NoWrite

LEMMA CancelTxnEffect ==
    ASSUME Inv, NEW c \in Consumers, CancelTxn(c)
    PROVE  Effect(c)
<1>1. /\ Ready(c) /\ Msg(c).upon # "BAILOUT" /\ Msg(c).id \in cancels[c]
      /\ cancels' = [cancels EXCEPT ![c] = @ \ {Msg(c).id}]
      /\ Fails(c, "CANCELLED")
      /\ UNCHANGED <<outside, faults, committed, store, db, scnd>>
  BY DEF CancelTxn, ShouldCancel
<1>2. /\ cancels' \in [Consumers -> SUBSET (Txns \cap Cancels)]
      /\ faults' \in 0..MaxFaults /\ faults <= faults' /\ Cancels # {}
  BY <1>1, BoundsAssumption DEF Inv, RestOK
<1>3. Handled(c)
  BY <1>1, FailsHandled DEF Codes
<1>4. Iteration(c)
  BY <1>1, <1>2, <1>3 DEF Iteration
<1>5. IsMapTo(store', Keys, InstanceRecord(Instances))
      /\ Writes(c, "STORAGE", db, db') /\ Writes(c, "STORAGE_SCND", scnd, scnd')
  BY <1>1 DEF Inv, MapsOK, Writes
<1>6. WriteDone(c, "STORAGE", db') /\ WriteDone(c, "STORAGE_SCND", scnd')
  BY <1>1, <1>2 DEF WriteDone
<1> QED
  BY <1>4, <1>5, <1>6 DEF Effect

LEMMA ConsumeEffect ==
    ASSUME Inv, NEW c \in Consumers, Consume(c)
    PROVE  Effect(c)
BY ProcessReadEffect, ProcessForwardEffect, RefreshInstanceEffect, FlushInstanceEffect,
   ValidateEffect, ChangeEffect, QueryOrRejectEffect, CacheMissEffect, StorageCreateEffect,
   StorageReadEffect, StorageUpdateEffect, StorageDeleteEffect, SecondaryStorageEffect,
   StorageFailsEffect, RefuseStepEffect, CancelTxnEffect DEF Consume
-----------------------------------------------------------------------------
(* The clients *)

\* A step of a client, after NewApecsTxn: all are still to do, and none has an
\* offset.
FreshSteps(t) == {st \in Steps : IsTodo(st, t)}

LEMMA ClientStepTodo ==
    ASSUME NEW t \in Txns, NEW i \in DOMAIN Requests[t]
    PROVE  LET list == ExpandStep(ClientStep(t, Requests[t][i]))
           IN list \in Seq(FreshSteps(t)) \ {<<>>} /\ list[1].sys = "PROCESS"
<1> DEFINE req == Requests[t][i]
           key == IF req.cmd = "Create" THEN NoKey ELSE req.key
           payload == IF req.cmd \in {"Create", "Update"}
                      THEN [key |-> req.key, ops |-> <<t>>] ELSE Nil
           sys == "PROCESS"
           stg == "STORAGE"
           step == Step(sys, req.cmd, key, payload, Nil)
           create == Step(stg, req.cmd, key, payload, Nil)
           validate(cmd) == Step(sys, cmd, NoKey, payload, Nil)
<1>1. /\ Requests[t] \in Seq([cmd : Commands, key : Keys \cup {NoKey}])
      /\ req.cmd \notin TxnProhibitedCommands
  BY RequestsAssumption DEF ValidTxn
<1>2. req \in [cmd : Commands, key : Keys \cup {NoKey}]
  <2> DEFINE R == [cmd : Commands, key : Keys \cup {NoKey}]
  <2>1. Requests[t] \in Seq(R)
    BY <1>1
  <2> HIDE DEF R
  <2>2. Requests[t][i] \in R
    BY <2>1, ElementOfSeq, LenProperties
  <2> QED BY <2>2 DEF R
<1>3. /\ req.cmd \in Commands /\ req.cmd # "RefreshInstance" /\ key \in Keys \cup {NoKey}
      /\ req.cmd = "Delete" => DeletesAsked
  BY <1>1, <1>2 DEF TxnProhibitedCommands, DeletesAsked
<1>4. /\ payload \in Instances \cup {Nil}
      /\ req.cmd \in {"Create", "Update"} => payload # Nil
  <2>1. req.key \in Keys \cup {NoKey} /\ <<t>> \in Seq(Txns)
    BY <1>2
  <2>2. [key |-> req.key, ops |-> <<t>>] \in Instances
    BY <2>1 DEF Instances
  <2> QED BY <2>2, NilAssumption
<1>5. ClientStep(t, req) = step
  BY DEF ClientStep
<1>6. step.sys = sys /\ step.cmd = req.cmd /\ step.payload = payload /\ step.rslt = Nil
      /\ step.key = key /\ step.off = Nil
  BY DEF Step
<1>7. /\ sys \in Systems /\ sys # "STORAGE_SCND" /\ stg \in Systems /\ stg # "STORAGE_SCND"
      /\ sys = "PROCESS"
  BY DEF Systems
<1>8. ExpandStep(step) =
        IF req.cmd = "Create" THEN <<validate("ValidateCreate"), create>>
        ELSE IF req.cmd = "Update" THEN <<validate("ValidateUpdate"), step>>
        ELSE <<step>>
  BY <1>6, <1>7 DEF ExpandStep, Step
<1> HIDE DEF payload, key, req
<1>9. IsTodo(step, t)
  <2>1. NeedsPayload(step) => payload # Nil
    BY <1>3, <1>4, <1>6, <1>7 DEF NeedsPayload
  <2> HIDE DEF sys
  <2> QED BY <1>3, <1>4, <1>7, <2>1, NewStep
<1>10. ASSUME req.cmd = "Create" PROVE IsTodo(create, t)
  <2>1. payload # Nil /\ req.cmd # "Delete"
    BY <1>4, <1>10
  <2> HIDE DEF stg
  <2> QED BY <1>3, <1>4, <1>7, <2>1, NewStep
<1>11. ASSUME NEW cmd \in {"ValidateCreate", "ValidateUpdate"}
       PROVE  IsTodo(validate(cmd), t) /\ validate(cmd).sys = "PROCESS"
  <2>1. cmd \in Commands /\ cmd # "Delete" /\ ~NeedsPayload(validate(cmd))
    BY <1>7 DEF Commands, ReservedCommands, NeedsPayload, Step
  <2>2. validate(cmd).sys = "PROCESS"
    BY <1>7 DEF Step
  <2> HIDE DEF sys
  <2> QED BY <1>4, <1>7, <2>1, <2>2, NewStep
<1> DEFINE vc == validate("ValidateCreate")
           vu == validate("ValidateUpdate")
<1>12. /\ vc \in FreshSteps(t) /\ vc.sys = "PROCESS" /\ vu \in FreshSteps(t) /\ vu.sys = "PROCESS"
       /\ step \in FreshSteps(t) /\ step.sys = "PROCESS"
       /\ req.cmd = "Create" => create \in FreshSteps(t)
  BY <1>6, <1>7, <1>9, <1>10, <1>11 DEF FreshSteps, IsTodo, StepOK
<1>13. ExpandStep(step) =
        IF req.cmd = "Create" THEN <<vc, create>>
        ELSE IF req.cmd = "Update" THEN <<vu, step>>
        ELSE <<step>>
  BY <1>8
<1> HIDE DEF vc, vu, step, create
<1> DEFINE list == ExpandStep(step)
<1>14. list \in Seq(FreshSteps(t)) \ {<<>>} /\ list[1].sys = "PROCESS"
  <2> HIDE DEF list
  <2>1. CASE req.cmd = "Create"
    <3>1. list = <<vc, create>>
      BY <1>13, <2>1 DEF list
    <3> QED BY <1>12, <2>1, <3>1
  <2>2. CASE req.cmd = "Update"
    <3>1. list = <<vu, step>>
      BY <1>13, <2>2 DEF list
    <3> QED BY <1>12, <3>1
  <2>3. CASE req.cmd \notin {"Create", "Update"}
    <3>1. list = <<step>>
      BY <1>13, <2>3 DEF list
    <3> QED BY <1>12, <3>1
  <2> QED BY <2>1, <2>2, <2>3
<1> QED
  BY <1>5, <1>14 DEF req

LEMMA SubmittedOK ==
    ASSUME NEW t \in Txns
    PROVE  LET steps == [i \in DOMAIN Requests[t] |-> ClientStep(t, Requests[t][i])]
               txn == NewApecsTxn(t, "REPORT", steps)
           IN /\ TxnOK(txn) /\ txn.id = t /\ txn.upon = "REPORT"
              /\ CurrentStep(txn).sys = "PROCESS"
<1> DEFINE steps == [i \in DOMAIN Requests[t] |-> ClientStep(t, Requests[t][i])]
           lists == [i \in DOMAIN steps |-> ExpandStep(steps[i])]
           flat == FlattenSeq(lists)
           txn == NewApecsTxn(t, "REPORT", steps)
           S == FreshSteps(t)
<1>1. /\ Requests[t] \in Seq([cmd : Commands, key : Keys \cup {NoKey}])
      /\ Requests[t] # <<>>
  BY RequestsAssumption DEF ValidTxn
<1>2. /\ DOMAIN Requests[t] = 1..Len(Requests[t]) /\ Len(Requests[t]) \in Nat
      /\ Len(Requests[t]) # 0
  BY <1>1, EmptySeq, LenProperties
<1>3. /\ DOMAIN lists = 1..Len(Requests[t])
      /\ \A i \in 1..Len(Requests[t]) :
            lists[i] \in Seq(S) \ {<<>>} /\ lists[i][1].sys = "PROCESS"
  <2>1. DOMAIN lists = 1..Len(Requests[t])
    BY <1>2
  <2>2. ASSUME NEW i \in 1..Len(Requests[t])
        PROVE  lists[i] \in Seq(S) \ {<<>>} /\ lists[i][1].sys = "PROCESS"
    <3>1. lists[i] = ExpandStep(ClientStep(t, Requests[t][i]))
      BY <1>2
    <3> QED BY <1>2, <3>1, ClientStepTodo
  <2> QED BY <2>1, <2>2
<1>4. lists = [i \in 1..Len(Requests[t]) |-> lists[i]]
  BY <1>2
<1>5. txn = [id |-> t, upon |-> "REPORT", cur |-> 1, steps |-> flat]
  BY DEF NewApecsTxn
<1> HIDE DEF lists, txn, S
<1>6. lists \in Seq(Seq(S) \ {<<>>}) /\ lists # <<>>
  <2> DEFINE L == Seq(S) \ {<<>>}
             n == Len(Requests[t])
  <2>1. n \in Nat /\ n # 0 /\ (\A i \in 1..n : lists[i] \in L)
        /\ lists = [i \in 1..n |-> lists[i]]
    BY <1>2, <1>3, <1>4
  <2> HIDE DEF L, n
  <2>2. lists \in [1..n -> L]
    BY <2>1
  <2>3. lists \in Seq(L) /\ Len(lists) = n
    BY <2>1, <2>2, SeqDef, LenProperties
  <2>4. lists # <<>>
    BY <2>1, <2>3
  <2> QED BY <2>3, <2>4 DEF L
<1>7. flat \in Seq(S) \ {<<>>} /\ flat[1] = lists[1][1]
  BY <1>6, FlattenType
<1> HIDE DEF flat
<1>8. /\ flat \in Seq(S) /\ Len(flat) \in Nat /\ 1 <= Len(flat)
      /\ \A i \in 1..Len(flat) : flat[i] \in S
  BY <1>7, EmptySeq, LenProperties, ElementOfSeq
<1>9. flat \in Seq(Steps) /\ \A i \in 1..Len(flat) : IsTodo(flat[i], t)
  <2>1. S \subseteq Steps /\ \A st \in S : IsTodo(st, t)
    BY DEF S, FreshSteps
  <2> QED BY <1>8, <2>1, SeqMonotonic
<1>10. flat[1].sys = "PROCESS"
  BY <1>2, <1>3, <1>7
<1>11. txn \in Messages
  BY <1>5, <1>9 DEF Messages
<1>12. TxnOK(txn)
  <2>1. \A i \in 1..Len(flat) : ~(i < 1)
    BY <1>8
  <2> QED BY <1>5, <1>8, <1>9, <1>11, <2>1 DEF TxnOK
<1> QED
  BY <1>5, <1>10, <1>12 DEF CurrentStep, txn
-----------------------------------------------------------------------------
(* The invariant is inductive *)

\* Topics only grow.
LogKept ==
    \A d \in Consumers : /\ Len(log[d]) <= Len(log'[d])
                         /\ \A i \in 1..Len(log[d]) : log'[d][i] = log[d][i]

LEMMA LogTypes ==
    ASSUME Inv, NEW d \in Consumers
    PROVE  /\ log[d] \in Seq(Messages) /\ log[d] \in Seq(Good(d)) /\ Len(log[d]) \in Nat
           /\ DOMAIN log[d] = 1..Len(log[d])
           /\ pos[d] \in Nat /\ committed[d] \in Nat
           /\ committed[d] <= pos[d] /\ pos[d] <= Len(log[d])
<1>1. log[d] \in Seq(Messages) /\ log[d] \in Seq(Good(d))
  BY DEF Inv, MessagesOK
<1> QED
  BY <1>1, LenProperties DEF Inv, PositionsOK

\* The offsets that steps carry keep their meaning, so what could be carried on
\* with still can.
LEMMA GoodKept ==
    ASSUME Inv, LogKept, \A e \in Consumers : Len(log'[e]) \in Nat, NEW d
    PROVE  Good(d) \subseteq Good(d)'
<1>1. ASSUME NEW off, NEW id, Versioned(off, id) PROVE Versioned(off, id)'
  <2> DEFINE e == <<"PROCESS", off.part>>
  <2>1. e \in Consumers /\ off.off \in Nat /\ off.off < Len(log[e]) /\ log[e][off.off + 1].id = id
    BY <1>1 DEF Versioned, Consumers, Systems, CmpdOffsets
  <2>2. Len(log[e]) \in Nat /\ Len(log'[e]) \in Nat /\ Len(log[e]) <= Len(log'[e])
        /\ \A i \in 1..Len(log[e]) : log'[e][i] = log[e][i]
    BY <2>1, LogTypes DEF LogKept
  <2> HIDE DEF e
  <2>3. off.off < Len(log'[e]) /\ log'[e][off.off + 1].id = id
    <3>1. off.off < Len(log'[e]) /\ off.off + 1 \in 1..Len(log[e])
      BY ONLY <2>1, <2>2
    <3>2. log'[e][off.off + 1] = log[e][off.off + 1]
      BY ONLY <2>2, <3>1
    <3> QED BY ONLY <2>1, <3>1, <3>2
  <2> QED BY <1>1, <2>3 DEF Versioned, e
<1>2. ASSUME NEW m, TxnOK(m) PROVE TxnOK(m)'
  <2>1. m \in Messages /\ m.cur <= Len(m.steps)
    BY <1>2 DEF TxnOK
  <2>2. ASSUME NEW i \in 1..Len(m.steps)
        PROVE  IF i < m.cur THEN IsDone(m.steps[i], m.id)' ELSE IsTodo(m.steps[i], m.id)'
    <3>1. IF i < m.cur THEN IsDone(m.steps[i], m.id) ELSE IsTodo(m.steps[i], m.id)
      BY <1>2 DEF TxnOK
    <3>2. CASE i < m.cur
      <4>1. IsDone(m.steps[i], m.id)
        BY <3>1, <3>2
      <4>2. IsDone(m.steps[i], m.id)'
        BY <4>1, <1>1 DEF IsDone, StepOK
      <4> QED BY <3>2, <4>2
    <3>3. CASE ~(i < m.cur)
      <4>1. IsTodo(m.steps[i], m.id)
        BY <3>1, <3>3
      <4>2. IsTodo(m.steps[i], m.id)'
        BY <4>1, <1>1 DEF IsTodo, StepOK
      <4> QED BY <3>3, <4>2
    <3> QED BY <3>2, <3>3
  <2> QED BY <2>1, <2>2 DEF TxnOK
<1> QED
  BY <1>2 DEF Good

LEMMA MessagesKept ==
    ASSUME Inv, LogKept, log' \in [Consumers -> Seq(Messages)],
           \A d \in Consumers : log'[d] \in Seq(Good(d)'),
           out' \in [Consumers -> [Destinations -> Seq(Messages \cup ReportMsgs)]],
           \A c, d \in Consumers : out'[c][d] \in Seq(Good(d)),
           \A c \in Consumers : out'[c][Reports] \in Seq(ReportMsgs)
    PROVE  MessagesOK'
<1>1. \A d \in Consumers : Len(log'[d]) \in Nat
  BY LenProperties
<1>2. ASSUME NEW c \in Consumers, NEW d \in Consumers PROVE out'[c][d] \in Seq(Good(d)')
  <2>1. Good(d) \subseteq Good(d)'
    BY <1>1, GoodKept
  <2>2. out'[c][d] \in Seq(Good(d))
    OBVIOUS
  <2> QED BY ONLY <2>1, <2>2, SeqMonotonic
<1> QED
  BY <1>2 DEF MessagesOK, ReportMsgs

LEMMA PositionsKept ==
    ASSUME Inv, LogKept, log' \in [Consumers -> Seq(Messages)], UNCHANGED <<pos, committed>>
    PROVE  PositionsOK'
<1>1. pos' \in [Consumers -> Nat] /\ committed' \in [Consumers -> Nat]
  BY DEF Inv, PositionsOK
<1>2. ASSUME NEW d \in Consumers PROVE committed'[d] <= pos'[d] /\ pos'[d] <= Len(log'[d])
  <2>1. /\ pos[d] \in Nat /\ Len(log[d]) \in Nat /\ committed[d] <= pos[d]
        /\ pos[d] <= Len(log[d])
    BY LogTypes
  <2>2. Len(log'[d]) \in Nat
    BY LenProperties
  <2>3. Len(log[d]) <= Len(log'[d])
    BY DEF LogKept
  <2> QED BY <2>1, <2>2, <2>3
<1> QED
  BY <1>1, <1>2 DEF PositionsOK

\* Steps that leave the topics alone.
LEMMA MessagesSame ==
    ASSUME Inv, log' = log,
           out' \in [Consumers -> [Destinations -> Seq(Messages \cup ReportMsgs)]],
           \A c, d \in Consumers : out'[c][d] \in Seq(Good(d)),
           \A c \in Consumers : out'[c][Reports] \in Seq(ReportMsgs)
    PROVE  MessagesOK'
<1>1. LogKept
  BY LogTypes DEF LogKept
<1>2. log' \in [Consumers -> Seq(Messages)]
  BY DEF Inv, MessagesOK
<1>3. ASSUME NEW d \in Consumers PROVE log'[d] \in Seq(Good(d)')
  <2>1. Good(d) \subseteq Good(d)'
    BY <1>1, GoodKept, LogTypes
  <2>2. log'[d] \in Seq(Good(d))
    BY LogTypes
  <2> QED BY ONLY <2>1, <2>2, SeqMonotonic
<1> QED
  BY <1>1, <1>2, <1>3, MessagesKept

\* A message that can be carried on with is put at the end of a topic.
LEMMA AppendKept ==
    ASSUME Inv, NEW e \in Consumers, NEW m \in Good(e), log' = [log EXCEPT ![e] = Append(@, m)]
    PROVE  /\ LogKept /\ log' \in [Consumers -> Seq(Messages)]
           /\ \A d \in Consumers : log'[d] \in Seq(Good(d)')
           /\ \A d \in Consumers : log'[d] = IF d = e THEN Append(log[d], m) ELSE log[d]
           /\ Len(log'[e]) = Len(log[e]) + 1 /\ log'[e][Len(log[e]) + 1] = m
<1>1. m \in Messages /\ log \in [Consumers -> Seq(Messages)]
  BY DEF Good, Inv, MessagesOK
<1>2. \A d \in Consumers : log'[d] = IF d = e THEN Append(log[d], m) ELSE log[d]
  BY <1>1
<1>3. /\ Append(log[e], m) \in Seq(Messages)
      /\ Len(Append(log[e], m)) = Len(log[e]) + 1
      /\ \A i \in 1..Len(log[e]) : Append(log[e], m)[i] = log[e][i]
      /\ Append(log[e], m)[Len(log[e]) + 1] = m
  BY <1>1, LogTypes, AppendProperties
<1>4. log' \in [Consumers -> Seq(Messages)]
  BY <1>1, <1>3
<1>5. LogKept
  <2> SUFFICES ASSUME NEW d \in Consumers
               PROVE  /\ Len(log[d]) <= Len(log'[d])
                      /\ \A i \in 1..Len(log[d]) : log'[d][i] = log[d][i]
    BY DEF LogKept
  <2>1. Len(log[d]) \in Nat
    BY LogTypes
  <2> QED BY <1>2, <1>3, <2>1
<1>6. ASSUME NEW d \in Consumers PROVE log'[d] \in Seq(Good(d)')
  <2>1. Good(d) \subseteq Good(d)'
    BY <1>4, <1>5, GoodKept, LenProperties
  <2>2. log'[d] \in Seq(Good(d))
    <3>1. log[d] \in Seq(Good(d))
      BY LogTypes
    <3> QED BY <1>2, <3>1, AppendProperties
  <2> QED BY ONLY <2>1, <2>2, SeqMonotonic
<1> QED
  BY <1>2, <1>3, <1>4, <1>5, <1>6

LEMMA QueueTypes ==
    ASSUME Inv, NEW c \in Consumers
    PROVE  /\ out \in [Consumers -> [Destinations -> Seq(Messages \cup ReportMsgs)]]
           /\ \A d \in Consumers : out[c][d] \in Seq(Good(d))
           /\ out[c][Reports] \in Seq(ReportMsgs)
BY DEF Inv, MessagesOK

\* The head of a queue is taken.
LEMMA HeadTaken ==
    ASSUME Inv, NEW c \in Consumers, NEW d \in Destinations, out[c][d] # <<>>,
           out' = [out EXCEPT ![c][d] = Tail(@)]
    PROVE  /\ out' \in [Consumers -> [Destinations -> Seq(Messages \cup ReportMsgs)]]
           /\ \A b, e \in Consumers : out'[b][e] \in Seq(Good(e))
           /\ \A b \in Consumers : out'[b][Reports] \in Seq(ReportMsgs)
           /\ \A b \in Consumers, e \in Destinations :
                 out'[b][e] = IF b = c /\ e = d THEN Tail(out[c][d]) ELSE out[b][e]
           /\ IF d = Reports THEN Head(out[c][d]) \in ReportMsgs
              ELSE d \in Consumers /\ Head(out[c][d]) \in Good(d)
<1>1. out \in [Consumers -> [Destinations -> Seq(Messages \cup ReportMsgs)]]
  BY QueueTypes
<1>2. \A b \in Consumers, e \in Destinations :
         out'[b][e] = IF b = c /\ e = d THEN Tail(out[c][d]) ELSE out[b][e]
  BY <1>1
<1>3. ASSUME NEW S, out[c][d] \in Seq(S) PROVE Tail(out[c][d]) \in Seq(S) /\ Head(out[c][d]) \in S
  BY <1>3, HeadTailProperties
<1>4. out' \in [Consumers -> [Destinations -> Seq(Messages \cup ReportMsgs)]]
  <2>1. Tail(out[c][d]) \in Seq(Messages \cup ReportMsgs)
    BY <1>1, <1>3
  <2> QED BY <1>1, <2>1
<1>5. ASSUME NEW b \in Consumers, NEW e \in Consumers PROVE out'[b][e] \in Seq(Good(e))
  <2>1. e \in Destinations /\ out[b][e] \in Seq(Good(e))
    BY QueueTypes DEF Destinations
  <2> QED BY <1>2, <1>3, <2>1
<1>6. ASSUME NEW b \in Consumers PROVE out'[b][Reports] \in Seq(ReportMsgs)
  BY <1>2, <1>3, QueueTypes, ReportsApart
<1>7. IF d = Reports THEN Head(out[c][d]) \in ReportMsgs
      ELSE d \in Consumers /\ Head(out[c][d]) \in Good(d)
  BY <1>3, QueueTypes DEF Destinations
<1> QED
  BY <1>2, <1>4, <1>5, <1>6, <1>7
LEMMA EmitsKept ==
    ASSUME Inv, NEW c \in Consumers, NEW new, Emits(c, new)
    PROVE  /\ out' \in [Consumers -> [Destinations -> Seq(Messages \cup ReportMsgs)]]
           /\ \A b, d \in Consumers : out'[b][d] \in Seq(Good(d))
           /\ \A b \in Consumers : out'[b][Reports] \in Seq(ReportMsgs)
           /\ \A b \in Consumers, d \in Destinations :
                 out'[b][d] = IF b = c THEN out[b][d] \o new[d] ELSE out[b][d]
<1>1. \A b \in Consumers, d \in Destinations :
         out'[b][d] = IF b = c THEN out[b][d] \o new[d] ELSE out[b][d]
  BY DEF Emits, Queues
<1>2. ASSUME NEW b \in Consumers, NEW d \in Consumers PROVE out'[b][d] \in Seq(Good(d))
  <2>1. d \in Destinations /\ out[b][d] \in Seq(Good(d))
    BY QueueTypes DEF Destinations
  <2>2. new[d] \in Seq(Good(d))
    <3>1. OwnGood(c, d) \subseteq Good(d) /\ new[d] \in Seq(OwnGood(c, d))
      BY DEF OwnGood, Emits
    <3> QED BY ONLY <3>1, SeqMonotonic
  <2>3. out[b][d] \o new[d] \in Seq(Good(d))
    BY <2>1, <2>2, ConcatProperties
  <2> QED BY <1>1, <2>1, <2>3
<1>3. ASSUME NEW b \in Consumers PROVE out'[b][Reports] \in Seq(ReportMsgs)
  <2>1. out[b][Reports] \in Seq(ReportMsgs)
    BY QueueTypes
  <2>2. new[Reports] \in Seq(ReportMsgs)
    <3>1. OwnReports(c) \subseteq ReportMsgs /\ new[Reports] \in Seq(OwnReports(c))
      BY DEF OwnReports, Emits
    <3> QED BY ONLY <3>1, SeqMonotonic
  <2>3. out[b][Reports] \o new[Reports] \in Seq(ReportMsgs)
    BY <2>1, <2>2, ConcatProperties
  <2> QED BY <1>1, <2>1, <2>3, ReportsApart
<1>4. ASSUME NEW b \in Consumers, NEW d \in Destinations
      PROVE  out'[b][d] \in Seq(Messages \cup ReportMsgs)
  <2>1. CASE d = Reports
    <3>1. ReportMsgs \subseteq Messages \cup ReportMsgs /\ out'[b][d] \in Seq(ReportMsgs)
      BY <1>3, <2>1
    <3> QED BY ONLY <3>1, SeqMonotonic
  <2>2. CASE d \in Consumers
    <3>1. Good(d) \subseteq Messages \cup ReportMsgs /\ out'[b][d] \in Seq(Good(d))
      BY <1>2, <2>2 DEF Good
    <3> QED BY ONLY <3>1, SeqMonotonic
  <2> QED BY <2>1, <2>2 DEF Destinations
<1>5. out' = [b \in Consumers |-> [d \in Destinations |-> out'[b][d]]]
  BY DEF Emits, Queues
<1>6. out' \in [Consumers -> [Destinations -> Seq(Messages \cup ReportMsgs)]]
  BY <1>4, <1>5
<1> QED
  BY <1>1, <1>2, <1>3, <1>6

LEMMA ConsumeMaps ==
    ASSUME Inv, NEW c \in Consumers, Effect(c)
    PROVE  MapsOK'
<1>1. Arrived(c).off \in CmpdOffsets
  BY CheckedFacts DEF Effect, Iteration
<1>2. ASSUME NEW sys, NEW rows, NEW new, IsMapTo(rows, Keys, InstanceRecord(Instances)),
             Writes(c, sys, rows, new)
      PROVE  IsMapTo(new, Keys, InstanceRecord(Instances))
  <2>1. ASSUME NEW key \in Keys, NEW inst \in Instances,
               new = DbUpdate(rows, key, inst, Arrived(c).off)
        PROVE  IsMapTo(new, Keys, InstanceRecord(Instances))
    BY <1>1, <1>2, <2>1, WriteType
  <2>2. ASSUME NEW key \in Keys, new = DbDelete(rows, key, Arrived(c).off)
        PROVE  IsMapTo(new, Keys, InstanceRecord(Instances))
    BY <1>2, <2>2, RestrictType DEF DbDelete
  <2> QED BY <1>2, <2>1, <2>2 DEF Writes
<1>3. /\ IsMapTo(db, Keys, InstanceRecord(Instances))
      /\ IsMapTo(scnd, Keys, InstanceRecord(Instances))
  BY DEF Inv, MapsOK
<1> QED
  BY <1>2, <1>3 DEF Effect, MapsOK

LEMMA ConsumeInv ==
    ASSUME Inv, NEW c \in Consumers, Consume(c)
    PROVE  Inv'
<1>1. Effect(c)
  BY ConsumeEffect
<1>2. /\ Ready(c) /\ UNCHANGED outside
      /\ \/ Handled(c) /\ UNCHANGED committed
         \/ UNCHANGED <<out, pos>> /\ committed' = [committed EXCEPT ![c] = pos[c]]
      /\ cancels' \in [Consumers -> SUBSET (Txns \cap Cancels)]
      /\ faults' \in 0..MaxFaults
  BY <1>1 DEF Effect, Iteration
<1>3. log' = log
  BY <1>2 DEF outside
<1>4. MessagesOK'
  <2>1. CASE Handled(c)
    BY <1>3, <2>1, EmitsKept, MessagesSame DEF Handled
  <2>2. CASE out' = out
    BY <1>3, <2>2, QueueTypes, MessagesSame DEF Inv, MessagesOK
  <2> QED BY <1>2, <2>1, <2>2
<1>5. PositionsOK'
  <2>1. pos[c] < Len(log[c]) /\ \A d \in Consumers :
          /\ pos[d] \in Nat /\ committed[d] \in Nat /\ Len(log[d]) \in Nat
          /\ committed[d] <= pos[d] /\ pos[d] <= Len(log[d])
    BY <1>2, LogTypes DEF Ready
  <2>2. pos \in [Consumers -> Nat] /\ committed \in [Consumers -> Nat]
    BY DEF Inv, PositionsOK
  <2>3. CASE Handled(c) /\ UNCHANGED committed
    <3>1. pos' = [pos EXCEPT ![c] = pos[c] + 1]
      BY <2>3 DEF Handled, StoreOffsets
    <3> QED BY <1>3, <2>1, <2>2, <2>3, <3>1 DEF PositionsOK
  <2>4. CASE pos' = pos /\ committed' = [committed EXCEPT ![c] = pos[c]]
    BY <1>3, <2>1, <2>2, <2>4 DEF PositionsOK
  <2> QED BY <1>2, <2>3, <2>4
<1>6. RestOK'
  BY <1>2 DEF outside, Inv, RestOK
<1> QED
  BY <1>1, <1>4, <1>5, <1>6, ConsumeMaps DEF Inv

LEMMA SubmitInv ==
    ASSUME Inv, NEW t \in Txns, Submit(t)
    PROVE  Inv'
<1> DEFINE steps == [i \in DOMAIN Requests[t] |-> ClientStep(t, Requests[t][i])]
           txn == NewApecsTxn(t, "REPORT", steps)
<1>1. PICK random \in Parts : log' = [log EXCEPT ![Dest(txn, random)] = Append(@, txn)]
  BY DEF Submit
<1>2. TxnOK(txn) /\ CurrentStep(txn).sys = "PROCESS"
  BY SubmittedOK
<1> HIDE DEF txn
<1>3. Dest(txn, random) \in Consumers /\ txn \in Good(Dest(txn, random))
  BY <1>2, ProducedGood
<1> DEFINE e == Dest(txn, random)
<1> HIDE DEF e
<1>4. /\ LogKept /\ log' \in [Consumers -> Seq(Messages)]
      /\ \A d \in Consumers : log'[d] \in Seq(Good(d)')
  BY <1>1, <1>3, AppendKept DEF e
<1>5. UNCHANGED <<out, pos, committed, store, db, scnd, outcome, cancels, crashes, faults, lost>>
      /\ submitted' = submitted \cup {t}
  BY DEF Submit
<1>6. MessagesOK'
  BY <1>4, <1>5, QueueTypes, MessagesKept DEF Inv, MessagesOK
<1>7. PositionsOK'
  BY <1>4, <1>5, PositionsKept
<1>8. MapsOK' /\ RestOK'
  BY <1>5 DEF Inv, MapsOK, RestOK
<1> QED
  BY <1>6, <1>7, <1>8 DEF Inv

LEMMA DeliverInv ==
    ASSUME Inv, NEW c \in Consumers, NEW d \in Destinations, Deliver(c, d)
    PROVE  Inv'
<1> DEFINE msg == Head(out[c][d])
<1>1. /\ out[c][d] # <<>> /\ out' = [out EXCEPT ![c][d] = Tail(@)]
      /\ UNCHANGED <<pos, committed, store, db, scnd, submitted, cancels, crashes, faults, lost>>
  BY DEF Deliver
<1>2. /\ out' \in [Consumers -> [Destinations -> Seq(Messages \cup ReportMsgs)]]
      /\ \A b, e \in Consumers : out'[b][e] \in Seq(Good(e))
      /\ \A b \in Consumers : out'[b][Reports] \in Seq(ReportMsgs)
      /\ IF d = Reports THEN msg \in ReportMsgs ELSE d \in Consumers /\ msg \in Good(d)
  BY <1>1, HeadTaken
<1>3. CASE d = Reports
  <2>1. log' = log /\ outcome' = [outcome EXCEPT ![msg.id] = Append(@, msg.code)]
    BY <1>3 DEF Deliver
  <2>2. msg.id \in Txns /\ msg.code \in Codes
    BY <1>2, <1>3 DEF ReportMsgs
  <2>3. MessagesOK'
    BY <1>2, <2>1, MessagesSame
  <2> HIDE DEF msg
  <2>4. outcome' \in [Txns -> Seq(Codes)]
    <3>1. outcome \in [Txns -> Seq(Codes)]
      BY DEF Inv, RestOK
    <3>2. Append(outcome[msg.id], msg.code) \in Seq(Codes)
      BY <2>2, <3>1, AppendProperties
    <3> QED BY <2>1, <3>1, <3>2
  <2>5. PositionsOK' /\ MapsOK' /\ RestOK'
    BY <1>1, <2>1, <2>4 DEF Inv, PositionsOK, MapsOK, RestOK
  <2> QED BY <2>3, <2>5 DEF Inv
<1>4. CASE d # Reports
  <2>1. log' = [log EXCEPT ![d] = Append(@, msg)] /\ outcome' = outcome
    BY <1>4 DEF Deliver
  <2>2. d \in Consumers /\ msg \in Good(d)
    BY <1>2, <1>4
  <2> HIDE DEF msg
  <2>3. /\ LogKept /\ log' \in [Consumers -> Seq(Messages)]
        /\ \A e \in Consumers : log'[e] \in Seq(Good(e)')
    BY <2>1, <2>2, AppendKept
  <2>4. MessagesOK'
    BY <1>2, <2>3, MessagesKept
  <2>5. PositionsOK'
    BY <1>1, <2>3, PositionsKept
  <2>6. MapsOK' /\ RestOK'
    BY <1>1, <2>1 DEF Inv, MapsOK, RestOK
  <2> QED BY <2>4, <2>5, <2>6 DEF Inv
<1> QED
  BY <1>3, <1>4

LEMMA DeliveryFailsInv ==
    ASSUME Inv, NEW c \in Consumers, NEW d \in Destinations, DeliveryFails(c, d)
    PROVE  Inv'
<1> DEFINE msg == Head(out[c][d])
<1>1. /\ out[c][d] # <<>> /\ out' = [out EXCEPT ![c][d] = Tail(@)]
      /\ lost' = lost \cup {msg.id} /\ faults < MaxFaults /\ faults' = faults + 1
      /\ UNCHANGED <<log, pos, committed, store, db, scnd, submitted, outcome, cancels, crashes>>
  BY DEF DeliveryFails
<1>2. /\ out' \in [Consumers -> [Destinations -> Seq(Messages \cup ReportMsgs)]]
      /\ \A b, e \in Consumers : out'[b][e] \in Seq(Good(e))
      /\ \A b \in Consumers : out'[b][Reports] \in Seq(ReportMsgs)
      /\ IF d = Reports THEN msg \in ReportMsgs ELSE d \in Consumers /\ msg \in Good(d)
  BY <1>1, HeadTaken
<1>3. MessagesOK'
  BY <1>1, <1>2, MessagesSame
<1>4. msg.id \in Txns
  BY <1>2 DEF ReportMsgs, Good, Messages
<1> HIDE DEF msg
<1>5. PositionsOK' /\ MapsOK'
  BY <1>1 DEF Inv, PositionsOK, MapsOK
<1>6. RestOK'
  BY <1>1, <1>4, BoundsAssumption DEF Inv, RestOK
<1> QED
  BY <1>3, <1>5, <1>6 DEF Inv

LEMMA CrashInv ==
    ASSUME Inv, NEW c \in Consumers, Crash(c)
    PROVE  Inv'
<1>1. /\ crashes < MaxCrashes /\ crashes' = crashes + 1
      /\ pos' = [pos EXCEPT ![c] = committed[c]]
      /\ store' = StoreOfOthers(store, {k \in Keys : c = <<"PROCESS", PartOf[k]>>})
      /\ cancels' = [cancels EXCEPT ![c] = {}]
      /\ out' = [out EXCEPT ![c] = [d \in Destinations |-> <<>>]]
      /\ lost' = lost \cup Undelivered(c)
      /\ UNCHANGED <<log, committed, db, scnd, submitted, outcome, faults>>
  BY DEF Crash
<1>2. \A b \in Consumers, d \in Destinations :
         out'[b][d] = IF b = c THEN <<>> ELSE out[b][d]
  BY <1>1, QueueTypes
<1>3. MessagesOK'
  <2>1. out' \in [Consumers -> [Destinations -> Seq(Messages \cup ReportMsgs)]]
    <3>1. [d \in Destinations |-> <<>>] \in [Destinations -> Seq(Messages \cup ReportMsgs)]
      OBVIOUS
    <3> QED BY <1>1, <3>1, QueueTypes
  <2>2. ASSUME NEW b \in Consumers, NEW d \in Consumers PROVE out'[b][d] \in Seq(Good(d))
    <3>1. d \in Destinations /\ out[b][d] \in Seq(Good(d)) /\ <<>> \in Seq(Good(d))
      BY QueueTypes DEF Destinations
    <3> QED BY <1>2, <3>1
  <2>3. ASSUME NEW b \in Consumers PROVE out'[b][Reports] \in Seq(ReportMsgs)
    <3>1. out[b][Reports] \in Seq(ReportMsgs) /\ <<>> \in Seq(ReportMsgs)
      BY QueueTypes
    <3> QED BY <1>2, <3>1, ReportsApart
  <2> QED BY <1>1, <2>1, <2>2, <2>3, MessagesSame
<1>4. PositionsOK'
  BY <1>1 DEF Inv, PositionsOK
<1>5. MapsOK'
  <2>1. IsMapTo(store', Keys, InstanceRecord(Instances))
    BY <1>1, RestrictType DEF StoreOfOthers, Inv, MapsOK
  <2> QED BY <1>1, <2>1 DEF Inv, MapsOK
<1>6. Undelivered(c) \subseteq Txns
  <2> SUFFICES ASSUME NEW d \in Destinations, NEW i \in DOMAIN out[c][d]
               PROVE  out[c][d][i].id \in Txns
    BY DEF Undelivered
  <2>1. out[c][d] \in Seq(Messages \cup ReportMsgs)
    BY QueueTypes
  <2>2. out[c][d][i] \in Messages \cup ReportMsgs
    BY <2>1, LenProperties, ElementOfSeq
  <2> QED BY <2>2 DEF Messages, ReportMsgs
<1>7. RestOK'
  BY <1>1, <1>6, BoundsAssumption DEF Inv, RestOK
<1> QED
  BY <1>3, <1>4, <1>5, <1>7 DEF Inv

LEMMA CommitInv ==
    ASSUME Inv, NEW c \in Consumers, Commit(c)
    PROVE  Inv'
<1>1. /\ committed' = [committed EXCEPT ![c] = pos[c]]
      /\ UNCHANGED <<outside, faults, out, pos, store, db, scnd, cancels>>
  BY DEF Commit
<1>2. MessagesOK'
  BY <1>1, QueueTypes, MessagesSame DEF outside, Inv, MessagesOK
<1>3. PositionsOK'
  BY <1>1 DEF outside, Inv, PositionsOK
<1>4. MapsOK' /\ RestOK'
  BY <1>1 DEF outside, Inv, MapsOK, RestOK
<1> QED
  BY <1>2, <1>3, <1>4 DEF Inv

LEMMA CancelDirectiveInv ==
    ASSUME Inv, NEW c \in Consumers, NEW t \in Txns, CancelDirective(c, t)
    PROVE  Inv'
<1>1. /\ cancels' = [cancels EXCEPT ![c] = @ \cup {t}] /\ t \in Cancels
      /\ UNCHANGED <<outside, faults, out, pos, committed, store, db, scnd>>
  BY DEF CancelDirective
<1>2. MessagesOK'
  BY <1>1, QueueTypes, MessagesSame DEF outside, Inv, MessagesOK
<1>3. PositionsOK' /\ MapsOK'
  BY <1>1 DEF outside, Inv, PositionsOK, MapsOK
<1>4. RestOK'
  BY <1>1 DEF outside, Inv, RestOK
<1> QED
  BY <1>2, <1>3, <1>4 DEF Inv

LEMMA InitInv ==
    ASSUME Init
    PROVE  Inv
<1>1. MessagesOK
  <2>1. \A S : <<>> \in Seq(S)
    OBVIOUS
  <2>2. \A c \in Consumers, d \in Destinations : out[c][d] = <<>>
    BY DEF Init
  <2>3. out \in [Consumers -> [Destinations -> Seq(Messages \cup ReportMsgs)]]
    BY <2>1 DEF Init
  <2>4. log \in [Consumers -> Seq(Messages)] /\ \A d \in Consumers : log[d] = <<>>
    BY <2>1 DEF Init
  <2>5. \A c, d \in Consumers : out[c][d] \in Seq(Good(d))
    BY <2>1, <2>2 DEF Destinations
  <2>6. \A c \in Consumers : out[c][Reports] \in Seq(ReportMsgs)
    BY <2>1, <2>2, ReportsApart
  <2> QED BY <2>1, <2>3, <2>4, <2>5, <2>6 DEF MessagesOK
<1>2. PositionsOK
  <2>1. \A c \in Consumers : Len(log[c]) = 0
    BY DEF Init
  <2> QED BY <2>1 DEF Init, PositionsOK
<1>3. MapsOK
  <2>1. ASSUME NEW k \in Keys
        PROVE  [inst |-> NewInstance(k), off |-> OldOffset(k)] \in InstanceRecord(Instances)
    <3>1. OldOffset(k) \in CmpdOffsets
      BY PartsAssumption DEF OldOffset, CmpdOffsets
    <3>2. NewInstance(k) \in Instances
      BY DEF NewInstance, Instances
    <3> QED BY <3>1, <3>2 DEF InstanceRecord
  <2>2. ASSUME NEW K \in SUBSET Keys
        PROVE  IsMapTo([k \in K |-> [inst |-> NewInstance(k), off |-> OldOffset(k)]],
                       Keys, InstanceRecord(Instances))
    BY <2>1 DEF IsMapTo
  <2> QED BY <2>2, StoredAssumption DEF Init, MapsOK
<1>4. RestOK
  BY BoundsAssumption DEF Init, RestOK
<1> QED
  BY <1>1, <1>2, <1>3, <1>4 DEF Inv

LEMMA NextInv ==
    ASSUME Inv, [Next]_vars
    PROVE  Inv'
<1>1. CASE UNCHANGED vars
  <2>1. MessagesOK'
    BY <1>1, QueueTypes, MessagesSame DEF vars, Inv, MessagesOK
  <2> QED BY <1>1, <2>1 DEF vars, Inv, PositionsOK, MapsOK, RestOK
<1> QED
  BY <1>1, SubmitInv, ConsumeInv, CommitInv, CrashInv, DeliverInv, DeliveryFailsInv,
     CancelDirectiveInv DEF Next

LEMMA Invariance == Spec => []Inv
BY InitInv, NextInv, PTL DEF Spec
-----------------------------------------------------------------------------
(* What follows from the invariant *)

LEMMA OnTopic ==
    ASSUME Inv, NEW c \in Consumers, NEW i \in DOMAIN log[c]
    PROVE  log[c][i] \in Messages /\ TxnOK(log[c][i]) /\ Resumable(c, log[c][i])
<1>1. log[c] \in Seq(Good(c)) /\ i \in 1..Len(log[c])
  BY LogTypes
<1>2. log[c][i] \in Good(c)
  BY <1>1, ElementOfSeq
<1> QED
  BY <1>2 DEF Good

\* The state of the engine is of its type in every behaviour, whatever the
\* requests, the partitions and the bounds are: offsets stay within the topics,
\* a committed one never passes the position, the records are of known keys, and
\* no message has run past the end of its list of steps.
THEOREM TypeCorrect == Spec => []TypeOK
<1>1. ASSUME Inv PROVE TypeOK
  <2>1. \A c \in Consumers : \A i \in DOMAIN log[c] : log[c][i].cur <= Len(log[c][i].steps)
    BY <1>1, OnTopic DEF TxnOK
  <2>2. /\ log \in [Consumers -> Seq(Messages)]
        /\ \A c \in Consumers : out[c] \in [Destinations -> Seq(Messages \cup [id : Txns, code : Codes])]
    BY <1>1 DEF Inv, MessagesOK, ReportMsgs
  <2>3. \A map \in {store, db, scnd} : IsMapTo(map, Keys, InstanceRecord(Instances))
    BY <1>1 DEF Inv, MapsOK
  <2>4. PositionsOK /\ RestOK
    BY <1>1 DEF Inv
  <2>5. cancels \in [Consumers -> SUBSET Txns]
    BY <2>4 DEF RestOK
  <2> QED BY <2>1, <2>2, <2>3, <2>4, <2>5 DEF TypeOK, PositionsOK, RestOK
<1> QED
  BY <1>1, Invariance, PTL

\* Every message on a topic is where its consumer can carry on with it, after any
\* number of crashes, cache misses and added steps: advanceApecsTxn never finds a
\* step that is done, a step of another system, or a storage step without the
\* offset of a PROCESS step.
THEOREM AllResumable == Spec => []MessagesResumable
<1>1. ASSUME Inv PROVE MessagesResumable
  BY <1>1, OnTopic DEF MessagesResumable
<1> QED
  BY <1>1, Invariance, PTL

\* The offset under which storage is written is the one of a PROCESS message of
\* the same transaction, through every way a step comes to have one: its own
\* message, the step before it, or the transaction it was made from.
THEOREM AllVersioned == Spec => []VersionedByOwnMessage
<1>1. ASSUME Inv, NEW c \in Consumers, NEW i \in DOMAIN log[c], c[1] # "PROCESS"
      PROVE  LET off == CurrentStep(log[c][i]).off
             IN /\ off.gen = Generation
                /\ off.off < Len(log[<<"PROCESS", off.part>>])
                /\ log[<<"PROCESS", off.part>>][off.off + 1].id = log[c][i].id
  <2> DEFINE m == log[c][i]
             off == CurrentStep(m).off
  <2>1. TxnOK(m) /\ Resumable(c, m)
    BY <1>1, OnTopic
  <2> HIDE DEF m
  <2>2. off # Nil
    BY <1>1, <2>1 DEF Resumable
  <2>3. Versioned(off, m.id)
    BY <2>1, <2>2, TxnFields DEF IsTodo, StepOK
  <2> HIDE DEF off
  <2>4. /\ off.gen = Generation
        /\ off.off < Len(log[<<"PROCESS", off.part>>])
        /\ log[<<"PROCESS", off.part>>][off.off + 1].id = m.id
    BY <2>3 DEF Versioned
  <2> QED BY <2>4 DEF off, m
<1>2. ASSUME Inv PROVE VersionedByOwnMessage
  BY <1>1, <1>2 DEF VersionedByOwnMessage
<1> QED
  BY <1>2, Invariance, PTL

LEMMA NewerRows ==
    ASSUME Inv, NEW c \in Consumers, Ready(c), NEW sys, NEW rows \in {db, scnd}, NEW new,
           Writes(c, sys, rows, new)
    PROVE  /\ \A k \in DOMAIN rows \cap DOMAIN new : OffsetGTE(new[k].off, rows[k].off)
           /\ DOMAIN rows \subseteq DOMAIN new \/ DeletesAsked
<1>1. IsMapTo(rows, Keys, InstanceRecord(Instances)) /\ Arrived(c).off \in CmpdOffsets
  BY CheckedFacts DEF Inv, MapsOK
<1>2. \A k \in DOMAIN rows : rows[k].off \in CmpdOffsets /\ OffsetGTE(rows[k].off, rows[k].off)
  BY <1>1, OffsetOrder DEF IsMapTo, InstanceRecord
<1>3. CASE new = rows
  BY <1>2, <1>3
<1>4. ASSUME NEW key \in Keys, NEW inst \in Instances,
             new = DbUpdate(rows, key, inst, Arrived(c).off)
      PROVE  /\ \A k \in DOMAIN rows \cap DOMAIN new : OffsetGTE(new[k].off, rows[k].off)
             /\ DOMAIN rows \subseteq DOMAIN new
  <2>1. \A k \in DOMAIN rows : OffsetGTE(new[k].off, rows[k].off)
    <3>1. PICK off \in CmpdOffsets : off = Arrived(c).off
      BY <1>1
    <3>2. new = DbUpdate(rows, key, inst, off)
      BY ONLY <1>4, <3>1
    <3> QED BY ONLY <1>1, <3>2, off \in CmpdOffsets, UpdateIsNewer
  <2>2. DOMAIN rows \subseteq DOMAIN new
    BY <1>4 DEF DbUpdate, Put
  <2> QED BY <2>1, <2>2
<1>5. ASSUME NEW key \in Keys, new = DbDelete(rows, key, Arrived(c).off),
             Arrived(c).cmd = "Delete"
      PROVE  /\ \A k \in DOMAIN rows \cap DOMAIN new : OffsetGTE(new[k].off, rows[k].off)
             /\ DeletesAsked
  <2>1. \A k \in DOMAIN new : new[k] = rows[k]
    BY ONLY <1>5, DeleteKeeps
  <2>2. DeletesAsked
    BY <1>5, CheckedFacts
  <2> QED BY <1>2, <2>1, <2>2
<1> QED
  BY <1>3, <1>4, <1>5 DEF Writes

\* No step replaces a row by an older one, in either storage target: the offset
\* guard of Create, Update and Delete holds against retries, restarts and any
\* order of the storage messages.
THEOREM RowsGetNewer == Spec => RowsOnlyGetNewer
<1> DEFINE Newer == \A rows \in {<<db, db'>>, <<scnd, scnd'>>} :
                       \A k \in DOMAIN rows[1] \cap DOMAIN rows[2] :
                           OffsetGTE(rows[2][k].off, rows[1][k].off)
<1>1. ASSUME Inv, [Next]_vars PROVE Newer
  <2>1. CASE UNCHANGED <<db, scnd>>
    <3>1. ASSUME NEW map \in {db, scnd}, NEW k \in DOMAIN map
          PROVE  OffsetGTE(map[k].off, map[k].off)
      <4>1. map[k].off \in CmpdOffsets
        BY <1>1, InstanceThere
      <4> QED BY <4>1, OffsetOrder
    <3> QED BY <2>1, <3>1
  <2>2. ASSUME NEW c \in Consumers, Consume(c) PROVE Newer
    <3>1. Ready(c) /\ Writes(c, "STORAGE", db, db') /\ Writes(c, "STORAGE_SCND", scnd, scnd')
      BY <1>1, <2>2, ConsumeEffect DEF Effect, Iteration
    <3>2. \A k \in DOMAIN db \cap DOMAIN db' : OffsetGTE(db'[k].off, db[k].off)
      BY <1>1, <3>1, NewerRows
    <3>3. \A k \in DOMAIN scnd \cap DOMAIN scnd' : OffsetGTE(scnd'[k].off, scnd[k].off)
      BY <1>1, <3>1, NewerRows
    <3> QED BY <3>2, <3>3
  <2>3. ASSUME Next PROVE UNCHANGED <<db, scnd>> \/ \E c \in Consumers : Consume(c)
    BY <2>3 DEF Next, Submit, Commit, Crash, Deliver, DeliveryFails, CancelDirective
  <2> HIDE DEF Newer
  <2> QED BY <1>1, <2>1, <2>2, <2>3 DEF vars
<1>2. Inv /\ [Next]_vars => [Newer]_vars
  BY <1>1
<1> QED
  BY <1>2, Invariance, PTL DEF Spec, RowsOnlyGetNewer
=============================================================================
