--------------------------- MODULE RelatedProofs ----------------------------
(***************************************************************************)
(* Theorems about Related, for any characters, partitions and requests:    *)
(* every step finds its instance in memory, and the copies an instance has *)
(* are of the right keys, one of each; and what is in memory gets to       *)
(* storage.                                                                *)
(***************************************************************************)
EXTENDS Related, SequenceTheorems, WellFoundedInduction, TLAPS

Insts == Nat \ {0}
Copies == [key : RelKeys, inst : Nat]
Cmds == {"VALIDATE_CREATE", "REFRESH_INSTANCE", "REQUEST_RELATED", "REFRESH_RELATED",
         "Change", "READ"}
Steps == [cmd : Cmds, key : RelKeys, pay : Copies, off : Nat, inst : Nat,
          result : [inst : Nat, rel : Seq(Copies)]]
Txns == [steps : Seq(Steps), idx : Nat]

\* A copy that the instance of a key may have, when those of K exist.
CopyFor(K, key, copy) ==
    /\ copy \in Copies
    /\ copy.key \in K /\ copy.inst \in Insts
    /\ IF key = Player THEN copy.key \in Chars ELSE copy.key = Player

\* The copies of the instance of a key.
RelFor(K, key, rel) ==
    /\ rel \in Seq(Copies)
    /\ \A i \in DOMAIN rel : CopyFor(K, key, rel[i])
    /\ IsRel(key, rel)

RecFor(K, key, rec) ==
    /\ rec = [inst |-> rec.inst, rel |-> rec.rel, off |-> rec.off]
    /\ rec.inst \in Insts /\ rec.off \in Nat
    /\ RelFor(K, key, rec.rel)

\* A step that is still to be done, when the instances of K are in memory and
\* those of D in storage.
Todo(K, D, s) ==
    /\ s.inst = NoInst
    /\ s.cmd # "VALIDATE_CREATE"
    /\ s.cmd = "REFRESH_INSTANCE" => s.key \in D /\ s.pay.inst \in Insts
    /\ s.cmd # "REFRESH_INSTANCE" => s.key \in K
    /\ s.cmd = "REQUEST_RELATED" => s.key = Player /\ s.pay.key \in Chars /\ s.pay.inst \in Insts
    /\ s.cmd = "REFRESH_RELATED" => CopyFor(K, s.key, s.pay)

\* A step that was done: what it may have to store.
Done(K, D, s) ==
    Writes(s) => /\ s.key \in D
                 /\ s.inst = NoInst => s.result.inst \in Insts /\ RelFor(K, s.key, s.result.rel)

\* A request for the copies of an instance is made when the instance is in
\* memory, or when the step before is the one that puts it there.
Known(K, txn, i) ==
    txn.steps[i].cmd = "REQUEST_RELATED" =>
        \/ txn.steps[i].pay.key \in K
        \/ /\ txn.idx # i
           /\ txn.steps[txn.idx].cmd = "REFRESH_INSTANCE"
           /\ txn.steps[txn.idx].key = txn.steps[i].pay.key

TxnFor(K, D, txn) ==
    /\ txn \in Txns
    /\ txn.idx \in 1..Len(txn.steps)
    /\ IF txn.steps[1].cmd = "VALIDATE_CREATE" THEN txn.steps[1].key \in Chars
       ELSE /\ \A i \in 1..(txn.idx - 1) : Done(K, D, txn.steps[i])
            /\ \A i \in txn.idx..Len(txn.steps) :
                  Todo(K, D, txn.steps[i]) /\ Known(K, txn, i)

WriteFor(K, D, w) ==
    /\ w = [key |-> w.key, inst |-> w.inst, rel |-> w.rel, off |-> w.off]
    /\ w.key \in D /\ w.inst \in Insts /\ w.off \in Nat /\ RelFor(K, w.key, w.rel)

MapFor(K, map) ==
    /\ map = [k \in DOMAIN map |-> map[k]]
    /\ \A k \in DOMAIN map : RecFor(K, k, map[k])

\* The topics, for the instances in memory and in storage.
QueueFor(K, D, q) == q \in Seq(Txns) /\ \A i \in DOMAIN q : TxnFor(K, D, q[i])
LogInv(K, D) ==
    /\ log = [p \in RelParts |-> log[p]]
    /\ \A p \in RelParts : QueueFor(K, D, log[p])
FlightInv(K, D) ==
    /\ flight = [pq \in RelParts \X RelParts |-> flight[pq]]
    /\ \A pq \in RelParts \X RelParts : QueueFor(K, D, flight[pq])
StoreInv(K, D) ==
    /\ Player \in K /\ K \subseteq D /\ D \subseteq RelKeys
    /\ MapFor(K, store)
    /\ MapFor(K, db)
    /\ \A w \in writes : WriteFor(K, D, w)
CountInv ==
    /\ next \in [RelParts -> Nat]
    /\ creates \subseteq [key : Chars, off : Nat]
    /\ asked \in 0..MaxChanges
    /\ early \subseteq Chars

Inv ==
    /\ LogInv(DOMAIN store, DOMAIN db) /\ FlightInv(DOMAIN store, DOMAIN db)
    /\ StoreInv(DOMAIN store, DOMAIN db) /\ CountInv

-----------------------------------------------------------------------------
(* Operators. *)

\* UpsertRelated and the assignment of a field: copies stay copies.
LEMMA UpsertFor ==
    ASSUME NEW K, NEW key \in RelKeys, NEW rel, RelFor(K, key, rel),
           NEW copy, CopyFor(K, key, copy)
    PROVE  RelFor(K, key, Upsert(rel, copy))
<1> DEFINE new == Upsert(rel, copy)
<1>1. rel \in Seq(Copies) /\ copy \in Copies /\ copy.inst \in Nat \ {0}
  BY DEF RelFor, CopyFor, Insts
<1>2. Len(rel) \in Nat /\ DOMAIN rel = 1..Len(rel)
  BY <1>1
<1>3. CASE \E i \in DOMAIN rel : rel[i].key = copy.key
  <2>1. new = [i \in DOMAIN rel |-> IF rel[i].key = copy.key THEN copy ELSE rel[i]]
    BY <1>3 DEF Upsert
  <2>2. new \in Seq(Copies) /\ DOMAIN new = DOMAIN rel
    BY <1>1, <1>2, <2>1
  <2>3. Len(new) = Len(rel)
    BY <1>2, <2>2
  <2>4. \A i \in DOMAIN rel : new[i].key = rel[i].key
    BY <2>1
  <2>5. \A i \in DOMAIN rel : CopyFor(K, key, new[i])
    BY <2>1 DEF RelFor
  <2>6. IsRel(key, new)
    BY <1>1, <2>2, <2>3, <2>4, <2>5 DEF RelFor, IsRel, CopyFor, Insts
  <2> HIDE DEF new
  <2> QED
    BY <2>2, <2>5, <2>6 DEF RelFor, new
<1>4. CASE ~\E i \in DOMAIN rel : rel[i].key = copy.key
  <2>1. new = Append(rel, copy)
    BY <1>4 DEF Upsert
  <2>2. new \in Seq(Copies) /\ DOMAIN new = 1..(Len(rel) + 1) /\ Len(new) = Len(rel) + 1
    BY <1>1, <2>1
  <2>3. \A i \in DOMAIN rel : new[i] = rel[i]
    BY <1>1, <1>2, <2>1
  <2>4. new[Len(rel) + 1] = copy
    BY <1>1, <2>1
  <2> HIDE DEF new
  <2>5. \A i \in DOMAIN new : i \in DOMAIN rel \/ i = Len(rel) + 1
    BY <1>2, <2>2
  <2>6. \A i \in DOMAIN new : CopyFor(K, key, new[i])
    BY <2>3, <2>4, <2>5 DEF RelFor
  <2>7. IsRel(key, new)
    <3>1. \A i \in DOMAIN new : new[i].inst \in Nat \ {0}
      BY <2>6 DEF CopyFor, Insts
    <3>2. CASE key = Player
      BY <1>2, <1>4, <2>2, <2>3, <2>4, <2>5, <2>6, <3>1, <3>2 DEF IsRel, RelFor, CopyFor
    <3>3. CASE key # Player
      <4>1. Len(rel) = 0
        <5>1. \A i \in DOMAIN rel : rel[i].key = copy.key
          BY <3>3 DEF RelFor, CopyFor
        <5>2. Len(rel) # 0 => 1 \in DOMAIN rel
          BY <1>2
        <5> QED
          BY <1>4, <5>1, <5>2
      <4> QED
        BY <2>2, <2>6, <3>1, <3>3, <4>1 DEF IsRel, CopyFor
    <3> QED
      BY <3>2, <3>3
  <2> QED
    BY <2>2, <2>6, <2>7 DEF RelFor, new
<1> QED
  BY <1>3, <1>4

LEMMA EmptyRel ==
    ASSUME NEW K, NEW key PROVE RelFor(K, key, <<>>)
<1>1. <<>> \in Seq(Copies) /\ Len(<<>>) = 0 /\ DOMAIN <<>> = {}
  BY EmptySeq
<1> QED
  BY <1>1 DEF RelFor, IsRel

\* Instances are never removed: what refers to some still does when there are more.
LEMMA MoreKeys ==
    ASSUME NEW K, NEW D, NEW K2, NEW D2, K \subseteq K2, D \subseteq D2
    PROVE  /\ \A key, rel : RelFor(K, key, rel) => RelFor(K2, key, rel)
           /\ \A key, rec : RecFor(K, key, rec) => RecFor(K2, key, rec)
           /\ \A txn : TxnFor(K, D, txn) => TxnFor(K2, D2, txn)
           /\ \A w : WriteFor(K, D, w) => WriteFor(K2, D2, w)
           /\ \A q : QueueFor(K, D, q) => QueueFor(K2, D2, q)
<1>1. \A key, copy : CopyFor(K, key, copy) => CopyFor(K2, key, copy)
  BY DEF CopyFor
<1>2. \A key, rel : RelFor(K, key, rel) => RelFor(K2, key, rel)
  BY <1>1 DEF RelFor
<1>3. \A key, rec : RecFor(K, key, rec) => RecFor(K2, key, rec)
  BY <1>2 DEF RecFor
<1>4. \A s : Todo(K, D, s) => Todo(K2, D2, s)
  BY <1>1 DEF Todo
<1>5. \A s : Done(K, D, s) => Done(K2, D2, s)
  BY <1>2 DEF Done
<1>6. \A txn, i : Known(K, txn, i) => Known(K2, txn, i)
  BY DEF Known
<1>7. \A txn : TxnFor(K, D, txn) => TxnFor(K2, D2, txn)
  BY <1>4, <1>5, <1>6, Zenon DEF TxnFor
<1>8. \A w : WriteFor(K, D, w) => WriteFor(K2, D2, w)
  BY <1>2 DEF WriteFor
<1>9. \A q : QueueFor(K, D, q) => QueueFor(K2, D2, q)
  BY <1>7 DEF QueueFor
<1> QED
  BY <1>2, <1>3, <1>7, <1>8, <1>9
\* The steps a handler makes.
LEMMA StepType ==
    ASSUME NEW cmd \in Cmds, NEW key \in RelKeys, NEW pay \in Copies
    PROVE  /\ Step(cmd, key, pay) \in Steps
           /\ Step(cmd, key, pay).inst = NoInst /\ Step(cmd, key, pay).cmd = cmd
           /\ Step(cmd, key, pay).key = key /\ Step(cmd, key, pay).pay = pay
<1>1. Packed(NoInst, <<>>) \in [inst : Nat, rel : Seq(Copies)]
  BY EmptySeq DEF Packed, NoInst
<1> QED
  BY <1>1 DEF Step, Steps, NoInst

\* A refresh that tells of an instance.
LEMMA RefreshFor ==
    ASSUME NEW K, NEW D, NEW to \in RelKeys, to \in K, NEW copy, CopyFor(K, to, copy)
    PROVE  LET r == Step("REFRESH_RELATED", to, copy)
           IN r \in Steps /\ Todo(K, D, r) /\ r.cmd = "REFRESH_RELATED"
<1> DEFINE r == Step("REFRESH_RELATED", to, copy)
<1>1. /\ r \in Steps /\ r.inst = NoInst /\ r.cmd = "REFRESH_RELATED" /\ r.key = to
      /\ r.pay = copy
  BY StepType DEF Cmds, CopyFor
<1> HIDE DEF r
<1> QED
  BY <1>1 DEF Todo, r

\* RefreshRelatedSteps: the steps that a change adds.
LEMMA RefreshStepsFor ==
    ASSUME NEW K, NEW D, K \subseteq RelKeys, NEW key \in K, NEW inst \in Insts,
           NEW rel, RelFor(K, key, rel), NEW add, add = RefreshRelatedSteps(key, inst, rel)
    PROVE  /\ add \in Seq(Steps)
           /\ \A i \in DOMAIN add : Todo(K, D, add[i]) /\ add[i].cmd # "REQUEST_RELATED"
<1> DEFINE refresh == [i \in DOMAIN rel |->
                          Step("REFRESH_RELATED", rel[i].key, Copy(key, inst))]
           read == Step("READ", key, NoPay)
<1>1. rel \in Seq(Copies) /\ Len(rel) \in Nat /\ DOMAIN rel = 1..Len(rel)
  BY DEF RelFor
<1>2. ASSUME NEW i \in DOMAIN rel
      PROVE  /\ refresh[i] \in Steps /\ Todo(K, D, refresh[i])
             /\ refresh[i].cmd # "REQUEST_RELATED"
  <2>1. rel[i].key \in K /\ rel[i].key \in RelKeys
    BY DEF RelFor, CopyFor
  <2>2. CopyFor(K, rel[i].key, Copy(key, inst))
    BY RelatedKeysAssumption DEF RelFor, CopyFor, Copy, Copies, RelKeys, Insts
  <2>3. refresh[i] = Step("REFRESH_RELATED", rel[i].key, Copy(key, inst))
    OBVIOUS
  <2> HIDE DEF refresh
  <2> QED
    BY <2>1, <2>2, <2>3, RefreshFor
<1>3. read \in Steps /\ Todo(K, D, read) /\ read.cmd # "REQUEST_RELATED"
  <2>1. NoPay \in Copies
    BY DEF NoPay, Copy, Copies, NoInst, RelKeys
  <2>2. read \in Steps /\ read.inst = NoInst /\ read.cmd = "READ" /\ read.key = key
    BY <2>1, StepType DEF Cmds
  <2> HIDE DEF read
  <2> QED
    BY <2>2 DEF Todo
<1>4. refresh \in Seq(Steps) /\ DOMAIN refresh = DOMAIN rel
  BY <1>1, <1>2
<1>5. add = IF refresh = <<>> THEN <<>> ELSE Append(refresh, read)
  BY DEF RefreshRelatedSteps
<1> HIDE DEF refresh, read
<1>6. CASE refresh = <<>>
  BY <1>5, <1>6, EmptySeq
<1>7. CASE refresh # <<>>
  <2>1. add = Append(refresh, read)
    BY <1>5, <1>7
  <2>2. add \in Seq(Steps)
    BY <1>3, <1>4, <2>1, AppendProperties
  <2>3. \A i \in DOMAIN add : add[i] = read \/ (i \in DOMAIN refresh /\ add[i] = refresh[i])
    BY <1>3, <1>4, <2>1
  <2> QED
    BY <1>2, <1>3, <1>4, <2>2, <2>3
<1> QED
  BY <1>6, <1>7

\* What a handler makes of a step.
HandledWell(K, D, s, h) ==
    /\ RecFor(K \cup {s.key}, s.key, h.rec)
    /\ h.step \in Steps /\ h.step.cmd = s.cmd /\ h.step.key = s.key
    /\ Done(K \cup {s.key}, D, h.step)
    /\ h.add \in Seq(Steps)
    /\ \A i \in DOMAIN h.add :
          Todo(K \cup {s.key}, D, h.add[i]) /\ h.add[i].cmd # "REQUEST_RELATED"

LEMMA RefreshInstanceWell ==
    ASSUME NEW K, NEW D, NEW s \in Steps, Todo(K, D, s), s.cmd = "REFRESH_INSTANCE",
           NEW off \in Nat, NEW h, h = HandleRefreshInstance(s, off)
    PROVE  HandledWell(K, D, s, h)
<1>1. h.rec = [inst |-> s.pay.inst, rel |-> <<>>, off |-> off]
  BY DEF HandleRefreshInstance
<1>2. h.step = [s EXCEPT !.off = off] /\ h.add = <<>>
  BY DEF HandleRefreshInstance
<1>3. RecFor(K \cup {s.key}, s.key, h.rec)
  BY <1>1, EmptyRel DEF RecFor, Todo
<1>4. h.step \in Steps /\ h.step.cmd = s.cmd /\ h.step.key = s.key /\ h.step.inst = s.inst
  BY <1>2 DEF Steps
<1>5. ~Writes(h.step)
  BY <1>4 DEF Writes, Todo
<1>6. <<>> \in Seq(Steps) /\ DOMAIN <<>> = {}
  BY EmptySeq
<1> QED
  BY <1>2, <1>3, <1>4, <1>5, <1>6 DEF HandledWell, Done

\* SetRelated and SetInstance keep a record a record.
LEMMA SetFor ==
    ASSUME NEW K, NEW key, NEW rec, RecFor(K, key, rec), NEW off \in Nat,
           NEW rel, RelFor(K, key, rel), NEW inst \in Insts
    PROVE  /\ RecFor(K, key, SetRelated(rec, rel, off))
           /\ RecFor(K, key, SetInstance(rec, inst, off))
<1>1. RecFor(K, key, [inst |-> rec.inst, rel |-> rel, off |-> off])
  BY DEF RecFor
<1>2. RecFor(K, key, [inst |-> inst, rel |-> rec.rel, off |-> off])
  BY DEF RecFor
<1>3. /\ [rec EXCEPT !.rel = rel, !.off = off] = [inst |-> rec.inst, rel |-> rel, off |-> off]
      /\ [rec EXCEPT !.inst = inst, !.off = off] = [inst |-> inst, rel |-> rec.rel, off |-> off]
  <2> DEFINE a == [rec EXCEPT !.rel = rel]
             b == [rec EXCEPT !.inst = inst]
  <2>1. a = [inst |-> rec.inst, rel |-> rel, off |-> rec.off]
    BY DEF RecFor
  <2>2. b = [inst |-> inst, rel |-> rec.rel, off |-> rec.off]
    BY DEF RecFor
  <2> HIDE DEF a, b
  <2>3. [a EXCEPT !.off = off] = [inst |-> rec.inst, rel |-> rel, off |-> off]
    BY <2>1
  <2>4. [b EXCEPT !.off = off] = [inst |-> inst, rel |-> rec.rel, off |-> off]
    BY <2>2
  <2> QED
    BY <2>3, <2>4 DEF a, b
<1> QED
  BY <1>1, <1>2, <1>3 DEF SetRelated, SetInstance

\* Two fields of a step are set.
LEMMA StepSet ==
    ASSUME NEW s \in Steps, NEW off, NEW x
    PROVE  /\ [s EXCEPT !.off = off, !.result = x] =
                 [cmd |-> s.cmd, key |-> s.key, pay |-> s.pay, off |-> off,
                  inst |-> s.inst, result |-> x]
           /\ [s EXCEPT !.off = off, !.inst = x] =
                 [cmd |-> s.cmd, key |-> s.key, pay |-> s.pay, off |-> off,
                  inst |-> x, result |-> s.result]
<1> DEFINE t == [s EXCEPT !.off = off]
<1>1. t = [cmd |-> s.cmd, key |-> s.key, pay |-> s.pay, off |-> off,
           inst |-> s.inst, result |-> s.result]
  BY DEF Steps
<1> HIDE DEF t
<1>2. [t EXCEPT !.result = x] = [cmd |-> s.cmd, key |-> s.key, pay |-> s.pay, off |-> off,
                                 inst |-> s.inst, result |-> x]
  BY <1>1
<1>3. [t EXCEPT !.inst = x] = [cmd |-> s.cmd, key |-> s.key, pay |-> s.pay, off |-> off,
                               inst |-> x, result |-> s.result]
  BY <1>1
<1> QED
  BY <1>2, <1>3 DEF t

\* The step with its result.
LEMMA ResultFor ==
    ASSUME NEW K, NEW D, NEW s \in Steps, s.inst = NoInst, s.key \in D, NEW off \in Nat,
           NEW inst \in Insts, NEW rel, RelFor(K, s.key, rel),
           NEW result, result = Packed(inst, rel),
           NEW step, step = [cmd |-> s.cmd, key |-> s.key, pay |-> s.pay, off |-> off,
                             inst |-> s.inst, result |-> result]
    PROVE  /\ step \in Steps /\ step.cmd = s.cmd /\ step.key = s.key
           /\ Done(K, D, step)
<1>1. result \in [inst : Nat, rel : Seq(Copies)] /\ result.inst = inst /\ result.rel = rel
  BY DEF RelFor, Insts, Packed
<1>3. /\ step \in Steps /\ step.cmd = s.cmd /\ step.key = s.key
      /\ step.inst = NoInst /\ step.result = result
  BY <1>1 DEF Steps
<1> QED
  BY <1>1, <1>3 DEF Done

LEMMA RequestRelatedWell ==
    ASSUME NEW K, NEW D, K \subseteq RelKeys, K \subseteq D, NEW s \in Steps, Todo(K, D, s),
           s.cmd = "REQUEST_RELATED", s.pay.key \in K,
           NEW rec, RecFor(K, s.key, rec),
           NEW off \in Nat, NEW h, h = HandleRequestRelated(s, rec, off)
    PROVE  HandledWell(K, D, s, h)
<1> DEFINE rel == Upsert(rec.rel, s.pay)
           refresh == Step("REFRESH_RELATED", s.pay.key, Copy(s.key, rec.inst))
<1>1. /\ h.rec = SetRelated(rec, rel, off)
      /\ h.step = [s EXCEPT !.off = off, !.result = Packed(rec.inst, rel)]
      /\ h.add = <<refresh>>
  BY DEF HandleRequestRelated
<1>2. /\ s.inst = NoInst /\ s.key = Player /\ s.key \in K /\ s.key \in RelKeys
      /\ s.pay.key \in Chars /\ s.pay.inst \in Insts /\ s.pay \in Copies
  BY DEF Todo, Steps
<1>3. CopyFor(K, s.key, s.pay)
  BY <1>2 DEF CopyFor
<1>4. RelFor(K, s.key, rec.rel) /\ rec.inst \in Insts
  BY DEF RecFor
<1>5. RelFor(K, s.key, rel)
  BY <1>2, <1>3, <1>4, UpsertFor
<1>6. refresh \in Steps /\ Todo(K, D, refresh) /\ refresh.cmd # "REQUEST_RELATED"
  <2>1. CopyFor(K, s.pay.key, Copy(s.key, rec.inst))
    BY <1>2, <1>4, RelatedKeysAssumption DEF CopyFor, Copy, Copies, Insts
  <2>2. s.pay.key \in RelKeys
    OBVIOUS
  <2> QED
    BY <2>1, <2>2, RefreshFor
<1> HIDE DEF rel, refresh
<1>7. RecFor(K, s.key, h.rec)
  BY <1>1, <1>4, <1>5, SetFor
<1>8. h.step \in Steps /\ h.step.cmd = s.cmd /\ h.step.key = s.key /\ Done(K, D, h.step)
  <2>1. PICK result : result = Packed(rec.inst, rel)
    OBVIOUS
  <2>2. h.step = [cmd |-> s.cmd, key |-> s.key, pay |-> s.pay, off |-> off,
                  inst |-> s.inst, result |-> result]
    <3>1. s \in Steps /\ h.step = [s EXCEPT !.off = off, !.result = result]
      BY <1>1, <2>1
    <3> QED
      BY ONLY <3>1, StepSet
  <2>3. s.key \in D
    BY <1>2
  <2> QED
    BY <1>2, <1>4, <1>5, <2>1, <2>2, <2>3, ResultFor
<1>9. h.add \in Seq(Steps) /\ \A i \in DOMAIN h.add : h.add[i] = refresh
  BY <1>1, <1>6
<1>10. K \cup {s.key} = K
  BY <1>2
<1> QED
  BY <1>6, <1>7, <1>8, <1>9, <1>10 DEF HandledWell

LEMMA RefreshRelatedWell ==
    ASSUME NEW K, NEW D, K \subseteq RelKeys, K \subseteq D, NEW s \in Steps, Todo(K, D, s),
           s.cmd = "REFRESH_RELATED", NEW rec, RecFor(K, s.key, rec),
           NEW off \in Nat, NEW h, h = HandleRefreshRelated(s, rec, off)
    PROVE  HandledWell(K, D, s, h)
<1> DEFINE after == SetRelated(rec, Upsert(rec.rel, s.pay), off)
<1>1. /\ h.rec = after
      /\ h.step = [s EXCEPT !.off = off, !.result = Packed(after.inst, after.rel)]
      /\ h.add = <<>>
  BY DEF HandleRefreshRelated
<1>2. s.inst = NoInst /\ s.key \in K /\ s.key \in RelKeys /\ CopyFor(K, s.key, s.pay)
  BY DEF Todo, Steps
<1>3. RelFor(K, s.key, rec.rel) /\ rec.inst \in Insts
  BY DEF RecFor
<1>4. RelFor(K, s.key, Upsert(rec.rel, s.pay))
  BY <1>2, <1>3, UpsertFor
<1>5. RecFor(K, s.key, after)
  BY <1>3, <1>4, SetFor
<1>6. RelFor(K, s.key, after.rel) /\ after.inst \in Insts
  BY <1>5 DEF RecFor
<1> HIDE DEF after
<1>7. h.step \in Steps /\ h.step.cmd = s.cmd /\ h.step.key = s.key /\ Done(K, D, h.step)
  <2>1. PICK result : result = Packed(after.inst, after.rel)
    OBVIOUS
  <2>2. h.step = [cmd |-> s.cmd, key |-> s.key, pay |-> s.pay, off |-> off,
                  inst |-> s.inst, result |-> result]
    <3>1. h.step = [s EXCEPT !.off = off, !.result = result]
      BY <1>1, <2>1, Zenon
    <3> QED
      BY <3>1, StepSet
  <2>3. s.key \in D
    BY <1>2
  <2> QED
    BY <1>2, <1>6, <2>1, <2>2, <2>3, ResultFor
<1>8. <<>> \in Seq(Steps) /\ DOMAIN <<>> = {}
  BY EmptySeq
<1>9. K \cup {s.key} = K
  BY <1>2
<1> QED
  BY <1>1, <1>5, <1>7, <1>8, <1>9 DEF HandledWell

LEMMA ChangeWell ==
    ASSUME NEW K, NEW D, K \subseteq RelKeys, K \subseteq D, NEW s \in Steps, Todo(K, D, s),
           s.cmd = "Change", NEW rec, RecFor(K, s.key, rec),
           NEW off \in Nat, NEW h, h = HandleChange(s, rec, off)
    PROVE  HandledWell(K, D, s, h)
<1>1. /\ h.rec = SetInstance(rec, rec.inst + 1, off)
      /\ h.step = [s EXCEPT !.off = off, !.inst = rec.inst + 1]
      /\ h.add = RefreshRelatedSteps(s.key, rec.inst + 1, rec.rel)
  BY DEF HandleChange
<1>2. /\ s.key \in K /\ rec.inst \in Insts /\ rec.inst + 1 \in Insts
      /\ RelFor(K, s.key, rec.rel)
  BY DEF Todo, RecFor, Insts
<1>3. RecFor(K, s.key, h.rec)
  BY <1>1, <1>2, SetFor
<1>4. /\ h.step \in Steps /\ h.step.cmd = s.cmd /\ h.step.key = s.key
      /\ h.step.inst = rec.inst + 1
  <2>1. h.step = [cmd |-> s.cmd, key |-> s.key, pay |-> s.pay, off |-> off,
                  inst |-> rec.inst + 1, result |-> s.result]
    <3>1. PICK inst \in Insts : inst = rec.inst + 1
      BY <1>2
    <3>2. s \in Steps /\ h.step = [s EXCEPT !.off = off, !.inst = inst]
      BY <1>1, <3>1
    <3>3. h.step = [cmd |-> s.cmd, key |-> s.key, pay |-> s.pay, off |-> off,
                    inst |-> inst, result |-> s.result]
      BY ONLY <3>2, StepSet
    <3> QED
      BY ONLY <3>1, <3>3
  <2> QED
    BY <1>2, <2>1 DEF Steps, Insts
<1>5. Done(K, D, h.step)
  BY <1>2, <1>4 DEF Done, NoInst, Insts
<1>6. /\ h.add \in Seq(Steps)
      /\ \A i \in DOMAIN h.add : Todo(K, D, h.add[i]) /\ h.add[i].cmd # "REQUEST_RELATED"
  <2>1. PICK inst, rel : inst \in Insts /\ inst = rec.inst + 1 /\ rel = rec.rel
    BY <1>2
  <2>2. PICK key \in K : key = s.key
    BY <1>2
  <2>3. PICK add : add = h.add /\ add = RefreshRelatedSteps(key, inst, rel)
    BY <1>1, <2>1, <2>2
  <2>4. /\ add \in Seq(Steps)
        /\ \A i \in DOMAIN add : Todo(K, D, add[i]) /\ add[i].cmd # "REQUEST_RELATED"
    BY <1>2, <2>1, <2>2, <2>3, RefreshStepsFor
  <2> QED
    BY <2>3, <2>4
<1>7. K \cup {s.key} = K
  BY <1>2
<1> QED
  BY <1>3, <1>4, <1>5, <1>6, <1>7 DEF HandledWell

LEMMA ReadWell ==
    ASSUME NEW K, NEW D, K \subseteq RelKeys, K \subseteq D, NEW s \in Steps, Todo(K, D, s),
           s.cmd = "READ", NEW rec, RecFor(K, s.key, rec),
           NEW off \in Nat, NEW h, h = HandleRead(s, rec, off)
    PROVE  HandledWell(K, D, s, h)
<1>1. /\ h.rec = rec
      /\ h.step = [s EXCEPT !.off = off, !.result = Packed(rec.inst, rec.rel)]
      /\ h.add = <<>>
  BY DEF HandleRead
<1>2. s.inst = NoInst /\ s.key \in K /\ RelFor(K, s.key, rec.rel) /\ rec.inst \in Insts
  BY DEF Todo, RecFor
<1>3. h.step \in Steps /\ h.step.cmd = s.cmd /\ h.step.key = s.key /\ Done(K, D, h.step)
  <2>1. PICK result : result = Packed(rec.inst, rec.rel)
    OBVIOUS
  <2>2. h.step = [cmd |-> s.cmd, key |-> s.key, pay |-> s.pay, off |-> off,
                  inst |-> s.inst, result |-> result]
    <3>1. s \in Steps /\ h.step = [s EXCEPT !.off = off, !.result = result]
      BY <1>1, <2>1
    <3> QED
      BY ONLY <3>1, StepSet
  <2>3. s.key \in D
    BY <1>2
  <2> QED
    BY <1>2, <2>1, <2>2, <2>3, ResultFor
<1>4. <<>> \in Seq(Steps) /\ DOMAIN <<>> = {}
  BY EmptySeq
<1>5. K \cup {s.key} = K
  BY <1>2
<1> QED
  BY <1>1, <1>3, <1>4, <1>5 DEF HandledWell

\* HandleLogicCommand: every step finds its instance in memory and leaves a
\* record, a result and steps that are as they should be.
LEMMA AllHandledWell ==
    ASSUME StoreInv(DOMAIN store, DOMAIN db), NEW s \in Steps,
           Todo(DOMAIN store, DOMAIN db, s),
           s.cmd = "REQUEST_RELATED" => s.pay.key \in DOMAIN store,
           NEW off \in Nat, NEW h, h = Handled(s, off)
    PROVE  HandledWell(DOMAIN store, DOMAIN db, s, h)
<1>0. PICK K, D : K = DOMAIN store /\ D = DOMAIN db
  OBVIOUS
<1>1. K \subseteq RelKeys /\ K \subseteq D /\ \A k \in K : RecFor(K, k, store[k])
  BY <1>0 DEF StoreInv, MapFor
<1>2. Todo(K, D, s) /\ (s.cmd = "REQUEST_RELATED" => s.pay.key \in K)
  BY <1>0
<1>3. CASE s.cmd = "REFRESH_INSTANCE"
  <2>1. h = HandleRefreshInstance(s, off)
    BY <1>3 DEF Handled
  <2> QED
    BY <1>0, <1>2, <1>3, <2>1, RefreshInstanceWell
<1>4. CASE s.cmd # "REFRESH_INSTANCE"
  <2>1. PICK rec : rec = store[s.key] /\ RecFor(K, s.key, rec)
    BY <1>1, <1>2, <1>4 DEF Todo
  <2>2. CASE s.cmd = "REQUEST_RELATED"
    <3>1. h = HandleRequestRelated(s, rec, off)
      BY <2>1, <2>2 DEF Handled
    <3> QED
      BY <1>0, <1>1, <1>2, <2>1, <2>2, <3>1, RequestRelatedWell
  <2>3. CASE s.cmd = "REFRESH_RELATED"
    <3>1. h = HandleRefreshRelated(s, rec, off)
      BY <2>1, <2>3 DEF Handled
    <3> QED
      BY <1>0, <1>1, <1>2, <2>1, <2>3, <3>1, RefreshRelatedWell
  <2>4. CASE s.cmd = "Change"
    <3>1. h = HandleChange(s, rec, off)
      BY <2>1, <2>4 DEF Handled
    <3> QED
      BY <1>0, <1>1, <1>2, <2>1, <2>4, <3>1, ChangeWell
  <2>5. CASE s.cmd = "READ"
    <3>1. h = HandleRead(s, rec, off)
      BY <2>1, <2>5 DEF Handled
    <3> QED
      BY <1>0, <1>1, <1>2, <2>1, <2>5, <3>1, ReadWell
  <2> QED
    BY <1>2, <1>4, <2>2, <2>3, <2>4, <2>5 DEF Todo, Steps, Cmds
<1> QED
  BY <1>3, <1>4

-----------------------------------------------------------------------------
(* A message. *)

\* InsertSteps: the steps of a transaction after one of them was handled.
StepsWith(steps, idx, step, add) ==
    SubSeq(steps, 1, idx - 1) \o <<step>> \o add \o SubSeq(steps, idx + 1, Len(steps))

StepsAre(S, steps, idx, step, add, new) ==
    /\ new \in Seq(S) /\ Len(new) = Len(steps) + Len(add)
    /\ \A i \in 1..(idx - 1) : new[i] = steps[i]
    /\ new[idx] = step
    /\ \A i \in (idx + 1)..Len(new) :
          \/ \E j \in DOMAIN add : new[i] = add[j]
          \/ \E j \in (idx + 1)..Len(steps) : new[i] = steps[j]

LEMMA StepsAfter ==
    ASSUME NEW S, NEW steps \in Seq(S), NEW idx \in 1..Len(steps), NEW step \in S,
           NEW add \in Seq(S),
           NEW new, new = StepsWith(steps, idx, step, add)
    PROVE  StepsAre(S, steps, idx, step, add, new)
<1> DEFINE before == SubSeq(steps, 1, idx - 1)
           after == SubSeq(steps, idx + 1, Len(steps))
           a == before \o <<step>>
           b == a \o add
<1>0. Len(steps) \in Nat /\ Len(add) \in Nat /\ idx \in Nat /\ DOMAIN add = 1..Len(add)
  OBVIOUS
<1>1. before \in Seq(S) /\ Len(before) = idx - 1 /\ \A i \in 1..(idx - 1) : before[i] = steps[i]
  OBVIOUS
<1>2. /\ after \in Seq(S) /\ Len(after) = Len(steps) - idx
      /\ \A i \in 1..(Len(steps) - idx) : after[i] = steps[idx + i]
  OBVIOUS
<1> HIDE DEF before, after
<1>3. /\ a \in Seq(S) /\ Len(a) = idx /\ a[idx] = step
      /\ \A i \in 1..(idx - 1) : a[i] = before[i]
  <2> DEFINE one == <<step>>
  <2>1. one \in Seq(S) /\ Len(one) = 1 /\ one[1] = step
    OBVIOUS
  <2>2. a = before \o one
    OBVIOUS
  <2> HIDE DEF a, one
  <2>3. /\ before \o one \in Seq(S) /\ Len(before \o one) = Len(before) + Len(one)
        /\ \A i \in 1..(Len(before) + Len(one)) :
              (before \o one)[i] = IF i <= Len(before) THEN before[i] ELSE one[i - Len(before)]
    BY <1>1, <2>1, ConcatProperties
  <2>4. Len(a) = idx
    BY <1>0, <1>1, <2>1, <2>2, <2>3
  <2>5. a[idx] = one[idx - Len(before)] /\ idx - Len(before) = 1
    BY <1>0, <1>1, <2>1, <2>2, <2>3
  <2>6. ASSUME NEW i \in 1..(idx - 1) PROVE a[i] = before[i]
    BY <1>0, <1>1, <2>1, <2>2, <2>3
  <2> QED
    BY <2>1, <2>2, <2>3, <2>4, <2>5, <2>6
<1> HIDE DEF a
<1>4. /\ b \in Seq(S) /\ Len(b) = idx + Len(add)
      /\ \A i \in 1..idx : b[i] = a[i]
      /\ \A i \in (idx + 1)..(idx + Len(add)) : b[i] = add[i - idx]
  <2>1. a \in Seq(S) /\ add \in Seq(S) /\ b = a \o add
    BY <1>3
  <2> HIDE DEF b
  <2>2. /\ a \o add \in Seq(S) /\ Len(a \o add) = Len(a) + Len(add)
        /\ \A i \in 1..(Len(a) + Len(add)) :
              (a \o add)[i] = IF i <= Len(a) THEN a[i] ELSE add[i - Len(a)]
    BY ONLY <2>1, ConcatProperties
  <2>3. /\ b \in Seq(S) /\ Len(b) = Len(a) + Len(add)
        /\ \A i \in 1..(Len(a) + Len(add)) :
              b[i] = IF i <= Len(a) THEN a[i] ELSE add[i - Len(a)]
    BY ONLY <2>1, <2>2
  <2>4. Len(a) = idx /\ Len(b) = idx + Len(add)
    BY <1>3, <2>3
  <2>5. ASSUME NEW i \in 1..idx PROVE b[i] = a[i]
    <3>1. i \in 1..(Len(a) + Len(add)) /\ i <= Len(a)
      BY ONLY <1>0, <2>4, i \in 1..idx
    <3> QED
      BY ONLY <2>3, <3>1
  <2>6. ASSUME NEW i \in (idx + 1)..(idx + Len(add)) PROVE b[i] = add[i - idx]
    <3>1. i \in 1..(Len(a) + Len(add)) /\ ~(i <= Len(a)) /\ i - Len(a) = i - idx
      BY ONLY <1>0, <2>4, i \in (idx + 1)..(idx + Len(add))
    <3> QED
      BY ONLY <2>3, <3>1
  <2> QED
    BY <2>3, <2>4, <2>5, <2>6
<1> HIDE DEF b
<1>5. new = b \o after
  BY DEF StepsWith, b, a, before, after
<1>6. /\ new \in Seq(S) /\ Len(new) = Len(steps) + Len(add)
      /\ \A i \in 1..(idx + Len(add)) : new[i] = b[i]
      /\ \A i \in (idx + Len(add) + 1)..Len(new) : new[i] = after[i - idx - Len(add)]
  <2>1. /\ b \o after \in Seq(S) /\ Len(b \o after) = Len(b) + Len(after)
        /\ \A i \in 1..(Len(b) + Len(after)) :
              (b \o after)[i] = IF i <= Len(b) THEN b[i] ELSE after[i - Len(b)]
    BY <1>2, <1>4, ConcatProperties
  <2>2. Len(new) = Len(steps) + Len(add)
    BY <1>0, <1>2, <1>4, <1>5, <2>1
  <2>3. ASSUME NEW i \in 1..(idx + Len(add)) PROVE new[i] = b[i]
    BY <1>0, <1>2, <1>4, <1>5, <2>1
  <2>4. ASSUME NEW i \in (idx + Len(add) + 1)..Len(new)
        PROVE  new[i] = after[i - idx - Len(add)]
    <3>1. i \in 1..(Len(b) + Len(after)) /\ ~(i <= Len(b)) /\ i - Len(b) = i - idx - Len(add)
      BY <1>0, <1>2, <1>4, <2>2
    <3> QED
      BY <1>5, <2>1, <3>1
  <2> QED
    BY <1>5, <2>1, <2>2, <2>3, <2>4
<1>7. \A i \in 1..(idx - 1) : new[i] = steps[i]
  <2> TAKE i \in 1..(idx - 1)
  <2>1. i \in 1..idx /\ i \in 1..(idx + Len(add))
    BY <1>0
  <2>2. new[i] = b[i]
    BY ONLY <1>6, <2>1
  <2>3. b[i] = a[i]
    BY ONLY <1>4, <2>1
  <2>4. a[i] = before[i]
    BY ONLY <1>3, i \in 1..(idx - 1)
  <2>5. before[i] = steps[i]
    BY ONLY <1>1, i \in 1..(idx - 1)
  <2> QED
    BY ONLY <2>2, <2>3, <2>4, <2>5
<1>8. new[idx] = step
  BY <1>0, <1>3, <1>4, <1>6
<1>9. ASSUME NEW i \in (idx + 1)..Len(new)
      PROVE  \/ \E j \in DOMAIN add : new[i] = add[j]
             \/ \E j \in (idx + 1)..Len(steps) : new[i] = steps[j]
  <2>1. CASE i <= idx + Len(add)
    <3>1. i - idx \in DOMAIN add /\ new[i] = add[i - idx]
      BY <1>0, <1>4, <1>6, <2>1
    <3> QED
      BY <3>1
  <2>2. CASE i > idx + Len(add)
    <3>1. new[i] = after[i - idx - Len(add)]
      BY <1>0, <1>6, <2>2
    <3>2. i - idx - Len(add) \in 1..(Len(steps) - idx)
      BY <1>0, <1>6, <2>2
    <3>3. after[i - idx - Len(add)] = steps[idx + (i - idx - Len(add))]
      BY <1>2, <3>2
    <3>4. idx + (i - idx - Len(add)) \in (idx + 1)..Len(steps)
      BY <1>0, <3>2
    <3> QED
      BY <3>1, <3>3, <3>4
  <2> QED
    BY <1>0, <1>6, <2>1, <2>2
<1> QED
  BY ONLY <1>6, <1>7, <1>8, <1>9 DEF StepsAre

\* The transaction that is carried on, or whose writes are made.
LEMMA CarriedOn ==
    ASSUME NEW K, NEW D, NEW txn, TxnFor(K, D, txn),
           txn.steps[1].cmd # "VALIDATE_CREATE",
           NEW h, HandledWell(K, D, txn.steps[txn.idx], h),
           NEW K2, K2 = K \cup {txn.steps[txn.idx].key},
           NEW steps, steps = StepsWith(txn.steps, txn.idx, h.step, h.add)
    PROVE  /\ steps \in Seq(Steps) /\ Len(steps) >= txn.idx
           /\ \A i \in 1..txn.idx : Done(K2, D, steps[i])
           /\ txn.idx < Len(steps) => TxnFor(K2, D, [steps |-> steps, idx |-> txn.idx + 1])
<1>0. PICK old \in Seq(Steps) : old = txn.steps
  BY DEF TxnFor, Txns
<1>1. PICK idx \in 1..Len(old) : old = txn.steps /\ idx = txn.idx
  BY <1>0 DEF TxnFor
<1>2. PICK step \in Steps, add \in Seq(Steps) : step = h.step /\ add = h.add
  BY DEF HandledWell
<1>3. /\ steps \in Seq(Steps) /\ Len(steps) = Len(old) + Len(add)
      /\ \A i \in 1..(idx - 1) : steps[i] = old[i]
      /\ steps[idx] = step
      /\ \A i \in (idx + 1)..Len(steps) :
            \/ \E j \in DOMAIN add : steps[i] = add[j]
            \/ \E j \in (idx + 1)..Len(old) : steps[i] = old[j]
  <2>1. steps = StepsWith(old, idx, step, add)
    BY <1>1, <1>2
  <2>2. old \in Seq(Steps) /\ idx \in 1..Len(old) /\ step \in Steps /\ add \in Seq(Steps)
    OBVIOUS
  <2>3. StepsAre(Steps, old, idx, step, add, steps)
    BY ONLY <2>1, <2>2, StepsAfter
  <2> QED
    BY ONLY <2>3 DEF StepsAre
<1>4. Len(old) \in Nat /\ Len(add) \in Nat /\ idx \in Nat /\ idx <= Len(old)
  OBVIOUS
<1>5. /\ step.cmd = old[idx].cmd /\ step.key = old[idx].key /\ Done(K2, D, step)
      /\ K2 = K \cup {old[idx].key}
      /\ \A i \in DOMAIN add : Todo(K2, D, add[i]) /\ add[i].cmd # "REQUEST_RELATED"
  BY <1>1, <1>2 DEF HandledWell
<1>6. /\ \A i \in 1..(idx - 1) : Done(K, D, old[i])
      /\ \A i \in idx..Len(old) : Todo(K, D, old[i])
      /\ \A i \in (idx + 1)..Len(old) : old[i].cmd = "REQUEST_RELATED" => old[i].pay.key \in K2
  <2>1. /\ \A i \in 1..(idx - 1) : Done(K, D, old[i])
        /\ \A i \in idx..Len(old) : Todo(K, D, old[i]) /\ Known(K, txn, i)
    BY ONLY TxnFor(K, D, txn), txn.steps[1].cmd # "VALIDATE_CREATE", <1>1 DEF TxnFor
  <2>2. ASSUME NEW i \in (idx + 1)..Len(old), old[i].cmd = "REQUEST_RELATED"
        PROVE  old[i].pay.key \in K2
    <3>1. i \in idx..Len(old)
      BY <1>4
    <3> QED
      BY <1>1, <1>5, <2>1, <2>2, <3>1 DEF Known
  <2> QED
    BY ONLY <2>1, <2>2
<1>7. /\ \A s : Done(K, D, s) => Done(K2, D, s)
      /\ \A s : Todo(K, D, s) => Todo(K2, D, s)
  <2>1. K \subseteq K2
    BY <1>5
  <2>2. \A key, copy : CopyFor(K, key, copy) => CopyFor(K2, key, copy)
    BY <2>1 DEF CopyFor
  <2>3. \A key, rel : RelFor(K, key, rel) => RelFor(K2, key, rel)
    BY <2>2 DEF RelFor
  <2> QED
    BY <2>1, <2>2, <2>3 DEF Done, Todo
<1>8. \A i \in 1..idx : Done(K2, D, steps[i])
  <2> TAKE i \in 1..idx
  <2>1. i = idx \/ i \in 1..(idx - 1)
    BY <1>4
  <2>2. CASE i = idx
    BY <1>3, <1>5, <2>2
  <2>3. CASE i \in 1..(idx - 1)
    BY <1>3, <1>6, <1>7, <2>3
  <2> QED
    BY <2>1, <2>2, <2>3
<1>9. ASSUME idx < Len(steps)
      PROVE  TxnFor(K2, D, [steps |-> steps, idx |-> idx + 1])
  <2>1. PICK t : t = [steps |-> steps, idx |-> idx + 1]
    OBVIOUS
  <2>2. t \in Txns /\ t.steps = steps /\ t.idx = idx + 1
    BY <1>3, <1>4, <2>1 DEF Txns
  <2>3. t.idx \in 1..Len(t.steps)
    BY <1>3, <1>4, <1>9, <2>2
  <2>4. t.steps[1].cmd # "VALIDATE_CREATE"
    <3>1. old[1].cmd # "VALIDATE_CREATE"
      BY <1>1
    <3>2. 1 = idx \/ 1 \in 1..(idx - 1)
      BY <1>4
    <3>3. steps[1].cmd = old[1].cmd
      BY <1>3, <1>5, <3>2
    <3> QED
      BY <2>2, <3>1, <3>3
  <2>5. \A i \in 1..(t.idx - 1) : Done(K2, D, t.steps[i])
    <3>1. t.idx - 1 = idx
      BY <1>4, <2>2
    <3> QED
      BY <1>8, <2>2, <3>1
  <2>6. \A i \in t.idx..Len(t.steps) :
           /\ Todo(K2, D, t.steps[i])
           /\ t.steps[i].cmd = "REQUEST_RELATED" => t.steps[i].pay.key \in K2
    <3> SUFFICES ASSUME NEW i \in (idx + 1)..Len(steps)
                 PROVE  /\ Todo(K2, D, steps[i])
                        /\ steps[i].cmd = "REQUEST_RELATED" => steps[i].pay.key \in K2
      BY <2>2
    <3>1. CASE \E j \in DOMAIN add : steps[i] = add[j]
      BY <1>5, <3>1
    <3>2. CASE \E j \in (idx + 1)..Len(old) : steps[i] = old[j]
      <4>1. PICK j \in (idx + 1)..Len(old) : steps[i] = old[j]
        BY <3>2
      <4>2. j \in idx..Len(old)
        BY <1>4
      <4> QED
        BY <1>6, <1>7, <4>1, <4>2
    <3> QED
      BY <1>3, <3>1, <3>2
  <2>7. TxnFor(K2, D, t)
    BY <2>2, <2>3, <2>4, <2>5, <2>6 DEF TxnFor, Known
  <2> QED
    BY <2>1, <2>7
<1>10. Len(steps) >= idx
  BY <1>3, <1>4
<1> QED
  BY <1>1, <1>3, <1>8, <1>9, <1>10

\* UPDATE_ASYNC: what is written is an instance with its copies.
LEMMA WriteWell ==
    ASSUME NEW K, NEW D, NEW st, DOMAIN st = K, MapFor(K, st), NEW s \in Steps,
           Done(K, D, s), Writes(s), NEW p
    PROVE  WriteFor(K, D, UpdateAsync(s, st, p))
<1>1. s.key \in D /\ s.inst \in Nat /\ s.off \in Nat
  BY DEF Done, Steps
<1>2. RelFor(K, s.key, GetRelated(st, s.key, p))
  BY EmptyRel DEF GetRelated, MapFor, RecFor
<1>3. PICK packed : packed = IF s.inst # NoInst THEN Packed(s.inst, GetRelated(st, s.key, p))
                             ELSE s.result
  OBVIOUS
<1>4. packed.inst \in Insts /\ RelFor(K, s.key, packed.rel)
  BY <1>1, <1>2, <1>3 DEF Packed, Done, NoInst, Insts
<1>5. UpdateAsync(s, st, p) = [key |-> s.key, inst |-> packed.inst, rel |-> packed.rel, off |-> s.off]
  BY <1>3 DEF UpdateAsync
<1> QED
  BY <1>1, <1>4, <1>5 DEF WriteFor

\* A message is taken from a queue or put into one.
LEMMA TakenFor ==
    ASSUME NEW K, NEW D, NEW q, QueueFor(K, D, q), q # <<>>
    PROVE  TxnFor(K, D, Head(q)) /\ QueueFor(K, D, Tail(q))
<1>1. q \in Seq(Txns) /\ Len(q) \in Nat /\ Len(q) # 0 /\ DOMAIN q = 1..Len(q)
  BY EmptySeq, LenProperties DEF QueueFor
<1>2. /\ Head(q) = q[1] /\ Tail(q) \in Seq(Txns) /\ Len(Tail(q)) = Len(q) - 1
      /\ \A i \in 1..Len(Tail(q)) : Tail(q)[i] = q[i + 1]
  BY <1>1, HeadTailProperties
<1>3. DOMAIN Tail(q) = 1..(Len(q) - 1)
  BY <1>2, LenProperties
<1> QED
  BY <1>1, <1>2, <1>3 DEF QueueFor

LEMMA PutFor ==
    ASSUME NEW K, NEW D, NEW q, QueueFor(K, D, q), NEW txn, TxnFor(K, D, txn)
    PROVE  QueueFor(K, D, Append(q, txn))
<1>1. q \in Seq(Txns) /\ txn \in Txns /\ Len(q) \in Nat /\ DOMAIN q = 1..Len(q)
  BY LenProperties DEF QueueFor, TxnFor
<1>2. /\ Append(q, txn) \in Seq(Txns) /\ Len(Append(q, txn)) = Len(q) + 1
      /\ \A i \in 1..Len(q) : Append(q, txn)[i] = q[i]
      /\ Append(q, txn)[Len(q) + 1] = txn
  BY <1>1, AppendProperties
<1>3. DOMAIN Append(q, txn) = 1..(Len(q) + 1)
  BY <1>2, LenProperties
<1> QED
  BY <1>1, <1>2, <1>3 DEF QueueFor

\* A message that a client or storage writes: its steps are all to be done.
LEMMA NewTxn ==
    ASSUME NEW K, NEW D, NEW steps \in Seq(Steps), steps # <<>>,
           \A i \in DOMAIN steps : Todo(K, D, steps[i]),
           \A i \in DOMAIN steps : steps[i].cmd = "REQUEST_RELATED" =>
               i # 1 /\ steps[1].cmd = "REFRESH_INSTANCE" /\ steps[1].key = steps[i].pay.key
    PROVE  TxnFor(K, D, [steps |-> steps, idx |-> 1])
<1>1. PICK t : t = [steps |-> steps, idx |-> 1]
  OBVIOUS
<1>2. t \in Txns /\ t.steps = steps /\ t.idx = 1
  BY <1>1 DEF Txns
<1>3. Len(steps) \in Nat /\ Len(steps) # 0 /\ DOMAIN steps = 1..Len(steps)
  BY EmptySeq, LenProperties
<1>4. 1 \in DOMAIN steps /\ steps[1].cmd # "VALIDATE_CREATE"
  BY <1>3 DEF Todo
<1>5. TxnFor(K, D, t)
  BY <1>2, <1>3, <1>4 DEF TxnFor, Known
<1> QED
  BY <1>1, <1>5

-----------------------------------------------------------------------------
(* The steps of the system. *)

\* The operations on the queues of the topics.
LEMMA LogSet ==
    ASSUME NEW K, NEW D, LogInv(K, D), NEW p \in RelParts, NEW q, QueueFor(K, D, q),
           log' = [log EXCEPT ![p] = q]
    PROVE  LogInv(K, D)'
BY DEF LogInv
LEMMA FlightSet ==
    ASSUME NEW K, NEW D, FlightInv(K, D), NEW pq \in RelParts \X RelParts,
           NEW q, QueueFor(K, D, q), flight' = [flight EXCEPT ![pq] = q]
    PROVE  FlightInv(K, D)'
BY DEF FlightInv

\* There are more instances.
LEMMA QueuesGrow ==
    ASSUME NEW K, NEW D, NEW K2, NEW D2, K \subseteq K2, D \subseteq D2
    PROVE  /\ LogInv(K, D) => LogInv(K2, D2)
           /\ FlightInv(K, D) => FlightInv(K2, D2)
BY MoreKeys DEF LogInv, FlightInv

LEMMA QueuesKept ==
    ASSUME NEW K, NEW D
    PROVE  /\ LogInv(K, D) /\ UNCHANGED log => LogInv(K, D)'
           /\ FlightInv(K, D) /\ UNCHANGED flight => FlightInv(K, D)'
           /\ StoreInv(K, D) /\ UNCHANGED <<store, db, writes>> => StoreInv(K, D)'
BY DEF LogInv, FlightInv, StoreInv

\* Putting a record for a key.
LEMMA MapPut ==
    ASSUME NEW K, NEW map, MapFor(K, map), NEW key, NEW rec, RecFor(K, key, rec),
           NEW new, new = Put(map, key, rec)
    PROVE  DOMAIN new = DOMAIN map \cup {key} /\ MapFor(K, new)
BY DEF Put, MapFor

\* What a consumer does with the message txn, whose current step is s.
Current(txn) == txn.steps[txn.idx]
Next1(steps, txn) == [steps |-> steps, idx |-> txn.idx + 1]
HandleDoes(p, txn, s, h, steps) ==
    /\ log[p] # <<>> /\ txn = Head(log[p]) /\ txn.steps[1].cmd # "VALIDATE_CREATE"
    /\ TxnFor(DOMAIN store, DOMAIN db, txn)
    /\ s = Current(txn) /\ s \in Steps /\ Todo(DOMAIN store, DOMAIN db, s)
    /\ h = Handled(s, next[p]) /\ HandledWell(DOMAIN store, DOMAIN db, s, h)
    /\ steps = StepsWith(txn.steps, txn.idx, h.step, h.add)
    /\ log' = [log EXCEPT ![p] = Tail(log[p])]
    /\ next' = [next EXCEPT ![p] = next[p] + 1]
    /\ store' = Put(store, s.key, h.rec)
    /\ LET to == <<p, PartOf[steps[txn.idx + 1].key]>>
       IN flight' = IF txn.idx < Len(steps)
                    THEN [flight EXCEPT ![to] = Append(flight[to], Next1(steps, txn))]
                    ELSE flight
    /\ writes' = IF txn.idx < Len(steps) THEN writes
                 ELSE writes \cup {UpdateAsync(steps[i], store', p) : i \in WriteSteps(steps)}
    /\ early' \subseteq early \cup (IF s.key \in Chars THEN {s.key} ELSE {})
    /\ UNCHANGED <<creates, db, born, asked>>

LEMMA HandleIs ==
    ASSUME Inv, NEW p \in RelParts, Handle(p)
    PROVE  \E txn, s, h, steps : HandleDoes(p, txn, s, h, steps)
<1>1. PICK K, D : K = DOMAIN store /\ D = DOMAIN db
  OBVIOUS
<1>2. LogInv(K, D) /\ FlightInv(K, D) /\ StoreInv(K, D) /\ CountInv
  BY <1>1 DEF Inv
<1>3. PICK txn : txn = Head(log[p])
  OBVIOUS
<1>4. /\ log[p] # <<>> /\ txn.steps[1].cmd # "VALIDATE_CREATE"
      /\ log' = [log EXCEPT ![p] = Tail(log[p])]
      /\ next' = [next EXCEPT ![p] = next[p] + 1]
      /\ UNCHANGED <<creates, db, born, asked>>
  BY <1>3 DEF Handle
<1>5. TxnFor(K, D, txn)
  BY <1>2, <1>3, <1>4, TakenFor DEF LogInv
<1>6. PICK s : s = txn.steps[txn.idx]
  OBVIOUS
<1>7. /\ s \in Steps /\ Todo(K, D, s) /\ Known(K, txn, txn.idx)
  BY <1>4, <1>5, <1>6 DEF TxnFor, Txns
<1>8. s.cmd = "REQUEST_RELATED" => s.pay.key \in K
  BY <1>6, <1>7 DEF Known
<1>9. PICK h : h = Handled(s, next[p])
  OBVIOUS
<1>10. HandledWell(K, D, s, h)
  <2>1. next[p] \in Nat
    BY <1>2 DEF CountInv
  <2> QED
    BY <1>1, <1>2, <1>7, <1>8, <1>9, <2>1, AllHandledWell
<1>11. PICK steps : steps = StepsWith(txn.steps, txn.idx, h.step, h.add)
  OBVIOUS
<1>12. PICK to : to = <<p, PartOf[steps[txn.idx + 1].key]>>
  OBVIOUS
<1>13. steps = SubSeq(txn.steps, 1, txn.idx - 1) \o <<h.step>> \o h.add
               \o SubSeq(txn.steps, txn.idx + 1, Len(txn.steps))
  BY <1>11 DEF StepsWith
<1>14. store' = Put(store, s.key, h.rec)
  BY ONLY Handle(p), <1>3, <1>6, <1>9 DEF Handle
<1>15. early' = early \/ (s.key \in Chars /\ early' = early \cup {s.key})
  BY ONLY Handle(p), <1>3, <1>6 DEF Handle
<1>16. flight' = IF txn.idx < Len(steps)
                 THEN [flight EXCEPT ![to] = Append(flight[to], Next1(steps, txn))]
                 ELSE flight
  BY ONLY Handle(p), <1>3, <1>6, <1>9, <1>12, <1>13 DEF Handle, Next1
<1>17. writes' = IF txn.idx < Len(steps) THEN writes
                 ELSE writes \cup {UpdateAsync(steps[i], store', p) : i \in WriteSteps(steps)}
  BY ONLY Handle(p), <1>3, <1>6, <1>9, <1>13, ZenonT(40) DEF Handle
<1>18. early' \subseteq early \cup (IF s.key \in Chars THEN {s.key} ELSE {})
  BY <1>15
<1>19. HandleDoes(p, txn, s, h, steps)
  BY ONLY <1>1, <1>3, <1>4, <1>5, <1>6, <1>7, <1>9, <1>10, <1>11, <1>12, <1>14, <1>16, <1>17,
     <1>18, Zenon DEF HandleDoes, Current
<1> QED
  BY <1>19

LEMMA HandleStep ==
    ASSUME Inv, NEW p \in RelParts, Handle(p) PROVE Inv'
<1>1. PICK K, D : K = DOMAIN store /\ D = DOMAIN db
  OBVIOUS
<1>2. LogInv(K, D) /\ FlightInv(K, D) /\ StoreInv(K, D) /\ CountInv
  BY <1>1 DEF Inv
<1>3. PICK txn, s, h, steps : HandleDoes(p, txn, s, h, steps)
  BY HandleIs
<1>4. /\ log[p] # <<>> /\ txn = Head(log[p]) /\ txn.steps[1].cmd # "VALIDATE_CREATE"
      /\ log' = [log EXCEPT ![p] = Tail(log[p])]
      /\ next' = [next EXCEPT ![p] = next[p] + 1]
      /\ UNCHANGED <<creates, db, asked>>
  BY <1>3 DEF HandleDoes
<1>5. s = txn.steps[txn.idx] /\ steps = StepsWith(txn.steps, txn.idx, h.step, h.add)
  BY <1>3 DEF HandleDoes, Current
<1>6. TxnFor(K, D, txn) /\ QueueFor(K, D, Tail(log[p]))
  BY <1>2, <1>4, TakenFor DEF LogInv
<1>7. s \in Steps /\ Todo(K, D, s)
  BY <1>1, <1>3 DEF HandleDoes
<1>8. HandledWell(K, D, s, h)
  BY <1>1, <1>3 DEF HandleDoes
<1>9. PICK K2 : K2 = K \cup {s.key}
  OBVIOUS
<1>10. /\ steps \in Seq(Steps) /\ Len(steps) >= txn.idx
       /\ \A i \in 1..txn.idx : Done(K2, D, steps[i])
       /\ txn.idx < Len(steps) => TxnFor(K2, D, [steps |-> steps, idx |-> txn.idx + 1])
  BY <1>4, <1>5, <1>6, <1>8, <1>9, CarriedOn
<1>11. PICK to : to = <<p, PartOf[steps[txn.idx + 1].key]>>
  OBVIOUS
<1>12. /\ store' = Put(store, s.key, h.rec)
        /\ early' \subseteq early \cup (IF s.key \in Chars THEN {s.key} ELSE {})
  BY <1>3 DEF HandleDoes
<1>13. flight' = IF txn.idx < Len(steps)
                 THEN [flight EXCEPT ![to] = Append(flight[to], Next1(steps, txn))]
                 ELSE flight
  BY ONLY <1>3, <1>11, Zenon DEF HandleDoes
<1>14. writes' = IF txn.idx < Len(steps) THEN writes
                 ELSE writes \cup {UpdateAsync(steps[i], store', p) : i \in WriteSteps(steps)}
  BY ONLY <1>3, Zenon DEF HandleDoes
<1>15. K \subseteq K2 /\ K2 \subseteq D /\ D \subseteq RelKeys /\ Player \in K
  BY <1>2, <1>7, <1>9 DEF StoreInv, Todo
<1>16. MapFor(K2, store) /\ MapFor(K2, db) /\ \A w \in writes : WriteFor(K2, D, w)
  BY <1>2, <1>15, MoreKeys DEF StoreInv, MapFor
<1>17. DOMAIN store' = K2 /\ MapFor(K2, store')
  <2>1. RecFor(K2, s.key, h.rec)
    BY <1>8, <1>9 DEF HandledWell
  <2>2. PICK new : new = store' /\ new = Put(store, s.key, h.rec)
    BY <1>12
  <2>3. DOMAIN new = DOMAIN store \cup {s.key} /\ MapFor(K2, new)
    BY <1>16, <2>1, <2>2, MapPut
  <2> QED
    BY <1>1, <1>9, <2>2, <2>3
<1>18. \A w \in writes' : WriteFor(K2, D, w)
  <2> SUFFICES ASSUME ~(txn.idx < Len(steps)), NEW i \in WriteSteps(steps)
               PROVE  WriteFor(K2, D, UpdateAsync(steps[i], store', p))
    BY <1>14, <1>16
  <2>1. i \in DOMAIN steps /\ Writes(steps[i])
    BY DEF WriteSteps
  <2>2. i \in 1..txn.idx /\ steps[i] \in Steps
    BY <1>6, <1>10, <2>1 DEF TxnFor, Txns
  <2>3. Done(K2, D, steps[i])
    BY <1>10, <2>2
  <2>4. PICK st : st = store'
    OBVIOUS
  <2>5. DOMAIN st = K2 /\ MapFor(K2, st)
    BY <1>17, <2>4
  <2> QED
    BY <2>1, <2>2, <2>3, <2>4, <2>5, WriteWell
<1>19. StoreInv(K2, D)'
  BY <1>4, <1>15, <1>16, <1>17, <1>18 DEF StoreInv
<1>20. LogInv(K2, D)'
  <2>1. LogInv(K2, D) /\ QueueFor(K2, D, Tail(log[p]))
    BY <1>2, <1>6, <1>15, QueuesGrow, MoreKeys
  <2>2. PICK q : q = Tail(log[p])
    OBVIOUS
  <2> QED
    BY <1>4, <2>1, <2>2, LogSet
<1>21. FlightInv(K2, D)'
  <2>1. FlightInv(K2, D)
    BY <1>2, <1>15, QueuesGrow
  <2>2. CASE txn.idx < Len(steps)
    <3>1. PICK t : t = Next1(steps, txn)
      OBVIOUS
    <3>2. TxnFor(K2, D, t)
      BY <1>10, <2>2, <3>1 DEF Next1
    <3>3. to \in RelParts \X RelParts
      <4>1. txn.idx + 1 \in 1..Len(steps)
        BY <1>6, <1>10, <2>2 DEF TxnFor, Txns
      <4>2. steps[txn.idx + 1].key \in RelKeys
        <5>1. PICK j \in 1..Len(steps) : j = txn.idx + 1
          BY <4>1
        <5>2. steps[j] \in Steps
          BY <1>10, ElementOfSeq
        <5> QED
          BY <5>1, <5>2 DEF Steps
      <4> QED
        BY <1>11, <4>2 DEF RelParts
    <3>4. PICK q : q = Append(flight[to], t)
      OBVIOUS
    <3>5. QueueFor(K2, D, q)
      BY <2>1, <3>2, <3>3, <3>4, PutFor DEF FlightInv
    <3>6. flight' = [flight EXCEPT ![to] = q]
      BY <1>13, <2>2, <3>1, <3>4
    <3> QED
      BY <2>1, <3>3, <3>5, <3>6, FlightSet
  <2>3. CASE ~(txn.idx < Len(steps))
    BY <1>13, <2>1, <2>3, QueuesKept
  <2> QED
    BY <2>2, <2>3
<1>22. CountInv'
  BY <1>2, <1>4, <1>12 DEF CountInv
<1>23. D = DOMAIN db'
  BY <1>1, <1>4
<1> QED
  BY <1>17, <1>19, <1>20, <1>21, <1>22, <1>23 DEF Inv

LEMMA DeliverStep ==
    ASSUME Inv, NEW p \in RelParts, NEW q \in RelParts, Deliver(p, q) PROVE Inv'
<1>1. PICK K, D : K = DOMAIN store /\ D = DOMAIN db
  OBVIOUS
<1>2. LogInv(K, D) /\ FlightInv(K, D) /\ StoreInv(K, D) /\ CountInv
  BY <1>1 DEF Inv
<1>3. PICK pq \in RelParts \X RelParts : pq = <<p, q>>
  OBVIOUS
<1>4. /\ flight[pq] # <<>>
      /\ log' = [log EXCEPT ![q] = Append(log[q], Head(flight[pq]))]
      /\ flight' = [flight EXCEPT ![pq] = Tail(flight[pq])]
      /\ UNCHANGED <<next, store, creates, writes, db, asked, early>>
  BY <1>3 DEF Deliver
<1>5. PICK txn, left, new : /\ txn = Head(flight[pq]) /\ left = Tail(flight[pq])
                            /\ new = Append(log[q], txn)
  OBVIOUS
<1>6. TxnFor(K, D, txn) /\ QueueFor(K, D, left)
  BY <1>2, <1>4, <1>5, TakenFor DEF FlightInv
<1>7. QueueFor(K, D, new)
  BY <1>2, <1>5, <1>6, PutFor DEF LogInv
<1>8. LogInv(K, D)'
  <2>1. log' = [log EXCEPT ![q] = new]
    BY <1>4, <1>5
  <2> QED
    BY <1>2, <1>7, <2>1, LogSet
<1>9. FlightInv(K, D)'
  <2>1. flight' = [flight EXCEPT ![pq] = left]
    BY <1>4, <1>5
  <2> QED
    BY <1>2, <1>6, <2>1, FlightSet
<1>10. StoreInv(K, D)' /\ CountInv'
  BY <1>2, <1>4, QueuesKept DEF CountInv
<1>11. K = DOMAIN store' /\ D = DOMAIN db'
  BY <1>1, <1>4
<1> QED
  BY <1>8, <1>9, <1>10, <1>11 DEF Inv

\* A message is appended to the topic of a partition, and nothing else counts.
LEMMA AppendStep ==
    ASSUME Inv, NEW p \in RelParts, NEW txn, TxnFor(DOMAIN store, DOMAIN db, txn),
           log' = [log EXCEPT ![p] = Append(log[p], txn)],
           UNCHANGED <<next, flight, store, creates, writes, db, early>>,
           asked' \in 0..MaxChanges
    PROVE  Inv'
<1>1. PICK K, D : K = DOMAIN store /\ D = DOMAIN db
  OBVIOUS
<1>2. LogInv(K, D) /\ FlightInv(K, D) /\ StoreInv(K, D) /\ CountInv /\ TxnFor(K, D, txn)
  BY <1>1 DEF Inv
<1>3. PICK q : q = Append(log[p], txn) /\ QueueFor(K, D, q)
  BY <1>2, PutFor DEF LogInv
<1>4. LogInv(K, D)'
  <2>1. log' = [log EXCEPT ![p] = q]
    BY <1>3
  <2> QED
    BY <1>2, <1>3, <2>1, LogSet
<1>5. FlightInv(K, D)' /\ StoreInv(K, D)' /\ CountInv'
  BY <1>2, QueuesKept DEF CountInv
<1>6. K = DOMAIN store' /\ D = DOMAIN db'
  BY <1>1
<1> QED
  BY <1>4, <1>5, <1>6 DEF Inv

LEMMA NoPayType == NoPay \in Copies
BY DEF NoPay, Copy, Copies, NoInst, RelKeys

LEMMA PartsType == \A k \in RelKeys : PartOf[k] \in RelParts
BY DEF RelParts

LEMMA AskCreateStep ==
    ASSUME Inv, NEW c \in Chars, AskCreate(c) PROVE Inv'
<1> DEFINE step == Step("VALIDATE_CREATE", c, NoPay)
<1>0. c \in RelKeys
  BY DEF RelKeys
<1>1. step \in Steps /\ step.cmd = "VALIDATE_CREATE" /\ step.key = c
  BY <1>0, StepType, NoPayType DEF Cmds
<1>2. PICK txn : txn = [steps |-> <<step>>, idx |-> 1]
  OBVIOUS
<1>3. /\ log' = [log EXCEPT ![PartOf[c]] = Append(log[PartOf[c]], txn)]
      /\ UNCHANGED <<next, flight, store, creates, writes, db, asked, early>>
  BY <1>2 DEF AskCreate
<1> HIDE DEF step
<1>4. <<step>> \in Seq(Steps) /\ Len(<<step>>) = 1 /\ <<step>>[1] = step
  BY <1>1
<1>5. txn \in Txns /\ txn.idx = 1 /\ Len(txn.steps) = 1 /\ txn.steps[1] = step
  BY <1>2, <1>4 DEF Txns
<1>6. TxnFor(DOMAIN store, DOMAIN db, txn)
  BY <1>1, <1>5 DEF TxnFor
<1>7. asked' \in 0..MaxChanges
  BY <1>3 DEF Inv, CountInv
<1>8. PartOf[c] \in RelParts
  BY <1>0, PartsType
<1> QED
  BY <1>3, <1>6, <1>7, <1>8, AppendStep

LEMMA AskStep ==
    ASSUME Inv, NEW req \in Requests, Ask(req) PROVE Inv'
<1> DEFINE steps == [i \in DOMAIN req |-> Step("Change", req[i], NoPay)]
<1>1. req \in Seq(RelKeys) /\ req # <<>> /\ Len(req) \in Nat /\ DOMAIN req = 1..Len(req)
  BY ChangesAssumption, LenProperties DEF RelKeys
<1>2. ASSUME NEW i \in DOMAIN req
      PROVE  /\ steps[i] \in Steps /\ steps[i].cmd = "Change" /\ steps[i].inst = NoInst
             /\ steps[i].key = req[i] /\ req[i] \in DOMAIN store
  <2>1. req[i] \in RelKeys
    BY <1>1, ElementOfSeq
  <2> QED
    BY <2>1, StepType, NoPayType DEF Cmds, Ask
<1>3. steps \in Seq(Steps) /\ DOMAIN steps = DOMAIN req
  BY <1>1, <1>2
<1>4. steps # <<>>
  <2>1. 1 \in DOMAIN req
    BY <1>1, EmptySeq
  <2> QED
    BY <1>3, <2>1
<1>5. PICK txn : txn = [steps |-> steps, idx |-> 1]
  OBVIOUS
<1>6. /\ log' = [log EXCEPT ![PartOf[req[1]]] = Append(log[PartOf[req[1]]], txn)]
      /\ asked < MaxChanges /\ asked' = asked + 1
      /\ UNCHANGED <<next, flight, store, creates, writes, db, early>>
  BY <1>5 DEF Ask
<1> HIDE DEF steps
<1>7. /\ \A i \in DOMAIN steps : Todo(DOMAIN store, DOMAIN db, steps[i])
      /\ \A i \in DOMAIN steps : steps[i].cmd # "REQUEST_RELATED"
  BY <1>2, <1>3 DEF Todo
<1>8. TxnFor(DOMAIN store, DOMAIN db, txn)
  BY <1>3, <1>4, <1>5, <1>7, NewTxn
<1>9. asked' \in 0..MaxChanges
  BY <1>6, MaxChangesAssumption DEF Inv, CountInv
<1>10. PartOf[req[1]] \in RelParts
  <2>1. 1 \in 1..Len(req)
    BY <1>1, EmptySeq
  <2>2. req[1] \in RelKeys
    BY <1>1, <2>1, ElementOfSeq
  <2> QED
    BY <2>2, PartsType
<1> QED
  BY <1>6, <1>8, <1>9, <1>10, AppendStep

LEMMA StoreStep ==
    ASSUME Inv, NEW w \in writes, Store(w) PROVE Inv'
<1>1. PICK K, D : K = DOMAIN store /\ D = DOMAIN db
  OBVIOUS
<1>2. LogInv(K, D) /\ FlightInv(K, D) /\ StoreInv(K, D) /\ CountInv
  BY <1>1 DEF Inv
<1>3. PICK rec : rec = [inst |-> w.inst, rel |-> w.rel, off |-> w.off]
  OBVIOUS
<1>4. /\ writes' = writes \ {w}
      /\ db' = IF w.off > db[w.key].off THEN [db EXCEPT ![w.key] = rec] ELSE db
      /\ UNCHANGED <<log, next, flight, store, creates, asked, early>>
  BY <1>3 DEF Store
<1>5. w.key \in D /\ RecFor(K, w.key, rec)
  BY <1>2, <1>3 DEF StoreInv, WriteFor, RecFor
<1>6. PICK new : new = db'
  OBVIOUS
<1>7. DOMAIN new = D /\ MapFor(K, new)
  <2>1. MapFor(K, db)
    BY <1>2 DEF StoreInv
  <2> QED
    BY <1>1, <1>4, <1>5, <1>6, <2>1 DEF MapFor
<1>8. StoreInv(K, D)'
  BY <1>2, <1>4, <1>6, <1>7 DEF StoreInv
<1>9. LogInv(K, D)' /\ FlightInv(K, D)' /\ CountInv'
  BY <1>2, <1>4, QueuesKept DEF CountInv
<1>10. K = DOMAIN store' /\ D = DOMAIN db'
  BY <1>1, <1>4, <1>6, <1>7
<1> QED
  BY <1>8, <1>9, <1>10 DEF Inv

LEMMA ValidateCreateStep ==
    ASSUME Inv, NEW p \in RelParts, ValidateCreate(p) PROVE Inv'
<1>1. PICK K, D : K = DOMAIN store /\ D = DOMAIN db
  OBVIOUS
<1>2. LogInv(K, D) /\ FlightInv(K, D) /\ StoreInv(K, D) /\ CountInv
  BY <1>1 DEF Inv
<1>3. PICK txn, left : txn = Head(log[p]) /\ left = Tail(log[p])
  OBVIOUS
<1>4. /\ log[p] # <<>> /\ txn.steps[1].cmd = "VALIDATE_CREATE"
      /\ creates' = creates \cup {[key |-> txn.steps[1].key, off |-> next[p]]}
      /\ log' = [log EXCEPT ![p] = left]
      /\ next' = [next EXCEPT ![p] = next[p] + 1]
      /\ UNCHANGED <<flight, store, writes, db, asked, early>>
  BY <1>3 DEF ValidateCreate
<1>5. TxnFor(K, D, txn) /\ QueueFor(K, D, left)
  BY <1>2, <1>3, <1>4, TakenFor DEF LogInv
<1>6. txn.steps[1].key \in Chars
  BY <1>4, <1>5 DEF TxnFor
<1>7. LogInv(K, D)'
  BY <1>2, <1>4, <1>5, LogSet
<1>8. CountInv'
  <2>1. next[p] \in Nat
    BY <1>2 DEF CountInv
  <2> QED
    BY <1>2, <1>4, <1>6, <2>1 DEF CountInv
<1>9. FlightInv(K, D)' /\ StoreInv(K, D)'
  BY <1>2, <1>4, QueuesKept
<1>10. K = DOMAIN store' /\ D = DOMAIN db'
  BY <1>1, <1>4
<1> QED
  BY <1>7, <1>8, <1>9, <1>10 DEF Inv

LEMMA CreateStep ==
    ASSUME Inv, NEW w \in creates, Create(w) PROVE Inv'
<1>1. PICK K, D : K = DOMAIN store /\ D = DOMAIN db
  OBVIOUS
<1>2. LogInv(K, D) /\ FlightInv(K, D) /\ StoreInv(K, D) /\ CountInv
  BY <1>1 DEF Inv
<1>3. w.key \in Chars /\ w.key \in RelKeys /\ w.off \in Nat
  BY <1>2 DEF CountInv, RelKeys
<1>4. PICK D2 : D2 = D \cup {w.key}
  OBVIOUS
<1> DEFINE a == Step("REFRESH_INSTANCE", w.key, Copy(w.key, 1))
           b == Step("REQUEST_RELATED", Player, Copy(w.key, 1))
           steps == <<a>> \o <<b>>
<1>5. PICK rec, txn : /\ rec = [inst |-> 1, rel |-> <<>>, off |-> w.off]
                      /\ txn = [steps |-> steps, idx |-> 1]
  OBVIOUS
<1>6. /\ creates' = creates \ {w}
      /\ db' = Put(db, w.key, rec)
      /\ log' = [log EXCEPT ![PartOf[w.key]] = Append(log[PartOf[w.key]], txn)]
      /\ UNCHANGED <<next, flight, store, writes, asked, early>>
  BY <1>3, <1>5 DEF Create, RequestRelatedSteps
<1>7. Copy(w.key, 1) \in Copies /\ Copy(w.key, 1).key = w.key /\ Copy(w.key, 1).inst = 1
  BY <1>3 DEF Copy, Copies
<1>8. /\ a \in Steps /\ a.cmd = "REFRESH_INSTANCE" /\ a.key = w.key /\ a.inst = NoInst
      /\ a.pay = Copy(w.key, 1)
  BY <1>3, <1>7, StepType DEF Cmds
<1>9. /\ b \in Steps /\ b.cmd = "REQUEST_RELATED" /\ b.key = Player /\ b.inst = NoInst
      /\ b.pay = Copy(w.key, 1)
  BY <1>7, StepType DEF Cmds, RelKeys
<1> HIDE DEF a, b
<1>10. /\ steps \in Seq(Steps) /\ Len(steps) = 2 /\ steps[1] = a /\ steps[2] = b
       /\ DOMAIN steps = 1..2 /\ steps # <<>>
  BY <1>8, <1>9
<1> HIDE DEF steps
<1>11. Player \in K /\ K \subseteq D2 /\ D2 \subseteq RelKeys /\ w.key \in D2 /\ D \subseteq D2
  BY <1>2, <1>3, <1>4 DEF StoreInv
<1>12. Todo(K, D2, a) /\ Todo(K, D2, b)
  BY <1>3, <1>7, <1>8, <1>9, <1>11 DEF Todo, Insts
<1>13. TxnFor(K, D2, txn)
  <2>1. /\ \A i \in DOMAIN steps : Todo(K, D2, steps[i])
        /\ \A i \in DOMAIN steps : steps[i].cmd = "REQUEST_RELATED" =>
              i # 1 /\ steps[1].cmd = "REFRESH_INSTANCE" /\ steps[1].key = steps[i].pay.key
    <3> SUFFICES ASSUME NEW i \in {1, 2}
                 PROVE  /\ Todo(K, D2, steps[i])
                        /\ steps[i].cmd = "REQUEST_RELATED" =>
                             i # 1 /\ steps[1].cmd = "REFRESH_INSTANCE" /\ steps[1].key = steps[i].pay.key
      BY <1>10
    <3>1. CASE i = 1
      BY <1>8, <1>10, <1>12, <3>1
    <3>2. CASE i = 2
      BY <1>7, <1>8, <1>9, <1>10, <1>12, <3>2
    <3> QED
      BY <3>1, <3>2
  <2> QED
    BY <1>5, <1>10, <2>1, NewTxn
<1>14. LogInv(K, D2) /\ FlightInv(K, D2)
  BY <1>2, <1>11, QueuesGrow
<1>15. LogInv(K, D2)'
  <2>1. PICK part \in RelParts : part = PartOf[w.key]
    BY <1>3, PartsType
  <2>2. PICK q : q = Append(log[part], txn) /\ QueueFor(K, D2, q)
    BY <1>13, <1>14, PutFor DEF LogInv
  <2>3. log' = [log EXCEPT ![part] = q]
    BY <1>6, <2>1, <2>2
  <2> QED
    BY <1>14, <2>2, <2>3, LogSet
<1>16. PICK new : new = db'
  OBVIOUS
<1>17. DOMAIN new = D2 /\ MapFor(K, new)
  <2>1. RecFor(K, w.key, rec)
    BY <1>3, <1>5, EmptyRel DEF RecFor, Insts
  <2>2. MapFor(K, db)
    BY <1>2 DEF StoreInv
  <2>3. PICK map : map = db /\ MapFor(K, map) /\ DOMAIN map = D
    BY <1>1, <2>2
  <2>4. PICK key : key = w.key /\ new = Put(map, key, rec) /\ RecFor(K, key, rec)
    BY <1>6, <1>16, <2>1, <2>3
  <2>5. DOMAIN new = DOMAIN map \cup {key} /\ MapFor(K, new)
    BY <2>3, <2>4 DEF Put, MapFor
  <2> QED
    BY <1>4, <2>3, <2>4, <2>5
<1>18. StoreInv(K, D2)'
  <2>1. MapFor(K, store) /\ \A v \in writes : WriteFor(K, D2, v)
    BY <1>2, <1>11, MoreKeys DEF StoreInv
  <2> QED
    BY <1>6, <1>11, <1>16, <1>17, <2>1 DEF StoreInv
<1>19. FlightInv(K, D2)' /\ CountInv'
  BY <1>2, <1>6, <1>14, QueuesKept DEF CountInv
<1>20. K = DOMAIN store' /\ D2 = DOMAIN db'
  BY <1>1, <1>6, <1>16, <1>17
<1> QED
  BY <1>15, <1>18, <1>19, <1>20 DEF Inv

LEMMA InitInv == Init => Inv
<1> SUFFICES ASSUME Init PROVE Inv
  OBVIOUS
<1>1. PICK K : K = {Player} /\ K = DOMAIN store /\ K = DOMAIN db
  BY DEF Init
<1>2. QueueFor(K, K, <<>>)
  <2>1. <<>> \in Seq(Txns) /\ DOMAIN <<>> = {}
    BY EmptySeq
  <2> QED
    BY <2>1 DEF QueueFor
<1>3. LogInv(K, K) /\ FlightInv(K, K)
  BY <1>2 DEF Init, LogInv, FlightInv
<1>4. CountInv
  BY MaxChangesAssumption DEF Init, CountInv
<1>5. RecFor(K, Player, [inst |-> 1, rel |-> <<>>, off |-> 0])
  BY EmptyRel DEF RecFor, Insts
<1>6. MapFor(K, store) /\ MapFor(K, db)
  BY <1>5 DEF Init, MapFor
<1>7. StoreInv(K, K)
  BY <1>1, <1>6 DEF Init, StoreInv, RelKeys
<1> QED
  BY <1>1, <1>3, <1>4, <1>7 DEF Inv

LEMMA Invariant == Spec => []Inv
<1>1. Inv /\ [Next]_vars => Inv'
  <2> SUFFICES ASSUME Inv, [Next]_vars PROVE Inv'
    OBVIOUS
  <2>1. CASE UNCHANGED vars
    BY <2>1 DEF vars, Inv, LogInv, FlightInv, StoreInv, CountInv
  <2> QED
    BY <2>1, HandleStep, DeliverStep, StoreStep, ValidateCreateStep, CreateStep,
       AskCreateStep, AskStep DEF Next
<1> QED
  BY <1>1, InitInv, PTL DEF Spec

\* What memory and storage hold for a key is an instance with copies of the right
\* keys, one of each, and what is on its way to storage likewise, whatever
\* creations, changes and refreshes come between each other: every step finds
\* its instance in memory (UpsertRelated, HandleLogicCommand, produceNextStep).
THEOREM TypeCorrect == Spec => []TypeOK
<1>1. Inv => TypeOK
  BY DEF Inv, StoreInv, CountInv, MapFor, RecFor, WriteFor, RelFor, Insts, TypeOK
<1> QED
  BY <1>1, Invariant, PTL

-----------------------------------------------------------------------------
(* What is in memory gets to storage. *)

\* The changes of a transaction are all in one partition.
SamePartition ==
    \A req \in Requests : \A i, j \in DOMAIN req : PartOf[req[i]] = PartOf[req[j]]

\* The messages that are still to be read.
Of(q) == {q[i] : i \in DOMAIN q}
Waiting == (UNION {Of(log[p]) : p \in RelParts})
           \cup (UNION {Of(flight[pq]) : pq \in RelParts \X RelParts})

\* A transaction that changes instances ends in their partition, where its
\* consumer has their related data.
Local(steps) ==
    \A i \in 1..Len(steps) : steps[i].cmd = "Change" =>
        LET last == steps[Len(steps)]
        IN last.cmd \in {"Change", "READ"} /\ PartOf[last.key] = PartOf[steps[i].key]
Fits(txn) ==
    /\ txn.steps[1].cmd = "VALIDATE_CREATE" => txn.idx = 1
    /\ \A i \in txn.idx..Len(txn.steps) : txn.steps[i].cmd = "REFRESH_INSTANCE" =>
          i = 1 /\ txn.steps[i].key \in Chars /\ txn.steps[i].pay.inst = 1
    /\ Local(txn.steps)
FitsInv == \A txn \in Waiting : Fits(txn)

\* A message is where the key of its current step is.
HereInv ==
    /\ \A p \in RelParts : \A txn \in Of(log[p]) : PartOf[Current(txn).key] = p
    /\ \A pq \in RelParts \X RelParts : \A txn \in Of(flight[pq]) :
          PartOf[Current(txn).key] = pq[2] /\ txn.idx > 1

\* A character is created once: at most one message or CREATE step is about
\* that, and then the character is not in memory yet.
IsNew(txn, c) ==
    /\ txn.idx = 1 /\ txn.steps[1].cmd \in {"VALIDATE_CREATE", "REFRESH_INSTANCE"}
    /\ txn.steps[1].key = c
HasNew(q, c) == \E i \in DOMAIN q : IsNew(q[i], c)
OneNew(q, c) == \A i, j \in DOMAIN q : IsNew(q[i], c) /\ IsNew(q[j], c) => i = j
InCreates(c) == \E w \in creates : w.key = c
NewFor(c) ==
    /\ OneNew(log[PartOf[c]], c)
    /\ HasNew(log[PartOf[c]], c) => ~InCreates(c)
    /\ \A w, v \in creates : w.key = c /\ v.key = c => w = v
    /\ HasNew(log[PartOf[c]], c) \/ InCreates(c) => c \in born /\ c \notin DOMAIN store
    /\ c \in DOMAIN store => c \in born
NewInv == \A c \in Chars : NewFor(c)

\* What a step or a row has of an instance is not ahead of the memory st, and is
\* what st has when their offsets are equal.
Latest(step, rec) ==
    IF step.inst # NoInst THEN step.inst = rec.inst
    ELSE step.result.inst = rec.inst /\ step.result.rel = rec.rel
StepBehind(st, step) ==
    /\ step.key \in DOMAIN st
    /\ step.inst # NoInst => step.cmd = "Change"
    /\ step.off <= st[step.key].off
    /\ step.off = st[step.key].off => Latest(step, st[step.key])
RowBehind(st, key, row) ==
    /\ row.off <= st[key].off
    /\ row.off = st[key].off => row.inst = st[key].inst /\ row.rel = st[key].rel
Behind(st, txn) ==
    \A i \in 1..(txn.idx - 1) : Writes(txn.steps[i]) => StepBehind(st, txn.steps[i])
RowsInv ==
    /\ \A k \in DOMAIN store : store[k].off < next[PartOf[k]] /\ RowBehind(store, k, db[k])
    /\ \A k \in DOMAIN db \ DOMAIN store :
          db[k].inst = 1 /\ db[k].rel = <<>> /\ db[k].off < next[PartOf[k]]
    /\ \A w \in creates : w.off < next[PartOf[w.key]]
    /\ \A w \in writes : w.key \in DOMAIN store /\ RowBehind(store, w.key, w)
BehindInv == \A txn \in Waiting : Behind(store, txn)

\* What is in memory is in storage or on its way there.
WritesKey(step, k) == Writes(step) /\ step.key = k
OnWay(txn, k, off) ==
    \E i \in 1..(txn.idx - 1) :
        /\ WritesKey(txn.steps[i], k) /\ txn.steps[i].off = off
        /\ \A j \in (i + 1)..(txn.idx - 1) : ~WritesKey(txn.steps[j], k)
Untouched(k) ==
    /\ \A w \in writes : w.key # k
    /\ \A txn \in Waiting : \A i \in 1..(txn.idx - 1) : ~WritesKey(txn.steps[i], k)
Carried(k) ==
    \/ /\ db[k].inst = store[k].inst /\ db[k].rel = store[k].rel
       /\ db[k].off = store[k].off \/ Untouched(k)
    \/ \E w \in writes : w.key = k /\ w.off = store[k].off
    \/ \E txn \in Waiting : OnWay(txn, k, store[k].off)
CarriedInv == \A k \in DOMAIN store : Carried(k)

StoredInv == FitsInv /\ HereInv /\ NewInv /\ RowsInv /\ BehindInv /\ CarriedInv

LEMMA QueuesOf ==
    ASSUME Inv
    PROVE  /\ \A p \in RelParts : log[p] \in Seq(Txns)
           /\ \A pq \in RelParts \X RelParts : flight[pq] \in Seq(Txns)
           /\ \A k \in DOMAIN store : RecFor(DOMAIN store, k, store[k])
           /\ \A k \in DOMAIN db : RecFor(DOMAIN store, k, db[k])
           /\ DOMAIN store \subseteq DOMAIN db /\ DOMAIN db \subseteq RelKeys
           /\ \A p \in RelParts : next[p] \in Nat
BY DEF Inv, LogInv, FlightInv, StoreInv, CountInv, QueueFor, MapFor

LEMMA WaitingIs ==
    ASSUME NEW txn
    PROVE  /\ txn \in Waiting <=>
                \/ \E p \in RelParts : txn \in Of(log[p])
                \/ \E pq \in RelParts \X RelParts : txn \in Of(flight[pq])
           /\ txn \in Waiting' <=>
                \/ \E p \in RelParts : txn \in Of(log'[p])
                \/ \E pq \in RelParts \X RelParts : txn \in Of(flight'[pq])
<1>1. txn \in Waiting <=>
        \/ \E p \in RelParts : txn \in Of(log[p])
        \/ \E pq \in RelParts \X RelParts : txn \in Of(flight[pq])
  BY Zenon DEF Waiting
<1>2. txn \in Waiting' <=>
        \/ \E p \in RelParts : txn \in Of(log'[p])
        \/ \E pq \in RelParts \X RelParts : txn \in Of(flight'[pq])
  BY Zenon DEF Waiting
<1> QED
  BY <1>1, <1>2

\* A message that waits is one.
LEMMA WaitingFor ==
    ASSUME Inv, NEW txn \in Waiting
    PROVE  TxnFor(DOMAIN store, DOMAIN db, txn)
<1>1. /\ \A p \in RelParts : QueueFor(DOMAIN store, DOMAIN db, log[p])
      /\ \A pq \in RelParts \X RelParts : QueueFor(DOMAIN store, DOMAIN db, flight[pq])
  BY DEF Inv, LogInv, FlightInv
<1>2. \A q : QueueFor(DOMAIN store, DOMAIN db, q) => \A y \in Of(q) : TxnFor(DOMAIN store, DOMAIN db, y)
  BY DEF QueueFor, Of
<1> QED
  BY <1>1, <1>2, WaitingIs

\* The head of a queue is taken.
LEMMA OfTail ==
    ASSUME NEW q \in Seq(Txns), q # <<>>
    PROVE  /\ Head(q) \in Of(q)
           /\ Of(Tail(q)) \subseteq Of(q)
           /\ Of(q) \subseteq Of(Tail(q)) \cup {Head(q)}
           /\ \A c : /\ HasNew(Tail(q), c) => HasNew(q, c)
                     /\ OneNew(q, c) => OneNew(Tail(q), c)
                     /\ IsNew(Head(q), c) => HasNew(q, c)
                     /\ OneNew(q, c) /\ IsNew(Head(q), c) => ~HasNew(Tail(q), c)
<1> DEFINE t == Tail(q)
           n == Len(q)
<1>1. n \in Nat /\ n # 0 /\ DOMAIN q = 1..n /\ Head(q) = q[1]
  BY EmptySeq, LenProperties
<1>2. t \in Seq(Txns) /\ Len(t) = n - 1 /\ \A i \in 1..(n - 1) : t[i] = q[i + 1]
  BY <1>1, HeadTailProperties
<1>3. DOMAIN t = 1..(n - 1)
  BY <1>2, LenProperties
<1> HIDE DEF t, n
<1>4. \A i \in DOMAIN t : i + 1 \in DOMAIN q /\ i + 1 # 1 /\ t[i] = q[i + 1]
  BY <1>1, <1>2, <1>3
<1>5. \A i \in DOMAIN q : i # 1 => i - 1 \in DOMAIN t /\ t[i - 1] = q[i]
  <2> TAKE i \in DOMAIN q
  <2> HAVE i # 1
  <2>1. i - 1 \in 1..(n - 1) /\ (i - 1) + 1 = i
    BY <1>1
  <2> QED
    BY <1>2, <1>3, <2>1
<1>6. 1 \in DOMAIN q
  BY <1>1
<1>7. Head(q) \in Of(q) /\ Of(t) \subseteq Of(q) /\ Of(q) \subseteq Of(t) \cup {Head(q)}
  <2>1. Head(q) \in Of(q)
    BY <1>1, <1>6 DEF Of
  <2>2. Of(t) \subseteq Of(q)
    BY <1>4 DEF Of
  <2>3. Of(q) \subseteq Of(t) \cup {Head(q)}
    BY <1>1, <1>5 DEF Of
  <2> QED
    BY <2>1, <2>2, <2>3
<1>8. ASSUME NEW c
      PROVE  /\ HasNew(t, c) => HasNew(q, c)
             /\ OneNew(q, c) => OneNew(t, c)
             /\ IsNew(Head(q), c) => HasNew(q, c)
             /\ OneNew(q, c) /\ IsNew(Head(q), c) => ~HasNew(t, c)
  <2>1. HasNew(t, c) => HasNew(q, c)
    BY <1>4 DEF HasNew
  <2>2. OneNew(q, c) => OneNew(t, c)
    <3> SUFFICES ASSUME OneNew(q, c), NEW i \in DOMAIN t, NEW j \in DOMAIN t,
                        IsNew(t[i], c), IsNew(t[j], c)
                 PROVE  i = j
      BY DEF OneNew
    <3>1. i + 1 = j + 1
      BY <1>4 DEF OneNew
    <3> QED
      BY <1>3, <3>1
  <2>3. IsNew(Head(q), c) => HasNew(q, c)
    BY <1>1, <1>6 DEF HasNew
  <2>4. OneNew(q, c) /\ IsNew(Head(q), c) => ~HasNew(t, c)
    BY <1>1, <1>4, <1>6 DEF OneNew, HasNew
  <2> QED
    BY <2>1, <2>2, <2>3, <2>4
<1> QED
  BY <1>7, <1>8 DEF t

\* A message is put into a queue.
LEMMA OfAppend ==
    ASSUME NEW q \in Seq(Txns), NEW txn \in Txns
    PROVE  /\ Of(Append(q, txn)) = Of(q) \cup {txn}
           /\ \A c : /\ HasNew(Append(q, txn), c) <=> HasNew(q, c) \/ IsNew(txn, c)
                     /\ OneNew(q, c) /\ (IsNew(txn, c) => ~HasNew(q, c)) =>
                          OneNew(Append(q, txn), c)
<1> DEFINE a == Append(q, txn)
           n == Len(q)
<1>1. /\ n \in Nat /\ DOMAIN q = 1..n
      /\ a \in Seq(Txns) /\ Len(a) = n + 1
      /\ \A i \in 1..n : a[i] = q[i]
      /\ a[n + 1] = txn
  BY LenProperties, AppendProperties
<1>2. DOMAIN a = 1..(n + 1)
  BY <1>1, LenProperties
<1> HIDE DEF a, n
<1>3. /\ n + 1 \in DOMAIN a /\ \A i \in DOMAIN q : i \in DOMAIN a /\ a[i] = q[i]
      /\ \A i \in DOMAIN a : i = n + 1 \/ (i \in DOMAIN q /\ a[i] = q[i])
  BY <1>1, <1>2
<1>4. Of(a) = Of(q) \cup {txn}
  BY <1>1, <1>3 DEF Of
<1>5. ASSUME NEW c
      PROVE  /\ HasNew(a, c) <=> HasNew(q, c) \/ IsNew(txn, c)
             /\ OneNew(q, c) /\ (IsNew(txn, c) => ~HasNew(q, c)) => OneNew(a, c)
  <2>1. HasNew(a, c) <=> HasNew(q, c) \/ IsNew(txn, c)
    BY <1>1, <1>3 DEF HasNew
  <2>2. OneNew(q, c) /\ (IsNew(txn, c) => ~HasNew(q, c)) => OneNew(a, c)
    BY <1>1, <1>3 DEF OneNew, HasNew
  <2> QED
    BY <2>1, <2>2
<1> QED
  BY <1>4, <1>5 DEF a

\* A message is put into the topic of a partition, or taken from it.
LogGains(p, txn) ==
    /\ \A r \in RelParts : Of(log'[r]) = IF r = p THEN Of(log[p]) \cup {txn} ELSE Of(log[r])
    /\ \A r \in RelParts, c \in Chars :
          /\ HasNew(log'[r], c) => HasNew(log[r], c) \/ (r = p /\ IsNew(txn, c))
          /\ OneNew(log[r], c) /\ (IsNew(txn, c) => ~HasNew(log[r], c)) => OneNew(log'[r], c)
LogLoses(p, txn) ==
    /\ txn = Head(log[p]) /\ txn \in Of(log[p]) /\ txn \in Waiting
    /\ \A r \in RelParts : Of(log'[r]) \subseteq Of(log[r])
    /\ \A r \in RelParts : Of(log[r]) \subseteq Of(log'[r]) \cup {txn}
    /\ \A r \in RelParts, c \in Chars :
          /\ HasNew(log'[r], c) => HasNew(log[r], c)
          /\ OneNew(log[r], c) => OneNew(log'[r], c)
          /\ r = p /\ IsNew(txn, c) =>
                HasNew(log[r], c) /\ (OneNew(log[r], c) => ~HasNew(log'[r], c))

LEMMA LogPut ==
    ASSUME Inv, NEW p \in RelParts, NEW txn \in Txns,
           log' = [log EXCEPT ![p] = Append(log[p], txn)]
    PROVE  LogGains(p, txn)
<1>1. log = [r \in RelParts |-> log[r]] /\ \A r \in RelParts : log[r] \in Seq(Txns)
  BY QueuesOf DEF Inv, LogInv
<1>2. PICK new : new = Append(log[p], txn)
  OBVIOUS
<1>3. \A r \in RelParts : log'[r] = IF r = p THEN new ELSE log[r]
  BY <1>1, <1>2
<1>4. /\ Of(new) = Of(log[p]) \cup {txn}
      /\ \A c : /\ HasNew(new, c) <=> HasNew(log[p], c) \/ IsNew(txn, c)
                /\ OneNew(log[p], c) /\ (IsNew(txn, c) => ~HasNew(log[p], c)) =>
                     OneNew(new, c)
  BY <1>1, <1>2, OfAppend
<1>5. ASSUME NEW r \in RelParts
      PROVE  /\ Of(log'[r]) = IF r = p THEN Of(log[p]) \cup {txn} ELSE Of(log[r])
             /\ \A c \in Chars :
                  /\ HasNew(log'[r], c) => HasNew(log[r], c) \/ (r = p /\ IsNew(txn, c))
                  /\ OneNew(log[r], c) /\ (IsNew(txn, c) => ~HasNew(log[r], c)) => OneNew(log'[r], c)
  <2>1. CASE r = p
    <3>1. log'[r] = new /\ log[r] = log[p]
      BY <1>3, <2>1
    <3> QED
      BY <1>4, <2>1, <3>1
  <2>2. CASE r # p
    <3>1. log'[r] = log[r]
      BY <1>3, <2>2
    <3> QED
      BY <2>2, <3>1
  <2> QED
    BY <2>1, <2>2
<1> QED
  BY <1>5 DEF LogGains

LEMMA LogTake ==
    ASSUME Inv, NEW p \in RelParts, log[p] # <<>>, log' = [log EXCEPT ![p] = Tail(log[p])]
    PROVE  LogLoses(p, Head(log[p]))
<1>1. log = [r \in RelParts |-> log[r]] /\ \A r \in RelParts : log[r] \in Seq(Txns)
  BY QueuesOf DEF Inv, LogInv
<1>2. PICK new : new = Tail(log[p])
  OBVIOUS
<1>3. \A r \in RelParts : log'[r] = IF r = p THEN new ELSE log[r]
  BY <1>1, <1>2
<1>4. PICK txn : txn = Head(log[p])
  OBVIOUS
<1>5. /\ txn \in Of(log[p])
      /\ Of(new) \subseteq Of(log[p])
      /\ Of(log[p]) \subseteq Of(new) \cup {txn}
      /\ \A c : /\ HasNew(new, c) => HasNew(log[p], c)
                /\ OneNew(log[p], c) => OneNew(new, c)
                /\ IsNew(txn, c) => HasNew(log[p], c)
                /\ OneNew(log[p], c) /\ IsNew(txn, c) => ~HasNew(new, c)
  BY <1>1, <1>2, <1>4, OfTail
<1>6. txn \in Waiting
  BY <1>5, WaitingIs
<1> QED
  BY <1>3, <1>4, <1>5, <1>6 DEF LogLoses

\* The same for what a producer has.
LEMMA FlightPut ==
    ASSUME Inv, NEW to \in RelParts \X RelParts, NEW txn \in Txns,
           flight' = [flight EXCEPT ![to] = Append(flight[to], txn)]
    PROVE  \A pq \in RelParts \X RelParts :
              Of(flight'[pq]) = IF pq = to THEN Of(flight[to]) \cup {txn} ELSE Of(flight[pq])
<1>1. /\ flight = [pq \in RelParts \X RelParts |-> flight[pq]]
      /\ \A pq \in RelParts \X RelParts : flight[pq] \in Seq(Txns)
  BY QueuesOf DEF Inv, FlightInv
<1>2. PICK new : new = Append(flight[to], txn)
  OBVIOUS
<1>3. \A pq \in RelParts \X RelParts : flight'[pq] = IF pq = to THEN new ELSE flight[pq]
  BY <1>1, <1>2
<1>4. Of(new) = Of(flight[to]) \cup {txn}
  BY <1>1, <1>2, OfAppend
<1> TAKE pq \in RelParts \X RelParts
<1>5. CASE pq = to
  BY <1>3, <1>4, <1>5
<1>6. CASE pq # to
  BY <1>3, <1>6
<1> QED
  BY <1>5, <1>6

LEMMA FlightTake ==
    ASSUME Inv, NEW from \in RelParts \X RelParts, flight[from] # <<>>,
           flight' = [flight EXCEPT ![from] = Tail(flight[from])]
    PROVE  /\ Head(flight[from]) \in Of(flight[from])
           /\ \A pq \in RelParts \X RelParts : Of(flight'[pq]) \subseteq Of(flight[pq])
           /\ \A pq \in RelParts \X RelParts :
                 Of(flight[pq]) \subseteq Of(flight'[pq]) \cup {Head(flight[from])}
<1>1. /\ flight = [pq \in RelParts \X RelParts |-> flight[pq]]
      /\ \A pq \in RelParts \X RelParts : flight[pq] \in Seq(Txns)
  BY QueuesOf DEF Inv, FlightInv
<1>2. PICK new : new = Tail(flight[from])
  OBVIOUS
<1>3. \A pq \in RelParts \X RelParts : flight'[pq] = IF pq = from THEN new ELSE flight[pq]
  BY <1>1, <1>2
<1>4. /\ Head(flight[from]) \in Of(flight[from])
      /\ Of(new) \subseteq Of(flight[from])
      /\ Of(flight[from]) \subseteq Of(new) \cup {Head(flight[from])}
  BY <1>1, <1>2, OfTail
<1> QED
  BY <1>3, <1>4

\* What waits changes accordingly.
LEMMA WaitingPut ==
    ASSUME Inv, NEW p \in RelParts, NEW txn, LogGains(p, txn), UNCHANGED flight
    PROVE  Waiting' = Waiting \cup {txn}
<1>1. \A x : x \in Waiting' <=> x \in Waiting \/ x = txn
  BY WaitingIs DEF LogGains
<1> QED
  BY <1>1

LEMMA WaitingTake ==
    ASSUME Inv, NEW p \in RelParts, NEW txn, LogLoses(p, txn), UNCHANGED flight
    PROVE  Waiting' \subseteq Waiting /\ Waiting \subseteq Waiting' \cup {txn}
<1>1. \A x : x \in Waiting' => x \in Waiting
  BY WaitingIs DEF LogLoses
<1>2. \A x : x \in Waiting => x \in Waiting' \/ x = txn
  BY WaitingIs DEF LogLoses
<1> QED
  BY <1>1, <1>2

LEMMA WaitingMove ==
    ASSUME Inv, NEW p \in RelParts, NEW txn, LogLoses(p, txn),
           NEW to \in RelParts \X RelParts, NEW y,
           \A pq \in RelParts \X RelParts :
              Of(flight'[pq]) = IF pq = to THEN Of(flight[to]) \cup {y} ELSE Of(flight[pq])
    PROVE  /\ Waiting' \subseteq Waiting \cup {y} /\ Waiting \subseteq Waiting' \cup {txn}
           /\ y \in Waiting'
<1>1. \A x : x \in Waiting' => x \in Waiting \/ x = y
  BY WaitingIs DEF LogLoses
<1>2. \A x : x \in Waiting => x \in Waiting' \/ x = txn
  BY WaitingIs DEF LogLoses
<1>3. y \in Waiting'
  BY WaitingIs
<1> QED
  BY <1>1, <1>2, <1>3

LEMMA WaitingCarried ==
    ASSUME Inv, NEW p \in RelParts, NEW txn, LogGains(p, txn),
           NEW from \in RelParts \X RelParts, txn \in Of(flight[from]),
           \A pq \in RelParts \X RelParts : Of(flight'[pq]) \subseteq Of(flight[pq]),
           \A pq \in RelParts \X RelParts : Of(flight[pq]) \subseteq Of(flight'[pq]) \cup {txn}
    PROVE  Waiting' = Waiting
<1>1. \A x : x \in Waiting' => x \in Waiting
  BY WaitingIs DEF LogGains
<1>2. \A x : x \in Waiting => x \in Waiting'
  BY WaitingIs DEF LogGains
<1> QED
  BY <1>1, <1>2

-----------------------------------------------------------------------------
\* What a handler makes of a step at an offset: the record that it finds is kept
\* (READ), made (REFRESH_INSTANCE) or replaced, and the step has what the record
\* has then.
HandledHow(st, s, off, h) ==
    /\ h.step.off = off
    /\ \A i \in DOMAIN h.add : h.add[i].cmd \in {"REFRESH_RELATED", "READ"}
    /\ \/ /\ s.cmd = "READ" /\ s.key \in DOMAIN st /\ h.rec = st[s.key]
          /\ ~Writes(h.step) /\ h.add = <<>>
       \/ /\ s.cmd = "REFRESH_INSTANCE" /\ ~Writes(h.step) /\ h.add = <<>>
          /\ h.rec.inst = s.pay.inst /\ h.rec.rel = <<>> /\ h.rec.off = off
       \/ /\ s.cmd \in {"REQUEST_RELATED", "REFRESH_RELATED", "Change"}
          /\ s.key \in DOMAIN st /\ h.rec.off = off
          /\ Writes(h.step) /\ Latest(h.step, h.rec)
          /\ h.step.inst # NoInst => s.cmd = "Change"
          /\ s.cmd = "Change" /\ h.add # <<>> =>
                h.add[Len(h.add)].cmd = "READ" /\ h.add[Len(h.add)].key = s.key

\* Only a change adds steps that are followed by a READ.
LEMMA RefreshStepsLast ==
    ASSUME NEW key \in RelKeys, NEW inst, NEW rel \in Seq(Copies),
           NEW add, add = RefreshRelatedSteps(key, inst, rel)
    PROVE  /\ \A i \in DOMAIN add : add[i].cmd \in {"REFRESH_RELATED", "READ"}
           /\ add # <<>> => add[Len(add)].cmd = "READ" /\ add[Len(add)].key = key
<1> DEFINE refresh == [i \in DOMAIN rel |->
                          Step("REFRESH_RELATED", rel[i].key, Copy(key, inst))]
           read == Step("READ", key, NoPay)
<1>1. \A i \in DOMAIN refresh : refresh[i].cmd = "REFRESH_RELATED"
  BY DEF Step
<1>2. read.cmd = "READ" /\ read.key = key
  BY DEF Step
<1>3. \E S : refresh \in Seq(S) /\ read \in S
  <2>1. PICK S : S = {refresh[i] : i \in DOMAIN rel} \cup {read}
    OBVIOUS
  <2>2. Len(rel) \in Nat /\ DOMAIN rel = 1..Len(rel) /\ refresh \in [DOMAIN rel -> S] /\ read \in S
    BY <2>1, LenProperties
  <2> HIDE DEF refresh
  <2> QED
    BY <2>2, SeqDef
<1>4. add = IF refresh = <<>> THEN <<>> ELSE Append(refresh, read)
  BY DEF RefreshRelatedSteps
<1> HIDE DEF refresh, read
<1>5. PICK S : refresh \in Seq(S) /\ read \in S
  BY <1>3
<1>6. CASE refresh = <<>>
  BY <1>4, <1>6, EmptySeq
<1>7. CASE refresh # <<>>
  <2>1. add = Append(refresh, read)
    BY <1>4, <1>7
  <2>2. /\ Len(refresh) \in Nat /\ DOMAIN refresh = 1..Len(refresh)
        /\ add \in Seq(S) /\ Len(add) = Len(refresh) + 1 /\ add[Len(refresh) + 1] = read
        /\ \A i \in 1..Len(refresh) : add[i] = refresh[i]
    BY <1>5, <2>1, LenProperties, AppendProperties
  <2>3. DOMAIN add = 1..(Len(refresh) + 1)
    BY <2>2, LenProperties
  <2>4. \A i \in DOMAIN add : i \in DOMAIN refresh \/ i = Len(refresh) + 1
    BY <2>2, <2>3
  <2> QED
    BY <1>1, <1>2, <2>2, <2>4
<1> QED
  BY <1>6, <1>7

\* The record of a key when a write is newer.
LEMMA SetNewer ==
    ASSUME NEW K, NEW key, NEW rec, RecFor(K, key, rec), NEW off \in Nat, off > rec.off,
           NEW rel, NEW inst
    PROVE  /\ SetRelated(rec, rel, off) = [inst |-> rec.inst, rel |-> rel, off |-> off]
           /\ SetInstance(rec, inst, off) = [inst |-> inst, rel |-> rec.rel, off |-> off]
<1>1. rec = [inst |-> rec.inst, rel |-> rec.rel, off |-> rec.off]
  BY DEF RecFor
<1>2. PICK i, r, o : rec = [inst |-> i, rel |-> r, off |-> o]
  BY <1>1
<1>3. [rec EXCEPT !.rel = rel, !.off = off] = [inst |-> rec.inst, rel |-> rel, off |-> off]
  <2> DEFINE a == [rec EXCEPT !.rel = rel]
  <2>1. a = [inst |-> rec.inst, rel |-> rel, off |-> rec.off]
    BY <1>2
  <2> HIDE DEF a
  <2>2. [a EXCEPT !.off = off] = [inst |-> rec.inst, rel |-> rel, off |-> off]
    BY <2>1
  <2> QED
    BY <2>2 DEF a
<1>4. [rec EXCEPT !.inst = inst, !.off = off] = [inst |-> inst, rel |-> rec.rel, off |-> off]
  <2> DEFINE a == [rec EXCEPT !.inst = inst]
  <2>1. a = [inst |-> inst, rel |-> rec.rel, off |-> rec.off]
    BY <1>2
  <2> HIDE DEF a
  <2>2. [a EXCEPT !.off = off] = [inst |-> inst, rel |-> rec.rel, off |-> off]
    BY <2>1
  <2> QED
    BY <2>2 DEF a
<1> QED
  BY <1>3, <1>4 DEF SetRelated, SetInstance

LEMMA HandledIsHow ==
    ASSUME Inv, NEW s \in Steps, Todo(DOMAIN store, DOMAIN db, s), NEW off \in Nat,
           s.key \in DOMAIN store => store[s.key].off < off,
           NEW h, h = Handled(s, off)
    PROVE  HandledHow(store, s, off, h)
<1>1. s.inst = NoInst /\ s.key \in RelKeys /\ s.cmd # "VALIDATE_CREATE"
      /\ (s.cmd # "REFRESH_INSTANCE" => s.key \in DOMAIN store)
  BY DEF Todo, Steps
<1>2. <<>> = <<>> /\ DOMAIN <<>> = {}
  BY EmptySeq
<1>3. CASE s.cmd = "REFRESH_INSTANCE"
  <2>1. h = HandleRefreshInstance(s, off)
    BY <1>3 DEF Handled
  <2>2. /\ h.rec = [inst |-> s.pay.inst, rel |-> <<>>, off |-> off]
        /\ h.step = [s EXCEPT !.off = off] /\ h.add = <<>>
    BY <2>1 DEF HandleRefreshInstance
  <2>3. h.step.off = off /\ h.step.cmd = s.cmd /\ h.step.inst = s.inst
    BY <2>2 DEF Steps
  <2> QED
    BY <1>1, <1>2, <1>3, <2>2, <2>3 DEF HandledHow, Writes
<1>4. CASE s.cmd # "REFRESH_INSTANCE"
  <2>1. PICK rec : /\ rec = store[s.key] /\ RecFor(DOMAIN store, s.key, rec) /\ off > rec.off
                   /\ rec.off \in Nat /\ rec.inst \in Insts /\ rec.rel \in Seq(Copies)
    <3>1. RecFor(DOMAIN store, s.key, store[s.key])
      BY <1>1, <1>4, QueuesOf
    <3>2. store[s.key].off < off
      BY <1>1, <1>4
    <3> QED
      BY <3>1, <3>2 DEF RecFor, RelFor
  <2>2. CASE s.cmd = "REQUEST_RELATED"
    <3>1. PICK rel : rel = Upsert(rec.rel, s.pay)
      OBVIOUS
    <3>2. h = HandleRequestRelated(s, rec, off)
      BY <2>1, <2>2 DEF Handled
    <3>3. PICK result : result = Packed(rec.inst, rel)
      OBVIOUS
    <3>4. /\ h.rec = SetRelated(rec, rel, off)
          /\ h.step = [s EXCEPT !.off = off, !.result = result]
          /\ h.add = <<Step("REFRESH_RELATED", s.pay.key, Copy(s.key, rec.inst))>>
      BY <3>1, <3>2, <3>3 DEF HandleRequestRelated
    <3>5. h.rec = [inst |-> rec.inst, rel |-> rel, off |-> off]
      BY <2>1, <3>4, SetNewer
    <3>6. h.step = [cmd |-> s.cmd, key |-> s.key, pay |-> s.pay, off |-> off,
                    inst |-> s.inst, result |-> result]
      BY <3>4, StepSet
    <3>7. \A i \in DOMAIN h.add : h.add[i].cmd = "REFRESH_RELATED"
      BY <3>4 DEF Step
    <3> QED
      BY <1>1, <1>4, <2>1, <2>2, <3>3, <3>5, <3>6, <3>7 DEF HandledHow, Writes, Latest, Packed
  <2>3. CASE s.cmd = "REFRESH_RELATED"
    <3>1. h = HandleRefreshRelated(s, rec, off)
      BY <2>1, <2>3 DEF Handled
    <3> DEFINE a == SetRelated(rec, Upsert(rec.rel, s.pay), off)
    <3>2. /\ h.rec = a
          /\ h.step = [s EXCEPT !.off = off, !.result = Packed(a.inst, a.rel)]
          /\ h.add = <<>>
      BY <3>1 DEF HandleRefreshRelated
    <3>3. PICK rel, after : rel = Upsert(rec.rel, s.pay) /\ after = a
      OBVIOUS
    <3>4. PICK result : result = Packed(after.inst, after.rel)
      OBVIOUS
    <3> HIDE DEF a
    <3>5. /\ h.rec = after /\ h.step = [s EXCEPT !.off = off, !.result = result]
          /\ h.add = <<>> /\ after = SetRelated(rec, rel, off)
      <4>1. after = SetRelated(rec, rel, off)
        BY <3>3 DEF a
      <4> QED
        BY <3>2, <3>3, <3>4, <4>1, Zenon
    <3>6. after = [inst |-> rec.inst, rel |-> rel, off |-> off]
      BY <2>1, <3>5, SetNewer
    <3>7. h.step = [cmd |-> s.cmd, key |-> s.key, pay |-> s.pay, off |-> off,
                    inst |-> s.inst, result |-> result]
      BY <3>5, StepSet
    <3> QED
      BY <1>1, <1>2, <1>4, <2>1, <2>3, <3>4, <3>5, <3>6, <3>7 DEF HandledHow, Writes, Latest, Packed
  <2>4. CASE s.cmd = "Change"
    <3>1. PICK inst : inst = rec.inst + 1 /\ inst # NoInst
      BY <2>1 DEF Insts, NoInst
    <3>2. h = HandleChange(s, rec, off)
      BY <2>1, <2>4 DEF Handled
    <3>3. /\ h.rec = SetInstance(rec, inst, off)
          /\ h.step = [s EXCEPT !.off = off, !.inst = inst]
          /\ h.add = RefreshRelatedSteps(s.key, inst, rec.rel)
      BY <3>1, <3>2 DEF HandleChange
    <3>4. h.rec = [inst |-> inst, rel |-> rec.rel, off |-> off]
      BY <2>1, <3>3, SetNewer
    <3>5. h.step = [cmd |-> s.cmd, key |-> s.key, pay |-> s.pay, off |-> off,
                    inst |-> inst, result |-> s.result]
      <4>1. [s EXCEPT !.off = off, !.inst = inst] =
               [cmd |-> s.cmd, key |-> s.key, pay |-> s.pay, off |-> off,
                inst |-> inst, result |-> s.result]
        BY ONLY s \in Steps, StepSet
      <4> QED
        BY ONLY <3>3, <4>1
    <3>6. PICK add : add = h.add
      OBVIOUS
    <3>7. /\ \A i \in DOMAIN add : add[i].cmd \in {"REFRESH_RELATED", "READ"}
          /\ add # <<>> => add[Len(add)].cmd = "READ" /\ add[Len(add)].key = s.key
      BY <1>1, <2>1, <3>3, <3>6, RefreshStepsLast
    <3> QED
      BY <1>1, <1>4, <2>1, <2>4, <3>1, <3>4, <3>5, <3>6, <3>7 DEF HandledHow, Writes, Latest
  <2>5. CASE s.cmd = "READ"
    <3>1. h = HandleRead(s, rec, off)
      BY <2>1, <2>5 DEF Handled
    <3>2. PICK result : result = Packed(rec.inst, rec.rel)
      OBVIOUS
    <3>3. h.rec = rec /\ h.step = [s EXCEPT !.off = off, !.result = result] /\ h.add = <<>>
      BY <3>1, <3>2 DEF HandleRead
    <3>4. h.step = [cmd |-> s.cmd, key |-> s.key, pay |-> s.pay, off |-> off,
                    inst |-> s.inst, result |-> result]
      BY <3>3, StepSet
    <3> QED
      BY <1>1, <1>2, <1>4, <2>1, <2>5, <3>3, <3>4 DEF HandledHow, Writes
  <2> QED
    BY <1>1, <1>4, <2>2, <2>3, <2>4, <2>5 DEF Steps, Cmds
<1> QED
  BY <1>3, <1>4

LEMMA LastConcat ==
    ASSUME NEW S, NEW a \in Seq(S), NEW b \in Seq(S), NEW ab, ab = a \o b
    PROVE  /\ ab \in Seq(S)
           /\ b # <<>> => ab[Len(ab)] = b[Len(b)]
           /\ b = <<>> => ab = a
<1>1. /\ a \o b \in Seq(S) /\ Len(a \o b) = Len(a) + Len(b)
      /\ \A i \in 1..(Len(a) + Len(b)) :
            (a \o b)[i] = IF i <= Len(a) THEN a[i] ELSE b[i - Len(a)]
  BY ConcatProperties
<1>2. Len(a) \in Nat /\ Len(b) \in Nat
  BY LenProperties
<1>3. CASE b = <<>>
  <2>1. a \o <<>> = a
    BY ConcatEmptySeq
  <2> QED
    BY <1>1, <1>3, <2>1
<1>4. CASE b # <<>>
  <2>1. Len(b) # 0
    BY <1>4, EmptySeq
  <2>2. Len(a) + Len(b) \in 1..(Len(a) + Len(b)) /\ ~(Len(a) + Len(b) <= Len(a))
        /\ (Len(a) + Len(b)) - Len(a) = Len(b)
    BY <1>2, <2>1
  <2>3. (a \o b)[Len(a) + Len(b)] = b[(Len(a) + Len(b)) - Len(a)]
    BY ONLY <1>1, <2>2
  <2>4. ab[Len(ab)] = b[Len(b)]
    BY ONLY <1>1, <2>2, <2>3, ab = a \o b
  <2> QED
    BY <1>1, <1>4, <2>4
<1> QED
  BY <1>3, <1>4

LEMMA StepsLast ==
    ASSUME NEW S, NEW steps \in Seq(S), NEW idx \in 1..Len(steps), NEW step \in S,
           NEW add \in Seq(S), NEW new, new = StepsWith(steps, idx, step, add)
    PROVE  new[Len(new)] = IF idx < Len(steps) THEN steps[Len(steps)]
                           ELSE IF add # <<>> THEN add[Len(add)] ELSE step
<1> DEFINE before == SubSeq(steps, 1, idx - 1)
           after == SubSeq(steps, idx + 1, Len(steps))
           one == <<step>>
           a == before \o one
           b == a \o add
<1>1. before \in Seq(S) /\ one \in Seq(S) /\ Len(one) = 1 /\ one[1] = step /\ one # <<>>
  OBVIOUS
<1>2. /\ after \in Seq(S) /\ Len(after) = Len(steps) - idx
      /\ \A i \in 1..(Len(steps) - idx) : after[i] = steps[idx + i]
  OBVIOUS
<1>3. Len(steps) \in Nat /\ idx \in Nat /\ idx >= 1 /\ idx <= Len(steps)
  OBVIOUS
<1> HIDE DEF before, after, one
<1>4. a \in Seq(S) /\ a[Len(a)] = step
  <2>1. a = before \o one
    OBVIOUS
  <2> HIDE DEF a
  <2> QED
    BY <1>1, <2>1, LastConcat
<1> HIDE DEF a
<1>5. b \in Seq(S) /\ b[Len(b)] = IF add # <<>> THEN add[Len(add)] ELSE step
  <2>1. b = a \o add
    OBVIOUS
  <2> HIDE DEF b
  <2>2. /\ b \in Seq(S)
        /\ add # <<>> => b[Len(b)] = add[Len(add)]
        /\ add = <<>> => b = a
    BY <1>4, <2>1, LastConcat
  <2> QED
    BY <1>4, <2>2
<1> HIDE DEF b
<1>6. new = b \o after
  BY DEF StepsWith, b, a, before, after, one
<1>7. CASE idx < Len(steps)
  <2>1. Len(after) # 0 /\ Len(after) \in 1..(Len(steps) - idx) /\ idx + Len(after) = Len(steps)
    BY <1>2, <1>3, <1>7
  <2>2. after # <<>>
    BY <2>1, EmptySeq
  <2>3. new[Len(new)] = after[Len(after)]
    <3>1. b \in Seq(S) /\ after \in Seq(S)
      BY <1>2, <1>5
    <3> QED
      BY ONLY <1>6, <2>2, <3>1, LastConcat
  <2>4. after[Len(after)] = steps[idx + Len(after)]
    BY ONLY <1>2, <2>1
  <2> QED
    BY <1>7, <2>1, <2>3, <2>4
<1>8. CASE ~(idx < Len(steps))
  <2>1. Len(after) = 0
    BY <1>2, <1>3, <1>8
  <2>2. after = <<>>
    BY <1>2, <2>1, EmptySeq
  <2>3. new = b
    BY <1>2, <1>5, <1>6, <2>2, LastConcat
  <2> QED
    BY <1>5, <1>8, <2>3
<1> QED
  BY <1>7, <1>8

\* The message is where it belongs, its step finds an older record or is the one
\* that makes it, and the steps after it are the ones it had and the added ones.
HandleSees(p, txn, s, h, steps) ==
    /\ LogLoses(p, txn) /\ Fits(txn) /\ Behind(store, txn)
    /\ PartOf[s.key] = p /\ s.key \in RelKeys /\ next[p] \in Nat
    /\ s.key \in DOMAIN store => store[s.key].off < next[p]
    /\ HandledHow(store, s, next[p], h)
    /\ s.cmd = "REFRESH_INSTANCE" =>
          /\ s.key \in Chars /\ s.pay.inst = 1 /\ IsNew(txn, s.key)
          /\ s.key \notin DOMAIN store
    /\ txn.steps \in Seq(Steps) /\ Len(txn.steps) \in Nat
    /\ txn.idx \in Nat /\ txn.idx >= 1 /\ txn.idx <= Len(txn.steps)
    /\ s = txn.steps[txn.idx] /\ h.step.cmd = s.cmd /\ h.step.key = s.key
    /\ h.step \in Steps /\ h.add \in Seq(Steps)
    /\ StepsAre(Steps, txn.steps, txn.idx, h.step, h.add, steps)
    /\ steps \in Seq(Steps) /\ Len(steps) \in Nat /\ txn.idx <= Len(steps)
    /\ Len(steps) = Len(txn.steps) + Len(h.add)

LEMMA HandleSeen ==
    ASSUME Inv, StoredInv, NEW p \in RelParts,
           NEW txn, NEW s, NEW h, NEW steps, HandleDoes(p, txn, s, h, steps)
    PROVE  HandleSees(p, txn, s, h, steps)
<1>1. /\ log[p] # <<>> /\ txn = Head(log[p]) /\ txn.steps[1].cmd # "VALIDATE_CREATE"
      /\ TxnFor(DOMAIN store, DOMAIN db, txn)
      /\ s = Current(txn) /\ s \in Steps /\ Todo(DOMAIN store, DOMAIN db, s)
      /\ h = Handled(s, next[p]) /\ HandledWell(DOMAIN store, DOMAIN db, s, h)
      /\ steps = StepsWith(txn.steps, txn.idx, h.step, h.add)
      /\ log' = [log EXCEPT ![p] = Tail(log[p])]
  BY DEF HandleDoes
<1>2. LogLoses(p, txn)
  BY <1>1, LogTake
<1>3. txn \in Waiting /\ txn \in Of(log[p])
  BY <1>2 DEF LogLoses
<1>4. Fits(txn) /\ Behind(store, txn)
  BY <1>3 DEF StoredInv, FitsInv, BehindInv
<1>5. PartOf[s.key] = p
  BY <1>1, <1>3 DEF StoredInv, HereInv
<1>6. s.key \in RelKeys /\ next[p] \in Nat
  BY <1>1, QueuesOf DEF Steps
<1>7. s.key \in DOMAIN store => store[s.key].off < next[p]
  BY <1>5 DEF StoredInv, RowsInv
<1>8. HandledHow(store, s, next[p], h)
  BY <1>1, <1>6, <1>7, HandledIsHow
<1>9. /\ txn.steps \in Seq(Steps) /\ Len(txn.steps) \in Nat
      /\ txn.idx \in Nat /\ txn.idx >= 1 /\ txn.idx <= Len(txn.steps)
  <2>1. txn.steps \in Seq(Steps) /\ txn.idx \in 1..Len(txn.steps)
    BY <1>1 DEF TxnFor, Txns
  <2>2. PICK old : old = txn.steps
    OBVIOUS
  <2>3. Len(old) \in Nat
    BY <2>1, <2>2, LenProperties
  <2> QED
    BY <2>1, <2>2, <2>3
<1>10. /\ s = txn.steps[txn.idx] /\ h.step.cmd = s.cmd /\ h.step.key = s.key
       /\ h.step \in Steps /\ h.add \in Seq(Steps)
  BY <1>1 DEF Current, HandledWell
<1>11. StepsAre(Steps, txn.steps, txn.idx, h.step, h.add, steps)
  <2>1. PICK old, idx, step, add :
           old = txn.steps /\ idx = txn.idx /\ step = h.step /\ add = h.add
    OBVIOUS
  <2>2. old \in Seq(Steps) /\ idx \in 1..Len(old) /\ step \in Steps /\ add \in Seq(Steps)
        /\ steps = StepsWith(old, idx, step, add)
    <3>1. txn.idx \in 1..Len(txn.steps)
      BY <1>1 DEF TxnFor
    <3>2. steps = StepsWith(txn.steps, txn.idx, h.step, h.add)
      BY <1>1
    <3> QED
      BY ONLY <1>9, <1>10, <2>1, <3>1, <3>2
  <2>3. StepsAre(Steps, old, idx, step, add, steps)
    BY ONLY <2>2, StepsAfter
  <2> QED
    BY <2>1, <2>3
<1>12. /\ steps \in Seq(Steps) /\ Len(steps) \in Nat /\ txn.idx <= Len(steps)
       /\ Len(steps) = Len(txn.steps) + Len(h.add)
  <2>1. steps \in Seq(Steps) /\ Len(steps) = Len(txn.steps) + Len(h.add)
    BY <1>11 DEF StepsAre
  <2>2. Len(h.add) \in Nat /\ Len(steps) \in Nat
    BY <1>10, <2>1, LenProperties
  <2>3. PICK a, b, c, i : a = Len(steps) /\ b = Len(txn.steps) /\ c = Len(h.add) /\ i = txn.idx
    OBVIOUS
  <2>4. a \in Nat /\ b \in Nat /\ c \in Nat /\ i \in Nat /\ i <= b /\ a = b + c
    BY <1>9, <2>1, <2>2, <2>3
  <2>5. i <= a
    BY ONLY <2>4
  <2> QED
    BY <2>1, <2>2, <2>3, <2>5
<1>13. ASSUME s.cmd = "REFRESH_INSTANCE"
       PROVE  /\ s.key \in Chars /\ s.pay.inst = 1 /\ IsNew(txn, s.key)
              /\ s.key \notin DOMAIN store
  <2>1. txn.idx \in txn.idx..Len(txn.steps)
    BY <1>9
  <2>2. txn.idx = 1 /\ s.key \in Chars /\ s.pay.inst = 1
    BY <1>4, <1>10, <1>13, <2>1 DEF Fits
  <2>3. IsNew(txn, s.key)
    BY <1>10, <1>13, <2>2 DEF IsNew
  <2>4. HasNew(log[p], s.key)
    BY <1>2, <2>2, <2>3 DEF LogLoses
  <2>5. s.key \notin DOMAIN store
    BY <1>5, <2>2, <2>4 DEF StoredInv, NewInv, NewFor
  <2> QED
    BY <2>2, <2>3, <2>5
<1> QED
  BY ONLY <1>2, <1>4, <1>5, <1>6, <1>7, <1>8, <1>9, <1>10, <1>11, <1>12, <1>13 DEF HandleSees

\* The record of the key is kept or replaced by a newer one; the others stay.
Renews(key, rec, off) ==
    /\ DOMAIN store' = DOMAIN store \cup {key}
    /\ \A k \in DOMAIN store : k # key => store'[k] = store[k]
    /\ store'[key] = rec
    /\ key \in DOMAIN store => rec = store[key] \/ (rec.off = off /\ store[key].off < off)

LEMMA PutRenews ==
    ASSUME NEW key, NEW rec, NEW off, store' = Put(store, key, rec),
           key \in DOMAIN store => rec = store[key] \/ (rec.off = off /\ store[key].off < off)
    PROVE  Renews(key, rec, off)
<1>1. PICK new : new = store' /\ new = Put(store, key, rec)
  OBVIOUS
<1>2. /\ DOMAIN new = DOMAIN store \cup {key}
      /\ \A k \in DOMAIN store : k # key => new[k] = store[k]
      /\ new[key] = rec
  BY <1>1 DEF Put
<1> QED
  BY <1>1, <1>2 DEF Renews

\* What is behind stays behind.
LEMMA StaysBehind ==
    ASSUME Inv, NEW key, NEW rec, NEW off \in Nat, Renews(key, rec, off)
    PROVE  /\ \A t \in Steps : StepBehind(store, t) => StepBehind(store', t)
           /\ \A k \in DOMAIN store : \A row :
                 row.off \in Nat /\ RowBehind(store, k, row) => RowBehind(store', k, row)
           /\ \A t \in Txns : t.idx \in 1..Len(t.steps) /\ Behind(store, t) => Behind(store', t)
<1>1. \A k \in DOMAIN store : /\ store[k].off \in Nat /\ k \in DOMAIN store'
                               /\ \/ store'[k] = store[k]
                                  \/ store'[k].off = off /\ store[k].off < off
  BY QueuesOf DEF Renews, RecFor
<1>2. ASSUME NEW t \in Steps, StepBehind(store, t) PROVE StepBehind(store', t)
  <2>1. t.key \in DOMAIN store /\ t.off \in Nat
    BY <1>2 DEF StepBehind, Steps
  <2>2. CASE store'[t.key] = store[t.key]
    BY <1>1, <1>2, <2>1, <2>2 DEF StepBehind
  <2>3. CASE store'[t.key].off = off /\ store[t.key].off < off
    <3>1. t.off < off
      BY <1>1, <1>2, <2>1, <2>3 DEF StepBehind
    <3> QED
      BY <1>1, <1>2, <2>1, <2>3, <3>1 DEF StepBehind
  <2> QED
    BY <1>1, <2>1, <2>2, <2>3
<1>3. ASSUME NEW k \in DOMAIN store, NEW row, row.off \in Nat, RowBehind(store, k, row)
      PROVE  RowBehind(store', k, row)
  <2>1. CASE store'[k] = store[k]
    BY <1>3, <2>1 DEF RowBehind
  <2>2. CASE store'[k].off = off /\ store[k].off < off
    BY <1>1, <1>3, <2>2 DEF RowBehind
  <2> QED
    BY <1>1, <2>1, <2>2
<1>4. ASSUME NEW t \in Txns, t.idx \in 1..Len(t.steps), Behind(store, t) PROVE Behind(store', t)
  <2>1. t.steps \in Seq(Steps) /\ t.idx \in Nat /\ Len(t.steps) \in Nat
    BY LenProperties DEF Txns
  <2> SUFFICES ASSUME NEW i \in 1..(t.idx - 1), Writes(t.steps[i])
               PROVE  StepBehind(store', t.steps[i])
    BY DEF Behind
  <2>2. StepBehind(store, t.steps[i])
    BY <1>4 DEF Behind
  <2>3. t.steps[i] \in Steps
    <3>1. i \in 1..Len(t.steps)
      BY <1>4, <2>1
    <3> QED
      BY <2>1, <3>1, ElementOfSeq
  <2> QED
    BY <1>2, <2>2, <2>3
<1> QED
  BY <1>2, <1>3, <1>4

\* The record that the handler leaves.
LEMMA HandleRenews ==
    ASSUME NEW p, NEW txn, NEW s, NEW h, NEW steps,
           HandleDoes(p, txn, s, h, steps), HandleSees(p, txn, s, h, steps)
    PROVE  Renews(s.key, h.rec, next[p])
<1>1. store' = Put(store, s.key, h.rec)
  BY DEF HandleDoes
<1>2. s.key \in DOMAIN store => h.rec = store[s.key] \/ (h.rec.off = next[p] /\ store[s.key].off < next[p])
  BY DEF HandleSees, HandledHow
<1> QED
  BY <1>1, <1>2, PutRenews

\* The steps that are done are not ahead of the record.
LEMMA HandleDone ==
    ASSUME Inv, NEW p \in RelParts, NEW txn, NEW s, NEW h, NEW steps,
           HandleDoes(p, txn, s, h, steps), HandleSees(p, txn, s, h, steps)
    PROVE  /\ \A i \in 1..(txn.idx - 1) : steps[i] = txn.steps[i]
           /\ steps[txn.idx] = h.step
           /\ \A i \in 1..txn.idx : Writes(steps[i]) => StepBehind(store', steps[i])
<1>1. Renews(s.key, h.rec, next[p]) /\ next[p] \in Nat
  BY HandleRenews DEF HandleSees
<1>2. \A t \in Steps : StepBehind(store, t) => StepBehind(store', t)
  BY <1>1, StaysBehind
<1>3. (\A i \in 1..(txn.idx - 1) : steps[i] = txn.steps[i]) /\ steps[txn.idx] = h.step
  BY DEF HandleSees, StepsAre
<1>4. txn.idx \in Nat /\ txn.idx >= 1 /\ txn.idx <= Len(txn.steps) /\ Len(txn.steps) \in Nat
      /\ txn.steps \in Seq(Steps)
  BY DEF HandleSees
<1>5. ASSUME Writes(h.step) PROVE StepBehind(store', h.step)
  <2>1. HandledHow(store, s, next[p], h) /\ h.step.key = s.key /\ h.step.cmd = s.cmd
    BY DEF HandleSees
  <2>2. /\ h.step.off = next[p] /\ h.rec.off = next[p] /\ Latest(h.step, h.rec)
        /\ h.step.inst # NoInst => s.cmd = "Change"
    BY <1>5, <2>1 DEF HandledHow
  <2>3. s.key \in DOMAIN store' /\ store'[s.key] = h.rec
    BY <1>1 DEF Renews
  <2> QED
    BY <1>1, <2>1, <2>2, <2>3 DEF StepBehind
<1>6. ASSUME NEW i \in 1..(txn.idx - 1), Writes(steps[i]) PROVE StepBehind(store', steps[i])
  <2>1. steps[i] = txn.steps[i] /\ StepBehind(store, txn.steps[i])
    BY <1>3, <1>6 DEF HandleSees, Behind
  <2>2. i \in 1..Len(txn.steps)
    BY <1>4
  <2>3. txn.steps[i] \in Steps
    BY <1>4, <2>2, ElementOfSeq
  <2> QED
    BY <1>2, <2>1, <2>3
<1>7. ASSUME NEW i \in 1..txn.idx, Writes(steps[i]) PROVE StepBehind(store', steps[i])
  <2>1. i = txn.idx \/ i \in 1..(txn.idx - 1)
    BY <1>4
  <2> QED
    BY <1>3, <1>5, <1>6, <1>7, <2>1
<1> QED
  BY <1>3, <1>7

\* The transaction still ends where its changes are.
LEMMA HandleLocal ==
    ASSUME NEW p \in RelParts, NEW txn, NEW s, NEW h, NEW steps,
           HandleDoes(p, txn, s, h, steps), HandleSees(p, txn, s, h, steps)
    PROVE  Local(steps)
<1>1. /\ Local(txn.steps) /\ HandledHow(store, s, next[p], h)
      /\ txn.steps \in Seq(Steps) /\ Len(txn.steps) \in Nat
      /\ txn.idx \in Nat /\ txn.idx >= 1 /\ txn.idx <= Len(txn.steps)
      /\ s = txn.steps[txn.idx] /\ h.step.cmd = s.cmd /\ h.step.key = s.key
      /\ StepsAre(Steps, txn.steps, txn.idx, h.step, h.add, steps)
      /\ steps \in Seq(Steps) /\ Len(steps) \in Nat /\ txn.idx <= Len(steps)
  BY DEF HandleSees, Fits
<1>2. PICK last : last = txn.steps[Len(txn.steps)]
  OBVIOUS
<1>3. ASSUME NEW i \in 1..Len(steps), steps[i].cmd = "Change"
      PROVE  last.cmd \in {"Change", "READ"} /\ PartOf[last.key] = PartOf[steps[i].key]
  <2>1. \E j \in 1..Len(txn.steps) : txn.steps[j].cmd = "Change" /\ txn.steps[j].key = steps[i].key
    <3>1. CASE i \in 1..(txn.idx - 1)
      <4>1. i \in 1..Len(txn.steps) /\ steps[i] = txn.steps[i]
        <5>1. txn.idx \in Nat /\ Len(txn.steps) \in Nat /\ txn.idx <= Len(txn.steps)
          BY <1>1
        <5>2. i \in 1..Len(txn.steps)
          BY ONLY <3>1, <5>1
        <5>3. steps[i] = txn.steps[i]
          BY ONLY <1>1, <3>1 DEF StepsAre
        <5> QED
          BY <5>2, <5>3
      <4> QED
        BY <1>3, <4>1
    <3>2. CASE i = txn.idx
      <4>1. txn.idx \in 1..Len(txn.steps) /\ steps[i] = h.step
        BY <1>1, <3>2 DEF StepsAre
      <4> QED
        BY <1>1, <1>3, <4>1
    <3>3. CASE i \in (txn.idx + 1)..Len(steps)
      <4>1. \/ \E j \in DOMAIN h.add : steps[i] = h.add[j]
            \/ \E j \in (txn.idx + 1)..Len(txn.steps) : steps[i] = txn.steps[j]
        BY <1>1, <3>3 DEF StepsAre
      <4>2. ~\E j \in DOMAIN h.add : steps[i] = h.add[j]
        BY <1>1, <1>3 DEF HandledHow
      <4>3. PICK j \in (txn.idx + 1)..Len(txn.steps) : steps[i] = txn.steps[j]
        BY <4>1, <4>2
      <4>4. j \in 1..Len(txn.steps)
        BY <1>1
      <4> QED
        BY <1>3, <4>3, <4>4
    <3>4. i \in 1..(txn.idx - 1) \/ i = txn.idx \/ i \in (txn.idx + 1)..Len(steps)
      BY <1>1
    <3> QED
      BY <3>1, <3>2, <3>3, <3>4
  <2> QED
    BY <1>1, <1>2, <2>1 DEF Local
<1>4. PICK end : end = steps[Len(steps)]
  OBVIOUS
<1>5. end = IF txn.idx < Len(txn.steps) THEN last
            ELSE IF h.add # <<>> THEN h.add[Len(h.add)] ELSE h.step
  <2>1. PICK old, idx, step, add :
           old = txn.steps /\ idx = txn.idx /\ step = h.step /\ add = h.add
    OBVIOUS
  <2>2. old \in Seq(Steps) /\ idx \in 1..Len(old) /\ step \in Steps /\ add \in Seq(Steps)
        /\ steps = StepsWith(old, idx, step, add)
    <3>1. steps = StepsWith(txn.steps, txn.idx, h.step, h.add)
      BY DEF HandleDoes
    <3>2. h.step \in Steps /\ h.add \in Seq(Steps)
      BY DEF HandleSees
    <3>3. txn.idx \in 1..Len(txn.steps)
      BY <1>1
    <3> QED
      BY <1>1, <2>1, <3>1, <3>2, <3>3
  <2>3. steps[Len(steps)] = IF idx < Len(old) THEN old[Len(old)]
                            ELSE IF add # <<>> THEN add[Len(add)] ELSE step
    BY ONLY <2>2, StepsLast, SMTT(30)
  <2> QED
    BY <1>2, <1>4, <2>1, <2>3
<1>6. last.cmd \in {"Change", "READ"} => end.cmd \in {"Change", "READ"} /\ end.key = last.key
  <2>1. CASE txn.idx < Len(txn.steps)
    BY <1>5, <2>1
  <2>2. CASE ~(txn.idx < Len(txn.steps))
    <3>1. last = s
      BY <1>1, <1>2, <2>2
    <3>2. end = IF h.add # <<>> THEN h.add[Len(h.add)] ELSE h.step
      BY <1>5, <2>2
    <3> QED
      BY <1>1, <3>1, <3>2 DEF HandledHow
  <2> QED
    BY <2>1, <2>2
<1> QED
  BY <1>3, <1>4, <1>6 DEF Local

LEMMA HandleFits ==
    ASSUME NEW p \in RelParts, NEW txn, NEW s, NEW h, NEW steps,
           HandleDoes(p, txn, s, h, steps), HandleSees(p, txn, s, h, steps)
    PROVE  Fits(Next1(steps, txn))
<1>1. PICK y : y = Next1(steps, txn)
  OBVIOUS
<1>2. y.steps = steps /\ y.idx = txn.idx + 1
  BY <1>1 DEF Next1
<1>3. /\ Fits(txn) /\ HandledHow(store, s, next[p], h)
      /\ txn.idx \in Nat /\ txn.idx >= 1 /\ txn.idx <= Len(txn.steps) /\ Len(txn.steps) \in Nat
      /\ s = txn.steps[txn.idx] /\ h.step.cmd = s.cmd
      /\ StepsAre(Steps, txn.steps, txn.idx, h.step, h.add, steps)
      /\ txn.steps[1].cmd # "VALIDATE_CREATE"
  BY DEF HandleSees, HandleDoes
<1>4. steps[1].cmd # "VALIDATE_CREATE"
  <2>1. 1 = txn.idx \/ 1 \in 1..(txn.idx - 1)
    BY <1>3
  <2> QED
    BY <1>3, <2>1 DEF StepsAre
<1>5. ASSUME NEW i \in (txn.idx + 1)..Len(steps) PROVE steps[i].cmd # "REFRESH_INSTANCE"
  <2>1. \/ \E j \in DOMAIN h.add : steps[i] = h.add[j]
        \/ \E j \in (txn.idx + 1)..Len(txn.steps) : steps[i] = txn.steps[j]
    BY <1>3 DEF StepsAre
  <2>2. CASE \E j \in DOMAIN h.add : steps[i] = h.add[j]
    BY <1>3, <2>2 DEF HandledHow
  <2>3. CASE \E j \in (txn.idx + 1)..Len(txn.steps) : steps[i] = txn.steps[j]
    <3>1. PICK j \in (txn.idx + 1)..Len(txn.steps) : steps[i] = txn.steps[j]
      BY <2>3
    <3>2. j \in txn.idx..Len(txn.steps) /\ j # 1
      BY <1>3
    <3> QED
      BY <1>3, <3>1, <3>2 DEF Fits
  <2> QED
    BY <2>1, <2>2, <2>3
<1>6. Fits(y)
  BY <1>2, <1>4, <1>5, HandleLocal DEF Fits
<1> QED
  BY <1>1, <1>6

\* What waits after it.
LEMMA HandleWaits ==
    ASSUME Inv, NEW p \in RelParts, NEW txn, NEW s, NEW h, NEW steps,
           HandleDoes(p, txn, s, h, steps), HandleSees(p, txn, s, h, steps)
    PROVE  /\ Waiting \subseteq Waiting' \cup {txn}
           /\ txn.idx < Len(steps) =>
                 /\ Waiting' \subseteq Waiting \cup {Next1(steps, txn)}
                 /\ Next1(steps, txn) \in Waiting'
                 /\ \A pq \in RelParts \X RelParts : \A t \in Of(flight'[pq]) :
                       \/ t \in Of(flight[pq])
                       \/ t = Next1(steps, txn) /\ pq[2] = PartOf[steps[txn.idx + 1].key]
           /\ ~(txn.idx < Len(steps)) => Waiting' \subseteq Waiting /\ flight' = flight
<1>1. LogLoses(p, txn)
  BY DEF HandleSees
<1>2. ASSUME ~(txn.idx < Len(steps))
      PROVE  /\ Waiting' \subseteq Waiting /\ flight' = flight
             /\ Waiting \subseteq Waiting' \cup {txn}
  <2>1. flight' = flight
    BY <1>2 DEF HandleDoes
  <2> QED
    BY <1>1, <2>1, WaitingTake
<1>3. ASSUME txn.idx < Len(steps)
      PROVE  /\ Waiting \subseteq Waiting' \cup {txn}
             /\ Waiting' \subseteq Waiting \cup {Next1(steps, txn)}
             /\ Next1(steps, txn) \in Waiting'
             /\ \A pq \in RelParts \X RelParts : \A t \in Of(flight'[pq]) :
                   \/ t \in Of(flight[pq])
                   \/ t = Next1(steps, txn) /\ pq[2] = PartOf[steps[txn.idx + 1].key]
  <2>1. PICK y : y = Next1(steps, txn)
    OBVIOUS
  <2>2. PICK to : to = <<p, PartOf[steps[txn.idx + 1].key]>>
    OBVIOUS
  <2>3. flight' = [flight EXCEPT ![to] = Append(flight[to], y)]
    BY <1>3, <2>1, <2>2 DEF HandleDoes
  <2>4. steps[txn.idx + 1].key \in RelKeys
    <3>1. steps \in Seq(Steps) /\ txn.idx + 1 \in 1..Len(steps)
      <4>1. steps \in Seq(Steps) /\ Len(steps) \in Nat /\ txn.idx \in Nat
        BY DEF HandleSees
      <4>2. txn.idx + 1 \in 1..Len(steps)
        BY ONLY <1>3, <4>1
      <4> QED
        BY <4>1, <4>2
    <3>2. PICK j \in 1..Len(steps) : j = txn.idx + 1
      BY <3>1
    <3>3. steps[j] \in Steps
      BY <3>1, ElementOfSeq
    <3> QED
      BY <3>2, <3>3 DEF Steps
  <2>5. to \in RelParts \X RelParts /\ to[2] = PartOf[steps[txn.idx + 1].key]
    BY <2>2, <2>4, PartsType
  <2>6. y \in Txns
    <3>1. steps \in Seq(Steps) /\ txn.idx + 1 \in Nat
      BY DEF HandleSees
    <3> QED
      BY ONLY <2>1, <3>1 DEF Next1, Txns
  <2>7. \A pq \in RelParts \X RelParts :
           Of(flight'[pq]) = IF pq = to THEN Of(flight[to]) \cup {y} ELSE Of(flight[pq])
    BY <2>3, <2>5, <2>6, FlightPut
  <2>8. /\ Waiting' \subseteq Waiting \cup {y} /\ Waiting \subseteq Waiting' \cup {txn}
        /\ y \in Waiting'
    BY ONLY Inv, p \in RelParts, <1>1, <2>5, <2>7, WaitingMove, SMTT(20)
  <2>9. ASSUME NEW pq \in RelParts \X RelParts, NEW t \in Of(flight'[pq])
        PROVE  t \in Of(flight[pq]) \/ (t = y /\ pq[2] = to[2])
    <3>1. CASE pq = to
      BY <2>7, <3>1
    <3>2. CASE pq # to
      BY <2>7, <3>2
    <3> QED
      BY <3>1, <3>2
  <2> QED
    BY <2>1, <2>5, <2>8, <2>9
<1> QED
  BY <1>2, <1>3

\* The conjuncts of the invariant after a message was handled.
LEMMA HandleKeepsFits ==
    ASSUME Inv, StoredInv, NEW p \in RelParts, NEW txn, NEW s, NEW h, NEW steps,
           HandleDoes(p, txn, s, h, steps), HandleSees(p, txn, s, h, steps)
    PROVE  FitsInv' /\ BehindInv'
<1>0. PICK y : y = Next1(steps, txn)
  OBVIOUS
<1>1. y = Next1(steps, txn) /\ y.steps = steps /\ y.idx = txn.idx + 1
  BY <1>0 DEF Next1
<1>2. Waiting' \subseteq Waiting \cup (IF txn.idx < Len(steps) THEN {y} ELSE {})
  BY <1>1, HandleWaits
<1>3. \A t \in Waiting : Fits(t) /\ Behind(store, t)
  BY DEF StoredInv, FitsInv, BehindInv
<1>4. Fits(y)
  BY <1>1, HandleFits
<1>5. Behind(store', y)
  <2>1. y.idx - 1 = txn.idx
    BY <1>1 DEF HandleSees
  <2> QED
    BY <1>1, <2>1, HandleDone DEF Behind
<1>6. \A t \in Waiting : Behind(store', t)
  <2> TAKE t \in Waiting
  <2>1. t \in Txns /\ t.idx \in 1..Len(t.steps)
    BY WaitingFor DEF TxnFor
  <2>2. Renews(s.key, h.rec, next[p]) /\ next[p] \in Nat
    BY HandleRenews DEF HandleSees
  <2> QED
    BY <1>3, <2>1, <2>2, StaysBehind
<1> QED
  BY <1>2, <1>3, <1>4, <1>5, <1>6 DEF FitsInv, BehindInv

LEMMA HandleKeepsHere ==
    ASSUME Inv, StoredInv, NEW p \in RelParts, NEW txn, NEW s, NEW h, NEW steps,
           HandleDoes(p, txn, s, h, steps), HandleSees(p, txn, s, h, steps)
    PROVE  HereInv'
<1>1. \A r \in RelParts : Of(log'[r]) \subseteq Of(log[r])
  BY DEF HandleSees, LogLoses
<1>2. ASSUME NEW pq \in RelParts \X RelParts, NEW t \in Of(flight'[pq])
      PROVE  PartOf[Current(t).key] = pq[2] /\ t.idx > 1
  <2>1. CASE t \in Of(flight[pq])
    BY <2>1 DEF StoredInv, HereInv
  <2>2. CASE t \notin Of(flight[pq])
    <3>1. t = Next1(steps, txn) /\ pq[2] = PartOf[steps[txn.idx + 1].key]
      BY <2>2, HandleWaits
    <3>2. t.steps = steps /\ t.idx = txn.idx + 1 /\ txn.idx \in Nat /\ txn.idx >= 1
      BY <3>1 DEF Next1, HandleSees
    <3> QED
      BY <3>1, <3>2 DEF Current
  <2> QED
    BY <2>1, <2>2
<1>3. \A r \in RelParts : \A t \in Of(log[r]) : PartOf[Current(t).key] = r
  BY DEF StoredInv, HereInv
<1> QED
  BY <1>1, <1>2, <1>3 DEF HereInv

LEMMA HandleKeepsNew ==
    ASSUME Inv, StoredInv, NEW p \in RelParts, NEW txn, NEW s, NEW h, NEW steps,
           HandleDoes(p, txn, s, h, steps), HandleSees(p, txn, s, h, steps)
    PROVE  NewInv'
<1> SUFFICES ASSUME NEW c \in Chars PROVE NewFor(c)'
  BY DEF NewInv
<1>1. PICK r \in RelParts : r = PartOf[c]
  BY PartsType DEF RelKeys
<1>2. /\ HasNew(log'[r], c) => HasNew(log[r], c)
      /\ OneNew(log[r], c) => OneNew(log'[r], c)
      /\ r = p /\ IsNew(txn, c) =>
            HasNew(log[r], c) /\ (OneNew(log[r], c) => ~HasNew(log'[r], c))
  BY DEF HandleSees, LogLoses
<1>3. /\ OneNew(log[r], c)
      /\ HasNew(log[r], c) => ~InCreates(c)
      /\ \A w, v \in creates : w.key = c /\ v.key = c => w = v
      /\ HasNew(log[r], c) \/ InCreates(c) => c \in born /\ c \notin DOMAIN store
      /\ c \in DOMAIN store => c \in born
  BY <1>1 DEF StoredInv, NewInv, NewFor
<1>4. creates' = creates /\ born' = born
  BY DEF HandleDoes
<1>5. InCreates(c)' <=> InCreates(c)
  BY <1>4 DEF InCreates
<1>6. DOMAIN store' = DOMAIN store \cup {s.key}
  BY HandleRenews DEF Renews
<1>7. ASSUME c = s.key, c \notin DOMAIN store PROVE r = p /\ IsNew(txn, c)
  <2>1. s.cmd = "REFRESH_INSTANCE"
    BY <1>7 DEF HandleSees, HandledHow
  <2> QED
    BY <1>1, <1>7, <2>1 DEF HandleSees
<1>8. HasNew(log'[r], c) \/ InCreates(c)' => c \in born' /\ c \notin DOMAIN store'
  BY <1>2, <1>3, <1>4, <1>5, <1>6, <1>7
<1>9. c \in DOMAIN store' => c \in born'
  BY <1>2, <1>3, <1>4, <1>6, <1>7
<1> QED
  BY <1>1, <1>2, <1>3, <1>4, <1>5, <1>8, <1>9 DEF NewFor

\* The writes that end a transaction.
LEMMA EndWrites ==
    ASSUME Inv, NEW p \in RelParts, NEW txn, NEW s, NEW h, NEW steps,
           HandleDoes(p, txn, s, h, steps), HandleSees(p, txn, s, h, steps),
           ~(txn.idx < Len(steps)), NEW i \in WriteSteps(steps),
           NEW w, w = UpdateAsync(steps[i], store', p)
    PROVE  /\ w.key = steps[i].key /\ w.off = steps[i].off
           /\ w.key \in DOMAIN store' /\ RowBehind(store', w.key, w)
<1>1. txn.idx = Len(steps) /\ Len(steps) \in Nat /\ steps \in Seq(Steps)
  <2>1. Len(steps) \in Nat /\ txn.idx \in Nat /\ txn.idx <= Len(steps) /\ steps \in Seq(Steps)
    BY DEF HandleSees
  <2>2. PICK n, m : n = Len(steps) /\ m = txn.idx
    OBVIOUS
  <2>3. n \in Nat /\ m \in Nat /\ m <= n /\ ~(m < n)
    BY <2>1, <2>2
  <2>4. m = n
    BY ONLY <2>3
  <2> QED
    BY <2>1, <2>2, <2>4
<1>2. i \in 1..Len(steps) /\ Writes(steps[i])
  BY <1>1, LenProperties DEF WriteSteps
<1>3. PICK t : t = steps[i]
  OBVIOUS
<1>4. StepBehind(store', t)
  BY <1>1, <1>2, <1>3, HandleDone
<1>5. t.inst # NoInst => PartOf[t.key] = p
  <2>1. ASSUME t.inst # NoInst PROVE PartOf[t.key] = p
    <3>1. t.cmd = "Change"
      BY <1>4, <2>1 DEF StepBehind
    <3>2. PartOf[steps[Len(steps)].key] = PartOf[t.key]
      BY <1>2, <1>3, <3>1, HandleLocal DEF Local
    <3>3. steps[Len(steps)] = h.step
      BY <1>1, HandleDone
    <3> QED
      BY <3>2, <3>3 DEF HandleSees
  <2> QED
    BY <2>1
<1>6. PICK st : st = store'
  OBVIOUS
<1>7. PICK packed : packed = IF t.inst # NoInst THEN Packed(t.inst, GetRelated(st, t.key, p)) ELSE t.result
  OBVIOUS
<1>8. w = [key |-> t.key, inst |-> packed.inst, rel |-> packed.rel, off |-> t.off]
  BY <1>3, <1>6, <1>7 DEF UpdateAsync
<1>9. t.key \in DOMAIN st /\ (t.off = st[t.key].off => Latest(t, st[t.key])) /\ t.off <= st[t.key].off
  BY <1>4, <1>6 DEF StepBehind
<1>10. t.off = st[t.key].off => packed.inst = st[t.key].inst /\ packed.rel = st[t.key].rel
  <2>1. CASE t.inst # NoInst
    <3>1. packed.inst = t.inst /\ packed.rel = st[t.key].rel
      BY <1>5, <1>7, <1>9, <2>1 DEF Packed, GetRelated
    <3> QED
      BY <1>9, <2>1, <3>1 DEF Latest
  <2>2. CASE t.inst = NoInst
    BY <1>7, <1>9, <2>2 DEF Latest
  <2> QED
    BY <2>1, <2>2
<1> QED
  BY <1>3, <1>6, <1>8, <1>9, <1>10 DEF RowBehind

LEMMA HandleKeepsRows ==
    ASSUME Inv, StoredInv, NEW p \in RelParts, NEW txn, NEW s, NEW h, NEW steps,
           HandleDoes(p, txn, s, h, steps), HandleSees(p, txn, s, h, steps)
    PROVE  RowsInv'
<1>1. /\ Renews(s.key, h.rec, next[p]) /\ next[p] \in Nat /\ PartOf[s.key] = p
      /\ HandledHow(store, s, next[p], h)
      /\ s.key \in DOMAIN store => store[s.key].off < next[p]
  BY HandleRenews DEF HandleSees
<1>2. /\ DOMAIN store' = DOMAIN store \cup {s.key}
      /\ \A k \in DOMAIN store : k # s.key => store'[k] = store[k]
      /\ store'[s.key] = h.rec
  BY <1>1 DEF Renews
<1>3. /\ \A k \in DOMAIN store : store[k].off < next[PartOf[k]] /\ RowBehind(store, k, db[k])
      /\ \A k \in DOMAIN db \ DOMAIN store :
            db[k].inst = 1 /\ db[k].rel = <<>> /\ db[k].off < next[PartOf[k]]
      /\ \A w \in creates : w.off < next[PartOf[w.key]]
      /\ \A w \in writes : w.key \in DOMAIN store /\ RowBehind(store, w.key, w)
  BY DEF StoredInv, RowsInv
<1>4. /\ creates' = creates /\ db' = db
      /\ next' = [next EXCEPT ![p] = next[p] + 1]
      /\ s.key \in DOMAIN store' /\ Todo(DOMAIN store, DOMAIN db, s)
  BY <1>2 DEF HandleDoes
<1>5. /\ \A k \in DOMAIN store : store[k].off \in Nat
      /\ \A k \in DOMAIN db : db[k].off \in Nat /\ PartOf[k] \in RelParts
      /\ DOMAIN store \subseteq DOMAIN db
      /\ \A r \in RelParts : next[r] \in Nat
  BY QueuesOf, PartsType DEF RecFor
<1>6. \A w \in creates : w.off \in Nat /\ PartOf[w.key] \in RelParts
  BY PartsType DEF Inv, CountInv, RelKeys
<1>7. \A w \in writes : w.off \in Nat
  BY DEF Inv, StoreInv, WriteFor
<1>8. /\ next'[p] = next[p] + 1
      /\ \A r \in RelParts, n \in Nat : n < next[r] => n < next'[r]
  <2>1. next = [r \in RelParts |-> next[r]]
    BY DEF Inv, CountInv
  <2> QED
    BY <1>4, <1>5, <2>1
<1>9. ASSUME NEW k \in DOMAIN store'
      PROVE  store'[k].off < next'[PartOf[k]] /\ RowBehind(store', k, db'[k])
  <2>1. CASE k \in DOMAIN store
    <3>1. RowBehind(store', k, db'[k])
      BY <1>1, <1>3, <1>4, <1>5, <2>1, StaysBehind
    <3>2. CASE k # s.key
      BY <1>2, <1>3, <1>5, <1>8, <2>1, <3>1, <3>2
    <3>3. CASE k = s.key
      <4>1. h.rec = store[k] \/ h.rec.off = next[p]
        BY <1>1, <2>1, <3>3 DEF Renews
      <4> QED
        BY <1>1, <1>2, <1>5, <1>8, <2>1, <3>1, <3>3, <4>1
    <3> QED
      BY <3>2, <3>3
  <2>2. CASE k \notin DOMAIN store
    <3>1. k = s.key /\ s.cmd = "REFRESH_INSTANCE"
      BY <1>1, <1>2, <2>2 DEF HandledHow
    <3>2. h.rec.off = next[p] /\ k \in DOMAIN db
      BY <1>1, <1>4, <3>1 DEF HandledHow, Todo
    <3>3. db[k].off < next[p] /\ db[k].off \in Nat
      BY <1>1, <1>3, <1>5, <2>2, <3>1, <3>2
    <3>4. store'[k] = h.rec /\ db'[k] = db[k] /\ PartOf[k] = p
      BY <1>1, <1>2, <1>4, <3>1
    <3>5. RowBehind(store', k, db'[k])
      BY <1>1, <3>2, <3>3, <3>4 DEF RowBehind
    <3> QED
      BY <1>1, <1>8, <3>2, <3>4, <3>5
  <2> QED
    BY <2>1, <2>2
<1>10. ASSUME NEW k \in DOMAIN db' \ DOMAIN store'
       PROVE  db'[k].inst = 1 /\ db'[k].rel = <<>> /\ db'[k].off < next'[PartOf[k]]
  BY <1>2, <1>3, <1>4, <1>5, <1>8
<1>11. ASSUME NEW w \in creates' PROVE w.off < next'[PartOf[w.key]]
  BY <1>3, <1>4, <1>6, <1>8
<1>12. ASSUME NEW w \in writes' PROVE w.key \in DOMAIN store' /\ RowBehind(store', w.key, w)
  <2>1. CASE w \in writes
    BY <1>1, <1>2, <1>3, <1>7, <2>1, StaysBehind
  <2>2. CASE w \notin writes
    <3>1. ~(txn.idx < Len(steps)) /\ \E i \in WriteSteps(steps) : w = UpdateAsync(steps[i], store', p)
      BY <2>2 DEF HandleDoes
    <3>2. PICK i \in WriteSteps(steps) : w = UpdateAsync(steps[i], store', p)
      BY <3>1
    <3> QED
      BY <3>1, <3>2, EndWrites
  <2> QED
    BY <2>1, <2>2
<1> QED
  BY <1>9, <1>10, <1>11, <1>12 DEF RowsInv

\* What a consumer writes at the end of a transaction.
LEMMA EndWritten ==
    ASSUME NEW p \in RelParts, NEW txn, NEW s, NEW h, NEW steps,
           HandleDoes(p, txn, s, h, steps), HandleSees(p, txn, s, h, steps)
    PROVE  /\ writes \subseteq writes'
           /\ txn.idx < Len(steps) => writes' = writes
           /\ ~(txn.idx < Len(steps)) =>
                 /\ Len(steps) = txn.idx
                 /\ \A i \in WriteSteps(steps) : UpdateAsync(steps[i], store', p) \in writes'
                 /\ \A w \in writes' : w \in writes \/
                       \E i \in WriteSteps(steps) : w = UpdateAsync(steps[i], store', p)
<1>1. writes' = IF txn.idx < Len(steps) THEN writes
                ELSE writes \cup {UpdateAsync(steps[i], store', p) : i \in WriteSteps(steps)}
  BY DEF HandleDoes
<1>2. ~(txn.idx < Len(steps)) => Len(steps) = txn.idx
  <2>1. Len(steps) \in Nat /\ txn.idx \in Nat /\ txn.idx <= Len(steps)
    BY DEF HandleSees
  <2>2. PICK n, m : n = Len(steps) /\ m = txn.idx
    OBVIOUS
  <2>3. n \in Nat /\ m \in Nat /\ m <= n
    BY <2>1, <2>2
  <2>4. ~(m < n) => n = m
    BY ONLY <2>3
  <2> QED
    BY <2>2, <2>4
<1> QED
  BY ONLY <1>1, <1>2, Zenon

\* A step that does not write k leaves nothing new about k.
LEMMA StillUntouched ==
    ASSUME Inv, NEW p \in RelParts, NEW txn, NEW s, NEW h, NEW steps,
           HandleDoes(p, txn, s, h, steps), HandleSees(p, txn, s, h, steps),
           NEW k, ~WritesKey(h.step, k), Untouched(k)
    PROVE  Untouched(k)'
<1>1. txn \in Waiting /\ txn.idx \in Nat /\ txn.idx >= 1
  BY DEF HandleSees, LogLoses
<1>2. ASSUME NEW i \in 1..txn.idx PROVE ~WritesKey(steps[i], k)
  <2>1. i = txn.idx \/ i \in 1..(txn.idx - 1)
    BY <1>1
  <2>2. CASE i = txn.idx
    BY <2>2, HandleDone
  <2>3. CASE i \in 1..(txn.idx - 1)
    <3>1. steps[i] = txn.steps[i]
      BY <2>3, HandleDone
    <3> QED
      BY <1>1, <2>3, <3>1 DEF Untouched
  <2> QED
    BY <2>1, <2>2, <2>3
<1>3. ASSUME NEW w \in writes' PROVE w.key # k
  <2>1. CASE w \in writes
    BY <2>1 DEF Untouched
  <2>2. CASE w \notin writes
    <3>1. ~(txn.idx < Len(steps)) /\ Len(steps) = txn.idx
      BY <2>2, EndWritten
    <3>2. PICK i \in WriteSteps(steps) : w = UpdateAsync(steps[i], store', p)
      BY <2>2, <3>1, EndWritten
    <3>3. w.key = steps[i].key
      BY <3>1, <3>2, EndWrites
    <3>4. i \in 1..txn.idx /\ Writes(steps[i])
      BY <3>1, LenProperties DEF WriteSteps, HandleSees
    <3> QED
      BY <1>2, <3>3, <3>4 DEF WritesKey
  <2> QED
    BY <2>1, <2>2
<1>4. ASSUME NEW t \in Waiting', NEW i \in 1..(t.idx - 1) PROVE ~WritesKey(t.steps[i], k)
  <2>1. CASE t \in Waiting
    BY <2>1 DEF Untouched
  <2>2. CASE t \notin Waiting
    <3>1. t = Next1(steps, txn)
      BY <2>2, HandleWaits
    <3>2. t.steps = steps /\ t.idx - 1 = txn.idx
      BY <1>1, <3>1 DEF Next1
    <3> QED
      BY <1>2, <3>2
  <2> QED
    BY <2>1, <2>2
<1> QED
  BY <1>3, <1>4 DEF Untouched

\* The last step of the transaction that writes k goes on, or is written.
LEMMA StepCarries ==
    ASSUME Inv, NEW p \in RelParts, NEW txn, NEW s, NEW h, NEW steps,
           HandleDoes(p, txn, s, h, steps), HandleSees(p, txn, s, h, steps),
           NEW k, NEW off, NEW i \in 1..txn.idx, WritesKey(steps[i], k), steps[i].off = off,
           \A j \in (i + 1)..txn.idx : ~WritesKey(steps[j], k)
    PROVE  (\E w \in writes' : w.key = k /\ w.off = off) \/ (\E t \in Waiting' : OnWay(t, k, off))
<1>1. CASE txn.idx < Len(steps)
  <2>1. PICK y : y = Next1(steps, txn)
    OBVIOUS
  <2>2. txn.idx \in Nat
    BY DEF HandleSees
  <2>3. y.steps = steps /\ y.idx - 1 = txn.idx
    BY <2>1, <2>2 DEF Next1
  <2>4. OnWay(y, k, off)
    BY <2>3 DEF OnWay
  <2>5. y \in Waiting'
    BY <1>1, <2>1, HandleWaits
  <2> QED
    BY <2>4, <2>5
<1>2. CASE ~(txn.idx < Len(steps))
  <2>1. Len(steps) = txn.idx /\ DOMAIN steps = 1..txn.idx
    <3>1. Len(steps) = txn.idx
      BY <1>2, EndWritten
    <3>2. steps \in Seq(Steps)
      BY DEF HandleSees
    <3>3. DOMAIN steps = 1..Len(steps)
      BY ONLY <3>2, LenProperties
    <3> QED
      BY <3>1, <3>3
  <2>2. i \in WriteSteps(steps)
    BY <2>1 DEF WriteSteps, WritesKey
  <2>3. PICK w : w = UpdateAsync(steps[i], store', p)
    OBVIOUS
  <2>4. w.key = steps[i].key /\ w.off = steps[i].off
    BY <1>2, <2>2, <2>3, EndWrites
  <2>5. w \in writes'
    BY <1>2, <2>2, <2>3, EndWritten
  <2> QED
    BY <2>4, <2>5 DEF WritesKey
<1> QED
  BY <1>1, <1>2

LEMMA HandleKeepsCarried ==
    ASSUME Inv, StoredInv, NEW p \in RelParts, NEW txn, NEW s, NEW h, NEW steps,
           HandleDoes(p, txn, s, h, steps), HandleSees(p, txn, s, h, steps)
    PROVE  CarriedInv'
<1> SUFFICES ASSUME NEW k \in DOMAIN store' PROVE Carried(k)'
  BY DEF CarriedInv
<1>1. /\ Renews(s.key, h.rec, next[p]) /\ HandledHow(store, s, next[p], h)
      /\ h.step.key = s.key /\ txn.idx \in Nat /\ txn.idx >= 1
      /\ s.cmd = "REFRESH_INSTANCE" => s.pay.inst = 1 /\ s.key \notin DOMAIN store
      /\ LogLoses(p, txn)
  BY HandleRenews DEF HandleSees
<1>2. /\ DOMAIN store' = DOMAIN store \cup {s.key} /\ store'[s.key] = h.rec
      /\ \A j \in DOMAIN store : j # s.key => store'[j] = store[j]
  BY <1>1 DEF Renews
<1>3. db' = db /\ Todo(DOMAIN store, DOMAIN db, s)
  BY DEF HandleDoes
<1>4. /\ \A i \in 1..(txn.idx - 1) : steps[i] = txn.steps[i]
      /\ steps[txn.idx] = h.step
  BY HandleDone
<1>5. CASE WritesKey(h.step, k)
  <2>1. k = s.key /\ store'[k].off = h.step.off
    BY <1>1, <1>2, <1>5 DEF WritesKey, HandledHow
  <2>2. txn.idx \in 1..txn.idx /\ (txn.idx + 1)..txn.idx = {}
    BY <1>1
  <2>3. \/ \E w \in writes' : w.key = k /\ w.off = h.step.off
        \/ \E t \in Waiting' : OnWay(t, k, h.step.off)
    BY <1>4, <1>5, <2>2, StepCarries
  <2> QED
    BY <2>1, <2>3 DEF Carried
<1>6. CASE ~WritesKey(h.step, k) /\ k \in DOMAIN store
  <2>1. store'[k] = store[k]
    <3>1. CASE k # s.key
      BY <1>2, <1>6, <3>1
    <3>2. CASE k = s.key
      <4>1. h.rec = store[k]
        BY <1>1, <1>6, <3>2 DEF HandledHow, WritesKey
      <4> QED
        BY <1>2, <3>2, <4>1
    <3> QED
      BY <3>1, <3>2
  <2>2. Carried(k)
    BY <1>6 DEF StoredInv, CarriedInv
  <2>3. CASE /\ db[k].inst = store[k].inst /\ db[k].rel = store[k].rel
             /\ db[k].off = store[k].off \/ Untouched(k)
    <3>1. Untouched(k) => Untouched(k)'
      BY <1>6, StillUntouched
    <3> QED
      BY <1>3, <2>1, <2>3, <3>1 DEF Carried
  <2>4. CASE \E w \in writes : w.key = k /\ w.off = store[k].off
    <3>1. writes \subseteq writes'
      BY EndWritten
    <3> QED
      BY <2>1, <2>4, <3>1 DEF Carried
  <2>5. CASE \E t \in Waiting : OnWay(t, k, store[k].off)
    <3>1. PICK t \in Waiting : OnWay(t, k, store[k].off)
      BY <2>5
    <3>2. CASE t \in Waiting'
      BY <2>1, <3>1, <3>2 DEF Carried
    <3>3. CASE t \notin Waiting'
      <4>1. t = txn
        BY <3>3, HandleWaits
      <4>2. PICK i \in 1..(txn.idx - 1) :
               /\ WritesKey(txn.steps[i], k) /\ txn.steps[i].off = store[k].off
               /\ \A j \in (i + 1)..(txn.idx - 1) : ~WritesKey(txn.steps[j], k)
        BY <3>1, <4>1 DEF OnWay
      <4>3. i \in 1..txn.idx /\ WritesKey(steps[i], k) /\ steps[i].off = store[k].off
        BY <1>1, <1>4, <4>2
      <4>4. ASSUME NEW j \in (i + 1)..txn.idx PROVE ~WritesKey(steps[j], k)
        <5>1. j = txn.idx \/ (j \in (i + 1)..(txn.idx - 1) /\ j \in 1..(txn.idx - 1))
          BY <1>1
        <5> QED
          BY <1>4, <1>6, <4>2, <5>1
      <4>5. \/ \E w \in writes' : w.key = k /\ w.off = store[k].off
            \/ \E u \in Waiting' : OnWay(u, k, store[k].off)
        BY <4>3, <4>4, StepCarries
      <4> QED
        BY <2>1, <4>5 DEF Carried
    <3> QED
      BY <3>2, <3>3
  <2> QED
    BY <2>2, <2>3, <2>4, <2>5 DEF Carried
<1>7. CASE k \notin DOMAIN store
  <2>1. k = s.key /\ s.cmd = "REFRESH_INSTANCE" /\ ~Writes(h.step)
    BY <1>1, <1>2, <1>7 DEF HandledHow
  <2>2. store'[k].inst = 1 /\ store'[k].rel = <<>> /\ k \in DOMAIN db
    BY <1>1, <1>2, <1>3, <2>1 DEF HandledHow, Todo
  <2>3. db[k].inst = 1 /\ db[k].rel = <<>>
    BY <1>7, <2>2 DEF StoredInv, RowsInv
  <2>4. Untouched(k)
    BY <1>7 DEF Untouched, StoredInv, RowsInv, BehindInv, Behind, StepBehind, WritesKey
  <2>5. Untouched(k)'
    BY <2>1, <2>4, StillUntouched DEF WritesKey
  <2> QED
    BY <1>3, <2>2, <2>3, <2>5 DEF Carried
<1> QED
  BY <1>5, <1>6, <1>7

LEMMA HandleStored ==
    ASSUME Inv, StoredInv, NEW p \in RelParts, Handle(p)
    PROVE  StoredInv'
<1>1. PICK txn, s, h, steps : HandleDoes(p, txn, s, h, steps)
  BY HandleIs
<1>2. HandleSees(p, txn, s, h, steps)
  BY <1>1, HandleSeen
<1> QED
  BY <1>1, <1>2, HandleKeepsFits, HandleKeepsHere, HandleKeepsNew, HandleKeepsRows,
     HandleKeepsCarried DEF StoredInv

\* A message whose first step is the current one has nothing of an instance.
LEMMA OthersStay ==
    ASSUME StoredInv, UNCHANGED <<store, writes>>, \A k \in DOMAIN store : db'[k] = db[k],
           \A t \in Waiting' : t \in Waiting \/ (t.idx = 1 /\ Fits(t)),
           \A t \in Waiting : t \in Waiting' \/ t.idx = 1
    PROVE  FitsInv' /\ BehindInv' /\ CarriedInv'
<1>1. FitsInv'
  BY DEF StoredInv, FitsInv
<1>2. BehindInv'
  <2> SUFFICES ASSUME NEW t \in Waiting' PROVE Behind(store, t)
    BY DEF BehindInv
  <2>1. CASE t \in Waiting
    BY <2>1 DEF StoredInv, BehindInv
  <2>2. CASE t.idx = 1
    <3>1. 1..(t.idx - 1) = {}
      BY <2>2
    <3> QED
      BY <3>1 DEF Behind
  <2> QED
    BY <2>1, <2>2
<1>3. ASSUME NEW t, t.idx = 1, NEW k, NEW off
      PROVE  ~OnWay(t, k, off) /\ \A i \in 1..(t.idx - 1) : ~WritesKey(t.steps[i], k)
  <2>1. 1..(t.idx - 1) = {}
    BY <1>3
  <2> QED
    BY <2>1 DEF OnWay
<1>4. ASSUME NEW k, Untouched(k) PROVE Untouched(k)'
  <2>1. \A v \in writes' : v.key # k
    BY <1>4 DEF Untouched
  <2>2. ASSUME NEW t \in Waiting' PROVE \A i \in 1..(t.idx - 1) : ~WritesKey(t.steps[i], k)
    BY <1>3, <1>4 DEF Untouched
  <2> QED
    BY <2>1, <2>2 DEF Untouched
<1>5. CarriedInv'
  <2> SUFFICES ASSUME NEW k \in DOMAIN store PROVE Carried(k)'
    BY DEF CarriedInv
  <2>1. Carried(k)
    BY DEF StoredInv, CarriedInv
  <2>2. CASE \E t \in Waiting : OnWay(t, k, store[k].off)
    BY <1>3, <2>2 DEF Carried
  <2>3. CASE \E v \in writes : v.key = k /\ v.off = store[k].off
    BY <2>3 DEF Carried
  <2>4. CASE /\ db[k].inst = store[k].inst /\ db[k].rel = store[k].rel
             /\ db[k].off = store[k].off \/ Untouched(k)
    BY <1>4, <2>4 DEF Carried
  <2> QED
    BY <2>1, <2>2, <2>3, <2>4 DEF Carried
<1> QED
  BY <1>1, <1>2, <1>5

LEMMA DeliverStored ==
    ASSUME Inv, StoredInv, NEW p \in RelParts, NEW q \in RelParts, Deliver(p, q)
    PROVE  StoredInv'
<1>1. PICK pq \in RelParts \X RelParts : pq = <<p, q>> /\ pq[2] = q
  <2>1. <<p, q>> \in RelParts \X RelParts /\ <<p, q>>[2] = q
    OBVIOUS
  <2> QED
    BY <2>1
<1>2. PICK txn : txn = Head(flight[pq])
  OBVIOUS
<1>3. /\ flight[pq] # <<>>
      /\ log' = [log EXCEPT ![q] = Append(log[q], txn)]
      /\ flight' = [flight EXCEPT ![pq] = Tail(flight[pq])]
      /\ UNCHANGED <<next, store, creates, writes, db, born>>
  BY <1>1, <1>2 DEF Deliver
<1>4. /\ txn \in Of(flight[pq])
      /\ \A r \in RelParts \X RelParts : Of(flight'[r]) \subseteq Of(flight[r])
      /\ \A r \in RelParts \X RelParts : Of(flight[r]) \subseteq Of(flight'[r]) \cup {txn}
  BY <1>2, <1>3, FlightTake
<1>5. txn \in Txns
  <2>1. txn \in Waiting
    BY <1>4, WaitingIs
  <2> QED
    BY <2>1, WaitingFor DEF TxnFor
<1>6. LogGains(q, txn)
  BY <1>3, <1>5, LogPut
<1>7. Waiting' = Waiting
  BY <1>4, <1>6, WaitingCarried
<1>8. FitsInv' /\ BehindInv' /\ CarriedInv'
  BY <1>3, <1>7, OthersStay
<1>9. PartOf[Current(txn).key] = q /\ txn.idx > 1
  BY <1>1, <1>4 DEF StoredInv, HereInv
<1>10. HereInv'
  BY <1>4, <1>6, <1>9 DEF StoredInv, HereInv, LogGains
<1>11. NewInv'
  <2> SUFFICES ASSUME NEW c \in Chars PROVE NewFor(c)'
    BY DEF NewInv
  <2>1. ~IsNew(txn, c)
    BY <1>9 DEF IsNew
  <2>2. PICK r \in RelParts : r = PartOf[c]
    BY PartsType DEF RelKeys
  <2>3. /\ HasNew(log'[r], c) => HasNew(log[r], c)
        /\ OneNew(log[r], c) => OneNew(log'[r], c)
    BY <1>6, <2>1 DEF LogGains
  <2>4. NewFor(c)
    BY DEF StoredInv, NewInv
  <2>5. InCreates(c)' <=> InCreates(c)
    BY <1>3 DEF InCreates
  <2> QED
    BY <1>3, <2>2, <2>3, <2>4, <2>5 DEF NewFor
<1>12. RowsInv'
  BY <1>3 DEF StoredInv, RowsInv
<1> QED
  BY <1>8, <1>10, <1>11, <1>12 DEF StoredInv

\* A write reaches storage: if it has the latest of its instance storage has it
\* then, or had it before.
LEMMA StoreStored ==
    ASSUME Inv, StoredInv, NEW w \in writes, Store(w)
    PROVE  StoredInv'
<1>1. PICK rec : rec = [inst |-> w.inst, rel |-> w.rel, off |-> w.off]
  OBVIOUS
<1>2. /\ writes' = writes \ {w}
      /\ db' = IF w.off > db[w.key].off THEN [db EXCEPT ![w.key] = rec] ELSE db
      /\ UNCHANGED <<log, next, flight, store, creates, born>>
  BY <1>1 DEF Store
<1>3. rec.inst = w.inst /\ rec.rel = w.rel /\ rec.off = w.off
  BY <1>1
<1>4. db = [k \in DOMAIN db |-> db[k]] /\ DOMAIN store \subseteq DOMAIN db
  BY DEF Inv, StoreInv, MapFor
<1>5. w.key \in DOMAIN store /\ RowBehind(store, w.key, w) /\ w.off \in Nat
  BY DEF StoredInv, RowsInv, Inv, StoreInv, WriteFor
<1>6. PICK new : new = db'
  OBVIOUS
<1>7. /\ DOMAIN new = DOMAIN db
      /\ \A k \in DOMAIN db : k # w.key => new[k] = db[k]
      /\ w.off > db[w.key].off => new[w.key] = rec
      /\ ~(w.off > db[w.key].off) => new[w.key] = db[w.key]
  BY <1>2, <1>4, <1>5, <1>6
<1>8. ASSUME NEW k \in DOMAIN store
      PROVE  store[k].off < next[PartOf[k]] /\ RowBehind(store, k, db[k]) /\ RowBehind(store, k, new[k])
  <2>1. store[k].off < next[PartOf[k]] /\ RowBehind(store, k, db[k])
    BY DEF StoredInv, RowsInv
  <2>2. CASE k = w.key
    BY <1>3, <1>5, <1>7, <2>1, <2>2 DEF RowBehind
  <2>3. CASE k # w.key
    BY <1>4, <1>7, <2>1, <2>3
  <2> QED
    BY <2>1, <2>2, <2>3
<1>9. RowsInv'
  <2>1. \A k \in DOMAIN new \ DOMAIN store :
           new[k].inst = 1 /\ new[k].rel = <<>> /\ new[k].off < next[PartOf[k]]
    BY <1>5, <1>7 DEF StoredInv, RowsInv
  <2>2. /\ \A v \in creates : v.off < next[PartOf[v.key]]
        /\ \A v \in writes : v.key \in DOMAIN store /\ RowBehind(store, v.key, v)
    BY DEF StoredInv, RowsInv
  <2> QED
    BY <1>2, <1>6, <1>8, <2>1, <2>2 DEF RowsInv
<1>10. Waiting' = Waiting
  BY <1>2 DEF Waiting
<1>11. FitsInv' /\ HereInv' /\ NewInv' /\ BehindInv'
  BY <1>2, <1>10 DEF StoredInv, FitsInv, HereInv, NewInv, NewFor, InCreates, BehindInv
<1>12. ASSUME NEW k, Untouched(k) PROVE Untouched(k)' /\ k # w.key
  BY <1>2, <1>10, <1>12 DEF Untouched
<1>13. CarriedInv'
  <2> SUFFICES ASSUME NEW k \in DOMAIN store PROVE Carried(k)'
    BY <1>2 DEF CarriedInv
  <2>1. Carried(k)
    BY DEF StoredInv, CarriedInv
  <2>2. CASE \E t \in Waiting : OnWay(t, k, store[k].off)
    BY <1>2, <1>10, <2>2 DEF Carried
  <2>3. CASE /\ db[k].inst = store[k].inst /\ db[k].rel = store[k].rel
             /\ db[k].off = store[k].off \/ Untouched(k)
    <3>1. CASE k # w.key
      BY <1>2, <1>4, <1>6, <1>7, <1>12, <2>3, <3>1 DEF Carried
    <3>2. CASE k = w.key
      <4>1. db[k].off = store[k].off /\ store[k].off \in Nat
        BY <1>12, <2>3, <3>2, QueuesOf DEF RecFor
      <4>2. ~(w.off > db[k].off)
        BY <1>5, <3>2, <4>1 DEF RowBehind
      <4> QED
        BY <1>2, <1>6, <1>7, <2>3, <3>2, <4>1, <4>2 DEF Carried
    <3> QED
      BY <3>1, <3>2
  <2>4. CASE \E v \in writes : v.key = k /\ v.off = store[k].off
    <3>1. PICK v \in writes : v.key = k /\ v.off = store[k].off
      BY <2>4
    <3>2. CASE v # w
      BY <1>2, <3>1, <3>2 DEF Carried
    <3>3. CASE v = w
      <4>1. k = w.key /\ w.off = store[k].off
        BY <3>1, <3>3
      <4>2. new[k].off = store[k].off
        <5>1. CASE w.off > db[k].off
          BY <1>3, <1>7, <4>1, <5>1
        <5>2. CASE ~(w.off > db[k].off)
          <6>1. db[k].off \in Nat /\ db[k].off <= store[k].off
            BY <1>4, <1>8, QueuesOf DEF RecFor, RowBehind
          <6> QED
            BY <1>5, <1>7, <4>1, <5>2, <6>1
        <5> QED
          BY <5>1, <5>2
      <4>3. new[k].inst = store[k].inst /\ new[k].rel = store[k].rel
        BY <1>8, <4>2 DEF RowBehind
      <4> QED
        BY <1>2, <1>6, <4>2, <4>3 DEF Carried
    <3> QED
      BY <3>2, <3>3
  <2> QED
    BY <2>1, <2>2, <2>3, <2>4 DEF Carried
<1> QED
  BY <1>9, <1>11, <1>13 DEF StoredInv

\* VALIDATE_CREATE: what was a message about a new instance is a CREATE step.
LEMMA ValidateCreateStored ==
    ASSUME Inv, StoredInv, NEW p \in RelParts, ValidateCreate(p)
    PROVE  StoredInv'
<1>1. PICK txn, w : txn = Head(log[p]) /\ w = [key |-> txn.steps[1].key, off |-> next[p]]
  OBVIOUS
<1>2. /\ log[p] # <<>> /\ txn.steps[1].cmd = "VALIDATE_CREATE"
      /\ creates' = creates \cup {w}
      /\ log' = [log EXCEPT ![p] = Tail(log[p])]
      /\ next' = [next EXCEPT ![p] = next[p] + 1]
      /\ UNCHANGED <<flight, store, writes, db, born>>
  BY <1>1 DEF ValidateCreate
<1>3. LogLoses(p, txn)
  BY <1>1, <1>2, LogTake
<1>4. txn \in Waiting /\ txn \in Of(log[p])
  BY <1>3 DEF LogLoses
<1>5. txn.idx = 1
  BY <1>2, <1>4 DEF StoredInv, FitsInv, Fits
<1>6. PICK c \in Chars : c = txn.steps[1].key
  BY <1>2, <1>4, WaitingFor DEF TxnFor
<1>7. PartOf[c] = p
  BY <1>4, <1>5, <1>6 DEF StoredInv, HereInv, Current
<1>8. w.key = c /\ w.off = next[p]
  BY <1>1, <1>6
<1>9. Waiting' \subseteq Waiting /\ Waiting \subseteq Waiting' \cup {txn}
  BY <1>2, <1>3, WaitingTake
<1>10. FitsInv' /\ BehindInv' /\ CarriedInv'
  BY <1>2, <1>5, <1>9, OthersStay
<1>11. HereInv'
  BY <1>2, <1>3 DEF StoredInv, HereInv, LogLoses
<1>12. NewInv'
  <2> SUFFICES ASSUME NEW d \in Chars PROVE NewFor(d)'
    BY DEF NewInv
  <2>1. PICK r \in RelParts : r = PartOf[d]
    BY PartsType DEF RelKeys
  <2>2. /\ HasNew(log'[r], d) => HasNew(log[r], d)
        /\ OneNew(log[r], d) => OneNew(log'[r], d)
        /\ r = p /\ IsNew(txn, d) =>
              HasNew(log[r], d) /\ (OneNew(log[r], d) => ~HasNew(log'[r], d))
    BY <1>3 DEF LogLoses
  <2>3. /\ OneNew(log[r], d)
        /\ HasNew(log[r], d) => ~InCreates(d)
        /\ \A u, v \in creates : u.key = d /\ v.key = d => u = v
        /\ HasNew(log[r], d) \/ InCreates(d) => d \in born /\ d \notin DOMAIN store
        /\ d \in DOMAIN store => d \in born
    BY <2>1 DEF StoredInv, NewInv, NewFor
  <2>4. CASE d # c
    <3>1. InCreates(d)' <=> InCreates(d)
      BY <1>2, <1>8, <2>4 DEF InCreates
    <3>2. \A u, v \in creates' : u.key = d /\ v.key = d => u = v
      BY <1>2, <1>8, <2>3, <2>4
    <3> QED
      BY <1>2, <2>1, <2>2, <2>3, <3>1, <3>2 DEF NewFor
  <2>5. CASE d = c
    <3>1. r = p /\ IsNew(txn, d)
      BY <1>2, <1>5, <1>6, <1>7, <2>1, <2>5 DEF IsNew
    <3>2. HasNew(log[r], d) /\ ~HasNew(log'[r], d) /\ ~InCreates(d)
      BY <2>2, <2>3, <3>1
    <3>3. \A u, v \in creates' : u.key = d /\ v.key = d => u = v
      BY <1>2, <3>2 DEF InCreates
    <3> QED
      BY <1>2, <2>1, <2>2, <2>3, <3>2, <3>3 DEF NewFor
  <2> QED
    BY <2>4, <2>5
<1>13. RowsInv'
  <2>1. /\ \A k \in DOMAIN store : store[k].off \in Nat
        /\ \A k \in DOMAIN db : db[k].off \in Nat /\ PartOf[k] \in RelParts
        /\ DOMAIN store \subseteq DOMAIN db
        /\ \A r \in RelParts : next[r] \in Nat
    BY QueuesOf, PartsType DEF RecFor
  <2>2. \A v \in creates : v.off \in Nat /\ PartOf[v.key] \in RelParts
    BY PartsType DEF Inv, CountInv, RelKeys
  <2>3. /\ next'[p] = next[p] + 1
        /\ \A r \in RelParts, n \in Nat : n < next[r] => n < next'[r]
    <3>1. next = [r \in RelParts |-> next[r]]
      BY DEF Inv, CountInv
    <3> QED
      BY <1>2, <2>1, <3>1
  <2>4. \A v \in creates' : v.off < next'[PartOf[v.key]]
    <3>1. w.off < next'[PartOf[w.key]]
      BY <1>7, <1>8, <2>1, <2>3
    <3> QED
      BY <1>2, <2>2, <2>3, <3>1 DEF StoredInv, RowsInv
  <2>5. \A k \in DOMAIN store : store[k].off < next'[PartOf[k]] /\ RowBehind(store, k, db[k])
    BY <2>1, <2>3 DEF StoredInv, RowsInv
  <2>6. \A k \in DOMAIN db \ DOMAIN store :
           db[k].inst = 1 /\ db[k].rel = <<>> /\ db[k].off < next'[PartOf[k]]
    BY <2>1, <2>3 DEF StoredInv, RowsInv
  <2>7. \A v \in writes : v.key \in DOMAIN store /\ RowBehind(store, v.key, v)
    BY DEF StoredInv, RowsInv
  <2> QED
    BY <1>2, <2>4, <2>5, <2>6, <2>7 DEF RowsInv
<1> QED
  BY <1>10, <1>11, <1>12, <1>13 DEF StoredInv

\* A transaction begins in the partition of its first step.
LEMMA Begun ==
    ASSUME Inv, StoredInv, NEW p \in RelParts, NEW txn \in Txns,
           log' = [log EXCEPT ![p] = Append(log[p], txn)],
           UNCHANGED <<flight, store, writes>>, \A k \in DOMAIN store : db'[k] = db[k],
           txn.idx = 1, Fits(txn), PartOf[txn.steps[1].key] = p
    PROVE  /\ FitsInv' /\ HereInv' /\ BehindInv' /\ CarriedInv'
           /\ LogGains(p, txn)
<1>1. LogGains(p, txn)
  BY LogPut
<1>2. Waiting' = Waiting \cup {txn}
  BY <1>1, WaitingPut
<1>3. FitsInv' /\ BehindInv' /\ CarriedInv'
  BY <1>2, OthersStay
<1>4. PartOf[Current(txn).key] = p
  BY DEF Current
<1>5. HereInv'
  BY <1>1, <1>4 DEF StoredInv, HereInv, LogGains
<1> QED
  BY <1>1, <1>3, <1>5

\* A CREATE step: the row is what the REFRESH_INSTANCE puts in memory.
LEMMA CreateStored ==
    ASSUME Inv, StoredInv, NEW w \in creates, Create(w)
    PROVE  StoredInv'
<1>1. w.key \in Chars /\ w.key \in RelKeys /\ w.off \in Nat
  BY DEF Inv, CountInv, RelKeys
<1>2. PICK c \in Chars, p \in RelParts : c = w.key /\ p = PartOf[c]
  BY <1>1, PartsType
<1> DEFINE a == Step("REFRESH_INSTANCE", c, Copy(c, 1))
           b == Step("REQUEST_RELATED", Player, Copy(c, 1))
           steps == <<a>> \o <<b>>
<1>3. PICK rec, txn : /\ rec = [inst |-> 1, rel |-> <<>>, off |-> w.off]
                      /\ txn = [steps |-> steps, idx |-> 1]
  OBVIOUS
<1>4. /\ creates' = creates \ {w}
      /\ db' = Put(db, c, rec)
      /\ log' = [log EXCEPT ![p] = Append(log[p], txn)]
      /\ UNCHANGED <<next, flight, store, writes, born>>
  BY <1>2, <1>3 DEF Create, RequestRelatedSteps
<1>5. Copy(c, 1) \in Copies /\ Copy(c, 1).inst = 1
  BY <1>1, <1>2 DEF Copy, Copies
<1>6. a \in Steps /\ a.cmd = "REFRESH_INSTANCE" /\ a.key = c /\ a.pay.inst = 1
  BY <1>1, <1>2, <1>5, StepType DEF Cmds
<1>7. b \in Steps /\ b.cmd = "REQUEST_RELATED"
  BY <1>5, StepType DEF Cmds, RelKeys
<1> HIDE DEF a, b
<1>8. steps \in Seq(Steps) /\ Len(steps) = 2 /\ steps[1] = a /\ steps[2] = b
  BY <1>6, <1>7
<1> HIDE DEF steps
<1>9. txn \in Txns /\ txn.idx = 1 /\ txn.steps = steps
  BY <1>3, <1>8 DEF Txns
<1>10. Fits(txn)
  <2>1. 1..Len(steps) = {1, 2}
    BY <1>8
  <2>2. Local(steps)
    BY <1>6, <1>7, <1>8, <2>1 DEF Local
  <2>3. ASSUME NEW i \in {1, 2}, steps[i].cmd = "REFRESH_INSTANCE"
        PROVE  i = 1 /\ steps[i].key \in Chars /\ steps[i].pay.inst = 1
    BY <1>6, <1>7, <1>8, <2>3
  <2> QED
    BY <1>6, <1>8, <1>9, <2>1, <2>2, <2>3 DEF Fits
<1>11. /\ \A d : IsNew(txn, d) <=> d = c
       /\ PartOf[txn.steps[1].key] = p
  BY <1>2, <1>6, <1>8, <1>9 DEF IsNew
<1>12. NewFor(c) /\ InCreates(c)
  BY <1>2 DEF StoredInv, NewInv, InCreates
<1>13. /\ ~HasNew(log[p], c) /\ OneNew(log[p], c) /\ c \in born /\ c \notin DOMAIN store
       /\ \A u, v \in creates : u.key = c /\ v.key = c => u = v
  BY <1>2, <1>12 DEF NewFor
<1>14. PICK new : new = db'
  OBVIOUS
<1>15. /\ DOMAIN new = DOMAIN db \cup {c} /\ new[c] = rec
       /\ \A k \in DOMAIN db : k # c => new[k] = db[k]
  <2>1. PICK map : map = db
    OBVIOUS
  <2>2. new = Put(map, c, rec)
    BY <1>4, <1>14, <2>1
  <2>3. /\ DOMAIN new = DOMAIN map \cup {c} /\ new[c] = rec
        /\ \A k \in DOMAIN map : k # c => new[k] = map[k]
    BY <2>2 DEF Put
  <2> QED
    BY <2>1, <2>3
<1>16. \A k \in DOMAIN store : k \in DOMAIN db /\ new[k] = db[k]
  BY <1>13, <1>15, QueuesOf
<1>17. FitsInv' /\ HereInv' /\ BehindInv' /\ CarriedInv' /\ LogGains(p, txn)
  BY <1>4, <1>9, <1>10, <1>11, <1>14, <1>16, Begun
<1>18. NewInv'
  <2> SUFFICES ASSUME NEW d \in Chars PROVE NewFor(d)'
    BY DEF NewInv
  <2>1. PICK r \in RelParts : r = PartOf[d]
    BY PartsType DEF RelKeys
  <2>2. /\ HasNew(log'[r], d) => HasNew(log[r], d) \/ IsNew(txn, d)
        /\ OneNew(log[r], d) /\ (IsNew(txn, d) => ~HasNew(log[r], d)) => OneNew(log'[r], d)
    BY <1>17 DEF LogGains
  <2>3. /\ OneNew(log[r], d)
        /\ HasNew(log[r], d) => ~InCreates(d)
        /\ \A u, v \in creates : u.key = d /\ v.key = d => u = v
        /\ HasNew(log[r], d) \/ InCreates(d) => d \in born /\ d \notin DOMAIN store
        /\ d \in DOMAIN store => d \in born
    BY <2>1 DEF StoredInv, NewInv, NewFor
  <2>4. \A u, v \in creates' : u.key = d /\ v.key = d => u = v
    BY <1>4, <2>3
  <2>5. CASE d = c
    <3>1. ~InCreates(d)'
      BY <1>2, <1>4, <1>13, <2>5 DEF InCreates
    <3>2. OneNew(log'[r], d)
      BY <1>2, <1>13, <2>1, <2>2, <2>3, <2>5
    <3> QED
      BY <1>4, <1>13, <2>1, <2>4, <2>5, <3>1, <3>2 DEF NewFor
  <2>6. CASE d # c
    <3>1. ~IsNew(txn, d)
      BY <1>11, <2>6
    <3>2. InCreates(d)' <=> InCreates(d)
      BY <1>2, <1>4, <2>6 DEF InCreates
    <3> QED
      BY <1>4, <2>1, <2>2, <2>3, <2>4, <3>1, <3>2 DEF NewFor
  <2> QED
    BY <2>5, <2>6
<1>19. RowsInv'
  <2>1. rec.inst = 1 /\ rec.rel = <<>> /\ rec.off < next[PartOf[c]]
    BY <1>2, <1>3 DEF StoredInv, RowsInv
  <2>2. \A k \in DOMAIN new \ DOMAIN store :
           new[k].inst = 1 /\ new[k].rel = <<>> /\ new[k].off < next[PartOf[k]]
    BY <1>15, <2>1 DEF StoredInv, RowsInv
  <2>3. \A k \in DOMAIN store : store[k].off < next[PartOf[k]] /\ RowBehind(store, k, new[k])
    BY <1>16 DEF StoredInv, RowsInv
  <2>4. \A v \in creates' : v.off < next[PartOf[v.key]]
    BY <1>4 DEF StoredInv, RowsInv
  <2>5. \A v \in writes : v.key \in DOMAIN store /\ RowBehind(store, v.key, v)
    BY DEF StoredInv, RowsInv
  <2> QED
    BY <1>4, <1>14, <2>2, <2>3, <2>4, <2>5 DEF RowsInv
<1> QED
  BY <1>17, <1>18, <1>19 DEF StoredInv

LEMMA AskCreateStored ==
    ASSUME Inv, StoredInv, NEW c \in Chars, AskCreate(c)
    PROVE  StoredInv'
<1> DEFINE step == Step("VALIDATE_CREATE", c, NoPay)
<1>1. c \in RelKeys
  BY DEF RelKeys
<1>2. step \in Steps /\ step.cmd = "VALIDATE_CREATE" /\ step.key = c
  BY <1>1, StepType, NoPayType DEF Cmds
<1>3. PICK p \in RelParts : p = PartOf[c]
  BY <1>1, PartsType
<1>4. PICK txn : txn = [steps |-> <<step>>, idx |-> 1]
  OBVIOUS
<1>5. /\ c \notin born /\ born' = born \cup {c}
      /\ log' = [log EXCEPT ![p] = Append(log[p], txn)]
      /\ UNCHANGED <<next, flight, store, creates, writes, db>>
  BY <1>3, <1>4 DEF AskCreate
<1> HIDE DEF step
<1>6. <<step>> \in Seq(Steps) /\ Len(<<step>>) = 1 /\ <<step>>[1] = step
  BY <1>2
<1>7. txn \in Txns /\ txn.idx = 1 /\ Len(txn.steps) = 1 /\ txn.steps[1] = step
  BY <1>4, <1>6 DEF Txns
<1>8. Fits(txn)
  <2>1. 1..Len(txn.steps) = {1} /\ txn.idx..Len(txn.steps) = {1}
    BY <1>7
  <2> QED
    BY <1>2, <1>7, <2>1 DEF Fits, Local
<1>9. /\ \A d : IsNew(txn, d) <=> d = c
      /\ PartOf[txn.steps[1].key] = p
  BY <1>2, <1>3, <1>7 DEF IsNew
<1>10. FitsInv' /\ HereInv' /\ BehindInv' /\ CarriedInv' /\ LogGains(p, txn)
  BY <1>5, <1>7, <1>8, <1>9, Begun
<1>11. NewInv'
  <2> SUFFICES ASSUME NEW d \in Chars PROVE NewFor(d)'
    BY DEF NewInv
  <2>1. PICK r \in RelParts : r = PartOf[d]
    BY PartsType DEF RelKeys
  <2>2. /\ HasNew(log'[r], d) => HasNew(log[r], d) \/ IsNew(txn, d)
        /\ OneNew(log[r], d) /\ (IsNew(txn, d) => ~HasNew(log[r], d)) => OneNew(log'[r], d)
    BY <1>10 DEF LogGains
  <2>3. /\ OneNew(log[r], d)
        /\ HasNew(log[r], d) => ~InCreates(d)
        /\ \A u, v \in creates : u.key = d /\ v.key = d => u = v
        /\ HasNew(log[r], d) \/ InCreates(d) => d \in born /\ d \notin DOMAIN store
        /\ d \in DOMAIN store => d \in born
    BY <2>1 DEF StoredInv, NewInv, NewFor
  <2>4. InCreates(d)' <=> InCreates(d)
    BY <1>5 DEF InCreates
  <2>5. CASE d = c
    BY <1>5, <2>1, <2>2, <2>3, <2>4, <2>5 DEF NewFor
  <2>6. CASE d # c
    <3>1. ~IsNew(txn, d)
      BY <1>9, <2>6
    <3> QED
      BY <1>5, <2>1, <2>2, <2>3, <2>4, <3>1 DEF NewFor
  <2> QED
    BY <2>5, <2>6
<1>12. RowsInv'
  BY <1>5 DEF StoredInv, RowsInv
<1> QED
  BY <1>10, <1>11, <1>12 DEF StoredInv

LEMMA AskStored ==
    ASSUME SamePartition, Inv, StoredInv, NEW req \in Requests, Ask(req)
    PROVE  StoredInv'
<1> DEFINE steps == [i \in DOMAIN req |-> Step("Change", req[i], NoPay)]
<1>1. req \in Seq(RelKeys) /\ req # <<>> /\ Len(req) \in Nat /\ DOMAIN req = 1..Len(req)
  BY ChangesAssumption, LenProperties DEF RelKeys
<1>2. ASSUME NEW i \in DOMAIN req
      PROVE  steps[i] \in Steps /\ steps[i].cmd = "Change" /\ steps[i].key = req[i]
  <2>1. req[i] \in RelKeys
    BY <1>1, ElementOfSeq
  <2> QED
    BY <2>1, StepType, NoPayType DEF Cmds
<1>3. steps \in Seq(Steps) /\ DOMAIN steps = DOMAIN req
  BY <1>1, <1>2
<1>4. Len(steps) = Len(req)
  BY <1>1, <1>3, LenProperties
<1>5. 1 \in DOMAIN req /\ Len(req) \in DOMAIN req
  BY <1>1, EmptySeq
<1>6. PICK p \in RelParts : p = PartOf[req[1]]
  <2>1. req[1] \in RelKeys
    BY <1>1, <1>5, ElementOfSeq
  <2> QED
    BY <2>1, PartsType
<1>7. PICK txn : txn = [steps |-> steps, idx |-> 1]
  OBVIOUS
<1>8. /\ log' = [log EXCEPT ![p] = Append(log[p], txn)]
      /\ UNCHANGED <<next, flight, store, creates, writes, db, born>>
  BY <1>6, <1>7 DEF Ask
<1> HIDE DEF steps
<1>9. txn \in Txns /\ txn.idx = 1 /\ txn.steps = steps
  BY <1>3, <1>7 DEF Txns
<1>10. Local(steps)
  BY <1>1, <1>2, <1>4, <1>5 DEF Local, SamePartition
<1>11. Fits(txn)
  BY <1>1, <1>2, <1>4, <1>5, <1>9, <1>10 DEF Fits
<1>12. (\A d : ~IsNew(txn, d)) /\ PartOf[txn.steps[1].key] = p
  BY <1>2, <1>5, <1>6, <1>9 DEF IsNew
<1>13. FitsInv' /\ HereInv' /\ BehindInv' /\ CarriedInv' /\ LogGains(p, txn)
  BY <1>8, <1>9, <1>11, <1>12, Begun
<1>14. NewInv'
  <2> SUFFICES ASSUME NEW d \in Chars PROVE NewFor(d)'
    BY DEF NewInv
  <2>1. PICK r \in RelParts : r = PartOf[d]
    BY PartsType DEF RelKeys
  <2>2. /\ HasNew(log'[r], d) => HasNew(log[r], d)
        /\ OneNew(log[r], d) => OneNew(log'[r], d)
    BY <1>12, <1>13 DEF LogGains
  <2>3. NewFor(d)
    BY DEF StoredInv, NewInv
  <2>4. InCreates(d)' <=> InCreates(d)
    BY <1>8 DEF InCreates
  <2> QED
    BY <1>8, <2>1, <2>2, <2>3, <2>4 DEF NewFor
<1>15. RowsInv'
  BY <1>8 DEF StoredInv, RowsInv
<1> QED
  BY <1>13, <1>14, <1>15 DEF StoredInv

LEMMA InitStored == Init => StoredInv
<1> SUFFICES ASSUME Init PROVE StoredInv
  OBVIOUS
<1>1. Of(<<>>) = {} /\ DOMAIN <<>> = {}
  BY EmptySeq DEF Of
<1>2. /\ \A p \in RelParts : log[p] = <<>> /\ next[p] = 1
      /\ \A pq \in RelParts \X RelParts : flight[pq] = <<>>
      /\ creates = {} /\ writes = {} /\ born = {} /\ db = store
      /\ DOMAIN store = {Player} /\ store[Player].off = 0
  BY DEF Init
<1>3. Waiting = {}
  <2>1. ASSUME NEW t PROVE t \notin Waiting
    BY <1>1, <1>2, WaitingIs
  <2> QED
    BY <2>1
<1>4. HereInv
  BY <1>1, <1>2 DEF HereInv
<1>5. NewInv
  <2> SUFFICES ASSUME NEW c \in Chars PROVE NewFor(c)
    BY DEF NewInv
  <2>1. PartOf[c] \in RelParts /\ c # Player
    BY PartsType, RelatedKeysAssumption DEF RelKeys
  <2>2. log[PartOf[c]] = <<>>
    BY <1>2, <2>1
  <2>3. OneNew(<<>>, c) /\ ~HasNew(<<>>, c)
    BY <1>1 DEF OneNew, HasNew
  <2> QED
    BY <1>2, <2>1, <2>2, <2>3 DEF NewFor, InCreates
<1>6. RowsInv
  <2>1. PartOf[Player] \in RelParts
    BY PartsType DEF RelKeys
  <2> QED
    BY <1>2, <2>1 DEF RowsInv, RowBehind
<1> QED
  BY <1>2, <1>3, <1>4, <1>5, <1>6 DEF StoredInv, FitsInv, BehindInv, CarriedInv, Carried

LEMMA QuietStored == Inv /\ StoredInv => RelatedStored
<1> SUFFICES ASSUME Inv, StoredInv, Quiet, NEW k \in DOMAIN store
             PROVE  db[k].inst = store[k].inst /\ db[k].rel = store[k].rel
  BY DEF RelatedStored
<1>1. Of(<<>>) = {}
  BY EmptySeq DEF Of
<1>2. /\ \A p \in RelParts : log[p] = <<>>
      /\ \A pq \in RelParts \X RelParts : flight[pq] = <<>>
      /\ writes = {}
  <2>1. DOMAIN flight = RelParts \X RelParts
    BY DEF Inv, FlightInv
  <2> QED
    BY <2>1 DEF Quiet
<1>3. \A t : t \notin Waiting
  BY <1>1, <1>2, WaitingIs
<1>4. Carried(k)
  BY DEF StoredInv, CarriedInv
<1> QED
  BY <1>2, <1>3, <1>4 DEF Carried

\* When every transaction has ended, storage has for each instance what is in
\* memory, its copies too, whatever consumer ended the transactions and in
\* whatever order their writes came: a write has the latest of its instance or is
\* not newer than one that has it (produceNextStep, ramdb.Update).  The changes
\* of one transaction are in one partition: the consumer that writes the last of
\* them takes the copies from its own instance store (RefreshRelatedSteps).
THEOREM StoredInTheEnd ==
    ASSUME SamePartition
    PROVE  Spec => []RelatedStored
<1>1. Init => Inv /\ StoredInv
  BY InitInv, InitStored
<1>2. Inv /\ StoredInv /\ [Next]_vars => StoredInv'
  <2> SUFFICES ASSUME Inv, StoredInv, [Next]_vars PROVE StoredInv'
    OBVIOUS
  <2>1. CASE UNCHANGED vars
    <3>1. UNCHANGED <<log, next, flight, store, creates, writes, db, born>>
      BY <2>1 DEF vars
    <3>2. Waiting' = Waiting
      BY <3>1 DEF Waiting
    <3> QED
      BY <3>1, <3>2 DEF StoredInv, FitsInv, HereInv, NewInv, NewFor, InCreates, RowsInv,
         BehindInv, CarriedInv, Carried, Untouched
  <2>2. CASE Next
    BY <2>2, HandleStored, DeliverStored, StoreStored, ValidateCreateStored, CreateStored,
       AskCreateStored, AskStored DEF Next
  <2> QED
    BY <2>1, <2>2
<1>3. Inv /\ StoredInv => RelatedStored
  BY QuietStored
<1> QED
  BY <1>1, <1>2, <1>3, Invariant, PTL DEF Spec
=============================================================================
