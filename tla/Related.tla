------------------------------ MODULE Related -------------------------------
(***************************************************************************)
(* Related concerns: with its instance a concern keeps copies of the       *)
(* instances it is related to.  As in the rpg example, a character names   *)
(* its player (a field with an id), and a player has its characters (the   *)
(* reverse of that field).  Copies are passed on by steps that handlers    *)
(* add to the transaction: REQUEST_RELATED after a CREATE, REFRESH_RELATED *)
(* as its answer and after every change.                                   *)
(*                                                                         *)
(* What Apecs models in full is kept short here: every consumer has its    *)
(* instances in memory (no cache miss, crash or error), the UPDATE_ASYNC   *)
(* writes that end a transaction reach storage in any order, and the       *)
(* partition of a VALIDATE_CREATE is that of the key.  An instance is the  *)
(* number of its version; rel is the sequence of the copies.               *)
(***************************************************************************)
EXTENDS InstanceStore, Sequences, FiniteSets

CONSTANTS Player,      \* the key of a player
          Chars,       \* the keys of its characters
          PartOf,      \* the partition of a key
          Requests,    \* sequences of keys: transactions of changes
          MaxChanges   \* bound: transactions of changes

ASSUME RelatedKeysAssumption == Player \notin Chars
ASSUME RelatedPartsAssumption == PartOf \in [{Player} \cup Chars -> Nat]
ASSUME ChangesAssumption == \A req \in Requests : req \in Seq({Player} \cup Chars) \ {<<>>}
ASSUME MaxChangesAssumption == MaxChanges \in Nat

RelKeys == {Player} \cup Chars
RelParts == {PartOf[k] : k \in RelKeys}

VARIABLES log,     \* the messages of each PROCESS partition still to be read
          next,    \* the offset of the next one
          flight,  \* what the producer of one partition has for another
          store,   \* the instance stores, each key in that of its partition
          creates, \* CREATE steps on their way to storage
          writes,  \* UPDATE_ASYNC steps on their way to storage
          db,      \* storage
          born,    \* the characters whose creation was asked for
          asked,   \* the number of transactions of changes
          early    \* history: changed before it knew its player

vars == <<log, next, flight, store, creates, writes, db, born, asked, early>>

Packed(inst, rel) == [inst |-> inst, rel |-> rel]
Copy(key, inst) == [key |-> key, inst |-> inst]

NoInst == 0
Step(cmd, key, pay) ==
    [cmd |-> cmd, key |-> key, pay |-> pay, off |-> 0, inst |-> NoInst,
     result |-> Packed(NoInst, <<>>)]
NoPay == Copy(Player, NoInst)

Init ==
    /\ log = [p \in RelParts |-> <<>>]
    /\ next = [p \in RelParts |-> 1]
    /\ flight = [pq \in RelParts \X RelParts |-> <<>>]
    /\ store = [k \in {Player} |-> [inst |-> 1, rel |-> <<>>, off |-> 0]]
    /\ creates = {}
    /\ writes = {}
    /\ db = store
    /\ born = {}
    /\ asked = 0
    /\ early = {}

-----------------------------------------------------------------------------
\* UpsertRelated without the search for the key.
UpsertAppends(rel, copy) == Append(rel, copy)

\* UpsertRelated; for a field that is not repeated, its assignment.
Upsert(rel, copy) ==
    IF \E i \in DOMAIN rel : rel[i].key = copy.key
    THEN [i \in DOMAIN rel |-> IF rel[i].key = copy.key THEN copy ELSE rel[i]]
    ELSE Append(rel, copy)

\* RequestRelatedSteps: only a character has a field with an id.
RequestRelatedSteps(key, inst) ==
    IF key \in Chars THEN <<Step("REQUEST_RELATED", Player, Copy(key, inst))>> ELSE <<>>

\* No related instance is told of the change.
RefreshRelatedStepsNone(key, inst, rel) == <<>>

\* RefreshRelatedSteps: to each related instance in turn, then a READ that brings
\* the transaction back.
RefreshRelatedSteps(key, inst, rel) ==
    LET refresh == [i \in DOMAIN rel |->
                       Step("REFRESH_RELATED", rel[i].key, Copy(key, inst))]
    IN IF refresh = <<>> THEN <<>> ELSE Append(refresh, Step("READ", key, NoPay))

\* SetRelated and SetInstance: the messages of a key are those of its partition.
SetRelated(rec, rel, off) ==
    IF off > rec.off THEN [rec EXCEPT !.rel = rel, !.off = off] ELSE rec
SetInstance(rec, inst, off) ==
    IF off > rec.off THEN [rec EXCEPT !.inst = inst, !.off = off] ELSE rec

\* HandleLogicCommand of a step at an offset: the record of the key after it, the
\* step with its result, and the steps it adds.
HandleRefreshInstance(s, off) ==
    [rec |-> [inst |-> s.pay.inst, rel |-> <<>>, off |-> off],
     step |-> [s EXCEPT !.off = off], add |-> <<>>]

HandleRequestRelated(s, rec, off) ==
    LET rel == Upsert(rec.rel, s.pay)
    IN [rec |-> SetRelated(rec, rel, off),
        step |-> [s EXCEPT !.off = off, !.result = Packed(rec.inst, rel)],
        add |-> <<Step("REFRESH_RELATED", s.pay.key, Copy(s.key, rec.inst))>>]

HandleRefreshRelated(s, rec, off) ==
    LET after == SetRelated(rec, Upsert(rec.rel, s.pay), off)
    IN [rec |-> after,
        step |-> [s EXCEPT !.off = off, !.result = Packed(after.inst, after.rel)],
        add |-> <<>>]

HandleChange(s, rec, off) ==
    [rec |-> SetInstance(rec, rec.inst + 1, off),
     step |-> [s EXCEPT !.off = off, !.inst = rec.inst + 1],
     add |-> RefreshRelatedSteps(s.key, rec.inst + 1, rec.rel)]

HandleRead(s, rec, off) ==
    [rec |-> rec, step |-> [s EXCEPT !.off = off, !.result = Packed(rec.inst, rec.rel)],
     add |-> <<>>]

Handled(s, off) ==
    CASE s.cmd = "REFRESH_INSTANCE" -> HandleRefreshInstance(s, off)
      [] s.cmd = "REQUEST_RELATED"  -> HandleRequestRelated(s, store[s.key], off)
      [] s.cmd = "REFRESH_RELATED"  -> HandleRefreshRelated(s, store[s.key], off)
      [] s.cmd = "Change"           -> HandleChange(s, store[s.key], off)
      [] s.cmd = "READ"             -> HandleRead(s, store[s.key], off)

-----------------------------------------------------------------------------
\* The end of a transaction at partition p: a write for every key with a changed
\* instance or a related step, and the last such step of a key counts.  A changed
\* instance goes with the related data in the instance store of partition p.
Writes(s) == s.inst # NoInst \/ s.cmd \in {"REQUEST_RELATED", "REFRESH_RELATED"}

\* The first step of a key counts.
WriteStepsFirst(steps) ==
    {i \in DOMAIN steps : Writes(steps[i])
        /\ ~\E j \in 1..(i - 1) : Writes(steps[j]) /\ steps[j].key = steps[i].key}

WriteSteps(steps) ==
    {i \in DOMAIN steps : Writes(steps[i])
        /\ ~\E j \in (i + 1)..Len(steps) : Writes(steps[j]) /\ steps[j].key = steps[i].key}

GetRelated(st, key, p) ==
    IF key \in DOMAIN st /\ PartOf[key] = p THEN st[key].rel ELSE <<>>

UpdateAsync(s, st, p) ==
    LET packed == IF s.inst # NoInst THEN Packed(s.inst, GetRelated(st, s.key, p)) ELSE s.result
    IN [key |-> s.key, inst |-> packed.inst, rel |-> packed.rel, off |-> s.off]

\* One message: the handler, the steps it adds after its own, and the next step
\* or the end (handleApecsTxn, InsertSteps and produceNextStep).
Handle(p) ==
    /\ log[p] # <<>>
    /\ Head(log[p]).steps[1].cmd # "VALIDATE_CREATE"
    /\ LET txn == Head(log[p])
           s == txn.steps[txn.idx]
           h == Handled(s, next[p])
           steps == SubSeq(txn.steps, 1, txn.idx - 1) \o <<h.step>> \o h.add
                    \o SubSeq(txn.steps, txn.idx + 1, Len(txn.steps))
           more == txn.idx < Len(steps)
           to == <<p, PartOf[steps[txn.idx + 1].key]>>
       IN /\ store' = Put(store, s.key, h.rec)
          /\ flight' = IF more
                       THEN [flight EXCEPT ![to] = Append(@, [steps |-> steps, idx |-> txn.idx + 1])]
                       ELSE flight
          /\ writes' = IF more THEN writes
                       ELSE writes \cup {UpdateAsync(steps[i], store', p) : i \in WriteSteps(steps)}
          /\ early' = IF s.cmd = "Change" /\ s.key \in Chars /\ store[s.key].rel = <<>>
                      THEN early \cup {s.key} ELSE early
    /\ log' = [log EXCEPT ![p] = Tail(@)]
    /\ next' = [next EXCEPT ![p] = @ + 1]
    /\ UNCHANGED <<creates, db, born, asked>>

\* The producer of a partition delivers, in order for each destination.
Deliver(p, q) ==
    /\ flight[<<p, q>>] # <<>>
    /\ log' = [log EXCEPT ![q] = Append(@, Head(flight[<<p, q>>]))]
    /\ flight' = [flight EXCEPT ![<<p, q>>] = Tail(@)]
    /\ UNCHANGED <<next, store, creates, writes, db, born, asked, early>>

\* STORAGE UPDATE_ASYNC: ramdb.Update.
Store(w) ==
    /\ w \in writes
    /\ writes' = writes \ {w}
    /\ db' = IF w.off > db[w.key].off
             THEN [db EXCEPT ![w.key] = [inst |-> w.inst, rel |-> w.rel, off |-> w.off]]
             ELSE db
    /\ UNCHANGED <<log, next, flight, store, creates, born, asked, early>>

\* VALIDATE_CREATE of a character leaves nothing in memory; the STORAGE CREATE
\* that follows is versioned with its offset, ...
ValidateCreate(p) ==
    /\ log[p] # <<>>
    /\ Head(log[p]).steps[1].cmd = "VALIDATE_CREATE"
    /\ creates' = creates \cup {[key |-> Head(log[p]).steps[1].key, off |-> next[p]]}
    /\ log' = [log EXCEPT ![p] = Tail(@)]
    /\ next' = [next EXCEPT ![p] = @ + 1]
    /\ UNCHANGED <<flight, store, writes, db, born, asked, early>>

\* ... adds a REFRESH_INSTANCE and the requests to related instances, ...
Create(w) ==
    /\ w \in creates
    /\ creates' = creates \ {w}
    /\ db' = Put(db, w.key, [inst |-> 1, rel |-> <<>>, off |-> w.off])
    /\ log' = [log EXCEPT ![PartOf[w.key]] = Append(@,
                  [steps |-> <<Step("REFRESH_INSTANCE", w.key, Copy(w.key, 1))>>
                             \o RequestRelatedSteps(w.key, 1), idx |-> 1])]
    /\ UNCHANGED <<next, flight, store, writes, born, asked, early>>

\* ... and a client asks for it.
AskCreate(c) ==
    /\ c \notin born
    /\ born' = born \cup {c}
    /\ log' = [log EXCEPT ![PartOf[c]] = Append(@,
                  [steps |-> <<Step("VALIDATE_CREATE", c, NoPay)>>, idx |-> 1])]
    /\ UNCHANGED <<next, flight, store, creates, writes, db, asked, early>>

\* A client's transaction of changes of instances that exist.
Ask(req) ==
    /\ asked < MaxChanges
    /\ \A i \in DOMAIN req : req[i] \in DOMAIN store
    /\ log' = [log EXCEPT ![PartOf[req[1]]] = Append(@,
                  [steps |-> [i \in DOMAIN req |-> Step("Change", req[i], NoPay)], idx |-> 1])]
    /\ asked' = asked + 1
    /\ UNCHANGED <<next, flight, store, creates, writes, db, born, early>>

Next ==
    \/ \E p \in RelParts : Handle(p)
    \/ \E p, q \in RelParts : Deliver(p, q)
    \/ \E w \in writes : Store(w)
    \/ \E p \in RelParts : ValidateCreate(p)
    \/ \E w \in creates : Create(w)
    \/ \E c \in Chars : AskCreate(c)
    \/ \E req \in Requests : Ask(req)

Spec == Init /\ [][Next]_vars

-----------------------------------------------------------------------------
IsRel(key, rel) ==
    /\ \A i \in DOMAIN rel : rel[i].inst \in Nat \ {0}
    /\ IF key = Player
       THEN \A i, j \in DOMAIN rel : rel[i].key \in Chars /\ (i # j => rel[i].key # rel[j].key)
       ELSE Len(rel) <= 1 /\ \A i \in DOMAIN rel : rel[i].key = Player

\* An instance store and storage hold, for each key, an instance and copies of
\* the right keys, one of each (UpsertRelated).
TypeOK ==
    /\ DOMAIN store \subseteq DOMAIN db
    /\ DOMAIN db \subseteq RelKeys
    /\ \A k \in DOMAIN store : store[k].inst \in Nat \ {0} /\ IsRel(k, store[k].rel)
    /\ \A k \in DOMAIN db : db[k].inst \in Nat \ {0} /\ IsRel(k, db[k].rel)
    /\ \A w \in writes : w.key \in DOMAIN db /\ w.inst \in Nat \ {0} /\ IsRel(w.key, w.rel)
    /\ next \in [RelParts -> Nat]
    /\ asked \in 0..MaxChanges
    /\ early \subseteq Chars

Quiet ==
    /\ \A p \in RelParts : log[p] = <<>>
    /\ \A pq \in DOMAIN flight : flight[pq] = <<>>
    /\ creates = {} /\ writes = {}

CopyOf(k, of) == {store[of].rel[i].inst : i \in {j \in DOMAIN store[of].rel : store[of].rel[j].key = k}}

\* When every transaction has ended, a player and a character hold each other's
\* latest instance, however creations, changes and the steps they add overtake
\* each other (REQUEST_RELATED, REFRESH_RELATED, RefreshRelatedSteps).  A
\* character that was changed before it was told of its player has nobody to
\* send the change to: its copy may stay old.
RelatedCatchesUp ==
    Quiet => \A c \in DOMAIN store \cap Chars :
                /\ CopyOf(Player, c) = {store[Player].inst}
                /\ c \notin early => CopyOf(c, Player) = {store[c].inst}

\* ... and storage holds the instance and the copies that are in memory, whatever
\* consumer ended the transactions and in whatever order their writes came
\* (produceNextStep, ramdb.Update).
RelatedStored ==
    Quiet => \A k \in DOMAIN store : db[k].inst = store[k].inst /\ db[k].rel = store[k].rel
=============================================================================
