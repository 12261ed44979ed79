--------------------------- MODULE InstanceStore ----------------------------
(***************************************************************************)
(* The in-memory cache of instances that a PROCESS consumer keeps, as      *)
(* operators on its Go map: a function whose domain is the set of cached   *)
(* keys.  A write is applied only when its compound offset is greater than *)
(* the one of the cached record; Remove leaves no trace of the offset.     *)
(***************************************************************************)
EXTENDS CmpdOffset

InstanceRecord(Insts) == [inst : Insts, off : CmpdOffsets]

\* The store, and a database, is a map from some of the keys to records.
IsMapTo(map, Keys, Recs) ==
    DOMAIN map \subseteq Keys /\ map \in [DOMAIN map -> Recs]

Put(map, key, rec) ==
    [k \in DOMAIN map \cup {key} |-> IF k = key THEN rec ELSE map[k]]

\* The test the wrong way round: only an older write is applied.
StoreSetOlder(store, key, inst, off) ==
    IF key \in DOMAIN store /\ OffsetGT(off, store[key].off)
    THEN store
    ELSE Put(store, key, [inst |-> inst, off |-> off])

\* The record once made is never changed.
StoreSetOnce(store, key, inst, off) ==
    IF key \in DOMAIN store THEN store
    ELSE Put(store, key, [inst |-> inst, off |-> off])

\* Set and SetInstance: an out of order write is logged and ignored.
StoreSet(store, key, inst, off) ==
    IF key \in DOMAIN store /\ ~OffsetGT(off, store[key].off)
    THEN store
    ELSE Put(store, key, [inst |-> inst, off |-> off])

StoreRemove(store, key) == [k \in DOMAIN store \ {key} |-> store[k]]

\* What a restarted consumer is left with: the records of the other ones.
StoreOfOthers(store, lost) == [k \in DOMAIN store \ lost |-> store[k]]
=============================================================================
