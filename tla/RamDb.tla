------------------------------- MODULE RamDb --------------------------------
(***************************************************************************)
(* The storage target, as operators on the map from keys to items.  The    *)
(* offset guard is the one of the instance store; a row that does not      *)
(* exist accepts a write with any offset, and Delete keeps no tombstone.   *)
(***************************************************************************)
EXTENDS InstanceStore

\* Without the offset guard: the write that comes last wins.
DbUpdateUnguarded(db, key, inst, off) == Put(db, key, [inst |-> inst, off |-> off])

\* Create is Update; both apply the item unless a newer one is there.
DbUpdate(db, key, inst, off) ==
    IF key \in DOMAIN db /\ ~OffsetGT(off, db[key].off)
    THEN db
    ELSE Put(db, key, [inst |-> inst, off |-> off])

DbDelete(db, key, off) ==
    IF key \in DOMAIN db /\ ~OffsetGT(off, db[key].off)
    THEN db
    ELSE [k \in DOMAIN db \ {key} |-> db[k]]
=============================================================================
