------------------------------ MODULE MCApecs -------------------------------
(* Small instances of the APECS engine: which clients ask for what. *)
EXTENDS Apecs

CONSTANTS k1, k2, t1, t2, t3

\* Two partitions with a key in each, and a single one.
TwoParts == [k \in {k1, k2, NoKey} |-> IF k = k2 THEN 1 ELSE 0]
OnePart == [k \in {k1, k2, NoKey} |-> 0]

Req(cmd, key) == [cmd |-> cmd, key |-> key]

\* Transactions over both keys in opposite orders, and one in between.
CrossedRequests ==
    (t1 :> <<Req("Change", k1), Req("Change", k2)>>)
    @@ (t2 :> <<Req("Change", k2), Req("Change", k1)>>)
    @@ (t3 :> <<Req("Change", k1)>>)

\* Two commands on one key.
ColdRequests ==
    (t1 :> <<Req("Change", k1)>>)
    @@ (t2 :> <<Req("Change", k1)>>)

\* The life of an instance: created with a key the storage target chooses,
\* asked for, read, updated and deleted; one transaction fails half way.
LifeRequests ==
    (t1 :> <<Req("Create", NoKey), Req("Query", k1)>>)
    @@ (t2 :> <<Req("Change", k2), Req("Reject", k2)>>)
    @@ (t3 :> <<Req("Delete", k2), Req("Read", k1), Req("Update", k1)>>)
=============================================================================
