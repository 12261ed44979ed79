----------------------------- MODULE MCRelated ------------------------------
(* A player with two characters: where they are, and what is asked for. *)
EXTENDS Related

CONSTANTS pl, c1, c2

\* The characters share a partition, or each has its own.
SharedParts == [k \in {pl, c1, c2} |-> IF k = pl THEN 0 ELSE 1]
OwnParts == [k \in {pl, c1, c2} |-> IF k = pl THEN 0 ELSE IF k = c1 THEN 1 ELSE 2]

\* Changes of one instance, and one of both characters in one transaction.
MixedRequests == {<<pl>>, <<c1>>, <<c1, c2>>}
PlayerRequests == {<<pl>>}
=============================================================================
