-------------------------- MODULE MCApecsConsumer ---------------------------
(* Small instances of the consumers of one topic partition. *)
EXTENDS ApecsConsumer

CONSTANTS db1, db2
=============================================================================
