----------------------------- MODULE CmpdOffset -----------------------------
(***************************************************************************)
(* The compound offset that versions every instance, in the instance store *)
(* and in storage: the generation of the PROCESS topic, the partition and  *)
(* the Kafka offset of the message whose handling wrote the instance.      *)
(***************************************************************************)
EXTENDS Naturals

CmpdOffsets == [gen : Nat, part : Nat, off : Nat]

\* kafka.go OffsetGT: generation first, then partition, then offset.
OffsetGT(lhs, rhs) ==
    \/ lhs.gen > rhs.gen
    \/ lhs.gen = rhs.gen /\ lhs.part > rhs.part
    \/ lhs.gen = rhs.gen /\ lhs.part = rhs.part /\ lhs.off > rhs.off

\* kafka.go OffsetGTE: the generations and the partitions differ where they
\* are compared, so only the last comparison really admits equality.
OffsetGTE(lhs, rhs) ==
    IF lhs.gen # rhs.gen THEN lhs.gen >= rhs.gen
    ELSE IF lhs.part # rhs.part THEN lhs.part >= rhs.part
    ELSE lhs.off >= rhs.off
=============================================================================
