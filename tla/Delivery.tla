------------------------------ MODULE Delivery ------------------------------
(***************************************************************************)
(* What the consumers of a topic partition promise to what they feed: a    *)
(* consumer starts at some message and from there on handles every         *)
(* message, in the order of the offsets.  It may handle one again, and it  *)
(* never leaves one out.                                                   *)
(***************************************************************************)
EXTENDS Naturals

CONSTANTS Members   \* the programs that consume the partition

VARIABLES produced, \* number of messages in the partition: their offsets are
                    \* 0..produced-1
          handled   \* handled[m]: offsets of the messages that m has handled

vars == <<produced, handled>>

Init ==
    /\ produced = 0
    /\ handled = [m \in Members |-> {}]

Produce ==
    /\ produced' = produced + 1
    /\ UNCHANGED handled

\* The first message, one that was handled before, or the one after such a one.
Handle(m) ==
    /\ \E o \in 0..(produced - 1) :
          /\ \/ handled[m] = {}
             \/ o \in handled[m]
             \/ \E prev \in handled[m] : o = prev + 1
          /\ handled' = [handled EXCEPT ![m] = @ \cup {o}]
    /\ UNCHANGED produced

Next == Produce \/ \E m \in Members : Handle(m)

Spec == Init /\ [][Next]_vars

\* What is handled has no gaps: between two handled messages every message is
\* handled.
NoGap ==
    \A m \in Members : \A i, j \in handled[m] : \A o \in i..j : o \in handled[m]
=============================================================================
