------------------------------- MODULE MCMgmt -------------------------------
(***************************************************************************)
(* A small platform for Mgmt.  Three definitions: one with more PROCESS    *)
(* partitions than the limit, one that raises the generation of the        *)
(* PROCESS topic and names a secondary target, and one that is refused.    *)
(***************************************************************************)
EXTENDS Mgmt

MCMaxPartition == 2

Target(name, primary) == [name |-> name, primary |-> primary]

\* Three partitions are more than the limit.
First == [topics |-> [process |-> [cur |-> [gen |-> 0, parts |-> 3],
                                   fut |-> NoFuture, progs |-> <<>>]],
          targets |-> <<Target("main", TRUE)>>]

Second == [topics |-> [process |-> [cur |-> [gen |-> 2, parts |-> 0],
                                    fut |-> [gen |-> 1, parts |-> 3], progs |-> <<>>]],
           targets |-> <<Target("main", TRUE), Target("copy", FALSE)>>]

\* Two primary targets.
Refused == [First EXCEPT !.targets = <<Target("main", TRUE), Target("copy", TRUE)>>]

MCRawDefs == <<First, Second, Refused>>

MCAdminProg == ProgKey("", 0, 0, "admin")
MCBase == {MCAdminProg}
MCPrograms == MCBase \cup AllProgs(Completed(First)) \cup AllProgs(Completed(Second))
=============================================================================
