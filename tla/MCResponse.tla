----------------------------- MODULE MCResponse -----------------------------
(* Calls in traces of their own, and one registration at a time. *)
EXTENDS Response, TLC

CONSTANTS c1, c2, tr1, tr2

OwnTraces == (c1 :> tr1) @@ (c2 :> tr2)
=============================================================================
