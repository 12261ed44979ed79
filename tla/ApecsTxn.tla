------------------------------ MODULE ApecsTxn ------------------------------
(***************************************************************************)
(* An APECS transaction and the operations on its list of steps.  A        *)
(* message on a topic is a whole transaction: the steps done so far with   *)
(* their results, the current step, and the steps still to come.           *)
(*                                                                         *)
(* Only the forward direction is modelled: nothing in the code sets        *)
(* Direction to REVERSE or fills in ReverseSteps.  cur is CurrentStepIdx   *)
(* counted from 1.                                                         *)
(***************************************************************************)
EXTENDS Sequences, RamDb, SequencesExt

CONSTANTS Nil,   \* a nil pointer or an empty byte slice
          NoKey  \* the empty key

Step(sys, cmd, key, payload, off) ==
    [sys |-> sys, cmd |-> cmd, key |-> key, payload |-> payload,
     off |-> off, rslt |-> Nil]

Result(code, key, payload, inst) ==
    [code |-> code, key |-> key, payload |-> payload, inst |-> inst]

\* commands.go: what the platform gives a meaning to; any other command is
\* one of the application's, and only those inherit the previous payload.
ReservedCommands ==
    {"Create", "Read", "Update", "UpdateAsync", "Delete", "ValidateCreate",
     "ValidateUpdate", "RefreshInstance", "FlushInstance", "RequestRelated",
     "RefreshRelated"}

IsKeylessStep(step) ==
    \/ step.sys = "STORAGE" /\ step.cmd = "Create"
    \/ step.sys = "PROCESS" /\ step.cmd = "ValidateCreate"

IsInstanceStoreStep(step) ==
    step.sys = "PROCESS" /\ step.cmd \in {"RefreshInstance", "FlushInstance"}

\* NewApecsTxn puts a validation in front of each CREATE and UPDATE; CREATE
\* itself goes to storage.  The validation step is built without a Key.
ExpandStep(step) ==
    LET validate(cmd) == Step("PROCESS", cmd, NoKey, step.payload, Nil)
    IN CASE step.sys = "PROCESS" /\ step.cmd = "Create" ->
              <<validate("ValidateCreate"), [step EXCEPT !.sys = "STORAGE"]>>
         [] step.sys = "PROCESS" /\ step.cmd = "Update" ->
              <<validate("ValidateUpdate"), step>>
         [] OTHER -> <<step>>

NewApecsTxn(id, uponError, steps) ==
    [id |-> id, upon |-> uponError, cur |-> 1,
     steps |-> FlattenSeq([i \in DOMAIN steps |-> ExpandStep(steps[i])])]

CurrentStep(txn) == txn.steps[txn.cur]

\* The result of the previous step, if there is one.
PreviousResult(txn) ==
    IF txn.cur = 1 THEN Nil ELSE txn.steps[txn.cur - 1].rslt

SetCurrentStep(txn, step) == [txn EXCEPT !.steps[txn.cur] = step]

\* The steps come to stand at positions i, i+1, ... of the list.
InsertSteps(txn, i, steps) ==
    [txn EXCEPT !.steps = SubSeq(@, 1, i - 1) \o steps \o SubSeq(@, i, Len(@))]

CanAdvance(txn) == txn.cur < Len(txn.steps)
=============================================================================
