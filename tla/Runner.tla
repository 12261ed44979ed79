------------------------------- MODULE Runner -------------------------------
(***************************************************************************)
(* The runner ("rpg run") with processes: it reads the directives of the   *)
(* consumers topic, keeps a map of the programs it has started, starts and *)
(* signals processes, and looks once a second for programs that have       *)
(* ended.                                                                  *)
(*                                                                         *)
(* running is the set of keys of the map.  A handle in it has one process: *)
(* held is the set of the programs whose handle's process is alive, and    *)
(* live[p] counts the processes of p that are alive and were not told to   *)
(* end, whoever holds them.  A process that was signalled goes on for a    *)
(* while; it is in none of these.                                          *)
(*                                                                         *)
(* The runner reads the consumers topic from the end it finds when it      *)
(* starts and commits no offset, so what was sent before that is read by   *)
(* nobody: consTopic is the part of the topic from its next offset on.     *)
(***************************************************************************)
EXTENDS Integers, Sequences

CONSTANTS Programs,   \* the keys of programs
          Base,       \* what the runner starts by itself: admin, portal, watch
          MaxStarts,  \* bound: how often the runner is started
          MaxFaults   \* bound: programs that end by themselves or do not start

ASSUME BaseAssumption == Base \subseteq Programs
ASSUME RunnerBoundsAssumption == MaxStarts \in Nat /\ MaxFaults \in Nat

VARIABLES consTopic,  \* the directives the runner has yet to read, oldest first
          up,         \* the runner's process is there
          reading,    \* it has found its first offset in the topic
          running, held, live,
          starts, faults

runnerVars == <<up, reading, running, held, live, starts, faults>>

Directives == [dir : {"START", "STOP"}, prog : Programs]

RunnerInit ==
    /\ consTopic = <<>>
    /\ up = FALSE
    /\ reading = FALSE
    /\ running = {}
    /\ held = {}
    /\ live = [p \in Programs |-> 0]
    /\ starts = 0
    /\ faults = 0

\* updateRunning's first test, left out.
AlreadyRunningUnchecked(p) == FALSE

AlreadyRunning(p) == p \in running

\* Kill signals the process of a handle, if it has one that is alive.
Killed(ps) == [p \in Programs |-> IF p \in ps \cap held THEN live[p] - 1 ELSE live[p]]

\* updateRunning.  The handle's Start may fail (exec: ok is FALSE); the program
\* is then not put into the map.  A failure of newRunnableFunc (no pipe can be
\* opened) is left out: it is logged only, startRunnable then uses the nil
\* handle, and the panic ends the runner as a kill would, its programs
\* unsignalled.
UpdateRunning(d, ok) ==
    CASE d.dir = "START" /\ ~AlreadyRunning(d.prog) /\ ok ->
            /\ running' = running \cup {d.prog}
            /\ held' = held \cup {d.prog}
            /\ live' = [live EXCEPT ![d.prog] = @ + 1]
      [] d.dir = "STOP" /\ d.prog \in running ->
            /\ running' = running \ {d.prog}
            /\ held' = held \ {d.prog}
            /\ live' = Killed({d.prog})
      [] OTHER -> UNCHANGED <<running, held, live>>

\* RunConsumerPrograms up to its loop: an empty map, the reader of the
\* consumers topic is set off, and the base programs are started.
RunnerStart(started) ==
    /\ ~up
    /\ starts < MaxStarts
    /\ started \subseteq Base
    /\ started # Base => faults < MaxFaults
    /\ up' = TRUE
    /\ running' = started
    /\ held' = started
    /\ live' = [p \in Programs |-> IF p \in started THEN live[p] + 1 ELSE live[p]]
    /\ starts' = starts + 1
    /\ faults' = IF started = Base THEN faults ELSE faults + 1
    /\ UNCHANGED <<consTopic, reading>>

\* A directive is sent on the consumers topic.
Send(d) == consTopic' = IF reading THEN Append(consTopic, d) ELSE consTopic

\* PAST_LAST_MATCH: the reader starts at the end of the topic.  It runs beside
\* the start of the base programs.
QueryWatermark ==
    /\ up
    /\ ~reading
    /\ reading' = TRUE
    /\ UNCHANGED <<consTopic, up, running, held, live, starts, faults>>

HandleDirective(ok) ==
    /\ up
    /\ consTopic # <<>>
    /\ ~ok => Head(consTopic).dir = "START" /\ faults < MaxFaults
    /\ UpdateRunning(Head(consTopic), ok)
    /\ consTopic' = Tail(consTopic)
    /\ faults' = IF ok THEN faults ELSE faults + 1
    /\ UNCHANGED <<up, reading, starts>>

\* doMaintenance: for the programs whose process is gone, Start is called on
\* the handle's exec.Cmd, which has been started before and returns an error.
Maintenance ==
    /\ up
    /\ running # held
    /\ UNCHANGED <<consTopic, runnerVars>>

\* The process of a program ends: a bailout, a Fatal, a crash.
Exit(p) ==
    /\ p \in held
    /\ held' = held \ {p}
    /\ live' = [live EXCEPT ![p] = @ - 1]
    /\ UNCHANGED <<consTopic, up, reading, running, starts>>

\* ctx.Done: every handle in the map is killed, and the runner ends.
RunnerStop ==
    /\ up
    /\ up' = FALSE
    /\ reading' = FALSE
    /\ consTopic' = <<>>
    /\ live' = Killed(running)
    /\ running' = {}
    /\ held' = {}
    /\ UNCHANGED <<starts, faults>>

-----------------------------------------------------------------------------
RunnerTypeOK ==
    /\ consTopic \in Seq(Directives)
    /\ up \in BOOLEAN
    /\ reading \in BOOLEAN
    /\ running \subseteq Programs
    /\ held \subseteq running
    /\ live \in [Programs -> Nat]
    /\ starts \in 0..MaxStarts
    /\ faults \in 0..MaxFaults

\* A process that nobody has told to end has a handle in the runner's map,
\* and a program has one such process at most, through repeated STARTs,
\* programs that end, and stops and restarts of the runner
\* (updateRunning's test and the loop at ctx.Done in manager.go).
NoOrphan == \A p \in Programs : live[p] = IF p \in held THEN 1 ELSE 0
=============================================================================
