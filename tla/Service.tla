------------------------------ MODULE Service ------------------------------
(***************************************************************************)
(* The service commands: start, config, pause (of which stop is an alias), *)
(* terminate, the resyncs of the execution and the consensus client, and   *)
(* the maintenance of the execution client's volume (prune-eth1,           *)
(* export-eth1-data and import-eth1-data). They act on the containers      *)
(* through docker, step by step, while the node's tasks restart and pause  *)
(* the validator client, docker restarts what crashed, and other runs of   *)
(* the CLI do the same.                                                    *)
(* A start that changes the validator client has to wait until the old one *)
(* has been silent for long enough not to sign twice.                      *)
(***************************************************************************)
EXTENDS Naturals, FiniteSets

CONSTANTS
    Sessions,   \* runs of the CLI
    Kinds,      \* [Sessions -> the commands that a run may be of]
    Clients,    \* validator clients
    NoSession,  \* no run
    Delay,      \* the 15 minutes, in ticks
    MaxEvents   \* bound: crashes, restarts and pauses by others, and installs

Maintenance == {"prune-eth1", "export-eth1-data", "import-eth1-data"}
Resyncs == {"resync-eth1", "resync-eth2"}
AllKinds == {"start", "config", "pause", "terminate"} \cup Maintenance \cup Resyncs
Boxes == {"eth1", "eth2"}

ASSUME ServiceAssumption ==
    /\ NoSession \notin Sessions
    /\ Kinds \in [Sessions -> SUBSET AllKinds]
    /\ Delay \in Nat \ {0} /\ MaxEvents \in Nat
    /\ Clients # {}

Never == Delay + 1      \* a container that has not finished yet
Times == 0..Never

VARIABLES
    settings,  \* the settings file
    upgrade,   \* the upgrade flag file of an installation is there
    vc,        \* the validator container
    box,       \* [Boxes -> container of the execution or consensus client]
    worker,    \* the run whose container works on the eth1 volume
    silence,   \* history: since the validator container last ran
    session,   \* [Sessions -> state of the run]
    events

vars == <<settings, upgrade, vc, box, worker, silence, session, events>>

Settings == [client : Clients, upToDate : BOOLEAN]

Container == [
    client   : Clients,     \* by its image
    state    : {"missing", "running", "restarting", "paused", "exited"},
    finished : Times]       \* since FinishedAt

Box == [state : {"missing", "running", "exited"}, volume : BOOLEAN]

Session == [
    pc      : {"new", "ui", "save", "load", "upgrade", "image", "time", "status",
               "halt", "wait", "warn", "api", "all", "flag", "config-flag",
               "compose", "stop", "remove", "delete", "work", "working",
               "restart", "done", "failed"},
    kind    : AllKinds,
    cfg     : Settings,    \* the settings it has read
    since   : Times,       \* since the finish time it waits after
    told    : BOOLEAN,     \* it said that the start is safe
    forced  : BOOLEAN,     \* history: the operator skipped the delay
    paused  : BOOLEAN,     \* history: the container was paused when looked at
    crossed : BOOLEAN,     \* history: another changed what it had looked at
    unsaved : BOOLEAN]     \* history: the upgraded settings were not written

(* Types; and a container of a client has its volume as long as it exists,  *)
(* whichever commands remove, delete and start it at the same time.         *)
TypeOK ==
    /\ settings \in Settings
    /\ upgrade \in BOOLEAN
    /\ vc \in Container
    /\ box \in [Boxes -> Box]
    /\ \A b \in Boxes : box[b].state # "missing" => box[b].volume
    /\ worker \in Sessions \cup {NoSession}
    /\ silence \in 0..Delay
    /\ session \in [Sessions -> Session]
    /\ events \in Nat

NoContainer(c) == [client |-> c, state |-> "missing", finished |-> Never]
Running(c) == [client |-> c, state |-> "running", finished |-> Never]

\* A run that has read no settings yet.
Idle(pc, kind) ==
    [pc |-> pc, kind |-> kind,
     cfg |-> [client |-> CHOOSE c \in Clients : TRUE, upToDate |-> TRUE],
     since |-> 0, told |-> FALSE, forced |-> FALSE, paused |-> FALSE,
     crossed |-> FALSE, unsaved |-> FALSE]

Init ==
    /\ settings \in [client : Clients, upToDate : {TRUE}]
    /\ upgrade = FALSE
    /\ vc = Running(settings.client)
    /\ box = [b \in Boxes |-> [state |-> "running", volume |-> TRUE]]
    /\ worker = NoSession
    /\ silence = 0
    /\ session = [s \in Sessions |-> Idle("new", "start")]
    /\ events = 0

-----------------------------------------------------------------------------

At(s, pc) == session[s].pc = pc

Active(s) == session[s].pc \notin {"new", "done", "failed"}

\* A run ends, and what it knew is gone.
Ended(pc) == Idle(pc, "start")

\* The other runs did not see the change of this step.
Crossing(s) == [r \in Sessions |->
    IF r # s /\ Active(r) THEN [session[r] EXCEPT !.crossed = TRUE]
    ELSE session[r]]

Goto(s, pc) == session' = [session EXCEPT ![s].pc = pc]

FirstStep(kind) ==
    CASE kind = "start" -> "load"
      [] kind = "config" -> "ui"
      [] kind \in {"pause", "terminate"} -> "compose"
      [] kind \in Resyncs \cup Maintenance -> "stop"

Begin(s) ==
    /\ At(s, "new")
    /\ \E kind \in Kinds[s] :
           session' = [session EXCEPT ![s] = Idle(FirstStep(kind), kind)]
    /\ UNCHANGED <<settings, upgrade, vc, box, worker, silence, events>>

\* A call of docker or a check fails, or the operator stops the run.
Fail(s) ==
    /\ Active(s)
    /\ session' = [session EXCEPT ![s] = Ended("failed")]
    /\ UNCHANGED <<settings, upgrade, vc, box, worker, silence, events>>

-----------------------------------------------------------------------------
(* config *)

\* Seeded fault: the settings are edited as they are, old defaults and all.
LoadForUiAsIs(s) ==
    /\ At(s, "ui")
    /\ session' = [session EXCEPT ![s].cfg = settings, ![s].crossed = FALSE,
                                  ![s].pc = "save"]
    /\ UNCHANGED <<settings, upgrade, vc, box, worker, silence, events>>

\* loadConfig: after an installation the defaults are updated first.
LoadForUi(s) ==
    /\ At(s, "ui")
    /\ session' = [session EXCEPT
          ![s].cfg = [settings EXCEPT !.upToDate = @ \/ upgrade],
          ![s].crossed = FALSE, ![s].pc = "save"]
    /\ UNCHANGED <<settings, upgrade, vc, box, worker, silence, events>>

SaveFromUi(s) ==
    /\ At(s, "save")
    /\ \E c \in Clients :
           settings' = [session[s].cfg EXCEPT !.client = c]
    /\ session' = [Crossing(s) EXCEPT ![s].pc = "load"]
    /\ UNCHANGED <<upgrade, vc, box, worker, silence, events>>

-----------------------------------------------------------------------------
(* start, which config and the resyncs end with *)

\* Where a run goes when startService returns without an error.
AfterStart(s) ==
    IF session[s].kind = "config" THEN Goto(s, "config-flag")
    ELSE session' = [session EXCEPT ![s] = Ended("done")]

\* startService loads the settings again; only start itself asks about an
\* upgrade, and only its flag ignores the slashing timer.
LoadConfig(s) ==
    /\ At(s, "load")
    /\ \E forced \in IF session[s].kind = "start" THEN BOOLEAN ELSE {FALSE} :
           session' = [session EXCEPT
              ![s].cfg = settings, ![s].forced = forced,
              ![s].crossed = IF session[s].kind = "start" THEN FALSE ELSE @,
              ![s].pc = IF upgrade /\ session[s].kind = "start" THEN "upgrade"
                        ELSE IF forced THEN "api" ELSE "image"]
    /\ UNCHANGED <<settings, upgrade, vc, box, worker, silence, events>>

\* The settings are not valid, or the operator cancels: no error is returned.
Decline(s) ==
    /\ session[s].pc \in {"load", "upgrade", "warn"}
    /\ AfterStart(s)
    /\ UNCHANGED <<settings, upgrade, vc, box, worker, silence, events>>

\* The error of writing the file is not looked at.
UpdateDefaults(s) ==
    /\ At(s, "upgrade")
    /\ LET new == [session[s].cfg EXCEPT !.upToDate = TRUE]
           next == IF session[s].forced THEN "api" ELSE "image"
       IN
       \/ /\ settings' = new
          /\ session' = [Crossing(s) EXCEPT ![s].cfg = new, ![s].pc = next]
       \/ /\ session' = [session EXCEPT ![s].cfg = new, ![s].pc = next,
                                        ![s].unsaved = TRUE]
          /\ UNCHANGED settings
    /\ UNCHANGED <<upgrade, vc, box, worker, silence, events>>

\* checkForValidatorChange: an error of one of its calls leads to a warning.
CheckFails(s) ==
    /\ session[s].pc \in {"image", "time", "status", "halt"}
    /\ Goto(s, "warn")
    /\ UNCHANGED <<settings, upgrade, vc, box, worker, silence, events>>

GetDockerImage(s) ==
    /\ At(s, "image")
    /\ vc.state # "missing"
    /\ Goto(s, IF vc.client = session[s].cfg.client THEN "api" ELSE "time")
    /\ UNCHANGED <<settings, upgrade, vc, box, worker, silence, events>>

GetDockerContainerShutdownTime(s) ==
    /\ At(s, "time")
    /\ vc.state # "missing"
    /\ session' = [session EXCEPT ![s].pc = "status", ![s].since = vc.finished]
    /\ UNCHANGED <<settings, upgrade, vc, box, worker, silence, events>>

\* A container that never finished or that runs is stopped; not one that is
\* paused or that docker is about to restart.
GetDockerStatus(s) ==
    /\ At(s, "status")
    /\ vc.state # "missing"
    /\ session' = [session EXCEPT
          ![s].paused = vc.state = "paused",
          ![s].pc = IF session[s].since = Never \/ vc.state = "running"
                    THEN "halt" ELSE "wait"]
    /\ UNCHANGED <<settings, upgrade, vc, box, worker, silence, events>>

Stopped(c) ==
    IF c.state \in {"missing", "exited"} THEN c
    ELSE [c EXCEPT !.state = "exited", !.finished = 0]

\* Seeded fault: the delay is counted from the finish time that was read before.
StopKeepingTime(s) ==
    /\ At(s, "halt")
    /\ vc.state # "missing"
    /\ vc' = Stopped(vc)
    /\ session' = [Crossing(s) EXCEPT
          ![s].since = IF @ = Never THEN Delay ELSE @, ![s].pc = "wait"]
    /\ UNCHANGED <<settings, upgrade, box, worker, silence, events>>

StopValidator(s) ==
    /\ At(s, "halt")
    /\ vc.state # "missing"
    /\ vc' = Stopped(vc)
    /\ session' = [Crossing(s) EXCEPT ![s].since = 0, ![s].pc = "wait"]
    /\ UNCHANGED <<settings, upgrade, box, worker, silence, events>>

WaitIsOver(s) ==
    /\ At(s, "wait")
    /\ session[s].since >= Delay
    /\ session' = [session EXCEPT ![s].pc = "api", ![s].told = TRUE]
    /\ UNCHANGED <<settings, upgrade, vc, box, worker, silence, events>>

\* "Press y when you understand the above warning".
ConfirmWarning(s) ==
    /\ At(s, "warn")
    /\ session' = [session EXCEPT ![s].pc = "api", ![s].forced = TRUE]
    /\ UNCHANGED <<settings, upgrade, vc, box, worker, silence, events>>

\* compose reads the settings file once more, and gives all containers to
\* docker: one of another client is replaced.
Up ==
    /\ vc' = IF vc.state = "missing" \/ vc.client # settings.client
             THEN Running(settings.client)
             ELSE IF vc.state = "exited" THEN [vc EXCEPT !.state = "running"]
             ELSE vc
    /\ box' = [b \in Boxes |-> [state |-> "running", volume |-> TRUE]]
    /\ silence' = IF vc'.state = "running" THEN 0 ELSE silence

\* The containers are brought up twice, the first time for the API container.
StartService(s) ==
    /\ session[s].pc \in {"api", "all"}
    /\ Up
    /\ session' = [(IF vc' = vc THEN session ELSE Crossing(s)) EXCEPT
          ![s].pc = IF @ = "api" THEN "all" ELSE "flag"]
    /\ UNCHANGED <<settings, upgrade, worker, events>>

RemoveUpgradeFlagFile(s) ==
    /\ session[s].pc \in {"flag", "config-flag"}
    /\ upgrade' = FALSE
    /\ IF At(s, "flag") THEN AfterStart(s)
       ELSE session' = [session EXCEPT ![s] = Ended("done")]
    /\ UNCHANGED <<settings, vc, box, worker, silence, events>>

-----------------------------------------------------------------------------
(* pause and terminate *)

\* compose stop: the containers stay, with their finish time.
PauseService(s) ==
    /\ At(s, "compose") /\ session[s].kind = "pause"
    /\ vc' = Stopped(vc)
    /\ box' = [b \in Boxes |-> IF box[b].state = "running"
                               THEN [box[b] EXCEPT !.state = "exited"] ELSE box[b]]
    /\ session' = [Crossing(s) EXCEPT ![s] = Ended("done")]
    /\ UNCHANGED <<settings, upgrade, worker, silence, events>>

\* compose down -v: the containers and their volumes are gone, but not a volume
\* that a container of another command works on.
StopService(s) ==
    /\ At(s, "compose") /\ session[s].kind = "terminate"
    /\ vc' = NoContainer(vc.client)
    /\ box' = [b \in Boxes |-> [state |-> "missing",
                   volume |-> b = "eth1" /\ worker # NoSession /\ box[b].volume]]
    /\ session' = [Crossing(s) EXCEPT ![s] = Ended("done")]
    /\ UNCHANGED <<settings, upgrade, worker, silence, events>>

-----------------------------------------------------------------------------
(* The resyncs and the maintenance *)

BoxOf(s) == IF session[s].kind = "resync-eth2" THEN "eth2" ELSE "eth1"

\* StopContainer: its failure ends a maintenance, and only warns in a resync.
StopContainer(s) ==
    /\ At(s, "stop")
    /\ \/ /\ box[BoxOf(s)].state # "missing"
          /\ box' = [box EXCEPT ![BoxOf(s)].state = "exited"]
       \/ /\ session[s].kind \in Resyncs
          /\ UNCHANGED box
    /\ Goto(s, IF session[s].kind \in Resyncs THEN "remove" ELSE "work")
    /\ UNCHANGED <<settings, upgrade, vc, worker, silence, events>>

\* docker rm refuses a container that runs.
RemoveContainer(s) ==
    /\ At(s, "remove")
    /\ box[BoxOf(s)].state = "exited"
    /\ box' = [box EXCEPT ![BoxOf(s)].state = "missing"]
    /\ Goto(s, "delete")
    /\ UNCHANGED <<settings, upgrade, vc, worker, silence, events>>

\* Seeded fault: the volume is deleted whatever uses it.
DeleteVolumeForced(s) ==
    /\ At(s, "delete")
    /\ box[BoxOf(s)].volume
    /\ box' = [box EXCEPT ![BoxOf(s)].volume = FALSE]
    /\ Goto(s, "load")
    /\ UNCHANGED <<settings, upgrade, vc, worker, silence, events>>

\* docker volume rm refuses a volume that a container has, even one that exited.
DeleteVolume(s) ==
    /\ At(s, "delete")
    /\ box[BoxOf(s)] = [state |-> "missing", volume |-> TRUE]
    /\ BoxOf(s) = "eth1" => worker = NoSession
    /\ box' = [box EXCEPT ![BoxOf(s)].volume = FALSE]
    /\ Goto(s, "load")
    /\ UNCHANGED <<settings, upgrade, vc, worker, silence, events>>

\* The prune provisioner or the migrator runs in a container of its own, which
\* has a fixed name, and goes on when the run is stopped.
StartWorker(s) ==
    /\ At(s, "work")
    /\ worker = NoSession
    /\ worker' = s
    /\ Goto(s, "working")
    /\ UNCHANGED <<settings, upgrade, vc, box, silence, events>>

\* Seeded fault: the output of the prune provisioner ends the command.
WorkerReturns(s) ==
    /\ worker = s
    /\ worker' = NoSession
    /\ IF At(s, "working") THEN Goto(s, IF session[s].kind = "prune-eth1" THEN "done"
                                        ELSE "restart")
                           ELSE UNCHANGED session
    /\ UNCHANGED <<settings, upgrade, vc, box, silence, events>>

WorkerEnds(s) ==
    /\ worker = s
    /\ worker' = NoSession
    /\ IF At(s, "working") THEN Goto(s, "restart") ELSE UNCHANGED session
    /\ UNCHANGED <<settings, upgrade, vc, box, silence, events>>

StartContainer(s) ==
    /\ At(s, "restart")
    /\ box["eth1"].state # "missing"
    /\ box' = [box EXCEPT !["eth1"].state = "running"]
    /\ session' = [session EXCEPT ![s] = Ended("done")]
    /\ UNCHANGED <<settings, upgrade, vc, worker, silence, events>>

-----------------------------------------------------------------------------
(* Time, docker, and the others *)

Later(t) == IF t < Delay THEN t + 1 ELSE t

Tick ==
    /\ vc' = [vc EXCEPT !.finished = Later(@)]
    /\ silence' = IF vc.state = "running" THEN 0 ELSE Later(silence)
    /\ session' = [s \in Sessions |-> [session[s] EXCEPT !.since =
                     IF session[s].pc \in {"status", "halt", "wait"} THEN Later(@)
                     ELSE @]]
    /\ UNCHANGED <<settings, upgrade, box, worker, events>>

Event(state) ==
    /\ events < MaxEvents
    /\ events' = events + 1
    /\ vc' = state
    /\ silence' = IF vc'.state = "running" THEN 0 ELSE silence
    /\ session' = Crossing(NoSession)
    /\ UNCHANGED <<settings, upgrade, box, worker>>

\* docker restarts what crashed, unless it was stopped.
Crash ==
    /\ vc.state = "running"
    /\ Event([vc EXCEPT !.state = "restarting", !.finished = 0])

Revive ==
    /\ vc.state = "restarting"
    /\ vc' = [vc EXCEPT !.state = "running"]
    /\ silence' = 0
    /\ session' = Crossing(NoSession)
    /\ UNCHANGED <<settings, upgrade, box, worker, events>>

\* RestartValidator of the fee recipient task, of deposits and of the purge.
RestartValidator ==
    /\ vc.state # "missing"
    /\ Event([vc EXCEPT !.state = "running",
                        !.finished = IF vc.state \in {"running", "paused"} THEN 0
                                     ELSE @])

\* StopValidator of the fee recipient task.
PauseValidator ==
    /\ vc.state = "running"
    /\ Event([vc EXCEPT !.state = "paused"])

\* An installation brings new defaults.
InstallService ==
    /\ events < MaxEvents
    /\ events' = events + 1
    /\ upgrade' = TRUE
    /\ settings' = [settings EXCEPT !.upToDate = FALSE]
    /\ session' = Crossing(NoSession)
    /\ UNCHANGED <<vc, box, worker, silence>>

Step(s) ==
    \/ Begin(s) \/ Fail(s) \/ LoadForUi(s) \/ SaveFromUi(s) \/ LoadConfig(s)
    \/ Decline(s) \/ UpdateDefaults(s) \/ CheckFails(s) \/ GetDockerImage(s)
    \/ GetDockerContainerShutdownTime(s) \/ GetDockerStatus(s) \/ StopValidator(s)
    \/ WaitIsOver(s) \/ ConfirmWarning(s) \/ StartService(s)
    \/ RemoveUpgradeFlagFile(s) \/ PauseService(s) \/ StopService(s)
    \/ StopContainer(s) \/ RemoveContainer(s) \/ DeleteVolume(s) \/ StartWorker(s)
    \/ StartContainer(s)

Next ==
    \/ \E s \in Sessions : Step(s) \/ WorkerEnds(s)
    \/ Tick \/ Crash \/ Revive \/ RestartValidator \/ PauseValidator
    \/ InstallService

\* Time passes, the worker ends, and a run does its next step or fails.
Fairness ==
    /\ WF_vars(Tick)
    /\ \A s \in Sessions :
           /\ WF_vars(WorkerEnds(s))
           /\ WF_vars(WaitIsOver(s))
           /\ WF_vars(At(s, "restart") /\ (StartContainer(s) \/ Fail(s)))

Spec == Init /\ [][Next]_vars /\ Fairness

-----------------------------------------------------------------------------
(* Properties *)

(* A start that replaces the container of another client does so only when  *)
(* the old one has not run for the whole delay, although docker's finish    *)
(* time is read before its status and either may be of an earlier process:  *)
(* unless the operator skipped the delay, another run, task or crash changed *)
(* the container or the settings since the run read them, or the container  *)
(* was paused by the node's task, which has no finish time.                 *)
HandoverIsLate ==
    [][\A s \in Sessions :
          /\ session[s].pc \in {"api", "all"}
          /\ vc.state # "missing"
          /\ vc'.client # vc.client
          => \/ silence >= Delay
             \/ session[s].forced \/ session[s].crossed \/ session[s].paused]_vars

(* What is said when the wait is over: "You may now safely start the        *)
(* validator without fear of being slashed." The old client can have run    *)
(* during the wait, when the node's task restarted it, and the code does    *)
(* not look at it again before it says so.                                  *)
SafeToStart ==
    [][\A s \in Sessions :
          /\ ~session[s].told /\ session'[s].told
          /\ vc.state # "missing" /\ vc.client # settings.client
          => silence >= Delay]_vars

(* The upgrade flag goes only when the defaults in the settings file are    *)
(* those of the installed version: unless a resync removed it, which does   *)
(* not look at it, the settings were not written, or another run or an      *)
(* installation changed them meanwhile.                                     *)
UpgradeApplied ==
    [][\A s \in Sessions :
          /\ session[s].pc \in {"flag", "config-flag"}
          /\ upgrade /\ ~upgrade'
          => \/ settings.upToDate
             \/ session[s].kind \in Resyncs
             \/ session[s].unsaved \/ session[s].crossed]_vars

(* "Once the import is complete, your execution client will restart         *)
(* automatically": it does when the run that stopped it goes on, and is     *)
(* left stopped only by a run that failed or was stopped.                   *)
ClientComesBack ==
    \A s \in Sessions :
        At(s, "working") ~> box["eth1"].state = "running" \/ At(s, "failed")

=============================================================================
