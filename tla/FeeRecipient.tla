---------------------------- MODULE FeeRecipient ----------------------------
(***************************************************************************)
(* The fee recipient file, the task of the node daemon that keeps it in    *)
(* line with the operator's choice on chain (manageFeeRecipient.run), and  *)
(* the validator client that reads the file when its process starts.       *)
(*                                                                         *)
(* The task is one loop; the deposit command restarts the same validator   *)
(* client from another process, and Docker restarts it when it exits. The  *)
(* daemon can be killed between any two steps.                             *)
(***************************************************************************)
EXTENDS Naturals, ValidatorContainer

CONSTANTS
    Faults,       \* what can go wrong: "disk", "manager", "docker", "kill"
    MaxChanges,   \* bound: times the operator changes the choice
    MaxTaskKills  \* bound: times the daemon is killed

ASSUME FeeAssumption ==
    /\ Faults \subseteq {"disk", "manager", "docker", "kill"}
    /\ MaxChanges \in Nat
    /\ MaxTaskKills \in Nat

(* The fee recipients: the socializing pool, the operator's own fee
   distributor, and the address of the file that the daemon starts with. *)
FeeChoices == {"pool", "distributor"}
Recipients == FeeChoices \cup {"default"}

\* The file can be absent, or truncated by a write that did not complete.
FileStates == Recipients \cup {"absent", "empty"}

VARIABLES
    choice,   \* the correct recipient, by the registry contract
    changes,  \* how often the operator changed it
    file,     \* the fee recipient file
    disk,     \* the file can be written
    known,    \* the Beacon client manager has a client ready
    docker,   \* the Docker daemon answers
    vc,       \* the container's state
    using,    \* the recipient of the validator client process, or "none"
    task,     \* the daemon's task: [pc, correct, last]
    taskKills \* how often the daemon was killed

envVars == <<choice, changes, disk, known, docker>>
vcVars == <<vc, using>>
feeVars == <<envVars, file, vcVars, task, taskKills>>

TaskPcs == {"off", "create", "fill", "idle", "check", "open", "write",
            "restart", "stop"}

\* How the last pass of the task ended.
Results == {"none", "unneeded", "restarted", "stopped", "error"}

FeeTypeOK ==
    /\ choice \in FeeChoices
    /\ changes \in Nat
    /\ file \in FileStates
    /\ disk \in BOOLEAN
    /\ known \in BOOLEAN
    /\ docker \in BOOLEAN
    /\ vc \in ContainerStates
    /\ using \in Recipients \cup {"none"}
    /\ task \in [pc : TaskPcs, correct : FeeChoices, last : Results]
    /\ taskKills \in Nat

FeeInit ==
    /\ choice \in FeeChoices
    /\ changes = 0
    /\ file = "absent"
    /\ disk = TRUE
    /\ known = TRUE
    /\ docker = TRUE
    /\ vc \in {"missing", "exited"}
    /\ using = "none"
    /\ task = [pc |-> "off", correct |-> choice, last |-> "none"]
    /\ taskKills = 0

\* The start script of the validator client needs the file, and gives its
\* contents to the process once.
StartClient ==
    IF file \in Recipients
    THEN vc' = "running" /\ using' = file
    ELSE vc' = "exited" /\ using' = "none"

TaskTo(pc) == task' = [task EXCEPT !.pc = pc]
EndPass(result) == task' = [task EXCEPT !.pc = "idle", !.last = result]

-----------------------------------------------------------------------------
(* The start of the daemon: deployDefaultFeeRecipientFile *)

StartTask ==
    /\ task.pc = "off"
    /\ TaskTo(IF file = "absent" THEN "create" ELSE "idle")
    /\ UNCHANGED <<envVars, file, vcVars, taskKills>>

\* A failed write ends the daemon, and Docker starts it again.
CreateDefaultFile ==
    /\ task.pc = "create"
    /\ IF disk THEN file' = "empty" /\ TaskTo("fill")
               ELSE TaskTo("off") /\ UNCHANGED file
    /\ UNCHANGED <<envVars, vcVars, taskKills>>

FillDefaultFile ==
    /\ task.pc = "fill"
    /\ IF disk THEN file' = "default" /\ TaskTo("idle")
               ELSE TaskTo("off") /\ UNCHANGED file
    /\ UNCHANGED <<envVars, vcVars, taskKills>>

-----------------------------------------------------------------------------
(* manageFeeRecipient.run *)

\* The pass begins once the clients are in sync, with the choice on chain.
GetFeeRecipientInfo ==
    /\ task.pc = "idle"
    /\ known
    /\ task' = [pc |-> "check", correct |-> choice, last |-> "none"]
    /\ UNCHANGED <<envVars, file, vcVars, taskKills>>

\* Seeded fault: only a missing file is written.
CheckFeeRecipientFileExists ==
    /\ task.pc = "check"
    /\ IF file # "absent" THEN EndPass("unneeded") ELSE TaskTo("open")
    /\ UNCHANGED <<envVars, file, vcVars, taskKills>>

CheckFeeRecipientFile ==
    /\ task.pc = "check"
    /\ IF file = task.correct THEN EndPass("unneeded") ELSE TaskTo("open")
    /\ UNCHANGED <<envVars, file, vcVars, taskKills>>

\* Seeded fault: the validator client is restarted before the file is written.
RestartThenWrite ==
    /\ task.pc = "open"
    /\ IF disk /\ Reachable(known, vc)
       THEN StartClient /\ file' = task.correct /\ EndPass("restarted")
       ELSE TaskTo("stop") /\ UNCHANGED <<file, vcVars>>
    /\ UNCHANGED <<envVars, taskKills>>

\* UpdateFeeRecipientFile truncates the file before it fills it.
OpenFile ==
    /\ task.pc = "open"
    /\ IF disk THEN file' = "empty" /\ TaskTo("write")
               ELSE TaskTo("stop") /\ UNCHANGED file
    /\ UNCHANGED <<envVars, vcVars, taskKills>>

WriteFile ==
    /\ task.pc = "write"
    /\ IF disk THEN file' = task.correct /\ TaskTo("restart")
               ELSE TaskTo("stop") /\ UNCHANGED file
    /\ UNCHANGED <<envVars, vcVars, taskKills>>

\* Seeded fault: the new file is not picked up.
SkipRestart ==
    /\ task.pc = "restart"
    /\ EndPass("restarted")
    /\ UNCHANGED <<envVars, file, vcVars, taskKills>>

RestartValidator ==
    /\ task.pc = "restart"
    /\ IF docker /\ Reachable(known, vc)
       THEN StartClient /\ EndPass("restarted")
       ELSE EndPass("error") /\ UNCHANGED vcVars
    /\ UNCHANGED <<envVars, file, taskKills>>

StopValidator ==
    /\ task.pc = "stop"
    /\ IF ~docker \/ StopFails(known, vc)
       THEN EndPass("error") /\ UNCHANGED vcVars
       ELSE vc' = AfterStop(vc) /\ EndPass("stopped") /\ UNCHANGED using
    /\ UNCHANGED <<envVars, file, taskKills>>

KillTask ==
    /\ "kill" \in Faults
    /\ taskKills < MaxTaskKills
    /\ task.pc # "off"
    /\ task' = [task EXCEPT !.pc = "off", !.last = "none"]
    /\ taskKills' = taskKills + 1
    /\ UNCHANGED <<envVars, file, vcVars>>

-----------------------------------------------------------------------------
(* The validator client, and who else restarts it *)

\* service start creates the container; Docker restarts one that exited.
StartContainer ==
    /\ vc \in {"missing", "exited"}
    /\ StartClient
    /\ UNCHANGED <<envVars, file, task, taskKills>>

ClientExits ==
    /\ vc = "running"
    /\ vc' = "exited"
    /\ using' = "none"
    /\ UNCHANGED <<envVars, file, task, taskKills>>

\* validator deposit, and wallet purge at its end, restart the client as well.
RestartByCommand ==
    /\ docker /\ Reachable(known, vc)
    /\ StartClient
    /\ UNCHANGED <<envVars, file, task, taskKills>>

-----------------------------------------------------------------------------
(* The environment *)

UpdateSocializeEl ==
    /\ changes < MaxChanges
    /\ choice' \in FeeChoices \ {choice}
    /\ changes' = changes + 1
    /\ UNCHANGED <<disk, known, docker, file, vcVars, task, taskKills>>

Disturb ==
    /\ \/ "disk" \in Faults /\ disk' = ~disk /\ UNCHANGED <<known, docker>>
       \/ "manager" \in Faults /\ known' = ~known /\ UNCHANGED <<disk, docker>>
       \/ "docker" \in Faults /\ docker' = ~docker /\ UNCHANGED <<disk, known>>
    /\ UNCHANGED <<choice, changes, file, vcVars, task, taskKills>>

-----------------------------------------------------------------------------
(* Specification *)

StartStep == StartTask \/ CreateDefaultFile \/ FillDefaultFile

FeePassStep ==
    \/ GetFeeRecipientInfo
    \/ CheckFeeRecipientFile
    \/ OpenFile
    \/ WriteFile
    \/ RestartValidator
    \/ StopValidator

TaskStep == StartStep \/ FeePassStep

FeeNext ==
    \/ TaskStep
    \/ KillTask
    \/ StartContainer
    \/ ClientExits
    \/ RestartByCommand
    \/ UpdateSocializeEl
    \/ Disturb

(* The loop sleeps for minutes and goes on; Docker restarts what exits, and
   the operator starts the service once. *)
FeeFairness == WF_feeVars(TaskStep) /\ WF_feeVars(StartContainer)

FeeSpec == FeeInit /\ [][FeeNext]_feeVars /\ FeeFairness

-----------------------------------------------------------------------------
(* Properties *)

\* When a pass reports that the validator client was restarted ("you are now
\* validating safely"), the client uses the recipient that the pass found to be
\* correct, and goes on doing so until the next pass, whoever restarts it.
RestartedIsSafe ==
    task.last = "restarted" => vc = "exited" \/ using = task.correct

\* Once choice and disk are stable, the file ends up with the chosen recipient,
\* whatever was killed, left truncated or read on the way.
FileSettles ==
    \A c \in FeeChoices :
        <>[](choice = c /\ disk /\ known) => <>[](file = c)

\* As long as the daemon is not killed, and Docker and the Beacon clients
\* answer, a validator client that runs ends up with the chosen recipient once
\* that and the disk are stable, whatever writes failed before and whoever
\* else restarted it.
ClientSettlesUncut ==
    [](taskKills = 0 /\ docker /\ known) =>
        \A c \in FeeChoices :
            <>[](choice = c /\ disk) => <>[](vc = "running" => using = c)

=============================================================================
