------------------------ MODULE ValidatorContainer -------------------------
(***************************************************************************)
(* The container of the validator client, as RestartValidator and          *)
(* StopValidator of shared/utils/validator find it and leave it. Stopping  *)
(* pauses the container: the process keeps its memory. Restarting starts a *)
(* new process, out of any state the container is in.                      *)
(***************************************************************************)

ContainerStates == {"missing", "running", "paused", "exited"}

\* Both ask the Beacon client manager for the client type first, and give up
\* when it has no client ready; both look the container up by its name.
Reachable(known, state) == known /\ state # "missing"

\* Docker refuses to pause a container that is paused already; that it does not
\* run at all is not taken for an error.
StopFails(known, state) == ~Reachable(known, state) \/ state = "paused"

AfterStop(state) == IF state = "running" THEN "paused" ELSE state

=============================================================================
