-------------------------- MODULE MCClientManager --------------------------
(* Constants of ClientManager for TLC. *)
EXTENDS ClientManager

TwoLoops == {"presign", "tasks"}

Both == {"EC", "BC"}

NoStale == AllHealths \ {"stale"}
=============================================================================
