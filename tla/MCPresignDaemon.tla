-------------------------- MODULE MCPresignDaemon --------------------------
(* PresignDaemon for TLC. The constants are numbers, given in the .cfg. *)
EXTENDS PresignDaemon
=============================================================================
