--------------------------- MODULE MCFeeRecipient ---------------------------
(* Constants of FeeRecipient for TLC. *)
EXTENDS FeeRecipient

AllFaults == {"disk", "manager", "docker", "kill"}
=============================================================================
