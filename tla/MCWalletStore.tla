--------------------------- MODULE MCWalletStore ----------------------------
(* Constants of WalletStore for TLC. *)
EXTENDS WalletStore

TwoMnemonics == {"m1", "m2"}
TwoPasswords == {"p1", "p2"}
AllFaults == {"kill", "docker"}
=============================================================================
