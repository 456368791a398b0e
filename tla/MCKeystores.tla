---------------------------- MODULE MCKeystores ----------------------------
(* Three commands, two of which may overlap, and any of which may be cut.   *)
EXTENDS Keystores, TLC

CONSTANTS c1, c2, c3

Alike == Permutations({c1, c2, c3})
=============================================================================
