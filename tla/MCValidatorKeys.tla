-------------------------- MODULE MCValidatorKeys --------------------------
(* Constants of ValidatorKeys for TLC. *)
EXTENDS ValidatorKeys, TLC

\* One process can be exchanged for another.
Alike == Permutations(Procs)

\* What no step depends on, and no property of the run, is left out.
WithoutBehind(set) == {[r EXCEPT !.behind = {}] : r \in set}

ButAccounting ==
    <<wallet, keystore, [p \in Procs |-> [api[p] EXCEPT !.behind = {}]],
      WithoutBehind(mempool), nonce, pending, WithoutBehind(registry), keyCount,
      beacon, purged, damaged>>

\* Every command but the search by address, which recovers no keys.
PathCommands == {"deposit", "purge", "recover", "skip"}
EveryCommand == AllCommands

FirstExternal == {1}
=============================================================================
