--------------------------- MODULE MCNodeCommands ---------------------------
(* Two sessions: one without flags, one that may have a nonce and a fee.    *)
EXTENDS NodeCommands, TLC

CONSTANTS s1, s2, v1, v2

NewNode == [registered |-> FALSE, active |-> TRUE, paused |-> FALSE, name |-> v1,
            reward |-> v1, opted |-> FALSE, cooling |-> FALSE, sd |-> 1,
            approved |-> FALSE, collateral |-> 0, locked |-> FALSE,
            elVault |-> FALSE, clVault |-> "empty", claimable |-> FALSE,
            validator |-> "active"]

Operator == [NewNode EXCEPT !.registered = TRUE, !.collateral = 1,
                            !.elVault = TRUE, !.clVault = "rewards"]

BothNodes == {NewNode, Operator}

\* The first run may be one that the others depend on or compete with.
Asked == (s1 :> {"deposit-sd", "send", "update-operator-name", "send-el-rewards"}
                    \X {NoNonce} \X {0})
           @@ (s2 :> {<<c, f[1], f[2]>> : c \in AllCommands,
                        f \in {<<NoNonce, 0>>, <<0, 3>>, <<1, 0>>}})
=============================================================================
