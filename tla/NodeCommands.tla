---------------------------- MODULE NodeCommands ----------------------------
(***************************************************************************)
(* The commands that act on the node account: register, deposit-sd,        *)
(* withdraw-sd, send, send-el-rewards, send-cl-rewards, claim-rewards, the *)
(* updates of the operator's details and exit. Each is a run of the CLI    *)
(* that goes through a script of API processes: what may be done is        *)
(* checked by one, agreed to with a fee by the operator, then done by      *)
(* another one, and waited for. The runs share the account's nonces and    *)
(* the contracts, which change between any two of their steps.             *)
(***************************************************************************)
EXTENDS Naturals, Sequences

CONSTANTS
    Sessions,     \* runs of the CLI
    Values,       \* operator names and reward addresses
    Chains,       \* states of the contracts in which the runs start
    Asks,         \* [Sessions -> <<command, nonce flag, max fee flag>> to run]
    NoNonce,      \* no nonce flag
    NoSession,    \* no run
    ManualMaxFee, \* max fee of the settings, 0 when there is none
    Suggestions,  \* max fees that the gas price services suggest
    Priority,     \* the max priority fee
    LastNonce,    \* bound: the nonces of the account
    MaxChanges    \* bound: changes of the contracts by others

Nonces == 0..LastNonce

AllCommands == {"register", "deposit-sd", "withdraw-sd", "send",
    "send-el-rewards", "send-cl-rewards", "claim-rewards",
    "update-operator-name", "update-operator-reward-address",
    "update-socialize-el", "exit"}

Ask == AllCommands \X (Nat \cup {NoNonce}) \X Nat

NoAsk == <<"exit", NoNonce, 0>>

Fees == Suggestions \cup {ManualMaxFee, 0}
            \cup {ask[3] : ask \in UNION {Asks[s] : s \in Sessions}}

Chain == [
    registered : BOOLEAN,
    active     : BOOLEAN,           \* the operator was not deactivated
    paused     : BOOLEAN,           \* the node registry
    name       : Values,
    reward     : Values,            \* the operator's reward address
    opted      : BOOLEAN,           \* into the socializing pool
    cooling    : BOOLEAN,           \* after a change of that
    sd         : Nat,          \* SD of the node account
    approved   : BOOLEAN,           \* the collateral contract may take SD
    collateral : Nat,
    locked     : BOOLEAN,           \* the collateral is needed for validators
    elVault    : BOOLEAN,           \* there are execution layer rewards
    clVault    : {"empty", "rewards", "over", "settled"},
    claimable  : BOOLEAN,           \* there are rewards to claim
    validator  : {"active", "exiting"}]

ASSUME CommandAssumption ==
    /\ Chains \subseteq Chain
    /\ NoSession \notin Sessions
    /\ NoNonce \notin Nat
    /\ ManualMaxFee \in Nat /\ Suggestions \subseteq Nat \ {0} /\ Priority \in Nat
    /\ Asks \in [Sessions -> SUBSET Ask]
    /\ LastNonce \in Nat /\ MaxChanges \in Nat

VARIABLES
    chain,    \* the contracts' state of this node
    owner,    \* [Nonces -> the run whose transaction waits with the nonce]
    mined,    \* the next nonce to be mined
    session,  \* [Sessions -> state of the run]
    changes   \* changes of the contracts by others so far

vars == <<chain, owner, mined, session, changes>>

Tx == [
    status : {"none", "pending", "ok", "reverted", "replaced"},
    nonce  : Nonces,
    fee    : Nat,
    rank   : Nat,    \* history: which of the run's transactions it is
    call   : AllCommands \cup {"approve"},
    name   : Values,
    reward : Values,
    opt    : BOOLEAN,
    raced  : BOOLEAN]  \* history: the contracts changed since it was sent

Session == [
    step    : Nat \ {0}, \* of the command's script
    name    : Values,    \* arguments of the command
    reward  : Values,
    opt     : BOOLEAN,
    nonce   : Nat \cup {NoNonce},   \* the client's custom nonce
    fee     : Nat,       \* the client's max fee
    asked   : Ask,       \* the command and its flags
    agreed  : Nat,       \* history: the fee the operator last agreed to
    tx      : Tx,        \* the run's last transaction
    out     : {"unborn", "running", "done", "dropped"}]

TypeOK ==
    /\ chain \in Chain
    /\ owner \in [Nonces -> Sessions \cup {NoSession}]
    /\ mined \in Nat
    /\ session \in [Sessions -> Session]
    /\ changes \in Nat

NoTx == [status |-> "none", nonce |-> 0, fee |-> 0, rank |-> 0,
         call |-> "approve", name |-> CHOOSE v \in Values : TRUE,
         reward |-> CHOOSE v \in Values : TRUE, opt |-> FALSE, raced |-> FALSE]

\* A run that is not in its script.
Outside(out, asked, tx) ==
    [step |-> 1, name |-> NoTx.name, reward |-> NoTx.reward,
     opt |-> FALSE, nonce |-> NoNonce, fee |-> 0, asked |-> asked,
     agreed |-> 0, tx |-> tx, out |-> out]

Init ==
    /\ chain \in Chains
    /\ owner = [n \in Nonces |-> NoSession]
    /\ mined = 0
    /\ session = [s \in Sessions |-> Outside("unborn", NoAsk, NoTx)]
    /\ changes = 0

-----------------------------------------------------------------------------
(* The scripts: what a command's function calls, in its order. It ends      *)
(* early when a call fails, when what is asked for cannot be done and when  *)
(* the operator does not confirm.                                           *)

registerNode ==
    <<"status", "can", "gas", "confirm", "send", "wait">>

nodeDepositSd ==
    <<"status", "allowance", "approval-gas", "gas", "confirm", "approve",
      "wait-approval", "can", "gas", "confirm", "send", "wait">>

WithdrawSd ==
    <<"status", "can", "gas", "confirm", "send", "wait">>

nodeSend ==
    <<"status", "can", "gas", "confirm", "send", "wait">>

SendElRewards ==
    <<"status", "can", "gas", "confirm", "send", "wait">>

SendClRewards ==
    <<"status", "can", "gas", "confirm", "send", "wait">>

ClaimRewards ==
    <<"status", "can", "gas", "confirm", "send", "wait">>

\* The two updates do not ask for the clients' status first.
updateOperatorName ==
    <<"can", "gas", "confirm", "send", "wait">>

updateOperatorRewardAddress ==
    <<"can", "gas", "confirm", "send", "wait">>

UpdateSocializeEl ==
    <<"status", "can", "gas", "confirm", "send", "wait">>

\* No transaction: the exit is broadcast on the beacon chain.
ExitValidator ==
    <<"status", "can", "confirm", "exit">>

Script == [c \in AllCommands |->
    CASE c = "register" -> registerNode
      [] c = "deposit-sd" -> nodeDepositSd
      [] c = "withdraw-sd" -> WithdrawSd
      [] c = "send" -> nodeSend
      [] c = "send-el-rewards" -> SendElRewards
      [] c = "send-cl-rewards" -> SendClRewards
      [] c = "claim-rewards" -> ClaimRewards
      [] c = "update-operator-name" -> updateOperatorName
      [] c = "update-operator-reward-address" -> updateOperatorRewardAddress
      [] c = "update-socialize-el" -> UpdateSocializeEl
      [] c = "exit" -> ExitValidator]

Command(s) == session[s].asked[1]

Running(s) == session[s].out = "running"

Doing(s) == Script[Command(s)][session[s].step]

Does(s, call) == Running(s) /\ Doing(s) = call

\* The settings of a run's client are those of its flags.
NewClient(asked, n, r, o) ==
    [step |-> 1, name |-> n, reward |-> r, opt |-> o,
     nonce |-> asked[2], fee |-> asked[3], asked |-> asked,
     agreed |-> 0, tx |-> NoTx, out |-> "running"]

Start(s) ==
    /\ session[s].out = "unborn"
    /\ \E asked \in Asks[s], n, r \in Values, o \in BOOLEAN :
         LET c == asked[1] IN
           /\ c \in {"register", "update-operator-name"} \/ n = NoTx.name
           /\ c \in {"register", "update-operator-reward-address"} \/ r = NoTx.reward
           /\ c \in {"register", "update-socialize-el"} \/ ~o
           /\ session' = [session EXCEPT ![s] = NewClient(asked, n, r, o)]
    /\ UNCHANGED <<chain, owner, mined, changes>>

\* What a run leaves behind is its transaction, if it waits to be mined.
End(s, out) ==
    session' = [session EXCEPT ![s] =
        IF session[s].tx.status = "pending"
        THEN Outside(out, session[s].asked, session[s].tx)
        ELSE Outside(out, NoAsk, NoTx)]

\* Seeded fault: the reset takes the wrong flag.
ReturnSwapped(s, step) ==
    session' = [session EXCEPT ![s].step = step, ![s].fee = session[s].asked[2]]

\* runApiCall: after each call the fee is the flag's again.
Return(s, step) ==
    session' = [session EXCEPT ![s].step = step, ![s].fee = session[s].asked[3]]

Answered(s) == Return(s, session[s].step + 1)

CheckClientStatus(s) ==
    /\ Does(s, "status")
    /\ Answered(s)
    /\ UNCHANGED <<chain, owner, mined, changes>>

\* A call may fail at any time: no client is synced, the API process fails, the
\* operator cancels or stops the run. A transaction that was sent stays sent.
Fail(s) ==
    /\ Running(s)
    /\ End(s, "dropped")
    /\ UNCHANGED <<chain, owner, mined, changes>>

-----------------------------------------------------------------------------
(* What may be done now, by the API processes of the can- commands. They    *)
(* end with an estimate of the gas, which the contract may refuse too.      *)

canRegisterNode(s) == ~chain.paused /\ ~chain.registered

canNodeDepositSd(s) == chain.sd >= 1

canWithdrawSd(s) ==
    /\ chain.registered
    /\ chain.collateral >= 1
    /\ ~chain.locked

canNodeSend(s) == chain.sd >= 1

CanSendElRewards(s) == chain.registered /\ chain.elVault

canSendClRewards(s) == chain.registered /\ chain.clVault = "rewards"

CanClaimRewards(s) == chain.registered /\ chain.claimable

CanUpdateOperatorName(s) ==
    /\ chain.registered
    /\ ~chain.paused
    /\ chain.active
    /\ chain.name # session[s].name

CanUpdateOperatorRewardAddress(s) ==
    /\ chain.registered
    /\ ~chain.paused
    /\ chain.active
    /\ chain.reward # session[s].reward

canUpdateSocializeEl(s) ==
    /\ chain.registered
    /\ chain.active
    /\ ~chain.paused
    /\ chain.opted # session[s].opt
    /\ ~chain.cooling

canExitValidator(s) == chain.registered /\ chain.validator = "active"

Can(s) ==
    LET c == Command(s) IN
    \/ c = "register" /\ canRegisterNode(s)
    \/ c = "deposit-sd" /\ canNodeDepositSd(s)
    \/ c = "withdraw-sd" /\ canWithdrawSd(s)
    \/ c = "send" /\ canNodeSend(s)
    \/ c = "send-el-rewards" /\ CanSendElRewards(s)
    \/ c = "send-cl-rewards" /\ canSendClRewards(s)
    \/ c = "claim-rewards" /\ CanClaimRewards(s)
    \/ c = "update-operator-name" /\ CanUpdateOperatorName(s)
    \/ c = "update-operator-reward-address" /\ CanUpdateOperatorRewardAddress(s)
    \/ c = "update-socialize-el" /\ canUpdateSocializeEl(s)
    \/ c = "exit" /\ canExitValidator(s)

-----------------------------------------------------------------------------
(* The contracts, as far as the transactions of the commands go. *)

Accepts(ch, tx) ==
    \/ tx.call = "approve"
    \/ tx.call = "register" /\ ~ch.paused /\ ~ch.registered
    \/ tx.call = "deposit-sd" /\ ch.approved /\ ch.sd >= 1
    \/ tx.call = "withdraw-sd" /\ ch.collateral >= 1 /\ ~ch.locked
    \/ tx.call = "send" /\ ch.sd >= 1
    \/ tx.call = "send-el-rewards" /\ ch.elVault
    \/ tx.call = "send-cl-rewards" /\ ch.clVault = "rewards"
    \/ tx.call = "claim-rewards" /\ ch.claimable
    \/ /\ tx.call \in {"update-operator-name", "update-operator-reward-address"}
       /\ ch.registered /\ ch.active /\ ~ch.paused
    \/ /\ tx.call = "update-socialize-el"
       /\ ch.registered /\ ch.active /\ ~ch.paused
       /\ ~ch.cooling /\ ch.opted # tx.opt

Effect(ch, tx) ==
    CASE tx.call = "approve" -> [ch EXCEPT !.approved = TRUE]
      [] tx.call = "register" ->
            [ch EXCEPT !.registered = TRUE, !.active = TRUE, !.name = tx.name,
                       !.reward = tx.reward, !.opted = tx.opt]
      [] tx.call = "deposit-sd" ->
            [ch EXCEPT !.sd = @ - 1, !.collateral = @ + 1]
      [] tx.call = "withdraw-sd" ->
            [ch EXCEPT !.sd = @ + 1, !.collateral = @ - 1]
      [] tx.call = "send" -> [ch EXCEPT !.sd = @ - 1]
      [] tx.call = "send-el-rewards" ->
            [ch EXCEPT !.elVault = FALSE, !.claimable = TRUE]
      [] tx.call = "send-cl-rewards" ->
            [ch EXCEPT !.clVault = "empty", !.claimable = TRUE]
      [] tx.call = "claim-rewards" -> [ch EXCEPT !.claimable = FALSE]
      [] tx.call \in {"update-operator-name", "update-operator-reward-address"} ->
            [ch EXCEPT !.name = tx.name, !.reward = tx.reward]
      [] tx.call = "update-socialize-el" ->
            [ch EXCEPT !.opted = tx.opt, !.cooling = TRUE]
      [] OTHER -> ch

\* What others do: the protocol's managers, oracles, and anyone's transactions
\* that empty a vault.
Others(ch) == {
    [ch EXCEPT !.paused = ~@],
    [ch EXCEPT !.active = FALSE],
    [ch EXCEPT !.locked = ~@],
    [ch EXCEPT !.cooling = FALSE],
    [ch EXCEPT !.elVault = ~@, !.claimable = @ \/ ch.elVault],
    [ch EXCEPT !.clVault = "over"],
    [ch EXCEPT !.clVault = "settled"],
    [ch EXCEPT !.claimable = FALSE]}

Pending(s) == session[s].tx.status = "pending"

\* Every transaction that waits to be mined was sent in an earlier state.
Raced == [s \in Sessions |-> IF Pending(s) THEN [session[s] EXCEPT !.tx.raced = TRUE]
                             ELSE session[s]]

Change ==
    /\ changes < MaxChanges
    /\ \E ch \in Others(chain) \ {chain} : chain' = ch
    /\ changes' = changes + 1
    /\ session' = Raced
    /\ UNCHANGED <<owner, mined>>

-----------------------------------------------------------------------------
(* The steps of a script *)

\* Seeded fault: the nonce is counted up although no approval is sent.
AllowanceCounts(s) ==
    /\ Does(s, "allowance")
    /\ chain.registered
    /\ session' = [session EXCEPT
          ![s].step = IF chain.approved THEN 8 ELSE 3,
          ![s].nonce = IF @ = NoNonce \/ ~chain.approved THEN @ ELSE @ + 1]
    /\ UNCHANGED <<chain, owner, mined, changes>>

GetNodeDepositSdAllowance(s) ==
    /\ Does(s, "allowance")
    /\ chain.registered
    /\ Return(s, IF chain.approved THEN 8 ELSE 3)
    /\ UNCHANGED <<chain, owner, mined, changes>>

NodeDepositSdApprovalGas(s) ==
    /\ Does(s, "approval-gas")
    /\ Answered(s)
    /\ UNCHANGED <<chain, owner, mined, changes>>

\* Seeded fault: the details are those of the command, whatever the registry has.
SentAsGiven(s) == [name |-> session[s].name, reward |-> session[s].reward]

\* The update of one of the operator's details sends the other as it is now.
Details(s) ==
    [name   |-> IF Command(s) = "update-operator-reward-address"
                THEN chain.name ELSE session[s].name,
     reward |-> IF Command(s) = "update-operator-name"
                THEN chain.reward ELSE session[s].reward]

\* The transaction that a run sends now.
NewTx(s, call, nonce, fee) ==
    [status |-> "pending", nonce |-> nonce, fee |-> fee,
     rank |-> session[s].tx.rank + 1, call |-> call, name |-> Details(s).name,
     reward |-> Details(s).reward, opt |-> session[s].opt, raced |-> FALSE]

CanDo(s) ==
    /\ Does(s, "can")
    /\ Can(s)
    /\ \/ Command(s) = "exit"
       \/ Accepts(chain, NewTx(s, Command(s), 0, 0))
    /\ Answered(s)
    /\ UNCHANGED <<chain, owner, mined, changes>>

\* The client's max fee is the flag's, else that of the settings, else the one
\* that the operator picks from the suggestions. The tip may not be above it.
AssignMaxFeeAndLimit(s) ==
    /\ Does(s, "gas")
    /\ \E fee \in IF session[s].fee # 0 THEN {session[s].fee}
                  ELSE IF ManualMaxFee # 0 THEN {ManualMaxFee} ELSE Suggestions :
           /\ Priority <= fee
           /\ session' = [session EXCEPT ![s].fee = fee, ![s].step = @ + 1]
    /\ UNCHANGED <<chain, owner, mined, changes>>

Confirm(s) ==
    /\ Does(s, "confirm")
    /\ session' = [session EXCEPT ![s].agreed =
                                    IF Command(s) = "exit" THEN 0
                                    ELSE session[s].fee,
                                  ![s].step = @ + 1]
    /\ UNCHANGED <<chain, owner, mined, changes>>

\* The account's next nonce, behind the transactions that wait.
PendingNonce == CHOOSE n \in 0..(LastNonce + 1) :
    /\ n >= mined
    /\ n = LastNonce + 1 \/ owner[n] = NoSession
    /\ \A m \in mined..(n - 1) : owner[m] # NoSession

\* Seeded fault: a custom nonce may be any that is not in a block.
AnyNonce(s) == IF session[s].nonce = NoNonce THEN {PendingNonce}
               ELSE {session[s].nonce} \ 0..(mined - 1)

\* CheckForNonceOverride: a custom nonce is not above the next one, and not in a
\* block yet.
CheckForNonceOverride(s) ==
    IF session[s].nonce = NoNonce THEN {PendingNonce}
    ELSE {n \in {session[s].nonce} : mined <= n /\ n <= PendingNonce}

\* The API processes of three commands do not look at the custom nonce.
NoOverride == {"send-el-rewards", "send-cl-rewards", "claim-rewards"}

NonceOf(s) ==
    Nonces \cap IF Command(s) \in NoOverride THEN {PendingNonce}
                ELSE CheckForNonceOverride(s)

\* Seeded fault: the settings are looked at, the flag is not.
FeeOfSettings(s) == IF ManualMaxFee # 0 THEN {ManualMaxFee} ELSE Suggestions

\* GetWallet: a max fee of 0 is that of the settings, or what the client takes.
FeeOf(s) ==
    IF session[s].fee # 0 THEN {session[s].fee}
    ELSE IF ManualMaxFee # 0 THEN {ManualMaxFee} ELSE Suggestions

\* Seeded fault: the gas is the flag's, and is not estimated.
TransactUnchecked(s, call) ==
    \E n \in NonceOf(s), fee \in FeeOf(s) :
        LET tx == NewTx(s, call, n, fee)
            old == owner[n]
        IN
        /\ old # NoSession => fee > session[old].tx.fee
        /\ owner' = [owner EXCEPT ![n] = s]
        /\ session' = [r \in Sessions |->
             IF r = s THEN [session[s] EXCEPT !.step = @ + 1, !.tx = tx,
                                              !.fee = session[s].asked[3]]
             ELSE IF r = old THEN [session[r] EXCEPT !.tx.status = "replaced"]
             ELSE session[r]]
        /\ UNCHANGED <<chain, mined, changes>>

\* Transact: the gas is estimated again, which fails when the contract refuses
\* the call, then the transaction is sent. One with the nonce of another has to
\* pay more, and takes its place.
Transact(s, call) ==
    \E n \in NonceOf(s), fee \in FeeOf(s) :
        LET tx == NewTx(s, call, n, fee)
            old == owner[n]
        IN
        /\ Accepts(chain, tx)
        /\ old # NoSession => fee > session[old].tx.fee
        /\ owner' = [owner EXCEPT ![n] = s]
        /\ session' = [r \in Sessions |->
             IF r = s THEN [session[s] EXCEPT !.step = @ + 1, !.tx = tx,
                                              !.fee = session[s].asked[3]]
             ELSE IF r = old THEN [session[r] EXCEPT !.tx.status = "replaced"]
             ELSE session[r]]
        /\ UNCHANGED <<chain, mined, changes>>

NodeDepositSdApprove(s) ==
    /\ Does(s, "approve")
    /\ Transact(s, "approve")

Send(s) ==
    /\ Does(s, "send")
    /\ Transact(s, Command(s))

\* The beacon client takes the exit of an active validator.
ExitNow(s) ==
    /\ Does(s, "exit")
    /\ chain.validator = "active"
    /\ chain' = [chain EXCEPT !.validator = "exiting"]
    /\ session' = [Raced EXCEPT ![s] = Outside("done", NoAsk, NoTx)]
    /\ UNCHANGED <<owner, mined, changes>>

\* The next transaction of the account is mined, and does what it does to the
\* contracts as they are then.
Mine ==
    /\ mined \in Nonces
    /\ owner[mined] # NoSession
    /\ LET s == owner[mined]
           ok == Accepts(chain, session[s].tx)
       IN
       /\ chain' = IF ok THEN Effect(chain, session[s].tx) ELSE chain
       /\ session' = [(IF ok THEN Raced ELSE session) EXCEPT ![s] =
                        [session[s] EXCEPT !.tx.status = IF ok THEN "ok"
                                                         ELSE "reverted"]]
    /\ mined' = mined + 1
    /\ owner' = [owner EXCEPT ![mined] = NoSession]
    /\ UNCHANGED changes

\* The wait for the approval ends with the next custom nonce, except for a custom
\* nonce of 0, which is taken for none.
WaitForApproval(s) ==
    /\ Does(s, "wait-approval")
    /\ \/ /\ session[s].tx.status = "ok"
          /\ session' = [session EXCEPT
                ![s].step = @ + 1, ![s].fee = session[s].asked[3],
                ![s].nonce = IF @ \in {NoNonce, 0} THEN @ ELSE @ + 1]
       \/ /\ session[s].tx.status = "reverted"
          /\ End(s, "dropped")
    /\ UNCHANGED <<chain, owner, mined, changes>>

\* Success is told of a transaction that was mined without an error; the wait for
\* one that was replaced goes on for ever.
WaitForTransaction(s) ==
    /\ Does(s, "wait")
    /\ session[s].tx.status \in {"ok", "reverted"}
    /\ End(s, IF session[s].tx.status = "ok" THEN "done" ELSE "dropped")
    /\ UNCHANGED <<chain, owner, mined, changes>>

Step(s) ==
    \/ Start(s) \/ Fail(s) \/ CheckClientStatus(s) \/ GetNodeDepositSdAllowance(s)
    \/ NodeDepositSdApprovalGas(s) \/ CanDo(s) \/ AssignMaxFeeAndLimit(s)
    \/ Confirm(s) \/ NodeDepositSdApprove(s) \/ Send(s) \/ ExitNow(s)
    \/ WaitForApproval(s) \/ WaitForTransaction(s)

Next ==
    \/ \E s \in Sessions : Step(s)
    \/ Change
    \/ Mine

\* Transactions without a gap before them are mined, and the wait sees it.
Fairness ==
    /\ WF_vars(Mine)
    /\ \A s \in Sessions :
           WF_vars(WaitForApproval(s)) /\ WF_vars(WaitForTransaction(s))

Spec == Init /\ [][Next]_vars /\ Fairness

-----------------------------------------------------------------------------
(* Properties *)

HasTx(s) == session[s].tx.status # "none"

FlaggedNonce(s) ==
    session[s].tx.nonce = session[s].asked[2] + session[s].tx.rank - 1

(* The first transaction of a run with a nonce flag has that nonce and the  *)
(* second, after an approval, the next one, also when others of the account *)
(* are mined or sent between them: deposit-sd.go counts its custom nonce up *)
(* only when it did send an approval. It is about the commands whose API    *)
(* processes call CheckForNonceOverride.                                    *)
NonceAsAsked ==
    \A s \in Sessions :
        HasTx(s) /\ session[s].asked[2] # NoNonce
        /\ session[s].tx.call \notin NoOverride => FlaggedNonce(s)

(* A transaction fails in its block, and costs the operator its fee, only   *)
(* when the contracts were changed by another after it was sent: what the   *)
(* can- command found is estimated again by Transact just before the send.  *)
FailedOnlyIfRaced ==
    \A s \in Sessions :
        session[s].tx.status = "reverted" => session[s].tx.raced

(* The update of the operator's name leaves the reward address as it is,    *)
(* and the other way round, although the contract takes both: unless        *)
(* something was mined between the reading of the other and this update.    *)
OtherDetailKept ==
    [][\A s \in Sessions :
          Pending(s) /\ session'[s].tx.status = "ok" /\ ~session[s].tx.raced =>
              /\ session[s].tx.call = "update-operator-name" =>
                     chain'.reward = chain.reward
              /\ session[s].tx.call = "update-operator-reward-address" =>
                     chain'.name = chain.name]_vars

Waits(s) == Does(s, "wait") \/ Does(s, "wait-approval")

(* A run that waits for its transaction is answered, unless another         *)
(* transaction took its place: no nonce that was sent is above a gap.       *)
WaitIsAnswered ==
    \A s \in Sessions :
        Waits(s) ~> ~Waits(s) \/ session[s].tx.status = "replaced"

-----------------------------------------------------------------------------
(* The refinement: with its operator, a run has an agreement before each    *)
(* act, and reports what became of it.                                      *)

deal == [s \in Sessions |->
    LET is(stage, fee) == [stage |-> stage, fee |-> fee]
        tx == session[s].tx
    IN  CASE session[s].out = "unborn" -> is("open", 0)
          [] session[s].out \in {"done", "dropped"} -> is(session[s].out, 0)
          [] Running(s) /\ Doing(s) \in {"send", "approve", "exit"} ->
                is("agreed", session[s].agreed)
          [] Waits(s) /\ tx.status = "pending" -> is("sent", tx.fee)
          [] Waits(s) /\ tx.status = "ok" -> is("mined", tx.fee)
          [] Waits(s) /\ tx.status \in {"reverted", "replaced"} ->
                is("lost", tx.fee)
          [] OTHER -> is("open", 0)]

Payment == INSTANCE AgreedPayment WITH deal <- deal

(* Every command implements AgreedPayment: nothing is sent but what the     *)
(* operator agreed to, at the fee he agreed to, although the client forgets *)
(* its fee after each call and the API process takes it from its flags.     *)
PaysAsAgreed == Payment!Spec
=============================================================================
