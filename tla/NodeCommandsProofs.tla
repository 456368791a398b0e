------------------------- MODULE NodeCommandsProofs -------------------------
(* The refinement of AgreedPayment by NodeCommands, its safety invariants and
   what an update of the operator's details keeps, for any number of runs,
   nonces, fees and changes of the contracts. *)
EXTENDS NodeCommands, TLAPS

-----------------------------------------------------------------------------
(* The scripts: what a call can be followed by. This is all that the proofs
   need to know of them. *)

Waiting == {"wait", "wait-approval"}
Acting == {"send", "approve", "exit"}

\* What may come after the call i of the script of c.
Follows(c, i) ==
    LET call == Script[c][i]
        next == Script[c][i + 1]
    IN
    /\ call \notin {"wait", "exit"} => i + 1 \in 1..Len(Script[c])
    /\ call = "status" => next \in {"can", "allowance"}
    /\ call = "approval-gas" => next = "gas"
    /\ call = "can" => \/ next = "gas"
                       \/ c = "exit" /\ next = "confirm"
    /\ call = "gas" => next = "confirm" /\ c # "exit"
    /\ call = "confirm" => IF c = "exit" THEN next = "exit"
                           ELSE next \in {"send", "approve"}
    /\ call = "send" => next = "wait"
    /\ call = "approve" => next = "wait-approval" /\ c = "deposit-sd"
    /\ call = "wait-approval" => next = "can" /\ c = "deposit-sd"
    /\ call = "exit" => c = "exit"
    /\ call = "allowance" => /\ 3 \in 1..Len(Script[c]) /\ 8 \in 1..Len(Script[c])
                             /\ Script[c][3] = "approval-gas"
                             /\ Script[c][8] = "can"

\* A command has the script of its function.
LEMMA ScriptOf ==
    ASSUME NEW c \in AllCommands
    PROVE  \/ Script[c] = registerNode /\ c \notin {"exit", "deposit-sd"}
           \/ Script[c] = updateOperatorName /\ c \notin {"exit", "deposit-sd"}
           \/ Script[c] = nodeDepositSd /\ c = "deposit-sd"
           \/ Script[c] = ExitValidator /\ c = "exit"
BY DEF Script, AllCommands, registerNode, nodeDepositSd, WithdrawSd, nodeSend,
       SendElRewards, SendClRewards, ClaimRewards, updateOperatorName,
       updateOperatorRewardAddress, UpdateSocializeEl, ExitValidator

\* Each call is followed by what its command's function calls next, and the first
\* one does nothing that has to be agreed to.
LEMMA ScriptFollows ==
    ASSUME NEW c \in AllCommands
    PROVE  /\ \A i \in 1..Len(Script[c]) : Follows(c, i)
           /\ 1 \in 1..Len(Script[c])
           /\ Script[c][1] \in {"status", "can"}
<1>1. CASE Script[c] = registerNode /\ c \notin {"exit", "deposit-sd"}
  <2>1. /\ Len(registerNode) = 6
        /\ registerNode[1] = "status" /\ registerNode[2] = "can"
        /\ registerNode[3] = "gas" /\ registerNode[4] = "confirm"
        /\ registerNode[5] = "send" /\ registerNode[6] = "wait"
    BY DEF registerNode
  <2>2. /\ Follows(c, 1) /\ Follows(c, 2) /\ Follows(c, 3)
        /\ Follows(c, 4) /\ Follows(c, 5) /\ Follows(c, 6)
    BY <1>1, <2>1 DEF Follows
  <2>3. \A i \in 1..6 : i = 1 \/ i = 2 \/ i = 3 \/ i = 4 \/ i = 5 \/ i = 6
    OBVIOUS
  <2> QED
    BY <1>1, <2>1, <2>2, <2>3
<1>2. CASE Script[c] = updateOperatorName /\ c \notin {"exit", "deposit-sd"}
  <2>1. /\ Len(updateOperatorName) = 5
        /\ updateOperatorName[1] = "can" /\ updateOperatorName[2] = "gas"
        /\ updateOperatorName[3] = "confirm" /\ updateOperatorName[4] = "send"
        /\ updateOperatorName[5] = "wait"
    BY DEF updateOperatorName
  <2>2. /\ Follows(c, 1) /\ Follows(c, 2) /\ Follows(c, 3)
        /\ Follows(c, 4) /\ Follows(c, 5)
    BY <1>2, <2>1 DEF Follows
  <2>3. \A i \in 1..5 : i = 1 \/ i = 2 \/ i = 3 \/ i = 4 \/ i = 5
    OBVIOUS
  <2> QED
    BY <1>2, <2>1, <2>2, <2>3
<1>3. CASE Script[c] = nodeDepositSd /\ c = "deposit-sd"
  <2>1. /\ Script[c][1] = "status" /\ Script[c][2] = "allowance"
        /\ Script[c][3] = "approval-gas" /\ Script[c][4] = "gas"
        /\ Script[c][5] = "confirm" /\ Script[c][6] = "approve"
        /\ Script[c][7] = "wait-approval" /\ Script[c][8] = "can"
        /\ Script[c][9] = "gas" /\ Script[c][10] = "confirm"
        /\ Script[c][11] = "send" /\ Script[c][12] = "wait"
    <3>1. /\ nodeDepositSd[1] = "status" /\ nodeDepositSd[2] = "allowance"
          /\ nodeDepositSd[3] = "approval-gas" /\ nodeDepositSd[4] = "gas"
          /\ nodeDepositSd[5] = "confirm" /\ nodeDepositSd[6] = "approve"
          /\ nodeDepositSd[7] = "wait-approval" /\ nodeDepositSd[8] = "can"
          /\ nodeDepositSd[9] = "gas" /\ nodeDepositSd[10] = "confirm"
          /\ nodeDepositSd[11] = "send" /\ nodeDepositSd[12] = "wait"
      BY DEF nodeDepositSd
    <3> QED
      BY <1>3, <3>1
  <2>2. Len(Script[c]) = 12
    <3>1. Len(nodeDepositSd) = 12
      BY DEF nodeDepositSd
    <3> QED
      BY <1>3, <3>1
  <2>3. c = "deposit-sd"
    BY <1>3
  <2>4. Follows(c, 1)
    <3>1. Script[c][1] = "status" /\ Script[c][1+1] = "allowance"
      BY <2>1
    <3> QED
      BY <2>2, <2>3, <3>1 DEF Follows
  <2>5. Follows(c, 2)
    <3>1. Script[c][2] = "allowance" /\ Script[c][2+1] = "approval-gas"
      BY <2>1
    <3> QED
      BY <2>1, <2>2, <2>3, <3>1 DEF Follows
  <2>6. Follows(c, 3)
    <3>1. Script[c][3] = "approval-gas" /\ Script[c][3+1] = "gas"
      BY <2>1
    <3> QED
      BY <2>2, <2>3, <3>1 DEF Follows
  <2>7. Follows(c, 4)
    <3>1. Script[c][4] = "gas" /\ Script[c][4+1] = "confirm"
      BY <2>1
    <3> QED
      BY <2>2, <2>3, <3>1 DEF Follows
  <2>8. Follows(c, 5)
    <3>1. Script[c][5] = "confirm" /\ Script[c][5+1] = "approve"
      BY <2>1
    <3> QED
      BY <2>2, <2>3, <3>1 DEF Follows
  <2>9. Follows(c, 6)
    <3>1. Script[c][6] = "approve" /\ Script[c][6+1] = "wait-approval"
      BY <2>1
    <3> QED
      BY <2>2, <2>3, <3>1 DEF Follows
  <2>10. Follows(c, 7)
    <3>1. Script[c][7] = "wait-approval" /\ Script[c][7+1] = "can"
      BY <2>1
    <3> QED
      BY <2>2, <2>3, <3>1 DEF Follows
  <2>11. Follows(c, 8)
    <3>1. Script[c][8] = "can" /\ Script[c][8+1] = "gas"
      BY <2>1
    <3> QED
      BY <2>2, <2>3, <3>1 DEF Follows
  <2>12. Follows(c, 9)
    <3>1. Script[c][9] = "gas" /\ Script[c][9+1] = "confirm"
      BY <2>1
    <3> QED
      BY <2>2, <2>3, <3>1 DEF Follows
  <2>13. Follows(c, 10)
    <3>1. Script[c][10] = "confirm" /\ Script[c][10+1] = "send"
      BY <2>1
    <3> QED
      BY <2>2, <2>3, <3>1 DEF Follows
  <2>14. Follows(c, 11)
    <3>1. Script[c][11] = "send" /\ Script[c][11+1] = "wait"
      BY <2>1
    <3> QED
      BY <2>2, <2>3, <3>1 DEF Follows
  <2>15. Follows(c, 12)
    <3>1. Script[c][12] = "wait"
      BY <2>1
    <3> QED
      BY <2>2, <2>3, <3>1 DEF Follows
  <2> QED
    BY <2>1, <2>2, <2>3, <2>4, <2>5, <2>6, <2>7, <2>8, <2>9, <2>10, <2>11, <2>12, <2>13, <2>14, <2>15
<1>4. CASE Script[c] = ExitValidator /\ c = "exit"
  <2>1. /\ Len(ExitValidator) = 4
        /\ ExitValidator[1] = "status" /\ ExitValidator[2] = "can"
        /\ ExitValidator[3] = "confirm" /\ ExitValidator[4] = "exit"
    BY DEF ExitValidator
  <2>2. /\ Follows(c, 1) /\ Follows(c, 2) /\ Follows(c, 3)
        /\ Follows(c, 4)
    BY <1>4, <2>1 DEF Follows
  <2>3. \A i \in 1..4 : i = 1 \/ i = 2 \/ i = 3 \/ i = 4
    OBVIOUS
  <2> QED
    BY <1>4, <2>1, <2>2, <2>3
<1> QED
  BY <1>1, <1>2, <1>3, <1>4, ScriptOf

-----------------------------------------------------------------------------
(* Types *)

Calls == AllCommands \cup {"approve"}
Statuses == {"none", "pending", "ok", "reverted", "replaced"}
Outs == {"unborn", "running", "done", "dropped"}

\* The flags of a run have types, and its fee flag is a fee.
LEMMA AskType ==
    ASSUME NEW s \in Sessions, NEW asked \in Asks[s]
    PROVE  asked \in Ask /\ asked[3] \in Fees
BY CommandAssumption DEF Fees, Ask

\* Fees are numbers.
LEMMA FeesType == Fees \subseteq Nat
<1>1. \A s \in Sessions : \A ask \in Asks[s] : ask[3] \in Nat
  BY AskType DEF Ask
<1>2. \A ask \in UNION {Asks[s] : s \in Sessions} : ask[3] \in Nat
  BY <1>1
<1> DEFINE flags == {ask[3] : ask \in UNION {Asks[s] : s \in Sessions}}
<1>3. flags \subseteq Nat
  BY <1>2
<1>4. Fees = Suggestions \cup {ManualMaxFee, 0} \cup flags
  BY DEF Fees
<1>5. Suggestions \subseteq Nat /\ ManualMaxFee \in Nat
  BY CommandAssumption
<1> HIDE DEF flags
<1> QED
  BY <1>3, <1>4, <1>5

\* No ask and no transaction have types, as soon as there is a value at all.
LEMMA NothingType ==
    ASSUME chain \in Chain
    PROVE  NoAsk \in Ask /\ NoTx \in Tx
<1>1. (CHOOSE v \in Values : TRUE) \in Values
  BY DEF Chain
<1>2. 0 \in Nonces
  BY CommandAssumption DEF Nonces
<1> QED
  BY <1>1, <1>2 DEF NoAsk, Ask, AllCommands, NoTx, Tx

\* A run outside of its script has a type.
LEMMA OutsideType ==
    ASSUME chain \in Chain, NEW out \in Outs, NEW asked \in Ask, NEW tx \in Tx
    PROVE  Outside(out, asked, tx) \in Session
<1>1. NoTx.name \in Values /\ NoTx.reward \in Values
  BY NothingType DEF Tx
<1> QED
  BY <1>1 DEF Outside, Session, Outs

\* What the steps change of a run.
LEMMA SessionType ==
    ASSUME NEW x \in Session
    PROVE  /\ \A step \in Nat \ {0}, fee \in Nat :
                [x EXCEPT !.step = step, !.fee = fee] \in Session
           /\ \A step \in Nat \ {0}, fee \in Nat, nonce \in Nat \cup {NoNonce} :
                [x EXCEPT !.step = step, !.fee = fee, !.nonce = nonce] \in Session
           /\ \A step \in Nat \ {0}, fee \in Nat, tx \in Tx :
                [x EXCEPT !.step = step, !.tx = tx, !.fee = fee] \in Session
           /\ \A step \in Nat \ {0}, agreed \in Nat :
                [x EXCEPT !.agreed = agreed, !.step = step] \in Session
           /\ \A status \in Statuses :
                [x EXCEPT !.tx.status = status] \in Session
           /\ [x EXCEPT !.tx.raced = TRUE] \in Session
BY DEF Session, Tx, Statuses

-----------------------------------------------------------------------------
(* What is known of one run x, when m transactions of the account are mined. *)

CallOf(x) == Script[x.asked[1]][x.step]

\* It is in its script, it has the fee that was agreed to when it acts, and it
\* waits only for a transaction that it sent.
ScriptInv(x) ==
    /\ x.asked[3] \in Fees
    /\ x.out = "unborn" => x.tx.status = "none"
    /\ x.out = "running" =>
         /\ x.step \in 1..Len(Script[x.asked[1]])
         /\ x.fee \in Fees
         /\ CallOf(x) = "confirm" /\ x.asked[1] # "exit" => x.fee # 0
         /\ CallOf(x) \in {"send", "approve"} => x.fee # 0 /\ x.agreed = x.fee
         /\ CallOf(x) = "exit" => x.agreed = 0
         /\ CallOf(x) \in Waiting => x.tx.status # "none"
         /\ x.tx.status = "pending" => CallOf(x) \in Waiting

\* Its custom nonce is the one asked for plus the transactions it sent, except for
\* one of 0 that stays, which is of no use once a transaction was mined.
NonceInv(x, m) ==
    /\ x.tx.status \in {"ok", "reverted"} => m >= 1
    /\ x.asked[2] # NoNonce =>
         /\ x.tx.status # "none" /\ x.tx.call \notin NoOverride =>
              x.tx.nonce = x.asked[2] + x.tx.rank - 1
         /\ x.out = "running" =>
              /\ x.nonce \in Nat
              /\ CallOf(x) = "wait-approval" => x.nonce = x.asked[2] + x.tx.rank - 1
              /\ CallOf(x) \notin Waiting =>
                   \/ x.nonce = x.asked[2] + x.tx.rank
                   \/ x.nonce = 0 /\ m >= 1

RunInv(x, m) == ScriptInv(x) /\ NonceInv(x, m)

\* Its deal with the operator, as NodeCommands says what it is.
DealOf(x) ==
    CASE x.out = "unborn" -> Payment!Open
      [] x.out \in {"done", "dropped"} -> [stage |-> x.out, fee |-> 0]
      [] x.out = "running" /\ CallOf(x) \in Acting ->
            [stage |-> "agreed", fee |-> x.agreed]
      [] x.out = "running" /\ CallOf(x) \in Waiting /\ x.tx.status = "pending" ->
            [stage |-> "sent", fee |-> x.tx.fee]
      [] x.out = "running" /\ CallOf(x) \in Waiting /\ x.tx.status = "ok" ->
            [stage |-> "mined", fee |-> x.tx.fee]
      [] /\ x.out = "running" /\ CallOf(x) \in Waiting
         /\ x.tx.status \in {"reverted", "replaced"} ->
            [stage |-> "lost", fee |-> x.tx.fee]
      [] OTHER -> Payment!Open

\* The refinement mapping is the deal of each run.
LEMMA DealIs == deal = [s \in Sessions |-> DealOf(session[s])]
BY DEF deal, DealOf, CallOf, Running, Doing, Command, Waits, Does, Acting, Waiting,
       Payment!Open

\* The deal of a run, by where the run is.
LEMMA DealCases ==
    ASSUME NEW x
    PROVE  /\ x.out = "unborn" => DealOf(x) = Payment!Open
           /\ x.out \in {"done", "dropped"} =>
                DealOf(x) = [stage |-> x.out, fee |-> 0]
           /\ x.out = "running" =>
                /\ CallOf(x) \in Acting =>
                     DealOf(x) = [stage |-> "agreed", fee |-> x.agreed]
                /\ CallOf(x) \in Waiting =>
                     /\ x.tx.status = "pending" =>
                          DealOf(x) = [stage |-> "sent", fee |-> x.tx.fee]
                     /\ x.tx.status = "ok" =>
                          DealOf(x) = [stage |-> "mined", fee |-> x.tx.fee]
                     /\ x.tx.status \in {"reverted", "replaced"} =>
                          DealOf(x) = [stage |-> "lost", fee |-> x.tx.fee]
                /\ CallOf(x) \notin Acting \cup Waiting => DealOf(x) = Payment!Open
BY DEF DealOf, Acting, Waiting

-----------------------------------------------------------------------------
(* What a step may do to a run *)

RunsInv == \A s \in Sessions : RunInv(session[s], mined)

\* What waits with a nonce is a transaction with that nonce.
OwnerInv ==
    \A n \in Nonces, s \in Sessions :
        owner[n] = s => /\ session[s].tx.status = "pending"
                        /\ session[s].tx.nonce = n

\* The contracts would take what waits to be mined, unless they were changed.
AcceptInv ==
    \A s \in Sessions :
        /\ session[s].tx.status = "pending" /\ ~session[s].tx.raced =>
             Accepts(chain, session[s].tx)
        /\ session[s].tx.status = "reverted" => session[s].tx.raced

IInv == TypeOK /\ RunsInv /\ OwnerInv /\ AcceptInv

\* What these say of the state after a step.
LEMMA RunsInvNext ==
    RunsInv' <=> \A s \in Sessions : RunInv(session'[s], mined')
BY DEF RunsInv, RunInv, ScriptInv, NonceInv, CallOf

\* AcceptInv in the next state, in terms of the next values of the runs.
LEMMA AcceptInvNext ==
    AcceptInv' <=>
        \A s \in Sessions :
            /\ session'[s].tx.status = "pending" /\ ~session'[s].tx.raced =>
                 Accepts(chain', session'[s].tx)
            /\ session'[s].tx.status = "reverted" => session'[s].tx.raced
BY DEF AcceptInv, Accepts

\* The refinement mapping in the next state, run by run.
LEMMA DealNext == deal' = [s \in Sessions |-> DealOf(session'[s])]
BY DEF deal, DealOf, CallOf, Running, Doing, Command, Waits, Does, Acting, Waiting,
       Payment!Open

\* The steps of AgreedPayment that move one run's deal, from d to e.
Deals(d, e) ==
    \/ e = d
    \/ d.stage = "open" /\ \E fee \in Fees : e = [stage |-> "agreed", fee |-> fee]
    \/ d.stage = "sent" /\ e.stage \in {"mined", "lost"}
         /\ e = [d EXCEPT !.stage = e.stage]
    \/ d.stage = "mined" /\ e \in {Payment!Open, [stage |-> "done", fee |-> 0]}
    \/ d = [stage |-> "agreed", fee |-> 0] /\ e = [stage |-> "done", fee |-> 0]
    \/ /\ d.stage \notin {"done", "dropped"}
       /\ e = [stage |-> "dropped", fee |-> 0]

\* Each of them is a step of AgreedPayment.
LEMMA DealsIsStep ==
    ASSUME NEW s \in Sessions, NEW e, Deals(deal[s], e),
           deal' = [deal EXCEPT ![s] = e]
    PROVE  [Payment!Next]_deal
<1>0. deal = [r \in Sessions |-> deal[r]]
  BY DealIs
<1>1. CASE e = deal[s]
  BY <1>0, <1>1
<1>2. CASE e # deal[s]
  <2>1. deal'[s] = e
    BY <1>0
  <2>2. CASE /\ deal[s].stage = "open"
             /\ \E fee \in Fees : e = [stage |-> "agreed", fee |-> fee]
    BY <1>2, <2>1, <2>2 DEF Payment!Next, Payment!Agree
  <2>3. CASE /\ deal[s].stage = "sent" /\ e.stage \in {"mined", "lost"}
             /\ e = [deal[s] EXCEPT !.stage = e.stage]
    BY <1>2, <2>1, <2>3 DEF Payment!Next, Payment!Mine, Payment!Move
  <2>4. CASE /\ deal[s].stage = "mined"
             /\ e \in {Payment!Open, [stage |-> "done", fee |-> 0]}
    BY <1>2, <2>1, <2>4 DEF Payment!Next, Payment!Report, Payment!Close, Payment!Open
  <2>5. CASE /\ deal[s] = [stage |-> "agreed", fee |-> 0]
             /\ e = [stage |-> "done", fee |-> 0]
    BY <1>2, <2>1, <2>5 DEF Payment!Next, Payment!Act, Payment!Close
  <2>6. CASE /\ deal[s].stage \notin {"done", "dropped"}
             /\ e = [stage |-> "dropped", fee |-> 0]
    BY <1>2, <2>1, <2>6 DEF Payment!Next, Payment!Drop, Payment!Close
  <2> QED
    BY <1>2, <2>2, <2>3, <2>4, <2>5, <2>6 DEF Deals
<1> QED
  BY <1>1, <1>2

\* A step by which run s becomes y, and nothing else changes.
Becomes(s, y) ==
    /\ session' = [session EXCEPT ![s] = y]
    /\ UNCHANGED <<chain, owner, mined, changes>>

\* What y has to be: a run with the invariant and the transaction that was there,
\* which is forgotten only when it does not wait to be mined.
Sound(x, y, m) ==
    /\ y \in Session
    /\ RunInv(y, m)
    /\ Deals(DealOf(x), DealOf(y))
    /\ y.tx = x.tx \/ (x.tx.status # "pending" /\ y.tx.status = "none")

\* A run that becomes a sound one is a step of AgreedPayment and keeps IInv.
LEMMA BecomesSound ==
    ASSUME IInv, NEW s \in Sessions, NEW y, Becomes(s, y),
           Sound(session[s], y, mined)
    PROVE  IInv' /\ [Payment!Next]_deal
<1>0. session \in [Sessions -> Session]
  BY DEF IInv, TypeOK
<1>1. session'[s] = y /\ \A r \in Sessions \ {s} : session'[r] = session[r]
  BY <1>0 DEF Becomes
<1>2. TypeOK'
  BY <1>0 DEF IInv, TypeOK, Becomes, Sound
<1>3. RunsInv'
  BY <1>1, RunsInvNext DEF IInv, RunsInv, Becomes, Sound
<1>4. OwnerInv'
  BY <1>1 DEF IInv, OwnerInv, Becomes, Sound
<1>5. AcceptInv'
  BY <1>1, AcceptInvNext DEF IInv, AcceptInv, Becomes, Sound
<1>6. IInv'
  BY <1>2, <1>3, <1>4, <1>5 DEF IInv
<1>7. deal' = [deal EXCEPT ![s] = DealOf(y)] /\ deal[s] = DealOf(session[s])
  BY <1>0, <1>1, DealIs, DealNext
<1>8. [Payment!Next]_deal
  BY <1>7, DealsIsStep DEF Sound
<1> QED
  BY <1>6, <1>8

-----------------------------------------------------------------------------
(* The steps of one run *)

\* What IInv says of one run.
LEMMA RunIs ==
    ASSUME IInv, NEW s \in Sessions
    PROVE  /\ session[s] \in Session
           /\ RunInv(session[s], mined)
           /\ session[s].asked \in Ask
           /\ session[s].asked[1] \in AllCommands
           /\ session[s].asked[3] \in Nat
           /\ Doing(s) = CallOf(session[s])
           /\ mined \in Nat
BY DEF IInv, RunsInv, TypeOK, Session, Ask, Doing, CallOf, Command

Quiet == {"can", "allowance", "approval-gas", "gas"}

\* A call that returns leads to another one that acts on nothing.
LEMMA ReturnSound ==
    ASSUME IInv, NEW s \in Sessions, Running(s),
           Doing(s) \in {"status", "allowance", "approval-gas", "can"},
           NEW step \in 1..Len(Script[Command(s)]),
           \/ Script[Command(s)][step] \in Quiet
           \/ Script[Command(s)][step] = "confirm" /\ Command(s) = "exit",
           Return(s, step), UNCHANGED <<chain, owner, mined, changes>>
    PROVE  IInv' /\ [Payment!Next]_deal
<1> DEFINE x == session[s]
           y == [x EXCEPT !.step = step, !.fee = x.asked[3]]
<1>0. /\ x \in Session /\ RunInv(x, mined) /\ x.asked[3] \in Nat /\ x.out = "running"
      /\ CallOf(x) \in {"status", "allowance", "approval-gas", "can"}
      /\ step \in 1..Len(Script[x.asked[1]])
      /\ \/ Script[x.asked[1]][step] \in Quiet
         \/ Script[x.asked[1]][step] = "confirm" /\ x.asked[1] = "exit"
  BY RunIs DEF Command, Running
<1>1. Becomes(s, y)
  BY DEF Return, Becomes
<1> HIDE DEF x
<1>2. /\ y.step = step /\ y.fee = x.asked[3] /\ y.asked = x.asked /\ y.tx = x.tx
      /\ y.out = "running" /\ y.nonce = x.nonce /\ y.agreed = x.agreed
  BY <1>0 DEF Session
<1>3. y \in Session
  <2>1. step \in Nat \ {0}
    BY <1>0
  <2> QED
    BY <1>0, <2>1, SessionType
<1> HIDE DEF y
<1>4. CallOf(y) = Script[x.asked[1]][step]
  BY <1>2 DEF CallOf
<1>5. /\ CallOf(y) \in Quiet \cup {"confirm"}
      /\ CallOf(y) = "confirm" => y.asked[1] = "exit"
      /\ x.tx.status # "pending"
      /\ x.asked[3] \in Fees
  BY <1>0, <1>2, <1>4 DEF RunInv, ScriptInv, Waiting, Quiet
<1>6. ScriptInv(y)
  BY <1>0, <1>2, <1>4, <1>5 DEF ScriptInv, Quiet, Waiting
<1>7. NonceInv(y, mined)
  BY <1>0, <1>2, <1>5 DEF RunInv, NonceInv, Quiet, Waiting
<1>8. DealOf(x) = Payment!Open /\ DealOf(y) = Payment!Open
  BY <1>0, <1>2, <1>5, DealCases DEF Acting, Waiting, Quiet
<1>9. Sound(x, y, mined)
  BY <1>2, <1>3, <1>6, <1>7, <1>8 DEF Sound, RunInv, Deals
<1> QED
  BY <1>1, <1>9, BecomesSound DEF x

\* A run that ends keeps no deal, and only a transaction that waits.
LEMMA EndSound ==
    ASSUME IInv, NEW s \in Sessions, NEW out \in {"done", "dropped"}, End(s, out),
           Deals(DealOf(session[s]), [stage |-> out, fee |-> 0]),
           UNCHANGED <<chain, owner, mined, changes>>
    PROVE  IInv' /\ [Payment!Next]_deal
<1> DEFINE x == session[s]
           y == IF x.tx.status = "pending" THEN Outside(out, x.asked, x.tx)
                ELSE Outside(out, NoAsk, NoTx)
<1>0. /\ x \in Session /\ RunInv(x, mined) /\ x.asked \in Ask /\ x.tx \in Tx
      /\ NoAsk \in Ask /\ NoTx \in Tx /\ out \in Outs
      /\ Deals(DealOf(x), [stage |-> out, fee |-> 0])
  BY RunIs, NothingType DEF Session, IInv, TypeOK, Outs
<1>1. Becomes(s, y)
  BY DEF End, Becomes
<1> HIDE DEF x
<1>2. /\ y.out = out
      /\ x.tx.status = "pending" => y.tx = x.tx /\ y.asked = x.asked
      /\ x.tx.status # "pending" => y.tx = NoTx /\ y.asked = NoAsk
  BY DEF Outside
<1>3. y \in Session
  BY <1>0, OutsideType DEF IInv, TypeOK
<1> HIDE DEF y
<1>4. /\ NoTx.status = "none" /\ NoAsk[3] = 0 /\ NoAsk[2] = NoNonce /\ 0 \in Fees
  BY DEF NoTx, NoAsk, Fees
<1>5. ScriptInv(y)
  BY <1>0, <1>2, <1>4 DEF ScriptInv, RunInv
<1>6. NonceInv(y, mined)
  <2>1. CASE x.tx.status = "pending"
    BY <1>0, <1>2, <2>1 DEF RunInv, NonceInv
  <2>2. CASE x.tx.status # "pending"
    BY <1>2, <1>4, <2>2 DEF NonceInv
  <2> QED
    BY <2>1, <2>2
<1>7. DealOf(y) = [stage |-> out, fee |-> 0]
  BY <1>2, DealCases
<1>8. Sound(x, y, mined)
  BY <1>0, <1>2, <1>3, <1>4, <1>5, <1>6, <1>7 DEF Sound, RunInv
<1> QED
  BY <1>1, <1>8, BecomesSound DEF x

\* A run that fails, whenever it does, drops its deal.
LEMMA FailStep ==
    ASSUME IInv, NEW s \in Sessions, Fail(s)
    PROVE  IInv' /\ [Payment!Next]_deal
<1>1. DealOf(session[s]).stage \notin {"done", "dropped"}
  <2>1. session[s].out = "running" /\ session[s].tx.status \in Statuses
    BY RunIs DEF Fail, Running, Session, Tx, Statuses
  <2>2. CallOf(session[s]) \in Waiting => session[s].tx.status # "none"
    BY RunIs, <2>1 DEF RunInv, ScriptInv
  <2> QED
    BY <2>1, <2>2, DealCases DEF Payment!Open, Statuses
<1>2. Deals(DealOf(session[s]), [stage |-> "dropped", fee |-> 0])
  BY <1>1 DEF Deals
<1> QED
  BY <1>2, EndSound DEF Fail

\* The wait ends as the transaction did.
LEMMA WaitForTransactionStep ==
    ASSUME IInv, NEW s \in Sessions, WaitForTransaction(s)
    PROVE  IInv' /\ [Payment!Next]_deal
<1> DEFINE out == IF session[s].tx.status = "ok" THEN "done" ELSE "dropped"
<1>1. /\ session[s].out = "running" /\ CallOf(session[s]) \in Waiting
      /\ session[s].tx.status \in {"ok", "reverted"}
      /\ End(s, out)
  BY RunIs DEF WaitForTransaction, Does, Running, Waiting
<1>2. Deals(DealOf(session[s]), [stage |-> out, fee |-> 0])
  BY <1>1, DealCases DEF Deals
<1> QED
  BY <1>1, <1>2, EndSound DEF WaitForTransaction

\* The gas assigns a fee, and none is never assigned.
LEMMA AssignStep ==
    ASSUME IInv, NEW s \in Sessions, AssignMaxFeeAndLimit(s)
    PROVE  IInv' /\ [Payment!Next]_deal
<1> DEFINE x == session[s]
<1>1. PICK fee \in IF x.fee # 0 THEN {x.fee}
                   ELSE IF ManualMaxFee # 0 THEN {ManualMaxFee} ELSE Suggestions :
         session' = [session EXCEPT ![s].fee = fee, ![s].step = @ + 1]
  BY DEF AssignMaxFeeAndLimit
<1> DEFINE y == [x EXCEPT !.step = x.step + 1, !.fee = fee]
<1>0. /\ x \in Session /\ RunInv(x, mined) /\ x.out = "running"
      /\ CallOf(x) = "gas" /\ x.asked[1] \in AllCommands
  BY RunIs DEF AssignMaxFeeAndLimit, Does, Running
<1>2. Becomes(s, y)
  BY <1>1 DEF Becomes, AssignMaxFeeAndLimit
<1> HIDE DEF x
<1>3. x.step \in 1..Len(Script[x.asked[1]]) /\ x.step \in Nat \ {0} /\ x.fee \in Fees
  BY <1>0 DEF RunInv, ScriptInv, Session
<1>4. fee \in Fees /\ fee # 0 /\ fee \in Nat
  BY <1>1, <1>3, CommandAssumption, FeesType DEF Fees
<1>5. Follows(x.asked[1], x.step)
  BY <1>0, <1>3, ScriptFollows
<1>6. /\ y.step = x.step + 1 /\ y.fee = fee /\ y.asked = x.asked /\ y.tx = x.tx
      /\ y.out = "running" /\ y.nonce = x.nonce /\ y.agreed = x.agreed
  BY <1>0 DEF Session
<1>7. y \in Session
  <2>1. x.step + 1 \in Nat \ {0}
    BY <1>3
  <2> QED
    BY <1>0, <1>4, <2>1, SessionType
<1> HIDE DEF y
<1>8. /\ CallOf(y) = "confirm"
      /\ y.step \in 1..Len(Script[y.asked[1]])
  BY <1>0, <1>5, <1>6 DEF CallOf, Follows
<1>9. ScriptInv(y)
  BY <1>0, <1>4, <1>6, <1>8 DEF RunInv, ScriptInv, Waiting
<1>10. NonceInv(y, mined)
  BY <1>0, <1>6, <1>8 DEF RunInv, NonceInv, Waiting
<1>11. DealOf(x) = Payment!Open /\ DealOf(y) = Payment!Open
  BY <1>0, <1>6, <1>8, DealCases DEF Acting, Waiting
<1>12. Sound(x, y, mined)
  BY <1>6, <1>7, <1>9, <1>10, <1>11 DEF Sound, RunInv, Deals
<1> QED
  BY <1>2, <1>12, BecomesSound DEF x

\* The operator agrees to what is then done, at the fee that it is done at.
LEMMA ConfirmStep ==
    ASSUME IInv, NEW s \in Sessions, Confirm(s)
    PROVE  IInv' /\ [Payment!Next]_deal
<1> DEFINE x == session[s]
           agreed == IF Command(s) = "exit" THEN 0 ELSE session[s].fee
           y == [x EXCEPT !.agreed = agreed, !.step = x.step + 1]
<1>0. /\ x \in Session /\ RunInv(x, mined) /\ x.out = "running"
      /\ CallOf(x) = "confirm" /\ x.asked[1] \in AllCommands
      /\ Becomes(s, y)
      /\ agreed = IF x.asked[1] = "exit" THEN 0 ELSE x.fee
  BY RunIs DEF Confirm, Does, Running, Command, Becomes
<1> HIDE DEF x, agreed
<1>3. x.step \in 1..Len(Script[x.asked[1]]) /\ x.step \in Nat \ {0} /\ x.fee \in Fees
  BY <1>0 DEF RunInv, ScriptInv, Session
<1>4. agreed \in Fees /\ agreed \in Nat
  BY <1>0, <1>3, FeesType DEF Fees
<1>5. Follows(x.asked[1], x.step)
  BY <1>0, <1>3, ScriptFollows
<1>6. /\ y.step = x.step + 1 /\ y.fee = x.fee /\ y.asked = x.asked /\ y.tx = x.tx
      /\ y.out = "running" /\ y.nonce = x.nonce /\ y.agreed = agreed
  BY <1>0 DEF Session
<1>7. y \in Session
  <2>1. x.step + 1 \in Nat \ {0}
    BY <1>3
  <2> QED
    BY <1>0, <1>4, <2>1, SessionType
<1> HIDE DEF y
<1>8. /\ CallOf(y) \in {"send", "approve", "exit"}
      /\ CallOf(y) = "exit" <=> x.asked[1] = "exit"
      /\ y.step \in 1..Len(Script[y.asked[1]])
  BY <1>0, <1>5, <1>6 DEF CallOf, Follows
<1>9. ScriptInv(y)
  BY <1>0, <1>3, <1>6, <1>8 DEF RunInv, ScriptInv, Waiting
<1>10. NonceInv(y, mined)
  BY <1>0, <1>6, <1>8 DEF RunInv, NonceInv, Waiting
<1>11. /\ DealOf(x) = Payment!Open
       /\ DealOf(y) = [stage |-> "agreed", fee |-> agreed]
  BY <1>0, <1>6, <1>8, DealCases DEF Acting, Waiting
<1>12. Deals(DealOf(x), DealOf(y))
  BY <1>4, <1>11 DEF Deals, Payment!Open
<1>13. Sound(x, y, mined)
  BY <1>6, <1>7, <1>9, <1>10, <1>12 DEF Sound, RunInv
<1> QED
  BY <1>0, <1>13, BecomesSound DEF x

\* After the approval comes what was approved, with the next custom nonce.
LEMMA ApprovedSound ==
    ASSUME IInv, NEW s \in Sessions, Running(s), Doing(s) = "wait-approval",
           session[s].tx.status = "ok",
           session' = [session EXCEPT
                ![s].step = @ + 1, ![s].fee = session[s].asked[3],
                ![s].nonce = IF @ \in {NoNonce, 0} THEN @ ELSE @ + 1],
           UNCHANGED <<chain, owner, mined, changes>>
    PROVE  IInv' /\ [Payment!Next]_deal
<1> DEFINE x == session[s]
           nonce == IF x.nonce \in {NoNonce, 0} THEN x.nonce ELSE x.nonce + 1
           y == [x EXCEPT !.step = x.step + 1, !.fee = x.asked[3], !.nonce = nonce]
<1>0. /\ x \in Session /\ RunInv(x, mined) /\ x.out = "running"
      /\ CallOf(x) = "wait-approval" /\ x.tx.status = "ok"
      /\ x.asked \in Ask /\ x.asked[1] \in AllCommands /\ x.asked[3] \in Nat
      /\ mined \in Nat
  BY RunIs DEF Running
<1>1. Becomes(s, y)
  BY DEF Becomes
<1> HIDE DEF x
<1>2. /\ x.step \in 1..Len(Script[x.asked[1]])
      /\ x.step + 1 \in Nat \ {0}
  BY <1>0 DEF RunInv, ScriptInv, Session
<1>3. Follows(x.asked[1], x.step)
  BY <1>0, <1>2, ScriptFollows
<1>4. nonce \in Nat \cup {NoNonce}
  BY <1>0 DEF Session
<1>5. x.asked[2] # NoNonce =>
        /\ nonce \in Nat
        /\ \/ nonce = x.asked[2] + x.tx.rank
           \/ nonce = 0 /\ mined >= 1
  <2>1. x.asked[2] \in Nat \cup {NoNonce} /\ x.tx.rank \in Nat
    BY <1>0 DEF Ask, Session, Tx
  <2>2. x.asked[2] # NoNonce => /\ x.nonce \in Nat /\ mined >= 1
                                /\ x.nonce = x.asked[2] + x.tx.rank - 1
    BY <1>0 DEF RunInv, NonceInv
  <2>3. NoNonce \notin Nat
    BY CommandAssumption
  <2> QED
    BY <2>1, <2>2, <2>3
<1> HIDE DEF nonce
<1>6. /\ y.step = x.step + 1 /\ y.fee = x.asked[3] /\ y.asked = x.asked
      /\ y.tx = x.tx /\ y.out = "running" /\ y.nonce = nonce
  BY <1>0 DEF Session
<1>7. y \in Session
  BY <1>0, <1>2, <1>4, SessionType
<1> HIDE DEF y
<1>8. /\ CallOf(y) = "can"
      /\ y.step \in 1..Len(Script[y.asked[1]])
  BY <1>0, <1>3, <1>6 DEF CallOf, Follows
<1>9. ScriptInv(y)
  BY <1>0, <1>6, <1>8 DEF RunInv, ScriptInv, Waiting
<1>10. NonceInv(y, mined)
  BY <1>0, <1>5, <1>6, <1>8 DEF RunInv, NonceInv, Waiting
<1>11. /\ DealOf(x).stage = "mined"
       /\ DealOf(y) = Payment!Open
  BY <1>0, <1>6, <1>8, DealCases DEF Acting, Waiting
<1>12. Sound(x, y, mined)
  BY <1>6, <1>7, <1>9, <1>10, <1>11 DEF Sound, RunInv, Deals
<1> QED
  BY <1>1, <1>12, BecomesSound DEF x

\* The wait for the approval goes on with what was approved, or fails.
LEMMA WaitForApprovalStep ==
    ASSUME IInv, NEW s \in Sessions, WaitForApproval(s)
    PROVE  IInv' /\ [Payment!Next]_deal
<1>1. CASE session[s].tx.status = "ok"
  BY <1>1, ApprovedSound DEF WaitForApproval, Does
<1>2. CASE session[s].tx.status # "ok"
  <2>1. /\ session[s].out = "running" /\ CallOf(session[s]) \in Waiting
        /\ session[s].tx.status = "reverted"
        /\ End(s, "dropped")
    BY <1>2, RunIs DEF WaitForApproval, Does, Running, Waiting
  <2>2. Deals(DealOf(session[s]), [stage |-> "dropped", fee |-> 0])
    BY <2>1, DealCases DEF Deals
  <2> QED
    BY <2>1, <2>2, EndSound DEF WaitForApproval
<1> QED
  BY <1>1, <1>2

\* A run starts with nothing agreed to.
LEMMA StartStep ==
    ASSUME IInv, NEW s \in Sessions, Start(s)
    PROVE  IInv' /\ [Payment!Next]_deal
<1> DEFINE x == session[s]
<1>1. PICK asked \in Asks[s], n \in Values, r \in Values, o \in BOOLEAN :
         session' = [session EXCEPT ![s] = NewClient(asked, n, r, o)]
  <2> DEFINE begins(asked, n, r, o) ==
                 session' = [session EXCEPT ![s] = NewClient(asked, n, r, o)]
  <2>1. \E asked \in Asks[s], n, r \in Values, o \in BOOLEAN :
          LET c == asked[1] IN
            /\ c \in {"register", "update-operator-name"} \/ n = NoTx.name
            /\ c \in {"register", "update-operator-reward-address"} \/ r = NoTx.reward
            /\ c \in {"register", "update-socialize-el"} \/ ~o
            /\ begins(asked, n, r, o)
    BY Zenon DEF Start
  <2> HIDE DEF begins
  <2>2. \E asked \in Asks[s], n, r \in Values, o \in BOOLEAN :
            begins(asked, n, r, o)
    BY <2>1, Zenon
  <2> QED
    BY <2>2 DEF begins
<1> DEFINE y == NewClient(asked, n, r, o)
<1>0. /\ x \in Session /\ RunInv(x, mined) /\ x.out = "unborn"
  BY RunIs DEF Start
<1>2. Becomes(s, y)
  BY <1>1 DEF Becomes, Start
<1> HIDE DEF x
<1>3. /\ asked \in Ask /\ asked[1] \in AllCommands /\ asked[3] \in Fees
      /\ asked[2] \in Nat \cup {NoNonce} /\ asked[3] \in Nat
  BY AskType DEF Ask
<1>4. NoTx \in Tx /\ NoTx.status = "none" /\ NoTx.rank = 0
  BY NothingType DEF NoTx, IInv, TypeOK
<1>5. /\ 1 \in 1..Len(Script[asked[1]])
      /\ Script[asked[1]][1] \in {"status", "can"}
  BY <1>3, ScriptFollows
<1>6. y \in Session
  BY <1>3, <1>4 DEF Session, NewClient
<1>7. /\ y.step = 1 /\ y.fee = asked[3] /\ y.asked = asked
      /\ y.tx = NoTx /\ y.out = "running" /\ y.nonce = asked[2]
  BY DEF NewClient
<1> HIDE DEF y
<1>8. CallOf(y) \in {"status", "can"}
  BY <1>5, <1>7 DEF CallOf
<1>9. ScriptInv(y)
  BY <1>3, <1>4, <1>5, <1>7, <1>8 DEF ScriptInv, Waiting
<1>10. NonceInv(y, mined)
  BY <1>3, <1>4, <1>7, <1>8 DEF NonceInv, Waiting
<1>11. DealOf(x) = Payment!Open /\ DealOf(y) = Payment!Open
  BY <1>0, <1>7, <1>8, DealCases DEF Acting, Waiting
<1>12. Sound(x, y, mined)
  BY <1>0, <1>4, <1>6, <1>7, <1>9, <1>10, <1>11 DEF Sound, RunInv, ScriptInv, Deals
<1> QED
  BY <1>2, <1>12, BecomesSound DEF x

\* The calls that only look.
LEMMA QuietStep ==
    ASSUME IInv, NEW s \in Sessions,
           \/ CheckClientStatus(s) \/ GetNodeDepositSdAllowance(s)
           \/ NodeDepositSdApprovalGas(s) \/ CanDo(s)
    PROVE  IInv' /\ [Payment!Next]_deal
<1>0. /\ Running(s) /\ Command(s) \in AllCommands
      /\ session[s].step \in 1..Len(Script[Command(s)])
      /\ Doing(s) = Script[Command(s)][session[s].step]
      /\ UNCHANGED <<chain, owner, mined, changes>>
  BY RunIs DEF CheckClientStatus, GetNodeDepositSdAllowance, RunInv, ScriptInv,
        NodeDepositSdApprovalGas, CanDo, Does, Running, Command, Doing
<1>1. Follows(Command(s), session[s].step)
  BY <1>0, ScriptFollows
<1>2. CASE CheckClientStatus(s) \/ NodeDepositSdApprovalGas(s) \/ CanDo(s)
  <2>1. /\ Doing(s) \in {"status", "approval-gas", "can"}
        /\ Return(s, session[s].step + 1)
    BY <1>2 DEF CheckClientStatus, NodeDepositSdApprovalGas, CanDo, Does, Answered
  <2>2. /\ session[s].step + 1 \in 1..Len(Script[Command(s)])
        /\ \/ Script[Command(s)][session[s].step + 1] \in Quiet
           \/ /\ Script[Command(s)][session[s].step + 1] = "confirm"
              /\ Command(s) = "exit"
    BY <1>0, <1>1, <2>1 DEF Follows, Quiet
  <2> QED
    BY <1>0, <2>1, <2>2, ReturnSound
<1>3. CASE GetNodeDepositSdAllowance(s)
  <2>1. Doing(s) = "allowance" /\ \E step \in {3, 8} : Return(s, step)
    BY <1>3 DEF GetNodeDepositSdAllowance, Does
  <2>2. \A step \in {3, 8} : /\ step \in 1..Len(Script[Command(s)])
                             /\ Script[Command(s)][step] \in Quiet
    BY <1>0, <1>1, <2>1 DEF Follows, Quiet
  <2> QED
    BY <1>0, <2>1, <2>2, ReturnSound
<1> QED
  BY <1>2, <1>3

-----------------------------------------------------------------------------
(* The steps of more than one run *)

\* What a change of the contracts does to a run, as in Raced.
Raise(x) == IF x.tx.status = "pending" THEN [x EXCEPT !.tx.raced = TRUE] ELSE x

\* A change of the contracts raises the flag of every run that waits to be mined.
LEMMA RacedIs == Raced = [s \in Sessions |-> Raise(session[s])]
BY DEF Raced, Raise, Pending

\* A run whose transaction is raced is still the same for its operator.
LEMMA RaiseKeeps ==
    ASSUME NEW x \in Session, NEW m \in Nat, NEW n \in Nat, m <= n, RunInv(x, m)
    PROVE  /\ Raise(x) \in Session
           /\ RunInv(Raise(x), n)
           /\ DealOf(Raise(x)) = DealOf(x)
           /\ Raise(x).tx.status = x.tx.status
           /\ Raise(x).tx.nonce = x.tx.nonce
           /\ x.tx.status = "pending" => Raise(x).tx.raced
           /\ x.tx.status # "pending" => Raise(x) = x
<1>1. CASE x.tx.status # "pending"
  BY <1>1 DEF Raise, RunInv, ScriptInv, NonceInv
<1>2. CASE x.tx.status = "pending"
  <2> DEFINE y == [x EXCEPT !.tx.raced = TRUE]
  <2>1. y \in Session
    BY SessionType
  <2>2. /\ y.step = x.step /\ y.fee = x.fee /\ y.asked = x.asked /\ y.out = x.out
        /\ y.nonce = x.nonce /\ y.agreed = x.agreed
        /\ y.tx.status = x.tx.status /\ y.tx.nonce = x.tx.nonce
        /\ y.tx.rank = x.tx.rank /\ y.tx.call = x.tx.call /\ y.tx.fee = x.tx.fee
        /\ y.tx.raced
    BY DEF Session, Tx
  <2>3. Raise(x) = y
    BY <1>2 DEF Raise
  <2> HIDE DEF y
  <2>4. CallOf(y) = CallOf(x)
    BY <2>2 DEF CallOf
  <2>5. ScriptInv(y)
    BY <2>2, <2>4 DEF RunInv, ScriptInv
  <2>6. NonceInv(y, n)
    BY <2>2, <2>4 DEF RunInv, NonceInv
  <2>7. DealOf(y) = DealOf(x)
    BY <2>2, <2>4 DEF DealOf
  <2> QED
    BY <1>2, <2>1, <2>2, <2>3, <2>5, <2>6, <2>7 DEF RunInv
<1> QED
  BY <1>1, <1>2

\* A run whose transaction is mined or replaced.
LEMMA StatusChange ==
    ASSUME NEW x \in Session, x.tx.status = "pending",
           NEW m \in Nat, NEW n \in Nat, m <= n, RunInv(x, m),
           NEW status \in {"ok", "reverted", "replaced"},
           status # "replaced" => n >= 1,
           NEW y, y = [x EXCEPT !.tx.status = status]
    PROVE  /\ y \in Session
           /\ RunInv(y, n)
           /\ y.tx.status = status /\ y.tx.raced = x.tx.raced
           /\ IF x.out = "running"
              THEN /\ DealOf(x) = [stage |-> "sent", fee |-> x.tx.fee]
                   /\ DealOf(y) = [stage |-> IF status = "ok" THEN "mined" ELSE "lost",
                                   fee |-> x.tx.fee]
              ELSE /\ DealOf(x) = [stage |-> x.out, fee |-> 0]
                   /\ DealOf(y) = DealOf(x)
                   /\ x.out \in {"done", "dropped"}
<1>1. y \in Session
  BY SessionType DEF Statuses
<1>2. /\ y.step = x.step /\ y.fee = x.fee /\ y.asked = x.asked /\ y.out = x.out
      /\ y.nonce = x.nonce /\ y.agreed = x.agreed
      /\ y.tx.status = status /\ y.tx.nonce = x.tx.nonce
      /\ y.tx.rank = x.tx.rank /\ y.tx.call = x.tx.call /\ y.tx.fee = x.tx.fee
      /\ y.tx.raced = x.tx.raced
  BY DEF Session, Tx
<1>3. CallOf(y) = CallOf(x)
  BY <1>2 DEF CallOf
<1>4. /\ x.out \in Outs \ {"unborn"}
      /\ x.out = "running" => CallOf(x) \in Waiting
  BY DEF RunInv, ScriptInv, Session, Outs
<1>5. ScriptInv(y)
  BY <1>2, <1>3, <1>4 DEF RunInv, ScriptInv
<1>6. NonceInv(y, n)
  BY <1>2, <1>3, <1>4 DEF RunInv, NonceInv, Waiting
<1>7. IF x.out = "running"
      THEN /\ DealOf(x) = [stage |-> "sent", fee |-> x.tx.fee]
           /\ DealOf(y) = [stage |-> IF status = "ok" THEN "mined" ELSE "lost",
                           fee |-> x.tx.fee]
      ELSE /\ DealOf(x) = [stage |-> x.out, fee |-> 0]
           /\ DealOf(y) = DealOf(x)
           /\ x.out \in {"done", "dropped"}
  <2>1. CASE x.out = "running"
    <3>1. DealOf(x) = [stage |-> "sent", fee |-> x.tx.fee]
      BY <1>4, <2>1, DealCases
    <3>2. status = "ok" => DealOf(y) = [stage |-> "mined", fee |-> x.tx.fee]
      BY <1>2, <1>3, <1>4, <2>1, DealCases
    <3>3. status # "ok" => DealOf(y) = [stage |-> "lost", fee |-> x.tx.fee]
      BY <1>2, <1>3, <1>4, <2>1, DealCases
    <3> QED
      BY <2>1, <3>1, <3>2, <3>3
  <2>2. CASE x.out \in {"done", "dropped"}
    <3>1. DealOf(x) = [stage |-> x.out, fee |-> 0]
      BY <2>2, DealCases
    <3>2. DealOf(y) = [stage |-> x.out, fee |-> 0]
      BY <1>2, <2>2, DealCases
    <3> QED
      BY <2>2, <3>1, <3>2
  <2> QED
    BY <1>4, <2>1, <2>2 DEF Outs
<1> QED
  BY <1>1, <1>2, <1>5, <1>6, <1>7 DEF RunInv

\* What others do keeps the type of the contracts' state.
LEMMA OthersType ==
    ASSUME NEW ch \in Chain
    PROVE  Others(ch) \subseteq Chain
<1> DEFINE pause == ~ch.paused
           lock == ~ch.locked
           empty == ~ch.elVault
           claim == ch.claimable \/ ch.elVault
<1>1. pause \in BOOLEAN /\ lock \in BOOLEAN /\ empty \in BOOLEAN /\ claim \in BOOLEAN
  BY Zenon
<1> HIDE DEF pause, lock, empty, claim
<1>2. /\ [ch EXCEPT !.paused = pause] \in Chain
      /\ [ch EXCEPT !.locked = lock] \in Chain
      /\ [ch EXCEPT !.elVault = empty, !.claimable = claim] \in Chain
  BY <1>1 DEF Chain
<1>3. /\ [ch EXCEPT !.clVault = "over"] \in Chain
      /\ [ch EXCEPT !.clVault = "settled"] \in Chain
      /\ [ch EXCEPT !.active = FALSE] \in Chain
      /\ [ch EXCEPT !.cooling = FALSE] \in Chain
      /\ [ch EXCEPT !.claimable = FALSE] \in Chain
  BY DEF Chain
<1> QED
  BY <1>2, <1>3, Zenon DEF Others, pause, lock, empty, claim

\* A change by others moves no deal.
LEMMA ChangeStep ==
    ASSUME IInv, Change
    PROVE  IInv' /\ [Payment!Next]_deal
<1>0. session' = [s \in Sessions |-> Raise(session[s])] /\ UNCHANGED <<owner, mined>>
  BY RacedIs DEF Change
<1>1. \A s \in Sessions :
        /\ session'[s] \in Session /\ RunInv(session'[s], mined')
        /\ DealOf(session'[s]) = DealOf(session[s])
        /\ session'[s].tx.status = session[s].tx.status
        /\ session'[s].tx.nonce = session[s].tx.nonce
        /\ session[s].tx.status = "pending" => session'[s].tx.raced
        /\ session[s].tx.status # "pending" => session'[s] = session[s]
  BY <1>0, RunIs, RaiseKeeps
<1>2. chain' \in Chain
  BY OthersType DEF Change, IInv, TypeOK
<1>3. TypeOK'
  BY <1>0, <1>1, <1>2 DEF IInv, TypeOK, Change
<1>4. RunsInv'
  BY <1>1, RunsInvNext
<1>5. OwnerInv'
  BY <1>0, <1>1 DEF IInv, OwnerInv
<1>6. AcceptInv'
  BY <1>1, AcceptInvNext DEF IInv, AcceptInv
<1>7. deal' = deal
  BY <1>1, DealIs, DealNext
<1> QED
  BY <1>3, <1>4, <1>5, <1>6, <1>7 DEF IInv

\* What a transaction that is accepted does keeps the type as well.
LEMMA EffectType ==
    ASSUME NEW ch \in Chain, NEW tx \in Tx, Accepts(ch, tx)
    PROVE  Effect(ch, tx) \in Chain
<1>1. /\ tx.call \in Calls /\ tx.name \in Values /\ tx.reward \in Values
      /\ tx.opt \in BOOLEAN
  BY DEF Tx, Calls
<1>2. CASE tx.call \in {"deposit-sd", "withdraw-sd", "send"}
  <2>1. /\ ch.sd \in Nat /\ ch.collateral \in Nat
        /\ tx.call \in {"deposit-sd", "send"} => ch.sd - 1 \in Nat
        /\ tx.call = "withdraw-sd" => ch.collateral - 1 \in Nat
    BY <1>2 DEF Accepts, Chain
  <2>2. CASE tx.call = "deposit-sd"
    <3> DEFINE sd == ch.sd - 1
               held == ch.collateral + 1
    <3>1. Effect(ch, tx) = [ch EXCEPT !.sd = sd, !.collateral = held]
      BY <2>2 DEF Effect
    <3>2. sd \in Nat /\ held \in Nat
      BY <2>1, <2>2
    <3> HIDE DEF sd, held
    <3> QED
      BY <3>1, <3>2 DEF Chain
  <2>3. CASE tx.call = "withdraw-sd"
    <3> DEFINE sd == ch.sd + 1
               held == ch.collateral - 1
    <3>1. Effect(ch, tx) = [ch EXCEPT !.sd = sd, !.collateral = held]
      BY <2>3 DEF Effect
    <3>2. sd \in Nat /\ held \in Nat
      BY <2>1, <2>3
    <3> HIDE DEF sd, held
    <3> QED
      BY <3>1, <3>2 DEF Chain
  <2>4. CASE tx.call = "send"
    <3>1. Effect(ch, tx) = [ch EXCEPT !.sd = @ - 1]
      BY <2>4 DEF Effect
    <3> QED
      BY <2>1, <2>4, <3>1 DEF Chain
  <2> QED
    BY <1>2, <2>2, <2>3, <2>4
<1>3. CASE tx.call \notin {"deposit-sd", "withdraw-sd", "send"}
  <2>1. \/ Effect(ch, tx) = [ch EXCEPT !.approved = TRUE]
        \/ Effect(ch, tx) = [ch EXCEPT !.registered = TRUE, !.active = TRUE,
                                !.name = tx.name, !.reward = tx.reward,
                                !.opted = tx.opt]
        \/ Effect(ch, tx) = [ch EXCEPT !.elVault = FALSE, !.claimable = TRUE]
        \/ Effect(ch, tx) = [ch EXCEPT !.clVault = "empty", !.claimable = TRUE]
        \/ Effect(ch, tx) = [ch EXCEPT !.claimable = FALSE]
        \/ Effect(ch, tx) = [ch EXCEPT !.name = tx.name, !.reward = tx.reward]
        \/ Effect(ch, tx) = [ch EXCEPT !.opted = tx.opt, !.cooling = TRUE]
        \/ Effect(ch, tx) = ch
    BY <1>1, <1>3 DEF Effect, Calls, AllCommands
  <2>2. /\ [ch EXCEPT !.approved = TRUE] \in Chain
        /\ [ch EXCEPT !.registered = TRUE, !.active = TRUE, !.name = tx.name,
                      !.reward = tx.reward, !.opted = tx.opt] \in Chain
        /\ [ch EXCEPT !.elVault = FALSE, !.claimable = TRUE] \in Chain
        /\ [ch EXCEPT !.clVault = "empty", !.claimable = TRUE] \in Chain
        /\ [ch EXCEPT !.claimable = FALSE] \in Chain
        /\ [ch EXCEPT !.name = tx.name, !.reward = tx.reward] \in Chain
        /\ [ch EXCEPT !.opted = tx.opt, !.cooling = TRUE] \in Chain
    BY <1>1 DEF Chain
  <2> QED
    BY <2>1, <2>2
<1> QED
  BY <1>2, <1>3

\* The exit is what the operator agreed to, and costs nothing.
LEMMA ExitStep ==
    ASSUME IInv, NEW s \in Sessions, ExitNow(s)
    PROVE  IInv' /\ [Payment!Next]_deal
<1> DEFINE x == session[s]
           y == Outside("done", NoAsk, NoTx)
<1>0. /\ session' = [[r \in Sessions |-> Raise(session[r])] EXCEPT ![s] = y]
      /\ UNCHANGED <<owner, mined, changes>>
  BY RacedIs DEF ExitNow
<1>1. /\ x \in Session /\ RunInv(x, mined) /\ x.out = "running" /\ CallOf(x) = "exit"
  BY RunIs DEF ExitNow, Does, Running
<1>2. /\ NoAsk \in Ask /\ NoTx \in Tx /\ NoTx.status = "none" /\ NoAsk[3] = 0
      /\ NoAsk[2] = NoNonce /\ 0 \in Fees /\ "done" \in Outs
  BY NothingType DEF IInv, TypeOK, NoTx, NoAsk, Fees, Outs
<1>3. y \in Session
  BY <1>2, OutsideType DEF IInv, TypeOK
<1>4. y.out = "done" /\ y.asked = NoAsk /\ y.tx = NoTx
  BY DEF Outside
<1> HIDE DEF y
<1>5. RunInv(y, mined)
  BY <1>2, <1>4 DEF RunInv, ScriptInv, NonceInv
<1>6. /\ x.tx.status # "pending"
      /\ DealOf(x) = [stage |-> "agreed", fee |-> 0]
      /\ DealOf(y) = [stage |-> "done", fee |-> 0]
  BY <1>1, <1>4, DealCases DEF RunInv, ScriptInv, Waiting, Acting
<1>7. session'[s] = y
  BY <1>0
<1>8. \A r \in Sessions \ {s} :
        /\ session'[r] \in Session /\ RunInv(session'[r], mined)
        /\ DealOf(session'[r]) = DealOf(session[r])
        /\ session'[r].tx.status = session[r].tx.status
        /\ session'[r].tx.nonce = session[r].tx.nonce
        /\ session[r].tx.status = "pending" => session'[r].tx.raced
        /\ session[r].tx.status # "pending" => session'[r] = session[r]
  BY <1>0, RunIs, RaiseKeeps
<1> HIDE DEF x
<1>9. chain' \in Chain
  BY DEF ExitNow, Chain, IInv, TypeOK
<1>10. TypeOK'
  BY <1>0, <1>3, <1>7, <1>8, <1>9 DEF IInv, TypeOK
<1>11. RunsInv'
  BY <1>0, <1>5, <1>7, <1>8, RunsInvNext
<1>12. OwnerInv'
  BY <1>0, <1>6, <1>7, <1>8 DEF IInv, OwnerInv, x
<1>13. AcceptInv'
  BY <1>2, <1>4, <1>7, <1>8, AcceptInvNext DEF IInv, AcceptInv
<1>14. deal' = [deal EXCEPT ![s] = DealOf(y)] /\ deal[s] = DealOf(x)
  BY <1>7, <1>8, DealIs, DealNext DEF x
<1>15. [Payment!Next]_deal
  BY <1>6, <1>14, DealsIsStep DEF Deals
<1> QED
  BY <1>10, <1>11, <1>12, <1>13, <1>15 DEF IInv

\* What is mined was sent, and a run that waits sees it.
LEMMA MineStep ==
    ASSUME IInv, Mine
    PROVE  IInv' /\ [Payment!Next]_deal
<1> DEFINE s == owner[mined]
           x == session[s]
           ok == Accepts(chain, x.tx)
           status == IF ok THEN "ok" ELSE "reverted"
           y == [x EXCEPT !.tx.status = status]
<1>0. /\ mined \in Nonces /\ s \in Sessions
      /\ session \in [Sessions -> Session] /\ mined \in Nat
      /\ owner \in [Nonces -> Sessions \cup {NoSession}]
  BY DEF Mine, IInv, TypeOK
<1>1. /\ chain' = (IF ok THEN Effect(chain, x.tx) ELSE chain)
      /\ session' = [(IF ok THEN Raced ELSE session) EXCEPT ![s] = y]
      /\ mined' = mined + 1
      /\ owner' = [owner EXCEPT ![mined] = NoSession]
      /\ changes' = changes
  BY DEF Mine
<1>2. /\ x \in Session /\ RunInv(x, mined) /\ x.tx.status = "pending"
      /\ x.tx.nonce = mined /\ x.tx \in Tx
      /\ ~ok => x.tx.raced
  BY <1>0, RunIs DEF IInv, OwnerInv, AcceptInv, Session
<1>3. /\ mined + 1 \in Nat /\ mined <= mined + 1 /\ mined + 1 >= 1
      /\ status \in {"ok", "reverted"} /\ (status = "ok" <=> ok)
  BY <1>0
<1>4. chain' \in Chain
  BY <1>1, <1>2, EffectType DEF IInv, TypeOK
<1>5. /\ session'[s] = y
      /\ \A r \in Sessions \ {s} :
           session'[r] = IF ok THEN Raise(session[r]) ELSE session[r]
      /\ DOMAIN session' = Sessions
      /\ session' = [r \in Sessions |-> session'[r]]
  <2>1. CASE ok
    BY <1>0, <1>1, <2>1, RacedIs
  <2>2. CASE ~ok
    BY <1>0, <1>1, <2>2
  <2> QED
    BY <2>1, <2>2
<1> HIDE DEF status, ok
<1>6. /\ y \in Session /\ RunInv(y, mined + 1)
      /\ y.tx.status = status /\ y.tx.raced = x.tx.raced
      /\ IF x.out = "running"
         THEN /\ DealOf(x) = [stage |-> "sent", fee |-> x.tx.fee]
              /\ DealOf(y) = [stage |-> IF status = "ok" THEN "mined" ELSE "lost",
                              fee |-> x.tx.fee]
         ELSE DealOf(y) = DealOf(x)
  BY <1>0, <1>2, <1>3, StatusChange
<1> HIDE DEF y
<1>7. \A r \in Sessions \ {s} :
        /\ session'[r] \in Session /\ RunInv(session'[r], mined + 1)
        /\ DealOf(session'[r]) = DealOf(session[r])
        /\ session'[r].tx.status = session[r].tx.status
        /\ session'[r].tx.nonce = session[r].tx.nonce
        /\ ok /\ session[r].tx.status = "pending" => session'[r].tx.raced
        /\ ~ok \/ session[r].tx.status # "pending" => session'[r] = session[r]
  <2> SUFFICES ASSUME NEW r \in Sessions \ {s}
               PROVE  /\ session'[r] \in Session /\ RunInv(session'[r], mined + 1)
                      /\ DealOf(session'[r]) = DealOf(session[r])
                      /\ session'[r].tx.status = session[r].tx.status
                      /\ session'[r].tx.nonce = session[r].tx.nonce
                      /\ ok /\ session[r].tx.status = "pending"
                           => session'[r].tx.raced
                      /\ ~ok \/ session[r].tx.status # "pending"
                           => session'[r] = session[r]
    OBVIOUS
  <2>1. session[r] \in Session /\ RunInv(session[r], mined)
    BY RunIs
  <2>2. RunInv(session[r], mined + 1)
    BY <1>0, <2>1 DEF RunInv, NonceInv
  <2> QED
    BY <1>0, <1>3, <1>5, <2>1, <2>2, RaiseKeeps
<1> HIDE DEF x, s
<1>8. TypeOK'
  <2>1. session' \in [Sessions -> Session]
    BY <1>5, <1>6, <1>7
  <2>2. owner' \in [Nonces -> Sessions \cup {NoSession}]
    BY <1>0, <1>1
  <2> QED
    BY <1>1, <1>3, <1>4, <2>1, <2>2 DEF IInv, TypeOK
<1>9. RunsInv'
  BY <1>1, <1>5, <1>6, <1>7, RunsInvNext
<1>10. OwnerInv'
  <2> SUFFICES ASSUME NEW n \in Nonces, NEW r \in Sessions, owner'[n] = r
               PROVE  /\ session'[r].tx.status = "pending"
                      /\ session'[r].tx.nonce = n
    BY DEF OwnerInv
  <2>1. n # mined /\ owner[n] = r
    BY <1>0, <1>1, CommandAssumption
  <2>2. session[r].tx.status = "pending" /\ session[r].tx.nonce = n
    BY <2>1 DEF IInv, OwnerInv
  <2>3. r # s
    BY <1>2, <2>1, <2>2 DEF x
  <2> QED
    BY <1>7, <2>2, <2>3
<1>11. AcceptInv'
  <2> SUFFICES ASSUME NEW r \in Sessions
               PROVE  /\ session'[r].tx.status = "pending"
                         /\ ~session'[r].tx.raced =>
                           Accepts(chain', session'[r].tx)
                      /\ session'[r].tx.status = "reverted" => session'[r].tx.raced
    BY AcceptInvNext
  <2>1. CASE r = s
    BY <1>2, <1>3, <1>5, <1>6, <2>1
  <2>2. CASE r # s /\ ok
    BY <1>7, <2>2 DEF IInv, AcceptInv
  <2>3. CASE r # s /\ ~ok
    BY <1>1, <1>7, <2>3 DEF IInv, AcceptInv, x
  <2> QED
    BY <2>1, <2>2, <2>3
<1>12. deal' = [deal EXCEPT ![s] = DealOf(y)] /\ deal[s] = DealOf(x)
  BY <1>0, <1>5, <1>7, DealIs, DealNext DEF x
<1>13. Deals(DealOf(x), DealOf(y))
  <2>1. CASE x.out = "running"
    BY <1>6, <2>1 DEF Deals
  <2>2. CASE x.out # "running"
    BY <1>6, <2>2 DEF Deals
  <2> QED
    BY <2>1, <2>2
<1>14. [Payment!Next]_deal
  BY <1>0, <1>12, <1>13, DealsIsStep
<1> QED
  BY <1>8, <1>9, <1>10, <1>11, <1>14 DEF IInv

-----------------------------------------------------------------------------
(* The send: the one step that moves two deals *)

\* A run that sends, the transaction it sends and what becomes of the run.
Sends(s, call, tx, y) ==
    /\ \/ call = "approve" /\ Doing(s) = "approve"
       \/ call = Command(s) /\ Doing(s) = "send"
    /\ Running(s)
    /\ tx.nonce \in NonceOf(s) /\ tx.fee \in FeeOf(s)
    /\ tx = NewTx(s, call, tx.nonce, tx.fee)
    /\ y = [session[s] EXCEPT !.step = @ + 1, !.tx = tx,
                              !.fee = session[s].asked[3]]

\* What is sent has a type, the fee that was agreed to and the next custom nonce.
LEMMA SendsSound ==
    ASSUME IInv, NEW s \in Sessions, NEW call, NEW tx, NEW y, Sends(s, call, tx, y)
    PROVE  /\ tx \in Tx /\ tx.status = "pending" /\ ~tx.raced
           /\ y \in Session /\ RunInv(y, mined) /\ y.tx = tx
           /\ session[s].tx.status # "pending"
           /\ DealOf(session[s]) = [stage |-> "agreed", fee |-> tx.fee]
           /\ DealOf(y) = [stage |-> "sent", fee |-> tx.fee]
<1> DEFINE x == session[s]
<1>0. /\ x \in Session /\ RunInv(x, mined) /\ x.out = "running"
      /\ CallOf(x) \in {"send", "approve"} /\ x.asked \in Ask
      /\ x.asked[1] \in AllCommands /\ x.asked[3] \in Nat /\ x.asked[3] \in Fees
      /\ x.tx \in Tx /\ mined \in Nat
      /\ Command(s) = x.asked[1]
  BY RunIs DEF Sends, Running, Command, Session, RunInv, ScriptInv
<1>1. /\ x.fee # 0 /\ x.fee = x.agreed /\ x.tx.status # "pending"
      /\ x.step \in 1..Len(Script[x.asked[1]])
      /\ Follows(x.asked[1], x.step)
  BY <1>0, ScriptFollows DEF RunInv, ScriptInv, Waiting
<1>2. tx.fee = x.fee
  BY <1>1 DEF Sends, FeeOf
<1>3. /\ tx.status = "pending" /\ tx.raced = FALSE /\ tx.call = call
      /\ tx.rank = x.tx.rank + 1
      /\ tx.name = Details(s).name /\ tx.reward = Details(s).reward
      /\ tx.opt = x.opt
      /\ tx = [status |-> "pending", nonce |-> tx.nonce, fee |-> tx.fee,
               rank |-> x.tx.rank + 1, call |-> call, name |-> Details(s).name,
               reward |-> Details(s).reward, opt |-> x.opt, raced |-> FALSE]
  BY DEF Sends, NewTx
<1>4. call \in Calls /\ (call \in NoOverride <=> x.asked[1] \in NoOverride)
  <2>1. CASE call = "approve" /\ CallOf(x) = "approve"
    BY <1>1, <2>1 DEF Calls, NoOverride, Follows, CallOf
  <2>2. CASE call = x.asked[1]
    BY <1>0, <2>2 DEF Calls
  <2> QED
    BY <1>0, <2>1, <2>2, RunIs DEF Sends
<1>5. tx \in Tx
  <2>1. tx.nonce \in Nonces /\ tx.fee \in Nat /\ x.tx.rank + 1 \in Nat
    BY <1>0, <1>2 DEF Sends, NonceOf, Session, Tx
  <2>2. Details(s).name \in Values /\ Details(s).reward \in Values
    BY <1>0 DEF Details, IInv, TypeOK, Chain, Session
  <2>3. x.opt \in BOOLEAN
    BY <1>0 DEF Session
  <2> QED
    BY <1>3, <1>4, <2>1, <2>2, <2>3 DEF Tx, Calls
<1>6. x.asked[2] # NoNonce /\ call \notin NoOverride =>
        tx.nonce = x.nonce /\ x.nonce = x.asked[2] + x.tx.rank
  <2> SUFFICES ASSUME x.asked[2] # NoNonce, call \notin NoOverride
               PROVE  tx.nonce = x.nonce /\ x.nonce = x.asked[2] + x.tx.rank
    OBVIOUS
  <2>1. /\ x.nonce \in Nat
        /\ x.nonce = x.asked[2] + x.tx.rank \/ (x.nonce = 0 /\ mined >= 1)
    BY <1>0 DEF RunInv, NonceInv, Waiting
  <2>2. x.nonce # NoNonce
    BY <2>1, CommandAssumption
  <2>3. tx.nonce = x.nonce /\ mined <= tx.nonce
    BY <1>0, <1>4, <2>2 DEF Sends, NonceOf, CheckForNonceOverride
  <2> QED
    BY <1>0, <2>1, <2>3
<1>7. /\ y.step = x.step + 1 /\ y.tx = tx /\ y.fee = x.asked[3]
      /\ y.asked = x.asked /\ y.out = "running" /\ y.nonce = x.nonce
      /\ y \in Session
  <2>1. x.step + 1 \in Nat \ {0}
    BY <1>0 DEF Session
  <2>2. y = [x EXCEPT !.step = x.step + 1, !.tx = tx, !.fee = x.asked[3]]
    BY DEF Sends
  <2> HIDE DEF x
  <2>3. y \in Session
    BY <1>0, <1>5, <2>1, <2>2, SessionType
  <2> QED
    BY <1>0, <2>2, <2>3 DEF Session
<1> HIDE DEF x
<1>8. /\ CallOf(y) \in Waiting
      /\ CallOf(y) = "wait-approval" => x.asked[1] = "deposit-sd"
      /\ y.step \in 1..Len(Script[y.asked[1]])
  BY <1>0, <1>1, <1>7 DEF CallOf, Follows, Waiting
<1>9. ScriptInv(y)
  BY <1>0, <1>3, <1>7, <1>8 DEF ScriptInv, Waiting
<1>10. NonceInv(y, mined)
  <2>1. x.asked[2] # NoNonce => x.nonce \in Nat /\ x.asked[2] \in Nat
    BY <1>0 DEF RunInv, NonceInv, Ask
  <2>2. x.tx.rank \in Nat
    BY <1>0 DEF Tx
  <2>3. CallOf(y) = "wait-approval" => call \notin NoOverride
    BY <1>4, <1>8 DEF NoOverride
  <2> QED
    BY <1>3, <1>6, <1>7, <1>8, <2>1, <2>2, <2>3 DEF NonceInv
<1>11. /\ DealOf(x) = [stage |-> "agreed", fee |-> tx.fee]
       /\ DealOf(y) = [stage |-> "sent", fee |-> tx.fee]
  BY <1>0, <1>1, <1>2, <1>3, <1>7, <1>8, DealCases DEF Acting
<1> QED
  BY <1>1, <1>3, <1>5, <1>7, <1>9, <1>10, <1>11 DEF RunInv, x

\* A send moves the deal of its run, and that of the run whose transaction it
\* replaces.
LEMMA TransactStep ==
    ASSUME IInv, NEW s \in Sessions, NodeDepositSdApprove(s) \/ Send(s)
    PROVE  IInv' /\ [Payment!Next]_deal
<1>1. PICK call : /\ Transact(s, call) /\ Running(s)
                  /\ \/ call = "approve" /\ Doing(s) = "approve"
                     \/ call = Command(s) /\ Doing(s) = "send"
  BY DEF NodeDepositSdApprove, Send, Does
<1>2. PICK n \in NonceOf(s), fee \in FeeOf(s) :
         LET tx == NewTx(s, call, n, fee)
             old == owner[n]
         IN
         /\ Accepts(chain, tx)
         /\ owner' = [owner EXCEPT ![n] = s]
         /\ session' = [r \in Sessions |->
              IF r = s THEN [session[s] EXCEPT !.step = @ + 1, !.tx = tx,
                                               !.fee = session[s].asked[3]]
              ELSE IF r = old THEN [session[r] EXCEPT !.tx.status = "replaced"]
              ELSE session[r]]
         /\ UNCHANGED <<chain, mined, changes>>
  BY <1>1 DEF Transact
<1> DEFINE tx == NewTx(s, call, n, fee)
           old == owner[n]
           y == [session[s] EXCEPT !.step = @ + 1, !.tx = tx,
                                   !.fee = session[s].asked[3]]
           z == [session[old] EXCEPT !.tx.status = "replaced"]
<1>3. /\ Accepts(chain, tx)
      /\ owner' = [owner EXCEPT ![n] = s]
      /\ session' = [r \in Sessions |-> IF r = s THEN y
                                        ELSE IF r = old THEN z ELSE session[r]]
      /\ UNCHANGED <<chain, mined, changes>>
  BY <1>2
<1>4. tx.nonce = n /\ tx.fee = fee
  BY DEF NewTx
<1>5. Sends(s, call, tx, y)
  BY <1>1, <1>4 DEF Sends
<1>6. n \in Nonces
  BY DEF NonceOf
<1> HIDE DEF tx, y
<1>7. /\ tx.status = "pending" /\ ~tx.raced
      /\ y \in Session /\ RunInv(y, mined) /\ y.tx = tx
      /\ session[s].tx.status # "pending"
      /\ DealOf(session[s]) = [stage |-> "agreed", fee |-> tx.fee]
      /\ DealOf(y) = [stage |-> "sent", fee |-> tx.fee]
  BY <1>5, SendsSound
<1>8. /\ owner \in [Nonces -> Sessions \cup {NoSession}] /\ mined \in Nat
      /\ session \in [Sessions -> Session]
  BY DEF IInv, TypeOK
<1>9. old \in Sessions =>
        /\ session[old].tx.status = "pending" /\ session[old].tx.nonce = n
        /\ old # s
  BY <1>6, <1>7 DEF IInv, OwnerInv
<1>10. old \in Sessions =>
        /\ z \in Session /\ RunInv(z, mined) /\ z.tx.status = "replaced"
        /\ IF session[old].out = "running"
           THEN /\ DealOf(session[old]).stage = "sent"
                /\ DealOf(z) = [DealOf(session[old]) EXCEPT !.stage = "lost"]
           ELSE /\ DealOf(session[old]).stage \in {"done", "dropped"}
                /\ DealOf(z) = DealOf(session[old])
  <2> SUFFICES ASSUME old \in Sessions
               PROVE  /\ z \in Session /\ RunInv(z, mined)
                      /\ z.tx.status = "replaced"
                      /\ IF session[old].out = "running"
                         THEN /\ DealOf(session[old]).stage = "sent"
                              /\ DealOf(z) = [DealOf(session[old])
                                                EXCEPT !.stage = "lost"]
                         ELSE /\ DealOf(session[old]).stage \in {"done", "dropped"}
                              /\ DealOf(z) = DealOf(session[old])
    OBVIOUS
  <2>1. session[old] \in Session /\ RunInv(session[old], mined)
    BY RunIs
  <2>2. /\ z \in Session /\ RunInv(z, mined) /\ z.tx.status = "replaced"
        /\ IF session[old].out = "running"
           THEN /\ DealOf(session[old])
                     = [stage |-> "sent", fee |-> session[old].tx.fee]
                /\ DealOf(z) = [stage |-> "lost", fee |-> session[old].tx.fee]
           ELSE /\ DealOf(session[old]) = [stage |-> session[old].out, fee |-> 0]
                /\ DealOf(z) = DealOf(session[old])
                /\ session[old].out \in {"done", "dropped"}
    <3> DEFINE x == session[old]
    <3>1. /\ x \in Session /\ x.tx.status = "pending" /\ RunInv(x, mined)
          /\ z = [x EXCEPT !.tx.status = "replaced"]
      BY <1>9, <2>1
    <3> HIDE DEF x, z
    <3>2. mined \in Nat /\ mined <= mined
      BY <1>8
    <3>3. "replaced" \in {"ok", "reverted", "replaced"} /\ "replaced" # "ok"
      OBVIOUS
    <3>4. /\ z \in Session /\ RunInv(z, mined) /\ z.tx.status = "replaced"
          /\ IF x.out = "running"
             THEN /\ DealOf(x) = [stage |-> "sent", fee |-> x.tx.fee]
                  /\ DealOf(z) = [stage |-> "lost", fee |-> x.tx.fee]
             ELSE /\ DealOf(x) = [stage |-> x.out, fee |-> 0]
                  /\ DealOf(z) = DealOf(x)
                  /\ x.out \in {"done", "dropped"}
      BY <3>1, <3>2, <3>3, StatusChange
    <3> QED
      BY <3>4 DEF x
  <2> QED
    BY <2>2
<1> HIDE DEF z
<1>11. /\ session'[s] = y
       /\ old \in Sessions => session'[old] = z
       /\ \A r \in Sessions \ {s, old} : session'[r] = session[r]
  BY <1>3, <1>9
<1>12. TypeOK'
  <2>1. session' \in [Sessions -> Session]
    BY <1>3, <1>7, <1>8, <1>10
  <2>2. owner' \in [Nonces -> Sessions \cup {NoSession}]
    BY <1>3, <1>8
  <2> QED
    BY <1>3, <2>1, <2>2 DEF IInv, TypeOK
<1>13. RunsInv'
  <2> SUFFICES ASSUME NEW r \in Sessions PROVE RunInv(session'[r], mined')
    BY RunsInvNext
  <2> QED
    BY <1>3, <1>7, <1>10, <1>11, RunIs
<1>14. OwnerInv'
  <2> SUFFICES ASSUME NEW k \in Nonces, NEW r \in Sessions, owner'[k] = r
               PROVE  /\ session'[r].tx.status = "pending"
                      /\ session'[r].tx.nonce = k
    BY DEF OwnerInv
  <2>1. CASE k = n
    BY <1>3, <1>4, <1>6, <1>7, <1>8, <1>11, <2>1
  <2>2. CASE k # n
    <3>1. owner[k] = r
      BY <1>3, <1>8, <2>2
    <3>2. session[r].tx.status = "pending" /\ session[r].tx.nonce = k
      BY <3>1 DEF IInv, OwnerInv
    <3>3. r # s /\ r # old
      BY <1>7, <1>9, <2>2, <3>2
    <3> QED
      BY <1>11, <3>2, <3>3
  <2> QED
    BY <2>1, <2>2
<1>15. AcceptInv'
  <2> SUFFICES ASSUME NEW r \in Sessions
               PROVE  /\ session'[r].tx.status = "pending"
                         /\ ~session'[r].tx.raced =>
                           Accepts(chain', session'[r].tx)
                      /\ session'[r].tx.status = "reverted" => session'[r].tx.raced
    BY AcceptInvNext
  <2>1. CASE r = s
    BY <1>3, <1>7, <1>11, <2>1
  <2>2. CASE r # s /\ r = old
    BY <1>10, <1>11, <2>2
  <2>3. CASE r # s /\ r # old
    BY <1>3, <1>11, <2>3 DEF IInv, AcceptInv
  <2> QED
    BY <2>1, <2>2, <2>3
<1> DEFINE lost == {r \in Sessions : r = old /\ deal[r].stage = "sent"}
<1>16. /\ deal'[s].stage = "sent"
       /\ deal[s].stage = "agreed"
       /\ lost \in SUBSET {r \in Sessions \ {s} : deal[r].stage = "sent"}
       /\ deal' = [r \in Sessions |->
                     IF r = s THEN [deal[r] EXCEPT !.stage = "sent"]
                     ELSE IF r \in lost THEN [deal[r] EXCEPT !.stage = "lost"]
                     ELSE deal[r]]
  <2>1. /\ \A r \in Sessions : deal[r] = DealOf(session[r])
        /\ deal' = [r \in Sessions |-> DealOf(session'[r])]
    BY DealIs, DealNext
  <2>2. /\ DealOf(session'[s]) = [deal[s] EXCEPT !.stage = "sent"]
        /\ deal[s].stage = "agreed"
    BY <1>7, <1>11, <2>1
  <2>3. \A r \in Sessions \ {s} :
          DealOf(session'[r]) = IF r \in lost THEN [deal[r] EXCEPT !.stage = "lost"]
                                ELSE deal[r]
    <3> SUFFICES ASSUME NEW r \in Sessions \ {s}
                 PROVE  DealOf(session'[r])
                          = IF r \in lost THEN [deal[r] EXCEPT !.stage = "lost"]
                            ELSE deal[r]
      OBVIOUS
    <3>1. CASE r = old
      BY <1>10, <1>11, <2>1, <3>1
    <3>2. CASE r # old
      BY <1>11, <2>1, <3>2
    <3> QED
      BY <3>1, <3>2
  <2>4. lost \in SUBSET {r \in Sessions \ {s} : deal[r].stage = "sent"}
    BY <1>9
  <2>5. deal'[s].stage = "sent"
    BY <1>7, <1>11, <2>1
  <2> DEFINE moved(r) == IF r = s THEN [deal[r] EXCEPT !.stage = "sent"]
                         ELSE IF r \in lost THEN [deal[r] EXCEPT !.stage = "lost"]
                         ELSE deal[r]
  <2>6. \A r \in Sessions : DealOf(session'[r]) = moved(r)
    BY <2>2, <2>3
  <2> HIDE DEF moved
  <2>7. deal' = [r \in Sessions |-> moved(r)]
    BY <2>1, <2>6
  <2> QED
    BY <2>2, <2>4, <2>5, <2>7 DEF moved
<1>17. [Payment!Next]_deal
  <2> HIDE DEF lost
  <2>1. deal'[s] # deal[s]
    BY <1>16
  <2>2. Payment!Send(s)
    BY <1>16 DEF Payment!Send
  <2> QED
    BY <2>1, <2>2 DEF Payment!Next
<1> QED
  BY <1>12, <1>13, <1>14, <1>15, <1>17 DEF IInv

-----------------------------------------------------------------------------
(* Theorems *)

\* The invariant holds at first, when no run has begun and all deals are open.
LEMMA IInvStarts == Init => IInv /\ Payment!Init
<1> SUFFICES ASSUME Init PROVE IInv /\ Payment!Init
  OBVIOUS
<1>1. /\ chain \in Chain /\ NoAsk \in Ask /\ NoTx \in Tx
  BY CommandAssumption, NothingType DEF Init
<1>2. /\ NoTx.status = "none" /\ NoAsk[3] = 0 /\ NoAsk[2] = NoNonce /\ 0 \in Fees
      /\ "unborn" \in Outs
  BY DEF NoTx, NoAsk, Fees, Outs
<1> DEFINE y == Outside("unborn", NoAsk, NoTx)
<1>3. y \in Session
  BY <1>1, <1>2, OutsideType
<1>4. y.out = "unborn" /\ y.asked = NoAsk /\ y.tx = NoTx
  BY DEF Outside
<1>5. session = [s \in Sessions |-> y]
  BY DEF Init
<1> HIDE DEF y
<1>6. RunInv(y, 0)
  BY <1>2, <1>4 DEF RunInv, ScriptInv, NonceInv
<1>7. TypeOK
  BY <1>1, <1>3, <1>5 DEF Init, TypeOK
<1>8. RunsInv /\ OwnerInv /\ AcceptInv
  BY <1>2, <1>4, <1>5, <1>6, CommandAssumption
     DEF Init, RunsInv, OwnerInv, AcceptInv
<1>9. Payment!Init
  BY <1>4, <1>5, DealIs, DealCases DEF Payment!Init
<1> QED
  BY <1>7, <1>8, <1>9 DEF IInv

\* Every step keeps the invariant and is a step of AgreedPayment, or none of it.
LEMMA NextSound == IInv /\ [Next]_vars => IInv' /\ [Payment!Next]_deal
<1> SUFFICES ASSUME IInv, [Next]_vars PROVE IInv' /\ [Payment!Next]_deal
  OBVIOUS
<1>1. ASSUME NEW s \in Sessions, Step(s) PROVE IInv' /\ [Payment!Next]_deal
  BY <1>1, StartStep, FailStep, QuietStep, AssignStep, ConfirmStep, TransactStep,
     ExitStep, WaitForApprovalStep, WaitForTransactionStep DEF Step
<1>2. CASE UNCHANGED vars
  <2>1. UNCHANGED <<chain, owner, mined, session, changes>>
    BY <1>2 DEF vars
  <2>2. TypeOK' /\ OwnerInv'
    BY <2>1 DEF IInv, TypeOK, OwnerInv
  <2>3. RunsInv' /\ AcceptInv'
    BY <2>1, RunsInvNext, AcceptInvNext DEF IInv, RunsInv, AcceptInv
  <2>4. deal' = deal
    BY <2>1, DealIs, DealNext
  <2> QED
    BY <2>2, <2>3, <2>4 DEF IInv
<1> QED
  BY <1>1, <1>2, ChangeStep, MineStep DEF Next

\* Every state of NodeCommands has the declared types.
THEOREM TypeCorrect == Spec => []TypeOK
BY IInvStarts, NextSound, PTL DEF Spec, IInv

\* Every command implements AgreedPayment: it sends nothing but what its operator
\* agreed to, at the fee that was agreed to, once for each agreement, and reports
\* only what became of its own transaction.
THEOREM ImplementsAgreedPayment == Spec => PaysAsAgreed
<1>1. Spec => Payment!Init /\ [][Payment!Next]_deal
  BY IInvStarts, NextSound, PTL DEF Spec
<1> QED
  BY <1>1 DEF PaysAsAgreed, Payment!Spec

\* A transaction fails only after the contracts were changed since it was sent.
THEOREM FailureNeedsChange == Spec => []FailedOnlyIfRaced
<1>1. IInv => FailedOnlyIfRaced
  BY DEF IInv, AcceptInv, FailedOnlyIfRaced
<1> QED
  BY <1>1, IInvStarts, NextSound, PTL DEF Spec

\* A run with a nonce flag sends with that nonce, and after an approval with the
\* next one.
THEOREM NonceIsAsked == Spec => []NonceAsAsked
<1>1. IInv => NonceAsAsked
  BY DEF IInv, RunsInv, RunInv, NonceInv, NonceAsAsked, HasTx, FlaggedNonce
<1> QED
  BY <1>1, IInvStarts, NextSound, PTL DEF Spec

-----------------------------------------------------------------------------
(* The detail of the operator that an update does not change is what it was *)
(* in the contracts when the update was sent, and they are as they were     *)
(* then unless the transaction is raced.                                    *)

DetailKept(ch, tx) ==
    /\ tx.call = "update-operator-name" => tx.reward = ch.reward
    /\ tx.call = "update-operator-reward-address" => tx.name = ch.name

DetailInv ==
    \A s \in Sessions :
        session[s].tx.status = "pending" /\ ~session[s].tx.raced =>
            DetailKept(chain, session[s].tx)

\* What a step from the contracts ch to dh may do to the transaction of a run:
\* nothing, when they stay; end it without success; let it wait on, as raced;
\* send it; or mine it.
TxMoves(old, new, ch, dh) ==
    \/ new = old /\ dh = ch
    \/ new.status \notin {"pending", "ok"}
    \/ new.status = old.status /\ (new.status = "pending" => new.raced)
    \/ new.status = "pending" /\ dh = ch /\ DetailKept(ch, new)
    \/ /\ old.status = "pending" /\ new.status = "ok"
       /\ dh = Effect(ch, old)

\* The steps of a run by which no transaction is sent or mined.
LEMMA ScriptMoves ==
    ASSUME IInv, NEW s \in Sessions, NEW r \in Sessions,
           \/ Start(s) \/ Fail(s) \/ CheckClientStatus(s) \/ GetNodeDepositSdAllowance(s)
           \/ NodeDepositSdApprovalGas(s) \/ CanDo(s) \/ AssignMaxFeeAndLimit(s)
           \/ Confirm(s) \/ WaitForApproval(s) \/ WaitForTransaction(s)
    PROVE  TxMoves(session[r].tx, session'[r].tx, chain, chain')
<1>0. /\ session \in [Sessions -> Session] /\ session[s] \in Session
      /\ NoTx.status = "none"
  BY DEF IInv, TypeOK, NoTx
<1>1. chain' = chain
  BY DEF Start, Fail, CheckClientStatus, GetNodeDepositSdAllowance,
         NodeDepositSdApprovalGas, CanDo, AssignMaxFeeAndLimit, Confirm,
         WaitForApproval, WaitForTransaction
<1>2. ASSUME \/ session'[s].tx = session[s].tx
             \/ session'[s].tx = NoTx,
             r # s => session'[r] = session[r]
      PROVE  TxMoves(session[r].tx, session'[r].tx, chain, chain')
  BY <1>0, <1>1, <1>2 DEF TxMoves
<1>3. ASSUME NEW y, session' = [session EXCEPT ![s] = y],
             y.tx = session[s].tx \/ y.tx = NoTx
      PROVE  TxMoves(session[r].tx, session'[r].tx, chain, chain')
  <2>1. session'[s] = y /\ (r # s => session'[r] = session[r])
    BY <1>0, <1>3
  <2> QED
    BY <1>2, <1>3, <2>1
<1>4. ASSUME NEW step, NEW fee, NEW nonce, NEW agreed,
             session' = [session EXCEPT ![s] =
                 [session[s] EXCEPT !.step = step, !.fee = fee, !.nonce = nonce,
                                    !.agreed = agreed]]
      PROVE  TxMoves(session[r].tx, session'[r].tx, chain, chain')
  <2> DEFINE y == [session[s] EXCEPT !.step = step, !.fee = fee, !.nonce = nonce,
                                     !.agreed = agreed]
  <2>1. y.tx = session[s].tx /\ session' = [session EXCEPT ![s] = y]
    BY <1>0, <1>4 DEF Session
  <2> HIDE DEF y
  <2> QED
    BY <1>3, <2>1
<1>5. ASSUME NEW out, End(s, out)
      PROVE  TxMoves(session[r].tx, session'[r].tx, chain, chain')
  <2> DEFINE y == IF session[s].tx.status = "pending"
                  THEN Outside(out, session[s].asked, session[s].tx)
                  ELSE Outside(out, NoAsk, NoTx)
  <2>1. session' = [session EXCEPT ![s] = y] /\ (y.tx = session[s].tx \/ y.tx = NoTx)
    BY <1>5 DEF End, Outside
  <2> HIDE DEF y
  <2> QED
    BY <1>3, <2>1
<1>6. ASSUME NEW step, Return(s, step)
      PROVE  TxMoves(session[r].tx, session'[r].tx, chain, chain')
  <2> DEFINE fee == session[s].asked[3]
             nonce == session[s].nonce
             agreed == session[s].agreed
  <2>1. session' = [session EXCEPT ![s] =
            [session[s] EXCEPT !.step = step, !.fee = fee, !.nonce = nonce,
                               !.agreed = agreed]]
    BY <1>0, <1>6 DEF Return, Session
  <2> HIDE DEF fee, nonce, agreed
  <2> QED
    BY <1>4, <2>1
<1>7. CASE Start(s)
  <2>1. PICK asked, n, o, q : session' = [session EXCEPT ![s] = NewClient(asked, n, o, q)]
    BY <1>7 DEF Start
  <2>2. NewClient(asked, n, o, q).tx = NoTx
    BY DEF NewClient
  <2> QED
    BY <1>3, <2>1, <2>2
<1>8. CASE Fail(s) \/ WaitForTransaction(s)
  <2>1. \E out : End(s, out)
    BY <1>8 DEF Fail, WaitForTransaction
  <2> QED
    BY <1>5, <2>1
<1>9. CASE \/ CheckClientStatus(s) \/ GetNodeDepositSdAllowance(s)
           \/ NodeDepositSdApprovalGas(s) \/ CanDo(s)
  <2>1. \E step : Return(s, step)
    BY <1>9 DEF CheckClientStatus, GetNodeDepositSdAllowance, NodeDepositSdApprovalGas,
                CanDo, Answered
  <2> QED
    BY <1>6, <2>1
<1>10. CASE AssignMaxFeeAndLimit(s)
  <2>1. PICK fee : session' = [session EXCEPT ![s].fee = fee, ![s].step = @ + 1]
    BY <1>10 DEF AssignMaxFeeAndLimit
  <2> DEFINE step == session[s].step + 1
             nonce == session[s].nonce
             agreed == session[s].agreed
  <2>2. session' = [session EXCEPT ![s] =
            [session[s] EXCEPT !.step = step, !.fee = fee, !.nonce = nonce,
                               !.agreed = agreed]]
    BY <1>0, <2>1 DEF Session
  <2> HIDE DEF step, nonce, agreed
  <2> QED
    BY <1>4, <2>2
<1>11. CASE Confirm(s)
  <2> DEFINE step == session[s].step + 1
             nonce == session[s].nonce
             fee == session[s].fee
             agreed == IF Command(s) = "exit" THEN 0 ELSE session[s].fee
  <2>1. session' = [session EXCEPT ![s].agreed = agreed, ![s].step = @ + 1]
    BY <1>11 DEF Confirm
  <2> HIDE DEF agreed
  <2>2. session' = [session EXCEPT ![s] =
            [session[s] EXCEPT !.step = step, !.fee = fee, !.nonce = nonce,
                               !.agreed = agreed]]
    BY <1>0, <2>1 DEF Session
  <2> HIDE DEF step, nonce, fee
  <2> QED
    BY <1>4, <2>2
<1>12. CASE WaitForApproval(s)
  <2>1. CASE End(s, "dropped")
    BY <1>5, <2>1
  <2>2. CASE ~End(s, "dropped")
    <3> DEFINE step == session[s].step + 1
               fee == session[s].asked[3]
               nonce == IF session[s].nonce \in {NoNonce, 0} THEN session[s].nonce
                        ELSE session[s].nonce + 1
               agreed == session[s].agreed
    <3>1. session' = [session EXCEPT
                ![s].step = @ + 1, ![s].fee = session[s].asked[3],
                ![s].nonce = IF @ \in {NoNonce, 0} THEN @ ELSE @ + 1]
      BY <1>12, <2>2 DEF WaitForApproval
    <3>2. session' = [session EXCEPT ![s] =
              [session[s] EXCEPT !.step = step, !.fee = fee, !.nonce = nonce,
                                 !.agreed = agreed]]
      BY <1>0, <3>1 DEF Session
    <3> HIDE DEF step, fee, nonce, agreed
    <3> QED
      BY <1>4, <3>2
  <2> QED
    BY <2>1, <2>2
<1> QED
  BY <1>7, <1>8, <1>9, <1>10, <1>11, <1>12

\* What a change of the contracts leaves of a transaction.
LEMMA RaiseMoves ==
    ASSUME NEW x \in Session, NEW ch, NEW dh
    PROVE  TxMoves(x.tx, Raise(x).tx, ch, dh)
<1>1. CASE x.tx.status = "pending"
  <2>1. Raise(x).tx.status = "pending" /\ Raise(x).tx.raced
    BY <1>1 DEF Raise, Session, Tx
  <2> QED
    BY <1>1, <2>1 DEF TxMoves
<1>2. CASE x.tx.status # "pending"
  BY <1>2 DEF Raise, TxMoves
<1> QED
  BY <1>1, <1>2

\* The steps that change the contracts.
LEMMA ChainMoves ==
    ASSUME IInv, NEW r \in Sessions, Change \/ Mine \/ \E s \in Sessions : ExitNow(s)
    PROVE  TxMoves(session[r].tx, session'[r].tx, chain, chain')
<1>0. session \in [Sessions -> Session] /\ session[r] \in Session
  BY DEF IInv, TypeOK
<1>1. Raced[r] = Raise(session[r])
  BY RacedIs
<1>r. TxMoves(session[r].tx, Raise(session[r]).tx, chain, chain')
  BY <1>0, RaiseMoves
<1>2. CASE Change
  BY <1>1, <1>2, <1>r DEF Change
<1>3. ASSUME NEW s \in Sessions, ExitNow(s)
      PROVE  TxMoves(session[r].tx, session'[r].tx, chain, chain')
  <2>1. session' = [Raced EXCEPT ![s] = Outside("done", NoAsk, NoTx)]
    BY <1>3 DEF ExitNow
  <2>2. r # s => session'[r] = Raise(session[r])
    BY <1>1, <2>1 DEF Raced
  <2>3. r = s => session'[r].tx.status = "none"
    BY <2>1 DEF Raced, Outside, NoTx
  <2> QED
    BY <1>r, <2>2, <2>3 DEF TxMoves
<1>4. CASE Mine
  <2> DEFINE s == owner[mined]
             x == session[s]
             ok == Accepts(chain, x.tx)
             status == IF ok THEN "ok" ELSE "reverted"
             y == [x EXCEPT !.tx.status = status]
  <2>1. /\ s \in Sessions /\ x \in Session /\ x.tx.status = "pending"
    BY <1>0, <1>4 DEF Mine, IInv, OwnerInv, TypeOK
  <2>2. /\ chain' = (IF ok THEN Effect(chain, x.tx) ELSE chain)
        /\ session' = [(IF ok THEN Raced ELSE session) EXCEPT ![s] = y]
    BY <1>4 DEF Mine
  <2>3. y.tx.status = status /\ status \in {"ok", "reverted"} /\ (status = "ok" <=> ok)
    BY <2>1 DEF Session, Tx
  <2>4. /\ r # s => session'[r] = IF ok THEN Raise(session[r]) ELSE session[r]
        /\ r = s => session'[r] = y
    <3>1. CASE ok
      BY <1>1, <2>1, <2>2, <3>1 DEF Raced
    <3>2. CASE ~ok
      BY <1>0, <2>1, <2>2, <3>2
    <3> QED
      BY <3>1, <3>2
  <2> HIDE DEF s, x, ok, status, y
  <2>5. CASE r = s
    BY <2>1, <2>2, <2>3, <2>4, <2>5 DEF TxMoves, x
  <2>6. CASE r # s
    <3>1. CASE ok
      BY <1>r, <2>4, <2>6, <3>1
    <3>2. CASE ~ok
      BY <2>2, <2>4, <2>6, <3>2 DEF TxMoves
    <3> QED
      BY <3>1, <3>2
  <2> QED
    BY <2>5, <2>6
<1> QED
  BY <1>2, <1>3, <1>4

\* A send takes the detail that its command does not give from the contracts.
LEMMA SendMoves ==
    ASSUME IInv, NEW s \in Sessions, NEW r \in Sessions,
           NodeDepositSdApprove(s) \/ Send(s)
    PROVE  TxMoves(session[r].tx, session'[r].tx, chain, chain')
<1>0. session \in [Sessions -> Session] /\ session[s] \in Session /\ session[r] \in Session
  BY DEF IInv, TypeOK
<1>1. PICK call : Transact(s, call) /\ call \in {"approve", Command(s)}
  BY DEF NodeDepositSdApprove, Send
<1>2. PICK n \in NonceOf(s), fee \in FeeOf(s) :
         LET tx == NewTx(s, call, n, fee)
             old == owner[n]
         IN
         /\ session' = [q \in Sessions |->
              IF q = s THEN [session[s] EXCEPT !.step = @ + 1, !.tx = tx,
                                               !.fee = session[s].asked[3]]
              ELSE IF q = old THEN [session[q] EXCEPT !.tx.status = "replaced"]
              ELSE session[q]]
         /\ chain' = chain
  BY <1>1 DEF Transact
<1> DEFINE tx == NewTx(s, call, n, fee)
           old == owner[n]
           y == [session[s] EXCEPT !.step = @ + 1, !.tx = tx,
                                   !.fee = session[s].asked[3]]
           z == [session[r] EXCEPT !.tx.status = "replaced"]
<1>3. session'[r] = IF r = s THEN y ELSE IF r = old THEN z ELSE session[r]
  BY <1>2
<1>4. tx.status = "pending" /\ DetailKept(chain, tx)
  <2>1. /\ tx.status = "pending" /\ tx.call = call
        /\ tx.name = Details(s).name /\ tx.reward = Details(s).reward
    BY DEF NewTx
  <2>2. /\ Command(s) = "update-operator-name" => Details(s).reward = chain.reward
        /\ Command(s) = "update-operator-reward-address" => Details(s).name = chain.name
    BY DEF Details
  <2> QED
    BY <1>1, <2>1, <2>2 DEF DetailKept
<1> HIDE DEF tx
<1>5. y.tx = tx /\ z.tx.status = "replaced"
  BY <1>0 DEF Session, Tx
<1> HIDE DEF y, z, old
<1> QED
  BY <1>2, <1>3, <1>4, <1>5 DEF TxMoves

LEMMA NextMoves ==
    ASSUME IInv, [Next]_vars, NEW r \in Sessions
    PROVE  TxMoves(session[r].tx, session'[r].tx, chain, chain')
<1>1. CASE UNCHANGED vars
  BY <1>1 DEF vars, TxMoves
<1>2. CASE Next
  BY <1>2, ScriptMoves, ChainMoves, SendMoves DEF Next, Step
<1> QED
  BY <1>1, <1>2

LEMMA DetailNext == IInv /\ DetailInv /\ [Next]_vars => DetailInv'
<1> SUFFICES ASSUME IInv, DetailInv, [Next]_vars, NEW s \in Sessions,
                    session'[s].tx.status = "pending", ~session'[s].tx.raced
             PROVE  DetailKept(chain', session'[s].tx)
  BY DEF DetailInv, DetailKept
<1>1. TxMoves(session[s].tx, session'[s].tx, chain, chain')
  BY NextMoves
<1> QED
  BY <1>1 DEF TxMoves, DetailInv

\* An update of the operator's name leaves the reward address, and one of the
\* reward address the name, unless the contracts changed since it was sent.
THEOREM OtherDetailIsKept == Spec => OtherDetailKept
<1>1. IInv /\ DetailInv /\ [Next]_vars =>
        [\A s \in Sessions :
          Pending(s) /\ session'[s].tx.status = "ok" /\ ~session[s].tx.raced =>
              /\ session[s].tx.call = "update-operator-name" =>
                     chain'.reward = chain.reward
              /\ session[s].tx.call = "update-operator-reward-address" =>
                     chain'.name = chain.name]_vars
  <2> SUFFICES ASSUME IInv, DetailInv, [Next]_vars, NEW s \in Sessions,
                      Pending(s), session'[s].tx.status = "ok", ~session[s].tx.raced
               PROVE  /\ session[s].tx.call = "update-operator-name" =>
                             chain'.reward = chain.reward
                      /\ session[s].tx.call = "update-operator-reward-address" =>
                             chain'.name = chain.name
    OBVIOUS
  <2> DEFINE tx == session[s].tx
  <2>1. TxMoves(tx, session'[s].tx, chain, chain') /\ DetailKept(chain, tx)
    BY NextMoves DEF DetailInv, Pending
  <2>2. chain' = Effect(chain, tx)
    BY <2>1 DEF TxMoves, Pending
  <2>3. chain \in Chain
    BY DEF IInv, TypeOK
  <2> HIDE DEF tx
  <2>4. tx.call \in {"update-operator-name", "update-operator-reward-address"} =>
           chain'.name = tx.name /\ chain'.reward = tx.reward
    BY <2>2, <2>3 DEF Effect, Chain
  <2> QED
    BY <2>1, <2>4 DEF DetailKept, tx
<1>2. Init => IInv /\ DetailInv
  BY IInvStarts DEF Init, DetailInv, Outside, NoTx
<1>3. Spec => [](IInv /\ DetailInv)
  BY <1>2, NextSound, DetailNext, PTL DEF Spec
<1> QED
  BY <1>1, <1>3, PTL DEF Spec, OtherDetailKept

=============================================================================
