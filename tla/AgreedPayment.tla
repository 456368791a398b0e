--------------------------- MODULE AgreedPayment ---------------------------
(***************************************************************************)
(* What a command that sends a transaction promises to its operator: it    *)
(* sends nothing that was not agreed to, at no other fee than the one that *)
(* was agreed to, once for each agreement, and says that it succeeded only *)
(* after its own transaction was mined without an error.                   *)
(***************************************************************************)
EXTENDS Naturals

CONSTANTS
    Sessions,  \* runs of the CLI
    Fees       \* max fees, with 0 for an act that costs nothing

VARIABLE deal  \* [Sessions -> where the run is with its operator]

Deal == [
    stage : {"open", "agreed", "sent", "mined", "lost", "done", "dropped"},
    fee   : Fees]

Open == [stage |-> "open", fee |-> 0]

Init == deal = [s \in Sessions |-> Open]

Move(s, from, to) ==
    /\ deal[s].stage = from
    /\ deal' = [deal EXCEPT ![s].stage = to]

Close(s, stage) == deal' = [deal EXCEPT ![s] = [stage |-> stage, fee |-> 0]]

Agree(s) ==
    /\ deal[s].stage = "open"
    /\ \E fee \in Fees :
           deal' = [deal EXCEPT ![s] = [stage |-> "agreed", fee |-> fee]]

\* Another transaction with the same nonce and a higher fee takes the place of
\* a run's own, in the same step as it is sent.
Send(s) ==
    /\ deal[s].stage = "agreed"
    /\ \E lost \in SUBSET {r \in Sessions \ {s} : deal[r].stage = "sent"} :
           deal' = [r \in Sessions |->
                      IF r = s THEN [deal[r] EXCEPT !.stage = "sent"]
                      ELSE IF r \in lost THEN [deal[r] EXCEPT !.stage = "lost"]
                      ELSE deal[r]]

Mine(s) == Move(s, "sent", "mined") \/ Move(s, "sent", "lost")

\* The run tells of its success, or goes on to its next transaction.
Report(s) ==
    /\ deal[s].stage = "mined"
    /\ \E stage \in {"open", "done"} : Close(s, stage)

\* An act without a transaction.
Act(s) ==
    /\ deal[s] = [stage |-> "agreed", fee |-> 0]
    /\ Close(s, "done")

\* The run is refused, cancelled, fails or is killed.
Drop(s) ==
    /\ deal[s].stage \notin {"done", "dropped"}
    /\ Close(s, "dropped")

\* A step moves the run that it is of.
Next ==
    \E s \in Sessions :
        /\ deal'[s] # deal[s]
        /\ Agree(s) \/ Send(s) \/ Mine(s) \/ Report(s) \/ Act(s) \/ Drop(s)

Spec == Init /\ [][Next]_deal
=============================================================================
