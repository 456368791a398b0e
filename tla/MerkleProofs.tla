---------------------------- MODULE MerkleProofs ----------------------------
(***************************************************************************)
(* The Merkle proof files of the socializing pool's reward cycles, and the *)
(* claims that are made with them. The node daemon and the API processes   *)
(* of commands download the proofs that are not on disk yet, each with the *)
(* account of the wallet it has in memory; a file's name says its cycle,   *)
(* not its operator. Two steps make a file: it is created empty, then      *)
(* written. Sessions of the CLI claim the rewards of cycles, reading the   *)
(* files three times between their API processes.                          *)
(***************************************************************************)
EXTENDS Naturals, FiniteSets

CONSTANTS
    Daemon,      \* the node daemon, as a writer of files
    Sessions,    \* CLI sessions of the operator
    Accounts,    \* node accounts
    NoAccount,   \* the account of a wallet that is not there
    NoSession,   \* the claimant of what was not claimed
    Elsewhere,   \* a claimant that uses the same account on another host
    LastCycle,   \* bound: the last reward cycle
    Shares,      \* <<account, cycle>> of the operators with rewards in a cycle
    MaxFaults,   \* bound: kills, failed writes and failed restarts
    MaxWallets   \* bound: wallets that follow the first

Cycles == 1..LastCycle
Writers == Sessions \cup {Daemon}

ASSUME ProofAssumption ==
    /\ Daemon \notin Sessions
    /\ NoAccount \notin Accounts
    /\ NoSession \notin Sessions \cup {Elsewhere}
    /\ Elsewhere \notin Sessions
    /\ LastCycle \in Nat
    /\ Shares \subseteq Accounts \X Cycles
    /\ Accounts \cap {"missing", "empty", "spliced"} = {}

VARIABLES
    wallet,     \* the account of the wallet on disk
    ended,      \* reward cycles that have ended, by the contract
    file,       \* [Cycles -> what the cycle's file holds]
    writer,     \* [Writers -> state of the download]
    session,    \* [Sessions -> state of the CLI]
    payer,      \* [Accounts \X Cycles -> who claimed the rewards]
    cut,        \* history: cycles whose file was left unwritten
    faults,     \* kills, failed writes and failed restarts so far
    wallets     \* wallets so far

world == <<wallet, ended>>
bounds == <<faults, wallets>>
vars == <<world, file, writer, session, payer, cut, bounds>>

(* A file has the proof of some operator, or the end of one proof after
   another, when two operators' proofs were written to it at once. *)
Contents == Accounts \cup {"missing", "empty", "spliced"}

Writer == [
    pc      : {"off", "sleep", "fetch", "next", "create", "encode"},
    account : Accounts \cup {NoAccount},
    todo    : SUBSET Cycles,
    at      : Cycles \cup {0}]

Session == [
    pc      : {"idle", "download", "can", "details", "estimate", "claim",
               "pending", "mined"},
    claims  : BOOLEAN,        \* it is node claim-sp-rewards
    listed  : SUBSET Cycles,  \* cycles offered to the operator
    picked  : SUBSET Cycles,  \* cycles to claim
    account : Accounts \cup {NoAccount},  \* the sender of the transaction
    raced   : BOOLEAN,        \* history: another claim took one of its cycles
    out     : {"none", "uptodate", "claimed", "failed"}]

TypeOK ==
    /\ wallet \in Accounts \cup {NoAccount}
    /\ ended \in 0..LastCycle
    /\ file \in [Cycles -> Contents]
    /\ writer \in [Writers -> Writer]
    /\ session \in [Sessions -> Session]
    /\ payer \in [Accounts \X Cycles -> Sessions \cup {Elsewhere, NoSession}]
    /\ cut \subseteq Cycles
    /\ faults \in Nat
    /\ wallets \in Nat

NotWriting(pc, a) == [pc |-> pc, account |-> a, todo |-> {}, at |-> 0]

Ended(out) ==
    [pc |-> "idle", claims |-> FALSE, listed |-> {}, picked |-> {},
     account |-> NoAccount, raced |-> FALSE, out |-> out]

Init ==
    /\ wallet \in Accounts
    /\ ended = 0
    /\ file = [c \in Cycles |-> "missing"]
    /\ writer = [w \in Writers |-> NotWriting("off", NoAccount)]
    /\ session = [s \in Sessions |-> Ended("none")]
    /\ payer = [r \in Accounts \X Cycles |-> NoSession]
    /\ cut = {}
    /\ faults = 0
    /\ wallets = 0

-----------------------------------------------------------------------------
(* The download, of the daemon and of a command *)

At(w, pc) == writer[w].pc = pc

WriterStep(w, pc) ==
    /\ At(w, pc)
    /\ UNCHANGED <<world, payer, wallets>>

\* The daemon sleeps till its next pass; the API process of a session ends, and
\* the session goes on or gives up.
EndDownload(w, ok) ==
    /\ writer' = [writer EXCEPT ![w] =
                    IF w = Daemon THEN NotWriting("sleep", writer[w].account)
                                  ELSE NotWriting("off", NoAccount)]
    /\ session' = [s \in Sessions |->
                    IF s # w THEN session[s]
                    ELSE IF ok /\ session[s].claims
                         THEN [session[s] EXCEPT !.pc = "can"]
                         ELSE Ended("none")]

\* The account is the wallet's when the daemon started, whatever follows.
StartDaemon ==
    /\ WriterStep(Daemon, "off")
    /\ wallet \in Accounts
    /\ writer' = [writer EXCEPT ![Daemon] = NotWriting("sleep", wallet)]
    /\ UNCHANGED <<file, session, cut, faults>>

Wake ==
    /\ WriterStep(Daemon, "sleep")
    /\ writer' = [writer EXCEPT ![Daemon].pc = "fetch"]
    /\ UNCHANGED <<file, session, cut, faults>>

ProofsOf(a) == {c \in Cycles : c <= ended /\ <<a, c>> \in Shares}

GetAllMerkleProofsForOperator(w) ==
    /\ WriterStep(w, "fetch")
    /\ writer' = [writer EXCEPT ![w].pc = "next",
                                ![w].todo = ProofsOf(writer[w].account)]
    /\ UNCHANGED <<file, session, cut, faults>>

\* The backend cannot be reached, or does not have every proof yet.
BackendFails(w) ==
    /\ WriterStep(w, "fetch")
    /\ EndDownload(w, FALSE)
    /\ UNCHANGED <<file, cut, faults>>

\* Seeded fault: the download ends at the first file that exists.
NextProofStops(w) ==
    /\ WriterStep(w, "next")
    /\ \/ /\ \E c \in writer[w].todo : file[c] # "missing"
          /\ EndDownload(w, TRUE)
       \/ /\ writer[w].todo = {}
          /\ EndDownload(w, TRUE)
       \/ /\ \A c \in writer[w].todo : file[c] = "missing"
          /\ \E c \in writer[w].todo :
                writer' = [writer EXCEPT ![w].pc = "create", ![w].at = c,
                                         ![w].todo = @ \ {c}]
          /\ UNCHANGED session
    /\ UNCHANGED <<file, cut, faults>>

\* A file that exists is skipped, whatever it holds.
NextProof(w) ==
    /\ WriterStep(w, "next")
    /\ \/ /\ writer[w].todo = {}
          /\ EndDownload(w, TRUE)
       \/ \E c \in writer[w].todo :
            /\ writer' = [writer EXCEPT
                            ![w].pc = IF file[c] = "missing" THEN "create" ELSE @,
                            ![w].at = IF file[c] = "missing" THEN c ELSE @,
                            ![w].todo = @ \ {c}]
            /\ UNCHANGED session
    /\ UNCHANGED <<file, cut, faults>>

Fault == faults < MaxFaults /\ faults' = faults + 1

\* What another process has written in the meantime is truncated.
CreateFile(w) ==
    /\ WriterStep(w, "create")
    /\ \/ /\ file' = [file EXCEPT ![writer[w].at] = "empty"]
          /\ writer' = [writer EXCEPT ![w].pc = "encode"]
          /\ UNCHANGED <<session, faults>>
       \/ Fault /\ EndDownload(w, FALSE) /\ UNCHANGED file
    /\ UNCHANGED cut

\* Seeded fault: the proof is written to the file later, by the next pass.
EncodeLater(w) ==
    /\ WriterStep(w, "encode")
    /\ writer' = [writer EXCEPT ![w].pc = "next", ![w].at = 0]
    /\ UNCHANGED <<file, session, cut, faults>>

\* Both writers of a file that is created twice have it open from its start.
Encode(w) ==
    /\ WriterStep(w, "encode")
    /\ LET c == writer[w].at
           a == writer[w].account
       IN  \/ /\ \E x \in (IF file[c] \in {"empty", a} THEN {a} ELSE {a, "spliced"}) :
                    file' = [file EXCEPT ![c] = x]
              /\ writer' = [writer EXCEPT ![w].pc = "next", ![w].at = 0]
              /\ UNCHANGED <<session, cut, faults>>
           \/ /\ Fault
              /\ EndDownload(w, FALSE)
              /\ cut' = cut \cup {c}
              /\ UNCHANGED file

CutBy(w) == IF At(w, "encode") THEN cut \cup {writer[w].at} ELSE cut

KillWriter(w) ==
    /\ ~At(w, "off")
    /\ Fault
    /\ writer' = [writer EXCEPT ![w] = NotWriting("off", NoAccount)]
    /\ session' = [s \in Sessions |-> IF s = w THEN Ended("none") ELSE session[s]]
    /\ cut' = CutBy(w)
    /\ UNCHANGED <<world, file, payer, wallets>>

-----------------------------------------------------------------------------
(* node download-sp-merkle-proofs, node claim-sp-rewards *)

SessionStep(s, pc) ==
    /\ session[s].pc = pc
    /\ UNCHANGED <<world, file, cut, bounds>>

Reply(s, state) == session' = [session EXCEPT ![s] = state]

StartWriting(s, claims) ==
    /\ writer' = [writer EXCEPT ![s] = NotWriting("fetch", wallet)]
    /\ Reply(s, [Ended("none") EXCEPT !.pc = "download", !.claims = claims])

\* The operator's sessions begin and end at will.
CanDownloadSpMerkleProofs(s) ==
    /\ SessionStep(s, "idle")
    /\ wallet \in Accounts
    /\ IF \E c \in 1..ended : file[c] = "missing"
       THEN StartWriting(s, FALSE)
       ELSE Reply(s, Ended("uptodate")) /\ UNCHANGED writer
    /\ UNCHANGED payer

ClaimSpRewards(s) ==
    /\ SessionStep(s, "idle")
    /\ wallet \in Accounts
    /\ StartWriting(s, TRUE)
    /\ UNCHANGED payer

Claimed(a) == {c \in Cycles : payer[<<a, c>>] # NoSession}

Unclaimed(a) == (1..ended) \ Claimed(a)

\* A cycle without rewards counts as one that was not claimed.
CanClaimSpRewards(s) ==
    /\ SessionStep(s, "can")
    /\ Reply(s, IF wallet \in Accounts /\ Unclaimed(wallet) # {}
                THEN [session[s] EXCEPT !.pc = "details", !.listed = Unclaimed(wallet)]
                ELSE Ended("none"))
    /\ UNCHANGED <<writer, payer>>

\* The cycles that the operator enters, or all. (Those entered with one that is
\* refused stay selected when the operator has to enter cycles again.)
SelectCycles(offered) == SUBSET offered \ {{}}

\* One file that cannot be decoded fails the request. The beginning of a spliced
\* file can be.
GetCyclesDetailedInfo(s) ==
    /\ SessionStep(s, "details")
    /\ LET exist == {c \in session[s].listed : file[c] # "missing"} IN
        \/ /\ exist = {} \/ \E c \in exist : file[c] = "empty"
           /\ Reply(s, Ended("none"))
        \/ /\ \A c \in exist : file[c] # "empty"
           /\ \E picked \in SelectCycles(exist) :
                Reply(s, [session[s] EXCEPT !.pc = "estimate", !.picked = picked,
                                            !.listed = {}])
    /\ UNCHANGED <<writer, payer>>

\* The contract checks the proof, which is for the sender, and that the rewards
\* were not claimed.
Accepted(a, cycles) ==
    \A c \in cycles : file[c] = a /\ payer[<<a, c>>] = NoSession

\* GetClaimData reads the files, and the estimate simulates the claim.
Claimable(s) == wallet \in Accounts /\ Accepted(wallet, session[s].picked)

\* The operator confirms the claim or not.
EstimateSpRewardsGas(s) ==
    /\ SessionStep(s, "estimate")
    /\ \/ Claimable(s) /\ Reply(s, [session[s] EXCEPT !.pc = "claim"])
       \/ Reply(s, Ended("none"))
    /\ UNCHANGED <<writer, payer>>

\* Seeded fault: the transaction has a gas limit of its own, and is not simulated.
ClaimUnchecked(s) ==
    /\ SessionStep(s, "claim")
    /\ Reply(s, IF wallet \in Accounts
                THEN [session[s] EXCEPT !.pc = "pending", !.account = wallet]
                ELSE Ended("none"))
    /\ UNCHANGED <<writer, payer>>

\* Transact simulates the claim again, for the gas limit.
SendClaim(s) ==
    /\ SessionStep(s, "claim")
    /\ Reply(s, IF Claimable(s)
                THEN [session[s] EXCEPT !.pc = "pending", !.account = wallet]
                ELSE Ended("none"))
    /\ UNCHANGED <<writer, payer>>

Loses(s, a, cycles) ==
    /\ session[s].pc = "pending"
    /\ session[s].account = a
    /\ session[s].picked \cap cycles # {}

\* The socializing pool pays a claim of cycles that were not claimed; the proofs
\* were checked when the transaction was sent. Others that are pending have lost.
Pay(by, a, cycles) ==
    /\ payer' = [r \in DOMAIN payer |->
                    IF r[1] = a /\ r[2] \in cycles THEN by ELSE payer[r]]
    /\ session' = [s \in Sessions |->
            IF s = by
            THEN [session[s] EXCEPT !.pc = "mined", !.out = "claimed"]
            ELSE [session[s] EXCEPT !.raced = @ \/ Loses(s, a, cycles)]]

Unpaid(a, cycles) == \A c \in cycles : payer[<<a, c>>] = NoSession

MineClaim(s) ==
    /\ SessionStep(s, "pending")
    /\ LET a == session[s].account
           cycles == session[s].picked
       IN  \/ Unpaid(a, cycles) /\ Pay(s, a, cycles)
           \/ /\ ~Unpaid(a, cycles)
              /\ Reply(s, [session[s] EXCEPT !.pc = "mined", !.out = "failed"])
              /\ UNCHANGED payer
    /\ UNCHANGED writer

ClaimElsewhere ==
    /\ \E a \in Accounts, c \in 1..ended :
        /\ <<a, c>> \in Shares
        /\ Unpaid(a, {c})
        /\ Pay(Elsewhere, a, {c})
    /\ UNCHANGED <<world, file, writer, cut, bounds>>

\* Seeded fault: the status of the receipt is not looked at.
WaitMined(s) ==
    /\ SessionStep(s, "mined")
    /\ Reply(s, [session[s] EXCEPT !.pc = "idle", !.claims = FALSE,
                                   !.out = "claimed"])
    /\ UNCHANGED <<writer, payer>>

WaitForTransaction(s) ==
    /\ SessionStep(s, "mined")
    /\ Reply(s, [session[s] EXCEPT !.pc = "idle", !.claims = FALSE])
    /\ UNCHANGED <<writer, payer>>

-----------------------------------------------------------------------------
(* The world of the files *)

World == UNCHANGED <<file, session, payer>>

EndCycle ==
    /\ ended < LastCycle
    /\ ended' = ended + 1
    /\ UNCHANGED <<wallet, writer, bounds, cut>>
    /\ World

\* The proof files are not among what a purge deletes. The restart of the daemon
\* may fail.
Purge ==
    /\ wallet \in Accounts
    /\ wallets < MaxWallets
    /\ wallet' = NoAccount
    /\ \/ /\ writer' = [writer EXCEPT ![Daemon] = NotWriting("off", NoAccount)]
          /\ cut' = CutBy(Daemon)
          /\ UNCHANGED faults
       \/ Fault /\ UNCHANGED <<writer, cut>>
    /\ UNCHANGED <<ended, wallets>>
    /\ World

InitWallet ==
    /\ wallet = NoAccount
    /\ wallet' \in Accounts
    /\ wallets' = wallets + 1
    /\ UNCHANGED <<ended, writer, faults, cut>>
    /\ World

-----------------------------------------------------------------------------
(* Specification *)

Download(w) ==
    \/ GetAllMerkleProofsForOperator(w)
    \/ BackendFails(w)
    \/ NextProof(w)
    \/ CreateFile(w)
    \/ Encode(w)

DaemonStep == StartDaemon \/ Wake \/ Download(Daemon)

Start(s) == CanDownloadSpMerkleProofs(s) \/ ClaimSpRewards(s)

Claim(s) ==
    \/ CanClaimSpRewards(s)
    \/ GetCyclesDetailedInfo(s)
    \/ EstimateSpRewardsGas(s)
    \/ SendClaim(s)
    \/ MineClaim(s)
    \/ WaitForTransaction(s)

Next ==
    \/ DaemonStep
    \/ \E s \in Sessions : Download(s) \/ Start(s) \/ Claim(s)
    \/ \E w \in Writers : KillWriter(w)
    \/ ClaimElsewhere
    \/ EndCycle
    \/ Purge
    \/ InitWallet

(* Requests return, sleeps end and Docker starts the daemon again; the backend
   that is asked again and again answers at some time. An API process runs to
   its end, but nothing is assumed of the operator's sessions. *)
Fairness ==
    /\ WF_vars(DaemonStep)
    /\ SF_vars(GetAllMerkleProofsForOperator(Daemon))
    /\ \A s \in Sessions : WF_vars(Download(s))

Spec == Init /\ [][Next]_vars /\ Fairness

-----------------------------------------------------------------------------
(* Properties *)

\* A file is empty only while a download is about to write it, or because one was
\* cut short: two downloads that create the same file leave it whole, in
\* whichever order they create and write it.
EmptyIsWritten ==
    \A c \in Cycles :
        file[c] = "empty" =>
            \/ c \in cut
            \/ \E w \in Writers : At(w, "encode") /\ writer[w].at = c

\* "Rewards Claim successful for cycles": the session's own transaction has
\* claimed every cycle it names, however many sessions claim at once and
\* whatever is purged, downloaded or replaced meanwhile.
SuccessIsPaid ==
    \A s \in Sessions : session[s].out = "claimed" =>
        \A c \in session[s].picked : payer[<<session[s].account, c>>] = s

\* A claim transaction fails only if someone else claimed one of its cycles while
\* it was pending: no fee is lost to a torn file, to the proof of another
\* operator or to a cycle that was claimed before.
FailureIsRaced ==
    \A s \in Sessions : session[s].out = "failed" => session[s].raced

\* Once a cycle has ended, and wallet and daemon stay with an operator that has
\* rewards in it, the file of the cycle comes to hold a proof, unless a write
\* was cut short: an empty file is never written again.
ProofsArrive ==
    \A a \in Accounts, c \in Cycles :
        <>[](wallet = a /\ <<a, c>> \in Shares /\ c <= ended
             /\ (writer[Daemon].account \in {a, NoAccount}))
            => <>[](c \in cut \/ file[c] \in Accounts \cup {"spliced"})

=============================================================================
