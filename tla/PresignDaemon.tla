--------------------------- MODULE PresignDaemon ---------------------------
(***************************************************************************)
(* The presign loop of the node daemon: a pass lists the operator's        *)
(* validators, asks the backend which of them have an exit message, signs  *)
(* one for each of the others that is on the Beacon chain, and sends them  *)
(* page by page. Contracts, clock, chain head, wallet file and backend go  *)
(* on changing between any two requests of a pass.                         *)
(***************************************************************************)
EXTENDS Naturals, FiniteSetsExt

CONSTANTS
    MaxKeys,   \* bound: validators of the operator
    PageSize,  \* validators to a message to the backend
    ForkEpoch, \* the epoch of the next fork
    MaxEpoch,  \* bound: the last epoch
    MaxKills   \* bound: times the daemon is killed

ASSUME PresignAssumption ==
    /\ MaxKeys \in Nat
    /\ PageSize \in Nat \ {0}
    /\ ForkEpoch \in Nat
    /\ MaxEpoch \in Nat
    /\ MaxKills \in Nat

(* Validators are numbered in the order of the registry, which is also that of
   the wallet's accounts. *)
Keys == 1..MaxKeys
Epochs == 0..MaxEpoch
Versions == {"old", "new"}

(* A validator is registered, gets on the Beacon chain, and may be refused by
   the contracts (front run, invalid signature) or leave. *)
Stages == {"absent", "registered", "active", "terminal", "exiting"}

VARIABLES
    stage,    \* [Keys -> Stages]
    wallet,   \* the wallet file: its number of keys
    writing,  \* a command is writing it, or was killed at it: no wallet to read
    clock,    \* the epoch by the clock
    head,     \* the epoch of the Beacon client's head
    clients,  \* the Beacon and Execution clients answer
    backend,  \* "up", "flaky" (some of what is sent is refused) or "down"
    stored,   \* the keys whose exit message the backend has
    daemon,   \* the loop
    kills     \* how often the daemon was killed

chain == <<stage, wallet, writing, clock, head>>
services == <<clients, backend>>
vars == <<chain, services, stored, daemon, kills>>

Pcs == {"off", "begin", "head", "reload", "check", "page", "key", "sign",
        "send", "sleep"}

Daemon == [
    pc       : Pcs,
    memory   : 0..MaxKeys,       \* keys of the wallet in memory
    listed   : 0..MaxKeys,       \* validators listed by this pass,
    terminal : SUBSET Keys,      \* those that the contracts have refused,
    have     : SUBSET Keys,      \* those whose message the backend has
    epoch    : Epochs,           \* the epoch the messages are signed for
    fresh    : BOOLEAN,          \* history: the head was in that epoch
    page     : Nat,
    todo     : SUBSET Keys,      \* validators of the page still to check
    batch    : SUBSET [key : Keys, version : Versions]]

TypeOK ==
    /\ stage \in [Keys -> Stages]
    /\ wallet \in 0..MaxKeys
    /\ writing \in BOOLEAN
    /\ clock \in Epochs
    /\ head \in 0..clock
    /\ clients \in BOOLEAN
    /\ backend \in {"up", "flaky", "down"}
    /\ stored \subseteq Keys
    /\ daemon \in Daemon
    /\ kills \in Nat

Resting(pc, memory) ==
    [pc |-> pc, memory |-> memory, listed |-> 0, terminal |-> {}, have |-> {},
     epoch |-> 0, fresh |-> FALSE, page |-> 0, todo |-> {}, batch |-> {}]

Init ==
    /\ stage = [k \in Keys |-> "absent"]
    /\ wallet = 0
    /\ writing = FALSE
    /\ clock = 0
    /\ head = 0
    /\ clients = TRUE
    /\ backend = "up"
    /\ stored = {}
    /\ daemon = Resting("off", 0)
    /\ kills = 0

At(pc) == daemon.pc = pc
Goto(pc) == daemon' = [daemon EXCEPT !.pc = pc]
Retry == daemon' = Resting("begin", daemon.memory)

PassStep(pc) == At(pc) /\ UNCHANGED <<chain, services, kills>>

Registered == {k \in Keys : stage[k] # "absent"}

-----------------------------------------------------------------------------
(* The start of a pass *)

StartDaemon ==
    /\ At("off")
    /\ clients
    /\ ~writing
    /\ daemon' = Resting("begin", wallet)
    /\ UNCHANGED <<chain, services, stored, kills>>

\* The clients are in sync, and the registry answers.
ListValidators ==
    /\ PassStep("begin")
    /\ clients
    /\ daemon' = [daemon EXCEPT
                    !.pc = "head",
                    !.listed = Cardinality(Registered),
                    !.terminal = {k \in Keys : stage[k] = "terminal"}]
    /\ UNCHANGED stored

\* The epoch of the head is the clock's.
GetBeaconHead ==
    /\ PassStep("head")
    /\ IF clients
       THEN daemon' = [daemon EXCEPT !.pc = "reload", !.epoch = clock,
                                     !.fresh = head = clock]
       ELSE Retry
    /\ UNCHANGED stored

\* Seeded fault: the wallet in memory is the one the daemon started with.
KeepWallet ==
    /\ PassStep("reload")
    /\ Goto("check")
    /\ UNCHANGED stored

\* A wallet file that is being written cannot be decoded: the pass starts over,
\* with no wallet in memory.
Reload ==
    /\ PassStep("reload")
    /\ IF writing
       THEN daemon' = Resting("begin", 0)
       ELSE daemon' = [daemon EXCEPT !.pc = "check", !.memory = wallet]
    /\ UNCHANGED stored

\* BulkIsPresignedKeyRegistered closes the body of a response before it looks at
\* the error: when the backend cannot be reached the process panics. An answer
\* that cannot be decoded is an error, and the pass starts over.
BulkIsPresignedKeyRegistered ==
    /\ PassStep("check")
    /\ \/ backend = "down" /\ daemon' = Resting("off", 0)
       \/ backend = "flaky" /\ Retry
       \/ /\ backend # "down"
          /\ daemon' = [daemon EXCEPT !.pc = "page",
                                      !.have = stored \cap 1..daemon.listed]
    /\ UNCHANGED stored

-----------------------------------------------------------------------------
(* The pages *)

\* Seeded fault: the last page is not cut off at the last validator.
NextPageUncut ==
    /\ PassStep("page")
    /\ LET start == daemon.page * PageSize IN
        IF start > daemon.listed
        THEN daemon' = Resting("sleep", daemon.memory)
        ELSE daemon' = [daemon EXCEPT !.pc = "key",
                            !.todo = (start + 1)..(start + PageSize)]
    /\ UNCHANGED stored

NextPage ==
    /\ PassStep("page")
    /\ LET start == daemon.page * PageSize IN
        IF start > daemon.listed
        THEN daemon' = Resting("sleep", daemon.memory)
        ELSE daemon' = [daemon EXCEPT !.pc = "key",
                            !.todo = {k \in 1..daemon.listed :
                                        k \in (start + 1)..(start + PageSize)}]
    /\ UNCHANGED stored

Key == Min(daemon.todo)

\* The wallet has the key, neither contracts nor backend rule it out, and the
\* Beacon chain has the validator and says that it does not leave.
MessageWanted ==
    /\ Key <= daemon.memory
    /\ Key \notin daemon.terminal \cup daemon.have
    /\ clients
    /\ stage[Key] \in {"active", "terminal"}

\* An error of any request skips the validator, not the pass.
CheckKey ==
    /\ PassStep("key")
    /\ IF daemon.todo = {} THEN Goto("send")
       ELSE IF MessageWanted THEN Goto("sign")
       ELSE daemon' = [daemon EXCEPT !.todo = @ \ {Key}]
    /\ UNCHANGED stored

\* The fork schedule as the state of the client's head has it.
Fork == IF head >= ForkEpoch
        THEN [epoch |-> ForkEpoch, previous |-> "old", current |-> "new"]
        ELSE [epoch |-> 0, previous |-> "old", current |-> "old"]

\* Seeded fault: the version is always the current one.
CurrentVersion(epoch) == Fork.current

GetDomainData(epoch) ==
    IF epoch < Fork.epoch THEN Fork.previous ELSE Fork.current

SignExitMessage ==
    /\ PassStep("sign")
    /\ daemon' = [daemon EXCEPT
                    !.pc = "key",
                    !.todo = @ \ {Key},
                    !.batch = IF clients
                        THEN @ \cup {[key |-> Key,
                                      version |-> GetDomainData(daemon.epoch)]}
                        ELSE @]
    /\ UNCHANGED stored

\* The answer is only logged: what was refused or lost is sent by a later pass.
SendBatch ==
    /\ PassStep("send")
    /\ daemon' = [daemon EXCEPT !.pc = "page", !.page = @ + 1, !.batch = {}]
    /\ LET sent == {m.key : m \in daemon.batch} IN
        \/ backend = "up" /\ stored' = stored \cup sent
        \/ backend = "flaky" /\ \E s \in SUBSET sent : stored' = stored \cup s
        \/ backend = "down" /\ UNCHANGED stored

Wake ==
    /\ PassStep("sleep")
    /\ Goto("begin")
    /\ UNCHANGED stored

KillDaemon ==
    /\ kills < MaxKills
    /\ ~At("off")
    /\ kills' = kills + 1
    /\ daemon' = Resting("off", 0)
    /\ UNCHANGED <<chain, services, stored>>

-----------------------------------------------------------------------------
(* The world of the daemon *)

World == UNCHANGED <<services, stored, daemon, kills>>

\* The registry appends.
Register ==
    /\ \E k \in Keys :
        /\ Registered = 1..(k - 1)
        /\ stage' = [stage EXCEPT ![k] = "registered"]
    /\ UNCHANGED <<wallet, writing, clock, head>>
    /\ World

\* validator deposit saves the wallet around that time, before or after: it
\* empties the file and writes it, and may be killed in between.
SaveWallet ==
    /\ wallet < MaxKeys
    /\ \/ ~writing /\ writing' = TRUE /\ UNCHANGED wallet
       \/ writing /\ writing' = FALSE /\ wallet' = wallet + 1
    /\ UNCHANGED <<stage, clock, head>>
    /\ World

Progress ==
    /\ \E k \in Keys :
        \/ stage[k] = "registered" /\ stage' = [stage EXCEPT ![k] = "active"]
        \/ /\ stage[k] = "active"
           /\ \E s \in {"terminal", "exiting"} : stage' = [stage EXCEPT ![k] = s]
    /\ UNCHANGED <<wallet, writing, clock, head>>
    /\ World

\* The head follows the clock, some slots behind.
Time ==
    /\ \/ clock < MaxEpoch /\ clock' = clock + 1 /\ UNCHANGED head
       \/ head < clock /\ head' = head + 1 /\ UNCHANGED clock
    /\ UNCHANGED <<stage, wallet, writing>>
    /\ World

FaultOrRepair ==
    /\ \/ clients' = ~clients /\ UNCHANGED backend
       \/ backend' \in {"up", "flaky", "down"} \ {backend} /\ UNCHANGED clients
    /\ UNCHANGED <<chain, stored, daemon, kills>>

-----------------------------------------------------------------------------
(* Specification *)

DaemonStep ==
    \/ StartDaemon
    \/ ListValidators
    \/ GetBeaconHead
    \/ Reload
    \/ BulkIsPresignedKeyRegistered
    \/ NextPage
    \/ CheckKey
    \/ SignExitMessage
    \/ SendBatch
    \/ Wake

Next ==
    \/ DaemonStep
    \/ KillDaemon
    \/ Register
    \/ SaveWallet
    \/ Progress
    \/ Time
    \/ FaultOrRepair

(* Requests return, sleeps end, and Docker starts the daemon again. *)
Fairness == WF_vars(DaemonStep)

Spec == Init /\ [][Next]_vars /\ Fairness

-----------------------------------------------------------------------------
(* Properties *)

\* A message carries the fork version of the epoch it is for, although the
\* epoch is read at the start of the pass and the fork later, validator by
\* validator, when the fork may have come. (It need not when the clock, but not
\* the head, was past the fork at the start of the pass.)
SignedForItsEpoch ==
    daemon.fresh =>
        \A m \in daemon.batch :
            m.version = IF daemon.epoch < ForkEpoch THEN "old" ELSE "new"

\* A validator that stays on the Beacon chain, and whose key stays in a wallet
\* file that can be read, gets an exit message once clients and backend answer:
\* whatever was skipped, refused or lost before, and however often the daemon
\* died or met a half-written wallet.
EventuallyPresigned ==
    \A k \in Keys :
        <>[](/\ stage[k] = "active"
             /\ wallet >= k /\ ~writing
             /\ clients /\ backend = "up") => <>(k \in stored)

=============================================================================
