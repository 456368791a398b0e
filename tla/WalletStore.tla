---------------------------- MODULE WalletStore -----------------------------
(***************************************************************************)
(* The wallet on disk (the password file, the wallet file, the keystores)  *)
(* and the processes that hold what they read from it in memory: the       *)
(* validator client, the node daemon and the guardian daemon.              *)
(*                                                                         *)
(* One operator session runs the commands that change the wallet; each is  *)
(* a chain of API processes, and a kill may end it after any step. The     *)
(* node runs in Docker. A wallet is its mnemonic; the keys of a mnemonic   *)
(* are one element of the keystores. ValidatorKeys counts the keys.        *)
(***************************************************************************)
EXTENDS Naturals, ValidatorContainer

CONSTANTS
    Mnemonics,   \* the mnemonics the operator has
    Passwords,   \* the passwords the operator chooses
    Faults,      \* what can go wrong: "kill", "docker"
    MaxCommands, \* bound: commands the operator runs
    MaxFailures  \* bound: kills of a command and outages of Docker

Nothing == "nothing"  \* no mnemonic, no password file
Empty == "empty"      \* a password file that was truncated and not written

ASSUME WalletAssumption ==
    /\ Nothing \notin Mnemonics
    /\ {Nothing, Empty} \cap Passwords = {}
    /\ Faults \subseteq {"kill", "docker"}
    /\ MaxCommands \in Nat
    /\ MaxFailures \in Nat

Daemons == {"node", "guardian"}

VARIABLES
    password,  \* the password file
    wallet,    \* the wallet file: [state, seed, pw]
    keystore,  \* the mnemonics whose keys the keystores hold
    vc,        \* the validator client's container
    loaded,    \* the mnemonics whose keys the validator client process has
    daemon,    \* [Daemons -> [up, seed, key]], the wallet in their memory
    docker,    \* the Docker daemon answers
    session,   \* the operator's command: [pc, seed, pw, last]
    commands,  \* how many commands were started
    failures   \* how many were killed, and how often Docker failed

files == <<password, wallet, keystore>>
client == <<vc, loaded>>
vars == <<files, client, daemon, docker, session, commands, failures>>

Seeds == Mnemonics \cup {Nothing}
PasswordStates == Passwords \cup {Nothing, Empty}

Pcs == {"idle", "password", "fill", "create", "recover", "open", "write",
        "keys", "reload", "send", "stop", "stores", "wallet", "passwd", "restart",
        "node", "guardian"}

WalletFile == [state : {"absent", "torn", "whole"}, seed : Seeds,
               pw : PasswordStates]

Daemon == [up : BOOLEAN, seed : Seeds, key : Seeds]

Session == [pc : Pcs, seed : Seeds, pw : PasswordStates,
            last : {"none", "purged"}]

TypeOK ==
    /\ password \in PasswordStates
    /\ wallet \in WalletFile
    /\ keystore \subseteq Seeds
    /\ vc \in ContainerStates
    /\ loaded \subseteq Seeds
    /\ daemon \in [Daemons -> Daemon]
    /\ docker \in BOOLEAN
    /\ session \in Session
    /\ commands \in Nat
    /\ failures \in Nat

NoWallet == [state |-> "absent", seed |-> Nothing, pw |-> Nothing]
TornWallet == [state |-> "torn", seed |-> Nothing, pw |-> Nothing]
Down == [up |-> FALSE, seed |-> Nothing, key |-> Nothing]
Idle == [pc |-> "idle", seed |-> Nothing, pw |-> Nothing, last |-> "none"]

Init ==
    /\ password = Nothing
    /\ wallet = NoWallet
    /\ keystore = {}
    /\ vc = "missing"
    /\ loaded = {}
    /\ daemon = [d \in Daemons |-> Down]
    /\ docker = TRUE
    /\ session = Idle
    /\ commands = 0
    /\ failures = 0

\* loadStore reads a wallet: the file is complete, and the password decrypts it.
Loads == wallet.state = "whole" /\ password = wallet.pw

\* loadStore fails, and with it NewWallet and every command: a file is there
\* that cannot be decoded or decrypted.
LoadFails == wallet.state # "absent" /\ ~Loads

At(pc) == session.pc = pc
Goto(pc) == session' = [session EXCEPT !.pc = pc]
Fail == session' = Idle

Begin(s) ==
    /\ At("idle")
    /\ commands < MaxCommands
    /\ commands' = commands + 1
    /\ session' = s
    /\ UNCHANGED <<files, client, daemon, docker, failures>>

SessionStep(pc) == At(pc) /\ UNCHANGED <<docker, commands, failures>>

\* The validator client is started anew and reads the keystores.
StartClient == vc' = "running" /\ loaded' = keystore

RestartClient(next) ==
    IF docker /\ Reachable(TRUE, vc)
    THEN StartClient /\ Goto(next)
    ELSE Fail /\ UNCHANGED client

-----------------------------------------------------------------------------
(* wallet init and wallet recover *)

\* wallet status comes first: the wallet must not be there, and a password that
\* is set stays. wallet init makes a new mnemonic, but saves the wallet by a
\* recovery from it.
StartRecovery ==
    /\ wallet.state = "absent"
    /\ \E m \in Mnemonics :
        Begin([Idle EXCEPT !.pc = IF password = Nothing THEN "password" ELSE "create",
                           !.seed = m])

\* SetPassword writes the file in place.
SetPassword ==
    /\ SessionStep("password")
    /\ password' = Empty
    /\ Goto("fill")
    /\ UNCHANGED <<wallet, keystore, client, daemon>>

FillPassword ==
    /\ SessionStep("fill")
    /\ password' \in Passwords
    /\ Goto("create")
    /\ UNCHANGED <<wallet, keystore, client, daemon>>

\* A new process: it wants a password and no wallet, as the status did, and
\* initializeStore encrypts the seed with the password on disk.
RecoverWallet ==
    /\ SessionStep("create")
    /\ password # Nothing
    /\ wallet.state = "absent"
    /\ \E pc \in {"recover", "open"} :
        session' = [session EXCEPT !.pc = pc, !.pw = password]
    /\ UNCHANGED <<files, client, daemon>>

\* The keys that are found go to the keystores at once; the recovery can fail
\* after that.
RecoverStaderKeys ==
    /\ SessionStep("recover")
    /\ keystore' \in {keystore, keystore \cup {session.seed}}
    /\ Goto("open") \/ Fail
    /\ UNCHANGED <<password, wallet, client, daemon>>

\* Save writes the file in place.
OpenWallet ==
    /\ SessionStep("open")
    /\ wallet' = TornWallet
    /\ Goto("write")
    /\ UNCHANGED <<password, keystore, client, daemon>>

WriteWallet ==
    /\ SessionStep("write")
    /\ wallet' = [state |-> "whole", seed |-> session.seed, pw |-> session.pw]
    /\ session' = Idle
    /\ UNCHANGED <<password, keystore, client, daemon>>

-----------------------------------------------------------------------------
(* validator deposit, as far as it touches the files *)

StartDeposit ==
    /\ Loads
    /\ Begin([Idle EXCEPT !.pc = "keys", !.seed = wallet.seed, !.pw = wallet.pw])

StoreValidatorKeys ==
    /\ SessionStep("keys")
    /\ keystore' = keystore \cup {session.seed}
    /\ Goto("reload")
    /\ UNCHANGED <<password, wallet, client, daemon>>

\* With --reload-keys the client is restarted, and the deposit is abandoned if
\* it cannot be.
ReloadKeys ==
    /\ SessionStep("reload")
    /\ RestartClient("send") \/ (Goto("send") /\ UNCHANGED client)
    /\ UNCHANGED <<files, daemon>>

\* The wallet is saved once the transaction is sent.
AddValidatorKeys ==
    /\ SessionStep("send")
    /\ Goto("open") \/ Fail
    /\ UNCHANGED <<files, client, daemon>>

-----------------------------------------------------------------------------
(* wallet purge *)

StartPurge ==
    /\ ~LoadFails
    /\ Begin([Idle EXCEPT !.pc = "stop"])

StopValidator ==
    /\ SessionStep("stop")
    /\ IF ~docker \/ StopFails(TRUE, vc)
       THEN Fail /\ UNCHANGED vc
       ELSE vc' = AfterStop(vc) /\ Goto("stores")
    /\ UNCHANGED <<files, loaded, daemon>>

DeleteValidatorStores ==
    /\ SessionStep("stores")
    /\ keystore' = {}
    /\ Goto("wallet")
    /\ UNCHANGED <<password, wallet, client, daemon>>

\* Seeded fault: the password is deleted first.
DeletePasswordFirst ==
    /\ SessionStep("wallet")
    /\ password' = Nothing
    /\ Goto("passwd")
    /\ UNCHANGED <<wallet, keystore, client, daemon>>

DeleteWallet ==
    /\ SessionStep("wallet")
    /\ wallet' = NoWallet
    /\ Goto("passwd")
    /\ UNCHANGED <<password, keystore, client, daemon>>

DeletePassword ==
    /\ SessionStep("passwd")
    /\ password' = Nothing
    /\ Goto("restart")
    /\ UNCHANGED <<wallet, keystore, client, daemon>>

\* Seeded fault: the validator client is resumed, not restarted.
ResumeValidator ==
    /\ SessionStep("restart")
    /\ vc' = IF vc = "paused" THEN "running" ELSE vc
    /\ Goto("node")
    /\ UNCHANGED <<files, loaded, daemon>>

RestartValidator ==
    /\ SessionStep("restart")
    /\ RestartClient("node")
    /\ UNCHANGED <<files, daemon>>

\* Seeded fault: the node daemon goes on running.
KeepNode ==
    /\ SessionStep("node")
    /\ Goto("guardian")
    /\ UNCHANGED <<files, client, daemon>>

\* The API process is done; the CLI restarts the two daemons.
RestartNode ==
    /\ SessionStep("node")
    /\ IF docker
       THEN daemon' = [daemon EXCEPT !["node"] = Down] /\ Goto("guardian")
       ELSE Fail /\ UNCHANGED daemon
    /\ UNCHANGED <<files, client>>

RestartGuardian ==
    /\ SessionStep("guardian")
    /\ IF docker
       THEN /\ daemon' = [daemon EXCEPT !["guardian"] = Down]
            /\ session' = [Idle EXCEPT !.last = "purged"]
       ELSE Fail /\ UNCHANGED daemon
    /\ UNCHANGED <<files, client>>

\* Ctrl-C, a crash of the machine, the end of the terminal session.
KillCommand ==
    /\ "kill" \in Faults
    /\ failures < MaxFailures
    /\ ~At("idle")
    /\ session' = Idle
    /\ failures' = failures + 1
    /\ UNCHANGED <<files, client, daemon, docker, commands>>

-----------------------------------------------------------------------------
(* The daemons *)

ProcessStep == UNCHANGED <<files, docker, session, commands, failures>>

\* A daemon exits at once unless it finds a wallet, and caches the node key.
StartDaemon(d) ==
    /\ ~daemon[d].up
    /\ Loads
    /\ daemon' = [daemon EXCEPT ![d] = [up |-> TRUE, seed |-> wallet.seed,
                                         key |-> wallet.seed]]
    /\ UNCHANGED client
    /\ ProcessStep

DaemonExits(d) ==
    /\ daemon[d].up
    /\ daemon' = [daemon EXCEPT ![d] = Down]
    /\ UNCHANGED client
    /\ ProcessStep

\* The presign loop reloads the wallet. A file that is gone leaves the memory
\* as it was, a failed decryption clears the seed; the cached key stays.
Reload ==
    /\ daemon["node"].up
    /\ wallet.state = "whole"
    /\ password # Nothing
    /\ daemon' = [daemon EXCEPT !["node"].seed =
                    IF Loads THEN wallet.seed ELSE Nothing]
    /\ UNCHANGED client
    /\ ProcessStep

\* The fee recipient task restarts the validator client, or stops it.
RestartByDaemon ==
    /\ daemon["node"].up
    /\ docker
    /\ Reachable(TRUE, vc)
    /\ StartClient
    /\ UNCHANGED daemon
    /\ ProcessStep

StopByDaemon ==
    /\ daemon["node"].up
    /\ docker
    /\ ~StopFails(TRUE, vc)
    /\ vc' = AfterStop(vc)
    /\ UNCHANGED <<loaded, daemon>>
    /\ ProcessStep

-----------------------------------------------------------------------------
(* The containers *)

StartContainer ==
    /\ vc \in {"missing", "exited"}
    /\ StartClient
    /\ UNCHANGED daemon
    /\ ProcessStep

ClientExits ==
    /\ vc = "running"
    /\ vc' = "exited"
    /\ loaded' = {}
    /\ UNCHANGED daemon
    /\ ProcessStep

FaultOrRepair ==
    /\ "docker" \in Faults
    /\ \/ docker /\ failures < MaxFailures /\ failures' = failures + 1
       \/ ~docker /\ UNCHANGED failures
    /\ docker' = ~docker
    /\ UNCHANGED <<files, client, daemon, session, commands>>

-----------------------------------------------------------------------------
(* Specification *)

RecoveryStep ==
    \/ StartRecovery
    \/ SetPassword
    \/ FillPassword
    \/ RecoverWallet
    \/ RecoverStaderKeys
    \/ OpenWallet
    \/ WriteWallet

DepositStep ==
    \/ StartDeposit
    \/ StoreValidatorKeys
    \/ ReloadKeys
    \/ AddValidatorKeys

PurgeStep ==
    \/ StartPurge
    \/ StopValidator
    \/ DeleteValidatorStores
    \/ DeleteWallet
    \/ DeletePassword
    \/ RestartValidator
    \/ RestartNode
    \/ RestartGuardian

DaemonStep ==
    \/ \E d \in Daemons : StartDaemon(d) \/ DaemonExits(d)
    \/ Reload
    \/ RestartByDaemon
    \/ StopByDaemon

Next ==
    \/ RecoveryStep
    \/ DepositStep
    \/ PurgeStep
    \/ KillCommand
    \/ DaemonStep
    \/ StartContainer
    \/ ClientExits
    \/ FaultOrRepair

Spec == Init /\ [][Next]_vars

-----------------------------------------------------------------------------
(* Properties *)

\* A complete wallet file always loads: whichever command was killed, and in
\* whatever order wallets and passwords were made and deleted since, the
\* password file is the one the wallet was encrypted with.
WalletLoads == wallet.state = "whole" => password = wallet.pw

\* When wallet purge has reported success, and until the next command, no
\* process has a key of the purged wallet: not the validator client, whoever
\* restarted it while the files were deleted, and neither daemon.
PurgeForgets ==
    session.last = "purged" =>
        loaded = {} /\ \A d \in Daemons : daemon[d].key = Nothing

\* A daemon does not mix the cached node key of one mnemonic with the seed of
\* another: as long as no command is killed and Docker does not fail, Reload
\* never meets a new wallet. (It does after a purge that was cut short before
\* it restarted the daemons.)
OneMnemonic ==
    failures = 0 => \A d \in Daemons : daemon[d].seed \in {Nothing, daemon[d].key}

=============================================================================
