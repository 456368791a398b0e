# A TLA+ verification of stader-node

`stader-node` is the software of a Stader node operator: a CLI, a set of API
processes that the CLI runs inside a container, two daemons, and the Execution,
Beacon and validator clients they drive. This directory models its core logic
in TLA+, checks the models with TLC, and proves some of their properties with
TLAPS. Paths below are relative to the repository.

```
tlasany ValidatorKeys.tla                                    parse
tlc -workers 2 -config ValidatorKeys.cfg MCValidatorKeys.tla check
tlapm ValidatorKeysProofs.tla                                prove
```

## 1. Inventory

### Processes

| process | code | life |
|---|---|---|
| CLI | `stader-cli/*`, `shared/services/stader/*` | one command of the operator |
| API process | `stader/api/*` | one call of the CLI (`docker exec`), a fresh process each time |
| node daemon | `stader/node/node.go` | three endless loops: presign, fee recipient, Merkle proofs |
| guardian daemon | `stader/guardian/*`, `shared/services/state/*` | metrics |
| validator client | `install/scripts/start-vc.sh` | container, restarted by Docker, the daemon and commands |

They share no memory. What they share is the disk (wallet, password, keystores,
fee recipient file, proof files), the node account's nonce, the validator
client's container, and the chains.

### Components

| component | state | operations | what is hard | what makes it correct |
|---|---|---|---|---|
| Validator keys: `shared/services/wallet/validator.go`, `stader/api/validator/deposit.go`, `stader/api/wallet/recover.go`, `shared/utils/wallet/recover-keys.go`, `shared/utils/eth1/eth1.go` | `next_account` in the wallet file, keystores, pending transactions, the registry's keys | deposit, recover (three ways), purge, nonce override | kills between transaction and save, two terminals, replaced transactions, stale key count | every paid-for key is findable, and in the keystores unless a purge, a kill or an overlap of commands took it; no key in use is sent; deposit data fit the vault |
| Client managers: `shared/services/ec-manager.go`, `bc-manager.go`, `requirements.go` | two readiness flags, the sync mutex | `CheckStatus`, `runFunction`, `Wait*Synced` | flags without a lock, a check in flight while a client changes, failover and return | answers from the right chain only, no call misses a usable client, the flags settle |
| Fee recipient: `stader/node/manage-fee-recipient.go`, `shared/services/stader/fee-recipient.go`, `shared/utils/validator/fee-recipient.go` | the file, the recipient the client process started with, the container | pass of the task, default file, restart, pause | file and process are two copies; every step may fail; others restart the client | "validating safely" is true; file and client settle on the operator's choice |
| Wallet and password files: `shared/services/wallet/wallet.go`, `shared/services/passwords/manager.go`, `stader/api/wallet/*`, `stader-cli/wallet/*` | the files, the copies in daemons and validator client | init, recover, set password, deposit's save, purge, reload | files written in place, kills, caches that survive a reload | a complete wallet loads; after a purge nobody has the keys |
| Pre-signed exits: `stader/node/node.go:139-321`, `shared/utils/stader/pre-signed-flows.go` | messages the backend has; lists and maps of one pass | pass by pages, sign, send | everything changes under a pass of many requests; a fork; refused and lost messages; kills | messages are valid for their epoch; every validator gets one |
| Merkle proofs: `stader/node/merkle-proofs-download.go`, `stader/api/node/download-sp-merkle-proofs.go`, `claim-sp-rewards.go`, `stader-cli/node/claim-sp-rewards.go` | proof files by cycle, the session of a claim, the contract's record of claims | download (daemon and command), claim in four API processes | created but not completed files, two writers, files of another operator, claims elsewhere | a cycle's file comes to be readable; a claim pays what it names and fails only in a race |
| Commands of the node account: `stader-cli/node/*`, `stader/api/node/*`, the exits, `shared/services/gas`, `shared/services/stader/client.go`, `stader-lib/stader/contract.go` | the account's nonces, fee and nonce flags of a client, the contracts' state | check, agree, transact, wait; eleven commands | what was checked is stale; the client forgets its fee; replaced and stuck transactions | nothing is sent that was not agreed to, at the agreed fee; a transaction reverts only in a race |
| Service commands: `stader-cli/service/service.go`, `config.go`, `commands.go` | containers, their volumes, settings file, upgrade flag | start with the change of the validator client, config, pause (alias stop), terminate, resync, prune, export, import | docker's finish times, others who restart and pause, a worker that outlives its command | the delay between two validator clients is kept, an upgrade is not lost, a stopped client comes back |
| Keystores: `shared/services/wallet/keystore/*` | two files per key (Lighthouse, Nimbus, Teku); password, account store and configuration (Prysm) | store, delete | files written one after the other and in place; a copy read once by each process | a stored key stays readable; a command is not refused for ever |
| Client status of commands: `shared/utils/cli/check_client_status.go`, `shared/services/services.go:498-532` | flags passed to every API process | decide for fallbacks, ignore sync | the decision is made in one process and used in another | no command uses a client that is on another network |
| Configuration: `shared/services/config/*`, `shared/utils/stdr/config.go`, `stader-cli/service/config.go` | parameters, the settings file, the upgrade flag, the forms of the terminal interface | load, upgrade, change the network, edit, flags, save, start | forms hold copies of parameters; the file is written in place, by several terminals; defaults follow version and network | what was set is loaded until it is set again; tags are those of version and network; services start with what was shown, but for fields that are shown and not used |
| Guardian, metrics, compose and shell commands, generated bindings | read-only copies, external programs | | little state | |

### Interactions

* The deposit stores keys, restarts the validator client (`--reload-keys`),
  sends a transaction and then saves the wallet; the purge pauses the validator
  client, deletes stores, wallet and password and restarts everybody.
* The fee recipient task restarts and pauses the same validator client.
* The node daemon's three loops share the two managers; a call of one loop can
  lower the flag that another loop has just raised.
* The presign loop reloads the wallet the commands write, and finds a key only
  below the `next_account` that deposit and recovery have saved.
* The daemon and a command write the same proof files, and a claim reads them.
* The service commands recreate, stop and start the container that the fee
  recipient task restarts and pauses.
* Every command of the node account takes the account's next nonce.
* A panic in one loop ends all three: what `PresignDaemon` calls a crash is the
  `KillTask` of `FeeRecipient` and the `DaemonExits` of `WalletStore`.

## 2. Plan

Done, in this order: the part that handles money first.

1. `ValidatorKeys` and `ValidatorKeysProofs`
2. `ClientManager`
3. `FeeRecipient`, on `ValidatorContainer`
4. `WalletStore` and `WalletStoreProofs`, on `ValidatorContainer`
5. `PresignDaemon`, and `DaemonProofs` about it and `FeeRecipient`
6. `MerkleProofs` and `MerkleProofsProofs`
7. `AgreedPayment`, what a command promises to its operator, and `NodeCommands`,
   which implements it, with `NodeCommandsProofs`
8. `Service` and `ServiceProofs`
9. `Keystores` and `KeystoresProofs`
10. `Configuration`, and `ClientsAndSettingsProofs` about it and `ClientManager`

Every safety property that a run checks is proved. Next:

11. `ClientCommand`: check process, flags for the fallbacks, API process, over
    `ClientManager`.
12. A second operator session in `WalletStore` (two recoveries of different
    mnemonics), and the three loops of the daemon over one `ClientManager`.
13. What an installed upgrade means to the containers: `Service` over the
    parameters of `Configuration`.

`FeeRecipient` and `Configuration` name their specifications `FeeSpec` and
`SettingsSpec`, as each shares a module of proofs with another component.

## 3. Modules

Every module is written as state, one action per step of the code that another
process could come between, and `Next`. A request and the use of its answer are
two actions. `Seeded fault` operators stand beside the definition they are a
wrong version of; nothing in the specifications uses them. They are there to
show that the properties notice such a mistake.

### ValidatorKeys

A key is its derivation index. `wallet.next` is `next_account` on disk;
`api[p].next` is the copy of a process. `api[p].pc` walks through `nodeDeposit`
(`load`, `count`, `create`/`check` per key, `reload`, `send`, `save`, and
`wait`, which is the CLI) or through a recovery (`scan`, `store`, `done`).
`Interrupt` ends a process at any step.

`keystore` has what decides whether a key is lost: `pairs`, the keys whose two
files fit together (Lighthouse, Nimbus and Teku alike), and `prysm`, the one file
with all of Prysm's keys, which may be torn. Storing a key takes two steps,
`StoreBegins` and `StoreEnds`, between which other processes act and
`InterruptStore` may cut it off: the pair of the key is written over, with a new
password, and Prysm's file is written from the copy (`copy`, the `ks.as` of
`prysm/keystore.go`) that the process read at its first key, so that the later
of two commands drops the keys of the other. `damaged` is history: the keys that
could be read and no longer can, or were being stored and cannot, because of a
kill in the middle or of commands that stored keys at once (`shared`). They
leave it when a later command makes them good. Prysm's password and
configuration, and the files one by one, are the matter of `Keystores`.

The mempool has one transaction per
nonce; a nonce given by the operator replaces one (`NonceAllowed`). `MineTx`
takes all keys of a transaction or none, since the registry may revert.
`ActivateElsewhere` is another installation of the same mnemonic. `unsaved`,
`restored`, `forgotten`, `purged`, `damaged`, `shared`, `behind` and `seen` are
history.

### ClientManager

`kind` chooses between the Execution and the Beacon manager, which differ in
when the flags are set, in the network check and in how a wait polls. `ready` is
`primaryReady` and `fallbackReady`; `lock` is the mutex of
`waitEthClientSynced`/`waitBeaconClientSynced`. A thread is a loop of the daemon:
`lock`, the steps of `CheckStatus` (`probe`, `flag`, `probe2`, `flag2`), the
decision, the poll, and then any number of calls (`runFunction`), each of which
reads the flag, asks, and lowers the flag in separate steps. `usable` is
history: the clients that were in sync with their flag up since the call began.

### ValidatorContainer, FeeRecipient

`ValidatorContainer` is what `RestartValidator` and `StopValidator` do to a
container: stopping pauses, a paused container cannot be paused again.
`FeeRecipient` has the task's pass (`check`, `open`, `write`, `restart`, `stop`),
the daemon's start, the file (which a write truncates first), and `using`, the
recipient that the client's process was started with. Disk, Docker and Beacon
manager may fail and recover at any time.

### WalletStore

One operator session runs commands; `session.pc` is the next step of the current
one. The wallet file is absent, torn or whole, and whole means encrypted with
one password; the password file may be empty. `loaded` is what the validator
client read at its start, `daemon[d]` what a daemon has: the seed that `Reload`
replaces and the key that it does not. `KillCommand` ends a command anywhere.

### PresignDaemon

`daemon` has the pass: what it listed, which of it is refused by the contracts
or known to the backend, the epoch, the page, the keys left to check, the
messages. Registry, wallet, chain, clock, head, fork, clients and backend move
between any two requests. The epoch is the clock's (`GetBeaconHead` uses
`time.Now`), the fork is that of the client's head: the model has both. A wallet
file that is being written (`writing`) cannot be decoded: the pass starts over.
A request that a kill cuts off has been processed or never will be.

### MerkleProofs

`file[c]` is the file of cycle `c`: missing, empty (created), the proof of an
operator, or two proofs spliced. `writer[w]` is a download of the daemon or of a
command; creating and writing are two steps, and the name of a file does not
say whose proof it has. `session[s]` is a run of `claim-sp-rewards`, which picks
cycles, estimates, sends and waits in four API processes, each of which reads
wallet and files anew. `payer` is the contract's record. `ClaimElsewhere` is
another host with the same account. `cut`, `raced` are history.

### AgreedPayment, NodeCommands

`AgreedPayment` is the promise: per run, a deal is open, agreed to at a fee,
sent, mined or lost, and done or dropped. `NodeCommands` has the eleven commands
as scripts (`Script`, one operator per command) of the same few steps: the check
of client status, a `can-` process, the agreement, the transaction, the wait.
`CanDo` and `Accepts` are the checks of each command in the API process and in
the contract, `Effect` what its transaction does. `NonceOf` and `FeeOf` follow
flags through `Client.runApiCall`, which forgets the fees after each call.
The refinement mapping `deal` reads the stage off the step and the status of the
run's transaction, and the fee off the history variable `agreed` before the send
and off the transaction itself after it; `PaysAsAgreed` is
`Payment!Spec`, where `Payment` is the instance of `AgreedPayment` under this
mapping.

### Service

A run is of one of the commands in `AllKinds`; `stop` is an alias of `pause`
(`commands.go:260`), and `terminate` is `compose down -v` (`StopService`).
`vc` is the validator container with docker's state and finish time, `box` the
containers of the two other clients with their volumes, `worker` a run's
container that prunes, exports or imports. `session[s].pc` walks through a
command; what it read is in the session, and `crossed`, `paused`, `forced` and
`unsaved` are history. `silence` counts the ticks since the validator container
last ran. Tick, crash, docker's restart, the node's task and an installation
happen between any two steps.

### Keystores

`secret` and `keyfile` are the two files of a key, by the command that made the
password; `prysm` has the password, the account store and the configuration,
each of which may be torn. `command[p]` stores keys one by one in the keystores
in any order (Go's map), or deletes; `cache` is `ks.as`, the copy of the account
store that a process reads at its first key. Begin takes the keys from
`next_account`, so two deposits that overlap make the same first key, as in
`ValidatorKeys`, which has the same in-place writes in coarser steps, together
with the registry that the keys are sent to. That stored keys stay readable is
what `StoredStaysReadable` shows of Lighthouse, Nimbus and Teku until a pair is
cut, and of Prysm as long as commands do not overlap. A purge is alone, as its
operator was told to stop everything. Which of two files of a pair is torn is not told apart: the
key cannot be read either way.

### Configuration

A parameter of the model stands for all that the code treats alike: those that
are overwritten on an upgrade (`tag`, and `vcTag`, which no form shows), those a
form shows only when something is turned on (`port`, the URLs of the fallback
clients), those for which the forms have one field for two (`ecMode` and
`ccMode`, the doppelganger settings). The consensus client is one of the four,
local or external, Nimbus by default; external Prysm and Lighthouse share a
doppelganger parameter, the external Nimbus has one that no form writes, and the
graffiti is the common one, that of the external Lighthouse and Prysm, or that
of the external Teku. `GetDefault` gives the defaults of a
version for a network, `ChangeNetwork` moves what is at its default,
`Deserialize` fills in what is missing. `run[s]` is a run of the CLI: the
settings in memory, the form, and what the operator did. `LeaveWizard` and
`LeaveConfiguration` are the two ways back from a form to the settings, either
of which may open the other form, save or drop. `Open` and `Write` are the two
steps of `WriteFile`; `WriteFails` leaves what a full disk takes.
`GenerateEnvironmentVariables` is what the containers get, of what the forms
show: network, both modes, the client, doppelganger protection, graffiti,
fallback clients, metrics and a port of theirs. `Shown` is the same as the
operator sees it, without the fields of `Unheeded`, which are shown and not used
(section 7). Left out of both are parameters that are passed on one to one: the
URLs, ports, peers and flags of single clients, and the section of MEV-Boost.
`chosen` is what
the operator has set, with the value; `past.excused` and `past.loose` are the
parameters that the properties except, each for a reason that section 7 lists.
The upgrade flag is removed here as in `Service`, which has the containers and
not the parameters.

## 4. Runs

Distinct states are given in brackets.

| run | shows | bounds |
|---|---|---|
| `keys` (2.4M) | `KeysAccounted`: whatever is killed, mined, reverted or replaced, the wallet finds every key that was sent, save the three exceptions the property names. `VaultMatches`: deposit data fit the vault unless something was pending when the count was read | 1 process, 3 keys, batches of 2, 2 transactions, all commands, one key activated elsewhere |
| `keys_two` (1.6M) | `SubmittedKeysStored`, `AlertHonoured`, `RecoveryComplete` with two concurrent processes: a key that was sent, or found by a recovery, can be loaded by every client unless it was purged, is being stored again or is `damaged` | 2 keys, batches of 2, 1 transaction; no recovery by address. Processes are alike (`SYMMETRY`), and the history of `KeysAccounted` and `VaultMatches`, on which no step depends, is left out of the state (`VIEW`) |
| `clients` (226k) | `AnsweredByRightChain`, `WaitSawSynced`, `ServedIfReady` for both managers; `RecoversPrimary`, `FailsOver` under fairness | 2 loops; every condition of a client but `stale`, which differs from `syncing` in the words of an error only |
| `fee_all` (47k) | `RestartedIsSafe`, `FileSettles`, `ClientSettlesUncut` | 3 changes of choice, 2 kills, every fault |
| `store_faults` (94k) | `WalletLoads`, `PurgeForgets`, `OneMnemonic` | 2 mnemonics, 2 passwords, 4 commands, 2 kills or outages |
| `presign` (820k) | `SignedForItsEpoch`, `EventuallyPresigned` | 2 validators, pages of 1, one fork, 1 kill, a wallet file written in two steps |
| `proofs` (475k) | `EmptyIsWritten`, `SuccessIsPaid`, `FailureIsRaced`, `ProofsArrive` | 2 operators, 2 cycles, the daemon and one session, 1 fault, 1 further wallet |
| `commands` (332k) | `NonceAsAsked`, `FailedOnlyIfRaced`, `OtherDetailKept`, `WaitIsAnswered`; `PaysAsAgreed`: each command implements `AgreedPayment` | 2 runs, the second with or without a fee or nonce flag; 4 nonces, 1 change by others |
| `service` (147k) | `HandoverIsLate`, `UpgradeApplied`, `ClientComesBack` | a start beside one other command of any kind, 2 clients, a delay of 2 ticks, 1 event of others |
| `service_delay` | a violation, see 7 | one `config` |
| `keystores` (3.0M) | `StoredIsReadable`, `StoredStaysReadable`, `RefusalIsExplained` | 3 commands, 2 at once, 2 kills, 2 keys, Prysm and one client of pairs |
| `configuration` (765k) | `ChoiceKept`, `DefaultsCurrent`, `StartedAsShown` | 2 terminals; 4 runs, edits of a field and installations together, a run with a flag counting two; 2 versions, 2 networks, all 4 consensus clients |

Why these bounds are enough to be interesting. Two transactions are what it
takes to replace one, to reorder two, and to mine a stale one; three keys with
batches of two let a batch straddle `next_account`, and a page limit of two
leaves one key beyond the recovery's scan (in `keys`; in `keys_two` every key is
within it, and `RecoveryIsComplete` is for any limit). Two loops are what a race on the
flags needs, as each step touches at most two loops and the flags. Four commands
in `WalletStore` are recover, purge, recover with another mnemonic, and a purge
again, and every one of them can be cut short twice. Two validators on pages of
one give a first, a last and an empty page, and a pass that crosses the fork
between two validators. Two cycles and two operators, one without rewards in
the second cycle, give a file of the wrong operator and a claim of two cycles of
which one was claimed. Two runs of commands give a transaction to replace, to
wait behind and to race with; four nonces cover a deposit with its approval in
both. In `Service` a run beside a start, and one event, are what it takes to
falsify what the start has read; a delay of two ticks tells "before", "during"
and "after". Three commands in `Keystores` are two that overlap and one that
meets what they left, or two that are killed and one that must repair it; the
clients of pairs are alike and do not meet, so one stands for three. In
`Configuration` two runs and two edits are two savers that have read the same
file; a run, an edit, an installation and a run are an upgrade of something that
was set. `MaxKeys`,
`MaxKey`, `MaxBatch`, `MaxTxs`, `MaxChanges`, `MaxKills`, `MaxFailures`,
`MaxCommands`, `MaxEpoch`, `LastCycle`, `MaxFaults`, `MaxWallets`, `LastNonce`,
`MaxEvents`, `MaxSteps`, `MaxVersion`, `Terminals` and the number of `Commands` are the bounds, each in
the guard of the action it limits.

`CHECK_DEADLOCK FALSE` is used where the operator may run no further command and
nothing else moves: `WalletStore_faults.cfg`, `NodeCommands_all.cfg`,
`Service_*.cfg`, `Keystores_all.cfg` and `Configuration_all.cfg`. The types of
every module are proved; they are also checked in `presign`, `commands`, `service`
and `configuration`.

## 5. Fairness

* `ClientManager`: weak fairness of the steps of a wait, of a call and of the
  wake-up, for requests return and sleeps end. Strong fairness of `Lock`, as
  Go's mutex hands itself to a waiter that starves for a millisecond; and of
  `EndPass`, as a pass makes finitely many calls. The clients have none.
* `FeeRecipient`: weak fairness of the task, which sleeps and goes on, and of
  Docker's restart (`restart: unless-stopped` in `install/templates`).
* `PresignDaemon`: weak fairness of the loop and of Docker's restart. Faults
  need not be repaired; the properties say "if they are".
* `MerkleProofs`: weak fairness of the daemon's steps and of a download that a
  command has begun, as requests return, sleeps end and Docker restarts; strong
  fairness of the daemon's request, as a backend that is asked again and again
  answers at some time. None of the operator's sessions.
* `NodeCommands`: weak fairness of `Mine`, which takes a transaction without a
  gap of nonces before it, and of the waits that see it. `WaitIsAnswered` names
  the waits that end.
* `Service`: weak fairness of the clock, of the end of the worker's container,
  of the countdown, and of what a command does after its worker: it starts the
  client again or fails.
* `ValidatorKeys`, `WalletStore`, `Keystores` and `Configuration` have none, and no liveness
  property: an operator may walk away.

## 6. Proofs

TLAPS checks these for every value of the constants, from one assumption per
module: `BoundsAssumption`, `WalletAssumption` (the bounds are numbers; the markers
of an absent mnemonic and an empty password are none), `ClientAssumption` and
`HealthAssumption` (a manager is one of the two, nobody is no loop, the
conditions of a client are those of the model), `KeystoreAssumption` (Prysm
has no pairs, "no client" is none, a torn or absent file holds no password),
`FeeAssumption` and `PresignAssumption` (the bounds and the fork's epoch are
numbers, a page has room), `ProofAssumption`, `CommandAssumption` (the states of
the contracts and the commands asked for are well formed, a suggested fee is not
zero, "no run" and "no nonce" are none), `ServiceAssumption` (there is a client
and a delay, "no session" is none) and `ConfigurationAssumption` (the bounds are
numbers, there is a version).

`ValidatorKeysProofs`
: `TypeCorrect`; `AlertIsHonoured` and `SubmittedKeysAreStored`, for any number
  of processes, which may overlap and be killed while they store keys. Neither
  property is inductive. `DepositInv` says what a deposit has established at each
  of its steps: the keys it created so far are `Kept`, which means readable, being
  stored again or damaged, and those it checked so far were no validators when
  it started. That `Kept` only grows but for a purge is where the in-place writes
  come in, and rests on `AloneInv`: of two processes that may store keys each
  knows of the other (`shared`), and the copy of one that is alone is what is on
  the disk. Every step is one that begins a key, ends one, cuts one off, or
  leaves the keystores alone (`BeginsKey`, `EndsKey`, `Quiet`). A purge acts only
  when no process is in a command. `CreatedAreSent` ties the keys a deposit
  created to those its transaction names.
: `RecoveryIsComplete`, for any number of processes, if a recovery by address
  (the command `search`) is not among the commands: that one recovers no key.
  `RecoverInv`: what was found is `Kept` from the scan on, and what was
  wanted is found when the scan is over.
: `SentKeysAreAccounted` and `VaultIsCounted` have the premise `OneProcess`, as
  the run `keys` has: of two deposits at once the one that saves later may take
  `next_account` back, and neither counts the keys of the other. `AccountInv`: a deposit goes on from `next_account`
  as it is on disk until it saves, and a recovery's next index is behind no key it
  found. `MempoolInv`: the pending transactions fill the nonces up to the next
  free one, each once. `BaseInv`: a deposit that saw nothing pending still has
  the right count at its send, since only it can send, and so has what it sent
  until it is mined, since that is mined next or replaced.

`ClientsAndSettingsProofs`, about `ClientManager`
: `TypeCorrect`; `RightChainAnswers`, `WaitIsGrounded` and `CallIsServed`, for
  either manager, any number of loops and whatever the clients do. The inductive
  invariant `IInv` says of each loop: inside the wait it holds the mutex
  (`MutexInvOf`), a flag that is up there is one its own check put up, though a
  call may have lowered it since (`SeenInvOf`); after its check the flag of the
  fallback is up only for a fallback it may use (`ChainInvOf`), which fails
  before the first check; what its call could still turn to is in sync with
  its flag up, and the clients it gave up are not among that (`UsableInvOf`).
  `Considerate` is what a step of one loop may do to the others: raise a flag
  only with the mutex held, and that of the fallback only on the right chain.
  `OthersKeep` shows that this is all they need; each action is then shown to be
  considerate and to preserve the invariant of its own loop.

`ClientsAndSettingsProofs`, about `Configuration`
: `SettingsTypeCorrect`, `ChoicesAreKept`, `DefaultsAreCurrent` and
  `StartsAsShown`, for any number of terminals, any versions, and runs that are
  killed or meet a full disk anywhere. All four follow from `SettingsInv`, which
  has a part about the file and one about each run. `FileChoices`: a whole file
  has what was chosen, but for what is excused. `FileDefaults`: it has the tags
  of the installed version, but only once the flag is gone, or while a run that
  has upgraded (`HasUpgraded`) is between its save and the removal of the flag,
  for that is when the flag goes. `RunInv` says the same, parameter by parameter,
  of the settings in the memory of a run (`ChoiceOf`, `DefaultOf`), as long as
  no other run has written the file (`stale`), and that what the last form
  showed, without the fields of `Unheeded`, is what the containers will get
  (`ShownOf`). Taking a form over is the
  step where all this could break, as a form has one field for two parameters,
  or shows a parameter only with another; `IsTaken` says what becomes of a run
  and `TakenFacts` that it keeps its parts, for either form. `WizardShows` and
  `PageShows` compare what a form showed with the containers' environment
  (`Matches`).

`WalletStoreProofs`
: `TypeCorrect`; `CompleteWalletLoads` and `PurgeIsComplete`, for any number of
  mnemonics, passwords, commands, kills and outages. The inductive invariant
  `IInv` has three parts. `LoadsInv`: a command that will write the wallet holds
  the password that is on disk, and the password is only set or filled while
  there is no complete wallet. `DeletedInv`: what a purge has deleted stays
  deleted while it goes on, since nobody but a command of the one session writes
  these files. `ForgottenInv`: a process restarted after that has nothing to
  load, and a daemon without a wallet does not come up.
: `DaemonsKeepOneMnemonic`, up to the first kill or outage, as the property says.
  `UpInv`: the key of a daemon that runs is that of the wallet on disk, or of the
  one about to be written; without a wallet on disk, a daemon runs only while
  the purge has not come to restart it. `FileInv` reads the state of the wallet
  file off the step of the command; `OutageInv` says that docker, which a
  purge needs for the restart, is there.

`MerkleProofsProofs`
: `TypeCorrect`; `FilesAreWritten`, `SuccessIsPaidFor` and `FailureNeedsRace`,
  for any number of sessions, operators, cycles, wallets and faults. `TypeInv`
  ties the parts of a writer's record together. `FileInv` adds to the property
  that a writer about to write has created its file (`DownloadInv`). `PayInv`
  says of each claim what its API processes have established: before the send
  its cycles are unpaid and their files hold proofs of its account, unless
  something changed, which the estimate of the send finds out; while it waits
  they are unpaid or it is `raced`; after it they are its own. `Pay` moves only
  unpaid cycles, which is what the other claims need.

`KeystoresProofs`
: `TypeCorrect`; `RefusalExplained`, for any number of commands, keys, terminals
  and kills. The inductive invariant `RefusalInv` says: a purge is alone
  (`AloneInv`), and what it has deleted of Prysm stays deleted (`DeletedInv`); as
  long as nothing is `mixed` there is at most one active command, the password on
  disk opens the account store when there is none, and otherwise the command
  knows how far it is (`MatchInv`, `KnowsInv`). That a purge which ends sets
  `mixed` back is why the first two hold whatever was mixed before.
: `StoredReadable` and `StoredStays`. `RivalInv`: two commands that overlap
  know of each other's keys, and a promised key is not one they may still quarrel
  over. `PairOf`: what a command has brought into a keystore is there, unless a
  rival has the same key. `PromisedInv`: the pair of a promised key is whole, or
  was cut by a kill, or is being written again. For Prysm, `CacheOf` says when
  a process has its copy of the accounts and that it has its own keys, `AccountOf`
  that without a rival the copy is the file but for the key to be added, and
  `KeptInv` that until something is mixed the file and every copy that may replace
  it have all promised keys. `ConfigInv` says who owes Prysm its configuration.

`DaemonProofs`, about `PresignDaemon`
: `PresignTypeCorrect` and `VersionIsOfEpoch`, for any number of validators, any
  page size and any fork epoch. What makes a message right is known before the
  first is signed: `EpochInv` says that in a fresh pass the head has reached the
  pass's epoch, and heads never fall back behind it; `DomainOfEpoch`, that the
  schedule of such a head gives the version of that epoch before and after the
  fork; `BatchInv`, that messages exist only while a page is in progress. The
  types rest on two facts about finite sets: a page that is not empty has a least
  key, and the keys of a registry can be counted.

`DaemonProofs`, about `FeeRecipient`
: `FeeTypeCorrect`; `RestartIsSafe`, whatever fails, however often the daemon is
  killed and whoever restarts the client. The property speaks of the client
  after the restart, and of all its restarts until the next pass; `SafeInv` adds
  what carries it there: from the write of the file to the end of the pass, and
  while its result stands, the file holds the recipient of that pass, so that a
  client which starts in between, by docker or by the task, takes that one.

`ServiceProofs`
: `TypeCorrect`, with the fact that a client's container has its volume as long as
  it is there; `StartWaits` and `FlagMeansApplied`, for any number of runs of
  any commands, any delay and any events. `SilenceInv`: the validator container
  has been silent at least since docker's finish time, unless it runs or is
  paused. `DelayOf` is what a run that nobody `crossed` has found out on its way:
  that the client did not change, or the finish time, or that the delay has
  passed. `UpgradeOf` is from where its settings are up to date. A step of a run is
  right about itself, and what it does to the others is nothing or marks them
  (`Advances`); what comes from outside marks every run it could mislead.

`NodeCommandsProofs`
: `TypeCorrect`; `FailureNeedsChange`, `NonceIsAsked`, and
  `ImplementsAgreedPayment`, for any number of runs that share the account's
  nonces, any fees and any changes of the contracts. Of the eleven scripts the
  proofs know no more than `ScriptFollows`: which call may come after which.
  `RunInv` is what a run has established by itself: its agreed fee is that of
  its next transaction (`ScriptInv`), its nonce that of its flag (`NonceInv`).
  `OwnerInv` ties the pending transactions to the nonces: a nonce has one
  owner, which waits with it. `AcceptInv` says that the contracts accept a
  transaction that waits unless a change came after it. `DealOf` is the
  refinement mapping of one run, and `Deals` the moves that `AgreedPayment`
  allows it; every action is shown to change the deal of its own run by such a
  move or not at all. Two actions touch other runs: a change of the contracts
  raises flags, which no deal sees, and a send may replace a transaction of
  another run, which is the one step of `AgreedPayment` that moves two deals.
: `OtherDetailIsKept`. `DetailInv`: an update that waits, and is not raced, has
  the other detail as the contracts have it. `TxMoves` is what a step may do to
  the transaction of a run, given what it does to the contracts; that every
  action is such a move is shown once, and the invariant needs no more.

Checked by TLC only are the liveness properties, since the prover does neither
fairness nor ENABLED: `RecoversPrimary`, `FailsOver`, `FileSettles`,
`ClientSettlesUncut`, `EventuallyPresigned`, `ProofsArrive`, `WaitIsAnswered` and
`ClientComesBack`. The counterexample of `service_delay` is TLC's by its nature.

## 7. Where code and words differ

One of these is a run that ends in a counterexample, `service_delay`: "You may
now safely start the validator without fear of being slashed" is said after a
countdown that does not look at the old client, which the node's task may have
started again. `HandoverIsLate` says when the delay is kept.

More were met that no run states. About keys, wallet and daemons:

* A daemon killed between the fee recipient file and the restart never restarts
  the validator client, as the next pass looks at the file only
  (`manage-fee-recipient.go:123-158`). `ClientSettlesUncut` shows that this, and
  Docker or the Beacon clients failing at that moment, are the only ways to a
  client that keeps the old recipient.
* A recovery sets `next_account` to the highest index it recovered, not to the one
  after it (`validator.go:248`), so the presign loop does not find that key. A
  deposit that follows registers nothing new: the registry has the key.
  `KeysAccounted` holds with exactly this exception.
* `wallet recover --address` recovers no validator key, and saves a wallet with
  `next_account` 0. `keys` includes it, `RecoveryComplete` is about recoveries by
  derivation path.
* Two deposits at once load the same `next_account`: both create, and store again,
  the same first key, the registry refuses the second transaction, and the
  counter is that of the later save, which may be the smaller one.
  `KeysAccounted` and `VaultMatches` are about one command at a time.
* A deposit writes the password and the key of a client over those that are there,
  with a fresh password (`lighthouse/keystore.go:121-134`, and Nimbus and Teku
  alike): a kill between the two takes a key that could be read before. A
  recovery does so with every key it finds. `SubmittedKeysStored` names these
  keys `damaged`.
* Of two commands that store keys at once, the one that writes Prysm's account
  store later drops the keys of the other, and a race for its password makes a
  store that no later command can open; the deposit goes on all the same.
  `StoredIsReadable` is about commands that did not overlap, as far as Prysm
  goes. A kill inside the write has every later command refused until a purge;
  a kill before the configuration leaves Prysm without one until a new key is
  added, as a key that is there returns early (`prysm/keystore.go:104`).
* "Is the primary working and syncing? If so, wait for it" ends at once for a
  Beacon client, since the poll goes through a manager whose flags are both down.
* "Stop the VC to unlock keystores" pauses a process, which keeps its files open.
* A backend that cannot be reached makes the presign loop dereference a nil
  response (`pre-signed-flows.go:86`); `EventuallyPresigned` holds all the same,
  thanks to Docker.
* A second safety stop of the validator client fails, as the container is paused
  already and only "is not running" is forgiven; and nothing keeps a client that
  was shut down for safety from being started by Docker, a deposit or a purge.
* A call to a manager reports that no client is ready when one has been in sync
  all along but its flag is down: flags rise only in a check. `ServedIfReady` is
  what does hold.
* A presign pass that begins after the time of a fork and before its first block
  signs for the new epoch with the old version, and the backend then counts the
  validator as done. `SignedForItsEpoch` is about all other passes.

About commands and claims:

* `send-el-rewards`, `send-cl-rewards` and `claim-rewards` never read the nonce
  that is to "override an existing 'stuck' transaction"
  (`stader-cli/stader-cli.go:761`): theirs waits behind it. `NonceAsAsked` is
  about the other commands.
* A nonce flag of 0 is not counted up after an approval (`deposit-sd.go:93`).
* The flag `--gasLimit` is not passed on (`client.go:1674`), and the wallet of an
  API process has gas limit 0.
* Two updates of the operator's details that wait at once undo each other, as each
  sends the other detail as it was read; both report success. `OtherDetailKept`
  names this exception.
* A wait for a transaction that another replaced never ends; `WaitIsAnswered`
  is about the others.
* "All proofs are up to date!" is said of the files of another operator; a claim
  made with them is refused by the estimate, so no fee is lost.
* The cycles of a claim whose entry was refused stay in the selection of the next
  entry (`claim-sp-rewards.go:120`).

About the service:

* The error of saving upgraded settings is dropped (`service.go:617`), and
  "Updated settings successfully." follows.
* A start that returns nil without starting lets `config` remove its flag and
  `resync` print "Done!".
* A container that is paused, or that docker is about to restart, is taken for one
  that stopped at its old finish time (`service.go:736`).
* Ctrl-C during prune, export or import leaves the execution client stopped.

About the configuration, where `ChoiceKept`, `DefaultsCurrent` and
`StartedAsShown` name the exceptions:

* Of two runs that have read the same file, the later save undoes the earlier.
* A settings file that a full disk cut may still be loaded: what is missing gets
  its default, and if that is the network, mainnet. `service start` drops the
  error of that write.
* The page shows and saves the graffiti of an external client
  (`configConsensus.go:37,44,51` and `117,123,130`). It is passed on as
  `CUSTOM_GRAFFITI`, which `start-vc.sh` does not read: what it reads,
  `GRAFFITI`, is made of the common setting in either mode
  (`stader-config.go:907-911`).
* Nimbus, the default client (`stader-config.go:269`), has no case in the switch of
  the wizard over fallback clients (`service.go:248-259`): the URLs entered for it
  are dropped, while the fallback is turned on. The page does save them.
* The doppelganger answer for the external Nimbus goes to the common setting and
  those of Prysm and Lighthouse, and no form writes its own, which
  `IsDoppelgangerEnabled` reads (`stader-config.go:684-699`); the wizard does
  not write its URL either. For Teku, which has no such protection, the answer
  is asked and means nothing.
* Leaving the wizard writes the common doppelganger setting over those of the
  external Lighthouse and Prysm (`service.go:232`), the common graffiti over that of
  the external Teku (`service.go:235`), and one mode over the other;
  the fallback page writes its two URLs over Prysm's (`configFallback`), shown
  or not, edited or not.
* A network changed on the page keeps the container tags of the old one, as the
  page writes its tags back (`config.go:52-56`); one changed with a flag keeps
  every default of the old one.
* A resync, or a run that began before an installation, removes the upgrade flag
  without upgrading; a run of the old version saves its tags.
* `service config` with a flag saves and returns no configuration, and the
  interface that is opened next dereferences it (`service.go:408`): the model ends
  the run after its save.
* The check of a value against its pattern tests the old value
  (`parameter.go`, `Deserialize`), so a secret is never checked.

## 8. Not modelled

Native mode (external start and stop commands); the ignore-sync and
force-fallback flags of API processes; wallet export and test recovery;
`service logs` and other read-only commands, and `changeNetworks`
(`service.go:487`), which nothing calls; of the configuration MEV-Boost's section
(which the wizard always enables), the parameters of single clients that are
passed on one to one, the migration of a legacy file and the ranges of values; the contents of
keystores, proofs, transactions and messages; key derivation and encryption;
contract arithmetic; the guardian's metrics. A second operator session over the
wallet file, and the client status of commands, are in the plan (section 2).

The generated contract bindings (`stader-lib/contracts`, most of the lines of the
repository) and the HTTP clients translate calls into requests and keep no
state: there is nothing in them to check. The contracts and the clients behind
them appear as the actions and helpers that are marked external, each as the
code relies on it. The three loops of the daemon are not put into one state
space: `ClientManager` has them as threads, the other modules have one each, and
the product is beyond TLC.
