--------------------------- MODULE ValidatorKeys ---------------------------
(***************************************************************************)
(* The life of the validator keys of one mnemonic: the account counter of  *)
(* the wallet file, the keystores of the validator clients, the deposit,   *)
(* recovery and purge commands (each a short-lived API process), and, as   *)
(* far as the code talks to them, the node account's pending transactions, *)
(* the operator's entry in the node registry and the Beacon chain.         *)
(*                                                                         *)
(* A validator key is its derivation index: m/12381/3600/<index>/0/0.      *)
(*                                                                         *)
(* A process can be killed between any two of its steps; everything it did *)
(* not write to disk or send to the chain is lost.                         *)
(*                                                                         *)
(* Of the keystores it has what decides whether a key is lost: that the    *)
(* two files of a key of Lighthouse, Nimbus and Teku are written over, and *)
(* that Prysm's one file for all keys is written over from the copy that   *)
(* each process has read. Keystores has them file by file, with Prysm's    *)
(* password and configuration.                                             *)
(***************************************************************************)
EXTENDS Integers

CONSTANTS
    Procs,      \* API processes that may run at the same time
    Commands,   \* the commands the operator uses
    MaxKeys,    \* bound: derivation indices are 0 .. MaxKeys - 1
    MaxBatch,   \* bound: keys of one deposit
    MaxTxs,     \* bound: transactions the node account ever sends
    PageLimit,  \* key recovery scans the indices below this one
    External    \* indices another installation of the mnemonic may activate

ASSUME BoundsAssumption ==
    /\ MaxKeys \in Nat
    /\ MaxBatch \in Nat
    /\ MaxTxs \in Nat
    /\ PageLimit \in Nat
    /\ External \subseteq Nat

AllCommands == {"deposit", "purge", "recover", "skip", "search"}

VARIABLES
    wallet,    \* the wallet file: [exists, next]; next is its next_account
    keystore,  \* the keys in the validator clients' keystores
    api,       \* [Procs -> state of the process]
    mempool,   \* pending transactions of the node account
    nonce,     \* the account's nonce in the latest block
    pending,   \* the next free nonce, counting the pending transactions
    registry,  \* keys registered to the operator
    keyCount,  \* how many keys the registry has for the operator
    beacon,    \* keys the Beacon chain knows a validator for
    unsaved,   \* history: keys sent by a process that has not saved the wallet
    restored,  \* history: keys the last recovery found
    forgotten, \* history: keys in use the last recovery did not find
    purged,    \* history: keys whose keystore a purge deleted
    damaged    \* history: keys that a kill, or commands that stored keys at
               \* the same time, left unreadable

diskVars == <<wallet, keystore>>
chainVars == <<mempool, nonce, pending, registry, keyCount, beacon>>
ghostVars == <<unsaved, restored, forgotten, purged, damaged>>
vars == <<diskVars, api, chainVars, ghostVars>>

Indices(first, n) == first .. first + n - 1

TxKeys(tx) == Indices(tx.first, tx.count)
PendingKeys == UNION {TxKeys(tx) : tx \in mempool}
RegisteredKeys == {r.key : r \in registry}
SubmittedKeys == PendingKeys \cup RegisteredKeys

-----------------------------------------------------------------------------
(* Types *)

Pcs == {"idle", "load", "count", "create", "storeNew", "check", "reload", "send",
        "save", "wait", "scan", "storeFound", "store", "done"}

ProcState == [
    pc    : Pcs,
    n     : Nat,         \* numValidators of the deposit
    first : Nat,         \* next_account when the process loaded the wallet
    next  : Nat,         \* next_account of the process's copy of the wallet
    base  : Nat,         \* the registry's key count the deposit data is signed for
    behind : SUBSET Nat, \* history: the nonces pending when base was read
    seen  : SUBSET Nat,  \* history: the Beacon chain's keys at the start
    want  : SUBSET Nat,  \* keys the recovery looks for
    found : SUBSET Nat,  \* keys the recovery stored
    key   : Nat,         \* the key being stored
    read  : BOOLEAN,     \* it has read Prysm's accounts: ks.as is set
    copy  : SUBSET Nat,  \* ks.as
    shared : BOOLEAN]    \* history: another process stored keys meanwhile

\* Prysm's account store, which nothing can read once it is torn; and the keys
\* whose two files fit together in each of the other keystores.
Accounts == [keys : SUBSET Nat, torn : BOOLEAN]
Keystore == [pairs : SUBSET Nat, prysm : Accounts]

TornAccounts == [keys |-> {}, torn |-> TRUE]
EmptyKeystore == [pairs |-> {}, prysm |-> [keys |-> {}, torn |-> FALSE]]

\* The keys that every validator client can load.
Readable == keystore.pairs \cap keystore.prysm.keys

Tx == [nonce : Nat, first : Nat, count : Nat, base : Nat, behind : SUBSET Nat]

Registration == [key : Nat, slot : Nat, vault : Nat, behind : SUBSET Nat]

TypeOK ==
    /\ wallet \in [exists : BOOLEAN, next : Nat]
    /\ keystore \in Keystore
    /\ api \in [Procs -> ProcState]
    /\ mempool \subseteq Tx
    /\ nonce \in Nat
    /\ pending \in Nat
    /\ registry \subseteq Registration
    /\ keyCount \in Nat
    /\ beacon \subseteq Nat
    /\ unsaved \subseteq Nat
    /\ restored \subseteq Nat
    /\ forgotten \subseteq Nat
    /\ purged \subseteq Nat
    /\ damaged \subseteq Nat

Fresh(pc, n, want) ==
    [pc |-> pc, n |-> n, first |-> 0, next |-> 0, base |-> 0,
     behind |-> {}, seen |-> {}, want |-> want, found |-> {}, key |-> 0,
     read |-> FALSE, copy |-> {}, shared |-> FALSE]

IdleProc == Fresh("idle", 0, {})

Init ==
    /\ wallet = [exists |-> FALSE, next |-> 0]
    /\ keystore = EmptyKeystore
    /\ api = [p \in Procs |-> IdleProc]
    /\ mempool = {}
    /\ nonce = 0
    /\ pending = 0
    /\ registry = {}
    /\ keyCount = 0
    /\ beacon = {}
    /\ unsaved = {}
    /\ restored = {}
    /\ forgotten = {}
    /\ purged = {}
    /\ damaged = {}

Exit(p) == api' = [api EXCEPT ![p] = IdleProc]
Goto(p, pc) == api' = [api EXCEPT ![p].pc = pc]

-----------------------------------------------------------------------------
(* Storing a key: StoreValidatorKey of every keystore, in the random order of
   a map. It begins, and ends unless the process is killed in between. *)

Storing(p) == api[p].pc \in {"storeNew", "storeFound"}

\* It has begun to store keys and may store more.
Active(p) == Storing(p) \/ api[p].read

\* Seeded fault: a process begins with an empty store.
NoAccountsFor(p) == IF api[p].read THEN api[p].copy ELSE {}

\* initialize: the accounts are read from the disk once per process.
AccountsFor(p) == IF api[p].read THEN api[p].copy ELSE keystore.prysm.keys

\* The files of the key are written over, so they do not fit together until all
\* are. Prysm's turn, when the accounts are read, comes early or late.
StoreBegins(p, k, pc, next) ==
    /\ \E read \in {api[p].read, TRUE} :
        /\ keystore.prysm.torn => read = api[p].read
        /\ api' = [q \in Procs |->
              IF q = p
              THEN [api[p] EXCEPT !.pc = pc, !.key = k, !.next = next,
                        !.read = read,
                        !.copy = IF read THEN AccountsFor(p) ELSE {},
                        !.shared = @ \/ \E o \in Procs \ {p} : Active(o)]
              ELSE [api[q] EXCEPT !.shared = @ \/ Active(q)]]
    /\ keystore' = [keystore EXCEPT !.pairs = @ \ {k}]

\* What Prysm's file can be once the key was stored: left alone if the process's
\* copy has the key, or else that copy and the key. Two processes that write it
\* at the same time may leave one that no password opens.
AccountsStored(p) ==
    IF api[p].key \in AccountsFor(p) THEN {keystore.prysm}
    ELSE {[keys |-> AccountsFor(p) \cup {api[p].key}, torn |-> FALSE]}
            \cup (IF api[p].shared THEN {TornAccounts} ELSE {})

\* The other keystores: two processes that store the same key at the same time
\* may leave the password of one with the key file of the other.
PairsStored(p) ==
    {keystore.pairs \cup {api[p].key}}
        \cup (IF api[p].shared THEN {keystore.pairs \ {api[p].key}} ELSE {})

\* The key and those that could be read before, if they no longer can.
Lost(k) == (Readable \cup {k}) \ Readable'

StoreEnds(p, pc, found) ==
    /\ api[p].read \/ ~keystore.prysm.torn
    /\ \E pairs \in PairsStored(p), prysm \in AccountsStored(p) :
          keystore' = [pairs |-> pairs, prysm |-> prysm]
    /\ api' = [api EXCEPT
          ![p].pc = pc, ![p].found = found, ![p].key = 0, ![p].read = TRUE,
          ![p].copy = AccountsFor(p) \cup {api[p].key}]
    /\ damaged' = (damaged \ Readable')
                      \cup (IF api[p].shared THEN Lost(api[p].key) ELSE {})
    /\ purged' = purged \ {api[p].key}

\* What the process has read is of no more use: it stores no other key.
AllStored(p, pc) ==
    api' = [api EXCEPT ![p].pc = pc, ![p].read = FALSE, ![p].copy = {},
                       ![p].shared = FALSE]

-----------------------------------------------------------------------------
(* stader-cli validator deposit *)

\* can-deposit simulates the transaction with the next keys of the wallet, and
\* the registry refuses a key it already has.
CanNodeDeposit(p, n) ==
    /\ api[p].pc = "idle"
    /\ "deposit" \in Commands
    /\ wallet.exists
    /\ Indices(wallet.next, n) \cap RegisteredKeys = {}
    /\ api' = [api EXCEPT ![p] = Fresh("load", n, {})]
    /\ UNCHANGED <<diskVars, chainVars, ghostVars>>

\* The deposit is a new process: it loads the wallet file once.
LoadWallet(p) ==
    /\ api[p].pc = "load"
    /\ IF wallet.exists
       THEN api' = [api EXCEPT ![p].pc = "count",
                               ![p].first = wallet.next,
                               ![p].next = wallet.next,
                               ![p].seen = beacon]
       ELSE Exit(p)
    /\ UNCHANGED <<diskVars, chainVars, ghostVars>>

ReadKeyCount(p) ==
    /\ api[p].pc = "count"
    /\ api' = [api EXCEPT ![p].pc = "create",
                          ![p].base = keyCount,
                          ![p].behind = {tx.nonce : tx \in mempool}]
    /\ UNCHANGED <<diskVars, chainVars, ghostVars>>

\* The counter moves in memory only, the key goes to the keystores on disk.
CreateValidatorKey(p) ==
    /\ api[p].pc = "create"
    /\ api[p].next < MaxKeys
    /\ StoreBegins(p, api[p].next, "storeNew", api[p].next + 1)
    /\ UNCHANGED <<wallet, chainVars, ghostVars>>

ValidatorKeyCreated(p) ==
    /\ api[p].pc = "storeNew"
    /\ StoreEnds(p, "check", api[p].found)
    /\ UNCHANGED <<wallet, chainVars, unsaved, restored, forgotten>>

\* Seeded fault: only the last key of the batch is checked.
CheckBeaconStatusLast(p) ==
    /\ api[p].pc = "check"
    /\ IF api[p].next < api[p].first + api[p].n
       THEN Goto(p, "create")
       ELSE IF api[p].next - 1 \in beacon THEN Exit(p) ELSE AllStored(p, "reload")
    /\ UNCHANGED <<diskVars, chainVars, ghostVars>>

CheckBeaconStatus(p) ==
    /\ api[p].pc = "check"
    /\ IF api[p].next - 1 \in beacon
       THEN Exit(p)
       ELSE IF api[p].next = api[p].first + api[p].n
       THEN AllStored(p, "reload")
       ELSE Goto(p, "create")
    /\ UNCHANGED <<diskVars, chainVars, ghostVars>>

\* The validator client is restarted to load the new keys; on failure the
\* deposit is abandoned.
ReloadKeys(p) ==
    /\ api[p].pc = "reload"
    /\ Goto(p, "send") \/ Exit(p)
    /\ UNCHANGED <<diskVars, chainVars, ghostVars>>

\* Seeded fault: a nonce beyond the next free one is accepted.
NonceNotBelow(v) == nonce <= v

\* A nonce given by the operator must be that of a pending transaction, which
\* the new one then replaces, or the next free one.
NonceAllowed(v) == nonce <= v /\ v <= pending

AddValidatorKeys(p) ==
    /\ api[p].pc = "send"
    /\ pending < MaxTxs
    /\ \E v \in 0 .. MaxTxs :
        /\ NonceAllowed(v)
        /\ mempool' = {tx \in mempool : tx.nonce # v}
                        \cup {[nonce |-> v, first |-> api[p].first,
                               count |-> api[p].n, base |-> api[p].base,
                               behind |-> api[p].behind]}
        /\ pending' = IF v = pending THEN pending + 1 ELSE pending
    /\ unsaved' = unsaved \cup Indices(api[p].first, api[p].n)
    /\ Goto(p, "save")
    /\ UNCHANGED <<diskVars, nonce, registry, keyCount, beacon,
                   restored, forgotten, purged, damaged>>

\* Seeded fault: the counter as it was loaded is written back.
SaveLoadedWallet(p) ==
    /\ api[p].pc = "save"
    /\ wallet' = [exists |-> TRUE, next |-> api[p].first]
    /\ unsaved' = unsaved \ Indices(api[p].first, api[p].n)
    /\ Goto(p, "wait")
    /\ UNCHANGED <<keystore, chainVars, restored, forgotten, purged, damaged>>

SaveWallet(p) ==
    /\ api[p].pc = "save"
    /\ wallet' = [exists |-> TRUE, next |-> api[p].next]
    /\ unsaved' = unsaved \ Indices(api[p].first, api[p].n)
    /\ Goto(p, "wait")
    /\ UNCHANGED <<keystore, chainVars, restored, forgotten, purged, damaged>>

WaitForTransaction(p) ==
    /\ api[p].pc = "wait"
    /\ Indices(api[p].first, api[p].n) \cap PendingKeys = {}
    /\ Exit(p)
    /\ UNCHANGED <<diskVars, chainVars, ghostVars>>

\* Any error return, a kill, or Ctrl-C while waiting.
Interrupt(p) ==
    /\ api[p].pc # "idle"
    /\ ~Storing(p)
    /\ Exit(p)
    /\ UNCHANGED <<diskVars, chainVars, ghostVars>>

\* The same while a key is being stored: each file is as it was, torn or whole.
InterruptStore(p) ==
    LET k == api[p].key
        untouched == {keystore.prysm}
        written == [keys |-> AccountsFor(p) \cup {k}, torn |-> FALSE]
        writes == k \notin AccountsFor(p) /\ (api[p].read \/ ~keystore.prysm.torn)
    IN
    /\ Storing(p)
    /\ Exit(p)
    /\ \E pairs \in {keystore.pairs \ {k}, keystore.pairs \cup {k}},
          prysm \in untouched \cup (IF writes THEN {written, TornAccounts} ELSE {}) :
             keystore' = [pairs |-> pairs, prysm |-> prysm]
    /\ damaged' = (damaged \ Readable') \cup Lost(k)
    /\ UNCHANGED <<wallet, chainVars, unsaved, restored, forgotten, purged>>

-----------------------------------------------------------------------------
(* stader-cli wallet purge, init and recover *)

\* The files of the wallet and the keystores are deleted together; WalletStore
\* has the steps of the command.
Purge ==
    /\ "purge" \in Commands
    /\ \A p \in Procs : api[p].pc = "idle"
    /\ wallet.exists
    /\ wallet' = [exists |-> FALSE, next |-> 0]
    /\ keystore' = EmptyKeystore
    /\ purged' = purged \cup keystore.pairs \cup keystore.prysm.keys \cup damaged
    /\ damaged' = {}
    /\ UNCHANGED <<api, chainVars, unsaved, restored, forgotten>>

\* wallet recover: the keys to look for are those registered at this moment.
RecoverWallet(p) ==
    /\ api[p].pc = "idle"
    /\ "recover" \in Commands
    /\ ~wallet.exists
    /\ api' = [api EXCEPT ![p] = Fresh("scan", 0, RegisteredKeys)]
    /\ UNCHANGED <<diskVars, chainVars, ghostVars>>

\* wallet init saves the new wallet this way, and so does a recovery with
\* --skip-validator-key-recovery.
RecoverSkippingKeys(p) ==
    /\ api[p].pc = "idle"
    /\ "skip" \in Commands
    /\ ~wallet.exists
    /\ api' = [api EXCEPT ![p] = Fresh("store", 0, {})]
    /\ UNCHANGED <<diskVars, chainVars, ghostVars>>

\* wallet recover --address: the wallet is found by its node account. Neither
\* the flag nor the registry is looked at.
SearchAndRecoverWallet(p) ==
    /\ api[p].pc = "idle"
    /\ "search" \in Commands
    /\ ~wallet.exists
    /\ api' = [api EXCEPT ![p] = Fresh("store", 0, RegisteredKeys)]
    /\ UNCHANGED <<diskVars, chainVars, ghostVars>>

\* next_account after a key at the given index was recovered.
NextAfterRecovery(next, index) == IF index > next THEN index ELSE next

\* The scan goes up from index 0 and stores each key of the operator.
SaveValidatorKey(p) ==
    LET left == api[p].want \ api[p].found IN
    /\ api[p].pc = "scan"
    /\ \E k \in left :
        /\ \A j \in left : k <= j
        /\ k < PageLimit
        /\ StoreBegins(p, k, "storeFound", NextAfterRecovery(api[p].next, k))
    /\ UNCHANGED <<wallet, chainVars, ghostVars>>

ValidatorKeySaved(p) ==
    /\ api[p].pc = "storeFound"
    /\ StoreEnds(p, "scan", api[p].found \cup {api[p].key})
    /\ UNCHANGED <<wallet, chainVars, unsaved, restored, forgotten>>

\* Seeded fault: the scan ends with the first key it finds.
OneKeyRecovered(p) ==
    /\ api[p].pc = "scan"
    /\ api[p].want = {} \/ api[p].found # {}
    /\ AllStored(p, "store")
    /\ UNCHANGED <<diskVars, chainVars, ghostVars>>

AllKeysRecovered(p) ==
    /\ api[p].pc = "scan"
    /\ api[p].want \subseteq api[p].found
    /\ AllStored(p, "store")
    /\ UNCHANGED <<diskVars, chainVars, ghostVars>>

\* A wanted key is beyond the last page: the command fails, and the keys it
\* stored stay in the keystores.
AttemptLimitExceeded(p) ==
    /\ api[p].pc = "scan"
    /\ \E k \in api[p].want \ api[p].found : k >= PageLimit
    /\ \A k \in api[p].want \ api[p].found : k >= PageLimit
    /\ Exit(p)
    /\ UNCHANGED <<diskVars, chainVars, ghostVars>>

SaveRecoveredWallet(p) ==
    /\ api[p].pc = "store"
    /\ wallet' = [exists |-> TRUE, next |-> api[p].next]
    /\ Goto(p, "done")
    /\ unsaved' = {}
    /\ restored' = api[p].found
    /\ forgotten' = SubmittedKeys \ api[p].found
    /\ UNCHANGED <<keystore, chainVars, purged, damaged>>

ReportRecovery(p) ==
    /\ api[p].pc = "done"
    /\ Exit(p)
    /\ UNCHANGED <<diskVars, chainVars, ghostVars>>

-----------------------------------------------------------------------------
(* The chains, as the code relies on them *)

\* The registry takes all the keys of a transaction or none. It refuses a key
\* it has, and may refuse for reasons of its own (collateral, limits, gas).
\* It gives the i-th key of an operator the i-th withdraw vault.
MineTx ==
    \E tx \in mempool :
        /\ tx.nonce = nonce
        /\ mempool' = mempool \ {tx}
        /\ nonce' = nonce + 1
        /\ \/ /\ TxKeys(tx) \cap RegisteredKeys = {}
              /\ registry' = registry \cup
                    {[key |-> k, slot |-> keyCount + (k - tx.first),
                      vault |-> tx.base + (k - tx.first), behind |-> tx.behind]
                        : k \in TxKeys(tx)}
              /\ keyCount' = keyCount + tx.count
           \/ UNCHANGED <<registry, keyCount>>
        /\ UNCHANGED <<diskVars, api, pending, beacon, ghostVars>>

\* The Beacon chain takes a deposit only if it is signed for the credentials
\* of the vault the registry assigned.
ProcessPreDeposit ==
    /\ \E r \in registry :
        /\ r.vault = r.slot
        /\ r.key \notin beacon
        /\ beacon' = beacon \cup {r.key}
    /\ UNCHANGED <<diskVars, api, mempool, nonce, pending, registry, keyCount,
                   ghostVars>>

\* The same mnemonic activates a validator from somewhere else.
ActivateElsewhere ==
    /\ \E k \in External :
        /\ k \notin beacon
        /\ beacon' = beacon \cup {k}
    /\ UNCHANGED <<diskVars, api, mempool, nonce, pending, registry, keyCount,
                   ghostVars>>

-----------------------------------------------------------------------------
(* Specification *)

DepositStep(p) ==
    \/ LoadWallet(p)
    \/ ReadKeyCount(p)
    \/ CreateValidatorKey(p)
    \/ ValidatorKeyCreated(p)
    \/ CheckBeaconStatus(p)
    \/ ReloadKeys(p)
    \/ AddValidatorKeys(p)
    \/ SaveWallet(p)
    \/ WaitForTransaction(p)

RecoverStep(p) ==
    \/ SaveValidatorKey(p)
    \/ ValidatorKeySaved(p)
    \/ AllKeysRecovered(p)
    \/ AttemptLimitExceeded(p)
    \/ SaveRecoveredWallet(p)
    \/ ReportRecovery(p)

StartCommand(p) ==
    \/ \E n \in 1 .. MaxBatch : CanNodeDeposit(p, n)
    \/ RecoverWallet(p)
    \/ RecoverSkippingKeys(p)
    \/ SearchAndRecoverWallet(p)

ChainStep == MineTx \/ ProcessPreDeposit \/ ActivateElsewhere

Next ==
    \/ \E p \in Procs : StartCommand(p) \/ DepositStep(p) \/ RecoverStep(p)
                            \/ Interrupt(p) \/ InterruptStore(p)
    \/ Purge
    \/ ChainStep

Spec == Init /\ [][Next]_vars

-----------------------------------------------------------------------------
(* Properties *)

\* GetValidatorKeyByPubkey searches the indices below next_account: the daemon
\* can pre-sign the exit of, and the operator can exit, only these validators.
KnownToWallet(k) == wallet.exists /\ k < wallet.next

\* Every key the node account sent to the registry can be found again by the
\* wallet, whatever was killed, mined, reverted or replaced in between, except:
\* a key whose deposit died between the transaction and the save, a key that
\* the last recovery did not find, and one key at exactly next_account that
\* the last recovery did find. (One command at a time.)
KeysAccounted ==
    wallet.exists =>
        \A k \in SubmittedKeys \ (unsaved \cup forgotten) :
            KnownToWallet(k) \/ (k \in restored /\ k = wallet.next)

\* The keys that a process is storing at this moment.
BeingStored == {api[p].key : p \in {q \in Procs : Storing(q)}}

\* A key reaches the registry only after every keystore has it, and each client
\* can load it from then on, except: while a command stores it again; after a
\* purge; once a command was killed in the middle of storing it, or of Prysm's
\* file; and once commands that stored keys at the same time wrote over each
\* other's. A command that stores keys alone harms no key that was there.
SubmittedKeysStored ==
    SubmittedKeys \subseteq Readable \cup BeingStored \cup purged \cup damaged

\* The deposit aborts before it sends a batch with a key that was a validator
\* on the Beacon chain when it started ("already in use"), at whatever place
\* of the batch the key is.
AlertHonoured ==
    \A p \in Procs :
        api[p].pc \in {"reload", "send", "save"} =>
            Indices(api[p].first, api[p].n) \cap api[p].seen = {}

\* Deposit data are signed for the vault the registry will give the key, when
\* nothing was pending as the key count was read: mined late, after reverts,
\* replacements and later deposits, they still match. (One command at a time.)
VaultMatches == \A r \in registry : r.behind = {} => r.vault = r.slot

\* When a recovery by derivation path reports success, each client can load
\* every key the operator had registered when it began, with the exceptions of
\* SubmittedKeysStored.
RecoveryComplete ==
    \A p \in Procs : api[p].pc = "done" =>
        api[p].want \subseteq Readable \cup BeingStored \cup damaged

=============================================================================
