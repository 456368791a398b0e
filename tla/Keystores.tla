----------------------------- MODULE Keystores -----------------------------
(***************************************************************************)
(* The keystores that the node writes for the validator clients, file by   *)
(* file. Lighthouse, Nimbus and Teku have two files per key, a password    *)
(* that is new each time and the key encrypted with it. Prysm has one file *)
(* for all keys, which each process rewrites from the copy it has read,    *)
(* with one password for ever, and a configuration written once. A file is *)
(* truncated, then written. Commands (deposits, recoveries, purges) may    *)
(* run in several terminals, and may be killed.                            *)
(***************************************************************************)
EXTENDS Naturals, FiniteSets

CONSTANTS
    PairClients,  \* validator clients with two files per key
    Prysm,        \* the one with a file for all
    NoClient,
    Torn, Absent, \* a file that was only truncated, and one that is not there
    Commands,     \* the commands of the operator; each runs once
    MaxKey,       \* bound: the last derivation index
    Terminals,    \* bound: commands that store keys at the same time
    MaxKills      \* bound: commands that are killed

Clients == PairClients \cup {Prysm}
Keys == 1..MaxKey

(* A file is absent, torn, or holds or is encrypted with a password; passwords
   are named by the command that made them. Prysm encrypts with the empty
   password, if its password file is torn. *)
Files == Commands \cup {Torn, Absent}
PairFiles == Commands \cup {Absent}

ASSUME KeystoreAssumption ==
    /\ Prysm \notin PairClients
    /\ NoClient \notin Clients
    /\ Torn # Absent
    /\ Commands \cap {Torn, Absent} = {}
    /\ MaxKey \in Nat
    /\ Terminals \in Nat
    /\ MaxKills \in Nat

VARIABLES
    next,      \* the wallet's first key not yet recorded, or NoWallet
    secret,    \* [PairClients -> [Keys -> the password file of the key]]
    keyfile,   \* [PairClients -> [Keys -> the password the key file needs]]
    prysm,     \* the files of Prysm
    command,   \* [Commands -> state of the process]
    past       \* history

files == <<secret, keyfile, prysm>>
vars == <<next, files, command, past>>

NoWallet == 0

AccountFile == [word : Files, keys : SUBSET Keys]

NoAccounts == [word |-> Torn, keys |-> {}]

PrysmFiles == [
    word     : Files,
    state    : {"absent", "torn", "whole"},   \* of the account store
    accounts : AccountFile,                   \* if it is whole
    config   : {"absent", "torn", "whole"}]

PrysmSteps == {"openWord", "fillWord", "readWord", "readAccounts", "add",
               "openAccounts", "fillAccounts", "config", "fillConfig"}
Ends == {"done", "failed", "killed"}

\* It stores keys or deletes them; what follows takes no part in that.
Storing == {"next", "key", "remove"} \cup PrysmSteps

Command == [
    pc    : {"new", "stored", "deleted"} \cup Storing \cup Ends,
    finds : BOOLEAN,               \* a recovery, not a deposit
    key   : Keys \cup {0},         \* the key being stored
    first : Keys \cup {0},
    last  : Keys \cup {0},
    left  : SUBSET Clients,        \* clients that still lack it
    at    : Clients \cup {NoClient},
    read  : BOOLEAN,               \* ks.as is set
    cache : SUBSET Keys,           \* ks.as
    word  : Files,                 \* the password it has read, while needed
    rivals: SUBSET Keys]           \* history: keys of commands it overlapped

(* promised: keys that a finished command stored with no other storing them at
             the same time, before or since, and no purge deleted
   cut:      pairs that a kill left between their two files
   mixed:    commands overlapped, or were killed in the middle of the account
             store or of its deletion
   bare:     a kill may have left Prysm's accounts without configuration     *)
Past == [
    promised : SUBSET Keys,
    cut      : SUBSET (PairClients \X Keys),
    mixed    : BOOLEAN,
    bare     : BOOLEAN]

TypeOK ==
    /\ next \in Keys \cup {NoWallet, MaxKey + 1}
    /\ secret \in [PairClients -> [Keys -> PairFiles]]
    /\ keyfile \in [PairClients -> [Keys -> PairFiles]]
    /\ prysm \in PrysmFiles
    /\ command \in [Commands -> Command]
    /\ past \in Past

NewCommand == [
    pc |-> "new", finds |-> FALSE, key |-> 0, first |-> 0, last |-> 0,
    left |-> {}, at |-> NoClient, read |-> FALSE, cache |-> {},
    word |-> Absent, rivals |-> {}]

Calm == [promised |-> {}, cut |-> {}, mixed |-> FALSE, bare |-> FALSE]

NoPrysm == [word |-> Absent, state |-> "absent", accounts |-> NoAccounts,
            config |-> "absent"]

Init ==
    /\ next = NoWallet
    /\ secret = [c \in PairClients |-> [k \in Keys |-> Absent]]
    /\ keyfile = [c \in PairClients |-> [k \in Keys |-> Absent]]
    /\ prysm = NoPrysm
    /\ command = [p \in Commands |-> NewCommand]
    /\ past = Calm

Covered(p) == {k \in Keys : command[p].first <= k /\ k <= command[p].last}

Active(p) == command[p].pc \in Storing

Running(p) == command[p].pc \notin {"new"} \cup Ends

Purging(p) == command[p].pc \in {"remove", "deleted"}

-----------------------------------------------------------------------------
(* A command that stores keys. With a wallet it is a deposit, which creates
   keys from next_account on; without, a recovery, which finds them from the
   first on. Nothing keeps two of them from running at once. *)

Begin(p, last) ==
    LET others == {q \in Commands : Active(q)}
        first  == IF next = NoWallet THEN 1 ELSE next
        new    == first..last
        start  == [NewCommand EXCEPT
                      !.pc = "next", !.finds = (next = NoWallet),
                      !.key = first, !.first = first, !.last = last,
                      !.left = Clients,
                      !.rivals = UNION {Covered(o) : o \in others}]
    IN
    /\ command[p].pc = "new"
    /\ first <= last
    /\ Cardinality(others) < Terminals
    /\ \A q \in Commands : ~Purging(q)
    /\ command' = [q \in Commands |->
          IF q = p THEN start
          ELSE IF q \in others
          THEN [command[q] EXCEPT !.rivals = @ \cup new]
          ELSE command[q]]
    /\ past' = [past EXCEPT
          !.mixed = @ \/ others # {},
          !.promised = @ \ (new \cap UNION {Covered(o) : o \in others})]
    /\ UNCHANGED <<next, files>>

\* A wallet that is created has no key.
InitWallet ==
    /\ next = NoWallet
    /\ \A p \in Commands : ~Purging(p)
    /\ next' = 1
    /\ UNCHANGED <<files, command, past>>

Goto(p, pc) == command' = [command EXCEPT ![p].pc = pc]

\* Of a process that has ended nothing is left but the outcome.
Ended(outcome) == [NewCommand EXCEPT !.pc = outcome]

(* One keystore has the key: the next one, in the random order of a map, the
   next key, or the end of the loop. *)
Stored(c) ==
    IF c.left # {c.at}
    THEN [c EXCEPT !.pc = "next", !.left = @ \ {c.at}, !.at = NoClient]
    ELSE IF c.key < c.last
    THEN [c EXCEPT !.pc = "next", !.left = Clients, !.at = NoClient, !.key = @ + 1]
    ELSE [NewCommand EXCEPT !.pc = "stored", !.finds = c.finds, !.last = c.last]

StoreReturns(p, c, cut) ==
    /\ command' = [command EXCEPT ![p] = Stored(c)]
    /\ past' = [past EXCEPT
          !.cut = cut,
          !.promised = IF Stored(c).pc = "stored"
                       THEN @ \cup (Covered(p) \ c.rivals) ELSE @]

-----------------------------------------------------------------------------
(* StoreValidatorKey of Lighthouse, Nimbus and Teku: both files are written
   whether or not they exist. One that is only truncated, or that is new while
   the other is not, makes the key unreadable alike: each is one step. *)

WriteSecret(p, c) ==
    /\ command[p].pc = "next"
    /\ c \in command[p].left
    /\ secret' = [secret EXCEPT ![c][command[p].key] = p]
    /\ command' = [command EXCEPT ![p].pc = "key", ![p].at = c]
    /\ UNCHANGED <<next, keyfile, prysm, past>>

\* Seeded fault: a key that has a file is left alone, its new password is not.
WriteNewKey(p) ==
    LET c == command[p].at
        k == command[p].key
    IN
    /\ command[p].pc = "key"
    /\ keyfile' = [keyfile EXCEPT ![c][k] = IF @ = Absent THEN p ELSE @]
    /\ StoreReturns(p, command[p], past.cut \ {<<c, k>>})
    /\ UNCHANGED <<next, secret, prysm>>

WriteKey(p) ==
    LET c == command[p].at
        k == command[p].key
    IN
    /\ command[p].pc = "key"
    /\ keyfile' = [keyfile EXCEPT ![c][k] = p]
    /\ StoreReturns(p, command[p], past.cut \ {<<c, k>>})
    /\ UNCHANGED <<next, secret, prysm>>

-----------------------------------------------------------------------------
(* StoreValidatorKey of Prysm, with initialize. *)

\* Seeded fault: each process makes a password of its own, as the others do.
OwnPassword(p) ==
    /\ command[p].pc = "next"
    /\ Prysm \in command[p].left
    /\ command' = [command EXCEPT
          ![p].at = Prysm,
          ![p].pc = IF command[p].read THEN "add" ELSE "openWord"]
    /\ UNCHANGED <<next, files, past>>

\* The account store is read once per process, and the password made if absent.
StartPrysm(p) ==
    /\ command[p].pc = "next"
    /\ Prysm \in command[p].left
    /\ command' = [command EXCEPT
          ![p].at = Prysm,
          ![p].pc = IF command[p].read THEN "add"
                    ELSE IF prysm.word = Absent THEN "openWord"
                    ELSE "readWord"]
    /\ UNCHANGED <<next, files, past>>

OpenWord(p) ==
    /\ command[p].pc = "openWord"
    /\ prysm' = [prysm EXCEPT !.word = Torn]
    /\ Goto(p, "fillWord")
    /\ UNCHANGED <<next, secret, keyfile, past>>

FillWord(p) ==
    /\ command[p].pc = "fillWord"
    /\ prysm' = [prysm EXCEPT !.word = p]
    /\ Goto(p, "readWord")
    /\ UNCHANGED <<next, secret, keyfile, past>>

ReadWord(p) ==
    /\ command[p].pc = "readWord"
    /\ command' = [command EXCEPT ![p].word = prysm.word, ![p].pc = "readAccounts"]
    /\ UNCHANGED <<next, files, past>>

\* Seeded fault: a process begins with an empty store.
ForgetAccounts(p) ==
    /\ command[p].pc = "readAccounts"
    /\ command' = [command EXCEPT
          ![p].read = TRUE, ![p].cache = {}, ![p].pc = "add"]
    /\ UNCHANGED <<next, files, past>>

\* No file is an empty store; one that cannot be read, or does not open with
\* the password, fails the command.
ReadAccounts(p) ==
    /\ command[p].pc = "readAccounts"
    /\ command' = [command EXCEPT ![p] =
          IF prysm.state = "absent"
          THEN [@ EXCEPT !.read = TRUE, !.cache = {}, !.word = Absent, !.pc = "add"]
          ELSE IF prysm.state = "whole" /\ prysm.accounts.word = @.word
          THEN [@ EXCEPT !.read = TRUE, !.cache = prysm.accounts.keys,
                         !.word = Absent, !.pc = "add"]
          ELSE Ended("failed")]
    /\ UNCHANGED <<next, files, past>>

\* A key that the process's copy has is not stored again. The password is read
\* once more, from the disk, where it is as long as no purge runs beside.
Add(p) ==
    /\ command[p].pc = "add"
    /\ IF command[p].key \in command[p].cache
       THEN StoreReturns(p, command[p], past.cut)
       ELSE /\ command' = [command EXCEPT
                  ![p].cache = @ \cup {command[p].key},
                  ![p].word = prysm.word,
                  ![p].pc = "openAccounts"]
            /\ UNCHANGED past
    /\ UNCHANGED <<next, files>>

OpenAccounts(p) ==
    /\ command[p].pc = "openAccounts"
    /\ prysm' = [prysm EXCEPT !.state = "torn", !.accounts = NoAccounts]
    /\ Goto(p, "fillAccounts")
    /\ UNCHANGED <<next, secret, keyfile, past>>

FillAccounts(p) ==
    /\ command[p].pc = "fillAccounts"
    /\ prysm' = [prysm EXCEPT
          !.state = "whole",
          !.accounts = [word |-> command[p].word, keys |-> command[p].cache]]
    /\ command' = [command EXCEPT ![p].word = Absent, ![p].pc = "config"]
    /\ UNCHANGED <<next, secret, keyfile, past>>

StatConfig(p) ==
    /\ command[p].pc = "config"
    /\ IF prysm.config # "absent"
       THEN /\ StoreReturns(p, command[p], past.cut)
            /\ UNCHANGED prysm
       ELSE /\ prysm' = [prysm EXCEPT !.config = "torn"]
            /\ Goto(p, "fillConfig")
            /\ UNCHANGED past
    /\ UNCHANGED <<next, secret, keyfile>>

FillConfig(p) ==
    /\ command[p].pc = "fillConfig"
    /\ prysm' = [prysm EXCEPT !.config = "whole"]
    /\ StoreReturns(p, command[p], past.cut)
    /\ UNCHANGED <<next, secret, keyfile>>

-----------------------------------------------------------------------------
(* The purge deletes the stores one after the other, in the random order of a
   map, and a store's files in the order of its directory. It is alone. *)

BeginPurge(p) ==
    /\ command[p].pc = "new"
    /\ \A q \in Commands : ~Running(q)
    /\ command' = [command EXCEPT ![p].pc = "remove", ![p].left = Clients]
    /\ past' = [past EXCEPT !.promised = {}]
    /\ UNCHANGED <<next, files>>

ChooseStore(p, c) ==
    /\ command[p].pc = "remove"
    /\ command[p].at = NoClient
    /\ c \in command[p].left
    /\ command' = [command EXCEPT ![p].at = c]
    /\ UNCHANGED <<next, files, past>>

RemovePairFile(p) ==
    LET c == command[p].at IN
    /\ command[p].pc = "remove"
    /\ c \in PairClients
    /\ \E k \in Keys :
          \/ /\ secret[c][k] # Absent
             /\ secret' = [secret EXCEPT ![c][k] = Absent]
             /\ UNCHANGED keyfile
          \/ /\ keyfile[c][k] # Absent
             /\ keyfile' = [keyfile EXCEPT ![c][k] = Absent]
             /\ UNCHANGED secret
    /\ UNCHANGED <<next, prysm, command, past>>

RemovePrysmFile(p) ==
    /\ command[p].pc = "remove"
    /\ command[p].at = Prysm
    /\ \/ /\ prysm.word # Absent
          /\ prysm' = [prysm EXCEPT !.word = Absent]
       \/ /\ prysm.state # "absent"
          /\ prysm' = [prysm EXCEPT !.state = "absent", !.accounts = NoAccounts]
       \/ /\ prysm.config # "absent"
          /\ prysm' = [prysm EXCEPT !.config = "absent"]
    /\ UNCHANGED <<next, secret, keyfile, command, past>>

\* No file of the store is left.
Emptied(c) ==
    IF c = Prysm
    THEN prysm = NoPrysm
    ELSE \A k \in Keys : secret[c][k] = Absent /\ keyfile[c][k] = Absent

StoreRemoved(p) ==
    LET c == command[p].at
        rest == command[p].left \ {c}
    IN
    /\ command[p].pc = "remove"
    /\ c # NoClient
    /\ Emptied(c)
    /\ command' = [command EXCEPT ![p] =
          IF rest = {} THEN [NewCommand EXCEPT !.pc = "deleted"]
          ELSE [@ EXCEPT !.at = NoClient, !.left = rest]]
    /\ past' = IF rest = {} THEN Calm ELSE past
    /\ UNCHANGED <<next, files>>

DeleteWallet(p) ==
    /\ command[p].pc = "deleted"
    /\ next' = NoWallet
    /\ command' = [command EXCEPT ![p] = Ended("done")]
    /\ UNCHANGED <<files, past>>

-----------------------------------------------------------------------------
\* The wallet is saved at the end, from memory: by a deposit behind its keys,
\* by a recovery at the last one it found.
SaveWallet(p) ==
    /\ command[p].pc = "stored"
    /\ next' = IF command[p].finds THEN command[p].last ELSE command[p].last + 1
    /\ command' = [command EXCEPT ![p] = Ended("done")]
    /\ UNCHANGED <<files, past>>

\* A command ends between two steps: killed, or a disk that fails.
Kill(p) ==
    LET c == command[p]
        inPrysm == c.pc = "remove" /\ c.at = Prysm /\ prysm.state # "absent"
    IN
    /\ Running(p)
    /\ Cardinality({q \in Commands : command[q].pc = "killed"}) < MaxKills
    /\ command' = [command EXCEPT ![p] = Ended("killed")]
    /\ past' = [past EXCEPT
          !.cut = IF c.pc = "key" THEN @ \cup {<<c.at, c.key>>} ELSE @,
          !.mixed = \/ @
                    \/ c.pc = "fillAccounts"
                    \/ inPrysm /\ prysm.word = Absent,
          !.bare = \/ @
                   \/ c.pc \in {"config", "fillConfig"} /\ prysm.config # "whole"
                   \/ inPrysm /\ prysm.config = "absent"]
    /\ UNCHANGED <<next, files>>

Store(p) ==
    \/ \E last \in Keys : Begin(p, last)
    \/ \E c \in PairClients : WriteSecret(p, c)
    \/ WriteKey(p)
    \/ StartPrysm(p)   \/ OpenWord(p)     \/ FillWord(p)
    \/ ReadWord(p)     \/ ReadAccounts(p) \/ Add(p)
    \/ OpenAccounts(p) \/ FillAccounts(p) \/ StatConfig(p) \/ FillConfig(p)
    \/ SaveWallet(p)

Purge(p) ==
    \/ BeginPurge(p)
    \/ \E c \in Clients : ChooseStore(p, c)
    \/ RemovePairFile(p) \/ RemovePrysmFile(p) \/ StoreRemoved(p)
    \/ DeleteWallet(p)

Next ==
    \/ \E p \in Commands : Store(p) \/ Purge(p) \/ Kill(p)
    \/ InitWallet

Spec == Init /\ [][Next]_vars

-----------------------------------------------------------------------------
PairReadable(c, k) ==
    /\ secret[c][k] # Absent
    /\ keyfile[c][k] = secret[c][k]

\* Prysm's one password opens the store, and the key is in it.
PrysmReadable(k) ==
    /\ prysm.state = "whole"
    /\ prysm.accounts.word = prysm.word
    /\ k \in prysm.accounts.keys

\* A command that reports its keys stored leaves each of them readable by the
\* clients with two files, whatever was cut short before and whichever commands
\* store other keys meanwhile; and, if no other command ran meanwhile, by
\* Prysm, whose configuration is there unless a kill came before it once.
StoredIsReadable ==
    [][\A p \in Commands :
          Active(p) /\ command'[p].pc = "stored" =>
            /\ \A k \in Covered(p) \ command[p].rivals, c \in PairClients :
                  PairReadable(c, k)'
            /\ command[p].rivals = {} =>
                  /\ \A k \in Covered(p) : PrysmReadable(k)'
                  /\ prysm'.config = "whole" \/ past.bare]_vars

\* Keys that were stored stay readable through other commands and their kills:
\* the key of a pair until the pair itself is cut, the keys of Prysm until two
\* commands overlap or one is killed in the middle of the account store.
StoredStaysReadable ==
    (\A p \in Commands : ~Active(p)) =>
       \A k \in past.promised :
          /\ \A c \in PairClients : <<c, k>> \in past.cut \/ PairReadable(c, k)
          /\ past.mixed \/ PrysmReadable(k)

\* A command is refused by the account store only after two commands overlapped
\* or one was killed in the middle of it; a purge that ends repairs it, and a
\* password that a kill left empty does no harm.
RefusalIsExplained ==
    [][\A p \in Commands :
          command[p].pc # "failed" /\ command'[p].pc = "failed" => past.mixed]_vars

=============================================================================
