------------------------ MODULE ValidatorKeysProofs ------------------------
(***************************************************************************)
(* Proofs about ValidatorKeys, for any number of processes, keys,          *)
(* transactions and any order of failures.                                 *)
(***************************************************************************)
EXTENDS ValidatorKeys, TLAPS

(* A process that ends, and one that goes on, stay in known states. *)
LEMMA ExitType ==
    ASSUME TypeOK, NEW p \in Procs, Exit(p)
    PROVE  api' \in [Procs -> ProcState]
BY DEF TypeOK, Exit, IdleProc, Fresh, ProcState, Pcs

LEMMA GotoType ==
    ASSUME TypeOK, NEW p \in Procs, NEW pc \in Pcs, Goto(p, pc)
    PROVE  api' \in [Procs -> ProcState]
BY DEF TypeOK, Goto, ProcState, Pcs

LEMMA AllStoredType ==
    ASSUME TypeOK, NEW p \in Procs, NEW pc \in Pcs, AllStored(p, pc)
    PROVE  /\ api' \in [Procs -> ProcState]
           /\ api' = [api EXCEPT ![p] = [api[p] EXCEPT !.pc = pc, !.read = FALSE,
                                              !.copy = {}, !.shared = FALSE]]
<1>1. api \in [Procs -> ProcState] /\ api[p] \in ProcState
  BY DEF TypeOK
<1> DEFINE s == [api[p] EXCEPT !.pc = pc, !.read = FALSE, !.copy = {},
                               !.shared = FALSE]
<1>2. s \in ProcState
  BY <1>1 DEF ProcState, Pcs
<1>3. api' = [api EXCEPT ![p] = s]
  BY <1>1 DEF AllStored
<1>4. QED
  BY <1>1, <1>2, <1>3

-----------------------------------------------------------------------------
(* A key is stored.                                                        *)

(* What a process is about, but for the key it stores. *)
SameTask(q) ==
    /\ api'[q].n = api[q].n
    /\ api'[q].first = api[q].first
    /\ api'[q].base = api[q].base
    /\ api'[q].behind = api[q].behind
    /\ api'[q].seen = api[q].seen
    /\ api'[q].want = api[q].want

SameButShared(q) ==
    /\ SameTask(q)
    /\ api'[q].pc = api[q].pc
    /\ api'[q].next = api[q].next
    /\ api'[q].found = api[q].found
    /\ api'[q].key = api[q].key
    /\ api'[q].read = api[q].read
    /\ api'[q].copy = api[q].copy

LEMMA AccountsType ==
    ASSUME TypeOK, NEW p \in Procs
    PROVE  AccountsFor(p) \subseteq Nat
BY DEF TypeOK, AccountsFor, ProcState, Keystore, Accounts

(* A process begins to store a key: what becomes of it, of the others and of
   the files. *)
LEMMA BeginFields ==
    ASSUME TypeOK, NEW p \in Procs, NEW k \in Nat, NEW pc \in Pcs,
           NEW next \in Nat, StoreBegins(p, k, pc, next)
    PROVE  /\ api' \in [Procs -> ProcState]
           /\ api'[p].pc = pc /\ api'[p].key = k /\ api'[p].next = next
           /\ api'[p].found = api[p].found /\ SameTask(p)
           /\ api'[p].shared = (api[p].shared \/ \E o \in Procs \ {p} : Active(o))
           /\ \A q \in Procs \ {p} : /\ SameButShared(q)
                                     /\ api'[q].shared = (api[q].shared \/ Active(q))
           /\ api'[p].read =>
                 /\ api'[p].copy = AccountsFor(p)
                 /\ api[p].read \/ ~keystore.prysm.torn
           /\ keystore' \in Keystore
           /\ keystore'.pairs = keystore.pairs \ {k}
           /\ keystore'.prysm = keystore.prysm
<1>1. PICK read \in {api[p].read, TRUE} :
        /\ keystore.prysm.torn => read = api[p].read
        /\ api' = [q \in Procs |->
              IF q = p
              THEN [api[p] EXCEPT !.pc = pc, !.key = k, !.next = next,
                        !.read = read,
                        !.copy = IF read THEN AccountsFor(p) ELSE {},
                        !.shared = @ \/ \E o \in Procs \ {p} : Active(o)]
              ELSE [api[q] EXCEPT !.shared = @ \/ Active(q)]]
  BY DEF StoreBegins
<1>2. api \in [Procs -> ProcState] /\ read \in BOOLEAN /\ keystore \in Keystore
  BY DEF TypeOK, ProcState
<1> DEFINE copy == IF read THEN AccountsFor(p) ELSE {}
           shared == api[p].shared \/ \E o \in Procs \ {p} : Active(o)
           s == [api[p] EXCEPT !.pc = pc, !.key = k, !.next = next,
                     !.read = read, !.copy = copy, !.shared = shared]
<1>3. copy \in SUBSET Nat /\ shared \in BOOLEAN
  BY <1>2, AccountsType DEF ProcState
<1>4. api'[p] = s
  BY <1>1
<1>5. read => copy = AccountsFor(p)
  OBVIOUS
<1>6. shared = (api[p].shared \/ \E o \in Procs \ {p} : Active(o))
  OBVIOUS
<1> HIDE DEF copy, shared
<1>7. /\ s \in ProcState /\ s.pc = pc /\ s.key = k /\ s.next = next
      /\ s.read = read /\ s.copy = copy /\ s.shared = shared
      /\ s.found = api[p].found /\ s.n = api[p].n /\ s.first = api[p].first
      /\ s.base = api[p].base /\ s.behind = api[p].behind
      /\ s.seen = api[p].seen /\ s.want = api[p].want
  BY <1>2, <1>3 DEF ProcState
<1> HIDE DEF s
<1>8. ASSUME NEW q \in Procs \ {p}
      PROVE  /\ api'[q] \in ProcState
             /\ SameButShared(q)
             /\ api'[q].shared = (api[q].shared \/ Active(q))
  <2> DEFINE b == api[q].shared \/ Active(q)
  <2>1. b \in BOOLEAN /\ api[q] \in ProcState
    BY <1>2 DEF ProcState
  <2>2. api'[q] = [api[q] EXCEPT !.shared = b]
    BY <1>1
  <2> HIDE DEF b
  <2>3. api'[q] \in ProcState /\ SameButShared(q) /\ api'[q].shared = b
    BY <2>1, <2>2 DEF ProcState, SameButShared, SameTask
  <2>4. QED
    BY <2>3 DEF b
<1>9. api' \in [Procs -> ProcState]
  <2>1. \A q \in Procs : api'[q] \in ProcState
    BY <1>4, <1>7, <1>8
  <2>2. api' = [q \in Procs |-> api'[q]]
    BY <1>1
  <2>3. QED
    BY <2>1, <2>2
<1>10. /\ keystore' \in Keystore
       /\ keystore'.pairs = keystore.pairs \ {k}
       /\ keystore'.prysm = keystore.prysm
  BY <1>2 DEF StoreBegins, Keystore
<1>11. read => api[p].read \/ ~keystore.prysm.torn
  BY <1>1
<1>12. api'[p].found = api[p].found /\ SameTask(p)
  BY <1>4, <1>7 DEF SameTask
<1>13. api'[p].shared = (api[p].shared \/ \E o \in Procs \ {p} : Active(o))
  BY <1>4, <1>6, <1>7
<1>14. QED
  BY <1>4, <1>5, <1>7, <1>8, <1>9, <1>10, <1>11, <1>12, <1>13

(* It has stored the key. *)
LEMMA EndFields ==
    ASSUME TypeOK, NEW p \in Procs, NEW pc \in Pcs, NEW found \in SUBSET Nat,
           StoreEnds(p, pc, found)
    PROVE  /\ api' \in [Procs -> ProcState]
           /\ api'[p].pc = pc /\ api'[p].found = found
           /\ api'[p].next = api[p].next /\ SameTask(p)
           /\ api'[p].read /\ api'[p].shared = api[p].shared
           /\ api'[p].copy = AccountsFor(p) \cup {api[p].key}
           /\ \A q \in Procs \ {p} : api'[q] = api[q]
           /\ api[p].key \in Nat
           /\ keystore' \in Keystore
           /\ keystore'.pairs \in PairsStored(p)
           /\ keystore'.prysm \in AccountsStored(p)
<1>1. api \in [Procs -> ProcState] /\ api[p] \in ProcState /\ keystore \in Keystore
  BY DEF TypeOK
<1> DEFINE copy == AccountsFor(p) \cup {api[p].key}
           s == [api[p] EXCEPT !.pc = pc, !.found = found, !.key = 0,
                               !.read = TRUE, !.copy = copy]
<1>2. api' = [api EXCEPT ![p] = s]
  BY <1>1 DEF StoreEnds
<1>3. copy \in SUBSET Nat /\ api[p].key \in Nat
  BY <1>1, AccountsType DEF ProcState
<1> HIDE DEF copy
<1>4. /\ s \in ProcState /\ s.pc = pc /\ s.found = found /\ s.next = api[p].next
      /\ s.read = TRUE /\ s.copy = copy /\ s.shared = api[p].shared
      /\ s.n = api[p].n /\ s.first = api[p].first
      /\ s.base = api[p].base /\ s.behind = api[p].behind
      /\ s.seen = api[p].seen /\ s.want = api[p].want
  BY <1>1, <1>3 DEF ProcState, Pcs
<1> HIDE DEF s
<1>5. api'[p] = s /\ (\A q \in Procs \ {p} : api'[q] = api[q])
  BY <1>1, <1>2
<1>6. PICK pairs \in PairsStored(p), prysm \in AccountsStored(p) :
        keystore' = [pairs |-> pairs, prysm |-> prysm]
  BY DEF StoreEnds
<1>7. pairs \subseteq Nat
  BY <1>1, <1>3 DEF PairsStored, Keystore
<1>8. prysm \in Accounts
  <2>1. keystore.prysm \in Accounts /\ TornAccounts \in Accounts
    BY <1>1 DEF Keystore, Accounts, TornAccounts
  <2>2. [keys |-> copy, torn |-> FALSE] \in Accounts
    BY <1>3 DEF Accounts
  <2>3. prysm \in {keystore.prysm, TornAccounts, [keys |-> copy, torn |-> FALSE]}
    BY DEF AccountsStored, copy
  <2>4. QED
    BY <2>1, <2>2, <2>3
<1>9. keystore' \in Keystore /\ keystore'.pairs = pairs /\ keystore'.prysm = prysm
  BY <1>6, <1>7, <1>8 DEF Keystore
<1>10. api' \in [Procs -> ProcState]
  BY <1>1, <1>2, <1>4
<1>11. SameTask(p)
  BY <1>4, <1>5 DEF SameTask
<1>12. QED
  BY <1>3, <1>4, <1>5, <1>6, <1>9, <1>10, <1>11 DEF copy

(* The process that stores it is killed. *)
LEMMA CutFields ==
    ASSUME TypeOK, NEW p \in Procs, InterruptStore(p)
    PROVE  /\ keystore' \in Keystore
           /\ api[p].key \in Nat
           /\ Exit(p)
           /\ damaged' = (damaged \ Readable') \cup Lost(api[p].key)
<1>1. api[p] \in ProcState /\ keystore \in Keystore
  BY DEF TypeOK
<1> DEFINE k == api[p].key
           written == [keys |-> AccountsFor(p) \cup {k}, torn |-> FALSE]
<1>2. k \in Nat
  BY <1>1 DEF ProcState
<1>3. PICK pairs \in {keystore.pairs \ {k}, keystore.pairs \cup {k}},
           prysm \in {keystore.prysm, written, TornAccounts} :
        keystore' = [pairs |-> pairs, prysm |-> prysm]
  BY DEF InterruptStore
<1>4. pairs \subseteq Nat /\ keystore.prysm \in Accounts
  BY <1>1, <1>2 DEF Keystore
<1>5. written \in Accounts /\ TornAccounts \in Accounts
  BY <1>2, AccountsType DEF Accounts, TornAccounts
<1>6. prysm \in Accounts
  BY <1>3, <1>4, <1>5
<1>7. keystore' \in Keystore
  BY <1>3, <1>4, <1>6 DEF Keystore
<1>8. QED
  BY <1>2, <1>7 DEF InterruptStore

(* What a step leaves unreadable is a set of keys. *)
LEMMA LostType ==
    ASSUME TypeOK, NEW k \in Nat
    PROVE  Lost(k) \subseteq Nat /\ damaged \ Readable' \subseteq Nat
BY DEF TypeOK, Lost, Readable, Keystore

-----------------------------------------------------------------------------
(* The variables always have the types of the Go fields they stand for: every
   counter stays a natural number and every process in a known state. *)
THEOREM TypeCorrect == Spec => []TypeOK
<1>1. Init => TypeOK
  BY DEF Init, TypeOK, IdleProc, Fresh, ProcState, Pcs, EmptyKeystore, Keystore,
         Accounts
<1>2. TypeOK /\ [Next]_vars => TypeOK'
  <2> SUFFICES ASSUME TypeOK, [Next]_vars
               PROVE TypeOK'
    OBVIOUS
  <2> USE BoundsAssumption DEF TypeOK, ProcState, Pcs, Indices
  <2>1. ASSUME NEW p \in Procs, StartCommand(p)
        PROVE TypeOK'
    <3>1. \A n \in 1 .. MaxBatch : CanNodeDeposit(p, n) => TypeOK'
      BY DEF CanNodeDeposit, IdleProc, Fresh, diskVars, chainVars, ghostVars
    <3>2. RecoverWallet(p) => TypeOK'
      BY DEF RecoverWallet, IdleProc, Fresh, diskVars, chainVars, ghostVars,
             RegisteredKeys, Registration
    <3>3. RecoverSkippingKeys(p) => TypeOK'
      BY DEF RecoverSkippingKeys, IdleProc, Fresh, diskVars, chainVars, ghostVars
    <3>4. SearchAndRecoverWallet(p) => TypeOK'
      BY DEF SearchAndRecoverWallet, IdleProc, Fresh, diskVars, chainVars, ghostVars,
             RegisteredKeys, Registration
    <3>5. QED
      BY <2>1, <3>1, <3>2, <3>3, <3>4 DEF StartCommand
  <2>2. ASSUME NEW p \in Procs, DepositStep(p)
        PROVE TypeOK'
    <3>1. LoadWallet(p) => TypeOK'
      <4>1. ASSUME LoadWallet(p), wallet.exists
            PROVE api' \in [Procs -> ProcState]
        BY <4>1 DEF LoadWallet
      <4>2. LoadWallet(p) => api' \in [Procs -> ProcState]
        BY <4>1, ExitType DEF LoadWallet
      <4>3. QED
        BY <4>2 DEF LoadWallet, diskVars, chainVars, ghostVars
    <3>2. ReadKeyCount(p) => TypeOK'
      <4>1. {tx.nonce : tx \in mempool} \in SUBSET Nat
        BY DEF Tx
      <4>2. ASSUME NEW B \in SUBSET Nat,
                   api' = [api EXCEPT ![p].pc = "create",
                                      ![p].base = keyCount,
                                      ![p].behind = B]
            PROVE api' \in [Procs -> ProcState]
        <5>1. api[p] \in ProcState
          BY DEF TypeOK
        <5>2. [api[p] EXCEPT !.pc = "create", !.base = keyCount, !.behind = B]
                \in ProcState
          BY <5>1
        <5>3. QED
          BY <4>2, <5>2 
      <4>. HIDE DEF TypeOK, ProcState
      <4>3. ReadKeyCount(p) => api' \in [Procs -> ProcState]
        BY <4>1, <4>2 DEF ReadKeyCount
      <4>4. QED
        BY <4>3 DEF ReadKeyCount, TypeOK, diskVars, chainVars, ghostVars
    <3>3. CreateValidatorKey(p) => TypeOK'
      <4>1. api[p].next \in Nat /\ api[p].next + 1 \in Nat
        OBVIOUS
      <4>2. CreateValidatorKey(p) =>
              /\ api' \in [Procs -> ProcState] /\ keystore' \in Keystore
              /\ UNCHANGED <<wallet, chainVars, ghostVars>>
        <5> HIDE DEF TypeOK, ProcState
        <5>1. "storeNew" \in Pcs
          OBVIOUS
        <5>2. QED
          BY <4>1, <5>1, BeginFields DEF CreateValidatorKey
      <4>3. QED
        BY <4>2 DEF chainVars, ghostVars
    <3>10. ValidatorKeyCreated(p) => TypeOK'
      <4> SUFFICES ASSUME ValidatorKeyCreated(p)
                   PROVE  TypeOK'
        OBVIOUS
      <4>1. api[p].found \in SUBSET Nat
        OBVIOUS
      <4>2. /\ api' \in [Procs -> ProcState] /\ keystore' \in Keystore
            /\ api[p].key \in Nat
            /\ UNCHANGED <<wallet, chainVars, unsaved, restored, forgotten>>
        <5> HIDE DEF TypeOK, ProcState
        <5>1. "check" \in Pcs
          OBVIOUS
        <5>2. QED
          BY <4>1, <5>1, EndFields DEF ValidatorKeyCreated
      <4>3. damaged' \subseteq Nat /\ purged' \subseteq Nat
        BY <4>2, LostType DEF ValidatorKeyCreated, StoreEnds
      <4>4. QED
        BY <4>2, <4>3 DEF chainVars
    <3>4. CheckBeaconStatus(p) => TypeOK'
      <4>1. CheckBeaconStatus(p) => api' \in [Procs -> ProcState]
        BY ExitType, GotoType, AllStoredType DEF CheckBeaconStatus
      <4>2. QED
        BY <4>1 DEF CheckBeaconStatus, diskVars, chainVars, ghostVars
    <3>5. ReloadKeys(p) => TypeOK'
      <4>1. ReloadKeys(p) => api' \in [Procs -> ProcState]
        BY ExitType, GotoType DEF ReloadKeys
      <4>2. QED
        BY <4>1 DEF ReloadKeys, diskVars, chainVars, ghostVars
    <3>6. AddValidatorKeys(p) => TypeOK'
      BY DEF AddValidatorKeys, NonceAllowed, Goto, Tx, diskVars
    <3>7. SaveWallet(p) => TypeOK'
      BY DEF SaveWallet, Goto, chainVars
    <3>8. WaitForTransaction(p) => TypeOK'
      BY DEF WaitForTransaction, Exit, IdleProc, Fresh, diskVars, chainVars, ghostVars
    <3>9. QED
      BY <2>2, <3>1, <3>2, <3>3, <3>4, <3>5, <3>6, <3>7, <3>8, <3>10
         DEF DepositStep
  <2>3. ASSUME NEW p \in Procs, RecoverStep(p)
        PROVE TypeOK'
    <3>1. SaveValidatorKey(p) => TypeOK'
      <4>1. \A k \in api[p].want : k \in Nat /\ NextAfterRecovery(api[p].next, k) \in Nat
        BY DEF NextAfterRecovery
      <4>2. SaveValidatorKey(p) =>
              /\ api' \in [Procs -> ProcState] /\ keystore' \in Keystore
              /\ UNCHANGED <<wallet, chainVars, ghostVars>>
        <5> HIDE DEF TypeOK, ProcState
        <5>1. "storeFound" \in Pcs
          OBVIOUS
        <5>2. QED
          BY <4>1, <5>1, BeginFields DEF SaveValidatorKey
      <4>3. QED
        BY <4>2 DEF chainVars, ghostVars
    <3>7. ValidatorKeySaved(p) => TypeOK'
      <4> SUFFICES ASSUME ValidatorKeySaved(p)
                   PROVE  TypeOK'
        OBVIOUS
      <4>1. api[p].found \cup {api[p].key} \in SUBSET Nat
        OBVIOUS
      <4>2. /\ api' \in [Procs -> ProcState] /\ keystore' \in Keystore
            /\ api[p].key \in Nat
            /\ UNCHANGED <<wallet, chainVars, unsaved, restored, forgotten>>
        <5> HIDE DEF TypeOK, ProcState
        <5>1. "scan" \in Pcs
          OBVIOUS
        <5>2. QED
          BY <4>1, <5>1, EndFields DEF ValidatorKeySaved
      <4>3. damaged' \subseteq Nat /\ purged' \subseteq Nat
        BY <4>2, LostType DEF ValidatorKeySaved, StoreEnds
      <4>4. QED
        BY <4>2, <4>3 DEF chainVars
    <3>2. AllKeysRecovered(p) => TypeOK'
      <4>1. AllKeysRecovered(p) => api' \in [Procs -> ProcState]
        BY AllStoredType DEF AllKeysRecovered
      <4>2. QED
        BY <4>1 DEF AllKeysRecovered, diskVars, chainVars, ghostVars
    <3>3. AttemptLimitExceeded(p) => TypeOK'
      BY DEF AttemptLimitExceeded, Exit, IdleProc, Fresh, diskVars, chainVars,
             ghostVars
    <3>4. SaveRecoveredWallet(p) => TypeOK'
      BY DEF SaveRecoveredWallet, Goto, chainVars, SubmittedKeys, PendingKeys,
             RegisteredKeys, TxKeys, Tx, Registration
    <3>5. ReportRecovery(p) => TypeOK'
      BY DEF ReportRecovery, Exit, IdleProc, Fresh, diskVars, chainVars, ghostVars
    <3>6. QED
      BY <2>3, <3>1, <3>2, <3>3, <3>4, <3>5, <3>7 DEF RecoverStep
  <2>4. ASSUME NEW p \in Procs, Interrupt(p)
        PROVE TypeOK'
    BY <2>4 DEF Interrupt, Exit, IdleProc, Fresh, diskVars, chainVars, ghostVars
  <2>11. ASSUME NEW p \in Procs, InterruptStore(p)
         PROVE TypeOK'
    <3>1. /\ keystore' \in Keystore /\ Exit(p) /\ api[p].key \in Nat
          /\ damaged' = (damaged \ Readable') \cup Lost(api[p].key)
      BY <2>11, CutFields
    <3>2. damaged' \subseteq Nat
      BY <3>1, LostType
    <3>3. api' \in [Procs -> ProcState]
      BY <3>1, ExitType
    <3>4. QED
      BY <2>11, <3>1, <3>2, <3>3 DEF InterruptStore, chainVars
  <2>5. CASE Purge
    <3>1. EmptyKeystore \in Keystore
      BY DEF EmptyKeystore, Keystore, Accounts
    <3>2. keystore.pairs \cup keystore.prysm.keys \cup damaged \subseteq Nat
      BY DEF Keystore, Accounts
    <3>3. QED
      BY <2>5, <3>1, <3>2 DEF Purge, chainVars
  <2>6. CASE MineTx
    BY <2>6 DEF MineTx, TxKeys, Tx, Registration, diskVars, ghostVars
  <2>7. CASE ProcessPreDeposit
    BY <2>7 DEF ProcessPreDeposit, Registration, diskVars, ghostVars
  <2>8. CASE ActivateElsewhere
    BY <2>8 DEF ActivateElsewhere, diskVars, ghostVars
  <2>9. CASE UNCHANGED vars
    BY <2>9 DEF vars, diskVars, chainVars, ghostVars
  <2>10. QED
    BY <2>1, <2>2, <2>3, <2>4, <2>5, <2>6, <2>7, <2>8, <2>9, <2>11
       DEF Next, ChainStep
<1>3. QED
  BY <1>1, <1>2, PTL DEF Spec

-----------------------------------------------------------------------------
(* What becomes of the keys in the keystores.                              *)

StoringPcs == {"storeNew", "storeFound"}

(* A step that stores no key: no process begins or ends to, and no copy of the
   accounts changes, though it may be given up. *)
QuietOf(q) ==
    /\ Storing(q)' = Storing(q)
    /\ Storing(q) => api'[q].key = api[q].key
    /\ api'[q].read => api[q].read /\ api'[q].copy = api[q].copy
    /\ Active(q)' => Active(q) /\ api'[q].shared = api[q].shared
    /\ api'[q].pc = "idle" /\ api'[q].read => api[q].pc = "idle"

Quiet ==
    /\ keystore' = keystore /\ damaged' = damaged
    /\ \A q \in Procs : QuietOf(q)

LEMMA QuietStep ==
    ASSUME TypeOK, NEW p \in Procs, NEW s, api' = [api EXCEPT ![p] = s],
           s.pc \notin StoringPcs, ~Storing(p),
           s.read => /\ api[p].read /\ s.copy = api[p].copy
                     /\ s.shared = api[p].shared
                     /\ s.pc # "idle",
           keystore' = keystore, damaged' = damaged
    PROVE  Quiet
<1>1. api'[p] = s /\ \A q \in Procs \ {p} : api'[q] = api[q]
  BY DEF TypeOK
<1>2. QuietOf(p)
  BY <1>1 DEF QuietOf, Storing, Active, StoringPcs
<1>3. \A q \in Procs \ {p} : QuietOf(q)
  BY <1>1 DEF QuietOf, Storing, Active
<1>4. QED
  BY <1>2, <1>3 DEF Quiet

LEMMA QuietExit ==
    ASSUME TypeOK, NEW p \in Procs, Exit(p), ~Storing(p),
           keystore' = keystore, damaged' = damaged
    PROVE  Quiet
BY QuietStep DEF Exit, IdleProc, Fresh, StoringPcs

LEMMA QuietGoto ==
    ASSUME TypeOK, NEW p \in Procs, NEW pc \in Pcs \ StoringPcs, Goto(p, pc),
           pc # "idle", ~Storing(p), keystore' = keystore, damaged' = damaged
    PROVE  Quiet
<1> DEFINE s == [api[p] EXCEPT !.pc = pc]
<1>1. api[p] \in ProcState
  BY DEF TypeOK
<1>2. /\ s.pc = pc /\ s.read = api[p].read /\ s.copy = api[p].copy
      /\ s.shared = api[p].shared
  BY <1>1 DEF ProcState
<1>3. api' = [api EXCEPT ![p] = s]
  BY DEF Goto, TypeOK
<1> HIDE DEF s
<1>4. QED
  BY <1>2, <1>3, QuietStep

LEMMA QuietAllStored ==
    ASSUME TypeOK, NEW p \in Procs, NEW pc \in Pcs \ StoringPcs, AllStored(p, pc),
           ~Storing(p), keystore' = keystore, damaged' = damaged
    PROVE  Quiet
<1> DEFINE s == [api[p] EXCEPT !.pc = pc, !.read = FALSE, !.copy = {},
                               !.shared = FALSE]
<1>1. api[p] \in ProcState
  BY DEF TypeOK
<1>2. s.pc = pc /\ s.read = FALSE
  BY <1>1 DEF ProcState
<1>3. api' = [api EXCEPT ![p] = s]
  BY AllStoredType
<1> HIDE DEF s
<1>4. QED
  BY <1>2, <1>3, QuietStep

(* A key is begun to be stored, is stored, or neither. *)
BeginsKey ==
    /\ \E p \in Procs, k \in Nat, pc \in StoringPcs, next \in Nat :
          StoreBegins(p, k, pc, next) /\ ~Storing(p)
    /\ damaged' = damaged

EndsKey ==
    \E p \in Procs, pc \in Pcs \ StoringPcs, found \in SUBSET Nat :
        StoreEnds(p, pc, found) /\ Storing(p) /\ pc # "idle"

LEMMA StepKinds ==
    ASSUME TypeOK, [Next]_vars
    PROVE  Quiet \/ BeginsKey \/ EndsKey \/ Purge \/ \E p \in Procs : InterruptStore(p)
<1> USE DEF diskVars, chainVars, ghostVars
<1>0. \A p \in Procs : api[p] \in ProcState
  BY DEF TypeOK
<1>1. ASSUME NEW p \in Procs, StartCommand(p)
      PROVE  Quiet
  <2>1. ASSUME NEW pc \in Pcs \ StoringPcs, NEW n, NEW want,
               api' = [api EXCEPT ![p] = Fresh(pc, n, want)], ~Storing(p),
               keystore' = keystore, damaged' = damaged
        PROVE  Quiet
    <3> DEFINE s == Fresh(pc, n, want)
    <3>1. s.pc = pc /\ s.read = FALSE
      BY DEF Fresh
    <3>2. api' = [api EXCEPT ![p] = s]
      BY <2>1
    <3> HIDE DEF s
    <3>3. QED
      BY <2>1, <3>1, <3>2, QuietStep
  <2>2. QED
    BY <1>1, <2>1
       DEF StartCommand, CanNodeDeposit, RecoverWallet, RecoverSkippingKeys,
           SearchAndRecoverWallet, Pcs, StoringPcs, Storing
<1>2. ASSUME NEW p \in Procs, LoadWallet(p), wallet.exists
      PROVE  Quiet
  <2> DEFINE s == [api[p] EXCEPT !.pc = "count", !.first = wallet.next,
                                 !.next = wallet.next, !.seen = beacon]
  <2>1. /\ s.pc = "count" /\ s.read = api[p].read /\ s.copy = api[p].copy
        /\ s.shared = api[p].shared /\ api' = [api EXCEPT ![p] = s]
    BY <1>0, <1>2 DEF LoadWallet, TypeOK, ProcState
  <2> HIDE DEF s
  <2>2. QED
    BY <1>2, <2>1, QuietStep DEF LoadWallet, StoringPcs, Storing
<1>3. ASSUME NEW p \in Procs, ReadKeyCount(p)
      PROVE  Quiet
  <2> DEFINE behind == {tx.nonce : tx \in mempool}
             s == [api[p] EXCEPT !.pc = "create", !.base = keyCount,
                                 !.behind = behind]
  <2>0. api' = [api EXCEPT ![p].pc = "create", ![p].base = keyCount,
                           ![p].behind = behind]
    BY <1>3 DEF ReadKeyCount
  <2> HIDE DEF behind
  <2>3. api' = [api EXCEPT ![p] = s]
    BY <2>0 DEF TypeOK
  <2>1. /\ s.pc = "create" /\ s.read = api[p].read /\ s.copy = api[p].copy
        /\ s.shared = api[p].shared /\ api' = [api EXCEPT ![p] = s]
    BY <1>0, <2>3 DEF ProcState
  <2> HIDE DEF s
  <2>2. QED
    BY <1>3, <2>1, QuietStep DEF ReadKeyCount, StoringPcs, Storing
<1>4. ASSUME NEW p \in Procs, CreateValidatorKey(p)
      PROVE  BeginsKey
  <2>1. /\ StoreBegins(p, api[p].next, "storeNew", api[p].next + 1)
        /\ ~Storing(p) /\ damaged' = damaged
    BY <1>4 DEF CreateValidatorKey, Storing
  <2>2. api[p].next \in Nat /\ api[p].next + 1 \in Nat /\ "storeNew" \in StoringPcs
    BY <1>0 DEF ProcState, StoringPcs
  <2>3. QED
    BY <2>1, <2>2 DEF BeginsKey
<1>5. ASSUME NEW p \in Procs, SaveValidatorKey(p)
      PROVE  BeginsKey
  <2>1. PICK k \in api[p].want :
          StoreBegins(p, k, "storeFound", NextAfterRecovery(api[p].next, k))
    BY <1>5 DEF SaveValidatorKey
  <2>2. k \in Nat /\ NextAfterRecovery(api[p].next, k) \in Nat
    BY <1>0 DEF ProcState, NextAfterRecovery
  <2>3. ~Storing(p) /\ damaged' = damaged /\ "storeFound" \in StoringPcs
    BY <1>5 DEF SaveValidatorKey, Storing, StoringPcs
  <2>4. QED
    BY <2>1, <2>2, <2>3 DEF BeginsKey
<1>6. ASSUME NEW p \in Procs, ValidatorKeyCreated(p) \/ ValidatorKeySaved(p)
      PROVE  EndsKey
  <2>1. api[p].found \in SUBSET Nat /\ api[p].found \cup {api[p].key} \in SUBSET Nat
    BY <1>0 DEF ProcState
  <2>2. {"check", "scan"} \subseteq Pcs \ StoringPcs
    BY DEF Pcs, StoringPcs
  <2>3. Storing(p) /\ \/ StoreEnds(p, "check", api[p].found)
                      \/ StoreEnds(p, "scan", api[p].found \cup {api[p].key})
    BY <1>6 DEF ValidatorKeyCreated, ValidatorKeySaved, Storing
  <2>4. QED
    BY <2>1, <2>2, <2>3 DEF EndsKey
<1>7. ASSUME NEW p \in Procs, CheckBeaconStatus(p)
      PROVE  Quiet
  BY <1>7, QuietExit, QuietGoto, QuietAllStored
     DEF CheckBeaconStatus, Storing, Pcs, StoringPcs
<1>8. ASSUME NEW p \in Procs, DepositStep(p)
      PROVE  Quiet \/ BeginsKey \/ EndsKey
  BY <1>2, <1>3, <1>4, <1>6, <1>7, <1>8, QuietExit, QuietGoto
     DEF DepositStep, LoadWallet, ReloadKeys, AddValidatorKeys, SaveWallet,
         WaitForTransaction, Storing, Pcs, StoringPcs
<1>9. ASSUME NEW p \in Procs, RecoverStep(p)
      PROVE  Quiet \/ BeginsKey \/ EndsKey
  BY <1>5, <1>6, <1>9, QuietExit, QuietGoto, QuietAllStored
     DEF RecoverStep, AllKeysRecovered, AttemptLimitExceeded, SaveRecoveredWallet,
         ReportRecovery, Storing, Pcs, StoringPcs
<1>10. ASSUME NEW p \in Procs, Interrupt(p)
       PROVE  Quiet
  BY <1>10, QuietExit DEF Interrupt
<1>11. ASSUME ChainStep \/ UNCHANGED vars
       PROVE  Quiet
  <2>1. UNCHANGED <<api, keystore, damaged>>
    BY <1>11 DEF ChainStep, MineTx, ProcessPreDeposit, ActivateElsewhere, vars
  <2>2. QED
    BY <2>1 DEF Quiet, QuietOf, Storing, Active
<1>12. QED
  BY <1>1, <1>8, <1>9, <1>10, <1>11 DEF Next

-----------------------------------------------------------------------------
(* The keys that every client can load, that are being stored, or that came to
   harm. *)
Kept == Readable \cup BeingStored \cup damaged

(* Of two processes that may store keys each knows of the other, and one that is
   alone has in memory what is on the disk. *)
AloneInv ==
    /\ \A p, q \in Procs : p # q /\ Active(p) /\ Active(q) => api[p].shared
    /\ \A p \in Procs : api[p].read /\ ~api[p].shared =>
          /\ api[p].copy = keystore.prysm.keys
          /\ ~keystore.prysm.torn
    /\ \A p \in Procs : api[p].pc = "idle" => ~api[p].read

LEMMA AloneAccounts ==
    ASSUME AloneInv, NEW p \in Procs, ~api[p].shared
    PROVE  AccountsFor(p) = keystore.prysm.keys
BY DEF AloneInv, AccountsFor

LEMMA BeingStoredIs ==
    \A k : k \in BeingStored <=> \E p \in Procs : Storing(p) /\ api[p].key = k
BY DEF BeingStored

(* The files of a key that a process begins to store. *)
LEMMA KeptBegin ==
    ASSUME TypeOK, BeginsKey
    PROVE  Kept \subseteq Kept'
<1>1. PICK p \in Procs, k \in Nat, pc \in StoringPcs, next \in Nat :
        StoreBegins(p, k, pc, next) /\ ~Storing(p)
  BY DEF BeginsKey
<1>2. pc \in Pcs
  BY DEF StoringPcs, Pcs
<1>3. /\ api'[p].pc = pc /\ api'[p].key = k
      /\ \A q \in Procs \ {p} : api'[q].pc = api[q].pc /\ api'[q].key = api[q].key
      /\ keystore'.pairs = keystore.pairs \ {k}
      /\ keystore'.prysm = keystore.prysm
  BY <1>1, <1>2, BeginFields DEF SameButShared
<1>4. Storing(p)' /\ \A q \in Procs : Storing(q) => Storing(q)' /\ q # p
  BY <1>1, <1>3 DEF Storing, StoringPcs
<1>5. k \in BeingStored' /\ BeingStored \subseteq BeingStored'
  BY <1>3, <1>4 DEF BeingStored
<1>6. Readable \subseteq Readable' \cup {k}
  BY <1>3 DEF Readable
<1>7. damaged' = damaged
  BY DEF BeginsKey
<1>8. QED
  BY <1>5, <1>6, <1>7 DEF Kept

(* Those of a key that it has stored. *)
LEMMA KeptEnd ==
    ASSUME TypeOK, AloneInv, NEW p \in Procs, NEW pc \in Pcs \ StoringPcs,
           NEW found \in SUBSET Nat, StoreEnds(p, pc, found), Storing(p)
    PROVE  Kept \subseteq Kept'
<1> DEFINE k == api[p].key
<1>1. /\ \A q \in Procs \ {p} : api'[q] = api[q]
      /\ keystore'.pairs \in PairsStored(p)
      /\ keystore'.prysm \in AccountsStored(p)
  BY EndFields
<1>2. BeingStored \subseteq BeingStored' \cup {k}
  BY <1>1 DEF BeingStored, Storing
<1>3. damaged \subseteq damaged' \cup Readable'
  BY DEF StoreEnds
<1>4. Readable \cup {k} \subseteq damaged' \cup Readable'
  <2>1. CASE api[p].shared
    BY <2>1 DEF StoreEnds, Lost
  <2>2. CASE ~api[p].shared
    <3>1. keystore'.pairs = keystore.pairs \cup {k}
      BY <1>1, <2>2 DEF PairsStored
    <3>2. AccountsFor(p) = keystore.prysm.keys
      BY <2>2, AloneAccounts
    <3>3. keystore'.prysm.keys = keystore.prysm.keys \cup {k}
      BY <1>1, <2>2, <3>2 DEF AccountsStored
    <3>4. QED
      BY <3>1, <3>3 DEF Readable
  <2>3. QED
    BY <2>1, <2>2
<1>5. QED
  BY <1>2, <1>3, <1>4 DEF Kept

(* No step but a purge takes a key away: it is damaged by a kill or by another
   process at the worst, and then known to be. *)
LEMMA KeptGrows ==
    ASSUME TypeOK, AloneInv, [Next]_vars, ~Purge
    PROVE  Kept \subseteq Kept'
<1>1. CASE Quiet
  <2>1. Readable' = Readable /\ damaged' = damaged
    BY <1>1 DEF Quiet, Readable
  <2>2. BeingStored \subseteq BeingStored'
    BY <1>1 DEF Quiet, QuietOf, BeingStored
  <2>3. QED
    BY <2>1, <2>2 DEF Kept
<1>2. CASE BeginsKey
  BY <1>2, KeptBegin
<1>3. CASE EndsKey
  BY <1>3, KeptEnd DEF EndsKey
<1>4. ASSUME NEW p \in Procs, InterruptStore(p)
      PROVE  Kept \subseteq Kept'
  <2>1. /\ \A q \in Procs \ {p} : api'[q] = api[q]
        /\ damaged' = (damaged \ Readable') \cup Lost(api[p].key)
    BY <1>4, CutFields DEF Exit, TypeOK
  <2>2. BeingStored \subseteq BeingStored' \cup {api[p].key}
    BY <2>1 DEF BeingStored, Storing
  <2>3. QED
    BY <2>1, <2>2 DEF Kept, Lost
<1>5. QED
  BY <1>1, <1>2, <1>3, <1>4, StepKinds

LEMMA AloneInvBegin ==
    ASSUME TypeOK, AloneInv, BeginsKey
    PROVE  AloneInv'
<1>1. PICK p \in Procs, k \in Nat, pc \in StoringPcs, next \in Nat :
        StoreBegins(p, k, pc, next) /\ ~Storing(p)
  BY DEF BeginsKey
<1>2. pc \in Pcs
  BY DEF StoringPcs, Pcs
<1>3. /\ api'[p].shared = (api[p].shared \/ \E o \in Procs \ {p} : Active(o))
      /\ \A q \in Procs \ {p} : /\ SameButShared(q)
                                /\ api'[q].shared = (api[q].shared \/ Active(q))
      /\ api'[p].read =>
            /\ api'[p].copy = AccountsFor(p)
            /\ api[p].read \/ ~keystore.prysm.torn
      /\ keystore'.prysm = keystore.prysm
  BY <1>1, <1>2, BeginFields
<1>4. \A q \in Procs \ {p} : Active(q)' <=> Active(q)
  BY <1>3 DEF Active, Storing, SameButShared
<1>5. ASSUME NEW q \in Procs, NEW o \in Procs, q # o, Active(q)', Active(o)'
      PROVE  api'[q].shared
  BY <1>3, <1>4, <1>5
<1>6. ASSUME NEW q \in Procs, api'[q].read, ~api'[q].shared
      PROVE  api'[q].copy = keystore'.prysm.keys /\ ~keystore'.prysm.torn
  <2>1. CASE q = p
    <3>1. ~api[p].shared
      BY <1>3, <1>6, <2>1
    <3>2. QED
      BY <1>3, <1>6, <2>1, <3>1, AloneAccounts DEF AloneInv
  <2>2. CASE q # p
    BY <1>3, <1>6, <2>2 DEF SameButShared, Active
  <2>3. QED
    BY <2>1, <2>2
<1>7. ASSUME NEW q \in Procs, api'[q].pc = "idle"
      PROVE  ~api'[q].read
  BY <1>2, <1>3, <1>7, <1>1, BeginFields DEF AloneInv, SameButShared, StoringPcs
<1>8. QED
  BY <1>5, <1>6, <1>7 DEF AloneInv

LEMMA AloneInvEnd ==
    ASSUME TypeOK, AloneInv, NEW p \in Procs, NEW pc \in Pcs \ StoringPcs,
           NEW found \in SUBSET Nat, StoreEnds(p, pc, found), Storing(p),
           pc # "idle"
    PROVE  AloneInv'
<1>1. /\ api'[p].shared = api[p].shared
      /\ api'[p].copy = AccountsFor(p) \cup {api[p].key}
      /\ \A q \in Procs \ {p} : api'[q] = api[q]
      /\ keystore'.prysm \in AccountsStored(p)
      /\ api[p].read \/ ~keystore.prysm.torn
  BY EndFields DEF StoreEnds
<1>2. Active(p) /\ \A q \in Procs \ {p} : Active(q)' <=> Active(q)
  BY <1>1 DEF Active, Storing
<1>3. ASSUME NEW q \in Procs, NEW o \in Procs, q # o, Active(q)', Active(o)'
      PROVE  api'[q].shared
  <2>1. Active(q) /\ Active(o)
    BY <1>2, <1>3
  <2>2. QED
    BY <1>1, <1>3, <2>1 DEF AloneInv
<1>4. ASSUME NEW q \in Procs, api'[q].read, ~api'[q].shared
      PROVE  api'[q].copy = keystore'.prysm.keys /\ ~keystore'.prysm.torn
  <2>1. CASE q # p
    <3>1. Active(q) /\ ~api[q].shared
      BY <1>1, <1>4, <2>1 DEF Active
    <3>2. QED
      BY <1>2, <2>1, <3>1 DEF AloneInv
  <2>2. CASE q = p
    <3>1. ~api[p].shared
      BY <1>1, <1>4, <2>2
    <3>2. AccountsFor(p) = keystore.prysm.keys /\ ~keystore.prysm.torn
      BY <1>1, <3>1, AloneAccounts DEF AloneInv
    <3>3. /\ keystore'.prysm.keys = keystore.prysm.keys \cup {api[p].key}
          /\ ~keystore'.prysm.torn
      BY <1>1, <3>1, <3>2 DEF AccountsStored
    <3>4. QED
      BY <1>1, <2>2, <3>2, <3>3
  <2>3. QED
    BY <2>1, <2>2
<1>5. ASSUME NEW q \in Procs, api'[q].pc = "idle"
      PROVE  ~api'[q].read
  BY <1>1, <1>5, EndFields DEF AloneInv
<1>6. QED
  BY <1>3, <1>4, <1>5 DEF AloneInv

LEMMA AloneInvNext == TypeOK /\ AloneInv /\ [Next]_vars => AloneInv'
<1> SUFFICES ASSUME TypeOK, AloneInv, [Next]_vars
             PROVE  AloneInv'
  OBVIOUS
<1>1. CASE Quiet
  BY <1>1 DEF Quiet, QuietOf, AloneInv, Active
<1>2. CASE BeginsKey
  BY <1>2, AloneInvBegin
<1>3. CASE EndsKey
  BY <1>3, AloneInvEnd DEF EndsKey
<1>4. ASSUME NEW p \in Procs, InterruptStore(p)
      PROVE  AloneInv'
  <2>1. /\ \A q \in Procs \ {p} : api'[q] = api[q]
        /\ ~Active(p)' /\ Active(p)
    BY <1>4, CutFields
       DEF Exit, TypeOK, IdleProc, Fresh, Active, Storing, InterruptStore
  <2>2. \A q \in Procs : Active(q)' => q # p /\ Active(q) /\ api[q].shared
    BY <2>1 DEF AloneInv, Active, Storing
  <2>3. \A q \in Procs : api'[q].read => Active(q)'
    BY DEF Active
  <2>4. \A q \in Procs : api'[q].pc = "idle" => ~api'[q].read
    BY <2>1 DEF AloneInv, Active
  <2>5. QED
    BY <2>1, <2>2, <2>3, <2>4 DEF AloneInv
<1>5. CASE Purge
  <2>1. \A p \in Procs : api[p].pc = "idle" /\ api'[p] = api[p]
    BY <1>5 DEF Purge
  <2>2. QED
    BY <2>1 DEF AloneInv, Active, Storing
<1>6. QED
  BY <1>1, <1>2, <1>3, <1>4, <1>5, StepKinds

LEMMA AloneInvariant == Spec => []AloneInv
<1>1. Init => AloneInv
  <2>1. ASSUME Init, NEW p \in Procs
        PROVE  api[p].pc = "idle" /\ ~api[p].read
    BY <2>1 DEF Init, IdleProc, Fresh
  <2>2. QED
    BY <2>1 DEF AloneInv, Active, Storing
<1>2. QED
  BY <1>1, AloneInvNext, TypeCorrect, PTL DEF Spec

-----------------------------------------------------------------------------
(* The keys of a deposit, from their creation to the transaction.          *)

Created(p) == api[p].first .. api[p].next - 1

DepositPcs == {"count", "create", "storeNew", "check", "reload", "send", "save"}

\* What a deposit has established at each of its steps: the keys it created are
\* in the keystores, or came to harm there, and those it checked were no
\* validators when it started.
DepositInvOf(p) ==
    /\ api[p].pc \in DepositPcs =>
        /\ api[p].seen \subseteq beacon
        /\ api[p].first <= api[p].next
        /\ Created(p) \subseteq Kept
    /\ api[p].pc = "count" => api[p].first = api[p].next
    /\ api[p].pc = "create" => Created(p) \cap api[p].seen = {}
    /\ api[p].pc \in {"storeNew", "check"} =>
        /\ api[p].first < api[p].next
        /\ (Created(p) \ {api[p].next - 1}) \cap api[p].seen = {}
    /\ api[p].pc \in {"reload", "send", "save"} =>
        /\ api[p].next = api[p].first + api[p].n
        /\ Created(p) \cap api[p].seen = {}

DepositInv == \A p \in Procs : DepositInvOf(p)

(* A process keeps its part of the invariant while another one moves, as long
   as no keystore is deleted. *)
LEMMA DepositInvFrame ==
    ASSUME NEW q \in Procs, DepositInvOf(q), SameButShared(q),
           Kept \subseteq Kept', beacon \subseteq beacon'
    PROVE  DepositInvOf(q)'
<1>1. /\ api'[q].pc = api[q].pc /\ api'[q].first = api[q].first
      /\ api'[q].next = api[q].next /\ api'[q].seen = api[q].seen
      /\ api'[q].n = api[q].n
  BY DEF SameButShared, SameTask
<1>2. Created(q)' = Created(q)
  BY <1>1 DEF Created
<1>3. QED
  BY <1>1, <1>2 DEF DepositInvOf, DepositPcs

LEMMA Unmoved ==
    ASSUME NEW q \in Procs, api'[q] = api[q]
    PROVE  SameButShared(q)
BY DEF SameButShared, SameTask

(* A process outside the deposit has nothing to keep. *)
OutsidePcs == {"idle", "load", "wait", "scan", "storeFound", "store", "done"}

LEMMA DepositInvOutside ==
    ASSUME NEW q \in Procs, api'[q].pc \in OutsidePcs
    PROVE  DepositInvOf(q)'
BY DEF DepositInvOf, DepositPcs, OutsidePcs

(* A step of one process that takes no key from the disk and none from the
   Beacon chain keeps the invariant of all when it keeps that process's part. *)
LEMMA DepositInvMove ==
    ASSUME DepositInv, NEW p \in Procs, DepositInvOf(p)',
           \A q \in Procs \ {p} : SameButShared(q),
           Kept \subseteq Kept', beacon \subseteq beacon'
    PROVE  DepositInv'
BY DepositInvFrame DEF DepositInv

LEMMA DepositInvStep ==
    ASSUME TypeOK, DepositInv, NEW p \in Procs,
           NEW s, api' = [api EXCEPT ![p] = s], DepositInvOf(p)',
           Kept \subseteq Kept', beacon \subseteq beacon'
    PROVE  DepositInv'
<1>1. \A q \in Procs \ {p} : api'[q] = api[q]
  BY DEF TypeOK
<1>2. QED
  BY <1>1, Unmoved, DepositInvMove

(* So does a step that leaves the deposit. *)
LEMMA DepositInvLeave ==
    ASSUME TypeOK, DepositInv, NEW p \in Procs,
           NEW s, api' = [api EXCEPT ![p] = s], s.pc \in OutsidePcs,
           Kept \subseteq Kept', beacon \subseteq beacon'
    PROVE  DepositInv'
<1>1. api'[p] = s
  BY DEF TypeOK
<1>2. DepositInvOf(p)'
  BY <1>1, DepositInvOutside
<1>3. QED
  BY <1>2, DepositInvStep

(* Once all keys are created, they are those the transaction names. *)
LEMMA CreatedAreSent ==
    ASSUME TypeOK, NEW p \in Procs, DepositInvOf(p),
           api[p].pc \in {"reload", "send", "save"}
    PROVE  Created(p) = Indices(api[p].first, api[p].n)
<1>1. api[p].first \in Nat /\ api[p].n \in Nat
  BY DEF TypeOK, ProcState
<1>2. api[p].next = api[p].first + api[p].n
  BY DEF DepositInvOf
<1>3. QED
  BY <1>1, <1>2 DEF Created, Indices

LEMMA DepositInvInit == Init => DepositInv
<1>1. ASSUME Init, NEW p \in Procs
      PROVE api[p].pc = "idle"
  BY <1>1 DEF Init, IdleProc, Fresh
<1>2. QED
  BY <1>1 DEF DepositInv, DepositInvOf, DepositPcs

LEMMA DepositInvExit ==
    ASSUME TypeOK, DepositInv, NEW p \in Procs, Exit(p),
           Kept \subseteq Kept', beacon \subseteq beacon'
    PROVE  DepositInv'
BY DepositInvLeave DEF Exit, IdleProc, Fresh, OutsidePcs

LEMMA GotoRecord ==
    ASSUME TypeOK, NEW p \in Procs, NEW pc, Goto(p, pc)
    PROVE  /\ api' = [api EXCEPT ![p] = [api[p] EXCEPT !.pc = pc]]
           /\ api'[p] = [api[p] EXCEPT !.pc = pc]
BY DEF Goto, TypeOK

LEMMA DepositInvNext == TypeOK /\ AloneInv /\ DepositInv /\ [Next]_vars => DepositInv'
<1> SUFFICES ASSUME TypeOK, AloneInv, DepositInv, [Next]_vars
             PROVE DepositInv'
  OBVIOUS
<1> USE DEF diskVars, chainVars, ghostVars
<1>0. CASE Purge
  BY <1>0, DepositInvOutside DEF Purge, DepositInv, OutsidePcs
<1> SUFFICES ASSUME ~Purge
             PROVE  DepositInv'
  BY <1>0
<1>9. Kept \subseteq Kept'
  BY KeptGrows
<1>1. ASSUME NEW p \in Procs, StartCommand(p)
      PROVE DepositInv'
  BY <1>1, <1>9, DepositInvLeave
     DEF StartCommand, CanNodeDeposit, RecoverWallet, RecoverSkippingKeys,
         SearchAndRecoverWallet, Fresh, OutsidePcs
<1>2. ASSUME NEW p \in Procs, DepositStep(p)
      PROVE DepositInv'
  <2>0. DepositInvOf(p) /\ api[p] \in ProcState
    BY DEF DepositInv, TypeOK
  <2>1. CASE LoadWallet(p)
    <3>1. CASE wallet.exists
      <4> DEFINE s == [api[p] EXCEPT !.pc = "count", !.first = wallet.next,
                                     !.next = wallet.next, !.seen = beacon]
      <4>1. api' = [api EXCEPT ![p] = s]
        BY <2>1, <3>1 DEF LoadWallet, TypeOK
      <4>2. api'[p] = s
        BY <4>1 DEF TypeOK
      <4>3. /\ s.pc = "count" /\ s.seen = beacon
            /\ s.first = wallet.next /\ s.next = wallet.next
            /\ wallet.next \in Nat
        BY <2>0 DEF ProcState, TypeOK
      <4>4. s.first .. s.next - 1 = {}
        BY <4>3
      <4>5. DepositInvOf(p)'
        BY <2>1, <4>2, <4>3, <4>4
           DEF LoadWallet, DepositInvOf, Created, DepositPcs
      <4>6. QED
        BY <1>9, <2>1, <4>1, <4>5, DepositInvStep DEF LoadWallet
    <3>2. CASE ~wallet.exists
      BY <1>9, <2>1, <3>2, DepositInvExit DEF LoadWallet
    <3>3. QED
      BY <3>1, <3>2
  <2>2. CASE ReadKeyCount(p)
    <3> DEFINE s == [api[p] EXCEPT !.pc = "create", !.base = keyCount,
                          !.behind = {tx.nonce : tx \in mempool}]
    <3>1. api' = [api EXCEPT ![p] = s]
      BY <2>2 DEF ReadKeyCount, TypeOK
    <3>2. api'[p] = s
      BY <3>1 DEF TypeOK
    <3>3. /\ s.pc = "create" /\ s.seen = api[p].seen
          /\ s.first = api[p].first /\ s.next = api[p].next
          /\ api[p].first \in Nat /\ api[p].next \in Nat
      BY <2>0 DEF ProcState
    <3>4. /\ api[p].first = api[p].next
          /\ Created(p) = {}
      BY <2>0, <2>2, <3>3 DEF ReadKeyCount, DepositInvOf, Created
    <3>5. DepositInvOf(p)'
      BY <2>0, <2>2, <3>2, <3>3, <3>4
         DEF ReadKeyCount, DepositInvOf, Created, DepositPcs
    <3>6. QED
      BY <1>9, <2>2, <3>1, <3>5, DepositInvStep DEF ReadKeyCount
  <2>3. CASE CreateValidatorKey(p)
    <3> DEFINE k == api[p].next
    <3>1. /\ k \in Nat /\ k + 1 \in Nat /\ "storeNew" \in Pcs
          /\ StoreBegins(p, k, "storeNew", k + 1) /\ beacon' = beacon
      BY <2>0, <2>3 DEF CreateValidatorKey, ProcState, Pcs
    <3>2. /\ api'[p].pc = "storeNew" /\ api'[p].key = k /\ api'[p].next = k + 1
          /\ SameTask(p)
          /\ \A q \in Procs \ {p} : SameButShared(q)
      BY <3>1, BeginFields
    <3>3. /\ api'[p].first = api[p].first /\ api'[p].seen = api[p].seen
          /\ api[p].first \in Nat
      BY <2>0, <3>2 DEF SameTask, ProcState
    <3>4. /\ api[p].first <= k
          /\ api[p].seen \subseteq beacon
          /\ Created(p) \subseteq Kept
          /\ Created(p) \cap api[p].seen = {}
      BY <2>0, <2>3 DEF CreateValidatorKey, DepositInvOf, DepositPcs
    <3>5. Created(p)' = Created(p) \cup {k}
      BY <3>1, <3>2, <3>3, <3>4 DEF Created
    <3>6. k \in Kept'
      BY <3>2 DEF Kept, BeingStored, Storing
    <3>7. DepositInvOf(p)'
      <4>1. Created(p)' \subseteq Kept'
        BY <1>9, <3>4, <3>5, <3>6
      <4>2. (Created(p)' \ {api'[p].next - 1}) \cap api'[p].seen = {}
        BY <3>1, <3>2, <3>3, <3>4, <3>5
      <4>3. api'[p].first < api'[p].next
        BY <3>1, <3>2, <3>3, <3>4
      <4>4. api'[p].seen \subseteq beacon'
        BY <3>1, <3>3, <3>4
      <4> HIDE DEF k
      <4>5. QED
        BY <3>2, <4>1, <4>2, <4>3, <4>4, <3>1, <3>3 DEF DepositInvOf, DepositPcs
    <3>8. QED
      BY <1>9, <3>1, <3>2, <3>7, DepositInvMove
  <2>10. CASE ValidatorKeyCreated(p)
    <3>1. api[p].found \in SUBSET Nat /\ "check" \in Pcs
      BY <2>0 DEF ProcState, Pcs
    <3>2. StoreEnds(p, "check", api[p].found) /\ api[p].pc = "storeNew" /\ beacon' = beacon
      BY <2>10 DEF ValidatorKeyCreated
    <3>3. /\ api'[p].pc = "check" /\ api'[p].next = api[p].next /\ SameTask(p)
          /\ \A q \in Procs \ {p} : api'[q] = api[q]
      BY <3>1, <3>2, EndFields
    <3>4. /\ api'[p].first = api[p].first /\ api'[p].seen = api[p].seen
          /\ Created(p)' = Created(p)
      BY <3>3 DEF SameTask, Created
    <3>5. DepositInvOf(p)'
      BY <1>9, <2>0, <3>2, <3>3, <3>4 DEF DepositInvOf, DepositPcs
    <3>6. QED
      BY <1>9, <3>2, <3>3, <3>5, Unmoved, DepositInvMove
  <2>4. CASE CheckBeaconStatus(p)
    <3>1. CASE Exit(p)
      BY <1>9, <2>4, <3>1, DepositInvExit DEF CheckBeaconStatus
    <3>2. ASSUME Goto(p, "create"), api[p].next - 1 \notin beacon
          PROVE DepositInv'
      <4>1. /\ api' = [api EXCEPT ![p] = [api[p] EXCEPT !.pc = "create"]]
            /\ api'[p] = [api[p] EXCEPT !.pc = "create"]
        BY <3>2, GotoRecord
      <4>2. DepositInvOf(p)'
        BY <1>9, <2>0, <2>4, <3>2, <4>1
           DEF CheckBeaconStatus, DepositInvOf, Created, DepositPcs, ProcState
      <4>3. QED
        BY <1>9, <2>4, <4>1, <4>2, DepositInvStep DEF CheckBeaconStatus
    <3>4. ASSUME AllStored(p, "reload"), api[p].next - 1 \notin beacon,
                 api[p].next = api[p].first + api[p].n
          PROVE DepositInv'
      <4> DEFINE s == [api[p] EXCEPT !.pc = "reload", !.read = FALSE,
                                     !.copy = {}, !.shared = FALSE]
      <4>1. "reload" \in Pcs
        BY DEF Pcs
      <4>7. api' = [api EXCEPT ![p] = s]
        BY <3>4, <4>1, AllStoredType
      <4>2. api' = [api EXCEPT ![p] = s] /\ api'[p] = s
        <5> HIDE DEF s
        <5>1. QED
          BY <4>7 DEF TypeOK
      <4>3. /\ s.pc = "reload" /\ s.next = api[p].next /\ s.first = api[p].first
            /\ s.n = api[p].n /\ s.seen = api[p].seen
            /\ api[p].first \in Nat /\ api[p].n \in Nat
        BY <2>0 DEF ProcState
      <4> HIDE DEF s
      <4>4. Created(p)' = Created(p)
        BY <4>2, <4>3 DEF Created
      <4>5. DepositInvOf(p)'
        BY <1>9, <2>0, <2>4, <3>4, <4>2, <4>3, <4>4
           DEF CheckBeaconStatus, DepositInvOf, DepositPcs
      <4>6. QED
        BY <1>9, <2>4, <4>2, <4>5, DepositInvStep DEF CheckBeaconStatus
    <3>3. QED
      BY <2>4, <3>1, <3>2, <3>4 DEF CheckBeaconStatus
  <2>5. CASE ReloadKeys(p)
    <3>1. CASE Exit(p)
      BY <1>9, <2>5, <3>1, DepositInvExit DEF ReloadKeys
    <3>2. CASE Goto(p, "send")
      <4>1. /\ api' = [api EXCEPT ![p] = [api[p] EXCEPT !.pc = "send"]]
            /\ api'[p] = [api[p] EXCEPT !.pc = "send"]
        BY <3>2, GotoRecord
      <4>2. DepositInvOf(p)'
        BY <1>9, <2>0, <2>5, <4>1
           DEF ReloadKeys, DepositInvOf, Created, DepositPcs, ProcState
      <4>3. QED
        BY <1>9, <2>5, <4>1, <4>2, DepositInvStep DEF ReloadKeys
    <3>3. QED
      BY <2>5, <3>1, <3>2 DEF ReloadKeys
  <2>6. CASE AddValidatorKeys(p)
    <3>1. /\ api' = [api EXCEPT ![p] = [api[p] EXCEPT !.pc = "save"]]
          /\ api'[p] = [api[p] EXCEPT !.pc = "save"]
      BY <2>6, GotoRecord DEF AddValidatorKeys
    <3>2. DepositInvOf(p)'
      BY <1>9, <2>0, <2>6, <3>1
         DEF AddValidatorKeys, DepositInvOf, Created, DepositPcs, ProcState
    <3>3. QED
      BY <1>9, <2>6, <3>1, <3>2, DepositInvStep DEF AddValidatorKeys
  <2>7. CASE SaveWallet(p)
    <3>1. api' = [api EXCEPT ![p] = [api[p] EXCEPT !.pc = "wait"]]
      BY <2>7, GotoRecord DEF SaveWallet
    <3>2. [api[p] EXCEPT !.pc = "wait"].pc = "wait"
      BY <2>0 DEF ProcState
    <3>3. QED
      BY <1>9, <2>7, <3>1, <3>2, DepositInvLeave DEF SaveWallet, OutsidePcs
  <2>8. CASE WaitForTransaction(p)
    BY <1>9, <2>8, DepositInvExit DEF WaitForTransaction
  <2>9. QED
    BY <1>2, <2>1, <2>2, <2>3, <2>4, <2>5, <2>6, <2>7, <2>8, <2>10 DEF DepositStep
<1>3. ASSUME NEW p \in Procs, RecoverStep(p)
      PROVE DepositInv'
  <2>0. api[p] \in ProcState
    BY DEF TypeOK
  <2>1. CASE SaveValidatorKey(p)
    <3>1. PICK k \in api[p].want :
            StoreBegins(p, k, "storeFound", NextAfterRecovery(api[p].next, k))
      BY <2>1 DEF SaveValidatorKey
    <3>2. /\ k \in Nat /\ NextAfterRecovery(api[p].next, k) \in Nat
          /\ "storeFound" \in Pcs
      BY <2>0 DEF ProcState, NextAfterRecovery, Pcs
    <3>3. api'[p].pc = "storeFound" /\ \A q \in Procs \ {p} : SameButShared(q)
      BY <3>1, <3>2, BeginFields
    <3>4. DepositInvOf(p)'
      BY <3>3, DepositInvOutside DEF OutsidePcs
    <3>5. QED
      BY <1>9, <2>1, <3>3, <3>4, DepositInvMove DEF SaveValidatorKey
  <2>4. CASE ValidatorKeySaved(p)
    <3>1. api[p].found \cup {api[p].key} \in SUBSET Nat /\ "scan" \in Pcs
      BY <2>0 DEF ProcState, Pcs
    <3>2. StoreEnds(p, "scan", api[p].found \cup {api[p].key}) /\ beacon' = beacon
      BY <2>4 DEF ValidatorKeySaved
    <3>3. api'[p].pc = "scan" /\ \A q \in Procs \ {p} : api'[q] = api[q]
      BY <3>1, <3>2, EndFields
    <3>4. DepositInvOf(p)'
      BY <3>3, DepositInvOutside DEF OutsidePcs
    <3>5. QED
      BY <1>9, <3>2, <3>3, <3>4, Unmoved, DepositInvMove
  <2>5. CASE AllKeysRecovered(p)
    <3> DEFINE s == [api[p] EXCEPT !.pc = "store", !.read = FALSE, !.copy = {},
                                   !.shared = FALSE]
    <3>1. api' = [api EXCEPT ![p] = s] /\ s.pc = "store" /\ beacon' = beacon
      BY <2>0, <2>5, AllStoredType DEF AllKeysRecovered, ProcState, Pcs
    <3> HIDE DEF s
    <3>2. QED
      BY <1>9, <3>1, DepositInvLeave DEF OutsidePcs
  <2>2. ASSUME Goto(p, "done"), beacon' = beacon
        PROVE DepositInv'
    <3>1. api' = [api EXCEPT ![p] = [api[p] EXCEPT !.pc = "done"]]
      BY <2>2, GotoRecord
    <3>2. [api[p] EXCEPT !.pc = "done"].pc = "done"
      BY <2>0 DEF ProcState
    <3>3. QED
      BY <1>9, <2>2, <3>1, <3>2, DepositInvLeave DEF OutsidePcs
  <2>3. QED
    BY <1>3, <1>9, <2>1, <2>2, <2>4, <2>5, DepositInvExit
       DEF RecoverStep, AttemptLimitExceeded, SaveRecoveredWallet, ReportRecovery
<1>4. ASSUME NEW p \in Procs, Interrupt(p)
      PROVE DepositInv'
  BY <1>9, <1>4, DepositInvExit DEF Interrupt
<1>5. ASSUME NEW p \in Procs, InterruptStore(p)
      PROVE DepositInv'
  BY <1>5, <1>9, DepositInvExit DEF InterruptStore
<1>6. CASE ChainStep
  <2>1. api' = api /\ beacon \subseteq beacon'
    BY <1>6 DEF ChainStep, MineTx, ProcessPreDeposit, ActivateElsewhere
  <2>2. QED
    BY <1>9, <2>1, Unmoved, DepositInvFrame DEF DepositInv
<1>7. CASE UNCHANGED vars
  BY <1>7, <1>9, Unmoved, DepositInvFrame DEF vars, DepositInv
<1>8. QED
  BY <1>1, <1>2, <1>3, <1>4, <1>5, <1>6, <1>7 DEF Next

LEMMA DepositInvariant == Spec => []DepositInv
<1>1. QED
  BY DepositInvInit, DepositInvNext, AloneInvariant, TypeCorrect, PTL DEF Spec

(* For any number of concurrent deposits, and keys activated elsewhere at any
   moment: no batch is sent with a key that was a validator when its deposit
   started. *)
THEOREM AlertIsHonoured == Spec => []AlertHonoured
<1>1. TypeOK /\ DepositInv => AlertHonoured
  BY CreatedAreSent DEF DepositInv, DepositInvOf, AlertHonoured
<1>2. QED
  BY <1>1, TypeCorrect, DepositInvariant, PTL

-----------------------------------------------------------------------------
(* The keys that were sent, and who adds to them.                          *)

(* Only transactions and registrations make the keys that were sent. *)
LEMMA SameKeys ==
    ASSUME UNCHANGED <<mempool, registry>>
    PROVE  SubmittedKeys' = SubmittedKeys
BY DEF SubmittedKeys, PendingKeys, TxKeys, RegisteredKeys

(* They are indices. *)
LEMMA SubmittedType == TypeOK => SubmittedKeys \subseteq Nat
BY DEF TypeOK, SubmittedKeys, PendingKeys, TxKeys, Indices, RegisteredKeys, Tx,
       Registration

(* A transaction adds no other keys than those of its deposit. *)
LEMMA SentKeys ==
    ASSUME NEW p \in Procs, AddValidatorKeys(p)
    PROVE  SubmittedKeys' \subseteq
               SubmittedKeys \cup Indices(api[p].first, api[p].n)
<1>1. PICK v : mempool' = {tx \in mempool : tx.nonce # v}
                    \cup {[nonce |-> v, first |-> api[p].first,
                           count |-> api[p].n, base |-> api[p].base,
                           behind |-> api[p].behind]}
  BY DEF AddValidatorKeys
<1>2. \A tx \in mempool' : tx \in mempool
          \/ TxKeys(tx) = Indices(api[p].first, api[p].n)
  BY <1>1 DEF TxKeys
<1>3. PendingKeys' \subseteq PendingKeys \cup Indices(api[p].first, api[p].n)
  BY <1>2 DEF PendingKeys, TxKeys, Indices
<1>4. QED
  BY <1>3 DEF AddValidatorKeys, SubmittedKeys, RegisteredKeys

(* One that is mined adds none. *)
LEMMA MinedKeys ==
    ASSUME MineTx
    PROVE  SubmittedKeys' \subseteq SubmittedKeys
<1>1. PendingKeys' \subseteq PendingKeys
  BY DEF MineTx, PendingKeys, TxKeys
<1>2. RegisteredKeys' \subseteq RegisteredKeys \cup PendingKeys
  BY DEF MineTx, RegisteredKeys, PendingKeys
<1>3. QED
  BY <1>1, <1>2 DEF SubmittedKeys

(* What a purge deletes, and what is stored after one. *)
LEMMA KeptOrPurged ==
    ASSUME TypeOK, AloneInv, [Next]_vars
    PROVE  Kept \cup purged \subseteq Kept' \cup purged'
<1> USE DEF diskVars, chainVars, ghostVars
<1>1. CASE Purge
  <2>1. BeingStored = {}
    BY <1>1 DEF Purge, BeingStored, Storing
  <2>2. purged' = purged \cup keystore.pairs \cup keystore.prysm.keys \cup damaged
    BY <1>1 DEF Purge
  <2>3. QED
    BY <2>1, <2>2 DEF Kept, Readable
<1> SUFFICES ASSUME ~Purge
             PROVE  Kept \cup purged \subseteq Kept' \cup purged'
  BY <1>1
<1>2. Kept \subseteq Kept'
  BY KeptGrows
<1>3. ASSUME NEW p \in Procs, ValidatorKeyCreated(p) \/ ValidatorKeySaved(p)
      PROVE  purged \subseteq Kept' \cup purged'
  <2>1. purged' = purged \ {api[p].key}
    BY <1>3 DEF ValidatorKeyCreated, ValidatorKeySaved, StoreEnds
  <2>2. api[p].key \in Kept
    BY <1>3 DEF ValidatorKeyCreated, ValidatorKeySaved, Kept, BeingStored, Storing
  <2>3. QED
    BY <1>2, <2>1, <2>2
<1>4. ASSUME NEW p \in Procs, StartCommand(p) \/ DepositStep(p)
      PROVE  purged \subseteq Kept' \cup purged'
  BY <1>3, <1>4
     DEF StartCommand, CanNodeDeposit, RecoverWallet, RecoverSkippingKeys,
         SearchAndRecoverWallet, DepositStep, LoadWallet, ReadKeyCount,
         CreateValidatorKey, CheckBeaconStatus, ReloadKeys, AddValidatorKeys,
         SaveWallet, WaitForTransaction
<1>5. ASSUME NEW p \in Procs, RecoverStep(p) \/ Interrupt(p) \/ InterruptStore(p)
      PROVE  purged \subseteq Kept' \cup purged'
  BY <1>3, <1>5
     DEF RecoverStep, SaveValidatorKey, AllKeysRecovered, AttemptLimitExceeded,
         SaveRecoveredWallet, ReportRecovery, Interrupt, InterruptStore
<1>6. CASE ChainStep \/ UNCHANGED vars
  <2>1. purged' = purged
    BY <1>6 DEF ChainStep, MineTx, ProcessPreDeposit, ActivateElsewhere, vars
  <2>2. QED
    BY <1>2, <2>1
<1>7. QED
  BY <1>2, <1>4, <1>5, <1>6 DEF Next

(* Who sends keys. *)
LEMMA Senders ==
    ASSUME [Next]_vars
    PROVE  \/ SubmittedKeys' \subseteq SubmittedKeys
           \/ \E p \in Procs : AddValidatorKeys(p)
<1> USE DEF diskVars, chainVars, ghostVars
<1>1. ASSUME NEW p \in Procs, DepositStep(p), ~AddValidatorKeys(p)
      PROVE  UNCHANGED <<mempool, registry>>
  BY <1>1 DEF DepositStep, LoadWallet, ReadKeyCount, CreateValidatorKey,
              ValidatorKeyCreated, CheckBeaconStatus, ReloadKeys, SaveWallet,
              WaitForTransaction
<1>2. ASSUME NEW p \in Procs,
             StartCommand(p) \/ RecoverStep(p) \/ Interrupt(p) \/ InterruptStore(p)
      PROVE  UNCHANGED <<mempool, registry>>
  BY <1>2
     DEF StartCommand, CanNodeDeposit, RecoverWallet, RecoverSkippingKeys,
         SearchAndRecoverWallet, RecoverStep, SaveValidatorKey, ValidatorKeySaved,
         AllKeysRecovered, AttemptLimitExceeded, SaveRecoveredWallet,
         ReportRecovery, Interrupt, InterruptStore
<1>3. CASE Purge \/ ProcessPreDeposit \/ ActivateElsewhere \/ UNCHANGED vars
  BY <1>3, SameKeys DEF Purge, ProcessPreDeposit, ActivateElsewhere, vars
<1>4. QED
  BY <1>1, <1>2, <1>3, SameKeys, MinedKeys DEF Next, ChainStep

(* For any number of concurrent commands and any interruptions: every client can
   load the keys sent to the registry, unless they were purged, are being stored
   again, or came to harm by a kill or by commands that stored keys at once. *)
THEOREM SubmittedKeysAreStored == Spec => []SubmittedKeysStored
<1>1. Init => SubmittedKeysStored
  BY DEF Init, SubmittedKeysStored, SubmittedKeys, PendingKeys, RegisteredKeys
<1>2. TypeOK /\ AloneInv /\ DepositInv /\ SubmittedKeysStored /\ [Next]_vars
        => SubmittedKeysStored'
  <2> SUFFICES ASSUME TypeOK, AloneInv, DepositInv, SubmittedKeysStored, [Next]_vars
               PROVE SubmittedKeysStored'
    OBVIOUS
  <2>0. SubmittedKeys \subseteq Kept' \cup purged'
    BY KeptOrPurged DEF SubmittedKeysStored, Kept
  <2>1. CASE SubmittedKeys' \subseteq SubmittedKeys
    BY <2>0, <2>1 DEF SubmittedKeysStored, Kept
  <2>2. ASSUME NEW p \in Procs, AddValidatorKeys(p)
        PROVE SubmittedKeysStored'
    <3>1. DepositInvOf(p) /\ api[p] \in ProcState
      BY DEF DepositInv, TypeOK
    <3>2. Indices(api[p].first, api[p].n) \subseteq Kept
      BY <2>2, <3>1, CreatedAreSent
         DEF AddValidatorKeys, DepositInvOf, DepositPcs
    <3>3. SubmittedKeys' \subseteq Kept' \cup purged'
      BY <2>0, <2>2, <3>2, SentKeys, KeptOrPurged
    <3>4. QED
      BY <3>3 DEF SubmittedKeysStored, Kept
  <2>3. QED
    BY <2>1, <2>2, Senders
<1>3. QED
  BY <1>1, <1>2, TypeCorrect, AloneInvariant, DepositInvariant, PTL DEF Spec

-----------------------------------------------------------------------------
(* The keys a recovery has found.                                          *)

RecoverPcs == {"scan", "storeFound", "store", "done"}

RecoverInvOf(p) ==
    /\ api[p].pc \in RecoverPcs => api[p].found \subseteq Kept
    /\ api[p].pc \in {"store", "done"} => api[p].want \subseteq api[p].found

RecoverInv == \A p \in Procs : RecoverInvOf(p)

(* A process that is not in a recovery has nothing to keep. *)
LEMMA RecoverInvOutside ==
    ASSUME NEW q \in Procs, api'[q].pc \notin RecoverPcs
    PROVE  RecoverInvOf(q)'
BY DEF RecoverInvOf, RecoverPcs

(* One that does not move keeps its part, as long as no keystore is deleted. *)
LEMMA RecoverInvFrame ==
    ASSUME NEW q \in Procs, RecoverInvOf(q), SameButShared(q), Kept \subseteq Kept'
    PROVE  RecoverInvOf(q)'
BY DEF RecoverInvOf, SameButShared, SameTask

(* So a step of one process has to keep that one's part. *)
LEMMA RecoverInvMove ==
    ASSUME RecoverInv, NEW p \in Procs, RecoverInvOf(p)',
           \A q \in Procs \ {p} : SameButShared(q), Kept \subseteq Kept'
    PROVE  RecoverInv'
BY RecoverInvFrame DEF RecoverInv

LEMMA RecoverInvStep ==
    ASSUME TypeOK, RecoverInv, NEW p \in Procs,
           NEW s, api' = [api EXCEPT ![p] = s], Kept \subseteq Kept',
           s.pc \notin RecoverPcs \/ RecoverInvOf(p)'
    PROVE  RecoverInv'
<1>1. api'[p] = s /\ \A q \in Procs \ {p} : api'[q] = api[q]
  BY DEF TypeOK
<1>2. RecoverInvOf(p)'
  BY <1>1, RecoverInvOutside
<1>3. QED
  BY <1>1, <1>2, Unmoved, RecoverInvMove

(* Every step keeps it, if no wallet is recovered by its address. *)
LEMMA RecoverInvNext ==
    TypeOK /\ AloneInv /\ RecoverInv /\ [Next]_vars /\ "search" \notin Commands
        => RecoverInv'
<1> SUFFICES ASSUME TypeOK, AloneInv, RecoverInv, [Next]_vars,
                    "search" \notin Commands
             PROVE  RecoverInv'
  OBVIOUS
<1> USE DEF diskVars, chainVars, ghostVars
<1>7. CASE Purge
  BY <1>7, RecoverInvOutside DEF Purge, RecoverInv, RecoverPcs
<1> SUFFICES ASSUME ~Purge
             PROVE  RecoverInv'
  BY <1>7
<1>0. Kept \subseteq Kept' /\ \A p \in Procs : api[p] \in ProcState /\ RecoverInvOf(p)
  BY KeptGrows DEF TypeOK, RecoverInv
<1>1. ASSUME NEW p \in Procs, StartCommand(p)
      PROVE  RecoverInv'
  <2>1. ASSUME NEW pc, NEW n, NEW want, api' = [api EXCEPT ![p] = Fresh(pc, n, want)],
               pc = "store" => want = {}, pc # "done"
        PROVE  RecoverInv'
    <3>1. api'[p] = Fresh(pc, n, want)
      BY <2>1 DEF TypeOK
    <3>2. RecoverInvOf(p)'
      BY <2>1, <3>1 DEF RecoverInvOf, Fresh
    <3>3. QED
      BY <1>0, <2>1, <3>2, RecoverInvStep
  <2>2. QED
    BY <1>1, <2>1
       DEF StartCommand, CanNodeDeposit, RecoverWallet, RecoverSkippingKeys,
           SearchAndRecoverWallet
<1>2. ASSUME NEW p \in Procs, Exit(p)
      PROVE  RecoverInv'
  BY <1>0, <1>2, RecoverInvStep DEF Exit, IdleProc, Fresh, RecoverPcs
<1>3. ASSUME NEW p \in Procs, NEW pc \in Pcs \ RecoverPcs, Goto(p, pc)
      PROVE  RecoverInv'
  <2> DEFINE s == [api[p] EXCEPT !.pc = pc]
  <2>1. s.pc \notin RecoverPcs
    BY <1>0 DEF ProcState
  <2>2. api' = [api EXCEPT ![p] = s]
    BY <1>3, GotoRecord
  <2> HIDE DEF s
  <2>3. QED
    BY <1>0, <2>1, <2>2, RecoverInvStep
<1>4. ASSUME NEW p \in Procs, DepositStep(p)
      PROVE  RecoverInv'
  <2>1. CASE LoadWallet(p) /\ wallet.exists
    <3> DEFINE s == [api[p] EXCEPT !.pc = "count", !.first = wallet.next,
                                   !.next = wallet.next, !.seen = beacon]
    <3>1. s.pc = "count" /\ api' = [api EXCEPT ![p] = s]
      BY <1>0, <2>1 DEF LoadWallet, TypeOK, ProcState
    <3> HIDE DEF s
    <3>2. QED
      BY <1>0, <3>1, RecoverInvStep DEF RecoverPcs
  <2>2. CASE ReadKeyCount(p)
    <3> DEFINE behind == {tx.nonce : tx \in mempool}
               s == [api[p] EXCEPT !.pc = "create", !.base = keyCount,
                                   !.behind = behind]
    <3>1. api' = [api EXCEPT ![p].pc = "create", ![p].base = keyCount,
                             ![p].behind = behind]
      BY <2>2 DEF ReadKeyCount
    <3> HIDE DEF behind
    <3>2. s.pc = "create" /\ api' = [api EXCEPT ![p] = s]
      BY <1>0, <3>1 DEF TypeOK, ProcState
    <3> HIDE DEF s
    <3>3. QED
      BY <1>0, <3>2, RecoverInvStep DEF RecoverPcs
  <2>3. CASE CreateValidatorKey(p)
    <3>1. /\ api[p].next \in Nat /\ api[p].next + 1 \in Nat /\ "storeNew" \in Pcs
          /\ StoreBegins(p, api[p].next, "storeNew", api[p].next + 1)
      BY <1>0, <2>3 DEF CreateValidatorKey, ProcState, Pcs
    <3>2. api'[p].pc = "storeNew" /\ \A q \in Procs \ {p} : SameButShared(q)
      BY <3>1, BeginFields
    <3>3. QED
      BY <1>0, <3>2, RecoverInvOutside, RecoverInvMove DEF RecoverPcs
  <2>4. CASE ValidatorKeyCreated(p)
    <3>1. /\ api[p].found \in SUBSET Nat /\ "check" \in Pcs
          /\ StoreEnds(p, "check", api[p].found)
      BY <1>0, <2>4 DEF ValidatorKeyCreated, ProcState, Pcs
    <3>2. api'[p].pc = "check" /\ \A q \in Procs \ {p} : api'[q] = api[q]
      BY <3>1, EndFields
    <3>3. QED
      BY <1>0, <3>2, Unmoved, RecoverInvOutside, RecoverInvMove DEF RecoverPcs
  <2>5. ASSUME AllStored(p, "reload")
        PROVE  RecoverInv'
    <3> DEFINE s == [api[p] EXCEPT !.pc = "reload", !.read = FALSE, !.copy = {},
                                   !.shared = FALSE]
    <3>1. api' = [api EXCEPT ![p] = s]
      BY <2>5, AllStoredType DEF Pcs
    <3>2. s.pc = "reload"
      BY <1>0 DEF ProcState
    <3> HIDE DEF s
    <3>3. QED
      BY <1>0, <3>1, <3>2, RecoverInvStep DEF RecoverPcs
  <2>6. QED
    BY <1>2, <1>3, <1>4, <2>1, <2>2, <2>3, <2>4, <2>5
       DEF DepositStep, LoadWallet, CheckBeaconStatus, ReloadKeys,
           AddValidatorKeys, SaveWallet, WaitForTransaction, Pcs, RecoverPcs
<1>5. ASSUME NEW p \in Procs, RecoverStep(p)
      PROVE  RecoverInv'
  <2>1. CASE SaveValidatorKey(p)
    <3>1. PICK k \in api[p].want :
            StoreBegins(p, k, "storeFound", NextAfterRecovery(api[p].next, k))
      BY <2>1 DEF SaveValidatorKey
    <3>2. /\ k \in Nat /\ NextAfterRecovery(api[p].next, k) \in Nat
          /\ "storeFound" \in Pcs
      BY <1>0 DEF ProcState, NextAfterRecovery, Pcs
    <3>3. /\ api'[p].pc = "storeFound" /\ api'[p].found = api[p].found
          /\ \A q \in Procs \ {p} : SameButShared(q)
      BY <3>1, <3>2, BeginFields
    <3>4. api[p].found \subseteq Kept
      BY <1>0, <2>1 DEF SaveValidatorKey, RecoverInvOf, RecoverPcs
    <3>5. RecoverInvOf(p)'
      BY <1>0, <3>3, <3>4 DEF RecoverInvOf
    <3>6. QED
      BY <1>0, <3>3, <3>5, RecoverInvMove
  <2>2. CASE ValidatorKeySaved(p)
    <3>1. /\ api[p].found \cup {api[p].key} \in SUBSET Nat /\ "scan" \in Pcs
          /\ StoreEnds(p, "scan", api[p].found \cup {api[p].key})
      BY <1>0, <2>2 DEF ValidatorKeySaved, ProcState, Pcs
    <3>2. /\ api'[p].pc = "scan" /\ api'[p].found = api[p].found \cup {api[p].key}
          /\ \A q \in Procs \ {p} : api'[q] = api[q]
      BY <3>1, EndFields
    <3>3. api[p].found \cup {api[p].key} \subseteq Kept
      BY <1>0, <2>2
         DEF ValidatorKeySaved, RecoverInvOf, RecoverPcs, Kept, BeingStored, Storing
    <3>4. RecoverInvOf(p)'
      BY <1>0, <3>2, <3>3 DEF RecoverInvOf
    <3>5. QED
      BY <1>0, <3>2, <3>4, Unmoved, RecoverInvMove
  <2>3. ASSUME NEW s, api' = [api EXCEPT ![p] = s], s.pc \in {"store", "done"},
               s.want = api[p].want, s.found = api[p].found,
               api[p].pc \in {"scan", "store"}, api[p].want \subseteq api[p].found
        PROVE  RecoverInv'
    <3>1. api'[p] = s
      BY <2>3 DEF TypeOK
    <3>2. RecoverInvOf(p)'
      BY <1>0, <2>3, <3>1 DEF RecoverInvOf, RecoverPcs
    <3>3. QED
      BY <1>0, <2>3, <3>2, RecoverInvStep
  <2>4. CASE AllKeysRecovered(p)
    <3> DEFINE s == [api[p] EXCEPT !.pc = "store", !.read = FALSE, !.copy = {},
                                   !.shared = FALSE]
    <3>1. api' = [api EXCEPT ![p] = s]
      BY <2>4, AllStoredType DEF AllKeysRecovered, Pcs
    <3>2. s.pc = "store" /\ s.want = api[p].want /\ s.found = api[p].found
      BY <1>0 DEF ProcState
    <3> HIDE DEF s
    <3>3. QED
      BY <2>3, <2>4, <3>1, <3>2 DEF AllKeysRecovered
  <2>5. CASE SaveRecoveredWallet(p)
    <3> DEFINE s == [api[p] EXCEPT !.pc = "done"]
    <3>1. api' = [api EXCEPT ![p] = s]
      BY <2>5, GotoRecord DEF SaveRecoveredWallet
    <3>2. s.pc = "done" /\ s.want = api[p].want /\ s.found = api[p].found
      BY <1>0 DEF ProcState
    <3> HIDE DEF s
    <3>3. api[p].want \subseteq api[p].found /\ api[p].pc = "store"
      BY <1>0, <2>5 DEF SaveRecoveredWallet, RecoverInvOf
    <3>4. QED
      BY <2>3, <3>1, <3>2, <3>3
  <2>6. QED
    BY <1>2, <1>5, <2>1, <2>2, <2>4, <2>5
       DEF RecoverStep, AttemptLimitExceeded, ReportRecovery
<1>6. ASSUME NEW p \in Procs, Interrupt(p) \/ InterruptStore(p)
      PROVE  RecoverInv'
  BY <1>2, <1>6 DEF Interrupt, InterruptStore
<1>8. CASE ChainStep \/ UNCHANGED vars
  <2>1. api' = api
    BY <1>8 DEF ChainStep, MineTx, ProcessPreDeposit, ActivateElsewhere, vars
  <2>2. QED
    BY <1>0, <2>1, Unmoved, RecoverInvFrame DEF RecoverInv
<1>9. QED
  BY <1>1, <1>4, <1>5, <1>6, <1>8 DEF Next

(* Unless a wallet is searched for by its address, which recovers no key, a
   recovery that reports success has put every key that was registered to the
   operator when it began into the keystores, where every client can load it,
   unless a kill or another process that stores keys does it harm. *)
THEOREM RecoveryIsComplete ==
    "search" \notin Commands => (Spec => []RecoveryComplete)
<1> SUFFICES ASSUME "search" \notin Commands
             PROVE  Spec => []RecoveryComplete
  OBVIOUS
<1>1. Init => RecoverInv
  <2>1. ASSUME Init, NEW p \in Procs
        PROVE  api[p].pc = "idle"
    BY <2>1 DEF Init, IdleProc, Fresh
  <2>2. QED
    BY <2>1 DEF RecoverInv, RecoverInvOf, RecoverPcs
<1>2. TypeOK /\ AloneInv /\ RecoverInv /\ [Next]_vars => RecoverInv'
  BY RecoverInvNext
<1>3. RecoverInv => RecoveryComplete
  BY DEF RecoverInv, RecoverInvOf, RecoverPcs, RecoveryComplete, Kept
<1>4. QED
  BY <1>1, <1>2, <1>3, TypeCorrect, AloneInvariant, PTL DEF Spec

-----------------------------------------------------------------------------
(* One command at a time.                                                  *)

OneProcess == \A p, q \in Procs : p = q

ProcStep(p) ==
    StartCommand(p) \/ DepositStep(p) \/ RecoverStep(p)
        \/ Interrupt(p) \/ InterruptStore(p)

(* A process that goes on changes nothing but its place. *)
LEMMA GotoFields ==
    ASSUME TypeOK, NEW p \in Procs, NEW pc, Goto(p, pc)
    PROVE  /\ api'[p].pc = pc
           /\ api'[p].n = api[p].n
           /\ api'[p].first = api[p].first /\ api'[p].next = api[p].next
           /\ api'[p].base = api[p].base /\ api'[p].behind = api[p].behind
           /\ api'[p].found = api[p].found
<1>1. api'[p] = [api[p] EXCEPT !.pc = pc]
  BY GotoRecord
<1>2. api[p] \in ProcState
  BY DEF TypeOK
<1>3. QED
  BY <1>1, <1>2 DEF ProcState

(* Nor does one that has stored its keys. *)
LEMMA AllStoredFields ==
    ASSUME TypeOK, NEW p \in Procs, NEW pc \in Pcs, AllStored(p, pc)
    PROVE  /\ api'[p].pc = pc
           /\ api'[p].n = api[p].n
           /\ api'[p].first = api[p].first /\ api'[p].next = api[p].next
           /\ api'[p].base = api[p].base /\ api'[p].behind = api[p].behind
           /\ api'[p].found = api[p].found
<1> DEFINE s == [api[p] EXCEPT !.pc = pc, !.read = FALSE, !.copy = {},
                               !.shared = FALSE]
<1>1. api' = [api EXCEPT ![p] = s]
  BY AllStoredType
<1>2. /\ s.pc = pc /\ s.n = api[p].n /\ s.first = api[p].first
      /\ s.next = api[p].next /\ s.base = api[p].base
      /\ s.behind = api[p].behind /\ s.found = api[p].found
  BY DEF TypeOK, ProcState
<1> HIDE DEF s
<1>3. api'[p] = s
  BY <1>1 DEF TypeOK
<1>4. QED
  BY <1>2, <1>3

(* A process that ends is idle. *)
LEMMA ExitIsIdle ==
    ASSUME TypeOK, NEW p \in Procs, Exit(p)
    PROVE  api'[p].pc = "idle"
BY DEF TypeOK, Exit, IdleProc, Fresh

(* How each command starts. *)
LEMMA StartFields ==
    ASSUME TypeOK, NEW p \in Procs, StartCommand(p)
    PROVE  /\ UNCHANGED <<diskVars, chainVars, ghostVars>>
           /\ api'[p].pc \in {"load", "scan", "store"}
           /\ api'[p].found = {}
           /\ api'[p].pc = "load" => api'[p].n >= 1
<1>1. ASSUME NEW pc \in {"load", "scan", "store"}, NEW n, NEW want,
             api' = [api EXCEPT ![p] = Fresh(pc, n, want)],
             pc = "load" => n >= 1,
             UNCHANGED <<diskVars, chainVars, ghostVars>>
      PROVE  /\ UNCHANGED <<diskVars, chainVars, ghostVars>>
             /\ api'[p].pc \in {"load", "scan", "store"}
             /\ api'[p].found = {}
             /\ api'[p].pc = "load" => api'[p].n >= 1
  <2>1. api'[p] = Fresh(pc, n, want)
    BY <1>1 DEF TypeOK
  <2>2. QED
    BY <1>1, <2>1 DEF Fresh
<1>2. ASSUME NEW n \in 1 .. MaxBatch, CanNodeDeposit(p, n)
      PROVE  /\ UNCHANGED <<diskVars, chainVars, ghostVars>>
             /\ api' = [api EXCEPT ![p] = Fresh("load", n, {})] /\ n >= 1
  BY <1>2 DEF CanNodeDeposit
<1>3. QED
  BY <1>1, <1>2
     DEF StartCommand, RecoverWallet, RecoverSkippingKeys, SearchAndRecoverWallet

-----------------------------------------------------------------------------
(* What the wallet file knows of the keys that were sent.                  *)

(* A deposit goes on from the wallet file as it is, and a recovery counts every
   key it finds. *)
AccountInvOf(p) ==
    /\ api[p].pc = "load" => api[p].n >= 1
    /\ api[p].pc \in DepositPcs =>
        /\ wallet.exists
        /\ wallet.next = api[p].first
        /\ api[p].n >= 1
    /\ api[p].pc \in {"scan", "storeFound", "store"} =>
        \A k \in api[p].found : k \in Nat /\ k <= api[p].next
    /\ api[p].pc = "storeFound" => api[p].key \in Nat /\ api[p].key <= api[p].next

AccountInv == \A p \in Procs : AccountInvOf(p)

(* A step of a process keeps its part. *)
LEMMA AccountInvProc ==
    ASSUME TypeOK, AccountInv, NEW p \in Procs, ProcStep(p)
    PROVE  AccountInvOf(p)'
<1> USE DEF diskVars, chainVars, ghostVars
<1>0. api[p] \in ProcState /\ AccountInvOf(p)
  BY DEF TypeOK, AccountInv
<1>1. CASE StartCommand(p)
  BY <1>1, StartFields DEF AccountInvOf, DepositPcs
<1>2. ASSUME Exit(p)
      PROVE  AccountInvOf(p)'
  BY <1>2, ExitIsIdle DEF AccountInvOf, DepositPcs
<1>3. ASSUME NEW pc, Goto(p, pc), pc \in DepositPcs, api[p].pc \in DepositPcs,
             wallet' = wallet
      PROVE  AccountInvOf(p)'
  BY <1>0, <1>3, GotoFields DEF AccountInvOf, DepositPcs
<1>4. ASSUME NEW pc \in {"wait", "done"}, Goto(p, pc)
      PROVE  AccountInvOf(p)'
  BY <1>4, GotoFields DEF AccountInvOf, DepositPcs
<1>5. CASE LoadWallet(p) /\ wallet.exists
  <2>1. /\ api'[p].pc = "count" /\ api'[p].first = wallet.next
        /\ api'[p].n = api[p].n /\ api[p].pc = "load" /\ wallet' = wallet
    BY <1>0, <1>5 DEF LoadWallet, TypeOK, ProcState
  <2>2. QED
    BY <1>0, <1>5, <2>1 DEF AccountInvOf, DepositPcs
<1>6. CASE ReadKeyCount(p)
  <2>1. /\ api'[p].pc = "create" /\ api'[p].first = api[p].first
        /\ api'[p].n = api[p].n /\ api[p].pc = "count" /\ wallet' = wallet
    BY <1>0, <1>6 DEF ReadKeyCount, TypeOK, ProcState
  <2>2. QED
    BY <1>0, <2>1 DEF AccountInvOf, DepositPcs
<1>7. CASE CreateValidatorKey(p)
  <2>1. /\ api[p].next \in Nat /\ api[p].next + 1 \in Nat /\ "storeNew" \in Pcs
        /\ StoreBegins(p, api[p].next, "storeNew", api[p].next + 1)
        /\ api[p].pc = "create" /\ wallet' = wallet
    BY <1>0, <1>7 DEF CreateValidatorKey, ProcState, Pcs
  <2>2. api'[p].pc = "storeNew" /\ SameTask(p)
    BY <2>1, BeginFields
  <2>3. QED
    BY <1>0, <2>1, <2>2 DEF AccountInvOf, DepositPcs, SameTask
<1>8. CASE ValidatorKeyCreated(p)
  <2>1. /\ api[p].found \in SUBSET Nat /\ "check" \in Pcs
        /\ StoreEnds(p, "check", api[p].found)
        /\ api[p].pc = "storeNew" /\ wallet' = wallet
    BY <1>0, <1>8 DEF ValidatorKeyCreated, ProcState, Pcs
  <2>2. api'[p].pc = "check" /\ SameTask(p)
    BY <2>1, EndFields
  <2>3. QED
    BY <1>0, <2>1, <2>2 DEF AccountInvOf, DepositPcs, SameTask
<1>9. CASE SaveValidatorKey(p)
  <2>1. PICK k \in api[p].want :
          StoreBegins(p, k, "storeFound", NextAfterRecovery(api[p].next, k))
    BY <1>9 DEF SaveValidatorKey
  <2> DEFINE next == NextAfterRecovery(api[p].next, k)
  <2>2. /\ k \in Nat /\ next \in Nat /\ k <= next /\ api[p].next <= next
        /\ api[p].next \in Nat /\ "storeFound" \in Pcs
    BY <1>0 DEF NextAfterRecovery, ProcState, Pcs
  <2> HIDE DEF next
  <2>3. StoreBegins(p, k, "storeFound", next)
    BY <2>1 DEF next
  <2>4. /\ api'[p].pc = "storeFound" /\ api'[p].key = k /\ api'[p].next = next
        /\ api'[p].found = api[p].found
    BY <2>2, <2>3, BeginFields
  <2>5. \A j \in api[p].found : j \in Nat /\ j <= api[p].next
    BY <1>0, <1>9 DEF SaveValidatorKey, AccountInvOf
  <2>6. \A j \in api[p].found : j \in Nat /\ j <= next
    BY <2>2, <2>5
  <2>7. QED
    BY <2>2, <2>4, <2>6 DEF AccountInvOf, DepositPcs
<1>10. CASE ValidatorKeySaved(p)
  <2>1. /\ api[p].found \cup {api[p].key} \in SUBSET Nat /\ "scan" \in Pcs
        /\ StoreEnds(p, "scan", api[p].found \cup {api[p].key})
        /\ api[p].pc = "storeFound"
    BY <1>0, <1>10 DEF ValidatorKeySaved, ProcState, Pcs
  <2>2. /\ api'[p].pc = "scan" /\ api'[p].found = api[p].found \cup {api[p].key}
        /\ api'[p].next = api[p].next
    BY <2>1, EndFields
  <2>3. \A j \in api[p].found \cup {api[p].key} : j \in Nat /\ j <= api[p].next
    BY <1>0, <2>1 DEF AccountInvOf
  <2>4. QED
    BY <2>2, <2>3 DEF AccountInvOf, DepositPcs
<1>11. CASE AllKeysRecovered(p)
  <2>1. AllStored(p, "store") /\ "store" \in Pcs /\ api[p].pc = "scan"
    BY <1>11 DEF AllKeysRecovered, Pcs
  <2>2. /\ api'[p].pc = "store" /\ api'[p].found = api[p].found
        /\ api'[p].next = api[p].next
    BY <2>1, AllStoredFields
  <2>3. QED
    BY <1>0, <2>1, <2>2 DEF AccountInvOf, DepositPcs
<1>12. CASE CheckBeaconStatus(p)
  <2>1. CASE Exit(p)
    BY <1>2, <2>1
  <2>2. CASE Goto(p, "create")
    BY <1>3, <1>12, <2>2 DEF CheckBeaconStatus, DepositPcs
  <2>3. CASE AllStored(p, "reload")
    <3>1. "reload" \in Pcs /\ api[p].pc = "check" /\ wallet' = wallet
      BY <1>12 DEF CheckBeaconStatus, Pcs
    <3>2. /\ api'[p].pc = "reload" /\ api'[p].first = api[p].first
          /\ api'[p].n = api[p].n
      BY <2>3, <3>1, AllStoredFields
    <3>3. QED
      BY <1>0, <3>1, <3>2 DEF AccountInvOf, DepositPcs
  <2>4. QED
    BY <1>12, <2>1, <2>2, <2>3 DEF CheckBeaconStatus
<1>13. CASE DepositStep(p)
  BY <1>2, <1>3, <1>4, <1>5, <1>6, <1>7, <1>8, <1>12, <1>13
     DEF DepositStep, LoadWallet, ReloadKeys, AddValidatorKeys, SaveWallet,
         WaitForTransaction, DepositPcs
<1>14. CASE RecoverStep(p)
  BY <1>2, <1>4, <1>9, <1>10, <1>11, <1>14
     DEF RecoverStep, AttemptLimitExceeded, SaveRecoveredWallet, ReportRecovery
<1>15. CASE Interrupt(p) \/ InterruptStore(p)
  BY <1>2, <1>15 DEF Interrupt, InterruptStore
<1>16. QED
  BY <1>1, <1>13, <1>14, <1>15 DEF ProcStep

(* So every step keeps all, as no two processes share the wallet file. *)
LEMMA AccountInvNext ==
    TypeOK /\ AccountInv /\ [Next]_vars /\ OneProcess => AccountInv'
<1> SUFFICES ASSUME TypeOK, AccountInv, [Next]_vars, OneProcess
             PROVE  AccountInv'
  OBVIOUS
<1>1. ASSUME NEW p \in Procs, ProcStep(p)
      PROVE  AccountInv'
  <2>1. AccountInvOf(p)'
    BY <1>1, AccountInvProc
  <2>2. \A q \in Procs : q = p
    BY DEF OneProcess
  <2>3. QED
    BY <2>1, <2>2 DEF AccountInv
<1>2. CASE Purge
  <2>1. \A p \in Procs : api'[p].pc = "idle"
    BY <1>2 DEF Purge
  <2>2. QED
    BY <2>1 DEF AccountInv, AccountInvOf, DepositPcs
<1>3. CASE ChainStep \/ UNCHANGED vars
  <2>1. api' = api /\ wallet' = wallet
    BY <1>3 DEF ChainStep, MineTx, ProcessPreDeposit, ActivateElsewhere, vars, diskVars
  <2>2. QED
    BY <2>1 DEF AccountInv, AccountInvOf
<1>4. QED
  BY <1>1, <1>2, <1>3 DEF Next, ProcStep

(* A deposit's keys are its own until the wallet is saved, and below the counter
   after that. *)
LEMMA KeysAccountedNext ==
    TypeOK /\ DepositInv /\ AccountInv /\ KeysAccounted /\ [Next]_vars
        => KeysAccounted'
<1> SUFFICES ASSUME TypeOK, DepositInv, AccountInv, KeysAccounted, [Next]_vars
             PROVE  KeysAccounted'
  OBVIOUS
<1> USE DEF diskVars, chainVars, ghostVars
<1>1. ASSUME UNCHANGED <<wallet, restored, forgotten>>,
             SubmittedKeys' \ unsaved' \subseteq SubmittedKeys \ unsaved
      PROVE  KeysAccounted'
  BY <1>1 DEF KeysAccounted, KnownToWallet
<1>2. ASSUME NEW p \in Procs, AddValidatorKeys(p)
      PROVE  KeysAccounted'
  <2>1. UNCHANGED <<wallet, restored, forgotten>>
    BY <1>2 DEF AddValidatorKeys
  <2>2. unsaved' = unsaved \cup Indices(api[p].first, api[p].n)
    BY <1>2 DEF AddValidatorKeys
  <2>3. SubmittedKeys' \ unsaved' \subseteq SubmittedKeys \ unsaved
    BY <1>2, <2>2, SentKeys
  <2>4. QED
    BY <1>1, <2>1, <2>3
<1>3. ASSUME NEW p \in Procs, SaveWallet(p)
      PROVE  KeysAccounted'
  <2>0. api[p] \in ProcState /\ AccountInvOf(p) /\ DepositInvOf(p)
    BY DEF TypeOK, AccountInv, DepositInv
  <2> DEFINE first == api[p].first
             n == api[p].n
  <2>1. /\ first \in Nat /\ n \in Nat /\ n >= 1
        /\ wallet.exists /\ wallet.next = first
        /\ api[p].next = first + n
    BY <1>3, <2>0 DEF SaveWallet, AccountInvOf, DepositInvOf, DepositPcs, ProcState
  <2>2. /\ wallet' = [exists |-> TRUE, next |-> api[p].next]
        /\ unsaved' = unsaved \ Indices(first, n)
        /\ UNCHANGED <<restored, forgotten, mempool, registry>>
    BY <1>3 DEF SaveWallet
  <2>3. SubmittedKeys' = SubmittedKeys /\ wallet'.next = first + n /\ wallet'.exists
    BY <2>1, <2>2, SameKeys
  <2> SUFFICES ASSUME NEW k \in SubmittedKeys' \ (unsaved' \cup forgotten')
               PROVE  k < wallet'.next
    BY <2>3 DEF KeysAccounted, KnownToWallet
  <2>4. CASE k \in Indices(first, n)
    BY <2>1, <2>3, <2>4 DEF Indices
  <2>5. CASE k \notin Indices(first, n)
    <3>1. k \in SubmittedKeys \ (unsaved \cup forgotten)
      BY <2>2, <2>3, <2>5
    <3>2. k < first \/ k = first
      BY <2>1, <3>1 DEF KeysAccounted, KnownToWallet
    <3>3. k \in Nat
      BY <3>1, SubmittedType
    <3>4. QED
      BY <2>1, <2>3, <3>2, <3>3
  <2> HIDE DEF first, n
  <2>6. QED
    BY <2>4, <2>5
<1>4. ASSUME NEW p \in Procs, SaveRecoveredWallet(p)
      PROVE  KeysAccounted'
  <2>0. api[p] \in ProcState /\ AccountInvOf(p)
    BY DEF TypeOK, AccountInv
  <2>1. /\ \A k \in api[p].found : k \in Nat /\ k <= api[p].next
        /\ api[p].next \in Nat
    BY <1>4, <2>0 DEF SaveRecoveredWallet, AccountInvOf, ProcState
  <2>2. /\ wallet' = [exists |-> TRUE, next |-> api[p].next]
        /\ restored' = api[p].found
        /\ forgotten' = SubmittedKeys \ api[p].found
        /\ UNCHANGED <<mempool, registry>>
    BY <1>4 DEF SaveRecoveredWallet
  <2>3. SubmittedKeys' = SubmittedKeys
    BY <2>2, SameKeys
  <2>4. \A k \in SubmittedKeys' \ (unsaved' \cup forgotten') :
          k \in api[p].found
    BY <2>2, <2>3
  <2>5. \A k \in api[p].found : k < api[p].next \/ k = api[p].next
    BY <2>1
  <2>6. QED
    BY <2>2, <2>4, <2>5 DEF KeysAccounted, KnownToWallet
<1>5. ASSUME NEW p \in Procs, DepositStep(p)
      PROVE  KeysAccounted'
  <2>1. CASE UNCHANGED <<wallet, mempool, registry, unsaved, restored, forgotten>>
    BY <1>1, <2>1, SameKeys
  <2>2. QED
    BY <1>2, <1>3, <1>5, <2>1
       DEF DepositStep, LoadWallet, ReadKeyCount, CreateValidatorKey,
           ValidatorKeyCreated, CheckBeaconStatus, ReloadKeys, WaitForTransaction
<1>6. ASSUME NEW p \in Procs,
             StartCommand(p) \/ Interrupt(p) \/ InterruptStore(p)
      PROVE  KeysAccounted'
  BY <1>1, <1>6, SameKeys, StartFields DEF Interrupt, InterruptStore
<1>7. ASSUME NEW p \in Procs, RecoverStep(p)
      PROVE  KeysAccounted'
  <2>1. CASE UNCHANGED <<wallet, mempool, registry, unsaved, restored, forgotten>>
    BY <1>1, <2>1, SameKeys
  <2>2. QED
    BY <1>4, <1>7, <2>1
       DEF RecoverStep, SaveValidatorKey, ValidatorKeySaved, AllKeysRecovered,
           AttemptLimitExceeded, ReportRecovery
<1>8. CASE Purge
  BY <1>8 DEF Purge, KeysAccounted
<1>9. CASE ChainStep \/ UNCHANGED vars
  <2>1. UNCHANGED <<wallet, unsaved, restored, forgotten>>
    BY <1>9 DEF ChainStep, MineTx, ProcessPreDeposit, ActivateElsewhere, vars
  <2>2. SubmittedKeys' \subseteq SubmittedKeys
    BY <1>9, SameKeys, MinedKeys
       DEF ChainStep, ProcessPreDeposit, ActivateElsewhere, vars
  <2>3. QED
    BY <1>1, <2>1, <2>2
<1>10. QED
  BY <1>5, <1>6, <1>7, <1>8, <1>9 DEF Next

(* For every order of deposits, recoveries, purges, kills, replaced and reverted
   transactions, as long as one command runs at a time: the wallet finds every
   key that was sent to the registry, but for the exceptions that KeysAccounted
   names. *)
THEOREM SentKeysAreAccounted == OneProcess => (Spec => []KeysAccounted)
<1> SUFFICES ASSUME OneProcess
             PROVE  Spec => []KeysAccounted
  OBVIOUS
<1>1. Init => AccountInv /\ KeysAccounted
  <2>1. ASSUME Init, NEW p \in Procs
        PROVE  api[p].pc = "idle"
    BY <2>1 DEF Init, IdleProc, Fresh
  <2>2. Init => AccountInv
    BY <2>1 DEF AccountInv, AccountInvOf, DepositPcs
  <2>3. Init => KeysAccounted
    BY DEF Init, KeysAccounted
  <2>4. QED
    BY <2>2, <2>3
<1>2. TypeOK /\ DepositInv /\ AccountInv /\ KeysAccounted /\ [Next]_vars
        => AccountInv' /\ KeysAccounted'
  BY AccountInvNext, KeysAccountedNext
<1>3. QED
  BY <1>1, <1>2, TypeCorrect, DepositInvariant, PTL DEF Spec

-----------------------------------------------------------------------------
(* The nonces of the pending transactions, and the vault a deposit counts on. *)

(* What is pending has the nonces from the account's own up to the next free
   one, each once. *)
MempoolInv ==
    /\ nonce <= pending
    /\ \A tx \in mempool : nonce <= tx.nonce /\ tx.nonce < pending
    /\ \A tx, ty \in mempool : tx.nonce = ty.nonce => tx = ty
    /\ \A v \in nonce .. pending - 1 : \E tx \in mempool : tx.nonce = v

Counted == {"create", "storeNew", "check", "reload", "send"}

(* A deposit that saw nothing pending still has the right count, as only it can
   send something, and so has what it sent, as that is mined next. *)
BaseInv ==
    /\ \A p \in Procs :
         api[p].pc \in Counted /\ api[p].behind = {} =>
             mempool = {} /\ api[p].base = keyCount
    /\ \A tx \in mempool : tx.behind = {} => tx.nonce = nonce /\ tx.base = keyCount

VaultInv == MempoolInv /\ BaseInv /\ VaultMatches

(* What a deposit adds to the pending transactions. *)
LEMMA SentTx ==
    ASSUME TypeOK, MempoolInv, NEW p \in Procs, AddValidatorKeys(p)
    PROVE  \E v \in Nat :
             /\ nonce <= v /\ v <= pending
             /\ mempool' = {tx \in mempool : tx.nonce # v}
                             \cup {[nonce |-> v, first |-> api[p].first,
                                    count |-> api[p].n, base |-> api[p].base,
                                    behind |-> api[p].behind]}
             /\ pending' = IF v = pending THEN pending + 1 ELSE pending
             /\ UNCHANGED <<nonce, keyCount, registry>>
BY BoundsAssumption DEF AddValidatorKeys, NonceAllowed

(* A transaction takes the next free nonce, or that of another one. *)
LEMMA MempoolInvSend ==
    ASSUME TypeOK, MempoolInv, NEW p \in Procs, AddValidatorKeys(p)
    PROVE  MempoolInv'
<1>1. PICK v \in Nat :
        /\ nonce <= v /\ v <= pending
        /\ mempool' = {tx \in mempool : tx.nonce # v}
                        \cup {[nonce |-> v, first |-> api[p].first,
                               count |-> api[p].n, base |-> api[p].base,
                               behind |-> api[p].behind]}
        /\ pending' = IF v = pending THEN pending + 1 ELSE pending
        /\ UNCHANGED <<nonce, keyCount, registry>>
  BY SentTx
<1> DEFINE new == [nonce |-> v, first |-> api[p].first,
                   count |-> api[p].n, base |-> api[p].base,
                   behind |-> api[p].behind]
<1>2. /\ new.nonce = v
      /\ mempool' = {tx \in mempool : tx.nonce # v} \cup {new}
  BY <1>1
<1> HIDE DEF new
<1>3. /\ nonce \in Nat /\ pending \in Nat /\ nonce' = nonce
      /\ pending' \in {pending, pending + 1} /\ v < pending'
      /\ \A tx \in mempool : tx.nonce \in Nat
  BY <1>1 DEF TypeOK, Tx
<1>4. \A tx \in mempool' : nonce <= tx.nonce /\ tx.nonce < pending'
  BY <1>1, <1>2, <1>3 DEF MempoolInv
<1>5. \A tx, ty \in mempool' : tx.nonce = ty.nonce => tx = ty
  BY <1>2 DEF MempoolInv
<1>6. ASSUME NEW w \in nonce .. pending' - 1
      PROVE  \E tx \in mempool' : tx.nonce = w
  <2>1. CASE w = v
    BY <1>2, <2>1
  <2>2. CASE w # v
    <3>1. w \in nonce .. pending - 1
      BY <1>1, <1>3, <2>2
    <3>2. PICK tx \in mempool : tx.nonce = w
      BY <3>1 DEF MempoolInv
    <3>3. QED
      BY <1>2, <2>2, <3>2
  <2>3. QED
    BY <2>1, <2>2
<1>7. nonce' <= pending'
  BY <1>1, <1>3
<1>8. QED
  BY <1>3, <1>4, <1>5, <1>6, <1>7 DEF MempoolInv

(* Transactions are mined in the order of their nonces. *)
LEMMA MempoolInvMine ==
    ASSUME TypeOK, MempoolInv, MineTx
    PROVE  MempoolInv'
<1>1. PICK tx \in mempool : /\ tx.nonce = nonce
                            /\ mempool' = mempool \ {tx}
                            /\ nonce' = nonce + 1 /\ pending' = pending
  BY DEF MineTx
<1>2. /\ nonce \in Nat /\ pending \in Nat
      /\ \A ty \in mempool : ty.nonce \in Nat
  BY DEF TypeOK, Tx
<1>3. \A ty \in mempool' : ty \in mempool /\ ty.nonce # nonce
  BY <1>1 DEF MempoolInv
<1>4. nonce' <= pending' /\ \A ty \in mempool' : nonce' <= ty.nonce /\ ty.nonce < pending'
  BY <1>1, <1>2, <1>3 DEF MempoolInv
<1>5. \A ty, tz \in mempool' : ty.nonce = tz.nonce => ty = tz
  BY <1>3 DEF MempoolInv
<1>6. ASSUME NEW w \in nonce' .. pending' - 1
      PROVE  \E ty \in mempool' : ty.nonce = w
  <2>1. w \in nonce .. pending - 1 /\ w # nonce
    BY <1>1, <1>2
  <2>2. PICK ty \in mempool : ty.nonce = w
    BY <2>1 DEF MempoolInv
  <2>3. QED
    BY <1>1, <2>1, <2>2
<1>7. QED
  BY <1>4, <1>5, <1>6 DEF MempoolInv

(* With nothing pending, the next nonce is the next free one. *)
LEMMA EmptyMempool ==
    ASSUME TypeOK, MempoolInv, mempool = {}
    PROVE  nonce = pending
<1>1. nonce \in Nat /\ pending \in Nat /\ nonce <= pending
  BY DEF TypeOK, MempoolInv
<1>2. nonce \notin nonce .. pending - 1
  BY DEF MempoolInv
<1>3. QED
  BY <1>1, <1>2

(* A deposit that saw nothing pending sends what is mined next. *)
LEMMA VaultInvSend ==
    ASSUME TypeOK, VaultInv, OneProcess, NEW p \in Procs, AddValidatorKeys(p)
    PROVE  VaultInv'
<1>1. PICK v \in Nat :
        /\ nonce <= v /\ v <= pending
        /\ mempool' = {tx \in mempool : tx.nonce # v}
                        \cup {[nonce |-> v, first |-> api[p].first,
                               count |-> api[p].n, base |-> api[p].base,
                               behind |-> api[p].behind]}
        /\ UNCHANGED <<nonce, keyCount, registry>>
  BY SentTx DEF VaultInv
<1> DEFINE new == [nonce |-> v, first |-> api[p].first,
                   count |-> api[p].n, base |-> api[p].base,
                   behind |-> api[p].behind]
<1>2. /\ new.nonce = v /\ new.base = api[p].base /\ new.behind = api[p].behind
      /\ mempool' = {tx \in mempool : tx.nonce # v} \cup {new}
  BY <1>1
<1> HIDE DEF new
<1>3. nonce \in Nat /\ pending \in Nat
  BY DEF TypeOK
<1>4. ASSUME new.behind = {}
      PROVE  new.nonce = nonce /\ new.base = keyCount
  <2>1. mempool = {} /\ api[p].base = keyCount
    BY <1>2, <1>4 DEF AddValidatorKeys, VaultInv, BaseInv, Counted
  <2>2. nonce = pending
    BY <2>1, EmptyMempool DEF VaultInv
  <2>3. QED
    BY <1>1, <1>2, <1>3, <2>1, <2>2
<1>5. \A tx \in mempool' : tx.behind = {} => tx.nonce = nonce' /\ tx.base = keyCount'
  BY <1>1, <1>2, <1>4 DEF VaultInv, BaseInv
<1>6. api'[p].pc = "save" /\ \A q \in Procs : q = p
  BY GotoFields DEF AddValidatorKeys, OneProcess
<1>7. BaseInv'
  BY <1>5, <1>6 DEF BaseInv, Counted
<1>8. QED
  BY <1>1, <1>7, MempoolInvSend DEF VaultInv, VaultMatches

(* The registry gives the keys of such a transaction the vaults counted on. *)
LEMMA VaultInvMine ==
    ASSUME TypeOK, VaultInv, MineTx
    PROVE  VaultInv'
<1>1. PICK tx \in mempool :
        /\ tx.nonce = nonce
        /\ mempool' = mempool \ {tx}
        /\ \/ /\ registry' = registry \cup
                    {[key |-> k, slot |-> keyCount + (k - tx.first),
                      vault |-> tx.base + (k - tx.first), behind |-> tx.behind]
                        : k \in TxKeys(tx)}
              /\ keyCount' = keyCount + tx.count
           \/ UNCHANGED <<registry, keyCount>>
        /\ api' = api
  BY DEF MineTx
<1>2. \A ty \in mempool' : ty \in mempool /\ ty.behind # {}
  BY <1>1 DEF VaultInv, MempoolInv, BaseInv
<1>3. mempool # {}
  BY <1>1
<1>4. BaseInv'
  BY <1>1, <1>2, <1>3 DEF VaultInv, BaseInv
<1>5. tx.behind = {} => tx.base = keyCount
  BY DEF VaultInv, BaseInv
<1>6. VaultMatches'
  <2>1. ASSUME NEW r \in registry', r.behind = {}, r \notin registry
        PROVE  r.vault = r.slot
    <3>1. PICK k \in TxKeys(tx) :
            r = [key |-> k, slot |-> keyCount + (k - tx.first),
                 vault |-> tx.base + (k - tx.first), behind |-> tx.behind]
      BY <1>1, <2>1
    <3>2. /\ r.slot = keyCount + (k - tx.first)
          /\ r.vault = tx.base + (k - tx.first)
          /\ r.behind = tx.behind
      BY <3>1
    <3>3. QED
      BY <1>5, <2>1, <3>2
  <2>2. QED
    BY <2>1 DEF VaultInv, VaultMatches
<1>7. QED
  BY <1>4, <1>6, MempoolInvMine DEF VaultInv

(* A step of a process that leaves the chains alone. *)
LEMMA BaseInvProc ==
    ASSUME TypeOK, BaseInv, OneProcess, NEW p \in Procs, ProcStep(p),
           UNCHANGED chainVars
    PROVE  BaseInv'
<1> USE DEF chainVars
<1>0. api[p] \in ProcState /\ \A q \in Procs : q = p
  BY DEF TypeOK, OneProcess
<1> SUFFICES ASSUME api'[p].pc \in Counted, api'[p].behind = {}
             PROVE  mempool = {} /\ api'[p].base = keyCount
  BY <1>0 DEF BaseInv
<1>1. CASE StartCommand(p)
  BY <1>1, StartFields DEF Counted
<1>2. CASE Exit(p)
  BY <1>2, ExitIsIdle DEF Counted
<1>3. CASE ReadKeyCount(p)
  <2> DEFINE behind == {tx.nonce : tx \in mempool}
  <2>1. api' = [api EXCEPT ![p].pc = "create", ![p].base = keyCount,
                           ![p].behind = behind]
    BY <1>3 DEF ReadKeyCount
  <2>2. behind = {} => mempool = {}
    OBVIOUS
  <2> HIDE DEF behind
  <2>3. api'[p].base = keyCount /\ api'[p].behind = behind
    BY <1>0, <2>1 DEF TypeOK, ProcState
  <2>4. QED
    BY <2>2, <2>3
<1>4. ASSUME CreateValidatorKey(p) \/ ValidatorKeyCreated(p)
      PROVE  mempool = {} /\ api'[p].base = keyCount
  <2>1. /\ api[p].next \in Nat /\ api[p].next + 1 \in Nat
        /\ {"storeNew", "check"} \subseteq Pcs /\ api[p].found \in SUBSET Nat
    BY <1>0 DEF ProcState, Pcs
  <2>2. \/ StoreBegins(p, api[p].next, "storeNew", api[p].next + 1)
        \/ StoreEnds(p, "check", api[p].found)
    BY <1>4 DEF CreateValidatorKey, ValidatorKeyCreated
  <2>3. SameTask(p)
    BY <2>1, <2>2, BeginFields, EndFields
  <2>4. api[p].pc \in Counted
    BY <1>4 DEF CreateValidatorKey, ValidatorKeyCreated, Counted
  <2>5. QED
    BY <2>3, <2>4 DEF BaseInv, SameTask
<1>5. ASSUME NEW pc, Goto(p, pc), api[p].pc \in Counted
      PROVE  mempool = {} /\ api'[p].base = keyCount
  BY <1>5, GotoFields DEF BaseInv
<1>6. ASSUME NEW pc \in {"store", "wait", "done"}, Goto(p, pc)
      PROVE  FALSE
  BY <1>6, GotoFields DEF Counted
<1>7. CASE LoadWallet(p)
  <2>1. api'[p].pc \in {"count", "idle"}
    BY <1>0, <1>7, ExitIsIdle DEF LoadWallet, TypeOK, ProcState
  <2>2. QED
    BY <2>1 DEF Counted
<1>8. ASSUME SaveValidatorKey(p) \/ ValidatorKeySaved(p)
      PROVE  FALSE
  <2>1. CASE SaveValidatorKey(p)
    <3>1. PICK k \in api[p].want :
            StoreBegins(p, k, "storeFound", NextAfterRecovery(api[p].next, k))
      BY <2>1 DEF SaveValidatorKey
    <3>2. /\ k \in Nat /\ NextAfterRecovery(api[p].next, k) \in Nat
          /\ "storeFound" \in Pcs
      BY <1>0 DEF ProcState, NextAfterRecovery, Pcs
    <3>3. QED
      BY <3>1, <3>2, BeginFields DEF Counted
  <2>2. CASE ValidatorKeySaved(p)
    <3>1. /\ api[p].found \cup {api[p].key} \in SUBSET Nat /\ "scan" \in Pcs
          /\ StoreEnds(p, "scan", api[p].found \cup {api[p].key})
      BY <1>0, <2>2 DEF ValidatorKeySaved, ProcState, Pcs
    <3>2. QED
      BY <3>1, EndFields DEF Counted
  <2>3. QED
    BY <1>8, <2>1, <2>2
<1>9. ASSUME NEW pc \in {"reload", "store"}, AllStored(p, pc),
             api[p].pc \in Counted \/ pc \notin Counted
      PROVE  mempool = {} /\ api'[p].base = keyCount
  <2>1. pc \in Pcs
    BY <1>9 DEF Pcs
  <2>2. /\ api'[p].pc = pc /\ api'[p].base = api[p].base
        /\ api'[p].behind = api[p].behind
    BY <1>9, <2>1, AllStoredFields
  <2>3. QED
    BY <1>9, <2>2 DEF BaseInv
<1>10. CASE DepositStep(p) /\ ~AddValidatorKeys(p)
  <2>1. CASE CheckBeaconStatus(p)
    BY <1>2, <1>5, <1>9, <2>1 DEF CheckBeaconStatus, Counted
  <2>2. QED
    BY <1>2, <1>3, <1>4, <1>5, <1>6, <1>7, <1>10, <2>1
       DEF DepositStep, ReloadKeys, SaveWallet, WaitForTransaction, Counted
<1>11. CASE AddValidatorKeys(p)
  BY <1>11, GotoFields DEF AddValidatorKeys, Counted
<1>12. CASE RecoverStep(p)
  <2>1. CASE AllKeysRecovered(p)
    BY <1>9, <2>1 DEF AllKeysRecovered, Counted
  <2>2. QED
    BY <1>2, <1>6, <1>8, <1>12, <2>1
       DEF RecoverStep, AttemptLimitExceeded, SaveRecoveredWallet, ReportRecovery
<1>13. CASE Interrupt(p) \/ InterruptStore(p)
  BY <1>2, <1>13 DEF Interrupt, InterruptStore
<1>14. QED
  BY <1>1, <1>10, <1>11, <1>12, <1>13 DEF ProcStep

(* Every step keeps all three. *)
LEMMA VaultInvNext == TypeOK /\ VaultInv /\ [Next]_vars /\ OneProcess => VaultInv'
<1> SUFFICES ASSUME TypeOK, VaultInv, [Next]_vars, OneProcess
             PROVE  VaultInv'
  OBVIOUS
<1>1. ASSUME UNCHANGED <<mempool, nonce, pending, registry, keyCount>>, BaseInv'
      PROVE  VaultInv'
  BY <1>1 DEF VaultInv, MempoolInv, VaultMatches
<1>2. ASSUME NEW p \in Procs, ProcStep(p)
      PROVE  VaultInv'
  <2>1. AddValidatorKeys(p) \/ UNCHANGED chainVars
    BY <1>2, StartFields
       DEF ProcStep, DepositStep, LoadWallet, ReadKeyCount, CreateValidatorKey,
           ValidatorKeyCreated, CheckBeaconStatus, ReloadKeys, SaveWallet,
           WaitForTransaction, RecoverStep, SaveValidatorKey, ValidatorKeySaved,
           AllKeysRecovered, AttemptLimitExceeded, SaveRecoveredWallet,
           ReportRecovery, Interrupt, InterruptStore
  <2>2. CASE UNCHANGED chainVars
    BY <1>1, <1>2, <2>2, BaseInvProc DEF VaultInv, chainVars
  <2>3. QED
    BY <2>1, <2>2, VaultInvSend
<1>3. CASE UNCHANGED <<api, mempool, nonce, pending, registry, keyCount>>
  BY <1>1, <1>3 DEF VaultInv, BaseInv
<1>4. CASE Purge \/ ProcessPreDeposit \/ ActivateElsewhere \/ UNCHANGED vars
  BY <1>3, <1>4 DEF Purge, ProcessPreDeposit, ActivateElsewhere, vars, chainVars
<1>5. QED
  BY <1>2, <1>4, VaultInvMine DEF Next, ProcStep, ChainStep

(* As long as one command runs at a time: deposit data are signed for the vault
   that the registry gives to the key, if nothing was pending when the keys were
   counted, whatever was reverted, replaced or interrupted before or after. *)
THEOREM VaultIsCounted == OneProcess => (Spec => []VaultMatches)
<1> SUFFICES ASSUME OneProcess
             PROVE  Spec => []VaultMatches
  OBVIOUS
<1>1. Init => VaultInv
  <2>1. ASSUME Init, NEW p \in Procs
        PROVE  api[p].pc = "idle"
    BY <2>1 DEF Init, IdleProc, Fresh
  <2>2. Init => BaseInv
    BY <2>1 DEF Init, BaseInv, Counted
  <2>3. Init => MempoolInv /\ VaultMatches
    BY DEF Init, MempoolInv, VaultMatches
  <2>4. QED
    BY <2>2, <2>3 DEF VaultInv
<1>2. TypeOK /\ VaultInv /\ [Next]_vars => VaultInv'
  BY VaultInvNext
<1>3. VaultInv => VaultMatches
  BY DEF VaultInv
<1>4. QED
  BY <1>1, <1>2, <1>3, TypeCorrect, PTL DEF Spec

=============================================================================
