---------------------------- MODULE DaemonProofs ----------------------------
(* Theorems about two loops of the node daemon, each by itself: the presign loop,
   for any number of validators, any page size, any fork epoch and whatever fails
   in between, and the fee recipient task, for any bounds and faults.            *)
EXTENDS PresignDaemon, FeeRecipient, FiniteSetTheorems, TLAPS

-----------------------------------------------------------------------------
(* SignedForItsEpoch is about messages that are kept from one request to the
   next. What makes them right is known before the first is signed: in a fresh
   pass the head has reached the epoch, and it never falls back behind it.    *)

Fields == {"pc", "memory", "listed", "terminal", "have", "epoch", "fresh",
           "page", "todo", "batch"}

IsPass(d) == d = [f \in Fields |-> d[f]]

EpochInv ==
    /\ clock \in Nat
    /\ head \in Nat
    /\ daemon.epoch \in Nat
    /\ daemon.fresh => daemon.epoch <= head

\* Only a page in progress has messages.
BatchInv == daemon.pc \notin {"key", "sign", "send"} => daemon.batch = {}

VersionInv == IsPass(daemon) /\ EpochInv /\ BatchInv /\ SignedForItsEpoch

\* A resting daemon has neither an epoch nor messages.
LEMMA RestingInv ==
    ASSUME NEW pc, NEW memory, daemon' = Resting(pc, memory),
           clock' \in Nat, head' \in Nat
    PROVE  VersionInv'
BY DEF VersionInv, IsPass, Fields, EpochInv, BatchInv, SignedForItsEpoch, Resting

\* While the head has reached the epoch of a pass, the schedule of the head's
\* state gives the version of that epoch, before and after the fork.
LEMMA DomainOfEpoch ==
    ASSUME head \in Nat, NEW epoch \in Nat, epoch <= head
    PROVE  GetDomainData(epoch) = IF epoch < ForkEpoch THEN "old" ELSE "new"
<1>1. CASE head >= ForkEpoch
  <2>1. /\ Fork.epoch = ForkEpoch
        /\ Fork.previous = "old"
        /\ Fork.current = "new"
    BY <1>1 DEF Fork
  <2> QED
    BY <2>1 DEF GetDomainData
<1>2. CASE ~(head >= ForkEpoch)
  <2>1. Fork.epoch = 0 /\ Fork.current = "old"
    BY <1>2 DEF Fork
  <2>2. epoch < ForkEpoch /\ ~(epoch < 0)
    BY <1>2, PresignAssumption
  <2> QED
    BY <2>1, <2>2 DEF GetDomainData
<1> QED
  BY <1>1, <1>2

\* A step of the daemon that keeps the pass's epoch and its messages.
LEMMA SameMessages ==
    ASSUME VersionInv, UNCHANGED <<clock, head>>,
           NEW d, daemon' = d, IsPass(d),
           d.epoch = daemon.epoch, d.fresh = daemon.fresh,
           d.batch = daemon.batch \/ d.batch = {},
           d.pc \notin {"key", "sign", "send"} => d.batch = {}
    PROVE  VersionInv'
BY DEF VersionInv, IsPass, Fields, EpochInv, BatchInv, SignedForItsEpoch

\* Each step of the loop keeps the messages of a page those of its epoch.
LEMMA DaemonStepInv == VersionInv /\ DaemonStep => VersionInv'
<1> SUFFICES ASSUME VersionInv, DaemonStep PROVE VersionInv'
  OBVIOUS
<1> USE DEF PassStep, At, chain
<1>0. IsPass(daemon) /\ EpochInv /\ BatchInv /\ clock' \in Nat /\ head' \in Nat
  BY DEF VersionInv, EpochInv, DaemonStep, StartDaemon, ListValidators, GetBeaconHead,
         Reload, BulkIsPresignedKeyRegistered, NextPage, CheckKey,
         SignExitMessage, SendBatch, Wake
<1>1. CASE StartDaemon
  BY <1>0, <1>1, RestingInv DEF StartDaemon
<1>2. CASE ListValidators
  <2> DEFINE d == [daemon EXCEPT
                    !.pc = "head",
                    !.listed = Cardinality(Registered),
                    !.terminal = {k \in Keys : stage[k] = "terminal"}]
  <2>1. daemon' = d /\ UNCHANGED <<clock, head>>
    BY <1>2 DEF ListValidators
  <2>2. /\ IsPass(d)
        /\ d.epoch = daemon.epoch /\ d.fresh = daemon.fresh
        /\ d.batch = daemon.batch
        /\ d.pc \notin {"key", "sign", "send"} => d.batch = {}
    BY <1>0, <1>2 DEF ListValidators, IsPass, Fields, BatchInv
  <2> HIDE DEF d
  <2> QED
    BY <2>1, <2>2, SameMessages
<1>3. CASE GetBeaconHead
  <2>1. CASE clients
    <3> DEFINE reached == head = clock
               d == [daemon EXCEPT !.pc = "reload", !.epoch = clock,
                                   !.fresh = reached]
    <3>1. daemon' = d /\ UNCHANGED <<clock, head>> /\ daemon.batch = {}
      BY <1>0, <1>3, <2>1 DEF GetBeaconHead, BatchInv
    <3>2. reached => clock <= head
      BY <1>0 DEF EpochInv
    <3> HIDE DEF reached
    <3>3. /\ IsPass(d) /\ d.pc = "reload" /\ d.epoch = clock
          /\ d.fresh = reached /\ d.batch = daemon.batch
      BY <1>0 DEF IsPass, Fields
    <3> HIDE DEF d
    <3> QED
      BY <1>0, <3>1, <3>2, <3>3
         DEF EpochInv, BatchInv, VersionInv, SignedForItsEpoch
  <2>2. CASE ~clients
    BY <1>0, <1>3, <2>2, RestingInv DEF GetBeaconHead, Retry
  <2> QED
    BY <2>1, <2>2
<1>4. CASE Reload
  <2> DEFINE d == [daemon EXCEPT !.pc = "check", !.memory = wallet]
  <2>1. /\ daemon' = d \/ daemon' = Resting("begin", 0)
        /\ UNCHANGED <<clock, head>>
    BY <1>4 DEF Reload
  <2>2. /\ IsPass(d)
        /\ d.epoch = daemon.epoch /\ d.fresh = daemon.fresh
        /\ d.batch = daemon.batch
        /\ d.pc \notin {"key", "sign", "send"} => d.batch = {}
    BY <1>0, <1>4 DEF Reload, IsPass, Fields, BatchInv
  <2> HIDE DEF d
  <2>3. CASE daemon' = d
    BY <2>1, <2>2, <2>3, SameMessages
  <2>4. CASE daemon' = Resting("begin", 0)
    BY <1>0, <2>1, <2>4, RestingInv
  <2> QED
    BY <2>1, <2>3, <2>4
<1>5. CASE BulkIsPresignedKeyRegistered
  <2> DEFINE d == [daemon EXCEPT !.pc = "page",
                                 !.have = stored \cap 1..daemon.listed]
  <2>1. /\ \/ \E pc, memory : daemon' = Resting(pc, memory)
           \/ daemon' = d
        /\ UNCHANGED <<clock, head>>
    BY <1>5 DEF BulkIsPresignedKeyRegistered, Retry
  <2>2. /\ IsPass(d)
        /\ d.epoch = daemon.epoch /\ d.fresh = daemon.fresh
        /\ d.batch = daemon.batch
        /\ d.pc \notin {"key", "sign", "send"} => d.batch = {}
    BY <1>0, <1>5 DEF BulkIsPresignedKeyRegistered, IsPass, Fields, BatchInv
  <2> HIDE DEF d
  <2> QED
    BY <1>0, <2>1, <2>2, RestingInv, SameMessages
<1>6. CASE NextPage
  <2> DEFINE todo == {k \in 1..daemon.listed :
                        k \in (daemon.page * PageSize + 1)
                              ..(daemon.page * PageSize + PageSize)}
             d == [daemon EXCEPT !.pc = "key", !.todo = todo]
  <2>1. /\ \/ \E pc, memory : daemon' = Resting(pc, memory)
           \/ daemon' = d
        /\ UNCHANGED <<clock, head>>
    BY <1>6 DEF NextPage
  <2> HIDE DEF todo
  <2>2. /\ IsPass(d)
        /\ d.epoch = daemon.epoch /\ d.fresh = daemon.fresh
        /\ d.batch = daemon.batch
        /\ d.pc = "key"
    BY <1>0 DEF IsPass, Fields
  <2> HIDE DEF d
  <2> QED
    BY <1>0, <2>1, <2>2, RestingInv, SameMessages
<1>7. CASE CheckKey
  <2>1. /\ UNCHANGED <<clock, head>>
        /\ \E pc \in {"key", "sign", "send"} : \E todo :
              daemon' = [daemon EXCEPT !.pc = pc, !.todo = todo]
    <3>1. \A pc : [daemon EXCEPT !.pc = pc]
                     = [daemon EXCEPT !.pc = pc, !.todo = daemon.todo]
      BY <1>0 DEF IsPass, Fields
    <3>2. \A todo : [daemon EXCEPT !.todo = todo]
                       = [daemon EXCEPT !.pc = daemon.pc, !.todo = todo]
      BY <1>0 DEF IsPass, Fields
    <3>3. CASE \E pc \in {"sign", "send"} : daemon' = [daemon EXCEPT !.pc = pc]
      BY <1>7, <3>1, <3>3 DEF CheckKey
    <3>4. CASE daemon' = [daemon EXCEPT !.todo = @ \ {Key}]
      BY <1>7, <3>2, <3>4 DEF CheckKey
    <3> QED
      BY <1>7, <3>3, <3>4 DEF CheckKey, Goto
  <2>2. PICK pc \in {"key", "sign", "send"} :
          \E todo : daemon' = [daemon EXCEPT !.pc = pc, !.todo = todo]
    BY <2>1
  <2>3. PICK todo : daemon' = [daemon EXCEPT !.pc = pc, !.todo = todo]
    BY <2>2
  <2> DEFINE d == [daemon EXCEPT !.pc = pc, !.todo = todo]
  <2>4. /\ IsPass(d)
        /\ d.epoch = daemon.epoch /\ d.fresh = daemon.fresh
        /\ d.batch = daemon.batch
        /\ d.pc \in {"key", "sign", "send"}
    BY <1>0 DEF IsPass, Fields
  <2>5. daemon' = d
    BY <2>3
  <2> HIDE DEF d
  <2> QED
    BY <2>1, <2>4, <2>5, SameMessages
<1>8. CASE SignExitMessage
  <2> DEFINE message == [key |-> Key, version |-> GetDomainData(daemon.epoch)]
             batch == IF clients THEN daemon.batch \cup {message} ELSE daemon.batch
  <2>1. /\ daemon' = [daemon EXCEPT !.pc = "key", !.todo = @ \ {Key},
                                    !.batch = batch]
        /\ UNCHANGED <<clock, head>>
    BY <1>8 DEF SignExitMessage
  <2>2. daemon.fresh =>
          message.version = IF daemon.epoch < ForkEpoch THEN "old" ELSE "new"
    BY <1>0, DomainOfEpoch DEF EpochInv
  <2>3. daemon.fresh =>
          \A m \in batch :
            m.version = IF daemon.epoch < ForkEpoch THEN "old" ELSE "new"
    BY <2>2 DEF VersionInv, SignedForItsEpoch
  <2> HIDE DEF batch
  <2> QED
    BY <1>0, <2>1, <2>3
       DEF VersionInv, IsPass, Fields, EpochInv, BatchInv, SignedForItsEpoch
<1>9. CASE SendBatch
  <2> DEFINE d == [daemon EXCEPT !.pc = "page", !.page = @ + 1, !.batch = {}]
  <2>1. daemon' = d /\ UNCHANGED <<clock, head>>
    BY <1>9 DEF SendBatch
  <2>2. /\ IsPass(d)
        /\ d.epoch = daemon.epoch /\ d.fresh = daemon.fresh
        /\ d.batch = {}
        /\ d.pc \notin {"key", "sign", "send"} => d.batch = {}
    BY <1>0, <1>9 DEF SendBatch, IsPass, Fields, BatchInv
  <2> HIDE DEF d
  <2> QED
    BY <2>1, <2>2, SameMessages
<1>10. CASE Wake
  <2> DEFINE d == [daemon EXCEPT !.pc = "begin"]
  <2>1. daemon' = d /\ UNCHANGED <<clock, head>>
    BY <1>10 DEF Wake, Goto
  <2>2. /\ IsPass(d)
        /\ d.epoch = daemon.epoch /\ d.fresh = daemon.fresh
        /\ d.batch = daemon.batch
        /\ d.pc \notin {"key", "sign", "send"} => d.batch = {}
    BY <1>0, <1>10 DEF Wake, IsPass, Fields, BatchInv
  <2> HIDE DEF d
  <2> QED
    BY <2>1, <2>2, SameMessages
<1> QED
  BY <1>1, <1>2, <1>3, <1>4, <1>5, <1>6, <1>7, <1>8, <1>9, <1>10 DEF DaemonStep

\* A message carries the fork version of the epoch it is for, although the epoch
\* is read at the start of the pass and the fork validator by validator.
THEOREM VersionIsOfEpoch == Spec => []SignedForItsEpoch
<1>1. Init => VersionInv
  BY DEF Init, Resting, VersionInv, IsPass, Fields, EpochInv, BatchInv, SignedForItsEpoch
<1>2. VersionInv /\ [Next]_vars => VersionInv'
  <2> SUFFICES ASSUME VersionInv, [Next]_vars PROVE VersionInv'
    OBVIOUS
  <2>1. CASE DaemonStep
    BY <2>1, DaemonStepInv
  <2>2. CASE KillDaemon
    BY <2>2, RestingInv DEF KillDaemon, chain, VersionInv, EpochInv
  <2>3. CASE Register \/ SaveWallet \/ Progress \/ FaultOrRepair \/ UNCHANGED vars
    <3>1. UNCHANGED <<clock, head, daemon>>
      BY <2>3 DEF Register, SaveWallet, Progress, FaultOrRepair, World, vars, chain
    <3> QED
      BY <3>1 DEF VersionInv, IsPass, Fields, EpochInv, BatchInv, SignedForItsEpoch
  <2>4. CASE Time
    <3>1. /\ UNCHANGED daemon
          /\ clock' \in Nat /\ head' \in Nat /\ head <= head'
      BY <2>4 DEF Time, World, VersionInv, EpochInv
    <3> QED
      BY <3>1 DEF VersionInv, IsPass, Fields, EpochInv, BatchInv, SignedForItsEpoch
  <2> QED
    BY <2>1, <2>2, <2>3, <2>4 DEF Next
<1> QED
  BY <1>1, <1>2, PTL DEF Spec, VersionInv

-----------------------------------------------------------------------------
(* Types. The key that is checked next is the least of those of the page, and
   a pass lists no more validators than the operator can have.                *)

\* Every set of keys that is not empty has a least key.
LEMMA LeastKey ==
    ASSUME NEW S \in SUBSET Keys, S # {}
    PROVE  Min(S) \in S
<1> DEFINE Less == OpToRel(<, Nat)
<1>1. S \in SUBSET Nat
  BY PresignAssumption DEF Keys
<1>2. IsWellFoundedOn(Less, Nat)
  BY NatLessThanWellFounded
<1>3. \A x, y \in Nat : <<y, x>> \in Less <=> y < x
  BY DEF OpToRel
<1> HIDE DEF Less
<1>4. \E x \in S : \A y \in S : ~(<<y, x>> \in Less)
  BY <1>1, <1>2, WFMin
<1>5. PICK x \in S : \A y \in S : ~(<<y, x>> \in Less)
  BY <1>4
<1>6. ASSUME NEW y \in S PROVE x =< y
  <2>1. x \in Nat /\ y \in Nat
    BY <1>1
  <2>2. ~(y < x)
    BY <1>3, <1>5, <2>1
  <2> QED
    BY <2>1, <2>2
<1> QED
  BY <1>6 DEF Min

\* The registry has at most MaxKeys validators.
LEMMA RegisteredCount == Cardinality(Registered) \in 0..MaxKeys
<1>1. IsFiniteSet(Keys) /\ Cardinality(Keys) = MaxKeys
  BY FS_Interval, PresignAssumption DEF Keys
<1>2. Registered \in SUBSET Keys
  BY DEF Registered
<1> HIDE DEF Keys, Registered
<1>3. IsFiniteSet(Registered) /\ Cardinality(Registered) <= Cardinality(Keys)
  BY <1>1, <1>2, FS_Subset
<1>4. Cardinality(Registered) \in Nat
  BY <1>3, FS_CardinalityType
<1> QED
  BY <1>1, <1>3, <1>4, PresignAssumption

\* A message is signed for a key of the page.
SignInv == daemon.pc = "sign" => daemon.todo # {}

Types == TypeOK /\ SignInv

LEMMA RestingType ==
    ASSUME NEW pc \in Pcs, NEW memory \in 0..MaxKeys, pc # "sign"
    PROVE  Resting(pc, memory) \in Daemon /\ Resting(pc, memory).pc = pc
BY PresignAssumption DEF Resting, Daemon, Keys, Epochs

\* The steps of the loop leave chain, clock and kills alone.
LEMMA PassTypes ==
    ASSUME Types, UNCHANGED <<chain, services, kills>>, stored' \subseteq Keys,
           NEW d \in Daemon, daemon' = d, d.pc = "sign" => d.todo # {}
    PROVE  Types'
BY DEF Types, TypeOK, SignInv, chain, services

LEMMA DaemonStepTypes == Types /\ DaemonStep => Types'
<1> SUFFICES ASSUME Types, DaemonStep PROVE Types'
  OBVIOUS
<1> USE DEF PassStep, At
<1>0. /\ daemon \in Daemon /\ stored \subseteq Keys /\ daemon.memory \in 0..MaxKeys
      /\ daemon.todo \in SUBSET Keys /\ wallet \in 0..MaxKeys /\ clock \in Epochs
  BY DEF Types, TypeOK, Daemon
<1>1. CASE StartDaemon
  <2>1. Resting("begin", wallet) \in Daemon
        /\ Resting("begin", wallet).pc = "begin"
    BY <1>0, RestingType DEF Pcs
  <2> QED
    BY <1>0, <1>1, <2>1, PassTypes DEF StartDaemon
<1>2. CASE ListValidators
  <2> DEFINE count == Cardinality(Registered)
             refused == {k \in Keys : stage[k] = "terminal"}
             d == [daemon EXCEPT !.pc = "head", !.listed = count,
                                 !.terminal = refused]
  <2>1. daemon' = d /\ UNCHANGED <<chain, services, kills, stored>>
    BY <1>2 DEF ListValidators
  <2>2. count \in 0..MaxKeys /\ refused \in SUBSET Keys
    BY RegisteredCount
  <2> HIDE DEF count, refused
  <2>3. d \in Daemon /\ d.pc = "head"
    BY <1>0, <2>2 DEF Daemon, Pcs
  <2> HIDE DEF d
  <2> QED
    BY <1>0, <2>1, <2>3, PassTypes
<1>3. CASE GetBeaconHead
  <2> DEFINE reached == head = clock
             d == [daemon EXCEPT !.pc = "reload", !.epoch = clock,
                                 !.fresh = reached]
  <2>1. reached \in BOOLEAN
    OBVIOUS
  <2>2. /\ daemon' \in {d, Resting("begin", daemon.memory)}
        /\ UNCHANGED <<chain, services, kills, stored>>
    BY <1>3 DEF GetBeaconHead, Retry
  <2> HIDE DEF reached
  <2>3. d \in Daemon /\ d.pc = "reload"
    BY <1>0, <2>1 DEF Daemon, Pcs
  <2>4. Resting("begin", daemon.memory) \in Daemon
        /\ Resting("begin", daemon.memory).pc = "begin"
    BY <1>0, RestingType DEF Pcs
  <2> HIDE DEF d
  <2> QED
    BY <1>0, <2>2, <2>3, <2>4, PassTypes
<1>4. CASE Reload
  <2> DEFINE d == [daemon EXCEPT !.pc = "check", !.memory = wallet]
  <2>1. /\ daemon' \in {d, Resting("begin", 0)}
        /\ UNCHANGED <<chain, services, kills, stored>>
    BY <1>4 DEF Reload
  <2>2. d \in Daemon /\ d.pc = "check"
    BY <1>0 DEF Daemon, Pcs
  <2>3. Resting("begin", 0) \in Daemon /\ Resting("begin", 0).pc = "begin"
    BY RestingType, PresignAssumption DEF Pcs
  <2> HIDE DEF d
  <2> QED
    BY <1>0, <2>1, <2>2, <2>3, PassTypes
<1>5. CASE BulkIsPresignedKeyRegistered
  <2> DEFINE have == stored \cap 1..daemon.listed
             d == [daemon EXCEPT !.pc = "page", !.have = have]
  <2>1. /\ daemon' \in {d, Resting("begin", daemon.memory), Resting("off", 0)}
        /\ UNCHANGED <<chain, services, kills, stored>>
    BY <1>5 DEF BulkIsPresignedKeyRegistered, Retry
  <2>2. have \in SUBSET Keys
    BY <1>0
  <2> HIDE DEF have
  <2>3. d \in Daemon /\ d.pc = "page"
    BY <1>0, <2>2 DEF Daemon, Pcs
  <2>4. /\ Resting("begin", daemon.memory) \in Daemon
        /\ Resting("begin", daemon.memory).pc = "begin"
        /\ Resting("off", 0) \in Daemon
        /\ Resting("off", 0).pc = "off"
    BY <1>0, RestingType, PresignAssumption DEF Pcs
  <2> HIDE DEF d
  <2> QED
    BY <1>0, <2>1, <2>3, <2>4, PassTypes
<1>6. CASE NextPage
  <2> DEFINE todo == {k \in 1..daemon.listed :
                        k \in (daemon.page * PageSize + 1)
                              ..(daemon.page * PageSize + PageSize)}
             d == [daemon EXCEPT !.pc = "key", !.todo = todo]
  <2>1. /\ daemon' \in {d, Resting("sleep", daemon.memory)}
        /\ UNCHANGED <<chain, services, kills, stored>>
    BY <1>6 DEF NextPage
  <2>2. todo \in SUBSET Keys
    <3>1. 1..daemon.listed \subseteq Keys
      BY <1>0, PresignAssumption DEF Daemon, Keys
    <3> QED
      BY <3>1
  <2> HIDE DEF todo
  <2>3. d \in Daemon /\ d.pc = "key"
    BY <1>0, <2>2 DEF Daemon, Pcs
  <2>4. Resting("sleep", daemon.memory) \in Daemon
        /\ Resting("sleep", daemon.memory).pc = "sleep"
    BY <1>0, RestingType DEF Pcs
  <2> HIDE DEF d
  <2> QED
    BY <1>0, <2>1, <2>3, <2>4, PassTypes
<1>7. CASE CheckKey
  <2> DEFINE rest == daemon.todo \ {Key}
             next(pc) == [daemon EXCEPT !.pc = pc]
             d == [daemon EXCEPT !.todo = rest]
  <2>1. /\ \/ daemon' = next("send")
           \/ daemon' = next("sign") /\ daemon.todo # {}
           \/ daemon' = d /\ daemon.pc = "key"
        /\ UNCHANGED <<chain, services, kills, stored>>
    BY <1>7 DEF CheckKey, Goto
  <2>2. rest \in SUBSET Keys
    BY <1>0
  <2> HIDE DEF rest
  <2>3. d \in Daemon /\ d.pc = daemon.pc
    BY <1>0, <2>2 DEF Daemon
  <2>4. \A pc \in Pcs : /\ next(pc) \in Daemon
                        /\ next(pc).pc = pc
                        /\ next(pc).todo = daemon.todo
    BY <1>0 DEF Daemon
  <2>5. "send" \in Pcs /\ "sign" \in Pcs
    BY DEF Pcs
  <2> HIDE DEF d, next
  <2> QED
    BY <1>0, <2>1, <2>3, <2>4, <2>5, PassTypes
<1>8. CASE SignExitMessage
  <2> DEFINE message == [key |-> Key, version |-> GetDomainData(daemon.epoch)]
             batch == IF clients THEN daemon.batch \cup {message} ELSE daemon.batch
             rest == daemon.todo \ {Key}
             d == [daemon EXCEPT !.pc = "key", !.todo = rest, !.batch = batch]
  <2>1. daemon' = d /\ UNCHANGED <<chain, services, kills, stored>>
    BY <1>8 DEF SignExitMessage
  <2>2. Key \in Keys
    BY <1>0, <1>8, LeastKey DEF SignExitMessage, Types, SignInv, Key
  <2>3. GetDomainData(daemon.epoch) \in Versions
    BY DEF GetDomainData, Fork, Versions
  <2>4. batch \in SUBSET [key : Keys, version : Versions]
    <3>1. message \in [key : Keys, version : Versions]
      BY <2>2, <2>3
    <3> QED
      BY <1>0, <3>1 DEF Daemon
  <2>5. rest \in SUBSET Keys
    BY <1>0
  <2> HIDE DEF batch, rest
  <2>6. d \in Daemon /\ d.pc = "key"
    BY <1>0, <2>4, <2>5 DEF Daemon, Pcs
  <2> HIDE DEF d
  <2> QED
    BY <1>0, <2>1, <2>6, PassTypes
<1>9. CASE SendBatch
  <2> DEFINE sent == {m.key : m \in daemon.batch}
             page == daemon.page + 1
             d == [daemon EXCEPT !.pc = "page", !.page = page, !.batch = {}]
  <2>1. daemon' = d /\ UNCHANGED <<chain, services, kills>>
    BY <1>9 DEF SendBatch
  <2>2. sent \subseteq Keys
    BY <1>0 DEF Daemon
  <2>3. page \in Nat
    BY <1>0 DEF Daemon
  <2> HIDE DEF sent, page
  <2>4. stored' \subseteq Keys
    BY <1>0, <1>9, <2>2 DEF SendBatch, sent
  <2>5. d \in Daemon /\ d.pc = "page"
    BY <1>0, <2>3 DEF Daemon, Pcs
  <2> HIDE DEF d
  <2> QED
    BY <2>1, <2>4, <2>5, PassTypes
<1>10. CASE Wake
  <2> DEFINE d == [daemon EXCEPT !.pc = "begin"]
  <2>1. daemon' = d /\ UNCHANGED <<chain, services, kills, stored>>
    BY <1>10 DEF Wake, Goto
  <2>2. d \in Daemon /\ d.pc = "begin"
    BY <1>0 DEF Daemon, Pcs
  <2> HIDE DEF d
  <2> QED
    BY <1>0, <2>1, <2>2, PassTypes
<1> QED
  BY <1>1, <1>2, <1>3, <1>4, <1>5, <1>6, <1>7, <1>8, <1>9, <1>10 DEF DaemonStep

\* Registry, wallet, clock, backend and the loop keep their types: among them,
\* a pass never lists more validators than there are, and never signs for a key
\* that the registry cannot have.
THEOREM PresignTypeCorrect == Spec => []TypeOK
<1>1. Init => Types
  <2> SUFFICES ASSUME Init PROVE Types
    OBVIOUS
  <2>1. Resting("off", 0) \in Daemon /\ Resting("off", 0).pc = "off"
    BY RestingType, PresignAssumption DEF Pcs
  <2>2. /\ stage \in [Keys -> Stages]
        /\ wallet \in 0..MaxKeys /\ clock \in Epochs /\ head \in 0..clock
        /\ backend \in {"up", "flaky", "down"} /\ stored \subseteq Keys
        /\ kills \in Nat
    BY PresignAssumption DEF Init, Stages, Epochs
  <2>3. writing \in BOOLEAN /\ clients \in BOOLEAN
    BY DEF Init
  <2>4. daemon \in Daemon /\ SignInv
    BY <2>1 DEF Init, SignInv
  <2> QED
    BY <2>2, <2>3, <2>4 DEF Types, TypeOK
<1>2. Types /\ [Next]_vars => Types'
  <2> SUFFICES ASSUME Types, [Next]_vars PROVE Types'
    OBVIOUS
  <2>1. CASE DaemonStep
    BY <2>1, DaemonStepTypes
  <2>2. CASE KillDaemon
    <3>1. Resting("off", 0) \in Daemon /\ Resting("off", 0).pc = "off"
      BY RestingType, PresignAssumption DEF Pcs
    <3> QED
      BY <2>2, <3>1 DEF KillDaemon, chain, services, Types, TypeOK, SignInv
  <2>3. CASE Register \/ Progress
    <3>1. stage' \in [Keys -> Stages]
      BY <2>3 DEF Register, Progress, Types, TypeOK, Stages
    <3>2. UNCHANGED <<wallet, writing, clock, head, services, stored, daemon, kills>>
      BY <2>3 DEF Register, Progress, World
    <3> QED
      BY <3>1, <3>2 DEF Types, TypeOK, SignInv, services
  <2>4. CASE SaveWallet
    <3>1. wallet' \in 0..MaxKeys /\ UNCHANGED <<stage, clock, head>>
      <4>1. wallet \in 0..MaxKeys
        BY DEF Types, TypeOK
      <4>2. UNCHANGED <<stage, clock, head>>
        BY <2>4 DEF SaveWallet
      <4>3. wallet < MaxKeys
        BY <2>4 DEF SaveWallet
      <4>4. wallet' = wallet \/ wallet' = wallet + 1
        BY <2>4, Zenon DEF SaveWallet
      <4> QED
        BY <4>1, <4>2, <4>3, <4>4, PresignAssumption
    <3>2. writing' \in BOOLEAN
      BY <2>4 DEF SaveWallet
    <3>3. UNCHANGED <<services, stored, daemon, kills>>
      BY <2>4 DEF SaveWallet, World
    <3> QED
      BY <3>1, <3>2, <3>3 DEF Types, TypeOK, SignInv, services
  <2>5. CASE Time
    BY <2>5, PresignAssumption
       DEF Time, World, services, Types, TypeOK, SignInv, Epochs
  <2>6. CASE FaultOrRepair
    BY <2>6 DEF FaultOrRepair, chain, Types, TypeOK, SignInv
  <2>7. CASE UNCHANGED vars
    BY <2>7 DEF vars, chain, services, Types, TypeOK, SignInv
  <2> QED
    BY <2>1, <2>2, <2>3, <2>4, <2>5, <2>6, <2>7 DEF Next
<1>3. Types => TypeOK
  BY DEF Types
<1> QED
  BY <1>1, <1>2, <1>3, PTL DEF Spec

-----------------------------------------------------------------------------
(* The types of the fee recipient task *)

Task == [pc : TaskPcs, correct : FeeChoices, last : Results]

\* The records that the steps of the task make are tasks.
LEMMA TaskType ==
    ASSUME task \in Task
    PROVE  /\ \A pc \in TaskPcs : [task EXCEPT !.pc = pc] \in Task
           /\ \A result \in Results :
                 [task EXCEPT !.pc = "idle", !.last = result] \in Task
           /\ \A pc \in TaskPcs, c \in FeeChoices :
                 [pc |-> pc, correct |-> c, last |-> "none"] \in Task
           /\ [task EXCEPT !.pc = "off", !.last = "none"] \in Task
BY DEF Task, TaskPcs, Results

\* A client that is started has a type, whatever the file is.
LEMMA StartClientType ==
    ASSUME file \in FileStates, StartClient
    PROVE  vc' \in ContainerStates /\ using' \in Recipients \cup {"none"}
BY DEF StartClient, ContainerStates, FileStates

\* Each step of the daemon keeps the types.
LEMMA TaskStepType == FeeTypeOK /\ TaskStep => FeeTypeOK'
<1> SUFFICES ASSUME FeeTypeOK, TaskStep PROVE FeeTypeOK'
  OBVIOUS
<1>0. task \in Task /\ choice \in FeeChoices /\ file \in FileStates /\ task.correct \in FeeChoices
  BY DEF FeeTypeOK, Task
<1>1. task' \in Task
  <2>1. /\ {"off", "create", "fill", "idle", "check", "open", "write", "restart", "stop"}
             \subseteq TaskPcs
        /\ {"none", "unneeded", "restarted", "stopped", "error"} \subseteq Results
    BY DEF TaskPcs, Results
  <2> QED
    BY <1>0, <2>1, TaskType
       DEF TaskStep, StartStep, FeePassStep, StartTask, CreateDefaultFile,
           FillDefaultFile, GetFeeRecipientInfo, CheckFeeRecipientFile, OpenFile,
           WriteFile, RestartValidator, StopValidator, TaskTo, EndPass
<1>2. file' \in FileStates
  BY <1>0
     DEF TaskStep, StartStep, FeePassStep, StartTask, CreateDefaultFile,
         FillDefaultFile, GetFeeRecipientInfo, CheckFeeRecipientFile, OpenFile,
         WriteFile, RestartValidator, StopValidator, FileStates, Recipients
<1>3. vc' \in ContainerStates /\ using' \in Recipients \cup {"none"}
  <2>1. CASE RestartValidator
    BY <1>0, <2>1, StartClientType DEF RestartValidator, FeeTypeOK, vcVars
  <2>2. CASE StopValidator
    BY <2>2 DEF StopValidator, FeeTypeOK, vcVars, AfterStop, ContainerStates
  <2>3. CASE StartStep \/ (FeePassStep /\ ~RestartValidator /\ ~StopValidator)
    BY <2>3
       DEF StartStep, FeePassStep, StartTask, CreateDefaultFile, FillDefaultFile,
           GetFeeRecipientInfo, CheckFeeRecipientFile, OpenFile, WriteFile,
           vcVars, FeeTypeOK
  <2> QED
    BY <2>1, <2>2, <2>3 DEF TaskStep, FeePassStep
<1>4. UNCHANGED <<envVars, taskKills>>
  BY DEF TaskStep, StartStep, FeePassStep, StartTask, CreateDefaultFile,
         FillDefaultFile, GetFeeRecipientInfo, CheckFeeRecipientFile, OpenFile,
         WriteFile, RestartValidator, StopValidator
<1> QED
  BY <1>1, <1>2, <1>3, <1>4 DEF FeeTypeOK, Task, envVars

\* Every state of FeeRecipient has the declared types.
THEOREM FeeTypeCorrect == FeeSpec => []FeeTypeOK
<1>1. FeeInit => FeeTypeOK
  BY DEF FeeInit, FeeTypeOK, FeeChoices, Recipients, FileStates, ContainerStates, TaskPcs, Results
<1>2. FeeTypeOK /\ [FeeNext]_feeVars => FeeTypeOK'
  <2> SUFFICES ASSUME FeeTypeOK, [FeeNext]_feeVars PROVE FeeTypeOK'
    OBVIOUS
  <2>1. CASE TaskStep
    BY <2>1, TaskStepType
  <2>2. CASE KillTask
    <3>1. task' \in Task
      BY <2>2, TaskType DEF KillTask, FeeTypeOK, Task
    <3> QED
      BY <2>2, <3>1 DEF KillTask, FeeTypeOK, Task, envVars, vcVars
  <2>3. CASE StartContainer \/ RestartByCommand
    BY <2>3, StartClientType DEF StartContainer, RestartByCommand, FeeTypeOK, envVars
  <2>4. CASE ClientExits
    BY <2>4 DEF ClientExits, FeeTypeOK, envVars, ContainerStates
  <2>5. CASE UpdateSocializeEl
    BY <2>5 DEF UpdateSocializeEl, FeeTypeOK, vcVars
  <2>6. CASE Disturb
    BY <2>6 DEF Disturb, FeeTypeOK, vcVars
  <2>7. CASE UNCHANGED feeVars
    BY <2>7 DEF feeVars, envVars, vcVars, FeeTypeOK
  <2> QED
    BY <2>1, <2>2, <2>3, <2>4, <2>5, <2>6, <2>7 DEF FeeNext
<1> QED
  BY <1>1, <1>2, PTL DEF FeeSpec

-----------------------------------------------------------------------------
(* A restart that was reported. The client can only be started with what the
   file has, so what has to be shown is that the file stays the one of the pass:
   from its write on, until the task goes on.                               *)

SafeInv ==
    /\ task.pc = "restart" => file = task.correct
    /\ task.last = "restarted" =>
          /\ task.pc = "idle"
          /\ file = task.correct
          /\ vc \in {"running", "exited"}
          /\ vc = "exited" \/ using = task.correct

IInv == FeeTypeOK /\ SafeInv

\* A start, by whomever, gives a client the file's recipient.
LEMMA StartsWithFile ==
    ASSUME StartClient, file \in FeeChoices
    PROVE  vc' = "running" /\ using' = file
BY DEF StartClient, Recipients

\* Each step of the daemon keeps the file the one of its pass, once written.
LEMMA TaskStepSafe == IInv /\ TaskStep => SafeInv'
<1> SUFFICES ASSUME IInv, TaskStep PROVE SafeInv'
  OBVIOUS
<1>0. /\ task \in Task /\ task.correct \in FeeChoices /\ DOMAIN task = {"pc", "correct", "last"}
  BY DEF IInv, FeeTypeOK, Task
<1>1. ASSUME NEW pc \in TaskPcs, task.pc # "idle", TaskTo(pc),
             pc = "restart" => file' = task.correct
      PROVE  SafeInv'
  <2>1. task'.pc = pc /\ task'.last = task.last /\ task'.correct = task.correct
    BY <1>0, <1>1 DEF TaskTo
  <2> QED
    BY <1>1, <2>1 DEF IInv, SafeInv
<1>2. ASSUME NEW result \in Results, EndPass(result),
             result = "restarted" => /\ file' = task.correct /\ vc' = "running"
                                     /\ using' = task.correct
      PROVE  SafeInv'
  <2>1. task'.pc = "idle" /\ task'.last = result /\ task'.correct = task.correct
    BY <1>0, <1>2 DEF EndPass, Task
  <2> QED
    BY <1>2, <2>1 DEF SafeInv
<1>3. CASE StartStep
  <2>1. \E pc \in TaskPcs \ {"restart"} : task.pc # "idle" /\ TaskTo(pc)
    BY <1>3
       DEF StartStep, StartTask, CreateDefaultFile, FillDefaultFile, TaskPcs
  <2> QED
    BY <1>1, <2>1
<1>4. CASE GetFeeRecipientInfo
  BY <1>4 DEF GetFeeRecipientInfo, SafeInv
<1>5. CASE CheckFeeRecipientFile \/ OpenFile
  <2>1. \/ EndPass("unneeded")
        \/ \E pc \in {"open", "write", "stop"} : task.pc # "idle" /\ TaskTo(pc)
    BY <1>5 DEF CheckFeeRecipientFile, OpenFile
  <2> QED
    BY <1>1, <1>2, <2>1 DEF TaskPcs, Results
<1>6. CASE WriteFile
  <2>1. \/ TaskTo("restart") /\ file' = task.correct
        \/ TaskTo("stop")
    BY <1>6 DEF WriteFile
  <2> QED
    BY <1>1, <1>6, <2>1 DEF WriteFile, TaskPcs
<1>7. CASE RestartValidator
  <2>1. file = task.correct /\ UNCHANGED file
    BY <1>7 DEF RestartValidator, IInv, SafeInv
  <2>2. \/ StartClient /\ EndPass("restarted")
        \/ EndPass("error")
    BY <1>7 DEF RestartValidator
  <2>3. StartClient => vc' = "running" /\ using' = file
    BY <1>0, <2>1, StartsWithFile
  <2> QED
    BY <1>2, <2>1, <2>2, <2>3 DEF Results
<1>8. CASE StopValidator
  <2>1. EndPass("error") \/ EndPass("stopped")
    BY <1>8 DEF StopValidator
  <2> QED
    BY <1>2, <2>1 DEF Results
<1> QED
  BY <1>3, <1>4, <1>5, <1>6, <1>7, <1>8 DEF TaskStep, FeePassStep

\* When a pass reports a restart, the client uses the recipient that the pass
\* found correct until the next pass, whoever restarts it and however often.
THEOREM RestartIsSafe == FeeSpec => []RestartedIsSafe
<1>1. FeeInit => SafeInv
  BY DEF FeeInit, SafeInv
<1>2. IInv /\ [FeeNext]_feeVars => SafeInv'
  <2> SUFFICES ASSUME IInv, [FeeNext]_feeVars PROVE SafeInv'
    OBVIOUS
  <2>0. task \in Task /\ task.correct \in FeeChoices
    BY DEF IInv, FeeTypeOK, Task
  <2>1. CASE TaskStep
    BY <2>1, TaskStepSafe
  <2>2. CASE KillTask
    BY <2>0, <2>2 DEF KillTask, SafeInv, Task
  <2>3. CASE StartContainer \/ RestartByCommand
    <3>1. StartClient /\ UNCHANGED <<file, task>>
      BY <2>3 DEF StartContainer, RestartByCommand
    <3>2. file \in FeeChoices => vc' = "running" /\ using' = file
      BY <3>1, StartsWithFile
    <3> QED
      BY <2>0, <3>1, <3>2 DEF IInv, SafeInv
  <2>4. CASE ClientExits
    BY <2>4 DEF ClientExits, IInv, SafeInv
  <2>5. CASE UpdateSocializeEl \/ Disturb
    BY <2>5 DEF UpdateSocializeEl, Disturb, vcVars, IInv, SafeInv
  <2>6. CASE UNCHANGED feeVars
    BY <2>6 DEF feeVars, vcVars, IInv, SafeInv
  <2> QED
    BY <2>1, <2>2, <2>3, <2>4, <2>5, <2>6 DEF FeeNext
<1>3. FeeSpec => []SafeInv
  BY <1>1, <1>2, FeeTypeCorrect, PTL DEF FeeSpec, IInv
<1>4. SafeInv => RestartedIsSafe
  BY DEF SafeInv, RestartedIsSafe
<1> QED
  BY <1>3, <1>4, PTL

=============================================================================
