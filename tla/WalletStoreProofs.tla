-------------------------- MODULE WalletStoreProofs --------------------------
(***************************************************************************)
(* That a complete wallet file always loads, that a purge leaves no key in *)
(* any process, and that no daemon mixes two mnemonics before something    *)
(* fails: for every set of mnemonics and passwords, and any number of      *)
(* commands, of kills and of Docker failures.                              *)
(***************************************************************************)
EXTENDS WalletStore, TLAPS

\* The states a command begins with, ends in, and goes through.
LEMMA IdleType == Idle \in Session
BY DEF Idle, Session, Pcs, Seeds, PasswordStates

LEMMA DownType == Down \in Daemon
BY DEF Down, Daemon, Seeds

LEMMA GotoType ==
    ASSUME TypeOK, NEW pc \in Pcs, Goto(pc)
    PROVE  session' \in Session
BY DEF TypeOK, Goto, Session

LEMMA FailType ==
    ASSUME Fail
    PROVE  session' \in Session
BY IdleType DEF Fail

\* A command that has not begun to do anything keeps the types.
LEMMA BeginType ==
    ASSUME TypeOK, NEW s \in Session, Begin(s)
    PROVE  TypeOK'
BY DEF TypeOK, Begin, files, client

LEMMA RestartType ==
    ASSUME TypeOK, NEW pc \in Pcs, RestartClient(pc)
    PROVE  /\ session' \in Session
           /\ vc' \in ContainerStates
           /\ loaded' \subseteq Seeds
<1>1. session' \in Session
  BY GotoType, FailType DEF RestartClient
<1>2. vc' \in ContainerStates /\ loaded' \subseteq Seeds
  BY DEF TypeOK, RestartClient, StartClient, client, ContainerStates
<1>3. QED
  BY <1>1, <1>2

\* The variables of the files, the processes and the session keep their types.
THEOREM TypeCorrect == Spec => []TypeOK
<1>1. Init => TypeOK
  BY IdleType, DownType
     DEF Init, TypeOK, NoWallet, WalletFile, Seeds, PasswordStates,
        ContainerStates
<1>2. TypeOK /\ [Next]_vars => TypeOK'
  <2> SUFFICES ASSUME TypeOK, [Next]_vars
               PROVE  TypeOK'
    OBVIOUS
  <2>1. CASE StartRecovery
    <3>1. PICK m \in Mnemonics :
            Begin([Idle EXCEPT
                     !.pc = IF password = Nothing THEN "password" ELSE "create",
                     !.seed = m])
      BY <2>1 DEF StartRecovery
    <3>2. [Idle EXCEPT
             !.pc = IF password = Nothing THEN "password" ELSE "create",
             !.seed = m] \in Session
      BY DEF Idle, Session, Pcs, Seeds, PasswordStates
    <3>3. QED
      BY <3>1, <3>2, BeginType
  <2>2. CASE StartDeposit
    <3>1. [Idle EXCEPT !.pc = "keys", !.seed = wallet.seed, !.pw = wallet.pw]
            \in Session
      BY DEF TypeOK, WalletFile, Idle, Session, Pcs
    <3>2. QED
      BY <2>2, <3>1, BeginType DEF StartDeposit
  <2>3. CASE StartPurge
    <3>1. [Idle EXCEPT !.pc = "stop"] \in Session
      BY DEF Idle, Session, Pcs, Seeds, PasswordStates
    <3>2. QED
      BY <2>3, <3>1, BeginType DEF StartPurge
  <2>4. CASE SetPassword
    BY <2>4, GotoType
       DEF SetPassword, SessionStep, TypeOK, files, client, Pcs, PasswordStates
  <2>5. CASE FillPassword
    BY <2>5, GotoType
       DEF FillPassword, SessionStep, TypeOK, files, client, Pcs,
          PasswordStates
  <2>6. CASE RecoverWallet
    <3>1. session' \in Session
      BY <2>6 DEF RecoverWallet, TypeOK, Session, Pcs
    <3>2. QED
      BY <2>6, <3>1 DEF RecoverWallet, SessionStep, TypeOK, files, client
  <2>7. CASE RecoverStaderKeys
    <3>1. session' \in Session
      BY <2>7, GotoType, FailType DEF RecoverStaderKeys, Pcs
    <3>2. keystore' \subseteq Seeds
      BY <2>7 DEF RecoverStaderKeys, TypeOK, Session
    <3>3. QED
      BY <2>7, <3>1, <3>2 DEF RecoverStaderKeys, SessionStep, TypeOK, files,
         client
  <2>8. CASE OpenWallet
    BY <2>8, GotoType
       DEF OpenWallet, SessionStep, TypeOK, files, client, Pcs, TornWallet,
          WalletFile, Seeds, PasswordStates
  <2>9. CASE WriteWallet
    <3>1. wallet' \in WalletFile
      BY <2>9 DEF WriteWallet, TypeOK, Session, WalletFile
    <3>2. QED
      BY <2>9, <3>1, IdleType DEF WriteWallet, SessionStep, TypeOK, files,
         client
  <2>10. CASE StoreValidatorKeys
    <3>1. keystore' \subseteq Seeds
      BY <2>10 DEF StoreValidatorKeys, TypeOK, Session
    <3>2. QED
      BY <2>10, <3>1, GotoType DEF StoreValidatorKeys, Pcs, SessionStep,
         TypeOK, files, client
  <2>11. CASE ReloadKeys
    <3>1. "send" \in Pcs
      BY DEF Pcs
    <3>2. CASE RestartClient("send")
      BY <2>11, <3>1, <3>2, RestartType DEF ReloadKeys, SessionStep, TypeOK, files
    <3>3. CASE Goto("send") /\ UNCHANGED client
      BY <2>11, <3>1, <3>3, GotoType
         DEF ReloadKeys, SessionStep, TypeOK, files, client
    <3>4. QED
      BY <2>11, <3>2, <3>3 DEF ReloadKeys
  <2>12. CASE AddValidatorKeys
    BY <2>12, GotoType, FailType
       DEF AddValidatorKeys, SessionStep, TypeOK, files, client, Pcs
  <2>13. CASE StopValidator
    BY <2>13, GotoType, FailType
       DEF StopValidator, SessionStep, TypeOK, files, client, AfterStop, Pcs,
          ContainerStates
  <2>14. CASE DeleteValidatorStores
    BY <2>14, GotoType
       DEF DeleteValidatorStores, SessionStep, TypeOK, files, client, Pcs
  <2>15. CASE DeleteWallet
    BY <2>15, GotoType
       DEF DeleteWallet, SessionStep, TypeOK, files, client, Pcs, NoWallet,
          WalletFile, Seeds, PasswordStates
  <2>16. CASE DeletePassword
    BY <2>16, GotoType
       DEF DeletePassword, SessionStep, TypeOK, files, client, Pcs,
          PasswordStates
  <2>17. CASE RestartValidator
    <3>1. "node" \in Pcs
      BY DEF Pcs
    <3>2. QED
      BY <2>17, <3>1, RestartType DEF RestartValidator, SessionStep, TypeOK,
         files, client
  <2>18. CASE RestartNode
    BY <2>18, GotoType, FailType, DownType
       DEF RestartNode, SessionStep, TypeOK, files, client, Pcs
  <2>19. CASE RestartGuardian
    <3>1. [Idle EXCEPT !.last = "purged"] \in Session
      BY DEF Idle, Session, Pcs, Seeds, PasswordStates
    <3>2. QED
      BY <2>19, <3>1, FailType, DownType DEF RestartGuardian, SessionStep,
         TypeOK, files, client
  <2>20. CASE KillCommand
    BY <2>20, IdleType DEF KillCommand, TypeOK, files, client
  <2>21. ASSUME NEW d \in Daemons, StartDaemon(d)
       PROVE  TypeOK'
    <3>1. [up |-> TRUE, seed |-> wallet.seed, key |-> wallet.seed] \in Daemon
      BY DEF TypeOK, WalletFile, Daemon
    <3>2. QED
      BY <2>21, <3>1 DEF StartDaemon, ProcessStep, TypeOK, files, client
  <2>22. ASSUME NEW d \in Daemons, DaemonExits(d)
       PROVE  TypeOK'
    BY <2>22, DownType
       DEF DaemonExits, ProcessStep, TypeOK, files, client
  <2>23. CASE Reload
    <3>1. PICK s \in Seeds : daemon' = [daemon EXCEPT !["node"].seed = s]
      BY <2>23 DEF Reload, TypeOK, WalletFile, Seeds
    <3>2. daemon' \in [Daemons -> Daemon]
      BY <3>1 DEF TypeOK, Daemon
    <3>3. QED
      BY <2>23, <3>2 DEF Reload, ProcessStep, TypeOK, files, client
  <2>24. CASE RestartByDaemon
    BY <2>24
       DEF RestartByDaemon, ProcessStep, TypeOK, files, client, StartClient,
          ContainerStates
  <2>25. CASE StopByDaemon
    BY <2>25
       DEF StopByDaemon, ProcessStep, TypeOK, files, client, AfterStop,
          ContainerStates
  <2>26. CASE StartContainer
    BY <2>26
       DEF StartContainer, ProcessStep, TypeOK, files, client, StartClient,
          ContainerStates
  <2>27. CASE ClientExits
    BY <2>27
       DEF ClientExits, ProcessStep, TypeOK, files, client, ContainerStates
  <2>28. CASE FaultOrRepair
    BY <2>28 DEF FaultOrRepair, TypeOK, files, client
  <2>29. CASE UNCHANGED vars
    BY <2>29 DEF vars, TypeOK, files, client
  <2>30. QED
    BY <2>1, <2>2, <2>3, <2>4, <2>5, <2>6, <2>7, <2>8, <2>9, <2>10, <2>11,
       <2>12, <2>13, <2>14, <2>15, <2>16, <2>17, <2>18, <2>19, <2>20, <2>21,
       <2>22, <2>23, <2>24, <2>25, <2>26, <2>27, <2>28, <2>29
       DEF Next, RecoveryStep, DepositStep, PurgeStep, DaemonStep
<1>3. QED
  BY <1>1, <1>2, PTL DEF Spec

-----------------------------------------------------------------------------
(* The inductive invariant, in three parts *)

\* The wallet file is encrypted with the password on disk, and so will be the
\* one that a command is about to write; the password only changes while there
\* is no complete wallet file.
LoadsInv ==
    /\ WalletLoads
    /\ session.pc \in {"recover", "open", "write", "keys", "reload", "send"}
            => session.pw = password
    /\ session.pc \in {"password", "fill", "create"} => wallet.state # "whole"

\* What a purge has deleted stays deleted while it goes on.
DeletedInv ==
    /\ session.pc \in {"wallet", "passwd", "restart", "node", "guardian"}
            => keystore = {}
    /\ session.pc \in {"passwd", "restart", "node", "guardian"}
            => wallet.state = "absent"

\* The processes that a purge has restarted have no keys.
ForgottenInv ==
    /\ session.pc \in {"node", "guardian"} => loaded = {}
    /\ session.pc = "guardian" => ~daemon["node"].up
    /\ session.last = "purged" =>
          /\ session.pc = "idle"
          /\ keystore = {}
          /\ wallet.state = "absent"
          /\ loaded = {}
          /\ \A d \in Daemons : ~daemon[d].up
    /\ \A d \in Daemons : ~daemon[d].up => daemon[d].key = Nothing

IInv == LoadsInv /\ DeletedInv /\ ForgottenInv

LEMMA IInvInit == Init => IInv
BY DEF Init, NoWallet, Down, Idle, Daemons, IInv, LoadsInv, DeletedInv,
       ForgottenInv, WalletLoads

LEMMA IInvNext == TypeOK /\ IInv /\ [Next]_vars => IInv'
<1> SUFFICES ASSUME TypeOK, IInv, [Next]_vars
             PROVE  IInv'
  OBVIOUS
<1>1. CASE StartRecovery
  BY <1>1
     DEF StartRecovery, Begin, At, Idle, files, client, TypeOK, Session,
            WalletFile, Daemon, IInv, LoadsInv, DeletedInv, ForgottenInv,
            WalletLoads
<1>2. CASE StartDeposit
  BY <1>2
     DEF StartDeposit, Begin, At, Idle, files, client, Loads, TypeOK,
            Session, WalletFile, Daemon, IInv, LoadsInv, DeletedInv,
            ForgottenInv, WalletLoads
<1>3. CASE StartPurge
  BY <1>3
     DEF StartPurge, Begin, At, Idle, files, client, TypeOK, Session,
            WalletFile, Daemon, IInv, LoadsInv, DeletedInv, ForgottenInv,
            WalletLoads
<1>4. CASE SetPassword
  BY <1>4
     DEF SetPassword, SessionStep, At, Goto, Fail, Idle, files, client,
            TypeOK, Session, WalletFile, Daemon, IInv, LoadsInv, DeletedInv,
            ForgottenInv, WalletLoads
<1>5. CASE FillPassword
  BY <1>5
     DEF FillPassword, SessionStep, At, Goto, Fail, Idle, files, client,
            TypeOK, Session, WalletFile, Daemon, IInv, LoadsInv, DeletedInv,
            ForgottenInv, WalletLoads
<1>6. CASE RecoverWallet
  BY <1>6
     DEF RecoverWallet, SessionStep, At, Goto, Fail, Idle, files, client,
            TypeOK, Session, WalletFile, Daemon, IInv, LoadsInv, DeletedInv,
            ForgottenInv, WalletLoads
<1>7. CASE RecoverStaderKeys
  BY <1>7
     DEF RecoverStaderKeys, SessionStep, At, Goto, Fail, Idle, files, client,
            TypeOK, Session, WalletFile, Daemon, IInv, LoadsInv, DeletedInv,
            ForgottenInv, WalletLoads
<1>8. CASE OpenWallet
  BY <1>8
     DEF OpenWallet, SessionStep, At, Goto, Fail, Idle, TornWallet, files,
            client, TypeOK, Session, WalletFile, Daemon, IInv, LoadsInv,
            DeletedInv, ForgottenInv, WalletLoads
<1>9. CASE WriteWallet
  BY <1>9
     DEF WriteWallet, SessionStep, At, Goto, Fail, Idle, files, client,
            TypeOK, Session, WalletFile, Daemon, IInv, LoadsInv, DeletedInv,
            ForgottenInv, WalletLoads
<1>10. CASE StoreValidatorKeys
  BY <1>10
     DEF StoreValidatorKeys, SessionStep, At, Goto, Fail, Idle, files,
            client, TypeOK, Session, WalletFile, Daemon, IInv, LoadsInv,
            DeletedInv, ForgottenInv, WalletLoads
<1>11. CASE ReloadKeys
  <2>1. \/ session' = [session EXCEPT !.pc = "send"]
        \/ session' = Idle
    BY <1>11 DEF ReloadKeys, RestartClient, Goto, Fail
  <2>2. QED
    BY <1>11, <2>1
       DEF ReloadKeys, Idle, SessionStep, At, files, client, TypeOK,
           Session, IInv, LoadsInv, DeletedInv, ForgottenInv, WalletLoads
<1>12. CASE AddValidatorKeys
  BY <1>12
     DEF AddValidatorKeys, SessionStep, At, Goto, Fail, Idle, files, client,
            TypeOK, Session, WalletFile, Daemon, IInv, LoadsInv, DeletedInv,
            ForgottenInv, WalletLoads
<1>13. CASE StopValidator
  <2>1. \/ session' = [session EXCEPT !.pc = "stores"]
        \/ session' = Idle
    BY <1>13 DEF StopValidator, Goto, Fail
  <2>2. QED
    BY <1>13, <2>1
       DEF StopValidator, Idle, SessionStep, At, files, client, TypeOK,
           Session, IInv, LoadsInv, DeletedInv, ForgottenInv, WalletLoads
<1>14. CASE DeleteValidatorStores
  BY <1>14
     DEF DeleteValidatorStores, SessionStep, At, Goto, Fail, Idle, files,
            client, TypeOK, Session, WalletFile, Daemon, IInv, LoadsInv,
            DeletedInv, ForgottenInv, WalletLoads
<1>15. CASE DeleteWallet
  BY <1>15
     DEF DeleteWallet, SessionStep, At, Goto, Fail, Idle, NoWallet, files,
            client, TypeOK, Session, WalletFile, Daemon, IInv, LoadsInv,
            DeletedInv, ForgottenInv, WalletLoads
<1>16. CASE DeletePassword
  BY <1>16
     DEF DeletePassword, SessionStep, At, Goto, Fail, Idle, files, client,
            TypeOK, Session, WalletFile, Daemon, IInv, LoadsInv, DeletedInv,
            ForgottenInv, WalletLoads
<1>17. CASE RestartValidator
  <2>1. \/ session' = [session EXCEPT !.pc = "node"] /\ loaded' = keystore
        \/ session' = Idle
    BY <1>17 DEF RestartValidator, RestartClient, StartClient, Goto, Fail
  <2>2. QED
    BY <1>17, <2>1
       DEF RestartValidator, Idle, SessionStep, At, files, client, TypeOK,
           Session, IInv, LoadsInv, DeletedInv, ForgottenInv, WalletLoads
<1>18. CASE RestartNode
  BY <1>18
     DEF RestartNode, SessionStep, At, Goto, Fail, Idle, Down, Daemons,
            files, client, TypeOK, Session, WalletFile, Daemon, IInv,
            LoadsInv, DeletedInv, ForgottenInv, WalletLoads
<1>19. CASE RestartGuardian
  BY <1>19
     DEF RestartGuardian, SessionStep, At, Goto, Fail, Idle, Down, Daemons,
            files, client, TypeOK, Session, WalletFile, Daemon, IInv,
            LoadsInv, DeletedInv, ForgottenInv, WalletLoads
<1>20. CASE KillCommand
  BY <1>20
     DEF KillCommand, At, Idle, files, client, IInv, LoadsInv, DeletedInv,
            ForgottenInv, WalletLoads
<1>21. ASSUME NEW d \in Daemons, StartDaemon(d)
     PROVE  IInv'
  BY <1>21
     DEF StartDaemon, ProcessStep, Loads, files, client, TypeOK, Session,
            WalletFile, Daemon, IInv, LoadsInv, DeletedInv, ForgottenInv,
            WalletLoads
<1>22. ASSUME NEW d \in Daemons, DaemonExits(d)
     PROVE  IInv'
  BY <1>22
     DEF DaemonExits, ProcessStep, Down, files, client, TypeOK, Session,
            WalletFile, Daemon, IInv, LoadsInv, DeletedInv, ForgottenInv,
            WalletLoads
<1>23. CASE Reload
  BY <1>23
     DEF Reload, ProcessStep, Loads, Daemons, files, client, TypeOK, Session,
            WalletFile, Daemon, IInv, LoadsInv, DeletedInv, ForgottenInv,
            WalletLoads
<1>24. CASE RestartByDaemon
  BY <1>24
     DEF RestartByDaemon, ProcessStep, StartClient, Daemons, files, client,
            TypeOK, Session, WalletFile, Daemon, IInv, LoadsInv, DeletedInv,
            ForgottenInv, WalletLoads
<1>25. CASE StopByDaemon
  BY <1>25
     DEF StopByDaemon, ProcessStep, AfterStop, files, client, TypeOK,
            Session, WalletFile, Daemon, IInv, LoadsInv, DeletedInv,
            ForgottenInv, WalletLoads
<1>26. CASE StartContainer
  BY <1>26
     DEF StartContainer, ProcessStep, StartClient, files, client, TypeOK,
            Session, WalletFile, Daemon, IInv, LoadsInv, DeletedInv,
            ForgottenInv, WalletLoads
<1>27. CASE ClientExits
  BY <1>27
     DEF ClientExits, ProcessStep, files, client, TypeOK, Session,
            WalletFile, Daemon, IInv, LoadsInv, DeletedInv, ForgottenInv,
            WalletLoads
<1>28. CASE FaultOrRepair
  BY <1>28
     DEF FaultOrRepair, files, client, IInv, LoadsInv, DeletedInv,
            ForgottenInv, WalletLoads
<1>29. CASE UNCHANGED vars
  BY <1>29
     DEF vars, files, client, IInv, LoadsInv, DeletedInv, ForgottenInv,
            WalletLoads
<1>30. QED
  BY <1>1, <1>2, <1>3, <1>4, <1>5, <1>6, <1>7, <1>8, <1>9, <1>10, <1>11, <1>12,
     <1>13, <1>14, <1>15, <1>16, <1>17, <1>18, <1>19, <1>20, <1>21, <1>22,
     <1>23, <1>24, <1>25, <1>26, <1>27, <1>28, <1>29
     DEF Next, RecoveryStep, DepositStep, PurgeStep, DaemonStep

LEMMA IInvariant == Spec => []IInv
<1>1. QED
  BY IInvInit, IInvNext, TypeCorrect, PTL DEF Spec

\* A complete wallet file is always encrypted with the password on disk,
\* however many commands were killed in whatever place.
THEOREM CompleteWalletLoads == Spec => []WalletLoads
<1>1. IInv => WalletLoads
  BY DEF IInv, LoadsInv
<1>2. QED
  BY <1>1, IInvariant, PTL

\* After a purge that reported success no process holds a purged key.
THEOREM PurgeIsComplete == Spec => []PurgeForgets
<1>1. IInv => PurgeForgets
  BY DEF IInv, ForgottenInv, PurgeForgets
<1>2. QED
  BY <1>1, IInvariant, PTL

-----------------------------------------------------------------------------
(* One mnemonic in the memory of a daemon *)

\* The steps of a purge behind the deletion of the wallet.
Purging == {"passwd", "restart", "node", "guardian"}

\* The wallet in the memory of a daemon that runs is the one on disk, and the
\* one that is about to be written there. Without a wallet on disk there is a
\* daemon only while the purge has not come to restart it.
UpInv(d) ==
    daemon[d].up =>
        /\ daemon[d].seed = daemon[d].key
        /\ wallet.state = "whole" => daemon[d].key = wallet.seed
        /\ wallet.state = "torn" => daemon[d].key = session.seed
        /\ wallet.state = "absent" =>
              /\ session.pc \in Purging
              /\ session.pc = "guardian" => d = "guardian"

\* How far the command has come tells the wallet file.
FileInv ==
    /\ session.pc \in {"idle", "stop", "stores", "wallet", "open"}
          => wallet.state # "torn"
    /\ session.pc \in {"password", "fill", "create", "recover"} \cup Purging
          => wallet.state = "absent"
    /\ session.pc = "write" => wallet.state = "torn"
    /\ session.pc \in {"keys", "reload", "send"} => wallet.state = "whole"
    /\ session.pc \in {"keys", "reload", "send", "open"} /\ wallet.state = "whole"
          => session.seed = wallet.seed

\* A purge that deletes files has a container to restart, and can.
OutageInv ==
    /\ docker
    /\ session.pc \in {"stores", "wallet", "passwd", "restart"} => vc # "missing"

\* Up to the first failure.
UncutInv == OutageInv /\ FileInv /\ \A d \in Daemons : UpInv(d)

MnemonicInv ==
    /\ failures = 0 => UncutInv
    /\ \A d \in Daemons : ~daemon[d].up => daemon[d].seed = Nothing

LEMMA MnemonicInvInit == Init => MnemonicInv
BY DEF Init, NoWallet, Down, Idle, Daemons, MnemonicInv, UncutInv, OutageInv,
       FileInv, UpInv, Purging

LEMMA MnemonicInvNext ==
    TypeOK /\ IInv /\ MnemonicInv /\ [Next]_vars => MnemonicInv'
<1> SUFFICES ASSUME TypeOK, IInv, MnemonicInv, [Next]_vars
             PROVE  MnemonicInv'
  OBVIOUS
<1>1. CASE StartRecovery
  BY <1>1
     DEF StartRecovery, Begin, At, Idle, files, client, Daemons, TypeOK,
         Session, WalletFile, Daemon, MnemonicInv, UncutInv, OutageInv,
         FileInv, UpInv, Purging
<1>2. CASE StartDeposit
  BY <1>2
     DEF StartDeposit, Begin, At, Idle, Loads, files, client, Daemons,
         TypeOK, Session, WalletFile, Daemon, MnemonicInv, UncutInv,
         OutageInv, FileInv, UpInv, Purging
<1>3. CASE StartPurge
  BY <1>3
     DEF StartPurge, Begin, At, Idle, LoadFails, Loads, files, client,
         Daemons, TypeOK, Session, WalletFile, Daemon, MnemonicInv,
         UncutInv, OutageInv, FileInv, UpInv, Purging
<1>4. CASE SetPassword
  BY <1>4
     DEF SetPassword, SessionStep, At, Goto, Fail, Idle, files, client,
         Daemons, TypeOK, Session, WalletFile, Daemon, MnemonicInv,
         UncutInv, OutageInv, FileInv, UpInv, Purging
<1>5. CASE FillPassword
  BY <1>5
     DEF FillPassword, SessionStep, At, Goto, Fail, Idle, files, client,
         Daemons, TypeOK, Session, WalletFile, Daemon, MnemonicInv,
         UncutInv, OutageInv, FileInv, UpInv, Purging
<1>6. CASE RecoverWallet
  BY <1>6
     DEF RecoverWallet, SessionStep, At, Goto, Fail, Idle, files, client,
         Daemons, TypeOK, Session, WalletFile, Daemon, MnemonicInv,
         UncutInv, OutageInv, FileInv, UpInv, Purging
<1>7. CASE RecoverStaderKeys
  BY <1>7
     DEF RecoverStaderKeys, SessionStep, At, Goto, Fail, Idle, files,
         client, Daemons, TypeOK, Session, WalletFile, Daemon, MnemonicInv,
         UncutInv, OutageInv, FileInv, UpInv, Purging
<1>8. CASE OpenWallet
  BY <1>8
     DEF OpenWallet, SessionStep, At, Goto, Fail, Idle, TornWallet, files,
         client, Daemons, TypeOK, Session, WalletFile, Daemon, MnemonicInv,
         UncutInv, OutageInv, FileInv, UpInv, Purging
<1>9. CASE WriteWallet
  BY <1>9
     DEF WriteWallet, SessionStep, At, Goto, Fail, Idle, files, client,
         Daemons, TypeOK, Session, WalletFile, Daemon, MnemonicInv,
         UncutInv, OutageInv, FileInv, UpInv, Purging
<1>10. CASE StoreValidatorKeys
  BY <1>10
     DEF StoreValidatorKeys, SessionStep, At, Goto, Fail, Idle, files,
         client, Daemons, TypeOK, Session, WalletFile, Daemon, MnemonicInv,
         UncutInv, OutageInv, FileInv, UpInv, Purging
<1>11. CASE ReloadKeys
  BY <1>11
     DEF ReloadKeys, SessionStep, At, Goto, Fail, Idle, RestartClient,
         StartClient, ContainerStates, Reachable, files, client, Daemons,
         TypeOK, Session, WalletFile, Daemon, MnemonicInv, UncutInv,
         OutageInv, FileInv, UpInv, Purging
<1>12. CASE AddValidatorKeys
  BY <1>12
     DEF AddValidatorKeys, SessionStep, At, Goto, Fail, Idle, files,
         client, Daemons, TypeOK, Session, WalletFile, Daemon, MnemonicInv,
         UncutInv, OutageInv, FileInv, UpInv, Purging
<1>13. CASE StopValidator
  BY <1>13
     DEF StopValidator, SessionStep, At, Goto, Fail, Idle, StopFails,
         AfterStop, Reachable, files, client, Daemons, TypeOK, Session,
         WalletFile, Daemon, MnemonicInv, UncutInv, OutageInv, FileInv,
         UpInv, Purging
<1>14. CASE DeleteValidatorStores
  BY <1>14
     DEF DeleteValidatorStores, SessionStep, At, Goto, Fail, Idle, files,
         client, Daemons, TypeOK, Session, WalletFile, Daemon, MnemonicInv,
         UncutInv, OutageInv, FileInv, UpInv, Purging
<1>15. CASE DeleteWallet
  BY <1>15
     DEF DeleteWallet, SessionStep, At, Goto, Fail, Idle, NoWallet, files,
         client, Daemons, TypeOK, Session, WalletFile, Daemon, MnemonicInv,
         UncutInv, OutageInv, FileInv, UpInv, Purging
<1>16. CASE DeletePassword
  BY <1>16
     DEF DeletePassword, SessionStep, At, Goto, Fail, Idle, files, client,
         Daemons, TypeOK, Session, WalletFile, Daemon, MnemonicInv,
         UncutInv, OutageInv, FileInv, UpInv, Purging
<1>17. CASE RestartValidator
  BY <1>17
     DEF RestartValidator, SessionStep, At, Goto, Fail, Idle,
         RestartClient, StartClient, Reachable, files, client, Daemons,
         TypeOK, Session, WalletFile, Daemon, MnemonicInv, UncutInv,
         OutageInv, FileInv, UpInv, Purging
<1>18. CASE RestartNode
  BY <1>18
     DEF RestartNode, SessionStep, At, Goto, Fail, Idle, Down, files,
         client, Daemons, TypeOK, Session, WalletFile, Daemon, MnemonicInv,
         UncutInv, OutageInv, FileInv, UpInv, Purging
<1>19. CASE RestartGuardian
  BY <1>19
     DEF RestartGuardian, SessionStep, At, Goto, Fail, Idle, Down, files,
         client, Daemons, TypeOK, Session, WalletFile, Daemon, MnemonicInv,
         UncutInv, OutageInv, FileInv, UpInv, Purging
<1>20. CASE KillCommand
  BY <1>20
     DEF KillCommand, At, Idle, files, client, TypeOK, MnemonicInv,
         UncutInv, OutageInv, FileInv, UpInv, Purging
<1>21. ASSUME NEW d \in Daemons, StartDaemon(d)
     PROVE  MnemonicInv'
  BY <1>21
     DEF StartDaemon, ProcessStep, Loads, files, client, Daemons, TypeOK,
         Session, WalletFile, Daemon, MnemonicInv, UncutInv, OutageInv,
         FileInv, UpInv, Purging
<1>22. ASSUME NEW d \in Daemons, DaemonExits(d)
     PROVE  MnemonicInv'
  BY <1>22
     DEF DaemonExits, ProcessStep, Down, files, client, Daemons, TypeOK,
         Session, WalletFile, Daemon, MnemonicInv, UncutInv, OutageInv,
         FileInv, UpInv, Purging
<1>23. CASE Reload
  BY <1>23
     DEF Reload, ProcessStep, Loads, IInv, LoadsInv, WalletLoads, files,
         client, Daemons, TypeOK, Session, WalletFile, Daemon, MnemonicInv,
         UncutInv, OutageInv, FileInv, UpInv, Purging
<1>24. CASE RestartByDaemon
  BY <1>24
     DEF RestartByDaemon, ProcessStep, StartClient, files, client, Daemons,
         TypeOK, Session, WalletFile, Daemon, MnemonicInv, UncutInv,
         OutageInv, FileInv, UpInv, Purging
<1>25. CASE StopByDaemon
  BY <1>25
     DEF StopByDaemon, ProcessStep, AfterStop, StopFails, Reachable, files,
         client, Daemons, TypeOK, Session, WalletFile, Daemon, MnemonicInv,
         UncutInv, OutageInv, FileInv, UpInv, Purging
<1>26. CASE StartContainer
  BY <1>26
     DEF StartContainer, ProcessStep, StartClient, files, client, Daemons,
         TypeOK, Session, WalletFile, Daemon, MnemonicInv, UncutInv,
         OutageInv, FileInv, UpInv, Purging
<1>27. CASE ClientExits
  BY <1>27
     DEF ClientExits, ProcessStep, files, client, Daemons, TypeOK, Session,
         WalletFile, Daemon, MnemonicInv, UncutInv, OutageInv, FileInv,
         UpInv, Purging
<1>28. CASE FaultOrRepair
  BY <1>28
     DEF FaultOrRepair, files, client, TypeOK, MnemonicInv, UncutInv,
         OutageInv, FileInv, UpInv, Purging
<1>29. CASE UNCHANGED vars
  BY <1>29
     DEF vars, files, client, MnemonicInv, UncutInv, OutageInv, FileInv,
         UpInv, Purging
<1>30. QED
  BY <1>1, <1>2, <1>3, <1>4, <1>5, <1>6, <1>7, <1>8, <1>9, <1>10, <1>11,
     <1>12, <1>13, <1>14, <1>15, <1>16, <1>17, <1>18, <1>19, <1>20, <1>21,
     <1>22, <1>23, <1>24, <1>25, <1>26, <1>27, <1>28, <1>29
     DEF Next, RecoveryStep, DepositStep, PurgeStep, DaemonStep

\* As long as no command is killed and Docker does not fail, a daemon does not
\* mix the cached node key of one mnemonic with the seed of another: whenever
\* the presign loop reloads the wallet, it is the one it had.
THEOREM DaemonsKeepOneMnemonic == Spec => []OneMnemonic
<1>1. TypeOK /\ MnemonicInv => OneMnemonic
  BY DEF OneMnemonic, MnemonicInv, UncutInv, UpInv
<1>2. QED
  BY <1>1, MnemonicInvInit, MnemonicInvNext, IInvariant, TypeCorrect, PTL
     DEF Spec

=============================================================================
