------------------------- MODULE MerkleProofsProofs -------------------------
(***************************************************************************)
(* Theorems about MerkleProofs, for any number of sessions, accounts and   *)
(* cycles: the types; that a proof file is empty only while it is being    *)
(* written or because a write was cut short; and what the message of a     *)
(* claim says of the socializing pool.                                     *)
(***************************************************************************)
EXTENDS MerkleProofs, TLAPS

-----------------------------------------------------------------------------
(* Types. A process downloads with the account of a wallet, and it is at a *)
(* file from the moment it creates one.                                    *)

GoodWriter ==
    {d \in Writer : /\ d.pc # "off" => d.account \in Accounts
                    /\ d.pc \in {"create", "encode"} => d.at \in Cycles}

TypeInv == TypeOK /\ writer \in [Writers -> GoodWriter]

\* A writer that is not at a file is one of the type's.
LEMMA NotWritingType ==
    /\ NotWriting("off", NoAccount) \in GoodWriter
    /\ \A pc \in {"sleep", "fetch"}, a \in Accounts :
            NotWriting(pc, a) \in GoodWriter
BY DEF NotWriting, Writer, GoodWriter

\* A session that has ended is one of the type's.
LEMMA EndedType ==
    ASSUME NEW out \in {"none", "uptodate", "claimed", "failed"}
    PROVE  Ended(out) \in Session
BY DEF Ended, Session

\* The end of a download leaves types alone.
LEMMA EndDownloadType ==
    ASSUME TypeInv, NEW w \in Writers, NEW ok \in BOOLEAN, ~At(w, "off"),
           EndDownload(w, ok)
    PROVE  /\ writer' \in [Writers -> GoodWriter]
           /\ session' \in [Sessions -> Session]
<1>1. writer[w] \in GoodWriter
  BY DEF TypeInv
<1>2. writer[w].account \in Accounts
  BY <1>1 DEF GoodWriter, At
<1>3. /\ NotWriting("sleep", writer[w].account) \in GoodWriter
      /\ NotWriting("off", NoAccount) \in GoodWriter
  BY <1>2, NotWritingType
<1>4. writer' \in [Writers -> GoodWriter]
  BY <1>3 DEF EndDownload, TypeInv, TypeOK
<1>5. \A s \in Sessions : [session[s] EXCEPT !.pc = "can"] \in Session
  <2> SUFFICES ASSUME NEW s \in Sessions
               PROVE  [session[s] EXCEPT !.pc = "can"] \in Session
    OBVIOUS
  <2>1. session[s] \in Session
    BY DEF TypeInv, TypeOK
  <2> QED
    BY <2>1 DEF Session
<1>6. Ended("none") \in Session /\ \A s \in Sessions : session[s] \in Session
  BY EndedType DEF TypeInv, TypeOK
<1>7. session' \in [Sessions -> Session]
  BY <1>5, <1>6 DEF EndDownload
<1> QED
  BY <1>4, <1>7

\* A step of a writer keeps the types if the writer's new state has one.
LEMMA WriterType ==
    ASSUME TypeInv, NEW w \in Writers, NEW x \in GoodWriter,
           writer' = [writer EXCEPT ![w] = x]
    PROVE  writer' \in [Writers -> GoodWriter]
BY DEF TypeInv, TypeOK

\* A reply to a session keeps the types if the session's new state has one.
LEMMA ReplyType ==
    ASSUME TypeInv, NEW s \in Sessions, NEW x \in Session, Reply(s, x)
    PROVE  session' \in [Sessions -> Session]
BY DEF TypeInv, TypeOK, Reply

\* The payment of a claim keeps the types.
LEMMA PayType ==
    ASSUME TypeInv, NEW by \in Sessions \cup {Elsewhere}, NEW a, NEW cycles,
           Pay(by, a, cycles)
    PROVE  /\ session' \in [Sessions -> Session]
           /\ payer' \in [Accounts \X Cycles -> Sessions \cup {Elsewhere, NoSession}]
<1>1. \A s \in Sessions :
        /\ [session[s] EXCEPT !.pc = "mined", !.out = "claimed"] \in Session
        /\ [session[s] EXCEPT !.raced = @ \/ Loses(s, a, cycles)] \in Session
  <2> TAKE s \in Sessions
  <2>1. session[s] \in Session
    BY DEF TypeInv, TypeOK
  <2>2. (session[s].raced \/ Loses(s, a, cycles)) \in BOOLEAN
    BY <2>1 DEF Session
  <2> QED
    BY <2>1, <2>2 DEF Session
<1>2. session' \in [Sessions -> Session]
  BY <1>1 DEF Pay
<1>3. payer' \in [Accounts \X Cycles -> Sessions \cup {Elsewhere, NoSession}]
  BY DEF Pay, TypeInv, TypeOK
<1> QED
  BY <1>2, <1>3

\* A fault is counted.
LEMMA FaultType ==
    ASSUME TypeInv, Fault
    PROVE  faults' \in Nat
BY DEF TypeInv, TypeOK, Fault

\* What a download does to the state has the declared types.
LEMMA DownloadType ==
    ASSUME ProofAssumption, TypeInv, NEW w \in Writers, Download(w)
    PROVE  TypeInv'
<1> DEFINE d == writer[w]
<1>0. d \in GoodWriter
  BY DEF TypeInv
<1>1. d \in Writer
  BY <1>0 DEF GoodWriter
<1>a. /\ d.pc \in {"off", "sleep", "fetch", "next", "create", "encode"}
      /\ d.account \in Accounts \cup {NoAccount}
      /\ d.todo \subseteq Cycles
      /\ d.at \in Cycles \cup {0}
      /\ d.pc # "off" => d.account \in Accounts
      /\ d.pc \in {"create", "encode"} => d.at \in Cycles
  BY <1>0, <1>1 DEF Writer, GoodWriter
<1>g. writer' \in [Writers -> GoodWriter] => writer' \in [Writers -> Writer]
  BY DEF GoodWriter
<1>t. writer \in [Writers -> GoodWriter] /\ writer \in [Writers -> Writer]
  BY DEF TypeInv, TypeOK
<1>2. CASE GetAllMerkleProofsForOperator(w)
  <2>1. ProofsOf(d.account) \subseteq Cycles
    BY DEF ProofsOf
  <2>2. writer' \in [Writers -> GoodWriter]
    BY <1>2, <1>t, <1>0, <1>1, <1>a, <2>1 DEF GetAllMerkleProofsForOperator, WriterStep, At, GoodWriter, Writer
  <2> QED
    BY <1>2, <1>g, <2>2 DEF GetAllMerkleProofsForOperator, WriterStep, world, TypeInv, TypeOK
<1>3. CASE BackendFails(w)
  <2>1. writer' \in [Writers -> GoodWriter] /\ session' \in [Sessions -> Session]
    BY <1>3, EndDownloadType DEF BackendFails, WriterStep, At
  <2> QED
    BY <1>3, <1>g, <2>1 DEF BackendFails, WriterStep, world, TypeInv, TypeOK
<1>4. CASE NextProof(w)
  <2>1. CASE EndDownload(w, TRUE)
    <3>1. writer' \in [Writers -> GoodWriter] /\ session' \in [Sessions -> Session]
      BY <1>4, <2>1, EndDownloadType DEF NextProof, WriterStep, At
    <3> QED
      BY <1>4, <1>g, <3>1 DEF NextProof, WriterStep, world, TypeInv, TypeOK
  <2>2. CASE ~EndDownload(w, TRUE)
    <3>1. PICK c \in d.todo :
             /\ writer' = [writer EXCEPT
                            ![w].pc = IF file[c] = "missing" THEN "create" ELSE @,
                            ![w].at = IF file[c] = "missing" THEN c ELSE @,
                            ![w].todo = @ \ {c}]
             /\ UNCHANGED session
      BY <1>4, <2>2 DEF NextProof
    <3> DEFINE pc == IF file[c] = "missing" THEN "create" ELSE d.pc
               at == IF file[c] = "missing" THEN c ELSE d.at
               n  == [d EXCEPT !.pc = pc, !.at = at, !.todo = @ \ {c}]
    <3>3. d.pc = "next"
      BY <1>4 DEF NextProof, WriterStep, At
    <3>4. /\ pc \in {"create", "next"}
          /\ pc = "create" => at \in Cycles
          /\ at \in Cycles \cup {0}
      BY <1>a, <3>3
    <3>5. n \in GoodWriter
      <4> HIDE DEF pc, at
      <4> QED
        BY <1>1, <1>a, <3>3, <3>4 DEF Writer, GoodWriter
    <3>6. writer' = [writer EXCEPT ![w] = n]
      BY <3>1
    <3>2. writer' \in [Writers -> GoodWriter]
      <4> HIDE DEF n
      <4> QED
        BY <1>t, <3>5, <3>6
    <3> QED
      BY <1>4, <1>g, <3>1, <3>2 DEF NextProof, WriterStep, world, TypeInv, TypeOK
  <2> QED
    BY <2>1, <2>2
<1>5. CASE CreateFile(w)
  <2>1. CASE Fault /\ EndDownload(w, FALSE) /\ UNCHANGED file
    <3>1. writer' \in [Writers -> GoodWriter] /\ session' \in [Sessions -> Session]
      BY <1>5, <2>1, EndDownloadType DEF CreateFile, WriterStep, At
    <3> QED
      BY <1>5, <1>g, <2>1, <3>1, FaultType DEF CreateFile, WriterStep, world, TypeInv, TypeOK
  <2>2. CASE /\ file' = [file EXCEPT ![d.at] = "empty"]
             /\ writer' = [writer EXCEPT ![w].pc = "encode"]
             /\ UNCHANGED <<session, faults>>
    <3>1. writer' \in [Writers -> GoodWriter]
      BY <1>5, <2>2, <1>t, <1>0, <1>1, <1>a DEF CreateFile, WriterStep, At, GoodWriter, Writer
    <3>2. file' \in [Cycles -> Contents]
      BY <2>2 DEF TypeInv, TypeOK, Contents
    <3> QED
      BY <1>5, <1>g, <2>2, <3>1, <3>2 DEF CreateFile, WriterStep, world, TypeInv, TypeOK
  <2> QED
    BY <1>5, <2>1, <2>2 DEF CreateFile
<1>6. CASE Encode(w)
  <2>1. CASE /\ Fault
             /\ EndDownload(w, FALSE)
             /\ cut' = cut \cup {d.at}
             /\ UNCHANGED file
    <3>1. writer' \in [Writers -> GoodWriter] /\ session' \in [Sessions -> Session]
      BY <1>6, <2>1, EndDownloadType DEF Encode, WriterStep, At
    <3> QED
      BY <1>6, <1>g, <2>1, <3>1, FaultType, <1>a DEF Encode, WriterStep, At, world, TypeInv, TypeOK
  <2>2. CASE /\ \E x \in (IF file[d.at] \in {"empty", d.account} THEN {d.account}
                          ELSE {d.account, "spliced"}) :
                  file' = [file EXCEPT ![d.at] = x]
             /\ writer' = [writer EXCEPT ![w].pc = "next", ![w].at = 0]
             /\ UNCHANGED <<session, cut, faults>>
    <3>1. writer' \in [Writers -> GoodWriter]
      BY <1>6, <2>2, <1>t, <1>0, <1>1, <1>a DEF Encode, WriterStep, At, GoodWriter, Writer
    <3>2. file' \in [Cycles -> Contents]
      BY <1>6, <2>2, <1>a DEF Encode, WriterStep, At, TypeInv, TypeOK, Contents
    <3> QED
      BY <1>6, <1>g, <2>2, <3>1, <3>2 DEF Encode, WriterStep, world, TypeInv, TypeOK
  <2> QED
    BY <1>6, <2>1, <2>2 DEF Encode
<1> QED
  BY <1>2, <1>3, <1>4, <1>5, <1>6 DEF Download

\* What a session does between its downloads has the declared types.
LEMMA SessionType ==
    ASSUME ProofAssumption, TypeInv, NEW s \in Sessions, Start(s) \/ Claim(s)
    PROVE  TypeInv'
<1> DEFINE d == session[s]
<1>1. d \in Session
  BY DEF TypeInv, TypeOK
<1>2. Ended("none") \in Session /\ Ended("uptodate") \in Session
  BY EndedType
<1>3. s \in Writers
  BY DEF Writers
<1>4. \A x \in Session :
        Reply(s, x) /\ UNCHANGED <<world, file, writer, payer, cut, bounds>> => TypeInv'
  <2> SUFFICES ASSUME NEW x \in Session, Reply(s, x),
                      UNCHANGED <<world, file, writer, payer, cut, bounds>>
               PROVE  TypeInv'
    OBVIOUS
  <2>1. session' \in [Sessions -> Session]
    BY ReplyType
  <2> QED
    BY <2>1 DEF TypeInv, TypeOK, world, bounds
<1>5. ASSUME NEW claims \in BOOLEAN, wallet \in Accounts, StartWriting(s, claims),
             UNCHANGED <<world, file, payer, cut, bounds>>
      PROVE  TypeInv'
  <2>1. NotWriting("fetch", wallet) \in GoodWriter
    BY <1>5, NotWritingType
  <2>2. writer' \in [Writers -> GoodWriter]
    BY <1>3, <1>5, <2>1, WriterType DEF StartWriting
  <2>3. [Ended("none") EXCEPT !.pc = "download", !.claims = claims] \in Session
    BY <1>2 DEF Session
  <2>4. session' \in [Sessions -> Session]
    BY <1>5, <2>3, ReplyType DEF StartWriting
  <2> QED
    BY <1>5, <2>2, <2>4 DEF TypeInv, TypeOK, GoodWriter, world, bounds
<1>6. CASE CanDownloadSpMerkleProofs(s)
  BY <1>2, <1>4, <1>5, <1>6 DEF CanDownloadSpMerkleProofs, SessionStep
<1>7. CASE ClaimSpRewards(s)
  BY <1>5, <1>7 DEF ClaimSpRewards, SessionStep
<1>8. CASE CanClaimSpRewards(s)
  <2>1. Unclaimed(wallet) \subseteq Cycles
    BY DEF Unclaimed, Cycles, TypeInv, TypeOK, ProofAssumption
  <2>2. [d EXCEPT !.pc = "details", !.listed = Unclaimed(wallet)] \in Session
    BY <1>1, <2>1 DEF Session
  <2> QED
    BY <1>2, <1>4, <1>8, <2>2 DEF CanClaimSpRewards, SessionStep
<1>9. CASE GetCyclesDetailedInfo(s)
  <2> DEFINE exist == {c \in d.listed : file[c] # "missing"}
  <2>1. d.listed \subseteq Cycles
    BY <1>1 DEF Session
  <2>2. \A picked \in SelectCycles(exist) :
          [d EXCEPT !.pc = "estimate", !.picked = picked, !.listed = {}] \in Session
    <3> TAKE picked \in SelectCycles(exist)
    <3>1. picked \subseteq Cycles
      BY <2>1 DEF SelectCycles
    <3> QED
      BY <1>1, <3>1 DEF Session
  <2> QED
    BY <1>2, <1>4, <1>9, <2>2 DEF GetCyclesDetailedInfo, SessionStep
<1>10. CASE EstimateSpRewardsGas(s)
  <2>1. [d EXCEPT !.pc = "claim"] \in Session
    BY <1>1 DEF Session
  <2> QED
    BY <1>2, <1>4, <1>10, <2>1 DEF EstimateSpRewardsGas, SessionStep
<1>11. CASE SendClaim(s)
  <2>1. [d EXCEPT !.pc = "pending", !.account = wallet] \in Session
    BY <1>1 DEF Session, TypeInv, TypeOK
  <2> QED
    BY <1>2, <1>4, <1>11, <2>1 DEF SendClaim, SessionStep, Claimable
<1>12. CASE MineClaim(s)
  <2>1. CASE Pay(s, d.account, d.picked)
    <3>1. session' \in [Sessions -> Session]
      BY <2>1, PayType
    <3>2. payer' \in [Accounts \X Cycles -> Sessions \cup {Elsewhere, NoSession}]
      BY <2>1, PayType
    <3> QED
      BY <1>12, <3>1, <3>2 DEF MineClaim, SessionStep, TypeInv, TypeOK, world, bounds
  <2>2. CASE ~Pay(s, d.account, d.picked)
    <3>1. [d EXCEPT !.pc = "mined", !.out = "failed"] \in Session
      BY <1>1 DEF Session
    <3> QED
      BY <1>4, <1>12, <2>2, <3>1 DEF MineClaim, SessionStep
  <2> QED
    BY <2>1, <2>2
<1>13. CASE WaitForTransaction(s)
  <2>1. [d EXCEPT !.pc = "idle", !.claims = FALSE] \in Session
    BY <1>1 DEF Session
  <2> QED
    BY <1>4, <1>13, <2>1 DEF WaitForTransaction, SessionStep
<1> QED
  BY <1>6, <1>7, <1>8, <1>9, <1>10, <1>11, <1>12, <1>13 DEF Start, Claim

\* Types are kept by the other steps, and so by every step.
LEMMA TypeStep ==
    ASSUME ProofAssumption, TypeInv, [Next]_vars
    PROVE  TypeInv'
<1>0. Daemon \in Writers
  BY DEF Writers
<1>1. ASSUME NEW w \in Writers, Download(w)
      PROVE  TypeInv'
  BY <1>1, DownloadType
<1>2. CASE StartDaemon
  <2>1. NotWriting("sleep", wallet) \in GoodWriter
    BY <1>2, NotWritingType DEF StartDaemon
  <2>2. writer' \in [Writers -> GoodWriter]
    BY <1>0, <1>2, <2>1, WriterType DEF StartDaemon
  <2> QED
    BY <1>2, <2>2 DEF StartDaemon, WriterStep, TypeInv, TypeOK, GoodWriter, world
<1>3. CASE Wake
  <2>1. writer[Daemon] \in GoodWriter
    BY <1>0 DEF TypeInv
  <2>2. [writer[Daemon] EXCEPT !.pc = "fetch"] \in GoodWriter
    BY <1>3, <2>1 DEF Wake, WriterStep, At, GoodWriter, Writer
  <2>3. writer' \in [Writers -> GoodWriter]
    BY <1>0, <1>3, <2>2, WriterType DEF Wake
  <2> QED
    BY <1>3, <2>3 DEF Wake, WriterStep, TypeInv, TypeOK, GoodWriter, world
<1>4. ASSUME NEW s \in Sessions, Start(s) \/ Claim(s)
      PROVE  TypeInv'
  BY <1>4, SessionType
<1>a. \A w \in Writers : CutBy(w) \subseteq Cycles
  <2> TAKE w \in Writers
  <2>1. writer[w] \in GoodWriter
    BY DEF TypeInv
  <2> QED
    BY <2>1 DEF CutBy, At, GoodWriter, TypeInv, TypeOK
<1>5. ASSUME NEW w \in Writers, KillWriter(w)
      PROVE  TypeInv'
  <2>1. writer' \in [Writers -> GoodWriter]
    BY <1>5, NotWritingType, WriterType DEF KillWriter
  <2>2. session' \in [Sessions -> Session]
    BY <1>5, EndedType DEF KillWriter, TypeInv, TypeOK
  <2> QED
    BY <1>5, <1>a, <2>1, <2>2, FaultType
       DEF KillWriter, TypeInv, TypeOK, GoodWriter, world
<1>6. CASE ClaimElsewhere
  <2>1. PICK a \in Accounts, c \in 1..ended : Pay(Elsewhere, a, {c})
    BY <1>6 DEF ClaimElsewhere
  <2>2. session' \in [Sessions -> Session]
    BY <2>1, PayType
  <2>3. payer' \in [Accounts \X Cycles -> Sessions \cup {Elsewhere, NoSession}]
    BY <2>1, PayType
  <2> QED
    BY <1>6, <2>2, <2>3 DEF ClaimElsewhere, TypeInv, TypeOK, world, bounds
<1>7. CASE EndCycle
  BY <1>7 DEF EndCycle, World, TypeInv, TypeOK, bounds, ProofAssumption
<1>8. CASE Purge
  <2>1. writer' \in [Writers -> GoodWriter] /\ cut' \subseteq Cycles /\ faults' \in Nat
    BY <1>0, <1>8, <1>a, NotWritingType, WriterType, FaultType DEF Purge, TypeInv, TypeOK
  <2> QED
    BY <1>8, <2>1 DEF Purge, World, TypeInv, TypeOK, GoodWriter
<1>9. CASE InitWallet
  BY <1>9 DEF InitWallet, World, TypeInv, TypeOK
<1>10. CASE UNCHANGED vars
  BY <1>10 DEF vars, world, bounds, TypeInv, TypeOK
<1> QED
  BY <1>0, <1>1, <1>2, <1>3, <1>4, <1>5, <1>6, <1>7, <1>8, <1>9, <1>10
     DEF Next, DaemonStep, Writers

\* The initial states have the declared types.
LEMMA InitType == Init => TypeInv
<1> SUFFICES ASSUME Init
             PROVE  TypeInv
  OBVIOUS
<1>1. writer \in [Writers -> GoodWriter] /\ session \in [Sessions -> Session]
  BY NotWritingType, EndedType DEF Init
<1>2. writer \in [Writers -> Writer]
  BY <1>1 DEF GoodWriter
<1> QED
  BY <1>1, <1>2, ProofAssumption DEF Init, TypeInv, TypeOK, Contents, ProofAssumption

\* Every state has the declared types, for any sessions, accounts and cycles.
THEOREM TypeCorrect == Spec => []TypeOK
<1>1. Init => TypeInv
  BY InitType
<1>2. TypeInv /\ [Next]_vars => TypeInv'
  BY TypeStep, ProofAssumption
<1>3. TypeInv => TypeOK
  BY DEF TypeInv
<1> QED
  BY <1>1, <1>2, <1>3, PTL DEF Spec

-----------------------------------------------------------------------------
(* The files. A session that is not downloading has no process that writes. *)

DownloadInv ==
    \A s \in Sessions : ~At(s, "off") => session[s].pc = "download"

FileInv == TypeInv /\ DownloadInv /\ EmptyIsWritten

\* A file that is no longer empty, or a writer that is at it still, cannot
\* disturb the invariant.
LEMMA FilesKept ==
    ASSUME EmptyIsWritten,
           cut \subseteq cut',
           \A c \in Cycles : file'[c] = "empty" =>
              \/ c \in cut'
              \/ file[c] = "empty"
              \/ \E w \in Writers : writer'[w].pc = "encode" /\ writer'[w].at = c,
           \A w \in Writers : At(w, "encode") =>
              \/ writer[w].at \in cut'
              \/ file'[writer[w].at] # "empty"
              \/ writer'[w].pc = "encode" /\ writer'[w].at = writer[w].at
    PROVE  EmptyIsWritten'
BY DEF EmptyIsWritten, At

\* The end of a download is the end of both its writer and its session.
LEMMA EndDownloadKeeps ==
    ASSUME TypeInv, DownloadInv, NEW w \in Writers, NEW ok \in BOOLEAN,
           EndDownload(w, ok)
    PROVE  /\ DownloadInv'
           /\ \A v \in Writers \ {w} : writer'[v] = writer[v]
<1>1. writer \in [Writers -> GoodWriter] /\ session \in [Sessions -> Session]
  BY DEF TypeInv, TypeOK
<1>2. ASSUME NEW s \in Sessions, writer'[s].pc # "off"
      PROVE  session'[s].pc = "download"
  <2>1. s # w
    BY <1>1, <1>2, ProofAssumption
       DEF EndDownload, NotWriting, ProofAssumption, Writers
  <2> QED
    BY <1>1, <1>2, <2>1 DEF EndDownload, DownloadInv, At, Writers
<1> QED
  BY <1>1, <1>2 DEF DownloadInv, At, EndDownload

\* The download keeps the invariant of the files.
LEMMA DownloadKeepsFiles ==
    ASSUME FileInv, NEW w \in Writers, Download(w)
    PROVE  DownloadInv' /\ EmptyIsWritten'
<1>1. /\ TypeInv /\ DownloadInv /\ EmptyIsWritten
      /\ writer \in [Writers -> GoodWriter] /\ session \in [Sessions -> Session]
      /\ file \in [Cycles -> Contents]
  BY DEF FileInv, TypeInv, TypeOK
<1>2. CASE GetAllMerkleProofsForOperator(w)
  <2>1. /\ DownloadInv'
        /\ \A v \in Writers : At(v, "encode") => writer'[v] = writer[v]
    BY <1>1, <1>2
       DEF GetAllMerkleProofsForOperator, WriterStep, DownloadInv, At, Writers
  <2> QED
    BY <1>1, <1>2, <2>1, FilesKept DEF GetAllMerkleProofsForOperator, At
<1>3. CASE BackendFails(w)
  <2>1. /\ DownloadInv'
        /\ \A v \in Writers : At(v, "encode") => writer'[v] = writer[v]
    BY <1>1, <1>3, EndDownloadKeeps DEF BackendFails, WriterStep, At
  <2> QED
    BY <1>1, <1>3, <2>1, FilesKept DEF BackendFails, At
<1>4. CASE NextProof(w)
  <2>3. DownloadInv' /\ \A v \in Writers : At(v, "encode") => writer'[v] = writer[v]
    <3>1. CASE EndDownload(w, TRUE)
      BY <1>1, <1>4, <3>1, EndDownloadKeeps DEF NextProof, WriterStep, At
    <3>2. CASE ~EndDownload(w, TRUE)
      <4>1. UNCHANGED session /\ \A v \in Writers \ {w} : writer'[v] = writer[v]
        BY <1>1, <1>4, <3>2 DEF NextProof
      <4>2. DownloadInv'
        BY <1>1, <1>4, <4>1 DEF NextProof, WriterStep, DownloadInv, At, Writers
      <4> QED
        BY <1>4, <4>1, <4>2 DEF NextProof, WriterStep, At
    <3> QED
      BY <3>1, <3>2
  <2> QED
    BY <1>1, <1>4, <2>3, FilesKept DEF NextProof, At
<1>5. CASE CreateFile(w)
  <2>1. CASE EndDownload(w, FALSE) /\ UNCHANGED file
    <3>1. DownloadInv' /\ \A v \in Writers : At(v, "encode") => writer'[v] = writer[v]
      BY <1>1, <1>5, <2>1, EndDownloadKeeps DEF CreateFile, WriterStep, At
    <3> QED
      BY <1>1, <1>5, <2>1, <3>1, FilesKept DEF CreateFile, At
  <2>2. CASE /\ file' = [file EXCEPT ![writer[w].at] = "empty"]
             /\ writer' = [writer EXCEPT ![w].pc = "encode"]
             /\ UNCHANGED session
    <3>1. /\ writer'[w].pc = "encode" /\ writer'[w].at = writer[w].at
          /\ \A v \in Writers \ {w} : writer'[v] = writer[v]
      BY <1>1, <2>2 DEF GoodWriter, Writer
    <3>2. DownloadInv'
      BY <1>1, <1>5, <2>2, <3>1 DEF CreateFile, WriterStep, DownloadInv, At, Writers
    <3>3. \A c \in Cycles \ {writer[w].at} : file'[c] = file[c]
      BY <1>1, <2>2
    <3> QED
      BY <1>1, <1>5, <3>1, <3>2, <3>3, FilesKept DEF CreateFile, At
  <2> QED
    BY <1>5, <2>1, <2>2 DEF CreateFile
<1>6. CASE Encode(w)
  <2> DEFINE c == writer[w].at
             a == writer[w].account
  <2>0. a \in Accounts /\ c \in Cycles
    BY <1>1, <1>6 DEF Encode, WriterStep, At, GoodWriter
  <2>1. CASE EndDownload(w, FALSE) /\ cut' = cut \cup {c} /\ UNCHANGED file
    BY <1>1, <2>1, EndDownloadKeeps, FilesKept DEF At
  <2>2. CASE /\ \E x \in (IF file[c] \in {"empty", a} THEN {a} ELSE {a, "spliced"}) :
                    file' = [file EXCEPT ![c] = x]
             /\ writer' = [writer EXCEPT ![w].pc = "next", ![w].at = 0]
             /\ UNCHANGED <<session, cut, faults>>
    <3>1. file'[c] # "empty" /\ \A e \in Cycles \ {c} : file'[e] = file[e]
      BY <1>1, <2>0, <2>2, ProofAssumption DEF ProofAssumption
    <3>2. \A v \in Writers \ {w} : writer'[v] = writer[v]
      BY <1>1, <2>2
    <3>3. DownloadInv'
      BY <1>1, <1>6, <2>2, <3>2 DEF Encode, WriterStep, DownloadInv, At, Writers
    <3> QED
      BY <1>1, <2>2, <3>1, <3>2, <3>3, FilesKept DEF At
  <2> QED
    BY <1>6, <2>1, <2>2 DEF Encode
<1> QED
  BY <1>2, <1>3, <1>4, <1>5, <1>6 DEF Download

\* So do a session's own steps, which begin a download only when the session has
\* no process that writes.
LEMMA SessionKeepsFiles ==
    ASSUME FileInv, NEW s \in Sessions, Start(s) \/ Claim(s)
    PROVE  DownloadInv' /\ EmptyIsWritten'
<1>1. /\ TypeInv /\ DownloadInv /\ EmptyIsWritten
      /\ writer \in [Writers -> GoodWriter] /\ session \in [Sessions -> Session]
      /\ s \in Writers
  BY DEF FileInv, TypeInv, TypeOK, Writers
<1>2. session[s].pc # "download"
  BY DEF Start, Claim, CanDownloadSpMerkleProofs, ClaimSpRewards, CanClaimSpRewards,
         GetCyclesDetailedInfo, EstimateSpRewardsGas, SendClaim, MineClaim,
         WaitForTransaction, SessionStep
<1>3. At(s, "off")
  BY <1>1, <1>2 DEF DownloadInv
<1>4. UNCHANGED <<file, cut>>
  BY DEF Start, Claim, CanDownloadSpMerkleProofs, ClaimSpRewards, CanClaimSpRewards,
         GetCyclesDetailedInfo, EstimateSpRewardsGas, SendClaim, MineClaim,
         WaitForTransaction, SessionStep
<1>5. CASE \E claims \in BOOLEAN : StartWriting(s, claims)
  <2>0. PICK claims \in BOOLEAN : StartWriting(s, claims)
    BY <1>5
  <2>1. /\ session'[s].pc = "download"
        /\ \A v \in Writers \ {s} : writer'[v] = writer[v]
        /\ \A r \in Sessions \ {s} : session'[r] = session[r]
    BY <1>1, <2>0 DEF StartWriting, Reply, Ended
  <2>2. DownloadInv'
    BY <1>1, <2>1 DEF DownloadInv, At, Writers
  <2> QED
    BY <1>1, <1>3, <1>4, <2>1, <2>2, FilesKept DEF At
<1>6. CASE ~\E claims \in BOOLEAN : StartWriting(s, claims)
  <2>1. UNCHANGED writer
    BY <1>6
       DEF Start, Claim, CanDownloadSpMerkleProofs, ClaimSpRewards, CanClaimSpRewards,
           GetCyclesDetailedInfo, EstimateSpRewardsGas, SendClaim, MineClaim,
           WaitForTransaction
  <2>2. \A r \in Sessions \ {s} : session'[r].pc = session[r].pc
    <3>1. CASE \E x : Reply(s, x)
      BY <1>1, <3>1 DEF Reply
    <3>2. CASE Pay(s, session[s].account, session[s].picked)
      BY <1>1, <3>2 DEF Pay, Session
    <3> QED
      BY <1>6, <3>1, <3>2
         DEF Start, Claim, CanDownloadSpMerkleProofs, ClaimSpRewards,
             CanClaimSpRewards, GetCyclesDetailedInfo, EstimateSpRewardsGas,
             SendClaim, MineClaim, WaitForTransaction
  <2>3. DownloadInv'
    BY <1>1, <1>3, <2>1, <2>2 DEF DownloadInv, At, Writers
  <2> QED
    BY <1>1, <1>4, <2>1, <2>3 DEF EmptyIsWritten, At
<1> QED
  BY <1>5, <1>6

\* Every step keeps the invariant of the files.
LEMMA FilesStep ==
    ASSUME FileInv, [Next]_vars
    PROVE  DownloadInv' /\ EmptyIsWritten'
<1>0. /\ TypeInv /\ DownloadInv /\ EmptyIsWritten
      /\ writer \in [Writers -> GoodWriter] /\ session \in [Sessions -> Session]
      /\ Daemon \in Writers /\ Daemon \notin Sessions
  BY ProofAssumption DEF FileInv, TypeInv, TypeOK, Writers, ProofAssumption
<1>1. ASSUME NEW w \in Writers, Download(w)
      PROVE  DownloadInv' /\ EmptyIsWritten'
  BY <1>1, DownloadKeepsFiles
<1>2. ASSUME NEW s \in Sessions, Start(s) \/ Claim(s)
      PROVE  DownloadInv' /\ EmptyIsWritten'
  BY <1>2, SessionKeepsFiles
<1>3. CASE StartDaemon \/ Wake
  <2>1. /\ UNCHANGED <<file, cut, session>> /\ ~At(Daemon, "encode")
        /\ \A v \in Writers \ {Daemon} : writer'[v] = writer[v]
    BY <1>0, <1>3 DEF StartDaemon, Wake, WriterStep, At
  <2>2. DownloadInv'
    BY <1>0, <2>1 DEF DownloadInv, At, Writers
  <2> QED
    BY <1>0, <2>1, <2>2, FilesKept DEF At
<1>4. ASSUME NEW w \in Writers, KillWriter(w)
      PROVE  DownloadInv' /\ EmptyIsWritten'
  <2>1. /\ UNCHANGED file /\ cut \subseteq cut' /\ writer'[w].pc = "off"
        /\ At(w, "encode") => writer[w].at \in cut'
        /\ \A v \in Writers \ {w} : writer'[v] = writer[v]
        /\ \A r \in Sessions \ {w} : session'[r] = session[r]
    BY <1>0, <1>4 DEF KillWriter, CutBy, NotWriting
  <2>2. DownloadInv'
    BY <1>0, <2>1 DEF DownloadInv, At, Writers
  <2> QED
    BY <1>0, <2>1, <2>2, FilesKept DEF At
<1>5. CASE ClaimElsewhere
  <2>1. PICK a \in Accounts, c \in 1..ended : Pay(Elsewhere, a, {c})
    BY <1>5 DEF ClaimElsewhere
  <2>2. \A r \in Sessions :
          session'[r] = [session[r] EXCEPT !.raced = @ \/ Loses(r, a, {c})]
    BY <2>1, ProofAssumption DEF Pay, ProofAssumption
  <2>3. ASSUME NEW r \in Sessions
        PROVE  session'[r].pc = session[r].pc
    <3>1. session[r] \in Session
      BY <1>0
    <3>2. session'[r] = [session[r] EXCEPT !.raced = @ \/ Loses(r, a, {c})]
      BY <2>2
    <3> QED
      BY <3>1, <3>2 DEF Session
  <2> QED
    BY <1>0, <1>5, <2>3 DEF ClaimElsewhere, DownloadInv, EmptyIsWritten, At
<1>6. CASE Purge
  <2>1. /\ UNCHANGED <<file, session>> /\ cut \subseteq cut'
        /\ \A v \in Writers \ {Daemon} : writer'[v] = writer[v]
        /\ \/ UNCHANGED writer
           \/ At(Daemon, "encode") => writer[Daemon].at \in cut'
    BY <1>0, <1>6 DEF Purge, World, CutBy
  <2>2. DownloadInv'
    BY <1>0, <2>1 DEF DownloadInv, At, Writers
  <2> QED
    BY <1>0, <2>1, <2>2, FilesKept DEF At
<1>7. CASE EndCycle \/ InitWallet \/ UNCHANGED vars
  BY <1>0, <1>7 DEF EndCycle, InitWallet, World, vars, DownloadInv, EmptyIsWritten, At
<1> QED
  BY <1>0, <1>1, <1>2, <1>3, <1>4, <1>5, <1>6, <1>7 DEF Next, DaemonStep, Writers

\* At first nobody writes, and no file is there.
LEMMA FileInit == Init => FileInv
<1>1. Init => DownloadInv /\ EmptyIsWritten
  BY DEF Init, DownloadInv, EmptyIsWritten, NotWriting, At, Writers
<1> QED
  BY <1>1, InitType DEF FileInv

\* Two downloads that create the same file leave it whole, in whichever order
\* they create and write it.
THEOREM FilesAreWritten == Spec => []EmptyIsWritten
<1>1. Init => FileInv
  BY FileInit
<1>2. FileInv /\ [Next]_vars => FileInv'
  BY FilesStep, TypeStep, ProofAssumption DEF FileInv
<1>3. FileInv => EmptyIsWritten
  BY DEF FileInv
<1> QED
  BY <1>1, <1>2, <1>3, PTL DEF Spec

-----------------------------------------------------------------------------
(* The claims. A transaction that is pending can still be paid, unless another *)
(* claim of one of its cycles was; what was paid is never paid again.          *)

ClaimInvOf(s) ==
    LET d == session[s] IN
    /\ d.pc \notin {"mined", "idle"} => d.out \notin {"claimed", "failed"}
    /\ d.pc = "pending" \/ d.out \in {"claimed", "failed"} => d.account \in Accounts
    /\ d.pc = "pending" => Unpaid(d.account, d.picked) \/ d.raced
    /\ d.out = "claimed" => \A c \in d.picked : payer[<<d.account, c>>] = s
    /\ d.out = "failed" => d.raced

ClaimInv == \A s \in Sessions : ClaimInvOf(s)

PayInv == FileInv /\ ClaimInv

\* A session that has sent nothing satisfies the invariant.
LEMMA FreshClaim ==
    ASSUME NEW s \in Sessions, session'[s].pc # "pending",
           session'[s].out \notin {"claimed", "failed"}
    PROVE  ClaimInvOf(s)'
BY DEF ClaimInvOf

\* So does one that a step does not touch.
LEMMA SameClaim ==
    ASSUME NEW s \in Sessions, ClaimInvOf(s), session'[s] = session[s], UNCHANGED payer
    PROVE  ClaimInvOf(s)'
BY DEF ClaimInvOf, Unpaid

\* A payment of what nobody has claimed leaves other claims paid, and those that
\* it beats raced.
LEMMA PayKeepsOthers ==
    ASSUME TypeInv, ProofAssumption, NEW by \in Sessions \cup {Elsewhere},
           NEW a \in Accounts, NEW cycles \in SUBSET Cycles,
           Unpaid(a, cycles), Pay(by, a, cycles),
           NEW s \in Sessions, s # by, ClaimInvOf(s)
    PROVE  ClaimInvOf(s)'
<1> DEFINE d == session[s]
           e == session'[s]
<1>1. d \in Session
  BY DEF TypeInv, TypeOK
<1>2. e = [d EXCEPT !.raced = d.raced \/ Loses(s, a, cycles)]
  BY DEF Pay
<1>3. /\ e.pc = d.pc /\ e.out = d.out /\ e.account = d.account /\ e.picked = d.picked
      /\ e.raced = (d.raced \/ Loses(s, a, cycles))
  BY <1>1, <1>2 DEF Session
<1>4. d.picked \subseteq Cycles
  BY <1>1 DEF Session
<1>5. \A r \in Accounts \X Cycles :
        payer'[r] = IF r[1] = a /\ r[2] \in cycles THEN by ELSE payer[r]
  BY DEF Pay, TypeInv, TypeOK
<1>6. \A x \in Accounts, c \in Cycles :
        payer'[<<x, c>>] = IF x = a /\ c \in cycles THEN by ELSE payer[<<x, c>>]
  BY <1>5
<1>7. ASSUME d.pc = "pending"
      PROVE  Unpaid(d.account, d.picked)' \/ e.raced
  <2>1. d.account \in Accounts /\ (Unpaid(d.account, d.picked) \/ d.raced)
    BY <1>7 DEF ClaimInvOf
  <2>2. CASE d.raced \/ Loses(s, a, cycles)
    BY <1>3, <2>2
  <2>3. CASE ~d.raced /\ ~Loses(s, a, cycles)
    <3>1. d.account # a \/ d.picked \cap cycles = {}
      BY <1>7, <2>3 DEF Loses
    <3>2. \A c \in d.picked : payer[<<d.account, c>>] = NoSession
      BY <2>1, <2>3 DEF Unpaid
    <3>3. \A c \in d.picked : payer'[<<d.account, c>>] = NoSession
      BY <1>4, <1>6, <2>1, <3>1, <3>2
    <3>4. Unpaid(d.account, d.picked)'
      BY <1>3, <3>3 DEF Unpaid
    <3> QED
      BY <3>4
  <2> QED
    BY <2>2, <2>3
<1>8. ASSUME d.out = "claimed"
      PROVE  \A c \in e.picked : payer'[<<e.account, c>>] = s
  <2>1. d.account \in Accounts /\ \A c \in d.picked : payer[<<d.account, c>>] = s
    BY <1>8 DEF ClaimInvOf
  <2>2. s # NoSession
    BY DEF ProofAssumption
  <2>3. \A c \in d.picked : ~(d.account = a /\ c \in cycles)
    BY <2>1, <2>2 DEF Unpaid
  <2> QED
    BY <1>3, <1>4, <1>6, <2>1, <2>3
<1>9. /\ d.pc \notin {"mined", "idle"} => d.out \notin {"claimed", "failed"}
      /\ d.pc = "pending" \/ d.out \in {"claimed", "failed"} => d.account \in Accounts
      /\ d.out = "failed" => d.raced
  BY DEF ClaimInvOf
<1> QED
  BY <1>3, <1>7, <1>8, <1>9 DEF ClaimInvOf

\* A reply to one session leaves the claims of the others alone.
LEMMA ReplyKeepsOthers ==
    ASSUME TypeInv, ClaimInv, NEW s \in Sessions, NEW x \in Session, Reply(s, x),
           UNCHANGED payer,
           \/ x.pc # "pending" /\ x.out \notin {"claimed", "failed"}
           \/ ClaimInvOf(s)'
    PROVE  ClaimInv'
<1>1. session'[s] = x /\ \A r \in Sessions \ {s} : session'[r] = session[r]
  BY DEF Reply, TypeInv, TypeOK
<1>2. ClaimInvOf(s)'
  BY <1>1, FreshClaim
<1>3. ASSUME NEW r \in Sessions \ {s}
      PROVE  ClaimInvOf(r)'
  BY <1>1, <1>3, SameClaim DEF ClaimInv
<1> QED
  BY <1>2, <1>3 DEF ClaimInv

\* The steps of a claim keep the invariant of the claims.
LEMMA SessionKeepsClaims ==
    ASSUME PayInv, NEW s \in Sessions, Start(s) \/ Claim(s)
    PROVE  ClaimInv'
<1> DEFINE d == session[s]
           e == session'[s]
<1>0. TypeInv /\ ClaimInv /\ d \in Session /\ ClaimInvOf(s)
  BY DEF PayInv, FileInv, TypeInv, TypeOK, ClaimInv
<1>1. /\ Ended("none") \in Session /\ Ended("uptodate") \in Session
      /\ Ended("none").pc = "idle" /\ Ended("none").out = "none"
      /\ Ended("uptodate").pc = "idle" /\ Ended("uptodate").out = "uptodate"
  BY EndedType DEF Ended
<1>2. (Reply(s, Ended("none")) \/ Reply(s, Ended("uptodate"))) /\ UNCHANGED payer => ClaimInv'
  BY <1>0, <1>1, ReplyKeepsOthers
<1>3. ASSUME NEW claims \in BOOLEAN, StartWriting(s, claims), UNCHANGED payer
      PROVE  ClaimInv'
  <2> DEFINE x == [Ended("none") EXCEPT !.pc = "download", !.claims = claims]
  <2>1. x \in Session /\ x.pc = "download" /\ x.out = "none"
    BY <1>1 DEF Session
  <2>2. Reply(s, x)
    BY <1>3 DEF StartWriting
  <2> HIDE DEF x
  <2> QED
    BY <1>0, <1>3, <2>1, <2>2, ReplyKeepsOthers
<1>4. CASE CanDownloadSpMerkleProofs(s) \/ ClaimSpRewards(s)
  BY <1>2, <1>3, <1>4 DEF CanDownloadSpMerkleProofs, ClaimSpRewards
<1>5. CASE CanClaimSpRewards(s)
  <2> DEFINE x == [d EXCEPT !.pc = "details", !.listed = Unclaimed(wallet)]
  <2>1. CASE Reply(s, x)
    <3>1. Unclaimed(wallet) \subseteq Cycles
      BY <1>0, ProofAssumption DEF Unclaimed, Cycles, TypeInv, TypeOK, ProofAssumption
    <3>2. x \in Session /\ x.pc = "details" /\ x.out = d.out
      BY <1>0, <3>1 DEF Session
    <3>3. d.out \notin {"claimed", "failed"}
      BY <1>0, <1>5 DEF CanClaimSpRewards, SessionStep, ClaimInvOf
    <3> HIDE DEF x
    <3> QED
      BY <1>0, <1>5, <2>1, <3>2, <3>3, ReplyKeepsOthers DEF CanClaimSpRewards
  <2> QED
    BY <1>2, <1>5, <2>1 DEF CanClaimSpRewards
<1>6. CASE GetCyclesDetailedInfo(s)
  <2>1. CASE Reply(s, Ended("none"))
    BY <1>2, <1>6, <2>1 DEF GetCyclesDetailedInfo
  <2>2. CASE ~Reply(s, Ended("none"))
    <3> DEFINE exist == {c \in d.listed : file[c] # "missing"}
    <3>1. PICK picked \in SelectCycles(exist) :
            Reply(s, [d EXCEPT !.pc = "estimate", !.picked = picked, !.listed = {}])
      BY <1>6, <2>2 DEF GetCyclesDetailedInfo
    <3> DEFINE x == [d EXCEPT !.pc = "estimate", !.picked = picked, !.listed = {}]
    <3>2. picked \subseteq Cycles
      BY <1>0 DEF SelectCycles, Session
    <3>3. x \in Session /\ x.pc = "estimate" /\ x.out = d.out
      BY <1>0, <3>2 DEF Session
    <3>4. d.out \notin {"claimed", "failed"}
      BY <1>0, <1>6 DEF GetCyclesDetailedInfo, SessionStep, ClaimInvOf
    <3>5. Reply(s, x) /\ UNCHANGED payer
      BY <1>6, <3>1 DEF GetCyclesDetailedInfo
    <3> HIDE DEF x
    <3> QED
      BY <1>0, <3>3, <3>4, <3>5, ReplyKeepsOthers
  <2> QED
    BY <2>1, <2>2
<1>7. CASE EstimateSpRewardsGas(s)
  <2> DEFINE x == [d EXCEPT !.pc = "claim"]
  <2>1. CASE Reply(s, x)
    <3>1. x \in Session /\ x.pc = "claim" /\ x.out = d.out
      BY <1>0 DEF Session
    <3>2. d.out \notin {"claimed", "failed"}
      BY <1>0, <1>7 DEF EstimateSpRewardsGas, SessionStep, ClaimInvOf
    <3> HIDE DEF x
    <3> QED
      BY <1>0, <1>7, <2>1, <3>1, <3>2, ReplyKeepsOthers DEF EstimateSpRewardsGas
  <2> QED
    BY <1>2, <1>7, <2>1 DEF EstimateSpRewardsGas
<1>8. CASE SendClaim(s)
  <2>1. CASE Claimable(s)
    <3> DEFINE x == [d EXCEPT !.pc = "pending", !.account = wallet]
    <3>1. wallet \in Accounts /\ Unpaid(wallet, d.picked)
      BY <2>1 DEF Claimable, Accepted, Unpaid
    <3>2. /\ x \in Session /\ x.pc = "pending" /\ x.out = d.out
          /\ x.account = wallet /\ x.picked = d.picked
      BY <1>0, <3>1 DEF Session
    <3>3. d.out \notin {"claimed", "failed"}
      BY <1>0, <1>8 DEF SendClaim, SessionStep, ClaimInvOf
    <3>4. Reply(s, x) /\ UNCHANGED payer
      BY <1>8, <2>1 DEF SendClaim
    <3>5. e = x
      BY <1>0, <3>4 DEF Reply, TypeInv, TypeOK
    <3> HIDE DEF x
    <3>6. ClaimInvOf(s)'
      BY <3>1, <3>2, <3>3, <3>4, <3>5 DEF ClaimInvOf, Unpaid
    <3> QED
      BY <1>0, <3>2, <3>4, <3>6, ReplyKeepsOthers
  <2> QED
    BY <1>2, <1>8, <2>1 DEF SendClaim
<1>9. CASE MineClaim(s)
  <2>0. /\ d.pc = "pending" /\ d.account \in Accounts /\ d.picked \in SUBSET Cycles
        /\ d.out \notin {"claimed", "failed"}
    BY <1>0, <1>9 DEF MineClaim, SessionStep, ClaimInvOf, Session
  <2>1. CASE Unpaid(d.account, d.picked) /\ Pay(s, d.account, d.picked)
    <3>1. \A r \in Sessions \ {s} : ClaimInvOf(r)'
      BY <1>0, <2>0, <2>1, PayKeepsOthers, ProofAssumption DEF ClaimInv
    <3>2. e = [d EXCEPT !.pc = "mined", !.out = "claimed"]
      BY <2>1 DEF Pay
    <3>3. /\ e.pc = "mined" /\ e.out = "claimed"
          /\ e.account = d.account /\ e.picked = d.picked
      BY <1>0, <3>2 DEF Session
    <3>4. \A c \in d.picked : payer'[<<d.account, c>>] = s
      BY <1>0, <2>0, <2>1 DEF Pay, TypeInv, TypeOK
    <3>5. ClaimInvOf(s)'
      BY <2>0, <3>3, <3>4 DEF ClaimInvOf
    <3> QED
      BY <3>1, <3>5 DEF ClaimInv
  <2>2. CASE /\ ~Unpaid(d.account, d.picked)
             /\ Reply(s, [d EXCEPT !.pc = "mined", !.out = "failed"])
             /\ UNCHANGED payer
    <3> DEFINE x == [d EXCEPT !.pc = "mined", !.out = "failed"]
    <3>1. d.raced
      BY <1>0, <2>0, <2>2 DEF ClaimInvOf
    <3>2. /\ x \in Session /\ x.pc = "mined" /\ x.out = "failed"
          /\ x.account = d.account /\ x.raced = d.raced
      BY <1>0 DEF Session
    <3>3. Reply(s, x) /\ e = x
      BY <1>0, <2>2 DEF Reply, TypeInv, TypeOK
    <3> HIDE DEF x
    <3>4. ClaimInvOf(s)'
      BY <2>0, <3>1, <3>2, <3>3 DEF ClaimInvOf
    <3> QED
      BY <1>0, <2>2, <3>2, <3>3, <3>4, ReplyKeepsOthers
  <2> QED
    BY <1>9, <2>1, <2>2 DEF MineClaim
<1>10. CASE WaitForTransaction(s)
  <2> DEFINE x == [d EXCEPT !.pc = "idle", !.claims = FALSE]
  <2>1. /\ x \in Session /\ x.pc = "idle" /\ x.out = d.out
        /\ x.account = d.account /\ x.picked = d.picked /\ x.raced = d.raced
    BY <1>0 DEF Session
  <2>2. Reply(s, x) /\ UNCHANGED payer /\ e = x
    BY <1>0, <1>10 DEF WaitForTransaction, Reply, TypeInv, TypeOK
  <2> HIDE DEF x
  <2>3. ClaimInvOf(s)'
    BY <1>0, <2>1, <2>2 DEF ClaimInvOf
  <2> QED
    BY <1>0, <2>1, <2>2, <2>3, ReplyKeepsOthers
<1> QED
  BY <1>4, <1>5, <1>6, <1>7, <1>8, <1>9, <1>10 DEF Start, Claim

\* A session that is downloading has sent nothing, and its process tells it
\* nothing of a claim.
LEMMA DownloadKeepsClaims ==
    ASSUME PayInv, NEW w \in Writers, Download(w)
    PROVE  ClaimInv'
<1>0. TypeInv /\ ClaimInv /\ session \in [Sessions -> Session] /\ UNCHANGED payer
  BY DEF PayInv, FileInv, TypeInv, TypeOK, Download, GetAllMerkleProofsForOperator,
         BackendFails, NextProof, CreateFile, Encode, WriterStep
<1>1. ~At(w, "off")
  BY DEF Download, GetAllMerkleProofsForOperator, BackendFails, NextProof,
         CreateFile, Encode, WriterStep, At
<1>2. CASE UNCHANGED session
  BY <1>0, <1>2, SameClaim DEF ClaimInv
<1>3. CASE \E ok \in BOOLEAN : EndDownload(w, ok)
  <2>1. PICK ok \in BOOLEAN : EndDownload(w, ok)
    BY <1>3
  <2>2. ASSUME NEW s \in Sessions, s # w
        PROVE  ClaimInvOf(s)'
    BY <1>0, <2>1, <2>2, SameClaim DEF EndDownload, ClaimInv
  <2>3. ASSUME w \in Sessions
        PROVE  ClaimInvOf(w)'
    <3>1. session[w].pc = "download" /\ session[w].out \notin {"claimed", "failed"}
      BY <1>0, <1>1, <2>3 DEF PayInv, FileInv, DownloadInv, ClaimInv, ClaimInvOf
    <3>2. \/ session'[w] = [session[w] EXCEPT !.pc = "can"]
          \/ session'[w] = Ended("none")
      BY <2>1, <2>3 DEF EndDownload
    <3>3. session'[w].pc # "pending" /\ session'[w].out \notin {"claimed", "failed"}
      BY <1>0, <2>3, <3>1, <3>2 DEF Ended, Session
    <3> QED
      BY <2>3, <3>3, FreshClaim
  <2> QED
    BY <2>2, <2>3 DEF ClaimInv
<1> QED
  BY <1>2, <1>3
     DEF Download, GetAllMerkleProofsForOperator, BackendFails, NextProof,
         CreateFile, Encode

\* Every step keeps the invariant of the claims.
LEMMA ClaimStep ==
    ASSUME PayInv, [Next]_vars
    PROVE  ClaimInv'
<1>0. TypeInv /\ ClaimInv /\ session \in [Sessions -> Session]
  BY DEF PayInv, FileInv, TypeInv, TypeOK
<1>1. ASSUME UNCHANGED <<session, payer>>
      PROVE  ClaimInv'
  BY <1>0, <1>1, SameClaim DEF ClaimInv
<1>2. ASSUME NEW w \in Writers, Download(w)
      PROVE  ClaimInv'
  BY <1>2, DownloadKeepsClaims
<1>3. ASSUME NEW s \in Sessions, Start(s) \/ Claim(s)
      PROVE  ClaimInv'
  BY <1>3, SessionKeepsClaims
<1>4. ASSUME NEW w \in Writers, KillWriter(w)
      PROVE  ClaimInv'
  <2>1. ASSUME NEW s \in Sessions
        PROVE  ClaimInvOf(s)'
    <3>1. CASE s = w
      <4>1. session'[s] = Ended("none")
        BY <1>4, <3>1 DEF KillWriter
      <4> QED
        BY <4>1, FreshClaim DEF Ended
    <3>2. CASE s # w
      BY <1>0, <1>4, <3>2, SameClaim DEF KillWriter, ClaimInv
    <3> QED
      BY <3>1, <3>2
  <2> QED
    BY <2>1 DEF ClaimInv
<1>5. CASE ClaimElsewhere
  <2>1. PICK a \in Accounts, c \in 1..ended : Unpaid(a, {c}) /\ Pay(Elsewhere, a, {c})
    BY <1>5 DEF ClaimElsewhere
  <2>2. {c} \in SUBSET Cycles
    BY <1>0, ProofAssumption DEF TypeInv, TypeOK, Cycles, ProofAssumption
  <2>3. \A s \in Sessions : s # Elsewhere
    BY ProofAssumption DEF ProofAssumption
  <2> QED
    BY <1>0, <2>1, <2>2, <2>3, PayKeepsOthers, ProofAssumption DEF ClaimInv
<1>6. CASE StartDaemon \/ Wake
  BY <1>1, <1>6 DEF StartDaemon, Wake, WriterStep
<1>7. CASE EndCycle \/ Purge \/ InitWallet \/ UNCHANGED vars
  BY <1>1, <1>7 DEF EndCycle, Purge, InitWallet, World, vars
<1> QED
  BY <1>2, <1>3, <1>4, <1>5, <1>6, <1>7 DEF Next, DaemonStep, Writers

\* What the claims rest on holds in every state.
LEMMA ClaimsAreSound == Spec => []PayInv
<1>1. Init => PayInv
  <2>1. Init => ClaimInv
    BY DEF Init, Ended, ClaimInv, ClaimInvOf
  <2> QED
    BY <2>1, FileInit DEF PayInv
<1>2. PayInv /\ [Next]_vars => PayInv'
  BY TypeStep, FilesStep, ClaimStep, ProofAssumption DEF PayInv, FileInv
<1> QED
  BY <1>1, <1>2, PTL DEF Spec

\* A session that reports a successful claim has claimed every cycle it names,
\* for any number of sessions, accounts, purges and downloads.
THEOREM SuccessIsPaidFor == Spec => []SuccessIsPaid
<1>1. PayInv => SuccessIsPaid
  BY DEF PayInv, ClaimInv, ClaimInvOf, SuccessIsPaid
<1> QED
  BY <1>1, ClaimsAreSound, PTL

\* A claim that was sent fails only when another claim took one of its cycles.
THEOREM FailureNeedsRace == Spec => []FailureIsRaced
<1>1. PayInv => FailureIsRaced
  BY DEF PayInv, ClaimInv, ClaimInvOf, FailureIsRaced
<1> QED
  BY <1>1, ClaimsAreSound, PTL

=============================================================================
