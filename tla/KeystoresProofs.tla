-------------------------- MODULE KeystoresProofs --------------------------
(***************************************************************************)
(* Theorems about Keystores, for any number of commands, keys and clients: *)
(* the types, when Prysm's account store refuses a command, that what a    *)
(* command reports stored is readable, and that it stays so.               *)
(***************************************************************************)
EXTENDS Keystores, TLAPS

-----------------------------------------------------------------------------
(* Types. A command that stores keys is at one of them, and knows where.    *)

Filling == Storing \ {"remove"}

GoodCommand == {c \in Command :
    /\ c.pc \in Filling =>
          /\ c.first \in Keys /\ c.last \in Keys /\ c.key \in Keys
          /\ c.first <= c.key /\ c.key <= c.last
    /\ c.pc = "key" => c.at \in PairClients
    /\ c.pc \in PrysmSteps => c.at = Prysm
    /\ c.at # NoClient => c.at \in c.left}

TypeInv == TypeOK /\ command \in [Commands -> GoodCommand]

LEMMA KeysAreNumbers == Keys \subseteq Nat /\ 0 \notin Keys /\ MaxKey \in Nat
BY KeystoreAssumption DEF KeystoreAssumption, Keys

LEMMA EndedType ==
    /\ \A outcome \in Ends : Ended(outcome) \in GoodCommand
    /\ NewCommand \in GoodCommand
    /\ [NewCommand EXCEPT !.pc = "deleted"] \in GoodCommand
BY KeystoreAssumption
   DEF Ended, NewCommand, GoodCommand, Command, Ends, Files, Filling, Storing,
       PrysmSteps, KeystoreAssumption

\* One process takes a step, and the types of the others are left alone.
LEMMA CommandType ==
    ASSUME TypeInv, NEW p \in Commands, NEW s \in GoodCommand,
           command' = [command EXCEPT ![p] = s]
    PROVE  /\ command' \in [Commands -> GoodCommand]
           /\ command' \in [Commands -> Command]
           /\ command'[p] = s
           /\ \A q \in Commands \ {p} : command'[q] = command[q]
BY DEF TypeInv, GoodCommand

\* The end of a store, for one key, keeps to the type.
LEMMA StoredType ==
    ASSUME NEW c \in GoodCommand, c.pc \in Filling
    PROVE  Stored(c) \in GoodCommand
<1>1. /\ c \in Command /\ c.first \in Keys /\ c.last \in Keys /\ c.key \in Keys
      /\ c.first <= c.key /\ c.key <= c.last
  BY DEF GoodCommand
<1>2. CASE c.left # {c.at}
  <2> DEFINE s == [c EXCEPT !.pc = "next", !.left = @ \ {c.at}, !.at = NoClient]
  <2>1. s \in Command
    BY <1>1 DEF Command, Storing
  <2>2. s \in GoodCommand
    BY <1>1, <2>1 DEF GoodCommand, Command, Filling, Storing, PrysmSteps
  <2> QED
    BY <1>2, <2>2 DEF Stored
<1>3. CASE c.left = {c.at} /\ c.key < c.last
  <2> DEFINE s == [c EXCEPT !.pc = "next", !.left = Clients, !.at = NoClient,
                            !.key = @ + 1]
  <2>0. c.key + 1 \in Keys /\ c.first <= c.key + 1 /\ c.key + 1 <= c.last
    BY <1>1, <1>3, KeysAreNumbers DEF Keys
  <2>1. s \in Command
    BY <1>1, <2>0 DEF Command, Storing
  <2>2. s \in GoodCommand
    BY <1>1, <2>0, <2>1 DEF GoodCommand, Command, Filling, Storing, PrysmSteps
  <2> QED
    BY <1>3, <2>2 DEF Stored
<1>4. CASE c.left = {c.at} /\ ~(c.key < c.last)
  <2> DEFINE s == [NewCommand EXCEPT !.pc = "stored", !.finds = c.finds,
                                     !.last = c.last]
  <2>1. s \in Command
    BY <1>1, EndedType DEF Command, GoodCommand, NewCommand
  <2>2. s \in GoodCommand
    BY <2>1 DEF GoodCommand, Filling, Storing, PrysmSteps, NewCommand
  <2> QED
    BY <1>4, <2>2 DEF Stored
<1> QED
  BY <1>2, <1>3, <1>4

\* The same, as a step.
LEMMA ReturnsType ==
    ASSUME TypeInv, NEW p \in Commands, command[p].pc \in Filling,
           NEW cut \in SUBSET (PairClients \X Keys),
           StoreReturns(p, command[p], cut)
    PROVE  /\ command' \in [Commands -> GoodCommand]
           /\ command' \in [Commands -> Command]
           /\ past' \in Past
           /\ command'[p] = Stored(command[p])
           /\ \A q \in Commands \ {p} : command'[q] = command[q]
<1>1. command[p] \in GoodCommand /\ Stored(command[p]) \in GoodCommand
  BY StoredType DEF TypeInv
<1>2. command' = [command EXCEPT ![p] = Stored(command[p])]
  BY DEF StoreReturns
<1>3. past' \in Past
  <2>1. Covered(p) \subseteq Keys
    BY DEF Covered
  <2>2. past' = [past EXCEPT !.cut = cut, !.promised =
                    IF Stored(command[p]).pc = "stored"
                    THEN @ \cup (Covered(p) \ command[p].rivals) ELSE @]
    BY DEF StoreReturns
  <2> QED
    BY <2>1, <2>2 DEF TypeInv, TypeOK, Past
<1> QED
  BY <1>1, <1>2, <1>3, CommandType

\* What a step sets of one process, in the steps without a file that matters.
LEMMA StepType ==
    ASSUME TypeInv, NEW p \in Commands,
           NEW pc \in Filling, NEW at \in Clients, NEW read \in BOOLEAN,
           NEW cache \in SUBSET Keys, NEW word \in Files,
           command[p].pc \in Filling, at \in command[p].left,
           pc = "key" => at \in PairClients,
           pc \in PrysmSteps => at = Prysm,
           pc # "next",
           command' = [command EXCEPT ![p] =
               [command[p] EXCEPT !.pc = pc, !.at = at, !.read = read,
                                  !.cache = cache, !.word = word]]
    PROVE  /\ command' \in [Commands -> GoodCommand]
           /\ command' \in [Commands -> Command]
           /\ command'[p] = [command[p] EXCEPT !.pc = pc, !.at = at, !.read = read,
                                               !.cache = cache, !.word = word]
           /\ \A q \in Commands \ {p} : command'[q] = command[q]
<1> DEFINE s == [command[p] EXCEPT !.pc = pc, !.at = at, !.read = read,
                                   !.cache = cache, !.word = word]
<1>1. command[p] \in GoodCommand /\ command[p] \in Command
  BY DEF TypeInv, GoodCommand
<1>2. s \in Command
  BY <1>1 DEF Command, Filling
<1>3. /\ s.pc = pc /\ s.at = at /\ s.left = command[p].left
      /\ s.first = command[p].first /\ s.last = command[p].last
      /\ s.key = command[p].key
  BY <1>1 DEF Command
<1>4. s \in GoodCommand
  BY <1>1, <1>2, <1>3 DEF GoodCommand
<1>5. command' = [command EXCEPT ![p] = s]
  OBVIOUS
<1> HIDE DEF s
<1>6. /\ command' \in [Commands -> GoodCommand]
      /\ command' \in [Commands -> Command]
      /\ command'[p] = s
      /\ \A q \in Commands \ {p} : command'[q] = command[q]
  BY <1>4, <1>5, CommandType
<1> QED
  BY <1>6 DEF s

\* What the steps of a command leave alone.
LEMMA StoreStepType ==
    ASSUME TypeInv, NEW p \in Commands, Store(p)
    PROVE  TypeInv'
<1>0. /\ command[p] \in GoodCommand /\ command[p] \in Command
      /\ prysm \in PrysmFiles /\ past \in Past /\ past.cut \in SUBSET (PairClients \X Keys)
      /\ p \in Files /\ p \in PairFiles /\ Absent \in Files /\ Torn \in Files
      /\ command[p].read \in BOOLEAN /\ command[p].cache \in SUBSET Keys
      /\ command[p].word \in Files
  <2>1. /\ command[p] \in GoodCommand /\ command[p] \in Command
        /\ prysm \in PrysmFiles /\ past \in Past
    BY DEF TypeInv, TypeOK, GoodCommand
  <2> QED
    BY <2>1 DEF Command, Past, Files, PairFiles
<1>1. ASSUME NEW last \in Keys, Begin(p, last) PROVE TypeInv'
  <2> DEFINE others == {q \in Commands : Active(q)}
             first  == IF next = NoWallet THEN 1 ELSE next
             new    == first..last
             start  == [NewCommand EXCEPT
                           !.pc = "next", !.finds = (next = NoWallet),
                           !.key = first, !.first = first, !.last = last,
                           !.left = Clients,
                           !.rivals = UNION {Covered(o) : o \in others}]
  <2>1. first \in Keys /\ new \subseteq Keys /\ first <= last
    <3>1. next \in Keys \cup {NoWallet, MaxKey + 1} /\ first <= last
      BY <1>1 DEF Begin, TypeInv, TypeOK
    <3>2. MaxKey \in Nat
      BY KeystoreAssumption DEF KeystoreAssumption
    <3> QED
      BY <3>1, <3>2 DEF Keys, NoWallet
  <2>2. UNION {Covered(o) : o \in others} \subseteq Keys
    BY DEF Covered
  <2>3. start \in Command
    <3>1. NewCommand \in Command
      BY EndedType DEF GoodCommand
    <3> HIDE DEF others, new, first
    <3> QED
      BY <2>1, <2>2, <3>1 DEF Command, Storing
  <2>4. start \in GoodCommand
    <3>1. /\ start.pc = "next" /\ start.first = first /\ start.last = last
          /\ start.key = first /\ start.at = NoClient
      BY DEF NewCommand
    <3> HIDE DEF start, others, new, first
    <3> QED
      BY <2>1, <2>3, <3>1, KeysAreNumbers
         DEF GoodCommand, Filling, Storing, PrysmSteps
  <2>5. \A q \in Commands : [command[q] EXCEPT !.rivals = @ \cup new] \in GoodCommand
    BY <2>1 DEF TypeInv, GoodCommand, Command
  <2>6. command' = [q \in Commands |->
            IF q = p THEN start
            ELSE IF q \in others
            THEN [command[q] EXCEPT !.rivals = @ \cup new]
            ELSE command[q]]
    BY <1>1 DEF Begin
  <2>7. past' \in Past
    BY <1>1, <1>0 DEF Begin, Past
  <2>8. \A q \in Commands : command[q] \in GoodCommand
    BY DEF TypeInv
  <2>9. UNCHANGED <<next, files>>
    BY <1>1 DEF Begin
  <2> HIDE DEF start, others, new, first
  <2>10. command' \in [Commands -> GoodCommand]
    BY <2>4, <2>5, <2>6, <2>8
  <2> QED
    BY <2>7, <2>9, <2>10 DEF TypeInv, TypeOK, GoodCommand, files
<1>2. ASSUME NEW c \in PairClients, WriteSecret(p, c) PROVE TypeInv'
  <2>1. command' = [command EXCEPT ![p] =
            [command[p] EXCEPT !.pc = "key", !.at = c, !.read = command[p].read,
                               !.cache = command[p].cache, !.word = command[p].word]]
    BY <1>2, <1>0 DEF WriteSecret, TypeInv, TypeOK, Command
  <2>0. /\ "key" \in Filling /\ "key" \notin PrysmSteps /\ c \in Clients
        /\ command[p].pc \in Filling /\ c \in command[p].left
    BY <1>2 DEF WriteSecret, Filling, Storing, PrysmSteps, Clients
  <2>2. command' \in [Commands -> GoodCommand] /\ command' \in [Commands -> Command]
    BY <1>0, <2>0, <2>1, StepType
  <2>3. secret' \in [PairClients -> [Keys -> PairFiles]]
    BY <1>2, <1>0 DEF WriteSecret, TypeInv, TypeOK
  <2> QED
    BY <1>2, <2>2, <2>3 DEF WriteSecret, TypeInv, TypeOK
<1>3. CASE WriteKey(p)
  <2>1. command[p].pc = "key" /\ command[p].at \in PairClients /\ command[p].key \in Keys
    BY <1>3, <1>0 DEF WriteKey, GoodCommand, Filling, Storing, PrysmSteps
  <2>2. /\ StoreReturns(p, command[p], past.cut \ {<<command[p].at, command[p].key>>})
        /\ past.cut \ {<<command[p].at, command[p].key>>} \in SUBSET (PairClients \X Keys)
    BY <1>3, <1>0 DEF WriteKey
  <2>3. keyfile' \in [PairClients -> [Keys -> PairFiles]]
    BY <1>3, <1>0, <2>1 DEF WriteKey, TypeInv, TypeOK
  <2>4. command[p].pc \in Filling
    BY <2>1 DEF Filling, Storing
  <2>5. /\ command' \in [Commands -> GoodCommand] /\ command' \in [Commands -> Command]
        /\ past' \in Past
    BY <2>2, <2>4, ReturnsType
  <2> QED
    BY <1>3, <2>3, <2>5 DEF WriteKey, TypeInv, TypeOK
<1>4. CASE StartPrysm(p)
  <2> DEFINE pc == IF command[p].read THEN "add"
                   ELSE IF prysm.word = Absent THEN "openWord" ELSE "readWord"
  <2>1. command' = [command EXCEPT ![p] =
            [command[p] EXCEPT !.pc = pc, !.at = Prysm, !.read = command[p].read,
                               !.cache = command[p].cache, !.word = command[p].word]]
    BY <1>4, <1>0 DEF StartPrysm, TypeInv, TypeOK, Command
  <2>2. /\ pc \in Filling /\ pc # "key" /\ pc # "next"
        /\ Prysm \in Clients /\ Prysm \in command[p].left /\ command[p].pc \in Filling
    BY <1>4 DEF StartPrysm, Filling, Storing, PrysmSteps, Clients
  <2> HIDE DEF pc
  <2>3. command' \in [Commands -> GoodCommand] /\ command' \in [Commands -> Command]
    BY <1>0, <2>1, <2>2, StepType DEF Command
  <2> QED
    BY <1>4, <2>3 DEF StartPrysm, files, TypeInv, TypeOK
\* The steps of Prysm's keystore: one of them sets the files, and the process.
<1>p. ASSUME NEW pc \in PrysmSteps, NEW read \in BOOLEAN, NEW cache \in SUBSET Keys,
             NEW word \in Files, command[p].pc \in PrysmSteps, prysm' \in PrysmFiles,
             UNCHANGED <<next, secret, keyfile, past>>,
             command' = [command EXCEPT ![p] =
                 [command[p] EXCEPT !.pc = pc, !.at = command[p].at, !.read = read,
                                    !.cache = cache, !.word = word]]
      PROVE  TypeInv'
  <2>1. /\ command[p].at = Prysm /\ command[p].at \in command[p].left
        /\ command[p].at \in Clients /\ command[p].pc \in Filling /\ pc \in Filling
        /\ pc # "next" /\ pc # "key"
    BY <1>0, <1>p, KeystoreAssumption
       DEF GoodCommand, Filling, Storing, PrysmSteps, Clients, KeystoreAssumption
  <2>2. command' \in [Commands -> GoodCommand] /\ command' \in [Commands -> Command]
    BY <1>p, <2>1, StepType
  <2> QED
    BY <1>p, <2>2 DEF TypeInv, TypeOK
<1>5. CASE OpenWord(p)
  <2>1. prysm' \in PrysmFiles
    BY <1>5, <1>0 DEF OpenWord, PrysmFiles
  <2>2. command' = [command EXCEPT ![p] =
            [command[p] EXCEPT !.pc = "fillWord", !.at = command[p].at,
                !.read = command[p].read, !.cache = command[p].cache,
                !.word = command[p].word]]
    BY <1>5, <1>0 DEF OpenWord, Goto, TypeInv, TypeOK, Command
  <2>3. /\ "fillWord" \in PrysmSteps /\ command[p].pc \in PrysmSteps
        /\ UNCHANGED <<next, secret, keyfile, past>>
    BY <1>5 DEF OpenWord, PrysmSteps, files
  <2> QED
    BY <1>0, <1>p, <2>1, <2>2, <2>3
<1>6. CASE FillWord(p)
  <2>1. prysm' \in PrysmFiles
    BY <1>6, <1>0 DEF FillWord, PrysmFiles
  <2>2. command' = [command EXCEPT ![p] =
            [command[p] EXCEPT !.pc = "readWord", !.at = command[p].at,
                !.read = command[p].read, !.cache = command[p].cache,
                !.word = command[p].word]]
    BY <1>6, <1>0 DEF FillWord, Goto, TypeInv, TypeOK, Command
  <2>3. /\ "readWord" \in PrysmSteps /\ command[p].pc \in PrysmSteps
        /\ UNCHANGED <<next, secret, keyfile, past>>
    BY <1>6 DEF FillWord, PrysmSteps, files
  <2> QED
    BY <1>0, <1>p, <2>1, <2>2, <2>3
<1>7. CASE ReadWord(p)
  <2>1. prysm' \in PrysmFiles /\ prysm.word \in Files
    BY <1>7, <1>0 DEF ReadWord, PrysmFiles, files
  <2>2. command' = [command EXCEPT ![p] =
            [command[p] EXCEPT !.pc = "readAccounts", !.at = command[p].at,
                !.read = command[p].read, !.cache = command[p].cache,
                !.word = prysm.word]]
    BY <1>7, <1>0 DEF ReadWord, TypeInv, TypeOK, Command
  <2>3. /\ "readAccounts" \in PrysmSteps /\ command[p].pc \in PrysmSteps
        /\ UNCHANGED <<next, secret, keyfile, past>>
    BY <1>7 DEF ReadWord, PrysmSteps, files
  <2> QED
    BY <1>0, <1>p, <2>1, <2>2, <2>3
<1>8. CASE ReadAccounts(p)
  <2>1. prysm' \in PrysmFiles /\ prysm.accounts.keys \in SUBSET Keys
    BY <1>8, <1>0 DEF ReadAccounts, PrysmFiles, AccountFile, files
  <2>2. CASE command' = [command EXCEPT ![p] = Ended("failed")]
    <3>1. command' \in [Commands -> GoodCommand] /\ command' \in [Commands -> Command]
      BY <2>2, EndedType, CommandType DEF Ends
    <3> QED
      BY <1>8, <3>1 DEF ReadAccounts, TypeInv, TypeOK, files
  <2>3. ASSUME NEW cache \in SUBSET Keys,
               command' = [command EXCEPT ![p] =
                   [@ EXCEPT !.read = TRUE, !.cache = cache, !.word = Absent,
                             !.pc = "add"]]
        PROVE  TypeInv'
    <3>1. command' = [command EXCEPT ![p] =
              [command[p] EXCEPT !.pc = "add", !.at = command[p].at,
                  !.read = TRUE, !.cache = cache, !.word = Absent]]
      BY <2>3, <1>0 DEF TypeInv, TypeOK, Command
    <3> QED
      BY <1>8, <1>0, <1>p, <2>1, <3>1 DEF ReadAccounts, PrysmSteps, files
  <2>4. \/ command' = [command EXCEPT ![p] = Ended("failed")]
        \/ \E cache \in SUBSET Keys :
              command' = [command EXCEPT ![p] =
                  [@ EXCEPT !.read = TRUE, !.cache = cache, !.word = Absent,
                            !.pc = "add"]]
    <3>1. CASE prysm.state = "absent"
      BY <1>8, <3>1 DEF ReadAccounts
    <3>2. CASE prysm.state # "absent" /\ prysm.state = "whole"
               /\ prysm.accounts.word = command[p].word
      BY <1>8, <2>1, <3>2 DEF ReadAccounts, TypeInv, TypeOK
    <3>3. CASE prysm.state # "absent"
               /\ ~(prysm.state = "whole" /\ prysm.accounts.word = command[p].word)
      BY <1>8, <3>3 DEF ReadAccounts, TypeInv, TypeOK
    <3> QED
      BY <3>1, <3>2, <3>3
  <2> QED
    BY <2>2, <2>3, <2>4
\* A key is in the keystore: to the next one.
<1>r. ASSUME command[p].pc \in PrysmSteps, prysm' \in PrysmFiles,
             UNCHANGED <<next, secret, keyfile>>,
             StoreReturns(p, command[p], past.cut)
      PROVE  TypeInv'
  <2>1. command[p].pc \in Filling
    BY <1>r DEF Filling, Storing, PrysmSteps
  <2>2. /\ command' \in [Commands -> GoodCommand] /\ command' \in [Commands -> Command]
        /\ past' \in Past
    BY <1>0, <1>r, <2>1, ReturnsType
  <2> QED
    BY <1>r, <2>2 DEF TypeInv, TypeOK
<1>9. CASE Add(p)
  <2>1. /\ command[p].pc \in PrysmSteps /\ command[p].key \in Keys
        /\ prysm' \in PrysmFiles /\ prysm.word \in Files
        /\ UNCHANGED <<next, secret, keyfile>>
    BY <1>9, <1>0
       DEF Add, PrysmFiles, files, GoodCommand, Filling, Storing, PrysmSteps
  <2>2. CASE command[p].key \in command[p].cache
    BY <1>9, <1>r, <2>1, <2>2 DEF Add
  <2>3. CASE command[p].key \notin command[p].cache
    <3>1. command' = [command EXCEPT ![p] =
              [command[p] EXCEPT !.pc = "openAccounts", !.at = command[p].at,
                  !.read = command[p].read,
                  !.cache = command[p].cache \cup {command[p].key},
                  !.word = prysm.word]]
      BY <1>9, <1>0, <2>3 DEF Add, TypeInv, TypeOK, Command
    <3>2. /\ command[p].cache \cup {command[p].key} \in SUBSET Keys
          /\ command[p].read \in BOOLEAN /\ UNCHANGED past
      BY <1>9, <1>0, <2>1, <2>3 DEF Add, Command
    <3> QED
      BY <1>p, <2>1, <3>1, <3>2 DEF PrysmSteps
  <2> QED
    BY <2>2, <2>3
<1>10. CASE OpenAccounts(p)
  <2>1. prysm' \in PrysmFiles
    BY <1>10, <1>0 DEF OpenAccounts, PrysmFiles, AccountFile, NoAccounts
  <2>2. command' = [command EXCEPT ![p] =
            [command[p] EXCEPT !.pc = "fillAccounts", !.at = command[p].at,
                !.read = command[p].read, !.cache = command[p].cache,
                !.word = command[p].word]]
    BY <1>10, <1>0 DEF OpenAccounts, Goto, TypeInv, TypeOK, Command
  <2>3. /\ "fillAccounts" \in PrysmSteps /\ command[p].pc \in PrysmSteps
        /\ UNCHANGED <<next, secret, keyfile, past>>
    BY <1>10 DEF OpenAccounts, PrysmSteps, files
  <2> QED
    BY <1>0, <1>p, <2>1, <2>2, <2>3
<1>11. CASE FillAccounts(p)
  <2>1. prysm' \in PrysmFiles
    BY <1>11, <1>0 DEF FillAccounts, PrysmFiles, AccountFile, Command
  <2>2. command' = [command EXCEPT ![p] =
            [command[p] EXCEPT !.pc = "config", !.at = command[p].at,
                !.read = command[p].read, !.cache = command[p].cache,
                !.word = Absent]]
    BY <1>11, <1>0 DEF FillAccounts, TypeInv, TypeOK, Command
  <2>3. /\ "config" \in PrysmSteps /\ command[p].pc \in PrysmSteps
        /\ UNCHANGED <<next, secret, keyfile, past>>
    BY <1>11 DEF FillAccounts, PrysmSteps, files
  <2> QED
    BY <1>0, <1>p, <2>1, <2>2, <2>3
<1>12. CASE StatConfig(p)
  <2>1. CASE prysm.config # "absent"
    BY <1>12, <1>0, <1>r, <2>1 DEF StatConfig, PrysmSteps
  <2>2. CASE prysm.config = "absent"
    <3>1. prysm' \in PrysmFiles
      BY <1>12, <1>0, <2>2 DEF StatConfig, PrysmFiles
    <3>2. command' = [command EXCEPT ![p] =
              [command[p] EXCEPT !.pc = "fillConfig", !.at = command[p].at,
                  !.read = command[p].read, !.cache = command[p].cache,
                  !.word = command[p].word]]
      BY <1>12, <1>0, <2>2 DEF StatConfig, Goto, TypeInv, TypeOK, Command
    <3> QED
      <4>1. /\ "fillConfig" \in PrysmSteps /\ command[p].pc \in PrysmSteps
            /\ UNCHANGED <<next, secret, keyfile, past>>
        BY <1>12, <2>2 DEF StatConfig, PrysmSteps
      <4> QED
        BY <1>0, <1>p, <3>1, <3>2, <4>1
  <2> QED
    BY <2>1, <2>2
<1>13. CASE FillConfig(p)
  <2>1. prysm' \in PrysmFiles
    BY <1>13, <1>0 DEF FillConfig, PrysmFiles
  <2> QED
    BY <1>13, <1>r, <2>1 DEF FillConfig, PrysmSteps
<1>14. CASE SaveWallet(p)
  <2>1. command' \in [Commands -> GoodCommand] /\ command' \in [Commands -> Command]
    BY <1>14, EndedType, CommandType DEF SaveWallet, Ends
  <2>2. next' \in Keys \cup {NoWallet, MaxKey + 1}
    BY <1>14, <1>0, KeystoreAssumption
       DEF SaveWallet, Command, Keys, NoWallet, KeystoreAssumption
  <2> QED
    BY <1>14, <2>1, <2>2 DEF SaveWallet, TypeInv, TypeOK, files
<1> QED
  BY <1>1, <1>2, <1>3, <1>4, <1>5, <1>6, <1>7, <1>8, <1>9, <1>10, <1>11, <1>12,
     <1>13, <1>14
     DEF Store

LEMMA PurgeStepType ==
    ASSUME TypeInv, NEW p \in Commands, Purge(p)
    PROVE  TypeInv'
<1>0. /\ command[p] \in GoodCommand /\ command[p] \in Command
      /\ prysm \in PrysmFiles /\ past \in Past /\ NoClient \notin Clients
      /\ Absent \in Files /\ Absent \in PairFiles
  BY KeystoreAssumption
     DEF TypeInv, TypeOK, GoodCommand, KeystoreAssumption, Files, PairFiles
<1>1. CASE BeginPurge(p)
  <2> DEFINE s == [command[p] EXCEPT !.pc = "remove", !.left = Clients]
  <2>1. s \in Command
    BY <1>0 DEF Command, Storing
  <2>2. s \in GoodCommand
    BY <1>0, <2>1 DEF GoodCommand, Command, Filling, PrysmSteps, Clients
  <2>3. command' = [command EXCEPT ![p] = s]
    BY <1>1, <1>0 DEF BeginPurge, TypeInv, TypeOK, Command
  <2> HIDE DEF s
  <2>4. command' \in [Commands -> GoodCommand] /\ command' \in [Commands -> Command]
    BY <2>2, <2>3, CommandType
  <2>5. past' \in Past
    BY <1>1, <1>0 DEF BeginPurge, Past
  <2> QED
    BY <1>1, <2>4, <2>5 DEF BeginPurge, TypeInv, TypeOK, files
<1>2. ASSUME NEW c \in Clients, ChooseStore(p, c) PROVE TypeInv'
  <2> DEFINE s == [command[p] EXCEPT !.at = c]
  <2>1. s \in GoodCommand
    BY <1>0, <1>2 DEF ChooseStore, GoodCommand, Command, Filling, PrysmSteps
  <2>2. command' = [command EXCEPT ![p] = s]
    BY <1>2, <1>0 DEF ChooseStore
  <2> HIDE DEF s
  <2>3. command' \in [Commands -> GoodCommand] /\ command' \in [Commands -> Command]
    BY <2>1, <2>2, CommandType
  <2> QED
    BY <1>2, <2>3 DEF ChooseStore, TypeInv, TypeOK, files
<1>3. CASE RemovePairFile(p)
  <2>1. command[p].at \in PairClients
    BY <1>3 DEF RemovePairFile
  <2>2. /\ secret' \in [PairClients -> [Keys -> PairFiles]]
        /\ keyfile' \in [PairClients -> [Keys -> PairFiles]]
    <3>1. PICK k \in Keys :
            \/ /\ secret' = [secret EXCEPT ![command[p].at][k] = Absent]
               /\ UNCHANGED keyfile
            \/ /\ keyfile' = [keyfile EXCEPT ![command[p].at][k] = Absent]
               /\ UNCHANGED secret
      BY <1>3 DEF RemovePairFile
    <3> QED
      <4> DEFINE c == command[p].at
      <4>1. \/ /\ secret' = [secret EXCEPT ![c] = [secret[c] EXCEPT ![k] = Absent]]
               /\ UNCHANGED keyfile
            \/ /\ keyfile' = [keyfile EXCEPT ![c] = [keyfile[c] EXCEPT ![k] = Absent]]
               /\ UNCHANGED secret
        BY <3>1
      <4>2. /\ secret \in [PairClients -> [Keys -> PairFiles]]
            /\ keyfile \in [PairClients -> [Keys -> PairFiles]]
        BY DEF TypeInv, TypeOK
      <4>3. /\ c \in PairClients
            /\ [secret[c] EXCEPT ![k] = Absent] \in [Keys -> PairFiles]
            /\ [keyfile[c] EXCEPT ![k] = Absent] \in [Keys -> PairFiles]
        BY <1>0, <2>1, <4>2
      <4> HIDE DEF c
      <4> QED
        BY <4>1, <4>2, <4>3
  <2> QED
    BY <1>3, <2>2 DEF RemovePairFile, TypeInv, TypeOK
<1>4. CASE RemovePrysmFile(p)
  <2>1. prysm' \in PrysmFiles
    <3>1. NoAccounts \in AccountFile
      BY DEF NoAccounts, AccountFile, Files
    <3>2. \/ prysm' = [prysm EXCEPT !.word = Absent]
          \/ prysm' = [prysm EXCEPT !.state = "absent", !.accounts = NoAccounts]
          \/ prysm' = [prysm EXCEPT !.config = "absent"]
      BY <1>4 DEF RemovePrysmFile
    <3> QED
      BY <1>0, <3>1, <3>2 DEF PrysmFiles
  <2> QED
    BY <1>4, <2>1 DEF RemovePrysmFile, TypeInv, TypeOK
<1>5. CASE StoreRemoved(p)
  <2> DEFINE rest == command[p].left \ {command[p].at}
             s == IF rest = {} THEN [NewCommand EXCEPT !.pc = "deleted"]
                  ELSE [command[p] EXCEPT !.at = NoClient, !.left = rest]
  <2>1. s \in GoodCommand
    <3>1. CASE rest = {}
      BY <3>1, EndedType
    <3>2. CASE rest # {}
      <4>1. /\ s = [command[p] EXCEPT !.at = NoClient, !.left = rest]
            /\ rest \in SUBSET Clients /\ command[p].pc = "remove"
        BY <1>5, <1>0, <3>2 DEF StoreRemoved, Command
      <4> HIDE DEF s, rest
      <4>2. s \in Command /\ s.pc = "remove" /\ s.at = NoClient
        BY <1>0, <4>1 DEF Command
      <4> QED
        BY <4>2 DEF GoodCommand, Filling, PrysmSteps
    <3> QED
      BY <3>1, <3>2
  <2>2. command' = [command EXCEPT ![p] = s]
    BY <1>5 DEF StoreRemoved, TypeInv, TypeOK
  <2> HIDE DEF s
  <2>3. command' \in [Commands -> GoodCommand] /\ command' \in [Commands -> Command]
    BY <2>1, <2>2, CommandType
  <2>4. past' \in Past
    BY <1>5, <1>0 DEF StoreRemoved, Past, Calm
  <2> QED
    BY <1>5, <2>3, <2>4 DEF StoreRemoved, TypeInv, TypeOK, files
<1>6. CASE DeleteWallet(p)
  <2>1. command' \in [Commands -> GoodCommand] /\ command' \in [Commands -> Command]
    BY <1>6, EndedType, CommandType DEF DeleteWallet, Ends
  <2> QED
    BY <1>6, <2>1 DEF DeleteWallet, TypeInv, TypeOK, files
<1> QED
  BY <1>1, <1>2, <1>3, <1>4, <1>5, <1>6 DEF Purge

LEMMA KillType ==
    ASSUME TypeInv, NEW p \in Commands, Kill(p)
    PROVE  TypeInv'
<1>1. command' \in [Commands -> GoodCommand] /\ command' \in [Commands -> Command]
  BY EndedType, CommandType DEF Kill, Ends
<1>2. command[p].pc = "key" => <<command[p].at, command[p].key>> \in PairClients \X Keys
  BY DEF TypeInv, GoodCommand, Filling, Storing
<1>3. past' \in Past
  <2>1. past \in Past
    BY DEF TypeInv, TypeOK
  <2> QED
    BY <1>2, <2>1 DEF Kill, Past
<1> QED
  BY <1>1, <1>3 DEF Kill, TypeInv, TypeOK, files

LEMMA InitType == Init => TypeInv
<1> SUFFICES ASSUME Init PROVE TypeInv
  OBVIOUS
<1>1. NewCommand \in GoodCommand /\ NewCommand \in Command
  BY EndedType DEF GoodCommand
<1>2. prysm \in PrysmFiles /\ past \in Past
  BY DEF Init, NoPrysm, PrysmFiles, NoAccounts, AccountFile, Calm, Past, Files
<1> QED
  BY <1>1, <1>2 DEF Init, TypeInv, TypeOK, NoWallet, PairFiles

LEMMA NextType == TypeInv /\ [Next]_vars => TypeInv'
<1> SUFFICES ASSUME TypeInv, [Next]_vars PROVE TypeInv'
  OBVIOUS
<1>1. ASSUME NEW p \in Commands, Store(p) \/ Purge(p) \/ Kill(p) PROVE TypeInv'
  BY <1>1, StoreStepType, PurgeStepType, KillType
<1>2. CASE InitWallet
  BY <1>2, KeystoreAssumption
     DEF InitWallet, TypeInv, TypeOK, files, Keys, NoWallet, KeystoreAssumption
<1>3. CASE UNCHANGED vars
  BY <1>3 DEF vars, files, TypeInv, TypeOK
<1> QED
  BY <1>1, <1>2, <1>3 DEF Next

\* The files and the processes are of the types that the code gives them; a
\* process that stores keys has one of its range in hand, and a keystore that
\* fits its step.
THEOREM TypeCorrect == Spec => []TypeOK
<1>1. TypeInv => TypeOK
  BY DEF TypeInv
<1> QED
  BY <1>1, InitType, NextType, PTL DEF Spec

-----------------------------------------------------------------------------
(* When Prysm's account store refuses a command. As long as no two commands *)
(* overlap, the password on disk opens the store but for the moments in      *)
(* which the one command that runs is writing it or deleting it.             *)

AloneInv == \A p, q \in Commands : Purging(p) /\ Running(q) => p = q

\* What a purge has deleted of Prysm stays deleted while it goes on.
DeletedInv == \A p \in Commands :
    command[p].pc = "deleted" \/ (command[p].pc = "remove" /\ Prysm \notin command[p].left)
      => prysm = NoPrysm

Opens ==
    \/ prysm.state = "absent"
    \/ /\ prysm.state = "whole"
       /\ prysm.word # Absent
       /\ prysm.accounts.word = prysm.word

Emptying(p) == command[p].pc = "remove" /\ command[p].at = Prysm

\* What a command that is alone knows of the files at each of its steps.
KnowsInv(p) ==
    /\ command[p].pc # "fillAccounts" /\ ~Emptying(p) => Opens
    /\ Emptying(p) =>
          \/ prysm.state = "absent"
          \/ prysm.state = "whole" /\ prysm.word \in {Absent, prysm.accounts.word}
    /\ command[p].pc \in {"openWord", "fillWord"} => prysm.state = "absent"
    /\ command[p].pc \in PrysmSteps \ {"openWord", "fillWord"} => prysm.word # Absent
    /\ command[p].pc \in Filling /\ command[p].read => prysm.word # Absent
    /\ command[p].pc \in {"readAccounts", "openAccounts", "fillAccounts"} =>
          command[p].word = prysm.word

MatchInv == ~past.mixed =>
    /\ \A p, q \in Commands : Active(p) /\ Active(q) => p = q
    /\ (\A p \in Commands : ~Active(p)) => Opens
    /\ \A p \in Commands : Active(p) => KnowsInv(p)

RefusalInv == TypeInv /\ AloneInv /\ DeletedInv /\ MatchInv

\* A step of the one command that stores keys.
LEMMA StoreKeepsMatch ==
    ASSUME RefusalInv, TypeInv', NEW p \in Commands, command[p].pc \in Filling,
           command'[p].pc \in Filling \cup {"stored", "failed"},
           \A q \in Commands \ {p} : command'[q] = command[q],
           past'.mixed = past.mixed,
           ~past.mixed /\ KnowsInv(p) =>
              IF command'[p].pc \in Filling THEN KnowsInv(p)' ELSE Opens'
    PROVE  RefusalInv'
<1>1. Running(p) /\ Active(p) /\ ~Purging(p)
  BY DEF Running, Active, Purging, Filling, Storing, PrysmSteps, Ends
<1>2. \A q \in Commands : ~Purging(q)
  BY <1>1 DEF RefusalInv, AloneInv
<1>3. \A q \in Commands : ~Purging(q)'
  BY <1>2 DEF Purging, Filling, Storing, PrysmSteps
<1>4. AloneInv' /\ DeletedInv'
  BY <1>3 DEF AloneInv, DeletedInv, Purging
<1>5. \A q \in Commands \ {p} : Active(q)' <=> Active(q)
  BY DEF Active
<1>6. Active(p)' <=> command'[p].pc \in Filling
  BY <1>3 DEF Active, Filling, Storing, PrysmSteps, Purging
<1>7. MatchInv'
  <2> SUFFICES ASSUME ~past'.mixed
               PROVE  /\ \A r, q \in Commands : Active(r)' /\ Active(q)' => r = q
                      /\ (\A r \in Commands : ~Active(r)') => Opens'
                      /\ \A r \in Commands : Active(r)' => KnowsInv(r)'
    BY DEF MatchInv
  <2>1. KnowsInv(p) /\ \A q \in Commands \ {p} : ~Active(q)
    BY <1>1 DEF RefusalInv, MatchInv
  <2>2. IF command'[p].pc \in Filling THEN KnowsInv(p)' ELSE Opens'
    BY <2>1
  <2> QED
    BY <1>5, <1>6, <2>1, <2>2
<1> QED
  BY <1>4, <1>7 DEF RefusalInv

LEMMA StoredSteps ==
    ASSUME NEW c \in GoodCommand, c.pc \in Filling
    PROVE  /\ Stored(c).pc \in {"next", "stored"}
           /\ Stored(c).pc = "next" => Stored(c).read = c.read
BY DEF Stored, GoodCommand, Command, NewCommand

\* A key is in a keystore: the store opens, and the process may have read it.
LEMMA ReturnKeepsMatch ==
    ASSUME RefusalInv, TypeInv', NEW p \in Commands, command[p].pc \in Filling,
           NEW cut \in SUBSET (PairClients \X Keys),
           StoreReturns(p, command[p], cut),
           ~past.mixed /\ KnowsInv(p) =>
              Opens' /\ (command[p].read => prysm'.word # Absent)
    PROVE  RefusalInv'
<1>1. /\ command'[p] = Stored(command[p])
      /\ \A q \in Commands \ {p} : command'[q] = command[q]
  BY ReturnsType DEF RefusalInv
<1>2. past'.mixed = past.mixed
  BY DEF StoreReturns, RefusalInv, TypeInv, TypeOK, Past
<1>3. /\ command'[p].pc \in {"next", "stored"}
      /\ command'[p].pc = "next" => command'[p].read = command[p].read
  BY <1>1, StoredSteps DEF RefusalInv, TypeInv
<1>4. command'[p].pc \in Filling \cup {"stored", "failed"}
  BY <1>3 DEF Filling, Storing
<1>5. ~past.mixed /\ KnowsInv(p) =>
          IF command'[p].pc \in Filling THEN KnowsInv(p)' ELSE Opens'
  BY <1>3 DEF KnowsInv, Emptying, Filling, Storing, PrysmSteps
<1> QED
  BY <1>1, <1>2, <1>4, <1>5, StoreKeepsMatch

\* Another step of a process that stays in Prysm's keystore.
LEMMA PrysmKeepsMatch ==
    ASSUME RefusalInv, TypeInv', NEW p \in Commands, command[p].pc \in Filling,
           NEW s \in Command, s.pc \in Filling,
           command' = [command EXCEPT ![p] = s], UNCHANGED past,
           ~past.mixed /\ KnowsInv(p) => KnowsInv(p)'
    PROVE  RefusalInv'
<1>1. /\ command'[p] = s
      /\ \A q \in Commands \ {p} : command'[q] = command[q]
  BY DEF RefusalInv, TypeInv, TypeOK
<1> QED
  BY <1>1, StoreKeepsMatch

\* A process that is not at a file ends: nothing else changes.
LEMMA EndsKeepRefusal ==
    ASSUME RefusalInv, TypeInv', NEW p \in Commands,
           command[p].pc \in {"stored", "deleted"}, command'[p].pc \in Ends,
           \A q \in Commands \ {p} : command'[q] = command[q],
           UNCHANGED <<prysm, past>>
    PROVE  RefusalInv'
<1>1. /\ ~Active(p) /\ ~Active(p)' /\ ~Running(p)' /\ ~Purging(p)'
  BY DEF Active, Running, Purging, Storing, PrysmSteps, Ends
<1>2. \A q \in Commands \ {p} :
        /\ Active(q)' <=> Active(q)
        /\ Running(q)' <=> Running(q)
        /\ Purging(q)' <=> Purging(q)
        /\ KnowsInv(q)' <=> KnowsInv(q)
  BY DEF Active, Running, Purging, KnowsInv, Emptying, Opens
<1>3. AloneInv'
  BY <1>1, <1>2 DEF RefusalInv, AloneInv
<1>4. DeletedInv'
  BY <1>1 DEF RefusalInv, DeletedInv, Purging
<1>5. MatchInv'
  <2>1. Opens' <=> Opens
    BY DEF Opens
  <2> QED
    BY <1>1, <1>2, <2>1 DEF RefusalInv, MatchInv
<1> QED
  BY <1>3, <1>4, <1>5 DEF RefusalInv

LEMMA StoreKeepsRefusal ==
    ASSUME RefusalInv, TypeInv', NEW p \in Commands, Store(p)
    PROVE  RefusalInv'
<1>0. /\ command[p] \in GoodCommand /\ command[p] \in Command
      /\ command \in [Commands -> Command]
      /\ prysm \in PrysmFiles /\ past \in Past /\ past.cut \in SUBSET (PairClients \X Keys)
      /\ p # Absent /\ Torn # Absent
      /\ Filling = {"next", "key"} \cup PrysmSteps
  BY KeystoreAssumption
     DEF RefusalInv, TypeInv, TypeOK, GoodCommand, Past, KeystoreAssumption,
         Filling, Storing, PrysmSteps
<1>1. ASSUME NEW last \in Keys, Begin(p, last) PROVE RefusalInv'
  <2>1. /\ \A q \in Commands : ~Purging(q)
        /\ command[p].pc = "new" /\ UNCHANGED prysm
        /\ command'[p].pc = "next" /\ command'[p].read = FALSE
        /\ command'[p].at = NoClient
    BY <1>0, <1>1 DEF Begin, files, NewCommand
  <2>2. \A q \in Commands \ {p} :
           /\ command'[q].pc = command[q].pc /\ command'[q].at = command[q].at
           /\ command'[q].left = command[q].left
           /\ ~Active(q) => command'[q] = command[q]
    BY <1>0, <1>1 DEF Begin, Command
  <2>3. \A q \in Commands : ~Purging(q)'
    BY <2>1, <2>2 DEF Purging
  <2>4. AloneInv' /\ DeletedInv'
    BY <2>3 DEF AloneInv, DeletedInv, Purging
  <2>5. MatchInv'
    <3> SUFFICES ASSUME ~past'.mixed
                 PROVE  /\ \A r, q \in Commands : Active(r)' /\ Active(q)' => r = q
                        /\ (\A r \in Commands : ~Active(r)') => Opens'
                        /\ \A r \in Commands : Active(r)' => KnowsInv(r)'
      BY DEF MatchInv
    <3>1. ~past.mixed /\ \A q \in Commands : ~Active(q)
      BY <1>0, <1>1 DEF Begin, Past
    <3>2. Opens
      BY <3>1 DEF RefusalInv, MatchInv
    <3>3. Opens'
      BY <2>1, <3>2 DEF Opens
    <3>4. \A q \in Commands \ {p} : ~Active(q)'
      BY <2>2, <3>1 DEF Active
    <3>5. KnowsInv(p)'
      BY <1>0, <2>1, <3>3 DEF KnowsInv, Emptying, PrysmSteps
    <3> QED
      BY <3>3, <3>4, <3>5
  <2> QED
    BY <2>4, <2>5 DEF RefusalInv
<1>2. ASSUME NEW c \in PairClients, WriteSecret(p, c) PROVE RefusalInv'
  <2> DEFINE s == [command[p] EXCEPT !.pc = "key", !.at = c]
  <2>1. /\ s \in Command /\ s.pc = "key" /\ s.read = command[p].read
    BY <1>0, <1>2 DEF Command, Clients, Storing
  <2>2. /\ command' = [command EXCEPT ![p] = s] /\ UNCHANGED <<prysm, past>>
        /\ command[p].pc = "next"
    BY <1>0, <1>2 DEF WriteSecret
  <2> HIDE DEF s
  <2>3. command'[p] = s
    BY <1>0, <2>2
  <2>4. KnowsInv(p) => KnowsInv(p)'
    BY <1>0, <2>1, <2>2, <2>3 DEF KnowsInv, Emptying, Opens, PrysmSteps
  <2> QED
    BY <1>0, <2>1, <2>2, <2>4, PrysmKeepsMatch
<1>3. CASE WriteKey(p)
  <2>1. /\ StoreReturns(p, command[p], past.cut \ {<<command[p].at, command[p].key>>})
        /\ past.cut \ {<<command[p].at, command[p].key>>} \in SUBSET (PairClients \X Keys)
        /\ command[p].pc = "key" /\ UNCHANGED prysm
    BY <1>0, <1>3 DEF WriteKey
  <2>2. KnowsInv(p) => Opens' /\ (command[p].read => prysm'.word # Absent)
    BY <1>0, <2>1 DEF KnowsInv, Emptying, Opens
  <2> QED
    BY <1>0, <2>1, <2>2, ReturnKeepsMatch
<1>4. CASE StartPrysm(p)
  <2> DEFINE pc == IF command[p].read THEN "add"
                   ELSE IF prysm.word = Absent THEN "openWord" ELSE "readWord"
             s == [command[p] EXCEPT !.at = Prysm, !.pc = pc]
  <2>0. pc \in PrysmSteps /\ pc \in Storing
    BY DEF PrysmSteps, Storing
  <2>1. /\ s \in Command /\ s.read = command[p].read /\ s.pc = pc
    <3> HIDE DEF pc
    <3> QED
      BY <1>0, <2>0 DEF Command, Clients
  <2>2. /\ command' = [command EXCEPT ![p] = s] /\ UNCHANGED <<prysm, past>>
        /\ command[p].pc = "next"
    BY <1>0, <1>4 DEF StartPrysm, files
  <2> HIDE DEF s
  <2>3. command'[p] = s
    BY <1>0, <2>2
  <2>4. KnowsInv(p) => KnowsInv(p)'
    BY <1>0, <2>0, <2>1, <2>2, <2>3 DEF KnowsInv, Emptying, Opens, PrysmSteps
  <2>5. s.pc \in Filling
    BY <1>0, <2>0, <2>1
  <2> QED
    BY <1>0, <2>1, <2>2, <2>4, <2>5, PrysmKeepsMatch
<1>5. CASE OpenWord(p)
  <2> DEFINE s == [command[p] EXCEPT !.pc = "fillWord"]
  <2>1. s \in Command /\ s.pc = "fillWord" /\ s.read = command[p].read
    BY <1>0 DEF Command, Storing, PrysmSteps
  <2>2. /\ command' = [command EXCEPT ![p] = s] /\ UNCHANGED past
        /\ prysm' = [prysm EXCEPT !.word = Torn] /\ command[p].pc = "openWord"
    BY <1>5 DEF OpenWord, Goto
  <2> HIDE DEF s
  <2>3. /\ command'[p] = s /\ prysm'.word = Torn /\ prysm'.state = prysm.state
    BY <1>0, <2>2 DEF PrysmFiles
  <2>4. KnowsInv(p) => KnowsInv(p)'
    BY <1>0, <2>1, <2>2, <2>3 DEF KnowsInv, Emptying, Opens, PrysmSteps
  <2> QED
    BY <1>0, <2>1, <2>2, <2>4, PrysmKeepsMatch DEF PrysmSteps
<1>6. CASE FillWord(p)
  <2> DEFINE s == [command[p] EXCEPT !.pc = "readWord"]
  <2>1. s \in Command /\ s.pc = "readWord" /\ s.read = command[p].read
    BY <1>0 DEF Command, Storing, PrysmSteps
  <2>2. /\ command' = [command EXCEPT ![p] = s] /\ UNCHANGED past
        /\ prysm' = [prysm EXCEPT !.word = p] /\ command[p].pc = "fillWord"
    BY <1>6 DEF FillWord, Goto
  <2> HIDE DEF s
  <2>3. /\ command'[p] = s /\ prysm'.word = p /\ prysm'.state = prysm.state
    BY <1>0, <2>2 DEF PrysmFiles
  <2>4. KnowsInv(p) => KnowsInv(p)'
    BY <1>0, <2>1, <2>2, <2>3 DEF KnowsInv, Emptying, Opens, PrysmSteps
  <2> QED
    BY <1>0, <2>1, <2>2, <2>4, PrysmKeepsMatch DEF PrysmSteps
<1>7. CASE ReadWord(p)
  <2> DEFINE s == [command[p] EXCEPT !.word = prysm.word, !.pc = "readAccounts"]
  <2>1. /\ s \in Command /\ s.pc = "readAccounts" /\ s.read = command[p].read
        /\ s.word = prysm.word
    BY <1>0 DEF Command, Storing, PrysmSteps, PrysmFiles
  <2>2. /\ command' = [command EXCEPT ![p] = s] /\ UNCHANGED <<prysm, past>>
        /\ command[p].pc = "readWord"
    BY <1>7 DEF ReadWord, files
  <2> HIDE DEF s
  <2>3. command'[p] = s
    BY <1>0, <2>2
  <2>4. KnowsInv(p) => KnowsInv(p)'
    BY <1>0, <2>1, <2>2, <2>3 DEF KnowsInv, Emptying, Opens, PrysmSteps
  <2> QED
    BY <1>0, <2>1, <2>2, <2>4, PrysmKeepsMatch DEF PrysmSteps
<1>8. CASE ReadAccounts(p)
  <2>1. /\ command[p].pc = "readAccounts" /\ UNCHANGED <<prysm, past>>
        /\ \A q \in Commands \ {p} : command'[q] = command[q]
        /\ command'[p].pc \in {"add", "failed"}
    BY <1>0, <1>8 DEF ReadAccounts, files, Command, Ended, NewCommand
  <2>2. command[p].pc \in Filling /\ command'[p].pc \in Filling \cup {"stored", "failed"}
    BY <1>0, <2>1 DEF PrysmSteps
  <2>3. KnowsInv(p) => (command'[p].pc = "add" => KnowsInv(p)') /\ Opens'
    BY <1>0, <2>1 DEF KnowsInv, Emptying, Opens, PrysmSteps
  <2>4. "failed" \notin Filling
    BY DEF Filling, Storing, PrysmSteps
  <2> QED
    BY <2>1, <2>2, <2>3, <2>4, StoreKeepsMatch
<1>9. CASE Add(p)
  <2>1. command[p].pc = "add" /\ UNCHANGED prysm /\ command[p].pc \in Filling
    BY <1>0, <1>9 DEF Add, files, PrysmSteps
  <2>2. CASE command[p].key \in command[p].cache
    <3>1. KnowsInv(p) => Opens' /\ (command[p].read => prysm'.word # Absent)
      BY <1>0, <2>1 DEF KnowsInv, Emptying, Opens, PrysmSteps
    <3> QED
      BY <1>0, <1>9, <2>1, <2>2, <3>1, ReturnKeepsMatch DEF Add
  <2>3. CASE command[p].key \notin command[p].cache
    <3> DEFINE s == [command[p] EXCEPT !.cache = @ \cup {command[p].key},
                                       !.word = prysm.word, !.pc = "openAccounts"]
    <3>1. /\ s \in Command /\ s.pc = "openAccounts" /\ s.read = command[p].read
          /\ s.word = prysm.word
      <4>1. command[p].key \in Keys
        BY <1>0, <2>1 DEF GoodCommand
      <4> QED
        BY <1>0, <4>1 DEF Command, Storing, PrysmSteps, PrysmFiles
    <3>2. command' = [command EXCEPT ![p] = s] /\ UNCHANGED past
      BY <1>9, <2>3 DEF Add
    <3> HIDE DEF s
    <3>3. command'[p] = s
      BY <1>0, <3>2
    <3>4. KnowsInv(p) => KnowsInv(p)'
      BY <1>0, <2>1, <3>1, <3>3 DEF KnowsInv, Emptying, Opens, PrysmSteps
    <3> QED
      BY <1>0, <2>1, <3>1, <3>2, <3>4, PrysmKeepsMatch DEF PrysmSteps
  <2> QED
    BY <2>2, <2>3
<1>10. CASE OpenAccounts(p)
  <2> DEFINE s == [command[p] EXCEPT !.pc = "fillAccounts"]
  <2>1. /\ s \in Command /\ s.pc = "fillAccounts" /\ s.word = command[p].word
    BY <1>0 DEF Command, Storing, PrysmSteps
  <2>2. /\ command' = [command EXCEPT ![p] = s] /\ UNCHANGED past
        /\ prysm' = [prysm EXCEPT !.state = "torn", !.accounts = NoAccounts]
        /\ command[p].pc = "openAccounts"
    BY <1>10 DEF OpenAccounts, Goto
  <2> HIDE DEF s
  <2>3. /\ command'[p] = s /\ prysm'.word = prysm.word
    BY <1>0, <2>2 DEF PrysmFiles
  <2>4. KnowsInv(p) => KnowsInv(p)'
    BY <1>0, <2>1, <2>2, <2>3 DEF KnowsInv, Emptying, PrysmSteps
  <2> QED
    BY <1>0, <2>1, <2>2, <2>4, PrysmKeepsMatch DEF PrysmSteps
<1>11. CASE FillAccounts(p)
  <2> DEFINE s == [command[p] EXCEPT !.word = Absent, !.pc = "config"]
  <2>1. s \in Command /\ s.pc = "config" /\ s.read = command[p].read
    BY <1>0 DEF Command, Storing, PrysmSteps, Files
  <2>2. /\ command' = [command EXCEPT ![p] = s] /\ UNCHANGED past
        /\ prysm' = [prysm EXCEPT
              !.state = "whole",
              !.accounts = [word |-> command[p].word, keys |-> command[p].cache]]
        /\ command[p].pc = "fillAccounts"
    BY <1>11 DEF FillAccounts
  <2> HIDE DEF s
  <2>3. /\ command'[p] = s /\ prysm'.word = prysm.word /\ prysm'.state = "whole"
        /\ prysm'.accounts.word = command[p].word
    BY <1>0, <2>2 DEF PrysmFiles
  <2>4. KnowsInv(p) => KnowsInv(p)'
    BY <1>0, <2>1, <2>2, <2>3 DEF KnowsInv, Emptying, Opens, PrysmSteps
  <2> QED
    BY <1>0, <2>1, <2>2, <2>4, PrysmKeepsMatch DEF PrysmSteps
<1>12. CASE StatConfig(p)
  <2>1. /\ command[p].pc = "config" /\ command[p].pc \in Filling
        /\ prysm'.word = prysm.word /\ prysm'.state = prysm.state
        /\ prysm'.accounts = prysm.accounts
    BY <1>0, <1>12 DEF StatConfig, PrysmFiles, PrysmSteps
  <2>2. KnowsInv(p) => Opens' /\ prysm'.word # Absent
    BY <1>0, <2>1 DEF KnowsInv, Emptying, Opens, PrysmSteps
  <2>3. CASE prysm.config # "absent"
    BY <1>0, <1>12, <2>1, <2>2, <2>3, ReturnKeepsMatch DEF StatConfig
  <2>4. CASE prysm.config = "absent"
    <3> DEFINE s == [command[p] EXCEPT !.pc = "fillConfig"]
    <3>1. s \in Command /\ s.pc = "fillConfig"
      BY <1>0 DEF Command, Storing, PrysmSteps
    <3>2. command' = [command EXCEPT ![p] = s] /\ UNCHANGED past
      BY <1>12, <2>4 DEF StatConfig, Goto
    <3> HIDE DEF s
    <3>3. command'[p] = s
      BY <1>0, <3>2
    <3>4. KnowsInv(p) => KnowsInv(p)'
      BY <1>0, <2>2, <3>1, <3>3 DEF KnowsInv, Emptying, PrysmSteps
    <3> QED
      BY <1>0, <2>1, <3>1, <3>2, <3>4, PrysmKeepsMatch DEF PrysmSteps
  <2> QED
    BY <2>3, <2>4
<1>13. CASE FillConfig(p)
  <2>1. /\ command[p].pc = "fillConfig" /\ command[p].pc \in Filling
        /\ prysm'.word = prysm.word /\ prysm'.state = prysm.state
        /\ prysm'.accounts = prysm.accounts
    BY <1>0, <1>13 DEF FillConfig, PrysmFiles, PrysmSteps
  <2>2. KnowsInv(p) => Opens' /\ prysm'.word # Absent
    BY <1>0, <2>1 DEF KnowsInv, Emptying, Opens, PrysmSteps
  <2> QED
    BY <1>0, <1>13, <2>1, <2>2, ReturnKeepsMatch DEF FillConfig
\* The last step: the process is not active before or after it.
<1>14. CASE SaveWallet(p)
  <2>1. /\ UNCHANGED <<prysm, past>> /\ command[p].pc = "stored"
        /\ command'[p].pc = "done"
        /\ \A q \in Commands \ {p} : command'[q] = command[q]
    BY <1>0, <1>14 DEF SaveWallet, files, Ended, NewCommand
  <2> QED
    BY <2>1, EndsKeepRefusal DEF Ends
<1> QED
  BY <1>1, <1>2, <1>3, <1>4, <1>5, <1>6, <1>7, <1>8, <1>9, <1>10, <1>11, <1>12,
     <1>13, <1>14
     DEF Store

LEMMA PurgeKeepsRefusal ==
    ASSUME RefusalInv, TypeInv', NEW p \in Commands, Purge(p)
    PROVE  RefusalInv'
<1>0. /\ command[p] \in Command /\ command \in [Commands -> Command]
      /\ prysm \in PrysmFiles /\ past \in Past
      /\ Prysm \in Clients /\ NoClient \notin Clients /\ Prysm \notin PairClients
  BY KeystoreAssumption
     DEF RefusalInv, TypeInv, TypeOK, KeystoreAssumption, Clients
\* It goes on: nobody else runs, before and after.
<1>p. ASSUME Purging(p), Purging(p)',
             \A q \in Commands \ {p} : command'[q] = command[q],
             command[p].pc = "remove",
             command'[p].pc = "deleted" \/ Prysm \notin command'[p].left => prysm' = NoPrysm,
             ~past'.mixed /\ command'[p].pc = "remove" => KnowsInv(p)'
      PROVE  RefusalInv'
  <2>1. \A q \in Commands \ {p} : ~Running(q)
    BY <1>p DEF RefusalInv, AloneInv
  <2>2. \A q \in Commands \ {p} : ~Running(q)' /\ ~Active(q)' /\ ~Purging(q)'
    BY <1>p, <2>1 DEF Running, Active, Purging, Storing, PrysmSteps, Ends
  <2>3. AloneInv'
    BY <2>2 DEF AloneInv
  <2>4. DeletedInv'
    BY <1>p, <2>2 DEF DeletedInv, Purging
  <2>5. command'[p].pc = "deleted" => Opens'
    BY <1>p DEF Opens, NoPrysm
  <2>6. MatchInv'
    BY <1>p, <2>2, <2>5 DEF MatchInv, Active, Purging, Storing, PrysmSteps
  <2> QED
    BY <2>3, <2>4, <2>6 DEF RefusalInv
<1>k. command[p].pc = "remove" /\ ~past.mixed => KnowsInv(p)
  BY DEF RefusalInv, MatchInv, Active, Storing
<1>d. command[p].pc = "remove" /\ Prysm \notin command[p].left => prysm = NoPrysm
  BY DEF RefusalInv, DeletedInv
<1>1. CASE BeginPurge(p)
  <2>1. /\ \A q \in Commands : ~Running(q)
        /\ command'[p].pc = "remove" /\ command'[p].left = Clients
        /\ \A q \in Commands \ {p} : command'[q] = command[q]
        /\ UNCHANGED prysm /\ past'.mixed = past.mixed
    BY <1>0, <1>1 DEF BeginPurge, files, Command, Past
  <2>2. /\ \A q \in Commands : ~Active(q)
        /\ \A q \in Commands \ {p} : ~Running(q)' /\ ~Active(q)' /\ ~Purging(q)'
    BY <2>1 DEF Running, Active, Purging, Storing, PrysmSteps, Ends
  <2>3. AloneInv'
    BY <2>2 DEF AloneInv
  <2>4. DeletedInv'
    BY <1>0, <2>1, <2>2 DEF DeletedInv, Purging
  <2>5. ~past'.mixed => Opens'
    BY <2>1, <2>2 DEF RefusalInv, MatchInv, Opens
  <2>6. Opens' => KnowsInv(p)'
    BY <2>1 DEF KnowsInv, Emptying, Opens, Filling, Storing, PrysmSteps
  <2>7. MatchInv'
    <3>1. Active(p)'
      BY <2>1 DEF Active, Storing
    <3> QED
      BY <2>2, <2>5, <2>6, <3>1 DEF MatchInv
  <2> QED
    BY <2>3, <2>4, <2>7 DEF RefusalInv
<1>2. ASSUME NEW c \in Clients, ChooseStore(p, c) PROVE RefusalInv'
  <2>1. /\ command[p].pc = "remove" /\ command[p].at = NoClient
        /\ command'[p].pc = "remove" /\ command'[p].left = command[p].left
        /\ \A q \in Commands \ {p} : command'[q] = command[q]
        /\ UNCHANGED <<prysm, past>>
    BY <1>0, <1>2 DEF ChooseStore, files, Command
  <2>2. KnowsInv(p) => KnowsInv(p)'
    BY <1>0, <2>1 DEF KnowsInv, Emptying, Opens, Filling, Storing, PrysmSteps
  <2> QED
    BY <1>p, <1>k, <1>d, <2>1, <2>2 DEF Purging
<1>3. CASE RemovePairFile(p)
  <2>1. /\ command[p].pc = "remove" /\ UNCHANGED <<command, prysm, past>>
    BY <1>3 DEF RemovePairFile
  <2>2. KnowsInv(p) => KnowsInv(p)'
    BY <2>1 DEF KnowsInv, Emptying, Opens
  <2> QED
    BY <1>p, <1>k, <1>d, <2>1, <2>2 DEF Purging
<1>4. CASE RemovePrysmFile(p)
  <2>1. /\ command[p].pc = "remove" /\ command[p].at = Prysm /\ UNCHANGED <<command, past>>
    BY <1>4 DEF RemovePrysmFile
  <2>2. command[p].left # {} /\ Prysm \in command[p].left
    <3>1. command[p] \in GoodCommand
      BY DEF RefusalInv, TypeInv
    <3> QED
      BY <1>0, <2>1, <3>1 DEF GoodCommand
  <2>3. \/ prysm' = [prysm EXCEPT !.word = Absent]
        \/ prysm' = [prysm EXCEPT !.state = "absent", !.accounts = NoAccounts]
        \/ prysm' = [prysm EXCEPT !.config = "absent"]
    BY <1>4 DEF RemovePrysmFile
  <2>4. KnowsInv(p) => KnowsInv(p)'
    BY <1>0, <2>1, <2>3
       DEF KnowsInv, Emptying, Filling, Storing, PrysmSteps, PrysmFiles
  <2> QED
    BY <1>p, <1>k, <2>1, <2>2, <2>4 DEF Purging
<1>5. CASE StoreRemoved(p)
  <2> DEFINE rest == command[p].left \ {command[p].at}
  <2>1. /\ command[p].pc = "remove" /\ command[p].at # NoClient /\ UNCHANGED prysm
        /\ \A q \in Commands \ {p} : command'[q] = command[q]
        /\ command[p].at = Prysm => prysm = NoPrysm
    BY <1>0, <1>5 DEF StoreRemoved, files, Emptied
  <2>2. Prysm \notin rest => prysm = NoPrysm
    BY <1>d, <2>1
  <2>3. CASE rest = {}
    <3>1. command'[p].pc = "deleted"
      BY <1>0, <1>5, <2>3 DEF StoreRemoved, NewCommand
    <3> QED
      BY <1>p, <2>1, <2>2, <2>3, <3>1 DEF Purging
  <2>4. CASE rest # {}
    <3>1. /\ command'[p].pc = "remove" /\ command'[p].left = rest
          /\ command'[p].at = NoClient /\ UNCHANGED past
      BY <1>0, <1>5, <2>4 DEF StoreRemoved, Command
    <3>2. KnowsInv(p) => KnowsInv(p)'
      BY <1>0, <2>1, <3>1
         DEF KnowsInv, Emptying, Opens, Filling, Storing, PrysmSteps, NoPrysm
    <3> QED
      BY <1>p, <1>k, <2>1, <2>2, <3>1, <3>2 DEF Purging
  <2> QED
    BY <2>3, <2>4
<1>6. CASE DeleteWallet(p)
  <2>1. /\ UNCHANGED <<prysm, past>> /\ command[p].pc = "deleted"
        /\ command'[p].pc = "done"
        /\ \A q \in Commands \ {p} : command'[q] = command[q]
    BY <1>0, <1>6 DEF DeleteWallet, files, Ended, NewCommand
  <2> QED
    BY <2>1, EndsKeepRefusal DEF Ends
<1> QED
  BY <1>1, <1>2, <1>3, <1>4, <1>5, <1>6 DEF Purge

\* A kill outside the moments that mixed names leaves a store that opens.
LEMMA KillKeepsRefusal ==
    ASSUME RefusalInv, TypeInv', NEW p \in Commands, Kill(p)
    PROVE  RefusalInv'
<1>0. /\ command \in [Commands -> Command] /\ past \in Past /\ prysm \in PrysmFiles
  BY DEF RefusalInv, TypeInv, TypeOK
<1>1. /\ command'[p].pc = "killed" /\ UNCHANGED prysm
      /\ \A q \in Commands \ {p} : command'[q] = command[q]
  BY <1>0 DEF Kill, files, Ended, NewCommand
<1>2. ~past'.mixed =>
        /\ ~past.mixed
        /\ command[p].pc # "fillAccounts"
        /\ Emptying(p) => prysm.state = "absent" \/ prysm.word # Absent
  BY <1>0 DEF Kill, Past, Emptying
<1>3. ~Active(p)' /\ ~Running(p)' /\ ~Purging(p)'
  BY <1>1 DEF Active, Running, Purging, Storing, PrysmSteps, Ends
<1>4. \A q \in Commands \ {p} :
        /\ Active(q)' <=> Active(q)
        /\ Running(q)' <=> Running(q)
        /\ Purging(q)' <=> Purging(q)
        /\ KnowsInv(q)' <=> KnowsInv(q)
  BY <1>1 DEF Active, Running, Purging, KnowsInv, Emptying, Opens
<1>5. AloneInv'
  BY <1>3, <1>4 DEF RefusalInv, AloneInv
<1>6. DeletedInv'
  BY <1>1, <1>3 DEF RefusalInv, DeletedInv, Purging
<1>7. ~past'.mixed /\ Active(p) => Opens
  <2>1. ~past'.mixed /\ Active(p) => KnowsInv(p)
    BY <1>2 DEF RefusalInv, MatchInv
  <2> QED
    BY <1>0, <1>2, <2>1 DEF KnowsInv, Opens, PrysmFiles
<1>8. MatchInv'
  <2>1. Opens' <=> Opens
    BY <1>1 DEF Opens
  <2>2. ~past'.mixed => MatchInv /\ ~past.mixed
    BY <1>2 DEF RefusalInv
  <2> QED
    BY <1>3, <1>4, <1>7, <2>1, <2>2 DEF MatchInv
<1> QED
  BY <1>5, <1>6, <1>8 DEF RefusalInv

LEMMA InitRefusal == Init => RefusalInv
<1> SUFFICES ASSUME Init PROVE RefusalInv
  OBVIOUS
<1>1. \A p \in Commands : ~Active(p) /\ ~Purging(p)
  BY DEF Init, NewCommand, Active, Purging, Storing, PrysmSteps
<1> QED
  BY <1>1, InitType
     DEF Init, RefusalInv, AloneInv, DeletedInv, MatchInv, Opens, NoPrysm, Purging

LEMMA NextRefusal == RefusalInv /\ [Next]_vars => RefusalInv'
<1> SUFFICES ASSUME RefusalInv, [Next]_vars PROVE RefusalInv'
  OBVIOUS
<1>0. TypeInv'
  BY NextType DEF RefusalInv
<1>1. ASSUME NEW p \in Commands, Store(p) \/ Purge(p) \/ Kill(p) PROVE RefusalInv'
  BY <1>0, <1>1, StoreKeepsRefusal, PurgeKeepsRefusal, KillKeepsRefusal
<1>2. CASE UNCHANGED <<files, command, past>>
  BY <1>0, <1>2
     DEF RefusalInv, AloneInv, DeletedInv, MatchInv, KnowsInv, Opens, Emptying,
         Purging, Running, Active, files
<1>3. InitWallet \/ UNCHANGED vars => UNCHANGED <<files, command, past>>
  BY DEF InitWallet, vars
<1> QED
  BY <1>1, <1>2, <1>3 DEF Next

\* A step by which a process fails is one of ReadAccounts, and its process is
\* alone if nothing was mixed: it has the password that opens the store.
LEMMA RefusalStep ==
    ASSUME RefusalInv, Next, NEW p \in Commands,
           command[p].pc # "failed", command'[p].pc = "failed"
    PROVE  past.mixed
<1>0. /\ command[p] \in GoodCommand /\ command \in [Commands -> Command]
  BY DEF RefusalInv, TypeInv, TypeOK
<1>1. ReadAccounts(p)
  <2>1. ASSUME NEW q \in Commands, Store(q) PROVE ReadAccounts(p)
    <3>1. \A c \in GoodCommand : c.pc \in Filling => Stored(c).pc # "failed"
      BY StoredSteps
    <3>2. ASSUME NEW cut, StoreReturns(q, command[q], cut), command[q].pc \in Filling
          PROVE  FALSE
      BY <1>0, <3>1, <3>2 DEF StoreReturns, RefusalInv, TypeInv
    <3>3. ASSUME NEW last \in Keys, Begin(q, last) PROVE FALSE
      BY <1>0, <3>3 DEF Begin, NewCommand, Command
    <3>4. ASSUME NEW c \in PairClients, WriteSecret(q, c) PROVE FALSE
      BY <1>0, <3>4 DEF WriteSecret, Command
    <3>5. ~StartPrysm(q) /\ ~OpenWord(q) /\ ~FillWord(q) /\ ~ReadWord(q)
      BY <1>0 DEF StartPrysm, OpenWord, FillWord, ReadWord, Goto, Command
    <3>6. ~OpenAccounts(q) /\ ~FillAccounts(q) /\ ~SaveWallet(q)
      BY <1>0 DEF OpenAccounts, FillAccounts, SaveWallet, Goto, Command, Ended, NewCommand
    <3>7. ~WriteKey(q) /\ ~FillConfig(q)
      BY <3>2 DEF WriteKey, FillConfig, Filling, Storing, PrysmSteps
    <3>8. ~Add(q) /\ ~StatConfig(q)
      BY <1>0, <3>2 DEF Add, StatConfig, Goto, Filling, Storing, PrysmSteps, Command
    <3>9. ReadAccounts(q) => q = p
      BY <1>0 DEF ReadAccounts
    <3> QED
      BY <2>1, <3>3, <3>4, <3>5, <3>6, <3>7, <3>8, <3>9 DEF Store
  <2>2. ASSUME NEW q \in Commands, Purge(q) PROVE FALSE
    <3>1. ~BeginPurge(q) /\ ~RemovePairFile(q) /\ ~RemovePrysmFile(q)
      BY <1>0 DEF BeginPurge, RemovePairFile, RemovePrysmFile, Command
    <3>2. ~DeleteWallet(q) /\ \A c \in Clients : ~ChooseStore(q, c)
      BY <1>0 DEF DeleteWallet, ChooseStore, Command, Ended, NewCommand
    <3>3. ~StoreRemoved(q)
      BY <1>0 DEF StoreRemoved, Command, NewCommand
    <3> QED
      BY <2>2, <3>1, <3>2, <3>3 DEF Purge
  <2>3. ASSUME NEW q \in Commands, Kill(q) PROVE FALSE
    BY <1>0, <2>3 DEF Kill, Ended, NewCommand
  <2>4. ~InitWallet
    BY DEF InitWallet
  <2> QED
    BY <2>1, <2>2, <2>3, <2>4 DEF Next
<1>2. /\ command[p].pc = "readAccounts"
      /\ ~(prysm.state = "absent" \/ (/\ prysm.state = "whole"
                                      /\ prysm.accounts.word = command[p].word))
  BY <1>0, <1>1 DEF ReadAccounts, Command
<1>3. ~past.mixed => KnowsInv(p)
  BY <1>2 DEF RefusalInv, MatchInv, Active, Storing, PrysmSteps
<1> QED
  BY <1>2, <1>3 DEF KnowsInv, Opens, Emptying

\* Prysm's account store refuses a command only after two commands overlapped,
\* or one was killed while the store was written or half deleted.
THEOREM RefusalExplained == Spec => RefusalIsExplained
<1>1. RefusalInv /\ [Next]_vars =>
        [\A p \in Commands :
          command[p].pc # "failed" /\ command'[p].pc = "failed" => past.mixed]_vars
  BY RefusalStep
<1>2. Spec => []RefusalInv
  BY InitRefusal, NextRefusal, PTL DEF Spec
<1> QED
  BY <1>1, <1>2, PTL DEF Spec, RefusalIsExplained

-----------------------------------------------------------------------------
(* What is stored is readable. The files of a key are right as soon as its    *)
(* command has left the keystore, unless a command that overlapped it has the *)
(* same key; and a key of Prysm is in the copy of each process that stores    *)
(* the accounts, unless two of them overlapped.                               *)

\* A command has brought a key into the keystore of a client.
Done(p, c, k) ==
    /\ k \in Covered(p)
    /\ k < command[p].key \/ (k = command[p].key /\ c \notin command[p].left)

\* Two commands that overlap know of each other's keys. What was promised is
\* neither of a purge nor a key over which two commands may still quarrel.
RivalInv ==
    /\ \A p, q \in Commands :
          command[p].pc \in Filling /\ command[q].pc \in Filling /\ p # q =>
             Covered(q) \subseteq command[p].rivals
    /\ \A p \in Commands :
          command[p].pc \in Filling /\ command[p].rivals # {} => past.mixed
    /\ \A p \in Commands : Purging(p) => past.promised = {}
    /\ \A p \in Commands : command[p].pc \in Filling =>
          past.promised \cap Covered(p) \cap command[p].rivals = {}

PairOf(p) == command[p].pc \in Filling =>
    /\ \A c \in PairClients, k \in Keys :
          Done(p, c, k) /\ k \notin command[p].rivals => PairReadable(c, k)
    /\ command[p].pc = "key" /\ command[p].key \notin command[p].rivals =>
          secret[command[p].at][command[p].key] = p

\* The pair of a promised key is whole, or cut, or being written again.
Repairing(p, c, k) ==
    command[p].pc = "key" /\ command[p].at = c /\ command[p].key = k

PromiseOf(c, k) ==
    \/ <<c, k>> \in past.cut
    \/ PairReadable(c, k)
    \/ \E p \in Commands : Repairing(p, c, k)

PromisedInv == \A k \in past.promised, c \in PairClients : PromiseOf(c, k)

\* When a process has its copy of the accounts, and what is in it.
CacheOf(p) == command[p].pc \in Filling =>
    /\ command[p].pc \in {"openWord", "fillWord", "readWord", "readAccounts"}
          => ~command[p].read
    /\ command[p].pc \in {"add", "openAccounts", "fillAccounts", "config", "fillConfig"}
          => command[p].read
    /\ command[p].pc \in {"openAccounts", "fillAccounts", "config", "fillConfig"}
          => command[p].key \in command[p].cache
    /\ \A k \in Keys : Done(p, Prysm, k) => command[p].read /\ k \in command[p].cache

\* Without a rival, the copy is what is on disk, but for the key to be added.
AccountOf(p) == command[p].pc \in Filling /\ command[p].rivals = {} =>
    /\ command[p].pc \in {"readAccounts", "openAccounts", "fillAccounts"}
          => command[p].word = prysm.word
    /\ command[p].read /\ command[p].pc \notin {"openAccounts", "fillAccounts"} =>
          \/ prysm.state = "absent" /\ command[p].cache = {}
          \/ /\ prysm.state = "whole"
             /\ prysm.accounts.word = prysm.word
             /\ prysm.accounts.keys = command[p].cache

\* As long as nothing was mixed, Prysm's accounts have the promised keys, and so
\* has every copy that may replace them.
KeptFile ==
    /\ prysm.state = "absent" => past.promised = {}
    /\ prysm.state = "whole" => past.promised \subseteq prysm.accounts.keys

KeptInv == ~past.mixed =>
    /\ KeptFile
    /\ \A p \in Commands : command[p].pc \in Filling /\ command[p].read
          => past.promised \subseteq command[p].cache

\* Who owes Prysm its configuration, or has just deleted it.
Configuring(p) ==
    \/ command[p].pc \in {"config", "fillConfig"}
    \/ Emptying(p) /\ prysm.config = "absent"

ConfigInv == past.bare \/
    /\ prysm.config = "torn" => \E p \in Commands : command[p].pc = "fillConfig"
    /\ prysm.state = "whole" =>
          prysm.config = "whole" \/ \E p \in Commands : Configuring(p)

ReadInv ==
    /\ RivalInv
    /\ \A p \in Commands : PairOf(p)
    /\ PromisedInv
    /\ \A p \in Commands : CacheOf(p)
    /\ \A p \in Commands : AccountOf(p)
    /\ KeptInv
    /\ ConfigInv

ReadableInv == RefusalInv /\ ReadInv

\* A command that stores keys has no purge beside it, and whoever stores keys
\* with it has it among its rivals.
LEMMA Company ==
    ASSUME ReadableInv, NEW p \in Commands, command[p].pc \in Filling
    PROVE  /\ \A q \in Commands : ~Purging(q) /\ ~Emptying(q)
           /\ command[p].key \in Covered(p) /\ command[p].key \in Keys
           /\ \A q \in Commands \ {p} : command[q].pc \in Filling =>
                 /\ Covered(p) \subseteq command[q].rivals
                 /\ Covered(q) \subseteq command[p].rivals
                 /\ command[p].rivals # {} /\ command[q].rivals # {}
                 /\ past.mixed
<1>1. \A q \in Commands : ~Purging(q)
  BY DEF ReadableInv, RefusalInv, AloneInv, Running, Purging, Filling, Storing,
         PrysmSteps, Ends
<1>2. \A q \in Commands : ~Emptying(q)
  BY <1>1 DEF Emptying, Purging
<1>3. \A q \in Commands : command[q].pc \in Filling =>
         command[q].key \in Covered(q) /\ command[q].key \in Keys
  BY DEF ReadableInv, RefusalInv, TypeInv, GoodCommand, Covered
<1>4. \A q \in Commands \ {p} : command[q].pc \in Filling =>
         /\ Covered(p) \subseteq command[q].rivals
         /\ Covered(q) \subseteq command[p].rivals
  BY DEF ReadableInv, ReadInv, RivalInv
<1>5. \A q \in Commands \ {p} : command[q].pc \in Filling =>
         command[p].rivals # {} /\ command[q].rivals # {}
  BY <1>3, <1>4
<1>6. command[p].rivals # {} => past.mixed
  BY DEF ReadableInv, ReadInv, RivalInv
<1> QED
  BY <1>1, <1>2, <1>3, <1>4, <1>5, <1>6

\* RivalInv, in steps after which no command stores other keys than before.
LEMMA RivalKept ==
    ASSUME RivalInv,
           \A q \in Commands : command'[q].pc \in Filling =>
              /\ command[q].pc \in Filling
              /\ Covered(q)' = Covered(q)
              /\ command'[q].rivals = command[q].rivals
              /\ past'.promised \cap Covered(q) \cap command[q].rivals = {},
           past.mixed => past'.mixed,
           \A q \in Commands : Purging(q)' => past'.promised = {}
    PROVE  RivalInv'
BY DEF RivalInv

\* A step of one process that goes on with its key.
Moves(p, pc, at, read, cache, word) ==
    command' = [command EXCEPT ![p] =
        [command[p] EXCEPT !.pc = pc, !.at = at, !.read = read,
                           !.cache = cache, !.word = word]]

LEMMA MoveFields ==
    ASSUME TypeInv, NEW p \in Commands,
           NEW pc, NEW at, NEW read, NEW cache, NEW word,
           Moves(p, pc, at, read, cache, word)
    PROVE  /\ command'[p].pc = pc /\ command'[p].at = at
           /\ command'[p].read = read /\ command'[p].cache = cache
           /\ command'[p].word = word
           /\ command'[p].key = command[p].key /\ command'[p].left = command[p].left
           /\ \A q \in Commands \ {p} : command'[q] = command[q]
           /\ \A q \in Commands :
                 /\ Covered(q)' = Covered(q)
                 /\ command'[q].rivals = command[q].rivals
                 /\ \A c, k : Done(q, c, k)' <=> Done(q, c, k)
<1>1. command \in [Commands -> Command]
  BY DEF TypeInv, TypeOK
<1>2. /\ command'[p] = [command[p] EXCEPT !.pc = pc, !.at = at, !.read = read,
                                          !.cache = cache, !.word = word]
      /\ \A q \in Commands \ {p} : command'[q] = command[q]
  BY <1>1 DEF Moves
<1>3. command[p] \in Command
  BY <1>1
<1>4. /\ command'[p].pc = pc /\ command'[p].at = at
      /\ command'[p].read = read /\ command'[p].cache = cache
      /\ command'[p].word = word
      /\ command'[p].key = command[p].key /\ command'[p].left = command[p].left
      /\ command'[p].first = command[p].first /\ command'[p].last = command[p].last
      /\ command'[p].rivals = command[p].rivals
  BY <1>2, <1>3 DEF Command
<1>5. \A q \in Commands : Covered(q)' = Covered(q)
  BY <1>2, <1>4 DEF Covered
<1>6. \A q \in Commands : command'[q].rivals = command[q].rivals
  BY <1>2, <1>4
<1>7. \A q \in Commands : command'[q].key = command[q].key /\ command'[q].left = command[q].left
  BY <1>2, <1>4
<1>8. \A q \in Commands : \A c, k : Done(q, c, k)' <=> Done(q, c, k)
  BY <1>5, <1>7 DEF Done
<1> QED
  BY <1>2, <1>4, <1>5, <1>6, <1>8

\* A step within the keystore of Prysm: the files of the pairs stay.
LEMMA PrysmMove ==
    ASSUME ReadableInv, NEW p \in Commands,
           command[p].pc \in Filling, command[p].pc # "key",
           NEW pc \in PrysmSteps, NEW at, NEW read, NEW cache, NEW word,
           Moves(p, pc, at, read, cache, word),
           UNCHANGED <<secret, keyfile, past>>,
           CacheOf(p)', AccountOf(p)',
           ~past.mixed => KeptFile' /\ (read => past.promised \subseteq cache),
           ConfigInv'
    PROVE  ReadInv'
<1>0. TypeInv /\ RivalInv
  BY DEF ReadableInv, RefusalInv, ReadInv
<1>1. /\ command'[p].pc = pc /\ command'[p].read = read /\ command'[p].cache = cache
      /\ \A q \in Commands \ {p} : command'[q] = command[q]
      /\ \A q \in Commands :
            /\ Covered(q)' = Covered(q)
            /\ command'[q].rivals = command[q].rivals
            /\ \A c, k : Done(q, c, k)' <=> Done(q, c, k)
  BY <1>0, MoveFields
<1>2. pc \in Filling /\ pc # "key" /\ pc # "remove"
  BY DEF Filling, Storing, PrysmSteps
<1>3. \A q \in Commands : ~Purging(q)'
  BY <1>1, <1>2, Company DEF Purging, Filling, Storing, PrysmSteps
<1>4. RivalInv'
  BY <1>0, <1>1, <1>3, RivalKept DEF RivalInv
<1>5. \A c, k : PairReadable(c, k)' <=> PairReadable(c, k)
  BY DEF PairReadable
<1>6. ASSUME NEW q \in Commands PROVE PairOf(q)'
  <2>1. PairOf(q)
    BY DEF ReadableInv, ReadInv
  <2>2. CASE q = p
    BY <1>1, <1>2, <1>5, <2>1, <2>2 DEF PairOf
  <2>3. CASE q # p
    BY <1>1, <1>5, <2>1, <2>3 DEF PairOf
  <2> QED
    BY <2>2, <2>3
<1>7. PromisedInv'
  <2>1. ASSUME NEW k \in past.promised, NEW c \in PairClients PROVE PromiseOf(c, k)'
    <3>1. PromiseOf(c, k)
      BY DEF ReadableInv, ReadInv, PromisedInv
    <3>2. \A q \in Commands : Repairing(q, c, k) => Repairing(q, c, k)'
      BY <1>1 DEF Repairing
    <3> QED
      BY <1>5, <3>1, <3>2 DEF PromiseOf
  <2> QED
    BY <2>1 DEF PromisedInv
<1>8. ASSUME NEW q \in Commands PROVE CacheOf(q)'
  <2>1. CacheOf(q)
    BY DEF ReadableInv, ReadInv
  <2> QED
    BY <1>1, <2>1 DEF CacheOf
<1>9. ASSUME NEW q \in Commands PROVE AccountOf(q)'
  <2>1. q # p /\ command'[q].pc \in Filling => command'[q].rivals # {}
    BY <1>1, Company
  <2> QED
    BY <2>1 DEF AccountOf
<1>10. KeptInv'
  <2>1. ~past.mixed => \A q \in Commands : command[q].pc \in Filling /\ command[q].read
                         => past.promised \subseteq command[q].cache
    BY DEF ReadableInv, ReadInv, KeptInv
  <2>2. ~past.mixed => \A q \in Commands : command'[q].pc \in Filling /\ command'[q].read
                         => past.promised \subseteq command'[q].cache
    BY <1>1, <2>1
  <2>3. past' = past
    OBVIOUS
  <2> QED
    BY <2>2, <2>3 DEF KeptInv
<1> QED
  BY <1>4, <1>6, <1>7, <1>8, <1>9, <1>10 DEF ReadInv

\* The configuration is as it was, and so is who owes it.
LEMMA ConfigMove ==
    ASSUME ReadableInv, NEW p \in Commands,
           command[p].pc \in Filling \ {"config", "fillConfig"},
           \A q \in Commands \ {p} : command'[q] = command[q],
           past'.bare = past.bare, prysm'.config = prysm.config,
           prysm'.state = "whole" => prysm.state = "whole"
    PROVE  ConfigInv'
<1>1. \A q \in Commands : ~Emptying(q)
  BY Company
<1>2. \A q \in Commands :
        /\ command[q].pc = "fillConfig" => command'[q].pc = "fillConfig"
        /\ Configuring(q) => Configuring(q)'
  BY <1>1 DEF Configuring
<1> QED
  BY <1>2 DEF ReadableInv, ReadInv, ConfigInv

\* The steps of a process in the keystore of Prysm, but for those that leave it.
LEMMA WordSteps ==
    ASSUME ReadableInv, NEW p \in Commands,
           StartPrysm(p) \/ OpenWord(p) \/ FillWord(p) \/ ReadWord(p)
    PROVE  ReadInv'
<1>0. /\ command[p] \in Command /\ command \in [Commands -> Command]
      /\ prysm \in PrysmFiles /\ TypeInv
      /\ CacheOf(p) /\ AccountOf(p) /\ KeptInv
  BY DEF ReadableInv, RefusalInv, TypeInv, TypeOK, ReadInv
<1>1. CASE StartPrysm(p)
  <2> DEFINE pc == IF command[p].read THEN "add"
                   ELSE IF prysm.word = Absent THEN "openWord" ELSE "readWord"
  <2>1. /\ Moves(p, pc, Prysm, command[p].read, command[p].cache, command[p].word)
        /\ command[p].pc = "next" /\ UNCHANGED <<files, past>>
    BY <1>0, <1>1 DEF StartPrysm, Moves, Command
  <2>2. /\ pc \in PrysmSteps /\ pc \notin {"openAccounts", "fillAccounts", "readAccounts",
                                             "config", "fillConfig"}
        /\ pc = "add" => command[p].read
        /\ pc \in {"openWord", "readWord"} => ~command[p].read
        /\ pc # "fillWord"
    BY DEF PrysmSteps
  <2> HIDE DEF pc
  <2>3. /\ command'[p].pc = pc
        /\ command'[p].read = command[p].read /\ command'[p].cache = command[p].cache
        /\ command'[p].key = command[p].key
        /\ command'[p].rivals = command[p].rivals
        /\ \A q \in Commands \ {p} : command'[q] = command[q]
        /\ \A k : Done(p, Prysm, k)' <=> Done(p, Prysm, k)
    BY <1>0, <2>1, MoveFields
  <2>4. command[p].pc \in Filling \ {"config", "fillConfig"} /\ UNCHANGED prysm
    BY <2>1 DEF Filling, Storing, files
  <2>5. CacheOf(p)'
    BY <1>0, <2>2, <2>3, <2>4 DEF CacheOf
  <2>6. AccountOf(p)'
    BY <1>0, <2>1, <2>2, <2>3, <2>4 DEF AccountOf
  <2>7. ConfigInv'
    BY <2>1, <2>3, <2>4, ConfigMove
  <2>8. ~past.mixed => KeptFile' /\ (command[p].read => past.promised \subseteq command[p].cache)
    BY <1>0, <2>1, <2>4 DEF KeptInv, KeptFile
  <2> QED
    BY <2>1, <2>2, <2>4, <2>5, <2>6, <2>7, <2>8, PrysmMove DEF files
<1>2. CASE OpenWord(p) \/ FillWord(p)
  <2> DEFINE pc == IF command[p].pc = "openWord" THEN "fillWord" ELSE "readWord"
  <2>1. /\ Moves(p, pc, command[p].at, command[p].read, command[p].cache, command[p].word)
        /\ command[p].pc \in {"openWord", "fillWord"}
        /\ UNCHANGED <<secret, keyfile, past>>
    BY <1>0, <1>2 DEF OpenWord, FillWord, Goto, Moves, Command
  <2>2. pc \in PrysmSteps /\ pc \in {"fillWord", "readWord"}
    BY DEF PrysmSteps
  <2> HIDE DEF pc
  <2>3. /\ command'[p].pc = pc
        /\ command'[p].read = command[p].read /\ command'[p].cache = command[p].cache
        /\ command'[p].key = command[p].key
        /\ command'[p].rivals = command[p].rivals
        /\ \A q \in Commands \ {p} : command'[q] = command[q]
        /\ \A k : Done(p, Prysm, k)' <=> Done(p, Prysm, k)
    BY <1>0, <2>1, MoveFields
  <2>4. /\ command[p].pc \in Filling \ {"config", "fillConfig"} /\ command[p].pc # "key"
        /\ prysm'.state = prysm.state /\ prysm'.config = prysm.config
        /\ prysm'.accounts = prysm.accounts
    BY <1>0, <1>2, <2>1 DEF Filling, Storing, PrysmSteps, OpenWord, FillWord, PrysmFiles
  <2>5. CacheOf(p)' /\ ~command[p].read
    BY <1>0, <2>1, <2>2, <2>3, <2>4 DEF CacheOf
  <2>6. AccountOf(p)'
    BY <2>2, <2>3, <2>5 DEF AccountOf
  <2>7. ConfigInv'
    BY <2>1, <2>3, <2>4, ConfigMove
  <2>8. ~past.mixed => KeptFile'
    BY <1>0, <2>1, <2>4 DEF KeptInv, KeptFile
  <2> QED
    BY <2>1, <2>2, <2>4, <2>5, <2>6, <2>7, <2>8, PrysmMove
<1>3. CASE ReadWord(p)
  <2>1. /\ Moves(p, "readAccounts", command[p].at, command[p].read, command[p].cache,
                 prysm.word)
        /\ command[p].pc = "readWord" /\ UNCHANGED <<files, past>>
    BY <1>0, <1>3 DEF ReadWord, Moves, Command
  <2>2. "readAccounts" \in PrysmSteps
    BY DEF PrysmSteps
  <2>3. /\ command'[p].pc = "readAccounts" /\ command'[p].word = prysm.word
        /\ command'[p].read = command[p].read /\ command'[p].cache = command[p].cache
        /\ command'[p].key = command[p].key
        /\ command'[p].rivals = command[p].rivals
        /\ \A q \in Commands \ {p} : command'[q] = command[q]
        /\ \A k : Done(p, Prysm, k)' <=> Done(p, Prysm, k)
    BY <1>0, <2>1, MoveFields
  <2>4. command[p].pc \in Filling \ {"config", "fillConfig"} /\ UNCHANGED prysm
    BY <2>1 DEF Filling, Storing, PrysmSteps, files
  <2>5. CacheOf(p)' /\ ~command[p].read
    BY <1>0, <2>1, <2>3, <2>4 DEF CacheOf
  <2>6. AccountOf(p)'
    BY <2>3, <2>4, <2>5 DEF AccountOf
  <2>7. ConfigInv'
    BY <2>1, <2>3, <2>4, ConfigMove
  <2>8. ~past.mixed => KeptFile'
    BY <1>0, <2>1, <2>4 DEF KeptInv, KeptFile
  <2> QED
    BY <2>1, <2>2, <2>4, <2>5, <2>6, <2>7, <2>8, PrysmMove DEF files
<1> QED
  BY <1>1, <1>2, <1>3

\* The process reads the accounts.
LEMMA ReadStep ==
    ASSUME ReadableInv, NEW p \in Commands, ReadAccounts(p), command'[p].pc # "failed"
    PROVE  ReadInv'
<1>0. /\ command[p] \in Command /\ command \in [Commands -> Command]
      /\ prysm \in PrysmFiles /\ TypeInv
      /\ CacheOf(p) /\ AccountOf(p) /\ KeptInv
  BY DEF ReadableInv, RefusalInv, TypeInv, TypeOK, ReadInv
<1> DEFINE cache == IF prysm.state = "absent" THEN {} ELSE prysm.accounts.keys
           read == TRUE
<1>1. /\ Moves(p, "add", command[p].at, read, cache, Absent)
      /\ command[p].pc = "readAccounts" /\ UNCHANGED <<files, past>>
      /\ prysm.state # "absent" =>
            prysm.state = "whole" /\ prysm.accounts.word = command[p].word
  <2>1. command[p].pc = "readAccounts" /\ UNCHANGED <<files, past>>
    BY DEF ReadAccounts
  <2>2. CASE prysm.state = "absent"
    BY <1>0, <2>1, <2>2 DEF ReadAccounts, Moves, Command
  <2>3. CASE prysm.state # "absent"
    <3>1. prysm.state = "whole" /\ prysm.accounts.word = command[p].word
      <4>1. command'[p] # Ended("failed")
        BY DEF Ended, NewCommand
      <4> QED
        BY <1>0, <2>3, <4>1 DEF ReadAccounts
    <3> QED
      BY <1>0, <2>1, <2>3, <3>1 DEF ReadAccounts, Moves, Command
  <2> QED
    BY <2>2, <2>3
<1>2. \/ cache = {} /\ prysm.state = "absent"
      \/ cache = prysm.accounts.keys /\ prysm.state = "whole"
  BY <1>1
<1>r. read = TRUE
  OBVIOUS
<1> HIDE DEF cache, read
<1>3. /\ command'[p].pc = "add" /\ command'[p].read = read
      /\ command'[p].cache = cache
      /\ command'[p].key = command[p].key
      /\ command'[p].rivals = command[p].rivals
      /\ \A q \in Commands \ {p} : command'[q] = command[q]
      /\ \A k : Done(p, Prysm, k)' <=> Done(p, Prysm, k)
  BY <1>0, <1>1, MoveFields
<1>4. command[p].pc \in Filling \ {"config", "fillConfig"} /\ UNCHANGED prysm
  BY <1>1 DEF Filling, Storing, PrysmSteps, files
<1>5. CacheOf(p)'
  BY <1>0, <1>1, <1>3, <1>4, <1>r DEF CacheOf
<1>6. AccountOf(p)'
  BY <1>0, <1>1, <1>2, <1>3, <1>4, <1>r DEF AccountOf
<1>7. ConfigInv'
  BY <1>1, <1>3, <1>4, ConfigMove
<1>8. ~past.mixed => KeptFile' /\ past.promised \subseteq cache
  BY <1>0, <1>1, <1>2, <1>4 DEF KeptInv, KeptFile
<1>9. "add" \in PrysmSteps
  BY DEF PrysmSteps
<1> QED
  BY <1>1, <1>4, <1>5, <1>6, <1>7, <1>8, <1>9, PrysmMove DEF files

\* It writes them with one key more.
LEMMA AccountSteps ==
    ASSUME ReadableInv, NEW p \in Commands,
           \/ Add(p) /\ command[p].key \notin command[p].cache
           \/ OpenAccounts(p)
           \/ FillAccounts(p)
    PROVE  ReadInv'
<1>0. /\ command[p] \in Command /\ command \in [Commands -> Command]
      /\ prysm \in PrysmFiles /\ TypeInv
      /\ CacheOf(p) /\ AccountOf(p) /\ KeptInv
  BY DEF ReadableInv, RefusalInv, TypeInv, TypeOK, ReadInv
<1>k. /\ \A k : Done(p, Prysm, k) => k \in Keys
      /\ command[p].pc \in Filling => command[p].key \in Keys
  BY <1>0 DEF Done, Covered, TypeInv, GoodCommand
<1>1. CASE Add(p) /\ command[p].key \notin command[p].cache
  <2> DEFINE cache == command[p].cache \cup {command[p].key}
  <2>1. /\ Moves(p, "openAccounts", command[p].at, command[p].read, cache, prysm.word)
        /\ command[p].pc = "add" /\ UNCHANGED <<files, past>>
    BY <1>0, <1>1 DEF Add, Moves, Command
  <2>2. command[p].key \in cache /\ command[p].cache \subseteq cache
    OBVIOUS
  <2> HIDE DEF cache
  <2>3. /\ command'[p].pc = "openAccounts" /\ command'[p].read = command[p].read
        /\ command'[p].cache = cache /\ command'[p].word = prysm.word
        /\ command'[p].key = command[p].key
        /\ command'[p].rivals = command[p].rivals
        /\ \A q \in Commands \ {p} : command'[q] = command[q]
        /\ \A k : Done(p, Prysm, k)' <=> Done(p, Prysm, k)
    BY <1>0, <2>1, MoveFields
  <2>4. command[p].pc \in Filling \ {"config", "fillConfig"} /\ UNCHANGED prysm
    BY <2>1 DEF Filling, Storing, PrysmSteps, files
  <2>5. CacheOf(p)' /\ command[p].read
    BY <1>0, <2>1, <2>2, <2>3, <2>4 DEF CacheOf
  <2>6. AccountOf(p)'
    BY <2>3, <2>4 DEF AccountOf
  <2>7. ConfigInv'
    BY <2>1, <2>3, <2>4, ConfigMove
  <2>8. ~past.mixed => KeptFile' /\ past.promised \subseteq cache
    BY <1>0, <2>1, <2>2, <2>4, <2>5 DEF KeptInv, KeptFile
  <2>9. "openAccounts" \in PrysmSteps
    BY DEF PrysmSteps
  <2> QED
    BY <2>1, <2>4, <2>5, <2>6, <2>7, <2>8, <2>9, PrysmMove DEF files
<1>2. CASE OpenAccounts(p)
  <2>1. /\ Moves(p, "fillAccounts", command[p].at, command[p].read, command[p].cache,
                 command[p].word)
        /\ command[p].pc = "openAccounts" /\ UNCHANGED <<secret, keyfile, past>>
        /\ prysm'.state = "torn" /\ prysm'.word = prysm.word
        /\ prysm'.config = prysm.config
    BY <1>0, <1>2 DEF OpenAccounts, Goto, Moves, Command, PrysmFiles
  <2>3. /\ command'[p].pc = "fillAccounts" /\ command'[p].read = command[p].read
        /\ command'[p].cache = command[p].cache /\ command'[p].word = command[p].word
        /\ command'[p].key = command[p].key
        /\ command'[p].rivals = command[p].rivals
        /\ \A q \in Commands \ {p} : command'[q] = command[q]
        /\ \A k : Done(p, Prysm, k)' <=> Done(p, Prysm, k)
    BY <1>0, <2>1, MoveFields
  <2>4. command[p].pc \in Filling \ {"config", "fillConfig"}
    BY <2>1 DEF Filling, Storing, PrysmSteps
  <2>5. CacheOf(p)'
    BY <1>0, <2>1, <2>3, <2>4 DEF CacheOf
  <2>6. AccountOf(p)'
    BY <1>0, <2>1, <2>3, <2>4 DEF AccountOf
  <2>7. ConfigInv'
    BY <2>1, <2>3, <2>4, ConfigMove
  <2>8. ~past.mixed =>
           KeptFile' /\ (command[p].read => past.promised \subseteq command[p].cache)
    BY <1>0, <2>1, <2>4 DEF KeptInv, KeptFile
  <2>9. "fillAccounts" \in PrysmSteps
    BY DEF PrysmSteps
  <2> QED
    BY <2>1, <2>4, <2>5, <2>6, <2>7, <2>8, <2>9, PrysmMove
<1>3. CASE FillAccounts(p)
  <2>1. /\ Moves(p, "config", command[p].at, command[p].read, command[p].cache, Absent)
        /\ command[p].pc = "fillAccounts" /\ UNCHANGED <<secret, keyfile, past>>
        /\ prysm'.state = "whole" /\ prysm'.word = prysm.word
        /\ prysm'.accounts.word = command[p].word
        /\ prysm'.accounts.keys = command[p].cache
        /\ prysm'.config = prysm.config
    BY <1>0, <1>3 DEF FillAccounts, Moves, Command, PrysmFiles
  <2>3. /\ command'[p].pc = "config" /\ command'[p].read = command[p].read
        /\ command'[p].cache = command[p].cache
        /\ command'[p].key = command[p].key
        /\ command'[p].rivals = command[p].rivals
        /\ \A q \in Commands \ {p} : command'[q] = command[q]
        /\ \A k : Done(p, Prysm, k)' <=> Done(p, Prysm, k)
    BY <1>0, <2>1, MoveFields
  <2>4. command[p].pc \in Filling
    BY <2>1 DEF Filling, Storing, PrysmSteps
  <2>5. CacheOf(p)' /\ command[p].read
    BY <1>0, <2>1, <2>3, <2>4 DEF CacheOf
  <2>6. AccountOf(p)'
    BY <1>0, <2>1, <2>3, <2>4 DEF AccountOf
  <2>7. ConfigInv'
    <3>1. \A q \in Commands : command[q].pc = "fillConfig" => command'[q].pc = "fillConfig"
      BY <2>1, <2>3
    <3>2. Configuring(p)'
      BY <2>3 DEF Configuring
    <3> QED
      BY <2>1, <3>1, <3>2 DEF ReadableInv, ReadInv, ConfigInv
  <2>8. ~past.mixed => KeptFile' /\ past.promised \subseteq command[p].cache
    BY <1>0, <2>1, <2>4, <2>5 DEF KeptInv, KeptFile
  <2>9. "config" \in PrysmSteps
    BY DEF PrysmSteps
  <2> QED
    BY <2>1, <2>4, <2>5, <2>6, <2>7, <2>8, <2>9, PrysmMove
<1> QED
  BY <1>1, <1>2, <1>3

\* It opens the configuration that is not there.
LEMMA ConfigStep ==
    ASSUME ReadableInv, NEW p \in Commands, StatConfig(p), prysm.config = "absent"
    PROVE  ReadInv'
<1>0. /\ command[p] \in Command /\ command \in [Commands -> Command]
      /\ prysm \in PrysmFiles /\ TypeInv
      /\ CacheOf(p) /\ AccountOf(p) /\ KeptInv
  BY DEF ReadableInv, RefusalInv, TypeInv, TypeOK, ReadInv
<1>1. /\ Moves(p, "fillConfig", command[p].at, command[p].read, command[p].cache,
               command[p].word)
      /\ command[p].pc = "config" /\ UNCHANGED <<secret, keyfile, past>>
      /\ prysm'.state = prysm.state /\ prysm'.word = prysm.word
      /\ prysm'.accounts = prysm.accounts
  <2>1. /\ command' = [command EXCEPT ![p].pc = "fillConfig"] /\ command[p].pc = "config"
        /\ prysm' = [prysm EXCEPT !.config = "torn"]
        /\ UNCHANGED <<secret, keyfile, past>>
    BY DEF StatConfig, Goto
  <2> QED
    BY <1>0, <2>1 DEF Moves, Command, PrysmFiles
<1>3. /\ command'[p].pc = "fillConfig" /\ command'[p].read = command[p].read
      /\ command'[p].cache = command[p].cache
      /\ command'[p].key = command[p].key
      /\ command'[p].rivals = command[p].rivals
      /\ \A k : Done(p, Prysm, k)' <=> Done(p, Prysm, k)
  BY <1>0, <1>1, MoveFields
<1>4. command[p].pc \in Filling
  BY <1>1 DEF Filling, Storing, PrysmSteps
<1>5. CacheOf(p)'
  BY <1>0, <1>1, <1>3, <1>4 DEF CacheOf
<1>6. AccountOf(p)'
  BY <1>0, <1>1, <1>3, <1>4 DEF AccountOf
<1>7. ConfigInv'
  <2>1. Configuring(p)'
    BY <1>3 DEF Configuring
  <2> QED
    BY <1>3, <2>1 DEF ConfigInv
<1>8. ~past.mixed =>
         KeptFile' /\ (command[p].read => past.promised \subseteq command[p].cache)
  BY <1>0, <1>1, <1>4 DEF KeptInv, KeptFile
<1>9. "fillConfig" \in PrysmSteps
  BY DEF PrysmSteps
<1> QED
  BY <1>1, <1>4, <1>5, <1>6, <1>7, <1>8, <1>9, PrysmMove

\* The secret of a pair is written: no other command without a quarrel over the
\* key has it among those it has stored.
LEMMA SecretStep ==
    ASSUME ReadableInv, NEW p \in Commands, NEW c \in PairClients, WriteSecret(p, c)
    PROVE  ReadInv'
<1>0. /\ command[p] \in Command /\ command \in [Commands -> Command]
      /\ secret \in [PairClients -> [Keys -> PairFiles]]
      /\ TypeInv /\ RivalInv /\ CacheOf(p) /\ AccountOf(p) /\ KeptInv
  BY DEF ReadableInv, RefusalInv, TypeInv, TypeOK, ReadInv
<1> DEFINE key == command[p].key
<1>1. /\ Moves(p, "key", c, command[p].read, command[p].cache, command[p].word)
      /\ command[p].pc = "next" /\ c \in command[p].left
      /\ UNCHANGED <<keyfile, prysm, past>>
      /\ secret' = [secret EXCEPT ![c][key] = p]
  BY <1>0 DEF WriteSecret, Moves, Command
<1>2. command[p].pc \in Filling /\ "key" \in Filling
  BY <1>1 DEF Filling, Storing
<1>3. /\ command'[p].pc = "key" /\ command'[p].at = c /\ command'[p].key = key
      /\ command'[p].read = command[p].read /\ command'[p].cache = command[p].cache
      /\ \A q \in Commands \ {p} : command'[q] = command[q]
      /\ \A q \in Commands :
            /\ Covered(q)' = Covered(q)
            /\ command'[q].rivals = command[q].rivals
            /\ \A d, k : Done(q, d, k)' <=> Done(q, d, k)
  BY <1>0, <1>1, MoveFields
<1>4. key \in Keys /\ key \in Covered(p)
  BY <1>2, Company
<1>5. \A d \in PairClients, k \in Keys :
         secret'[d][k] = IF d = c /\ k = key THEN p ELSE secret[d][k]
  BY <1>0, <1>1, <1>4
<1> HIDE DEF key
<1>6. \A d \in PairClients, k \in Keys :
         ~(d = c /\ k = key) => (PairReadable(d, k) => PairReadable(d, k)')
  BY <1>1, <1>5 DEF PairReadable
<1>7. \A q \in Commands : ~Purging(q)'
  BY <1>3, <1>2, Company DEF Purging
<1>8. RivalInv'
  BY <1>0, <1>1, <1>2, <1>3, <1>7, RivalKept DEF RivalInv
<1>9. PairOf(p)'
  <2>1. ~Done(p, c, key)
    <3>1. key \in Nat /\ command[p].key = key
      BY <1>4, KeysAreNumbers DEF key
    <3> QED
      BY <1>1, <3>1 DEF Done
  <2>2. secret'[c][key] = p
    BY <1>4, <1>5
  <2>3. \A d \in PairClients, k \in Keys :
           Done(p, d, k) /\ k \notin command[p].rivals => PairReadable(d, k)
    BY <1>2 DEF ReadableInv, ReadInv, PairOf
  <2>4. ASSUME NEW d \in PairClients, NEW k \in Keys,
               Done(p, d, k), k \notin command[p].rivals
        PROVE  PairReadable(d, k)'
    BY <1>6, <2>1, <2>3, <2>4
  <2>5. \A d \in PairClients, k \in Keys :
           Done(p, d, k)' /\ k \notin command'[p].rivals => PairReadable(d, k)'
    BY <1>3, <2>4
  <2> QED
    BY <1>3, <2>2, <2>5 DEF PairOf
<1>10. ASSUME NEW q \in Commands \ {p} PROVE PairOf(q)'
  <2> SUFFICES ASSUME command[q].pc \in Filling PROVE PairOf(q)'
    BY <1>3 DEF PairOf
  <2>1. PairOf(q)
    BY DEF ReadableInv, ReadInv
  <2>2. key \in command[q].rivals /\ command[q].key \in Keys
    BY <1>2, <1>4, Company
  <2>3. command[q].pc = "key" => command[q].at \in PairClients
    BY DEF ReadableInv, RefusalInv, TypeInv, GoodCommand
  <2>4. ASSUME NEW d \in PairClients, NEW k \in Keys,
               Done(q, d, k), k \notin command[q].rivals
        PROVE  PairReadable(d, k)'
    BY <1>6, <2>1, <2>2, <2>4 DEF PairOf
  <2>5. command[q].pc = "key" /\ command[q].key \notin command[q].rivals =>
           secret'[command[q].at][command[q].key] = q
    BY <1>5, <2>1, <2>2, <2>3 DEF PairOf
  <2> QED
    BY <1>3, <2>4, <2>5 DEF PairOf
<1>11. PromisedInv'
  <2>1. ASSUME NEW k \in past.promised, NEW d \in PairClients PROVE PromiseOf(d, k)'
    <3>1. PromiseOf(d, k) /\ k \in Keys
      BY DEF ReadableInv, ReadInv, PromisedInv, RefusalInv, TypeInv, TypeOK, Past
    <3>2. \A q \in Commands : Repairing(q, d, k) => Repairing(q, d, k)'
      BY <1>1, <1>3 DEF Repairing
    <3>3. d = c /\ k = key => Repairing(p, d, k)'
      BY <1>3 DEF Repairing
    <3> QED
      BY <1>1, <1>6, <3>1, <3>2, <3>3 DEF PromiseOf
  <2> QED
    BY <1>1, <2>1 DEF PromisedInv
<1>12. ASSUME NEW q \in Commands PROVE CacheOf(q)'
  <2>1. CacheOf(q)
    BY DEF ReadableInv, ReadInv
  <2>2. CASE q = p
    BY <1>2, <1>3, <2>1, <2>2 DEF CacheOf
  <2>3. CASE q # p
    BY <1>3, <2>1, <2>3 DEF CacheOf
  <2> QED
    BY <2>2, <2>3
<1>13. ASSUME NEW q \in Commands PROVE AccountOf(q)'
  <2>1. q # p /\ command'[q].pc \in Filling => command'[q].rivals # {}
    BY <1>2, <1>3, Company
  <2>2. AccountOf(p)'
    BY <1>0, <1>1, <1>2, <1>3 DEF AccountOf
  <2> QED
    BY <2>1, <2>2 DEF AccountOf
<1>14. KeptInv'
  <2>1. ~past.mixed => \A q \in Commands : command[q].pc \in Filling /\ command[q].read
                         => past.promised \subseteq command[q].cache
    BY <1>0 DEF KeptInv
  <2>2. ~past.mixed => \A q \in Commands : command'[q].pc \in Filling /\ command'[q].read
                         => past.promised \subseteq command'[q].cache
    BY <1>2, <1>3, <2>1
  <2>3. past' = past /\ prysm' = prysm
    BY <1>1
  <2> QED
    BY <1>0, <2>2, <2>3 DEF KeptInv, KeptFile
<1>15. ConfigInv'
  BY <1>1, <1>2, <1>3, ConfigMove
<1> QED
  BY <1>8, <1>9, <1>10, <1>11, <1>12, <1>13, <1>14, <1>15 DEF ReadInv

\* What a command keeps when a key is in a keystore, and where it is then.
LEMMA StoredFields ==
    ASSUME NEW c \in GoodCommand, c.pc \in Filling, c.at \in c.left
    PROVE  LET s == Stored(c) IN
           /\ s.pc \in {"next", "stored"}
           /\ s.pc = "next" =>
                 /\ s.first = c.first /\ s.last = c.last /\ s.rivals = c.rivals
                 /\ s.read = c.read /\ s.cache = c.cache
                 /\ \/ s.key = c.key /\ s.left = c.left \ {c.at}
                    \/ s.key = c.key + 1 /\ s.left = Clients /\ c.left = {c.at}
           /\ s.pc = "stored" => c.left = {c.at} /\ c.key = c.last
<1>1. /\ c \in Command /\ c.last \in Nat /\ c.key \in Nat /\ c.key <= c.last
  BY KeysAreNumbers DEF GoodCommand
<1>2. CASE c.left # {c.at}
  BY <1>1, <1>2 DEF Stored, Command
<1>3. CASE c.left = {c.at} /\ c.key < c.last
  <2> DEFINE k == c.key + 1
  <2>1. Stored(c) = [c EXCEPT !.pc = "next", !.left = Clients, !.at = NoClient,
                              !.key = k]
    BY <1>3 DEF Stored
  <2> HIDE DEF k
  <2>2. k = c.key + 1
    BY DEF k
  <2> QED
    BY <1>1, <1>3, <2>1, <2>2 DEF Command
<1>4. CASE c.left = {c.at} /\ ~(c.key < c.last)
  BY <1>1, <1>4 DEF Stored, NewCommand
<1> QED
  BY <1>2, <1>3, <1>4

\* A key is in a keystore: the command goes on, or has stored all its keys.
LEMMA ReturnFields ==
    ASSUME TypeInv, NEW p \in Commands, command[p].pc \in Filling,
           command[p].at \in command[p].left,
           NEW cut \in SUBSET (PairClients \X Keys),
           StoreReturns(p, command[p], cut)
    PROVE  /\ \A q \in Commands \ {p} : command'[q] = command[q]
           /\ command'[p].pc \in {"next", "stored"}
           /\ past'.mixed = past.mixed /\ past'.bare = past.bare /\ past'.cut = cut
           /\ command'[p].pc = "next" =>
                 /\ past'.promised = past.promised
                 /\ Covered(p)' = Covered(p)
                 /\ command'[p].rivals = command[p].rivals
                 /\ command'[p].read = command[p].read
                 /\ command'[p].cache = command[p].cache
                 /\ \A c \in Clients, k \in Keys : Done(p, c, k)' =>
                       Done(p, c, k) \/ (c = command[p].at /\ k = command[p].key)
           /\ command'[p].pc = "stored" =>
                 /\ past'.promised = past.promised \cup (Covered(p) \ command[p].rivals)
                 /\ \A c \in Clients, k \in Covered(p) :
                       Done(p, c, k) \/ (c = command[p].at /\ k = command[p].key)
<1>1. /\ command[p] \in GoodCommand /\ past \in Past
      /\ command[p].key \in Nat /\ command[p].last \in Nat /\ Keys \subseteq Nat
  BY KeysAreNumbers DEF TypeInv, TypeOK, GoodCommand
<1> DEFINE s == Stored(command[p])
<1>2. /\ s.pc \in {"next", "stored"}
      /\ s.pc = "next" =>
            /\ s.first = command[p].first /\ s.last = command[p].last
            /\ s.rivals = command[p].rivals
            /\ s.read = command[p].read /\ s.cache = command[p].cache
            /\ \/ s.key = command[p].key /\ s.left = command[p].left \ {command[p].at}
               \/ /\ s.key = command[p].key + 1 /\ s.left = Clients
                  /\ command[p].left = {command[p].at}
      /\ s.pc = "stored" =>
            command[p].left = {command[p].at} /\ command[p].key = command[p].last
  BY <1>1, StoredFields
<1>3. /\ command'[p] = s
      /\ \A q \in Commands \ {p} : command'[q] = command[q]
  BY ReturnsType
<1>4. past' = [past EXCEPT !.cut = cut, !.promised =
                  IF s.pc = "stored"
                  THEN @ \cup (Covered(p) \ command[p].rivals) ELSE @]
  BY DEF StoreReturns
<1> HIDE DEF s
<1>5. /\ past'.mixed = past.mixed /\ past'.bare = past.bare /\ past'.cut = cut
      /\ s.pc = "next" => past'.promised = past.promised
      /\ s.pc = "stored" =>
            past'.promised = past.promised \cup (Covered(p) \ command[p].rivals)
  BY <1>1, <1>4 DEF Past
<1>6. s.pc = "next" => Covered(p)' = Covered(p)
  BY <1>2, <1>3 DEF Covered
<1>7. ASSUME s.pc = "next", NEW c \in Clients, NEW k \in Keys, Done(p, c, k)'
      PROVE  Done(p, c, k) \/ (c = command[p].at /\ k = command[p].key)
  <2>1. k \in Nat /\ k \in Covered(p) /\ (k < s.key \/ (k = s.key /\ c \notin s.left))
    BY <1>1, <1>3, <1>6, <1>7 DEF Done
  <2>2. CASE s.key = command[p].key /\ s.left = command[p].left \ {command[p].at}
    BY <2>1, <2>2 DEF Done
  <2>3. CASE /\ s.key = command[p].key + 1 /\ s.left = Clients
             /\ command[p].left = {command[p].at}
    <3>1. k < command[p].key \/ k = command[p].key
      BY <1>1, <2>1, <2>3
    <3> QED
      BY <2>1, <2>3, <3>1 DEF Done
  <2> QED
    BY <1>2, <1>7, <2>2, <2>3
<1>8. ASSUME s.pc = "stored", NEW c \in Clients, NEW k \in Covered(p)
      PROVE  Done(p, c, k) \/ (c = command[p].at /\ k = command[p].key)
  <2>1. k \in Nat /\ k <= command[p].last
    BY <1>1 DEF Covered
  <2>2. k < command[p].key \/ k = command[p].key
    BY <1>1, <1>2, <1>8, <2>1
  <2> QED
    BY <1>2, <1>8, <2>2 DEF Done
<1> QED
  BY <1>2, <1>3, <1>5, <1>6, <1>7, <1>8

\* What it has stored is readable, and stays so for the others.
LEMMA ReturnReadable ==
    ASSUME ReadableInv, NEW p \in Commands, command[p].pc \in Filling,
           command[p].at \in command[p].left, command[p].at \in Clients,
           command[p].at \in PairClients <=> command[p].pc = "key",
           NEW cut, cut = past.cut \ {<<command[p].at, command[p].key>>},
           StoreReturns(p, command[p], cut),
           UNCHANGED secret,
           \A d \in PairClients, k \in Keys :
              keyfile'[d][k] = IF d = command[p].at /\ k = command[p].key
                               THEN p ELSE keyfile[d][k],
           prysm'.state = prysm.state, prysm'.word = prysm.word,
           prysm'.accounts = prysm.accounts,
           ConfigInv',
           command[p].at = Prysm =>
              /\ command[p].read /\ command[p].key \in command[p].cache
              /\ command[p].pc \notin {"openAccounts", "fillAccounts"}
    PROVE  /\ ReadInv'
           /\ command'[p].pc = "stored" =>
                 /\ \A k \in Covered(p) \ command[p].rivals, c \in PairClients :
                       PairReadable(c, k)'
                 /\ command[p].rivals = {} => \A k \in Covered(p) : PrysmReadable(k)'
<1>0. /\ TypeInv /\ RivalInv /\ PairOf(p) /\ CacheOf(p) /\ AccountOf(p) /\ KeptInv
      /\ cut \in SUBSET (PairClients \X Keys)
  BY DEF ReadableInv, RefusalInv, ReadInv, TypeInv, TypeOK, Past
<1> DEFINE at == command[p].at
           key == command[p].key
<1>1. /\ \A q \in Commands \ {p} : command'[q] = command[q]
      /\ command'[p].pc \in {"next", "stored"}
      /\ past'.mixed = past.mixed /\ past'.bare = past.bare /\ past'.cut = cut
      /\ command'[p].pc = "next" =>
            /\ past'.promised = past.promised
            /\ Covered(p)' = Covered(p)
            /\ command'[p].rivals = command[p].rivals
            /\ command'[p].read = command[p].read
            /\ command'[p].cache = command[p].cache
            /\ \A c \in Clients, k \in Keys :
                  Done(p, c, k)' => Done(p, c, k) \/ (c = at /\ k = key)
      /\ command'[p].pc = "stored" =>
            /\ past'.promised = past.promised \cup (Covered(p) \ command[p].rivals)
            /\ \A c \in Clients, k \in Covered(p) : Done(p, c, k) \/ (c = at /\ k = key)
  BY <1>0, ReturnFields
<1>2. /\ key \in Keys /\ key \in Covered(p) /\ Covered(p) \subseteq Keys
      /\ \A q \in Commands : ~Purging(q)
      /\ \A q \in Commands \ {p} : command[q].pc \in Filling =>
            /\ Covered(p) \subseteq command[q].rivals
            /\ Covered(q) \subseteq command[p].rivals
            /\ command[p].rivals # {} /\ command[q].rivals # {}
            /\ past.mixed
  BY Company DEF Covered
<1>3. Prysm \in Clients /\ PairClients \subseteq Clients /\ Prysm \notin PairClients
      /\ p # Absent
  BY KeystoreAssumption DEF Clients, KeystoreAssumption
<1>4. "next" \in Filling /\ "stored" \notin Filling
  BY DEF Filling, Storing, PrysmSteps
<1>5. \A q \in Commands : command'[q].pc \in Filling => command[q].pc \in Filling
  BY <1>1
<1> HIDE DEF at, key
\* The pairs.
<1>6. \A d \in PairClients, k \in Keys :
         ~(d = at /\ k = key) => (PairReadable(d, k)' <=> PairReadable(d, k))
  BY DEF PairReadable, at, key
<1>7. ASSUME NEW d \in PairClients, NEW k \in Keys, d = at, k = key,
             k \notin command[p].rivals
      PROVE  PairReadable(d, k)'
  <2>1. secret'[d][k] = p
    BY <1>0, <1>7 DEF PairOf, at, key
  <2>2. keyfile'[d][k] = p
    BY <1>7 DEF at, key
  <2> QED
    BY <1>3, <2>1, <2>2 DEF PairReadable
<1>8. ASSUME NEW d \in PairClients, NEW k \in Keys, k \notin command[p].rivals,
             Done(p, d, k) \/ (d = at /\ k = key)
      PROVE  PairReadable(d, k)'
  <2>1. Done(p, d, k) => PairReadable(d, k)
    BY <1>0, <1>8 DEF PairOf
  <2> QED
    BY <1>6, <1>7, <1>8, <2>1
<1>9. PairOf(p)'
  <2> SUFFICES ASSUME command'[p].pc = "next" PROVE PairOf(p)'
    BY <1>1, <1>4 DEF PairOf
  <2>1. ASSUME NEW d \in PairClients, NEW k \in Keys, Done(p, d, k)',
               k \notin command'[p].rivals
        PROVE  PairReadable(d, k)'
    BY <1>1, <1>3, <1>8, <2>1
  <2> QED
    BY <2>1 DEF PairOf
<1>10. ASSUME NEW q \in Commands \ {p} PROVE PairOf(q)'
  <2> SUFFICES ASSUME command[q].pc \in Filling PROVE PairOf(q)'
    BY <1>1 DEF PairOf
  <2>1. PairOf(q)
    BY DEF ReadableInv, ReadInv
  <2>2. \A d, k : Done(q, d, k)' <=> Done(q, d, k)
    BY <1>1 DEF Done, Covered
  <2>3. ASSUME NEW d \in PairClients, NEW k \in Keys,
               Done(q, d, k), k \notin command[q].rivals
        PROVE  PairReadable(d, k)'
    BY <1>2, <1>6, <2>1, <2>3 DEF PairOf
  <2>4. command[q].pc = "key" /\ command[q].key \notin command[q].rivals =>
           secret'[command[q].at][command[q].key] = q
    BY <2>1 DEF PairOf
  <2> QED
    BY <1>1, <2>2, <2>3, <2>4 DEF PairOf
<1>11. ASSUME command'[p].pc = "stored", NEW k \in Covered(p) \ command[p].rivals,
              NEW d \in PairClients
       PROVE  PairReadable(d, k)'
  BY <1>1, <1>2, <1>3, <1>8, <1>11
<1>12. PromisedInv'
  <2>1. ASSUME NEW k \in past.promised, NEW d \in PairClients PROVE PromiseOf(d, k)'
    <3>1. PromiseOf(d, k) /\ k \in Keys
      BY <1>0 DEF ReadableInv, ReadInv, PromisedInv, TypeInv, TypeOK, Past
    <3>2. CASE d = at /\ k = key
      <4>1. k \notin command[p].rivals
        BY <1>0, <1>2, <3>2 DEF RivalInv
      <4>2. PairReadable(d, k)'
        BY <1>7, <3>1, <3>2, <4>1
      <4> QED
        BY <4>2 DEF PromiseOf
    <3>3. CASE ~(d = at /\ k = key)
      <4>1. \A q \in Commands : Repairing(q, d, k) => Repairing(q, d, k)'
        BY <1>1, <3>3 DEF Repairing, at, key
      <4>2. <<d, k>> \in past.cut => <<d, k>> \in past'.cut
        BY <1>1, <3>3 DEF at, key
      <4> QED
        BY <1>6, <3>1, <3>3, <4>1, <4>2 DEF PromiseOf
    <3> QED
      BY <3>2, <3>3
  <2>2. ASSUME NEW k \in past'.promised \ past.promised, NEW d \in PairClients
        PROVE  PromiseOf(d, k)'
    <3>1. command'[p].pc = "stored" /\ k \in Covered(p) \ command[p].rivals
      BY <1>1, <2>2
    <3> QED
      BY <1>11, <3>1 DEF PromiseOf
  <2>3. \A k \in past'.promised, d \in PairClients : PromiseOf(d, k)'
    BY <2>1, <2>2
  <2> QED
    BY <2>3 DEF PromisedInv
\* The accounts.
<1>13. CacheOf(p)'
  <2> SUFFICES ASSUME command'[p].pc = "next" PROVE CacheOf(p)'
    BY <1>1, <1>4 DEF CacheOf
  <2>1. ASSUME NEW k \in Keys, Done(p, Prysm, k)'
        PROVE  command[p].read /\ k \in command[p].cache
    <3>1. Done(p, Prysm, k) \/ (Prysm = at /\ k = key)
      BY <1>1, <1>3, <2>1
    <3> QED
      BY <1>0, <3>1 DEF CacheOf, at, key
  <2> QED
    BY <1>1, <2>1 DEF CacheOf
<1>14. ASSUME NEW q \in Commands PROVE CacheOf(q)'
  <2>1. CASE q # p
    <3>1. CacheOf(q)
      BY DEF ReadableInv, ReadInv
    <3>2. \A k : Done(q, Prysm, k)' <=> Done(q, Prysm, k)
      BY <1>1, <2>1 DEF Done, Covered
    <3> QED
      BY <1>1, <2>1, <3>1, <3>2 DEF CacheOf
  <2> QED
    BY <1>13, <2>1
<1>15. command[p].rivals = {} /\ command[p].read =>
          \/ prysm.state = "absent" /\ command[p].cache = {}
          \/ /\ prysm.state = "whole"
             /\ prysm.accounts.word = prysm.word
             /\ prysm.accounts.keys = command[p].cache
  <2>1. command[p].pc \notin {"openAccounts", "fillAccounts"}
    <3>1. command[p].pc = "key" \/ at = Prysm
      BY <1>3 DEF Clients, at
    <3> QED
      BY <3>1 DEF at
  <2> QED
    BY <1>0, <2>1 DEF AccountOf
<1>16. ASSUME NEW q \in Commands PROVE AccountOf(q)'
  <2>1. q # p /\ command'[q].pc \in Filling => command'[q].rivals # {}
    BY <1>1, <1>2
  <2>2. AccountOf(p)'
    BY <1>1, <1>4, <1>15 DEF AccountOf
  <2> QED
    BY <2>1, <2>2 DEF AccountOf
<1>17. command'[p].pc = "stored" =>
          \A k \in Covered(p) : command[p].read /\ k \in command[p].cache
  <2>1. ASSUME command'[p].pc = "stored", NEW k \in Covered(p)
        PROVE  command[p].read /\ k \in command[p].cache
    <3>1. Done(p, Prysm, k) \/ (Prysm = at /\ k = key)
      BY <1>1, <1>3, <2>1
    <3> QED
      BY <1>0, <1>2, <3>1 DEF CacheOf, at, key
  <2> QED
    BY <2>1
<1>18. command'[p].pc = "stored" /\ command[p].rivals = {} =>
          /\ prysm.state = "whole"
          /\ prysm.accounts.word = prysm.word
          /\ Covered(p) \subseteq prysm.accounts.keys
  BY <1>2, <1>15, <1>17
<1>19. KeptInv'
  <2> SUFFICES ASSUME ~past.mixed PROVE KeptInv'
    BY <1>1 DEF KeptInv
  <2>1. command[p].rivals = {}
    BY <1>0 DEF RivalInv
  <2>2. \A q \in Commands \ {p} : command'[q].pc \notin Filling
    BY <1>1, <1>2
  <2>3. KeptFile /\ (command[p].read => past.promised \subseteq command[p].cache)
    BY <1>0 DEF KeptInv
  <2>4. KeptFile'
    BY <1>1, <1>18, <2>1, <2>3 DEF KeptFile
  <2>5. command'[p].pc \in Filling /\ command'[p].read =>
           past'.promised \subseteq command'[p].cache
    BY <1>1, <1>4, <2>3
  <2> QED
    BY <2>2, <2>4, <2>5 DEF KeptInv
<1>20. RivalInv'
  <2>1. \A q \in Commands : command'[q].pc \in Filling =>
           /\ Covered(q)' = Covered(q) /\ command'[q].rivals = command[q].rivals
    BY <1>1, <1>4 DEF Covered
  <2>2. \A q \in Commands : command[q].pc \in Filling =>
           past.promised \cap Covered(q) \cap command[q].rivals = {}
    BY <1>0 DEF RivalInv
  <2>3. ASSUME NEW q \in Commands, command'[q].pc \in Filling
        PROVE  past'.promised \cap Covered(q) \cap command[q].rivals = {}
    <3>1. CASE q = p
      BY <1>1, <1>4, <2>2, <2>3, <3>1
    <3>2. CASE q # p
      <4>1. Covered(q) \subseteq command[p].rivals
        BY <1>2, <1>5, <2>3, <3>2
      <4>2. past'.promised \subseteq past.promised \cup (Covered(p) \ command[p].rivals)
        BY <1>1
      <4> QED
        BY <1>5, <2>2, <2>3, <4>1, <4>2
    <3> QED
      BY <3>1, <3>2
  <2>4. \A q \in Commands : ~Purging(q)'
    BY <1>1, <1>2 DEF Purging
  <2> QED
    BY <1>0, <1>1, <1>5, <2>1, <2>3, <2>4, RivalKept
<1>21. command'[p].pc = "stored" /\ command[p].rivals = {} =>
          \A k \in Covered(p) : PrysmReadable(k)'
  BY <1>18 DEF PrysmReadable
<1> QED
  BY <1>9, <1>10, <1>11, <1>12, <1>14, <1>16, <1>19, <1>20, <1>21 DEF ReadInv

\* A process ends, in whatever place: the files are as they are.
LEMMA EndKeeps ==
    ASSUME ReadableInv, NEW p \in Commands,
           \A q \in Commands \ {p} : command'[q] = command[q],
           command'[p].pc \in Ends, UNCHANGED files,
           past'.promised = past.promised, past.mixed => past'.mixed,
           past.bare => past'.bare, past.cut \subseteq past'.cut,
           command[p].pc = "key" => <<command[p].at, command[p].key>> \in past'.cut,
           Configuring(p) /\ prysm.config # "whole" /\ prysm.state = "whole" => past'.bare,
           command[p].pc = "fillConfig" /\ prysm.config = "torn" => past'.bare
    PROVE  ReadInv'
<1>0. RivalInv /\ PromisedInv /\ KeptInv /\ ConfigInv
  BY DEF ReadableInv, ReadInv
<1>1. /\ secret' = secret /\ keyfile' = keyfile /\ prysm' = prysm
      /\ \A d, k : PairReadable(d, k)' <=> PairReadable(d, k)
  BY DEF files, PairReadable
<1>2. /\ command'[p].pc \notin Filling /\ ~Purging(p)'
      /\ command'[p].pc # "fillConfig" /\ command'[p].pc # "config"
  BY DEF Filling, Storing, PrysmSteps, Ends, Purging
<1>3. \A q \in Commands : command'[q].pc \in Filling =>
         q # p /\ command'[q] = command[q] /\ Covered(q)' = Covered(q)
  BY <1>2 DEF Covered
<1>4. RivalInv'
  <2>1. \A q \in Commands : Purging(q)' => Purging(q)
    BY <1>2 DEF Purging
  <2>2. \A q \in Commands : Purging(q)' => past'.promised = {}
    BY <1>0, <2>1 DEF RivalInv
  <2>3. \A q \in Commands : command'[q].pc \in Filling =>
           past'.promised \cap Covered(q) \cap command[q].rivals = {}
    BY <1>0, <1>3 DEF RivalInv
  <2> QED
    BY <1>0, <1>3, <2>2, <2>3, RivalKept
<1>5. ASSUME NEW q \in Commands, command'[q].pc \in Filling
      PROVE  PairOf(q)' /\ CacheOf(q)' /\ AccountOf(q)'
  <2>1. command'[q] = command[q] /\ PairOf(q) /\ CacheOf(q) /\ AccountOf(q)
    BY <1>3, <1>5 DEF ReadableInv, ReadInv
  <2>2. \A d, k : Done(q, d, k)' <=> Done(q, d, k)
    BY <2>1 DEF Done, Covered
  <2> QED
    BY <1>1, <2>1, <2>2 DEF PairOf, CacheOf, AccountOf
<1>6. \A q \in Commands : PairOf(q)' /\ CacheOf(q)' /\ AccountOf(q)'
  BY <1>5 DEF PairOf, CacheOf, AccountOf
<1>7. PromisedInv'
  <2>1. ASSUME NEW k \in past.promised, NEW d \in PairClients PROVE PromiseOf(d, k)'
    <3>1. PromiseOf(d, k)
      BY <1>0 DEF PromisedInv
    <3>2. \A q \in Commands : Repairing(q, d, k) =>
             Repairing(q, d, k)' \/ <<d, k>> \in past'.cut
      BY DEF Repairing
    <3> QED
      BY <1>1, <3>1, <3>2 DEF PromiseOf
  <2> QED
    BY <2>1 DEF PromisedInv
<1>8. KeptInv'
  <2> SUFFICES ASSUME ~past'.mixed PROVE KeptInv'
    BY DEF KeptInv
  <2>1. KeptFile /\ \A q \in Commands : command[q].pc \in Filling /\ command[q].read
                       => past.promised \subseteq command[q].cache
    BY <1>0 DEF KeptInv
  <2>2. \A q \in Commands : command'[q].pc \in Filling /\ command'[q].read
           => past'.promised \subseteq command'[q].cache
    BY <1>3, <2>1
  <2>3. KeptFile'
    BY <1>1, <2>1 DEF KeptFile
  <2> QED
    BY <2>2, <2>3 DEF KeptInv
<1>9. ConfigInv'
  <2>1. \A q \in Commands \ {p} : Configuring(q)' <=> Configuring(q)
    BY <1>1 DEF Configuring, Emptying
  <2> QED
    BY <1>0, <1>1, <2>1 DEF ConfigInv
<1> QED
  BY <1>4, <1>6, <1>7, <1>8, <1>9 DEF ReadInv

\* A command begins: nothing is stored yet, and its keys are in dispute with
\* those of whoever stores keys at that time.
LEMMA BeginKeeps ==
    ASSUME ReadableInv, NEW p \in Commands, NEW last \in Keys, Begin(p, last)
    PROVE  ReadInv'
<1>0. /\ command \in [Commands -> Command] /\ command \in [Commands -> GoodCommand]
      /\ past \in Past /\ next \in Keys \cup {NoWallet, MaxKey + 1}
      /\ RivalInv /\ PromisedInv /\ KeptInv /\ ConfigInv
  BY DEF ReadableInv, RefusalInv, TypeInv, TypeOK, ReadInv
<1> DEFINE others == {q \in Commands : Active(q)}
           first  == IF next = NoWallet THEN 1 ELSE next
           new    == first..last
           theirs == UNION {Covered(o) : o \in others}
<1>1. /\ command[p].pc = "new" /\ first <= last /\ UNCHANGED files
      /\ \A q \in Commands : ~Purging(q)
  BY DEF Begin
<1>2. first \in Keys /\ first \in Nat /\ last \in Nat
  <2>1. MaxKey \in Nat /\ last \in 1..MaxKey
    BY KeysAreNumbers DEF Keys
  <2> QED
    BY <1>0, <1>1, <2>1 DEF Keys, NoWallet
<1>3. /\ command'[p].pc = "next" /\ command'[p].key = first
      /\ command'[p].first = first /\ command'[p].last = last
      /\ command'[p].left = Clients /\ command'[p].read = FALSE
      /\ command'[p].at = NoClient
      /\ command'[p].rivals = theirs
  BY <1>0 DEF Begin, NewCommand
<1>4. ASSUME NEW q \in Commands \ {p}
      PROVE  /\ command'[q].pc = command[q].pc /\ command'[q].at = command[q].at
             /\ command'[q].key = command[q].key /\ command'[q].left = command[q].left
             /\ command'[q].first = command[q].first /\ command'[q].last = command[q].last
             /\ command'[q].read = command[q].read /\ command'[q].word = command[q].word
             /\ command'[q].cache = command[q].cache
             /\ command'[q].rivals = IF q \in others THEN command[q].rivals \cup new
                                     ELSE command[q].rivals
  <2> DEFINE mine == new
  <2>1. command'[q] = IF q \in others THEN [command[q] EXCEPT !.rivals = @ \cup mine]
                      ELSE command[q]
    BY <1>0 DEF Begin
  <2>2. command[q] \in Command
    BY <1>0
  <2> HIDE DEF mine, others
  <2>3. /\ command'[q].pc = command[q].pc /\ command'[q].at = command[q].at
        /\ command'[q].key = command[q].key /\ command'[q].left = command[q].left
        /\ command'[q].first = command[q].first /\ command'[q].last = command[q].last
        /\ command'[q].read = command[q].read /\ command'[q].word = command[q].word
        /\ command'[q].cache = command[q].cache
        /\ command'[q].rivals = IF q \in others THEN command[q].rivals \cup mine
                                ELSE command[q].rivals
    BY <2>1, <2>2 DEF Command
  <2> QED
    BY <2>3 DEF mine
<1>5. /\ past'.mixed = (past.mixed \/ others # {})
      /\ past'.promised = past.promised \ (new \cap theirs)
      /\ past'.cut = past.cut /\ past'.bare = past.bare
  BY <1>0 DEF Begin, Past
<1>6. \A q \in Commands : q \in others <=> command[q].pc \in Filling
  BY <1>1 DEF Active, Filling, Purging
<1>7. Covered(p)' = new
  <2>1. new \subseteq Keys
    BY <1>1, <1>2, KeysAreNumbers DEF Keys
  <2>2. \A k \in Keys : k \in Nat
    BY KeysAreNumbers
  <2> HIDE DEF first
  <2>3. \A k \in Keys : first <= k /\ k <= last <=> k \in new
    BY <1>2, <2>2
  <2> QED
    BY <1>3, <2>1, <2>3 DEF Covered
<1>8. \A q \in Commands \ {p} : Covered(q)' = Covered(q)
  BY <1>4 DEF Covered
<1>9. \A q \in others : Covered(q) \subseteq theirs
  OBVIOUS
<1>10. p \notin others /\ first \in new /\ "next" \in Filling
  BY <1>1, <1>2, <1>6 DEF Filling, Storing, PrysmSteps
<1> HIDE DEF others, new, theirs
<1>11. /\ secret' = secret /\ keyfile' = keyfile /\ prysm' = prysm
       /\ \A d, k : PairReadable(d, k)' <=> PairReadable(d, k)
  BY <1>1 DEF files, PairReadable
<1>12. ASSUME NEW q \in Commands \ {p} PROVE \A d, k : Done(q, d, k)' <=> Done(q, d, k)
  BY <1>4, <1>8 DEF Done
<1>13. \A d \in Clients : \A k : ~Done(p, d, k)'
  <2>1. ASSUME NEW d \in Clients, NEW k, Done(p, d, k)' PROVE FALSE
    <3>1. k \in new /\ (k < first \/ (k = first /\ d \notin Clients))
      BY <1>3, <1>7, <2>1 DEF Done
    <3> HIDE DEF first
    <3>2. k \in Nat /\ first <= k
      BY <1>2, <3>1 DEF new
    <3> QED
      BY <1>2, <2>1, <3>1, <3>2
  <2> QED
    BY <2>1
<1>14. RivalInv'
  <2>1. \A q \in Commands : ~Purging(q)'
    BY <1>1, <1>3, <1>4 DEF Purging
  <2>2. ASSUME NEW r \in Commands, NEW q \in Commands, r # q,
               command'[r].pc \in Filling, command'[q].pc \in Filling
        PROVE  Covered(q)' \subseteq command'[r].rivals
    <3>1. CASE r = p
      <4>1. q \in others /\ Covered(q)' = Covered(q)
        BY <1>4, <1>6, <1>8, <2>2, <3>1
      <4> QED
        BY <1>3, <1>9, <3>1, <4>1
    <3>2. CASE q = p
      <4>1. r \in others
        BY <1>4, <1>6, <2>2, <3>2
      <4>2. command'[r].rivals = command[r].rivals \cup new
        BY <1>4, <2>2, <3>2, <4>1
      <4> QED
        BY <1>7, <3>2, <4>2
    <3>3. CASE r # p /\ q # p
      <4>1. Covered(q) \subseteq command[r].rivals
        BY <1>0, <1>4, <2>2, <3>3 DEF RivalInv
      <4>2. Covered(q)' = Covered(q)
        BY <1>8, <3>3
      <4>3. command[r].rivals \subseteq command'[r].rivals
        BY <1>4, <3>3
      <4> QED
        BY <4>1, <4>2, <4>3
    <3> QED
      BY <3>1, <3>2, <3>3
  <2>3. ASSUME NEW q \in Commands, command'[q].pc \in Filling, command'[q].rivals # {}
        PROVE  past'.mixed
    <3>1. CASE q = p
      BY <1>3, <1>5, <2>3, <3>1 DEF theirs
    <3>2. CASE q # p
      BY <1>4, <1>5, <1>6, <2>3, <3>2
    <3> QED
      BY <3>1, <3>2
  <2>4. ASSUME NEW q \in Commands, command'[q].pc \in Filling
        PROVE  past'.promised \cap Covered(q)' \cap command'[q].rivals = {}
    <3>1. CASE q = p
      BY <1>3, <1>5, <1>7, <3>1
    <3>2. CASE q # p
      <4>1. past.promised \cap Covered(q) \cap command[q].rivals = {} /\ q \in others
        BY <1>0, <1>4, <1>6, <2>4, <3>2 DEF RivalInv
      <4> QED
        BY <1>4, <1>5, <1>8, <1>9, <3>2, <4>1
    <3> QED
      BY <3>1, <3>2
  <2> QED
    BY <2>1, <2>2, <2>3, <2>4 DEF RivalInv
<1>15. PairOf(p)' /\ CacheOf(p)' /\ AccountOf(p)'
  <2>1. PairClients \subseteq Clients /\ Prysm \in Clients
    BY DEF Clients
  <2> QED
    BY <1>3, <1>13, <2>1 DEF PairOf, CacheOf, AccountOf
<1>16. ASSUME NEW q \in Commands \ {p}, command'[q].pc \in Filling
       PROVE  PairOf(q)' /\ CacheOf(q)' /\ AccountOf(q)'
  <2>1. PairOf(q) /\ CacheOf(q) /\ AccountOf(q) /\ command[q].pc \in Filling
    BY <1>4, <1>16 DEF ReadableInv, ReadInv
  <2>2. command[q].rivals \subseteq command'[q].rivals
    BY <1>4
  <2>3. PairOf(q)'
    <3>1. ASSUME NEW d \in PairClients, NEW k \in Keys, Done(q, d, k)',
                 k \notin command'[q].rivals
          PROVE  PairReadable(d, k)'
      BY <1>11, <1>12, <2>1, <2>2, <3>1 DEF PairOf
    <3>2. command'[q].pc = "key" /\ command'[q].key \notin command'[q].rivals =>
             secret'[command'[q].at][command'[q].key] = q
      BY <1>4, <1>11, <2>1, <2>2 DEF PairOf
    <3> QED
      BY <3>1, <3>2 DEF PairOf
  <2>4. CacheOf(q)'
    BY <1>4, <1>12, <2>1 DEF CacheOf
  <2>5. AccountOf(q)'
    BY <1>4, <1>11, <2>1, <2>2 DEF AccountOf
  <2> QED
    BY <2>3, <2>4, <2>5
<1>17. \A q \in Commands : PairOf(q)' /\ CacheOf(q)' /\ AccountOf(q)'
  BY <1>15, <1>16 DEF PairOf, CacheOf, AccountOf
<1>18. PromisedInv'
  <2>1. ASSUME NEW k \in past.promised, NEW d \in PairClients PROVE PromiseOf(d, k)'
    <3>1. PromiseOf(d, k)
      BY <1>0 DEF PromisedInv
    <3>2. \A q \in Commands : Repairing(q, d, k) => Repairing(q, d, k)'
      BY <1>1, <1>4 DEF Repairing
    <3> QED
      BY <1>5, <1>11, <3>1, <3>2 DEF PromiseOf
  <2>2. \A k \in past'.promised, d \in PairClients : PromiseOf(d, k)'
    BY <1>5, <2>1
  <2> QED
    BY <2>2 DEF PromisedInv
<1>19. KeptInv'
  <2> SUFFICES ASSUME ~past'.mixed PROVE KeptInv'
    BY DEF KeptInv
  <2>1. ~past.mixed /\ others = {} /\ KeptFile
    BY <1>0, <1>5 DEF KeptInv
  <2>2. \A q \in Commands : command'[q].pc \in Filling => q = p
    BY <1>4, <1>6, <2>1
  <2>3. KeptFile'
    BY <1>5, <1>11, <2>1 DEF KeptFile
  <2> QED
    BY <1>3, <2>2, <2>3 DEF KeptInv
<1>20. ConfigInv'
  <2>1. \A q \in Commands :
          /\ command[q].pc = "fillConfig" => command'[q].pc = "fillConfig"
          /\ Configuring(q) => Configuring(q)'
    BY <1>1, <1>4, <1>11 DEF Configuring, Emptying
  <2> QED
    BY <1>0, <1>5, <1>11, <2>1 DEF ConfigInv
<1> QED
  BY <1>14, <1>17, <1>18, <1>19, <1>20 DEF ReadInv


\* While nobody stores keys and nothing is promised, only the configuration is
\* at stake.
LEMMA QuietKeeps ==
    ASSUME \A q \in Commands : command'[q].pc \notin Filling,
           past'.promised = {}, ConfigInv'
    PROVE  ReadInv'
BY DEF ReadInv, RivalInv, PairOf, PromisedInv, CacheOf, AccountOf, KeptInv, KeptFile

\* The purge is alone, and nothing is promised while it runs.
LEMMA PurgeKeeps ==
    ASSUME ReadableInv, NEW p \in Commands, Purge(p)
    PROVE  ReadInv'
<1>0. /\ command[p] \in Command /\ command \in [Commands -> Command]
      /\ prysm \in PrysmFiles /\ past \in Past
      /\ RefusalInv /\ RivalInv /\ ConfigInv
      /\ Prysm \in Clients /\ NoClient \notin Clients /\ Prysm \notin PairClients
  BY KeystoreAssumption
     DEF ReadableInv, ReadInv, RefusalInv, TypeInv, TypeOK, KeystoreAssumption, Clients
<1>a. ASSUME Purging(p), command'[p].pc \notin Filling,
             \A q \in Commands \ {p} : command'[q] = command[q]
      PROVE  /\ \A q \in Commands : command'[q].pc \notin Filling
             /\ \A q \in Commands : command[q].pc \notin Filling
             /\ past.promised = {}
  BY <1>0, <1>a DEF RefusalInv, AloneInv, RivalInv, Running, Purging, Filling, Storing,
                    PrysmSteps, Ends
<1>c. ASSUME Purging(p), UNCHANGED <<prysm, past>>,
             \A q \in Commands \ {p} : command'[q] = command[q],
             ~Emptying(p) \/ command' = command
      PROVE  ConfigInv'
  <2>1. \A q \in Commands :
          /\ command[q].pc = "fillConfig" => command'[q].pc = "fillConfig"
          /\ Configuring(q) => Configuring(q)'
    BY <1>c DEF Configuring, Emptying, Purging
  <2> QED
    BY <1>0, <1>c, <2>1 DEF ConfigInv
<1>1. CASE BeginPurge(p)
  <2>1. /\ \A q \in Commands : ~Running(q)
        /\ command'[p].pc = "remove"
        /\ \A q \in Commands \ {p} : command'[q] = command[q]
        /\ UNCHANGED prysm /\ past'.bare = past.bare /\ past'.promised = {}
    BY <1>0, <1>1 DEF BeginPurge, files, Command, Past
  <2>2. /\ \A q \in Commands : command'[q].pc \notin Filling
        /\ \A q \in Commands : ~Configuring(q) /\ command[q].pc # "fillConfig"
    BY <2>1 DEF Running, Configuring, Emptying, Filling, Storing, PrysmSteps, Ends
  <2>3. ConfigInv'
    BY <1>0, <2>1, <2>2 DEF ConfigInv
  <2> QED
    BY <2>1, <2>2, <2>3, QuietKeeps
<1>2. ASSUME NEW c \in Clients, ChooseStore(p, c) PROVE ReadInv'
  <2>1. /\ command[p].pc = "remove" /\ command[p].at = NoClient
        /\ command'[p].pc = "remove"
        /\ \A q \in Commands \ {p} : command'[q] = command[q]
        /\ UNCHANGED <<prysm, past>>
    BY <1>0, <1>2 DEF ChooseStore, files, Command
  <2>2. Purging(p) /\ ~Emptying(p) /\ "remove" \notin Filling
    BY <1>0, <2>1 DEF Purging, Emptying, Filling
  <2>3. ConfigInv'
    BY <1>c, <2>1, <2>2
  <2> QED
    BY <1>a, <2>1, <2>2, <2>3, QuietKeeps
<1>3. CASE RemovePairFile(p)
  <2>1. command[p].pc = "remove" /\ UNCHANGED <<command, prysm, past>>
    BY <1>3 DEF RemovePairFile
  <2>2. Purging(p) /\ "remove" \notin Filling
    BY <2>1 DEF Purging, Filling
  <2>3. ConfigInv'
    BY <1>c, <2>1, <2>2
  <2> QED
    BY <1>a, <2>1, <2>2, <2>3, QuietKeeps
<1>4. CASE RemovePrysmFile(p)
  <2>1. /\ command[p].pc = "remove" /\ command[p].at = Prysm
        /\ UNCHANGED <<command, past>>
    BY <1>4 DEF RemovePrysmFile
  <2>2. Purging(p) /\ "remove" \notin Filling
    BY <2>1 DEF Purging, Filling
  <2>3. \/ prysm'.config = prysm.config /\ prysm'.state \in {prysm.state, "absent"}
        \/ prysm'.config = "absent"
    BY <1>0, <1>4 DEF RemovePrysmFile, PrysmFiles
  <2>4. prysm'.config = "absent" => Configuring(p)'
    BY <2>1 DEF Configuring, Emptying
  <2>5. ASSUME NEW q \in Commands, Configuring(q), prysm'.config = prysm.config
        PROVE  Configuring(q)'
    BY <2>1, <2>5 DEF Configuring, Emptying
  <2>6. ConfigInv'
    <3>1. CASE prysm'.config = "absent"
      BY <2>4, <3>1 DEF ConfigInv
    <3>2. CASE prysm'.config = prysm.config /\ prysm'.state \in {prysm.state, "absent"}
      BY <1>0, <2>1, <2>5, <3>2 DEF ConfigInv
    <3> QED
      BY <2>3, <3>1, <3>2
  <2> QED
    BY <1>a, <2>1, <2>2, <2>6, QuietKeeps
<1>5. CASE StoreRemoved(p)
  <2> DEFINE rest == command[p].left \ {command[p].at}
  <2>1. /\ command[p].pc = "remove" /\ command[p].at # NoClient /\ UNCHANGED prysm
        /\ \A q \in Commands \ {p} : command'[q] = command[q]
        /\ command[p].at = Prysm => prysm = NoPrysm
    BY <1>0, <1>5 DEF StoreRemoved, files, Emptied
  <2>2. Purging(p) /\ "remove" \notin Filling /\ "deleted" \notin Filling
    BY <2>1 DEF Purging, Filling, Storing, PrysmSteps
  <2>3. \/ command'[p].pc = "deleted" /\ past' = Calm /\ rest = {}
        \/ command'[p].pc = "remove" /\ past' = past
    BY <1>0, <1>5 DEF StoreRemoved, Command, NewCommand
  <2>4. rest = {} => prysm = NoPrysm
    <3>1. Prysm \notin command[p].left => prysm = NoPrysm
      BY <1>0, <2>1 DEF RefusalInv, DeletedInv
    <3> QED
      BY <2>1, <3>1
  <2> HIDE DEF rest
  <2>5. ConfigInv'
    <3>1. prysm = NoPrysm => ConfigInv'
      BY <2>1 DEF ConfigInv, NoPrysm
    <3>2. CASE ~Emptying(p) /\ past' = past
      BY <1>c, <2>1, <2>2, <3>2
    <3> QED
      BY <2>1, <2>3, <2>4, <3>1, <3>2 DEF Emptying
  <2>6. past'.promised = {} /\ \A q \in Commands : command'[q].pc \notin Filling
    BY <1>a, <2>1, <2>2, <2>3 DEF Calm
  <2> QED
    BY <2>5, <2>6, QuietKeeps
<1>6. CASE DeleteWallet(p)
  <2>1. /\ UNCHANGED <<files, past>> /\ command[p].pc = "deleted"
        /\ command'[p].pc = "done"
        /\ \A q \in Commands \ {p} : command'[q] = command[q]
    BY <1>0, <1>6 DEF DeleteWallet, Ended, NewCommand
  <2>2. ~Configuring(p)
    BY <2>1 DEF Configuring, Emptying
  <2> QED
    BY <2>1, <2>2, EndKeeps DEF Ends
<1> QED
  BY <1>1, <1>2, <1>3, <1>4, <1>5, <1>6 DEF Purge

\* A kill leaves the pair in hand cut, and may leave the accounts bare.
LEMMA KillKeeps ==
    ASSUME ReadableInv, NEW p \in Commands, Kill(p)
    PROVE  ReadInv'
<1>0. command \in [Commands -> Command] /\ past \in Past /\ prysm \in PrysmFiles
  BY DEF ReadableInv, RefusalInv, TypeInv, TypeOK
<1>1. /\ \A q \in Commands \ {p} : command'[q] = command[q]
      /\ command'[p].pc = "killed" /\ UNCHANGED files
  BY <1>0 DEF Kill, Ended, NewCommand
<1>2. /\ past'.promised = past.promised
      /\ past.mixed => past'.mixed
      /\ past.bare => past'.bare
  BY <1>0 DEF Kill, Past
<1>3. /\ past.cut \subseteq past'.cut
      /\ command[p].pc = "key" => <<command[p].at, command[p].key>> \in past'.cut
  <2>1. past'.cut = IF command[p].pc = "key"
                    THEN past.cut \cup {<<command[p].at, command[p].key>>} ELSE past.cut
    BY <1>0 DEF Kill, Past
  <2> QED
    BY <2>1
<1>4. /\ Configuring(p) /\ prysm.config # "whole" /\ prysm.state = "whole" => past'.bare
      /\ command[p].pc = "fillConfig" /\ prysm.config = "torn" => past'.bare
  BY <1>0 DEF Kill, Past, Configuring, Emptying
<1> QED
  BY <1>1, <1>2, <1>3, <1>4, EndKeeps DEF Ends

\* A key is in a keystore, by whichever step the store returns. If it was the
\* last of a command without rivals, Prysm has its configuration.
Returns(p) ==
    \/ WriteKey(p)
    \/ Add(p) /\ command[p].key \in command[p].cache
    \/ StatConfig(p) /\ prysm.config # "absent"
    \/ FillConfig(p)

LEMMA ReturnStep ==
    ASSUME ReadableInv, NEW p \in Commands, Returns(p)
    PROVE  /\ ReadInv'
           /\ command'[p].pc = "stored" =>
                 /\ \A k \in Covered(p) \ command[p].rivals, c \in PairClients :
                       PairReadable(c, k)'
                 /\ command[p].rivals = {} =>
                       /\ \A k \in Covered(p) : PrysmReadable(k)'
                       /\ prysm'.config = "whole" \/ past.bare
<1>0. /\ command[p] \in GoodCommand /\ TypeInv /\ CacheOf(p) /\ ConfigInv
      /\ prysm \in PrysmFiles /\ past \in Past
      /\ keyfile \in [PairClients -> [Keys -> PairFiles]]
  BY DEF ReadableInv, RefusalInv, TypeInv, TypeOK, ReadInv
<1> DEFINE at == command[p].at
           key == command[p].key
           cut == past.cut \ {<<at, key>>}
<1>1. /\ Prysm \in Clients /\ PairClients \subseteq Clients /\ Prysm \notin PairClients
      /\ NoClient \notin Clients
  BY KeystoreAssumption DEF Clients, KeystoreAssumption
<1>2. /\ command[p].pc \in {"key", "add", "config", "fillConfig"}
      /\ command[p].pc = "key" <=> WriteKey(p)
      /\ command[p].pc \in Filling
      /\ UNCHANGED secret
  BY DEF Returns, WriteKey, Add, StatConfig, FillConfig, Filling, Storing, PrysmSteps,
         files
<1>3. /\ command[p].pc = "key" => at \in PairClients
      /\ command[p].pc # "key" => at = Prysm
      /\ at \in Clients /\ at \in command[p].left
      /\ key \in Keys
  BY <1>0, <1>1, <1>2 DEF GoodCommand, PrysmSteps
<1>4. StoreReturns(p, command[p], cut) /\ cut \in SUBSET (PairClients \X Keys)
  <2>1. cut \in SUBSET (PairClients \X Keys)
    BY <1>0 DEF Past
  <2>2. command[p].pc # "key" => cut = past.cut
    BY <1>0, <1>1, <1>3 DEF Past
  <2>3. \/ StoreReturns(p, command[p], cut)
        \/ StoreReturns(p, command[p], past.cut) /\ command[p].pc # "key"
    BY <1>2 DEF Returns, WriteKey, Add, StatConfig, FillConfig
  <2> QED
    BY <2>1, <2>2, <2>3
<1>5. \A d \in PairClients, k \in Keys :
         keyfile'[d][k] = IF d = at /\ k = key THEN p ELSE keyfile[d][k]
  <2>1. CASE WriteKey(p)
    <3>1. keyfile' = [keyfile EXCEPT ![at][key] = p]
      BY <2>1 DEF WriteKey
    <3> HIDE DEF at, key
    <3> QED
      BY <1>0, <1>2, <1>3, <2>1, <3>1
  <2>2. CASE ~WriteKey(p)
    <3>1. keyfile' = keyfile /\ at = Prysm
      BY <1>2, <1>3, <2>2 DEF Returns, Add, StatConfig, FillConfig, files
    <3> QED
      BY <1>1, <3>1
  <2> QED
    BY <2>1, <2>2
<1>6. /\ prysm'.state = prysm.state /\ prysm'.word = prysm.word
      /\ prysm'.accounts = prysm.accounts
      /\ IF FillConfig(p) THEN prysm'.config = "whole"
         ELSE prysm'.config = prysm.config
  BY <1>0 DEF Returns, WriteKey, Add, StatConfig, FillConfig, files, PrysmFiles
<1>7. /\ \A q \in Commands \ {p} : command'[q] = command[q]
      /\ command'[p].pc \in {"next", "stored"}
      /\ past'.bare = past.bare
  BY <1>0, <1>2, <1>3, <1>4, ReturnFields
<1> HIDE DEF at, key, cut
<1>8. ConfigInv'
  <2>1. CASE FillConfig(p)
    BY <1>6, <2>1 DEF ConfigInv
  <2>2. CASE ~FillConfig(p) /\ command[p].pc = "config"
    <3>1. prysm'.config = prysm.config /\ prysm.config \in {"torn", "whole"}
      BY <1>0, <1>6, <2>2 DEF Returns, WriteKey, Add, PrysmFiles
    <3>2. \A q \in Commands : command[q].pc = "fillConfig" =>
             command'[q].pc = "fillConfig" /\ Configuring(q)'
      BY <1>7, <2>2 DEF Configuring
    <3> QED
      BY <1>0, <1>7, <3>1, <3>2 DEF ConfigInv
  <2>3. CASE ~FillConfig(p) /\ command[p].pc # "config"
    <3>1. command[p].pc \in Filling \ {"config", "fillConfig"}
      BY <1>2, <2>3 DEF Returns, WriteKey, Add, StatConfig
    <3> QED
      BY <1>6, <1>7, <2>3, <3>1, ConfigMove
  <2> QED
    BY <2>1, <2>2, <2>3
<1>9. at = Prysm =>
        /\ command[p].read /\ key \in command[p].cache
        /\ command[p].pc \notin {"openAccounts", "fillAccounts"}
  <2>1. at = Prysm => command[p].pc \in {"add", "config", "fillConfig"}
    BY <1>1, <1>2, <1>3
  <2>2. command[p].pc = "add" => key \in command[p].cache
    BY DEF Returns, WriteKey, StatConfig, FillConfig, key
  <2> QED
    BY <1>0, <1>2, <2>1, <2>2 DEF CacheOf, key
<1>10. /\ ReadInv'
       /\ command'[p].pc = "stored" =>
             /\ \A k \in Covered(p) \ command[p].rivals, c \in PairClients :
                   PairReadable(c, k)'
             /\ command[p].rivals = {} => \A k \in Covered(p) : PrysmReadable(k)'
  <2>1. at \in PairClients <=> command[p].pc = "key"
    BY <1>1, <1>3
  <2> QED
    BY <1>2, <1>3, <1>4, <1>5, <1>6, <1>8, <1>9, <2>1, ReturnReadable DEF at, key, cut
<1>11. ASSUME command'[p].pc = "stored", command[p].rivals = {}
       PROVE  prysm'.config = "whole" \/ past.bare
  <2>1. prysm'.state = "whole"
    <3>1. key \in Covered(p)
      BY <1>2, Company DEF key
    <3> QED
      BY <1>10, <1>11, <3>1 DEF PrysmReadable
  <2>2. ~Configuring(p)'
    BY <1>11 DEF Configuring, Emptying
  <2>3. \A q \in Commands \ {p} : command[q].pc \notin Filling /\ ~Emptying(q)
    BY <1>2, <1>11, Company
  <2>4. \A q \in Commands \ {p} : ~Configuring(q)'
    BY <1>7, <2>3 DEF Configuring, Emptying, Filling, Storing, PrysmSteps
  <2> QED
    BY <1>7, <1>8, <2>1, <2>2, <2>4 DEF ConfigInv
<1> QED
  BY <1>10, <1>11

LEMMA SaveKeeps ==
    ASSUME ReadableInv, NEW p \in Commands,
           \/ SaveWallet(p)
           \/ ReadAccounts(p) /\ command'[p].pc = "failed"
    PROVE  ReadInv'
<1>0. command \in [Commands -> Command]
  BY DEF ReadableInv, RefusalInv, TypeInv, TypeOK
<1>1. /\ command[p].pc \in {"stored", "readAccounts"}
      /\ command'[p].pc \in Ends
      /\ \A q \in Commands \ {p} : command'[q] = command[q]
      /\ UNCHANGED <<files, past>>
  BY <1>0 DEF SaveWallet, ReadAccounts, Ended, NewCommand, Ends
<1>2. ~Configuring(p)
  BY <1>1 DEF Configuring, Emptying
<1> QED
  BY <1>1, <1>2, EndKeeps

LEMMA InitReadable == Init => ReadableInv
<1> SUFFICES ASSUME Init PROVE ReadableInv
  OBVIOUS
<1>1. \A p \in Commands : command[p].pc \notin Filling /\ ~Purging(p)
  BY DEF Init, NewCommand, Filling, Storing, PrysmSteps, Purging
<1>2. ReadInv
  BY <1>1 DEF Init, Calm, NoPrysm, ReadInv, RivalInv, PairOf, PromisedInv, CacheOf,
              AccountOf, KeptInv, KeptFile, ConfigInv
<1> QED
  BY <1>2, InitRefusal DEF ReadableInv

LEMMA NextReadable == ReadableInv /\ [Next]_vars => ReadableInv'
<1> SUFFICES ASSUME ReadableInv, [Next]_vars PROVE ReadableInv'
  OBVIOUS
<1>0. RefusalInv'
  BY NextRefusal DEF ReadableInv
<1>1. ASSUME NEW p \in Commands, Store(p) PROVE ReadInv'
  <2>1. \/ \E last \in Keys : Begin(p, last)
        \/ \E c \in PairClients : WriteSecret(p, c)
        \/ Returns(p)
        \/ StartPrysm(p) \/ OpenWord(p) \/ FillWord(p) \/ ReadWord(p)
        \/ ReadAccounts(p) \/ SaveWallet(p) \/ OpenAccounts(p) \/ FillAccounts(p)
        \/ Add(p) /\ command[p].key \notin command[p].cache
        \/ StatConfig(p) /\ prysm.config = "absent"
    BY <1>1, Zenon DEF Store, Returns
  <2> QED
    BY <2>1, BeginKeeps, SecretStep, ReturnStep, WordSteps, ReadStep, SaveKeeps,
       AccountSteps, ConfigStep
<1>2. ASSUME NEW p \in Commands, Purge(p) \/ Kill(p) PROVE ReadInv'
  BY <1>2, PurgeKeeps, KillKeeps
<1>3. CASE UNCHANGED <<files, command, past>>
  <2>1. /\ UNCHANGED <<secret, keyfile, prysm, command, past>>
    BY <1>3 DEF files
  <2>2. /\ \A c, k : PairReadable(c, k)' <=> PairReadable(c, k)
        /\ \A p \in Commands :
              /\ Covered(p)' = Covered(p) /\ (Purging(p)' <=> Purging(p))
              /\ Configuring(p)' <=> Configuring(p)
              /\ \A c, k : Done(p, c, k)' <=> Done(p, c, k)
              /\ \A c, k : Repairing(p, c, k)' <=> Repairing(p, c, k)
    BY <2>1 DEF PairReadable, Covered, Purging, Configuring, Emptying, Done, Repairing
  <2>3. RivalInv' /\ KeptInv' /\ ConfigInv'
    <3>1. RivalInv /\ KeptInv /\ ConfigInv
      BY DEF ReadableInv, ReadInv
    <3>2. RivalInv'
      BY <2>1, <2>2, <3>1 DEF RivalInv
    <3>3. KeptInv'
      BY <2>1, <3>1 DEF KeptInv, KeptFile
    <3>4. ConfigInv'
      BY <2>1, <2>2, <3>1 DEF ConfigInv
    <3> QED
      BY <3>2, <3>3, <3>4
  <2>4. ASSUME NEW p \in Commands PROVE PairOf(p)' /\ CacheOf(p)' /\ AccountOf(p)'
    <3>1. PairOf(p) /\ CacheOf(p) /\ AccountOf(p)
      BY DEF ReadableInv, ReadInv
    <3> QED
      BY <2>1, <2>2, <3>1 DEF PairOf, CacheOf, AccountOf
  <2>5. PromisedInv'
    <3>1. ASSUME NEW k \in past.promised, NEW c \in PairClients PROVE PromiseOf(c, k)'
      <4>1. PromiseOf(c, k)
        BY DEF ReadableInv, ReadInv, PromisedInv
      <4> QED
        BY <2>1, <2>2, <4>1 DEF PromiseOf
    <3> QED
      BY <2>1, <3>1 DEF PromisedInv
  <2>6. ReadInv'
    BY <2>3, <2>4, <2>5 DEF ReadInv
  <2> QED
    BY <1>0, <2>6 DEF ReadableInv
<1>4. InitWallet \/ UNCHANGED vars => UNCHANGED <<files, command, past>>
  BY DEF InitWallet, vars
<1> QED
  BY <1>0, <1>1, <1>2, <1>3, <1>4 DEF Next, ReadableInv

\* A command reports its keys by a step in which the last store returns.
LEMMA ReportStep ==
    ASSUME ReadableInv, Next, NEW p \in Commands, Active(p), command'[p].pc = "stored"
    PROVE  Returns(p)
<1>0. command \in [Commands -> Command] /\ command \in [Commands -> GoodCommand]
  BY DEF ReadableInv, RefusalInv, TypeInv, TypeOK
<1>1. command[p].pc # "stored"
  BY DEF Active, Storing, PrysmSteps
<1>2. ASSUME NEW q \in Commands, Store(q) PROVE Returns(p)
  <2>1. ASSUME NEW last \in Keys, Begin(q, last) PROVE FALSE
    <3>1. command[q].pc = "new" /\ q # p
      BY <2>1 DEF Begin, Active, Storing, PrysmSteps
    <3> QED
      BY <1>0, <1>1, <2>1, <3>1 DEF Begin, Command
  <2>2. ASSUME NEW c \in PairClients, WriteSecret(q, c) PROVE FALSE
    BY <1>0, <1>1, <2>2 DEF WriteSecret, Command
  <2>3. ~StartPrysm(q) /\ ~OpenWord(q) /\ ~FillWord(q) /\ ~ReadWord(q)
    BY <1>0, <1>1 DEF StartPrysm, OpenWord, FillWord, ReadWord, Goto, Command
  <2>4. ~OpenAccounts(q) /\ ~FillAccounts(q) /\ ~SaveWallet(q)
    BY <1>0, <1>1
       DEF OpenAccounts, FillAccounts, SaveWallet, Goto, Command, Ended, NewCommand
  <2>5. ~ReadAccounts(q)
    BY <1>0, <1>1 DEF ReadAccounts, Command, Ended, NewCommand
  <2>6. ~(Add(q) /\ command[q].key \notin command[q].cache)
    BY <1>0, <1>1 DEF Add, Command
  <2>7. ~(StatConfig(q) /\ prysm.config = "absent")
    BY <1>0, <1>1 DEF StatConfig, Goto, Command
  <2>8. Returns(q)
    BY <1>2, <2>1, <2>2, <2>3, <2>4, <2>5, <2>6, <2>7 DEF Store, Returns
  <2>9. \A r \in Commands \ {q} : command'[r] = command[r]
    BY <1>0, <2>8
       DEF Returns, WriteKey, Add, StatConfig, FillConfig, StoreReturns
  <2> QED
    BY <1>1, <2>8, <2>9
<1>3. ASSUME NEW q \in Commands, Purge(q) PROVE FALSE
  <2>1. ~BeginPurge(q) /\ ~RemovePairFile(q) /\ ~RemovePrysmFile(q)
    BY <1>0, <1>1 DEF BeginPurge, RemovePairFile, RemovePrysmFile, Command
  <2>2. ~DeleteWallet(q) /\ \A c \in Clients : ~ChooseStore(q, c)
    BY <1>0, <1>1 DEF DeleteWallet, ChooseStore, Command, Ended, NewCommand
  <2>3. ~StoreRemoved(q)
    BY <1>0, <1>1 DEF StoreRemoved, Command, NewCommand
  <2> QED
    BY <1>3, <2>1, <2>2, <2>3 DEF Purge
<1>4. ASSUME NEW q \in Commands, Kill(q) PROVE FALSE
  BY <1>0, <1>1, <1>4 DEF Kill, Ended, NewCommand
<1>5. ~InitWallet
  BY <1>1 DEF InitWallet
<1> QED
  BY <1>2, <1>3, <1>4, <1>5 DEF Next

\* A command that reports its keys stored leaves each readable by the clients
\* with two files, but for keys that a command it overlapped has too; and, if
\* it overlapped none, by Prysm, with its configuration unless a kill came
\* before it once.
THEOREM StoredReadable == Spec => StoredIsReadable
<1>1. ReadableInv /\ [Next]_vars =>
        [\A p \in Commands :
          Active(p) /\ command'[p].pc = "stored" =>
            /\ \A k \in Covered(p) \ command[p].rivals, c \in PairClients :
                  PairReadable(c, k)'
            /\ command[p].rivals = {} =>
                  /\ \A k \in Covered(p) : PrysmReadable(k)'
                  /\ prysm'.config = "whole" \/ past.bare]_vars
  BY ReportStep, ReturnStep
<1>2. Spec => []ReadableInv
  BY InitReadable, NextReadable, PTL DEF Spec
<1> QED
  BY <1>1, <1>2, PTL DEF Spec, StoredIsReadable

\* What was stored without a quarrel stays readable: the pair of a key until it
\* is cut, Prysm's accounts until commands overlap or are killed within them.
THEOREM StoredStays == Spec => []StoredStaysReadable
<1>1. ReadableInv => StoredStaysReadable
  <2> SUFFICES ASSUME ReadableInv, \A p \in Commands : ~Active(p),
                      NEW k \in past.promised
               PROVE  /\ \A c \in PairClients : <<c, k>> \in past.cut \/ PairReadable(c, k)
                      /\ past.mixed \/ PrysmReadable(k)
    BY DEF StoredStaysReadable
  <2>1. ASSUME NEW c \in PairClients PROVE <<c, k>> \in past.cut \/ PairReadable(c, k)
    <3>1. PromiseOf(c, k)
      BY DEF ReadableInv, ReadInv, PromisedInv
    <3>2. \A p \in Commands : ~Repairing(p, c, k)
      BY DEF Repairing, Active, Storing
    <3> QED
      BY <3>1, <3>2 DEF PromiseOf
  <2>2. ~past.mixed => PrysmReadable(k)
    <3>1. ~past.mixed => Opens /\ KeptFile
      BY DEF ReadableInv, ReadInv, RefusalInv, MatchInv, KeptInv
    <3> QED
      BY <3>1 DEF Opens, KeptFile, PrysmReadable
  <2> QED
    BY <2>1, <2>2
<1>2. Spec => []ReadableInv
  BY InitReadable, NextReadable, PTL DEF Spec
<1> QED
  BY <1>1, <1>2, PTL

=============================================================================
