---------------------- MODULE ClientsAndSettingsProofs ----------------------
(* Theorems about two components, each by itself: the client managers, for any
   number of loops, either manager and any behaviour of the clients; and the
   settings file with the runs of the CLI over it, for any number of runs, any
   versions and whatever the operator chooses.                               *)
EXTENDS ClientManager, Configuration, TLAPS

-----------------------------------------------------------------------------
(* Types *)

LEMMA ThreadType ==
    ASSUME TypeOK, NEW t \in Threads, NEW s \in Thread,
           thread' = [thread EXCEPT ![t] = s]
    PROVE  thread' \in [Threads -> Thread]
BY DEF TypeOK

LEMMA GotoType ==
    ASSUME TypeOK, NEW t \in Threads, NEW pc \in Pcs, Goto(t, pc)
    PROVE  thread' \in [Threads -> Thread]
BY DEF TypeOK, Goto, Thread

LEMMA SetFlagsType ==
    ASSUME TypeOK, NEW flags \in [Clients -> BOOLEAN], SetFlags(flags)
    PROVE  /\ ready' \in [Clients -> BOOLEAN]
           /\ usable' \in [Threads -> SUBSET Clients]
BY DEF TypeOK, SetFlags

LEMMA ReturnType ==
    ASSUME TypeOK, NEW t \in Threads,
           NEW out \in {"ok", "unready", "unsynced"}, Return(t, out)
    PROVE  /\ lock' \in Threads \cup {NoThread}
           /\ thread' \in [Threads -> Thread]
<1> DEFINE s == [thread[t] EXCEPT !.pc = IF out = "ok" THEN "work" ELSE "sleep",
                                  !.out = out, !.seen = Unseen, !.target = Nobody]
<1>1. s \in Thread
  <2>1. thread[t] \in Thread
    BY DEF TypeOK
  <2>2. {"work", "sleep"} \subseteq Pcs
    BY DEF Pcs
  <2>3. Unseen \in [Clients -> AllHealths \cup {Nobody}]
    BY DEF Unseen
  <2>4. QED
    BY <2>1, <2>2, <2>3 DEF Thread
<1>2. thread' = [thread EXCEPT ![t] = s]
  BY DEF Return
<1>3. QED
  BY <1>1, <1>2, ThreadType DEF Return

LEMMA EndCallType ==
    ASSUME TypeOK, NEW t \in Threads, NEW by \in Clients \cup {Nobody},
           NEW out \in {"ok", "error", "unready", "failed"}, EndCall(t, by, out)
    PROVE  /\ thread' \in [Threads -> Thread]
           /\ usable' \in [Threads -> SUBSET Clients]
<1> DEFINE s == [thread[t] EXCEPT !.pc = "work", !.by = by, !.out = out]
<1>1. s \in Thread
  <2>1. thread[t] \in Thread
    BY DEF TypeOK
  <2>2. "work" \in Pcs
    BY DEF Pcs
  <2>3. QED
    BY <2>1, <2>2 DEF Thread
<1>2. thread' = [thread EXCEPT ![t] = s]
  BY DEF EndCall
<1>3. usable' \in [Threads -> SUBSET Clients]
  BY DEF EndCall, TypeOK
<1>4. QED
  BY <1>1, <1>2, <1>3, ThreadType

LEMMA CallClientType ==
    ASSUME TypeOK, NEW t \in Threads, NEW c \in Clients,
           NEW drop \in {"drop", "drop2"}, CallClient(t, c, drop)
    PROVE  TypeOK'
<1>1. drop \in Pcs
  BY DEF Pcs, CallPcs
<1>2. CASE EndCall(t, c, "ok") \/ EndCall(t, c, "error")
  BY <1>2, EndCallType DEF CallClient, TypeOK, config
<1>3. CASE Continue(t, drop)
  BY <1>1, <1>3, GotoType DEF CallClient, Continue, TypeOK, config
<1>4. QED
  BY <1>2, <1>3 DEF CallClient

(* Every state of ClientManager has the declared types, for any number of
   loops: the answers a check keeps are those of clients, the mutex is held
   by a loop or by nobody. *)
THEOREM TypeCorrect == Spec => []TypeOK
<1>1. ASSUME Init
      PROVE  TypeOK
  <2> DEFINE start == [pc |-> "lock", seen |-> Unseen, target |-> Nobody,
                       by |-> Nobody, out |-> "none"]
  <2>1. start \in Thread
    <3>1. "lock" \in Pcs
      BY DEF Pcs
    <3>2. Unseen \in [Clients -> AllHealths \cup {Nobody}]
      BY DEF Unseen
    <3>3. QED
      BY <3>1, <3>2 DEF Thread
  <2>2. thread \in [Threads -> Thread]
    <3>1. thread = [t \in Threads |-> start]
      BY <1>1 DEF Init
    <3>2. QED
      BY <2>1, <3>1
  <2>3. health \in [Clients -> AllHealths]
    BY <1>1, HealthAssumption DEF Init, Conditions
  <2>4. /\ kind \in Kinds
        /\ enabled \in BOOLEAN
        /\ rightChain \in BOOLEAN
        /\ lock \in Threads \cup {NoThread}
        /\ usable \in [Threads -> SUBSET Clients]
    BY <1>1 DEF Init
  <2>5. ready \in [Clients -> BOOLEAN]
    BY <1>1, <2>4 DEF Init
  <2>6. QED
    BY <2>2, <2>3, <2>4, <2>5 DEF TypeOK
<1>2. TypeOK /\ [Next]_vars => TypeOK'
  <2> SUFFICES ASSUME TypeOK, [Next]_vars
               PROVE  TypeOK'
    OBVIOUS
  <2>1. ASSUME NEW t \in Threads, Lock(t)
        PROVE  TypeOK'
    <3> DEFINE s == [thread[t] EXCEPT !.pc = "probe"]
    <3>1. s \in Thread
      <4>1. thread[t] \in Thread /\ "probe" \in Pcs
        BY DEF TypeOK, Pcs, WaitPcs
      <4> QED
        BY <4>1 DEF Thread
    <3>2. thread' = [thread EXCEPT ![t] = s]
      BY <2>1 DEF Lock
    <3> HIDE DEF s
    <3> QED
      BY <2>1, <3>1, <3>2 DEF Lock, TypeOK, config
  <2>2. ASSUME NEW t \in Threads, ProbePrimary(t)
        PROVE  TypeOK'
    <3> DEFINE s == [thread[t] EXCEPT !.seen["primary"] = health["primary"],
                                      !.pc = IF kind = "EC" THEN "flag" ELSE "probe2"]
    <3>1. s \in Thread
      <4>1. thread[t] \in Thread
        BY DEF TypeOK
      <4>2. {"flag", "probe2"} \subseteq Pcs
        BY DEF Pcs, WaitPcs
      <4>3. health["primary"] \in AllHealths
        BY DEF TypeOK, Clients
      <4>4. QED
        BY <4>1, <4>2, <4>3 DEF Thread
    <3>2. thread' = [thread EXCEPT ![t] = s]
      BY <2>2 DEF ProbePrimary
    <3>3. QED
      BY <2>2, <3>1, <3>2, ThreadType DEF ProbePrimary, TypeOK, config
  <2>3. ASSUME NEW t \in Threads, FlagPrimary(t)
        PROVE  TypeOK'
    <3>1. "probe2" \in Pcs
      BY DEF Pcs, WaitPcs
    <3>2. [ready EXCEPT !["primary"] = thread[t].seen["primary"] = "synced"]
            \in [Clients -> BOOLEAN]
      BY DEF TypeOK
    <3>3. QED
      BY <2>3, <3>1, <3>2, GotoType, SetFlagsType DEF FlagPrimary, TypeOK, config
  <2>4. ASSUME NEW t \in Threads, ProbeFallback(t)
        PROVE  TypeOK'
    <3> DEFINE s == [thread[t] EXCEPT !.seen["fallback"] = IF enabled THEN health["fallback"]
                                                              ELSE Nobody,
                                      !.pc = "flag2"]
    <3>1. s \in Thread
      <4>1. thread[t] \in Thread
        BY DEF TypeOK
      <4>2. "flag2" \in Pcs
        BY DEF Pcs, WaitPcs
      <4>3. health["fallback"] \in AllHealths
        BY DEF TypeOK, Clients
      <4>4. QED
        BY <4>1, <4>2, <4>3 DEF Thread
    <3>2. thread' = [thread EXCEPT ![t] = s]
      BY <2>4 DEF ProbeFallback
    <3>3. QED
      BY <2>4, <3>1, <3>2, ThreadType DEF ProbeFallback, TypeOK, config
  <2>5. ASSUME NEW t \in Threads, FlagClients(t)
        PROVE  TypeOK'
    <3>1. "decide" \in Pcs
      BY DEF Pcs, WaitPcs
    <3>2. PICK flags \in [Clients -> BOOLEAN] : SetFlags(flags)
      <4> DEFINE new == [c \in Clients |->
                            CASE c = "fallback" -> FallbackReady(t)
                              [] c = "primary" -> IF kind = "BC"
                                                  THEN thread[t].seen[c] = "synced"
                                                  ELSE ready[c]]
      <4>1. \A c \in Clients : new[c] \in BOOLEAN
        BY DEF FallbackReady, TypeOK, Clients
      <4>2. new \in [Clients -> BOOLEAN]
        BY <4>1
      <4>3. SetFlags(new)
        BY <2>5 DEF FlagClients
      <4>4. QED
        BY <4>2, <4>3
    <3>3. QED
      BY <2>5, <3>1, <3>2, GotoType, SetFlagsType DEF FlagClients, TypeOK, config
  <2>6. ASSUME NEW t \in Threads, ReturnReady(t) \/ FailWait(t) \/ PollClient(t)
                                     \/ PollManager(t)
        PROVE  TypeOK'
    BY <2>6, ReturnType
       DEF ReturnReady, FailWait, PollClient, PollManager, TypeOK, config
  <2>7. ASSUME NEW t \in Threads, AwaitClient(t)
        PROVE  TypeOK'
    <3> DEFINE s(c) == [thread[t] EXCEPT !.pc = "poll", !.target = c]
    <3>1. \A c \in Clients : s(c) \in Thread
      <4>1. thread[t] \in Thread
        BY DEF TypeOK
      <4>2. "poll" \in Pcs
        BY DEF Pcs, WaitPcs
      <4>3. QED
        BY <4>1, <4>2 DEF Thread
    <3>2. \/ thread' = [thread EXCEPT ![t] = s("primary")]
          \/ thread' = [thread EXCEPT ![t] = s("fallback")]
      BY <2>7 DEF AwaitClient
    <3>3. s("primary") \in Thread /\ s("fallback") \in Thread
      BY <3>1 DEF Clients
    <3>4. thread' \in [Threads -> Thread]
      BY <3>2, <3>3, ThreadType
    <3>5. QED
      BY <2>7, <3>4 DEF AwaitClient, TypeOK, config
  <2>8. ASSUME NEW t \in Threads, Refresh(t)
        PROVE  TypeOK'
    <3> DEFINE s == [thread[t] EXCEPT !.pc = "probe", !.target = Nobody]
    <3>1. s \in Thread
      <4>1. thread[t] \in Thread
        BY DEF TypeOK
      <4>2. "probe" \in Pcs
        BY DEF Pcs, WaitPcs
      <4>3. QED
        BY <4>1, <4>2 DEF Thread
    <3>2. thread' = [thread EXCEPT ![t] = s]
      BY <2>8 DEF Refresh
    <3>3. QED
      BY <2>8, <3>1, <3>2, ThreadType DEF Refresh, TypeOK, config
  <2>9. ASSUME NEW t \in Threads, StartCall(t)
        PROVE  TypeOK'
    <3> DEFINE s == [thread[t] EXCEPT !.pc = "begin", !.by = Nobody, !.out = "none"]
    <3>1. s \in Thread
      <4>1. thread[t] \in Thread
        BY DEF TypeOK
      <4>2. "begin" \in Pcs
        BY DEF Pcs, CallPcs
      <4>3. QED
        BY <4>1, <4>2 DEF Thread
    <3>2. thread' = [thread EXCEPT ![t] = s]
      BY <2>9 DEF StartCall
    <3>3. usable' \in [Threads -> SUBSET Clients]
      BY <2>9 DEF StartCall, Good, TypeOK
    <3>4. QED
      BY <2>9, <3>1, <3>2, <3>3, ThreadType DEF StartCall, TypeOK, config
  <2>10. ASSUME NEW t \in Threads, ChoosePrimary(t)
         PROVE  TypeOK'
    BY <2>10, GotoType DEF ChoosePrimary, TypeOK, Pcs, CallPcs, config
  <2>11. ASSUME NEW t \in Threads, CallPrimary(t) \/ CallFallback(t)
         PROVE  TypeOK'
    BY <2>11, CallClientType DEF CallPrimary, CallFallback, Clients
  <2>12. ASSUME NEW t \in Threads, DropPrimary(t)
         PROVE  TypeOK'
    <3>1. "begin" \in Pcs
      BY DEF Pcs, CallPcs
    <3>2. [ready EXCEPT !["primary"] = FALSE] \in [Clients -> BOOLEAN]
      BY DEF TypeOK
    <3>3. QED
      BY <2>12, <3>1, <3>2, GotoType, SetFlagsType DEF DropPrimary, TypeOK, config
  <2>13. ASSUME NEW t \in Threads, ChooseFallback(t)
         PROVE  TypeOK'
    <3>1. "fallback" \in Pcs
      BY DEF Pcs, CallPcs
    <3>2. CASE Continue(t, "fallback")
      BY <2>13, <3>1, <3>2, GotoType DEF ChooseFallback, Continue, TypeOK, config
    <3>3. CASE EndCall(t, Nobody, "unready")
      BY <2>13, <3>3, EndCallType DEF ChooseFallback, TypeOK, config
    <3>4. QED
      BY <2>13, <3>2, <3>3 DEF ChooseFallback
  <2>14. ASSUME NEW t \in Threads, DropFallback(t)
         PROVE  TypeOK'
    <3>1. [ready EXCEPT !["fallback"] = FALSE] \in [Clients -> BOOLEAN]
      BY DEF TypeOK
    <3> DEFINE s == [thread[t] EXCEPT !.pc = "work", !.by = Nobody,
                                      !.out = "failed"]
    <3>2. s \in Thread
      <4>1. thread[t] \in Thread
        BY DEF TypeOK
      <4>2. "work" \in Pcs
        BY DEF Pcs
      <4>3. QED
        BY <4>1, <4>2 DEF Thread
    <3>3. thread' = [thread EXCEPT ![t] = s]
      BY <2>14 DEF DropFallback
    <3>4. QED
      BY <2>14, <3>1, <3>2, <3>3, ThreadType, SetFlagsType
         DEF DropFallback, TypeOK, config
  <2>15. ASSUME NEW t \in Threads, EndPass(t) \/ Wake(t)
         PROVE  TypeOK'
    <3> DEFINE sleeping == [thread[t] EXCEPT !.pc = "sleep", !.by = Nobody, !.out = "none"]
    <3> DEFINE waking == [thread[t] EXCEPT !.pc = "lock", !.out = "none"]
    <3>1. sleeping \in Thread /\ waking \in Thread
      <4>1. thread[t] \in Thread
        BY DEF TypeOK
      <4>2. {"sleep", "lock"} \subseteq Pcs
        BY DEF Pcs
      <4>3. QED
        BY <4>1, <4>2 DEF Thread
    <3>2. CASE EndPass(t)
      <4>1. thread' = [thread EXCEPT ![t] = sleeping]
        BY <3>2 DEF EndPass
      <4>2. usable' \in [Threads -> SUBSET Clients]
        BY <3>2 DEF EndPass, TypeOK
      <4>3. QED
        BY <3>1, <3>2, <4>1, <4>2, ThreadType DEF EndPass, TypeOK, config
    <3>3. CASE Wake(t)
      <4>1. thread' = [thread EXCEPT ![t] = waking]
        BY <3>3 DEF Wake
      <4>2. QED
        BY <3>1, <3>3, <4>1, ThreadType DEF Wake, TypeOK, config
    <3>4. QED
      BY <2>15, <3>2, <3>3
  <2>16. CASE ChangeHealth
    BY <2>16, HealthAssumption
       DEF ChangeHealth, TypeOK, config, Conditions
  <2>17. CASE UNCHANGED vars
    BY <2>17 DEF vars, TypeOK, config
  <2>18. QED
    BY <2>1, <2>2, <2>3, <2>4, <2>5, <2>6, <2>7, <2>8, <2>9, <2>10, <2>11,
       <2>12, <2>13, <2>14, <2>15, <2>16, <2>17
       DEF Next, ThreadStep, WaitStep, CallStep
<1>3. QED
  BY <1>1, <1>2, PTL DEF Spec

-----------------------------------------------------------------------------
(* The inductive invariant, in four parts, for each loop *)

CallingPcs == {"work"} \cup CallPcs

\* Only the loop that holds the mutex is inside a wait.
MutexInvOf(t) == thread[t].pc \in WaitPcs => lock = t

\* What the loop inside the wait has seen so far is what the flags say, except
\* that a call may have lowered a flag since.
SeenInvOf(t) ==
    /\ thread[t].pc = "flag2" /\ thread[t].seen["fallback"] = "synced" => enabled
    /\ thread[t].pc \in {"probe2", "flag2"} /\ kind = "EC" /\ ready["primary"]
            => thread[t].seen["primary"] = "synced"
    /\ thread[t].pc = "decide" =>
            \A c \in Clients : ready[c] => thread[t].seen[c] = "synced"

\* Once a loop has made its check, the flag of the fallback is up only if the
\* fallback may be used, and it stays that way.
ChainInvOf(t) ==
    /\ thread[t].pc \in {"decide", "poll"} \cup CallingPcs /\ ready["fallback"]
            => enabled /\ rightChain
    /\ thread[t].pc \in {"fallback", "drop2"} => enabled /\ rightChain
    /\ thread[t].by = "fallback" => enabled /\ rightChain

\* What a call has tried is not, or no longer, in sync with its flag up.
UsableInvOf(t) ==
    /\ \A c \in usable[t] : ready[c] /\ health[c] = "synced"
    /\ thread[t].pc \in {"drop", "second", "fallback", "drop2"}
            => "primary" \notin usable[t]
    /\ thread[t].pc = "drop2" => "fallback" \notin usable[t]
    /\ thread[t].pc = "work" /\ thread[t].out \in NoClient => usable[t] = {}

InvOf(t) == MutexInvOf(t) /\ SeenInvOf(t) /\ ChainInvOf(t) /\ UsableInvOf(t)

IInv ==
    /\ kind = "BC" => rightChain
    /\ \A t \in Threads : InvOf(t)

-----------------------------------------------------------------------------
(* What a step of one loop means to the others *)

\* The loop t leaves the others where they are, raises a flag only while it
\* holds the mutex, and that of the fallback only if it may be used.
Considerate(t) ==
    /\ UNCHANGED config
    /\ lock' = lock \/ lock \in {t, NoThread}
    /\ lock # t => \A c \in Clients : ready'[c] => ready[c]
    /\ ready'["fallback"] => ready["fallback"] \/ (enabled /\ rightChain)
    /\ \A u \in Threads \ {t} :
        /\ thread'[u] = thread[u]
        /\ \A c \in usable'[u] : c \in usable[u] /\ ready'[c] /\ health'[c] = "synced"

LEMMA OthersKeep ==
    ASSUME TypeOK, IInv, NEW t \in Threads, Considerate(t)
    PROVE  \A u \in Threads \ {t} : InvOf(u)'
<1> SUFFICES ASSUME NEW u \in Threads \ {t}
             PROVE  InvOf(u)'
  OBVIOUS
<1>1. /\ thread'[u] = thread[u]
      /\ \A c \in usable'[u] : c \in usable[u] /\ ready'[c] /\ health'[c] = "synced"
      /\ InvOf(u)
  BY DEF Considerate, IInv
<1>2. MutexInvOf(u)'
  BY <1>1, ClientAssumption DEF Considerate, InvOf, MutexInvOf
<1>3. thread[u].pc \in WaitPcs => \A c \in Clients : ready'[c] => ready[c]
  BY <1>1 DEF Considerate, InvOf, MutexInvOf
<1>4. SeenInvOf(u)'
  BY <1>1, <1>3 DEF Considerate, config, InvOf, SeenInvOf, WaitPcs, Clients
<1>5. ChainInvOf(u)'
  BY <1>1 DEF Considerate, config, InvOf, ChainInvOf
<1>6. UsableInvOf(u)'
  BY <1>1 DEF InvOf, UsableInvOf
<1>7. QED
  BY <1>2, <1>4, <1>5, <1>6 DEF InvOf

LEMMA StepKeeps ==
    ASSUME TypeOK, IInv, NEW t \in Threads, Considerate(t), InvOf(t)'
    PROVE  IInv'
<1>1. \A u \in Threads : InvOf(u)'
  BY OthersKeep
<1>2. UNCHANGED config
  BY DEF Considerate
<1>3. QED
  BY <1>1, <1>2 DEF IInv, config

\* A step that moves no flag and concerns the one loop is considerate.
LEMMA LocalStep ==
    ASSUME TypeOK, IInv, NEW t \in Threads, NEW s,
           UNCHANGED <<config, health, ready>>,
           lock' = lock \/ lock \in {t, NoThread},
           thread' = [thread EXCEPT ![t] = s],
           \A u \in Threads \ {t} : usable'[u] = usable[u]
    PROVE  thread'[t] = s /\ Considerate(t)
<1>1. /\ thread'[t] = s
      /\ \A u \in Threads \ {t} : thread'[u] = thread[u]
  BY DEF TypeOK
<1>2. \A u \in Threads \ {t} : \A c \in usable'[u] :
        c \in usable[u] /\ ready'[c] /\ health'[c] = "synced"
  BY DEF IInv, InvOf, UsableInvOf
<1>3. QED
  BY <1>1, <1>2 DEF Considerate

\* So is one that sets the flags, if it may.
LEMMA FlagStep ==
    ASSUME TypeOK, IInv, NEW t \in Threads, NEW s,
           NEW flags \in [Clients -> BOOLEAN], SetFlags(flags),
           UNCHANGED <<config, health, lock>>,
           lock # t => \A c \in Clients : flags[c] => ready[c],
           flags["fallback"] => ready["fallback"] \/ (enabled /\ rightChain),
           thread' = [thread EXCEPT ![t] = s]
    PROVE  /\ thread'[t] = s
           /\ ready' = flags
           /\ usable'[t] = {c \in usable[t] : flags[c]}
           /\ Considerate(t)
<1>1. /\ thread'[t] = s
      /\ \A u \in Threads \ {t} : thread'[u] = thread[u]
  BY DEF TypeOK
<1>2. ready' = flags /\ \A u \in Threads : usable'[u] = {c \in usable[u] : flags[c]}
  BY DEF SetFlags
<1>3. \A u \in Threads \ {t} : \A c \in usable'[u] :
        c \in usable[u] /\ ready'[c] /\ health'[c] = "synced"
  BY <1>2 DEF IInv, InvOf, UsableInvOf
<1>4. QED
  BY <1>1, <1>2, <1>3 DEF Considerate

-----------------------------------------------------------------------------
(* The steps of the wait *)

LEMMA LockKeeps ==
    ASSUME TypeOK, IInv, NEW t \in Threads, Lock(t)
    PROVE  IInv'
<1> DEFINE s == [thread[t] EXCEPT !.pc = "probe"]
<1>1. thread' = [thread EXCEPT ![t] = s] /\ UNCHANGED <<config, health, ready, usable>>
  BY DEF Lock
<1>2. thread'[t] = s /\ Considerate(t)
  BY <1>1, LocalStep DEF Lock
<1>3. /\ s.pc = "probe" /\ s.by = thread[t].by
      /\ InvOf(t)
  BY DEF TypeOK, Thread, IInv
<1>4. InvOf(t)'
  BY <1>1, <1>2, <1>3
     DEF Lock, config, CallingPcs, CallPcs, InvOf, MutexInvOf, SeenInvOf, ChainInvOf,
         UsableInvOf
<1>5. QED
  BY <1>2, <1>4, StepKeeps

LEMMA ProbePrimaryKeeps ==
    ASSUME TypeOK, IInv, NEW t \in Threads, ProbePrimary(t)
    PROVE  IInv'
<1> DEFINE s == [thread[t] EXCEPT !.seen["primary"] = health["primary"],
                                  !.pc = IF kind = "EC" THEN "flag" ELSE "probe2"]
<1>1. thread' = [thread EXCEPT ![t] = s]
      /\ UNCHANGED <<config, health, ready, lock, usable>>
  BY DEF ProbePrimary
<1>2. thread'[t] = s /\ Considerate(t)
  BY <1>1, LocalStep
<1>3. /\ s.pc = "flag" \/ (s.pc = "probe2" /\ kind # "EC")
      /\ s.by = thread[t].by
      /\ InvOf(t) /\ thread[t].pc = "probe"
  BY DEF TypeOK, Thread, IInv, ProbePrimary
<1>4. InvOf(t)'
  BY <1>1, <1>2, <1>3
     DEF config, WaitPcs, CallingPcs, CallPcs, InvOf, MutexInvOf, SeenInvOf, ChainInvOf,
         UsableInvOf
<1>5. QED
  BY <1>2, <1>4, StepKeeps

LEMMA FlagPrimaryKeeps ==
    ASSUME TypeOK, IInv, NEW t \in Threads, FlagPrimary(t)
    PROVE  IInv'
<1> DEFINE s == [thread[t] EXCEPT !.pc = "probe2"]
           flags == [ready EXCEPT !["primary"] = thread[t].seen["primary"] = "synced"]
<1>1. /\ flags \in [Clients -> BOOLEAN]
      /\ flags["primary"] = (thread[t].seen["primary"] = "synced")
      /\ flags["fallback"] = ready["fallback"]
  BY DEF TypeOK, Clients
<1>2. InvOf(t) /\ thread[t].pc = "flag" /\ lock = t
  BY DEF IInv, InvOf, MutexInvOf, FlagPrimary, WaitPcs
<1>3. /\ SetFlags(flags) /\ UNCHANGED <<config, health, lock>>
      /\ thread' = [thread EXCEPT ![t] = s]
  BY DEF FlagPrimary, Goto
<1>4. s.pc = "probe2" /\ s.by = thread[t].by /\ s.seen = thread[t].seen
  BY DEF TypeOK, Thread
<1> HIDE DEF flags, s
<1>5. /\ thread'[t] = s /\ ready' = flags
      /\ usable'[t] = {c \in usable[t] : flags[c]}
      /\ Considerate(t)
  BY <1>1, <1>2, <1>3, FlagStep
<1>6. MutexInvOf(t)' /\ SeenInvOf(t)' /\ ChainInvOf(t)'
  BY <1>1, <1>2, <1>3, <1>4, <1>5
     DEF config, CallingPcs, CallPcs, InvOf, MutexInvOf, SeenInvOf, ChainInvOf
<1>7. UsableInvOf(t)'
  BY <1>2, <1>3, <1>4, <1>5 DEF InvOf, UsableInvOf
<1>8. QED
  BY <1>5, <1>6, <1>7, StepKeeps DEF InvOf

LEMMA ProbeFallbackKeeps ==
    ASSUME TypeOK, IInv, NEW t \in Threads, ProbeFallback(t)
    PROVE  IInv'
<1> DEFINE s == [thread[t] EXCEPT
                    !.seen["fallback"] = IF enabled THEN health["fallback"] ELSE Nobody,
                    !.pc = "flag2"]
<1>1. thread' = [thread EXCEPT ![t] = s]
      /\ UNCHANGED <<config, health, ready, lock, usable>>
  BY DEF ProbeFallback
<1>2. thread'[t] = s /\ Considerate(t)
  BY <1>1, LocalStep
<1>3. /\ s.pc = "flag2" /\ s.by = thread[t].by
      /\ s.seen["primary"] = thread[t].seen["primary"]
      /\ s.seen["fallback"] = "synced" => enabled
      /\ InvOf(t) /\ thread[t].pc = "probe2"
  BY DEF TypeOK, Thread, Clients, Nobody, IInv, ProbeFallback
<1>4. InvOf(t)'
  BY <1>1, <1>2, <1>3
     DEF config, WaitPcs, CallingPcs, CallPcs, InvOf, MutexInvOf, SeenInvOf, ChainInvOf,
         UsableInvOf
<1>5. QED
  BY <1>2, <1>4, StepKeeps

LEMMA FlagClientsKeeps ==
    ASSUME TypeOK, IInv, NEW t \in Threads, FlagClients(t)
    PROVE  IInv'
<1> DEFINE s == [thread[t] EXCEPT !.pc = "decide"]
           flags == [c \in Clients |->
                        CASE c = "fallback" -> FallbackReady(t)
                          [] c = "primary" -> IF kind = "BC"
                                              THEN thread[t].seen[c] = "synced"
                                              ELSE ready[c]]
<1>1. InvOf(t) /\ thread[t].pc = "flag2" /\ lock = t
  BY DEF IInv, InvOf, MutexInvOf, FlagClients, WaitPcs
<1>2. flags \in [Clients -> BOOLEAN]
  <2>1. \A c \in Clients : flags[c] \in BOOLEAN
    BY DEF FallbackReady, TypeOK, Clients
  <2>2. QED
    BY <2>1
<1>3. flags["fallback"] => /\ enabled /\ rightChain
                           /\ thread[t].seen["fallback"] = "synced"
  <2>1. flags["fallback"] = FallbackReady(t)
    BY DEF Clients
  <2>2. kind \in {"EC", "BC"}
    BY ClientAssumption DEF TypeOK
  <2>3. QED
    BY <1>1, <2>1, <2>2 DEF FallbackReady, InvOf, SeenInvOf, IInv
<1>4. flags["primary"] => thread[t].seen["primary"] = "synced"
  <2>1. flags["primary"] = IF kind = "BC" THEN thread[t].seen["primary"] = "synced"
                                          ELSE ready["primary"]
    BY DEF Clients
  <2>2. kind \in {"EC", "BC"}
    BY ClientAssumption DEF TypeOK
  <2>3. QED
    BY <1>1, <2>1, <2>2 DEF InvOf, SeenInvOf
<1>5. /\ SetFlags(flags) /\ UNCHANGED <<config, health, lock>>
      /\ thread' = [thread EXCEPT ![t] = s]
  BY DEF FlagClients, Goto
<1> HIDE DEF flags
<1>6. /\ thread'[t] = s /\ ready' = flags
      /\ usable'[t] = {c \in usable[t] : flags[c]}
      /\ Considerate(t)
  BY <1>1, <1>2, <1>3, <1>5, FlagStep
<1>7. s.pc = "decide" /\ s.by = thread[t].by /\ s.seen = thread[t].seen
  BY DEF TypeOK, Thread
<1>8. MutexInvOf(t)' /\ SeenInvOf(t)' /\ ChainInvOf(t)'
  BY <1>1, <1>3, <1>4, <1>5, <1>6, <1>7
     DEF config, Clients, InvOf, MutexInvOf, SeenInvOf, ChainInvOf
<1>9. UsableInvOf(t)'
  BY <1>1, <1>5, <1>6, <1>7 DEF InvOf, UsableInvOf
<1>10. QED
  BY <1>6, <1>8, <1>9, StepKeeps DEF InvOf

LEMMA ReturnKeeps ==
    ASSUME TypeOK, IInv, NEW t \in Threads, thread[t].pc \in {"decide", "poll"},
           NEW out \in {"ok", "unready", "unsynced"}, Return(t, out),
           UNCHANGED <<config, health, ready, usable>>
    PROVE  IInv'
<1> DEFINE s == [thread[t] EXCEPT !.pc = IF out = "ok" THEN "work" ELSE "sleep",
                                  !.out = out, !.seen = Unseen, !.target = Nobody]
<1>1. thread' = [thread EXCEPT ![t] = s] /\ lock' = NoThread
  BY DEF Return
<1>2. /\ s.by = thread[t].by /\ s.out = out
      /\ s.pc = IF out = "ok" THEN "work" ELSE "sleep"
      /\ InvOf(t)
  BY DEF TypeOK, Thread, IInv
<1> HIDE DEF s
<1>3. thread'[t] = s /\ Considerate(t)
  <2>1. lock = t
    BY <1>2 DEF InvOf, MutexInvOf, WaitPcs
  <2>2. QED
    BY <1>1, <2>1, LocalStep
<1>4. InvOf(t)'
  BY <1>2, <1>3
     DEF config, WaitPcs, CallingPcs, CallPcs, NoClient, InvOf, MutexInvOf, SeenInvOf,
         ChainInvOf, UsableInvOf
<1>5. QED
  BY <1>3, <1>4, StepKeeps

\* The wait goes on: it polls a client, or checks them once more.
LEMMA GoOnKeeps ==
    ASSUME TypeOK, IInv, NEW t \in Threads, AwaitClient(t) \/ Refresh(t)
    PROVE  IInv'
<1>1. PICK pc \in {"poll", "probe"}, c \in Clients \cup {Nobody} :
        /\ thread' = [thread EXCEPT ![t] = [thread[t] EXCEPT !.pc = pc, !.target = c]]
        /\ pc = "poll" => thread[t].pc = "decide"
        /\ thread[t].pc \in WaitPcs
  <2>1. "primary" \in Clients \cup {Nobody} /\ "fallback" \in Clients \cup {Nobody}
    BY DEF Clients
  <2>2. QED
    BY <2>1 DEF AwaitClient, Refresh, WaitPcs
<1> DEFINE s == [thread[t] EXCEPT !.pc = pc, !.target = c]
<1>2. UNCHANGED <<config, health, ready, lock, usable>>
  BY DEF AwaitClient, Refresh
<1>3. thread'[t] = s /\ Considerate(t)
  BY <1>1, <1>2, LocalStep
<1>4. s.pc = pc /\ s.by = thread[t].by /\ InvOf(t)
  BY DEF TypeOK, Thread, IInv
<1>5. InvOf(t)'
  BY <1>1, <1>2, <1>3, <1>4
     DEF config, CallingPcs, CallPcs, InvOf, MutexInvOf, SeenInvOf, ChainInvOf,
         UsableInvOf
<1>6. QED
  BY <1>3, <1>5, StepKeeps

LEMMA WaitStepKeeps ==
    ASSUME TypeOK, IInv, NEW t \in Threads, WaitStep(t)
    PROVE  IInv'
<1>1. CASE ReturnReady(t) \/ FailWait(t) \/ PollClient(t) \/ PollManager(t)
  BY <1>1, ReturnKeeps DEF ReturnReady, FailWait, PollClient, PollManager
<1>2. QED
  BY <1>1, LockKeeps, ProbePrimaryKeeps, FlagPrimaryKeeps, ProbeFallbackKeeps,
     FlagClientsKeeps, GoOnKeeps DEF WaitStep

-----------------------------------------------------------------------------
(* The steps of a call *)

LEMMA StartCallKeeps ==
    ASSUME TypeOK, IInv, NEW t \in Threads, StartCall(t)
    PROVE  IInv'
<1> DEFINE s == [thread[t] EXCEPT !.pc = "begin", !.by = Nobody, !.out = "none"]
<1>1. /\ thread' = [thread EXCEPT ![t] = s]
      /\ UNCHANGED <<config, health, ready, lock>>
  BY DEF StartCall
<1>2. /\ usable'[t] = {c \in Good : ready[c]}
      /\ \A u \in Threads \ {t} : usable'[u] = usable[u]
  BY DEF StartCall, TypeOK
<1>3. thread'[t] = s /\ Considerate(t)
  BY <1>1, <1>2, LocalStep
<1>4. s.pc = "begin" /\ s.by = Nobody /\ thread[t].pc = "work" /\ InvOf(t)
  BY DEF TypeOK, Thread, IInv, StartCall
<1>5. MutexInvOf(t)' /\ SeenInvOf(t)' /\ ChainInvOf(t)'
  BY <1>1, <1>3, <1>4
     DEF config, WaitPcs, CallingPcs, Nobody, InvOf, MutexInvOf, SeenInvOf, ChainInvOf
<1>6. UsableInvOf(t)'
  BY <1>1, <1>2, <1>3, <1>4 DEF Good, UsableInvOf
<1>7. QED
  BY <1>3, <1>5, <1>6, StepKeeps DEF InvOf

\* A step of a call that goes on to pc.
LEMMA ContinueKeeps ==
    ASSUME TypeOK, IInv, NEW t \in Threads, thread[t].pc \in CallPcs,
           NEW pc \in CallPcs, Continue(t, pc), UNCHANGED <<config, health, ready, lock>>,
           pc \in {"drop", "second", "fallback", "drop2"} => "primary" \notin usable[t],
           pc = "drop2" => "fallback" \notin usable[t],
           pc = "fallback" => ready["fallback"],
           pc = "drop2" => thread[t].pc = "fallback"
    PROVE  IInv'
<1> DEFINE s == [thread[t] EXCEPT !.pc = pc]
<1>1. thread' = [thread EXCEPT ![t] = s] /\ UNCHANGED usable
  BY DEF Continue, Goto
<1>2. thread'[t] = s /\ Considerate(t)
  BY <1>1, LocalStep
<1>3. s.pc = pc /\ s.by = thread[t].by /\ InvOf(t)
  BY DEF TypeOK, Thread, IInv
<1>4. MutexInvOf(t)' /\ SeenInvOf(t)'
  BY <1>2, <1>3 DEF CallPcs, WaitPcs, MutexInvOf, SeenInvOf
<1>5. ChainInvOf(t)'
  BY <1>1, <1>2, <1>3 DEF config, CallingPcs, CallPcs, InvOf, ChainInvOf
<1>6. UsableInvOf(t)'
  BY <1>1, <1>2, <1>3 DEF CallPcs, InvOf, UsableInvOf
<1>7. QED
  BY <1>2, <1>4, <1>5, <1>6, StepKeeps DEF InvOf

\* A step that ends a call: nobody could have answered it, if nobody did.
LEMMA EndCallKeeps ==
    ASSUME TypeOK, IInv, NEW t \in Threads, thread[t].pc \in CallPcs,
           NEW by \in Clients \cup {Nobody}, NEW out \in {"ok", "error", "unready"},
           EndCall(t, by, out), UNCHANGED <<config, health, ready, lock>>,
           by = "fallback" => enabled /\ rightChain,
           out = "unready" => usable[t] = {}
    PROVE  IInv'
<1> DEFINE s == [thread[t] EXCEPT !.pc = "work", !.by = by, !.out = out]
<1>1. thread' = [thread EXCEPT ![t] = s]
  BY DEF EndCall
<1>2. /\ usable'[t] = {}
      /\ \A u \in Threads \ {t} : usable'[u] = usable[u]
  BY DEF EndCall, TypeOK, NoClient
<1>3. thread'[t] = s /\ Considerate(t)
  BY <1>1, <1>2, LocalStep
<1>4. s.pc = "work" /\ s.by = by /\ InvOf(t)
  BY DEF TypeOK, Thread, IInv
<1>5. MutexInvOf(t)' /\ SeenInvOf(t)' /\ ChainInvOf(t)'
  BY <1>3, <1>4
     DEF config, WaitPcs, CallingPcs, CallPcs, InvOf, MutexInvOf, SeenInvOf, ChainInvOf
<1>6. UsableInvOf(t)'
  BY <1>2, <1>3, <1>4 DEF UsableInvOf
<1>7. QED
  BY <1>3, <1>5, <1>6, StepKeeps DEF InvOf

LEMMA ChooseKeeps ==
    ASSUME TypeOK, IInv, NEW t \in Threads, ChoosePrimary(t) \/ ChooseFallback(t)
    PROVE  IInv'
<1>1. UsableInvOf(t)
  BY DEF IInv, InvOf
<1>2. CASE ChoosePrimary(t)
  <2>1. CASE ready["primary"]
    <3>1. Continue(t, "primary") /\ thread[t].pc \in CallPcs /\ "primary" \in CallPcs
      BY <1>2, <2>1 DEF ChoosePrimary, Continue, CallPcs
    <3>2. QED
      BY <1>2, <3>1, ContinueKeeps DEF ChoosePrimary
  <2>2. CASE ~ready["primary"]
    <3>1. Continue(t, "second") /\ thread[t].pc \in CallPcs /\ "second" \in CallPcs
      BY <1>2, <2>2 DEF ChoosePrimary, Continue, CallPcs
    <3>2. "primary" \notin usable[t]
      BY <1>1, <2>2 DEF UsableInvOf
    <3>3. QED
      BY <1>2, <3>1, <3>2, ContinueKeeps DEF ChoosePrimary
  <2>3. QED
    BY <2>1, <2>2
<1>3. CASE ChooseFallback(t)
  <2>1. thread[t].pc \in CallPcs /\ "primary" \notin usable[t]
    BY <1>1, <1>3 DEF ChooseFallback, CallPcs, UsableInvOf
  <2>2. CASE ready["fallback"]
    <3>1. Continue(t, "fallback") /\ "fallback" \in CallPcs
      BY <1>3, <2>2 DEF ChooseFallback, CallPcs
    <3>2. QED
      BY <1>3, <2>1, <2>2, <3>1, ContinueKeeps DEF ChooseFallback
  <2>3. CASE ~ready["fallback"]
    <3>1. "fallback" \notin usable[t]
      BY <1>1, <2>3 DEF UsableInvOf
    <3>2. usable[t] = {}
      BY <2>1, <3>1 DEF TypeOK, Clients
    <3>3. QED
      BY <1>3, <2>1, <2>3, <3>2, EndCallKeeps DEF ChooseFallback, Nobody
  <2>4. QED
    BY <2>2, <2>3
<1>4. QED
  BY <1>2, <1>3

LEMMA CallKeeps ==
    ASSUME TypeOK, IInv, NEW t \in Threads, CallPrimary(t) \/ CallFallback(t)
    PROVE  IInv'
<1>1. UsableInvOf(t) /\ ChainInvOf(t) /\ thread[t].pc \in CallPcs
  BY DEF IInv, InvOf, CallPrimary, CallFallback, CallPcs
<1>2. PICK c \in Clients, drop \in {"drop", "drop2"} :
        /\ CallClient(t, c, drop)
        /\ c = "primary" => drop = "drop"
        /\ c = "fallback" => drop = "drop2" /\ thread[t].pc = "fallback"
  BY DEF CallPrimary, CallFallback, Clients
<1>3. UNCHANGED <<config, health, ready, lock>>
  BY <1>2 DEF CallClient
<1>4. CASE EndCall(t, c, "ok") \/ EndCall(t, c, "error")
  BY <1>1, <1>2, <1>3, <1>4, EndCallKeeps DEF ChainInvOf
<1>5. CASE health[c] = "down" /\ Continue(t, drop)
  <2>1. c \notin usable[t]
    BY <1>1, <1>5 DEF UsableInvOf
  <2>2. "primary" \notin usable[t] /\ drop \in CallPcs
    BY <1>1, <1>2, <2>1 DEF UsableInvOf, Clients, CallPcs
  <2>3. drop = "drop2" => "fallback" \notin usable[t] /\ thread[t].pc = "fallback"
    BY <1>2, <2>1 DEF Clients
  <2>4. drop # "fallback"
    OBVIOUS
  <2>5. QED
    BY <1>1, <1>3, <1>5, <2>2, <2>3, <2>4, ContinueKeeps
<1>6. QED
  BY <1>2, <1>4, <1>5 DEF CallClient

\* A call that could not connect lowers the flag of the client.
LEMMA DropKeeps ==
    ASSUME TypeOK, IInv, NEW t \in Threads, DropPrimary(t) \/ DropFallback(t)
    PROVE  IInv'
<1>1. InvOf(t)
  BY DEF IInv
<1>2. PICK down \in Clients, s \in {[thread[t] EXCEPT !.pc = "begin"],
                                   [thread[t] EXCEPT !.pc = "work", !.by = Nobody,
                                                     !.out = "failed"]} :
        /\ SetFlags([ready EXCEPT ![down] = FALSE])
        /\ thread' = [thread EXCEPT ![t] = s]
        /\ s.pc = "begin" \/ (s.pc = "work" /\ thread[t].pc = "drop2")
        /\ s.by \in {Nobody, thread[t].by}
        /\ thread[t].pc \in {"drop", "drop2"}
  <2>1. CASE DropPrimary(t)
    <3> DEFINE s == [thread[t] EXCEPT !.pc = "begin"]
    <3>1. s.pc = "begin" /\ s.by = thread[t].by
      BY DEF TypeOK, Thread
    <3>2. "primary" \in Clients
      BY DEF Clients
    <3>3. QED
      BY <2>1, <3>1, <3>2 DEF DropPrimary, Goto
  <2>2. CASE DropFallback(t)
    <3> DEFINE s == [thread[t] EXCEPT !.pc = "work", !.by = Nobody, !.out = "failed"]
    <3>1. s.pc = "work" /\ s.by = Nobody
      BY DEF TypeOK, Thread
    <3>2. "fallback" \in Clients
      BY DEF Clients
    <3>3. thread' = [thread EXCEPT ![t] = s]
      BY <2>2 DEF DropFallback
    <3>4. QED
      BY <2>2, <3>1, <3>2, <3>3 DEF DropFallback
  <2>3. QED
    BY <2>1, <2>2
<1> DEFINE flags == [ready EXCEPT ![down] = FALSE]
<1>3. /\ flags \in [Clients -> BOOLEAN]
      /\ \A c \in Clients : flags[c] => ready[c]
      /\ flags["fallback"] => ready["fallback"]
  BY DEF TypeOK, Clients
<1>4. UNCHANGED <<config, health, lock>> /\ SetFlags(flags)
  BY <1>2 DEF DropPrimary, DropFallback
<1> HIDE DEF flags
<1>5. /\ thread'[t] = s /\ ready' = flags
      /\ usable'[t] = {c \in usable[t] : flags[c]}
      /\ Considerate(t)
  <2>1. thread' = [thread EXCEPT ![t] = s]
    BY <1>2
  <2>2. flags["fallback"] => ready["fallback"] \/ (enabled /\ rightChain)
    BY <1>3
  <2>3. lock # t => \A c \in Clients : flags[c] => ready[c]
    BY <1>3
  <2>4. QED
    BY <1>3, <1>4, <2>1, <2>2, <2>3, FlagStep
<1>6. MutexInvOf(t)' /\ SeenInvOf(t)'
  BY <1>2, <1>5 DEF WaitPcs, MutexInvOf, SeenInvOf
<1>7. ChainInvOf(t)'
  BY <1>1, <1>2, <1>3, <1>4, <1>5
     DEF config, CallingPcs, CallPcs, Nobody, InvOf, ChainInvOf
<1>8. UsableInvOf(t)'
  <2>1. \A c \in usable'[t] : c \in usable[t] /\ ready'[c] /\ health'[c] = "synced"
    BY <1>1, <1>4, <1>5 DEF InvOf, UsableInvOf
  <2>2. s.pc = "work" => usable'[t] = {}
    BY <1>1, <1>2, <2>1 DEF TypeOK, Clients, InvOf, UsableInvOf
  <2>3. QED
    BY <1>2, <1>5, <2>1, <2>2 DEF UsableInvOf
<1>9. QED
  BY <1>5, <1>6, <1>7, <1>8, StepKeeps DEF InvOf

LEMMA PassKeeps ==
    ASSUME TypeOK, IInv, NEW t \in Threads, EndPass(t) \/ Wake(t)
    PROVE  IInv'
<1>1. PICK pc \in {"sleep", "lock"}, by \in {thread[t].by, Nobody} :
        thread' = [thread EXCEPT
                    ![t] = [thread[t] EXCEPT !.pc = pc, !.by = by, !.out = "none"]]
  <2>1. CASE EndPass(t)
    BY <2>1 DEF EndPass
  <2>2. CASE Wake(t)
    <3>1. [thread[t] EXCEPT !.pc = "lock", !.out = "none"]
            = [thread[t] EXCEPT !.pc = "lock", !.by = thread[t].by, !.out = "none"]
      BY DEF TypeOK, Thread
    <3>2. thread' = [thread EXCEPT ![t] = [thread[t] EXCEPT !.pc = "lock",
                                                            !.out = "none"]]
      BY <2>2 DEF Wake
    <3>3. QED
      BY <3>1, <3>2
  <2>3. QED
    BY <2>1, <2>2
<1> DEFINE s == [thread[t] EXCEPT !.pc = pc, !.by = by, !.out = "none"]
<1>2. /\ UNCHANGED <<config, health, ready, lock>>
      /\ usable'[t] \in {{}, usable[t]}
      /\ \A u \in Threads \ {t} : usable'[u] = usable[u]
  BY DEF EndPass, Wake, TypeOK
<1>3. s.pc = pc /\ s.by = by /\ InvOf(t)
  BY DEF TypeOK, Thread, IInv
<1> HIDE DEF s
<1>4. thread'[t] = s /\ Considerate(t)
  BY <1>1, <1>2, LocalStep DEF s
<1>5. MutexInvOf(t)' /\ SeenInvOf(t)' /\ ChainInvOf(t)'
  BY <1>2, <1>3, <1>4
     DEF config, WaitPcs, CallingPcs, CallPcs, Nobody, InvOf, MutexInvOf, SeenInvOf,
         ChainInvOf
<1>6. UsableInvOf(t)'
  BY <1>2, <1>3, <1>4 DEF InvOf, UsableInvOf
<1>7. QED
  BY <1>4, <1>5, <1>6, StepKeeps DEF InvOf

\* A client whose condition changes is no longer one that could have answered.
LEMMA ChangeHealthKeeps ==
    ASSUME TypeOK, IInv, ChangeHealth
    PROVE  IInv'
<1>1. PICK c \in Clients, h \in Conditions :
        /\ health' = [health EXCEPT ![c] = h]
        /\ usable' = [t \in Threads |-> usable[t] \ {c}]
  BY DEF ChangeHealth
<1>2. UNCHANGED <<config, ready, lock, thread>>
  BY DEF ChangeHealth
<1>3. ASSUME NEW t \in Threads
      PROVE  InvOf(t)'
  <2>1. InvOf(t) /\ usable'[t] = usable[t] \ {c}
    BY <1>1 DEF IInv
  <2>2. MutexInvOf(t)' /\ SeenInvOf(t)' /\ ChainInvOf(t)'
    BY <1>2, <2>1 DEF config, InvOf, MutexInvOf, SeenInvOf, ChainInvOf
  <2>3. UsableInvOf(t)'
    BY <1>1, <1>2, <2>1 DEF InvOf, UsableInvOf, TypeOK
  <2>4. QED
    BY <2>2, <2>3 DEF InvOf
<1>4. QED
  BY <1>2, <1>3 DEF IInv, config

-----------------------------------------------------------------------------
(* The theorems *)

LEMMA InitIInv ==
    ASSUME Init
    PROVE  IInv
<1>1. ASSUME NEW t \in Threads
      PROVE  InvOf(t)
  <2>1. thread[t].pc = "lock" /\ thread[t].by = Nobody /\ usable[t] = {}
    BY DEF Init
  <2>2. QED
    BY <2>1 DEF WaitPcs, CallingPcs, CallPcs, Nobody, InvOf, MutexInvOf, SeenInvOf,
                ChainInvOf, UsableInvOf
<1>2. kind = "BC" => rightChain
  BY DEF Init
<1>3. QED
  BY <1>1, <1>2 DEF IInv

LEMMA NextIInv ==
    ASSUME TypeOK, IInv, [Next]_vars
    PROVE  IInv'
<1>1. ASSUME NEW t \in Threads, CallStep(t)
      PROVE  IInv'
  BY <1>1, ChooseKeeps, CallKeeps, DropKeeps DEF CallStep
<1>2. ASSUME NEW t \in Threads, ThreadStep(t)
      PROVE  IInv'
  BY <1>1, <1>2, WaitStepKeeps, StartCallKeeps, PassKeeps DEF ThreadStep
<1>3. CASE UNCHANGED vars
  BY <1>3 DEF vars, config, IInv, InvOf, MutexInvOf, SeenInvOf, ChainInvOf, UsableInvOf
<1>4. QED
  BY <1>2, <1>3, ChangeHealthKeeps DEF Next

(* In every state of ClientManager the loop inside the wait holds the mutex,
   its answers agree with the flags, the flag of the fallback is up only for
   a fallback that may be used once a check was made, and what a call can
   still turn to is in sync with its flag up. *)
THEOREM Inductive == Spec => []IInv
<1>1. Init => IInv
  BY InitIInv
<1>2. TypeOK /\ IInv /\ [Next]_vars => IInv'
  BY NextIInv
<1>3. QED
  BY <1>1, <1>2, TypeCorrect, PTL DEF Spec

(* For any number of loops and whatever the clients do, a call is answered by
   the fallback only when one is configured and, for the Execution client, it
   is on the node's network (the flag that runFunction of the manager reads
   is up from the start, before any check has asked the fallback). *)
THEOREM RightChainAnswers == Spec => []AnsweredByRightChain
<1>1. IInv => AnsweredByRightChain
  BY DEF IInv, InvOf, ChainInvOf, AnsweredByRightChain
<1>2. QED
  BY <1>1, Inductive, PTL

(* checkExecutionClientStatus and checkBeaconClientStatus return without an
   error only if the very check they made found a client in sync, although
   calls of the other loops lower the flags they read without the mutex. *)
THEOREM WaitIsGrounded == Spec => []WaitSawSynced
<1>1. IInv => WaitSawSynced
  BY DEF IInv, InvOf, SeenInvOf, WaitSawSynced, SomeReady
<1>2. QED
  BY <1>1, Inductive, PTL

(* runFunction gives up for lack of a client only if no client was in sync
   with its flag up from the beginning of the call to its end. *)
THEOREM CallIsServed == Spec => []ServedIfReady
<1>1. IInv => ServedIfReady
  BY DEF IInv, InvOf, UsableInvOf, ServedIfReady
<1>2. QED
  BY <1>1, Inductive, PTL

-----------------------------------------------------------------------------
(* Types: what a run holds, parameter by parameter. *)

Type(p) ==
    CASE p = "network" -> Networks
      [] p \in {"ecMode", "ccMode"} -> Modes
      [] p \in {"client", "externalClient"} -> ConsensusClients
      [] p \in Switches -> OnOff
      [] p \in Texts -> Entered
      [] OTHER -> Tags

Fields == {"pc", "kind", "version", "cfg", "form", "edited", "typed", "shown",
           "upgraded", "stale", "excused", "loose"}

FormFields(pc) ==
    CASE pc = "wizard" -> WizardFields
      [] pc = "configuration" -> PageFields
      [] OTHER -> {}

\* A form has the settings of its run but for what was edited, and a tag that was
\* edited is not a default.
FormOK(r) ==
    /\ r.form = [p \in FormFields(r.pc) |-> r.form[p]]
    /\ r.edited \subseteq FormFields(r.pc)
    /\ \A p \in FormFields(r.pc) : r.form[p] \in Type(p)
    /\ \A p \in FormFields(r.pc) \ r.edited : r.form[p] = r.cfg[p]
    /\ \A p \in r.edited \cap Overwritten : r.form[p] \in {Typed, Blank}

RunOK(r) ==
    /\ r = [f \in Fields |-> r[f]]
    /\ r.cfg \in Settings /\ r.version \in 1..version
    /\ r.upgraded \in BOOLEAN /\ r.stale \in BOOLEAN
    /\ r.typed \subseteq Params /\ r.excused \subseteq Params /\ r.loose \subseteq Overwritten
    /\ r.typed \cap r.excused = {}
    /\ FormOK(r)

SettingsTypeInv ==
    /\ file \in File /\ upgrade \in BOOLEAN /\ version \in 1..MaxVersion
    /\ past \in [excused : SUBSET Params, loose : SUBSET Overwritten]
    /\ DOMAIN chosen \subseteq Params

-----------------------------------------------------------------------------
(* The choices of the operator. *)

\* A run that will save its settings.
Editing(r) == r.pc \in {"wizard", "configuration", "open", "write"}

\* The settings of a run that nobody has written over have the choices so far,
\* but for what the run itself was told, or took over without showing it, and the
\* tags that an upgrade overwrites.
ChoiceOf(r) ==
    Editing(r) =>
        /\ \A p \in r.typed \cap Overwritten : r.cfg[p] \in {Typed, Blank}
        /\ ~r.stale =>
              \A p \in DOMAIN chosen \ (past.excused \cup r.excused \cup r.typed) :
                  (r.upgraded /\ p \in Overwritten) \/ r.cfg[p] = chosen[p]

\* So does the file. A tag that was chosen is not blank.
FileChoices ==
    /\ \A p \in DOMAIN chosen \cap Overwritten : chosen[p] = Typed
    /\ file.state = "absent" => DOMAIN chosen = {}
    /\ file.state = "whole" =>
          /\ file.lost # {} => past.excused = Params
          /\ \A p \in DOMAIN chosen \ past.excused : file.cfg[p] = chosen[p]

-----------------------------------------------------------------------------
(* The defaults. *)

Current(cfg, v, p) == cfg[p] = <<cfg.network, v>>

\* The tags of a run of the installed version are current, where they are not
\* loose and the operator has not set them.
DefaultOf(r) ==
    Editing(r) /\ r.version = version =>
        /\ r.upgraded \/ ~upgrade
        /\ ~r.stale =>
              \A p \in Overwritten \ (r.loose \cup r.typed) :
                  (~r.upgraded /\ p \in DOMAIN chosen) \/ Current(r.cfg, r.version, p)

\* A run that has saved what it upgraded to the installed version.
HasUpgraded(r) ==
    r.upgraded /\ r.version = version /\ r.pc \in {"load", "compose", "flag"}

FileDefaults ==
    file.state = "whole" =>
        /\ file.lost # {} => past.loose = Overwritten
        /\ ~upgrade \/ (\E s \in Runs : HasUpgraded(run[s])) =>
              \A p \in Overwritten \ (past.loose \cup DOMAIN chosen) :
                  file.cfg[p] = Blank \/ Current(file.cfg, version, p)

-----------------------------------------------------------------------------
(* What was shown. *)

Matches(cfg, shown) ==
    \A field \in DOMAIN shown : GenerateEnvironmentVariables(cfg)[field] = shown[field]

ShownOf(r) ==
    r.kind = "config" =>
        /\ r.pc \in {"open", "write"} => Matches(r.cfg, r.shown)
        /\ /\ r.pc \in {"load", "compose"} /\ ~r.stale
           /\ file.state = "whole"
           => file.lost = {} /\ Matches(file.cfg, r.shown)

RunInv(r) == RunOK(r) /\ ChoiceOf(r) /\ DefaultOf(r) /\ ShownOf(r)

SettingsInv ==
    /\ SettingsTypeInv /\ FileChoices /\ FileDefaults
    /\ run = [s \in Runs |-> run[s]]
    /\ \A s \in Runs : RunInv(run[s])

-----------------------------------------------------------------------------
(* The settings by parameter. *)

LEMMA SettingsByParameter ==
    ASSUME NEW c
    PROVE  c \in Settings <=> /\ c = [p \in Params |-> c[p]]
                              /\ \A p \in Params : c[p] \in Type(p)
<1>1. c \in Settings <=>
        /\ c = [p \in Params |-> c[p]]
        /\ c["network"] \in Networks /\ c["ecMode"] \in Modes /\ c["ccMode"] \in Modes
        /\ c["client"] \in ConsensusClients /\ c["externalClient"] \in ConsensusClients
        /\ c["doppelganger"] \in OnOff /\ c["externalDoppelganger"] \in OnOff
        /\ c["nimbusDoppelganger"] \in OnOff /\ c["graffiti"] \in Entered
        /\ c["externalGraffiti"] \in Entered /\ c["tekuGraffiti"] \in Entered
        /\ c["fallback"] \in OnOff /\ c["normalUrl"] \in Entered
        /\ c["prysmUrl"] \in Entered /\ c["metrics"] \in OnOff
        /\ c["port"] \in Entered /\ c["tag"] \in Tags /\ c["vcTag"] \in Tags
  BY DEF Settings, Params, Switches, Texts, Fallbacks, Overwritten
<1> QED
  BY <1>1 DEF Type, Params, Switches, Texts, Fallbacks, Overwritten

LEMMA SettingType ==
    ASSUME NEW c \in Settings, NEW p \in Params
    PROVE  c[p] \in Type(p)
BY SettingsByParameter

LEMMA DefaultType ==
    ASSUME NEW network \in Networks, NEW v \in 1..MaxVersion
    PROVE  GetDefault(network, v) \in Settings
BY DEF GetDefault, Settings, Networks, Modes, ConsensusClients, OnOff, Entered, Tags

LEMMA DefaultNetwork ==
    ASSUME NEW network, NEW v
    PROVE  GetDefault(network, v).network = "mainnet"
BY DEF GetDefault

\* Two networks differ in the tags only.
LEMMA DefaultFacts ==
    ASSUME NEW network \in Networks, NEW v \in 1..MaxVersion
    PROVE  /\ \A p \in Overwritten : GetDefault(network, v)[p] = <<network, v>>
           /\ \A other \in Networks : \A p \in Params \ Overwritten :
                 GetDefault(network, v)[p] = GetDefault(other, v)[p]
<1>1. ASSUME NEW n
      PROVE  /\ GetDefault(n, v)["network"] = "mainnet"
             /\ GetDefault(n, v)["ecMode"] = "local" /\ GetDefault(n, v)["ccMode"] = "local"
             /\ GetDefault(n, v)["client"] = "nimbus"
             /\ GetDefault(n, v)["externalClient"] = "lighthouse"
             /\ GetDefault(n, v)["doppelganger"] = "on"
             /\ GetDefault(n, v)["externalDoppelganger"] = "on"
             /\ GetDefault(n, v)["nimbusDoppelganger"] = "on"
             /\ GetDefault(n, v)["graffiti"] = ""
             /\ GetDefault(n, v)["externalGraffiti"] = ""
             /\ GetDefault(n, v)["tekuGraffiti"] = ""
             /\ GetDefault(n, v)["fallback"] = "off"
             /\ GetDefault(n, v)["normalUrl"] = "" /\ GetDefault(n, v)["prysmUrl"] = ""
             /\ GetDefault(n, v)["metrics"] = "on" /\ GetDefault(n, v)["port"] = ""
             /\ GetDefault(n, v)["tag"] = <<n, v>> /\ GetDefault(n, v)["vcTag"] = <<n, v>>
  BY DEF GetDefault
<1>2. ASSUME NEW p \in Overwritten PROVE GetDefault(network, v)[p] = <<network, v>>
  <2> DEFINE tag == <<network, v>>
             d == GetDefault(network, v)
  <2>1. d["tag"] = tag /\ d["vcTag"] = tag
    BY <1>1
  <2> HIDE DEF tag, d
  <2>2. d[p] = tag
    BY <2>1 DEF Overwritten
  <2> QED
    BY <2>2 DEF tag, d
<1>3. ASSUME NEW other \in Networks, NEW p \in Params \ Overwritten
      PROVE  GetDefault(network, v)[p] = GetDefault(other, v)[p]
  <2> DEFINE c == GetDefault(network, v)
             d == GetDefault(other, v)
  <2>1. /\ c["network"] = d["network"] /\ c["ecMode"] = d["ecMode"]
        /\ c["ccMode"] = d["ccMode"] /\ c["client"] = d["client"]
        /\ c["externalClient"] = d["externalClient"]
        /\ c["doppelganger"] = d["doppelganger"]
        /\ c["externalDoppelganger"] = d["externalDoppelganger"]
        /\ c["nimbusDoppelganger"] = d["nimbusDoppelganger"]
        /\ c["graffiti"] = d["graffiti"]
        /\ c["externalGraffiti"] = d["externalGraffiti"]
        /\ c["tekuGraffiti"] = d["tekuGraffiti"]
        /\ c["fallback"] = d["fallback"] /\ c["normalUrl"] = d["normalUrl"]
        /\ c["prysmUrl"] = d["prysmUrl"] /\ c["metrics"] = d["metrics"]
        /\ c["port"] = d["port"]
    <3>1. /\ c["network"] = "mainnet"
          /\ c["ecMode"] = "local" /\ c["ccMode"] = "local"
          /\ c["client"] = "nimbus" /\ c["externalClient"] = "lighthouse"
          /\ c["doppelganger"] = "on" /\ c["externalDoppelganger"] = "on"
          /\ c["nimbusDoppelganger"] = "on" /\ c["graffiti"] = ""
          /\ c["externalGraffiti"] = "" /\ c["tekuGraffiti"] = ""
          /\ c["fallback"] = "off" /\ c["normalUrl"] = ""
          /\ c["prysmUrl"] = "" /\ c["metrics"] = "on" /\ c["port"] = ""
      BY <1>1
    <3>2. /\ d["network"] = "mainnet"
          /\ d["ecMode"] = "local" /\ d["ccMode"] = "local"
          /\ d["client"] = "nimbus" /\ d["externalClient"] = "lighthouse"
          /\ d["doppelganger"] = "on" /\ d["externalDoppelganger"] = "on"
          /\ d["nimbusDoppelganger"] = "on" /\ d["graffiti"] = ""
          /\ d["externalGraffiti"] = "" /\ d["tekuGraffiti"] = ""
          /\ d["fallback"] = "off" /\ d["normalUrl"] = ""
          /\ d["prysmUrl"] = "" /\ d["metrics"] = "on" /\ d["port"] = ""
      BY <1>1
    <3> HIDE DEF c, d
    <3> QED
      BY <3>1, <3>2
  <2> HIDE DEF c, d
  <2>2. c[p] = d[p]
    BY <2>1 DEF Overwritten, Params, Switches, Texts, Fallbacks
  <2> QED
    BY <2>2 DEF c, d
<1> QED
  BY <1>2, <1>3

LEMMA TagFacts ==
    /\ Typed \in Tags /\ Blank \in Tags /\ Typed # Blank
    /\ \A network \in Networks, v \in 1..MaxVersion :
          <<network, v>> \in Tags /\ <<network, v>> # Typed /\ <<network, v>> # Blank
BY DEF Tags, Typed, Blank, Networks

LEMMA ParameterFacts ==
    /\ Overwritten \subseteq Params /\ Fallbacks \subseteq Params /\ Copies \subseteq Params
    /\ Overwritten \cap Copies = {} /\ "network" \in Params \ Overwritten
    /\ WizardFields \subseteq Params \ Overwritten /\ PageFields \subseteq Params
    /\ \A p \in Overwritten : Type(p) = Tags
    /\ Type("network") = Networks
BY DEF Overwritten, Fallbacks, Texts, Switches, Copies, Params, WizardFields, PageFields, Type,
       setUIStaderNode, setUIExecutionClient, setUIConsensusClient,
       setUIFallbackClient, setUIMonitoring

LEMMA ValueType ==
    ASSUME NEW p \in Params
    PROVE  /\ Values(p) \subseteq Type(p)
           /\ p \in Overwritten => Values(p) = {Typed, Blank}
BY TagFacts DEF Values, Type, Params, Switches, Texts, Fallbacks, Overwritten
-----------------------------------------------------------------------------
(* What the code makes of the settings. *)

LEMMA NetworkOf ==
    ASSUME NEW c \in Settings
    PROVE  c.network \in Networks
BY DEF Settings

\* An upgrade makes all tags current, and nothing else.
LEMMA UpdateDefaultsFacts ==
    ASSUME NEW c \in Settings, NEW v \in 1..MaxVersion
    PROVE  /\ UpdateDefaults(c, v) \in Settings
           /\ UpdateDefaults(c, v).network = c.network
           /\ \A p \in Overwritten : UpdateDefaults(c, v)[p] = <<c.network, v>>
           /\ \A p \in Params \ Overwritten : UpdateDefaults(c, v)[p] = c[p]
<1> DEFINE g == GetDefault(c.network, v)
           d == UpdateDefaults(c, v)
           tag == <<c.network, v>>
<1>1. /\ g \in Settings /\ \A p \in Overwritten : g[p] = tag
  BY DefaultFacts, DefaultType, NetworkOf
<1>2. d = [p \in Params |-> IF p \in Overwritten THEN g[p] ELSE c[p]]
  BY DEF UpdateDefaults
<1> HIDE DEF g, d, tag
<1>3. \A p \in Params : d[p] = IF p \in Overwritten THEN g[p] ELSE c[p]
  BY <1>2
<1>4. \A p \in Params : d[p] \in Type(p)
  BY <1>1, <1>3, SettingType
<1>5. d = [p \in Params |-> d[p]]
  BY <1>2
<1>6. d \in Settings
  BY <1>4, <1>5, SettingsByParameter
<1>7. d["network"] = c["network"]
  BY <1>3, ParameterFacts
<1> QED
  BY <1>1, <1>3, <1>6, <1>7, ParameterFacts DEF d, tag

\* Another network moves the tags that were current, and nothing else.
LEMMA ChangeNetworkFacts ==
    ASSUME NEW c \in Settings, NEW network \in Networks, NEW v \in 1..MaxVersion
    PROVE  /\ \A p \in Params : ChangeNetwork(c, network, v)[p] \in Type(p)
           /\ \A p \in Params \ (Overwritten \cup {"network"}) :
                 ChangeNetwork(c, network, v)[p] = c[p]
           /\ \A p \in Overwritten :
                 /\ c[p] \in {Typed, Blank} => ChangeNetwork(c, network, v)[p] = c[p]
                 /\ c[p] = <<c.network, v>> => ChangeNetwork(c, network, v)[p] = <<network, v>>
           /\ network = c.network => ChangeNetwork(c, network, v) = c
<1> DEFINE g == GetDefault(c.network, v)
           h == GetDefault(network, v)
           m == [c EXCEPT !.network = network]
           d == ChangeNetwork(c, network, v)
           was == <<c.network, v>>
           is == <<network, v>>
<1>1. /\ g \in Settings /\ \A p \in Overwritten : g[p] = was
      /\ h \in Settings /\ \A p \in Overwritten : h[p] = is
      /\ \A p \in Params \ Overwritten : g[p] = h[p]
      /\ was \notin {Typed, Blank}
  BY DefaultFacts, DefaultType, NetworkOf, TagFacts
<1>2. d = IF network = c.network THEN c
          ELSE [p \in Params |-> IF m[p] = g[p] THEN h[p] ELSE m[p]]
  BY DEF ChangeNetwork, ChangeParameter
<1>3. m \in Settings /\ \A p \in Params \ {"network"} : m[p] = c[p]
  <2>0. DOMAIN c = Params /\ "network" \in Params
    BY SettingsByParameter, ParameterFacts
  <2>1. \A p \in Params \ {"network"} : m[p] = c[p]
    BY <2>0
  <2>2. m["network"] = network /\ m = [p \in Params |-> m[p]]
    BY <2>0
  <2>3. \A p \in Params : m[p] \in Type(p)
    BY <2>1, <2>2, SettingType, ParameterFacts
  <2> QED
    BY <2>1, <2>2, <2>3, SettingsByParameter
<1> HIDE DEF g, h, m, d, was, is
<1>4. CASE network = c.network
  BY <1>2, <1>4, SettingType DEF d, was, is
<1>5. CASE network # c.network
  <2>1. \A p \in Params : d[p] = IF m[p] = g[p] THEN h[p] ELSE m[p]
    BY <1>2, <1>5
  <2>2. \A p \in Params : d[p] \in Type(p)
    BY <1>1, <1>3, <2>1, SettingType
  <2>3. \A p \in Params \ (Overwritten \cup {"network"}) : d[p] = c[p]
    BY <1>1, <1>3, <2>1
  <2>4. \A p \in Overwritten :
          /\ c[p] \in {Typed, Blank} => d[p] = c[p]
          /\ c[p] = was => d[p] = is
    BY <1>1, <1>3, <2>1, ParameterFacts
  <2> QED
    BY <1>5, <2>2, <2>3, <2>4 DEF d, was, is
<1> QED
  BY <1>4, <1>5

\* A whole file is read as it was saved, but for blank tags.
LEMMA DeserializeFacts ==
    ASSUME NEW f \in File, NEW v \in 1..MaxVersion
    PROVE  /\ Deserialize(f, v) \in Settings
           /\ f.lost = {} =>
                 /\ \A p \in Params \ Overwritten : Deserialize(f, v)[p] = f.cfg[p]
                 /\ \A p \in Overwritten :
                       Deserialize(f, v)[p] = IF f.cfg[p] = Blank
                                              THEN <<f.cfg.network, v>> ELSE f.cfg[p]
<1> DEFINE n == IF Defaulted(f, "network") THEN "mainnet" ELSE f.cfg.network
           g == GetDefault(n, v)
           d == Deserialize(f, v)
<1>1. f.cfg \in Settings /\ n \in Networks
  BY NetworkOf DEF File, Networks
<1>2. d = [p \in Params |-> IF Defaulted(f, p) THEN g[p] ELSE f.cfg[p]]
  BY DEF Deserialize
<1>3. g \in Settings /\ \A p \in Overwritten : g[p] = <<n, v>>
  BY <1>1, DefaultFacts, DefaultType
<1> DEFINE c == f.cfg
<1> HIDE DEF d, g, n
<1>4. \A p \in Params : d[p] = IF Defaulted(f, p) THEN g[p] ELSE c[p]
  BY <1>2
<1>5. d \in Settings
  <2>1. \A p \in Params : d[p] \in Type(p)
    BY <1>1, <1>3, <1>4, SettingType
  <2>2. d = [p \in Params |-> d[p]]
    BY <1>2
  <2> QED
    BY <2>1, <2>2, SettingsByParameter
<1>6. ASSUME f.lost = {}
      PROVE  /\ \A p \in Params \ Overwritten : d[p] = c[p]
             /\ \A p \in Overwritten : d[p] = IF c[p] = Blank THEN <<c.network, v>> ELSE c[p]
  <2>1. \A p \in Params : Defaulted(f, p) <=> p \in Overwritten /\ c[p] = Blank
    BY <1>6 DEF Defaulted
  <2>2. n = c.network
    BY <2>1, ParameterFacts DEF n
  <2> QED
    BY <1>3, <1>4, <2>1, <2>2, ParameterFacts
<1> QED
  BY <1>5, <1>6 DEF d
-----------------------------------------------------------------------------
(* The forms. *)

\* A form with these fields.
FormOf(form, S) == form = [p \in S |-> form[p]] /\ \A p \in S : form[p] \in Type(p)

\* Settings d that took these fields over from a form: of the others only the
\* network's tags and the copies may differ from c.
TakenOver(c, d, form, fields, v) ==
    /\ d \in Settings /\ d["network"] = form["network"] /\ "network" \in fields
    /\ \A p \in fields : d[p] = form[p]
    /\ \A p \in Params \ (fields \cup Copies) : d[p] = ChangeNetwork(c, form["network"], v)[p]

LEMMA CopyTypes ==
    /\ Type("ecMode") = Modes /\ Type("ccMode") = Modes
    /\ Type("doppelganger") = OnOff /\ Type("externalDoppelganger") = OnOff
    /\ Type("normalUrl") = Entered /\ Type("prysmUrl") = Entered
    /\ Type("graffiti") = Entered /\ Type("tekuGraffiti") = Entered
    /\ Type("client") = ConsensusClients /\ Type("externalClient") = ConsensusClients
    /\ Type("fallback") = OnOff /\ Type("metrics") = OnOff
    /\ Copies = {"ecMode", "ccMode", "externalDoppelganger", "tekuGraffiti", "prysmUrl"}
BY DEF Type, Switches, Texts, Fallbacks, Copies

LEMMA WizardTakesFacts ==
    ASSUME NEW form, FormOf(form, WizardFields)
    PROVE  /\ WizardTakes(form) \subseteq WizardFields
           /\ {"network", "ccMode", "doppelganger", "graffiti", "fallback", "metrics"}
                 \subseteq WizardTakes(form)
           /\ form["ccMode"] = "local" => "client" \in WizardTakes(form)
           /\ form["ccMode"] = "external" => "externalClient" \in WizardTakes(form)
           /\ LET client == IF form["ccMode"] = "external" THEN "externalClient" ELSE "client"
              IN  /\ form[client] = "prysm" => "prysmUrl" \in WizardTakes(form)
                  /\ form[client] \in {"lighthouse", "teku"} => "normalUrl" \in WizardTakes(form)
BY DEF WizardTakes, WizardFallbacks, WizardFields, Modes

LEMMA WizardTakenOver ==
    ASSUME NEW c \in Settings, NEW form, NEW v \in 1..MaxVersion, FormOf(form, WizardFields)
    PROVE  /\ TakenOver(c, UpdateConfig(c, form, v), form, WizardTakes(form), v)
           /\ UpdateConfig(c, form, v)["ecMode"] = form["ccMode"]
           /\ form["ccMode"] = "external" =>
                 UpdateConfig(c, form, v)["externalDoppelganger"] = form["doppelganger"]
<1> DEFINE d == UpdateConfig(c, form, v)
           fields == WizardTakes(form)
           network == form["network"]
           m == ChangeNetwork(c, network, v)
<1>1. network \in Networks /\ "network" \in WizardFields
  BY ParameterFacts DEF FormOf, WizardFields
<1>2. \A p \in Params : m[p] \in Type(p)
  BY <1>1, ChangeNetworkFacts
<1>3. d = [p \in Params |->
            IF p \in fields THEN form[p]
            ELSE IF p = "ecMode" THEN form["ccMode"]
            ELSE IF p = "externalDoppelganger" /\ form["ccMode"] = "external"
            THEN form["doppelganger"]
            ELSE IF p = "tekuGraffiti" /\ form["ccMode"] = "external"
            THEN form["graffiti"]
            ELSE m[p]]
  BY DEF UpdateConfig
<1>4. /\ fields \subseteq WizardFields
      /\ {"network", "ccMode", "doppelganger", "graffiti", "fallback", "metrics"} \subseteq fields
      /\ {"ecMode", "externalDoppelganger", "tekuGraffiti"} \cap fields = {}
      /\ WizardFields \subseteq Params
      /\ {"ecMode", "externalDoppelganger", "tekuGraffiti"} \subseteq Params
  BY WizardTakesFacts, ParameterFacts DEF WizardFields, Params, Switches, Texts
<1> HIDE DEF d, fields, m, network
<1>5. \A p \in Params : d[p] =
            IF p \in fields THEN form[p]
            ELSE IF p = "ecMode" THEN form["ccMode"]
            ELSE IF p = "externalDoppelganger" /\ form["ccMode"] = "external"
            THEN form["doppelganger"]
            ELSE IF p = "tekuGraffiti" /\ form["ccMode"] = "external"
            THEN form["graffiti"]
            ELSE m[p]
  BY <1>3
<1>6. d \in Settings
  <2>1. /\ \A p \in WizardFields : form[p] \in Type(p)
        /\ form["ccMode"] \in Type("ecMode")
        /\ form["doppelganger"] \in Type("externalDoppelganger")
        /\ form["graffiti"] \in Type("tekuGraffiti")
    BY CopyTypes DEF FormOf, WizardFields
  <2>2. \A p \in Params : d[p] \in Type(p)
    BY <1>2, <1>4, <1>5, <2>1
  <2>3. d = [p \in Params |-> d[p]]
    BY <1>3
  <2> QED
    BY <2>2, <2>3, SettingsByParameter
<1>7. \A p \in fields : d[p] = form[p]
  BY <1>4, <1>5
<1>8. \A p \in Params \ (fields \cup Copies) : d[p] = m[p]
  BY <1>5, CopyTypes
<1>9. /\ d["ecMode"] = form["ccMode"]
      /\ form["ccMode"] = "external" => d["externalDoppelganger"] = form["doppelganger"]
  BY <1>4, <1>5
<1> QED
  BY <1>4, <1>6, <1>7, <1>8, <1>9 DEF TakenOver, d, fields, m, network

LEMMA PageTakesFacts ==
    ASSUME NEW form, FormOf(form, PageFields)
    PROVE  /\ PageTakes(form) \subseteq PageFields
           /\ {"network", "ecMode", "client", "externalClient", "doppelganger",
               "externalDoppelganger", "graffiti", "tag", "fallback", "metrics"}
                 \subseteq PageTakes(form)
           /\ form["fallback"] = "on" => "normalUrl" \in PageTakes(form)
           /\ form["metrics"] = "on" => "port" \in PageTakes(form)
BY DEF PageTakes, PageFields, setUIStaderNode, setUIExecutionClient,
       setUIConsensusClient, setUIFallbackClient, setUIMonitoring,
       updateExecutionClient, updateConsensusClient, updateFallbackClient,
       updateMonitoring

LEMMA PageTakenOver ==
    ASSUME NEW c \in Settings, NEW form, NEW v \in 1..MaxVersion, FormOf(form, PageFields)
    PROVE  /\ TakenOver(c, updateConfigFromUISetting(c, form, v), form, PageTakes(form), v)
           /\ updateConfigFromUISetting(c, form, v)["ccMode"] = form["ecMode"]
           /\ form["fallback"] = "on" =>
                 updateConfigFromUISetting(c, form, v)["prysmUrl"] = form["normalUrl"]
<1> DEFINE d == updateConfigFromUISetting(c, form, v)
           fields == PageTakes(form)
           network == form["network"]
           m == ChangeNetwork(c, network, v)
<1>1. network \in Networks /\ "network" \in PageFields
  BY ParameterFacts DEF FormOf, PageFields, setUIStaderNode
<1>2. \A p \in Params : m[p] \in Type(p)
  BY <1>1, ChangeNetworkFacts
<1>3. d = [p \in Params |->
            IF p \in fields THEN form[p]
            ELSE IF p = "ccMode" THEN form["ecMode"]
            ELSE IF p = "prysmUrl" /\ form["fallback"] = "on" THEN form["normalUrl"]
            ELSE m[p]]
  BY DEF updateConfigFromUISetting
<1>4. /\ fields \subseteq PageFields
      /\ {"network", "ecMode"} \subseteq fields
      /\ {"ccMode", "prysmUrl"} \cap PageFields = {}
      /\ {"ecMode", "normalUrl"} \subseteq PageFields
      /\ PageFields \subseteq Params
      /\ {"ccMode", "prysmUrl"} \subseteq Params
  BY PageTakesFacts, ParameterFacts
     DEF PageFields, Params, Switches, Texts, Fallbacks, setUIStaderNode, setUIExecutionClient,
         setUIConsensusClient, setUIFallbackClient, setUIMonitoring
<1> HIDE DEF d, fields, m, network
<1>5. \A p \in Params : d[p] =
            IF p \in fields THEN form[p]
            ELSE IF p = "ccMode" THEN form["ecMode"]
            ELSE IF p = "prysmUrl" /\ form["fallback"] = "on" THEN form["normalUrl"]
            ELSE m[p]
  BY <1>3
<1>6. d \in Settings
  <2>1. /\ \A p \in PageFields : form[p] \in Type(p)
        /\ form["ecMode"] \in Type("ccMode")
        /\ form["normalUrl"] \in Type("prysmUrl")
    BY <1>4, CopyTypes DEF FormOf
  <2>2. \A p \in Params : d[p] \in Type(p)
    BY <1>2, <1>4, <1>5, <2>1
  <2>3. d = [p \in Params |-> d[p]]
    BY <1>3
  <2> QED
    BY <2>2, <2>3, SettingsByParameter
<1>7. \A p \in fields : d[p] = form[p]
  BY <1>4, <1>5
<1>8. \A p \in Params \ (fields \cup Copies) : d[p] = m[p]
  BY <1>5, CopyTypes
<1>9. /\ d["ccMode"] = form["ecMode"]
      /\ form["fallback"] = "on" => d["prysmUrl"] = form["normalUrl"]
  BY <1>4, <1>5
<1> QED
  BY <1>4, <1>6, <1>7, <1>8, <1>9 DEF TakenOver, d, fields, m, network

-----------------------------------------------------------------------------
(* What a form showed is what the settings make of the containers. *)

LEMMA EnvironmentFacts ==
    ASSUME NEW c
    PROVE  LET e == GenerateEnvironmentVariables(c) IN
           /\ e["network"] = c["network"] /\ e["ec"] = c["ecMode"] /\ e["cc"] = c["ccMode"]
           /\ e["client"] = Selected(c)
           /\ e["doppelganger"] = IsDoppelgangerEnabled(c)
           /\ e["graffiti"] = c["graffiti"]
           /\ e["fallback"] = IF c["fallback"] = "off" THEN "none"
                              ELSE IF Selected(c) = "prysm" THEN c["prysmUrl"]
                              ELSE c["normalUrl"]
           /\ e["metrics"] = c["metrics"]
           /\ e["port"] = IF c["metrics"] = "off" THEN "none" ELSE c["port"]
BY DEF GenerateEnvironmentVariables

\* The container tags are not read.
LEMMA SameEnvironment ==
    ASSUME NEW c, NEW d, \A p \in Params \ Overwritten : c[p] = d[p]
    PROVE  GenerateEnvironmentVariables(c) = GenerateEnvironmentVariables(d)
<1>1. /\ c["network"] = d["network"] /\ c["ecMode"] = d["ecMode"]
      /\ c["ccMode"] = d["ccMode"] /\ c["client"] = d["client"]
      /\ c["externalClient"] = d["externalClient"]
      /\ c["doppelganger"] = d["doppelganger"]
      /\ c["externalDoppelganger"] = d["externalDoppelganger"]
      /\ c["nimbusDoppelganger"] = d["nimbusDoppelganger"]
      /\ c["graffiti"] = d["graffiti"]
      /\ c["fallback"] = d["fallback"] /\ c["normalUrl"] = d["normalUrl"]
      /\ c["prysmUrl"] = d["prysmUrl"] /\ c["metrics"] = d["metrics"]
      /\ c["port"] = d["port"]
  BY DEF Params, Switches, Texts, Fallbacks, Overwritten
<1>2. /\ Selected(c) = Selected(d)
      /\ IsDoppelgangerEnabled(c) = IsDoppelgangerEnabled(d)
  BY <1>1 DEF Selected, IsDoppelgangerEnabled
<1> QED
  BY <1>1, <1>2 DEF GenerateEnvironmentVariables

LEMMA WizardShows ==
    ASSUME NEW c \in Settings, NEW form, NEW v \in 1..MaxVersion, FormOf(form, WizardFields)
    PROVE  Matches(UpdateConfig(c, form, v), Shown(form))
<1> DEFINE d == UpdateConfig(c, form, v)
           fields == WizardTakes(form)
           e == GenerateEnvironmentVariables(d)
           mode == form["ccMode"]
           client == IF mode = "local" THEN form["client"] ELSE form["externalClient"]
           fallback == IF form["fallback"] = "off" THEN "none"
                       ELSE IF client = "prysm" THEN form["prysmUrl"] ELSE form["normalUrl"]
           env == [network |-> form["network"], ec |-> mode, cc |-> mode,
                   client |-> client, doppelganger |-> form["doppelganger"],
                   graffiti |-> form["graffiti"], fallback |-> fallback,
                   metrics |-> form["metrics"], port |-> "none"]
           unheeded == Unheeded(TRUE, mode, client, form["fallback"])
           shown == DOMAIN env \ unheeded
<1>1. /\ TakenOver(c, d, form, fields, v) /\ d["ecMode"] = mode
      /\ mode = "external" => d["externalDoppelganger"] = form["doppelganger"]
  BY WizardTakenOver
<1>2. Shown(form) = [field \in shown |-> env[field]]
  <2>1. "ccMode" \in DOMAIN form
    BY DEF FormOf, WizardFields
  <2> QED
    BY <2>1 DEF Shown
<1>3. /\ \A p \in fields : d[p] = form[p]
      /\ {"network", "ccMode", "doppelganger", "graffiti", "fallback", "metrics"} \subseteq fields
      /\ mode \in {"local", "external"}
      /\ form["client"] \in ConsensusClients /\ form["externalClient"] \in ConsensusClients
      /\ form["fallback"] \in {"on", "off"}
  <2>1. /\ form["ccMode"] \in Type("ccMode") /\ form["fallback"] \in Type("fallback")
        /\ form["client"] \in Type("client") /\ form["externalClient"] \in Type("externalClient")
    BY DEF FormOf, WizardFields
  <2>2. /\ mode \in {"local", "external"} /\ form["fallback"] \in {"on", "off"}
        /\ form["client"] \in ConsensusClients /\ form["externalClient"] \in ConsensusClients
    BY <2>1, CopyTypes DEF Modes, OnOff
  <2> QED
    BY <1>1, <2>2, WizardTakesFacts DEF TakenOver
<1>4. /\ d["network"] = form["network"] /\ d["ccMode"] = mode
      /\ d["doppelganger"] = form["doppelganger"] /\ d["graffiti"] = form["graffiti"]
      /\ d["fallback"] = form["fallback"] /\ d["metrics"] = form["metrics"]
  BY <1>3
<1>5. mode = "local" => d["client"] = form["client"]
  BY <1>3, WizardTakesFacts
<1>6. mode = "external" => d["externalClient"] = form["externalClient"]
  BY <1>3, WizardTakesFacts
<1>7. /\ client = "prysm" => d["prysmUrl"] = form["prysmUrl"]
      /\ client \in {"lighthouse", "teku"} => d["normalUrl"] = form["normalUrl"]
  <2>1. CASE mode = "local"
    BY <1>3, <2>1, WizardTakesFacts
  <2>2. CASE mode = "external"
    BY <1>3, <2>2, WizardTakesFacts
  <2> QED
    BY <1>3, <2>1, <2>2
<1>8. Selected(d) = client /\ client \in ConsensusClients
  BY <1>3, <1>4, <1>5, <1>6 DEF Selected
<1>9. "doppelganger" \notin unheeded => IsDoppelgangerEnabled(d) = form["doppelganger"]
  <2> SUFFICES ASSUME "doppelganger" \notin unheeded
               PROVE  IsDoppelgangerEnabled(d) = form["doppelganger"]
    OBVIOUS
  <2>1. client # "teku" /\ ~(client = "nimbus" /\ mode = "external")
    BY DEF Unheeded
  <2> HIDE DEF d, client, mode
  <2> QED
    BY <1>1, <1>3, <1>4, <1>8, <2>1 DEF IsDoppelgangerEnabled
<1>10. "fallback" \notin unheeded => e["fallback"] = fallback
  <2> SUFFICES ASSUME "fallback" \notin unheeded PROVE e["fallback"] = fallback
    OBVIOUS
  <2>1. ~(client = "nimbus" /\ form["fallback"] = "on")
    BY DEF Unheeded
  <2> HIDE DEF d, client, mode
  <2> QED
    BY <1>3, <1>4, <1>7, <1>8, <2>1, EnvironmentFacts DEF ConsensusClients
<1>11. /\ e["network"] = form["network"] /\ e["ec"] = mode
       /\ e["cc"] = mode /\ e["client"] = client
       /\ e["doppelganger"] = IsDoppelgangerEnabled(d)
       /\ e["graffiti"] = form["graffiti"] /\ e["metrics"] = form["metrics"]
  <2> HIDE DEF d, client, mode
  <2> QED
    BY <1>1, <1>4, <1>8, EnvironmentFacts
<1>12. "port" \in unheeded
  BY DEF Unheeded
<1> HIDE DEF d, e, client, fallback, mode, unheeded
<1>13. \A field \in shown : e[field] = env[field]
  <2>1. DOMAIN env = {"network", "ec", "cc", "client", "doppelganger", "graffiti",
                      "fallback", "metrics", "port"}
    OBVIOUS
  <2> QED
    BY <1>9, <1>10, <1>11, <1>12, <2>1
<1> HIDE DEF env, shown
<1> QED
  BY <1>2, <1>13 DEF Matches, d, e

LEMMA PageShows ==
    ASSUME NEW c \in Settings, NEW form, NEW v \in 1..MaxVersion, FormOf(form, PageFields)
    PROVE  Matches(updateConfigFromUISetting(c, form, v), Shown(form))
<1> DEFINE d == updateConfigFromUISetting(c, form, v)
           fields == PageTakes(form)
           e == GenerateEnvironmentVariables(d)
           mode == form["ecMode"]
           client == IF mode = "local" THEN form["client"] ELSE form["externalClient"]
           doppelganger == IF mode = "local" THEN form["doppelganger"]
                           ELSE form["externalDoppelganger"]
           fallback == IF form["fallback"] = "off" THEN "none" ELSE form["normalUrl"]
           port == IF form["metrics"] = "off" THEN "none" ELSE form["port"]
           env == [network |-> form["network"], ec |-> mode, cc |-> mode,
                   client |-> client, doppelganger |-> doppelganger,
                   graffiti |-> form["graffiti"], fallback |-> fallback,
                   metrics |-> form["metrics"], port |-> port]
           unheeded == Unheeded(FALSE, mode, client, form["fallback"])
           shown == DOMAIN env \ unheeded
<1>1. /\ TakenOver(c, d, form, fields, v) /\ d["ccMode"] = mode
      /\ form["fallback"] = "on" => d["prysmUrl"] = form["normalUrl"]
  BY PageTakenOver
<1>2. Shown(form) = [field \in shown |-> env[field]]
  <2>1. "ccMode" \notin DOMAIN form
    BY DEF FormOf, PageFields, setUIStaderNode, setUIExecutionClient,
           setUIConsensusClient, setUIFallbackClient, setUIMonitoring
  <2> DEFINE wizard == "ccMode" \in DOMAIN form
             inUse == IF wizard THEN form.ccMode ELSE form.ecMode
             of == IF inUse = "local" THEN form.client ELSE form.externalClient
             shows == [network |-> form.network, ec |-> inUse, cc |-> inUse, client |-> of,
                 doppelganger |-> IF wizard \/ inUse = "local" THEN form.doppelganger
                                  ELSE form.externalDoppelganger,
                 graffiti |-> form.graffiti,
                 fallback |-> IF form.fallback = "off" THEN "none"
                              ELSE IF wizard /\ of = "prysm" THEN form.prysmUrl
                              ELSE form.normalUrl,
                 metrics |-> form.metrics,
                 port |-> IF wizard \/ form.metrics = "off" THEN "none" ELSE form.port]
             ignored == Unheeded(wizard, inUse, of, form["fallback"])
  <2>2. Shown(form) = [field \in DOMAIN shows \ ignored |-> shows[field]]
    BY DEF Shown
  <2>3. wizard = FALSE
    BY <2>1
  <2> HIDE DEF wizard
  <2>4. inUse = mode /\ of = client
    BY <2>3
  <2> HIDE DEF inUse, of, mode, client
  <2>5. shows = env /\ ignored = unheeded
    BY <2>3, <2>4
  <2> HIDE DEF shows, env, ignored, unheeded
  <2> QED
    BY <2>2, <2>5
<1>3. /\ \A p \in fields : d[p] = form[p]
      /\ {"network", "ecMode", "client", "externalClient", "doppelganger",
          "externalDoppelganger", "graffiti", "fallback", "metrics"} \subseteq fields
      /\ mode \in {"local", "external"}
      /\ form["fallback"] \in {"on", "off"} /\ form["metrics"] \in {"on", "off"}
  <2>0. {"ecMode", "fallback", "metrics"} \subseteq PageFields
    BY DEF PageFields, setUIExecutionClient, setUIFallbackClient, setUIMonitoring
  <2>1. /\ form["fallback"] \in Type("fallback") /\ form["metrics"] \in Type("metrics")
        /\ form["ecMode"] \in Type("ecMode")
    BY <2>0 DEF FormOf
  <2>2. /\ form["fallback"] \in {"on", "off"} /\ form["metrics"] \in {"on", "off"}
        /\ mode \in {"local", "external"}
    BY <2>1, CopyTypes DEF OnOff, Modes
  <2>3. \A p \in fields : d[p] = form[p]
    BY <1>1 DEF TakenOver
  <2>4. {"network", "ecMode", "client", "externalClient", "doppelganger",
         "externalDoppelganger", "graffiti", "fallback", "metrics"} \subseteq fields
    BY PageTakesFacts
  <2> QED
    BY <2>2, <2>3, <2>4
<1>4. /\ d["network"] = form["network"] /\ d["ecMode"] = mode
      /\ d["client"] = form["client"] /\ d["externalClient"] = form["externalClient"]
      /\ d["doppelganger"] = form["doppelganger"] /\ d["graffiti"] = form["graffiti"]
      /\ d["externalDoppelganger"] = form["externalDoppelganger"]
      /\ d["fallback"] = form["fallback"] /\ d["metrics"] = form["metrics"]
  BY <1>3
<1>5. /\ form["fallback"] = "on" => d["normalUrl"] = form["normalUrl"]
      /\ form["metrics"] = "on" => d["port"] = form["port"]
  BY <1>3, PageTakesFacts
<1>8. Selected(d) = client
  BY <1>1, <1>4 DEF Selected
<1>9. "doppelganger" \notin unheeded => IsDoppelgangerEnabled(d) = doppelganger
  <2> SUFFICES ASSUME "doppelganger" \notin unheeded
               PROVE  IsDoppelgangerEnabled(d) = doppelganger
    OBVIOUS
  <2>1. client # "teku" /\ ~(client = "nimbus" /\ mode = "external")
    BY DEF Unheeded
  <2> HIDE DEF d, client, mode
  <2> QED
    BY <1>1, <1>3, <1>4, <1>8, <2>1 DEF IsDoppelgangerEnabled
<1>10. /\ e["network"] = form["network"] /\ e["ec"] = mode
       /\ e["cc"] = mode /\ e["client"] = client
       /\ e["doppelganger"] = IsDoppelgangerEnabled(d)
       /\ e["graffiti"] = form["graffiti"] /\ e["fallback"] = fallback
       /\ e["metrics"] = form["metrics"] /\ e["port"] = port
  <2> HIDE DEF d, client, doppelganger, mode
  <2> QED
    BY <1>1, <1>3, <1>4, <1>5, <1>8, EnvironmentFacts
<1> HIDE DEF d, e, client, fallback, doppelganger, port, mode, unheeded
<1>11. \A field \in shown : e[field] = env[field]
  <2>1. DOMAIN env = {"network", "ec", "cc", "client", "doppelganger", "graffiti",
                      "fallback", "metrics", "port"}
    OBVIOUS
  <2> QED
    BY <1>9, <1>10, <2>1
<1> HIDE DEF env, shown
<1> QED
  BY <1>2, <1>11 DEF Matches, d, e

-----------------------------------------------------------------------------
(* A form that is taken over keeps what a run knows. *)

\* The run x after it took settings d over from these fields, with these loose.
IsTaken(x, d, fields, loose, r) ==
    /\ r = [f \in Fields |-> r[f]]
    /\ \A f \in Fields \ {"cfg", "edited", "typed", "excused", "loose"} : r[f] = x[f]
    /\ r.cfg = d /\ r.edited = {} /\ r.loose = loose
    /\ \E typed, hidden \in SUBSET Params :
          /\ x.edited \cap fields \subseteq typed
          /\ typed \subseteq (x.edited \cap fields) \cup Copies
          /\ \A p \in Copies \ typed : d[p] = x.cfg[p] \/ p \in hidden
          /\ hidden \subseteq Copies \ typed
          /\ r.typed = (x.typed \cup typed) \ hidden
          /\ r.excused = (x.excused \cup hidden) \ typed

LEMMA TakenIs ==
    ASSUME NEW x, RunOK(x), NEW d, NEW fields \in SUBSET Params
    PROVE  IsTaken(x, d, fields, x.loose, Taken(x, d, fields))
<1> DEFINE edited == x.edited \cap fields
           both == IF edited \cap {"ecMode", "ccMode"} # {} THEN {"ecMode", "ccMode"} ELSE {}
           typed == edited \cup both
           hidden == {p \in Copies \ typed : d[p] # x.cfg[p]}
           a == (x.typed \cup typed) \ hidden
           b == (x.excused \cup hidden) \ typed
           r == Taken(x, d, fields)
<1>1. r = [x EXCEPT !.cfg = d, !.edited = {}, !.typed = a, !.excused = b]
  BY DEF Taken
<1>2. edited \subseteq Params /\ both \subseteq Copies /\ Copies \subseteq Params
  BY ParameterFacts, CopyTypes
<1>3. /\ typed \in SUBSET Params /\ hidden \in SUBSET Params
      /\ edited \subseteq typed /\ typed \subseteq edited \cup Copies
      /\ \A p \in Copies \ typed : d[p] = x.cfg[p] \/ p \in hidden
      /\ hidden \subseteq Copies \ typed
  <2> HIDE DEF both, edited
  <2> QED
    BY <1>2
<1>4. x = [f \in Fields |-> x[f]]
  BY DEF RunOK
<1> DEFINE t == typed
           h == hidden
<1>5. a = (x.typed \cup t) \ h /\ b = (x.excused \cup h) \ t
  OBVIOUS
<1>7. /\ t \in SUBSET Params /\ h \in SUBSET Params
      /\ edited \subseteq t /\ t \subseteq edited \cup Copies
      /\ \A p \in Copies \ t : d[p] = x.cfg[p] \/ p \in h
      /\ h \subseteq Copies \ t
  BY <1>3
<1> HIDE DEF a, b, r, t, h
<1>6. /\ r = [f \in Fields |-> r[f]]
      /\ \A f \in Fields \ {"cfg", "edited", "typed", "excused"} : r[f] = x[f]
      /\ r.cfg = d /\ r.edited = {} /\ r.typed = a /\ r.excused = b
  BY <1>1, <1>4 DEF Fields
<1> QED
  BY <1>5, <1>6, <1>7 DEF IsTaken, r, Fields

LEMMA TakenFacts ==
    ASSUME SettingsTypeInv, FileChoices,
           NEW x, RunOK(x), ChoiceOf(x), DefaultOf(x), Editing(x),
           NEW fields \in SUBSET FormFields(x.pc), NEW d,
           TakenOver(x.cfg, d, x.form, fields, x.version),
           NEW loose \in SUBSET Overwritten, x.loose \subseteq loose,
           x.form["network"] # x.cfg["network"] => fields \cap Overwritten \subseteq loose,
           NEW r, IsTaken(x, d, fields, loose, r)
    PROVE  /\ r.typed \subseteq Params /\ r.excused \subseteq Params
           /\ r.typed \cap r.excused = {}
           /\ \A p \in r.typed \cap Overwritten : d[p] \in {Typed, Blank}
           /\ ~x.stale =>
                 \A p \in DOMAIN chosen \ (past.excused \cup r.excused \cup r.typed) :
                     (x.upgraded /\ p \in Overwritten) \/ d[p] = chosen[p]
           /\ x.version = version /\ ~x.stale =>
                 \A p \in Overwritten \ (loose \cup r.typed) :
                     (~x.upgraded /\ p \in DOMAIN chosen) \/ Current(d, x.version, p)
<1> DEFINE c == x.cfg
           form == x.form
           n == form["network"]
           m == ChangeNetwork(c, n, x.version)
           edited == x.edited \cap fields
           was == <<c.network, x.version>>
           is == <<n, x.version>>
<1>0. /\ c \in Settings /\ x.version \in 1..MaxVersion
      /\ x.typed \subseteq Params /\ x.excused \subseteq Params
      /\ x.typed \cap x.excused = {} /\ fields \subseteq Params
  <2>1. FormFields(x.pc) \subseteq Params
    BY ParameterFacts DEF FormFields
  <2>2. x.version \in 1..version /\ version \in 1..MaxVersion
    BY DEF RunOK, SettingsTypeInv
  <2>3. x.version \in 1..MaxVersion
    BY <2>2, ConfigurationAssumption DEF ConfigurationAssumption
  <2>4. /\ c \in Settings /\ x.typed \subseteq Params /\ x.excused \subseteq Params
        /\ x.typed \cap x.excused = {}
    BY DEF RunOK
  <2> QED
    BY <2>1, <2>3, <2>4
<1>1. /\ \A p \in fields \ edited : form[p] = c[p]
      /\ \A p \in edited \cap Overwritten : form[p] \in {Typed, Blank}
      /\ "network" \in fields /\ n \in Networks
  <2>1. \A p \in fields : form[p] \in Type(p)
    BY DEF RunOK, FormOK
  <2> QED
    BY <2>1, ParameterFacts DEF RunOK, FormOK, TakenOver
<1>2. /\ \A p \in Params \ (Overwritten \cup {"network"}) : m[p] = c[p]
      /\ \A p \in Overwritten : /\ c[p] \in {Typed, Blank} => m[p] = c[p]
                                /\ c[p] = was => m[p] = is
  BY <1>0, <1>1, ChangeNetworkFacts
<1>3. /\ \A p \in fields : d[p] = form[p]
      /\ \A p \in Params \ (fields \cup Copies) : d[p] = m[p]
      /\ d["network"] = n
  BY DEF TakenOver
<1>4. PICK typed, hidden \in SUBSET Params :
          /\ edited \subseteq typed /\ typed \subseteq edited \cup Copies
          /\ \A p \in Copies \ typed : d[p] = c[p] \/ p \in hidden
          /\ hidden \subseteq Copies \ typed
          /\ r.typed = (x.typed \cup typed) \ hidden
          /\ r.excused = (x.excused \cup hidden) \ typed
  BY DEF IsTaken
<1>5. /\ Overwritten \subseteq Params /\ Overwritten \cap Copies = {}
      /\ \A p \in DOMAIN chosen \cap Overwritten : chosen[p] = Typed
      /\ DOMAIN chosen \subseteq Params
  BY ParameterFacts DEF FileChoices, SettingsTypeInv
<1>6. /\ \A p \in x.typed \cap Overwritten : c[p] \in {Typed, Blank}
      /\ ~x.stale =>
            \A p \in DOMAIN chosen \ (past.excused \cup x.excused \cup x.typed) :
                (x.upgraded /\ p \in Overwritten) \/ c[p] = chosen[p]
  BY DEF ChoiceOf
<1>7. x.version = version /\ ~x.stale =>
          \A p \in Overwritten \ (x.loose \cup x.typed) :
              (~x.upgraded /\ p \in DOMAIN chosen) \/ c[p] = was
  BY DEF DefaultOf, Current
<1>8. n # c["network"] => fields \cap Overwritten \subseteq loose
  OBVIOUS
<1>9. n = c["network"] => is = was
  OBVIOUS
<1> HIDE DEF c, form, n, m, edited, was, is
<1>10. r.typed \subseteq Params /\ r.excused \subseteq Params /\ r.typed \cap r.excused = {}
  BY <1>0, <1>4
<1>11. ASSUME NEW p \in r.typed \cap Overwritten PROVE d[p] \in {Typed, Blank}
  <2>1. p \in Params /\ p \notin Copies /\ p \in x.typed \cup edited
    BY <1>4, <1>5
  <2>2. CASE p \in fields
    BY <1>1, <1>3, <1>6, <2>1, <2>2
  <2>3. CASE p \notin fields
    <3>1. p \in x.typed
      BY <2>1, <2>3 DEF edited
    <3> QED
      BY <1>2, <1>3, <1>6, <2>1, <2>3, <3>1
  <2> QED
    BY <2>2, <2>3
<1>12. ASSUME ~x.stale,
              NEW p \in DOMAIN chosen \ (past.excused \cup r.excused \cup r.typed)
       PROVE  (x.upgraded /\ p \in Overwritten) \/ d[p] = chosen[p]
  <2>1. p \in Params /\ p \notin typed /\ p \notin hidden /\ p \notin x.typed
        /\ p \notin x.excused /\ p \notin edited
    BY <1>4, <1>5, <1>12
  <2>2. (x.upgraded /\ p \in Overwritten) \/ c[p] = chosen[p]
    BY <1>6, <1>12, <2>1
  <2>3. CASE p \in fields
    BY <1>1, <1>3, <2>1, <2>2, <2>3
  <2>4. CASE p \in Copies \ fields
    BY <1>4, <2>1, <2>2, <2>4
  <2>5. CASE p \notin fields \cup Copies
    <3>1. CASE p \in Overwritten
      <4>1. chosen[p] = Typed
        BY <1>5, <1>12, <3>1
      <4> QED
        BY <1>2, <1>3, <2>1, <2>2, <2>5, <3>1, <4>1
    <3>2. CASE p \notin Overwritten
      <4>1. p # "network"
        BY <1>1, <2>5
      <4> QED
        BY <1>2, <1>3, <2>1, <2>2, <2>5, <3>2, <4>1
    <3> QED
      BY <3>1, <3>2
  <2> QED
    BY <2>3, <2>4, <2>5
<1>13. ASSUME x.version = version, ~x.stale, NEW p \in Overwritten \ (loose \cup r.typed)
       PROVE  (~x.upgraded /\ p \in DOMAIN chosen) \/ d[p] = is
  <2>1. p \in Params /\ p \notin Copies /\ p \notin x.loose
        /\ p \notin x.typed /\ p \notin typed /\ p \notin edited
    BY <1>4, <1>5, <1>13
  <2>2. (~x.upgraded /\ p \in DOMAIN chosen) \/ c[p] = was
    BY <1>7, <1>13, <2>1
  <2>3. CASE p \in fields
    BY <1>1, <1>3, <1>8, <1>9, <1>13, <2>1, <2>2, <2>3
  <2>4. CASE p \notin fields
    BY <1>2, <1>3, <2>1, <2>2, <2>4
  <2> QED
    BY <2>3, <2>4
<1>14. \A p : Current(d, x.version, p) <=> d[p] = is
  BY <1>3 DEF Current, is
<1> QED
  BY <1>10, <1>11, <1>12, <1>13, <1>14

-----------------------------------------------------------------------------
(* Steps of one run, and the others. *)

\* A run that is over knows nothing.
LEMMA IdleInv ==
    ASSUME SettingsTypeInv
    PROVE  RunInv(Idle) /\ ~HasUpgraded(Idle)
<1> DEFINE cfg == GetDefault("mainnet", 1)
<1>1. cfg \in Settings
  BY ConfigurationAssumption, DefaultType DEF ConfigurationAssumption, Networks
<1>2. version \in 1..MaxVersion /\ 1 \in 1..version
  BY ConfigurationAssumption DEF ConfigurationAssumption, SettingsTypeInv
<1>3. Idle = [
        pc |-> "none", kind |-> "start", version |-> 1, cfg |-> cfg, form |-> NoForm,
        edited |-> {}, typed |-> {}, shown |-> NoForm,
        upgraded |-> FALSE, stale |-> FALSE, excused |-> {}, loose |-> {}]
  BY DEF Idle
<1> HIDE DEF cfg
<1>4. /\ Idle = [f \in Fields |-> Idle[f]] /\ Idle.pc = "none" /\ Idle.kind = "start"
      /\ Idle.version = 1 /\ Idle.cfg = cfg /\ Idle.form = NoForm /\ Idle.edited = {}
      /\ Idle.typed = {} /\ Idle.excused = {} /\ Idle.loose = {}
      /\ Idle.upgraded = FALSE /\ Idle.stale = FALSE
  BY <1>3 DEF Fields
<1>5. FormFields("none") = {} /\ NoForm = [p \in {} |-> NoForm[p]]
  BY DEF FormFields, NoForm
<1>6. FormOK(Idle)
  BY <1>4, <1>5 DEF FormOK
<1>7. RunOK(Idle)
  BY <1>1, <1>2, <1>4, <1>6 DEF RunOK
<1> QED
  BY <1>4, <1>7 DEF RunInv, ChoiceOf, DefaultOf, ShownOf, Editing, HasUpgraded

\* What a run knows lasts, while the file stays or is cut.
LEMMA SameRun ==
    ASSUME UNCHANGED <<upgrade, version, chosen, past>>,
           file' = file \/ file'.state = "torn",
           NEW t \in Runs, NEW z, run'[t] = z, RunInv(z)
    PROVE  RunInv(run[t])'
<1>1. RunOK(run[t])' /\ ChoiceOf(run[t])' /\ DefaultOf(run[t])'
  BY DEF RunInv, RunOK, FormOK, ChoiceOf, DefaultOf, Editing, Current
<1>2. ShownOf(run[t])'
  BY DEF RunInv, ShownOf
<1> QED
  BY <1>1, <1>2 DEF RunInv

\* Nothing is known of the file by a run under whose feet it was written.
LEMMA StaleRun ==
    ASSUME UNCHANGED <<upgrade, version>>, NEW t \in Runs, RunInv(run[t]),
           run'[t] = IF run[t].pc = "none" THEN run[t]
                     ELSE [run[t] EXCEPT !.stale = TRUE]
    PROVE  RunInv(run[t])'
<1> DEFINE x == run[t]
           y == run'[t]
<1>1. /\ y = [f \in Fields |-> y[f]]
      /\ \A f \in Fields \ {"stale"} : y[f] = x[f]
      /\ y.stale \in BOOLEAN
      /\ y.pc # "none" => y.stale = TRUE
  BY DEF RunInv, RunOK, Fields
<1>2. RunInv(x)
  OBVIOUS
<1> HIDE DEF x, y
<1>3. /\ y.pc = x.pc /\ y.kind = x.kind /\ y.version = x.version /\ y.cfg = x.cfg
      /\ y.form = x.form /\ y.edited = x.edited /\ y.typed = x.typed
      /\ y.shown = x.shown /\ y.upgraded = x.upgraded /\ y.excused = x.excused
      /\ y.loose = x.loose
  BY <1>1 DEF Fields
<1>4. FormOK(y)
  BY <1>2, <1>3 DEF RunInv, RunOK, FormOK
<1>5. RunOK(y)
  BY <1>1, <1>2, <1>3, <1>4 DEF RunInv, RunOK
<1>6. RunOK(run[t])'
  BY <1>5 DEF RunOK, y
<1>7. ChoiceOf(run[t])'
  <2>1. /\ Editing(y) => \A p \in y.typed \cap Overwritten : y.cfg[p] \in {Typed, Blank}
        /\ Editing(y) => y.stale
    BY <1>1, <1>2, <1>3 DEF RunInv, ChoiceOf, Editing
  <2> QED
    BY <2>1 DEF ChoiceOf, Editing, y
<1>8. DefaultOf(run[t])'
  <2>1. /\ Editing(y) /\ y.version = version => y.upgraded \/ ~upgrade
        /\ Editing(y) => y.stale
    BY <1>1, <1>2, <1>3 DEF RunInv, DefaultOf, Editing
  <2> QED
    BY <2>1 DEF DefaultOf, Editing, y
<1>9. ShownOf(run[t])'
  <2>1. /\ y.kind = "config" /\ y.pc \in {"open", "write"} => Matches(y.cfg, y.shown)
        /\ y.pc \in {"load", "compose"} => y.stale
    BY <1>1, <1>2, <1>3 DEF RunInv, ShownOf
  <2> QED
    BY <2>1 DEF ShownOf, y
<1> QED
  BY <1>6, <1>7, <1>8, <1>9 DEF RunInv

\* A step of one run that leaves the rest alone.
LEMMA PrivateStep ==
    ASSUME SettingsInv, UNCHANGED <<file, upgrade, version, chosen, past>>,
           NEW s \in Runs, NEW y, run' = [run EXCEPT ![s] = y],
           RunInv(y), HasUpgraded(y) => HasUpgraded(run[s])
    PROVE  SettingsInv'
<1>1. /\ run' = [t \in Runs |-> run'[t]] /\ run'[s] = y
      /\ \A t \in Runs \ {s} : run'[t] = run[t]
  BY DEF SettingsInv
<1>2. ASSUME NEW t \in Runs PROVE RunInv(run[t])'
  <2>1. CASE t = s
    BY <1>1, <2>1, SameRun
  <2>2. CASE t # s
    <3>1. run'[t] = run[t] /\ RunInv(run[t])
      BY <1>1, <2>2 DEF SettingsInv
    <3> QED
      BY <3>1, SameRun
  <2> QED
    BY <2>1, <2>2
<1>3. SettingsTypeInv' /\ FileChoices'
  BY DEF SettingsInv, SettingsTypeInv, FileChoices
<1>4. FileDefaults'
  <2>1. ASSUME NEW t \in Runs, HasUpgraded(run[t])' PROVE HasUpgraded(run[t])
    <3>1. HasUpgraded(run'[t])
      BY <2>1 DEF HasUpgraded
    <3> QED
      BY <1>1, <3>1
  <2>2. (~upgrade \/ \E t \in Runs : HasUpgraded(run[t]))'
        => ~upgrade \/ \E t \in Runs : HasUpgraded(run[t])
    BY <2>1
  <2> QED
    BY <2>2 DEF SettingsInv, FileDefaults, Current
<1> QED
  BY <1>1, <1>2, <1>3, <1>4 DEF SettingsInv

-----------------------------------------------------------------------------
(* A run begins. *)

\* What the file has is what is loaded from it.
LEMMA LoadedFacts ==
    ASSUME SettingsTypeInv, FileChoices, FileDefaults, file.state # "torn"
    PROVE  /\ LoadConfig(version) \in Settings
           /\ \A p \in DOMAIN chosen \ past.excused : LoadConfig(version)[p] = chosen[p]
           /\ ~upgrade => \A p \in Overwritten \ past.loose :
                 p \in DOMAIN chosen \/ Current(LoadConfig(version), version, p)
<1> DEFINE d == LoadConfig(version)
           c == file.cfg
<1>0. /\ file \in File /\ version \in 1..MaxVersion /\ "mainnet" \in Networks
      /\ DOMAIN chosen \subseteq Params
      /\ past.excused \subseteq Params /\ past.loose \subseteq Overwritten
  BY DEF SettingsTypeInv, Networks
<1>1. CASE file.state = "absent"
  <2>1. d = GetDefault("mainnet", version)
    BY <1>1 DEF LoadConfig
  <2>2. /\ d \in Settings /\ \A p \in Overwritten : d[p] = <<"mainnet", version>>
    BY <1>0, <2>1, DefaultFacts, DefaultType
  <2>3. d.network = "mainnet"
    BY <2>1, DefaultNetwork
  <2>4. DOMAIN chosen = {}
    BY <1>1 DEF FileChoices
  <2> QED
    BY <2>2, <2>3, <2>4 DEF Current
<1>2. CASE file.state = "whole"
  <2>1. d = Deserialize(file, version)
    BY <1>2 DEF LoadConfig
  <2>2. /\ d \in Settings
        /\ file.lost = {} =>
              /\ \A p \in Params \ Overwritten : d[p] = c[p]
              /\ \A p \in Overwritten :
                    d[p] = IF c[p] = Blank THEN <<c.network, version>> ELSE c[p]
    BY <1>0, <2>1, DeserializeFacts
  <2>3. CASE file.lost # {}
    <3>1. past.excused = Params /\ past.loose = Overwritten
      BY <1>2, <2>3 DEF FileChoices, FileDefaults
    <3> QED
      BY <1>0, <2>2, <3>1
  <2>4. CASE file.lost = {}
    <3>1. /\ \A p \in DOMAIN chosen \ past.excused : c[p] = chosen[p]
          /\ \A p \in DOMAIN chosen \cap Overwritten : chosen[p] = Typed
      BY <1>2 DEF FileChoices
    <3>2. \A p \in DOMAIN chosen \ past.excused : d[p] = chosen[p]
      BY <1>0, <2>2, <2>4, <3>1, TagFacts
    <3>3. ASSUME ~upgrade, NEW p \in Overwritten \ past.loose, p \notin DOMAIN chosen
          PROVE  Current(d, version, p)
      <4>1. c[p] = Blank \/ c[p] = <<c.network, version>>
        BY <1>2, <3>3 DEF FileDefaults, Current
      <4>2. d["network"] = c["network"]
        BY <2>2, <2>4, ParameterFacts
      <4>3. d[p] = IF c[p] = Blank THEN <<c["network"], version>> ELSE c[p]
        BY <2>2, <2>4, <3>3
      <4> QED
        BY <4>1, <4>2, <4>3 DEF Current
    <3> QED
      BY <2>2, <3>2, <3>3
  <2> QED
    BY <2>3, <2>4
<1> QED
  BY <1>0, <1>1, <1>2 DEF File

\* The fields of a run that begins with these settings.
StartedAs(r, mode, cfg, upgraded, loose) ==
    /\ r = [f \in Fields |-> r[f]] /\ r.pc = "none"
    /\ r.kind = mode /\ r.version = version /\ r.cfg = cfg
    /\ r.upgraded = upgraded /\ r.loose = loose
    /\ r.form = NoForm /\ r.edited = {} /\ r.typed = {} /\ r.excused = {}
    /\ r.shown = NoForm /\ r.stale = FALSE

LEMMA StartedFacts ==
    ASSUME SettingsTypeInv, FileChoices, FileDefaults, file.state # "torn",
           NEW mode, NEW upgraded \in BOOLEAN
    PROVE  \E cfg \in Settings, loose \in SUBSET Overwritten :
              /\ StartedAs(Started(mode, LoadConfig(version), upgraded),
                           mode, cfg, upgraded, loose)
              /\ \A p \in DOMAIN chosen \ past.excused :
                    (upgraded /\ p \in Overwritten) \/ cfg[p] = chosen[p]
              /\ upgraded \/ ~upgrade => \A p \in Overwritten \ loose :
                    (~upgraded /\ p \in DOMAIN chosen) \/ Current(cfg, version, p)
              /\ upgraded => loose = {}
<1> DEFINE d == LoadConfig(version)
           u == UpdateDefaults(d, version)
           cfg == IF upgraded THEN u ELSE d
           loose == IF upgraded THEN {} ELSE past.loose
           r == Started(mode, d, upgraded)
           x == Idle
<1>1. /\ d \in Settings
      /\ \A p \in DOMAIN chosen \ past.excused : d[p] = chosen[p]
      /\ ~upgrade => \A p \in Overwritten \ past.loose :
            p \in DOMAIN chosen \/ Current(d, version, p)
  BY LoadedFacts
<1>2. /\ version \in 1..MaxVersion /\ DOMAIN chosen \subseteq Params
      /\ past.loose \subseteq Overwritten
  BY DEF SettingsTypeInv
<1>3. /\ u \in Settings /\ u.network = d.network
      /\ \A p \in Overwritten : u[p] = <<d.network, version>>
      /\ \A p \in Params \ Overwritten : u[p] = d[p]
  BY <1>1, <1>2, UpdateDefaultsFacts
<1>4. r = [x EXCEPT !.kind = mode, !.version = version, !.upgraded = upgraded,
                    !.cfg = cfg, !.loose = loose]
  BY DEF Started
<1>5. /\ x = [f \in Fields |-> x[f]] /\ x.pc = "none" /\ x.form = NoForm
      /\ x.edited = {} /\ x.typed = {} /\ x.excused = {} /\ x.stale = FALSE
      /\ x.shown = NoForm
  BY DEF Idle, Fields
<1> HIDE DEF d, u, x, r
<1>6. /\ cfg \in Settings /\ loose \in SUBSET Overwritten
      /\ \A p \in DOMAIN chosen \ past.excused :
            (upgraded /\ p \in Overwritten) \/ cfg[p] = chosen[p]
  BY <1>1, <1>2, <1>3
<1>7. upgraded \/ ~upgrade => \A p \in Overwritten \ loose :
            (~upgraded /\ p \in DOMAIN chosen) \/ Current(cfg, version, p)
  BY <1>1, <1>2, <1>3 DEF Current
<1>9. upgraded => loose = {}
  OBVIOUS
<1> HIDE DEF cfg, loose
<1>8. StartedAs(r, mode, cfg, upgraded, loose)
  BY <1>4, <1>5 DEF StartedAs, Fields
<1> QED
  BY <1>6, <1>7, <1>8, <1>9 DEF r, d

\* A form that was just opened, and no form.
LEMMA FreshForm ==
    ASSUME NEW y, y.cfg \in Settings, y.edited = {},
           y.form = [p \in FormFields(y.pc) |-> y.cfg[p]]
    PROVE  FormOK(y)
<1>1. FormFields(y.pc) \subseteq Params
  BY ParameterFacts DEF FormFields
<1>2. \A p \in FormFields(y.pc) : y.form[p] = y.cfg[p] /\ y.cfg[p] \in Type(p)
  BY <1>1, SettingType
<1> QED
  BY <1>2 DEF FormOK

LEMMA WithoutForm ==
    ASSUME NEW y, y.edited = {}, y.form = NoForm,
           y.pc \notin {"wizard", "configuration"}
    PROVE  FormOK(y)
<1>1. FormFields(y.pc) = {}
  BY DEF FormFields
<1>2. y.form = [p \in {} |-> y.form[p]]
  BY DEF NoForm
<1> QED
  BY <1>1, <1>2 DEF FormOK

LEMMA LoadConfigStep ==
    ASSUME SettingsInv, NEW s \in Runs, loadConfig(s)
    PROVE  SettingsInv'
<1> DEFINE r == Started("config", LoadConfig(version), upgrade)
           form == NewSettingsType(r.cfg)
           y == [r EXCEPT !.pc = "wizard", !.form = form]
<1>1. /\ file.state # "torn" /\ run' = [run EXCEPT ![s] = y]
      /\ UNCHANGED <<file, upgrade, version, chosen, past>>
  BY DEF loadConfig, Begin
<1>2. SettingsTypeInv /\ FileChoices /\ FileDefaults /\ upgrade \in BOOLEAN
      /\ version \in 1..version
  BY DEF SettingsInv, SettingsTypeInv
<1>3. PICK cfg \in Settings, loose \in SUBSET Overwritten :
          /\ StartedAs(r, "config", cfg, upgrade, loose)
          /\ \A p \in DOMAIN chosen \ past.excused :
                (upgrade /\ p \in Overwritten) \/ cfg[p] = chosen[p]
          /\ upgrade \/ ~upgrade => \A p \in Overwritten \ loose :
                (~upgrade /\ p \in DOMAIN chosen) \/ Current(cfg, version, p)
  BY <1>1, <1>2, StartedFacts
<1>4. form = [p \in WizardFields |-> cfg[p]]
  BY <1>3 DEF StartedAs, NewSettingsType
<1> HIDE DEF r, form
<1>5. /\ y = [f \in Fields |-> y[f]] /\ y.pc = "wizard" /\ y.form = form
      /\ y.kind = "config" /\ y.version = version /\ y.cfg = cfg
      /\ y.upgraded = upgrade /\ y.loose = loose /\ y.edited = {}
      /\ y.typed = {} /\ y.excused = {} /\ y.stale = FALSE
  BY <1>3 DEF StartedAs, Fields
<1> HIDE DEF y
<1>6. FormOK(y)
  BY <1>4, <1>5, FreshForm DEF FormFields
<1>7. RunOK(y)
  BY <1>2, <1>5, <1>6 DEF RunOK
<1>8. ChoiceOf(y) /\ DefaultOf(y) /\ ShownOf(y)
  BY <1>3, <1>5 DEF ChoiceOf, DefaultOf, ShownOf
<1>9. ~HasUpgraded(y)
  BY <1>5 DEF HasUpgraded
<1> QED
  BY <1>1, <1>7, <1>8, <1>9, PrivateStep DEF RunInv

LEMMA HeadlessStep ==
    ASSUME SettingsInv, NEW s \in Runs, NEW p \in Params, NEW value \in Values(p),
           configureHeadless(s, p, value)
    PROVE  SettingsInv'
<1> DEFINE r == Started("headless", LoadConfig(version), upgrade)
           l == IF p = "network" THEN Overwritten ELSE r.loose
           d == [r.cfg EXCEPT ![p] = value]
           y == [r EXCEPT !.pc = "open", !.cfg = d, !.typed = {p}, !.loose = l]
<1>1. /\ file.state # "torn" /\ run' = [run EXCEPT ![s] = y]
      /\ UNCHANGED <<file, upgrade, version, chosen, past>>
  BY DEF configureHeadless, Begin
<1>2. SettingsTypeInv /\ FileChoices /\ FileDefaults /\ upgrade \in BOOLEAN
      /\ version \in 1..version /\ DOMAIN chosen \subseteq Params
  BY DEF SettingsInv, SettingsTypeInv
<1>3. PICK cfg \in Settings, loose \in SUBSET Overwritten :
          /\ StartedAs(r, "headless", cfg, upgrade, loose)
          /\ \A q \in DOMAIN chosen \ past.excused :
                (upgrade /\ q \in Overwritten) \/ cfg[q] = chosen[q]
          /\ upgrade \/ ~upgrade => \A q \in Overwritten \ loose :
                (~upgrade /\ q \in DOMAIN chosen) \/ Current(cfg, version, q)
  BY <1>1, <1>2, StartedFacts
<1>4. d = [cfg EXCEPT ![p] = value] /\ l = IF p = "network" THEN Overwritten ELSE loose
  BY <1>3 DEF StartedAs
<1> HIDE DEF r, d, l
<1>5. /\ y = [f \in Fields |-> y[f]] /\ y.pc = "open" /\ y.form = NoForm
      /\ y.kind = "headless" /\ y.version = version /\ y.cfg = d
      /\ y.upgraded = upgrade /\ y.loose = l /\ y.edited = {}
      /\ y.typed = {p} /\ y.excused = {} /\ y.stale = FALSE
  BY <1>3 DEF StartedAs, Fields
<1> HIDE DEF y
<1>6. /\ cfg = [q \in Params |-> cfg[q]] /\ \A q \in Params : cfg[q] \in Type(q)
  BY SettingsByParameter
<1>7. /\ d = [q \in Params |-> d[q]] /\ d[p] = value
      /\ \A q \in Params \ {p} : d[q] = cfg[q]
  BY <1>4, <1>6
<1>8. d \in Settings
  <2>1. \A q \in Params : d[q] \in Type(q)
    BY <1>6, <1>7, ValueType
  <2> QED
    BY <1>7, <2>1, SettingsByParameter
<1>9. FormOK(y)
  BY <1>5, WithoutForm
<1>10. RunOK(y)
  BY <1>2, <1>4, <1>5, <1>8, <1>9 DEF RunOK
<1>11. ChoiceOf(y)
  <2>1. p \in Overwritten => d[p] \in {Typed, Blank}
    BY <1>7, ValueType
  <2> QED
    BY <1>2, <1>3, <1>5, <1>7, <2>1 DEF ChoiceOf
<1>12. DefaultOf(y)
  <2>1. ASSUME NEW q \in Overwritten \ (l \cup {p})
        PROVE  (~upgrade /\ q \in DOMAIN chosen) \/ Current(d, version, q)
    <3>1. p # "network" /\ q \notin loose /\ q \in Params
      BY <1>4, <2>1, ParameterFacts
    <3>2. d["network"] = cfg["network"] /\ d[q] = cfg[q]
      BY <1>7, <2>1, <3>1, ParameterFacts
    <3> QED
      BY <1>3, <2>1, <3>1, <3>2 DEF Current
  <2> QED
    BY <1>5, <2>1 DEF DefaultOf
<1>13. ShownOf(y) /\ ~HasUpgraded(y)
  BY <1>5 DEF ShownOf, HasUpgraded
<1> QED
  BY <1>1, <1>10, <1>11, <1>12, <1>13, PrivateStep DEF RunInv

LEMMA StartStep ==
    ASSUME SettingsInv, NEW s \in Runs, NEW mode \in {"start", "resync"}, startService(s, mode)
    PROVE  SettingsInv'
<1> DEFINE up == mode = "start" /\ upgrade
           r == Started(mode, LoadConfig(version), up)
           pc == IF up THEN "open" ELSE "compose"
           d == IF up THEN r.cfg ELSE Idle.cfg
           y == [r EXCEPT !.pc = pc, !.cfg = d, !.loose = {}]
<1>1. /\ file.state = "whole" /\ run' = [run EXCEPT ![s] = y]
      /\ UNCHANGED <<file, upgrade, version, chosen, past>>
  BY DEF startService, Begin
<1>2. SettingsTypeInv /\ FileChoices /\ FileDefaults /\ up \in BOOLEAN
      /\ version \in 1..version /\ Idle.cfg \in Settings /\ (up => upgrade)
  BY IdleInv DEF SettingsInv, SettingsTypeInv, RunInv, RunOK
<1>3. \E cfg \in Settings, loose \in SUBSET Overwritten :
          /\ StartedAs(r, mode, cfg, up, loose)
          /\ \A q \in DOMAIN chosen \ past.excused :
                (up /\ q \in Overwritten) \/ cfg[q] = chosen[q]
          /\ up \/ ~upgrade => \A q \in Overwritten \ loose :
                (~up /\ q \in DOMAIN chosen) \/ Current(cfg, version, q)
          /\ up => loose = {}
  <2> DEFINE u == up
  <2>1. u \in BOOLEAN /\ file.state # "torn" /\ SettingsTypeInv /\ FileChoices /\ FileDefaults
    BY <1>1, <1>2
  <2> HIDE DEF u
  <2>2. \E cfg \in Settings, loose \in SUBSET Overwritten :
          /\ StartedAs(Started(mode, LoadConfig(version), u), mode, cfg, u, loose)
          /\ \A q \in DOMAIN chosen \ past.excused :
                (u /\ q \in Overwritten) \/ cfg[q] = chosen[q]
          /\ u \/ ~upgrade => \A q \in Overwritten \ loose :
                (~u /\ q \in DOMAIN chosen) \/ Current(cfg, version, q)
          /\ u => loose = {}
    BY <2>1, StartedFacts
  <2> QED
    BY <2>2 DEF u
<1>4. PICK cfg \in Settings, loose \in SUBSET Overwritten :
          /\ StartedAs(r, mode, cfg, up, loose)
          /\ \A q \in DOMAIN chosen \ past.excused :
                (up /\ q \in Overwritten) \/ cfg[q] = chosen[q]
          /\ up => \A q \in Overwritten : Current(cfg, version, q)
  BY <1>3
<1>5. d = (IF up THEN cfg ELSE Idle.cfg)
  BY <1>4 DEF StartedAs
<1> DEFINE u == up
<1>6. u \in BOOLEAN /\ r = [f \in Fields |-> r[f]] /\ r.kind = mode /\ r.version = version
      /\ r.upgraded = u /\ r.form = NoForm /\ r.edited = {} /\ r.typed = {}
      /\ r.excused = {} /\ r.stale = FALSE
  BY <1>2, <1>4 DEF StartedAs
<1>7. /\ u => pc = "open" /\ upgrade /\ d = cfg
      /\ ~u => pc = "compose"
      /\ d \in Settings
      /\ u => /\ \A q \in DOMAIN chosen \ past.excused :
                    q \in Overwritten \/ cfg[q] = chosen[q]
              /\ \A q \in Overwritten : Current(cfg, version, q)
  BY <1>2, <1>4, <1>5
<1> HIDE DEF u, r, pc, d
<1>8. /\ y = [f \in Fields |-> y[f]] /\ y.pc = pc /\ y.form = NoForm
      /\ y.kind = mode /\ y.version = version /\ y.cfg = d
      /\ y.upgraded = u /\ y.loose = {} /\ y.edited = {}
      /\ y.typed = {} /\ y.excused = {} /\ y.stale = FALSE
  BY <1>6 DEF Fields
<1> HIDE DEF y
<1>9. FormOK(y)
  BY <1>7, <1>8, WithoutForm
<1>10. RunOK(y)
  BY <1>2, <1>6, <1>7, <1>8, <1>9 DEF RunOK
<1>11. ChoiceOf(y) /\ DefaultOf(y)
  BY <1>6, <1>7, <1>8 DEF ChoiceOf, DefaultOf, Editing
<1>12. ShownOf(y) /\ ~HasUpgraded(y)
  BY <1>6, <1>7, <1>8 DEF ShownOf, HasUpgraded
<1> QED
  BY <1>1, <1>10, <1>11, <1>12, PrivateStep DEF RunInv

-----------------------------------------------------------------------------
(* The forms. *)

LEMMA EditStep ==
    ASSUME SettingsInv, NEW s \in Runs, NEW p \in ShownIn(run[s].form), NEW value \in Values(p),
           Edit(s, p, value)
    PROVE  SettingsInv'
<1> DEFINE x == run[s]
           form == [x.form EXCEPT ![p] = value]
           edited == x.edited \cup {p}
           y == [x EXCEPT !.form = form, !.edited = edited]
<1>1. /\ x.pc \in {"wizard", "configuration"} /\ run' = [run EXCEPT ![s] = y]
      /\ UNCHANGED <<file, upgrade, version, chosen, past>>
  BY DEF Edit, SettingsInv, RunInv, RunOK, Fields
<1>2. RunInv(x) /\ x = [f \in Fields |-> x[f]]
  BY DEF SettingsInv, RunInv, RunOK
<1>3. p \in DOMAIN x.form
  BY DEF ShownIn
<1> HIDE DEF x, form, edited
<1>4. /\ y = [f \in Fields |-> y[f]] /\ y.form = form /\ y.edited = edited
      /\ \A f \in Fields \ {"form", "edited"} : y[f] = x[f]
  BY <1>2 DEF Fields
<1> HIDE DEF y
<1>5. /\ y.pc = x.pc /\ y.kind = x.kind /\ y.version = x.version /\ y.cfg = x.cfg
      /\ y.typed = x.typed /\ y.shown = x.shown /\ y.upgraded = x.upgraded
      /\ y.stale = x.stale /\ y.excused = x.excused /\ y.loose = x.loose
  BY <1>4 DEF Fields
<1>6. FormOK(y)
  <2> DEFINE S == FormFields(x.pc)
             g == x.form
  <2>1. /\ g = [q \in S |-> g[q]] /\ x.edited \subseteq S
        /\ \A q \in S : g[q] \in Type(q)
        /\ \A q \in S \ x.edited : g[q] = x.cfg[q]
        /\ \A q \in x.edited \cap Overwritten : g[q] \in {Typed, Blank}
    BY <1>2 DEF RunInv, RunOK, FormOK
  <2>2. form = [g EXCEPT ![p] = value] /\ p \in DOMAIN g
    BY <1>3 DEF form
  <2>3. S \subseteq Params
    BY ParameterFacts DEF FormFields
  <2> HIDE DEF S, g
  <2>4. /\ p \in S /\ form = [q \in S |-> form[q]] /\ form[p] = value
        /\ \A q \in S \ {p} : form[q] = g[q]
    BY <2>1, <2>2
  <2>5. value \in Type(p) /\ (p \in Overwritten => value \in {Typed, Blank})
    BY <2>3, <2>4, ValueType
  <2>6. /\ edited \subseteq S
        /\ \A q \in S : form[q] \in Type(q)
        /\ \A q \in S \ edited : form[q] = x.cfg[q]
        /\ \A q \in edited \cap Overwritten : form[q] \in {Typed, Blank}
    BY <2>1, <2>4, <2>5 DEF edited
  <2> QED
    BY <1>4, <1>5, <2>4, <2>6 DEF FormOK, S
<1>7. RunInv(y)
  BY <1>2, <1>4, <1>5, <1>6 DEF RunInv, RunOK, ChoiceOf, DefaultOf, ShownOf, Editing
<1>8. ~HasUpgraded(y)
  BY <1>1, <1>5 DEF HasUpgraded, x
<1> QED
  BY <1>1, <1>7, <1>8, PrivateStep

LEMMA RunFacts ==
    ASSUME SettingsInv, NEW s \in Runs
    PROVE  /\ RunOK(run[s]) /\ run[s].cfg \in Settings
           /\ run[s].version \in 1..MaxVersion /\ run[s].loose \in SUBSET Overwritten
<1>1. RunOK(run[s]) /\ version \in 1..MaxVersion
  BY DEF SettingsInv, RunInv, SettingsTypeInv
<1>2. /\ run[s].cfg \in Settings /\ run[s].version \in 1..version
      /\ run[s].loose \in SUBSET Overwritten
  BY <1>1 DEF RunOK
<1> QED
  BY <1>1, <1>2, ConfigurationAssumption DEF ConfigurationAssumption

LEMMA LeaveStep ==
    ASSUME SettingsInv, NEW s \in Runs, run[s].pc \in {"wizard", "configuration"},
           NEW fields \in SUBSET FormFields(run[s].pc), NEW d,
           TakenOver(run[s].cfg, d, run[s].form, fields, run[s].version),
           NEW loose \in SUBSET Overwritten, run[s].loose \subseteq loose,
           run[s].form["network"] # run[s].cfg["network"]
             => fields \cap Overwritten \subseteq loose,
           NEW r, IsTaken(run[s], d, fields, loose, r),
           Matches(d, Shown(run[s].form)),
           NEW other \in {"wizard", "configuration"},
           NEW form, form = [p \in FormFields(other) |-> d[p]],
           Leave(s, r, other, form)
    PROVE  SettingsInv'
<1> DEFINE x == run[s]
           shown == Shown(x.form)
<1>0. /\ RunOK(x) /\ ChoiceOf(x) /\ DefaultOf(x) /\ Editing(x)
      /\ SettingsTypeInv /\ FileChoices /\ d \in Settings
      /\ UNCHANGED <<file, upgrade, version, chosen, past>>
  BY DEF SettingsInv, RunInv, Editing, TakenOver, Leave
<1>1. /\ r.typed \subseteq Params /\ r.excused \subseteq Params
      /\ r.typed \cap r.excused = {}
      /\ \A p \in r.typed \cap Overwritten : d[p] \in {Typed, Blank}
      /\ ~x.stale =>
            \A p \in DOMAIN chosen \ (past.excused \cup r.excused \cup r.typed) :
                (x.upgraded /\ p \in Overwritten) \/ d[p] = chosen[p]
      /\ x.version = version /\ ~x.stale =>
            \A p \in Overwritten \ (loose \cup r.typed) :
                (~x.upgraded /\ p \in DOMAIN chosen) \/ Current(d, x.version, p)
  BY <1>0, TakenFacts
<1>2. /\ r = [f \in Fields |-> r[f]] /\ r.cfg = d /\ r.edited = {} /\ r.loose = loose
      /\ r.kind = x.kind /\ r.version = x.version /\ r.shown = x.shown
      /\ r.upgraded = x.upgraded /\ r.stale = x.stale
  BY DEF IsTaken, Fields
<1>3. /\ x.version \in 1..version /\ x.upgraded \in BOOLEAN /\ x.stale \in BOOLEAN
      /\ x.version = version => x.upgraded \/ ~upgrade
  BY <1>0 DEF RunOK, DefaultOf
<1>4. Matches(d, shown)
  OBVIOUS
<1>5. \/ run' = [run EXCEPT ![s] = [r EXCEPT !.pc = other, !.form = form]]
      \/ run' = [run EXCEPT ![s] = [r EXCEPT !.pc = "open", !.form = NoForm, !.shown = shown]]
      \/ run' = [run EXCEPT ![s] = Idle]
  <2>1. r.form = x.form
    BY DEF IsTaken, Fields
  <2> QED
    BY <2>1 DEF Leave
<1> HIDE DEF x, shown
<1>6. ASSUME NEW y, y = [f \in Fields |-> y[f]], y.cfg = d, y.version = x.version,
             y.upgraded = x.upgraded, y.stale = x.stale, y.typed = r.typed,
             y.excused = r.excused, y.loose = loose, FormOK(y), ShownOf(y)
      PROVE  RunInv(y)
  <2>1. RunOK(y)
    BY <1>0, <1>1, <1>3, <1>6 DEF RunOK
  <2>2. ChoiceOf(y)
    BY <1>1, <1>6 DEF ChoiceOf
  <2>3. DefaultOf(y)
    BY <1>1, <1>3, <1>6 DEF DefaultOf
  <2> QED
    BY <1>6, <2>1, <2>2, <2>3 DEF RunInv
<1>7. CASE run' = [run EXCEPT ![s] = [r EXCEPT !.pc = other, !.form = form]]
  <2> DEFINE y == [r EXCEPT !.pc = other, !.form = form]
  <2>1. /\ y = [f \in Fields |-> y[f]] /\ y.pc = other /\ y.form = form
        /\ y.cfg = d /\ y.version = x.version /\ y.edited = {}
        /\ y.upgraded = x.upgraded /\ y.stale = x.stale /\ y.typed = r.typed
        /\ y.excused = r.excused /\ y.loose = loose
    BY <1>2 DEF Fields
  <2>2. run' = [run EXCEPT ![s] = y]
    BY <1>7
  <2> HIDE DEF y
  <2>3. FormOK(y)
    BY <1>0, <2>1, FreshForm
  <2>4. ShownOf(y) /\ ~HasUpgraded(y)
    BY <2>1 DEF ShownOf, HasUpgraded
  <2>5. RunInv(y)
    BY <1>6, <2>1, <2>3, <2>4
  <2> QED
    BY <1>0, <2>2, <2>4, <2>5, PrivateStep
<1>8. CASE run' = [run EXCEPT ![s] = [r EXCEPT !.pc = "open", !.form = NoForm,
                                               !.shown = shown]]
  <2> DEFINE y == [r EXCEPT !.pc = "open", !.form = NoForm, !.shown = shown]
  <2>1. /\ y = [f \in Fields |-> y[f]] /\ y.pc = "open" /\ y.form = NoForm
        /\ y.cfg = d /\ y.version = x.version /\ y.edited = {}
        /\ y.upgraded = x.upgraded /\ y.stale = x.stale /\ y.typed = r.typed
        /\ y.excused = r.excused /\ y.loose = loose /\ y.shown = shown
    BY <1>2 DEF Fields
  <2>2. run' = [run EXCEPT ![s] = y]
    BY <1>8
  <2> HIDE DEF y
  <2>3. FormOK(y)
    BY <2>1, WithoutForm
  <2>4. ShownOf(y) /\ ~HasUpgraded(y)
    BY <1>4, <2>1 DEF ShownOf, HasUpgraded
  <2>5. RunInv(y)
    BY <1>6, <2>1, <2>3, <2>4
  <2> QED
    BY <1>0, <2>2, <2>4, <2>5, PrivateStep
<1>9. CASE run' = [run EXCEPT ![s] = Idle]
  BY <1>0, <1>9, IdleInv, PrivateStep
<1> QED
  BY <1>5, <1>7, <1>8, <1>9

LEMMA LeaveWizardStep ==
    ASSUME SettingsInv, NEW s \in Runs, LeaveWizard(s)
    PROVE  SettingsInv'
<1> DEFINE x == run[s]
           fields == WizardTakes(x.form)
           d == UpdateConfig(x.cfg, x.form, x.version)
           r == Taken(x, d, fields)
           form == makeUISettingFromConfig(d)
<1>1. x.pc = "wizard" /\ Leave(s, r, "configuration", form)
  BY DEF LeaveWizard
<1>2. RunOK(x) /\ x.cfg \in Settings /\ x.version \in 1..MaxVersion
      /\ x.loose \in SUBSET Overwritten
  BY RunFacts
<1>3. FormFields(x.pc) = WizardFields /\ FormOf(x.form, WizardFields)
  <2>1. FormFields(x.pc) = WizardFields
    BY <1>1 DEF FormFields
  <2> QED
    BY <1>2, <2>1 DEF RunOK, FormOK, FormOf
<1>4. /\ TakenOver(x.cfg, d, x.form, fields, x.version)
      /\ Matches(d, Shown(x.form))
      /\ fields \in SUBSET FormFields(x.pc) /\ fields \in SUBSET Params
      /\ fields \cap Overwritten = {}
  BY <1>2, <1>3, WizardTakenOver, WizardShows, WizardTakesFacts, ParameterFacts
<1>5. form = [p \in FormFields("configuration") |-> d[p]]
  BY DEF makeUISettingFromConfig, FormFields
<1>6. IsTaken(x, d, fields, x.loose, r)
  BY <1>2, <1>4, TakenIs
<1> HIDE DEF d, fields, r, form
<1> QED
  BY <1>1, <1>2, <1>4, <1>5, <1>6, LeaveStep

LEMMA LeavePageStep ==
    ASSUME SettingsInv, NEW s \in Runs, LeaveConfiguration(s)
    PROVE  SettingsInv'
<1> DEFINE x == run[s]
           fields == PageTakes(x.form)
           d == updateConfigFromUISetting(x.cfg, x.form, x.version)
           t == Taken(x, d, fields)
           moved == x.form["network"] # x.cfg["network"]
           loose == IF moved THEN x.loose \cup {"tag"} ELSE x.loose
           r == [t EXCEPT !.loose = loose]
           form == NewSettingsType(d)
<1>2. RunOK(x) /\ x.cfg \in Settings /\ x.version \in 1..MaxVersion
      /\ x.loose \in SUBSET Overwritten
  BY RunFacts
<1>7. x.pc = "configuration"
  BY DEF LeaveConfiguration
<1>3. FormFields(x.pc) = PageFields /\ FormOf(x.form, PageFields)
  <2>1. FormFields(x.pc) = PageFields
    BY <1>7 DEF FormFields
  <2> QED
    BY <1>2, <2>1 DEF RunOK, FormOK, FormOf
<1>4. /\ TakenOver(x.cfg, d, x.form, fields, x.version)
      /\ Matches(d, Shown(x.form))
      /\ fields \in SUBSET FormFields(x.pc) /\ fields \in SUBSET Params
  BY <1>2, <1>3, PageTakenOver, PageShows, PageTakesFacts, ParameterFacts
<1>8. fields \cap Overwritten \subseteq {"tag"}
  <2>1. "vcTag" \notin PageFields
    BY DEF PageFields, setUIStaderNode, setUIExecutionClient,
           setUIConsensusClient, setUIFallbackClient, setUIMonitoring
  <2> QED
    BY <1>3, <1>4, <2>1 DEF Overwritten
<1>5. form = [p \in FormFields("wizard") |-> d[p]]
  BY DEF NewSettingsType, FormFields
<1>6. IsTaken(x, d, fields, x.loose, t)
  BY <1>2, <1>4, TakenIs
<1>9. loose \in SUBSET Overwritten /\ x.loose \subseteq loose
      /\ (x.form["network"] # x.cfg["network"] => fields \cap Overwritten \subseteq loose)
  BY <1>2, <1>8 DEF Overwritten
<1>10. t.loose = x.loose
  BY <1>6 DEF IsTaken
<1>1. Leave(s, r, "wizard", form)
  <2>1. loose = IF moved THEN t.loose \cup {"tag"} ELSE t.loose
    BY <1>10
  <2> DEFINE l == IF moved THEN t.loose \cup {"tag"} ELSE t.loose
  <2>2. Leave(s, [t EXCEPT !.loose = l], "wizard", form)
    BY DEF LeaveConfiguration
  <2> HIDE DEF t, moved
  <2> QED
    BY <2>1, <2>2
<1> HIDE DEF d, fields, t, form, loose
<1>11. IsTaken(x, d, fields, loose, r)
  <2>1. /\ r = [f \in Fields |-> r[f]] /\ r.loose = loose
        /\ \A f \in Fields \ {"loose"} : r[f] = t[f]
    BY <1>6 DEF IsTaken, Fields
  <2>2. /\ r.cfg = t.cfg /\ r.edited = t.edited /\ r.typed = t.typed
        /\ r.excused = t.excused
    BY <2>1 DEF Fields
  <2> HIDE DEF r
  <2> QED
    BY <1>6, <2>1, <2>2 DEF IsTaken
<1> HIDE DEF r
<1> QED
  BY <1>1, <1>4, <1>5, <1>7, <1>9, <1>11, LeaveStep

-----------------------------------------------------------------------------
(* The settings file is written. *)

\* A run that goes on without a form, where nothing more is asked of it.
LEMMA MoveInv ==
    ASSUME NEW x, RunInv(x), NEW pc,
           <<x.pc, pc>> \in {<<"open", "write">>, <<"load", "compose">>,
                             <<"load", "flag">>, <<"compose", "flag">>}
    PROVE  /\ RunInv([x EXCEPT !.pc = pc])
           /\ HasUpgraded([x EXCEPT !.pc = pc]) => HasUpgraded(x)
<1> DEFINE y == [x EXCEPT !.pc = pc]
<1>0. \/ x.pc = "open" /\ pc = "write"
      \/ x.pc = "load" /\ pc \in {"compose", "flag"}
      \/ x.pc = "compose" /\ pc = "flag"
  OBVIOUS
<1>1. /\ y = [f \in Fields |-> y[f]] /\ y.pc = pc
      /\ \A f \in Fields \ {"pc"} : y[f] = x[f]
  BY DEF RunInv, RunOK, Fields
<1> HIDE DEF y
<1>2. /\ y.kind = x.kind /\ y.version = x.version /\ y.cfg = x.cfg
      /\ y.form = x.form /\ y.edited = x.edited
      /\ y.typed = x.typed /\ y.shown = x.shown /\ y.upgraded = x.upgraded
      /\ y.stale = x.stale /\ y.excused = x.excused /\ y.loose = x.loose
  BY <1>1 DEF Fields
<1>3. FormFields(x.pc) = FormFields(pc)
  BY <1>0 DEF FormFields
<1>4. RunOK(y)
  BY <1>1, <1>2, <1>3 DEF RunInv, RunOK, FormOK
<1>5. ChoiceOf(y) /\ DefaultOf(y)
  BY <1>0, <1>1, <1>2 DEF RunInv, ChoiceOf, DefaultOf, Editing
<1>6. ShownOf(y)
  BY <1>0, <1>1, <1>2 DEF RunInv, ShownOf
<1>7. HasUpgraded(y) => HasUpgraded(x)
  BY <1>0, <1>1, <1>2 DEF HasUpgraded
<1> QED
  BY <1>4, <1>5, <1>6, <1>7 DEF RunInv, y

LEMMA NoFileFacts ==
    ASSUME NEW state \in {"absent", "torn", "whole"}
    PROVE  /\ [NoFile EXCEPT !.state = state] \in File
           /\ [NoFile EXCEPT !.state = state].state = state
           /\ NoFile \in File /\ NoFile.state = "absent"
<1> DEFINE cfg == GetDefault("mainnet", 1)
<1>1. cfg \in Settings
  BY ConfigurationAssumption, DefaultType DEF ConfigurationAssumption, Networks
<1>2. NoFile = [state |-> "absent", cfg |-> cfg, lost |-> {}]
  BY DEF NoFile
<1> HIDE DEF cfg
<1> QED
  BY <1>1, <1>2 DEF File

LEMMA OpenStep ==
    ASSUME SettingsInv, NEW s \in Runs, Open(s)
    PROVE  SettingsInv'
<1> DEFINE y == [run[s] EXCEPT !.pc = "write"]
<1>1. /\ run[s].pc = "open" /\ file' = [NoFile EXCEPT !.state = "torn"]
      /\ run' = [run EXCEPT ![s] = y]
      /\ UNCHANGED <<upgrade, version, chosen, past>>
  BY DEF Open, SettingsInv, RunInv, RunOK, Fields
<1>2. RunInv(y)
  BY <1>1, MoveInv DEF SettingsInv
<1> HIDE DEF y
<1>3. /\ run' = [t \in Runs |-> run'[t]] /\ run'[s] = y
      /\ \A t \in Runs \ {s} : run'[t] = run[t]
  BY <1>1 DEF SettingsInv
<1>4. file' \in File /\ file'.state = "torn"
  BY <1>1, NoFileFacts
<1>5. ASSUME NEW t \in Runs PROVE RunInv(run[t])'
  <2>1. CASE t = s
    BY <1>1, <1>2, <1>3, <1>4, <2>1, SameRun
  <2>2. CASE t # s
    <3>1. run'[t] = run[t] /\ RunInv(run[t])
      BY <1>3, <2>2 DEF SettingsInv
    <3> QED
      BY <1>1, <1>4, <3>1, SameRun
  <2> QED
    BY <2>1, <2>2
<1>6. SettingsTypeInv' /\ FileChoices' /\ FileDefaults'
  BY <1>1, <1>4 DEF SettingsInv, SettingsTypeInv, FileChoices, FileDefaults
<1> QED
  BY <1>3, <1>5, <1>6 DEF SettingsInv

\* A run that has written the file, or tried to, has nothing more to save.
LEMMA AfterSaveFacts ==
    ASSUME SettingsTypeInv, NEW r, RunInv(r), r.pc = "write"
    PROVE  /\ RunOK(AfterSave(r)) /\ ~Editing(AfterSave(r))
           /\ AfterSave(r).kind = "config" =>
                 r.kind = "config" /\ AfterSave(r).shown = r.shown
<1> DEFINE c == Idle.cfg
           y(pc) == [r EXCEPT !.cfg = c, !.typed = {}, !.excused = {}, !.loose = {},
                              !.pc = pc]
           n == AfterSave(r)
<1>1. \/ n = y("load")
      \/ n = y("compose") /\ r.kind = "start"
      \/ n = Idle
  <2>1. r.kind = "config" => n = y("load")
    BY DEF AfterSave
  <2>2. r.kind = "start" /\ Valid(r.cfg) => n = y("compose")
    BY DEF AfterSave
  <2>3. ~(r.kind = "config") /\ ~(r.kind = "start" /\ Valid(r.cfg)) => n = Idle
    BY DEF AfterSave
  <2> HIDE DEF n, y
  <2> QED
    BY <2>1, <2>2, <2>3
<1>2. c \in Settings /\ RunOK(Idle) /\ ~Editing(Idle) /\ Idle.kind = "start"
  BY IdleInv DEF RunInv, RunOK, Idle, Editing
<1> HIDE DEF c, n
<1>3. ASSUME NEW pc \in {"load", "compose"}
      PROVE  RunOK(y(pc)) /\ ~Editing(y(pc)) /\ y(pc).kind = r.kind /\ y(pc).shown = r.shown
  <2> DEFINE z == y(pc)
  <2>1. /\ z = [f \in Fields |-> z[f]] /\ z.pc = pc /\ z.cfg = c /\ z.typed = {}
        /\ z.excused = {} /\ z.loose = {}
        /\ \A f \in Fields \ {"pc", "cfg", "typed", "excused", "loose"} : z[f] = r[f]
    BY DEF RunInv, RunOK, Fields
  <2> HIDE DEF z
  <2>2. /\ z.kind = r.kind /\ z.version = r.version /\ z.form = r.form
        /\ z.edited = r.edited /\ z.shown = r.shown /\ z.upgraded = r.upgraded
        /\ z.stale = r.stale
    BY <2>1 DEF Fields
  <2>3. FormOK(z)
    <3>1. FormFields(pc) = {} /\ FormFields(r.pc) = {}
      BY DEF FormFields
    <3> QED
      BY <2>1, <2>2, <3>1 DEF RunInv, RunOK, FormOK
  <2>4. RunOK(z)
    BY <1>2, <2>1, <2>2, <2>3 DEF RunInv, RunOK
  <2> QED
    BY <2>1, <2>2, <2>4 DEF Editing, z
<1> HIDE DEF y
<1> QED
  BY <1>1, <1>2, <1>3 DEF n

\* The runs after the file was written by one of them, which is next.
LEMMA WrittenRuns ==
    ASSUME SettingsInv, NEW s \in Runs, NEW next, run' = Written(s, next),
           UNCHANGED <<upgrade, version>>, RunOK(next), ~Editing(next),
           next.kind = "config" /\ file'.state = "whole" =>
               file'.lost = {} /\ Matches(file'.cfg, next.shown)
    PROVE  /\ run' = [t \in Runs |-> run'[t]]
           /\ \A t \in Runs : RunInv(run[t])'
<1>1. /\ run' = [t \in Runs |-> run'[t]] /\ run'[s] = next
      /\ \A t \in Runs \ {s} :
            run'[t] = IF run[t].pc = "none" THEN run[t] ELSE [run[t] EXCEPT !.stale = TRUE]
  BY DEF Written
<1>2. ASSUME NEW t \in Runs PROVE RunInv(run[t])'
  <2>1. CASE t = s
    <3>1. RunOK(run[t])'
      BY <1>1, <2>1 DEF RunOK
    <3>2. ChoiceOf(run[t])' /\ DefaultOf(run[t])'
      BY <1>1, <2>1 DEF ChoiceOf, DefaultOf, Editing
    <3>3. ShownOf(run[t])'
      BY <1>1, <2>1 DEF ShownOf, Editing
    <3> QED
      BY <3>1, <3>2, <3>3 DEF RunInv
  <2>2. CASE t # s
    <3>1. RunInv(run[t])
      BY DEF SettingsInv
    <3> QED
      BY <1>1, <2>2, <3>1, StaleRun
  <2> QED
    BY <2>1, <2>2
<1> QED
  BY <1>1, <1>2

\* What a run has saved is what the operator has set.
LEMMA KeepFacts ==
    ASSUME SettingsTypeInv, FileChoices, NEW r, RunOK(r), ChoiceOf(r), Editing(r)
    PROVE  /\ DOMAIN Keep(r) \subseteq Params
           /\ \A p \in DOMAIN Keep(r) \cap Overwritten : Keep(r)[p] = Typed
           /\ \A p \in DOMAIN Keep(r) \cap r.typed : Keep(r)[p] = r.cfg[p]
           /\ ~r.stale =>
                 \A p \in DOMAIN Keep(r) \ (past.excused \cup r.excused \cup r.typed) :
                     Keep(r)[p] = r.cfg[p]
           /\ \A p \in Overwritten \ DOMAIN Keep(r) :
                 /\ p \in r.typed => r.cfg[p] = Blank
                 /\ p \notin r.typed => r.upgraded \/ p \notin DOMAIN chosen
<1> DEFINE blank == {p \in r.typed \cap Overwritten : r.cfg[p] = Blank}
           over == IF r.upgraded THEN Overwritten \ r.typed ELSE {}
           reset == blank \cup over
           k == Keep(r)
<1>1. k = [p \in (DOMAIN chosen \cup r.typed) \ reset |->
              IF p \in r.typed THEN r.cfg[p] ELSE chosen[p]]
  BY DEF Keep
<1>2. /\ DOMAIN chosen \subseteq Params /\ r.typed \subseteq Params
      /\ \A p \in DOMAIN chosen \cap Overwritten : chosen[p] = Typed
      /\ \A p \in r.typed \cap Overwritten : r.cfg[p] \in {Typed, Blank}
      /\ ~r.stale =>
            \A p \in DOMAIN chosen \ (past.excused \cup r.excused \cup r.typed) :
                (r.upgraded /\ p \in Overwritten) \/ r.cfg[p] = chosen[p]
  BY DEF SettingsTypeInv, FileChoices, RunOK, ChoiceOf
<1>3. /\ \A p \in blank : p \in r.typed \cap Overwritten /\ r.cfg[p] = Blank
      /\ \A p \in r.typed \cap Overwritten : r.cfg[p] = Blank => p \in reset
      /\ r.upgraded => Overwritten \ r.typed \subseteq reset
      /\ \A p \in reset : p \in blank \/ (r.upgraded /\ p \in Overwritten \ r.typed)
  OBVIOUS
<1> HIDE DEF k, reset, over
<1>4. /\ DOMAIN k = (DOMAIN chosen \cup r.typed) \ reset
      /\ \A p \in DOMAIN k : k[p] = IF p \in r.typed THEN r.cfg[p] ELSE chosen[p]
  BY <1>1
<1>5. \A p \in DOMAIN k \cap Overwritten : k[p] = Typed
  BY <1>2, <1>3, <1>4
<1>6. ~r.stale =>
          \A p \in DOMAIN k \ (past.excused \cup r.excused \cup r.typed) : k[p] = r.cfg[p]
  BY <1>2, <1>3, <1>4
<1>7. \A p \in Overwritten \ DOMAIN k :
          /\ p \in r.typed => r.cfg[p] = Blank
          /\ p \notin r.typed => r.upgraded \/ p \notin DOMAIN chosen
  BY <1>3, <1>4
<1> QED
  BY <1>2, <1>4, <1>5, <1>6, <1>7 DEF k

LEMMA WriteStep ==
    ASSUME SettingsInv, NEW s \in Runs, Write(s)
    PROVE  SettingsInv'
<1> DEFINE r == run[s]
           k == Keep(r)
           excused == (IF r.stale THEN Params ELSE past.excused \cup r.excused) \ r.typed
           loose == IF r.stale \/ r.version < version THEN Overwritten ELSE r.loose
           whole == [state |-> "whole", cfg |-> r.cfg, lost |-> {}]
           n == AfterSave(r)
<1>1. /\ r.pc = "write" /\ chosen' = k
      /\ past' = [excused |-> excused, loose |-> loose]
      /\ run' = Written(s, n) /\ UNCHANGED <<upgrade, version>>
      /\ file' = whole \/ file' = [NoFile EXCEPT !.state = "torn"]
  BY DEF Write
<1>2. RunInv(r) /\ SettingsTypeInv /\ FileChoices
  BY DEF SettingsInv
<1>3. /\ RunOK(r) /\ ChoiceOf(r) /\ DefaultOf(r) /\ ShownOf(r) /\ Editing(r)
      /\ r.cfg \in Settings /\ r.typed \subseteq Params /\ r.excused \subseteq Params
      /\ r.loose \subseteq Overwritten /\ r.version \in 1..version /\ version \in Nat
  BY <1>1, <1>2 DEF RunInv, RunOK, Editing, SettingsTypeInv
<1>4. /\ RunOK(n) /\ ~Editing(n)
      /\ n.kind = "config" => r.kind = "config" /\ n.shown = r.shown
  BY <1>1, <1>2, AfterSaveFacts
<1>5. /\ DOMAIN k \subseteq Params
      /\ \A p \in DOMAIN k \cap Overwritten : k[p] = Typed
      /\ \A p \in DOMAIN k \cap r.typed : k[p] = r.cfg[p]
      /\ ~r.stale => \A p \in DOMAIN k \ (past.excused \cup r.excused \cup r.typed) :
                         k[p] = r.cfg[p]
      /\ \A p \in Overwritten \ DOMAIN k :
            /\ p \in r.typed => r.cfg[p] = Blank
            /\ p \notin r.typed => r.upgraded \/ p \notin DOMAIN chosen
  BY <1>2, <1>3, KeepFacts
<1>6. r.version = version /\ ~r.stale =>
          \A p \in Overwritten \ (r.loose \cup r.typed) :
              (~r.upgraded /\ p \in DOMAIN chosen) \/ Current(r.cfg, r.version, p)
  BY <1>3 DEF DefaultOf
<1>7. r.kind = "config" => Matches(r.cfg, r.shown)
  BY <1>1, <1>3 DEF ShownOf
<1>8. past.excused \subseteq Params
  BY <1>2 DEF SettingsTypeInv
<1> HIDE DEF r, k, n
<1>9. /\ file' \in File
      /\ file'.state = "whole" => file'.cfg = r.cfg /\ file'.lost = {}
      /\ file'.state # "absent"
  <2>1. CASE file' = whole
    BY <1>3, <2>1 DEF File
  <2>2. CASE file' = [NoFile EXCEPT !.state = "torn"]
    BY <2>2, NoFileFacts
  <2> QED
    BY <1>1, <2>1, <2>2
<1>10. /\ past'.excused = excused /\ past'.loose = loose
       /\ past' \in [excused : SUBSET Params, loose : SUBSET Overwritten]
  <2>1. excused \subseteq Params /\ loose \subseteq Overwritten
    BY <1>3, <1>8
  <2> HIDE DEF excused, loose
  <2> QED
    BY <1>1, <2>1
<1>11. SettingsTypeInv'
  BY <1>1, <1>2, <1>5, <1>9, <1>10 DEF SettingsTypeInv
<1>12. FileChoices'
  <2>1. ASSUME NEW p \in DOMAIN k \ excused PROVE r.cfg[p] = k[p]
    BY <1>5, <2>1
  <2> HIDE DEF excused
  <2> QED
    BY <1>1, <1>5, <1>9, <1>10, <2>1 DEF FileChoices
<1>13. FileDefaults'
  <2>1. ASSUME NEW p \in Overwritten \ (loose \cup DOMAIN k)
        PROVE  r.cfg[p] = Blank \/ Current(r.cfg, version, p)
    <3>1. ~r.stale /\ r.version = version /\ p \notin r.loose
      BY <1>3, <2>1
    <3> QED
      BY <1>5, <1>6, <2>1, <3>1
  <2> HIDE DEF loose
  <2> QED
    BY <1>1, <1>9, <1>10, <2>1 DEF FileDefaults, Current
<1>14. n.kind = "config" /\ file'.state = "whole" =>
           file'.lost = {} /\ Matches(file'.cfg, n.shown)
  BY <1>4, <1>7, <1>9
<1>15. /\ run' = [t \in Runs |-> run'[t]]
       /\ \A t \in Runs : RunInv(run[t])'
  BY <1>1, <1>4, <1>14, WrittenRuns
<1> QED
  BY <1>11, <1>12, <1>13, <1>15 DEF SettingsInv

LEMMA WriteFailsStep ==
    ASSUME SettingsInv, NEW s \in Runs, WriteFails(s)
    PROVE  SettingsInv'
<1> DEFINE r == run[s]
           n == IF r.kind = "start" THEN AfterSave(r) ELSE Idle
<1>1. /\ r.pc = "write" /\ past' = [excused |-> Params, loose |-> Overwritten]
      /\ run' = Written(s, n) /\ UNCHANGED <<upgrade, version, chosen>>
      /\ \/ file' = [NoFile EXCEPT !.state = "torn"]
         \/ \E lost \in Cuts : file' = [state |-> "whole", cfg |-> r.cfg, lost |-> lost]
  BY DEF WriteFails
<1>2. RunInv(r) /\ SettingsTypeInv /\ FileChoices /\ r.cfg \in Settings
  BY DEF SettingsInv, RunInv, RunOK
<1>3. RunOK(n) /\ ~Editing(n) /\ n.kind # "config"
  <2>1. RunOK(Idle) /\ ~Editing(Idle) /\ Idle.kind = "start"
    BY <1>2, IdleInv DEF RunInv, Idle, Editing
  <2>2. RunOK(AfterSave(r)) /\ ~Editing(AfterSave(r))
        /\ (AfterSave(r).kind = "config" => r.kind = "config")
    BY <1>1, <1>2, AfterSaveFacts
  <2> QED
    BY <2>1, <2>2
<1> HIDE DEF r, n
<1>4. file' \in File /\ file'.state # "absent"
  <2>1. CASE file' = [NoFile EXCEPT !.state = "torn"]
    BY <2>1, NoFileFacts
  <2>2. ASSUME NEW lost \in Cuts,
               file' = [state |-> "whole", cfg |-> r.cfg, lost |-> lost]
        PROVE  file' \in File /\ file'.state # "absent"
    BY <1>2, <2>2 DEF File
  <2> QED
    BY <1>1, <2>1, <2>2
<1>5. /\ past'.excused = Params /\ past'.loose = Overwritten
      /\ past' \in [excused : SUBSET Params, loose : SUBSET Overwritten]
  BY <1>1
<1>6. SettingsTypeInv'
  BY <1>1, <1>2, <1>4, <1>5 DEF SettingsTypeInv
<1>7. FileChoices' /\ FileDefaults'
  <2>1. DOMAIN chosen \subseteq Params
    BY <1>2 DEF SettingsTypeInv
  <2> QED
    BY <1>1, <1>2, <1>4, <1>5, <2>1 DEF FileChoices, FileDefaults
<1>8. /\ run' = [t \in Runs |-> run'[t]]
      /\ \A t \in Runs : RunInv(run[t])'
  BY <1>1, <1>3, WrittenRuns
<1> QED
  BY <1>6, <1>7, <1>8 DEF SettingsInv

-----------------------------------------------------------------------------
(* The services are started, and what comes from outside. *)

\* A run that only changes its step.
LEMMA MoveStep ==
    ASSUME SettingsInv, NEW s \in Runs, UNCHANGED <<file, upgrade, version, chosen, past>>,
           NEW pc, run' = [run EXCEPT ![s] = [run[s] EXCEPT !.pc = pc]],
           <<run[s].pc, pc>> \in {<<"open", "write">>, <<"load", "compose">>,
                                  <<"load", "flag">>, <<"compose", "flag">>}
    PROVE  SettingsInv'
<1> DEFINE y == [run[s] EXCEPT !.pc = pc]
<1>1. RunInv(y) /\ (HasUpgraded(y) => HasUpgraded(run[s])) /\ run' = [run EXCEPT ![s] = y]
  BY MoveInv DEF SettingsInv
<1> HIDE DEF y
<1> QED
  BY <1>1, PrivateStep

LEMMA EndStep ==
    ASSUME SettingsInv, NEW s \in Runs, UNCHANGED <<file, upgrade, version, chosen, past>>,
           run' = [run EXCEPT ![s] = Idle]
    PROVE  SettingsInv'
<1>1. RunInv(Idle) /\ ~HasUpgraded(Idle)
  BY IdleInv DEF SettingsInv
<1> QED
  BY <1>1, PrivateStep

LEMMA ReloadStep ==
    ASSUME SettingsInv, NEW s \in Runs, Reload(s)
    PROVE  SettingsInv'
<1>1. /\ run[s].pc = "load" /\ UNCHANGED <<file, upgrade, version, chosen, past>>
      /\ \/ run' = [run EXCEPT ![s] = Idle]
         \/ run' = [run EXCEPT ![s] = [run[s] EXCEPT !.pc = "compose"]]
         \/ run' = [run EXCEPT ![s] = [run[s] EXCEPT !.pc = "flag"]]
  BY DEF Reload
<1> QED
  BY <1>1, EndStep, MoveStep

LEMMA StartServiceStep ==
    ASSUME SettingsInv, NEW s \in Runs, StartService(s) \/ StartFails(s)
    PROVE  SettingsInv'
<1>1. /\ run[s].pc = "compose" /\ UNCHANGED <<file, upgrade, version, chosen, past>>
      /\ \/ run' = [run EXCEPT ![s] = Idle]
         \/ run' = [run EXCEPT ![s] = [run[s] EXCEPT !.pc = "flag"]]
  BY DEF StartService, StartFails
<1> QED
  BY <1>1, EndStep, MoveStep

\* The flag goes, and with it what was known of the defaults, unless the run that
\* removes it has upgraded them.
LEMMA UpgradeFlagStep ==
    ASSUME SettingsInv, NEW s \in Runs, RemoveUpgradeFlagFile(s)
    PROVE  SettingsInv'
<1> DEFINE r == run[s]
           upgraded == r.upgraded /\ r.version = version
           loose == IF upgrade /\ ~upgraded THEN Overwritten ELSE past.loose
<1>1. /\ r.pc = "flag" /\ upgrade' = FALSE
      /\ past' = [past EXCEPT !.loose = loose]
      /\ run' = [run EXCEPT ![s] = Idle]
      /\ UNCHANGED <<file, version, chosen>>
  BY DEF RemoveUpgradeFlagFile
<1>2. SettingsTypeInv /\ RunInv(Idle)
  BY IdleInv DEF SettingsInv
<1>3. /\ loose \subseteq Overwritten
      /\ past.loose = Overwritten => loose = Overwritten
      /\ loose # Overwritten => loose = past.loose /\ (~upgrade \/ upgraded)
  BY <1>2 DEF SettingsTypeInv
<1>4. upgraded => HasUpgraded(run[s])
  BY <1>1 DEF HasUpgraded
<1> HIDE DEF loose, upgraded
<1>5. /\ past' \in [excused : SUBSET Params, loose : SUBSET Overwritten]
      /\ past'.excused = past.excused /\ past'.loose = loose
  BY <1>1, <1>2, <1>3 DEF SettingsTypeInv
<1>6. SettingsTypeInv' /\ FileChoices'
  BY <1>1, <1>2, <1>5 DEF SettingsInv, SettingsTypeInv, FileChoices
<1>7. FileDefaults'
  BY <1>1, <1>3, <1>4, <1>5 DEF SettingsInv, FileDefaults, Current
<1>8. /\ run' = [t \in Runs |-> run'[t]] /\ run'[s] = Idle
      /\ \A t \in Runs \ {s} : run'[t] = run[t]
  BY <1>1 DEF SettingsInv
<1>9. ASSUME NEW t \in Runs PROVE RunInv(run[t])'
  <2>1. RunInv(run'[t])
    BY <1>2, <1>8 DEF SettingsInv
  <2>2. RunOK(run[t])' /\ ChoiceOf(run[t])'
    BY <1>1, <1>5, <2>1 DEF RunInv, RunOK, FormOK, ChoiceOf, Editing
  <2>3. DefaultOf(run[t])' /\ ShownOf(run[t])'
    BY <1>1, <2>1 DEF RunInv, DefaultOf, ShownOf, Editing, Current
  <2> QED
    BY <2>2, <2>3 DEF RunInv
<1> QED
  BY <1>6, <1>7, <1>8, <1>9 DEF SettingsInv

\* Nothing is of a version that was just installed.
LEMMA InstallStep ==
    ASSUME SettingsInv, Install
    PROVE  SettingsInv'
<1>1. /\ version' = version + 1 /\ upgrade' = TRUE /\ version < MaxVersion
      /\ UNCHANGED <<file, run, chosen, past>>
  BY DEF Install
<1>2. version \in 1..MaxVersion /\ version' \in 1..MaxVersion /\ MaxVersion \in Nat
  BY <1>1, ConfigurationAssumption DEF ConfigurationAssumption, SettingsInv, SettingsTypeInv
<1>3. ASSUME NEW t \in Runs
      PROVE  /\ run[t].version \in 1..version' /\ run[t].version # version'
             /\ RunOK(run[t]) /\ ChoiceOf(run[t]) /\ ShownOf(run[t])
  <2>1. run[t].version \in 1..version
    BY DEF SettingsInv, RunInv, RunOK
  <2> QED
    BY <1>1, <1>2, <2>1 DEF SettingsInv, RunInv
<1>4. SettingsTypeInv' /\ FileChoices'
  BY <1>1, <1>2 DEF SettingsInv, SettingsTypeInv, FileChoices
<1>5. FileDefaults'
  <2>1. \A t \in Runs : ~HasUpgraded(run[t])'
    BY <1>1, <1>3 DEF HasUpgraded
  <2> QED
    BY <1>1, <2>1 DEF SettingsInv, FileDefaults
<1>6. ASSUME NEW t \in Runs PROVE RunInv(run[t])'
  <2>1. RunOK(run[t])'
    BY <1>1, <1>3 DEF RunOK, FormOK
  <2>2. ChoiceOf(run[t])' /\ ShownOf(run[t])'
    BY <1>1, <1>3 DEF ChoiceOf, ShownOf, Editing
  <2>3. DefaultOf(run[t])'
    BY <1>1, <1>3 DEF DefaultOf
  <2> QED
    BY <2>1, <2>2, <2>3 DEF RunInv
<1> QED
  BY <1>1, <1>4, <1>5, <1>6 DEF SettingsInv

LEMMA StartOverStep ==
    ASSUME SettingsInv, StartOver
    PROVE  SettingsInv'
<1>1. /\ file' = NoFile /\ chosen' = NoForm
      /\ past' = [excused |-> {}, loose |-> {}]
      /\ run' = [s \in Runs |->
            IF run[s].pc = "none" THEN Idle ELSE [run[s] EXCEPT !.stale = TRUE]]
      /\ UNCHANGED <<upgrade, version>>
  BY DEF StartOver
<1>2. file' \in File /\ file'.state = "absent" /\ DOMAIN chosen' = {}
  BY <1>1, NoFileFacts DEF NoForm
<1>3. SettingsTypeInv' /\ FileChoices' /\ FileDefaults'
  BY <1>1, <1>2 DEF SettingsInv, SettingsTypeInv, FileChoices, FileDefaults
<1>4. ASSUME NEW t \in Runs PROVE RunInv(run[t])'
  <2>1. CASE run[t].pc = "none"
    <3>1. run'[t] = Idle
      BY <1>1, <2>1
    <3>2. RunOK(Idle) /\ ~Editing(Idle) /\ Idle.kind = "start"
      BY IdleInv DEF SettingsInv, RunInv, Idle, Editing
    <3>3. RunOK(run[t])'
      BY <1>1, <3>1, <3>2 DEF RunOK
    <3>4. ChoiceOf(run[t])' /\ DefaultOf(run[t])' /\ ShownOf(run[t])'
      BY <3>1, <3>2 DEF ChoiceOf, DefaultOf, ShownOf, Editing
    <3> QED
      BY <3>3, <3>4 DEF RunInv
  <2>2. CASE run[t].pc # "none"
    <3>1. run'[t] = IF run[t].pc = "none" THEN run[t] ELSE [run[t] EXCEPT !.stale = TRUE]
      BY <1>1, <2>2
    <3> QED
      BY <1>1, <3>1, StaleRun DEF SettingsInv
  <2> QED
    BY <2>1, <2>2
<1>5. run' = [t \in Runs |-> run'[t]]
  BY <1>1
<1> QED
  BY <1>3, <1>4, <1>5 DEF SettingsInv

-----------------------------------------------------------------------------
(* The theorems. *)

LEMMA SettingsInitInv == SettingsInit => SettingsInv
<1> SUFFICES ASSUME SettingsInit PROVE SettingsInv
  OBVIOUS
<1>1. /\ file = NoFile /\ upgrade = TRUE /\ version = 1
      /\ run = [s \in Runs |-> Idle] /\ chosen = NoForm
      /\ past = [excused |-> {}, loose |-> {}]
  BY DEF SettingsInit
<1>2. file \in File /\ file.state = "absent" /\ DOMAIN chosen = {}
  BY <1>1, NoFileFacts DEF NoForm
<1>3. version \in 1..MaxVersion
  BY <1>1, ConfigurationAssumption DEF ConfigurationAssumption
<1>4. SettingsTypeInv /\ FileChoices /\ FileDefaults
  BY <1>1, <1>2, <1>3 DEF SettingsTypeInv, FileChoices, FileDefaults
<1>5. RunInv(Idle)
  BY <1>4, IdleInv
<1> QED
  BY <1>1, <1>4, <1>5 DEF SettingsInv

LEMMA SettingsInductive == SettingsInv /\ [SettingsNext]_settingsVars => SettingsInv'
<1> SUFFICES ASSUME SettingsInv, [SettingsNext]_settingsVars PROVE SettingsInv'
  OBVIOUS
<1>1. ASSUME NEW s \in Runs,
             \/ loadConfig(s)
             \/ \E p \in Params : \E value \in Values(p) : configureHeadless(s, p, value)
             \/ \E p \in ShownIn(run[s].form) : \E value \in Values(p) : Edit(s, p, value)
             \/ \E mode \in {"start", "resync"} : startService(s, mode)
             \/ LeaveWizard(s) \/ LeaveConfiguration(s)
      PROVE  SettingsInv'
  BY <1>1, LoadConfigStep, HeadlessStep, EditStep, StartStep, LeaveWizardStep, LeavePageStep
<1>2. ASSUME NEW s \in Runs, Open(s) \/ Write(s) \/ WriteFails(s)
      PROVE  SettingsInv'
  BY <1>2, OpenStep, WriteStep, WriteFailsStep
<1>3. ASSUME NEW s \in Runs,
             \/ Reload(s) \/ StartService(s) \/ StartFails(s)
             \/ RemoveUpgradeFlagFile(s) \/ Kill(s)
      PROVE  SettingsInv'
  <2>1. CASE Kill(s)
    BY <2>1, EndStep DEF Kill
  <2> QED
    BY <1>3, <2>1, ReloadStep, StartServiceStep, UpgradeFlagStep
<1>4. CASE Install \/ StartOver
  BY <1>4, InstallStep, StartOverStep
<1>5. CASE UNCHANGED settingsVars
  <2>1. ASSUME NEW t \in Runs PROVE RunInv(run[t])'
    <3>1. run'[t] = run[t] /\ RunInv(run[t])
      BY <1>5 DEF settingsVars, SettingsInv
    <3> QED
      BY <1>5, <3>1, SameRun DEF settingsVars
  <2>2. SettingsTypeInv' /\ FileChoices'
    BY <1>5 DEF settingsVars, SettingsInv, SettingsTypeInv, FileChoices
  <2>3. FileDefaults'
    BY <1>5 DEF settingsVars, SettingsInv, FileDefaults, HasUpgraded, Current
  <2>4. run' = [t \in Runs |-> run'[t]]
    BY <1>5 DEF settingsVars, SettingsInv
  <2> QED
    BY <2>1, <2>2, <2>3, <2>4 DEF SettingsInv
<1> QED
  BY <1>1, <1>2, <1>3, <1>4, <1>5 DEF SettingsNext

\* Every state of Configuration has the declared types, and a form its own fields.
THEOREM SettingsTypeCorrect == SettingsSpec => []SettingsTypeOK
<1>1. SettingsInv => SettingsTypeOK
  <2> SUFFICES ASSUME SettingsInv PROVE SettingsTypeOK
    OBVIOUS
  <2>1. ASSUME NEW s \in Runs
        PROVE  /\ run[s].cfg \in Settings /\ run[s].version \in 1..version
               /\ DOMAIN run[s].form = FormFields(run[s].pc)
               /\ run[s].edited \subseteq DOMAIN run[s].form
               /\ run[s].typed \cup run[s].excused \cup DOMAIN chosen \subseteq Params
               /\ run[s].typed \cap run[s].excused = {}
    <3>1. RunOK(run[s]) /\ FormOK(run[s]) /\ DOMAIN chosen \subseteq Params
      BY DEF SettingsInv, SettingsTypeInv, RunInv, RunOK
    <3>2. DOMAIN run[s].form = FormFields(run[s].pc)
      BY <3>1 DEF FormOK
    <3> QED
      BY <3>1, <3>2 DEF RunOK, FormOK
  <2>2. /\ file \in File /\ upgrade \in BOOLEAN /\ version \in 1..MaxVersion
        /\ past \in [excused : SUBSET Params, loose : SUBSET Overwritten]
    BY DEF SettingsInv, SettingsTypeInv
  <2> QED
    BY <2>1, <2>2 DEF SettingsTypeOK, FormFields
<1> QED
  BY <1>1, SettingsInitInv, SettingsInductive, PTL DEF SettingsSpec

\* What the operator has set is what is loaded, save for what ChoiceKept excepts,
\* in whatever order any number of runs load, save, upgrade and are killed.
THEOREM ChoicesAreKept == SettingsSpec => []ChoiceKept
<1>1. SettingsInv => ChoiceKept
  BY LoadedFacts DEF SettingsInv, ChoiceKept
<1> QED
  BY <1>1, SettingsInitInv, SettingsInductive, PTL DEF SettingsSpec

\* Once the upgrade flag is gone, the container tags that the operator has not set
\* are those of the installed version, save for what DefaultsCurrent excepts.
THEOREM DefaultsAreCurrent == SettingsSpec => []DefaultsCurrent
<1>1. SettingsInv => DefaultsCurrent
  <2> SUFFICES ASSUME SettingsInv, file.state = "whole", file.lost = {}, ~upgrade,
                      NEW p \in Overwritten \ (past.loose \cup DOMAIN chosen)
               PROVE  LoadConfig(version)[p]
                        = GetDefault(LoadConfig(version).network, version)[p]
    BY DEF DefaultsCurrent
  <2>1. /\ LoadConfig(version) \in Settings
        /\ Current(LoadConfig(version), version, p)
    BY LoadedFacts DEF SettingsInv
  <2>2. /\ LoadConfig(version).network \in Networks /\ version \in 1..MaxVersion
    BY <2>1, NetworkOf DEF SettingsInv, SettingsTypeInv
  <2> QED
    BY <2>1, <2>2, DefaultFacts DEF Current
<1> QED
  BY <1>1, SettingsInitInv, SettingsInductive, PTL DEF SettingsSpec

\* The services are started with what the last form showed, but for the fields
\* that Unheeded names, if no other run has written the file since.
THEOREM StartsAsShown == SettingsSpec => StartedAsShown
<1>1. ASSUME SettingsInv, NEW s \in Runs, run[s].pc = "compose", run[s].kind = "config",
             ~run[s].stale, file.state = "whole",
             NEW field \in DOMAIN run[s].shown
      PROVE  GenerateEnvironmentVariables(LoadConfig(run[s].version))[field]
               = run[s].shown[field]
  <2> DEFINE c == file.cfg
             d == LoadConfig(run[s].version)
  <2>1. file.lost = {} /\ Matches(c, run[s].shown)
    BY <1>1 DEF SettingsInv, RunInv, ShownOf
  <2>2. file \in File /\ run[s].version \in 1..MaxVersion
    BY <1>1, RunFacts DEF SettingsInv, SettingsTypeInv
  <2>3. \A p \in Params \ Overwritten : d[p] = c[p]
    BY <1>1, <2>1, <2>2, DeserializeFacts DEF LoadConfig
  <2>4. GenerateEnvironmentVariables(d) = GenerateEnvironmentVariables(c)
    BY <2>3, SameEnvironment
  <2> QED
    BY <1>1, <2>1, <2>4 DEF Matches
<1> DEFINE AsShown ==
      \A s \in Runs :
          (/\ run[s].pc = "compose" /\ run'[s].pc = "flag"
           /\ run[s].kind = "config" /\ ~run[s].stale /\ file.state = "whole")
          => LET env == GenerateEnvironmentVariables(LoadConfig(run[s].version))
             IN  \A field \in DOMAIN run[s].shown : env[field] = run[s].shown[field]
<1>2. SettingsInv /\ [SettingsNext]_settingsVars => [AsShown]_settingsVars
  BY <1>1
<1> QED
  BY <1>2, SettingsInitInv, SettingsInductive, PTL DEF SettingsSpec, StartedAsShown

=============================================================================
