--------------------------- MODULE ClientManager ---------------------------
(***************************************************************************)
(* The manager of one kind of chain client in the node daemon: a primary   *)
(* client, perhaps a fallback, and two readiness flags that the daemon's   *)
(* loops share without a lock. kind is "EC" for ExecutionClientManager and *)
(* "BC" for BeaconClientManager; the daemon has one of each, and they have *)
(* no state in common.                                                     *)
(*                                                                         *)
(* Every loop waits for the client to be synced, which refreshes the flags *)
(* under a mutex, then makes its calls, which may lower a flag under none, *)
(* and sleeps. A request to a client and the use of its answer are two     *)
(* steps: anything may happen between them.                                *)
(***************************************************************************)
EXTENDS Naturals

CONSTANTS
    Threads,  \* the loops of the daemon
    Kinds,    \* the managers that are considered, "EC" and "BC"
    Healths,  \* the conditions of a client that are considered
    NoThread  \* the holder of a free mutex

ASSUME ClientAssumption ==
    /\ NoThread \notin Threads
    /\ Kinds \subseteq {"EC", "BC"}

Clients == {"primary", "fallback"}

(* What a client does: it is in sync, says that it is syncing, says that it
   is in sync with an old head, answers with errors, or refuses connections. *)
AllHealths == {"synced", "syncing", "stale", "failing", "down"}

ASSUME HealthAssumption == Healths \subseteq AllHealths

VARIABLES
    kind,        \* which manager it is
    enabled,     \* a fallback is configured
    rightChain,  \* the fallback is on the node's network
    health,      \* [Clients -> the condition of the client]
    ready,       \* [Clients -> BOOLEAN], primaryReady and fallbackReady
    lock,        \* the thread that holds the sync mutex
    thread,      \* [Threads -> state of the loop]
    usable       \* history: [Threads -> clients in sync with their flag up
                 \*           since its call began]

config == <<kind, enabled, rightChain>>
vars == <<config, health, ready, lock, thread, usable>>

WaitPcs == {"probe", "flag", "probe2", "flag2", "decide", "poll"}
CallPcs == {"begin", "primary", "drop", "second", "fallback", "drop2"}
Pcs == {"sleep", "lock", "work"} \cup WaitPcs \cup CallPcs

Nobody == "nobody"
Unseen == [c \in Clients |-> Nobody]

Thread == [
    pc     : Pcs,
    seen   : [Clients -> AllHealths \cup {Nobody}],  \* answers to its check
    target : Clients \cup {Nobody},   \* the client its wait polls
    by     : Clients \cup {Nobody},   \* who answered its last call
    out    : {"none", "ok", "error", "unready", "failed", "unsynced"}]

TypeOK ==
    /\ kind \in Kinds
    /\ enabled \in BOOLEAN
    /\ rightChain \in BOOLEAN
    /\ health \in [Clients -> AllHealths]
    /\ ready \in [Clients -> BOOLEAN]
    /\ lock \in Threads \cup {NoThread}
    /\ thread \in [Threads -> Thread]
    /\ usable \in [Threads -> SUBSET Clients]

\* Only an Execution client's head is compared with the clock.
Conditions == IF kind = "EC" THEN Healths ELSE Healths \ {"stale"}

\* Both clients are taken to be ready until they are checked.
Init ==
    /\ kind \in Kinds
    /\ enabled \in BOOLEAN
    /\ rightChain \in (IF enabled /\ kind = "EC" THEN BOOLEAN ELSE {TRUE})
    /\ health \in [Clients -> Conditions]
    /\ ready = [c \in Clients |-> c = "primary" \/ enabled]
    /\ lock = NoThread
    /\ thread = [t \in Threads |->
                    [pc |-> "lock", seen |-> Unseen, target |-> Nobody,
                     by |-> Nobody, out |-> "none"]]
    /\ usable = [t \in Threads |-> {}]

Goto(t, pc) == thread' = [thread EXCEPT ![t].pc = pc]

\* The flags are set, and a call cannot count any longer on one that is down.
SetFlags(flags) ==
    /\ ready' = flags
    /\ usable' = [t \in Threads |-> {c \in usable[t] : flags[c]}]

-----------------------------------------------------------------------------
(* WaitEthClientSynced, WaitBeaconClientSynced *)

\* Seeded fault: the wait does not take the mutex.
EnterWait(t) ==
    /\ thread[t].pc = "lock"
    /\ thread' = [thread EXCEPT ![t].pc = "probe"]
    /\ UNCHANGED <<config, health, ready, lock, usable>>

Lock(t) ==
    /\ thread[t].pc = "lock"
    /\ lock = NoThread
    /\ lock' = t
    /\ thread' = [thread EXCEPT ![t].pc = "probe"]
    /\ UNCHANGED <<config, health, ready, usable>>

\* CheckStatus sends its requests one after the other. That of the Execution
\* clients raises or lowers the primary's flag before it asks the fallback.
ProbePrimary(t) ==
    /\ thread[t].pc = "probe"
    /\ thread' = [thread EXCEPT
                    ![t].seen["primary"] = health["primary"],
                    ![t].pc = IF kind = "EC" THEN "flag" ELSE "probe2"]
    /\ UNCHANGED <<config, health, ready, lock, usable>>

\* Seeded fault: a flag that went down is not raised again.
LowerPrimary(t) ==
    /\ thread[t].pc = "flag"
    /\ SetFlags([ready EXCEPT !["primary"] =
                                @ /\ thread[t].seen["primary"] = "synced"])
    /\ Goto(t, "probe2")
    /\ UNCHANGED <<config, health, lock>>

FlagPrimary(t) ==
    /\ thread[t].pc = "flag"
    /\ SetFlags([ready EXCEPT !["primary"] = thread[t].seen["primary"] = "synced"])
    /\ Goto(t, "probe2")
    /\ UNCHANGED <<config, health, lock>>

ProbeFallback(t) ==
    /\ thread[t].pc = "probe2"
    /\ thread' = [thread EXCEPT
                    ![t].seen["fallback"] =
                        IF enabled THEN health["fallback"] ELSE Nobody,
                    ![t].pc = "flag2"]
    /\ UNCHANGED <<config, health, ready, lock, usable>>

\* Seeded faults: the network of the fallback is not compared with the node's,
\* or it must differ.
FallbackReadyAnyChain(t) == thread[t].seen["fallback"] = "synced"
FallbackReadyOtherChain(t) ==
    /\ thread[t].seen["fallback"] = "synced"
    /\ kind = "EC" => ~rightChain

\* The network of a fallback Execution client is compared with the node's.
FallbackReady(t) ==
    /\ thread[t].seen["fallback"] = "synced"
    /\ kind = "EC" => rightChain

FlagClients(t) ==
    /\ thread[t].pc = "flag2"
    /\ SetFlags([c \in Clients |->
                    CASE c = "fallback" -> FallbackReady(t)
                      [] c = "primary" -> IF kind = "BC"
                                          THEN thread[t].seen[c] = "synced"
                                          ELSE ready[c]])
    /\ Goto(t, "decide")
    /\ UNCHANGED <<config, health, lock>>

\* IsWorking, with an empty Error, for the client as the check saw it.
Working(t, c) ==
    /\ thread[t].seen[c] \in {"synced", "syncing"}
    /\ c = "fallback" /\ kind = "EC" => rightChain

SomeReady == \E c \in Clients : ready[c]

Return(t, out) ==
    /\ lock' = NoThread
    /\ thread' = [thread EXCEPT ![t].pc = IF out = "ok" THEN "work" ELSE "sleep",
                                ![t].out = out, ![t].seen = Unseen,
                                ![t].target = Nobody]

ReturnReady(t) ==
    /\ thread[t].pc = "decide"
    /\ SomeReady
    /\ Return(t, "ok")
    /\ UNCHANGED <<config, health, ready, usable>>

AwaitClient(t) ==
    /\ thread[t].pc = "decide"
    /\ ~SomeReady
    /\ \/ /\ Working(t, "primary")
          /\ thread' = [thread EXCEPT ![t].pc = "poll", ![t].target = "primary"]
       \/ /\ ~Working(t, "primary")
          /\ Working(t, "fallback")
          /\ thread' = [thread EXCEPT ![t].pc = "poll", ![t].target = "fallback"]
    /\ UNCHANGED <<config, health, ready, lock, usable>>

FailWait(t) ==
    /\ thread[t].pc = "decide"
    /\ ~SomeReady
    /\ \A c \in Clients : ~Working(t, c)
    /\ Return(t, "unsynced")
    /\ UNCHANGED <<config, health, ready, usable>>

\* The Execution client that is waited for is asked directly. It is asked again
\* every few seconds while it is behind.
PollClient(t) ==
    /\ kind = "EC"
    /\ thread[t].pc = "poll"
    /\ LET h == health[thread[t].target] IN
        \/ h = "synced" /\ Return(t, "ok")
        \/ h \in {"failing", "down"} /\ Return(t, "unsynced")
    /\ UNCHANGED <<config, health, ready, usable>>

\* After a minute of polling the clients are checked again.
Refresh(t) ==
    /\ kind = "EC"
    /\ thread[t].pc = "poll"
    /\ health[thread[t].target] \in {"syncing", "stale"}
    /\ thread' = [thread EXCEPT ![t].pc = "probe", ![t].target = Nobody]
    /\ UNCHANGED <<config, health, ready, lock, usable>>

\* The Beacon client is asked through the manager, whose flags are both down.
PollManager(t) ==
    /\ kind = "BC"
    /\ thread[t].pc = "poll"
    /\ ~SomeReady
    /\ Return(t, "unready")
    /\ UNCHANGED <<config, health, ready, usable>>

-----------------------------------------------------------------------------
(* runFunction, and the pass of the loop that calls it *)

Good == {c \in Clients :
            /\ health[c] = "synced"
            /\ c = "fallback" => enabled /\ rightChain}

StartCall(t) ==
    /\ thread[t].pc = "work"
    /\ usable' = [usable EXCEPT ![t] = {c \in Good : ready[c]}]
    /\ thread' = [thread EXCEPT ![t].pc = "begin", ![t].by = Nobody,
                                ![t].out = "none"]
    /\ UNCHANGED <<config, health, ready, lock>>

ChoosePrimary(t) ==
    /\ thread[t].pc = "begin"
    /\ Goto(t, IF ready["primary"] THEN "primary" ELSE "second")
    /\ UNCHANGED <<config, health, ready, lock, usable>>

\* The outcomes of a call for lack of a client.
NoClient == {"unready", "failed"}

EndCall(t, by, out) ==
    /\ thread' = [thread EXCEPT ![t].pc = "work", ![t].by = by, ![t].out = out]
    /\ usable' = [usable EXCEPT ![t] = IF out \in NoClient THEN @ ELSE {}]

Continue(t, pc) == Goto(t, pc) /\ UNCHANGED usable

Answering == {"synced", "syncing", "stale"}

\* Only a failure to connect makes the manager turn to the other client.
CallClient(t, c, drop) ==
    /\ \/ health[c] \in Answering /\ EndCall(t, c, "ok")
       \/ health[c] = "failing" /\ EndCall(t, c, "error")
       \/ health[c] = "down" /\ Continue(t, drop)
    /\ UNCHANGED <<config, health, ready, lock>>

CallPrimary(t) == thread[t].pc = "primary" /\ CallClient(t, "primary", "drop")

\* Seeded fault: the primary's failure is the call's, and its flag stays up.
DropNothing(t) ==
    /\ thread[t].pc = "drop"
    /\ EndCall(t, Nobody, "failed")
    /\ UNCHANGED <<config, health, ready, lock>>

DropPrimary(t) ==
    /\ thread[t].pc = "drop"
    /\ SetFlags([ready EXCEPT !["primary"] = FALSE])
    /\ Goto(t, "begin")
    /\ UNCHANGED <<config, health, lock>>

ChooseFallback(t) ==
    /\ thread[t].pc = "second"
    /\ IF ready["fallback"] THEN Continue(t, "fallback")
                            ELSE EndCall(t, Nobody, "unready")
    /\ UNCHANGED <<config, health, ready, lock>>

CallFallback(t) == thread[t].pc = "fallback" /\ CallClient(t, "fallback", "drop2")

DropFallback(t) ==
    /\ thread[t].pc = "drop2"
    /\ SetFlags([ready EXCEPT !["fallback"] = FALSE])
    /\ thread' = [thread EXCEPT ![t].pc = "work", ![t].by = Nobody,
                                ![t].out = "failed"]
    /\ UNCHANGED <<config, health, lock>>

\* The pass of the loop is over, or the wait for the other manager failed.
EndPass(t) ==
    /\ thread[t].pc = "work"
    /\ thread' = [thread EXCEPT ![t].pc = "sleep", ![t].by = Nobody,
                                ![t].out = "none"]
    /\ usable' = [usable EXCEPT ![t] = {}]
    /\ UNCHANGED <<config, health, ready, lock>>

Wake(t) ==
    /\ thread[t].pc = "sleep"
    /\ thread' = [thread EXCEPT ![t].pc = "lock", ![t].out = "none"]
    /\ UNCHANGED <<config, health, ready, lock, usable>>

-----------------------------------------------------------------------------
(* The clients *)

ChangeHealth ==
    /\ \E c \in Clients, h \in Conditions :
        /\ c = "fallback" => enabled
        /\ health[c] # h
        /\ health' = [health EXCEPT ![c] = h]
        /\ usable' = [t \in Threads |-> usable[t] \ {c}]
    /\ UNCHANGED <<config, ready, lock, thread>>

-----------------------------------------------------------------------------
(* Specification *)

WaitStep(t) ==
    \/ Lock(t)
    \/ ProbePrimary(t)
    \/ FlagPrimary(t)
    \/ ProbeFallback(t)
    \/ FlagClients(t)
    \/ ReturnReady(t)
    \/ AwaitClient(t)
    \/ FailWait(t)
    \/ PollClient(t)
    \/ Refresh(t)
    \/ PollManager(t)

CallStep(t) ==
    \/ ChoosePrimary(t)
    \/ CallPrimary(t)
    \/ DropPrimary(t)
    \/ ChooseFallback(t)
    \/ CallFallback(t)
    \/ DropFallback(t)

ThreadStep(t) == WaitStep(t) \/ CallStep(t) \/ StartCall(t) \/ EndPass(t) \/ Wake(t)

Next == (\E t \in Threads : ThreadStep(t)) \/ ChangeHealth

(* A request returns and a sleep ends, so a loop that can go on does; a pass
   makes finitely many calls, so it ends; and a loop that waits for the mutex
   gets it, for Go's mutex hands itself to a waiter that starves. *)
Fairness ==
    \A t \in Threads :
        /\ WF_vars(WaitStep(t))
        /\ WF_vars(CallStep(t))
        /\ WF_vars(Wake(t))
        /\ SF_vars(EndPass(t))
        /\ SF_vars(Lock(t))

Spec == Init /\ [][Next]_vars /\ Fairness

-----------------------------------------------------------------------------
(* Properties *)

\* A call is answered by the fallback only when there is one and, for the
\* Execution client, it is on the node's network: the flag is up without a
\* check when the daemon starts, and no loop may call before its own check.
AnsweredByRightChain ==
    \A t \in Threads : thread[t].by = "fallback" => enabled /\ rightChain

\* The wait of checkExecutionClientStatus returns on the strength of a check of
\* its own: the flags it reads were raised by no other loop, and a loop does
\* not go to work because some client used to be in sync.
WaitSawSynced ==
    \A t \in Threads :
        thread[t].pc = "decide" /\ SomeReady =>
            \E c \in Clients : thread[t].seen[c] = "synced"

\* A call fails for lack of a client only if none was in sync with its flag up
\* the whole time: no check and no other call, whenever they move the flags,
\* makes it miss one.
ServedIfReady ==
    \A t \in Threads :
        thread[t].pc = "work" /\ thread[t].out \in NoClient => usable[t] = {}

\* Once the primary stays in sync every loop ends up on it again, whatever
\* failures are still being handled when it comes back.
RecoversPrimary ==
    <>[](health["primary"] = "synced") => <>[]ready["primary"]

\* Once the primary is gone for good and the fallback stays in sync, the flags
\* settle on the fallback.
FailsOver ==
    <>[](/\ health["primary"] = "down"
         /\ health["fallback"] = "synced"
         /\ enabled /\ rightChain)
        => <>[](~ready["primary"] /\ ready["fallback"])

=============================================================================
