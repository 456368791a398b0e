--------------------------- MODULE ServiceProofs ---------------------------
(* Theorems about Service, for any number of runs of any commands, any delay
   and any number of events.                                                *)
EXTENDS Service, TLAPS

-----------------------------------------------------------------------------
(* The delay. What a run knows of the validator container is true as long as
   nobody else has changed it. *)

\* The silence is that of the container: it is over while it runs, and at least
\* as long as docker's finish time says, unless the container is paused.
SilenceInv ==
    /\ vc.state = "running" => silence = 0
    /\ vc.state \in {"exited", "restarting"} => vc.finished <= silence

\* What an undisturbed run has found out on its way to the delay and after it.
DelayOf(s) ==
    ~session[s].crossed =>
        /\ session[s].pc \in {"upgrade", "image"} =>
              session[s].cfg.client = settings.client
        /\ session[s].pc = "status" => session[s].since = vc.finished
        /\ session[s].pc = "wait" /\ ~session[s].paused =>
              vc.state # "running" /\ session[s].since <= silence
        /\ session[s].pc = "api" /\ ~session[s].paused /\ ~session[s].forced =>
              vc.client = settings.client \/ silence >= Delay
        /\ session[s].pc = "all" => vc.client = settings.client

-----------------------------------------------------------------------------
(* The upgrade flag. *)

\* Only start asks about an upgrade, and only a resync starts without it.
KindOf(s) ==
    /\ session[s].pc = "upgrade" => session[s].kind = "start"
    /\ session[s].pc \in {"remove", "delete"} => session[s].kind \in Resyncs

\* From where the defaults of an undisturbed run are up to date.
Starting == {"image", "time", "status", "halt", "wait", "warn", "api", "all",
             "flag", "config-flag"}

UpgradeOf(s) ==
    ~session[s].crossed /\ upgrade =>
        /\ session[s].pc = "save" => session[s].cfg.upToDate
        /\ \/ session[s].pc = "load" /\ session[s].kind # "start"
           \/ session[s].pc \in Starting
           => \/ settings.upToDate
              \/ session[s].kind \in Resyncs
              \/ session[s].unsaved

\* Both together, of one run.
RunInv(s) == DelayOf(s) /\ KindOf(s) /\ UpgradeOf(s)
RunsInv == \A s \in Sessions : RunInv(s)

-----------------------------------------------------------------------------
(* Types *)

\* The steps that a run takes with the settings and containers it finds.
LEMMA Bounds ==
    /\ Delay \in Nat \ {0} /\ MaxEvents \in Nat
    /\ Times = 0..(Delay + 1) /\ Never = Delay + 1 /\ Never \in Times /\ 0 \in Times
    /\ \A t \in Times : Later(t) \in Times
    /\ \A t \in 0..Delay : Later(t) \in 0..Delay
BY ServiceAssumption DEF ServiceAssumption, Times, Never, Later

\* A run in its first step has the type of a run.
LEMMA IdleType ==
    ASSUME NEW pc \in {"new", "ui", "load", "compose", "stop", "done", "failed"},
           NEW kind \in AllKinds
    PROVE  Idle(pc, kind) \in Session
<1>1. (CHOOSE c \in Clients : TRUE) \in Clients
  BY ServiceAssumption DEF ServiceAssumption
<1> DEFINE first == CHOOSE c \in Clients : TRUE
<1>2. first \in Clients
  BY <1>1
<1> HIDE DEF first
<1>3. [client |-> first, upToDate |-> TRUE] \in Settings
  BY <1>2 DEF Settings
<1> QED
  BY <1>3, Bounds DEF Idle, Session, first

\* What a step may change of a run leaves it a run.
Pcs == {"new", "ui", "save", "load", "upgrade", "image", "time", "status",
        "halt", "wait", "warn", "api", "all", "flag", "config-flag",
        "compose", "stop", "remove", "delete", "work", "working",
        "restart", "done", "failed"}

LEMMA FieldTypes ==
    ASSUME NEW x \in Session
    PROVE  /\ \A pc \in Pcs : [x EXCEPT !.pc = pc] \in Session
           /\ \A b \in BOOLEAN : [x EXCEPT !.crossed = b] \in Session
           /\ \A b \in BOOLEAN : [x EXCEPT !.told = b] \in Session
           /\ \A b \in BOOLEAN : [x EXCEPT !.forced = b] \in Session
           /\ \A b \in BOOLEAN : [x EXCEPT !.paused = b] \in Session
           /\ \A b \in BOOLEAN : [x EXCEPT !.unsaved = b] \in Session
           /\ \A t \in Times : [x EXCEPT !.since = t] \in Session
           /\ \A cfg \in Settings : [x EXCEPT !.cfg = cfg] \in Session
<1>1. \A pc \in Pcs : [x EXCEPT !.pc = pc] \in Session
  BY DEF Session, Pcs
<1>2. \A b \in BOOLEAN : /\ [x EXCEPT !.crossed = b] \in Session
                         /\ [x EXCEPT !.told = b] \in Session
  BY DEF Session
<1>3. \A b \in BOOLEAN : /\ [x EXCEPT !.forced = b] \in Session
                         /\ [x EXCEPT !.paused = b] \in Session
                         /\ [x EXCEPT !.unsaved = b] \in Session
  BY DEF Session
<1>4. \A t \in Times : [x EXCEPT !.since = t] \in Session
  BY DEF Session
<1>5. \A cfg \in Settings : [x EXCEPT !.cfg = cfg] \in Session
  BY DEF Session
<1> QED
  BY <1>1, <1>2, <1>3, <1>4, <1>5

\* A change that the other runs did not see.
LEMMA CrossingType ==
    ASSUME session \in [Sessions -> Session], NEW s
    PROVE  Crossing(s) \in [Sessions -> Session]
BY FieldTypes DEF Crossing

\* A run becomes y, and the others what they are in f.
LEMMA Becomes ==
    ASSUME NEW f \in [Sessions -> Session], NEW s \in Sessions, NEW y \in Session,
           session' = [f EXCEPT ![s] = y]
    PROVE  /\ session' \in [Sessions -> Session]
           /\ session'[s] = y
           /\ \A r \in Sessions \ {s} : session'[r] = f[r]
OBVIOUS

-----------------------------------------------------------------------------
(* What a run knows when others take a step. *)

\* Nothing has changed of what a run may have looked at.
Quiet ==
    /\ UNCHANGED <<settings, vc, silence>>
    /\ upgrade' => upgrade

LEMMA QuietKeeps ==
    ASSUME NEW r \in Sessions, RunInv(r), session'[r] = session[r], Quiet
    PROVE  RunInv(r)'
BY DEF RunInv, DelayOf, KindOf, UpgradeOf, Quiet

\* A run whose view has been crossed knows its command only.
LEMMA CrossedKeeps ==
    ASSUME TypeOK, NEW s, NEW r \in Sessions, r # s, RunInv(r),
           session'[r] = Crossing(s)[r]
    PROVE  RunInv(r)'
<1> DEFINE x == session[r]
           y == [x EXCEPT !.crossed = TRUE]
<1>0. x \in Session
  BY DEF TypeOK
<1> HIDE DEF x
<1>1. y.crossed = TRUE /\ y.pc = x.pc /\ y.kind = x.kind
  BY <1>0 DEF Session
<1> HIDE DEF y
<1>2. CASE Active(r)
  <2>1. session'[r] = y
    BY <1>2 DEF Crossing, x, y
  <2>2. DelayOf(r)'
    BY <1>1, <2>1 DEF DelayOf
  <2>3. UpgradeOf(r)'
    BY <1>1, <2>1 DEF UpgradeOf
  <2>4. KindOf(r)'
    BY <1>1, <2>1 DEF KindOf, RunInv, x
  <2> QED
    BY <2>2, <2>3, <2>4 DEF RunInv
<1>3. CASE ~Active(r)
  <2>1. session'[r] = session[r] /\ session[r].pc \in {"new", "done", "failed"}
    BY <1>3 DEF Crossing, Active
  <2> QED
    BY <2>1 DEF RunInv, DelayOf, KindOf, UpgradeOf, Starting
<1> QED
  BY <1>2, <1>3

\* A run that has ended knows nothing.
LEMMA EndedInv ==
    ASSUME NEW s \in Sessions, NEW pc \in {"done", "failed"}, session'[s] = Ended(pc)
    PROVE  RunInv(s)'
<1>1. session'[s].pc = pc
  BY DEF Ended, Idle
<1> QED
  BY <1>1 DEF RunInv, DelayOf, KindOf, UpgradeOf, Starting

\* A run goes on, or ends, and nothing else changes of it.
LEMMA GotoStep ==
    ASSUME TypeOK, NEW s \in Sessions, NEW pc \in Pcs, Goto(s, pc)
    PROVE  /\ session' \in [Sessions -> Session]
           /\ \A r \in Sessions \ {s} : session'[r] = session[r]
           /\ session'[s].pc = pc /\ session'[s].kind = session[s].kind
           /\ session'[s].cfg = session[s].cfg /\ session'[s].since = session[s].since
           /\ session'[s].forced = session[s].forced
           /\ session'[s].paused = session[s].paused
           /\ session'[s].crossed = session[s].crossed
           /\ session'[s].unsaved = session[s].unsaved
<1> DEFINE x == session[s]
           y == [x EXCEPT !.pc = pc]
<1>1. x \in Session
  BY DEF TypeOK
<1>2. session' = [session EXCEPT ![s] = y]
  BY DEF Goto
<1> HIDE DEF x
<1>3. /\ y \in Session /\ y.pc = pc /\ y.kind = x.kind /\ y.cfg = x.cfg
      /\ y.since = x.since /\ y.forced = x.forced /\ y.paused = x.paused
      /\ y.crossed = x.crossed /\ y.unsaved = x.unsaved
  BY <1>1 DEF Session, Pcs
<1> HIDE DEF y
<1> QED
  BY <1>2, <1>3, Becomes DEF TypeOK, x

LEMMA EndStep ==
    ASSUME TypeOK, NEW s \in Sessions, NEW pc \in {"done", "failed"},
           NEW f \in [Sessions -> Session], session' = [f EXCEPT ![s] = Ended(pc)]
    PROVE  /\ session' \in [Sessions -> Session] /\ RunInv(s)'
           /\ \A r \in Sessions \ {s} : session'[r] = f[r]
<1> DEFINE y == Ended(pc)
<1>1. y \in Session
  BY IdleType DEF Ended, AllKinds
<1> HIDE DEF y
<1>2. session' = [f EXCEPT ![s] = y]
  BY DEF y
<1>3. /\ session' \in [Sessions -> Session] /\ session'[s] = y
      /\ \A r \in Sessions \ {s} : session'[r] = f[r]
  BY <1>1, <1>2, Becomes
<1> QED
  BY <1>3, EndedInv DEF y

-----------------------------------------------------------------------------
(* The steps of a run. *)

\* A step of a run is right about itself, and the others have seen nothing of it
\* or are marked.
Advances(s) ==
    /\ session' \in [Sessions -> Session] /\ RunInv(s)'
    /\ \/ Quiet /\ \A r \in Sessions \ {s} : session'[r] = session[r]
       \/ \A r \in Sessions \ {s} : session'[r] = Crossing(s)[r]

LEMMA BeginAdvances ==
    ASSUME TypeOK, NEW s \in Sessions, Begin(s)
    PROVE  Advances(s)
<1>1. PICK kind \in AllKinds : session' = [session EXCEPT ![s] = Idle(FirstStep(kind), kind)]
  BY ServiceAssumption DEF Begin, ServiceAssumption
<1> DEFINE pc == FirstStep(kind)
           y == Idle(pc, kind)
<1>2. /\ pc \in {"load", "ui", "compose", "stop"}
      /\ pc = "load" => kind = "start"
  BY <1>1 DEF FirstStep, AllKinds, Resyncs, Maintenance
<1> HIDE DEF pc
<1>3. y \in Session /\ y.pc = pc /\ y.kind = kind
  BY <1>2, IdleType DEF Idle
<1> HIDE DEF y
<1>4. /\ session' \in [Sessions -> Session] /\ session'[s] = y
      /\ \A r \in Sessions \ {s} : session'[r] = session[r]
  BY <1>1, <1>3, Becomes DEF TypeOK, y, pc
<1>5. RunInv(s)'
  BY <1>2, <1>3, <1>4 DEF RunInv, DelayOf, KindOf, UpgradeOf, Starting
<1> QED
  BY <1>4, <1>5 DEF Advances, Quiet, Begin

\* A run that fails or returns, with nothing changed that others look at.
LEMMA EndAdvances ==
    ASSUME TypeOK, NEW s \in Sessions, NEW pc \in {"done", "failed"}, Quiet,
           session' = [session EXCEPT ![s] = Ended(pc)]
    PROVE  Advances(s)
BY EndStep DEF TypeOK, Advances

\* The settings that config edits have the defaults of the installation.
LEMMA LoadForUiAdvances ==
    ASSUME TypeOK, NEW s \in Sessions, RunInv(s), LoadForUi(s)
    PROVE  Advances(s)
<1> DEFINE x == session[s]
           cfg == [settings EXCEPT !.upToDate = @ \/ upgrade]
           y == [x EXCEPT !.cfg = cfg, !.crossed = FALSE, !.pc = "save"]
<1>1. /\ cfg \in Settings
      /\ cfg.upToDate = (settings.upToDate \/ upgrade)
  BY DEF TypeOK, Settings
<1>2. x \in Session
  BY DEF TypeOK
<1>3. session' = [session EXCEPT ![s] = y]
  BY DEF LoadForUi
<1> HIDE DEF cfg, x
<1>4. /\ y \in Session /\ y.pc = "save" /\ y.cfg = cfg /\ y.crossed = FALSE
      /\ y.kind = x.kind
  BY <1>1, <1>2 DEF Session
<1> HIDE DEF y
<1>5. /\ session' \in [Sessions -> Session] /\ session'[s] = y
      /\ \A r \in Sessions \ {s} : session'[r] = session[r]
  BY <1>3, <1>4, Becomes DEF TypeOK
<1>6. Quiet /\ upgrade' = upgrade
  BY DEF LoadForUi, Quiet
<1>7. RunInv(s)'
  BY <1>1, <1>4, <1>5, <1>6 DEF RunInv, DelayOf, KindOf, UpgradeOf, Starting
<1> QED
  BY <1>5, <1>6, <1>7 DEF Advances

\* The settings file gets them, with whichever client.
LEMMA SaveFromUiAdvances ==
    ASSUME TypeOK, NEW s \in Sessions, RunInv(s), SaveFromUi(s)
    PROVE  Advances(s) /\ settings' \in Settings
<1> DEFINE x == session[s]
           f == Crossing(s)
           y == [x EXCEPT !.pc = "load"]
<1>1. PICK c \in Clients : settings' = [x.cfg EXCEPT !.client = c]
  BY DEF SaveFromUi
<1>2. x \in Session /\ x.cfg \in Settings /\ x.pc = "save"
  BY DEF TypeOK, Session, SaveFromUi, At
<1>3. settings' \in Settings /\ settings'.upToDate = x.cfg.upToDate
  BY <1>1, <1>2 DEF Settings
<1>4. f \in [Sessions -> Session] /\ f[s] = x
  BY CrossingType DEF TypeOK, Crossing
<1>5. session' = [f EXCEPT ![s] = y]
  <2>1. session' = [f EXCEPT ![s].pc = "load"]
    BY DEF SaveFromUi
  <2> HIDE DEF f
  <2> QED
    BY <1>4, <2>1
<1> HIDE DEF x, f
<1>6. /\ y \in Session /\ y.pc = "load" /\ y.kind = x.kind
      /\ y.crossed = x.crossed
  BY <1>2 DEF Session
<1> HIDE DEF y
<1>7. /\ session' \in [Sessions -> Session] /\ session'[s] = y
      /\ \A r \in Sessions \ {s} : session'[r] = f[r]
  BY <1>4, <1>5, <1>6, Becomes
<1>8. upgrade' = upgrade
  BY DEF SaveFromUi
<1>9. RunInv(s)'
  BY <1>2, <1>3, <1>6, <1>7, <1>8
     DEF RunInv, DelayOf, KindOf, UpgradeOf, Starting, x
<1> QED
  BY <1>3, <1>7, <1>9 DEF Advances, f

\* startService reads the settings again; if it is not start that reads them,
\* what config has written is still what it has to be.
LEMMA LoadConfigAdvances ==
    ASSUME TypeOK, NEW s \in Sessions, RunInv(s), LoadConfig(s)
    PROVE  Advances(s)
<1>0. PICK forced \in BOOLEAN :
        session' = [session EXCEPT
              ![s].cfg = settings, ![s].forced = forced,
              ![s].crossed = IF session[s].kind = "start" THEN FALSE ELSE @,
              ![s].pc = IF upgrade /\ session[s].kind = "start" THEN "upgrade"
                        ELSE IF forced THEN "api" ELSE "image"]
  BY DEF LoadConfig
<1> DEFINE x == session[s]
           crossed == IF x.kind = "start" THEN FALSE ELSE x.crossed
           pc == IF upgrade /\ x.kind = "start" THEN "upgrade"
                 ELSE IF forced THEN "api" ELSE "image"
           y == [x EXCEPT !.cfg = settings, !.forced = forced, !.crossed = crossed,
                          !.pc = pc]
<1>1. x \in Session /\ x.pc = "load" /\ settings \in Settings
  BY DEF TypeOK, LoadConfig, At
<1>2. session' = [session EXCEPT ![s] = y]
  BY <1>0
<1>3. /\ crossed \in BOOLEAN /\ (x.kind # "start" => crossed = x.crossed)
      /\ pc \in {"upgrade", "api", "image"}
      /\ pc = "upgrade" => x.kind = "start"
      /\ pc # "upgrade" => ~upgrade \/ x.kind # "start"
      /\ pc = "api" => forced
  BY <1>1 DEF Session
<1> HIDE DEF x, crossed, pc
<1>4. /\ y \in Session /\ y.pc = pc /\ y.kind = x.kind /\ y.crossed = crossed
      /\ y.forced = forced /\ y.cfg = settings
  BY <1>1, <1>3 DEF Session
<1> HIDE DEF y
<1>5. /\ session' \in [Sessions -> Session] /\ session'[s] = y
      /\ \A r \in Sessions \ {s} : session'[r] = session[r]
  BY <1>2, <1>4, Becomes DEF TypeOK
<1>6. Quiet /\ upgrade' = upgrade
  BY DEF LoadConfig, Quiet
<1>7. KindOf(s)'
  BY <1>3, <1>4, <1>5 DEF KindOf
<1>8. UpgradeOf(s)'
  <2> SUFFICES ASSUME ~y.crossed, upgrade
               PROVE  y.pc # "upgrade" => y.kind \in Resyncs \/ y.unsaved \/ settings.upToDate
    BY <1>3, <1>4, <1>5, <1>6 DEF UpgradeOf, Starting, Quiet
  <2>1. CASE x.kind # "start"
    <3>1. x.unsaved = y.unsaved
      BY <1>1, <1>4, <1>3 DEF Session, y
    <3> QED
      BY <2>1, <3>1, <1>1, <1>3, <1>4 DEF RunInv, UpgradeOf, x
  <2>2. CASE x.kind = "start"
    BY <2>2, <1>3, <1>4
  <2> QED
    BY <2>1, <2>2
<1>9. DelayOf(s)'
  BY <1>3, <1>4, <1>5, <1>6 DEF DelayOf, Quiet
<1> QED
  BY <1>5, <1>6, <1>7, <1>8, <1>9 DEF Advances, RunInv

\* A run that goes on with what it has, or knows no more than it did.
LEMMA GotoAdvances ==
    ASSUME TypeOK, NEW s \in Sessions, NEW pc \in Pcs, Goto(s, pc), Quiet,
           DelayOf(s)', KindOf(s)', UpgradeOf(s)'
    PROVE  Advances(s)
BY GotoStep DEF Advances, RunInv

\* Only config goes on when startService has been declined.
LEMMA DeclineAdvances ==
    ASSUME TypeOK, NEW s \in Sessions, RunInv(s), Decline(s)
    PROVE  Advances(s)
<1>1. Quiet /\ upgrade' = upgrade
  BY DEF Decline, Quiet
<1>2. CASE session[s].kind = "config"
  <2>1. Goto(s, "config-flag")
    BY <1>2 DEF Decline, AfterStart
  <2>2. /\ session'[s].pc = "config-flag" /\ session'[s].kind = "config"
        /\ session'[s].crossed = session[s].crossed
        /\ session'[s].unsaved = session[s].unsaved
    BY <1>2, <2>1, GotoStep DEF Pcs
  <2>3. session[s].pc \in {"load", "warn"}
    BY <1>2 DEF RunInv, KindOf, Decline
  <2>4. UpgradeOf(s)'
    BY <1>1, <1>2, <2>2, <2>3 DEF RunInv, UpgradeOf, Starting, Quiet
  <2>5. DelayOf(s)' /\ KindOf(s)'
    BY <2>2 DEF DelayOf, KindOf
  <2> QED
    BY <1>1, <2>1, <2>4, <2>5, GotoAdvances DEF Pcs
<1>3. CASE session[s].kind # "config"
  <2>1. session' = [session EXCEPT ![s] = Ended("done")]
    BY <1>3 DEF Decline, AfterStart
  <2> QED
    BY <1>1, <2>1, EndAdvances
<1> QED
  BY <1>2, <1>3

\* The upgraded defaults are written, or the run remembers that they are not.
LEMMA UpdateDefaultsAdvances ==
    ASSUME TypeOK, NEW s \in Sessions, RunInv(s), UpdateDefaults(s)
    PROVE  Advances(s) /\ settings' \in Settings
<1> DEFINE x == session[s]
           new == [x.cfg EXCEPT !.upToDate = TRUE]
           next == IF x.forced THEN "api" ELSE "image"
           y == [x EXCEPT !.cfg = new, !.pc = next]
           z == [x EXCEPT !.cfg = new, !.pc = next, !.unsaved = TRUE]
           f == Crossing(s)
<1>1. x \in Session /\ x.pc = "upgrade" /\ x.cfg \in Settings
  BY DEF TypeOK, Session, UpdateDefaults, At
<1>2. new \in Settings /\ new.upToDate = TRUE /\ new.client = x.cfg.client
  BY <1>1 DEF Settings
<1>3. next \in {"api", "image"} /\ (next = "api" => x.forced)
  BY <1>1 DEF Session
<1>4. f \in [Sessions -> Session] /\ f[s] = x
  BY CrossingType DEF TypeOK, Crossing
<1>5. \/ settings' = new /\ session' = [f EXCEPT ![s].cfg = new, ![s].pc = next]
      \/ settings' = settings /\ session' = [session EXCEPT ![s] = z]
  BY DEF UpdateDefaults
<1> HIDE DEF f
<1>6. \/ settings' = new /\ session' = [f EXCEPT ![s] = y]
      \/ settings' = settings /\ session' = [session EXCEPT ![s] = z]
  BY <1>4, <1>5
<1> HIDE DEF x, new, next
<1>7. /\ y \in Session /\ y.pc = next /\ y.kind = x.kind /\ y.crossed = x.crossed
      /\ y.forced = x.forced /\ y.cfg = new
      /\ z \in Session /\ z.pc = next /\ z.kind = x.kind /\ z.crossed = x.crossed
      /\ z.forced = x.forced /\ z.cfg = new /\ z.unsaved = TRUE
  BY <1>1, <1>2, <1>3 DEF Session
<1> HIDE DEF y, z
<1>8. /\ UNCHANGED <<upgrade, vc, silence>>
      /\ x.crossed \/ x.cfg.client = settings.client
  BY <1>1 DEF UpdateDefaults, RunInv, DelayOf, x
<1>9. CASE settings' = new /\ session' = [f EXCEPT ![s] = y]
  <2>1. /\ session' \in [Sessions -> Session] /\ session'[s] = y
        /\ \A r \in Sessions \ {s} : session'[r] = f[r]
    BY <1>4, <1>7, <1>9, Becomes
  <2>2. RunInv(s)'
    BY <1>2, <1>3, <1>7, <1>8, <1>9, <2>1
       DEF RunInv, DelayOf, KindOf, UpgradeOf, Starting
  <2> QED
    BY <1>2, <1>9, <2>1, <2>2 DEF Advances, f
<1>10. CASE settings' = settings /\ session' = [session EXCEPT ![s] = z]
  <2>1. /\ session' \in [Sessions -> Session] /\ session'[s] = z
        /\ \A r \in Sessions \ {s} : session'[r] = session[r]
    BY <1>7, <1>10, Becomes DEF TypeOK
  <2>2. RunInv(s)'
    BY <1>2, <1>3, <1>7, <1>8, <1>10, <2>1
       DEF RunInv, DelayOf, KindOf, UpgradeOf, Starting
  <2> QED
    BY <1>8, <1>10, <2>1, <2>2 DEF Advances, Quiet, TypeOK
<1> QED
  BY <1>6, <1>9, <1>10

\* The check of the validator client ends with a warning, or the images agree.
LEMMA CheckAdvances ==
    ASSUME TypeOK, NEW s \in Sessions, RunInv(s), CheckFails(s) \/ GetDockerImage(s)
    PROVE  Advances(s)
<1>1. PICK pc \in {"warn", "api", "time"} :
        /\ Goto(s, pc) /\ session[s].pc \in {"image", "time", "status", "halt"}
        /\ pc = "api" => /\ session[s].pc = "image"
                         /\ vc.client = session[s].cfg.client
  BY DEF CheckFails, GetDockerImage, At
<1>2. Quiet /\ upgrade' = upgrade
  BY DEF CheckFails, GetDockerImage, Quiet
<1>3. /\ session'[s].pc = pc /\ session'[s].kind = session[s].kind
      /\ session'[s].crossed = session[s].crossed
      /\ session'[s].unsaved = session[s].unsaved
  BY <1>1, GotoStep DEF Pcs
<1>4. UpgradeOf(s)' /\ KindOf(s)'
  BY <1>1, <1>2, <1>3 DEF RunInv, UpgradeOf, KindOf, Starting, Quiet
<1>5. DelayOf(s)'
  BY <1>1, <1>2, <1>3 DEF RunInv, DelayOf, Quiet
<1> QED
  BY <1>1, <1>2, <1>4, <1>5, GotoAdvances DEF Pcs

\* The finish time that a run has read is docker's, as long as nobody crosses it.
LEMMA TimeAdvances ==
    ASSUME TypeOK, NEW s \in Sessions, RunInv(s), GetDockerContainerShutdownTime(s)
    PROVE  Advances(s)
<1> DEFINE x == session[s]
           y == [x EXCEPT !.pc = "status", !.since = vc.finished]
<1>1. x \in Session /\ x.pc = "time" /\ vc.finished \in Times
  BY DEF TypeOK, Container, GetDockerContainerShutdownTime, At
<1>2. session' = [session EXCEPT ![s] = y]
  BY DEF GetDockerContainerShutdownTime
<1> HIDE DEF x
<1>3. /\ y \in Session /\ y.pc = "status" /\ y.kind = x.kind
      /\ y.crossed = x.crossed /\ y.unsaved = x.unsaved /\ y.since = vc.finished
  BY <1>1 DEF Session
<1> HIDE DEF y
<1>4. /\ session' \in [Sessions -> Session] /\ session'[s] = y
      /\ \A r \in Sessions \ {s} : session'[r] = session[r]
  BY <1>2, <1>3, Becomes DEF TypeOK
<1>5. Quiet /\ upgrade' = upgrade
  BY DEF GetDockerContainerShutdownTime, Quiet
<1>6. RunInv(s)'
  BY <1>1, <1>3, <1>4, <1>5
     DEF RunInv, DelayOf, KindOf, UpgradeOf, Starting, Quiet, x
<1> QED
  BY <1>4, <1>5, <1>6 DEF Advances

\* A container that has finished and is neither running nor paused has been
\* silent since.
LEMMA StatusAdvances ==
    ASSUME TypeOK, SilenceInv, NEW s \in Sessions, RunInv(s), GetDockerStatus(s)
    PROVE  Advances(s)
<1> DEFINE x == session[s]
           paused == vc.state = "paused"
           pc == IF x.since = Never \/ vc.state = "running" THEN "halt" ELSE "wait"
           y == [x EXCEPT !.paused = paused, !.pc = pc]
<1>1. /\ x \in Session /\ x.pc = "status" /\ vc.state # "missing"
      /\ vc.state \in {"missing", "running", "restarting", "paused", "exited"}
  BY DEF TypeOK, Container, GetDockerStatus, At
<1>2. session' = [session EXCEPT ![s] = y]
  BY DEF GetDockerStatus
<1>3. /\ pc \in {"halt", "wait"} /\ (pc = "wait" => vc.state # "running")
      /\ paused \in BOOLEAN /\ (paused <=> vc.state = "paused")
  OBVIOUS
<1> HIDE DEF x, pc, paused
<1>4. /\ y \in Session /\ y.pc = pc /\ y.kind = x.kind /\ y.paused = paused
      /\ y.crossed = x.crossed /\ y.unsaved = x.unsaved /\ y.since = x.since
  BY <1>1, <1>3 DEF Session
<1> HIDE DEF y
<1>5. /\ session' \in [Sessions -> Session] /\ session'[s] = y
      /\ \A r \in Sessions \ {s} : session'[r] = session[r]
  BY <1>2, <1>4, Becomes DEF TypeOK
<1>6. Quiet /\ upgrade' = upgrade
  BY DEF GetDockerStatus, Quiet
<1>7. ASSUME ~x.crossed, ~paused, pc = "wait"
      PROVE  vc.state # "running" /\ x.since <= silence
  BY <1>1, <1>3, <1>7 DEF RunInv, DelayOf, SilenceInv, x
<1>8. DelayOf(s)'
  BY <1>3, <1>4, <1>5, <1>6, <1>7 DEF DelayOf, Quiet
<1>9. UpgradeOf(s)' /\ KindOf(s)'
  BY <1>1, <1>3, <1>4, <1>5, <1>6
     DEF RunInv, UpgradeOf, KindOf, Starting, Quiet, x
<1> QED
  BY <1>5, <1>6, <1>8, <1>9 DEF Advances, RunInv

\* A stopped container has just become silent, or is as silent as it was.
LEMMA StoppedFacts ==
    ASSUME TypeOK
    PROVE  /\ Stopped(vc) \in Container /\ Stopped(vc).client = vc.client
           /\ Stopped(vc).state \in {"missing", "exited"}
           /\ Stopped(vc).state = "missing" => vc.state = "missing"
           /\ SilenceInv /\ Stopped(vc).state = "exited"
                 => Stopped(vc).finished <= silence
<1> DEFINE c == [vc EXCEPT !.state = "exited", !.finished = 0]
<1>1. /\ vc \in Container /\ vc.finished \in Times /\ silence \in Nat
  BY Bounds DEF TypeOK, Container
<1>2. /\ c \in Container /\ c.client = vc.client /\ c.state = "exited"
      /\ c.finished = 0
  BY <1>1, Bounds DEF Container
<1>3. Stopped(vc) = IF vc.state \in {"missing", "exited"} THEN vc ELSE c
  BY DEF Stopped
<1> HIDE DEF c
<1> QED
  BY <1>1, <1>2, <1>3 DEF SilenceInv

LEMMA HaltAdvances ==
    ASSUME TypeOK, NEW s \in Sessions, RunInv(s), StopValidator(s)
    PROVE  Advances(s)
<1> DEFINE x == session[s]
           f == Crossing(s)
           y == [x EXCEPT !.since = 0, !.pc = "wait"]
<1>1. x \in Session /\ x.pc = "halt" /\ vc'.state = "exited" /\ silence' \in 0..Delay
  BY StoppedFacts DEF TypeOK, StopValidator, At
<1>2. f \in [Sessions -> Session] /\ f[s] = x
  BY CrossingType DEF TypeOK, Crossing
<1>3. session' = [f EXCEPT ![s] = y]
  <2>1. session' = [f EXCEPT ![s].since = 0, ![s].pc = "wait"]
    BY DEF StopValidator
  <2> HIDE DEF f
  <2> QED
    BY <1>2, <2>1
<1> HIDE DEF x, f
<1>4. /\ y \in Session /\ y.pc = "wait" /\ y.kind = x.kind
      /\ y.crossed = x.crossed /\ y.unsaved = x.unsaved /\ y.since = 0
  BY <1>1, Bounds DEF Session
<1> HIDE DEF y
<1>5. /\ session' \in [Sessions -> Session] /\ session'[s] = y
      /\ \A r \in Sessions \ {s} : session'[r] = f[r]
  BY <1>2, <1>3, <1>4, Becomes
<1>6. UNCHANGED <<settings, upgrade>>
  BY DEF StopValidator
<1>7. DelayOf(s)'
  BY <1>1, <1>4, <1>5, Bounds DEF DelayOf
<1>8. UpgradeOf(s)' /\ KindOf(s)'
  BY <1>1, <1>4, <1>5, <1>6 DEF RunInv, UpgradeOf, KindOf, Starting, x
<1> QED
  BY <1>5, <1>7, <1>8 DEF Advances, RunInv, f

\* When the wait is over the container has been silent for the delay; or the
\* operator takes the responsibility.
LEMMA WaitAdvances ==
    ASSUME TypeOK, NEW s \in Sessions, RunInv(s), WaitIsOver(s) \/ ConfirmWarning(s)
    PROVE  Advances(s)
<1> DEFINE x == session[s]
           y == [x EXCEPT !.pc = "api", !.told = TRUE]
           z == [x EXCEPT !.pc = "api", !.forced = TRUE]
<1>1. x \in Session /\ x.pc \in {"wait", "warn"}
  BY DEF TypeOK, WaitIsOver, ConfirmWarning, At
<1>2. \/ session' = [session EXCEPT ![s] = y] /\ x.pc = "wait" /\ x.since >= Delay
      \/ session' = [session EXCEPT ![s] = z]
  BY DEF WaitIsOver, ConfirmWarning, At
<1> HIDE DEF x
<1>3. /\ y \in Session /\ y.pc = "api" /\ y.kind = x.kind /\ y.paused = x.paused
      /\ y.crossed = x.crossed /\ y.unsaved = x.unsaved
      /\ z \in Session /\ z.pc = "api" /\ z.kind = x.kind /\ z.forced = TRUE
      /\ z.crossed = x.crossed /\ z.unsaved = x.unsaved
  BY <1>1 DEF Session
<1>4. x.since \in Nat /\ silence \in Nat /\ Delay \in Nat
  BY <1>1, Bounds DEF Session, TypeOK
<1> HIDE DEF y, z
<1>5. PICK w \in {y, z} :
        /\ session' = [session EXCEPT ![s] = w]
        /\ w = z \/ (x.pc = "wait" /\ x.since >= Delay)
  BY <1>2
<1>6. /\ session' \in [Sessions -> Session] /\ session'[s] = w
      /\ \A r \in Sessions \ {s} : session'[r] = session[r]
  BY <1>3, <1>5, Becomes DEF TypeOK
<1>7. Quiet /\ upgrade' = upgrade
  BY DEF WaitIsOver, ConfirmWarning, Quiet
<1>8. ASSUME w = y, ~(w = z), ~x.crossed, ~x.paused PROVE silence >= Delay
  <2>1. x.since <= silence
    BY <1>5, <1>8 DEF RunInv, DelayOf, x
  <2> QED
    BY <1>4, <1>5, <1>8, <2>1
<1>9. DelayOf(s)'
  BY <1>3, <1>5, <1>6, <1>7, <1>8 DEF DelayOf, Quiet
<1>10. UpgradeOf(s)' /\ KindOf(s)'
  BY <1>1, <1>3, <1>5, <1>6, <1>7 DEF RunInv, UpgradeOf, KindOf, Starting, Quiet, x
<1> QED
  BY <1>6, <1>7, <1>9, <1>10 DEF Advances, RunInv

\* What docker compose brings up has the client of the settings, and runs what
\* had ended.
LEMMA UpFacts ==
    ASSUME TypeOK, Up
    PROVE  /\ vc' \in Container /\ vc'.client = settings.client
           /\ silence' \in 0..Delay
           /\ vc' = vc => silence' = IF vc.state = "running" THEN 0 ELSE silence
           /\ SilenceInv => SilenceInv'
<1> DEFINE c == [vc EXCEPT !.state = "running"]
           d == Running(settings.client)
<1>1. vc \in Container /\ silence \in 0..Delay /\ settings.client \in Clients
  BY DEF TypeOK, Container, Settings
<1>2. /\ c \in Container /\ c.state = "running" /\ c.client = vc.client
      /\ d \in Container /\ d.state = "running" /\ d.client = settings.client
  BY <1>1, Bounds DEF Container, Running
<1>3. /\ vc' = IF vc.state = "missing" \/ vc.client # settings.client THEN d
               ELSE IF vc.state = "exited" THEN c ELSE vc
      /\ silence' = IF vc'.state = "running" THEN 0 ELSE silence
  BY DEF Up
<1> HIDE DEF c, d
<1> QED
  BY <1>1, <1>2, <1>3, Bounds DEF SilenceInv

LEMMA StartServiceAdvances ==
    ASSUME TypeOK, SilenceInv, NEW s \in Sessions, RunInv(s), StartService(s)
    PROVE  Advances(s)
<1> DEFINE x == session[s]
           f == IF vc' = vc THEN session ELSE Crossing(s)
           pc == IF x.pc = "api" THEN "all" ELSE "flag"
           y == [x EXCEPT !.pc = pc]
<1>1. x \in Session /\ x.pc \in {"api", "all"} /\ pc \in {"all", "flag"}
  BY DEF TypeOK, StartService
<1>2. f \in [Sessions -> Session] /\ f[s] = x
  BY CrossingType DEF TypeOK, Crossing
<1>3. session' = [f EXCEPT ![s] = y]
  <2>1. session' = [f EXCEPT ![s].pc = IF @ = "api" THEN "all" ELSE "flag"]
    BY DEF StartService
  <2> HIDE DEF f
  <2> QED
    BY <1>2, <2>1
<1> HIDE DEF x, f, pc
<1>4. /\ y \in Session /\ y.pc = pc /\ y.kind = x.kind
      /\ y.crossed = x.crossed /\ y.unsaved = x.unsaved
  BY <1>1 DEF Session
<1> HIDE DEF y
<1>5. /\ session' \in [Sessions -> Session] /\ session'[s] = y
      /\ \A r \in Sessions \ {s} : session'[r] = f[r]
  BY <1>2, <1>3, <1>4, Becomes
<1>6. UNCHANGED <<settings, upgrade>> /\ vc'.client = settings.client
  BY UpFacts DEF StartService
<1>7. vc' = vc => silence' = silence
  BY UpFacts DEF StartService, SilenceInv
<1>8. DelayOf(s)'
  BY <1>1, <1>4, <1>5, <1>6 DEF DelayOf
<1>9. UpgradeOf(s)' /\ KindOf(s)'
  BY <1>1, <1>4, <1>5, <1>6 DEF RunInv, UpgradeOf, KindOf, Starting, x
<1> QED
  BY <1>5, <1>6, <1>7, <1>8, <1>9 DEF Advances, RunInv, Quiet, f

LEMMA FlagAdvances ==
    ASSUME TypeOK, NEW s \in Sessions, RunInv(s), RemoveUpgradeFlagFile(s)
    PROVE  Advances(s)
<1>1. Quiet /\ ~upgrade'
  BY DEF RemoveUpgradeFlagFile, Quiet
<1>2. \/ Goto(s, "config-flag")
      \/ session' = [session EXCEPT ![s] = Ended("done")]
  BY DEF RemoveUpgradeFlagFile, AfterStart
<1>3. CASE Goto(s, "config-flag")
  <2>1. session'[s].pc = "config-flag"
    BY <1>3, GotoStep DEF Pcs
  <2>2. DelayOf(s)' /\ KindOf(s)' /\ UpgradeOf(s)'
    BY <1>1, <2>1 DEF DelayOf, KindOf, UpgradeOf
  <2> QED
    BY <1>1, <1>3, <2>2, GotoAdvances DEF Pcs
<1>4. CASE session' = [session EXCEPT ![s] = Ended("done")]
  BY <1>1, <1>4, EndAdvances
<1> QED
  BY <1>2, <1>3, <1>4

\* pause and stop end, and all others are marked.
LEMMA StopAdvances ==
    ASSUME TypeOK, NEW s \in Sessions, PauseService(s) \/ StopService(s)
    PROVE  Advances(s)
<1>1. session' = [Crossing(s) EXCEPT ![s] = Ended("done")]
  BY DEF PauseService, StopService
<1>2. Crossing(s) \in [Sessions -> Session]
  BY CrossingType DEF TypeOK
<1> QED
  BY <1>1, <1>2, EndStep DEF Advances

\* A resync or a maintenance goes on, and only a resync gets to its start.
LEMMA MaintenanceAdvances ==
    ASSUME TypeOK, NEW s \in Sessions, RunInv(s),
           \/ StopContainer(s) \/ RemoveContainer(s) \/ DeleteVolume(s)
           \/ StartWorker(s)
    PROVE  Advances(s)
<1>1. PICK pc \in {"remove", "work", "delete", "load", "working"} :
        /\ Goto(s, pc)
        /\ pc \in {"remove", "delete", "load"} => session[s].kind \in Resyncs
  <2>1. CASE StopContainer(s)
    BY <2>1 DEF StopContainer
  <2>2. CASE RemoveContainer(s)
    BY <2>2 DEF RemoveContainer, RunInv, KindOf, At
  <2>3. CASE DeleteVolume(s)
    BY <2>3 DEF DeleteVolume, RunInv, KindOf, At
  <2>4. CASE StartWorker(s)
    BY <2>4 DEF StartWorker
  <2> QED
    BY <2>1, <2>2, <2>3, <2>4
<1>2. Quiet
  BY DEF StopContainer, RemoveContainer, DeleteVolume, StartWorker, Quiet
<1>3. /\ session'[s].pc = pc /\ session'[s].kind = session[s].kind
  BY <1>1, GotoStep DEF Pcs
<1>4. DelayOf(s)' /\ KindOf(s)' /\ UpgradeOf(s)'
  BY <1>1, <1>3 DEF DelayOf, KindOf, UpgradeOf, Starting
<1> QED
  BY <1>1, <1>2, <1>4, GotoAdvances DEF Pcs

LEMMA WorkerEndsAdvances ==
    ASSUME TypeOK, NEW s \in Sessions, RunInv(s), WorkerEnds(s)
    PROVE  Advances(s)
<1>1. Quiet
  BY DEF WorkerEnds, Quiet
<1>2. CASE At(s, "working")
  <2>1. Goto(s, "restart")
    BY <1>2 DEF WorkerEnds
  <2>2. session'[s].pc = "restart"
    BY <2>1, GotoStep DEF Pcs
  <2>3. DelayOf(s)' /\ KindOf(s)' /\ UpgradeOf(s)'
    BY <2>2 DEF DelayOf, KindOf, UpgradeOf, Starting
  <2> QED
    BY <1>1, <2>1, <2>3, GotoAdvances DEF Pcs
<1>3. CASE ~At(s, "working")
  <2>1. session' = session
    BY <1>3 DEF WorkerEnds
  <2> QED
    BY <1>1, <2>1, QuietKeeps DEF Advances, TypeOK
<1> QED
  BY <1>2, <1>3

\* So every step of a run does.
LEMMA StepAdvances ==
    ASSUME TypeOK, SilenceInv, NEW s \in Sessions, RunInv(s), Step(s) \/ WorkerEnds(s)
    PROVE  Advances(s)
<1>1. CASE Fail(s)
  <2>1. Quiet
    BY <1>1 DEF Fail, Quiet
  <2> QED
    BY <1>1, <2>1, EndAdvances DEF Fail
<1>2. CASE StartContainer(s)
  <2>1. Quiet
    BY <1>2 DEF StartContainer, Quiet
  <2> QED
    BY <1>2, <2>1, EndAdvances DEF StartContainer
<1> QED
  BY <1>1, <1>2, BeginAdvances, LoadForUiAdvances, SaveFromUiAdvances,
     LoadConfigAdvances, DeclineAdvances, UpdateDefaultsAdvances, CheckAdvances,
     TimeAdvances, StatusAdvances, HaltAdvances, WaitAdvances,
     StartServiceAdvances, FlagAdvances, StopAdvances, MaintenanceAdvances,
     WorkerEndsAdvances
     DEF Step

-----------------------------------------------------------------------------
(* The world: what a step makes of the containers, the file and the flag. *)

\* The types of all but the runs.
WorldOK ==
    /\ settings \in Settings
    /\ upgrade \in BOOLEAN
    /\ vc \in Container
    /\ box \in [Boxes -> Box]
    /\ \A b \in Boxes : box[b].state # "missing" => box[b].volume
    /\ worker \in Sessions \cup {NoSession}
    /\ silence \in 0..Delay
    /\ events \in Nat

LEMMA WorldType == TypeOK <=> WorldOK /\ session \in [Sessions -> Session]
BY DEF TypeOK, WorldOK

\* A container that a command stops, removes or starts, or whose volume it
\* deletes, has its volume as long as it is there.
BoxesOK(f) ==
    /\ f \in [Boxes -> Box]
    /\ \A b \in Boxes : f[b].state # "missing" => f[b].volume

LEMMA BoxUpdate ==
    ASSUME BoxesOK(box), NEW b \in Boxes, NEW y \in Box, y.state # "missing" => y.volume
    PROVE  BoxesOK([box EXCEPT ![b] = y])
BY DEF BoxesOK

LEMMA BoxState ==
    ASSUME BoxesOK(box), NEW b \in Boxes,
           NEW state \in {"missing", "running", "exited"},
           state # "missing" => box[b].state # "missing"
    PROVE  BoxesOK([box EXCEPT ![b].state = state])
<1> DEFINE x == box[b]
           y == [x EXCEPT !.state = state]
<1>1. x \in Box /\ (x.state # "missing" => x.volume)
  BY DEF BoxesOK
<1>2. [box EXCEPT ![b].state = state] = [box EXCEPT ![b] = y]
  OBVIOUS
<1>3. (state # "missing") => x.volume
  BY <1>1
<1> HIDE DEF x
<1>4. y \in Box /\ y.state = state /\ y.volume = x.volume
  BY <1>1 DEF Box
<1> HIDE DEF y
<1> QED
  BY <1>2, <1>3, <1>4, BoxUpdate

LEMMA BoxDeleted ==
    ASSUME BoxesOK(box), NEW b \in Boxes, box[b].state = "missing"
    PROVE  BoxesOK([box EXCEPT ![b].volume = FALSE])
<1> DEFINE x == box[b]
           y == [x EXCEPT !.volume = FALSE]
<1>1. x \in Box /\ x.state = "missing"
  BY DEF BoxesOK
<1>2. [box EXCEPT ![b].volume = FALSE] = [box EXCEPT ![b] = y]
  OBVIOUS
<1> HIDE DEF x
<1>4. y \in Box /\ y.state = "missing"
  BY <1>1 DEF Box
<1> HIDE DEF y
<1> QED
  BY <1>2, <1>4, BoxUpdate

LEMMA BoxesStep ==
    ASSUME WorldOK, NEW s \in Sessions, Step(s) \/ WorkerEnds(s)
    PROVE  BoxesOK(box')
<1>0. BoxesOK(box) /\ BoxOf(s) \in Boxes /\ "eth1" \in Boxes
  BY DEF WorldOK, BoxesOK, BoxOf, Boxes
<1>1. CASE StartService(s)
  BY <1>1 DEF StartService, Up, BoxesOK, Box
<1>2. CASE PauseService(s)
  <2> DEFINE f(b) == IF box[b].state = "running"
                     THEN [box[b] EXCEPT !.state = "exited"] ELSE box[b]
  <2>1. box' = [b \in Boxes |-> f(b)]
    BY <1>2 DEF PauseService
  <2>2. ASSUME NEW b \in Boxes
        PROVE  f(b) \in Box /\ (f(b).state # "missing" => f(b).volume)
    BY <1>0 DEF BoxesOK, Box
  <2> HIDE DEF f
  <2> QED
    BY <2>1, <2>2 DEF BoxesOK
<1>3. CASE StopService(s)
  <2> DEFINE f(b) == b = "eth1" /\ worker # NoSession /\ box[b].volume
  <2>1. box' = [b \in Boxes |-> [state |-> "missing", volume |-> f(b)]]
    BY <1>3 DEF StopService
  <2>2. \A b \in Boxes : f(b) \in BOOLEAN
    OBVIOUS
  <2> HIDE DEF f
  <2> QED
    BY <2>1, <2>2 DEF BoxesOK, Box
<1>4. CASE StopContainer(s)
  <2>1. \/ /\ box[BoxOf(s)].state # "missing"
           /\ box' = [box EXCEPT ![BoxOf(s)].state = "exited"]
        \/ box' = box
    BY <1>4 DEF StopContainer
  <2> QED
    BY <1>0, <2>1, BoxState
<1>5. CASE RemoveContainer(s)
  BY <1>0, <1>5, BoxState DEF RemoveContainer
<1>6. CASE DeleteVolume(s)
  <2>1. box[BoxOf(s)].state = "missing"
    BY <1>6 DEF DeleteVolume
  <2> QED
    BY <1>0, <1>6, <2>1, BoxDeleted DEF DeleteVolume
<1>7. CASE StartContainer(s)
  BY <1>0, <1>7, BoxState DEF StartContainer
<1>8. CASE UNCHANGED box
  BY <1>0, <1>8
<1> QED
  BY <1>1, <1>2, <1>3, <1>4, <1>5, <1>6, <1>7, <1>8
     DEF Step, WorkerEnds, Begin, Fail, LoadForUi, SaveFromUi, LoadConfig, Decline,
         UpdateDefaults, CheckFails, GetDockerImage, GetDockerContainerShutdownTime,
         GetDockerStatus, StopValidator, WaitIsOver, ConfirmWarning,
         RemoveUpgradeFlagFile, StartWorker

\* A run changes the validator container by starting or stopping it.
LEMMA ContainerStep ==
    ASSUME TypeOK, NEW s \in Sessions, Step(s) \/ WorkerEnds(s)
    PROVE  /\ vc' \in Container /\ silence' \in 0..Delay
           /\ SilenceInv => SilenceInv'
           /\ vc'.client # vc.client => vc'.client = settings.client
<1>0. vc \in Container /\ silence \in 0..Delay
  BY DEF TypeOK
<1>1. CASE StartService(s)
  BY <1>1, UpFacts DEF StartService
<1>2. CASE StopValidator(s) \/ PauseService(s)
  <2>1. vc' = Stopped(vc) /\ silence' = silence
    BY <1>2 DEF StopValidator, PauseService
  <2> QED
    BY <1>0, <2>1, StoppedFacts DEF SilenceInv
<1>3. CASE StopService(s)
  <2>1. vc' = NoContainer(vc.client) /\ silence' = silence
    BY <1>3 DEF StopService
  <2> QED
    BY <1>0, <2>1, Bounds DEF NoContainer, Container, SilenceInv
<1>4. CASE UNCHANGED <<vc, silence>>
  BY <1>0, <1>4 DEF SilenceInv
<1> QED
  BY <1>1, <1>2, <1>3, <1>4
     DEF Step, WorkerEnds, Begin, Fail, LoadForUi, SaveFromUi, LoadConfig, Decline,
         UpdateDefaults, CheckFails, GetDockerImage, GetDockerContainerShutdownTime,
         GetDockerStatus, WaitIsOver, ConfirmWarning, StopContainer, RemoveContainer,
         DeleteVolume, StartContainer, RemoveUpgradeFlagFile, StartWorker

LEMMA SettingsStep ==
    ASSUME TypeOK, NEW s \in Sessions, RunInv(s), Step(s) \/ WorkerEnds(s)
    PROVE  settings' \in Settings
<1>1. CASE SaveFromUi(s) \/ UpdateDefaults(s)
  BY <1>1, SaveFromUiAdvances, UpdateDefaultsAdvances
<1>2. CASE UNCHANGED settings
  BY <1>2 DEF TypeOK
<1> QED
  BY <1>1, <1>2
     DEF Step, WorkerEnds, Begin, Fail, LoadForUi, LoadConfig, Decline,
         CheckFails, GetDockerImage, GetDockerContainerShutdownTime,
         GetDockerStatus, StopValidator, WaitIsOver, ConfirmWarning, StartService,
         PauseService, StopService, StopContainer, RemoveContainer,
         DeleteVolume, StartContainer, RemoveUpgradeFlagFile, StartWorker

LEMMA FlagStep ==
    ASSUME WorldOK, NEW s \in Sessions, Step(s) \/ WorkerEnds(s)
    PROVE  /\ upgrade' \in BOOLEAN /\ events' \in Nat
           /\ worker' \in Sessions \cup {NoSession}
BY DEF WorldOK, Step, WorkerEnds, Begin, Fail, LoadForUi, SaveFromUi, LoadConfig,
       Decline, UpdateDefaults, CheckFails, GetDockerImage,
       GetDockerContainerShutdownTime, GetDockerStatus, StopValidator, WaitIsOver,
       ConfirmWarning, StartService, PauseService, StopService, StopContainer,
       RemoveContainer, DeleteVolume, StartContainer, RemoveUpgradeFlagFile,
       StartWorker

-----------------------------------------------------------------------------
(* The inductive invariant. *)

IInv == TypeOK /\ SilenceInv /\ RunsInv

LEMMA RunStep ==
    ASSUME IInv, NEW s \in Sessions, Step(s) \/ WorkerEnds(s)
    PROVE  IInv'
<1>1. Advances(s)
  BY StepAdvances DEF IInv, RunsInv
<1>2. ASSUME NEW r \in Sessions PROVE RunInv(r)'
  <2>1. CASE r = s
    BY <1>1, <2>1 DEF Advances
  <2>2. CASE r # s /\ Quiet /\ session'[r] = session[r]
    BY <2>2, QuietKeeps DEF IInv, RunsInv
  <2>3. CASE r # s /\ session'[r] = Crossing(s)[r]
    BY <2>3, CrossedKeeps DEF IInv, RunsInv
  <2> QED
    BY <1>1, <2>1, <2>2, <2>3 DEF Advances
<1>3. WorldOK'
  <2>1. WorldOK
    BY WorldType DEF IInv
  <2> QED
    BY <2>1, BoxesStep, ContainerStep, SettingsStep, FlagStep
       DEF WorldOK, BoxesOK, IInv, RunsInv
<1>4. TypeOK'
  BY <1>1, <1>3 DEF WorldOK, TypeOK, Advances
<1> QED
  BY <1>2, <1>4, ContainerStep DEF IInv, RunsInv

\* A tick takes what is waited for no further than the silence.
LEMMA LaterFacts ==
    /\ \A t \in Times, u \in 0..Delay : t <= u => Later(t) <= Later(u)
    /\ \A u \in 0..Delay : u >= Delay => Later(u) >= Delay
BY ServiceAssumption DEF ServiceAssumption, Later, Times, Never

LEMMA TickStep == IInv /\ Tick => IInv'
<1> SUFFICES ASSUME IInv, Tick PROVE IInv'
  OBVIOUS
<1> DEFINE since(s) == IF session[s].pc \in {"status", "halt", "wait"}
                       THEN Later(session[s].since) ELSE session[s].since
           y(s) == [session[s] EXCEPT !.since = since(s)]
           finished == Later(vc.finished)
           c == [vc EXCEPT !.finished = finished]
<1>0. /\ vc \in Container /\ silence \in 0..Delay /\ vc.finished \in Times
      /\ finished \in Times
  BY Bounds DEF IInv, TypeOK, Container
<1>1. vc' = c
  BY DEF Tick
<1> HIDE DEF finished
<1>2. c \in Container /\ c.state = vc.state /\ c.client = vc.client /\ c.finished = finished
  BY <1>0 DEF Container
<1> HIDE DEF c
<1>3. /\ silence' = IF vc.state = "running" THEN 0 ELSE Later(silence)
      /\ silence' \in 0..Delay
  BY <1>0, Bounds DEF Tick
<1>4. session' = [s \in Sessions |-> y(s)]
  BY DEF Tick
<1>5. ASSUME NEW s \in Sessions
      PROVE  /\ y(s) \in Session
             /\ y(s).pc = session[s].pc /\ y(s).kind = session[s].kind
             /\ y(s).cfg = session[s].cfg /\ y(s).since = since(s)
             /\ y(s).forced = session[s].forced /\ y(s).paused = session[s].paused
             /\ y(s).crossed = session[s].crossed /\ y(s).unsaved = session[s].unsaved
             /\ session[s].since \in Times
  <2> DEFINE x == session[s]
             t == since(s)
  <2>1. x \in Session /\ x.since \in Times
    BY DEF IInv, TypeOK, Session
  <2>2. t \in Times
    BY <2>1, Bounds
  <2>3. y(s) = [x EXCEPT !.since = t]
    OBVIOUS
  <2> HIDE DEF t, x, y
  <2>4. /\ y(s) \in Session /\ y(s).pc = x.pc /\ y(s).kind = x.kind
        /\ y(s).cfg = x.cfg /\ y(s).since = t /\ y(s).forced = x.forced
        /\ y(s).paused = x.paused /\ y(s).crossed = x.crossed
        /\ y(s).unsaved = x.unsaved
    BY <2>1, <2>2, <2>3 DEF Session
  <2> QED
    BY <2>1, <2>4 DEF t, x
<1> HIDE DEF y
<1>6. SilenceInv'
  BY <1>0, <1>1, <1>2, <1>3, LaterFacts DEF SilenceInv, IInv, finished
<1>7. ASSUME NEW s \in Sessions PROVE RunInv(s)'
  <2>1. session'[s] = y(s)
    BY <1>4
  <2>2. RunInv(s) /\ SilenceInv /\ UNCHANGED <<settings, upgrade>>
    BY DEF IInv, RunsInv, Tick
  <2>3. KindOf(s)' /\ UpgradeOf(s)'
    BY <1>5, <2>1, <2>2 DEF RunInv, KindOf, UpgradeOf
  <2>4. DelayOf(s)'
    <3> SUFFICES ASSUME ~y(s).crossed
        PROVE  /\ y(s).pc \in {"upgrade", "image"} => y(s).cfg.client = settings.client
               /\ y(s).pc = "status" => y(s).since = finished
               /\ y(s).pc = "wait" /\ ~y(s).paused =>
                     vc.state # "running" /\ y(s).since <= silence'
               /\ y(s).pc = "api" /\ ~y(s).paused /\ ~y(s).forced =>
                     vc.client = settings.client \/ silence' >= Delay
               /\ y(s).pc = "all" => vc.client = settings.client
      BY <1>1, <1>2, <2>1, <2>2 DEF DelayOf
    <3>1. DelayOf(s) /\ ~session[s].crossed
      BY <1>5, <2>2 DEF RunInv
    <3>2. y(s).pc = "status" => y(s).since = finished
      BY <1>5, <3>1 DEF DelayOf, finished
    <3>3. y(s).pc = "wait" /\ ~y(s).paused => vc.state # "running" /\ y(s).since <= silence'
      BY <1>0, <1>3, <1>5, <3>1, LaterFacts DEF DelayOf
    <3>4. y(s).pc = "api" /\ ~y(s).paused /\ ~y(s).forced =>
             vc.client = settings.client \/ silence' >= Delay
      <4>1. silence >= Delay => vc.state # "running"
        BY <2>2, Bounds DEF SilenceInv
      <4> QED
        BY <1>0, <1>3, <1>5, <3>1, <4>1, LaterFacts DEF DelayOf
    <3> QED
      BY <1>5, <3>1, <3>2, <3>3, <3>4 DEF DelayOf
  <2> QED
    BY <2>3, <2>4 DEF RunInv
<1>8. TypeOK'
  BY <1>1, <1>2, <1>3, <1>4, <1>5 DEF Tick, IInv, TypeOK
<1> QED
  BY <1>6, <1>7, <1>8 DEF IInv, RunsInv

\* What happens to the container, or to the installation, all runs are marked by.
LEMMA EventStep ==
    ASSUME IInv, session' = Crossing(NoSession), WorldOK', SilenceInv'
    PROVE  IInv'
<1>1. ASSUME NEW r \in Sessions PROVE RunInv(r)'
  <2>1. r # NoSession
    BY ServiceAssumption DEF ServiceAssumption
  <2>2. session'[r] = Crossing(NoSession)[r]
    OBVIOUS
  <2> QED
    BY <2>1, <2>2, CrossedKeeps DEF IInv, RunsInv
<1>2. session' \in [Sessions -> Session]
  BY CrossingType DEF IInv, TypeOK
<1> QED
  BY <1>1, <1>2 DEF IInv, RunsInv, TypeOK, WorldOK

\* An event that leaves a container of the same client, which runs or has
\* finished when docker says it has.
LEMMA ContainerEvent ==
    ASSUME IInv, NEW c \in Container, vc' = c,
           c.state \in {"exited", "restarting"} => c.finished <= silence,
           silence' = IF c.state = "running" THEN 0 ELSE silence,
           events' \in Nat, session' = Crossing(NoSession),
           UNCHANGED <<settings, upgrade, box, worker>>
    PROVE  IInv'
<1>1. WorldOK /\ silence \in 0..Delay
  BY WorldType DEF IInv, TypeOK
<1>2. WorldOK'
  BY <1>1, Bounds DEF WorldOK
<1>3. SilenceInv'
  BY DEF SilenceInv
<1> QED
  BY <1>2, <1>3, EventStep

LEMMA OtherStep ==
    ASSUME IInv, Crash \/ Revive \/ RestartValidator \/ PauseValidator \/ InstallService
    PROVE  IInv'
<1>0. /\ vc \in Container /\ silence \in 0..Delay /\ events \in Nat /\ MaxEvents \in Nat
      /\ vc.finished \in Times
  BY Bounds DEF IInv, TypeOK, Container
<1>1. CASE Crash
  <2> DEFINE c == [vc EXCEPT !.state = "restarting", !.finished = 0]
  <2>1. c \in Container /\ c.state = "restarting" /\ c.finished = 0 /\ 0 <= silence
    <3>1. 0 \in Times /\ 0 <= silence
      BY <1>0, Bounds
    <3> QED
      BY <1>0, <3>1 DEF Container
  <2>2. /\ vc' = c /\ silence' = (IF c.state = "running" THEN 0 ELSE silence)
        /\ events' = events + 1 /\ session' = Crossing(NoSession)
        /\ UNCHANGED <<settings, upgrade, box, worker>>
    BY <1>1 DEF Crash, Event
  <2> HIDE DEF c
  <2> QED
    BY <1>0, <2>1, <2>2, ContainerEvent
<1>2. CASE Revive
  <2> DEFINE c == [vc EXCEPT !.state = "running"]
  <2>1. c \in Container /\ c.state = "running"
    BY <1>0 DEF Container
  <2>2. /\ vc' = c /\ silence' = 0
        /\ events' = events /\ session' = Crossing(NoSession)
        /\ UNCHANGED <<settings, upgrade, box, worker>>
    BY <1>2 DEF Revive
  <2> HIDE DEF c
  <2> QED
    BY <1>0, <2>1, <2>2, ContainerEvent
<1>3. CASE RestartValidator
  <2> DEFINE finished == IF vc.state \in {"running", "paused"} THEN 0 ELSE vc.finished
             c == [vc EXCEPT !.state = "running", !.finished = finished]
  <2>1. finished \in Times
    BY <1>0, Bounds
  <2>2. /\ vc' = c /\ silence' = (IF c.state = "running" THEN 0 ELSE silence)
        /\ events' = events + 1 /\ session' = Crossing(NoSession)
        /\ UNCHANGED <<settings, upgrade, box, worker>>
    BY <1>3 DEF RestartValidator, Event
  <2> HIDE DEF finished
  <2>3. c \in Container /\ c.state = "running"
    BY <1>0, <2>1 DEF Container
  <2> HIDE DEF c
  <2> QED
    BY <1>0, <2>2, <2>3, ContainerEvent
<1>4. CASE PauseValidator
  <2> DEFINE c == [vc EXCEPT !.state = "paused"]
  <2>1. c \in Container /\ c.state = "paused"
    BY <1>0 DEF Container
  <2>2. /\ vc' = c /\ silence' = (IF c.state = "running" THEN 0 ELSE silence)
        /\ events' = events + 1 /\ session' = Crossing(NoSession)
        /\ UNCHANGED <<settings, upgrade, box, worker>>
    BY <1>4 DEF PauseValidator, Event
  <2> HIDE DEF c
  <2> QED
    BY <1>0, <2>1, <2>2, ContainerEvent
<1>5. CASE InstallService
  <2>1. settings' \in Settings
    BY <1>5 DEF InstallService, IInv, TypeOK, Settings
  <2>2. WorldOK
    BY WorldType DEF IInv
  <2>3. WorldOK'
    BY <1>0, <1>5, <2>1, <2>2 DEF InstallService, WorldOK
  <2>4. SilenceInv'
    BY <1>5 DEF InstallService, IInv, SilenceInv
  <2> QED
    BY <1>5, <2>3, <2>4, EventStep DEF InstallService
<1> QED
  BY <1>1, <1>2, <1>3, <1>4, <1>5

LEMMA InitInv == Init => IInv
<1> SUFFICES ASSUME Init PROVE IInv
  OBVIOUS
<1>1. settings \in Settings /\ settings.client \in Clients
  BY DEF Init, Settings
<1>2. vc \in Container /\ vc.state = "running" /\ silence = 0
  BY <1>1, Bounds DEF Init, Running, Container
<1>3. WorldOK
  <2>1. BoxesOK(box)
    BY DEF Init, BoxesOK, Box
  <2>2. silence \in 0..Delay
    BY <1>2, Bounds
  <2>3. upgrade \in BOOLEAN /\ worker \in Sessions \cup {NoSession} /\ events \in Nat
    BY DEF Init
  <2> QED
    BY <1>1, <1>2, <2>1, <2>2, <2>3 DEF WorldOK, BoxesOK
<1> DEFINE y == Idle("new", "start")
<1>4. y \in Session /\ y.pc = "new"
  BY IdleType DEF Idle, AllKinds
<1>5. session = [s \in Sessions |-> y]
  BY DEF Init
<1> HIDE DEF y
<1>6. TypeOK
  BY <1>3, <1>4, <1>5 DEF WorldOK, TypeOK
<1>7. RunsInv
  BY <1>4, <1>5 DEF RunsInv, RunInv, DelayOf, KindOf, UpgradeOf, Starting
<1> QED
  BY <1>2, <1>6, <1>7 DEF IInv, SilenceInv

LEMMA Inductive == IInv /\ [Next]_vars => IInv'
<1> SUFFICES ASSUME IInv, [Next]_vars PROVE IInv'
  OBVIOUS
<1>1. CASE \E s \in Sessions : Step(s) \/ WorkerEnds(s)
  BY <1>1, RunStep
<1>2. CASE Tick
  BY <1>2, TickStep
<1>3. CASE Crash \/ Revive \/ RestartValidator \/ PauseValidator \/ InstallService
  BY <1>3, OtherStep
<1>4. CASE UNCHANGED vars
  <2>1. UNCHANGED <<settings, upgrade, vc, box, worker, silence, session, events>>
    BY <1>4 DEF vars
  <2>2. TypeOK'
    BY <2>1 DEF IInv, TypeOK
  <2>3. SilenceInv'
    BY <2>1 DEF IInv, SilenceInv
  <2>4. ASSUME NEW s \in Sessions PROVE RunInv(s)'
    BY <2>1, QuietKeeps DEF IInv, RunsInv, Quiet
  <2> QED
    BY <2>2, <2>3, <2>4 DEF IInv, RunsInv
<1> QED
  BY <1>1, <1>2, <1>3, <1>4 DEF Next

-----------------------------------------------------------------------------
(* The theorems. *)

\* Every state of Service has the declared types, and a container of a client
\* has its volume as long as it exists.
THEOREM TypeCorrect == Spec => []TypeOK
<1>1. IInv => TypeOK
  BY DEF IInv
<1> QED
  BY <1>1, InitInv, Inductive, PTL DEF Spec

\* Only docker compose changes the client of the container, to that of the
\* settings.
LEMMA ClientStep ==
    ASSUME TypeOK, Next, vc'.client # vc.client
    PROVE  vc'.client = settings.client
<1>0. vc \in Container
  BY DEF TypeOK
<1>1. CASE \E s \in Sessions : Step(s) \/ WorkerEnds(s)
  BY <1>1, ContainerStep
<1>2. CASE Tick
  <2> DEFINE finished == Later(vc.finished)
  <2>1. vc' = [vc EXCEPT !.finished = finished]
    BY <1>2 DEF Tick
  <2> HIDE DEF finished
  <2> QED
    BY <1>0, <2>1 DEF Container
<1>3. CASE Crash \/ Revive \/ PauseValidator
  BY <1>0, <1>3 DEF Crash, Revive, PauseValidator, Event, Container
<1>4. CASE RestartValidator
  <2> DEFINE finished == IF vc.state \in {"running", "paused"} THEN 0 ELSE vc.finished
  <2>1. vc' = [vc EXCEPT !.state = "running", !.finished = finished]
    BY <1>4 DEF RestartValidator, Event
  <2> HIDE DEF finished
  <2> QED
    BY <1>0, <2>1 DEF Container
<1>5. CASE InstallService
  BY <1>5 DEF InstallService
<1> QED
  BY <1>1, <1>2, <1>3, <1>4, <1>5 DEF Next

\* A start replaces the container of another client only after the whole delay,
\* save for what HandoverIsLate excepts.
THEOREM StartWaits == Spec => HandoverIsLate
<1>1. ASSUME IInv, [Next]_vars,
             NEW s \in Sessions, session[s].pc \in {"api", "all"},
             vc.state # "missing", vc'.client # vc.client
      PROVE  \/ silence >= Delay
             \/ session[s].forced \/ session[s].crossed \/ session[s].paused
  <2>1. Next
    BY <1>1 DEF vars
  <2>2. vc'.client = settings.client
    BY <1>1, <2>1, ClientStep DEF IInv
  <2>3. DelayOf(s)
    BY <1>1 DEF IInv, RunsInv, RunInv
  <2> QED
    BY <1>1, <2>2, <2>3 DEF DelayOf
<1> DEFINE Late ==
      \A s \in Sessions :
          /\ session[s].pc \in {"api", "all"}
          /\ vc.state # "missing"
          /\ vc'.client # vc.client
          => \/ silence >= Delay
             \/ session[s].forced \/ session[s].crossed \/ session[s].paused
<1>2. IInv /\ [Next]_vars => [Late]_vars
  BY <1>1
<1> QED
  BY <1>2, InitInv, Inductive, PTL DEF Spec, HandoverIsLate

\* The flag of an upgrade goes only when the defaults are up to date, save for
\* what UpgradeApplied excepts.
THEOREM FlagMeansApplied == Spec => UpgradeApplied
<1>1. ASSUME IInv, NEW s \in Sessions, session[s].pc \in {"flag", "config-flag"},
             upgrade
      PROVE  \/ settings.upToDate
             \/ session[s].kind \in Resyncs
             \/ session[s].unsaved \/ session[s].crossed
  BY <1>1 DEF IInv, RunsInv, RunInv, UpgradeOf, Starting
<1> DEFINE Applied ==
      \A s \in Sessions :
          /\ session[s].pc \in {"flag", "config-flag"}
          /\ upgrade /\ ~upgrade'
          => \/ settings.upToDate
             \/ session[s].kind \in Resyncs
             \/ session[s].unsaved \/ session[s].crossed
<1>2. IInv /\ [Next]_vars => [Applied]_vars
  BY <1>1
<1> QED
  BY <1>2, InitInv, Inductive, PTL DEF Spec, UpgradeApplied

=============================================================================
