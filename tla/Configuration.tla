--------------------------- MODULE Configuration ---------------------------
(***************************************************************************)
(* The settings: the parameters, the file that keeps them, and the runs of *)
(* the CLI that load, upgrade, edit, save and start with them. `service    *)
(* config` shows the wizard and the configuration page, each of which has  *)
(* copies of some parameters and gives them back when it is left; with     *)
(* flags it saves without a form. `service start` saves the new defaults   *)
(* of an upgrade; a resync starts with what is there. Runs may be in       *)
(* several terminals, may be killed, and the disk may be full.             *)
(* A parameter here stands for all that the code treats alike.             *)
(***************************************************************************)
EXTENDS Naturals, FiniteSets

CONSTANTS
    Runs,         \* runs of the CLI at the same time
    MaxSteps,     \* bound: runs, fields edited, flags given, upgrades installed
    MaxVersion    \* bound: versions

ASSUME ConfigurationAssumption ==
    /\ MaxSteps \in Nat
    /\ MaxVersion \in Nat \ {0}

VARIABLES
    file,      \* the settings file
    upgrade,   \* the upgrade flag file is there
    version,   \* that is installed
    run,       \* [Runs -> state of the run]
    chosen,    \* history: parameters the operator has set, with their values
    past,      \* history
    count      \* bounded by MaxSteps

settingsVars == <<file, upgrade, version, run, chosen, past, count>>

-----------------------------------------------------------------------------
(* Parameters. *)

Networks == {"mainnet", "prater"}
Modes == {"local", "external"}
ConsensusClients == {"lighthouse", "nimbus", "prysm", "teku"}
OnOff == {"on", "off"}
Entered == {"", "typed"}

Typed == <<"typed", 0>>
Blank == <<"blank", 0>>

\* Container tags: the defaults are new in each version, and kept by network.
Tags == {Typed, Blank} \cup (Networks \X (1..MaxVersion))

(* tag:     a tag that the configuration page shows, and vcTag one that it does
            not (the validator client of Nimbus)
   normalUrl, prysmUrl: the fallback clients, in FallbackNormal, FallbackPrysm
   externalDoppelganger: of the external Lighthouse or Prysm
   nimbusDoppelganger:   of the external Nimbus, of which no form has a field
   externalGraffiti, tekuGraffiti: of the external clients
   port:    what the page takes over with the metrics only               *)
Settings == [
    network : Networks,
    ecMode : Modes, ccMode : Modes,
    client : ConsensusClients, externalClient : ConsensusClients,
    doppelganger : OnOff, externalDoppelganger : OnOff, nimbusDoppelganger : OnOff,
    graffiti : Entered, externalGraffiti : Entered, tekuGraffiti : Entered,
    fallback : OnOff, normalUrl : Entered, prysmUrl : Entered,
    metrics : OnOff, port : Entered,
    tag : Tags, vcTag : Tags]

Switches == {"doppelganger", "externalDoppelganger", "nimbusDoppelganger",
             "fallback", "metrics"}
Fallbacks == {"normalUrl", "prysmUrl"}
Texts == {"graffiti", "externalGraffiti", "tekuGraffiti", "port"} \cup Fallbacks
Overwritten == {"tag", "vcTag"}   \* OverwriteOnUpgrade

Params == {"network", "ecMode", "ccMode", "client", "externalClient"}
            \cup Switches \cup Texts \cup Overwritten

\* The defaults of a version for a network.
GetDefault(network, v) == [
    network |-> "mainnet",
    ecMode |-> "local", ccMode |-> "local",
    client |-> "nimbus", externalClient |-> "lighthouse",
    doppelganger |-> "on", externalDoppelganger |-> "on", nimbusDoppelganger |-> "on",
    graffiti |-> "", externalGraffiti |-> "", tekuGraffiti |-> "",
    fallback |-> "off", normalUrl |-> "", prysmUrl |-> "",
    metrics |-> "on", port |-> "",
    tag |-> <<network, v>>, vcTag |-> <<network, v>>]

\* What an operator can make of a parameter.
Values(p) ==
    CASE p = "network" -> Networks
      [] p \in {"ecMode", "ccMode"} -> Modes
      [] p \in {"client", "externalClient"} -> ConsensusClients
      [] p \in Switches -> OnOff
      [] p \in Texts -> Entered
      [] OTHER -> {Typed, Blank}

\* Seeded fault: parameters keep the defaults of the network they had.
KeepDefaults(cfg, network, v) == [cfg EXCEPT !.network = network]

\* Parameter.ChangeNetwork: a value that is the default follows it.
ChangeParameter(value, default, changed) ==
    IF value = default THEN changed ELSE value

ChangeNetwork(cfg, network, v) ==
    LET default == GetDefault(cfg.network, v)
        changed == GetDefault(network, v)
        moved == [cfg EXCEPT !.network = network]
    IN  IF network = cfg.network THEN cfg
        ELSE [p \in Params |-> ChangeParameter(moved[p], default[p], changed[p])]

\* Seeded fault: every parameter with a default is overwritten.
ResetAll(cfg, v) == [GetDefault(cfg.network, v) EXCEPT !.network = cfg.network]

UpdateDefaults(cfg, v) ==
    [p \in Params |->
        IF p \in Overwritten THEN GetDefault(cfg.network, v)[p] ELSE cfg[p]]

-----------------------------------------------------------------------------
(* The settings file. It is truncated, then written. A full disk leaves a
   part of it: the sections are in alphabetical order, those after "root" have
   the network, and without the end of "root" the file cannot be loaded, while
   parameters that are missing get their defaults. *)

Cuts == {{"network"}, {"network", "fallback"}}

File == [
    state : {"absent", "torn", "whole"},
    cfg   : Settings,
    lost  : {{}} \cup Cuts]

NoFile == [state |-> "absent", cfg |-> GetDefault("mainnet", 1), lost |-> {}]

\* Parameter.Deserialize: what is missing, or blank and may not be.
Defaulted(f, p) == p \in f.lost \/ (p \in Overwritten /\ f.cfg[p] = Blank)

Deserialize(f, v) ==
    LET network == IF Defaulted(f, "network") THEN "mainnet" ELSE f.cfg.network IN
    [p \in Params |->
        IF Defaulted(f, p) THEN GetDefault(network, v)[p] ELSE f.cfg[p]]

LoadConfig(v) ==
    IF file.state = "absent" THEN GetDefault("mainnet", v) ELSE Deserialize(file, v)

-----------------------------------------------------------------------------
(* What the containers are started with. *)

Selected(cfg) == IF cfg.ccMode = "local" THEN cfg.client ELSE cfg.externalClient

IsDoppelgangerEnabled(cfg) ==
    IF Selected(cfg) = "teku" THEN "off"
    ELSE IF cfg.ccMode = "local" THEN cfg.doppelganger
    ELSE IF Selected(cfg) = "nimbus" THEN cfg.nimbusDoppelganger
    ELSE cfg.externalDoppelganger

GenerateEnvironmentVariables(cfg) == [
    network  |-> cfg.network,
    ec       |-> cfg.ecMode,
    cc       |-> cfg.ccMode,
    client   |-> Selected(cfg),
    doppelganger |-> IsDoppelgangerEnabled(cfg),
    graffiti |-> cfg.graffiti,   \* of an external client as well
    fallback |-> IF cfg.fallback = "off" THEN "none"
                 ELSE IF Selected(cfg) = "prysm" THEN cfg.prysmUrl ELSE cfg.normalUrl,
    metrics  |-> cfg.metrics,
    port     |-> IF cfg.metrics = "off" THEN "none" ELSE cfg.port]

-----------------------------------------------------------------------------
(* The forms. Each has one field for both modes. *)

WizardFields == {"network", "ccMode", "client", "externalClient", "doppelganger",
                 "graffiti", "fallback", "normalUrl", "prysmUrl", "metrics"}

setUIStaderNode == {"network"}
setUIExecutionClient == {"ecMode"}
setUIConsensusClient == {"client", "externalClient", "doppelganger",
                         "externalDoppelganger", "graffiti", "externalGraffiti",
                         "tekuGraffiti", "tag"}
setUIFallbackClient == {"fallback", "normalUrl"}
setUIMonitoring == {"metrics", "port"}

PageFields == setUIStaderNode \cup setUIExecutionClient \cup setUIConsensusClient
                \cup setUIFallbackClient \cup setUIMonitoring

NewSettingsType(cfg) == [p \in WizardFields |-> cfg[p]]

\* Seeded fault: the page does not know one of the modes.
LocalOnly(cfg) == [p \in PageFields |->
    IF p = "ecMode" /\ cfg[p] = "external" THEN "unknown" ELSE cfg[p]]

makeUISettingFromConfig(cfg) == [p \in PageFields |-> cfg[p]]

\* The fallback clients that are taken over for a client: none for Nimbus.
WizardFallbacks(client) ==
    CASE client = "prysm" -> {"prysmUrl"}
      [] client \in {"lighthouse", "teku"} -> {"normalUrl"}
      [] OTHER -> {}

\* The fields that are taken over, as they are, when the wizard is left.
WizardTakes(form) ==
    LET client == IF form.ccMode = "external" THEN "externalClient" ELSE "client"
    IN  {"network", "ccMode", "doppelganger", "graffiti", "fallback", "metrics", client}
            \cup WizardFallbacks(form[client])

\* Seeded fault: the answer about doppelgangers is for a local client only.
UpdateLocal(cfg, form, v) ==
    LET taken == WizardTakes(form)
        moved == ChangeNetwork(cfg, form.network, v)
    IN  [p \in Params |->
            IF p \in taken THEN form[p]
            ELSE IF p = "ecMode" THEN form.ccMode
            ELSE moved[p]]

\* The one answer about doppelgangers is for an external Lighthouse or Prysm as
\* well, and the graffiti for an external Teku.
UpdateConfig(cfg, form, v) ==
    LET taken == WizardTakes(form)
        moved == ChangeNetwork(cfg, form.network, v)
    IN  [p \in Params |->
            IF p \in taken THEN form[p]
            ELSE IF p = "ecMode" THEN form.ccMode
            ELSE IF p = "externalDoppelganger" /\ form.ccMode = "external"
            THEN form.doppelganger
            ELSE IF p = "tekuGraffiti" /\ form.ccMode = "external"
            THEN form.graffiti
            ELSE moved[p]]

updateExecutionClient == setUIExecutionClient
updateConsensusClient == setUIConsensusClient   \* of both modes

updateFallbackClient(form) ==
    IF form.fallback = "on" THEN setUIFallbackClient ELSE {"fallback"}

updateMonitoring(form) ==
    IF form.metrics = "on" THEN setUIMonitoring ELSE {"metrics"}

PageTakes(form) ==
    setUIStaderNode \cup updateExecutionClient \cup updateConsensusClient
      \cup updateFallbackClient(form) \cup updateMonitoring(form)

\* The network first, then the fields, with container tags of the old one.
\* The fallback clients that the page shows are Prysm's as well.
updateConfigFromUISetting(cfg, form, v) ==
    LET taken == PageTakes(form)
        moved == ChangeNetwork(cfg, form.network, v)
    IN  [p \in Params |->
            IF p \in taken THEN form[p]
            ELSE IF p = "ccMode" THEN form.ecMode
            ELSE IF p = "prysmUrl" /\ form.fallback = "on" THEN form.normalUrl
            ELSE moved[p]]

\* The fields that a form shows: those of what is turned on or selected.
ShownIn(form) ==
    IF DOMAIN form = {} THEN {} ELSE DOMAIN form
      \ ((IF form.fallback = "off" THEN Fallbacks ELSE {})
         \cup (IF form.metrics = "off" THEN {"port"} ELSE {}))

\* Fields that are shown and change nothing: Teku has no protection against
\* doppelgangers, no form keeps that of an external Nimbus, an external client
\* gets the graffiti of a local one, and the fallback clients of Nimbus are lost
\* with the wizard.
Unheeded(wizard, mode, client, fallback) ==
    (IF client = "teku" \/ (client = "nimbus" /\ mode = "external")
     THEN {"doppelganger"} ELSE {})
    \cup (IF ~wizard /\ mode = "external" THEN {"graffiti"} ELSE {})
    \cup (IF wizard /\ client = "nimbus" /\ fallback = "on" THEN {"fallback"} ELSE {})
    \cup (IF wizard THEN {"port"} ELSE {})

\* What the operator sees when a form is left, of what is heeded.
Shown(form) ==
    LET wizard == "ccMode" \in DOMAIN form
        mode == IF wizard THEN form.ccMode ELSE form.ecMode
        client == IF mode = "local" THEN form.client ELSE form.externalClient
        env == [
          network  |-> form.network,
          ec       |-> mode,
          cc       |-> mode,
          client   |-> client,
          doppelganger |-> IF wizard \/ mode = "local" THEN form.doppelganger
                           ELSE form.externalDoppelganger,
          graffiti |-> form.graffiti,
          fallback |-> IF form.fallback = "off" THEN "none"
                       ELSE IF wizard /\ client = "prysm" THEN form.prysmUrl
                       ELSE form.normalUrl,
          metrics  |-> form.metrics,
          port     |-> IF wizard \/ form.metrics = "off" THEN "none" ELSE form.port]
    IN  [field \in DOMAIN env \ Unheeded(wizard, mode, client, form.fallback)
            |-> env[field]]

-----------------------------------------------------------------------------
(* The runs. *)

NoForm == [p \in {} |-> ""]

Idle == [
    pc |-> "none", kind |-> "start", version |-> 1,
    cfg |-> GetDefault("mainnet", 1), form |-> NoForm,
    edited |-> {}, typed |-> {}, shown |-> NoForm,
    upgraded |-> FALSE, stale |-> FALSE, excused |-> {}, loose |-> {}]

(* kind:     service config, with flags (headless), service start, resync
   cfg:      the settings in memory
   form:     what the wizard or the page has
   edited:   history: fields of the form that the operator changed
   typed:    history: parameters that got what the operator entered
   shown:    history: what the last form showed
   upgraded: UpdateDefaults was called
   stale:    history: another run has written the file since it was read
   excused:  history: parameters that a form changed and did not show
   loose:    history: parameters whose default is not the current one       *)

SettingsInit ==
    /\ file = NoFile /\ upgrade = TRUE /\ version = 1
    /\ run = [s \in Runs |-> Idle]
    /\ chosen = NoForm
    /\ past = [excused |-> {}, loose |-> {}]
    /\ count = 0

\* A run that has read cfg, and upgraded its defaults or not.
Started(kind, cfg, upgraded) == [Idle EXCEPT
    !.kind = kind, !.version = version, !.upgraded = upgraded,
    !.cfg = IF upgraded THEN UpdateDefaults(cfg, version) ELSE cfg,
    !.loose = IF upgraded THEN {} ELSE past.loose]

Begin(s) ==
    /\ run[s].pc = "none" /\ count < MaxSteps
    /\ UNCHANGED <<file, upgrade, version, chosen, past>>

\* service config: without a settings file it starts from the defaults.
loadConfig(s) ==
    /\ Begin(s) /\ file.state # "torn"
    /\ LET loaded == Started("config", LoadConfig(version), upgrade)
       IN  run' = [run EXCEPT ![s] = [loaded EXCEPT
                      !.pc = "wizard", !.form = NewSettingsType(loaded.cfg)]]
    /\ count' = count + 1

\* service config with a flag: the value only, of the network as well.
configureHeadless(s, p, value) ==
    /\ Begin(s) /\ file.state # "torn" /\ count + 1 < MaxSteps
    /\ LET loaded == Started("headless", LoadConfig(version), upgrade)
       IN  run' = [run EXCEPT ![s] = [loaded EXCEPT
                      !.pc = "open", !.cfg[p] = value, !.typed = {p},
                      !.loose = IF p = "network" THEN Overwritten ELSE @]]
    /\ count' = count + 2

Valid(cfg) == cfg.ecMode = cfg.ccMode

\* startService of `service start`, which asks before it upgrades, and of a
\* resync, which does not upgrade. Without settings, or valid ones, it ends.
startService(s, kind) ==
    /\ Begin(s) /\ file.state = "whole"
    /\ LET upgraded == kind = "start" /\ upgrade
           loaded == Started(kind, LoadConfig(version), upgraded)
       IN  /\ upgraded \/ Valid(loaded.cfg)
           /\ run' = [run EXCEPT ![s] = [loaded EXCEPT
                          !.pc = IF upgraded THEN "open" ELSE "compose",
                          !.cfg = IF upgraded THEN @ ELSE Idle.cfg,
                          !.loose = {}]]
    /\ count' = count + 1

-----------------------------------------------------------------------------
(* The forms. *)

Edit(s, p, value) ==
    /\ run[s].pc \in {"wizard", "configuration"} /\ count < MaxSteps
    /\ value # run[s].form[p]
    /\ run' = [run EXCEPT ![s].form[p] = value, ![s].edited = @ \cup {p}]
    /\ count' = count + 1
    /\ UNCHANGED <<file, upgrade, version, chosen, past>>

\* Parameters that get what another one is set to.
Copies == {"ecMode", "ccMode", "externalDoppelganger", "tekuGraffiti", "prysmUrl"}

\* The run after a form with these fields has been taken over.
Taken(r, cfg, fields) ==
    LET edited == r.edited \cap fields
        typed == edited \cup (IF edited \cap {"ecMode", "ccMode"} # {}
                              THEN {"ecMode", "ccMode"} ELSE {})
        hidden == {p \in Copies \ typed : cfg[p] # r.cfg[p]}
    IN  [r EXCEPT !.cfg = cfg, !.edited = {},
                  !.typed = (@ \cup typed) \ hidden,
                  !.excused = (@ \cup hidden) \ typed]

\* The settings are saved, or dropped, or the other form is opened with them.
Leave(s, r, other, form) ==
    /\ \/ run' = [run EXCEPT ![s] = [r EXCEPT !.pc = other, !.form = form]]
       \/ run' = [run EXCEPT ![s] = [r EXCEPT
              !.pc = "open", !.form = NoForm, !.shown = Shown(r.form)]]
       \/ run' = [run EXCEPT ![s] = Idle]
    /\ UNCHANGED <<file, upgrade, version, chosen, past, count>>

LeaveWizard(s) ==
    /\ run[s].pc = "wizard"
    /\ LET form == run[s].form
           cfg == UpdateConfig(run[s].cfg, form, run[s].version)
       IN  Leave(s, Taken(run[s], cfg, WizardTakes(form)),
                 "configuration", makeUISettingFromConfig(cfg))

\* The tags that the page had are those of the network before.
LeaveConfiguration(s) ==
    /\ run[s].pc = "configuration"
    /\ LET form == run[s].form
           cfg == updateConfigFromUISetting(run[s].cfg, form, run[s].version)
           left == Taken(run[s], cfg, PageTakes(form))
           moved == form.network # run[s].cfg.network
       IN  Leave(s, [left EXCEPT !.loose = IF moved THEN @ \cup {"tag"} ELSE @],
                 "wizard", NewSettingsType(cfg))

-----------------------------------------------------------------------------
(* The settings file is written. *)

\* What a run does after SaveConfig.
AfterSave(r) ==
    LET saved == [r EXCEPT !.cfg = Idle.cfg, !.typed = {}, !.excused = {}, !.loose = {}]
    IN  CASE r.kind = "config" -> [saved EXCEPT !.pc = "load"]
          [] r.kind = "start" /\ Valid(r.cfg) -> [saved EXCEPT !.pc = "compose"]
          [] OTHER -> Idle

\* WriteFile truncates the file, whatever another run does with it.
Open(s) ==
    /\ run[s].pc = "open"
    /\ file' = [NoFile EXCEPT !.state = "torn"]
    /\ run' = [run EXCEPT ![s].pc = "write"]
    /\ UNCHANGED <<upgrade, version, chosen, past, count>>

\* The file is written, for the other runs under their feet.
Written(s, next) ==
    [t \in Runs |-> IF t = s THEN next
                    ELSE IF run[t].pc = "none" THEN run[t]
                    ELSE [run[t] EXCEPT !.stale = TRUE]]

\* What the operator has set, after a run has saved its settings.
Keep(r) ==
    LET reset == {p \in r.typed \cap Overwritten : r.cfg[p] = Blank}
                   \cup (IF r.upgraded THEN Overwritten \ r.typed ELSE {})
    IN  [p \in (DOMAIN chosen \cup r.typed) \ reset |->
            IF p \in r.typed THEN r.cfg[p] ELSE chosen[p]]

\* Another run that wrote more leaves its end, unless it writes after this one.
Write(s) ==
    /\ run[s].pc = "write"
    /\ LET r == run[s] IN
       /\ \/ file' = [state |-> "whole", cfg |-> r.cfg, lost |-> {}]
          \/ /\ file.state = "whole"
             /\ file' = [NoFile EXCEPT !.state = "torn"]
       /\ chosen' = Keep(r)
       /\ past' = [
             excused |-> (IF r.stale THEN Params ELSE past.excused \cup r.excused)
                           \ r.typed,
             loose |-> IF r.stale \/ r.version < version THEN Overwritten
                      ELSE r.loose]
       /\ run' = Written(s, AfterSave(r))
    /\ UNCHANGED <<upgrade, version, count>>

\* The disk is full: `service start` does not look at the error.
WriteFails(s) ==
    /\ run[s].pc = "write"
    /\ \/ file' = [NoFile EXCEPT !.state = "torn"]
       \/ \E lost \in Cuts :
            file' = [state |-> "whole", cfg |-> run[s].cfg, lost |-> lost]
    /\ past' = [excused |-> Params, loose |-> Overwritten]
    /\ run' = Written(s, IF run[s].kind = "start" THEN AfterSave(run[s]) ELSE Idle)
    /\ UNCHANGED <<upgrade, version, chosen, count>>

-----------------------------------------------------------------------------
(* The services are started. *)

\* startService after service config: a file that cannot be read is an error,
\* and with settings that are not valid it returns without one.
Reload(s) ==
    /\ run[s].pc = "load"
    /\ run' = [run EXCEPT ![s] =
          IF file.state # "whole" THEN Idle
          ELSE IF Valid(LoadConfig(run[s].version))
          THEN [run[s] EXCEPT !.pc = "compose"] ELSE [run[s] EXCEPT !.pc = "flag"]]
    /\ UNCHANGED <<file, upgrade, version, chosen, past, count>>

\* StartService reads the file once more, for what docker is called with.
StartService(s) ==
    /\ run[s].pc = "compose" /\ file.state = "whole"
    /\ run' = [run EXCEPT ![s].pc = "flag"]
    /\ UNCHANGED <<file, upgrade, version, chosen, past, count>>

\* The file cannot be read, docker fails, or the operator does not confirm.
StartFails(s) ==
    /\ run[s].pc = "compose"
    /\ \/ run' = [run EXCEPT ![s] = Idle]
       \/ run[s].kind = "config" /\ run' = [run EXCEPT ![s].pc = "flag"]
    /\ UNCHANGED <<file, upgrade, version, chosen, past, count>>

RemoveUpgradeFlagFile(s) ==
    /\ run[s].pc = "flag"
    /\ upgrade' = FALSE
    /\ LET upgraded == run[s].upgraded /\ run[s].version = version
       IN  past' = [past EXCEPT !.loose =
                       IF upgrade /\ ~upgraded THEN Overwritten ELSE @]
    /\ run' = [run EXCEPT ![s] = Idle]
    /\ UNCHANGED <<file, version, chosen, count>>

-----------------------------------------------------------------------------
(* Outside. *)

Kill(s) ==
    /\ run[s].pc # "none"
    /\ run' = [run EXCEPT ![s] = Idle]
    /\ UNCHANGED <<file, upgrade, version, chosen, past, count>>

\* A new version is installed. Runs of the old one go on.
Install ==
    /\ version < MaxVersion /\ count < MaxSteps
    /\ version' = version + 1 /\ upgrade' = TRUE
    /\ count' = count + 1
    /\ UNCHANGED <<file, run, chosen, past>>

\* The operator deletes a file that cannot be read.
StartOver ==
    /\ file.state = "torn" /\ \A s \in Runs : run[s].pc # "write"
    /\ file' = NoFile
    /\ chosen' = NoForm /\ past' = [excused |-> {}, loose |-> {}]
    /\ run' = [s \in Runs |->
          IF run[s].pc = "none" THEN Idle ELSE [run[s] EXCEPT !.stale = TRUE]]
    /\ UNCHANGED <<upgrade, version, count>>

SettingsNext ==
    \/ \E s \in Runs :
         \/ loadConfig(s)
         \/ \E p \in Params : \E value \in Values(p) : configureHeadless(s, p, value)
         \/ \E p \in ShownIn(run[s].form) : \E value \in Values(p) : Edit(s, p, value)
         \/ \E kind \in {"start", "resync"} : startService(s, kind)
         \/ LeaveWizard(s) \/ LeaveConfiguration(s)
         \/ Open(s) \/ Write(s) \/ WriteFails(s)
         \/ Reload(s) \/ StartService(s) \/ StartFails(s)
         \/ RemoveUpgradeFlagFile(s) \/ Kill(s)
    \/ Install \/ StartOver

SettingsSpec == SettingsInit /\ [][SettingsNext]_settingsVars

-----------------------------------------------------------------------------
(* Properties. *)

\* The variables are in their types, and a form has its own fields.
SettingsTypeOK ==
    LET Form(pc) == CASE pc = "wizard" -> WizardFields
                      [] pc = "configuration" -> PageFields
                      [] OTHER -> {}
    IN  /\ file \in File /\ upgrade \in BOOLEAN /\ version \in 1..MaxVersion
        /\ past \in [excused : SUBSET Params, loose : SUBSET Overwritten]
        /\ \A s \in Runs :
             /\ run[s].cfg \in Settings /\ run[s].version \in 1..version
             /\ DOMAIN run[s].form = Form(run[s].pc)
             /\ run[s].edited \subseteq DOMAIN run[s].form
             /\ run[s].typed \cup run[s].excused \cup DOMAIN chosen \subseteq Params
             /\ run[s].typed \cap run[s].excused = {}

\* What the operator has set, in a form or with a flag, is what is loaded, in
\* whatever order runs load, save, upgrade and are killed: unless the run that
\* saved had not read it, a full disk cut it, a form changed it without showing
\* it, or an upgrade, as announced, overwrote it (LoadConfig, UpdateDefaults).
ChoiceKept ==
    file.state = "whole" =>
        LET cfg == LoadConfig(version) IN
        \A p \in DOMAIN chosen \ past.excused : cfg[p] = chosen[p]

\* Once an upgrade is done, the container tags that the operator has not set
\* are those of the installed version for the network that is used: unless
\* a network was changed on the page or with a flag, a run of the old version
\* or with an older file saved, or a resync or an older run removed the flag
\* (ChangeNetwork, UpdateDefaults, RemoveUpgradeFlagFile).
DefaultsCurrent ==
    (file.state = "whole" /\ file.lost = {} /\ ~upgrade) =>
        LET cfg == LoadConfig(version) IN
        \A p \in Overwritten \ (past.loose \cup DOMAIN chosen) :
            cfg[p] = GetDefault(cfg.network, version)[p]

\* The services are started with what the last form of service config showed,
\* whichever forms the operator went through (UpdateConfig,
\* updateConfigFromUISetting), if no other run has written the file: but for the
\* fields that Unheeded names, which the code shows and does not use.
StartedAsShown ==
    [][\A s \in Runs :
          (/\ run[s].pc = "compose" /\ run'[s].pc = "flag"
           /\ run[s].kind = "config" /\ ~run[s].stale /\ file.state = "whole")
          => LET env == GenerateEnvironmentVariables(LoadConfig(run[s].version))
             IN  \A field \in DOMAIN run[s].shown :
                    env[field] = run[s].shown[field]]_settingsVars

=============================================================================
