----------------------------- MODULE Deployment -----------------------------
(***************************************************************************)
(* How a server comes to be installed and started: the dashboard's setup   *)
(* (setup.go, service.go), the installer's repair (install.sh), systemd,   *)
(* and the first start, which makes the creator key and the audit salt     *)
(* (state.go).                                                             *)
(*                                                                         *)
(* Dashboards, the installer and the server run side by side.  A setup     *)
(* writes the unit file in place, has systemd reload it, enables and       *)
(* starts the service, and only then records what it did in console.json.  *)
(* It may fail or be killed between any two of these.  A dashboard keeps   *)
(* the settings it read when it was opened.                                *)
(*                                                                         *)
(* An ExecStart line is a function from the flags on it to their values; a *)
(* URL stands for its host.  Paths and the account are left out: they are  *)
(* the same for all.                                                       *)
(***************************************************************************)
EXTENDS Naturals, FiniteSets

CONSTANTS
  Consoles,     \* dashboards
  Server,       \* the service's process
  Installer,    \* install.sh
  Choices,      \* the options an operator may set up
  Originals,    \* the units there may be before: NoUnit or an ExecStart line
  Values,       \* hostnames, addresses and the like
  Unset,        \* the empty string
  DefaultAddr,  \* defaultProxyAddr
  NoUnit,       \* there is no unit file
  Torn,         \* a unit file without an ExecStart line
  NoDeployment, \* console.json has no deployment
  NoSecret,     \* there is no such file
  MaxTrouble    \* bound: failures, deaths, stops and runs of the installer

Starters == Consoles \cup {Server}
Deployers == Consoles \cup {Installer}
Processes == Consoles \cup {Server, Installer}

Flags == {"-domain", "-acme-email", "-addr", "-public-issuer-url", "-cert"}
IsLine(u) == \E D \in SUBSET Flags : u \in [D -> Values \cup {Unset}]
Options == [mode : {"builtin", "proxy"}, domain : Values \cup {Unset},
            email : Values \cup {Unset}, addr : Values \cup {Unset}]

ASSUME ProcessesAssumption ==
  /\ Server # Installer
  /\ Server \notin Consoles /\ Installer \notin Consoles
  /\ NoSecret \notin Processes

ASSUME UnitsAssumption ==
  /\ ~IsLine(NoUnit) /\ ~IsLine(Torn) /\ NoUnit # Torn
  /\ \A u \in Originals \ {NoUnit} : IsLine(u)
  /\ Choices \subseteq Options
  /\ NoDeployment \notin Options
  /\ DefaultAddr \in Values
  /\ MaxTrouble \in Nat

\* applySetup demands a hostname and fills in the port of a proxy.
ASSUME ChoicesAssumption ==
  \A o \in Choices : o.domain # Unset /\ (o.mode = "proxy" => o.addr # Unset)

VARIABLES
  unit,       \* the unit file
  loaded,     \* the unit as systemd knows it
  enabled,    \* is it started at boot?
  active,     \* does systemd keep it running?
  running,    \* the line systemd runs the server with
  settings,   \* the deployment in console.json
  my,         \* per dashboard: the deployment in its memory
  secret,     \* creator-key.pem and audit-salt.bin, named after their maker
  has,        \* per process: the key and salt it works with
  pc,         \* where each process is
  job,        \* per dashboard and installer: what it is installing
  overlapped, \* history: two first starts were making the same file at once
  calm,       \* history: nobody got in another's way, nothing broke half way
  stale,      \* history: a setup began under the running service, which has
              \* not been started since
  kept,       \* history: the unit there was before, until a setup begins
  trouble     \* counts towards MaxTrouble

unitVars == <<unit, loaded, enabled>>
serviceVars == <<active, running, stale>>
settingsVars == <<settings, my>>
secretVars == <<secret, has, overlapped>>
historyVars == <<calm, kept>>
vars == <<unitVars, serviceVars, settingsVars, secretVars, historyVars,
          pc, job, trouble>>

\* A setup has begun: no unit is to be kept.
Nothing == Torn

Whole(u) == u \notin {NoUnit, Torn}

(***************************************************************************)
(* Options and command lines                                               *)
(***************************************************************************)
\* execStartLine: a proxy has no use for the e-mail, built-in TLS none for the
\* address.
Line(o) ==
  IF o.mode = "proxy"
  THEN [f \in {"-addr", "-public-issuer-url"} |->
          IF f = "-addr" THEN o.addr ELSE o.domain]
  ELSE [f \in {"-domain"} \cup (IF o.email = Unset THEN {} ELSE {"-acme-email"}) |->
          IF f = "-domain" THEN o.domain ELSE o.email]

FlagOf(line, f) == IF f \in DOMAIN line THEN line[f] ELSE Unset

WithDefaults(o) ==
  [o EXCEPT !.addr = IF o.mode = "proxy" /\ @ = Unset THEN DefaultAddr ELSE @]

\* Fault: the public URL decides the mode, not the domain.
RecoverByURL(line) ==
  WithDefaults(
    [mode   |-> IF "-public-issuer-url" \in DOMAIN line THEN "builtin" ELSE "proxy",
     domain |-> IF "-domain" \in DOMAIN line
                THEN line["-domain"] ELSE FlagOf(line, "-public-issuer-url"),
     email  |-> FlagOf(line, "-acme-email"),
     addr   |-> FlagOf(line, "-addr")])

\* parseExecStart: what it does not know it forgets.
Recover(line) ==
  WithDefaults(
    [mode   |-> IF "-domain" \in DOMAIN line THEN "builtin" ELSE "proxy",
     domain |-> IF "-domain" \in DOMAIN line
                THEN line["-domain"] ELSE FlagOf(line, "-public-issuer-url"),
     email  |-> FlagOf(line, "-acme-email"),
     addr   |-> FlagOf(line, "-addr")])

NoOptions == [mode |-> "builtin", domain |-> Unset, email |-> Unset, addr |-> Unset]
NoJob == [kind |-> "none", line |-> NoUnit, opts |-> NoOptions]

\* What a dashboard takes the deployment to be.
Deploy(c) ==
  IF my[c] # NoDeployment THEN my[c]
  ELSE IF Whole(unit) THEN Recover(unit)
  ELSE NoOptions

(***************************************************************************)
(* Where a process can be                                                  *)
(***************************************************************************)
Files == {"key", "salt"}
Reading(f) == IF f = "key" THEN "readKey" ELSE "readSalt"
Making(f) == IF f = "key" THEN "makeKey" ELSE "makeSalt"

Installing == {"truncate", "fill", "reload", "enable", "restart", "save"}
Phases == {"off", "readKey", "makeKey", "readSalt", "makeSalt",
           "settings", "detect", "ready", "up"} \cup Installing

\* NewStateWithDir loads the key, then the salt, then files of other modules.
After(p, f) == IF f = "key" THEN "readSalt"
               ELSE IF p = Server THEN "up" ELSE "settings"

Makers(f) == {p \in Starters : pc[p] = Making(f)}
Alone(p) == \A q \in Deployers \ {p} : pc[q] = "off"

NoSecrets == [f \in Files |-> NoSecret]

Init ==
  /\ unit \in Originals
  /\ loaded = unit
  /\ enabled = Whole(unit)
  /\ active = Whole(unit)
  /\ running = unit
  /\ settings = NoDeployment
  /\ my = [c \in Consoles |-> NoDeployment]
  /\ secret = NoSecrets
  /\ has = [p \in Starters |-> NoSecrets]
  /\ pc = [p \in Processes |-> "off"]
  /\ job = [p \in Deployers |-> NoJob]
  /\ overlapped = FALSE
  /\ calm = TRUE
  /\ stale = FALSE
  /\ kept = unit
  /\ trouble = 0

Goto(p, phase) == pc' = [pc EXCEPT ![p] = phase]

Drop(p) == job' = [job EXCEPT ![p] = NoJob]

Suffer == trouble < MaxTrouble /\ trouble' = trouble + 1

(***************************************************************************)
(* loadOrCreateCreatorKey, loadOrCreateAuditSalt                           *)
(***************************************************************************)
\* The file is there, or it is not and the process makes one.
ReadSecret(p, f) ==
  /\ pc[p] = Reading(f)
  /\ \/ /\ secret[f] # NoSecret
        /\ has' = [has EXCEPT ![p][f] = secret[f]]
        /\ Goto(p, After(p, f))
        /\ UNCHANGED overlapped
     \/ /\ secret[f] = NoSecret
        /\ Goto(p, Making(f))
        /\ overlapped' = (overlapped \/ Makers(f) # {})
        /\ UNCHANGED has
  /\ UNCHANGED <<unitVars, serviceVars, settingsVars, secret, historyVars, job,
                 trouble>>

\* atomicWriteFile replaces whatever is there by now.
MakeSecret(p, f) ==
  /\ pc[p] = Making(f)
  /\ secret' = [secret EXCEPT ![f] = p]
  /\ has' = [has EXCEPT ![p][f] = p]
  /\ Goto(p, After(p, f))
  /\ UNCHANGED <<unitVars, serviceVars, settingsVars, overlapped, historyVars,
                 job, trouble>>

\* Fault: whatever keeps the file from being read, a new one is made.
MakeAnyway(p, f) ==
  /\ pc[p] = Reading(f)
  /\ Suffer
  /\ Goto(p, Making(f))
  /\ UNCHANGED <<unitVars, serviceVars, settingsVars, secretVars, historyVars,
                 job>>

\* The file is there and cannot be read, or it cannot be written: the process
\* ends.
SecretFails(p, f) ==
  /\ pc[p] \in {Reading(f), Making(f)}
  /\ Suffer
  /\ Goto(p, "off")
  /\ has' = [has EXCEPT ![p] = NoSecrets]
  /\ UNCHANGED <<unitVars, serviceVars, settingsVars, secret, overlapped,
                 historyVars, job>>

(***************************************************************************)
(* A dashboard's start (newConsole, runMenuSubcommand)                     *)
(***************************************************************************)
Open(c) ==
  /\ pc[c] = "off"
  /\ Goto(c, "readKey")
  /\ calm' = (calm /\ Alone(c))
  /\ UNCHANGED <<unitVars, serviceVars, settingsVars, secretVars, kept, job, trouble>>

\* Settings that cannot be read are no settings.
LoadSettings(c) ==
  /\ pc[c] = "settings"
  /\ \/ my' = [my EXCEPT ![c] = settings] /\ UNCHANGED <<calm, trouble>>
     \/ /\ Suffer
        /\ calm' = (calm /\ settings = NoDeployment)
        /\ UNCHANGED my
  /\ Goto(c, "detect")
  /\ UNCHANGED <<unitVars, serviceVars, settings, secretVars, kept, job>>

\* saveSettings ignores a failed write; one that matters is recorded.
Save(c, d) ==
  \/ settings' = d /\ UNCHANGED <<calm, trouble>>
  \/ Suffer /\ calm' = (calm /\ settings = d) /\ UNCHANGED settings

\* detectSetupState: a unit that no setup is recorded for is adopted.
Detect(c) ==
  /\ pc[c] = "detect"
  /\ Goto(c, "ready")
  /\ IF my[c] = NoDeployment /\ Whole(unit)
     THEN /\ my' = [my EXCEPT ![c] = Recover(unit)]
          /\ Save(c, Recover(unit))
     ELSE UNCHANGED <<settingsVars, calm, trouble>>
  /\ UNCHANGED <<unitVars, serviceVars, secretVars, kept, job>>

\* Minting a link saves the settings the dashboard has.
Mint(c) ==
  /\ pc[c] = "ready"
  /\ settings # my[c]
  /\ Save(c, my[c])
  /\ UNCHANGED <<unitVars, serviceVars, my, secretVars, kept, pc, job>>

Close(c) ==
  /\ pc[c] = "ready"
  /\ Goto(c, "off")
  /\ my' = [my EXCEPT ![c] = NoDeployment]
  /\ has' = [has EXCEPT ![c] = NoSecrets]
  /\ UNCHANGED <<unitVars, serviceVars, settings, secret, overlapped,
                 historyVars, job, trouble>>

(***************************************************************************)
(* Setup and repair                                                        *)
(***************************************************************************)
\* install.sh does not tell console.json of its setup.
Unrecorded(p, kind) ==
  p = Installer /\ kind = "setup" /\ settings # NoDeployment

Begin(p, kind, line, opts) ==
  /\ job' = [job EXCEPT ![p] = [kind |-> kind, line |-> line, opts |-> opts]]
  /\ Goto(p, "truncate")
  /\ calm' = (calm /\ Alone(p) /\ ~Unrecorded(p, kind))

\* Fault: the form is offered on a fresh host only.
SetupIfFresh(c, o) ==
  /\ pc[c] = "ready" /\ unit = NoUnit
  /\ Begin(c, "setup", Line(o), o)
  /\ kept' = Nothing
  /\ stale' = (stale \/ active)
  /\ UNCHANGED <<unitVars, active, running, settingsVars, secretVars, trouble>>

\* applySetup: the form is sent to the private service command.
Setup(c, o) ==
  /\ pc[c] = "ready"
  /\ Begin(c, "setup", Line(o), o)
  /\ kept' = Nothing
  /\ stale' = (stale \/ active)
  /\ UNCHANGED <<unitVars, active, running, settingsVars, secretVars, trouble>>

\* install.sh given a domain: a setup without a dashboard.
InstallerSetup(o) ==
  /\ pc[Installer] = "off" /\ o.mode = "builtin"
  /\ Suffer
  /\ Begin(Installer, "setup", Line(o), o)
  /\ kept' = Nothing
  /\ stale' = (stale \/ active)
  /\ UNCHANGED <<unitVars, active, running, settingsVars, secretVars>>

\* Fault: the unit is rendered from the options that were recovered.
RepairFromOptions ==
  /\ pc[Installer] = "off" /\ Whole(unit)
  /\ Suffer
  /\ Begin(Installer, "repair", Line(Recover(unit)), NoOptions)
  /\ UNCHANGED <<unitVars, serviceVars, settingsVars, secretVars, kept>>

\* repairServiceUnit keeps the command to the letter.
Repair ==
  /\ pc[Installer] = "off" /\ Whole(unit)
  /\ Suffer
  /\ Begin(Installer, "repair", unit, NoOptions)
  /\ UNCHANGED <<unitVars, serviceVars, settingsVars, secretVars, kept>>

\* os.WriteFile empties the file, then writes it.
Truncate(p) ==
  /\ pc[p] = "truncate"
  /\ unit' = Torn
  /\ Goto(p, "fill")
  /\ UNCHANGED <<loaded, enabled, serviceVars, settingsVars, secretVars,
                 historyVars, job, trouble>>

Fill(p) ==
  /\ pc[p] = "fill"
  /\ unit' = job[p].line
  /\ Goto(p, "reload")
  /\ UNCHANGED <<loaded, enabled, serviceVars, settingsVars, secretVars,
                 historyVars, job, trouble>>

DaemonReload(p) ==
  /\ pc[p] = "reload"
  /\ loaded' = unit
  /\ Goto(p, IF job[p].kind = "setup" THEN "enable" ELSE "restart")
  /\ UNCHANGED <<unit, enabled, serviceVars, settingsVars, secretVars,
                 historyVars, job, trouble>>

(***************************************************************************)
(* systemd                                                                 *)
(***************************************************************************)
\* No setup is between its install and its end.
Quiet == \A p \in Deployers : pc[p] \notin Installing \/ job[p].kind = "repair"

\* Start the service with the given unit unless it is active: process p goes on.
StartService(line, p, phase) ==
  IF active
  THEN /\ Goto(p, phase)
       /\ UNCHANGED <<serviceVars, has>>
  ELSE /\ pc' = [pc EXCEPT ![p] = phase, ![Server] = "readKey"]
       /\ has' = [has EXCEPT ![Server] = NoSecrets]
       /\ active' = TRUE
       /\ running' = line
       /\ stale' = (stale /\ ~Quiet)

\* Fault: nobody looks whether there is a command to run.
EnableAnything(p) ==
  /\ pc[p] = "enable"
  /\ loaded' = unit
  /\ enabled' = TRUE
  /\ IF p = Installer
     THEN StartService(unit, p, "off") /\ Drop(p)
     ELSE StartService(unit, p, "save") /\ UNCHANGED job
  /\ UNCHANGED <<unit, settingsVars, secret, overlapped, historyVars, trouble>>

\* enable --now; enable has the manager reload its units, too.
EnableNow(p) ==
  /\ pc[p] = "enable"
  /\ Whole(unit)
  /\ loaded' = unit
  /\ enabled' = TRUE
  /\ IF p = Installer
     THEN StartService(unit, p, "off") /\ Drop(p)
     ELSE StartService(unit, p, "save") /\ UNCHANGED job
  /\ UNCHANGED <<unit, settingsVars, secret, overlapped, historyVars, trouble>>

\* The setup succeeded: record it.
RecordSetup(c) ==
  /\ pc[c] = "save"
  /\ my' = [my EXCEPT ![c] = job[c].opts]
  /\ Save(c, job[c].opts)
  /\ Goto(c, "ready")
  /\ Drop(c)
  /\ UNCHANGED <<unitVars, serviceVars, secretVars, kept>>

\* What is lost if p stops now: an unfinished unit, or a new one while
\* console.json speaks of the old.  A first setup loses nothing once systemd
\* knows the unit: it will be adopted.
Breaks(p) ==
  \/ pc[p] = "fill"
  \/ /\ job[p].kind = "setup"
     /\ \/ pc[p] = "reload"
        \/ pc[p] \in {"enable", "save"} /\ settings # NoDeployment

\* A command fails, and setup with it.
StepFails(p) ==
  /\ pc[p] \in Installing \ {"save"}
  /\ Suffer
  /\ calm' = (calm /\ ~Breaks(p))
  /\ Goto(p, IF p = Installer THEN "off" ELSE "ready")
  /\ Drop(p)
  /\ UNCHANGED <<unitVars, serviceVars, settingsVars, secretVars, kept>>

\* systemd loads a unit it has not seen when it is asked to start it.
Startable == IF loaded = NoUnit THEN unit ELSE loaded

\* There is nothing to start: somebody has truncated the unit meanwhile.
StartFails(p) ==
  /\ \/ pc[p] = "enable" /\ ~Whole(unit) /\ loaded' = unit
     \/ pc[p] = "restart" /\ ~Whole(Startable) /\ loaded' = Startable
  /\ calm' = FALSE
  /\ Goto(p, IF p = Installer THEN "off" ELSE "ready")
  /\ Drop(p)
  /\ UNCHANGED <<unit, enabled, serviceVars, settingsVars, secretVars,
                 kept, trouble>>

\* The service is stopped, if it runs, and started with what systemd knows.
RestartService(p, phase) ==
  /\ Whole(Startable)
  /\ loaded' = Startable
  /\ pc' = [pc EXCEPT ![p] = phase, ![Server] = "readKey"]
  /\ has' = [has EXCEPT ![Server] = NoSecrets]
  /\ active' = TRUE
  /\ running' = Startable
  /\ stale' = (stale /\ ~Quiet)
  /\ Drop(p)
  /\ UNCHANGED <<unit, enabled, settingsVars, secret, overlapped, historyVars,
                 trouble>>

\* The end of a repair.
InstallerRestart ==
  /\ pc[Installer] = "restart"
  /\ RestartService(Installer, "off")

\* The buttons of the Server screen.
Start(c) ==
  /\ pc[c] = "ready" /\ ~active
  /\ RestartService(c, "ready")

Restart(c) ==
  /\ pc[c] = "ready" /\ active
  /\ RestartService(c, "ready")

Stop(c) ==
  /\ pc[c] = "ready" /\ active
  /\ Suffer
  /\ active' = FALSE
  /\ pc' = [pc EXCEPT ![Server] = "off"]
  /\ has' = [has EXCEPT ![Server] = NoSecrets]
  /\ UNCHANGED <<unitVars, running, stale, settingsVars, secret, overlapped,
                 historyVars, job>>

\* Restart=on-failure.
Respawn ==
  /\ active /\ pc[Server] = "off"
  /\ Whole(loaded)
  /\ Goto(Server, "readKey")
  /\ running' = loaded
  /\ stale' = (stale /\ ~Quiet)
  /\ UNCHANGED <<unitVars, active, settingsVars, secretVars, historyVars, job,
                 trouble>>

\* There is no command to run it with.
RespawnFails ==
  /\ active /\ pc[Server] = "off"
  /\ ~Whole(loaded)
  /\ active' = FALSE
  /\ UNCHANGED <<unitVars, running, stale, settingsVars, secretVars,
                 historyVars, pc, job, trouble>>

(***************************************************************************)
(* Deaths                                                                  *)
(***************************************************************************)
\* A process is killed, and what it started with it.
Kill(p) ==
  /\ pc[p] # "off"
  /\ Suffer
  /\ Goto(p, "off")
  /\ Drop(p)
  /\ IF p = Installer
     THEN UNCHANGED <<has, my>>
     ELSE /\ has' = [has EXCEPT ![p] = NoSecrets]
          /\ my' = IF p = Server THEN my ELSE [my EXCEPT ![p] = NoDeployment]
  /\ calm' = (calm /\ (p = Server \/ ~Breaks(p)))
  /\ UNCHANGED <<unitVars, serviceVars, settings, secret, overlapped, kept>>

Reboot ==
  /\ Suffer
  /\ loaded' = unit
  /\ active' = (enabled /\ Whole(unit))
  /\ running' = IF active' THEN unit ELSE running
  /\ stale' = FALSE
  /\ pc' = [p \in Processes |-> "off"]
  /\ has' = [p \in Starters |-> NoSecrets]
  /\ my' = [c \in Consoles |-> NoDeployment]
  /\ job' = [p \in Deployers |-> NoJob]
  /\ calm' = (calm /\ \A p \in Deployers : ~Breaks(p))
  /\ UNCHANGED <<unit, enabled, settings, secret, overlapped, kept>>

Begins(p) == \E f \in Files : ReadSecret(p, f) \/ MakeSecret(p, f)

Launches(c) == Begins(c) \/ LoadSettings(c) \/ Detect(c)

Deploys(p) == Truncate(p) \/ Fill(p) \/ DaemonReload(p) \/ EnableNow(p)
              \/ StartFails(p)

Next ==
  \/ \E p \in Starters :
       Begins(p) \/ \E f \in Files : SecretFails(p, f)
  \/ \E c \in Consoles :
       \/ Open(c) \/ LoadSettings(c) \/ Detect(c) \/ Mint(c) \/ Close(c)
       \/ \E o \in Choices : Setup(c, o)
       \/ RecordSetup(c) \/ Start(c) \/ Restart(c) \/ Stop(c)
  \/ \E p \in Deployers : Deploys(p) \/ StepFails(p)
  \/ (\E o \in Choices : InstallerSetup(o)) \/ Repair \/ InstallerRestart
  \/ \E p \in Processes : Kill(p)
  \/ Respawn \/ RespawnFails
  \/ Reboot

Spec == Init /\ [][Next]_vars

\* Processes go on, systemd restarts what died, and an operator whose server
\* does not run opens a dashboard and runs setup, however often it fails.
Fairness ==
  /\ WF_vars(Begins(Server)) /\ WF_vars(Respawn \/ RespawnFails)
  /\ WF_vars(Deploys(Installer)) /\ WF_vars(InstallerRestart)
  /\ \A c \in Consoles :
       /\ WF_vars(~active /\ Open(c))
       /\ WF_vars(Launches(c))
       /\ SF_vars(~active /\ \E o \in Choices : Setup(c, o))
       /\ WF_vars(Deploys(c) \/ RecordSetup(c))

FairSpec == Spec /\ Fairness

(***************************************************************************)
(* What must hold                                                          *)
(***************************************************************************)
Deployments == Options \cup {NoDeployment}

\* Nothing is installed but what a setup or a unit of before asked for; what
\* systemd keeps running it was able to load.
TypeOK ==
  /\ \A u \in {unit, loaded, running} : u \in {NoUnit, Torn} \/ IsLine(u)
  /\ enabled \in BOOLEAN
  /\ active \in BOOLEAN
  /\ settings \in Deployments
  /\ my \in [Consoles -> Deployments]
  /\ secret \in [Files -> Starters \cup {NoSecret}]
  /\ has \in [Starters -> [Files -> Starters \cup {NoSecret}]]
  /\ pc \in [Processes -> Phases]
  /\ \A p \in Deployers :
       /\ job[p].kind \in {"none", "setup", "repair"}
       /\ job[p].opts \in Options
       /\ pc[p] \in Installing => IsLine(job[p].line)
  /\ {overlapped, calm, stale} \subseteq BOOLEAN
  /\ kept \in Originals \cup {Nothing}
  /\ trouble \in 0 .. MaxTrouble
  /\ active => Whole(running)

\* A key or salt that recipients have seen is never replaced: unless two first
\* starts are making it at once, the file stays as it is once it is there,
\* whatever fails, dies or cannot be read.
IdentityKept ==
  [][\A f \in Files :
       secret[f] # NoSecret /\ ~overlapped => secret'[f] = secret[f]]_vars

\* Unless two first starts were making it at once, all processes work with
\* the key and the salt that are on disk: the dashboard shows the key the
\* server signs with.
OneIdentity ==
  ~overlapped =>
    \A p \in Starters, f \in Files :
      has[p][f] # NoSecret => has[p][f] = secret[f]

\* "preserve every existing runtime flag exactly" (service.go): a unit that no
\* setup has replaced keeps its command to the letter, through adoption,
\* repair and restarts.
CommandKept == kept # Nothing => unit \in {kept, Torn}

\* Nobody is deploying or about to compare.
Settled ==
  \A p \in Deployers : pc[p] \notin Installing \cup {"settings", "detect"}

\* If one party at a time is at work and nothing breaks half way, the unit, what
\* systemd has loaded, what the server was started with and what every
\* dashboard believes are the same deployment.  A first setup that ends before
\* it is recorded does no harm, and neither do crashes and reboots.
InStep ==
  calm /\ Settled =>
    /\ unit = loaded
    /\ active /\ ~stale => running = unit
    /\ \A c \in Consoles :
         pc[c] = "ready" =>
           /\ my[c] = settings
           /\ Whole(unit) => Line(Deploy(c)) = Line(Recover(unit))

\* From whatever a failed setup has left behind, a torn unit included, one
\* operator who keeps running setup gets a running service.
WayBack ==
  \A c \in Consoles :
    <>[]Alone(c) => <>[]active

=============================================================================
