-------------------------- MODULE DeploymentProofs --------------------------
(***************************************************************************)
(* Proofs about Deployment, for any number of dashboards, any units there  *)
(* were before, any options and any number of failures and deaths.         *)
(***************************************************************************)
EXTENDS Deployment, TLAPS

\* TypeOK in four parts.
Units ==
  /\ \A u \in {unit, loaded, running} : u \in {NoUnit, Torn} \/ IsLine(u)
  /\ active => Whole(running)

Jobs ==
  /\ pc \in [Processes -> Phases]
  /\ job = [p \in Deployers |-> job[p]]
  /\ \A p \in Deployers :
       /\ job[p].kind \in {"none", "setup", "repair"}
       /\ job[p].opts \in Options
       /\ pc[p] \in Installing => IsLine(job[p].line)

Records ==
  /\ settings \in Deployments
  /\ my \in [Consoles -> Deployments]
  /\ secret \in [Files -> Starters \cup {NoSecret}]
  /\ has \in [Starters -> [Files -> Starters \cup {NoSecret}]]
  /\ kept \in Originals \cup {Nothing}

Switches ==
  /\ enabled \in BOOLEAN /\ active \in BOOLEAN
  /\ overlapped \in BOOLEAN /\ calm \in BOOLEAN /\ stale \in BOOLEAN
  /\ trouble \in 0 .. MaxTrouble

DInv == Units /\ Jobs /\ Records /\ Switches

\* A first start makes a file that is not there, and it makes it alone.
OneMaker ==
  ~overlapped =>
    \A f \in Files :
      /\ \A p, q \in Makers(f) : p = q
      /\ Makers(f) # {} => secret[f] = NoSecret

\* Until a setup begins, those who deploy repair what there was.
OnlyRepairs ==
  kept # Nothing =>
    \A p \in Deployers :
      pc[p] \in Installing => job[p].kind = "repair" /\ job[p].line = kept

(***************************************************************************)
(* Lines and options                                                       *)
(***************************************************************************)
LEMMA LinesAreLines == ASSUME NEW o \in Options PROVE IsLine(Line(o))
  <1>1. CASE o.mode = "proxy"
    <2>1. {"-addr", "-public-issuer-url"} \in SUBSET Flags
      BY DEF Flags
    <2>2. Line(o) \in [{"-addr", "-public-issuer-url"} -> Values \cup {Unset}]
      BY <1>1 DEF Line, Options
    <2>3. QED
      BY <2>1, <2>2 DEF IsLine
  <1>2. CASE o.mode # "proxy"
    <2> DEFINE D == {"-domain"} \cup (IF o.email = Unset THEN {} ELSE {"-acme-email"})
    <2>1. D \in SUBSET Flags
      BY DEF Flags
    <2>2. Line(o) \in [D -> Values \cup {Unset}]
      BY <1>2 DEF Line, Options
    <2>3. QED
      BY <2>1, <2>2 DEF IsLine
  <1>3. QED
    BY <1>1, <1>2

LEMMA RecoveredAreOptions ==
  ASSUME NEW line, IsLine(line)
  PROVE  Recover(line) \in Options
  <1> PICK D \in SUBSET Flags : line \in [D -> Values \cup {Unset}]
    BY DEF IsLine
  <1>1. DefaultAddr \in Values
    BY UnitsAssumption
  <1>2. \A f : FlagOf(line, f) \in Values \cup {Unset}
    BY DEF FlagOf
  <1>3. "-domain" \in DOMAIN line => line["-domain"] \in Values \cup {Unset}
    OBVIOUS
  <1>4. \A o \in Options : WithDefaults(o) \in Options
    BY <1>1 DEF WithDefaults, Options
  <1>5. QED
    BY <1>2, <1>3, <1>4 DEF Recover, Options

LEMMA WholeAreLines == Units => (Whole(unit) => IsLine(unit))
  BY DEF Units, Whole

(***************************************************************************)
(* Type correctness                                                        *)
(***************************************************************************)
LEMMA UnitsStep == Units /\ Jobs /\ [Next]_vars => Units'
  <1> SUFFICES ASSUME Units /\ Jobs, [Next]_vars
               PROVE  Units'
    OBVIOUS
  <1> USE UnitsAssumption, ProcessesAssumption
      DEF Units, Jobs, Whole, Installing, NoJob, unitVars, serviceVars,
          settingsVars, secretVars, historyVars, Goto, Drop, Suffer
  <1>0. NoOptions \in Options
    BY DEF NoOptions, Options
  <1>1. ASSUME NEW p \in Starters, NEW f \in Files, ReadSecret(p, f)
        PROVE  Units'
    BY <1>0, <1>1 DEF ReadSecret, Reading, After, Making
  <1>2. ASSUME NEW p \in Starters, NEW f \in Files, MakeSecret(p, f)
        PROVE  Units'
    BY <1>0, <1>2 DEF MakeSecret, After, Making
  <1>3. ASSUME NEW p \in Starters, NEW f \in Files, SecretFails(p, f)
        PROVE  Units'
    BY <1>0, <1>3 DEF SecretFails, NoSecrets
  <1>4. ASSUME NEW c \in Consoles, Open(c)
        PROVE  Units'
    BY <1>0, <1>4 DEF Open, Alone
  <1>5. ASSUME NEW c \in Consoles, LoadSettings(c)
        PROVE  Units'
    BY <1>0, <1>5 DEF LoadSettings
  <1>6. ASSUME NEW c \in Consoles, Detect(c)
        PROVE  Units'
    BY <1>0, <1>6, WholeAreLines, RecoveredAreOptions DEF Detect, Save
  <1>7. ASSUME NEW c \in Consoles, Mint(c)
        PROVE  Units'
    BY <1>0, <1>7 DEF Mint, Save
  <1>8. ASSUME NEW c \in Consoles, Close(c)
        PROVE  Units'
    BY <1>0, <1>8 DEF Close, NoSecrets
  <1>9. ASSUME NEW c \in Consoles, NEW o \in Choices, Setup(c, o)
        PROVE  Units'
    BY <1>0, <1>9, LinesAreLines DEF Setup, Begin, Alone
  <1>10. ASSUME NEW c \in Consoles, RecordSetup(c)
        PROVE  Units'
    BY <1>0, <1>10 DEF RecordSetup, Save
  <1>11. ASSUME NEW c \in Consoles, Start(c) \/ Restart(c)
        PROVE  Units'
    BY <1>0, <1>11 DEF Start, Restart, RestartService, Startable, NoSecrets,
                       Quiet
  <1>12. ASSUME NEW c \in Consoles, Stop(c)
        PROVE  Units'
    BY <1>0, <1>12 DEF Stop, NoSecrets
  <1>13. ASSUME NEW p \in Deployers, Truncate(p) \/ Fill(p) \/ DaemonReload(p)
        PROVE  Units'
    BY <1>0, <1>13 DEF Truncate, Fill, DaemonReload
  <1>14. ASSUME NEW p \in Deployers, EnableNow(p)
        PROVE  Units'
    BY <1>0, <1>14 DEF EnableNow, StartService, NoSecrets, Quiet
  <1>15. ASSUME NEW p \in Deployers, StartFails(p)
        PROVE  Units'
    BY <1>0, <1>15 DEF StartFails, Startable
  <1>16. ASSUME NEW p \in Deployers, StepFails(p)
        PROVE  Units'
    BY <1>0, <1>16 DEF StepFails, Breaks
  <1>17. ASSUME NEW o \in Choices, InstallerSetup(o)
        PROVE  Units'
    BY <1>0, <1>17, LinesAreLines DEF InstallerSetup, Begin, Alone, Unrecorded
  <1>18. CASE Repair
    BY <1>0, <1>18, WholeAreLines DEF Repair, Begin, Alone, Unrecorded
  <1>19. CASE InstallerRestart
    BY <1>0, <1>19 DEF InstallerRestart, RestartService, Startable, NoSecrets,
                       Quiet
  <1>20. ASSUME NEW p \in Processes, Kill(p)
        PROVE  Units'
    BY <1>0, <1>20 DEF Kill, NoSecrets, Breaks
  <1>21. CASE Respawn \/ RespawnFails
    BY <1>0, <1>21 DEF Respawn, RespawnFails, Quiet
  <1>22. CASE Reboot
    BY <1>0, <1>22 DEF Reboot, NoSecrets, Breaks
  <1>23. CASE UNCHANGED vars
    BY <1>0, <1>23 DEF vars
  <1>24. QED
    BY <1>1, <1>2, <1>3, <1>4, <1>5, <1>6, <1>7, <1>8, <1>9, <1>10, <1>11,
        <1>12, <1>13, <1>14, <1>15, <1>16, <1>17, <1>18, <1>19, <1>20, <1>21,
            <1>22, <1>23
    DEF Next, Begins, Deploys

LEMMA JobsStep == Units /\ Jobs /\ [Next]_vars => Jobs'
  <1> SUFFICES ASSUME Units /\ Jobs, [Next]_vars
               PROVE  Jobs'
    OBVIOUS
  <1> USE UnitsAssumption, ProcessesAssumption
      DEF Jobs, Phases, Installing, Starters, Deployers, Processes, Files,
          NoJob, unitVars, serviceVars, settingsVars, secretVars, historyVars,
              Goto, Drop, Suffer
  <1>0. NoOptions \in Options
    BY DEF NoOptions, Options
  <1>1. ASSUME NEW p \in Starters, NEW f \in Files, ReadSecret(p, f)
        PROVE  Jobs'
    BY <1>0, <1>1 DEF ReadSecret, Reading, After, Making
  <1>2. ASSUME NEW p \in Starters, NEW f \in Files, MakeSecret(p, f)
        PROVE  Jobs'
    BY <1>0, <1>2 DEF MakeSecret, After, Making
  <1>3. ASSUME NEW p \in Starters, NEW f \in Files, SecretFails(p, f)
        PROVE  Jobs'
    BY <1>0, <1>3 DEF SecretFails, NoSecrets
  <1>4. ASSUME NEW c \in Consoles, Open(c)
        PROVE  Jobs'
    BY <1>0, <1>4 DEF Open, Alone
  <1>5. ASSUME NEW c \in Consoles, LoadSettings(c)
        PROVE  Jobs'
    BY <1>0, <1>5 DEF LoadSettings
  <1>6. ASSUME NEW c \in Consoles, Detect(c)
        PROVE  Jobs'
    BY <1>0, <1>6, WholeAreLines, RecoveredAreOptions DEF Detect, Save
  <1>7. ASSUME NEW c \in Consoles, Mint(c)
        PROVE  Jobs'
    BY <1>0, <1>7 DEF Mint, Save
  <1>8. ASSUME NEW c \in Consoles, Close(c)
        PROVE  Jobs'
    BY <1>0, <1>8 DEF Close, NoSecrets
  <1>9. ASSUME NEW c \in Consoles, NEW o \in Choices, Setup(c, o)
        PROVE  Jobs'
    BY <1>0, <1>9, LinesAreLines DEF Setup, Begin, Alone
  <1>10. ASSUME NEW c \in Consoles, RecordSetup(c)
        PROVE  Jobs'
    BY <1>0, <1>10 DEF RecordSetup, Save
  <1>11. ASSUME NEW c \in Consoles, RestartService(c, "ready"), pc[c] = "ready"
        PROVE  Jobs'
    <2>1. /\ pc' = [pc EXCEPT ![c] = "ready", ![Server] = "readKey"]
          /\ job' = [job EXCEPT ![c] = NoJob]
      BY <1>11 DEF RestartService
    <2>2. /\ pc' \in [Processes -> Phases]
          /\ job' = [p \in Deployers |-> job'[p]]
      BY <2>1
    <2>3. ASSUME NEW p \in Deployers
          PROVE  /\ job'[p].kind \in {"none", "setup", "repair"}
                 /\ job'[p].opts \in Options
                 /\ pc'[p] \in Installing => IsLine(job'[p].line)
      BY <1>0, <2>1
    <2>4. QED
      BY <2>2, <2>3
  <1>12. ASSUME NEW c \in Consoles, Stop(c)
        PROVE  Jobs'
    BY <1>0, <1>12 DEF Stop, NoSecrets
  <1>13. ASSUME NEW p \in Deployers, Truncate(p) \/ Fill(p) \/ DaemonReload(p)
        PROVE  Jobs'
    BY <1>0, <1>13 DEF Truncate, Fill, DaemonReload
  <1>14. ASSUME NEW p \in Deployers, EnableNow(p)
        PROVE  Jobs'
    BY <1>0, <1>14 DEF EnableNow, StartService, NoSecrets, Quiet
  <1>15. ASSUME NEW p \in Deployers, StartFails(p)
        PROVE  Jobs'
    BY <1>0, <1>15 DEF StartFails, Startable
  <1>16. ASSUME NEW p \in Deployers, StepFails(p)
        PROVE  Jobs'
    BY <1>0, <1>16 DEF StepFails, Breaks
  <1>17. ASSUME NEW o \in Choices, InstallerSetup(o)
        PROVE  Jobs'
    BY <1>0, <1>17, LinesAreLines DEF InstallerSetup, Begin, Alone, Unrecorded
  <1>18. CASE Repair
    BY <1>0, <1>18, WholeAreLines DEF Repair, Begin, Alone, Unrecorded
  <1>19. CASE InstallerRestart
    BY <1>0, <1>19 DEF InstallerRestart, RestartService, Startable, NoSecrets,
                       Quiet
  <1>20. ASSUME NEW p \in Processes, Kill(p)
        PROVE  Jobs'
    BY <1>0, <1>20 DEF Kill, NoSecrets, Breaks
  <1>21. CASE Respawn \/ RespawnFails
    BY <1>0, <1>21 DEF Respawn, RespawnFails, Quiet
  <1>22. CASE Reboot
    BY <1>0, <1>22 DEF Reboot, NoSecrets, Breaks
  <1>23. CASE UNCHANGED vars
    BY <1>0, <1>23 DEF vars
  <1>24. QED
    BY <1>1, <1>2, <1>3, <1>4, <1>5, <1>6, <1>7, <1>8, <1>9, <1>10, <1>11,
        <1>12, <1>13, <1>14, <1>15, <1>16, <1>17, <1>18, <1>19, <1>20, <1>21,
            <1>22, <1>23
    DEF Next, Begins, Deploys, Start, Restart

LEMMA RecordsStep == Units /\ Jobs /\ Records /\ [Next]_vars => Records'
  <1> SUFFICES ASSUME Units /\ Jobs /\ Records, [Next]_vars
               PROVE  Records'
    OBVIOUS
  <1> USE UnitsAssumption, ProcessesAssumption
      DEF Records, Deployments, Starters, Files, Nothing, unitVars,
          serviceVars, settingsVars, secretVars, historyVars, Goto, Drop, Suffer
  <1>0. NoOptions \in Options
    BY DEF NoOptions, Options
  <1>1. ASSUME NEW p \in Starters, NEW f \in Files, ReadSecret(p, f)
        PROVE  Records'
    BY <1>0, <1>1 DEF ReadSecret, Reading, After, Making
  <1>2. ASSUME NEW p \in Starters, NEW f \in Files, MakeSecret(p, f)
        PROVE  Records'
    BY <1>0, <1>2 DEF MakeSecret, After, Making
  <1>3. ASSUME NEW p \in Starters, NEW f \in Files, SecretFails(p, f)
        PROVE  Records'
    BY <1>0, <1>3 DEF SecretFails, NoSecrets
  <1>4. ASSUME NEW c \in Consoles, Open(c)
        PROVE  Records'
    BY <1>0, <1>4 DEF Open, Alone
  <1>5. ASSUME NEW c \in Consoles, LoadSettings(c)
        PROVE  Records'
    BY <1>0, <1>5 DEF LoadSettings
  <1>6. ASSUME NEW c \in Consoles, Detect(c)
        PROVE  Records'
    BY <1>0, <1>6, WholeAreLines, RecoveredAreOptions DEF Detect, Save
  <1>7. ASSUME NEW c \in Consoles, Mint(c)
        PROVE  Records'
    BY <1>0, <1>7 DEF Mint, Save
  <1>8. ASSUME NEW c \in Consoles, Close(c)
        PROVE  Records'
    BY <1>0, <1>8 DEF Close, NoSecrets
  <1>9. ASSUME NEW c \in Consoles, NEW o \in Choices, Setup(c, o)
        PROVE  Records'
    BY <1>0, <1>9, LinesAreLines DEF Setup, Begin, Alone
  <1>10. ASSUME NEW c \in Consoles, RecordSetup(c)
        PROVE  Records'
    <2>1. job[c].opts \in Options
      BY DEF Jobs, Deployers
    <2>2. settings' \in Deployments
      BY <1>10, <2>1 DEF RecordSetup, Save
    <2>3. QED
      BY <1>10, <2>1, <2>2 DEF RecordSetup
  <1>11. ASSUME NEW c \in Consoles, Start(c) \/ Restart(c)
        PROVE  Records'
    BY <1>0, <1>11 DEF Start, Restart, RestartService, Startable, NoSecrets,
                       Quiet
  <1>12. ASSUME NEW c \in Consoles, Stop(c)
        PROVE  Records'
    BY <1>0, <1>12 DEF Stop, NoSecrets
  <1>13. ASSUME NEW p \in Deployers, Truncate(p) \/ Fill(p) \/ DaemonReload(p)
        PROVE  Records'
    BY <1>0, <1>13 DEF Truncate, Fill, DaemonReload
  <1>14. ASSUME NEW p \in Deployers, EnableNow(p)
        PROVE  Records'
    BY <1>0, <1>14 DEF EnableNow, StartService, NoSecrets, Quiet
  <1>15. ASSUME NEW p \in Deployers, StartFails(p)
        PROVE  Records'
    BY <1>0, <1>15 DEF StartFails, Startable
  <1>16. ASSUME NEW p \in Deployers, StepFails(p)
        PROVE  Records'
    BY <1>0, <1>16 DEF StepFails, Breaks
  <1>17. ASSUME NEW o \in Choices, InstallerSetup(o)
        PROVE  Records'
    BY <1>0, <1>17, LinesAreLines DEF InstallerSetup, Begin, Alone, Unrecorded
  <1>18. CASE Repair
    BY <1>0, <1>18, WholeAreLines DEF Repair, Begin, Alone, Unrecorded
  <1>19. CASE InstallerRestart
    BY <1>0, <1>19 DEF InstallerRestart, RestartService, Startable, NoSecrets,
                       Quiet
  <1>20. ASSUME NEW p \in Processes, Kill(p)
        PROVE  Records'
    BY <1>0, <1>20 DEF Kill, NoSecrets, Breaks
  <1>21. CASE Respawn \/ RespawnFails
    BY <1>0, <1>21 DEF Respawn, RespawnFails, Quiet
  <1>22. CASE Reboot
    BY <1>0, <1>22 DEF Reboot, NoSecrets, Breaks
  <1>23. CASE UNCHANGED vars
    BY <1>0, <1>23 DEF vars
  <1>24. QED
    BY <1>1, <1>2, <1>3, <1>4, <1>5, <1>6, <1>7, <1>8, <1>9, <1>10, <1>11,
        <1>12, <1>13, <1>14, <1>15, <1>16, <1>17, <1>18, <1>19, <1>20, <1>21,
            <1>22, <1>23
    DEF Next, Begins, Deploys

LEMMA SwitchesStep == Switches /\ [Next]_vars => Switches'
  <1> SUFFICES ASSUME Switches, [Next]_vars
               PROVE  Switches'
    OBVIOUS
  <1> USE UnitsAssumption, ProcessesAssumption
      DEF Switches, unitVars, serviceVars, settingsVars, secretVars,
          historyVars, Goto, Drop, Suffer
  <1>0. NoOptions \in Options
    BY DEF NoOptions, Options
  <1>1. ASSUME NEW p \in Starters, NEW f \in Files, ReadSecret(p, f)
        PROVE  Switches'
    BY <1>0, <1>1 DEF ReadSecret, Reading, After, Making
  <1>2. ASSUME NEW p \in Starters, NEW f \in Files, MakeSecret(p, f)
        PROVE  Switches'
    BY <1>0, <1>2 DEF MakeSecret, After, Making
  <1>3. ASSUME NEW p \in Starters, NEW f \in Files, SecretFails(p, f)
        PROVE  Switches'
    BY <1>0, <1>3 DEF SecretFails, NoSecrets
  <1>4. ASSUME NEW c \in Consoles, Open(c)
        PROVE  Switches'
    BY <1>0, <1>4 DEF Open, Alone
  <1>5. ASSUME NEW c \in Consoles, LoadSettings(c)
        PROVE  Switches'
    <2>1. trouble' \in 0 .. MaxTrouble
      BY <1>5 DEF LoadSettings
    <2>2. /\ enabled' \in BOOLEAN /\ active' \in BOOLEAN
          /\ overlapped' \in BOOLEAN /\ stale' \in BOOLEAN
      BY <1>5 DEF LoadSettings
    <2>3. calm' \in BOOLEAN
      BY <1>5, Zenon DEF LoadSettings
    <2>4. QED
      BY <2>1, <2>2, <2>3
  <1>6. ASSUME NEW c \in Consoles, Detect(c)
        PROVE  Switches'
    <2>1. trouble' \in 0 .. MaxTrouble
      BY <1>6 DEF Detect, Save
    <2>2. /\ enabled' \in BOOLEAN /\ active' \in BOOLEAN
          /\ overlapped' \in BOOLEAN /\ stale' \in BOOLEAN
      BY <1>6 DEF Detect, Save
    <2>3. calm' \in BOOLEAN
      BY <1>6, Zenon DEF Detect, Save
    <2>4. QED
      BY <2>1, <2>2, <2>3
  <1>7. ASSUME NEW c \in Consoles, Mint(c)
        PROVE  Switches'
    <2>1. trouble' \in 0 .. MaxTrouble
      BY <1>7 DEF Mint, Save
    <2>2. /\ enabled' \in BOOLEAN /\ active' \in BOOLEAN
          /\ overlapped' \in BOOLEAN /\ stale' \in BOOLEAN
      BY <1>7 DEF Mint, Save
    <2>3. calm' \in BOOLEAN
      BY <1>7, Zenon DEF Mint, Save
    <2>4. QED
      BY <2>1, <2>2, <2>3
  <1>8. ASSUME NEW c \in Consoles, Close(c)
        PROVE  Switches'
    BY <1>0, <1>8 DEF Close, NoSecrets
  <1>9. ASSUME NEW c \in Consoles, NEW o \in Choices, Setup(c, o)
        PROVE  Switches'
    BY <1>0, <1>9, LinesAreLines DEF Setup, Begin, Alone
  <1>10. ASSUME NEW c \in Consoles, RecordSetup(c)
        PROVE  Switches'
    <2>1. trouble' \in 0 .. MaxTrouble
      BY <1>10 DEF RecordSetup, Save
    <2>2. /\ enabled' \in BOOLEAN /\ active' \in BOOLEAN
          /\ overlapped' \in BOOLEAN /\ stale' \in BOOLEAN
      BY <1>10 DEF RecordSetup, Save
    <2>3. calm' \in BOOLEAN
      BY <1>10, Zenon DEF RecordSetup, Save
    <2>4. QED
      BY <2>1, <2>2, <2>3
  <1>11. ASSUME NEW c \in Consoles, Start(c) \/ Restart(c)
        PROVE  Switches'
    BY <1>0, <1>11 DEF Start, Restart, RestartService, Startable, NoSecrets,
                       Quiet
  <1>12. ASSUME NEW c \in Consoles, Stop(c)
        PROVE  Switches'
    <2>1. trouble' \in 0 .. MaxTrouble
      BY <1>12 DEF Stop
    <2>2. /\ enabled' \in BOOLEAN /\ active' \in BOOLEAN
          /\ overlapped' \in BOOLEAN /\ stale' \in BOOLEAN
      BY <1>12 DEF Stop
    <2>3. calm' \in BOOLEAN
      BY <1>12, Zenon DEF Stop
    <2>4. QED
      BY <2>1, <2>2, <2>3
  <1>13. ASSUME NEW p \in Deployers, Truncate(p) \/ Fill(p) \/ DaemonReload(p)
        PROVE  Switches'
    BY <1>0, <1>13 DEF Truncate, Fill, DaemonReload
  <1>14. ASSUME NEW p \in Deployers, EnableNow(p)
        PROVE  Switches'
    BY <1>0, <1>14 DEF EnableNow, StartService, NoSecrets, Quiet
  <1>15. ASSUME NEW p \in Deployers, StartFails(p)
        PROVE  Switches'
    BY <1>0, <1>15 DEF StartFails, Startable
  <1>16. ASSUME NEW p \in Deployers, StepFails(p)
        PROVE  Switches'
    BY <1>0, <1>16 DEF StepFails, Breaks
  <1>17. ASSUME NEW o \in Choices, InstallerSetup(o)
        PROVE  Switches'
    BY <1>0, <1>17, LinesAreLines DEF InstallerSetup, Begin, Alone, Unrecorded
  <1>18. CASE Repair
    BY <1>0, <1>18, WholeAreLines DEF Repair, Begin, Alone, Unrecorded
  <1>19. CASE InstallerRestart
    BY <1>0, <1>19 DEF InstallerRestart, RestartService, Startable, NoSecrets,
                       Quiet
  <1>20. ASSUME NEW p \in Processes, Kill(p)
        PROVE  Switches'
    BY <1>0, <1>20 DEF Kill, NoSecrets, Breaks
  <1>21. CASE Respawn \/ RespawnFails
    BY <1>0, <1>21 DEF Respawn, RespawnFails, Quiet
  <1>22. CASE Reboot
    <2>1. trouble' \in 0 .. MaxTrouble
      BY <1>22 DEF Reboot
    <2>2. /\ enabled' \in BOOLEAN /\ active' \in BOOLEAN
          /\ overlapped' \in BOOLEAN /\ stale' \in BOOLEAN
      BY <1>22 DEF Reboot
    <2>3. calm' \in BOOLEAN
      BY <1>22, Zenon DEF Reboot
    <2>4. QED
      BY <2>1, <2>2, <2>3
  <1>23. CASE UNCHANGED vars
    BY <1>0, <1>23 DEF vars
  <1>24. QED
    BY <1>1, <1>2, <1>3, <1>4, <1>5, <1>6, <1>7, <1>8, <1>9, <1>10, <1>11,
        <1>12, <1>13, <1>14, <1>15, <1>16, <1>17, <1>18, <1>19, <1>20, <1>21,
            <1>22, <1>23
    DEF Next, Begins, Deploys

LEMMA DInvInit == Init => DInv
  <1> SUFFICES ASSUME Init
               PROVE  DInv
    OBVIOUS
  <1> USE UnitsAssumption DEF Init
  <1>1. NoOptions \in Options
    BY DEF NoOptions, Options
  <1>2. Units
    BY DEF Units, Whole
  <1>3. Jobs
    <2>1. pc \in [Processes -> Phases]
      BY DEF Phases
    <2>2. \A p \in Deployers : job[p] = NoJob /\ pc[p] = "off"
      BY DEF Deployers, Processes
    <2>3. QED
      BY <1>1, <2>1, <2>2 DEF Jobs, Installing, NoJob
  <1>4. Records
    <2>1. NoSecrets \in [Files -> Starters \cup {NoSecret}]
      BY DEF NoSecrets
    <2>2. has \in [Starters -> [Files -> Starters \cup {NoSecret}]]
      BY <2>1
    <2>3. my \in [Consoles -> Deployments]
      BY DEF Deployments
    <2>4. QED
      BY <2>1, <2>2, <2>3 DEF Records, Deployments
  <1>5. Switches
    <2>1. enabled \in BOOLEAN /\ active \in BOOLEAN
      <3>1. enabled = Whole(unit) /\ active = Whole(unit)
        OBVIOUS
      <3>2. Whole(unit) \in BOOLEAN
        BY DEF Whole
      <3>3. QED
        BY <3>1, <3>2
    <2>2. overlapped = FALSE /\ calm = TRUE /\ stale = FALSE
      BY Zenon
    <2>3. trouble \in 0 .. MaxTrouble
      BY SMT
    <2>4. QED
      BY <2>1, <2>2, <2>3 DEF Switches
  <1>6. QED
    BY <1>2, <1>3, <1>4, <1>5 DEF DInv

LEMMA DInvStep == DInv /\ [Next]_vars => DInv'
  BY UnitsStep, JobsStep, RecordsStep, SwitchesStep DEF DInv

LEMMA DInvHolds == Spec => []DInv
  BY DInvInit, DInvStep, PTL DEF Spec

LEMMA DInvTypes == DInv => TypeOK
  BY DEF DInv, TypeOK, Units, Jobs, Records, Switches, Deployers

\* Nothing is installed but command lines, and systemd never runs a unit
\* without one, however setups, repairs, failures and reboots meet.
THEOREM Installed == Spec => []TypeOK
  BY DInvHolds, DInvTypes, PTL

(***************************************************************************)
(* The key and the salt                                                    *)
(***************************************************************************)
Identity == OneMaker /\ OneIdentity

LEMMA IdentityInit == Init => Identity
  BY DEF Init, Identity, OneMaker, OneIdentity, Makers, Making, Processes,
         Starters, Files, NoSecrets

LEMMA IdentityStep == DInv /\ Identity /\ [Next]_vars => Identity'
  <1> SUFFICES ASSUME DInv /\ Identity, [Next]_vars
               PROVE  Identity'
    OBVIOUS
  <1> USE ProcessesAssumption
      DEF DInv, Jobs, Records, Identity, OneMaker, OneIdentity, Makers, Making,
          Starters, Deployers, Processes, Files, Installing, unitVars,
              serviceVars, settingsVars, secretVars, historyVars, Goto, Drop
  <1>1. ASSUME NEW p \in Starters, NEW f \in Files, ReadSecret(p, f)
        PROVE  Identity'
    <2>1. CASE secret[f] # NoSecret
      <3>1. /\ has' = [has EXCEPT ![p][f] = secret[f]]
            /\ pc' = [pc EXCEPT ![p] = After(p, f)]
            /\ UNCHANGED <<secret, overlapped>>
        BY <1>1, <2>1 DEF ReadSecret
      <3>2. \A g \in Files : After(p, f) # Making(g)
        BY DEF After
      <3>3. \A g \in Files : Makers(g)' \subseteq Makers(g)
        BY <3>1, <3>2
      <3>4. QED
        BY <3>1, <3>3
    <2>2. CASE secret[f] = NoSecret
      <3>1. /\ pc' = [pc EXCEPT ![p] = Making(f)]
            /\ overlapped' = (overlapped \/ Makers(f) # {})
            /\ UNCHANGED <<secret, has>>
        BY <1>1, <2>2 DEF ReadSecret
      <3>2. \A g \in Files \ {f} : Makers(g)' \subseteq Makers(g)
        BY <3>1
      <3>3. Makers(f)' \subseteq Makers(f) \cup {p}
        BY <3>1
      <3>4. ~overlapped' => ~overlapped /\ Makers(f) = {}
        BY <3>1
      <3>5. OneIdentity'
        BY <3>1, <3>4
      <3>6. OneMaker'
        BY <2>2, <3>1, <3>2, <3>3, <3>4
      <3>7. QED
        BY <3>5, <3>6
    <2>3. QED
      BY <2>1, <2>2
  <1>2. ASSUME NEW p \in Starters, NEW f \in Files, MakeSecret(p, f)
        PROVE  Identity'
    BY <1>2 DEF MakeSecret, After, Making
  <1>3. ASSUME NEW p \in Starters, NEW f \in Files, SecretFails(p, f)
        PROVE  Identity'
    BY <1>3 DEF SecretFails, NoSecrets
  <1>4. ASSUME NEW c \in Consoles, Open(c)
        PROVE  Identity'
    BY <1>4 DEF Open, Alone
  <1>5. ASSUME NEW c \in Consoles, LoadSettings(c)
        PROVE  Identity'
    BY <1>5 DEF LoadSettings
  <1>6. ASSUME NEW c \in Consoles, Detect(c)
        PROVE  Identity'
    BY <1>6 DEF Detect, Save
  <1>7. ASSUME NEW c \in Consoles, Mint(c)
        PROVE  Identity'
    BY <1>7 DEF Mint, Save
  <1>8. ASSUME NEW c \in Consoles, Close(c)
        PROVE  Identity'
    BY <1>8 DEF Close, NoSecrets
  <1>9. ASSUME NEW c \in Consoles, NEW o \in Choices, Setup(c, o)
        PROVE  Identity'
    BY <1>9 DEF Setup, Begin, Alone
  <1>10. ASSUME NEW c \in Consoles, RecordSetup(c)
        PROVE  Identity'
    BY <1>10 DEF RecordSetup, Save
  <1>11. ASSUME NEW c \in Consoles, Start(c) \/ Restart(c)
        PROVE  Identity'
    BY <1>11 DEF Start, Restart, RestartService, Startable, NoSecrets, Quiet
  <1>12. ASSUME NEW c \in Consoles, Stop(c)
        PROVE  Identity'
    BY <1>12 DEF Stop, NoSecrets
  <1>13. ASSUME NEW p \in Deployers, Truncate(p) \/ Fill(p) \/ DaemonReload(p)
        PROVE  Identity'
    BY <1>13 DEF Truncate, Fill, DaemonReload
  <1>14. ASSUME NEW p \in Deployers, EnableNow(p)
        PROVE  Identity'
    BY <1>14 DEF EnableNow, StartService, NoSecrets, Quiet
  <1>15. ASSUME NEW p \in Deployers, StartFails(p)
        PROVE  Identity'
    BY <1>15 DEF StartFails, Startable
  <1>16. ASSUME NEW p \in Deployers, StepFails(p)
        PROVE  Identity'
    BY <1>16 DEF StepFails, Breaks
  <1>17. ASSUME NEW o \in Choices, InstallerSetup(o)
        PROVE  Identity'
    BY <1>17 DEF InstallerSetup, Begin, Alone, Unrecorded
  <1>18. CASE Repair
    BY <1>18 DEF Repair, Begin, Alone, Unrecorded
  <1>19. CASE InstallerRestart
    BY <1>19 DEF InstallerRestart, RestartService, Startable, NoSecrets, Quiet
  <1>20. ASSUME NEW p \in Processes, Kill(p)
        PROVE  Identity'
    BY <1>20 DEF Kill, NoSecrets, Breaks
  <1>21. CASE Respawn \/ RespawnFails
    BY <1>21 DEF Respawn, RespawnFails, Quiet
  <1>22. CASE Reboot
    BY <1>22 DEF Reboot, NoSecrets, Breaks
  <1>23. CASE UNCHANGED vars
    BY <1>23 DEF vars
  <1>24. QED
    BY <1>1, <1>2, <1>3, <1>4, <1>5, <1>6, <1>7, <1>8, <1>9, <1>10, <1>11,
        <1>12, <1>13, <1>14, <1>15, <1>16, <1>17, <1>18, <1>19, <1>20, <1>21,
            <1>22, <1>23
    DEF Next, Begins, Deploys

\* Unless two first starts were making a file at once, the dashboard shows the
\* key the server signs with, and both use one salt.
THEOREM OneKey == Spec => []OneIdentity
  <1>1. Init => DInv /\ Identity
    BY DInvInit, IdentityInit
  <1>2. (DInv /\ Identity) /\ [Next]_vars => (DInv /\ Identity)'
    BY DInvStep, IdentityStep
  <1>3. DInv /\ Identity => OneIdentity
    BY DEF Identity
  <1>4. QED
    BY <1>1, <1>2, <1>3, PTL DEF Spec

\* Only a first start writes the files.
LEMMA SecretsChange ==
  [Next]_vars =>
    secret' = secret \/ \E p \in Starters, f \in Files : MakeSecret(p, f)
  BY DEF Next, vars, Begins, Deploys, secretVars, ReadSecret, SecretFails, Open,
         LoadSettings, Detect, Mint, Close, Setup, RecordSetup, Start, Restart,
         RestartService, Stop, Truncate, Fill, DaemonReload, EnableNow,
         StartFails, StepFails, InstallerSetup, Repair, InstallerRestart, Kill,
         Respawn, RespawnFails, Reboot

\* Unless two first starts are making it at once, a key or a salt that is there
\* is never replaced: a file that cannot be read is not made anew.
THEOREM KeyStays == Spec => IdentityKept
  <1> DEFINE Kept == \A f \in Files :
                       secret[f] # NoSecret /\ ~overlapped => secret'[f] = secret[f]
  <1>1. Init => DInv /\ Identity
    BY DInvInit, IdentityInit
  <1>2. (DInv /\ Identity) /\ [Next]_vars => (DInv /\ Identity)'
    BY DInvStep, IdentityStep
  <1>3. DInv /\ Identity /\ [Next]_vars => [Kept]_vars
    <2> SUFFICES ASSUME DInv, Identity, [Next]_vars,
                        NEW p \in Starters, NEW f \in Files, MakeSecret(p, f)
                 PROVE  Kept
      BY SecretsChange
    <2>1. ~overlapped => secret[f] = NoSecret
      BY DEF MakeSecret, Identity, OneMaker, Makers
    <2>2. secret' = [secret EXCEPT ![f] = p]
      BY DEF MakeSecret
    <2>3. QED
      BY <2>1, <2>2 DEF DInv, Records
  <1>4. QED
    BY <1>1, <1>2, <1>3, PTL DEF Spec, IdentityKept

(***************************************************************************)
(* The command                                                             *)
(***************************************************************************)
LEMMA CommandInit == Init => OnlyRepairs /\ CommandKept
  BY DEF Init, OnlyRepairs, CommandKept, Installing, Deployers, Processes

LEMMA CommandStep ==
  DInv /\ OnlyRepairs /\ CommandKept /\ [Next]_vars
    => (OnlyRepairs /\ CommandKept)'
  <1> SUFFICES ASSUME DInv /\ OnlyRepairs /\ CommandKept, [Next]_vars
               PROVE  (OnlyRepairs /\ CommandKept)'
    OBVIOUS
  <1> USE ProcessesAssumption
      DEF DInv, Jobs, OnlyRepairs, CommandKept, Installing, Starters, Deployers,
          Processes, NoJob, Whole, Nothing, unitVars, serviceVars,
              settingsVars, secretVars, historyVars, Goto, Drop
  <1>1. ASSUME NEW p \in Starters, NEW f \in Files, ReadSecret(p, f)
        PROVE  (OnlyRepairs /\ CommandKept)'
    BY <1>1 DEF ReadSecret, Reading, After, Making
  <1>2. ASSUME NEW p \in Starters, NEW f \in Files, MakeSecret(p, f)
        PROVE  (OnlyRepairs /\ CommandKept)'
    BY <1>2 DEF MakeSecret, After, Making
  <1>3. ASSUME NEW p \in Starters, NEW f \in Files, SecretFails(p, f)
        PROVE  (OnlyRepairs /\ CommandKept)'
    BY <1>3 DEF SecretFails, NoSecrets
  <1>4. ASSUME NEW c \in Consoles, Open(c)
        PROVE  (OnlyRepairs /\ CommandKept)'
    BY <1>4 DEF Open, Alone
  <1>5. ASSUME NEW c \in Consoles, LoadSettings(c)
        PROVE  (OnlyRepairs /\ CommandKept)'
    BY <1>5 DEF LoadSettings
  <1>6. ASSUME NEW c \in Consoles, Detect(c)
        PROVE  (OnlyRepairs /\ CommandKept)'
    BY <1>6 DEF Detect, Save
  <1>7. ASSUME NEW c \in Consoles, Mint(c)
        PROVE  (OnlyRepairs /\ CommandKept)'
    BY <1>7 DEF Mint, Save
  <1>8. ASSUME NEW c \in Consoles, Close(c)
        PROVE  (OnlyRepairs /\ CommandKept)'
    BY <1>8 DEF Close, NoSecrets
  <1>9. ASSUME NEW c \in Consoles, NEW o \in Choices, Setup(c, o)
        PROVE  (OnlyRepairs /\ CommandKept)'
    BY <1>9 DEF Setup, Begin, Alone
  <1>10. ASSUME NEW c \in Consoles, RecordSetup(c)
        PROVE  (OnlyRepairs /\ CommandKept)'
    BY <1>10 DEF RecordSetup, Save
  <1>11. ASSUME NEW c \in Consoles, Start(c) \/ Restart(c)
        PROVE  (OnlyRepairs /\ CommandKept)'
    BY <1>11 DEF Start, Restart, RestartService, Startable, NoSecrets, Quiet
  <1>12. ASSUME NEW c \in Consoles, Stop(c)
        PROVE  (OnlyRepairs /\ CommandKept)'
    BY <1>12 DEF Stop, NoSecrets
  <1>13. ASSUME NEW p \in Deployers, Truncate(p) \/ Fill(p) \/ DaemonReload(p)
        PROVE  (OnlyRepairs /\ CommandKept)'
    BY <1>13 DEF Truncate, Fill, DaemonReload
  <1>14. ASSUME NEW p \in Deployers, EnableNow(p)
        PROVE  (OnlyRepairs /\ CommandKept)'
    BY <1>14 DEF EnableNow, StartService, NoSecrets, Quiet
  <1>15. ASSUME NEW p \in Deployers, StartFails(p)
        PROVE  (OnlyRepairs /\ CommandKept)'
    BY <1>15 DEF StartFails, Startable
  <1>16. ASSUME NEW p \in Deployers, StepFails(p)
        PROVE  (OnlyRepairs /\ CommandKept)'
    BY <1>16 DEF StepFails, Breaks
  <1>17. ASSUME NEW o \in Choices, InstallerSetup(o)
        PROVE  (OnlyRepairs /\ CommandKept)'
    BY <1>17 DEF InstallerSetup, Begin, Alone, Unrecorded
  <1>18. CASE Repair
    BY <1>18 DEF Repair, Begin, Alone, Unrecorded
  <1>19. CASE InstallerRestart
    BY <1>19 DEF InstallerRestart, RestartService, Startable, NoSecrets, Quiet
  <1>20. ASSUME NEW p \in Processes, Kill(p)
        PROVE  (OnlyRepairs /\ CommandKept)'
    BY <1>20 DEF Kill, NoSecrets, Breaks
  <1>21. CASE Respawn \/ RespawnFails
    BY <1>21 DEF Respawn, RespawnFails, Quiet
  <1>22. CASE Reboot
    BY <1>22 DEF Reboot, NoSecrets, Breaks
  <1>23. CASE UNCHANGED vars
    BY <1>23 DEF vars
  <1>24. QED
    BY <1>1, <1>2, <1>3, <1>4, <1>5, <1>6, <1>7, <1>8, <1>9, <1>10, <1>11,
        <1>12, <1>13, <1>14, <1>15, <1>16, <1>17, <1>18, <1>19, <1>20, <1>21,
            <1>22, <1>23
    DEF Next, Begins, Deploys

\* A unit that no setup has replaced keeps its command to the letter.
THEOREM CommandSurvives == Spec => []CommandKept
  <1>1. Init => DInv /\ OnlyRepairs /\ CommandKept
    BY DInvInit, CommandInit
  <1>2. (DInv /\ OnlyRepairs /\ CommandKept) /\ [Next]_vars
        => (DInv /\ OnlyRepairs /\ CommandKept)'
    BY DInvStep, CommandStep
  <1>3. QED
    BY <1>1, <1>2, PTL DEF Spec

(***************************************************************************)
(* One deployment                                                          *)
(***************************************************************************)
\* While it is calm, one deployer is at work, ...
OneAtWork ==
  \A p, q \in Deployers : pc[p] # "off" /\ pc[q] # "off" => p = q

\* ... a dashboard that has read console.json has what it says, ...
Opened == {"detect", "ready"} \cup Installing

Copies ==
  \A c \in Consoles :
    my[c] = IF pc[c] \in Opened THEN settings ELSE NoDeployment

\* ... what is recorded is what the unit says, ...
Recorded(u) ==
  settings # NoDeployment => Whole(u) /\ Line(settings) = Line(Recover(u))

Current(u) == active /\ ~stale => running = u

AtRest ==
  (\A p \in Deployers : pc[p] \notin Installing) =>
    unit = loaded /\ unit # Torn /\ Recorded(unit) /\ Current(unit)

\* ... a repair writes what systemd has loaded, ...
UnderRepair ==
  \A p \in Deployers : pc[p] \in Installing /\ job[p].kind = "repair" =>
    /\ pc[p] \in {"truncate", "fill", "reload", "restart"}
    /\ loaded = job[p].line
    /\ unit = IF pc[p] = "fill" THEN Torn ELSE loaded
    /\ Recorded(loaded) /\ Current(loaded)

\* ... and a setup has not lost anything yet that it will not make good.
UnderSetup ==
  \A p \in Deployers : pc[p] \in Installing /\ job[p].kind # "repair" =>
    /\ job[p].kind = "setup" /\ job[p].opts \in Choices
    /\ job[p].line = Line(job[p].opts) /\ pc[p] # "restart"
    /\ p = Installer => settings = NoDeployment /\ pc[p] # "save"
    /\ pc[p] = "truncate" => unit = loaded /\ unit # Torn /\ Recorded(unit)
    /\ pc[p] \in {"reload", "enable", "save"} => unit = job[p].line
    /\ pc[p] \in {"enable", "save"} => loaded = unit
    /\ IF pc[p] = "save" THEN Current(unit) ELSE active => stale

Tidy == calm => OneAtWork /\ Copies /\ AtRest /\ UnderRepair /\ UnderSetup

\* What setup writes, adoption reads back.
LEMMA RoundTrip ==
  ASSUME NEW o \in Choices
  PROVE  Line(Recover(Line(o))) = Line(o)
  <1> USE UnitsAssumption, ChoicesAssumption DEF Options
  <1> DEFINE r == Recover(Line(o))
  <1>1. CASE o.mode = "proxy"
    <2>1. /\ DOMAIN Line(o) = {"-addr", "-public-issuer-url"}
          /\ Line(o)["-addr"] = o.addr /\ Line(o)["-public-issuer-url"] = o.domain
      BY <1>1 DEF Line
    <2>2. r = [mode |-> "proxy", domain |-> o.domain, email |-> Unset,
               addr |-> o.addr]
      BY <1>1, <2>1 DEF Recover, WithDefaults, FlagOf
    <2>3. r.mode = "proxy" /\ r.addr = o.addr /\ r.domain = o.domain
      BY <2>2
    <2>4. QED
      BY <1>1, <2>3 DEF Line
  <1>2. CASE o.mode = "builtin"
    <2>1. /\ "-domain" \in DOMAIN Line(o) /\ Line(o)["-domain"] = o.domain
          /\ FlagOf(Line(o), "-acme-email") = o.email
      BY <1>2 DEF Line, FlagOf
    <2>2. r.mode = "builtin" /\ r.domain = o.domain /\ r.email = o.email
      BY <2>1 DEF Recover, WithDefaults
    <2>3. QED
      BY <1>2, <2>2 DEF Line
  <1>3. QED
    BY <1>1, <1>2

LEMMA TidyInit == Init => Tidy
  <1> SUFFICES ASSUME Init
               PROVE  OneAtWork /\ Copies /\ AtRest /\ UnderRepair /\ UnderSetup
    BY DEF Tidy
  <1>1. \A p \in Deployers : pc[p] = "off"
    BY DEF Init, Deployers, Processes
  <1>2. unit # Torn /\ \A c \in Consoles : my[c] = NoDeployment
    BY UnitsAssumption DEF Init
  <1>3. Recorded(unit) /\ Current(unit)
    BY DEF Init, Recorded, Current
  <1>4. QED
    BY <1>1, <1>2, <1>3
    DEF Init, OneAtWork, Copies, AtRest, UnderRepair, UnderSetup, Opened,
        Installing, Deployers

\* Calm once lost does not return.
LEMMA CalmStays == [Next]_vars /\ calm' => calm
  BY Zenon DEF Next, vars, Begins, Deploys, historyVars, ReadSecret, MakeSecret,
     SecretFails, Open, LoadSettings, Detect, Mint, Close, Setup, RecordSetup,
     Start, Restart, RestartService, Stop, Truncate, Fill, DaemonReload,
     EnableNow, StartFails, StepFails, InstallerSetup, Repair,
     InstallerRestart, Kill, Respawn, RespawnFails, Reboot, Save, Begin

LEMMA TidyStep == DInv /\ Tidy /\ [Next]_vars => Tidy'
  <1> DEFINE Parts ==
        OneAtWork /\ Copies /\ AtRest /\ UnderRepair /\ UnderSetup
  <1> SUFFICES ASSUME DInv, Parts, calm, calm', [Next]_vars
               PROVE  Parts'
    BY CalmStays DEF Tidy
  <1>0. /\ pc \in [Processes -> Phases]
        /\ my \in [Consoles -> Deployments]
        /\ job = [p \in Deployers |-> job[p]]
        /\ \A p \in Deployers : pc[p] \in Installing => Whole(job[p].line)
    BY UnitsAssumption DEF DInv, Jobs, Records, Whole
  <1> USE <1>0, ProcessesAssumption
      DEF OneAtWork, Copies, AtRest, UnderRepair, UnderSetup, Recorded,
          Current, Whole, Opened, Installing, Starters, Deployers, Processes,
          Files, NoJob, unitVars, serviceVars, settingsVars, secretVars,
          historyVars, Goto, Drop
  <1>1. ASSUME NEW p \in Starters, NEW f \in Files, ReadSecret(p, f)
        PROVE  Parts'
    <2>1. pc[p] \notin Opened \cup {"off"}
      BY <1>1 DEF ReadSecret, Reading
    <2>2. PICK phase \in Phases \ (Opened \cup {"off"}) :
            pc' = [pc EXCEPT ![p] = phase]
      BY <1>1 DEF ReadSecret, After, Making, Phases
    <2>3. UNCHANGED <<unitVars, serviceVars, settingsVars, job>>
      BY <1>1 DEF ReadSecret
    <2>4. QED
      BY <2>1, <2>2, <2>3
  <1>2. ASSUME NEW p \in Starters, NEW f \in Files, MakeSecret(p, f)
        PROVE  Parts'
    <2>1. pc[p] \notin Opened \cup {"off"}
      BY <1>2 DEF MakeSecret, Making
    <2>2. After(p, f) \notin Opened \cup {"off"}
      BY DEF After
    <2>3. /\ pc' = [pc EXCEPT ![p] = After(p, f)]
          /\ UNCHANGED <<unitVars, serviceVars, settingsVars, job>>
      BY <1>2 DEF MakeSecret
    <2>4. QED
      BY <2>1, <2>2, <2>3
  <1>3. ASSUME NEW p \in Starters, NEW f \in Files, SecretFails(p, f)
        PROVE  Parts'
    BY <1>3 DEF SecretFails, Reading, Making
  <1>4. ASSUME NEW c \in Consoles, Open(c)
        PROVE  Parts'
    <2>1. \A q \in Deployers \ {c} : pc[q] = "off"
      BY <1>4, Zenon DEF Open, Alone
    <2>2. /\ pc[c] = "off" /\ pc' = [pc EXCEPT ![c] = "readKey"]
          /\ UNCHANGED <<unitVars, serviceVars, settingsVars, job>>
      BY <1>4 DEF Open
    <2>3. QED
      BY <2>1, <2>2
  <1>5. ASSUME NEW c \in Consoles, LoadSettings(c)
        PROVE  Parts'
    <2>1. OneAtWork'
      BY <1>5 DEF LoadSettings
    <2>2. Copies'
      BY <1>5 DEF LoadSettings
    <2>3. AtRest'
      BY <1>5 DEF LoadSettings
    <2>4. UnderRepair'
      BY <1>5 DEF LoadSettings
    <2>5. UnderSetup'
      BY <1>5 DEF LoadSettings
    <2>6. QED
      BY <2>1, <2>2, <2>3, <2>4, <2>5
  <1>6. ASSUME NEW c \in Consoles, Detect(c)
        PROVE  Parts'
    <2>1. OneAtWork'
      BY <1>6 DEF Detect, Save
    <2>2. Copies'
      BY <1>6 DEF Detect, Save
    <2>3. AtRest'
      BY <1>6 DEF Detect, Save
    <2>4. UnderRepair'
      BY <1>6 DEF Detect, Save
    <2>5. UnderSetup'
      BY <1>6 DEF Detect, Save
    <2>6. QED
      BY <2>1, <2>2, <2>3, <2>4, <2>5
  <1>7. ASSUME NEW c \in Consoles, Mint(c)
        PROVE  Parts'
    BY <1>7 DEF Mint, Save
  <1>8. ASSUME NEW c \in Consoles, Close(c)
        PROVE  Parts'
    <2>1. OneAtWork'
      BY <1>8 DEF Close
    <2>2. Copies'
      BY <1>8 DEF Close
    <2>3. AtRest'
      BY <1>8 DEF Close
    <2>4. UnderRepair'
      BY <1>8 DEF Close
    <2>5. UnderSetup'
      BY <1>8 DEF Close
    <2>6. QED
      BY <2>1, <2>2, <2>3, <2>4, <2>5
  <1>9. ASSUME NEW c \in Consoles, NEW o \in Choices, Setup(c, o)
        PROVE  Parts'
    BY <1>9 DEF Setup, Begin, Alone
  <1>10. ASSUME NEW c \in Consoles, RecordSetup(c)
        PROVE  Parts'
    <2> DEFINE o == job[c].opts
    <2>1. /\ o \in Choices /\ o \in Options
          /\ unit = loaded /\ unit = Line(o) /\ Current(unit)
      BY <1>10, UnitsAssumption DEF RecordSetup
    <2>2. Whole(unit) /\ Line(Recover(unit)) = Line(o)
      BY <2>1, RoundTrip, LinesAreLines, UnitsAssumption
    <2>3. /\ settings' = o /\ my' = [my EXCEPT ![c] = o]
          /\ pc' = [pc EXCEPT ![c] = "ready"] /\ job' = [job EXCEPT ![c] = NoJob]
          /\ UNCHANGED <<unitVars, serviceVars>>
      BY <1>10 DEF RecordSetup, Save
    <2>4. pc[c] = "save"
      BY <1>10 DEF RecordSetup
    <2>5. OneAtWork'
      BY <2>3, <2>4
    <2>6. Copies'
      BY <2>3, <2>4
    <2>7. AtRest'
      BY <2>1, <2>2, <2>3
    <2>8. UnderRepair' /\ UnderSetup'
      BY <2>3, <2>4
    <2>9. QED
      BY <2>5, <2>6, <2>7, <2>8
  <1>11. ASSUME NEW c \in Consoles, Start(c) \/ Restart(c)
        PROVE  Parts'
    <2>1. OneAtWork'
      BY <1>11 DEF Start, Restart, RestartService, Startable
    <2>2. Copies'
      BY <1>11 DEF Start, Restart, RestartService, Startable
    <2>3. AtRest'
      BY <1>11 DEF Start, Restart, RestartService, Startable
    <2>4. UnderRepair'
      BY <1>11 DEF Start, Restart, RestartService, Startable
    <2>5. UnderSetup'
      BY <1>11 DEF Start, Restart, RestartService, Startable
    <2>6. QED
      BY <2>1, <2>2, <2>3, <2>4, <2>5
  <1>12. ASSUME NEW c \in Consoles, Stop(c)
        PROVE  Parts'
    BY <1>12 DEF Stop
  <1>13. ASSUME NEW p \in Deployers, Truncate(p) \/ Fill(p) \/ DaemonReload(p)
        PROVE  Parts'
    <2>1. CASE Truncate(p)
      <3>1. OneAtWork'
        BY <2>1 DEF Truncate
      <3>2. Copies'
        BY <2>1 DEF Truncate
      <3>3. AtRest'
        BY <2>1 DEF Truncate
      <3>4. UnderRepair'
        BY <2>1 DEF Truncate
      <3>5. UnderSetup'
        BY <2>1 DEF Truncate
      <3>6. QED
        BY <3>1, <3>2, <3>3, <3>4, <3>5
    <2>2. CASE Fill(p)
      <3>1. OneAtWork'
        BY <2>2 DEF Fill
      <3>2. Copies'
        BY <2>2 DEF Fill
      <3>3. AtRest'
        BY <2>2 DEF Fill
      <3>4. UnderRepair'
        BY <2>2 DEF Fill
      <3>5. UnderSetup'
        BY <2>2 DEF Fill
      <3>6. QED
        BY <3>1, <3>2, <3>3, <3>4, <3>5
    <2>3. CASE DaemonReload(p)
      <3>1. OneAtWork'
        BY <2>3 DEF DaemonReload
      <3>2. Copies'
        BY <2>3 DEF DaemonReload
      <3>3. AtRest'
        BY <2>3 DEF DaemonReload
      <3>4. UnderRepair'
        BY <2>3 DEF DaemonReload
      <3>5. UnderSetup'
        BY <2>3 DEF DaemonReload
      <3>6. QED
        BY <3>1, <3>2, <3>3, <3>4, <3>5
    <2>4. QED
      BY <1>13, <2>1, <2>2, <2>3
  <1>14. ASSUME NEW p \in Deployers, EnableNow(p)
        PROVE  Parts'
    <2>1. OneAtWork'
      BY <1>14 DEF EnableNow, StartService, Quiet
    <2>2. Copies'
      BY <1>14 DEF EnableNow, StartService, Quiet
    <2>3. AtRest'
      BY <1>14 DEF EnableNow, StartService, Quiet
    <2>4. UnderRepair'
      BY <1>14 DEF EnableNow, StartService, Quiet
    <2>5. UnderSetup'
      BY <1>14 DEF EnableNow, StartService, Quiet
    <2>6. QED
      BY <2>1, <2>2, <2>3, <2>4, <2>5
  <1>15. ASSUME NEW p \in Deployers, StartFails(p)
        PROVE  Parts'
    BY <1>15 DEF StartFails
  <1>16. ASSUME NEW p \in Deployers, StepFails(p)
        PROVE  Parts'
    <2>1. /\ pc[p] \in Installing /\ ~Breaks(p)
          /\ pc' = [pc EXCEPT ![p] = IF p = Installer THEN "off" ELSE "ready"]
          /\ job' = [job EXCEPT ![p] = NoJob]
          /\ UNCHANGED <<unitVars, serviceVars, settingsVars>>
      BY <1>16 DEF StepFails
    <2>2. \A q \in Deployers \ {p} : pc[q] = "off"
      BY <2>1
    <2>3. OneAtWork' /\ Copies'
      BY <2>1, <2>2
    <2>4. unit = loaded /\ unit # Torn /\ Recorded(unit) /\ Current(unit)
      BY <2>1 DEF Breaks
    <2>5. AtRest'
      BY <2>1, <2>4
    <2>6. UnderRepair' /\ UnderSetup'
      BY <2>1, <2>2
    <2>7. QED
      BY <2>3, <2>5, <2>6
  <1>17. ASSUME NEW o \in Choices, InstallerSetup(o)
        PROVE  Parts'
    BY <1>17 DEF InstallerSetup, Begin, Alone, Unrecorded
  <1>18. CASE Repair
    <2>1. OneAtWork'
      BY <1>18 DEF Repair, Begin, Alone, Unrecorded
    <2>2. Copies'
      BY <1>18 DEF Repair, Begin, Alone, Unrecorded
    <2>3. AtRest'
      BY <1>18 DEF Repair, Begin, Alone, Unrecorded
    <2>4. UnderRepair'
      BY <1>18 DEF Repair, Begin, Alone, Unrecorded
    <2>5. UnderSetup'
      BY <1>18 DEF Repair, Begin, Alone, Unrecorded
    <2>6. QED
      BY <2>1, <2>2, <2>3, <2>4, <2>5
  <1>19. CASE InstallerRestart
    <2>1. OneAtWork'
      BY <1>19 DEF InstallerRestart, RestartService, Startable
    <2>2. Copies'
      BY <1>19 DEF InstallerRestart, RestartService, Startable
    <2>3. AtRest'
      BY <1>19 DEF InstallerRestart, RestartService, Startable
    <2>4. UnderRepair'
      BY <1>19 DEF InstallerRestart, RestartService, Startable
    <2>5. UnderSetup'
      BY <1>19 DEF InstallerRestart, RestartService, Startable
    <2>6. QED
      BY <2>1, <2>2, <2>3, <2>4, <2>5
  <1>20. ASSUME NEW p \in Processes, Kill(p)
        PROVE  Parts'
    <2>1. CASE p = Server
      <3>1. /\ pc' = [pc EXCEPT ![Server] = "off"]
            /\ \A q \in Deployers : job'[q] = job[q]
            /\ UNCHANGED <<unitVars, serviceVars, settings, my>>
        BY <1>20, <2>1 DEF Kill
      <3>2. QED
        BY <3>1
    <2>2. CASE p \in Deployers
      <3>1. /\ pc[p] # "off" /\ ~Breaks(p)
            /\ pc' = [pc EXCEPT ![p] = "off"] /\ job' = [job EXCEPT ![p] = NoJob]
            /\ UNCHANGED <<unitVars, serviceVars, settings>>
        BY <1>20, <2>2 DEF Kill
      <3>2. \A c \in Consoles : my'[c] = IF c = p THEN NoDeployment ELSE my[c]
        BY <1>20, <2>2 DEF Kill
      <3>3. \A q \in Deployers : pc'[q] = "off"
        <4>1. \A q \in Deployers \ {p} : pc[q] = "off"
          BY <2>2, <3>1
        <4>2. QED
          BY <2>2, <3>1, <4>1
      <3>4. Copies'
        BY <3>1, <3>2, <3>3
      <3>5. AtRest'
        BY <3>1, <3>3 DEF Breaks
      <3>6. QED
        BY <3>3, <3>4, <3>5
    <2>3. QED
      BY <2>1, <2>2
  <1>21. CASE Respawn \/ RespawnFails
    <2>1. CASE RespawnFails
      BY <2>1 DEF RespawnFails
    <2>2. CASE Respawn
      <3>1. /\ active /\ UNCHANGED <<unitVars, active, settingsVars, job>>
            /\ running' = loaded /\ stale' = (stale /\ ~Quiet)
            /\ pc' = [pc EXCEPT ![Server] = "readKey"]
        BY <2>2 DEF Respawn
      <3>2. OneAtWork' /\ Copies'
        BY <3>1
      <3>3. AtRest'
        BY <3>1
      <3>4. UnderRepair'
        BY <3>1
      <3>5. UnderSetup'
        BY <3>1 DEF Quiet
      <3>6. QED
        BY <3>2, <3>3, <3>4, <3>5
    <2>3. QED
      BY <1>21, <2>1, <2>2
  <1>22. CASE Reboot
    <2>1. /\ \A p \in Deployers : ~Breaks(p)
          /\ loaded' = unit /\ unit' = unit /\ settings' = settings
          /\ active' => running' = unit
          /\ pc' = [p \in Processes |-> "off"]
          /\ my' = [c \in Consoles |-> NoDeployment]
      BY <1>22 DEF Reboot
    <2>2. unit # Torn /\ Recorded(unit)
      <3>1. CASE \A p \in Deployers : pc[p] \notin Installing
        BY <3>1
      <3>2. ASSUME NEW p \in Deployers, pc[p] \in Installing
            PROVE  unit # Torn /\ Recorded(unit)
        BY <2>1, <3>2 DEF Breaks
      <3>3. QED
        BY <3>1, <3>2
    <2>3. \A p \in Deployers : pc'[p] = "off"
      BY <2>1
    <2>4. AtRest'
      BY <2>1, <2>2
    <2>5. QED
      BY <2>1, <2>3, <2>4
  <1>23. CASE UNCHANGED vars
    BY <1>23 DEF vars
  <1>24. QED
    BY <1>1, <1>2, <1>3, <1>4, <1>5, <1>6, <1>7, <1>8, <1>9, <1>10, <1>11,
       <1>12, <1>13, <1>14, <1>15, <1>16, <1>17, <1>18, <1>19, <1>20, <1>21,
       <1>22, <1>23
    DEF Next, Begins, Deploys

LEMMA TidyIsInStep == DInv /\ Tidy => InStep
  BY DEF DInv, Tidy, OneAtWork, Copies, AtRest, Recorded, Current, InStep,
         Settled, Opened, Deploy, Deployers

\* If one party at a time is at work and nothing breaks half way, the unit, what
\* systemd has loaded, what the server was started with and what every
\* dashboard believes are the same deployment.
THEOREM OneDeployment == Spec => []InStep
  <1>1. Init => DInv /\ Tidy
    BY DInvInit, TidyInit
  <1>2. (DInv /\ Tidy) /\ [Next]_vars => (DInv /\ Tidy)'
    BY DInvStep, TidyStep
  <1>3. QED
    BY <1>1, <1>2, TidyIsInStep, PTL DEF Spec
=============================================================================
