------------------------ MODULE ConfigRegistryProofs ------------------------
(***************************************************************************)
(* Proofs about ConfigRegistry, for any number of requests, configs and    *)
(* dashboard sessions, in every world.                                     *)
(*                                                                         *)
(* The argument.  A reload stats before it loads, so what it loads is at   *)
(* least as new as the mtime it installs with it; if that mtime is still   *)
(* the file's, so is the content.  Stamps grow from write to write because *)
(* the sessions take turns, in the worlds where they do (Serial).          *)
(***************************************************************************)
EXTENDS ConfigRegistry, TLAPS

LEMMA InitialFileType == InitialFile \in [regs : Registry, ok : BOOLEAN, mtime : Nat]
  BY DEF InitialFile, Registry

LEMMA InitType == Init => TypeOK
  BY InitialFileType, RequestsAssumption
  DEF Init, TypeOK, InFlight, Reloading, Answers, Registry, NoRegistry, NoJob,
      NoSnap

LEMMA SaveType ==
  ASSUME TypeOK, NEW s \in Consoles, NEW c \in Configs, NEW n \in Nat,
         NEW drops \in SUBSET Configs, StartSave(s, c, n, drops)
  PROVE  TypeOK'
  <1>1. [file.regs EXCEPT ![c] = n] \in Registry
    BY DEF TypeOK, Registry
  <1>2. QED
    BY <1>1 DEF StartSave, TypeOK, serverVars, requestVars

\* Types.
LEMMA TypeStep ==
  ASSUME TypeOK, [Next]_vars
  PROVE  TypeOK'
  <1> USE DEF TypeOK, InFlight, Reloading, Answers, fileVars, serverVars, requestVars, Goto
  <1>1. ASSUME NEW r \in Requests, Arrive(r)
        PROVE  TypeOK'
    BY <1>1, RequestsAssumption DEF Arrive, Registry
  <1>2. ASSUME NEW r \in Requests, Stat(r)
        PROVE  TypeOK'
    BY <1>2 DEF Stat
  <1>3. ASSUME NEW r \in Requests, StatFails(r)
        PROVE  TypeOK'
    BY <1>3 DEF StatFails
  <1>4. ASSUME NEW r \in Requests, Load(r)
        PROVE  TypeOK'
    <2>1. /\ [regs |-> file.regs, ok |-> file.ok]
               \in [regs : Registry, ok : BOOLEAN]
          /\ [regs |-> file.regs, ok |-> FALSE] \in [regs : Registry, ok : BOOLEAN]
      OBVIOUS
    <2>2. snap' \in [Requests -> [regs : Registry, ok : BOOLEAN]]
      BY <1>4, <2>1 DEF Load
    <2>3. pc' \in [Requests -> {"idle"} \cup InFlight \cup Answers]
      BY <1>4 DEF Load
    <2>4. QED
      BY <1>4, <2>2, <2>3 DEF Load
  <1>5. ASSUME NEW r \in Requests, Install(r)
        PROVE  TypeOK'
    <2>1. snap[r].regs \in Registry /\ mem.regs \in Registry /\ seen[r] \in Nat
      OBVIOUS
    <2>2. mem' \in [regs : Registry, mtime : Nat]
      BY <1>5, <2>1 DEF Install
    <2>3. failed' \subseteq Nat
      BY <1>5, <2>1 DEF Install
    <2>4. QED
      BY <1>5, <2>2, <2>3 DEF Install
  <1>6. ASSUME NEW r \in Requests, Lookup(r)
        PROVE  TypeOK'
    BY <1>6, RequestsAssumption DEF Lookup, Registry
  <1>7. ASSUME NEW s \in Consoles, NEW c \in Configs, Append(s, c)
        PROVE  TypeOK'
    BY <1>7, SaveType DEF Append
  <1>8. ASSUME NEW s \in Consoles, NEW c \in Configs, Replace(s, c)
        PROVE  TypeOK'
    BY <1>8, SaveType DEF Replace
  <1>9. ASSUME NEW s \in Consoles, NEW c \in Configs, Remove(s, c)
        PROVE  TypeOK'
    BY <1>9, SaveType DEF Remove
  <1>10. ASSUME NEW s \in Consoles, WriteTemp(s)
        PROVE  TypeOK'
    <2> DEFINE Job == [phase : {"idle", "write", "rename"}, regs : Registry,
                      edit : Nat, drops : SUBSET Configs, stamp : Nat]
    <2>1. job[s] \in Job /\ clock + 1 \in Nat
      OBVIOUS
    <2>2. [job[s] EXCEPT !.phase = "rename", !.stamp = clock + 1] \in Job
      BY <2>1
    <2>3. job' = [job EXCEPT ![s] =
                    [job[s] EXCEPT !.phase = "rename", !.stamp = clock + 1]]
      BY <1>10, <2>1 DEF WriteTemp
    <2>4. job' \in [Consoles -> Job]
      BY <2>2, <2>3
    <2>5. QED
      BY <1>10, <2>1, <2>4 DEF WriteTemp
  <1>11. ASSUME NEW s \in Consoles, Rename(s)
        PROVE  TypeOK'
    BY <1>11 DEF Rename, NoJob, NoRegistry, Registry
  <1>12. ASSUME NEW s \in Consoles, SaveFails(s)
        PROVE  TypeOK'
    BY <1>12 DEF SaveFails, NoJob, NoRegistry, Registry
  <1>13. ASSUME HandEdit
        PROVE  TypeOK'
    <2> DEFINE bad == ~file.ok
    <2>1. bad \in BOOLEAN /\ clock + 1 \in Nat
      OBVIOUS
    <2>2. file' = [file EXCEPT !.ok = bad, !.mtime = clock + 1]
      BY <1>13 DEF HandEdit
    <2> HIDE DEF bad
    <2>3. file' \in [regs : Registry, ok : BOOLEAN, mtime : Nat]
      BY <2>1, <2>2
    <2>4. QED
      BY <1>13, <2>1, <2>3 DEF HandEdit
  <1>14. ASSUME Stop
        PROVE  TypeOK'
    BY <1>14 DEF Stop
  <1>15. ASSUME BootLoad
        PROVE  TypeOK'
    BY <1>15 DEF BootLoad
  <1>16. ASSUME BootStat
        PROVE  TypeOK'
    BY <1>16 DEF BootStat
  <1>17. ASSUME Done
        PROVE  TypeOK'
    BY <1>17 DEF Done, vars
  <1>18. CASE UNCHANGED vars
    BY <1>18 DEF vars
  <1>19. QED
    BY <1>1, <1>2, <1>3, <1>4, <1>5, <1>6, <1>7, <1>8,
       <1>9, <1>10, <1>11, <1>12, <1>13, <1>14, <1>15, <1>16,
       <1>17, <1>18
       DEF Next, ReloadConfigsIfChanged, Edit

(***************************************************************************)
(* Stamps and the cached mtime                                             *)
(***************************************************************************)
\* One session saves at a time, and its file is the newest.
Stamped ==
  /\ file.mtime <= clock
  /\ \A s \in Consoles :
       job[s].phase = "rename" => file.mtime < job[s].stamp /\ job[s].stamp <= clock
  /\ \A s, q \in Consoles :
       s # q => job[s].phase = "idle" \/ job[q].phase = "idle"

\* No mtime that was seen or cached is newer than the file's.
Cached ==
  /\ mem.mtime <= file.mtime
  /\ \A r \in Requests : seen[r] <= file.mtime

LEMMA InitStamped == Init => Stamped /\ Cached
  BY InitialFileType DEF Init, Stamped, Cached, NoJob, InitialFile

\* Stamps grow with the clock.
LEMMA StampedStep ==
  ASSUME Serial, TypeOK, Stamped, [Next]_vars
  PROVE  Stamped'
  <1> USE DEF TypeOK, Stamped, fileVars, serverVars, requestVars, Goto
  <1>1. ASSUME NEW r \in Requests, Arrive(r)
        PROVE  Stamped'
    BY <1>1 DEF Arrive
  <1>2. ASSUME NEW r \in Requests, Stat(r)
        PROVE  Stamped'
    BY <1>2 DEF Stat
  <1>3. ASSUME NEW r \in Requests, StatFails(r)
        PROVE  Stamped'
    BY <1>3 DEF StatFails
  <1>4. ASSUME NEW r \in Requests, Load(r)
        PROVE  Stamped'
    BY <1>4 DEF Load
  <1>5. ASSUME NEW r \in Requests, Install(r)
        PROVE  Stamped'
    BY <1>5 DEF Install
  <1>6. ASSUME NEW r \in Requests, Lookup(r)
        PROVE  Stamped'
    BY <1>6 DEF Lookup
  <1>7. ASSUME NEW s \in Consoles, NEW c \in Configs, Append(s, c)
        PROVE  Stamped'
    BY <1>7 DEF Append, StartSave
  <1>8. ASSUME NEW s \in Consoles, NEW c \in Configs, Replace(s, c)
        PROVE  Stamped'
    BY <1>8 DEF Replace, StartSave
  <1>9. ASSUME NEW s \in Consoles, NEW c \in Configs, Remove(s, c)
        PROVE  Stamped'
    BY <1>9 DEF Remove, StartSave
  <1>10. ASSUME NEW s \in Consoles, WriteTemp(s)
        PROVE  Stamped'
    BY <1>10 DEF WriteTemp
  <1>11. ASSUME NEW s \in Consoles, Rename(s)
        PROVE  Stamped'
    BY <1>11 DEF Rename, NoJob
  <1>12. ASSUME NEW s \in Consoles, SaveFails(s)
        PROVE  Stamped'
    BY <1>12 DEF SaveFails, NoJob
  <1>13. ASSUME HandEdit
        PROVE  Stamped'
    BY <1>13 DEF HandEdit
  <1>14. ASSUME Stop
        PROVE  Stamped'
    BY <1>14 DEF Stop
  <1>15. ASSUME BootLoad
        PROVE  Stamped'
    BY <1>15 DEF BootLoad
  <1>16. ASSUME BootStat
        PROVE  Stamped'
    BY <1>16 DEF BootStat
  <1>17. ASSUME Done
        PROVE  Stamped'
    BY <1>17 DEF Done, vars
  <1>18. CASE UNCHANGED vars
    BY <1>18 DEF vars
  <1>19. QED
    BY <1>1, <1>2, <1>3, <1>4, <1>5, <1>6, <1>7, <1>8,
       <1>9, <1>10, <1>11, <1>12, <1>13, <1>14, <1>15, <1>16,
       <1>17, <1>18
       DEF Next, ReloadConfigsIfChanged, Edit

\* The mtime of the file only grows.
LEMMA CachedStep ==
  ASSUME TypeOK, Stamped, Cached, [Next]_vars
  PROVE  Cached'
  <1> USE DEF TypeOK, Stamped, Cached, fileVars, serverVars, requestVars, Goto
  <1>1. ASSUME NEW r \in Requests, Arrive(r)
        PROVE  Cached'
    BY <1>1 DEF Arrive
  <1>2. ASSUME NEW r \in Requests, Stat(r)
        PROVE  Cached'
    BY <1>2 DEF Stat
  <1>3. ASSUME NEW r \in Requests, StatFails(r)
        PROVE  Cached'
    BY <1>3 DEF StatFails
  <1>4. ASSUME NEW r \in Requests, Load(r)
        PROVE  Cached'
    BY <1>4 DEF Load
  <1>5. ASSUME NEW r \in Requests, Install(r)
        PROVE  Cached'
    BY <1>5 DEF Install
  <1>6. ASSUME NEW r \in Requests, Lookup(r)
        PROVE  Cached'
    BY <1>6 DEF Lookup
  <1>7. ASSUME NEW s \in Consoles, NEW c \in Configs, Append(s, c)
        PROVE  Cached'
    BY <1>7 DEF Append, StartSave
  <1>8. ASSUME NEW s \in Consoles, NEW c \in Configs, Replace(s, c)
        PROVE  Cached'
    BY <1>8 DEF Replace, StartSave
  <1>9. ASSUME NEW s \in Consoles, NEW c \in Configs, Remove(s, c)
        PROVE  Cached'
    BY <1>9 DEF Remove, StartSave
  <1>10. ASSUME NEW s \in Consoles, WriteTemp(s)
        PROVE  Cached'
    BY <1>10 DEF WriteTemp
  <1>11. ASSUME NEW s \in Consoles, Rename(s)
        PROVE  Cached'
    BY <1>11 DEF Rename
  <1>12. ASSUME NEW s \in Consoles, SaveFails(s)
        PROVE  Cached'
    BY <1>12 DEF SaveFails
  <1>13. ASSUME HandEdit
        PROVE  Cached'
    BY <1>13 DEF HandEdit
  <1>14. ASSUME Stop
        PROVE  Cached'
    BY <1>14 DEF Stop
  <1>15. ASSUME BootLoad
        PROVE  Cached'
    BY <1>15 DEF BootLoad
  <1>16. ASSUME BootStat
        PROVE  Cached'
    BY <1>16 DEF BootStat
  <1>17. ASSUME Done
        PROVE  Cached'
    BY <1>17 DEF Done, vars
  <1>18. CASE UNCHANGED vars
    BY <1>18 DEF vars
  <1>19. QED
    BY <1>1, <1>2, <1>3, <1>4, <1>5, <1>6, <1>7, <1>8,
       <1>9, <1>10, <1>11, <1>12, <1>13, <1>14, <1>15, <1>16,
       <1>17, <1>18
       DEF Next, ReloadConfigsIfChanged, Edit

(***************************************************************************)
(* The registry                                                            *)
(***************************************************************************)
\* While the mtime a reload saw is the file's, it has loaded what the file has.
Loaded ==
  /\ \A r \in Requests :
       pc[r] = "install" /\ snap[r].ok /\ seen[r] = file.mtime
       => snap[r].regs = file.regs
  /\ mem.mtime = file.mtime => mem.regs = file.regs \/ file.mtime \in failed

\* A new file has a new mtime; an old one is loaded after it was statted.
LEMMA LoadedStep ==
  ASSUME ~MayRestart, server = "up", TypeOK, Stamped, Cached, Loaded, [Next]_vars
  PROVE  Loaded'
  <1> USE DEF TypeOK, Stamped, Cached, Loaded, fileVars, serverVars, requestVars, Goto
  <1>1. ASSUME NEW r \in Requests, Arrive(r)
        PROVE  Loaded'
    BY <1>1 DEF Arrive
  <1>2. ASSUME NEW r \in Requests, Stat(r)
        PROVE  Loaded'
    BY <1>2 DEF Stat
  <1>3. ASSUME NEW r \in Requests, StatFails(r)
        PROVE  Loaded'
    BY <1>3 DEF StatFails
  <1>4. ASSUME NEW r \in Requests, Load(r)
        PROVE  Loaded'
    BY <1>4 DEF Load
  <1>5. ASSUME NEW r \in Requests, Install(r)
        PROVE  Loaded'
    BY <1>5 DEF Install
  <1>6. ASSUME NEW r \in Requests, Lookup(r)
        PROVE  Loaded'
    BY <1>6 DEF Lookup
  <1>7. ASSUME NEW s \in Consoles, NEW c \in Configs, Append(s, c)
        PROVE  Loaded'
    BY <1>7 DEF Append, StartSave
  <1>8. ASSUME NEW s \in Consoles, NEW c \in Configs, Replace(s, c)
        PROVE  Loaded'
    BY <1>8 DEF Replace, StartSave
  <1>9. ASSUME NEW s \in Consoles, NEW c \in Configs, Remove(s, c)
        PROVE  Loaded'
    BY <1>9 DEF Remove, StartSave
  <1>10. ASSUME NEW s \in Consoles, WriteTemp(s)
        PROVE  Loaded'
    BY <1>10 DEF WriteTemp
  <1>11. ASSUME NEW s \in Consoles, Rename(s)
        PROVE  Loaded'
    BY <1>11 DEF Rename
  <1>12. ASSUME NEW s \in Consoles, SaveFails(s)
        PROVE  Loaded'
    BY <1>12 DEF SaveFails
  <1>13. ASSUME HandEdit
        PROVE  Loaded'
    BY <1>13 DEF HandEdit
  <1>14. ASSUME Stop
        PROVE  Loaded'
    BY <1>14 DEF Stop
  <1>15. ASSUME BootLoad
        PROVE  Loaded'
    BY <1>15 DEF BootLoad
  <1>16. ASSUME BootStat
        PROVE  Loaded'
    BY <1>16 DEF BootStat
  <1>17. ASSUME Done
        PROVE  Loaded'
    BY <1>17 DEF Done, vars
  <1>18. CASE UNCHANGED vars
    BY <1>18 DEF vars
  <1>19. QED
    BY <1>1, <1>2, <1>3, <1>4, <1>5, <1>6, <1>7, <1>8,
       <1>9, <1>10, <1>11, <1>12, <1>13, <1>14, <1>15, <1>16,
       <1>17, <1>18
       DEF Next, ReloadConfigsIfChanged, Edit

\* Without restarts the server stays up.
LEMMA StaysUp == ~MayRestart /\ server = "up" /\ [Next]_vars => server' = "up"
  BY DEF Next, vars, fileVars, serverVars, requestVars, ReloadConfigsIfChanged,
         Arrive, Stat, StatFails, Load, Install, Lookup, Edit, Append, Replace,
         Remove, StartSave, WriteTemp, Rename, SaveFails, HandEdit, Stop,
         BootLoad, BootStat, Done

\* No step leaves its world, and what a world allows is about the world only.
LEMMA WorldStays ==
  ASSUME [Next]_vars
  PROVE  /\ Serial' = Serial /\ OneByOne' = OneByOne /\ MayBreak' = MayBreak
         /\ MayFail' = MayFail /\ MayRestart' = MayRestart /\ Calm' = Calm
  <1>1. world' = world
    BY DEF Next, vars, fileVars, serverVars, requestVars, ReloadConfigsIfChanged,
           Arrive, Stat, StatFails, Load, Install, Lookup, Edit, Append, Replace,
           Remove, StartSave, WriteTemp, Rename, SaveFails, HandEdit, Stop,
           BootLoad, BootStat, Done
  <1>2. QED
    BY <1>1 DEF Serial, OneByOne, MayBreak, MayFail, MayRestart, Calm

\* Types, for the whole of State's config registry, the requests that reload
\* it and the dashboards that edit it.
THEOREM ConfigTyping == Spec => []TypeOK
  BY InitType, TypeStep, PTL DEF Spec

\* With edits one at a time, ReloadConfigsIfChanged and NewStateWithDir never
\* cache an mtime ahead of the file, so the next edit will be loaded.
THEOREM EditsAreSeen == Spec => []NextEditIsSeen
  <1> DEFINE I == TypeOK /\ (Serial => Stamped /\ Cached)
  <1>1. Init => I
    BY InitType, InitStamped
  <1>2. I /\ [Next]_vars => I'
    <2> SUFFICES ASSUME I, [Next]_vars PROVE I'
      OBVIOUS
    <2>1. TypeOK'
      BY TypeStep
    <2>2. Serial' = Serial
      BY WorldStays
    <2>3. Serial => Stamped' /\ Cached'
      BY StampedStep, CachedStep
    <2>4. QED
      BY <2>1, <2>2, <2>3
  <1>3. I => NextEditIsSeen
    BY DEF Cached, NextEditIsSeen
  <1>4. QED
    BY <1>1, <1>2, <1>3, PTL DEF Spec

\* With edits one at a time, a running server that was not restarted has the
\* registry of the file or caches an older mtime, unless the load of the file
\* failed, however many requests reload at once.
THEOREM StaleVisible == Spec => []StaleIsVisible
  <1> DEFINE K == Stamped /\ Cached /\ Loaded /\ server = "up"
             I == TypeOK /\ (Serial /\ ~MayRestart => K)
  <1>1. Init => I
    BY InitType, InitStamped DEF Init, Loaded
  <1>2. I /\ [Next]_vars => I'
    <2> SUFFICES ASSUME I, [Next]_vars PROVE I'
      OBVIOUS
    <2>1. TypeOK'
      BY TypeStep
    <2>2. Serial' = Serial /\ MayRestart' = MayRestart
      BY WorldStays
    <2>3. Serial /\ ~MayRestart => K'
      BY StampedStep, CachedStep, LoadedStep, StaysUp
    <2>4. QED
      BY <2>1, <2>2, <2>3
  <1>3. I => StaleIsVisible
    <2> SUFFICES ASSUME I, Serial, ~MayRestart
        PROVE  mem.regs # file.regs =>
                 mem.mtime < file.mtime \/ file.mtime \in failed
      BY DEF StaleIsVisible
    <2>1. mem.mtime \in Nat /\ file.mtime \in Nat
      BY DEF TypeOK
    <2>2. mem.mtime < file.mtime \/ mem.mtime = file.mtime
      BY <2>1 DEF Cached
    <2>3. QED
      BY <2>2 DEF Loaded
  <1>4. QED
    BY <1>1, <1>2, <1>3, PTL DEF Spec

(***************************************************************************)
(* Requests one by one                                                     *)
(***************************************************************************)
\* Every load succeeds.
AllValid ==
  /\ file.ok
  /\ \A r \in Requests : snap[r].ok
  /\ failed = {}

\* A save changes registrations to newer ones of configs that are not removed,
\* or drops them; what is removed is not in the file.
EditsAdvance ==
  /\ \A c \in Configs : file.regs[c] <= edits
  /\ \A c \in removed : file.regs[c] = 0
  /\ \A s \in Consoles : job[s].phase # "idle" =>
       \A c \in Configs :
         /\ job[s].regs[c] <= edits
         /\ \/ job[s].regs[c] = file.regs[c] /\ c \notin job[s].drops
            \/ job[s].regs[c] > file.regs[c] /\ c \notin removed
                 /\ c \notin job[s].drops
            \/ job[s].regs[c] = 0 /\ c \in job[s].drops

\* What the answer to r may be read from.
Fresh(regs, r) ==
  /\ regs[Wants[r]] # 0 =>
       regs[Wants[r]] >= since[r].reg /\ Wants[r] \notin since[r].removed
  /\ regs[Wants[r]] = 0 => since[r].reg = 0 \/ Wants[r] \in removed

\* A request on its own gets from the arrival to the lookup with what is fresh.
FreshOnTheWay ==
  /\ \A r, q \in Requests : r # q => pc[r] \notin InFlight \/ pc[q] \notin InFlight
  /\ \A r \in Requests :
       /\ pc[r] \in InFlight => since[r].removed \subseteq removed
                                /\ Fresh(file.regs, r)
       /\ pc[r] = "stat" => held[r] = mem.mtime
       /\ pc[r] = "install" => Fresh(snap[r].regs, r)
       /\ pc[r] = "lookup" => Fresh(mem.regs, r)

LEMMA InitCalm == Init => AllValid /\ EditsAdvance /\ FreshOnTheWay /\ OnNextConnect
  BY DEF Init, AllValid, EditsAdvance, FreshOnTheWay, OnNextConnect, NoSnap, NoJob,
         InitialFile, InFlight, Reloading

\* Nothing breaks the file and no read fails.
LEMMA ValidStep ==
  ASSUME Calm, TypeOK, AllValid, [Next]_vars
  PROVE  AllValid'
  <1> USE DEF TypeOK, AllValid, Calm, fileVars, serverVars, requestVars, Goto
  <1>1. ASSUME NEW r \in Requests, Arrive(r)
        PROVE  AllValid'
    BY <1>1 DEF Arrive
  <1>2. ASSUME NEW r \in Requests, Stat(r)
        PROVE  AllValid'
    BY <1>2 DEF Stat
  <1>3. ASSUME NEW r \in Requests, StatFails(r)
        PROVE  AllValid'
    BY <1>3 DEF StatFails
  <1>4. ASSUME NEW r \in Requests, Load(r)
        PROVE  AllValid'
    BY <1>4 DEF Load
  <1>5. ASSUME NEW r \in Requests, Install(r)
        PROVE  AllValid'
    BY <1>5 DEF Install
  <1>6. ASSUME NEW r \in Requests, Lookup(r)
        PROVE  AllValid'
    BY <1>6 DEF Lookup
  <1>7. ASSUME NEW s \in Consoles, NEW c \in Configs, Append(s, c)
        PROVE  AllValid'
    BY <1>7 DEF Append, StartSave
  <1>8. ASSUME NEW s \in Consoles, NEW c \in Configs, Replace(s, c)
        PROVE  AllValid'
    BY <1>8 DEF Replace, StartSave
  <1>9. ASSUME NEW s \in Consoles, NEW c \in Configs, Remove(s, c)
        PROVE  AllValid'
    BY <1>9 DEF Remove, StartSave
  <1>10. ASSUME NEW s \in Consoles, WriteTemp(s)
        PROVE  AllValid'
    BY <1>10 DEF WriteTemp
  <1>11. ASSUME NEW s \in Consoles, Rename(s)
        PROVE  AllValid'
    BY <1>11 DEF Rename
  <1>12. ASSUME NEW s \in Consoles, SaveFails(s)
        PROVE  AllValid'
    BY <1>12 DEF SaveFails
  <1>13. ASSUME HandEdit
        PROVE  AllValid'
    BY <1>13 DEF HandEdit
  <1>14. ASSUME Stop
        PROVE  AllValid'
    BY <1>14 DEF Stop
  <1>15. ASSUME BootLoad
        PROVE  AllValid'
    BY <1>15 DEF BootLoad
  <1>16. ASSUME BootStat
        PROVE  AllValid'
    BY <1>16 DEF BootStat
  <1>17. ASSUME Done
        PROVE  AllValid'
    BY <1>17 DEF Done, vars
  <1>18. CASE UNCHANGED vars
    BY <1>18 DEF vars
  <1>19. QED
    BY <1>1, <1>2, <1>3, <1>4, <1>5, <1>6, <1>7, <1>8,
       <1>9, <1>10, <1>11, <1>12, <1>13, <1>14, <1>15, <1>16,
       <1>17, <1>18
       DEF Next, ReloadConfigsIfChanged, Edit

\* The three edits: c's registration becomes new, or is dropped.
LEMMA SaveAdvances ==
  ASSUME Calm, TypeOK, EditsAdvance,
         NEW s \in Consoles, NEW c \in Configs, NEW n \in Nat, NEW drops,
         StartSave(s, c, n, drops),
         \/ n = edits + 1 /\ drops = {} /\ c \notin removed
         \/ n = 0 /\ drops = {c}
  PROVE  EditsAdvance'
  <1>1. /\ file.regs \in [Configs -> Nat] /\ edits \in Nat
        /\ UNCHANGED <<file, removed>> /\ edits' = edits + 1
        /\ job' = [job EXCEPT ![s] =
                     [phase |-> "write", regs |-> [file.regs EXCEPT ![c] = n],
                      edit |-> edits + 1, drops |-> drops, stamp |-> 0]]
        /\ \A q \in Consoles : job[q].phase = "idle"
    BY DEF StartSave, TypeOK, Registry, Calm
  <1>2. \A q \in Consoles : q # s => job'[q].phase = "idle"
    BY <1>1 DEF TypeOK
  <1>3. /\ job'[s].regs = [file.regs EXCEPT ![c] = n] /\ job'[s].drops = drops
    BY <1>1 DEF TypeOK
  <1>4. \A d \in Configs : file.regs[d] \in Nat /\ file.regs[d] <= edits
    BY <1>1 DEF EditsAdvance
  <1>5. \A d \in Configs :
          /\ job'[s].regs[d] <= edits'
          /\ \/ job'[s].regs[d] = file'.regs[d] /\ d \notin job'[s].drops
             \/ job'[s].regs[d] > file'.regs[d] /\ d \notin removed'
                  /\ d \notin job'[s].drops
             \/ job'[s].regs[d] = 0 /\ d \in job'[s].drops
    <2>1. TAKE d \in Configs
    <2>2. CASE d = c
      BY <1>1, <1>3, <1>4, <2>2
    <2>3. CASE d # c
      BY <1>1, <1>3, <1>4, <2>3
    <2>4. QED
      BY <2>2, <2>3
  <1>6. QED
    BY <1>1, <1>2, <1>4, <1>5 DEF EditsAdvance

\* Registrations only get newer.
LEMMA AdvanceStep ==
  ASSUME Calm, TypeOK, Stamped, EditsAdvance, [Next]_vars
  PROVE  EditsAdvance'
  <1> USE DEF TypeOK, Registry, EditsAdvance, Calm, fileVars, serverVars, requestVars, Goto
  <1>1. ASSUME NEW r \in Requests, Arrive(r)
        PROVE  EditsAdvance'
    BY <1>1 DEF Arrive
  <1>2. ASSUME NEW r \in Requests, Stat(r)
        PROVE  EditsAdvance'
    BY <1>2 DEF Stat
  <1>3. ASSUME NEW r \in Requests, StatFails(r)
        PROVE  EditsAdvance'
    BY <1>3 DEF StatFails
  <1>4. ASSUME NEW r \in Requests, Load(r)
        PROVE  EditsAdvance'
    BY <1>4 DEF Load
  <1>5. ASSUME NEW r \in Requests, Install(r)
        PROVE  EditsAdvance'
    BY <1>5 DEF Install
  <1>6. ASSUME NEW r \in Requests, Lookup(r)
        PROVE  EditsAdvance'
    BY <1>6 DEF Lookup
  <1>7. ASSUME NEW s \in Consoles, NEW c \in Configs, Append(s, c)
        PROVE  EditsAdvance'
    <2>1. c \notin removed /\ edits + 1 \in Nat /\ StartSave(s, c, edits + 1, {})
      BY <1>7 DEF Append
    <2>2. QED
      BY <2>1, SaveAdvances
  <1>8. ASSUME NEW s \in Consoles, NEW c \in Configs, Replace(s, c)
        PROVE  EditsAdvance'
    <2>1. c \notin removed /\ edits + 1 \in Nat /\ StartSave(s, c, edits + 1, {})
      BY <1>8 DEF Replace
    <2>2. QED
      BY <2>1, SaveAdvances
  <1>9. ASSUME NEW s \in Consoles, NEW c \in Configs, Remove(s, c)
        PROVE  EditsAdvance'
    BY <1>9, SaveAdvances DEF Remove
  <1>10. ASSUME NEW s \in Consoles, WriteTemp(s)
        PROVE  EditsAdvance'
    BY <1>10 DEF WriteTemp
  <1>11. ASSUME NEW s \in Consoles, Rename(s)
        PROVE  EditsAdvance'
    <2>1. /\ file'.regs = job[s].regs /\ removed' = removed \cup job[s].drops
          /\ job' = [job EXCEPT ![s] = NoJob] /\ edits' = edits
          /\ job[s].phase # "idle"
      BY <1>11 DEF Rename
    <2>2. \A q \in Consoles : job'[q].phase = "idle"
      BY <2>1 DEF Stamped, NoJob
    <2>3. \A c \in Configs :
            file'.regs[c] <= edits' /\ (c \in removed' => file'.regs[c] = 0)
      BY <2>1
    <2>4. QED
      BY <2>2, <2>3, <1>11 DEF Rename
  <1>12. ASSUME NEW s \in Consoles, SaveFails(s)
        PROVE  EditsAdvance'
    BY <1>12 DEF SaveFails
  <1>13. ASSUME HandEdit
        PROVE  EditsAdvance'
    BY <1>13 DEF HandEdit
  <1>14. ASSUME Stop
        PROVE  EditsAdvance'
    BY <1>14 DEF Stop
  <1>15. ASSUME BootLoad
        PROVE  EditsAdvance'
    BY <1>15 DEF BootLoad
  <1>16. ASSUME BootStat
        PROVE  EditsAdvance'
    BY <1>16 DEF BootStat
  <1>17. ASSUME Done
        PROVE  EditsAdvance'
    BY <1>17 DEF Done, vars
  <1>18. CASE UNCHANGED vars
    BY <1>18 DEF vars
  <1>19. QED
    BY <1>1, <1>2, <1>3, <1>4, <1>5, <1>6, <1>7, <1>8,
       <1>9, <1>10, <1>11, <1>12, <1>13, <1>14, <1>15, <1>16,
       <1>17, <1>18
       DEF Next, ReloadConfigsIfChanged, Edit

\* What is written is as fresh as what was there.
LEMMA RenameFresh ==
  ASSUME TypeOK, EditsAdvance, NEW s \in Consoles, Rename(s), NEW r \in Requests,
         since[r].removed \subseteq removed, Fresh(file.regs, r)
  PROVE  Fresh(file.regs, r)'
  <1> DEFINE w == Wants[r]
  <1>1. w \in Configs
    BY RequestsAssumption
  <1>2. /\ file'.regs = job[s].regs /\ removed' = removed \cup job[s].drops
        /\ since' = since /\ job[s].phase # "idle"
        /\ file.regs[w] \in Nat /\ job[s].regs[w] \in Nat /\ since[r].reg \in Nat
    BY <1>1 DEF Rename, TypeOK, Registry, requestVars
  <1>3. \/ job[s].regs[w] = file.regs[w]
        \/ job[s].regs[w] > file.regs[w] /\ w \notin removed
        \/ job[s].regs[w] = 0 /\ w \in job[s].drops
    BY <1>1, <1>2 DEF EditsAdvance
  <1>4. file.regs[w] # 0 \/ since[r].reg = 0 \/ w \in removed
    BY DEF Fresh
  <1>5. QED
    BY <1>2, <1>3, <1>4 DEF Fresh

\* What a request is on its way with stays fresh.
LEMMA FreshStep ==
  ASSUME Calm, server = "up", TypeOK, Stamped, Cached, AllValid, Loaded, EditsAdvance,
         FreshOnTheWay, [Next]_vars
  PROVE  FreshOnTheWay'
  <1> USE DEF TypeOK, FreshOnTheWay, Fresh, InFlight, Reloading, Calm, fileVars, serverVars, requestVars, Goto
  <1>1. ASSUME NEW r \in Requests, Arrive(r)
        PROVE  FreshOnTheWay'
    <2>1. Wants[r] \in Configs
      BY RequestsAssumption
    <2>2. /\ since' = [since EXCEPT ![r] = [reg |-> file.regs[Wants[r]],
                                          removed |-> removed]]
          /\ file' = file /\ removed' = removed /\ mem' = mem
      BY <1>1 DEF Arrive
    <2>3. Fresh(file.regs, r)'
      <3>1. since'[r] = [reg |-> file.regs[Wants[r]], removed |-> removed]
        BY <2>2
      <3>2. Wants[r] \in removed => file.regs[Wants[r]] = 0
        BY DEF EditsAdvance
      <3>3. file.regs[Wants[r]] \in Nat
        BY <2>1 DEF Registry
      <3>4. QED
        BY <2>2, <3>1, <3>2, <3>3
    <2>4. \A q \in Requests : q # r => pc[q] \notin InFlight /\ pc'[q] = pc[q]
      BY <1>1 DEF Arrive
    <2>5. /\ pc'[r] = "stat" /\ held'[r] = mem.mtime
          /\ since'[r].removed \subseteq removed'
      BY <1>1, <2>2 DEF Arrive
    <2>6. QED
      BY <2>2, <2>3, <2>4, <2>5
  <1>2. ASSUME NEW r \in Requests, Stat(r)
        PROVE  FreshOnTheWay'
    <2>1. ASSUME ~(file.mtime > held[r])
          PROVE  mem.regs = file.regs
      <3>1. file.mtime \in Nat /\ mem.mtime \in Nat /\ held[r] = mem.mtime
        BY <1>2 DEF Stat
      <3>2. mem.mtime <= file.mtime
        BY DEF Cached
      <3>3. ~(file.mtime > mem.mtime)
        BY <2>1, <3>1
      <3>4. \A m, n \in Nat : m <= n /\ ~(n > m) => m = n
        OBVIOUS
      <3>5. mem.mtime = file.mtime
        BY <3>1, <3>2, <3>3, <3>4
      <3>6. QED
        BY <3>5 DEF Loaded, AllValid
    <2>2. QED
      BY <1>2, <2>1 DEF Stat
  <1>3. ASSUME NEW r \in Requests, StatFails(r)
        PROVE  FreshOnTheWay'
    BY <1>3 DEF StatFails
  <1>4. ASSUME NEW r \in Requests, Load(r)
        PROVE  FreshOnTheWay'
    <2>1. Fresh(file.regs, r)
      BY <1>4 DEF Load
    <2>2. snap' = [snap EXCEPT ![r] = [regs |-> file.regs, ok |-> file.ok]]
      BY <1>4 DEF Load
    <2>3. QED
      BY <1>4, <2>1, <2>2 DEF Load
  <1>5. ASSUME NEW r \in Requests, Install(r)
        PROVE  FreshOnTheWay'
    <2>1. mem'.regs = snap[r].regs /\ pc[r] = "install"
      BY <1>5 DEF Install, AllValid
    <2>2. \A q \in Requests : q # r => pc[q] \notin InFlight /\ pc'[q] = pc[q]
      BY <1>5, <2>1 DEF Install
    <2>3. QED
      BY <1>5, <2>1, <2>2 DEF Install
  <1>6. ASSUME NEW r \in Requests, Lookup(r)
        PROVE  FreshOnTheWay'
    BY <1>6 DEF Lookup
  <1>7. ASSUME NEW s \in Consoles, NEW c \in Configs, Append(s, c)
        PROVE  FreshOnTheWay'
    BY <1>7 DEF Append, StartSave
  <1>8. ASSUME NEW s \in Consoles, NEW c \in Configs, Replace(s, c)
        PROVE  FreshOnTheWay'
    BY <1>8 DEF Replace, StartSave
  <1>9. ASSUME NEW s \in Consoles, NEW c \in Configs, Remove(s, c)
        PROVE  FreshOnTheWay'
    BY <1>9 DEF Remove, StartSave
  <1>10. ASSUME NEW s \in Consoles, WriteTemp(s)
        PROVE  FreshOnTheWay'
    BY <1>10 DEF WriteTemp
  <1>11. ASSUME NEW s \in Consoles, Rename(s)
        PROVE  FreshOnTheWay'
    <2>1. \A r \in Requests : pc[r] \in InFlight => Fresh(file.regs, r)'
      BY <1>11, RenameFresh
    <2>2. QED
      BY <1>11, <2>1 DEF Rename
  <1>12. ASSUME NEW s \in Consoles, SaveFails(s)
        PROVE  FreshOnTheWay'
    BY <1>12 DEF SaveFails
  <1>13. ASSUME HandEdit
        PROVE  FreshOnTheWay'
    BY <1>13 DEF HandEdit
  <1>14. ASSUME Stop
        PROVE  FreshOnTheWay'
    BY <1>14 DEF Stop
  <1>15. ASSUME BootLoad
        PROVE  FreshOnTheWay'
    BY <1>15 DEF BootLoad
  <1>16. ASSUME BootStat
        PROVE  FreshOnTheWay'
    BY <1>16 DEF BootStat
  <1>17. ASSUME Done
        PROVE  FreshOnTheWay'
    BY <1>17 DEF Done, vars
  <1>18. CASE UNCHANGED vars
    BY <1>18 DEF vars
  <1>19. QED
    BY <1>1, <1>2, <1>3, <1>4, <1>5, <1>6, <1>7, <1>8,
       <1>9, <1>10, <1>11, <1>12, <1>13, <1>14, <1>15, <1>16,
       <1>17, <1>18
       DEF Next, ReloadConfigsIfChanged, Edit

\* Lookup answers with what is fresh.
LEMMA AnswerStep ==
  ASSUME Calm, TypeOK, FreshOnTheWay, OnNextConnect, [Next]_vars
  PROVE  OnNextConnect'
  <1> USE DEF TypeOK, OnNextConnect, InFlight, Reloading, Calm, fileVars, serverVars, requestVars, Goto
  <1>1. ASSUME NEW r \in Requests, Arrive(r)
        PROVE  OnNextConnect'
    BY <1>1 DEF Arrive
  <1>2. ASSUME NEW r \in Requests, Stat(r)
        PROVE  OnNextConnect'
    BY <1>2 DEF Stat
  <1>3. ASSUME NEW r \in Requests, StatFails(r)
        PROVE  OnNextConnect'
    BY <1>3 DEF StatFails
  <1>4. ASSUME NEW r \in Requests, Load(r)
        PROVE  OnNextConnect'
    BY <1>4 DEF Load
  <1>5. ASSUME NEW r \in Requests, Install(r)
        PROVE  OnNextConnect'
    BY <1>5 DEF Install
  <1>6. ASSUME NEW r \in Requests, Lookup(r)
        PROVE  OnNextConnect'
    <2>1. Fresh(mem.regs, r)
      BY <1>6 DEF Lookup, FreshOnTheWay
    <2>2. QED
      BY <1>6, <2>1 DEF Lookup, Fresh
  <1>7. ASSUME NEW s \in Consoles, NEW c \in Configs, Append(s, c)
        PROVE  OnNextConnect'
    BY <1>7 DEF Append, StartSave
  <1>8. ASSUME NEW s \in Consoles, NEW c \in Configs, Replace(s, c)
        PROVE  OnNextConnect'
    BY <1>8 DEF Replace, StartSave
  <1>9. ASSUME NEW s \in Consoles, NEW c \in Configs, Remove(s, c)
        PROVE  OnNextConnect'
    BY <1>9 DEF Remove, StartSave
  <1>10. ASSUME NEW s \in Consoles, WriteTemp(s)
        PROVE  OnNextConnect'
    BY <1>10 DEF WriteTemp
  <1>11. ASSUME NEW s \in Consoles, Rename(s)
        PROVE  OnNextConnect'
    BY <1>11 DEF Rename
  <1>12. ASSUME NEW s \in Consoles, SaveFails(s)
        PROVE  OnNextConnect'
    BY <1>12 DEF SaveFails
  <1>13. ASSUME HandEdit
        PROVE  OnNextConnect'
    BY <1>13 DEF HandEdit
  <1>14. ASSUME Stop
        PROVE  OnNextConnect'
    BY <1>14 DEF Stop
  <1>15. ASSUME BootLoad
        PROVE  OnNextConnect'
    BY <1>15 DEF BootLoad
  <1>16. ASSUME BootStat
        PROVE  OnNextConnect'
    BY <1>16 DEF BootStat
  <1>17. ASSUME Done
        PROVE  OnNextConnect'
    BY <1>17 DEF Done, vars
  <1>18. CASE UNCHANGED vars
    BY <1>18 DEF vars
  <1>19. QED
    BY <1>1, <1>2, <1>3, <1>4, <1>5, <1>6, <1>7, <1>8,
       <1>9, <1>10, <1>11, <1>12, <1>13, <1>14, <1>15, <1>16,
       <1>17, <1>18
       DEF Next, ReloadConfigsIfChanged, Edit

\* Requests that come one by one, with edits one at a time and no failing or
\* invalid file, are served what the file had when they arrived, or newer, and
\* nothing that was removed by then.
THEOREM NextConnectIsServed == Spec => []NextConnect
  <1> DEFINE K == /\ Stamped /\ Cached /\ Loaded /\ server = "up" /\ AllValid
                  /\ EditsAdvance /\ FreshOnTheWay /\ OnNextConnect
             I == TypeOK /\ (Calm => K)
  <1>1. Init => I
    BY InitType, InitStamped, InitCalm DEF Init, Loaded
  <1>2. I /\ [Next]_vars => I'
    <2> SUFFICES ASSUME I, [Next]_vars PROVE I'
      OBVIOUS
    <2>1. TypeOK'
      BY TypeStep
    <2>2. Calm' = Calm
      BY WorldStays
    <2>3. ASSUME Calm PROVE K'
      <3>1. K /\ Serial /\ ~MayRestart
        BY <2>3 DEF Calm
      <3>2. Stamped' /\ Cached' /\ Loaded' /\ server' = "up"
        BY <3>1, StampedStep, CachedStep, LoadedStep, StaysUp
      <3>3. AllValid' /\ EditsAdvance' /\ FreshOnTheWay' /\ OnNextConnect'
        BY <2>3, <3>1, ValidStep, AdvanceStep, FreshStep, AnswerStep
      <3>4. QED
        BY <3>2, <3>3
    <2>4. QED
      BY <2>1, <2>2, <2>3
  <1>3. I => NextConnect
    BY DEF NextConnect
  <1>4. QED
    BY <1>1, <1>2, <1>3, PTL DEF Spec
=============================================================================
