--------------------------- MODULE ConfigRegistry ---------------------------
(***************************************************************************)
(* The config registry: configs.json as dashboards edit it (configedit.go, *)
(* menu.go), and as the server reloads it at every /v1/issue and           *)
(* /v1/redeem (State.ReloadConfigsIfChanged, state.go) before it looks up  *)
(* the config the request names.                                           *)
(*                                                                         *)
(* Every edit gets a number; a registration is the number of the edit that *)
(* wrote it, 0 if there is none.  A missing file, a nil registry and an    *)
(* empty one answer requests alike and are one value.  Config ids are      *)
(* random, so an id that was removed is never registered again.            *)
(*                                                                         *)
(* A file is stamped with the time its temporary file was written; the     *)
(* clock moves at every write.                                             *)
(***************************************************************************)
EXTENDS Naturals

CONSTANTS
  Requests,    \* requests to the server
  Redeems,     \* those to /v1/redeem, the others are to /v1/issue
  Configs,     \* config ids
  Wants,       \* the config each request names
  Registered,  \* the configs registered at the start
  Consoles,    \* dashboard sessions
  MaxEdits,    \* bound on the edits
  Worlds       \* the worlds the system may run in: what can happen in each

ASSUME RequestsAssumption ==
  /\ Redeems \subseteq Requests
  /\ Wants \in [Requests -> Configs]
  /\ Registered \subseteq Configs
  /\ MaxEdits \in Nat

Liberties ==
  {"edits overlap", "requests overlap", "invalid file", "i/o error", "restart"}

ASSUME WorldsAssumption == Worlds \subseteq SUBSET Liberties

VARIABLES
  world,    \* the world of this behaviour
  file,     \* configs.json: registrations, whether it is valid, mtime (0: none)
  clock,    \* the clock that stamps files
  server,   \* "up", "down", or "booting" between load and stat
  mem,      \* State.configs and State.configsMtime
  pc,       \* per request: where it is
  held,     \* per request: the cached mtime it compares with
  seen,     \* per request: the mtime it saw
  snap,     \* per request: the registrations it loaded, whether they are valid
  answer,   \* per request: the registration it was served
  job,      \* per session: the save in progress
  edits,    \* number of edits so far
  removed,  \* history: configs whose removal was written
  failed,   \* history: mtimes whose load failed
  since     \* history, per request: the file's registration of what it wants
            \* and the removed configs, when it arrived

fileVars == <<file, clock, job, edits, removed>>
serverVars == <<server, mem, failed>>
requestVars == <<pc, held, seen, snap, answer, since>>
vars == <<world, fileVars, serverVars, requestVars>>

\* One session or hand edits the file at a time; one request at a time reloads
\* and looks up; the file may be made invalid by hand; reads and writes of it
\* may fail; the server may be restarted.
Serial == "edits overlap" \notin world
OneByOne == "requests overlap" \notin world
MayBreak == "invalid file" \in world
MayFail == "i/o error" \in world
MayRestart == "restart" \in world

Registry == [Configs -> Nat]
NoRegistry == [c \in Configs |-> 0]

Reloading == {"stat", "load", "install"}
InFlight == Reloading \cup {"lookup"}
Answers == {"served", "not_found", "server_error", "lost"}

NoJob == [phase |-> "idle", regs |-> NoRegistry, edit |-> 0, drops |-> {},
          stamp |-> 0]
NoSnap == [regs |-> NoRegistry, ok |-> TRUE]

InitialFile ==
  [regs |-> [c \in Configs |-> IF c \in Registered THEN 1 ELSE 0],
   ok |-> TRUE,
   mtime |-> IF Registered = {} THEN 0 ELSE 1]

\* NewStateWithDir has loaded the file and cached its mtime.
Init ==
  /\ world \in Worlds
  /\ file = InitialFile
  /\ clock = 1
  /\ server = "up"
  /\ mem = [regs |-> InitialFile.regs, mtime |-> InitialFile.mtime]
  /\ pc = [r \in Requests |-> "idle"]
  /\ held = [r \in Requests |-> 0]
  /\ seen = [r \in Requests |-> 0]
  /\ snap = [r \in Requests |-> NoSnap]
  /\ answer = [r \in Requests |-> 0]
  /\ job = [s \in Consoles |-> NoJob]
  /\ edits = 1
  /\ removed = {}
  /\ failed = {}
  /\ since = [r \in Requests |-> [reg |-> 0, removed |-> {}]]

Goto(r, phase) == pc' = [pc EXCEPT ![r] = phase]

(***************************************************************************)
(* Requests                                                                *)
(***************************************************************************)
\* ReloadConfigsIfChanged reads the cached mtime under the lock.
Arrive(r) ==
  /\ server = "up"
  /\ pc[r] = "idle"
  /\ OneByOne => \A q \in Requests : pc[q] \notin InFlight
  /\ held' = [held EXCEPT ![r] = mem.mtime]
  /\ since' = [since EXCEPT ![r] = [reg |-> file.regs[Wants[r]],
                                    removed |-> removed]]
  /\ Goto(r, "stat")
  /\ UNCHANGED <<world, fileVars, serverVars, seen, snap, answer>>

\* A file that is missing or not newer is not loaded.
Stat(r) ==
  /\ pc[r] = "stat"
  /\ seen' = [seen EXCEPT ![r] = file.mtime]
  /\ Goto(r, IF file.mtime > held[r] THEN "load" ELSE "lookup")
  /\ UNCHANGED <<world, fileVars, serverVars, held, snap, answer, since>>

\* Fault: the handler gives up, with an answer of its own.
StatFailsRefused(r) ==
  /\ MayFail
  /\ pc[r] = "stat"
  /\ Goto(r, "unavailable")
  /\ UNCHANGED <<world, fileVars, serverVars, held, seen, snap, answer, since>>

\* The handler logs the error and goes on with the registry it has.
StatFails(r) ==
  /\ MayFail
  /\ pc[r] = "stat"
  /\ Goto(r, "lookup")
  /\ UNCHANGED <<world, fileVars, serverVars, held, seen, snap, answer, since>>

\* loadConfigsFile, without the lock; all of the file is validated.
Load(r) ==
  /\ pc[r] = "load"
  /\ \/ snap' = [snap EXCEPT ![r] = [regs |-> file.regs, ok |-> file.ok]]
     \/ MayFail /\ snap' = [snap EXCEPT ![r] = [regs |-> file.regs, ok |-> FALSE]]
  /\ Goto(r, "install")
  /\ UNCHANGED <<world, fileVars, serverVars, held, seen, answer, since>>

\* Fault: the mtime is that of the file by the time of the install.
InstallWithNewStat(r) ==
  /\ pc[r] = "install"
  /\ mem' = [mtime |-> file.mtime,
             regs |-> IF snap[r].ok THEN snap[r].regs ELSE mem.regs]
  /\ failed' = IF snap[r].ok THEN failed ELSE failed \cup {seen[r]}
  /\ Goto(r, "lookup")
  /\ UNCHANGED <<world, fileVars, server, held, seen, snap, answer, since>>

\* Under the lock: the mtime advances even if the load failed.
Install(r) ==
  /\ pc[r] = "install"
  /\ mem' = [mtime |-> seen[r],
             regs |-> IF snap[r].ok THEN snap[r].regs ELSE mem.regs]
  /\ failed' = IF snap[r].ok THEN failed ELSE failed \cup {seen[r]}
  /\ Goto(r, "lookup")
  /\ UNCHANGED <<world, fileVars, server, held, seen, snap, answer, since>>

\* ConfigByID.  A config that is not registered is not found by /v1/issue and
\* is a server error for /v1/redeem.
Lookup(r) ==
  /\ pc[r] = "lookup"
  /\ answer' = [answer EXCEPT ![r] = mem.regs[Wants[r]]]
  /\ Goto(r, CASE mem.regs[Wants[r]] # 0 -> "served"
               [] mem.regs[Wants[r]] = 0 /\ r \notin Redeems -> "not_found"
               [] OTHER -> "server_error")
  /\ UNCHANGED <<world, fileVars, serverVars, held, seen, snap, since>>

(***************************************************************************)
(* Dashboards                                                              *)
(***************************************************************************)
\* readConfigEntries, then the change in memory: c's registration becomes n.
\* A file that does not parse is an error and nothing is saved.
StartSave(s, c, n, drops) ==
  /\ job[s].phase = "idle"
  /\ Serial => \A q \in Consoles : job[q].phase = "idle"
  /\ edits < MaxEdits
  /\ edits' = edits + 1
  /\ file.ok
  /\ job' = [job EXCEPT ![s] =
               [phase |-> "write", regs |-> [file.regs EXCEPT ![c] = n],
                edit |-> edits + 1, drops |-> drops, stamp |-> 0]]
  /\ UNCHANGED <<file, clock, removed, world, serverVars, requestVars>>

\* appendConfig: the id is new.
Append(s, c) ==
  /\ file.regs[c] = 0 /\ c \notin removed
  /\ \A q \in Consoles : job[q].regs[c] = 0
  /\ StartSave(s, c, edits + 1, {})

\* setConfigDisplayName, replaceConfigRegistration.
Replace(s, c) ==
  /\ file.regs[c] # 0
  /\ StartSave(s, c, edits + 1, {})

\* removeConfig.
Remove(s, c) ==
  /\ file.regs[c] # 0
  /\ StartSave(s, c, 0, {c})

\* atomicWriteFile up to the rename: the temporary file gets its mtime.
WriteTemp(s) ==
  /\ job[s].phase = "write"
  /\ clock' = clock + 1
  /\ job' = [job EXCEPT ![s].phase = "rename", ![s].stamp = clock + 1]
  /\ UNCHANGED <<file, edits, removed, world, serverVars, requestVars>>

\* Fault: what is written is a copy of the file under its old mtime.
RenameOldStamp(s) ==
  /\ job[s].phase = "rename"
  /\ file' = [regs |-> job[s].regs, ok |-> TRUE, mtime |-> file.mtime]
  /\ removed' = removed \cup job[s].drops
  /\ job' = [job EXCEPT ![s] = NoJob]
  /\ UNCHANGED <<clock, edits, world, serverVars, requestVars>>

Rename(s) ==
  /\ job[s].phase = "rename"
  /\ file' = [regs |-> job[s].regs, ok |-> TRUE, mtime |-> job[s].stamp]
  /\ removed' = removed \cup job[s].drops
  /\ job' = [job EXCEPT ![s] = NoJob]
  /\ UNCHANGED <<clock, edits, world, serverVars, requestVars>>

\* The dashboard shows the error; the file is as it was.
SaveFails(s) ==
  /\ MayFail
  /\ job[s].phase \in {"write", "rename"}
  /\ job' = [job EXCEPT ![s] = NoJob]
  /\ UNCHANGED <<file, clock, edits, removed, world, serverVars, requestVars>>

\* The operator edits the file by hand and makes it invalid, or valid again.
HandEdit ==
  /\ MayBreak
  /\ file.mtime # 0
  /\ Serial => \A q \in Consoles : job[q].phase = "idle"
  /\ edits < MaxEdits
  /\ edits' = edits + 1
  /\ clock' = clock + 1
  /\ file' = [file EXCEPT !.ok = ~@, !.mtime = clock + 1]
  /\ UNCHANGED <<job, removed, world, serverVars, requestVars>>

(***************************************************************************)
(* Restarts: NewStateWithDir loads the file and then stats it; a file that *)
(* is not valid keeps the server down.                                     *)
(***************************************************************************)
Stop ==
  /\ MayRestart
  /\ server = "up"
  /\ server' = "down"
  /\ pc' = [r \in Requests |-> IF pc[r] \in InFlight THEN "lost" ELSE pc[r]]
  /\ UNCHANGED <<world, fileVars, mem, failed, held, seen, snap, answer, since>>

BootLoad ==
  /\ server = "down"
  /\ file.ok
  /\ server' = "booting"
  /\ mem' = [regs |-> file.regs, mtime |-> 0]
  /\ UNCHANGED <<world, fileVars, failed, requestVars>>

\* Fault: the present time is cached, not the mtime of the file.
BootClock ==
  /\ server = "booting"
  /\ server' = "up"
  /\ mem' = [mem EXCEPT !.mtime = clock]
  /\ UNCHANGED <<world, fileVars, failed, requestVars>>

BootStat ==
  /\ server = "booting"
  /\ server' = "up"
  /\ mem' = [mem EXCEPT !.mtime = file.mtime]
  /\ UNCHANGED <<world, fileVars, failed, requestVars>>

-----------------------------------------------------------------------------
ReloadConfigsIfChanged(r) ==
  Arrive(r) \/ Stat(r) \/ StatFails(r) \/ Load(r) \/ Install(r)

Edit(s, c) == Append(s, c) \/ Replace(s, c) \/ Remove(s, c)

\* The system may rest while no request is served and nothing is saved.
Done ==
  /\ \A r \in Requests : pc[r] \notin InFlight
  /\ \A s \in Consoles : job[s].phase = "idle"
  /\ UNCHANGED vars

Next ==
  \/ \E r \in Requests : ReloadConfigsIfChanged(r) \/ Lookup(r)
  \/ \E s \in Consoles, c \in Configs : Edit(s, c)
  \/ \E s \in Consoles : WriteTemp(s) \/ Rename(s) \/ SaveFails(s)
  \/ HandEdit
  \/ Stop \/ BootLoad \/ BootStat
  \/ Done

Spec == Init /\ [][Next]_vars

(***************************************************************************)
(* What must hold                                                          *)
(***************************************************************************)
TypeOK ==
  /\ world \in Worlds
  /\ file \in [regs : Registry, ok : BOOLEAN, mtime : Nat]
  /\ clock \in Nat
  /\ server \in {"up", "down", "booting"}
  /\ mem \in [regs : Registry, mtime : Nat]
  /\ pc \in [Requests -> {"idle"} \cup InFlight \cup Answers]
  /\ held \in [Requests -> Nat]
  /\ seen \in [Requests -> Nat]
  /\ snap \in [Requests -> [regs : Registry, ok : BOOLEAN]]
  /\ answer \in [Requests -> Nat]
  /\ job \in [Consoles -> [phase : {"idle", "write", "rename"},
                           regs : Registry, edit : Nat,
                           drops : SUBSET Configs, stamp : Nat]]
  /\ edits \in Nat
  /\ removed \subseteq Configs
  /\ failed \subseteq Nat
  /\ since \in [Requests -> [reg : Nat, removed : SUBSET Configs]]

\* A running server whose registry is not the file's caches an older mtime, so
\* the next request reloads; the exception is a file whose load failed, which
\* is not tried again.  A registry that a slow request installs over a newer
\* one brings its older mtime along.
StaleIsVisible ==
  Serial /\ ~MayRestart =>
    (server = "up" /\ mem.regs # file.regs =>
       mem.mtime < file.mtime \/ file.mtime \in failed)

\* The cached mtime is never ahead of the file, whatever races a restart, so the
\* next edit is always newer and is always loaded.
NextEditIsSeen == Serial => mem.mtime <= file.mtime

\* What the dashboard tells the operator of a replaced and of a removed config:
\* people get the new one, or nothing, on their next connect.  A request is
\* served no older registration than the file had when it arrived, nothing that
\* had been removed by then, and is turned away only from a config that was not
\* registered then or has been removed since.
OnNextConnect ==
  \A r \in Requests :
    /\ pc[r] = "served" =>
         /\ answer[r] >= since[r].reg
         /\ Wants[r] \notin since[r].removed
    /\ pc[r] \in {"not_found", "server_error"} =>
         since[r].reg = 0 \/ Wants[r] \in removed

\* That holds if edits and requests each come one by one and nothing fails.
Calm == Serial /\ OneByOne /\ ~MayBreak /\ ~MayFail /\ ~MayRestart

NextConnect == Calm => OnNextConnect
=============================================================================
