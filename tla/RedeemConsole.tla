--------------------------- MODULE RedeemConsole ---------------------------
(***************************************************************************)
(* The server of module Redeem and the dashboards ("npv-creator", menu.go) *)
(* that share its state directory.                                         *)
(*                                                                         *)
(* A dashboard opens the same State (NewStateWithDir), so it too keeps the *)
(* token map in memory, but it never polls the file: it mints and burns    *)
(* links in the map it read when it was opened and rewrites the whole file *)
(* from it.  The lock of State is of no use between processes.  The two    *)
(* processes meet only in redemption-tokens.json and its mtime.            *)
(***************************************************************************)
EXTENDS Redeem

CONSTANTS
  Consoles,  \* dashboard processes
  MaxClock   \* bound: dashboards start no write once the clock is there

ASSUME ConsolesAssumption ==
  /\ IsFiniteSet(Consoles)
  /\ MaxClock \in Nat

VARIABLES
  desk,      \* "closed", "open" or "writing" (between temp file and rename)
  con,       \* the token map in a dashboard's memory
  job,       \* what a writing dashboard is doing, to which link, and the
             \* mtime of its temporary file
  burned,    \* history: links whose burn reached the file
  late,      \* history: requests for a link that arrived after its burn
  synced,    \* history: open dashboards whose map is still the file's
  disturbed  \* history: a dashboard wrote at a moment it should not, the file
             \* was deleted, or the server could not read or write it

consoleVars == <<desk, con, job, burned, late, synced, disturbed>>
allVars == <<vars, consoleVars>>

NoJob == [op |-> "none", token |-> NoOne, stamp |-> 0]

ConsoleInit ==
  /\ Init
  /\ desk = [c \in Consoles |-> "closed"]
  /\ con = [c \in Consoles |-> NoCounts]
  /\ job = [c \in Consoles |-> NoJob]
  /\ burned = {}
  /\ late = {}
  /\ synced = {}
  /\ disturbed = FALSE

\* Fault: the burn is written, but the link stays in the map.
Kept(counts, t) == counts

\* The map without t, and the map with t as it is created.
Without(counts, t) == [u \in DOMAIN counts \ {t} |-> counts[u]]
With(counts, t) ==
  [u \in DOMAIN counts \cup {t} |-> IF u = t THEN Limit[t] ELSE counts[u]]

(***************************************************************************)
(* Steps of the server, seen with the dashboards around.                   *)
(***************************************************************************)
ServerArrive(r) ==
  /\ Arrive(r)
  /\ late' = IF Presents[r] \in burned THEN late \cup {r} ELSE late
  /\ UNCHANGED <<desk, con, job, burned, synced, disturbed>>

\* Once the server rewrites the file, every open dashboard is behind.
ServerWrites(r) ==
  /\ RenameFile(r)
  /\ synced' = {}
  /\ UNCHANGED <<desk, con, job, burned, late, disturbed>>

\* A load, a write or a stat of the written file that failed leaves the server
\* with another map, or another mtime, than the file.
DiskFailed(r) ==
  \/ pc[r] = "load" /\ pc'[r] = "screen"
  \/ pc[r] = "rename"
  \/ pc[r] = "restat" /\ mem'.mtime # file.mtime

ServerMoves(r) ==
  /\ \/ Poll(r) \/ Serve(r) \/ Charge(r) \/ ChargeDenied(r)
     \/ PersistFails(r) \/ RestatFile(r)
  /\ disturbed' = (disturbed \/ DiskFailed(r))
  /\ UNCHANGED <<desk, con, job, burned, late, synced>>

(***************************************************************************)
(* A dashboard                                                             *)
(***************************************************************************)
Open(c) ==
  /\ desk[c] = "closed"
  /\ desk' = [desk EXCEPT ![c] = "open"]
  /\ con' = [con EXCEPT ![c] = file.counts]
  /\ synced' = synced \cup {c}
  /\ UNCHANGED <<vars, job, burned, late, disturbed>>

\* F3, or the process is killed: a write not yet renamed is abandoned.
Close(c) ==
  /\ desk[c] # "closed"
  /\ desk' = [desk EXCEPT ![c] = "closed"]
  /\ con' = [con EXCEPT ![c] = NoCounts]
  /\ job' = [job EXCEPT ![c] = NoJob]
  /\ synced' = synced \ {c}
  /\ UNCHANGED <<vars, burned, late, disturbed>>

\* The map is changed in memory, and the temporary file is written.
StartJob(c, op, t, counts) ==
  /\ desk[c] = "open" /\ clock < MaxClock
  /\ desk' = [desk EXCEPT ![c] = "writing"]
  /\ con' = [con EXCEPT ![c] = counts]
  /\ clock' \in {clock + d : d \in Ticks}
  /\ job' = [job EXCEPT ![c] = [op |-> op, token |-> t, stamp |-> clock']]
  /\ UNCHANGED <<file, mem, server, lock, pc, held, snap, expired, overtaken,
                 regressed, deleted, unsaved, burned, late, synced, disturbed>>

\* AddRedemptionToken with a fresh random token: nobody has used t before.
MintLink(c, t) ==
  /\ t \in Tokens \ (Registered \cup burned)
  /\ \A d \in Consoles : t \notin DOMAIN con[d]
  /\ t \notin DOMAIN file.counts \cup DOMAIN mem.counts
  /\ \A r \in Requests : t \notin DOMAIN snap[r]
  /\ StartJob(c, "mint", t, With(con[c], t))

\* RemoveRedemptionToken of a link listed from the file; a link the
\* dashboard's own map does not have is left alone without a word.
BurnLink(c, t) ==
  /\ t \in DOMAIN file.counts \cap DOMAIN con[c]
  /\ StartJob(c, "burn", t, Without(con[c], t))

\* A moment at which a write harms nobody: the dashboard still has what the
\* file has, the server is at rest, and the mtime it leaves is new.
Calm(c) ==
  /\ c \in synced
  /\ server = "up"
  /\ \A r \in Requests : pc[r] \notin Active
  /\ job[c].stamp > file.mtime

ConsoleWrites(c) ==
  /\ desk[c] = "writing"
  /\ file' = [counts |-> con[c], mtime |-> job[c].stamp]
  /\ overtaken' = overtaken \cup {q \in Requests : pc[q] = "install"}
  /\ burned' = IF job[c].op = "burn" THEN burned \cup {job[c].token} ELSE burned
  /\ disturbed' = (disturbed \/ ~Calm(c))
  /\ synced' = synced \cap {c}
  /\ desk' = [desk EXCEPT ![c] = "open"]
  /\ job' = [job EXCEPT ![c] = NoJob]
  /\ UNCHANGED <<mem, clock, server, lock, pc, held, snap, expired, regressed,
                 deleted, unsaved, con, late>>

\* The write fails, and the map in memory keeps the change.
ConsoleWriteFails(c) ==
  /\ DiskMayFail
  /\ desk[c] = "writing"
  /\ desk' = [desk EXCEPT ![c] = "open"]
  /\ job' = [job EXCEPT ![c] = NoJob]
  /\ synced' = synced \ {c}
  /\ UNCHANGED <<vars, con, burned, late, disturbed>>

FileDeleted ==
  /\ DeleteFile
  /\ disturbed' = TRUE
  /\ synced' = {}
  /\ UNCHANGED <<desk, con, job, burned, late>>

ConsoleStep(c) ==
  \/ Open(c)
  \/ Close(c)
  \/ \E t \in Tokens : MintLink(c, t) \/ BurnLink(c, t)
  \/ ConsoleWrites(c)
  \/ ConsoleWriteFails(c)

ConsoleNext ==
  \/ \E r \in Requests : ServerArrive(r) \/ ServerWrites(r) \/ ServerMoves(r)
  \/ \E t \in Tokens : ExpiryPasses(t) /\ UNCHANGED consoleVars
  \/ (Crash \/ BootStat \/ Served) /\ UNCHANGED consoleVars
  \/ \E c \in Consoles : ConsoleStep(c)
  \/ FileDeleted

ConsoleSpec == ConsoleInit /\ [][ConsoleNext]_allVars

(***************************************************************************)
(* What must hold                                                          *)
(***************************************************************************)
\* Every copy of the map, in any process, counts some tokens and gives none
\* of them more than it was created with.
WithinLimits(counts) ==
  /\ DOMAIN counts \subseteq Tokens
  /\ \A t \in DOMAIN counts : counts[t] \in 0..Limit[t]

ConsoleTypeOK ==
  /\ WithinLimits(file.counts) /\ file.mtime \in Nat
  /\ WithinLimits(mem.counts) /\ mem.mtime \in Nat
  /\ \A r \in Requests : WithinLimits(snap[r])
  /\ \A c \in Consoles : WithinLimits(con[c])
  /\ desk \in [Consoles -> {"closed", "open", "writing"}]
  /\ job \in [Consoles -> [op : {"none", "mint", "burn"},
                           token : Tokens \cup {NoOne}, stamp : Nat]]
  /\ lock \in Requests \cup {NoOne}
  /\ pc \in [Requests -> Phases]
  /\ burned \subseteq Tokens
  /\ late \subseteq Requests
  /\ synced \subseteq Consoles

\* The confirmation of a burn (menu.go): "New redemptions get 404".
BurnedLinkRefused == \A r \in late : pc[r] # "granted"

\* What the operator can rely on: burns hold and nothing is overdrawn if the
\* dashboard only writes at calm moments, no read or write has failed, and no
\* stale map was installed.
CalmWritesAreSafe ==
  ~regressed /\ ~disturbed =>
    /\ BurnedLinkRefused
    /\ \A t \in Tokens : Cardinality(Granted(t)) <= Limit[t]

SharedLinks == INSTANCE ShareLinks
                 WITH left <- file.counts,
                      ever <- burned \cup DOMAIN file.counts,
                      fate <- Fate

\* Under the same conditions, server and dashboards together are one registry of
\* links: a link exists from the instant its minting reaches the file to the
\* instant its burn does, never again after it, and each redemption and each
\* refusal happens at one instant, too.
OneRegistry ==
  /\ SharedLinks!Init
  /\ [][~regressed' /\ ~disturbed' =>
           SharedLinks!Next \/ UNCHANGED SharedLinks!vars]_allVars
=============================================================================
