----------------------------- MODULE StateFile -----------------------------
(***************************************************************************)
(* A file of the state directory: how it is replaced (atomicfile.go) and   *)
(* how it is backed up (backup.go), by several processes at once that may  *)
(* be killed, on a machine that may lose power.                            *)
(*                                                                         *)
(* Data reaches the disk when it is synced, a rename when the directory is *)
(* synced or when the system sees fit.  A version stands for the data of   *)
(* one write, and for its writer.                                          *)
(***************************************************************************)
EXTENDS Naturals

CONSTANTS
  Writers,     \* calls of atomicWriteFile; a call writes its own version
  Original,    \* the version that was there before
  NoFile,      \* there is no file
  Torn,        \* data that did not wholly reach the disk
  RunsAs,      \* writer -> the user it runs as; "root" may chown
  Size,        \* version -> length of its data
  FileOwner,   \* the owner of the file that is there
  DirOwner,    \* the owner of the state directory
  Present      \* whether the file is there at first: TRUE, FALSE or either

ASSUME StateFileAssumption ==
  /\ Original \notin Writers
  /\ Torn \notin Writers \cup {Original}
  /\ NoFile \notin [version : Writers \cup {Original, Torn},
                    owner : STRING, order : Nat]
  /\ RunsAs \in [Writers -> STRING]
  /\ FileOwner \in STRING /\ DirOwner \in STRING
  /\ Present \subseteq BOOLEAN

VARIABLES
  file,     \* the file of that name, or NoFile
  survives, \* what a power loss may leave under that name
  renames,  \* number of renames so far
  rightful, \* history: who owned the file at first, or else the directory
  pc,       \* per writer: the step it is about to take
  owner,    \* per writer: the owner its file is to have
  temp,     \* per writer: its temporary file, or NoFile
  synced,   \* writers whose temporary file has been synced
  failed,   \* history: writers that have returned an error
  acked,    \* history: order of the newest file that a returned writer synced
  backup,   \* the step writeStateBackup is about to take
  listed,   \* the temporary files it has listed
  sized,    \* the file it has written a header for
  archived, \* the file in its archive
  since,    \* history: the number of renames when it began
  quiet     \* history: no writer has run since it began

diskVars == <<file, survives, renames, rightful>>
writerVars == <<pc, owner, temp, synced, failed, acked>>
backupVars == <<backup, listed, sized, archived, since>>
vars == <<diskVars, writerVars, backupVars, quiet>>

Versions == Writers \cup {Original}
Steps == {"idle", "create", "own", "write", "sync", "rename", "syncDir",
          "ok", "error", "killed"}

FirstFile == [version |-> Original, owner |-> FileOwner, order |-> 0]

Init ==
  /\ \/ TRUE \in Present /\ file = FirstFile /\ rightful = FileOwner
     \/ FALSE \in Present /\ file = NoFile /\ rightful = DirOwner
  /\ survives = {file}
  /\ renames = 0
  /\ pc = [w \in Writers |-> "idle"]
  /\ owner = [w \in Writers |-> DirOwner]
  /\ temp = [w \in Writers |-> NoFile]
  /\ synced = {}
  /\ failed = {}
  /\ acked = 0
  /\ backup = "idle"
  /\ listed = {}
  /\ sized = NoFile
  /\ archived = NoFile
  /\ since = 0
  /\ quiet = FALSE

Goto(w, step) == pc' = [pc EXCEPT ![w] = step]

(***************************************************************************)
(* atomicWriteFile                                                         *)
(***************************************************************************)
\* Fault: the owner of an existing file is not looked at.
StatDirectory(w) ==
  /\ pc[w] = "idle"
  /\ owner' = [owner EXCEPT ![w] = DirOwner]
  /\ Goto(w, "create")
  /\ UNCHANGED <<diskVars, temp, synced, failed, acked, backupVars>>

\* The owner of the file that is there, or else of the directory.
StatTarget(w) ==
  /\ pc[w] = "idle"
  /\ owner' = [owner EXCEPT ![w] = IF file = NoFile THEN DirOwner ELSE file.owner]
  /\ Goto(w, "create")
  /\ UNCHANGED <<diskVars, temp, synced, failed, acked, backupVars>>

CreateTemp(w) ==
  /\ pc[w] = "create"
  /\ temp' = [temp EXCEPT ![w] =
                [version |-> Torn, owner |-> RunsAs[w], order |-> 0]]
  /\ Goto(w, "own")
  /\ UNCHANGED <<diskVars, owner, synced, failed, acked, backupVars>>

\* chmod, and chown if it takes one; only root may give a file away.
PreserveOwner(w) ==
  /\ pc[w] = "own"
  /\ RunsAs[w] \in {"root", owner[w]}
  /\ temp' = [temp EXCEPT ![w].owner = owner[w]]
  /\ Goto(w, "write")
  /\ UNCHANGED <<diskVars, owner, synced, failed, acked, backupVars>>

Write(w) ==
  /\ pc[w] = "write"
  /\ temp' = [temp EXCEPT ![w].version = w]
  /\ Goto(w, "sync")
  /\ UNCHANGED <<diskVars, owner, synced, failed, acked, backupVars>>

\* Fault: the data is not synced.
CloseOnly(w) ==
  /\ pc[w] = "sync"
  /\ Goto(w, "rename")
  /\ UNCHANGED <<diskVars, owner, temp, synced, failed, acked, backupVars>>

SyncAndClose(w) ==
  /\ pc[w] = "sync"
  /\ synced' = synced \cup {w}
  /\ Goto(w, "rename")
  /\ UNCHANGED <<diskVars, owner, temp, failed, acked, backupVars>>

\* What a power loss makes of a file that is not synced.
OnDisk(w) == IF w \in synced THEN w ELSE Torn

\* Fault: the old file makes way before the new one takes its name.
RemoveFirst(w) ==
  /\ pc[w] = "rename"
  /\ IF file # NoFile
     THEN /\ file' = NoFile
          /\ survives' = survives \cup {NoFile}
          /\ UNCHANGED <<renames, temp, pc>>
     ELSE /\ renames' = renames + 1
          /\ file' = [temp[w] EXCEPT !.order = renames + 1]
          /\ survives' = survives \cup {file'}
          /\ temp' = [temp EXCEPT ![w] = NoFile]
          /\ Goto(w, "syncDir")
  /\ UNCHANGED <<rightful, owner, synced, failed, acked, backupVars>>

\* From now on a power loss may leave the new file behind, or still the old.
Rename(w) ==
  /\ pc[w] = "rename"
  /\ renames' = renames + 1
  /\ file' = [temp[w] EXCEPT !.order = renames + 1]
  /\ survives' =
       survives \cup {[file' EXCEPT !.version = OnDisk(w)]}
  /\ temp' = [temp EXCEPT ![w] = NoFile]
  /\ Goto(w, "syncDir")
  /\ UNCHANGED <<rightful, owner, synced, failed, acked, backupVars>>

Newest(a, b) == IF a >= b THEN a ELSE b

\* Fault: an error of the last sync is returned.
SyncDirOrFail(w) ==
  /\ pc[w] = "syncDir"
  /\ \/ /\ Goto(w, "ok")
        /\ survives' = {file}
        /\ acked' = Newest(acked, file.order)
        /\ UNCHANGED failed
     \/ /\ Goto(w, "error")
        /\ failed' = failed \cup {w}
        /\ UNCHANGED <<survives, acked>>
  /\ UNCHANGED <<file, renames, rightful, owner, temp, synced, backupVars>>

\* Fault: the call returns, and the directory is synced in the background.
AckFirst(w) ==
  /\ pc[w] = "syncDir"
  /\ Goto(w, "ok")
  /\ acked' = Newest(acked, file.order)
  /\ UNCHANGED <<diskVars, owner, temp, synced, failed, backupVars>>

\* The directory is synced, with whatever file is in it by then.  Where it
\* cannot be synced the call returns no less successfully.
SyncDir(w) ==
  /\ pc[w] = "syncDir"
  /\ Goto(w, "ok")
  /\ \/ survives' = {file} /\ acked' = Newest(acked, file.order)
     \/ UNCHANGED <<survives, acked>>
  /\ UNCHANGED <<file, renames, rightful, owner, temp, synced, failed, backupVars>>

\* Fault: the temporary file is kept after an error.
FailKeepingTemp(w) ==
  /\ pc[w] \in {"idle", "create", "own", "write", "sync", "rename"}
  /\ Goto(w, "error")
  /\ failed' = failed \cup {w}
  /\ UNCHANGED <<diskVars, owner, temp, synced, acked, backupVars>>

\* Any step up to the rename may fail; the temporary file is then removed.
Fail(w) ==
  /\ pc[w] \in {"idle", "create", "own", "write", "sync", "rename"}
  /\ Goto(w, "error")
  /\ temp' = [temp EXCEPT ![w] = NoFile]
  /\ failed' = failed \cup {w}
  /\ UNCHANGED <<diskVars, owner, synced, acked, backupVars>>

Running(w) == pc[w] \notin {"idle", "ok", "error", "killed"}

\* The process dies; nobody removes its temporary file.
Kill(w) ==
  /\ Running(w)
  /\ Goto(w, "killed")
  /\ UNCHANGED <<diskVars, owner, temp, synced, failed, acked, backupVars>>

(***************************************************************************)
(* writeStateBackup                                                        *)
(***************************************************************************)
Back(step) == backup' = step

\* The directory is listed.  Temporary files have names that the walk does not
\* skip, and come before the file.
List ==
  /\ backup = "idle"
  /\ file # NoFile
  /\ listed' = {w \in Writers : temp[w] # NoFile}
  /\ since' = file.order
  /\ quiet' = (\A w \in Writers : ~Running(w))
  /\ Back("walk")
  /\ UNCHANGED <<diskVars, writerVars, sized, archived>>

\* Fault: a temporary file must be complete.
ArchiveTempIfWhole(w) ==
  /\ backup = "walk"
  /\ w \in listed
  /\ listed' = listed \ {w}
  /\ IF temp[w] # NoFile /\ temp[w].version = w THEN UNCHANGED backup
                                               ELSE Back("failed")
  /\ UNCHANGED <<diskVars, writerVars, sized, archived, since, quiet>>

\* A temporary file is archived, unless it has gone or its writer, if it is
\* still at work, makes it grow meanwhile.
ArchiveTemp(w) ==
  /\ backup = "walk"
  /\ w \in listed
  /\ listed' = listed \ {w}
  /\ \/ temp[w] # NoFile /\ UNCHANGED backup
     \/ (temp[w] = NoFile \/ Running(w)) /\ Back("failed")
  /\ UNCHANGED <<diskVars, writerVars, sized, archived, since, quiet>>

Header ==
  /\ backup = "walk"
  /\ listed = {}
  /\ sized' = file
  /\ Back("copy")
  /\ UNCHANGED <<diskVars, writerVars, listed, archived, since, quiet>>

\* Fault: a copy of any length will do.
CopyAnyLength ==
  /\ backup = "copy"
  /\ Back("done")
  /\ archived' = [file EXCEPT !.version =
                    IF Size[file.version] = Size[sized.version]
                    THEN file.version ELSE Torn]
  /\ UNCHANGED <<diskVars, writerVars, listed, sized, since, quiet>>

\* The file is opened after its header is written; tar takes no more than the
\* header says, and no less.
Copy ==
  /\ backup = "copy"
  /\ IF Size[file.version] = Size[sized.version]
     THEN Back("done") /\ archived' = file
     ELSE Back("failed") /\ UNCHANGED archived
  /\ UNCHANGED <<diskVars, writerVars, listed, sized, since, quiet>>

(***************************************************************************)
(* Power                                                                   *)
(***************************************************************************)
PowerLoss ==
  /\ \E f \in survives :
       /\ file' = f
       /\ survives' = {f}
  /\ pc' = [w \in Writers |-> IF Running(w) THEN "killed" ELSE pc[w]]
  /\ temp' = [w \in Writers |->
                IF temp[w] = NoFile THEN NoFile
                ELSE [temp[w] EXCEPT !.version = OnDisk(w)]]
  /\ backup' = IF backup = "idle" THEN "idle" ELSE "failed"
  /\ archived' = NoFile
  /\ quiet' = FALSE
  /\ UNCHANGED <<renames, rightful, owner, synced, failed, acked, listed, sized,
                 since>>

AtomicWriteFile(w) ==
  \/ StatTarget(w) \/ CreateTemp(w) \/ PreserveOwner(w) \/ Write(w)
  \/ SyncAndClose(w) \/ Rename(w) \/ SyncDir(w) \/ Fail(w)

WriteStateBackup ==
  \/ List
  \/ \E w \in Writers : ArchiveTemp(w)
  \/ Header
  \/ Copy

Next ==
  \/ /\ \E w \in Writers : AtomicWriteFile(w) \/ Kill(w)
     /\ quiet' = FALSE
  \/ WriteStateBackup
  \/ PowerLoss

Spec == Init /\ [][Next]_vars

-----------------------------------------------------------------------------
(***************************************************************************)
(* Properties                                                              *)
(***************************************************************************)
Files(versions) == [version : versions, owner : STRING, order : 0..renames]

\* The file is a file, what a power loss may leave is one as well, and each
\* writer has a temporary file only while it runs, or if it was killed.
TypeOK ==
  /\ file \in Files(Versions \cup {Torn}) \cup {NoFile}
  /\ survives \subseteq Files(Versions \cup {Torn}) \cup {NoFile}
  /\ renames \in Nat
  /\ pc \in [Writers -> Steps]
  /\ owner \in [Writers -> STRING]
  /\ \A w \in Writers :
       /\ temp[w] \in Files({w, Torn}) \cup {NoFile}
       /\ temp[w] # NoFile =>
            pc[w] \in {"own", "write", "sync", "rename", "killed"}
  /\ synced \subseteq Writers
  /\ failed \subseteq Writers
  /\ acked \in Nat
  /\ backup \in {"idle", "walk", "copy", "done", "failed"}
  /\ listed \subseteq Writers
  /\ quiet \in BOOLEAN

\* Whoever reads the file finds the whole data of one write in it: at any
\* time, and after a power loss at any time.
AlwaysWhole ==
  \A f \in survives \cup {file} : f # NoFile => f.version \in Versions

\* The file keeps its owner, who is the directory's if it was not there at
\* first: the service can still read what a dashboard run by root has written.
\* (The mode goes with the owner.)
OwnerKept ==
  \A f \in survives \cup {file} :
    f # NoFile => f.owner = rightful

\* A write that has returned an error has changed nothing and will not, not
\* even by a power loss: callers undo in memory what they were told failed.
FailureChangesNothing ==
  \A f \in survives \cup {file} : f # NoFile => f.version \notin failed

\* What a writer has been told was written outlives a power loss, or what was
\* written after it does, if the directory could be synced.
AckedSurvives ==
  acked > 0 => \A f \in survives : f # NoFile /\ f.order >= acked

\* The archive holds the whole data of one write, and none that had been
\* replaced before the backup began.
ArchiveIsWhole ==
  backup = "done" => archived.version \in Versions /\ archived.order >= since

\* A backup fails only if a writer runs meanwhile: what killed writers have
\* left behind, which the walk does not skip, does not stop it.
QuietBackupCompletes == quiet => backup # "failed"

(***************************************************************************)
(* The file as callers see it                                              *)
(***************************************************************************)
Seen(f) == IF f = NoFile THEN NoFile
           ELSE [version |-> f.version, owner |-> f.owner]

\* A call has replaced the file once it has renamed, not before.
Outcome(w) ==
  CASE pc[w] = "idle"    -> "uncalled"
    [] pc[w] = "syncDir" -> "replaced"
    [] pc[w] = "ok"      -> "succeeded"
    [] pc[w] = "error"   -> "failed"
    [] pc[w] = "killed"  -> "died"
    [] OTHER             -> "called"

Atomic == INSTANCE AtomicFile WITH
            content  <- Seen(file),
            fallback <- {Seen(f) : f \in survives},
            outcome  <- [w \in Writers |-> Outcome(w)]

\* To its callers, concurrent, killed or cut off by a power loss, the file
\* is one that is replaced at once.
ReplacedAtOnce == Atomic!Spec
=============================================================================
