-------------------------- MODULE StateFileProofs --------------------------
(***************************************************************************)
(* Proofs about StateFile, for any writers whatever users they run as, and *)
(* for data of any length.                                                 *)
(***************************************************************************)
EXTENDS StateFile, TLAPS

\* A file that may be under that name: whole, owned as it should be, by no
\* writer that failed or has yet to rename, and no newer than the last rename.
Sound(f) ==
  f = NoFile \/
    /\ f \in [version : Versions, owner : {rightful}, order : 0..renames]
    /\ f.version \in Writers => pc[f.version] \in {"syncDir", "ok", "killed"}

Names ==
  /\ renames \in Nat /\ acked \in Nat
  /\ file \in survives
  /\ \A f \in survives : Sound(f)
  /\ acked > 0 => \A f \in survives : f # NoFile /\ f.order >= acked
  /\ NoFile \in survives => rightful = DirOwner
  /\ \A w \in Writers : pc[w] = "syncDir" => file # NoFile

\* How far a writer's temporary file has come.
Prepared(w) ==
  /\ pc[w] \in Steps
  /\ pc[w] \notin {"idle", "error", "killed"} => owner[w] = rightful
  /\ pc[w] \in {"own", "write", "sync", "rename"} =>
       temp[w] \in [version : {w, Torn}, owner : STRING, order : {0}]
  /\ pc[w] = "killed" =>
       temp[w] \in [version : {w, Torn}, owner : STRING, order : {0}] \cup {NoFile}
  /\ pc[w] \notin {"own", "write", "sync", "rename", "killed"} => temp[w] = NoFile
  /\ pc[w] \in {"write", "sync", "rename"} => temp[w].owner = rightful
  /\ pc[w] \in {"sync", "rename"} => temp[w].version = w
  /\ pc[w] = "rename" => w \in synced
  /\ w \in failed <=> pc[w] = "error"

Writing ==
  /\ rightful \in STRING
  /\ pc \in [Writers -> Steps]
  /\ owner \in [Writers -> STRING]
  /\ DOMAIN temp = Writers
  /\ synced \subseteq Writers
  /\ failed \subseteq Writers
  /\ \A w \in Writers : Prepared(w)

BackingUp ==
  /\ backup \in {"idle", "walk", "copy", "done", "failed"}
  /\ listed \subseteq Writers
  /\ since \in Nat
  /\ backup \in {"walk", "copy"} => file # NoFile /\ file.order >= since
  /\ backup = "done" => archived.version \in Versions /\ archived.order >= since

\* While no writer runs, what the backup has seen is still there.
Undisturbed ==
  /\ quiet \in BOOLEAN
  /\ quiet =>
       /\ \A w \in Writers : ~Running(w)
       /\ backup # "failed"
       /\ backup = "walk" => \A w \in listed : temp[w] # NoFile
       /\ backup = "copy" => sized = file

IInv == Names /\ Writing /\ BackingUp /\ Undisturbed

-----------------------------------------------------------------------------
(***************************************************************************)
(* The inductive invariant                                                 *)
(***************************************************************************)
LEMMA Initially == Init => IInv
<1> SUFFICES ASSUME Init
             PROVE  IInv
  OBVIOUS
<1> USE StateFileAssumption DEF Init, FirstFile, Versions
<1>1. Names
  <2>1. CASE file = FirstFile /\ rightful = FileOwner
    <3>1. /\ file # NoFile
          /\ file \in [version : Versions, owner : {rightful}, order : 0..0]
          /\ file.version \notin Writers
      BY <2>1
    <3> QED
      BY <3>1 DEF Names, Sound
  <2>2. CASE file = NoFile /\ rightful = DirOwner
    BY <2>2 DEF Names, Sound
  <2> QED
    BY <2>1, <2>2
<1>2. Writing
  BY DEF Writing, Prepared, Steps
<1>3. BackingUp
  BY DEF BackingUp
<1>4. Undisturbed
  BY DEF Undisturbed
<1> QED
  BY <1>1, <1>2, <1>3, <1>4 DEF IInv

\* A step of one writer up to its rename: the names are as they were.
LEMMA NamesStay ==
  ASSUME IInv, NEW w \in Writers, NEW step \in Steps,
         UNCHANGED diskVars, UNCHANGED acked,
         pc' = [pc EXCEPT ![w] = step],
         step # "syncDir",
         pc[w] \in {"syncDir", "ok", "killed"} => step \in {"ok", "killed"}
  PROVE  Names'
<1> USE DEF IInv, Names, Writing, diskVars
<1>1. ASSUME NEW f \in survives
      PROVE  Sound(f)'
  BY <1>1 DEF Sound
<1> QED
  BY <1>1

\* A step of one writer leaves the others where they are.
LEMMA OthersStay ==
  ASSUME Writing, NEW w \in Writers, NEW step \in Steps,
         pc' = [pc EXCEPT ![w] = step],
         \A v \in Writers \ {w} :
           /\ owner'[v] = owner[v]
           /\ temp'[v] = temp[v]
           /\ v \in synced' <=> v \in synced
           /\ v \in failed' <=> v \in failed,
         owner' \in [Writers -> STRING], DOMAIN temp' = Writers,
         synced' \subseteq Writers, failed' \subseteq Writers,
         UNCHANGED rightful,
         Prepared(w)'
  PROVE  Writing'
<1>1. pc' \in [Writers -> Steps] /\ \A v \in Writers \ {w} : pc'[v] = pc[v]
  BY DEF Writing
<1>2. ASSUME NEW v \in Writers, v # w
      PROVE  Prepared(v)'
  BY <1>1, <1>2 DEF Writing, Prepared
<1> QED
  BY <1>1, <1>2 DEF Writing

\* A backup does not notice what happens while the file stays.
LEMMA BackupStays ==
  ASSUME IInv, UNCHANGED <<file, backupVars>>
  PROVE  BackingUp'
  BY DEF IInv, BackingUp, backupVars

LEMMA Inductive == IInv /\ [Next]_vars => IInv'
<1> SUFFICES ASSUME IInv, [Next]_vars
             PROVE  IInv'
  OBVIOUS
<1> USE StateFileAssumption
<1>1. ASSUME NEW w \in Writers, AtomicWriteFile(w) \/ Kill(w), quiet' = FALSE
      PROVE  IInv'
  <2> USE DEF Goto
  <2>q. Undisturbed'
    BY <1>1 DEF Undisturbed
  <2>p. Writing /\ Prepared(w)
    BY DEF IInv, Writing
  <2>1. CASE StatTarget(w)
    <3>1. Names'
      BY <2>1, <2>p, NamesStay DEF StatTarget, Steps
    <3>2. owner'[w] = rightful
      BY <2>1, <2>p DEF StatTarget, IInv, Names, Sound, Writing
    <3>3. Prepared(w)'
      BY <2>1, <2>p, <3>2 DEF StatTarget, Prepared, Writing, Steps, diskVars
    <3>4. owner' \in [Writers -> STRING]
      BY <2>1, <2>p, <3>2 DEF StatTarget, Writing
    <3>5. Writing'
      BY <2>1, <2>p, <3>3, <3>4, OthersStay DEF StatTarget, Writing, Steps, diskVars
    <3>6. BackingUp'
      BY <2>1, BackupStays DEF StatTarget, diskVars
    <3> QED
      BY <2>q, <3>1, <3>5, <3>6 DEF IInv
  <2>2. CASE CreateTemp(w)
    <3>1. Names'
      BY <2>2, <2>p, NamesStay DEF CreateTemp, Steps
    <3>2. Prepared(w)'
      BY <2>2, <2>p DEF CreateTemp, Prepared, Writing, Steps, diskVars
    <3>3. Writing'
      BY <2>2, <2>p, <3>2, OthersStay DEF CreateTemp, Writing, Steps, diskVars
    <3>4. BackingUp'
      BY <2>2, BackupStays DEF CreateTemp, diskVars
    <3> QED
      BY <2>q, <3>1, <3>3, <3>4 DEF IInv
  <2>3. CASE PreserveOwner(w)
    <3>1. Names'
      BY <2>3, <2>p, NamesStay DEF PreserveOwner, Steps
    <3>2. /\ temp'[w] \in [version : {w, Torn}, owner : STRING, order : {0}]
          /\ temp'[w].owner = rightful
      BY <2>3, <2>p DEF PreserveOwner, Prepared, Writing
    <3>3. Prepared(w)'
      BY <2>3, <2>p, <3>2 DEF PreserveOwner, Prepared, Writing, Steps, diskVars
    <3>4. Writing'
      BY <2>3, <2>p, <3>3, OthersStay DEF PreserveOwner, Writing, Steps, diskVars
    <3>5. BackingUp'
      BY <2>3, BackupStays DEF PreserveOwner, diskVars
    <3> QED
      BY <2>q, <3>1, <3>4, <3>5 DEF IInv
  <2>4. CASE Write(w)
    <3>1. Names'
      BY <2>4, <2>p, NamesStay DEF Write, Steps
    <3>2. /\ temp'[w] \in [version : {w, Torn}, owner : STRING, order : {0}]
          /\ temp'[w].owner = rightful
          /\ temp'[w].version = w
      BY <2>4, <2>p DEF Write, Prepared, Writing
    <3>3. Prepared(w)'
      BY <2>4, <2>p, <3>2 DEF Write, Prepared, Writing, Steps, diskVars
    <3>4. Writing'
      BY <2>4, <2>p, <3>3, OthersStay DEF Write, Writing, Steps, diskVars
    <3>5. BackingUp'
      BY <2>4, BackupStays DEF Write, diskVars
    <3> QED
      BY <2>q, <3>1, <3>4, <3>5 DEF IInv
  <2>5. CASE SyncAndClose(w)
    <3>1. Names'
      BY <2>5, <2>p, NamesStay DEF SyncAndClose, Steps
    <3>2. Prepared(w)'
      BY <2>5, <2>p DEF SyncAndClose, Prepared, Writing, Steps, diskVars
    <3>3. Writing'
      BY <2>5, <2>p, <3>2, OthersStay DEF SyncAndClose, Writing, Steps, diskVars
    <3>4. BackingUp'
      BY <2>5, BackupStays DEF SyncAndClose, diskVars
    <3> QED
      BY <2>q, <3>1, <3>3, <3>4 DEF IInv
  <2>6. CASE Rename(w)
    <3> DEFINE new == [version |-> w, owner |-> rightful, order |-> renames + 1]
    <3>1. file' = new
      BY <2>6, <2>p DEF Rename, Prepared
    <3>2. survives' = survives \cup {new}
      <4>1. OnDisk(w) = w
        BY <2>6, <2>p DEF Rename, Prepared, OnDisk
      <4>2. [new EXCEPT !.version = w] = new
        OBVIOUS
      <4> QED
        BY <2>6, <3>1, <4>1, <4>2 DEF Rename
    <3>3. /\ renames \in Nat /\ renames' = renames + 1
          /\ acked \in Nat /\ acked' = acked /\ rightful' = rightful
          /\ pc' \in [Writers -> Steps] /\ pc'[w] = "syncDir"
          /\ \A v \in Writers \ {w} : pc'[v] = pc[v]
      BY <2>6, <2>p DEF Rename, IInv, Names, Writing, Steps
    <3>4. /\ new # NoFile
          /\ new.version = w /\ new.order = renames + 1
          /\ new \in [version : Versions, owner : {rightful},
                     order : 0..(renames + 1)]
      BY <3>3, <2>p DEF Writing, Versions
    <3> HIDE DEF new
    <3>5. ASSUME NEW f \in survives
          PROVE  Sound(f)'
      BY <3>3, <3>5 DEF Sound, IInv, Names
    <3>6. Sound(file)'
      BY <3>1, <3>3, <3>4 DEF Sound, Versions
    <3>7. acked <= renames
      BY <3>3 DEF IInv, Names, Sound
    <3>8. acked > 0 => \A f \in survives' : f # NoFile /\ f.order >= acked
      BY <3>2, <3>3, <3>4, <3>7 DEF IInv, Names
    <3>9. Names'
      <4>1. \A f \in survives' : Sound(f)'
        BY <3>1, <3>2, <3>5, <3>6
      <4> QED
        BY <4>1, <3>1, <3>2, <3>3, <3>4, <3>5, <3>6, <3>8 DEF Names, IInv
    <3>10. Prepared(w)'
      BY <2>6, <2>p DEF Rename, Prepared, Writing, Steps
    <3>11. Writing'
      BY <2>6, <2>p, <3>10, OthersStay DEF Rename, Writing, Steps
    <3>12. BackingUp'
      <4>1. backup \in {"walk", "copy"} => since <= renames /\ since \in Nat
        BY <3>3 DEF IInv, Names, Sound, BackingUp
      <4> QED
        BY <2>6, <3>1, <3>3, <3>4, <4>1 DEF Rename, BackingUp, backupVars, IInv
    <3> QED
      BY <2>q, <3>9, <3>11, <3>12 DEF IInv
  <2>7. CASE SyncDir(w)
    <3>1. /\ pc' \in [Writers -> Steps] /\ pc'[w] = "ok"
          /\ \A v \in Writers \ {w} : pc'[v] = pc[v]
      BY <2>7, <2>p DEF SyncDir, Writing, Steps
    <3>2. file # NoFile /\ Sound(file) /\ file.order \in Nat
      BY <2>7 DEF SyncDir, IInv, Names, Sound
    <3>3. survives' \subseteq survives /\ file \in survives'
      BY <2>7 DEF SyncDir, IInv, Names
    <3>4. ASSUME NEW f \in survives
          PROVE  Sound(f)'
      <4>1. Sound(f)
        BY <3>4 DEF IInv, Names
      <4>2. rightful' = rightful /\ renames' = renames
        BY <2>7 DEF SyncDir
      <4> QED
        BY <2>7, <3>1, <4>1, <4>2 DEF Sound, SyncDir
    <3>5. /\ acked' \in Nat
          /\ acked' > 0 => \A f \in survives' : f # NoFile /\ f.order >= acked'
      BY <2>7, <3>2 DEF SyncDir, IInv, Names, Newest
    <3>6. Names'
      BY <2>7, <3>1, <3>2, <3>3, <3>4, <3>5 DEF SyncDir, IInv, Names
    <3>7. Prepared(w)'
      BY <2>7, <2>p DEF SyncDir, Prepared, Writing, Steps
    <3>8. Writing'
      BY <2>7, <2>p, <3>7, OthersStay DEF SyncDir, Writing, Steps
    <3>9. BackingUp'
      BY <2>7, BackupStays DEF SyncDir
    <3> QED
      BY <2>q, <3>6, <3>8, <3>9 DEF IInv
  <2>8. CASE Fail(w)
    <3>1. Names'
      BY <2>8, <2>p, NamesStay DEF Fail, Steps
    <3>2. Prepared(w)'
      BY <2>8, <2>p DEF Fail, Prepared, Writing, Steps, diskVars
    <3>3. Writing'
      BY <2>8, <2>p, <3>2, OthersStay DEF Fail, Writing, Steps, diskVars
    <3>4. BackingUp'
      BY <2>8, BackupStays DEF Fail, diskVars
    <3> QED
      BY <2>q, <3>1, <3>3, <3>4 DEF IInv
  <2>9. CASE Kill(w)
    <3>1. Names'
      BY <2>9, <2>p, NamesStay DEF Kill, Steps
    <3>2. Prepared(w)'
      BY <2>9, <2>p DEF Kill, Running, Prepared, Writing, Steps, diskVars
    <3>3. Writing'
      BY <2>9, <2>p, <3>2, OthersStay DEF Kill, Writing, Steps, diskVars
    <3>4. BackingUp'
      BY <2>9, BackupStays DEF Kill, diskVars
    <3> QED
      BY <2>q, <3>1, <3>3, <3>4 DEF IInv
  <2> QED
    BY <1>1, <2>1, <2>2, <2>3, <2>4, <2>5, <2>6, <2>7, <2>8, <2>9
    DEF AtomicWriteFile
<1>2. ASSUME UNCHANGED <<diskVars, writerVars>>
      PROVE  Names' /\ Writing'
  BY <1>2 DEF diskVars, writerVars, IInv, Names, Sound, Writing, Prepared
<1>3. CASE WriteStateBackup
  <2>1. UNCHANGED <<diskVars, writerVars>>
    BY <1>3 DEF WriteStateBackup, List, ArchiveTemp, Header, Copy
  <2>2. file # NoFile => file.version \in Versions /\ file.order \in Nat
    BY DEF IInv, Names, Sound
  <2>3. BackingUp'
    <3>1. CASE List
      BY <3>1, <2>1, <2>2 DEF List, Back, diskVars, IInv, BackingUp
    <3>2. ASSUME NEW w \in Writers, ArchiveTemp(w)
          PROVE  BackingUp'
      BY <2>1, <3>2 DEF ArchiveTemp, Back, diskVars, IInv, BackingUp
    <3>3. CASE Header
      BY <3>3, <2>1, <2>2 DEF Header, Back, diskVars, IInv, BackingUp
    <3>4. CASE Copy
      BY <3>4, <2>1, <2>2 DEF Copy, Back, diskVars, IInv, BackingUp
    <3> QED
      BY <1>3, <3>1, <3>2, <3>3, <3>4 DEF WriteStateBackup
  <2>4. Undisturbed'
    <3>1. CASE List
      BY <3>1, <2>1 DEF List, Back, diskVars, writerVars, Running, IInv, Undisturbed
    <3>3. CASE Header
      BY <3>3, <2>1 DEF Header, Back, diskVars, writerVars, Running, IInv, Undisturbed
    <3>4. CASE Copy
      BY <3>4, <2>1 DEF Copy, Back, diskVars, writerVars, Running, IInv, Undisturbed
    <3>2. ASSUME NEW w \in Writers, ArchiveTemp(w)
          PROVE  Undisturbed'
      BY <2>1, <3>2 DEF ArchiveTemp, Back, diskVars, writerVars, Running, IInv,
         Undisturbed
    <3> QED
      BY <1>3, <3>1, <3>2, <3>3, <3>4 DEF WriteStateBackup
  <2> QED
    BY <1>2, <2>1, <2>3, <2>4 DEF IInv
<1>4. CASE PowerLoss
  <2>1. PICK f \in survives : file' = f /\ survives' = {f}
    BY <1>4 DEF PowerLoss
  <2>2. /\ rightful' = rightful /\ renames' = renames /\ acked' = acked
        /\ pc' = [w \in Writers |-> IF Running(w) THEN "killed" ELSE pc[w]]
    BY <1>4 DEF PowerLoss
  <2>3. Sound(f)'
    BY <2>1, <2>2 DEF IInv, Names, Sound, Running
  <2>4. Names'
    BY <2>1, <2>2, <2>3 DEF IInv, Names, Running
  <2>5. ASSUME NEW w \in Writers
        PROVE  Prepared(w)'
    <3>1. Prepared(w)
      BY <2>5 DEF IInv, Writing
    <3>2. pc'[w] \notin {"idle", "ok", "error", "killed"} => FALSE
      BY <2>2, <3>1 DEF Running, Steps, Prepared
    <3>3. /\ temp[w] = NoFile => temp'[w] = NoFile
          /\ temp[w] # NoFile =>
               temp'[w] = [temp[w] EXCEPT !.version = OnDisk(w)]
      BY <1>4 DEF PowerLoss
    <3>4. temp'[w] \in [version : {w, Torn}, owner : STRING, order : {0}] \cup {NoFile}
      BY <3>1, <3>3 DEF Prepared, OnDisk, Steps
    <3>5. pc'[w] # "killed" => temp'[w] = NoFile /\ pc'[w] = pc[w]
      BY <2>2, <3>1, <3>2, <3>3 DEF Prepared, Running
    <3>6. pc'[w] \in Steps /\ (pc'[w] = "error" <=> pc[w] = "error")
      BY <2>2, <3>1 DEF Running, Steps, Prepared
    <3>7. UNCHANGED <<owner, synced, failed>>
      BY <1>4 DEF PowerLoss
    <3> QED
      BY <2>2, <3>1, <3>2, <3>4, <3>5, <3>6, <3>7 DEF Prepared
  <2>6. Writing'
    <3>1. pc' \in [Writers -> Steps]
      BY <2>2 DEF IInv, Writing, Steps
    <3>2. DOMAIN temp' = Writers /\ UNCHANGED <<owner, synced, failed>>
      BY <1>4 DEF PowerLoss
    <3> QED
      BY <2>2, <2>5, <3>1, <3>2 DEF IInv, Writing
  <2>7. BackingUp'
    BY <1>4 DEF PowerLoss, IInv, BackingUp
  <2>8. Undisturbed'
    BY <1>4 DEF PowerLoss, Undisturbed
  <2> QED
    BY <2>4, <2>6, <2>7, <2>8 DEF IInv
<1>5. CASE UNCHANGED vars
  <2>1. BackingUp'
    BY <1>5, BackupStays DEF vars, diskVars
  <2>2. Undisturbed'
    BY <1>5 DEF vars, diskVars, writerVars, backupVars, Running, IInv, Undisturbed
  <2> QED
    BY <1>2, <1>5, <2>1, <2>2 DEF vars, IInv
<1> QED
  BY <1>1, <1>3, <1>4, <1>5 DEF Next

LEMMA Invariance == Spec => []IInv
  BY Initially, Inductive, PTL DEF Spec

-----------------------------------------------------------------------------
(***************************************************************************)
(* Theorems                                                                *)
(***************************************************************************)
\* The files are files and the writers where they can be.
THEOREM Typing == Spec => []TypeOK
<1>1. IInv => TypeOK
  <2> SUFFICES ASSUME IInv
               PROVE  TypeOK
    OBVIOUS
  <2>1. \A f \in survives \cup {file} :
          f \in Files(Versions \cup {Torn}) \cup {NoFile}
    BY DEF IInv, Names, Sound, Files, Writing
  <2>2. ASSUME NEW w \in Writers
        PROVE  /\ temp[w] \in Files({w, Torn}) \cup {NoFile}
               /\ temp[w] # NoFile =>
                    pc[w] \in {"own", "write", "sync", "rename", "killed"}
    BY <2>2 DEF IInv, Names, Writing, Prepared, Files
  <2> QED
    BY <2>1, <2>2 DEF TypeOK, IInv, Names, Writing, BackingUp, Undisturbed
<1> QED
  BY <1>1, Invariance, PTL

\* The file is never torn.
THEOREM Wholeness == Spec => []AlwaysWhole
<1>1. IInv => AlwaysWhole
  BY DEF IInv, Names, Sound, AlwaysWhole
<1> QED
  BY <1>1, Invariance, PTL

\* The file stays with its owner.
THEOREM Ownership == Spec => []OwnerKept
<1>1. IInv => OwnerKept
  BY DEF IInv, Names, Sound, OwnerKept
<1> QED
  BY <1>1, Invariance, PTL

\* A write that failed leaves no trace in the file.
THEOREM Failures == Spec => []FailureChangesNothing
<1>1. IInv => FailureChangesNothing
  BY DEF IInv, Names, Writing, Prepared, Sound, FailureChangesNothing
<1> QED
  BY <1>1, Invariance, PTL

\* A write that was acknowledged and synced is not undone by a power loss.
THEOREM Durability == Spec => []AckedSurvives
<1>1. IInv => AckedSurvives
  BY DEF IInv, Names, AckedSurvives
<1> QED
  BY <1>1, Invariance, PTL

\* A backup that succeeds has archived the file, whole and not out of date.
THEOREM Backups == Spec => []ArchiveIsWhole
<1>1. IInv => ArchiveIsWhole
  BY DEF IInv, BackingUp, ArchiveIsWhole
<1> QED
  BY <1>1, Invariance, PTL

\* Nothing but a running writer or a power loss makes a backup fail.
THEOREM QuietBackups == Spec => []QuietBackupCompletes
<1>1. IInv => QuietBackupCompletes
  BY DEF IInv, Undisturbed, QuietBackupCompletes
<1> QED
  BY <1>1, Invariance, PTL

-----------------------------------------------------------------------------
(***************************************************************************)
(* Refinement: each step is one of AtomicFile's, or none to a caller.      *)
(***************************************************************************)
LEMMA StartsAtomic == Init => Atomic!Init
<1> SUFFICES ASSUME Init
             PROVE  Atomic!Init
  OBVIOUS
<1> USE StateFileAssumption DEF Init
<1>1. [w \in Writers |-> Outcome(w)] = [w \in Writers |-> "uncalled"]
  BY DEF Outcome
<1>2. Seen(file) \in {Atomic!By(Original), NoFile}
  <2>1. CASE file = FirstFile /\ rightful = FileOwner
    <3>1. file.version = Original /\ file.owner = rightful
      BY <2>1 DEF FirstFile
    <3> QED
      BY <3>1 DEF Seen, Atomic!By
  <2>2. CASE file = NoFile
    BY <2>2 DEF Seen
  <2> QED
    BY <2>1, <2>2
<1>3. {Seen(f) : f \in survives} = {Seen(file)}
  OBVIOUS
<1> QED
  BY <1>1, <1>2, <1>3 DEF Atomic!Init

Outcomes == [w \in Writers |-> Outcome(w)]
Survivors == {Seen(f) : f \in survives}

\* What a step of one writer does to the outcomes.
LEMMA OutcomeOfOne ==
  ASSUME Writing, NEW w \in Writers, NEW step \in Steps,
         pc' = [pc EXCEPT ![w] = step]
  PROVE  Outcomes' = [Outcomes EXCEPT ![w] = Outcome(w)']
<1>1. \A v \in Writers \ {w} : pc'[v] = pc[v]
  BY DEF Writing
<1>2. \A v \in Writers \ {w} : Outcome(v)' = Outcome(v)
  BY <1>1 DEF Outcome
<1> QED
  BY <1>2 DEF Outcomes

\* Without a rename or a sync of the directory, readers see what they saw.
LEMMA SeenStays ==
  ASSUME UNCHANGED <<file, survives>>
  PROVE  UNCHANGED <<Seen(file), Survivors>>
  BY DEF Seen, Survivors

LEMMA StepsAtomic == IInv /\ [Next]_vars => [Atomic!Next]_(Atomic!vars)
<1> SUFFICES ASSUME IInv, [Next]_vars
             PROVE  [Atomic!Next]_(Atomic!vars)
  OBVIOUS
<1> USE StateFileAssumption
<1>1. ASSUME NEW w \in Writers, AtomicWriteFile(w) \/ Kill(w)
      PROVE  [Atomic!Next]_(Atomic!vars)
  <2> USE DEF Goto
  <2>p. Writing /\ Prepared(w)
    BY DEF IInv, Writing
  <2>d. pc' = [pc EXCEPT ![w] = pc'[w]] /\ pc'[w] \in Steps
    BY <1>1, <2>p DEF AtomicWriteFile, StatTarget, CreateTemp, PreserveOwner,
       Write, SyncAndClose, Rename, SyncDir, Fail, Kill, Writing, Steps
  <2>o. Outcomes' = [Outcomes EXCEPT ![w] = Outcome(w)'] /\ Outcomes[w] = Outcome(w)
    BY <2>p, <2>d, OutcomeOfOne DEF Outcomes
  <2>r. rightful' = rightful
    BY <1>1 DEF AtomicWriteFile, StatTarget, CreateTemp, PreserveOwner,
       Write, SyncAndClose, Rename, SyncDir, Fail, Kill, diskVars
  <2>1. CASE StatTarget(w)
    <3>1. Outcome(w) = "uncalled" /\ Outcome(w)' = "called"
      BY <2>1, <2>p DEF StatTarget, Outcome, Writing
    <3>2. UNCHANGED <<Seen(file), Survivors>>
      BY <2>1, SeenStays DEF StatTarget, diskVars
    <3>3. Atomic!Call(w)
      BY <2>o, <2>r, <3>1, <3>2 DEF Atomic!Call, Atomic!Become, Survivors, Outcomes
    <3> QED
      BY <3>3 DEF Atomic!Next
  <2>2. CASE CreateTemp(w) \/ PreserveOwner(w) \/ Write(w) \/ SyncAndClose(w)
    <3>1. Outcome(w) = "called" /\ Outcome(w)' = "called"
      BY <2>2, <2>p DEF CreateTemp, PreserveOwner, Write, SyncAndClose, Outcome,
         Writing
    <3>2. UNCHANGED <<Seen(file), Survivors>>
      BY <2>2, SeenStays
      DEF CreateTemp, PreserveOwner, Write, SyncAndClose, diskVars
    <3>3. Outcomes' = Outcomes
      BY <2>o, <3>1 DEF Outcomes
    <3> QED
      BY <2>r, <3>2, <3>3 DEF Atomic!vars, Survivors, Outcomes
  <2>3. CASE Rename(w)
    <3> DEFINE new == [version |-> w, owner |-> rightful, order |-> renames + 1]
    <3>1. file' = new /\ new # NoFile
      BY <2>3, <2>p DEF Rename, Prepared, IInv, Names, Writing, Versions
    <3>2. survives' = survives \cup {new}
      <4>1. OnDisk(w) = w
        BY <2>3, <2>p DEF Rename, Prepared, OnDisk
      <4>2. [new EXCEPT !.version = w] = new
        OBVIOUS
      <4> QED
        BY <2>3, <3>1, <4>1, <4>2 DEF Rename
    <3>3. Seen(file)' = Atomic!By(w)
      BY <3>1 DEF Seen, Atomic!By
    <3>4. Survivors' = Survivors \cup {Atomic!By(w)}
      BY <3>1, <3>2 DEF Survivors, Seen, Atomic!By
    <3>5. Outcome(w) = "called" /\ Outcome(w)' = "replaced"
      BY <2>3, <2>p DEF Rename, Outcome, Writing
    <3>6. Atomic!Replace(w)
      BY <2>o, <2>r, <3>3, <3>4, <3>5
      DEF Atomic!Replace, Atomic!Become, Survivors, Outcomes
    <3> QED
      BY <3>6 DEF Atomic!Next
  <2>4. CASE SyncDir(w)
    <3>1. Outcome(w) = "replaced" /\ Outcome(w)' = "succeeded"
      BY <2>4, <2>p DEF SyncDir, Outcome, Writing
    <3>2. Seen(file)' = Seen(file)
      BY <2>4 DEF SyncDir, Seen
    <3>3. Survivors' \in {Survivors, {Seen(file)}}
      BY <2>4 DEF SyncDir, Survivors, Seen
    <3>4. Atomic!Succeed(w)
      BY <2>o, <2>r, <3>1, <3>2, <3>3
      DEF Atomic!Succeed, Atomic!Become, Survivors, Outcomes
    <3> QED
      BY <3>4 DEF Atomic!Next
  <2>5. CASE Fail(w)
    <3>1. Outcome(w) \in {"uncalled", "called"} /\ Outcome(w)' = "failed"
      BY <2>5, <2>p DEF Fail, Outcome, Writing
    <3>2. UNCHANGED <<Seen(file), Survivors>>
      BY <2>5, SeenStays DEF Fail, diskVars
    <3>3. Atomic!Err(w)
      BY <2>o, <2>r, <3>1, <3>2 DEF Atomic!Err, Atomic!Become, Survivors, Outcomes
    <3> QED
      BY <3>3 DEF Atomic!Next
  <2>6. CASE Kill(w)
    <3>1. Outcome(w) \in {"called", "replaced"} /\ Outcome(w)' = "died"
      BY <2>6, <2>p DEF Kill, Running, Outcome, Writing, Prepared, Steps
    <3>2. UNCHANGED <<Seen(file), Survivors>>
      BY <2>6, SeenStays DEF Kill, diskVars
    <3>3. Atomic!Die(w)
      BY <2>o, <2>r, <3>1, <3>2
      DEF Atomic!Die, Atomic!Become, Atomic!Dying, Survivors, Outcomes
    <3> QED
      BY <3>3 DEF Atomic!Next
  <2> QED
    BY <1>1, <2>1, <2>2, <2>3, <2>4, <2>5, <2>6 DEF AtomicWriteFile
<1>2. ASSUME UNCHANGED <<diskVars, writerVars>>
      PROVE  UNCHANGED Atomic!vars
  <2>1. UNCHANGED <<Seen(file), Survivors>>
    BY <1>2, SeenStays DEF diskVars
  <2>2. Outcomes' = Outcomes
    BY <1>2 DEF Outcomes, Outcome, writerVars
  <2> QED
    BY <1>2, <2>1, <2>2 DEF diskVars, Atomic!vars, Survivors, Outcomes
<1>3. CASE WriteStateBackup
  <2>1. UNCHANGED <<diskVars, writerVars>>
    BY <1>3 DEF WriteStateBackup, List, ArchiveTemp, Header, Copy
  <2> QED
    BY <1>2, <2>1
<1>4. CASE PowerLoss
  <2>1. PICK f \in survives : file' = f /\ survives' = {f}
    BY <1>4 DEF PowerLoss
  <2>2. Seen(file)' \in Survivors /\ Survivors' = {Seen(file)'}
    BY <2>1 DEF Survivors, Seen
  <2>3. ASSUME NEW w \in Writers
        PROVE  Outcome(w)' = Atomic!Dying(Outcome(w))
    <3>1. pc'[w] = IF Running(w) THEN "killed" ELSE pc[w]
      BY <1>4 DEF PowerLoss
    <3>2. pc[w] \in Steps
      BY DEF IInv, Writing, Prepared
    <3> QED
      BY <3>1, <3>2 DEF Running, Steps, Outcome, Atomic!Dying
  <2>4. Outcomes' = [w \in Writers |-> Atomic!Dying(Outcomes[w])]
    BY <2>3 DEF Outcomes
  <2>5. rightful' = rightful
    BY <1>4 DEF PowerLoss
  <2>6. Atomic!PowerLoss
    BY <2>2, <2>4, <2>5 DEF Atomic!PowerLoss, Survivors, Outcomes
  <2> QED
    BY <2>6 DEF Atomic!Next
<1>5. CASE UNCHANGED vars
  BY <1>2, <1>5 DEF vars
<1> QED
  BY <1>1, <1>3, <1>4, <1>5 DEF Next

\* A file that is written step by step, by any number of callers that may be
\* killed, is for them one that is replaced at once.
THEOREM Refinement == Spec => ReplacedAtOnce
  BY StartsAtomic, StepsAtomic, Invariance, PTL
  DEF Spec, ReplacedAtOnce, Atomic!Spec
=============================================================================
