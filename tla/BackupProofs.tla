---------------------------- MODULE BackupProofs ----------------------------
(***************************************************************************)
(* Theorems about Backup: for any number of backups, restores, failed      *)
(* statements and crashes, and any retention.                              *)
(***************************************************************************)
EXTENDS Backup, FiniteSetTheorems, SequenceTheorems, WellFoundedInduction, TLAPS

-----------------------------------------------------------------------------
(* Backup: types.                                                          *)

Files == 1..MaxSecond
ExecAt == {"idle", "created", "copying", "stored", "saved", "purging", "unlinked",
           "resolve", "truncate", "copyIn", "hung"}
Execs == [at : ExecAt, id : BRun \cup Restore \cup {0}, file : 0..MaxSecond, read : Contents,
          stale : SUBSET (BRun \X Files)]
Backups == [status : {"none", "running", "success", "error", "deleted"},
            ofSchedule : BOOLEAN, file : 0..MaxSecond, read : Contents]
Restores == [status : {"none", "queued", "running", "success", "error", "canceled"},
             from : BRun \cup {0}, truncates : BOOLEAN]

(* An executor writes a dump, then finishes the run: both are its backup.  *)
Writing(e) == exec[e].at \in {"created", "copying", "stored"}
Finishing(e) == exec[e].at \in {"saved", "purging", "unlinked"}
BackingUp(e) == Writing(e) \/ Finishing(e)

(* What an executor holds fits where it is. *)
ExecFit(e) ==
  /\ exec[e].at = "idle" => exec[e] = IdleExec
  /\ BackingUp(e) => exec[e].id \in BRun
  /\ Writing(e) => exec[e].file # 0
  /\ exec[e].at \in {"purging", "unlinked"} <=> exec[e].stale # {}
  /\ ~BackingUp(e) /\ exec[e].at # "idle" =>
       /\ e = "worker" /\ exec[e].id \in Restore /\ restore[exec[e].id].from \in BRun
  /\ exec[e].at \in {"truncate", "copyIn"} => exec[e].file # 0

(* The runs that the queue may hold: the cron's own are not among them.    *)
AskedRuns == {r \in BRun : brun[r].status # "none" /\ ~(BackingUp("cron") /\ exec["cron"].id = r)}
KnownJobs == [kind : {"backup"}, id : AskedRuns]
             \cup [kind : {"restore"}, id : {x \in Restore : restore[x].from \in BRun}]

ColumnsTyped ==
  /\ db \in Contents
  /\ disk \in [Files -> Contents \cup {Gone, Partial, Garbled}]
  /\ second \in Files /\ due \in BOOLEAN
  /\ brun \in [BRun -> Backups]
  /\ restore \in [Restore -> Restores]
  /\ exec \in [Executor -> Execs]
  /\ torn \subseteq BRun /\ shared \subseteq Files
  /\ bFaults \in 0..BFaults

BackupTyped ==
  /\ ColumnsTyped
  /\ bjobs \in Seq(KnownJobs)
  /\ \A e \in Executor : ExecFit(e)
  /\ BackingUp("worker") => exec["worker"].id \in AskedRuns
  /\ BackingUp("cron") => brun[exec["cron"].id].status # "none"

LEMMA MoreJobs ==
  ASSUME NEW A, NEW B, A \subseteq B, NEW s \in Seq(A)
  PROVE  s \in Seq(B)
OBVIOUS

LEMMA FilesAreNumbers ==
  Files \subseteq Nat \ {0} /\ 1 \in Files /\ 0 \in 0..MaxSecond /\ Files \subseteq 0..MaxSecond
BY BackupAssumption DEF Files

LEMMA ExecutorsDiffer ==
  ASSUME NEW e \in Executor
  PROVE  Other(e) \in Executor /\ Other(e) # e /\ \A o \in Executor : o = e \/ o = Other(e)
BY DEF Executor, Other

LEMMA RowsOfBackups == Unused \in Backups /\ NoRestore \in Restores /\ IdleExec \in Execs
BY BackupAssumption DEF Unused, NoRestore, IdleExec, Backups, Restores, Execs, ExecAt, Contents

LEMMA SaveTyped ==
  ASSUME brun \in [BRun -> Backups], NEW r \in BRun,
         NEW file \in 0..MaxSecond, NEW read \in Contents,
         \/ \E s \in {"success", "error"} :
              brun' = [brun EXCEPT ![r].status = s, ![r].file = file, ![r].read = read]
         \/ \E s \in {"success", "error"} : brun' = [brun EXCEPT ![r].status = s, ![r].file = file]
         \/ \E s \in {"success", "error"} : brun' = [brun EXCEPT ![r].file = file, ![r].status = s]
  PROVE  /\ brun' \in [BRun -> Backups]
         /\ brun'[r].status # "none" /\ \A x \in BRun \ {r} : brun'[x] = brun[x]
BY DEF Backups

LEMMA LeastCount ==
  ASSUME NEW S \in SUBSET Nat, S # {}
  PROVE  \E n \in S : \A m \in S : n <= m
<1>1. IsWellFoundedOn(OpToRel(<, Nat), Nat) BY NatLessThanWellFounded
<1>2. PICK n \in S : \A m \in S : <<m, n>> \notin OpToRel(<, Nat) BY <1>1, WFMin
<1>3. \A m \in S : ~(m < n) BY <1>2 DEF OpToRel
<1> QED BY <1>3

(* Of the runs that are to be purged one is the newest: fewest are newer.  *)
LEMMA NextStaleFits ==
  ASSUME NEW e \in Executor, exec[e].stale \in SUBSET (BRun \X Files), exec[e].stale # {}
  PROVE  NextStale(e) \in exec[e].stale
<1> DEFINE After(s) == {x \in BRun : x > s[1]}
           Counts == {Cardinality(After(s)) : s \in exec[e].stale}
<1>1. \A s \in exec[e].stale : s[1] \in BRun /\ s[1] \in Nat BY BackupAssumption
<1>2. \A s \in exec[e].stale : IsFiniteSet(After(s)) /\ Cardinality(After(s)) \in Nat
  BY BackupAssumption, FS_Subset, FS_CardinalityType
<1>3. Counts \in SUBSET Nat /\ Counts # {} BY <1>2
<1>4. PICK n \in Counts : \A m \in Counts : n <= m BY <1>3, LeastCount
<1>5. PICK s \in exec[e].stale : n = Cardinality(After(s)) BY <1>4
<1>6. ASSUME NEW x \in exec[e].stale, ~(s[1] >= x[1]) PROVE FALSE
  <2>1. s[1] < x[1] /\ s[1] \in Nat /\ x[1] \in BRun /\ x[1] \in Nat BY <1>1, <1>6
  <2>2. BRun \subseteq Nat BY BackupAssumption
  <2>3. After(x) \subseteq After(s) /\ x[1] \in After(s) /\ x[1] \notin After(x)
    <3>1. \A y \in BRun : y \in Nat /\ (y > x[1] => y > s[1]) BY <2>1, <2>2
    <3>2. x[1] > s[1] /\ ~(x[1] > x[1]) BY <2>1
    <3> QED BY <2>1, <3>1, <3>2, Zenon
  <2>4. Cardinality(After(x)) <= Cardinality(After(s)) /\ Cardinality(After(x)) # Cardinality(After(s))
    BY <1>2, <2>3, FS_Subset
  <2>5. Cardinality(After(s)) <= Cardinality(After(x)) BY <1>4, <1>5
  <2> HIDE DEF After
  <2> QED BY <1>2, <2>4, <2>5
<1> QED BY <1>6 DEF NextStale

(* A run that was begun, and where a restore comes from, are not forgotten. *)
Remembered ==
  /\ \A r \in BRun : brun[r].status # "none" => brun'[r].status # "none"
  /\ \A x \in Restore : restore[x].from \in BRun => restore'[x].from \in BRun

Asking ==
  \/ NextSecond \/ NextSlot
  \/ \E r \in BRun : \/ \E ofSchedule \in BOOLEAN : EnqueueBackup(r, ofSchedule)
                     \/ DeleteUnlink(r) \/ DeleteRow(r)
                     \/ \E x \in Restore, truncates \in BOOLEAN : EnqueueRestore(x, r, truncates)
  \/ \E x \in Restore : CancelRestore(x)

LEMMA UnlinkedTyped ==
  ASSUME ColumnsTyped, NEW f \in 0..MaxSecond
  PROVE  Unlinked(f) \in [Files -> Contents \cup {Gone, Partial, Garbled}]
BY DEF ColumnsTyped, Unlinked

LEMMA AskingColumns ==
  ASSUME ColumnsTyped, Asking
  PROVE  ColumnsTyped' /\ Remembered /\ exec' = exec
<1> USE FilesAreNumbers DEF ColumnsTyped, Remembered
<1>1. CASE NextSecond BY <1>1, BackupAssumption DEF NextSecond, Files
<1>2. CASE NextSlot BY <1>2 DEF NextSlot
<1>3. ASSUME NEW r \in BRun, NEW ofSchedule \in BOOLEAN, EnqueueBackup(r, ofSchedule)
      PROVE  ColumnsTyped' /\ Remembered /\ exec' = exec
  <2>1. Running(ofSchedule) \in Backups BY RowsOfBackups DEF Running, Backups
  <2> QED BY <1>3, <2>1 DEF EnqueueBackup, Fresh, Running
<1>4. ASSUME NEW r \in BRun, DeleteUnlink(r) PROVE ColumnsTyped' /\ Remembered /\ exec' = exec
  <2>1. brun[r].file \in 0..MaxSecond BY DEF Backups
  <2> QED BY <1>4, <2>1, UnlinkedTyped DEF DeleteUnlink
<1>5. ASSUME NEW r \in BRun, DeleteRow(r) PROVE ColumnsTyped' /\ Remembered /\ exec' = exec
  BY <1>5 DEF DeleteRow, Backups
<1>6. ASSUME NEW r \in BRun, NEW x \in Restore, NEW truncates \in BOOLEAN, EnqueueRestore(x, r, truncates)
      PROVE  ColumnsTyped' /\ Remembered /\ exec' = exec
  BY <1>6 DEF EnqueueRestore, Restores
<1>7. ASSUME NEW x \in Restore, CancelRestore(x) PROVE ColumnsTyped' /\ Remembered /\ exec' = exec
  BY <1>7 DEF CancelRestore, Restores
<1> QED BY <1>1, <1>2, <1>3, <1>4, <1>5, <1>6, <1>7 DEF Asking

LEMMA TakingColumns ==
  ASSUME BackupTyped, WorkerTakes \/ BackupCrash \/ \E r \in BRun : CronStarts(r)
  PROVE  ColumnsTyped' /\ Remembered
<1> USE FilesAreNumbers DEF BackupTyped, ColumnsTyped, Remembered
<1>1. CASE BackupCrash BY <1>1, RowsOfBackups, BackupAssumption DEF BackupCrash
<1>2. ASSUME NEW r \in BRun, NEW e \in Executor, Executing(e, r)
      PROVE  exec' \in [Executor -> Execs] /\ shared' \subseteq Files
  <2>1. [IdleExec EXCEPT !.at = "created", !.id = r, !.file = second] \in Execs
    BY RowsOfBackups DEF Execs, ExecAt
  <2>2. exec' = [exec EXCEPT ![e] = [IdleExec EXCEPT !.at = "created", !.id = r, !.file = second]]
    BY <1>2 DEF Executing
  <2>3. shared' \subseteq Files BY <1>2 DEF Executing
  <2> QED BY <2>1, <2>2, <2>3
<1>3. ASSUME NEW r \in BRun, CronStarts(r) PROVE ColumnsTyped' /\ Remembered
  <2>1. Running(TRUE) \in Backups BY RowsOfBackups DEF Running, Backups
  <2> QED BY <1>2, <1>3, <2>1 DEF CronStarts, Fresh, Running, Executor
<1>4. CASE WorkerTakes
  <2>1. Job \in KnownJobs BY <1>4 DEF WorkerTakes, Job
  <2>2. Job.kind = "backup" => Job.id \in AskedRuns BY <2>1 DEF KnownJobs
  <2>3. Job.kind = "restore" => Job.id \in Restore BY <2>1 DEF KnownJobs
  <2>4. CASE Job.kind = "backup"
    <3>1. exec' \in [Executor -> Execs] /\ shared' \subseteq Files /\ restore' = restore
      BY <1>4, <2>4, <2>2, <1>2 DEF WorkerTakes, Executor, AskedRuns
    <3> QED BY <1>4, <3>1 DEF WorkerTakes
  <2>5. CASE Job.kind = "restore"
    <3>1. exec' \in [Executor -> Execs] /\ shared' \subseteq Files
      <4> DEFINE R == [IdleExec EXCEPT !.at = "resolve", !.id = Job.id]
      <4>1. R \in Execs BY <2>3, <2>5, RowsOfBackups DEF Execs, ExecAt
      <4>2. exec' = exec \/ exec' = [exec EXCEPT !["worker"] = R]
        BY <1>4, <2>5 DEF WorkerTakes
      <4>3. shared' = shared BY <1>4, <2>5 DEF WorkerTakes
      <4> QED BY <4>1, <4>2, <4>3
    <3>2. restore' \in [Restore -> Restores] /\ \A x \in Restore : restore'[x].from = restore[x].from
      <4>1. restore[Job.id] \in Restores BY <2>3, <2>5
      <4>2. [restore[Job.id] EXCEPT !.status = "running"] \in Restores BY <4>1 DEF Restores
      <4>3. restore' = restore \/ restore' = [restore EXCEPT ![Job.id] = [@ EXCEPT !.status = "running"]]
        BY <1>4, <2>5 DEF WorkerTakes
      <4>4. [restore[Job.id] EXCEPT !.status = "running"].from = restore[Job.id].from
        BY <4>1 DEF Restores
      <4> QED BY <2>3, <2>5, <4>2, <4>3, <4>4
    <3> QED BY <1>4, <3>1, <3>2 DEF WorkerTakes
  <2>6. Job.kind \in {"backup", "restore"} BY <2>1 DEF KnownJobs
  <2> QED BY <2>4, <2>5, <2>6
<1> QED BY <1>1, <1>3, <1>4

LEMMA StaleTyped ==
  ASSUME ColumnsTyped
  PROVE  Stale \in SUBSET (BRun \X Files) /\ \A r \in WithFile : r \in BRun /\ brun[r].file \in Files
<1>1. \A r \in WithFile : r \in BRun /\ brun[r].file \in Files
  BY FilesAreNumbers DEF ColumnsTyped, WithFile, Backups, Files
<1>2. \A R : R \subseteq WithFile => Beyond(R) \subseteq BRun \X Files BY <1>1 DEF Beyond
<1> QED BY <1>1, <1>2 DEF Stale

LEMMA DumpingColumns ==
  ASSUME BackupTyped, NEW e \in Executor, Dumping(e)
  PROVE  ColumnsTyped' /\ Remembered /\ bjobs' = bjobs
<1> USE FilesAreNumbers DEF BackupTyped, ColumnsTyped, Remembered
<1>0. exec[e] \in Execs OBVIOUS
<1>1. CASE OpenDump(e) BY <1>0, <1>1 DEF OpenDump, Execs, ExecAt
<1>2. CASE CloseDump(e)
  <2>1. exec[e].file \in Files /\ exec[e].read \in Contents
    BY <1>0, <1>2 DEF CloseDump, Execs, ExecFit, Writing, Files
  <2>2. disk' \in [Files -> Contents \cup {Gone, Partial, Garbled}]
    BY <1>2, <2>1 DEF CloseDump
  <2>3. exec' \in [Executor -> Execs] BY <1>0, <1>2 DEF CloseDump, Step, Execs, ExecAt
  <2> QED BY <1>2, <2>2, <2>3 DEF CloseDump
<1>3. CASE BackupFails(e)
  <2>1. exec[e].file \in 0..MaxSecond /\ exec[e].id \in BRun
    BY <1>0, <1>3 DEF BackupFails, Execs, ExecFit, BackingUp, Writing, Finishing
  <2>2. PICK path \in {0, exec[e].file} :
               brun' = [brun EXCEPT ![exec[e].id].status = "error", ![exec[e].id].file = path]
    BY <1>3 DEF BackupFails
  <2>3. brun' \in [BRun -> Backups] /\ Remembered
    <3>1. brun \in [BRun -> Backups] /\ path \in 0..MaxSecond BY <2>1
    <3>2. brun' \in [BRun -> Backups] BY <2>1, <2>2, <3>1, SaveTyped
    <3>3. \A r \in BRun : brun[r].status # "none" => brun'[r].status # "none"
      BY <2>1, <2>2, <3>1, SaveTyped
    <3>4. restore' = restore BY <1>3 DEF BackupFails
    <3> QED BY <3>2, <3>3, <3>4
  <2>4. exec' \in [Executor -> Execs] BY <1>3, RowsOfBackups DEF BackupFails
  <2>5. disk' \in [Files -> Contents \cup {Gone, Partial, Garbled}]
    BY <1>3, <2>1, UnlinkedTyped DEF BackupFails
  <2>6. bFaults' \in 0..BFaults BY <1>3, BackupAssumption DEF BackupFails
  <2>7. UNCHANGED <<db, second, due, restore, bjobs, torn, shared>> BY <1>3 DEF BackupFails
  <2> QED BY <2>3, <2>4, <2>5, <2>6, <2>7
<1>4. ASSUME NEW keepFile \in BOOLEAN, SaveSuccess(e, keepFile)
      PROVE  ColumnsTyped' /\ Remembered /\ bjobs' = bjobs
  <2>1. /\ exec[e].file \in 0..MaxSecond /\ exec[e].id \in BRun /\ exec[e].read \in Contents
        /\ 0 \in Contents
    BY <1>0, <1>4 DEF SaveSuccess, Execs, ExecFit, BackingUp, Writing, Finishing, Contents
  <2> DEFINE r == exec[e].id
             kept == IF keepFile THEN exec[e].file ELSE 0
             seen == IF keepFile THEN exec[e].read ELSE 0
             X == [exec[e] EXCEPT !.at = "saved", !.file = kept, !.read = 0]
  <2>2. brun' \in [BRun -> Backups] /\ Remembered
    <3>1. brun \in [BRun -> Backups] /\ kept \in 0..MaxSecond /\ seen \in Contents BY <2>1
    <3>2. brun' = [brun EXCEPT ![r].status = "success", ![r].file = kept, ![r].read = seen]
      BY <1>4 DEF SaveSuccess
    <3>3. brun' \in [BRun -> Backups] BY <2>1, <3>1, <3>2, SaveTyped
    <3>4. \A x \in BRun : brun[x].status # "none" => brun'[x].status # "none"
      BY <2>1, <3>1, <3>2, SaveTyped
    <3>5. restore' = restore BY <1>4 DEF SaveSuccess
    <3> QED BY <3>3, <3>4, <3>5
  <2>3. exec' \in [Executor -> Execs]
    <3>1. X \in Execs BY <1>0, <2>1 DEF Execs, ExecAt
    <3>2. exec' = [exec EXCEPT ![e] = X] \/ exec' = [exec EXCEPT ![e] = IdleExec]
      BY <1>4 DEF SaveSuccess
    <3> QED BY <3>1, <3>2, RowsOfBackups
  <2>4. disk' \in [Files -> Contents \cup {Gone, Partial, Garbled}]
    BY <1>4, <2>1, UnlinkedTyped DEF SaveSuccess
  <2> QED BY <1>4, <2>2, <2>3, <2>4 DEF SaveSuccess
<1>5. ASSUME NEW S \in SUBSET (BRun \X Files), Purging(e, S) PROVE exec' \in [Executor -> Execs]
  BY <1>0, <1>5, RowsOfBackups DEF Purging, Execs, ExecAt
<1>6. CASE MarkSchedule(e)
  <2> QED BY <1>5, <1>6, StaleTyped DEF MarkSchedule
<1>7. CASE PurgeUnlink(e)
  <2>1. NextStale(e) \in BRun \X Files BY <1>0, <1>7, NextStaleFits DEF PurgeUnlink, ExecFit, Execs
  <2>2. NextStale(e)[1] \in BRun /\ NextStale(e)[2] \in 0..MaxSecond BY <2>1
  <2>3. disk' \in [Files -> Contents \cup {Gone, Partial, Garbled}]
    BY <1>7, <2>2, UnlinkedTyped DEF PurgeUnlink
  <2>4. exec' \in [Executor -> Execs] BY <1>0, <1>7 DEF PurgeUnlink, Step, Execs, ExecAt
  <2> QED BY <1>7, <2>2, <2>3, <2>4 DEF PurgeUnlink
<1>8. CASE PurgeSave(e)
  <2>1. NextStale(e) \in BRun \X Files BY <1>0, <1>8, NextStaleFits DEF PurgeSave, ExecFit, Execs
  <2> DEFINE r == NextStale(e)[1]
  <2>2. r \in BRun BY <2>1
  <2>3. brun' = [brun EXCEPT ![r].file = 0, ![r].status = "success"] BY <1>8 DEF PurgeSave
  <2>4. brun' \in [BRun -> Backups] /\ \A x \in BRun : brun[x].status # "none" => brun'[x].status # "none"
    BY <2>2, <2>3, SaveTyped
  <2>5. exec[e].stale \ {NextStale(e)} \in SUBSET (BRun \X Files) BY <1>0 DEF Execs
  <2>6. exec' \in [Executor -> Execs] BY <1>5, <1>8, <2>5 DEF PurgeSave
  <2> QED BY <1>8, <2>2, <2>3, <2>4, <2>6 DEF PurgeSave
<1> QED BY <1>1, <1>2, <1>3, <1>4, <1>6, <1>7, <1>8 DEF Dumping

LEMMA RestoringColumns ==
  ASSUME BackupTyped, Restoring
  PROVE  ColumnsTyped' /\ Remembered /\ bjobs' = bjobs
<1> USE FilesAreNumbers DEF BackupTyped, ColumnsTyped, Remembered
<1>0. exec["worker"] \in Execs /\ "worker" \in Executor BY DEF Executor
<1>1. exec["worker"].at \in {"resolve", "truncate", "copyIn", "hung"} =>
        This \in Restore /\ restore[This].from \in BRun /\ restore[This] \in Restores
  BY <1>0 DEF ExecFit, BackingUp, Writing, Finishing, This
<1>2. ASSUME NEW status \in {"success", "error"}, Finish(status), This \in Restore
      PROVE  restore' \in [Restore -> Restores] /\ exec' \in [Executor -> Execs]
             /\ \A x \in Restore : restore'[x].from = restore[x].from
  BY <1>0, <1>2, RowsOfBackups DEF Finish, Restores
<1>3. CASE ResolveGone BY <1>1, <1>2, <1>3 DEF ResolveGone, At
<1>4. CASE Resolve
  <2>1. brun[restore[This].from].file \in 0..MaxSecond BY <1>1, <1>4 DEF Resolve, At, Backups
  <2> QED BY <1>0, <1>4, <2>1 DEF Resolve, Execs, ExecAt
<1>5. CASE Truncate BY <1>0, <1>5 DEF Truncate, Step, Execs, ExecAt, Contents
<1>6. CASE CopyIn
  <2>1. exec["worker"].file \in Files
    BY <1>0, <1>6 DEF CopyIn, At, ExecFit, Execs, Files
  <2>2. Artifact \in Contents \cup {Gone, Partial, Garbled} BY <2>1 DEF Artifact
  <2>3. Artifact \in Contents BY <1>6, <2>2 DEF CopyIn, Contents, Gone, Partial, Garbled
  <2>4. db' \in Contents BY <1>6, <2>3 DEF CopyIn
  <2> QED BY <1>1, <1>2, <1>6, <2>4 DEF CopyIn, At
<1>7. CASE RestoreFails BY <1>1, <1>2, <1>7, BackupAssumption DEF RestoreFails, At
<1>8. CASE RestoreHangs BY <1>0, <1>8 DEF RestoreHangs, Step, Execs, ExecAt
<1> QED BY <1>3, <1>4, <1>5, <1>6, <1>7, <1>8 DEF Restoring

(* What each step makes of an executor's place. *)
LEMMA PlaceKept ==
  ASSUME Remembered, NEW o \in Executor, exec'[o] = exec[o], ExecFit(o)
  PROVE  ExecFit(o)'
BY DEF Remembered, ExecFit, BackingUp, Writing, Finishing

LEMMA PlaceLeft ==
  ASSUME NEW e \in Executor, exec'[e] = IdleExec
  PROVE  ExecFit(e)'
BY DEF ExecFit, IdleExec, BackingUp, Writing, Finishing

LEMMA DumpingPlaces ==
  ASSUME BackupTyped, NEW e \in Executor, Dumping(e)
  PROVE  /\ BackingUp(e)
         /\ \A o \in Executor \ {e} : exec'[o] = exec[o]
         /\ exec'[e] = IdleExec \/ (BackingUp(e)' /\ exec'[e].id = exec[e].id)
         /\ ExecFit(e)'
<1> DEFINE Others == \A o \in Executor \ {e} : exec'[o] = exec[o]
           Goes == exec'[e] = IdleExec \/ (BackingUp(e)' /\ exec'[e].id = exec[e].id)
           Fits == BackingUp(e) /\ Others /\ Goes /\ ExecFit(e)'
<1> USE DEF BackingUp, Writing, Finishing
<1>0. exec \in [Executor -> Execs] /\ exec[e] \in Execs /\ ExecFit(e) BY DEF BackupTyped, ColumnsTyped
<1>1. ASSUME NEW x \in Execs, BackingUp(e), exec' = [exec EXCEPT ![e] = x],
             x.at \in {"created", "copying", "stored", "saved", "purging", "unlinked"},
             x.id = exec[e].id,
             x.at \in {"created", "copying", "stored"} => x.file # 0,
             x.at \in {"purging", "unlinked"} <=> x.stale # {}
      PROVE  Fits
  BY <1>0, <1>1 DEF ExecFit
<1>2. ASSUME BackingUp(e), exec' = [exec EXCEPT ![e] = IdleExec] PROVE Fits
  <2>1. exec'[e] = IdleExec /\ Others BY <1>0, <1>2
  <2>2. ExecFit(e)' BY <2>1, PlaceLeft
  <2> QED BY <1>2, <2>1, <2>2
<1>3. ASSUME NEW at \in ExecAt, NEW read \in Contents,
             exec' = [exec EXCEPT ![e].at = at] \/ exec' = [exec EXCEPT ![e].at = at, ![e].read = read]
      PROVE  /\ Others /\ exec'[e].at = at /\ exec'[e].id = exec[e].id
             /\ exec'[e].file = exec[e].file /\ exec'[e].stale = exec[e].stale
  BY <1>0, <1>3 DEF Execs
<1>4. CASE OpenDump(e)
  <2>1. db \in Contents /\ "copying" \in ExecAt BY DEF BackupTyped, ColumnsTyped, ExecAt
  <2>2. exec' = [exec EXCEPT ![e].at = "copying", ![e].read = db] /\ exec[e].at = "created"
    BY <1>4 DEF OpenDump
  <2> QED BY <1>0, <1>3, <2>1, <2>2 DEF ExecFit
<1>5. CASE CloseDump(e)
  <2>1. exec' = [exec EXCEPT ![e].at = "stored"] /\ exec[e].at = "copying"
    BY <1>5 DEF CloseDump, Step
  <2> QED BY <1>0, <1>3, <2>1 DEF ExecFit, ExecAt, Execs
<1>6. CASE PurgeUnlink(e)
  <2>1. exec' = [exec EXCEPT ![e].at = "unlinked"] /\ exec[e].at = "purging"
    BY <1>6 DEF PurgeUnlink, Step
  <2> QED BY <1>0, <1>3, <2>1 DEF ExecFit, ExecAt, Execs
<1>7. CASE BackupFails(e) BY <1>2, <1>7 DEF BackupFails
<1>8. ASSUME NEW keepFile \in BOOLEAN, SaveSuccess(e, keepFile) PROVE Fits
  <2> DEFINE kept == IF keepFile THEN exec[e].file ELSE 0
             X == [exec[e] EXCEPT !.at = "saved", !.file = kept, !.read = 0]
  <2>1. exec' = [exec EXCEPT ![e] = X] \/ exec' = [exec EXCEPT ![e] = IdleExec]
    BY <1>8 DEF SaveSuccess
  <2>2. X.at = "saved" /\ X.id = exec[e].id /\ X.stale = exec[e].stale BY <1>0 DEF Execs
  <2>3. exec[e].at = "stored" BY <1>8 DEF SaveSuccess
  <2>4. X \in Execs BY <1>0, FilesAreNumbers DEF Execs, ExecAt, Contents
  <2>5. exec[e].stale = {} BY <1>0, <2>3 DEF ExecFit
  <2> HIDE DEF X, Fits
  <2> QED BY <1>1, <1>2, <2>1, <2>2, <2>3, <2>4, <2>5
<1>9. ASSUME NEW S \in SUBSET (BRun \X Files), Purging(e, S), BackingUp(e) PROVE Fits
  <2> DEFINE X == [exec[e] EXCEPT !.at = "purging", !.stale = S]
  <2>1. exec' = [exec EXCEPT ![e] = IdleExec] \/ (S # {} /\ exec' = [exec EXCEPT ![e] = X])
    <3>1. CASE S = {} BY <1>9, <3>1 DEF Purging
    <3>2. CASE S # {} BY <1>9, <3>2 DEF Purging
    <3> QED BY <3>1, <3>2
  <2>2. X.at = "purging" /\ X.id = exec[e].id /\ X.stale = S BY <1>0 DEF Execs
  <2>3. X \in Execs BY <1>0 DEF Execs, ExecAt
  <2> HIDE DEF X, Fits
  <2> QED BY <1>1, <1>2, <1>9, <2>1, <2>2, <2>3
<1>10. CASE MarkSchedule(e) BY <1>9, <1>10, StaleTyped DEF MarkSchedule, BackupTyped
<1>11. CASE PurgeSave(e)
  <2>1. exec[e].stale \ {NextStale(e)} \in SUBSET (BRun \X Files) BY <1>0 DEF Execs
  <2> QED BY <1>9, <1>11, <2>1 DEF PurgeSave
<1> QED BY <1>4, <1>5, <1>6, <1>7, <1>8, <1>10, <1>11 DEF Dumping

LEMMA RestoringPlaces ==
  ASSUME BackupTyped, Restoring
  PROVE  /\ \A o \in Executor \ {"worker"} : exec'[o] = exec[o]
         /\ ~BackingUp("worker") /\ ~BackingUp("worker")'
         /\ exec'["worker"] = IdleExec \/ exec'["worker"].id = This
         /\ ExecFit("worker")'
<1> DEFINE Others == \A o \in Executor \ {"worker"} : exec'[o] = exec[o]
           Goes == exec'["worker"] = IdleExec \/ exec'["worker"].id = This
           Away == ~BackingUp("worker") /\ ~BackingUp("worker")'
           Fits == Others /\ Away /\ Goes /\ ExecFit("worker")'
<1> USE DEF BackingUp, Writing, Finishing
<1>0. /\ "worker" \in Executor /\ exec["worker"] \in Execs /\ ExecFit("worker")
      /\ exec \in [Executor -> Execs]
  BY DEF Executor, BackupTyped, ColumnsTyped
<1>1. exec["worker"].at \in {"resolve", "truncate", "copyIn"}
  BY DEF Restoring, ResolveGone, Resolve, Truncate, CopyIn, RestoreFails, RestoreHangs, At
<1>2. This \in Restore /\ restore[This].from \in BRun /\ restore'[This].from \in BRun
      /\ exec["worker"].stale = {}
  BY <1>0, <1>1, RestoringColumns DEF Remembered, ExecFit, This
<1>3. ASSUME NEW status, Finish(status) PROVE Fits
  <2>1. exec' = [exec EXCEPT !["worker"] = IdleExec] BY <1>3 DEF Finish
  <2>2. exec'["worker"] = IdleExec /\ Others BY <1>0, <2>1
  <2>3. IdleExec.at = "idle" BY DEF IdleExec
  <2> QED BY <1>0, <1>1, <2>2, <2>3, PlaceLeft
<1>4. ASSUME NEW at \in {"truncate", "copyIn", "hung"}, NEW file \in 0..MaxSecond,
             \/ exec' = [exec EXCEPT !["worker"].at = at] /\ file = exec["worker"].file
             \/ exec' = [exec EXCEPT !["worker"].at = at, !["worker"].file = file],
             at # "hung" => file # 0
      PROVE  Fits
  <2>1. /\ exec'["worker"].at = at /\ exec'["worker"].file = file
        /\ exec'["worker"].id = exec["worker"].id /\ exec'["worker"].stale = exec["worker"].stale
        /\ Others
    BY <1>0, <1>4 DEF Execs
  <2>2. ExecFit("worker")'
    BY <1>2, <1>4, <2>1 DEF ExecFit, This
  <2>3. Away BY <1>1, <1>4, <2>1
  <2> QED BY <2>1, <2>2, <2>3 DEF This
<1>5. exec["worker"].file \in 0..MaxSecond BY <1>0 DEF Execs
<1>6. CASE Resolve
  <2>1. brun[restore[This].from].file \in 0..MaxSecond
    BY <1>2 DEF BackupTyped, ColumnsTyped, Backups
  <2> QED BY <1>4, <1>6, <2>1 DEF Resolve
<1>7. CASE Truncate BY <1>0, <1>4, <1>5, <1>7 DEF Truncate, At, Step, ExecFit
<1>8. CASE RestoreHangs BY <1>4, <1>5, <1>8 DEF RestoreHangs, Step
<1> QED BY <1>3, <1>6, <1>7, <1>8 DEF Restoring, ResolveGone, CopyIn, RestoreFails

(* What was asked for stays known, unless the cron takes a row of its own. *)
LEMMA AskedStay ==
  ASSUME Remembered,
         BackingUp("cron")' =>
           \/ BackingUp("cron") /\ exec'["cron"].id = exec["cron"].id
           \/ brun[exec'["cron"].id].status = "none"
  PROVE  /\ AskedRuns \subseteq AskedRuns'
         /\ \A s \in Seq(KnownJobs) : s \in Seq(KnownJobs')
<1>1. AskedRuns \subseteq AskedRuns' BY DEF AskedRuns, Remembered
<1>2. KnownJobs \subseteq KnownJobs' BY <1>1 DEF KnownJobs, Remembered
<1> QED BY <1>1, <1>2, MoreJobs

LEMMA BackupTypedInit == BackupInit => BackupTyped
<1> SUFFICES ASSUME BackupInit PROVE BackupTyped OBVIOUS
<1>1. ColumnsTyped
  <2>1. 0 \in 0..BFaults /\ 1 \in Contents BY BackupAssumption DEF Contents
  <2>2. disk \in [Files -> Contents \cup {Gone, Partial, Garbled}] BY DEF BackupInit, Files
  <2> QED BY <2>1, <2>2, RowsOfBackups, FilesAreNumbers DEF BackupInit, ColumnsTyped
<1>2. \A e \in Executor : exec[e].at = "idle" /\ exec[e].stale = {} /\ exec[e] = IdleExec
  BY DEF BackupInit, IdleExec
<1>3. "worker" \in Executor /\ "cron" \in Executor BY DEF Executor
<1>4. bjobs \in Seq(KnownJobs) BY DEF BackupInit
<1> QED BY <1>1, <1>2, <1>3, <1>4 DEF BackupTyped, ExecFit, BackingUp, Writing, Finishing

LEMMA BackupTypedStep == BackupTyped /\ [BackupNext]_backupVars => BackupTyped'
<1> SUFFICES ASSUME BackupTyped, [BackupNext]_backupVars PROVE BackupTyped'
  OBVIOUS
<1>0. /\ ColumnsTyped /\ bjobs \in Seq(KnownJobs) /\ (\A e \in Executor : ExecFit(e))
      /\ (BackingUp("worker") => exec["worker"].id \in AskedRuns)
      /\ (BackingUp("cron") => brun[exec["cron"].id].status # "none")
      /\ "worker" \in Executor /\ "cron" \in Executor /\ "worker" # "cron"
      /\ (BackingUp("worker") => exec["worker"].id \in BRun)
      /\ (BackingUp("cron") => exec["cron"].id \in BRun)
  BY DEF BackupTyped, Executor, ExecFit
<1>1. CASE UNCHANGED backupVars
  BY <1>1 DEF backupVars, BackupTyped, ColumnsTyped, ExecFit, BackingUp, Writing, Finishing, AskedRuns, KnownJobs
<1>2. CASE Asking
  <2>1. ColumnsTyped' /\ Remembered /\ exec' = exec BY <1>0, <1>2, AskingColumns
  <2>2. \A e \in Executor : ExecFit(e)' BY <1>0, <2>1, PlaceKept
  <2>3. \A e : BackingUp(e)' <=> BackingUp(e) BY <2>1 DEF BackingUp, Writing, Finishing
  <2>4. AskedRuns \subseteq AskedRuns' /\ bjobs \in Seq(KnownJobs') BY <1>0, <2>1, <2>3, AskedStay
  <2>5. brun[exec["cron"].id].status # "none" /\ BackingUp("cron") => brun'[exec["cron"].id].status # "none"
    BY <1>0, <2>1 DEF Remembered
  <2>6. bjobs' = bjobs \/ \E y \in KnownJobs' : bjobs' = Append(bjobs, y)
    <3>1. ASSUME NEW r \in BRun, NEW ofSchedule \in BOOLEAN, EnqueueBackup(r, ofSchedule)
          PROVE  \E y \in KnownJobs' : bjobs' = Append(bjobs, y)
      <4>1. brun[r].status = "none" /\ brun'[r].status = "running"
        BY <1>0, <3>1, RowsOfBackups DEF EnqueueBackup, Fresh, Running, ColumnsTyped, Backups, Unused
      <4>2. r \in AskedRuns' BY <1>0, <2>1, <2>3, <4>1 DEF AskedRuns
      <4> QED BY <3>1, <4>2 DEF EnqueueBackup, KnownJobs
    <3>2. ASSUME NEW r \in BRun, NEW x \in Restore, NEW truncates \in BOOLEAN, EnqueueRestore(x, r, truncates)
          PROVE  \E y \in KnownJobs' : bjobs' = Append(bjobs, y)
      <4>1. restore'[x].from \in BRun BY <1>0, <3>2 DEF EnqueueRestore, ColumnsTyped
      <4> QED BY <3>2, <4>1 DEF EnqueueRestore, KnownJobs
    <3> QED BY <1>2, <3>1, <3>2 DEF Asking, NextSecond, NextSlot, DeleteUnlink, DeleteRow, CancelRestore
  <2>7. bjobs' \in Seq(KnownJobs') BY <2>4, <2>6
  <2> QED BY <1>0, <2>1, <2>2, <2>3, <2>4, <2>5, <2>7 DEF BackupTyped
<1>3. ASSUME NEW r \in BRun, CronStarts(r) PROVE BackupTyped'
  <2>1. ColumnsTyped' /\ Remembered BY <1>3, TakingColumns
  <2>2. /\ exec' = [exec EXCEPT !["cron"] = [IdleExec EXCEPT !.at = "created", !.id = r, !.file = second]]
        /\ brun[r].status = "none" /\ brun' = [brun EXCEPT ![r] = Running(TRUE)] /\ bjobs' = bjobs
    BY <1>3 DEF CronStarts, Executing, Fresh
  <2>3. /\ exec'["cron"].at = "created" /\ exec'["cron"].id = r /\ exec'["cron"].file = second
        /\ exec'["cron"].stale = {} /\ exec'["worker"] = exec["worker"]
    BY <1>0, <2>2 DEF ColumnsTyped, IdleExec
  <2>4. BackingUp("worker")' <=> BackingUp("worker") BY <2>3 DEF BackingUp, Writing, Finishing
  <2>5. second # 0 BY <1>0, FilesAreNumbers DEF ColumnsTyped
  <2>6. \A e \in Executor : ExecFit(e)'
    <3>1. ExecFit("cron")' BY <2>3, <2>5 DEF ExecFit, BackingUp, Writing, Finishing
    <3> QED BY <1>0, <2>1, <2>3, <3>1, PlaceKept DEF Executor
  <2>7. AskedRuns \subseteq AskedRuns' /\ bjobs' \in Seq(KnownJobs') BY <1>0, <2>1, <2>2, <2>3, AskedStay
  <2>8. brun'[r].status # "none" BY <1>0, <2>2 DEF ColumnsTyped, Running, Unused
  <2> QED BY <1>0, <2>1, <2>3, <2>4, <2>6, <2>7, <2>8 DEF BackupTyped
<1>4. CASE WorkerTakes
  <2>1. ColumnsTyped' /\ Remembered BY <1>4, TakingColumns
  <2>2. Job \in KnownJobs /\ bjobs' = Tail(bjobs) /\ bjobs' \in Seq(KnownJobs) /\ exec["worker"].at = "idle"
    BY <1>0, <1>4 DEF WorkerTakes, Job
  <2>3. /\ Job.kind = "backup" => Job.id \in AskedRuns
        /\ Job.kind = "restore" => Job.id \in Restore /\ restore[Job.id].from \in BRun
    BY <2>2 DEF KnownJobs
  <2>4. \/ exec' = exec
        \/ Job.kind = "backup" /\ Executing("worker", Job.id)
        \/ /\ Job.kind = "restore"
           /\ exec' = [exec EXCEPT !["worker"] = [IdleExec EXCEPT !.at = "resolve", !.id = Job.id]]
    BY <1>4 DEF WorkerTakes
  <2>5. exec'["cron"] = exec["cron"] BY <1>0, <2>4 DEF Executing, ColumnsTyped
  <2>6. BackingUp("cron")' <=> BackingUp("cron") BY <2>5 DEF BackingUp, Writing, Finishing
  <2>7. AskedRuns \subseteq AskedRuns' /\ bjobs' \in Seq(KnownJobs') BY <1>0, <2>1, <2>2, <2>5, <2>6, AskedStay
  <2>8. ExecFit("worker")' /\ (BackingUp("worker")' => exec'["worker"].id \in AskedRuns)
    <3>1. CASE exec' = exec
      <4>1. BackingUp("worker")' <=> BackingUp("worker") BY <3>1 DEF BackingUp, Writing, Finishing
      <4> QED BY <1>0, <2>1, <3>1, <4>1, PlaceKept
    <3>2. CASE Job.kind = "backup" /\ Executing("worker", Job.id)
      <4>1. /\ exec'["worker"].at = "created" /\ exec'["worker"].id = Job.id
            /\ exec'["worker"].file = second /\ exec'["worker"].stale = {}
        BY <1>0, <3>2 DEF Executing, ColumnsTyped, IdleExec
      <4>2. second # 0 BY <1>0, FilesAreNumbers DEF ColumnsTyped
      <4>3. Job.id \in BRun BY <2>3, <3>2 DEF AskedRuns
      <4> QED BY <2>3, <3>2, <4>1, <4>2, <4>3 DEF ExecFit, BackingUp, Writing, Finishing
    <3>3. CASE /\ Job.kind = "restore"
               /\ exec' = [exec EXCEPT !["worker"] = [IdleExec EXCEPT !.at = "resolve", !.id = Job.id]]
      <4>1. exec'["worker"].at = "resolve" /\ exec'["worker"].id = Job.id /\ exec'["worker"].stale = {}
        BY <1>0, <3>3 DEF ColumnsTyped, IdleExec
      <4>2. restore'[Job.id].from \in BRun /\ Job.id \in Restore BY <2>1, <2>3, <3>3 DEF Remembered
      <4> QED BY <4>1, <4>2 DEF ExecFit, BackingUp, Writing, Finishing
    <3> QED BY <2>4, <3>1, <3>2, <3>3
  <2>9. \A e \in Executor : ExecFit(e)' BY <1>0, <2>1, <2>5, <2>8, PlaceKept DEF Executor
  <2>10. BackingUp("cron")' => brun'[exec'["cron"].id].status # "none"
    BY <1>0, <2>1, <2>5, <2>6 DEF Remembered
  <2> QED BY <2>1, <2>7, <2>8, <2>9, <2>10 DEF BackupTyped
<1>5. ASSUME NEW e \in Executor, Dumping(e) PROVE BackupTyped'
  <2>1. ColumnsTyped' /\ Remembered /\ bjobs' = bjobs BY <1>5, DumpingColumns
  <2>2. /\ BackingUp(e) /\ (\A o \in Executor \ {e} : exec'[o] = exec[o]) /\ ExecFit(e)'
        /\ exec'[e] = IdleExec \/ (BackingUp(e)' /\ exec'[e].id = exec[e].id)
    BY <1>5, DumpingPlaces
  <2>3. \A o \in Executor : ExecFit(o)' BY <1>0, <2>1, <2>2, PlaceKept
  <2>4. \A o \in Executor : BackingUp(o)' => BackingUp(o) /\ exec'[o].id = exec[o].id
    BY <2>2 DEF BackingUp, Writing, Finishing, IdleExec
  <2>5. AskedRuns \subseteq AskedRuns' /\ bjobs' \in Seq(KnownJobs') BY <1>0, <2>1, <2>4, AskedStay
  <2>6. BackingUp("cron")' => brun'[exec'["cron"].id].status # "none"
    BY <1>0, <2>1, <2>4 DEF Remembered
  <2> QED BY <1>0, <2>1, <2>3, <2>4, <2>5, <2>6 DEF BackupTyped
<1>6. CASE Restoring
  <2>1. ColumnsTyped' /\ Remembered /\ bjobs' = bjobs BY <1>6, RestoringColumns
  <2>2. /\ exec'["cron"] = exec["cron"] /\ ~BackingUp("worker")' /\ ExecFit("worker")'
    BY <1>0, <1>6, RestoringPlaces
  <2>3. \A o \in Executor : ExecFit(o)' BY <1>0, <2>1, <2>2, PlaceKept DEF Executor
  <2>4. BackingUp("cron")' <=> BackingUp("cron") BY <2>2 DEF BackingUp, Writing, Finishing
  <2>5. AskedRuns \subseteq AskedRuns' /\ bjobs' \in Seq(KnownJobs') BY <1>0, <2>1, <2>2, <2>4, AskedStay
  <2>6. BackingUp("cron")' => brun'[exec'["cron"].id].status # "none"
    BY <1>0, <2>1, <2>2, <2>4 DEF Remembered
  <2> QED BY <2>1, <2>2, <2>3, <2>5, <2>6 DEF BackupTyped
<1>7. CASE BackupCrash
  <2>1. ColumnsTyped' /\ Remembered BY <1>7, TakingColumns
  <2>2. \A e \in Executor : exec'[e] = IdleExec BY <1>7 DEF BackupCrash
  <2>3. \A e \in Executor : ExecFit(e)' BY <2>2, PlaceLeft
  <2>4. \A e \in Executor : ~BackingUp(e)' BY <2>2 DEF BackingUp, Writing, Finishing, IdleExec
  <2>5. AskedRuns \subseteq AskedRuns' /\ bjobs \in Seq(KnownJobs') BY <1>0, <2>1, <2>4, AskedStay
  <2>6. bjobs' = bjobs \/ \E y \in KnownJobs' : bjobs' = <<y>> \o bjobs
    <3>1. CASE At("idle") BY <1>7, <3>1 DEF BackupCrash
    <3>2. CASE BackingUp("worker")
      <4>1. This \notin Restore /\ This \in AskedRuns' BY <1>0, <2>5, <3>2, BackupAssumption DEF This
      <4>2. ~At("idle") BY <3>2 DEF At, BackingUp, Writing, Finishing
      <4>3. [kind |-> "backup", id |-> This] \in KnownJobs' BY <4>1 DEF KnownJobs
      <4> QED BY <1>7, <4>1, <4>2, <4>3 DEF BackupCrash
    <3>3. CASE ~At("idle") /\ ~BackingUp("worker")
      <4>1. This \in Restore /\ restore[This].from \in BRun BY <1>0, <3>3 DEF ExecFit, At, This
      <4>2. restore'[This].from \in BRun BY <2>1, <4>1 DEF Remembered
      <4>3. [kind |-> "restore", id |-> This] \in KnownJobs'
        BY <1>7, <4>1, <4>2 DEF KnownJobs, BackupCrash
      <4> QED BY <1>7, <3>3, <4>1, <4>3 DEF BackupCrash
    <3> QED BY <3>1, <3>2, <3>3
  <2>7. bjobs' \in Seq(KnownJobs')
    <3>1. \A y \in KnownJobs' : <<y>> \in Seq(KnownJobs') OBVIOUS
    <3> QED BY <2>5, <2>6, <3>1, ConcatProperties
  <2> QED BY <1>0, <2>1, <2>3, <2>4, <2>7 DEF BackupTyped
<1> QED
  BY <1>1, <1>2, <1>3, <1>4, <1>5, <1>6, <1>7 DEF BackupNext, Asking

(* Runs, restores, jobs and executors stay in their types, however many    *)
(* backups and restores are asked for, fail, or are taken again.           *)
THEOREM BackupTypesCorrect == BackupSpec => []BackupTypeOK
<1>1. BackupTyped => BackupTypeOK
  <2> SUFFICES ASSUME BackupTyped PROVE BackupTypeOK OBVIOUS
  <2>1. KnownJobs \subseteq [kind : {"backup"}, id : BRun] \cup [kind : {"restore"}, id : Restore]
    BY DEF KnownJobs, AskedRuns
  <2>2. bjobs \in Seq([kind : {"backup"}, id : BRun] \cup [kind : {"restore"}, id : Restore])
    BY <2>1, MoreJobs DEF BackupTyped
  <2> QED BY <2>2 DEF BackupTypeOK, BackupTyped, ColumnsTyped, Files, Backups, Restores, Execs, ExecAt
<1> QED BY <1>1, BackupTypedInit, BackupTypedStep, PTL DEF BackupSpec

-----------------------------------------------------------------------------
(* Backup: who has a file.                                                 *)

(* A run has a file that its row names, that is being finished for it, or  *)
(* that is about to be purged for it; a dump has the one it writes.        *)
Owns(r, f) ==
  \/ brun[r].file = f
  \/ \E e \in Executor : \/ Finishing(e) /\ exec[e].id = r /\ exec[e].file = f
                         \/ <<r, f>> \in exec[e].stale
Writes(e, f) == Writing(e) /\ exec[e].file = f

(* A file that no two dumps have taken belongs to one of them.             *)
FilesApart ==
  \A f \in Files \ shared :
    /\ \A r, x \in BRun : Owns(r, f) /\ Owns(x, f) => r = x
    /\ \A e \in Executor, r \in BRun : ~(Writes(e, f) /\ Owns(r, f))
    /\ \A e, o \in Executor : Writes(e, f) /\ Writes(o, f) => e = o

(* Such a file has what has been written.                                  *)
DumpsFit ==
  \A e \in Executor : exec[e].file \notin shared =>
    /\ exec[e].at = "copying" => disk[exec[e].file] = Partial
    /\ exec[e].at = "stored" => disk[exec[e].file] = exec[e].read

(* A step that begins no dump: what is had afterwards was had before, or   *)
(* passes from the dump that e writes to its run.                          *)
LEMMA ApartStays ==
  ASSUME FilesApart, shared \subseteq shared',
         \A r \in BRun, f \in Files : Owns(r, f)' =>
           Owns(r, f) \/ \E e \in Executor : Writes(e, f) /\ exec[e].id = r /\ ~Writes(e, f)',
         \A e \in Executor, f \in Files : Writes(e, f)' => Writes(e, f)
  PROVE  FilesApart'
<1> SUFFICES ASSUME NEW f \in Files \ shared'
             PROVE  /\ \A r, x \in BRun : Owns(r, f)' /\ Owns(x, f)' => r = x
                    /\ \A e \in Executor, r \in BRun : ~(Writes(e, f)' /\ Owns(r, f)')
                    /\ \A e, o \in Executor : Writes(e, f)' /\ Writes(o, f)' => e = o
  BY DEF FilesApart
<1>1. f \in Files \ shared OBVIOUS
<1> QED BY <1>1 DEF FilesApart

(* What the steps of a backup make of the files that are had.              *)
Passes ==
  /\ \A r \in BRun, f \in Files : Owns(r, f)' =>
       Owns(r, f) \/ \E e \in Executor : Writes(e, f) /\ exec[e].id = r /\ ~Writes(e, f)'
  /\ \A e \in Executor, f \in Files : Writes(e, f)' => Writes(e, f)

LEMMA DumpingPasses ==
  ASSUME BackupTyped, NEW e \in Executor, Dumping(e)
  PROVE  Passes
<1> USE DEF Owns, Writes, Writing, Finishing
<1>0. /\ exec \in [Executor -> Execs] /\ exec[e] \in Execs /\ ExecFit(e)
      /\ brun \in [BRun -> Backups] /\ exec[e].file \in 0..MaxSecond
      /\ (BackingUp(e) => exec[e].id \in BRun)
      /\ 0 \notin Files
  BY FilesAreNumbers DEF BackupTyped, ColumnsTyped, ExecFit, Execs
<1>1. \A o \in Executor \ {e} : exec'[o] = exec[o] BY DumpingPlaces
<1>2. CASE OpenDump(e)
  <2>1. /\ exec[e].at = "created" /\ exec'[e].at = "copying" /\ exec'[e].id = exec[e].id
        /\ exec'[e].file = exec[e].file /\ exec'[e].stale = exec[e].stale /\ brun' = brun
    BY <1>0, <1>2 DEF OpenDump, Execs
  <2> QED BY <1>1, <2>1 DEF Passes
<1>3. CASE CloseDump(e)
  <2>1. /\ exec[e].at = "copying" /\ exec'[e].at = "stored" /\ exec'[e].id = exec[e].id
        /\ exec'[e].file = exec[e].file /\ exec'[e].stale = exec[e].stale /\ brun' = brun
    BY <1>0, <1>3 DEF CloseDump, Step, Execs
  <2> QED BY <1>1, <2>1 DEF Passes
<1>4. CASE BackupFails(e)
  <2>1. exec'[e] = IdleExec BY <1>0, <1>4 DEF BackupFails
  <2>2. /\ exec[e].id \in BRun /\ (\A x \in BRun \ {exec[e].id} : brun'[x] = brun[x])
        /\ \/ brun'[exec[e].id].file = 0
           \/ /\ exec[e].at \in {"stored", "saved", "purging", "unlinked"}
              /\ brun'[exec[e].id].file = exec[e].file
    <3>1. PICK path \in {0, exec[e].file} :
            /\ exec[e].at \in {"created", "copying"} => path = 0
            /\ brun' = [brun EXCEPT ![exec[e].id].status = "error", ![exec[e].id].file = path]
      BY <1>4 DEF BackupFails
    <3>2. exec[e].at \in {"created", "copying", "stored", "saved", "purging", "unlinked"}
      BY <1>4 DEF BackupFails
    <3>3. exec[e].id \in BRun BY <1>0, <3>2 DEF BackingUp
    <3> QED BY <1>0, <3>1, <3>2, <3>3 DEF Backups
  <2>3. exec'[e].at = "idle" /\ exec'[e].stale = {} BY <2>1 DEF IdleExec
  <2> QED BY <1>0, <1>1, <2>2, <2>3 DEF Passes
<1>5. ASSUME NEW keepFile \in BOOLEAN, SaveSuccess(e, keepFile) PROVE Passes
  <2> DEFINE kept == IF keepFile THEN exec[e].file ELSE 0
             X == [exec[e] EXCEPT !.at = "saved", !.file = kept, !.read = 0]
  <2>1. exec[e].at = "stored" /\ exec[e].stale = {} /\ exec[e].id \in BRun
    BY <1>0, <1>5 DEF SaveSuccess, ExecFit, BackingUp
  <2>2. exec' = [exec EXCEPT ![e] = X] \/ exec' = [exec EXCEPT ![e] = IdleExec]
    BY <1>5 DEF SaveSuccess
  <2>3. X.at = "saved" /\ X.id = exec[e].id /\ X.stale = exec[e].stale /\ X.file = kept
    BY <1>0 DEF Execs
  <2>4. \/ /\ exec'[e].at = "saved" /\ exec'[e].id = exec[e].id
           /\ exec'[e].stale = {} /\ exec'[e].file = kept
        \/ exec'[e].at = "idle" /\ exec'[e].stale = {}
    <3> HIDE DEF X, kept
    <3>1. exec'[e] = X \/ exec'[e] = IdleExec BY <1>0, <2>2
    <3> QED BY <2>1, <2>3, <3>1 DEF IdleExec
  <2>5. (\A x \in BRun \ {exec[e].id} : brun'[x] = brun[x]) /\ brun'[exec[e].id].file = kept
    BY <1>0, <1>5, <2>1 DEF SaveSuccess, Backups
  <2>6. kept \in {0, exec[e].file} OBVIOUS
  <2> HIDE DEF kept, X
  <2> QED BY <1>0, <1>1, <2>1, <2>4, <2>5, <2>6 DEF Passes
<1>6. CASE MarkSchedule(e)
  <2>1. exec[e].at = "saved" /\ brun' = brun /\ Purging(e, Stale) BY <1>6 DEF MarkSchedule
  <2>2. \A r, f : <<r, f>> \in Stale => brun[r].file = f BY DEF Stale, Beyond
  <2>3. \/ /\ exec'[e].at = "purging" /\ exec'[e].stale = Stale
           /\ exec'[e].id = exec[e].id /\ exec'[e].file = exec[e].file
        \/ exec'[e].at = "idle" /\ exec'[e].stale = {}
    <3>1. CASE Stale = {} BY <1>0, <2>1, <3>1 DEF Purging, IdleExec
    <3>2. CASE Stale # {} BY <1>0, <2>1, <3>2 DEF Purging, Execs
    <3> QED BY <3>1, <3>2
  <2> QED BY <1>1, <2>1, <2>2, <2>3 DEF Passes
<1>7. CASE PurgeUnlink(e)
  <2>1. /\ exec[e].at = "purging" /\ exec'[e].at = "unlinked" /\ exec'[e].id = exec[e].id
        /\ exec'[e].file = exec[e].file /\ exec'[e].stale = exec[e].stale /\ brun' = brun
    BY <1>0, <1>7 DEF PurgeUnlink, Step, Execs
  <2> QED BY <1>1, <2>1 DEF Passes
<1>8. CASE PurgeSave(e)
  <2> DEFINE S == exec[e].stale \ {NextStale(e)}
  <2>1. exec[e].at = "unlinked" /\ Purging(e, S) BY <1>8 DEF PurgeSave
  <2>2. \A x \in BRun : brun'[x].file \in {0, brun[x].file} BY <1>0, <1>8 DEF PurgeSave, Backups
  <2>3. \/ /\ exec'[e].at = "purging" /\ exec'[e].stale = S
           /\ exec'[e].id = exec[e].id /\ exec'[e].file = exec[e].file
        \/ exec'[e].at = "idle" /\ exec'[e].stale = {}
    <3>1. CASE S = {} BY <1>0, <2>1, <3>1 DEF Purging, IdleExec
    <3>2. CASE S # {} BY <1>0, <2>1, <3>2 DEF Purging, Execs
    <3> QED BY <3>1, <3>2
  <2> QED BY <1>0, <1>1, <2>1, <2>2, <2>3 DEF Passes
<1> QED BY <1>2, <1>3, <1>4, <1>5, <1>6, <1>7, <1>8 DEF Dumping

LEMMA RestPasses ==
  ASSUME BackupTyped, Asking \/ Restoring \/ BackupCrash
  PROVE  Passes
<1> USE DEF Owns, Writes, Writing, Finishing
<1>0. /\ exec \in [Executor -> Execs] /\ brun \in [BRun -> Backups] /\ 0 \notin Files
  BY FilesAreNumbers DEF BackupTyped, ColumnsTyped
<1>1. CASE Asking
  <2>1. exec' = exec BY <1>1, AskingColumns DEF BackupTyped
  <2>2. \A r \in BRun : brun'[r].file \in {0, brun[r].file}
    <3>1. ASSUME NEW r \in BRun, NEW ofSchedule \in BOOLEAN, EnqueueBackup(r, ofSchedule)
          PROVE  \A x \in BRun : brun'[x].file \in {0, brun[x].file}
      BY <1>0, <3>1 DEF EnqueueBackup, Running, Unused
    <3>2. ASSUME NEW r \in BRun, DeleteRow(r)
          PROVE  \A x \in BRun : brun'[x].file \in {0, brun[x].file}
      BY <1>0, <3>2 DEF DeleteRow, Backups
    <3> QED
      BY <1>1, <3>1, <3>2 DEF Asking, NextSecond, NextSlot, DeleteUnlink, EnqueueRestore, CancelRestore
  <2> QED BY <1>0, <2>1, <2>2 DEF Passes
<1>2. CASE Restoring
  <2>1. brun' = brun BY <1>2 DEF Restoring, ResolveGone, Resolve, Truncate, CopyIn, RestoreFails, RestoreHangs
  <2>2. /\ \A o \in Executor \ {"worker"} : exec'[o] = exec[o]
        /\ ~BackingUp("worker")' /\ ExecFit("worker")'
    BY <1>2, RestoringPlaces
  <2>3. exec'["worker"].stale = {} BY <2>2 DEF ExecFit, BackingUp
  <2> QED BY <2>1, <2>2, <2>3 DEF Passes, BackingUp
<1>3. CASE BackupCrash
  <2>1. brun' = brun /\ \A e \in Executor : exec'[e] = IdleExec BY <1>3 DEF BackupCrash
  <2>2. \A e \in Executor : exec'[e].at = "idle" /\ exec'[e].stale = {} BY <2>1 DEF IdleExec
  <2> QED BY <2>1, <2>2 DEF Passes
<1> QED BY <1>1, <1>2, <1>3

(* A dump that begins takes a file nobody has, or one that is then shared. *)
LEMMA TakenApart ==
  ASSUME BackupTyped, FilesApart, NEW e \in Executor, NEW r, Executing(e, r), exec[e].at = "idle",
         \A x \in BRun : brun'[x].file \in {0, brun[x].file}
  PROVE  FilesApart' /\ shared \subseteq shared'
<1> USE DEF Writing, Finishing
<1>0. /\ exec \in [Executor -> Execs] /\ 0 \notin Files /\ shared \subseteq Files
      /\ Other(e) \in Executor /\ Other(e) # e /\ \A o \in Executor : o = e \/ o = Other(e)
  BY FilesAreNumbers, ExecutorsDiffer DEF BackupTyped, ColumnsTyped
<1>1. /\ exec'[e].at = "created" /\ exec'[e].file = second /\ exec'[e].stale = {}
      /\ exec'[Other(e)] = exec[Other(e)]
  BY <1>0 DEF Executing, IdleExec
<1>2. shared \subseteq shared' BY DEF Executing
<1>3. \A x \in BRun, f \in Files : Owns(x, f)' => Owns(x, f)
  BY <1>0, <1>1 DEF Owns
<1>4. exec[e].stale = {} /\ ~Writing(e) /\ ~Finishing(e) BY DEF BackupTyped, ExecFit
<1>5. \A f \in Files \ shared' : Writes(e, f)' => ~Writes(Other(e), f) /\ \A x \in BRun : ~Owns(x, f)
  <2> SUFFICES ASSUME second \notin shared'
               PROVE  ~Writes(Other(e), second) /\ \A x \in BRun : ~Owns(x, second)
    BY <1>1 DEF Writes
  <2>1. /\ exec[Other(e)].file # second /\ (\A x \in BRun : brun[x].file # second)
        /\ \A s \in exec[Other(e)].stale : s[2] # second
    <3> DEFINE Taken == \/ exec[Other(e)].file = second
                        \/ \E x \in BRun : brun[x].file = second
                        \/ \E s \in exec[Other(e)].stale : s[2] = second
    <3>1. shared' = IF Taken THEN shared \cup {second} ELSE shared BY DEF Executing
    <3>2. ~Taken
      <4> HIDE DEF Taken
      <4> QED BY <3>1
    <3> QED BY <3>2, Zenon
  <2>2. \A x \in BRun : <<x, second>> \notin exec[Other(e)].stale
    <3> SUFFICES ASSUME NEW x \in BRun, <<x, second>> \in exec[Other(e)].stale PROVE FALSE
      OBVIOUS
    <3>1. <<x, second>>[2] # second BY <2>1
    <3> QED BY <3>1
  <2> QED BY <1>0, <1>4, <2>1, <2>2 DEF Writes, Owns
<1>6. \A f \in Files : Writes(Other(e), f)' <=> Writes(Other(e), f) BY <1>1 DEF Writes
<1> SUFFICES ASSUME NEW f \in Files \ shared'
             PROVE  /\ \A x, y \in BRun : Owns(x, f)' /\ Owns(y, f)' => x = y
                    /\ \A o \in Executor, x \in BRun : ~(Writes(o, f)' /\ Owns(x, f)')
                    /\ \A o, p \in Executor : Writes(o, f)' /\ Writes(p, f)' => o = p
  BY <1>2 DEF FilesApart
<1>7. f \in Files \ shared BY <1>2
<1>8. \A x, y \in BRun : Owns(x, f)' /\ Owns(y, f)' => x = y BY <1>3, <1>7 DEF FilesApart
<1>9. \A o \in Executor, x \in BRun : ~(Writes(o, f)' /\ Owns(x, f)')
  BY <1>0, <1>3, <1>5, <1>6, <1>7 DEF FilesApart
<1>10. \A o, p \in Executor : Writes(o, f)' /\ Writes(p, f)' => o = p
  BY <1>0, <1>5, <1>6
<1> QED BY <1>8, <1>9, <1>10

LEMMA FilesApartStep ==
  BackupTyped /\ FilesApart /\ [BackupNext]_backupVars => FilesApart' /\ shared \subseteq shared'
<1> SUFFICES ASSUME BackupTyped, FilesApart, [BackupNext]_backupVars
             PROVE  FilesApart' /\ shared \subseteq shared'
  OBVIOUS
<1>1. CASE UNCHANGED backupVars
  BY <1>1 DEF backupVars, FilesApart, Owns, Writes, Writing, Finishing
<1>2. CASE Asking \/ Restoring \/ BackupCrash \/ \E e \in Executor : Dumping(e)
  <2>1. Passes BY <1>2, RestPasses, DumpingPasses
  <2>2. shared' = shared
    BY <1>2 DEF Asking, NextSecond, NextSlot, EnqueueBackup, DeleteUnlink, DeleteRow, EnqueueRestore,
      CancelRestore, Restoring, ResolveGone, Resolve, Truncate, CopyIn, RestoreFails, RestoreHangs,
      BackupCrash, Dumping, OpenDump, CloseDump, BackupFails, SaveSuccess, MarkSchedule,
      PurgeUnlink, PurgeSave
  <2> QED BY <2>1, <2>2, ApartStays DEF Passes
<1>3. ASSUME NEW r \in BRun, CronStarts(r) PROVE FilesApart' /\ shared \subseteq shared'
  <2>1. \A x \in BRun : brun'[x].file \in {0, brun[x].file}
    BY <1>3 DEF CronStarts, BackupTyped, ColumnsTyped, Running, Unused
  <2> QED BY <1>3, <2>1, TakenApart DEF CronStarts, Executor
<1>4. CASE WorkerTakes
  <2>1. CASE exec' = exec /\ shared' = shared
    BY <1>4, <2>1 DEF WorkerTakes, FilesApart, Owns, Writes, Writing, Finishing
  <2>2. CASE Executing("worker", Job.id)
    BY <1>4, <2>2, TakenApart DEF WorkerTakes, Executor
  <2>3. CASE /\ exec' = [exec EXCEPT !["worker"] = [IdleExec EXCEPT !.at = "resolve", !.id = Job.id]]
             /\ shared' = shared
    <3>1. "worker" \in Executor /\ exec \in [Executor -> Execs] BY DEF Executor, BackupTyped, ColumnsTyped
    <3>2. /\ exec'["worker"].at = "resolve" /\ exec'["worker"].stale = {}
          /\ \A o \in Executor \ {"worker"} : exec'[o] = exec[o]
      BY <2>3, <3>1 DEF IdleExec
    <3>3. brun' = brun BY <1>4 DEF WorkerTakes
    <3>4. \A x, f : Owns(x, f)' => Owns(x, f) BY <3>2, <3>3 DEF Owns, Finishing
    <3>5. \A o \in Executor, f \in Files : Writes(o, f)' => Writes(o, f) BY <3>2 DEF Writes, Writing
    <3> QED BY <2>3, <3>4, <3>5, ApartStays
  <2> QED BY <1>4, <2>1, <2>2, <2>3 DEF WorkerTakes
<1> QED BY <1>1, <1>2, <1>3, <1>4 DEF BackupNext, Asking
-----------------------------------------------------------------------------
(* Backup: what the files hold.                                            *)

(* A file changes by the dump that writes it, or when it is taken away     *)
(* from a run that is torn or fails.                                       *)
FilesKept ==
  \A f \in Files : disk'[f] # disk[f] =>
    \/ \E e \in Executor : Writes(e, f) /\ exec'[e].at # exec[e].at
    \/ \E r \in BRun : Owns(r, f) /\ (r \in torn' \/ brun'[r].status = "error")

(* A run keeps what it has, unless a dump of its own succeeds. *)
RunsKept ==
  \A r \in BRun : r \notin torn' /\ brun'[r].status = "success" /\ brun'[r].file # 0 =>
    \/ brun'[r] = brun[r] /\ r \notin torn
    \/ \E e \in Executor :
         /\ exec[e].at = "stored" /\ exec[e].id = r
         /\ brun'[r].file = exec[e].file /\ brun'[r].read = exec[e].read /\ disk' = disk

(* A dump goes on by OpenDump and CloseDump. *)
DumpsGoOn ==
  \A e \in Executor : exec'[e].at \in {"copying", "stored"} =>
    exec'[e] = exec[e] \/ OpenDump(e) \/ CloseDump(e)

LEMMA UnlinkedKeeps ==
  ASSUME ColumnsTyped, NEW f \in 0..MaxSecond, NEW g \in Files, Unlinked(f)[g] # disk[g]
  PROVE  f = g
BY DEF Unlinked, ColumnsTyped

LEMMA DumpingKeeps ==
  ASSUME BackupTyped, NEW e \in Executor, Dumping(e)
  PROVE  FilesKept /\ RunsKept /\ DumpsGoOn
<1>0. /\ exec \in [Executor -> Execs] /\ exec[e] \in Execs /\ ExecFit(e)
      /\ brun \in [BRun -> Backups] /\ disk \in [Files -> Contents \cup {Gone, Partial, Garbled}]
      /\ exec[e].file \in 0..MaxSecond /\ exec[e].id \in BRun
      /\ 0 \notin Files /\ torn \subseteq BRun
  BY FilesAreNumbers, DumpingPlaces DEF BackupTyped, ColumnsTyped, ExecFit, Execs
<1>1. \A o \in Executor \ {e} : exec'[o] = exec[o] BY DumpingPlaces
<1>2. CASE OpenDump(e)
  <2>1. exec[e].at = "created" /\ exec'[e].at = "copying" BY <1>0, <1>2 DEF OpenDump, Execs
  <2>2. \A f \in Files : disk'[f] # disk[f] => f = exec[e].file BY <1>0, <1>2 DEF OpenDump
  <2>3. FilesKept BY <2>1, <2>2 DEF FilesKept, Writes, Writing
  <2>4. RunsKept BY <1>2 DEF OpenDump, RunsKept
  <2> QED BY <1>1, <1>2, <2>3, <2>4 DEF DumpsGoOn
<1>3. CASE CloseDump(e)
  <2>1. exec[e].at = "copying" /\ exec'[e].at = "stored" BY <1>0, <1>3 DEF CloseDump, Step, Execs
  <2>2. \A f \in Files : disk'[f] # disk[f] => f = exec[e].file BY <1>0, <1>3 DEF CloseDump
  <2>3. FilesKept BY <2>1, <2>2 DEF FilesKept, Writes, Writing
  <2>4. RunsKept BY <1>3 DEF CloseDump, RunsKept
  <2> QED BY <1>1, <1>3, <2>3, <2>4 DEF DumpsGoOn
<1>4. CASE BackupFails(e)
  <2>1. exec'[e].at = "idle" BY <1>0, <1>4 DEF BackupFails, IdleExec
  <2>2. exec[e].at \in {"created", "copying", "stored", "saved", "purging", "unlinked"}
    BY <1>4 DEF BackupFails
  <2>3. /\ \A x \in BRun \ {exec[e].id} : brun'[x] = brun[x]
        /\ brun'[exec[e].id].status = "error"
    BY <1>0, <1>4 DEF BackupFails, Backups
  <2>4. \A f \in Files : disk'[f] # disk[f] => f = exec[e].file
    BY <1>0, <1>4, UnlinkedKeeps DEF BackupFails, BackupTyped
  <2>5. FilesKept BY <1>0, <2>1, <2>2, <2>3, <2>4 DEF FilesKept, Writes, Writing, Owns, Finishing
  <2>6. RunsKept BY <1>4, <2>3 DEF BackupFails, RunsKept
  <2> QED BY <1>1, <2>1, <2>5, <2>6 DEF DumpsGoOn
<1>5. ASSUME NEW keepFile \in BOOLEAN, SaveSuccess(e, keepFile) PROVE FilesKept /\ RunsKept /\ DumpsGoOn
  <2> DEFINE X == [exec[e] EXCEPT !.at = "saved", !.file = IF keepFile THEN exec[e].file ELSE 0, !.read = 0]
  <2>1. exec[e].at = "stored" BY <1>5 DEF SaveSuccess
  <2>2. exec'[e].at \in {"saved", "idle"}
    <3>1. exec'[e] = X \/ exec'[e] = IdleExec BY <1>0, <1>5 DEF SaveSuccess
    <3>2. X.at = "saved" BY <1>0 DEF Execs
    <3> HIDE DEF X
    <3> QED BY <3>1, <3>2 DEF IdleExec
  <2>3. \A f \in Files : disk'[f] # disk[f] => f = exec[e].file
    BY <1>0, <1>5, UnlinkedKeeps DEF SaveSuccess, BackupTyped
  <2>4. FilesKept BY <2>1, <2>2, <2>3 DEF FilesKept, Writes, Writing
  <2>5. /\ torn' = torn /\ \A x \in BRun \ {exec[e].id} : brun'[x] = brun[x]
        /\ brun'[exec[e].id].file # 0 =>
             /\ brun'[exec[e].id].file = exec[e].file /\ brun'[exec[e].id].read = exec[e].read
             /\ disk' = disk
    BY <1>0, <1>5 DEF SaveSuccess, Backups
  <2>6. RunsKept BY <2>1, <2>5 DEF RunsKept
  <2> QED BY <1>1, <2>2, <2>4, <2>6 DEF DumpsGoOn
<1>6. ASSUME NEW S, Purging(e, S) PROVE exec'[e].at \in {"idle", "purging"}
  BY <1>0, <1>6 DEF Purging, IdleExec, Execs
<1>7. CASE MarkSchedule(e)
  <2>1. exec'[e].at \in {"idle", "purging"} BY <1>6, <1>7 DEF MarkSchedule
  <2> QED BY <1>1, <1>7, <2>1 DEF MarkSchedule, FilesKept, RunsKept, DumpsGoOn
<1>8. CASE PurgeUnlink(e)
  <2>1. exec'[e].at = "unlinked" BY <1>0, <1>8 DEF PurgeUnlink, Step, Execs
  <2>2. NextStale(e) \in exec[e].stale /\ NextStale(e) \in BRun \X Files
    BY <1>0, <1>8, NextStaleFits DEF PurgeUnlink, ExecFit, Execs
  <2> DEFINE r == NextStale(e)[1]
             g == NextStale(e)[2]
  <2>3. r \in BRun /\ g \in 0..MaxSecond /\ NextStale(e) = <<r, g>> BY <2>2, FilesAreNumbers
  <2>4. Owns(r, g) /\ r \in torn' BY <1>8, <2>2, <2>3 DEF Owns, PurgeUnlink
  <2>5. \A f \in Files : disk'[f] # disk[f] => f = g
    BY <1>8, <2>3, UnlinkedKeeps DEF PurgeUnlink, BackupTyped
  <2>6. FilesKept BY <2>3, <2>4, <2>5 DEF FilesKept
  <2>7. RunsKept BY <1>8 DEF PurgeUnlink, RunsKept
  <2> QED BY <1>1, <2>1, <2>6, <2>7 DEF DumpsGoOn
<1>9. CASE PurgeSave(e)
  <2>1. exec'[e].at \in {"idle", "purging"} BY <1>6, <1>9 DEF PurgeSave
  <2>2. NextStale(e)[1] \in BRun BY <1>0, <1>9, NextStaleFits DEF PurgeSave, ExecFit, Execs
  <2>3. /\ brun'[NextStale(e)[1]].file = 0 /\ \A x \in BRun \ {NextStale(e)[1]} : brun'[x] = brun[x]
        /\ torn' = torn \ {NextStale(e)[1]} /\ disk' = disk
    BY <1>0, <1>9, <2>2 DEF PurgeSave, Backups
  <2> QED BY <1>1, <2>1, <2>2, <2>3 DEF FilesKept, RunsKept, DumpsGoOn
<1> QED BY <1>2, <1>3, <1>4, <1>5, <1>7, <1>8, <1>9 DEF Dumping

LEMMA RestKeeps ==
  ASSUME BackupTyped,
         Asking \/ Restoring \/ BackupCrash \/ WorkerTakes \/ \E r \in BRun : CronStarts(r)
  PROVE  FilesKept /\ RunsKept /\ DumpsGoOn
<1>0. /\ exec \in [Executor -> Execs] /\ brun \in [BRun -> Backups] /\ ColumnsTyped
      /\ "worker" \in Executor /\ "cron" \in Executor
  BY DEF BackupTyped, ColumnsTyped, Executor
<1>1. CASE Asking
  <2>1. DumpsGoOn BY <1>0, <1>1, AskingColumns DEF DumpsGoOn
  <2>2. ASSUME NEW r \in BRun, DeleteUnlink(r) PROVE FilesKept /\ RunsKept
    <3>1. brun[r].file \in 0..MaxSecond BY <1>0 DEF Backups
    <3>2. \A f \in Files : disk'[f] # disk[f] => f = brun[r].file
      BY <1>0, <2>2, <3>1, UnlinkedKeeps DEF DeleteUnlink
    <3>3. r \in torn' /\ torn \subseteq torn' /\ brun' = brun BY <2>2 DEF DeleteUnlink
    <3> QED BY <3>2, <3>3 DEF FilesKept, RunsKept, Owns
  <2>3. ASSUME NEW r \in BRun, DeleteRow(r) PROVE FilesKept /\ RunsKept
    BY <1>0, <2>3 DEF DeleteRow, FilesKept, RunsKept, Backups
  <2>4. ASSUME NEW r \in BRun, NEW ofSchedule \in BOOLEAN, EnqueueBackup(r, ofSchedule)
        PROVE  FilesKept /\ RunsKept
    BY <1>0, <2>4 DEF EnqueueBackup, FilesKept, RunsKept, Running, Unused
  <2> QED
    BY <1>1, <2>1, <2>2, <2>3, <2>4
    DEF Asking, NextSecond, NextSlot, EnqueueRestore, CancelRestore, FilesKept, RunsKept
<1>2. CASE Restoring
  <2>1. brun' = brun /\ disk' = disk /\ torn' = torn
    BY <1>2 DEF Restoring, ResolveGone, Resolve, Truncate, CopyIn, RestoreFails, RestoreHangs
  <2>2. exec'["cron"] = exec["cron"] /\ ~BackingUp("worker")' BY <1>0, <1>2, RestoringPlaces
  <2> QED BY <2>1, <2>2 DEF FilesKept, RunsKept, DumpsGoOn, Executor, BackingUp, Writing
<1>3. CASE BackupCrash
  BY <1>3 DEF BackupCrash, FilesKept, RunsKept, DumpsGoOn, IdleExec
<1>4. ASSUME NEW e \in Executor, NEW r, Executing(e, r) PROVE DumpsGoOn
  <2>1. exec'[e].at = "created" /\ \A o \in Executor \ {e} : exec'[o] = exec[o]
    BY <1>0, <1>4 DEF Executing, IdleExec
  <2> QED BY <2>1 DEF DumpsGoOn
<1>5. ASSUME NEW r \in BRun, CronStarts(r) PROVE FilesKept /\ RunsKept /\ DumpsGoOn
  <2>1. DumpsGoOn BY <1>0, <1>4, <1>5 DEF CronStarts
  <2> QED BY <1>0, <1>5, <2>1 DEF CronStarts, FilesKept, RunsKept, Running, Unused
<1>6. CASE WorkerTakes
  <2>1. \/ exec' = exec \/ Executing("worker", Job.id)
        \/ exec' = [exec EXCEPT !["worker"] = [IdleExec EXCEPT !.at = "resolve", !.id = Job.id]]
    BY <1>6 DEF WorkerTakes
  <2>2. DumpsGoOn BY <1>0, <1>4, <2>1 DEF DumpsGoOn, IdleExec
  <2> QED BY <1>6, <2>2 DEF WorkerTakes, FilesKept, RunsKept
<1> QED BY <1>1, <1>2, <1>3, <1>5, <1>6

LEMMA StepsKeep == BackupTyped /\ [BackupNext]_backupVars => FilesKept /\ RunsKept /\ DumpsGoOn
<1> SUFFICES ASSUME BackupTyped, [BackupNext]_backupVars PROVE FilesKept /\ RunsKept /\ DumpsGoOn
  OBVIOUS
<1>1. CASE UNCHANGED backupVars
  BY <1>1 DEF backupVars, FilesKept, RunsKept, DumpsGoOn
<1> QED BY <1>1, RestKeeps, DumpingKeeps DEF BackupNext, Asking

WholeInv == BackupTyped /\ FilesApart /\ DumpsFit /\ ArtifactsWhole

LEMMA WholeInit == BackupInit => WholeInv
<1> SUFFICES ASSUME BackupInit PROVE WholeInv OBVIOUS
<1>1. /\ \A r \in BRun : brun[r].file = 0 /\ brun[r].status = "none"
      /\ \A e \in Executor : exec[e].at = "idle" /\ exec[e].stale = {}
  BY DEF BackupInit, Unused, IdleExec
<1>2. 0 \notin Files BY FilesAreNumbers
<1> QED
  BY <1>1, <1>2, BackupTypedInit
  DEF WholeInv, FilesApart, DumpsFit, ArtifactsWhole, Owns, Writes, Writing, Finishing

LEMMA WholeStep == WholeInv /\ [BackupNext]_backupVars => WholeInv'
<1> SUFFICES ASSUME WholeInv, [BackupNext]_backupVars PROVE WholeInv' OBVIOUS
<1>1. BackupTyped' BY BackupTypedStep DEF WholeInv
<1>2. FilesApart' /\ shared \subseteq shared' BY FilesApartStep DEF WholeInv
<1>3. FilesKept /\ RunsKept /\ DumpsGoOn BY StepsKeep DEF WholeInv
<1>4. FilesApart /\ DumpsFit /\ ArtifactsWhole BY DEF WholeInv
<1>5. /\ exec \in [Executor -> Execs] /\ brun \in [BRun -> Backups] /\ torn \subseteq BRun
      /\ disk \in [Files -> Contents \cup {Gone, Partial, Garbled}]
      /\ \A e \in Executor : ExecFit(e)
      /\ \A e \in Executor : exec[e].file \in Nat /\ (exec[e].file # 0 => exec[e].file \in Files)
  BY FilesAreNumbers DEF WholeInv, BackupTyped, ColumnsTyped, Execs, Files
<1>6. DumpsFit'
  <2> SUFFICES ASSUME NEW e \in Executor, exec'[e].file \notin shared',
                      exec'[e].at \in {"copying", "stored"}
               PROVE  /\ exec'[e].at = "copying" => disk'[exec'[e].file] = Partial
                      /\ exec'[e].at = "stored" => disk'[exec'[e].file] = exec'[e].read
    BY DEF DumpsFit
  <2> DEFINE f == exec[e].file
  <2>1. CASE exec'[e] = exec[e]
    <3>1. Writes(e, f) /\ f # 0 BY <1>5, <2>1 DEF Writes, Writing, ExecFit
    <3>2. f \in Files \ shared BY <1>2, <1>5, <2>1, <3>1
    <3>3. disk'[f] = disk[f]
      <4>1. \A o \in Executor : Writes(o, f) => o = e BY <1>4, <3>1, <3>2 DEF FilesApart
      <4>2. \A r \in BRun : ~Owns(r, f) BY <1>4, <3>1, <3>2 DEF FilesApart
      <4> QED BY <1>3, <2>1, <3>2, <4>1, <4>2 DEF FilesKept
    <3> QED BY <1>4, <2>1, <3>2, <3>3 DEF DumpsFit
  <2>2. CASE OpenDump(e)
    <3>1. exec[e].at = "created" /\ exec'[e].at = "copying" /\ exec'[e].file = f
      BY <1>5, <2>2 DEF OpenDump, Execs
    <3>2. Writes(e, f) /\ f # 0 BY <1>5, <3>1 DEF Writes, Writing, ExecFit
    <3>3. f \in Files \ shared BY <1>2, <1>5, <3>1, <3>2
    <3>4. ~(exec[Other(e)].at = "copying" /\ exec[Other(e)].file = f)
      BY <1>4, <3>2, <3>3, ExecutorsDiffer DEF FilesApart, Writes, Writing
    <3>5. disk'[f] = Partial BY <1>5, <2>2, <3>3, <3>4 DEF OpenDump
    <3> QED BY <3>1, <3>5
  <2>3. CASE CloseDump(e)
    <3>1. /\ exec[e].at = "copying" /\ exec'[e].at = "stored" /\ exec'[e].file = f
          /\ exec'[e].read = exec[e].read
      BY <1>5, <2>3 DEF CloseDump, Step, Execs
    <3>2. f # 0 BY <1>5, <3>1 DEF Writing, ExecFit
    <3>3. f \in Files \ shared BY <1>2, <1>5, <3>1, <3>2
    <3>4. disk[f] = Partial BY <1>4, <3>1, <3>3 DEF DumpsFit
    <3>5. disk'[f] = exec[e].read BY <1>5, <2>3, <3>3, <3>4 DEF CloseDump
    <3> QED BY <3>1, <3>5
  <2> QED BY <1>3, <2>1, <2>2, <2>3 DEF DumpsGoOn
<1>7. ArtifactsWhole'
  <2> SUFFICES ASSUME NEW r \in BRun, r \notin torn', brun'[r].status = "success",
                      brun'[r].file # 0, brun'[r].file \notin shared'
               PROVE  disk'[brun'[r].file] = brun'[r].read
    BY DEF ArtifactsWhole
  <2> DEFINE f == brun'[r].file
  <2>1. f \in Files \ shared
    <3>1. f \in 0..MaxSecond BY <1>1 DEF BackupTyped, ColumnsTyped, Backups
    <3> QED BY <1>2, <3>1 DEF Files
  <2>2. CASE brun'[r] = brun[r] /\ r \notin torn
    <3>1. Owns(r, f) BY <2>2 DEF Owns
    <3>2. \A e \in Executor : ~Writes(e, f) BY <1>4, <2>1, <3>1 DEF FilesApart
    <3>3. \A x \in BRun : Owns(x, f) => x = r BY <1>4, <2>1, <3>1 DEF FilesApart
    <3>4. disk'[f] = disk[f] BY <1>3, <2>1, <3>2, <3>3 DEF FilesKept
    <3>5. disk[f] = brun[r].read BY <1>4, <2>1, <2>2 DEF ArtifactsWhole
    <3> QED BY <2>2, <3>4, <3>5
  <2>3. ASSUME NEW e \in Executor, exec[e].at = "stored", f = exec[e].file,
               brun'[r].read = exec[e].read, disk' = disk
        PROVE  disk'[f] = brun'[r].read
    BY <1>4, <2>1, <2>3 DEF DumpsFit
  <2> QED BY <1>3, <2>2, <2>3 DEF RunsKept
<1> QED BY <1>1, <1>2, <1>4, <1>6, <1>7 DEF WholeInv

LEMMA WholeInvHolds == BackupSpec => []WholeInv
BY WholeInit, WholeStep, PTL DEF BackupSpec

-----------------------------------------------------------------------------
(* Backup: retention.                                                      *)

(* What is to be purged has Keep newer runs of the schedule. *)
NewerRuns(r) == {x \in BRun : x > r /\ brun[x].ofSchedule /\ brun[x].status \notin {"none"}}
StaleFit == \A e \in Executor : \A s \in exec[e].stale : Cardinality(NewerRuns(s[1])) >= Keep

(* Once the rest is left to the purges, no more than Keep have a file. *)
StaleRuns == {s[1] : s \in exec["cron"].stale \cup exec["worker"].stale}
KeptBounded ==
  bFaults = 0 /\ (\A e \in Executor : exec[e].at # "saved") => Cardinality(WithFile \ StaleRuns) <= Keep

LEMMA NewerFinite ==
  ASSUME NEW r
  PROVE  IsFiniteSet(NewerRuns(r)) /\ Cardinality(NewerRuns(r)) \in Nat
BY BackupAssumption, FS_Subset, FS_CardinalityType DEF NewerRuns

(* A run of the schedule is one for ever. *)
LEMMA NewerStay ==
  ASSUME NEW r, \A x \in BRun : brun[x].ofSchedule /\ brun[x].status # "none" =>
                                  brun'[x].ofSchedule /\ brun'[x].status # "none"
  PROVE  Cardinality(NewerRuns(r)) <= Cardinality(NewerRuns(r)')
<1>1. NewerRuns(r) \subseteq NewerRuns(r)' BY DEF NewerRuns
<1>2. IsFiniteSet(NewerRuns(r)') BY BackupAssumption, FS_Subset DEF NewerRuns
<1> QED BY <1>1, <1>2, FS_Subset

LEMMA StaleHaveNewer ==
  ASSUME ColumnsTyped, NEW s \in Stale
  PROVE  Cardinality(NewerRuns(s[1])) >= Keep
<1>1. PICK r \in WithFile : Cardinality({x \in WithFile : x > r}) >= Keep /\ s = <<r, brun[r].file>>
  BY DEF Stale, Beyond
<1>2. {x \in WithFile : x > r} \subseteq NewerRuns(r) BY DEF WithFile, NewerRuns
<1>3. /\ Cardinality({x \in WithFile : x > r}) <= Cardinality(NewerRuns(r))
      /\ Cardinality({x \in WithFile : x > r}) \in Nat
  BY <1>2, NewerFinite, FS_Subset, FS_CardinalityType
<1> QED BY <1>1, <1>3, NewerFinite, BackupAssumption

(* At most Keep of some runs have fewer than Keep newer ones. *)
LEMMA NewestAreFew ==
  ASSUME NEW S \in SUBSET BRun
  PROVE  LET T == {r \in S : Cardinality({x \in S : x > r}) < Keep}
         IN  IsFiniteSet(T) /\ Cardinality(T) <= Keep
<1> DEFINE After(r) == {x \in S : x > r}
           T == {r \in S : Cardinality(After(r)) < Keep}
           rank == [r \in T |-> Cardinality(After(r))]
<1>1. BRun \subseteq Nat /\ IsFiniteSet(S) /\ Keep \in Nat \ {0} BY BackupAssumption, FS_Subset
<1>2. \A r \in S : After(r) \subseteq S /\ IsFiniteSet(After(r)) /\ Cardinality(After(r)) \in Nat
  BY <1>1, FS_Subset, FS_CardinalityType
<1>3. ASSUME NEW r \in T, NEW y \in T, r < y PROVE rank[r] # rank[y]
  <2>1. After(y) \subseteq After(r) /\ y \in After(r) /\ y \notin After(y)
    <3>1. r \in Nat /\ y \in Nat /\ y \in S BY <1>1
    <3>2. \A x \in S : x \in Nat BY <1>1
    <3>3. \A x \in S : x > y => x > r BY <1>3, <3>1, <3>2
    <3>4. y > r /\ ~(y > y) BY <1>3, <3>1
    <3> QED BY <3>1, <3>3, <3>4, Zenon
  <2> HIDE DEF After
  <2>2. Cardinality(After(r)) # Cardinality(After(y)) BY <1>2, <2>1, FS_Subset
  <2> QED BY <2>2
<1>4. rank \in Injection(T, 0..(Keep - 1))
  <2>1. \A r \in T : Cardinality(After(r)) \in 0..(Keep - 1)
    <3> SUFFICES ASSUME NEW r \in T PROVE Cardinality(After(r)) \in 0..(Keep - 1)
      OBVIOUS
    <3>1. r \in S /\ Cardinality(After(r)) < Keep OBVIOUS
    <3>2. Cardinality(After(r)) \in Nat BY <1>2, <3>1
    <3> HIDE DEF After, T
    <3> QED BY <1>1, <3>1, <3>2
  <2>3. rank \in [T -> 0..(Keep - 1)]
    <3> HIDE DEF After, T
    <3> QED BY <2>1
  <2>2. \A r, y \in T : rank[r] = rank[y] => r = y
    <3> HIDE DEF rank
    <3>1. \A r, y \in T : r \in Nat /\ y \in Nat BY <1>1
    <3> QED BY <1>3, <3>1
  <2> HIDE DEF rank, T
  <2> QED BY <2>2, <2>3 DEF Injection, IsInjective
<1>5. IsFiniteSet(0..(Keep - 1)) /\ Cardinality(0..(Keep - 1)) = Keep BY <1>1, FS_Interval
<1> HIDE DEF rank, T
<1>6. IsFiniteSet(T) /\ Cardinality(T) <= Keep BY <1>4, <1>5, FS_Injection
<1> QED BY <1>6 DEF T

(* What the steps of a backup make of the runs of the schedule. *)
ScheduleKept ==
  /\ \A x \in BRun : brun[x].ofSchedule /\ brun[x].status # "none" =>
                       brun'[x].ofSchedule /\ brun'[x].status # "none"
  /\ \A e \in Executor : exec'[e].stale \subseteq exec[e].stale \cup Stale
  /\ bFaults' = 0 /\ (\A e \in Executor : exec'[e].at # "saved") =>
       /\ bFaults = 0
       /\ \/ \E e \in Executor : MarkSchedule(e)
          \/ /\ \A e \in Executor : exec[e].at # "saved"
             /\ WithFile' \ StaleRuns' \subseteq WithFile \ StaleRuns

LEMMA DumpingRetention ==
  ASSUME BackupTyped, NEW e \in Executor, Dumping(e)
  PROVE  ScheduleKept
<1> USE DEF StaleRuns
<1>0. /\ exec \in [Executor -> Execs] /\ exec[e] \in Execs /\ ExecFit(e)
      /\ brun \in [BRun -> Backups] /\ exec[e].id \in BRun
      /\ bFaults \in Nat /\ "cron" \in Executor /\ "worker" \in Executor
      /\ \A o \in Executor : o = "cron" \/ o = "worker"
  BY BackupAssumption, DumpingPlaces DEF BackupTyped, ColumnsTyped, ExecFit, Executor
<1>1. \A o \in Executor \ {e} : exec'[o] = exec[o] BY DumpingPlaces
<1>2. ASSUME brun' = brun, exec'[e].stale = exec[e].stale, exec[e].at # "saved", bFaults' = bFaults
      PROVE  ScheduleKept
  <2>1. \A o \in Executor : exec'[o].stale = exec[o].stale BY <1>1, <1>2
  <2>2. WithFile' = WithFile BY <1>2 DEF WithFile
  <2>3. StaleRuns' = StaleRuns BY <1>0, <2>1
  <2>4. (\A o \in Executor : exec'[o].at # "saved") => \A o \in Executor : exec[o].at # "saved"
    BY <1>1, <1>2
  <2> HIDE DEF StaleRuns
  <2> QED BY <1>2, <2>1, <2>2, <2>3, <2>4 DEF ScheduleKept
<1>3. CASE OpenDump(e)
  BY <1>0, <1>2, <1>3 DEF OpenDump, Execs
<1>4. CASE CloseDump(e)
  BY <1>0, <1>2, <1>4 DEF CloseDump, Step, Execs
<1>5. CASE PurgeUnlink(e)
  BY <1>0, <1>2, <1>5 DEF PurgeUnlink, Step, Execs
<1>6. CASE MarkSchedule(e)
  <2>1. exec'[e].stale \subseteq Stale
    <3>1. CASE Stale = {} BY <1>0, <1>6, <3>1 DEF MarkSchedule, Purging, IdleExec
    <3>2. CASE Stale # {} BY <1>0, <1>6, <3>2 DEF MarkSchedule, Purging, Execs
    <3> QED BY <3>1, <3>2
  <2>2. brun' = brun /\ bFaults' = bFaults BY <1>6 DEF MarkSchedule
  <2> QED BY <1>1, <1>6, <2>1, <2>2 DEF ScheduleKept
<1>7. CASE BackupFails(e)
  <2>1. exec'[e] = IdleExec /\ exec'[e].stale = {} /\ exec'[e].at = "idle"
    BY <1>0, <1>7 DEF BackupFails, IdleExec
  <2>2. /\ \A x \in BRun \ {exec[e].id} : brun'[x] = brun[x]
        /\ brun'[exec[e].id].status = "error"
        /\ brun'[exec[e].id].ofSchedule = brun[exec[e].id].ofSchedule
    BY <1>0, <1>7 DEF BackupFails, Backups
  <2>3. bFaults' = 0 => bFaults = 0 /\ exec[e].at = "copying" BY <1>0, <1>7 DEF BackupFails
  <2>4. ASSUME bFaults' = 0, \A o \in Executor : exec'[o].at # "saved"
        PROVE  /\ \A o \in Executor : exec[o].at # "saved"
               /\ WithFile' \ StaleRuns' \subseteq WithFile \ StaleRuns
    <3>1. \A o \in Executor : exec[o].at # "saved" BY <1>1, <2>3, <2>4
    <3>2. exec[e].stale = {} BY <1>0, <2>3, <2>4 DEF ExecFit
    <3>3. \A o \in Executor : exec'[o].stale = exec[o].stale BY <1>1, <2>1, <3>2
    <3>4. StaleRuns' = StaleRuns BY <1>0, <3>3
    <3>5. WithFile' \subseteq WithFile BY <2>2 DEF WithFile
    <3> HIDE DEF StaleRuns
    <3> QED BY <3>1, <3>4, <3>5
  <2> HIDE DEF StaleRuns
  <2> QED BY <1>1, <2>1, <2>2, <2>3, <2>4 DEF ScheduleKept
<1>8. ASSUME NEW keepFile \in BOOLEAN, SaveSuccess(e, keepFile) PROVE ScheduleKept
  <2> DEFINE X == [exec[e] EXCEPT !.at = "saved", !.file = IF keepFile THEN exec[e].file ELSE 0, !.read = 0]
             r == exec[e].id
  <2>1. exec[e].at = "stored" /\ exec[e].stale = {} /\ bFaults' = bFaults
    BY <1>0, <1>8 DEF SaveSuccess, ExecFit
  <2>2. /\ exec'[e] = IF brun[r].ofSchedule THEN X ELSE IdleExec
        /\ X.at = "saved" /\ X.stale = {} /\ IdleExec.stale = {}
    BY <1>0, <1>8, <2>1 DEF SaveSuccess, Execs, IdleExec
  <2>3. /\ \A x \in BRun \ {r} : brun'[x] = brun[x]
        /\ brun'[r].status = "success" /\ brun'[r].ofSchedule = brun[r].ofSchedule
    BY <1>0, <1>8 DEF SaveSuccess, Backups
  <2>4. exec'[e].stale = {} /\ (brun[r].ofSchedule => exec'[e].at = "saved")
    <3> HIDE DEF X
    <3> QED BY <2>2
  <2>5. ASSUME \A o \in Executor : exec'[o].at # "saved"
        PROVE  /\ \A o \in Executor : exec[o].at # "saved"
               /\ WithFile' \ StaleRuns' \subseteq WithFile \ StaleRuns
    <3>1. \A o \in Executor : exec[o].at # "saved" BY <1>1, <2>1, <2>5
    <3>2. \A o \in Executor : exec'[o].stale = exec[o].stale BY <1>1, <2>1, <2>4
    <3>3. StaleRuns' = StaleRuns BY <1>0, <3>2
    <3>4. WithFile' \subseteq WithFile BY <2>3, <2>4, <2>5 DEF WithFile
    <3> HIDE DEF StaleRuns
    <3> QED BY <3>1, <3>3, <3>4
  <2> HIDE DEF StaleRuns
  <2> QED BY <1>1, <2>1, <2>3, <2>4, <2>5 DEF ScheduleKept
<1>9. CASE PurgeSave(e)
  <2> DEFINE S == exec[e].stale \ {NextStale(e)}
             r == NextStale(e)[1]
  <2>1. exec[e].at = "unlinked" /\ Purging(e, S) /\ bFaults' = bFaults BY <1>9 DEF PurgeSave
  <2>2. r \in BRun BY <1>0, <1>9, NextStaleFits DEF PurgeSave, ExecFit, Execs
  <2>3. /\ \A x \in BRun \ {r} : brun'[x] = brun[x]
        /\ brun'[r].status = "success" /\ brun'[r].file = 0 /\ brun'[r].ofSchedule = brun[r].ofSchedule
    BY <1>0, <1>9, <2>2 DEF PurgeSave, Backups
  <2>4. exec'[e].stale = S
    <3>1. CASE S = {} BY <1>0, <2>1, <3>1 DEF Purging, IdleExec
    <3>2. CASE S # {} BY <1>0, <2>1, <3>2 DEF Purging, Execs
    <3> QED BY <3>1, <3>2
  <2>5. WithFile' \subseteq WithFile \ {r} BY <2>3 DEF WithFile
  <2>6. StaleRuns \subseteq StaleRuns' \cup {r}
    <3>1. \A o \in Executor : \A s \in exec[o].stale : s \in exec'[o].stale \/ s = NextStale(e)
      BY <1>1, <2>4
    <3> QED BY <1>0, <3>1
  <2>7. (\A o \in Executor : exec'[o].at # "saved") => \A o \in Executor : exec[o].at # "saved"
    BY <1>1, <2>1
  <2>8. WithFile' \ StaleRuns' \subseteq WithFile \ StaleRuns
    <3> HIDE DEF StaleRuns, r
    <3> QED BY <2>5, <2>6
  <2>9. \A o \in Executor : exec'[o].stale \subseteq exec[o].stale BY <1>1, <2>4
  <2> HIDE DEF StaleRuns
  <2> QED BY <2>1, <2>3, <2>7, <2>8, <2>9 DEF ScheduleKept
<1> QED BY <1>3, <1>4, <1>5, <1>6, <1>7, <1>8, <1>9 DEF Dumping

LEMMA RestRetention ==
  ASSUME BackupTyped,
         \/ UNCHANGED backupVars \/ Asking \/ Restoring \/ BackupCrash \/ WorkerTakes
         \/ \E r \in BRun : CronStarts(r)
  PROVE  ScheduleKept
<1>0. /\ exec \in [Executor -> Execs] /\ brun \in [BRun -> Backups] /\ ColumnsTyped
      /\ "worker" \in Executor /\ "cron" \in Executor /\ bFaults \in Nat
      /\ \A e \in Executor : ExecFit(e)
      /\ \A o \in Executor : o = "cron" \/ o = "worker"
  BY BackupAssumption DEF BackupTyped, ColumnsTyped, Executor
<1>1. ASSUME bFaults' = 0 => bFaults = 0,
             \A e \in Executor : exec'[e].stale = exec[e].stale,
             (\A e \in Executor : exec'[e].at # "saved") => \A e \in Executor : exec[e].at # "saved",
             \A x \in BRun : \/ brun'[x] = brun[x]
                             \/ brun[x].status = "none" /\ brun'[x].status = "running"
                             \/ /\ brun'[x].status = "deleted"
                                /\ brun'[x].ofSchedule = brun[x].ofSchedule
      PROVE  ScheduleKept
  <2>1. WithFile' \subseteq WithFile BY <1>1 DEF WithFile
  <2>2. StaleRuns' = StaleRuns BY <1>0, <1>1 DEF StaleRuns
  <2> QED BY <1>1, <2>1, <2>2 DEF ScheduleKept
<1>2. CASE UNCHANGED backupVars BY <1>1, <1>2 DEF backupVars
<1>3. CASE Asking
  <2>1. exec' = exec BY <1>0, <1>3, AskingColumns
  <2>2. bFaults' = bFaults
    BY <1>3
    DEF Asking, NextSecond, NextSlot, EnqueueBackup, DeleteUnlink, DeleteRow, EnqueueRestore, CancelRestore
  <2>3. \A x \in BRun : \/ brun'[x] = brun[x]
                        \/ brun[x].status = "none" /\ brun'[x].status = "running"
                        \/ brun'[x].status = "deleted" /\ brun'[x].ofSchedule = brun[x].ofSchedule
    <3>1. ASSUME NEW r \in BRun, NEW ofSchedule \in BOOLEAN, EnqueueBackup(r, ofSchedule) PROVE <2>3
      BY <1>0, <3>1 DEF EnqueueBackup, Fresh, Running, Unused
    <3>2. ASSUME NEW r \in BRun, DeleteRow(r) PROVE <2>3
      BY <1>0, <3>2 DEF DeleteRow, Backups
    <3> QED
      BY <1>3, <3>1, <3>2 DEF Asking, NextSecond, NextSlot, DeleteUnlink, EnqueueRestore, CancelRestore
  <2> QED BY <1>1, <2>1, <2>2, <2>3
<1>4. CASE Restoring
  <2>1. brun' = brun /\ (bFaults' = 0 => bFaults = 0)
    BY <1>0, <1>4 DEF Restoring, ResolveGone, Resolve, Truncate, CopyIn, RestoreFails, RestoreHangs
  <2>2. /\ exec'["cron"] = exec["cron"] /\ ~BackingUp("worker") /\ ~BackingUp("worker")' /\ ExecFit("worker")'
    BY <1>0, <1>4, RestoringPlaces
  <2>3. exec["worker"].stale = {} /\ exec'["worker"].stale = {} /\ exec["worker"].at # "saved"
    BY <1>0, <2>2 DEF ExecFit, BackingUp, Finishing
  <2> QED BY <1>0, <1>1, <2>1, <2>2, <2>3
<1>5. CASE BackupCrash
  BY <1>0, <1>5 DEF BackupCrash, ScheduleKept, IdleExec
<1>6. ASSUME NEW e \in Executor, NEW r, Executing(e, r), exec[e].at = "idle"
      PROVE  /\ \A o \in Executor : exec'[o].stale = exec[o].stale
             /\ (\A o \in Executor : exec'[o].at # "saved") => \A o \in Executor : exec[o].at # "saved"
  <2>1. exec'[e].at = "created" /\ exec'[e].stale = {} /\ \A o \in Executor \ {e} : exec'[o] = exec[o]
    BY <1>0, <1>6 DEF Executing, IdleExec
  <2>2. exec[e].stale = {} BY <1>0, <1>6 DEF ExecFit
  <2> QED BY <1>6, <2>1, <2>2
<1>7. ASSUME NEW r \in BRun, CronStarts(r) PROVE ScheduleKept
  <2>1. \A x \in BRun : brun'[x] = brun[x] \/ (brun[x].status = "none" /\ brun'[x].status = "running")
    BY <1>0, <1>7 DEF CronStarts, Fresh, Running, Unused
  <2>2. bFaults' = bFaults /\ Executing("cron", r) /\ exec["cron"].at = "idle" BY <1>7 DEF CronStarts
  <2> QED BY <1>0, <1>1, <1>6, <2>1, <2>2
<1>8. CASE WorkerTakes
  <2>1. bFaults' = bFaults /\ brun' = brun /\ exec["worker"].at = "idle" BY <1>8 DEF WorkerTakes
  <2>2. CASE exec' = exec BY <1>1, <2>1, <2>2
  <2>3. CASE Executing("worker", Job.id) BY <1>0, <1>1, <1>6, <2>1, <2>3
  <2>4. CASE exec' = [exec EXCEPT !["worker"] = [IdleExec EXCEPT !.at = "resolve", !.id = Job.id]]
    <3>1. /\ exec'["worker"].at = "resolve" /\ exec'["worker"].stale = {}
          /\ \A o \in Executor \ {"worker"} : exec'[o] = exec[o]
      BY <1>0, <2>4 DEF IdleExec
    <3>2. exec["worker"].stale = {} BY <1>0, <2>1 DEF ExecFit
    <3> QED BY <1>1, <2>1, <3>1, <3>2
  <2> QED BY <1>8, <2>2, <2>3, <2>4 DEF WorkerTakes
<1> QED BY <1>2, <1>3, <1>4, <1>5, <1>7, <1>8

RetentionInv == WholeInv /\ StaleFit /\ KeptBounded

LEMMA RetentionInit == BackupInit => StaleFit /\ KeptBounded
<1> SUFFICES ASSUME BackupInit PROVE StaleFit /\ KeptBounded OBVIOUS
<1>1. /\ \A r \in BRun : brun[r].status = "none"
      /\ \A e \in Executor : exec[e].stale = {}
  BY DEF BackupInit, Unused, IdleExec
<1>2. WithFile = {} BY <1>1 DEF WithFile
<1>3. Cardinality(WithFile \ StaleRuns) = 0 BY <1>2, FS_EmptySet
<1> QED BY <1>1, <1>3, BackupAssumption DEF StaleFit, KeptBounded

LEMMA ScheduleKeptStep == BackupTyped /\ [BackupNext]_backupVars => ScheduleKept
<1> SUFFICES ASSUME BackupTyped, [BackupNext]_backupVars PROVE ScheduleKept OBVIOUS
<1> QED BY DumpingRetention, RestRetention DEF BackupNext, Asking

(* When the schedule is marked, what is not stale is among the newest.     *)
LEMMA MarkedBounded ==
  ASSUME BackupTyped, NEW e \in Executor, MarkSchedule(e)
  PROVE  Cardinality(WithFile' \ StaleRuns') <= Keep
<1> DEFINE T == {r \in WithFile : Cardinality({x \in WithFile : x > r}) < Keep}
<1>1. /\ exec \in [Executor -> Execs] /\ exec[e] \in Execs /\ brun' = brun
      /\ "cron" \in Executor /\ "worker" \in Executor
      /\ e = "cron" \/ e = "worker"
  BY DEF BackupTyped, ColumnsTyped, MarkSchedule, Executor
<1>2. WithFile' = WithFile /\ WithFile \subseteq BRun BY <1>1 DEF WithFile
<1>3. exec'[e].stale = Stale
  <2>1. CASE Stale = {} BY <1>1, <2>1 DEF MarkSchedule, Purging, IdleExec
  <2>2. CASE Stale # {} BY <1>1, <2>2 DEF MarkSchedule, Purging, Execs
  <2> QED BY <2>1, <2>2
<1>4. ASSUME NEW r \in WithFile, r \notin StaleRuns' PROVE r \in T
  <2>1. \A s \in Stale : s[1] \in StaleRuns' BY <1>1, <1>3 DEF StaleRuns
  <2>2. CASE Cardinality({x \in WithFile : x > r}) >= Keep
    <3>1. <<r, brun[r].file>> \in Stale BY <2>2 DEF Stale, Beyond
    <3> QED BY <1>4, <2>1, <3>1
  <2>3. Cardinality({x \in WithFile : x > r}) \in Nat
    BY <1>2, BackupAssumption, FS_Subset, FS_CardinalityType
  <2> QED BY <2>2, <2>3, BackupAssumption
<1>5. IsFiniteSet(T) /\ Cardinality(T) <= Keep BY <1>2, NewestAreFew
<1>6. WithFile' \ StaleRuns' \subseteq T BY <1>2, <1>4
<1> HIDE DEF T
<1> QED BY <1>5, <1>6, FS_Subset, FS_CardinalityType, BackupAssumption

LEMMA RetentionStep == RetentionInv /\ [BackupNext]_backupVars => RetentionInv'
<1> SUFFICES ASSUME RetentionInv, [BackupNext]_backupVars PROVE RetentionInv' OBVIOUS
<1>1. WholeInv' BY WholeStep DEF RetentionInv
<1>2. ScheduleKept /\ BackupTyped /\ ColumnsTyped /\ StaleFit /\ KeptBounded
  BY ScheduleKeptStep DEF RetentionInv, WholeInv, BackupTyped
<1>3. StaleFit'
  <2> SUFFICES ASSUME NEW e \in Executor, NEW s \in exec'[e].stale
               PROVE  Cardinality(NewerRuns(s[1])') >= Keep
    BY DEF StaleFit
  <2>1. Cardinality(NewerRuns(s[1])) <= Cardinality(NewerRuns(s[1])') BY <1>2, NewerStay DEF ScheduleKept
  <2>2. Cardinality(NewerRuns(s[1])) >= Keep
    <3>1. s \in exec[e].stale \/ s \in Stale BY <1>2 DEF ScheduleKept
    <3> QED BY <1>2, <3>1, StaleHaveNewer DEF StaleFit
  <2>3. Cardinality(NewerRuns(s[1])) \in Nat BY NewerFinite
  <2>4. Cardinality(NewerRuns(s[1])') \in Nat
    <3>1. IsFiniteSet(NewerRuns(s[1])') BY BackupAssumption, FS_Subset DEF NewerRuns
    <3> QED BY <3>1, FS_CardinalityType
  <2> QED BY <2>1, <2>2, <2>3, <2>4, BackupAssumption
<1>4. KeptBounded'
  <2> SUFFICES ASSUME bFaults' = 0, \A e \in Executor : exec'[e].at # "saved"
               PROVE  Cardinality(WithFile' \ StaleRuns') <= Keep
    BY DEF KeptBounded
  <2>1. ASSUME NEW e \in Executor, MarkSchedule(e) PROVE Cardinality(WithFile' \ StaleRuns') <= Keep
    BY <1>2, <2>1, MarkedBounded
  <2>2. CASE /\ bFaults = 0 /\ \A e \in Executor : exec[e].at # "saved"
             /\ WithFile' \ StaleRuns' \subseteq WithFile \ StaleRuns
    <3>1. Cardinality(WithFile \ StaleRuns) <= Keep BY <1>2, <2>2 DEF KeptBounded
    <3>2. IsFiniteSet(WithFile \ StaleRuns)
      <4>1. WithFile \ StaleRuns \subseteq BRun BY DEF WithFile
      <4> QED BY <4>1, BackupAssumption, FS_Subset
    <3> QED BY <2>2, <3>1, <3>2, FS_Subset, FS_CardinalityType, BackupAssumption
  <2> QED BY <1>2, <2>1, <2>2 DEF ScheduleKept
<1> QED BY <1>1, <1>3, <1>4 DEF RetentionInv

LEMMA RetentionBounds == RetentionInv => FilesBounded
<1> SUFFICES ASSUME RetentionInv, bFaults = 0,
                    \A e \in Executor : exec[e].at \notin {"saved", "purging", "unlinked"}
             PROVE  Cardinality(WithFile) <= Keep
  BY DEF FilesBounded
<1>1. \A e \in Executor : ExecFit(e) BY DEF RetentionInv, WholeInv, BackupTyped
<1>2. "cron" \in Executor /\ "worker" \in Executor BY DEF Executor
<1>3. exec["cron"].stale = {} /\ exec["worker"].stale = {} BY <1>1, <1>2 DEF ExecFit
<1>4. StaleRuns = {} BY <1>3 DEF StaleRuns
<1>5. WithFile \ StaleRuns = WithFile BY <1>4
<1> QED BY <1>5 DEF RetentionInv, KeptBounded

LEMMA RetentionSpares ==
  RetentionInv =>
    \A e \in Executor :
       exec[e].at = "purging" /\ exec'[e].at = "unlinked" =>
         Cardinality({x \in BRun : /\ x > NextStale(e)[1]
                                   /\ brun[x].ofSchedule
                                   /\ brun[x].status \notin {"none"}}) >= Keep
<1> SUFFICES ASSUME RetentionInv, NEW e \in Executor, exec[e].at = "purging"
             PROVE  Cardinality(NewerRuns(NextStale(e)[1])) >= Keep
  BY DEF NewerRuns
<1>1. ExecFit(e) /\ exec[e] \in Execs BY DEF RetentionInv, WholeInv, BackupTyped, ColumnsTyped
<1>2. NextStale(e) \in exec[e].stale BY <1>1, NextStaleFits DEF ExecFit, Execs
<1> QED BY <1>2 DEF RetentionInv, StaleFit

-----------------------------------------------------------------------------
(* Backup: what a restore reads.                                           *)

RowsFit ==
  /\ \A r \in BRun : brun[r].status = "none" => brun[r].file = 0
  /\ \A x \in Restore : restore[x].status = "none" => restore[x].from = 0

(* The row of the cron's run has no file until the run is saved.           *)
CronFit ==
  /\ Writing("cron") => brun[exec["cron"].id].file = 0
  /\ Finishing("cron") => brun[exec["cron"].id].file \in {0, exec["cron"].file}

(* The run that is restored has the file the worker found, or none.        *)
RestoreFit ==
  At("truncate") \/ At("copyIn") =>
    LET k == restore[This].from
    IN /\ At("copyIn") /\ restore[This].truncates => db = 0
       /\ brun[k].file \in {0, exec["worker"].file}
       /\ brun[k].status # "none"
       /\ Writing("cron") => exec["cron"].id # k
       /\ Finishing("cron") /\ exec["cron"].id = k => exec["cron"].file = exec["worker"].file

(* A row stays, loses its file, or is saved by the executor that ends it.  *)
RowsMove ==
  \A r \in BRun :
    \/ brun'[r] = brun[r]
    \/ brun'[r].status # "none" /\ brun'[r].file = 0
    \/ \E e \in Executor :
         /\ exec[e].id = r /\ BackingUp(e) /\ ~Writing(e)'
         /\ brun'[r].status # "none" /\ brun'[r].file \in {0, exec[e].file}
         /\ Finishing(e)' => exec'[e].file = brun'[r].file

(* The cron begins a run, goes on with it, or saves it.                    *)
CronMoves ==
  LET r == exec'["cron"].id
  IN BackingUp("cron")' =>
       \/ /\ r = exec["cron"].id /\ exec'["cron"].file = exec["cron"].file
          /\ \/ Writing("cron") /\ Writing("cron")'
             \/ Finishing("cron") /\ Finishing("cron")'
       \/ /\ r = exec["cron"].id /\ Writing("cron") /\ Finishing("cron")'
          /\ exec'["cron"].file = brun'[r].file
       \/ Writing("cron")' /\ brun[r].status = "none" /\ brun'[r].file = 0

(* The worker comes to its COPY by Resolve and Truncate.                   *)
RestoreMoves ==
  exec'["worker"].at \in {"truncate", "copyIn"} =>
    \/ Resolve \/ Truncate
    \/ /\ exec'["worker"] = exec["worker"] /\ db' = db
       /\ restore'[This].from = restore[This].from
       /\ restore'[This].truncates = restore[This].truncates

LEMMA DumpingMoves ==
  ASSUME BackupTyped, NEW e \in Executor, Dumping(e)
  PROVE  RowsMove /\ CronMoves /\ RestoreMoves
<1> USE DEF BackingUp, Writing, Finishing
<1>0. /\ exec \in [Executor -> Execs] /\ exec[e] \in Execs /\ ExecFit(e)
      /\ brun \in [BRun -> Backups] /\ exec[e].id \in BRun
      /\ "cron" \in Executor /\ "worker" \in Executor
  BY DumpingPlaces DEF BackupTyped, ColumnsTyped, ExecFit, Executor
<1>1. /\ \A o \in Executor \ {e} : exec'[o] = exec[o]
      /\ exec'[e] = IdleExec \/ BackingUp(e)'
  BY DumpingPlaces
<1>2. RestoreMoves
  <2>1. exec'["worker"].at \in {"truncate", "copyIn"} => exec'["worker"] = exec["worker"]
    BY <1>0, <1>1 DEF IdleExec
  <2>2. db' = db /\ restore' = restore
    BY DEF Dumping, OpenDump, CloseDump, BackupFails, SaveSuccess, MarkSchedule, PurgeUnlink, PurgeSave
  <2> QED BY <2>1, <2>2 DEF RestoreMoves
<1>3. ASSUME brun' = brun, BackingUp(e)' => /\ exec'[e].id = exec[e].id /\ exec'[e].file = exec[e].file
                                            /\ \/ Writing(e) /\ Writing(e)'
                                               \/ Finishing(e) /\ Finishing(e)'
      PROVE  RowsMove /\ CronMoves
  <2>1. RowsMove BY <1>3 DEF RowsMove
  <2>2. CronMoves BY <1>0, <1>1, <1>3 DEF CronMoves
  <2> QED BY <2>1, <2>2
<1>4. CASE OpenDump(e)
  <2>1. /\ exec[e].at = "created" /\ exec'[e].at = "copying" /\ exec'[e].id = exec[e].id
        /\ exec'[e].file = exec[e].file /\ brun' = brun
    BY <1>0, <1>4 DEF OpenDump, Execs
  <2> QED BY <1>2, <1>3, <2>1
<1>5. CASE CloseDump(e)
  <2>1. /\ exec[e].at = "copying" /\ exec'[e].at = "stored" /\ exec'[e].id = exec[e].id
        /\ exec'[e].file = exec[e].file /\ brun' = brun
    BY <1>0, <1>5 DEF CloseDump, Step, Execs
  <2> QED BY <1>2, <1>3, <2>1
<1>6. CASE PurgeUnlink(e)
  <2>1. /\ exec[e].at = "purging" /\ exec'[e].at = "unlinked" /\ exec'[e].id = exec[e].id
        /\ exec'[e].file = exec[e].file /\ brun' = brun
    BY <1>0, <1>6 DEF PurgeUnlink, Step, Execs
  <2> QED BY <1>2, <1>3, <2>1
<1>7. ASSUME NEW S, Purging(e, S)
      PROVE  \/ exec'[e].at = "idle"
             \/ /\ exec'[e].at = "purging" /\ exec'[e].id = exec[e].id
                /\ exec'[e].file = exec[e].file
  <2>1. CASE S = {} BY <1>0, <1>7, <2>1 DEF Purging, IdleExec
  <2>2. CASE S # {} BY <1>0, <1>7, <2>2 DEF Purging, Execs
  <2> QED BY <2>1, <2>2
<1>8. CASE MarkSchedule(e)
  <2>1. brun' = brun /\ exec[e].at = "saved" BY <1>8 DEF MarkSchedule
  <2>2. \/ exec'[e].at = "idle"
        \/ /\ exec'[e].at = "purging" /\ exec'[e].id = exec[e].id
           /\ exec'[e].file = exec[e].file
    BY <1>7, <1>8 DEF MarkSchedule
  <2> QED BY <1>2, <1>3, <2>1, <2>2
<1>9. CASE PurgeSave(e)
  <2>1. exec[e].at = "unlinked" BY <1>9 DEF PurgeSave
  <2>2. \/ exec'[e].at = "idle"
        \/ /\ exec'[e].at = "purging" /\ exec'[e].id = exec[e].id
           /\ exec'[e].file = exec[e].file
    BY <1>7, <1>9 DEF PurgeSave
  <2>3. NextStale(e)[1] \in BRun BY <1>0, <1>9, NextStaleFits DEF PurgeSave, ExecFit, Execs
  <2>4. \A r \in BRun : brun'[r] = brun[r] \/ (brun'[r].status # "none" /\ brun'[r].file = 0)
    BY <1>0, <1>9, <2>3 DEF PurgeSave, Backups
  <2>5. RowsMove BY <2>4 DEF RowsMove
  <2>6. CronMoves BY <1>0, <1>1, <2>1, <2>2 DEF CronMoves
  <2> QED BY <1>2, <2>5, <2>6
<1>10. CASE BackupFails(e)
  <2>1. exec'[e].at = "idle" BY <1>0, <1>10 DEF BackupFails, IdleExec
  <2>2. PICK path \in {0, exec[e].file} :
          brun' = [brun EXCEPT ![exec[e].id].status = "error", ![exec[e].id].file = path]
    BY <1>10 DEF BackupFails
  <2>3. /\ brun'[exec[e].id].status # "none" /\ brun'[exec[e].id].file \in {0, exec[e].file}
        /\ \A r \in BRun \ {exec[e].id} : brun'[r] = brun[r]
    BY <1>0, <2>2 DEF Backups
  <2>4. BackingUp(e) BY <1>10 DEF BackupFails
  <2>5. RowsMove BY <2>1, <2>3, <2>4 DEF RowsMove
  <2>6. CronMoves BY <1>0, <1>1, <2>1 DEF CronMoves
  <2> QED BY <1>2, <2>5, <2>6
<1>11. ASSUME NEW keepFile \in BOOLEAN, SaveSuccess(e, keepFile) PROVE RowsMove /\ CronMoves
  <2> DEFINE kept == IF keepFile THEN exec[e].file ELSE 0
             X == [exec[e] EXCEPT !.at = "saved", !.file = kept, !.read = 0]
  <2>1. exec[e].at = "stored" BY <1>11 DEF SaveSuccess
  <2>2. exec' = [exec EXCEPT ![e] = X] \/ exec' = [exec EXCEPT ![e] = IdleExec]
    BY <1>11 DEF SaveSuccess
  <2>3. X.at = "saved" /\ X.id = exec[e].id /\ X.file = kept BY <1>0 DEF Execs
  <2>4. \/ exec'[e].at = "saved" /\ exec'[e].id = exec[e].id /\ exec'[e].file = kept
        \/ exec'[e].at = "idle"
    <3> HIDE DEF X, kept
    <3>1. exec'[e] = X \/ exec'[e] = IdleExec BY <1>0, <2>2
    <3> QED BY <2>3, <3>1 DEF IdleExec
  <2>5. /\ \A r \in BRun \ {exec[e].id} : brun'[r] = brun[r]
        /\ brun'[exec[e].id].file = kept /\ brun'[exec[e].id].status # "none"
    BY <1>0, <1>11 DEF SaveSuccess, Backups
  <2>6. kept \in {0, exec[e].file} OBVIOUS
  <2> HIDE DEF kept, X
  <2>7. RowsMove BY <2>1, <2>4, <2>5, <2>6 DEF RowsMove
  <2>8. CronMoves BY <1>0, <1>1, <2>1, <2>4, <2>5 DEF CronMoves
  <2> QED BY <2>7, <2>8
<1> QED BY <1>2, <1>4, <1>5, <1>6, <1>8, <1>9, <1>10, <1>11 DEF Dumping

LEMMA RestMoves ==
  ASSUME BackupTyped, RowsFit,
         \/ UNCHANGED backupVars \/ Asking \/ Restoring \/ BackupCrash \/ WorkerTakes
         \/ \E r \in BRun : CronStarts(r)
  PROVE  RowsMove /\ CronMoves /\ RestoreMoves
<1> USE DEF BackingUp, Writing, Finishing
<1>0. /\ exec \in [Executor -> Execs] /\ brun \in [BRun -> Backups] /\ ColumnsTyped
      /\ restore \in [Restore -> Restores]
      /\ "worker" \in Executor /\ "cron" \in Executor
      /\ \A e \in Executor : ExecFit(e)
  BY DEF BackupTyped, ColumnsTyped, Executor
<1>1. At("truncate") \/ At("copyIn") => This \in Restore /\ restore[This].status # "none"
  <2>1. At("truncate") \/ At("copyIn") => This \in Restore /\ restore[This].from \in BRun
    BY <1>0 DEF ExecFit, At, This
  <2> QED BY <2>1, BackupAssumption DEF RowsFit
<1>2. CASE UNCHANGED backupVars
  BY <1>2 DEF backupVars, RowsMove, CronMoves, RestoreMoves
<1>3. CASE Asking
  <2>1. exec' = exec BY <1>0, <1>3, AskingColumns
  <2>2. CronMoves BY <2>1 DEF CronMoves
  <2>3. RowsMove
    <3>1. ASSUME NEW r \in BRun, NEW ofSchedule \in BOOLEAN, EnqueueBackup(r, ofSchedule) PROVE RowsMove
      BY <1>0, <3>1 DEF EnqueueBackup, Running, Unused, RowsMove
    <3>2. ASSUME NEW r \in BRun, DeleteRow(r) PROVE RowsMove
      BY <1>0, <3>2 DEF DeleteRow, Backups, RowsMove
    <3> QED
      BY <1>3, <3>1, <3>2
      DEF Asking, NextSecond, NextSlot, DeleteUnlink, EnqueueRestore, CancelRestore, RowsMove
  <2>4. db' = db
    BY <1>3
    DEF Asking, NextSecond, NextSlot, EnqueueBackup, DeleteUnlink, DeleteRow, EnqueueRestore, CancelRestore
  <2>5. \A x \in Restore : restore[x].status # "none" =>
          restore'[x].from = restore[x].from /\ restore'[x].truncates = restore[x].truncates
    <3>1. ASSUME NEW r \in BRun, NEW x \in Restore, NEW truncates \in BOOLEAN, EnqueueRestore(x, r, truncates)
          PROVE  <2>5
      BY <1>0, <3>1 DEF EnqueueRestore
    <3>2. ASSUME NEW x \in Restore, CancelRestore(x) PROVE <2>5
      BY <1>0, <3>2 DEF CancelRestore, Restores
    <3> QED
      BY <1>3, <3>1, <3>2 DEF Asking, NextSecond, NextSlot, EnqueueBackup, DeleteUnlink, DeleteRow
  <2>6. RestoreMoves BY <1>1, <2>1, <2>4, <2>5 DEF RestoreMoves, At
  <2> QED BY <2>2, <2>3, <2>6
<1>4. CASE Restoring
  <2>1. brun' = brun
    BY <1>4 DEF Restoring, ResolveGone, Resolve, Truncate, CopyIn, RestoreFails, RestoreHangs
  <2>2. exec'["cron"] = exec["cron"] BY <1>0, <1>4, RestoringPlaces
  <2>3. Finish("error") \/ Finish("success") \/ RestoreHangs =>
          exec'["worker"].at \in {"idle", "hung"}
    BY <1>0 DEF Finish, IdleExec, RestoreHangs, Step, Execs
  <2>4. RestoreMoves
    BY <1>4, <2>3 DEF Restoring, ResolveGone, CopyIn, RestoreFails, RestoreMoves
  <2> QED BY <2>1, <2>2, <2>4 DEF RowsMove, CronMoves
<1>5. CASE BackupCrash
  BY <1>0, <1>5 DEF BackupCrash, RowsMove, CronMoves, RestoreMoves, IdleExec
<1>6. ASSUME NEW r \in BRun, CronStarts(r) PROVE RowsMove /\ CronMoves /\ RestoreMoves
  <2>1. /\ exec'["cron"].at = "created" /\ exec'["cron"].id = r
        /\ exec'["worker"] = exec["worker"]
    BY <1>0, <1>6 DEF CronStarts, Executing, IdleExec
  <2>2. /\ brun[r].status = "none" /\ brun'[r].file = 0 /\ brun'[r].status # "none"
        /\ \A x \in BRun \ {r} : brun'[x] = brun[x]
        /\ db' = db /\ restore' = restore
    BY <1>0, <1>6 DEF CronStarts, Fresh, Running, Unused
  <2>3. RowsMove BY <2>2 DEF RowsMove
  <2>4. CronMoves BY <2>1, <2>2 DEF CronMoves
  <2> QED BY <2>1, <2>2, <2>3, <2>4 DEF RestoreMoves
<1>7. CASE WorkerTakes
  <2>1. brun' = brun /\ db' = db /\ exec["worker"].at = "idle" BY <1>7 DEF WorkerTakes
  <2>2. \/ exec' = exec \/ Executing("worker", Job.id)
        \/ exec' = [exec EXCEPT !["worker"] = [IdleExec EXCEPT !.at = "resolve", !.id = Job.id]]
    BY <1>7 DEF WorkerTakes
  <2>3. exec'["worker"].at \notin {"truncate", "copyIn"} /\ exec'["cron"] = exec["cron"]
    BY <1>0, <2>1, <2>2 DEF Executing, IdleExec
  <2> QED BY <2>1, <2>3 DEF RowsMove, CronMoves, RestoreMoves
<1> QED BY <1>2, <1>3, <1>4, <1>5, <1>6, <1>7

LEMMA BackupMoves ==
  BackupTyped /\ RowsFit /\ [BackupNext]_backupVars => RowsMove /\ CronMoves /\ RestoreMoves
<1> SUFFICES ASSUME BackupTyped, RowsFit, [BackupNext]_backupVars
             PROVE  RowsMove /\ CronMoves /\ RestoreMoves
  OBVIOUS
<1> QED BY DumpingMoves, RestMoves DEF BackupNext, Asking

LEMMA RowsFitStep ==
  ASSUME BackupTyped, RowsFit, [BackupNext]_backupVars
  PROVE  RowsFit'
<1>0. restore \in [Restore -> Restores] BY DEF BackupTyped, ColumnsTyped
<1>1. \A r \in BRun : brun'[r].status = "none" => brun'[r].file = 0
  BY BackupMoves DEF RowsMove, RowsFit
<1>2. \A x \in Restore : restore'[x] = restore[x] \/ restore'[x].status # "none"
  <2>1. ASSUME NEW r \in BRun, NEW x \in Restore, NEW truncates \in BOOLEAN, EnqueueRestore(x, r, truncates)
        PROVE  <1>2
    BY <1>0, <2>1 DEF EnqueueRestore
  <2>2. ASSUME NEW x \in Restore, CancelRestore(x) PROVE <1>2
    BY <1>0, <2>2 DEF CancelRestore, Restores
  <2>3. CASE WorkerTakes BY <1>0, <2>3 DEF WorkerTakes, Restores
  <2>4. ASSUME NEW status \in {"success", "error"}, Finish(status) PROVE <1>2
    BY <1>0, <2>4 DEF Finish, Restores
  <2>5. CASE Restoring
    BY <2>4, <2>5
    DEF Restoring, ResolveGone, Resolve, Truncate, CopyIn, RestoreFails, RestoreHangs
  <2>6. ASSUME NEW e \in Executor, Dumping(e) PROVE <1>2
    BY <2>6 DEF Dumping, OpenDump, CloseDump, BackupFails, SaveSuccess, MarkSchedule, PurgeUnlink, PurgeSave
  <2> QED
    BY <2>1, <2>2, <2>3, <2>5, <2>6
    DEF BackupNext, NextSecond, NextSlot, EnqueueBackup, DeleteUnlink, DeleteRow, CronStarts,
        BackupCrash, backupVars
<1>3. \A x \in Restore : restore'[x].status = "none" => restore'[x].from = 0 BY <1>2 DEF RowsFit
<1> QED BY <1>1, <1>3 DEF RowsFit

(* The worker's run is not the cron's, so only its own moves reach a row.  *)
LEMMA CronFitStep ==
  ASSUME BackupTyped, RowsFit, CronFit, [BackupNext]_backupVars
  PROVE  CronFit'
<1> USE DEF BackingUp
<1>0. /\ RowsMove /\ CronMoves
      /\ BackingUp("cron") => exec["cron"].id \in BRun
      /\ BackingUp("worker") /\ BackingUp("cron") => exec["worker"].id # exec["cron"].id
      /\ \A e \in Executor : e = "cron" \/ e = "worker"
      /\ "cron" \in Executor
      /\ ~(Writing("cron")' /\ Finishing("cron")')
  BY BackupMoves DEF BackupTyped, ExecFit, AskedRuns, Executor, Writing, Finishing
<1>1. ASSUME Writing("cron"), Writing("cron")', exec'["cron"].id = exec["cron"].id
      PROVE  brun'[exec["cron"].id].file = 0
  BY <1>0, <1>1 DEF CronFit, RowsMove
<1>2. ASSUME Finishing("cron"), Finishing("cron")', exec'["cron"].id = exec["cron"].id,
             exec'["cron"].file = exec["cron"].file
      PROVE  brun'[exec["cron"].id].file \in {0, exec["cron"].file}
  BY <1>0, <1>2 DEF CronFit, RowsMove
<1> QED BY <1>0, <1>1, <1>2 DEF CronFit, CronMoves

LEMMA RestoreFitStep ==
  ASSUME BackupTyped, RowsFit, CronFit, RestoreFit, [BackupNext]_backupVars
  PROVE  RestoreFit'
<1> SUFFICES ASSUME At("truncate")' \/ At("copyIn")'
             PROVE  LET k == restore'[This'].from
                    IN /\ At("copyIn")' /\ restore'[This'].truncates => db' = 0
                       /\ brun'[k].file \in {0, exec'["worker"].file}
                       /\ brun'[k].status # "none"
                       /\ Writing("cron")' => exec'["cron"].id # k
                       /\ Finishing("cron")' /\ exec'["cron"].id = k =>
                            exec'["cron"].file = exec'["worker"].file
  BY DEF RestoreFit
<1>0. /\ RowsMove /\ CronMoves /\ RestoreMoves
      /\ exec \in [Executor -> Execs] /\ "worker" \in Executor /\ "cron" \in Executor
      /\ \A e \in Executor : e = "cron" \/ e = "worker"
      /\ exec["worker"].at \in {"resolve", "truncate", "copyIn"} =>
           restore[This].from \in BRun /\ ~BackingUp("worker")
  BY BackupMoves DEF BackupTyped, ColumnsTyped, ExecFit, Executor, BackingUp, Writing, Finishing, This
<1>1. CASE Resolve
  <2> DEFINE k == restore[This].from
  <2>1. /\ exec'["worker"].at \in {"truncate", "copyIn"} /\ exec'["worker"].file = brun[k].file
        /\ restore[This].truncates => exec'["worker"].at = "truncate"
        /\ exec'["worker"].id = exec["worker"].id /\ exec'["cron"] = exec["cron"]
    BY <1>0, <1>1 DEF Resolve, Execs
  <2>2. brun' = brun /\ restore' = restore /\ brun[k].file # 0 /\ k \in BRun
    BY <1>0, <1>1 DEF Resolve, At
  <2>3. This' = This BY <2>1 DEF This
  <2>4. brun[k].status # "none" BY <2>2 DEF RowsFit
  <2>5. (Writing("cron")' <=> Writing("cron")) /\ (Finishing("cron")' <=> Finishing("cron"))
    BY <2>1 DEF Writing, Finishing
  <2>6. Writing("cron") => exec["cron"].id # k BY <2>2 DEF CronFit
  <2>7. Finishing("cron") /\ exec["cron"].id = k => exec["cron"].file = brun[k].file
    BY <2>2 DEF CronFit
  <2>8. At("copyIn")' => exec'["worker"].at = "copyIn" BY DEF At
  <2> QED BY <2>1, <2>2, <2>3, <2>4, <2>5, <2>6, <2>7, <2>8
<1>2. CASE Truncate
  <2>1. /\ exec'["worker"].file = exec["worker"].file /\ exec'["worker"].id = exec["worker"].id
        /\ exec'["cron"] = exec["cron"]
    BY <1>0, <1>2 DEF Truncate, Step, Execs
  <2>2. brun' = brun /\ restore' = restore /\ db' = 0 /\ At("truncate") BY <1>2 DEF Truncate
  <2>3. This' = This BY <2>1 DEF This
  <2>4. (Writing("cron")' <=> Writing("cron")) /\ (Finishing("cron")' <=> Finishing("cron"))
    BY <2>1 DEF Writing, Finishing
  <2> QED BY <2>1, <2>2, <2>3, <2>4 DEF RestoreFit
<1>3. CASE /\ exec'["worker"] = exec["worker"] /\ db' = db
           /\ restore'[This].from = restore[This].from
           /\ restore'[This].truncates = restore[This].truncates
  <2> DEFINE k == restore[This].from
  <2>1. This' = This /\ (At("copyIn")' <=> At("copyIn")) /\ (At("truncate") \/ At("copyIn"))
    BY <1>3 DEF This, At
  <2>2. k \in BRun /\ ~BackingUp("worker") BY <1>0, <2>1 DEF At
  <2>3. /\ At("copyIn") /\ restore[This].truncates => db = 0
        /\ brun[k].file \in {0, exec["worker"].file}
        /\ brun[k].status # "none"
        /\ Writing("cron") => exec["cron"].id # k
        /\ Finishing("cron") /\ exec["cron"].id = k => exec["cron"].file = exec["worker"].file
    BY <2>1 DEF RestoreFit
  <2>4. brun'[k].file \in {0, exec["worker"].file} /\ brun'[k].status # "none"
    <3>1. CASE brun'[k] = brun[k] BY <2>3, <3>1
    <3>2. CASE brun'[k].status # "none" /\ brun'[k].file = 0 BY <3>2
    <3>3. ASSUME NEW e \in Executor, exec[e].id = k, BackingUp(e),
                 brun'[k].status # "none", brun'[k].file \in {0, exec[e].file}
          PROVE  <2>4
      <4>1. e = "cron" BY <1>0, <2>2, <3>3
      <4>2. exec["cron"].file = exec["worker"].file BY <2>3, <3>3, <4>1 DEF BackingUp
      <4> QED BY <3>3, <4>1, <4>2
    <3> QED BY <1>0, <2>2, <3>1, <3>2, <3>3 DEF RowsMove
  <2>5. /\ Writing("cron")' => exec'["cron"].id # k
        /\ Finishing("cron")' /\ exec'["cron"].id = k => exec'["cron"].file = exec["worker"].file
    <3>1. ~(Writing("cron")' /\ Finishing("cron")') BY DEF Writing, Finishing
    <3> QED BY <1>0, <2>3, <3>1 DEF CronMoves, BackingUp
  <2> QED BY <1>3, <2>1, <2>3, <2>4, <2>5
<1> QED BY <1>0, <1>1, <1>2, <1>3 DEF RestoreMoves, At

BackupInv == RetentionInv /\ RowsFit /\ CronFit /\ RestoreFit

LEMMA BackupInvInit == BackupInit => BackupInv
<1> SUFFICES ASSUME BackupInit PROVE BackupInv OBVIOUS
<1>1. /\ \A r \in BRun : brun[r].file = 0
      /\ \A x \in Restore : restore[x].from = 0
      /\ \A e \in Executor : exec[e].at = "idle"
      /\ "cron" \in Executor /\ "worker" \in Executor
  BY DEF BackupInit, Unused, IdleExec, NoRestore, Executor
<1>2. ~At("truncate") /\ ~At("copyIn") BY <1>1 DEF At
<1>3. ~Writing("cron") /\ ~Finishing("cron") BY <1>1 DEF Writing, Finishing
<1> QED
  BY <1>1, <1>2, <1>3, WholeInit, RetentionInit
  DEF BackupInv, RetentionInv, RowsFit, CronFit, RestoreFit

LEMMA BackupInvStep == BackupInv /\ [BackupNext]_backupVars => BackupInv'
<1> SUFFICES ASSUME BackupInv, [BackupNext]_backupVars PROVE BackupInv' OBVIOUS
<1>1. RetentionInv' BY RetentionStep DEF BackupInv
<1>2. BackupTyped BY DEF BackupInv, RetentionInv, WholeInv
<1> QED BY <1>1, <1>2, RowsFitStep, CronFitStep, RestoreFitStep DEF BackupInv

(* The file that a restore has found and cannot read is not a sound one.   *)
LEMMA EmptiedByRace ==
  ASSUME BackupInv, [BackupNext]_backupVars, NEW x \in Restore,
         restore'[x].status = "error", restore[x].status # "error",
         At("copyIn"), restore[x].truncates,
         ~(bFaults' > bFaults), restore[x].from \notin torn, brun[restore[x].from].file # 0,
         brun[restore[x].from].status = "success", exec["worker"].file \notin shared
  PROVE  FALSE
<1>0. /\ BackupTyped /\ ArtifactsWhole /\ RestoreFit
      /\ exec \in [Executor -> Execs] /\ brun \in [BRun -> Backups]
      /\ restore \in [Restore -> Restores] /\ "worker" \in Executor
      /\ bFaults \in Nat
  BY BackupAssumption DEF BackupInv, RetentionInv, WholeInv, BackupTyped, ColumnsTyped, Executor
<1>1. /\ This \in Restore /\ restore[This].from \in BRun /\ ~BackingUp("worker")
      /\ exec["worker"].at = "copyIn"
  BY <1>0 DEF BackupTyped, ExecFit, At, This, BackingUp, Writing, Finishing
<1>2. RestoreFails /\ x = This
  <2>1. CASE RestoreFails BY <1>0, <1>1, <2>1 DEF RestoreFails, Finish, Restores
  <2>2. CASE CopyIn \/ ResolveGone BY <1>0, <1>1, <2>2 DEF CopyIn, ResolveGone, At, Finish, Restores
  <2>3. CASE restore' = restore BY <2>3
  <2>4. ASSUME NEW r \in BRun, NEW y \in Restore, NEW truncates \in BOOLEAN, EnqueueRestore(y, r, truncates)
        PROVE  FALSE
    BY <1>0, <2>4 DEF EnqueueRestore
  <2>5. ASSUME NEW y \in Restore, CancelRestore(y) PROVE FALSE
    BY <1>0, <2>5 DEF CancelRestore, Restores
  <2>6. ~WorkerTakes BY <1>1 DEF WorkerTakes
  <2>7. ASSUME NEW e \in Executor, Dumping(e) PROVE restore' = restore
    BY <2>7 DEF Dumping, OpenDump, CloseDump, BackupFails, SaveSuccess, MarkSchedule, PurgeUnlink, PurgeSave
  <2> QED
    BY <2>1, <2>2, <2>3, <2>4, <2>5, <2>6, <2>7
    DEF BackupNext, NextSecond, NextSlot, EnqueueBackup, DeleteUnlink, DeleteRow, CronStarts,
        Restoring, Resolve, Truncate, RestoreHangs, BackupCrash, backupVars
<1>3. Artifact < 0 \/ (db # 0 /\ Artifact # 0) BY <1>0, <1>2 DEF RestoreFails
<1>4. db = 0 /\ brun[restore[x].from].file = exec["worker"].file BY <1>0, <1>1, <1>2 DEF RestoreFit
<1>5. Artifact = brun[restore[x].from].read BY <1>0, <1>1, <1>2, <1>4 DEF ArtifactsWhole, Artifact
<1>6. brun[restore[x].from].read \in {0, 1} BY <1>0, <1>1, <1>2 DEF Backups, Contents
<1> QED BY <1>3, <1>4, <1>5, <1>6

(* The backups that are kept are the newest, whole and no more than asked  *)
(* for, and a restore empties a table only by a race that the code leaves  *)
(* open: for every number of backups, restores, faults and crashes.        *)
THEOREM ArtifactsAreKept ==
  BackupSpec => /\ NewestAreKept /\ EmptiedOnlyByRace
                /\ []ArtifactsWhole /\ []FilesBounded
<1>1. BackupSpec => []BackupInv BY BackupInvInit, BackupInvStep, PTL DEF BackupSpec
<1>2. BackupInv => ArtifactsWhole /\ FilesBounded
  BY RetentionBounds DEF BackupInv, RetentionInv, WholeInv
<1>3. BackupSpec => []ArtifactsWhole /\ []FilesBounded BY <1>1, <1>2, PTL
<1>4. BackupInv =>
        [\A e \in Executor :
           exec[e].at = "purging" /\ exec'[e].at = "unlinked" =>
             Cardinality({x \in BRun : /\ x > NextStale(e)[1]
                                       /\ brun[x].ofSchedule
                                       /\ brun[x].status \notin {"none"}}) >= Keep]_backupVars
  BY RetentionSpares DEF BackupInv
<1>5. BackupSpec => NewestAreKept BY <1>1, <1>4, PTL DEF NewestAreKept
<1>6. BackupInv /\ [BackupNext]_backupVars =>
        [\A x \in Restore :
           restore'[x].status = "error" /\ restore[x].status # "error"
             /\ At("copyIn") /\ restore[x].truncates =>
               LET r == brun[restore[x].from]
               IN \/ bFaults' > bFaults \/ restore[x].from \in torn \/ r.file = 0
                  \/ r.status # "success" \/ exec["worker"].file \in shared]_backupVars
  BY EmptiedByRace
<1>7. BackupSpec => EmptiedOnlyByRace BY <1>1, <1>6, PTL DEF BackupSpec, EmptiedOnlyByRace
<1> QED BY <1>3, <1>5, <1>7

-----------------------------------------------------------------------------
(* Backup: the queue, and the restores it goes through.                    *)

RunsRestore(x) == ~At("idle") /\ ~BackingUp("worker") /\ This = x

(* A job is in the queue or with the worker, and only the job that comes   *)
(* next can have been begun before.                                        *)
QueueFit ==
  /\ \A i, j \in DOMAIN bjobs : i # j => bjobs[i] # bjobs[j]
  /\ ~At("idle") => \A i \in DOMAIN bjobs : bjobs[i].id # This
  /\ \A i \in DOMAIN bjobs :
       /\ bjobs[i].kind = "restore" => restore[bjobs[i].id].status \in {"queued", "running", "canceled"}
       /\ bjobs[i].kind = "backup" /\ (i # 1 \/ ~At("idle")) => brun[bjobs[i].id].file = 0
  /\ \A x \in Restore : RunsRestore(x) => restore[x].status \in {"running", "canceled"}
  /\ At("truncate") => restore[This].truncates

(* What a step makes of the restores.                                      *)
RestoreChanges(x) ==
  \/ restore'[x] = restore[x]
  \/ restore[x].status = "none" /\ restore'[x].status = "queued"
  \/ /\ restore'[x].from = restore[x].from /\ restore'[x].truncates = restore[x].truncates
     /\ \/ restore[x].status \in {"queued", "running"} /\ restore'[x].status = "canceled"
        \/ /\ WorkerTakes /\ Job = [kind |-> "restore", id |-> x]
           /\ restore[x].status # "canceled" /\ restore'[x].status = "running"
        \/ /\ RunsRestore(x) /\ At("idle")'
           /\ \/ restore'[x].status = "error"
              \/ CopyIn /\ restore'[x].status = "success"

(* ... of the worker.                                                      *)
WorkerMoves ==
  \/ At("idle")'
  \/ ~At("idle") /\ This' = This /\ (BackingUp("worker")' <=> BackingUp("worker"))
  \/ /\ WorkerTakes /\ This' = Job.id
     /\ \/ Job.kind = "backup" /\ At("created")'
        \/ /\ Job = [kind |-> "restore", id |-> This'] /\ At("resolve")'
           /\ restore'[This'].status = "running"

(* ... and of the queue.                                                   *)
QueueMoves ==
  \/ bjobs' = bjobs /\ (~At("idle")' => ~At("idle") /\ This' = This)
  \/ /\ exec' = exec
     /\ \/ \E r \in BRun : /\ bjobs' = Append(bjobs, [kind |-> "backup", id |-> r])
                           /\ brun[r].status = "none" /\ brun'[r].file = 0
        \/ \E x \in Restore : /\ bjobs' = Append(bjobs, [kind |-> "restore", id |-> x])
                              /\ restore[x].status = "none" /\ restore'[x].status = "queued"
  \/ /\ WorkerTakes /\ At("idle") /\ bjobs # <<>> /\ bjobs' = Tail(bjobs)
     /\ At("idle")' \/ This' = Job.id
  \/ /\ ~At("idle") /\ At("idle")' /\ restore' = restore
     /\ \/ bjobs' = <<[kind |-> "backup", id |-> This]>> \o bjobs /\ BackingUp("worker")
        \/ bjobs' = <<[kind |-> "restore", id |-> This]>> \o bjobs /\ RunsRestore(This)

LEMMA WorkerPlaces ==
  ASSUME BackupTyped
  PROVE  /\ exec \in [Executor -> Execs] /\ "worker" \in Executor /\ "cron" \in Executor
         /\ \A e \in Executor : e = "cron" \/ e = "worker"
         /\ brun \in [BRun -> Backups] /\ restore \in [Restore -> Restores]
         /\ BackingUp("worker") => ~At("idle") /\ This \in AskedRuns /\ This \in BRun /\ This \notin Restore
         /\ ~At("idle") /\ ~BackingUp("worker") =>
              This \in Restore /\ restore[This].from \in BRun
         /\ BackingUp("cron") => exec["cron"].id \in BRun /\ exec["cron"].id \notin AskedRuns
         /\ bjobs \in Seq(KnownJobs)
BY BackupAssumption
DEF BackupTyped, ColumnsTyped, ExecFit, Executor, BackingUp, Writing, Finishing, At, This, AskedRuns

LEMMA TakenJob ==
  ASSUME BackupTyped, WorkerTakes
  PROVE  /\ Job \in KnownJobs /\ bjobs # <<>> /\ Job = bjobs[1] /\ 1 \in DOMAIN bjobs
         /\ Job.kind = "backup" => Job.id \in BRun /\ Job = [kind |-> "backup", id |-> Job.id]
         /\ Job.kind = "restore" => Job.id \in Restore /\ Job = [kind |-> "restore", id |-> Job.id]
         /\ Job.kind \in {"backup", "restore"}
<1>1. bjobs \in Seq(KnownJobs) /\ bjobs # <<>> BY DEF BackupTyped, WorkerTakes
<1>2. Job \in KnownJobs /\ Job = bjobs[1] /\ 1 \in DOMAIN bjobs BY <1>1 DEF Job
<1> QED BY <1>1, <1>2 DEF KnownJobs, AskedRuns

LEMMA RestoringChanges ==
  ASSUME BackupTyped, Restoring
  PROVE  /\ \A x \in Restore : RestoreChanges(x)
         /\ WorkerMoves /\ QueueMoves
<1>0. /\ exec \in [Executor -> Execs] /\ "worker" \in Executor /\ restore \in [Restore -> Restores]
      /\ ~BackingUp("worker") /\ ~BackingUp("worker")'
  BY WorkerPlaces, RestoringPlaces
<1>1. ~At("idle") /\ This \in Restore
  BY <1>0, WorkerPlaces
  DEF Restoring, ResolveGone, Resolve, Truncate, CopyIn, RestoreFails, RestoreHangs, At
<1>2. bjobs' = bjobs
  BY DEF Restoring, ResolveGone, Resolve, Truncate, CopyIn, RestoreFails, RestoreHangs
<1>3. ASSUME NEW status \in {"success", "error"}, Finish(status), status = "success" => CopyIn
      PROVE  (\A x \in Restore : RestoreChanges(x)) /\ WorkerMoves /\ QueueMoves
  <2>1. At("idle")' BY <1>0, <1>3 DEF Finish, IdleExec, At
  <2>2. ASSUME NEW x \in Restore PROVE RestoreChanges(x)
    <3>1. CASE x # This BY <1>0, <1>1, <1>3, <3>1 DEF Finish, RestoreChanges
    <3>2. CASE x = This
      <4>1. restore'[x].status = status /\ restore'[x].from = restore[x].from
            /\ restore'[x].truncates = restore[x].truncates
        BY <1>0, <1>1, <1>3, <3>2 DEF Finish, Restores
      <4> QED BY <1>0, <1>1, <1>3, <2>1, <3>2, <4>1 DEF RestoreChanges, RunsRestore
    <3> QED BY <3>1, <3>2
  <2> QED BY <1>2, <2>1, <2>2 DEF WorkerMoves, QueueMoves
<1>4. CASE Resolve \/ Truncate \/ RestoreHangs
  <2>1. restore' = restore /\ exec'["worker"].id = exec["worker"].id
    BY <1>0, <1>4 DEF Resolve, Truncate, RestoreHangs, Step, Execs
  <2>2. This' = This BY <2>1 DEF This
  <2> QED BY <1>0, <1>1, <1>2, <2>1, <2>2 DEF RestoreChanges, WorkerMoves, QueueMoves
<1> QED BY <1>3, <1>4 DEF Restoring, ResolveGone, CopyIn, RestoreFails

LEMMA AskingChanges ==
  ASSUME BackupTyped, Asking
  PROVE  /\ \A x \in Restore : RestoreChanges(x)
         /\ WorkerMoves /\ QueueMoves
<1>0. exec' = exec /\ brun \in [BRun -> Backups] /\ restore \in [Restore -> Restores]
  BY AskingColumns DEF BackupTyped, ColumnsTyped
<1>1. WorkerMoves BY <1>0 DEF WorkerMoves, At, This, BackingUp, Writing, Finishing
<1>2. bjobs' = bjobs => QueueMoves BY <1>0 DEF QueueMoves, At, This
<1>3. restore' = restore => \A x \in Restore : RestoreChanges(x) BY DEF RestoreChanges
<1>4. ASSUME NEW r \in BRun, NEW ofSchedule \in BOOLEAN, EnqueueBackup(r, ofSchedule)
      PROVE  QueueMoves /\ restore' = restore
  <2>1. brun'[r].file = 0 BY <1>0, <1>4 DEF EnqueueBackup, Running, Unused
  <2> QED BY <1>0, <1>4, <2>1 DEF EnqueueBackup, Fresh, QueueMoves
<1>5. ASSUME NEW r \in BRun, NEW x \in Restore, NEW truncates \in BOOLEAN, EnqueueRestore(x, r, truncates)
      PROVE  QueueMoves /\ \A y \in Restore : RestoreChanges(y)
  <2>1. restore'[x].status = "queued" /\ \A y \in Restore \ {x} : restore'[y] = restore[y]
    BY <1>0, <1>5 DEF EnqueueRestore
  <2> QED BY <1>0, <1>5, <2>1 DEF EnqueueRestore, QueueMoves, RestoreChanges
<1>6. ASSUME NEW x \in Restore, CancelRestore(x) PROVE \A y \in Restore : RestoreChanges(y)
  <2>1. /\ restore'[x].status = "canceled" /\ restore'[x].from = restore[x].from
        /\ restore'[x].truncates = restore[x].truncates
        /\ \A y \in Restore \ {x} : restore'[y] = restore[y]
    BY <1>0, <1>6 DEF CancelRestore, Restores
  <2> QED BY <1>6, <2>1 DEF CancelRestore, RestoreChanges
<1> QED
  BY <1>1, <1>2, <1>3, <1>4, <1>5, <1>6
  DEF Asking, NextSecond, NextSlot, DeleteUnlink, DeleteRow, CancelRestore

LEMMA TakingChanges ==
  ASSUME BackupTyped, WorkerTakes
  PROVE  /\ \A x \in Restore : RestoreChanges(x)
         /\ WorkerMoves /\ QueueMoves
<1>0. /\ exec \in [Executor -> Execs] /\ "worker" \in Executor /\ restore \in [Restore -> Restores]
      /\ At("idle") /\ bjobs # <<>> /\ bjobs' = Tail(bjobs)
  BY WorkerPlaces DEF WorkerTakes, At
<1>1. /\ Job.kind = "restore" => Job.id \in Restore /\ Job = [kind |-> "restore", id |-> Job.id]
      /\ Job.kind # "restore" <=> Job.kind = "backup"
  BY TakenJob
<1>2. CASE exec' = exec /\ restore' = restore
  <2>1. At("idle")' BY <1>0, <1>2 DEF At
  <2> QED BY <1>0, <1>2, <2>1 DEF RestoreChanges, WorkerMoves, QueueMoves
<1>3. CASE Job.kind = "backup" /\ Executing("worker", Job.id) /\ restore' = restore
  <2>1. exec'["worker"].at = "created" /\ exec'["worker"].id = Job.id
    BY <1>0, <1>3 DEF Executing, IdleExec
  <2>2. At("created")' /\ This' = Job.id BY <2>1 DEF At, This
  <2> QED BY <1>0, <1>3, <2>2 DEF RestoreChanges, WorkerMoves, QueueMoves
<1>4. CASE /\ Job.kind = "restore" /\ restore[Job.id].status # "canceled"
           /\ restore' = [restore EXCEPT ![Job.id].status = "running"]
           /\ exec' = [exec EXCEPT !["worker"] = [IdleExec EXCEPT !.at = "resolve", !.id = Job.id]]
  <2>1. exec'["worker"].at = "resolve" /\ exec'["worker"].id = Job.id
    BY <1>0, <1>4 DEF IdleExec
  <2>2. At("resolve")' /\ This' = Job.id BY <2>1 DEF At, This
  <2>3. /\ restore'[Job.id].status = "running" /\ restore'[Job.id].from = restore[Job.id].from
        /\ restore'[Job.id].truncates = restore[Job.id].truncates
        /\ \A y \in Restore \ {Job.id} : restore'[y] = restore[y]
    BY <1>0, <1>1, <1>4 DEF Restores
  <2>4. \A x \in Restore : RestoreChanges(x) BY <1>1, <1>4, <2>3 DEF RestoreChanges
  <2>5. WorkerMoves BY <1>1, <1>4, <2>2, <2>3 DEF WorkerMoves
  <2> QED BY <1>0, <2>2, <2>4, <2>5 DEF QueueMoves
<1> QED BY <1>1, <1>2, <1>3, <1>4 DEF WorkerTakes

LEMMA OtherChanges ==
  ASSUME BackupTyped,
         \/ UNCHANGED backupVars \/ BackupCrash \/ \E r \in BRun : CronStarts(r)
         \/ \E e \in Executor : Dumping(e)
  PROVE  /\ \A x \in Restore : RestoreChanges(x)
         /\ WorkerMoves /\ QueueMoves
<1> USE WorkerPlaces
<1>0. restore' = restore
  BY DEF backupVars, BackupCrash, CronStarts, Dumping, OpenDump, CloseDump, BackupFails,
         SaveSuccess, MarkSchedule, PurgeUnlink, PurgeSave
<1>1. \A x \in Restore : RestoreChanges(x) BY <1>0 DEF RestoreChanges
<1>2. CASE UNCHANGED backupVars \/ \E r \in BRun : CronStarts(r)
  <2>1. exec'["worker"] = exec["worker"] /\ bjobs' = bjobs
    BY <1>2 DEF backupVars, CronStarts, Executing
  <2> QED BY <1>1, <2>1 DEF WorkerMoves, QueueMoves, At, This, BackingUp, Writing, Finishing
<1>3. ASSUME NEW e \in Executor, Dumping(e) PROVE WorkerMoves /\ QueueMoves
  <2>1. bjobs' = bjobs BY <1>3, DumpingColumns
  <2>2. \/ exec'["worker"] = exec["worker"]
        \/ exec'["worker"] = IdleExec
        \/ BackingUp("worker") /\ BackingUp("worker")' /\ exec'["worker"].id = exec["worker"].id
    BY <1>3, DumpingPlaces
  <2> QED
    BY <2>1, <2>2 DEF WorkerMoves, QueueMoves, At, This, BackingUp, Writing, Finishing, IdleExec
<1>4. CASE BackupCrash
  <2>1. At("idle")' BY <1>4 DEF BackupCrash, At, IdleExec
  <2>2. CASE At("idle") BY <1>1, <1>4, <2>1, <2>2 DEF BackupCrash, WorkerMoves, QueueMoves
  <2>3. CASE ~At("idle") /\ BackingUp("worker")
    BY <1>1, <1>4, <2>1, <2>3 DEF BackupCrash, WorkerMoves, QueueMoves
  <2>4. CASE ~At("idle") /\ ~BackingUp("worker")
    BY <1>1, <1>4, <2>1, <2>4 DEF BackupCrash, WorkerMoves, QueueMoves, RunsRestore
  <2> QED BY <2>2, <2>3, <2>4
<1> QED BY <1>1, <1>2, <1>3, <1>4

LEMMA Changes ==
  ASSUME BackupTyped, [BackupNext]_backupVars
  PROVE  /\ \A x \in Restore : RestoreChanges(x)
         /\ WorkerMoves /\ QueueMoves
BY RestoringChanges, AskingChanges, TakingChanges, OtherChanges DEF BackupNext, Asking

LEMMA QueueElements ==
  ASSUME BackupTyped, NEW i \in DOMAIN bjobs
  PROVE  /\ bjobs[i] \in KnownJobs
         /\ bjobs[i].kind = "backup" => bjobs[i].id \in AskedRuns /\ bjobs[i].id \in BRun
         /\ bjobs[i].kind = "restore" => bjobs[i].id \in Restore
         /\ bjobs[i].kind \in {"backup", "restore"}
<1>1. bjobs[i] \in KnownJobs BY WorkerPlaces
<1> QED BY <1>1 DEF KnownJobs, AskedRuns

LEMMA JobsKeep ==
  ASSUME BackupTyped, RowsFit, QueueFit, [BackupNext]_backupVars,
         NEW i \in DOMAIN bjobs
  PROVE  /\ bjobs[i].kind = "restore" =>
              restore'[bjobs[i].id].status \in {"queued", "running", "canceled"}
         /\ bjobs[i].kind = "backup" /\ (i # 1 \/ ~At("idle")) => brun'[bjobs[i].id].file = 0
<1>1. /\ bjobs[i].kind = "restore" =>
           bjobs[i].id \in Restore /\ restore[bjobs[i].id].status \in {"queued", "running", "canceled"}
      /\ bjobs[i].kind = "backup" => bjobs[i].id \in AskedRuns /\ bjobs[i].id \in BRun
      /\ ~At("idle") => bjobs[i].id # This
  BY QueueElements DEF QueueFit
<1>2. ASSUME bjobs[i].kind = "restore"
      PROVE  restore'[bjobs[i].id].status \in {"queued", "running", "canceled"}
  <2>1. RestoreChanges(bjobs[i].id) BY <1>1, <1>2, Changes
  <2> QED BY <1>1, <1>2, <2>1 DEF RestoreChanges, RunsRestore
<1>3. ASSUME bjobs[i].kind = "backup", i # 1 \/ ~At("idle")
      PROVE  brun'[bjobs[i].id].file = 0
  <2> DEFINE r == bjobs[i].id
  <2>1. brun[r].file = 0 /\ r \in BRun /\ r \in AskedRuns BY <1>1, <1>3 DEF QueueFit
  <2>2. \A e \in Executor : ~(exec[e].id = r /\ BackingUp(e))
    <3>1. ~(exec["worker"].id = r /\ BackingUp("worker")) BY <1>1, WorkerPlaces DEF This
    <3>2. ~(exec["cron"].id = r /\ BackingUp("cron")) BY <2>1, WorkerPlaces
    <3> QED BY <3>1, <3>2, WorkerPlaces
  <2> QED BY <2>1, <2>2, BackupMoves DEF RowsMove
<1> QED BY <1>2, <1>3

LEMMA QueueFitStep ==
  ASSUME BackupTyped, RowsFit, QueueFit, [BackupNext]_backupVars
  PROVE  QueueFit'
<1> DEFINE Fits(y) == y.kind = "restore" =>
                        restore'[y.id].status \in {"queued", "running", "canceled"}
           Unbegun(y) == y.kind = "backup" => brun'[y.id].file = 0
           Queue == /\ \A i, j \in DOMAIN bjobs' : i # j => bjobs'[i] # bjobs'[j]
                    /\ ~At("idle")' => \A i \in DOMAIN bjobs' : bjobs'[i].id # This'
                    /\ \A i \in DOMAIN bjobs' :
                         /\ Fits(bjobs'[i])
                         /\ i # 1 \/ ~At("idle")' => Unbegun(bjobs'[i])
<1>0. /\ bjobs \in Seq(KnownJobs)
      /\ \A i, j \in DOMAIN bjobs : i # j => bjobs[i] # bjobs[j]
      /\ ~At("idle") => \A i \in DOMAIN bjobs : bjobs[i].id # This
  BY WorkerPlaces DEF QueueFit
<1>1. \A i \in DOMAIN bjobs : /\ Fits(bjobs[i])
                              /\ i # 1 \/ ~At("idle") => Unbegun(bjobs[i])
  BY JobsKeep
<1> HIDE DEF Fits, Unbegun
<1>2. ASSUME bjobs' = bjobs, ~At("idle")' => ~At("idle") /\ This' = This
      PROVE  Queue
  <2> QED BY <1>0, <1>1, <1>2
<1>3. ASSUME NEW y, bjobs' = Append(bjobs, y), exec' = exec,
             \A i \in DOMAIN bjobs : bjobs[i] # y,
             ~At("idle") => y.id # This, Fits(y), Unbegun(y)
      PROVE  Queue
  <2>1. /\ DOMAIN bjobs' = 1..(Len(bjobs) + 1) /\ DOMAIN bjobs = 1..Len(bjobs) /\ Len(bjobs) \in Nat
        /\ \A i \in DOMAIN bjobs' : bjobs'[i] = IF i \in DOMAIN bjobs THEN bjobs[i] ELSE y
        /\ \A i \in DOMAIN bjobs' : i \in DOMAIN bjobs \/ i = Len(bjobs) + 1
    BY <1>0, <1>3
  <2>2. (At("idle")' <=> At("idle")) /\ This' = This BY <1>3 DEF At, This
  <2> QED BY <1>0, <1>1, <1>3, <2>1, <2>2
<1>4. ASSUME WorkerTakes, At("idle"), bjobs # <<>>, bjobs' = Tail(bjobs),
             At("idle")' \/ This' = Job.id
      PROVE  Queue
  <2>1. /\ DOMAIN bjobs' = 1..(Len(bjobs) - 1) /\ DOMAIN bjobs = 1..Len(bjobs) /\ Len(bjobs) \in Nat
        /\ \A i \in DOMAIN bjobs' : bjobs'[i] = bjobs[i + 1] /\ i + 1 \in DOMAIN bjobs /\ i + 1 # 1
        /\ 1 \in DOMAIN bjobs /\ Job = bjobs[1]
    BY <1>0, <1>4 DEF Job
  <2>2. \A i \in DOMAIN bjobs : i # 1 => bjobs[i].id # Job.id
    <3> SUFFICES ASSUME NEW i \in DOMAIN bjobs, i # 1, bjobs[i].id = Job.id PROVE FALSE
      OBVIOUS
    <3>1. bjobs[i] # bjobs[1] BY <1>0, <2>1
    <3>2. bjobs[i] \in KnownJobs /\ bjobs[1] \in KnownJobs BY <1>0, <2>1
    <3>3. bjobs[i].kind # bjobs[1].kind BY <2>1, <3>1, <3>2 DEF KnownJobs
    <3>4. bjobs[i].id \in BRun /\ bjobs[i].id \in Restore
      BY <2>1, <3>2, <3>3 DEF KnownJobs, AskedRuns
    <3> QED BY <3>4, BackupAssumption
  <2>3. \A i, j \in DOMAIN bjobs' : i # j => i + 1 # j + 1 BY <2>1
  <2> QED BY <1>0, <1>1, <1>4, <2>1, <2>2, <2>3
<1>5. ASSUME ~At("idle"), At("idle")', NEW y, bjobs' = <<y>> \o bjobs, y.id = This, Fits(y)
      PROVE  Queue
  <2>1. /\ DOMAIN bjobs' = 1..(Len(bjobs) + 1) /\ DOMAIN bjobs = 1..Len(bjobs) /\ Len(bjobs) \in Nat
        /\ \A i \in DOMAIN bjobs' : bjobs'[i] = IF i = 1 THEN y ELSE bjobs[i - 1]
        /\ \A i \in DOMAIN bjobs' : i = 1 \/ i - 1 \in DOMAIN bjobs
    BY <1>0, <1>5
  <2>2. \A i, j \in DOMAIN bjobs' : i # j => i - 1 # j - 1 BY <2>1
  <2> QED BY <1>0, <1>1, <1>5, <2>1, <2>2
<1>6. Queue
  <2>1. ASSUME NEW r \in BRun, bjobs' = Append(bjobs, [kind |-> "backup", id |-> r]), exec' = exec,
               brun[r].status = "none", brun'[r].file = 0
        PROVE  Queue
    <3> DEFINE y == [kind |-> "backup", id |-> r]
    <3>1. r \notin AskedRuns BY <2>1 DEF AskedRuns
    <3>2. ~At("idle") => r # This BY <3>1, WorkerPlaces, BackupAssumption
    <3>3. \A i \in DOMAIN bjobs : bjobs[i] # y BY <3>1, QueueElements
    <3>4. Fits(y) /\ Unbegun(y) BY <2>1 DEF Fits, Unbegun
    <3> QED BY <1>3, <2>1, <3>2, <3>3, <3>4
  <2>2. ASSUME NEW x \in Restore, bjobs' = Append(bjobs, [kind |-> "restore", id |-> x]), exec' = exec,
               restore[x].status = "none", restore'[x].status = "queued"
        PROVE  Queue
    <3> DEFINE y == [kind |-> "restore", id |-> x]
    <3>1. restore[x].from = 0 /\ 0 \notin BRun BY <2>2, BackupAssumption DEF RowsFit
    <3>2. ~At("idle") => x # This BY <3>1, WorkerPlaces
    <3>3. \A i \in DOMAIN bjobs : bjobs[i] # y BY <2>2, QueueElements DEF QueueFit
    <3>4. Fits(y) /\ Unbegun(y) BY <2>2 DEF Fits, Unbegun
    <3> QED BY <1>3, <2>2, <3>2, <3>3, <3>4
  <2>3. ASSUME ~At("idle"), At("idle")', restore' = restore,
               bjobs' = <<[kind |-> "backup", id |-> This]>> \o bjobs
        PROVE  Queue
    <3>1. Fits([kind |-> "backup", id |-> This]) BY DEF Fits
    <3> QED BY <1>5, <2>3, <3>1
  <2>4. ASSUME ~At("idle"), At("idle")', restore' = restore, RunsRestore(This),
               bjobs' = <<[kind |-> "restore", id |-> This]>> \o bjobs
        PROVE  Queue
    <3>1. This \in Restore BY <2>4, WorkerPlaces DEF RunsRestore
    <3>2. restore'[This].status \in {"running", "canceled"} BY <2>4, <3>1 DEF QueueFit
    <3>3. Fits([kind |-> "restore", id |-> This]) BY <3>2 DEF Fits
    <3> QED BY <1>5, <2>4, <3>3
  <2> HIDE DEF Queue
  <2> QED BY <1>2, <1>4, <2>1, <2>2, <2>3, <2>4, Changes DEF QueueMoves
<1>7. ASSUME NEW x \in Restore, RunsRestore(x)' PROVE restore'[x].status \in {"running", "canceled"}
  <2>1. ~At("idle")' /\ ~BackingUp("worker")' /\ This' = x BY <1>7 DEF RunsRestore
  <2>2. CASE RunsRestore(x)
    <3>1. restore[x].status \in {"running", "canceled"} BY <2>2 DEF QueueFit
    <3>2. RestoreChanges(x) BY Changes
    <3> QED BY <2>1, <3>1, <3>2 DEF RestoreChanges
  <2>3. CASE ~RunsRestore(x)
    <3>1. ~(At("created")') BY <2>1 DEF BackingUp, Writing, At
    <3> QED BY <2>1, <2>3, <3>1, Changes DEF WorkerMoves, RunsRestore
  <2> QED BY <2>2, <2>3
<1>8. ASSUME At("truncate")' PROVE restore'[This'].truncates
  <2>1. exec'["worker"].at = "truncate" BY <1>8 DEF At
  <2>2. CASE Resolve
    <3>1. /\ exec'["worker"].at = IF restore[This].truncates THEN "truncate" ELSE "copyIn"
          /\ exec'["worker"].id = exec["worker"].id /\ restore' = restore
      BY <2>2, WorkerPlaces DEF Resolve, Execs
    <3> QED BY <2>1, <3>1 DEF This
  <2>3. ~Truncate BY <2>1, WorkerPlaces DEF Truncate, Step, Execs
  <2>4. CASE exec'["worker"] = exec["worker"] /\ restore'[This].truncates = restore[This].truncates
    BY <2>1, <2>4 DEF QueueFit, At, This
  <2> QED BY <2>1, <2>2, <2>3, <2>4, BackupMoves DEF RestoreMoves
<1> QED BY <1>6, <1>7, <1>8 DEF QueueFit, Fits, Unbegun

-----------------------------------------------------------------------------
(* Backup: what the files of saved runs hold.                              *)

(* What was dumped for a run changes by a dump of its own only.            *)
ReadsMove ==
  \A r \in BRun : brun[r].status # "none" =>
    \/ brun'[r].read = brun[r].read
    \/ \E e \in Executor : exec[e].at = "stored" /\ exec[e].id = r

(* A run has the file it had, or one that is gone, or one just dumped.     *)
FilesMove ==
  \A r \in BRun : brun'[r].file # 0 =>
    \/ brun'[r].file = brun[r].file /\ brun'[r].read = brun[r].read
    \/ disk'[brun'[r].file] = Gone
    \/ \E e \in Executor :
         /\ exec[e].at = "stored" /\ exec[e].id = r /\ disk' = disk
         /\ brun'[r].file = exec[e].file /\ brun'[r].read = exec[e].read

FilesGo ==
  \A f \in Files : disk'[f] # disk[f] => disk'[f] = Gone \/ \E e \in Executor : Writes(e, f)

LEMMA UnlinkedGoes ==
  ASSUME ColumnsTyped, NEW f \in 0..MaxSecond
  PROVE  /\ \A g \in Files : Unlinked(f)[g] \in {disk[g], Gone}
         /\ f # 0 => f \in Files /\ Unlinked(f)[f] = Gone
BY DEF Unlinked, ColumnsTyped, Files

LEMMA DumpingReads ==
  ASSUME BackupTyped, NEW e \in Executor, Dumping(e)
  PROVE  ReadsMove /\ FilesMove /\ FilesGo
<1>0. /\ exec \in [Executor -> Execs] /\ exec[e] \in Execs /\ ColumnsTyped
      /\ brun \in [BRun -> Backups] /\ disk \in [Files -> Contents \cup {Gone, Partial, Garbled}]
      /\ exec[e].file \in 0..MaxSecond /\ exec[e].id \in BRun
  BY DumpingPlaces DEF BackupTyped, ColumnsTyped, ExecFit, Execs
<1>1. brun' = brun => ReadsMove /\ FilesMove BY DEF ReadsMove, FilesMove
<1>2. ASSUME NEW f \in 0..MaxSecond, disk' = Unlinked(f) PROVE FilesGo
  BY <1>0, <1>2, UnlinkedGoes DEF FilesGo
<1>3. CASE OpenDump(e) \/ CloseDump(e)
  <2>1. brun' = brun /\ Writing(e) BY <1>3 DEF OpenDump, CloseDump, Writing
  <2>2. \A f \in Files : disk'[f] # disk[f] => f = exec[e].file BY <1>0, <1>3 DEF OpenDump, CloseDump
  <2>3. FilesGo BY <2>1, <2>2 DEF FilesGo, Writes
  <2> QED BY <1>1, <2>1, <2>3
<1>4. CASE BackupFails(e)
  <2>1. PICK path \in {0, exec[e].file} :
          brun' = [brun EXCEPT ![exec[e].id].status = "error", ![exec[e].id].file = path]
    BY <1>4 DEF BackupFails
  <2>2. /\ \A r \in BRun \ {exec[e].id} : brun'[r] = brun[r]
        /\ brun'[exec[e].id].read = brun[exec[e].id].read
        /\ brun'[exec[e].id].file \in {0, exec[e].file}
    BY <1>0, <2>1 DEF Backups
  <2>3. disk' = Unlinked(exec[e].file) BY <1>4 DEF BackupFails
  <2>4. exec[e].file # 0 => disk'[exec[e].file] = Gone BY <1>0, <2>3, UnlinkedGoes
  <2>5. ReadsMove /\ FilesMove BY <2>2, <2>4 DEF ReadsMove, FilesMove
  <2> QED BY <1>0, <1>2, <2>3, <2>5
<1>5. ASSUME NEW keepFile \in BOOLEAN, SaveSuccess(e, keepFile) PROVE ReadsMove /\ FilesMove /\ FilesGo
  <2>1. exec[e].at = "stored" BY <1>5 DEF SaveSuccess
  <2>2. /\ \A r \in BRun \ {exec[e].id} : brun'[r] = brun[r]
        /\ brun'[exec[e].id].file # 0 =>
             /\ brun'[exec[e].id].file = exec[e].file /\ brun'[exec[e].id].read = exec[e].read
             /\ disk' = disk
    BY <1>0, <1>5 DEF SaveSuccess, Backups
  <2>3. disk' = disk \/ disk' = Unlinked(exec[e].file) BY <1>5 DEF SaveSuccess
  <2>4. FilesGo BY <1>0, <1>2, <2>3 DEF FilesGo
  <2> QED BY <2>1, <2>2, <2>4 DEF ReadsMove, FilesMove
<1>6. CASE MarkSchedule(e) BY <1>1, <1>6 DEF MarkSchedule, FilesGo
<1>7. NextStale(e) \in BRun \X Files \/ ~(PurgeUnlink(e) \/ PurgeSave(e))
  BY <1>0, NextStaleFits DEF PurgeUnlink, PurgeSave, BackupTyped, ExecFit, Execs
<1>8. CASE PurgeUnlink(e)
  <2>1. NextStale(e)[2] \in 0..MaxSecond BY <1>7, <1>8, FilesAreNumbers
  <2> QED BY <1>1, <1>2, <1>8, <2>1 DEF PurgeUnlink
<1>9. CASE PurgeSave(e)
  <2> DEFINE x == NextStale(e)[1]
  <2>1. x \in BRun BY <1>7, <1>9
  <2>2. /\ \A r \in BRun \ {x} : brun'[r] = brun[r]
        /\ brun'[x].file = 0 /\ brun'[x].read = brun[x].read /\ disk' = disk
    BY <1>0, <1>9, <2>1 DEF PurgeSave, Backups
  <2> HIDE DEF x
  <2> QED BY <2>2 DEF ReadsMove, FilesMove, FilesGo
<1> QED BY <1>3, <1>4, <1>5, <1>6, <1>8, <1>9 DEF Dumping

LEMMA RestReads ==
  ASSUME BackupTyped,
         \/ UNCHANGED backupVars \/ Asking \/ Restoring \/ BackupCrash \/ WorkerTakes
         \/ \E r \in BRun : CronStarts(r)
  PROVE  ReadsMove /\ FilesMove /\ FilesGo
<1>0. brun \in [BRun -> Backups] /\ ColumnsTyped BY DEF BackupTyped, ColumnsTyped
<1>1. brun' = brun => ReadsMove /\ FilesMove BY DEF ReadsMove, FilesMove
<1>2. disk' = disk => FilesGo BY DEF FilesGo
<1>3. CASE Asking
  <2>1. ASSUME NEW r \in BRun, DeleteUnlink(r) PROVE brun' = brun /\ FilesGo
    <3>1. brun[r].file \in 0..MaxSecond BY <1>0 DEF Backups
    <3> QED BY <1>0, <2>1, <3>1, UnlinkedGoes DEF DeleteUnlink, FilesGo
  <2>2. ASSUME NEW r \in BRun, DeleteRow(r) PROVE ReadsMove /\ FilesMove /\ disk' = disk
    <3>1. /\ \A x \in BRun \ {r} : brun'[x] = brun[x]
          /\ brun'[r].file = 0 /\ brun'[r].read = brun[r].read /\ disk' = disk
      BY <1>0, <2>2 DEF DeleteRow, Backups
    <3> QED BY <3>1 DEF ReadsMove, FilesMove
  <2>3. ASSUME NEW r \in BRun, NEW ofSchedule \in BOOLEAN, EnqueueBackup(r, ofSchedule)
        PROVE  ReadsMove /\ FilesMove /\ disk' = disk
    BY <1>0, <2>3 DEF EnqueueBackup, Fresh, Running, Unused, ReadsMove, FilesMove
  <2> QED
    BY <1>1, <1>2, <1>3, <2>1, <2>2, <2>3
    DEF Asking, NextSecond, NextSlot, EnqueueRestore, CancelRestore
<1>4. ASSUME NEW r \in BRun, CronStarts(r) PROVE ReadsMove /\ FilesMove /\ FilesGo
  BY <1>0, <1>2, <1>4 DEF CronStarts, Fresh, Running, Unused, ReadsMove, FilesMove
<1> QED
  BY <1>1, <1>2, <1>3, <1>4
  DEF Restoring, ResolveGone, Resolve, Truncate, CopyIn, RestoreFails, RestoreHangs,
      BackupCrash, WorkerTakes, backupVars

LEMMA Reads ==
  ASSUME BackupTyped, [BackupNext]_backupVars
  PROVE  ReadsMove /\ FilesMove /\ FilesGo
BY DumpingReads, RestReads DEF BackupNext, Asking

(* A run is settled when nobody will dump it, or dump it again.            *)
Awaits(k) == \E i \in DOMAIN bjobs : bjobs[i] = [kind |-> "backup", id |-> k]
Settled(k) ==
  /\ k \in BRun /\ brun[k].status # "none" /\ ~Awaits(k)
  /\ ~(BackingUp("worker") /\ exec["worker"].id = k)
  /\ ~(Writing("cron") /\ exec["cron"].id = k)

(* So are the runs that restores are made from.                            *)
SettledFit ==
  \A x \in Restore :
    restore[x].status = "success" \/ ((At("truncate") \/ At("copyIn")) /\ This = x) =>
      Settled(restore[x].from)

LEMMA SettledStays ==
  ASSUME BackupTyped, RowsFit, [BackupNext]_backupVars, NEW k, Settled(k)
  PROVE  Settled(k)' /\ brun'[k].read = brun[k].read
<1>0. /\ k \in BRun /\ brun[k].status # "none" /\ ~Awaits(k)
      /\ ~(BackingUp("worker") /\ exec["worker"].id = k)
      /\ ~(Writing("cron") /\ exec["cron"].id = k)
  BY DEF Settled
<1>1. RowsMove /\ CronMoves /\ ReadsMove /\ WorkerMoves /\ QueueMoves BY BackupMoves, Reads, Changes
<1>2. brun'[k].status # "none" BY <1>0, <1>1 DEF RowsMove
<1>3. brun'[k].read = brun[k].read
  <2>1. \A e \in Executor : ~(exec[e].at = "stored" /\ exec[e].id = k)
    BY <1>0, WorkerPlaces DEF BackingUp, Writing
  <2> QED BY <1>0, <1>1, <2>1 DEF ReadsMove
<1>4. ~(Writing("cron")' /\ exec'["cron"].id = k)
  BY <1>0, <1>1 DEF CronMoves, BackingUp, Writing, Finishing
<1>5. ~(BackingUp("worker")' /\ exec'["worker"].id = k)
  <2> SUFFICES ASSUME BackingUp("worker")', exec'["worker"].id = k PROVE FALSE
    OBVIOUS
  <2>1. ~(At("idle")') /\ ~(At("resolve")') BY DEF BackingUp, Writing, Finishing, At
  <2>2. ASSUME WorkerTakes, Job.kind = "backup", This' = Job.id PROVE FALSE
    <3>1. Job = [kind |-> "backup", id |-> k] BY <2>2, TakenJob DEF This
    <3> QED BY <1>0, <2>2, <3>1, TakenJob DEF Awaits
  <2> QED BY <1>0, <1>1, <2>1, <2>2 DEF WorkerMoves, This
<1>6. ~Awaits(k)'
  <2> DEFINE b == [kind |-> "backup", id |-> k]
  <2>0. bjobs \in Seq(KnownJobs) BY WorkerPlaces
  <2>1. \A i \in DOMAIN bjobs : bjobs[i] # b BY <1>0 DEF Awaits
  <2>2. ASSUME NEW y, bjobs' = Append(bjobs, y), y # b PROVE \A i \in DOMAIN bjobs' : bjobs'[i] # b
    BY <2>0, <2>1, <2>2
  <2>3. ASSUME NEW y, bjobs' = <<y>> \o bjobs, y # b PROVE \A i \in DOMAIN bjobs' : bjobs'[i] # b
    BY <2>0, <2>1, <2>3
  <2>4. ASSUME bjobs' = Tail(bjobs), bjobs # <<>> PROVE \A i \in DOMAIN bjobs' : bjobs'[i] # b
    BY <2>0, <2>1, <2>4
  <2>5. \A r : r # k => [kind |-> "backup", id |-> r] # b OBVIOUS
  <2>6. \A x : [kind |-> "restore", id |-> x] # b OBVIOUS
  <2>7. BackingUp("worker") => This # k BY <1>0 DEF This
  <2> HIDE DEF b
  <2>8. \A i \in DOMAIN bjobs' : bjobs'[i] # b
    BY <1>0, <1>1, <2>1, <2>2, <2>3, <2>4, <2>5, <2>6, <2>7 DEF QueueMoves
  <2> QED BY <2>8 DEF Awaits, b
<1> QED BY <1>0, <1>2, <1>3, <1>4, <1>5, <1>6 DEF Settled

LEMMA SettledFitStep ==
  ASSUME BackupTyped, RowsFit, CronFit, QueueFit, SettledFit, [BackupNext]_backupVars
  PROVE  SettledFit'
<1>1. ASSUME NEW x \in Restore, restore'[x].status = "success", NEW k, k = restore'[x].from
      PROVE  Settled(k)'
  <2>1. RestoreChanges(x) BY Changes
  <2>2. Settled(k)
    <3>1. CASE restore'[x] = restore[x] BY <1>1, <3>1 DEF SettledFit
    <3>2. CASE RunsRestore(x) /\ CopyIn /\ restore'[x].from = restore[x].from
      BY <1>1, <3>2 DEF SettledFit, RunsRestore, CopyIn
    <3> QED BY <1>1, <2>1, <3>1, <3>2 DEF RestoreChanges
  <2> QED BY <2>2, SettledStays
<1>2. ASSUME At("truncate")' \/ At("copyIn")', NEW k, k = restore'[This'].from PROVE Settled(k)'
  <2>1. CASE Resolve
    <3>0. k = restore[This].from BY <1>2, <2>1, WorkerPlaces DEF Resolve, This, Execs
    <3>1. ~At("idle") /\ brun[k].file # 0 /\ At("resolve") BY <2>1, <3>0 DEF Resolve, At
    <3>2. ~BackingUp("worker") /\ k \in BRun
      BY <3>0, <3>1, WorkerPlaces DEF At, BackingUp, Writing, Finishing
    <3>3. ~Awaits(k) BY <3>1 DEF Awaits, QueueFit
    <3>4. brun[k].status # "none" BY <3>1, <3>2 DEF RowsFit
    <3>5. ~(Writing("cron") /\ exec["cron"].id = k) BY <3>1 DEF CronFit
    <3>6. Settled(k) BY <3>2, <3>3, <3>4, <3>5 DEF Settled
    <3> QED BY <3>6, SettledStays
  <2>2. ASSUME At("truncate") \/ At("copyIn"), restore'[This].from = restore[This].from, This' = This
        PROVE  Settled(k)'
    <3>1. This \in Restore BY <2>2, WorkerPlaces DEF At, BackingUp, Writing, Finishing
    <3>2. Settled(k) BY <1>2, <2>2, <3>1 DEF SettledFit
    <3> QED BY <3>2, SettledStays
  <2>3. CASE Truncate
    <3>1. This' = This /\ restore' = restore /\ At("truncate")
      BY <2>3, WorkerPlaces DEF Truncate, Step, This, Execs
    <3> QED BY <2>2, <3>1
  <2>4. CASE exec'["worker"] = exec["worker"] /\ restore'[This].from = restore[This].from
    <3>1. This' = This /\ (At("truncate") \/ At("copyIn")) BY <1>2, <2>4 DEF This, At
    <3> QED BY <2>2, <2>4, <3>1
  <2> QED BY <1>2, <2>1, <2>3, <2>4, BackupMoves DEF RestoreMoves, At
<1> QED BY <1>1, <1>2 DEF SettledFit, Settled, Awaits

(* A saved file has what was dumped for its run until it is gone; so has   *)
(* the file that the worker restores, into which no dump is written.       *)
ReadsFit ==
  /\ \A r \in BRun : brun[r].file \notin {0} \cup shared =>
       disk[brun[r].file] \in {Gone, brun[r].read}
  /\ (At("truncate") \/ At("copyIn")) /\ exec["worker"].file \notin shared =>
       /\ disk[exec["worker"].file] \in {Gone, brun[restore[This].from].read}
       /\ ~Writes("cron", exec["worker"].file)

LEMMA CronTakesFile ==
  ASSUME BackupTyped, [BackupNext]_backupVars, NEW f \in Files, Writes("cron", f)'
  PROVE  Writes("cron", f) \/ exec["worker"].file # f \/ f \in shared'
<1>1. CASE \/ Asking \/ Restoring \/ BackupCrash \/ \E e \in Executor : Dumping(e)
  BY <1>1, DumpingPasses, RestPasses, WorkerPlaces DEF Passes
<1>2. CASE UNCHANGED backupVars BY <1>2 DEF backupVars, Writes, Writing
<1>3. CASE WorkerTakes
  BY <1>3, WorkerPlaces DEF WorkerTakes, Executing, Writes, Writing
<1>4. ASSUME NEW r \in BRun, CronStarts(r) PROVE exec["worker"].file # f \/ f \in shared'
  <2> DEFINE Taken == \/ exec["worker"].file = second
                      \/ \E x \in BRun : brun[x].file = second
                      \/ \E s \in exec["worker"].stale : s[2] = second
  <2>1. /\ exec' = [exec EXCEPT !["cron"] =
             [IdleExec EXCEPT !.at = "created", !.id = r, !.file = second]]
        /\ shared' = IF Taken THEN shared \cup {second} ELSE shared
    BY <1>4 DEF CronStarts, Executing, Other
  <2>2. f = second BY <2>1, WorkerPlaces DEF Writes, IdleExec
  <2>3. exec["worker"].file = second => Taken OBVIOUS
  <2> HIDE DEF Taken
  <2> QED BY <2>1, <2>2, <2>3
<1> QED BY <1>1, <1>2, <1>3, <1>4 DEF BackupNext, Asking

LEMMA ReadsFitStep ==
  ASSUME BackupInv, QueueFit, SettledFit, ReadsFit, [BackupNext]_backupVars
  PROVE  ReadsFit'
<1>0. /\ BackupTyped /\ RowsFit /\ FilesApart /\ DumpsFit
      /\ FilesMove /\ FilesGo /\ shared \subseteq shared'
      /\ brun \in [BRun -> Backups] /\ brun' \in [BRun -> Backups]
      /\ "cron" \in Executor /\ \A e \in Executor : e = "cron" \/ e = "worker"
  BY FilesApartStep, BackupTypedStep, Reads, WorkerPlaces
  DEF BackupInv, RetentionInv, WholeInv, BackupTyped, ColumnsTyped
<1>1. ASSUME NEW r \in BRun, brun'[r].file # 0, brun'[r].file \notin shared'
      PROVE  disk'[brun'[r].file] \in {Gone, brun'[r].read}
  <2> DEFINE f == brun'[r].file
  <2>1. f \in Files \ shared BY <1>0, <1>1 DEF Backups, Files
  <2>2. CASE brun[r].file = f /\ brun'[r].read = brun[r].read
    <3>1. Owns(r, f) BY <2>2 DEF Owns
    <3>2. \A e \in Executor : ~Writes(e, f) BY <1>0, <2>1, <3>1 DEF FilesApart
    <3>3. disk'[f] \in {Gone, disk[f]} BY <1>0, <2>1, <3>2 DEF FilesGo
    <3>4. disk[f] \in {Gone, brun[r].read} BY <2>1, <2>2, <1>1 DEF ReadsFit
    <3> QED BY <2>2, <3>3, <3>4
  <2>3. ASSUME NEW e \in Executor, exec[e].at = "stored", disk' = disk,
               f = exec[e].file, brun'[r].read = exec[e].read
        PROVE  disk'[f] = brun'[r].read
    BY <1>0, <2>1, <2>3 DEF DumpsFit
  <2> QED BY <1>0, <1>1, <2>2, <2>3 DEF FilesMove
<1>2. ASSUME At("truncate")' \/ At("copyIn")', exec'["worker"].file \notin shared',
             NEW k, k = restore'[This'].from
      PROVE  /\ disk'[exec'["worker"].file] \in {Gone, brun'[k].read}
             /\ ~(Writing("cron")' /\ exec'["cron"].file = exec'["worker"].file)
  <2> DEFINE f == exec'["worker"].file
  <2>1. CASE Resolve
    <3>1. /\ k = restore[This].from /\ f = brun[k].file /\ f # 0
          /\ disk' = disk /\ brun' = brun /\ shared' = shared
          /\ exec'["cron"] = exec["cron"]
      BY <1>0, <1>2, <2>1, WorkerPlaces DEF Resolve, This, Execs
    <3>2. k \in BRun
      BY <1>0, <2>1, <3>1, WorkerPlaces DEF Resolve, At, BackingUp, Writing, Finishing
    <3>3. disk[f] \in {Gone, brun[k].read} BY <1>2, <3>1, <3>2 DEF ReadsFit
    <3>4. Owns(k, f) /\ f \in Files \ shared
      BY <1>0, <1>2, <3>1, <3>2 DEF Owns, Backups, Files
    <3>5. ~Writes("cron", f) BY <1>0, <3>2, <3>4 DEF FilesApart
    <3> QED BY <3>1, <3>3, <3>5 DEF Writes, Writing
  <2>2. CASE Truncate
    <3>1. /\ k = restore[This].from /\ f = exec["worker"].file /\ At("truncate")
          /\ disk' = disk /\ brun' = brun /\ shared' = shared
          /\ exec'["cron"] = exec["cron"]
      BY <1>2, <2>2, WorkerPlaces DEF Truncate, Step, This, Execs
    <3> QED BY <1>2, <3>1 DEF ReadsFit, Writes, Writing
  <2>3. CASE exec'["worker"] = exec["worker"] /\ restore'[This].from = restore[This].from
    <3>1. /\ k = restore[This].from /\ f = exec["worker"].file
          /\ At("truncate") \/ At("copyIn")
      BY <1>2, <2>3 DEF At, This
    <3>2. This \in Restore /\ ~BackingUp("worker") /\ exec["worker"].at \in {"truncate", "copyIn"}
      BY <3>1, WorkerPlaces, <1>0 DEF At, BackingUp, Writing, Finishing
    <3>3. Settled(k) BY <3>1, <3>2 DEF SettledFit
    <3>4. brun'[k].read = brun[k].read BY <1>0, <3>3, SettledStays
    <3>5. f \in Files \ shared
      BY <1>0, <1>2, <3>1, <3>2, WorkerPlaces DEF BackupTyped, ExecFit, Execs, Files
    <3>6. disk[f] \in {Gone, brun[k].read} /\ ~Writes("cron", f) BY <3>1, <3>5 DEF ReadsFit
    <3>7. \A e \in Executor : ~Writes(e, f) BY <1>0, <3>2, <3>6 DEF Writes, BackingUp
    <3>8. disk'[f] \in {Gone, disk[f]} BY <1>0, <3>5, <3>7 DEF FilesGo
    <3>9. ASSUME Writing("cron")', exec'["cron"].file = f PROVE FALSE
      <4>1. exec["worker"].file = f /\ f \notin shared' BY <1>2, <3>1
      <4>2. \A h \in Files : h = f => ~(Writes("cron", h)')
        BY <1>0, <3>6, <4>1, CronTakesFile
      <4> QED BY <3>5, <3>9, <4>2 DEF Writes
    <3> QED BY <3>4, <3>6, <3>8, <3>9
  <2> QED BY <1>2, <2>1, <2>2, <2>3, <1>0, BackupMoves DEF RestoreMoves, At
<1> QED BY <1>1, <1>2 DEF ReadsFit, Writes

-----------------------------------------------------------------------------
(* Backup: who has emptied the table.                                      *)

Emptied(x) ==
  /\ restore[x].truncates
  /\ \/ restore[x].status \in {"error", "canceled"}
     \/ restore[x].status = "success" /\ (brun[restore[x].from].read = 0 \/ shared # {})

(* A restore that has begun to empty the table is with the worker, or it   *)
(* was interrupted and comes next.                                         *)
BegunRestore(x) ==
  /\ restore[x].truncates
  /\ \/ RunsRestore(x)
     \/ At("idle") /\ bjobs # <<>> /\ Head(bjobs) = [kind |-> "restore", id |-> x]

EmptyFit ==
  /\ db = 0 => \E x \in Restore : (Emptied(x) /\ ~RunsRestore(x)) \/ BegunRestore(x)
  /\ exec["worker"].at \in {"copying", "stored"} /\ exec["worker"].read = 0 =>
       \E x \in Restore : Emptied(x)

LEMMA EmptiedStays ==
  ASSUME BackupInv, QueueFit, SettledFit, [BackupNext]_backupVars,
         NEW x \in Restore, Emptied(x), ~RunsRestore(x)
  PROVE  Emptied(x)' /\ ~RunsRestore(x)'
<1>0. /\ BackupTyped /\ RowsFit /\ shared \subseteq shared'
      /\ RestoreChanges(x) /\ WorkerMoves
  BY FilesApartStep, Changes DEF BackupInv, RetentionInv, WholeInv
<1>1. WorkerTakes /\ Job = [kind |-> "restore", id |-> x] => restore[x].status = "canceled"
  BY <1>0, TakenJob DEF QueueFit, Emptied
<1>2. restore'[x] = restore[x]
  BY <1>0, <1>1 DEF RestoreChanges, Emptied
<1>3. restore[x].status = "success" => brun'[restore[x].from].read = brun[restore[x].from].read
  BY <1>0, SettledStays DEF SettledFit
<1>4. Emptied(x)' BY <1>0, <1>2, <1>3 DEF Emptied
<1>5. ~RunsRestore(x)'
  <2> SUFFICES ASSUME ~At("idle")', ~BackingUp("worker")', This' = x PROVE FALSE
    BY DEF RunsRestore
  <2>1. ~(At("created")') BY DEF At, BackingUp, Writing
  <2>2. ASSUME WorkerTakes, Job = [kind |-> "restore", id |-> x], restore'[x].status = "running"
        PROVE  FALSE
    BY <1>1, <1>2, <2>2
  <2> QED BY <1>0, <2>1, <2>2 DEF WorkerMoves, RunsRestore
<1> QED BY <1>4, <1>5

(* The table is emptied by a TRUNCATE, or stays empty.                     *)
LEMMA EmptyStays ==
  ASSUME BackupTyped, [BackupNext]_backupVars, db' = 0
  PROVE  db = 0 \/ Truncate
BY DEF BackupNext, NextSecond, NextSlot, EnqueueBackup, DeleteUnlink, DeleteRow, CronStarts,
       EnqueueRestore, CancelRestore, WorkerTakes, Dumping, OpenDump, CloseDump, BackupFails,
       SaveSuccess, MarkSchedule, PurgeUnlink, PurgeSave, Restoring, ResolveGone, Resolve,
       CopyIn, RestoreFails, RestoreHangs, BackupCrash, backupVars

(* A restore with the worker ends by Finish, or is interrupted.            *)
LEMMA RestoreEnds ==
  ASSUME BackupTyped, [BackupNext]_backupVars, NEW x \in Restore, RunsRestore(x), At("idle")'
  PROVE  \/ restore'[x].status = "error"
         \/ CopyIn /\ restore'[x].status = "success"
         \/ BackupCrash
<1>0. ~At("idle") /\ ~BackingUp("worker") /\ This = x BY DEF RunsRestore
<1>1. exec'["worker"] # exec["worker"] BY <1>0 DEF At
<1>2. CASE Restoring
  <2>1. exec'["worker"].at = "idle" BY DEF At
  <2>2. ~Resolve /\ ~Truncate /\ ~RestoreHangs
    BY <2>1, WorkerPlaces DEF Resolve, Truncate, RestoreHangs, Step, Execs
  <2>3. ASSUME NEW status, Finish(status) PROVE restore'[x].status = status
    BY <1>0, <2>3, WorkerPlaces DEF Finish, Restores
  <2> QED BY <1>2, <2>2, <2>3 DEF Restoring, ResolveGone, CopyIn, RestoreFails
<1>3. ~Asking BY <1>1, AskingColumns DEF BackupTyped
<1>4. ASSUME NEW r \in BRun, CronStarts(r) PROVE FALSE
  BY <1>1, <1>4, WorkerPlaces DEF CronStarts, Executing
<1>5. ~WorkerTakes BY <1>0 DEF WorkerTakes, At
<1>6. ASSUME NEW e \in Executor, Dumping(e) PROVE FALSE
  BY <1>0, <1>1, <1>6, DumpingPlaces, WorkerPlaces
<1> QED BY <1>1, <1>2, <1>3, <1>4, <1>5, <1>6 DEF BackupNext, Asking, backupVars

LEMMA BegunGoesOn ==
  ASSUME BackupInv, QueueFit, SettledFit, ReadsFit, [BackupNext]_backupVars,
         NEW x \in Restore, BegunRestore(x), db = 0, db' = 0
  PROVE  (Emptied(x)' /\ ~RunsRestore(x)') \/ BegunRestore(x)'
<1>0. /\ BackupTyped /\ RowsFit /\ shared \subseteq shared'
      /\ RestoreChanges(x) /\ WorkerMoves /\ QueueMoves
      /\ restore \in [Restore -> Restores] /\ restore[x].truncates
  BY FilesApartStep, Changes DEF BackupInv, RetentionInv, WholeInv, BackupTyped, ColumnsTyped, BegunRestore
<1>1. CASE RunsRestore(x)
  <2>0. ~At("idle") /\ ~BackingUp("worker") /\ This = x /\ restore[x].status \in {"running", "canceled"}
    BY <1>1 DEF RunsRestore, QueueFit
  <2>1. ~WorkerTakes BY <2>0 DEF WorkerTakes, At
  <2>2. restore'[x].truncates BY <1>0, <2>0 DEF RestoreChanges
  <2>3. CASE ~(At("idle")')
    BY <1>0, <2>0, <2>1, <2>2, <2>3 DEF WorkerMoves, BegunRestore, RunsRestore
  <2>4. CASE At("idle")' /\ restore'[x].status = "error"
    BY <2>2, <2>4 DEF Emptied, RunsRestore
  <2>5. CASE At("idle")' /\ CopyIn /\ restore'[x].status = "success"
    <3> DEFINE k == restore[x].from
    <3>1. At("copyIn") /\ Artifact = 0 /\ brun' = brun /\ shared' = shared
      BY <2>5 DEF CopyIn
    <3>2. restore'[x].from = k BY <1>0, <2>0, <2>5 DEF RestoreChanges
    <3>3. exec["worker"].file \notin shared => brun[k].read = 0
      BY <2>0, <3>1 DEF ReadsFit, Artifact, Gone
    <3> QED BY <2>2, <2>5, <3>1, <3>2, <3>3 DEF Emptied, RunsRestore
  <2>6. CASE At("idle")' /\ restore' = restore /\ bjobs' = <<[kind |-> "restore", id |-> This]>> \o bjobs
    <3>1. bjobs \in Seq(KnownJobs) BY <1>0, WorkerPlaces
    <3>2. bjobs' # <<>> /\ Head(bjobs') = [kind |-> "restore", id |-> x] BY <2>0, <2>6, <3>1
    <3> QED BY <2>2, <2>6, <3>2 DEF BegunRestore
  <2> QED
    BY <1>0, <1>1, <2>0, <2>3, <2>4, <2>5, <2>6, RestoreEnds DEF BackupCrash, At
<1>2. CASE At("idle") /\ bjobs # <<>> /\ Head(bjobs) = [kind |-> "restore", id |-> x]
  <2>0. bjobs \in Seq(KnownJobs) /\ ~RunsRestore(x) /\ 1 \in DOMAIN bjobs /\ bjobs[1] = Head(bjobs)
    BY <1>0, <1>2, WorkerPlaces DEF RunsRestore
  <2>1. restore[x].status \in {"queued", "running", "canceled"} BY <1>2, <2>0 DEF QueueFit
  <2>2. restore'[x].truncates BY <1>0, <2>0, <2>1 DEF RestoreChanges
  <2>3. CASE WorkerTakes
    <3>1. CASE restore[x].status = "canceled"
      <4>1. restore'[x] = restore[x] BY <1>0, <2>0, <3>1 DEF RestoreChanges
      <4>2. Emptied(x) BY <1>0, <3>1 DEF Emptied
      <4> QED BY <2>0, <4>2, EmptiedStays
    <3>2. CASE restore[x].status # "canceled"
      <4>1. exec' = [exec EXCEPT !["worker"] = [IdleExec EXCEPT !.at = "resolve", !.id = x]]
        <5>1. Job.kind = "restore" /\ Job.id = x BY <1>2 DEF Job
        <5> QED BY <2>3, <3>2, <5>1 DEF WorkerTakes
      <4>2. exec'["worker"].at = "resolve" /\ exec'["worker"].id = x
        BY <1>0, <4>1, WorkerPlaces DEF IdleExec
      <4>3. RunsRestore(x)' BY <4>2 DEF RunsRestore, At, This, BackingUp, Writing, Finishing
      <4> QED BY <2>2, <4>3 DEF BegunRestore
    <3> QED BY <3>1, <3>2
  <2>4. CASE ~WorkerTakes
    <3>1. At("idle")' BY <1>0, <1>2, <2>4 DEF WorkerMoves
    <3>2. bjobs' # <<>> /\ Head(bjobs') = [kind |-> "restore", id |-> x]
      <4>1. bjobs' = bjobs \/ \E y : bjobs' = Append(bjobs, y) BY <1>0, <1>2, <2>4 DEF QueueMoves
      <4> QED BY <1>2, <2>0, <4>1
    <3> QED BY <2>2, <3>1, <3>2 DEF BegunRestore
  <2> QED BY <2>3, <2>4
<1> QED BY <1>1, <1>2 DEF BegunRestore

(* A dump of the worker reads what is there while it restores nothing.     *)
LEMMA WorkerReads ==
  ASSUME BackupTyped, [BackupNext]_backupVars,
         exec'["worker"].at \in {"copying", "stored"}, exec'["worker"].read = 0
  PROVE  /\ BackingUp("worker")
         /\ \/ exec["worker"].at \in {"copying", "stored"} /\ exec["worker"].read = 0
            \/ db = 0
<1>1. exec'["worker"] = exec["worker"] \/ OpenDump("worker") \/ CloseDump("worker")
  BY StepsKeep, WorkerPlaces DEF DumpsGoOn
<1> QED BY <1>1, WorkerPlaces DEF OpenDump, CloseDump, Step, Execs, BackingUp, Writing

LEMMA EmptyFitStep ==
  ASSUME BackupInv, QueueFit, SettledFit, ReadsFit, EmptyFit, [BackupNext]_backupVars
  PROVE  EmptyFit'
<1>0. BackupTyped BY DEF BackupInv, RetentionInv, WholeInv
<1>1. ASSUME db' = 0
      PROVE  \E x \in Restore : (Emptied(x)' /\ ~RunsRestore(x)') \/ BegunRestore(x)'
  <2>1. CASE db = 0
    <3>1. PICK x \in Restore : (Emptied(x) /\ ~RunsRestore(x)) \/ BegunRestore(x) BY <2>1 DEF EmptyFit
    <3> QED BY <1>1, <2>1, <3>1, EmptiedStays, BegunGoesOn
  <2>2. CASE Truncate
    <3>1. At("truncate") /\ exec'["worker"].at = "copyIn" /\ This' = This /\ restore' = restore
      BY <1>0, <2>2, WorkerPlaces DEF Truncate, Step, This, Execs
    <3>2. This \in Restore /\ restore[This].truncates
      BY <1>0, <3>1, WorkerPlaces DEF QueueFit, At, BackingUp, Writing, Finishing
    <3>3. RunsRestore(This)' /\ \A x \in Restore : x = This => RunsRestore(x)'
      BY <3>1 DEF RunsRestore, At, BackingUp, Writing, Finishing
    <3> QED BY <3>1, <3>2, <3>3 DEF BegunRestore
  <2> QED BY <1>0, <1>1, <2>1, <2>2, EmptyStays
<1>2. ASSUME exec'["worker"].at \in {"copying", "stored"}, exec'["worker"].read = 0
      PROVE  \E x \in Restore : Emptied(x)'
  <2>1. BackingUp("worker") /\ ~At("idle") BY <1>0, <1>2, WorkerReads, WorkerPlaces
  <2>2. \A x : ~RunsRestore(x) /\ ~BegunRestore(x) BY <2>1 DEF RunsRestore, BegunRestore
  <2>3. PICK x \in Restore : Emptied(x) BY <1>0, <1>2, <2>2, WorkerReads DEF EmptyFit
  <2> QED BY <2>2, <2>3, EmptiedStays
<1> QED BY <1>1, <1>2 DEF EmptyFit

UsableInv == BackupInv /\ QueueFit /\ SettledFit /\ ReadsFit /\ EmptyFit

LEMMA UsableInit == BackupInit => UsableInv
<1> SUFFICES ASSUME BackupInit PROVE UsableInv OBVIOUS
<1>1. /\ At("idle") /\ exec["worker"].at = "idle" /\ db # 0 /\ bjobs = <<>>
      /\ \A r \in BRun : brun[r].file = 0
      /\ \A x \in Restore : restore[x].status = "none"
  BY DEF BackupInit, IdleExec, Executor, Unused, NoRestore, At
<1>2. ~At("truncate") /\ ~At("copyIn") BY <1>1 DEF At
<1> QED
  BY <1>1, <1>2, BackupInvInit
  DEF UsableInv, QueueFit, SettledFit, ReadsFit, EmptyFit, RunsRestore

LEMMA UsableStep == UsableInv /\ [BackupNext]_backupVars => UsableInv'
<1> SUFFICES ASSUME UsableInv, [BackupNext]_backupVars PROVE UsableInv' OBVIOUS
<1>1. BackupInv' BY BackupInvStep DEF UsableInv
<1>2. BackupTyped /\ RowsFit /\ CronFit BY DEF UsableInv, BackupInv, RetentionInv, WholeInv
<1> QED
  BY <1>1, <1>2, QueueFitStep, SettledFitStep, ReadsFitStep, EmptyFitStep DEF UsableInv

(* The backups that are kept are the newest, whole and no more than asked  *)
(* for, a restore empties a table only by a race that the code leaves      *)
(* open, and the worker backs up an empty table only after such a restore: *)
(* for every number of backups, restores, faults and crashes.              *)
THEOREM BackupsAreUsable == BackupSpec => BackupsUsable
<1>1. BackupSpec => []UsableInv BY UsableInit, UsableStep, PTL DEF BackupSpec
<1>2. UsableInv => WorkerDumpsWhole BY DEF UsableInv, EmptyFit, WorkerDumpsWhole, Emptied
<1>3. BackupSpec => []WorkerDumpsWhole BY <1>1, <1>2, PTL
<1> QED BY <1>3, ArtifactsAreKept DEF BackupsUsable
=============================================================================
