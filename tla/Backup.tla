------------------------------- MODULE Backup -------------------------------
(***************************************************************************)
(* Backups and restores (backup/backup.service.ts, backup.cron.ts,         *)
(* backup.processor.ts, restore.service.ts, pg-tools.ts).  Two executors   *)
(* work on the same database and directory: the worker of the queue takes  *)
(* the requested backups and the restores one at a time, the cron runs the *)
(* scheduled backups inline.  A file is named by the second its dump began *)
(* in.  A restore is several statements: TRUNCATE, then COPY from a file   *)
(* that retention or a deletion may take away meanwhile.                   *)
(*                                                                         *)
(* The tables of the database are one, that has its rows (1) or is empty   *)
(* (0); what else is written to it meanwhile is left out.                  *)
(***************************************************************************)
EXTENDS Integers, Sequences, FiniteSets

CONSTANTS BRun,       (* rows of backup_runs; a larger one started later     *)
          OnDemand,   (* those that requests may create                      *)
          Restore,    (* operation_runs of operation 'backup.restore'        *)
          Keep,       (* retentionCount of the schedule                      *)
          MaxSecond,  (* bound on the clock                                  *)
          BFaults     (* bound on failed statements and crashes              *)

ASSUME BackupAssumption ==
  /\ BRun \subseteq Nat \ {0} /\ IsFiniteSet(BRun) /\ OnDemand \subseteq BRun
  /\ BRun \cap Restore = {}
  /\ Keep \in Nat \ {0} /\ MaxSecond \in Nat \ {0}
  /\ BFaults \in Nat

VARIABLES db, disk,  (* contents of the table; of each file                 *)
          second,    (* the clock; as a file, 0 is none                     *)
          due,       (* a slot of the schedule has passed since lastRunAt   *)
          brun,      (* backup_runs, with the contents its dump has read     *)
          restore,   (* the runs of the restores                            *)
          bjobs,     (* the queue                                           *)
          exec,      (* what the cron and the worker are doing              *)
          torn,      (* runs whose file is unlinked while the row has its   *)
                     (* path                                                *)
          shared,    (* file names that a dump took while another one had   *)
                     (* it: dumping, in its row, or about to be purged      *)
          bFaults

backupVars ==
  <<db, disk, second, due, brun, restore, bjobs, exec, torn, shared, bFaults>>

Executor == {"cron", "worker"}
Contents == {0, 1}
Gone == -1
Partial == -2
Garbled == -3

Unused == [status |-> "none", ofSchedule |-> FALSE, file |-> 0, read |-> 0]
IdleExec == [at |-> "idle", id |-> 0, file |-> 0, read |-> 0, stale |-> {}]
NoRestore == [status |-> "none", from |-> 0, truncates |-> FALSE]

BackupTypeOK ==
  /\ db \in Contents
  /\ disk \in [1..MaxSecond -> Contents \cup {Gone, Partial, Garbled}]
  /\ second \in 1..MaxSecond /\ due \in BOOLEAN
  /\ brun \in [BRun -> [status : {"none", "running", "success", "error", "deleted"},
                        ofSchedule : BOOLEAN, file : 0..MaxSecond, read : Contents]]
  /\ restore \in [Restore -> [status : {"none", "queued", "running", "success", "error", "canceled"},
                              from : BRun \cup {0}, truncates : BOOLEAN]]
  /\ bjobs \in Seq([kind : {"backup"}, id : BRun] \cup [kind : {"restore"}, id : Restore])
  /\ exec \in [Executor -> [at : {"idle", "created", "copying", "stored", "saved", "purging",
                                  "unlinked", "resolve", "truncate", "copyIn", "hung"},
                            id : BRun \cup Restore \cup {0}, file : 0..MaxSecond,
                            read : Contents,
                            stale : SUBSET (BRun \X (1..MaxSecond))]]
  /\ torn \subseteq BRun /\ shared \subseteq 1..MaxSecond
  /\ bFaults \in 0..BFaults

BackupInit ==
  /\ db = 1 /\ disk = [f \in 1..MaxSecond |-> Gone]
  /\ second = 1 /\ due = FALSE
  /\ brun = [r \in BRun |-> Unused]
  /\ restore = [x \in Restore |-> NoRestore]
  /\ bjobs = <<>>
  /\ exec = [e \in Executor |-> IdleExec]
  /\ torn = {} /\ shared = {} /\ bFaults = 0

-----------------------------------------------------------------------------
(* The clock, and the slots of the schedule.                               *)

NextSecond ==
  /\ second < MaxSecond
  /\ second' = second + 1
  /\ UNCHANGED <<db, disk, due, brun, restore, bjobs, exec, torn, shared, bFaults>>

NextSlot ==
  /\ ~due
  /\ \E r \in BRun : brun[r].status = "none"
  /\ due' = TRUE
  /\ UNCHANGED <<db, disk, second, brun, restore, bjobs, exec, torn, shared, bFaults>>

-----------------------------------------------------------------------------
(* Requests.                                                               *)

(* createRun: the next row, 'running'. *)
Fresh(r) == brun[r].status = "none" /\ \A x \in BRun : x < r => brun[x].status # "none"
Running(ofSchedule) == [Unused EXCEPT !.status = "running", !.ofSchedule = ofSchedule]

(* enqueueBackup, by 'run' or by the trigger of the schedule. *)
EnqueueBackup(r, ofSchedule) ==
  /\ r \in OnDemand /\ Fresh(r)
  /\ brun' = [brun EXCEPT ![r] = Running(ofSchedule)]
  /\ bjobs' = Append(bjobs, [kind |-> "backup", id |-> r])
  /\ UNCHANGED <<db, disk, second, due, restore, exec, torn, shared, bFaults>>

(* enqueueRestore from an artifact; only "replace" with tables truncates. *)
EnqueueRestore(x, r, truncates) ==
  /\ restore[x].status = "none"
  /\ brun[r].file # 0
  /\ restore' = [restore EXCEPT ![x] = [status |-> "queued", from |-> r, truncates |-> truncates]]
  /\ bjobs' = Append(bjobs, [kind |-> "restore", id |-> x])
  /\ UNCHANGED <<db, disk, second, due, brun, exec, torn, shared, bFaults>>

(* OperationRunService.cancel looks for the job in another queue, under     *)
(* another id: the job stays.                                              *)
CancelRestore(x) ==
  /\ restore[x].status \in {"queued", "running"}
  /\ restore' = [restore EXCEPT ![x].status = "canceled"]
  /\ UNCHANGED <<db, disk, second, due, brun, bjobs, exec, torn, shared, bFaults>>

(* deleteRun: the file, then the row. *)
Unlinked(f) == IF f = 0 THEN disk ELSE [disk EXCEPT ![f] = Gone]

DeleteUnlink(r) ==
  /\ brun[r].status \in {"success", "error"} /\ r \notin torn
  /\ disk' = Unlinked(brun[r].file)
  /\ torn' = torn \cup {r}
  /\ UNCHANGED <<db, second, due, brun, restore, bjobs, exec, shared, bFaults>>

DeleteRow(r) ==
  /\ r \in torn
  /\ brun' = [brun EXCEPT ![r].status = "deleted", ![r].file = 0]
  /\ torn' = torn \ {r}
  /\ UNCHANGED <<db, disk, second, due, restore, bjobs, exec, shared, bFaults>>

-----------------------------------------------------------------------------
(* The executors take work.                                                *)

(* executeBackup names the file; its run is r. *)
Other(e) == IF e = "cron" THEN "worker" ELSE "cron"
Executing(e, r) ==
  /\ exec' = [exec EXCEPT ![e] = [IdleExec EXCEPT !.at = "created", !.id = r, !.file = second]]
  /\ shared' = IF \/ exec[Other(e)].file = second
                  \/ \E x \in BRun : brun[x].file = second
                  \/ \E s \in exec[Other(e)].stale : s[2] = second
                THEN shared \cup {second} ELSE shared

(* BackupCron.tick: the schedule is due, whatever the queue is doing. *)
CronStarts(r) ==
  /\ due /\ exec["cron"].at = "idle"
  /\ Fresh(r)
  /\ brun' = [brun EXCEPT ![r] = Running(TRUE)]
  /\ Executing("cron", r)
  /\ UNCHANGED <<db, disk, second, due, restore, bjobs, torn, bFaults>>

(* BackupProcessor.process takes the next job: executeBackupById, which    *)
(* finds its run or returns; executeRestore.                               *)
Job == Head(bjobs)
WorkerTakes ==
  /\ exec["worker"].at = "idle" /\ bjobs # <<>>
  /\ bjobs' = Tail(bjobs)
  /\ \/ /\ Job.kind = "backup" /\ brun[Job.id].status = "deleted"
        /\ UNCHANGED <<exec, shared, restore>>
     \/ /\ Job.kind = "backup" /\ brun[Job.id].status # "deleted"
        /\ Executing("worker", Job.id)
        /\ UNCHANGED restore
     \/ /\ Job.kind = "restore" /\ restore[Job.id].status = "canceled"
        /\ UNCHANGED <<exec, shared, restore>>
     \/ /\ Job.kind = "restore" /\ restore[Job.id].status # "canceled"
        /\ restore' = [restore EXCEPT ![Job.id].status = "running"]
        /\ exec' = [exec EXCEPT !["worker"] = [IdleExec EXCEPT !.at = "resolve", !.id = Job.id]]
        /\ UNCHANGED shared
  /\ UNCHANGED <<db, disk, second, due, brun, torn, bFaults>>

-----------------------------------------------------------------------------
(* executeBackup.                                                          *)

Step(e, at) == exec' = [exec EXCEPT ![e].at = at]

(* dumpTables opens the file, which empties it, and COPY takes a snapshot. *)
OpenDump(e) ==
  /\ exec[e].at = "created"
  /\ disk' = [disk EXCEPT ![exec[e].file] =
       IF exec[Other(e)].at = "copying" /\ exec[Other(e)].file = exec[e].file
       THEN Garbled ELSE Partial]
  /\ exec' = [exec EXCEPT ![e].at = "copying", ![e].read = db]
  /\ UNCHANGED <<db, second, due, brun, restore, bjobs, torn, shared, bFaults>>

(* The stream ends, and stat finds the file. *)
CloseDump(e) ==
  /\ exec[e].at = "copying"
  /\ disk[exec[e].file] # Gone
  /\ disk' = [disk EXCEPT ![exec[e].file] = IF @ = Partial THEN exec[e].read ELSE @]
  /\ Step(e, "stored")
  /\ UNCHANGED <<db, second, due, brun, restore, bjobs, torn, shared, bFaults>>

(* The mail or not; a file that is only mailed is not kept. *)
SaveSuccess(e, keepFile) ==
  /\ exec[e].at = "stored"
  /\ LET r == exec[e].id
         kept == IF keepFile THEN exec[e].file ELSE 0
     IN /\ disk' = IF keepFile THEN disk ELSE Unlinked(exec[e].file)
        /\ brun' = [brun EXCEPT ![r].status = "success", ![r].file = kept,
                                ![r].read = IF keepFile THEN exec[e].read ELSE 0]
        /\ exec' = [exec EXCEPT ![e] =
             IF brun[r].ofSchedule
             THEN [@ EXCEPT !.at = "saved", !.file = kept, !.read = 0] ELSE IdleExec]
  /\ UNCHANGED <<db, second, due, restore, bjobs, torn, shared, bFaults>>

(* The catch: unlink, then 'error'.  The path stays in the row when it was *)
(* set before: by a save that failed, or when a later statement fails.     *)
BackupFails(e) ==
  /\ exec[e].at \in {"created", "copying", "stored", "saved", "purging", "unlinked"}
  /\ \/ bFaults < BFaults /\ bFaults' = bFaults + 1
     \/ exec[e].at = "copying" /\ disk[exec[e].file] = Gone /\ UNCHANGED bFaults
  /\ disk' = Unlinked(exec[e].file)
  /\ \E path \in {0, exec[e].file} :
       /\ exec[e].at \in {"created", "copying"} => path = 0
       /\ exec[e].at \in {"saved", "purging", "unlinked"} => path = exec[e].file
       /\ brun' = [brun EXCEPT ![exec[e].id].status = "error", ![exec[e].id].file = path]
  /\ exec' = [exec EXCEPT ![e] = IdleExec]
  /\ UNCHANGED <<db, second, due, restore, bjobs, torn, shared>>

(* applyRetention: what is beyond the newest Keep, by startedAt. *)
WithFile == {r \in BRun : brun[r].ofSchedule /\ brun[r].status = "success" /\ brun[r].file # 0}
Beyond(R) == {<<r, brun[r].file>> : r \in R}

(* Mutation: the oldest are kept. *)
StaleNewest == Beyond({r \in WithFile : Cardinality({x \in WithFile : x < r}) >= Keep})

Stale == Beyond({r \in WithFile : Cardinality({x \in WithFile : x > r}) >= Keep})

(* The loop over the stale runs, until none is left. *)
Purging(e, stale) ==
  exec' = [exec EXCEPT ![e] =
    IF stale = {} THEN IdleExec ELSE [@ EXCEPT !.at = "purging", !.stale = stale]]

(* lastRunAt, then the query of applyRetention. *)
MarkSchedule(e) ==
  /\ exec[e].at = "saved"
  /\ due' = FALSE
  /\ Purging(e, Stale)
  /\ UNCHANGED <<db, disk, second, brun, restore, bjobs, torn, shared, bFaults>>

NextStale(e) == CHOOSE s \in exec[e].stale : \A x \in exec[e].stale : s[1] >= x[1]

PurgeUnlink(e) ==
  /\ exec[e].at = "purging"
  /\ disk' = Unlinked(NextStale(e)[2])
  /\ torn' = torn \cup {NextStale(e)[1]}
  /\ Step(e, "unlinked")
  /\ UNCHANGED <<db, second, due, brun, restore, bjobs, shared, bFaults>>

(* save inserts the row again if it was deleted meanwhile. *)
PurgeSave(e) ==
  /\ exec[e].at = "unlinked"
  /\ brun' = [brun EXCEPT ![NextStale(e)[1]].file = 0, ![NextStale(e)[1]].status = "success"]
  /\ torn' = torn \ {NextStale(e)[1]}
  /\ Purging(e, exec[e].stale \ {NextStale(e)})
  /\ UNCHANGED <<db, disk, second, due, restore, bjobs, shared, bFaults>>

-----------------------------------------------------------------------------
(* executeRestore, by the worker.                                          *)

At(where) == exec["worker"].at = where
This == exec["worker"].id
Finish(status) ==
  /\ restore' = [restore EXCEPT ![This].status = status]
  /\ exec' = [exec EXCEPT !["worker"] = IdleExec]

(* doRestore looks the artifact up again. *)
ResolveGone ==
  /\ At("resolve") /\ brun[restore[This].from].file = 0
  /\ Finish("error")
  /\ UNCHANGED <<db, disk, second, due, brun, bjobs, torn, shared, bFaults>>

Resolve ==
  /\ At("resolve") /\ brun[restore[This].from].file # 0
  /\ exec' = [exec EXCEPT !["worker"].at = IF restore[This].truncates THEN "truncate" ELSE "copyIn",
                          !["worker"].file = brun[restore[This].from].file]
  /\ UNCHANGED <<db, disk, second, due, brun, restore, bjobs, torn, shared, bFaults>>

Truncate ==
  /\ At("truncate")
  /\ db' = 0
  /\ Step("worker", "copyIn")
  /\ UNCHANGED <<disk, second, due, brun, restore, bjobs, torn, shared, bFaults>>

Artifact == disk[exec["worker"].file]

(* restoreTables: into the empty table, or with nothing to add. *)
CopyIn ==
  /\ At("copyIn") /\ Artifact >= 0
  /\ db = 0 \/ Artifact = 0
  /\ db' = IF db = 0 THEN Artifact ELSE db
  /\ Finish("success")
  /\ UNCHANGED <<disk, second, due, brun, bjobs, torn, shared, bFaults>>

(* No file, a bad one, rows that exist already; or a statement fails.      *)
RestoreFails ==
  /\ \/ At("copyIn") /\ (Artifact < 0 \/ (db # 0 /\ Artifact # 0)) /\ UNCHANGED bFaults
     \/ (At("truncate") \/ At("copyIn")) /\ bFaults < BFaults /\ bFaults' = bFaults + 1
  /\ Finish("error")
  /\ UNCHANGED <<db, disk, second, due, brun, bjobs, torn, shared>>

(* The data of a table breaks off: ENABLE TRIGGER waits for a COPY that    *)
(* nobody ends.                                                            *)
RestoreHangs ==
  /\ At("copyIn") /\ Artifact \in {Partial, Garbled}
  /\ Step("worker", "hung")
  /\ UNCHANGED <<db, disk, second, due, brun, restore, bjobs, torn, shared, bFaults>>

-----------------------------------------------------------------------------
(* Mutation: the interrupted job is not delivered again. *)
BackupCrashLosesJob ==
  /\ bFaults < BFaults /\ bFaults' = bFaults + 1
  /\ exec' = [e \in Executor |-> IdleExec]
  /\ UNCHANGED <<db, disk, second, due, brun, restore, bjobs, torn, shared>>

(* The process dies; the worker's job stalls and is delivered again.       *)
BackupCrash ==
  /\ bFaults < BFaults /\ bFaults' = bFaults + 1
  /\ exec' = [e \in Executor |-> IdleExec]
  /\ bjobs' = IF At("idle") THEN bjobs
              ELSE <<[kind |-> IF This \in Restore THEN "restore" ELSE "backup", id |-> This]>> \o bjobs
  /\ UNCHANGED <<db, disk, second, due, brun, restore, torn, shared>>

Dumping(e) ==
  \/ OpenDump(e) \/ CloseDump(e) \/ BackupFails(e)
  \/ \E keepFile \in BOOLEAN : SaveSuccess(e, keepFile)
  \/ MarkSchedule(e) \/ PurgeUnlink(e) \/ PurgeSave(e)
Restoring ==
  ResolveGone \/ Resolve \/ Truncate \/ CopyIn \/ RestoreFails \/ RestoreHangs

BackupNext ==
  \/ NextSecond \/ NextSlot
  \/ \E r \in BRun : \/ \E ofSchedule \in BOOLEAN : EnqueueBackup(r, ofSchedule)
                     \/ DeleteUnlink(r) \/ DeleteRow(r) \/ CronStarts(r)
                     \/ \E x \in Restore, truncates \in BOOLEAN : EnqueueRestore(x, r, truncates)
  \/ \E x \in Restore : CancelRestore(x)
  \/ WorkerTakes
  \/ \E e \in Executor : Dumping(e)
  \/ Restoring
  \/ BackupCrash

BackupSpec == BackupInit /\ [][BackupNext]_backupVars

-----------------------------------------------------------------------------
(* Properties.                                                             *)

(* A successful run that has a file has its whole dump on disk, whatever   *)
(* else was dumped, purged, deleted or failed: unless its own removal has  *)
(* begun, or another dump took the same name within the second.            *)
ArtifactsWhole ==
  \A r \in BRun \ torn :
    brun[r].status = "success" /\ brun[r].file \notin {0} \cup shared =>
      disk[brun[r].file] = brun[r].read

(* applyRetention: when no executor is in it, and nothing failed, the      *)
(* schedule has at most Keep runs with a file, although the cron and the   *)
(* worker may both apply it.                                               *)
FilesBounded ==
  bFaults = 0 /\ (\A e \in Executor : exec[e].at \notin {"saved", "purging", "unlinked"}) =>
    Cardinality(WithFile) <= Keep

(* Retention takes the file of a run only when as many as are kept have    *)
(* started and ended after it.                                             *)
NewestAreKept ==
  [][\A e \in Executor :
       exec[e].at = "purging" /\ exec'[e].at = "unlinked" =>
         Cardinality({x \in BRun : /\ x > NextStale(e)[1]
                                   /\ brun[x].ofSchedule
                                   /\ brun[x].status \notin {"none"}}) >= Keep]_backupVars

(* A restore that ends in an error after its TRUNCATE leaves the table     *)
(* empty.  That happens only when a statement fails in it, or when the     *)
(* artifact it had found was not a sound one: of a run that failed after   *)
(* it had saved the path, being purged or deleted, or of two runs in one   *)
(* second.                                                                 *)
EmptiedOnlyByRace ==
  [][\A x \in Restore :
       restore'[x].status = "error" /\ restore[x].status # "error"
         /\ At("copyIn") /\ restore[x].truncates =>
           LET r == brun[restore[x].from]
           IN \/ bFaults' > bFaults \/ restore[x].from \in torn \/ r.file = 0
              \/ r.status # "success" \/ exec["worker"].file \in shared]_backupVars

(* isDue until a backup of the schedule succeeds: a failed or interrupted  *)
(* one is taken again (or the rows of the model are used up).              *)
DueBackupTaken == due ~> ~due \/ \A r \in BRun : brun[r].status # "none"

(* A restore ends, also after a crash, unless it is canceled or a bad file *)
(* holds the worker.                                                       *)
RestoresEnd ==
  \A x \in Restore :
    restore[x].status = "queued" ~>
      restore[x].status \in {"success", "error", "canceled"} \/ At("hung")

(* A dump by the worker never reads a table that a restore is filling, so  *)
(* one that finds it empty comes after a restore that failed, was canceled *)
(* while it ran and interrupted, or copied back an empty dump: the queue   *)
(* takes one job at a time, an interrupted one first.  The dumps of the    *)
(* cron run beside the queue, may read the table in the middle of a        *)
(* restore, and are restored like any other.                               *)
WorkerDumpsWhole ==
  exec["worker"].at = "stored" /\ exec["worker"].read = 0 =>
    \E x \in Restore :
      /\ restore[x].truncates
      /\ \/ restore[x].status \in {"error", "canceled"}
         \/ /\ restore[x].status = "success"
            /\ brun[restore[x].from].read = 0 \/ shared # {}

(* The backups that are kept are the newest, whole and no more than asked  *)
(* for, and a restore empties a table only by a race the code leaves open. *)
BackupsUsable ==
  /\ NewestAreKept /\ EmptiedOnlyByRace
  /\ []ArtifactsWhole /\ []FilesBounded /\ []WorkerDumpsWhole

(* Every backup that is due and every restore asked for comes to an end.   *)
BackupsGoOn == DueBackupTaken /\ RestoresEnd
=============================================================================
