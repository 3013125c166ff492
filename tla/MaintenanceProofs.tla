-------------------------- MODULE MaintenanceProofs --------------------------
(***************************************************************************)
(* Theorems about OperationRuns and Maintenance: for any runs, workers,    *)
(* windows and trace rows, with any number of stalls and faults.           *)
(***************************************************************************)
EXTENDS Maintenance, TLAPS

USE RunAssumption, RetentionAssumption

-----------------------------------------------------------------------------
(* The invariant of the runs, in parts that every step keeps together.     *)

(* A job begins when its run has been stored; what may still begin it is   *)
(* accounted for (starts against stalls).                                  *)
JobsFit ==
  \A r \in Run :
    /\ status[r] = "none" => r \notin inserting /\ job[r] = "none" /\ cancel[r] = "no"
    /\ r \in inserting => job[r] = "none"
    /\ job[r] = "none" => starts[r] = 0 /\ stalls[r] = 0
    /\ job[r] = "waiting" => starts[r] <= stalls[r]
    /\ starts[r] <= 1 + stalls[r]

(* A job is in the hands of one worker at most, and is active then.        *)
HoldersFit ==
  /\ \A w \in Worker : worker[w].run \in Run =>
       /\ job[worker[w].run] = "active"
       /\ worker[w].at \in {"picked", "found"} => starts[worker[w].run] <= stalls[worker[w].run]
       /\ worker[w].at = "stored" => status[worker[w].run] \in Ended
  /\ \A w, v \in Worker : worker[w].run \in Run /\ worker[v].run = worker[w].run => v = w

(* A run nobody cancels and no crash has touched goes from queued to       *)
(* running to its end, in step with its job.                               *)
Undisturbed(r) == cancel[r] = "no" /\ stalls[r] = 0

PlainRunsFit ==
  /\ \A r \in Run :
       Undisturbed(r) /\ job[r] \in {"none", "waiting"} /\ status[r] # "none" => status[r] = "queued"
  /\ \A w \in Worker : worker[w].run \in Run /\ Undisturbed(worker[w].run) =>
       /\ worker[w].at \in {"picked", "found"} => status[worker[w].run] = "queued"
       /\ worker[w].at \in {"marked", "succeeded", "failed"} => status[worker[w].run] = "running"

(* Without faults a job that is active has its worker, and a run that was  *)
(* canceled while it waited stays canceled.                                *)
FaultlessRunsFit ==
  faults = 0 =>
    \A r \in Run :
      /\ job[r] = "active" => \E w \in Worker : worker[w].run = r
      /\ job[r] \in {"none", "waiting"} /\ cancel[r] \in {"saved", "done"} => status[r] = "canceled"
      /\ status[r] \in Active => r \in inserting \/ job[r] \in {"waiting", "active"}

RunsInv == RunsTypeOK /\ JobsFit /\ HoldersFit /\ PlainRunsFit /\ FaultlessRunsFit

-----------------------------------------------------------------------------
LEMMA FreshIsNew ==
  ASSUME \E r \in Run : status[r] = "none"
  PROVE  Fresh \in Run /\ status[Fresh] = "none"
BY DEF Fresh

(* A worker that is anywhere but idle has a run. *)
LEMMA BusyHasRun ==
  ASSUME RunsTypeOK, NEW w \in Worker
  PROVE  /\ worker[w].at # "idle" => worker[w] \in Held /\ worker[w].run \in Run
         /\ worker[w].at = "idle" => worker[w].run \notin Run
BY DEF RunsTypeOK, Held, Idle

(* The steps of a worker that keeps its job. *)
LEMMA MoveTyped ==
  ASSUME RunsTypeOK, NEW w \in Worker, worker[w].at # "idle",
         NEW place \in {"picked", "found", "marked", "succeeded", "failed", "stored"},
         Move(w, place)
  PROVE  /\ worker' \in [Worker -> Held \cup {Idle}]
         /\ worker'[w].run = worker[w].run /\ worker'[w].at = place
         /\ \A v \in Worker \ {w} : worker'[v] = worker[v]
<1>1. worker[w] \in Held BY BusyHasRun
<1>2. worker'[w] = [worker[w] EXCEPT !.at = place] BY DEF Move, RunsTypeOK
<1>3. worker'[w] = [run |-> worker[w].run, at |-> place] BY <1>1, <1>2 DEF Held
<1>4. worker'[w] \in Held BY <1>1, <1>3 DEF Held
<1> QED BY <1>3, <1>4 DEF Move, RunsTypeOK

LEMMA ReleaseTyped ==
  ASSUME RunsTypeOK, NEW w \in Worker, worker[w].at # "idle", Release(w)
  PROVE  /\ worker' \in [Worker -> Held \cup {Idle}]
         /\ worker'[w].run \notin Run /\ worker'[w].at = "idle"
         /\ \A v \in Worker \ {w} : worker'[v] = worker[v]
         /\ job' \in [Run -> {"none", "waiting", "active", "gone"}]
         /\ job'[worker[w].run] = "gone"
         /\ \A r \in Run \ {worker[w].run} : job'[r] = job[r]
<1>1. worker[w].run \in Run BY BusyHasRun
<1> QED BY <1>1 DEF Release, RunsTypeOK, Idle

(* The steps that leave the workers alone. *)
LEMMA RequestKeepsRunsInv ==
  ASSUME RunsInv,
         CreateRun \/ \E r \in Run : EnqueueRun(r) \/ CancelRead(r) \/ CancelSave(r) \/ CancelRemove(r)
  PROVE  RunsInv'
<1> USE DEF RunsInv, RunsTypeOK, Active, Ended
<1>1. CASE CreateRun
  <2>1. Fresh \in Run /\ status[Fresh] = "none" BY <1>1, FreshIsNew DEF CreateRun
  <2>2. /\ Fresh \notin inserting /\ job[Fresh] = "none" /\ cancel[Fresh] = "no"
        /\ \A w \in Worker : worker[w].run # Fresh
    BY <2>1 DEF JobsFit, HoldersFit
  <2>3. /\ status'[Fresh] = "queued" /\ \A r \in Run : r # Fresh => status'[r] = status[r]
        /\ inserting' = inserting \cup {Fresh}
    BY <2>1, <1>1 DEF CreateRun
  <2>4. UNCHANGED <<job, worker, cancel, starts, stalls, faults>> BY <1>1 DEF CreateRun
  <2>5. RunsTypeOK' BY <2>1, <2>4, <1>1 DEF CreateRun
  <2>6. JobsFit' BY <2>1, <2>2, <2>3, <2>4 DEF JobsFit
  <2>7. HoldersFit' BY <2>1, <2>2, <2>3, <2>4 DEF HoldersFit
  <2>8. PlainRunsFit' BY <2>1, <2>2, <2>3, <2>4 DEF PlainRunsFit, Undisturbed
  <2>9. FaultlessRunsFit' BY <2>1, <2>2, <2>3, <2>4 DEF FaultlessRunsFit
  <2> QED BY <2>5, <2>6, <2>7, <2>8, <2>9
<1>2. ASSUME NEW r \in Run, EnqueueRun(r) PROVE RunsInv'
  <2> USE <1>2 DEF EnqueueRun
  <2>1. RunsTypeOK' OBVIOUS
  <2>2. JobsFit' BY DEF JobsFit
  <2>3. HoldersFit' BY DEF HoldersFit, JobsFit
  <2>4. PlainRunsFit' BY DEF PlainRunsFit, Undisturbed, JobsFit
  <2>5. FaultlessRunsFit' BY DEF FaultlessRunsFit, JobsFit
  <2> QED BY <2>1, <2>2, <2>3, <2>4, <2>5
<1>3. ASSUME NEW r \in Run, CancelRead(r) PROVE RunsInv'
  <2> USE <1>3 DEF CancelRead
  <2>1. RunsTypeOK' OBVIOUS
  <2>2. JobsFit' BY DEF JobsFit
  <2>3. HoldersFit' BY DEF HoldersFit
  <2>4. PlainRunsFit' BY DEF PlainRunsFit, Undisturbed
  <2>5. FaultlessRunsFit' BY DEF FaultlessRunsFit
  <2> QED BY <2>1, <2>2, <2>3, <2>4, <2>5
<1>4. ASSUME NEW r \in Run, CancelSave(r) PROVE RunsInv'
  <2> USE <1>4 DEF CancelSave
  <2>1. RunsTypeOK' OBVIOUS
  <2>2. JobsFit' BY DEF JobsFit
  <2>3. HoldersFit' BY DEF HoldersFit
  <2>4. PlainRunsFit' BY DEF PlainRunsFit, Undisturbed
  <2>5. FaultlessRunsFit' BY DEF FaultlessRunsFit
  <2> QED BY <2>1, <2>2, <2>3, <2>4, <2>5
<1>5. ASSUME NEW r \in Run, CancelRemove(r) PROVE RunsInv'
  <2> USE <1>5 DEF CancelRemove
  <2>1. RunsTypeOK' OBVIOUS
  <2>2. JobsFit' BY DEF JobsFit
  <2>3. HoldersFit' BY DEF HoldersFit
  <2>4. PlainRunsFit' BY DEF PlainRunsFit, Undisturbed
  <2>5. FaultlessRunsFit' BY DEF FaultlessRunsFit
  <2> QED BY <2>1, <2>2, <2>3, <2>4, <2>5
<1> QED BY <1>1, <1>2, <1>3, <1>4, <1>5

(* A worker takes a job. *)
LEMMA PickKeepsRunsInv ==
  ASSUME RunsInv, NEW w \in Worker, NEW r \in Run, Pick(w, r)
  PROVE  RunsInv'
<1> USE DEF RunsInv, Active, Ended
<1>1. At(w, "idle") /\ job[r] = "waiting" BY DEF Pick
<1>2. worker[w].run \notin Run /\ \A v \in Worker : worker[v].run # r
  BY <1>1, BusyHasRun DEF HoldersFit, At
<1>3. /\ worker'[w].run = r /\ worker'[w].at = "picked"
      /\ \A v \in Worker \ {w} : worker'[v] = worker[v]
      /\ job'[r] = "active" /\ \A q \in Run \ {r} : job'[q] = job[q]
      /\ RunsTypeOK'
  BY DEF Pick, RunsTypeOK, Held
<1>4. UNCHANGED <<status, inserting, cancel, starts, stalls, faults>> BY DEF Pick
<1>5. JobsFit' BY <1>1, <1>3, <1>4 DEF JobsFit
<1>6. HoldersFit' BY <1>1, <1>2, <1>3, <1>4 DEF HoldersFit, JobsFit
<1>7. PlainRunsFit' BY <1>1, <1>2, <1>3, <1>4 DEF PlainRunsFit, Undisturbed, JobsFit
<1>8. FaultlessRunsFit' BY <1>1, <1>2, <1>3, <1>4 DEF FaultlessRunsFit
<1> QED BY <1>3, <1>5, <1>6, <1>7, <1>8

(* A worker goes on with its run: what it may do to it, and what not. *)
LEMMA MoveKeepsRunsInv ==
  ASSUME RunsInv, NEW w \in Worker, worker[w].at # "idle",
         NEW place \in {"picked", "found", "marked", "succeeded", "failed", "stored"},
         Move(w, place), NEW q, q = worker[w].run,
         \A r \in Run \ {q} : status'[r] = status[r] /\ starts'[r] = starts[r],
         status' \in [Run -> {"none"} \cup Active \cup Ended], starts' \in [Run -> Nat],
         UNCHANGED <<job, inserting, cancel, stalls>>,
         faults' \in 0..MaxFaults, faults' >= faults,
         \/ worker[w].at = "picked" /\ place = "found" /\ status[q] # "canceled"
              /\ status'[q] = status[q] /\ starts'[q] = starts[q]
         \/ worker[w].at = "found" /\ place = "marked"
              /\ status'[q] = "running" /\ starts'[q] = starts[q] + 1
         \/ worker[w].at \in {"marked", "succeeded"} /\ place \in {"succeeded", "failed"}
              /\ status'[q] = status[q] /\ starts'[q] = starts[q]
         \/ worker[w].at \in {"succeeded", "failed"} /\ place = "stored"
              /\ status'[q] \in Ended /\ starts'[q] = starts[q]
  PROVE  RunsInv'
<1> USE DEF RunsInv
<1>1. /\ RunsTypeOK' /\ q \in Run /\ job[q] = "active"
      /\ worker'[w].run = q /\ worker'[w].at = place
      /\ \A v \in Worker \ {w} : worker'[v] = worker[v] /\ worker[v].run # q
  BY MoveTyped, BusyHasRun DEF HoldersFit, RunsTypeOK
<1>2. status[q] # "none" BY <1>1 DEF JobsFit
<1>3. stalls[q] \in Nat /\ starts[q] \in Nat BY <1>1 DEF RunsTypeOK
<1>4. JobsFit'
  <2>1. starts[q] <= 1 + stalls[q] BY <1>1 DEF JobsFit
  <2>2. worker[w].at = "found" => starts[q] <= stalls[q] BY <1>1 DEF HoldersFit
  <2>3. starts'[q] <= 1 + stalls[q] BY <1>3, <2>1, <2>2
  <2>4. status'[q] # "none" BY <1>2 DEF Ended
  <2> QED BY <1>1, <2>3, <2>4 DEF JobsFit
<1>5. HoldersFit' BY <1>1, <1>2, <1>3 DEF HoldersFit, Ended
<1>6. PlainRunsFit' BY <1>1, <1>2 DEF PlainRunsFit, Undisturbed
<1>7. FaultlessRunsFit' BY <1>1 DEF FaultlessRunsFit, RunsTypeOK
<1> QED BY <1>1, <1>4, <1>5, <1>6, <1>7

(* A worker is done with its run. *)
LEMMA ReleaseKeepsRunsInv ==
  ASSUME RunsInv, NEW w \in Worker, worker[w].at # "idle", Release(w),
         UNCHANGED <<status, inserting, cancel, starts, stalls>>,
         faults' \in 0..MaxFaults,
         faults' = 0 => faults = 0 /\ status[worker[w].run] \in Ended
  PROVE  RunsInv'
<1> USE DEF RunsInv
<1> DEFINE q == worker[w].run
<1>1. /\ RunsTypeOK' /\ q \in Run /\ job[q] = "active" /\ job'[q] = "gone"
      /\ worker'[w].run \notin Run
      /\ \A r \in Run \ {q} : job'[r] = job[r]
      /\ \A v \in Worker \ {w} : worker'[v] = worker[v] /\ worker[v].run # q
  BY ReleaseTyped, BusyHasRun DEF HoldersFit, RunsTypeOK
<1> HIDE DEF q
<1>2. JobsFit' BY <1>1 DEF JobsFit
<1>3. HoldersFit' BY <1>1 DEF HoldersFit
<1>4. PlainRunsFit' BY <1>1 DEF PlainRunsFit, Undisturbed
<1>5. FaultlessRunsFit' BY <1>1 DEF FaultlessRunsFit, q, Active, Ended
<1> QED BY <1>1, <1>2, <1>3, <1>4, <1>5

LEMMA WorkerKeepsRunsInv ==
  ASSUME RunsInv, NEW w \in Worker,
         \/ WorkerStep(w) \/ DispatchReturns(w) \/ DispatchThrows(w) \/ StatementFails(w)
  PROVE  RunsInv'
<1> DEFINE q == worker[w].run
<1> USE DEF At
<1>0. RunsTypeOK BY DEF RunsInv
<1>1. worker[w].at # "idle" => q \in Run BY <1>0, BusyHasRun
<1>2. CASE Find(w)
  <2> USE <1>2 DEF Find
  <2>1. CASE status[q] = "canceled"
    <3>1. Release(w) /\ faults' \in 0..MaxFaults /\ worker[w].at # "idle" BY <2>1, <1>0 DEF RunsTypeOK
    <3> QED BY <3>1, <2>1, ReleaseKeepsRunsInv DEF Ended
  <2>2. CASE status[q] # "canceled"
    <3>1. Move(w, "found") /\ faults' \in 0..MaxFaults /\ faults' >= faults
      BY <2>2, <1>0 DEF RunsTypeOK
    <3> QED BY <3>1, <2>2, <1>0, MoveKeepsRunsInv DEF RunsTypeOK
  <2> QED BY <2>1, <2>2
<1>3. CASE MarkRunning(w)
  <2> USE <1>3 DEF MarkRunning
  <2>1. /\ Move(w, "marked") /\ faults' \in 0..MaxFaults /\ faults' >= faults /\ q \in Run
        /\ status' \in [Run -> {"none"} \cup Active \cup Ended] /\ starts' \in [Run -> Nat]
        /\ status'[q] = "running" /\ starts'[q] = starts[q] + 1
        /\ \A r \in Run \ {q} : status'[r] = status[r] /\ starts'[r] = starts[r]
    BY <1>0, <1>1 DEF RunsTypeOK, Active
  <2> QED BY <2>1, MoveKeepsRunsInv
<1>4. CASE MarkSuccess(w) \/ MarkError(w)
  <2> USE DEF MarkSuccess, MarkError, MarkEnd
  <2>1. /\ Move(w, "stored") /\ faults' \in 0..MaxFaults /\ faults' >= faults /\ q \in Run
        /\ status' \in [Run -> {"none"} \cup Active \cup Ended] /\ starts' = starts
        /\ status'[q] \in Ended /\ worker[w].at \in {"succeeded", "failed"}
        /\ \A r \in Run \ {q} : status'[r] = status[r]
    BY <1>0, <1>1, <1>4 DEF RunsTypeOK, Ended
  <2>2. UNCHANGED <<job, inserting, cancel, stalls>> BY <1>4
  <2> QED BY <2>1, <2>2, <1>0, MoveKeepsRunsInv DEF RunsTypeOK
<1>5. CASE Complete(w)
  <2> USE <1>5 DEF Complete
  <2>1. q \in Run /\ status[q] \in Ended BY <1>1 DEF RunsInv, HoldersFit
  <2> QED BY <2>1, <1>0, ReleaseKeepsRunsInv DEF RunsTypeOK
<1>6. ASSUME NEW r \in Run, Pick(w, r) PROVE RunsInv'
  BY <1>6, PickKeepsRunsInv
<1>7. CASE DispatchReturns(w)
  BY <1>7, <1>0, MoveKeepsRunsInv DEF DispatchReturns, RunsTypeOK
<1>8. CASE DispatchThrows(w)
  BY <1>8, <1>0, MoveKeepsRunsInv DEF DispatchThrows, Fault, RunsTypeOK
<1>9. CASE StatementFails(w)
  <2> USE DEF StatementFails, Fault
  <2>1. /\ faults' \in 0..MaxFaults /\ faults' >= faults /\ faults' # 0
        /\ UNCHANGED <<status, inserting, cancel, starts, stalls>>
    BY <1>9, <1>0 DEF RunsTypeOK
  <2>2. CASE At(w, "succeeded") /\ Move(w, "failed") /\ job' = job
    BY <2>1, <2>2, <1>0, MoveKeepsRunsInv DEF RunsTypeOK
  <2>3. CASE worker[w].at \in {"picked", "found", "failed"} /\ Release(w)
    BY <2>1, <2>3, ReleaseKeepsRunsInv
  <2> QED BY <2>2, <2>3, <1>9
<1> QED BY <1>2, <1>3, <1>4, <1>5, <1>6, <1>7, <1>8, <1>9 DEF WorkerStep

LEMMA FaultsKeepRunsInv ==
  ASSUME RunsInv, Crash \/ \E r \in Run : Stalled(r)
  PROVE  RunsInv'
<1> USE DEF RunsInv
<1>1. CASE Crash
  <2>1. /\ faults' \in 0..MaxFaults /\ faults' # 0 /\ inserting' = {}
        /\ worker' = [w \in Worker |-> Idle]
        /\ cancel' = [r \in Run |-> IF cancel[r] \in {"read", "saved"} THEN "done" ELSE cancel[r]]
        /\ UNCHANGED <<status, job, starts, stalls>>
    BY <1>1 DEF Crash, Fault, RunsTypeOK
  <2>2. \A w \in Worker : worker'[w].run \notin Run BY <2>1 DEF Idle
  <2>3. \A r \in Run : (cancel'[r] = "no") <=> (cancel[r] = "no") BY <2>1 DEF RunsTypeOK
  <2>4. RunsTypeOK' BY <2>1 DEF RunsTypeOK
  <2>5. JobsFit' BY <2>1, <2>3 DEF JobsFit
  <2>6. HoldersFit' BY <2>2 DEF HoldersFit
  <2>7. PlainRunsFit' BY <2>1, <2>2, <2>3 DEF PlainRunsFit, Undisturbed
  <2>8. FaultlessRunsFit' BY <2>1 DEF FaultlessRunsFit
  <2> QED BY <2>4, <2>5, <2>6, <2>7, <2>8
<1>2. ASSUME NEW r \in Run, Stalled(r) PROVE RunsInv'
  <2> USE <1>2 DEF Stalled
  <2>1. /\ job[r] = "active" /\ \A w \in Worker : worker[w].run # r
        /\ UNCHANGED <<status, inserting, worker, cancel, starts, faults>>
    BY DEF HeldBy
  <2>2. faults # 0 BY <2>1 DEF FaultlessRunsFit
  <2>3. /\ job'[r] \in {"waiting", "gone"} /\ \A q \in Run \ {r} : job'[q] = job[q]
        /\ stalls'[r] \in Nat /\ \A q \in Run \ {r} : stalls'[q] = stalls[q]
        /\ stalls'[r] >= stalls[r] /\ (job'[r] = "waiting" => stalls'[r] = 1 + stalls[r])
        /\ RunsTypeOK'
    BY DEF RunsTypeOK
  <2>4. JobsFit'
    <3>1. starts[r] <= 1 + stalls[r] /\ starts[r] \in Nat /\ stalls[r] \in Nat
      BY DEF JobsFit, RunsTypeOK
    <3>2. starts[r] <= 1 + stalls'[r] BY <3>1, <2>3
    <3>3. job'[r] = "waiting" => starts[r] <= stalls'[r] BY <3>1, <2>3
    <3>4. status[r] # "none" /\ r \notin inserting BY <2>1 DEF JobsFit
    <3> QED BY <3>2, <3>3, <3>4, <2>1, <2>3 DEF JobsFit
  <2>5. HoldersFit' BY <2>1, <2>3 DEF HoldersFit
  <2>6. PlainRunsFit'
    <3>1. Undisturbed(r)' => job'[r] = "gone" BY <2>3 DEF Undisturbed, RunsTypeOK
    <3> QED BY <3>1, <2>1, <2>3 DEF PlainRunsFit, Undisturbed
  <2>7. FaultlessRunsFit' BY <2>1, <2>2 DEF FaultlessRunsFit
  <2> QED BY <2>3, <2>4, <2>5, <2>6, <2>7
<1> QED BY <1>1, <1>2

LEMMA RunsInductive ==
  ASSUME RunsInv, [RunsNext]_runVars
  PROVE  RunsInv'
<1>1. CASE RunsNext
  BY <1>1, RequestKeepsRunsInv, WorkerKeepsRunsInv, FaultsKeepRunsInv DEF RunsNext, RequestStep
<1>2. CASE UNCHANGED runVars
  BY <1>2 DEF runVars, RunsInv, RunsTypeOK, JobsFit, HoldersFit, PlainRunsFit, FaultlessRunsFit,
              Undisturbed
<1> QED BY <1>1, <1>2

LEMMA RunsInvInitially ==
  ASSUME RunsInit
  PROVE  RunsInv
BY DEF RunsInit, RunsInv, RunsTypeOK, JobsFit, HoldersFit, PlainRunsFit, FaultlessRunsFit,
       Undisturbed, Active, Ended, Idle

(* Every step of the queue with its work is one of the runs, or none. *)
LEMMA StepOfRuns ==
  ASSUME [Next]_vars
  PROVE  [RunsNext]_runVars
<1> USE DEF RunsNext, RequestStep
<1>1. CASE TriggerTable \/ TriggerPurge \/ \E r \in Run : CancelRequest(r)
  BY <1>1 DEF TriggerTable, TriggerPurge, Trigger, CancelRequest
<1>2. CASE RequestGoesOn BY <1>2 DEF RequestGoesOn
<1>3. CASE SetSave \/ \E change \in [days : Days, enabled : BOOLEAN] : SetRead(change)
  BY <1>3 DEF SetSave, SetRead
<1>4. CASE Scheduler BY <1>4 DEF Scheduler, TickRead, TickCreate
<1>5. ASSUME NEW w \in Worker, Work(w) \/ OperationFails(w) \/ StatementFails(w)
      PROVE  [RunsNext]_runVars
  BY <1>5 DEF Work, PurgeRead, PurgeBatch, PurgeSave, TableOperation, OperationFails
<1>6. CASE ProcessDies \/ Redeliver \/ NextDay
  BY <1>6 DEF ProcessDies, Redeliver, NextDay
<1>7. CASE UNCHANGED vars BY <1>7 DEF vars
<1> QED BY <1>1, <1>2, <1>3, <1>4, <1>5, <1>6, <1>7 DEF Next

LEMMA RunsInvHolds == Spec => []RunsInv
<1>1. Init => RunsInv BY RunsInvInitially DEF Init
<1>2. RunsInv /\ [Next]_vars => RunsInv' BY RunsInductive, StepOfRuns
<1> QED BY <1>1, <1>2, PTL DEF Spec

-----------------------------------------------------------------------------
(* What the invariant of the runs gives.                                   *)

LEMMA TypesInductive ==
  ASSUME TypeOK, [Next]_vars, RunsTypeOK'
  PROVE  TypeOK'
<1> USE DEF TypeOK, Window, Config, ConfigOf, Purges, bounds
<1>1. CASE TriggerTable \/ TriggerPurge \/ \E r \in Run : CancelRequest(r)
  BY <1>1, FreshIsNew DEF TriggerTable, TriggerPurge, Trigger, CancelRequest, Request, CreateRun
<1>2. CASE RequestGoesOn BY <1>2 DEF RequestGoesOn, retentionVars
<1>3. ASSUME NEW change \in [days : Days, enabled : BOOLEAN], SetRead(change) PROVE TypeOK'
  <2>1. patch' = [days |-> change.days, enabled |-> change.enabled]
    BY <1>3 DEF SetRead
  <2> QED BY <1>3, <2>1 DEF SetRead
<1>4. CASE SetSave
  <2>1. patch \in Config BY <1>4 DEF SetSave
  <2>2. setting' = [days |-> patch.days, enabled |-> patch.enabled, last |-> setting.last]
    BY <1>4 DEF SetSave
  <2> QED BY <1>4, <2>1, <2>2 DEF SetSave
<1>5. CASE TickRead BY <1>5 DEF TickRead
<1>6. CASE TickCreate BY <1>6, FreshIsNew DEF TickCreate, CreateRun
<1>7. ASSUME NEW w \in Worker, Work(w) \/ OperationFails(w) PROVE TypeOK'
  <2>1. CASE PurgeRead(w) BY <2>1 DEF PurgeRead
  <2>2. CASE PurgeBatch(w) BY <2>2 DEF PurgeBatch, Expired
  <2>3. CASE PurgeSave(w)
    <3>1. purge[w] \in Config /\ day \in 0..MaxDay BY <2>3 DEF PurgeSave
    <3>2. setting' \in [days : Window, enabled : BOOLEAN, last : 0..MaxDay]
      BY <3>1, <2>3 DEF PurgeSave, StoredByPurge
    <3> QED BY <3>2, <2>3 DEF PurgeSave
  <2>4. CASE (WorkerStep(w) /\ UNCHANGED retentionVars) \/ TableOperation(w)
    BY <2>4 DEF TableOperation, retentionVars
  <2>5. CASE OperationFails(w) BY <2>5 DEF OperationFails
  <2> QED BY <2>1, <2>2, <2>3, <2>4, <2>5, <1>7 DEF Work
<1>8. CASE (\E w \in Worker : StatementFails(w) /\ UNCHANGED retentionVars) \/ Redeliver
  BY <1>8 DEF Redeliver, retentionVars
<1>9. CASE ProcessDies BY <1>9 DEF ProcessDies
<1>10. CASE NextDay BY <1>10 DEF NextDay
<1>11. CASE UNCHANGED vars BY <1>11 DEF vars, retentionVars
<1> QED BY <1>1, <1>2, <1>3, <1>4, <1>5, <1>6, <1>7, <1>8, <1>9, <1>10, <1>11 DEF Next, Scheduler

(* The queue, the catalogue's settings and the clock stay in their types   *)
(* (operation-run.entity.ts, retention-setting.entity.ts).                 *)
THEOREM TypeCorrect == Spec => []TypeOK
<1>1. Init => TypeOK
  BY RunsInvInitially DEF Init, TypeOK, RunsInv, ConfigOf, Config, Window
<1>2. RunsInv' => RunsTypeOK' BY DEF RunsInv
<1>3. TypeOK /\ [Next]_vars /\ RunsTypeOK' => TypeOK' BY TypesInductive
<1> QED BY <1>1, <1>2, <1>3, RunsInvHolds, PTL DEF Spec

(* The operation of a run is begun once, and once more for each time its   *)
(* job was found without a worker; and without a fault no run that reads   *)
(* queued or running is forgotten (create, cancel, process).               *)
THEOREM RunsAreDoneOnce == Spec => []RunsDoneOnce
<1>1. RunsInv => RunsDoneOnce
  BY DEF RunsInv, JobsFit, FaultlessRunsFit, RunsDoneOnce, BegunOnce, ActiveHasJob
<1> QED BY <1>1, RunsInvHolds, PTL

(* No worker is past reading the run. *)
Unread(r) == \A w \in HeldBy(r) : At(w, "picked")

(* What is canceled before a worker has read it is never done: it stays    *)
(* canceled and no worker goes on with it, whatever job.remove() did and   *)
(* however often the job comes back (cancel, process).                     *)
CanceledInTime ==
  [][\A r \in Run :
       status[r] = "canceled" /\ Unread(r) =>
         status'[r] = "canceled" /\ (\A w \in HeldBy(r)' : worker'[w].at = "picked")]_runVars

(* A run that has ended changes again only through a worker or a cancel    *)
(* request that had read it before it ended, or through a job that comes   *)
(* back after a crash.                                                     *)
EndedLeavesByRaceOnly ==
  [][\A r \in Run :
       status[r] \in Ended /\ status'[r] # status[r] =>
         \/ cancel[r] = "read"
         \/ /\ \E w \in HeldBy(r) : ~At(w, "picked")
            /\ cancel[r] # "no" \/ stalls[r] > 0]_runVars

(* The end of a run stays, but for the races named in the parts.           *)
EndsStay == CanceledInTime /\ EndedLeavesByRaceOnly

(* What is canceled before a worker has read it stays canceled.            *)
LEMMA CanceledUnreadStays ==
  ASSUME RunsInv, [RunsNext]_runVars, NEW r \in Run, status[r] = "canceled", Unread(r)
  PROVE  /\ status'[r] = "canceled"
         /\ \A w \in HeldBy(r)' : worker'[w].at = "picked"
<1> USE DEF HeldBy, Unread, At
<1>0. RunsTypeOK /\ \A w \in Worker : worker[w].run = r => worker[w].at = "picked" BY DEF RunsInv
<1>1. CASE CreateRun
  <2>1. Fresh # r BY <1>1, FreshIsNew DEF CreateRun
  <2> QED BY <2>1, <1>1, <1>0 DEF CreateRun, RunsTypeOK
<1>2. CASE RequestStep
  BY <1>2, <1>0 DEF RequestStep, EnqueueRun, CancelRead, CancelSave, CancelRemove, RunsTypeOK
<1>3. ASSUME NEW w \in Worker,
             WorkerStep(w) \/ DispatchReturns(w) \/ DispatchThrows(w) \/ StatementFails(w)
      PROVE  /\ status'[r] = "canceled"
             /\ \A v \in Worker : worker'[v].run = r => worker'[v].at = "picked"
  <2> USE <1>0
  <2>1. CASE Find(w)
    <3>1. CASE worker[w].run = r
      BY <3>1, <2>1, ReleaseTyped DEF Find
    <3>2. CASE worker[w].run # r
      <4>1. worker'[w].run # r BY <3>2, <2>1, ReleaseTyped, MoveTyped DEF Find
      <4>2. \A v \in Worker \ {w} : worker'[v] = worker[v]
        BY <2>1, ReleaseTyped, MoveTyped DEF Find
      <4> QED BY <4>1, <4>2, <2>1 DEF Find
    <3> QED BY <3>1, <3>2
  <2>2. CASE \E q \in Run : Pick(w, q) BY <2>2 DEF Pick, RunsTypeOK
  <2>3. CASE worker[w].at \in {"found", "marked", "succeeded", "failed", "stored"}
    <3>1. worker[w].run # r BY <2>3
    <3>2. status'[r] = "canceled"
      BY <3>1, <1>3 DEF WorkerStep, Find, MarkRunning, MarkSuccess, MarkError, MarkEnd, Complete,
         Pick, DispatchReturns, DispatchThrows, StatementFails, RunsTypeOK
    <3>3. Release(w) \/ \E p \in {"marked", "succeeded", "failed", "stored"} : Move(w, p)
      BY <2>3, <1>3 DEF WorkerStep, Find, MarkRunning, MarkSuccess, MarkError, MarkEnd, Complete,
         Pick, DispatchReturns, DispatchThrows, StatementFails
    <3>4. worker'[w].run # r BY <3>1, <3>3, <2>3, ReleaseTyped, MoveTyped
    <3>5. \A v \in Worker \ {w} : worker'[v] = worker[v]
      BY <3>3, <2>3, ReleaseTyped, MoveTyped
    <3> QED BY <3>2, <3>4, <3>5
  <2>4. CASE StatementFails(w) /\ worker[w].at = "picked"
    <3>1. Release(w) /\ status' = status BY <2>4 DEF StatementFails
    <3> QED BY <3>1, <2>4, ReleaseTyped
  <2> QED BY <2>1, <2>2, <2>3, <2>4, <1>3
       DEF WorkerStep, MarkRunning, MarkSuccess, MarkError, MarkEnd, Complete,
           DispatchReturns, DispatchThrows, StatementFails
<1>4. CASE Crash BY <1>4, <1>0 DEF Crash, Idle
<1>5. CASE \E q \in Run : Stalled(q) BY <1>5, <1>0 DEF Stalled
<1>6. CASE UNCHANGED runVars BY <1>6, <1>0 DEF runVars
<1> QED BY <1>1, <1>2, <1>3, <1>4, <1>5, <1>6 DEF RunsNext

(* A run leaves its end by one of the two races only. *)
LEMMA EndIsLeftByRace ==
  ASSUME RunsInv, [RunsNext]_runVars, NEW r \in Run, status[r] \in Ended, status'[r] # status[r]
  PROVE  \/ cancel[r] = "read"
         \/ /\ \E w \in HeldBy(r) : ~At(w, "picked")
            /\ cancel[r] # "no" \/ stalls[r] > 0
<1> USE DEF Ended, Active
<1>0. RunsTypeOK BY DEF RunsInv
<1>1. CASE CreateRun
  <2>1. Fresh # r BY <1>1, FreshIsNew DEF CreateRun
  <2> QED BY <2>1, <1>1, <1>0 DEF CreateRun, RunsTypeOK
<1>2. CASE RequestStep
  BY <1>2, <1>0 DEF RequestStep, EnqueueRun, CancelRead, CancelSave, CancelRemove, RunsTypeOK
<1>3. ASSUME NEW w \in Worker, MarkRunning(w) \/ MarkSuccess(w) \/ MarkError(w)
      PROVE  /\ \E v \in HeldBy(r) : ~At(v, "picked")
             /\ cancel[r] # "no" \/ stalls[r] > 0
  <2>1. worker[w].run = r /\ worker[w].at \in {"found", "succeeded", "failed"}
    BY <1>0, <1>3 DEF MarkRunning, MarkSuccess, MarkError, MarkEnd, At, RunsTypeOK
  <2>2. ~Undisturbed(r) BY <2>1 DEF RunsInv, PlainRunsFit
  <2>3. cancel[r] # "no" \/ stalls[r] > 0 BY <2>2, <1>0 DEF Undisturbed, RunsTypeOK
  <2> QED BY <2>1, <2>3 DEF HeldBy, At
<1>4. CASE \E w \in Worker : \/ Find(w) \/ Complete(w) \/ \E q \in Run : Pick(w, q)
                            \/ DispatchReturns(w) \/ DispatchThrows(w) \/ StatementFails(w)
  BY <1>4 DEF Find, Complete, Pick, DispatchReturns, DispatchThrows, StatementFails
<1>5. CASE Crash \/ \E q \in Run : Stalled(q) BY <1>5 DEF Crash, Stalled
<1>6. CASE UNCHANGED runVars BY <1>6 DEF runVars
<1> QED BY <1>1, <1>2, <1>3, <1>4, <1>5, <1>6 DEF RunsNext, WorkerStep

(* A run that is canceled before a worker reads it is never done, and any  *)
(* end is left only through a cancel request that had read the run before, *)
(* or through a worker beyond its first look (cancel, process).            *)
THEOREM EndsOfRunsStay == Spec => EndsStay
<1>1. RunsInv /\ [Next]_vars =>
        [\A r \in Run :
           status[r] = "canceled" /\ Unread(r) =>
             status'[r] = "canceled" /\ (\A w \in HeldBy(r)' : worker'[w].at = "picked")]_runVars
  BY CanceledUnreadStays, StepOfRuns
<1>2. RunsInv /\ [Next]_vars =>
        [\A r \in Run :
           status[r] \in Ended /\ status'[r] # status[r] =>
             \/ cancel[r] = "read"
             \/ /\ \E w \in HeldBy(r) : ~At(w, "picked")
                /\ cancel[r] # "no" \/ stalls[r] > 0]_runVars
  BY EndIsLeftByRace, StepOfRuns
<1> QED BY <1>1, <1>2, RunsInvHolds, PTL DEF Spec, EndsStay, CanceledInTime, EndedLeavesByRaceOnly

-----------------------------------------------------------------------------
(* The settings of the target.                                             *)

(* Since a quiet moment the row and every purge hold what was asked.       *)
AskedInv ==
  asked.quiet => /\ ConfigOf(setting) = asked.config
                 /\ \A w \in Worker : purge[w] # NoSetting => purge[w] = asked.config

(* Only these steps touch the settings, a purge's copy of them or the rows. *)
LEMMA SettingsChange ==
  ASSUME [Next]_vars
  PROVE  \/ UNCHANGED <<setting, asked, purge, rows>>
         \/ SetSave \/ ProcessDies
         \/ \E w \in Worker : PurgeRead(w) \/ PurgeBatch(w) \/ PurgeSave(w) \/ OperationFails(w)
<1> USE DEF retentionVars, vars
<1>1. CASE TriggerTable \/ TriggerPurge \/ \E r \in Run : CancelRequest(r)
  BY <1>1 DEF TriggerTable, TriggerPurge, Trigger, CancelRequest
<1>2. CASE RequestGoesOn \/ Redeliver \/ NextDay BY <1>2 DEF RequestGoesOn, Redeliver, NextDay
<1>3. CASE \E change \in [days : Days, enabled : BOOLEAN] : SetRead(change) BY <1>3 DEF SetRead
<1>4. CASE Scheduler BY <1>4 DEF Scheduler, TickRead, TickCreate
<1>5. CASE \E w \in Worker : \/ (WorkerStep(w) /\ UNCHANGED retentionVars)
                            \/ (StatementFails(w) /\ UNCHANGED retentionVars)
                            \/ TableOperation(w)
  BY <1>5 DEF TableOperation
<1>6. CASE UNCHANGED vars BY <1>6
<1> QED BY <1>1, <1>2, <1>3, <1>4, <1>5, <1>6 DEF Next, Work

LEMMA AskedInductive ==
  ASSUME TypeOK, AskedInv, [Next]_vars
  PROVE  AskedInv'
<1> USE DEF AskedInv, ConfigOf
<1>1. CASE UNCHANGED <<setting, asked, purge, rows>> BY <1>1
<1>2. CASE SetSave
  <2>1. patch \in Config BY <1>2 DEF SetSave, TypeOK
  <2>2. /\ asked'.config = patch /\ purge' = purge
        /\ asked'.quiet => \A w \in Worker : purge[w] = NoSetting
    BY <1>2 DEF SetSave
  <2>3. ConfigOf(setting)' = [days |-> patch.days, enabled |-> patch.enabled]
    BY <1>2 DEF SetSave, TypeOK
  <2>4. ConfigOf(setting)' = patch BY <2>1, <2>3 DEF Config
  <2> QED BY <2>2, <2>4
<1>3. CASE ProcessDies BY <1>3 DEF ProcessDies
<1>4. ASSUME NEW w \in Worker, PurgeRead(w) PROVE AskedInv'
  BY <1>4 DEF PurgeRead, TypeOK
<1>5. ASSUME NEW w \in Worker, PurgeBatch(w) PROVE AskedInv'
  BY <1>5 DEF PurgeBatch
<1>6. ASSUME NEW w \in Worker, PurgeSave(w) PROVE AskedInv'
  <2>1. purge[w] \in Config BY <1>6 DEF PurgeSave, TypeOK
  <2>2. ConfigOf(setting)' = purge[w]
    BY <2>1, <1>6 DEF PurgeSave, StoredByPurge, Config
  <2>3. asked' = asked /\ \A v \in Worker : purge'[v] \in {purge[v], NoSetting}
    BY <1>6 DEF PurgeSave, TypeOK
  <2>4. purge[w] # NoSetting BY <1>6 DEF PurgeSave
  <2>5. asked.quiet => purge[w] = asked.config BY <2>4
  <2> QED BY <2>2, <2>3, <2>5
<1>7. ASSUME NEW w \in Worker, OperationFails(w) PROVE AskedInv'
  BY <1>7 DEF OperationFails, TypeOK
<1> QED BY <1>1, <1>2, <1>3, <1>4, <1>5, <1>6, <1>7, SettingsChange

LEMMA AskedInvHolds == Spec => []AskedInv
<1>1. Init => AskedInv BY DEF Init, AskedInv
<1>2. TypeOK /\ AskedInv /\ [Next]_vars => AskedInv' BY AskedInductive
<1> QED BY <1>1, <1>2, TypeCorrect, PTL DEF Spec

(* A setting stored while no purge was under way stays what the user asked *)
(* for, though every purge writes the whole row back (executePurge).       *)
THEOREM SettingsAreKept == Spec => []SettingKept
<1>1. AskedInv => SettingKept BY DEF AskedInv, SettingKept
<1> QED BY <1>1, AskedInvHolds, PTL

-----------------------------------------------------------------------------
(* The scheduler.                                                          *)

Scheduled(r) == kind[r] = "scheduled" /\ Undisturbed(r)

(* When the tick has found nothing active, the scheduled runs nobody       *)
(* disturbs are over and stay so until it has created its own.             *)
SchedulerInv ==
  /\ \A r \in Run : kind[r] # "none" => status[r] # "none"
  /\ tick = "clear" => \A r \in Run : Scheduled(r) => status[r] \in Ended
  /\ \A r, q \in Run : Scheduled(r) /\ Scheduled(q) /\ r # q => {status[r], status[q]} \cap Ended # {}

(* A run that exists goes on existing; nobody undoes a cancel or a stall;  *)
(* and a run nobody disturbs stays ended.                                  *)
LEMMA RunsStay ==
  ASSUME RunsInv, [RunsNext]_runVars, NEW r \in Run
  PROVE  /\ status[r] # "none" => status'[r] # "none"
         /\ Undisturbed(r)' => Undisturbed(r)
         /\ Undisturbed(r)' /\ status[r] \in Ended => status'[r] \in Ended
<1>1. RunsTypeOK BY DEF RunsInv
<1>2. status[r] # "none" => status'[r] # "none"
  <2>1. CASE CreateRun BY <2>1, <1>1 DEF CreateRun, RunsTypeOK
  <2>2. CASE RequestStep
    BY <2>2, <1>1 DEF RequestStep, EnqueueRun, CancelRead, CancelSave, CancelRemove, RunsTypeOK
  <2>3. CASE \E w \in Worker : MarkRunning(w) \/ MarkSuccess(w) \/ MarkError(w)
    BY <2>3, <1>1 DEF MarkRunning, MarkSuccess, MarkError, MarkEnd, RunsTypeOK
  <2>4. CASE \E w \in Worker : \/ Find(w) \/ Complete(w) \/ \E q \in Run : Pick(w, q)
                               \/ DispatchReturns(w) \/ DispatchThrows(w) \/ StatementFails(w)
    BY <2>4 DEF Find, Complete, Pick, DispatchReturns, DispatchThrows, StatementFails
  <2>5. CASE UNCHANGED status BY <2>5
  <2> QED BY <2>1, <2>2, <2>3, <2>4, <2>5
       DEF RunsNext, WorkerStep, Crash, Stalled, runVars
<1>3. Undisturbed(r)' => Undisturbed(r)
  <2> USE DEF Undisturbed
  <2>1. CASE RequestStep
    BY <2>1, <1>1 DEF RequestStep, EnqueueRun, CancelRead, CancelSave, CancelRemove, RunsTypeOK
  <2>2. CASE Crash BY <2>2, <1>1 DEF Crash, RunsTypeOK
  <2>3. CASE \E q \in Run : Stalled(q) BY <2>3, <1>1 DEF Stalled, RunsTypeOK
  <2>4. CASE UNCHANGED <<cancel, stalls>> BY <2>4
  <2>5. ASSUME NEW w \in Worker,
               WorkerStep(w) \/ DispatchReturns(w) \/ DispatchThrows(w) \/ StatementFails(w)
        PROVE  UNCHANGED <<cancel, stalls>>
    BY <2>5 DEF WorkerStep, Find, MarkRunning, MarkSuccess, MarkError, MarkEnd, Complete, Pick,
         DispatchReturns, DispatchThrows, StatementFails
  <2> QED BY <2>1, <2>2, <2>3, <2>4, <2>5 DEF RunsNext, CreateRun, runVars
<1>4. Undisturbed(r)' /\ status[r] \in Ended => status'[r] \in Ended
  <2>1. Undisturbed(r) => cancel[r] = "no" /\ ~(stalls[r] > 0) BY DEF Undisturbed
  <2> QED BY <2>1, <1>3, EndIsLeftByRace
<1> QED BY <1>2, <1>3, <1>4

LEMMA KindsChange ==
  ASSUME [Next]_vars
  PROVE  \/ Trigger("table") \/ Trigger("manual") \/ TickRead \/ TickCreate
         \/ kind' = kind /\ (tick' = tick \/ tick' = "idle")
<1> USE DEF retentionVars, vars
<1>1. CASE TriggerTable \/ TriggerPurge BY <1>1 DEF TriggerTable, TriggerPurge
<1>2. CASE \/ \E r \in Run : CancelRequest(r)
           \/ \E change \in [days : Days, enabled : BOOLEAN] : SetRead(change)
           \/ SetSave \/ ProcessDies
  BY <1>2 DEF CancelRequest, SetRead, SetSave, ProcessDies
<1>3. CASE RequestGoesOn \/ Redeliver \/ NextDay BY <1>3 DEF RequestGoesOn, Redeliver, NextDay
<1>4. ASSUME NEW w \in Worker, \/ Work(w) \/ OperationFails(w)
                               \/ StatementFails(w) /\ UNCHANGED retentionVars
      PROVE  kind' = kind /\ tick' = tick
  BY <1>4 DEF Work, PurgeRead, PurgeBatch, PurgeSave, TableOperation, OperationFails
<1>5. CASE UNCHANGED vars BY <1>5
<1> QED BY <1>1, <1>2, <1>3, <1>4, <1>5 DEF Next, Scheduler

LEMMA CreateTyped ==
  ASSUME TypeOK, CreateRun, NEW k, kind' = [kind EXCEPT ![Fresh] = k]
  PROVE  /\ Fresh \in Run /\ status[Fresh] = "none" /\ status'[Fresh] = "queued" /\ kind'[Fresh] = k
         /\ \A r \in Run : r # Fresh => status'[r] = status[r] /\ kind'[r] = kind[r]
         /\ \A r \in Run : Undisturbed(r)' <=> Undisturbed(r)
BY FreshIsNew DEF CreateRun, TypeOK, RunsTypeOK, Undisturbed

LEMMA SchedulerInductive ==
  ASSUME TypeOK, RunsInv, SchedulerInv, [Next]_vars
  PROVE  SchedulerInv'
<1>0. [RunsNext]_runVars BY StepOfRuns
<1>1. ASSUME NEW k \in {"table", "manual"}, Trigger(k) PROVE SchedulerInv'
  <2>1. CreateRun /\ kind' = [kind EXCEPT ![Fresh] = k] /\ tick' = tick BY <1>1 DEF Trigger
  <2>2. \A r \in Run : Scheduled(r)' => Scheduled(r) /\ r # Fresh
    BY <2>1, CreateTyped DEF Scheduled
  <2>3. \A r \in Run : kind'[r] # "none" => status'[r] # "none"
    BY <2>1, CreateTyped DEF SchedulerInv
  <2>4. \A r \in Run : Scheduled(r)' => Scheduled(r) /\ status'[r] = status[r]
    BY <2>1, <2>2, CreateTyped
  <2> QED BY <2>1, <2>3, <2>4 DEF SchedulerInv
<1>2. CASE TickRead
  <2>1. UNCHANGED <<status, kind, cancel, stalls>> /\ ActivePurges = {}
    BY <1>2 DEF TickRead, runVars, FindActiveByOperation
  <2>2. \A r \in Run : kind[r] = "scheduled" => status[r] \in Ended
    BY <2>1 DEF ActivePurges, Purges, SchedulerInv, TypeOK, RunsTypeOK
  <2> QED BY <2>1, <2>2 DEF SchedulerInv, Scheduled, Undisturbed
<1>3. CASE TickCreate
  <2>1. /\ CreateRun /\ kind' = [kind EXCEPT ![Fresh] = "scheduled"]
        /\ tick = "clear" /\ tick' = "idle"
    BY <1>3 DEF TickCreate
  <2>2. \A r \in Run : Scheduled(r)' /\ r # Fresh => status'[r] \in Ended
    BY <2>1, CreateTyped DEF Scheduled, SchedulerInv
  <2> QED BY <2>1, <2>2, CreateTyped DEF SchedulerInv
<1>4. CASE kind' = kind /\ (tick' = tick \/ tick' = "idle")
  <2>1. \A r \in Run : Scheduled(r)' =>
          Scheduled(r) /\ (status[r] \in Ended => status'[r] \in Ended)
    BY <1>0, <1>4, RunsStay DEF Scheduled
  <2>2. \A r \in Run : kind'[r] # "none" => status'[r] # "none"
    BY <1>0, <1>4, RunsStay DEF SchedulerInv
  <2> QED BY <2>1, <2>2, <1>4 DEF SchedulerInv
<1> QED BY <1>1, <1>2, <1>3, <1>4, KindsChange

LEMMA SchedulerInvHolds == Spec => []SchedulerInv
<1>1. Init => SchedulerInv BY DEF Init, SchedulerInv, Scheduled
<1>2. TypeOK /\ RunsInv /\ SchedulerInv /\ [Next]_vars => SchedulerInv' BY SchedulerInductive
<1> QED BY <1>1, <1>2, TypeCorrect, RunsInvHolds, PTL DEF Spec

(* A purge deletes nothing that the window the user asked for in a quiet   *)
(* moment keeps, and the scheduler starts no purge beside another unless   *)
(* somebody canceled one of the two or a crash brought a job back (tick,   *)
(* findActiveByOperation, executePurge).                                   *)
THEOREM PurgesBehaveAsAsked == Spec => PurgesBehave
<1>1. TypeOK /\ AskedInv /\ [Next]_vars =>
        [asked.quiet => \A x \in rows \ rows' : Date[x] + asked.config.days < day]_vars
  <2> SUFFICES ASSUME AskedInv, [Next]_vars, asked.quiet, NEW x \in rows \ rows'
               PROVE  Date[x] + asked.config.days < day
    OBVIOUS
  <2>1. PICK w \in Worker : PurgeBatch(w)
    BY SettingsChange DEF SetSave, ProcessDies, PurgeRead, PurgeSave, OperationFails
  <2>2. purge[w] = asked.config /\ x \in Expired(purge[w].days)
    BY <2>1 DEF PurgeBatch, AskedInv
  <2> QED BY <2>2 DEF Expired
<1>2. RunsInv /\ SchedulerInv => ScheduledPurgesAlone
  <2> SUFFICES ASSUME RunsInv, SchedulerInv,
                      NEW r \in ActivePurges, NEW q \in ActivePurges, r # q,
                      kind[r] = "scheduled", kind[q] = "scheduled"
               PROVE  \E x \in {r, q} : cancel[x] # "no" \/ stalls[x] > 0
    BY DEF ScheduledPurgesAlone
  <2>1. /\ r \in Run /\ q \in Run /\ status[r] \notin Ended /\ status[q] \notin Ended
        /\ stalls[r] \in Nat /\ stalls[q] \in Nat
    BY DEF ActivePurges, Active, Ended, RunsInv, RunsTypeOK
  <2>2. ~(Undisturbed(r) /\ Undisturbed(q)) BY <2>1 DEF SchedulerInv, Scheduled
  <2> QED BY <2>1, <2>2 DEF Undisturbed
<1> QED BY <1>1, <1>2, TypeCorrect, RunsInvHolds, AskedInvHolds, SchedulerInvHolds, PTL
     DEF Spec, PurgesBehave, WindowApplied

-----------------------------------------------------------------------------
(* The life of a run.                                                      *)

Called == {r \in Run : cancel[r] # "no"}
Taken == {r \in Run : \E w \in HeldBy(r) : ~At(w, "picked")}

(* Only what was begun can end. *)
BegunFit ==
  \A w \in Worker : worker[w].at \in {"marked", "succeeded", "failed"} => starts[worker[w].run] > 0

(* Whose hands a run is in when a worker moves on with it ...              *)
LEMMA MoveTakes ==
  ASSUME RunsInv, NEW w \in Worker, worker[w].at # "idle",
         NEW place \in {"found", "marked", "succeeded", "failed", "stored"}, Move(w, place)
  PROVE  /\ worker[w].at = "picked" => worker[w].run \notin Taken /\ Taken' = Taken \cup {worker[w].run}
         /\ worker[w].at # "picked" => worker[w].run \in Taken /\ Taken' = Taken
<1> DEFINE q == worker[w].run
<1>1. /\ q \in Run /\ worker'[w].run = q /\ worker'[w].at = place
      /\ \A v \in Worker \ {w} : worker'[v] = worker[v]
  BY BusyHasRun, MoveTyped DEF RunsInv
<1>2. \A v \in Worker : worker[v].run = q => v = w
  BY <1>1 DEF RunsInv, HoldersFit
<1>3. \A r \in Run : r \in Taken' <=> r = q \/ r \in Taken
  BY <1>1, <1>2 DEF Taken, HeldBy, At
<1>4. Taken \subseteq Run /\ Taken' \subseteq Run BY DEF Taken
<1>5. q \in Taken <=> worker[w].at # "picked"
  BY <1>1, <1>2 DEF Taken, HeldBy, At
<1> QED BY <1>1, <1>3, <1>4, <1>5

(* ... and when it leaves the run. *)
LEMMA ReleaseLeaves ==
  ASSUME RunsInv, NEW w \in Worker, worker[w].at # "idle", Release(w)
  PROVE  /\ worker[w].at = "picked" => Taken' = Taken
         /\ worker[w].at # "picked" => worker[w].run \in Taken /\ Taken' = Taken \ {worker[w].run}
<1> DEFINE q == worker[w].run
<1>1. /\ q \in Run /\ worker'[w].run \notin Run
      /\ \A v \in Worker \ {w} : worker'[v] = worker[v]
  BY BusyHasRun, ReleaseTyped DEF RunsInv
<1>2. \A v \in Worker : worker[v].run = q => v = w
  BY <1>1 DEF RunsInv, HoldersFit
<1>3. \A r \in Run : r \in Taken' <=> r # q /\ r \in Taken
  BY <1>1, <1>2 DEF Taken, HeldBy, At
<1>4. Taken \subseteq Run /\ Taken' \subseteq Run BY DEF Taken
<1>5. q \in Taken <=> worker[w].at # "picked"
  BY <1>1, <1>2 DEF Taken, HeldBy, At
<1> QED BY <1>3, <1>4, <1>5

LEMMA BegunStep ==
  ASSUME RunsInv, BegunFit, [RunsNext]_runVars
  PROVE  BegunFit'
<1> USE DEF At
<1>0. RunsTypeOK BY DEF RunsInv
<1>1. ASSUME NEW w \in Worker, NEW place \in {"found", "marked", "succeeded", "failed", "stored"},
             worker[w].at # "idle", Move(w, place),
             \A r \in Run : starts'[r] \in Nat /\ starts'[r] >= starts[r],
             place \in {"marked", "succeeded", "failed"} => starts'[worker[w].run] > 0
      PROVE  BegunFit'
  <2>1. /\ worker'[w].run = worker[w].run /\ worker'[w].at = place
        /\ \A v \in Worker \ {w} : worker'[v] = worker[v]
    BY <1>0, <1>1, MoveTyped
  <2>2. ASSUME NEW v \in Worker \ {w}, worker[v].at \in {"marked", "succeeded", "failed"}
        PROVE  starts'[worker[v].run] > 0
    <3>1. worker[v].run \in Run BY <1>0, <2>2, BusyHasRun
    <3>2. starts[worker[v].run] \in Nat /\ starts[worker[v].run] > 0
      BY <1>0, <2>2, <3>1 DEF BegunFit, RunsTypeOK
    <3> QED BY <1>1, <3>1, <3>2
  <2> QED BY <1>1, <2>1, <2>2 DEF BegunFit
<1>2. ASSUME UNCHANGED starts,
             \A w \in Worker : worker'[w] = worker[w] \/ worker'[w].at \in {"idle", "picked"}
      PROVE  BegunFit'
  BY <1>2 DEF BegunFit
<1>3. UNCHANGED starts => \A r \in Run : starts'[r] \in Nat /\ starts'[r] >= starts[r]
  BY <1>0 DEF RunsTypeOK
<1>4. ASSUME NEW w \in Worker, Release(w), worker[w].at # "idle", UNCHANGED starts PROVE BegunFit'
  BY <1>0, <1>2, <1>4, ReleaseTyped
<1>5. CASE CreateRun \/ RequestStep \/ (\E r \in Run : Stalled(r)) \/ UNCHANGED runVars
  BY <1>2, <1>5 DEF CreateRun, RequestStep, EnqueueRun, CancelRead, CancelSave, CancelRemove,
                    Stalled, runVars
<1>6. CASE Crash
  BY <1>2, <1>6 DEF Crash, Idle
<1>7. ASSUME NEW w \in Worker, Find(w) PROVE BegunFit'
  <2>1. worker[w].at # "idle" /\ UNCHANGED starts /\ (Release(w) \/ Move(w, "found"))
    BY <1>7 DEF Find
  <2> QED BY <1>1, <1>3, <1>4, <2>1
<1>8. ASSUME NEW w \in Worker, MarkRunning(w) PROVE BegunFit'
  <2>1. worker[w].run \in Run BY <1>0, <1>8, BusyHasRun DEF MarkRunning
  <2>2. /\ worker[w].at # "idle" /\ Move(w, "marked")
        /\ \A r \in Run : starts'[r] \in Nat /\ starts'[r] >= starts[r]
        /\ starts'[worker[w].run] > 0
    BY <1>0, <1>8, <2>1 DEF MarkRunning, RunsTypeOK
  <2> QED BY <1>1, <2>2
<1>9. ASSUME NEW w \in Worker, MarkSuccess(w) \/ MarkError(w) PROVE BegunFit'
  <2>1. worker[w].at # "idle" /\ UNCHANGED starts /\ Move(w, "stored")
    BY <1>9 DEF MarkSuccess, MarkError, MarkEnd
  <2> QED BY <1>1, <1>3, <2>1
<1>10. ASSUME NEW w \in Worker, Complete(w) PROVE BegunFit'
  BY <1>4, <1>10 DEF Complete
<1>11. ASSUME NEW w \in Worker, NEW r \in Run, Pick(w, r) PROVE BegunFit'
  <2>1. UNCHANGED starts /\ \A v \in Worker : worker'[v] = worker[v] \/ worker'[v].at = "picked"
    BY <1>0, <1>11 DEF Pick, RunsTypeOK
  <2> QED BY <1>2, <2>1
<1>12. ASSUME NEW w \in Worker, DispatchReturns(w) \/ DispatchThrows(w) PROVE BegunFit'
  <2>1. /\ UNCHANGED starts /\ worker[w].at = "marked"
        /\ Move(w, "succeeded") \/ Move(w, "failed")
    BY <1>12 DEF DispatchReturns, DispatchThrows
  <2> QED BY <1>1, <1>3, <2>1 DEF BegunFit
<1>13. ASSUME NEW w \in Worker, StatementFails(w) PROVE BegunFit'
  <2>1. /\ UNCHANGED starts
        /\ \/ worker[w].at = "succeeded" /\ Move(w, "failed")
           \/ worker[w].at # "idle" /\ Release(w)
    BY <1>13 DEF StatementFails
  <2> QED BY <1>1, <1>3, <1>4, <2>1 DEF BegunFit
<1> QED
  BY <1>5, <1>6, <1>7, <1>8, <1>9, <1>10, <1>11, <1>12, <1>13 DEF RunsNext, WorkerStep

(* The steps of the requests, and of the process that dies.                *)
LEMMA RequestLives ==
  ASSUME RunsInv,
         CreateRun \/ RequestStep \/ Crash \/ (\E r \in Run : Stalled(r)) \/ UNCHANGED runVars
  PROVE  [Life!Next]_Life!lifeVars
<1> USE DEF Life!lifeVars
<1>0. RunsTypeOK BY DEF RunsInv
<1>1. UNCHANGED <<worker>> => Taken' = Taken BY DEF Taken, HeldBy, At
<1>2. UNCHANGED <<cancel>> => Called' = Called BY DEF Called
<1>3. CASE CreateRun
  <2>1. Fresh \in Run /\ status[Fresh] = "none" BY <1>3, FreshIsNew DEF CreateRun
  <2>2. Life!Ask(Fresh)
    BY <1>1, <1>2, <1>3, <2>1 DEF CreateRun, Life!Ask, Life!Becomes, Called, Taken
  <2> QED BY <2>1, <2>2 DEF Life!Next
<1>4. ASSUME NEW r \in Run, EnqueueRun(r) \/ CancelRemove(r) PROVE UNCHANGED Life!lifeVars
  <2>1. UNCHANGED <<status, worker, starts, stalls>> BY <1>4 DEF EnqueueRun, CancelRemove
  <2>2. Called' = Called BY <1>0, <1>4 DEF EnqueueRun, CancelRemove, Called, RunsTypeOK
  <2> QED BY <1>1, <2>1, <2>2 DEF Called, Taken
<1>5. ASSUME NEW r \in Run, CancelRead(r) PROVE Life!Next
  <2>1. r \notin Called /\ Called' = Called \cup {r}
    BY <1>0, <1>5 DEF CancelRead, Called, RunsTypeOK
  <2>2. UNCHANGED <<status, worker, starts, stalls>> /\ status[r] \in {"queued", "running"}
    BY <1>5 DEF CancelRead, Active
  <2>3. Life!CallOff(r)
    BY <1>1, <2>1, <2>2 DEF Life!CallOff, Called, Taken
  <2> QED BY <2>3 DEF Life!Next
<1>6. ASSUME NEW r \in Run, CancelSave(r) PROVE Life!Next
  <2>1. r \in Called /\ Called' = Called
    BY <1>0, <1>6 DEF CancelSave, Called, RunsTypeOK
  <2>2. UNCHANGED <<worker, starts, stalls>> /\ status' = [status EXCEPT ![r] = "canceled"]
    BY <1>6 DEF CancelSave
  <2>3. Life!ShowCanceled(r)
    BY <1>1, <2>1, <2>2 DEF Life!ShowCanceled, Life!Becomes, Called, Taken
  <2> QED BY <2>3 DEF Life!Next
<1>7. CASE Crash
  <2>1. Taken' = {}
    BY <1>7, RunAssumption DEF Crash, Taken, HeldBy, Idle
  <2>2. Called' = Called
    BY <1>0, <1>7 DEF Crash, Called, RunsTypeOK
  <2>3. UNCHANGED <<status, starts, stalls>> BY <1>7 DEF Crash
  <2>4. Life!Stop BY <2>1, <2>2, <2>3 DEF Life!Stop, Called, Taken
  <2> QED BY <2>4 DEF Life!Next
<1>8. ASSUME NEW r \in Run, Stalled(r) PROVE [Life!Next]_Life!lifeVars
  <2>1. UNCHANGED <<status, worker, cancel, starts>> /\ HeldBy(r) = {} /\ job[r] = "active"
    BY <1>8 DEF Stalled
  <2>2. r \notin Taken /\ status[r] # "none"
    BY <2>1 DEF Taken, RunsInv, JobsFit
  <2>3. Taken' = Taken /\ Called' = Called BY <1>1, <1>2, <2>1
  <2>4. CASE stalls' = [stalls EXCEPT ![r] = @ + 1]
    <3>1. Life!FindLost(r)
      BY <2>1, <2>2, <2>3, <2>4 DEF Life!FindLost, Called, Taken
    <3> QED BY <3>1 DEF Life!Next
  <2>5. CASE stalls' = stalls
    BY <2>1, <2>3, <2>5 DEF Called, Taken
  <2> QED BY <1>8, <2>4, <2>5 DEF Stalled
<1>9. CASE UNCHANGED runVars
  BY <1>1, <1>2, <1>9 DEF runVars, Called, Taken
<1> QED BY <1>3, <1>4, <1>5, <1>6, <1>7, <1>8, <1>9 DEF RequestStep

(* The steps of a worker.                                                  *)
LEMMA WorkerLives ==
  ASSUME RunsInv, BegunFit, NEW w \in Worker,
         WorkerStep(w) \/ DispatchReturns(w) \/ DispatchThrows(w) \/ StatementFails(w)
  PROVE  [Life!Next]_Life!lifeVars
<1> USE DEF Life!lifeVars
<1> DEFINE q == worker[w].run
<1>0. RunsTypeOK BY DEF RunsInv
<1>1. UNCHANGED <<cancel>> => Called' = Called BY DEF Called
<1>2. worker[w].at # "idle" => q \in Run BY <1>0, BusyHasRun
(* What the abstract run knows of disturbances. *)
<1>3. ASSUME q \in Run, ~Undisturbed(q) PROVE Life!Disturbed(q)
  <2>1. stalls[q] \in Nat BY <1>0, <1>3 DEF RunsTypeOK
  <2> QED BY <1>3, <2>1 DEF Undisturbed, Life!Disturbed, Called
<1>4. ASSUME UNCHANGED <<status, starts, stalls, cancel>>, worker[w].at # "idle", Release(w)
      PROVE  [Life!Next]_Life!lifeVars
  <2>1. CASE worker[w].at = "picked"
    BY <1>1, <1>4, <2>1, ReleaseLeaves DEF Called, Taken
  <2>2. CASE worker[w].at # "picked"
    <3>1. Life!Leave(q)
      BY <1>1, <1>4, <2>2, ReleaseLeaves DEF Life!Leave, Called, Taken
    <3> QED BY <1>2, <1>4, <3>1 DEF Life!Next
  <2> QED BY <2>1, <2>2
<1>5. CASE Find(w)
  <2>1. At(w, "picked") /\ q \in Run /\ UNCHANGED <<status, starts, stalls, cancel>>
    BY <1>2, <1>5 DEF Find, At
  <2>2. CASE status[q] = "canceled"
    BY <1>4, <1>5, <2>1, <2>2 DEF Find, At
  <2>3. CASE status[q] # "canceled"
    <3>1. Move(w, "found") /\ worker[w].at = "picked" BY <1>5, <2>1, <2>3 DEF Find, At
    <3>2. q \notin Taken /\ Taken' = Taken \cup {q} BY <3>1, MoveTakes
    <3>3. status[q] # "none"
      BY <2>1 DEF RunsInv, HoldersFit, JobsFit
    <3>4. Life!Disturbed(q) \/ status[q] = "queued"
      BY <1>3, <2>1, <3>1 DEF RunsInv, PlainRunsFit, Undisturbed
    <3>5. Life!Take(q)
      BY <1>1, <2>1, <2>3, <3>2, <3>3, <3>4 DEF Life!Take, Called, Taken
    <3> QED BY <2>1, <3>5 DEF Life!Next
  <2> QED BY <2>2, <2>3
<1>6. CASE MarkRunning(w)
  <2>1. /\ worker[w].at = "found" /\ q \in Run /\ Move(w, "marked") /\ UNCHANGED <<stalls, cancel>>
        /\ status' = [status EXCEPT ![q] = "running"] /\ starts' = [starts EXCEPT ![q] = @ + 1]
    BY <1>2, <1>6 DEF MarkRunning, At
  <2>2. q \in Taken /\ Taken' = Taken BY <2>1, MoveTakes
  <2>3. starts[q] <= stalls[q] BY <2>1 DEF RunsInv, HoldersFit
  <2>4. Life!Disturbed(q) \/ status[q] = "queued"
    BY <1>3, <2>1 DEF RunsInv, PlainRunsFit, Undisturbed
  <2>5. Life!Begin(q)
    BY <1>1, <2>1, <2>2, <2>3, <2>4 DEF Life!Begin, Life!Becomes, Called, Taken
  <2> QED BY <2>1, <2>5 DEF Life!Next
<1>7. CASE MarkSuccess(w) \/ MarkError(w)
  <2>1. PICK result \in {"success", "error"} :
          /\ worker[w].at \in {"succeeded", "failed"} /\ Move(w, "stored")
          /\ status' = [status EXCEPT ![q] = result] /\ UNCHANGED <<starts, stalls, cancel>>
    BY <1>7 DEF MarkSuccess, MarkError, MarkEnd, At
  <2>2. q \in Run BY <1>2, <2>1
  <2>3. q \in Taken /\ Taken' = Taken BY <2>1, MoveTakes
  <2>4. starts[q] > 0 BY <2>1 DEF BegunFit
  <2>5. Life!Disturbed(q) \/ status[q] = "running"
    BY <1>3, <2>1, <2>2 DEF RunsInv, PlainRunsFit, Undisturbed
  <2>6. Life!End(q, result)
    BY <1>1, <2>1, <2>3, <2>4, <2>5 DEF Life!End, Life!Becomes, Called, Taken
  <2> QED BY <2>2, <2>6 DEF Life!Next
<1>8. CASE Complete(w)
  BY <1>4, <1>8 DEF Complete, At
<1>9. ASSUME NEW r \in Run, Pick(w, r) PROVE UNCHANGED Life!lifeVars
  <2>1. /\ worker[w].at = "idle" /\ worker' = [worker EXCEPT ![w] = [run |-> r, at |-> "picked"]]
        /\ UNCHANGED <<status, starts, stalls, cancel>>
    BY <1>9 DEF Pick, At
  <2>2. \A v \in Worker :
          \/ worker'[v] = worker[v]
          \/ v = w /\ worker'[v].at = "picked" /\ worker[v].run \notin Run
    BY <1>0, <2>1, BusyHasRun DEF RunsTypeOK
  <2>3. Taken' = Taken BY <2>2 DEF Taken, HeldBy, At
  <2> QED BY <1>1, <2>1, <2>3 DEF Called, Taken
<1>10. CASE DispatchReturns(w) \/ DispatchThrows(w)
  <2>1. /\ worker[w].at = "marked" /\ (Move(w, "succeeded") \/ Move(w, "failed"))
        /\ UNCHANGED <<status, starts, stalls, cancel>>
    BY <1>10 DEF DispatchReturns, DispatchThrows, At
  <2>2. Taken' = Taken BY <2>1, MoveTakes
  <2> QED BY <1>1, <2>1, <2>2 DEF Called, Taken
<1>11. CASE StatementFails(w)
  <2>1. UNCHANGED <<status, starts, stalls, cancel>> BY <1>11 DEF StatementFails
  <2>2. CASE At(w, "succeeded") /\ Move(w, "failed")
    <3>1. Taken' = Taken BY <2>2, MoveTakes DEF At
    <3> QED BY <1>1, <2>1, <3>1 DEF Called, Taken
  <2>3. CASE worker[w].at \in {"picked", "found", "failed"} /\ Release(w)
    BY <1>4, <2>1, <2>3
  <2> QED BY <1>11, <2>2, <2>3 DEF StatementFails
<1> QED BY <1>5, <1>6, <1>7, <1>8, <1>9, <1>10, <1>11 DEF WorkerStep

(* Rows, jobs, workers and cancels implement the life of a run: one that   *)
(* nobody disturbs goes from queued to running to its only end, and work   *)
(* that is called off in time is never begun (create, cancel, process).    *)
THEOREM RunsLiveAsPromised == Spec => ImplementsRunLife
<1> DEFINE Inv == RunsInv /\ BegunFit
<1>1. Init => Inv
  BY RunsInvInitially DEF Init, RunsInit, BegunFit, Idle
<1>2. Inv /\ [Next]_vars => Inv'
  BY RunsInductive, BegunStep, StepOfRuns
<1>3. Init => Life!Init
  BY RunAssumption DEF Init, RunsInit, Life!Init, HeldBy, Idle
<1>4. Inv /\ [Next]_vars => [Life!Next]_Life!lifeVars
  BY StepOfRuns, RequestLives, WorkerLives DEF RunsNext
<1> QED
  BY <1>1, <1>2, <1>3, <1>4, PTL DEF Spec, ImplementsRunLife, Life!Spec
=============================================================================
