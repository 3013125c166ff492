---------------------------- MODULE OperationRuns ----------------------------
(***************************************************************************)
(* Heavy operations that run in the background (tables/operation-run.      *)
(* service.ts, maintenance.processor.ts): a row of operation_runs that the *)
(* user polls, and a BullMQ job that does the work.  Every transition is   *)
(* an UPDATE by id that does not look at the status it replaces, and the   *)
(* row and the job are never written together.                             *)
(*                                                                         *)
(* What an operation does is left to the module that extends this one: a   *)
(* worker is at "marked" while its operation runs.                         *)
(***************************************************************************)
EXTENDS Naturals, FiniteSets

CONSTANTS Run,       (* ids; bounds the number of runs                      *)
          Worker,    (* MAINTENANCE_CONCURRENCY                             *)
          NoRun,     (* an idle worker                                      *)
          MaxStalls, (* maxStalledCount of the queue                        *)
          MaxFaults  (* bound on crashes and failed statements              *)

ASSUME RunAssumption ==
  /\ NoRun \notin Run
  /\ MaxStalls \in Nat
  /\ MaxFaults \in Nat

VARIABLES
  status,    (* operation_runs.status                                       *)
  job,       (* the job with the run's id, in BullMQ                        *)
  inserting, (* runs inserted by a request that has not enqueued them yet   *)
  worker,    (* what each worker has in hands, and where it is in process   *)
  cancel,    (* the progress of the request that cancels each run           *)
  starts,    (* how often the operation of each run was begun               *)
  stalls,    (* how often its job was found without a worker                *)
  faults     (* faults so far                                               *)

runVars == <<status, job, inserting, worker, cancel, starts, stalls, faults>>

Active == {"queued", "running"}
Ended == {"success", "error", "canceled"}
Idle == [run |-> NoRun, at |-> "idle"]
Held == [run : Run, at : {"picked", "found", "marked", "succeeded", "failed", "stored"}]

RunsTypeOK ==
  /\ status \in [Run -> {"none"} \cup Active \cup Ended]
  /\ job \in [Run -> {"none", "waiting", "active", "gone"}]
  /\ inserting \subseteq Run
  /\ worker \in [Worker -> Held \cup {Idle}]
  /\ cancel \in [Run -> {"no", "read", "saved", "done"}]
  /\ starts \in [Run -> Nat]
  /\ stalls \in [Run -> 0..MaxStalls]
  /\ faults \in 0..MaxFaults

RunsInit ==
  /\ status = [r \in Run |-> "none"]
  /\ job = [r \in Run |-> "none"]
  /\ inserting = {}
  /\ worker = [w \in Worker |-> Idle]
  /\ cancel = [r \in Run |-> "no"]
  /\ starts = [r \in Run |-> 0]
  /\ stalls = [r \in Run |-> 0]
  /\ faults = 0

Fault == faults < MaxFaults /\ faults' = faults + 1

At(w, place) == worker[w].at = place
Move(w, place) == worker' = [worker EXCEPT ![w].at = place]
HeldBy(r) == {w \in Worker : worker[w].run = r}

-----------------------------------------------------------------------------
(* Requests: create and cancel.                                            *)

Fresh == CHOOSE r \in Run : status[r] = "none"

(* create, the INSERT. *)
CreateRun ==
  /\ \E r \in Run : status[r] = "none"
  /\ status' = [status EXCEPT ![Fresh] = "queued"]
  /\ inserting' = inserting \cup {Fresh}
  /\ UNCHANGED <<job, worker, cancel, starts, stalls, faults>>

(* create, queue.add. *)
EnqueueRun(r) ==
  /\ r \in inserting
  /\ job' = [job EXCEPT ![r] = "waiting"]
  /\ inserting' = inserting \ {r}
  /\ UNCHANGED <<status, worker, cancel, starts, stalls, faults>>

(* cancel: what it reads decides, the rest no longer looks. *)
CancelRead(r) ==
  /\ cancel[r] = "no"
  /\ status[r] \in Active
  /\ cancel' = [cancel EXCEPT ![r] = "read"]
  /\ UNCHANGED <<status, job, inserting, worker, starts, stalls, faults>>

CancelSave(r) ==
  /\ cancel[r] = "read"
  /\ status' = [status EXCEPT ![r] = "canceled"]
  /\ cancel' = [cancel EXCEPT ![r] = "saved"]
  /\ UNCHANGED <<job, inserting, worker, starts, stalls, faults>>

(* job.remove() fails on a job that a worker holds; the error is dropped. *)
CancelRemove(r) ==
  /\ cancel[r] = "saved"
  /\ job' = [job EXCEPT ![r] = IF @ = "waiting" THEN "gone" ELSE @]
  /\ cancel' = [cancel EXCEPT ![r] = "done"]
  /\ UNCHANGED <<status, inserting, worker, starts, stalls, faults>>

-----------------------------------------------------------------------------
(* MaintenanceProcessor.process.                                           *)

(* Workers are alike: an idle one takes the job. *)
Pick(w, r) ==
  /\ w = CHOOSE v \in Worker : At(v, "idle") \/ \A u \in Worker : ~At(u, "idle")
  /\ At(w, "idle")
  /\ job[r] = "waiting"
  /\ job' = [job EXCEPT ![r] = "active"]
  /\ worker' = [worker EXCEPT ![w] = [run |-> r, at |-> "picked"]]
  /\ UNCHANGED <<status, inserting, cancel, starts, stalls, faults>>

Release(w) ==
  /\ job' = [job EXCEPT ![worker[w].run] = "gone"]
  /\ worker' = [worker EXCEPT ![w] = Idle]

(* Mutation: the status is not looked at. *)
FindAny(w) ==
  /\ At(w, "picked")
  /\ Move(w, "found")
  /\ UNCHANGED <<status, job, inserting, cancel, starts, stalls, faults>>

(* find: a run that is already canceled ends the job. *)
Find(w) ==
  /\ At(w, "picked")
  /\ IF status[worker[w].run] = "canceled"
     THEN Release(w)
     ELSE Move(w, "found") /\ job' = job
  /\ UNCHANGED <<status, inserting, cancel, starts, stalls, faults>>

(* markRunning, by id. *)
MarkRunning(w) ==
  /\ At(w, "found")
  /\ status' = [status EXCEPT ![worker[w].run] = "running"]
  /\ starts' = [starts EXCEPT ![worker[w].run] = @ + 1]
  /\ Move(w, "marked")
  /\ UNCHANGED <<job, inserting, cancel, stalls, faults>>

(* dispatch returns or throws. *)
DispatchReturns(w) ==
  /\ At(w, "marked")
  /\ Move(w, "succeeded")
  /\ UNCHANGED <<status, job, inserting, cancel, starts, stalls, faults>>

DispatchThrows(w) ==
  /\ At(w, "marked")
  /\ Fault
  /\ Move(w, "failed")
  /\ UNCHANGED <<status, job, inserting, cancel, starts, stalls>>

MarkEnd(w, before, s) ==
  /\ At(w, before)
  /\ status' = [status EXCEPT ![worker[w].run] = s]
  /\ Move(w, "stored")
  /\ UNCHANGED <<job, inserting, cancel, starts, stalls, faults>>

MarkSuccess(w) == MarkEnd(w, "succeeded", "success")
MarkError(w) == MarkEnd(w, "failed", "error")

(* Mutation: the error is thrown again and the queue retries the job. *)
CompleteOrRetry(w) ==
  /\ At(w, "stored")
  /\ worker' = [worker EXCEPT ![w] = Idle]
  /\ job' = [job EXCEPT ![worker[w].run] =
               IF status[worker[w].run] = "error" THEN "waiting" ELSE "gone"]
  /\ UNCHANGED <<status, inserting, cancel, starts, stalls, faults>>

(* process returns: only now is the job completed. *)
Complete(w) ==
  /\ At(w, "stored")
  /\ Release(w)
  /\ UNCHANGED <<status, inserting, cancel, starts, stalls, faults>>

(* A statement of process fails: markSuccess inside its try, the others    *)
(* end the job, which has no second attempt.                               *)
StatementFails(w) ==
  /\ Fault
  /\ \/ At(w, "succeeded") /\ Move(w, "failed") /\ job' = job
     \/ worker[w].at \in {"picked", "found", "failed"} /\ Release(w)
  /\ UNCHANGED <<status, inserting, cancel, starts, stalls>>

-----------------------------------------------------------------------------
(* The process dies; BullMQ later finds the jobs it held.                  *)

Crash ==
  /\ Fault
  /\ inserting' = {}
  /\ worker' = [w \in Worker |-> Idle]
  /\ cancel' = [r \in Run |-> IF cancel[r] \in {"read", "saved"} THEN "done" ELSE cancel[r]]
  /\ UNCHANGED <<status, job, starts, stalls>>

(* A stalled job waits again, maxStalledCount times. *)
Stalled(r) ==
  /\ job[r] = "active"
  /\ HeldBy(r) = {}
  /\ IF stalls[r] < MaxStalls
     THEN /\ job' = [job EXCEPT ![r] = "waiting"]
          /\ stalls' = [stalls EXCEPT ![r] = @ + 1]
     ELSE job' = [job EXCEPT ![r] = "gone"] /\ stalls' = stalls
  /\ UNCHANGED <<status, inserting, worker, cancel, starts, faults>>

-----------------------------------------------------------------------------
RequestStep ==
  \E r \in Run : EnqueueRun(r) \/ CancelRead(r) \/ CancelSave(r) \/ CancelRemove(r)

WorkerStep(w) ==
  \/ Find(w) \/ MarkRunning(w) \/ MarkSuccess(w) \/ MarkError(w) \/ Complete(w)
  \/ \E r \in Run : Pick(w, r)

RunsNext ==
  \/ CreateRun
  \/ RequestStep
  \/ \E w \in Worker :
       WorkerStep(w) \/ DispatchReturns(w) \/ DispatchThrows(w) \/ StatementFails(w)
  \/ Crash
  \/ \E r \in Run : Stalled(r)

-----------------------------------------------------------------------------
(* Properties.                                                             *)

(* The operation of a run begins once, and once more for every time its    *)
(* job was found without a worker: errors are never retried (attempts: 1). *)
BegunOnce == \A r \in Run : starts[r] <= 1 + stalls[r]

(* Without a fault, a run that reads queued or running is on its way to    *)
(* the queue or has a job that will end it, whatever was canceled.         *)
ActiveHasJob ==
  faults = 0 =>
    \A r \in Run : status[r] \in Active =>
      r \in inserting \/ job[r] \in {"waiting", "active"}

(* A run nobody will end any more, though it reads queued or running. *)
Orphan(r) ==
  status[r] \in Active /\ r \notin inserting /\ job[r] \in {"none", "gone"}

(* Work that was asked for once is begun once and not forgotten.           *)
RunsDoneOnce == BegunOnce /\ ActiveHasJob

Life == INSTANCE RunLife WITH
  phase <- status,
  called <- {r \in Run : cancel[r] # "no"},
  taken <- {r \in Run : \E w \in HeldBy(r) : ~At(w, "picked")},
  begun <- starts,
  lost <- stalls

(* Rows, jobs, workers and cancels together do what RunLife says, though   *)
(* no statement looks at the status it replaces: a run nobody disturbs     *)
(* goes from queued to running to one end, what is canceled before a       *)
(* worker has read it is never begun, no two workers have one run, and     *)
(* only work that was begun has a result.                                  *)
ImplementsRunLife == Life!Spec
=============================================================================
