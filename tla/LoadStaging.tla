---------------------------- MODULE LoadStaging ----------------------------
(***************************************************************************)
(* The sealing of fragmented loads (tables/table-rows.service.ts, ingest,  *)
(* stageLoadRows, sealLoad, flipLoadIfComplete; ingest-table.operation.ts; *)
(* stale-load.cron.ts).                                                    *)
(*                                                                         *)
(* The hub cuts a large file into batches, each a job of its own, and      *)
(* closes it with a seal job carrying the number of batches.  The jobs are *)
(* delivered at least once, in any order, to concurrent workers.  Rows of  *)
(* an incomplete load are kept 'staged', which no sweep sends; the         *)
(* transaction that finds the load complete flips them all to 'queued'.    *)
(*                                                                         *)
(* Each job runs one Postgres transaction at READ COMMITTED.  The model    *)
(* has one step per lock it waits for and one for its commit; its writes   *)
(* become visible at the commit, and a rollback only gives the locks back. *)
(***************************************************************************)
EXTENDS Integers, FiniteSets

CONSTANTS Row,           (* rows of one template, ordered by conflict key  *)
          Load,          (* load ids                                       *)
          Worker,        (* concurrent consumers of the jobs queue         *)
          DataJob,       (* batch jobs of the loads, and single events     *)
          Content,       (* Content[j]: the rows data job j carries        *)
          Recency,       (* Recency[j]: their recencyField value           *)
          TotalBatches,  (* TotalBatches[l]: total the seal job announces  *)
          Editable,      (* write.editable of the template                 *)
          MaxFaults,     (* bound on redeliveries and failed transactions  *)
          NoLoad, NoWorker, NoJob

BatchJob == [kind : {"batch"}, load : Load, index : Nat]
EventJob == [kind : {"event"}, load : {NoLoad}, index : Nat]
SealJob == [kind : {"seal"}, load : Load, index : {0}]
Job == DataJob \cup SealJob
Unknown == -1

(* Row keys are comparable, jobs carry known rows, and the sentinels are    *)
(* no loads, workers or jobs.                                               *)
ASSUME LoadAssumption ==
  /\ Row \subseteq Nat
  /\ DataJob \subseteq BatchJob \cup EventJob
  /\ Content \in [DataJob -> SUBSET Row]
  /\ Recency \in [DataJob -> Nat]
  /\ TotalBatches \in [Load -> Nat]
  /\ Editable \in BOOLEAN
  /\ MaxFaults \in Nat
  /\ NoLoad \notin Load
  /\ NoWorker \notin Worker
  /\ NoJob \notin Job

Needed == [l \in Load |-> {j.index : j \in {x \in DataJob : x.kind = "batch" /\ x.load = l}}]

(* The hub announces the number of batches it made. *)
ASSUME HubAssumption ==
  \A l \in Load : IsFiniteSet(Needed[l]) /\ TotalBatches[l] = Cardinality(Needed[l])

VARIABLES
  status,     (* submission_status; "absent" before the row is inserted    *)
  loadOf,     (* load_id                                                   *)
  rec,        (* the recency value inside data; -1 when there is none      *)
  sending,    (* "flight" from a sweep's fetch to its outcome, then "sent" *)
  registered, (* loads with a row in table_loads                           *)
  expected,   (* expected_batches                                          *)
  batches,    (* batch indices in table_load_batches                       *)
  sealed,     (* loads with sealed_at set                                  *)
  stale,      (* loads with stale_at set                                   *)
  rowLock,    (* which transaction holds the lock of a table_rows row      *)
  loadLock,   (* the same for the table_loads row                          *)
  tx,         (* what each worker's transaction is doing: its job, the     *)
              (* rows still to upsert, those it wrote, and whether it      *)
              (* found the load sealed                                     *)
  done,       (* jobs that returned ok at least once                       *)
  faults      (* redeliveries and failures so far (bound MaxFaults)        *)

rowVars == <<status, loadOf, rec, sending>>
loadVars == <<registered, expected, batches, sealed, stale>>
lockVars == <<rowLock, loadLock, tx>>
vars == <<rowVars, loadVars, lockVars, done, faults>>

Sendable == {"queued", "revisado"}
Status == {"absent", "staged", "pending", "correcto", "rechazado"} \cup Sendable

Transaction == [pc : {"idle", "upsert", "lock", "finish"}, job : Job \cup {NoJob},
                todo : SUBSET Row, wrote : SUBSET Row, late : BOOLEAN]
At(pc, j, todo, wrote, late) ==
  [pc |-> pc, job |-> j, todo |-> todo, wrote |-> wrote, late |-> late]
Idle == At("idle", NoJob, {}, {}, FALSE)

TypeOK ==
  /\ status \in [Row -> Status]
  /\ loadOf \in [Row -> Load \cup {NoLoad}]
  /\ rec \in [Row -> Nat \cup {Unknown}]
  /\ sending \in [Row -> {"no", "flight", "sent"}]
  /\ registered \subseteq Load
  /\ expected \in [Load -> Nat \cup {Unknown}]
  /\ batches \in [Load -> SUBSET Nat]
  /\ sealed \subseteq registered
  /\ stale \subseteq registered
  /\ rowLock \in [Row -> Worker \cup {NoWorker}]
  /\ loadLock \in [Load -> Worker \cup {NoWorker}]
  /\ tx \in [Worker -> Transaction]
  /\ done \subseteq Job
  /\ faults \in 0..MaxFaults

Init ==
  /\ status = [r \in Row |-> "absent"]
  /\ loadOf = [r \in Row |-> NoLoad]
  /\ rec = [r \in Row |-> Unknown]
  /\ sending = [r \in Row |-> "no"]
  /\ registered = {}
  /\ expected = [l \in Load |-> Unknown]
  /\ batches = [l \in Load |-> {}]
  /\ sealed = {}
  /\ stale = {}
  /\ rowLock = [r \in Row |-> NoWorker]
  /\ loadLock = [l \in Load |-> NoWorker]
  /\ tx = [w \in Worker |-> Idle]
  /\ done = {}
  /\ faults = 0

-----------------------------------------------------------------------------
(* What a transaction knows and what it is about to write.                 *)

Running == {tx[w].job : w \in Worker}
LoadAt(w) == tx[w].job.load
IsNext(r, S) == r \in S /\ \A x \in S : r <= x

(* Mutations of the guard: without its recency part, and without its       *)
(* 'correcto' part.                                                        *)
OverwritesAnyAge(j, r) == status[r] # "correcto"
OverwritesCorrecto(j, r) == rec[r] <= Recency[j]

(* The DO UPDATE guard: never over 'correcto', never over a newer row.     *)
Overwrites(j, r) == status[r] # "correcto" /\ rec[r] <= Recency[j]

(* markStaged leaves rows alone that already went out. *)
StagedBy(w) == {r \in tx[w].wrote : status[r] \in {"absent", "staged"} \cup Sendable}

Received(w) ==
  IF tx[w].job.kind = "batch" THEN batches[LoadAt(w)] \cup {tx[w].job.index}
                              ELSE batches[LoadAt(w)]
Announced(w) ==
  IF tx[w].job.kind = "seal" THEN TotalBatches[LoadAt(w)] ELSE expected[LoadAt(w)]

(* Mutations of the test for completeness: one batch short, and tried by   *)
(* the seal only.                                                          *)
CompletesOneShort(w) ==
  /\ LoadAt(w) \notin sealed
  /\ Announced(w) # Unknown
  /\ Cardinality(Received(w)) >= Announced(w) - 1
CompletesOnSealOnly(w) ==
  /\ LoadAt(w) \notin sealed
  /\ tx[w].job.kind = "seal"
  /\ Cardinality(Received(w)) >= Announced(w)

(* flipLoadIfComplete: not sealed, total known, every batch counted. *)
Completes(w) ==
  /\ LoadAt(w) \notin sealed
  /\ Announced(w) # Unknown
  /\ Cardinality(Received(w)) >= Announced(w)

(* Mutations of the flip: without the load_id filter, and over the rows of *)
(* the last batch alone.                                                   *)
FlippedOfAnyLoad(w) == StagedBy(w) \cup {r \in Row : status[r] = "staged"}
FlippedOwnOnly(w) == StagedBy(w)

(* The rows the flip queues: all that are staged under the load. *)
Flipped(w) ==
  StagedBy(w) \cup {r \in Row : loadOf[r] = LoadAt(w) /\ status[r] = "staged"}

(* Who a transaction is waiting for. *)
WaitsFor(w) ==
  CASE tx[w].pc = "upsert" -> {rowLock[r] : r \in {x \in tx[w].todo : IsNext(x, tx[w].todo)}}
                              \ {NoWorker}
    [] tx[w].pc = "lock" -> {loadLock[LoadAt(w)]} \ {NoWorker}
    [] tx[w].pc = "finish" /\ tx[w].job.kind # "event" /\ ~tx[w].late /\ Completes(w) ->
         {rowLock[r] : r \in Flipped(w)} \ {w, NoWorker}
    [] OTHER -> {}

Stuck(S) == S # {} /\ \A w \in S : WaitsFor(w) \cap S # {}
Cycle(S) == Stuck(S) /\ \A T \in SUBSET S : Stuck(T) => T = S

-----------------------------------------------------------------------------
(* One job: delivery, row locks in key order, the load lock, the commit.   *)

(* A worker takes a job: a first delivery, a retry, or a redelivery. *)
Take(w, j) ==
  /\ tx[w] = Idle
  /\ \/ j \notin done \cup Running /\ UNCHANGED faults
     \/ j \in done \cup Running /\ faults < MaxFaults /\ faults' = faults + 1

(* A job without rows is acknowledged and leaves no trace, not even of its *)
(* batch index.                                                            *)
IngestNothing(w, j) ==
  /\ j \in DataJob
  /\ Content[j] = {}
  /\ Take(w, j)
  /\ done' = done \cup {j}
  /\ UNCHANGED <<rowVars, loadVars, lockVars>>

BeginIngest(w, j) ==
  /\ j \in DataJob
  /\ Content[j] # {}
  /\ Take(w, j)
  /\ tx' = [tx EXCEPT ![w] = At("upsert", j, Content[j], {}, FALSE)]
  /\ UNCHANGED <<rowVars, loadVars, rowLock, loadLock, done>>

BeginSeal(w, j) ==
  /\ j \in SealJob
  /\ Take(w, j)
  /\ tx' = [tx EXCEPT ![w] = At("lock", j, {}, {}, FALSE)]
  /\ UNCHANGED <<rowVars, loadVars, rowLock, loadLock, done>>

AfterUpsert(w, r) ==
  IF tx[w].todo # {r} THEN "upsert"
  ELSE IF tx[w].job.kind = "event" THEN "finish" ELSE "lock"

(* INSERT ... ON CONFLICT DO UPDATE of the next row in key order: it locks *)
(* the row also when the guard then leaves the row as it is.               *)
Upsert(w, r) ==
  /\ tx[w].pc = "upsert"
  /\ IsNext(r, tx[w].todo)
  /\ rowLock[r] = NoWorker
  /\ rowLock' = [rowLock EXCEPT ![r] = w]
  /\ tx' = [tx EXCEPT ![w] =
       At(AfterUpsert(w, r), tx[w].job, tx[w].todo \ {r},
          tx[w].wrote \cup {x \in {r} : Overwrites(tx[w].job, x)}, FALSE)]
  /\ UNCHANGED <<rowVars, loadVars, loadLock, done, faults>>

(* Mutation: the same SELECT without FOR UPDATE. *)
LockLoadPlainSelect(w) ==
  /\ tx[w].pc = "lock"
  /\ tx' = [tx EXCEPT ![w] = At("finish", tx[w].job, {}, tx[w].wrote, LoadAt(w) \in sealed)]
  /\ UNCHANGED <<rowVars, loadVars, rowLock, loadLock, done, faults>>

(* SELECT sealed_at FROM table_loads ... FOR UPDATE, after an INSERT that   *)
(* makes sure there is such a row.                                          *)
LockLoad(w) ==
  /\ tx[w].pc = "lock"
  /\ loadLock[LoadAt(w)] = NoWorker
  /\ loadLock' = [loadLock EXCEPT ![LoadAt(w)] = w]
  /\ tx' = [tx EXCEPT ![w] = At("finish", tx[w].job, {}, tx[w].wrote, LoadAt(w) \in sealed)]
  /\ UNCHANGED <<rowVars, loadVars, rowLock, done, faults>>

Unlock(w) ==
  /\ rowLock' = [r \in Row |-> IF rowLock[r] = w THEN NoWorker ELSE rowLock[r]]
  /\ loadLock' = [l \in Load |-> IF loadLock[l] = w THEN NoWorker ELSE loadLock[l]]
  /\ tx' = [tx EXCEPT ![w] = Idle]

Commit(w) ==
  /\ tx[w].pc = "finish"
  /\ Unlock(w)
  /\ rec' = [r \in Row |-> IF r \in tx[w].wrote THEN Recency[tx[w].job] ELSE rec[r]]
  /\ done' = done \cup {tx[w].job}
  /\ UNCHANGED <<sending, stale, faults>>

(* markQueued over a set of rows. *)
QueueRows(S) == status' = [r \in Row |-> IF r \in S THEN "queued" ELSE status[r]]

(* Mutation: the table_loads row is never inserted. *)
RecordArrivalNoInsert(w) ==
  /\ UNCHANGED registered
  /\ batches' = [batches EXCEPT ![LoadAt(w)] = Received(w)]
  /\ expected' = [expected EXCEPT ![LoadAt(w)] = Announced(w)]

(* The bookkeeping of table_loads and table_load_batches. *)
RecordArrival(w) ==
  /\ registered' = registered \cup {LoadAt(w)}
  /\ batches' = [batches EXCEPT ![LoadAt(w)] = Received(w)]
  /\ expected' = [expected EXCEPT ![LoadAt(w)] = Announced(w)]

(* A single event (no loadId): its rows are queued at once. *)
CommitEvent(w) ==
  /\ Commit(w)
  /\ tx[w].job.kind = "event"
  /\ QueueRows(tx[w].wrote)
  /\ UNCHANGED <<loadOf, registered, expected, batches, sealed>>

(* A batch of a load that is sealed already: straight to the queue, and    *)
(* the batch is not recorded.                                              *)
CommitLate(w) ==
  /\ Commit(w)
  /\ tx[w].job.kind = "batch"
  /\ tx[w].late
  /\ QueueRows(tx[w].wrote)
  /\ UNCHANGED <<loadOf, registered, expected, batches, sealed>>

StampLoad(w) ==
  loadOf' = [r \in Row |-> IF r \in StagedBy(w) THEN LoadAt(w) ELSE loadOf[r]]

(* The load is not complete yet (or a second seal finds it sealed). *)
CommitStaged(w) ==
  /\ Commit(w)
  /\ \/ tx[w].job.kind = "batch" /\ ~tx[w].late
     \/ tx[w].job.kind = "seal"
  /\ ~Completes(w)
  /\ RecordArrival(w)
  /\ status' = [r \in Row |-> IF r \in StagedBy(w) THEN "staged" ELSE status[r]]
  /\ StampLoad(w)
  /\ UNCHANGED sealed

(* The load is complete: the UPDATE of the flip waits for the rows other   *)
(* transactions have locked, then everything commits at once.              *)
CommitFlip(w) ==
  /\ Commit(w)
  /\ tx[w].job.kind \in {"batch", "seal"}
  /\ ~tx[w].late
  /\ Completes(w)
  /\ \A r \in Flipped(w) : rowLock[r] \in {w, NoWorker}
  /\ RecordArrival(w)
  /\ QueueRows(Flipped(w))
  /\ StampLoad(w)
  /\ sealed' = sealed \cup {LoadAt(w)}

Rollback(w) ==
  /\ tx[w] # Idle
  /\ Unlock(w)
  /\ UNCHANGED <<rowVars, loadVars, done>>

(* Postgres ends a cycle of waits by failing one of its transactions. *)
DeadlockVictim(w) ==
  /\ \E S \in SUBSET Worker : w \in S /\ Cycle(S)
  /\ Rollback(w)
  /\ UNCHANGED faults

(* A lost connection, a crash of the process or any other exception. *)
FailTransaction(w) ==
  /\ faults < MaxFaults
  /\ Rollback(w)
  /\ faults' = faults + 1

-----------------------------------------------------------------------------
(* What else moves the rows: each is one statement that needs the row lock *)

(* Mutation: the reaper only looks at loads whose total is known. *)
ReapStaleAnnounced(l) ==
  /\ l \in registered
  /\ expected[l] # Unknown
  /\ l \notin sealed \cup stale
  /\ loadLock[l] = NoWorker
  /\ stale' = stale \cup {l}
  /\ UNCHANGED <<rowVars, registered, expected, batches, sealed, lockVars, done, faults>>

(* StaleLoadCron.reap: a load that has been open for too long. *)
ReapStale(l) ==
  /\ l \in registered
  /\ l \notin sealed \cup stale
  /\ loadLock[l] = NoWorker
  /\ stale' = stale \cup {l}
  /\ UNCHANGED <<rowVars, registered, expected, batches, sealed, lockVars, done, faults>>

(* A sweep reads a sendable row (a force-submit also one that is waiting   *)
(* for its result or was rejected), calls the vendor and commits the       *)
(* outcome with an UPDATE by id.                                           *)
StartSend(r) ==
  /\ status[r] \in Sendable \cup {"pending", "rechazado"}
  /\ sending[r] # "flight"
  /\ sending' = [sending EXCEPT ![r] = "flight"]
  /\ UNCHANGED <<status, loadOf, rec, loadVars, lockVars, done, faults>>

FinishSend(r, outcome) ==
  /\ sending[r] = "flight"
  /\ rowLock[r] = NoWorker
  /\ sending' = [sending EXCEPT ![r] = "sent"]
  /\ status' = [status EXCEPT ![r] = outcome]
  /\ UNCHANGED <<loadOf, rec, loadVars, lockVars, done, faults>>

VendorResult(r, literal) ==
  /\ sending[r] # "no"
  /\ status[r] # "correcto"
  /\ rowLock[r] = NoWorker
  /\ status' = [status EXCEPT ![r] = literal]
  /\ UNCHANGED <<loadOf, rec, sending, loadVars, lockVars, done, faults>>

(* updateAndWrite: only a 'correcto' row is protected from an edit. *)
Edit(r) ==
  /\ Editable
  /\ status[r] \notin {"absent", "correcto"}
  /\ rowLock[r] = NoWorker
  /\ status' = [status EXCEPT ![r] = "revisado"]
  /\ UNCHANGED <<loadOf, rec, sending, loadVars, lockVars, done, faults>>

-----------------------------------------------------------------------------
WorkerStep(w) ==
  \/ \E r \in Row : Upsert(w, r)
  \/ LockLoad(w)
  \/ CommitEvent(w)
  \/ CommitLate(w)
  \/ CommitStaged(w)
  \/ CommitFlip(w)

Deliver(w, j) == IngestNothing(w, j) \/ BeginIngest(w, j) \/ BeginSeal(w, j)

RowStep(r) ==
  \/ StartSend(r)
  \/ \E outcome \in {"pending", "queued"} : FinishSend(r, outcome)
  \/ \E literal \in {"correcto", "rechazado"} : VendorResult(r, literal)
  \/ Edit(r)

Next ==
  \/ \E w \in Worker, j \in Job : Deliver(w, j)
  \/ \E w \in Worker : WorkerStep(w) \/ DeadlockVictim(w) \/ FailTransaction(w)
  \/ \E l \in Load : ReapStale(l)
  \/ \E r \in Row : RowStep(r)

Spec == Init /\ [][Next]_vars

(* Postgres grants locks in arrival order and breaks deadlocks, and the    *)
(* reaper runs every minute.  Nobody has to send, to edit or to answer.    *)
Fairness ==
  /\ \A w \in Worker : SF_vars(WorkerStep(w)) /\ WF_vars(DeadlockVictim(w))
  /\ \A l \in Load : SF_vars(ReapStale(l))

(* Jobs may be lost for good: nothing is assumed of their delivery. *)
FairSpec == Spec /\ Fairness

-----------------------------------------------------------------------------
(* Properties.                                                             *)

(* No row is stranded: a staged row always belongs to a load that is still *)
(* open, so a flip is still to come that will queue it.  The batch that    *)
(* stages rows and the transaction that seals the load race for the        *)
(* table_loads row; stageLoadRows looks at sealed_at under that lock.      *)
StagedLoadOpen ==
  \A r \in Row : status[r] = "staged" => loadOf[r] \in Load \ sealed

(* A sealed load is complete: every batch that carried rows has committed, *)
(* whatever the order in which batches and seal arrived.                   *)
SealedComplete ==
  \A l \in sealed : Needed[l] \subseteq batches[l]

(* Rows of an open load never become sendable through the loads alone: a   *)
(* staged row is queued by the flip of its own load, a single event or a   *)
(* late batch that carries it, or the failure of a call that was in flight *)
(* when it was staged.                                                     *)
HeldUntilSealed ==
  [][\A r \in Row :
       status[r] = "staged" /\ status'[r] = "queued" =>
         \/ loadOf[r] \in sealed' \ sealed
         \/ sending[r] = "flight" /\ sending'[r] = "sent"
         \/ \E w \in Worker :
              /\ tx[w] # Idle /\ tx'[w] = Idle
              /\ r \in tx[w].wrote
              /\ tx[w].job.kind = "event" \/ LoadAt(w) \in sealed']_vars

(* Newest wins: with a recencyField no redelivery and no order of arrival  *)
(* puts an older copy of a row over a newer one.                           *)
NewestWins == [][\A r \in Row : rec'[r] >= rec[r]]_vars

(* An accepted row is out of reach of every ingest: no delivery of any job *)
(* takes a row out of 'correcto'; only the outcome of a call that was in   *)
(* flight when the result came does.                                       *)
IngestKeepsCorrecto ==
  [][\A r \in Row :
       status[r] = "correcto" /\ status'[r] # "correcto" =>
         sending[r] = "flight" /\ sending'[r] = "sent"]_vars

(* Retried to the end, a load leaves nothing behind: once every job has    *)
(* succeeded and none is running, whatever their order and their failures, *)
(* no row is left staged.                                                  *)
NothingLeftStaged ==
  done = Job /\ (\A w \in Worker : tx[w] = Idle) =>
    \A r \in Row : status[r] # "staged"

(* A load that stays open becomes visible to the operator, also when the   *)
(* seal or a batch never arrives.                                          *)
HungLoadsFlagged ==
  \A l \in Load : l \in registered ~> l \in sealed \cup stale

(* Nothing of an incomplete load can be swept: the promise of the 'staged' *)
(* status in write-sweep-query.util.ts and the TableLoadStaging migration. *)
NoEarlyRelease ==
  \A r \in Row :
    status[r] \in Sendable =>
      loadOf[r] = NoLoad \/ Needed[loadOf[r]] \subseteq batches[loadOf[r]]

Gate == INSTANCE LoadGate WITH
  released <- sealed,
  got <- batches,
  held <- [l \in Load |-> {r \in Row : status[r] = "staged" /\ loadOf[r] = l}]

(* The transactions implement the gate of LoadGate. *)
ImplementsGate == Gate!Spec
=============================================================================
