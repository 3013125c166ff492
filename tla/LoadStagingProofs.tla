------------------------- MODULE LoadStagingProofs -------------------------
(***************************************************************************)
(* Theorems about LoadStaging, for any rows, loads, jobs and workers.      *)
(***************************************************************************)
EXTENDS LoadStaging, FiniteSetTheorems, TLAPS

(* Kinds of jobs. *)
LEMMA JobKinds ==
  /\ \A j \in DataJob : /\ j \in Job
                        /\ j.kind \in {"batch", "event"}
                        /\ j.kind = "batch" => j.load \in Load /\ j.index \in Nat
                        /\ Content[j] \subseteq Row
                        /\ Recency[j] \in Nat
  /\ \A j \in SealJob : j \in Job /\ j.kind = "seal" /\ j.load \in Load
  /\ \A j \in Job : j \in DataJob \/ j \in SealJob
BY LoadAssumption DEF Job, BatchJob, EventJob, SealJob

(* What a transaction is doing fits the job it has taken. *)
Fits(t) ==
  /\ t.pc = "idle" => t = Idle
  /\ t.pc # "idle" => t.job \in Job
  /\ t.pc = "upsert" => t.job \in DataJob
  /\ t.pc = "lock" => t.job.kind # "event"
  /\ t.pc # "idle" /\ t.job.kind = "seal" => t.wrote = {}

TxOK == \A w \in Worker : Fits(tx[w])

(* Inductive type invariant. *)
TypeInv == TypeOK /\ TxOK

LEMMA IdleType ==
  Idle \in Transaction /\ Idle.pc = "idle" /\ Idle.wrote = {} /\ Fits(Idle)
BY DEF Idle, At, Transaction, Fits

LEMMA LoadAtType ==
  ASSUME TypeInv, NEW w \in Worker, tx[w].pc # "idle", tx[w].job.kind # "event"
  PROVE  /\ LoadAt(w) \in Load
         /\ Received(w) \in SUBSET Nat
         /\ Announced(w) \in Nat \cup {Unknown}
<1>1. tx[w].job \in Job
  BY DEF TypeInv, TxOK, Fits
<1> QED
  BY <1>1, JobKinds, LoadAssumption DEF TypeInv, TypeOK, LoadAt, Received, Announced

LEMMA TakeType ==
  ASSUME TypeInv, NEW w \in Worker, NEW j \in Job, Take(w, j)
  PROVE  faults' \in 0..MaxFaults
BY LoadAssumption DEF TypeInv, TypeOK, Take

(* A worker moves on: the other transactions stay as they are. *)
LEMMA TxStep ==
  ASSUME TypeInv, NEW w \in Worker, NEW t \in Transaction, Fits(t),
         tx' = [tx EXCEPT ![w] = t]
  PROVE  tx' \in [Worker -> Transaction] /\ TxOK'
<1>1. tx \in [Worker -> Transaction] /\ TxOK
  BY DEF TypeInv, TypeOK
<1>2. \A v \in Worker : tx'[v] = IF v = w THEN t ELSE tx[v]
  BY <1>1
<1> QED
  BY <1>1, <1>2 DEF TxOK

(* The end of a transaction gives its locks back. *)
LEMMA UnlockType ==
  ASSUME TypeInv, NEW w \in Worker, Unlock(w)
  PROVE  /\ tx' \in [Worker -> Transaction] /\ TxOK'
         /\ rowLock' \in [Row -> Worker \cup {NoWorker}]
         /\ loadLock' \in [Load -> Worker \cup {NoWorker}]
<1>1. tx' \in [Worker -> Transaction] /\ TxOK'
  BY IdleType, TxStep DEF Unlock
<1> QED
  BY <1>1 DEF Unlock, TypeInv, TypeOK

(* A commit writes recency values of its job. *)
LEMMA CommitType ==
  ASSUME TypeInv, NEW w \in Worker, Commit(w)
  PROVE  /\ tx[w] \in Transaction /\ tx[w].job \in Job /\ tx[w].wrote \in SUBSET Row
         /\ Unlock(w)
         /\ rec' \in [Row -> Nat \cup {Unknown}]
         /\ done' \subseteq Job
         /\ UNCHANGED <<sending, stale, faults>>
<1>1. tx[w] \in Transaction /\ Fits(tx[w]) /\ tx[w].pc = "finish" /\ Unlock(w)
  BY DEF TypeInv, TypeOK, TxOK, Commit
<1>2. tx[w].job \in Job /\ tx[w].wrote \in SUBSET Row
  BY <1>1 DEF Fits, Transaction
<1>3. rec' \in [Row -> Nat \cup {Unknown}]
  <2>1. CASE tx[w].job \in DataJob
    BY <2>1, JobKinds DEF Commit, TypeInv, TypeOK
  <2>2. CASE tx[w].job \in SealJob
    <3>1. tx[w].wrote = {}
      BY <1>1, <2>2, JobKinds DEF Fits
    <3> QED
      BY <3>1 DEF Commit, TypeInv, TypeOK
  <2> QED
    BY <1>2, <2>1, <2>2, JobKinds
<1> QED
  BY <1>1, <1>2, <1>3 DEF Commit, TypeInv, TypeOK

(* The bookkeeping of a load is about a load. *)
LEMMA ArrivalType ==
  ASSUME TypeInv, NEW w \in Worker, tx[w].pc = "finish", tx[w].job.kind # "event",
         RecordArrival(w)
  PROVE  /\ registered' \subseteq Load /\ registered \cup {LoadAt(w)} = registered'
         /\ expected' \in [Load -> Nat \cup {Unknown}]
         /\ batches' \in [Load -> SUBSET Nat]
BY LoadAtType DEF RecordArrival, TypeInv, TypeOK

(* Every step keeps the types. *)
LEMMA TypeStep == TypeInv /\ [Next]_vars => TypeInv'
<1> SUFFICES ASSUME TypeInv, [Next]_vars PROVE TypeInv'
  OBVIOUS
<1> USE DEF rowVars, loadVars, lockVars
<1>1. ASSUME NEW w \in Worker, NEW j \in Job, IngestNothing(w, j) PROVE TypeInv'
  BY <1>1, TakeType DEF IngestNothing, TypeInv, TypeOK, TxOK
<1>2. ASSUME NEW w \in Worker, NEW j \in Job, BeginIngest(w, j) PROVE TypeInv'
  <2> DEFINE t == At("upsert", j, Content[j], {}, FALSE)
  <2>1. t \in Transaction /\ Fits(t)
    BY <1>2, JobKinds DEF BeginIngest, Fits, At, Transaction
  <2>2. tx' = [tx EXCEPT ![w] = t]
    BY <1>2 DEF BeginIngest
  <2> HIDE DEF t
  <2>3. tx' \in [Worker -> Transaction] /\ TxOK'
    BY <2>1, <2>2, TxStep
  <2> QED
    BY <1>2, <2>3, TakeType DEF BeginIngest, TypeInv, TypeOK
<1>3. ASSUME NEW w \in Worker, NEW j \in Job, BeginSeal(w, j) PROVE TypeInv'
  <2> DEFINE t == At("lock", j, {}, {}, FALSE)
  <2>1. t \in Transaction /\ Fits(t)
    BY <1>3, JobKinds DEF BeginSeal, Fits, At, Transaction
  <2>2. tx' = [tx EXCEPT ![w] = t]
    BY <1>3 DEF BeginSeal
  <2> HIDE DEF t
  <2>3. tx' \in [Worker -> Transaction] /\ TxOK'
    BY <2>1, <2>2, TxStep
  <2> QED
    BY <1>3, <2>3, TakeType DEF BeginSeal, TypeInv, TypeOK
<1>4. ASSUME NEW w \in Worker, NEW r \in Row, Upsert(w, r) PROVE TypeInv'
  <2> DEFINE t == At(AfterUpsert(w, r), tx[w].job, tx[w].todo \ {r},
                     tx[w].wrote \cup {x \in {r} : Overwrites(tx[w].job, x)}, FALSE)
  <2>1. tx[w] \in Transaction /\ tx[w].pc = "upsert" /\ tx[w].job \in DataJob
    BY <1>4 DEF Upsert, TypeInv, TypeOK, TxOK, Fits
  <2>2. tx[w].todo \in SUBSET Row /\ tx[w].wrote \in SUBSET Row
    BY <2>1 DEF Transaction
  <2>3. t \in Transaction
    BY <2>1, <2>2, JobKinds DEF AfterUpsert, At, Transaction
  <2>4. Fits(t)
    BY <2>1, JobKinds DEF AfterUpsert, At, Fits
  <2>5. tx' = [tx EXCEPT ![w] = t]
    BY <1>4 DEF Upsert
  <2> HIDE DEF t
  <2>6. tx' \in [Worker -> Transaction] /\ TxOK'
    BY <2>3, <2>4, <2>5, TxStep
  <2> QED
    BY <1>4, <2>6 DEF Upsert, TypeInv, TypeOK
<1>5. ASSUME NEW w \in Worker, LockLoad(w) PROVE TypeInv'
  <2> DEFINE t == At("finish", tx[w].job, {}, tx[w].wrote, LoadAt(w) \in sealed)
  <2>1. tx[w] \in Transaction /\ tx[w].pc = "lock" /\ Fits(tx[w])
    BY <1>5 DEF LockLoad, TypeInv, TypeOK, TxOK
  <2>2. t \in Transaction /\ Fits(t)
    BY <2>1 DEF Transaction, Fits, At
  <2>3. tx' = [tx EXCEPT ![w] = t]
    BY <1>5 DEF LockLoad
  <2> HIDE DEF t
  <2>4. tx' \in [Worker -> Transaction] /\ TxOK'
    BY <2>2, <2>3, TxStep
  <2> QED
    BY <1>5, <2>4 DEF LockLoad, TypeInv, TypeOK
<1>6. ASSUME NEW w \in Worker, CommitEvent(w) PROVE TypeInv'
  BY <1>6, UnlockType, CommitType DEF CommitEvent, QueueRows, TypeInv, TypeOK, Status, Sendable
<1>7. ASSUME NEW w \in Worker, CommitLate(w) PROVE TypeInv'
  BY <1>7, UnlockType, CommitType DEF CommitLate, QueueRows, TypeInv, TypeOK, Status, Sendable
<1>8. ASSUME NEW w \in Worker, CommitStaged(w) PROVE TypeInv'
  <2>1. Commit(w) /\ tx[w].pc = "finish" /\ tx[w].job.kind # "event" /\ RecordArrival(w)
    BY <1>8 DEF CommitStaged, Commit
  <2>2. LoadAt(w) \in Load
    BY <2>1, LoadAtType
  <2>3. status' \in [Row -> Status] /\ loadOf' \in [Row -> Load \cup {NoLoad}]
    BY <1>8, <2>2 DEF CommitStaged, StampLoad, TypeInv, TypeOK, Status
  <2>4. sealed' = sealed
    BY <1>8 DEF CommitStaged
  <2> QED
    BY <2>1, <2>3, <2>4, UnlockType, CommitType, ArrivalType DEF TypeInv, TypeOK
<1>9. ASSUME NEW w \in Worker, CommitFlip(w) PROVE TypeInv'
  <2>1. Commit(w) /\ tx[w].pc = "finish" /\ tx[w].job.kind # "event" /\ RecordArrival(w)
    BY <1>9 DEF CommitFlip, Commit
  <2>2. LoadAt(w) \in Load
    BY <2>1, LoadAtType
  <2>3. status' \in [Row -> Status] /\ loadOf' \in [Row -> Load \cup {NoLoad}]
    BY <1>9, <2>2 DEF CommitFlip, QueueRows, StampLoad, TypeInv, TypeOK, Status, Sendable
  <2>4. sealed' = sealed \cup {LoadAt(w)}
    BY <1>9 DEF CommitFlip
  <2> QED
    BY <2>1, <2>3, <2>4, UnlockType, CommitType, ArrivalType DEF TypeInv, TypeOK
<1>10. ASSUME NEW w \in Worker, DeadlockVictim(w) PROVE TypeInv'
  BY <1>10, UnlockType DEF DeadlockVictim, Rollback, TypeInv, TypeOK
<1>11. ASSUME NEW w \in Worker, FailTransaction(w) PROVE TypeInv'
  BY <1>11, UnlockType, LoadAssumption DEF FailTransaction, Rollback, TypeInv, TypeOK
<1>12. ASSUME NEW l \in Load, ReapStale(l) PROVE TypeInv'
  BY <1>12 DEF ReapStale, TypeInv, TypeOK, TxOK
<1>13. ASSUME NEW r \in Row, RowStep(r) PROVE TypeInv'
  BY <1>13 DEF RowStep, StartSend, FinishSend, VendorResult, Edit, TypeInv, TypeOK,
               TxOK, Status, Sendable
<1>14. CASE UNCHANGED vars
  BY <1>14 DEF vars, TypeInv, TypeOK, TxOK
<1> QED
  BY <1>1, <1>2, <1>3, <1>4, <1>5, <1>6, <1>7, <1>8, <1>9, <1>10, <1>11, <1>12, <1>13,
     <1>14 DEF Next, Deliver, WorkerStep

LEMMA TypeInit == Init => TypeInv
BY LoadAssumption, IdleType DEF Init, TypeInv, TypeOK, TxOK, Status

(* In every behaviour the variables keep their types. *)
THEOREM TypeCorrect == Spec => []TypeOK
<1>1. TypeInv => TypeOK
  BY DEF TypeInv
<1> QED
  BY <1>1, TypeInit, TypeStep, PTL DEF Spec

-----------------------------------------------------------------------------
(* What the locks protect.                                                  *)

(* A transaction holds the lock of every row it has written, and from its  *)
(* SELECT ... FOR UPDATE on the lock of its load: what it found in         *)
(* sealed_at stays true until it ends.                                     *)
Locked(w) == tx[w].pc = "finish" /\ tx[w].job.kind # "event"
RowsLocked == \A w \in Worker : \A r \in tx[w].wrote : rowLock[r] = w
LoadsLocked ==
  \A w \in Worker :
    Locked(w) => loadLock[LoadAt(w)] = w /\ (tx[w].late <=> LoadAt(w) \in sealed)

LockInv == RowsLocked /\ LoadsLocked

(* A transaction that ends takes nothing from the others. *)
LEMMA UnlockOthers ==
  ASSUME TypeInv, LockInv, NEW w \in Worker, Unlock(w)
  PROVE  /\ RowsLocked'
         /\ \A v \in Worker : tx'[v].pc # "idle" => v # w /\ tx'[v] = tx[v]
         /\ \A v \in Worker : Locked(v)' => Locked(v) /\ loadLock'[LoadAt(v)] = v
<1>1. \A v \in Worker : tx'[v] = IF v = w THEN Idle ELSE tx[v]
  BY DEF Unlock, TypeInv, TypeOK
<1>2. RowsLocked'
  <2> SUFFICES ASSUME NEW v \in Worker, NEW r \in tx'[v].wrote PROVE rowLock'[r] = v
    BY DEF RowsLocked
  <2>1. v # w /\ tx'[v] = tx[v]
    BY <1>1, IdleType
  <2>2. tx[v] \in Transaction
    BY DEF TypeInv, TypeOK
  <2>3. r \in Row
    BY <2>1, <2>2 DEF Transaction
  <2> QED
    BY <2>1, <2>3, LoadAssumption DEF Unlock, LockInv, RowsLocked
<1>3. \A v \in Worker : tx'[v].pc # "idle" => v # w /\ tx'[v] = tx[v]
  BY <1>1, IdleType
<1>4. ASSUME NEW v \in Worker, Locked(v)' PROVE Locked(v) /\ loadLock'[LoadAt(v)] = v
  <2>1. v # w /\ tx'[v] = tx[v] /\ Locked(v)
    BY <1>3, <1>4 DEF Locked
  <2>2. LoadAt(v) \in Load
    BY <2>1, LoadAtType DEF Locked
  <2> QED
    BY <2>1, <2>2 DEF Unlock, LockInv, LoadsLocked
<1> QED
  BY <1>2, <1>3, <1>4

LEMMA LockInit == Init => LockInv
BY IdleType DEF Init, LockInv, RowsLocked, LoadsLocked, Locked

LEMMA LockStep == TypeInv /\ LockInv /\ [Next]_vars => LockInv'
<1> SUFFICES ASSUME TypeInv, LockInv, [Next]_vars PROVE LockInv'
  OBVIOUS
<1> USE DEF rowVars, loadVars, lockVars
<1> DEFINE Ends(w) == Unlock(w) /\ UNCHANGED sealed
<1>1. ASSUME NEW w \in Worker, Ends(w) PROVE LockInv'
  <2>1. RowsLocked'
    BY <1>1, UnlockOthers
  <2>2. ASSUME NEW v \in Worker, Locked(v)'
        PROVE  loadLock'[LoadAt(v)] = v /\ tx'[v] = tx[v] /\ Locked(v)
    BY <1>1, <2>2, UnlockOthers DEF Locked
  <2> QED
    BY <1>1, <2>1, <2>2 DEF LockInv, LoadsLocked, LoadAt
<1>2. ASSUME NEW w \in Worker, NEW j \in Job, Deliver(w, j) PROVE LockInv'
  <2>1. CASE IngestNothing(w, j)
    BY <2>1 DEF IngestNothing, LockInv, RowsLocked, LoadsLocked, Locked, LoadAt
  <2>2. CASE BeginIngest(w, j) \/ BeginSeal(w, j)
    <3>1. PICK t : t.pc \in {"upsert", "lock"} /\ t.wrote = {} /\ tx' = [tx EXCEPT ![w] = t]
      BY <2>2 DEF BeginIngest, BeginSeal, At
    <3>2. \A v \in Worker : tx'[v] = IF v = w THEN t ELSE tx[v]
      BY <3>1 DEF TypeInv, TypeOK
    <3>3. UNCHANGED <<rowLock, loadLock, sealed>>
      BY <2>2 DEF BeginIngest, BeginSeal
    <3> QED
      BY <3>1, <3>2, <3>3 DEF LockInv, RowsLocked, LoadsLocked, Locked, LoadAt
  <2> QED
    BY <1>2, <2>1, <2>2 DEF Deliver
<1>3. ASSUME NEW w \in Worker, NEW r \in Row, Upsert(w, r) PROVE LockInv'
  <2>1. PICK t : /\ t.pc # "finish" \/ t.job.kind = "event"
                 /\ t.wrote \subseteq tx[w].wrote \cup {r}
                 /\ tx' = [tx EXCEPT ![w] = t]
    BY <1>3 DEF Upsert, AfterUpsert, At
  <2>2. \A v \in Worker : tx'[v] = IF v = w THEN t ELSE tx[v]
    BY <2>1 DEF TypeInv, TypeOK
  <2>3. UNCHANGED <<loadLock, sealed>> /\ rowLock[r] = NoWorker
    BY <1>3 DEF Upsert
  <2>4. \A x \in Row : rowLock'[x] = IF x = r THEN w ELSE rowLock[x]
    BY <1>3 DEF Upsert, TypeInv, TypeOK
  <2>5. \A v \in Worker : tx[v].wrote \subseteq Row
    BY DEF TypeInv, TypeOK, Transaction
  <2>6. RowsLocked'
    <3> SUFFICES ASSUME NEW v \in Worker, NEW x \in tx'[v].wrote PROVE rowLock'[x] = v
      BY DEF RowsLocked
    <3>1. x \in tx[v].wrote \/ (v = w /\ x = r)
      BY <2>1, <2>2
    <3>2. CASE x = r
      BY <2>3, <2>4, <3>1, <3>2, LoadAssumption DEF LockInv, RowsLocked
    <3>3. CASE x # r
      BY <2>4, <2>5, <3>1, <3>3 DEF LockInv, RowsLocked
    <3> QED
      BY <3>2, <3>3
  <2>7. LoadsLocked'
    BY <2>1, <2>2, <2>3 DEF LockInv, LoadsLocked, Locked, LoadAt
  <2> QED
    BY <2>6, <2>7 DEF LockInv
<1>4. ASSUME NEW w \in Worker, LockLoad(w) PROVE LockInv'
  <2>1. tx[w].pc = "lock" /\ tx[w].job.kind # "event" /\ LoadAt(w) \in Load
    BY <1>4, LoadAtType DEF LockLoad, TypeInv, TxOK, Fits
  <2>2. PICK t : /\ t.wrote = tx[w].wrote /\ t.job = tx[w].job
                 /\ t.late <=> LoadAt(w) \in sealed
                 /\ tx' = [tx EXCEPT ![w] = t]
    BY <1>4 DEF LockLoad, At
  <2>3. \A v \in Worker : tx'[v] = IF v = w THEN t ELSE tx[v]
    BY <2>2 DEF TypeInv, TypeOK
  <2>4. UNCHANGED <<rowLock, sealed>> /\ loadLock[LoadAt(w)] = NoWorker
    BY <1>4 DEF LockLoad
  <2>5. \A l \in Load : loadLock'[l] = IF l = LoadAt(w) THEN w ELSE loadLock[l]
    BY <1>4 DEF LockLoad, TypeInv, TypeOK
  <2>6. RowsLocked'
    BY <2>2, <2>3, <2>4 DEF LockInv, RowsLocked
  <2>7. ASSUME NEW v \in Worker, Locked(v)'
        PROVE  loadLock'[LoadAt(v)'] = v /\ (tx'[v].late <=> LoadAt(v)' \in sealed')
    <3>1. CASE v = w
      BY <2>1, <2>2, <2>3, <2>4, <2>5, <3>1 DEF LoadAt
    <3>2. CASE v # w
      <4>1. tx'[v] = tx[v] /\ Locked(v) /\ LoadAt(v)' = LoadAt(v)
        BY <2>3, <2>7, <3>2 DEF Locked, LoadAt
      <4>2. LoadAt(v) \in Load /\ loadLock[LoadAt(v)] = v
        BY <4>1, LoadAtType DEF Locked, LockInv, LoadsLocked
      <4> QED
        BY <2>4, <2>5, <4>1, <4>2, LoadAssumption DEF LockInv, LoadsLocked
    <3> QED
      BY <3>1, <3>2
  <2> QED
    BY <2>6, <2>7 DEF LockInv, LoadsLocked
<1>5. ASSUME NEW w \in Worker, CommitEvent(w) \/ CommitLate(w) \/ CommitStaged(w)
      PROVE  LockInv'
  BY <1>1, <1>5 DEF CommitEvent, CommitLate, CommitStaged, Commit
<1>6. ASSUME NEW w \in Worker, CommitFlip(w) PROVE LockInv'
  <2>1. Unlock(w) /\ sealed' = sealed \cup {LoadAt(w)} /\ Locked(w)
    BY <1>6 DEF CommitFlip, Commit, Locked
  <2>2. ASSUME NEW v \in Worker, Locked(v)'
        PROVE  loadLock'[LoadAt(v)] = v /\ tx'[v] = tx[v] /\ Locked(v) /\ v # w
    BY <2>1, <2>2, UnlockOthers DEF Locked
  <2>3. ASSUME NEW v \in Worker, Locked(v), v # w PROVE LoadAt(v) # LoadAt(w)
    BY <2>1, <2>3 DEF LockInv, LoadsLocked
  <2> QED
    BY <2>1, <2>2, <2>3, UnlockOthers DEF LockInv, LoadsLocked, LoadAt
<1>7. ASSUME NEW w \in Worker, DeadlockVictim(w) \/ FailTransaction(w) PROVE LockInv'
  BY <1>1, <1>7 DEF DeadlockVictim, FailTransaction, Rollback
<1>8. ASSUME NEW l \in Load, ReapStale(l) PROVE LockInv'
  BY <1>8 DEF ReapStale, LockInv, RowsLocked, LoadsLocked, Locked, LoadAt
<1>9. ASSUME NEW r \in Row, RowStep(r) PROVE LockInv'
  BY <1>9 DEF RowStep, StartSend, FinishSend, VendorResult, Edit, LockInv, RowsLocked,
              LoadsLocked, Locked, LoadAt
<1>10. CASE UNCHANGED vars
  BY <1>10 DEF vars, LockInv, RowsLocked, LoadsLocked, Locked, LoadAt
<1> QED
  BY <1>2, <1>3, <1>4, <1>5, <1>6, <1>7, <1>8, <1>9, <1>10 DEF Next, WorkerStep

-----------------------------------------------------------------------------
(* Staged rows always have a flip to come.                                  *)

LEMMA StagedStep ==
  TypeInv /\ LockInv /\ StagedLoadOpen /\ [Next]_vars => StagedLoadOpen'
<1> SUFFICES ASSUME TypeInv, LockInv, StagedLoadOpen, [Next]_vars PROVE StagedLoadOpen'
  OBVIOUS
<1> USE DEF rowVars, loadVars, lockVars
<1>1. ASSUME UNCHANGED <<status, loadOf, sealed>> PROVE StagedLoadOpen'
  BY <1>1 DEF StagedLoadOpen
<1>2. ASSUME NEW w \in Worker, CommitEvent(w) \/ CommitLate(w) PROVE StagedLoadOpen'
  BY <1>2 DEF CommitEvent, CommitLate, QueueRows, StagedLoadOpen, TypeInv, TypeOK
<1>3. ASSUME NEW w \in Worker, CommitStaged(w) PROVE StagedLoadOpen'
  <2>1. Locked(w) /\ Fits(tx[w]) /\ LoadAt(w) \in Load
    BY <1>3, LoadAtType DEF CommitStaged, Commit, Locked, TypeInv, TxOK
  <2>2. \/ StagedBy(w) = {}
        \/ LoadAt(w) \notin sealed
    <3>1. CASE tx[w].job.kind = "seal"
      BY <2>1, <3>1 DEF Locked, Fits, StagedBy
    <3>2. CASE tx[w].job.kind = "batch" /\ ~tx[w].late
      BY <2>1, <3>2 DEF LockInv, LoadsLocked
    <3> QED
      BY <1>3, <3>1, <3>2 DEF CommitStaged
  <2>3. ASSUME NEW r \in Row, status'[r] = "staged" PROVE loadOf'[r] \in Load \ sealed'
    BY <1>3, <2>1, <2>2, <2>3 DEF CommitStaged, StampLoad, StagedLoadOpen, TypeInv, TypeOK
  <2> QED
    BY <2>3 DEF StagedLoadOpen
<1>4. ASSUME NEW w \in Worker, CommitFlip(w) PROVE StagedLoadOpen'
  <2>1. ASSUME NEW r \in Row, status'[r] = "staged" PROVE loadOf'[r] \in Load \ sealed'
    <3>1. r \notin Flipped(w) /\ status[r] = "staged"
      BY <1>4, <2>1 DEF CommitFlip, QueueRows
    <3>2. loadOf'[r] = loadOf[r] /\ loadOf[r] # LoadAt(w)
      BY <1>4, <3>1 DEF CommitFlip, StampLoad, Flipped
    <3> QED
      BY <1>4, <3>1, <3>2 DEF CommitFlip, StagedLoadOpen
  <2> QED
    BY <2>1 DEF StagedLoadOpen
<1>5. ASSUME NEW r \in Row, RowStep(r) PROVE StagedLoadOpen'
  BY <1>5 DEF RowStep, StartSend, FinishSend, VendorResult, Edit, StagedLoadOpen,
              TypeInv, TypeOK
<1>6. ASSUME NEW w \in Worker, NEW j \in Job, Deliver(w, j) PROVE StagedLoadOpen'
  BY <1>1, <1>6 DEF Deliver, IngestNothing, BeginIngest, BeginSeal
<1>7. ASSUME NEW w \in Worker, (\E r \in Row : Upsert(w, r)) \/ LockLoad(w)
      PROVE  StagedLoadOpen'
  BY <1>1, <1>7 DEF Upsert, LockLoad
<1>8. ASSUME NEW w \in Worker, DeadlockVictim(w) \/ FailTransaction(w) PROVE StagedLoadOpen'
  BY <1>1, <1>8 DEF DeadlockVictim, FailTransaction, Rollback
<1>9. ASSUME NEW l \in Load, ReapStale(l) PROVE StagedLoadOpen'
  BY <1>1, <1>9 DEF ReapStale
<1>10. CASE UNCHANGED vars
  BY <1>1, <1>10 DEF vars
<1> QED
  BY <1>2, <1>3, <1>4, <1>5, <1>6, <1>7, <1>8, <1>9, <1>10 DEF Next, WorkerStep

(* No interleaving of batches, seals, retries and failures strands a row.  *)
THEOREM NoStrandedRows == Spec => []StagedLoadOpen
<1> DEFINE Inv == TypeInv /\ LockInv /\ StagedLoadOpen
<1>1. Init => Inv
  BY TypeInit, LockInit DEF Init, StagedLoadOpen
<1>2. Inv /\ [Next]_vars => Inv'
  BY TypeStep, LockStep, StagedStep
<1>3. Inv => StagedLoadOpen
  OBVIOUS
<1> QED
  BY <1>1, <1>2, <1>3, PTL DEF Spec

-----------------------------------------------------------------------------
(* A sealed load is complete.                                               *)

(* table_load_batches records batches the load has, and the total is the   *)
(* one the hub announced or not known yet.                                 *)
Counted ==
  \A l \in Load : batches[l] \subseteq Needed[l] /\ expected[l] \in {Unknown, TotalBatches[l]}

CompleteInv == Counted /\ SealedComplete

LEMMA ArrivalCounted ==
  ASSUME TypeInv, Counted, NEW w \in Worker, Locked(w)
  PROVE  /\ LoadAt(w) \in Load
         /\ Received(w) \subseteq Needed[LoadAt(w)]
         /\ Announced(w) \in {Unknown, TotalBatches[LoadAt(w)]}
<1>1. LoadAt(w) \in Load /\ tx[w].job \in Job
  BY LoadAtType DEF Locked, TypeInv, TxOK, Fits
<1>2. tx[w].job.kind = "batch" => tx[w].job.index \in Needed[LoadAt(w)]
  BY <1>1, JobKinds DEF Needed, LoadAt
<1> QED
  BY <1>1, <1>2 DEF Received, Announced, Counted

(* Batches are counted, not compared: as many as there are, is all.        *)
LEMMA CompletesMeansAll ==
  ASSUME TypeInv, Counted, NEW w \in Worker, Locked(w), Completes(w)
  PROVE  Needed[LoadAt(w)] \subseteq Received(w)
<1> DEFINE L == LoadAt(w)
<1>1. L \in Load /\ Received(w) \subseteq Needed[L] /\ Announced(w) = TotalBatches[L]
  BY ArrivalCounted DEF Completes
<1>2. IsFiniteSet(Needed[L]) /\ TotalBatches[L] = Cardinality(Needed[L])
  BY <1>1, HubAssumption
<1>3. Cardinality(Received(w)) >= Cardinality(Needed[L])
  BY <1>1, <1>2 DEF Completes
<1>4. Cardinality(Received(w)) \in Nat /\ Cardinality(Needed[L]) \in Nat
  BY <1>1, <1>2, FS_Subset, FS_CardinalityType
<1>5. /\ Cardinality(Received(w)) <= Cardinality(Needed[L])
      /\ Cardinality(Needed[L]) = Cardinality(Received(w)) => Needed[L] = Received(w)
  BY <1>1, <1>2, FS_Subset
<1> QED
  BY <1>3, <1>4, <1>5

LEMMA CompleteStep == TypeInv /\ CompleteInv /\ [Next]_vars => CompleteInv'
<1> SUFFICES ASSUME TypeInv, CompleteInv, [Next]_vars PROVE CompleteInv'
  OBVIOUS
<1> USE DEF rowVars, loadVars, lockVars
<1>1. ASSUME UNCHANGED <<batches, expected, sealed>> PROVE CompleteInv'
  BY <1>1 DEF CompleteInv, Counted, SealedComplete
<1>2. ASSUME NEW w \in Worker, Locked(w), RecordArrival(w)
      PROVE  /\ Counted'
             /\ \A l \in Load : batches'[l] = IF l = LoadAt(w) THEN Received(w) ELSE batches[l]
             /\ \A l \in Load : batches[l] \subseteq batches'[l]
  <2>1. /\ LoadAt(w) \in Load /\ Received(w) \subseteq Needed[LoadAt(w)]
        /\ Announced(w) \in {Unknown, TotalBatches[LoadAt(w)]}
    BY <1>2, ArrivalCounted DEF CompleteInv
  <2>2. \A l \in Load :
          /\ batches'[l] = IF l = LoadAt(w) THEN Received(w) ELSE batches[l]
          /\ expected'[l] = IF l = LoadAt(w) THEN Announced(w) ELSE expected[l]
    BY <1>2 DEF RecordArrival, TypeInv, TypeOK
  <2>3. \A l \in Load : batches[l] \subseteq batches'[l]
    BY <2>2 DEF Received
  <2> QED
    BY <2>1, <2>2, <2>3 DEF CompleteInv, Counted
<1>3. ASSUME NEW w \in Worker, CommitStaged(w) PROVE CompleteInv'
  <2>1. Locked(w) /\ RecordArrival(w) /\ UNCHANGED sealed
    BY <1>3 DEF CommitStaged, Commit, Locked
  <2> QED
    BY <1>2, <2>1 DEF CompleteInv, SealedComplete, TypeInv, TypeOK
<1>4. ASSUME NEW w \in Worker, CommitFlip(w) PROVE CompleteInv'
  <2>1. /\ Locked(w) /\ RecordArrival(w) /\ Completes(w)
        /\ sealed' = sealed \cup {LoadAt(w)}
    BY <1>4 DEF CommitFlip, Commit, Locked
  <2>2. Needed[LoadAt(w)] \subseteq Received(w) /\ LoadAt(w) \in Load
    BY <2>1, CompletesMeansAll, ArrivalCounted DEF CompleteInv
  <2> QED
    BY <1>2, <2>1, <2>2 DEF CompleteInv, SealedComplete, TypeInv, TypeOK
<1>5. ASSUME NEW w \in Worker, CommitEvent(w) \/ CommitLate(w) PROVE CompleteInv'
  BY <1>1, <1>5 DEF CommitEvent, CommitLate
<1>6. ASSUME NEW w \in Worker, NEW j \in Job, Deliver(w, j) PROVE CompleteInv'
  BY <1>1, <1>6 DEF Deliver, IngestNothing, BeginIngest, BeginSeal
<1>7. ASSUME NEW w \in Worker, (\E r \in Row : Upsert(w, r)) \/ LockLoad(w) PROVE CompleteInv'
  BY <1>1, <1>7 DEF Upsert, LockLoad
<1>8. ASSUME NEW w \in Worker, DeadlockVictim(w) \/ FailTransaction(w) PROVE CompleteInv'
  BY <1>1, <1>8 DEF DeadlockVictim, FailTransaction, Rollback
<1>9. ASSUME NEW l \in Load, ReapStale(l) PROVE CompleteInv'
  BY <1>1, <1>9 DEF ReapStale
<1>10. ASSUME NEW r \in Row, RowStep(r) PROVE CompleteInv'
  BY <1>1, <1>10 DEF RowStep, StartSend, FinishSend, VendorResult, Edit
<1>11. CASE UNCHANGED vars
  BY <1>1, <1>11 DEF vars
<1> QED
  BY <1>3, <1>4, <1>5, <1>6, <1>7, <1>8, <1>9, <1>10, <1>11 DEF Next, WorkerStep

(* Whatever the order of batches and seal, and however often they come: a  *)
(* load is sealed with every batch of it committed.                        *)
THEOREM SealsAreComplete == Spec => []SealedComplete
<1> DEFINE Inv == TypeInv /\ CompleteInv
<1>1. Init => Inv
  BY TypeInit DEF Init, CompleteInv, Counted, SealedComplete
<1>2. Inv /\ [Next]_vars => Inv'
  BY TypeStep, CompleteStep
<1>3. Inv => SealedComplete
  BY DEF CompleteInv
<1> QED
  BY <1>1, <1>2, <1>3, PTL DEF Spec

-----------------------------------------------------------------------------
(* Retried to the end, a load leaves nothing behind.                        *)

(* What jobs that have succeeded leave in the tables, and what keeps a load *)
(* open: a batch with rows is recorded or came late, a seal has announced   *)
(* the total, and a load that knows its total still lacks a batch.          *)
Tallied ==
  /\ \A j \in done : j.kind = "batch" /\ Content[j] # {} =>
       j.index \in batches[j.load] \/ j.load \in sealed
  /\ \A j \in done : j.kind = "seal" => expected[j.load] # Unknown
  /\ \A l \in Load \ sealed :
       expected[l] # Unknown => Cardinality(batches[l]) < expected[l]

TallyInv == TypeInv /\ LockInv /\ Counted /\ Tallied

LEMMA TallyStep == TallyInv /\ [Next]_vars => Tallied'
<1> SUFFICES ASSUME TallyInv, [Next]_vars PROVE Tallied'
  OBVIOUS
<1> USE DEF rowVars, loadVars, lockVars
<1>1. ASSUME UNCHANGED <<batches, expected, sealed, done>> PROVE Tallied'
  BY <1>1 DEF TallyInv, Tallied
<1>2. ASSUME NEW w \in Worker, Locked(w), Commit(w), RecordArrival(w),
             ~tx[w].late \/ tx[w].job.kind = "seal",
             \/ sealed' = sealed \cup {LoadAt(w)}
             \/ sealed' = sealed /\ ~Completes(w)
      PROVE  Tallied'
  <2> DEFINE J == tx[w].job
             L == LoadAt(w)
  <2>1. /\ L \in Load /\ J \in Job /\ J.load = L
        /\ Received(w) \subseteq Needed[L]
        /\ Announced(w) \in {Unknown, TotalBatches[L]}
    BY <1>2, ArrivalCounted DEF TallyInv, TypeInv, TxOK, Fits, Locked, LoadAt
  <2>2. \A l \in Load :
          /\ batches'[l] = IF l = L THEN Received(w) ELSE batches[l]
          /\ expected'[l] = IF l = L THEN Announced(w) ELSE expected[l]
    BY <1>2 DEF RecordArrival, TallyInv, TypeInv, TypeOK
  <2>3. done' = done \cup {J} /\ sealed \subseteq sealed' /\ done \subseteq Job
    BY <1>2 DEF Commit, TallyInv, TypeInv, TypeOK
  <2>4. \A l \in Load : /\ batches[l] \subseteq batches'[l]
                        /\ expected[l] # Unknown => expected'[l] # Unknown
    <3>1. TotalBatches[L] # Unknown
      BY <2>1, LoadAssumption DEF Unknown
    <3> QED
      BY <2>1, <2>2, <3>1 DEF Received, Announced
  <2>5. ASSUME NEW j \in done', j.kind = "batch", Content[j] # {}
        PROVE  j.index \in batches'[j.load] \/ j.load \in sealed'
    <3>1. j \in Job /\ j.load \in Load
      BY <2>1, <2>3, <2>5, JobKinds
    <3>2. CASE j = J
      BY <2>1, <2>2, <2>5, <3>1, <3>2 DEF Received
    <3>3. CASE j \in done
      BY <2>3, <2>4, <2>5, <3>1, <3>3 DEF TallyInv, Tallied
    <3> QED
      BY <2>3, <3>2, <3>3
  <2>6. ASSUME NEW j \in done', j.kind = "seal" PROVE expected'[j.load] # Unknown
    <3>1. j \in Job /\ j.load \in Load
      BY <2>1, <2>3, <2>6, JobKinds
    <3>2. CASE j = J
      <4>1. expected'[L] = TotalBatches[L]
        BY <2>1, <2>2, <2>6, <3>2 DEF Announced
      <4> QED
        BY <2>1, <3>2, <4>1, LoadAssumption DEF Unknown
    <3>3. CASE j \in done
      BY <2>4, <2>6, <3>1, <3>3 DEF TallyInv, Tallied
    <3> QED
      BY <2>3, <3>2, <3>3
  <2>7. ASSUME NEW l \in Load \ sealed', expected'[l] # Unknown
        PROVE  Cardinality(batches'[l]) < expected'[l]
    <3>1. CASE l = L
      <4>1. ~Completes(w) /\ L \notin sealed
        BY <1>2, <2>7, <3>1
      <4>2. ~(Cardinality(Received(w)) >= Announced(w))
        BY <2>1, <2>2, <2>7, <3>1, <4>1 DEF Completes
      <4>3. Announced(w) \in Nat /\ Cardinality(Received(w)) \in Nat
        <5>1. IsFiniteSet(Received(w))
          BY <2>1, HubAssumption, FS_Subset
        <5> QED
          BY <2>1, <2>2, <2>7, <3>1, <5>1, LoadAssumption, FS_CardinalityType
      <4> QED
        BY <2>1, <2>2, <3>1, <4>2, <4>3
    <3>2. CASE l # L
      BY <2>2, <2>3, <2>7, <3>2 DEF TallyInv, Tallied
    <3> QED
      BY <3>1, <3>2
  <2> QED
    BY <2>5, <2>6, <2>7 DEF Tallied
<1>3. ASSUME NEW w \in Worker, CommitStaged(w) PROVE Tallied'
  <2>1. Locked(w) /\ Commit(w) /\ RecordArrival(w) /\ UNCHANGED sealed /\ ~Completes(w)
    BY <1>3 DEF CommitStaged, Commit, Locked
  <2>2. ~tx[w].late \/ tx[w].job.kind = "seal"
    BY <1>3 DEF CommitStaged
  <2> QED
    BY <1>2, <2>1, <2>2
<1>4. ASSUME NEW w \in Worker, CommitFlip(w) PROVE Tallied'
  <2>1. Locked(w) /\ Commit(w) /\ RecordArrival(w) /\ sealed' = sealed \cup {LoadAt(w)}
    BY <1>4 DEF CommitFlip, Commit, Locked
  <2>2. ~tx[w].late \/ tx[w].job.kind = "seal"
    BY <1>4 DEF CommitFlip
  <2> QED
    BY <1>2, <2>1, <2>2
<1>5. ASSUME NEW w \in Worker, CommitEvent(w) PROVE Tallied'
  <2>1. /\ UNCHANGED <<batches, expected, sealed>>
        /\ done' = done \cup {tx[w].job}
        /\ tx[w].job.kind = "event"
    BY <1>5 DEF CommitEvent, Commit
  <2> QED
    BY <2>1 DEF TallyInv, Tallied
<1>6. ASSUME NEW w \in Worker, CommitLate(w) PROVE Tallied'
  <2>1. /\ UNCHANGED <<batches, expected, sealed>>
        /\ done' = done \cup {tx[w].job}
        /\ tx[w].job.kind = "batch" /\ tx[w].late /\ Locked(w)
    BY <1>6 DEF CommitLate, Commit, Locked
  <2>2. tx[w].job.load \in sealed
    BY <2>1 DEF TallyInv, LockInv, LoadsLocked, LoadAt
  <2> QED
    BY <2>1, <2>2 DEF TallyInv, Tallied
<1>7. ASSUME NEW w \in Worker, NEW j \in Job, Deliver(w, j) PROVE Tallied'
  <2>1. CASE IngestNothing(w, j)
    <3>1. /\ UNCHANGED <<batches, expected, sealed>> /\ done' = done \cup {j}
          /\ Content[j] = {} /\ j.kind # "seal"
      BY <2>1, JobKinds DEF IngestNothing
    <3> QED
      BY <3>1 DEF TallyInv, Tallied
  <2>2. CASE BeginIngest(w, j) \/ BeginSeal(w, j)
    BY <1>1, <2>2 DEF BeginIngest, BeginSeal
  <2> QED
    BY <1>7, <2>1, <2>2 DEF Deliver
<1>8. ASSUME NEW w \in Worker, (\E r \in Row : Upsert(w, r)) \/ LockLoad(w) PROVE Tallied'
  BY <1>1, <1>8 DEF Upsert, LockLoad
<1>9. ASSUME NEW w \in Worker, DeadlockVictim(w) \/ FailTransaction(w) PROVE Tallied'
  BY <1>1, <1>9 DEF DeadlockVictim, FailTransaction, Rollback
<1>10. ASSUME NEW l \in Load, ReapStale(l) PROVE Tallied'
  BY <1>1, <1>10 DEF ReapStale
<1>11. ASSUME NEW r \in Row, RowStep(r) PROVE Tallied'
  BY <1>1, <1>11 DEF RowStep, StartSend, FinishSend, VendorResult, Edit
<1>12. CASE UNCHANGED vars
  BY <1>1, <1>12 DEF vars
<1> QED
  BY <1>3, <1>4, <1>5, <1>6, <1>7, <1>8, <1>9, <1>10, <1>11, <1>12 DEF Next, WorkerStep

(* Once all its jobs have succeeded every load is sealed, if none of its   *)
(* batches was without rows.                                               *)
LEMMA AllDoneAllSealed ==
  ASSUME TallyInv, done = Job, NEW l \in Load,
         \A j \in DataJob : j.kind = "batch" => Content[j] # {}
  PROVE  l \in sealed
<1> SUFFICES ASSUME l \notin sealed PROVE FALSE
  OBVIOUS
<1>1. Needed[l] \subseteq batches[l]
  <2> SUFFICES ASSUME NEW i \in Needed[l] PROVE i \in batches[l]
    OBVIOUS
  <2>1. PICK j \in DataJob : j.kind = "batch" /\ j.load = l /\ j.index = i
    BY DEF Needed
  <2> QED
    BY <2>1, JobKinds DEF TallyInv, Tallied
<1>2. batches[l] = Needed[l] /\ expected[l] \in {Unknown, TotalBatches[l]}
  BY <1>1 DEF TallyInv, Counted
<1>3. expected[l] = TotalBatches[l]
  <2>1. [kind |-> "seal", load |-> l, index |-> 0] \in SealJob
    BY DEF SealJob
  <2>2. PICK j \in Job : j.kind = "seal" /\ j.load = l
    BY <2>1, JobKinds
  <2> QED
    BY <1>2, <2>2 DEF TallyInv, Tallied
<1>4. Cardinality(batches[l]) < expected[l]
  BY <1>3, LoadAssumption DEF TallyInv, Tallied, Unknown
<1> QED
  BY <1>2, <1>3, <1>4, HubAssumption, LoadAssumption

(* When every job has succeeded no row is left staged, whatever their      *)
(* order, their failures and their redeliveries.  A batch without rows,    *)
(* which execute acknowledges without recording it, is excluded: with one  *)
(* the property fails.                                                     *)
THEOREM NothingStaysBehind ==
  ASSUME \A j \in DataJob : j.kind = "batch" => Content[j] # {}
  PROVE  Spec => []NothingLeftStaged
<1> DEFINE Inv == TallyInv /\ SealedComplete /\ StagedLoadOpen
<1>1. Init => Inv
  BY TypeInit, LockInit DEF Init, TallyInv, Tallied, Counted, SealedComplete, StagedLoadOpen
<1>2. Inv /\ [Next]_vars => Inv'
  BY TypeStep, LockStep, CompleteStep, TallyStep, StagedStep DEF TallyInv, CompleteInv
<1>3. Inv => NothingLeftStaged
  BY AllDoneAllSealed DEF NothingLeftStaged, StagedLoadOpen
<1> QED
  BY <1>1, <1>2, <1>3, PTL DEF Spec

-----------------------------------------------------------------------------
(* The guard of the upsert holds until the commit.                          *)

(* What the upsert found, the row lock keeps true: nobody accepts the row  *)
(* and nobody brings a newer copy of it before the transaction ends.       *)
WroteFresh ==
  \A w \in Worker : \A r \in tx[w].wrote :
    /\ r \in Row
    /\ tx[w].job \in DataJob
    /\ status[r] # "correcto"
    /\ rec[r] <= Recency[tx[w].job]

GuardInv == TypeInv /\ LockInv /\ WroteFresh

(* The commit of w leaves rows alone that others have written. *)
LEMMA CommitOthers ==
  ASSUME GuardInv, NEW w \in Worker, Unlock(w),
         \A r \in Row : rowLock[r] \in Worker \ {w} => status'[r] = status[r] \/ status'[r] # "correcto",
         \A r \in Row : rowLock[r] \in Worker \ {w} => rec'[r] = rec[r]
  PROVE  WroteFresh'
<1> SUFFICES ASSUME NEW v \in Worker, NEW r \in tx'[v].wrote
             PROVE  /\ r \in Row /\ tx'[v].job \in DataJob /\ status'[r] # "correcto"
                    /\ rec'[r] <= Recency[tx'[v].job]
  BY DEF WroteFresh
<1>1. v # w /\ tx'[v] = tx[v]
  BY IdleType DEF Unlock, GuardInv, TypeInv, TypeOK
<1>2. rowLock[r] = v /\ r \in Row /\ tx[v].job \in DataJob
  BY <1>1 DEF GuardInv, LockInv, RowsLocked, WroteFresh
<1> QED
  BY <1>1, <1>2 DEF GuardInv, WroteFresh

(* The rows a commit of w writes are its own or unlocked. *)
LEMMA CommitWrites ==
  ASSUME GuardInv, NEW w \in Worker, Commit(w)
  PROVE  /\ Unlock(w)
         /\ \A r \in Row : rowLock[r] \in Worker \ {w} => r \notin tx[w].wrote
         /\ \A r \in Row : rec'[r] = IF r \in tx[w].wrote THEN Recency[tx[w].job] ELSE rec[r]
BY DEF Commit, GuardInv, LockInv, RowsLocked

LEMMA WroteStep == GuardInv /\ [Next]_vars => WroteFresh'
<1> SUFFICES ASSUME GuardInv, [Next]_vars PROVE WroteFresh'
  OBVIOUS
<1> USE DEF rowVars, loadVars, lockVars
<1>1. ASSUME NEW w \in Worker, Commit(w),
             \A r \in Row : status'[r] = status[r] \/ status'[r] # "correcto"
      PROVE  WroteFresh'
  BY <1>1, CommitWrites, CommitOthers
<1>2. ASSUME NEW w \in Worker, CommitEvent(w) \/ CommitLate(w) PROVE WroteFresh'
  BY <1>1, <1>2 DEF CommitEvent, CommitLate, QueueRows
<1>3. ASSUME NEW w \in Worker, CommitStaged(w) PROVE WroteFresh'
  BY <1>1, <1>3 DEF CommitStaged
<1>4. ASSUME NEW w \in Worker, CommitFlip(w) PROVE WroteFresh'
  BY <1>1, <1>4 DEF CommitFlip, QueueRows
<1>5. ASSUME NEW w \in Worker, Unlock(w), UNCHANGED <<status, rec>> PROVE WroteFresh'
  BY <1>5, CommitOthers
<1>6. ASSUME NEW w \in Worker, DeadlockVictim(w) \/ FailTransaction(w) PROVE WroteFresh'
  BY <1>5, <1>6 DEF DeadlockVictim, FailTransaction, Rollback
<1>7. ASSUME UNCHANGED <<status, rec, tx>> PROVE WroteFresh'
  BY <1>7 DEF GuardInv, WroteFresh
<1>8. ASSUME NEW w \in Worker, NEW t, tx' = [tx EXCEPT ![w] = t],
             UNCHANGED <<status, rec>>,
             \A r \in t.wrote : /\ r \in Row /\ t.job \in DataJob
                                /\ status[r] # "correcto" /\ rec[r] <= Recency[t.job]
      PROVE  WroteFresh'
  <2>1. \A v \in Worker : tx'[v] = IF v = w THEN t ELSE tx[v]
    BY <1>8 DEF GuardInv, TypeInv, TypeOK
  <2> QED
    BY <1>8, <2>1 DEF GuardInv, WroteFresh
<1>9. ASSUME NEW w \in Worker, NEW j \in Job, Deliver(w, j) PROVE WroteFresh'
  <2>1. CASE IngestNothing(w, j)
    BY <1>7, <2>1 DEF IngestNothing
  <2>2. CASE BeginIngest(w, j) \/ BeginSeal(w, j)
    <3>1. PICK t : t.wrote = {} /\ tx' = [tx EXCEPT ![w] = t]
      BY <2>2 DEF BeginIngest, BeginSeal, At
    <3>2. UNCHANGED <<status, rec>>
      BY <2>2 DEF BeginIngest, BeginSeal
    <3> QED
      BY <1>8, <3>1, <3>2
  <2> QED
    BY <1>9, <2>1, <2>2 DEF Deliver
<1>10. ASSUME NEW w \in Worker, NEW r \in Row, Upsert(w, r) PROVE WroteFresh'
  <2>1. PICK t : /\ t.wrote = tx[w].wrote \cup {x \in {r} : Overwrites(tx[w].job, x)}
                 /\ t.job = tx[w].job
                 /\ tx' = [tx EXCEPT ![w] = t]
    BY <1>10 DEF Upsert, At
  <2>2. UNCHANGED <<status, rec>> /\ tx[w].job \in DataJob
    BY <1>10 DEF Upsert, GuardInv, TypeInv, TxOK, Fits
  <2>3. \A x \in t.wrote : /\ x \in Row /\ t.job \in DataJob
                           /\ status[x] # "correcto" /\ rec[x] <= Recency[t.job]
    BY <2>1, <2>2 DEF Overwrites, GuardInv, WroteFresh
  <2> QED
    BY <1>8, <2>1, <2>2, <2>3
<1>11. ASSUME NEW w \in Worker, LockLoad(w) PROVE WroteFresh'
  <2>1. PICK t : /\ t.wrote = tx[w].wrote /\ t.job = tx[w].job
                 /\ tx' = [tx EXCEPT ![w] = t]
    BY <1>11 DEF LockLoad, At
  <2>2. UNCHANGED <<status, rec>>
    BY <1>11 DEF LockLoad
  <2> QED
    BY <1>8, <2>1, <2>2 DEF GuardInv, WroteFresh
<1>12. ASSUME NEW l \in Load, ReapStale(l) PROVE WroteFresh'
  BY <1>7, <1>12 DEF ReapStale
<1>13. ASSUME NEW r \in Row, RowStep(r) PROVE WroteFresh'
  <2>1. \A x \in Row : status'[x] = "correcto" => status[x] = "correcto" \/ rowLock[x] = NoWorker
    BY <1>13 DEF RowStep, StartSend, FinishSend, VendorResult, Edit, GuardInv, TypeInv, TypeOK
  <2>2. UNCHANGED <<rec, tx>>
    BY <1>13 DEF RowStep, StartSend, FinishSend, VendorResult, Edit
  <2> QED
    BY <2>1, <2>2, LoadAssumption DEF GuardInv, WroteFresh, LockInv, RowsLocked
<1>14. CASE UNCHANGED vars
  BY <1>7, <1>14 DEF vars
<1> QED
  BY <1>2, <1>3, <1>4, <1>6, <1>9, <1>10, <1>11, <1>12, <1>13, <1>14 DEF Next, WorkerStep

LEMMA GuardHolds == Spec => []GuardInv
<1>1. Init => GuardInv
  BY TypeInit, LockInit, IdleType DEF Init, GuardInv, WroteFresh
<1>2. GuardInv /\ [Next]_vars => GuardInv'
  BY TypeStep, LockStep, WroteStep DEF GuardInv
<1> QED
  BY <1>1, <1>2, PTL DEF Spec

(* With a recency column no redelivery and no order of arrival replaces a   *)
(* copy of a row by an older one.                                           *)
THEOREM NewestAlwaysWins == Spec => NewestWins
<1>1. GuardInv /\ [Next]_vars => [\A r \in Row : rec'[r] >= rec[r]]_vars
  <2> SUFFICES ASSUME GuardInv, Next, NEW r \in Row PROVE rec'[r] >= rec[r]
    OBVIOUS
  <2> USE DEF rowVars, loadVars, lockVars
  <2>1. rec[r] >= rec[r]
    BY LoadAssumption DEF GuardInv, TypeInv, TypeOK, Unknown
  <2>2. CASE rec' = rec
    BY <2>1, <2>2
  <2>3. ASSUME NEW w \in Worker, Commit(w) PROVE rec'[r] >= rec[r]
    <3>1. CASE r \in tx[w].wrote
      <4>1. rec'[r] = Recency[tx[w].job] /\ rec[r] <= Recency[tx[w].job]
        BY <2>3, <3>1, CommitWrites DEF GuardInv, WroteFresh
      <4>2. Recency[tx[w].job] \in Nat /\ rec[r] \in Nat \cup {-1}
        BY <3>1, JobKinds DEF GuardInv, WroteFresh, TypeInv, TypeOK, Unknown
      <4> QED
        BY <4>1, <4>2
    <3>2. CASE r \notin tx[w].wrote
      BY <2>1, <2>3, <3>2, CommitWrites
    <3> QED
      BY <3>1, <3>2
  <2>4. rec' = rec \/ \E w \in Worker : Commit(w)
    BY DEF Next, Deliver, IngestNothing, BeginIngest, BeginSeal, WorkerStep, Upsert,
           LockLoad, CommitEvent, CommitLate, CommitStaged, CommitFlip, DeadlockVictim,
           FailTransaction, Rollback, ReapStale, RowStep, StartSend, FinishSend,
           VendorResult, Edit
  <2> QED
    BY <2>2, <2>3, <2>4
<1> QED
  BY <1>1, GuardHolds, PTL DEF Spec, NewestWins

(* No ingest, in any order with results, sweeps and edits, takes a row out *)
(* of 'correcto'.                                                          *)
THEOREM CorrectoOutOfIngestsReach == Spec => IngestKeepsCorrecto
<1> DEFINE Keeps == \A r \in Row : status[r] = "correcto" /\ status'[r] # "correcto" =>
                      sending[r] = "flight" /\ sending'[r] = "sent"
<1>1. GuardInv /\ [Next]_vars => [Keeps]_vars
  <2> SUFFICES ASSUME GuardInv, Next, NEW r \in Row,
                      status[r] = "correcto", status'[r] # "correcto"
               PROVE  sending[r] = "flight" /\ sending'[r] = "sent"
    OBVIOUS
  <2> USE DEF rowVars, loadVars, lockVars
  <2>1. \A w \in Worker : r \notin tx[w].wrote /\ r \notin StagedBy(w) /\ r \notin Flipped(w)
    BY DEF GuardInv, WroteFresh, StagedBy, Flipped
  <2>2. ASSUME NEW w \in Worker PROVE ~WorkerStep(w)
    BY <2>1 DEF WorkerStep, Upsert, LockLoad, CommitEvent, CommitLate, CommitStaged,
                CommitFlip, QueueRows, GuardInv, TypeInv, TypeOK
  <2>3. ASSUME NEW x \in Row, RowStep(x) PROVE sending[r] = "flight" /\ sending'[r] = "sent"
    BY <2>3 DEF RowStep, StartSend, FinishSend, VendorResult, Edit, GuardInv, TypeInv, TypeOK
  <2> QED
    BY <2>2, <2>3 DEF Next, Deliver, IngestNothing, BeginIngest, BeginSeal, DeadlockVictim,
                      FailTransaction, Rollback, ReapStale
<1> QED
  BY <1>1, GuardHolds, PTL DEF Spec, IngestKeepsCorrecto

(* Rows of an open load are queued by the flip of that load only, or by    *)
(* what is newer than the load or older than the staging of the row.       *)
THEOREM LoadsHoldTheirRows == Spec => HeldUntilSealed
<1> DEFINE Released(r) ==
      \/ loadOf[r] \in sealed' \ sealed
      \/ sending[r] = "flight" /\ sending'[r] = "sent"
      \/ \E w \in Worker : /\ tx[w] # Idle /\ tx'[w] = Idle
                           /\ r \in tx[w].wrote
                           /\ tx[w].job.kind = "event" \/ LoadAt(w) \in sealed'
    Holds == \A r \in Row : status[r] = "staged" /\ status'[r] = "queued" => Released(r)
<1>1. GuardInv /\ [Next]_vars => [Holds]_vars
  <2> SUFFICES ASSUME GuardInv, Next, NEW r \in Row, status[r] = "staged", status'[r] = "queued"
               PROVE  Released(r)
    OBVIOUS
  <2> USE DEF rowVars, loadVars, lockVars
  <2>1. ASSUME NEW w \in Worker, Commit(w) PROVE tx[w] # Idle /\ tx'[w] = Idle
    BY <2>1, IdleType DEF Commit, Unlock, GuardInv, TypeInv, TypeOK
  <2>2. ASSUME NEW w \in Worker, CommitEvent(w) PROVE Released(r)
    BY <2>1, <2>2 DEF CommitEvent, QueueRows
  <2>3. ASSUME NEW w \in Worker, CommitLate(w) PROVE Released(r)
    <3>1. LoadAt(w) \in sealed' /\ r \in tx[w].wrote
      BY <2>3 DEF CommitLate, Commit, QueueRows, GuardInv, LockInv, LoadsLocked, Locked
    <3> QED
      BY <2>1, <2>3, <3>1 DEF CommitLate
  <2>4. ASSUME NEW w \in Worker, CommitStaged(w) PROVE Released(r)
    BY <2>4 DEF CommitStaged
  <2>5. ASSUME NEW w \in Worker, CommitFlip(w) PROVE Released(r)
    <3>1. LoadAt(w) \in sealed' \ sealed
      BY <2>5 DEF CommitFlip, Completes
    <3>2. r \in tx[w].wrote \/ loadOf[r] = LoadAt(w)
      BY <2>5 DEF CommitFlip, QueueRows, Flipped, StagedBy
    <3> QED
      BY <2>1, <2>5, <3>1, <3>2 DEF CommitFlip
  <2>6. ASSUME NEW x \in Row, RowStep(x) PROVE Released(r)
    BY <2>6 DEF RowStep, StartSend, FinishSend, VendorResult, Edit, GuardInv, TypeInv, TypeOK
  <2> QED
    BY <2>2, <2>3, <2>4, <2>5, <2>6 DEF Next, WorkerStep, Upsert, LockLoad, Deliver,
       IngestNothing, BeginIngest, BeginSeal, DeadlockVictim, FailTransaction, Rollback, ReapStale
<1> QED
  BY <1>1, GuardHolds, PTL DEF Spec, HeldUntilSealed

-----------------------------------------------------------------------------
(* Refinement: the transactions implement the gate.                         *)

Held == [l \in Load |-> {r \in Row : status[r] = "staged" /\ loadOf[r] = l}]

LEMMA GateInit == Init => Gate!Init
BY DEF Init, Gate!Init

(* A load that takes part in a transaction: its batches and its rows.      *)
LEMMA GateCollect ==
  ASSUME TypeInv, Counted, NEW w \in Worker, Locked(w), RecordArrival(w), StampLoad(w)
  PROVE  /\ LoadAt(w) \in Load
         /\ \E B \in SUBSET UNION {Needed[k] : k \in Load} :
              /\ batches' = [batches EXCEPT ![LoadAt(w)] = @ \cup B]
              /\ Received(w) = batches[LoadAt(w)] \cup B
<1>1. LoadAt(w) \in Load /\ Received(w) \subseteq Needed[LoadAt(w)]
  BY ArrivalCounted
<1> DEFINE B == Received(w)
<1>2. B \in SUBSET UNION {Needed[k] : k \in Load}
  BY <1>1
<1>3. Received(w) = batches[LoadAt(w)] \cup B
  BY DEF Received
<1> QED
  BY <1>1, <1>2, <1>3 DEF RecordArrival

GateInv == TypeInv /\ LockInv /\ Counted

LEMMA GateStep == GateInv /\ CompleteInv /\ [Next]_vars => [Gate!Next]_Gate!gateVars
<1> SUFFICES ASSUME GateInv, CompleteInv, [Next]_vars
             PROVE  Gate!Next \/ UNCHANGED Gate!gateVars
  OBVIOUS
<1> USE DEF rowVars, loadVars, lockVars
<1>1. ASSUME UNCHANGED <<status, loadOf, sealed, batches>> PROVE UNCHANGED Gate!gateVars
  BY <1>1 DEF Gate!gateVars
<1>2. ASSUME NEW R \in SUBSET Row, UNCHANGED <<loadOf, sealed, batches>>,
             \A r \in Row : status'[r] = "staged" <=> status[r] = "staged" /\ r \notin R
      PROVE  Gate!Next
  <2>1. Held' = [l \in Load |-> Held[l] \ R]
    BY <1>2 DEF Held
  <2> QED
    BY <1>2, <2>1 DEF Held, Gate!Next, Gate!Withdraw
<1>3. ASSUME NEW w \in Worker, CommitEvent(w) \/ CommitLate(w) PROVE Gate!Next
  <2>1. tx[w].wrote \in SUBSET Row
    BY DEF GateInv, TypeInv, TypeOK, Transaction
  <2>2. \A r \in Row : status'[r] = "staged" <=> status[r] = "staged" /\ r \notin tx[w].wrote
    BY <1>3 DEF CommitEvent, CommitLate, QueueRows
  <2> QED
    BY <1>2, <1>3, <2>1, <2>2 DEF CommitEvent, CommitLate
<1>4. ASSUME NEW w \in Worker, CommitStaged(w) PROVE Gate!Next \/ UNCHANGED Gate!gateVars
  <2> DEFINE L == LoadAt(w)
  <2>1. /\ Locked(w) /\ RecordArrival(w) /\ StampLoad(w) /\ UNCHANGED sealed
        /\ \A r \in Row : status'[r] = IF r \in StagedBy(w) THEN "staged" ELSE status[r]
    BY <1>4 DEF CommitStaged, Commit, Locked
  <2>2. CASE L \notin sealed
    <3>1. PICK B \in SUBSET UNION {Needed[k] : k \in Load} :
            L \in Load /\ batches' = [batches EXCEPT ![L] = @ \cup B]
      BY <2>1, GateCollect DEF GateInv
    <3>2. StagedBy(w) \in SUBSET Row
      BY DEF StagedBy, GateInv, TypeInv, TypeOK, Transaction
    <3>3. Held' = [k \in Load |-> IF k = L THEN Held[k] \cup StagedBy(w)
                                          ELSE Held[k] \ StagedBy(w)]
      BY <2>1, <3>1, <3>2 DEF Held, StampLoad
    <3> QED
      BY <2>1, <2>2, <3>1, <3>2, <3>3 DEF Held, Gate!Next, Gate!Collect, Gate!Behind
  <2>3. CASE L \in sealed
    <3>1. tx[w].job.kind = "seal"
      BY <1>4, <2>1, <2>3 DEF CommitStaged, GateInv, LockInv, LoadsLocked
    <3>2. StagedBy(w) = {} /\ Received(w) = batches[L]
      BY <2>1, <3>1 DEF GateInv, TypeInv, TxOK, Fits, Locked, StagedBy, Received
    <3>3. UNCHANGED <<status, loadOf, batches>>
      BY <1>4, <2>1, <3>2 DEF CommitStaged, RecordArrival, StampLoad, GateInv, TypeInv, TypeOK
    <3> QED
      BY <1>1, <2>1, <3>3
  <2> QED
    BY <2>2, <2>3
<1>5. ASSUME NEW w \in Worker, CommitFlip(w) PROVE Gate!Next
  <2> DEFINE L == LoadAt(w)
  <2>1. /\ Locked(w) /\ RecordArrival(w) /\ StampLoad(w) /\ Completes(w)
        /\ sealed' = sealed \cup {L} /\ L \notin sealed
        /\ \A r \in Row : status'[r] = IF r \in Flipped(w) THEN "queued" ELSE status[r]
    BY <1>5 DEF CommitFlip, Commit, QueueRows, Locked, Completes
  <2>2. PICK B \in SUBSET UNION {Needed[k] : k \in Load} :
          /\ L \in Load /\ batches' = [batches EXCEPT ![L] = @ \cup B]
          /\ Received(w) = batches[L] \cup B
    BY <2>1, GateCollect DEF GateInv
  <2>3. Needed[L] \subseteq batches[L] \cup B
    BY <2>1, <2>2, CompletesMeansAll DEF GateInv
  <2>4. StagedBy(w) \in SUBSET Row
    BY DEF StagedBy, GateInv, TypeInv, TypeOK, Transaction
  <2>5. Held' = [[k \in Load |-> IF k = L THEN Held[k] \cup StagedBy(w)
                                          ELSE Held[k] \ StagedBy(w)] EXCEPT ![L] = {}]
    <3>1. \A k \in Load : Held'[k] = IF k = L THEN {} ELSE Held[k] \ StagedBy(w)
      BY <2>1, <2>4 DEF Held, StampLoad, Flipped
    <3> QED
      BY <2>2, <3>1 DEF Held
  <2>6. Gate!Behind(L, StagedBy(w)) =
          [k \in Load |-> IF k = L THEN Held[k] \cup StagedBy(w) ELSE Held[k] \ StagedBy(w)]
    BY DEF Held, Gate!Behind
  <2>7. Held' = [Gate!Behind(L, StagedBy(w)) EXCEPT ![L] = {}]
    BY <2>5, <2>6
  <2>8. PICK l \in Load, S \in SUBSET Row : l = L /\ S = StagedBy(w)
    BY <2>2, <2>4
  <2>9. Gate!Open(l, B, S)
    BY <2>1, <2>2, <2>3, <2>7, <2>8 DEF Held, Gate!Open
  <2> QED
    BY <2>9 DEF Gate!Next
<1>6. ASSUME NEW r \in Row, RowStep(r) PROVE Gate!Next
  <2> DEFINE R == IF status'[r] = status[r] THEN {} ELSE {r}
  <2>1. \A x \in Row : status'[x] = "staged" <=> status[x] = "staged" /\ x \notin R
    <3>1. \A x \in Row : x # r => status'[x] = status[x]
      BY <1>6 DEF RowStep, StartSend, FinishSend, VendorResult, Edit, GateInv, TypeInv, TypeOK
    <3>2. status'[r] = status[r] \/ status'[r] # "staged"
      BY <1>6 DEF RowStep, StartSend, FinishSend, VendorResult, Edit, GateInv, TypeInv, TypeOK
    <3> QED
      BY <3>1, <3>2
  <2>2. UNCHANGED <<loadOf, sealed, batches>>
    BY <1>6 DEF RowStep, StartSend, FinishSend, VendorResult, Edit
  <2>3. R \in SUBSET Row
    OBVIOUS
  <2> HIDE DEF R
  <2> QED
    BY <1>2, <2>1, <2>2, <2>3
<1>7. ASSUME NEW w \in Worker, NEW j \in Job, Deliver(w, j) PROVE UNCHANGED Gate!gateVars
  BY <1>1, <1>7 DEF Deliver, IngestNothing, BeginIngest, BeginSeal
<1>8. ASSUME NEW w \in Worker, (\E r \in Row : Upsert(w, r)) \/ LockLoad(w)
      PROVE  UNCHANGED Gate!gateVars
  BY <1>1, <1>8 DEF Upsert, LockLoad
<1>9. ASSUME NEW w \in Worker, DeadlockVictim(w) \/ FailTransaction(w)
      PROVE  UNCHANGED Gate!gateVars
  BY <1>1, <1>9 DEF DeadlockVictim, FailTransaction, Rollback
<1>10. ASSUME NEW l \in Load, ReapStale(l) PROVE UNCHANGED Gate!gateVars
  BY <1>1, <1>10 DEF ReapStale
<1>11. CASE UNCHANGED vars
  BY <1>1, <1>11 DEF vars
<1> QED
  BY <1>3, <1>4, <1>5, <1>6, <1>7, <1>8, <1>9, <1>10, <1>11 DEF Next, WorkerStep

(* With its transactions, locks, retries and deadlocks, load staging is     *)
(* the gate of LoadGate: it opens once, for all rows, with every batch in.  *)
THEOREM StagingImplementsGate == Spec => ImplementsGate
<1> DEFINE Inv == GateInv /\ CompleteInv
<1>1. Init => Inv
  BY TypeInit, LockInit DEF Init, GateInv, CompleteInv, Counted, SealedComplete
<1>2. Inv /\ [Next]_vars => Inv'
  BY TypeStep, LockStep, CompleteStep DEF GateInv, CompleteInv
<1>3. Inv /\ [Next]_vars => [Gate!Next]_Gate!gateVars
  BY GateStep
<1> QED
  BY <1>1, <1>2, <1>3, GateInit, PTL DEF Spec, ImplementsGate, Gate!Spec
=============================================================================
