----------------------------- MODULE SiiResults -----------------------------
(***************************************************************************)
(* The callbacks of the vendor (callbacks/sii-callback.controller.ts,      *)
(* sii-result.mapper.ts, sii-result.processor.ts): a body becomes a job    *)
(* whose id is its hash, and the job runs three statements without a       *)
(* transaction: results by internal_ref, results by batch_ref, and the     *)
(* error fields merged into data.  Five workers, retries, and rows that    *)
(* are sent or ingested again meanwhile.                                   *)
(***************************************************************************)
EXTENDS Naturals, FiniteSets

CONSTANTS SiiRow,
          Body,         (* callback bodies, as mapVendorResult maps them:   *)
                        (* lines, batches (sets of refs), state, error      *)
          MaxAttempts,  (* DEFAULT_JOB_OPTS.attempts                        *)
          SiiFaults,    (* bound on failed statements                       *)
          MaxSends,     (* bound on sends of a row; its batch ids are 1..   *)
          NoError

ASSUME SiiAssumption ==
  /\ \A b \in Body : /\ b.lines \subseteq SiiRow
                     /\ b.batches \subseteq SiiRow \X Nat
                     /\ b.state \in {"correcto", "rechazado"}
  /\ MaxAttempts \in Nat \ {0}
  /\ SiiFaults \in Nat
  /\ MaxSends \in Nat \ {0}

VARIABLES result,   (* submission_status of each row                        *)
          sends,    (* its sends so far; batch_id is <<row, sends>> then   *)
          error,    (* error_code and error_message in its data             *)
          by,       (* the body whose result it has, {} or {b}              *)
          told,     (* errors of all the results it has had               *)
          mixed,    (* rows reached by a job beside another job, or by one  *)
                    (* that failed half-way                                 *)
          inbox,    (* the job of each body: where it is, what it matched   *)
          attempts, siiFaults

siiVars == <<result, sends, error, by, told, mixed, inbox, attempts, siiFaults>>

Errors == {b.error : b \in Body} \cup {NoError}
NoJob == [at |-> "none", matched |-> {}]

SiiTypeOK ==
  /\ result \in [SiiRow -> {"queued", "pending", "correcto", "rechazado"}]
  /\ sends \in [SiiRow -> 0..MaxSends]
  /\ error \in [SiiRow -> Errors]
  /\ by \in [SiiRow -> SUBSET Body]
  /\ told \in [SiiRow -> SUBSET Errors]
  /\ mixed \subseteq SiiRow
  /\ inbox \in [Body -> [at : {"none", "waiting", "lines", "batches", "errors"},
                         matched : SUBSET SiiRow]]
  /\ attempts \in [Body -> 0..MaxAttempts]
  /\ siiFaults \in 0..SiiFaults

SiiInit ==
  /\ result = [r \in SiiRow |-> "queued"]
  /\ sends = [r \in SiiRow |-> 0]
  /\ error = [r \in SiiRow |-> NoError]
  /\ by = [r \in SiiRow |-> {}]
  /\ told = [r \in SiiRow |-> {}]
  /\ mixed = {}
  /\ inbox = [b \in Body |-> NoJob]
  /\ attempts = [b \in Body |-> 0]
  /\ siiFaults = 0

-----------------------------------------------------------------------------
(* Sent, after an edit or a failure again; ingested again.                 *)

SendRow(r) ==
  /\ result[r] # "correcto"
  /\ sends[r] < MaxSends
  /\ result' = [result EXCEPT ![r] = "pending"]
  /\ sends' = [sends EXCEPT ![r] = @ + 1]
  /\ by' = [by EXCEPT ![r] = {}]
  /\ UNCHANGED <<error, told, mixed, inbox, attempts, siiFaults>>

(* New data: what it says of errors is gone. *)
IngestRow(r) ==
  /\ result[r] \in {"pending", "rechazado"}
  /\ sends[r] < MaxSends
  /\ result' = [result EXCEPT ![r] = "queued"]
  /\ error' = [error EXCEPT ![r] = NoError]
  /\ by' = [by EXCEPT ![r] = {}]
  /\ UNCHANGED <<sends, told, mixed, inbox, attempts, siiFaults>>

-----------------------------------------------------------------------------
(* SiiCallbackController.receive: the queue drops a body it still has.     *)

Receive(b) ==
  /\ inbox[b].at = "none"
  /\ inbox' = [inbox EXCEPT ![b].at = "waiting"]
  /\ attempts' = [attempts EXCEPT ![b] = 0]
  /\ UNCHANGED <<result, sends, error, by, told, mixed, siiFaults>>

(* SiiResultProcessor.process. *)
ByLine(b) == {r \in b.lines : result[r] # "correcto"}
ByBatch(b) == {r \in SiiRow : <<r, sends[r]>> \in b.batches /\ sends[r] > 0
                              /\ result[r] \notin {"correcto", "queued"}}

UnderWay(b) == inbox[b].at \in {"lines", "batches", "errors"}
Beside(b, R) == IF \E c \in Body \ {b} : UnderWay(c) THEN R ELSE {}

(* One of the two UPDATEs of submission_status. *)
Store(b, R, next) ==
  /\ result' = [r \in SiiRow |-> IF r \in R THEN b.state ELSE result[r]]
  /\ by' = [r \in SiiRow |-> IF r \in R THEN {b} ELSE by[r]]
  /\ told' = [r \in SiiRow |-> IF r \in R THEN told[r] \cup {b.error} ELSE told[r]]
  /\ mixed' = mixed \cup Beside(b, b.lines \cup {x[1] : x \in b.batches})
  /\ inbox' = [inbox EXCEPT ![b] = [at |-> next, matched |-> @.matched \cup R]]
  /\ UNCHANGED <<sends, error, attempts, siiFaults>>

Begin(b) ==
  /\ inbox[b].at = "waiting"
  /\ inbox' = [inbox EXCEPT ![b] = [at |-> "lines", matched |-> {}]]
  /\ attempts' = [attempts EXCEPT ![b] = @ + 1]
  /\ UNCHANGED <<result, sends, error, by, told, mixed, siiFaults>>

ApplyLineItems(b) == inbox[b].at = "lines" /\ Store(b, ByLine(b), "batches")

(* Mutation: a payload without line items is taken for an empty one. *)
ApplyBatchItemsOfLines(b) ==
  inbox[b].at = "batches" /\ Store(b, IF b.lines = {} THEN {} ELSE ByBatch(b), "errors")

ApplyBatchItems(b) == inbox[b].at = "batches" /\ Store(b, ByBatch(b), "errors")

(* Mutation: the fields of every row the payload names. *)
MergedNamed(b) ==
  [r \in SiiRow |-> IF r \in b.lines /\ b.error # NoError THEN b.error ELSE error[r]]

(* data || patch, for the rows matched, whatever their status is by now. *)
Merged(b) ==
  [r \in SiiRow |-> IF r \in inbox[b].matched /\ b.error # NoError
                    THEN b.error ELSE error[r]]

(* applyErrorFields; the job completes and is removed. *)
ApplyErrorFields(b) ==
  /\ inbox[b].at = "errors"
  /\ error' = Merged(b)
  /\ inbox' = [inbox EXCEPT ![b] = NoJob]
  /\ UNCHANGED <<result, sends, by, told, mixed, attempts, siiFaults>>

(* A statement fails: the job waits for another attempt, or is gone. *)
JobFails(b) ==
  /\ UnderWay(b)
  /\ siiFaults < SiiFaults
  /\ siiFaults' = siiFaults + 1
  /\ inbox' = [inbox EXCEPT ![b] =
       IF attempts[b] < MaxAttempts THEN [NoJob EXCEPT !.at = "waiting"] ELSE NoJob]
  /\ mixed' = mixed \cup inbox[b].matched
  /\ UNCHANGED <<result, sends, error, by, told, attempts>>

Processing(b) ==
  Begin(b) \/ ApplyLineItems(b) \/ ApplyBatchItems(b) \/ ApplyErrorFields(b)

SiiNext ==
  \/ \E r \in SiiRow : SendRow(r) \/ IngestRow(r)
  \/ \E b \in Body : Receive(b) \/ Processing(b) \/ JobFails(b)

SiiSpec == SiiInit /\ [][SiiNext]_siiVars

-----------------------------------------------------------------------------
(* Properties.                                                             *)

(* What a row's data says of errors comes from a result that was stored on *)
(* that row: a late or foreign result that the row refused leaves no trace *)
(* in its data either (RETURNING, applyErrorFields).                       *)
ErrorsWereStored == \A r \in SiiRow : error[r] # NoError => error[r] \in told[r]

(* When no job is under way, a rejected row shows the error of the very    *)
(* result it has, unless jobs met on it or one failed half-way: the third  *)
(* statement looks at nothing the first two have left.                     *)
ErrorTellsResult ==
  (\A b \in Body : ~UnderWay(b)) =>
    \A r \in SiiRow \ mixed :
      \A b \in by[r] : b.error # NoError => error[r] = b.error

(* A body that was acknowledged with 202 is stored on every row it finds,  *)
(* or its job has used up its attempts.                                    *)
Answered(b) ==
  /\ \A r \in b.lines : result[r] \in {b.state, "correcto"}
  /\ \A x \in b.batches : <<x[1], sends[x[1]]>> = x =>
       result[x[1]] \in {b.state, "correcto", "queued"}
ResultsLand ==
  \A b \in Body :
    inbox[b].at = "waiting" ~> Answered(b) \/ attempts[b] = MaxAttempts

(* The error in a row's data is the error of the result the row has.       *)
ErrorsAreOfResults == ErrorsWereStored /\ ErrorTellsResult
=============================================================================
