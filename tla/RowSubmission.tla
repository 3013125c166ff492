--------------------------- MODULE RowSubmission ---------------------------
(***************************************************************************)
(* The submission of table_rows to the external system and the results it  *)
(* calls back with (tables/table-rows.service.ts, table-write-batch.       *)
(* service.ts, write-sweep-query.util.ts, callbacks/sii-result.processor.  *)
(* ts).                                                                    *)
(*                                                                         *)
(* A sweep (the cron of a connection, or a force-submit) reads rows from   *)
(* the database once, cuts them into calls and sends the calls one after   *)
(* the other; when a call is answered, one transaction marks its rows by   *)
(* id and spools the domain event.  Meanwhile rows are ingested again,     *)
(* edited (two statements), marked by other sweeps, and resolved by        *)
(* callbacks that arrive at any time, any number of times.                 *)
(*                                                                         *)
(* The rows of the model belong to one connection and exist from the       *)
(* start, freshly ingested; fragmented loads are the subject of            *)
(* LoadStaging.tla.  A row's data is represented by a version number.      *)
(***************************************************************************)
EXTENDS Naturals, FiniteSets

CONSTANTS Row,          (* rows of one template and connection             *)
          Group,        (* Group[r]: its group_id                          *)
          Cron,         (* sweeps of the connection's write cron           *)
          Manual,       (* force-submits and hub triggers                  *)
          Batch,        (* batch ids; bounds the number of calls           *)
          MaxBatchSize, (* write.batch.maxBatchSize                        *)
          Concurrency,  (* source_connections.concurrency                  *)
          Collapse,     (* write.batch.collapse is configured              *)
          MaxVersion,   (* bound on re-ingests and edits of a row          *)
          MaxFaults,    (* bound on refusals, lost messages, crashes...    *)
          NoBatch

Sweep == Cron \cup Manual

(* Workers a sweep begins with; combined records go out one by one. *)
Hands == IF Collapse THEN 1 ELSE Concurrency

ASSUME SubmissionAssumption ==
  /\ Cron \cap Manual = {} /\ Sweep # {}
  /\ MaxBatchSize \in Nat \ {0}
  /\ Concurrency \in Nat \ {0}
  /\ Collapse \in BOOLEAN
  /\ MaxVersion \in Nat
  /\ MaxFaults \in Nat
  /\ NoBatch \notin Batch

VARIABLES
  status,  (* submission_status                                            *)
  ver,     (* version of data                                              *)
  batchId, (* batch_id                                                     *)
  written, (* write_status                                                 *)
  editing, (* rows whose edit has stored the data and not yet the status   *)
  todo,    (* what each sweep has read and not yet put into a call         *)
  hands,   (* how many workers of runWithConcurrency each sweep has left   *)
  call,    (* the calls, by batch id                                       *)
  event,   (* the outbox: the event spooled for each batch id              *)
  faults   (* faults so far                                                *)

rowVars == <<status, ver, batchId, written>>
vars == <<rowVars, editing, todo, hands, call, event, faults>>

Sendable == {"queued", "revisado"}
Literal == {"correcto", "rechazado"}
Version == 0..MaxVersion
Item == [row : Row, ver : Version, phase : {"create", "update"}]

(* A call: its progress, the sweep that made it, the rows whose status it  *)
(* will advance, the data it carries, and the vendor's verdict on each row *)
(* once the vendor has it ("none" before).                                 *)
InFlight == {"sent", "accepted", "refused", "failed"}
Unused == [state |-> "unused", by |-> CHOOSE s \in Sweep : TRUE, marks |-> {}, data |-> {},
           verdict |-> [r \in Row |-> "none"]]
Call == [state : {"unused", "over"} \cup InFlight, by : Sweep, marks : SUBSET Item,
         data : SUBSET [row : Row, ver : Version],
         verdict : [Row -> Literal \cup {"none"}]]

TypeOK ==
  /\ status \in [Row -> {"pending"} \cup Sendable \cup Literal]
  /\ ver \in [Row -> Version]
  /\ batchId \in [Row -> Batch \cup {NoBatch}]
  /\ written \in [Row -> {"none", "sent", "error"}]
  /\ editing \subseteq Row
  /\ todo \in [Sweep -> SUBSET Item]
  /\ hands \in [Sweep -> 0..Hands]
  /\ call \in [Batch -> Call]
  /\ event \in [Batch -> {"none", "sent", "error"}]
  /\ faults \in 0..MaxFaults

Init ==
  /\ status = [r \in Row |-> "queued"]
  /\ ver = [r \in Row |-> 0]
  /\ batchId = [r \in Row |-> NoBatch]
  /\ written = [r \in Row |-> "none"]
  /\ editing = {}
  /\ todo = [s \in Sweep |-> {}]
  /\ hands = [s \in Sweep |-> Hands]
  /\ call = [b \in Batch |-> Unused]
  /\ event = [b \in Batch |-> "none"]
  /\ faults = 0

RowsOf(S) == {i.row : i \in S}
CallsOf(s) == {b \in Batch : call[b].state \in InFlight /\ call[b].by = s}
Fault == faults < MaxFaults /\ faults' = faults + 1

-----------------------------------------------------------------------------
(* Rows change under the sweeps: ingest and edit.                          *)

(* markQueued: a fresh attempt for the row, whatever its status. *)
MarkQueued(r, s) ==
  /\ status' = [status EXCEPT ![r] = s]
  /\ batchId' = [batchId EXCEPT ![r] = NoBatch]
  /\ written' = [written EXCEPT ![r] = "none"]

(* Mutation: the upsert without its guard. *)
IngestOverAccepted(r) ==
  /\ ver[r] < MaxVersion
  /\ ver' = [ver EXCEPT ![r] = @ + 1]
  /\ MarkQueued(r, "queued")
  /\ UNCHANGED <<editing, todo, hands, call, event, faults>>

(* ingest of a row that exists: new data and a fresh attempt, in one       *)
(* transaction, unless the row was accepted.                               *)
Ingest(r) ==
  /\ status[r] # "correcto"
  /\ ver[r] < MaxVersion
  /\ ver' = [ver EXCEPT ![r] = @ + 1]
  /\ MarkQueued(r, "queued")
  /\ UNCHANGED <<editing, todo, hands, call, event, faults>>

(* updateAndWrite, first statement: the data, unless the row was accepted. *)
EditData(r) ==
  /\ status[r] # "correcto"
  /\ r \notin editing
  /\ ver[r] < MaxVersion
  /\ ver' = [ver EXCEPT ![r] = @ + 1]
  /\ editing' = editing \cup {r}
  /\ UNCHANGED <<status, batchId, written, todo, hands, call, event, faults>>

(* updateAndWrite, second statement: 'revisado', without looking again. *)
EditMark(r) ==
  /\ r \in editing
  /\ MarkQueued(r, "revisado")
  /\ editing' = editing \ {r}
  /\ UNCHANGED <<ver, todo, hands, call, event, faults>>

-----------------------------------------------------------------------------
(* Sweeps: read once, then one call per chunk of a partition.              *)

Snapshot(R) ==
  {[row |-> r, ver |-> ver[r],
    phase |-> IF status[r] = "revisado" THEN "update" ELSE "create"] : r \in R}

Resting(s) == todo[s] = {} /\ CallsOf(s) = {}

(* Sweeps that an exception has ended before all their workers.            *)
Abandoned == {s \in Sweep : hands[s] < Hands}

(* Mutation: the supervisor does not look at its running sweeps.           *)
DueAnyTime(s) == Resting(s)

(* The supervisor waits for its last sweep; a sweep that was abandoned has *)
(* ended for it, whatever its other workers do.  Nobody waits for the      *)
(* others.                                                                 *)
Due(s) ==
  /\ Resting(s)
  /\ s \in Cron => \A c \in Cron : Resting(c) \/ c \in Abandoned

(* Mutations: what waits for its result is eligible too; what failed once  *)
(* is not eligible any more.                                               *)
EligiblePending == {r \in Row : status[r] \in Sendable \cup {"pending"}}
EligibleUntried == {r \in Row : status[r] \in Sendable /\ batchId[r] = NoBatch}

(* submitAllQueued, by the cron or by a trigger from the hub. *)
Eligible == {r \in Row : status[r] \in Sendable}
SweepFetch(s) ==
  /\ Due(s)
  /\ Eligible # {}
  /\ todo' = [todo EXCEPT ![s] = Snapshot(Eligible)]
  /\ hands' = [hands EXCEPT ![s] = Hands]
  /\ UNCHANGED <<rowVars, editing, call, event, faults>>

(* submitByIds: rows in any status but 'correcto', with their groups. *)
ForceFetch(s, R) ==
  /\ s \in Manual
  /\ Due(s)
  /\ R # {}
  /\ R = {r \in Row : status[r] # "correcto" /\ \E x \in R : Group[x] = Group[r]}
  /\ todo' = [todo EXCEPT ![s] = Snapshot(R)]
  /\ hands' = [hands EXCEPT ![s] = Hands]
  /\ UNCHANGED <<rowVars, editing, call, event, faults>>

SamePartition(i, j) == i.phase = j.phase /\ Group[i.row] = Group[j.row]

(* What fits one call: rows of one partition, all that are left of it or   *)
(* as many as maxBatchSize allows; a collapsed record is never cut.        *)
Chunk(C, S) ==
  /\ C # {} /\ C \subseteq S
  /\ \A i, j \in C : SamePartition(i, j)
  /\ LET rest == {i \in S \ C : \E j \in C : SamePartition(i, j)} IN
       \/ rest = {} /\ (Collapse \/ Cardinality(C) <= MaxBatchSize)
       \/ ~Collapse /\ Cardinality(C) = MaxBatchSize

(* Calls of one sweep overlap only inside a partition, one for each worker *)
(* the sweep has left.                                                     *)
MayOverlap(s, C) ==
  /\ Cardinality(CallsOf(s)) < hands[s]
  /\ \A b \in CallsOf(s) : \A i \in C, j \in call[b].marks : SamePartition(i, j)

(* The data of a call: what the sweep read, or with collapse every row of  *)
(* the group as it is now, accepted ones included.                         *)
DataOf(C) ==
  IF Collapse
  THEN {[row |-> r, ver |-> ver[r]] : r \in {x \in Row : \E i \in C : Group[i.row] = Group[x]}}
  ELSE {[row |-> i.row, ver |-> i.ver] : i \in C}

Fresh == CHOOSE b \in Batch : call[b].state = "unused"

(* A call as it goes out: the vendor has decided nothing. *)
Outgoing(s, C) == [state |-> "sent", by |-> s, marks |-> C, data |-> DataOf(C),
                   verdict |-> [r \in Row |-> "none"]]

(* submitGroup up to the HTTP request. *)
Send(s, C) ==
  /\ Chunk(C, todo[s])
  /\ MayOverlap(s, C)
  /\ \E b \in Batch : call[b].state = "unused"
  /\ call' = [call EXCEPT ![Fresh] = Outgoing(s, C)]
  /\ todo' = [todo EXCEPT ![s] = @ \ C]
  /\ UNCHANGED <<rowVars, editing, hands, event, faults>>

-----------------------------------------------------------------------------
(* The external system and the network between.                            *)

Reaches(b, v) ==
  /\ \A r \in Row : v[r] # "none" <=> r \in RowsOf(call[b].data)
  /\ call' = [call EXCEPT ![b].state = "accepted", ![b].verdict = v]

(* A 2xx; the results will follow by callback. *)
VendorAccept(b) ==
  /\ call[b].state = "sent"
  /\ \E v \in [Row -> Literal \cup {"none"}] : Reaches(b, v)
  /\ UNCHANGED <<rowVars, editing, todo, hands, event, faults>>

(* A status code outside 2xx. *)
VendorRefuse(b) ==
  /\ call[b].state = "sent"
  /\ Fault
  /\ call' = [call EXCEPT ![b].state = "refused"]
  /\ UNCHANGED <<rowVars, editing, todo, hands, event>>

(* The request never arrives (or no rule or connection resolves it), the   *)
(* answer is lost or later than the timeout, or recording it fails.        *)
CallFails(b) ==
  /\ call[b].state \in {"sent", "accepted", "refused"}
  /\ Fault
  /\ call' = [call EXCEPT ![b].state = "failed"]
  /\ UNCHANGED <<rowVars, editing, todo, hands, event>>

-----------------------------------------------------------------------------
(* Outcomes, crashes and callbacks.                                        *)

(* Mutation: the rows are marked in a transaction without the event. *)
CommitOutcomeNoEvent(b, kind, s) ==
  LET ids == RowsOf(call[b].marks) IN
  /\ status' = [r \in Row |-> IF r \in ids THEN s ELSE status[r]]
  /\ batchId' = [r \in Row |-> IF r \in ids THEN b ELSE batchId[r]]
  /\ written' = [r \in Row |-> IF r \in ids THEN kind ELSE written[r]]
  /\ call' = [call EXCEPT ![b].state = "over"]
  /\ UNCHANGED <<ver, editing, todo, hands, event, faults>>

(* commitOutcome: markGroupResult, by id, and the event, atomically. *)
CommitOutcome(b, kind, s) ==
  LET ids == RowsOf(call[b].marks) IN
  /\ status' = [r \in Row |-> IF r \in ids THEN s ELSE status[r]]
  /\ batchId' = [r \in Row |-> IF r \in ids THEN b ELSE batchId[r]]
  /\ written' = [r \in Row |-> IF r \in ids THEN kind ELSE written[r]]
  /\ event' = [event EXCEPT ![b] = kind]
  /\ call' = [call EXCEPT ![b].state = "over"]
  /\ UNCHANGED <<ver, editing, todo, hands, faults>>

(* Mutations: 'pending' before the answer; write_status stored in          *)
(* submission_status as well.                                              *)
OutcomeSentUnanswered(b) ==
  call[b].state \in {"sent", "accepted"} /\ CommitOutcome(b, "sent", "pending")
OutcomeErrorOneStatus(b) ==
  call[b].state \in {"refused", "failed"} /\ CommitOutcome(b, "error", "error")

OutcomeSent(b) == call[b].state = "accepted" /\ CommitOutcome(b, "sent", "pending")
OutcomeError(b) ==
  call[b].state \in {"refused", "failed"} /\ CommitOutcome(b, "error", "queued")

(* Recording the failure fails too: the sweep ends with that exception,    *)
(* its worker with it; the others go on with the partition they are in.    *)
OutcomeLost(b) ==
  LET s == call[b].by IN
  /\ call[b].state = "failed"
  /\ Fault
  /\ call' = [call EXCEPT ![b].state = "over"]
  /\ hands' = [hands EXCEPT ![s] = @ - 1]
  /\ todo' = [todo EXCEPT ![s] =
       {i \in @ : hands[s] > 1 /\ \E j \in call[b].marks : SamePartition(i, j)}]
  /\ UNCHANGED <<rowVars, editing, event>>

(* The process dies: calls end without outcome, requests on the wire may   *)
(* still arrive, and an edit stays without its second statement.           *)
Crash ==
  /\ Fault
  /\ \E arrived \in SUBSET {b \in Batch : call[b].state = "sent"},
        v \in [Row -> Literal] :
       call' = [b \in Batch |->
         IF call[b].state \notin InFlight THEN call[b]
         ELSE [call[b] EXCEPT
                 !.state = "over",
                 !.verdict = IF b \notin arrived THEN @
                             ELSE [r \in Row |-> IF r \in RowsOf(call[b].data)
                                                 THEN v[r] ELSE "none"]]]
  /\ todo' = [s \in Sweep |-> {}]
  /\ hands' = [s \in Sweep |-> Hands]
  /\ editing' = {}
  /\ UNCHANGED <<rowVars, event>>

(* A callback with the result of one row, by internal_ref. *)
CallbackLine(b, r) ==
  /\ call[b].verdict[r] # "none"
  /\ status[r] # "correcto"
  /\ status' = [status EXCEPT ![r] = call[b].verdict[r]]
  /\ UNCHANGED <<ver, batchId, written, editing, todo, hands, call, event, faults>>

(* Mutation: the result of the batch for every row that waits for one. *)
CallbackBatchAnyBatch(b, literal) ==
  /\ RowsOf(call[b].data) # {}
  /\ \A r \in RowsOf(call[b].data) : call[b].verdict[r] = literal
  /\ status' = [r \in Row |-> IF status[r] = "pending" THEN literal ELSE status[r]]
  /\ UNCHANGED <<ver, batchId, written, editing, todo, hands, call, event, faults>>

(* A callback with one result for the whole batch, by batch_ref. *)
CallbackBatch(b, literal) ==
  /\ RowsOf(call[b].data) # {}
  /\ \A r \in RowsOf(call[b].data) : call[b].verdict[r] = literal
  /\ status' = [r \in Row |-> IF batchId[r] = b /\ status[r] # "correcto"
                              THEN literal ELSE status[r]]
  /\ UNCHANGED <<ver, batchId, written, editing, todo, hands, call, event, faults>>

-----------------------------------------------------------------------------
CallStep(b) ==
  \/ VendorAccept(b) \/ VendorRefuse(b) \/ CallFails(b)
  \/ OutcomeSent(b) \/ OutcomeError(b) \/ OutcomeLost(b)

Next ==
  \/ \E r \in Row : Ingest(r) \/ EditData(r) \/ EditMark(r)
  \/ \E s \in Sweep : SweepFetch(s)
  \/ \E s \in Manual, R \in SUBSET Row : ForceFetch(s, R)
  \/ \E s \in Sweep : \E C \in SUBSET todo[s] : Send(s, C)
  \/ \E b \in Batch : CallStep(b)
  \/ \E b \in Batch, r \in Row : CallbackLine(b, r)
  \/ \E b \in Batch, literal \in Literal : CallbackBatch(b, literal)
  \/ Crash

Spec == Init /\ [][Next]_vars

(* The cron ticks, a sweep works through what it read, a call is answered  *)
(* or times out, an outcome is recorded and an edit is completed.  Faults  *)
(* are finitely many; callbacks may never come.                            *)
Fairness ==
  /\ WF_vars(\E s \in Cron : SweepFetch(s))
  /\ \A s \in Cron : WF_vars(\E C \in SUBSET todo[s] : Send(s, C))
  /\ \A b \in Batch : WF_vars(CallStep(b))
  /\ \A r \in Row : WF_vars(EditMark(r))

FairSpec == Spec /\ Fairness

-----------------------------------------------------------------------------
(* Properties.                                                             *)

(* Whatever a row says of its last attempt is what the outbox announced of *)
(* that batch, and the batch did send the row: no outcome without its      *)
(* event, no event without its outcome (commitOutcome).                    *)
OutcomeHasEvent ==
  \A r \in Row :
    IF batchId[r] = NoBatch THEN written[r] = "none"
    ELSE /\ r \in RowsOf(call[batchId[r]].marks)
         /\ written[r] = event[batchId[r]]
         /\ written[r] # "none"

(* A row waiting for its result was acknowledged in the batch it names,    *)
(* and the vendor has it: the result it waits for can come.                *)
PendingIsPresented ==
  \A r \in Row :
    status[r] = "pending" =>
      /\ batchId[r] # NoBatch
      /\ event[batchId[r]] = "sent"
      /\ call[batchId[r]].verdict[r] # "none"

(* A result on a row is one the vendor gave for that row: results by batch *)
(* reach only rows that batch sent.                                        *)
ResultIsTheVendors ==
  \A r \in Row :
    status[r] \in Literal => \E b \in Batch : call[b].verdict[r] = status[r]

(* An accepted row changes status only at the end of what began before the *)
(* acceptance: the outcome of a call that carried it, or the second        *)
(* statement of an edit.  No ingest, callback, sweep or crash touches it.  *)
AcceptedLeavesByRaceOnly ==
  [][\A r \in Row :
       status[r] = "correcto" /\ status'[r] # "correcto" =>
         \/ r \in editing \ editing'
         \/ \E b \in Batch : /\ r \in RowsOf(call[b].marks)
                             /\ call[b].state \in InFlight
                             /\ call'[b].state = "over"]_vars

(* Two calls of the cron in flight never carry the same row to be marked,  *)
(* until an exception ends a sweep that has other workers: the supervisor  *)
(* then starts the next sweep over their calls (Abandoned).                *)
OneCallPerRow ==
  \A b, c \in Batch :
    (/\ b # c
     /\ {call[b].state, call[c].state} \subseteq InFlight
     /\ {call[b].by, call[c].by} \subseteq Cron
     /\ Abandoned = {})
    => RowsOf(call[b].marks) \cap RowsOf(call[c].marks) = {}

NewCall(b) == call[b].state = "unused" /\ call'[b].state # "unused"

(* The cron never sends again what an ACK has left 'pending', as long as   *)
(* no sweep was abandoned.                                                 *)
CronNeverResendsAcked ==
  [][\A b \in Batch :
       NewCall(b) /\ call'[b].by \in Cron /\ Abandoned = {} =>
         \A r \in RowsOf(call'[b].marks) : status[r] # "pending"]_vars

(* Whatever fails, a row that is ready to be sent is acknowledged or       *)
(* resolved in the end.                                                    *)
ReadyRowsGo ==
  \A r \in Row : status[r] \in Sendable ~> status[r] \notin Sendable

(* 'correcto' is final. *)
CorrectoIsFinal ==
  [][\A r \in Row : status[r] = "correcto" => status'[r] = "correcto"]_vars
=============================================================================
