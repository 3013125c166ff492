---------------------------- MODULE DeleteLedger ----------------------------
(***************************************************************************)
(* Deletion of rows and the ledger that explains it (tables/table-rows.    *)
(* service.ts: deleteRows, propagateExternalDeletes, recordDeleteEvent,    *)
(* getStats, resetDeleteBaseline; table-retention.cron.ts; the target      *)
(* table_delete_events of the retention catalogue).                        *)
(*                                                                         *)
(* A delete evaluates its condition twice: to tell the vendor of each row, *)
(* and in the DELETE.  Postgres counts what is deleted from table_rows     *)
(* (n_tup_del), the ledger what the application says it deleted; the       *)
(* difference is shown to the user as uncontrolled loss.                   *)
(***************************************************************************)
EXTENDS Integers, FiniteSets, Sequences, SequencesExt

CONSTANTS DRow, DGroup,  (* rows, and the group_id of each                   *)
          Deleter,       (* deletes: by ids, by filters, by age              *)
          Resetter,      (* requests to reset the baseline                   *)
          DChanges,      (* bound on edits, ingests and losses               *)
          DFaults        (* bound on failed statements                       *)

ASSUME DeleteAssumption ==
  /\ IsFiniteSet(DRow) /\ IsFiniteSet(Deleter)
  /\ DGroup \in [DRow -> Nat]
  /\ DChanges \in Nat
  /\ DFaults \in Nat

VARIABLES here,      (* rows in table_rows                                   *)
          match,     (* rows that fit the condition of the deletes           *)
          deleter,   (* where each delete is, and what it has selected       *)
          moved,     (* rows edited or ingested while a delete was between   *)
                     (* its two evaluations                                  *)
          tupDel,    (* n_tup_del                                            *)
          ledger,    (* "affected" of each event in table_delete_events      *)
          booked,    (* their sum, which the queries for it find             *)
          reset,     (* where each reset is, and what it has read            *)
          loss,      (* deletions that no event explains, since the baseline *)
          blurred,   (* a reset met a delete, a purge or another reset       *)
          changes, dFaults

book == <<ledger, booked>>
deleteVars == <<here, match, deleter, moved, tupDel, book, reset, loss,
                blurred, changes, dFaults>>

Quiet == [at |-> "idle", rows |-> {}]
NoReset == [at |-> "idle", stat |-> 0, delta |-> 0, loss |-> 0]
SumOfEvents(events) == FoldSeq(LAMBDA n, sum : n + sum, 0, events)

DeleteTypeOK ==
  /\ here \subseteq DRow /\ match \subseteq DRow
  /\ moved \subseteq DRow
  /\ deleter \in [Deleter -> [at : {"idle", "telling", "deleted"}, rows : SUBSET DRow]]
  /\ tupDel \in Nat /\ loss \in Int
  /\ ledger \in Seq(Nat) /\ booked = SumOfEvents(ledger)
  /\ reset \in [Resetter -> [at : {"idle", "stat", "both"}, stat : Nat, delta : Nat, loss : Int]]
  /\ blurred \in BOOLEAN
  /\ changes \in 0..DChanges
  /\ dFaults \in 0..DFaults

DeleteInit ==
  /\ here = DRow /\ match = {} /\ moved = {}
  /\ deleter = [d \in Deleter |-> Quiet]
  /\ tupDel = 0 /\ ledger = <<>> /\ booked = 0 /\ loss = 0
  /\ reset = [x \in Resetter |-> NoReset]
  /\ blurred = FALSE /\ changes = 0 /\ dFaults = 0

Change == changes < DChanges /\ changes' = changes + 1
Resetting == \E x \in Resetter : reset[x].at # "idle"

-----------------------------------------------------------------------------
(* Rows change: an edit or the clock, an ingest, an SQL statement from     *)
(* outside the application.                                                *)

(* The condition the deletes are asked with. *)
Ask ==
  /\ match = {} /\ tupDel = 0 /\ changes = 0
  /\ match' \in SUBSET DRow \ {{}}
  /\ UNCHANGED <<here, deleter, moved, tupDel, book, reset, loss, blurred, changes, dFaults>>

Open == {d \in Deleter : deleter[d].at = "telling"}

Alter(r) ==
  /\ Change
  /\ r \in here
  /\ match' = IF r \in match THEN match \ {r} ELSE match \cup {r}
  /\ moved' = IF Open = {} THEN moved ELSE moved \cup {x \in DRow : DGroup[x] = DGroup[r]}
  /\ UNCHANGED <<here, deleter, tupDel, book, reset, loss, blurred, dFaults>>

Arrive(r) ==
  /\ Change
  /\ r \notin here
  /\ here' = here \cup {r}
  /\ moved' = IF Open = {} THEN moved ELSE moved \cup {x \in DRow : DGroup[x] = DGroup[r]}
  /\ UNCHANGED <<match, deleter, tupDel, book, reset, loss, blurred, dFaults>>

LoseOutside(r) ==
  /\ Change
  /\ r \in here
  /\ here' = here \ {r}
  /\ tupDel' = tupDel + 1
  /\ loss' = loss + 1
  /\ moved' = IF Open = {} THEN moved ELSE moved \cup {x \in DRow : DGroup[x] = DGroup[r]}
  /\ UNCHANGED <<match, deleter, book, reset, blurred, dFaults>>

-----------------------------------------------------------------------------
(* deleteRows.                                                             *)

(* withGroupExpansion: with a row goes its group. *)
Expanded == {r \in here : \E x \in here \cap match : DGroup[x] = DGroup[r]}

(* Mutation: the vendor is told of the rows that match, without siblings. *)
TellMatching(d) ==
  /\ deleter[d].at = "idle"
  /\ Expanded # {}
  /\ deleter' = [deleter EXCEPT ![d] = [at |-> "telling", rows |-> here \cap match]]
  /\ UNCHANGED <<here, match, moved, tupDel, book, reset, loss, blurred, changes, dFaults>>

(* propagateExternalDeletes: one request per row, whose outcome is only    *)
(* written to the history.                                                 *)
Tell(d) ==
  /\ deleter[d].at = "idle"
  /\ Expanded # {}
  /\ deleter' = [deleter EXCEPT ![d] = [at |-> "telling", rows |-> Expanded]]
  /\ UNCHANGED <<here, match, moved, tupDel, book, reset, loss, blurred, changes, dFaults>>

(* The DELETE evaluates the condition again; rowCount is what it deleted.  *)
Delete(d) ==
  /\ deleter[d].at = "telling"
  /\ deleter' = [deleter EXCEPT ![d] = [at |-> "deleted", rows |-> Expanded]]
  /\ here' = here \ Expanded
  /\ tupDel' = tupDel + Cardinality(Expanded)
  /\ blurred' = (blurred \/ Resetting)
  /\ moved' = IF Open = {d} THEN {} ELSE moved \cup Expanded
  /\ UNCHANGED <<match, book, reset, loss, changes, dFaults>>

Affected(d) == Cardinality(deleter[d].rows)

(* An event, but none of nothing. *)
Book(n) ==
  IF n = 0 THEN UNCHANGED book
  ELSE ledger' = Append(ledger, n) /\ booked' = booked + n

(* recordDeleteEvent. *)
Record(d) ==
  /\ deleter[d].at = "deleted"
  /\ Book(Affected(d))
  /\ deleter' = [deleter EXCEPT ![d] = Quiet]
  /\ UNCHANGED <<here, match, moved, tupDel, reset, loss, blurred, changes, dFaults>>

(* The INSERT fails and is swallowed, or the process dies before it. *)
RecordFails(d) ==
  /\ deleter[d].at = "deleted"
  /\ dFaults < DFaults
  /\ dFaults' = dFaults + 1
  /\ loss' = loss + Cardinality(deleter[d].rows)
  /\ deleter' = [deleter EXCEPT ![d] = Quiet]
  /\ UNCHANGED <<here, match, moved, tupDel, book, reset, blurred, changes>>

-----------------------------------------------------------------------------
(* resetDeleteBaseline: three statements.                                  *)

Unrecorded == \E d \in Deleter : deleter[d].at = "deleted"

ResetReadStat(x) ==
  /\ reset[x].at = "idle"
  /\ tupDel > 0
  /\ reset' = [reset EXCEPT ![x] = [at |-> "stat", stat |-> tupDel, delta |-> 0, loss |-> loss]]
  /\ blurred' = (blurred \/ Unrecorded \/ Resetting)
  /\ UNCHANGED <<here, match, deleter, moved, tupDel, book, loss, changes, dFaults>>

(* Mutation: the difference, below zero too. *)
Difference(n, m) == n - m

Above(n, m) == IF n > m THEN n - m ELSE 0

ResetReadLedger(x) ==
  /\ reset[x].at = "stat"
  /\ reset' = [reset EXCEPT ![x].at = "both", ![x].delta = Above(reset[x].stat, booked)]
  /\ UNCHANGED <<here, match, deleter, moved, tupDel, book, loss, blurred, changes, dFaults>>

ResetInsert(x) ==
  /\ reset[x].at = "both"
  /\ Book(reset[x].delta)
  /\ loss' = loss - reset[x].loss
  /\ reset' = [reset EXCEPT ![x] = NoReset]
  /\ UNCHANGED <<here, match, deleter, moved, tupDel, blurred, changes, dFaults>>

(* The retention of table_delete_events deletes its oldest events, while   *)
(* n_tup_del keeps counting what they explained.                           *)
PurgeLedger ==
  /\ ledger # <<>>
  /\ ledger' = Tail(ledger) /\ booked' = booked - Head(ledger)
  /\ loss' = loss + Head(ledger)
  /\ blurred' = (blurred \/ Resetting)
  /\ UNCHANGED <<here, match, deleter, moved, tupDel, reset, changes, dFaults>>

DeleteNext ==
  \/ Ask
  \/ \E r \in DRow : Alter(r) \/ Arrive(r) \/ LoseOutside(r)
  \/ \E d \in Deleter : Tell(d) \/ Delete(d) \/ Record(d) \/ RecordFails(d)
  \/ \E x \in Resetter : ResetReadStat(x) \/ ResetReadLedger(x) \/ ResetInsert(x)
  \/ PurgeLedger

DeleteSpec == DeleteInit /\ [][DeleteNext]_deleteVars

-----------------------------------------------------------------------------
(* Properties.                                                             *)

(* uncontrolledDeletes of getStats. *)
Uncontrolled == Above(tupDel, booked)

(* The rows of each delete that no event tells of yet. *)
RowsUnrecorded ==
  {x \in Deleter \X DRow : deleter[x[1]].at = "deleted" /\ x[2] \in deleter[x[1]].rows}

(* What is shown as uncontrolled loss is exactly the deletions that no     *)
(* event of the ledger explains: rows lost outside the application or to a *)
(* record that failed, and those whose event has been purged; while a      *)
(* delete is not recorded yet its rows besides.  A reset that meets a      *)
(* delete may count it twice and hide a later loss.                        *)
UncontrolledIsLoss == ~blurred => Uncontrolled = loss + Cardinality(RowsUnrecorded)

(* A group is deleted as one block, whichever of its rows fits.            *)
GroupsGoWhole ==
  [][\A d \in Deleter :
       deleter[d].at = "telling" /\ deleter'[d].at = "deleted" =>
         \A r \in here \ here', x \in here' : DGroup[x] # DGroup[r]]_deleteVars

(* The vendor is told of exactly the rows that are then deleted, but for   *)
(* groups that changed between the two evaluations of the condition.       *)
VendorToldOfDeleted ==
  [][\A d \in Deleter :
       deleter[d].at = "telling" /\ deleter'[d].at = "deleted" =>
         (deleter[d].rows \ moved) = ((here \ here') \ moved)]_deleteVars

(* A delete takes whole groups, tells the vendor of what it takes and      *)
(* leaves the count of uncontrolled deletes as it was.                     *)
DeletesAccounted == GroupsGoWhole /\ VendorToldOfDeleted /\ []UncontrolledIsLoss
=============================================================================
