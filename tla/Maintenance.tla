----------------------------- MODULE Maintenance -----------------------------
(***************************************************************************)
(* The maintenance queue with the two kinds of work it does: operations on *)
(* a table, started by the user, and the purge of one target of the        *)
(* retention catalogue, started by the user or by the scheduler            *)
(* (retention/retention.service.ts, tables/retention-scheduler.service.ts, *)
(* maintenance.processor.ts; the runs are those of OperationRuns).         *)
(*                                                                         *)
(* A purge reads the settings of its target, deletes batch after batch,    *)
(* and stores the settings it has read together with last_run_at.          *)
(***************************************************************************)
EXTENDS OperationRuns

CONSTANTS Days,        (* windows a user may ask for                        *)
          DefaultDays, (* defaultRetentionDays of the target                *)
          Interval,    (* intervalDays, which nobody changes here           *)
          Date,        (* Date[x]: the day trace row x dates from           *)
          MaxDay,      (* bound on the clock                                *)
          MaxRequests, (* bound on manual runs and cancels                  *)
          MaxChanges,  (* bound on setConfig                                *)
          NoSetting

ASSUME RetentionAssumption ==
  /\ Days \subseteq Nat
  /\ DefaultDays \in Nat
  /\ Interval \in Nat \ {0}
  /\ MaxDay \in Nat \ {0}
  /\ MaxRequests \in Nat
  /\ MaxChanges \in Nat
  /\ \A x \in DOMAIN Date : Date[x] \in Nat

VARIABLES
  kind,     (* what each run does and who asked for it                      *)
  setting,  (* the row of retention_settings                                *)
  asked,    (* what the user last asked for, and whether a purge was in the *)
            (* middle of its work at that moment                            *)
  patch,    (* what the setConfig under way will store                      *)
  tick,     (* the scheduler: how far its tick is                           *)
  purge,    (* the settings each worker's purge has read                    *)
  rows,     (* rows of the target's table                                   *)
  day,      (* the clock                                                    *)
  requests, changes (* so far                                               *)

bounds == <<requests, changes>>
retentionVars == <<kind, setting, asked, patch, tick, purge, rows, day, bounds>>
vars == <<runVars, retentionVars>>

Row == DOMAIN Date
Purges == {"scheduled", "manual"}
Window == Days \cup {DefaultDays}
Config == [days : Window, enabled : BOOLEAN]
ConfigOf(s) == [days |-> s.days, enabled |-> s.enabled]

TypeOK ==
  /\ RunsTypeOK
  /\ kind \in [Run -> {"none", "table"} \cup Purges]
  /\ setting \in [days : Window, enabled : BOOLEAN, last : 0..MaxDay]
  /\ asked \in [config : Config, quiet : BOOLEAN]
  /\ patch \in Config \cup {NoSetting}
  /\ tick \in {"idle", "clear"}
  /\ purge \in [Worker -> Config \cup {NoSetting}]
  /\ rows \subseteq Row
  /\ day \in 1..MaxDay
  /\ requests \in 0..MaxRequests
  /\ changes \in 0..MaxChanges

Init ==
  /\ RunsInit
  /\ kind = [r \in Run |-> "none"]
  /\ setting = [days |-> DefaultDays, enabled |-> TRUE, last |-> 0]
  /\ asked = [config |-> ConfigOf(setting), quiet |-> TRUE]
  /\ patch = NoSetting
  /\ tick = "idle"
  /\ purge = [w \in Worker |-> NoSetting]
  /\ rows = Row
  /\ day = 1
  /\ requests = 0
  /\ changes = 0

Request == requests < MaxRequests /\ requests' = requests + 1 /\ changes' = changes

-----------------------------------------------------------------------------
(* Requests of the user.                                                   *)

Trigger(k) ==
  /\ CreateRun
  /\ Request
  /\ kind' = [kind EXCEPT ![Fresh] = k]
  /\ UNCHANGED <<setting, asked, patch, tick, purge, rows, day>>

(* trigger of bulk delete, submit, count, stats, report. *)
TriggerTable == Trigger("table")

(* POST retention/:key/purge: no look at the runs that are active. *)
TriggerPurge == Trigger("manual")

CancelRequest(r) ==
  /\ CancelRead(r)
  /\ Request
  /\ UNCHANGED <<kind, setting, asked, patch, tick, purge, rows, day>>

RequestGoesOn ==
  /\ \E r \in Run : EnqueueRun(r) \/ CancelSave(r) \/ CancelRemove(r)
  /\ UNCHANGED retentionVars

(* setConfig: getConfig, then an upsert of all but last_run_at. *)
SetRead(change) ==
  /\ patch = NoSetting
  /\ change # ConfigOf(setting)
  /\ changes < MaxChanges
  /\ changes' = changes + 1
  /\ patch' = [ConfigOf(setting) EXCEPT !.days = change.days, !.enabled = change.enabled]
  /\ UNCHANGED <<runVars, kind, setting, asked, tick, purge, rows, day, requests>>

SetSave ==
  /\ patch # NoSetting
  /\ setting' = [setting EXCEPT !.days = patch.days, !.enabled = patch.enabled]
  /\ asked' = [config |-> patch, quiet |-> \A w \in Worker : purge[w] = NoSetting]
  /\ patch' = NoSetting
  /\ UNCHANGED <<runVars, kind, tick, purge, rows, day, bounds>>

-----------------------------------------------------------------------------
(* RetentionSchedulerService.tick.                                         *)

Due == setting.enabled /\ (setting.last = 0 \/ day >= setting.last + Interval)

ActivePurges == {r \in Run : kind[r] \in Purges /\ status[r] \in Active}

(* Mutation: a run that failed still counts as active. *)
ActiveOrFailed == {r \in Run : kind[r] \in Purges /\ status[r] \in Active \cup {"error"}}

(* findActiveByOperation. *)
FindActiveByOperation == ActivePurges

(* The target is due and no run of it is active.  The settings are read    *)
(* just before the runs; here both are read at once.                       *)
TickRead ==
  /\ tick = "idle"
  /\ \A r \in inserting : kind[r] # "scheduled"
  /\ Due
  /\ FindActiveByOperation = {}
  /\ tick' = "clear"
  /\ UNCHANGED <<runVars, kind, setting, asked, patch, purge, rows, day, bounds>>

TickCreate ==
  /\ tick = "clear"
  /\ CreateRun
  /\ kind' = [kind EXCEPT ![Fresh] = "scheduled"]
  /\ tick' = "idle"
  /\ UNCHANGED <<setting, asked, patch, purge, rows, day, bounds>>

-----------------------------------------------------------------------------
(* The workers.                                                            *)

IsPurge(w) == At(w, "marked") /\ kind[worker[w].run] \in Purges

(* executePurge: getConfig. *)
PurgeRead(w) ==
  /\ IsPurge(w)
  /\ purge[w] = NoSetting
  /\ purge' = [purge EXCEPT ![w] = ConfigOf(setting)]
  /\ UNCHANGED <<runVars, kind, setting, asked, patch, tick, rows, day, bounds>>

(* Mutation: the last day of the window is deleted as well. *)
ExpiredOnLastDay(days) == {x \in rows : Date[x] + days <= day}

Expired(days) == {x \in rows : Date[x] + days < day}

(* batchedDelete: one batch, here of one row. *)
PurgeBatch(w) ==
  /\ IsPurge(w)
  /\ purge[w] # NoSetting
  /\ \E x \in Expired(purge[w].days) : rows' = rows \ {x}
  /\ UNCHANGED <<runVars, kind, setting, asked, patch, tick, purge, day, bounds>>

(* Mutations: the purge stores the defaults of its target; the day on      *)
(* which it is due again.                                                  *)
StoredByPurgeDefaults(w) == [days |-> DefaultDays, enabled |-> TRUE, last |-> day]

StoredByPurgeNext(w) ==
  [days |-> purge[w].days, enabled |-> purge[w].enabled, last |-> day + Interval]

(* What the purge stores at its end: the settings it read at its start. *)
StoredByPurge(w) == [days |-> purge[w].days, enabled |-> purge[w].enabled, last |-> day]

PurgeSave(w) ==
  /\ IsPurge(w)
  /\ purge[w] # NoSetting
  /\ Expired(purge[w].days) = {}
  /\ setting' = StoredByPurge(w)
  /\ purge' = [purge EXCEPT ![w] = NoSetting]
  /\ DispatchReturns(w)
  /\ UNCHANGED <<kind, asked, patch, tick, rows, day, bounds>>

TableOperation(w) ==
  /\ At(w, "marked")
  /\ kind[worker[w].run] = "table"
  /\ DispatchReturns(w)
  /\ UNCHANGED retentionVars

OperationFails(w) ==
  /\ DispatchThrows(w)
  /\ purge' = [purge EXCEPT ![w] = NoSetting]
  /\ UNCHANGED <<kind, setting, asked, patch, tick, rows, day, bounds>>

Work(w) ==
  \/ WorkerStep(w) /\ UNCHANGED retentionVars
  \/ PurgeRead(w) \/ PurgeBatch(w) \/ PurgeSave(w)
  \/ TableOperation(w)

-----------------------------------------------------------------------------
(* The process dies with all its requests; a day goes by.                  *)

ProcessDies ==
  /\ Crash
  /\ patch' = NoSetting
  /\ tick' = "idle"
  /\ purge' = [w \in Worker |-> NoSetting]
  /\ UNCHANGED <<kind, setting, asked, rows, day, bounds>>

NextDay ==
  /\ day < MaxDay
  /\ day' = day + 1
  /\ UNCHANGED <<runVars, kind, setting, asked, patch, tick, purge, rows, bounds>>

Scheduler == TickRead \/ TickCreate
Redeliver == (\E r \in Run : Stalled(r)) /\ UNCHANGED retentionVars

Next ==
  \/ TriggerTable \/ TriggerPurge
  \/ \E r \in Run : CancelRequest(r)
  \/ RequestGoesOn
  \/ \E change \in [days : Days, enabled : BOOLEAN] : SetRead(change)
  \/ SetSave
  \/ Scheduler
  \/ \E w \in Worker : Work(w) \/ OperationFails(w)
  \/ \E w \in Worker : StatementFails(w) /\ UNCHANGED retentionVars
  \/ ProcessDies
  \/ Redeliver
  \/ NextDay

Spec == Init /\ [][Next]_vars

(* The interval of the scheduler fires, the workers work, requests end,    *)
(* stalled jobs are found.  Faults are finitely many; nobody has to ask    *)
(* for anything.                                                           *)
Fairness ==
  /\ WF_vars(Scheduler)
  /\ WF_vars(RequestGoesOn)
  /\ WF_vars(SetSave)
  /\ WF_vars(Redeliver)
  /\ \A w \in Worker : WF_vars(Work(w))

FairSpec == Spec /\ Fairness

-----------------------------------------------------------------------------
(* Properties.                                                             *)

(* A setting stored while no purge was between its first and its last      *)
(* statement stays what the user asked for, whatever purges run later      *)
(* (executePurge writes the whole row back).                               *)
SettingKept == asked.quiet => ConfigOf(setting) = asked.config

(* After such a moment nothing is deleted that the user's window keeps:    *)
(* no purge works with older settings than the ones stored.                *)
WindowApplied ==
  [][asked.quiet => \A x \in rows \ rows' : Date[x] + asked.config.days < day]_vars

(* The scheduler starts no purge beside another: two active purges, one of *)
(* them scheduled, need a user who triggered or canceled one of the two,   *)
(* or a job that came back after a crash.                                  *)
ScheduledPurgesAlone ==
  \A r, q \in ActivePurges :
    r # q /\ kind[r] = "scheduled" /\ kind[q] = "scheduled" =>
      \E x \in {r, q} : cancel[x] # "no" \/ stalls[x] > 0

(* A target that is due is purged, or switched off, in the end, unless an  *)
(* orphaned run holds the gate (FindActiveByOperation) or the model has    *)
(* run out of ids.                                                         *)
DuePurged ==
  Due ~> \/ ~Due
         \/ \E r \in ActivePurges : Orphan(r)
         \/ \A r \in Run : status[r] # "none"

(* A purge deletes what the window says, and no second one beside it.      *)
PurgesBehave == WindowApplied /\ []ScheduledPurgesAlone
=============================================================================
