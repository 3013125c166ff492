----------------------------- MODULE MCServices -----------------------------
(* The components that share no state with each other, for TLC: in each     *)
(* behaviour one of them moves, "part", and the others keep still.  What    *)
(* holds of each component alone holds of this composition, and the other   *)
(* way round.                                                               *)
EXTENDS SweepPlan, SiiResults, DeleteLedger, Backup, ProvisionedToken, TemplateIndexes,
        SourceConnections, RowQueries, Payload

CONSTANT Parts  (* those of "sweep", "results", "deletes", "backup", "token", *)
                (* "indexes", "connections", "queries", "payload" that the    *)
                (* run is about                                               *)

ASSUME PartsAssumption ==
  Parts \subseteq {"sweep", "results", "deletes", "backup", "token", "indexes", "connections",
                  "queries", "payload"}

VARIABLE part

Still(p) ==
  /\ UNCHANGED part
  /\ IF p = "sweep" THEN TRUE ELSE UNCHANGED sweepVars
  /\ IF p = "results" THEN TRUE ELSE UNCHANGED siiVars
  /\ IF p = "deletes" THEN TRUE ELSE UNCHANGED deleteVars
  /\ IF p = "backup" THEN TRUE ELSE UNCHANGED backupVars
  /\ IF p = "token" THEN TRUE ELSE UNCHANGED tokenVars
  /\ IF p = "indexes" THEN TRUE ELSE UNCHANGED indexVars
  /\ IF p = "connections" THEN TRUE ELSE UNCHANGED connectionVars
  /\ IF p = "queries" THEN TRUE ELSE UNCHANGED queryVars
  /\ IF p = "payload" THEN TRUE ELSE UNCHANGED payloadVars

Moves(p, A) == part = p /\ A /\ Still(p)

Init ==
  /\ part \in Parts
  /\ SweepInit /\ SiiInit /\ DeleteInit /\ BackupInit /\ TokenInit /\ IndexInit
  /\ ConnInit /\ QueryInit /\ PayloadInit

Next ==
  \/ Moves("sweep", SweepNext)
  \/ Moves("results", SiiNext)
  \/ Moves("deletes", DeleteNext)
  \/ Moves("backup", BackupNext)
  \/ Moves("token", TokenNext)
  \/ Moves("indexes", IndexNext)
  \/ Moves("connections", ConnNext)
  \/ Moves("queries", QueryNext)
  \/ Moves("payload", PayloadNext)

vars == <<part, sweepVars, siiVars, deleteVars, backupVars, tokenVars, indexVars,
          connectionVars, queryVars, payloadVars>>

Safety == Init /\ [][Next]_vars

(* A tick of the cron comes again and again between force-submits; workers, *)
(* the backup cron and the queues go on.                                    *)
Spec ==
  /\ Safety
  /\ SF_vars(Moves("sweep", StartSweep)) /\ WF_vars(Moves("sweep", MakeCall))
  /\ \A b \in Body : WF_vars(Moves("results", Processing(b)))
  /\ WF_vars(Moves("backup", \E r \in BRun : CronStarts(r)))
  /\ WF_vars(Moves("backup", Dumping("cron")))
  /\ WF_vars(Moves("backup", WorkerTakes \/ Dumping("worker") \/ Restoring))
  /\ WF_vars(Moves("token", TokenSetting))
  /\ WF_vars(Moves("connections", Beat)) /\ WF_vars(Moves("connections", Supervising))
  /\ \A c \in Conn : WF_vars(Moves("connections", SweepReturns(c)))

(* The data of the instance. *)
Groups == [r \in DRow |-> IF r = 3 THEN 2 ELSE 1]

Line(state, e) == [lines |-> SiiRow, batches |-> {}, state |-> state, error |-> e]
Lot == [lines |-> {}, batches |-> SiiRow \X {1}, state |-> "correcto", error |-> NoError]
Bodies == {Line("rechazado", "e1"), Line("rechazado", "e2"), Lot}
TextsUsed == {<<"a">>, <<"a", "a">>}
FewBodies == {Line("rechazado", "e1"), Lot}

(* Each component has its types; those that keep still have Init's. *)
TypeOK ==
  CASE part = "sweep" -> SweepTypeOK
    [] part = "results" -> SiiTypeOK
    [] part = "deletes" -> DeleteTypeOK
    [] part = "backup" -> BackupTypeOK
    [] part = "token" -> TokenTypeOK
    [] part = "indexes" -> IndexTypeOK
    [] part = "connections" -> ConnTypeOK
    [] part = "queries" -> QueryTypeOK
    [] part = "payload" -> PayloadTypeOK

(* Results of the vendor, tokens, sweeps, dumps and restores get through:  *)
(* each component goes on after its failures.                              *)
WorkGoesOn == ResultsLand /\ TokensApplied /\ SweptAgain /\ BackupsGoOn
=============================================================================
