-------------------------- MODULE ProvisionedToken --------------------------
(***************************************************************************)
(* The management token of the hub (core/auth/provisioned-token.service.ts,*)
(* satellite-control.processor.ts, mgmt-token.guard.ts): delivered through *)
(* a queue, stored in provisioned_secrets and then in memory, with the     *)
(* token before it accepted for a grace period.  Deliveries are repeated,  *)
(* fail, come back in another order; the process restarts.                 *)
(***************************************************************************)
EXTENDS Naturals, Sequences

CONSTANTS MaxToken,  (* bound on the tokens the hub issues                   *)
          GraceTime, (* GRACE_MS                                             *)
          MaxTime,   (* bound on the clock                                   *)
          PFaults    (* bound on failures and restarts                       *)

ASSUME TokenAssumption ==
  /\ MaxToken \in Nat \ {0}
  /\ GraceTime \in Nat \ {0} /\ MaxTime \in Nat /\ PFaults \in Nat

Token == 1..MaxToken   (* by issuedAt *)

VARIABLES issued,    (* tokens issued so far                                 *)
          control,   (* the queue sat-<key>-control                          *)
          stored,    (* the row of provisioned_secrets                       *)
          memory,    (* "state" of the service                               *)
          setting,   (* where "set" is, and what it will keep in memory      *)
          graced,    (* tokens in their grace, with its end                  *)
          newest,    (* the newest token that was ever in effect             *)
          clock, pFaults

tokenVars == <<issued, control, stored, memory, setting, graced, newest, clock, pFaults>>

(* Token 0 stands for none, as does a grace that ends at 0. *)
NoToken == [token |-> 0, previous |-> 0, until |-> 0]
State == [token : Token \cup {0}, previous : Token \cup {0}, until : 0..(MaxTime + GraceTime)]

TokenTypeOK ==
  /\ issued \in Token \cup {0}
  /\ control \in Seq(Token)
  /\ stored \in State /\ memory \in State
  /\ setting \in [at : {"idle", "taken", "upserted"}, token : Token \cup {0}, next : State]
  /\ graced \subseteq Token \X (0..(MaxTime + GraceTime))
  /\ newest \in Token \cup {0}
  /\ clock \in 0..MaxTime /\ pFaults \in 0..PFaults

NotSetting == [at |-> "idle", token |-> 0, next |-> NoToken]

TokenInit ==
  /\ issued = 0 /\ control = <<>>
  /\ stored = NoToken /\ memory = NoToken /\ setting = NotSetting
  /\ graced = {} /\ newest = 0
  /\ clock = 0 /\ pFaults = 0

(* The hub provisions or rotates. *)
Issue ==
  /\ issued + 1 \in Token
  /\ issued' = issued + 1
  /\ control' = Append(control, issued + 1)
  /\ UNCHANGED <<stored, memory, setting, graced, newest, clock, pFaults>>

Tick ==
  /\ clock < MaxTime
  /\ clock' = clock + 1
  /\ UNCHANGED <<issued, control, stored, memory, setting, graced, newest, pFaults>>

(* SatelliteControlProcessor.process. *)
TakeToken ==
  /\ setting.at = "idle" /\ control # <<>>
  /\ setting' = [NotSetting EXCEPT !.at = "taken", !.token = Head(control)]
  /\ control' = Tail(control)
  /\ UNCHANGED <<issued, stored, memory, graced, newest, clock, pFaults>>

(* Mutation: the token before is taken from the table. *)
RotatedOfStored ==
  [token |-> setting.token, previous |-> stored.token,
   until |-> IF stored.token = 0 THEN 0 ELSE clock + GraceTime]

(* What "set" stores: the token, and the one in memory for a while. *)
Rotated ==
  [token |-> setting.token, previous |-> memory.token,
   until |-> IF memory.token = 0 THEN 0 ELSE clock + GraceTime]

Upsert ==
  /\ setting.at = "taken"
  /\ stored' = Rotated
  /\ setting' = [setting EXCEPT !.at = "upserted", !.next = Rotated]
  /\ UNCHANGED <<issued, control, memory, graced, newest, clock, pFaults>>

Later(t, u) == IF t > u THEN t ELSE u

(* The same token again leaves no other in its grace. *)
Remember ==
  /\ setting.at = "upserted"
  /\ memory' = setting.next
  /\ graced' = IF setting.next.previous \in {0, setting.token} THEN {}
               ELSE {<<setting.next.previous, setting.next.until>>}
  /\ newest' = Later(newest, setting.token)
  /\ setting' = NotSetting
  /\ UNCHANGED <<issued, control, stored, clock, pFaults>>

(* The upsert fails, applied or not: the job is tried again after those    *)
(* that wait.                                                              *)
SetFails ==
  /\ setting.at = "taken"
  /\ pFaults < PFaults /\ pFaults' = pFaults + 1
  /\ stored' \in {stored, Rotated}
  /\ control' = Append(control, setting.token)
  /\ setting' = NotSetting
  /\ UNCHANGED <<issued, memory, graced, newest, clock>>

(* onModuleInit. *)
Loaded == stored

(* The process restarts; a job under way is delivered again. *)
Restart ==
  /\ pFaults < PFaults /\ pFaults' = pFaults + 1
  /\ memory' = Loaded
  /\ control' = IF setting.at = "idle" THEN control ELSE <<setting.token>> \o control
  /\ setting' = NotSetting
  /\ graced' = IF stored = memory THEN graced
               ELSE IF stored.previous \in {0, stored.token} THEN {}
               ELSE {<<stored.previous, stored.until>>}
  /\ newest' = Later(newest, stored.token)
  /\ UNCHANGED <<issued, stored, clock>>

TokenSetting == TakeToken \/ Upsert \/ Remember
TokenNext == Issue \/ Tick \/ TokenSetting \/ SetFails \/ Restart
TokenSpec == TokenInit /\ [][TokenNext]_tokenVars

-----------------------------------------------------------------------------
(* Properties.                                                             *)

(* accepts. *)
AcceptedBy(state, t) == t = state.token \/ (t = state.previous /\ clock < state.until)

(* A token that has been replaced is accepted to the end of its grace,     *)
(* also after a restart, unless another delivery was applied since.        *)
GraceHolds == \A g \in graced : clock < g[2] => AcceptedBy(memory, g[1])

(* A restart never locks out the hub: the token that was current before it *)
(* is current, or in a grace that began when its successor was stored.     *)
RestartKeepsCurrent ==
  [][pFaults' # pFaults /\ memory' # memory /\ memory.token # 0 =>
       memory.token \in {memory'.token, memory'.previous}]_tokenVars

(* The last token gets applied, through failures and restarts.  It need   *)
(* not stay: a delivery that failed may be applied after a newer one, for  *)
(* issuedAt is stored but never compared.                                  *)
TokensApplied == issued = MaxToken ~> newest = MaxToken

(* Neither a rotation nor a restart locks out a caller before its grace    *)
(* has passed.                                                             *)
NobodyLockedOut == RestartKeepsCurrent /\ []GraceHolds
=============================================================================
