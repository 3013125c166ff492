-------------------------- MODULE SourceConnections --------------------------
(***************************************************************************)
(* The connections to external systems                                     *)
(* (connections/source-connections.service.ts), what reads them without    *)
(* asking: the check of the signature of a callback                        *)
(* (callbacks/sii-callback.controller.ts) and the supervisor of the write  *)
(* cron (tables/write-cron.service.ts).  Every request is one or more SQL  *)
(* statements, and other requests come between them.                       *)
(***************************************************************************)
EXTENDS Naturals, FiniteSets

CONSTANTS Conn,       (* ids of connections                                  *)
          Admin,      (* requests of administrators                          *)
          Delivery,   (* callbacks of the vendor                             *)
          MaxSecret,  (* bound on the secrets generated                      *)
          MaxCadence, (* the longest writeCronIntervalSec, in ticks          *)
          MaxAsks,    (* bound on the requests and the callbacks             *)
          CFaults     (* bound on failures                                   *)

ASSUME ConnectionAssumption ==
  /\ MaxSecret \in Nat \ {0} /\ MaxCadence \in Nat \ {0}
  /\ MaxAsks \in Nat /\ CFaults \in Nat

Secret == 0..MaxSecret   (* 0 for none *)
Cadence == 0..MaxCadence (* 0 for no internal cron *)

VARIABLES connection, (* the table source_connections                        *)
          admin,      (* where each request is                               *)
          delivery,   (* where each callback is                              *)
          raced,      (* first looks that met another look or a rotation     *)
          generated,  (* secrets generated so far                            *)
          lister,     (* the tick of the supervisor, and what it listed      *)
          elapsed,    (* time since lastRun, up to MaxCadence                *)
          running,    (* connections being swept                             *)
          asks, cFaults

connectionVars == <<connection, admin, delivery, raced, generated, lister, elapsed, running, asks, cFaults>>
cronVars == <<lister, elapsed, running>>

Row(token, secret, active, cadence) ==
  [life |-> "there", token |-> token, secret |-> secret, active |-> active, cadence |-> cadence]
NotYet == [life |-> "not yet", token |-> FALSE, secret |-> 0, active |-> FALSE, cadence |-> 0]
Rested == [at |-> "idle", kind |-> "none", conn |-> {}, token |-> FALSE, secret |-> 0]
Unsent == [at |-> "idle", conn |-> {}, signed |-> 0, secret |-> 0, since |-> {}]
NoTick == [at |-> "idle", due |-> {}]

There(c) == connection[c].life = "there"

ConnTypeOK ==
  /\ connection \in [Conn -> [life : {"not yet", "there", "gone"}, token : BOOLEAN, secret : Secret,
                              active : BOOLEAN, cadence : Cadence]]
  /\ admin \in [Admin -> [at : {"idle", "find again", "write"},
                          kind : {"none", "update", "look", "rotate"},
                          conn : SUBSET Conn, token : BOOLEAN, secret : Secret]]
  /\ delivery \in [Delivery -> [at : {"idle", "arrived", "read", "accepted", "rejected"},
                                conn : SUBSET Conn, signed : Secret, secret : Secret,
                                since : SUBSET Secret]]
  /\ raced \subseteq Admin /\ generated \in Secret
  /\ lister \in [at : {"idle", "listed"}, due : SUBSET (Conn \X Cadence)]
  /\ elapsed \in [Conn -> Cadence] /\ running \subseteq Conn
  /\ asks \in 0..MaxAsks /\ cFaults \in 0..CFaults

ConnInit ==
  /\ connection = [c \in Conn |-> NotYet]
  /\ admin = [q \in Admin |-> Rested] /\ delivery = [d \in Delivery |-> Unsent]
  /\ raced = {} /\ generated = 0
  /\ lister = NoTick /\ elapsed = [c \in Conn |-> MaxCadence] /\ running = {}
  /\ asks = 0 /\ cFaults = 0

Asked == asks < MaxAsks /\ asks' = asks + 1

-----------------------------------------------------------------------------
(* The requests of administrators.                                         *)

(* A connection that is older than the callback secrets. *)
Inherited(c) ==
  /\ asks = 0 /\ connection[c].life = "not yet"
  /\ \E old \in {Row(TRUE, 0, TRUE, MaxCadence), Row(FALSE, 0, FALSE, 0)} :
       connection' = [connection EXCEPT ![c] = old]
  /\ UNCHANGED <<admin, delivery, raced, generated, cronVars, asks, cFaults>>

(* create: validateCredentials, then one insert, with a new secret. *)
CreateConnection(c, active, cadence) ==
  /\ Asked /\ connection[c].life = "not yet" /\ generated < MaxSecret
  /\ generated' = generated + 1
  /\ connection' = [connection EXCEPT ![c] = Row(TRUE, generated + 1, active, cadence)]
  /\ UNCHANGED <<admin, delivery, raced, cronVars, cFaults>>

RemoveConnection(c) ==
  /\ Asked /\ There(c)
  /\ connection' = [connection EXCEPT ![c] = [NotYet EXCEPT !.life = "gone"]]
  /\ UNCHANGED <<admin, delivery, raced, generated, cronVars, cFaults>>

OnSecret(q, c) == admin[q].conn = {c} /\ admin[q].kind \in {"look", "rotate"}

(* The findById that begins an update, a look (getCallbackInfo) or a       *)
(* rotation.  A look that finds a secret shows it and ends here.           *)
FindById(q, c, kind) ==
  /\ Asked /\ admin[q].at = "idle" /\ There(c)
  /\ kind = "look" => connection[c].secret = 0
  /\ admin' = [admin EXCEPT ![q] = [at |-> IF kind = "look" THEN "find again" ELSE "write",
                                    kind |-> kind, conn |-> {c}, token |-> connection[c].token,
                                    secret |-> connection[c].secret]]
  /\ raced' = IF kind = "update" THEN raced
              ELSE LET met == {p \in Admin : OnSecret(p, c)}
                   IN  IF met = {} THEN raced \ {q} ELSE raced \cup met \cup {q}
  /\ UNCHANGED <<connection, delivery, generated, cronVars, cFaults>>

(* The backfill of getCallbackInfo: rotateCallbackSecret finds it again.   *)
FindAgain(q) ==
  /\ admin[q].at = "find again"
  /\ admin' = IF \E c \in admin[q].conn : There(c) THEN [admin EXCEPT ![q].at = "write"]
              ELSE [admin EXCEPT ![q] = Rested]
  /\ UNCHANGED <<connection, delivery, raced, generated, cronVars, asks, cFaults>>

(* Mutation: the entity that was read is saved whole. *)
PatchedWhole(q, c, token, active, cadence) == Row(token, admin[q].secret, active, cadence)

(* The patch of update: no secret in it, and credentials if they are given. *)
Patched(q, c, token, active, cadence) == Row(token, connection[c].secret, active, cadence)

(* update is refused without credentials when it read none stored; the     *)
(* statement finds no row when the connection was removed.                 *)
UpdateSave(q, given, active, cadence) ==
  /\ admin[q].at = "write" /\ admin[q].kind = "update"
  /\ connection' = [c \in Conn |->
       IF admin[q].conn = {c} /\ There(c) /\ (given \/ admin[q].token)
       THEN Patched(q, c, given \/ connection[c].token, active, cadence) ELSE connection[c]]
  /\ admin' = [admin EXCEPT ![q] = Rested]
  /\ UNCHANGED <<delivery, raced, generated, cronVars, asks, cFaults>>

(* rotateCallbackSecret stores the new secret and shows it.                *)
RotateSave(q) ==
  /\ admin[q].at = "write" /\ admin[q].kind \in {"look", "rotate"} /\ generated < MaxSecret
  /\ generated' = generated + 1
  /\ connection' = [c \in Conn |-> IF admin[q].conn = {c} /\ There(c)
                                   THEN [connection[c] EXCEPT !.secret = generated + 1]
                                   ELSE connection[c]]
  /\ delivery' = [d \in Delivery |-> IF /\ delivery[d].at \in {"arrived", "read"}
                                        /\ \E c \in delivery[d].conn : admin[q].conn = {c} /\ There(c)
                                     THEN [delivery[d] EXCEPT !.since = @ \cup {generated + 1}]
                                     ELSE delivery[d]]
  /\ admin' = [admin EXCEPT ![q] = Rested]
  /\ UNCHANGED <<raced, cronVars, asks, cFaults>>

-----------------------------------------------------------------------------
(* The callbacks of the vendor (SiiCallbackController.receive).            *)

(* Signed with any secret the vendor was ever handed. *)
CallbackArrives(d, c, signed) ==
  /\ Asked /\ delivery[d].at \in {"idle", "accepted", "rejected"}
  /\ signed \in 1..generated
  /\ delivery' = [delivery EXCEPT ![d] = [at |-> "arrived", conn |-> {c}, signed |-> signed,
                                          secret |-> 0, since |-> {connection[c].secret}]]
  /\ UNCHANGED <<connection, admin, raced, generated, cronVars, cFaults>>

FindCallbackSecret(d) ==
  /\ delivery[d].at = "arrived"
  /\ \E c \in delivery[d].conn :
       delivery' = [delivery EXCEPT ![d].at = "read", ![d].secret = connection[c].secret]
  /\ UNCHANGED <<connection, admin, raced, generated, cronVars, asks, cFaults>>

(* Without a secret it fails closed. *)
Verifies(d) == delivery[d].secret # 0 /\ delivery[d].signed = delivery[d].secret

(* Accepted is put in the queue. *)
Verify(d) ==
  /\ delivery[d].at = "read"
  /\ delivery' = [delivery EXCEPT ![d].at = IF Verifies(d) THEN "accepted" ELSE "rejected"]
  /\ UNCHANGED <<connection, admin, raced, generated, cronVars, asks, cFaults>>

-----------------------------------------------------------------------------
(* The supervisor of the write cron.                                       *)

Beat ==
  /\ elapsed # [c \in Conn |-> MaxCadence]
  /\ elapsed' = [c \in Conn |-> IF elapsed[c] < MaxCadence THEN elapsed[c] + 1 ELSE elapsed[c]]
  /\ UNCHANGED <<connection, admin, delivery, raced, generated, lister, running, asks, cFaults>>

(* listWriteCronConnections. *)
WriteCronConnections == {c \in Conn : There(c) /\ connection[c].active /\ connection[c].cadence > 0}

(* A tick never begins while another is in progress. *)
TickLists ==
  /\ lister.at = "idle"
  /\ lister' = [at |-> "listed", due |-> {<<c, connection[c].cadence>> : c \in WriteCronConnections}]
  /\ UNCHANGED <<connection, admin, delivery, raced, generated, elapsed, running, asks, cFaults>>

(* The list cannot be read: nothing is due, the next tick tries again.     *)
TickListFails ==
  /\ lister.at = "idle" /\ cFaults < CFaults /\ cFaults' = cFaults + 1
  /\ UNCHANGED <<connection, admin, delivery, raced, generated, lister, elapsed, running, asks>>

Begun == {c \in Conn \ running : \E i \in Cadence : <<c, i>> \in lister.due /\ elapsed[c] >= i}

TickDispatches ==
  /\ lister.at = "listed"
  /\ lister' = NoTick
  /\ elapsed' = [c \in Conn |-> IF c \in Begun THEN 0 ELSE elapsed[c]]
  /\ running' = running \cup Begun
  /\ UNCHANGED <<connection, admin, delivery, raced, generated, asks, cFaults>>

(* Every template was swept; what fails within a template is logged.       *)
SweepReturns(c) ==
  /\ c \in running
  /\ running' = running \ {c}
  /\ UNCHANGED <<connection, admin, delivery, raced, generated, lister, elapsed, asks, cFaults>>

(* findAll is outside the try: its failure rejects a promise that nobody   *)
(* handles, and Node ends the process.  Everything in memory is lost.      *)
SweepRejects(c) ==
  /\ c \in running
  /\ cFaults < CFaults /\ cFaults' = cFaults + 1
  /\ running' = {} /\ lister' = NoTick /\ elapsed' = [k \in Conn |-> MaxCadence]
  /\ admin' = [q \in Admin |-> Rested]
  /\ delivery' = [d \in Delivery |-> IF delivery[d].at \in {"arrived", "read"} THEN Unsent
                                     ELSE delivery[d]]
  /\ UNCHANGED <<connection, raced, generated, asks>>

RequestOfAdmin ==
  \E c \in Conn, q \in Admin, active \in BOOLEAN, cadence \in {0, MaxCadence} :
    \/ Inherited(c) \/ CreateConnection(c, active, cadence) \/ RemoveConnection(c)
    \/ \E kind \in {"update", "look", "rotate"} : FindById(q, c, kind)
    \/ \E given \in BOOLEAN : UpdateSave(q, given, active, cadence)
    \/ FindAgain(q) \/ RotateSave(q)

Callback ==
  \E d \in Delivery :
    \/ \E c \in Conn, signed \in Secret : CallbackArrives(d, c, signed)
    \/ FindCallbackSecret(d) \/ Verify(d)

Supervising == TickLists \/ TickDispatches
Supervisor == Beat \/ Supervising \/ TickListFails \/ \E c \in Conn : SweepReturns(c) \/ SweepRejects(c)

ConnNext == RequestOfAdmin \/ Callback \/ Supervisor

ConnSpec == ConnInit /\ [][ConnNext]_connectionVars

-----------------------------------------------------------------------------
(* Properties.                                                             *)

(* A secret that a connection has stays until a rotation is asked for,     *)
(* whatever updates, looks and crashes overlap.  Only the first looks at a *)
(* connection without a secret may replace one another's, when they race.  *)
KeptUnlessRotated ==
  [][\A c \in Conn :
       There(c) /\ connection[c].secret \notin {0, connection'[c].secret} /\ connection'[c].life = "there" =>
         \E q \in Admin : OnSecret(q, c) /\ (admin[q].kind = "look" => q \in raced)]_connectionVars

(* A callback that is accepted was signed with a secret its connection had *)
(* at some time since it arrived: what was rotated out before, or belongs  *)
(* to a connection that is gone, "stops verifying immediately".            *)
AcceptedWereSigned ==
  \A d \in Delivery : delivery[d].at = "accepted" => delivery[d].signed \in delivery[d].since

(* A connection that stays active with a cadence is swept again and again, *)
(* through ticks that fail and through crashes.                            *)
SweptAgain == \A c \in Conn : <>[](c \in WriteCronConnections) => []<>(c \in running)

(* A secret is neither lost nor outlives its rotation.                     *)
SecretsHold == KeptUnlessRotated /\ []AcceptedWereSigned
=============================================================================
