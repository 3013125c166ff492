----------------------- MODULE SourceConnectionsProofs -----------------------
(***************************************************************************)
(* Theorems about SourceConnections: for any connections, administrators   *)
(* and callbacks, any number of requests, secrets and failures.            *)
(***************************************************************************)
EXTENDS SourceConnections, TLAPS

USE ConnectionAssumption

(* The statement of a step that leaves the secrets and callbacks alone.    *)
Aside == UNCHANGED <<connection, admin, delivery, raced, generated>>

LEMMA SupervisorAside ==
  ASSUME Supervisor
  PROVE  Aside \/ \E c \in Conn : SweepRejects(c)
BY DEF Supervisor, Supervising, Beat, TickLists, TickListFails, TickDispatches, SweepReturns, Aside

-----------------------------------------------------------------------------
(* Types.                                                                  *)

Connections == [life : {"not yet", "there", "gone"}, token : BOOLEAN, secret : Secret,
                active : BOOLEAN, cadence : Cadence]
Admins == [at : {"idle", "find again", "write"}, kind : {"none", "update", "look", "rotate"},
           conn : SUBSET Conn, token : BOOLEAN, secret : Secret]
Deliveries == [at : {"idle", "arrived", "read", "accepted", "rejected"}, conn : SUBSET Conn,
               signed : Secret, secret : Secret, since : SUBSET Secret]

Typed ==
  /\ connection \in [Conn -> Connections] /\ admin \in [Admin -> Admins]
  /\ delivery \in [Delivery -> Deliveries]
  /\ raced \subseteq Admin /\ generated \in Secret
  /\ lister \in [at : {"idle", "listed"}, due : SUBSET (Conn \X Cadence)]
  /\ elapsed \in [Conn -> Cadence] /\ running \subseteq Conn
  /\ asks \in 0..MaxAsks /\ cFaults \in 0..CFaults

LEMMA TypedIsTypeOK == Typed <=> ConnTypeOK
BY DEF Typed, ConnTypeOK, Connections, Admins, Deliveries

(* The rows and the restart values a step may write are of their types.    *)
LEMMA RowsTyped ==
  /\ \A token, active \in BOOLEAN : \A secret \in Secret, cadence \in Cadence :
       Row(token, secret, active, cadence) \in Connections
  /\ NotYet \in Connections /\ [NotYet EXCEPT !.life = "gone"] \in Connections
  /\ Rested \in Admins /\ Unsent \in Deliveries
<1>1. 0 \in Secret /\ 0 \in Cadence BY DEF Secret, Cadence
<1>2. \A token, active \in BOOLEAN : \A secret \in Secret, cadence \in Cadence :
        Row(token, secret, active, cadence) \in Connections
  BY DEF Row, Connections
<1>3. NotYet \in Connections BY <1>1 DEF NotYet, Connections
<1>4. [NotYet EXCEPT !.life = "gone"] \in Connections BY <1>1 DEF NotYet, Connections
<1>5. Rested \in Admins BY <1>1 DEF Rested, Admins
<1>6. Unsent \in Deliveries BY <1>1 DEF Unsent, Deliveries
<1> QED BY <1>2, <1>3, <1>4, <1>5, <1>6

LEMMA NumbersTyped ==
  /\ 0 \in Secret /\ 0 \in Cadence /\ MaxCadence \in Cadence
  /\ generated \in Secret /\ generated < MaxSecret => generated + 1 \in Secret
BY DEF Secret, Cadence

LEMMA AskedTyped ==
  ASSUME asks \in 0..MaxAsks, Asked
  PROVE  asks' \in 0..MaxAsks
BY DEF Asked

LEMMA RequestsTyped ==
  ASSUME Typed, RequestOfAdmin
  PROVE  Typed'
<1> USE RowsTyped, NumbersTyped DEF Typed, cronVars
<1>1. PICK c \in Conn, q \in Admin, active \in BOOLEAN, cadence \in {0, MaxCadence} :
        \/ Inherited(c) \/ CreateConnection(c, active, cadence) \/ RemoveConnection(c)
        \/ \E kind \in {"update", "look", "rotate"} : FindById(q, c, kind)
        \/ \E given \in BOOLEAN : UpdateSave(q, given, active, cadence)
        \/ FindAgain(q) \/ RotateSave(q)
  BY DEF RequestOfAdmin
<1>2. CASE Inherited(c)
  <2>1. Row(TRUE, 0, TRUE, MaxCadence) \in Connections /\ Row(FALSE, 0, FALSE, 0) \in Connections
    OBVIOUS
  <2>2. connection' \in [Conn -> Connections] BY <1>2, <2>1 DEF Inherited
  <2>3. UNCHANGED <<admin, delivery, raced, generated, cronVars, asks, cFaults>>
    BY <1>2 DEF Inherited
  <2> QED BY <2>2, <2>3
<1>3. CASE CreateConnection(c, active, cadence)
  <2>1. generated + 1 \in Secret BY <1>3 DEF CreateConnection
  <2>2. active \in BOOLEAN /\ cadence \in Cadence OBVIOUS
  <2>3. Row(TRUE, generated + 1, active, cadence) \in Connections BY <2>1, <2>2
  <2>4. connection' \in [Conn -> Connections] BY <1>3, <2>3 DEF CreateConnection
  <2>5. UNCHANGED <<admin, delivery, raced, cronVars, cFaults>> /\ asks' \in 0..MaxAsks
    BY <1>3, AskedTyped DEF CreateConnection
  <2> QED BY <1>3, <2>1, <2>4, <2>5 DEF CreateConnection
<1>4. CASE RemoveConnection(c) BY <1>4 DEF RemoveConnection, Asked
<1>5. ASSUME NEW kind \in {"update", "look", "rotate"}, FindById(q, c, kind) PROVE Typed'
  <2>1. connection[c].token \in BOOLEAN /\ connection[c].secret \in Secret BY DEF Connections
  <2>2. [at |-> IF kind = "look" THEN "find again" ELSE "write", kind |-> kind, conn |-> {c},
         token |-> connection[c].token, secret |-> connection[c].secret] \in Admins
    BY <2>1 DEF Admins
  <2>3. raced' \subseteq Admin BY <1>5 DEF FindById
  <2>4. admin' \in [Admin -> Admins] BY <1>5, <2>2 DEF FindById
  <2>5. UNCHANGED <<connection, delivery, generated, cronVars, cFaults>> /\ asks' \in 0..MaxAsks
    BY <1>5, AskedTyped DEF FindById
  <2> QED BY <2>3, <2>4, <2>5
<1>6. ASSUME NEW given \in BOOLEAN, UpdateSave(q, given, active, cadence) PROVE Typed'
  <2>1. \A k \in Conn : /\ Patched(q, k, given \/ connection[k].token, active, cadence) \in Connections
                        /\ connection[k] \in Connections
    <3> TAKE k \in Conn
    <3>1. connection[k].token \in BOOLEAN /\ connection[k].secret \in Secret BY DEF Connections
    <3>2. (given \/ connection[k].token) \in BOOLEAN BY <3>1
    <3> QED BY <3>1, <3>2 DEF Patched
  <2>2. connection' \in [Conn -> Connections] BY <1>6, <2>1 DEF UpdateSave
  <2> QED BY <1>6, <2>2 DEF UpdateSave
<1>7. CASE FindAgain(q)
  <2>1. [admin[q] EXCEPT !.at = "write"] \in Admins BY DEF Admins
  <2> QED BY <1>7, <2>1 DEF FindAgain
<1>8. CASE RotateSave(q)
  <2>1. generated + 1 \in Secret BY <1>8 DEF RotateSave
  <2>2. \A k \in Conn : [connection[k] EXCEPT !.secret = generated + 1] \in Connections
    BY <2>1 DEF Connections
  <2>3. \A d \in Delivery :
          [delivery[d] EXCEPT !.since = delivery[d].since \cup {generated + 1}] \in Deliveries
    BY <2>1 DEF Deliveries
  <2>4. connection' \in [Conn -> Connections] BY <1>8, <2>2 DEF RotateSave
  <2>5. delivery' \in [Delivery -> Deliveries] BY <1>8, <2>3 DEF RotateSave
  <2> QED BY <1>8, <2>1, <2>4, <2>5 DEF RotateSave
<1> QED BY <1>1, <1>2, <1>3, <1>4, <1>5, <1>6, <1>7, <1>8

(* What a callback is after each of its steps. *)
LEMMA CallbackSteps ==
  ASSUME Typed, Callback
  PROVE  /\ UNCHANGED <<connection, admin, raced, generated, cronVars, cFaults>>
         /\ asks' \in 0..MaxAsks
         /\ \E d \in Delivery :
              /\ delivery'[d] \in Deliveries
              /\ delivery' = [delivery EXCEPT ![d] = delivery'[d]]
              /\ \/ \E c \in Conn, signed \in 1..generated :
                      delivery'[d] = [at |-> "arrived", conn |-> {c}, signed |-> signed,
                                      secret |-> 0, since |-> {connection[c].secret}]
                 \/ /\ delivery[d].at = "arrived" /\ delivery'[d].at = "read"
                    /\ \E c \in delivery[d].conn : delivery'[d].secret = connection[c].secret
                    /\ delivery'[d].signed = delivery[d].signed
                    /\ delivery'[d].since = delivery[d].since
                 \/ /\ delivery[d].at = "read"
                    /\ delivery'[d].at = IF Verifies(d) THEN "accepted" ELSE "rejected"
                    /\ delivery'[d].signed = delivery[d].signed
                    /\ delivery'[d].since = delivery[d].since
<1> USE RowsTyped DEF Typed, cronVars
<1>1. PICK d \in Delivery : \/ \E c \in Conn, signed \in Secret : CallbackArrives(d, c, signed)
                            \/ FindCallbackSecret(d) \/ Verify(d)
  BY DEF Callback
<1>2. ASSUME NEW c \in Conn, NEW signed \in Secret, CallbackArrives(d, c, signed)
      PROVE  /\ delivery'[d] = [at |-> "arrived", conn |-> {c}, signed |-> signed,
                                secret |-> 0, since |-> {connection[c].secret}]
             /\ signed \in 1..generated /\ delivery'[d] \in Deliveries
             /\ delivery' = [delivery EXCEPT ![d] = delivery'[d]]
             /\ UNCHANGED <<connection, admin, raced, generated, cronVars, cFaults>>
             /\ asks' \in 0..MaxAsks
  <2>1. connection[c].secret \in Secret /\ 0 \in Secret BY NumbersTyped DEF Connections
  <2>2. [at |-> "arrived", conn |-> {c}, signed |-> signed, secret |-> 0,
         since |-> {connection[c].secret}] \in Deliveries
    BY <2>1 DEF Deliveries
  <2> QED BY <1>2, <2>2 DEF CallbackArrives, Asked
<1>3. CASE FindCallbackSecret(d)
  <2>1. PICK c \in delivery[d].conn :
          delivery' = [delivery EXCEPT ![d].at = "read", ![d].secret = connection[c].secret]
    BY <1>3 DEF FindCallbackSecret
  <2>2. c \in Conn /\ delivery[d] \in Deliveries BY DEF Deliveries
  <2>3. connection[c].secret \in Secret BY <2>2 DEF Connections
  <2> DEFINE old == delivery[d]
             s == connection[c].secret
  <2>4. delivery' = [delivery EXCEPT ![d] = [[old EXCEPT !.at = "read"] EXCEPT !.secret = s]]
    BY <2>1 DEF Deliveries
  <2> QED BY <1>3, <2>2, <2>3, <2>4 DEF FindCallbackSecret, Deliveries
<1>4. CASE Verify(d)
  <2> DEFINE place == IF Verifies(d) THEN "accepted" ELSE "rejected"
  <2>1. delivery[d] \in Deliveries /\ [delivery[d] EXCEPT !.at = place] \in Deliveries
    BY DEF Deliveries
  <2>2. delivery'[d] = [delivery[d] EXCEPT !.at = place] BY <1>4 DEF Verify
  <2>3. /\ delivery'[d].at = place /\ delivery'[d].signed = delivery[d].signed
        /\ delivery'[d].since = delivery[d].since
    BY <2>1, <2>2 DEF Deliveries
  <2> QED BY <1>4, <2>1, <2>2, <2>3 DEF Verify
<1> QED BY <1>1, <1>2, <1>3, <1>4

LEMMA SupervisorTyped ==
  ASSUME Typed, Supervisor
  PROVE  Typed'
<1> USE RowsTyped, NumbersTyped DEF Typed
<1>1. CASE Beat
  <2>1. \A c \in Conn : elapsed[c] < MaxCadence => elapsed[c] + 1 \in Cadence BY DEF Cadence
  <2>2. elapsed' \in [Conn -> Cadence] BY <1>1, <2>1 DEF Beat
  <2> QED BY <1>1, <2>2 DEF Beat
<1>2. CASE TickLists
  <2>1. \A c \in WriteCronConnections : connection[c].cadence \in Cadence
    BY DEF WriteCronConnections, Connections
  <2>2. {<<c, connection[c].cadence>> : c \in WriteCronConnections} \subseteq Conn \X Cadence
    BY <2>1 DEF WriteCronConnections
  <2>3. lister' \in [at : {"idle", "listed"}, due : SUBSET (Conn \X Cadence)]
    BY <1>2, <2>2 DEF TickLists
  <2> QED BY <1>2, <2>3 DEF TickLists
<1>3. CASE TickListFails BY <1>3 DEF TickListFails
<1>4. CASE TickDispatches
  <2>1. lister' \in [at : {"idle", "listed"}, due : SUBSET (Conn \X Cadence)]
    BY <1>4 DEF TickDispatches, NoTick
  <2>2. running' \subseteq Conn /\ elapsed' \in [Conn -> Cadence] BY <1>4 DEF TickDispatches, Begun
  <2> QED BY <1>4, <2>1, <2>2 DEF TickDispatches
<1>5. ASSUME NEW c \in Conn, SweepReturns(c) PROVE Typed' BY <1>5 DEF SweepReturns
<1>6. ASSUME NEW c \in Conn, SweepRejects(c) PROVE Typed'
  <2>1. lister' \in [at : {"idle", "listed"}, due : SUBSET (Conn \X Cadence)]
    BY <1>6 DEF SweepRejects, NoTick
  <2>2. cFaults' \in 0..CFaults BY <1>6 DEF SweepRejects
  <2>3. admin' \in [Admin -> Admins] /\ delivery' \in [Delivery -> Deliveries]
        /\ elapsed' \in [Conn -> Cadence] /\ running' = {}
    BY <1>6 DEF SweepRejects
  <2> QED BY <1>6, <2>1, <2>2, <2>3 DEF SweepRejects
<1> QED BY <1>1, <1>2, <1>3, <1>4, <1>5, <1>6 DEF Supervisor, Supervising

LEMMA CallbackTyped ==
  ASSUME Typed, Callback
  PROVE  Typed'
BY CallbackSteps DEF Typed, cronVars

LEMMA StutterTyped ==
  ASSUME Typed, UNCHANGED connectionVars
  PROVE  Typed'
BY DEF Typed, connectionVars, cronVars

(* The table of connections and everything under way on it stay in their   *)
(* types (source-connection.entity.ts).                                    *)
THEOREM ConnectionsTyped == ConnSpec => []ConnTypeOK
<1>1. ConnInit => Typed
  BY RowsTyped, NumbersTyped DEF ConnInit, Typed, NoTick
<1>2. Typed /\ [ConnNext]_connectionVars => Typed'
  BY RequestsTyped, CallbackTyped, SupervisorTyped, StutterTyped DEF ConnNext
<1>3. Typed => ConnTypeOK BY TypedIsTypeOK
<1> QED BY <1>1, <1>2, <1>3, PTL DEF ConnSpec

-----------------------------------------------------------------------------
(* Who may replace a secret.                                               *)

RestedFit == \A q \in Admin : admin[q].at = "idle" => admin[q] = Rested

ConnKnown == \A q \in Admin, c \in Conn : admin[q].conn = {c} => connection[c].life # "not yet"

(* Requests on the secret of one connection know of one another. *)
MeetingsKnown ==
  \A p, q \in Admin, c \in Conn : OnSecret(p, c) /\ OnSecret(q, c) /\ p # q => q \in raced

(* A look that met nobody is at a connection that still has no secret. *)
FirstLookFit ==
  \A q \in Admin \ raced, c \in Conn :
    OnSecret(q, c) /\ admin[q].kind = "look" /\ There(c) => connection[c].secret = 0

LooksFit == RestedFit /\ ConnKnown /\ MeetingsKnown /\ FirstLookFit

(* The steps that begin no look or rotation. *)
LEMMA LooksKept ==
  ASSUME LooksFit, raced' = raced,
         \A q \in Admin : \/ admin'[q] \in {Rested, admin[q]}
                          \/ admin'[q].at # "idle" /\ admin'[q].conn = admin[q].conn
                             /\ admin'[q].kind = admin[q].kind,
         \A c \in Conn : connection'[c].life = "not yet" => connection[c].life = "not yet",
         \A c \in Conn : There(c)' =>
           \/ There(c) /\ connection'[c].secret = connection[c].secret
           \/ \A q \in Admin \ raced : admin'[q].conn = {c} => admin'[q].kind # "look"
  PROVE  LooksFit'
<1> USE DEF LooksFit
<1>1. Rested.conn = {} /\ Rested.kind = "none" /\ Rested.at = "idle" BY DEF Rested
<1>2. \A q \in Admin : admin'[q].conn # {} => admin'[q].conn = admin[q].conn
                                              /\ admin'[q].kind = admin[q].kind
  BY <1>1
<1>3. RestedFit' BY DEF RestedFit
<1>4. ConnKnown' BY <1>2 DEF ConnKnown
<1>5. \A q \in Admin, c \in Conn : OnSecret(q, c)' => OnSecret(q, c) BY <1>2 DEF OnSecret
<1>6. MeetingsKnown' BY <1>5 DEF MeetingsKnown
<1>7. FirstLookFit'
  <2> SUFFICES ASSUME NEW q \in Admin \ raced, NEW c \in Conn,
                      OnSecret(q, c)', admin'[q].kind = "look", There(c)'
               PROVE  connection'[c].secret = 0
    BY DEF FirstLookFit
  <2>1. OnSecret(q, c) /\ admin[q].kind = "look" /\ admin'[q].conn = {c}
    BY <1>2, <1>5 DEF OnSecret
  <2> QED BY <2>1 DEF FirstLookFit
<1> QED BY <1>3, <1>4, <1>6, <1>7

(* What the statements do to the connections' lives and secrets. *)
LEMMA RowsChange ==
  ASSUME Typed, NEW c \in Conn
  PROVE  /\ Inherited(c) \/ (\E active, cadence : CreateConnection(c, active, cadence)) =>
              /\ UNCHANGED <<admin, raced>>
              /\ connection[c].life = "not yet" /\ connection'[c].life # "not yet"
              /\ \A k \in Conn \ {c} : connection'[k] = connection[k]
         /\ RemoveConnection(c) =>
              /\ UNCHANGED <<admin, raced>>
              /\ connection'[c].life = "gone"
              /\ \A k \in Conn \ {c} : connection'[k] = connection[k]
<1>1. ASSUME Inherited(c)
      PROVE  connection'[c].life # "not yet" /\ \A k \in Conn \ {c} : connection'[k] = connection[k]
  <2>1. PICK old \in {Row(TRUE, 0, TRUE, MaxCadence), Row(FALSE, 0, FALSE, 0)} :
          connection' = [connection EXCEPT ![c] = old]
    BY <1>1 DEF Inherited
  <2>2. old.life = "there" BY DEF Row
  <2> QED BY <2>1, <2>2 DEF Typed
<1>2. ASSUME NEW active, NEW cadence, CreateConnection(c, active, cadence)
      PROVE  connection'[c].life # "not yet" /\ \A k \in Conn \ {c} : connection'[k] = connection[k]
  <2> DEFINE new == Row(TRUE, generated + 1, active, cadence)
  <2>1. connection' = [connection EXCEPT ![c] = new] BY <1>2 DEF CreateConnection
  <2>2. new.life = "there" BY DEF Row
  <2> HIDE DEF new
  <2> QED BY <2>1, <2>2 DEF Typed
<1>3. ASSUME RemoveConnection(c)
      PROVE  connection'[c].life = "gone" /\ \A k \in Conn \ {c} : connection'[k] = connection[k]
  BY <1>3 DEF RemoveConnection, Typed, NotYet
<1> QED BY <1>1, <1>2, <1>3 DEF Inherited, CreateConnection, RemoveConnection

LEMMA BeginsLook ==
  ASSUME Typed, LooksFit, NEW c \in Conn, NEW q \in Admin,
         NEW kind \in {"update", "look", "rotate"}, FindById(q, c, kind)
  PROVE  LooksFit'
<1> DEFINE met == {p \in Admin : OnSecret(p, c)}
<1>1. /\ admin[q].at = "idle" /\ connection' = connection /\ There(c)
      /\ kind = "look" => connection[c].secret = 0
      /\ admin'[q].at # "idle" /\ admin'[q].kind = kind /\ admin'[q].conn = {c}
      /\ \A p \in Admin \ {q} : admin'[p] = admin[p]
  BY DEF FindById, Typed
<1>2. \A k \in Conn : ~OnSecret(q, k) BY <1>1 DEF OnSecret, LooksFit, RestedFit, Rested
<1>3. \A p \in Admin, k \in Conn : OnSecret(p, k)' =>
        (p = q /\ k = c /\ kind # "update") \/ (p # q /\ OnSecret(p, k))
  BY <1>1 DEF OnSecret
<1>4. /\ kind = "update" => raced' = raced
      /\ kind # "update" /\ met = {} => raced' = raced \ {q}
      /\ kind # "update" /\ met # {} => raced' = raced \cup met \cup {q}
  BY DEF FindById
<1>5. \A p \in Admin \ {q} : p \in raced => p \in raced' BY <1>4
<1>6. \A p \in Admin : kind # "update" /\ OnSecret(p, c) => p \in raced' /\ q \in raced'
  BY <1>4, <1>2
<1>7. RestedFit' BY <1>1 DEF LooksFit, RestedFit
<1>8. ConnKnown'
  <2>1. connection[c].life # "not yet" BY <1>1 DEF There
  <2>2. ASSUME NEW p \in Admin, NEW k \in Conn, admin'[p].conn = {k}
        PROVE  connection[k].life # "not yet"
    <3>1. CASE p = q
      <4>1. {k} = {c} BY <3>1, <1>1, <2>2
      <4>2. k = c BY <4>1
      <4> QED BY <4>2, <2>1
    <3>2. CASE p # q
      <4>1. admin[p].conn = {k} BY <3>2, <1>1, <2>2
      <4> QED BY <4>1 DEF LooksFit, ConnKnown
    <3> QED BY <3>1, <3>2
  <2> QED BY <2>2, <1>1 DEF ConnKnown
<1>9. MeetingsKnown'
  <2> SUFFICES ASSUME NEW p1 \in Admin, NEW p2 \in Admin, NEW k \in Conn,
                      OnSecret(p1, k)', OnSecret(p2, k)', p1 # p2
               PROVE  p2 \in raced'
    BY DEF MeetingsKnown
  <2>1. CASE p1 = q BY <2>1, <1>3, <1>6
  <2>2. CASE p2 = q BY <2>2, <1>3, <1>6
  <2>3. CASE p1 # q /\ p2 # q BY <2>3, <1>3, <1>5 DEF LooksFit, MeetingsKnown
  <2> QED BY <2>1, <2>2, <2>3
<1>10. FirstLookFit'
  <2> SUFFICES ASSUME NEW p \in Admin \ raced', NEW k \in Conn,
                      OnSecret(p, k)', admin'[p].kind = "look", There(k)'
               PROVE  connection'[k].secret = 0
    BY DEF FirstLookFit
  <2>1. CASE p = q BY <2>1, <1>1, <1>3
  <2>2. CASE p # q BY <2>2, <1>1, <1>3, <1>5 DEF LooksFit, FirstLookFit, There
  <2> QED BY <2>1, <2>2
<1> QED BY <1>7, <1>8, <1>9, <1>10 DEF LooksFit

LEMMA LooksInductive ==
  ASSUME Typed, LooksFit, [ConnNext]_connectionVars
  PROVE  LooksFit'
<1> USE DEF There
<1>1. ASSUME UNCHANGED <<connection, admin, raced>> PROVE LooksFit' BY <1>1, LooksKept
<1>2. ASSUME NEW c \in Conn, NEW active, NEW cadence,
             Inherited(c) \/ CreateConnection(c, active, cadence)
      PROVE  LooksFit'
  <2>1. \A q \in Admin : admin[q].conn # {c} BY <1>2, RowsChange DEF LooksFit, ConnKnown
  <2> QED BY <1>2, <2>1, RowsChange, LooksKept
<1>3. ASSUME NEW c \in Conn, RemoveConnection(c) PROVE LooksFit' BY <1>3, RowsChange, LooksKept
<1>4. ASSUME NEW q \in Admin, FindAgain(q) PROVE LooksFit'
  <2>1. UNCHANGED <<connection, raced>> /\ \A p \in Admin \ {q} : admin'[p] = admin[p]
    BY <1>4 DEF FindAgain, Typed
  <2>2. \/ admin'[q] = Rested
        \/ admin'[q].at = "write" /\ admin'[q].conn = admin[q].conn /\ admin'[q].kind = admin[q].kind
    BY <1>4 DEF FindAgain, Typed, Admins
  <2> QED BY <2>1, <2>2, LooksKept
<1>5. ASSUME NEW q \in Admin, NEW given, NEW active, NEW cadence,
             UpdateSave(q, given, active, cadence)
      PROVE  LooksFit'
  <2>1. raced' = raced /\ admin'[q] = Rested /\ \A p \in Admin \ {q} : admin'[p] = admin[p]
    BY <1>5 DEF UpdateSave, Typed
  <2>2. \A c \in Conn : connection'[c].secret = connection[c].secret
    BY <1>5 DEF UpdateSave, Patched, Row
  <2>3. \A c \in Conn : connection'[c].life = connection[c].life
    BY <1>5 DEF UpdateSave, Patched, Row
  <2> QED BY <2>1, <2>2, <2>3, LooksKept
<1>6. ASSUME NEW q \in Admin, RotateSave(q) PROVE LooksFit'
  <2>1. raced' = raced /\ admin'[q] = Rested /\ \A p \in Admin \ {q} : admin'[p] = admin[p]
    BY <1>6 DEF RotateSave, Typed
  <2>2. \A c \in Conn : connection'[c].life = connection[c].life
                        /\ (admin[q].conn # {c} => connection'[c] = connection[c])
    BY <1>6 DEF RotateSave, Typed, Connections
  <2>3. \A c \in Conn : admin[q].conn = {c} =>
          \A p \in Admin \ raced : admin'[p].conn = {c} => admin'[p].kind # "look"
    <3> SUFFICES ASSUME NEW c \in Conn, admin[q].conn = {c}, NEW p \in Admin \ raced,
                        admin'[p].conn = {c}, admin'[p].kind = "look"
                 PROVE  FALSE
      OBVIOUS
    <3>1. p # q /\ admin'[p] = admin[p] BY <2>1 DEF Rested
    <3>2. OnSecret(p, c) /\ OnSecret(q, c) BY <3>1, <1>6 DEF OnSecret, RotateSave
    <3> QED BY <3>1, <3>2 DEF LooksFit, MeetingsKnown
  <2> QED BY <2>1, <2>2, <2>3, LooksKept
<1>7. ASSUME NEW c \in Conn, SweepRejects(c) PROVE LooksFit'
  <2>1. UNCHANGED <<connection, raced>> /\ \A q \in Admin : admin'[q] = Rested
    BY <1>7 DEF SweepRejects
  <2> QED BY <2>1, LooksKept
<1>8. CASE RequestOfAdmin
  BY <1>8, <1>2, <1>3, <1>4, <1>5, <1>6, BeginsLook DEF RequestOfAdmin
<1>9. CASE Callback BY <1>9, <1>1, CallbackSteps
<1>10. CASE Supervisor BY <1>10, <1>1, <1>7, SupervisorAside DEF Aside
<1>11. CASE UNCHANGED connectionVars BY <1>11, <1>1 DEF connectionVars
<1> QED BY <1>8, <1>9, <1>10, <1>11 DEF ConnNext

LEMMA LooksFitHolds == ConnSpec => []LooksFit
<1>1. ConnInit => LooksFit
  <2> SUFFICES ASSUME ConnInit PROVE LooksFit OBVIOUS
  <2>1. \A q \in Admin : admin[q] = Rested BY DEF ConnInit
  <2>2. Rested.conn = {} BY DEF Rested
  <2>3. \A q \in Admin, c \in Conn : admin[q].conn # {c} BY <2>1, <2>2
  <2>4. \A q \in Admin, c \in Conn : ~OnSecret(q, c) BY <2>3 DEF OnSecret
  <2> QED BY <2>1, <2>3, <2>4 DEF LooksFit, RestedFit, ConnKnown, MeetingsKnown, FirstLookFit
<1>2. Typed /\ LooksFit /\ [ConnNext]_connectionVars => LooksFit' BY LooksInductive
<1> QED BY <1>1, <1>2, ConnectionsTyped, TypedIsTypeOK, PTL DEF ConnSpec

(* A step that takes a secret from a connection is the end of a look or a  *)
(* rotation.                                                               *)
LEMMA SecretTakenByRotation ==
  ASSUME Typed, LooksFit, [ConnNext]_connectionVars, NEW c \in Conn, There(c),
         connection[c].secret \notin {0, connection'[c].secret}, connection'[c].life = "there"
  PROVE  \E q \in Admin : OnSecret(q, c) /\ (admin[q].kind = "look" => q \in raced)
<1>1. connection' # connection OBVIOUS
<1>2. ASSUME NEW k \in Conn, NEW active, NEW cadence,
             Inherited(k) \/ CreateConnection(k, active, cadence) \/ RemoveConnection(k)
      PROVE  FALSE
  BY <1>2, RowsChange DEF There
<1>3. ASSUME NEW q \in Admin, NEW given, NEW active, NEW cadence,
             UpdateSave(q, given, active, cadence)
      PROVE  FALSE
  BY <1>3 DEF UpdateSave, Patched, Row
<1>4. ASSUME NEW q \in Admin, RotateSave(q)
      PROVE  OnSecret(q, c) /\ (admin[q].kind = "look" => q \in raced)
  <2>1. admin[q].conn = {c} BY <1>4 DEF RotateSave
  <2>2. OnSecret(q, c) BY <2>1, <1>4 DEF RotateSave, OnSecret
  <2> QED BY <2>2 DEF LooksFit, FirstLookFit
<1>5. ~Callback BY <1>1, CallbackSteps
<1>6. ~Supervisor BY <1>1, SupervisorAside DEF Aside, SweepRejects
<1>7. RequestOfAdmin BY <1>1, <1>5, <1>6 DEF ConnNext, connectionVars
<1> QED BY <1>1, <1>2, <1>3, <1>4, <1>7 DEF RequestOfAdmin, FindById, FindAgain

-----------------------------------------------------------------------------
(* What is accepted.                                                       *)

(* Until a callback is checked, the secret it will be checked with is one  *)
(* its connection had since it arrived, or none, or younger than its       *)
(* signature.                                                              *)
InTime(d, secret) == secret \in delivery[d].since \cup {0} \/ secret > delivery[d].signed

CallbackFit(d) ==
  /\ delivery[d].at \in {"arrived", "read"} => delivery[d].signed <= generated
  /\ delivery[d].at = "arrived" =>
       \A c \in delivery[d].conn : InTime(d, connection[c].secret)
  /\ delivery[d].at = "read" => InTime(d, delivery[d].secret)
  /\ delivery[d].at = "accepted" => delivery[d].signed \in delivery[d].since

CallbacksFit == \A d \in Delivery : CallbackFit(d)

LEMMA NumbersOfCallbacks ==
  ASSUME Typed, NEW d \in Delivery
  PROVE  /\ generated \in Nat /\ delivery[d].signed \in Nat /\ delivery[d].secret \in Nat
         /\ delivery[d].conn \subseteq Conn /\ delivery[d] \in Deliveries
         /\ \A c \in Conn : connection[c].secret \in Nat
<1>1. Secret \subseteq Nat BY DEF Secret
<1>2. delivery[d] \in Deliveries /\ generated \in Nat BY <1>1 DEF Typed
<1>3. /\ delivery[d].signed \in Nat /\ delivery[d].secret \in Nat
      /\ delivery[d].conn \subseteq Conn
  BY <1>1, <1>2 DEF Deliveries
<1>4. ASSUME NEW c \in Conn PROVE connection[c].secret \in Nat
  <2>1. connection[c] \in Connections BY DEF Typed
  <2> QED BY <1>1, <2>1 DEF Connections
<1> QED BY <1>2, <1>3, <1>4

(* A callback that stands still, while its connection keeps its secret,    *)
(* loses it or gets a new one, which is noted for the callback unless the  *)
(* connection is new.                                                      *)
LEMMA CallbackKept ==
  ASSUME Typed, NEW d \in Delivery, CallbackFit(d), generated' \in Nat, generated' >= generated,
         /\ delivery'[d].at = delivery[d].at /\ delivery'[d].conn = delivery[d].conn
         /\ delivery'[d].signed = delivery[d].signed /\ delivery'[d].secret = delivery[d].secret
         /\ delivery[d].since \subseteq delivery'[d].since,
         delivery[d].at = "arrived" => \A c \in delivery[d].conn :
           \/ connection'[c].secret \in {connection[c].secret, 0} \cup delivery'[d].since
           \/ connection'[c].secret = generated + 1
  PROVE  CallbackFit(d)'
BY NumbersOfCallbacks DEF CallbackFit, InTime

(* What a step of an administrator does to the secrets and the callbacks.  *)
LEMMA RequestsAndSecrets ==
  ASSUME Typed, RequestOfAdmin
  PROVE  \/ delivery' = delivery /\ generated' \in {generated, generated + 1}
            /\ \A k \in Conn : connection'[k].secret \in {connection[k].secret, 0, generated + 1}
         \/ \E q \in Admin : RotateSave(q)
<1>1. ASSUME NEW c \in Conn, Inherited(c)
      PROVE  \A k \in Conn : connection'[k].secret \in {connection[k].secret, 0}
  <2>1. PICK old \in {Row(TRUE, 0, TRUE, MaxCadence), Row(FALSE, 0, FALSE, 0)} :
          connection' = [connection EXCEPT ![c] = old]
    BY <1>1 DEF Inherited
  <2>2. old.secret = 0 BY DEF Row
  <2> QED BY <2>1, <2>2 DEF Typed
<1>2. ASSUME NEW c \in Conn, NEW active, NEW cadence, CreateConnection(c, active, cadence)
      PROVE  \A k \in Conn : connection'[k].secret \in {connection[k].secret, generated + 1}
  <2> DEFINE new == Row(TRUE, generated + 1, active, cadence)
  <2>1. connection' = [connection EXCEPT ![c] = new] BY <1>2 DEF CreateConnection
  <2>2. new.secret = generated + 1 BY DEF Row
  <2> HIDE DEF new
  <2> QED BY <2>1, <2>2 DEF Typed
<1>3. ASSUME NEW c \in Conn, RemoveConnection(c)
      PROVE  \A k \in Conn : connection'[k].secret \in {connection[k].secret, 0}
  BY <1>3 DEF RemoveConnection, Typed, NotYet
<1>4. ASSUME NEW q \in Admin, NEW given, NEW active, NEW cadence,
             UpdateSave(q, given, active, cadence)
      PROVE  \A k \in Conn : connection'[k].secret = connection[k].secret
  BY <1>4 DEF UpdateSave, Patched, Row
<1>5. ASSUME NEW c \in Conn, NEW active, NEW cadence,
             Inherited(c) \/ CreateConnection(c, active, cadence) \/ RemoveConnection(c)
      PROVE  delivery' = delivery /\ generated' \in {generated, generated + 1}
  BY <1>5 DEF Inherited, CreateConnection, RemoveConnection
<1>6. ASSUME NEW q \in Admin, NEW given, NEW active, NEW cadence,
             UpdateSave(q, given, active, cadence) \/ FindAgain(q)
               \/ \E c, kind : FindById(q, c, kind)
      PROVE  delivery' = delivery /\ generated' = generated
  BY <1>6 DEF UpdateSave, FindAgain, FindById
<1>7. ASSUME NEW q \in Admin, FindAgain(q) \/ \E c, kind : FindById(q, c, kind)
      PROVE  connection' = connection
  BY <1>7 DEF FindAgain, FindById
<1> QED BY <1>1, <1>2, <1>3, <1>4, <1>5, <1>6, <1>7 DEF RequestOfAdmin

LEMMA CallbacksInductive ==
  ASSUME Typed, Typed', CallbacksFit, [ConnNext]_connectionVars
  PROVE  CallbacksFit'
<1> USE DEF CallbacksFit
<1>0. generated \in Nat /\ generated' \in Nat BY DEF Typed, Secret
<1>1. ASSUME UNCHANGED <<connection, generated>>, NEW d \in Delivery, delivery'[d] = delivery[d]
      PROVE  CallbackFit(d)'
  BY <1>0, <1>1, CallbackKept
<1>2. CASE RequestOfAdmin
  <2>1. CASE delivery' = delivery /\ generated' \in {generated, generated + 1}
             /\ \A k \in Conn : connection'[k].secret \in {connection[k].secret, 0, generated + 1}
    <3>1. generated' >= generated BY <1>0, <2>1
    <3> QED BY <1>0, <2>1, <3>1, NumbersOfCallbacks, CallbackKept
  <2>2. ASSUME NEW q \in Admin, RotateSave(q), NEW d \in Delivery PROVE CallbackFit(d)'
    <3>1. generated' >= generated BY <1>0, <2>2 DEF RotateSave
    <3>2. delivery[d] \in Deliveries BY NumbersOfCallbacks
    <3>3. delivery'[d] = IF /\ delivery[d].at \in {"arrived", "read"}
                            /\ \E c \in delivery[d].conn : admin[q].conn = {c} /\ There(c)
                         THEN [delivery[d] EXCEPT !.since = delivery[d].since \cup {generated + 1}]
                         ELSE delivery[d]
      BY <2>2 DEF RotateSave
    <3>4. /\ delivery'[d].at = delivery[d].at /\ delivery'[d].conn = delivery[d].conn
          /\ delivery'[d].signed = delivery[d].signed /\ delivery'[d].secret = delivery[d].secret
          /\ delivery[d].since \subseteq delivery'[d].since
      BY <3>2, <3>3 DEF Deliveries
    <3>5. ASSUME delivery[d].at = "arrived", NEW c \in delivery[d].conn
          PROVE  connection'[c].secret \in {connection[c].secret, 0} \cup delivery'[d].since
      <4>0. c \in Conn BY NumbersOfCallbacks
      <4>1. CASE admin[q].conn = {c} /\ There(c)
        <5>1. generated + 1 \in delivery'[d].since BY <3>2, <3>3, <3>5, <4>1 DEF Deliveries
        <5>2. connection'[c].secret = generated + 1
          <6>1. connection'[c] = [connection[c] EXCEPT !.secret = generated + 1]
            BY <4>0, <4>1, <2>2 DEF RotateSave
          <6>2. connection[c] \in Connections BY <4>0 DEF Typed
          <6> QED BY <6>1, <6>2 DEF Connections
        <5> QED BY <5>1, <5>2
      <4>2. CASE ~(admin[q].conn = {c} /\ There(c))
        <5>1. connection'[c] = connection[c] BY <4>0, <4>2, <2>2 DEF RotateSave
        <5> QED BY <5>1
      <4> QED BY <4>1, <4>2
    <3> QED BY <1>0, <3>1, <3>4, <3>5, CallbackKept
  <2> QED BY <1>2, <2>1, <2>2, RequestsAndSecrets
<1>3. CASE Callback
  <2>1. UNCHANGED <<connection, generated>> BY <1>3, CallbackSteps
  <2>2. PICK d \in Delivery :
          /\ delivery' = [delivery EXCEPT ![d] = delivery'[d]]
          /\ \/ \E c \in Conn, signed \in 1..generated :
                  delivery'[d] = [at |-> "arrived", conn |-> {c}, signed |-> signed,
                                  secret |-> 0, since |-> {connection[c].secret}]
             \/ /\ delivery[d].at = "arrived" /\ delivery'[d].at = "read"
                /\ \E c \in delivery[d].conn : delivery'[d].secret = connection[c].secret
                /\ delivery'[d].signed = delivery[d].signed
                /\ delivery'[d].since = delivery[d].since
             \/ /\ delivery[d].at = "read"
                /\ delivery'[d].at = IF Verifies(d) THEN "accepted" ELSE "rejected"
                /\ delivery'[d].signed = delivery[d].signed
                /\ delivery'[d].since = delivery[d].since
    BY <1>3, CallbackSteps
  <2>3. \A k \in Delivery \ {d} : CallbackFit(k)' BY <1>1, <2>1, <2>2 DEF Typed
  <2>4. CallbackFit(d) OBVIOUS
  <2>5. ASSUME NEW c \in Conn, NEW signed \in 1..generated,
               delivery'[d] = [at |-> "arrived", conn |-> {c}, signed |-> signed,
                               secret |-> 0, since |-> {connection[c].secret}]
        PROVE  CallbackFit(d)'
    BY <1>0, <2>1, <2>5 DEF CallbackFit, InTime
  <2>6. ASSUME delivery[d].at = "arrived", delivery'[d].at = "read",
               \E c \in delivery[d].conn : delivery'[d].secret = connection[c].secret,
               delivery'[d].signed = delivery[d].signed, delivery'[d].since = delivery[d].since
        PROVE  CallbackFit(d)'
    BY <2>1, <2>4, <2>6 DEF CallbackFit, InTime
  <2>7. ASSUME delivery[d].at = "read",
               delivery'[d].at = IF Verifies(d) THEN "accepted" ELSE "rejected",
               delivery'[d].signed = delivery[d].signed, delivery'[d].since = delivery[d].since
        PROVE  CallbackFit(d)'
    BY <2>1, <2>4, <2>7, NumbersOfCallbacks DEF CallbackFit, InTime, Verifies
  <2>8. CallbackFit(d)' BY <2>2, <2>5, <2>6, <2>7
  <2> QED BY <2>3, <2>8
<1>4. CASE Supervisor
  <2>1. UNCHANGED <<connection, generated>> BY <1>4, SupervisorAside DEF Aside, SweepRejects
  <2>2. \A d \in Delivery : delivery'[d] \in {delivery[d], Unsent}
    BY <1>4, SupervisorAside DEF Aside, SweepRejects
  <2>3. \A d \in Delivery : delivery'[d] = Unsent => CallbackFit(d)' BY DEF CallbackFit, Unsent
  <2> QED BY <1>1, <2>1, <2>2, <2>3
<1>5. CASE UNCHANGED connectionVars BY <1>5, <1>1 DEF connectionVars
<1> QED BY <1>2, <1>3, <1>4, <1>5 DEF ConnNext

(* A secret that a connection has stays until a rotation is asked for, but *)
(* for first looks that raced one another; and a callback that is accepted *)
(* was signed with a secret its connection had since the callback arrived  *)
(* (rotateCallbackSecret, getCallbackInfo, update, receive).               *)
THEOREM SecretsAreHeld == ConnSpec => SecretsHold
<1>1. Typed /\ LooksFit /\ [ConnNext]_connectionVars =>
        [\A c \in Conn :
           There(c) /\ connection[c].secret \notin {0, connection'[c].secret}
             /\ connection'[c].life = "there" =>
             \E q \in Admin : OnSecret(q, c) /\ (admin[q].kind = "look" => q \in raced)]_connectionVars
  BY SecretTakenByRotation
<1>2. ConnInit => CallbacksFit BY DEF ConnInit, CallbacksFit, CallbackFit, Unsent
<1>3. Typed /\ Typed' /\ CallbacksFit /\ [ConnNext]_connectionVars => CallbacksFit'
  BY CallbacksInductive
<1>4. CallbacksFit => AcceptedWereSigned BY DEF CallbacksFit, CallbackFit, AcceptedWereSigned
<1> QED BY <1>1, <1>2, <1>3, <1>4, ConnectionsTyped, TypedIsTypeOK, LooksFitHolds, PTL
     DEF ConnSpec, SecretsHold, KeptUnlessRotated

=============================================================================
