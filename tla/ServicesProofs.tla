--------------------------- MODULE ServicesProofs ---------------------------
(***************************************************************************)
(* Theorems about the components that MCServices checks together:          *)
(* TemplateIndexes for any indexes, requests and failures, DeleteLedger    *)
(* for any rows, deletes, resets and outages, SweepPlan for any table and  *)
(* limits, Payload for any columns and rows, ProvisionedToken for any      *)
(* number of tokens, failures and restarts, RowQueries for any rows, pages *)
(* and caps.                                                               *)
(***************************************************************************)
EXTENDS MCServices, RowQueriesProofs, SourceConnectionsProofs, BackupProofs

-----------------------------------------------------------------------------
(* TemplateIndexes: types.                                                 *)

RequestAt == {"idle", "read", "ensure", "checked", "building", "drop"}
Requests == [at : RequestAt, kind : {"none", "create", "update", "remove"},
             old : SUBSET Idx, new : SUBSET Idx, todo : SUBSET Idx, name : SUBSET Idx]
IndexStates == [Idx -> {"none", "building", "invalid", "valid"}]

(* What a request is about, wherever it stands. *)
Shaped(r) ==
  /\ r.kind = "remove" => r.at \in {"idle", "drop"} /\ r.new = {}
  /\ r.at \in {"ensure", "checked", "building"} => r.todo \subseteq r.new
  /\ r.at \in {"checked", "building"} => r.name \subseteq r.todo
  /\ r.at = "drop" => r.todo \cap r.new = {}

IndexesTyped ==
  /\ template \in [saved : BOOLEAN, needs : SUBSET Idx]
  /\ index \in IndexStates
  /\ clashing \in BOOLEAN
  /\ request \in [Request -> {r \in Requests : Shaped(r)}]
  /\ answer \in [Request -> {"none", "ok", "failed"}]
  /\ crossed \subseteq Request
  /\ stray \in BOOLEAN
  /\ calls \in 0..MaxCalls /\ tFaults \in 0..TFaults
  /\ \A i, j \in Idx : index[i] = "building" /\ index[j] = "building" => i = j
  /\ ~template.saved => template.needs = {}

(* A step of request q: its record is r afterwards, the others stay.       *)
MovesTo(q, r) == request' = [request EXCEPT ![q] = r]

LEMMA IdleRequest == NoRequest \in Requests /\ Shaped(NoRequest)
BY DEF NoRequest, Requests, RequestAt, Shaped

(* A request that is accepted has a record of its type.                    *)
Accepted(q, kind, new) ==
  \E r \in Requests :
    /\ MovesTo(q, r) /\ Shaped(r) /\ r.kind = kind /\ r.new = new /\ r.old = template.needs
    /\ r.at = IF kind = "remove" THEN "drop" ELSE "read"
    /\ r.todo = IF kind = "remove" THEN template.needs ELSE {}

LEMMA AcceptMoves ==
  ASSUME IndexesTyped, NEW q \in Request,
         NEW kind \in {"create", "update", "remove"}, NEW new \in SUBSET Idx,
         kind = "remove" => new = {}, Accept(q, kind, new)
  PROVE  Accepted(q, kind, new)
<1> DEFINE r == [NoRequest EXCEPT !.at = IF kind = "remove" THEN "drop" ELSE "read", !.kind = kind,
                         !.old = template.needs, !.new = new,
                         !.todo = IF kind = "remove" THEN template.needs ELSE {}]
<1>1. MovesTo(q, r) BY DEF Accept, MovesTo
<1>2. /\ r.kind = kind /\ r.new = new /\ r.old = template.needs
      /\ r.at = IF kind = "remove" THEN "drop" ELSE "read"
      /\ r.todo = IF kind = "remove" THEN template.needs ELSE {}
      /\ r.name = {}
  BY DEF NoRequest
<1>3. r \in Requests
  <2>1. template.needs \in SUBSET Idx BY DEF IndexesTyped
  <2>2. CASE kind = "remove" BY <2>1, <2>2 DEF NoRequest, Requests, RequestAt
  <2>3. CASE kind # "remove" BY <2>1, <2>3 DEF NoRequest, Requests, RequestAt
  <2> QED BY <2>2, <2>3
<1> HIDE DEF r
<1>4. Shaped(r) BY <1>2 DEF Shaped
<1> QED BY <1>1, <1>2, <1>3, <1>4 DEF Accepted

(* Request q with another place, work list and index at hand.              *)
With(q, at, todo, name) == [request[q] EXCEPT !.at = at, !.todo = todo, !.name = name]

LEMMA WithTyped ==
  ASSUME IndexesTyped, NEW q \in Request,
         NEW at \in RequestAt, NEW todo \in SUBSET Idx, NEW name \in SUBSET Idx
  PROVE  /\ With(q, at, todo, name) \in Requests
         /\ With(q, at, todo, name).at = at /\ With(q, at, todo, name).todo = todo
         /\ With(q, at, todo, name).name = name
         /\ With(q, at, todo, name).kind = request[q].kind
         /\ With(q, at, todo, name).old = request[q].old
         /\ With(q, at, todo, name).new = request[q].new
<1>1. request[q] \in Requests BY DEF IndexesTyped
<1> QED BY <1>1 DEF With, Requests

LEMMA StepsMove ==
  ASSUME IndexesTyped, NEW q \in Request, NEW i
  PROVE  /\ Save(q) /\ request'[q].at # "idle" => MovesTo(q, With(q, "ensure", request[q].new, request[q].name))
         /\ Check(q, i) => MovesTo(q, With(q, "checked", request[q].todo, {i}))
         /\ Create(q, i) /\ index[i] # "none" => MovesTo(q, With(q, "ensure", request[q].todo \ {i}, {}))
         /\ Create(q, i) /\ index[i] = "none" => MovesTo(q, With(q, "building", request[q].todo, {i}))
         /\ Built(q, i) => MovesTo(q, With(q, "ensure", request[q].todo \ {i}, {}))
         /\ Ensured(q) => MovesTo(q, With(q, "drop", Obsolete(q), request[q].name))
         /\ Drop(q, i) => MovesTo(q, With(q, "drop", request[q].todo \ {i}, request[q].name))
<1>1. request[q] \in Requests /\ request \in [Request -> Requests] BY DEF IndexesTyped
<1> USE <1>1 DEF MovesTo, With, Requests
<1>2. ASSUME Save(q), request'[q].at # "idle"
      PROVE  MovesTo(q, With(q, "ensure", request[q].new, request[q].name))
  <2>1. CASE request[q].kind = "create" /\ template.saved
    <3>1. request' = [request EXCEPT ![q] = NoRequest] BY <1>2, <2>1 DEF Save, End
    <3>2. request'[q].at = "idle" BY <3>1 DEF NoRequest
    <3> QED BY <1>2, <3>2
  <2>2. CASE ~(request[q].kind = "create" /\ template.saved)
    <3>1. request' = [request EXCEPT ![q].at = "ensure", ![q].todo = request[q].new]
      BY <1>2, <2>2 DEF Save
    <3> QED BY <3>1
  <2> QED BY <2>1, <2>2
<1>3. ASSUME Check(q, i) PROVE MovesTo(q, With(q, "checked", request[q].todo, {i}))
  BY <1>3 DEF Check
<1>4. ASSUME Create(q, i), index[i] # "none"
      PROVE  MovesTo(q, With(q, "ensure", request[q].todo \ {i}, {}))
  BY <1>4 DEF Create
<1>5. ASSUME Create(q, i), index[i] = "none"
      PROVE  MovesTo(q, With(q, "building", request[q].todo, {i}))
  BY <1>5 DEF Create
<1>6. ASSUME Built(q, i) PROVE MovesTo(q, With(q, "ensure", request[q].todo \ {i}, {}))
  BY <1>6 DEF Built
<1>7. ASSUME Ensured(q) PROVE MovesTo(q, With(q, "drop", Obsolete(q), request[q].name))
  BY <1>7 DEF Ensured
<1>8. ASSUME Drop(q, i) PROVE MovesTo(q, With(q, "drop", request[q].todo \ {i}, request[q].name))
  BY <1>8 DEF Drop
<1> QED BY <1>2, <1>3, <1>4, <1>5, <1>6, <1>7, <1>8

LEMMA MoveTyped ==
  ASSUME IndexesTyped, NEW q \in Request, NEW r \in Requests, Shaped(r), MovesTo(q, r)
  PROVE  /\ request' \in [Request -> {x \in Requests : Shaped(x)}]
         /\ request'[q] = r /\ \A p \in Request \ {q} : request'[p] = request[p]
BY DEF IndexesTyped, MovesTo

(* The actions of request q, in one place: where it stood, where it stands *)
(* and what else they do.                                                  *)
Steps(q) ==
  \/ Save(q) \/ Ensured(q) \/ Done(q)
  \/ \E i \in Idx : Check(q, i) \/ Create(q, i) \/ Built(q, i) \/ NotBuilt(q, i) \/ Drop(q, i)
Ends(q) == MovesTo(q, NoRequest)

LEMMA StepsTyped ==
  ASSUME IndexesTyped, NEW q \in Request, Steps(q)
  PROVE  request[q].at # "idle" /\ \E r \in Requests : Shaped(r) /\ MovesTo(q, r)
<1>1. request[q] \in Requests /\ Shaped(request[q]) BY DEF IndexesTyped
<1>2. request[q].old \subseteq Idx /\ request[q].new \subseteq Idx /\ request[q].todo \subseteq Idx
      /\ request[q].name \subseteq Idx
  BY <1>1 DEF Requests
<1>3. CASE Save(q)
  <2>1. request[q].at = "read" BY <1>3 DEF Save
  <2>2. CASE request[q].kind = "create" /\ template.saved
    BY <1>3, <2>1, <2>2, IdleRequest DEF Save, End, MovesTo
  <2>3. CASE ~(request[q].kind = "create" /\ template.saved)
    <3> DEFINE r == With(q, "ensure", request[q].new, request[q].name)
    <3>1. r \in Requests /\ r.at = "ensure" /\ r.todo = r.new /\ r.kind = request[q].kind
      BY <1>2, WithTyped DEF RequestAt
    <3>2. MovesTo(q, r)
      <4>1. request' = [request EXCEPT ![q].at = "ensure", ![q].todo = request[q].new]
        BY <1>3, <2>3 DEF Save
      <4>2. request'[q].at # "idle" BY <4>1, <1>1 DEF IndexesTyped, Requests
      <4> QED BY <1>3, <4>2, StepsMove
    <3> HIDE DEF r
    <3>3. Shaped(r) BY <1>1, <2>1, <3>1 DEF Shaped
    <3> QED BY <2>1, <3>1, <3>2, <3>3
  <2> QED BY <2>2, <2>3
<1>4. CASE Ensured(q)
  <2> DEFINE r == With(q, "drop", Obsolete(q), request[q].name)
  <2>1. Obsolete(q) \subseteq Idx /\ request[q].at = "ensure" /\ Obsolete(q) \cap request[q].new = {}
    BY <1>2, <1>4 DEF Obsolete, Ensured
  <2>2. /\ r \in Requests /\ r.at = "drop" /\ r.todo = Obsolete(q)
        /\ r.new = request[q].new /\ r.kind = request[q].kind
    BY <1>2, <2>1, WithTyped DEF RequestAt
  <2>3. MovesTo(q, r) BY <1>4, StepsMove
  <2> HIDE DEF r
  <2>4. Shaped(r) BY <1>1, <2>1, <2>2 DEF Shaped
  <2> QED BY <2>1, <2>2, <2>3, <2>4
<1>5. CASE Done(q)
  BY <1>5, IdleRequest DEF Done, End, MovesTo
<1>6. ASSUME NEW i \in Idx, Check(q, i) PROVE request[q].at # "idle" /\ \E r \in Requests : Shaped(r) /\ MovesTo(q, r)
  <2> DEFINE r == With(q, "checked", request[q].todo, {i})
  <2>1. request[q].at = "ensure" /\ i \in request[q].todo BY <1>6 DEF Check
  <2>2. /\ r \in Requests /\ r.at = "checked" /\ r.todo = request[q].todo /\ r.name = {i}
        /\ r.new = request[q].new /\ r.kind = request[q].kind
    BY <1>2, WithTyped DEF RequestAt
  <2>3. MovesTo(q, r) BY <1>6, StepsMove
  <2> HIDE DEF r
  <2>4. Shaped(r) BY <1>1, <2>1, <2>2 DEF Shaped
  <2> QED BY <2>1, <2>2, <2>3, <2>4
<1>7. ASSUME NEW i \in Idx, Create(q, i), index[i] = "none"
      PROVE  request[q].at # "idle" /\ \E r \in Requests : Shaped(r) /\ MovesTo(q, r)
  <2> DEFINE r == With(q, "building", request[q].todo, {i})
  <2>1. request[q].at = "checked" /\ request[q].name = {i} BY <1>7 DEF Create
  <2>2. /\ r \in Requests /\ r.at = "building" /\ r.todo = request[q].todo /\ r.name = {i}
        /\ r.new = request[q].new /\ r.kind = request[q].kind
    BY <1>2, WithTyped DEF RequestAt
  <2>3. MovesTo(q, r) BY <1>7, StepsMove
  <2> HIDE DEF r
  <2>4. Shaped(r) BY <1>1, <2>1, <2>2 DEF Shaped
  <2> QED BY <2>1, <2>2, <2>3, <2>4
<1>8. ASSUME NEW i \in Idx, (Create(q, i) /\ index[i] # "none") \/ Built(q, i)
      PROVE  request[q].at # "idle" /\ \E r \in Requests : Shaped(r) /\ MovesTo(q, r)
  <2> DEFINE r == With(q, "ensure", request[q].todo \ {i}, {})
  <2>1. request[q].at \in {"checked", "building"} BY <1>8 DEF Create, Built
  <2>2. /\ r \in Requests /\ r.at = "ensure" /\ r.todo = request[q].todo \ {i}
        /\ r.new = request[q].new /\ r.kind = request[q].kind
    BY <1>2, WithTyped DEF RequestAt
  <2>3. MovesTo(q, r) BY <1>8, StepsMove
  <2> HIDE DEF r
  <2>4. Shaped(r) BY <1>1, <2>1, <2>2 DEF Shaped
  <2> QED BY <2>1, <2>2, <2>3, <2>4
<1>9. ASSUME NEW i \in Idx, NotBuilt(q, i)
      PROVE  request[q].at # "idle" /\ \E r \in Requests : Shaped(r) /\ MovesTo(q, r)
  BY <1>9, IdleRequest DEF NotBuilt, End, MovesTo
<1>10. ASSUME NEW i \in Idx, Drop(q, i)
       PROVE  request[q].at # "idle" /\ \E r \in Requests : Shaped(r) /\ MovesTo(q, r)
  <2> DEFINE r == With(q, "drop", request[q].todo \ {i}, request[q].name)
  <2>1. request[q].at = "drop" BY <1>10 DEF Drop
  <2>2. /\ r \in Requests /\ r.at = "drop" /\ r.todo = request[q].todo \ {i}
        /\ r.new = request[q].new /\ r.kind = request[q].kind
    BY <1>2, WithTyped DEF RequestAt
  <2>3. MovesTo(q, r) BY <1>10, StepsMove
  <2> HIDE DEF r
  <2>4. Shaped(r) BY <1>1, <2>1, <2>2 DEF Shaped
  <2> QED BY <2>1, <2>2, <2>3, <2>4
<1> QED BY <1>3, <1>4, <1>5, <1>6, <1>7, <1>8, <1>9, <1>10 DEF Steps

LEMMA IndexesTypedInit == IndexInit => IndexesTyped
<1> SUFFICES ASSUME IndexInit PROVE IndexesTyped OBVIOUS
<1>1. request \in [Request -> {r \in Requests : Shaped(r)}]
  BY IdleRequest DEF IndexInit
<1>2. /\ template \in [saved : BOOLEAN, needs : SUBSET Idx]
      /\ ~template.saved => template.needs = {}
  BY DEF IndexInit, NoTemplate
<1>3. /\ index \in IndexStates
      /\ \A i, j \in Idx : index[i] = "building" /\ index[j] = "building" => i = j
  BY DEF IndexInit, IndexStates
<1>4. /\ clashing \in BOOLEAN /\ answer \in [Request -> {"none", "ok", "failed"}]
      /\ crossed \subseteq Request /\ stray \in BOOLEAN
  BY DEF IndexInit
<1>5. calls \in 0..MaxCalls /\ tFaults \in 0..TFaults
  BY IndexAssumption DEF IndexInit
<1> QED BY <1>1, <1>2, <1>3, <1>4, <1>5 DEF IndexesTyped

LEMMA IndexesTypedStep == IndexesTyped /\ [IndexNext]_indexVars => IndexesTyped'
<1> SUFFICES ASSUME IndexesTyped, [IndexNext]_indexVars PROVE IndexesTyped'
  OBVIOUS
<1> DEFINE OneBuilds == \A i, j \in Idx : index[i] = "building" /\ index[j] = "building" => i = j
           Others == /\ clashing \in BOOLEAN /\ answer \in [Request -> {"none", "ok", "failed"}]
                     /\ crossed \subseteq Request /\ stray \in BOOLEAN
                     /\ calls \in 0..MaxCalls /\ tFaults \in 0..TFaults
           TemplateOk == /\ template \in [saved : BOOLEAN, needs : SUBSET Idx]
                         /\ ~template.saved => template.needs = {}
           RequestOk == request \in [Request -> {x \in Requests : Shaped(x)}]
           IndexOk == index \in IndexStates /\ OneBuilds
<1>0. (IndexesTyped <=> TemplateOk /\ RequestOk /\ IndexOk /\ Others)
      /\ (IndexesTyped' <=> TemplateOk' /\ RequestOk' /\ IndexOk' /\ Others')
  BY DEF IndexesTyped
<1>1. CASE Clash
  BY <1>0, <1>1 DEF Clash
<1>2. ASSUME NEW q \in Request, NEW kind \in {"create", "update", "remove"}, NEW new \in SUBSET Idx,
             kind = "remove" => new = {}, Accept(q, kind, new)
      PROVE  IndexesTyped'
  <2>1. RequestOk' BY <1>2, AcceptMoves, MoveTyped DEF Accepted
  <2>2. UNCHANGED <<template, index, clashing, tFaults>> /\ calls < MaxCalls /\ calls' = calls + 1
    BY <1>2 DEF Accept
  <2>3. answer' \in [Request -> {"none", "ok", "failed"}] BY <1>0, <1>2 DEF Accept
  <2>4. crossed' \subseteq Request BY <1>0, <1>2 DEF Accept, UnderWayRequests
  <2>5. stray' \in BOOLEAN
    <3>1. stray' = (stray \/ UnderWayRequests # {}) BY <1>2 DEF Accept
    <3> QED BY <3>1
  <2>6. calls' \in 0..MaxCalls BY <1>0, <2>2, IndexAssumption
  <2> QED BY <1>0, <2>1, <2>2, <2>3, <2>4, <2>5, <2>6
<1>3. ASSUME NEW q \in Request, Steps(q) PROVE IndexesTyped'
  <2>1. RequestOk' BY <1>3, StepsTyped, MoveTyped
  <2>2. Others'
    <3> USE <1>0
    <3>1. tFaults' \in 0..TFaults
      <4>1. UNCHANGED tFaults \/ (tFaults < TFaults /\ tFaults' = tFaults + 1)
        BY <1>3 DEF Steps, Save, Check, Create, Built, NotBuilt, Ensured, Drop, Done
      <4> QED BY <4>1, IndexAssumption
    <3>2. answer' \in [Request -> {"none", "ok", "failed"}]
      BY <1>3 DEF Steps, Save, Check, Create, Built, NotBuilt, Ensured, Drop, Done, End
    <3>3. stray' \in BOOLEAN
      BY <1>3 DEF Steps, Save, Check, Create, Built, NotBuilt, Ensured, Drop, Done
    <3>4. UNCHANGED <<clashing, crossed, calls>>
      BY <1>3 DEF Steps, Save, Check, Create, Built, NotBuilt, Ensured, Drop, Done
    <3> QED BY <3>1, <3>2, <3>3, <3>4
  <2>3. TemplateOk'
    <3>1. CASE UNCHANGED template BY <1>0, <3>1
    <3>2. CASE template' = Template(request[q].new)
      <4>1. request[q].new \subseteq Idx BY <1>0 DEF Requests
      <4> QED BY <3>2, <4>1 DEF Template
    <3>3. CASE template' = NoTemplate BY <3>3 DEF NoTemplate
    <3> QED
      BY <1>3, <3>1, <3>2, <3>3 DEF Steps, Save, Check, Create, Built, NotBuilt, Ensured, Drop, Done
  <2>4. IndexOk'
    <3>1. CASE UNCHANGED index BY <1>0, <3>1
    <3>2. ASSUME NEW i \in Idx, NEW to \in {"none", "invalid", "valid"}, index' = [index EXCEPT ![i] = to]
          PROVE  IndexOk'
      BY <1>0, <3>2 DEF IndexStates
    <3>3. ASSUME NEW i \in Idx, Ddl, index' = [index EXCEPT ![i] = "building"]
          PROVE  IndexOk'
      BY <1>0, <3>3 DEF IndexStates, Ddl
    <3> QED
      BY <1>3, <3>1, <3>2, <3>3 DEF Steps, Save, Check, Create, Built, NotBuilt, Ensured, Drop, Done
  <2> QED BY <1>0, <2>1, <2>2, <2>3, <2>4
<1>4. CASE IndexCrash
  <2>1. RequestOk' BY <1>4, IdleRequest DEF IndexCrash
  <2>2. IndexOk' BY <1>0, <1>4 DEF IndexCrash, IndexStates
  <2>3. TemplateOk' /\ Others' BY <1>0, <1>4, IndexAssumption DEF IndexCrash
  <2> QED BY <1>0, <2>1, <2>2, <2>3
<1>5. CASE UNCHANGED indexVars
  BY <1>0, <1>5 DEF indexVars
<1> QED
  BY <1>1, <1>2, <1>3, <1>4, <1>5 DEF IndexNext, Steps

(* Every request, index and template is what it may be, and one index at   *)
(* most is being built, however requests overlap, fail or crash.           *)
THEOREM IndexTypesCorrect == IndexSpec => []IndexTypeOK
<1>1. IndexesTyped => IndexTypeOK
  <2> SUFFICES ASSUME IndexesTyped PROVE IndexTypeOK OBVIOUS
  <2> DEFINE B == {i \in Idx : index[i] = "building"}
  <2>1. Cardinality(B) <= 1
    <3>1. CASE B = {} BY <3>1, FS_EmptySet
    <3>2. CASE B # {}
      <4>1. PICK i \in B : TRUE BY <3>2
      <4>2. B = {i} BY <4>1 DEF IndexesTyped
      <4> QED BY <4>2, FS_Singleton
    <3> QED BY <3>1, <3>2
  <2>2. request \in [Request -> Requests] BY DEF IndexesTyped
  <2> QED BY <2>1, <2>2 DEF IndexesTyped, IndexTypeOK, Requests, RequestAt, IndexStates
<1> QED BY <1>1, IndexesTypedInit, IndexesTypedStep, PTL DEF IndexSpec

-----------------------------------------------------------------------------
(* TemplateIndexes: what an answer says.                                   *)

(* A request that meets no other one finds the template as it saved it,    *)
(* and each index that it has finished with valid.                         *)
Lone(q) == q \notin crossed /\ request[q].at # "idle"
Ready(q) ==
  /\ request[q].at \in {"ensure", "checked", "building"} =>
       /\ template.needs = request[q].new
       /\ \A i \in request[q].new \ request[q].todo : index[i] = "valid"
  /\ request[q].at = "checked" => \A i \in request[q].name : index[i] \in {"none", "valid"}
  /\ request[q].at = "drop" /\ request[q].kind # "remove" =>
       /\ template.needs = request[q].new
       /\ \A i \in request[q].new : index[i] = "valid"
LoneFit == \A q \in Request : Lone(q) => UnderWayRequests = {q} /\ Ready(q)

(* As long as no request has met another one or ended early, the indexes   *)
(* are those that the request under way has found, builds or has to drop.  *)
NoneBut(S) == \A i \in Idx \ S : index[i] = "none"
Tidy(q) ==
  /\ request[q].at = "read" => template.needs = request[q].old /\ NoneBut(request[q].old)
  /\ request[q].at \in {"ensure", "checked", "building"} =>
       template.needs = request[q].new /\ NoneBut(request[q].old \cup request[q].new)
  /\ request[q].at = "drop" =>
       /\ request[q].kind # "remove" => template.needs = request[q].new
       /\ NoneBut(request[q].new \cup request[q].todo)
SoleFit ==
  ~stray => /\ \A p, q \in UnderWayRequests : p = q
            /\ UnderWayRequests = {} => NoneBut(template.needs)
            /\ \A q \in UnderWayRequests : Tidy(q)

AnswersInv == IndexesTyped /\ LoneFit /\ SoleFit

(* A step of a request disturbs no other one that is alone. *)
LEMMA MoverDecides ==
  ASSUME AnswersInv, NEW q \in Request, request[q].at # "idle",
         NEW r \in Requests, Shaped(r), MovesTo(q, r), UNCHANGED crossed,
         stray' = FALSE => stray = FALSE, stray' \in BOOLEAN,
         Lone(q) /\ r.at # "idle" /\ Ready(q) => Ready(q)',
         ~stray' /\ r.at # "idle" /\ Tidy(q) => Tidy(q)',
         ~stray' /\ r.at = "idle" /\ Tidy(q) => NoneBut(template.needs)'
  PROVE  LoneFit' /\ SoleFit'
<1>1. request'[q] = r /\ \A p \in Request \ {q} : request'[p] = request[p]
  BY MoveTyped DEF AnswersInv
<1>2. /\ q \in UnderWayRequests
      /\ UnderWayRequests' = IF r.at = "idle" THEN UnderWayRequests \ {q} ELSE UnderWayRequests
  BY <1>1 DEF UnderWayRequests
<1>3. ASSUME NEW p \in Request, Lone(p)' PROVE UnderWayRequests' = {p} /\ Ready(p)'
  <2>1. Lone(p)
    BY <1>1, <1>3 DEF Lone
  <2>2. UnderWayRequests = {p} /\ p = q
    BY <1>2, <2>1 DEF AnswersInv, LoneFit
  <2>3. r.at # "idle"
    BY <1>1, <1>3, <2>2 DEF Lone
  <2> QED
    BY <1>2, <2>1, <2>2, <2>3 DEF AnswersInv, LoneFit
<1>4. ASSUME ~stray'
      PROVE  /\ \A p, x \in UnderWayRequests' : p = x
             /\ UnderWayRequests' = {} => NoneBut(template.needs)'
             /\ \A x \in UnderWayRequests' : Tidy(x)'
  <2>1. (\A p, x \in UnderWayRequests : p = x) /\ Tidy(q)
    BY <1>2, <1>4 DEF AnswersInv, SoleFit, IndexesTyped
  <2>2. UnderWayRequests = {q}
    BY <1>2, <2>1
  <2> QED
    BY <1>2, <1>4, <2>1, <2>2
<1> QED
  BY <1>3, <1>4 DEF LoneFit, SoleFit

LEMMA StepsDecide ==
  ASSUME AnswersInv, NEW q \in Request, Steps(q)
  PROVE  LoneFit' /\ SoleFit'
<1>0. /\ request[q] \in Requests /\ Shaped(request[q]) /\ request[q].at # "idle"
      /\ index \in IndexStates
  BY StepsTyped DEF AnswersInv, IndexesTyped
<1>00. /\ request[q].todo \in SUBSET Idx /\ request[q].name \in SUBSET Idx
       /\ \A i \in Idx : request[q].todo \ {i} \in SUBSET Idx /\ {i} \in SUBSET Idx
  BY <1>0 DEF Requests
<1>1. PICK r \in Requests : Shaped(r) /\ MovesTo(q, r)
  BY StepsTyped DEF AnswersInv
<1>2. request'[q] = r BY <1>1, MoveTyped DEF AnswersInv
<1>3. UNCHANGED crossed /\ stray \in BOOLEAN /\ stray' \in BOOLEAN /\ (stray' = FALSE => stray = FALSE)
  BY <1>1 DEF Steps, Save, Check, Create, Built, NotBuilt, Ensured, Drop, Done, AnswersInv, IndexesTyped
<1> DEFINE Goal == /\ Lone(q) /\ r.at # "idle" /\ Ready(q) => Ready(q)'
                   /\ ~stray' /\ r.at # "idle" /\ Tidy(q) => Tidy(q)'
                   /\ ~stray' /\ r.at = "idle" /\ Tidy(q) => NoneBut(template.needs)'
<1>4. ASSUME Goal PROVE LoneFit' /\ SoleFit'
  BY <1>0, <1>1, <1>3, <1>4, MoverDecides
<1>5. CASE Save(q)
  <2>1. request[q].at = "read" /\ UNCHANGED <<index, stray>> BY <1>5 DEF Save
  <2>2. CASE request[q].kind = "create" /\ template.saved
    <3>1. r.at = "idle" /\ UNCHANGED template
      BY <1>2, <1>5, <2>2, <1>0 DEF Save, End, NoRequest, AnswersInv, IndexesTyped
    <3> QED BY <1>2, <1>4, <2>1, <3>1 DEF Ready, Tidy, NoneBut
  <2>3. CASE ~(request[q].kind = "create" /\ template.saved)
    <3>1. template' = Template(request[q].new)
          /\ request' = [request EXCEPT ![q].at = "ensure", ![q].todo = request[q].new]
      BY <1>5, <2>3 DEF Save
    <3>2. r = [request[q] EXCEPT !.at = "ensure", !.todo = request[q].new]
      BY <1>0, <1>2, <3>1 DEF AnswersInv, IndexesTyped
    <3>3. r.at = "ensure" /\ r.todo = r.new /\ r.new = request[q].new /\ r.old = request[q].old
      BY <1>0, <3>2 DEF Requests
    <3>4. template'.needs = r.new BY <3>1, <3>3 DEF Template
    <3> HIDE <3>2
    <3> QED BY <1>2, <1>4, <2>1, <3>3, <3>4 DEF Ready, Tidy, NoneBut
  <2> QED BY <2>2, <2>3
<1>6. CASE Ensured(q)
  <2>1. /\ request[q].at = "ensure" /\ request[q].todo = {} /\ UNCHANGED <<template, index, stray>>
        /\ MovesTo(q, With(q, "drop", Obsolete(q), request[q].name))
    BY <1>6, StepsMove DEF Ensured, AnswersInv
  <2>2. /\ Obsolete(q) \in SUBSET Idx /\ Obsolete(q) = request[q].old \ request[q].new
        /\ request[q].name \in SUBSET Idx
    BY <1>0 DEF Obsolete, Requests
  <2>3. r = With(q, "drop", Obsolete(q), request[q].name)
    BY <1>2, <2>1 DEF MovesTo, AnswersInv, IndexesTyped
  <2>4. r.at = "drop" /\ r.todo = request[q].old \ request[q].new /\ r.new = request[q].new
        /\ r.kind = request[q].kind
    BY <2>2, <2>3, WithTyped DEF AnswersInv, RequestAt
  <2> HIDE <2>3
  <2> QED BY <1>2, <1>4, <2>1, <2>4 DEF Ready, Tidy, NoneBut
<1>7. CASE Done(q)
  <2>1. r.at = "idle" /\ request[q].at = "drop" /\ request[q].todo = {} /\ UNCHANGED <<index, stray>>
        /\ template' = IF request[q].kind = "remove" THEN NoTemplate ELSE template
    BY <1>0, <1>2, <1>7 DEF Done, End, NoRequest, AnswersInv, IndexesTyped
  <2>2. request[q].kind = "remove" => request[q].new = {} /\ template'.needs = {}
    BY <1>0, <2>1 DEF Shaped, NoTemplate
  <2> QED BY <1>4, <2>1, <2>2 DEF Tidy, NoneBut
<1>8. ASSUME NEW i \in Idx, Check(q, i) PROVE LoneFit' /\ SoleFit'
  <2>1. /\ request[q].at = "ensure" /\ i \in request[q].todo /\ UNCHANGED <<template, stray>>
        /\ MovesTo(q, With(q, "checked", request[q].todo, {i}))
        /\ index' = IF Leftover(i) THEN [index EXCEPT ![i] = "none"] ELSE index
    BY <1>8, StepsMove DEF Check, AnswersInv
  <2>2. r = With(q, "checked", request[q].todo, {i})
    BY <1>2, <2>1 DEF MovesTo, AnswersInv, IndexesTyped
  <2>3. r.at = "checked" /\ r.todo = request[q].todo /\ r.new = request[q].new /\ r.name = {i}
        /\ r.old = request[q].old
    BY <1>00, <2>2, WithTyped DEF AnswersInv, RequestAt
  <2> HIDE <2>2
  <2>4. index'[i] \in {"none", "valid"} /\ \A j \in Idx \ {i} : index'[j] = index[j]
    BY <1>0, <2>1 DEF Leftover, IndexStates
  <2>5. i \in request[q].new BY <1>0, <2>1 DEF Shaped
  <2>6. Ready(q) => Ready(q)'
    BY <1>0, <1>2, <2>1, <2>3, <2>4 DEF Ready, Requests
  <2>7. Tidy(q) => Tidy(q)'
    BY <1>2, <2>1, <2>3, <2>4, <2>5 DEF Tidy, NoneBut
  <2> QED BY <1>4, <2>3, <2>6, <2>7
<1>9. ASSUME NEW i \in Idx, Create(q, i) \/ Built(q, i) PROVE LoneFit' /\ SoleFit'
  <2>1. /\ request[q].at \in {"checked", "building"} /\ request[q].name = {i}
        /\ UNCHANGED <<template, stray>> /\ i \in request[q].new /\ i \in request[q].todo
        /\ \A j \in Idx \ {i} : index'[j] = index[j]
    BY <1>0, <1>9 DEF Create, Built, Shaped, IndexStates
  <2>2. CASE Create(q, i) /\ index[i] = "none"
    <3>1. MovesTo(q, With(q, "building", request[q].todo, {i})) BY <2>2, StepsMove DEF AnswersInv
    <3>2. r = With(q, "building", request[q].todo, {i})
      BY <1>2, <3>1 DEF MovesTo, AnswersInv, IndexesTyped
    <3>3. r.at = "building" /\ r.todo = request[q].todo /\ r.new = request[q].new
          /\ r.old = request[q].old
      BY <1>00, <3>2, WithTyped DEF AnswersInv, RequestAt
    <3> HIDE <3>2
    <3>4. Ready(q) => Ready(q)' BY <1>0, <1>2, <2>1, <3>3 DEF Ready, Requests
    <3>5. Tidy(q) => Tidy(q)' BY <1>2, <2>1, <3>3 DEF Tidy, NoneBut
    <3> QED BY <1>4, <3>3, <3>4, <3>5
  <2>3. CASE (Create(q, i) /\ index[i] # "none") \/ Built(q, i)
    <3>1. MovesTo(q, With(q, "ensure", request[q].todo \ {i}, {})) BY <2>3, StepsMove DEF AnswersInv
    <3>2. r = With(q, "ensure", request[q].todo \ {i}, {})
      BY <1>2, <3>1 DEF MovesTo, AnswersInv, IndexesTyped
    <3>3. r.at = "ensure" /\ r.todo = request[q].todo \ {i} /\ r.new = request[q].new
          /\ r.old = request[q].old
      BY <1>00, <3>2, WithTyped DEF AnswersInv, RequestAt
    <3> HIDE <3>2
    <3>4. Ready(q) => index'[i] = "valid"
      BY <1>0, <2>1, <2>3 DEF Ready, Create, Built, IndexStates
    <3>5. Ready(q) => Ready(q)' BY <1>0, <1>2, <2>1, <3>3, <3>4 DEF Ready, Requests
    <3>6. Tidy(q) => Tidy(q)' BY <1>2, <2>1, <3>3 DEF Tidy, NoneBut
    <3> QED BY <1>4, <3>3, <3>5, <3>6
  <2> QED BY <1>9, <2>2, <2>3
<1>10. ASSUME NEW i \in Idx, NotBuilt(q, i) PROVE LoneFit' /\ SoleFit'
  <2>1. r.at = "idle" /\ stray'
    BY <1>2, <1>10 DEF NotBuilt, End, NoRequest, AnswersInv, IndexesTyped
  <2> QED BY <1>4, <2>1
<1>11. ASSUME NEW i \in Idx, Drop(q, i) PROVE LoneFit' /\ SoleFit'
  <2>1. /\ request[q].at = "drop" /\ i \in request[q].todo /\ UNCHANGED template
        /\ MovesTo(q, With(q, "drop", request[q].todo \ {i}, request[q].name))
        /\ index' = [index EXCEPT ![i] = "none"] \/ (UNCHANGED index /\ stray')
    BY <1>11, StepsMove DEF Drop, AnswersInv
  <2>2. r = With(q, "drop", request[q].todo \ {i}, request[q].name)
    BY <1>2, <2>1 DEF MovesTo, AnswersInv, IndexesTyped
  <2>3. r.at = "drop" /\ r.todo = request[q].todo \ {i} /\ r.new = request[q].new
        /\ r.kind = request[q].kind
    BY <1>00, <2>2, WithTyped DEF AnswersInv, RequestAt
  <2> HIDE <2>2
  <2>4. i \notin request[q].new BY <1>0, <2>1 DEF Shaped
  <2>5. /\ \A j \in Idx \ {i} : index'[j] = index[j]
        /\ ~stray' => index'[i] = "none"
    BY <1>0, <2>1 DEF IndexStates
  <2>6. Ready(q) => Ready(q)' BY <1>0, <1>2, <2>1, <2>3, <2>4, <2>5 DEF Ready, Requests
  <2>7. ~stray' /\ Tidy(q) => Tidy(q)' BY <1>2, <2>1, <2>3, <2>5 DEF Tidy, NoneBut
  <2> QED BY <1>4, <2>3, <2>6, <2>7
<1> QED BY <1>5, <1>6, <1>7, <1>8, <1>9, <1>10, <1>11 DEF Steps

LEMMA AnswersStep == AnswersInv /\ [IndexNext]_indexVars => AnswersInv'
<1> SUFFICES ASSUME AnswersInv, [IndexNext]_indexVars PROVE AnswersInv'
  OBVIOUS
<1>0. IndexesTyped /\ IndexesTyped' BY IndexesTypedStep DEF AnswersInv
<1>1. CASE Clash \/ UNCHANGED indexVars
  BY <1>0, <1>1 DEF Clash, indexVars, AnswersInv, LoneFit, SoleFit, Lone, Ready, Tidy, NoneBut, UnderWayRequests
<1>2. ASSUME NEW q \in Request, NEW kind \in {"create", "update", "remove"}, NEW new \in SUBSET Idx,
             kind = "remove" => new = {}, Accept(q, kind, new)
      PROVE  LoneFit' /\ SoleFit'
  <2>1. PICK r \in Requests :
          /\ MovesTo(q, r) /\ Shaped(r) /\ r.kind = kind /\ r.new = new /\ r.old = template.needs
          /\ r.at = IF kind = "remove" THEN "drop" ELSE "read"
          /\ r.todo = IF kind = "remove" THEN template.needs ELSE {}
    <3>1. Accepted(q, kind, new) BY <1>0, <1>2, AcceptMoves
    <3> QED BY <3>1 DEF Accepted
  <2>2. request'[q] = r /\ \A p \in Request \ {q} : request'[p] = request[p]
    BY <2>1, MoveTyped DEF AnswersInv
  <2>3. /\ request[q].at = "idle" /\ UNCHANGED <<template, index>>
        /\ crossed' = IF UnderWayRequests = {} THEN crossed \ {q}
                      ELSE crossed \cup UnderWayRequests \cup {q}
        /\ stray' = (stray \/ UnderWayRequests # {})
    BY <1>2 DEF Accept
  <2>4. UnderWayRequests' = UnderWayRequests \cup {q}
    BY <2>1, <2>2, <2>3 DEF UnderWayRequests
  <2>5. CASE UnderWayRequests = {}
    <3>1. \A p \in Request : Lone(p)' => p = q BY <2>2, <2>5 DEF Lone, UnderWayRequests
    <3>2. Ready(q)' BY <2>1, <2>2 DEF Ready
    <3>3. SoleFit'
      <4> SUFFICES ASSUME ~stray' PROVE Tidy(q)' BY <2>4, <2>5 DEF SoleFit
      <4>1. NoneBut(template.needs) BY <2>3, <2>5 DEF AnswersInv, SoleFit, IndexesTyped
      <4> QED BY <2>1, <2>2, <2>3, <4>1 DEF Tidy, NoneBut
    <3> QED BY <2>4, <2>5, <3>1, <3>2, <3>3 DEF LoneFit
  <2>6. CASE UnderWayRequests # {}
    BY <2>2, <2>3, <2>4, <2>6 DEF LoneFit, SoleFit, Lone, UnderWayRequests
  <2> QED BY <2>5, <2>6
<1>3. CASE IndexCrash
  <2>1. stray' /\ \A q \in Request : request'[q].at = "idle"
    BY <1>3 DEF IndexCrash, NoRequest
  <2> QED
    BY <1>0, <2>1 DEF AnswersInv, LoneFit, SoleFit, Lone
<1> QED
  BY <1>0, <1>1, <1>2, <1>3, StepsDecide DEF IndexNext, Steps, AnswersInv

(* However requests fail, crash and overlap: an answer "ok" means that     *)
(* every index of the template is there and valid, for a request that met  *)
(* no other one; and as long as none met another or ended early, there is  *)
(* no index that the template does not need.                               *)
THEOREM AnswersAreTrue == IndexSpec => AnswersTellIndexes
<1>1. IndexInit => AnswersInv
  <2> SUFFICES ASSUME IndexInit PROVE LoneFit /\ SoleFit
    BY IndexesTypedInit DEF AnswersInv
  <2>1. \A q \in Request : request[q].at = "idle" BY DEF IndexInit, NoRequest
  <2> QED BY <2>1 DEF IndexInit, LoneFit, SoleFit, Lone, UnderWayRequests, NoneBut
<1>2. AnswersInv => NoStrayIndex
  BY DEF AnswersInv, SoleFit, NoStrayIndex, NoneBut
<1>3. ASSUME AnswersInv, [IndexNext]_indexVars,
             NEW q \in Request \ crossed', answer[q] # "ok", answer'[q] = "ok", NEW i \in template'.needs
      PROVE  index'[i] = "valid"
  <2>1. answer \in [Request -> {"none", "ok", "failed"}] BY <1>3 DEF AnswersInv, IndexesTyped
  <2>2. \E p \in Request : Steps(p) \/ \E kind \in {"create", "update", "remove"}, new \in SUBSET Idx :
                                         Accept(p, kind, new)
    BY <1>3 DEF IndexNext, indexVars, Clash, IndexCrash, Steps
  <2>3. ASSUME NEW p \in Request, NEW kind, NEW new, Accept(p, kind, new) PROVE FALSE
    BY <1>3, <2>1, <2>3 DEF Accept
  <2>4. PICK p \in Request : Steps(p) BY <2>2, <2>3
  <2>5. \E how \in {"ok", "failed"} : answer' = [answer EXCEPT ![p] = how] /\ (how = "ok" => Done(p))
    BY <1>3, <2>4 DEF Steps, Save, Check, Create, Built, NotBuilt, Ensured, Drop, Done, End
  <2>6. Done(q) BY <1>3, <2>1, <2>5
  <2>7. request[q].at = "drop" /\ UNCHANGED <<index, crossed>>
        /\ template' = IF request[q].kind = "remove" THEN NoTemplate ELSE template
    BY <2>6 DEF Done
  <2>8. Ready(q) BY <1>3, <2>7 DEF AnswersInv, LoneFit, Lone
  <2> QED BY <1>3, <2>7, <2>8 DEF Ready, NoTemplate
<1>4. AnswersInv /\ [IndexNext]_indexVars =>
        [\A q \in Request \ crossed' :
           answer[q] # "ok" /\ answer'[q] = "ok" =>
             \A i \in template'.needs : index'[i] = "valid"]_indexVars
  BY <1>3
<1> QED
  BY <1>1, <1>2, <1>4, AnswersStep, PTL DEF IndexSpec, AnswersTellIndexes, OkMeansIndexed

-----------------------------------------------------------------------------
(* DeleteLedger: what the vendor is told.                                  *)

DeletersTyped ==
  deleter \in [Deleter -> [at : {"idle", "telling", "deleted"}, rows : SUBSET DRow]]

(* What a delete has told the vendor is what it would delete now, but for  *)
(* groups that have changed.                                               *)
ToldFit == \A d \in Open : deleter[d].rows \ moved = Expanded \ moved

DeletersInv ==
  /\ DeletersTyped /\ here \subseteq DRow /\ changes \in Nat
  /\ match = {} /\ changes = 0 => Open = {}
  /\ ToldFit

SameGroup(r) == {x \in DRow : DGroup[x] = DGroup[r]}

(* Outside the group of r nothing changes with r. *)
LEMMA ChangesInGroup ==
  ASSUME here \subseteq DRow, here' \subseteq DRow, NEW r \in DRow,
         \A x \in DRow \ {r} : (x \in here <=> x \in here') /\ (x \in match <=> x \in match')
  PROVE  Expanded' \ SameGroup(r) = Expanded \ SameGroup(r)
BY DEF Expanded, SameGroup

(* A delete takes the groups of all rows that fit: none is left for another. *)
LEMMA NoneLeft ==
  ASSUME here' = here \ Expanded, match' = match
  PROVE  Expanded' = {}
BY DEF Expanded

LEMMA DeletersStep == DeletersInv /\ [DeleteNext]_deleteVars => DeletersInv'
<1> SUFFICES ASSUME DeletersInv, [DeleteNext]_deleteVars PROVE DeletersInv'
  OBVIOUS
<1>1. ASSUME UNCHANGED <<here, match, deleter, moved, changes>> PROVE DeletersInv'
  BY <1>1 DEF DeletersInv, DeletersTyped, ToldFit, Open, Expanded
<1>2. CASE Ask
  BY <1>2 DEF Ask, DeletersInv, DeletersTyped, ToldFit, Open
<1>3. ASSUME NEW r \in DRow, Alter(r) \/ Arrive(r) \/ LoseOutside(r) PROVE DeletersInv'
  <2>1. /\ UNCHANGED deleter /\ changes' \in Nat /\ changes' # 0 /\ here' \subseteq DRow
        /\ moved' = IF Open = {} THEN moved ELSE moved \cup SameGroup(r)
        /\ \A x \in DRow \ {r} : (x \in here <=> x \in here') /\ (x \in match <=> x \in match')
    BY <1>3 DEF Alter, Arrive, LoseOutside, Change, DeletersInv, SameGroup
  <2>2. Expanded' \ SameGroup(r) = Expanded \ SameGroup(r)
    BY <2>1, ChangesInGroup DEF DeletersInv
  <2>3. Open' = Open
    BY <2>1 DEF Open
  <2>4. ToldFit'
    BY <2>1, <2>2, <2>3 DEF DeletersInv, ToldFit
  <2> QED
    BY <2>1, <2>4 DEF DeletersInv, DeletersTyped
<1>4. ASSUME NEW d \in Deleter, Tell(d) PROVE DeletersInv'
  <2>1. /\ deleter' = [deleter EXCEPT ![d] = [at |-> "telling", rows |-> Expanded]]
        /\ UNCHANGED <<here, match, moved, changes>> /\ Expanded # {}
    BY <1>4 DEF Tell
  <2>2. Expanded' = Expanded /\ Expanded \subseteq DRow /\ match # {}
    BY <2>1 DEF Expanded, DeletersInv
  <2>3. DeletersTyped'
    BY <2>1, <2>2 DEF DeletersInv, DeletersTyped
  <2>4. \A x \in Open' : x = d \/ (x \in Open /\ deleter'[x] = deleter[x])
    BY <2>1 DEF Open, DeletersInv, DeletersTyped
  <2>5. deleter'[d].rows = Expanded
    BY <2>1 DEF DeletersInv, DeletersTyped
  <2> QED
    BY <2>1, <2>2, <2>3, <2>4, <2>5 DEF DeletersInv, ToldFit
<1>5. ASSUME NEW d \in Deleter, Delete(d) PROVE DeletersInv'
  <2>1. /\ deleter' = [deleter EXCEPT ![d] = [at |-> "deleted", rows |-> Expanded]]
        /\ here' = here \ Expanded /\ UNCHANGED <<match, changes>>
        /\ moved' = IF Open = {d} THEN {} ELSE moved \cup Expanded
    BY <1>5 DEF Delete
  <2>2. Expanded' = {} /\ Expanded \subseteq DRow
    BY <2>1, NoneLeft DEF Expanded, DeletersInv
  <2>3. DeletersTyped'
    BY <2>1, <2>2 DEF DeletersInv, DeletersTyped
  <2>4. /\ d \notin Open' /\ Open' \subseteq Open
        /\ \A x \in Open' : deleter'[x] = deleter[x]
    BY <2>1 DEF Open, DeletersInv, DeletersTyped
  <2>5. ToldFit'
    BY <2>1, <2>2, <2>4 DEF DeletersInv, ToldFit
  <2> QED
    BY <2>1, <2>3, <2>4, <2>5 DEF DeletersInv
<1>6. ASSUME NEW d \in Deleter, Record(d) \/ RecordFails(d) PROVE DeletersInv'
  <2>1. /\ deleter[d].at = "deleted" /\ deleter' = [deleter EXCEPT ![d] = Quiet]
        /\ UNCHANGED <<here, match, moved, changes>>
    BY <1>6 DEF Record, RecordFails
  <2>2. DeletersTyped'
    BY <2>1 DEF DeletersInv, DeletersTyped, Quiet
  <2>3. Open' = Open /\ \A x \in Open : deleter'[x] = deleter[x]
    BY <2>1 DEF Open, DeletersInv, DeletersTyped, Quiet
  <2>4. Expanded' = Expanded
    BY <2>1 DEF Expanded
  <2> QED
    BY <2>1, <2>2, <2>3, <2>4 DEF DeletersInv, ToldFit
<1>7. CASE UNCHANGED deleteVars \/ PurgeLedger
           \/ \E x \in Resetter : ResetReadStat(x) \/ ResetReadLedger(x) \/ ResetInsert(x)
  BY <1>1, <1>7 DEF deleteVars, PurgeLedger, ResetReadStat, ResetReadLedger, ResetInsert
<1> QED
  BY <1>2, <1>3, <1>4, <1>5, <1>6, <1>7 DEF DeleteNext

(* However deletes, edits and ingests overlap: a delete takes whole groups, *)
(* and the vendor is told of exactly the rows it takes, but for groups that *)
(* changed between the two evaluations of its condition.                    *)
THEOREM VendorHearsOfDeletes == DeleteSpec => GroupsGoWhole /\ VendorToldOfDeleted
<1>1. DeleteInit => DeletersInv
  BY DEF DeleteInit, DeletersInv, DeletersTyped, ToldFit, Open, Quiet
<1>2. ASSUME DeletersInv, [DeleteNext]_deleteVars,
             NEW d \in Deleter, deleter[d].at = "telling", deleter'[d].at = "deleted"
      PROVE  /\ \A r \in here \ here', x \in here' : DGroup[x] # DGroup[r]
             /\ (deleter[d].rows \ moved) = ((here \ here') \ moved)
  <2>1. Delete(d)
    BY <1>2 DEF DeleteNext, deleteVars, Ask, Alter, Arrive, LoseOutside, Tell, Delete, Record, RecordFails,
                ResetReadStat, ResetReadLedger, ResetInsert, PurgeLedger, Quiet, DeletersInv, DeletersTyped
  <2>2. here' = here \ Expanded /\ d \in Open
    BY <1>2, <2>1 DEF Delete, Open
  <2>3. here \ here' = Expanded
    BY <2>2 DEF Expanded
  <2>4. \A r \in Expanded, x \in here \ Expanded : DGroup[x] # DGroup[r]
    BY DEF Expanded
  <2>5. deleter[d].rows \ moved = Expanded \ moved
    BY <1>2, <2>2 DEF DeletersInv, ToldFit
  <2>6. \A r \in here \ here', x \in here' : DGroup[x] # DGroup[r]
    BY <2>2, <2>3, <2>4
  <2> QED
    BY <2>3, <2>5, <2>6
<1>3. DeletersInv /\ [DeleteNext]_deleteVars =>
        /\ [\A d \in Deleter :
              deleter[d].at = "telling" /\ deleter'[d].at = "deleted" =>
                \A r \in here \ here', x \in here' : DGroup[x] # DGroup[r]]_deleteVars
        /\ [\A d \in Deleter :
              deleter[d].at = "telling" /\ deleter'[d].at = "deleted" =>
                (deleter[d].rows \ moved) = ((here \ here') \ moved)]_deleteVars
  BY <1>2
<1> QED
  BY <1>1, <1>3, DeletersStep, PTL DEF DeleteSpec, GroupsGoWhole, VendorToldOfDeleted

-----------------------------------------------------------------------------
(* DeleteLedger: the ledger.                                               *)

(* The rows a delete is about, counted with the delete. *)
LEMMA CountOfPairs ==
  ASSUME NEW d \in Deleter, NEW R \in SUBSET DRow
  PROVE  /\ IsFiniteSet(R) /\ Cardinality(R) \in Nat
         /\ IsFiniteSet({d} \X R) /\ Cardinality({d} \X R) = Cardinality(R)
<1>1. IsFiniteSet(R) /\ Cardinality(R) \in Nat
  BY DeleteAssumption, FS_Subset, FS_CardinalityType
<1>2. IsFiniteSet({d}) /\ Cardinality({d}) = 1 BY FS_Singleton
<1>3. IsFiniteSet({d} \X R) /\ Cardinality({d} \X R) = Cardinality({d}) * Cardinality(R)
  BY <1>1, <1>2, FS_Product
<1> QED BY <1>1, <1>2, <1>3

LEMMA UnrecordedIsFinite ==
  IsFiniteSet(RowsUnrecorded) /\ Cardinality(RowsUnrecorded) \in Nat
<1>1. IsFiniteSet(Deleter \X DRow) BY DeleteAssumption, FS_Product
<1>2. RowsUnrecorded \in SUBSET (Deleter \X DRow) BY DEF RowsUnrecorded
<1> QED BY <1>1, <1>2, FS_Subset, FS_CardinalityType

(* A delete that has taken R is still to be recorded with R. *)
LEMMA DeleteAddsRows ==
  ASSUME DeletersTyped, NEW d \in Deleter, deleter[d].at # "deleted", NEW R \in SUBSET DRow,
         deleter' = [deleter EXCEPT ![d] = [at |-> "deleted", rows |-> R]]
  PROVE  Cardinality(RowsUnrecorded') = Cardinality(RowsUnrecorded) + Cardinality(R)
<1> DEFINE U == RowsUnrecorded
           N == {d} \X R
<1>1. RowsUnrecorded' = U \cup N
  <2>1. deleter'[d] = [at |-> "deleted", rows |-> R]
        /\ \A e \in Deleter \ {d} : deleter'[e] = deleter[e]
    BY DEF DeletersTyped
  <2>2. \A x \in Deleter \X DRow :
          (deleter'[x[1]].at = "deleted" /\ x[2] \in deleter'[x[1]].rows) <=>
            IF x[1] = d THEN x[2] \in R ELSE x \in U
    BY <2>1 DEF RowsUnrecorded
  <2>3. \A x \in U : x \in Deleter \X DRow /\ x[1] # d BY DEF RowsUnrecorded
  <2>4. \A x \in Deleter \X DRow : x \in N <=> x[1] = d /\ x[2] \in R OBVIOUS
  <2>5. N \subseteq Deleter \X DRow OBVIOUS
  <2>6. RowsUnrecorded' = {x \in Deleter \X DRow : deleter'[x[1]].at = "deleted" /\ x[2] \in deleter'[x[1]].rows}
    BY DEF RowsUnrecorded
  <2> HIDE DEF U, N
  <2> QED BY <2>2, <2>3, <2>4, <2>5, <2>6
<1>2. U \cap N = {} BY DEF RowsUnrecorded
<1>3. IsFiniteSet(U) /\ Cardinality(U) \in Nat BY UnrecordedIsFinite
<1>4. IsFiniteSet(N) /\ Cardinality(N) = Cardinality(R) /\ Cardinality(R) \in Nat BY CountOfPairs
<1> HIDE DEF U, N
<1>5. Cardinality(U \cup N) = Cardinality(U) + Cardinality(N) - Cardinality(U \cap N)
  BY <1>3, <1>4, FS_Union
<1>6. Cardinality(U \cap N) = 0 BY <1>2, FS_EmptySet
<1>7. Cardinality(U \cup N) = Cardinality(U) + Cardinality(R) BY <1>3, <1>4, <1>5, <1>6
<1> QED BY <1>1, <1>7 DEF U

(* A delete that has been recorded, or never will be, is no more. *)
LEMMA RecordTakesRows ==
  ASSUME DeletersTyped, NEW d \in Deleter, deleter[d].at = "deleted",
         deleter' = [deleter EXCEPT ![d] = Quiet]
  PROVE  Cardinality(RowsUnrecorded) = Cardinality(RowsUnrecorded') + Affected(d)
<1> DEFINE U == RowsUnrecorded
           R == deleter[d].rows
           N == {d} \X R
<1>0. R \in SUBSET DRow BY DEF DeletersTyped
<1>1. RowsUnrecorded' = U \ N
  <2>1. deleter'[d] = Quiet /\ \A e \in Deleter \ {d} : deleter'[e] = deleter[e]
    BY DEF DeletersTyped
  <2>2. \A x \in Deleter \X DRow :
          (deleter'[x[1]].at = "deleted" /\ x[2] \in deleter'[x[1]].rows) <=> x[1] # d /\ x \in U
    BY <2>1 DEF RowsUnrecorded, Quiet
  <2>3. \A x \in U : x \in Deleter \X DRow /\ (x[1] = d <=> x \in N)
    BY DEF RowsUnrecorded
  <2>4. RowsUnrecorded' = {x \in Deleter \X DRow : deleter'[x[1]].at = "deleted" /\ x[2] \in deleter'[x[1]].rows}
    BY DEF RowsUnrecorded
  <2> HIDE DEF U, N
  <2> QED BY <2>2, <2>3, <2>4
<1>2. N \subseteq U BY <1>0 DEF RowsUnrecorded
<1>3. IsFiniteSet(U) /\ Cardinality(U) \in Nat BY UnrecordedIsFinite
<1>4. IsFiniteSet(N) /\ Cardinality(N) = Cardinality(R) /\ Cardinality(R) \in Nat
  BY <1>0, CountOfPairs
<1>5. Cardinality(R) = Affected(d) BY DEF Affected
<1> HIDE DEF U, N, R
<1>6. U \cap N = N BY <1>2
<1>7. Cardinality(U \ N) = Cardinality(U) - Cardinality(N) BY <1>3, <1>6, FS_Difference
<1> QED BY <1>1, <1>3, <1>4, <1>5, <1>7 DEF U

LEMMA UnrecordedStays ==
  ASSUME DeletersTyped,
         \/ UNCHANGED deleter
         \/ \E d \in Deleter : /\ deleter[d].at = "idle"
                               /\ deleter' = [deleter EXCEPT ![d] = [at |-> "telling", rows |-> Expanded]]
  PROVE  RowsUnrecorded' = RowsUnrecorded /\ (Unrecorded' <=> Unrecorded)
<1>1. CASE UNCHANGED deleter BY <1>1 DEF RowsUnrecorded, Unrecorded
<1>2. ASSUME NEW d \in Deleter, deleter[d].at = "idle",
             deleter' = [deleter EXCEPT ![d] = [at |-> "telling", rows |-> Expanded]]
      PROVE  RowsUnrecorded' = RowsUnrecorded /\ (Unrecorded' <=> Unrecorded)
  <2>1. deleter'[d].at = "telling" /\ \A e \in Deleter \ {d} : deleter'[e] = deleter[e]
    BY <1>2 DEF DeletersTyped
  <2>2. \A x \in Deleter \X DRow :
          (deleter'[x[1]].at = "deleted" /\ x[2] \in deleter'[x[1]].rows) <=>
          (deleter[x[1]].at = "deleted" /\ x[2] \in deleter[x[1]].rows)
    BY <1>2, <2>1
  <2>3. \A e \in Deleter : deleter'[e].at = "deleted" <=> deleter[e].at = "deleted"
    BY <1>2, <2>1
  <2>4. RowsUnrecorded' = {x \in Deleter \X DRow : deleter'[x[1]].at = "deleted" /\ x[2] \in deleter'[x[1]].rows}
    BY DEF RowsUnrecorded
  <2> QED BY <2>2, <2>3, <2>4 DEF RowsUnrecorded, Unrecorded
<1> QED BY <1>1, <1>2

-----------------------------------------------------------------------------
ResetTyped ==
  reset \in [Resetter -> [at : {"idle", "stat", "both"}, stat : Nat, delta : Nat, loss : Int]]

(* A reset that nothing has blurred is alone, no delete is about to be     *)
(* recorded, and what it has read still tells what was lost by then.       *)
ResetFit(x) ==
  /\ reset[x].at # "idle" =>
       /\ ~Unrecorded /\ 0 <= reset[x].loss /\ reset[x].loss <= loss
       /\ \A y \in Resetter \ {x} : reset[y].at = "idle"
  /\ reset[x].at = "stat" => reset[x].stat = booked + reset[x].loss
  /\ reset[x].at = "both" => reset[x].delta = reset[x].loss

LedgerTyped ==
  /\ here \subseteq DRow /\ DeletersTyped /\ ResetTyped
  /\ tupDel \in Nat /\ loss \in Int /\ booked \in Int /\ ledger \in Seq(Nat) /\ blurred \in BOOLEAN

(* What Postgres has counted is what the ledger says, what was lost and    *)
(* what is still to be recorded.                                           *)
LedgerFit ==
  ~blurred =>
    /\ tupDel = booked + loss + Cardinality(RowsUnrecorded) /\ 0 <= loss
    /\ \A x \in Resetter : ResetFit(x)

LedgerInv == LedgerTyped /\ LedgerFit

LEMMA LedgerInit == DeleteInit => LedgerInv
<1> SUFFICES ASSUME DeleteInit PROVE LedgerInv OBVIOUS
<1> USE DEF DeleteInit
<1>1. LedgerTyped
  <2>1. <<>> \in Seq(Nat) BY EmptySeq
  <2>2. here \subseteq DRow /\ DeletersTyped BY DEF DeletersTyped, Quiet
  <2>3. ResetTyped BY DEF ResetTyped, NoReset
  <2>4. tupDel \in Nat /\ loss \in Int /\ booked \in Int OBVIOUS
  <2>5. blurred \in BOOLEAN OBVIOUS
  <2>6. ledger \in Seq(Nat) BY <2>1
  <2> HIDE DEF DeleteInit
  <2> QED BY <2>2, <2>3, <2>4, <2>5, <2>6 DEF LedgerTyped
<1>2. RowsUnrecorded = {} BY DEF RowsUnrecorded, Quiet
<1>3. Cardinality(RowsUnrecorded) = 0 BY <1>2, FS_EmptySet
<1> QED BY <1>1, <1>3 DEF LedgerInv, LedgerFit, ResetFit, NoReset

LEMMA BookingAdds ==
  ASSUME LedgerTyped, NEW n \in Nat, Book(n)
  PROVE  booked' = booked + n /\ ledger' \in Seq(Nat)
BY DEF LedgerTyped, Book, book

LEMMA LedgerStep == LedgerInv /\ [DeleteNext]_deleteVars => LedgerInv'
<1> SUFFICES ASSUME LedgerInv, [DeleteNext]_deleteVars PROVE LedgerInv' OBVIOUS
<1> USE DEF LedgerInv
<1>u. IsFiniteSet(RowsUnrecorded) /\ Cardinality(RowsUnrecorded) \in Nat BY UnrecordedIsFinite
<1>d. LedgerTyped => DeletersTyped BY DEF LedgerTyped
(* Steps that leave ledger, resets and counts alone. *)
<1>1. ASSUME UNCHANGED <<tupDel, book, reset, loss, blurred>>, here' \subseteq DRow, DeletersTyped',
             RowsUnrecorded' = RowsUnrecorded, Unrecorded' <=> Unrecorded
      PROVE  LedgerInv'
  BY <1>1 DEF book, LedgerTyped, ResetTyped, LedgerFit, ResetFit
<1>2. CASE Ask \/ UNCHANGED deleteVars
  <2>1. UNCHANGED <<tupDel, book, reset, loss, blurred, deleter, here>> BY <1>2 DEF Ask, deleteVars
  <2>2. here' \subseteq DRow /\ DeletersTyped' BY <2>1 DEF LedgerTyped, DeletersTyped
  <2> QED BY <1>1, <1>d, <2>1, <2>2, UnrecordedStays
<1>3. ASSUME NEW r \in DRow, Alter(r) \/ Arrive(r) PROVE LedgerInv'
  <2>1. UNCHANGED <<tupDel, book, reset, loss, blurred, deleter>> /\ here' \subseteq DRow
    BY <1>3 DEF Alter, Arrive, LedgerTyped
  <2>2. DeletersTyped' BY <2>1 DEF LedgerTyped, DeletersTyped
  <2> QED BY <1>1, <1>d, <2>1, <2>2, UnrecordedStays
<1>4. ASSUME NEW r \in DRow, LoseOutside(r) PROVE LedgerInv'
  <2>1. /\ UNCHANGED <<ledger, booked, reset, blurred, deleter>> /\ here' \subseteq DRow
        /\ tupDel' = tupDel + 1 /\ loss' = loss + 1
    BY <1>4 DEF LoseOutside, LedgerTyped, book
  <2>2. DeletersTyped' BY <2>1 DEF LedgerTyped, DeletersTyped
  <2>3. RowsUnrecorded' = RowsUnrecorded /\ (Unrecorded' <=> Unrecorded)
    BY <1>d, <2>1, UnrecordedStays
  <2>4. LedgerTyped' BY <2>1, <2>2 DEF LedgerTyped, ResetTyped
  <2>5. ASSUME ~blurred, NEW x \in Resetter PROVE ResetFit(x)'
    <3>1. ResetFit(x) /\ reset[x].loss \in Int /\ loss \in Int
      BY <2>5 DEF LedgerFit, LedgerTyped, ResetTyped
    <3> QED BY <2>1, <2>3, <3>1 DEF ResetFit
  <2>6. ~blurred => tupDel' = booked' + loss' + Cardinality(RowsUnrecorded') /\ 0 <= loss'
    BY <1>u, <2>1, <2>3 DEF LedgerFit, LedgerTyped
  <2> QED BY <2>1, <2>4, <2>5, <2>6 DEF LedgerFit
<1>5. ASSUME NEW d \in Deleter, Tell(d) PROVE LedgerInv'
  <2>1. /\ UNCHANGED <<tupDel, book, reset, loss, blurred, here>> /\ deleter[d].at = "idle"
        /\ deleter' = [deleter EXCEPT ![d] = [at |-> "telling", rows |-> Expanded]]
    BY <1>5 DEF Tell
  <2>2. DeletersTyped' /\ here' \subseteq DRow
    BY <2>1 DEF LedgerTyped, DeletersTyped, Expanded
  <2> QED BY <1>1, <1>d, <2>1, <2>2, UnrecordedStays
<1>6. ASSUME NEW d \in Deleter, Delete(d) PROVE LedgerInv'
  <2> PICK R \in SUBSET DRow : R = Expanded BY DEF Expanded, LedgerTyped
  <2>1. /\ UNCHANGED <<ledger, booked, reset, loss>> /\ deleter[d].at = "telling"
        /\ deleter' = [deleter EXCEPT ![d] = [at |-> "deleted", rows |-> R]]
        /\ here' = here \ R /\ tupDel' = tupDel + Cardinality(R)
        /\ blurred' = (blurred \/ Resetting)
    BY <1>6 DEF Delete, book
  <2>2. Cardinality(R) \in Nat BY CountOfPairs
  <2>3. Cardinality(RowsUnrecorded') = Cardinality(RowsUnrecorded) + Cardinality(R)
    BY <1>d, <2>1, DeleteAddsRows
  <2>4. LedgerTyped' BY <2>1, <2>2 DEF LedgerTyped, DeletersTyped, ResetTyped
  <2>5. ASSUME ~blurred' PROVE LedgerFit'
    <3>1. ~blurred /\ ~Resetting BY <2>1, <2>5
    <3>2. \A x \in Resetter : reset[x].at = "idle" BY <3>1 DEF Resetting
    <3>3. tupDel' = booked' + loss' + Cardinality(RowsUnrecorded') /\ 0 <= loss'
      BY <1>u, <2>1, <2>2, <2>3, <3>1 DEF LedgerFit, LedgerTyped
    <3>4. \A x \in Resetter : ResetFit(x)' BY <2>1, <3>2 DEF ResetFit
    <3> QED BY <3>3, <3>4 DEF LedgerFit
  <2> QED BY <2>4, <2>5 DEF LedgerFit
<1>7. ASSUME NEW d \in Deleter, Record(d) \/ RecordFails(d) PROVE LedgerInv'
  <2> PICK n \in Nat : n = Affected(d)
    <3>1. deleter[d].rows \in SUBSET DRow BY DEF LedgerTyped, DeletersTyped
    <3> QED BY <3>1, CountOfPairs DEF Affected
  <2>1. /\ deleter[d].at = "deleted" /\ deleter' = [deleter EXCEPT ![d] = Quiet]
        /\ UNCHANGED <<here, tupDel, reset, blurred>>
        /\ \/ Book(n) /\ loss' = loss
           \/ UNCHANGED book /\ loss' = loss + n
    BY <1>7 DEF Record, RecordFails, Affected
  <2>2. /\ booked' \in Int /\ ledger' \in Seq(Nat) /\ loss' \in Int
        /\ booked' + loss' = booked + loss + n /\ (0 <= loss => 0 <= loss')
    <3>1. CASE Book(n) /\ loss' = loss
      <4>1. booked' = booked + n /\ ledger' \in Seq(Nat) BY <3>1, BookingAdds
      <4> QED BY <3>1, <4>1 DEF LedgerTyped
    <3>2. CASE UNCHANGED book /\ loss' = loss + n BY <3>2 DEF LedgerTyped, book
    <3> QED BY <2>1, <3>1, <3>2
  <2>3. Cardinality(RowsUnrecorded) = Cardinality(RowsUnrecorded') + n
    BY <1>d, <2>1, RecordTakesRows
  <2>4. Cardinality(RowsUnrecorded)' \in Nat
    <3>1. RowsUnrecorded' \subseteq RowsUnrecorded
      <4>1. \A e \in Deleter : deleter'[e] = IF e = d THEN Quiet ELSE deleter[e]
        BY <2>1 DEF LedgerTyped, DeletersTyped
      <4>2. RowsUnrecorded' = {x \in Deleter \X DRow : deleter'[x[1]].at = "deleted" /\ x[2] \in deleter'[x[1]].rows}
        BY DEF RowsUnrecorded
      <4> QED BY <4>1, <4>2 DEF RowsUnrecorded, Quiet
    <3> QED BY <1>u, <3>1, FS_Subset, FS_CardinalityType
  <2>5. LedgerTyped' BY <2>1, <2>2 DEF LedgerTyped, DeletersTyped, ResetTyped, Quiet
  <2>6. ASSUME ~blurred' PROVE LedgerFit'
    <3>1. ~blurred /\ Unrecorded BY <2>1, <2>6 DEF Unrecorded
    <3>2. \A x \in Resetter : reset[x].at = "idle" BY <3>1 DEF LedgerFit, ResetFit
    <3>3. tupDel' = booked' + loss' + Cardinality(RowsUnrecorded') /\ 0 <= loss'
      BY <1>u, <2>1, <2>2, <2>3, <2>4, <3>1 DEF LedgerFit, LedgerTyped
    <3>4. \A x \in Resetter : ResetFit(x)' BY <2>1, <3>2 DEF ResetFit
    <3> QED BY <3>3, <3>4 DEF LedgerFit
  <2> QED BY <2>5, <2>6 DEF LedgerFit
<1>8. ASSUME NEW x \in Resetter, ResetReadStat(x) \/ ResetReadLedger(x) \/ ResetInsert(x)
      PROVE  LedgerInv'
  <2>1. UNCHANGED <<here, deleter, tupDel>>
    BY <1>8 DEF ResetReadStat, ResetReadLedger, ResetInsert
  <2>2. RowsUnrecorded' = RowsUnrecorded /\ (Unrecorded' <=> Unrecorded) /\ DeletersTyped'
    BY <1>d, <2>1, UnrecordedStays DEF DeletersTyped, LedgerTyped
  <2>3. \A y \in Resetter : reset[y].loss \in Int /\ reset[y].stat \in Nat /\ reset[y].delta \in Nat
    BY DEF LedgerTyped, ResetTyped
  <2>4. CASE ResetReadStat(x)
    <3>1. /\ reset' = [reset EXCEPT ![x] = [at |-> "stat", stat |-> tupDel, delta |-> 0, loss |-> loss]]
          /\ reset[x].at = "idle" /\ UNCHANGED <<ledger, booked, loss>>
          /\ blurred' = (blurred \/ Unrecorded \/ Resetting)
      BY <2>4 DEF ResetReadStat, book
    <3>2. reset'[x] = [at |-> "stat", stat |-> tupDel, delta |-> 0, loss |-> loss]
          /\ \A y \in Resetter \ {x} : reset'[y] = reset[y]
      BY <3>1 DEF LedgerTyped, ResetTyped
    <3>3. LedgerTyped' BY <2>1, <2>2, <3>1 DEF LedgerTyped, ResetTyped
    <3>4. ASSUME ~blurred' PROVE LedgerFit'
      <4>1. ~blurred /\ ~Unrecorded /\ ~Resetting BY <3>1, <3>4
      <4>2. \A y \in Resetter : reset[y].at = "idle" BY <4>1 DEF Resetting
      <4>3. RowsUnrecorded = {} BY <4>1 DEF RowsUnrecorded, Unrecorded
      <4>4. tupDel = booked + loss /\ 0 <= loss
        BY <4>1, <4>3, FS_EmptySet DEF LedgerFit, LedgerTyped
      <4>5. ResetFit(x)'
        <5>1. reset'[x].at = "stat" /\ reset'[x].stat = tupDel /\ reset'[x].loss = loss BY <3>2
        <5>2. reset'[x].stat = booked' + reset'[x].loss BY <3>1, <4>4, <5>1
        <5>3. 0 <= reset'[x].loss /\ reset'[x].loss <= loss'
          BY <3>1, <4>4, <5>1 DEF LedgerTyped
        <5>4. \A y \in Resetter \ {x} : reset'[y].at = "idle" BY <3>2, <4>2
        <5>5. ~Unrecorded' BY <2>2, <4>1
        <5> QED BY <5>1, <5>2, <5>3, <5>4, <5>5 DEF ResetFit
      <4>6. ASSUME NEW y \in Resetter, y # x PROVE ResetFit(y)'
        BY <3>2, <4>2, <4>6 DEF ResetFit
      <4>7. \A y \in Resetter : ResetFit(y)' BY <4>5, <4>6
      <4>8. tupDel' = booked' + loss' + Cardinality(RowsUnrecorded') /\ 0 <= loss'
        BY <1>u, <2>1, <2>2, <3>1, <4>1 DEF LedgerFit, LedgerTyped
      <4> QED BY <4>7, <4>8 DEF LedgerFit
    <3> QED BY <3>3, <3>4 DEF LedgerFit
  <2>5. CASE ResetReadLedger(x)
    <3>1. /\ reset' = [reset EXCEPT ![x].at = "both", ![x].delta = Above(reset[x].stat, booked)]
          /\ reset[x].at = "stat" /\ UNCHANGED <<ledger, booked, loss, blurred>>
      BY <2>5 DEF ResetReadLedger, book
    <3>2. Above(reset[x].stat, booked) \in Nat BY <2>3 DEF Above, LedgerTyped
    <3>3. /\ reset'[x].at = "both" /\ reset'[x].delta = Above(reset[x].stat, booked)
          /\ reset'[x].loss = reset[x].loss
          /\ \A y \in Resetter \ {x} : reset'[y] = reset[y]
      BY <3>1 DEF LedgerTyped, ResetTyped
    <3>4. LedgerTyped' BY <2>1, <2>2, <3>1, <3>2 DEF LedgerTyped, ResetTyped
    <3>5. ASSUME ~blurred PROVE \A y \in Resetter : ResetFit(y)'
      <4>1. ResetFit(x) BY <3>5 DEF LedgerFit
      <4>2. Above(reset[x].stat, booked) = reset[x].loss
        BY <2>3, <3>1, <4>1 DEF ResetFit, Above, LedgerTyped
      <4>3. /\ ~Unrecorded' /\ 0 <= reset'[x].loss /\ reset'[x].loss <= loss'
            /\ \A y \in Resetter \ {x} : reset'[y].at = "idle"
        BY <2>2, <3>1, <3>3, <4>1 DEF ResetFit
      <4>4. ResetFit(x)' BY <3>3, <4>2, <4>3 DEF ResetFit
      <4>5. ASSUME NEW y \in Resetter, y # x PROVE ResetFit(y)' BY <4>3, <4>5 DEF ResetFit
      <4> QED BY <4>4, <4>5
    <3>6. ASSUME ~blurred
          PROVE  tupDel' = booked' + loss' + Cardinality(RowsUnrecorded') /\ 0 <= loss'
      BY <1>u, <2>1, <2>2, <3>1, <3>6 DEF LedgerFit, LedgerTyped
    <3> QED BY <3>1, <3>4, <3>5, <3>6 DEF LedgerFit
  <2>6. CASE ResetInsert(x)
    <3>1. /\ reset' = [reset EXCEPT ![x] = NoReset] /\ UNCHANGED blurred
          /\ reset[x].at = "both" /\ Book(reset[x].delta) /\ loss' = loss - reset[x].loss
      BY <2>6 DEF ResetInsert
    <3>2. booked' = booked + reset[x].delta /\ ledger' \in Seq(Nat)
      BY <2>3, <3>1, BookingAdds
    <3>3. reset'[x] = NoReset /\ \A y \in Resetter \ {x} : reset'[y] = reset[y]
      BY <3>1 DEF LedgerTyped, ResetTyped
    <3>4. LedgerTyped'
      <4>1. booked' \in Int /\ loss' \in Int BY <2>3, <3>1, <3>2 DEF LedgerTyped
      <4>2. ResetTyped' BY <3>1 DEF LedgerTyped, ResetTyped, NoReset
      <4> QED BY <2>1, <2>2, <3>1, <3>2, <4>1, <4>2 DEF LedgerTyped
    <3>5. ASSUME ~blurred PROVE LedgerFit'
      <4>1. ResetFit(x) BY <3>5 DEF LedgerFit
      <4>2. tupDel' = booked' + loss' + Cardinality(RowsUnrecorded') /\ 0 <= loss'
        <5>1. PICK n \in Int : n = reset[x].loss BY <2>3
        <5>2. reset[x].delta = n /\ 0 <= n /\ n <= loss BY <3>1, <4>1, <5>1 DEF ResetFit
        <5>3. tupDel' = tupDel /\ booked' = booked + n /\ loss' = loss - n
          BY <2>1, <3>1, <3>2, <5>1, <5>2
        <5>4. tupDel = booked + loss + Cardinality(RowsUnrecorded) BY <3>5 DEF LedgerFit
        <5>5. Cardinality(RowsUnrecorded') = Cardinality(RowsUnrecorded) BY <2>2
        <5>6. booked + loss = (booked + n) + (loss - n) /\ 0 <= loss - n
          BY <5>2 DEF LedgerTyped
        <5> QED BY <5>3, <5>4, <5>5, <5>6
      <4>3. \A y \in Resetter : reset'[y].at = "idle" BY <3>1, <3>3, <4>1 DEF ResetFit, NoReset
      <4> QED BY <4>2, <4>3 DEF LedgerFit, ResetFit
    <3> QED BY <3>1, <3>4, <3>5 DEF LedgerFit
  <2> QED BY <1>8, <2>4, <2>5, <2>6
<1>9. CASE PurgeLedger
  <2>2. Head(ledger) \in Nat /\ Tail(ledger) \in Seq(Nat)
    BY <1>9, HeadTailProperties DEF PurgeLedger, LedgerTyped
  <2> PICK n \in Nat : n = Head(ledger) BY <2>2
  <2>1. /\ ledger' \in Seq(Nat) /\ booked' = booked - n /\ loss' = loss + n
        /\ blurred' = (blurred \/ Resetting)
        /\ UNCHANGED <<here, deleter, tupDel, reset>>
    BY <1>9, <2>2 DEF PurgeLedger
  <2>3. RowsUnrecorded' = RowsUnrecorded /\ DeletersTyped'
    BY <1>d, <2>1, UnrecordedStays DEF DeletersTyped, LedgerTyped
  <2>4. LedgerTyped'
    <3>1. booked' \in Int /\ loss' \in Int BY <2>1 DEF LedgerTyped
    <3>2. blurred' \in BOOLEAN BY <2>1
    <3>3. ResetTyped' BY <2>1 DEF LedgerTyped, ResetTyped
    <3> QED BY <2>1, <2>3, <3>1, <3>2, <3>3 DEF LedgerTyped
  <2>5. ASSUME ~blurred' PROVE LedgerFit'
    <3>1. ~blurred /\ ~Resetting BY <2>1, <2>5
    <3>2. \A x \in Resetter : reset[x].at = "idle" BY <3>1 DEF Resetting
    <3>3. tupDel' = booked' + loss' + Cardinality(RowsUnrecorded') /\ 0 <= loss'
      <4>1. tupDel = booked + loss + Cardinality(RowsUnrecorded) /\ 0 <= loss
        BY <3>1 DEF LedgerFit
      <4>2. booked' + loss' = booked + loss /\ (0 <= loss => 0 <= loss')
        BY <2>1 DEF LedgerTyped
      <4>3. Cardinality(RowsUnrecorded') = Cardinality(RowsUnrecorded) BY <2>3
      <4> QED BY <2>1, <4>1, <4>2, <4>3
    <3>4. \A x \in Resetter : ResetFit(x)' BY <2>1, <3>2 DEF ResetFit
    <3> QED BY <3>3, <3>4 DEF LedgerFit
  <2> QED BY <2>4, <2>5 DEF LedgerFit
<1> QED BY <1>2, <1>3, <1>4, <1>5, <1>6, <1>7, <1>8, <1>9 DEF DeleteNext

LEMMA LossIsShown == LedgerInv => UncontrolledIsLoss
<1> SUFFICES ASSUME LedgerInv, ~blurred
             PROVE  Uncontrolled = loss + Cardinality(RowsUnrecorded)
  BY DEF UncontrolledIsLoss
<1>1. Cardinality(RowsUnrecorded) \in Nat BY UnrecordedIsFinite
<1> QED BY <1>1 DEF LedgerInv, LedgerTyped, LedgerFit, Uncontrolled, Above

(* However deletes, records that fail, losses outside the application,     *)
(* purges of the ledger and resets of the baseline overlap: a delete takes *)
(* whole groups, tells the vendor of what it takes, and the uncontrolled   *)
(* loss that is shown is the deletions no event explains, unless a reset   *)
(* has met a delete, a purge or another reset.                             *)
THEOREM DeletesAreAccounted == DeleteSpec => DeletesAccounted
<1>1. DeleteSpec => []UncontrolledIsLoss
  BY LedgerInit, LedgerStep, LossIsShown, PTL DEF DeleteSpec
<1> QED BY <1>1, VendorHearsOfDeletes, PTL DEF DeletesAccounted

-----------------------------------------------------------------------------
(* DeleteLedger: types, and that "booked" is the sum of the ledger.        *)

SumIsOf(s) == FoldOver(s, 1..Len(s))

LEMMA EventsSum ==
  ASSUME NEW s \in Seq(Nat)
  PROVE  /\ SumOfEvents(s) = SumIsOf(s)
         /\ Len(s) \in Nat /\ IsFiniteSet(1..Len(s)) /\ Summands(s, 1..Len(s))
<1>1. Len(s) \in Nat /\ DOMAIN s = 1..Len(s) /\ \A i \in 1..Len(s) : s[i] \in Nat
  BY LenProperties, ElementOfSeq
<1>2. SumOfEvents(s) = FoldOver(s, DOMAIN s)
  BY DEF SumOfEvents, FoldSeq, FoldFunction, FoldFunctionOnSet, MapThenFoldSet, FoldOver
<1>3. IsFiniteSet(1..Len(s))
  <2> PICK n \in Nat : n = Len(s) BY <1>1
  <2> QED BY FS_Interval
<1> QED BY <1>1, <1>2, <1>3 DEF SumIsOf, Summands

LEMMA SumOfAppend ==
  ASSUME NEW s \in Seq(Nat), NEW n \in Nat
  PROVE  SumOfEvents(Append(s, n)) = SumOfEvents(s) + n /\ SumOfEvents(s) \in Nat
<1> DEFINE t == Append(s, n)
<1> PICK k \in Nat : k = Len(s) BY EventsSum
<1>1. t \in Seq(Nat) /\ Len(t) = k + 1 /\ t[k + 1] = n /\ \A i \in 1..k : t[i] = s[i]
  BY AppendProperties
<1>2. IsFiniteSet(1..(k + 1)) /\ Summands(t, 1..(k + 1)) /\ SumOfEvents(t) = FoldOver(t, 1..(k + 1))
  BY <1>1, EventsSum DEF SumIsOf
<1>3. IsFiniteSet(1..k) /\ Summands(s, 1..k) /\ SumOfEvents(s) = FoldOver(s, 1..k)
  BY EventsSum DEF SumIsOf
<1> HIDE DEF t
<1>4. k + 1 \in 1..(k + 1) /\ (1..(k + 1)) \ {k + 1} = 1..k
  OBVIOUS
<1>5. FoldOver(t, 1..(k + 1)) = t[k + 1] + FoldOver(t, (1..(k + 1)) \ {k + 1})
  BY <1>2, <1>4, SumAdds
<1>6. FoldOver(s, 1..k) = FoldOver(t, 1..k)
  BY <1>1, <1>3, SameSum
<1>7. FoldOver(s, 1..k) \in Nat
  BY <1>3, SumIs
<1>8. SumOfEvents(t) = n + FoldOver(s, 1..k) /\ SumOfEvents(s) = FoldOver(s, 1..k)
  BY <1>1, <1>2, <1>3, <1>4, <1>5, <1>6
<1> PICK m \in Nat : m = FoldOver(s, 1..k)
  BY <1>7
<1>9. SumOfEvents(t) = m + n /\ SumOfEvents(s) = m
  BY <1>8
<1> QED BY <1>9 DEF t

(* Without its first event a ledger sums up to that much less: the sum of  *)
(* the rest is the sum over the other places of the whole.                 *)
LEMMA SumOfRest ==
  ASSUME NEW s \in Seq(Nat), s # <<>>
  PROVE  SumOfEvents(s) = Head(s) + SumOfEvents(Tail(s)) /\ SumOfEvents(Tail(s)) \in Nat
<1> DEFINE t == Tail(s)
<1> PICK n \in Nat : n = Len(s) /\ n > 0 BY EventsSum, EmptySeq, LenProperties
<1> PICK k \in Nat : n = k + 1 OBVIOUS
<1>1. t \in Seq(Nat) /\ Len(t) = k /\ Head(s) = s[1] /\ \A i \in 1..k : t[i] = s[i + 1]
  <2>1. t \in Seq(Nat) /\ Len(t) = Len(s) - 1 /\ \A i \in 1..Len(t) : t[i] = s[i + 1]
    BY HeadTailProperties
  <2>2. Head(s) = s[1]
    OBVIOUS
  <2> HIDE DEF t
  <2>3. Len(t) = k
    <3>1. Len(s) - 1 = k
      OBVIOUS
    <3> QED BY <2>1, <3>1
  <2>4. \A i \in 1..k : t[i] = s[i + 1]
    BY <2>1, <2>3
  <2> QED BY <2>1, <2>2, <2>3, <2>4
<1>2. IsFiniteSet(1..k) /\ Summands(t, 1..k) /\ SumOfEvents(t) = FoldOver(t, 1..k)
  BY <1>1, EventsSum DEF SumIsOf
<1>3. IsFiniteSet(1..n) /\ Summands(s, 1..n) /\ SumOfEvents(s) = FoldOver(s, 1..n)
  BY EventsSum DEF SumIsOf
<1> HIDE DEF t
<1>4. 1 \in 1..n /\ (1..n) \ {1} = 2..n
  OBVIOUS
<1>5. FoldOver(s, 1..n) = s[1] + FoldOver(s, 2..n)
  <2>1. FoldOver(s, 1..n) = s[1] + FoldOver(s, (1..n) \ {1})
    BY <1>3, <1>4, SumAdds
  <2> QED BY <1>4, <2>1
<1> DEFINE Next1(T) == {i + 1 : i \in T}
           F == [T \in SUBSET (1..k) |-> FoldOver(s, Next1(T))]
<1>6. \A T \in SUBSET (1..k) :
        /\ IsFiniteSet(Next1(T)) /\ Summands(s, Next1(T)) /\ FoldOver(s, Next1(T)) \in Nat
  <2> SUFFICES ASSUME NEW T \in SUBSET (1..k)
               PROVE  /\ IsFiniteSet(Next1(T)) /\ Summands(s, Next1(T))
                      /\ FoldOver(s, Next1(T)) \in Nat
    OBVIOUS
  <2>1. Next1(T) \in SUBSET (1..n) OBVIOUS
  <2> HIDE DEF Next1
  <2>2. IsFiniteSet(Next1(T)) /\ Summands(s, Next1(T))
    BY <1>3, <2>1, FS_Subset DEF Summands
  <2> QED BY <2>2, SumIs
<1>7. Adds(F, t, 1..k)
  <2>1. F \in [SUBSET (1..k) -> Nat] BY <1>6
  <2>2. F[{}] = 0
    <3>1. Next1({}) = {} OBVIOUS
    <3> QED BY <3>1, SumOfNone
  <2>3. ASSUME NEW T \in SUBSET (1..k), NEW i \in T
        PROVE  F[T] = t[i] + F[T \ {i}]
    <3>1. i + 1 \in Next1(T) /\ Next1(T) \ {i + 1} = Next1(T \ {i}) OBVIOUS
    <3>2. t[i] = s[i + 1] BY <1>1
    <3>3. F[T] = FoldOver(s, Next1(T)) /\ F[T \ {i}] = FoldOver(s, Next1(T \ {i})) OBVIOUS
    <3> HIDE DEF F, Next1
    <3>4. FoldOver(s, Next1(T)) = s[i + 1] + FoldOver(s, Next1(T) \ {i + 1})
      BY <1>6, <3>1, SumAdds
    <3> QED BY <3>1, <3>2, <3>3, <3>4
  <2> HIDE DEF F, Next1
  <2> QED BY <2>1, <2>2, <2>3 DEF Adds
<1>8. F[1..k] = FoldOver(s, 2..n)
  <2>1. Next1(1..k) = 2..n
    <3>1. ASSUME NEW j \in 2..n PROVE j \in Next1(1..k)
      <4>1. j - 1 \in 1..k /\ j = (j - 1) + 1 OBVIOUS
      <4> QED BY <4>1
    <3>2. ASSUME NEW j \in 1..k PROVE j + 1 \in 2..n OBVIOUS
    <3> QED BY <3>1, <3>2
  <2> QED BY <2>1
<1> HIDE DEF F, Next1
<1>9. FoldOver(t, 1..k) = FoldOver(s, 2..n) BY <1>2, <1>7, <1>8, FoldIs
<1>10. FoldOver(t, 1..k) \in Nat BY <1>2, SumIs
<1> QED BY <1>1, <1>2, <1>3, <1>5, <1>9, <1>10 DEF t

LedgerSummed ==
  /\ match \subseteq DRow /\ moved \subseteq DRow
  /\ booked = SumOfEvents(ledger)
  /\ changes \in 0..DChanges /\ dFaults \in 0..DFaults

LEMMA BookKeepsSum ==
  ASSUME ledger \in Seq(Nat), booked = SumOfEvents(ledger), NEW n \in Nat, Book(n)
  PROVE  booked' = SumOfEvents(ledger')
<1>1. CASE n = 0 BY <1>1 DEF Book, book
<1>2. CASE n # 0
  <2>1. ledger' = Append(ledger, n) /\ booked' = booked + n BY <1>2 DEF Book
  <2> QED BY <2>1, SumOfAppend
<1> QED BY <1>1, <1>2

LEMMA SummedInit == DeleteInit => LedgerSummed
<1>1. SumOfEvents(<<>>) = 0
  <2>1. <<>> \in Seq(Nat) /\ Len(<<>>) = 0 /\ 1..0 = {} BY EmptySeq
  <2> QED BY <2>1, EventsSum, SumOfNone DEF SumIsOf
<1> QED BY <1>1, DeleteAssumption DEF DeleteInit, LedgerSummed

LEMMA SummedStep == LedgerTyped /\ LedgerSummed /\ [DeleteNext]_deleteVars => LedgerSummed'
<1> SUFFICES ASSUME LedgerTyped, LedgerSummed, [DeleteNext]_deleteVars PROVE LedgerSummed'
  OBVIOUS
<1>t. /\ here \subseteq DRow /\ ledger \in Seq(Nat)
      /\ \A d \in Deleter : deleter[d].rows \in SUBSET DRow
      /\ \A x \in Resetter : reset[x].delta \in Nat
      /\ DChanges \in Nat /\ DFaults \in Nat
  BY DeleteAssumption DEF LedgerTyped, DeletersTyped, ResetTyped
<1>r. /\ match \subseteq DRow /\ moved \subseteq DRow
      /\ changes \in 0..DChanges /\ dFaults \in 0..DFaults
  BY DEF LedgerSummed
<1> DEFINE Rest == /\ match' \subseteq DRow /\ moved' \subseteq DRow
                   /\ changes' \in 0..DChanges /\ dFaults' \in 0..DFaults
<1>1. ASSUME Ask \/ PurgeLedger \/ UNCHANGED deleteVars PROVE Rest
  BY <1>1, <1>r DEF Ask, PurgeLedger, deleteVars
<1>2. ASSUME NEW r \in DRow, Alter(r) \/ Arrive(r) \/ LoseOutside(r) PROVE Rest
  <2>1. changes' \in 0..DChanges /\ dFaults' = dFaults
    BY <1>2, <1>r, <1>t DEF Alter, Arrive, LoseOutside, Change
  <2>2. match' \subseteq DRow /\ moved' \subseteq DRow
    BY <1>2, <1>r DEF Alter, Arrive, LoseOutside
  <2> QED BY <1>r, <2>1, <2>2
<1>3. Rest
  <2>1. ASSUME NEW d \in Deleter, Tell(d) \/ Delete(d) \/ Record(d) PROVE Rest
    <3>1. UNCHANGED <<match, changes, dFaults>> BY <2>1 DEF Tell, Delete, Record
    <3>2. moved' \subseteq DRow BY <1>r, <1>t, <2>1 DEF Tell, Delete, Record, Expanded
    <3> QED BY <1>r, <3>1, <3>2
  <2>2. ASSUME NEW d \in Deleter, RecordFails(d) PROVE Rest
    <3>1. UNCHANGED <<match, moved, changes>> /\ dFaults < DFaults /\ dFaults' = dFaults + 1
      BY <2>2 DEF RecordFails
    <3> QED BY <1>r, <1>t, <3>1
  <2>3. ASSUME NEW x \in Resetter, ResetReadStat(x) \/ ResetReadLedger(x) \/ ResetInsert(x)
        PROVE  Rest
    <3>1. UNCHANGED <<match, moved, changes, dFaults>>
      BY <2>3 DEF ResetReadStat, ResetReadLedger, ResetInsert
    <3> QED BY <1>r, <3>1
  <2> HIDE DEF Rest
  <2> QED BY <1>1, <1>2, <2>1, <2>2, <2>3 DEF DeleteNext
<1>4. booked' = SumOfEvents(ledger')
  <2>0. booked = SumOfEvents(ledger) BY DEF LedgerSummed
  <2>1. CASE UNCHANGED book
    <3>1. ledger' = ledger /\ booked' = booked BY <2>1 DEF book
    <3> QED BY <2>0, <3>1
  <2>2. ASSUME NEW d \in Deleter, Record(d) PROVE booked' = SumOfEvents(ledger')
    <3> PICK n \in Nat : n = Affected(d) BY <1>t, CountOfPairs DEF Affected
    <3> QED BY <1>t, <2>0, <2>2, BookKeepsSum DEF Record
  <2>3. ASSUME NEW x \in Resetter, ResetInsert(x) PROVE booked' = SumOfEvents(ledger')
    <3> PICK n \in Nat : n = reset[x].delta BY <1>t
    <3> QED BY <1>t, <2>0, <2>3, BookKeepsSum DEF ResetInsert
  <2>4. CASE PurgeLedger
    <3>1. ledger # <<>> /\ ledger' = Tail(ledger) /\ booked' = booked - Head(ledger)
      BY <2>4 DEF PurgeLedger
    <3> PICK n \in Nat : n = Head(ledger) BY <1>t, <3>1, HeadTailProperties
    <3> PICK m \in Nat : m = SumOfEvents(Tail(ledger)) BY <1>t, <3>1, SumOfRest
    <3>2. booked = n + m BY <1>t, <2>0, <3>1, SumOfRest
    <3> QED BY <3>1, <3>2
  <2>5. CASE Ask \/ \E r \in DRow : Alter(r) \/ Arrive(r) \/ LoseOutside(r)
    BY <2>1, <2>5 DEF Ask, Alter, Arrive, LoseOutside
  <2>6. ASSUME NEW d \in Deleter, Tell(d) \/ Delete(d) \/ RecordFails(d) PROVE UNCHANGED book
    BY <2>6 DEF Tell, Delete, RecordFails
  <2>7. ASSUME NEW x \in Resetter, ResetReadStat(x) \/ ResetReadLedger(x) PROVE UNCHANGED book
    BY <2>7 DEF ResetReadStat, ResetReadLedger
  <2>8. UNCHANGED deleteVars => UNCHANGED book BY DEF deleteVars
  <2> QED BY <2>1, <2>2, <2>3, <2>4, <2>5, <2>6, <2>7, <2>8 DEF DeleteNext
<1> QED BY <1>3, <1>4 DEF LedgerSummed

(* The rows, deletes and resets keep their types, and "booked" is what the *)
(* queries over table_delete_events find: the sum of the events that are   *)
(* left in it, however deletes, resets and purges follow each other.       *)
THEOREM DeleteTypesCorrect == DeleteSpec => []DeleteTypeOK
<1>1. DeleteInit => LedgerInv /\ LedgerSummed BY LedgerInit, SummedInit
<1>2. (LedgerInv /\ LedgerSummed) /\ [DeleteNext]_deleteVars => (LedgerInv /\ LedgerSummed)'
  BY LedgerStep, SummedStep DEF LedgerInv
<1>3. LedgerInv /\ LedgerSummed => DeleteTypeOK
  BY DEF LedgerInv, LedgerTyped, LedgerSummed, DeletersTyped, ResetTyped, DeleteTypeOK
<1> QED BY <1>1, <1>2, <1>3, PTL DEF DeleteSpec

-----------------------------------------------------------------------------
(* SweepPlan: the oldest and the newest of some rows.                      *)

LEMMA LeastNumber ==
  ASSUME NEW N \in SUBSET Nat, N # {}
  PROVE  \E n \in N : \A m \in N : n <= m
<1>1. IsWellFoundedOn(OpToRel(<, Nat), Nat) BY NatLessThanWellFounded
<1>2. PICK n \in N : \A m \in N : <<m, n>> \notin OpToRel(<, Nat) BY <1>1, WFMin
<1>3. \A m \in N : ~(m < n) BY <1>2 DEF OpToRel
<1> QED BY <1>3

LEMMA OldestIs ==
  ASSUME NEW X \in SUBSET SweptRow, X # {}
  PROVE  Oldest(X) \in X /\ \A x \in X : Oldest(X) <= x
<1>1. X \in SUBSET Nat BY SweepAssumption
<1>2. \E n \in X : \A m \in X : n <= m BY <1>1, LeastNumber
<1> QED BY <1>2 DEF Oldest

(* Of finitely many rows there is one whose rank is the largest.           *)
LEMMA LargestRank ==
  ASSUME NEW X \in SUBSET SweptRow, X # {}, NEW f, \A x \in X : f[x] \in Nat
  PROVE  \E r \in X : \A x \in X : f[x] <= f[r]
<1> DEFINE Over(r) == {x \in X : f[r] < f[x]}
           Counts == {Cardinality(Over(r)) : r \in X}
<1>1. \A r \in X : IsFiniteSet(Over(r)) /\ Cardinality(Over(r)) \in Nat
  BY SweepAssumption, FS_Subset, FS_CardinalityType
<1>2. Counts \in SUBSET Nat /\ Counts # {} BY <1>1
<1>3. PICK n \in Counts : \A m \in Counts : n <= m BY <1>2, LeastNumber
<1>4. PICK r \in X : n = Cardinality(Over(r)) BY <1>3
<1>5. ASSUME NEW x \in X, ~(f[x] <= f[r]) PROVE FALSE
  <2>1. f[r] < f[x] /\ f[x] \in Nat /\ f[r] \in Nat BY <1>5
  <2>2. Over(x) \subseteq Over(r) /\ x \in Over(r) /\ x \notin Over(x) BY <2>1
  <2>3. IsFiniteSet(Over(r)) /\ Cardinality(Over(r)) \in Nat /\ Cardinality(Over(x)) \in Nat
    BY <1>1
  <2>4. Cardinality(Over(x)) \in Counts OBVIOUS
  <2> HIDE DEF Over, Counts
  <2>5. Over(x) # Over(r) BY <2>2
  <2>6. Cardinality(Over(x)) <= Cardinality(Over(r)) /\ Cardinality(Over(x)) # Cardinality(Over(r))
    BY <2>2, <2>3, <2>5, FS_Subset
  <2> QED BY <1>3, <1>4, <2>3, <2>4, <2>6
<1> QED BY <1>5

-----------------------------------------------------------------------------
(* SweepPlan: groups.                                                      *)

LEMMA GroupsFit ==
  ASSUME NEW S \in SUBSET SweptRow, NEW r \in S
  PROVE  /\ GroupOf(r, S) \subseteq S /\ r \in GroupOf(r, S)
         /\ Oldest(GroupOf(r, S)) \in GroupOf(r, S)
         /\ Oldest(GroupOf(r, S)) \in S /\ Oldest(GroupOf(r, S)) \in Nat
         /\ Oldest(GroupOf(r, S)) <= r
         /\ \A x \in S : Grp(x) = Grp(r) <=> Oldest(GroupOf(x, S)) = Oldest(GroupOf(r, S))
         /\ \A x \in GroupOf(r, S) : GroupOf(x, S) = GroupOf(r, S)
<1>1. \A x \in S : GroupOf(x, S) \in SUBSET SweptRow /\ x \in GroupOf(x, S) BY DEF GroupOf
<1>2. \A x \in S : Oldest(GroupOf(x, S)) \in GroupOf(x, S) /\ Oldest(GroupOf(x, S)) <= x
  BY <1>1, OldestIs
<1>3. ASSUME NEW x \in S PROVE Grp(x) = Grp(r) <=> Oldest(GroupOf(x, S)) = Oldest(GroupOf(r, S))
  <2>1. Grp(x) = Grp(r) => GroupOf(x, S) = GroupOf(r, S) BY DEF GroupOf
  <2>2. Grp(Oldest(GroupOf(x, S))) = Grp(x) /\ Grp(Oldest(GroupOf(r, S))) = Grp(r)
    BY <1>2 DEF GroupOf
  <2> QED BY <2>1, <2>2
<1>4. \A x \in GroupOf(r, S) : GroupOf(x, S) = GroupOf(r, S) BY DEF GroupOf
<1> QED BY <1>1, <1>2, <1>3, <1>4, SweepAssumption DEF GroupOf

(* The rows up to one include those up to each of them.                    *)
LEMMA UpToFits ==
  ASSUME NEW S \in SUBSET SweptRow, NEW r \in S
  PROVE  /\ UpTo(r, S) \in SUBSET S /\ IsFiniteSet(UpTo(r, S))
         /\ Cardinality(UpTo(r, S)) \in Nat
         /\ \A x \in S : Oldest(GroupOf(x, S)) <= Oldest(GroupOf(r, S)) =>
              /\ UpTo(x, S) \subseteq UpTo(r, S)
              /\ Cardinality(UpTo(x, S)) \in Nat
              /\ Cardinality(UpTo(x, S)) <= Cardinality(UpTo(r, S))
<1>1. \A x \in S : Oldest(GroupOf(x, S)) \in Nat BY GroupsFit
<1>2. \A x \in S : UpTo(x, S) \in SUBSET S BY DEF UpTo
<1>3. \A x \in S : IsFiniteSet(UpTo(x, S)) /\ Cardinality(UpTo(x, S)) \in Nat
  BY <1>2, SweepAssumption, FS_Subset, FS_CardinalityType
<1>4. ASSUME NEW x \in S, Oldest(GroupOf(x, S)) <= Oldest(GroupOf(r, S))
      PROVE  UpTo(x, S) \subseteq UpTo(r, S)
  BY <1>1, <1>4 DEF UpTo
<1>5. ASSUME NEW x \in S, Oldest(GroupOf(x, S)) <= Oldest(GroupOf(r, S))
      PROVE  Cardinality(UpTo(x, S)) <= Cardinality(UpTo(r, S))
  BY <1>3, <1>4, <1>5, FS_Subset
<1> QED BY <1>2, <1>3, <1>4, <1>5

(* What the window functions choose: the oldest groups, whole, as many as  *)
(* fit and at least one.                                                   *)
LEMMA CapFits ==
  ASSUME NEW S \in SUBSET SweptRow, S # {}
  PROVE  LET T == Capped(S)
         IN /\ T \in SUBSET S /\ T # {}
            /\ \A r \in T : GroupOf(r, S) \subseteq T
            /\ \A r \in T, x \in S \ T : Oldest(GroupOf(r, S)) < Oldest(GroupOf(x, S))
            /\ Cardinality(T) <= SweepLimit \/ T = GroupOf(Oldest(S), S)
            /\ S # T => LET r == Oldest(S \ T)
                        IN Cardinality(T) + Cardinality(GroupOf(r, S)) > SweepLimit
<1> DEFINE T == Capped(S)
           o(r) == Oldest(GroupOf(r, S))
           first == Oldest(S)
<1>1. first \in S /\ first \in Nat /\ \A x \in S : first <= x
  BY OldestIs, SweepAssumption
<1>2. \A r \in S : /\ o(r) \in S /\ o(r) \in Nat /\ o(r) <= r
                   /\ \A x \in S : Grp(x) = Grp(r) <=> o(x) = o(r)
                   /\ \A x \in S : x \in GroupOf(r, S) <=> Grp(x) = Grp(r)
  <2> SUFFICES ASSUME NEW r \in S
               PROVE  /\ o(r) \in S /\ o(r) \in Nat /\ o(r) <= r
                      /\ \A x \in S : Grp(x) = Grp(r) <=> o(x) = o(r)
                      /\ \A x \in S : x \in GroupOf(r, S) <=> Grp(x) = Grp(r)
    OBVIOUS
  <2>1. \A x \in S : x \in GroupOf(r, S) <=> Grp(x) = Grp(r) BY DEF GroupOf
  <2> QED BY <2>1, GroupsFit
<1>3. o(first) = first
  <2>1. first <= o(first) /\ o(first) <= first BY <1>1, <1>2
  <2> QED BY <1>1, <1>2, <2>1
<1>4. \A r \in S : r \in T <=> Cardinality(UpTo(r, S)) <= SweepLimit \/ Grp(r) = Grp(first)
  BY DEF Capped
<1>5. T \in SUBSET S /\ first \in T BY <1>1, <1>4 DEF Capped
<1>6. IsFiniteSet(S) /\ IsFiniteSet(T) /\ Cardinality(T) \in Nat
  BY <1>5, SweepAssumption, FS_Subset, FS_CardinalityType
<1>7. SweepLimit \in Nat BY SweepAssumption
<1> HIDE DEF T, o, first
<1>8. ASSUME NEW r \in S, NEW x \in S, o(x) <= o(r), r \in T PROVE x \in T
  <2>1. Cardinality(UpTo(x, S)) \in Nat /\ Cardinality(UpTo(r, S)) \in Nat
        /\ Cardinality(UpTo(x, S)) <= Cardinality(UpTo(r, S))
    BY <1>8, UpToFits DEF o
  <2>2. CASE Cardinality(UpTo(r, S)) <= SweepLimit BY <1>4, <1>7, <2>1, <2>2
  <2>3. CASE Grp(r) = Grp(first)
    <3>1. o(r) = first BY <1>1, <1>2, <1>3, <2>3
    <3>2. o(x) = first BY <1>1, <1>2, <1>8, <3>1
    <3> QED BY <1>1, <1>2, <1>3, <1>4, <3>2
  <2> QED BY <1>4, <1>8, <2>2, <2>3
<1>9. \A r \in T : GroupOf(r, S) \subseteq T
  <2> SUFFICES ASSUME NEW r \in T, NEW x \in GroupOf(r, S) PROVE x \in T OBVIOUS
  <2>1. r \in S /\ x \in S BY <1>5 DEF GroupOf
  <2>2. o(x) = o(r) /\ o(r) \in Nat BY <1>2, <2>1
  <2> QED BY <1>8, <2>1, <2>2
<1>10. \A r \in T, x \in S \ T : o(r) < o(x)
  <2> SUFFICES ASSUME NEW r \in T, NEW x \in S \ T PROVE o(r) < o(x) OBVIOUS
  <2>1. r \in S /\ o(r) \in Nat /\ o(x) \in Nat BY <1>2, <1>5
  <2> QED BY <1>8, <2>1
<1>11. Cardinality(T) <= SweepLimit \/ T = GroupOf(first, S)
  <2> DEFINE f == [r \in S |-> o(r)]
  <2>1. \A x \in T : f[x] \in Nat BY <1>2, <1>5
  <2>2. T \in SUBSET SweptRow /\ T # {} BY <1>5
  <2>3. PICK r \in T : \A x \in T : f[x] <= f[r]
    <3> HIDE DEF f
    <3> QED BY <2>1, <2>2, LargestRank
  <2>4. r \in S /\ \A x \in T : o(x) <= o(r) BY <1>5, <2>3
  <2>5. T \subseteq UpTo(r, S) BY <1>5, <2>4 DEF UpTo, o
  <2>6. CASE Cardinality(UpTo(r, S)) <= SweepLimit
    <3>1. IsFiniteSet(UpTo(r, S)) /\ Cardinality(UpTo(r, S)) \in Nat BY <2>4, UpToFits
    <3>2. Cardinality(T) <= Cardinality(UpTo(r, S)) BY <2>5, <3>1, FS_Subset
    <3> QED BY <1>6, <1>7, <2>6, <3>1, <3>2
  <2>7. CASE Grp(r) = Grp(first)
    <3>1. o(r) = first BY <1>1, <1>2, <1>3, <2>4, <2>7
    <3>2. \A x \in T : o(x) = first
      <4> SUFFICES ASSUME NEW x \in T PROVE o(x) = first OBVIOUS
      <4>1. o(x) \in S /\ o(x) \in Nat /\ o(x) <= first BY <1>2, <1>5, <2>4, <3>1
      <4> QED BY <1>1, <4>1
    <3>3. T \subseteq GroupOf(first, S) BY <1>1, <1>2, <1>3, <1>5, <3>2
    <3> QED BY <1>5, <1>9, <3>3
  <2> QED BY <1>4, <2>4, <2>6, <2>7
<1>12. ASSUME S # T
       PROVE  Cardinality(T) + Cardinality(GroupOf(Oldest(S \ T), S)) > SweepLimit
  <2> DEFINE r == Oldest(S \ T)
             G == GroupOf(r, S)
  <2>1. S \ T \in SUBSET SweptRow /\ S \ T # {} BY <1>5, <1>12
  <2>2. r \in S /\ r \notin T /\ \A x \in S \ T : r <= x BY <2>1, OldestIs
  <2>3. UpTo(r, S) \subseteq T \cup G
    <3> SUFFICES ASSUME NEW x \in UpTo(r, S), x \notin T PROVE x \in G OBVIOUS
    <3>1. x \in S /\ o(x) <= o(r) BY DEF UpTo, o
    <3>2. o(x) \in S /\ o(x) \in Nat /\ o(r) \in Nat /\ o(r) <= r BY <1>2, <2>2, <3>1
    <3>3. o(o(x)) = o(x)
      <4>1. o(x) \in GroupOf(x, S) BY <3>1, GroupsFit DEF o
      <4> QED BY <1>2, <3>1, <3>2, <4>1
    <3>4. o(x) \notin T BY <1>8, <3>1, <3>2, <3>3
    <3>5. r <= o(x) BY <2>2, <3>2, <3>4
    <3>6. r \in Nat BY <2>2, SweepAssumption
    <3>7. o(x) = o(r) BY <3>1, <3>2, <3>5, <3>6
    <3> QED BY <1>2, <2>2, <3>1, <3>7
  <2>4. G \in SUBSET S BY DEF GroupOf
  <2>5. IsFiniteSet(G) /\ Cardinality(G) \in Nat BY <1>6, <2>4, FS_Subset, FS_CardinalityType
  <2>6. Cardinality(UpTo(r, S)) \in Nat /\ Cardinality(UpTo(r, S)) > SweepLimit
    BY <1>4, <1>7, <2>2, UpToFits
  <2> HIDE DEF G, r
  <2>7. /\ IsFiniteSet(T \cup G)
        /\ Cardinality(T \cup G) = Cardinality(T) + Cardinality(G) - Cardinality(T \cap G)
    BY <1>6, <2>5, FS_Union
  <2>8. Cardinality(T \cap G) \in Nat BY <1>6, FS_Subset, FS_CardinalityType, FS_Intersection
  <2>9. Cardinality(UpTo(r, S)) <= Cardinality(T \cup G) BY <2>3, <2>7, FS_Subset
  <2>10. Cardinality(T) + Cardinality(G) > SweepLimit
    BY <1>6, <1>7, <2>5, <2>6, <2>7, <2>8, <2>9
  <2> QED BY <2>10 DEF G, r
<1> QED BY <1>5, <1>9, <1>10, <1>11, <1>12 DEF T, o, first

-----------------------------------------------------------------------------
(* SweepPlan: chunks and partitions.                                       *)

LEMMA ChunksFit ==
  ASSUME NEW P \in SUBSET SweptRow, P # {}
  PROVE  /\ Chunk(P) \in SUBSET P /\ Chunk(P) # {}
         /\ Combined(Oldest(P)) => Chunk(P) = P
         /\ ~Combined(Oldest(P)) => Cardinality(Chunk(P)) <= ChunkSize
<1> DEFINE first == Oldest(P)
           C == FirstOf(P, ChunkSize)
           Till(r) == {x \in P : x <= r}
<1>1. first \in P /\ (\A x \in P : first <= x) /\ P \subseteq Nat BY OldestIs, SweepAssumption
<1>2. Till(first) = {first}
  <2>1. \A x \in P : x <= first => x = first
    <3> SUFFICES ASSUME NEW x \in P, x <= first PROVE x = first OBVIOUS
    <3>1. x \in Nat /\ first \in Nat /\ first <= x BY <1>1
    <3> QED BY <3>1
  <2>2. first <= first /\ first \in P BY <1>1
  <2> HIDE DEF first
  <2> QED BY <2>1, <2>2
<1>3. Cardinality(Till(first)) = 1 BY <1>2, FS_Singleton
<1>4. C \in SUBSET P /\ first \in C
  <2>1. Cardinality({x \in P : x <= first}) <= ChunkSize BY <1>3, SweepAssumption
  <2> QED BY <1>1, <2>1 DEF FirstOf
<1>5. Cardinality(C) <= ChunkSize
  <2> DEFINE f == [r \in C |-> r]
  <2>1. (\A x \in C : f[x] \in Nat) /\ C \in SUBSET SweptRow /\ C # {} BY <1>1, <1>4
  <2>2. PICK r \in C : \A x \in C : f[x] <= f[r]
    <3> HIDE DEF f, C
    <3> QED BY <2>1, LargestRank
  <2>3. C \subseteq Till(r) BY <1>4, <2>2
  <2>4. Cardinality(Till(r)) <= ChunkSize BY <2>2 DEF FirstOf
  <2>5. IsFiniteSet(Till(r)) /\ Cardinality(Till(r)) \in Nat
    BY SweepAssumption, FS_Subset, FS_CardinalityType
  <2>6. IsFiniteSet(C) /\ Cardinality(C) \in Nat
    BY <1>4, SweepAssumption, FS_Subset, FS_CardinalityType
  <2> HIDE DEF C, Till
  <2>7. Cardinality(C) <= Cardinality(Till(r)) BY <2>3, <2>5, FS_Subset
  <2> QED BY <2>4, <2>5, <2>6, <2>7, SweepAssumption
<1> QED BY <1>1, <1>4, <1>5 DEF Chunk

(* Rows that go together. *)
Alike(P) ==
  \A r, x \in P : table[r].key = table[x].key /\ table[r].stamped = table[x].stamped

(* The partitions have all the rows, each in one, and their rows go        *)
(* together.                                                               *)
LEMMA PartitionsFit ==
  ASSUME NEW S \in SUBSET SweptRow
  PROVE  LET Q == Partitions(S)
         IN /\ Q \in [SweptRow -> SUBSET SweptRow]
            /\ UNION {Q[r] : r \in SweptRow} = S
            /\ \A p, q \in SweptRow : p # q => Q[p] \cap Q[q] = {}
            /\ \A p \in SweptRow : Alike(Q[p])
<1> DEFINE Q == Partitions(S)
           C(r) == Partition(r, S)
<1>1. \A r \in S : r \in C(r) /\ C(r) \in SUBSET S BY DEF Partition, Together
<1>2. \A r \in S : \A x \in C(r) : x \in S /\ C(x) = C(r)
  <2> SUFFICES ASSUME NEW r \in S, NEW x \in C(r) PROVE x \in S /\ C(x) = C(r) OBVIOUS
  <2>1. x \in S /\ Together(r, x) BY DEF Partition
  <2>2. \A y \in S : Together(x, y) <=> Together(r, y) BY <2>1 DEF Together
  <2> QED BY <2>1, <2>2 DEF Partition
<1>3. \A r \in SweptRow : Q[r] = IF r \in S /\ r = Oldest(C(r)) THEN C(r) ELSE {}
  BY DEF Partitions
<1>4. Q \in [SweptRow -> SUBSET SweptRow]
  <2>1. \A r \in SweptRow : (IF r \in S /\ r = Oldest(C(r)) THEN C(r) ELSE {}) \in SUBSET SweptRow
    BY <1>1
  <2> QED BY <2>1 DEF Partitions
<1>5. \A r \in S : Oldest(C(r)) \in S /\ r \in Q[Oldest(C(r))]
  <2> SUFFICES ASSUME NEW r \in S PROVE Oldest(C(r)) \in S /\ r \in Q[Oldest(C(r))] OBVIOUS
  <2> DEFINE p == Oldest(C(r))
  <2>1. p \in C(r)
    <3>1. C(r) \in SUBSET SweptRow /\ C(r) # {} BY <1>1
    <3> QED BY <3>1, OldestIs
  <2>2. p \in S /\ C(p) = C(r) BY <1>2, <2>1
  <2>3. Q[p] = C(r) BY <1>3, <2>2
  <2> QED BY <1>1, <2>2, <2>3
<1> HIDE DEF Q, C
<1>6. \A p \in SweptRow : \A x \in Q[p] : p \in S /\ x \in C(p) /\ p = Oldest(C(p)) /\ Q[p] = C(p)
  BY <1>3
<1>7. UNION {Q[r] : r \in SweptRow} = S
  <2>1. \A p \in SweptRow : Q[p] \subseteq S BY <1>1, <1>6
  <2>2. \A r \in S : \E p \in SweptRow : r \in Q[p] BY <1>5
  <2> QED BY <2>1, <2>2
<1>8. \A p, q \in SweptRow : p # q => Q[p] \cap Q[q] = {}
  <2> SUFFICES ASSUME NEW p \in SweptRow, NEW q \in SweptRow, NEW x \in Q[p], x \in Q[q]
               PROVE  p = q
    OBVIOUS
  <2>1. C(x) = C(p) /\ C(x) = C(q) BY <1>2, <1>6
  <2> QED BY <1>6, <2>1
<1>9. \A p \in SweptRow : Alike(Q[p])
  <2> SUFFICES ASSUME NEW p \in SweptRow, NEW r \in Q[p], NEW x \in Q[p]
               PROVE  table[r].key = table[x].key /\ table[r].stamped = table[x].stamped
    BY DEF Alike
  <2>1. Together(p, r) /\ Together(p, x) BY <1>6 DEF C, Partition
  <2> QED BY <2>1 DEF Together
<1> QED BY <1>4, <1>7, <1>8, <1>9 DEF Q

-----------------------------------------------------------------------------
(* SweepPlan: the invariant.                                               *)

(* What the sweep has taken, as long as it has sent nothing; none of it is *)
(* staged or accepted while it goes on.                                    *)
TakenFit ==
  /\ sweep.by = "none" => sweep.rows = {} /\ sent = NoCall
  /\ sweep.by # "none" => sweep.rows # {}
  /\ \A r \in sweep.rows : table[r].status \notin {"staged", "correcto"}
  /\ sweep.by = "cron" /\ done = {} => sweep.rows = Capped(SweptSendable)
  /\ sweep.by = "force" /\ done = {} => sweep.rows = Selection(sweep.ids)

PlanInv ==
  /\ SweepTypeOK /\ TakenFit /\ SweepMarksAllOnce /\ CallsFit
  /\ \A p \in SweptRow : Alike(plan[p])

LEMMA PlanInit == SweepInit => PlanInv
<1> SUFFICES ASSUME SweepInit PROVE PlanInv OBVIOUS
<1> USE DEF SweepInit
<1>1. Blank \in Table
  <2>1. (CHOOSE k \in Key : TRUE) \in Key BY SweepAssumption
  <2> QED BY <2>1 DEF Blank, Table, SweptStatus
<1>2. SweepTypeOK BY <1>1 DEF SweepTypeOK, Setup, NoSweep, NoPlan, NoCall
<1>3. TakenFit BY DEF TakenFit, NoSweep
<1>4. SweepMarksAllOnce BY DEF SweepMarksAllOnce, Planned, NoPlan, NoSweep
<1>5. CallsFit
  <2>1. Cardinality({}) <= ChunkSize BY FS_EmptySet, SweepAssumption
  <2> QED BY <2>1 DEF CallsFit, NoCall
<1> QED BY <1>2, <1>3, <1>4, <1>5 DEF PlanInv, Alike, NoPlan

(* Before anything has been sent, what was taken is what the properties    *)
(* say.                                                                    *)
LEMMA TakenIsSound == PlanInv => PlanIsSound
<1> SUFFICES ASSUME PlanInv PROVE CapIsLargestPrefix /\ ForceTakesGroups
  BY DEF PlanIsSound, PlanInv
<1>1. Planned = sweep.rows => done = {}
  <2>1. done \subseteq sweep.rows /\ Planned \cap done = {} BY DEF PlanInv, SweepMarksAllOnce
  <2> QED BY <2>1
<1>2. CapIsLargestPrefix
  <2> SUFFICES ASSUME JustTaken("cron")
               PROVE  LET S == SweptSendable
                          T == sweep.rows
                      IN /\ \A r \in T : GroupOf(r, S) \subseteq T
                         /\ \A r \in T, x \in S \ T : Oldest(GroupOf(r, S)) < Oldest(GroupOf(x, S))
                         /\ Cardinality(T) <= SweepLimit \/ T = GroupOf(Oldest(S), S)
                         /\ S # T => LET r == Oldest(S \ T)
                                     IN Cardinality(T) + Cardinality(GroupOf(r, S)) > SweepLimit
    BY DEF CapIsLargestPrefix
  <2>1. sweep.rows = Capped(SweptSendable) /\ sweep.rows # {}
    BY <1>1 DEF JustTaken, PlanInv, TakenFit
  <2>2. SweptSendable \in SUBSET SweptRow BY DEF SweptSendable, StatusIn
  <2>3. SweptSendable # {} BY <2>1 DEF Capped
  <2> QED BY <2>1, <2>2, <2>3, CapFits
<1>3. ForceTakesGroups
  <2> SUFFICES ASSUME JustTaken("force"), NEW r \in SweptRow
               PROVE  r \in sweep.rows <=>
                        /\ table[r].status \notin {"correcto", "staged"}
                        /\ \E x \in sweep.ids :
                             /\ table[x].status \notin {"correcto", "staged"}
                             /\ x = r \/ (table[x].stamped /\ table[r].stamped /\ table[x].key = table[r].key)
    BY DEF ForceTakesGroups
  <2>1. sweep.rows = Selection(sweep.ids) BY <1>1 DEF JustTaken, PlanInv, TakenFit
  <2>2. sweep.ids \in SUBSET SweptRow BY DEF PlanInv, SweepTypeOK
  <2>3. \A x \in SweptRow : x \in StatusIn({"queued", "revisado", "pending"}) <=>
          table[x].status \notin {"correcto", "staged"}
    BY DEF PlanInv, SweepTypeOK, Table, SweptStatus, StatusIn
  <2>4. \A x \in SweptRow : table[x].stamped =>
          (Grp(x) = Grp(r) <=> table[r].stamped /\ table[x].key = table[r].key)
    BY DEF Grp
  <2>5. r \in Selection(sweep.ids) <=>
          /\ r \in StatusIn({"queued", "revisado", "pending"})
          /\ \/ r \in sweep.ids
             \/ \E x \in sweep.ids \cap StatusIn({"queued", "revisado", "pending"}) :
                  table[x].stamped /\ Grp(x) = Grp(r)
    BY DEF Selection, StatusIn
  <2> QED BY <2>1, <2>2, <2>3, <2>4, <2>5
<1> QED BY <1>2, <1>3

LEMMA GivenKeepsPlan == PlanInv /\ Given => PlanInv'
<1> SUFFICES ASSUME PlanInv, Given PROVE PlanInv' OBVIOUS
<1> USE DEF Given
<1>1. sweep.rows = {} /\ sweep.by = "none" /\ sent = NoCall
  <2>1. \A r \in sweep.rows : r \in SweptRow BY DEF PlanInv, SweepTypeOK
  <2>2. sweep.rows = {} BY <2>1 DEF PlanInv, TakenFit, Blank
  <2> QED BY <2>2 DEF PlanInv, TakenFit
<1>2. SweepTypeOK'
  <2>1. table' \in Table
    <3> SUFFICES ASSUME NEW key \in [SweptRow -> Key],
                        NEW status \in [SweptRow -> {"queued", "revisado", "staged"}],
                        NEW old \in Legacy,
                        table' = [r \in SweptRow |->
                                    [key |-> key[r], stamped |-> r > old, status |-> status[r]]]
                 PROVE  table' \in Table
      OBVIOUS
    <3> SUFFICES ASSUME NEW r \in SweptRow
                 PROVE  [key |-> key[r], stamped |-> r > old, status |-> status[r]]
                          \in [key : Key, stamped : BOOLEAN, status : SweptStatus]
      BY DEF Table
    <3>1. (r > old) \in BOOLEAN BY SweepAssumption
    <3>2. status[r] \in SweptStatus BY DEF SweptStatus
    <3> QED BY <3>1, <3>2
  <2>2. setup' \in Setup
    <3>1. (CHOOSE k \in Key : TRUE) \in Key BY SweepAssumption
    <3> QED BY <3>1 DEF Setup
  <2> QED BY <2>1, <2>2 DEF PlanInv, SweepTypeOK
<1>3. TakenFit' BY <1>1 DEF TakenFit
<1>4. SweepMarksAllOnce' BY DEF PlanInv, SweepMarksAllOnce, Planned
<1>5. CallsFit'
  <2>1. Cardinality({}) <= ChunkSize BY FS_EmptySet, SweepAssumption
  <2>2. sent' = NoCall BY <1>1
  <2> QED BY <2>1, <2>2 DEF CallsFit, NoCall
<1>6. \A p \in SweptRow : Alike(plan[p])'
  <2>1. \A p \in SweptRow : plan[p] = {}
    <3>1. Planned = {} BY <1>1 DEF PlanInv, SweepMarksAllOnce
    <3> QED BY <3>1 DEF Planned
  <2> QED BY <2>1 DEF Alike
<1> QED BY <1>2, <1>3, <1>4, <1>5, <1>6 DEF PlanInv

LEMMA StartKeepsPlan ==
  ASSUME PlanInv, NEW origin \in {"cron", "force"}, NEW ids \in SUBSET SweptRow,
         NEW rows \in SUBSET SweptRow, Start(origin, ids, rows),
         \A r \in rows : table[r].status \notin {"staged", "correcto"},
         origin = "cron" => rows = Capped(SweptSendable),
         origin = "force" => rows = Selection(ids)
  PROVE  PlanInv'
<1> USE DEF Start
<1>1. plan' = Partitions(rows) /\ sweep' = [by |-> origin, ids |-> ids, rows |-> rows] /\ rows # {}
      /\ done' = {} /\ table' = table /\ setup' = setup /\ sent' = sent
  OBVIOUS
<1>2. /\ plan' \in [SweptRow -> SUBSET SweptRow]
      /\ UNION {plan'[r] : r \in SweptRow} = rows
      /\ \A p, q \in SweptRow : p # q => plan'[p] \cap plan'[q] = {}
      /\ \A p \in SweptRow : Alike(plan'[p])
  BY <1>1, PartitionsFit
<1>3. SweepTypeOK' BY <1>1, <1>2 DEF PlanInv, SweepTypeOK
<1>4. TakenFit'
  <2>1. Capped(SweptSendable)' = Capped(SweptSendable)
    BY <1>1 DEF Capped, SweptSendable, StatusIn, UpTo, GroupOf, Grp
  <2>2. Selection(ids)' = Selection(ids) BY <1>1 DEF Selection, StatusIn, Grp
  <2>3. sweep'.ids = ids BY <1>1
  <2> QED BY <1>1, <2>1, <2>2, <2>3 DEF TakenFit
<1>5. SweepMarksAllOnce' BY <1>1, <1>2 DEF SweepMarksAllOnce, Planned
<1>6. CallsFit' BY <1>1 DEF PlanInv, CallsFit, Combined, GroupOf, Grp
<1>7. \A p \in SweptRow : Alike(plan[p])' BY <1>1, <1>2 DEF Alike
<1> QED BY <1>3, <1>4, <1>5, <1>6, <1>7 DEF PlanInv

(* The group of a row and whether it is combined do not change by a call.  *)
LEMMA CombinedKept ==
  ASSUME NEW f \in SweptRow, setup' = setup,
         \A r \in SweptRow : table'[r].key = table[r].key /\ table'[r].stamped = table[r].stamped
  PROVE  (Combined(f)' <=> Combined(f)) /\ GroupOf(f, SweptRow)' = GroupOf(f, SweptRow)
<1>1. \A x \in SweptRow : Grp(x)' = Grp(x) BY DEF Grp
<1>2. GroupOf(f, SweptRow)' = {x \in SweptRow : Grp(x)' = Grp(f)'} BY DEF GroupOf
<1> QED BY <1>1, <1>2 DEF Combined, GroupOf

LEMMA CallKeepsPlan == PlanInv /\ MakeCall => PlanInv'
<1> SUFFICES ASSUME PlanInv, MakeCall PROVE PlanInv' OBVIOUS
<1> DEFINE p == Current
           P == plan[Current]
           M == Chunk(plan[Current])
<1>1. /\ table \in Table /\ plan \in [SweptRow -> SUBSET SweptRow] /\ done \in SUBSET SweptRow
      /\ setup \in Setup
      /\ sweep \in [by : {"none", "cron", "force"}, ids : SUBSET SweptRow, rows : SUBSET SweptRow]
  BY DEF PlanInv, SweepTypeOK
<1>2. p \in SweptRow /\ P # {} /\ P \in SUBSET SweptRow
  <2> DEFINE X == {r \in SweptRow : plan[r] # {}}
  <2>1. X # {}
    <3> SUFFICES ASSUME \A r \in SweptRow : plan[r] = {} PROVE plan = NoPlan
      BY DEF MakeCall
    <3> QED BY <1>1 DEF NoPlan
  <2>2. Oldest(X) \in X BY <2>1, OldestIs
  <2> QED BY <1>1, <2>2 DEF Current
<1>3. /\ M \in SUBSET P /\ M # {}
      /\ Combined(Oldest(P)) => M = P
      /\ ~Combined(Oldest(P)) => Cardinality(M) <= ChunkSize
  BY <1>2, ChunksFit
<1>4. /\ sent' = [marks |-> M, data |-> CallData(M)]
      /\ plan' = [plan EXCEPT ![p] = @ \ M]
      /\ done' = done \cup M
      /\ setup' = setup /\ sweep' = sweep
      /\ table' = [r \in SweptRow |-> IF r \notin M THEN table[r] ELSE
             [table[r] EXCEPT !.status = IF Fails(M) THEN "queued" ELSE "pending"]]
  BY DEF MakeCall
<1>5. table' \in Table /\ \A r \in SweptRow :
        /\ table'[r].key = table[r].key /\ table'[r].stamped = table[r].stamped
        /\ table'[r].status \in {table[r].status, "queued", "pending"}
  BY <1>1, <1>4 DEF Table, SweptStatus
<1>6. CallData(M) \in SUBSET SweptRow
  BY <1>2, <1>3 DEF CallData, GroupOf
<1> HIDE DEF M, P, p
<1>7. plan' \in [SweptRow -> SUBSET SweptRow] /\ plan'[p] = P \ M
      /\ \A q \in SweptRow : q # p => plan'[q] = plan[q]
  BY <1>1, <1>2, <1>3, <1>4 DEF P, p
<1>8. SweepTypeOK' BY <1>1, <1>2, <1>3, <1>4, <1>5, <1>6, <1>7 DEF SweepTypeOK
<1>9. Planned \cup done = sweep.rows /\ Planned \cap done = {} /\ P \subseteq Planned
      /\ \A i, j \in SweptRow : i # j => plan[i] \cap plan[j] = {}
  BY <1>2 DEF PlanInv, SweepMarksAllOnce, Planned, P, p
<1>10. TakenFit'
  <2>1. sweep.rows # {} /\ done' # {} BY <1>2, <1>3, <1>4, <1>9
  <2>2. sweep.by # "none" BY <2>1 DEF PlanInv, TakenFit
  <2>3. \A r \in sweep.rows : table'[r].status \notin {"staged", "correcto"}
    BY <1>1, <1>5 DEF PlanInv, TakenFit
  <2> QED BY <1>4, <2>1, <2>2, <2>3 DEF TakenFit
<1>11. SweepMarksAllOnce'
  <2>1. Planned' = Planned \ M
    <3>1. \A q \in SweptRow : plan'[q] \subseteq plan[q] /\ plan'[q] \cap M = {}
      <4> SUFFICES ASSUME NEW q \in SweptRow
                   PROVE  plan'[q] \subseteq plan[q] /\ plan'[q] \cap M = {}
        OBVIOUS
      <4>1. CASE q = p BY <1>7, <4>1 DEF P, p
      <4>2. CASE q # p
        <5>1. plan[q] \cap P = {} BY <1>2, <1>9, <4>2 DEF P, p
        <5> QED BY <1>3, <1>7, <4>2, <5>1
      <4> QED BY <4>1, <4>2
    <3>2. \A q \in SweptRow : plan[q] \ M \subseteq plan'[q]
      <4> SUFFICES ASSUME NEW q \in SweptRow PROVE plan[q] \ M \subseteq plan'[q] OBVIOUS
      <4>1. CASE q = p BY <1>7, <4>1 DEF P, p
      <4>2. CASE q # p BY <1>7, <4>2
      <4> QED BY <4>1, <4>2
    <3> QED BY <3>1, <3>2 DEF Planned
  <2>2. Planned' \cup done' = sweep'.rows BY <1>3, <1>4, <1>9, <2>1
  <2>3. Planned' \cap done' = {} BY <1>4, <1>9, <2>1
  <2>4. \A i, j \in SweptRow : i # j => plan'[i] \cap plan'[j] = {}
    <3>1. \A q \in SweptRow : plan'[q] \subseteq plan[q] BY <1>7 DEF P, p
    <3> QED BY <1>9, <3>1
  <2> QED BY <2>2, <2>3, <2>4 DEF SweepMarksAllOnce
<1>12. \A r, x \in P : table[r].key = table[x].key /\ table[r].stamped = table[x].stamped
  BY <1>2 DEF PlanInv, Alike, P, p
<1>13. \A q \in SweptRow : Alike(plan[q])'
  <2> SUFFICES ASSUME NEW q \in SweptRow, NEW r \in plan'[q], NEW x \in plan'[q]
               PROVE  table'[r].key = table'[x].key /\ table'[r].stamped = table'[x].stamped
    BY DEF Alike
  <2>1. r \in plan[q] /\ x \in plan[q] /\ r \in SweptRow /\ x \in SweptRow
    BY <1>1, <1>7 DEF P, p
  <2> QED BY <1>5, <2>1 DEF PlanInv, Alike
<1>14. CallsFit'
  <2> PICK m \in SUBSET SweptRow : m = M BY <1>2, <1>3
  <2> PICK d \in SUBSET SweptRow : d = CallData(m) BY <1>6
  <2> DEFINE f == Oldest(m)
  <2>1. f \in m /\ f \in P /\ f \in SweptRow
    <3>1. f \in m BY <1>3, OldestIs
    <3> QED BY <1>2, <1>3, <3>1
  <2>2. Oldest(P) \in P BY <1>2, OldestIs
  <2>3. Combined(Oldest(P)) <=> Combined(f)
    BY <1>12, <2>1, <2>2 DEF Combined
  <2>4. sent'.marks = m /\ sent'.data = d /\ m # {} BY <1>3, <1>4
  <2> HIDE DEF f
  <2>5. (Combined(f)' <=> Combined(f)) /\ GroupOf(f, SweptRow)' = GroupOf(f, SweptRow)
    BY <1>4, <1>5, <2>1, CombinedKept
  <2>6. CASE Combined(f)
    <3>1. d = GroupOf(f, SweptRow) BY <2>6 DEF CallData, f
    <3>2. table[f].stamped BY <2>6 DEF Combined
    <3>3. \A x \in P : x \in GroupOf(f, SweptRow)
      BY <1>2, <1>12, <2>1, <3>2 DEF GroupOf, Grp
    <3>4. \A x \in GroupOf(f, SweptRow) : x \in SweptRow /\ table[x].key = table[f].key
      BY <3>2 DEF GroupOf, Grp
    <3>5. m \subseteq d BY <1>3, <3>1, <3>3
    <3>6. \A r, x \in d : table'[r].key = table'[x].key BY <1>5, <3>1, <3>4
    <3>7. Combined(f)' /\ d = GroupOf(f, SweptRow)' BY <2>5, <2>6, <3>1
    <3> QED BY <2>4, <3>5, <3>6, <3>7 DEF CallsFit, f
  <2>7. CASE ~Combined(f)
    <3>1. d = m BY <2>7 DEF CallData, f
    <3>2. \A r, x \in m : table'[r].key = table'[x].key
      BY <1>2, <1>3, <1>5, <1>12
    <3>3. Cardinality(m) <= ChunkSize BY <1>3, <2>3, <2>7
    <3>4. ~Combined(f)' BY <2>5, <2>7
    <3> QED BY <2>4, <3>1, <3>2, <3>3, <3>4 DEF CallsFit, f
  <2> QED BY <2>6, <2>7
<1> QED BY <1>8, <1>10, <1>11, <1>13, <1>14 DEF PlanInv

LEMMA PlanStep == PlanInv /\ [SweepNext]_sweepVars => PlanInv'
<1> SUFFICES ASSUME PlanInv, [SweepNext]_sweepVars PROVE PlanInv' OBVIOUS
<1>1. CASE Given BY <1>1, GivenKeepsPlan
<1>2. CASE StartSweep
  <2>1. SweptSendable \in SUBSET SweptRow
        /\ \A r \in SweptSendable : table[r].status \notin {"staged", "correcto"}
    BY DEF SweptSendable, StatusIn
  <2>2. Capped(SweptSendable) \in SUBSET SweptSendable BY DEF Capped
  <2> QED BY <1>2, <2>1, <2>2, StartKeepsPlan DEF StartSweep
<1>3. CASE \E ids \in SUBSET SweptRow : StartForce(ids)
  <2> PICK ids \in SUBSET SweptRow : StartForce(ids) BY <1>3
  <2>1. Selection(ids) \in SUBSET SweptRow
        /\ \A r \in Selection(ids) : table[r].status \notin {"staged", "correcto"}
    BY DEF Selection, StatusIn
  <2> QED BY <2>1, StartKeepsPlan DEF StartForce
<1>4. CASE MakeCall BY <1>4, CallKeepsPlan
<1>5. CASE UNCHANGED sweepVars
  <2> USE <1>5 DEF sweepVars
  <2>1. SweepTypeOK' BY DEF PlanInv, SweepTypeOK
  <2>2. Capped(SweptSendable)' = Capped(SweptSendable)
    BY DEF Capped, SweptSendable, StatusIn, UpTo, GroupOf, Grp
  <2>3. Selection(sweep.ids)' = Selection(sweep.ids) BY DEF Selection, StatusIn, Grp
  <2>4. TakenFit' BY <2>2, <2>3 DEF PlanInv, TakenFit
  <2>5. SweepMarksAllOnce' BY DEF PlanInv, SweepMarksAllOnce, Planned
  <2>6. CallsFit' BY DEF PlanInv, CallsFit, Combined, GroupOf, Grp
  <2>7. \A p \in SweptRow : Alike(plan[p])' BY DEF PlanInv, Alike
  <2> QED BY <2>1, <2>4, <2>5, <2>6, <2>7 DEF PlanInv
<1> QED BY <1>1, <1>2, <1>3, <1>4, <1>5 DEF SweepNext

(* On every table, of any size, with any limit and chunk size: the cap     *)
(* takes the oldest groups whole, a force-submit no group in part, every   *)
(* row taken goes in exactly one call, and a call is of one group and no   *)
(* larger than the chunk size, the combined record apart.                  *)
THEOREM PlansAreSound == SweepSpec => []PlanIsSound
<1>1. SweepSpec => []PlanInv BY PlanInit, PlanStep, PTL DEF SweepSpec
<1> QED BY <1>1, TakenIsSound, PTL

(* The tables, plans and calls of sweeps are of their types.               *)
THEOREM PlanTypesCorrect == SweepSpec => []SweepTypeOK
<1>1. PlanInv => SweepTypeOK BY DEF PlanInv
<1> QED BY <1>1, PlanInit, PlanStep, PTL DEF SweepSpec

-----------------------------------------------------------------------------
(* Sequences and numbers.                                                  *)

LEMMA NatMin ==
  ASSUME NEW S \in SUBSET Nat, S # {}
  PROVE  Min(S) \in S /\ \A y \in S : Min(S) <= y
BY LeastNumber DEF Min

Joined(a, sep, b) == a \o <<sep>> \o b

(* A separator that is in no part: the parts can be told apart.            *)
LEMMA Separated ==
  ASSUME NEW L, NEW sep, sep \notin L,
         NEW a \in Seq(L), NEW b \in Seq(L), NEW c \in Seq(L), NEW d \in Seq(L),
         Joined(a, sep, b) = Joined(c, sep, d)
  PROVE  a = c /\ b = d
<1> DEFINE X == a \o <<sep>> \o b
           Y == c \o <<sep>> \o d
<1>1. Len(X) = Len(a) + 1 + Len(b) /\ Len(Y) = Len(c) + 1 + Len(d) OBVIOUS
<1>2. X[Len(a) + 1] = sep /\ Y[Len(c) + 1] = sep OBVIOUS
<1>3. \A i \in 1..Len(a) : X[i] = a[i] OBVIOUS
<1>4. \A i \in 1..Len(c) : Y[i] = c[i] OBVIOUS
<1>5. \A i \in 1..Len(b) : X[Len(a) + 1 + i] = b[i] OBVIOUS
<1>6. \A i \in 1..Len(d) : Y[Len(c) + 1 + i] = d[i] OBVIOUS
<1>7. X = Y BY DEF Joined
<1> HIDE DEF X, Y
<1>8. ~(Len(a) < Len(c))
  <2> SUFFICES ASSUME Len(a) < Len(c) PROVE FALSE OBVIOUS
  <2>1. Len(a) + 1 \in 1..Len(c) OBVIOUS
  <2>2. c[Len(a) + 1] \in L BY <2>1
  <2>3. Y[Len(a) + 1] = sep BY <1>2, <1>7
  <2> QED BY <1>4, <2>1, <2>2, <2>3
<1>9. ~(Len(c) < Len(a))
  <2> SUFFICES ASSUME Len(c) < Len(a) PROVE FALSE OBVIOUS
  <2>1. Len(c) + 1 \in 1..Len(a) OBVIOUS
  <2>2. a[Len(c) + 1] \in L BY <2>1
  <2>3. X[Len(c) + 1] = sep BY <1>2, <1>7
  <2> QED BY <1>3, <2>1, <2>2, <2>3
<1>10. Len(a) = Len(c) BY <1>8, <1>9
<1>11. Len(b) = Len(d) BY <1>1, <1>7, <1>10
<1>12. \A i \in 1..Len(a) : a[i] = c[i] BY <1>3, <1>4, <1>7, <1>10
<1>13. \A i \in 1..Len(b) : b[i] = d[i] BY <1>5, <1>6, <1>7, <1>10, <1>11
<1>14. a = c BY <1>10, <1>12, SeqEqual
<1>15. b = d BY <1>11, <1>13, SeqEqual
<1> QED BY <1>14, <1>15

Keyed(x, sep, a, b) == <<x>> \o (<<sep>> \o a) \o (<<sep>> \o b)

(* The same behind a first element and another separator.                  *)
LEMMA SeparatedBehind ==
  ASSUME NEW L, NEW sep, sep \notin L, NEW x, NEW y,
         NEW a \in Seq(L), NEW b \in Seq(L), NEW c \in Seq(L), NEW d \in Seq(L),
         Keyed(x, sep, a, b) = Keyed(y, sep, c, d)
  PROVE  a = c /\ b = d
<1> DEFINE X == a \o <<sep>> \o b
           Y == c \o <<sep>> \o d
           M == L \cup {sep}
           V == <<x>> \o (<<sep>> \o a) \o (<<sep>> \o b)
           W == <<y>> \o (<<sep>> \o c) \o (<<sep>> \o d)
<1>1. X \in Seq(M) /\ Y \in Seq(M) OBVIOUS
<1>2. Len(V) = Len(X) + 2 /\ Len(W) = Len(Y) + 2 OBVIOUS
<1>3. \A i \in 1..Len(X) : X[i] = V[i + 2] OBVIOUS
<1>4. \A i \in 1..Len(Y) : Y[i] = W[i + 2] OBVIOUS
<1>5. V = W BY DEF Keyed
<1> HIDE DEF V, W, X, Y, M
<1>6. Len(X) = Len(Y) BY <1>1, <1>2, <1>5
<1>7. \A i \in 1..Len(X) : X[i] = Y[i] BY <1>3, <1>4, <1>5, <1>6
<1>8. X = Y BY <1>1, <1>6, <1>7, SeqEqual
<1>9. Joined(a, sep, b) = Joined(c, sep, d) BY <1>8 DEF X, Y, Joined
<1> QED BY <1>9, Separated

-----------------------------------------------------------------------------
(* Payload: what goes to the vendor, and what its answer reaches.          *)

Cells == [doc_id : Texts \cup {Missing}, nif : Texts \cup {<<>>}, conn : Linked \cup {NoLink}]

LEMMA TextsFit ==
  ASSUME pdata \in [PRow -> Cells], NEW r \in PRow
  PROVE  /\ Text(r, "doc_id") = Missing \/ Text(r, "doc_id") \in Seq(Letter)
         /\ Text(r, "nif") \in Seq(Letter) /\ Blanked(Text(r, "nif")) = Text(r, "nif")
         /\ Blanked(Text(r, "doc_id")) \in Seq(Letter)
         /\ Blanked(Text(r, "doc_id")) # <<>> => Text(r, "doc_id") = Blanked(Text(r, "doc_id"))
                                                 /\ Text(r, "doc_id") # Missing
<1>1. pdata[r] \in Cells OBVIOUS
<1>2. Text(r, "doc_id") \in Texts \cup {Missing} /\ Text(r, "nif") \in Texts \cup {<<>>}
  BY <1>1 DEF Text, Cells
<1>3. Texts \subseteq Seq(Letter) /\ <<>> \in Seq(Letter) BY PayloadAssumption
<1>4. Missing \notin Seq(Letter)
  <2>1. Missing[1] = "missing" /\ Len(Missing) = 1 BY DEF Missing
  <2>2. ASSUME Missing \in Seq(Letter) PROVE FALSE
    <3>1. Missing[1] \in Letter BY <2>1, <2>2
    <3> QED BY <2>1, <3>1 DEF Letter
  <2> QED BY <2>2
<1> QED BY <1>2, <1>3, <1>4 DEF Blanked

(* Rows with one group_id have the same texts in the columns of groupBy.   *)
LEMMA GroupsAgree ==
  ASSUME pdata \in [PRow -> Cells], pconf \in Conf,
         NEW r \in PRow, NEW s \in PRow, GroupId(r) = GroupId(s),
         NEW k \in pconf.groupBy
  PROVE  Blanked(Text(r, k)) = Blanked(Text(s, k))
<1> DEFINE a == Blanked(Text(r, "doc_id"))
           b == Text(r, "nif")
           c == Blanked(Text(s, "doc_id"))
           d == Text(s, "nif")
           x == pdata[r].conn
           y == pdata[s].conn
<1>1. a \in Seq(Letter) /\ b \in Seq(Letter) /\ c \in Seq(Letter) /\ d \in Seq(Letter)
  BY TextsFit
<1>2. b = Blanked(Text(r, "nif")) /\ d = Blanked(Text(s, "nif"))
  BY TextsFit
<1>3. pconf.groupBy \in {{}, {"doc_id"}, {"doc_id", "nif"}}
  BY DEF Conf
<1>4. "sep" \notin Letter BY DEF Letter
<1>5. CASE pconf.groupBy = {"doc_id"}
  <2>1. <<x>> \o (<<"sep">> \o a) \o <<>> = <<y>> \o (<<"sep">> \o c) \o <<>>
    BY <1>5 DEF GroupId
  <2> HIDE DEF a, c, x, y
  <2> DEFINE empty == <<>>
  <2>2. Keyed(x, "sep", a, empty) = Keyed(y, "sep", c, empty)
    BY <1>1, <2>1 DEF Keyed
  <2>3. empty \in Seq(Letter) OBVIOUS
  <2> HIDE DEF empty
  <2>4. a = c BY <1>1, <1>4, <2>2, <2>3, SeparatedBehind
  <2> QED BY <1>5, <2>4 DEF a, c
<1>6. CASE pconf.groupBy = {"doc_id", "nif"}
  <2>1. Keyed(x, "sep", a, b) = Keyed(y, "sep", c, d)
    BY <1>6 DEF GroupId, Keyed
  <2> HIDE DEF a, b, c, d, x, y
  <2>2. a = c /\ b = d BY <1>1, <1>4, <2>1, SeparatedBehind
  <2> QED BY <1>2, <1>6, <2>2 DEF a, c
<1> QED BY <1>3, <1>5, <1>6

(* Every row names itself, whatever columns it has besides.                *)
LEMMA RowsNamed ==
  ASSUME NEW r
  PROVE  FlatItem(r).ref = {r} /\ LineItem(r).ref = {r}
<1>1. \A k : Camel(k) # "internal_ref"
  BY DEF Camel
<1>2. "internal_ref" \notin DOMAIN Data(r)
  BY <1>1 DEF Data
<1> QED
  BY <1>2 DEF FlatItem, LineItem

(* What a call and its answer are. *)
PayloadTyped ==
  /\ pdata \in [PRow -> Cells] /\ pconf \in Conf
  /\ outgoing.kind \in {"none", "refused", "flat", "collapsed", "delete"}
  /\ outgoing.rows \subseteq PRow
  /\ mapped \in [at : {"none", "mapped"}, lineItems : SUBSET PRow, whole : BOOLEAN]

CallFits ==
  /\ outgoing.kind \in {"flat", "collapsed"} =>
       /\ outgoing.rows # {}
       /\ \A r \in outgoing.rows : pdata[r].conn # NoLink /\ Ref(r) = {r}
  /\ outgoing.kind = "collapsed" =>
       /\ \A r, s \in outgoing.rows : GroupId(r) = GroupId(s)
       /\ \A S \in SUBSET PRow : S = outgoing.rows => outgoing.header = Shown(S)
  /\ mapped.at = "mapped" => outgoing.kind \in {"flat", "collapsed"}

PayloadInv == PayloadTyped /\ CallFits /\ EchoReachesRows

LEMMA HeaderFits ==
  ASSUME PayloadInv
  PROVE  HeaderSpeaksForAll
<1> SUFFICES ASSUME outgoing.kind = "collapsed",
                    NEW r \in outgoing.rows, NEW k \in pconf.groupBy \ pconf.excluded,
                    Camel(k) # pconf.rowsField, Blanked(Text(r, k)) # <<>>
             PROVE  outgoing.header[Camel(k)] = Text(r, k)
  BY DEF HeaderSpeaksForAll
<1> DEFINE n == Camel(k)
           S == outgoing.rows
           D == {x \in S : n \in DOMAIN Data(x)}
<1>1. /\ pdata \in [PRow -> Cells] /\ pconf \in Conf /\ S \subseteq PRow
      /\ outgoing.header = Shown(S) /\ \A x \in S : GroupId(x) = GroupId(r)
  <2>1. pdata \in [PRow -> Cells] /\ pconf \in Conf /\ S \in SUBSET PRow
    BY DEF PayloadInv, PayloadTyped
  <2> QED BY <2>1 DEF PayloadInv, CallFits
<1>2. k \in {"doc_id", "nif"} /\ k \in Columns
  BY <1>1 DEF Conf, Columns
<1>3. ASSUME NEW x \in S, Blanked(Text(x, k)) # <<>>
      PROVE  /\ Has(x, k) /\ n \in DOMAIN Data(x) /\ Data(x)[n] = Text(x, k)
             /\ Text(x, k) = Blanked(Text(x, k))
  <2>1. Text(x, k) = Blanked(Text(x, k)) /\ (k = "doc_id" => Text(x, k) # Missing)
    BY <1>1, <1>2, <1>3, TextsFit
  <2>2. Has(x, k)
    BY <1>2, <2>1 DEF Has
  <2>3. n \in DOMAIN Data(x)
    BY <1>2, <2>2 DEF Data
  <2>4. CASE k = "doc_id"
    <3>1. n = "docId" BY <2>4 DEF Camel
    <3>2. Data(x)[n] = Value(x, "doc_id") BY <2>2, <2>3, <2>4, <3>1 DEF Data
    <3> QED BY <2>1, <2>2, <2>3, <2>4, <3>2 DEF Value, Extra
  <2>5. CASE k = "nif"
    <3>1. n = "nif" BY <2>5 DEF Camel
    <3>2. \A c \in Columns : Camel(c) = "nif" <=> c = "nif"
      BY <1>1 DEF Camel, Columns, Conf, Extra
    <3>3. (CHOOSE c \in Columns : Camel(c) = n /\ Has(x, c)) = "nif"
      BY <1>2, <2>2, <2>5, <3>1, <3>2
    <3>4. Data(x)[n] = Value(x, "nif")
      BY <2>3, <3>1, <3>3 DEF Data
    <3> QED BY <2>1, <2>2, <2>3, <2>5, <3>4 DEF Value, Extra
  <2> QED BY <1>2, <2>4, <2>5
<1>4. r \in D
  BY <1>3
<1>5. D \in SUBSET Nat /\ D # {}
  BY <1>1, <1>4, PayloadAssumption
<1>6. Min(D) \in D
  BY <1>5, NatMin
<1>7. Blanked(Text(Min(D), k)) = Blanked(Text(r, k))
  <2>1. Min(D) \in PRow /\ r \in PRow /\ GroupId(Min(D)) = GroupId(r)
    BY <1>1, <1>6
  <2> QED BY <1>1, <2>1, GroupsAgree
<1>8. Data(Min(D))[n] = Text(r, k)
  <2>1. Min(D) \in S BY <1>6
  <2> HIDE DEF D
  <2> QED BY <1>3, <1>7, <2>1
<1>9. n \in DOMAIN Header(S) /\ Header(S)[n] = Data(Min(D))[n]
  <2>1. n \in Lifted BY DEF Lifted
  <2> QED BY <1>4, <2>1 DEF Header
<1>10. Shown(S)[n] = Header(S)[n]
  BY <1>9 DEF Shown, Restrict
<1> QED
  BY <1>1, <1>8, <1>9, <1>10

(* The path of a delete: two texts around a "-" that is in neither, or the *)
(* id of the row, which is no such path.                                   *)
Dashless(t) == "-" \notin Range(t)

LEMMA DashlessTexts ==
  ASSUME NEW t \in Seq(Letter), Dashless(t)
  PROVE  t \in Seq({"a"})
<1>1. \A i \in 1..Len(t) : t[i] \in Letter /\ t[i] # "-"
  BY DEF Dashless, Range
<1>2. \A i \in 1..Len(t) : t[i] \in {"a"}
  BY <1>1 DEF Letter
<1>3. DOMAIN t = 1..Len(t) /\ Len(t) \in Nat /\ t = [i \in 1..Len(t) |-> t[i]]
  OBVIOUS
<1> QED
  BY <1>2, <1>3

LEMMA DeletesFit ==
  ASSUME PayloadTyped
  PROVE  DeletesHitOwn
<1> SUFFICES ASSUME NEW r \in PRow, NEW s \in PRow,
                    \A x \in {r, s}, k \in {"doc_id", "nif"} : Dashless(Text(x, k)),
                    Target(r) = Target(s)
             PROVE  r = s \/ (Text(r, "doc_id") = Text(s, "doc_id") /\ Text(r, "nif") = Text(s, "nif"))
  BY DEF DeletesHitOwn, Dashless, PayloadTyped
<1> DEFINE Full(x) == Blanked(Text(x, "doc_id")) # <<>> /\ Text(x, "nif") # <<>>
<1>1. ASSUME NEW x \in {r, s}, Full(x)
      PROVE  /\ Text(x, "doc_id") \in Seq({"a"}) /\ Text(x, "nif") \in Seq({"a"})
             /\ Target(x) = Joined(Text(x, "doc_id"), "-", Text(x, "nif"))
             /\ Len(Target(x)) > 2
  <2>1. Text(x, "doc_id") \in Seq(Letter) /\ Text(x, "nif") \in Seq(Letter)
        /\ Text(x, "doc_id") # <<>>
    BY <1>1, TextsFit DEF PayloadTyped
  <2>2. Text(x, "doc_id") \in Seq({"a"}) /\ Text(x, "nif") \in Seq({"a"})
    BY <2>1, DashlessTexts
  <2>3. Target(x) = Joined(Text(x, "doc_id"), "-", Text(x, "nif"))
    BY <1>1 DEF Target, Joined
  <2>4. Len(Text(x, "doc_id")) > 0 /\ Len(Text(x, "nif")) > 0
    BY <1>1, <2>1
  <2>5. Len(Target(x)) > 2
    BY <2>1, <2>3, <2>4 DEF Joined
  <2> QED
    BY <2>2, <2>3, <2>5
<1>2. ASSUME NEW x \in {r, s}, ~ Full(x)
      PROVE  Target(x) = <<"row", x>> /\ Len(Target(x)) = 2
  BY <1>2 DEF Target
<1>3. CASE Full(r) /\ Full(s)
  <2> DEFINE a == Text(r, "doc_id")
             b == Text(r, "nif")
             c == Text(s, "doc_id")
             d == Text(s, "nif")
             A == {"a"}
  <2>1. Joined(a, "-", b) = Joined(c, "-", d)
    BY <1>1, <1>3
  <2>2. "-" \notin A
    OBVIOUS
  <2>3. a \in Seq(A) /\ b \in Seq(A) /\ c \in Seq(A) /\ d \in Seq(A)
    BY <1>1, <1>3
  <2> HIDE DEF a, b, c, d, A
  <2>4. a = c /\ b = d
    BY <2>1, <2>2, <2>3, Separated
  <2> QED
    BY <2>4 DEF a, b, c, d
<1>4. CASE ~ Full(r) /\ ~ Full(s)
  <2>1. <<"row", r>> = <<"row", s>>
    BY <1>2, <1>4
  <2>2. <<"row", r>>[2] = r /\ <<"row", s>>[2] = s
    OBVIOUS
  <2> QED
    BY <2>1, <2>2
<1>5. CASE Full(r) # Full(s)
  <2>1. Len(Target(r)) # Len(Target(s))
    <3>1. CASE Full(r) /\ ~ Full(s)
      <4>1. Len(Target(r)) > 2 /\ Len(Target(s)) = 2 BY <1>1, <1>2, <3>1
      <4> QED BY <4>1
    <3>2. CASE ~ Full(r) /\ Full(s)
      <4>1. Len(Target(r)) = 2 /\ Len(Target(s)) > 2 BY <1>1, <1>2, <3>2
      <4> QED BY <4>1
    <3> QED BY <1>5, <3>1, <3>2
  <2> QED
    BY <2>1
<1> QED
  BY <1>3, <1>4, <1>5

LEMMA DataStays ==
  ASSUME UNCHANGED <<pdata, pconf>>
  PROVE  /\ \A r : Data(r)' = Data(r) /\ GroupId(r)' = GroupId(r)
         /\ \A S : Shown(S)' = Shown(S)
<1>1. \A r : Data(r)' = Data(r) /\ GroupId(r)' = GroupId(r)
  BY DEF Data, Columns, Has, Value, Text, GroupId
<1>2. Lifted' = Lifted
  BY DEF Lifted
<1>3. \A S : Shown(S)' = Shown(S)
  BY <1>1, <1>2 DEF Shown, Header
<1> QED
  BY <1>1, <1>3

LEMMA CallStays ==
  ASSUME PayloadInv, UNCHANGED <<pdata, pconf, outgoing>>,
         mapped'.at = "mapped" => outgoing.kind \in {"flat", "collapsed"}
  PROVE  CallFits'
<1>1. /\ \A r : GroupId(r)' = GroupId(r) /\ Ref(r)' = Ref(r)
      /\ \A S : Shown(S)' = Shown(S)
  BY DataStays DEF Ref
<1> QED
  BY <1>1 DEF PayloadInv, CallFits

LEMMA PayloadStep == PayloadInv /\ [PayloadNext]_payloadVars => PayloadInv'
<1> SUFFICES ASSUME PayloadInv, [PayloadNext]_payloadVars PROVE PayloadInv'
  OBVIOUS
<1>1. CASE UNCHANGED payloadVars
  <2>1. CallFits'
    BY <1>1, CallStays DEF payloadVars, PayloadInv, CallFits
  <2> QED
    BY <1>1, <2>1 DEF payloadVars, PayloadInv, PayloadTyped, EchoReachesRows
<1>2. CASE GivenPayload
  <2>1. pdata' \in [PRow -> Cells]
    BY <1>2 DEF GivenPayload, Cells
  <2>2. pconf' \in Conf /\ UNCHANGED <<outgoing, mapped>> /\ \A r \in PRow : pdata[r].conn = NoLink
    BY <1>2 DEF GivenPayload
  <2>3. outgoing.kind \notin {"flat", "collapsed"}
    BY <2>2 DEF PayloadInv, PayloadTyped, CallFits
  <2> QED
    BY <2>1, <2>2, <2>3 DEF PayloadInv, PayloadTyped, CallFits, EchoReachesRows
<1>3. ASSUME NEW S \in SUBSET PRow, SubmitGroup(S) PROVE PayloadInv'
  <2>1. /\ S # {} /\ outgoing.kind = "none" /\ \A r \in S : pdata[r].conn # NoLink
        /\ \A r, s \in S : GroupId(r) = GroupId(s)
        /\ UNCHANGED <<pdata, pconf, mapped>>
    BY <1>3 DEF SubmitGroup
  <2>2. mapped.at # "mapped"
    BY <2>1 DEF PayloadInv, CallFits
  <2>3. \A r, s \in S : GroupId(r)' = GroupId(s)'
    BY <2>1, DataStays
  <2>4. Shown(S)' = Shown(S)
    BY <2>1, DataStays
  <2>5. ASSUME outgoing'.kind \in {"refused", "flat", "collapsed"}, outgoing'.rows = S,
               outgoing'.kind # "refused" => \A r \in S : outgoing'.lines[r].ref = {r},
               outgoing'.kind = "collapsed" => outgoing'.header = Shown(S)
        PROVE  PayloadInv'
    <3>1. PayloadTyped' /\ EchoReachesRows'
      BY <2>1, <2>2, <2>5 DEF PayloadInv, PayloadTyped, EchoReachesRows
    <3>2. CallFits'
      BY <2>1, <2>2, <2>3, <2>4, <2>5 DEF CallFits, Ref
    <3> QED
      BY <3>1, <3>2 DEF PayloadInv
  <2>6. CASE outgoing' = [Nothing EXCEPT !.kind = "refused", !.rows = S]
    <3>1. outgoing'.kind = "refused" /\ outgoing'.rows = S
      BY <2>6 DEF Nothing
    <3> QED
      BY <2>5, <3>1
  <2>7. CASE outgoing' = [kind |-> "collapsed", rows |-> S, header |-> Shown(S),
                          lines |-> [r \in S |-> LineItem(r)], rowsField |-> pconf.rowsField]
    <3>1. outgoing'.kind = "collapsed" /\ outgoing'.rows = S /\ outgoing'.header = Shown(S)
          /\ \A r \in S : outgoing'.lines[r] = LineItem(r)
      BY <2>7
    <3> QED
      BY <2>5, <3>1, RowsNamed
  <2>8. CASE outgoing' = [kind |-> "flat", rows |-> S, header |-> <<>>,
                          lines |-> [r \in S |-> FlatItem(r)], rowsField |-> "rows"]
    <3>1. outgoing'.kind = "flat" /\ outgoing'.rows = S
          /\ \A r \in S : outgoing'.lines[r] = FlatItem(r)
      BY <2>8
    <3> QED
      BY <2>5, <3>1, RowsNamed
  <2> QED
    BY <1>3, <2>6, <2>7, <2>8 DEF SubmitGroup
<1>4. CASE MapVendorResult
  <2>1. /\ outgoing.kind \in {"flat", "collapsed"} /\ UNCHANGED <<pdata, pconf, outgoing>>
        /\ \/ \E S \in SUBSET outgoing.rows :
                mapped' = [at |-> "mapped", lineItems |-> UNION {Ref(r) : r \in S},
                           whole |-> S = outgoing.rows]
           \/ mapped' = [at |-> "mapped", lineItems |-> outgoing.rows, whole |-> TRUE]
    BY <1>4 DEF MapVendorResult
  <2>2. outgoing.rows \subseteq PRow /\ \A r \in outgoing.rows : Ref(r) = {r}
    BY <2>1 DEF PayloadInv, PayloadTyped, CallFits
  <2>3. \A S \in SUBSET outgoing.rows : UNION {Ref(r) : r \in S} = S
    BY <2>2
  <2>4. \E S \in SUBSET outgoing.rows :
          mapped' = [at |-> "mapped", lineItems |-> S, whole |-> S = outgoing.rows]
    BY <2>1, <2>3
  <2>5. /\ mapped' \in [at : {"none", "mapped"}, lineItems : SUBSET PRow, whole : BOOLEAN]
        /\ mapped'.lineItems \subseteq outgoing.rows
        /\ mapped'.whole => mapped'.lineItems = outgoing.rows
    <3>1. PICK S \in SUBSET outgoing.rows :
            mapped' = [at |-> "mapped", lineItems |-> S, whole |-> S = outgoing.rows]
      BY <2>4
    <3>2. mapped'.lineItems = S /\ mapped'.whole = (S = outgoing.rows) /\ mapped'.at = "mapped"
      BY <3>1
    <3>3. S \in SUBSET PRow /\ (S = outgoing.rows) \in BOOLEAN
      BY <2>2
    <3> HIDE <3>1
    <3>4. mapped' \in [at : {"none", "mapped"}, lineItems : SUBSET PRow, whole : BOOLEAN]
      BY <3>1, <3>3
    <3> QED
      BY <3>2, <3>4
  <2>6. CallFits'
    BY <2>1, CallStays
  <2> QED
    BY <2>1, <2>5, <2>6 DEF PayloadInv, PayloadTyped, EchoReachesRows
<1>5. ASSUME NEW r \in PRow, PropagateDelete(r) PROVE PayloadInv'
  <2>1. /\ outgoing.kind = "none" /\ UNCHANGED <<pdata, pconf, mapped>>
        /\ outgoing' = [Nothing EXCEPT !.kind = "delete", !.rows = {r}]
    BY <1>5 DEF PropagateDelete
  <2>2. outgoing'.kind = "delete" /\ outgoing'.rows = {r}
    BY <2>1 DEF Nothing
  <2>3. mapped.at # "mapped"
    BY <2>1 DEF PayloadInv, CallFits
  <2> QED
    BY <2>1, <2>2, <2>3 DEF PayloadInv, PayloadTyped, CallFits, EchoReachesRows
<1> QED
  BY <1>1, <1>2, <1>3, <1>4, <1>5 DEF PayloadNext

LEMMA PayloadInvHolds == PayloadSpec => []PayloadInv
<1>1. PayloadInit => PayloadInv
  <2> SUFFICES ASSUME PayloadInit PROVE PayloadInv OBVIOUS
  <2>1. pdata \in [PRow -> Cells]
    BY DEF PayloadInit, Cells
  <2>2. pconf \in Conf
    BY DEF PayloadInit, Conf
  <2>3. outgoing.kind = "none" /\ outgoing.rows = {} /\ mapped = NotMapped
    BY DEF PayloadInit, Nothing
  <2> QED
    BY <2>1, <2>2, <2>3 DEF PayloadInv, PayloadTyped, CallFits, EchoReachesRows, NotMapped
<1> QED
  BY <1>1, PayloadStep, PTL DEF PayloadSpec

(* The cells, the configuration, the call and its answer are what their    *)
(* comments say.                                                           *)
THEOREM PayloadTypesCorrect == PayloadSpec => []PayloadTypeOK
<1>1. PayloadInv => PayloadTypeOK
  BY DEF PayloadInv, PayloadTyped, PayloadTypeOK, Cells
<1> QED
  BY <1>1, PayloadInvHolds, PTL

(* Whatever the texts of the cells, the columns and the configuration: a   *)
(* combined record says of each of its rows what the row says, the answer  *)
(* of the vendor reaches the rows that were sent, and the path of a delete *)
(* is that of its own row.                                                 *)
THEOREM PayloadsAreOfTheirRows == PayloadSpec => []PayloadOfItsRows
<1>1. PayloadInv => PayloadOfItsRows
  BY HeaderFits, DeletesFit DEF PayloadInv, PayloadOfItsRows
<1> QED
  BY <1>1, PayloadInvHolds, PTL

-----------------------------------------------------------------------------
(* ProvisionedToken.                                                       *)

USE TokenAssumption

(* What the row of the table and the service's memory have to do with each *)
(* other: they differ only after an upsert whose result the service has    *)
(* not taken over, and then the row has the token in memory in its grace.  *)
StoredFollows == stored = memory \/ stored.previous = memory.token

(* Between the upsert and the assignment the row is what will be kept.     *)
UpsertedIsStored == setting.at = "upserted" => setting.next = stored /\ stored.previous = memory.token

(* The one grace the callers were promised is the one in memory.           *)
GraceInMemory == \A g \in graced : g = <<memory.previous, memory.until>>

TokenInv == TokenTypeOK /\ StoredFollows /\ UpsertedIsStored /\ GraceInMemory

-----------------------------------------------------------------------------
(* The state that "set" makes is a state. *)
LEMMA RotatedIsState ==
  ASSUME TokenTypeOK, setting.token \in Token
  PROVE  Rotated \in State
<1>1. memory.token \in Token \cup {0} BY DEF TokenTypeOK, State
<1>2. clock + GraceTime \in 0..(MaxTime + GraceTime) /\ 0 \in 0..(MaxTime + GraceTime)
  BY DEF TokenTypeOK
<1> QED BY <1>1, <1>2 DEF Rotated, State

(* Every step of the service keeps its types.  A "set" that has begun has  *)
(* a token: this is what makes the types inductive.                        *)
SettingHasToken == setting.at # "idle" => setting.token \in Token

LEMMA TypesInductive ==
  ASSUME TokenTypeOK, SettingHasToken, [TokenNext]_tokenVars
  PROVE  TokenTypeOK' /\ SettingHasToken'
<1> USE DEF TokenTypeOK, SettingHasToken
<1>1. CASE Issue
  <2>1. issued + 1 \in Token BY <1>1 DEF Issue
  <2>2. Append(control, issued + 1) \in Seq(Token) BY <2>1
  <2> QED BY <1>1, <2>1, <2>2 DEF Issue
<1>2. CASE Tick BY <1>2 DEF Tick
<1>3. CASE TakeToken
  <2>1. Head(control) \in Token /\ Tail(control) \in Seq(Token) BY <1>3 DEF TakeToken
  <2>2. NoToken \in State BY DEF NoToken, State
  <2>3. setting' = [at |-> "taken", token |-> Head(control), next |-> NoToken]
    BY <1>3 DEF TakeToken, NotSetting
  <2>4. setting' \in [at : {"idle", "taken", "upserted"}, token : Token \cup {0}, next : State]
          /\ setting'.token \in Token
    BY <2>1, <2>2, <2>3
  <2> QED BY <1>3, <2>1, <2>4 DEF TakeToken
<1>4. CASE Upsert
  <2>1. Rotated \in State BY <1>4, RotatedIsState DEF Upsert
  <2>2. setting' = [at |-> "upserted", token |-> setting.token, next |-> Rotated]
    BY <1>4 DEF Upsert
  <2> QED BY <1>4, <2>1, <2>2 DEF Upsert
<1>5. CASE Remember
  <2>1. setting.token \in Token /\ setting.next \in State BY <1>5 DEF Remember
  <2>2. setting' \in [at : {"idle", "taken", "upserted"}, token : Token \cup {0}, next : State]
          /\ setting'.at = "idle"
    BY <1>5 DEF Remember, NotSetting, NoToken, State
  <2>3. graced' \subseteq Token \X (0..(MaxTime + GraceTime))
    BY <1>5, <2>1 DEF Remember, State
  <2>4. newest' \in Token \cup {0} BY <1>5, <2>1 DEF Remember, Later
  <2> QED BY <1>5, <2>1, <2>2, <2>3, <2>4 DEF Remember
<1>6. CASE SetFails
  <2>1. setting.token \in Token /\ Rotated \in State BY <1>6, RotatedIsState DEF SetFails
  <2>2. Append(control, setting.token) \in Seq(Token) BY <2>1
  <2>3. setting' \in [at : {"idle", "taken", "upserted"}, token : Token \cup {0}, next : State]
          /\ setting'.at = "idle"
    BY <1>6 DEF SetFails, NotSetting, NoToken, State
  <2> QED BY <1>6, <2>1, <2>2, <2>3 DEF SetFails
<1>7. CASE Restart
  <2>1. control' \in Seq(Token)
    <3>1. CASE setting.at = "idle" BY <1>7, <3>1 DEF Restart
    <3>2. CASE setting.at # "idle"
      <4>1. <<setting.token>> \in Seq(Token) BY <3>2
      <4> QED BY <1>7, <3>2, <4>1 DEF Restart
    <3> QED BY <3>1, <3>2
  <2>2. setting' \in [at : {"idle", "taken", "upserted"}, token : Token \cup {0}, next : State]
          /\ setting'.at = "idle"
    BY <1>7 DEF Restart, NotSetting, NoToken, State
  <2>3. graced' \subseteq Token \X (0..(MaxTime + GraceTime))
    BY <1>7 DEF Restart, State
  <2>4. newest' \in Token \cup {0} BY <1>7 DEF Restart, Later, State
  <2> QED BY <1>7, <2>1, <2>2, <2>3, <2>4 DEF Restart, Loaded
<1>8. CASE UNCHANGED tokenVars BY <1>8 DEF tokenVars
<1> QED BY <1>1, <1>2, <1>3, <1>4, <1>5, <1>6, <1>7, <1>8 DEF TokenNext, TokenSetting

(* Deliveries, failed upserts and restarts keep the row, the memory and    *)
(* the promised grace together.                                            *)
LEMMA FollowsInductive ==
  ASSUME TokenTypeOK, SettingHasToken, StoredFollows, UpsertedIsStored, GraceInMemory,
         [TokenNext]_tokenVars
  PROVE  StoredFollows' /\ UpsertedIsStored' /\ GraceInMemory'
<1> USE DEF StoredFollows, UpsertedIsStored, GraceInMemory
<1>1. CASE Issue BY <1>1 DEF Issue
<1>2. CASE Tick BY <1>2 DEF Tick
<1>3. CASE TakeToken
  <2>1. setting'.at = "taken" BY <1>3 DEF TakeToken, NotSetting
  <2> QED BY <1>3, <2>1 DEF TakeToken
<1>4. CASE Upsert
  <2>1. stored' = Rotated /\ Rotated.previous = memory.token /\ memory' = memory /\ graced' = graced
    BY <1>4 DEF Upsert, Rotated
  <2>2. setting'.next = Rotated BY <1>4 DEF Upsert, TokenTypeOK
  <2> QED BY <2>1, <2>2
<1>5. CASE Remember
  <2>1. memory' = setting.next /\ stored' = stored /\ setting'.at = "idle"
    BY <1>5 DEF Remember, NotSetting
  <2>2. setting.next = stored BY <1>5 DEF Remember
  <2>3. GraceInMemory' BY <1>5, <2>1 DEF Remember
  <2> QED BY <2>1, <2>2, <2>3
<1>6. CASE SetFails
  <2>1. Rotated.previous = memory.token BY DEF Rotated
  <2>2. stored' = stored \/ stored' = Rotated BY <1>6 DEF SetFails
  <2>3. setting'.at = "idle" /\ memory' = memory /\ graced' = graced
    BY <1>6 DEF SetFails, NotSetting
  <2> QED BY <2>1, <2>2, <2>3
<1>7. CASE Restart
  <2>1. memory' = stored /\ stored' = stored /\ setting'.at = "idle"
    BY <1>7 DEF Restart, Loaded, NotSetting
  <2>2. GraceInMemory' BY <1>7, <2>1 DEF Restart
  <2> QED BY <2>1, <2>2
<1>8. CASE UNCHANGED tokenVars BY <1>8 DEF tokenVars
<1> QED BY <1>1, <1>2, <1>3, <1>4, <1>5, <1>6, <1>7, <1>8 DEF TokenNext, TokenSetting

LEMMA InitFollows ==
  ASSUME TokenInit
  PROVE  TokenInv /\ SettingHasToken
<1>1. NoToken \in State BY DEF NoToken, State
<1>2. TokenTypeOK BY <1>1 DEF TokenInit, TokenTypeOK, NotSetting
<1>3. SettingHasToken BY DEF TokenInit, NotSetting, SettingHasToken
<1>4. StoredFollows /\ UpsertedIsStored /\ GraceInMemory
  BY DEF TokenInit, NotSetting, StoredFollows, UpsertedIsStored, GraceInMemory
<1> QED BY <1>2, <1>3, <1>4 DEF TokenInv

LEMMA TokenInvHolds == TokenSpec => [](TokenInv /\ SettingHasToken)
<1>1. TokenInit => TokenInv /\ SettingHasToken BY InitFollows
<1>2. TokenInv /\ SettingHasToken /\ [TokenNext]_tokenVars => (TokenInv /\ SettingHasToken)'
  BY TypesInductive, FollowsInductive DEF TokenInv
<1> QED BY <1>1, <1>2, PTL DEF TokenSpec

-----------------------------------------------------------------------------
(* The states of "set", of the row and of the memory are of their types.   *)
THEOREM TokenTypeCorrect == TokenSpec => []TokenTypeOK
<1>1. TokenInv => TokenTypeOK BY DEF TokenInv
<1> QED BY <1>1, TokenInvHolds, PTL

(* hasToken keeps accepting a token that was rotated out until its grace   *)
(* ends, and a restart (onModuleInit) loads a row in which the token that  *)
(* was in memory is current or the one before: for any number of tokens,   *)
(* repeated or reordered deliveries, failed upserts and restarts.          *)
THEOREM HubKeepsAccess == TokenSpec => NobodyLockedOut
<1>1. TokenInv => GraceHolds
  <2> SUFFICES ASSUME TokenInv, NEW g \in graced, clock < g[2] PROVE AcceptedBy(memory, g[1])
    BY DEF GraceHolds
  <2>1. g = <<memory.previous, memory.until>> BY DEF TokenInv, GraceInMemory
  <2> QED BY <2>1 DEF AcceptedBy
<1>2. TokenInv /\ [TokenNext]_tokenVars =>
        [pFaults' # pFaults /\ memory' # memory /\ memory.token # 0 =>
           memory.token \in {memory'.token, memory'.previous}]_tokenVars
  <2> SUFFICES ASSUME TokenInv, TokenNext, pFaults' # pFaults, memory' # memory
               PROVE  memory.token \in {memory'.token, memory'.previous}
    OBVIOUS
  <2>1. Restart
    BY DEF TokenNext, TokenSetting, Issue, Tick, TakeToken, Upsert, Remember, SetFails
  <2>2. memory' = stored BY <2>1 DEF Restart, Loaded
  <2> QED BY <2>2 DEF TokenInv, StoredFollows
<1> QED BY <1>1, <1>2, TokenInvHolds, PTL DEF TokenSpec, NobodyLockedOut, RestartKeepsCurrent

-----------------------------------------------------------------------------
(* SiiResults.                                                             *)

USE SiiAssumption

-----------------------------------------------------------------------------
(* What the statements of a job match.                                     *)

Named(b) == b.lines \cup {x[1] : x \in b.batches}

LEMMA MatchedAreNamed ==
  ASSUME NEW b \in Body
  PROVE  /\ ByLine(b) \subseteq Named(b) /\ ByBatch(b) \subseteq Named(b)
         /\ ByLine(b) \subseteq SiiRow /\ ByBatch(b) \subseteq SiiRow
<1>1. ASSUME NEW r \in ByBatch(b) PROVE r \in Named(b)
  <2>1. <<r, sends[r]>> \in b.batches BY DEF ByBatch
  <2>2. <<r, sends[r]>>[1] = r OBVIOUS
  <2>3. \E x \in b.batches : r = x[1] BY <2>1, <2>2
  <2> QED BY <2>3 DEF Named
<1> QED BY <1>1 DEF ByLine, ByBatch, Named

(* The two UPDATEs of a job are one statement with a different condition.  *)
LEMMA StoresAre ==
  ASSUME NEW b \in Body, ApplyLineItems(b) \/ ApplyBatchItems(b)
  PROVE  \E R \in SUBSET SiiRow, next \in {"batches", "errors"} :
           R \subseteq Named(b) /\ UnderWay(b) /\ Store(b, R, next)
BY MatchedAreNamed DEF ApplyLineItems, ApplyBatchItems, UnderWay

Inbox == [at : {"none", "waiting", "lines", "batches", "errors"}, matched : SUBSET SiiRow]

(* A job that stores a result, seen from the inbox. *)
LEMMA InboxAfterStore ==
  ASSUME SiiTypeOK, NEW b \in Body, NEW R \in SUBSET SiiRow, NEW next \in {"batches", "errors"},
         Store(b, R, next)
  PROVE  /\ inbox' \in [Body -> Inbox]
         /\ inbox'[b].at = next /\ inbox'[b].matched = inbox[b].matched \cup R
         /\ \A c \in Body \ {b} : inbox'[c] = inbox[c]
<1>1. inbox[b] \in Inbox /\ inbox \in [Body -> Inbox] BY DEF SiiTypeOK, Inbox
<1>2. inbox' = [inbox EXCEPT ![b] = [at |-> next, matched |-> inbox[b].matched \cup R]]
  BY DEF Store
<1>3. [at |-> next, matched |-> inbox[b].matched \cup R] \in Inbox BY <1>1 DEF Inbox
<1> QED BY <1>1, <1>2, <1>3

(* A job that waits has an attempt left. *)
AttemptsLeft == \A b \in Body : inbox[b].at = "waiting" => attempts[b] < MaxAttempts

LEMMA StepTypes ==
  ASSUME SiiTypeOK, AttemptsLeft, [SiiNext]_siiVars
  PROVE  SiiTypeOK'
<1> USE DEF SiiTypeOK
<1>1. ASSUME NEW r \in SiiRow, SendRow(r) PROVE SiiTypeOK' BY <1>1 DEF SendRow
<1>2. ASSUME NEW r \in SiiRow, IngestRow(r) PROVE SiiTypeOK' BY <1>2 DEF IngestRow, Errors
<1>3. ASSUME NEW b \in Body, Receive(b) PROVE SiiTypeOK'
  <2>1. [inbox[b] EXCEPT !.at = "waiting"] \in Inbox BY DEF Inbox
  <2>2. inbox' \in [Body -> Inbox] BY <1>3, <2>1 DEF Receive, Inbox
  <2> QED BY <1>3, <2>2 DEF Receive, Inbox
<1>4. ASSUME NEW b \in Body, Begin(b) PROVE SiiTypeOK'
  BY <1>4 DEF Begin, AttemptsLeft
<1>5. ASSUME NEW b \in Body, ApplyLineItems(b) \/ ApplyBatchItems(b) PROVE SiiTypeOK'
  <2>1. PICK R \in SUBSET SiiRow, next \in {"batches", "errors"} : R \subseteq Named(b) /\ Store(b, R, next)
    BY <1>5, StoresAre
  <2>2. b.error \in Errors BY DEF Errors
  <2>3. Named(b) \subseteq SiiRow BY DEF Named
  <2>4. /\ result' \in [SiiRow -> {"queued", "pending", "correcto", "rechazado"}]
        /\ by' \in [SiiRow -> SUBSET Body] /\ told' \in [SiiRow -> SUBSET Errors]
        /\ mixed' \subseteq SiiRow
    BY <2>1, <2>2, <2>3 DEF Store, Beside, Named
  <2>5. inbox' \in [Body -> Inbox] BY <2>1, InboxAfterStore
  <2> QED BY <2>1, <2>4, <2>5 DEF Store, Inbox
<1>6. ASSUME NEW b \in Body, ApplyErrorFields(b) PROVE SiiTypeOK'
  <2>1. error' \in [SiiRow -> Errors] BY <1>6 DEF ApplyErrorFields, Merged, Errors
  <2> QED BY <1>6, <2>1 DEF ApplyErrorFields, NoJob
<1>7. ASSUME NEW b \in Body, JobFails(b) PROVE SiiTypeOK'
  BY <1>7 DEF JobFails, NoJob
<1>8. CASE UNCHANGED siiVars BY <1>8 DEF siiVars
<1> QED BY <1>1, <1>2, <1>3, <1>4, <1>5, <1>6, <1>7, <1>8 DEF SiiNext, Processing

(* What the steps do to the job they are of; the others stay. *)
LEMMA JobSteps ==
  ASSUME SiiTypeOK, AttemptsLeft, NEW b \in Body,
         Receive(b) \/ Begin(b) \/ ApplyErrorFields(b) \/ JobFails(b)
  PROVE  /\ \A c \in Body \ {b} : inbox'[c] = inbox[c] /\ attempts'[c] = attempts[c]
         /\ UNCHANGED <<result, sends, by, told>>
         /\ mixed \subseteq mixed'
         /\ UnderWay(b)' => inbox'[b].matched = {}
         /\ inbox'[b].at = "waiting" => attempts'[b] < MaxAttempts
<1>1. inbox \in [Body -> Inbox] /\ attempts \in [Body -> 0..MaxAttempts] BY DEF SiiTypeOK, Inbox
<1>2. CASE Receive(b)
  <2>1. inbox' = [inbox EXCEPT ![b] = [inbox[b] EXCEPT !.at = "waiting"]] BY <1>2 DEF Receive
  <2>2. inbox'[b].at = "waiting" BY <1>1, <2>1 DEF Inbox
  <2> QED BY <1>1, <1>2, <2>1, <2>2 DEF Receive, UnderWay
<1>3. CASE Begin(b) BY <1>1, <1>3 DEF Begin, UnderWay
<1>4. CASE ApplyErrorFields(b) BY <1>1, <1>4 DEF ApplyErrorFields, UnderWay, NoJob
<1>5. CASE JobFails(b) BY <1>1, <1>5 DEF JobFails, UnderWay, NoJob
<1> QED BY <1>2, <1>3, <1>4, <1>5

LEMMA AttemptsInductive ==
  ASSUME SiiTypeOK, AttemptsLeft, [SiiNext]_siiVars
  PROVE  AttemptsLeft'
<1> USE DEF AttemptsLeft
<1>1. ASSUME NEW b \in Body, Receive(b) \/ Begin(b) \/ ApplyErrorFields(b) \/ JobFails(b)
      PROVE  AttemptsLeft'
  BY <1>1, JobSteps
<1>2. ASSUME NEW b \in Body, ApplyLineItems(b) \/ ApplyBatchItems(b) PROVE AttemptsLeft'
  <2>1. PICK R \in SUBSET SiiRow, next \in {"batches", "errors"} : Store(b, R, next)
    BY <1>2, StoresAre
  <2> QED BY <2>1, InboxAfterStore DEF Store
<1>3. ASSUME NEW r \in SiiRow, SendRow(r) \/ IngestRow(r) PROVE AttemptsLeft'
  BY <1>3 DEF SendRow, IngestRow
<1>4. CASE UNCHANGED siiVars BY <1>4 DEF siiVars
<1> QED BY <1>1, <1>2, <1>3, <1>4 DEF SiiNext, Processing

-----------------------------------------------------------------------------
(* The error fields.                                                       *)

(* A job under way has told its error to the rows it has matched.          *)
ToldFits ==
  /\ ErrorsWereStored
  /\ \A b \in Body : UnderWay(b) => \A r \in inbox[b].matched : b.error \in told[r]

(* A row that no two jobs have met on has the result of the job that has   *)
(* matched it, if any, and shows its error unless that job is still to     *)
(* write it.                                                               *)
OwnersFit ==
  \A r \in SiiRow \ mixed, b \in Body : UnderWay(b) /\ r \in inbox[b].matched => by[r] \subseteq {b}

ErrorsFit ==
  \A r \in SiiRow \ mixed : \A b \in by[r] :
    b.error # NoError => error[r] = b.error \/ (UnderWay(b) /\ r \in inbox[b].matched)

ResultsInv == ToldFits /\ OwnersFit /\ ErrorsFit

LEMMA RowsKeepResults ==
  ASSUME SiiTypeOK, ResultsInv, NEW q \in SiiRow, SendRow(q) \/ IngestRow(q)
  PROVE  ResultsInv'
<1> USE DEF ResultsInv
<1>1. /\ UNCHANGED <<told, mixed, inbox>> /\ by'[q] = {} /\ error'[q] \in {error[q], NoError}
      /\ \A r \in SiiRow \ {q} : by'[r] = by[r] /\ error'[r] = error[r]
  BY DEF SendRow, IngestRow, SiiTypeOK
<1>2. ToldFits' BY <1>1 DEF ToldFits, ErrorsWereStored, UnderWay
<1>3. OwnersFit' BY <1>1 DEF OwnersFit, UnderWay
<1>4. ErrorsFit' BY <1>1 DEF ErrorsFit, UnderWay
<1> QED BY <1>2, <1>3, <1>4

LEMMA StoreKeepsResults ==
  ASSUME SiiTypeOK, ResultsInv, NEW b \in Body, ApplyLineItems(b) \/ ApplyBatchItems(b)
  PROVE  ResultsInv'
<1> USE DEF ResultsInv
<1>1. PICK R \in SUBSET SiiRow, next \in {"batches", "errors"} :
        R \subseteq Named(b) /\ UnderWay(b) /\ Store(b, R, next)
  BY StoresAre
<1>2. /\ inbox'[b].at = next /\ inbox'[b].matched = inbox[b].matched \cup R
      /\ \A c \in Body \ {b} : inbox'[c] = inbox[c]
  BY <1>1, InboxAfterStore
<1>3. UnderWay(b)' /\ \A c \in Body : UnderWay(c)' <=> UnderWay(c) BY <1>1, <1>2 DEF UnderWay
<1>4. /\ error' = error /\ mixed \subseteq mixed'
      /\ \A r \in SiiRow : by'[r] = (IF r \in R THEN {b} ELSE by[r])
      /\ \A r \in SiiRow : told'[r] = (IF r \in R THEN told[r] \cup {b.error} ELSE told[r])
  BY <1>1 DEF Store
<1>5. \A c \in Body \ {b} : UnderWay(c) => R \subseteq mixed'
  BY <1>1 DEF Store, Beside, Named
<1>6. ToldFits'
  <2>1. ErrorsWereStored' BY <1>4 DEF ToldFits, ErrorsWereStored
  <2>2. ASSUME NEW c \in Body, UnderWay(c)', NEW r \in inbox'[c].matched
        PROVE  c.error \in told'[r]
    <3>0. r \in SiiRow BY <1>1, <1>2 DEF SiiTypeOK
    <3>1. CASE r \in inbox[c].matched BY <3>0, <3>1, <2>2, <1>3, <1>4 DEF ToldFits
    <3>2. CASE r \notin inbox[c].matched
      <4>1. c = b /\ r \in R BY <3>2, <2>2, <1>2
      <4> QED BY <3>0, <4>1, <1>4
    <3> QED BY <3>1, <3>2
  <2> QED BY <2>1, <2>2 DEF ToldFits
<1>7. OwnersFit'
  <2> SUFFICES ASSUME NEW r \in SiiRow \ mixed', NEW c \in Body,
                      UnderWay(c)', r \in inbox'[c].matched
               PROVE  by'[r] \subseteq {c}
    BY DEF OwnersFit
  <2>1. UnderWay(c) /\ r \notin mixed BY <1>3, <1>4
  <2>2. CASE r \in R
    <3>1. c = b BY <2>1, <2>2, <1>5
    <3> QED BY <3>1, <2>2, <1>4
  <2>3. CASE r \notin R
    <3>1. r \in inbox[c].matched BY <2>3, <1>2
    <3> QED BY <3>1, <2>1, <2>3, <1>4 DEF OwnersFit
  <2> QED BY <2>2, <2>3
<1>8. ErrorsFit'
  <2> SUFFICES ASSUME NEW r \in SiiRow \ mixed', NEW c \in by'[r], c.error # NoError,
                      error'[r] # c.error
               PROVE  UnderWay(c)' /\ r \in inbox'[c].matched
    BY DEF ErrorsFit
  <2>1. CASE r \in R
    <3>1. c = b BY <2>1, <1>4
    <3> QED BY <3>1, <2>1, <1>2, <1>3
  <2>2. CASE r \notin R
    <3>1. UnderWay(c) /\ r \in inbox[c].matched BY <2>2, <1>4 DEF ErrorsFit
    <3>2. c \in Body BY <2>2, <1>4 DEF SiiTypeOK
    <3> QED BY <3>1, <3>2, <1>2, <1>3
  <2> QED BY <2>1, <2>2
<1> QED BY <1>6, <1>7, <1>8

LEMMA JobKeepsResults ==
  ASSUME SiiTypeOK, AttemptsLeft, ResultsInv, NEW b \in Body,
         Receive(b) \/ Begin(b) \/ ApplyErrorFields(b) \/ JobFails(b)
  PROVE  ResultsInv'
<1> USE DEF ResultsInv
<1>1. /\ \A c \in Body \ {b} : inbox'[c] = inbox[c] /\ (UnderWay(c)' <=> UnderWay(c))
      /\ UNCHANGED <<by, told>> /\ mixed \subseteq mixed'
      /\ UnderWay(b)' => inbox'[b].matched = {}
  BY JobSteps DEF UnderWay
<1>2. OwnersFit' BY <1>1 DEF OwnersFit
<1>3. \A c \in Body : UnderWay(c)' => \A r \in inbox'[c].matched : c.error \in told'[r]
  BY <1>1 DEF ToldFits
<1>4. CASE Receive(b) \/ Begin(b) \/ JobFails(b)
  <2>1. error' = error /\ (UnderWay(b) => inbox[b].matched \subseteq mixed')
    BY <1>4 DEF Receive, Begin, JobFails, UnderWay
  <2>2. ErrorsFit'
    <3> SUFFICES ASSUME NEW r \in SiiRow \ mixed', NEW c \in by[r], c.error # NoError,
                        error[r] # c.error
                 PROVE  UnderWay(c)' /\ r \in inbox'[c].matched
      BY <1>1, <2>1 DEF ErrorsFit
    <3>1. UnderWay(c) /\ r \in inbox[c].matched /\ c \in Body BY <1>1 DEF ErrorsFit, SiiTypeOK
    <3> QED BY <3>1, <2>1, <1>1
  <2>3. ErrorsWereStored' BY <1>1, <2>1 DEF ToldFits, ErrorsWereStored
  <2> QED BY <1>2, <1>3, <2>2, <2>3 DEF ToldFits
<1>5. CASE ApplyErrorFields(b)
  <2>1. /\ UnderWay(b) /\ mixed' = mixed
        /\ \A r \in SiiRow : error'[r] = IF r \in inbox[b].matched /\ b.error # NoError
                                         THEN b.error ELSE error[r]
    BY <1>5 DEF ApplyErrorFields, Merged, UnderWay
  <2>2. ErrorsWereStored' BY <1>1, <2>1 DEF ToldFits, ErrorsWereStored
  <2>3. ErrorsFit'
    <3> SUFFICES ASSUME NEW r \in SiiRow \ mixed, NEW c \in by[r], c.error # NoError,
                        error'[r] # c.error
                 PROVE  UnderWay(c)' /\ r \in inbox'[c].matched
      BY <1>1, <2>1 DEF ErrorsFit
    <3>1. c \in Body BY DEF SiiTypeOK
    <3>2. r \notin inbox[b].matched
      <4> SUFFICES ASSUME r \in inbox[b].matched PROVE FALSE OBVIOUS
      <4>1. c = b BY <2>1 DEF OwnersFit
      <4> QED BY <4>1, <2>1
    <3>3. error'[r] = error[r] BY <3>2, <2>1
    <3>4. UnderWay(c) /\ r \in inbox[c].matched BY <3>3 DEF ErrorsFit
    <3> QED BY <3>1, <3>2, <3>4, <1>1
  <2> QED BY <1>2, <1>3, <2>2, <2>3 DEF ToldFits
<1> QED BY <1>4, <1>5

LEMMA ResultsInductive ==
  ASSUME SiiTypeOK, AttemptsLeft, ResultsInv, [SiiNext]_siiVars
  PROVE  ResultsInv'
<1>1. CASE UNCHANGED siiVars
  BY <1>1 DEF siiVars, ResultsInv, ToldFits, ErrorsWereStored, OwnersFit, ErrorsFit, UnderWay
<1> QED BY <1>1, RowsKeepResults, StoreKeepsResults, JobKeepsResults DEF SiiNext, Processing

LEMMA TypesHold == SiiSpec => [](SiiTypeOK /\ AttemptsLeft)
<1>1. SiiInit => SiiTypeOK /\ AttemptsLeft BY DEF SiiInit, SiiTypeOK, AttemptsLeft, NoJob, Errors
<1>2. (SiiTypeOK /\ AttemptsLeft) /\ [SiiNext]_siiVars => (SiiTypeOK /\ AttemptsLeft)'
  BY StepTypes, AttemptsInductive
<1> QED BY <1>1, <1>2, PTL DEF SiiSpec

(* The rows, results and jobs stay in their types: no job is tried more    *)
(* often than DEFAULT_JOB_OPTS.attempts.                                   *)
THEOREM SiiTypesCorrect == SiiSpec => []SiiTypeOK
<1>1. SiiTypeOK /\ AttemptsLeft => SiiTypeOK OBVIOUS
<1> QED BY <1>1, TypesHold, PTL

(* The error in a row's data comes from a result that was stored on the    *)
(* row; and when no job is under way it is the error of the result the row *)
(* has, unless jobs met on the row or one failed half-way (the statements  *)
(* of SiiResultProcessor.process).                                         *)
THEOREM ErrorsBelongToResults == SiiSpec => []ErrorsAreOfResults
<1>1. SiiInit => ResultsInv
  BY DEF SiiInit, ResultsInv, ToldFits, ErrorsWereStored, OwnersFit, ErrorsFit, UnderWay, NoJob
<1>2. SiiTypeOK /\ AttemptsLeft /\ ResultsInv /\ [SiiNext]_siiVars => ResultsInv'
  BY ResultsInductive
<1>3. SiiTypeOK /\ ResultsInv => ErrorsAreOfResults
  BY DEF ResultsInv, ToldFits, ErrorsFit, ErrorsAreOfResults, ErrorTellsResult, SiiTypeOK
<1> QED BY <1>1, <1>2, <1>3, TypesHold, PTL DEF SiiSpec

-----------------------------------------------------------------------------
(* The composition.                                                        *)

USE PartsAssumption

(* A step of the composition is a step of the component that moves and a   *)
(* stutter of every other one.                                             *)
LEMMA EachStepIsOfOne ==
  ASSUME [Next]_vars
  PROVE  /\ UNCHANGED part
         /\ [SweepNext]_sweepVars
         /\ [SiiNext]_siiVars
         /\ [DeleteNext]_deleteVars
         /\ [BackupNext]_backupVars
         /\ [TokenNext]_tokenVars
         /\ [IndexNext]_indexVars
         /\ [ConnNext]_connectionVars
         /\ [QueryNext]_queryVars
         /\ [PayloadNext]_payloadVars
<1>1. CASE UNCHANGED vars
  BY <1>1 DEF vars
<1>2. CASE Moves("sweep", SweepNext)
  BY <1>2 DEF Moves, Still
<1>3. CASE Moves("results", SiiNext)
  BY <1>3 DEF Moves, Still
<1>4. CASE Moves("deletes", DeleteNext)
  BY <1>4 DEF Moves, Still
<1>5. CASE Moves("backup", BackupNext)
  BY <1>5 DEF Moves, Still
<1>6. CASE Moves("token", TokenNext)
  BY <1>6 DEF Moves, Still
<1>7. CASE Moves("indexes", IndexNext)
  BY <1>7 DEF Moves, Still
<1>8. CASE Moves("connections", ConnNext)
  BY <1>8 DEF Moves, Still
<1>9. CASE Moves("queries", QueryNext)
  BY <1>9 DEF Moves, Still
<1>10. CASE Moves("payload", PayloadNext)
  BY <1>10 DEF Moves, Still
<1> QED
  BY <1>1, <1>2, <1>3, <1>4, <1>5, <1>6, <1>7, <1>8, <1>9, <1>10 DEF Next

(* What holds of each component holds of the composition that TLC checks:  *)
(* it implements the specification of every one of them.                   *)
THEOREM ServicesCompose ==
  Safety => /\ SweepSpec /\ SiiSpec /\ DeleteSpec /\ BackupSpec /\ TokenSpec /\ IndexSpec
            /\ ConnSpec /\ QuerySpec /\ PayloadSpec
<1>1. Init => /\ SweepInit /\ SiiInit /\ DeleteInit /\ BackupInit /\ TokenInit /\ IndexInit
              /\ ConnInit /\ QueryInit /\ PayloadInit
  BY DEF Init
<1>2. [Next]_vars => [SweepNext]_sweepVars BY EachStepIsOfOne
<1>3. [Next]_vars => [SiiNext]_siiVars BY EachStepIsOfOne
<1>4. [Next]_vars => [DeleteNext]_deleteVars BY EachStepIsOfOne
<1>5. [Next]_vars => [BackupNext]_backupVars BY EachStepIsOfOne
<1>6. [Next]_vars => [TokenNext]_tokenVars BY EachStepIsOfOne
<1>7. [Next]_vars => [IndexNext]_indexVars BY EachStepIsOfOne
<1>8. [Next]_vars => [ConnNext]_connectionVars BY EachStepIsOfOne
<1>9. [Next]_vars => [QueryNext]_queryVars BY EachStepIsOfOne
<1>10. [Next]_vars => [PayloadNext]_payloadVars BY EachStepIsOfOne
<1> QED
  BY <1>1, <1>2, <1>3, <1>4, <1>5, <1>6, <1>7, <1>8, <1>9, <1>10, PTL
     DEF Safety, SweepSpec, SiiSpec, DeleteSpec, BackupSpec, TokenSpec, IndexSpec, ConnSpec,
         QuerySpec, PayloadSpec

(* Each component of the composition has its types, whichever one moves.   *)
THEOREM ServicesTypeCorrect == Spec => []TypeOK
<1>1. Init => part \in Parts BY DEF Init
<1>2. part \in Parts /\ [Next]_vars => (part \in Parts)' BY EachStepIsOfOne
<1>3. Spec => [](SweepTypeOK /\ SiiTypeOK /\ DeleteTypeOK /\ BackupTypeOK /\ TokenTypeOK
                 /\ IndexTypeOK /\ ConnTypeOK /\ QueryTypeOK /\ PayloadTypeOK)
  BY ServicesCompose, PlanTypesCorrect, SiiTypesCorrect, DeleteTypesCorrect, BackupTypesCorrect,
     TokenTypeCorrect, IndexTypesCorrect, ConnectionsTyped, QueryTypesCorrect,
     PayloadTypesCorrect, PTL DEF Spec
<1>4. /\ SweepTypeOK /\ SiiTypeOK /\ DeleteTypeOK /\ BackupTypeOK /\ TokenTypeOK
      /\ IndexTypeOK /\ ConnTypeOK /\ QueryTypeOK /\ PayloadTypeOK /\ part \in Parts
      => TypeOK
  BY DEF TypeOK
<1>5. Spec => []TypeOK
  BY <1>1, <1>2, <1>3, <1>4, PTL DEF Spec, Safety
<1> QED
  BY <1>5
=============================================================================
