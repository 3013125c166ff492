--------------------------- MODULE TemplateIndexes ---------------------------
(***************************************************************************)
(* Saving a template and its indexes (tables/table-templates.service.ts,   *)
(* table-index-manager.service.ts).  A request saves the template and then *)
(* builds the indexes it needs and drops those it no longer needs, one     *)
(* statement after another: a unique index that finds duplicates, a        *)
(* failure or a crash leaves the template saved and an INVALID index.      *)
(* Requests overlap; Postgres lets one of them build or drop at a time.    *)
(***************************************************************************)
EXTENDS Naturals, FiniteSets

CONSTANTS Idx,       (* index names, hashes of the table and the columns    *)
          UniqueIdx, (* those of kind 'unique-id'                           *)
          Request,   (* requests to save or remove the template             *)
          MaxCalls,  (* bound on requests                                   *)
          TFaults    (* bound on failures and crashes                       *)

ASSUME IndexAssumption ==
  /\ UniqueIdx \subseteq Idx
  /\ MaxCalls \in Nat /\ TFaults \in Nat

VARIABLES template,  (* the indexes the stored template needs, or NoTemplate *)
          index,     (* each index: "none", "building", "invalid", "valid"   *)
          clashing,  (* the rows have duplicates under the unique indexes    *)
          request,   (* where each request is                                *)
          answer,    (* its last answer: "none", "ok", "failed"              *)
          crossed,   (* requests that met another                            *)
          stray,     (* a request has ended early or met another             *)
          calls, tFaults

indexVars == <<template, index, clashing, request, answer, crossed, stray, calls, tFaults>>

NoTemplate == [saved |-> FALSE, needs |-> {}]
Template(needs) == [saved |-> TRUE, needs |-> needs]
NoRequest == [at |-> "idle", kind |-> "none", old |-> {}, new |-> {}, todo |-> {}, name |-> {}]

IndexTypeOK ==
  /\ template \in [saved : BOOLEAN, needs : SUBSET Idx]
  /\ index \in [Idx -> {"none", "building", "invalid", "valid"}]
  /\ clashing \in BOOLEAN
  /\ request \in [Request -> [at : {"idle", "read", "ensure", "checked", "building", "drop"},
                              kind : {"none", "create", "update", "remove"},
                              old : SUBSET Idx, new : SUBSET Idx,
                              todo : SUBSET Idx, name : SUBSET Idx]]
  /\ answer \in [Request -> {"none", "ok", "failed"}]
  /\ crossed \subseteq Request
  /\ stray \in BOOLEAN
  /\ calls \in 0..MaxCalls /\ tFaults \in 0..TFaults
  /\ Cardinality({i \in Idx : index[i] = "building"}) <= 1

IndexInit ==
  /\ template = NoTemplate /\ index = [i \in Idx |-> "none"]
  /\ clashing = FALSE
  /\ request = [q \in Request |-> NoRequest] /\ answer = [q \in Request |-> "none"]
  /\ crossed = {} /\ stray = FALSE /\ calls = 0 /\ tFaults = 0

UnderWayRequests == {q \in Request : request[q].at # "idle"}
Ddl == \A i \in Idx : index[i] # "building"   (* SHARE UPDATE EXCLUSIVE is free *)

End(q, how) ==
  /\ request' = [request EXCEPT ![q] = NoRequest]
  /\ answer' = [answer EXCEPT ![q] = how]

(* Rows come and go: duplicates need a table without the unique index.     *)
Clash ==
  /\ calls < MaxCalls
  /\ clashing \/ \A i \in UniqueIdx : index[i] # "valid"
  /\ clashing' = ~clashing
  /\ UNCHANGED <<template, index, request, answer, crossed, stray, calls, tFaults>>

-----------------------------------------------------------------------------
(* The requests: validate, and read the template that exists.              *)

Accept(q, kind, new) ==
  /\ request[q].at = "idle" /\ calls < MaxCalls
  /\ template.saved = (kind # "create")
  /\ calls' = calls + 1
  /\ request' = [request EXCEPT ![q] =
       [NoRequest EXCEPT !.at = IF kind = "remove" THEN "drop" ELSE "read", !.kind = kind,
                         !.old = template.needs, !.new = new,
                         !.todo = IF kind = "remove" THEN template.needs ELSE {}]]
  /\ answer' = [answer EXCEPT ![q] = "none"]
  /\ crossed' = IF UnderWayRequests = {} THEN crossed \ {q}
                ELSE crossed \cup UnderWayRequests \cup {q}
  /\ stray' = (stray \/ UnderWayRequests # {})
  /\ UNCHANGED <<template, index, clashing, tFaults>>

(* save; two creates meet in the unique index on the key.  An update of a  *)
(* template that was removed meanwhile inserts it again.                   *)
Save(q) ==
  /\ request[q].at = "read"
  /\ IF request[q].kind = "create" /\ template.saved
     THEN End(q, "failed") /\ UNCHANGED template
     ELSE /\ template' = Template(request[q].new)
          /\ request' = [request EXCEPT ![q].at = "ensure", ![q].todo = request[q].new]
          /\ UNCHANGED answer
  /\ UNCHANGED <<index, clashing, crossed, stray, calls, tFaults>>

(* Mutation: IF NOT EXISTS alone decides. *)
LeftoverIgnored(i) == FALSE

(* ensureIndex looks for an index of the name that is not valid. *)
Leftover(i) == index[i] \in {"invalid", "building"}

(* Then it drops it, and creates the index IF NOT EXISTS. *)
Check(q, i) ==
  /\ request[q].at = "ensure" /\ i \in request[q].todo
  /\ ~Leftover(i) \/ Ddl
  /\ index' = IF Leftover(i) THEN [index EXCEPT ![i] = "none"] ELSE index
  /\ request' = [request EXCEPT ![q].at = "checked", ![q].name = {i}]
  /\ UNCHANGED <<template, clashing, answer, crossed, stray, calls, tFaults>>

(* CREATE INDEX CONCURRENTLY: an entry, invalid until it is built.         *)
Create(q, i) ==
  /\ request[q].at = "checked" /\ request[q].name = {i} /\ Ddl
  /\ \/ /\ index[i] # "none"
        /\ request' = [request EXCEPT ![q].at = "ensure", ![q].todo = @ \ {i}, ![q].name = {}]
        /\ UNCHANGED index
     \/ /\ index[i] = "none"
        /\ index' = [index EXCEPT ![i] = "building"]
        /\ request' = [request EXCEPT ![q].at = "building"]
  /\ UNCHANGED <<template, clashing, answer, crossed, stray, calls, tFaults>>

Clashes(i) == i \in UniqueIdx /\ clashing

Built(q, i) ==
  /\ request[q].at = "building" /\ request[q].name = {i} /\ ~Clashes(i)
  /\ index' = [index EXCEPT ![i] = "valid"]
  /\ request' = [request EXCEPT ![q].at = "ensure", ![q].todo = @ \ {i}, ![q].name = {}]
  /\ UNCHANGED <<template, clashing, answer, crossed, stray, calls, tFaults>>

(* Duplicates, or another failure: the template stays saved.               *)
NotBuilt(q, i) ==
  /\ request[q].at = "building" /\ request[q].name = {i}
  /\ \/ Clashes(i) /\ UNCHANGED tFaults
     \/ ~Clashes(i) /\ tFaults < TFaults /\ tFaults' = tFaults + 1
  /\ index' = [index EXCEPT ![i] = "invalid"]
  /\ End(q, "failed")
  /\ stray' = TRUE
  /\ UNCHANGED <<template, clashing, crossed, calls>>

(* What the old template needed and the new one does not. *)
Obsolete(q) == request[q].old \ request[q].new

Ensured(q) ==
  /\ request[q].at = "ensure" /\ request[q].todo = {}
  /\ request' = [request EXCEPT ![q].at = "drop", ![q].todo = Obsolete(q)]
  /\ UNCHANGED <<template, index, clashing, answer, crossed, stray, calls, tFaults>>

(* dropIndex: a failure is only logged.                                    *)
Drop(q, i) ==
  /\ request[q].at = "drop" /\ i \in request[q].todo /\ Ddl
  /\ request' = [request EXCEPT ![q].todo = @ \ {i}]
  /\ \/ index' = [index EXCEPT ![i] = "none"] /\ UNCHANGED <<stray, tFaults>>
     \/ tFaults < TFaults /\ tFaults' = tFaults + 1 /\ stray' = TRUE /\ UNCHANGED index
  /\ UNCHANGED <<template, clashing, answer, crossed, calls>>

(* The end of syncIndexes, or the delete of the template.                  *)
Done(q) ==
  /\ request[q].at = "drop" /\ request[q].todo = {}
  /\ template' = IF request[q].kind = "remove" THEN NoTemplate ELSE template
  /\ End(q, IF request[q].kind = "remove" /\ ~template.saved THEN "failed" ELSE "ok")
  /\ UNCHANGED <<index, clashing, crossed, stray, calls, tFaults>>

(* The process dies; a build that is interrupted leaves its entry.         *)
IndexCrash ==
  /\ UnderWayRequests # {}
  /\ tFaults < TFaults /\ tFaults' = tFaults + 1
  /\ request' = [q \in Request |-> NoRequest]
  /\ index' = [i \in Idx |-> IF index[i] = "building" THEN "invalid" ELSE index[i]]
  /\ stray' = TRUE
  /\ UNCHANGED <<template, clashing, answer, crossed, calls>>

IndexNext ==
  \/ Clash
  \/ \E q \in Request :
       \/ \E needs \in SUBSET Idx : Accept(q, "create", needs) \/ Accept(q, "update", needs)
       \/ Accept(q, "remove", {})
       \/ Save(q) \/ Ensured(q) \/ Done(q)
       \/ \E i \in Idx : Check(q, i) \/ Create(q, i) \/ Built(q, i) \/ NotBuilt(q, i) \/ Drop(q, i)
  \/ IndexCrash

IndexSpec == IndexInit /\ [][IndexNext]_indexVars

-----------------------------------------------------------------------------
(* Properties.                                                             *)

(* An answer "ok" means that every index of the template is there and      *)
(* valid, whatever failures, crashes and INVALID leftovers came before:    *)
(* unless the request met another one (then one may drop what the other    *)
(* needs).  The ON CONFLICT of every ingest rests on the unique index.     *)
OkMeansIndexed ==
  [][\A q \in Request \ crossed' :
       answer[q] # "ok" /\ answer'[q] = "ok" =>
         \A i \in template'.needs : index'[i] = "valid"]_indexVars

(* With no request under way there is no index that the template does not  *)
(* need, unless a request ended early or met another one: the next save    *)
(* compares with the stored template, which already lacks them.            *)
NoStrayIndex ==
  UnderWayRequests = {} /\ ~stray =>
    \A i \in Idx \ template.needs : index[i] = "none"

(* What a request for a template leaves is what its answer says.           *)
AnswersTellIndexes == OkMeansIndexed /\ []NoStrayIndex
=============================================================================
