------------------------------- MODULE RunLife -------------------------------
(***************************************************************************)
(* The life of an operation that runs in the background, without its job,  *)
(* its workers and the steps of a cancel: it is asked for, taken by one    *)
(* worker, begun, and ends once.  Only runs that somebody has called off   *)
(* or whose worker was lost may go astray, and what is called off before   *)
(* anybody has taken it is never begun.  OperationRuns.tla is shown to     *)
(* implement this module.                                                  *)
(***************************************************************************)
EXTENDS Naturals

CONSTANT Run

VARIABLES phase,  (* what the user reads                                    *)
          called, (* runs that somebody has called off                      *)
          taken,  (* runs in the hands of a worker that goes on with them   *)
          begun,  (* begun[r]: how often the work of r was begun            *)
          lost    (* lost[r]: how often r was found without its worker      *)

lifeVars == <<phase, called, taken, begun, lost>>

Init ==
  /\ phase = [r \in Run |-> "none"]
  /\ called = {} /\ taken = {}
  /\ begun = [r \in Run |-> 0]
  /\ lost = [r \in Run |-> 0]

(* Whose phases may be overwritten by somebody who read an older one.      *)
Disturbed(r) == r \in called \/ lost[r] > 0
Becomes(r, p) == phase' = [phase EXCEPT ![r] = p]

Ask(r) ==
  /\ phase[r] = "none" /\ Becomes(r, "queued")
  /\ UNCHANGED <<called, taken, begun, lost>>

(* Active runs can be called off; the phase says so later, if ever.        *)
CallOff(r) ==
  /\ r \notin called /\ phase[r] \in {"queued", "running"}
  /\ called' = called \cup {r}
  /\ UNCHANGED <<phase, taken, begun, lost>>

ShowCanceled(r) ==
  /\ r \in called /\ Becomes(r, "canceled")
  /\ UNCHANGED <<called, taken, begun, lost>>

Take(r) ==
  /\ r \notin taken
  /\ phase[r] # "none" /\ phase[r] # "canceled"
  /\ Disturbed(r) \/ phase[r] = "queued"
  /\ taken' = taken \cup {r}
  /\ UNCHANGED <<phase, called, begun, lost>>

(* The work begins once, and once more for each worker that was lost.      *)
Begin(r) ==
  /\ r \in taken /\ begun[r] <= lost[r]
  /\ Disturbed(r) \/ phase[r] = "queued"
  /\ Becomes(r, "running")
  /\ begun' = [begun EXCEPT ![r] = @ + 1]
  /\ UNCHANGED <<called, taken, lost>>

(* Only work that was begun has a result.                                  *)
End(r, result) ==
  /\ r \in taken /\ begun[r] > 0
  /\ Disturbed(r) \/ phase[r] = "running"
  /\ Becomes(r, result)
  /\ UNCHANGED <<called, taken, begun, lost>>

Leave(r) ==
  /\ r \in taken /\ taken' = taken \ {r}
  /\ UNCHANGED <<phase, called, begun, lost>>

(* All workers stop; later it shows which runs they had.                   *)
Stop ==
  /\ taken' = {}
  /\ UNCHANGED <<phase, called, begun, lost>>

FindLost(r) ==
  /\ r \notin taken /\ phase[r] # "none"
  /\ lost' = [lost EXCEPT ![r] = @ + 1]
  /\ UNCHANGED <<phase, called, taken, begun>>

Next ==
  \/ \E r \in Run :
       \/ Ask(r) \/ CallOff(r) \/ ShowCanceled(r)
       \/ Take(r) \/ Begin(r) \/ Leave(r) \/ FindLost(r)
       \/ \E result \in {"success", "error"} : End(r, result)
  \/ Stop

Spec == Init /\ [][Next]_lifeVars
=============================================================================
