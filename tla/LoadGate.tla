------------------------------ MODULE LoadGate ------------------------------
(***************************************************************************)
(* What the load staging of table_rows promises, without its transactions, *)
(* locks, retries and deadlocks: every load is a gate that holds the rows  *)
(* of its batches and opens once, for all of them, when the last batch is  *)
(* in.  LoadStaging.tla is shown to implement this module.                 *)
(***************************************************************************)
CONSTANTS Row,      (* rows of one template                               *)
          Load,     (* loads: files that arrive cut into batches          *)
          Needed    (* Needed[l]: the batch indices load l is made of     *)

VARIABLES released, (* loads whose gate has opened                        *)
          got,      (* got[l]: batches of l that are in                   *)
          held      (* held[l]: rows waiting behind the gate of l         *)

gateVars == <<released, got, held>>

Init ==
  /\ released = {}
  /\ got = [l \in Load |-> {}]
  /\ held = [l \in Load |-> {}]

(* Rows R go behind the gate of l; a row waits behind one gate at most. *)
Behind(l, R) == [k \in Load |-> IF k = l THEN held[k] \cup R ELSE held[k] \ R]

(* Some batches (none, when only a total is announced) join a closed gate. *)
Collect(l, B, R) ==
  /\ l \notin released
  /\ got' = [got EXCEPT ![l] = @ \cup B]
  /\ held' = Behind(l, R)
  /\ UNCHANGED released

(* The gate opens with every batch in, and lets every held row through. *)
Open(l, B, R) ==
  /\ l \notin released
  /\ Needed[l] \subseteq got[l] \cup B
  /\ released' = released \cup {l}
  /\ got' = [got EXCEPT ![l] = @ \cup B]
  /\ held' = [Behind(l, R) EXCEPT ![l] = {}]

(* Rows leave a closed gate for another reason: an edit, a single event,  *)
(* the outcome of a call that was already in flight, a vendor result.     *)
Withdraw(R) ==
  /\ held' = [l \in Load |-> held[l] \ R]
  /\ UNCHANGED <<released, got>>

Next ==
  \/ \E l \in Load, B \in SUBSET UNION {Needed[k] : k \in Load}, R \in SUBSET Row :
       Collect(l, B, R) \/ Open(l, B, R)
  \/ \E R \in SUBSET Row : Withdraw(R)

Spec == Init /\ [][Next]_gateVars
=============================================================================
