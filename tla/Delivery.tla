------------------------------ MODULE Delivery ------------------------------
(***************************************************************************)
(* What the outbox promises of an event, without drains, their readings of *)
(* the table, failures, crashes and purges: an event that a transaction    *)
(* has accepted is handed to the queue at least once, or given up after so *)
(* many tries.  Outbox.tla is shown to implement this module.              *)
(***************************************************************************)
EXTENDS Naturals

CONSTANTS Event,     (* domain events                                      *)
          MaxTries   (* tries after which an event may be given up         *)

VARIABLES accepted, (* events whose transaction has committed              *)
          copies,   (* copies[e]: how often e was handed to the queue      *)
          tries,    (* tries[e]: tries of e that were noted as failed      *)
          settled,  (* events nobody has to care for any more ...          *)
          givenUp   (* ... and those of them that were given up            *)

deliveryVars == <<accepted, copies, tries, settled, givenUp>>

Init ==
  /\ accepted = {} /\ settled = {} /\ givenUp = {}
  /\ copies = [e \in Event |-> 0]
  /\ tries = [e \in Event |-> 0]

Accept(e) ==
  /\ e \notin accepted
  /\ accepted' = accepted \cup {e}
  /\ UNCHANGED <<copies, tries, settled, givenUp>>

(* Only what is accepted is handed over, perhaps after it was settled.     *)
Hand(e) ==
  /\ e \in accepted
  /\ copies' = [copies EXCEPT ![e] = @ + 1]
  /\ UNCHANGED <<accepted, tries, settled, givenUp>>

NoteFailure(e) ==
  /\ e \in accepted
  /\ tries' = [tries EXCEPT ![e] = @ + 1]
  /\ UNCHANGED <<accepted, copies, settled, givenUp>>

Settle(e) ==
  /\ e \in accepted /\ copies[e] > 0
  /\ settled' = settled \cup {e}
  /\ UNCHANGED <<accepted, copies, tries, givenUp>>

(* Two who care for one event may settle it and give it up.                *)
GiveUp(e) ==
  /\ e \in accepted /\ tries[e] >= MaxTries
  /\ settled' = settled \cup {e}
  /\ givenUp' = givenUp \cup {e}
  /\ UNCHANGED <<accepted, copies, tries>>

Next == \E e \in Event : Accept(e) \/ Hand(e) \/ NoteFailure(e) \/ Settle(e) \/ GiveUp(e)

Spec == Init /\ [][Next]_deliveryVars
=============================================================================
