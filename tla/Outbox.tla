------------------------------- MODULE Outbox -------------------------------
(***************************************************************************)
(* The outbox of domain events (outbox/typeorm-outbox.store.ts, outbox-    *)
(* drain.cron.ts) and the purge that retention runs over it.               *)
(*                                                                         *)
(* Domain transactions spool events; every five seconds a drain reads the  *)
(* oldest pending ones and publishes them, one after the other, to the     *)
(* hub-events queue.  The timer does not wait for the last drain, so       *)
(* drains overlap, each with its own reading of the table.                 *)
(*                                                                         *)
(* Events are numbered by spooled_at, which is the start of the domain     *)
(* transaction: they may become visible in any order.                      *)
(***************************************************************************)
EXTENDS Naturals, FiniteSets

CONSTANTS Event,       (* domain events, by spooled_at                     *)
          Drain,       (* executions of the drain that may overlap         *)
          Limit,       (* rows a drain reads: 50 in the code               *)
          MaxAttempts, (* MAX_ATTEMPTS: 5 in the code                      *)
          MaxFaults    (* bound on failures of Postgres, lost answers of   *)
                       (* Redis and crashes of the process                  *)

ASSUME OutboxAssumption ==
  /\ Event \subseteq Nat
  /\ IsFiniteSet(Drain)
  /\ Limit \in Nat \ {0}
  /\ MaxAttempts \in Nat \ {0}
  /\ MaxFaults \in Nat

VARIABLES
  spooled,   (* events whose transaction has committed                     *)
  purged,    (* events whose row retention has deleted                     *)
  drainedAt, (* events with drained_at set                                 *)
  deadAt,    (* events with dead_letter_at set                             *)
  attempts,  (* attempts                                                   *)
  published, (* how often the event was put into hub-events                *)
  todo,      (* what a drain has read and not finished: ids and attempts   *)
  step,      (* what a drain does to the first of them                     *)
  cutShort,  (* how many drains a failure or a crash has ended early        *)
  faults

rows == <<spooled, purged, drainedAt, deadAt, attempts>>
vars == <<rows, published, todo, step, cutShort, faults>>

Item == [id : Event, attempts : Nat]

(* Overlapping drains may count a few attempts too many, one each. *)
TypeOK ==
  /\ spooled \subseteq Event
  /\ purged \subseteq spooled
  /\ drainedAt \subseteq spooled
  /\ deadAt \subseteq spooled
  /\ attempts \in [Event -> 0..(MaxAttempts + Cardinality(Drain) - 1)]
  /\ published \in [Event -> Nat]
  /\ todo \in [Drain -> SUBSET Item]
  /\ step \in [Drain -> {"next", "mark", "record"}]
  /\ cutShort \in Nat
  /\ faults \in 0..MaxFaults

Init ==
  /\ spooled = {}
  /\ purged = {}
  /\ drainedAt = {}
  /\ deadAt = {}
  /\ attempts = [e \in Event |-> 0]
  /\ published = [e \in Event |-> 0]
  /\ todo = [d \in Drain |-> {}]
  /\ step = [d \in Drain |-> "next"]
  /\ cutShort = 0
  /\ faults = 0

Fault == faults < MaxFaults /\ faults' = faults + 1

(* save, within the domain transaction. *)
Spool(e) ==
  /\ e \notin spooled
  /\ spooled' = spooled \cup {e}
  /\ UNCHANGED <<purged, drainedAt, deadAt, attempts, published, todo, step, cutShort, faults>>

-----------------------------------------------------------------------------
(* The drain.                                                              *)

Pending == spooled \ (drainedAt \cup deadAt)

(* getPending: the oldest ones, up to the limit. *)
Oldest == {e \in Pending : Cardinality({x \in Pending : x < e}) < Limit}

GetPending(d) ==
  /\ todo[d] = {}
  /\ Pending # {}
  /\ todo' = [todo EXCEPT ![d] = {[id |-> e, attempts |-> attempts[e]] : e \in Oldest}]
  /\ UNCHANGED <<rows, published, step, cutShort, faults>>

(* The item a drain is at. *)
Current(d, i) == i \in todo[d] /\ \A j \in todo[d] : i.id <= j.id

(* On to the next item, or, when the exception leaves drain, to none. *)
NextItem(d, i) ==
  /\ todo' = [todo EXCEPT ![d] = @ \ {i}]
  /\ step' = [step EXCEPT ![d] = "next"]
Abort(d) ==
  /\ todo' = [todo EXCEPT ![d] = {}]
  /\ step' = [step EXCEPT ![d] = "next"]

(* UPDATE of one row by id: nothing happens when it is gone. *)
Row(e) == {e} \ purged

(* Mutation: given up one attempt early. *)
MarkDeadLetterEarly(d, i) ==
  /\ Current(d, i) /\ step[d] = "next"
  /\ i.attempts + 1 >= MaxAttempts
  /\ deadAt' = deadAt \cup Row(i.id)
  /\ drainedAt' = drainedAt \cup Row(i.id)
  /\ NextItem(d, i)
  /\ UNCHANGED <<spooled, purged, attempts, published, cutShort, faults>>

(* The attempts the drain has read are used up: dead letter, which sets    *)
(* drained_at too.                                                         *)
MarkDeadLetter(d, i) ==
  /\ Current(d, i) /\ step[d] = "next"
  /\ i.attempts >= MaxAttempts
  /\ deadAt' = deadAt \cup Row(i.id)
  /\ drainedAt' = drainedAt \cup Row(i.id)
  /\ NextItem(d, i)
  /\ UNCHANGED <<spooled, purged, attempts, published, cutShort, faults>>

(* queue.add *)
Publish(d, i) ==
  /\ Current(d, i) /\ step[d] = "next"
  /\ i.attempts < MaxAttempts
  /\ published' = [published EXCEPT ![i.id] = @ + 1]
  /\ step' = [step EXCEPT ![d] = "mark"]
  /\ UNCHANGED <<rows, todo, cutShort, faults>>

(* queue.add rejects; after a lost answer the job is in the queue anyway. *)
PublishFails(d, i) ==
  /\ Current(d, i) /\ step[d] = "next"
  /\ i.attempts < MaxAttempts
  /\ step' = [step EXCEPT ![d] = "record"]
  /\ \/ UNCHANGED <<published, faults>>
     \/ published' = [published EXCEPT ![i.id] = @ + 1] /\ Fault
  /\ UNCHANGED <<rows, todo, cutShort>>

(* Mutation: drained in the step that should publish. *)
MarkDrainedFirst(d, i) ==
  /\ Current(d, i) /\ step[d] \in {"next", "mark"}
  /\ drainedAt' = drainedAt \cup Row(i.id)
  /\ NextItem(d, i)
  /\ UNCHANGED <<spooled, purged, deadAt, attempts, published, cutShort, faults>>

MarkDrained(d, i) ==
  /\ Current(d, i) /\ step[d] = "mark"
  /\ drainedAt' = drainedAt \cup Row(i.id)
  /\ NextItem(d, i)
  /\ UNCHANGED <<spooled, purged, deadAt, attempts, published, cutShort, faults>>

(* The UPDATE fails: the same catch counts it as a failed attempt. *)
MarkDrainedFails(d, i) ==
  /\ Current(d, i) /\ step[d] = "mark"
  /\ Fault
  /\ step' = [step EXCEPT ![d] = "record"]
  /\ UNCHANGED <<rows, published, todo, cutShort>>

(* Mutation: only the error text is stored. *)
RecordAttemptUncounted(d, i) ==
  /\ Current(d, i) /\ step[d] = "record"
  /\ NextItem(d, i)
  /\ UNCHANGED <<rows, published, cutShort, faults>>

RecordAttempt(d, i) ==
  /\ Current(d, i) /\ step[d] = "record"
  /\ attempts' = [e \in Event |-> IF e \in Row(i.id) THEN attempts[e] + 1 ELSE attempts[e]]
  /\ NextItem(d, i)
  /\ UNCHANGED <<spooled, purged, drainedAt, deadAt, published, cutShort, faults>>

(* markDeadLetter or recordAttempt fails (the latter perhaps between its   *)
(* two statements): the drain ends, the rest waits for the next one.       *)
StoreFails(d, i) ==
  /\ Current(d, i)
  /\ \/ step[d] = "next" /\ i.attempts >= MaxAttempts /\ UNCHANGED attempts
     \/ step[d] = "record" /\ UNCHANGED attempts
     \/ /\ step[d] = "record"
        /\ attempts' = [e \in Event |-> IF e \in Row(i.id) THEN attempts[e] + 1 ELSE attempts[e]]
  /\ Fault
  /\ Abort(d)
  /\ cutShort' = cutShort + 1
  /\ UNCHANGED <<spooled, purged, drainedAt, deadAt, published>>

Crash ==
  /\ Fault
  /\ cutShort' = cutShort + Cardinality({d \in Drain : todo[d] # {}})
  /\ todo' = [d \in Drain |-> {}]
  /\ step' = [d \in Drain |-> "next"]
  /\ UNCHANGED <<rows, published>>

-----------------------------------------------------------------------------
(* executePurge of 'domain_event_outbox': rows drained before the cutoff,  *)
(* at least a day ago, which no drain still works on.                      *)
Purge(e) ==
  /\ e \in drainedAt \ purged
  /\ \A d \in Drain : \A i \in todo[d] : i.id # e
  /\ purged' = purged \cup {e}
  /\ UNCHANGED <<spooled, drainedAt, deadAt, attempts, published, todo, step, cutShort, faults>>

-----------------------------------------------------------------------------
ItemStep(d) ==
  \E i \in todo[d] :
    \/ MarkDeadLetter(d, i) \/ Publish(d, i) \/ PublishFails(d, i)
    \/ MarkDrained(d, i) \/ MarkDrainedFails(d, i)
    \/ RecordAttempt(d, i) \/ StoreFails(d, i)

Next ==
  \/ \E e \in Event : Spool(e) \/ Purge(e)
  \/ \E d \in Drain : GetPending(d) \/ ItemStep(d)
  \/ Crash

Spec == Init /\ [][Next]_vars

(* The timer fires and a drain works through what it has read.  Nothing    *)
(* says that the queue ever accepts an event.                              *)
FairSpec ==
  Spec /\ \A d \in Drain : WF_vars(GetPending(d)) /\ WF_vars(ItemStep(d))

-----------------------------------------------------------------------------
(* Properties.                                                             *)

(* At least once: an event leaves the pending ones only as published or as *)
(* a dead letter, with drains that overlap, fail, crash or see rows twice. *)
NothingLost ==
  \A e \in drainedAt \ deadAt : published[e] > 0

Promise == INSTANCE Delivery WITH
  MaxTries <- MaxAttempts,
  accepted <- spooled,
  copies <- published,
  tries <- attempts,
  settled <- drainedAt,
  givenUp <- deadAt

(* The overlapping drains, on readings that may be old, do what Delivery   *)
(* promises: only events whose transaction has committed are published,    *)
(* none leaves the pending ones but published or with all its attempts     *)
(* counted, and none comes back, whatever fails between two statements.    *)
ImplementsDelivery == Promise!Spec

(* An event is published again only after a failure that was counted, for  *)
(* a drain that was cut short, or once by each drain that read it.         *)
RepublishCounted ==
  \A e \in Event : published[e] <= attempts[e] + cutShort + Cardinality(Drain)

(* Even if the queue never accepts an event again, no event stays pending: *)
(* those that cannot be published make way for the ones behind them.       *)
EventsSettle ==
  \A e \in Event : e \in spooled ~> e \in drainedAt

(* Dead letters are never purged. *)
DeadLettersKept == deadAt \cap purged = {}
=============================================================================
