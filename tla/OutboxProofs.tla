---------------------------- MODULE OutboxProofs ----------------------------
(* Theorems about Outbox, for any events, drains, limits and faults.         *)
EXTENDS Outbox, FiniteSetTheorems, TLAPS

(* The part of the types that the argument needs. *)
Shapes ==
  /\ spooled \subseteq Event /\ drainedAt \subseteq Event
  /\ published \in [Event -> Nat]
  /\ attempts \in [Event -> Nat]
  /\ todo \in [Drain -> SUBSET Item]
  /\ step \in [Drain -> {"next", "mark", "record"}]
  /\ \A d \in Drain : todo[d] = {} => step[d] = "next"

(* A drain about to set drained_at has published the event it is at. *)
MarksPublished ==
  \A d \in Drain : \A i \in todo[d] :
    step[d] = "mark" /\ Current(d, i) => published[i.id] > 0

DeliveryInv == Shapes /\ MarksPublished /\ NothingLost

LEMMA DeliveryInit == Init => DeliveryInv
BY DEF Init, DeliveryInv, Shapes, MarksPublished, NothingLost

(* Of the items a drain has read it is at one only. *)
LEMMA OneCurrent ==
  ASSUME Shapes, NEW d \in Drain, NEW i, NEW j, Current(d, i), Current(d, j)
  PROVE  i.id \in Event /\ i.id = j.id
<1>1. i \in Item /\ j \in Item
  BY DEF Shapes, Current
<1>2. i.id \in Event /\ j.id \in Event
  BY <1>1 DEF Item
<1>3. i.id <= j.id /\ j.id <= i.id
  BY DEF Current
<1>4. i.id \in Nat /\ j.id \in Nat
  BY <1>2, OutboxAssumption
<1> QED
  BY <1>2, <1>3, <1>4

(* Events are never unpublished. *)
Monotone == \A e \in Event : published'[e] \in Nat /\ published'[e] >= published[e]

LEMMA PublishMonotone ==
  ASSUME Shapes, NEW d \in Drain, NEW i \in todo[d],
         published' = published \/ published' = [published EXCEPT ![i.id] = @ + 1]
  PROVE  Monotone /\ published' \in [Event -> Nat]
BY DEF Shapes, Monotone, Item

(* Drain d moves on and is not about to set drained_at: what the others    *)
(* have published stays published.                                         *)
LEMMA DrainMoves ==
  ASSUME DeliveryInv, NEW d \in Drain, NEW T \in SUBSET Item, NEW s \in {"next", "record"},
         todo' = [todo EXCEPT ![d] = T], step' = [step EXCEPT ![d] = s],
         Monotone, published' \in [Event -> Nat],
         s = "next" \/ T # {}, UNCHANGED spooled, drainedAt' \subseteq Event, attempts' \in [Event -> Nat]
  PROVE  Shapes' /\ MarksPublished'
<1>1. Shapes'
  BY DEF DeliveryInv, Shapes
<1>2. \A c \in Drain : step'[c] = "mark" => c # d /\ step'[c] = step[c] /\ todo'[c] = todo[c]
  BY DEF DeliveryInv, Shapes
<1>3. ASSUME NEW c \in Drain, NEW i \in todo'[c], step'[c] = "mark", Current(c, i)'
      PROVE  published'[i.id] > 0
  <2>1. step[c] = "mark" /\ Current(c, i) /\ i \in todo[c]
    BY <1>2, <1>3 DEF Current
  <2>2. i.id \in Event /\ published[i.id] > 0 /\ published[i.id] \in Nat
    BY <2>1 DEF DeliveryInv, MarksPublished, Shapes, Item
  <2> QED
    BY <2>2 DEF Monotone
<1> QED
  BY <1>1, <1>3 DEF MarksPublished

(* No event is drained in this step, or one that has been published. *)
LEMMA NothingNewlyLost ==
  ASSUME DeliveryInv, Monotone, Shapes',
         \A e \in drainedAt' \ deadAt' : e \in drainedAt \ deadAt \/ published[e] > 0
  PROVE  NothingLost'
<1> SUFFICES ASSUME NEW e \in drainedAt' \ deadAt' PROVE published'[e] > 0
  BY DEF NothingLost
<1>1. e \in Event /\ published[e] \in Nat /\ published[e] > 0
  BY DEF DeliveryInv, Shapes, NothingLost
<1> QED
  BY <1>1 DEF Monotone

LEMMA DeliveryStep == DeliveryInv /\ [Next]_vars => DeliveryInv'
<1> SUFFICES ASSUME DeliveryInv, [Next]_vars PROVE DeliveryInv'
  OBVIOUS
<1> USE DEF rows
<1>0. UNCHANGED published => Monotone /\ published' \in [Event -> Nat]
  BY DEF DeliveryInv, Shapes, Monotone
<1>1. ASSUME NEW e \in Event, Spool(e) \/ Purge(e) PROVE DeliveryInv'
  BY <1>1 DEF Spool, Purge, DeliveryInv, Shapes, MarksPublished, Current, NothingLost
<1>2. ASSUME NEW d \in Drain, NEW T \in SUBSET Item, NEW s \in {"next", "record"},
             s = "next" \/ T # {},
             todo' = [todo EXCEPT ![d] = T], step' = [step EXCEPT ![d] = s],
             Monotone, published' \in [Event -> Nat],
             UNCHANGED spooled, drainedAt' \subseteq Event, attempts' \in [Event -> Nat],
             \A e \in drainedAt' \ deadAt' : e \in drainedAt \ deadAt \/ published[e] > 0
      PROVE  DeliveryInv'
  <2>1. Shapes' /\ MarksPublished'
    BY <1>2, DrainMoves
  <2> QED
    BY <1>2, <2>1, NothingNewlyLost DEF DeliveryInv
<1>3. ASSUME NEW d \in Drain, GetPending(d) PROVE DeliveryInv'
  <2> DEFINE T == {[id |-> e, attempts |-> attempts[e]] : e \in Oldest}
  <2>1. todo' = [todo EXCEPT ![d] = T] /\ step' = [step EXCEPT ![d] = "next"]
    BY <1>3 DEF GetPending, DeliveryInv, Shapes
  <2>2. T \in SUBSET Item
    <3>1. \A e \in Oldest : e \in Event /\ attempts[e] \in Nat
      BY DEF Oldest, Pending, DeliveryInv, Shapes
    <3> QED
      BY <3>1 DEF Item
  <2>3. UNCHANGED <<published, spooled, drainedAt, deadAt, attempts>>
    BY <1>3 DEF GetPending
  <2> HIDE DEF T
  <2> QED
    BY <1>0, <1>2, <2>1, <2>2, <2>3 DEF DeliveryInv, Shapes
<1>4. ASSUME NEW d \in Drain, NEW i \in todo[d],
             \/ MarkDeadLetter(d, i) \/ MarkDrained(d, i) \/ RecordAttempt(d, i)
      PROVE  DeliveryInv'
  <2>1. i \in Item /\ i.id \in Event /\ Current(d, i)
    BY <1>4 DEF DeliveryInv, Shapes, Item, MarkDeadLetter, MarkDrained, RecordAttempt
  <2>2. todo' = [todo EXCEPT ![d] = todo[d] \ {i}] /\ step' = [step EXCEPT ![d] = "next"]
    BY <1>4 DEF MarkDeadLetter, MarkDrained, RecordAttempt, NextItem
  <2>3. todo[d] \ {i} \in SUBSET Item
    BY DEF DeliveryInv, Shapes
  <2>4. UNCHANGED <<published, spooled>> /\ attempts' \in [Event -> Nat]
    BY <1>4 DEF MarkDeadLetter, MarkDrained, RecordAttempt, DeliveryInv, Shapes
  <2>5. drainedAt' \subseteq Event
    BY <1>4, <2>1 DEF MarkDeadLetter, MarkDrained, RecordAttempt, Row, DeliveryInv, Shapes
  <2>6. \A e \in drainedAt' \ deadAt' : e \in drainedAt \ deadAt \/ published[e] > 0
    <3>1. CASE MarkDeadLetter(d, i)
      BY <3>1 DEF MarkDeadLetter, Row
    <3>2. CASE MarkDrained(d, i)
      <4>1. published[i.id] > 0
        BY <2>1, <3>2 DEF MarkDrained, DeliveryInv, MarksPublished
      <4> QED
        BY <3>2, <4>1 DEF MarkDrained, Row
    <3>3. CASE RecordAttempt(d, i)
      BY <3>3 DEF RecordAttempt
    <3> QED
      BY <1>4, <3>1, <3>2, <3>3
  <2> QED
    BY <1>0, <1>2, <2>2, <2>3, <2>4, <2>5, <2>6
<1>5. ASSUME NEW d \in Drain, NEW i \in todo[d], StoreFails(d, i) PROVE DeliveryInv'
  <2>1. todo' = [todo EXCEPT ![d] = {}] /\ step' = [step EXCEPT ![d] = "next"]
    BY <1>5 DEF StoreFails, Abort
  <2>2. UNCHANGED <<published, spooled, drainedAt, deadAt>> /\ attempts' \in [Event -> Nat]
    BY <1>5 DEF StoreFails, DeliveryInv, Shapes
  <2> QED
    BY <1>0, <1>2, <2>1, <2>2 DEF DeliveryInv, Shapes
<1>6. ASSUME NEW d \in Drain, NEW i \in todo[d], PublishFails(d, i) \/ MarkDrainedFails(d, i)
      PROVE  DeliveryInv'
  <2>1. step' = [step EXCEPT ![d] = "record"] /\ todo' = [todo EXCEPT ![d] = todo[d]]
    BY <1>6 DEF PublishFails, MarkDrainedFails, DeliveryInv, Shapes
  <2>2. todo[d] \in SUBSET Item /\ todo[d] # {}
    BY DEF DeliveryInv, Shapes
  <2>3. Monotone /\ published' \in [Event -> Nat]
    BY <1>0, <1>6, PublishMonotone DEF PublishFails, MarkDrainedFails, DeliveryInv
  <2>4. UNCHANGED <<spooled, drainedAt, deadAt, attempts>>
    BY <1>6 DEF PublishFails, MarkDrainedFails
  <2> QED
    BY <1>2, <2>1, <2>2, <2>3, <2>4 DEF DeliveryInv, Shapes
<1>7. ASSUME NEW d \in Drain, NEW i \in todo[d], Publish(d, i) PROVE DeliveryInv'
  <2>1. Monotone /\ published' \in [Event -> Nat]
    BY <1>7, PublishMonotone DEF Publish, DeliveryInv
  <2>2. /\ step' = [step EXCEPT ![d] = "mark"] /\ Current(d, i)
        /\ published' = [published EXCEPT ![i.id] = @ + 1]
        /\ UNCHANGED <<spooled, drainedAt, deadAt, todo, attempts>>
    BY <1>7 DEF Publish
  <2>3. Shapes'
    BY <2>1, <2>2 DEF DeliveryInv, Shapes
  <2>4. ASSUME NEW c \in Drain, NEW j \in todo[c], step'[c] = "mark", Current(c, j)
        PROVE  published'[j.id] > 0
    <3>1. CASE c = d
      <4>1. i.id \in Event /\ i.id = j.id
        BY <2>2, <2>4, <3>1, OneCurrent DEF DeliveryInv
      <4> QED
        BY <2>2, <4>1 DEF DeliveryInv, Shapes
    <3>2. CASE c # d
      <4>1. step[c] = "mark" /\ j.id \in Event
        BY <2>2, <2>4, <3>2 DEF DeliveryInv, Shapes, Item
      <4>2. published[j.id] > 0 /\ published[j.id] \in Nat
        BY <2>4, <4>1 DEF DeliveryInv, MarksPublished, Shapes
      <4> QED
        BY <2>1, <4>1, <4>2 DEF Monotone
    <3> QED
      BY <3>1, <3>2
  <2>5. MarksPublished'
    BY <2>2, <2>4 DEF MarksPublished, Current
  <2>6. NothingLost'
    BY <2>1, <2>2, <2>3, NothingNewlyLost DEF DeliveryInv, NothingLost
  <2> QED
    BY <2>3, <2>5, <2>6 DEF DeliveryInv
<1>8. CASE Crash
  BY <1>8 DEF Crash, DeliveryInv, Shapes, MarksPublished, NothingLost
<1>9. CASE UNCHANGED vars
  BY <1>9 DEF vars, DeliveryInv, Shapes, MarksPublished, Current, NothingLost
<1> QED
  BY <1>1, <1>3, <1>4, <1>5, <1>6, <1>7, <1>8, <1>9 DEF Next, ItemStep

(* However drains overlap, fail and crash: an event leaves the pending ones *)
(* as published at least once or as a dead letter.                          *)
THEOREM AtLeastOnce == Spec => []NothingLost
<1>1. DeliveryInv => NothingLost
  BY DEF DeliveryInv
<1> QED
  BY <1>1, DeliveryInit, DeliveryStep, PTL DEF Spec

-----------------------------------------------------------------------------
(* Nothing is given up early.                                               *)

(* Attempts only grow, so what a drain has read is no more than there are. *)
ReadNoMore ==
  \A d \in Drain : \A i \in todo[d] : i.attempts <= attempts[i.id]

DeadLetterTriedEnough ==
  \A e \in deadAt : attempts[e] >= MaxAttempts

TriedInv == ReadNoMore /\ deadAt \subseteq Event /\ DeadLetterTriedEnough

LEMMA TriedStep == DeliveryInv /\ TriedInv /\ [Next]_vars => TriedInv'
<1> SUFFICES ASSUME DeliveryInv, TriedInv, [Next]_vars PROVE TriedInv'
  OBVIOUS
<1> USE DEF rows
<1>1. \A d \in Drain : \A i \in todo[d] :
        i.id \in Event /\ i.attempts \in Nat /\ attempts[i.id] \in Nat
  BY DEF DeliveryInv, Shapes, Item
<1>2. ASSUME attempts' \in [Event -> Nat],
             \A e \in Event : attempts'[e] >= attempts[e],
             \A d \in Drain : todo'[d] \subseteq todo[d],
             \A e \in deadAt' \ deadAt : e \in Event /\ attempts[e] >= MaxAttempts
      PROVE  TriedInv'
  <2>1. ReadNoMore'
    <3> SUFFICES ASSUME NEW d \in Drain, NEW i \in todo'[d] PROVE i.attempts <= attempts'[i.id]
      BY DEF ReadNoMore
    <3>1. /\ i.id \in Event /\ i.attempts \in Nat /\ attempts[i.id] \in Nat
          /\ i.attempts <= attempts[i.id]
      BY <1>1, <1>2 DEF TriedInv, ReadNoMore
    <3> QED
      BY <1>2, <3>1
  <2>2. ASSUME NEW e \in deadAt' PROVE e \in Event /\ attempts'[e] >= MaxAttempts
    <3>1. e \in Event /\ attempts[e] \in Nat /\ attempts[e] >= MaxAttempts
      BY <1>2 DEF TriedInv, DeadLetterTriedEnough, DeliveryInv, Shapes
    <3> QED
      BY <1>2, <3>1, OutboxAssumption
  <2> QED
    BY <2>1, <2>2 DEF TriedInv, DeadLetterTriedEnough
<1>3. /\ UNCHANGED attempts => attempts' \in [Event -> Nat]
      /\ UNCHANGED attempts => \A e \in Event : attempts'[e] >= attempts[e]
  BY DEF DeliveryInv, Shapes
<1>4. ASSUME NEW e \in Event, Spool(e) \/ Purge(e) PROVE TriedInv'
  BY <1>2, <1>3, <1>4 DEF Spool, Purge
<1>5. ASSUME NEW d \in Drain, GetPending(d) PROVE TriedInv'
  <2>1. UNCHANGED <<attempts, deadAt>>
    BY <1>5 DEF GetPending
  <2>2. ASSUME NEW c \in Drain, NEW i \in todo'[c] PROVE i.attempts <= attempts'[i.id]
    <3>1. CASE c = d
      <4>1. PICK e \in Oldest : i = [id |-> e, attempts |-> attempts[e]]
        BY <1>5, <2>2, <3>1 DEF GetPending, DeliveryInv, Shapes
      <4>2. attempts[e] \in Nat
        BY DEF Oldest, Pending, DeliveryInv, Shapes
      <4> QED
        BY <2>1, <4>1, <4>2
    <3>2. CASE c # d
      BY <1>5, <2>1, <2>2, <3>2 DEF GetPending, DeliveryInv, Shapes, TriedInv, ReadNoMore
    <3> QED
      BY <3>1, <3>2
  <2> QED
    BY <2>1, <2>2 DEF TriedInv, ReadNoMore, DeadLetterTriedEnough
<1>6. ASSUME NEW d \in Drain, NEW i \in todo[d],
             RecordAttempt(d, i) \/ StoreFails(d, i)
      PROVE  TriedInv'
  <2>1. \/ UNCHANGED attempts
        \/ attempts' = [e \in Event |-> IF e \in Row(i.id) THEN attempts[e] + 1 ELSE attempts[e]]
    BY <1>6 DEF RecordAttempt, StoreFails
  <2>2. attempts' \in [Event -> Nat] /\ \A e \in Event : attempts'[e] >= attempts[e]
    BY <2>1 DEF DeliveryInv, Shapes
  <2>3. UNCHANGED deadAt /\ \A c \in Drain : todo'[c] \subseteq todo[c]
    BY <1>6 DEF RecordAttempt, StoreFails, NextItem, Abort, DeliveryInv, Shapes
  <2> QED
    BY <1>2, <2>2, <2>3
<1>7. ASSUME NEW d \in Drain, NEW i \in todo[d],
             \/ Publish(d, i) \/ PublishFails(d, i)
             \/ MarkDrained(d, i) \/ MarkDrainedFails(d, i)
      PROVE  TriedInv'
  <2>1. UNCHANGED <<attempts, deadAt>> /\ \A c \in Drain : todo'[c] \subseteq todo[c]
    BY <1>7 DEF Publish, PublishFails, MarkDrained, MarkDrainedFails, NextItem, DeliveryInv, Shapes
  <2> QED
    BY <1>2, <1>3, <2>1
<1>8. ASSUME NEW d \in Drain, NEW i \in todo[d], MarkDeadLetter(d, i) PROVE TriedInv'
  <2>1. UNCHANGED attempts /\ \A c \in Drain : todo'[c] \subseteq todo[c]
    BY <1>8 DEF MarkDeadLetter, NextItem, DeliveryInv, Shapes
  <2>2. ASSUME NEW e \in deadAt' \ deadAt PROVE e \in Event /\ attempts[e] >= MaxAttempts
    <3>1. e = i.id /\ i.attempts >= MaxAttempts
      BY <1>8, <2>2 DEF MarkDeadLetter, Row
    <3> QED
      BY <1>1, <3>1, OutboxAssumption DEF TriedInv, ReadNoMore
  <2> QED
    BY <1>2, <1>3, <2>1, <2>2
<1>9. CASE Crash
  <2>1. UNCHANGED <<attempts, deadAt>> /\ \A c \in Drain : todo'[c] \subseteq todo[c]
    BY <1>9 DEF Crash
  <2> QED
    BY <1>2, <1>3, <2>1
<1>10. CASE UNCHANGED vars
  BY <1>2, <1>3, <1>10 DEF vars
<1> QED
  BY <1>4, <1>5, <1>6, <1>7, <1>8, <1>9, <1>10 DEF Next, ItemStep

(* An event becomes a dead letter only with all its attempts counted, also *)
(* when the drain that gives it up decides on an old reading.              *)
THEOREM DeadLettersTried == Spec => []DeadLetterTriedEnough
<1> DEFINE Inv == DeliveryInv /\ TriedInv
<1>1. Init => Inv
  BY DeliveryInit DEF Init, TriedInv, ReadNoMore, DeadLetterTriedEnough
<1>2. Inv /\ [Next]_vars => Inv'
  BY DeliveryStep, TriedStep
<1>3. Inv => DeadLetterTriedEnough
  BY DEF TriedInv
<1> QED
  BY <1>1, <1>2, <1>3, PTL DEF Spec
-----------------------------------------------------------------------------
(* Who has published how often.                                             *)

(* A drain reads each event once, none that is purged; purged events have   *)
(* been drained.                                                            *)
ReadingsFit ==
  /\ cutShort \in Nat
  /\ purged \subseteq drainedAt
  /\ \A d \in Drain : \A i, j \in todo[d] : i.id = j.id => i = j
  /\ \A d \in Drain : \A i \in todo[d] : i.id \notin purged

Reads(d, e) == \E i \in todo[d] : i.id = e

(* The drain is past publishing the event and has not noted the outcome.    *)
Busy(d, e) == step[d] # "next" /\ \E i \in todo[d] : i.id = e /\ Current(d, i)

(* The drains whose publication of e no attempt accounts for: those that    *)
(* are at it, and once e is drained all that will not publish it any more.  *)
HasPublished(d, e) == IF e \in drainedAt THEN Reads(d, e) => Busy(d, e) ELSE Busy(d, e)
Publishers(e) == {d \in Drain : HasPublished(d, e)}

PublicationsFit ==
  \A e \in Event : published[e] <= attempts[e] + cutShort + Cardinality(Publishers(e))

LEMMA FinitePublishers ==
  ASSUME NEW S \in SUBSET Drain
  PROVE  IsFiniteSet(S) /\ Cardinality(S) \in Nat /\ Cardinality(S) <= Cardinality(Drain)
BY FS_Subset, FS_CardinalityType, OutboxAssumption

(* The other drains stay, drain d stays or becomes a publisher of e. *)
LEMMA OthersKeepPublishing ==
  ASSUME NEW d \in Drain, NEW e,
         \A c \in Drain \ {d} : todo'[c] = todo[c] /\ step'[c] = step[c],
         drainedAt \subseteq drainedAt'
  PROVE  /\ Publishers(e) \ {d} \subseteq Publishers(e)'
         /\ HasPublished(d, e)' => Publishers(e) \cup {d} \subseteq Publishers(e)'
         /\ (HasPublished(d, e) => HasPublished(d, e)') => Publishers(e) \subseteq Publishers(e)'
<1>1. ASSUME NEW c \in Drain, c # d, HasPublished(c, e) PROVE HasPublished(c, e)'
  <2>1. (Reads(c, e)' <=> Reads(c, e)) /\ (Busy(c, e)' <=> Busy(c, e))
    BY <1>1 DEF Reads, Busy, Current
  <2> QED BY <1>1, <2>1 DEF HasPublished
<1> QED BY <1>1 DEF Publishers

(* More publishers; one more publication, for one more publisher; one less  *)
(* publisher, for one more attempt or one more drain that was cut short.    *)
LEMMA PublicationsCounted ==
  ASSUME Shapes, Shapes', cutShort \in Nat, cutShort' \in Nat, cutShort' >= cutShort,
         NEW e \in Event, NEW d \in Drain, attempts'[e] >= attempts[e],
         published[e] <= attempts[e] + cutShort + Cardinality(Publishers(e)),
         \/ published'[e] = published[e] /\ Publishers(e) \subseteq Publishers(e)'
         \/ published'[e] = published[e] + 1 /\ d \notin Publishers(e)
              /\ Publishers(e) \cup {d} \subseteq Publishers(e)'
         \/ published'[e] = published[e] /\ Publishers(e) \ {d} \subseteq Publishers(e)'
              /\ (attempts'[e] >= attempts[e] + 1 \/ cutShort' >= cutShort + 1)
  PROVE  published'[e] <= attempts'[e] + cutShort' + Cardinality(Publishers(e)')
<1> DEFINE P == Publishers(e)
           Q == Publishers(e)'
<1>1. P \in SUBSET Drain /\ Q \in SUBSET Drain BY DEF Publishers
<1>2. /\ IsFiniteSet(P) /\ IsFiniteSet(Q) /\ Cardinality(P) \in Nat /\ Cardinality(Q) \in Nat
  BY <1>1, FinitePublishers
<1>3. /\ published[e] \in Nat /\ published'[e] \in Nat
      /\ attempts[e] \in Nat /\ attempts'[e] \in Nat
  BY DEF Shapes
<1> HIDE DEF P, Q
<1>4. published[e] <= attempts[e] + cutShort + Cardinality(P) BY DEF P
<1>5. CASE published'[e] = published[e] /\ P \subseteq Q
  <2>1. Cardinality(P) <= Cardinality(Q) BY <1>2, <1>5, FS_Subset
  <2> QED BY <2>1, <1>2, <1>3, <1>4, <1>5 DEF Q
<1>6. CASE published'[e] = published[e] + 1 /\ d \notin P /\ P \cup {d} \subseteq Q
  <2>1. Cardinality(P \cup {d}) = Cardinality(P) + 1 BY <1>2, <1>6, FS_AddElement
  <2>2. Cardinality(P \cup {d}) <= Cardinality(Q) BY <1>2, <1>6, FS_Subset
  <2> QED BY <2>1, <2>2, <1>2, <1>3, <1>4, <1>6 DEF Q
<1>7. CASE published'[e] = published[e] /\ P \ {d} \subseteq Q
           /\ (attempts'[e] >= attempts[e] + 1 \/ cutShort' >= cutShort + 1)
  <2>1. Cardinality(P \ {d}) >= Cardinality(P) - 1
    <3>1. Cardinality(P \ {d}) = IF d \in P THEN Cardinality(P) - 1 ELSE Cardinality(P)
      BY <1>2, FS_RemoveElement
    <3> QED BY <3>1, <1>2
  <2>2. Cardinality(P \ {d}) <= Cardinality(Q) BY <1>2, <1>7, FS_Subset
  <2>3. Cardinality(P \ {d}) \in Nat
    BY <1>2, FS_RemoveElement, FS_CardinalityType
  <2> QED BY <2>1, <2>2, <2>3, <1>2, <1>3, <1>4, <1>7 DEF Q
<1> QED BY <1>5, <1>6, <1>7 DEF P, Q

LEMMA ReadingsStep == Shapes /\ ReadingsFit /\ [Next]_vars => ReadingsFit'
<1> SUFFICES ASSUME Shapes, ReadingsFit, [Next]_vars PROVE ReadingsFit'
  OBVIOUS
<1> USE DEF rows
<1>1. ASSUME cutShort' \in Nat, UNCHANGED purged, drainedAt \subseteq drainedAt',
             \A d \in Drain : todo'[d] \subseteq todo[d]
      PROVE  ReadingsFit'
  BY <1>1 DEF ReadingsFit
<1>2. ASSUME NEW e \in Event, Spool(e) PROVE ReadingsFit'
  BY <1>1, <1>2 DEF Spool, ReadingsFit
<1>3. ASSUME NEW e \in Event, Purge(e) PROVE ReadingsFit'
  BY <1>3 DEF Purge, ReadingsFit
<1>4. ASSUME NEW d \in Drain, GetPending(d) PROVE ReadingsFit'
  <2>1. UNCHANGED <<purged, drainedAt, cutShort>>
    BY <1>4 DEF GetPending
  <2>2. \A c \in Drain \ {d} : todo'[c] = todo[c]
    BY <1>4 DEF GetPending, Shapes
  <2>3. todo'[d] = {[id |-> e, attempts |-> attempts[e]] : e \in Oldest}
    BY <1>4 DEF GetPending, Shapes
  <2>4. \A i \in todo'[d] : \E e \in Oldest : i = [id |-> e, attempts |-> attempts[e]]
    BY <2>3
  <2>5. \A i \in todo'[d] : i.id \in Oldest /\ i = [id |-> i.id, attempts |-> attempts[i.id]]
    BY <2>4
  <2>6. Oldest \cap purged = {}
    BY DEF Oldest, Pending, ReadingsFit
  <2> QED
    BY <2>1, <2>2, <2>5, <2>6 DEF ReadingsFit
<1>5. ASSUME NEW d \in Drain, NEW i \in todo[d],
             \/ MarkDeadLetter(d, i) \/ Publish(d, i) \/ PublishFails(d, i)
             \/ MarkDrained(d, i) \/ MarkDrainedFails(d, i) \/ RecordAttempt(d, i)
      PROVE  ReadingsFit'
  <2>1. UNCHANGED <<purged, cutShort>> /\ drainedAt \subseteq drainedAt'
    BY <1>5 DEF MarkDeadLetter, Publish, PublishFails, MarkDrained, MarkDrainedFails, RecordAttempt
  <2>2. \A c \in Drain : todo'[c] \subseteq todo[c]
    BY <1>5 DEF MarkDeadLetter, Publish, PublishFails, MarkDrained, MarkDrainedFails, RecordAttempt,
                NextItem, Shapes
  <2> QED
    BY <1>1, <2>1, <2>2 DEF ReadingsFit
<1>6. ASSUME NEW d \in Drain, NEW i \in todo[d], StoreFails(d, i) PROVE ReadingsFit'
  BY <1>1, <1>6 DEF StoreFails, Abort, Shapes, ReadingsFit
<1>7. CASE Crash
  <2>1. Cardinality({d \in Drain : todo[d] # {}}) \in Nat
    BY FinitePublishers
  <2> QED
    BY <1>1, <1>7, <2>1 DEF Crash, ReadingsFit
<1>8. CASE UNCHANGED vars
  BY <1>1, <1>8 DEF vars, ReadingsFit
<1> QED
  BY <1>2, <1>3, <1>4, <1>5, <1>6, <1>7, <1>8 DEF Next, ItemStep

(* While a drain is at another event it counts as a publisher only of what *)
(* it has not read and will not read any more.                             *)
LEMMA PublisherOfOthers ==
  ASSUME Shapes, NEW d \in Drain, NEW i, Current(d, i), NEW e, e # i.id, HasPublished(d, e),
         drainedAt \subseteq drainedAt', todo'[d] \subseteq todo[d]
  PROVE  HasPublished(d, e)'
<1>1. ~ Busy(d, e)
  BY OneCurrent DEF Busy
<1>2. e \in drainedAt /\ ~ Reads(d, e)
  BY <1>1 DEF HasPublished
<1> QED
  BY <1>2 DEF HasPublished, Reads

LEMMA PublicationsStep ==
  Shapes /\ Shapes' /\ ReadingsFit /\ ReadingsFit' /\ PublicationsFit /\ [Next]_vars => PublicationsFit'
<1> SUFFICES ASSUME Shapes, Shapes', ReadingsFit, ReadingsFit', PublicationsFit, [Next]_vars,
                    NEW e \in Event
             PROVE  published'[e] <= attempts'[e] + cutShort' + Cardinality(Publishers(e)')
  BY DEF PublicationsFit
<1> DEFINE Counted == published'[e] <= attempts'[e] + cutShort' + Cardinality(Publishers(e)')
<1> USE DEF rows
<1>0. /\ published[e] <= attempts[e] + cutShort + Cardinality(Publishers(e))
      /\ cutShort \in Nat /\ cutShort' \in Nat
      /\ published[e] \in Nat /\ attempts[e] \in Nat
  BY DEF PublicationsFit, ReadingsFit, Shapes
<1>1. ASSUME UNCHANGED <<drainedAt, attempts, published, todo, step, cutShort>> PROVE Counted
  BY <1>0, <1>1 DEF Publishers, HasPublished, Reads, Busy, Current
<1>2. ASSUME NEW x \in Event, Spool(x) \/ Purge(x) PROVE Counted
  BY <1>1, <1>2 DEF Spool, Purge
<1>3. ASSUME NEW d \in Drain,
             \A c \in Drain \ {d} : todo'[c] = todo[c] /\ step'[c] = step[c],
             drainedAt \subseteq drainedAt', HasPublished(d, e) => HasPublished(d, e)',
             attempts'[e] >= attempts[e], cutShort' >= cutShort, published'[e] = published[e]
      PROVE  Counted
  <2>1. Publishers(e) \subseteq Publishers(e)'
    BY <1>3, OthersKeepPublishing
  <2> QED
    BY <1>0, <1>3, <2>1, PublicationsCounted
<1>4. ASSUME NEW d \in Drain, GetPending(d) PROVE Counted
  <2>1. /\ \A c \in Drain \ {d} : todo'[c] = todo[c] /\ step'[c] = step[c]
        /\ UNCHANGED <<drainedAt, attempts, cutShort, published>>
    BY <1>4 DEF GetPending, Shapes
  <2>2. ASSUME HasPublished(d, e) PROVE HasPublished(d, e)'
    <3>1. e \in drainedAt
      BY <1>4, <2>2 DEF HasPublished, GetPending, Busy
    <3>2. todo'[d] = {[id |-> x, attempts |-> attempts[x]] : x \in Oldest}
      BY <1>4 DEF GetPending, Shapes
    <3>3. \A i \in todo'[d] : \E x \in Oldest : i = [id |-> x, attempts |-> attempts[x]]
      BY <3>2
    <3>4. \A i \in todo'[d] : i.id \in Oldest
      BY <3>3
    <3>5. e \notin Oldest
      BY <3>1 DEF Oldest, Pending
    <3> QED
      BY <2>1, <3>1, <3>4, <3>5 DEF HasPublished, Reads
  <2>3. attempts'[e] >= attempts[e] /\ cutShort' >= cutShort /\ published'[e] = published[e]
    BY <1>0, <2>1
  <2> QED
    BY <1>3, <2>1, <2>2, <2>3
<1>5. ASSUME NEW d \in Drain, NEW i \in todo[d],
             \/ MarkDeadLetter(d, i) \/ MarkDrained(d, i) \/ MarkDrainedFails(d, i)
      PROVE  Counted
  <2>1. Current(d, i) /\ i.id \in Event
    BY <1>5 DEF MarkDeadLetter, MarkDrained, MarkDrainedFails, Shapes, Item
  <2>2. /\ \A c \in Drain \ {d} : todo'[c] = todo[c] /\ step'[c] = step[c]
        /\ todo'[d] \subseteq todo[d] /\ drainedAt \subseteq drainedAt'
        /\ UNCHANGED <<attempts, cutShort, published>>
    BY <1>5 DEF MarkDeadLetter, MarkDrained, MarkDrainedFails, NextItem, Shapes
  <2>3. ASSUME HasPublished(d, e) PROVE HasPublished(d, e)'
    <3>1. CASE e # i.id
      BY <2>1, <2>2, <2>3, <3>1, PublisherOfOthers
    <3>2. CASE e = i.id /\ (MarkDeadLetter(d, i) \/ MarkDrained(d, i))
      <4>1. e \in drainedAt'
        BY <3>2 DEF MarkDeadLetter, MarkDrained, Row, ReadingsFit
      <4>2. todo'[d] = todo[d] \ {i}
        BY <3>2 DEF MarkDeadLetter, MarkDrained, NextItem, Shapes
      <4>3. ~ Reads(d, e)'
        BY <3>2, <4>2 DEF Reads, ReadingsFit
      <4> QED
        BY <4>1, <4>3 DEF HasPublished
    <3>3. CASE e = i.id /\ MarkDrainedFails(d, i)
      <4>1. step'[d] = "record" /\ todo' = todo
        BY <3>3 DEF MarkDrainedFails, Shapes
      <4>2. Busy(d, e)'
        BY <2>1, <3>3, <4>1 DEF Busy, Current
      <4> QED
        BY <4>2 DEF HasPublished
    <3> QED
      BY <1>5, <3>1, <3>2, <3>3
  <2>4. attempts'[e] >= attempts[e] /\ cutShort' >= cutShort /\ published'[e] = published[e]
    BY <1>0, <2>2
  <2> QED
    BY <1>3, <2>2, <2>3, <2>4
<1>6. ASSUME NEW d \in Drain, NEW i \in todo[d], Publish(d, i) \/ PublishFails(d, i)
      PROVE  Counted
  <2>1. Current(d, i) /\ i.id \in Event /\ step[d] = "next"
    BY <1>6 DEF Publish, PublishFails, Shapes, Item
  <2>2. /\ \A c \in Drain \ {d} : todo'[c] = todo[c] /\ step'[c] = step[c]
        /\ UNCHANGED <<todo, drainedAt, attempts, cutShort>>
        /\ step'[d] # "next"
        /\ published' = published \/ published' = [published EXCEPT ![i.id] = @ + 1]
    BY <1>6 DEF Publish, PublishFails, Shapes
  <2>3. e # i.id /\ HasPublished(d, e) => HasPublished(d, e)'
    BY <2>1, <2>2, PublisherOfOthers
  <2>4. HasPublished(d, i.id)' /\ ~ HasPublished(d, i.id)
    <3>1. Busy(d, i.id)'
      BY <2>1, <2>2 DEF Busy, Current
    <3>2. ~ Busy(d, i.id) /\ Reads(d, i.id)
      BY <2>1 DEF Busy, Reads
    <3> QED
      BY <3>1, <3>2 DEF HasPublished
  <2>5. attempts'[e] >= attempts[e] /\ cutShort' >= cutShort
    BY <1>0, <2>2
  <2>6. CASE published'[e] = published[e]
    BY <1>3, <2>2, <2>3, <2>4, <2>5, <2>6
  <2>7. CASE published'[e] # published[e]
    <3>1. e = i.id /\ published'[e] = published[e] + 1
      BY <2>1, <2>2, <2>7 DEF Shapes
    <3>2. d \notin Publishers(e) /\ Publishers(e) \cup {d} \subseteq Publishers(e)'
      BY <2>2, <2>4, <3>1, OthersKeepPublishing DEF Publishers
    <3> QED
      BY <1>0, <2>5, <3>1, <3>2, PublicationsCounted
  <2> QED
    BY <2>6, <2>7
<1>7. ASSUME NEW d \in Drain, NEW i \in todo[d], RecordAttempt(d, i) \/ StoreFails(d, i)
      PROVE  Counted
  <2>1. Current(d, i) /\ i.id \in Event /\ i.id \notin purged
    BY <1>7 DEF RecordAttempt, StoreFails, Shapes, Item, ReadingsFit
  <2>2. /\ \A c \in Drain \ {d} : todo'[c] = todo[c] /\ step'[c] = step[c]
        /\ todo'[d] \subseteq todo[d]
        /\ UNCHANGED <<drainedAt, published>>
    BY <1>7 DEF RecordAttempt, StoreFails, NextItem, Abort, Shapes
  <2>3. attempts'[e] >= attempts[e] /\ cutShort' >= cutShort
    BY <1>0, <1>7 DEF RecordAttempt, StoreFails
  <2>4. CASE e # i.id
    <3>1. HasPublished(d, e) => HasPublished(d, e)'
      BY <2>1, <2>2, <2>4, PublisherOfOthers
    <3> QED
      BY <1>3, <2>2, <2>3, <3>1
  <2>5. CASE e = i.id
    <3>1. attempts'[e] >= attempts[e] + 1 \/ cutShort' >= cutShort + 1
      BY <1>0, <1>7, <2>1, <2>5 DEF RecordAttempt, StoreFails, Row
    <3>2. Publishers(e) \ {d} \subseteq Publishers(e)'
      BY <2>2, OthersKeepPublishing
    <3> QED
      BY <1>0, <2>2, <2>3, <3>1, <3>2, PublicationsCounted
  <2> QED
    BY <2>4, <2>5
<1>8. CASE Crash
  <2> DEFINE A == {d \in Drain : todo[d] # {}}
             P == Publishers(e)
             Q == Publishers(e)'
  <2>1. /\ cutShort' = cutShort + Cardinality(A)
        /\ UNCHANGED <<drainedAt, attempts, published>>
        /\ \A d \in Drain : todo'[d] = {}
    BY <1>8 DEF Crash
  <2>2. P \subseteq Drain /\ Q \subseteq Drain
    BY DEF Publishers
  <2>3. /\ IsFiniteSet(A) /\ IsFiniteSet(Q)
        /\ Cardinality(A) \in Nat /\ Cardinality(P) \in Nat /\ Cardinality(Q) \in Nat
    BY <2>2, FinitePublishers
  <2>4. CASE e \in drainedAt
    <3>1. P \subseteq Q
      BY <2>1, <2>4 DEF Publishers, HasPublished, Reads
    <3>2. Cardinality(P) <= Cardinality(Q)
      BY <2>3, <3>1, FS_Subset
    <3> QED
      BY <1>0, <2>1, <2>3, <3>2
  <2>5. CASE e \notin drainedAt
    <3>1. P \subseteq A
      BY <2>5 DEF Publishers, HasPublished, Busy
    <3>2. Cardinality(P) <= Cardinality(A)
      BY <2>3, <3>1, FS_Subset
    <3> QED
      BY <1>0, <2>1, <2>3, <3>2
  <2> QED
    BY <2>4, <2>5
<1>9. CASE UNCHANGED vars
  BY <1>1, <1>9 DEF vars
<1> QED
  BY <1>2, <1>4, <1>5, <1>6, <1>7, <1>8, <1>9 DEF Next, ItemStep

(* However drains overlap, fail and crash, an event is in the queue more    *)
(* than once only for failures that were counted as attempts, for drains    *)
(* that were cut short, and once for each drain that read it.               *)
THEOREM RepublicationsCounted == Spec => []RepublishCounted
<1> DEFINE Inv == DeliveryInv /\ ReadingsFit /\ PublicationsFit
<1>1. Init => Inv
  <2> SUFFICES ASSUME Init PROVE ReadingsFit /\ PublicationsFit
    BY DeliveryInit
  <2>1. ReadingsFit
    BY DEF Init, ReadingsFit
  <2>2. \A e \in Event : Cardinality(Publishers(e)) \in Nat
    BY FinitePublishers DEF Publishers
  <2> QED
    BY <2>1, <2>2 DEF Init, PublicationsFit
<1>2. Inv /\ [Next]_vars => Inv'
  BY DeliveryStep, ReadingsStep, PublicationsStep DEF DeliveryInv
<1>3. Inv => RepublishCounted
  <2> SUFFICES ASSUME Inv, NEW e \in Event
               PROVE  published[e] <= attempts[e] + cutShort + Cardinality(Drain)
    BY DEF RepublishCounted
  <2>1. /\ Cardinality(Publishers(e)) \in Nat /\ Cardinality(Drain) \in Nat
        /\ Cardinality(Publishers(e)) <= Cardinality(Drain)
    BY FinitePublishers, FS_CardinalityType, OutboxAssumption DEF Publishers
  <2> QED
    BY <2>1 DEF PublicationsFit, ReadingsFit, DeliveryInv, Shapes
<1> QED
  BY <1>1, <1>2, <1>3, PTL DEF Spec
-----------------------------------------------------------------------------
(* The drains do what Delivery promises.                                    *)

ReadsAccepted == \A d \in Drain : \A i \in todo[d] : i.id \in spooled

LEMMA AcceptedStep == Shapes /\ ReadsAccepted /\ [Next]_vars => ReadsAccepted'
<1> SUFFICES ASSUME Shapes, ReadsAccepted, [Next]_vars PROVE ReadsAccepted'
  OBVIOUS
<1> USE DEF rows
<1>1. ASSUME spooled \subseteq spooled', \A d \in Drain : todo'[d] \subseteq todo[d]
      PROVE  ReadsAccepted'
  BY <1>1 DEF ReadsAccepted
<1>2. ASSUME NEW e \in Event, Spool(e) \/ Purge(e) PROVE ReadsAccepted'
  BY <1>1, <1>2 DEF Spool, Purge
<1>3. ASSUME NEW d \in Drain, GetPending(d) PROVE ReadsAccepted'
  <2>1. UNCHANGED spooled /\ \A c \in Drain \ {d} : todo'[c] = todo[c]
    BY <1>3 DEF GetPending, Shapes
  <2>2. todo'[d] = {[id |-> e, attempts |-> attempts[e]] : e \in Oldest}
    BY <1>3 DEF GetPending, Shapes
  <2>3. \A i \in todo'[d] : i.id \in Oldest
    BY <2>2
  <2>4. Oldest \subseteq spooled
    BY DEF Oldest, Pending
  <2> QED
    BY <2>1, <2>3, <2>4 DEF ReadsAccepted
<1>4. ASSUME NEW d \in Drain, ItemStep(d) PROVE ReadsAccepted'
  <2>1. UNCHANGED spooled
    BY <1>4 DEF ItemStep, MarkDeadLetter, Publish, PublishFails, MarkDrained, MarkDrainedFails,
                RecordAttempt, StoreFails
  <2>2. \A c \in Drain : todo'[c] \subseteq todo[c]
    BY <1>4 DEF ItemStep, MarkDeadLetter, Publish, PublishFails, MarkDrained, MarkDrainedFails,
                RecordAttempt, StoreFails, NextItem, Abort, Shapes
  <2> QED
    BY <1>1, <2>1, <2>2
<1>5. CASE Crash
  BY <1>1, <1>5 DEF Crash
<1>6. CASE UNCHANGED vars
  BY <1>1, <1>6 DEF vars
<1> QED
  BY <1>2, <1>3, <1>4, <1>5, <1>6 DEF Next

(* One step for an event that a drain has read.                             *)
LEMMA ItemStepDelivers ==
  ASSUME DeliveryInv, TriedInv, ReadingsFit, ReadsAccepted, NEW d \in Drain, ItemStep(d)
  PROVE  [Promise!Next]_Promise!deliveryVars
<1> USE DEF rows, Promise!deliveryVars
<1>1. PICK i \in todo[d] :
        \/ MarkDeadLetter(d, i) \/ Publish(d, i) \/ PublishFails(d, i)
        \/ MarkDrained(d, i) \/ MarkDrainedFails(d, i)
        \/ RecordAttempt(d, i) \/ StoreFails(d, i)
  BY DEF ItemStep
<1> DEFINE e == i.id
<1>2. /\ e \in Event /\ e \in spooled /\ e \notin purged
      /\ i.attempts \in Nat /\ attempts[e] \in Nat /\ i.attempts <= attempts[e]
  BY DEF DeliveryInv, Shapes, Item, ReadsAccepted, ReadingsFit, TriedInv, ReadNoMore
<1>3. Row(e) = {e}
  BY <1>2 DEF Row
<1>4. CASE MarkDeadLetter(d, i)
  <2>1. attempts[e] >= MaxAttempts
    BY <1>2, <1>4, OutboxAssumption DEF MarkDeadLetter
  <2>2. Promise!GiveUp(e)
    BY <1>2, <1>3, <1>4, <2>1 DEF MarkDeadLetter, Promise!GiveUp
  <2> QED
    BY <1>2, <2>2 DEF Promise!Next
<1>5. CASE Publish(d, i)
  <2>1. Promise!Hand(e)
    BY <1>2, <1>5 DEF Publish, Promise!Hand
  <2> QED
    BY <1>2, <2>1 DEF Promise!Next
<1>6. CASE PublishFails(d, i)
  <2>1. Promise!Hand(e) \/ UNCHANGED Promise!deliveryVars
    BY <1>2, <1>6 DEF PublishFails, Promise!Hand
  <2> QED
    BY <1>2, <2>1 DEF Promise!Next
<1>7. CASE MarkDrained(d, i)
  <2>1. published[e] > 0
    BY <1>7 DEF MarkDrained, DeliveryInv, MarksPublished
  <2>2. Promise!Settle(e)
    BY <1>2, <1>3, <1>7, <2>1 DEF MarkDrained, Promise!Settle
  <2> QED
    BY <1>2, <2>2 DEF Promise!Next
<1>8. CASE MarkDrainedFails(d, i)
  BY <1>8 DEF MarkDrainedFails
<1>9. CASE RecordAttempt(d, i) \/ StoreFails(d, i)
  <2>1. UNCHANGED <<spooled, published, drainedAt, deadAt>>
    BY <1>9 DEF RecordAttempt, StoreFails
  <2>2. \/ UNCHANGED attempts
        \/ attempts' = [x \in Event |-> IF x \in Row(e) THEN attempts[x] + 1 ELSE attempts[x]]
    BY <1>9 DEF RecordAttempt, StoreFails
  <2>3. Promise!NoteFailure(e) \/ UNCHANGED Promise!deliveryVars
    BY <1>2, <1>3, <2>1, <2>2 DEF Promise!NoteFailure, DeliveryInv, Shapes
  <2> QED
    BY <1>2, <2>3 DEF Promise!Next
<1> QED
  BY <1>1, <1>4, <1>5, <1>6, <1>7, <1>8, <1>9

LEMMA StepDelivers ==
  ASSUME DeliveryInv, TriedInv, ReadingsFit, ReadsAccepted, [Next]_vars
  PROVE  [Promise!Next]_Promise!deliveryVars
<1> USE DEF rows, Promise!deliveryVars
<1>1. ASSUME NEW e \in Event, Spool(e) PROVE Promise!Next
  BY <1>1 DEF Spool, Promise!Accept, Promise!Next
<1>2. ASSUME NEW e \in Event, Purge(e) PROVE UNCHANGED Promise!deliveryVars
  BY <1>2 DEF Purge
<1>3. ASSUME NEW d \in Drain, GetPending(d) PROVE UNCHANGED Promise!deliveryVars
  BY <1>3 DEF GetPending
<1>4. CASE Crash
  BY <1>4 DEF Crash
<1>5. CASE UNCHANGED vars
  BY <1>5 DEF vars
<1> QED
  BY <1>1, <1>2, <1>3, <1>4, <1>5, ItemStepDelivers DEF Next

(* The drains implement Delivery: they publish what is accepted only, and  *)
(* an event is settled for good when it has been published or has used up  *)
(* its attempts, whatever drains, failures, crashes and purges overlap.    *)
THEOREM DrainsDeliver == Spec => ImplementsDelivery
<1> DEFINE Inv == DeliveryInv /\ TriedInv /\ ReadingsFit /\ ReadsAccepted
<1>1. Init => Inv
  BY DeliveryInit DEF Init, TriedInv, ReadNoMore, DeadLetterTriedEnough, ReadingsFit, ReadsAccepted
<1>2. Inv /\ [Next]_vars => Inv'
  BY DeliveryStep, TriedStep, ReadingsStep, AcceptedStep DEF DeliveryInv
<1>3. Init => Promise!Init
  BY DEF Init, Promise!Init
<1>4. Inv /\ [Next]_vars => [Promise!Next]_Promise!deliveryVars
  BY StepDelivers
<1> QED
  BY <1>1, <1>2, <1>3, <1>4, PTL DEF Spec, ImplementsDelivery, Promise!Spec
-----------------------------------------------------------------------------
(* The types, and how many attempts overlapping drains can count.           *)

(* The drains that may still note a failure of e on a reading in which it   *)
(* had attempts left.                                                       *)
MayNote(d, e) == \E i \in todo[d] : i.id = e /\ i.attempts < MaxAttempts
Noters(e) == {d \in Drain : MayNote(d, e)}

(* Once the attempts are used up nobody reads that there are some left, and *)
(* the drain that used up the last one is past the event.                   *)
AttemptsFit ==
  /\ \A d \in Drain : \A i \in todo[d] :
       step[d] # "next" /\ Current(d, i) => i.attempts < MaxAttempts
  /\ \A e \in Event :
       attempts[e] >= MaxAttempts =>
         attempts[e] + Cardinality(Noters(e)) <= MaxAttempts + Cardinality(Drain) - 1

RestFits ==
  /\ drainedAt \subseteq spooled /\ deadAt \subseteq spooled
  /\ faults \in 0..MaxFaults

OutboxInv == DeliveryInv /\ ReadingsFit /\ ReadsAccepted /\ AttemptsFit /\ RestFits

LEMMA NotersFit ==
  ASSUME NEW e
  PROVE  /\ IsFiniteSet(Noters(e)) /\ Cardinality(Noters(e)) \in Nat
         /\ Cardinality(Drain) \in Nat
  BY FinitePublishers, FS_CardinalityType, OutboxAssumption DEF Noters

(* The drains go on without counting anything.                              *)
LEMMA NothingNoted ==
  ASSUME OutboxInv, UNCHANGED attempts,
         \A e \in Event : attempts[e] >= MaxAttempts => \A d \in Drain : MayNote(d, e)' => MayNote(d, e),
         \A d \in Drain : \A i \in todo'[d] :
           step'[d] # "next" /\ Current(d, i)' => i.attempts < MaxAttempts
  PROVE  AttemptsFit'
<1>1. ASSUME NEW e \in Event, attempts[e] >= MaxAttempts
      PROVE  attempts[e] + Cardinality(Noters(e)') <= MaxAttempts + Cardinality(Drain) - 1
  <2>1. Noters(e)' \subseteq Noters(e)
    BY <1>1 DEF Noters
  <2> DEFINE N == Noters(e)
             M == Noters(e)'
  <2>2. IsFiniteSet(N) /\ Cardinality(N) \in Nat /\ Cardinality(Drain) \in Nat
    BY NotersFit
  <2>3. attempts[e] + Cardinality(N) <= MaxAttempts + Cardinality(Drain) - 1
    BY <1>1 DEF OutboxInv, AttemptsFit
  <2>4. M \subseteq N BY <2>1
  <2> HIDE DEF N, M
  <2>5. Cardinality(M) \in Nat /\ Cardinality(M) <= Cardinality(N)
    BY <2>2, <2>4, FS_Subset, FS_CardinalityType
  <2>6. attempts[e] \in Nat /\ MaxAttempts \in Nat
    BY OutboxAssumption DEF OutboxInv, DeliveryInv, Shapes
  <2>7. attempts[e] + Cardinality(M) <= MaxAttempts + Cardinality(Drain) - 1
    BY <2>2, <2>3, <2>5, <2>6
  <2> QED BY <2>7 DEF M
<1> QED
  BY <1>1 DEF AttemptsFit

(* Drain d notes a failure of the event it is at and leaves it.             *)
LEMMA FailureNoted ==
  ASSUME OutboxInv, NEW d \in Drain, NEW i \in todo[d], Current(d, i), step[d] = "record",
         attempts' = [e \in Event |-> IF e \in Row(i.id) THEN attempts[e] + 1 ELSE attempts[e]],
         NEW T \in SUBSET todo[d], i \notin T,
         todo' = [todo EXCEPT ![d] = T], step' = [step EXCEPT ![d] = "next"]
  PROVE  AttemptsFit'
<1>1. /\ i \in Item /\ i.id \in Event /\ i.id \notin purged /\ Row(i.id) = {i.id}
      /\ i.attempts < MaxAttempts
  BY DEF OutboxInv, DeliveryInv, Shapes, Item, ReadingsFit, AttemptsFit, Row
<1>2. /\ todo'[d] = T /\ step'[d] = "next"
      /\ \A c \in Drain \ {d} : todo'[c] = todo[c] /\ step'[c] = step[c]
  BY DEF OutboxInv, DeliveryInv, Shapes
<1>3. \A c \in Drain, x \in Event : MayNote(c, x)' => MayNote(c, x)
  BY <1>2 DEF MayNote
<1>4. ~ MayNote(d, i.id)' /\ MayNote(d, i.id)
  <2>1. \A j \in todo[d] : j.id = i.id => j = i
    BY DEF OutboxInv, ReadingsFit
  <2> QED
    BY <1>1, <1>2, <2>1 DEF MayNote
<1>5. ASSUME NEW e \in Event, attempts'[e] >= MaxAttempts
      PROVE  attempts'[e] + Cardinality(Noters(e)') <= MaxAttempts + Cardinality(Drain) - 1
  <2> DEFINE N == Noters(e)
             M == Noters(e)'
  <2>1. /\ IsFiniteSet(N) /\ Cardinality(N) \in Nat /\ Cardinality(Drain) \in Nat
        /\ IsFiniteSet(Drain)
    BY NotersFit, OutboxAssumption
  <2>2. M \subseteq N /\ N \subseteq Drain
    BY <1>3 DEF Noters
  <2>3. attempts[e] >= MaxAttempts =>
          attempts[e] + Cardinality(N) <= MaxAttempts + Cardinality(Drain) - 1
    BY DEF OutboxInv, AttemptsFit
  <2>4. attempts[e] \in Nat /\ MaxAttempts \in Nat
    BY OutboxAssumption DEF OutboxInv, DeliveryInv, Shapes
  <2>5. e = i.id => d \in N /\ d \notin M
    BY <1>4 DEF Noters
  <2>6. attempts'[e] = IF e = i.id THEN attempts[e] + 1 ELSE attempts[e]
    BY <1>1
  <2> HIDE DEF N, M
  <2>7. Cardinality(M) \in Nat /\ Cardinality(M) <= Cardinality(N) /\ IsFiniteSet(M)
    BY <2>1, <2>2, FS_Subset, FS_CardinalityType
  <2>8. CASE e # i.id
    <3>1. attempts[e] + Cardinality(M) <= MaxAttempts + Cardinality(Drain) - 1
      BY <1>5, <2>1, <2>3, <2>4, <2>6, <2>7, <2>8
    <3> QED BY <2>6, <2>8, <3>1 DEF M
  <2>9. CASE e = i.id
    <3>1. \A S : IsFiniteSet(S) /\ d \in S /\ M \subseteq S => Cardinality(M) <= Cardinality(S) - 1
      <4> SUFFICES ASSUME NEW S, IsFiniteSet(S), d \in S, M \subseteq S
                   PROVE  Cardinality(M) <= Cardinality(S) - 1
        OBVIOUS
      <4>1. M \subseteq S \ {d} BY <2>5, <2>9
      <4>2. /\ IsFiniteSet(S \ {d})
            /\ Cardinality(S \ {d}) = Cardinality(S) - 1
        BY FS_RemoveElement
      <4>3. Cardinality(M) <= Cardinality(S \ {d})
        BY <4>1, <4>2, FS_Subset
      <4> QED BY <4>2, <4>3
    <3>2. Cardinality(M) <= Cardinality(N) - 1 /\ Cardinality(M) <= Cardinality(Drain) - 1
      BY <2>1, <2>2, <2>5, <2>9, <3>1
    <3>3. attempts[e] + 1 + Cardinality(M) <= MaxAttempts + Cardinality(Drain) - 1
      <4>1. CASE attempts[e] >= MaxAttempts
        BY <2>1, <2>3, <2>4, <2>7, <3>2, <4>1
      <4>2. CASE ~ (attempts[e] >= MaxAttempts)
        BY <2>1, <2>4, <2>7, <3>2, <4>2
      <4> QED BY <4>1, <4>2
    <3> QED BY <2>6, <2>9, <3>3 DEF M
  <2> QED BY <2>8, <2>9
<1>6. ASSUME NEW c \in Drain, NEW j \in todo'[c], step'[c] # "next", Current(c, j)'
      PROVE  j.attempts < MaxAttempts
  <2>1. c # d /\ step[c] # "next" /\ j \in todo[c] /\ Current(c, j)
    BY <1>2, <1>6 DEF Current
  <2> QED BY <2>1 DEF OutboxInv, AttemptsFit
<1> QED
  BY <1>5, <1>6 DEF AttemptsFit

LEMMA AttemptsStep == OutboxInv /\ [Next]_vars => AttemptsFit'
<1> SUFFICES ASSUME OutboxInv, [Next]_vars PROVE AttemptsFit'
  OBVIOUS
<1> USE DEF rows
<1>0. Shapes BY DEF OutboxInv, DeliveryInv
(* Nobody reads anything, and whoever is at an event was, or has attempts left. *)
<1>1. ASSUME UNCHANGED attempts, \A d \in Drain : todo'[d] \subseteq todo[d],
             \A d \in Drain : \A i \in todo'[d] :
               step'[d] # "next" /\ Current(d, i)' => i.attempts < MaxAttempts
      PROVE  AttemptsFit'
  <2>1. \A e \in Event, d \in Drain : MayNote(d, e)' => MayNote(d, e)
    BY <1>1 DEF MayNote
  <2> QED
    BY <1>1, <2>1, NothingNoted
<1>2. ASSUME UNCHANGED <<attempts, todo, step>> PROVE AttemptsFit'
  BY <1>1, <1>2 DEF OutboxInv, AttemptsFit, Current
<1>3. ASSUME NEW d \in Drain, NEW i \in todo[d], UNCHANGED attempts, NextItem(d, i) \/ Abort(d)
      PROVE  AttemptsFit'
  <2>1. /\ step'[d] = "next" /\ todo'[d] \subseteq todo[d]
        /\ \A c \in Drain \ {d} : todo'[c] = todo[c] /\ step'[c] = step[c]
    BY <1>0, <1>3 DEF NextItem, Abort, Shapes
  <2>2. ASSUME NEW c \in Drain, NEW j \in todo'[c], step'[c] # "next", Current(c, j)'
        PROVE  j.attempts < MaxAttempts
    <3>1. c # d /\ step[c] # "next" /\ j \in todo[c] /\ Current(c, j)
      BY <2>1, <2>2 DEF Current
    <3> QED BY <3>1 DEF OutboxInv, AttemptsFit
  <2>3. \A c \in Drain : todo'[c] \subseteq todo[c]
    BY <2>1
  <2> QED
    BY <1>1, <1>3, <2>2, <2>3
<1>4. ASSUME NEW d \in Drain, NEW i \in todo[d], Current(d, i), i.attempts < MaxAttempts,
             UNCHANGED <<attempts, todo>>, NEW s \in {"mark", "record"},
             step' = [step EXCEPT ![d] = s]
      PROVE  AttemptsFit'
  <2>1. ASSUME NEW c \in Drain, NEW j \in todo'[c], step'[c] # "next", Current(c, j)'
        PROVE  j.attempts < MaxAttempts
    <3>1. j \in todo[c] /\ Current(c, j)
      BY <1>4, <2>1 DEF Current
    <3>2. CASE c = d
      <4>1. j.id = i.id
        BY <1>0, <1>4, <3>1, <3>2, OneCurrent
      <4>2. j = i
        BY <3>1, <3>2, <4>1 DEF OutboxInv, ReadingsFit
      <4> QED BY <1>4, <4>2
    <3>3. CASE c # d
      <4>1. step[c] # "next" BY <1>0, <1>4, <2>1, <3>3 DEF Shapes
      <4> QED BY <3>1, <4>1 DEF OutboxInv, AttemptsFit
    <3> QED BY <3>2, <3>3
  <2> QED
    BY <1>1, <1>4, <2>1
<1>5. ASSUME NEW e \in Event, Spool(e) \/ Purge(e) PROVE AttemptsFit'
  BY <1>2, <1>5 DEF Spool, Purge
<1>6. ASSUME NEW d \in Drain, GetPending(d) PROVE AttemptsFit'
  <2>1. /\ todo[d] = {} /\ UNCHANGED <<attempts, step>> /\ step[d] = "next"
        /\ todo'[d] = {[id |-> e, attempts |-> attempts[e]] : e \in Oldest}
        /\ \A c \in Drain \ {d} : todo'[c] = todo[c]
    BY <1>0, <1>6 DEF GetPending, Shapes
  <2>2. \A j \in todo'[d] : j.attempts = attempts[j.id]
    BY <2>1
  <2>3. ASSUME NEW e \in Event, attempts[e] >= MaxAttempts, NEW c \in Drain, MayNote(c, e)'
        PROVE  MayNote(c, e)
    <3>1. PICK j \in todo'[c] : j.id = e /\ j.attempts < MaxAttempts
      BY <2>1, <2>3, OutboxAssumption DEF MayNote
    <3>2. attempts[e] \in Nat BY <1>0 DEF Shapes
    <3>3. c # d BY <2>2, <2>3, <3>1, <3>2, OutboxAssumption
    <3> QED BY <2>1, <3>1, <3>3 DEF MayNote
  <2>4. ASSUME NEW c \in Drain, NEW j \in todo'[c], step'[c] # "next", Current(c, j)'
        PROVE  j.attempts < MaxAttempts
    <3>1. c # d /\ step[c] # "next" /\ j \in todo[c] /\ Current(c, j)
      BY <2>1, <2>4 DEF Current
    <3> QED BY <3>1 DEF OutboxInv, AttemptsFit
  <2> QED
    BY <2>1, <2>3, <2>4, NothingNoted
<1>7. ASSUME NEW d \in Drain, NEW i \in todo[d], MarkDeadLetter(d, i) \/ MarkDrained(d, i)
      PROVE  AttemptsFit'
  BY <1>3, <1>7 DEF MarkDeadLetter, MarkDrained
<1>8. ASSUME NEW d \in Drain, NEW i \in todo[d],
             Publish(d, i) \/ PublishFails(d, i) \/ MarkDrainedFails(d, i)
      PROVE  AttemptsFit'
  <2>1. /\ Current(d, i) /\ UNCHANGED <<attempts, todo>>
        /\ \E s \in {"mark", "record"} : step' = [step EXCEPT ![d] = s]
    BY <1>8 DEF Publish, PublishFails, MarkDrainedFails
  <2>2. i.attempts < MaxAttempts
    BY <1>8 DEF Publish, PublishFails, MarkDrainedFails, OutboxInv, AttemptsFit
  <2> QED
    BY <1>4, <2>1, <2>2
<1>9. ASSUME NEW d \in Drain, NEW i \in todo[d], RecordAttempt(d, i) \/ StoreFails(d, i)
      PROVE  AttemptsFit'
  <2>1. CASE UNCHANGED attempts
    BY <1>3, <1>9, <2>1 DEF RecordAttempt, StoreFails
  <2>2. CASE ~ UNCHANGED attempts
    <3>1. /\ Current(d, i) /\ step[d] = "record" /\ (NextItem(d, i) \/ Abort(d))
          /\ attempts' = [e \in Event |-> IF e \in Row(i.id) THEN attempts[e] + 1 ELSE attempts[e]]
      BY <1>9, <2>2 DEF RecordAttempt, StoreFails
    <3>2. CASE NextItem(d, i)
      <4>1. todo[d] \ {i} \in SUBSET todo[d] /\ i \notin todo[d] \ {i} OBVIOUS
      <4> QED BY <3>1, <3>2, <4>1, FailureNoted DEF NextItem
    <3>3. CASE Abort(d)
      <4>1. {} \in SUBSET todo[d] /\ i \notin {} OBVIOUS
      <4> QED BY <3>1, <3>3, <4>1, FailureNoted DEF Abort
    <3> QED BY <3>1, <3>2, <3>3
  <2> QED BY <2>1, <2>2
<1>10. CASE Crash
  BY <1>1, <1>10 DEF Crash
<1>11. CASE UNCHANGED vars
  BY <1>2, <1>11 DEF vars
<1> QED
  BY <1>5, <1>6, <1>7, <1>8, <1>9, <1>10, <1>11 DEF Next, ItemStep

LEMMA RestStep == OutboxInv /\ [Next]_vars => RestFits'
<1> SUFFICES ASSUME OutboxInv, [Next]_vars PROVE RestFits'
  OBVIOUS
<1> USE DEF rows
<1>1. ASSUME UNCHANGED <<spooled, drainedAt, deadAt>>, UNCHANGED faults \/ Fault PROVE RestFits'
  BY <1>1, OutboxAssumption DEF Fault, OutboxInv, RestFits
<1>2. ASSUME NEW e \in Event, Spool(e) \/ Purge(e) PROVE RestFits'
  BY <1>2 DEF Spool, Purge, OutboxInv, RestFits
<1>3. ASSUME NEW d \in Drain, GetPending(d) PROVE RestFits'
  BY <1>1, <1>3 DEF GetPending
<1>4. ASSUME NEW d \in Drain, NEW i \in todo[d], MarkDeadLetter(d, i) \/ MarkDrained(d, i)
      PROVE  RestFits'
  <2>1. Row(i.id) \subseteq spooled
    BY DEF Row, OutboxInv, ReadsAccepted
  <2> QED
    BY <1>4, <2>1 DEF MarkDeadLetter, MarkDrained, OutboxInv, RestFits
<1>5. ASSUME NEW d \in Drain, NEW i \in todo[d],
             \/ Publish(d, i) \/ PublishFails(d, i) \/ MarkDrainedFails(d, i)
             \/ RecordAttempt(d, i) \/ StoreFails(d, i)
      PROVE  RestFits'
  BY <1>1, <1>5 DEF Publish, PublishFails, MarkDrainedFails, RecordAttempt, StoreFails
<1>6. CASE Crash
  BY <1>1, <1>6 DEF Crash
<1>7. CASE UNCHANGED vars
  BY <1>1, <1>7 DEF vars
<1> QED
  BY <1>2, <1>3, <1>4, <1>5, <1>6, <1>7 DEF Next, ItemStep

(* Events, readings and counters are in their types: drains that overlap   *)
(* count no more than one attempt each beyond MAX_ATTEMPTS.                *)
THEOREM OutboxTypesCorrect == Spec => []TypeOK
<1>1. Init => OutboxInv
  <2> SUFFICES ASSUME Init PROVE ReadingsFit /\ ReadsAccepted /\ AttemptsFit /\ RestFits
    BY DeliveryInit DEF OutboxInv
  <2>1. \A e \in Event : ~ (attempts[e] >= MaxAttempts)
    BY OutboxAssumption DEF Init
  <2> QED
    BY <2>1, OutboxAssumption DEF Init, ReadingsFit, ReadsAccepted, AttemptsFit, RestFits
<1>2. OutboxInv /\ [Next]_vars => OutboxInv'
  BY DeliveryStep, ReadingsStep, AcceptedStep, AttemptsStep, RestStep DEF OutboxInv, DeliveryInv
<1>3. OutboxInv => TypeOK
  <2> SUFFICES ASSUME OutboxInv, NEW e \in Event
               PROVE  attempts[e] \in 0..(MaxAttempts + Cardinality(Drain) - 1)
    BY DEF OutboxInv, DeliveryInv, Shapes, ReadingsFit, RestFits, TypeOK
  <2>1. attempts[e] \in Nat /\ MaxAttempts \in Nat
    BY OutboxAssumption DEF OutboxInv, DeliveryInv, Shapes
  <2>2. Cardinality(Noters(e)) \in Nat /\ Cardinality(Drain) \in Nat
    BY NotersFit
  <2>3. attempts[e] >= MaxAttempts =>
          attempts[e] + Cardinality(Noters(e)) <= MaxAttempts + Cardinality(Drain) - 1
    BY DEF OutboxInv, AttemptsFit
  <2> QED
    BY <2>1, <2>2, <2>3
<1> QED
  BY <1>1, <1>2, <1>3, PTL DEF Spec
=============================================================================
