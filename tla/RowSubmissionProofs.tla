------------------------- MODULE RowSubmissionProofs -------------------------
(***************************************************************************)
(* Theorems about RowSubmission: for any rows, groups, sweeps and calls,   *)
(* with any number of faults.                                              *)
(***************************************************************************)
EXTENDS RowSubmission, FiniteSetTheorems, TLAPS

USE SubmissionAssumption

(* A sweep never has more calls under way than workers: this is what keeps *)
(* the count of its workers from falling below zero (OutcomeLost).         *)
WorkersSuffice ==
  \A s \in Sweep : IsFiniteSet(CallsOf(s)) /\ Cardinality(CallsOf(s)) <= hands[s]

TypeInv == TypeOK /\ WorkersSuffice

-----------------------------------------------------------------------------
(* Types.                                                                  *)

LEMMA UnusedIsCall == Unused \in Call
<1>1. (CHOOSE s \in Sweep : TRUE) \in Sweep OBVIOUS
<1> QED BY <1>1 DEF Unused, Call

LEMMA HandsIsPositive == Hands \in Nat \ {0}
BY DEF Hands

LEMMA SnapshotIsItems ==
  ASSUME TypeOK, NEW R \in SUBSET Row
  PROVE  Snapshot(R) \subseteq Item
BY DEF Snapshot, Item, TypeOK

LEMMA FreshIsUnused ==
  ASSUME \E b \in Batch : call[b].state = "unused"
  PROVE  Fresh \in Batch /\ call[Fresh].state = "unused"
BY DEF Fresh

LEMMA DataIsTyped ==
  ASSUME TypeOK, NEW C \in SUBSET Item
  PROVE  DataOf(C) \subseteq [row : Row, ver : Version]
<1>1. {[row |-> r, ver |-> ver[r]] : r \in {x \in Row : \E i \in C : Group[i.row] = Group[x]}}
        \subseteq [row : Row, ver : Version]
  BY DEF TypeOK
<1>2. {[row |-> i.row, ver |-> i.ver] : i \in C} \subseteq [row : Row, ver : Version]
  BY DEF Item
<1> QED BY <1>1, <1>2 DEF DataOf

LEMMA RowsOfItems ==
  ASSUME NEW S \in SUBSET Item
  PROVE  RowsOf(S) \subseteq Row
BY DEF RowsOf, Item

LEMMA OutgoingIsCall ==
  ASSUME TypeOK, NEW s \in Sweep, NEW C \in SUBSET todo[s]
  PROVE  Outgoing(s, C) \in Call
<1>1. C \in SUBSET Item BY DEF TypeOK
<1>2. DataOf(C) \subseteq [row : Row, ver : Version] BY <1>1, DataIsTyped
<1> QED BY <1>1, <1>2 DEF Call, InFlight, Outgoing

(* A call moves on: nothing else of any call changes. *)
LEMMA CallMoves ==
  ASSUME TypeOK, NEW b \in Batch, NEW place \in {"over"} \cup InFlight,
         call' = [call EXCEPT ![b].state = place]
  PROVE  /\ call' \in [Batch -> Call]
         /\ call'[b].state = place
         /\ \A c \in Batch \ {b} : call'[c] = call[c]
         /\ \A c \in Batch : /\ call'[c].by = call[c].by /\ call'[c].marks = call[c].marks
                             /\ call'[c].data = call[c].data /\ call'[c].verdict = call[c].verdict
<1>1. call'[b] = [call[b] EXCEPT !.state = place] BY DEF TypeOK
<1>2. call[b] \in Call BY DEF TypeOK
<1>3. call'[b] = [state |-> place, by |-> call[b].by, marks |-> call[b].marks,
                  data |-> call[b].data, verdict |-> call[b].verdict]
  BY <1>1, <1>2 DEF Call
<1>4. call'[b] \in Call BY <1>2, <1>3 DEF Call
<1> QED BY <1>3, <1>4 DEF TypeOK

LEMMA CallIsAccepted ==
  ASSUME TypeOK, NEW b \in Batch, NEW v \in [Row -> Literal \cup {"none"}], Reaches(b, v)
  PROVE  /\ call' \in [Batch -> Call]
         /\ call'[b].state = "accepted" /\ call'[b].verdict = v
         /\ call'[b].by = call[b].by /\ call'[b].marks = call[b].marks
         /\ call'[b].data = call[b].data
         /\ \A c \in Batch \ {b} : call'[c] = call[c]
<1> USE DEF TypeOK, Call, InFlight
<1>1. call' = [call EXCEPT ![b].state = "accepted", ![b].verdict = v] BY DEF Reaches
<1>2. call'[b] = [state |-> "accepted", by |-> call[b].by, marks |-> call[b].marks,
                  data |-> call[b].data, verdict |-> v]
  <2> DEFINE old == call[b]
  <2>1. old \in Call OBVIOUS
  <2>2. call'[b] = [old EXCEPT !.state = "accepted", !.verdict = v] BY <1>1
  <2> HIDE DEF old
  <2>3. call'[b] = [state |-> "accepted", by |-> old.by, marks |-> old.marks,
                    data |-> old.data, verdict |-> v]
    BY <2>1, <2>2
  <2> QED BY <2>3 DEF old
<1> QED BY <1>1, <1>2

LEMMA SendAddsCall ==
  ASSUME TypeOK, NEW s \in Sweep, NEW C \in SUBSET todo[s], Send(s, C)
  PROVE  /\ call' \in [Batch -> Call]
         /\ Fresh \in Batch /\ call[Fresh].state = "unused"
         /\ call'[Fresh] = Outgoing(s, C)
         /\ \A c \in Batch \ {Fresh} : call'[c] = call[c]
<1>1. Fresh \in Batch /\ call[Fresh].state = "unused" BY FreshIsUnused DEF Send
<1>2. Outgoing(s, C) \in Call BY OutgoingIsCall
<1> QED BY <1>1, <1>2 DEF Send, TypeOK

(* After a crash no call is under way. *)
LEMMA CrashEndsCalls ==
  ASSUME TypeOK, Crash
  PROVE  /\ call' \in [Batch -> Call]
         /\ \A b \in Batch : call'[b].state \notin InFlight
         /\ \A b \in Batch : call[b].state \notin InFlight => call'[b] = call[b]
         /\ \A b \in Batch : call[b].state \in InFlight =>
              /\ call'[b].state = "over" /\ call'[b].by = call[b].by
              /\ call'[b].marks = call[b].marks /\ call'[b].data = call[b].data
              /\ call[b].state # "sent" => call'[b].verdict = call[b].verdict
<1> USE DEF TypeOK
<1>1. PICK arrived \in SUBSET {b \in Batch : call[b].state = "sent"}, v \in [Row -> Literal] :
        call' = [b \in Batch |->
          IF call[b].state \notin InFlight THEN call[b]
          ELSE [call[b] EXCEPT
                  !.state = "over",
                  !.verdict = IF b \notin arrived THEN @
                              ELSE [r \in Row |-> IF r \in RowsOf(call[b].data)
                                                  THEN v[r] ELSE "none"]]]
  BY DEF Crash
<1>2. ASSUME NEW b \in Batch, call[b].state \notin InFlight
      PROVE  call'[b] = call[b] /\ call'[b] \in Call
  BY <1>1, <1>2
<1>3. ASSUME NEW b \in Batch, call[b].state \in InFlight
      PROVE  /\ call'[b] \in Call
             /\ call'[b].state = "over" /\ call'[b].by = call[b].by
             /\ call'[b].marks = call[b].marks /\ call'[b].data = call[b].data
             /\ call[b].state # "sent" => call'[b].verdict = call[b].verdict
  <2> DEFINE results == IF b \notin arrived THEN call[b].verdict
                        ELSE [r \in Row |-> IF r \in RowsOf(call[b].data) THEN v[r] ELSE "none"]
  <2>1. results \in [Row -> Literal \cup {"none"}] BY DEF Call
  <2>2. b \notin arrived => results = call[b].verdict OBVIOUS
  <2>3. call'[b] = [call[b] EXCEPT !.state = "over", !.verdict = results] BY <1>1, <1>3
  <2> HIDE DEF results
  <2>4. call[b] \in Call OBVIOUS
  <2>5. call'[b] = [state |-> "over", by |-> call[b].by, marks |-> call[b].marks,
                    data |-> call[b].data, verdict |-> results]
    BY <2>3, <2>4 DEF Call
  <2> QED BY <2>1, <2>2, <2>4, <2>5 DEF Call
<1>4. "over" \notin InFlight BY DEF InFlight
<1>5. call' = [b \in Batch |-> call'[b]] BY <1>1
<1> QED BY <1>2, <1>3, <1>4, <1>5

-----------------------------------------------------------------------------
(* Workers.                                                                *)

(* No new call, no worker fewer. *)
LEMMA FewerCalls ==
  ASSUME TypeInv, TypeOK', NEW s \in Sweep, CallsOf(s)' \subseteq CallsOf(s), hands'[s] >= hands[s]
  PROVE  IsFiniteSet(CallsOf(s)') /\ Cardinality(CallsOf(s)') <= hands'[s]
<1>1. IsFiniteSet(CallsOf(s)) /\ Cardinality(CallsOf(s)) <= hands[s]
  BY DEF TypeInv, WorkersSuffice
<1>2. /\ IsFiniteSet(CallsOf(s)')
      /\ Cardinality(CallsOf(s)') <= Cardinality(CallsOf(s))
  BY <1>1, FS_Subset
<1>3. Cardinality(CallsOf(s)') \in Nat /\ Cardinality(CallsOf(s)) \in Nat
  BY <1>1, <1>2, FS_CardinalityType
<1>4. hands[s] \in Int /\ hands'[s] \in Int BY HandsIsPositive DEF TypeInv, TypeOK
<1> QED BY <1>1, <1>2, <1>3, <1>4

(* A call that ends gives its worker back, or takes it along. *)
LEMMA WorkerOfCall ==
  ASSUME TypeInv, NEW b \in Batch, call[b].state \in InFlight
  PROVE  /\ call[b].by \in Sweep
         /\ hands[call[b].by] >= 1
         /\ IsFiniteSet(CallsOf(call[b].by) \ {b})
         /\ Cardinality(CallsOf(call[b].by) \ {b}) <= hands[call[b].by] - 1
<1> DEFINE s == call[b].by
<1>1. s \in Sweep BY DEF TypeInv, TypeOK, Call
<1>2. IsFiniteSet(CallsOf(s)) /\ Cardinality(CallsOf(s)) <= hands[s]
  BY <1>1 DEF TypeInv, WorkersSuffice
<1>3. b \in CallsOf(s) BY DEF CallsOf
<1>4. hands[s] \in Nat BY <1>1, HandsIsPositive DEF TypeInv, TypeOK
<1>5. /\ IsFiniteSet(CallsOf(s) \ {b})
      /\ Cardinality(CallsOf(s) \ {b}) = Cardinality(CallsOf(s)) - 1
  BY <1>2, <1>3, FS_RemoveElement
<1>6. Cardinality(CallsOf(s) \ {b}) \in Nat /\ Cardinality(CallsOf(s)) \in Nat
  BY <1>2, <1>5, FS_CardinalityType
<1> QED BY <1>1, <1>2, <1>4, <1>5, <1>6

(* Steps of a call other than OutcomeLost. *)
LEMMA MovingKeepsWorkers ==
  ASSUME TypeInv, TypeOK', hands' = hands, NEW b \in Batch, call[b].state \in InFlight,
         \A c \in Batch : call'[c].by = call[c].by,
         \A c \in Batch \ {b} : call'[c] = call[c]
  PROVE  WorkersSuffice'
<1> SUFFICES ASSUME NEW s \in Sweep
             PROVE  IsFiniteSet(CallsOf(s)') /\ Cardinality(CallsOf(s)') <= hands'[s]
  BY DEF WorkersSuffice
<1>1. CallsOf(s)' \subseteq CallsOf(s) BY DEF CallsOf
<1>2. hands'[s] >= hands[s] BY HandsIsPositive DEF TypeInv, TypeOK
<1> QED BY <1>1, <1>2, FewerCalls

LEMMA SendKeepsWorkers ==
  ASSUME TypeInv, NEW s \in Sweep, NEW C \in SUBSET todo[s], Send(s, C)
  PROVE  WorkersSuffice'
<1> SUFFICES ASSUME NEW t \in Sweep
             PROVE  IsFiniteSet(CallsOf(t)') /\ Cardinality(CallsOf(t)') <= hands'[t]
  BY DEF WorkersSuffice
<1>1. IsFiniteSet(CallsOf(t)) /\ Cardinality(CallsOf(t)) <= hands[t]
  BY DEF TypeInv, WorkersSuffice
<1>2. /\ Fresh \in Batch /\ call[Fresh].state = "unused"
      /\ call'[Fresh] = Outgoing(s, C)
      /\ \A c \in Batch \ {Fresh} : call'[c] = call[c]
  BY SendAddsCall DEF TypeInv
<1>3. Fresh \notin CallsOf(t) BY <1>2 DEF CallsOf, InFlight
<1>4. CASE t = s
  <2>1. CallsOf(t)' = CallsOf(t) \cup {Fresh}
    BY <1>2, <1>4 DEF CallsOf, Outgoing, InFlight
  <2>2. /\ IsFiniteSet(CallsOf(t)')
        /\ Cardinality(CallsOf(t)') = Cardinality(CallsOf(t)) + 1
    BY <1>1, <1>3, <2>1, FS_AddElement
  <2>3. Cardinality(CallsOf(t)) < hands[t] BY <1>4 DEF Send, MayOverlap
  <2>4. Cardinality(CallsOf(t)) \in Nat /\ hands[t] \in Nat /\ hands' = hands
    BY <1>1, FS_CardinalityType, HandsIsPositive DEF TypeInv, TypeOK, Send
  <2> QED BY <2>2, <2>3, <2>4
<1>5. CASE t # s
  <2>1. CallsOf(t)' = CallsOf(t) BY <1>2, <1>3, <1>5 DEF CallsOf, Outgoing
  <2> QED BY <1>1, <2>1 DEF Send
<1> QED BY <1>4, <1>5

LEMMA FetchKeepsWorkers ==
  ASSUME TypeInv, NEW s \in Sweep, CallsOf(s) = {}, call' = call,
         hands' = [hands EXCEPT ![s] = Hands]
  PROVE  WorkersSuffice'
<1> SUFFICES ASSUME NEW t \in Sweep
             PROVE  IsFiniteSet(CallsOf(t)') /\ Cardinality(CallsOf(t)') <= hands'[t]
  BY DEF WorkersSuffice
<1>1. CallsOf(t)' = CallsOf(t) BY DEF CallsOf
<1>2. CASE t = s
  <2>1. hands'[t] = Hands BY <1>2 DEF TypeInv, TypeOK
  <2> QED BY <1>1, <1>2, <2>1, FS_EmptySet, HandsIsPositive
<1>3. CASE t # s BY <1>1, <1>3 DEF TypeInv, TypeOK, WorkersSuffice
<1> QED BY <1>2, <1>3

LEMMA LossKeepsWorkers ==
  ASSUME TypeInv, NEW b \in Batch, OutcomeLost(b)
  PROVE  WorkersSuffice'
<1> DEFINE s == call[b].by
<1>1. call[b].state \in InFlight BY DEF OutcomeLost, InFlight
<1>2. /\ s \in Sweep /\ hands[s] >= 1
      /\ IsFiniteSet(CallsOf(s) \ {b})
      /\ Cardinality(CallsOf(s) \ {b}) <= hands[s] - 1
  BY <1>1, WorkerOfCall
<1>3. /\ call'[b].state = "over" /\ \A c \in Batch \ {b} : call'[c] = call[c]
      /\ \A c \in Batch : call'[c].by = call[c].by
  <2>1. call' = [call EXCEPT ![b].state = "over"] BY DEF OutcomeLost
  <2> QED BY <2>1, CallMoves DEF TypeInv
<1>4. hands' = [hands EXCEPT ![s] = @ - 1] BY DEF OutcomeLost
<1> SUFFICES ASSUME NEW t \in Sweep
             PROVE  IsFiniteSet(CallsOf(t)') /\ Cardinality(CallsOf(t)') <= hands'[t]
  BY DEF WorkersSuffice
<1>5. CASE t = s
  <2>1. CallsOf(t)' = CallsOf(s) \ {b} BY <1>3, <1>5 DEF CallsOf, InFlight
  <2>2. hands'[t] = hands[s] - 1 BY <1>2, <1>4, <1>5 DEF TypeInv, TypeOK
  <2> QED BY <1>2, <2>1, <2>2
<1>6. CASE t # s
  <2>1. CallsOf(t)' = CallsOf(t) BY <1>3, <1>6 DEF CallsOf
  <2>2. hands'[t] = hands[t] BY <1>4, <1>6 DEF TypeInv, TypeOK
  <2> QED BY <2>1, <2>2 DEF TypeInv, WorkersSuffice
<1> QED BY <1>5, <1>6

-----------------------------------------------------------------------------
(* What the steps of a call do to the call, whatever the step is.          *)

LEMMA CallStepMoves ==
  ASSUME TypeOK, NEW b \in Batch, CallStep(b)
  PROVE  /\ call' \in [Batch -> Call]
         /\ call[b].state \in InFlight
         /\ \A c \in Batch \ {b} : call'[c] = call[c]
         /\ \A c \in Batch : /\ call'[c].by = call[c].by /\ call'[c].marks = call[c].marks
                             /\ call'[c].data = call[c].data
<1> USE DEF InFlight
<1>1. CASE VendorAccept(b)
  <2>1. PICK v \in [Row -> Literal \cup {"none"}] : Reaches(b, v) BY <1>1 DEF VendorAccept
  <2> QED BY <1>1, <2>1, CallIsAccepted DEF VendorAccept
<1>2. CASE VendorRefuse(b)
  <2>1. call' = [call EXCEPT ![b].state = "refused"] BY <1>2 DEF VendorRefuse
  <2> QED BY <1>2, <2>1, CallMoves DEF VendorRefuse
<1>3. CASE CallFails(b)
  <2>1. call' = [call EXCEPT ![b].state = "failed"] BY <1>3 DEF CallFails
  <2> QED BY <1>3, <2>1, CallMoves DEF CallFails
<1>4. CASE OutcomeSent(b)
  <2>1. call' = [call EXCEPT ![b].state = "over"] BY <1>4 DEF OutcomeSent, CommitOutcome
  <2> QED BY <1>4, <2>1, CallMoves DEF OutcomeSent
<1>5. CASE OutcomeError(b)
  <2>1. call' = [call EXCEPT ![b].state = "over"] BY <1>5 DEF OutcomeError, CommitOutcome
  <2> QED BY <1>5, <2>1, CallMoves DEF OutcomeError
<1>6. CASE OutcomeLost(b)
  <2>1. call' = [call EXCEPT ![b].state = "over"] BY <1>6 DEF OutcomeLost
  <2> QED BY <1>6, <2>1, CallMoves DEF OutcomeLost
<1> QED BY <1>1, <1>2, <1>3, <1>4, <1>5, <1>6 DEF CallStep

(* Each kind of step keeps the types. *)
LEMMA RowStepTyped ==
  ASSUME TypeOK, NEW r \in Row, Ingest(r) \/ EditData(r) \/ EditMark(r)
  PROVE  TypeOK'
<1> USE DEF TypeOK, Version, Sendable, MarkQueued
<1>1. CASE Ingest(r) BY <1>1 DEF Ingest
<1>2. CASE EditData(r) BY <1>2 DEF EditData
<1>3. CASE EditMark(r) BY <1>3 DEF EditMark
<1> QED BY <1>1, <1>2, <1>3

LEMMA FetchTyped ==
  ASSUME TypeOK, NEW s \in Sweep, NEW R \in SUBSET Row,
         todo' = [todo EXCEPT ![s] = Snapshot(R)], hands' = [hands EXCEPT ![s] = Hands],
         UNCHANGED <<rowVars, editing, call, event, faults>>
  PROVE  TypeOK'
<1>1. Snapshot(R) \subseteq Item BY SnapshotIsItems
<1>2. Hands \in 0..Hands BY HandsIsPositive
<1> QED BY <1>1, <1>2 DEF TypeOK, rowVars

LEMMA SendTyped ==
  ASSUME TypeOK, NEW s \in Sweep, NEW C \in SUBSET todo[s], Send(s, C)
  PROVE  TypeOK'
<1>1. call' \in [Batch -> Call] BY SendAddsCall
<1>2. todo' = [todo EXCEPT ![s] = @ \ C] BY DEF Send
<1>3. todo' \in [Sweep -> SUBSET Item] BY <1>2 DEF TypeOK
<1> QED BY <1>1, <1>3 DEF TypeOK, Send, rowVars

LEMMA OutcomeTyped ==
  ASSUME TypeOK, NEW b \in Batch, NEW kind \in {"sent", "error"}, NEW s \in {"pending", "queued"},
         call' \in [Batch -> Call], CommitOutcome(b, kind, s)
  PROVE  TypeOK'
BY DEF TypeOK, CommitOutcome, Sendable

LEMMA CallStepTyped ==
  ASSUME TypeInv, NEW b \in Batch, CallStep(b)
  PROVE  TypeOK'
<1> USE DEF TypeInv
<1>1. call' \in [Batch -> Call] BY CallStepMoves
<1>2. CASE VendorAccept(b) BY <1>1, <1>2 DEF VendorAccept, TypeOK, rowVars
<1>3. CASE VendorRefuse(b) BY <1>1, <1>3 DEF VendorRefuse, Fault, TypeOK, rowVars
<1>4. CASE CallFails(b) BY <1>1, <1>4 DEF CallFails, Fault, TypeOK, rowVars
<1>5. CASE OutcomeSent(b) BY <1>1, <1>5, OutcomeTyped DEF OutcomeSent
<1>6. CASE OutcomeError(b) BY <1>1, <1>6, OutcomeTyped DEF OutcomeError
<1>7. CASE OutcomeLost(b)
  <2> DEFINE s == call[b].by
  <2>1. s \in Sweep /\ hands[s] >= 1
    BY <1>7, WorkerOfCall DEF OutcomeLost, InFlight
  <2>2. hands[s] - 1 \in 0..Hands BY <2>1, HandsIsPositive DEF TypeOK
  <2>3. hands' = [hands EXCEPT ![s] = hands[s] - 1] BY <1>7 DEF OutcomeLost
  <2>4. hands' \in [Sweep -> 0..Hands] BY <2>2, <2>3 DEF TypeOK
  <2>5. todo' \in [Sweep -> SUBSET Item]
    <3>1. PICK kept \in SUBSET todo[s] : todo' = [todo EXCEPT ![s] = kept]
      BY <1>7 DEF OutcomeLost
    <3> QED BY <2>1, <3>1 DEF TypeOK
  <2> QED BY <1>1, <1>7, <2>4, <2>5 DEF OutcomeLost, Fault, TypeOK, rowVars
<1> QED BY <1>2, <1>3, <1>4, <1>5, <1>6, <1>7 DEF CallStep

LEMMA CallbackTyped ==
  ASSUME TypeOK, NEW b \in Batch,
         \/ \E r \in Row : CallbackLine(b, r)
         \/ \E literal \in Literal : CallbackBatch(b, literal)
  PROVE  TypeOK'
<1>1. ASSUME NEW r \in Row, CallbackLine(b, r) PROVE TypeOK'
  <2>1. call[b].verdict[r] \in Literal BY <1>1 DEF CallbackLine, TypeOK, Call
  <2> QED BY <1>1, <2>1 DEF CallbackLine, TypeOK
<1>2. ASSUME NEW literal \in Literal, CallbackBatch(b, literal) PROVE TypeOK'
  BY <1>2 DEF CallbackBatch, TypeOK
<1> QED BY <1>1, <1>2

LEMMA CrashTyped ==
  ASSUME TypeOK, Crash
  PROVE  TypeOK'
<1>1. call' \in [Batch -> Call] BY CrashEndsCalls
<1>2. Hands \in 0..Hands BY HandsIsPositive
<1>3. /\ Fault
      /\ todo' = [s \in Sweep |-> {}]
      /\ hands' = [s \in Sweep |-> Hands]
      /\ editing' = {}
      /\ UNCHANGED <<rowVars, event>>
  BY Zenon DEF Crash
<1> QED BY <1>1, <1>2, <1>3 DEF Fault, TypeOK, rowVars

LEMMA InitTyped ==
  ASSUME Init
  PROVE  TypeInv
<1>1. TypeOK BY UnusedIsCall, HandsIsPositive DEF Init, TypeOK, Version, Sendable
<1>2. \A s \in Sweep : CallsOf(s) = {} BY DEF Init, CallsOf, Unused, InFlight
<1> QED BY <1>1, <1>2, FS_EmptySet, HandsIsPositive DEF TypeInv, WorkersSuffice, TypeOK, Init

(* Both kinds of sweep take what they read into todo. *)
LEMMA FetchReads ==
  ASSUME NEW s \in Sweep, SweepFetch(s) \/ \E R \in SUBSET Row : ForceFetch(s, R)
  PROVE  \E R \in SUBSET Row :
           /\ Due(s)
           /\ todo' = [todo EXCEPT ![s] = Snapshot(R)]
           /\ hands' = [hands EXCEPT ![s] = Hands]
           /\ UNCHANGED <<rowVars, editing, call, event, faults>>
           /\ s \in Manual \/ R = Eligible
<1>1. CASE SweepFetch(s)
  <2>1. Eligible \in SUBSET Row BY DEF Eligible
  <2> QED BY <1>1, <2>1 DEF SweepFetch
<1>2. CASE \E R \in SUBSET Row : ForceFetch(s, R) BY <1>2 DEF ForceFetch
<1> QED BY <1>1, <1>2

LEMMA TypesInductive ==
  ASSUME TypeInv, [Next]_vars
  PROVE  TypeInv'
<1> USE DEF TypeInv
<1>1. ASSUME NEW r \in Row, Ingest(r) \/ EditData(r) \/ EditMark(r) PROVE TypeInv'
  <2>1. TypeOK' BY <1>1, RowStepTyped
  <2>2. call' = call /\ hands' = hands BY <1>1 DEF Ingest, EditData, EditMark
  <2> QED BY <2>1, <2>2 DEF WorkersSuffice, CallsOf
<1>2. ASSUME NEW s \in Sweep, SweepFetch(s) \/ \E R \in SUBSET Row : ForceFetch(s, R)
      PROVE  TypeInv'
  <2>1. PICK R \in SUBSET Row :
          /\ Due(s)
          /\ todo' = [todo EXCEPT ![s] = Snapshot(R)]
          /\ hands' = [hands EXCEPT ![s] = Hands]
          /\ UNCHANGED <<rowVars, editing, call, event, faults>>
    BY <1>2, FetchReads
  <2>2. TypeOK' BY <2>1, FetchTyped
  <2>3. CallsOf(s) = {} BY <2>1 DEF Due, Resting
  <2> QED BY <2>1, <2>2, <2>3, FetchKeepsWorkers
<1>3. ASSUME NEW s \in Sweep, NEW C \in SUBSET todo[s], Send(s, C) PROVE TypeInv'
  BY <1>3, SendTyped, SendKeepsWorkers
<1>4. ASSUME NEW b \in Batch, CallStep(b) PROVE TypeInv'
  <2>1. TypeOK' BY <1>4, CallStepTyped
  <2>2. CASE OutcomeLost(b) BY <2>1, <2>2, LossKeepsWorkers
  <2>3. CASE ~OutcomeLost(b)
    <3>1. hands' = hands
      BY <1>4, <2>3 DEF CallStep, VendorAccept, VendorRefuse, CallFails, OutcomeSent, OutcomeError,
                        CommitOutcome
    <3> QED BY <1>4, <2>1, <3>1, CallStepMoves, MovingKeepsWorkers
  <2> QED BY <2>2, <2>3
<1>5. ASSUME NEW b \in Batch,
             \/ \E r \in Row : CallbackLine(b, r)
             \/ \E literal \in Literal : CallbackBatch(b, literal)
      PROVE  TypeInv'
  <2>1. TypeOK' BY <1>5, CallbackTyped
  <2>2. call' = call /\ hands' = hands BY <1>5 DEF CallbackLine, CallbackBatch
  <2> QED BY <2>1, <2>2 DEF WorkersSuffice, CallsOf
<1>6. CASE Crash
  <2>1. TypeOK' BY <1>6, CrashTyped
  <2>2. \A s \in Sweep : CallsOf(s)' = {} BY <1>6, CrashEndsCalls DEF CallsOf
  <2>3. \A s \in Sweep : hands'[s] \in Nat BY <2>1, HandsIsPositive DEF TypeOK
  <2> QED BY <2>1, <2>2, <2>3, FS_EmptySet DEF WorkersSuffice
<1>7. CASE UNCHANGED vars
  BY <1>7 DEF vars, rowVars, TypeOK, WorkersSuffice, CallsOf
<1> QED BY <1>1, <1>2, <1>3, <1>4, <1>5, <1>6, <1>7 DEF Next, Sweep

LEMMA TypeInvHolds == Spec => []TypeInv
<1>1. Init => TypeInv BY InitTyped
<1>2. TypeInv /\ [Next]_vars => TypeInv' BY TypesInductive
<1> QED BY <1>1, <1>2, PTL DEF Spec

(* The columns, sweeps and calls are of their types; no sweep counts fewer *)
(* than zero workers, however many exceptions end them.                    *)
THEOREM TypeCorrect == Spec => []TypeOK
<1>1. TypeInv => TypeOK BY DEF TypeInv
<1> QED BY <1>1, TypeInvHolds, PTL

-----------------------------------------------------------------------------
(* What one step can do to a call: nothing, send it, or move it on.  The   *)
(* vendor decides once, on a request that is on the wire, and on every row *)
(* the request carries.                                                    *)
GoesOut(b) ==
  /\ call[b].state = "unused"
  /\ \E s \in Sweep : \E C \in SUBSET todo[s] : Send(s, C) /\ call'[b] = Outgoing(s, C)

MovesOn(b) ==
  /\ call[b].state \in InFlight
  /\ call'[b].state \in {"accepted", "refused", "failed", "over"}
  /\ call'[b].by = call[b].by /\ call'[b].marks = call[b].marks /\ call'[b].data = call[b].data
  /\ \/ call'[b].verdict = call[b].verdict /\ call'[b].state # "accepted"
     \/ /\ call[b].state = "sent"
        /\ call'[b].state = "accepted" =>
             \A r \in RowsOf(call[b].data) : call'[b].verdict[r] # "none"

LEMMA CallChanges ==
  ASSUME TypeInv, [Next]_vars, NEW b \in Batch
  PROVE  call'[b] = call[b] \/ GoesOut(b) \/ MovesOn(b)
<1> USE DEF TypeInv
<1>1. ASSUME NEW r \in Row, Ingest(r) \/ EditData(r) \/ EditMark(r) PROVE call' = call
  BY <1>1 DEF Ingest, EditData, EditMark
<1>2. ASSUME NEW s \in Sweep, SweepFetch(s) \/ \E R \in SUBSET Row : ForceFetch(s, R)
      PROVE  call' = call
  BY <1>2, FetchReads
<1>3. ASSUME NEW s \in Sweep, NEW C \in SUBSET todo[s], Send(s, C)
      PROVE  call'[b] = call[b] \/ GoesOut(b)
  BY <1>3, SendAddsCall DEF GoesOut
<1>4. ASSUME NEW c \in Batch, CallStep(c) PROVE call'[b] = call[b] \/ MovesOn(b)
  <2>1. CASE b # c BY <1>4, <2>1, CallStepMoves
  <2>2. CASE b = c /\ VendorAccept(b)
    <3>1. PICK v \in [Row -> Literal \cup {"none"}] : Reaches(b, v) BY <2>2 DEF VendorAccept
    <3>2. /\ call'[b].state = "accepted" /\ call'[b].verdict = v
          /\ call'[b].by = call[b].by /\ call'[b].marks = call[b].marks
          /\ call'[b].data = call[b].data
      BY <3>1, CallIsAccepted
    <3>3. RowsOf(call[b].data) \subseteq Row BY DEF RowsOf, TypeOK, Call
    <3>4. \A r \in RowsOf(call[b].data) : v[r] # "none" BY <3>1, <3>3 DEF Reaches
    <3> QED BY <2>2, <3>2, <3>4 DEF MovesOn, VendorAccept, InFlight
  <2>3. CASE b = c /\ ~VendorAccept(b)
    <3>1. PICK place \in {"refused", "failed", "over"} : call' = [call EXCEPT ![b].state = place]
      BY <1>4, <2>3 DEF CallStep, VendorRefuse, CallFails, OutcomeSent, OutcomeError, OutcomeLost,
                        CommitOutcome
    <3>2. place \in {"over"} \cup InFlight BY DEF InFlight
    <3>3. /\ call'[b].state = place /\ call'[b].by = call[b].by
          /\ call'[b].marks = call[b].marks /\ call'[b].data = call[b].data
          /\ call'[b].verdict = call[b].verdict
      BY <3>1, <3>2, CallMoves
    <3>4. call[b].state \in InFlight BY <1>4, <2>3, CallStepMoves
    <3> QED BY <3>3, <3>4 DEF MovesOn
  <2> QED BY <2>1, <2>2, <2>3
<1>5. ASSUME NEW c \in Batch,
             \/ \E r \in Row : CallbackLine(c, r)
             \/ \E literal \in Literal : CallbackBatch(c, literal)
      PROVE  call' = call
  BY <1>5 DEF CallbackLine, CallbackBatch
<1>6. CASE Crash BY <1>6, CrashEndsCalls DEF MovesOn
<1>7. CASE UNCHANGED vars BY <1>7 DEF vars
<1> QED BY <1>1, <1>2, <1>3, <1>4, <1>5, <1>6, <1>7 DEF Next, Sweep

(* What the calls are: before the vendor has the request it has decided    *)
(* nothing; an ACK means that it has every row of the request; whose       *)
(* status advances was in the request.                                     *)
CallSound(b) ==
  /\ call[b].state \in {"unused", "sent"} => \A r \in Row : call[b].verdict[r] = "none"
  /\ call[b].state = "accepted" => \A r \in RowsOf(call[b].data) : call[b].verdict[r] # "none"
  /\ RowsOf(call[b].marks) \subseteq RowsOf(call[b].data)

CallsSound == \A b \in Batch : CallSound(b)

LEMMA MarksAreCarried ==
  ASSUME TypeOK, NEW C \in SUBSET Item
  PROVE  RowsOf(C) \subseteq RowsOf(DataOf(C))
<1> SUFFICES ASSUME NEW i \in C PROVE i.row \in RowsOf(DataOf(C))
  BY DEF RowsOf
<1>1. i.row \in Row BY DEF Item
<1>2. CASE Collapse
  <2>1. [row |-> i.row, ver |-> ver[i.row]] \in DataOf(C) BY <1>1, <1>2 DEF DataOf
  <2> QED BY <2>1 DEF RowsOf
<1>3. CASE ~Collapse
  <2>1. [row |-> i.row, ver |-> i.ver] \in DataOf(C) BY <1>3 DEF DataOf
  <2> QED BY <2>1 DEF RowsOf
<1> QED BY <1>2, <1>3

LEMMA CallsStaySound ==
  ASSUME TypeInv, CallsSound, [Next]_vars
  PROVE  CallsSound'
<1> SUFFICES ASSUME NEW b \in Batch PROVE CallSound(b)' BY DEF CallsSound
<1>1. CallSound(b) BY DEF CallsSound
<1>2. CASE call'[b] = call[b] BY <1>1, <1>2 DEF CallSound, RowsOf
<1>3. CASE GoesOut(b)
  <2>1. PICK s \in Sweep : \E C \in SUBSET todo[s] : Send(s, C) /\ call'[b] = Outgoing(s, C)
    BY <1>3 DEF GoesOut
  <2>2. PICK C \in SUBSET todo[s] : Send(s, C) /\ call'[b] = Outgoing(s, C) BY <2>1
  <2>3. C \in SUBSET Item BY DEF TypeInv, TypeOK
  <2>4. RowsOf(C) \subseteq RowsOf(DataOf(C)) BY <2>3, MarksAreCarried DEF TypeInv
  <2> QED BY <2>2, <2>4 DEF CallSound, Outgoing, RowsOf
<1>4. CASE MovesOn(b)
  <2>1. RowsOf(call'[b].marks) = RowsOf(call[b].marks) /\ RowsOf(call'[b].data) = RowsOf(call[b].data)
    BY <1>4 DEF MovesOn, RowsOf
  <2> QED BY <1>1, <1>4, <2>1 DEF MovesOn, CallSound
<1> QED BY <1>2, <1>3, <1>4, CallChanges

(* Verdicts and what a call carries are for ever. *)
LEMMA CallsKept ==
  ASSUME TypeInv, CallsSound, [Next]_vars, NEW b \in Batch
  PROVE  /\ call[b].state = "over" => call'[b] = call[b]
         /\ call[b].state # "unused" =>
              /\ call'[b].by = call[b].by /\ call'[b].marks = call[b].marks
              /\ call'[b].data = call[b].data /\ call'[b].state # "unused"
         /\ \A r \in Row : call[b].verdict[r] # "none" => call'[b].verdict[r] = call[b].verdict[r]
<1>1. CallSound(b) BY DEF CallsSound
<1>2. CASE call'[b] = call[b] BY <1>2
<1>3. CASE GoesOut(b) BY <1>1, <1>3 DEF GoesOut, CallSound
<1>4. CASE MovesOn(b) BY <1>1, <1>4 DEF MovesOn, CallSound, InFlight
<1> QED BY <1>2, <1>3, <1>4, CallChanges

-----------------------------------------------------------------------------
(* What one step can do to a row: nothing, a fresh attempt, the outcome of *)
(* a call that marks it, or a result.                                      *)
Keeps(r) == status'[r] = status[r] /\ batchId'[r] = batchId[r] /\ written'[r] = written[r]

Requeued(r) ==
  /\ status'[r] \in Sendable /\ batchId'[r] = NoBatch /\ written'[r] = "none"
  /\ status[r] # "correcto" \/ r \in editing \ editing'

OutcomeOf(b, r) ==
  /\ r \in RowsOf(call[b].marks) /\ call[b].state \in InFlight /\ call'[b].state = "over"
  /\ batchId'[r] = b /\ written'[r] = event'[b]
  /\ \/ call[b].state = "accepted" /\ status'[r] = "pending" /\ event'[b] = "sent"
     \/ status'[r] = "queued" /\ event'[b] = "error"

Resolved(b, r) ==
  /\ call' = call /\ batchId'[r] = batchId[r] /\ written'[r] = written[r]
  /\ status[r] # "correcto" /\ status'[r] \in Literal
  /\ \/ status'[r] = call[b].verdict[r]
     \/ batchId[r] = b /\ \A x \in RowsOf(call[b].data) : call[b].verdict[x] = status'[r]

LEMMA RowChanges ==
  ASSUME TypeInv, [Next]_vars, NEW r \in Row
  PROVE  Keeps(r) \/ Requeued(r) \/ \E b \in Batch : OutcomeOf(b, r) \/ Resolved(b, r)
<1> USE DEF TypeInv
<1>1. ASSUME NEW q \in Row, Ingest(q) \/ EditData(q) \/ EditMark(q)
      PROVE  Keeps(r) \/ Requeued(r)
  BY <1>1 DEF Ingest, EditData, EditMark, MarkQueued, Keeps, Requeued, Sendable, TypeOK
<1>2. ASSUME NEW s \in Sweep, SweepFetch(s) \/ \E R \in SUBSET Row : ForceFetch(s, R)
      PROVE  Keeps(r)
  BY <1>2, FetchReads DEF Keeps, rowVars
<1>3. ASSUME NEW s \in Sweep, NEW C \in SUBSET todo[s], Send(s, C) PROVE Keeps(r)
  BY <1>3 DEF Send, Keeps, rowVars
<1>4. ASSUME NEW b \in Batch, CallStep(b) PROVE Keeps(r) \/ OutcomeOf(b, r)
  <2>1. ASSUME NEW kind \in {"sent", "error"}, NEW s, CommitOutcome(b, kind, s),
               call[b].state \in InFlight,
               \/ kind = "sent" /\ s = "pending" /\ call[b].state = "accepted"
               \/ kind = "error" /\ s = "queued"
        PROVE  Keeps(r) \/ OutcomeOf(b, r)
    <3>1. CASE r \in RowsOf(call[b].marks)
      <4>1. status'[r] = s /\ batchId'[r] = b /\ written'[r] = kind
        BY <2>1, <3>1 DEF CommitOutcome
      <4>2. event'[b] = kind BY <2>1 DEF CommitOutcome, TypeOK
      <4>3. call'[b].state = "over" BY <2>1, CallMoves DEF CommitOutcome
      <4> QED BY <2>1, <3>1, <4>1, <4>2, <4>3 DEF OutcomeOf
    <3>2. CASE r \notin RowsOf(call[b].marks) BY <2>1, <3>2 DEF CommitOutcome, Keeps
    <3> QED BY <3>1, <3>2
  <2>2. CASE OutcomeSent(b) BY <2>1, <2>2 DEF OutcomeSent, InFlight
  <2>3. CASE OutcomeError(b) BY <2>1, <2>3 DEF OutcomeError, InFlight
  <2>4. CASE ~OutcomeSent(b) /\ ~OutcomeError(b)
    BY <1>4, <2>4 DEF CallStep, VendorAccept, VendorRefuse, CallFails, OutcomeLost, Keeps, rowVars
  <2> QED BY <2>2, <2>3, <2>4
<1>5. ASSUME NEW b \in Batch, NEW q \in Row, CallbackLine(b, q)
      PROVE  Keeps(r) \/ Resolved(b, r)
  <2>1. call[b].verdict[q] \in Literal BY <1>5 DEF CallbackLine, TypeOK, Call
  <2> QED BY <1>5, <2>1 DEF CallbackLine, Keeps, Resolved, TypeOK
<1>6. ASSUME NEW b \in Batch, NEW literal \in Literal, CallbackBatch(b, literal)
      PROVE  Keeps(r) \/ Resolved(b, r)
  BY <1>6 DEF CallbackBatch, Keeps, Resolved
<1>7. CASE Crash
  <2>1. UNCHANGED rowVars BY Zenon, <1>7 DEF Crash
  <2> QED BY <2>1 DEF Keeps, rowVars
<1>8. CASE UNCHANGED vars BY <1>8 DEF vars, rowVars, Keeps
<1> QED BY <1>1, <1>2, <1>3, <1>4, <1>5, <1>6, <1>7, <1>8 DEF Next, Sweep

(* An event of the outbox is written with the end of its call.             *)
LEMMA EventsChange ==
  ASSUME TypeInv, [Next]_vars, NEW b \in Batch
  PROVE  event'[b] = event[b] \/ call[b].state \in InFlight
<1> USE DEF TypeInv
<1>1. ASSUME NEW c \in Batch, CallStep(c) PROVE event'[b] = event[b] \/ call[b].state \in InFlight
  <2>1. CASE b = c BY <1>1, <2>1, CallStepMoves
  <2>2. CASE b # c
    BY <1>1, <2>2 DEF CallStep, VendorAccept, VendorRefuse, CallFails, OutcomeSent, OutcomeError,
                      OutcomeLost, CommitOutcome, TypeOK
  <2> QED BY <2>1, <2>2
<1>2. CASE Crash
  <2>1. UNCHANGED event BY Zenon, <1>2 DEF Crash
  <2> QED BY <2>1
<1>3. ASSUME NEW s \in Sweep, SweepFetch(s) \/ \E R \in SUBSET Row : ForceFetch(s, R)
      PROVE  event' = event
  BY <1>3, FetchReads
<1> QED BY <1>1, <1>2, <1>3
        DEF Next, Sweep, Ingest, EditData, EditMark, Send, CallbackLine, CallbackBatch, vars

-----------------------------------------------------------------------------
(* A row names a batch only when the call of it is over: its event and its *)
(* verdicts do not change any more.                                        *)
NamedIsOver ==
  \A r \in Row : batchId[r] # NoBatch => call[batchId[r]].state = "over"

SubmissionInv ==
  TypeInv /\ CallsSound /\ NamedIsOver /\ OutcomeHasEvent /\ PendingIsPresented /\ ResultIsTheVendors

LEMMA SubmissionInit ==
  ASSUME Init
  PROVE  SubmissionInv
<1>1. TypeInv BY InitTyped
<1>2. CallsSound
  BY DEF Init, CallsSound, CallSound, Unused, RowsOf
<1>3. NamedIsOver BY DEF Init, NamedIsOver
<1>4. OutcomeHasEvent BY DEF Init, OutcomeHasEvent
<1>5. PendingIsPresented BY DEF Init, PendingIsPresented
<1>6. ResultIsTheVendors BY DEF Init, ResultIsTheVendors, Literal
<1> QED BY <1>1, <1>2, <1>3, <1>4, <1>5, <1>6 DEF SubmissionInv

LEMMA SubmissionInductive ==
  ASSUME SubmissionInv, [Next]_vars
  PROVE  SubmissionInv'
<1> USE DEF SubmissionInv
<1>1. TypeInv' BY TypesInductive
<1>2. CallsSound' BY CallsStaySound
<1>3. \A r \in Row : batchId[r] \in Batch \cup {NoBatch} BY DEF TypeInv, TypeOK
<1>4. ASSUME NEW r \in Row, batchId'[r] = batchId[r], batchId[r] # NoBatch
      PROVE  /\ call'[batchId[r]] = call[batchId[r]] /\ event'[batchId[r]] = event[batchId[r]]
             /\ call[batchId[r]].state = "over"
  <2>1. batchId[r] \in Batch /\ call[batchId[r]].state = "over" BY <1>3, <1>4 DEF NamedIsOver
  <2> QED BY <2>1, CallsKept, EventsChange DEF InFlight
<1>5. ASSUME NEW r \in Row, NEW b \in Batch, OutcomeOf(b, r)
      PROVE  /\ call'[b].state = "over" /\ r \in RowsOf(call'[b].marks)
             /\ batchId'[r] = b /\ batchId'[r] # NoBatch
             /\ written'[r] = event'[b] /\ written'[r] # "none"
             /\ status'[r] \in {"pending", "queued"}
             /\ status'[r] = "pending" => event'[b] = "sent" /\ call'[b].verdict[r] # "none"
  <2>1. call'[b].marks = call[b].marks BY <1>5, CallsKept DEF OutcomeOf, InFlight
  <2>2. call[b].state = "accepted" => call[b].verdict[r] # "none"
    BY <1>5 DEF CallsSound, CallSound, OutcomeOf
  <2>3. call[b].state = "accepted" => call'[b].verdict[r] # "none" BY <2>2, CallsKept
  <2> QED BY <1>5, <2>1, <2>3 DEF OutcomeOf
<1>6. NamedIsOver'
  BY <1>4, <1>5, RowChanges DEF NamedIsOver, Keeps, Requeued, Resolved
<1>7. OutcomeHasEvent'
  <2> SUFFICES ASSUME NEW r \in Row
               PROVE  IF batchId'[r] = NoBatch THEN written'[r] = "none"
                      ELSE /\ r \in RowsOf(call'[batchId'[r]].marks)
                           /\ written'[r] = event'[batchId'[r]]
                           /\ written'[r] # "none"
    BY DEF OutcomeHasEvent, RowsOf
  <2>1. ASSUME batchId'[r] = batchId[r], written'[r] = written[r]
        PROVE  IF batchId'[r] = NoBatch THEN written'[r] = "none"
               ELSE /\ r \in RowsOf(call'[batchId'[r]].marks)
                    /\ written'[r] = event'[batchId'[r]]
                    /\ written'[r] # "none"
    BY <1>4, <2>1 DEF OutcomeHasEvent
  <2> QED BY <1>5, <2>1, RowChanges DEF Keeps, Requeued, Resolved
<1>8. PendingIsPresented'
  <2> SUFFICES ASSUME NEW r \in Row, status'[r] = "pending"
               PROVE  /\ batchId'[r] # NoBatch
                      /\ event'[batchId'[r]] = "sent"
                      /\ call'[batchId'[r]].verdict[r] # "none"
    BY DEF PendingIsPresented
  <2>1. CASE Keeps(r) BY <1>4, <2>1 DEF PendingIsPresented, Keeps
  <2>2. ~Requeued(r) BY DEF Requeued, Sendable
  <2>3. ASSUME NEW b \in Batch PROVE ~Resolved(b, r) BY DEF Resolved, Literal
  <2> QED BY <1>5, <2>1, <2>2, <2>3, RowChanges
<1>9. ResultIsTheVendors'
  <2> SUFFICES ASSUME NEW r \in Row, status'[r] \in Literal
               PROVE  \E b \in Batch : call'[b].verdict[r] = status'[r]
    BY DEF ResultIsTheVendors
  <2>1. CASE Keeps(r)
    <3>1. PICK b \in Batch : call[b].verdict[r] = status[r]
      BY <2>1 DEF ResultIsTheVendors, Keeps
    <3>2. call[b].verdict[r] # "none" BY <2>1, <3>1 DEF Literal, Keeps
    <3> QED BY <2>1, <3>1, <3>2, CallsKept DEF Keeps
  <2>2. ~Requeued(r) BY DEF Requeued, Sendable, Literal
  <2>3. ASSUME NEW b \in Batch PROVE ~OutcomeOf(b, r) BY DEF OutcomeOf, Literal
  <2>4. ASSUME NEW b \in Batch, Resolved(b, r) PROVE call'[b].verdict[r] = status'[r]
    <3>1. CASE status'[r] = call[b].verdict[r] BY <2>4, <3>1 DEF Resolved
    <3>2. CASE batchId[r] = b /\ \A x \in RowsOf(call[b].data) : call[b].verdict[x] = status'[r]
      <4>1. b # NoBatch OBVIOUS
      <4>2. r \in RowsOf(call[b].data) BY <3>2, <4>1 DEF OutcomeHasEvent, CallsSound, CallSound
      <4> QED BY <2>4, <3>2, <4>2 DEF Resolved
    <3> QED BY <2>4, <3>1, <3>2 DEF Resolved
  <2> QED BY <2>1, <2>2, <2>3, <2>4, RowChanges
<1> QED BY <1>1, <1>2, <1>6, <1>7, <1>8, <1>9

LEMMA SubmissionInvHolds == Spec => []SubmissionInv
<1>1. Init => SubmissionInv BY SubmissionInit
<1>2. SubmissionInv /\ [Next]_vars => SubmissionInv' BY SubmissionInductive
<1> QED BY <1>1, <1>2, PTL DEF Spec

-----------------------------------------------------------------------------
(* A row's last attempt and the outbox tell the same of the same batch,    *)
(* through overlapping sweeps, edits, crashes and lost answers             *)
(* (commitOutcome).                                                        *)
THEOREM OutcomesHaveEvents == Spec => []OutcomeHasEvent
<1>1. SubmissionInv => OutcomeHasEvent BY DEF SubmissionInv
<1> QED BY <1>1, SubmissionInvHolds, PTL

(* What waits for a result was acknowledged: the vendor has the row, and   *)
(* the row names the batch by which the result can find it.                *)
THEOREM PendingHasBeenPresented == Spec => []PendingIsPresented
<1>1. SubmissionInv => PendingIsPresented BY DEF SubmissionInv
<1> QED BY <1>1, SubmissionInvHolds, PTL

(* No row has a result that the vendor did not give for it, whichever of   *)
(* the two kinds of callback brings it, and however late.                  *)
THEOREM ResultsAreTheVendors == Spec => []ResultIsTheVendors
<1>1. SubmissionInv => ResultIsTheVendors BY DEF SubmissionInv
<1> QED BY <1>1, SubmissionInvHolds, PTL

(* An accepted row leaves 'correcto' only by the outcome of a call that    *)
(* was under way or by the second statement of an edit.                    *)
THEOREM AcceptedRowsLeaveByRace == Spec => AcceptedLeavesByRaceOnly
<1>1. TypeInv /\ [Next]_vars =>
        [\A r \in Row :
           status[r] = "correcto" /\ status'[r] # "correcto" =>
             \/ r \in editing \ editing'
             \/ \E b \in Batch : /\ r \in RowsOf(call[b].marks)
                                 /\ call[b].state \in InFlight
                                 /\ call'[b].state = "over"]_vars
  <2> SUFFICES ASSUME TypeInv, [Next]_vars, NEW r \in Row,
                      status[r] = "correcto", status'[r] # "correcto"
               PROVE  \/ r \in editing \ editing'
                      \/ \E b \in Batch : /\ r \in RowsOf(call[b].marks)
                                          /\ call[b].state \in InFlight
                                          /\ call'[b].state = "over"
    OBVIOUS
  <2> QED BY RowChanges DEF Keeps, Requeued, OutcomeOf, Resolved
<1> QED BY <1>1, TypeInvHolds, PTL DEF Spec, AcceptedLeavesByRaceOnly

-----------------------------------------------------------------------------
(* What one step can do to the sweeps: one of them reads, one of them      *)
(* sends, all of them die, or they go on with what they have.              *)
Reads(s, R) ==
  /\ Due(s)
  /\ todo' = [todo EXCEPT ![s] = Snapshot(R)]
  /\ hands' = [hands EXCEPT ![s] = Hands]
  /\ UNCHANGED <<rowVars, editing, call, event, faults>>
  /\ s \in Manual \/ R = Eligible

Continue ==
  /\ \A b \in Batch : call'[b].marks = call[b].marks
  /\ \A s \in Sweep : /\ todo'[s] \subseteq todo[s] /\ CallsOf(s)' \subseteq CallsOf(s)
                      /\ s \in Abandoned => s \in Abandoned'

LEMMA SweepsChange ==
  ASSUME TypeInv, [Next]_vars
  PROVE  \/ \E s \in Sweep, R \in SUBSET Row : Reads(s, R)
         \/ \E s \in Sweep : \E C \in SUBSET todo[s] : Send(s, C)
         \/ Crash
         \/ Continue
<1> USE DEF TypeInv
<1>1. ASSUME call' = call, todo' = todo, hands' = hands PROVE Continue
  BY <1>1 DEF Continue, CallsOf, Abandoned
<1>2. ASSUME NEW r \in Row, Ingest(r) \/ EditData(r) \/ EditMark(r) PROVE Continue
  BY <1>1, <1>2 DEF Ingest, EditData, EditMark
<1>3. ASSUME NEW s \in Sweep, SweepFetch(s) \/ \E R \in SUBSET Row : ForceFetch(s, R)
      PROVE  \E R \in SUBSET Row : Reads(s, R)
  BY <1>3, FetchReads DEF Reads
<1>4. ASSUME NEW b \in Batch, CallStep(b) PROVE Continue
  <2>1. /\ call[b].state \in InFlight
        /\ \A c \in Batch \ {b} : call'[c] = call[c]
        /\ \A c \in Batch : call'[c].by = call[c].by /\ call'[c].marks = call[c].marks
    BY <1>4, CallStepMoves
  <2>2. \A s \in Sweep : CallsOf(s)' \subseteq CallsOf(s) BY <2>1 DEF CallsOf
  <2>3. ASSUME NEW s \in Sweep
        PROVE  todo'[s] \subseteq todo[s] /\ (s \in Abandoned => s \in Abandoned')
    <3>1. CASE OutcomeLost(b)
      <4>1. todo'[s] \subseteq todo[s]
        <5>1. PICK kept \in SUBSET todo[call[b].by] : todo' = [todo EXCEPT ![call[b].by] = kept]
          BY <3>1 DEF OutcomeLost
        <5> QED BY <5>1 DEF TypeOK
      <4>2. hands' = [hands EXCEPT ![call[b].by] = @ - 1] BY <3>1 DEF OutcomeLost
      <4>3. hands[s] \in Nat /\ hands'[s] \in {hands[s], hands[s] - 1}
        BY <4>2, HandsIsPositive DEF TypeOK
      <4> QED BY <4>1, <4>3, HandsIsPositive DEF Abandoned
    <3>2. CASE ~OutcomeLost(b)
      <4>1. todo' = todo /\ hands' = hands
        BY <1>4, <3>2 DEF CallStep, VendorAccept, VendorRefuse, CallFails, OutcomeSent, OutcomeError,
                          CommitOutcome
      <4> QED BY <4>1 DEF Abandoned
    <3> QED BY <3>1, <3>2
  <2> QED BY <2>1, <2>2, <2>3 DEF Continue
<1>5. ASSUME NEW b \in Batch,
             \/ \E r \in Row : CallbackLine(b, r)
             \/ \E literal \in Literal : CallbackBatch(b, literal)
      PROVE  Continue
  BY <1>1, <1>5 DEF CallbackLine, CallbackBatch
<1>6. CASE UNCHANGED vars BY <1>1, <1>6 DEF vars
<1> QED BY <1>2, <1>3, <1>4, <1>5, <1>6 DEF Next, Sweep

(* A sweep has a row in one place: in one call or still to do.             *)
InOnePlace(s) ==
  /\ \A i, j \in todo[s] : i.row = j.row => i = j
  /\ \A b \in CallsOf(s) : \A i \in call[b].marks, j \in todo[s] : i.row # j.row
  /\ \A b, c \in CallsOf(s) : b # c => \A i \in call[b].marks, j \in call[c].marks : i.row # j.row

(* The supervisor's guard: of two sweeps of the cron one rests or has been *)
(* ended by an exception.                                                  *)
OneSweeps ==
  \A c, d \in Cron : c # d => Resting(c) \/ Resting(d) \/ c \in Abandoned \/ d \in Abandoned

SweepInv == (\A s \in Sweep : InOnePlace(s)) /\ OneSweeps

LEMMA SendInPlaces ==
  ASSUME TypeInv, NEW s \in Sweep, NEW C \in SUBSET todo[s], Send(s, C)
  PROVE  /\ CallsOf(s)' = CallsOf(s) \cup {Fresh} /\ Fresh \notin CallsOf(s)
         /\ call'[Fresh].marks = C
         /\ todo'[s] = todo[s] \ C /\ C # {}
         /\ \A b \in Batch \ {Fresh} : call'[b] = call[b]
         /\ \A t \in Sweep \ {s} : CallsOf(t)' = CallsOf(t) /\ todo'[t] = todo[t]
         /\ Fresh \notin CallsOf(s) /\ \A t \in Sweep : Fresh \notin CallsOf(t)
         /\ Abandoned' = Abandoned
<1>1. /\ Fresh \in Batch /\ call[Fresh].state = "unused"
      /\ call'[Fresh] = Outgoing(s, C)
      /\ \A c \in Batch \ {Fresh} : call'[c] = call[c]
  BY SendAddsCall DEF TypeInv
<1>2. \A t \in Sweep : Fresh \notin CallsOf(t) BY <1>1 DEF CallsOf, InFlight
<1>3. call'[Fresh].state = "sent" /\ call'[Fresh].by = s /\ call'[Fresh].marks = C
  BY <1>1 DEF Outgoing
<1>4. CallsOf(s)' = CallsOf(s) \cup {Fresh} BY <1>1, <1>3 DEF CallsOf, InFlight
<1>5. \A t \in Sweep \ {s} : CallsOf(t)' = CallsOf(t) BY <1>1, <1>2, <1>3 DEF CallsOf
<1>6. todo'[s] = todo[s] \ C /\ \A t \in Sweep \ {s} : todo'[t] = todo[t]
  BY DEF Send, TypeInv, TypeOK
<1>7. Abandoned' = Abandoned /\ C # {} BY DEF Send, Abandoned, Chunk
<1> QED BY <1>1, <1>2, <1>3, <1>4, <1>5, <1>6, <1>7

LEMMA SweepsInductive ==
  ASSUME TypeInv, SweepInv, [Next]_vars
  PROVE  SweepInv'
<1> USE DEF SweepInv
<1>1. ASSUME NEW s \in Sweep, NEW R \in SUBSET Row, Reads(s, R)
      PROVE  SweepInv'
  <2>1. /\ todo'[s] = Snapshot(R)
        /\ \A t \in Sweep \ {s} : todo'[t] = todo[t] /\ (t \in Abandoned => t \in Abandoned')
        /\ call' = call
    BY <1>1 DEF Reads, TypeInv, TypeOK, Abandoned
  <2>2. \A t \in Sweep : CallsOf(t)' = CallsOf(t) BY <2>1 DEF CallsOf
  <2>3. CallsOf(s) = {} /\ (s \in Cron => \A c \in Cron : Resting(c) \/ c \in Abandoned)
    BY <1>1 DEF Reads, Due, Resting
  <2>4. InOnePlace(s)' BY <2>1, <2>2, <2>3 DEF InOnePlace, Snapshot
  <2>5. ASSUME NEW t \in Sweep \ {s} PROVE InOnePlace(t)' BY <2>1, <2>2 DEF InOnePlace
  <2>6. \A t \in Sweep \ {s} : Resting(t) => Resting(t)' BY <2>1, <2>2 DEF Resting
  <2>7. OneSweeps' BY <2>1, <2>3, <2>6 DEF OneSweeps, Sweep
  <2> QED BY <2>4, <2>5, <2>7
<1>2. ASSUME NEW s \in Sweep, NEW C \in SUBSET todo[s], Send(s, C)
      PROVE  SweepInv'
  <2>1. /\ CallsOf(s)' = CallsOf(s) \cup {Fresh}
        /\ call'[Fresh].marks = C
        /\ todo'[s] = todo[s] \ C /\ C # {}
        /\ \A b \in Batch \ {Fresh} : call'[b] = call[b]
        /\ \A t \in Sweep \ {s} : CallsOf(t)' = CallsOf(t) /\ todo'[t] = todo[t]
        /\ \A t \in Sweep : Fresh \notin CallsOf(t)
        /\ Abandoned' = Abandoned
    BY <1>2, SendInPlaces
  <2>2. \A t \in Sweep : \A b \in CallsOf(t) : b \in Batch /\ call'[b] = call[b]
    BY <2>1 DEF CallsOf
  <2>3. InOnePlace(s)' BY <2>1, <2>2 DEF InOnePlace
  <2>4. \A t \in Sweep \ {s} : InOnePlace(t)' BY <2>1, <2>2 DEF InOnePlace
  <2>5. ~Resting(s) BY <2>1 DEF Resting
  <2>6. \A t \in Sweep \ {s} : Resting(t) => Resting(t)' BY <2>1 DEF Resting
  <2>7. OneSweeps' BY <2>1, <2>5, <2>6 DEF OneSweeps, Sweep
  <2> QED BY <2>3, <2>4, <2>7
<1>3. CASE Crash
  <2>1. todo' = [s \in Sweep |-> {}] BY Zenon, <1>3 DEF Crash
  <2>2. \A s \in Sweep : CallsOf(s)' = {} BY <1>3, CrashEndsCalls DEF CallsOf, TypeInv
  <2>3. \A s \in Sweep : InOnePlace(s)' /\ Resting(s)' BY <2>1, <2>2 DEF InOnePlace, Resting
  <2> QED BY <2>3 DEF OneSweeps, Sweep
<1>4. CASE Continue
  <2>1. ASSUME NEW s \in Sweep
        PROVE  /\ InOnePlace(s)' /\ (Resting(s) => Resting(s)') /\ (s \in Abandoned => s \in Abandoned')
               /\ s \in Sweep
    <3>1. /\ todo'[s] \subseteq todo[s] /\ CallsOf(s)' \subseteq CallsOf(s)
          /\ s \in Abandoned => s \in Abandoned'
      BY <1>4 DEF Continue
    <3>2. \A b \in CallsOf(s)' : call'[b].marks = call[b].marks BY <1>4 DEF Continue, CallsOf
    <3>3. InOnePlace(s) OBVIOUS
    <3>4. InOnePlace(s)' BY <3>1, <3>2, <3>3 DEF InOnePlace
    <3>5. Resting(s) => Resting(s)' BY <3>1 DEF Resting
    <3> QED BY <3>1, <3>4, <3>5
  <2>2. OneSweeps' BY <2>1 DEF OneSweeps, Sweep
  <2> QED BY <2>1, <2>2
<1> QED BY <1>1, <1>2, <1>3, <1>4, SweepsChange

LEMMA SweepInvHolds == Spec => []SweepInv
<1>1. Init => SweepInv
  <2>1. ASSUME Init PROVE \A s \in Sweep : todo[s] = {} /\ CallsOf(s) = {}
    BY <2>1 DEF Init, CallsOf, Unused, InFlight
  <2> QED BY <2>1 DEF SweepInv, InOnePlace, OneSweeps, Resting, Sweep
<1>2. TypeInv /\ SweepInv /\ [Next]_vars => SweepInv' BY SweepsInductive
<1> QED BY <1>1, <1>2, TypeInvHolds, PTL DEF Spec

(* Two calls of the cron never carry the same row to be marked, as long as *)
(* no exception has ended a sweep before its workers: for any number of    *)
(* workers, cron sweeps, force-submits and rows (the supervisor's guard,   *)
(* runWithConcurrency).                                                    *)
THEOREM OneCallForEachRow == Spec => []OneCallPerRow
<1>1. TypeInv /\ SweepInv => OneCallPerRow
  <2> SUFFICES ASSUME TypeInv, SweepInv, NEW b \in Batch, NEW c \in Batch, b # c,
                      {call[b].state, call[c].state} \subseteq InFlight,
                      {call[b].by, call[c].by} \subseteq Cron, Abandoned = {}
               PROVE  RowsOf(call[b].marks) \cap RowsOf(call[c].marks) = {}
    BY DEF OneCallPerRow
  <2>1. b \in CallsOf(call[b].by) /\ c \in CallsOf(call[c].by) BY DEF CallsOf
  <2>2. call[b].by = call[c].by BY <2>1 DEF SweepInv, OneSweeps, Resting
  <2>3. \A i \in call[b].marks, j \in call[c].marks : i.row # j.row
    BY <2>1, <2>2 DEF SweepInv, InOnePlace, Sweep
  <2> QED BY <2>3 DEF RowsOf
<1> QED BY <1>1, TypeInvHolds, SweepInvHolds, PTL

-----------------------------------------------------------------------------
(* Without force-submits, nothing the cron has read becomes 'pending'      *)
(* before it is sent, unless an exception has ended a sweep too early.     *)
ReadIsUnacked ==
  Abandoned = {} => \A s \in Cron : \A i \in todo[s] : status[i.row] # "pending"

LEMMA ReadsInductive ==
  ASSUME Manual = {}, TypeInv, SweepInv, ReadIsUnacked, [Next]_vars
  PROVE  ReadIsUnacked'
<1> SUFFICES ASSUME Abandoned' = {}, NEW s \in Cron, NEW i \in todo'[s], status'[i.row] = "pending"
             PROVE  FALSE
  BY DEF ReadIsUnacked
<1> USE DEF SweepInv
<1>1. s \in Sweep BY DEF Sweep
<1>2. ASSUME NEW t \in Sweep, NEW R \in SUBSET Row, Reads(t, R) PROVE FALSE
  <2>1. /\ todo'[t] = Snapshot(R) /\ status' = status /\ R = Eligible
        /\ \A x \in Sweep \ {t} : todo'[x] = todo[x] /\ hands'[x] = hands[x]
    BY <1>2 DEF Reads, TypeInv, TypeOK, rowVars
  <2>2. CASE s = t
    <3>1. i.row \in Eligible BY <2>1, <2>2 DEF Snapshot
    <3> QED BY <2>1, <3>1 DEF Eligible, Sendable
  <2>3. CASE s # t
    <3>1. i \in todo[s] /\ ~Resting(s) BY <1>1, <2>1, <2>3 DEF Resting
    <3>2. s \in Abandoned BY <1>2, <3>1 DEF Reads, Due, Sweep
    <3>3. s \in Abandoned' BY <1>1, <2>1, <2>3, <3>2 DEF Abandoned
    <3> QED BY <3>3
  <2> QED BY <2>2, <2>3
<1>3. ASSUME i \in todo[s], Abandoned = {} PROVE FALSE
  <2>1. i.row \in Row BY <1>1, <1>3 DEF TypeInv, TypeOK, Item
  <2>2. status[i.row] # "pending" BY <1>3 DEF ReadIsUnacked
  <2>3. ~Keeps(i.row) BY <2>2 DEF Keeps
  <2>4. ~Requeued(i.row) BY DEF Requeued, Sendable
  <2>5. ASSUME NEW b \in Batch PROVE ~Resolved(b, i.row) BY DEF Resolved, Literal
  <2>6. PICK b \in Batch : OutcomeOf(b, i.row) BY <2>1, <2>3, <2>4, <2>5, RowChanges
  <2>7. call[b].by \in Cron /\ b \in CallsOf(call[b].by)
    BY <2>6 DEF OutcomeOf, CallsOf, TypeInv, TypeOK, Call, Sweep
  <2>8. call[b].by = s BY <1>3, <2>7 DEF OneSweeps, Resting
  <2>9. PICK j \in call[b].marks : j.row = i.row BY <2>6 DEF OutcomeOf, RowsOf
  <2> QED BY <1>1, <1>3, <2>7, <2>8, <2>9 DEF InOnePlace
<1>4. ASSUME NEW t \in Sweep, NEW C \in SUBSET todo[t], Send(t, C) PROVE FALSE
  <2>1. Abandoned' = Abandoned BY <1>4, SendInPlaces
  <2>2. i \in todo[s] BY <1>1, <1>4, SendInPlaces
  <2> QED BY <1>3, <2>1, <2>2
<1>5. CASE Crash
  <2>1. todo' = [x \in Sweep |-> {}] BY Zenon, <1>5 DEF Crash
  <2> QED BY <1>1, <2>1
<1>6. CASE Continue
  <2>1. i \in todo[s] BY <1>1, <1>6 DEF Continue
  <2>2. \A x \in Sweep : x \in Abandoned => x \in Abandoned' BY <1>6 DEF Continue
  <2>3. Abandoned = {} BY <2>2 DEF Abandoned
  <2> QED BY <1>3, <2>1, <2>3
<1> QED BY <1>2, <1>4, <1>5, <1>6, SweepsChange

(* With the cron alone, no acknowledged row is sent again, as long as no   *)
(* exception has ended a sweep before its workers.  Force-submits are not  *)
(* kept apart from the cron, so there must be none.                        *)
THEOREM AckedRowsRest ==
  ASSUME Manual = {}
  PROVE  Spec => CronNeverResendsAcked
<1>1. Init => ReadIsUnacked BY DEF Init, ReadIsUnacked, Sweep
<1>2. TypeInv /\ SweepInv /\ ReadIsUnacked /\ [Next]_vars => ReadIsUnacked'
  BY ReadsInductive
<1>3. TypeInv /\ CallsSound /\ ReadIsUnacked /\ [Next]_vars =>
        [\A b \in Batch :
           NewCall(b) /\ call'[b].by \in Cron /\ Abandoned = {} =>
             \A r \in RowsOf(call'[b].marks) : status[r] # "pending"]_vars
  <2> SUFFICES ASSUME TypeInv, ReadIsUnacked, [Next]_vars, NEW b \in Batch,
                      NewCall(b), call'[b].by \in Cron, Abandoned = {},
                      NEW r \in RowsOf(call'[b].marks)
               PROVE  status[r] # "pending"
    OBVIOUS
  <2>1. GoesOut(b) BY CallChanges DEF NewCall, MovesOn, InFlight
  <2>2. PICK s \in Sweep : \E C \in SUBSET todo[s] : call'[b] = Outgoing(s, C)
    BY <2>1 DEF GoesOut
  <2>3. PICK C \in SUBSET todo[s] : call'[b] = Outgoing(s, C) BY <2>2
  <2>4. s \in Cron /\ call'[b].marks = C BY <2>3 DEF Outgoing
  <2> QED BY <2>4 DEF ReadIsUnacked, RowsOf
<1>4. SubmissionInv => CallsSound BY DEF SubmissionInv
<1> QED BY <1>1, <1>2, <1>3, <1>4, TypeInvHolds, SweepInvHolds, SubmissionInvHolds, PTL
        DEF Spec, CronNeverResendsAcked

=============================================================================
