------------------------------ MODULE SweepPlan ------------------------------
(***************************************************************************)
(* What a sweep takes and how it cuts it (tables/write-sweep-query.util.ts,*)
(* table-write-batch.service.ts): the cap of maxRecordsPerPoll by whole    *)
(* groups, the partition by connection, phase and group, the chunks of     *)
(* maxBatchSize, the combined records of collapse.  One sweep runs at a    *)
(* time here, on every small table; what happens to rows meanwhile is the  *)
(* subject of RowSubmission.tla.                                           *)
(*                                                                         *)
(* A row has a key (its connection with the values of groupBy); its        *)
(* group_id is stamped, or NULL in rows from before groupBy was set.  The  *)
(* vendor rejects every call that carries a key of "failing".              *)
(***************************************************************************)
EXTENDS Integers, FiniteSets

CONSTANTS SweptRow,    (* rows; a smaller one has the earlier created_at    *)
          Key,
          Legacy,      (* how many of the oldest rows may have no group_id  *)
          SweepLimit,  (* write.batch.maxRecordsPerPoll                     *)
          ChunkSize    (* min(maxBatchSize, HARD_MAX_BATCH_SIZE)            *)

ASSUME SweepAssumption ==
  /\ SweptRow \subseteq Nat /\ IsFiniteSet(SweptRow)
  /\ Key # {}
  /\ Legacy \subseteq Nat
  /\ SweepLimit \in Nat \ {0}
  /\ ChunkSize \in Nat \ {0}

VARIABLES table,  (* the rows; only their status changes                    *)
          setup,  (* collapse, and the keys the vendor rejects              *)
          sweep,  (* what the sweep has taken, and the selection it is for  *)
          plan,   (* what is left of its partitions, each at the oldest row *)
                  (* it had: the Map, in the order of insertion             *)
          done,   (* rows it has marked                                     *)
          sent    (* the last call: rows it marks, rows whose data it has   *)

sweepVars == <<table, setup, sweep, plan, done, sent>>

SweptStatus == {"queued", "revisado", "pending", "staged", "correcto"}
Table == [SweptRow -> [key : Key, stamped : BOOLEAN, status : SweptStatus]]
Setup == [collapse : BOOLEAN, failing : SUBSET Key]
NoCall == [marks |-> {}, data |-> {}]
NoSweep == [by |-> "none", ids |-> {}, rows |-> {}]

SweepTypeOK ==
  /\ table \in Table
  /\ setup \in Setup
  /\ sweep \in [by : {"none", "cron", "force"}, ids : SUBSET SweptRow, rows : SUBSET SweptRow]
  /\ plan \in [SweptRow -> SUBSET SweptRow]
  /\ done \subseteq SweptRow
  /\ sent \in [marks : SUBSET SweptRow, data : SUBSET SweptRow]

-----------------------------------------------------------------------------
(* The queries.                                                            *)

StatusIn(S) == {r \in SweptRow : table[r].status \in S}
SweptSendable == StatusIn({"queued", "revisado"})

(* coalesce(group_id, id::text). *)
Grp(r) == IF table[r].stamped THEN <<"group", table[r].key>> ELSE <<"row", r>>
GroupOf(r, S) == {x \in S : Grp(x) = Grp(r)}
Oldest(S) == CHOOSE r \in S : \A x \in S : r <= x

(* Rows of the groups up to r's, in the order of their oldest rows: the    *)
(* running sum of the window function.                                     *)
UpTo(r, S) == {x \in S : Oldest(GroupOf(x, S)) <= Oldest(GroupOf(r, S))}

(* Mutation: a plain LIMIT on rows. *)
PlainLimit(S) == {r \in S : Cardinality({x \in S : x <= r}) <= SweepLimit}

(* fetchQueuedRowsCapped. *)
Capped(S) ==
  {r \in S : \/ Cardinality(UpTo(r, S)) <= SweepLimit
             \/ Grp(r) = Grp(Oldest(S))}

(* submitByIds: fetchRowsByIds, then fetchRowsByGroupIds. *)
Selection(ids) ==
  LET free == StatusIn({"queued", "revisado", "pending"})
  IN {r \in free : r \in ids \/ \E x \in ids \cap free :
                     table[x].stamped /\ Grp(x) = Grp(r)}

-----------------------------------------------------------------------------
(* partitionAndSubmit.                                                     *)

SendPhase(r) == IF table[r].status = "revisado" THEN "update" ELSE "create"
Together(r, x) ==
  /\ table[r].key = table[x].key
  /\ table[r].stamped = table[x].stamped
  /\ SendPhase(r) = SendPhase(x)

(* The partitions go in the order of their oldest rows (a force-submit     *)
(* puts the selected rows first; the order of its calls does not matter).  *)
Partition(r, S) == {x \in S : Together(r, x)}
Partitions(S) ==
  [r \in SweptRow |->
     IF r \in S /\ r = Oldest(Partition(r, S)) THEN Partition(r, S) ELSE {}]

(* A partition goes in chunks, or as one combined record.                  *)
Combined(r) == setup.collapse /\ table[r].stamped
FirstOf(S, n) == {r \in S : Cardinality({x \in S : x <= r}) <= n}
Chunk(S) == IF Combined(Oldest(S)) THEN S ELSE FirstOf(S, ChunkSize)

(* fetchGroupMembers, in any status: the data of a combined record. *)
CallData(marks) ==
  IF Combined(Oldest(marks)) THEN GroupOf(Oldest(marks), SweptRow) ELSE marks

Fails(marks) == \E r \in marks : table[r].key \in setup.failing

-----------------------------------------------------------------------------
Blank == [r \in SweptRow |->
  [key |-> CHOOSE k \in Key : TRUE, stamped |-> TRUE, status |-> "staged"]]
NoPlan == [r \in SweptRow |-> {}]

SweepInit ==
  /\ table = Blank
  /\ setup = [collapse |-> FALSE, failing |-> {}]
  /\ sweep = NoSweep /\ plan = NoPlan /\ done = {} /\ sent = NoCall

(* Any table and template: the input of the algorithm.  Rows without a     *)
(* group_id are the oldest ones; 'correcto' is to the queries what         *)
(* 'staged' is; and which of the keys is rejected makes no difference.     *)
Given ==
  /\ table = Blank
  /\ \E key \in [SweptRow -> Key], status \in [SweptRow -> {"queued", "revisado", "staged"}],
        old \in Legacy :
       table' = [r \in SweptRow |-> [key |-> key[r], stamped |-> r > old, status |-> status[r]]]
  /\ setup' \in [collapse : BOOLEAN, failing : {{}, {CHOOSE k \in Key : TRUE}}]
  /\ UNCHANGED <<sweep, plan, done, sent>>

Start(by, ids, rows) ==
  /\ plan = NoPlan
  /\ rows # {}
  /\ sweep' = [by |-> by, ids |-> ids, rows |-> rows]
  /\ plan' = Partitions(rows)
  /\ done' = {}
  /\ UNCHANGED <<table, setup, sent>>

StartSweep == Start("cron", {}, Capped(SweptSendable))
StartForce(ids) == Start("force", ids, Selection(ids))

(* The partition the loop has come to. *)
Current == Oldest({r \in SweptRow : plan[r] # {}})

(* Mutation: a rejected call ends the sweep. *)
MakeCallOrStop ==
  /\ plan # NoPlan
  /\ LET marks == Chunk(plan[Current])
     IN /\ sent' = [marks |-> marks, data |-> CallData(marks)]
        /\ plan' = IF Fails(marks) THEN NoPlan ELSE [plan EXCEPT ![Current] = @ \ marks]
        /\ done' = done \cup marks
        /\ table' = [r \in SweptRow |-> IF r \notin marks THEN table[r] ELSE
             [table[r] EXCEPT !.status = IF Fails(marks) THEN "queued" ELSE "pending"]]
  /\ UNCHANGED <<setup, sweep>>

(* submitGroup and its outcome: 'pending', or 'queued' after a rejection. *)
MakeCall ==
  /\ plan # NoPlan
  /\ LET marks == Chunk(plan[Current])
     IN /\ sent' = [marks |-> marks, data |-> CallData(marks)]
        /\ plan' = [plan EXCEPT ![Current] = @ \ marks]
        /\ done' = done \cup marks
        /\ table' = [r \in SweptRow |-> IF r \notin marks THEN table[r] ELSE
             [table[r] EXCEPT !.status = IF Fails(marks) THEN "queued" ELSE "pending"]]
  /\ UNCHANGED <<setup, sweep>>

SweepNext ==
  \/ Given
  \/ StartSweep
  \/ \E ids \in SUBSET SweptRow : StartForce(ids)
  \/ MakeCall

SweepSpec == SweepInit /\ [][SweepNext]_sweepVars

-----------------------------------------------------------------------------
(* Properties.                                                             *)

Planned == UNION {plan[r] : r \in SweptRow}
JustTaken(by) == sweep.by = by /\ Planned = sweep.rows

(* The cap cuts the queue between groups, at the last place where what is  *)
(* before fits, and never before the first group: the sweep takes the      *)
(* oldest groups, whole, as many as the limit allows and at least one.     *)
CapIsLargestPrefix ==
  JustTaken("cron") =>
    LET S == SweptSendable
        T == sweep.rows
    IN /\ \A r \in T : GroupOf(r, S) \subseteq T
       /\ \A r \in T, x \in S \ T : Oldest(GroupOf(r, S)) < Oldest(GroupOf(x, S))
       /\ Cardinality(T) <= SweepLimit \/ T = GroupOf(Oldest(S), S)
       /\ S # T => LET r == Oldest(S \ T)
                   IN Cardinality(T) + Cardinality(GroupOf(r, S)) > SweepLimit

(* A force-submit sends no group in part: every sibling of a selected row  *)
(* that may be sent goes with it, and nothing that is accepted or staged.  *)
ForceTakesGroups ==
  JustTaken("force") =>
    \A r \in SweptRow :
      r \in sweep.rows <=>
        /\ table[r].status \notin {"correcto", "staged"}
        /\ \E x \in sweep.ids :
             /\ table[x].status \notin {"correcto", "staged"}
             /\ x = r \/ (table[x].stamped /\ table[r].stamped /\ table[x].key = table[r].key)

(* Every row a sweep has taken is marked by exactly one of its calls,      *)
(* whatever the partitions and chunks (partitionAndSubmit, chunkRows).     *)
SweepMarksAllOnce ==
  /\ Planned \cup done = sweep.rows
  /\ Planned \cap done = {}
  /\ \A p, q \in SweptRow : p # q => plan[p] \cap plan[q] = {}

(* A call is for one connection and one group, no larger than the chunk    *)
(* size, except the combined record, which has the whole group.            *)
CallsFit ==
  /\ sent.marks \subseteq sent.data
  /\ \A r, x \in sent.data : table[r].key = table[x].key
  /\ IF sent.marks # {} /\ Combined(Oldest(sent.marks))
     THEN sent.data = GroupOf(Oldest(sent.marks), SweptRow)
     ELSE Cardinality(sent.data) <= ChunkSize

(* The rows that the vendor rejects for ever stay the oldest ones and take *)
(* their part of every cap: the others go in the end if the limit leaves   *)
(* room for their group beside them.                                       *)
Rejected == {r \in SweptRow : table[r].key \in setup.failing
                             /\ table[r].status \notin {"correcto", "staged"}}
RowsGoBesideRejected ==
  \A r \in SweptRow :
    (/\ r \in SweptSendable \ Rejected
     /\ Cardinality(Rejected) + Cardinality(GroupOf(r, SweptRow)) <= SweepLimit)
    ~> r \notin SweptSendable

(* A sweep or a force-submit takes what it may, in whole groups, and every *)
(* row it takes goes in one call that is of its group.                     *)
PlanIsSound == CapIsLargestPrefix /\ ForceTakesGroups /\ SweepMarksAllOnce /\ CallsFit
=============================================================================
