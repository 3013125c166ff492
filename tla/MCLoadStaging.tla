--------------------------- MODULE MCLoadStaging ---------------------------
(* Small files for TLC: which rows each batch carries, in the shapes that   *)
(* matter (disjoint loads, overlapping loads, a batch without rows).        *)
EXTENDS LoadStaging, TLC

CONSTANTS A, B

Batch(l, i) == [kind |-> "batch", load |-> l, index |-> i]
Event(i) == [kind |-> "event", load |-> NoLoad, index |-> i]

(* One load in two batches that share row 2; a webhook event brings row 2   *)
(* again, as an older copy.                                                 *)
SharedContent == Batch(A, 0) :> {1, 2} @@ Batch(A, 1) :> {2} @@ Event(0) :> {2}
SharedRecency == Batch(A, 0) :> 1 @@ Batch(A, 1) :> 1 @@ Event(0) :> 0
SharedJobs == DOMAIN SharedContent

(* A load of two batches, a later file B that brings row 1 again, and an    *)
(* event that parses to no rows.                                            *)
CrossContent ==
  Batch(A, 0) :> {1} @@ Batch(A, 1) :> {2} @@ Batch(B, 0) :> {1} @@ Event(0) :> {}
CrossRecency ==
  Batch(A, 0) :> 1 @@ Batch(A, 1) :> 1 @@ Batch(B, 0) :> 2 @@ Event(0) :> 0
CrossJobs == DOMAIN CrossContent

(* One load in two batches without common rows. *)
SingleContent == Batch(A, 0) :> {1} @@ Batch(A, 1) :> {2}
SingleRecency == Batch(A, 0) :> 1 @@ Batch(A, 1) :> 1
SingleJobs == DOMAIN SingleContent

(* The same load with a batch that parses to no rows. *)
EmptyContent == Batch(A, 0) :> {1} @@ Batch(A, 1) :> {}
EmptyJobs == DOMAIN EmptyContent

Workers == Permutations(Worker)

Totals == [l \in Load |-> Cardinality({j \in DataJob : j.load = l})]
=============================================================================
