-------------------------- MODULE MCRowSubmission --------------------------
(* A few rows for TLC: all in one group, each in its own, or a pair and one *)
(* apart.                                                                   *)
EXTENDS RowSubmission, TLC

CONSTANT lone

OneGroup == [r \in Row |-> 0]
OwnGroups == [r \in Row |-> r]
PairAndOne == [r \in Row |-> IF r = lone THEN 1 ELSE 0]

Rows == Permutations(Row \ {lone})
=============================================================================
