------------------------------- MODULE Tables -------------------------------
(***************************************************************************)
(* The chain's multi_index tables, as the contracts of this repository use *)
(* them.  A table (one scope of it) is a function whose domain is the set  *)
(* of primary keys in use and whose values are the rows; an insertion      *)
(* extends the domain, an erase shrinks it.  The library itself is not     *)
(* part of the repository.                                                 *)
(*                                                                         *)
(* Total adds up the rows of a table of amounts.  It counts unit coins,    *)
(* one per unit of every row, instead of summing recursively, so that the  *)
(* facts about sums can be proved from the cardinality theorems.           *)
(***************************************************************************)
EXTENDS Integers, FiniteSets, Functions

NoRows == [k \in {} |-> 0]

\* emplace, or modify when the key is in use.
Put(rows, k, row) == [x \in DOMAIN rows \cup {k} |-> IF x = k THEN row ELSE rows[x]]

\* erase
Erase(rows, k) == Restrict(rows, DOMAIN rows \ {k})

\* The amount under key k, zero when there is no such row.
At(rows, k) == IF k \in DOMAIN rows THEN rows[k] ELSE 0

(***************************************************************************)
(* available_primary_key: zero for an empty table, else one more than the  *)
(* largest key.  A freed largest key is handed out again.                  *)
(***************************************************************************)
NextKey(rows) == CHOOSE k \in {0} \cup {j + 1 : j \in DOMAIN rows} :
                    \A j \in DOMAIN rows : j < k

----------------------------------------------------------------------------
\* A table whose keys are in K and whose rows are in V.
IsTable(rows, K, V) == DOMAIN rows \subseteq K /\ rows \in [DOMAIN rows -> V]

Units(rows) == UNION {{k} \X (1..rows[k]) : k \in DOMAIN rows}

Total(rows) == Cardinality(Units(rows))
=============================================================================
