-------------------------------- MODULE Tally ---------------------------------
(***************************************************************************)
(* Sums over finite sets, as the size of a set of units: row x of S        *)
(* contributes the units <<x, 1>> .. <<x, q[x]>>.  A bucket counter of the *)
(* database is compared with the Tally of the rows it is a cache of.       *)
(* Written without recursion so that its lemmas, in UsageLedgerProofs, can *)
(* be proved for every set and every quantity.                             *)
(***************************************************************************)
EXTENDS Integers, FiniteSets

Units(S, q) == UNION { {x} \X (1..q[x]) : x \in S }

Tally(S, q) == Cardinality(Units(S, q))

(* GREATEST(0, n) and LEAST(a, b) of the SQL functions. *)
NonNegative(n) == IF n < 0 THEN 0 ELSE n

Least(a, b) == IF a < b THEN a ELSE b
===============================================================================
