---------------------------- MODULE MCUsageLedger -----------------------------
(* UsageLedger with two rows that draw on two windows: a quota window that  *)
(* is partly used before its bucket row exists, and a budget window.        *)
EXTENDS UsageLedger, TLC

CONSTANTS k1, k2, quota, budget

MCKeys == {k1, k2}
MCBuckets == {quota, budget}
MCLimit == quota :> 3 @@ budget :> 2
MCBackfill == quota :> 1 @@ budget :> 0
MCSymmetry == Permutations(MCKeys)

===============================================================================
