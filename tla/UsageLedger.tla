------------------------------ MODULE UsageLedger ------------------------------
(***************************************************************************)
(* The reservation ledger of the AI gateway: the rows of                   *)
(* usage_reservations with their items and budget links, and the counters  *)
(* of ai_gateway_quota_buckets / ai_gateway_budget_buckets they move.      *)
(* Each SQL function is one transaction that locks the rows it touches     *)
(* (FOR UPDATE), so each is one action; the callers are arbitrary here:    *)
(* they may call any function on any row, in any order, any number of      *)
(* times.  EnforcedPipeline adds the real callers.                         *)
(*                                                                         *)
(* A quota bucket and a budget bucket are treated alike: both are a window *)
(* with a limit, a committed and a reserved amount.  A call that a         *)
(* function ignores (no pending row) leaves every variable unchanged.      *)
(***************************************************************************)
EXTENDS Tally

CONSTANTS
  Keys,       \* idempotency keys; the column is UNIQUE, so a key names a row
  Buckets,    \* quota windows of a user and feature, budget windows of a scope
  Limit,      \* [Buckets -> Nat]: limit_quantity / limit_usd of the window
  Backfill,   \* [Buckets -> Nat]: committed when the bucket row is created
  MaxQty      \* bound: largest quantity of one estimate or of one real usage

ASSUME LedgerAssumption ==
  /\ IsFiniteSet(Keys)
  /\ MaxQty \in Nat
  /\ Limit \in [Buckets -> Nat]
  /\ Backfill \in [Buckets -> Nat]

VARIABLES
  status,      \* [Keys -> Statuses]: usage_reservations.status
  items,       \* [Keys -> SUBSET Buckets]: buckets a row has an item or link in
  reserved,    \* [Keys -> [Buckets -> 0..MaxQty]]: reserved_quantity of the items
  consumed,    \* [Keys -> [Buckets -> 0..MaxQty]]: consumed_quantity of the items
  settled,     \* [Keys -> BOOLEAN]: a commit has set usage_event_id and the consumption
  reservedQty, \* [Buckets -> Nat]: reserved_quantity of the bucket
  committedQty \* [Buckets -> Nat]: committed_quantity of the bucket

rowVars == <<status, items, reserved, consumed, settled>>
ledgerVars == <<status, items, reserved, consumed, settled, reservedQty, committedQty>>

Statuses ==
  {"absent", "pending", "committed", "released", "expired", "reconciliation_required"}

Quantities == [Buckets -> 0..MaxQty]
Nothing == [b \in Buckets |-> 0]

LedgerInit ==
  /\ status = [k \in Keys |-> "absent"]
  /\ items = [k \in Keys |-> {}]
  /\ reserved = [k \in Keys |-> Nothing]
  /\ consumed = [k \in Keys |-> Nothing]
  /\ settled = [k \in Keys |-> FALSE]
  /\ reservedQty = [b \in Buckets |-> 0]
  /\ committedQty = Backfill

-------------------------------------------------------------------------------
(* reserve_gateway_usage_v1 *)

\* Mutant of Available: only what is already committed counts.
AvailableIgnoringReserved(b) == NonNegative(Limit[b] - committedQty[b])

Available(b) == NonNegative(Limit[b] - committedQty[b] - reservedQty[b])

(* Phases 1 and 2: every bucket is locked and validated before any is moved. *)
Fits(bs, ask) == \A b \in bs : ask[b] <= Available(b)

\* Mutant of Reserve: a retry revives the row its first attempt released.
ReserveReviving(k, bs, ask) ==
  /\ status[k] \in {"absent", "released"}
  /\ Fits(bs, ask)
  /\ status' = [status EXCEPT ![k] = "pending"]
  /\ items' = [items EXCEPT ![k] = bs]
  /\ reserved' = [reserved EXCEPT ![k] = [b \in Buckets |-> IF b \in bs THEN ask[b] ELSE 0]]
  /\ reservedQty' = [b \in Buckets |-> reservedQty[b] + reserved'[k][b]]
  /\ UNCHANGED <<consumed, settled, committedQty>>

(* Phase 3.  An existing row of the same key is returned as it stands, so   *)
(* the row is only ever created once.                                       *)
Reserve(k, bs, ask) ==
  /\ status[k] = "absent"
  /\ Fits(bs, ask)
  /\ status' = [status EXCEPT ![k] = "pending"]
  /\ items' = [items EXCEPT ![k] = bs]
  /\ reserved' = [reserved EXCEPT ![k] = [b \in Buckets |-> IF b \in bs THEN ask[b] ELSE 0]]
  /\ reservedQty' = [b \in Buckets |-> reservedQty[b] + reserved'[k][b]]
  /\ UNCHANGED <<consumed, settled, committedQty>>

\* Mutant of Finalisable: no check that the row is still pending.
FinalisableAny(k) == status[k] # "absent"

\* Mutant of Finalisable: a row parked for reconciliation can still be finalised.
FinalisableParked(k) == status[k] \in {"pending", "reconciliation_required"}

(* The row lock every finalising function starts with: only a pending row   *)
(* is found, on any other the function returns without effect.              *)
Finalisable(k) == status[k] = "pending"

(* The reserved amounts of row k leave the buckets. *)
GiveBackReserved(k) ==
  reservedQty' = [b \in Buckets |->
    IF b \in items[k] THEN NonNegative(reservedQty[b] - reserved[k][b]) ELSE reservedQty[b]]

\* Mutant of Counted: usage beyond the estimate is dropped.
CountedUpToEstimate(k, b, actual) ==
  IF b \in items[k] THEN Least(actual[b], reserved[k][b]) ELSE 0

\* Mutant of Counted: the bucket is corrected by the estimation error.
CountedAsDifference(k, b, actual) ==
  IF b \in items[k] THEN actual[b] - reserved[k][b] ELSE 0

(* What commit adds to bucket b: the real usage, not the estimate. *)
Counted(k, b, actual) == IF b \in items[k] THEN actual[b] ELSE 0

(* commit_gateway_reservation_v1 *)
Commit(k, actual) ==
  /\ Finalisable(k)
  /\ status' = [status EXCEPT ![k] = "committed"]
  /\ consumed' = [consumed EXCEPT ![k] = [b \in Buckets |-> IF b \in items[k] THEN actual[b] ELSE 0]]
  /\ settled' = [settled EXCEPT ![k] = TRUE]
  /\ GiveBackReserved(k)
  /\ committedQty' = [b \in Buckets |-> committedQty[b] + Counted(k, b, actual)]
  /\ UNCHANGED <<items, reserved>>

(* release_gateway_reservation_v1 *)
Release(k) ==
  /\ Finalisable(k)
  /\ status' = [status EXCEPT ![k] = "released"]
  /\ GiveBackReserved(k)
  /\ UNCHANGED <<items, reserved, consumed, settled, committedQty>>

(* expire_stale_gateway_reservations_v1, for one of the rows it visits *)
Expire(k) ==
  /\ Finalisable(k)
  /\ status' = [status EXCEPT ![k] = "expired"]
  /\ GiveBackReserved(k)
  /\ UNCHANGED <<items, reserved, consumed, settled, committedQty>>

(* mark_gateway_reservation_reconciliation_required_v1: no bucket moves. *)
MarkReconciliationRequired(k) ==
  /\ status[k] \in {"pending", "committed"}
  /\ status' = [status EXCEPT ![k] = "reconciliation_required"]
  /\ UNCHANGED <<items, reserved, consumed, settled, reservedQty, committedQty>>

(* The calls as a client makes them: the function returns without effect    *)
(* when it finds no row it may act on.                                      *)
CommitCall(k, actual) == Commit(k, actual) \/ (~Finalisable(k) /\ UNCHANGED ledgerVars)
ReleaseCall(k) == Release(k) \/ (~Finalisable(k) /\ UNCHANGED ledgerVars)
MarkCall(k) ==
  \/ MarkReconciliationRequired(k)
  \/ status[k] \notin {"pending", "committed"} /\ UNCHANGED ledgerVars

LedgerNext ==
  \E k \in Keys :
    \/ \E bs \in SUBSET Buckets, ask \in Quantities : Reserve(k, bs, ask)
    \/ \E actual \in Quantities : Commit(k, actual)
    \/ Release(k)
    \/ Expire(k)
    \/ MarkReconciliationRequired(k)

LedgerSpec == LedgerInit /\ [][LedgerNext]_ledgerVars

-------------------------------------------------------------------------------
(* Properties *)

LedgerTypeOK ==
  /\ status \in [Keys -> Statuses]
  /\ items \in [Keys -> SUBSET Buckets]
  /\ reserved \in [Keys -> Quantities]
  /\ consumed \in [Keys -> Quantities]
  /\ settled \in [Keys -> BOOLEAN]
  /\ reservedQty \in [Buckets -> Nat]
  /\ committedQty \in [Buckets -> Nat]

(* Rows whose estimate still occupies the buckets: pending ones, and those  *)
(* parked for manual reconciliation before anything was consumed.           *)
Holding ==
  { k \in Keys : status[k] \in {"pending", "reconciliation_required"} /\ ~settled[k] }
Settled == { k \in Keys : settled[k] }

ReservedIn(b) == [k \in Keys |-> reserved[k][b]]
ConsumedIn(b) == [k \in Keys |-> consumed[k][b]]
(* The part of the real usage the estimate had made room for. *)
CoveredIn(b) == [k \in Keys |-> Least(consumed[k][b], reserved[k][b])]

(* A bucket's reserved counter is exactly the sum of the rows that hold     *)
(* capacity: no sequence of reserve, commit, release, expire and mark calls *)
(* leaks a reservation or gives one back twice, and GREATEST(0, ..) never   *)
(* hides a missing amount (reserve/commit/release/expire SQL).              *)
ReservedIsSumOfHolding ==
  \A b \in Buckets : reservedQty[b] = Tally(Holding, ReservedIn(b))

(* A bucket's committed counter is its backfill plus every real usage,      *)
(* counted once and in full, overage included (commit SQL).                 *)
CommittedIsSumOfSettled ==
  \A b \in Buckets : committedQty[b] = Backfill[b] + Tally(Settled, ConsumedIn(b))

(* What is promised and what was spent within an estimate never exceeds the *)
(* limit, whatever overages were committed: a bucket passes its limit only  *)
(* by overage (reserve SQL, phases 1 and 2).                                *)
WithinLimit ==
  \A b \in Buckets :
    LET promised == Tally(Holding, ReservedIn(b)) + Tally(Settled, CoveredIn(b))
    IN  promised > 0 => Backfill[b] + promised <= Limit[b]

(* A finalised row is never revived, and usage once settled is never        *)
(* rewritten: retries, sweeps and late callers of the same row are no-ops.  *)
FinalisedOnce ==
  [][\A k \in Keys :
       /\ status[k] \in {"released", "expired", "reconciliation_required"} => status'[k] = status[k]
       /\ status[k] = "committed" => status'[k] \in {"committed", "reconciliation_required"}
       /\ settled[k] => settled'[k] /\ consumed'[k] = consumed[k]]_ledgerVars

(* The ledger implements the counter-free pool. *)
PhaseOf ==
  [k \in Keys |->
    CASE status[k] = "absent" -> "free"
      [] k \in Holding -> "held"
      [] settled[k] -> "spent"
      [] OTHER -> "returned"]

Pool == INSTANCE CapacityPool WITH phase <- PhaseOf, asked <- reserved, spent <- consumed

ImplementsPool == Pool!PoolSpec
===============================================================================
