---------------------------- MODULE IdempotencyLocks ---------------------------
(***************************************************************************)
(* The dedupe store of the gateway: one row of                             *)
(* ai_gateway_idempotency_locks per (scope, idempotency key), begun,       *)
(* completed and failed by one SQL statement each.  A row carries a lease; *)
(* `lockLapsed' says that the lease of its last begin has run out.  A      *)
(* begin that takes a failed or lapsed row over keeps the row's id, so a   *)
(* later complete or fail cannot tell which begin it belongs to.           *)
(***************************************************************************)
CONSTANT Operations   \* the (scope, key) pairs that callers deduplicate

VARIABLES
  lock,        \* [Operations -> LockStatuses]: status of the row
  lockLapsed   \* SUBSET Operations: rows with expires_at <= now

lockVars == <<lock, lockLapsed>>

LockStatuses == {"absent", "in_progress", "completed", "failed"}

LocksInit ==
  /\ lock = [o \in Operations |-> "absent"]
  /\ lockLapsed = {}

\* Mutant of Claimable: a row in progress is taken over as well.
ClaimableUnlessCompleted(o) == lock[o] # "completed" \/ o \in lockLapsed

(* The insert succeeds, or the WHERE of ON CONFLICT DO UPDATE holds.  The   *)
(* lease counts from the begin, whatever became of the row since: a         *)
(* completed operation can be begun again once it has lapsed.               *)
Claimable(o) == lock[o] \in {"absent", "failed"} \/ o \in lockLapsed

(* begin_gateway_idempotent_op_v1 with outcome started or reclaimed; with   *)
(* outcome in_progress or completed (~Claimable) nothing changes.           *)
Begin(o) ==
  /\ Claimable(o)
  /\ lock' = [lock EXCEPT ![o] = "in_progress"]
  /\ lockLapsed' = lockLapsed \ {o}

(* complete_ and fail_gateway_idempotent_op_v1: guarded by the row's id and *)
(* its being in progress, and by nothing else.                              *)
Conclude(o, how) ==
  /\ lock' = [lock EXCEPT ![o] = IF @ = "in_progress" THEN how ELSE @]
  /\ UNCHANGED lockLapsed

CompleteOp(o) == Conclude(o, "completed")
FailOp(o) == Conclude(o, "failed")

(* Time passes the row's expires_at (of no consequence to a failed row). *)
LockLapses(o) ==
  /\ lock[o] \in {"in_progress", "completed"}
  /\ o \notin lockLapsed
  /\ lockLapsed' = lockLapsed \cup {o}
  /\ UNCHANGED lock
===============================================================================
