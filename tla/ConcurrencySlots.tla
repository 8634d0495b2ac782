---------------------------- MODULE ConcurrencySlots ---------------------------
(***************************************************************************)
(* The in-flight limiter of the gateway: rows of                           *)
(* ai_gateway_concurrency_slots.  A call inserts at most one row, so a row *)
(* is named by its call.  Acquiring holds a transaction-wide advisory lock *)
(* of the scope, so it is one action; releasing is a guarded update by id. *)
(* `slotLapsed' holds the calls whose row has expires_at <= now.           *)
(***************************************************************************)
EXTENDS Integers, FiniteSets

CONSTANTS
  Calls,          \* calls of the gateway
  ScopeOf,        \* scope_key of the calls that are capped; calls without a
                  \* user or without a configured cap are not in its domain
  MaxConcurrent   \* max_concurrent_requests of the policy

ASSUME SlotsAssumption ==
  /\ IsFiniteSet(Calls)
  /\ MaxConcurrent \in Nat \ {0}
  /\ DOMAIN ScopeOf \subseteq Calls

VARIABLES
  slot,        \* [Calls -> SlotStatuses]: status of the call's row
  slotLapsed   \* SUBSET Calls

slotVars == <<slot, slotLapsed>>

SlotStatuses == {"absent", "active", "released", "expired"}
Scopes == { ScopeOf[c] : c \in DOMAIN ScopeOf }

SlotsInit ==
  /\ slot = [c \in Calls |-> "absent"]
  /\ slotLapsed = {}

ActiveIn(s) == { c \in DOMAIN ScopeOf : ScopeOf[c] = s /\ slot[c] = "active" }

\* Mutant of Abandoned: the expires_at condition of the UPDATE is dropped.
AbandonedAny(s) == ActiveIn(s)

(* The rows of the scope that acquire expires before it counts. *)
Abandoned(s) == ActiveIn(s) \cap slotLapsed

HasRoom(s) == Cardinality(ActiveIn(s) \ Abandoned(s)) < MaxConcurrent

(* acquire_gateway_concurrency_slot_v1, acquired *)
AcquireSlot(c) ==
  /\ c \in DOMAIN ScopeOf
  /\ slot[c] = "absent"
  /\ HasRoom(ScopeOf[c])
  /\ slot' = [d \in Calls |-> IF d = c THEN "active"
                              ELSE IF d \in Abandoned(ScopeOf[c]) THEN "expired"
                              ELSE slot[d]]
  /\ UNCHANGED slotLapsed

(* acquire_gateway_concurrency_slot_v1 at the cap: nothing is inserted, the *)
(* expiry of abandoned rows stays.                                          *)
RefuseSlot(c) ==
  /\ c \in DOMAIN ScopeOf
  /\ ~HasRoom(ScopeOf[c])
  /\ slot' = [d \in Calls |-> IF d \in Abandoned(ScopeOf[c]) THEN "expired" ELSE slot[d]]
  /\ UNCHANGED slotLapsed

(* release_gateway_concurrency_slot_v1: a no-op unless the row is active. *)
ReleaseSlot(c) ==
  /\ slot' = [slot EXCEPT ![c] = IF @ = "active" THEN "released" ELSE @]
  /\ UNCHANGED slotLapsed

(* expire_stale_gateway_concurrency_slots_v1, for one row it visits; the    *)
(* repository schedules no caller of it.                                    *)
ExpireSlot(c) ==
  /\ slot[c] = "active"
  /\ c \in slotLapsed
  /\ slot' = [slot EXCEPT ![c] = "expired"]
  /\ UNCHANGED slotLapsed

(* Time passes the row's expires_at. *)
SlotLapses(c) ==
  /\ slot[c] = "active"
  /\ c \notin slotLapsed
  /\ slotLapsed' = slotLapsed \cup {c}
  /\ UNCHANGED slot

-------------------------------------------------------------------------------
(* Arbitrary callers. *)

SlotsNext ==
  \E c \in Calls :
    AcquireSlot(c) \/ RefuseSlot(c) \/ ReleaseSlot(c) \/ ExpireSlot(c) \/ SlotLapses(c)

SlotsSpec == SlotsInit /\ [][SlotsNext]_slotVars

SlotsTypeOK ==
  /\ slot \in [Calls -> SlotStatuses]
  /\ slotLapsed \subseteq Calls

(* A scope never has more active rows than its cap, however acquires,       *)
(* releases and lapsing leases interleave (acquire SQL).                    *)
CapHolds == \A s \in Scopes : Cardinality(ActiveIn(s)) <= MaxConcurrent
===============================================================================
