----------------------------- MODULE BillingEvents -----------------------------
(* How a store subscription and store purchases become a plan and minutes   *)
(* (api/_billing): RevenueCat delivers each event until it is acknowledged, *)
(* in any order and possibly to two handlers at once; the app's own         *)
(* POST /subscription/sync re-reads the store's state and reconciles it     *)
(* into the same table.  One user, whose chain of store transactions has    *)
(* one original_transaction_id.                                             *)
EXTENDS Integers, Sequences, FiniteSets

CONSTANTS
  Deliveries,   \* handlers of the webhook running at once
  MaxEvents,    \* bound: events the store emits
  MaxPeriod,    \* bound: billing periods
  MaxUnrest     \* bound: failed steps and processes that die

ASSUME BillingAssumption ==
  /\ MaxEvents \in Nat /\ MaxPeriod \in Nat \ {0} /\ MaxUnrest \in Nat

Plans == {"low", "high"}          \* by monthly_price_cents
Nothing == "none"
Keys == {"chain"} \cup Plans      \* revenuecat:subscription:<original_transaction_id>
                                  \* and ...:reconcile:<user>:<product>
Types == {"INITIAL_PURCHASE", "RENEWAL", "CANCELLATION", "PRODUCT_CHANGE",
          "EXPIRATION", "NON_RENEWING_PURCHASE"}
Statuses == {"absent", "received", "processed", "ignored", "failed"}
Terminal == {"processed", "ignored"}

VARIABLES
  now,       \* the current billing period
  store,     \* the subscription as the store has it
  event,     \* the events the store emitted; their index is their id
  log,       \* revenuecat_webhook_events.processing_status of each event
  hook,      \* the webhook's handlers
  sync,      \* the handler of POST /subscription/sync
  row,       \* user_plan_assignments of origin 'subscription', by their key
  credited,  \* user_conversation_credits rows of each purchase event
  applied,   \* history: lifecycle events whose upsert has been done
  quiet,     \* history: since it fetched, only the sync moved and none of it failed
  unrest     \* failures so far

billingVars == <<now, store, event, log, hook, sync, row, credited, applied,
                 quiet, unrest>>

NoRow == [plan |-> Nothing, period |-> 0, status |-> Nothing,
          pending |-> Nothing, until |-> 0]
IdleHook == [at |-> "idle", id |-> 0, outcome |-> Nothing]
IdleSync == [at |-> "idle", last |-> [p \in Plans |-> 0], renews |-> FALSE,
             ended |-> {}, plan |-> Nothing, found |-> Nothing, live |-> FALSE,
             expired |-> FALSE]

BillingInit ==
  /\ now = 1
  /\ store = [plan |-> Nothing, last |-> [p \in Plans |-> 0],
              renews |-> FALSE, ended |-> {}, next |-> Nothing]
  /\ event = << >> /\ log = << >>
  /\ hook = [d \in Deliveries |-> IdleHook]
  /\ sync = IdleSync
  /\ row = [k \in Keys |-> NoRow]
  /\ credited = << >>
  /\ applied = {}
  /\ quiet = FALSE
  /\ unrest = 0

-------------------------------------------------------------------------------
(* The store (external).  A period lasts from its number to the next one.   *)
Owned == /\ store.plan \in Plans \ store.ended
         /\ store.last[store.plan] = now

Emit(type, plan, next) ==
  /\ Len(event) < MaxEvents
  /\ event' = Append(event, [type |-> type, plan |-> plan, next |-> next,
                             period |-> IF plan = Nothing THEN now ELSE store'.last[plan]])
  /\ log' = Append(log, "absent")
  /\ credited' = Append(credited, 0)
  /\ quiet' = FALSE
  /\ UNCHANGED <<hook, sync, row, applied, unrest>>

Subscribe(p) ==
  /\ ~Owned
  /\ store' = [store EXCEPT !.plan = p, !.last[p] = now, !.renews = TRUE,
                            !.ended = @ \ {p}, !.next = Nothing]
  /\ UNCHANGED now
  /\ Emit("INITIAL_PURCHASE", p, Nothing)

Unsubscribe ==
  /\ Owned /\ store.renews
  /\ store' = [store EXCEPT !.renews = FALSE]
  /\ UNCHANGED now
  /\ Emit("CANCELLATION", store.plan, Nothing)

ScheduleDowngrade ==
  /\ Owned /\ store.renews /\ store.plan = "high" /\ store.next = Nothing
  /\ store' = [store EXCEPT !.next = "low"]
  /\ UNCHANGED now
  /\ Emit("PRODUCT_CHANGE", "high", "low")

Renew ==
  LET p == IF store.next = Nothing THEN store.plan ELSE store.next IN
  /\ Owned /\ store.renews /\ now < MaxPeriod
  /\ now' = now + 1
  /\ store' = [store EXCEPT !.plan = p, !.last[p] = now + 1, !.next = Nothing,
                            !.ended = @ \ {p}]
  /\ Emit("RENEWAL", p, Nothing)

Lapse ==
  /\ Owned /\ ~store.renews /\ now < MaxPeriod
  /\ now' = now + 1
  /\ store' = [store EXCEPT !.ended = @ \cup {store.plan}]
  /\ Emit("EXPIRATION", store.plan, Nothing)

Refund ==
  /\ Owned
  /\ store' = [store EXCEPT !.ended = @ \cup {store.plan}, !.renews = FALSE, !.next = Nothing]
  /\ UNCHANGED now
  /\ Emit("EXPIRATION", store.plan, Nothing)

BuyMinutes ==
  /\ UNCHANGED <<now, store>>
  /\ Emit("NON_RENEWING_PURCHASE", Nothing, Nothing)

Store == \/ \E p \in Plans : Subscribe(p)
         \/ Unsubscribe \/ ScheduleDowngrade \/ Renew \/ Lapse \/ Refund
         \/ BuyMinutes

-------------------------------------------------------------------------------
(* handleRevenueCatWebhookRoute.                                            *)
HookAt(d, stage) == hook[d].at = stage

MayFail == /\ unrest < MaxUnrest
           /\ unrest' = unrest + 1

\* Mutant of Deliver: an event once received is taken for a duplicate.
DeliverOnce(d, id) ==
  /\ HookAt(d, "idle")
  /\ log[id] = "absent"
  /\ hook' = [hook EXCEPT ![d] = [at |-> "seen", id |-> id, outcome |-> Nothing]]
  /\ UNCHANGED <<now, store, event, log, sync, row, credited, applied, quiet, unrest>>

(* A delivery whose event is in a terminal status is acknowledged as a      *)
(* duplicate, which changes nothing.                                        *)
Deliver(d, id) ==
  /\ HookAt(d, "idle")
  /\ log[id] \notin Terminal
  /\ hook' = [hook EXCEPT ![d] = [at |-> "seen", id |-> id, outcome |-> Nothing]]
  /\ UNCHANGED <<now, store, event, log, sync, row, credited, applied, quiet, unrest>>

(* The insert of a row that exists already is not an error.                 *)
RecordEvent(d) ==
  /\ HookAt(d, "seen")
  /\ log' = [log EXCEPT ![hook[d].id] = IF @ = "absent" THEN "received" ELSE @]
  /\ hook' = [hook EXCEPT ![d].at = "recorded"]
  /\ UNCHANGED <<now, store, event, sync, row, credited, applied, quiet, unrest>>

(* admin_resolve_effective_plan_v1: the plans an active row grants now.     *)
Granted == {row[k].plan : k \in {k \in Keys : row[k].status = "active"
                                              /\ row[k].period = now}}

(* syncSubscriptionFromEvent: one upsert on the key of the chain.           *)
EventIsExpired(e) == e.type = "EXPIRATION" \/ e.period < now

EventPending(e) ==
  CASE EventIsExpired(e) -> [plan |-> Nothing, until |-> 0]
    [] ~EventIsExpired(e) /\ e.type = "CANCELLATION" ->
         [plan |-> row["chain"].pending, until |-> row["chain"].until]
    [] ~EventIsExpired(e) /\ e.type = "PRODUCT_CHANGE" ->
         [plan |-> e.next, until |-> e.period]
    [] OTHER -> [plan |-> Nothing, until |-> 0]

SyncFromEvent(e) ==
  row' = [row EXCEPT !["chain"] =
            [plan |-> e.plan, period |-> e.period,
             status |-> IF EventIsExpired(e) THEN "expired" ELSE "active",
             pending |-> EventPending(e).plan, until |-> EventPending(e).until]]

Finish(d, outcome) ==
  hook' = [hook EXCEPT ![d].at = "confirming", ![d].outcome = outcome]

ProcessLifecycle(d) ==
  LET id == hook[d].id IN
  /\ HookAt(d, "recorded")
  /\ event[id].type # "NON_RENEWING_PURCHASE"
  /\ SyncFromEvent(event[id])
  /\ applied' = applied \cup {id}
  /\ quiet' = FALSE
  /\ Finish(d, "processed")
  /\ UNCHANGED <<now, store, event, log, sync, credited, unrest>>

\* Mutant of ProcessPurchase: a transaction can be credited again.
ProcessPurchaseAgain(d) ==
  LET id == hook[d].id IN
  /\ HookAt(d, "recorded")
  /\ event[id].type = "NON_RENEWING_PURCHASE"
  /\ \/ Granted = {} /\ UNCHANGED credited /\ Finish(d, "ignored")
     \/ /\ Granted # {}
        /\ credited' = [credited EXCEPT ![id] = @ + 1]
        /\ Finish(d, "processed")
  /\ UNCHANGED <<now, store, event, log, sync, row, applied, quiet, unrest>>

(* creditMinutePackagePurchase: a user without a paid plan is on the trial, *)
(* which may not buy minutes; the second insert of a transaction is refused *)
(* by the unique index and counts as done.                                  *)
ProcessPurchase(d) ==
  LET id == hook[d].id IN
  /\ HookAt(d, "recorded")
  /\ event[id].type = "NON_RENEWING_PURCHASE"
  /\ \/ /\ Granted = {}
        /\ UNCHANGED credited
        /\ Finish(d, "ignored")
     \/ /\ Granted # {}
        /\ credited' = [credited EXCEPT ![id] = IF @ = 0 THEN 1 ELSE @]
        /\ Finish(d, "processed")
  /\ UNCHANGED <<now, store, event, log, sync, row, applied, quiet, unrest>>

ProcessFails(d) ==
  /\ HookAt(d, "recorded")
  /\ MayFail
  /\ Finish(d, "failed")
  /\ UNCHANGED <<now, store, event, log, sync, row, credited, applied, quiet>>

(* The outcome is written by event id, whatever the status is by then.      *)
Confirm(d) ==
  /\ HookAt(d, "confirming")
  /\ log' = [log EXCEPT ![hook[d].id] = hook[d].outcome]
  /\ hook' = [hook EXCEPT ![d] = IdleHook]
  /\ UNCHANGED <<now, store, event, sync, row, credited, applied, quiet, unrest>>

HookDies(d) ==
  /\ ~HookAt(d, "idle")
  /\ MayFail
  /\ hook' = [hook EXCEPT ![d] = IdleHook]
  /\ UNCHANGED <<now, store, event, log, sync, row, credited, applied, quiet>>

-------------------------------------------------------------------------------
(* reconcileSubscriptionsFromRevenueCatRest: a snapshot of the products the *)
(* user ever had, then for each a lookup of its row and a write.            *)
Fetch ==
  /\ sync.at = "idle"
  /\ store.plan # Nothing
  /\ \E p \in {q \in Plans : store.last[q] > 0} :
       sync' = [IdleSync EXCEPT !.at = "fetched", !.last = store.last, !.plan = p,
                                !.renews = store.renews, !.ended = store.ended]
  /\ quiet' = TRUE
  /\ UNCHANGED <<now, store, event, log, hook, row, credited, applied, unrest>>

LiveChange(k) == row[k].pending # Nothing /\ row[k].until >= now

\* Mutant of SnapshotExpired: a refund is not looked at.
SnapshotOutOfDate == sync.last[sync.plan] < now

SnapshotExpired == sync.last[sync.plan] < now \/ sync.plan \in sync.ended

(* The (user, plan) row with the latest starts_at, and whether it carries a *)
(* change that is still to come.                                            *)
FindRow ==
  LET rows == {k \in Keys : row[k].plan = sync.plan} IN
  /\ sync.at = "fetched"
  /\ \/ /\ rows = {}
        /\ sync' = [sync EXCEPT !.at = "found", !.found = Nothing, !.live = FALSE,
                                !.expired = SnapshotExpired]
     \/ \E k \in rows :
          /\ \A j \in rows : row[j].period <= row[k].period
          /\ sync' = [sync EXCEPT !.at = "found", !.found = k, !.live = LiveChange(k),
                                  !.expired = SnapshotExpired]
  /\ UNCHANGED <<now, store, event, log, hook, row, credited, applied, quiet, unrest>>

(* The loop over the products, one of which may fail by itself.             *)
NextProduct ==
  LET left == {q \in Plans \ {sync.plan} : sync.last[q] > 0} IN
  IF left = {} THEN sync' = IdleSync
  ELSE \E q \in left : sync' = [sync EXCEPT !.at = "fetched", !.plan = q,
                                           !.last[sync.plan] = 0]

(* The update goes to the row found, by id; without one the insert is keyed *)
(* by the product.                                                          *)
ReconciledKey == IF sync.found = Nothing THEN sync.plan ELSE sync.found

\* Mutant of ClearsPending: a subscription that renews carries no change.
ClearsWhenRenewing == sync.expired \/ sync.renews

ClearsPending == sync.expired \/ (sync.renews /\ ~sync.live)

Reconcile ==
  LET k == ReconciledKey IN
  /\ sync.at = "found"
  /\ row' = [row EXCEPT ![k] =
       [plan |-> IF @.plan = Nothing THEN sync.plan ELSE @.plan,
        period |-> sync.last[sync.plan],
        status |-> IF sync.expired THEN "expired" ELSE "active",
        pending |-> IF ClearsPending THEN Nothing ELSE @.pending,
        until |-> IF ClearsPending THEN 0 ELSE @.until]]
  /\ NextProduct
  /\ UNCHANGED <<now, store, event, log, hook, credited, applied, quiet, unrest>>

SyncFails ==
  /\ sync.at # "idle"
  /\ MayFail
  /\ NextProduct \/ sync' = IdleSync
  /\ quiet' = FALSE
  /\ UNCHANGED <<now, store, event, log, hook, row, credited, applied>>

-------------------------------------------------------------------------------
Process(d) == RecordEvent(d) \/ ProcessLifecycle(d) \/ ProcessPurchase(d) \/ Confirm(d)

Hook(d) == Process(d) \/ ProcessFails(d) \/ HookDies(d)

Delivered(id, crew) == id \in DOMAIN event /\ \E d \in crew : Deliver(d, id)

Sync == Fetch \/ FindRow \/ Reconcile \/ SyncFails

BillingNext ==
  \/ Store
  \/ \E id \in DOMAIN event : Delivered(id, Deliveries)
  \/ \E d \in Deliveries : Hook(d)
  \/ Sync

(* A started handler runs on, and RevenueCat redelivers what it has no 200  *)
(* for.                                                                     *)
BillingFairness ==
  /\ \A d \in Deliveries : WF_billingVars(Process(d))
  /\ \A id \in 1..MaxEvents : WF_billingVars(Delivered(id, Deliveries))

BillingSafety == BillingInit /\ [][BillingNext]_billingVars

BillingSpec == BillingSafety /\ BillingFairness

-------------------------------------------------------------------------------
(* Types of the tables and of the handlers.                                 *)
BillingTypeOK ==
  /\ now \in 1..MaxPeriod
  /\ store \in [plan : Plans \cup {Nothing}, last : [Plans -> 0..MaxPeriod],
                renews : BOOLEAN, ended : SUBSET Plans, next : Plans \cup {Nothing}]
  /\ event \in Seq([type : Types, plan : Plans \cup {Nothing},
                     next : Plans \cup {Nothing}, period : 0..MaxPeriod])
  /\ log \in Seq(Statuses)
  /\ hook \in [Deliveries -> [at : {"idle", "seen", "recorded", "confirming"},
                              id : 0..MaxEvents, outcome : Statuses \cup {Nothing}]]
  /\ sync \in [at : {"idle", "fetched", "found"}, last : [Plans -> 0..MaxPeriod],
               renews : BOOLEAN, ended : SUBSET Plans, plan : Plans \cup {Nothing},
               found : Keys \cup {Nothing}, live : BOOLEAN, expired : BOOLEAN]
  /\ row \in [Keys -> [plan : Plans \cup {Nothing}, period : 0..MaxPeriod,
                       status : {"active", "expired", Nothing},
                       pending : Plans \cup {Nothing}, until : 0..MaxPeriod]]
  /\ credited \in Seq(Nat)
  /\ Len(log) = Len(event) /\ Len(credited) = Len(event)
  /\ applied \subseteq DOMAIN event
  /\ quiet \in BOOLEAN
  /\ unrest \in 0..MaxUnrest

(* However often an event is delivered, to handlers that overlap, fail or   *)
(* die between any two steps, a purchase is credited at most once, and an   *)
(* event logged as processed has had its effect: the credit for a purchase, *)
(* the upsert of the plan for a lifecycle event ("reprocessing is always    *)
(* safe, never a double-effect").                                           *)
ProcessedIsApplied ==
  \A id \in DOMAIN event :
    /\ credited[id] <= 1
    /\ log[id] = "processed" =>
         IF event[id].type = "NON_RENEWING_PURCHASE" THEN credited[id] = 1
                                                     ELSE id \in applied

AllSettled == \A id \in DOMAIN event : log[id] \in Terminal

(* Every event the store emits reaches a terminal status, although handlers *)
(* fail and die and another delivery may write failed over processed.       *)
EveryEventSettles == []<>AllSettled

StorePlan == IF Owned THEN {store.plan} ELSE {}

Rows(p) == {k \in Keys : row[k].plan = p}

(* Whatever order the webhook's events were applied in, a sync during which *)
(* nothing else moves and nothing fails leaves the user with exactly the    *)
(* plan the store says is owned, unless it finds two rows of one plan: the  *)
(* reconcile touches one of them only, and the claim of one assignment per  *)
(* (user, plan) fails when a sync inserts before the first webhook event.   *)
SyncRepairs ==
  [][sync.at = "found" /\ sync'.at = "idle" /\ quiet /\ quiet'
       => Granted' = StorePlan \/ \E p \in Plans : Cardinality(Rows(p)') > 1]_billingVars

(* A sync that still finds the product running never erases a change that   *)
(* is yet to come, when the change was there at its lookup: "REST must      *)
(* never erase it".  A change the webhook schedules between the lookup and  *)
(* the write is erased, for the write names the row by id alone.            *)
ScheduledChangeIsKept ==
  [][\A k \in Keys : sync.at = "found" /\ sync' # sync /\ row' # row
        /\ LiveChange(k) /\ ~sync.expired /\ (sync.found = k => sync.live)
          => row'[k].pending = row[k].pending]_billingVars
===============================================================================
