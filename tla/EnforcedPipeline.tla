--------------------------- MODULE EnforcedPipeline ----------------------------
(***************************************************************************)
(* executeEnforcedPipeline: concurrent gateway calls, each on its own      *)
(* serverless instance, over the four stores they share in Postgres: the   *)
(* circuit breaker, the idempotency locks, the reservation ledger and the  *)
(* concurrency slots.  Every awaited round trip is one action, so calls    *)
(* interleave between any two of them; a process may die between any two;  *)
(* a round trip may fail, before or after it took effect; every lease may  *)
(* lapse once its call is over, and the lease of a slow call also while it *)
(* still runs (leases of 120 and 180 s, functions of up to 300 s).  The    *)
(* minute cron that releases expired pending reservations runs beside the  *)
(* calls.                                                                  *)
(*                                                                         *)
(* Entitlement and the rate limit come before the first round trip that    *)
(* matters here and are a nondeterministic denial; so is any other failure *)
(* to get through a gate.                                                  *)
(***************************************************************************)
EXTENDS UsageLedger, IdempotencyLocks, ConcurrencySlots, CircuitBreaker

CONSTANTS
  KeyOf,        \* [Calls -> Keys]: the call's idempotency key; one that is not
                \* in Operations is a fresh UUID, which takes no lock
  Ask,          \* [Calls -> Quantities]: estimatedMetrics and estimated cost
  SlowCalls,    \* calls that may outlive their leases
  FaultyCalls,  \* bound: calls whose round trips may fail
  MortalCalls   \* bound: calls whose process may die

ASSUME PipelineAssumption ==
  /\ Operations \subseteq Keys
  /\ KeyOf \in [Calls -> Keys]
  /\ \A c, d \in Calls : c # d /\ KeyOf[c] = KeyOf[d] => KeyOf[c] \in Operations
  /\ Ask \in [Calls -> Quantities]

VARIABLES
  pc,         \* [Calls -> Stages]: the round trip the call awaits next
  outcome,    \* [Calls -> Outcomes]: how the call ends
  tracked,    \* calls whose usage event was opened (eventId is defined)
  used,       \* [Calls -> Quantities]: usage the commit is given; the estimate
              \* where the provider's answer does not say
  broken,     \* calls one of whose round trips failed or whose process died
  author,     \* [Keys -> SUBSET Calls]: the call whose reserve made the row
  lastBegin,  \* [Operations -> SUBSET Calls]: the call that last began it
  rowLapsed   \* SUBSET Keys: reservations with expires_at < now

callVars == <<pc, outcome, tracked, used>>
ghostVars == <<author, lastBegin>>
pipelineVars == <<ledgerVars, lockVars, slotVars, breakerVars, callVars, broken, ghostVars, rowLapsed>>

Outcomes == {"none", "denied", "errored", "answered"}
Stages ==
  {"breakerGate", "begin", "reserve", "acquire", "startEvent", "invoke", "commit", "park",
   "releaseRow", "failLock", "completeLock", "record", "freeSlot", "done", "dead"}

Row(c) == KeyOf[c]
Deduplicated(c) == KeyOf[c] \in Operations
Capped(c) == c \in DOMAIN ScopeOf
Asked(c) == { b \in Buckets : Ask[c][b] > 0 }

PipelineInit ==
  /\ LedgerInit /\ LocksInit /\ SlotsInit /\ BreakerInit
  /\ pc = [c \in Calls |-> "breakerGate"]
  /\ outcome = [c \in Calls |-> "none"]
  /\ tracked = {}
  /\ used = [c \in Calls |-> Nothing]
  /\ broken = {}
  /\ author = [k \in Keys |-> {}]
  /\ lastBegin = [o \in Operations |-> {}]
  /\ rowLapsed = {}

-------------------------------------------------------------------------------
(* Moving a call from one round trip to the next *)

Goto(c, stage) ==
  /\ pc' = [pc EXCEPT ![c] = stage]
  /\ UNCHANGED <<outcome, tracked, used>>

End(c, how, stage) ==
  /\ pc' = [pc EXCEPT ![c] = stage]
  /\ outcome' = [outcome EXCEPT ![c] = how]
  /\ UNCHANGED <<tracked, used>>

(* A round trip of c goes well, or it throws.  What throws may have been    *)
(* applied all the same: a faulty step takes Effect or nothing.             *)
Fine(c) == UNCHANGED broken
Breaks(c) == c \in FaultyCalls /\ broken' = broken \cup {c}

LedgerStays == UNCHANGED <<ledgerVars, author, rowLapsed>>
LockStays == UNCHANGED <<lockVars, lastBegin>>

-------------------------------------------------------------------------------
(* Gates *)

(* The breaker admits the call, or turns it away.  Entitlement may deny     *)
(* before it was asked, the rate limit right after it admitted: such a      *)
(* denial has nothing to give back, and does not give back a probe.         *)
PassBreaker(c) ==
  /\ pc[c] = "breakerGate"
  /\ \/ Admit /\ Goto(c, "begin")
     \/ Turnaway /\ End(c, "denied", "done")
     \/ (UNCHANGED breakerVars \/ Admit) /\ End(c, "denied", "done")
  /\ UNCHANGED <<slotVars, broken>> /\ LedgerStays /\ LockStays

BeginOperation(c) ==
  /\ pc[c] = "begin"
  /\ \/ ~Deduplicated(c) /\ Goto(c, "reserve") /\ LockStays /\ Fine(c)
     \/ /\ Deduplicated(c)
        /\ Begin(KeyOf[c])
        /\ lastBegin' = [lastBegin EXCEPT ![KeyOf[c]] = {c}]
        /\ \/ Goto(c, "reserve") /\ Fine(c)
           \/ End(c, "denied", "done") /\ Breaks(c)
     \/ /\ Deduplicated(c)
        /\ End(c, "denied", "done")
        /\ LockStays
        /\ (~Claimable(KeyOf[c]) /\ Fine(c)) \/ Breaks(c)
  /\ UNCHANGED <<slotVars, breakerVars>> /\ LedgerStays

(* A row of the same key is returned as it stands, whatever its status.     *)
ReserveCapacity(c) ==
  /\ pc[c] = "reserve"
  /\ \/ /\ Reserve(Row(c), Asked(c), Ask[c])
        /\ author' = [author EXCEPT ![Row(c)] = {c}]
        /\ \/ Goto(c, "acquire") /\ Fine(c)
           \/ End(c, "denied", "failLock") /\ Breaks(c)
     \/ /\ status[Row(c)] # "absent"
        /\ UNCHANGED <<ledgerVars, author>>
        /\ Goto(c, "acquire") /\ Fine(c)
     \/ /\ UNCHANGED <<ledgerVars, author>>
        /\ End(c, "denied", "failLock")
        /\ (status[Row(c)] = "absent" /\ ~Fits(Asked(c), Ask[c]) /\ Fine(c)) \/ Breaks(c)
  /\ UNCHANGED <<slotVars, breakerVars, rowLapsed>> /\ LockStays

\* Mutant of Refused: a denied slot gives the lock back but not the reservation.
RefusedForgettingRow(c) == End(c, "denied", "failLock")

(* No slot: the reservation and the lock are unwound. *)
Refused(c) == End(c, "denied", "releaseRow")

AcquireConcurrency(c) ==
  /\ pc[c] = "acquire"
  /\ \/ ~Capped(c) /\ UNCHANGED slotVars /\ Goto(c, "startEvent") /\ Fine(c)
     \/ AcquireSlot(c) /\ Goto(c, "startEvent") /\ Fine(c)
     \/ RefuseSlot(c) /\ Refused(c) /\ Fine(c)
     \/ Capped(c) /\ (AcquireSlot(c) \/ UNCHANGED slotVars) /\ Refused(c) /\ Breaks(c)
  /\ UNCHANGED breakerVars /\ LedgerStays /\ LockStays

-------------------------------------------------------------------------------
(* The provider call *)

StartEvent(c) ==
  /\ pc[c] = "startEvent"
  /\ pc' = [pc EXCEPT ![c] = "invoke"]
  /\ \/ tracked' = tracked \cup {c} /\ Fine(c)
     \/ UNCHANGED tracked /\ Breaks(c)
  /\ UNCHANGED <<outcome, used, slotVars, breakerVars>> /\ LedgerStays /\ LockStays

ProviderErrs(c) ==
  /\ pc[c] = "invoke"
  /\ End(c, "errored", "releaseRow")
  /\ UNCHANGED <<slotVars, breakerVars, broken>> /\ LedgerStays /\ LockStays

(* Without an event nothing is measured and the reservation is not settled. *)
ProviderAnswers(c) ==
  /\ pc[c] = "invoke"
  /\ \E actual \in Quantities : used' = [used EXCEPT ![c] = actual]
  /\ pc' = [pc EXCEPT ![c] = IF c \in tracked THEN "commit" ELSE "completeLock"]
  /\ outcome' = [outcome EXCEPT ![c] = "answered"]
  /\ UNCHANGED <<tracked, slotVars, breakerVars, broken>> /\ LedgerStays /\ LockStays

-------------------------------------------------------------------------------
(* Settling *)

(* completeEvent or insertMetrics throwing skips the commit; the commit     *)
(* throwing parks the row.                                                  *)
CommitUsage(c) ==
  /\ pc[c] = "commit"
  /\ \/ CommitCall(Row(c), used[c]) /\ Goto(c, "completeLock") /\ Fine(c)
     \/ UNCHANGED ledgerVars /\ Goto(c, "completeLock") /\ Breaks(c)
     \/ /\ CommitCall(Row(c), used[c]) \/ UNCHANGED ledgerVars
        /\ Goto(c, "park") /\ Breaks(c)
  /\ UNCHANGED <<slotVars, breakerVars, author, rowLapsed>> /\ LockStays

ParkReservation(c) ==
  /\ pc[c] = "park"
  /\ \/ MarkCall(Row(c)) /\ Fine(c)
     \/ UNCHANGED ledgerVars /\ Breaks(c)
  /\ Goto(c, "completeLock")
  /\ UNCHANGED <<slotVars, breakerVars, author, rowLapsed>> /\ LockStays

ReleaseReservation(c) ==
  /\ pc[c] = "releaseRow"
  /\ \/ ReleaseCall(Row(c)) /\ Fine(c)
     \/ UNCHANGED ledgerVars /\ Breaks(c)
  /\ Goto(c, "failLock")
  /\ UNCHANGED <<slotVars, breakerVars, author, rowLapsed>> /\ LockStays

ConcludeOperation(c, stage, how, next) ==
  /\ pc[c] = stage
  /\ \/ Deduplicated(c) /\ Conclude(KeyOf[c], how) /\ Fine(c)
     \/ ~Deduplicated(c) /\ UNCHANGED lockVars /\ Fine(c)
     \/ Deduplicated(c) /\ UNCHANGED lockVars /\ Breaks(c)
  /\ Goto(c, next)
  /\ UNCHANGED <<slotVars, breakerVars, lastBegin>> /\ LedgerStays

FailOperation(c) ==
  ConcludeOperation(c, "failLock", "failed", IF outcome[c] = "denied" THEN "done" ELSE "record")

CompleteOperation(c) == ConcludeOperation(c, "completeLock", "completed", "record")

ReportOutcome(c) ==
  /\ pc[c] = "record"
  /\ \/ RecordOutcome(outcome[c] = "answered") /\ Fine(c)
     \/ UNCHANGED breakerVars /\ Breaks(c)
  /\ Goto(c, "freeSlot")
  /\ UNCHANGED slotVars /\ LedgerStays /\ LockStays

FreeSlot(c) ==
  /\ pc[c] = "freeSlot"
  /\ \/ Capped(c) /\ ReleaseSlot(c) /\ Fine(c)
     \/ ~Capped(c) /\ UNCHANGED slotVars /\ Fine(c)
     \/ Capped(c) /\ UNCHANGED slotVars /\ Breaks(c)
  /\ Goto(c, "done")
  /\ UNCHANGED breakerVars /\ LedgerStays /\ LockStays

CallStep(c) ==
  \/ PassBreaker(c) \/ BeginOperation(c) \/ ReserveCapacity(c) \/ AcquireConcurrency(c)
  \/ StartEvent(c) \/ ProviderErrs(c) \/ ProviderAnswers(c)
  \/ CommitUsage(c) \/ ParkReservation(c) \/ ReleaseReservation(c)
  \/ FailOperation(c) \/ CompleteOperation(c) \/ ReportOutcome(c) \/ FreeSlot(c)

-------------------------------------------------------------------------------
(* Around the calls: death, time and the cron *)

Over(c) == pc[c] \in {"done", "dead"}

Die(c) ==
  /\ c \in MortalCalls
  /\ ~Over(c)
  /\ pc[c] # "breakerGate"
  /\ Goto(c, "dead")
  /\ broken' = broken \cup {c}
  /\ UNCHANGED <<slotVars, breakerVars>> /\ LedgerStays /\ LockStays

MayOutlive(holders) == \A c \in holders : Over(c) \/ c \in SlowCalls

RowLapses(k) ==
  /\ status[k] = "pending" /\ k \notin rowLapsed
  /\ MayOutlive(author[k])
  /\ rowLapsed' = rowLapsed \cup {k}
  /\ UNCHANGED <<ledgerVars, lockVars, slotVars, breakerVars, callVars, broken, ghostVars>>

LeaseLapses ==
  /\ \/ \E o \in Operations : MayOutlive(lastBegin[o]) /\ LockLapses(o) /\ UNCHANGED slotVars
     \/ \E c \in Calls : MayOutlive({c}) /\ SlotLapses(c) /\ UNCHANGED lockVars
  /\ UNCHANGED <<ledgerVars, breakerVars, callVars, broken, ghostVars, rowLapsed>>

\* Mutant of SweepRow: the features with deduplicated calls are skipped too.
SweepRowUnlessDeduplicated(k) ==
  /\ k \in rowLapsed \ Operations
  /\ Release(k)
  /\ UNCHANGED <<lockVars, slotVars, breakerVars, callVars, broken, ghostVars, rowLapsed>>

(* releaseExpiredPendingReservations, for one row it lists *)
SweepRow(k) ==
  /\ k \in rowLapsed
  /\ Release(k)
  /\ UNCHANGED <<lockVars, slotVars, breakerVars, callVars, broken, ghostVars, rowLapsed>>

BreakerCools ==
  /\ CooldownElapses
  /\ UNCHANGED <<ledgerVars, lockVars, slotVars, callVars, broken, ghostVars, rowLapsed>>

PipelineNext ==
  \/ \E c \in Calls : CallStep(c) \/ Die(c)
  \/ \E k \in Keys : RowLapses(k) \/ SweepRow(k)
  \/ LeaseLapses
  \/ BreakerCools

(* A call runs on to its end or its process is killed; time passes; the     *)
(* cron fires every minute.                                                 *)
PipelineFairness ==
  /\ \A c \in Calls : WF_pipelineVars(CallStep(c))
  /\ \A k \in Keys : WF_pipelineVars(RowLapses(k)) /\ WF_pipelineVars(SweepRow(k))

PipelineSpec == PipelineInit /\ [][PipelineNext]_pipelineVars /\ PipelineFairness

-------------------------------------------------------------------------------
(* Properties *)

PipelineTypeOK ==
  /\ LedgerTypeOK /\ SlotsTypeOK /\ BreakerTypeOK
  /\ lock \in [Operations -> LockStatuses] /\ lockLapsed \subseteq Operations
  /\ pc \in [Calls -> Stages] /\ outcome \in [Calls -> Outcomes]
  /\ used \in [Calls -> Quantities] /\ tracked \subseteq Calls /\ broken \subseteq Calls
  /\ author \in [Keys -> SUBSET Calls] /\ lastBegin \in [Operations -> SUBSET Calls]
  /\ rowLapsed \subseteq Keys

(* Between its begin and its complete or fail a call owns its operation.    *)
Owns(c) ==
  /\ Deduplicated(c)
  /\ pc[c] \in {"reserve", "acquire", "startEvent", "invoke", "commit", "park",
                "releaseRow", "failLock", "completeLock"}

(* Two calls with the same key are never at work together, unless a call    *)
(* with that key has outlived its lease (dedupe.ts; begin SQL): a double    *)
(* click, a retry after a failure, a death or a lost reply does not run the *)
(* operation twice at once.                                                 *)
OneOwnerPerOperation ==
  \A c, d \in Calls :
    c # d /\ KeyOf[c] = KeyOf[d] /\ Owns(c) /\ Owns(d) =>
      \E e \in SlowCalls : KeyOf[e] = KeyOf[c]

(* The provider calls of a user in flight at one moment do not exceed the   *)
(* cap, except those that have outlived their slot (acquire SQL and the     *)
(* order of acquire, invoke and release in the pipeline).                   *)
InFlight(s) ==
  { c \in DOMAIN ScopeOf : ScopeOf[c] = s /\ pc[c] \in {"startEvent", "invoke"} }

InFlightWithinCap ==
  \A s \in Scopes : Cardinality(InFlight(s) \ slotLapsed) <= MaxConcurrent

(* A call that ended with every round trip answered leaves nothing behind:  *)
(* no pending reservation of its own, no operation in progress, no slot,    *)
(* whichever gate denied it or however the provider call went.              *)
NothingLeftBehind ==
  \A c \in Calls :
    pc[c] = "done" /\ c \notin broken =>
      /\ author[Row(c)] = {c} => status[Row(c)] # "pending"
      /\ Deduplicated(c) => (lastBegin[KeyOf[c]] = {c} => lock[KeyOf[c]] # "in_progress")
      /\ slot[c] # "active"

CountedFor(c) ==
  /\ settled[Row(c)]
  /\ consumed[Row(c)] = [b \in Buckets |-> Counted(Row(c), b, used[c])]

(* No call of the operation may outlive its lease. *)
Prompt(o) == \A e \in SlowCalls : KeyOf[e] # o

(* The real usage of an answered call is what its row says was consumed,    *)
(* when the call made the row, had no failing round trip and shares its key *)
(* with no call that outlives its lease: no retry, late release, sweep or   *)
(* concurrent call of the key rewrites it or turns it back.                 *)
AnswersAreCounted ==
  \A c \in Calls \ broken :
    /\ pc[c] = "done" /\ outcome[c] = "answered"
    /\ author[Row(c)] = {c} /\ Prompt(KeyOf[c])
    => CountedFor(c)

(* Reserved capacity always comes back: whatever becomes of the call that   *)
(* reserved it, no reservation stays pending for ever (sweep).              *)
CapacityComesBack == \A k \in Keys : status[k] = "pending" ~> status[k] # "pending"

(* Claims of the code's comments that it does not keep.                     *)

(* enforcement.ts:454-457: the commit moves each bucket by the actual       *)
(* usage of the call, which is never silently dropped.                      *)
EveryAnswerCounted ==
  \A c \in Calls \ broken : pc[c] = "done" /\ outcome[c] = "answered" => CountedFor(c)

(* enforcement.ts:469-471: capacity that may have been consumed is never    *)
(* silently released.                                                       *)
AnsweredNeverReleased ==
  \A c \in Calls :
    outcome[c] = "answered" /\ author[Row(c)] = {c} => status[Row(c)] # "released"
===============================================================================
