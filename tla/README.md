# Verification of the ingles server: metered AI calls, conversations and the learner's day

`ingles` is an English-learning application. Its server is a set of serverless
functions (`api/`) over Supabase Postgres, whose `SECURITY DEFINER` functions are the
only atomic steps; cron jobs (`vercel.json`, `pg_cron`) do what must happen without a
user. Every expensive thing it does is a call to an AI provider, and most of its
difficult code exists to decide whether a call may run, to count it once, and to
give back what a failed call held. That is what this project models first, then the
metered conversations, which hold their budget across many requests, and then the parts
around them that race, fail and retry in ways of their own: shared stories, billing
events, the listening queue, rewrites, pronunciation rounds, the curriculum with its
placement test, and the daily reminder.

Source paths below are relative to `src/`. "Baseline" is
`supabase/migrations/20260725120000_baseline_full_database.sql`.

## 1. Inventory

| Component | State | Operations | What is hard | What makes it correct |
|---|---|---|---|---|
| Usage reservation ledger (`api/_ai-gateway/reservations.ts`, `reservation-reconciliation.ts`, `budgets.ts`, baseline) | reservation rows (`pending`, `committed`, `released`, `expired`, `reconciliation_required`), one counter pair (reserved, committed) per quota or budget window | reserve, commit, release, expire, park; the reconciliation sweep | retries with the same key, late commits after a release, windows first created in the middle of a period, commit of another amount than reserved | counters equal the sum of the rows; nothing is admitted over a limit; a row is finalised once |
| Idempotency locks (`dedupe.ts`, baseline) | one row per (user, feature, key): status, lease of 120 s | begin, complete, fail | double clicks, replies that are lost, leases that lapse under a running call | one owner per operation at a time |
| Concurrency slots (`concurrency-limiter.ts`, migration 20260814120000) | one row per call in flight, lease of 180 s | acquire (with stale sweep), release | dead processes, idempotent acquire | no more calls in flight than the cap |
| Circuit breaker (`circuit-breaker.ts`, baseline) | state, consecutive failures, windowed samples, probes used | get_state, record_outcome | reports of an earlier phase arriving in a later one; probes never reported | a closed breaker is healthy, probes are limited, an open one is tried again |
| Enforced pipeline (`enforcement.ts`) | the stage of each call; all of the above shared | gates, provider call, settlement and unwinding | interleaving of instances, failure of any round trip, death between two, leases that lapse | unwinding is complete, every answered call is counted, capacity comes back |
| Gateway policy, prices, telemetry (`api/_ai-gateway/*` rest) | configuration rows, usage events | lookups, arithmetic, inserts | best-effort writes | (data to the pipeline) |
| Conversation sessions (`api/conversation/[...slug].ts`, `_session-accounting.ts`, migration 20260818151500, 20260812210000) | authorisation rows, heartbeats, extra-minute credits, budget reservation | start, heartbeat, complete, reconcile at start, sweep, debit | two starts at once, complete racing the sweep, crash between closing a row and debiting it, snapshot of the extra credits | authorised time never exceeds what is left; a session is charged once and for at most its time |
| Listening jobs (`src/services/listening/jobs`, `pipeline`) | job rows (`pending`, `processing`, `retry`, `completed`, `failed`, `dead_letter`), lock owner and expiry, pipeline state of a story | enqueue, claim, heartbeat, complete, fail, recover, advance, repair | a worker that outlives its lock, shared worker ids, completion that matched no row | a step runs once at a time; a story reaches ready or dead letter |
| Shared stories (`api/_shared-content/get-or-create-shared-listening-story.ts` and its RPCs) | slots `generating`, `ready`, `failed` with a lease of 180 s, each user's pending and practised stories | gate, drop a stale pending, look up, acquire or take over, generate, upload, persist, attach, practise | take-over of a lease whose owner still works, a gate read long before the insert | text and audio of one generation; the library stays near the limit; who asks is served |
| Billing (`api/_billing`) | webhook log, subscription rows, minute credits | webhook (claim, effect, mark), app sync (fetch, expire, upsert) | repeated, overlapping and reordered deliveries, death between effect and mark, sync and webhook together | a processed event has its effect; minutes are credited once; a sync repairs the row |
| Writing rewrites (`api/writing-rewrite-evaluate.ts`, `writingRewriteOrchestrator.ts`) | reservation of the one evaluation, attempts, evaluations | reserve, create, submit, evaluate, persist, settle, complete, release | two devices, a dozen writes without a transaction, no lease | one analysis is bought; a completed reservation has its analysis stored |
| Pronunciation training (`api/pronunciation-training/[...slug].ts`) | rounds of the day, the attempt that holds the open one | text, start, token, upload, assess, finalize, fail, compensate, reclaim | reclaim after six minutes racing a late attempt | one attempt assessed at a time; rounds within the day's limit |
| Curriculum (`api/_curriculum`, `resync_curriculum_progress`) | credits, passed recortes, menu, progress row | first access, record practice, save menu, resync | writes and resync in separate round trips, first accesses that overlap | the pointer is the first open recorte; the level never drops |
| Placement test (`api/_placement`, `domain/placement`) | sittings with answers, texts and evaluation | state, start, skip, answer, C2 text, evaluate, sweep | several tabs with copies of the row, updates by id | a result is what the answers call for; who goes on is placed |
| Daily reminder (`api/_push/behavioralPushSweep.ts` and RPCs) | one event per learner and day | candidates page by page, claim, revalidate, suppression, send, mark | overlapping sweeps, a set that shrinks under the paging, crash between send and mark | nobody reminded twice or without being due; a finished pass left nobody out |
| Promotion engine (`src/lib/promotionEngine.ts`) | legacy memory row | decision table | boundaries | (not modelled) |
| Clients and presentation | none shared | | | |

How they interact: a handler calls the gateway with a feature, an optional
idempotency key and an estimate. The gateway asks the breaker, takes the operation's
lock, reserves on every window the policy names, takes a slot, opens a usage event,
calls the provider, then settles: commit, park (when the commit itself failed), or
release, then the lock, the breaker's outcome and the slot. Conversation sessions use
the same ledger, but hold a reservation for the length of a session and settle it from
another request (`/session-complete`) or from a sweep.

`PROJECT.json` lists the hazards found in each of these parts, at the line where each
bites, with the property that covers it or the reason none does yet.

## 2. Modules

```
Tally            sums over the members of a set that satisfy a test
CapacityPool     abstract: what a limited window promises; no counters
UsageLedger      the reservation functions of Postgres, refines CapacityPool
IdempotencyLocks begin / complete / fail
ConcurrencySlots acquire / release, stale sweep
CircuitBreaker   get_state / record_outcome
BreakerClients   CircuitBreaker under concurrent callers
EnforcedPipeline executeEnforcedPipeline; EXTENDS the four stores
SessionPurse     abstract: sessions that share a plan and a purse of credits
ConversationSessions  metered sessions of one user; EXTENDS UsageLedger, refines SessionPurse
SharedStories    shared listening stories of one identity and day
BillingEvents    webhook deliveries and the app's sync over one user's rows
StepBoard        abstract: the steps of an episode, each done at most once, in order
ListeningQueue   the job queue and the pipeline of one episode on it, refines StepBoard
WritingRewrites  the one evaluation of a rewrite
PronunciationDay the rounds of one user's day
Curriculum       one learner on a pinned curriculum version
PlacementTest    sittings and tabs; EXTENDS Curriculum, whose pointer it moves
DailyPush        the sweep of one day over all learners
MCActivities     the eight from SharedStories on, side by side, by scene
*Proofs          theorems;   MC*  instances for TLC
```

**UsageLedger.** `status`, `items`, `reserved`, `consumed` and `settled` are a reservation
row with its items and budget links; `reservedQty` and `committedQty` are the counters of
the quota and budget windows. A window that predates its counter row starts from the
usage already logged (`Backfill`). `Reserve` is the whole of `reserve_gateway_usage_v1`:
an existing row is returned as it stands, otherwise every window is locked and tested
before any counter moves. `Commit`, `Release` and `Expire` act only on a `pending` row and
give back exactly what the row reserved; `MarkReconciliationRequired` parks a row and
leaves the windows alone. A call that finds no row it may act on changes nothing.

**CapacityPool** is the abstract specification: claims that are
free, held, spent or returned, *without counters*; admission is a statement about sums.
`UsageLedger` implements it under the mapping `ImplementsPool` gives: this is what shows that
the incrementally maintained counters are right.

**IdempotencyLocks, ConcurrencySlots** have one action per SQL function and one
for the lapse of a lease. Nothing reads a lease before it has lapsed, so time is the
single bit "lapsed".

**CircuitBreaker** keeps the state, the consecutive failures, the samples of the
window and the probes used. Tripping is by consecutive failures or by the failure
percentage of a window with enough samples; both tests are those of the SQL.

**EnforcedPipeline** has one action per awaited round trip of
`executeEnforcedPipeline`, so that calls interleave between any two of them. Where a
round trip can throw, the action has a disjunct in which it did; a thrown round trip
may have been applied (the reply was lost) or not. `Die` stops a call anywhere.
`SweepRow` is one row of `releaseExpiredPendingReservations`. `author`, `lastBegin` and
`broken` are history variables the properties need; no guard of the code's own actions
reads them (they only limit which leases may lapse).

The order of the settlement steps in an action's `pc` is the order in the code: after
the provider's answer the events are written, then the commit, then the lock, then the
breaker's outcome, then the slot. A throw in the events skips the commit.

**ConversationSessions** has the requests of one user with a finite monthly plan. `row`,
`granted`, `charged`, `attached` are a row of `conversation_session_authorizations`;
`stage`, `offer` and `listed` are what a start request (`handleSession`) keeps between two
round trips: the open rows it listed, then the entitlement snapshot. `settling` is what the
winner of a guarded close has still to do, budget first, then credits; `closer` is who won.
`Close` is shared by the three who close rows, as `closeAuthorizationRow` is: `Supersede`
(the next start), `CompleteSession` and `SweepCloses`. They differ in the end of the
session they assume and in how old the row is they have read. The reservation of the
session is a row of `UsageLedger` with the same name, reached only through the calls of
that module. Time is per row: seconds since it was authorised (`age`), the last heartbeat
(`seen`), the silence since (`quiet`). `present` and `lent` are history: how long the user
was there, and which part of a grant only credits covered. The clocks of a closed row are
set back to zero, because nothing asks for them again.

Inside one action: `handleSessionComplete` reads the row and closes it with a guarded
update. Nothing it read of an open row can change in between (the ids are written before
the client has the row's id), so both are one step. A guarded update that took effect but
whose reply was lost leaves the row closed and not settled; that is what `Crash` does to
a closer.

**SessionPurse** is the abstract specification of the sessions: no requests, heartbeats,
listings, retries or deaths. A session begins on what is left of the plan and on credits,
ends once at no more than it was given, or is withdrawn, and is then paid for from the purse
or forgone. `ConversationSessions` implements it (`ImplementsPurse`): `SessionPhase` reads a
row and what is left of its settlement as a phase, and the seconds and the credit balance
map to themselves. It is what makes "billed once" more than a statement about one field: the
three closers, who race with copies of old rows, together do what one atomic account would.

**SharedStories.** `story` is the table of the day's slots, `pending` and `practised` each
user's progress rows. A request gates (`checkListeningCanStart`), drops a stale pending,
looks for one, acquires a slot or takes over one whose lease expired, then uploads audio,
persists text and attaches; `late` remembers that a lease expired under a generation
(180 s against 300 s), after which text and audio may differ.

**BillingEvents.** `store` is what RevenueCat holds, `event` what it has emitted, `log` the
webhook's inbox. A delivery claims its log row, has its effect and marks it, in three
steps that other deliveries and the sync interleave with; the sync fetches, expires what
the store no longer lists and upserts, each with what it read before.

**ListeningQueue.** A dispatcher passes over the lanes, claims a job (attempt counted,
lock owned), works, and fails it or completes it, looks at what its step makes ready and
enqueues it, each step of its own; the recovery lists stuck jobs and then updates one by
one, guarded by status and attempts. `product` is what the handlers have written.
**StepBoard** is its abstract specification: a step is posted when all it reads is made, tried
at most `MostTries` times, and is then done (only with its product), refused for good, or
given up, after which alone it may be posted again. Any step may be refused: `HandlerFails` is
an error of whichever handler, and one that says it is not retryable ends its job as `failed`
at once, before its attempts are used. Without any such error the questions and subtitles
refuse a later attempt over what an earlier one left half made (`Start`). The mapping
(`ImplementsBoard`) forgets dispatchers, locks and products half made; `JobPhase` joins
`pending`, `processing` and `retry`. A worker that lost its lock may still *make* its product
late, which the board allows, but not end a step a second time.

**WritingRewrites.** One stage per round trip of the handler and the orchestrator, so that
every prefix of the dozen writes can be the last. **PronunciationDay** has one action per
RPC or provider call, and two for `create_pronunciation_training_text`, which takes no lock:
`CountRounds` and `InsertRound`, with `counted` in between, during which a round may be
completed. `idle` is the six-minute clock of the round's attempt.

**Curriculum.** `credit`, `passed`, `menu`, `place` are the four tables. A credit or a menu is
written first (`RecordPractice`, `SaveMenu`), the pointer recomputed by a later step
(`Resync`) that may be lost; `Recompute` is the SQL function under its advisory lock,
and is shared with `placement_apply_result_v1`. `EnrolledInit` is the learner once his first access is
through, where a placement test usually begins. **PlacementTest** gives every tab a copy of
the row it read (`tab[c].status`, `.checkpoint`, `.seen`) and one action per round trip;
updates by id write whatever the row has become. `Asked`, `Passes` and `Route` are
`decideCheckpoint` and `nextAfterCheckpoint` over sets of answers. `EvaluateTexts` routes a
verdict through the checkpoint of the row its request has read, as `runC2Evaluation` does
(`VerdictLevel`); that is the gate, unless a late walk has set the pointer back. Two fields of
a sitting are history: the verdicts its requests came to, and whether the pointer was set
back. The row of `placement_c2_evaluations` is left out: nothing reads it, and the error of its
upsert is ignored (823-837).

**DailyPush.** `invocation` is a run of the sweep: where it started (`from`), its keyset
cursor, the rest of its page, and the learner whose event it holds. `practice` and
`optOut` remember whether they came before or after the claim, which is all that may
excuse a reminder that is sent nonetheless.

## 3. Runs

| Run | Question | Result |
|---|---|---|
| `ledger` | do the counters stay exact, is the limit kept up to overage, is a row finalised once, does the ledger implement `CapacityPool`? | holds |
| `pipeline` | with a retry, an unrelated call, lost replies, a death, a slow call and the sweep: one owner per operation, cap on calls in flight, nothing left behind, answers counted | holds |
| `pipeline_recovery` | is every pending reservation finally settled? | holds |
| `breaker` | is a closed breaker healthy, are probes limited, is an open breaker tried again and a reporting probe decisive? | holds |
| `conversation` | with two concurrent starts, lost round trips, a dying handler, late or missing completion and the sweep: is the plan promised once, do the sessions implement `SessionPurse` (each begins, ends and is paid for at most once, for no more than it was granted), is one that the user left without a goodbye billed for no more than he was there, and are credits untouched while the plan lasts? | holds |
| `conversation_close` | is every authorisation row finally closed? | holds |
| `activities` | twelve scenes of the eight modules around the gateway: is the stories' library bounded, does audio read its text, is practice kept; has a processed event its effect, does a sync repair the row and spare a change just scheduled; do the queue's steps follow one another and does the queue implement `StepBoard`; is one analysis bought and stored; do rounds stay in order and no attempt work in vain; does the level never drop, is a placement what the answers call for, are only due reminders sent; and does everybody who keeps trying get through, and background work settle? | holds |
| `conversation_debit` | are only seconds beyond the plan debited (`conversation-extra-credits-debit.ts:9-19`)? | **violated** |
| `conversation_budget` | is the reservation of a session that ran reconciled (`_realtime-budget.ts:36-40`)? | **violated** |
| `breaker_leak` | does a half-open phase always end (`circuit-breaker.ts:11-13`)? | **violated** |
| `pipeline_telemetry` | is capacity that may have been consumed never silently released (`enforcement.ts:469-471`)? | **violated** |
| `pipeline_retry` | is the actual usage of an answered call always counted (`enforcement.ts:454-457`)? | **violated** |

The five violations:

* *breaker_leak.* A probe is counted when `get_state` answers and given back only by
  `record_outcome`, which a call reaches after the provider was invoked. A probe that a
  later gate denies, or whose instance dies, is never given back, and `half_open` has
  no timeout: the breaker stays half-open for ever and turns every call away.
* *pipeline_telemetry.* `completeEvent` and `insertMetrics` come before the commit; when
  they throw (or `startEvent` did) an answered call skips the commit and is not parked
  either, so the sweep releases what was consumed.
* *pipeline_retry.* The reservation's key is the caller's idempotency key. After a
  provider error the row is `released`; a retry with the same key is admitted, its
  reserve returns the released row as it stands and its commit finds nothing pending.
  The successful retry is neither limited nor counted.

* *conversation_debit.* A row is completed in one round trip and debited in a later one,
  and the debit counts every other completed session as used before it. Two sessions
  completed before either is debited each find the plan used up by the other.
* *conversation_budget.* The reservation's id is written to the row after the provider's
  answer, guarded by the row's status. A row that was superseded (or, if minting outlasts
  the stale window, swept) in between never carries it. The closer reconciles nothing,
  completion finds the row completed, the generic sweep skips this feature: the
  reservation stays pending.

Two more of the code's own statements do not hold and are not given a run, because what
they claim was overtaken by a later change of the same files. The header of migration
20260818151500 says two starts can never together be authorised beyond the balance; since
a start closes every open row first, one that still runs is charged only up to its last
heartbeat and both run on full grants. Its lines on credits add one snapshot of the
purchased seconds to every start; `PlanPromisedOnce` therefore allows for what was `lent`.
And `[...slug].ts:697-701` says a missing template is reported before anything is held, which
is so for guided sessions but not for the free mode's template (line 985).

### Statements of the code that do not hold, without a run of their own

These were met while modelling. The models behave as the code does, and the properties
allow for them where noted.

* Stories. "A pending always implies under limit" (`get-or-create-shared-listening-story.ts:348-351`)
  breaks when a story is practised between gate and insert (`LibraryBounded` allows two more
  rows); a ready story can be marked failed by its own winner's attach conflict (386-395);
  a generation that outlives its lease mixes text and audio (`late`).
* Billing. Events are applied in arrival order, so a late one rolls the row back until a
  sync; sync before the first webhook leaves two rows of one plan; a read-then-write sync can
  erase a pending change written in between; a package bought before INITIAL_PURCHASE was
  processed is ignored for good.
* Queue. `CALCULATE_LISTENING_PERFORMANCE` is in no dispatcher lane; the synchronisation never
  writes `timed`, so validation and publication are never enqueued; a worker that dies inside
  the subtitles leaves them processing for good, and one that dies between the two rows of the
  questions has every later attempt refused (`generate-listening-questions.ts:453-455`).
* Rewrites. The reservation has no lease: a lost complete or release answers 409 for ever. An
  evaluation stored but not marked makes later submissions fail or buy a second analysis,
  contrary to `writing-rewrite-evaluate.ts:166-172`. `AnalysisIsBoughtOnce` and
  `LearnersGetThrough` exclude database failures and deaths (`upsets`).
* Pronunciation. `create_pronunciation_training_text` may insert a round beyond the daily limit,
  on a count made before the last completion (20260818151000, lines 101-145); it is never
  assessed, for `reserve_...` counts again, so `DayInOrder` bounds the rounds that are assessed or
  being assessed. `compensate_...` checks no attempt id, and is safe only because `/start` ends
  before six minutes; an upload later than that may still be assessed beside its successor;
  two concurrent `/assess` of one attempt both pay.
* Curriculum. "Never regresses" fails for a path with a legacy initial level: the bootstrap
  inserts no completions, and the first resync points back to the first recorte.
  `LevelNeverDrops` therefore assumes `InitialLevel = 0`. Two partial PUTs of the preferences
  can lose one change (merge of what was read before).
* Placement. Updates by id let a skip or an expiry overwrite a completed sitting, after which
  the test may be taken again; two tabs may pay for two evaluations, and the stored decision
  may be another than the level applied (`DueByTexts` allows either). "pass → C2, fail → C1"
  (`placement-runtime.ts:839-840`) fails when a late walk of another tab (489) has set the
  pointer back from the gate: the verdict is then routed through the earlier checkpoint, and a
  failed one at `C1` gives that checkpoint's own B2. `DueByTexts` allows this of sittings whose
  pointer was set back (`setBack`), and of no others.
* Reminder. `nextCursor` moves to the end of a page before the page is worked off, so resuming
  with it after the time budget skips the rest of that page, contrary to
  `behavioralPushSweep.ts:116-118`; a fresh start does find them. `DrainedMeansDecided` speaks of
  who lies behind the start of the pass, and takes it that nobody becomes due in mid-pass
  behind the cursor: a learner who signs up then, or whose block expires, is missed by that pass. A crash between claim and mark leaves `claimed` for
  good, and a push that timed out after delivery is recorded as failed.

### Bounds and why they suffice

* `MCUsageLedger`: two rows, a quota and a budget window, small quantities up to
  `MaxQty`. Every interaction of the ledger is between one row and the rest of a window,
  so two rows reach every case: admitted beside another, denied because of
  another, finalised while the other is pending, commit above and below the
  reservation. The invariants are proved for every set of rows and windows.
* `MCEnforcedPipeline`: `first` and `retry` share a key, `other` has a key of its own;
  the window has room for two, the cap for one. `FaultyCalls`, `MortalCalls` and
  `SlowCalls` bound who may meet which trouble: lost or failed round trips hit
  `first`, death and lapsed leases hit `other`, whose key nobody shares, while `retry` runs
  well and meets the consequences. The recovery run has two calls that share
  everything but the key, and liveness.
* `MCConversation`: two start requests, the least number that can overlap, supersede one
  another and be closed by different closers. Three seconds of plan, two per session and
  one of credit: a second session is granted a remainder of the plan and the credit on
  top. The stale window is one second, shorter than a session, so that a heartbeat clamps.
  Round trips fail for `one`; `two` runs well and meets the consequences; one handler may
  die (`MaxCrashes`). `MaxQty` covers the worst case of a session, `Costs` holds one real
  cost, because the ledger run covers the others. `conversation_close` has sessions of one
  second and no credit: closing depends on neither.
* `MCActivities`: the eight modules share no table with one another (the curriculum and its
  test do, and move together), so scenes chosen at the start replace their product. Two
  requests of one user or of two, with one fault, over a limit of one story; two deliveries or
  one and the sync, two events, two periods, one failure (`MaxUnrest`); two dispatchers, two
  attempts per job and one mishap, for a new episode (which runs without a mishap) and for one
  about to make its questions, subtitles and audio; two devices with two texts, one failed
  model and one upset; four attempts on two rounds with two accidents, and one call for a text at a time, which is enough
  for its count to be overtaken; three recortes of three levels with two
  modalities, two overlapping first accesses, one activity or request under way and one lost
  resync; a test of two checkpoints, one without and one with a tiebreaker, and two texts (a failed
  verdict leads to another level at the gate than at the checkpoint before it), with
  one request of another tab or one setback, which `MaxSittings` = 2 lets the learner make up for;
  two learners, one allowed real sends, two sweeps with pages of one and one excuse. Members of
  a kind that nothing tells apart are taken in one order, in `ActivitiesNext` and nowhere else:
  a mishap befalls the first dispatcher, the attempts are submitted in the order of their
  names, the essay is the first text to be written and the first sweep the first to start;
  every other case is one of these under another naming. The components, and the theorems about
  them, make no such choice. Each
  bound is the least at which the race the properties are about exists: two actors, one
  failure, and one more try after it.
* `MaxSamples` caps the breaker's window; it lies above the least sample count that
  lets the percentage test fire, with room for both outcomes.
* Deadlock checking is off where calls end: a state in which all are done is the
  normal end of the system.

### Fairness

`PipelineFairness`: a call goes on to its next round trip or its instance dies (a
function runs for at most 300 s, `vercel.json:9-11`); leases and reservations reach
their expiry (time passes); the sweep runs (a `pg_cron` job fires the route every
minute and a run lists all expired rows). No fairness is assumed of a round trip's
success. `SessionsFairness`: a handler goes on (`MaxCrashes` bounds
those that die), a conversation ends, at the latest by the timer of the client that knows
its maximum; time passes; the sweep's cron fires every minute and its loop visits every
row it listed. Heartbeats and `/session-complete` are not fair: they may never come.
`ClientsFairness`: the cooldown passes, callers keep asking, an admitted
caller reports or leaves. In `activities` a handler that is not killed runs on; leases, locks and
the six minutes run out; the crons of dispatch, recovery and repair fire again; RevenueCat
redelivers what it has no 200 for; and a learner without a story, an evaluation, a round or
a placement tries again, which is what the clients do after a 409 or an error. A request
that has written a credit or a menu goes on to its resync. The reminders have no liveness:
a crash ends the day's attempt. Weak fairness is enough in all cases, since nothing takes the
enabling condition away for good.

## 4. Proofs

TLAPS proves, for every set of rows, windows, calls, keys, limits, dispatchers, events, tabs
and learners that meets the modules' assumptions, every state invariant and every action
property the passing runs check, and the refinements between the modules.

* `UsageLedgerProofs`. How a sum over a finite set changes when one member enters, leaves
  or changes: a sum is the number of units of its members, so the lemmas follow from the
  library's facts on cardinalities and need no recursion. `LedgerInv` joins the type
  invariant, *reserved of a window is the sum of what pending rows hold there*, *committed
  is the backfill plus the sum of what settled rows consumed there* and *a row that is not
  pending holds nothing more and a released one consumed nothing*. The limit alone is not
  inductive: whether a reserve is safe depends on the counter being the sum. From it
  follow `LedgerTypeCorrect`, `LedgerReservedExact`, `LedgerCommittedExact`,
  `LedgerWithinLimit`, `LedgerFinalisedOnce`, and `LedgerImplementsPool`: each ledger
  step is a pool step or a stutter.
* `GatewayGuardsProofs`. The slots: `SlotsWithinCap`. The breaker: both outcomes leave a
  closed breaker below its two thresholds or open it (`BreakerClosedIsHealthy`), and every
  step of the stream of calls is the breaker's or leaves it alone (`ClientsImplementBreaker`), so
  that holds under concurrent callers too (`ClientsClosedIsHealthy`). The probe limit is not
  inductive, for a probe may report in a later phase than its own: `ProbesAreCounted` adds that the
  probes that can still report were counted by the current half-open phase and that no other phase has
  any; `ClientsProbesWithinLimit` and `ClientsTypeCorrect` follow.
* `EnforcedPipelineProofs`. Every pipeline step is a step of the ledger, of the slots and of the
  breaker, or leaves them alone: `PipelineImplementsLedger`, `PipelineImplementsSlots`,
  `PipelineImplementsBreaker`; hence `PipelineWithinLimit` and, with the relation between a
  call's stage and its slot, `PipelineWithinCap`. `PipelineOneOwner` rests on the stronger
  invariant that whoever owns an operation is the last to have begun it and the lock is in
  progress, unless a lease of that key may have lapsed. `PipelineInv` says of each of the three
  things a call takes that, until it is given back, the call has met a failed round trip or stands
  at a stage from which it will give it back (`RowIsTended`, `LockIsTended`,
  `SlotIsTended`); at the last stage nothing can be left, which is `PipelineLeavesNothing`. For
  `PipelineCountsAnswers` it adds that the row of a prompt call stays pending until its commit and
  then says what the answer used, for ever (`AnswerIsKept`), and that a reservation lapses only
  once its call is over or is slow (`LapsedRows`). `PipelineTypeCorrect` joins the types.
* `ConversationProofs`. A step opens one row, closes one, deletes one or keeps what the
  plan is reckoned by (`RowStep`). The bound on what is promised is not inductive:
  opening a row needs that its request has none yet, closing one that it is charged no more
  than it holds, deleting one that it was lent no more than it holds; `RowsInv` joins the
  three, and `PlanNeverOverPromised` follows. `SettlingInv` adds that only a closed row is
  being settled and that nothing was debited for it yet, which gives `SessionsBilledOnce`; with
  the fact that used seconds only grow it gives `CreditsSpentBeyondPlanOnly`. `PresenceInv`
  adds that a heartbeat is never later than the user's presence, and that what a closer has
  listed of a row that is *still open* was true once and so is no later than it either: a
  listing may be stale by the time it is used, but only to the user's advantage. Hence
  `AbandonedBilledFairly`. For the purse, `PurseInv` adds to `SettlingInv` that a start or a
  sweep settles one row at a time (`OneAtATime`), for the death of a closer may forgo one
  payment only, if it is to be a step of the purse; then each action opens, ends, pays,
  forgoes or withdraws one session or leaves the purse alone (`SessionsImplementPurse`). That
  the purse balances is proved of the sessions by summing what each cost
  (`CreditsAreAccountedFor`): no race and no lost settlement loses or duplicates a credit. Every session step is a ledger step or leaves the ledger alone
  (`ConversationImplementsLedger`), hence `SessionsTypeCorrect` and `ConversationWithinLimit`.
* `BackgroundProofs`. The queue: a worker may have lost its job to another when it ends it,
  so `StepsInOrder` cannot rest on who holds a lock. `QueueInv` says instead what a
  dispatcher knows that outlives its lock: what it completes is ready, and whatever it is
  about to enqueue has all its inputs, because a product once ready stays ready
  (`DispatchersTell`); and that a waiting job has an attempt left and a settled one no owner
  (`JobsRest`). Hence `QueueTypeCorrect`, `QueueStepsInOrder`, `QueueSettledIsFinal`. That the queue
  implements the board (`QueueImplementsBoard`) needs `Underway` besides: a job somebody works
  on is in the queue, and one that is `processing` has been claimed at least once, so that its
  end, a refusal too, closes a step that was tried. Billing:
  a handler about to log an event as processed has done what it says (`HookTells`), which gives
  `BillingProcessedIsApplied`. `BillingKeepsScheduledChange` needs that only the row of the chain
  carries a change (`RowsAreBought`). `BillingSyncRepairs` needs `QuietSync`: while nothing
  else moves, the snapshot is the store's, and each plan the sync has gone through has one row
  that agrees with the store, or two rows; at the last plan that is what the user is granted.
* `LearnerProofs`. For the rounds: an attempt that is engaged holds the open round, a
  processing round is held by one, and all rounds before the open one are completed
  (`RoundsCounted`). However many rounds are inserted on old counts, `Consumed` counts a round
  from the moment it is given, so completing it changes nothing of the bound; whence `PronunciationDayInOrder` and
  `PronunciationNotInVain`. For the rewrites: `Turn` says what a call that holds the
  reservation may rely on at each stage, `Rest` what is true while nobody holds it; whence
  `RewriteBoughtOnce` and `RewriteCompletedIsStored`. For the shared stories, `StoryInv`: a
  working request has its slot, at most one of them holds the lease of a slot unless one was
  late, the opened stories of a day are counted by the rows, and a ready story's audio is its
  text's. From it `StoryTypeCorrect`, `StoryLibraryBounded`, `StoryAudioReadsItsText` and
  `StoryPracticeIsKept`.
* `CourseProofs`. The pointer is always the first recorte not passed (`PointerIsFirstOpen`), and
  what is passed only grows, so it and its level never go back, whatever a placement result
  adds and however late: `CurriculumTypes`, `LevelIsKept`. For the test: a request works with
  answers it read before, so `PlacementInv` says of each sitting and each request that it stands at
  a checkpoint the recorded answers *still* lead to (`SittingSound`, `RequestSound`). That
  lasts because an answered question is never answered again: the answers only grow, a
  checkpoint that has all of its answers keeps its route, so what is reached stays reached and a
  level that is due stays due (`ReachedGrows`). At most one sitting is completed
  (`OneCompleted`), and since nothing above the official level is passed, credited or under way
  (`LevelsReached`), applying a result moves the pointer at least to it. Whence
  `PlacedAsAnswered`; `PlacementTypes` adds that sittings and requests about to begin one stay
  within the bound together (`RoomLeft`). For the sweep: from its claim to its
  mark an event is one invocation's (`ClaimsAreHeld`), which has sent nothing before it sends
  and knows what the gates told it (`HoldersKnow`), and whoever is due and lies behind the start
  of a pass is on its page or after its cursor (`DueIsAhead`); whence `PushTypes` and
  `OnlyDueReminders`, for any number of learners and sweeps and any page size.
* `ActivitiesProofs`. The composition that `activities` runs: every step of it is, for each of
  the components, a step of that component or none (`EveryStepOnScene`), so a behaviour of it is a
  behaviour of each (`EveryComponentRuns`), and what is proved of one holds of all side by
  side: `ActivitiesTypeCorrect`, `ActivitiesKeepPromises`, `ActivitiesPlaceByAnswers`. The queue of
  the run also starts partway, at the questions, which is why its invariant and the board's initial
  state are shown anew of both starts (`QueueOnScene`) before `ActivitiesImplementBoard`.

**Assumptions** are those named in the modules (`...Assumption`): constants have their
types, counts are natural numbers, and names that stand for "nobody" are nobody's. The
theorems on the placement test, and those of the composition that contain it, have two hypotheses besides. `InitialLevel = 0`, as in
`LevelNeverDrops`: a legacy level inserts no completions, and the place goes back below it.
`ResultsAreLevels`: the levels a test may give are levels of the course. That is an assumption on
the test that is loaded, which the run's instance meets; the database demands no more than that a
checkpoint leads either to another or to a level (`20260815130000_placement_foundation.sql:78-81`).

**What the proofs found.** Attempts to prove three formulas that TLC had passed failed for a reason:
`AnswersAreCounted` is false where a call shares its key with one that outlives its
lease (the slow call's lock and row are then the other's), so it now speaks of keys all
of whose calls are `Prompt`; the bound of `PlacementTypeOK` on sittings held for two tabs only, and
now grows with their number; and `ConversationSessions` and `PlacementTest` needed their dummy values to be
none of the constants' own.

**Only model-checked.** Everything with `~>` or `[]<>` (`CapacityComesBack`, `ProbationDecided`,
`EveryRowCloses`, `LearnersGetThrough`, `BackgroundWorkSettles`): the prover has
no rules for fairness and ENABLED. Every invariant, action property and refinement that a passing
run checks is a theorem; the types and the placement of `activities` under the two hypotheses above.

## 5. What is abstracted and what is left out

* Quantities are small naturals per window; prices, currencies and the choice of the
  windows are data.
* Entitlement and rate limit are a nondeterministic denial at their place in the order
  of gates. Usage events and the daily rollup appear only through their failures.
* A row's lease is a bit. That is exact for every read in the code, all of which
  compare an expiry with `now()`.
* A call is assumed to ask at least one unit of every metric it estimates; a metric
  estimated at zero takes no part in a reservation.
* A conversation is that of a metered plan. Trial and unlimited plans (other functions,
  another insert), the provider sessions of gateway observe mode, curricular credit, the
  mirror row of a closed session, the five-second entitlement cache, purchases of
  credits and two overlapping runs of the sweep are not modelled. Every start has a fresh
  attempt id, as the client makes it (`useRealtimeSession.ts:418`), so the idempotent answer of
  the authorisation function is never taken.
* Gateway modes `legacy` and `observe` only record and change none of this state.
* Stories: the content itself, the video and pronunciation libraries and the generic
  `get-or-create-shared-content.ts`, which follow the same protocol with other tables.
* Billing: BILLING_ISSUE, UNCANCELLATION, TRANSFER, immediate upgrades, the auto-renew columns and
  two racing syncs.
* Queue: the repair and cancel commands (a manual repair uses job keys of its own), generation by
  group and the on-demand path. A worker that lost its lock and runs a step again may delete and
  write anew the rows of the questions, or the timings of the audio; `product` stays "ready"
  through it, and a reader that meets the gap is a `HandlerFails` of the reader. Which errors are
  retryable is not told apart by step: any handler may meet either kind.
* Pronunciation: duplicates answered `existing_processing`, curricular credit, token contents.
* Curriculum: several language paths, prompt templates, and the content of versions.
* Reminder: opened and converted events, the hour of the window (a cron that fires at 20:00 and
  20:30), deactivated and suspended accounts, the copy and the streak.

### Not modelled

Policy lookup, kill switches, prices, telemetry and the rollups of the gateway are data and
best-effort inserts; the model has them as nondeterministic outcomes of the pipeline's
steps. The promotion engine is a pure decision over a learner's legacy memory. The clients
(React, Capacitor), the admin pages and the content of prompts and lessons keep no shared
state and appear as the callers of the server's operations. They are most of the
repository's lines, which is why the map covers a small share of them.

## 6. Plan

Everything planned is written and checked, and what section 4 does not name as only
model-checked is proved. Next, in this order:

1. The trial's functions beside the metered ones, and the attribution of a reminder.
2. An abstract purchase (paid, granted, ended) that `BillingEvents` implements while its sync is
   quiet, and an abstract sitting for `PlacementTest`, both with proofs.
3. The video and pronunciation libraries as further instances of `SharedStories`.
