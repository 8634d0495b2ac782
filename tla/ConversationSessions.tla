------------------------- MODULE ConversationSessions --------------------------
(***************************************************************************)
(* Metered conversation sessions of one user with a finite monthly plan:   *)
(* the rows of conversation_session_authorizations, the requests that open *)
(* them (/conversation/session), keep them alive (/session-heartbeat) and  *)
(* close them (/session-complete, the next start, the minute sweep), the   *)
(* purchased credits, and the budget reservation that every session holds  *)
(* in the ledger of the gateway.                                           *)
(*                                                                         *)
(* A start request k makes at most one row and one reservation, both with  *)
(* fresh ids, so k names all three.  Each awaited round trip of a handler  *)
(* is one action.  Time is kept per row, as the seconds since it was       *)
(* authorised and since its last sign of life; both saturate where a       *)
(* longer time makes no difference.                                        *)
(***************************************************************************)
EXTENDS UsageLedger

CONSTANTS
  PlanLimit,   \* the plan's seconds of the month
  Credits,     \* purchased seconds at the start
  Ceiling,     \* most seconds one session may be authorised for
  Stale,       \* AUTHORIZATION_HEARTBEAT_STALE_SECONDS
  Costs,       \* bound: what a session may really cost
  Faulty,      \* bound: start requests whose round trips may fail
  MaxCrashes   \* bound: how many handlers may die

ASSUME SessionsAssumption ==
  /\ PlanLimit \in Nat /\ Credits \in Nat /\ Stale \in Nat /\ MaxCrashes \in Nat
  /\ Ceiling \in Nat \ {0}
  /\ Ceiling <= MaxQty
  /\ Costs \subseteq 0..MaxQty
  /\ Keys \cap {"nobody", "user", "sweep"} = {}

VARIABLES
  stage,       \* [Keys -> Stages]: the round trip the start request awaits next
  offer,       \* [Keys -> [seconds, extra]]: what its entitlement snapshot said, until used
  listed,      \* [Keys -> listings]: open rows the start request still has to close
  client,      \* [Keys -> {"waiting", "talking", "gone"}]
  row,         \* [Keys -> RowStatuses]: status of the row
  granted,     \* [Keys -> 0..Ceiling]: authorized_max_seconds
  age,         \* [Keys -> 0..Ceiling]: now - authorized_at of an open row
  seen,        \* [Keys -> Unseen..Ceiling]: last_seen_at - authorized_at
  quiet,       \* [Keys -> 0..Stale + 1]: now - last sign of life
  charged,     \* [Keys -> 0..Ceiling]: duration_seconds
  attached,    \* rows that carry their gateway_budget_reservation_id
  abandoned,   \* listing: rows the running sweep still has to close
  settling,    \* [Keys -> Settlements]: what the row's closer does next
  closer,      \* [Keys -> Keys \cup {Nobody, User, Sweep}]: who closed the row
  credit,      \* remaining_seconds of the purchased credits
  debited,     \* [Keys -> Nat]: credits the row's session was debited
  crashes,     \* handlers that died
  lent,        \* [Keys -> Nat]: the part of granted that only credits cover
  present      \* [Keys -> 0..Ceiling]: how long the user really was there

requestVars == <<stage, offer, listed>>
clockVars == <<age, seen, quiet, present>>
billVars == <<charged, closer>>
sessionVars ==
  <<ledgerVars, requestVars, client, row, granted, lent, clockVars, billVars,
    attached, abandoned, settling, credit, debited, crashes>>

Stages ==
  {"list", "supersede", "authorize", "budget", "mint", "unwindBudget", "unwindRow",
   "attach", "freeze", "started", "denied"}
Settlements == {"none", "budget", "park", "debit"}
RowStatuses == {"absent", "authorized", "completed", "deleted"}
Nobody == "nobody"
User == "user"
Sweep == "sweep"
Unseen == -1
NoListing == [r \in {} |-> 0]
NoOffer == [seconds |-> 0, extra |-> 0]

SessionsInit ==
  /\ LedgerInit
  /\ stage = [k \in Keys |-> "list"]
  /\ offer = [k \in Keys |-> NoOffer]
  /\ listed = [k \in Keys |-> NoListing]
  /\ client = [k \in Keys |-> "waiting"]
  /\ row = [k \in Keys |-> "absent"]
  /\ granted = [k \in Keys |-> 0]
  /\ lent = [k \in Keys |-> 0]
  /\ age = [k \in Keys |-> 0]
  /\ seen = [k \in Keys |-> Unseen]
  /\ quiet = [k \in Keys |-> 0]
  /\ present = [k \in Keys |-> 0]
  /\ charged = [k \in Keys |-> 0]
  /\ closer = [k \in Keys |-> Nobody]
  /\ attached = {}
  /\ abandoned = NoListing
  /\ settling = [k \in Keys |-> "none"]
  /\ credit = Credits
  /\ debited = [k \in Keys |-> 0]
  /\ crashes = 0

Open == { k \in Keys : row[k] = "authorized" }
Completed == { k \in Keys : row[k] = "completed" }

Goto(k, next) == stage' = [stage EXCEPT ![k] = next]
Deny(k) == Goto(k, "denied")

-------------------------------------------------------------------------------
(* The one duration formula, and the three ends it is applied to *)

\* Mutant of Billable: the duration is not clamped to what was authorised.
BillableUnclamped(r, elapsed) == elapsed

(* computeAuthorizationDurationSeconds *)
Billable(r, elapsed) == Least(elapsed, granted[r])

(* A new start: the last heartbeat; a row without one: now. *)
SupersededEnd(r) == IF seen[r] = Unseen THEN age[r] ELSE seen[r]

\* Mutant of AbandonedEnd: the heartbeat does not clamp.
AbandonedEndNow(r, lastSeen) == age[r]

(* abandonedEffectiveEndMs: the last heartbeat and one stale window. *)
AbandonedEnd(r, lastSeen) ==
  IF lastSeen = Unseen THEN age[r] ELSE Least(age[r], lastSeen + Stale)

\* Mutant of StillOpen: the update is not guarded by the row's status.
StillThere(r) == row[r] \in {"authorized", "completed"}

StillOpen(r) == row[r] = "authorized"

(* The guarded UPDATE, for a closer who read that the row carries its       *)
(* reservation id or does not.  Who wins it settles the session; who loses  *)
(* it changes nothing.  Nobody asks for the clocks of a closed row again.   *)
Rewind(r) ==
  /\ age' = [age EXCEPT ![r] = 0] /\ seen' = [seen EXCEPT ![r] = Unseen]
  /\ quiet' = [quiet EXCEPT ![r] = 0] /\ present' = [present EXCEPT ![r] = 0]

Close(r, who, elapsed, reserves) ==
  \/ /\ StillOpen(r)
     /\ row' = [row EXCEPT ![r] = "completed"]
     /\ charged' = [charged EXCEPT ![r] = Billable(r, elapsed)]
     /\ closer' = [closer EXCEPT ![r] = who]
     /\ settling' = [settling EXCEPT ![r] = IF reserves THEN "budget" ELSE "debit"]
     /\ Rewind(r)
  \/ ~StillOpen(r) /\ UNCHANGED <<row, billVars, settling, clockVars>>

(* A closer settles one session before it turns to the next. *)
Free(who) == \A r \in Keys : closer[r] = who => settling[r] = "none"

-------------------------------------------------------------------------------
(* POST /conversation/session *)

(* closeUserOpenAuthorizationsForNewSession reads the user's open rows with *)
(* one clock value; the read may fail, which never stops a start.           *)
ListOpen(k) ==
  /\ stage[k] = "list"
  /\ Goto(k, "supersede")
  /\ \/ listed' = [listed EXCEPT ![k] =
            [r \in Open |-> [lastSeen |-> seen[r], elapsed |-> SupersededEnd(r),
                             reserves |-> r \in attached]]]
     \/ k \in Faulty /\ UNCHANGED listed
  /\ UNCHANGED <<ledgerVars, offer, client, row, granted, lent, clockVars,
                 billVars, attached, abandoned, settling, credit, debited, crashes>>

(* One row of the list; an update that fails leaves its row open. *)
Supersede(k, r) ==
  /\ stage[k] = "supersede"
  /\ r \in DOMAIN listed[k] /\ Free(k)
  /\ listed' = [listed EXCEPT ![k] = [q \in DOMAIN @ \ {r} |-> @[q]]]
  /\ \/ Close(r, k, listed[k][r].elapsed, listed[k][r].reserves)
     \/ k \in Faulty /\ UNCHANGED <<row, billVars, settling, clockVars>>
  /\ UNCHANGED <<ledgerVars, stage, offer, client, granted, lent,
                 attached, abandoned, credit, debited, crashes>>

(* The live consumption the entitlement snapshot shows. *)
LiveUse == [r \in Keys |-> IF r \in Open THEN Billable(r, AbandonedEnd(r, seen[r])) ELSE charged[r]]
ShownRemaining == NonNegative(PlanLimit - Tally(Open \cup Completed, LiveUse))

(* Entitlements, the rate limit and the curriculum may all deny; nothing is *)
(* held yet.                                                                *)
TakeSnapshot(k) ==
  /\ stage[k] = "supersede"
  /\ DOMAIN listed[k] = {} /\ Free(k)
  /\ LET seconds == IF ShownRemaining > 0 THEN ShownRemaining ELSE credit IN
     \/ /\ seconds > 0
        /\ offer' = [offer EXCEPT ![k] = [seconds |-> Least(Ceiling, seconds), extra |-> credit]]
        /\ Goto(k, "authorize")
     \/ Deny(k) /\ UNCHANGED offer
  /\ UNCHANGED <<ledgerVars, listed, client, row, granted, lent, clockVars,
                 billVars, attached, abandoned, settling, credit, debited, crashes>>

\* Mutant of Held: an open row holds only what it has used so far.
HeldLive(r) == Least(age[r], granted[r])

(* What an open row holds of the balance: its full ceiling. *)
Held(r) == granted[r]

BaseRemaining ==
  NonNegative(PlanLimit - Tally(Open, [r \in Keys |-> Held(r)]) - Tally(Completed, charged))

(* authorize_commercial_conversation_session_v1, under the user's lock.     *)
(* A reply that is lost denies the start; the row stays.                    *)
Authorize(k) ==
  /\ stage[k] = "authorize"
  /\ LET remaining == BaseRemaining + offer[k].extra
         most == Least(offer[k].seconds, remaining) IN
     \/ /\ most > 0
        /\ row' = [row EXCEPT ![k] = "authorized"]
        /\ granted' = [granted EXCEPT ![k] = most]
        /\ lent' = [lent EXCEPT ![k] = NonNegative(most - BaseRemaining)]
        /\ Goto(k, "budget") \/ (k \in Faulty /\ Deny(k))
     \/ /\ most = 0 \/ k \in Faulty
        /\ Deny(k)
        /\ UNCHANGED <<row, granted, lent>>
  /\ offer' = [offer EXCEPT ![k] = NoOffer]
  /\ UNCHANGED <<ledgerVars, listed, client, clockVars, billVars,
                 attached, abandoned, settling, credit, debited, crashes>>

(* reserveRealtimeSessionBudget: the worst case of the whole ceiling, with  *)
(* a fresh key.  A denial does not unwind the authorisation; a policy that  *)
(* cannot be read lets the session start without a reservation.             *)
Unreserved == { k \in Keys : status[k] = "absent" }
WorstCase(k) == [b \in Buckets |-> granted[k]]

ReserveBudget(k) ==
  /\ stage[k] = "budget"
  /\ \/ Reserve(k, Buckets, WorstCase(k)) /\ (Goto(k, "mint") \/ (k \in Faulty /\ Deny(k)))
     \/ /\ ~Fits(Buckets, WorstCase(k)) \/ k \in Faulty
        /\ Deny(k)
        /\ UNCHANGED ledgerVars
     \/ k \in Faulty /\ Goto(k, "mint") /\ UNCHANGED ledgerVars
  /\ UNCHANGED <<offer, listed, client, row, granted, lent, clockVars,
                 billVars, attached, abandoned, settling, credit, debited, crashes>>

(* The free-mode prompt, the provider's token and its fields.  Only a       *)
(* provider call that fails is unwound; a missing template and a reply      *)
(* without the expected fields return as they are.                          *)
MintToken(k) ==
  /\ stage[k] = "mint"
  /\ \E next \in {"attach", "unwindBudget", "denied"} : Goto(k, next)
  /\ UNCHANGED <<ledgerVars, offer, listed, client, row, granted, lent, clockVars,
                 billVars, attached, abandoned, settling, credit, debited, crashes>>

UnwindBudget(k) ==
  /\ stage[k] = "unwindBudget"
  /\ ReleaseCall(k) \/ (k \in Faulty /\ UNCHANGED ledgerVars)
  /\ Goto(k, "unwindRow")
  /\ UNCHANGED <<offer, listed, client, row, granted, lent, clockVars,
                 billVars, attached, abandoned, settling, credit, debited, crashes>>

UnwindRow(k) ==
  /\ stage[k] = "unwindRow"
  /\ \/ StillOpen(k) /\ row' = [row EXCEPT ![k] = "deleted"] /\ Rewind(k)
     \/ (~StillOpen(k) \/ k \in Faulty) /\ UNCHANGED <<row, clockVars>>
  /\ Deny(k)
  /\ UNCHANGED <<ledgerVars, offer, listed, client, granted, lent,
                 billVars, attached, abandoned, settling, credit, debited, crashes>>

(* attachTrialConversationSessionGatewayIds, guarded by the row's status: no *)
(* id is written for a session without a reservation.                       *)
Attach(k) ==
  /\ stage[k] = "attach"
  /\ Goto(k, "freeze")
  /\ \/ StillOpen(k) /\ attached' = attached \cup ({k} \ Unreserved)
     \/ (~StillOpen(k) \/ k \in Faulty) /\ UNCHANGED attached
  /\ UNCHANGED <<ledgerVars, offer, listed, client, row, granted, lent, clockVars,
                 billVars, abandoned, settling, credit, debited, crashes>>

(* The identity of the session is frozen and the client gets its token. A   *)
(* guided session whose identity could not be written is denied.            *)
FreezeAndAnswer(k) ==
  /\ stage[k] = "freeze"
  /\ \/ /\ Goto(k, "started")
        /\ client' = [client EXCEPT ![k] = "talking"]
        /\ present' = [present EXCEPT ![k] = age[k]]
        /\ UNCHANGED ledgerVars
     \/ /\ k \in Faulty /\ Deny(k)
        /\ ReleaseCall(k) \/ UNCHANGED ledgerVars
        /\ UNCHANGED <<client, present>>
  /\ UNCHANGED <<offer, listed, row, granted, lent, age, seen, quiet, billVars,
                 attached, abandoned, settling, credit, debited, crashes>>

StartStep(k) ==
  \/ ListOpen(k) \/ (\E r \in DOMAIN listed[k] : Supersede(k, r)) \/ TakeSnapshot(k)
  \/ Authorize(k) \/ ReserveBudget(k) \/ MintToken(k) \/ UnwindBudget(k) \/ UnwindRow(k)
  \/ Attach(k) \/ FreezeAndAnswer(k)

-------------------------------------------------------------------------------
(* The client *)

(* POST /conversation/session-heartbeat, guarded by the row's status. *)
Heartbeat(r) ==
  /\ client[r] = "talking" /\ StillOpen(r)
  /\ seen' = [seen EXCEPT ![r] = age[r]]
  /\ quiet' = [quiet EXCEPT ![r] = 0]
  /\ UNCHANGED <<ledgerVars, requestVars, client, row, granted, lent, age, present, billVars,
                 attached, abandoned, settling, credit, debited, crashes>>

(* The user hangs up, leaves, crashes or reaches the client's own timer. *)
Leave(r) ==
  /\ client[r] = "talking"
  /\ client' = [client EXCEPT ![r] = "gone"]
  /\ UNCHANGED <<ledgerVars, requestVars, row, granted, lent, clockVars, billVars,
                 attached, abandoned, settling, credit, debited, crashes>>

(* POST /conversation/session-complete, which the client sends as it leaves *)
(* and which may come late or never: charged up to now.                     *)
CompleteSession(r) ==
  /\ client[r] = "gone"
  /\ Close(r, User, age[r], r \in attached)
  /\ UNCHANGED <<ledgerVars, requestVars, client, granted, lent,
                 attached, abandoned, credit, debited, crashes>>

-------------------------------------------------------------------------------
(* Settling a session one has closed: its budget, then its credits *)

Then(r, next) == settling' = [settling EXCEPT ![r] = next]

(* reconcileSessionReservation: committed at the real cost, released when   *)
(* nothing was used, parked when the cost is not known; or, without a       *)
(* gateway session, released.  Any of these round trips may fail, before or *)
(* after the call took effect.                                              *)
SettleBudget(r) ==
  /\ settling[r] = "budget"
  /\ \/ \E actual \in [Buckets -> Costs] : CommitCall(r, actual)
     \/ ReleaseCall(r)
     \/ MarkCall(r)
     \/ r \in Faulty /\ UNCHANGED ledgerVars
  /\ Then(r, "debit") \/ (r \in Faulty /\ Then(r, "park"))
  /\ UNCHANGED <<requestVars, client, row, granted, lent, clockVars, billVars,
                 attached, abandoned, credit, debited, crashes>>

(* Its fallback on any error. *)
ParkBudget(r) ==
  /\ settling[r] = "park"
  /\ MarkCall(r) \/ UNCHANGED ledgerVars
  /\ Then(r, "debit")
  /\ UNCHANGED <<requestVars, client, row, granted, lent, clockVars, billVars,
                 attached, abandoned, credit, debited, crashes>>

\* Mutant of OtherSessions: the session itself counts as used before.
AllSessions(r) == Completed

OtherSessions(r) == Completed \ {r}

OverPlan(r) ==
  NonNegative(charged[r] - NonNegative(PlanLimit - Tally(OtherSessions(r), charged)))

(* debit_conversation_extra_credits_v1.  Only the closer calls it, once, so *)
(* its marker extra_credits_debited_at is never found set.                  *)
DebitCredits(r) ==
  /\ settling[r] = "debit"
  /\ Then(r, "none")
  /\ \/ LET taken == Least(OverPlan(r), credit) IN
           credit' = credit - taken /\ debited' = [debited EXCEPT ![r] = taken]
     \/ r \in Faulty /\ UNCHANGED <<credit, debited>>
  /\ UNCHANGED <<ledgerVars, requestVars, client, row, granted, lent, clockVars,
                 billVars, attached, abandoned, crashes>>

-------------------------------------------------------------------------------
(* handleConversationSweep, every minute *)

\* Mutant of Silent: rows that never had a heartbeat are not listed.
SilentAfterBeat(r) == quiet[r] > Stale /\ seen[r] # Unseen

(* isHeartbeatStale: no heartbeat, or no start without one, within the      *)
(* stale window.                                                            *)
Silent(r) == quiet[r] > Stale

SweepLists ==
  /\ DOMAIN abandoned = {} /\ Free(Sweep)
  /\ \E r \in Open : Silent(r)
  /\ abandoned' =
       [r \in { q \in Open : Silent(q) } |-> [lastSeen |-> seen[r], reserves |-> r \in attached]]
  /\ UNCHANGED <<ledgerVars, requestVars, client, row, granted, lent, clockVars,
                 billVars, attached, settling, credit, debited, crashes>>

(* The row as it was listed is judged again and closed, whatever heartbeat  *)
(* came since.                                                              *)
SweepCloses(r) ==
  /\ r \in DOMAIN abandoned /\ Free(Sweep)
  /\ abandoned' = [q \in DOMAIN abandoned \ {r} |-> abandoned[q]]
  /\ Close(r, Sweep, AbandonedEnd(r, abandoned[r].lastSeen), abandoned[r].reserves)
  /\ UNCHANGED <<ledgerVars, requestVars, client, granted, lent,
                 attached, credit, debited, crashes>>

-------------------------------------------------------------------------------
(* Time and death *)

Tick ==
  /\ \E r \in Open : age[r] < Ceiling \/ quiet[r] <= Stale
  /\ age' = [r \in Keys |-> IF r \in Open THEN Least(age[r] + 1, Ceiling) ELSE age[r]]
  /\ quiet' = [r \in Keys |-> IF r \in Open THEN Least(quiet[r] + 1, Stale + 1) ELSE quiet[r]]
  /\ present' = [r \in Keys |-> IF r \in Open /\ client[r] = "talking" THEN age'[r] ELSE present[r]]
  /\ UNCHANGED <<ledgerVars, requestVars, client, row, granted, lent, seen, billVars,
                 attached, abandoned, settling, credit, debited, crashes>>

(* What a handler that dies had still to settle stays undone. *)
Drop(who) ==
  settling' = [r \in Keys |-> IF closer[r] = who THEN "none" ELSE settling[r]]

Crash ==
  /\ crashes < MaxCrashes
  /\ crashes' = crashes + 1
  /\ \/ \E k \in Keys :
          /\ stage[k] \notin {"list", "started", "denied"}
          /\ Deny(k) /\ listed' = [listed EXCEPT ![k] = NoListing]
          /\ offer' = [offer EXCEPT ![k] = NoOffer]
          /\ Drop(k)
          /\ UNCHANGED abandoned
     \/ /\ DOMAIN abandoned # {} \/ ~Free(Sweep)
        /\ abandoned' = NoListing
        /\ Drop(Sweep)
        /\ UNCHANGED requestVars
     \/ \E r \in Keys :
          /\ closer[r] = User /\ settling[r] # "none"
          /\ settling' = [settling EXCEPT ![r] = "none"]
          /\ UNCHANGED <<requestVars, abandoned>>
  /\ UNCHANGED <<ledgerVars, client, row, granted, lent, clockVars, billVars,
                 attached, credit, debited>>

Settle(r) == SettleBudget(r) \/ ParkBudget(r) \/ DebitCredits(r)

SessionsNext ==
  \/ \E k \in Keys :
       StartStep(k) \/ Heartbeat(k) \/ Leave(k) \/ CompleteSession(k) \/ Settle(k)
         \/ SweepCloses(k)
  \/ SweepLists
  \/ Tick
  \/ Crash

(* A handler runs on or dies, a conversation ends by the client's timer at  *)
(* the latest, time passes, and the cron fires every minute.                *)
SessionsFairness ==
  /\ \A k \in Keys :
       /\ WF_sessionVars(StartStep(k)) /\ WF_sessionVars(Leave(k))
       /\ WF_sessionVars(Settle(k)) /\ WF_sessionVars(SweepCloses(k))
  /\ WF_sessionVars(SweepLists)
  /\ WF_sessionVars(Tick)

SessionsSpec == SessionsInit /\ [][SessionsNext]_sessionVars /\ SessionsFairness

-------------------------------------------------------------------------------
(* Properties *)

(* What a closer knows of the rows it listed. *)
Listings == UNION { [rs -> [lastSeen : Unseen..Ceiling, elapsed : 0..Ceiling, reserves : BOOLEAN]]
                    : rs \in SUBSET Keys }
Sightings == UNION { [rs -> [lastSeen : Unseen..Ceiling, reserves : BOOLEAN]] : rs \in SUBSET Keys }

RequestsTypeOK ==
  /\ stage \in [Keys -> Stages]
  /\ offer \in [Keys -> [seconds : 0..Ceiling, extra : 0..Credits]]
  /\ listed \in [Keys -> Listings] /\ abandoned \in Sightings
  /\ client \in [Keys -> {"waiting", "talking", "gone"}]

RowsTypeOK ==
  /\ row \in [Keys -> RowStatuses]
  /\ granted \in [Keys -> 0..Ceiling] /\ lent \in [Keys -> 0..Ceiling]
  /\ age \in [Keys -> 0..Ceiling] /\ present \in [Keys -> 0..Ceiling]
  /\ seen \in [Keys -> Unseen..Ceiling] /\ quiet \in [Keys -> 0..(Stale + 1)]
  /\ charged \in [Keys -> 0..Ceiling]
  /\ attached \subseteq Keys

SettlingTypeOK ==
  /\ settling \in [Keys -> Settlements]
  /\ closer \in [Keys -> Keys \cup {Nobody, User, Sweep}]
  /\ credit \in 0..Credits /\ debited \in [Keys -> 0..Credits]
  /\ crashes \in 0..MaxCrashes

(* The types; a row is never charged more than it was granted. *)
SessionsTypeOK ==
  /\ LedgerTypeOK /\ RequestsTypeOK /\ RowsTypeOK /\ SettlingTypeOK
  /\ \A r \in Keys : charged[r] <= granted[r]

(* What open rows hold and closed rows have used never exceeds the plan,    *)
(* but for what credits were lent to a session on top of it: starts, ends,  *)
(* the sweep and unwinding may interleave as they like (authorize SQL).     *)
PlanPromisedOnce ==
  Tally(Open, granted) + Tally(Completed, charged) <= PlanLimit + Tally(Open \cup Completed, lent)

(* A session is billed once: whoever closes its row, the user, the sweep or *)
(* the next start, nobody who comes later changes its duration or its row,  *)
(* and its credits are debited once (guarded UPDATE, closeAuthorizationRow).*)
BilledOnce ==
  [][\A r \in Keys :
       /\ row[r] \in {"completed", "deleted"} => row'[r] = row[r] /\ charged'[r] = charged[r]
       /\ debited[r] > 0 => debited'[r] = debited[r]]_sessionVars

(* A user whose heartbeats stopped without a goodbye is billed the time he  *)
(* was there and at most one stale window, however late the sweep or the    *)
(* next start closes the row (abandonedEffectiveEndMs).                     *)
LastKnownBeat(r, who) == IF who = Sweep THEN abandoned[r].lastSeen ELSE listed[who][r].lastSeen
AbandonedBilledForPresence ==
  [][\A r \in Open :
       /\ row'[r] = "completed" /\ closer'[r] # User
       /\ LastKnownBeat(r, closer'[r]) # Unseen
       => charged'[r] <= present[r] + Stale]_sessionVars

(* As long as a user's sessions fit in the plan, no credit is debited, in   *)
(* whatever order they are closed and settled (debit SQL).                  *)
WithinPlanNeverDebited == Tally(Completed, charged) <= PlanLimit => credit = Credits

(* No authorisation stays open for ever, whichever handler dies, whatever   *)
(* the client does, and though the start never handed out its token.        *)
EveryRowCloses == \A r \in Keys : row[r] = "authorized" ~> row[r] # "authorized"

(* The rows and what is left to settle read as sessions of one purse.       *)
SessionPhase(r) ==
  CASE row[r] = "absent" -> "none"
    [] row[r] = "authorized" -> "open"
    [] row[r] = "deleted" -> "void"
    [] row[r] = "completed" /\ settling[r] # "none" -> "ended"
    [] row[r] = "completed" /\ settling[r] = "none" -> "closed"

PurseOf == [r \in Keys |-> SessionPhase(r)]

Purse == INSTANCE SessionPurse
           WITH phase <- PurseOf, given <- granted, loan <- lent, bill <- charged,
                purse <- credit, paid <- debited

(* The sessions implement the purse: whoever opens, supersedes, completes,  *)
(* sweeps, unwinds or settles them, each session begins, ends and is paid   *)
(* for at most once, and its seconds and credits are those of an atomic     *)
(* account.                                                                 *)
ImplementsPurse == Purse!PurseSpec

(* Every purchased second is still there or in the bill of one session.     *)
CreditsBalance == Purse!PurseBalances

(* Claims of the code's comments that it does not keep.                     *)

(* Only seconds beyond the plan are ever debited                            *)
(* (conversation-extra-credits-debit.ts:9-14).                              *)
DebitedWithinOverage ==
  Tally(Completed, debited) <= NonNegative(Tally(Completed, charged) - PlanLimit)

(* The budget reserved for a session that ran is reconciled when it is      *)
(* completed or swept (_realtime-budget.ts:36-40).                          *)
BudgetReconciled ==
  \A k \in Keys : stage[k] = "started" /\ status[k] = "pending" ~> status[k] # "pending"
===============================================================================
