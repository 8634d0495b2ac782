--------------------------- MODULE ConversationProofs --------------------------
(***************************************************************************)
(* Theorems about metered conversations, for any number of start requests, *)
(* any plan, credits, ceiling and stale window, any failures and deaths.   *)
(***************************************************************************)
EXTENDS ConversationSessions, UsageLedgerProofs

SessionTypes == RequestsTypeOK /\ RowsTypeOK /\ SettlingTypeOK

(* What a start lists are open rows with times that are possible.           *)
LEMMA Listed ==
  ASSUME NEW rs \in SUBSET Keys,
         NEW f \in [rs -> [lastSeen : Unseen..Ceiling, elapsed : 0..Ceiling, reserves : BOOLEAN]]
  PROVE  f \in Listings
BY DEF Listings

(* So is what the sweep lists.                                              *)
LEMMA Sighted ==
  ASSUME NEW rs \in SUBSET Keys, NEW f \in [rs -> [lastSeen : Unseen..Ceiling, reserves : BOOLEAN]]
  PROVE  f \in Sightings
BY DEF Sightings

(* A listing without one of its rows is a listing. *)
LEMMA Struck ==
  ASSUME NEW f \in Listings, NEW r
  PROVE  /\ [q \in DOMAIN f \ {r} |-> f[q]] \in Listings
         /\ r \in DOMAIN f =>
              /\ r \in Keys
              /\ f[r] \in [lastSeen : Unseen..Ceiling, elapsed : 0..Ceiling, reserves : BOOLEAN]
<1>1. PICK rs \in SUBSET Keys :
        f \in [rs -> [lastSeen : Unseen..Ceiling, elapsed : 0..Ceiling, reserves : BOOLEAN]]
  BY DEF Listings
<1>2. [q \in DOMAIN f \ {r} |-> f[q]]
        \in [rs \ {r} -> [lastSeen : Unseen..Ceiling, elapsed : 0..Ceiling, reserves : BOOLEAN]]
  BY <1>1
<1> QED
  BY <1>1, <1>2, Listed

(* The same for the sweep's list.                                           *)
LEMMA StruckSighting ==
  ASSUME NEW f \in Sightings, NEW r
  PROVE  /\ [q \in DOMAIN f \ {r} |-> f[q]] \in Sightings
         /\ r \in DOMAIN f => r \in Keys /\ f[r] \in [lastSeen : Unseen..Ceiling, reserves : BOOLEAN]
<1>1. PICK rs \in SUBSET Keys : f \in [rs -> [lastSeen : Unseen..Ceiling, reserves : BOOLEAN]]
  BY DEF Sightings
<1>2. [q \in DOMAIN f \ {r} |-> f[q]] \in [rs \ {r} -> [lastSeen : Unseen..Ceiling, reserves : BOOLEAN]]
  BY <1>1
<1> QED
  BY <1>1, <1>2, Sighted

(* Nothing listed is a listing.                                             *)
LEMMA EmptyListing == NoListing \in Listings /\ NoListing \in Sightings
<1>1. {} \in SUBSET Keys
  OBVIOUS
<1> QED
  BY <1>1, Listed, Sighted DEF NoListing

(* The balances are numbers. *)
LEMMA BalancesAreNatural ==
  ASSUME RowsTypeOK
  PROVE  /\ IsFiniteSet(Open) /\ IsFiniteSet(Completed)
         /\ ShownRemaining \in Nat /\ BaseRemaining \in Nat
         /\ Tally(Open, granted) \in Nat /\ Tally(Completed, charged) \in Nat
         /\ Tally(Open \cup Completed, lent) \in Nat
         /\ \A r \in Keys : Tally(OtherSessions(r), charged) \in Nat
<1> USE SessionsAssumption
<1>1. Ceiling \in Nat
  OBVIOUS
<1>2. /\ IsFiniteSet(Open) /\ IsFiniteSet(Completed) /\ IsFiniteSet(Open \cup Completed)
      /\ \A r \in Keys : IsFiniteSet(OtherSessions(r))
  BY LedgerAssumption, FS_Subset DEF Open, Completed, OtherSessions
<1>3. \A r \in Keys : LiveUse[r] \in 0..Ceiling
  BY DEF LiveUse, Billable, AbandonedEnd, Least, RowsTypeOK, Unseen
<1>4. Tally(Open \cup Completed, LiveUse) \in Nat
  BY <1>1, <1>2, <1>3, UnitsFinite DEF Open, Completed
<1>5. Tally(Open, [r \in Keys |-> Held(r)]) \in Nat
  BY <1>1, <1>2, UnitsFinite DEF Held, Open, RowsTypeOK
<1>6. /\ Tally(Open, granted) \in Nat /\ Tally(Completed, charged) \in Nat
      /\ Tally(Open \cup Completed, lent) \in Nat
      /\ \A r \in Keys : Tally(OtherSessions(r), charged) \in Nat
  BY <1>1, <1>2, UnitsFinite DEF Open, Completed, OtherSessions, RowsTypeOK
<1> QED
  BY <1>2, <1>4, <1>5, <1>6 DEF ShownRemaining, BaseRemaining, NonNegative

-------------------------------------------------------------------------------
(* Types.  What an action does to the rows, it does by Close, by Rewind or  *)
(* by one field of one row.                                                 *)

(* Rewinding the clocks of a closed row keeps the types.                    *)
LEMMA RewindTypes ==
  ASSUME RowsTypeOK, NEW r \in Keys, Rewind(r)
  PROVE  /\ age' \in [Keys -> 0..Ceiling] /\ present' \in [Keys -> 0..Ceiling]
         /\ seen' \in [Keys -> Unseen..Ceiling] /\ quiet' \in [Keys -> 0..(Stale + 1)]
BY SessionsAssumption DEF RowsTypeOK, Rewind, Unseen

(* So does closing a row with a possible duration.                          *)
LEMMA CloseTypes ==
  ASSUME RowsTypeOK, SettlingTypeOK, NEW r \in Keys, NEW who \in Keys \cup {User, Sweep},
         NEW elapsed \in 0..Ceiling, NEW reserves \in BOOLEAN, Close(r, who, elapsed, reserves),
         UNCHANGED <<granted, lent, attached, credit, debited, crashes>>
  PROVE  RowsTypeOK' /\ SettlingTypeOK'
<1>1. Billable(r, elapsed) \in 0..Ceiling
  BY DEF Billable, Least, RowsTypeOK
<1>2. CASE StillOpen(r) /\ Rewind(r)
  BY <1>1, <1>2, RewindTypes
     DEF Close, RowsTypeOK, SettlingTypeOK, RowStatuses, Settlements
<1>3. CASE ~StillOpen(r)
  BY <1>3 DEF Close, RowsTypeOK, SettlingTypeOK, billVars, clockVars
<1> QED
  BY <1>2, <1>3 DEF Close

(* A request that moves on keeps the types.                                 *)
LEMMA StageTypes ==
  ASSUME RequestsTypeOK, NEW k \in Keys, NEW next \in Stages, Goto(k, next)
  PROVE  stage' \in [Keys -> Stages]
BY DEF RequestsTypeOK, Goto

(* Every round trip of a start keeps the types.                             *)
LEMMA StartTypes ==
  ASSUME SessionTypes, NEW k \in Keys, StartStep(k)
  PROVE  SessionTypes'
<1> USE DEF SessionTypes
<1>s. \A next \in Stages : Goto(k, next) => stage' \in [Keys -> Stages]
  BY StageTypes
<1>1. CASE ListOpen(k)
  <2>1. [r \in Open |-> [lastSeen |-> seen[r], elapsed |-> SupersededEnd(r), reserves |-> r \in attached]]
          \in Listings
    <3>1. \A r \in Open : r \in Keys /\ seen[r] \in Unseen..Ceiling /\ SupersededEnd(r) \in 0..Ceiling
      BY DEF Open, SupersededEnd, RowsTypeOK, Unseen
    <3>2. [r \in Open |->
             [lastSeen |-> seen[r], elapsed |-> SupersededEnd(r), reserves |-> r \in attached]]
            \in [Open -> [lastSeen : Unseen..Ceiling, elapsed : 0..Ceiling, reserves : BOOLEAN]]
      BY <3>1
    <3> QED
      BY <3>2, Listed DEF Open
  <2>2. RequestsTypeOK'
    BY <1>1, <1>s, <2>1 DEF ListOpen, RequestsTypeOK, Stages
  <2> QED
    BY <1>1, <2>2 DEF ListOpen, RowsTypeOK, SettlingTypeOK, clockVars, billVars
<1>2. ASSUME NEW r \in DOMAIN listed[k], Supersede(k, r)
      PROVE  SessionTypes'
  <2>1. /\ listed[k] \in Listings /\ r \in Keys
        /\ listed[k][r].elapsed \in 0..Ceiling /\ listed[k][r].reserves \in BOOLEAN
    BY <1>2, Struck DEF RequestsTypeOK
  <2>2. RequestsTypeOK'
    BY <1>2, <2>1, Struck DEF Supersede, RequestsTypeOK
  <2>3. CASE Close(r, k, listed[k][r].elapsed, listed[k][r].reserves)
    BY <1>2, <2>1, <2>2, <2>3, CloseTypes DEF Supersede
  <2>4. CASE UNCHANGED <<row, billVars, settling, clockVars>>
    BY <1>2, <2>2, <2>4 DEF Supersede, RowsTypeOK, SettlingTypeOK, billVars, clockVars
  <2> QED
    BY <1>2, <2>3, <2>4 DEF Supersede
<1>3. CASE TakeSnapshot(k)
  <2>1. RequestsTypeOK'
    BY <1>3, <1>s, BalancesAreNatural, SessionsAssumption
       DEF TakeSnapshot, RequestsTypeOK, SettlingTypeOK, Stages, Deny, Least
  <2> QED
    BY <1>3, <2>1 DEF TakeSnapshot, RowsTypeOK, SettlingTypeOK, clockVars, billVars
<1>4. CASE Authorize(k)
  <2>1. RequestsTypeOK'
    BY <1>4, <1>s, SessionsAssumption DEF Authorize, RequestsTypeOK, Stages, Deny, NoOffer
  <2>2. RowsTypeOK'
    <3> DEFINE most == Least(offer[k].seconds, BaseRemaining + offer[k].extra)
    <3>1. offer[k].seconds \in 0..Ceiling /\ offer[k].extra \in Nat
      BY SessionsAssumption DEF RequestsTypeOK
    <3>2. most \in 0..Ceiling /\ NonNegative(most - BaseRemaining) \in 0..Ceiling
      BY <3>1, BalancesAreNatural, SessionsAssumption DEF Least, NonNegative
    <3>3. \/ /\ row' = [row EXCEPT ![k] = "authorized"]
             /\ granted' = [granted EXCEPT ![k] = most]
             /\ lent' = [lent EXCEPT ![k] = NonNegative(most - BaseRemaining)]
          \/ UNCHANGED <<row, granted, lent>>
      BY <1>4 DEF Authorize
    <3> QED
      BY <1>4, <3>2, <3>3 DEF Authorize, RowsTypeOK, RowStatuses, clockVars, billVars
  <2> QED
    BY <1>4, <2>1, <2>2 DEF Authorize, SettlingTypeOK, billVars
<1>5. CASE ReserveBudget(k)
  BY <1>5, <1>s
     DEF ReserveBudget, RequestsTypeOK, RowsTypeOK, SettlingTypeOK, Stages, Deny, clockVars, billVars
<1>6. CASE MintToken(k)
  BY <1>6, <1>s
     DEF MintToken, RequestsTypeOK, RowsTypeOK, SettlingTypeOK, Stages, Deny, clockVars, billVars
<1>7. CASE UnwindBudget(k)
  BY <1>7, <1>s
     DEF UnwindBudget, RequestsTypeOK, RowsTypeOK, SettlingTypeOK, Stages, clockVars, billVars
<1>8. CASE UnwindRow(k)
  <2>1. RequestsTypeOK'
    BY <1>8, <1>s DEF UnwindRow, RequestsTypeOK, Stages, Deny
  <2>2. RowsTypeOK'
    BY <1>8, RewindTypes DEF UnwindRow, RowsTypeOK, RowStatuses, clockVars, billVars
  <2> QED
    BY <1>8, <2>1, <2>2 DEF UnwindRow, SettlingTypeOK, billVars
<1>9. CASE Attach(k)
  BY <1>9, <1>s
     DEF Attach, RequestsTypeOK, RowsTypeOK, SettlingTypeOK, Stages, clockVars, billVars
<1>10. CASE FreezeAndAnswer(k)
  BY <1>10, <1>s
     DEF FreezeAndAnswer, RequestsTypeOK, RowsTypeOK, SettlingTypeOK, Stages, Deny, billVars
<1> QED
  BY <1>1, <1>2, <1>3, <1>4, <1>5, <1>6, <1>7, <1>8, <1>9, <1>10 DEF StartStep

(* So does every step.                                                      *)
LEMMA TypesStep ==
  ASSUME SessionTypes, [SessionsNext]_sessionVars
  PROVE  SessionTypes'
<1>1. ASSUME NEW k \in Keys, Heartbeat(k)
      PROVE  SessionTypes'
  BY <1>1, SessionsAssumption
     DEF SessionTypes, Heartbeat, RequestsTypeOK, RowsTypeOK, SettlingTypeOK, requestVars, billVars, Unseen
<1>2. ASSUME NEW k \in Keys, Leave(k)
      PROVE  SessionTypes'
  BY <1>2
     DEF SessionTypes, Leave, RequestsTypeOK, RowsTypeOK, SettlingTypeOK, requestVars, clockVars, billVars
<1>3. ASSUME NEW k \in Keys, CompleteSession(k)
      PROVE  SessionTypes'
  <2>1. age[k] \in 0..Ceiling /\ (k \in attached) \in BOOLEAN /\ Close(k, User, age[k], k \in attached)
    BY <1>3 DEF CompleteSession, SessionTypes, RowsTypeOK
  <2>2. UNCHANGED <<granted, lent, attached, credit, debited, crashes>>
    BY <1>3 DEF CompleteSession
  <2>3. RowsTypeOK' /\ SettlingTypeOK'
    BY <2>1, <2>2, CloseTypes DEF SessionTypes
  <2> QED
    BY <1>3, <2>3 DEF SessionTypes, CompleteSession, RequestsTypeOK, requestVars
<1>4. ASSUME NEW k \in Keys, Settle(k)
      PROVE  SessionTypes'
  <2>1. settling' \in [Keys -> Settlements]
    BY <1>4 DEF SessionTypes, SettlingTypeOK, Settle, SettleBudget, ParkBudget, DebitCredits, Then, Settlements
  <2>2. CASE SettleBudget(k) \/ ParkBudget(k)
    BY <2>1, <2>2 DEF SettleBudget, ParkBudget, SessionTypes, RequestsTypeOK, RowsTypeOK, SettlingTypeOK,
       requestVars, clockVars, billVars
  <2>3. CASE DebitCredits(k)
    <3>1. OverPlan(k) \in Nat
      <4>1. charged[k] \in Nat /\ PlanLimit \in Nat /\ Tally(OtherSessions(k), charged) \in Nat
        BY BalancesAreNatural, SessionsAssumption DEF SessionTypes, RowsTypeOK
      <4> QED
        BY <4>1 DEF OverPlan, NonNegative
    <3>2. credit' \in 0..Credits /\ debited' \in [Keys -> 0..Credits]
      BY <2>3, <3>1, SessionsAssumption DEF DebitCredits, SessionTypes, SettlingTypeOK, Least
    <3> QED
      BY <2>1, <2>3, <3>2 DEF DebitCredits, SessionTypes, RequestsTypeOK, RowsTypeOK, SettlingTypeOK,
         requestVars, clockVars, billVars
  <2> QED
    BY <1>4, <2>2, <2>3 DEF Settle
<1>5. ASSUME NEW k \in Keys, SweepCloses(k)
      PROVE  SessionTypes'
  <2>1. abandoned[k] \in [lastSeen : Unseen..Ceiling, reserves : BOOLEAN] /\ abandoned' \in Sightings
    BY <1>5, StruckSighting DEF SweepCloses, SessionTypes, RequestsTypeOK
  <2>2. AbandonedEnd(k, abandoned[k].lastSeen) \in 0..Ceiling
    <3>1. abandoned[k].lastSeen \in Unseen..Ceiling /\ age[k] \in 0..Ceiling /\ Stale \in Nat
      BY <2>1, SessionsAssumption DEF SessionTypes, RowsTypeOK
    <3> QED
      BY <3>1, SessionsAssumption DEF AbandonedEnd, Least, Unseen
  <2>3. RowsTypeOK' /\ SettlingTypeOK'
    BY <1>5, <2>1, <2>2, CloseTypes DEF SweepCloses, SessionTypes
  <2> QED
    BY <1>5, <2>1, <2>3 DEF SessionTypes, SweepCloses, RequestsTypeOK, requestVars
<1>6. CASE SweepLists
  <2>1. abandoned' \in Sightings
    <3> DEFINE rs == { q \in Open : Silent(q) }
    <3>1. rs \in SUBSET Keys /\ \A r \in rs : seen[r] \in Unseen..Ceiling
      BY DEF Open, SessionTypes, RowsTypeOK
    <3>2. [r \in rs |-> [lastSeen |-> seen[r], reserves |-> r \in attached]]
            \in [rs -> [lastSeen : Unseen..Ceiling, reserves : BOOLEAN]]
      BY <3>1
    <3> QED
      BY <1>6, <3>1, <3>2, Sighted DEF SweepLists
  <2> QED
    BY <1>6, <2>1 DEF SweepLists, SessionTypes, RequestsTypeOK, RowsTypeOK, SettlingTypeOK,
       requestVars, clockVars, billVars
<1>7. CASE Tick
  <2>1. /\ age' \in [Keys -> 0..Ceiling] /\ quiet' \in [Keys -> 0..(Stale + 1)]
    <3>1. \A r \in Keys : /\ age[r] \in 0..Ceiling /\ Least(age[r] + 1, Ceiling) \in 0..Ceiling
                          /\ quiet[r] \in 0..(Stale + 1) /\ Least(quiet[r] + 1, Stale + 1) \in 0..(Stale + 1)
      BY SessionsAssumption DEF SessionTypes, RowsTypeOK, Least
    <3> QED
      BY <1>7, <3>1 DEF Tick
  <2>2. present' \in [Keys -> 0..Ceiling]
    BY <1>7, <2>1 DEF Tick, SessionTypes, RowsTypeOK
  <2> QED
    BY <1>7, <2>1, <2>2 DEF Tick, SessionTypes, RequestsTypeOK, RowsTypeOK, SettlingTypeOK,
       requestVars, billVars
<1>8. CASE Crash
  <2>1. crashes' \in 0..MaxCrashes
    BY <1>8, SessionsAssumption DEF Crash, SessionTypes, SettlingTypeOK
  <2>2. settling' \in [Keys -> Settlements]
    BY <1>8 DEF Crash, Drop, SessionTypes, SettlingTypeOK, Settlements
  <2>3. RequestsTypeOK'
    <3>1. ASSUME NEW k \in Keys, Deny(k), listed' = [listed EXCEPT ![k] = NoListing],
                 offer' = [offer EXCEPT ![k] = NoOffer], UNCHANGED <<abandoned, client>>
          PROVE  RequestsTypeOK'
      <4>1. stage' \in [Keys -> Stages]
        BY <3>1, StageTypes DEF Deny, Stages, SessionTypes
      <4>2. listed' \in [Keys -> Listings]
        BY <3>1, EmptyListing DEF SessionTypes, RequestsTypeOK
      <4>3. NoOffer \in [seconds : 0..Ceiling, extra : 0..Credits]
        BY SessionsAssumption DEF NoOffer
      <4>4. offer' \in [Keys -> [seconds : 0..Ceiling, extra : 0..Credits]]
        BY <3>1, <4>3 DEF SessionTypes, RequestsTypeOK
      <4> QED
        BY <3>1, <4>1, <4>2, <4>4 DEF SessionTypes, RequestsTypeOK
    <3>2. CASE UNCHANGED <<stage, offer, listed, client>> /\ abandoned' \in Sightings
      BY <3>2 DEF SessionTypes, RequestsTypeOK
    <3>3. NoListing \in Sightings /\ abandoned \in Sightings
      BY EmptyListing DEF SessionTypes, RequestsTypeOK
    <3> QED
      BY <1>8, <3>1, <3>2, <3>3 DEF Crash, requestVars
  <2> QED
    BY <1>8, <2>1, <2>2, <2>3 DEF Crash, SessionTypes, RowsTypeOK, SettlingTypeOK, clockVars, billVars
<1>9. CASE UNCHANGED sessionVars
  BY <1>9 DEF sessionVars, requestVars, clockVars, billVars,
     SessionTypes, RequestsTypeOK, RowsTypeOK, SettlingTypeOK
<1> QED
  BY <1>1, <1>2, <1>3, <1>4, <1>5, <1>6, <1>7, <1>8, <1>9, StartTypes DEF SessionsNext

(* The initial state is well typed.                                         *)
LEMMA TypesInit == SessionsInit => SessionTypes
BY EmptyListing, SessionsAssumption
   DEF SessionsInit, SessionTypes, RequestsTypeOK, RowsTypeOK, SettlingTypeOK,
       Stages, RowStatuses, Settlements, NoOffer, Unseen, Nobody

(* The types hold for ever.                                                 *)
LEMMA TypesInvariant == SessionsSpec => []SessionTypes
BY TypesInit, TypesStep, PTL DEF SessionsSpec

-------------------------------------------------------------------------------
(* What any step does to the rows: one is authorised, closed or deleted, or *)
(* they keep what the plan is reckoned by.                                  *)

Early == {"list", "supersede", "authorize"}

Opened(k) ==
  /\ row[k] = "absent" /\ row' = [row EXCEPT ![k] = "authorized"]
  /\ stage' = [stage EXCEPT ![k] = stage'[k]] /\ stage'[k] \notin Early
  /\ \E most \in 1..Ceiling :
       /\ granted' = [granted EXCEPT ![k] = most]
       /\ lent' = [lent EXCEPT ![k] = NonNegative(most - BaseRemaining)]
  /\ charged' = charged

Closed(r) ==
  /\ row[r] = "authorized" /\ row' = [row EXCEPT ![r] = "completed"]
  /\ \E n \in 0..granted[r] : charged' = [charged EXCEPT ![r] = n]
  /\ UNCHANGED <<granted, lent>>

Deleted(r) ==
  /\ row[r] = "authorized" /\ row' = [row EXCEPT ![r] = "deleted"]
  /\ UNCHANGED <<granted, lent, charged>>

(* A request that has not asked for its authorisation yet has no row. *)
RowsFollowRequests == \A k \in Keys : stage[k] \in Early => row[k] = "absent"

(* A guarded close either closes its row or leaves the balance alone.       *)
LEMMA CloseIsClosed ==
  ASSUME RowsTypeOK, NEW r \in Keys, NEW who, NEW elapsed \in 0..Ceiling, NEW reserves,
         Close(r, who, elapsed, reserves), UNCHANGED <<granted, lent>>
  PROVE  Closed(r) \/ UNCHANGED <<row, granted, lent, charged>>
<1>1. Billable(r, elapsed) \in 0..granted[r]
  BY SessionsAssumption DEF Billable, Least, RowsTypeOK
<1> QED
  BY <1>1 DEF Close, StillOpen, Closed, billVars

(* These are all the moves of the rows there are.                           *)
LEMMA RowStep ==
  ASSUME SessionTypes, RowsFollowRequests, [SessionsNext]_sessionVars
  PROVE  \/ UNCHANGED <<row, granted, lent, charged>>
         \/ \E k \in Keys : Opened(k)
         \/ \E r \in Keys : Closed(r)
         \/ \E r \in Keys : Deleted(r)
<1>1. ASSUME NEW k \in Keys, NEW r \in DOMAIN listed[k], Supersede(k, r)
      PROVE  r \in Keys /\ (Closed(r) \/ UNCHANGED <<row, granted, lent, charged>>)
  <2>1. r \in Keys /\ listed[k][r].elapsed \in 0..Ceiling
    BY Struck DEF SessionTypes, RequestsTypeOK
  <2>2. CASE Close(r, k, listed[k][r].elapsed, listed[k][r].reserves)
    BY <1>1, <2>1, <2>2, CloseIsClosed DEF Supersede, SessionTypes
  <2> QED
    BY <1>1, <2>1, <2>2 DEF Supersede, billVars
<1>2. ASSUME NEW k \in Keys, Authorize(k)
      PROVE  Opened(k) \/ UNCHANGED <<row, granted, lent, charged>>
  <2> DEFINE most == Least(offer[k].seconds, BaseRemaining + offer[k].extra)
  <2>1. row[k] = "absent" /\ offer[k].seconds \in 0..Ceiling /\ offer[k].extra \in Nat
    BY <1>2, SessionsAssumption DEF Authorize, RowsFollowRequests, Early, SessionTypes, RequestsTypeOK
  <2>2. most > 0 => most \in 1..Ceiling
    BY <2>1, BalancesAreNatural, SessionsAssumption DEF SessionTypes, Least
  <2>3. CASE /\ most > 0
             /\ row' = [row EXCEPT ![k] = "authorized"]
             /\ granted' = [granted EXCEPT ![k] = most]
             /\ lent' = [lent EXCEPT ![k] = NonNegative(most - BaseRemaining)]
             /\ Goto(k, "budget") \/ Deny(k)
    BY <1>2, <2>1, <2>2, <2>3
       DEF Authorize, Opened, Goto, Deny, Early, billVars, SessionTypes, RequestsTypeOK
  <2>4. CASE UNCHANGED <<row, granted, lent>>
    BY <1>2, <2>4 DEF Authorize, billVars
  <2> QED
    BY <1>2, <2>3, <2>4 DEF Authorize
<1>3. ASSUME NEW k \in Keys, StartStep(k)
      PROVE  \/ UNCHANGED <<row, granted, lent, charged>>
             \/ Opened(k) \/ Deleted(k) \/ \E r \in Keys : Closed(r)
  <2>1. CASE UnwindRow(k)
    BY <2>1 DEF UnwindRow, Deleted, StillOpen, billVars
  <2>2. CASE \/ ListOpen(k) \/ TakeSnapshot(k) \/ ReserveBudget(k) \/ MintToken(k) \/ UnwindBudget(k)
             \/ Attach(k) \/ FreezeAndAnswer(k)
    BY <2>2
       DEF ListOpen, TakeSnapshot, ReserveBudget, MintToken, UnwindBudget, Attach, FreezeAndAnswer, billVars
  <2> QED
    BY <1>1, <1>2, <1>3, <2>1, <2>2 DEF StartStep
<1>4. ASSUME NEW k \in Keys, CompleteSession(k)
      PROVE  Closed(k) \/ UNCHANGED <<row, granted, lent, charged>>
  <2>1. age[k] \in 0..Ceiling
    BY DEF SessionTypes, RowsTypeOK
  <2> QED
    BY <1>4, <2>1, CloseIsClosed DEF CompleteSession, SessionTypes
<1>5. ASSUME NEW k \in Keys, SweepCloses(k)
      PROVE  Closed(k) \/ UNCHANGED <<row, granted, lent, charged>>
  <2>1. abandoned[k] \in [lastSeen : Unseen..Ceiling, reserves : BOOLEAN]
    BY <1>5, StruckSighting DEF SweepCloses, SessionTypes, RequestsTypeOK
  <2>2. AbandonedEnd(k, abandoned[k].lastSeen) \in 0..Ceiling
    <3>1. abandoned[k].lastSeen \in Unseen..Ceiling /\ age[k] \in 0..Ceiling /\ Stale \in Nat
      BY <2>1, SessionsAssumption DEF SessionTypes, RowsTypeOK
    <3> QED
      BY <3>1, SessionsAssumption DEF AbandonedEnd, Least, Unseen
  <2> QED
    BY <1>5, <2>2, CloseIsClosed DEF SweepCloses, SessionTypes
<1>6. ASSUME NEW k \in Keys, Heartbeat(k) \/ Leave(k) \/ Settle(k)
      PROVE  UNCHANGED <<row, granted, lent, charged>>
  BY <1>6 DEF Heartbeat, Leave, Settle, SettleBudget, ParkBudget, DebitCredits, billVars
<1>7. CASE SweepLists \/ Tick \/ Crash \/ UNCHANGED sessionVars
  BY <1>7 DEF SweepLists, Tick, Crash, sessionVars, billVars
<1> QED
  BY <1>3, <1>4, <1>5, <1>6, <1>7 DEF SessionsNext

-------------------------------------------------------------------------------
(* The plan's seconds.  The bound alone is not inductive: opening a row     *)
(* needs that it did not exist, closing one that it is charged no more than *)
(* it holds, deleting one that it was lent no more than it holds.           *)

GrantsConsistent ==
  \A r \in Keys :
    /\ lent[r] <= granted[r] /\ charged[r] <= granted[r]
    /\ row[r] \in {"absent", "authorized"} => charged[r] = 0

RowsInv == SessionTypes /\ RowsFollowRequests /\ GrantsConsistent /\ PlanPromisedOnce

(* No step takes a request back to where it has not asked yet. *)
LEMMA StagesAdvance ==
  ASSUME SessionTypes, [SessionsNext]_sessionVars, NEW k \in Keys, stage'[k] \in Early
  PROVE  stage[k] \in Early
<1>1. ASSUME NEW c \in Keys, StartStep(c)
      PROVE  \/ UNCHANGED stage
             \/ stage[c] \in Early
             \/ \E next \in Stages \ Early : Goto(c, next)
  BY <1>1 DEF StartStep, ListOpen, Supersede, TakeSnapshot, Authorize, ReserveBudget, MintToken,
     UnwindBudget, UnwindRow, Attach, FreezeAndAnswer, Deny, Goto, Early, Stages
<1>2. ASSUME NEW c \in Keys, StartStep(c)
      PROVE  \A q \in Keys : q # c => stage'[q] = stage[q]
  BY <1>2 DEF StartStep, ListOpen, Supersede, TakeSnapshot, Authorize, ReserveBudget, MintToken,
     UnwindBudget, UnwindRow, Attach, FreezeAndAnswer, Deny, Goto, SessionTypes, RequestsTypeOK
<1>3. ASSUME NEW c \in Keys, StartStep(c)
      PROVE  stage[k] \in Early
  BY <1>1, <1>2, <1>3 DEF Goto, SessionTypes, RequestsTypeOK
<1>4. ASSUME NEW c \in Keys,
             Heartbeat(c) \/ Leave(c) \/ CompleteSession(c) \/ Settle(c) \/ SweepCloses(c)
      PROVE  UNCHANGED stage
  BY <1>4 DEF Heartbeat, Leave, CompleteSession, Settle, SettleBudget, ParkBudget, DebitCredits,
     SweepCloses, requestVars
<1>5. CASE SweepLists \/ Tick \/ UNCHANGED sessionVars
  BY <1>5 DEF SweepLists, Tick, sessionVars, requestVars
<1>6. CASE Crash
  BY <1>6 DEF Crash, Deny, Goto, Early, SessionTypes, RequestsTypeOK, requestVars
<1> QED
  BY <1>3, <1>4, <1>5, <1>6 DEF SessionsNext

(* An authorisation promises what is left of the plan, and borrows the rest. *)
LEMMA OpenedKeepsPlan ==
  ASSUME RowsInv, NEW k \in Keys, Opened(k)
  PROVE  GrantsConsistent' /\ PlanPromisedOnce'
<1> USE DEF RowsInv, SessionTypes
<1>1. PICK most \in 1..Ceiling :
        /\ granted' = [granted EXCEPT ![k] = most]
        /\ lent' = [lent EXCEPT ![k] = NonNegative(most - BaseRemaining)]
  BY DEF Opened
<1>2. /\ IsFiniteSet(Open) /\ IsFiniteSet(Completed) /\ IsFiniteSet(Open \cup Completed)
      /\ BaseRemaining \in Nat /\ Ceiling \in Nat /\ PlanLimit \in Nat
      /\ Tally(Open, granted) \in Nat /\ Tally(Completed, charged) \in Nat
      /\ Tally(Open \cup Completed, lent) \in Nat
  BY BalancesAreNatural, FS_Union, SessionsAssumption
<1>3. /\ k \notin Open /\ k \notin Completed
      /\ Open' = Open \cup {k} /\ Completed' = Completed
      /\ Open' \cup Completed' = (Open \cup Completed) \cup {k}
  BY DEF Opened, Open, Completed, RowsTypeOK
<1>4. NonNegative(most - BaseRemaining) \in 0..Ceiling /\ NonNegative(most - BaseRemaining) <= most
  BY <1>2 DEF NonNegative
<1>5. /\ granted'[k] = most /\ lent'[k] = NonNegative(most - BaseRemaining)
      /\ \A r \in Keys : r # k => granted'[r] = granted[r] /\ lent'[r] = lent[r]
      /\ \A r \in Keys : granted[r] \in 0..Ceiling /\ lent[r] \in 0..Ceiling /\ charged[r] \in 0..Ceiling
  BY <1>1 DEF RowsTypeOK
<1>6. Tally(Open', granted') = Tally(Open, granted) + most
  <2>1. \A q \in Open : granted'[q] = granted[q] /\ granted[q] \in 0..Ceiling
    BY <1>3, <1>5 DEF Open
  <2>2. granted'[k] \in 0..Ceiling
    BY <1>2, <1>5
  <2> QED
    BY <1>2, <1>3, <1>5, <2>1, <2>2, TallyEnter
<1>7. Tally((Open \cup Completed)', lent') = Tally(Open \cup Completed, lent) + lent'[k]
  <2> DEFINE old == Open \cup Completed
  <2>1. \A q \in old : lent'[q] = lent[q] /\ lent[q] \in 0..Ceiling
    BY <1>3, <1>5 DEF Open, Completed
  <2>2. lent'[k] \in 0..Ceiling /\ k \notin old /\ IsFiniteSet(old) /\ old' = old \cup {k}
    BY <1>2, <1>3, <1>4, <1>5
  <2> HIDE DEF old
  <2>3. Tally(old', lent') = Tally(old, lent) + lent'[k]
    BY <1>2, <2>1, <2>2, TallyEnter
  <2> QED
    BY <2>3 DEF old
<1>8. Tally(Completed', charged') = Tally(Completed, charged)
  BY <1>3 DEF Opened
<1>9. BaseRemaining = NonNegative(PlanLimit - Tally(Open, granted) - Tally(Completed, charged))
  <2>1. Tally(Open, [r \in Keys |-> Held(r)]) = Tally(Open, granted)
    BY TallySame DEF Open, Held
  <2> QED
    BY <2>1 DEF BaseRemaining
<1>10. PlanPromisedOnce'
  BY <1>2, <1>5, <1>6, <1>7, <1>8, <1>9 DEF PlanPromisedOnce, NonNegative
<1>11. GrantsConsistent'
  BY <1>4, <1>5 DEF GrantsConsistent, Opened, RowsTypeOK
<1> QED
  BY <1>10, <1>11

(* A closed row uses no more than it held.                                  *)
LEMMA ClosedKeepsPlan ==
  ASSUME RowsInv, NEW r \in Keys, Closed(r)
  PROVE  GrantsConsistent' /\ PlanPromisedOnce'
<1> USE DEF RowsInv, SessionTypes
<1>1. PICK n \in 0..granted[r] : charged' = [charged EXCEPT ![r] = n]
  BY DEF Closed
<1>2. /\ IsFiniteSet(Open) /\ IsFiniteSet(Completed) /\ Ceiling \in Nat /\ PlanLimit \in Nat
      /\ Tally(Open, granted) \in Nat /\ Tally(Completed, charged) \in Nat
      /\ Tally(Open \cup Completed, lent) \in Nat
  BY BalancesAreNatural, SessionsAssumption
<1>3. /\ r \in Open /\ r \notin Completed
      /\ Open' = Open \ {r} /\ Completed' = Completed \cup {r}
      /\ (Open \cup Completed)' = Open \cup Completed
  BY DEF Closed, Open, Completed, RowsTypeOK
<1>4. /\ charged'[r] = n /\ n \in 0..Ceiling /\ n <= granted[r]
      /\ \A q \in Keys : q # r => charged'[q] = charged[q]
      /\ \A q \in Keys : granted[q] \in 0..Ceiling /\ charged[q] \in 0..Ceiling
  BY <1>1, <1>2 DEF RowsTypeOK
<1>5. Tally(Open', granted) = Tally(Open, granted) - granted[r]
  <2>1. \A q \in Open : granted[q] \in 0..Ceiling
    BY <1>4 DEF Open
  <2> QED
    BY <1>2, <1>3, <2>1, TallyLeave
<1>6. Tally(Completed', charged') = Tally(Completed, charged) + n
  <2>1. \A q \in Completed : charged'[q] = charged[q] /\ charged[q] \in 0..Ceiling
    BY <1>3, <1>4 DEF Completed
  <2> QED
    BY <1>2, <1>3, <1>4, <2>1, TallyEnter
<1>7. PlanPromisedOnce'
  <2>1. granted' = granted /\ lent' = lent
    BY DEF Closed
  <2>2. Tally((Open \cup Completed)', lent') = Tally(Open \cup Completed, lent)
    BY <1>3, <2>1
  <2>3. granted[r] \in Nat /\ n \in Nat /\ n <= granted[r] /\ granted[r] <= Tally(Open, granted)
    <3>1. \A q \in Open : granted[q] \in 0..Ceiling
      BY <1>4 DEF Open
    <3>2. Tally(Open \ {r}, granted) = Tally(Open, granted) - granted[r] /\ granted[r] <= Tally(Open, granted)
      BY <1>2, <1>3, <3>1, TallyLeave
    <3> QED
      BY <1>4, <3>2
  <2>4. Tally(Open, granted) + Tally(Completed, charged) <= PlanLimit + Tally(Open \cup Completed, lent)
    BY DEF PlanPromisedOnce
  <2>5. Tally(Open', granted') = Tally(Open, granted) - granted[r]
    BY <1>5, <2>1
  <2> QED
    BY <1>2, <1>6, <2>2, <2>3, <2>4, <2>5 DEF PlanPromisedOnce
<1>8. GrantsConsistent'
  BY <1>1, <1>4 DEF GrantsConsistent, Closed, RowsTypeOK
<1> QED
  BY <1>7, <1>8

(* A deleted row frees at least what it borrowed.                           *)
LEMMA DeletedKeepsPlan ==
  ASSUME RowsInv, NEW r \in Keys, Deleted(r)
  PROVE  GrantsConsistent' /\ PlanPromisedOnce'
<1> USE DEF RowsInv, SessionTypes
<1>1. /\ IsFiniteSet(Open) /\ IsFiniteSet(Open \cup Completed) /\ Ceiling \in Nat /\ PlanLimit \in Nat
      /\ Tally(Open, granted) \in Nat /\ Tally(Completed, charged) \in Nat
      /\ Tally(Open \cup Completed, lent) \in Nat
  BY BalancesAreNatural, FS_Union, SessionsAssumption
<1>2. /\ r \in Open /\ Open' = Open \ {r} /\ Completed' = Completed
      /\ (Open \cup Completed)' = (Open \cup Completed) \ {r}
  BY DEF Deleted, Open, Completed, RowsTypeOK
<1>3. \A q \in Keys : granted[q] \in 0..Ceiling /\ lent[q] \in 0..Ceiling
  BY DEF RowsTypeOK
<1>4. Tally(Open', granted) = Tally(Open, granted) - granted[r]
  <2>1. \A q \in Open : granted[q] \in 0..Ceiling
    BY <1>3 DEF Open
  <2> QED
    BY <1>1, <1>2, <2>1, TallyLeave
<1>5. Tally((Open \cup Completed)', lent) = Tally(Open \cup Completed, lent) - lent[r]
  <2> DEFINE old == Open \cup Completed
  <2>1. \A q \in old : lent[q] \in 0..Ceiling
    BY <1>3 DEF Open, Completed
  <2>2. r \in old /\ IsFiniteSet(old) /\ old' = old \ {r}
    BY <1>1, <1>2
  <2> HIDE DEF old
  <2>3. Tally(old', lent) = Tally(old, lent) - lent[r]
    BY <1>1, <2>1, <2>2, TallyLeave
  <2> QED
    BY <2>3 DEF old
<1>6. lent[r] <= granted[r]
  BY DEF GrantsConsistent
<1>7. PlanPromisedOnce'
  BY <1>1, <1>2, <1>3, <1>4, <1>5, <1>6 DEF PlanPromisedOnce, Deleted
<1>8. GrantsConsistent'
  BY DEF GrantsConsistent, Deleted, RowsTypeOK
<1> QED
  BY <1>7, <1>8

(* The balance invariant is inductive.                                      *)
LEMMA RowsInvStep == RowsInv /\ [SessionsNext]_sessionVars => RowsInv'
<1> SUFFICES ASSUME RowsInv, [SessionsNext]_sessionVars PROVE RowsInv'
  OBVIOUS
<1>1. SessionTypes'
  BY TypesStep DEF RowsInv
<1>2. RowsFollowRequests' /\ GrantsConsistent' /\ PlanPromisedOnce'
  <2>1. \A k \in Keys : stage'[k] \in Early => row[k] = "absent"
    BY StagesAdvance DEF RowsInv, RowsFollowRequests
  <2>2. CASE UNCHANGED <<row, granted, lent, charged>>
    BY <2>1, <2>2 DEF RowsInv, RowsFollowRequests, GrantsConsistent, PlanPromisedOnce, Open, Completed
  <2>3. ASSUME NEW k \in Keys, Opened(k)
        PROVE  RowsFollowRequests' /\ GrantsConsistent' /\ PlanPromisedOnce'
    <3>1. RowsFollowRequests'
      BY <2>1, <2>3 DEF Opened, RowsFollowRequests, RowsInv, SessionTypes, RowsTypeOK
    <3> QED
      BY <2>3, <3>1, OpenedKeepsPlan
  <2>4. ASSUME NEW r \in Keys, Closed(r)
        PROVE  RowsFollowRequests' /\ GrantsConsistent' /\ PlanPromisedOnce'
    <3>1. RowsFollowRequests'
      BY <2>1, <2>4 DEF Closed, RowsFollowRequests, RowsInv, SessionTypes, RowsTypeOK
    <3> QED
      BY <2>4, <3>1, ClosedKeepsPlan
  <2>5. ASSUME NEW r \in Keys, Deleted(r)
        PROVE  RowsFollowRequests' /\ GrantsConsistent' /\ PlanPromisedOnce'
    <3>1. RowsFollowRequests'
      BY <2>1, <2>5 DEF Deleted, RowsFollowRequests, RowsInv, SessionTypes, RowsTypeOK
    <3> QED
      BY <2>5, <3>1, DeletedKeepsPlan
  <2> QED
    BY <2>2, <2>3, <2>4, <2>5, RowStep DEF RowsInv
<1> QED
  BY <1>1, <1>2 DEF RowsInv

(* It holds before the first request.                                       *)
LEMMA RowsInvInit == SessionsInit => RowsInv
<1> SUFFICES ASSUME SessionsInit PROVE RowsInv
  OBVIOUS
<1>1. SessionTypes
  BY TypesInit
<1>2. RowsFollowRequests /\ GrantsConsistent
  BY DEF SessionsInit, RowsFollowRequests, GrantsConsistent
<1>3. Open = {} /\ Completed = {}
  BY DEF SessionsInit, Open, Completed
<1>4. /\ Tally(Open, granted) = 0 /\ Tally(Completed, charged) = 0
      /\ Tally(Open \cup Completed, lent) = 0
  BY <1>3, TallyEmpty
<1>5. PlanPromisedOnce
  BY <1>4, SessionsAssumption DEF PlanPromisedOnce
<1> QED
  BY <1>1, <1>2, <1>5 DEF RowsInv

(* It holds for ever.                                                       *)
LEMMA RowsInvariant == SessionsSpec => []RowsInv
BY RowsInvInit, RowsInvStep, PTL DEF SessionsSpec

(* What open sessions hold and closed ones have used never exceeds the plan *)
(* but for what credits were lent to a session on top of it, for every      *)
(* plan, purse, ceiling and number of interleaved starts, ends, sweeps and  *)
(* crashes (authorize_commercial_conversation_session_v1 under the user's   *)
(* lock, the guarded UPDATE of closeAuthorizationRow).                      *)
THEOREM PlanNeverOverPromised == SessionsSpec => []PlanPromisedOnce
<1>1. RowsInv => PlanPromisedOnce
  BY DEF RowsInv
<1> QED
  BY <1>1, RowsInvariant, PTL

-------------------------------------------------------------------------------
(* The sessions use the ledger as the ledger allows: all that its theorems  *)
(* promise of any sequence of calls holds of theirs.                        *)

(* The reservation of a session is one the ledger may be asked for.         *)
LEMMA WorstCaseIsAnEstimate ==
  ASSUME RowsTypeOK, NEW k \in Keys
  PROVE  WorstCase(k) \in Quantities
BY SessionsAssumption, LedgerAssumption DEF WorstCase, Quantities, RowsTypeOK

(* Every step calls one function of the ledger or none.                     *)
LEMMA SessionsStepLedger ==
  ASSUME SessionTypes, [SessionsNext]_sessionVars
  PROVE  [LedgerNext]_ledgerVars
<1>1. ASSUME NEW k \in Keys, StartStep(k)
      PROVE  [LedgerNext]_ledgerVars
  <2>1. CASE ReserveBudget(k)
    BY <2>1, WorstCaseIsAnEstimate DEF ReserveBudget, LedgerNext, SessionTypes
  <2>2. CASE UnwindBudget(k)
    BY <2>2 DEF UnwindBudget, ReleaseCall, LedgerNext
  <2>3. CASE FreezeAndAnswer(k)
    BY <2>3 DEF FreezeAndAnswer, ReleaseCall, LedgerNext
  <2>4. CASE \/ ListOpen(k) \/ (\E r \in DOMAIN listed[k] : Supersede(k, r)) \/ TakeSnapshot(k)
             \/ Authorize(k) \/ MintToken(k) \/ UnwindRow(k) \/ Attach(k)
    BY <2>4 DEF ListOpen, Supersede, TakeSnapshot, Authorize, MintToken, UnwindRow, Attach
  <2> QED
    BY <1>1, <2>1, <2>2, <2>3, <2>4 DEF StartStep
<1>2. ASSUME NEW r \in Keys, Settle(r)
      PROVE  [LedgerNext]_ledgerVars
  <2>1. \A actual \in [Buckets -> Costs] : actual \in Quantities
    BY SessionsAssumption DEF Quantities
  <2>2. CASE SettleBudget(r)
    BY <2>1, <2>2 DEF SettleBudget, CommitCall, ReleaseCall, MarkCall, LedgerNext
  <2>3. CASE ParkBudget(r)
    BY <2>3 DEF ParkBudget, MarkCall, LedgerNext
  <2>4. CASE DebitCredits(r)
    BY <2>4 DEF DebitCredits
  <2> QED
    BY <1>2, <2>2, <2>3, <2>4 DEF Settle
<1>3. ASSUME NEW k \in Keys, Heartbeat(k) \/ Leave(k) \/ CompleteSession(k) \/ SweepCloses(k)
      PROVE  UNCHANGED ledgerVars
  BY <1>3 DEF Heartbeat, Leave, CompleteSession, SweepCloses
<1>4. CASE SweepLists \/ Tick \/ Crash \/ UNCHANGED sessionVars
  BY <1>4 DEF SweepLists, Tick, Crash, sessionVars
<1> QED
  BY <1>1, <1>2, <1>3, <1>4 DEF SessionsNext

(* Every behaviour of the metered sessions is a behaviour of the ledger     *)
(* (reserveRealtimeSessionBudget, reconcileSessionReservation and the       *)
(* unwinding of a failed start call nothing but its functions).             *)
THEOREM ConversationImplementsLedger == SessionsSpec => LedgerSpec
<1>1. SessionsInit => LedgerInit
  BY DEF SessionsInit
<1>2. SessionTypes /\ [SessionsNext]_sessionVars => [LedgerNext]_ledgerVars
  BY SessionsStepLedger
<1> QED
  BY <1>1, <1>2, TypesInvariant, PTL DEF SessionsSpec, LedgerSpec

(* The types of the sessions and of the ledger under them; no session is    *)
(* charged more seconds than it was authorised for                          *)
(* (computeAuthorizationDurationSeconds).                                   *)
THEOREM SessionsTypeCorrect == SessionsSpec => []SessionsTypeOK
<1>1. LedgerTypeOK /\ RowsInv => SessionsTypeOK
  BY DEF RowsInv, SessionTypes, GrantsConsistent, SessionsTypeOK
<1> QED
  BY <1>1, RowsInvariant, ConversationImplementsLedger, LedgerTypeCorrect, PTL

(* The budget reserved for sessions never passes a bucket's limit but by    *)
(* overage, however starts, ends, sweeps and crashes interleave             *)
(* (reserve_gateway_usage_v1).                                              *)
THEOREM ConversationWithinLimit == SessionsSpec => []WithinLimit
BY ConversationImplementsLedger, LedgerWithinLimit, PTL

-------------------------------------------------------------------------------
(* Settling.  Only a closed row is settled, and until it is nothing was     *)
(* debited for it: this is why a late caller cannot debit it again.         *)

SettledOnce ==
  \A r \in Keys :
    /\ settling[r] # "none" => row[r] = "completed" /\ debited[r] = 0
    /\ row[r] # "completed" => debited[r] = 0

SettlingInv == RowsInv /\ SettledOnce

(* What a step does to the settling of a row: its closer starts it, the     *)
(* closer settles on, or it ends without a debit.                           *)
LEMMA CloseStartsSettling ==
  ASSUME SettlingInv, NEW r \in Keys, NEW who, NEW elapsed, NEW reserves,
         Close(r, who, elapsed, reserves), UNCHANGED <<credit, debited>>
  PROVE  SettledOnce'
BY DEF Close, StillOpen, SettlingInv, SettledOnce, RowsInv, SessionTypes, RowsTypeOK, SettlingTypeOK

(* Only a closed, undebited row is ever being settled.                      *)
LEMMA SettledOnceStep ==
  ASSUME SettlingInv, [SessionsNext]_sessionVars
  PROVE  SettledOnce'
<1> USE DEF SettlingInv, RowsInv
<1>1. ASSUME NEW k \in Keys, StartStep(k)
      PROVE  SettledOnce'
  <2>1. ASSUME NEW r \in DOMAIN listed[k], Supersede(k, r)
        PROVE  SettledOnce'
    <3>1. r \in Keys
      BY <2>1, Struck DEF SessionTypes, RequestsTypeOK
    <3>2. CASE Close(r, k, listed[k][r].elapsed, listed[k][r].reserves)
      BY <2>1, <3>1, <3>2, CloseStartsSettling DEF Supersede
    <3> QED
      BY <2>1, <3>2 DEF Supersede, SettledOnce
  <2>2. CASE Authorize(k)
    <3>1. row[k] = "absent"
      BY <2>2 DEF Authorize, RowsFollowRequests, Early
    <3> QED
      BY <2>2, <3>1 DEF Authorize, SettledOnce, SessionTypes, RowsTypeOK
  <2>3. CASE UnwindRow(k)
    BY <2>3 DEF UnwindRow, StillOpen, SettledOnce, SessionTypes, RowsTypeOK
  <2>4. CASE \/ ListOpen(k) \/ TakeSnapshot(k) \/ ReserveBudget(k) \/ MintToken(k) \/ UnwindBudget(k)
             \/ Attach(k) \/ FreezeAndAnswer(k)
    BY <2>4 DEF ListOpen, TakeSnapshot, ReserveBudget, MintToken, UnwindBudget, Attach,
       FreezeAndAnswer, SettledOnce
  <2> QED
    BY <1>1, <2>1, <2>2, <2>3, <2>4 DEF StartStep
<1>2. ASSUME NEW r \in Keys, CompleteSession(r)
      PROVE  SettledOnce'
  BY <1>2, CloseStartsSettling DEF CompleteSession
<1>3. ASSUME NEW r \in Keys, SweepCloses(r)
      PROVE  SettledOnce'
  BY <1>3, CloseStartsSettling DEF SweepCloses
<1>4. ASSUME NEW r \in Keys, SettleBudget(r) \/ ParkBudget(r)
      PROVE  SettledOnce'
  BY <1>4 DEF SettleBudget, ParkBudget, Then, SettledOnce, SessionTypes, SettlingTypeOK
<1>5. ASSUME NEW r \in Keys, DebitCredits(r)
      PROVE  SettledOnce'
  BY <1>5 DEF DebitCredits, Then, SettledOnce, SessionTypes, SettlingTypeOK
<1>6. ASSUME NEW r \in Keys, Heartbeat(r) \/ Leave(r)
      PROVE  SettledOnce'
  BY <1>6 DEF Heartbeat, Leave, SettledOnce
<1>7. CASE Crash
  BY <1>7 DEF Crash, Drop, SettledOnce, SessionTypes, SettlingTypeOK
<1>8. CASE SweepLists \/ Tick \/ UNCHANGED sessionVars
  BY <1>8 DEF SweepLists, Tick, sessionVars, SettledOnce
<1> QED
  BY <1>1, <1>2, <1>3, <1>4, <1>5, <1>6, <1>7, <1>8 DEF SessionsNext, Settle

(* The settling invariant holds for ever.                                   *)
LEMMA SettlingInvariant == SessionsSpec => []SettlingInv
<1>1. SessionsInit => SettlingInv
  BY RowsInvInit DEF SessionsInit, SettlingInv, SettledOnce
<1>2. SettlingInv /\ [SessionsNext]_sessionVars => SettlingInv'
  BY RowsInvStep, SettledOnceStep DEF SettlingInv
<1> QED
  BY <1>1, <1>2, PTL DEF SessionsSpec

(* Credits move only when a row is debited. *)
LEMMA CreditStep ==
  ASSUME [SessionsNext]_sessionVars
  PROVE  \/ UNCHANGED <<credit, debited>>
         \/ \E r \in Keys : DebitCredits(r)
<1>1. ASSUME NEW k \in Keys, StartStep(k)
      PROVE  UNCHANGED <<credit, debited>>
  BY <1>1 DEF StartStep, ListOpen, Supersede, TakeSnapshot, Authorize, ReserveBudget, MintToken,
     UnwindBudget, UnwindRow, Attach, FreezeAndAnswer
<1>2. ASSUME NEW k \in Keys,
             \/ Heartbeat(k) \/ Leave(k) \/ CompleteSession(k) \/ SweepCloses(k)
             \/ SettleBudget(k) \/ ParkBudget(k)
      PROVE  UNCHANGED <<credit, debited>>
  BY <1>2 DEF Heartbeat, Leave, CompleteSession, SweepCloses, SettleBudget, ParkBudget
<1>3. CASE SweepLists \/ Tick \/ Crash \/ UNCHANGED sessionVars
  BY <1>3 DEF SweepLists, Tick, Crash, sessionVars
<1> QED
  BY <1>1, <1>2, <1>3 DEF SessionsNext, Settle

(* A session is billed once, whoever closes its row and however many try:   *)
(* neither its row, its duration nor its debit changes afterwards           *)
(* (closeAuthorizationRow, debit_conversation_extra_credits_v1).            *)
THEOREM SessionsBilledOnce == SessionsSpec => BilledOnce
<1> DEFINE Kept(r) ==
      /\ row[r] \in {"completed", "deleted"} => row'[r] = row[r] /\ charged'[r] = charged[r]
      /\ debited[r] > 0 => debited'[r] = debited[r]
<1>1. ASSUME SettlingInv, [SessionsNext]_sessionVars, NEW r \in Keys
      PROVE  Kept(r)
  <2>1. row[r] \in {"completed", "deleted"} => row'[r] = row[r] /\ charged'[r] = charged[r]
    BY <1>1, RowStep DEF SettlingInv, RowsInv, SessionTypes, RowsTypeOK, Opened, Closed, Deleted
  <2>2. debited[r] > 0 => settling[r] # "debit"
    BY <1>1 DEF SettlingInv, SettledOnce
  <2>3. debited[r] > 0 => debited'[r] = debited[r]
    BY <1>1, <2>2, CreditStep
       DEF DebitCredits, SettlingInv, RowsInv, SessionTypes, SettlingTypeOK
  <2> QED
    BY <2>1, <2>3
<1>2. SettlingInv /\ [SessionsNext]_sessionVars => [\A r \in Keys : Kept(r)]_sessionVars
  BY <1>1
<1> QED
  BY <1>2, SettlingInvariant, PTL DEF SessionsSpec, BilledOnce

-------------------------------------------------------------------------------
(* Purchased credits.  What was used of the plan never shrinks, and a debit *)
(* that takes anything finds the plan passed.                               *)

(* The seconds used by closed rows only grow.                               *)
LEMMA UsedNeverShrinks ==
  ASSUME SettlingInv, [SessionsNext]_sessionVars
  PROVE  /\ Tally(Completed', charged') \in Nat
         /\ Tally(Completed', charged') >= Tally(Completed, charged)
<1> USE DEF SettlingInv, RowsInv, SessionTypes
<1>1. Tally(Completed, charged) \in Nat /\ IsFiniteSet(Completed) /\ Ceiling \in Nat
  BY BalancesAreNatural, SessionsAssumption
<1>2. CASE UNCHANGED <<row, granted, lent, charged>>
  BY <1>1, <1>2 DEF Completed
<1>3. ASSUME NEW k \in Keys, Opened(k) \/ Deleted(k)
      PROVE  /\ Tally(Completed', charged') \in Nat
             /\ Tally(Completed', charged') >= Tally(Completed, charged)
  <2>1. Completed' = Completed /\ charged' = charged
    BY <1>3 DEF Opened, Deleted, Completed, RowsTypeOK
  <2> QED
    BY <1>1, <2>1
<1>4. ASSUME NEW r \in Keys, Closed(r)
      PROVE  /\ Tally(Completed', charged') \in Nat
             /\ Tally(Completed', charged') >= Tally(Completed, charged)
  <2>1. r \notin Completed /\ Completed' = Completed \cup {r}
    BY <1>4 DEF Closed, Completed, RowsTypeOK
  <2>2. /\ charged'[r] \in 0..Ceiling
        /\ \A q \in Completed : charged'[q] = charged[q] /\ charged[q] \in 0..Ceiling
    BY <1>1, <1>4, <2>1 DEF Closed, Completed, RowsTypeOK
  <2>3. Tally(Completed', charged') = Tally(Completed, charged) + charged'[r]
    BY <1>1, <2>1, <2>2, TallyEnter
  <2> QED
    BY <1>1, <2>2, <2>3
<1> QED
  BY <1>2, <1>3, <1>4, RowStep

(* A debit that takes credits finds the plan passed.                        *)
LEMMA DebitPassesPlan ==
  ASSUME SettlingInv, NEW r \in Keys, DebitCredits(r), credit' # credit
  PROVE  Tally(Completed, charged) > PlanLimit
<1> USE DEF SettlingInv, RowsInv, SessionTypes
<1> DEFINE others == Tally(OtherSessions(r), charged)
<1>1. /\ credit' = credit - Least(OverPlan(r), credit)
      /\ r \in Completed
  BY DEF DebitCredits, SettledOnce, Completed
<1>2. /\ others \in Nat /\ IsFiniteSet(Completed) /\ PlanLimit \in Nat /\ credit \in Nat
      /\ Tally(Completed, charged) \in Nat /\ charged[r] \in Nat /\ Ceiling \in Nat
  BY BalancesAreNatural, SessionsAssumption DEF RowsTypeOK, SettlingTypeOK
<1>3. others = Tally(Completed, charged) - charged[r]
  <2>1. \A q \in Completed : charged[q] \in 0..Ceiling
    BY DEF Completed, RowsTypeOK
  <2> QED
    BY <1>1, <1>2, <2>1, TallyRemove DEF OtherSessions
<1>4. OverPlan(r) = NonNegative(charged[r] - NonNegative(PlanLimit - others))
  BY DEF OverPlan
<1> HIDE DEF others
<1>5. OverPlan(r) \in Nat /\ OverPlan(r) # 0
  BY <1>1, <1>2, <1>4 DEF NonNegative, Least
<1> QED
  BY <1>2, <1>3, <1>4, <1>5 DEF NonNegative

(* As long as the sessions fit in the plan no purchased second is taken,    *)
(* for every plan and purse and in every order of closing and settling: a   *)
(* session is compared with all that was closed, not with what was there    *)
(* when it began (debit_conversation_extra_credits_v1).                     *)
THEOREM CreditsSpentBeyondPlanOnly == SessionsSpec => []WithinPlanNeverDebited
<1>1. SessionsInit => WithinPlanNeverDebited
  BY DEF SessionsInit, WithinPlanNeverDebited
<1>2. ASSUME SettlingInv, WithinPlanNeverDebited, [SessionsNext]_sessionVars
      PROVE  WithinPlanNeverDebited'
  <2>1. /\ Tally(Completed, charged) \in Nat /\ PlanLimit \in Nat
        /\ Tally(Completed', charged') \in Nat
        /\ Tally(Completed', charged') >= Tally(Completed, charged)
    BY <1>2, UsedNeverShrinks, BalancesAreNatural, SessionsAssumption
       DEF SettlingInv, RowsInv, SessionTypes
  <2>2. CASE credit' = credit
    BY <1>2, <2>1, <2>2 DEF WithinPlanNeverDebited
  <2>3. CASE credit' # credit
    <3>1. Tally(Completed, charged) > PlanLimit
      BY <1>2, <2>3, CreditStep, DebitPassesPlan
    <3> QED
      BY <2>1, <3>1 DEF WithinPlanNeverDebited
  <2> QED
    BY <2>2, <2>3
<1> QED
  BY <1>1, <1>2, SettlingInvariant, PTL DEF SessionsSpec


-------------------------------------------------------------------------------
(* Presence.  A heartbeat says what the row's clock says, so the last one   *)
(* is no later than the time the user was there; and what a closer knows of *)
(* a row that is still open was true when it was listed, and the user has   *)
(* only stayed longer since.                                                *)

Attended ==
  \A r \in Keys :
    /\ present[r] <= age[r]
    /\ client[r] = "talking" => present[r] = age[r]
    /\ seen[r] # Unseen => seen[r] <= present[r]

KnownOf(r, lastSeen) ==
  /\ row[r] # "absent"
  /\ row[r] = "authorized" /\ lastSeen # Unseen => lastSeen <= present[r]

ListingsTrue ==
  /\ \A k \in Keys : \A r \in DOMAIN listed[k] :
       /\ KnownOf(r, listed[k][r].lastSeen)
       /\ listed[k][r].lastSeen # Unseen => listed[k][r].elapsed = listed[k][r].lastSeen
  /\ \A r \in DOMAIN abandoned : KnownOf(r, abandoned[r].lastSeen)

PresenceInv == RowsInv /\ Attended /\ ListingsTrue

(* The user has got the token: he has been there since the row was made.    *)
Greets(k) ==
  /\ client' = [client EXCEPT ![k] = "talking"]
  /\ present' = [present EXCEPT ![k] = age[k]]
  /\ UNCHANGED <<age, seen, row>>

Rewinds(r) == Rewind(r) /\ row'[r] # "authorized" /\ UNCHANGED client

ClocksRest == UNCHANGED <<age, seen, present>> /\ (UNCHANGED client \/ \E r \in Keys : Leave(r))

(* These are all the moves of the clocks there are.                         *)
LEMMA ClockStep ==
  ASSUME SessionTypes, [SessionsNext]_sessionVars
  PROVE  \/ ClocksRest
         \/ \E r \in Keys : Rewinds(r)
         \/ \E r \in Keys : Heartbeat(r)
         \/ \E k \in Keys : Greets(k)
         \/ Tick
<1>1. ASSUME NEW r \in Keys, NEW who, NEW elapsed, NEW reserves, Close(r, who, elapsed, reserves),
             UNCHANGED client
      PROVE  Rewinds(r) \/ ClocksRest
  BY <1>1 DEF Close, Rewinds, ClocksRest, clockVars, SessionTypes, RowsTypeOK
<1>2. ASSUME NEW k \in Keys, NEW r \in DOMAIN listed[k], Supersede(k, r)
      PROVE  r \in Keys /\ (Rewinds(r) \/ ClocksRest)
  <2>1. r \in Keys
    BY Struck DEF SessionTypes, RequestsTypeOK
  <2>2. UNCHANGED client
    BY <1>2 DEF Supersede
  <2> QED
    BY <1>1, <1>2, <2>1, <2>2 DEF Supersede, ClocksRest, clockVars
<1>3. ASSUME NEW k \in Keys, UnwindRow(k)
      PROVE  Rewinds(k) \/ ClocksRest
  BY <1>3 DEF UnwindRow, Rewinds, ClocksRest, clockVars, SessionTypes, RowsTypeOK
<1>4. ASSUME NEW k \in Keys, FreezeAndAnswer(k)
      PROVE  Greets(k) \/ ClocksRest
  BY <1>4 DEF FreezeAndAnswer, Greets, ClocksRest
<1>5. ASSUME NEW k \in Keys,
             \/ ListOpen(k) \/ TakeSnapshot(k) \/ Authorize(k) \/ ReserveBudget(k) \/ MintToken(k)
             \/ UnwindBudget(k) \/ Attach(k) \/ Settle(k)
      PROVE  ClocksRest
  BY <1>5 DEF ListOpen, TakeSnapshot, Authorize, ReserveBudget, MintToken, UnwindBudget, Attach,
     Settle, SettleBudget, ParkBudget, DebitCredits, ClocksRest, clockVars
<1>6. ASSUME NEW r \in Keys, CompleteSession(r) \/ SweepCloses(r)
      PROVE  Rewinds(r) \/ ClocksRest
  <2>1. UNCHANGED client
    BY <1>6 DEF CompleteSession, SweepCloses
  <2> QED
    BY <1>1, <1>6, <2>1 DEF CompleteSession, SweepCloses
<1>7. ASSUME NEW r \in Keys, Leave(r)
      PROVE  ClocksRest
  BY <1>7 DEF Leave, ClocksRest, clockVars
<1>8. CASE SweepLists \/ Crash \/ UNCHANGED sessionVars
  BY <1>8 DEF SweepLists, Crash, sessionVars, ClocksRest, clockVars
<1> QED
  BY <1>2, <1>3, <1>4, <1>5, <1>6, <1>7, <1>8 DEF SessionsNext, StartStep

(* No move of the clocks lets a heartbeat be later than the user was there, *)
(* and none takes back the time he was there while his row is open.         *)
LEMMA AttendedStep ==
  ASSUME SessionTypes, Attended, [SessionsNext]_sessionVars
  PROVE  /\ Attended'
         /\ \A r \in Keys : row'[r] = "authorized" => present'[r] >= present[r]
<1> USE SessionsAssumption
<1>1. \A r \in Keys : /\ age[r] \in 0..Ceiling /\ present[r] \in 0..Ceiling
                      /\ seen[r] \in Unseen..Ceiling /\ Ceiling \in Nat
                      /\ client[r] \in {"waiting", "talking", "gone"}
  BY DEF SessionTypes, RowsTypeOK, RequestsTypeOK
<1>2. /\ age = [r \in Keys |-> age[r]] /\ present = [r \in Keys |-> present[r]]
      /\ seen = [r \in Keys |-> seen[r]] /\ client = [r \in Keys |-> client[r]]
  BY DEF SessionTypes, RowsTypeOK, RequestsTypeOK
<1>3. CASE ClocksRest
  <2>1. UNCHANGED <<age, seen, present>>
    BY <1>3 DEF ClocksRest
  <2>2. \A r \in Keys : client'[r] = "talking" => client[r] = "talking"
    BY <1>2, <1>3 DEF ClocksRest, Leave
  <2> QED
    BY <1>1, <2>1, <2>2 DEF Attended
<1>4. ASSUME NEW c \in Keys, Rewinds(c)
      PROVE  /\ Attended'
             /\ \A r \in Keys : row'[r] = "authorized" => present'[r] >= present[r]
  <2>1. /\ age'[c] = 0 /\ present'[c] = 0 /\ seen'[c] = Unseen /\ UNCHANGED client
        /\ row'[c] # "authorized"
        /\ \A r \in Keys : r # c => age'[r] = age[r] /\ present'[r] = present[r] /\ seen'[r] = seen[r]
    BY <1>2, <1>4 DEF Rewinds, Rewind
  <2> QED
    BY <1>1, <2>1 DEF Attended
<1>5. ASSUME NEW c \in Keys, Heartbeat(c)
      PROVE  /\ Attended'
             /\ \A r \in Keys : row'[r] = "authorized" => present'[r] >= present[r]
  <2>1. /\ client[c] = "talking" /\ seen'[c] = age[c] /\ UNCHANGED <<age, present, client>>
        /\ \A r \in Keys : r # c => seen'[r] = seen[r]
    BY <1>2, <1>5 DEF Heartbeat
  <2> QED
    BY <1>1, <2>1 DEF Attended
<1>6. ASSUME NEW c \in Keys, Greets(c)
      PROVE  /\ Attended'
             /\ \A r \in Keys : row'[r] = "authorized" => present'[r] >= present[r]
  <2>1. /\ present'[c] = age[c] /\ UNCHANGED <<age, seen>>
        /\ \A r \in Keys : r # c => present'[r] = present[r] /\ client'[r] = client[r]
    BY <1>2, <1>6 DEF Greets
  <2> QED
    BY <1>1, <2>1 DEF Attended
<1>7. CASE Tick
  <2>1. /\ UNCHANGED <<seen, client, row>>
        /\ \A r \in Keys :
             /\ age'[r] = IF r \in Open THEN Least(age[r] + 1, Ceiling) ELSE age[r]
             /\ present'[r] = IF r \in Open /\ client[r] = "talking" THEN age'[r] ELSE present[r]
    BY <1>7 DEF Tick
  <2>2. \A r \in Keys : age'[r] \in age[r]..Ceiling /\ (r \notin Open => age'[r] = age[r])
    BY <1>1, <2>1 DEF Least
  <2> QED
    BY <1>1, <2>1, <2>2 DEF Attended
<1> QED
  BY <1>3, <1>4, <1>5, <1>6, <1>7, ClockStep

(* What is known of a row is what was known before, or what is now listed.  *)
LEMMA ListingStep ==
  ASSUME SessionTypes, [SessionsNext]_sessionVars
  PROVE  /\ \A k \in Keys : \A r \in DOMAIN listed'[k] :
              \/ r \in DOMAIN listed[k] /\ listed'[k][r] = listed[k][r]
              \/ /\ r \in Open /\ UNCHANGED <<row, present>>
                 /\ listed'[k][r].lastSeen = seen[r] /\ listed'[k][r].elapsed = SupersededEnd(r)
         /\ \A r \in DOMAIN abandoned' :
              \/ r \in DOMAIN abandoned /\ abandoned'[r] = abandoned[r]
              \/ /\ r \in Open /\ UNCHANGED <<row, present>>
                 /\ abandoned'[r].lastSeen = seen[r]
<1> DEFINE ListedRight(k) ==
      \A r \in DOMAIN listed'[k] :
        \/ r \in DOMAIN listed[k] /\ listed'[k][r] = listed[k][r]
        \/ /\ r \in Open /\ UNCHANGED <<row, present>>
           /\ listed'[k][r].lastSeen = seen[r] /\ listed'[k][r].elapsed = SupersededEnd(r)
<1>1. listed \in [Keys -> Listings]
  BY DEF SessionTypes, RequestsTypeOK
<1>2. ASSUME NEW c \in Keys, ListOpen(c)
      PROVE  UNCHANGED abandoned /\ \A k \in Keys : ListedRight(k)
  <2>1. UNCHANGED <<abandoned, row, present>>
    BY <1>2 DEF ListOpen, clockVars
  <2>2. \A k \in Keys : k # c => listed'[k] = listed[k]
    BY <1>1, <1>2 DEF ListOpen
  <2>3. CASE listed' = [listed EXCEPT ![c] =
               [r \in Open |-> [lastSeen |-> seen[r], elapsed |-> SupersededEnd(r),
                                reserves |-> r \in attached]]]
    <3>1. listed'[c] = [r \in Open |-> [lastSeen |-> seen[r], elapsed |-> SupersededEnd(r),
                                        reserves |-> r \in attached]]
      BY <1>1, <2>3
    <3>2. ListedRight(c)
      BY <2>1, <3>1
    <3> QED
      BY <2>1, <2>2, <3>2
  <2>4. CASE UNCHANGED listed
    BY <2>1, <2>4
  <2> QED
    BY <1>2, <2>3, <2>4 DEF ListOpen
<1>3. ASSUME NEW c \in Keys, NEW q \in DOMAIN listed[c], Supersede(c, q)
      PROVE  UNCHANGED abandoned /\ \A k \in Keys : ListedRight(k)
  <2>1. UNCHANGED abandoned /\ listed' = [listed EXCEPT ![c] = [r \in DOMAIN @ \ {q} |-> @[r]]]
    BY <1>3 DEF Supersede
  <2>2. /\ listed'[c] = [r \in DOMAIN listed[c] \ {q} |-> listed[c][r]]
        /\ \A k \in Keys : k # c => listed'[k] = listed[k]
    BY <1>1, <2>1
  <2> QED
    BY <2>1, <2>2
<1>4. ASSUME NEW c \in Keys,
             \/ TakeSnapshot(c) \/ Authorize(c) \/ ReserveBudget(c) \/ MintToken(c)
             \/ UnwindBudget(c) \/ UnwindRow(c) \/ Attach(c) \/ FreezeAndAnswer(c)
             \/ Heartbeat(c) \/ Leave(c) \/ CompleteSession(c) \/ Settle(c)
      PROVE  UNCHANGED <<listed, abandoned>>
  BY <1>4 DEF TakeSnapshot, Authorize, ReserveBudget, MintToken, UnwindBudget, UnwindRow, Attach,
     FreezeAndAnswer, Heartbeat, Leave, CompleteSession, Settle, SettleBudget, ParkBudget,
     DebitCredits, requestVars
<1>5. ASSUME NEW c \in Keys, SweepCloses(c)
      PROVE  UNCHANGED listed /\ abandoned' = [q \in DOMAIN abandoned \ {c} |-> abandoned[q]]
  BY <1>5 DEF SweepCloses, requestVars
<1>6. CASE SweepLists
  <2>1. UNCHANGED <<listed, row, present>>
    BY <1>6 DEF SweepLists, requestVars, clockVars
  <2>2. abandoned' =
          [r \in { q \in Open : Silent(q) } |-> [lastSeen |-> seen[r], reserves |-> r \in attached]]
    BY <1>6 DEF SweepLists
  <2> QED
    BY <2>1, <2>2
<1>7. CASE Crash
  <2>1. NoListing = [r \in {} |-> 0] /\ DOMAIN NoListing = {}
    BY DEF NoListing
  <2>2. \A k \in Keys : listed'[k] = listed[k] \/ listed'[k] = NoListing
    BY <1>1, <1>7 DEF Crash, requestVars
  <2>3. abandoned' = abandoned \/ abandoned' = NoListing
    BY <1>7 DEF Crash
  <2>4. \A k \in Keys : ListedRight(k)
    BY <2>1, <2>2
  <2> QED
    BY <2>1, <2>3, <2>4
<1>8. CASE Tick \/ UNCHANGED sessionVars
  BY <1>8 DEF Tick, sessionVars, requestVars
<1> QED
  BY <1>2, <1>3, <1>4, <1>5, <1>6, <1>7, <1>8 DEF SessionsNext, StartStep

(* The presence invariant holds for ever.                                   *)
LEMMA PresenceInvariant == SessionsSpec => []PresenceInv
<1>1. SessionsInit => PresenceInv
  <2> SUFFICES ASSUME SessionsInit PROVE PresenceInv
    OBVIOUS
  <2>1. RowsInv
    BY RowsInvInit
  <2>2. Attended
    BY DEF SessionsInit, Attended, Unseen
  <2>3. ListingsTrue
    BY DEF SessionsInit, ListingsTrue, NoListing
  <2> QED
    BY <2>1, <2>2, <2>3 DEF PresenceInv
<1>2. PresenceInv /\ [SessionsNext]_sessionVars => PresenceInv'
  <2> SUFFICES ASSUME PresenceInv, [SessionsNext]_sessionVars PROVE PresenceInv'
    OBVIOUS
  <2>1. RowsInv /\ SessionTypes /\ Attended /\ ListingsTrue /\ RowsFollowRequests
    BY DEF PresenceInv, RowsInv
  <2>2. RowsInv' /\ SessionTypes'
    BY <2>1, RowsInvStep DEF RowsInv
  <2>3. Attended' /\ \A r \in Keys : row'[r] = "authorized" => present'[r] >= present[r]
    BY <2>1, AttendedStep
  <2>4. \A r \in Keys : row[r] # "absent" =>
          row'[r] # "absent" /\ (row'[r] = "authorized" => row[r] = "authorized")
    BY <2>1, RowStep DEF Opened, Closed, Deleted, SessionTypes, RowsTypeOK
  <2>5. ASSUME NEW r \in Keys, NEW lastSeen \in Unseen..Ceiling, KnownOf(r, lastSeen)
        PROVE  KnownOf(r, lastSeen)'
    <3>1. present[r] \in Nat /\ present'[r] \in Nat /\ lastSeen \in Int
      BY <2>1, <2>2, SessionsAssumption DEF SessionTypes, RowsTypeOK, Unseen
    <3> QED
      BY <2>3, <2>4, <2>5, <3>1 DEF KnownOf
  <2>6. ASSUME NEW r \in Open, UNCHANGED <<row, present>>, NEW lastSeen, lastSeen = seen[r]
        PROVE  KnownOf(r, lastSeen)' /\ (lastSeen # Unseen => SupersededEnd(r) = lastSeen)
    BY <2>1, <2>6 DEF KnownOf, Open, Attended, SupersededEnd
  <2>7. ASSUME NEW k \in Keys, NEW r \in DOMAIN listed'[k],
               NEW known, known = listed'[k][r]
        PROVE  /\ KnownOf(r, known.lastSeen)'
               /\ known.lastSeen # Unseen => known.elapsed = known.lastSeen
    <3>1. CASE r \in DOMAIN listed[k] /\ listed'[k][r] = listed[k][r]
      <4>1. r \in Keys /\ known.lastSeen \in Unseen..Ceiling
        BY <2>1, <2>7, <3>1, Struck DEF SessionTypes, RequestsTypeOK
      <4>2. /\ KnownOf(r, known.lastSeen)
            /\ known.lastSeen # Unseen => known.elapsed = known.lastSeen
        BY <2>1, <2>7, <3>1 DEF ListingsTrue
      <4> QED
        BY <2>5, <4>1, <4>2
    <3>2. CASE /\ r \in Open /\ UNCHANGED <<row, present>>
               /\ listed'[k][r].lastSeen = seen[r] /\ listed'[k][r].elapsed = SupersededEnd(r)
      BY <2>6, <2>7, <3>2
    <3> QED
      BY <2>1, <2>7, <3>1, <3>2, ListingStep
  <2>8. ASSUME NEW r \in DOMAIN abandoned', NEW known, known = abandoned'[r]
        PROVE  KnownOf(r, known.lastSeen)'
    <3>1. CASE r \in DOMAIN abandoned /\ abandoned'[r] = abandoned[r]
      <4>1. r \in Keys /\ known.lastSeen \in Unseen..Ceiling
        BY <2>1, <2>8, <3>1, StruckSighting DEF SessionTypes, RequestsTypeOK
      <4>2. KnownOf(r, known.lastSeen)
        BY <2>1, <2>8, <3>1 DEF ListingsTrue
      <4> QED
        BY <2>5, <4>1, <4>2
    <3>2. CASE /\ r \in Open /\ UNCHANGED <<row, present>>
               /\ abandoned'[r].lastSeen = seen[r]
      BY <2>6, <2>8, <3>2
    <3> QED
      BY <2>1, <2>8, <3>1, <3>2, ListingStep
  <2>9. ListingsTrue'
    BY <2>7, <2>8 DEF ListingsTrue
  <2> QED
    BY <2>2, <2>3, <2>9 DEF PresenceInv
<1> QED
  BY <1>1, <1>2, PTL DEF SessionsSpec

(* These are the ways in which an open row comes to be completed.           *)
LEMMA CompletedByClose ==
  ASSUME SessionTypes, RowsFollowRequests, [SessionsNext]_sessionVars,
         NEW r \in Open, row'[r] = "completed"
  PROVE  \/ \E k \in Keys : /\ r \in DOMAIN listed[k]
                          /\ Close(r, k, listed[k][r].elapsed, listed[k][r].reserves)
         \/ Close(r, User, age[r], r \in attached)
         \/ /\ r \in DOMAIN abandoned
            /\ Close(r, Sweep, AbandonedEnd(r, abandoned[r].lastSeen), abandoned[r].reserves)
<1>1. r \in Keys /\ row[r] = "authorized" /\ row = [q \in Keys |-> row[q]]
  BY DEF Open, SessionTypes, RowsTypeOK
<1>2. ASSUME NEW q \in Keys, q # r, NEW who, NEW elapsed, NEW reserves,
             Close(q, who, elapsed, reserves)
      PROVE  FALSE
  <2>1. row' = [row EXCEPT ![q] = "completed"] \/ row' = row
    BY <1>2 DEF Close
  <2> QED
    BY <1>1, <1>2, <2>1
<1>3. ASSUME NEW k \in Keys, NEW q \in DOMAIN listed[k], Supersede(k, q)
      PROVE  /\ r \in DOMAIN listed[k]
             /\ Close(r, k, listed[k][r].elapsed, listed[k][r].reserves)
  <2>1. q \in Keys
    BY Struck DEF SessionTypes, RequestsTypeOK
  <2>2. Close(q, k, listed[k][q].elapsed, listed[k][q].reserves)
    BY <1>1, <1>3 DEF Supersede
  <2>3. q = r
    BY <1>2, <2>1, <2>2
  <2> QED
    BY <2>2, <2>3
<1>4. ASSUME NEW k \in Keys, Authorize(k) \/ UnwindRow(k)
      PROVE  FALSE
  <2>1. \/ row' = [row EXCEPT ![k] = "authorized"] \/ row' = [row EXCEPT ![k] = "deleted"]
        \/ row' = row
    BY <1>4 DEF Authorize, UnwindRow
  <2> QED
    BY <1>1, <2>1
<1>5. ASSUME NEW k \in Keys,
             \/ ListOpen(k) \/ TakeSnapshot(k) \/ ReserveBudget(k) \/ MintToken(k)
             \/ UnwindBudget(k) \/ Attach(k) \/ FreezeAndAnswer(k)
             \/ Heartbeat(k) \/ Leave(k) \/ Settle(k)
      PROVE  UNCHANGED row
  BY <1>5 DEF ListOpen, TakeSnapshot, ReserveBudget, MintToken, UnwindBudget, Attach,
     FreezeAndAnswer, Heartbeat, Leave, Settle, SettleBudget, ParkBudget, DebitCredits
<1>6. ASSUME NEW q \in Keys, CompleteSession(q)
      PROVE  Close(r, User, age[r], r \in attached)
  <2>1. Close(q, User, age[q], q \in attached)
    BY <1>6 DEF CompleteSession
  <2>2. q = r
    BY <1>2, <2>1
  <2> QED
    BY <2>1, <2>2
<1>7. ASSUME NEW q \in Keys, SweepCloses(q)
      PROVE  /\ r \in DOMAIN abandoned
             /\ Close(r, Sweep, AbandonedEnd(r, abandoned[r].lastSeen), abandoned[r].reserves)
  <2>1. /\ q \in DOMAIN abandoned
        /\ Close(q, Sweep, AbandonedEnd(q, abandoned[q].lastSeen), abandoned[q].reserves)
    BY <1>7 DEF SweepCloses
  <2>2. q = r
    BY <1>2, <2>1
  <2> QED
    BY <2>1, <2>2
<1>8. CASE SweepLists \/ Tick \/ Crash \/ UNCHANGED sessionVars
  <2>1. UNCHANGED row
    BY <1>8 DEF SweepLists, Tick, Crash, sessionVars
  <2> QED
    BY <1>1, <2>1
<1>9. UNCHANGED row => FALSE
  BY <1>1
<1> QED
  BY <1>3, <1>4, <1>5, <1>6, <1>7, <1>8, <1>9 DEF SessionsNext, StartStep

(* A user who left without a goodbye is billed the time he was there and at *)
(* most one stale window, by whatever sweep or start closes his row and     *)
(* however old its knowledge of the row (abandonedEffectiveEndMs).          *)
THEOREM AbandonedBilledFairly == SessionsSpec => AbandonedBilledForPresence
<1> DEFINE Fair ==
      \A r \in Open :
        /\ row'[r] = "completed" /\ closer'[r] # User
        /\ LastKnownBeat(r, closer'[r]) # Unseen
        => charged'[r] <= present[r] + Stale
<1>1. ASSUME PresenceInv, [SessionsNext]_sessionVars
      PROVE  Fair
  <2> SUFFICES ASSUME NEW r \in Open, row'[r] = "completed", closer'[r] # User,
                      LastKnownBeat(r, closer'[r]) # Unseen
               PROVE  charged'[r] <= present[r] + Stale
    OBVIOUS
  <2>1. SessionTypes /\ RowsFollowRequests /\ ListingsTrue
    BY <1>1 DEF PresenceInv, RowsInv
  <2>2. /\ r \in Keys /\ row[r] = "authorized" /\ granted[r] \in Nat /\ present[r] \in Nat
        /\ age[r] \in Nat /\ Stale \in Nat
        /\ charged \in [Keys -> 0..Ceiling] /\ DOMAIN closer = Keys
    BY <2>1, SessionsAssumption DEF Open, SessionTypes, RowsTypeOK, SettlingTypeOK
  <2>3. ASSUME NEW who, NEW elapsed, NEW reserves, Close(r, who, elapsed, reserves)
        PROVE  charged'[r] = Billable(r, elapsed) /\ closer'[r] = who
    BY <2>2, <2>3 DEF Close, StillOpen
  <2>4. ASSUME NEW elapsed \in Int, NEW bound \in Nat, elapsed <= bound
        PROVE  Billable(r, elapsed) <= bound
    BY <2>2, <2>4 DEF Billable, Least
  <2>5. ~Close(r, User, age[r], r \in attached)
    BY <2>3
  <2>6. ASSUME NEW k \in Keys, r \in DOMAIN listed[k],
               Close(r, k, listed[k][r].elapsed, listed[k][r].reserves)
        PROVE  charged'[r] <= present[r] + Stale
    <3>1. closer'[r] = k /\ charged'[r] = Billable(r, listed[k][r].elapsed)
      BY <2>3, <2>6
    <3>2. listed[k][r].lastSeen # Unseen
      BY <3>1, SessionsAssumption DEF LastKnownBeat, Sweep
    <3>3. /\ listed[k][r].elapsed = listed[k][r].lastSeen
          /\ listed[k][r].lastSeen <= present[r]
      BY <2>1, <2>2, <2>6, <3>2 DEF ListingsTrue, KnownOf
    <3>4. listed[k][r].elapsed \in 0..Ceiling
      BY <2>1, <2>6, Struck DEF SessionTypes, RequestsTypeOK
    <3>5. listed[k][r].elapsed \in Int /\ listed[k][r].elapsed <= present[r] + Stale
          /\ present[r] + Stale \in Nat
      BY <2>2, <3>3, <3>4
    <3> QED
      BY <2>4, <3>1, <3>5
  <2>7. ASSUME r \in DOMAIN abandoned,
               Close(r, Sweep, AbandonedEnd(r, abandoned[r].lastSeen), abandoned[r].reserves)
        PROVE  charged'[r] <= present[r] + Stale
    <3>1. /\ closer'[r] = Sweep
          /\ charged'[r] = Billable(r, AbandonedEnd(r, abandoned[r].lastSeen))
      BY <2>3, <2>7
    <3>2. abandoned[r].lastSeen # Unseen
      BY <3>1 DEF LastKnownBeat
    <3>3. abandoned[r].lastSeen <= present[r]
      BY <2>1, <2>2, <2>7, <3>2 DEF ListingsTrue, KnownOf
    <3>4. abandoned[r].lastSeen \in Unseen..Ceiling
      BY <2>1, <2>7, StruckSighting DEF SessionTypes, RequestsTypeOK
    <3>5. /\ AbandonedEnd(r, abandoned[r].lastSeen) \in Int
          /\ AbandonedEnd(r, abandoned[r].lastSeen) <= present[r] + Stale
          /\ present[r] + Stale \in Nat
      BY <2>2, <3>2, <3>3, <3>4, SessionsAssumption DEF AbandonedEnd, Least, Unseen
    <3> QED
      BY <2>4, <3>1, <3>5
  <2> QED
    BY <1>1, <2>1, <2>5, <2>6, <2>7, CompletedByClose
<1>2. PresenceInv /\ [SessionsNext]_sessionVars => [Fair]_sessionVars
  BY <1>1
<1> QED
  BY <1>2, PresenceInvariant, PTL DEF SessionsSpec, AbandonedBilledForPresence
-------------------------------------------------------------------------------
(* The purse.  A handler that dies leaves one session unpaid at most, for   *)
(* it settles one before it closes the next.                                *)
OneAtATime ==
  \A r, q \in Keys :
    /\ settling[r] # "none" /\ settling[q] # "none"
    /\ closer[r] = closer[q] /\ closer[r] # User
    => r = q

PurseInv == SettlingInv /\ OneAtATime

(* A closer who is free may close a row.                                    *)
LEMMA CloseOneAtATime ==
  ASSUME PurseInv, NEW r \in Keys, NEW who, NEW elapsed, NEW reserves,
         Close(r, who, elapsed, reserves), who = User \/ Free(who)
  PROVE  OneAtATime'
BY DEF Close, StillOpen, Free, PurseInv, SettlingInv, SettledOnce, RowsInv, SessionTypes,
       SettlingTypeOK, OneAtATime, billVars

(* Settling goes on or ends; only a free closer begins another.             *)
LEMMA OneAtATimeStep ==
  ASSUME PurseInv, [SessionsNext]_sessionVars
  PROVE  OneAtATime'
<1> USE DEF PurseInv, SettlingInv, RowsInv
<1>1. ASSUME NEW k \in Keys, StartStep(k)
      PROVE  OneAtATime'
  <2>1. ASSUME NEW r \in DOMAIN listed[k], Supersede(k, r)
        PROVE  OneAtATime'
    <3>1. r \in Keys
      BY <2>1, Struck DEF SessionTypes, RequestsTypeOK
    <3>2. CASE Close(r, k, listed[k][r].elapsed, listed[k][r].reserves)
      BY <2>1, <3>1, <3>2, CloseOneAtATime DEF Supersede
    <3> QED
      BY <2>1, <3>2 DEF Supersede, OneAtATime, billVars
  <2>2. CASE \/ ListOpen(k) \/ TakeSnapshot(k) \/ Authorize(k) \/ ReserveBudget(k)
             \/ MintToken(k) \/ UnwindBudget(k) \/ UnwindRow(k) \/ Attach(k) \/ FreezeAndAnswer(k)
    BY <2>2 DEF ListOpen, TakeSnapshot, Authorize, ReserveBudget, MintToken, UnwindBudget,
       UnwindRow, Attach, FreezeAndAnswer, OneAtATime, billVars
  <2> QED
    BY <1>1, <2>1, <2>2 DEF StartStep
<1>2. ASSUME NEW r \in Keys, CompleteSession(r) \/ SweepCloses(r)
      PROVE  OneAtATime'
  BY <1>2, CloseOneAtATime DEF CompleteSession, SweepCloses
<1>3. ASSUME NEW r \in Keys, SettleBudget(r) \/ ParkBudget(r) \/ DebitCredits(r)
      PROVE  OneAtATime'
  BY <1>3 DEF SettleBudget, ParkBudget, DebitCredits, Then, OneAtATime, SessionTypes,
     SettlingTypeOK, billVars
<1>4. ASSUME NEW r \in Keys, Heartbeat(r) \/ Leave(r)
      PROVE  OneAtATime'
  BY <1>4 DEF Heartbeat, Leave, OneAtATime, billVars
<1>5. CASE Crash
  BY <1>5 DEF Crash, Drop, OneAtATime, SessionTypes, SettlingTypeOK, billVars
<1>6. CASE SweepLists \/ Tick \/ UNCHANGED sessionVars
  BY <1>6 DEF SweepLists, Tick, sessionVars, OneAtATime, billVars
<1> QED
  BY <1>1, <1>2, <1>3, <1>4, <1>5, <1>6 DEF SessionsNext, Settle

(* The invariant the mapping to the purse rests on.                         *)
LEMMA PurseInvariant == SessionsSpec => []PurseInv
<1>1. SessionsInit => OneAtATime
  BY DEF SessionsInit, OneAtATime
<1>2. PurseInv /\ [SessionsNext]_sessionVars => OneAtATime'
  BY OneAtATimeStep
<1>3. PurseInv <=> SettlingInv /\ OneAtATime
  BY DEF PurseInv
<1> QED
  BY <1>1, <1>2, <1>3, SettlingInvariant, PTL DEF SessionsSpec

(* The purse reckons as the sessions do.                                    *)
LEMMA PurseReckons ==
  /\ \A S, q : Purse!Tally(S, q) = Tally(S, q)
  /\ \A n : Purse!NonNegative(n) = NonNegative(n)
  /\ \A a, b : Purse!Least(a, b) = Least(a, b)
BY DEF Purse!Tally, Tally, Purse!Units, Units, Purse!Cardinality, Cardinality,
       Purse!NonNegative, NonNegative, Purse!Least, Least

(* The purse's sets of sessions are those of the rows.                      *)
LEMMA PursePhases ==
  ASSUME SessionTypes
  PROVE  /\ Purse!InPhase({"open"}) = Open
         /\ Purse!Ended = Completed
         /\ Purse!PlanLeft = BaseRemaining
<1>1. \A r \in Keys : /\ PurseOf[r] = "open" <=> row[r] = "authorized"
                      /\ PurseOf[r] \in {"ended", "closed"} <=> row[r] = "completed"
  BY DEF PurseOf, SessionPhase, SessionTypes, RowsTypeOK, RowStatuses
<1>2. Purse!InPhase({"open"}) = Open /\ Purse!Ended = Completed
  BY <1>1 DEF Purse!InPhase, Purse!Ended, Open, Completed
<1>3. Tally(Open, granted) = Tally(Open, [r \in Keys |-> Held(r)])
  BY TallySame DEF Held, Open
<1> QED
  BY <1>2, <1>3, PurseReckons DEF Purse!PlanLeft, BaseRemaining

(* One session moves, or none.                                              *)
LEMMA SessionMoves ==
  ASSUME NEW k \in Keys, NEW p, PurseOf'[k] = p, \A q \in Keys \ {k} : PurseOf'[q] = PurseOf[q]
  PROVE  PurseOf' = [PurseOf EXCEPT ![k] = p]
<1>1. PurseOf = [q \in Keys |-> PurseOf[q]] /\ PurseOf' = [q \in Keys |-> PurseOf'[q]]
  BY DEF PurseOf
<1> QED
  BY <1>1

(* A session's phase is that of its row and of its settling.                *)
LEMMA SamePhase ==
  ASSUME NEW q \in Keys, row'[q] = row[q], settling'[q] = settling[q]
  PROVE  PurseOf'[q] = PurseOf[q]
<1>1. SessionPhase(q)' = SessionPhase(q)
  BY DEF SessionPhase
<1> QED
  BY <1>1 DEF PurseOf

(* Closing is the end of a session, or nothing.                             *)
LEMMA CloseEnds ==
  ASSUME PurseInv, NEW r \in Keys, NEW who, NEW elapsed \in 0..Ceiling, NEW reserves,
         Close(r, who, elapsed, reserves), UNCHANGED <<granted, lent, credit, debited>>
  PROVE  [Purse!PurseNext]_(Purse!purseVars)
<1> USE DEF PurseInv, SettlingInv, RowsInv, SessionTypes
<1>1. CASE StillOpen(r) /\ row' = [row EXCEPT ![r] = "completed"]
  <2>1. /\ charged' = [charged EXCEPT ![r] = Billable(r, elapsed)]
        /\ settling' = [settling EXCEPT ![r] = IF reserves THEN "budget" ELSE "debit"]
    BY <1>1 DEF Close, StillOpen
  <2>2. Billable(r, elapsed) \in 0..granted[r] /\ Billable(r, elapsed) \in 0..Ceiling
    BY SessionsAssumption DEF Billable, Least, RowsTypeOK
  <2>3. PurseOf[r] = "open" /\ PurseOf'[r] = "ended"
    BY <1>1, <2>1 DEF StillOpen, PurseOf, SessionPhase, RowsTypeOK, SettlingTypeOK
  <2>4. \A q \in Keys \ {r} : row'[q] = row[q] /\ settling'[q] = settling[q]
    BY <1>1, <2>1 DEF RowsTypeOK, SettlingTypeOK
  <2>5. \A q \in Keys \ {r} : PurseOf'[q] = PurseOf[q]
    BY <2>4, SamePhase
  <2>6. PurseOf' = [PurseOf EXCEPT ![r] = "ended"]
    BY <2>3, <2>5, SessionMoves
  <2>7. Purse!End(r)
    BY <2>1, <2>2, <2>3, <2>6 DEF Purse!End
  <2> QED
    BY <2>2, <2>7 DEF Purse!PurseNext
<1>2. CASE UNCHANGED <<row, billVars, settling>>
  BY <1>2 DEF Purse!purseVars, PurseOf, SessionPhase, billVars
<1> QED
  BY <1>1, <1>2 DEF Close

(* A session that is no longer settled is closed.                           *)
LEMMA SettledCloses ==
  ASSUME PurseInv, NEW r \in Keys, settling[r] # "none", row' = row,
         settling' = [settling EXCEPT ![r] = "none"]
  PROVE  PurseOf[r] = "ended" /\ PurseOf' = [PurseOf EXCEPT ![r] = "closed"]
<1> USE DEF PurseInv, SettlingInv, RowsInv, SessionTypes
<1>1. PurseOf[r] = "ended" /\ PurseOf'[r] = "closed"
  BY DEF SettledOnce, PurseOf, SessionPhase, SettlingTypeOK
<1>2. \A q \in Keys \ {r} : settling'[q] = settling[q]
  BY DEF SettlingTypeOK
<1>3. \A q \in Keys \ {r} : PurseOf'[q] = PurseOf[q]
  BY <1>2 DEF PurseOf, SessionPhase
<1> QED
  BY <1>1, <1>3, SessionMoves

(* What a handler that dies leaves unpaid is one session, or none.          *)
LEMMA DropForgoes ==
  ASSUME PurseInv, NEW who, who # User, Drop(who),
         UNCHANGED <<row, granted, lent, charged, credit, debited>>
  PROVE  [Purse!PurseNext]_(Purse!purseVars)
<1> USE DEF PurseInv, SettlingInv, RowsInv, SessionTypes
<1>1. CASE \E r \in Keys : closer[r] = who /\ settling[r] # "none"
  <2>1. PICK r \in Keys : closer[r] = who /\ settling[r] # "none"
    BY <1>1
  <2>2. \A q \in Keys : settling'[q] = IF q = r THEN "none" ELSE settling[q]
    BY <2>1 DEF Drop, OneAtATime
  <2>3. settling' = [settling EXCEPT ![r] = "none"]
    BY <2>2 DEF Drop, SettlingTypeOK
  <2>4. Purse!Forgo(r)
    BY <2>1, <2>3, SettledCloses DEF Purse!Forgo
  <2> QED
    BY <2>4 DEF Purse!PurseNext
<1>2. CASE \A r \in Keys : closer[r] = who => settling[r] = "none"
  <2>1. settling' = settling
    BY <1>2 DEF Drop, SettlingTypeOK
  <2> QED
    BY <2>1 DEF Purse!purseVars, PurseOf, SessionPhase
<1> QED
  BY <1>1, <1>2

(* The authorisation is begun on what is left of the plan and on credits.   *)
LEMMA AuthorizeBegins ==
  ASSUME PurseInv, NEW k \in Keys, Authorize(k)
  PROVE  [Purse!PurseNext]_(Purse!purseVars)
<1> USE DEF PurseInv, SettlingInv, RowsInv, SessionTypes
<1> DEFINE most == Least(offer[k].seconds, BaseRemaining + offer[k].extra)
<1>1. row[k] = "absent" /\ offer[k].seconds \in 0..Ceiling /\ offer[k].extra \in 0..Credits
  BY DEF Authorize, RowsFollowRequests, Early, RequestsTypeOK
<1>2. BaseRemaining \in Nat /\ Ceiling \in Nat /\ Credits \in Nat
  BY BalancesAreNatural, SessionsAssumption
<1>3. most > 0 => most \in 1..Ceiling /\ most <= BaseRemaining + Credits
  BY <1>1, <1>2 DEF Least
<1> HIDE DEF most
<1>4. CASE /\ most > 0
           /\ row' = [row EXCEPT ![k] = "authorized"]
           /\ granted' = [granted EXCEPT ![k] = most]
           /\ lent' = [lent EXCEPT ![k] = NonNegative(most - BaseRemaining)]
  <2>1. PurseOf[k] = "none" /\ PurseOf'[k] = "open"
    BY <1>1, <1>4 DEF PurseOf, SessionPhase, RowsTypeOK
  <2>2. \A q \in Keys \ {k} : PurseOf'[q] = PurseOf[q]
    <3>1. settling' = settling /\ \A q \in Keys \ {k} : row'[q] = row[q]
      BY <1>4 DEF Authorize, RowsTypeOK
    <3> QED
      BY <3>1, SamePhase
  <2>3. PurseOf' = [PurseOf EXCEPT ![k] = "open"]
    BY <2>1, <2>2, SessionMoves
  <2>4. UNCHANGED <<charged, credit, debited>>
    BY DEF Authorize, billVars
  <2>5. Purse!Begin(k)
    BY <1>3, <1>4, <2>1, <2>3, <2>4, PursePhases, PurseReckons DEF Purse!Begin
  <2> QED
    BY <1>3, <1>4, <2>5 DEF Purse!PurseNext
<1>5. CASE UNCHANGED <<row, granted, lent>>
  BY <1>5 DEF Authorize, billVars, Purse!purseVars, PurseOf, SessionPhase
<1> QED
  BY <1>4, <1>5 DEF Authorize, most

(* A token that could not be minted takes the session back.                 *)
LEMMA UnwindWithdraws ==
  ASSUME PurseInv, NEW k \in Keys, UnwindRow(k)
  PROVE  [Purse!PurseNext]_(Purse!purseVars)
<1> USE DEF PurseInv, SettlingInv, RowsInv, SessionTypes
<1>1. UNCHANGED <<granted, lent, charged, settling, credit, debited>>
  BY DEF UnwindRow, billVars
<1>2. CASE StillOpen(k) /\ row' = [row EXCEPT ![k] = "deleted"]
  <2>1. PurseOf[k] = "open" /\ PurseOf'[k] = "void"
    BY <1>2 DEF StillOpen, PurseOf, SessionPhase, RowsTypeOK
  <2>2. \A q \in Keys \ {k} : PurseOf'[q] = PurseOf[q]
    <3>1. \A q \in Keys \ {k} : row'[q] = row[q]
      BY <1>2 DEF RowsTypeOK
    <3> QED
      BY <1>1, <3>1, SamePhase
  <2>3. Purse!Withdraw(k)
    BY <1>1, <2>1, <2>2, SessionMoves DEF Purse!Withdraw
  <2> QED
    BY <2>3 DEF Purse!PurseNext
<1>3. CASE UNCHANGED row
  BY <1>1, <1>3 DEF Purse!purseVars, PurseOf, SessionPhase
<1> QED
  BY <1>2, <1>3 DEF UnwindRow

(* The debit pays what the session used beyond the plan, or is lost.        *)
LEMMA DebitPays ==
  ASSUME PurseInv, NEW r \in Keys, DebitCredits(r)
  PROVE  [Purse!PurseNext]_(Purse!purseVars)
<1>1. /\ settling[r] # "none" /\ settling' = [settling EXCEPT ![r] = "none"]
      /\ UNCHANGED <<row, granted, lent, charged>>
  BY DEF DebitCredits, Then, billVars
<1>2. PurseOf[r] = "ended" /\ PurseOf' = [PurseOf EXCEPT ![r] = "closed"]
  BY <1>1, SettledCloses
<1>3. Purse!Least(Purse!Beyond(r), credit) = Least(OverPlan(r), credit)
  BY PursePhases, PurseReckons
     DEF PurseInv, SettlingInv, RowsInv, Purse!Beyond, OverPlan, OtherSessions
<1>4. CASE /\ credit' = credit - Least(OverPlan(r), credit)
           /\ debited' = [debited EXCEPT ![r] = Least(OverPlan(r), credit)]
  <2>1. Purse!Pay(r)
    BY <1>1, <1>2, <1>3, <1>4 DEF Purse!Pay
  <2> QED
    BY <2>1 DEF Purse!PurseNext
<1>5. CASE UNCHANGED <<credit, debited>>
  <2>1. Purse!Forgo(r)
    BY <1>1, <1>2, <1>5 DEF Purse!Forgo
  <2> QED
    BY <2>1 DEF Purse!PurseNext
<1> QED
  BY <1>4, <1>5 DEF DebitCredits

(* Every step of the sessions is a step of the purse or leaves it alone.    *)
LEMMA PurseStep ==
  ASSUME PurseInv, [SessionsNext]_sessionVars
  PROVE  [Purse!PurseNext]_(Purse!purseVars)
<1> USE DEF PurseInv, SettlingInv, RowsInv, SessionTypes
<1> DEFINE Rests == UNCHANGED <<row, granted, lent, charged, settling, credit, debited>>
<1>1. Rests => UNCHANGED Purse!purseVars
  BY DEF Purse!purseVars, PurseOf, SessionPhase
<1>2. ASSUME NEW k \in Keys, StartStep(k)
      PROVE  [Purse!PurseNext]_(Purse!purseVars)
  <2>1. ASSUME NEW r \in DOMAIN listed[k], Supersede(k, r)
        PROVE  [Purse!PurseNext]_(Purse!purseVars)
    <3>1. r \in Keys /\ listed[k][r].elapsed \in 0..Ceiling
      BY <2>1, Struck DEF RequestsTypeOK
    <3>2. CASE Close(r, k, listed[k][r].elapsed, listed[k][r].reserves)
      BY <2>1, <3>1, <3>2, CloseEnds DEF Supersede
    <3> QED
      BY <1>1, <2>1, <3>2 DEF Supersede, billVars
  <2>2. CASE \/ ListOpen(k) \/ TakeSnapshot(k) \/ ReserveBudget(k) \/ MintToken(k)
             \/ UnwindBudget(k) \/ Attach(k) \/ FreezeAndAnswer(k)
    BY <1>1, <2>2 DEF ListOpen, TakeSnapshot, ReserveBudget, MintToken, UnwindBudget,
       Attach, FreezeAndAnswer, billVars
  <2> QED
    BY <1>2, <2>1, <2>2, AuthorizeBegins, UnwindWithdraws DEF StartStep
<1>3. ASSUME NEW r \in Keys, CompleteSession(r)
      PROVE  [Purse!PurseNext]_(Purse!purseVars)
  <2>1. age[r] \in 0..Ceiling
    BY DEF RowsTypeOK
  <2> QED
    BY <1>3, <2>1, CloseEnds DEF CompleteSession
<1>4. ASSUME NEW r \in Keys, SweepCloses(r)
      PROVE  [Purse!PurseNext]_(Purse!purseVars)
  <2>1. abandoned[r].lastSeen \in Unseen..Ceiling
    BY <1>4, StruckSighting DEF SweepCloses, RequestsTypeOK
  <2>2. AbandonedEnd(r, abandoned[r].lastSeen) \in 0..Ceiling
    <3>1. age[r] \in 0..Ceiling /\ Stale \in Nat
      BY SessionsAssumption DEF RowsTypeOK
    <3> QED
      BY <2>1, <3>1, SessionsAssumption DEF AbandonedEnd, Least, Unseen
  <2> QED
    BY <1>4, <2>2, CloseEnds DEF SweepCloses
<1>5. ASSUME NEW r \in Keys, SettleBudget(r) \/ ParkBudget(r)
      PROVE  [Purse!PurseNext]_(Purse!purseVars)
  <2>1. /\ UNCHANGED <<row, granted, lent, charged, credit, debited>>
        /\ settling[r] # "none"
        /\ \E next \in {"park", "debit"} : settling' = [settling EXCEPT ![r] = next]
    BY <1>5 DEF SettleBudget, ParkBudget, Then, billVars
  <2>2. \A q \in Keys : (settling'[q] # "none") <=> (settling[q] # "none")
    BY <2>1 DEF SettlingTypeOK
  <2>3. PurseOf' = PurseOf
    BY <2>1, <2>2 DEF PurseOf, SessionPhase
  <2> QED
    BY <2>1, <2>3 DEF Purse!purseVars
<1>6. ASSUME NEW r \in Keys, Heartbeat(r) \/ Leave(r)
      PROVE  [Purse!PurseNext]_(Purse!purseVars)
  BY <1>1, <1>6 DEF Heartbeat, Leave, billVars
<1>7. CASE Crash
  <2>1. UNCHANGED <<row, granted, lent, charged, credit, debited>>
    BY <1>7 DEF Crash, billVars
  <2>2. Sweep # User /\ \A k \in Keys : k # User
    BY SessionsAssumption DEF Sweep, User
  <2>3. CASE \E who \in Keys \cup {Sweep} : Drop(who)
    BY <2>1, <2>2, <2>3, DropForgoes
  <2>4. CASE \E r \in Keys : settling[r] # "none" /\ settling' = [settling EXCEPT ![r] = "none"]
    BY <2>1, <2>4, SettledCloses DEF Purse!PurseNext, Purse!Forgo
  <2> QED
    BY <1>7, <2>3, <2>4 DEF Crash
<1>8. CASE SweepLists \/ Tick \/ UNCHANGED sessionVars
  BY <1>1, <1>8 DEF SweepLists, Tick, sessionVars, billVars
<1> QED
  BY <1>2, <1>3, <1>4, <1>5, <1>6, <1>7, <1>8, DebitPays DEF SessionsNext, Settle

(* The sessions, with their stale snapshots, racing closers, lost replies   *)
(* and deaths, are an atomic purse: a session begins, ends and is paid for  *)
(* at most once (authorize_..., closeAuthorizationRow,                      *)
(* debit_conversation_extra_credits_v1).                                    *)
THEOREM SessionsImplementPurse == SessionsSpec => ImplementsPurse
<1>1. SessionsInit => Purse!PurseInit
  <2> SUFFICES ASSUME SessionsInit PROVE Purse!PurseInit
    OBVIOUS
  <2>1. PurseOf = [r \in Keys |-> "none"]
    BY DEF SessionsInit, PurseOf, SessionPhase
  <2> QED
    BY <2>1 DEF SessionsInit, Purse!PurseInit
<1>2. PurseInv /\ [SessionsNext]_sessionVars => [Purse!PurseNext]_(Purse!purseVars)
  BY PurseStep
<1> QED
  BY <1>1, <1>2, PurseInvariant, PTL DEF SessionsSpec, ImplementsPurse, Purse!PurseSpec

(* A debit moves seconds from the purse to the one session it is for.       *)
LEMMA DebitBalances ==
  ASSUME PurseInv, CreditsBalance, NEW r \in Keys, DebitCredits(r)
  PROVE  CreditsBalance'
<1> USE DEF PurseInv, SettlingInv, RowsInv, SessionTypes
<1> DEFINE taken == Least(OverPlan(r), credit)
<1>1. CASE UNCHANGED <<credit, debited>>
  BY <1>1 DEF CreditsBalance, Purse!PurseBalances
<1>2. CASE credit' = credit - taken /\ debited' = [debited EXCEPT ![r] = taken]
  <2>1. debited[r] = 0 /\ debited \in [Keys -> 0..Credits] /\ credit \in 0..Credits /\ Credits \in Nat
    BY SessionsAssumption DEF DebitCredits, SettledOnce, SettlingTypeOK
  <2>2. taken \in 0..Credits
    <3>1. debited' \in [Keys -> 0..Credits]
      BY TypesStep DEF SessionsNext, Settle, SettlingTypeOK
    <3> QED
      BY <1>2, <2>1, <3>1
  <2>3. IsFiniteSet(Keys) /\ IsFiniteSet(Keys \ {r})
    BY LedgerAssumption, FS_RemoveElement
  <2> HIDE DEF taken
  <2>4. Tally(Keys \ {r}, debited) = Tally(Keys, debited) - debited[r]
    BY <2>1, <2>3, TallyRemove
  <2>5. Tally(Keys, debited') = Tally(Keys \ {r}, debited) + taken
    <3>1. debited'[r] = taken /\ r \notin Keys \ {r} /\ Keys = (Keys \ {r}) \cup {r}
      BY <1>2, <2>1
    <3>2. \A y \in Keys \ {r} : debited'[y] = debited[y] /\ debited[y] \in 0..Credits
      BY <1>2, <2>1
    <3> QED
      BY <2>1, <2>2, <2>3, <3>1, <3>2, TallyEnter
  <2>6. Tally(Keys, debited) \in Nat
    BY <2>1, <2>3, UnitsFinite
  <2>7. credit + Tally(Keys, debited) = Credits
    BY PurseReckons DEF CreditsBalance, Purse!PurseBalances
  <2>8. credit' + Tally(Keys, debited') = Credits
    BY <1>2, <2>1, <2>2, <2>4, <2>5, <2>6, <2>7
  <2> QED
    BY <2>8, PurseReckons DEF CreditsBalance, Purse!PurseBalances
<1> QED
  BY <1>1, <1>2 DEF DebitCredits

(* No purchased second is lost or debited twice: it is in the purse or      *)
(* among those one session cost.                                            *)
THEOREM CreditsAreAccountedFor == SessionsSpec => []CreditsBalance
<1>1. SessionsInit => CreditsBalance
  <2> SUFFICES ASSUME SessionsInit PROVE CreditsBalance
    OBVIOUS
  <2>1. Units(Keys, debited) = {}
    BY DEF SessionsInit, Units
  <2>2. Tally(Keys, debited) = 0
    BY <2>1, FS_EmptySet DEF Tally
  <2> QED
    BY <2>2, SessionsAssumption, PurseReckons DEF SessionsInit, CreditsBalance, Purse!PurseBalances
<1>2. PurseInv /\ CreditsBalance /\ [SessionsNext]_sessionVars => CreditsBalance'
  <2> SUFFICES ASSUME PurseInv, CreditsBalance, [SessionsNext]_sessionVars PROVE CreditsBalance'
    OBVIOUS
  <2>1. CASE UNCHANGED <<credit, debited>>
    BY <2>1 DEF CreditsBalance, Purse!PurseBalances
  <2> QED
    BY <2>1, CreditStep, DebitBalances
<1> QED
  BY <1>1, <1>2, PurseInvariant, PTL DEF SessionsSpec
===============================================================================
