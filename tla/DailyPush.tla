------------------------------- MODULE DailyPush -------------------------------
(* The reminder of one day (api/_push/behavioralPushSweep.ts and its RPCs): *)
(* invocations of the sweep walk through the learners in the order of their *)
(* ids, page after page; each claims a learner's event of the day, asks     *)
(* again whether the learner has practised or opted out, and sends.         *)
(* Invocations overlap, stop on their time budget and die; learners         *)
(* practise and opt out at any time.                                        *)
EXTENDS Naturals, FiniteSets

CONSTANTS
  Population,     \* learners 1..Population
  Invocations,
  PageSize,       \* SWEEP_BATCH_SIZE
  Allowed,        \* the learners shouldRealSend allows: others get a dry run
  MaxExcuses      \* bound: practices and opt-outs

Learners == 1 .. Population

PushAssumption ==
  /\ Population \in Nat
  /\ PageSize \in Nat \ {0}
  /\ Allowed \subseteq Learners
  /\ MaxExcuses \in Nat

ASSUME PushAssumption

VARIABLES
  reminder,    \* status of the event of (user_id, local_date)
  delivered,   \* history: notifications that reached the learner's devices
  practice,    \* history: whether the learner has practised today, and
               \* whether before or after the event was claimed
  optOut,      \* history: the same of user_communication_blocks
  invocation

pushVars == <<reminder, delivered, practice, optOut, invocation>>

Moments == {"never", "before the claim", "after the claim"}

Uninvoked == [at |-> "off", from |-> 0, cursor |-> 0, page |-> {}, last |-> FALSE,
              learner |-> 0, outcome |-> "none", sound |-> TRUE]

PushInit ==
  /\ reminder = [u \in Learners |-> "none"]
  /\ delivered = [u \in Learners |-> 0]
  /\ practice = [u \in Learners |-> "never"]
  /\ optOut = [u \in Learners |-> "never"]
  /\ invocation = [i \in Invocations |-> Uninvoked]

Invoked(i, stage) == invocation[i].at = stage

Proceed(i, stage) == invocation' = [invocation EXCEPT ![i].at = stage]

Decide(i, outcome) ==
  invocation' = [invocation EXCEPT ![i] = [@ EXCEPT !.at = "mark", !.outcome = outcome]]

-------------------------------------------------------------------------------
(* The cron starts at the beginning; a caller may go on where an invocation *)
(* says that it stopped (nextCursor).                                       *)
Invoke(i) ==
  /\ Invoked(i, "off")
  /\ \E from \in {0} \cup {invocation[k].cursor : k \in {k \in Invocations : Invoked(k, "stopped")}} :
       invocation' = [invocation EXCEPT ![i] = [@ EXCEPT !.at = "page",
                                                         !.from = from,
                                                         !.cursor = from]]
  /\ UNCHANGED <<reminder, delivered, practice, optOut>>

(* behavioral_push_candidates: who has no event yet, has not practised and  *)
(* has not opted out, after the cursor.                                     *)
DueNow == {u \in Learners : /\ reminder[u] = "none"
                            /\ practice[u] = "never"
                            /\ optOut[u] = "never"}

\* Mutant of Unseen: by offset, as if those already claimed were still due.
UnseenByOffset(after) ==
  {u \in DueNow : Cardinality({v \in DueNow : v < u}) >= after}

Unseen(after) == {u \in DueNow : u > after}

(* LIMIT: the first PageSize of them, or all.                               *)
IsPage(page, unseen) ==
  /\ \A u \in page : \A v \in unseen : v < u => v \in page
  /\ Cardinality(page) <= PageSize
  /\ Cardinality(page) = PageSize \/ page = unseen

FetchPage(i) ==
  LET unseen == Unseen(invocation[i].cursor) IN
  /\ Invoked(i, "page")
  /\ \/ unseen = {} /\ Proceed(i, "drained")
     \/ \E page \in SUBSET unseen : \E u \in page :
          /\ IsPage(page, unseen)
          /\ \A v \in page : v <= u
          /\ invocation' = [invocation EXCEPT ![i] =
                              [@ EXCEPT !.at = "rows", !.page = page, !.cursor = u,
                                        !.last = Cardinality(page) < PageSize]]
     \/ Proceed(i, "stopped")
  /\ UNCHANGED <<reminder, delivered, practice, optOut>>

EndPage(i) ==
  /\ Invoked(i, "rows") /\ invocation[i].page = {}
  /\ Proceed(i, IF invocation[i].last THEN "drained" ELSE "page")
  /\ UNCHANGED <<reminder, delivered, practice, optOut>>

(* The deadline, looked at before every page and every learner.             *)
StopOnBudget(i) ==
  /\ \/ Invoked(i, "page")
     \/ Invoked(i, "rows") /\ invocation[i].page # {}
  /\ Proceed(i, "stopped")
  /\ UNCHANGED <<reminder, delivered, practice, optOut>>

-------------------------------------------------------------------------------
(* behavioral_push_claim, for the next learner of the page: the one insert  *)
(* of the event wins; the answer may be an error, with or without the row.  *)
ClaimReminder(i) ==
  \E u \in invocation[i].page :
    LET rest == [invocation[i] EXCEPT !.page = @ \ {u}]
        inserted == [reminder EXCEPT ![u] = "claimed"] IN
    /\ Invoked(i, "rows") /\ \A v \in invocation[i].page : u <= v
    /\ \/ /\ reminder[u] = "none"
          /\ reminder' = inserted
          /\ invocation' = [invocation EXCEPT ![i] =
                              [rest EXCEPT !.at = "revalidate", !.learner = u]]
       \/ /\ reminder[u] # "none"
          /\ invocation' = [invocation EXCEPT ![i] = rest]
          /\ UNCHANGED reminder
       \/ /\ reminder' \in {reminder, IF reminder[u] = "none" THEN inserted ELSE reminder}
          /\ invocation' = [invocation EXCEPT ![i] = [rest EXCEPT !.sound = FALSE]]
    /\ UNCHANGED <<delivered, practice, optOut>>

(* behavioral_push_revalidate, failed or answered, then shouldRealSend.     *)
Revalidate(i) ==
  LET u == invocation[i].learner IN
  /\ Invoked(i, "revalidate")
  /\ \/ Decide(i, "skipped")
     \/ practice[u] = "never" /\ u \notin Allowed /\ Decide(i, "dry_run")
     \/ practice[u] = "never" /\ u \in Allowed /\ Proceed(i, "gate")
  /\ UNCHANGED <<reminder, delivered, practice, optOut>>

(* canSendCommunication, closed when it fails.                              *)
CheckSuppression(i) ==
  /\ Invoked(i, "gate")
  /\ \/ Decide(i, "skipped")
     \/ optOut[invocation[i].learner] = "never" /\ Proceed(i, "send")
  /\ UNCHANGED <<reminder, delivered, practice, optOut>>

(* sendBehavioralPush: it may deliver and still be taken for failed.        *)
SendPush(i) ==
  /\ Invoked(i, "send")
  /\ \/ /\ delivered' = [delivered EXCEPT ![invocation[i].learner] = @ + 1]
        /\ \E outcome \in {"sent", "failed"} : Decide(i, outcome)
     \/ /\ Decide(i, "failed")
        /\ UNCHANGED delivered
  /\ UNCHANGED <<reminder, practice, optOut>>

(* behavioral_push_mark: only what is claimed, and its errors are ignored.  *)
Mark(i) ==
  LET u == invocation[i].learner IN
  /\ Invoked(i, "mark")
  /\ \/ /\ reminder' = [reminder EXCEPT ![u] = IF @ = "claimed" THEN invocation[i].outcome
                                                              ELSE @]
     \/ UNCHANGED reminder
  /\ invocation' = [invocation EXCEPT ![i] = [@ EXCEPT !.at = "rows", !.learner = 0,
                                                       !.outcome = "none"]]
  /\ UNCHANGED <<delivered, practice, optOut>>

InvocationDies(i) ==
  /\ invocation[i].at \notin {"off", "drained", "stopped", "dead"}
  /\ invocation' = [invocation EXCEPT ![i] = [Uninvoked EXCEPT !.at = "dead"]]
  /\ UNCHANGED <<reminder, delivered, practice, optOut>>

-------------------------------------------------------------------------------
Excuses == Cardinality({u \in Learners : practice[u] # "never"})
           + Cardinality({u \in Learners : optOut[u] # "never"})

Moment(u) == IF reminder[u] = "none" THEN "before the claim" ELSE "after the claim"

PractiseToday(u) ==
  /\ practice[u] = "never" /\ Excuses < MaxExcuses
  /\ practice' = [practice EXCEPT ![u] = Moment(u)]
  /\ UNCHANGED <<reminder, delivered, optOut, invocation>>

OptOut(u) ==
  /\ optOut[u] = "never" /\ Excuses < MaxExcuses
  /\ optOut' = [optOut EXCEPT ![u] = Moment(u)]
  /\ UNCHANGED <<reminder, delivered, practice, invocation>>

-------------------------------------------------------------------------------
Sweeping(i) ==
  \/ Invoke(i) \/ FetchPage(i) \/ EndPage(i) \/ StopOnBudget(i)
  \/ ClaimReminder(i) \/ Revalidate(i) \/ CheckSuppression(i)
  \/ SendPush(i) \/ Mark(i) \/ InvocationDies(i)

PushNext ==
  \/ \E i \in Invocations : Sweeping(i)
  \/ \E u \in Learners : PractiseToday(u) \/ OptOut(u)

PushSpec == PushInit /\ [][PushNext]_pushVars

-------------------------------------------------------------------------------
InvocationStages == {"off", "page", "rows", "revalidate", "gate", "send", "mark",
                     "drained", "stopped", "dead"}

Outcomes == {"sent", "failed", "skipped", "dry_run"}

InvocationRecord ==
  [at : InvocationStages, from : {0} \cup Learners, cursor : {0} \cup Learners,
   page : SUBSET Learners, last : BOOLEAN, learner : {0} \cup Learners,
   outcome : {"none"} \cup Outcomes, sound : BOOLEAN]

(* Types of the day's events and of the invocations.                        *)
PushTypeOK ==
  /\ reminder \in [Learners -> {"none", "claimed"} \cup Outcomes]
  /\ delivered \in [Learners -> Nat]
  /\ practice \in [Learners -> Moments]
  /\ optOut \in [Learners -> Moments]
  /\ invocation \in [Invocations -> InvocationRecord]

(* Nobody is reminded twice, nor who had practised or opted out before the  *)
(* event was claimed (the page may be older), nor who is only to get a dry  *)
(* run; what is recorded as sent was delivered, as skipped was not.         *)
RemindedOnce ==
  \A u \in Learners :
    /\ delivered[u] <= 1
    /\ delivered[u] = 1 => /\ u \in Allowed
                           /\ practice[u] # "before the claim"
                           /\ optOut[u] # "before the claim"
                           /\ reminder[u] \in {"claimed", "sent", "failed"}
    /\ reminder[u] = "sent" => delivered[u] = 1

(* An invocation that ends with hasMore = false leaves no learner behind    *)
(* whom it should have reminded, however many left the candidates while it  *)
(* went through the pages, unless one of its claims came back as an error.  *)
(* Who signs up or is unblocked in mid-pass behind the cursor is left out:  *)
(* the learners of the day are given.                                       *)
DrainedMeansDecided ==
  \A i \in Invocations :
    Invoked(i, "drained") /\ invocation[i].sound =>
      \A u \in DueNow : u <= invocation[i].from

(* A reminder goes only to who is due one, and a whole pass misses nobody.  *)
RemindersAreDue == RemindedOnce /\ DrainedMeansDecided
===============================================================================
