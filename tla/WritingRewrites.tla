---------------------------- MODULE WritingRewrites ----------------------------
(* The evaluation of a learner's rewrite of one review                      *)
(* (api/writing-rewrite-evaluate.ts and writingRewriteOrchestrator.ts): a   *)
(* reservation without a lease admits one call at a time, the call walks an *)
(* attempt and its evaluation through a dozen writes with no transaction    *)
(* around them, and every later call replays what was stored.               *)
EXTENDS Integers, Sequences, FiniteSets

CONSTANTS
  Calls,        \* POST /api/writing-rewrite-evaluate, of every device
  Texts,        \* what the learner may submit
  MaxFailures,  \* bound: model calls that fail
  MaxUpsets     \* bound: database calls that fail, processes that die

ASSUME RewriteAssumption == MaxFailures \in Nat /\ MaxUpsets \in Nat

VARIABLES
  reservation,  \* writing_rewrite_reservations: the row of this review
  attempt,      \* writing_rewrite_attempts by rewrite_sequence, each with
                \* the status of its row of writing_rewrite_evaluations
  call,         \* where each call is
  analyses,     \* history: evaluations the model answered, counted to 2
  failures,     \* failed model calls so far
  upsets        \* failed database calls and deaths so far

rewriteVars == <<reservation, attempt, call, analyses, failures, upsets>>

Attempt == [text : Texts \cup {"none"},
            status : {"draft", "submitted", "evaluation_pending",
                      "evaluation_failed", "evaluated"},
            evaluation : {"none", "pending", "completed"}]

CallSteps == {"idle", "reserve", "latest", "create", "write", "submit",
              "check", "pend", "model", "persist", "settle", "mark",
              "complete", "fail", "release"}

Draft == [text |-> "none", status |-> "draft", evaluation |-> "none"]

(* A review of before the reservations may have its evaluated attempt.      *)
Legacy(t) == [text |-> t, status |-> "evaluated", evaluation |-> "completed"]

RewriteInit ==
  /\ reservation = "none"
  /\ attempt \in {<< >>} \cup {<<Legacy(t)>> : t \in Texts}
  /\ call = [c \in Calls |-> [at |-> "idle", text |-> "none", fresh |-> FALSE]]
  /\ analyses = 0
  /\ failures = 0
  /\ upsets = 0

-------------------------------------------------------------------------------
In(c, step) == call[c].at = step

MovesTo(c, step) == call' = [call EXCEPT ![c].at = step]

Ends(c) == call' = [call EXCEPT ![c] = [at |-> "idle", text |-> "none",
                                        fresh |-> FALSE]]

(* Only one call is between "latest" and "complete" with a fresh            *)
(* reservation, and no one else creates an attempt: its own is the latest.  *)
Latest == Len(attempt)

LatestIs(status) == attempt # << >> /\ attempt[Latest].status \in status

SetStatus(status) == attempt' = [attempt EXCEPT ![Latest] = [@ EXCEPT !.status = status]]

Reusable == {"submitted", "evaluation_pending", "evaluation_failed"}

\* Mutant of Throws: the analysis is marked consumed however the call ends.
ThrowsConsuming(c) == IF call[c].fresh THEN MovesTo(c, "complete") ELSE Ends(c)

(* The outer catch: only a fresh reservation is this call's to release.     *)
Throws(c) == IF call[c].fresh THEN MovesTo(c, "release") ELSE Ends(c)

-------------------------------------------------------------------------------
Submit(c, t) ==
  /\ In(c, "idle")
  /\ call' = [call EXCEPT ![c] = [at |-> "reserve", text |-> t, fresh |-> FALSE]]
  /\ UNCHANGED <<reservation, attempt, analyses, failures, upsets>>

\* Mutant of ReserveRewrite: a reservation in progress is taken over.
ReserveAgain(c) ==
  /\ In(c, "reserve")
  /\ \/ /\ reservation = "completed"
        /\ MovesTo(c, "latest")
        /\ UNCHANGED reservation
     \/ /\ reservation # "completed"
        /\ reservation' = "reserved"
        /\ call' = [call EXCEPT ![c].at = "latest", ![c].fresh = TRUE]
  /\ UNCHANGED <<attempt, analyses, failures, upsets>>

(* reserve_writing_rewrite, serialised by its advisory lock.                *)
ReserveRewrite(c) ==
  /\ In(c, "reserve")
  /\ \/ /\ reservation = "completed"
        /\ MovesTo(c, "latest")
        /\ UNCHANGED reservation
     \/ /\ reservation = "reserved"             \* 409
        /\ Ends(c)
        /\ UNCHANGED reservation
     \/ /\ reservation = "none"
        /\ reservation' = "reserved"
        /\ call' = [call EXCEPT ![c].at = "latest", ![c].fresh = TRUE]
  /\ UNCHANGED <<attempt, analyses, failures, upsets>>

(* getLatestRewriteAttempt: replay it, give up, take it up again, or open a *)
(* new one.                                                                 *)
ReadLatest(c) ==
  /\ In(c, "latest")
  /\ \/ LatestIs({"evaluated"}) /\ MovesTo(c, "complete")
     \/ /\ ~LatestIs({"evaluated"})
        /\ ~call[c].fresh
        /\ MovesTo(c, "release")
     \/ /\ call[c].fresh
        /\ LatestIs(Reusable)
        /\ attempt[Latest].text = call[c].text
        /\ MovesTo(c, "check")
     \/ /\ call[c].fresh
        /\ LatestIs({"draft"})
        /\ MovesTo(c, "write")
     \/ /\ call[c].fresh
        /\ \/ attempt = << >>
           \/ LatestIs(Reusable) /\ attempt[Latest].text # call[c].text
        /\ MovesTo(c, "create")
  /\ UNCHANGED <<reservation, attempt, analyses, failures, upsets>>

CreateRewriteAttempt(c) ==
  /\ In(c, "create")
  /\ attempt' = Append(attempt, Draft)
  /\ MovesTo(c, "write")
  /\ UNCHANGED <<reservation, analyses, failures, upsets>>

UpdateRewriteText(c) ==
  /\ In(c, "write")
  /\ attempt' = [attempt EXCEPT ![Latest] = [@ EXCEPT !.text = call[c].text]]
  /\ MovesTo(c, "submit")
  /\ UNCHANGED <<reservation, analyses, failures, upsets>>

SubmitAttempt(c) ==
  /\ In(c, "submit")
  /\ SetStatus("submitted")
  /\ MovesTo(c, "check")
  /\ UNCHANGED <<reservation, analyses, failures, upsets>>

-------------------------------------------------------------------------------
(* evaluateWritingRewrite.  A completed evaluation is returned as it is,    *)
(* and the attempt keeps the status it has.                                 *)
CheckIdempotency(c) ==
  /\ In(c, "check")
  /\ MovesTo(c, IF attempt[Latest].evaluation = "completed"
                THEN "complete" ELSE "pend")
  /\ UNCHANGED <<reservation, attempt, analyses, failures, upsets>>

SetPending(c) ==
  /\ In(c, "pend")
  /\ SetStatus("evaluation_pending")
  /\ MovesTo(c, "model")
  /\ UNCHANGED <<reservation, analyses, failures, upsets>>

ModelAnswers(c) ==
  /\ In(c, "model")
  /\ analyses' = IF analyses < 2 THEN analyses + 1 ELSE 2
  /\ MovesTo(c, "persist")
  /\ UNCHANGED <<reservation, attempt, failures, upsets>>

ModelFails(c) ==
  /\ In(c, "model")
  /\ failures < MaxFailures
  /\ failures' = failures + 1
  /\ MovesTo(c, "fail")
  /\ UNCHANGED <<reservation, attempt, analyses, upsets>>

(* createRewriteEvaluation: the insert, refused when an earlier try of the  *)
(* attempt left its row (UNIQUE (rewrite_submission_id,                     *)
(* evaluation_version)).                                                    *)
PersistEvaluation(c) ==
  /\ In(c, "persist")
  /\ \/ /\ attempt[Latest].evaluation = "none"
        /\ attempt' = [attempt EXCEPT ![Latest] = [@ EXCEPT !.evaluation = "pending"]]
        /\ MovesTo(c, "settle")
     \/ /\ attempt[Latest].evaluation # "none"
        /\ MovesTo(c, "fail")
        /\ UNCHANGED attempt
  /\ UNCHANGED <<reservation, analyses, failures, upsets>>

(* The outcomes, the evidence and updateEvaluationStatus('completed').      *)
SettleEvaluation(c) ==
  /\ In(c, "settle")
  /\ attempt' = [attempt EXCEPT ![Latest] = [@ EXCEPT !.evaluation = "completed"]]
  /\ MovesTo(c, "mark")
  /\ UNCHANGED <<reservation, analyses, failures, upsets>>

MarkEvaluated(c) ==
  /\ In(c, "mark")
  /\ SetStatus("evaluated")
  /\ MovesTo(c, "complete")
  /\ UNCHANGED <<reservation, analyses, failures, upsets>>

EvaluationFails(c) ==
  /\ In(c, "fail")
  /\ SetStatus("evaluation_failed")
  /\ Throws(c)
  /\ UNCHANGED <<reservation, analyses, failures, upsets>>

-------------------------------------------------------------------------------
(* complete_writing_rewrite_reservation.                                    *)
CompleteReservation(c) ==
  /\ In(c, "complete")
  /\ reservation' = IF reservation = "reserved" THEN "completed" ELSE reservation
  /\ Ends(c)
  /\ UNCHANGED <<attempt, analyses, failures, upsets>>

(* fail_writing_rewrite_reservation: of a fresh reservation, or of one with *)
(* nothing to replay.                                                       *)
ReleaseReservation(c) ==
  /\ In(c, "release")
  /\ reservation' = IF reservation = "reserved" THEN "none" ELSE reservation
  /\ Ends(c)
  /\ UNCHANGED <<attempt, analyses, failures, upsets>>

(* A database call fails.  The two RPCs that end a call report the error in *)
(* a result nobody looks at; a failure of the reservation is answered 500;  *)
(* one while the evaluation is persisted marks the attempt failed; any      *)
(* other goes to the outer catch.                                           *)
DatabaseFails(c) ==
  /\ call[c].at \notin {"idle", "model"}
  /\ upsets < MaxUpsets
  /\ upsets' = upsets + 1
  /\ CASE call[c].at \in {"reserve", "complete", "release"} -> Ends(c)
       [] call[c].at \in {"persist", "settle"} -> MovesTo(c, "fail")
       [] OTHER -> Throws(c)
  /\ UNCHANGED <<reservation, attempt, analyses, failures>>

CallDies(c) ==
  /\ ~In(c, "idle")
  /\ upsets < MaxUpsets
  /\ upsets' = upsets + 1
  /\ Ends(c)
  /\ UNCHANGED <<reservation, attempt, analyses, failures>>

Evaluate(c) ==
  \/ ReserveRewrite(c) \/ ReadLatest(c) \/ CreateRewriteAttempt(c)
  \/ UpdateRewriteText(c) \/ SubmitAttempt(c) \/ CheckIdempotency(c)
  \/ SetPending(c) \/ ModelAnswers(c) \/ PersistEvaluation(c)
  \/ SettleEvaluation(c) \/ MarkEvaluated(c) \/ EvaluationFails(c)
  \/ CompleteReservation(c) \/ ReleaseReservation(c)

Submitting(c) == \E t \in Texts : Submit(c, t)

RewriteNext ==
  \E c \in Calls : \/ Submitting(c) \/ Evaluate(c)
                   \/ ModelFails(c) \/ DatabaseFails(c) \/ CallDies(c)

(* The platform runs every call on, and a learner without an evaluation     *)
(* submits again from one of the devices.                                   *)
RewriteFairness ==
  /\ \A c \in Calls : WF_rewriteVars(Evaluate(c))
  /\ WF_rewriteVars(\E c \in Calls : Submitting(c))

RewriteSafety == RewriteInit /\ [][RewriteNext]_rewriteVars

RewriteSpec == RewriteSafety /\ RewriteFairness

-------------------------------------------------------------------------------
(* Types of the rows and of the calls.                                      *)
RewriteTypeOK ==
  /\ reservation \in {"none", "reserved", "completed"}
  /\ attempt \in Seq(Attempt)
  /\ call \in [Calls -> [at : CallSteps, text : Texts \cup {"none"},
                         fresh : BOOLEAN]]
  /\ analyses \in 0..2
  /\ failures \in 0..MaxFailures
  /\ upsets \in 0..MaxUpsets

(* As long as no database call fails and no process dies, one review buys   *)
(* one analysis of the model, whatever texts the learner submits, from      *)
(* however many devices at once, and however often the model fails.         *)
AnalysisIsBoughtOnce == upsets = 0 => analyses <= 1

(* A completed reservation, which refuses every further analysis, always    *)
(* has an analysis to show for it: the latest attempt's evaluation is       *)
(* completed, whichever calls failed or died on the way.                    *)
CompletedIsStored ==
  reservation = "completed" =>
    /\ attempt # << >>
    /\ attempt[Latest].evaluation = "completed"

Evaluated == reservation = "completed" /\ LatestIs({"evaluated"})

(* A learner who keeps submitting gets an evaluation, through any number of *)
(* 409 answers and failed model calls; one failed database call or death    *)
(* can leave the reservation held, or an attempt that every retry fails on. *)
EvaluationArrives == []<>(upsets > 0 \/ Evaluated)
===============================================================================
