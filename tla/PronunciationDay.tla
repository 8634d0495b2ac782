---------------------------- MODULE PronunciationDay ----------------------------
(* A user's pronunciation training of one day                               *)
(* (api/pronunciation-training/[...slug].ts and its RPCs): rounds of a text *)
(* and its assessment, at most one of them open, up to the plan's daily     *)
(* limit.  Tabs ask for texts; the recordings they submit (attempts)        *)
(* compete for the open round, and one that vanished is taken over after    *)
(* six minutes.                                                             *)
EXTENDS Integers, Sequences, FiniteSets

CONSTANTS
  TextCalls,      \* the calls for a text, one of a tab at a time
  Attempts,       \* submissions, each under a fresh attemptId
  DailyRounds,    \* the plan's evaluations per day
  MaxAccidents    \* bound: see Accident

ASSUME PronunciationAssumption ==
  /\ "none" \notin Attempts
  /\ DailyRounds \in Nat /\ MaxAccidents \in Nat

VARIABLES
  round,      \* pronunciation_training_sessions of the user and the day
  counted,    \* v_completed of each call for a text under way
  try,        \* where the calls of each attempt are
  accidents,  \* accidents so far
  cut         \* history: attempts whose client left, or which six minutes
              \* overtook, before they were through

pronunciationVars == <<round, counted, try, accidents, cut>>

NoCount == -1

Round == [status : {"text_generated", "processing", "failed_retryable",
                    "completed"},
          active : Attempts \cup {"none"},     \* active_attempt_id
          idle : BOOLEAN,     \* attempt_started_at is six minutes ago
          result : Attempts \cup {"none"}]

TryStages == {"new", "token", "compensating", "started", "assessing",
              "finalizing", "failing", "over"}

PronunciationInit ==
  /\ round = << >>
  /\ counted = [t \in TextCalls |-> NoCount]
  /\ try = [a \in Attempts |-> "new"]
  /\ accidents = 0
  /\ cut = {}

-------------------------------------------------------------------------------
Completed == {i \in DOMAIN round : round[i].status = "completed"}

Open == Len(round)

HasOpen == round # << >> /\ Open \notin Completed

Holds(a) == /\ HasOpen
            /\ round[Open].status = "processing"
            /\ round[Open].active = a

Enters(a, stage) == try' = [try EXCEPT ![a] = stage]

Accident == /\ accidents < MaxAccidents
            /\ accidents' = accidents + 1

(* create_pronunciation_training_text takes no lock: the completed rounds   *)
(* are counted first,                                                       *)
CountRounds(t) ==
  /\ counted[t] = NoCount
  /\ counted' = [counted EXCEPT ![t] = Cardinality(Completed)]
  /\ UNCHANGED <<round, try, accidents, cut>>

(* and then, where there is no open round to give back, a new one is put in *)
(* if the count, old as it may be, leaves room for it.                      *)
InsertRound(t) ==
  /\ counted[t] # NoCount
  /\ round' = IF ~HasOpen /\ counted[t] < DailyRounds
              THEN Append(round, [status |-> "text_generated", active |-> "none",
                                  idle |-> FALSE, result |-> "none"])
              ELSE round
  /\ counted' = [counted EXCEPT ![t] = NoCount]
  /\ UNCHANGED <<try, accidents, cut>>

-------------------------------------------------------------------------------
(* reserve_pronunciation_training_assessment: the open round is given to    *)
(* the attempt, or taken from one that started six minutes ago.             *)
Consumed == Cardinality(Completed)
            + IF HasOpen /\ round[Open].status = "processing" THEN 1 ELSE 0

Given(a) == round' = [round EXCEPT ![Open] =
                        [@ EXCEPT !.status = "processing", !.active = a, !.idle = FALSE]]

\* Mutant of ReserveRound: the open round is given without counting again.
ReserveUncounted(a) ==
  /\ HasOpen
  /\ round[Open].status \in {"text_generated", "failed_retryable"}
  /\ Given(a)

ReserveRound(a) ==
  /\ HasOpen
  /\ round[Open].status \in {"text_generated", "failed_retryable"}
  /\ Consumed < DailyRounds
  /\ Given(a)

AtWorkFor(a) == try[a] \in {"started", "assessing", "finalizing"}

\* Mutant of Reclaim: any new attempt takes the round over.
ReclaimAtOnce(a) ==
  /\ HasOpen
  /\ round[Open].status = "processing"
  /\ Given(a)

Reclaim(a) ==
  /\ HasOpen
  /\ round[Open].status = "processing"
  /\ round[Open].idle
  /\ Given(a)

StartTraining(a) ==
  /\ try[a] = "new"
  /\ ReserveRound(a) \/ Reclaim(a)
  /\ Enters(a, "token")
  /\ UNCHANGED <<counted, accidents, cut>>

IssueToken(a) ==
  /\ try[a] = "token"
  /\ \/ Enters(a, "started") /\ UNCHANGED accidents
     \/ Enters(a, "compensating") /\ Accident
  /\ UNCHANGED <<round, counted, cut>>

(* compensate_pronunciation_training_assessment looks at no attempt id and  *)
(* leaves it in the row; the call itself may be lost.                       *)
Compensate(a) ==
  /\ try[a] = "compensating"
  /\ \/ /\ round' = IF HasOpen /\ round[Open].status = "processing"
                    THEN [round EXCEPT ![Open] = [@ EXCEPT !.status = "failed_retryable"]]
                    ELSE round
        /\ UNCHANGED accidents
     \/ Accident /\ UNCHANGED round
  /\ Enters(a, "over")
  /\ UNCHANGED <<counted, cut>>

-------------------------------------------------------------------------------
(* /assess: the reservation is read, Azure runs, the result is finalized.   *)
(* An older client runs Azure itself and posts the result to /complete.     *)
ReadSession(a) ==
  /\ try[a] = "started"
  /\ Enters(a, IF Holds(a) THEN "assessing" ELSE "over")
  /\ UNCHANGED <<round, counted, accidents, cut>>

AssessInBrowser(a) ==
  /\ try[a] = "started"
  /\ Enters(a, "finalizing")
  /\ UNCHANGED <<round, counted, accidents, cut>>

AssessPronunciation(a) ==
  /\ try[a] = "assessing"
  /\ \/ Enters(a, "finalizing") /\ UNCHANGED accidents
     \/ Enters(a, "failing") /\ Accident
  /\ UNCHANGED <<round, counted, cut>>

(* finalizeTrainingAssessment: a recording longer than the plan allows is   *)
(* turned down, else complete_pronunciation_training_assessment.            *)
Finalize(a) ==
  /\ try[a] = "finalizing"
  /\ \/ Enters(a, "failing") /\ Accident /\ UNCHANGED round
     \/ /\ Enters(a, "over")
        /\ UNCHANGED accidents
        /\ round' = IF Holds(a)
                    THEN [round EXCEPT ![Open] =
                            [@ EXCEPT !.status = "completed", !.result = a]]
                    ELSE round
  /\ UNCHANGED <<counted, cut>>

(* fail_pronunciation_training_assessment: only of the attempt's own        *)
(* processing round.                                                        *)
Freed(a) == IF Holds(a)
            THEN [round EXCEPT ![Open] =
                    [@ EXCEPT !.status = "failed_retryable", !.active = "none",
                              !.idle = FALSE]]
            ELSE round

ReleaseSlot(a) ==
  /\ try[a] = "failing"
  /\ \/ round' = Freed(a) /\ UNCHANGED accidents
     \/ Accident /\ UNCHANGED round
  /\ Enters(a, "over")
  /\ UNCHANGED <<counted, cut>>

-------------------------------------------------------------------------------
(* The page is left, or loses its connection, after /start has answered:    *)
(* /fail is sent, whatever the server is doing for the attempt.             *)
ClientLeaves(a) ==
  /\ AtWorkFor(a)
  /\ Accident
  /\ round' = Freed(a)
  /\ cut' = cut \cup {a}
  /\ IF try[a] = "started" THEN Enters(a, "over") ELSE UNCHANGED try
  /\ UNCHANGED counted

(* The page, with its answer or its upload, or the function is gone, and    *)
(* nobody tells.                                                            *)
Vanish(a) ==
  /\ try[a] \notin {"new", "over"}
  /\ Accident
  /\ Enters(a, "over")
  /\ UNCHANGED <<round, counted, cut>>

(* Six minutes since /start.  A call of /start ends before (the platform    *)
(* stops it after 300 s); an upload or an assessment that began late need   *)
(* not have ended.                                                          *)
SixMinutes ==
  /\ HasOpen
  /\ round[Open].status = "processing"
  /\ ~round[Open].idle
  /\ try[round[Open].active] \notin {"token", "compensating"}
  /\ round' = [round EXCEPT ![Open] = [@ EXCEPT !.idle = TRUE]]
  /\ UNCHANGED <<counted, try>>

Late == /\ SixMinutes
        /\ try[round[Open].active] # "over"
        /\ Accident
        /\ cut' = cut \cup {round[Open].active}

Abandoned == /\ SixMinutes
             /\ try[round[Open].active] = "over"
             /\ UNCHANGED <<accidents, cut>>

Serve(a) ==
  \/ IssueToken(a) \/ Compensate(a) \/ ReadSession(a) \/ AssessInBrowser(a)
  \/ AssessPronunciation(a) \/ Finalize(a) \/ ReleaseSlot(a)

PronunciationNext ==
  \/ \E t \in TextCalls : CountRounds(t) \/ InsertRound(t)
  \/ \E a \in Attempts : StartTraining(a) \/ Serve(a) \/ ClientLeaves(a) \/ Vanish(a)
  \/ Late
  \/ Abandoned

(* The learner without a round asks for a text and submits a recording      *)
(* again, the platform runs every call on, and time passes.                 *)
AskForText ==
  /\ ~HasOpen /\ Cardinality(Completed) < DailyRounds
  /\ \E t \in TextCalls : CountRounds(t)

BringText == \E t \in TextCalls : InsertRound(t)

Going == \/ \E a \in Attempts : StartTraining(a) \/ Serve(a)
         \/ Abandoned

PronunciationFairness == /\ WF_pronunciationVars(AskForText)
                         /\ WF_pronunciationVars(BringText)
                         /\ WF_pronunciationVars(Going)

PronunciationSafety ==
  PronunciationInit /\ [][PronunciationNext]_pronunciationVars

PronunciationSpec == PronunciationSafety /\ PronunciationFairness

-------------------------------------------------------------------------------
(* Types of the rounds and of the attempts.                                 *)
PronunciationTypeOK ==
  /\ round \in Seq(Round)
  /\ counted \in [TextCalls -> Nat \cup {NoCount}]
  /\ try \in [Attempts -> TryStages]
  /\ accidents \in 0..MaxAccidents
  /\ cut \in SUBSET Attempts

(* The day's books: whatever fails, is retried or comes late, no more       *)
(* rounds are assessed than the plan allows, for all that a call that       *)
(* counted before the last completion may add a text beyond them; at most   *)
(* the last round is open; and a completed one shows the result of the      *)
(* attempt that held it, never one of a run that finished after its round   *)
(* was reclaimed.                                                           *)
DayInOrder ==
  /\ Consumed <= DailyRounds
  /\ \A i \in DOMAIN round :
       /\ i # Open => i \in Completed
       /\ i \in Completed => round[i].result = round[i].active
                             /\ round[i].result # "none"

(* The server never assesses in vain: while it is at work for an attempt,   *)
(* the attempt holds the open round, unless its client left meanwhile       *)
(* (whose /fail frees the round) or a late upload was reclaimed.            *)
NeverAssessedInVain ==
  \A a \in Attempts : AtWorkFor(a) /\ a \notin cut => Holds(a)

RoundsDone == Cardinality(Completed) = DailyRounds

(* Nobody is locked out of the day: as long as fewer recordings meet an     *)
(* accident than are submitted, the day's rounds get done.                  *)
NotLockedOut ==
  Cardinality(Attempts) >= DailyRounds + MaxAccidents =>
    []<>RoundsDone
===============================================================================
