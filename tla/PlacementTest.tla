----------------------------- MODULE PlacementTest -----------------------------
(* The placement test of one learner (api/_placement/placement-runtime.ts,  *)
(* src/domain/placement/placement-engine.ts): sittings of the test, the     *)
(* requests of the learner's tabs, which hold a copy of the sitting's row   *)
(* while they go on, and the result, applied to the curriculum.             *)
EXTENDS Curriculum

CONSTANTS
  Checkpoints,     \* the objective checkpoints of the test
  Gate,            \* its C2 gate
  StartCheckpoint, \* placement_tests.start_checkpoint_key
  MainCount,       \* main_question_count of each checkpoint
  TieCount,        \* its tiebreakers
  OnPass, OnFail,  \* where each checkpoint leads, a checkpoint or a level
  TopLevel,        \* the C2 of a passed evaluation
  TemporaryLevel,  \* the C1 of a failed one, and while there is none
  C2Steps,         \* the texts the gate asks for
  MainTab,         \* the tab in which the learner goes on with the test
  Tabs,
  MaxSittings,     \* bound
  MaxSetbacks,     \* bound: dead requests, expiries, failed models
  MaxIntrusions    \* bound: requests of the other tabs

Nowhere == "nowhere"

Routes == [checkpoint : Checkpoints \cup {Gate, Nowhere}, level : Nat]

PlacementAssumption ==
  /\ StartCheckpoint \in Checkpoints
  /\ Gate \notin Checkpoints
  /\ Nowhere \notin Checkpoints \cup {Gate}
  /\ MainCount \in [Checkpoints -> Nat \ {0}]
  /\ TieCount \in [Checkpoints -> Nat]
  /\ OnPass \in [Checkpoints \cup {Gate} -> Routes]
  /\ OnFail \in [Checkpoints \cup {Gate} -> Routes]
  /\ TopLevel \in Nat /\ TemporaryLevel \in Nat
  /\ MainTab \in Tabs /\ IsFiniteSet(Tabs)
  /\ MaxSittings \in Nat
  /\ MaxSetbacks \in Nat
  /\ MaxIntrusions \in Nat

ASSUME PlacementAssumption

VARIABLES
  sitting,  \* placement_attempts, with their answers and texts; history: the
            \* verdicts on the texts, and whether a walk has set the pointer
            \* back from the gate
  tab,      \* the request each tab has under way
  setbacks,
  intrusions

placementVars == <<sitting, tab, setbacks, intrusions>>

IdleTab == [at |-> "idle", kind |-> "none", sitting |-> 0, status |-> "none",
            checkpoint |-> Nowhere, seen |-> {}, level |-> 0]

PlacementInit == /\ sitting = << >>
                 /\ tab = [c \in Tabs |-> IdleTab]
                 /\ setbacks = 0 /\ intrusions = 0

Sittings == DOMAIN sitting

Those(statuses) == {s \in Sittings : sitting[s].status \in statuses}

OpenStatuses == {"in_progress", "pending_evaluation"}

TabAt(c, stage) == tab[c].at = stage

Move(c, stage) == tab' = [tab EXCEPT ![c].at = stage]

Close(c) == tab' = [tab EXCEPT ![c] = IdleTab]

(* The request goes on with the row as it has read it.                      *)
MoveWith(c, stage, s) ==
  tab' = [tab EXCEPT ![c] = [@ EXCEPT !.at = stage,
                                      !.sitting = s,
                                      !.status = sitting[s].status,
                                      !.checkpoint = sitting[s].checkpoint]]

(* getPlacementState, also where another request finds nothing to do.       *)
Restart(c, kind) ==
  tab' = [tab EXCEPT ![c] = [IdleTab EXCEPT !.at = "look", !.kind = kind]]

-------------------------------------------------------------------------------
(* decideCheckpoint: the main questions in order, then the tiebreakers if   *)
(* some main answers are right and some wrong; all mains right or the first *)
(* tiebreaker right passes.  An answer is <<checkpoint, number, right>>.    *)
Mains(cp) == 1 .. MainCount[cp]

Ties(cp) == MainCount[cp] + 1 .. MainCount[cp] + TieCount[cp]

AnsweredAt(cp, answers) == {a[2] : a \in {b \in answers : b[1] = cp}}

RightMains(cp, answers) == {n \in Mains(cp) : <<cp, n, TRUE>> \in answers}

Unasked(cp, answers) ==
  IF Mains(cp) \subseteq AnsweredAt(cp, answers)
  THEN IF RightMains(cp, answers) \in {{}, Mains(cp)}
       THEN {}
       ELSE Ties(cp) \ AnsweredAt(cp, answers)
  ELSE Mains(cp) \ AnsweredAt(cp, answers)

Asked(cp, answers) ==
  {n \in Unasked(cp, answers) : \A k \in Unasked(cp, answers) : n <= k}

Passes(cp, answers) ==
  \/ RightMains(cp, answers) = Mains(cp)
  \/ /\ RightMains(cp, answers) # {}
     /\ <<cp, MainCount[cp] + 1, TRUE>> \in answers

(* nextAfterCheckpoint.                                                     *)
Route(cp, answers) == IF Passes(cp, answers) THEN OnPass[cp] ELSE OnFail[cp]

-------------------------------------------------------------------------------
(* state, start and skip: whether the test is completed, then which sitting *)
(* is open, in two reads.                                                   *)
Ask(c, kind) ==
  /\ TabAt(c, "idle")
  /\ Restart(c, kind)
  /\ UNCHANGED <<sitting, setbacks>>

LookCompleted(c) ==
  /\ TabAt(c, "look")
  /\ IF Those({"completed"}) = {} THEN Move(c, "open") ELSE Close(c)
  /\ UNCHANGED <<sitting, setbacks>>

NoneOpen(c) ==
  /\ Those(OpenStatuses) = {}
  /\ IF tab[c].kind \in {"start", "skip"} /\ Len(sitting) < MaxSittings
     THEN Move(c, "insert")
     ELSE Close(c)

FindsOpen(c, s) ==
  LET kind == tab[c].kind
      expired == sitting[s].status = "in_progress" /\ sitting[s].expired IN
  CASE kind = "retry"                                      -> MoveWith(c, "advance", s)
    [] sitting[s].status = "pending_evaluation"            -> Close(c)
    [] kind = "skip"                                       -> MoveWith(c, "skip", s)
    [] kind \in {"state", "start"} /\ expired              -> MoveWith(c, "abandon", s)
    [] OTHER                                               -> MoveWith(c, "advance", s)

LookOpen(c) ==
  /\ TabAt(c, "open")
  /\ \/ NoneOpen(c)
     \/ \E s \in Those(OpenStatuses) : FindsOpen(c, s)
  /\ UNCHANGED <<sitting, setbacks>>

NewSitting(status) ==
  [status |-> status, expired |-> FALSE, answers |-> {}, texts |-> {},
   verdicts |-> {}, setBack |-> FALSE, raw |-> 0,
   checkpoint |-> IF status = "skipped" THEN Nowhere ELSE StartCheckpoint]

(* startPlacement and skipPlacement without an open sitting: a second open  *)
(* one is refused by uq_placement_one_open, and the first is looked up.     *)
InsertSitting(c) ==
  /\ TabAt(c, "insert")
  /\ \/ /\ tab[c].kind = "skip"
        /\ sitting' = Append(sitting, NewSitting("skipped"))
        /\ Close(c)
     \/ /\ tab[c].kind = "start" /\ Those(OpenStatuses) = {}
        /\ sitting' = Append(sitting, NewSitting("in_progress"))
        /\ tab' = [tab EXCEPT ![c] = [@ EXCEPT !.at = "advance",
                                               !.sitting = Len(sitting) + 1,
                                               !.status = "in_progress",
                                               !.checkpoint = StartCheckpoint]]
     \/ /\ tab[c].kind = "start" /\ Those(OpenStatuses) # {}
        /\ tab' = [tab EXCEPT ![c] = [@ EXCEPT !.at = "open", !.kind = "retry"]]
        /\ UNCHANGED sitting
  /\ UNCHANGED setbacks

(* Updates by id, whatever has become of the sitting since it was read.     *)
SkipSitting(c) ==
  /\ TabAt(c, "skip")
  /\ sitting' = [sitting EXCEPT ![tab[c].sitting].status = "skipped"]
  /\ Close(c)
  /\ UNCHANGED setbacks

MarkAbandoned(c) ==
  /\ TabAt(c, "abandon")
  /\ sitting' = [sitting EXCEPT ![tab[c].sitting].status = "abandoned"]
  /\ IF tab[c].kind = "start" /\ Len(sitting) < MaxSittings
     THEN Move(c, "insert")
     ELSE IF tab[c].kind = "answer" THEN Restart(c, "state") ELSE Close(c)
  /\ UNCHANGED setbacks

-------------------------------------------------------------------------------
(* submitAnswer: reads the row, then its answers, and records the answer of *)
(* the question it expects; a second answer of it changes nothing           *)
(* (uq_placement_answer_once).  A tab left open that shows another question *)
(* only has its sitting advanced; the main one shows the expected question. *)
ReadForAnswer(c, s) ==
  /\ TabAt(c, "idle")
  /\ IF sitting[s].status # "in_progress"
     THEN Restart(c, "state")
     ELSE tab' = [tab EXCEPT ![c] =
                    [IdleTab EXCEPT !.at = IF sitting[s].expired THEN "abandon" ELSE "answer",
                                    !.kind = "answer",
                                    !.sitting = s,
                                    !.status = "in_progress",
                                    !.checkpoint = sitting[s].checkpoint]]
  /\ UNCHANGED <<sitting, setbacks>>

CheckAnswer(c) ==
  LET row == sitting[tab[c].sitting]
      expects == tab[c].checkpoint # Gate /\ Asked(tab[c].checkpoint, row.answers) # {} IN
  /\ TabAt(c, "answer")
  /\ \/ /\ expects
        /\ tab' = [tab EXCEPT ![c] = [@ EXCEPT !.at = "record", !.seen = row.answers]]
     \/ /\ expects => c # MainTab
        /\ Move(c, "advance")
  /\ UNCHANGED <<sitting, setbacks>>

\* Mutant of RecordAnswer: an upsert in the place of the insert.
RecordAnswerAgain(c) ==
  /\ TabAt(c, "record")
  /\ \E n \in Asked(tab[c].checkpoint, tab[c].seen), right \in BOOLEAN :
       LET cp == tab[c].checkpoint
           s == tab[c].sitting
           others == {a \in sitting[s].answers : <<a[1], a[2]>> # <<cp, n>>}
       IN sitting' = [sitting EXCEPT ![s].answers = others \cup {<<cp, n, right>>}]
  /\ Move(c, "advance")
  /\ UNCHANGED setbacks

RecordAnswer(c) ==
  /\ TabAt(c, "record")
  /\ \E n \in Asked(tab[c].checkpoint, tab[c].seen), right \in BOOLEAN :
       LET cp == tab[c].checkpoint
           s == tab[c].sitting
       IN sitting' = IF n \in AnsweredAt(cp, sitting[s].answers)
                     THEN sitting
                     ELSE [sitting EXCEPT ![s].answers = @ \cup {<<cp, n, right>>}]
  /\ Move(c, "advance")
  /\ UNCHANGED setbacks

-------------------------------------------------------------------------------
(* advanceInProgress: reads the answers once and walks the tree with them,  *)
(* writing the pointer by id at every transition, whatever it says by then. *)
LoadAnswers(c) ==
  /\ TabAt(c, "advance")
  /\ tab' = [tab EXCEPT ![c] = [@ EXCEPT !.at = "walk",
                                         !.seen = sitting[tab[c].sitting].answers]]
  /\ UNCHANGED <<sitting, setbacks>>

Walk(c) ==
  LET cp == tab[c].checkpoint
      seen == tab[c].seen
      route == Route(cp, seen)
      row == sitting[tab[c].sitting] IN
  /\ TabAt(c, "walk") /\ cp # Gate
  /\ \/ /\ Asked(cp, seen) # {}
        /\ Close(c)
        /\ UNCHANGED sitting
     \/ /\ Asked(cp, seen) = {} /\ route.checkpoint = Nowhere
        /\ tab' = [tab EXCEPT ![c] = [@ EXCEPT !.at = "apply", !.level = route.level]]
        /\ UNCHANGED sitting
     \/ /\ Asked(cp, seen) = {} /\ route.checkpoint # Nowhere
        /\ sitting' = [sitting EXCEPT ![tab[c].sitting] =
                         [row EXCEPT !.checkpoint = route.checkpoint,
                                     !.setBack = \/ row.setBack
                                                 \/ /\ row.checkpoint = Gate
                                                    /\ route.checkpoint # Gate]]
        /\ tab' = [tab EXCEPT ![c].checkpoint = route.checkpoint]
  /\ UNCHANGED setbacks

(* An update to pending_evaluation is refused while another is open.        *)
Park(s) ==
  sitting' = IF Those(OpenStatuses) \subseteq {s}
             THEN [sitting EXCEPT ![s].status = "pending_evaluation"]
             ELSE sitting

(* c2GateScreen: shows the next text to write, or waits for the evaluation. *)
ShowGate(c) ==
  LET s == tab[c].sitting IN
  /\ TabAt(c, "walk") /\ tab[c].checkpoint = Gate
  /\ IF C2Steps \subseteq sitting[s].texts /\ tab[c].status # "pending_evaluation"
     THEN Park(s)
     ELSE UNCHANGED sitting
  /\ Close(c)
  /\ UNCHANGED setbacks

-------------------------------------------------------------------------------
(* submitC2Response: stores the text, then looks whether both are there; a  *)
(* sitting whose row does not stand at the gate is only advanced.           *)
ReadForText(c, s) ==
  /\ TabAt(c, "idle")
  /\ IF sitting[s].status \in OpenStatuses
     THEN MoveWith(c, IF sitting[s].checkpoint = Gate THEN "text" ELSE "advance", s)
     ELSE Restart(c, "state")
  /\ UNCHANGED <<sitting, setbacks>>

StoreText(c) ==
  /\ TabAt(c, "text")
  /\ \E step \in C2Steps :
       /\ sitting[tab[c].sitting].texts # C2Steps => step \notin sitting[tab[c].sitting].texts
       /\ sitting' = [sitting EXCEPT ![tab[c].sitting].texts = @ \cup {step}]
  /\ Move(c, "texts")
  /\ UNCHANGED setbacks

LookAtTexts(c) ==
  /\ TabAt(c, "texts")
  /\ IF sitting[tab[c].sitting].texts = C2Steps
     THEN Move(c, "evaluate")
     ELSE Move(c, "advance")
  /\ UNCHANGED <<sitting, setbacks>>

(* evaluatePendingC2: whatever checkpoint the row stands at.                *)
AskEvaluation(c) ==
  /\ TabAt(c, "idle")
  /\ \/ \E s \in Those({"pending_evaluation"}) : MoveWith(c, "evaluate", s)
     \/ Those({"pending_evaluation"}) = {} /\ Restart(c, "state")
  /\ UNCHANGED <<sitting, setbacks>>

(* The level of a verdict on the texts: the one the checkpoint leads to,    *)
(* else c2Decision's own.                                                   *)
VerdictLevel(cp, pass) ==
  LET route == IF pass THEN OnPass[cp] ELSE OnFail[cp] IN
  IF route.checkpoint = Nowhere THEN route.level
                                ELSE IF pass THEN TopLevel ELSE TemporaryLevel

(* runC2Evaluation: the model's verdict is routed through the checkpoint of *)
(* the row as it was read; or the model fails, and the learner is given a   *)
(* temporary level and the evaluation left pending.                         *)
EvaluateTexts(c) ==
  /\ TabAt(c, "evaluate")
  /\ \/ \E pass \in BOOLEAN :
          /\ sitting' = [sitting EXCEPT ![tab[c].sitting].verdicts = @ \cup {pass}]
          /\ tab' = [tab EXCEPT ![c] = [@ EXCEPT !.at = "apply",
                                !.level = VerdictLevel(tab[c].checkpoint, pass)]]
          /\ UNCHANGED setbacks
     \/ /\ setbacks < MaxSetbacks
        /\ setbacks' = setbacks + 1
        /\ tab' = [tab EXCEPT ![c] = [@ EXCEPT !.at = "lend", !.level = TemporaryLevel]]
        /\ UNCHANGED sitting

LeavePending(c) ==
  /\ TabAt(c, "leave")
  /\ IF tab[c].status # "pending_evaluation" THEN Park(tab[c].sitting)
                                             ELSE UNCHANGED sitting
  /\ Close(c)
  /\ UNCHANGED setbacks

-------------------------------------------------------------------------------
(* completeWithLevel.  placement_apply_result_v1 passes every recorte below *)
(* the level, and takes none back; only then is the sitting completed, once *)
(* per test (uq_placement_one_completed).                                   *)
Below(level) == {r \in Recortes : LevelOf[r] < level}

ApplyResult(c) ==
  /\ tab[c].at \in {"apply", "lend"}
  /\ Recompute(Below(tab[c].level))
  /\ Move(c, IF TabAt(c, "apply") THEN "complete" ELSE "leave")
  /\ UNCHANGED <<sitting, setbacks, intrusions, credit, menu, entering,
                 underway, drafts, resyncs, losses>>

CompleteSitting(c) ==
  LET s == tab[c].sitting IN
  /\ TabAt(c, "complete")
  /\ sitting' = IF Those({"completed"}) \subseteq {s}
                THEN [sitting EXCEPT ![s] = [@ EXCEPT !.status = "completed",
                                                      !.raw = tab[c].level]]
                ELSE sitting
  /\ Close(c)
  /\ UNCHANGED setbacks

-------------------------------------------------------------------------------
(* Time, the sweep of what has expired, and requests that die.              *)
ExpireSitting(s) ==
  /\ sitting[s].status = "in_progress" /\ ~sitting[s].expired
  /\ setbacks < MaxSetbacks
  /\ setbacks' = setbacks + 1
  /\ sitting' = [sitting EXCEPT ![s].expired = TRUE]
  /\ UNCHANGED tab

SweepSitting(s) ==
  /\ sitting[s].status = "in_progress" /\ sitting[s].expired
  /\ sitting' = [sitting EXCEPT ![s].status = "abandoned"]
  /\ UNCHANGED <<tab, setbacks>>

TabDies(c) ==
  /\ ~TabAt(c, "idle") /\ setbacks < MaxSetbacks
  /\ setbacks' = setbacks + 1
  /\ Close(c)
  /\ UNCHANGED sitting

-------------------------------------------------------------------------------
(* A request goes on.                                                       *)
Serving(c) ==
  \/ ApplyResult(c)
  \/ /\ \/ LookCompleted(c) \/ LookOpen(c) \/ InsertSitting(c) \/ SkipSitting(c)
        \/ MarkAbandoned(c) \/ CheckAnswer(c) \/ RecordAnswer(c) \/ LoadAnswers(c)
        \/ Walk(c) \/ ShowGate(c) \/ StoreText(c) \/ LookAtTexts(c)
        \/ EvaluateTexts(c) \/ LeavePending(c) \/ CompleteSitting(c)
     /\ UNCHANGED <<curriculumVars, intrusions>>

(* The learner goes on with the test where it stands; buildCtx has ensured  *)
(* the progress row.                                                        *)
Continue(c) ==
  /\ Enrolled
  /\ \/ /\ Those({"completed"} \cup OpenStatuses) = {} /\ Len(sitting) < MaxSittings
        /\ Ask(c, "start")
     \/ \E s \in Those({"in_progress"}) :
          CASE sitting[s].checkpoint # Gate -> ReadForAnswer(c, s)
            [] sitting[s].texts # C2Steps   -> ReadForText(c, s)
            [] OTHER                        -> Ask(c, "state")
     \/ Those({"pending_evaluation"}) # {} /\ AskEvaluation(c)
  /\ UNCHANGED <<curriculumVars, intrusions>>

(* Another tab, or device, asks for anything at any time.                   *)
Interfere(c) ==
  /\ Enrolled /\ intrusions < MaxIntrusions
  /\ intrusions' = intrusions + 1
  /\ \/ \E kind \in {"state", "start", "skip"} : Ask(c, kind)
     \/ \E s \in Sittings : ReadForAnswer(c, s) \/ ReadForText(c, s)
     \/ AskEvaluation(c)
  /\ UNCHANGED curriculumVars

PlacementMishap ==
  /\ \/ \E s \in Sittings : ExpireSitting(s) \/ SweepSitting(s)
     \/ \E c \in Tabs : TabDies(c)
  /\ UNCHANGED <<curriculumVars, intrusions>>

PlacementNext ==
  \/ \E c \in Tabs : Serving(c)
  \/ Continue(MainTab)
  \/ \E c \in Tabs \ {MainTab} : Interfere(c)
  \/ PlacementMishap
  \/ CurriculumNext /\ UNCHANGED placementVars

bothVars == <<curriculumVars, placementVars>>

(* The test is open to a learner new to the course or enrolled in it.       *)
PlacementSafety ==
  (CurriculumInit \/ EnrolledInit) /\ PlacementInit /\ [][PlacementNext]_bothVars

(* The requests of the main tab are served, and its learner goes on.        *)
PlacementFairness == WF_bothVars(Serving(MainTab) \/ Continue(MainTab))

PlacementSpec == PlacementSafety /\ PlacementFairness

-------------------------------------------------------------------------------
TabStages == {"idle", "look", "open", "insert", "skip", "abandon", "answer",
              "record", "advance", "walk", "text", "texts", "evaluate", "apply",
              "lend", "leave", "complete"}

SittingStatuses == {"in_progress", "pending_evaluation", "completed", "skipped",
                    "abandoned"}

Answers == {<<cp, n, right>> : cp \in Checkpoints, n \in Nat \ {0}, right \in BOOLEAN}

(* Types of the sittings and of the requests.                               *)
PlacementTypeOK ==
  /\ Len(sitting) < MaxSittings + Cardinality(Tabs)
  /\ \A s \in Sittings :
       /\ sitting[s].status \in SittingStatuses
       /\ sitting[s].checkpoint \in Checkpoints \cup {Gate, Nowhere}
       /\ sitting[s].texts \subseteq C2Steps
  /\ \A c \in Tabs : /\ tab[c].at \in TabStages
                     /\ tab[c].sitting \in 0..Len(sitting)
  /\ setbacks \in 0..MaxSetbacks
  /\ intrusions \in 0..MaxIntrusions

(* The checkpoints a sitting has come to, by its answers: a route leaves    *)
(* every set that holds the start and not them.                             *)
Reached(answers) ==
  {cp \in Checkpoints \cup {Gate} :
     \A S \in SUBSET (Checkpoints \cup {Gate}) :
       StartCheckpoint \in S /\ cp \notin S
       => \E p \in S \ {Gate} :
            /\ Asked(p, answers) = {}
            /\ Route(p, answers).checkpoint \notin S \cup {Nowhere}}

DueByAnswers(s) ==
  \E cp \in Checkpoints :
    /\ Asked(cp, sitting[s].answers) = {}
    /\ Route(cp, sitting[s].answers) = [checkpoint |-> Nowhere, level |-> sitting[s].raw]
    /\ cp \in Reached(sitting[s].answers)

(* The gate leads where the texts' verdict says, unless a late walk has set *)
(* the pointer back from it.                                                *)
DueByTexts(s) ==
  /\ sitting[s].texts = C2Steps
  /\ Gate \in Reached(sitting[s].answers)
  /\ \E cp \in (IF sitting[s].setBack THEN Reached(sitting[s].answers) ELSE {Gate}),
        pass \in sitting[s].verdicts :
       sitting[s].raw = VerdictLevel(cp, pass)

(* A result is what the answers on record call for, or at the gate a        *)
(* verdict on the texts on record, whichever tabs answered, overlapped,     *)
(* walked with answers read before or came after the end; there is one      *)
(* completed sitting at most; and the official level is never below a       *)
(* result.                                                                  *)
PlacedByAnswers ==
  /\ Cardinality(Those({"completed"})) <= 1
  /\ \A s \in Sittings :
       /\ sitting[s].status = "completed" => sitting[s].raw # 0
       /\ sitting[s].raw # 0 => /\ DueByAnswers(s) \/ DueByTexts(s)
                                /\ place.level >= sitting[s].raw

Placed == Those({"completed"}) # {}

(* Whoever goes on with the test is placed in the end, in spite of another  *)
(* tab that may skip the test, expired sittings, dead requests and a model  *)
(* that fails.                                                              *)
LearnerIsPlaced == MaxSittings > MaxSetbacks + MaxIntrusions => []<>Placed
===============================================================================
