---------------------------- MODULE ActivitiesProofs ----------------------------
(* The composition of the components that share no table: every step of it  *)
(* is, for each component, a step of that component or none, and so what is *)
(* proved of each of them holds of all together, whichever is on scene.     *)
EXTENDS MCActivities, BackgroundProofs, LearnerProofs, CourseProofs

-------------------------------------------------------------------------------
(* The listeners on scene are requests.                                     *)
LEMMA AskersAreRequests == Asking \subseteq Requests
<1>1. {r1, r2} \subseteq Requests /\ {r1, r3} \subseteq Requests
  BY CastAssumption
<1>2. CASE scene = "one listener"
  BY <1>1, <1>2 DEF Asking
<1>3. CASE scene = "two listeners"
  BY <1>1, <1>3 DEF Asking
<1>4. CASE scene \notin {"one listener", "two listeners"}
  BY <1>4 DEF Asking
<1> QED
  BY <1>2, <1>3, <1>4

(* Everything but one component is at rest: what a step of that component   *)
(* is for all of them.                                                      *)
AllStep ==
  /\ [StoryNext]_storyVars
  /\ [BillingNext]_billingVars
  /\ [QueueNext]_queueVars
  /\ [RewriteNext]_rewriteVars
  /\ [PronunciationNext]_pronunciationVars
  /\ [PlacementNext]_bothVars
  /\ [PushNext]_pushVars
  /\ UNCHANGED scene

(* Steps of the shared stories.                                             *)
LEMMA StoriesOnScene ==
  ASSUME \/ \E r \in Asking : InStories(Step(r))
         \/ InStories(\E x \in Users : Practising(x))
         \/ InStories(Expiring)
  PROVE  AllStep
<1>1. /\ UNCHANGED scene /\ UNCHANGED billingVars /\ UNCHANGED queueVars
      /\ UNCHANGED rewriteVars /\ UNCHANGED pronunciationVars /\ UNCHANGED bothVars
      /\ UNCHANGED pushVars
  BY DEF InStories
<1>2. StoryNext
  BY AskersAreRequests DEF InStories, StoryNext
<1> QED
  BY <1>1, <1>2 DEF AllStep

(* Steps of the store, of the webhook and of the sync.                      *)
LEMMA BillingOnScene ==
  ASSUME \/ InBilling(Store)
         \/ InBilling(\E d \in Deliveries : Hook(d))
         \/ InBilling(\E i \in DOMAIN event : Deliver2(i))
         \/ InBilling(Sync)
  PROVE  AllStep
<1>1. /\ UNCHANGED scene /\ UNCHANGED storyVars /\ UNCHANGED queueVars
      /\ UNCHANGED rewriteVars /\ UNCHANGED pronunciationVars /\ UNCHANGED bothVars
      /\ UNCHANGED pushVars
  BY DEF InBilling
<1>2. ASSUME NEW i \in DOMAIN event, Deliver2(i) PROVE Delivered(i, Deliveries)
  BY <1>2, CastAssumption DEF Deliver2, Delivered
<1>3. BillingNext
  BY <1>2 DEF InBilling, BillingNext
<1> QED
  BY <1>1, <1>3 DEF AllStep

(* Steps of the queue, of the rewrites, of the training and of the sweep.   *)
LEMMA OthersOnScene ==
  ASSUME \/ InQueue(QueueNext)
         \/ InRewrites(RewriteNext)
         \/ InTraining(PronunciationNext)
         \/ InReminders(PushNext)
  PROVE  AllStep
<1>1. CASE InQueue(QueueNext)
  BY <1>1 DEF InQueue, AllStep
<1>2. CASE InRewrites(RewriteNext)
  BY <1>2 DEF InRewrites, AllStep
<1>3. CASE InTraining(PronunciationNext)
  BY <1>3 DEF InTraining, AllStep
<1>4. CASE InReminders(PushNext)
  BY <1>4 DEF InReminders, AllStep
<1> QED
  BY <1>1, <1>2, <1>3, <1>4

(* Steps of the course and of the placement test.                           *)
LEMMA LearningOnScene ==
  ASSUME \/ InCourse(CurriculumNext)
         \/ InLearning(\E c \in Tabs : Serving(c))
         \/ InLearning(Continue(MainTab))
         \/ InLearning(\E c \in Tabs : c # MainTab /\ Interfere(c))
         \/ InLearning(PlacementMishap)
  PROVE  AllStep
<1>1. /\ UNCHANGED scene /\ UNCHANGED storyVars /\ UNCHANGED billingVars
      /\ UNCHANGED queueVars /\ UNCHANGED rewriteVars /\ UNCHANGED pronunciationVars
      /\ UNCHANGED pushVars
  BY DEF InLearning, InCourse
<1>2. PlacementNext
  BY DEF InLearning, InCourse, PlacementNext
<1> QED
  BY <1>1, <1>2 DEF AllStep

(* Every step of the composition is a step of each component, or none.      *)
LEMMA EveryStepOnScene == [ActivitiesNext]_activityVars => AllStep
<1> SUFFICES ASSUME [ActivitiesNext]_activityVars PROVE AllStep
  OBVIOUS
<1>1. CASE UNCHANGED activityVars
  BY <1>1 DEF activityVars, AllStep
<1>2. CASE ActivitiesNext
  BY <1>2, StoriesOnScene, BillingOnScene, OthersOnScene, LearningOnScene
  DEF ActivitiesNext
<1> QED
  BY <1>1, <1>2

-------------------------------------------------------------------------------
(* The queue on scene is that of a new episode, or of one whose story is    *)
(* made and which is about to make its questions.                           *)
LEMMA QueueOnScene ==
  ActivitiesInit => QueueInv /\ Underway /\ Board!BoardInit
<1> DEFINE made == {"story"}
<1>1. /\ made \in SUBSET Jobs /\ {"story", "questions"} \subseteq Jobs
      /\ made \cap {"questions", "performance"} = {}
      /\ \A j \in made \cup {"questions"} : Inputs(j) \subseteq made
      /\ Inputs("story") = {}
  BY DEF Inputs, Jobs, TextSteps, AudioSteps, SyncSteps
<1>2. CASE QueueFrom(made, "questions")
  BY <1>1, <1>2, QueueFromInv, NobodyUnderway, EpisodeOnBoard, QueueAssumption
<1>3. CASE QueueInit
  <2>1. /\ {} \in SUBSET Jobs /\ {} \cap {"story", "performance"} = {}
        /\ \A j \in {} \cup {"story"} : Inputs(j) \subseteq {}
        /\ QueueFrom({}, "story")
    BY <1>1, <1>3 DEF QueueInit
  <2> QED
    BY <1>1, <2>1, QueueFromInv, NobodyUnderway, EpisodeOnBoard, QueueAssumption
<1> QED
  BY <1>2, <1>3 DEF ActivitiesInit

(* A behaviour of the composition is one of each component.                 *)
LEMMA EveryComponentRuns ==
  ActivitiesSpec => /\ StorySafety
                    /\ BillingSafety
                    /\ RewriteSafety
                    /\ PronunciationSafety
                    /\ PlacementSafety
                    /\ PushSpec
<1>1. ActivitiesInit => /\ StoryInit /\ BillingInit /\ RewriteInit
                        /\ PronunciationInit /\ PlacementInit /\ PushInit
                        /\ CurriculumInit \/ EnrolledInit
  BY DEF ActivitiesInit
<1>2. [ActivitiesNext]_activityVars =>
        /\ [StoryNext]_storyVars /\ [BillingNext]_billingVars
        /\ [RewriteNext]_rewriteVars /\ [PronunciationNext]_pronunciationVars
        /\ [PlacementNext]_bothVars /\ [PushNext]_pushVars
  BY EveryStepOnScene DEF AllStep
<1> QED
  BY <1>1, <1>2, PTL DEF ActivitiesSpec, StorySafety, BillingSafety, RewriteSafety,
       PronunciationSafety, PlacementSafety, PushSpec

(* The queue keeps the invariant of its board, and moves by its own steps.  *)
LEMMA EpisodesRun ==
  ActivitiesSpec => []BoardInv /\ [][QueueNext]_queueVars
<1>1. ActivitiesInit => BoardInv
  BY QueueOnScene DEF BoardInv
<1>2. [ActivitiesNext]_activityVars => [QueueNext]_queueVars
  BY EveryStepOnScene DEF AllStep
<1>3. BoardInv /\ [QueueNext]_queueVars => BoardInv'
  <2> SUFFICES ASSUME BoardInv, [QueueNext]_queueVars PROVE BoardInv'
    OBVIOUS
  <2>1. QueueInv'
    BY QueueStepInv, QueueAssumption DEF BoardInv
  <2>2. CASE UNCHANGED queueVars
    BY <2>1, <2>2 DEF BoardInv, Underway, queueVars
  <2>3. CASE QueueNext
    BY <2>1, <2>3, UnderwayStep, QueueAssumption DEF BoardInv
  <2> QED
    BY <2>2, <2>3
<1> QED
  BY <1>1, <1>2, <1>3, PTL DEF ActivitiesSpec

-------------------------------------------------------------------------------
(* The tables of all components, and all who work on them, keep their types *)
(* whichever component is on scene, for every value of the constants.       *)
THEOREM ActivitiesTypeCorrect ==
  InitialLevel = 0 /\ ResultsAreLevels => (ActivitiesSpec => []ActivitiesTypeOK)
<1> SUFFICES ASSUME InitialLevel = 0, ResultsAreLevels
             PROVE  ActivitiesSpec => []ActivitiesTypeOK
  OBVIOUS
<1>1. ActivitiesSpec => [](scene \in Scenes)
  <2>1. ActivitiesInit => scene \in Scenes
    BY DEF ActivitiesInit
  <2>2. scene \in Scenes /\ [ActivitiesNext]_activityVars => (scene \in Scenes)'
    BY EveryStepOnScene DEF AllStep
  <2> QED
    BY <2>1, <2>2, PTL DEF ActivitiesSpec
<1>2. PronunciationInv => PronunciationTypeOK
  BY DEF PronunciationInv
<1>3. RewriteInv => RewriteTypeOK
  BY DEF RewriteInv
<1>4. BoardInv => QueueTypeOK
  BY DEF BoardInv, QueueInv
<1>5. PlacementSafety => []PlacementTypeOK
  BY PlacementTypes
<1>6. /\ scene \in Scenes /\ StoryTypeOK /\ BillingTypeOK /\ QueueTypeOK
      /\ RewriteTypeOK /\ PronunciationTypeOK /\ CurriculumTypeOK
      /\ PlacementTypeOK /\ PushTypeOK
      => ActivitiesTypeOK
  BY DEF ActivitiesTypeOK
<1> QED
  BY <1>1, <1>2, <1>3, <1>4, <1>5, <1>6, EveryComponentRuns, EpisodesRun,
     StoryTypeCorrect, BillingTypeCorrect, RewriteInvAlways, PronunciationInvAlways,
     CurriculumTypes, PushTypes, PTL

(* What the components promise of the learner's data, the composition       *)
(* promises too: nothing of it depends on which component moves.            *)
THEOREM ActivitiesKeepPromises ==
  ActivitiesSpec =>
    /\ [](LibraryBounded /\ AudioReadsItsText)
    /\ [](ProcessedIsApplied /\ StepsInOrder)
    /\ [](AnalysisIsBoughtOnce /\ CompletedIsStored)
    /\ [](DayInOrder /\ NeverAssessedInVain)
    /\ []RemindersAreDue
    /\ PracticeIsKept /\ SyncRepairs /\ ScheduledChangeIsKept /\ LevelNeverDrops
<1>1. BoardInv => StepsInOrder
  BY DEF BoardInv, QueueInv
<1> QED
  BY <1>1, EveryComponentRuns, EpisodesRun, StoryLibraryBounded, StoryAudioReadsItsText,
     BillingProcessedIsApplied, RewriteBoughtOnce, RewriteCompletedIsStored,
     PronunciationDayInOrder, PronunciationNotInVain, OnlyDueReminders,
     StoryPracticeIsKept, BillingSyncRepairs, BillingKeepsScheduledChange,
     LevelIsKept, PTL

(* Beside everything else, and also when it starts at its subtitles, the    *)
(* queue implements the board of steps.                                     *)
THEOREM ActivitiesImplementBoard == ActivitiesSpec => ImplementsBoard
<1>1. ActivitiesInit => Board!BoardInit
  BY QueueOnScene
<1>2. BoardInv /\ [QueueNext]_queueVars => [Board!BoardNext]_(Board!boardVars)
  BY BoardStep, QueueAssumption
<1> QED
  BY <1>1, <1>2, EpisodesRun, PTL DEF ActivitiesSpec, ImplementsBoard, Board!BoardSpec

(* Beside everything else, whoever is placed is placed by the answers.      *)
THEOREM ActivitiesPlaceByAnswers ==
  InitialLevel = 0 /\ ResultsAreLevels => (ActivitiesSpec => []PlacedByAnswers)
BY EveryComponentRuns, PlacedAsAnswered, PTL
===============================================================================
