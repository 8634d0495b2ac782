----------------------------- MODULE MCActivities -----------------------------
(* The components that share no table with one another, side by side: the   *)
(* variable scene, chosen at the start, says which of them moves and with   *)
(* which cast.                                                              *)
EXTENDS SharedStories, BillingEvents, ListeningQueue, WritingRewrites,
        PronunciationDay, PlacementTest, DailyPush, TLC

CONSTANTS r1, r2, r3, u1, u2, d1, d2, w1, w2, c1, c2, t1, t2, a1, a2, a3, a4,
          m1, m2

ASSUME CastAssumption ==
  /\ {r1, r2, r3} \subseteq Requests
  /\ d1 \in Deliveries

VARIABLE scene

MCRequests == {r1, r2, r3}
MCUserOf == [r \in MCRequests |-> IF r = r3 THEN u2 ELSE u1]
MCDeliveries == {d1, d2}
MCDispatchers == {w1, w2}
MCCalls == {c1, c2}
MCTexts == {t1, t2}
MCAttempts == {a1, a2, a3, a4}
MCModalities == {m1, m2}

(* A test with two checkpoints below its gate.                              *)
MCLevelOf == <<1, 2, 3>>
MCMainCount == ("B1" :> 1) @@ ("B2" :> 2)
MCTieCount == ("B1" :> 0) @@ ("B2" :> 1)
LeadsTo(checkpoint) == [checkpoint |-> checkpoint, level |-> 0]
Gives(level) == [checkpoint |-> "nowhere", level |-> level]
MCOnPass == ("B1" :> LeadsTo("B2")) @@ ("B2" :> LeadsTo("GATE")) @@ ("GATE" :> Gives(3))
MCOnFail == ("B1" :> Gives(1)) @@ ("B2" :> Gives(1)) @@ ("GATE" :> Gives(2))

(* Two requests of one user, and of two; two deliveries of an event at      *)
(* once, and one beside the sync; the queue of a new episode, and one about *)
(* to make its questions, subtitles and audio; a placement test with        *)
(* another tab open, and one with an accident.                              *)
Scenes == {"one listener", "two listeners", "two deliveries", "a sync",
           "new episode", "audio", "rewrite", "training", "course", "two tabs",
           "placement", "reminders"}

Asking == CASE scene = "one listener"  -> {r1, r2}
            [] scene = "two listeners" -> {r1, r3}
            [] OTHER                   -> {}

Billing == scene \in {"two deliveries", "a sync"}

Queue == scene \in {"new episode", "audio"}

Placing == scene \in {"two tabs", "placement"}

-------------------------------------------------------------------------------
ActivitiesInit ==
  /\ scene \in Scenes
  /\ StoryInit
  /\ BillingInit
  /\ IF scene = "audio" THEN QueueFrom({"story"}, "questions")
                        ELSE QueueInit
  /\ RewriteInit
  /\ scene # "rewrite" => attempt = << >>
  /\ PronunciationInit
  /\ IF Placing THEN EnrolledInit ELSE CurriculumInit
  /\ PlacementInit
  /\ PushInit

InStories(A) == A /\ UNCHANGED <<scene, billingVars, queueVars, rewriteVars,
                                 pronunciationVars, bothVars, pushVars>>

InBilling(A) == A /\ UNCHANGED <<scene, storyVars, queueVars, rewriteVars,
                                 pronunciationVars, bothVars, pushVars>>

InQueue(A) == A /\ UNCHANGED <<scene, storyVars, billingVars, rewriteVars,
                               pronunciationVars, bothVars, pushVars>>

InRewrites(A) == A /\ UNCHANGED <<scene, storyVars, billingVars, queueVars,
                                  pronunciationVars, bothVars, pushVars>>

InTraining(A) == A /\ UNCHANGED <<scene, storyVars, billingVars, queueVars,
                                  rewriteVars, bothVars, pushVars>>

InLearning(A) == A /\ UNCHANGED <<scene, storyVars, billingVars, queueVars,
                                  rewriteVars, pronunciationVars, pushVars>>

InCourse(A) == InLearning(A) /\ UNCHANGED placementVars

InReminders(A) == A /\ UNCHANGED <<scene, storyVars, billingVars, queueVars,
                                   rewriteVars, pronunciationVars, bothVars>>

Deliver2(i) == \/ scene = "two deliveries" /\ Delivered(i, Deliveries)
               \/ scene = "a sync" /\ Delivered(i, {d1})

(* Those of a kind are alike, so only one naming of each case is looked at: *)
(* a mishap befalls the first dispatcher, the attempts are submitted in the *)
(* order of their names, the essay is the first text to be written, and the *)
(* first sweep is the first to start.                                       *)
SecondIsSpared ==
  mishaps' > mishaps => /\ dispatcher'[w2] = dispatcher[w2]
                        /\ \A j \in Jobs : job[j].owner = w2 => job'[j] = job[j]

InTurn == LET order == <<a1, a2, a3, a4>> IN
  \A i \in 2..4 : try[order[i - 1]] = "new" => try'[order[i]] = "new"

EssayFirst == \A s \in DOMAIN sitting' : sitting'[s].texts # {"notes"}

FirstGoesFirst ==
  invocation["sweep1"].at = "off" => invocation'["sweep2"].at = "off"

ActivitiesNext ==
  \/ \E r \in Asking : InStories(Step(r))
  \/ Asking # {} /\ InStories(\E x \in Users : Practising(x))
  \/ Asking # {} /\ InStories(Expiring)
  \/ Billing /\ InBilling(Store)
  \/ Billing /\ InBilling(\E d \in Deliveries : Hook(d))
  \/ InBilling(\E i \in DOMAIN event : Deliver2(i))
  \/ scene = "a sync" /\ InBilling(Sync)
  \/ Queue /\ InQueue(QueueNext) /\ SecondIsSpared /\ (scene = "new episode" => mishaps' = 0)
  \/ scene = "rewrite" /\ InRewrites(RewriteNext)
  \/ scene = "training" /\ InTraining(PronunciationNext) /\ InTurn
  \/ scene = "course" /\ InCourse(CurriculumNext)
  \/ Placing /\ InLearning(\E c \in Tabs : Serving(c)) /\ EssayFirst
  \/ Placing /\ InLearning(Continue(MainTab))
  \/ scene = "two tabs" /\ InLearning(\E c \in Tabs : c # MainTab /\ Interfere(c))
  \/ scene = "placement" /\ InLearning(PlacementMishap)
  \/ scene = "reminders" /\ InReminders(PushNext) /\ FirstGoesFirst

(* The fairness of the components, whose actors share out four parts.       *)
Part1 ==
  \/ r1 \in Asking /\ InStories(Handle(r1))
  \/ Billing /\ InBilling(Process(d1))
  \/ Queue /\ InQueue(Run(w1))
  \/ scene = "rewrite" /\ InRewrites(Evaluate(c1))
  \/ scene = "training" /\ InTraining(AskForText)
  \/ scene = "course" /\ InCourse(Resync)
  \/ Placing /\ InLearning(Serving(MainTab) \/ Continue(MainTab))

Part2 ==
  \/ InStories(\E r \in Asking \ {r1} : Handle(r))
  \/ Billing /\ InBilling(Process(d2))
  \/ Queue /\ InQueue(Run(w2))
  \/ scene = "rewrite" /\ InRewrites(Evaluate(c2))
  \/ scene = "training" /\ InTraining(BringText)

Part3 ==
  \/ Asking # {} /\ InStories(Expiring)
  \/ InBilling(Deliver2(1))
  \/ Queue /\ InQueue(\E j \in Jobs : Orphaned(j))
  \/ scene = "rewrite" /\ InRewrites(\E c \in Calls : Submitting(c))
  \/ scene = "training" /\ InTraining(Going)

Part4 ==
  \/ InBilling(Deliver2(2))
  \/ Queue /\ InQueue(Recovery)

activityVars == <<scene, storyVars, billingVars, queueVars, rewriteVars,
                  pronunciationVars, bothVars, pushVars>>

ActivitiesFairness ==
  /\ WF_activityVars(Part1) /\ WF_activityVars(Part2)
  /\ WF_activityVars(Part3) /\ WF_activityVars(Part4)

ActivitiesSpec ==
  ActivitiesInit /\ [][ActivitiesNext]_activityVars /\ ActivitiesFairness

-------------------------------------------------------------------------------
(* The type invariants of the components.                                   *)
ActivitiesTypeOK ==
  /\ scene \in Scenes
  /\ StoryTypeOK
  /\ BillingTypeOK
  /\ QueueTypeOK
  /\ RewriteTypeOK
  /\ PronunciationTypeOK
  /\ CurriculumTypeOK
  /\ PlacementTypeOK
  /\ PushTypeOK

(* AskersAreServed, EvaluationArrives, NotLockedOut, CreditsCount and       *)
(* LearnerIsPlaced, each in its scenes: whoever keeps asking for a story,   *)
(* submitting a rewrite, training, studying or taking the placement test    *)
(* gets through in the end, in spite of dead generations, expired leases,   *)
(* other calls and tabs, failed models, abandoned attempts and sittings.    *)
LearnersGetThrough ==
  []<>(/\ \A r \in Asking : Served(UserOf[r]) \/ Crowded(UserOf[r])
       /\ scene = "rewrite" => Evaluated \/ upsets > 0
       /\ scene = "training" => RoundsDone
       /\ scene = "course" => losses > 0 \/ CreditsCounted
       /\ Placing => Placed)

(* EveryEventSettles, RetriesSucceed and PipelineReachesSync: every event   *)
(* of the store is processed or ignored in the end, the lanes of the queue  *)
(* drain but for what a mishap lost, and without mishaps the episode        *)
(* reaches its synchronisation.                                             *)
BackgroundWorkSettles ==
  []<>(/\ AllSettled
       /\ Queue => Drained /\ (Synchronised \/ mishaps > 0))
===============================================================================
