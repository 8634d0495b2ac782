------------------------------ MODULE CourseProofs ------------------------------
(* What holds of a learner's way through the course, for any curriculum,    *)
(* menu, placement test, page size and number of tabs, requests and         *)
(* invocations: the pointer and the official level never go back, and the   *)
(* day's reminders are due.                                                 *)
EXTENDS PlacementTest, DailyPush, FiniteSetTheorems, SequenceTheorems,
        WellFoundedInduction, TLAPS

-------------------------------------------------------------------------------
(* The course.  In a course without an initial level everything before the  *)
(* pointer is passed, for what is passed stays passed; the level is that of *)
(* the pointer.                                                             *)
PointerIsFirstOpen ==
  Enrolled /\ InitialLevel = 0 =>
    /\ \A r \in Recortes : r < place.at => r \in passed
    /\ place.at \in Recortes => place.level = LevelOf[place.at]

CourseInv ==
  /\ CurriculumTypeOK
  /\ Enrolled => place.at # 0
  /\ ~Enrolled => underway = {} /\ drafts = {} /\ resyncs = 0
  /\ PointerIsFirstOpen

(* The recortes are numbered from 1, and their levels are ordered.          *)
LEMMA RecortesTyped ==
  ASSUME CurriculumAssumption
  PROVE  /\ Len(LevelOf) \in Nat \ {0}
         /\ Recortes = 1..Len(LevelOf)
         /\ \A r \in Recortes : LevelOf[r] \in Nat \ {0}
         /\ \A r \in Recortes : \A s \in Recortes : r <= s => LevelOf[r] <= LevelOf[s]
BY DEF CurriculumAssumption, Recortes

(* A place given to a recorte is well typed and is not the missing one.     *)
LEMMA PlaceAtTyped ==
  ASSUME CurriculumAssumption, NEW r \in Recortes
  PROVE  /\ PlaceAt(r) \in [at : 0..Beyond, level : Nat]
         /\ PlaceAt(r).at = r /\ PlaceAt(r).level = LevelOf[r]
         /\ PlaceAt(r) # NoPlace
BY RecortesTyped DEF PlaceAt, Beyond, NoPlace

(* Recompute (resync_curriculum_progress, and the placement result) keeps   *)
(* the invariant, and moves pointer and level only forward.                 *)
LEMMA RecomputeForward ==
  ASSUME CurriculumAssumption, CourseInv, Enrolled,
         NEW granted \in SUBSET Recortes, Recompute(granted)
  PROVE  /\ passed' \subseteq Recortes
         /\ place' \in [at : 0..Beyond, level : Nat]
         /\ place'.at # 0
         /\ PointerIsFirstOpen'
         /\ InitialLevel = 0 => place'.at >= place.at /\ place'.level >= place.level
<1>1. place \in [at : 0..Beyond, level : Nat] /\ passed \subseteq Recortes
  BY DEF CourseInv, CurriculumTypeOK
<1>2. passed \subseteq passed' /\ passed' \subseteq Recortes
  BY <1>1 DEF Recompute, Earned
<1>3. CASE \E r \in Recortes : FirstOpen(r) /\ place' = PlaceAt(r)
  <2>1. PICK r \in Recortes : FirstOpen(r) /\ place' = PlaceAt(r)
    BY <1>3
  <2>2. /\ place'.at = r /\ place'.level = LevelOf[r]
        /\ place' \in [at : 0..Beyond, level : Nat]
    BY <2>1, PlaceAtTyped
  <2>3. r \notin passed' /\ \A s \in Recortes : s < r => s \in passed'
    BY <2>1 DEF FirstOpen
  <2>4. PointerIsFirstOpen'
    BY <2>2, <2>3 DEF PointerIsFirstOpen, Recortes
  <2>5. ASSUME InitialLevel = 0
        PROVE  place'.at >= place.at /\ place'.level >= place.level
    <3>1. \A s \in Recortes : s < place.at => s \in passed
      BY <2>5 DEF CourseInv, PointerIsFirstOpen
    <3>2. ~(r < place.at)
      BY <3>1, <2>3, <1>2
    <3>3. r >= place.at /\ place.at \in Recortes
      BY <3>2, <1>1, RecortesTyped DEF Beyond, CourseInv
    <3>4. place.level = LevelOf[place.at]
      BY <2>5, <3>3 DEF CourseInv, PointerIsFirstOpen
    <3> QED
      BY <3>3, <3>4, <2>2, RecortesTyped
  <2> QED
    BY <1>2, <2>2, <2>4, <2>5, RecortesTyped
<1>4. CASE Recortes \subseteq passed' /\ place' = [place EXCEPT !.at = Beyond]
  <2>1. place'.at = Beyond /\ place'.level = place.level
    BY <1>1, <1>4
  <2>2. place' \in [at : 0..Beyond, level : Nat] /\ Beyond \notin Recortes /\ Beyond # 0
    BY <1>1, <1>4, RecortesTyped DEF Beyond
  <2>3. PointerIsFirstOpen'
    BY <1>4, <2>1, <2>2 DEF PointerIsFirstOpen, Recortes
  <2>4. place'.at >= place.at /\ place'.level >= place.level
    BY <1>1, <2>1, RecortesTyped DEF Beyond
  <2> QED
    BY <1>2, <2>1, <2>2, <2>3, <2>4
<1> QED
  BY <1>3, <1>4 DEF Recompute, Repoint

(* The actions of the curriculum that recompute nothing leave pointer,      *)
(* level and what is passed alone, or insert the first place.               *)
LEMMA StudyingKeepsCourse ==
  ASSUME CurriculumAssumption, CourseInv,
         Enrolling \/ Studying \/ ChoosingMenu \/ LoseResync
  PROVE  /\ CourseInv'
         /\ Enrolled => place' = place
<1> USE DEF CourseInv
<1>1. CASE FindsNoPlace
  BY <1>1 DEF FindsNoPlace, CurriculumTypeOK, PointerIsFirstOpen, Enrolled,
              CurriculumAssumption
<1>2. CASE InsertPlace
  <2>1. CurriculumTypeOK'
    BY <1>2, PlaceAtTyped DEF InsertPlace, CurriculumTypeOK, CurriculumAssumption
  <2>2. CASE Enrolled
    BY <1>2, <2>1, <2>2 DEF InsertPlace, PointerIsFirstOpen, Enrolled
  <2>3. CASE ~Enrolled
    <3>1. PICK r \in Recortes : IsInitial(r) /\ place' = PlaceAt(r)
      BY <1>2, <2>3 DEF InsertPlace
    <3>2. place'.at = r /\ place'.level = LevelOf[r] /\ r # 0
      BY <3>1, PlaceAtTyped, RecortesTyped
    <3>3. InitialLevel = 0 => r = 1
      BY <3>1, RecortesTyped DEF IsInitial
    <3>4. PointerIsFirstOpen'
      BY <3>2, <3>3, RecortesTyped DEF PointerIsFirstOpen, Recortes
    <3> QED
      BY <2>1, <2>3, <3>2, <3>4 DEF Enrolled, NoPlace
  <2> QED
    BY <2>2, <2>3
<1>3. ASSUME NEW m \in Modalities, CreateActivity(m)
      PROVE  CourseInv' /\ place' = place
  <2>1. Target \in Recortes
    BY <1>3, RecortesTyped DEF CreateActivity, Target, Beyond, CurriculumTypeOK
  <2> QED
    BY <1>3, <2>1 DEF CreateActivity, CurriculumTypeOK, PointerIsFirstOpen, Enrolled
<1>4. ASSUME NEW a \in underway, RecordPractice(a)
      PROVE  CourseInv' /\ place' = place
  BY <1>4 DEF RecordPractice, CurriculumTypeOK, PointerIsFirstOpen, Enrolled,
              CurriculumAssumption
<1>5. ASSUME NEW m \in Modalities, NEW selected \in BOOLEAN, DraftMenu(m, selected)
      PROVE  CourseInv' /\ place' = place
  <2> DEFINE next == IF selected THEN menu \cup {m} ELSE menu \ {m}
  <2>1. /\ Enrolled /\ next # {} /\ drafts' = drafts \cup {next}
        /\ UNCHANGED <<credit, passed, menu, place, entering, underway, resyncs, losses>>
    BY <1>5 DEF DraftMenu
  <2>2. next \in SUBSET Modalities
    BY DEF CurriculumTypeOK
  <2> HIDE DEF next
  <2>3. drafts' \subseteq (SUBSET Modalities) \ {{}}
    BY <2>1, <2>2 DEF CurriculumTypeOK
  <2> QED
    BY <2>1, <2>3 DEF CurriculumTypeOK, PointerIsFirstOpen, Enrolled
<1>6. ASSUME NEW next \in drafts, SaveMenu(next)
      PROVE  CourseInv' /\ place' = place
  BY <1>6 DEF SaveMenu, CurriculumTypeOK, PointerIsFirstOpen, Enrolled,
              CurriculumAssumption
<1>7. CASE LoseResync
  BY <1>7 DEF LoseResync, CurriculumTypeOK, PointerIsFirstOpen, Enrolled,
              CurriculumAssumption
<1> QED
  BY <1>1, <1>2, <1>3, <1>4, <1>5, <1>6, <1>7 DEF Enrolling, Studying, ChoosingMenu

(* A resync keeps the invariant and moves forward.                          *)
LEMMA ResyncForward ==
  ASSUME CurriculumAssumption, CourseInv, Resync
  PROVE  /\ CourseInv'
         /\ InitialLevel = 0 => place'.at >= place.at /\ place'.level >= place.level
<1>1. Recompute({}) /\ {} \in SUBSET Recortes /\ Enrolled
  BY DEF Resync, CourseInv, CurriculumTypeOK
<1>2. /\ passed' \subseteq Recortes
      /\ place' \in [at : 0..Beyond, level : Nat]
      /\ place'.at # 0
      /\ PointerIsFirstOpen'
      /\ InitialLevel = 0 => place'.at >= place.at /\ place'.level >= place.level
  BY <1>1, RecomputeForward
<1>3. /\ resyncs' \in 0..MaxUnderway
      /\ UNCHANGED <<credit, menu, entering, underway, drafts, losses>>
  BY DEF Resync, CourseInv, CurriculumTypeOK, CurriculumAssumption
<1>4. Enrolled'
  BY <1>2 DEF Enrolled, NoPlace
<1> QED
  BY <1>2, <1>3, <1>4 DEF CourseInv, CurriculumTypeOK

(* A learner, once enrolled, stays enrolled.                                *)
LEMMA StaysEnrolled ==
  ASSUME CurriculumAssumption, CourseInv, CurriculumNext, Enrolled
  PROVE  Enrolled'
<1>1. CASE Resync
  <2>1. Recompute({}) /\ {} \in SUBSET Recortes
    BY <1>1 DEF Resync
  <2>2. place'.at # 0
    BY <2>1, RecomputeForward
  <2> QED
    BY <2>2 DEF Enrolled, NoPlace
<1>2. CASE Enrolling \/ Studying \/ ChoosingMenu \/ LoseResync
  BY <1>2, StudyingKeepsCourse DEF Enrolled
<1> QED
  BY <1>1, <1>2 DEF CurriculumNext

(* Every step of the course keeps its invariant and moves only forward.     *)
LEMMA CourseForward ==
  ASSUME CurriculumAssumption, CourseInv, CurriculumNext
  PROVE  /\ CourseInv'
         /\ Enrolled /\ InitialLevel = 0 =>
              place'.at >= place.at /\ place'.level >= place.level
<1>1. CASE Resync
  BY <1>1, ResyncForward
<1>2. CASE Enrolling \/ Studying \/ ChoosingMenu \/ LoseResync
  <2>1. CourseInv' /\ (Enrolled => place' = place)
    BY <1>2, StudyingKeepsCourse
  <2>2. place.at >= place.at /\ place.level >= place.level
    BY DEF CourseInv, CurriculumTypeOK, Beyond
  <2> QED
    BY <2>1, <2>2
<1> QED
  BY <1>1, <1>2 DEF CurriculumNext

-------------------------------------------------------------------------------
(* The placement test.  A request has enrolled its learner first.           *)
AsksOnceEnrolled == ~Enrolled => \A c \in Tabs : TabAt(c, "idle")

(* A placement result passes what is below it, and moves only forward.      *)
LEMMA ResultForward ==
  ASSUME CurriculumAssumption, CourseInv, AsksOnceEnrolled,
         NEW c \in Tabs, ApplyResult(c)
  PROVE  /\ CourseInv' /\ AsksOnceEnrolled'
         /\ InitialLevel = 0 => place'.at >= place.at /\ place'.level >= place.level
<1>1. Recompute(Below(tab[c].level)) /\ Below(tab[c].level) \in SUBSET Recortes /\ Enrolled
  BY DEF ApplyResult, Below, AsksOnceEnrolled, TabAt
<1>2. /\ passed' \subseteq Recortes
      /\ place' \in [at : 0..Beyond, level : Nat]
      /\ place'.at # 0
      /\ PointerIsFirstOpen'
      /\ InitialLevel = 0 => place'.at >= place.at /\ place'.level >= place.level
  BY <1>1, RecomputeForward
<1>3. UNCHANGED <<credit, menu, entering, underway, drafts, resyncs, losses>>
  BY DEF ApplyResult
<1>4. Enrolled'
  BY <1>2 DEF Enrolled, NoPlace
<1> QED
  BY <1>2, <1>3, <1>4 DEF CourseInv, CurriculumTypeOK, AsksOnceEnrolled

(* What leaves the course alone keeps its invariant.                        *)
LEMMA CourseAlone ==
  ASSUME CourseInv, UNCHANGED curriculumVars
  PROVE  CourseInv' /\ (Enrolled <=> Enrolled') /\ place' = place
BY DEF CourseInv, CurriculumTypeOK, PointerIsFirstOpen, Enrolled, curriculumVars

(* No request is served, or dies, before the learner is enrolled.           *)
LEMMA NobodyAsksBefore ==
  ASSUME AsksOnceEnrolled, ~Enrolled, NEW c \in Tabs
  PROVE  ~Serving(c) /\ ~Continue(c) /\ ~Interfere(c) /\ ~TabDies(c)
<1>1. tab[c].at = "idle"
  BY DEF AsksOnceEnrolled, TabAt
<1>2. ~Serving(c)
  BY <1>1 DEF Serving, ApplyResult, LookCompleted, LookOpen, InsertSitting, SkipSitting,
              MarkAbandoned, CheckAnswer, RecordAnswer, LoadAnswers, Walk, ShowGate,
              StoreText, LookAtTexts, EvaluateTexts, LeavePending, CompleteSitting, TabAt
<1>3. ~Continue(c) /\ ~Interfere(c) /\ ~TabDies(c)
  BY <1>1 DEF Continue, Interfere, TabDies, TabAt
<1> QED
  BY <1>2, <1>3

(* Every step of the composition keeps both invariants, and moves pointer   *)
(* and level only forward.                                                  *)
LEMMA PlacementForward ==
  ASSUME CurriculumAssumption, PlacementAssumption, CourseInv, AsksOnceEnrolled,
         PlacementNext
  PROVE  /\ CourseInv' /\ AsksOnceEnrolled'
         /\ Enrolled /\ InitialLevel = 0 =>
              place'.at >= place.at /\ place'.level >= place.level
<1>1. CASE CurriculumNext /\ UNCHANGED placementVars
  <2>1. /\ CourseInv'
        /\ Enrolled /\ InitialLevel = 0 =>
             place'.at >= place.at /\ place'.level >= place.level
    BY <1>1, CourseForward
  <2>2. CASE Enrolled
    <3>1. Enrolled'
      BY <1>1, <2>2, StaysEnrolled
    <3> QED
      BY <2>1, <3>1 DEF AsksOnceEnrolled
  <2>3. CASE ~Enrolled
    BY <1>1, <2>1, <2>3 DEF AsksOnceEnrolled, TabAt, placementVars
  <2> QED
    BY <2>2, <2>3
<1>2. ASSUME NEW c \in Tabs, ApplyResult(c)
      PROVE  /\ CourseInv' /\ AsksOnceEnrolled'
             /\ InitialLevel = 0 => place'.at >= place.at /\ place'.level >= place.level
  BY <1>2, ResultForward
<1>3. ASSUME UNCHANGED curriculumVars, ~Enrolled => UNCHANGED tab
      PROVE  /\ CourseInv' /\ AsksOnceEnrolled'
             /\ place'.at >= place.at /\ place'.level >= place.level
  <2>1. CourseInv' /\ (Enrolled <=> Enrolled') /\ place' = place
    BY <1>3, CourseAlone
  <2>2. place.at >= place.at /\ place.level >= place.level
    BY DEF CourseInv, CurriculumTypeOK, Beyond
  <2> QED
    BY <1>3, <2>1, <2>2 DEF AsksOnceEnrolled, TabAt
<1>4. ASSUME NEW c \in Tabs, Serving(c), ~ApplyResult(c)
      PROVE  UNCHANGED curriculumVars /\ Enrolled
  BY <1>4, NobodyAsksBefore DEF Serving
<1>5. ASSUME NEW c \in Tabs, Continue(c) \/ Interfere(c)
      PROVE  UNCHANGED curriculumVars /\ Enrolled
  BY <1>5 DEF Continue, Interfere
<1>6. ASSUME PlacementMishap
      PROVE  UNCHANGED curriculumVars /\ (~Enrolled => UNCHANGED tab)
  <2>1. UNCHANGED curriculumVars
    BY <1>6 DEF PlacementMishap
  <2>2. ASSUME ~Enrolled PROVE UNCHANGED tab
    BY <1>6, <2>2, NobodyAsksBefore DEF PlacementMishap, ExpireSitting, SweepSitting
  <2> QED
    BY <2>1, <2>2
<1>7. MainTab \in Tabs
  BY DEF PlacementAssumption
<1> QED
  BY <1>1, <1>2, <1>3, <1>4, <1>5, <1>6, <1>7 DEF PlacementNext

(* The invariant holds of a learner new to the course, and of one enrolled. *)
LEMMA CourseStarts ==
  ASSUME CurriculumAssumption, CurriculumInit \/ EnrolledInit
  PROVE  CourseInv
<1>1. CASE CurriculumInit
  BY <1>1, RecortesTyped
  DEF CurriculumInit, CourseInv, CurriculumTypeOK, PointerIsFirstOpen, Enrolled, NoPlace,
      Beyond, CurriculumAssumption
<1>2. CASE EnrolledInit
  <2>1. PICK r \in Recortes : IsInitial(r) /\ place = PlaceAt(r)
    BY <1>2 DEF EnrolledInit
  <2>2. CurriculumTypeOK
    BY <1>2, <2>1, PlaceAtTyped DEF EnrolledInit, CurriculumTypeOK, CurriculumAssumption
  <2>3. Enrolled /\ place.at = r /\ place.level = LevelOf[r]
    BY <2>1, PlaceAtTyped DEF Enrolled
  <2>4. InitialLevel = 0 => r = 1
    BY <2>1, RecortesTyped DEF IsInitial
  <2> QED
    BY <2>2, <2>3, <2>4, RecortesTyped DEF CourseInv, PointerIsFirstOpen
<1> QED
  BY <1>1, <1>2

(* The invariants hold from the start on.                                   *)
LEMMA CourseInvariant == PlacementSafety => [](CourseInv /\ AsksOnceEnrolled)
<1> USE CurriculumAssumption, PlacementAssumption
<1>1. PlacementInit => AsksOnceEnrolled
  BY DEF PlacementInit, AsksOnceEnrolled, TabAt, IdleTab
<1>2. CurriculumInit \/ EnrolledInit => CourseInv
  BY CourseStarts
<1>3. CourseInv /\ AsksOnceEnrolled /\ [PlacementNext]_bothVars
      => (CourseInv /\ AsksOnceEnrolled)'
  <2> SUFFICES ASSUME CourseInv, AsksOnceEnrolled, [PlacementNext]_bothVars
               PROVE  (CourseInv /\ AsksOnceEnrolled)'
    OBVIOUS
  <2>1. CASE PlacementNext
    BY <2>1, PlacementForward
  <2>2. CASE UNCHANGED bothVars
    BY <2>2, CourseAlone DEF bothVars, placementVars, AsksOnceEnrolled, TabAt
  <2> QED
    BY <2>1, <2>2
<1> QED
  BY <1>1, <1>2, <1>3, PTL DEF PlacementSafety

(* The learner's rows and the requests under way keep their types, whatever *)
(* the course and the placement test do together.                           *)
THEOREM CurriculumTypes == PlacementSafety => []CurriculumTypeOK
BY CourseInvariant, PTL DEF CourseInv

(* The official level never drops: not by a resync, a change of the menu, a *)
(* placement result below it or a first access that comes late.             *)
THEOREM LevelIsKept == PlacementSafety => LevelNeverDrops
<1> USE CurriculumAssumption, PlacementAssumption
<1>1. CourseInv /\ AsksOnceEnrolled /\ [PlacementNext]_bothVars
      => [Enrolled /\ InitialLevel = 0 =>
            place'.at >= place.at /\ place'.level >= place.level]_curriculumVars
  BY PlacementForward DEF bothVars
<1> QED
  BY <1>1, CourseInvariant, PTL DEF PlacementSafety, LevelNeverDrops

-------------------------------------------------------------------------------
(* The result of the test.  A set of numbers has a least one.               *)
LEMMA LeastNumber ==
  ASSUME NEW T \in SUBSET Nat, T # {}
  PROVE  \E n \in T : \A k \in T : n <= k
<1>1. PICK n \in T : \A k \in T : <<k, n>> \notin OpToRel(<, Nat)
  BY WFMin, NatLessThanWellFounded, Zenon
<1>2. \A k \in T : ~(k < n)
  BY <1>1 DEF OpToRel
<1> QED
  BY <1>2

(* The answers of a sitting are to questions of its checkpoints, one to     *)
(* each (uq_placement_answer_once).                                         *)
Questions(cp) == Mains(cp) \cup Ties(cp)

AnswerRows == {a \in Checkpoints \X Nat \X BOOLEAN : a[2] \in Questions(a[1])}

SoundAnswers(answers) ==
  /\ answers \subseteq AnswerRows
  /\ \A a, b \in answers : a[1] = b[1] /\ a[2] = b[2] => a = b

Resolved(cp, answers) == Asked(cp, answers) = {}

(* Nothing is asked only when nothing is left unasked.                      *)
LEMMA ResolvedMeansAllAsked ==
  ASSUME PlacementAssumption, NEW cp \in Checkpoints, NEW answers
  PROVE  Resolved(cp, answers) <=> Unasked(cp, answers) = {}
<1>1. MainCount[cp] \in Nat /\ TieCount[cp] \in Nat
  BY DEF PlacementAssumption
<1>2. Unasked(cp, answers) \in SUBSET Nat
  BY <1>1 DEF Unasked, Mains, Ties
<1>3. ASSUME Unasked(cp, answers) # {}
      PROVE  Asked(cp, answers) # {}
  <2>1. PICK n \in Unasked(cp, answers) : \A k \in Unasked(cp, answers) : n <= k
    BY <1>2, <1>3, LeastNumber
  <2> QED
    BY <2>1 DEF Asked
<1> QED
  BY <1>3 DEF Resolved, Asked

(* An answer has the number that is recorded of it.                         *)
LEMMA AnsweredRow ==
  ASSUME PlacementAssumption, NEW cp \in Checkpoints, NEW A, SoundAnswers(A),
         NEW n \in AnsweredAt(cp, A)
  PROVE  \E right \in BOOLEAN : <<cp, n, right>> \in A
<1>1. PICK a \in A : a[1] = cp /\ a[2] = n
  BY DEF AnsweredAt
<1>2. a \in Checkpoints \X Nat \X BOOLEAN
  BY DEF SoundAnswers, AnswerRows
<1>3. a = <<cp, n, a[3]>> /\ a[3] \in BOOLEAN
  BY <1>1, <1>2
<1> QED
  BY <1>3

(* Later answers change nothing of a checkpoint that is resolved: not that  *)
(* it is, and not where it leads.                                           *)
LEMMA ResolvedStays ==
  ASSUME PlacementAssumption, NEW cp \in Checkpoints,
         NEW A, NEW B, A \subseteq B, SoundAnswers(B), Resolved(cp, A)
  PROVE  Resolved(cp, B) /\ Route(cp, B) = Route(cp, A)
<1>1. MainCount[cp] \in Nat \ {0} /\ TieCount[cp] \in Nat
  BY DEF PlacementAssumption
<1>2. Unasked(cp, A) = {}
  BY ResolvedMeansAllAsked
<1>3. AnsweredAt(cp, A) \subseteq AnsweredAt(cp, B)
  BY DEF AnsweredAt
<1>4. Mains(cp) \subseteq AnsweredAt(cp, A)
  BY <1>2 DEF Unasked
<1>5. SoundAnswers(A)
  BY DEF SoundAnswers
<1>6. ASSUME NEW n \in AnsweredAt(cp, A), <<cp, n, TRUE>> \in B
      PROVE  <<cp, n, TRUE>> \in A
  <2>1. PICK right \in BOOLEAN : <<cp, n, right>> \in A
    BY <1>5, AnsweredRow
  <2>2. <<cp, n, right>> = <<cp, n, TRUE>>
    <3>1. /\ <<cp, n, right>> \in B
          /\ <<cp, n, right>>[1] = <<cp, n, TRUE>>[1]
          /\ <<cp, n, right>>[2] = <<cp, n, TRUE>>[2]
      BY <2>1
    <3> QED
      BY <1>6, <3>1 DEF SoundAnswers
  <2> QED
    BY <2>1, <2>2
<1>7. RightMains(cp, B) = RightMains(cp, A)
  BY <1>4, <1>6 DEF RightMains
<1>8. Unasked(cp, B) = {}
  BY <1>2, <1>3, <1>4, <1>7 DEF Unasked
<1>9. Passes(cp, B) = Passes(cp, A)
  <2>1. CASE RightMains(cp, A) \in {{}, Mains(cp)}
    BY <1>7, <2>1 DEF Passes
  <2>2. CASE RightMains(cp, A) \notin {{}, Mains(cp)}
    <3>1. Ties(cp) \subseteq AnsweredAt(cp, A)
      BY <1>2, <1>4, <2>2 DEF Unasked
    <3>2. ASSUME <<cp, MainCount[cp] + 1, TRUE>> \in B
          PROVE  <<cp, MainCount[cp] + 1, TRUE>> \in A
      <4>1. MainCount[cp] + 1 \in Questions(cp)
        BY <3>2 DEF SoundAnswers, AnswerRows
      <4>2. MainCount[cp] + 1 \in Ties(cp)
        BY <1>1, <4>1 DEF Questions, Mains, Ties
      <4> QED
        BY <1>6, <3>1, <3>2, <4>2
    <3>3. (<<cp, MainCount[cp] + 1, TRUE>> \in B) = (<<cp, MainCount[cp] + 1, TRUE>> \in A)
      BY <3>2
    <3> QED
      BY <1>7, <3>3 DEF Passes
  <2> QED
    BY <2>1, <2>2
<1>10. Resolved(cp, B)
  BY <1>8, ResolvedMeansAllAsked
<1> QED
  BY <1>9, <1>10 DEF Route

(* The checkpoints a sitting has come to: the first one, what a resolved    *)
(* one leads to, and more with more answers.                                *)
LEMMA ReachedCheckpoints ==
  ASSUME PlacementAssumption, NEW A
  PROVE  /\ Reached(A) \subseteq Checkpoints \cup {Gate}
         /\ StartCheckpoint \in Reached(A)
BY DEF Reached, PlacementAssumption

(* What a resolved checkpoint leads to is reached with it.                  *)
LEMMA ReachedNext ==
  ASSUME PlacementAssumption, NEW A, NEW cp \in Reached(A) \ {Gate}, Resolved(cp, A),
         Route(cp, A).checkpoint # Nowhere
  PROVE  Route(cp, A).checkpoint \in Reached(A)
<1>1. cp \in Checkpoints
  BY ReachedCheckpoints
<1>2. Route(cp, A).checkpoint \in Checkpoints \cup {Gate}
  BY <1>1 DEF Route, PlacementAssumption, Routes
<1>3. ASSUME NEW S \in SUBSET (Checkpoints \cup {Gate}), StartCheckpoint \in S,
             \A p \in S \ {Gate} : Asked(p, A) = {} => Route(p, A).checkpoint \in S \cup {Nowhere}
      PROVE  Route(cp, A).checkpoint \in S
  BY <1>3 DEF Reached, Resolved
<1> QED
  BY <1>2, <1>3 DEF Reached

(* What is reached with some answers is reached with more.                  *)
LEMMA ReachedGrows ==
  ASSUME PlacementAssumption, NEW A, NEW B, A \subseteq B, SoundAnswers(B)
  PROVE  Reached(A) \subseteq Reached(B)
<1> SUFFICES ASSUME NEW cp \in Reached(A) PROVE cp \in Reached(B)
  OBVIOUS
<1>1. cp \in Checkpoints \cup {Gate}
  BY ReachedCheckpoints
<1>2. ASSUME NEW S \in SUBSET (Checkpoints \cup {Gate}), StartCheckpoint \in S,
             \A p \in S \ {Gate} : Asked(p, B) = {} => Route(p, B).checkpoint \in S \cup {Nowhere}
      PROVE  cp \in S
  <2>1. ASSUME NEW p \in S \ {Gate}, Asked(p, A) = {}
        PROVE  Route(p, A).checkpoint \in S \cup {Nowhere}
    <3>1. p \in Checkpoints
      OBVIOUS
    <3>2. Resolved(p, B) /\ Route(p, B) = Route(p, A)
      BY <2>1, <3>1, ResolvedStays DEF Resolved
    <3> QED
      BY <1>2, <3>2 DEF Resolved
  <2> QED
    BY <1>2, <2>1 DEF Reached
<1> QED
  BY <1>1, <1>2 DEF Reached

-------------------------------------------------------------------------------
(* What results the test may give: the levels its checkpoints lead to and   *)
(* those of an evaluation are levels of the course.  An assumption about    *)
(* the test that is loaded: the database only demands that a checkpoint     *)
(* leads to another or to a level (ck_placement_*_exactly_one).             *)
ResultsAreLevels ==
  LET levels == 1..LevelOf[Len(LevelOf)] IN
  /\ \A cp \in Checkpoints \cup {Gate} : \A route \in {OnPass[cp], OnFail[cp]} :
       route.checkpoint = Nowhere => route.level \in levels
  /\ TopLevel \in levels /\ TemporaryLevel \in levels

Positions == Checkpoints \cup {Gate, Nowhere}

SittingRows == [status : SittingStatuses, expired : BOOLEAN, answers : SUBSET AnswerRows,
                texts : SUBSET C2Steps, verdicts : SUBSET BOOLEAN, setBack : BOOLEAN,
                raw : Nat, checkpoint : Positions]

TabKinds == {"none", "state", "start", "skip", "answer", "retry"}

TabRows == [at : TabStages, kind : TabKinds, sitting : Nat,
            status : SittingStatuses \cup {"none"}, checkpoint : Positions,
            seen : SUBSET AnswerRows, level : Nat]

RowsTyped == /\ sitting \in Seq(SittingRows)
             /\ tab \in [Tabs -> TabRows]
             /\ \A c \in Tabs : tab[c].sitting <= Len(sitting)
             /\ setbacks \in 0..MaxSetbacks
             /\ intrusions \in 0..MaxIntrusions

(* The level n is one the answers of the sitting give, or its texts.        *)
DueToAnswers(answers, n) ==
  \E cp \in Reached(answers) \ {Gate} :
    /\ Resolved(cp, answers)
    /\ Route(cp, answers) = [checkpoint |-> Nowhere, level |-> n]

DueToTexts(s, n) ==
  /\ Gate \in Reached(sitting[s].answers)
  /\ sitting[s].texts = C2Steps
  /\ \E cp \in (IF sitting[s].setBack THEN Reached(sitting[s].answers) ELSE {Gate}),
        pass \in sitting[s].verdicts :
       n = VerdictLevel(cp, pass)

DueLevel(s, n) == n # 0 /\ (DueToAnswers(sitting[s].answers, n) \/ DueToTexts(s, n))

(* Once at its gate, a sitting stays there unless a late walk sets it back. *)
AtGate(s) == sitting[s].checkpoint = Gate \/ sitting[s].setBack

(* A sitting stands where its answers have led it, and its result is due.   *)
SittingSound(s) ==
  LET row == sitting[s] IN
  /\ SoundAnswers(row.answers)
  /\ row.checkpoint \in Reached(row.answers) \cup {Nowhere}
  /\ row.checkpoint = Nowhere => row.status = "skipped"
  /\ row.status = "pending_evaluation" =>
       Gate \in Reached(row.answers) /\ row.texts = C2Steps /\ AtGate(s)
  /\ row.status = "completed" => row.raw # 0
  /\ row.raw # 0 => DueLevel(s, row.raw) /\ place.level >= row.raw

OneCompleted ==
  \A s, t \in Sittings :
    sitting[s].status = "completed" /\ sitting[t].status = "completed" => s = t

Looking == {"idle", "look", "open", "insert"}

(* A request that has read a sitting stands where the sitting has come to,  *)
(* however much later than it the sitting's own row has moved.              *)
RequestSound(c) ==
  LET s == tab[c].sitting
      at == tab[c].at IN
  /\ at \notin Looking => /\ s \in Sittings /\ sitting[s].checkpoint # Nowhere
                          /\ tab[c].checkpoint \in Reached(sitting[s].answers)
  /\ at \in {"walk", "record"} => tab[c].seen \subseteq sitting[s].answers
  /\ at = "record" => tab[c].checkpoint # Gate
  /\ at \in {"text", "texts", "evaluate", "lend", "leave"} => Gate \in Reached(sitting[s].answers)
  /\ at \in {"evaluate", "lend", "leave"} => sitting[s].texts = C2Steps
  /\ at \notin Looking /\ tab[c].checkpoint = Gate => AtGate(s)
  /\ at \in {"text", "texts"} => tab[c].checkpoint = Gate
  /\ at \in {"evaluate", "lend", "leave"} => tab[c].checkpoint = Gate \/ sitting[s].setBack
  /\ at = "lend" => tab[c].level = TemporaryLevel
  /\ at \in {"apply", "complete"} => DueLevel(s, tab[c].level)
  /\ at = "complete" => place.level >= tab[c].level

(* Nothing above the official level is passed, credited or under way.       *)
LevelsReached ==
  \A r \in Recortes :
    r \in passed \/ (\E m \in Modalities : <<r, m>> \in credit \cup underway)
      => LevelOf[r] <= place.level

PlacementInv == /\ RowsTyped
                /\ \A s \in Sittings : SittingSound(s)
                /\ OneCompleted
                /\ \A c \in Tabs : RequestSound(c)
                /\ LevelsReached

(* So is the level of a verdict.                                            *)
LEMMA VerdictIsALevel ==
  ASSUME PlacementAssumption, ResultsAreLevels, NEW cp \in Checkpoints \cup {Gate}, NEW pass
  PROVE  VerdictLevel(cp, pass) \in 1..LevelOf[Len(LevelOf)]
<1> DEFINE route == IF pass THEN OnPass[cp] ELSE OnFail[cp]
<1>1. route \in {OnPass[cp], OnFail[cp]}
  OBVIOUS
<1>2. route.checkpoint = Nowhere => route.level \in 1..LevelOf[Len(LevelOf)]
  BY <1>1 DEF ResultsAreLevels
<1>3. VerdictLevel(cp, pass) = IF route.checkpoint = Nowhere THEN route.level
                               ELSE IF pass THEN TopLevel ELSE TemporaryLevel
  BY DEF VerdictLevel
<1> HIDE DEF route
<1> QED
  BY <1>2, <1>3 DEF ResultsAreLevels

(* A result that is due is a level of the course.                           *)
LEMMA DueIsALevel ==
  ASSUME PlacementAssumption, ResultsAreLevels, NEW s, NEW n, DueLevel(s, n)
  PROVE  n \in 1..LevelOf[Len(LevelOf)]
<1>1. CASE DueToTexts(s, n)
  <2>1. PICK cp \in Checkpoints \cup {Gate}, pass \in sitting[s].verdicts :
          n = VerdictLevel(cp, pass)
    BY <1>1, ReachedCheckpoints DEF DueToTexts
  <2> QED
    BY <2>1, VerdictIsALevel
<1>2. CASE DueToAnswers(sitting[s].answers, n)
  <2>1. PICK cp \in Reached(sitting[s].answers) \ {Gate} :
          Route(cp, sitting[s].answers) = [checkpoint |-> Nowhere, level |-> n]
    BY <1>2 DEF DueToAnswers
  <2>2. cp \in Checkpoints
    BY <2>1, ReachedCheckpoints
  <2>3. PICK route \in {OnPass[cp], OnFail[cp]} :
          route.checkpoint = Nowhere /\ route.level = n
    BY <2>1 DEF Route
  <2> QED
    BY <2>2, <2>3 DEF ResultsAreLevels
<1> QED
  BY <1>1, <1>2 DEF DueLevel

(* What the answers give, more answers give too.                            *)
LEMMA DueToMoreAnswers ==
  ASSUME PlacementAssumption, NEW A, NEW B, A \subseteq B, SoundAnswers(B), NEW n,
         DueToAnswers(A, n)
  PROVE  DueToAnswers(B, n)
<1>1. PICK cp \in Reached(A) \ {Gate} :
        Resolved(cp, A) /\ Route(cp, A) = [checkpoint |-> Nowhere, level |-> n]
  BY DEF DueToAnswers
<1>2. cp \in Checkpoints
  BY ReachedCheckpoints
<1>3. cp \in Reached(B) \ {Gate}
  BY ReachedGrows
<1>4. Resolved(cp, B) /\ Route(cp, B) = Route(cp, A)
  BY <1>1, <1>2, ResolvedStays
<1> QED
  BY <1>1, <1>3, <1>4 DEF DueToAnswers

(* A sitting goes on: nothing of what was answered or written is lost.      *)
Grows(s) ==
  /\ s \in Sittings'
  /\ SoundAnswers(sitting'[s].answers)
  /\ sitting[s].answers \subseteq sitting'[s].answers
  /\ sitting[s].texts \subseteq sitting'[s].texts /\ sitting'[s].texts \subseteq C2Steps
  /\ sitting[s].checkpoint # Nowhere => sitting'[s].checkpoint # Nowhere
  /\ sitting[s].verdicts \subseteq sitting'[s].verdicts
  /\ sitting[s].setBack => sitting'[s].setBack
  /\ AtGate(s) => AtGate(s)'

(* What a sitting has come to and what is due to it only grows.             *)
LEMMA GrownSitting ==
  ASSUME PlacementAssumption, NEW s, Grows(s)
  PROVE  /\ Reached(sitting[s].answers) \subseteq Reached(sitting'[s].answers)
         /\ sitting[s].texts = C2Steps => sitting'[s].texts = C2Steps
         /\ sitting[s].setBack => sitting'[s].setBack
         /\ AtGate(s) => AtGate(s)'
         /\ \A n : DueLevel(s, n) => DueLevel(s, n)'
<1>1. Reached(sitting[s].answers) \subseteq Reached(sitting'[s].answers)
  BY ReachedGrows DEF Grows
<1>2. sitting[s].texts = C2Steps => sitting'[s].texts = C2Steps
  BY DEF Grows
<1>3. ASSUME NEW n, DueLevel(s, n)
      PROVE  DueLevel(s, n)'
  <2>1. DueToAnswers(sitting[s].answers, n) => DueToAnswers(sitting'[s].answers, n)
    BY DueToMoreAnswers DEF Grows
  <2>2. ASSUME DueToTexts(s, n)
        PROVE  DueToTexts(s, n)'
    <3>1. /\ Gate \in Reached(sitting[s].answers) /\ sitting[s].texts = C2Steps
          /\ \E cp \in (IF sitting[s].setBack THEN Reached(sitting[s].answers) ELSE {Gate}),
                pass \in sitting[s].verdicts : n = VerdictLevel(cp, pass)
      BY <2>2 DEF DueToTexts
    <3>2. PICK cp \in (IF sitting[s].setBack THEN Reached(sitting[s].answers) ELSE {Gate}),
               pass \in sitting[s].verdicts : n = VerdictLevel(cp, pass)
      BY <3>1
    <3>3. Gate \in Reached(sitting'[s].answers) /\ sitting'[s].texts = C2Steps
      BY <1>1, <1>2, <3>1
    <3>4. cp \in IF sitting'[s].setBack THEN Reached(sitting'[s].answers) ELSE {Gate}
      BY <1>1, <3>1, <3>2, <3>3 DEF Grows
    <3>5. pass \in sitting'[s].verdicts
      BY <3>2 DEF Grows
    <3>6. VerdictLevel(cp, pass)' = VerdictLevel(cp, pass)
      BY DEF VerdictLevel
    <3>7. Reached(sitting[s].answers)' = Reached(sitting'[s].answers)
      BY DEF Reached
    <3> QED
      BY <3>2, <3>3, <3>4, <3>5, <3>7 DEF DueToTexts, VerdictLevel
  <2>3. DueToAnswers(sitting'[s].answers, n) => DueToAnswers(sitting[s].answers, n)'
    BY DEF DueToAnswers
  <2> QED
    BY <1>3, <2>1, <2>2, <2>3 DEF DueLevel
<1>4. (sitting[s].setBack => sitting'[s].setBack) /\ (AtGate(s) => AtGate(s)')
  BY DEF Grows
<1> QED
  BY <1>1, <1>2, <1>3, <1>4

(* A request waits while sittings go on and the level does not drop.        *)
LEMMA WaitingRequest ==
  ASSUME PlacementAssumption, RowsTyped, NEW c \in Tabs, RequestSound(c), tab'[c] = tab[c],
         \A s \in Sittings : Grows(s),
         place.level \in Nat, place'.level \in Nat, place'.level >= place.level
  PROVE  RequestSound(c)'
<1> DEFINE s == tab[c].sitting
<1>1. CASE tab[c].at \in Looking
  BY <1>1 DEF RequestSound, Looking
<1>2. CASE tab[c].at \notin Looking
  <2>1. s \in Sittings /\ Grows(s)
    BY <1>2 DEF RequestSound
  <2>2. /\ Reached(sitting[s].answers) \subseteq Reached(sitting'[s].answers)
        /\ sitting[s].texts = C2Steps => sitting'[s].texts = C2Steps
        /\ sitting[s].setBack => sitting'[s].setBack
        /\ AtGate(s) => AtGate(s)'
        /\ \A n : DueLevel(s, n) => DueLevel(s, n)'
    BY <2>1, GrownSitting
  <2>3. /\ s \in Sittings' /\ sitting'[s].checkpoint # Nowhere
        /\ tab[c].checkpoint \in Reached(sitting'[s].answers)
        /\ tab[c].at \in {"walk", "record"} => tab[c].seen \subseteq sitting'[s].answers
    BY <1>2, <2>1, <2>2 DEF RequestSound, Grows
  <2>4. /\ tab[c].at = "record" => tab[c].checkpoint # Gate
        /\ tab[c].at \in {"text", "texts", "evaluate", "lend", "leave"} =>
             Gate \in Reached(sitting'[s].answers)
        /\ tab[c].at \in {"evaluate", "lend", "leave"} => sitting'[s].texts = C2Steps
        /\ tab[c].at = "lend" => tab[c].level = TemporaryLevel
        /\ tab[c].at \notin Looking /\ tab[c].checkpoint = Gate => AtGate(s)'
        /\ tab[c].at \in {"text", "texts"} => tab[c].checkpoint = Gate
        /\ tab[c].at \in {"evaluate", "lend", "leave"} =>
             tab[c].checkpoint = Gate \/ sitting'[s].setBack
    BY <2>2 DEF RequestSound
  <2>5. /\ tab[c].at \in {"apply", "complete"} => DueLevel(s, tab[c].level)'
        /\ tab[c].at = "complete" => place'.level >= tab[c].level
    <3>1. tab[c].at \in {"apply", "complete"} => DueLevel(s, tab[c].level)
      BY DEF RequestSound
    <3>2. tab[c].at \in {"apply", "complete"} => DueLevel(s, tab[c].level)'
      BY <2>2, <3>1
    <3>3. tab[c].at = "complete" => place.level >= tab[c].level
      BY DEF RequestSound
    <3>4. tab[c].level \in Nat
      BY DEF RowsTyped, TabRows
    <3> QED
      BY <3>2, <3>3, <3>4
  <2> QED
    BY <2>3, <2>4, <2>5 DEF RequestSound, AtGate
<1> QED
  BY <1>1, <1>2

(* A sitting nobody writes to stays sound.                                  *)
LEMMA UntouchedSitting ==
  ASSUME RowsTyped, NEW s \in Sittings, SittingSound(s), s \in Sittings', sitting'[s] = sitting[s],
         place.level \in Nat, place'.level \in Nat, place'.level >= place.level
  PROVE  SittingSound(s)' /\ Grows(s)
<1>1. sitting[s] \in SittingRows
  BY DEF RowsTyped, Sittings
<1>2. sitting[s].raw \in Nat /\ sitting[s].texts \subseteq C2Steps
  BY <1>1 DEF SittingRows
<1>3. \A n : DueLevel(s, n)' <=> DueLevel(s, n)
  BY DEF DueLevel, DueToTexts, DueToAnswers, VerdictLevel
<1> QED
  BY <1>2, <1>3 DEF SittingSound, Grows, AtGate

-------------------------------------------------------------------------------
(* How the requests move: what a move leaves of the request and the others. *)
Alone(c) == /\ tab' \in [Tabs -> TabRows]
            /\ \A d \in Tabs : d # c => tab'[d] = tab[d]

(* A move changes the stage alone (Move).                                   *)
LEMMA Moved ==
  ASSUME RowsTyped, NEW c \in Tabs, NEW stage \in TabStages, Move(c, stage)
  PROVE  /\ Alone(c)
         /\ tab'[c].at = stage /\ tab'[c].kind = tab[c].kind
         /\ tab'[c].sitting = tab[c].sitting /\ tab'[c].status = tab[c].status
         /\ tab'[c].checkpoint = tab[c].checkpoint
         /\ tab'[c].seen = tab[c].seen /\ tab'[c].level = tab[c].level
<1> DEFINE r == [tab[c] EXCEPT !.at = stage]
<1>1. tab[c] \in TabRows
  BY DEF RowsTyped
<1>2. /\ r \in TabRows /\ r.at = stage /\ r.kind = tab[c].kind
      /\ r.sitting = tab[c].sitting /\ r.status = tab[c].status
      /\ r.checkpoint = tab[c].checkpoint /\ r.seen = tab[c].seen /\ r.level = tab[c].level
  BY <1>1 DEF TabRows
<1>3. tab' = [tab EXCEPT ![c] = r]
  BY DEF Move
<1> HIDE DEF r
<1> QED
  BY <1>2, <1>3 DEF Alone, RowsTyped

(* The request of a tab that asks for nothing is well typed.                *)
LEMMA IdleTyped ==
  IdleTab \in TabRows /\ IdleTab.at = "idle" /\ IdleTab.sitting = 0
<1>1. "idle" \in TabStages /\ Nowhere \in Positions /\ {} \in SUBSET AnswerRows
  BY DEF TabStages, Positions
<1>2. "none" \in TabKinds
  BY DEF TabKinds
<1>3. "none" \in SittingStatuses \cup {"none"}
  OBVIOUS
<1> QED
  BY <1>1, <1>2, <1>3 DEF IdleTab, TabRows

(* A request that is over leaves its tab idle (Close).                      *)
LEMMA Closed ==
  ASSUME RowsTyped, NEW c \in Tabs, Close(c)
  PROVE  Alone(c) /\ tab'[c].at = "idle" /\ tab'[c].sitting = 0
BY IdleTyped DEF Close, Alone, RowsTyped

(* A request that starts over has read no sitting (Restart).                *)
LEMMA Restarted ==
  ASSUME RowsTyped, NEW c \in Tabs, NEW kind \in TabKinds, Restart(c, kind)
  PROVE  Alone(c) /\ tab'[c].at = "look" /\ tab'[c].sitting = 0
<1> DEFINE r == [IdleTab EXCEPT !.at = "look", !.kind = kind]
<1>1. r \in TabRows /\ r.at = "look" /\ r.sitting = 0
  BY IdleTyped DEF TabRows, TabStages
<1>2. tab' = [tab EXCEPT ![c] = r]
  BY DEF Restart
<1> HIDE DEF r
<1> QED
  BY <1>1, <1>2 DEF Alone, RowsTyped

(* A request goes on with the row it has read (MoveWith).                   *)
LEMMA MovedWith ==
  ASSUME RowsTyped, NEW c \in Tabs, NEW stage \in TabStages, NEW s \in Sittings,
         MoveWith(c, stage, s)
  PROVE  /\ Alone(c)
         /\ tab'[c].at = stage /\ tab'[c].sitting = s
         /\ tab'[c].status = sitting[s].status
         /\ tab'[c].checkpoint = sitting[s].checkpoint
<1> DEFINE r == [tab[c] EXCEPT !.at = stage, !.sitting = s, !.status = sitting[s].status,
                               !.checkpoint = sitting[s].checkpoint]
<1>1. tab[c] \in TabRows /\ sitting[s] \in SittingRows /\ s \in Nat
  BY DEF RowsTyped, Sittings
<1>2. /\ r \in TabRows /\ r.at = stage /\ r.sitting = s
      /\ r.status = sitting[s].status /\ r.checkpoint = sitting[s].checkpoint
  BY <1>1 DEF TabRows, SittingRows
<1>3. tab' = [tab EXCEPT ![c] = r]
  BY DEF MoveWith
<1> HIDE DEF r
<1> QED
  BY <1>2, <1>3 DEF Alone, RowsTyped

(* A step that writes one sitting's row.                                    *)
LEMMA SittingWritten ==
  ASSUME PlacementAssumption, PlacementInv, CourseInv, UNCHANGED curriculumVars,
         NEW s \in Sittings, NEW row \in SittingRows, sitting' = [sitting EXCEPT ![s] = row],
         SittingSound(s)', Grows(s), OneCompleted',
         tab' \in [Tabs -> TabRows],
         \A d \in Tabs : tab'[d] = tab[d] \/ (RequestSound(d)' /\ tab'[d].sitting <= Len(sitting)),
         setbacks' \in 0..MaxSetbacks, intrusions' \in 0..MaxIntrusions
  PROVE  PlacementInv'
<1>1. place.level \in Nat /\ place' = place
  BY DEF CourseInv, CurriculumTypeOK, curriculumVars
<1>2. /\ RowsTyped /\ OneCompleted /\ LevelsReached
      /\ \A t \in Sittings : SittingSound(t)
      /\ \A d \in Tabs : RequestSound(d)
  BY DEF PlacementInv
<1>3. /\ sitting' \in Seq(SittingRows) /\ Len(sitting') = Len(sitting)
      /\ Sittings' = Sittings /\ sitting'[s] = row
      /\ \A t \in Sittings : t # s => sitting'[t] = sitting[t]
  BY <1>2 DEF RowsTyped, Sittings
<1>4. \A t \in Sittings : SittingSound(t)' /\ Grows(t)
  BY <1>1, <1>2, <1>3, UntouchedSitting
<1>5. RowsTyped'
  BY <1>2, <1>3 DEF RowsTyped
<1>6. \A d \in Tabs : RequestSound(d)'
  <2> SUFFICES ASSUME NEW d \in Tabs, tab'[d] = tab[d] PROVE RequestSound(d)'
    OBVIOUS
  <2>1. place'.level \in Nat /\ place'.level >= place.level
    BY <1>1
  <2> QED
    BY <1>1, <1>2, <1>4, <2>1, WaitingRequest
<1>7. LevelsReached'
  BY <1>2 DEF LevelsReached, curriculumVars
<1>8. \A t \in Sittings' : SittingSound(t)'
  BY <1>3, <1>4
<1> QED
  BY <1>5, <1>6, <1>7, <1>8 DEF PlacementInv

(* A step that writes no sitting, while the level does not drop.            *)
LEMMA SittingsRest ==
  ASSUME PlacementAssumption, PlacementInv, UNCHANGED sitting,
         place.level \in Nat, place'.level \in Nat, place'.level >= place.level,
         LevelsReached', tab' \in [Tabs -> TabRows],
         \A d \in Tabs : tab'[d] = tab[d] \/ (RequestSound(d)' /\ tab'[d].sitting <= Len(sitting)),
         setbacks' \in 0..MaxSetbacks, intrusions' \in 0..MaxIntrusions
  PROVE  PlacementInv'
<1>1. /\ RowsTyped /\ OneCompleted
      /\ \A s \in Sittings : SittingSound(s)
      /\ \A d \in Tabs : RequestSound(d)
  BY DEF PlacementInv
<1>2. \A s \in Sittings : SittingSound(s)' /\ Grows(s)
  BY <1>1, UntouchedSitting DEF Sittings
<1>3. RowsTyped'
  BY <1>1 DEF RowsTyped
<1>4. \A d \in Tabs : RequestSound(d)'
  <2> SUFFICES ASSUME NEW d \in Tabs, tab'[d] = tab[d] PROVE RequestSound(d)'
    OBVIOUS
  <2> QED
    BY <1>1, <1>2, WaitingRequest
<1>5. OneCompleted'
  BY <1>1 DEF OneCompleted, Sittings
<1>6. \A s \in Sittings' : SittingSound(s)'
  BY <1>2 DEF Sittings
<1> QED
  BY <1>3, <1>4, <1>5, <1>6 DEF PlacementInv

-------------------------------------------------------------------------------
(* The course beside the test.  A result of a level of the course brings    *)
(* the learner to it, and a recomputation without a result is one of level  *)
(* zero.                                                                    *)
LEMMA ResultReaches ==
  ASSUME CurriculumAssumption, CourseInv, LevelsReached, Enrolled, InitialLevel = 0,
         NEW level \in 0..LevelOf[Len(LevelOf)], Recompute(Below(level)),
         UNCHANGED <<credit, underway>>
  PROVE  /\ LevelsReached'
         /\ place'.level \in Nat /\ place'.level >= level /\ place'.level >= place.level
<1> DEFINE last == Len(LevelOf)
<1>1. /\ last \in Recortes /\ \A r \in Recortes : LevelOf[r] \in Nat
      /\ LevelOf[last] \in Nat /\ level \in Nat /\ level <= LevelOf[last]
  BY RecortesTyped
<1>2. /\ place \in [at : 0..Beyond, level : Nat] /\ menu # {} /\ menu \subseteq Modalities
  BY DEF CourseInv, CurriculumTypeOK
<1>3. /\ place' \in [at : 0..Beyond, level : Nat] /\ place'.level >= place.level
  BY RecomputeForward DEF Below
<1>4. \A r \in Earned : LevelOf[r] <= place.level
  <2> SUFFICES ASSUME NEW r \in Earned PROVE LevelOf[r] <= place.level
    OBVIOUS
  <2>1. PICK m \in menu : m \in CreditedAt(r)
    BY <1>2 DEF Earned
  <2>2. r \in Recortes /\ m \in Modalities /\ <<r, m>> \in credit
    BY <2>1 DEF Earned, CreditedAt
  <2> QED
    BY <2>2 DEF LevelsReached
<1>5. passed' = passed \cup Below(level) \cup Earned
  BY DEF Recompute
<1>6. place'.level >= level
  <2>1. CASE \E r \in Recortes : FirstOpen(r) /\ place' = PlaceAt(r)
    <3>1. PICK r \in Recortes : FirstOpen(r) /\ place' = PlaceAt(r)
      BY <2>1
    <3>2. r \notin Below(level) /\ place'.level = LevelOf[r]
      BY <1>5, <3>1 DEF FirstOpen, PlaceAt
    <3> QED
      BY <1>1, <3>2 DEF Below
  <2>2. CASE Recortes \subseteq passed' /\ place' = [place EXCEPT !.at = Beyond]
    <3>1. last \in passed \cup Below(level) \cup Earned
      BY <1>1, <1>5, <2>2
    <3>2. last \notin Below(level)
      BY <1>1 DEF Below
    <3>3. LevelOf[last] <= place.level
      BY <1>1, <1>4, <3>1, <3>2 DEF LevelsReached
    <3>4. place'.level = place.level
      BY <1>2, <2>2
    <3> QED
      BY <1>1, <1>2, <3>3, <3>4
  <2> QED
    BY <2>1, <2>2 DEF Recompute, Repoint
<1>7. LevelsReached'
  <2> SUFFICES ASSUME NEW r \in Recortes,
                      r \in passed' \/ (\E m \in Modalities : <<r, m>> \in credit \cup underway)
               PROVE  LevelOf[r] <= place'.level
    BY DEF LevelsReached
  <2>1. CASE r \in Below(level)
    BY <1>1, <1>3, <1>6, <2>1 DEF Below
  <2>2. CASE r \notin Below(level)
    <3>1. LevelOf[r] <= place.level
      BY <1>4, <1>5, <2>2 DEF LevelsReached
    <3> QED
      BY <1>1, <1>2, <1>3, <3>1
  <2> QED
    BY <2>1, <2>2
<1> QED
  BY <1>3, <1>6, <1>7

(* Nothing the learner studies lies above the official level.               *)
LEMMA StudyingReaches ==
  ASSUME CurriculumAssumption, CourseInv, LevelsReached, InitialLevel = 0, CurriculumNext
  PROVE  /\ LevelsReached'
         /\ place.level \in Nat /\ place'.level \in Nat /\ place'.level >= place.level
<1>1. place.level \in Nat
  BY DEF CourseInv, CurriculumTypeOK
<1>2. CASE Resync
  <2>1. Below(0) = {}
    BY RecortesTyped DEF Below
  <2>2. Recompute(Below(0))
    BY <1>2, <2>1 DEF Resync, Recompute
  <2>3. Enrolled /\ UNCHANGED <<credit, underway>>
    BY <1>2 DEF Resync, CourseInv
  <2>4. 0 \in 0..LevelOf[Len(LevelOf)]
    BY RecortesTyped
  <2> QED
    BY <1>1, <2>2, <2>3, <2>4, ResultReaches
<1>3. CASE InsertPlace
  <2>1. CASE Enrolled
    BY <1>1, <1>3, <2>1 DEF InsertPlace, LevelsReached
  <2>2. CASE ~Enrolled
    <3>1. PICK r \in Recortes : place' = PlaceAt(r)
      BY <1>3, <2>2 DEF InsertPlace
    <3>2. place'.level \in Nat /\ place.level = 0
      BY <2>2, <3>1, RecortesTyped DEF PlaceAt, Enrolled, NoPlace
    <3>3. UNCHANGED <<passed, credit, underway>>
      BY <1>3 DEF InsertPlace
    <3>4. LevelsReached'
      BY <3>2, <3>3, RecortesTyped DEF LevelsReached
    <3> QED
      BY <1>1, <3>2, <3>4
  <2> QED
    BY <2>1, <2>2
<1>4. ASSUME NEW m \in Modalities, CreateActivity(m)
      PROVE  LevelsReached' /\ place' = place
  <2>1. /\ Enrolled /\ underway' = underway \cup {<<Target, m>>}
        /\ UNCHANGED <<passed, credit, place>>
    BY <1>4 DEF CreateActivity
  <2>2. place.at \in 0..Beyond /\ place.at # 0
    BY <2>1 DEF CourseInv, CurriculumTypeOK
  <2>3. LevelOf[Target] <= place.level
    <3>1. CASE place.at = Beyond
      <4>1. Len(LevelOf) \in Recortes /\ Len(LevelOf) < Beyond
        BY RecortesTyped DEF Beyond
      <4>2. Len(LevelOf) \in passed
        BY <2>1, <3>1, <4>1 DEF CourseInv, PointerIsFirstOpen
      <4> QED
        BY <3>1, <4>1, <4>2 DEF LevelsReached, Target
    <3>2. CASE place.at # Beyond
      <4>1. place.at \in Recortes
        BY <2>2, <3>2, RecortesTyped DEF Beyond
      <4>2. place.level = LevelOf[place.at]
        BY <2>1, <4>1 DEF CourseInv, PointerIsFirstOpen
      <4> QED
        BY <1>1, <3>2, <4>2 DEF Target
    <3> QED
      BY <3>1, <3>2
  <2> QED
    BY <2>1, <2>3 DEF LevelsReached
<1>5. ASSUME NEW a \in underway, RecordPractice(a)
      PROVE  LevelsReached' /\ place' = place
  BY <1>5 DEF RecordPractice, LevelsReached
<1>6. CASE FindsNoPlace \/ ChoosingMenu \/ LoseResync
  <2>1. UNCHANGED <<passed, credit, underway, place>>
    BY <1>6 DEF FindsNoPlace, ChoosingMenu, DraftMenu, SaveMenu, LoseResync
  <2> QED
    BY <1>1, <2>1 DEF LevelsReached
<1>7. CASE Studying
  BY <1>1, <1>4, <1>5, <1>7 DEF Studying
<1> QED
  BY <1>2, <1>3, <1>6, <1>7 DEF CurriculumNext, Enrolling

(* What the lemmas of the requests assume of the state.                     *)
PlacementGround == /\ CurriculumAssumption /\ PlacementAssumption
                   /\ ResultsAreLevels /\ InitialLevel = 0
                   /\ CourseInv /\ PlacementInv

(* And of the step: a request works on its sitting alone.                   *)
CourseWaits == UNCHANGED curriculumVars /\ intrusions' \in 0..MaxIntrusions

(* The studies go on beside the test.                                       *)
LEMMA StudyingKeepsPlacement ==
  ASSUME PlacementGround, CurriculumNext, UNCHANGED placementVars
  PROVE  PlacementInv'
<1>1. /\ LevelsReached'
      /\ place.level \in Nat /\ place'.level \in Nat /\ place'.level >= place.level
  BY StudyingReaches DEF PlacementGround, PlacementInv
<1>2. UNCHANGED <<sitting, tab, setbacks, intrusions>>
  BY DEF placementVars
<1>3. /\ tab' \in [Tabs -> TabRows] /\ \A d \in Tabs : tab'[d] = tab[d]
      /\ setbacks' \in 0..MaxSetbacks /\ intrusions' \in 0..MaxIntrusions
  BY <1>2 DEF PlacementGround, PlacementInv, RowsTyped
<1> QED
  BY <1>1, <1>2, <1>3, SittingsRest DEF PlacementGround

(* A result is applied: the learner reaches its level.                      *)
LEMMA ApplyKeeps ==
  ASSUME PlacementGround, Enrolled, NEW c \in Tabs, ApplyResult(c)
  PROVE  PlacementInv'
<1> DEFINE stage == IF TabAt(c, "apply") THEN "complete" ELSE "leave"
<1>1. /\ CurriculumAssumption /\ PlacementAssumption /\ ResultsAreLevels /\ InitialLevel = 0
      /\ CourseInv /\ RowsTyped /\ LevelsReached /\ RequestSound(c)
  BY DEF PlacementGround, PlacementInv
<1>2. tab[c] \in TabRows /\ tab[c].at \in {"apply", "lend"}
  BY <1>1 DEF ApplyResult, RowsTyped
<1>3. tab[c].level \in 0..LevelOf[Len(LevelOf)]
  <2>1. CASE tab[c].at = "apply"
    BY <1>1, <2>1, DueIsALevel DEF RequestSound
  <2>2. CASE tab[c].at = "lend"
    <3>1. tab[c].level = TemporaryLevel /\ TemporaryLevel <= LevelOf[Len(LevelOf)]
      BY <1>1, <2>2 DEF RequestSound, ResultsAreLevels
    <3> QED
      BY <1>1, <3>1, RecortesTyped DEF PlacementAssumption
  <2> QED
    BY <1>2, <2>1, <2>2
<1>4. /\ Recompute(Below(tab[c].level)) /\ Move(c, stage)
      /\ UNCHANGED <<sitting, setbacks, intrusions, credit, underway>>
  BY DEF ApplyResult
<1>5. /\ LevelsReached' /\ place'.level \in Nat /\ place'.level >= place.level
      /\ place'.level >= tab[c].level
  BY <1>1, <1>3, <1>4, ResultReaches
<1>6. stage \in TabStages
  BY DEF TabStages
<1>7. /\ Alone(c)
      /\ tab'[c].at = stage
      /\ tab'[c].sitting = tab[c].sitting
      /\ tab'[c].checkpoint = tab[c].checkpoint /\ tab'[c].level = tab[c].level
  BY <1>1, <1>4, <1>6, Moved
<1>8. RequestSound(c)'
  <2>1. /\ tab[c].sitting \in Sittings /\ sitting[tab[c].sitting].checkpoint # Nowhere
        /\ tab[c].checkpoint \in Reached(sitting[tab[c].sitting].answers)
        /\ tab[c].at = "lend" => /\ Gate \in Reached(sitting[tab[c].sitting].answers)
                                 /\ sitting[tab[c].sitting].texts = C2Steps
        /\ tab[c].at = "apply" => DueLevel(tab[c].sitting, tab[c].level)
    BY <1>1, <1>2 DEF RequestSound, Looking
  <2>2. tab[c].at = "apply" => DueLevel(tab[c].sitting, tab[c].level)'
    BY <2>1, <1>4, <1>7 DEF DueLevel, DueToTexts, DueToAnswers, VerdictLevel
  <2>5. /\ tab[c].checkpoint = Gate => AtGate(tab[c].sitting)
        /\ tab[c].at = "lend" => \/ tab[c].checkpoint = Gate
                                 \/ sitting[tab[c].sitting].setBack
    BY <1>1, <1>2 DEF RequestSound, Looking
  <2>3. CASE tab[c].at = "apply"
    BY <1>4, <1>5, <1>7, <2>1, <2>2, <2>3, <2>5 DEF RequestSound, TabAt, Sittings, AtGate
  <2>4. CASE tab[c].at = "lend"
    BY <1>4, <1>7, <2>1, <2>4, <2>5 DEF RequestSound, TabAt, Sittings, AtGate
  <2> QED
    BY <1>2, <2>3, <2>4
<1>9. /\ place.level \in Nat /\ setbacks' \in 0..MaxSetbacks /\ intrusions' \in 0..MaxIntrusions
      /\ tab'[c].sitting <= Len(sitting)
  BY <1>1, <1>4, <1>7 DEF CourseInv, CurriculumTypeOK, RowsTyped
<1> QED
  BY <1>1, <1>4, <1>5, <1>7, <1>8, <1>9, SittingsRest DEF PlacementGround, Alone

-------------------------------------------------------------------------------
(* The requests.  A step of one request that writes no sitting.             *)
LEMMA RequestMoves ==
  ASSUME PlacementGround, CourseWaits, UNCHANGED sitting, setbacks' \in 0..MaxSetbacks,
         NEW c \in Tabs, Alone(c), RequestSound(c)', tab'[c].sitting <= Len(sitting)
  PROVE  PlacementInv'
<1>1. place' = place /\ place.level \in Nat /\ LevelsReached'
  BY DEF PlacementGround, PlacementInv, CourseInv, CurriculumTypeOK, CourseWaits,
         curriculumVars, LevelsReached
<1>2. place'.level \in Nat /\ place'.level >= place.level
  BY <1>1
<1>3. /\ tab' \in [Tabs -> TabRows]
      /\ \A d \in Tabs : tab'[d] = tab[d] \/ (RequestSound(d)' /\ tab'[d].sitting <= Len(sitting))
  BY DEF Alone
<1> QED
  BY <1>1, <1>2, <1>3, SittingsRest DEF PlacementGround, CourseWaits

(* A request that has read no sitting yet, or is over.                      *)
LEMMA RequestLooks ==
  ASSUME PlacementGround, CourseWaits, UNCHANGED sitting, setbacks' \in 0..MaxSetbacks,
         NEW c \in Tabs, Alone(c), tab'[c].at \in Looking,
         tab'[c].sitting \in {0, tab[c].sitting}
  PROVE  PlacementInv'
<1>1. RequestSound(c)'
  BY DEF RequestSound, Looking
<1>2. tab'[c].sitting <= Len(sitting)
  BY DEF PlacementGround, PlacementInv, RowsTyped
<1> QED
  BY <1>1, <1>2, RequestMoves

(* A request that ends and writes no sitting.                               *)
LEMMA RequestEnds ==
  ASSUME PlacementGround, CourseWaits, UNCHANGED sitting, setbacks' \in 0..MaxSetbacks,
         NEW c \in Tabs, Close(c)
  PROVE  PlacementInv'
<1>1. Alone(c) /\ tab'[c].at \in Looking /\ tab'[c].sitting = 0
  BY Closed DEF PlacementGround, PlacementInv, Looking
<1> QED
  BY <1>1, RequestLooks

(* A request that begins, or starts over.                                   *)
LEMMA RequestRestarts ==
  ASSUME PlacementGround, CourseWaits, UNCHANGED <<sitting, setbacks>>,
         NEW c \in Tabs, NEW kind \in {"state", "start", "skip"}, Restart(c, kind)
  PROVE  PlacementInv'
<1>1. kind \in TabKinds /\ setbacks' \in 0..MaxSetbacks
  BY DEF PlacementGround, PlacementInv, RowsTyped, TabKinds
<1>2. Alone(c) /\ tab'[c].at \in Looking /\ tab'[c].sitting = 0
  BY <1>1, Restarted DEF PlacementGround, PlacementInv, Looking
<1> QED
  BY <1>1, <1>2, RequestLooks

(* A request that goes on with a sitting that stands somewhere.             *)
LEMMA RequestReads ==
  ASSUME PlacementGround, CourseWaits, UNCHANGED <<sitting, setbacks>>,
         NEW c \in Tabs, NEW s \in Sittings, sitting[s].checkpoint # Nowhere,
         NEW stage \in {"skip", "abandon", "answer", "advance", "text", "evaluate"},
         stage \in {"text", "evaluate"} => Gate \in Reached(sitting[s].answers),
         stage = "evaluate" => sitting[s].texts = C2Steps /\ AtGate(s),
         stage = "text" => sitting[s].checkpoint = Gate,
         Alone(c), tab'[c].at = stage, tab'[c].sitting = s,
         tab'[c].checkpoint = sitting[s].checkpoint
  PROVE  PlacementInv'
<1>1. s \in Sittings' /\ s <= Len(sitting) /\ setbacks' \in 0..MaxSetbacks
  BY DEF PlacementGround, PlacementInv, RowsTyped, Sittings
<1>2. sitting[s].checkpoint \in Reached(sitting[s].answers)
  BY DEF PlacementGround, PlacementInv, SittingSound
<1>3. RequestSound(c)'
  BY <1>1, <1>2 DEF RequestSound, AtGate
<1> QED
  BY <1>1, <1>3, RequestMoves

(* An open sitting stands at a checkpoint.                                  *)
LEMMA OpenStands ==
  ASSUME PlacementGround, NEW s \in Those(OpenStatuses)
  PROVE  /\ s \in Sittings /\ sitting[s].checkpoint # Nowhere
         /\ sitting[s].checkpoint \in Reached(sitting[s].answers)
         /\ sitting[s].status = "pending_evaluation" =>
              /\ Gate \in Reached(sitting[s].answers) /\ sitting[s].texts = C2Steps
              /\ AtGate(s)
BY DEF PlacementGround, PlacementInv, SittingSound, Those, OpenStatuses

(* The two reads of state, start and skip.                                  *)
LEMMA LooksKeep ==
  ASSUME PlacementGround, CourseWaits, NEW c \in Tabs, LookCompleted(c) \/ LookOpen(c)
  PROVE  PlacementInv'
<1>1. RowsTyped /\ UNCHANGED <<sitting, setbacks>> /\ setbacks' \in 0..MaxSetbacks
  BY DEF PlacementGround, PlacementInv, RowsTyped, LookCompleted, LookOpen
<1>2. CASE Close(c)
  BY <1>1, <1>2, RequestEnds
<1>3. CASE Move(c, "open") \/ Move(c, "insert")
  <2>1. Alone(c) /\ tab'[c].at \in Looking /\ tab'[c].sitting = tab[c].sitting
    BY <1>1, <1>3, Moved DEF TabStages, Looking
  <2> QED
    BY <1>1, <2>1, RequestLooks
<1>4. ASSUME NEW s \in Those(OpenStatuses), FindsOpen(c, s), ~Close(c)
      PROVE  PlacementInv'
  <2>1. s \in Sittings /\ sitting[s].checkpoint # Nowhere
    BY <1>4, OpenStands
  <2>2. PICK stage \in {"skip", "abandon", "advance"} : MoveWith(c, stage, s)
    BY <1>4 DEF FindsOpen
  <2>3. stage \in TabStages
    BY <2>2 DEF TabStages
  <2>4. /\ Alone(c) /\ tab'[c].at = stage /\ tab'[c].sitting = s
        /\ tab'[c].checkpoint = sitting[s].checkpoint
    BY <1>1, <2>1, <2>2, <2>3, MovedWith
  <2> QED
    BY <1>1, <2>1, <2>2, <2>4, RequestReads
<1> QED
  BY <1>2, <1>3, <1>4 DEF LookCompleted, LookOpen, NoneOpen

(* The requests of the learner and of the other tabs.                       *)
LEMMA ReadForAnswerKeeps ==
  ASSUME PlacementGround, CourseWaits, NEW c \in Tabs, NEW s \in Sittings, ReadForAnswer(c, s)
  PROVE  PlacementInv'
<1>1. RowsTyped /\ UNCHANGED <<sitting, setbacks>>
  BY DEF PlacementGround, PlacementInv, ReadForAnswer
<1>2. CASE sitting[s].status # "in_progress"
  BY <1>1, <1>2, RequestRestarts DEF ReadForAnswer
<1>3. CASE sitting[s].status = "in_progress"
  <2> DEFINE stage == IF sitting[s].expired THEN "abandon" ELSE "answer"
             r == [IdleTab EXCEPT !.at = stage, !.kind = "answer", !.sitting = s,
                                  !.status = "in_progress",
                                  !.checkpoint = sitting[s].checkpoint]
  <2>1. s \in Those(OpenStatuses)
    BY <1>3 DEF Those, OpenStatuses
  <2>2. s \in Nat /\ sitting[s] \in SittingRows
    BY <1>1 DEF RowsTyped, Sittings
  <2>3. stage \in {"abandon", "answer"} /\ stage \in TabStages
    BY DEF TabStages
  <2> HIDE DEF stage
  <2>4. r \in TabRows /\ r.at = stage /\ r.sitting = s /\ r.checkpoint = sitting[s].checkpoint
    BY <2>2, <2>3, IdleTyped DEF TabRows, SittingRows, TabKinds, SittingStatuses
  <2>5. tab' = [tab EXCEPT ![c] = r]
    BY <1>3 DEF ReadForAnswer, stage
  <2> HIDE DEF r
  <2>6. Alone(c) /\ tab'[c] = r
    BY <1>1, <2>4, <2>5 DEF Alone, RowsTyped
  <2> QED
    BY <1>1, <2>1, <2>3, <2>4, <2>6, OpenStands, RequestReads
<1> QED
  BY <1>2, <1>3

(* A text is sent: to a sitting at its gate, or one that is only advanced.  *)
LEMMA ReadForTextKeeps ==
  ASSUME PlacementGround, CourseWaits, NEW c \in Tabs, NEW s \in Sittings, ReadForText(c, s)
  PROVE  PlacementInv'
<1>1. RowsTyped /\ UNCHANGED <<sitting, setbacks>>
  BY DEF PlacementGround, PlacementInv, ReadForText
<1>2. CASE Restart(c, "state")
  BY <1>1, <1>2, RequestRestarts
<1>3. ASSUME NEW stage \in {"text", "advance"}, sitting[s].status \in OpenStatuses,
             MoveWith(c, stage, s), stage = "text" => sitting[s].checkpoint = Gate
      PROVE  PlacementInv'
  <2>1. s \in Those(OpenStatuses)
    BY <1>3 DEF Those
  <2>2. /\ sitting[s].checkpoint # Nowhere
        /\ stage = "text" => Gate \in Reached(sitting[s].answers)
    BY <1>3, <2>1, OpenStands
  <2>3. stage \in TabStages
    BY DEF TabStages
  <2>4. /\ Alone(c) /\ tab'[c].at = stage /\ tab'[c].sitting = s
        /\ tab'[c].checkpoint = sitting[s].checkpoint
    BY <1>1, <1>3, <2>3, MovedWith
  <2>5. stage # "evaluate"
    OBVIOUS
  <2> QED
    BY <1>1, <1>3, <2>2, <2>4, <2>5, RequestReads
<1> QED
  BY <1>2, <1>3 DEF ReadForText

(* An evaluation is asked for.                                              *)
LEMMA AskEvaluationKeeps ==
  ASSUME PlacementGround, CourseWaits, NEW c \in Tabs, AskEvaluation(c)
  PROVE  PlacementInv'
<1>1. RowsTyped /\ UNCHANGED <<sitting, setbacks>>
  BY DEF PlacementGround, PlacementInv, AskEvaluation
<1>2. CASE Restart(c, "state")
  BY <1>1, <1>2, RequestRestarts
<1>3. ASSUME NEW s \in Those({"pending_evaluation"}), MoveWith(c, "evaluate", s)
      PROVE  PlacementInv'
  <2>1. s \in Those(OpenStatuses) /\ sitting[s].status = "pending_evaluation"
    BY DEF Those, OpenStatuses
  <2>2. /\ s \in Sittings /\ sitting[s].checkpoint # Nowhere
        /\ Gate \in Reached(sitting[s].answers) /\ sitting[s].texts = C2Steps
        /\ AtGate(s)
    BY <2>1, OpenStands
  <2>3. /\ Alone(c) /\ tab'[c].at = "evaluate" /\ tab'[c].sitting = s
        /\ tab'[c].checkpoint = sitting[s].checkpoint
    BY <1>1, <1>3, <2>2, MovedWith DEF TabStages
  <2> QED
    BY <1>1, <2>2, <2>3, RequestReads
<1> QED
  BY <1>2, <1>3 DEF AskEvaluation

(* What the sound request and its sitting tell each other.                  *)
LEMMA RequestStands ==
  ASSUME PlacementGround, NEW c \in Tabs, tab[c].at \notin Looking
  PROVE  /\ tab[c] \in TabRows /\ tab[c].sitting \in Sittings
         /\ sitting[tab[c].sitting] \in SittingRows
         /\ SittingSound(tab[c].sitting) /\ SoundAnswers(sitting[tab[c].sitting].answers)
         /\ sitting[tab[c].sitting].checkpoint # Nowhere
         /\ tab[c].checkpoint \in Reached(sitting[tab[c].sitting].answers)
         /\ tab[c].checkpoint = Gate => AtGate(tab[c].sitting)
BY DEF PlacementGround, PlacementInv, RowsTyped, RequestSound, SittingSound, Sittings

(* The answers are read before one is recorded.                             *)
LEMMA CheckAnswerKeeps ==
  ASSUME PlacementGround, CourseWaits, NEW c \in Tabs, CheckAnswer(c)
  PROVE  PlacementInv'
<1> DEFINE s == tab[c].sitting
<1>1. /\ RowsTyped /\ UNCHANGED <<sitting, setbacks>> /\ tab[c].at = "answer"
      /\ setbacks' \in 0..MaxSetbacks
  BY DEF PlacementGround, PlacementInv, RowsTyped, CheckAnswer, TabAt
<1>2. /\ tab[c] \in TabRows /\ s \in Sittings /\ sitting[s] \in SittingRows
      /\ sitting[s].checkpoint # Nowhere /\ tab[c].checkpoint \in Reached(sitting[s].answers)
      /\ tab[c].checkpoint = Gate => AtGate(s)
  BY <1>1, RequestStands DEF Looking
<1>3. s \in Sittings' /\ s <= Len(sitting)
  BY <1>1, <1>2 DEF RowsTyped, Sittings
<1>4. CASE Move(c, "advance")
  <2>1. /\ Alone(c) /\ tab'[c].at = "advance" /\ tab'[c].sitting = s
        /\ tab'[c].checkpoint = tab[c].checkpoint
    BY <1>1, <1>4, Moved DEF TabStages
  <2>2. RequestSound(c)'
    BY <1>1, <1>2, <1>3, <2>1 DEF RequestSound, AtGate
  <2> QED
    BY <1>1, <1>3, <2>1, <2>2, RequestMoves
<1>5. CASE /\ tab[c].checkpoint # Gate
           /\ tab' = [tab EXCEPT ![c] = [@ EXCEPT !.at = "record", !.seen = sitting[s].answers]]
  <2> DEFINE r == [tab[c] EXCEPT !.at = "record", !.seen = sitting[s].answers]
  <2>1. /\ r \in TabRows /\ r.at = "record" /\ r.sitting = s
        /\ r.checkpoint = tab[c].checkpoint /\ r.seen = sitting[s].answers
    BY <1>2 DEF TabRows, SittingRows, TabStages
  <2>2. tab' = [tab EXCEPT ![c] = r]
    BY <1>5
  <2> HIDE DEF r
  <2>3. Alone(c) /\ tab'[c] = r
    BY <1>1, <2>1, <2>2 DEF Alone, RowsTyped
  <2>4. RequestSound(c)'
    BY <1>1, <1>2, <1>3, <1>5, <2>1, <2>3 DEF RequestSound, AtGate
  <2> QED
    BY <1>1, <1>3, <2>1, <2>3, <2>4, RequestMoves
<1> QED
  BY <1>4, <1>5 DEF CheckAnswer

(* The answers are read before the walk.                                    *)
LEMMA LoadAnswersKeeps ==
  ASSUME PlacementGround, CourseWaits, NEW c \in Tabs, LoadAnswers(c)
  PROVE  PlacementInv'
<1> DEFINE s == tab[c].sitting
           r == [tab[c] EXCEPT !.at = "walk", !.seen = sitting[s].answers]
<1>1. /\ RowsTyped /\ UNCHANGED <<sitting, setbacks>> /\ tab[c].at = "advance"
      /\ setbacks' \in 0..MaxSetbacks
  BY DEF PlacementGround, PlacementInv, RowsTyped, LoadAnswers, TabAt
<1>2. /\ tab[c] \in TabRows /\ s \in Sittings /\ sitting[s] \in SittingRows
      /\ sitting[s].checkpoint # Nowhere /\ tab[c].checkpoint \in Reached(sitting[s].answers)
      /\ tab[c].checkpoint = Gate => AtGate(s)
  BY <1>1, RequestStands DEF Looking
<1>3. s \in Sittings' /\ s <= Len(sitting)
  BY <1>1, <1>2 DEF RowsTyped, Sittings
<1>4. /\ r \in TabRows /\ r.at = "walk" /\ r.sitting = s
      /\ r.checkpoint = tab[c].checkpoint /\ r.seen = sitting[s].answers
  BY <1>2 DEF TabRows, SittingRows, TabStages
<1>5. tab' = [tab EXCEPT ![c] = r]
  BY DEF LoadAnswers
<1> HIDE DEF r
<1>6. Alone(c) /\ tab'[c] = r
  BY <1>1, <1>4, <1>5 DEF Alone, RowsTyped
<1>7. RequestSound(c)'
  BY <1>1, <1>2, <1>3, <1>4, <1>6 DEF RequestSound, AtGate
<1> QED
  BY <1>1, <1>3, <1>4, <1>6, <1>7, RequestMoves

(* The texts are looked at after one is stored.                             *)
LEMMA LookAtTextsKeeps ==
  ASSUME PlacementGround, CourseWaits, NEW c \in Tabs, LookAtTexts(c)
  PROVE  PlacementInv'
<1> DEFINE s == tab[c].sitting
           stage == IF sitting[s].texts = C2Steps THEN "evaluate" ELSE "advance"
<1>1. /\ RowsTyped /\ UNCHANGED <<sitting, setbacks>> /\ tab[c].at = "texts"
      /\ setbacks' \in 0..MaxSetbacks /\ RequestSound(c) /\ Move(c, stage)
  BY DEF PlacementGround, PlacementInv, RowsTyped, LookAtTexts, TabAt
<1>2. /\ s \in Sittings /\ sitting[s].checkpoint # Nowhere
      /\ tab[c].checkpoint \in Reached(sitting[s].answers)
      /\ Gate \in Reached(sitting[s].answers) /\ tab[c].checkpoint = Gate /\ AtGate(s)
  BY <1>1, RequestStands DEF Looking, RequestSound
<1>3. s \in Sittings' /\ s <= Len(sitting)
  BY <1>1, <1>2 DEF RowsTyped, Sittings
<1>4. /\ Alone(c) /\ tab'[c].at = stage /\ tab'[c].sitting = s
      /\ tab'[c].checkpoint = tab[c].checkpoint
  BY <1>1, Moved DEF TabStages
<1>5. RequestSound(c)'
  BY <1>1, <1>2, <1>3, <1>4 DEF RequestSound, AtGate
<1> QED
  BY <1>1, <1>3, <1>4, <1>5, RequestMoves

(* The walk ends with a result: it is due by the answers seen, and so by    *)
(* those of the sitting.                                                    *)
LEMMA WalkResult ==
  ASSUME PlacementGround, NEW c \in Tabs, tab[c].at = "walk", tab[c].checkpoint # Gate,
         Resolved(tab[c].checkpoint, tab[c].seen)
  PROVE  LET s == tab[c].sitting
             route == Route(tab[c].checkpoint, tab[c].seen) IN
         /\ route \in Routes
         /\ route.checkpoint = Nowhere => DueLevel(s, route.level)
         /\ route.checkpoint # Nowhere => route.checkpoint \in Reached(sitting[s].answers)
<1> DEFINE s == tab[c].sitting
           cp == tab[c].checkpoint
           route == Route(tab[c].checkpoint, tab[c].seen)
<1>1. /\ s \in Sittings /\ SoundAnswers(sitting[s].answers)
      /\ cp \in Reached(sitting[s].answers) /\ tab[c].seen \subseteq sitting[s].answers
  <2>1. RequestSound(c)
    BY DEF PlacementGround, PlacementInv
  <2> QED
    BY <2>1, RequestStands DEF Looking, RequestSound
<1>2. PlacementAssumption /\ ResultsAreLevels /\ cp \in Checkpoints
  BY <1>1, ReachedCheckpoints DEF PlacementGround
<1>3. Resolved(cp, sitting[s].answers) /\ Route(cp, sitting[s].answers) = route
  BY <1>1, <1>2, ResolvedStays
<1>4. route \in {OnPass[cp], OnFail[cp]} /\ route \in Routes
  BY <1>2 DEF Route, PlacementAssumption
<1>5. ASSUME route.checkpoint = Nowhere
      PROVE  DueLevel(s, route.level)
  <2>1. route = [checkpoint |-> Nowhere, level |-> route.level]
    BY <1>4, <1>5 DEF Routes
  <2>2. route.level # 0
    <3>1. route.level \in 1..LevelOf[Len(LevelOf)]
      BY <1>2, <1>4, <1>5 DEF ResultsAreLevels
    <3>2. LevelOf[Len(LevelOf)] \in Nat
      BY RecortesTyped DEF PlacementGround
    <3> QED
      BY <3>1, <3>2
  <2>3. DueToAnswers(sitting[s].answers, route.level)
    BY <1>1, <1>3, <2>1 DEF DueToAnswers
  <2> QED
    BY <2>2, <2>3 DEF DueLevel
<1>6. ASSUME route.checkpoint # Nowhere
      PROVE  route.checkpoint \in Reached(sitting[s].answers)
  BY <1>1, <1>2, <1>3, <1>6, ReachedNext
<1> QED
  BY <1>4, <1>5, <1>6

(* A request that writes one sitting's row.                                 *)
LEMMA RequestWrites ==
  ASSUME PlacementGround, CourseWaits, setbacks' \in 0..MaxSetbacks,
         NEW s \in Sittings, NEW row \in SittingRows, sitting' = [sitting EXCEPT ![s] = row],
         SittingSound(s)', Grows(s), OneCompleted',
         NEW c \in Tabs, Alone(c), RequestSound(c)', tab'[c].sitting <= Len(sitting)
  PROVE  PlacementInv'
<1>1. /\ tab' \in [Tabs -> TabRows]
      /\ \A d \in Tabs : tab'[d] = tab[d] \/ (RequestSound(d)' /\ tab'[d].sitting <= Len(sitting))
  BY DEF Alone
<1> QED
  BY <1>1, SittingWritten DEF PlacementGround, CourseWaits

(* What is written in place of a row.                                       *)
LEMMA RowWritten ==
  ASSUME RowsTyped, NEW s \in Sittings, NEW row, sitting' = [sitting EXCEPT ![s] = row]
  PROVE  /\ Len(sitting') = Len(sitting) /\ Sittings' = Sittings /\ s <= Len(sitting)
         /\ sitting'[s] = row
         /\ \A t \in Sittings : t # s => sitting'[t] = sitting[t]
BY DEF RowsTyped, Sittings

(* A sitting changes its status alone, and is not completed by that.        *)
LEMMA Relabelled ==
  ASSUME PlacementGround, UNCHANGED place, NEW s \in Sittings, sitting[s].checkpoint # Nowhere,
         NEW status \in SittingStatuses \ {"completed"},
         sitting' = [sitting EXCEPT ![s].status = status],
         status = "pending_evaluation" =>
           Gate \in Reached(sitting[s].answers) /\ sitting[s].texts = C2Steps /\ AtGate(s)
  PROVE  /\ \E row \in SittingRows : sitting' = [sitting EXCEPT ![s] = row]
         /\ Grows(s) /\ SittingSound(s)' /\ OneCompleted'
<1> DEFINE row == [sitting[s] EXCEPT !.status = status]
<1>1. RowsTyped /\ SittingSound(s) /\ OneCompleted /\ sitting[s] \in SittingRows
  BY DEF PlacementGround, PlacementInv, RowsTyped, Sittings
<1>2. /\ row \in SittingRows /\ row.status = status /\ row.answers = sitting[s].answers
      /\ row.texts = sitting[s].texts
      /\ row.verdicts = sitting[s].verdicts /\ row.setBack = sitting[s].setBack
      /\ row.raw = sitting[s].raw /\ row.checkpoint = sitting[s].checkpoint
      /\ row.texts \subseteq C2Steps
  BY <1>1 DEF SittingRows
<1>3. sitting' = [sitting EXCEPT ![s] = row]
  OBVIOUS
<1> HIDE DEF row
<1>4. /\ Sittings' = Sittings /\ sitting'[s] = row
      /\ \A t \in Sittings : t # s => sitting'[t] = sitting[t]
  BY <1>1, <1>3, RowWritten
<1>5. Grows(s)
  BY <1>1, <1>2, <1>4 DEF Grows, SittingSound, AtGate
<1>6. \A n : DueLevel(s, n)' <=> DueLevel(s, n)
  BY <1>2, <1>4 DEF DueLevel, DueToTexts, DueToAnswers, VerdictLevel
<1>7. SittingSound(s)'
  BY <1>1, <1>2, <1>4, <1>6 DEF SittingSound, AtGate
<1>8. OneCompleted'
  BY <1>1, <1>2, <1>4 DEF OneCompleted
<1> QED
  BY <1>2, <1>3, <1>5, <1>7, <1>8

(* The request that relabels its sitting looks on, or is over.              *)
LEMMA RequestRelabels ==
  ASSUME PlacementGround, CourseWaits, setbacks' \in 0..MaxSetbacks,
         NEW s \in Sittings, sitting[s].checkpoint # Nowhere,
         NEW status \in SittingStatuses \ {"completed"},
         sitting' = [sitting EXCEPT ![s].status = status],
         status = "pending_evaluation" =>
           Gate \in Reached(sitting[s].answers) /\ sitting[s].texts = C2Steps /\ AtGate(s),
         NEW c \in Tabs, Alone(c), tab'[c].at \in Looking,
         tab'[c].sitting \in {0, tab[c].sitting}
  PROVE  PlacementInv'
<1>1. UNCHANGED place
  BY DEF CourseWaits, curriculumVars
<1>2. PICK row \in SittingRows : sitting' = [sitting EXCEPT ![s] = row]
  BY <1>1, Relabelled
<1>3. Grows(s) /\ SittingSound(s)' /\ OneCompleted'
  BY <1>1, Relabelled
<1>4. RequestSound(c)'
  BY DEF RequestSound, Looking
<1>5. tab'[c].sitting <= Len(sitting)
  BY DEF PlacementGround, PlacementInv, RowsTyped
<1> QED
  BY <1>2, <1>3, <1>4, <1>5, RequestWrites

(* A sitting is skipped, whatever has become of it since it was read.       *)
LEMMA SkipKeeps ==
  ASSUME PlacementGround, CourseWaits, NEW c \in Tabs, SkipSitting(c)
  PROVE  PlacementInv'
<1>1. RowsTyped /\ setbacks' \in 0..MaxSetbacks /\ tab[c].at = "skip" /\ Close(c)
  BY DEF PlacementGround, PlacementInv, RowsTyped, SkipSitting, TabAt
<1>2. /\ tab[c].sitting \in Sittings /\ sitting[tab[c].sitting].checkpoint # Nowhere
      /\ sitting' = [sitting EXCEPT ![tab[c].sitting].status = "skipped"]
  BY <1>1, RequestStands DEF Looking, SkipSitting
<1>3. Alone(c) /\ tab'[c].at \in Looking /\ tab'[c].sitting = 0
  BY <1>1, Closed DEF Looking
<1>4. "skipped" \in SittingStatuses \ {"completed"}
  BY DEF SittingStatuses
<1> QED
  BY <1>1, <1>2, <1>3, <1>4, RequestRelabels

(* An expired sitting is abandoned, and the request looks on.               *)
LEMMA AbandonKeeps ==
  ASSUME PlacementGround, CourseWaits, NEW c \in Tabs, MarkAbandoned(c)
  PROVE  PlacementInv'
<1>1. RowsTyped /\ setbacks' \in 0..MaxSetbacks /\ tab[c].at = "abandon"
  BY DEF PlacementGround, PlacementInv, RowsTyped, MarkAbandoned, TabAt
<1>2. /\ tab[c].sitting \in Sittings /\ sitting[tab[c].sitting].checkpoint # Nowhere
      /\ sitting' = [sitting EXCEPT ![tab[c].sitting].status = "abandoned"]
  BY <1>1, RequestStands DEF Looking, MarkAbandoned
<1>3. Alone(c) /\ tab'[c].at \in Looking /\ tab'[c].sitting \in {0, tab[c].sitting}
  <2>1. Move(c, "insert") \/ Restart(c, "state") \/ Close(c)
    BY DEF MarkAbandoned
  <2> QED
    BY <1>1, <2>1, Moved, Restarted, Closed DEF Looking, TabStages, TabKinds
<1>4. "abandoned" \in SittingStatuses \ {"completed"}
  BY DEF SittingStatuses
<1> QED
  BY <1>1, <1>2, <1>3, <1>4, RequestRelabels

(* A sitting that stands at its gate with both texts is parked, unless      *)
(* another is open.                                                         *)
LEMMA ParkKeeps ==
  ASSUME PlacementGround, CourseWaits, setbacks' \in 0..MaxSetbacks,
         NEW s \in Sittings, sitting[s].checkpoint # Nowhere,
         Gate \in Reached(sitting[s].answers), sitting[s].texts = C2Steps, AtGate(s),
         Park(s) \/ UNCHANGED sitting, NEW c \in Tabs, Close(c)
  PROVE  PlacementInv'
<1>1. Alone(c) /\ tab'[c].at \in Looking /\ tab'[c].sitting = 0
  BY Closed DEF PlacementGround, PlacementInv, Looking
<1>2. "pending_evaluation" \in SittingStatuses \ {"completed"}
  BY DEF SittingStatuses
<1>3. CASE UNCHANGED sitting
  BY <1>3, RequestEnds
<1>4. CASE sitting' = [sitting EXCEPT ![s].status = "pending_evaluation"]
  BY <1>1, <1>2, <1>4, RequestRelabels
<1> QED
  BY <1>3, <1>4 DEF Park

(* The gate is shown, and a sitting with all its texts parked.              *)
LEMMA ShowGateKeeps ==
  ASSUME PlacementGround, CourseWaits, NEW c \in Tabs, ShowGate(c)
  PROVE  PlacementInv'
<1> DEFINE s == tab[c].sitting
<1>1. /\ RowsTyped /\ setbacks' \in 0..MaxSetbacks /\ tab[c].at = "walk" /\ Close(c)
      /\ tab[c].checkpoint = Gate
  BY DEF PlacementGround, PlacementInv, RowsTyped, ShowGate, TabAt
<1>2. /\ s \in Sittings /\ sitting[s].checkpoint # Nowhere
      /\ Gate \in Reached(sitting[s].answers) /\ sitting[s] \in SittingRows
      /\ AtGate(s)
  BY <1>1, RequestStands DEF Looking
<1>3. CASE UNCHANGED sitting
  BY <1>1, <1>3, RequestEnds
<1>4. CASE C2Steps \subseteq sitting[s].texts /\ Park(s)
  <2>1. sitting[s].texts = C2Steps
    BY <1>2, <1>4 DEF SittingRows
  <2> QED
    BY <1>1, <1>2, <1>4, <2>1, ParkKeeps
<1> QED
  BY <1>3, <1>4 DEF ShowGate

(* A sitting whose evaluation failed is left pending.                       *)
LEMMA LeavePendingKeeps ==
  ASSUME PlacementGround, CourseWaits, NEW c \in Tabs, LeavePending(c)
  PROVE  PlacementInv'
<1> DEFINE s == tab[c].sitting
<1>1. /\ RowsTyped /\ setbacks' \in 0..MaxSetbacks /\ tab[c].at = "leave" /\ Close(c)
      /\ RequestSound(c) /\ (Park(s) \/ UNCHANGED sitting)
  BY DEF PlacementGround, PlacementInv, RowsTyped, LeavePending, TabAt
<1>2. /\ s \in Sittings /\ sitting[s].checkpoint # Nowhere
      /\ Gate \in Reached(sitting[s].answers) /\ sitting[s].texts = C2Steps
      /\ AtGate(s)
  BY <1>1, RequestStands DEF Looking, RequestSound, AtGate
<1> QED
  BY <1>1, <1>2, ParkKeeps

(* A sitting grows, and stands where its answers have led it: it stays      *)
(* sound.                                                                   *)
LEMMA GrownKeeps ==
  ASSUME PlacementGround, UNCHANGED place, NEW s \in Sittings, NEW row \in SittingRows,
         sitting' = [sitting EXCEPT ![s] = row],
         SoundAnswers(row.answers), sitting[s].answers \subseteq row.answers,
         sitting[s].texts \subseteq row.texts,
         sitting[s].verdicts \subseteq row.verdicts, sitting[s].setBack => row.setBack,
         AtGate(s) => row.checkpoint = Gate \/ row.setBack,
         row.status = sitting[s].status, row.raw = sitting[s].raw,
         row.checkpoint # Nowhere, row.checkpoint \in Reached(row.answers)
  PROVE  Grows(s) /\ SittingSound(s)' /\ OneCompleted'
<1>1. PlacementAssumption /\ RowsTyped /\ SittingSound(s) /\ OneCompleted
  BY DEF PlacementGround, PlacementInv
<1>2. /\ Sittings' = Sittings /\ sitting'[s] = row
      /\ \A t \in Sittings : t # s => sitting'[t] = sitting[t]
  BY <1>1, RowWritten
<1>3. row.texts \subseteq C2Steps
  BY DEF SittingRows
<1>4. Grows(s)
  BY <1>2, <1>3 DEF Grows, AtGate
<1>5. /\ Reached(sitting[s].answers) \subseteq Reached(row.answers)
      /\ sitting[s].texts = C2Steps => row.texts = C2Steps
      /\ \A n : DueLevel(s, n) => DueLevel(s, n)'
  BY <1>1, <1>2, <1>4, GrownSitting
<1>6. SittingSound(s)'
  <2>1. row.status = "pending_evaluation" =>
          /\ Gate \in Reached(row.answers) /\ row.texts = C2Steps
          /\ row.checkpoint = Gate \/ row.setBack
    BY <1>1, <1>5 DEF SittingSound
  <2>2. row.raw # 0 => DueLevel(s, row.raw)' /\ place'.level >= row.raw
    BY <1>1, <1>5 DEF SittingSound
  <2>3. row.status = "completed" => row.raw # 0
    BY <1>1 DEF SittingSound
  <2> QED
    BY <1>2, <2>1, <2>2, <2>3 DEF SittingSound, AtGate
<1>7. OneCompleted'
  BY <1>1, <1>2 DEF OneCompleted
<1> QED
  BY <1>4, <1>6, <1>7

(* An answer is to the question that is asked, which the sitting has no     *)
(* answer to.                                                               *)
LEMMA AnswerAdded ==
  ASSUME PlacementAssumption, NEW cp \in Checkpoints, NEW A, SoundAnswers(A), NEW seen,
         NEW n \in Asked(cp, seen), n \notin AnsweredAt(cp, A), NEW right \in BOOLEAN
  PROVE  SoundAnswers(A \cup {<<cp, n, right>>})
<1>1. MainCount[cp] \in Nat /\ TieCount[cp] \in Nat
  BY DEF PlacementAssumption
<1>2. n \in Questions(cp)
  BY DEF Asked, Unasked, Questions
<1>3. n \in Nat
  BY <1>1, <1>2 DEF Questions, Mains, Ties
<1> DEFINE new == <<cp, n, right>>
<1>4. new \in AnswerRows
  BY <1>2, <1>3 DEF AnswerRows
<1>5. new[1] = cp /\ new[2] = n
  OBVIOUS
<1> HIDE DEF new
<1>6. \A a \in A : ~(a[1] = new[1] /\ a[2] = new[2])
  BY <1>5 DEF AnsweredAt
<1>7. SoundAnswers(A \cup {new})
  BY <1>4, <1>6 DEF SoundAnswers
<1> QED
  BY <1>7 DEF new

(* An answer is recorded, unless the question has one.                      *)
LEMMA RecordKeeps ==
  ASSUME PlacementGround, CourseWaits, NEW c \in Tabs, RecordAnswer(c)
  PROVE  PlacementInv'
<1> SUFFICES ASSUME NEW s, s = tab[c].sitting PROVE PlacementInv'
  OBVIOUS
<1> DEFINE cp == tab[c].checkpoint
<1>1. /\ PlacementAssumption /\ RowsTyped /\ setbacks' \in 0..MaxSetbacks
      /\ tab[c].at = "record" /\ Move(c, "advance") /\ UNCHANGED place /\ RequestSound(c)
  BY DEF PlacementGround, PlacementInv, RowsTyped, RecordAnswer, TabAt, CourseWaits, curriculumVars
<1>2. /\ s \in Sittings /\ sitting[s] \in SittingRows /\ SittingSound(s)
      /\ SoundAnswers(sitting[s].answers) /\ sitting[s].checkpoint # Nowhere
      /\ cp \in Reached(sitting[s].answers) /\ cp # Gate
      /\ sitting[s].verdicts \in SUBSET BOOLEAN
  BY <1>1, RequestStands DEF Looking, RequestSound, SittingRows
<1>3. cp \in Checkpoints
  BY <1>1, <1>2, ReachedCheckpoints
<1>4. /\ Alone(c) /\ tab'[c].at = "advance" /\ tab'[c].sitting = s /\ tab'[c].checkpoint = cp
  BY <1>1, Moved DEF TabStages
<1>5. PICK n \in Asked(cp, tab[c].seen), right \in BOOLEAN :
        sitting' = IF n \in AnsweredAt(cp, sitting[s].answers) THEN sitting
                   ELSE [sitting EXCEPT ![s].answers = @ \cup {<<cp, n, right>>}]
  BY DEF RecordAnswer
<1>6. CASE n \in AnsweredAt(cp, sitting[s].answers)
  <2>1. UNCHANGED sitting
    BY <1>5, <1>6
  <2>2. s \in Sittings' /\ s <= Len(sitting)
    BY <1>1, <1>2, <2>1 DEF RowsTyped, Sittings
  <2>3. RequestSound(c)'
    BY <1>2, <1>4, <2>1, <2>2 DEF RequestSound
  <2> QED
    BY <1>1, <1>4, <2>1, <2>2, <2>3, RequestMoves
<1>7. CASE n \notin AnsweredAt(cp, sitting[s].answers)
  <2> DEFINE more == sitting[s].answers \cup {<<cp, n, right>>}
             row == [sitting[s] EXCEPT !.answers = more]
  <2>1. SoundAnswers(more) /\ sitting[s].answers \subseteq more
    BY <1>1, <1>2, <1>3, <1>5, <1>7, AnswerAdded
  <2>2. sitting' = [sitting EXCEPT ![s] = row]
    BY <1>5, <1>7
  <2> HIDE DEF more
  <2>3. Reached(sitting[s].answers) \subseteq Reached(more)
    BY <1>1, <2>1, ReachedGrows
  <2>4. /\ row \in SittingRows /\ row.answers = more /\ row.texts = sitting[s].texts
        /\ row.status = sitting[s].status
        /\ row.verdicts = sitting[s].verdicts /\ row.setBack = sitting[s].setBack
        /\ row.raw = sitting[s].raw /\ row.checkpoint = sitting[s].checkpoint
    BY <1>2, <2>1 DEF SittingRows, SoundAnswers
  <2> HIDE DEF row
  <2>5. row.checkpoint \in Reached(row.answers)
    BY <1>2, <2>3, <2>4 DEF SittingSound
  <2>6. RowsTyped /\ UNCHANGED place /\ s \in Sittings /\ row \in SittingRows
    BY <1>1, <1>2, <2>4
  <2>7. s \in Sittings' /\ s <= Len(sitting) /\ sitting'[s] = row
    BY <2>2, <2>6, RowWritten
  <2>8. /\ SoundAnswers(row.answers) /\ sitting[s].answers \subseteq row.answers
        /\ sitting[s].texts \subseteq row.texts
        /\ sitting[s].verdicts \subseteq row.verdicts /\ (sitting[s].setBack => row.setBack)
        /\ AtGate(s) => row.checkpoint = Gate \/ row.setBack
        /\ row.status = sitting[s].status /\ row.raw = sitting[s].raw
        /\ row.checkpoint # Nowhere
    BY <1>2, <2>1, <2>4 DEF AtGate
  <2>9. Grows(s) /\ SittingSound(s)' /\ OneCompleted'
    BY <2>2, <2>5, <2>6, <2>8, GrownKeeps
  <2>10. RequestSound(c)'
    BY <1>2, <1>4, <2>3, <2>4, <2>7 DEF RequestSound
  <2> QED
    BY <1>1, <1>4, <2>2, <2>6, <2>7, <2>9, <2>10, RequestWrites
<1> QED
  BY <1>6, <1>7

(* The walk asks, ends with a level that is due, or goes on to what is      *)
(* reached with the answers it has read.                                    *)
LEMMA WalkKeeps ==
  ASSUME PlacementGround, CourseWaits, NEW c \in Tabs, Walk(c)
  PROVE  PlacementInv'
<1> SUFFICES ASSUME NEW s, s = tab[c].sitting PROVE PlacementInv'
  OBVIOUS
<1> DEFINE cp == tab[c].checkpoint
           route == Route(tab[c].checkpoint, tab[c].seen)
           marked == sitting[s].setBack \/ (sitting[s].checkpoint = Gate /\ route.checkpoint # Gate)
<1>1. /\ RowsTyped /\ setbacks' \in 0..MaxSetbacks /\ tab[c].at = "walk" /\ cp # Gate
      /\ UNCHANGED place /\ RequestSound(c)
  BY DEF PlacementGround, PlacementInv, RowsTyped, Walk, TabAt, CourseWaits, curriculumVars
<1>2. /\ tab[c] \in TabRows /\ s \in Sittings /\ sitting[s] \in SittingRows /\ SittingSound(s)
      /\ sitting[s].checkpoint # Nowhere /\ cp \in Reached(sitting[s].answers)
      /\ SoundAnswers(sitting[s].answers) /\ tab[c].seen \subseteq sitting[s].answers
      /\ sitting[s].setBack \in BOOLEAN
  BY <1>1, RequestStands DEF Looking, RequestSound, SittingRows
<1>3. CASE Close(c) /\ UNCHANGED sitting
  BY <1>1, <1>3, RequestEnds
<1>4. CASE /\ Resolved(cp, tab[c].seen) /\ route.checkpoint = Nowhere /\ UNCHANGED sitting
           /\ tab' = [tab EXCEPT ![c] = [@ EXCEPT !.at = "apply", !.level = route.level]]
  <2> DEFINE r == [tab[c] EXCEPT !.at = "apply", !.level = route.level]
  <2>1. route \in Routes /\ DueLevel(s, route.level)
    BY <1>1, <1>4, WalkResult
  <2>2. /\ r \in TabRows /\ r.at = "apply" /\ r.sitting = s /\ r.checkpoint = cp
        /\ r.level = route.level
    BY <1>2, <2>1 DEF TabRows, TabStages, Routes
  <2>3. tab' = [tab EXCEPT ![c] = r]
    BY <1>4
  <2> HIDE DEF r
  <2>4. Alone(c) /\ tab'[c] = r
    BY <1>1, <2>2, <2>3 DEF Alone, RowsTyped
  <2>5. s \in Sittings' /\ s <= Len(sitting)
    BY <1>1, <1>2, <1>4 DEF RowsTyped, Sittings
  <2>6. DueLevel(tab[c].sitting, tab[c].level)'
    <3>1. tab'[c].sitting = s /\ tab'[c].level = route.level
      BY <2>2, <2>4
    <3>2. DueLevel(s, route.level)
      BY <2>1
    <3> QED
      BY <1>4, <3>1, <3>2 DEF DueLevel, DueToTexts, DueToAnswers, VerdictLevel
  <2>7. RequestSound(c)'
    <3>1. /\ tab'[c].at = "apply" /\ tab'[c].sitting = s /\ tab'[c].checkpoint = cp /\ cp # Gate
          /\ sitting'[s].checkpoint # Nowhere /\ cp \in Reached(sitting'[s].answers)
      BY <1>1, <1>2, <1>4, <2>2, <2>4
    <3> QED
      BY <2>5, <2>6, <3>1 DEF RequestSound
  <2> QED
    BY <1>1, <1>4, <2>2, <2>4, <2>5, <2>7, RequestMoves
<1>5. CASE /\ Resolved(cp, tab[c].seen) /\ route.checkpoint # Nowhere
           /\ sitting' = [sitting EXCEPT ![s] = [sitting[s] EXCEPT !.checkpoint = route.checkpoint,
                                                             !.setBack = marked]]
           /\ tab' = [tab EXCEPT ![c].checkpoint = route.checkpoint]
  <2> DEFINE r == [tab[c] EXCEPT !.checkpoint = route.checkpoint]
             row == [sitting[s] EXCEPT !.checkpoint = route.checkpoint, !.setBack = marked]
  <2>1. route \in Routes /\ route.checkpoint \in Reached(sitting[s].answers)
    BY <1>1, <1>5, WalkResult
  <2>2. route.checkpoint \in Positions
    BY <2>1 DEF Routes, Positions
  <2>3. /\ r \in TabRows /\ r.at = "walk" /\ r.sitting = s /\ r.seen = tab[c].seen
        /\ r.checkpoint = route.checkpoint
    BY <1>1, <1>2, <2>2 DEF TabRows
  <2>4. /\ row \in SittingRows /\ row.answers = sitting[s].answers
        /\ row.texts = sitting[s].texts
        /\ row.verdicts = sitting[s].verdicts /\ row.setBack = marked
        /\ row.status = sitting[s].status /\ row.raw = sitting[s].raw
        /\ row.checkpoint = route.checkpoint
    BY <1>2, <2>2 DEF SittingRows
  <2>5. tab' = [tab EXCEPT ![c] = r] /\ sitting' = [sitting EXCEPT ![s] = row]
    BY <1>5
  <2> HIDE DEF r, row
  <2>6. Alone(c) /\ tab'[c] = r
    BY <1>1, <2>3, <2>5 DEF Alone, RowsTyped
  <2>7. RowsTyped /\ UNCHANGED place /\ s \in Sittings /\ row \in SittingRows
    BY <1>1, <1>2, <2>4
  <2>8. s \in Sittings' /\ s <= Len(sitting) /\ sitting'[s] = row
    BY <2>5, <2>7, RowWritten
  <2>9. /\ SoundAnswers(row.answers) /\ sitting[s].answers \subseteq row.answers
        /\ sitting[s].texts \subseteq row.texts
        /\ sitting[s].verdicts \subseteq row.verdicts /\ (sitting[s].setBack => row.setBack)
        /\ AtGate(s) => row.checkpoint = Gate \/ row.setBack
        /\ row.status = sitting[s].status /\ row.raw = sitting[s].raw
        /\ row.checkpoint # Nowhere /\ row.checkpoint \in Reached(row.answers)
    BY <1>2, <1>5, <2>1, <2>4 DEF AtGate
  <2>10. Grows(s) /\ SittingSound(s)' /\ OneCompleted'
    BY <2>5, <2>7, <2>9, GrownKeeps
  <2>11. RequestSound(c)'
    BY <1>2, <1>5, <2>1, <2>3, <2>4, <2>6, <2>8 DEF RequestSound, AtGate
  <2> QED
    BY <1>1, <2>3, <2>5, <2>6, <2>7, <2>8, <2>10, <2>11, RequestWrites
<1> QED
  BY <1>3, <1>4, <1>5 DEF Walk, Resolved

(* A text is stored.                                                        *)
LEMMA StoreTextKeeps ==
  ASSUME PlacementGround, CourseWaits, NEW c \in Tabs, StoreText(c)
  PROVE  PlacementInv'
<1> SUFFICES ASSUME NEW s, s = tab[c].sitting PROVE PlacementInv'
  OBVIOUS
<1>1. /\ RowsTyped /\ setbacks' \in 0..MaxSetbacks /\ tab[c].at = "text"
      /\ Move(c, "texts") /\ UNCHANGED place /\ RequestSound(c)
  BY DEF PlacementGround, PlacementInv, RowsTyped, StoreText, TabAt, CourseWaits, curriculumVars
<1>2. /\ s \in Sittings /\ sitting[s] \in SittingRows
      /\ SoundAnswers(sitting[s].answers) /\ sitting[s].checkpoint # Nowhere
      /\ tab[c].checkpoint \in Reached(sitting[s].answers)
      /\ Gate \in Reached(sitting[s].answers)
      /\ SittingSound(s) /\ tab[c].checkpoint = Gate /\ AtGate(s)
  BY <1>1, RequestStands DEF Looking, RequestSound
<1>3. /\ Alone(c) /\ tab'[c].at = "texts" /\ tab'[c].sitting = s
      /\ tab'[c].checkpoint = tab[c].checkpoint
  BY <1>1, Moved DEF TabStages
<1>4. PICK step \in C2Steps : sitting' = [sitting EXCEPT ![s].texts = @ \cup {step}]
  BY DEF StoreText
<1> DEFINE row == [sitting[s] EXCEPT !.texts = @ \cup {step}]
<1>5. /\ row \in SittingRows /\ row.answers = sitting[s].answers
      /\ row.texts = sitting[s].texts \cup {step}
      /\ row.status = sitting[s].status
      /\ row.verdicts = sitting[s].verdicts /\ row.setBack = sitting[s].setBack
      /\ row.raw = sitting[s].raw /\ row.checkpoint = sitting[s].checkpoint
  BY <1>2 DEF SittingRows
<1>6. sitting' = [sitting EXCEPT ![s] = row]
  BY <1>4
<1> HIDE DEF row
<1>7. RowsTyped /\ UNCHANGED place /\ s \in Sittings /\ row \in SittingRows
  BY <1>1, <1>2, <1>5
<1>8. s \in Sittings' /\ s <= Len(sitting) /\ sitting'[s] = row
  BY <1>6, <1>7, RowWritten
<1>9. /\ SoundAnswers(row.answers) /\ sitting[s].answers \subseteq row.answers
      /\ sitting[s].texts \subseteq row.texts
      /\ sitting[s].verdicts \subseteq row.verdicts /\ (sitting[s].setBack => row.setBack)
      /\ AtGate(s) => row.checkpoint = Gate \/ row.setBack
      /\ row.status = sitting[s].status /\ row.raw = sitting[s].raw
      /\ row.checkpoint # Nowhere /\ row.checkpoint \in Reached(row.answers)
  BY <1>2, <1>5 DEF SittingSound, AtGate
<1>10. Grows(s) /\ SittingSound(s)' /\ OneCompleted'
  BY <1>6, <1>7, <1>9, GrownKeeps
<1>11. RequestSound(c)'
  BY <1>2, <1>3, <1>5, <1>8 DEF RequestSound, AtGate
<1> QED
  BY <1>1, <1>3, <1>6, <1>7, <1>8, <1>10, <1>11, RequestWrites

(* The model decides by both texts, or fails and a level is lent.           *)
LEMMA EvaluateKeeps ==
  ASSUME PlacementGround, CourseWaits, NEW c \in Tabs, EvaluateTexts(c)
  PROVE  PlacementInv'
<1> SUFFICES ASSUME NEW s, s = tab[c].sitting PROVE PlacementInv'
  OBVIOUS
<1>1. /\ RowsTyped /\ tab[c].at = "evaluate" /\ UNCHANGED place /\ RequestSound(c)
      /\ setbacks \in 0..MaxSetbacks
  <2>1. tab[c].at = "evaluate"
    BY DEF EvaluateTexts, TabAt
  <2> QED
    BY <2>1 DEF PlacementGround, PlacementInv, RowsTyped, CourseWaits, curriculumVars
<1>2. /\ tab[c] \in TabRows /\ s \in Sittings /\ sitting[s] \in SittingRows
      /\ SoundAnswers(sitting[s].answers) /\ sitting[s].checkpoint # Nowhere
      /\ tab[c].checkpoint \in Reached(sitting[s].answers)
      /\ Gate \in Reached(sitting[s].answers) /\ sitting[s].texts = C2Steps
      /\ SittingSound(s) /\ (tab[c].checkpoint = Gate \/ sitting[s].setBack)
      /\ tab[c].checkpoint \in Checkpoints \cup {Gate} /\ (tab[c].checkpoint = Gate => AtGate(s))
  BY <1>1, RequestStands, ReachedCheckpoints DEF Looking, RequestSound, PlacementGround
<1>3. ASSUME NEW pass \in BOOLEAN, NEW level, level = VerdictLevel(tab[c].checkpoint, pass),
             sitting' = [sitting EXCEPT ![s].verdicts = @ \cup {pass}],
             tab' = [tab EXCEPT ![c] = [@ EXCEPT !.at = "apply", !.level = level]],
             UNCHANGED setbacks
      PROVE  PlacementInv'
  <2> DEFINE r == [tab[c] EXCEPT !.at = "apply", !.level = level]
             row == [sitting[s] EXCEPT !.verdicts = @ \cup {pass}]
  <2>1. level \in Nat /\ level # 0
    <3>1. level \in 1..LevelOf[Len(LevelOf)]
      BY <1>2, <1>3, VerdictIsALevel DEF PlacementGround
    <3>2. LevelOf[Len(LevelOf)] \in Nat
      BY RecortesTyped DEF PlacementGround
    <3> QED
      BY <3>1, <3>2
  <2>2. /\ r \in TabRows /\ r.at = "apply" /\ r.sitting = s /\ r.checkpoint = tab[c].checkpoint
        /\ r.level = level
    BY <1>2, <2>1 DEF TabRows, TabStages
  <2>3. /\ row \in SittingRows /\ row.answers = sitting[s].answers
        /\ row.texts = sitting[s].texts /\ row.verdicts = sitting[s].verdicts \cup {pass}
        /\ row.status = sitting[s].status /\ row.raw = sitting[s].raw
        /\ row.checkpoint = sitting[s].checkpoint /\ row.setBack = sitting[s].setBack
    BY <1>2, <2>1 DEF SittingRows
  <2>4. tab' = [tab EXCEPT ![c] = r] /\ sitting' = [sitting EXCEPT ![s] = row]
    BY <1>3
  <2> HIDE DEF r, row
  <2>5. Alone(c) /\ tab'[c] = r
    BY <1>1, <2>2, <2>4 DEF Alone, RowsTyped
  <2>6. RowsTyped /\ UNCHANGED place /\ s \in Sittings /\ row \in SittingRows
    BY <1>1, <1>2, <2>3
  <2>7. s \in Sittings' /\ s <= Len(sitting) /\ sitting'[s] = row
    BY <2>4, <2>6, RowWritten
  <2>8. /\ SoundAnswers(row.answers) /\ sitting[s].answers \subseteq row.answers
        /\ sitting[s].texts \subseteq row.texts
        /\ sitting[s].verdicts \subseteq row.verdicts /\ (sitting[s].setBack => row.setBack)
        /\ AtGate(s) => row.checkpoint = Gate \/ row.setBack
        /\ row.status = sitting[s].status /\ row.raw = sitting[s].raw
        /\ row.checkpoint # Nowhere /\ row.checkpoint \in Reached(row.answers)
    BY <1>2, <2>1, <2>3 DEF SittingSound, AtGate
  <2>9. Grows(s) /\ SittingSound(s)' /\ OneCompleted'
    BY <2>4, <2>6, <2>8, GrownKeeps
  <2>10. DueLevel(tab[c].sitting, tab[c].level)'
    <3>1. tab'[c].sitting = s /\ tab'[c].level = level
      BY <2>2, <2>5
    <3>2. /\ Gate \in Reached(row.answers) /\ row.texts = C2Steps /\ pass \in row.verdicts
          /\ tab[c].checkpoint \in IF row.setBack THEN Reached(row.answers) ELSE {Gate}
      BY <1>2, <2>3
    <3>3. DueToTexts(s, level)'
      BY <1>3, <2>7, <3>2 DEF DueToTexts, VerdictLevel
    <3> QED
      BY <2>1, <3>1, <3>3 DEF DueLevel, DueToTexts, VerdictLevel
  <2>11. RequestSound(c)'
    BY <1>2, <2>2, <2>3, <2>5, <2>7, <2>10 DEF RequestSound, AtGate
  <2>12. tab'[c].sitting <= Len(sitting) /\ setbacks' \in 0..MaxSetbacks
    BY <1>1, <1>3, <2>2, <2>5, <2>7
  <2> QED
    BY <2>4, <2>5, <2>6, <2>9, <2>11, <2>12, RequestWrites
<1>4. CASE /\ setbacks < MaxSetbacks /\ setbacks' = setbacks + 1 /\ UNCHANGED sitting
           /\ tab' = [tab EXCEPT ![c] = [@ EXCEPT !.at = "lend", !.level = TemporaryLevel]]
  <2> DEFINE r == [tab[c] EXCEPT !.at = "lend", !.level = TemporaryLevel]
  <2>1. TemporaryLevel \in Nat /\ MaxSetbacks \in Nat
    BY DEF PlacementGround, PlacementAssumption
  <2>2. /\ r \in TabRows /\ r.at = "lend" /\ r.sitting = s /\ r.checkpoint = tab[c].checkpoint
        /\ r.level = TemporaryLevel
    BY <1>2, <2>1 DEF TabRows, TabStages
  <2>3. tab' = [tab EXCEPT ![c] = r]
    BY <1>4
  <2> HIDE DEF r
  <2>4. Alone(c) /\ tab'[c] = r
    BY <1>1, <2>2, <2>3 DEF Alone, RowsTyped
  <2>5. s \in Sittings' /\ s <= Len(sitting) /\ setbacks' \in 0..MaxSetbacks
    BY <1>1, <1>2, <1>4, <2>1 DEF RowsTyped, Sittings
  <2>6. RequestSound(c)'
    BY <1>2, <1>4, <2>2, <2>4, <2>5 DEF RequestSound, AtGate
  <2> QED
    BY <1>4, <2>2, <2>4, <2>5, <2>6, RequestMoves
<1>5. \/ \E pass \in BOOLEAN :
           /\ sitting' = [sitting EXCEPT ![s].verdicts = @ \cup {pass}]
           /\ tab' = [tab EXCEPT ![c] = [@ EXCEPT !.at = "apply",
                                  !.level = VerdictLevel(tab[c].checkpoint, pass)]]
           /\ UNCHANGED setbacks
      \/ /\ setbacks < MaxSetbacks /\ setbacks' = setbacks + 1 /\ UNCHANGED sitting
         /\ tab' = [tab EXCEPT ![c] = [@ EXCEPT !.at = "lend", !.level = TemporaryLevel]]
  BY DEF EvaluateTexts
<1> QED
  BY <1>3, <1>4, <1>5

(* The one sitting that is completed is this one, and its result is due.    *)
LEMMA CompleteKeeps ==
  ASSUME PlacementGround, CourseWaits, NEW c \in Tabs, CompleteSitting(c)
  PROVE  PlacementInv'
<1> SUFFICES ASSUME NEW s, s = tab[c].sitting PROVE PlacementInv'
  OBVIOUS
<1>1. /\ RowsTyped /\ setbacks' \in 0..MaxSetbacks /\ tab[c].at = "complete" /\ Close(c)
      /\ UNCHANGED place /\ RequestSound(c) /\ OneCompleted
  BY DEF PlacementGround, PlacementInv, RowsTyped, CompleteSitting, TabAt, CourseWaits, curriculumVars
<1>2. /\ tab[c] \in TabRows /\ s \in Sittings /\ sitting[s] \in SittingRows
      /\ SittingSound(s) /\ sitting[s].checkpoint # Nowhere
      /\ DueLevel(s, tab[c].level) /\ place.level >= tab[c].level
  BY <1>1, RequestStands DEF Looking, RequestSound
<1>3. CASE UNCHANGED sitting
  BY <1>1, <1>3, RequestEnds
<1>4. CASE /\ Those({"completed"}) \subseteq {s}
           /\ sitting' = [sitting EXCEPT ![s] = [@ EXCEPT !.status = "completed",
                                                          !.raw = tab[c].level]]
  <2>1. tab[c].level \in Nat
    BY <1>2 DEF TabRows
  <2>2. PICK row \in SittingRows :
          /\ row = [sitting[s] EXCEPT !.status = "completed", !.raw = tab[c].level]
          /\ row.answers = sitting[s].answers
          /\ row.texts = sitting[s].texts
          /\ row.verdicts = sitting[s].verdicts /\ row.setBack = sitting[s].setBack
          /\ row.status = "completed" /\ row.raw = tab[c].level
          /\ row.checkpoint = sitting[s].checkpoint /\ row.texts \subseteq C2Steps
    <3> DEFINE r == [sitting[s] EXCEPT !.status = "completed", !.raw = tab[c].level]
    <3>1. /\ r \in SittingRows /\ r.answers = sitting[s].answers
          /\ r.texts = sitting[s].texts
          /\ r.verdicts = sitting[s].verdicts /\ r.setBack = sitting[s].setBack
          /\ r.status = "completed" /\ r.raw = tab[c].level
          /\ r.checkpoint = sitting[s].checkpoint /\ r.texts \subseteq C2Steps
      BY <1>2, <2>1 DEF SittingRows, SittingStatuses
    <3> HIDE DEF r
    <3>2. r = [sitting[s] EXCEPT !.status = "completed", !.raw = tab[c].level]
      BY DEF r
    <3> QED
      BY <3>1, <3>2
  <2>3. sitting' = [sitting EXCEPT ![s] = row]
    BY <1>4, <2>2
  <2>4. RowsTyped /\ UNCHANGED place /\ s \in Sittings /\ row \in SittingRows
    BY <1>1, <1>2, <2>2
  <2>5. /\ Sittings' = Sittings /\ s <= Len(sitting) /\ sitting'[s] = row
        /\ \A t \in Sittings : t # s => sitting'[t] = sitting[t]
    BY <2>3, <2>4, RowWritten
  <2>6. Grows(s)
    BY <1>2, <2>2, <2>4, <2>5 DEF Grows, SittingSound, AtGate
  <2>7. \A n : DueLevel(s, n)' <=> DueLevel(s, n)
    BY <2>2, <2>5 DEF DueLevel, DueToTexts, DueToAnswers, VerdictLevel
  <2>8. DueLevel(s, row.raw)' /\ row.raw # 0 /\ place'.level >= row.raw
    BY <1>2, <2>2, <2>4, <2>7 DEF DueLevel
  <2>9. SittingSound(s)'
    BY <1>2, <2>2, <2>5, <2>8 DEF SittingSound, AtGate
  <2>10. OneCompleted'
    BY <1>4, <2>5 DEF OneCompleted, Those
  <2>11. Alone(c) /\ tab'[c].at \in Looking /\ tab'[c].sitting = 0
    BY <1>1, Closed DEF Looking
  <2>12. RequestSound(c)'
    BY <2>11 DEF RequestSound, Looking
  <2>13. tab'[c].sitting <= Len(sitting)
    BY <2>11
  <2> QED
    BY <1>1, <2>3, <2>4, <2>6, <2>9, <2>10, <2>11, <2>12, <2>13, RequestWrites
<1> QED
  BY <1>3, <1>4 DEF CompleteSitting

(* A sitting begins, with no answers: the others are untouched.             *)
LEMMA SittingAppended ==
  ASSUME PlacementGround, CourseWaits, setbacks' \in 0..MaxSetbacks,
         NEW row \in SittingRows, sitting' = Append(sitting, row),
         row.answers = {}, row.raw = 0, row.status \in {"in_progress", "skipped"},
         row.checkpoint \in {StartCheckpoint, Nowhere},
         row.checkpoint = Nowhere => row.status = "skipped",
         NEW c \in Tabs, Alone(c), RequestSound(c)', tab'[c].sitting <= Len(sitting) + 1
  PROVE  PlacementInv'
<1>1. /\ PlacementAssumption /\ RowsTyped /\ OneCompleted /\ LevelsReached
      /\ \A t \in Sittings : SittingSound(t)
      /\ \A d \in Tabs : RequestSound(d)
      /\ place' = place /\ place.level \in Nat
  BY DEF PlacementGround, PlacementInv, CourseInv, CurriculumTypeOK, CourseWaits, curriculumVars
<1> DEFINE n == Len(sitting) + 1
<1>2. /\ sitting' \in Seq(SittingRows) /\ Len(sitting') = n /\ Len(sitting) \in Nat
      /\ Sittings = 1..Len(sitting) /\ Sittings' = 1..n
      /\ sitting'[n] = row /\ \A t \in Sittings : sitting'[t] = sitting[t]
  BY <1>1 DEF RowsTyped, Sittings
<1>3. \A t \in Sittings : t \in Sittings' /\ SittingSound(t)' /\ Grows(t)
  BY <1>1, <1>2, UntouchedSitting
<1>4. ASSUME NEW t, t = n
      PROVE  SittingSound(t)'
  <2>1. row.checkpoint \in Reached(row.answers) \cup {Nowhere} /\ SoundAnswers(row.answers)
    BY <1>1, ReachedCheckpoints DEF SoundAnswers
  <2>2. sitting'[t] = row
    BY <1>2, <1>4
  <2> QED
    BY <2>1, <2>2 DEF SittingSound, AtGate
<1>5. \A t \in Sittings' : SittingSound(t)'
  BY <1>2, <1>3, <1>4
<1>6. \A d \in Tabs : RequestSound(d)' /\ tab'[d].sitting <= n
  <2> SUFFICES ASSUME NEW d \in Tabs, tab'[d] = tab[d]
               PROVE  RequestSound(d)' /\ tab'[d].sitting <= n
    BY DEF Alone
  <2>1. RequestSound(d)'
    <3>1. place'.level \in Nat /\ place'.level >= place.level
      BY <1>1
    <3> QED
      BY <1>1, <1>3, <3>1, WaitingRequest
  <2>2. tab[d].sitting \in Nat /\ tab[d].sitting <= Len(sitting)
    BY <1>1 DEF RowsTyped, TabRows
  <2> QED
    BY <1>2, <2>1, <2>2
<1>7. RowsTyped'
  BY <1>1, <1>2, <1>6 DEF RowsTyped, Alone, CourseWaits
<1>8. OneCompleted'
  <2>1. \A t \in Sittings' : sitting'[t].status = "completed" =>
          t \in Sittings /\ sitting[t].status = "completed"
    BY <1>2
  <2> QED
    BY <1>1, <2>1 DEF OneCompleted
<1>9. LevelsReached'
  BY <1>1 DEF LevelsReached, CourseWaits, curriculumVars
<1> QED
  BY <1>5, <1>6, <1>7, <1>8, <1>9 DEF PlacementInv

(* A request begins a sitting, marks one skipped, or looks again for the    *)
(* one that another request has begun.                                      *)
LEMMA InsertKeeps ==
  ASSUME PlacementGround, CourseWaits, NEW c \in Tabs, InsertSitting(c)
  PROVE  PlacementInv'
<1>1. /\ PlacementAssumption /\ RowsTyped /\ setbacks' \in 0..MaxSetbacks
      /\ Len(sitting) \in Nat /\ tab[c] \in TabRows
  BY DEF PlacementGround, PlacementInv, RowsTyped, InsertSitting
<1>2. ASSUME NEW status \in {"in_progress", "skipped"}
      PROVE  /\ NewSitting(status) \in SittingRows
             /\ NewSitting(status).answers = {} /\ NewSitting(status).raw = 0
             /\ NewSitting(status).status = status
             /\ NewSitting(status).checkpoint =
                  IF status = "skipped" THEN Nowhere ELSE StartCheckpoint
  <2>1. Nowhere \in Positions /\ StartCheckpoint \in Positions /\ status \in SittingStatuses
    BY <1>1 DEF Positions, PlacementAssumption, SittingStatuses
  <2> QED
    BY <2>1 DEF NewSitting, SittingRows
<1>3. CASE sitting' = Append(sitting, NewSitting("skipped")) /\ Close(c)
  <2>1. Alone(c) /\ tab'[c].at \in Looking /\ tab'[c].sitting = 0
    BY <1>1, <1>3, Closed DEF Looking
  <2>2. RequestSound(c)' /\ tab'[c].sitting <= Len(sitting) + 1
    BY <1>1, <2>1 DEF RequestSound, Looking
  <2> HIDE DEF NewSitting
  <2>3. PICK row \in SittingRows :
          /\ sitting' = Append(sitting, row) /\ row.answers = {} /\ row.raw = 0
          /\ row.status = "skipped" /\ row.checkpoint = Nowhere
    BY <1>2, <1>3
  <2> QED
    BY <1>1, <2>1, <2>2, <2>3, SittingAppended
<1>4. CASE /\ sitting' = Append(sitting, NewSitting("in_progress"))
           /\ tab' = [tab EXCEPT ![c] = [@ EXCEPT !.at = "advance",
                                                  !.sitting = Len(sitting) + 1,
                                                  !.status = "in_progress",
                                                  !.checkpoint = StartCheckpoint]]
  <2> DEFINE r == [tab[c] EXCEPT !.at = "advance", !.sitting = Len(sitting) + 1,
                                 !.status = "in_progress", !.checkpoint = StartCheckpoint]
  <2>1. /\ StartCheckpoint \in Positions /\ StartCheckpoint # Nowhere
        /\ Len(sitting) + 1 \in Nat /\ "in_progress" \in SittingStatuses
    BY <1>1 DEF Positions, PlacementAssumption, SittingStatuses
  <2>2. /\ r \in TabRows /\ r.at = "advance" /\ r.sitting = Len(sitting) + 1
        /\ r.checkpoint = StartCheckpoint
    BY <1>1, <2>1 DEF TabRows, TabStages
  <2>3. tab' = [tab EXCEPT ![c] = r]
    BY <1>4
  <2> HIDE DEF r
  <2>4. Alone(c) /\ tab'[c] = r
    BY <1>1, <2>2, <2>3 DEF Alone, RowsTyped
  <2> HIDE DEF NewSitting
  <2>5. PICK row \in SittingRows :
          /\ sitting' = Append(sitting, row) /\ row.answers = {} /\ row.raw = 0
          /\ row.status = "in_progress" /\ row.checkpoint = StartCheckpoint
    BY <1>2, <1>4
  <2>6. Len(sitting) + 1 \in Sittings' /\ sitting'[Len(sitting) + 1] = row
    BY <1>1, <2>5 DEF RowsTyped, Sittings
  <2>7. StartCheckpoint \in Reached(sitting'[Len(sitting) + 1].answers)
    BY <1>1, ReachedCheckpoints
  <2>8. RequestSound(c)' /\ tab'[c].sitting <= Len(sitting) + 1
    BY <1>1, <2>1, <2>2, <2>4, <2>5, <2>6, <2>7 DEF RequestSound, AtGate
  <2> QED
    BY <1>1, <2>1, <2>4, <2>5, <2>8, SittingAppended
<1>5. CASE /\ tab' = [tab EXCEPT ![c] = [@ EXCEPT !.at = "open", !.kind = "retry"]]
           /\ UNCHANGED sitting
  <2> DEFINE r == [tab[c] EXCEPT !.at = "open", !.kind = "retry"]
  <2>1. r \in TabRows /\ r.at = "open" /\ r.sitting = tab[c].sitting
    BY <1>1 DEF TabRows, TabStages, TabKinds
  <2>2. tab' = [tab EXCEPT ![c] = r]
    BY <1>5
  <2> HIDE DEF r
  <2>3. Alone(c) /\ tab'[c].at \in Looking /\ tab'[c].sitting = tab[c].sitting
    BY <1>1, <2>1, <2>2 DEF Alone, RowsTyped, Looking
  <2> QED
    BY <1>1, <1>5, <2>3, RequestLooks
<1> QED
  BY <1>3, <1>4, <1>5 DEF InsertSitting

(* A sitting expires, or what has expired is swept, or a request dies.      *)
LEMMA MishapKeeps ==
  ASSUME PlacementGround, PlacementMishap
  PROVE  PlacementInv'
<1>1. /\ PlacementAssumption /\ RowsTyped /\ CourseInv /\ PlacementInv /\ UNCHANGED curriculumVars
      /\ CourseWaits /\ UNCHANGED place
      /\ setbacks \in 0..MaxSetbacks /\ intrusions' \in 0..MaxIntrusions /\ MaxSetbacks \in Nat
  BY DEF PlacementGround, PlacementInv, RowsTyped, PlacementMishap, CourseWaits, curriculumVars,
         PlacementAssumption
<1>2. ASSUME NEW s \in Sittings, sitting[s].status = "in_progress", UNCHANGED tab,
             setbacks' \in 0..MaxSetbacks
      PROVE  /\ sitting[s].checkpoint # Nowhere /\ sitting[s] \in SittingRows /\ SittingSound(s)
             /\ tab' \in [Tabs -> TabRows] /\ \A d \in Tabs : tab'[d] = tab[d]
  BY <1>1, <1>2, OpenStands DEF Those, OpenStatuses, PlacementInv, RowsTyped, Sittings
<1>3. ASSUME NEW s \in Sittings, ExpireSitting(s)
      PROVE  PlacementInv'
  <2>1. setbacks' \in 0..MaxSetbacks /\ UNCHANGED tab /\ sitting[s].status = "in_progress"
    BY <1>1, <1>3 DEF ExpireSitting
  <2>2. /\ sitting[s].checkpoint # Nowhere /\ sitting[s] \in SittingRows /\ SittingSound(s)
        /\ tab' \in [Tabs -> TabRows] /\ \A d \in Tabs : tab'[d] = tab[d]
    BY <1>2, <2>1
  <2> DEFINE r == [sitting[s] EXCEPT !.expired = TRUE]
  <2>3. /\ r \in SittingRows /\ r.answers = sitting[s].answers
        /\ r.texts = sitting[s].texts
        /\ r.verdicts = sitting[s].verdicts /\ r.setBack = sitting[s].setBack
        /\ r.status = sitting[s].status /\ r.raw = sitting[s].raw
        /\ r.checkpoint = sitting[s].checkpoint
    BY <2>2 DEF SittingRows
  <2>4. sitting' = [sitting EXCEPT ![s] = r]
    BY <1>3 DEF ExpireSitting
  <2> HIDE DEF r
  <2>5. PICK row \in SittingRows :
          /\ sitting' = [sitting EXCEPT ![s] = row] /\ row.answers = sitting[s].answers
          /\ row.texts = sitting[s].texts
          /\ row.verdicts = sitting[s].verdicts /\ row.setBack = sitting[s].setBack
          /\ row.status = sitting[s].status /\ row.raw = sitting[s].raw
          /\ row.checkpoint = sitting[s].checkpoint
    BY <2>3, <2>4
  <2>6. /\ SoundAnswers(row.answers) /\ row.checkpoint # Nowhere
        /\ row.checkpoint \in Reached(row.answers)
        /\ sitting[s].verdicts \subseteq row.verdicts /\ (sitting[s].setBack => row.setBack)
        /\ AtGate(s) => row.checkpoint = Gate \/ row.setBack
    BY <2>2, <2>5 DEF SittingSound, AtGate
  <2>7. Grows(s) /\ SittingSound(s)' /\ OneCompleted'
    BY <1>1, <2>5, <2>6, GrownKeeps
  <2> QED
    BY <1>1, <2>1, <2>2, <2>5, <2>7, SittingWritten
<1>4. ASSUME NEW s \in Sittings, SweepSitting(s)
      PROVE  PlacementInv'
  <2>1. setbacks' \in 0..MaxSetbacks /\ UNCHANGED tab /\ sitting[s].status = "in_progress"
    BY <1>1, <1>4 DEF SweepSitting
  <2>2. /\ sitting[s].checkpoint # Nowhere
        /\ tab' \in [Tabs -> TabRows] /\ \A d \in Tabs : tab'[d] = tab[d]
    BY <1>2, <2>1
  <2>3. "abandoned" \in SittingStatuses \ {"completed"}
    BY DEF SittingStatuses
  <2>4. sitting' = [sitting EXCEPT ![s].status = "abandoned"]
    BY <1>4 DEF SweepSitting
  <2>5. PICK row \in SittingRows : sitting' = [sitting EXCEPT ![s] = row]
    BY <1>1, <2>2, <2>3, <2>4, Relabelled
  <2>6. Grows(s) /\ SittingSound(s)' /\ OneCompleted'
    BY <1>1, <2>2, <2>3, <2>4, Relabelled
  <2> QED
    BY <1>1, <2>1, <2>2, <2>5, <2>6, SittingWritten
<1>5. ASSUME NEW c \in Tabs, TabDies(c)
      PROVE  PlacementInv'
  <2>1. UNCHANGED sitting /\ setbacks' \in 0..MaxSetbacks /\ Close(c)
    BY <1>1, <1>5 DEF TabDies
  <2> QED
    BY <1>1, <2>1, RequestEnds
<1> QED
  BY <1>3, <1>4, <1>5 DEF PlacementMishap

(* A request goes on.                                                       *)
LEMMA ServingKeeps ==
  ASSUME PlacementGround, AsksOnceEnrolled, NEW c \in Tabs, Serving(c)
  PROVE  PlacementInv'
<1>1. CASE ApplyResult(c)
  <2>1. tab[c].at # "idle"
    BY <1>1 DEF ApplyResult
  <2>2. Enrolled
    BY <2>1 DEF AsksOnceEnrolled, TabAt
  <2> QED
    BY <1>1, <2>2, ApplyKeeps
<1>2. CASE UNCHANGED <<curriculumVars, intrusions>>
  <2>1. CourseWaits
    BY <1>2 DEF CourseWaits, PlacementGround, PlacementInv, RowsTyped
  <2>2. CASE LookCompleted(c) \/ LookOpen(c)
    BY <2>1, <2>2, LooksKeep
  <2>3. CASE InsertSitting(c)
    BY <2>1, <2>3, InsertKeeps
  <2>4. CASE SkipSitting(c)
    BY <2>1, <2>4, SkipKeeps
  <2>5. CASE MarkAbandoned(c)
    BY <2>1, <2>5, AbandonKeeps
  <2>6. CASE CheckAnswer(c)
    BY <2>1, <2>6, CheckAnswerKeeps
  <2>7. CASE RecordAnswer(c)
    BY <2>1, <2>7, RecordKeeps
  <2>8. CASE LoadAnswers(c)
    BY <2>1, <2>8, LoadAnswersKeeps
  <2>9. CASE Walk(c)
    BY <2>1, <2>9, WalkKeeps
  <2>10. CASE ShowGate(c)
    BY <2>1, <2>10, ShowGateKeeps
  <2>11. CASE StoreText(c)
    BY <2>1, <2>11, StoreTextKeeps
  <2>12. CASE LookAtTexts(c)
    BY <2>1, <2>12, LookAtTextsKeeps
  <2>13. CASE EvaluateTexts(c)
    BY <2>1, <2>13, EvaluateKeeps
  <2>14. CASE LeavePending(c)
    BY <2>1, <2>14, LeavePendingKeeps
  <2>15. CASE CompleteSitting(c)
    BY <2>1, <2>15, CompleteKeeps
  <2> QED
    BY <1>1, <2>2, <2>3, <2>4, <2>5, <2>6, <2>7, <2>8, <2>9, <2>10, <2>11, <2>12, <2>13,
       <2>14, <2>15 DEF Serving
<1> QED
  BY <1>1, <1>2 DEF Serving

(* The learner goes on, or another tab asks.                                *)
LEMMA AskingKeeps ==
  ASSUME PlacementGround, NEW c \in Tabs, Continue(c) \/ Interfere(c)
  PROVE  PlacementInv'
<1>1. CourseWaits
  BY DEF Continue, Interfere, CourseWaits, PlacementGround, PlacementInv, RowsTyped,
         PlacementAssumption
<1>2. ASSUME NEW kind \in {"state", "start", "skip"}, Ask(c, kind)
      PROVE  PlacementInv'
  BY <1>1, <1>2, RequestRestarts DEF Ask
<1>3. ASSUME NEW s \in Sittings, ReadForAnswer(c, s)
      PROVE  PlacementInv'
  BY <1>1, <1>3, ReadForAnswerKeeps
<1>4. ASSUME NEW s \in Sittings, ReadForText(c, s)
      PROVE  PlacementInv'
  BY <1>1, <1>4, ReadForTextKeeps
<1>5. CASE AskEvaluation(c)
  BY <1>1, <1>5, AskEvaluationKeeps
<1>6. CASE Interfere(c)
  BY <1>2, <1>3, <1>4, <1>5, <1>6 DEF Interfere
<1>7. CASE Continue(c)
  <2>1. ASSUME NEW s \in Those({"in_progress"}),
               CASE sitting[s].checkpoint # Gate -> ReadForAnswer(c, s)
                 [] sitting[s].texts # C2Steps   -> ReadForText(c, s)
                 [] OTHER                        -> Ask(c, "state")
        PROVE  PlacementInv'
    <3>1. s \in Sittings
      BY DEF Those
    <3>2. ReadForAnswer(c, s) \/ ReadForText(c, s) \/ Ask(c, "state")
      BY <2>1
    <3> QED
      BY <1>2, <1>3, <1>4, <3>1, <3>2
  <2> QED
    BY <1>2, <1>5, <1>7, <2>1 DEF Continue
<1> QED
  BY <1>6, <1>7

(* PlacementInv holds of every behaviour.                                   *)
LEMMA PlacementInvariant ==
  ASSUME InitialLevel = 0, ResultsAreLevels
  PROVE  PlacementSafety => []PlacementInv
<1>1. (CurriculumInit \/ EnrolledInit) /\ PlacementInit => PlacementInv
  <2> SUFFICES ASSUME CurriculumInit \/ EnrolledInit, PlacementInit PROVE PlacementInv
    OBVIOUS
  <2>1. RowsTyped
    <3>1. sitting \in Seq(SittingRows) /\ Len(sitting) = 0
      BY DEF PlacementInit
    <3>2. /\ tab \in [Tabs -> TabRows] /\ \A c \in Tabs : tab[c].sitting = 0
          /\ setbacks \in 0..MaxSetbacks /\ intrusions \in 0..MaxIntrusions
      BY IdleTyped, PlacementAssumption DEF PlacementInit, PlacementAssumption
    <3> QED
      BY <3>1, <3>2 DEF RowsTyped
  <2>2. Sittings = {}
    BY DEF PlacementInit, Sittings
  <2>3. \A c \in Tabs : RequestSound(c)
    BY IdleTyped DEF PlacementInit, RequestSound, Looking
  <2>4. LevelsReached
    BY DEF CurriculumInit, EnrolledInit, LevelsReached
  <2> QED
    BY <2>1, <2>2, <2>3, <2>4 DEF PlacementInv, OneCompleted
<1>2. CourseInv /\ AsksOnceEnrolled /\ PlacementInv /\ [PlacementNext]_bothVars => PlacementInv'
  <2> SUFFICES ASSUME CourseInv, AsksOnceEnrolled, PlacementInv, [PlacementNext]_bothVars
               PROVE  PlacementInv'
    OBVIOUS
  <2>1. PlacementGround
    BY CurriculumAssumption, PlacementAssumption DEF PlacementGround
  <2>2. ASSUME NEW c \in Tabs, Serving(c)
        PROVE  PlacementInv'
    BY <2>1, <2>2, ServingKeeps
  <2>3. ASSUME NEW c \in Tabs, Continue(c) \/ Interfere(c)
        PROVE  PlacementInv'
    BY <2>1, <2>3, AskingKeeps
  <2>4. CASE PlacementMishap
    BY <2>1, <2>4, MishapKeeps
  <2>5. CASE CurriculumNext /\ UNCHANGED placementVars
    BY <2>1, <2>5, StudyingKeepsPlacement
  <2>6. CASE UNCHANGED bothVars
    <3>1. UNCHANGED <<curriculumVars, sitting, tab, setbacks, intrusions>>
      BY <2>6 DEF bothVars, placementVars
    <3>2. /\ place' = place /\ place.level \in Nat /\ LevelsReached'
          /\ tab' \in [Tabs -> TabRows] /\ \A d \in Tabs : tab'[d] = tab[d]
          /\ setbacks' \in 0..MaxSetbacks /\ intrusions' \in 0..MaxIntrusions
      BY <3>1 DEF CourseInv, CurriculumTypeOK, PlacementInv, RowsTyped, LevelsReached,
                  curriculumVars
    <3>3. place'.level \in Nat /\ place'.level >= place.level
      BY <3>2
    <3> QED
      BY <2>1, <3>1, <3>2, <3>3, SittingsRest DEF PlacementGround
  <2>7. MainTab \in Tabs
    BY PlacementAssumption DEF PlacementAssumption
  <2> QED
    BY <2>2, <2>3, <2>4, <2>5, <2>6, <2>7 DEF PlacementNext
<1> QED
  BY <1>1, <1>2, CourseInvariant, PTL DEF PlacementSafety

(* A result is what the answers and texts on record call for, for every     *)
(* test, course and number of tabs: whoever overlaps whom, walks with       *)
(* answers read before, or comes after the end.  For a course without a     *)
(* legacy level and a test whose results are levels of the course           *)
(* (completeWithLevel, placement_apply_result_v1,                           *)
(* uq_placement_one_completed).                                             *)
THEOREM PlacedAsAnswered ==
  InitialLevel = 0 /\ ResultsAreLevels => (PlacementSafety => []PlacedByAnswers)
<1> SUFFICES ASSUME InitialLevel = 0, ResultsAreLevels
             PROVE  PlacementSafety => []PlacedByAnswers
  OBVIOUS
<1>1. PlacementInv => PlacedByAnswers
  <2> SUFFICES ASSUME PlacementInv PROVE PlacedByAnswers
    OBVIOUS
  <2>1. Cardinality(Those({"completed"})) <= 1
    <3> DEFINE done == Those({"completed"})
    <3>1. \A t \in done : t \in Sittings /\ sitting[t].status = "completed"
      BY DEF Those
    <3>2. \A s, t \in done : s = t
      BY <3>1 DEF PlacementInv, OneCompleted
    <3> HIDE DEF done
    <3>3. done = {} => Cardinality(done) = 0
      BY FS_EmptySet
    <3>4. ASSUME NEW s \in done
          PROVE  Cardinality(done) = 1
      <4>1. done = {s}
        BY <3>2
      <4> QED
        BY <4>1, FS_Singleton
    <3>5. Cardinality(done) <= 1
      BY <3>3, <3>4, FS_EmptySet
    <3> QED
      BY <3>5 DEF done
  <2>2. ASSUME NEW s \in Sittings
        PROVE  /\ sitting[s].status = "completed" => sitting[s].raw # 0
               /\ sitting[s].raw # 0 => /\ DueByAnswers(s) \/ DueByTexts(s)
                                        /\ place.level >= sitting[s].raw
    <3>1. /\ sitting[s].status = "completed" => sitting[s].raw # 0
          /\ sitting[s].raw # 0 => /\ DueLevel(s, sitting[s].raw)
                                   /\ place.level >= sitting[s].raw
      BY DEF PlacementInv, SittingSound
    <3>2. DueToTexts(s, sitting[s].raw) => DueByTexts(s)
      BY DEF DueToTexts, DueByTexts
    <3>3. DueToAnswers(sitting[s].answers, sitting[s].raw) => DueByAnswers(s)
      <4> SUFFICES ASSUME NEW cp \in Reached(sitting[s].answers) \ {Gate},
                          Asked(cp, sitting[s].answers) = {},
                          Route(cp, sitting[s].answers)
                            = [checkpoint |-> Nowhere, level |-> sitting[s].raw]
                   PROVE  DueByAnswers(s)
        BY DEF DueToAnswers, Resolved
      <4>1. cp \in Checkpoints
        BY ReachedCheckpoints, PlacementAssumption
      <4> QED
        BY <4>1 DEF DueByAnswers
    <3> QED
      BY <3>1, <3>2, <3>3 DEF DueLevel
  <2> QED
    BY <2>1, <2>2 DEF PlacedByAnswers
<1> QED
  BY <1>1, PlacementInvariant, PTL

-------------------------------------------------------------------------------
(* Types.  Requests about to begin a sitting have found room for one: the   *)
(* bound on sittings is overrun by one sitting of each tab at most.         *)
Beginning == {c \in Tabs : TabAt(c, "insert")}

RoomLeft == Len(sitting) + Cardinality(Beginning) < MaxSittings + Cardinality(Tabs)

(* What any step does to that: a request finds room, uses it, or neither.   *)
FindsRoom == Len(sitting) < MaxSittings /\ Len(sitting') = Len(sitting)

TakesRoom(c) == /\ c \in Beginning /\ Len(sitting') = Len(sitting) + 1
                /\ Beginning' \subseteq Beginning \ {c}

NoRoomTaken == Len(sitting') = Len(sitting) /\ Beginning' \subseteq Beginning

(* The request of c goes somewhere else than to begin a sitting.            *)
Elsewhere(c) == tab'[c].at # "insert" /\ \A d \in Tabs : d # c => tab'[d] = tab[d]

(* The request is no longer, or still not, about to begin one.              *)
LEMMA ElsewhereBegins ==
  ASSUME NEW c \in Tabs, Elsewhere(c)
  PROVE  Beginning' \subseteq Beginning \ {c}
BY DEF Elsewhere, Beginning, TabAt

(* How a request goes elsewhere.                                            *)
LEMMA GoesElsewhere ==
  ASSUME RowsTyped, NEW c \in Tabs
  PROVE  /\ \A stage \in TabStages \ {"insert"} : Move(c, stage) => Elsewhere(c)
         /\ Close(c) => Elsewhere(c)
         /\ \A kind : Restart(c, kind) => Elsewhere(c)
         /\ \A stage \in TabStages \ {"insert"} : \A s : MoveWith(c, stage, s) => Elsewhere(c)
<1>1. /\ tab = [d \in Tabs |-> tab[d]] /\ tab[c] \in TabRows
      /\ IdleTab.at = "idle"
  BY DEF RowsTyped, IdleTab
<1>2. ASSUME NEW r, r.at # "insert", tab' = [tab EXCEPT ![c] = r]
      PROVE  Elsewhere(c)
  BY <1>1, <1>2 DEF Elsewhere
<1>3. ASSUME NEW stage \in TabStages \ {"insert"}, Move(c, stage)
      PROVE  Elsewhere(c)
  <2>1. [tab[c] EXCEPT !.at = stage].at = stage
    BY <1>1 DEF TabRows
  <2> QED
    BY <1>1, <1>3, <2>1, <1>2 DEF Move
<1>4. ASSUME NEW kind, Restart(c, kind)
      PROVE  Elsewhere(c)
  <2>1. [IdleTab EXCEPT !.at = "look", !.kind = kind].at = "look"
    BY DEF IdleTab
  <2> QED
    BY <1>1, <1>4, <2>1, <1>2 DEF Restart
<1>5. ASSUME NEW stage \in TabStages \ {"insert"}, NEW s, MoveWith(c, stage, s)
      PROVE  Elsewhere(c)
  <2>1. [tab[c] EXCEPT !.at = stage, !.sitting = s, !.status = sitting[s].status,
                       !.checkpoint = sitting[s].checkpoint].at = stage
    BY <1>1 DEF TabRows
  <2> QED
    BY <1>1, <1>5, <2>1, <1>2 DEF MoveWith
<1> QED
  BY <1>1, <1>2, <1>3, <1>4, <1>5 DEF Close

(* The requests that look find room or go on.                               *)
LEMMA LookingRoom ==
  ASSUME RowsTyped, NEW c \in Tabs, LookCompleted(c) \/ LookOpen(c) \/ MarkAbandoned(c)
  PROVE  FindsRoom \/ NoRoomTaken
<1>1. Len(sitting') = Len(sitting)
  BY DEF RowsTyped, LookCompleted, LookOpen, MarkAbandoned
<1>2. FindsRoom \/ Elsewhere(c)
  <2>1. "open" \in TabStages \ {"insert"} /\ {"advance", "skip", "abandon"} \subseteq TabStages \ {"insert"}
    BY DEF TabStages
  <2>2. CASE LookCompleted(c)
    BY <2>1, <2>2, GoesElsewhere DEF LookCompleted
  <2>3. CASE LookOpen(c)
    <3>1. CASE NoneOpen(c)
      BY <1>1, <3>1, GoesElsewhere DEF NoneOpen, FindsRoom
    <3>2. ASSUME NEW s, FindsOpen(c, s)
          PROVE  Elsewhere(c)
      <4>1. Close(c) \/ \E stage \in {"advance", "skip", "abandon"} : MoveWith(c, stage, s)
        BY <3>2 DEF FindsOpen
      <4> QED
        BY <2>1, <4>1, GoesElsewhere
    <3> QED
      BY <2>3, <3>1, <3>2 DEF LookOpen
  <2>4. CASE MarkAbandoned(c)
    BY <1>1, <2>4, GoesElsewhere DEF MarkAbandoned, FindsRoom
  <2> QED
    BY <2>2, <2>3, <2>4
<1> QED
  BY <1>1, <1>2, ElsewhereBegins DEF NoRoomTaken

(* A request that begins a sitting uses the room it found.                  *)
LEMMA InsertRoom ==
  ASSUME RowsTyped, NEW c \in Tabs, InsertSitting(c)
  PROVE  NoRoomTaken \/ TakesRoom(c)
<1>1. /\ tab = [d \in Tabs |-> tab[d]] /\ tab[c] \in TabRows /\ c \in Beginning
      /\ sitting \in Seq(SittingRows)
  BY DEF RowsTyped, InsertSitting, Beginning
<1>2. ASSUME NEW row, sitting' = Append(sitting, row)
      PROVE  Len(sitting') = Len(sitting) + 1
  BY <1>1, <1>2
<1>3. CASE Close(c) /\ sitting' = Append(sitting, NewSitting("skipped"))
  BY <1>1, <1>2, <1>3, GoesElsewhere, ElsewhereBegins DEF TakesRoom
<1>4. CASE /\ sitting' = Append(sitting, NewSitting("in_progress"))
           /\ tab' = [tab EXCEPT ![c] = [@ EXCEPT !.at = "advance",
                                                  !.sitting = Len(sitting) + 1,
                                                  !.status = "in_progress",
                                                  !.checkpoint = StartCheckpoint]]
  <2> DEFINE r == [tab[c] EXCEPT !.at = "advance", !.sitting = Len(sitting) + 1,
                                 !.status = "in_progress", !.checkpoint = StartCheckpoint]
  <2>1. r.at = "advance"
    BY <1>1 DEF TabRows
  <2>2. tab' = [tab EXCEPT ![c] = r]
    BY <1>4
  <2> HIDE DEF r
  <2>3. Elsewhere(c)
    BY <1>1, <2>1, <2>2 DEF Elsewhere
  <2> QED
    BY <1>1, <1>2, <1>4, <2>3, ElsewhereBegins DEF TakesRoom
<1>5. CASE /\ tab' = [tab EXCEPT ![c] = [@ EXCEPT !.at = "open", !.kind = "retry"]]
           /\ UNCHANGED sitting
  <2> DEFINE r == [tab[c] EXCEPT !.at = "open", !.kind = "retry"]
  <2>1. r.at = "open"
    BY <1>1 DEF TabRows
  <2>2. tab' = [tab EXCEPT ![c] = r]
    BY <1>5
  <2> HIDE DEF r
  <2>3. Elsewhere(c)
    BY <1>1, <2>1, <2>2 DEF Elsewhere
  <2> QED
    BY <1>5, <2>3, ElsewhereBegins DEF NoRoomTaken
<1> QED
  BY <1>3, <1>4, <1>5 DEF InsertSitting

(* The other steps of a request begin none.                                 *)
LEMMA ServingRoom ==
  ASSUME RowsTyped, NEW c \in Tabs, Serving(c), ~InsertSitting(c), ~LookCompleted(c),
         ~LookOpen(c), ~MarkAbandoned(c)
  PROVE  NoRoomTaken
<1>1. /\ tab = [d \in Tabs |-> tab[d]] /\ tab[c] \in TabRows /\ sitting \in Seq(SittingRows)
  BY DEF RowsTyped
<1>2. /\ {"complete", "leave", "advance", "texts", "evaluate"} \subseteq TabStages \ {"insert"}
  BY DEF TabStages
<1>3. ASSUME NEW r, r.at # "insert", tab' = [tab EXCEPT ![c] = r]
      PROVE  Elsewhere(c)
  BY <1>1, <1>3 DEF Elsewhere
<1>4. Len(sitting') = Len(sitting)
  <2>1. UNCHANGED sitting \/ \E s, row : sitting' = [sitting EXCEPT ![s] = row]
    BY DEF Serving, ApplyResult, SkipSitting, CheckAnswer, RecordAnswer, LoadAnswers, Walk,
       ShowGate, Park, StoreText, LookAtTexts, EvaluateTexts, LeavePending, CompleteSitting
  <2> QED
    BY <1>1, <2>1
<1>5. CASE \/ ApplyResult(c) \/ SkipSitting(c) \/ RecordAnswer(c) \/ ShowGate(c) \/ StoreText(c)
           \/ LookAtTexts(c) \/ LeavePending(c) \/ CompleteSitting(c)
  <2>1. Close(c) \/ \E stage \in {"complete", "leave", "advance", "texts", "evaluate"} : Move(c, stage)
    BY <1>5 DEF ApplyResult, SkipSitting, RecordAnswer, ShowGate, StoreText, LookAtTexts,
       LeavePending, CompleteSitting
  <2>2. Elsewhere(c)
    BY <1>2, <2>1, GoesElsewhere
  <2> QED
    BY <1>4, <2>2, ElsewhereBegins DEF NoRoomTaken
<1>6. CASE CheckAnswer(c) \/ LoadAnswers(c) \/ Walk(c) \/ EvaluateTexts(c)
  <2>1. Elsewhere(c)
    <3>1. CASE CheckAnswer(c)
      <4>1. [tab[c] EXCEPT !.at = "record", !.seen = sitting[tab[c].sitting].answers].at = "record"
        BY <1>1 DEF TabRows
      <4>2. "advance" \in TabStages \ {"insert"}
        BY <1>2
      <4> QED
        BY <1>3, <3>1, <4>1, <4>2, GoesElsewhere DEF CheckAnswer
    <3>2. CASE LoadAnswers(c)
      <4>1. [tab[c] EXCEPT !.at = "walk", !.seen = sitting[tab[c].sitting].answers].at = "walk"
        BY <1>1 DEF TabRows
      <4> QED
        BY <1>3, <3>2, <4>1 DEF LoadAnswers
    <3>3. CASE Walk(c)
      <4> DEFINE route == Route(tab[c].checkpoint, tab[c].seen)
      <4>1. /\ [tab[c] EXCEPT !.at = "apply", !.level = route.level].at = "apply"
            /\ [tab[c] EXCEPT !.checkpoint = route.checkpoint].at = tab[c].at
            /\ tab[c].at = "walk"
        BY <1>1, <3>3 DEF TabRows, Walk, TabAt
      <4>2. \/ Close(c)
            \/ tab' = [tab EXCEPT ![c] = [tab[c] EXCEPT !.at = "apply", !.level = route.level]]
            \/ tab' = [tab EXCEPT ![c] = [tab[c] EXCEPT !.checkpoint = route.checkpoint]]
        BY <3>3 DEF Walk
      <4> HIDE DEF route
      <4> QED
        BY <1>3, <4>1, <4>2, GoesElsewhere
    <3>4. CASE EvaluateTexts(c)
      <4>1. \A level : /\ [tab[c] EXCEPT !.at = "apply", !.level = level].at = "apply"
                       /\ [tab[c] EXCEPT !.at = "lend", !.level = level].at = "lend"
        BY <1>1 DEF TabRows
      <4>2. \E level : \/ tab' = [tab EXCEPT ![c] = [tab[c] EXCEPT !.at = "apply", !.level = level]]
                       \/ tab' = [tab EXCEPT ![c] = [tab[c] EXCEPT !.at = "lend", !.level = level]]
        BY <3>4 DEF EvaluateTexts
      <4> QED
        BY <1>3, <4>1, <4>2
    <3> QED
      BY <1>6, <3>1, <3>2, <3>3, <3>4
  <2> QED
    BY <1>4, <2>1, ElsewhereBegins DEF NoRoomTaken
<1> QED
  BY <1>5, <1>6 DEF Serving

(* A request that is just asked for has found no room yet.                  *)
LEMMA AskingRoom ==
  ASSUME RowsTyped, NEW c \in Tabs, Continue(c) \/ Interfere(c)
  PROVE  NoRoomTaken
<1>1. /\ tab = [d \in Tabs |-> tab[d]]
      /\ {"text", "advance", "evaluate"} \subseteq TabStages \ {"insert"}
  BY DEF RowsTyped, TabStages
<1>2. ASSUME NEW kind, Ask(c, kind)
      PROVE  UNCHANGED sitting /\ Elsewhere(c)
  BY <1>2, GoesElsewhere DEF Ask
<1>3. ASSUME NEW s, ReadForAnswer(c, s)
      PROVE  UNCHANGED sitting /\ Elsewhere(c)
  <2> DEFINE r == [IdleTab EXCEPT !.at = IF sitting[s].expired THEN "abandon" ELSE "answer",
                                  !.kind = "answer", !.sitting = s, !.status = "in_progress",
                                  !.checkpoint = sitting[s].checkpoint]
  <2>1. r.at # "insert"
    BY DEF IdleTab
  <2>2. Restart(c, "state") \/ tab' = [tab EXCEPT ![c] = r]
    BY <1>3 DEF ReadForAnswer
  <2>3. UNCHANGED sitting
    BY <1>3 DEF ReadForAnswer
  <2> HIDE DEF r
  <2>4. Elsewhere(c)
    BY <1>1, <2>1, <2>2, GoesElsewhere DEF Elsewhere
  <2> QED
    BY <2>3, <2>4
<1>4. ASSUME NEW s, ReadForText(c, s)
      PROVE  UNCHANGED sitting /\ Elsewhere(c)
  <2>1. /\ UNCHANGED sitting
        /\ MoveWith(c, "text", s) \/ MoveWith(c, "advance", s) \/ Restart(c, "state")
    BY <1>4 DEF ReadForText
  <2> QED
    BY <1>1, <2>1, GoesElsewhere
<1>5. ASSUME AskEvaluation(c)
      PROVE  UNCHANGED sitting /\ Elsewhere(c)
  <2>1. UNCHANGED sitting /\ ((\E s : MoveWith(c, "evaluate", s)) \/ Restart(c, "state"))
    BY <1>5 DEF AskEvaluation
  <2> QED
    BY <1>1, <2>1, GoesElsewhere
<1>6. \/ \E kind : Ask(c, kind)
      \/ \E s : ReadForAnswer(c, s) \/ ReadForText(c, s)
      \/ AskEvaluation(c)
  <2>1. CASE Interfere(c)
    BY <2>1, Zenon DEF Interfere
  <2>2. CASE Continue(c)
    <3>1. ASSUME NEW s,
                 CASE sitting[s].checkpoint # Gate -> ReadForAnswer(c, s)
                   [] sitting[s].texts # C2Steps   -> ReadForText(c, s)
                   [] OTHER                        -> Ask(c, "state")
          PROVE  ReadForAnswer(c, s) \/ ReadForText(c, s) \/ Ask(c, "state")
      BY <3>1
    <3> QED
      BY <2>2, <3>1 DEF Continue
  <2> QED
    BY <2>1, <2>2
<1> QED
  BY <1>2, <1>3, <1>4, <1>5, <1>6, ElsewhereBegins DEF NoRoomTaken

(* No step makes more room be used than was found.                          *)
LEMMA RoomStep ==
  ASSUME PlacementAssumption, RowsTyped, [PlacementNext]_bothVars
  PROVE  FindsRoom \/ NoRoomTaken \/ \E c \in Tabs : TakesRoom(c)
<1>1. ASSUME NEW c \in Tabs, Serving(c)
      PROVE  FindsRoom \/ NoRoomTaken \/ TakesRoom(c)
  BY <1>1, LookingRoom, InsertRoom, ServingRoom
<1>2. ASSUME NEW c \in Tabs, Continue(c) \/ Interfere(c)
      PROVE  NoRoomTaken
  BY <1>2, AskingRoom
<1>3. CASE PlacementMishap
  <2>1. Len(sitting') = Len(sitting)
    BY <1>3 DEF RowsTyped, PlacementMishap, ExpireSitting, SweepSitting, TabDies
  <2>2. UNCHANGED tab \/ \E c \in Tabs : Close(c)
    BY <1>3 DEF PlacementMishap, ExpireSitting, SweepSitting, TabDies
  <2>3. Beginning' \subseteq Beginning
    BY <2>2, GoesElsewhere, ElsewhereBegins DEF Beginning, TabAt
  <2> QED
    BY <2>1, <2>3 DEF NoRoomTaken
<1>4. CASE (CurriculumNext /\ UNCHANGED placementVars) \/ UNCHANGED bothVars
  BY <1>4 DEF placementVars, bothVars, NoRoomTaken, Beginning, TabAt
<1>5. MainTab \in Tabs
  BY DEF PlacementAssumption
<1> QED
  BY <1>1, <1>2, <1>3, <1>4, <1>5 DEF PlacementNext

(* So the room found is never overrun.                                      *)
LEMMA RoomInvariant ==
  ASSUME InitialLevel = 0, ResultsAreLevels
  PROVE  PlacementSafety => [](RowsTyped /\ RoomLeft)
<1> USE PlacementAssumption
<1>1. /\ IsFiniteSet(Tabs) /\ Cardinality(Tabs) \in Nat /\ Cardinality(Tabs) # 0
      /\ MaxSittings \in Nat
  BY FS_CardinalityType, FS_EmptySet DEF PlacementAssumption
<1>2. PlacementInit => RoomLeft
  <2> SUFFICES ASSUME PlacementInit PROVE RoomLeft
    OBVIOUS
  <2>1. Len(sitting) = 0 /\ Beginning = {}
    BY DEF PlacementInit, Beginning, TabAt, IdleTab
  <2> QED
    BY <1>1, <2>1, FS_EmptySet DEF RoomLeft
<1>3. RowsTyped /\ RowsTyped' /\ RoomLeft /\ [PlacementNext]_bothVars => RoomLeft'
  <2> SUFFICES ASSUME RowsTyped, RowsTyped', RoomLeft, [PlacementNext]_bothVars
               PROVE  RoomLeft'
    OBVIOUS
  <2>1. /\ Len(sitting) \in Nat /\ Len(sitting') \in Nat
        /\ Beginning \subseteq Tabs /\ Beginning' \subseteq Tabs
    BY DEF RowsTyped, Beginning
  <2>2. /\ IsFiniteSet(Beginning) /\ Cardinality(Beginning) \in Nat
        /\ IsFiniteSet(Beginning') /\ Cardinality(Beginning') \in Nat
        /\ Cardinality(Beginning') <= Cardinality(Tabs)
    BY <1>1, <2>1, FS_Subset, FS_CardinalityType
  <2>3. CASE FindsRoom
    BY <1>1, <2>1, <2>2, <2>3 DEF FindsRoom, RoomLeft
  <2>4. CASE NoRoomTaken
    <3>1. Cardinality(Beginning') <= Cardinality(Beginning)
      BY <2>2, <2>4, FS_Subset DEF NoRoomTaken
    <3> QED
      BY <1>1, <2>1, <2>2, <2>4, <3>1 DEF NoRoomTaken, RoomLeft
  <2>5. ASSUME NEW c \in Tabs, TakesRoom(c)
        PROVE  RoomLeft'
    <3>1. /\ IsFiniteSet(Beginning \ {c})
          /\ Cardinality(Beginning \ {c}) = Cardinality(Beginning) - 1
      BY <2>2, <2>5, FS_RemoveElement DEF TakesRoom
    <3>2. Cardinality(Beginning') <= Cardinality(Beginning \ {c})
      BY <2>5, <3>1, FS_Subset DEF TakesRoom
    <3> QED
      BY <1>1, <2>1, <2>2, <2>5, <3>1, <3>2 DEF TakesRoom, RoomLeft
  <2> QED
    BY <2>3, <2>4, <2>5, RoomStep
<1>4. PlacementInv => RowsTyped
  BY DEF PlacementInv
<1> QED
  BY <1>2, <1>3, <1>4, PlacementInvariant, PTL DEF PlacementSafety

(* Sittings and requests keep their types, and no tabs, however many,       *)
(* overrun the bound on sittings by more than one each (InsertSitting).     *)
THEOREM PlacementTypes ==
  InitialLevel = 0 /\ ResultsAreLevels => (PlacementSafety => []PlacementTypeOK)
<1> SUFFICES ASSUME InitialLevel = 0, ResultsAreLevels
             PROVE  PlacementSafety => []PlacementTypeOK
  OBVIOUS
<1>1. RowsTyped /\ RoomLeft => PlacementTypeOK
  <2> SUFFICES ASSUME RowsTyped, RoomLeft PROVE PlacementTypeOK
    OBVIOUS
  <2>1. /\ IsFiniteSet(Tabs) /\ Cardinality(Tabs) \in Nat /\ MaxSittings \in Nat
        /\ Len(sitting) \in Nat /\ Beginning \subseteq Tabs
    BY PlacementAssumption, FS_CardinalityType DEF PlacementAssumption, RowsTyped, Beginning
  <2>2. Cardinality(Beginning) \in Nat
    BY <2>1, FS_Subset, FS_CardinalityType
  <2>3. Len(sitting) < MaxSittings + Cardinality(Tabs)
    BY <2>1, <2>2 DEF RoomLeft
  <2>4. ASSUME NEW s \in Sittings
        PROVE  /\ sitting[s].status \in SittingStatuses
               /\ sitting[s].checkpoint \in Checkpoints \cup {Gate, Nowhere}
               /\ sitting[s].texts \subseteq C2Steps
    <3>1. sitting[s] \in SittingRows
      BY DEF RowsTyped, Sittings
    <3> QED
      BY <3>1 DEF SittingRows, Positions
  <2>5. ASSUME NEW c \in Tabs
        PROVE  tab[c].at \in TabStages /\ tab[c].sitting \in 0..Len(sitting)
    <3>1. tab[c] \in TabRows /\ tab[c].sitting <= Len(sitting)
      BY DEF RowsTyped
    <3> QED
      BY <2>1, <3>1 DEF TabRows
  <2> QED
    BY <2>3, <2>4, <2>5 DEF PlacementTypeOK, RowsTyped
<1> QED
  BY <1>1, RoomInvariant, PTL

-------------------------------------------------------------------------------
(* The reminders.  From its claim to its mark an event is one invocation's. *)
Holding(i) == invocation[i].at \in {"revalidate", "gate", "send", "mark"}

ClaimsAreHeld ==
  \A i \in Invocations : Holding(i) =>
    /\ invocation[i].learner \in Learners
    /\ reminder[invocation[i].learner] = "claimed"
    /\ \A k \in Invocations : Holding(k) /\ k # i =>
         invocation[k].learner # invocation[i].learner

(* What the invocation has found out, and whether it has sent.              *)
Knows(i) ==
  LET u == invocation[i].learner IN
  /\ Holding(i) /\ ~Invoked(i, "mark") => delivered[u] = 0
  /\ invocation[i].at \in {"gate", "send"} =>
       u \in Allowed /\ practice[u] # "before the claim"
  /\ Invoked(i, "send") => optOut[u] # "before the claim"
  /\ Invoked(i, "mark") =>
       /\ invocation[i].outcome \in Outcomes
       /\ invocation[i].outcome = "sent" => delivered[u] = 1
       /\ invocation[i].outcome \in {"skipped", "dry_run"} => delivered[u] = 0

HoldersKnow == \A i \in Invocations : Knows(i)

(* Who is due and lies behind the start of an invocation is still ahead of  *)
(* it: on its page, or after its cursor.                                    *)
DueIsAhead ==
  \A i \in Invocations : invocation[i].sound =>
    \A u \in DueNow : u > invocation[i].from =>
      /\ Invoked(i, "page") => u > invocation[i].cursor
      /\ Invoked(i, "rows") \/ Holding(i) =>
           \/ u \in invocation[i].page
           \/ u > invocation[i].cursor /\ ~invocation[i].last
      /\ ~Invoked(i, "drained")

PushInv == /\ PushTypeOK
           /\ ClaimsAreHeld
           /\ HoldersKnow
           /\ RemindedOnce
           /\ DueIsAhead

(* What an invocation writes about itself leaves the others alone.          *)
LEMMA OthersAlone ==
  ASSUME PushTypeOK, NEW i \in Invocations, NEW r \in InvocationRecord,
         invocation' = [invocation EXCEPT ![i] = r]
  PROVE  /\ invocation' \in [Invocations -> InvocationRecord]
         /\ invocation'[i] = r
         /\ \A k \in Invocations : k # i => invocation'[k] = invocation[k]
BY DEF PushTypeOK

(* A step of one invocation that touches no event keeps the invariant if it *)
(* keeps what is said of that invocation.                                   *)
LEMMA OwnBusiness ==
  ASSUME PushInv, NEW i \in Invocations, NEW r \in InvocationRecord,
         invocation' = [invocation EXCEPT ![i] = r],
         UNCHANGED <<reminder, delivered, practice, optOut>>,
         r.at \in {"revalidate", "gate", "send", "mark"} =>
           Holding(i) /\ r.learner = invocation[i].learner,
         HoldersKnow', DueIsAhead'
  PROVE  PushInv'
<1>1. PushTypeOK' /\ RemindedOnce'
  BY OthersAlone DEF PushInv, PushTypeOK, RemindedOnce
<1>2. ClaimsAreHeld'
  <2>1. /\ invocation'[i] = r
        /\ \A k \in Invocations : k # i => invocation'[k] = invocation[k]
    BY OthersAlone DEF PushInv
  <2>2. \A k \in Invocations : Holding(k)' =>
          Holding(k) /\ invocation'[k].learner = invocation[k].learner
    BY <2>1 DEF Holding
  <2> QED
    BY <2>2 DEF PushInv, ClaimsAreHeld
<1> QED
  BY <1>1, <1>2 DEF PushInv

(* Stages in which nothing is held, between candidates.                     *)
LEMMA WalkKeepsPush ==
  ASSUME PushAssumption, PushInv, NEW i \in Invocations,
         Invoke(i) \/ FetchPage(i) \/ EndPage(i) \/ StopOnBudget(i) \/ InvocationDies(i)
  PROVE  PushInv'
<1> USE DEF PushInv
<1>1. invocation[i] \in InvocationRecord
  BY DEF PushTypeOK
<1>2. CASE Invoke(i)
  <2>1. PICK from \in {0} \cup {invocation[k].cursor : k \in {k \in Invocations : Invoked(k, "stopped")}} :
          invocation' = [invocation EXCEPT ![i] = [@ EXCEPT !.at = "page",
                                                            !.from = from,
                                                            !.cursor = from]]
    BY <1>2 DEF Invoke
  <2>2. from \in {0} \cup Learners
    BY DEF PushTypeOK, InvocationRecord
  <2> DEFINE r == [invocation[i] EXCEPT !.at = "page", !.from = from, !.cursor = from]
  <2>3. r \in InvocationRecord /\ r.at = "page" /\ r.from = r.cursor
    BY <1>1, <2>2 DEF InvocationRecord, InvocationStages
  <2>4. invocation' = [invocation EXCEPT ![i] = r]
    BY <2>1
  <2> HIDE DEF r
  <2>5. /\ invocation'[i] = r
        /\ \A k \in Invocations : k # i => invocation'[k] = invocation[k]
    BY <2>3, <2>4, OthersAlone
  <2>6. UNCHANGED <<reminder, delivered, practice, optOut>>
    BY <1>2 DEF Invoke
  <2>7. HoldersKnow'
    BY <2>3, <2>5, <2>6 DEF HoldersKnow, Knows, Holding, Invoked
  <2>8. DueIsAhead'
    BY <2>3, <2>5, <2>6 DEF DueIsAhead, Holding, Invoked, DueNow
  <2> QED
    BY <2>3, <2>4, <2>6, <2>7, <2>8, OwnBusiness
<1>3. CASE EndPage(i)
  <2> DEFINE r == [invocation[i] EXCEPT !.at = IF invocation[i].last THEN "drained" ELSE "page"]
  <2>1. /\ r \in InvocationRecord /\ r.from = invocation[i].from /\ r.cursor = invocation[i].cursor
        /\ r.sound = invocation[i].sound
        /\ r.at = IF invocation[i].last THEN "drained" ELSE "page"
    BY <1>1 DEF InvocationRecord, InvocationStages
  <2>2. invocation' = [invocation EXCEPT ![i] = r]
    BY <1>3 DEF EndPage, Proceed
  <2> HIDE DEF r
  <2>3. /\ invocation'[i] = r
        /\ \A k \in Invocations : k # i => invocation'[k] = invocation[k]
    BY <2>1, <2>2, OthersAlone
  <2>4. /\ UNCHANGED <<reminder, delivered, practice, optOut>>
        /\ Invoked(i, "rows") /\ invocation[i].page = {}
    BY <1>3 DEF EndPage
  <2>5. HoldersKnow'
    BY <2>1, <2>3, <2>4 DEF HoldersKnow, Knows, Holding, Invoked
  <2>6. DueIsAhead'
    BY <2>1, <2>3, <2>4 DEF DueIsAhead, Holding, Invoked, DueNow
  <2> QED
    BY <2>1, <2>2, <2>4, <2>5, <2>6, OwnBusiness
<1>4. CASE StopOnBudget(i) \/ InvocationDies(i)
  <2>1. PICK r \in InvocationRecord :
          /\ r.at \in {"stopped", "dead"}
          /\ invocation' = [invocation EXCEPT ![i] = r]
    <3>1. CASE StopOnBudget(i)
      BY <1>1, <3>1 DEF StopOnBudget, Proceed, InvocationRecord, InvocationStages
    <3>2. CASE InvocationDies(i)
      BY <3>2 DEF InvocationDies, Uninvoked, InvocationRecord, InvocationStages
    <3> QED
      BY <1>4, <3>1, <3>2
  <2>2. UNCHANGED <<reminder, delivered, practice, optOut>>
    BY <1>4 DEF StopOnBudget, InvocationDies
  <2>3. /\ invocation'[i] = r
        /\ \A k \in Invocations : k # i => invocation'[k] = invocation[k]
    BY <2>1, OthersAlone
  <2>4. HoldersKnow'
    BY <2>1, <2>2, <2>3 DEF HoldersKnow, Knows, Holding, Invoked
  <2>5. DueIsAhead'
    BY <2>1, <2>2, <2>3 DEF DueIsAhead, Holding, Invoked, DueNow
  <2> QED
    BY <2>1, <2>2, <2>4, <2>5, OwnBusiness
<1>5. CASE FetchPage(i)
  <2> DEFINE unseen == Unseen(invocation[i].cursor)
  <2>1. /\ Invoked(i, "page")
        /\ UNCHANGED <<reminder, delivered, practice, optOut>>
    BY <1>5 DEF FetchPage
  <2>2. invocation[i].sound => \A u \in DueNow : u > invocation[i].from => u \in unseen
    BY <2>1 DEF DueIsAhead, Unseen
  <2>3. CASE unseen = {} /\ Proceed(i, "drained")
    <3> DEFINE r == [invocation[i] EXCEPT !.at = "drained"]
    <3>1. /\ r \in InvocationRecord /\ r.from = invocation[i].from
          /\ r.sound = invocation[i].sound /\ r.at = "drained"
      BY <1>1 DEF InvocationRecord, InvocationStages
    <3>2. invocation' = [invocation EXCEPT ![i] = r]
      BY <2>3 DEF Proceed
    <3> HIDE DEF r
    <3>3. /\ invocation'[i] = r
          /\ \A k \in Invocations : k # i => invocation'[k] = invocation[k]
      BY <3>1, <3>2, OthersAlone
    <3>4. HoldersKnow'
      BY <2>1, <3>1, <3>3 DEF HoldersKnow, Knows, Holding, Invoked
    <3>5. r.sound => \A u \in DueNow : ~(u > r.from)
      BY <2>2, <2>3, <3>1
    <3>6. DueIsAhead'
      BY <2>1, <3>1, <3>3, <3>5 DEF DueIsAhead, Holding, Invoked, DueNow
    <3> QED
      BY <2>1, <3>1, <3>2, <3>4, <3>6, OwnBusiness
  <2>4. CASE Proceed(i, "stopped")
    <3> DEFINE r == [invocation[i] EXCEPT !.at = "stopped"]
    <3>1. r \in InvocationRecord /\ r.at = "stopped"
      BY <1>1 DEF InvocationRecord, InvocationStages
    <3>2. invocation' = [invocation EXCEPT ![i] = r]
      BY <2>4 DEF Proceed
    <3> HIDE DEF r
    <3>3. /\ invocation'[i] = r
          /\ \A k \in Invocations : k # i => invocation'[k] = invocation[k]
      BY <3>1, <3>2, OthersAlone
    <3>4. HoldersKnow'
      BY <2>1, <3>1, <3>3 DEF HoldersKnow, Knows, Holding, Invoked
    <3>5. DueIsAhead'
      BY <2>1, <3>1, <3>3 DEF DueIsAhead, Holding, Invoked, DueNow
    <3> QED
      BY <2>1, <3>1, <3>2, <3>4, <3>5, OwnBusiness
  <2>5. ASSUME NEW page \in SUBSET unseen, NEW u \in page,
               IsPage(page, unseen),
               \A v \in page : v <= u,
               invocation' = [invocation EXCEPT ![i] =
                                [@ EXCEPT !.at = "rows", !.page = page, !.cursor = u,
                                          !.last = Cardinality(page) < PageSize]]
        PROVE  PushInv'
    <3> DEFINE r == [invocation[i] EXCEPT !.at = "rows", !.page = page, !.cursor = u,
                                          !.last = Cardinality(page) < PageSize]
    <3>1. unseen \subseteq Learners
      BY DEF Unseen, DueNow
    <3>2. (Cardinality(page) < PageSize) \in BOOLEAN
      OBVIOUS
    <3> HIDE DEF unseen
    <3>3. /\ r \in InvocationRecord /\ r.from = invocation[i].from
          /\ r.sound = invocation[i].sound /\ r.at = "rows" /\ r.page = page
          /\ r.cursor = u /\ r.last = (Cardinality(page) < PageSize)
      BY <1>1, <3>1, <3>2 DEF InvocationRecord, InvocationStages
    <3>4. invocation' = [invocation EXCEPT ![i] = r]
      BY <2>5
    <3> HIDE DEF r
    <3>5. /\ invocation'[i] = r
          /\ \A k \in Invocations : k # i => invocation'[k] = invocation[k]
      BY <3>3, <3>4, OthersAlone
    <3>6. HoldersKnow'
      BY <2>1, <3>3, <3>5 DEF HoldersKnow, Knows, Holding, Invoked
    <3>7. ASSUME NEW v \in unseen, v \notin page
          PROVE  v > u /\ ~r.last
      <4>1. page # unseen
        BY <3>7
      <4>2. ~(v < u)
        BY <2>5, <3>7 DEF IsPage
      <4>3. v > u
        BY <3>1, <3>7, <4>2 DEF Learners
      <4>4. Cardinality(page) = PageSize
        BY <2>5, <4>1 DEF IsPage
      <4>5. ~(Cardinality(page) < PageSize)
        BY <4>4 DEF PushAssumption
      <4>6. ~r.last
        BY <3>3, <4>5, Zenon
      <4> QED
        BY <4>3, <4>6
    <3>8. DueIsAhead'
      BY <2>1, <2>2, <3>3, <3>5, <3>7 DEF DueIsAhead, Holding, Invoked, DueNow
    <3> QED
      BY <2>1, <3>3, <3>4, <3>6, <3>8, OwnBusiness
  <2> QED
    BY <1>5, <2>3, <2>4, <2>5 DEF FetchPage
<1> QED
  BY <1>2, <1>3, <1>4, <1>5

(* Between the claim and the sending, an invocation finds out.              *)
LEMMA ChecksKeepPush ==
  ASSUME PushAssumption, PushInv, NEW i \in Invocations,
         Revalidate(i) \/ CheckSuppression(i)
  PROVE  PushInv'
<1> USE DEF PushInv
<1> DEFINE u == invocation[i].learner
<1>1. /\ Holding(i) /\ ~Invoked(i, "mark")
      /\ UNCHANGED <<reminder, delivered, practice, optOut>>
  BY DEF Revalidate, CheckSuppression, Holding, Invoked
<1>2. delivered[u] = 0
  BY <1>1 DEF HoldersKnow, Knows
<1>3. PICK r \in InvocationRecord :
        /\ invocation' = [invocation EXCEPT ![i] = r]
        /\ r = [invocation[i] EXCEPT !.at = r.at, !.outcome = r.outcome]
        /\ \/ r.at = "mark" /\ r.outcome \in {"skipped", "dry_run"}
           \/ r.at = "gate" /\ u \in Allowed /\ practice[u] = "never"
           \/ r.at = "send" /\ Invoked(i, "gate") /\ optOut[u] = "never"
  <2>1. invocation[i] \in InvocationRecord
    BY DEF PushTypeOK
  <2>2. ASSUME NEW outcome \in {"skipped", "dry_run"}, Decide(i, outcome)
        PROVE  \E r \in InvocationRecord :
                 /\ invocation' = [invocation EXCEPT ![i] = r]
                 /\ r = [invocation[i] EXCEPT !.at = r.at, !.outcome = r.outcome]
                 /\ r.at = "mark" /\ r.outcome \in {"skipped", "dry_run"}
    <3> DEFINE r == [invocation[i] EXCEPT !.at = "mark", !.outcome = outcome]
    <3>1. /\ r \in InvocationRecord /\ r.at = "mark" /\ r.outcome = outcome
          /\ r = [invocation[i] EXCEPT !.at = r.at, !.outcome = r.outcome]
      BY <2>1 DEF InvocationRecord, InvocationStages, Outcomes
    <3>2. invocation' = [invocation EXCEPT ![i] = r]
      BY <2>2 DEF Decide
    <3> QED
      BY <3>1, <3>2
  <2>3. ASSUME NEW stage \in {"gate", "send"}, Proceed(i, stage)
        PROVE  \E r \in InvocationRecord :
                 /\ invocation' = [invocation EXCEPT ![i] = r]
                 /\ r = [invocation[i] EXCEPT !.at = r.at, !.outcome = r.outcome]
                 /\ r.at = stage
    <3> DEFINE r == [invocation[i] EXCEPT !.at = stage]
    <3>1. /\ r \in InvocationRecord /\ r.at = stage
          /\ r = [invocation[i] EXCEPT !.at = r.at, !.outcome = r.outcome]
      BY <2>1 DEF InvocationRecord, InvocationStages
    <3>2. invocation' = [invocation EXCEPT ![i] = r]
      BY <2>3 DEF Proceed
    <3> QED
      BY <3>1, <3>2
  <2>4. \/ \E outcome \in {"skipped", "dry_run"} : Decide(i, outcome)
        \/ u \in Allowed /\ practice[u] = "never" /\ Proceed(i, "gate")
        \/ Invoked(i, "gate") /\ optOut[u] = "never" /\ Proceed(i, "send")
    BY DEF Revalidate, CheckSuppression
  <2> QED
    BY <2>2, <2>3, <2>4
<1>4. /\ r.learner = u /\ r.from = invocation[i].from /\ r.cursor = invocation[i].cursor
      /\ r.page = invocation[i].page /\ r.last = invocation[i].last
      /\ r.sound = invocation[i].sound
  BY <1>3 DEF PushTypeOK, InvocationRecord
<1>5. /\ invocation'[i] = r
      /\ \A k \in Invocations : k # i => invocation'[k] = invocation[k]
  BY <1>3, OthersAlone
<1>6. Invoked(i, "gate") => u \in Allowed /\ practice[u] # "before the claim"
  BY DEF HoldersKnow, Knows, Invoked
<1> HIDE DEF u
<1>7. HoldersKnow'
  <2>1. ASSUME NEW k \in Invocations, k # i
        PROVE  Knows(k)'
    <3>1. Knows(k) /\ invocation'[k] = invocation[k]
      BY <1>5, <2>1 DEF HoldersKnow
    <3> QED
      BY <1>1, <3>1 DEF Knows, Holding, Invoked
  <2>2. /\ r.at # "mark" => delivered[u] = 0
        /\ r.at \in {"gate", "send"} => u \in Allowed /\ practice[u] # "before the claim"
        /\ r.at = "send" => optOut[u] # "before the claim"
        /\ r.at = "mark" => /\ r.outcome \in Outcomes
                            /\ r.outcome = "sent" => delivered[u] = 1
                            /\ r.outcome \in {"skipped", "dry_run"} => delivered[u] = 0
    BY <1>2, <1>3, <1>6 DEF Outcomes
  <2>3. /\ invocation'[i].at = r.at /\ invocation'[i].outcome = r.outcome
        /\ invocation'[i].learner = u
        /\ delivered' = delivered /\ practice' = practice /\ optOut' = optOut
    BY <1>1, <1>4, <1>5
  <2>4. Knows(i)'
    BY <2>2, <2>3 DEF Knows, Invoked
  <2> QED
    BY <2>1, <2>4 DEF HoldersKnow
<1>8. DueIsAhead'
  BY <1>1, <1>3, <1>4, <1>5 DEF DueIsAhead, Holding, Invoked, DueNow
<1> QED
  BY <1>1, <1>3, <1>4, <1>7, <1>8, OwnBusiness DEF u

(* Sending: nobody else holds the event, and nothing had been sent for it.  *)
LEMMA SendKeepsPush ==
  ASSUME PushAssumption, PushInv, NEW i \in Invocations, SendPush(i)
  PROVE  PushInv'
<1> USE DEF PushInv
<1> DEFINE u == invocation[i].learner
<1>1. /\ Holding(i) /\ Invoked(i, "send") /\ u \in Learners
      /\ UNCHANGED <<reminder, practice, optOut>>
      /\ reminder[u] = "claimed"
  BY DEF SendPush, Holding, Invoked, ClaimsAreHeld
<1>2. /\ delivered[u] = 0 /\ u \in Allowed
      /\ practice[u] # "before the claim" /\ optOut[u] # "before the claim"
  BY <1>1 DEF HoldersKnow, Knows, Invoked
<1>3. \E n \in {0, 1}, outcome \in {"sent", "failed"} :
        /\ delivered' = [delivered EXCEPT ![u] = n]
        /\ outcome = "sent" => n = 1
        /\ Decide(i, outcome)
  <2>1. CASE /\ delivered' = [delivered EXCEPT ![u] = @ + 1]
             /\ \E outcome \in {"sent", "failed"} : Decide(i, outcome)
    <3>1. ASSUME NEW n, n = 0
          PROVE  n + 1 = 1
      BY <3>1
    <3>2. delivered' = [delivered EXCEPT ![u] = delivered[u] + 1]
      BY <2>1
    <3>3. delivered' = [delivered EXCEPT ![u] = 1]
      BY <1>2, <3>1, <3>2, Zenon
    <3> QED
      BY <2>1, <3>3
  <2>2. CASE Decide(i, "failed") /\ UNCHANGED delivered
    <3>1. delivered' = [delivered EXCEPT ![u] = 0]
      BY <1>1, <1>2, <2>2 DEF PushTypeOK
    <3> QED
      BY <2>2, <3>1
  <2> QED
    BY <2>1, <2>2 DEF SendPush
<1>4. PICK n \in {0, 1}, outcome \in {"sent", "failed"} :
        /\ delivered' = [delivered EXCEPT ![u] = n]
        /\ outcome = "sent" => n = 1
        /\ Decide(i, outcome)
  BY <1>3
<1> DEFINE r == [invocation[i] EXCEPT !.at = "mark", !.outcome = outcome]
<1>5. invocation' = [invocation EXCEPT ![i] = r]
  BY <1>4 DEF Decide
<1>6. /\ r \in InvocationRecord /\ r.at = "mark" /\ r.outcome = outcome /\ r.learner = u
      /\ r.from = invocation[i].from /\ r.cursor = invocation[i].cursor
      /\ r.page = invocation[i].page /\ r.last = invocation[i].last
      /\ r.sound = invocation[i].sound
  BY DEF PushTypeOK, InvocationRecord, InvocationStages, Outcomes
<1> HIDE DEF r, u
<1>7. /\ invocation' \in [Invocations -> InvocationRecord]
      /\ invocation'[i] = r
      /\ \A k \in Invocations : k # i => invocation'[k] = invocation[k]
  BY <1>5, <1>6, OthersAlone
<1>8. /\ delivered' \in [Learners -> Nat] /\ delivered'[u] = n
      /\ \A v \in Learners : v # u => delivered'[v] = delivered[v]
  BY <1>1, <1>4 DEF PushTypeOK
<1>9. PushTypeOK'
  BY <1>1, <1>7, <1>8 DEF PushTypeOK
<1>10. ClaimsAreHeld'
  BY <1>1, <1>6, <1>7 DEF ClaimsAreHeld, Holding, u
<1>11. HoldersKnow'
  <2>1. ASSUME NEW k \in Invocations, k # i
        PROVE  Knows(k)'
    <3>1. Knows(k) /\ invocation'[k] = invocation[k]
      BY <1>7, <2>1 DEF HoldersKnow
    <3>2. Holding(k) => delivered'[invocation[k].learner] = delivered[invocation[k].learner]
      BY <1>1, <1>8, <2>1 DEF ClaimsAreHeld, u
    <3> QED
      BY <1>1, <3>1, <3>2 DEF Knows, Holding, Invoked
  <2>2. Knows(i)'
    <3>1. /\ invocation'[i].at = "mark" /\ invocation'[i].outcome = outcome
          /\ invocation'[i].learner = u
      BY <1>6, <1>7
    <3>2. ~(Holding(i)' /\ ~Invoked(i, "mark")') /\ ~Invoked(i, "send")'
      BY <3>1 DEF Invoked
    <3>3. outcome = "sent" => delivered'[u] = 1
      BY <1>4, <1>8
    <3> QED
      BY <3>1, <3>2, <3>3 DEF Knows, Invoked, Outcomes
  <2> QED
    BY <2>1, <2>2 DEF HoldersKnow
<1>12. RemindedOnce'
  <2>1. ASSUME NEW v \in Learners, v # u
        PROVE  delivered'[v] = delivered[v]
    BY <1>8, <2>1
  <2>2. delivered'[u] <= 1
    BY <1>4, <1>8
  <2> QED
    BY <1>1, <1>2, <2>1, <2>2 DEF RemindedOnce
<1>13. DueIsAhead'
  BY <1>1, <1>6, <1>7 DEF DueIsAhead, Holding, Invoked, DueNow
<1> QED
  BY <1>9, <1>10, <1>11, <1>12, <1>13

(* The claim: the row is there once, so whoever inserted it holds it alone. *)
LEMMA ClaimKeepsPush ==
  ASSUME PushAssumption, PushInv, NEW i \in Invocations, ClaimReminder(i)
  PROVE  PushInv'
<1> USE DEF PushInv
<1>1. PICK u, r :
        /\ u \in invocation[i].page
        /\ Invoked(i, "rows")
        /\ UNCHANGED <<delivered, practice, optOut>>
        /\ invocation' = [invocation EXCEPT ![i] = r]
        /\ \/ reminder' = reminder
           \/ reminder[u] = "none" /\ reminder' = [reminder EXCEPT ![u] = "claimed"]
        /\ \/ /\ r = [invocation[i] EXCEPT !.page = @ \ {u}, !.at = "revalidate", !.learner = u]
              /\ reminder[u] = "none" /\ reminder' = [reminder EXCEPT ![u] = "claimed"]
           \/ /\ r = [invocation[i] EXCEPT !.page = @ \ {u}]
              /\ reminder[u] # "none" /\ reminder' = reminder
           \/ r = [invocation[i] EXCEPT !.page = @ \ {u}, !.sound = FALSE]
  BY DEF ClaimReminder
<1>2. /\ u \in Learners /\ invocation[i] \in InvocationRecord /\ invocation[i].at = "rows"
      /\ reminder \in [Learners -> {"none", "claimed"} \cup Outcomes]
  BY <1>1 DEF PushTypeOK, InvocationRecord, Invoked
<1>3. /\ r \in InvocationRecord
      /\ r.from = invocation[i].from /\ r.cursor = invocation[i].cursor
      /\ r.last = invocation[i].last /\ r.page = invocation[i].page \ {u}
      /\ r.at \in {"rows", "revalidate"}
      /\ r.at = "revalidate" =>
           /\ r.learner = u /\ reminder[u] = "none"
           /\ reminder' = [reminder EXCEPT ![u] = "claimed"]
  BY <1>1, <1>2 DEF InvocationRecord, InvocationStages
<1>4. /\ r.sound => invocation[i].sound
      /\ r.sound => \/ reminder[u] # "none" /\ reminder' = reminder
                    \/ reminder' = [reminder EXCEPT ![u] = "claimed"]
  BY <1>1, <1>2 DEF InvocationRecord
<1>5. /\ invocation' \in [Invocations -> InvocationRecord]
      /\ invocation'[i] = r
      /\ \A k \in Invocations : k # i => invocation'[k] = invocation[k]
  BY <1>1, <1>3, OthersAlone
<1>6. /\ reminder' \in [Learners -> {"none", "claimed"} \cup Outcomes]
      /\ \A v \in Learners : v # u => reminder'[v] = reminder[v]
      /\ reminder'[u] = reminder[u] \/ (reminder[u] = "none" /\ reminder'[u] = "claimed")
      /\ r.at = "revalidate" => reminder'[u] = "claimed"
      /\ r.sound => reminder'[u] # "none"
  BY <1>1, <1>2, <1>3, <1>4
<1>7. PushTypeOK'
  BY <1>1, <1>5, <1>6 DEF PushTypeOK
<1>8. reminder[u] = "none" => delivered[u] = 0
  <2>1. delivered[u] \in Nat /\ delivered[u] <= 1
    BY <1>2 DEF PushTypeOK, RemindedOnce
  <2>2. reminder[u] = "none" => ~(delivered[u] = 1)
    BY <1>2 DEF RemindedOnce
  <2> QED
    BY <2>1, <2>2
<1>9. ClaimsAreHeld'
  <2>1. \A k \in Invocations : k # i =>
          Holding(k)' = Holding(k) /\ invocation'[k] = invocation[k]
    BY <1>5 DEF Holding
  <2>2. \A k \in Invocations : Holding(k) =>
          /\ invocation[k].learner \in Learners
          /\ reminder'[invocation[k].learner] = "claimed"
    BY <1>6 DEF ClaimsAreHeld
  <2>3. Holding(i)' =>
          /\ invocation'[i].learner = u /\ reminder'[u] = "claimed" /\ reminder[u] = "none"
    BY <1>3, <1>5, <1>6 DEF Holding
  <2>4. Holding(i)' => \A k \in Invocations : Holding(k) => invocation[k].learner # u
    BY <2>3 DEF ClaimsAreHeld
  <2> QED
    BY <1>2, <2>1, <2>2, <2>3, <2>4 DEF ClaimsAreHeld
<1>10. HoldersKnow'
  <2>1. ASSUME NEW k \in Invocations, k # i
        PROVE  Knows(k)'
    <3>1. Knows(k) /\ invocation'[k] = invocation[k]
      BY <1>5, <2>1 DEF HoldersKnow
    <3> QED
      BY <1>1, <3>1 DEF Knows, Holding, Invoked
  <2>2. Knows(i)'
    <3>1. invocation'[i].at \in {"rows", "revalidate"}
      BY <1>3, <1>5
    <3>2. ASSUME invocation'[i].at = "revalidate"
          PROVE  invocation'[i].learner = u /\ delivered[u] = 0
      BY <1>3, <1>5, <1>8, <3>2
    <3>3. delivered' = delivered
      BY <1>1
    <3>4. Holding(i)' => delivered'[invocation'[i].learner] = 0
      BY <3>1, <3>2, <3>3 DEF Holding
    <3> QED
      BY <3>1, <3>4 DEF Knows, Invoked
  <2> QED
    BY <2>1, <2>2 DEF HoldersKnow
<1>11. RemindedOnce'
  BY <1>1, <1>6, <1>8 DEF RemindedOnce
<1>12. DueIsAhead'
  <2>1. DueNow' \subseteq DueNow
    BY <1>1, <1>6 DEF DueNow
  <2>2. r.sound => u \notin DueNow'
    BY <1>6 DEF DueNow
  <2>3. ASSUME NEW v \in DueNow', r.sound, v > r.from
        PROVE  v \in r.page \/ (v > r.cursor /\ ~r.last)
    <3>1. v \in invocation[i].page \/ (v > invocation[i].cursor /\ ~invocation[i].last)
      BY <1>1, <1>3, <1>4, <2>1, <2>3 DEF DueIsAhead
    <3>2. v # u
      BY <2>2, <2>3
    <3> QED
      BY <1>3, <3>1, <3>2
  <2>4. ASSUME NEW k \in Invocations, k # i, invocation[k].sound,
               NEW v \in DueNow, v > invocation[k].from
        PROVE  /\ Invoked(k, "page") => v > invocation[k].cursor
               /\ Invoked(k, "rows") \/ Holding(k) =>
                    \/ v \in invocation[k].page
                    \/ v > invocation[k].cursor /\ ~invocation[k].last
               /\ ~Invoked(k, "drained")
    BY <2>4 DEF DueIsAhead
  <2> QED
    BY <1>3, <1>5, <2>1, <2>3, <2>4 DEF DueIsAhead, Holding, Invoked
<1> QED
  BY <1>7, <1>9, <1>10, <1>11, <1>12

(* The mark: what it writes is true of what was sent.                       *)
LEMMA MarkKeepsPush ==
  ASSUME PushAssumption, PushInv, NEW i \in Invocations, Mark(i)
  PROVE  PushInv'
<1> USE DEF PushInv
<1>1. /\ Holding(i) /\ Invoked(i, "mark")
      /\ UNCHANGED <<delivered, practice, optOut>>
  BY DEF Mark, Holding, Invoked
<1>2. PICK u \in Learners : u = invocation[i].learner /\ reminder[u] = "claimed"
  BY <1>1 DEF ClaimsAreHeld
<1>3. PICK said \in Outcomes : said = invocation[i].outcome
  BY <1>1 DEF HoldersKnow, Knows
<1>4. /\ said = "sent" => delivered[u] = 1
      /\ said \in {"skipped", "dry_run"} => delivered[u] = 0
  BY <1>1, <1>2, <1>3 DEF HoldersKnow, Knows
<1>5. PICK r \in InvocationRecord :
        /\ invocation' = [invocation EXCEPT ![i] = r]
        /\ r.at = "rows" /\ r.from = invocation[i].from /\ r.cursor = invocation[i].cursor
        /\ r.page = invocation[i].page /\ r.last = invocation[i].last
        /\ r.sound = invocation[i].sound
  <2> DEFINE r == [invocation[i] EXCEPT !.at = "rows", !.learner = 0, !.outcome = "none"]
  <2>1. /\ r \in InvocationRecord
        /\ r.at = "rows" /\ r.from = invocation[i].from /\ r.cursor = invocation[i].cursor
        /\ r.page = invocation[i].page /\ r.last = invocation[i].last
        /\ r.sound = invocation[i].sound
    BY DEF PushTypeOK, InvocationRecord, InvocationStages
  <2>2. invocation' = [invocation EXCEPT ![i] = r]
    BY DEF Mark
  <2> QED
    BY <2>1, <2>2
<1>6. /\ invocation' \in [Invocations -> InvocationRecord]
      /\ invocation'[i] = r
      /\ \A k \in Invocations : k # i => invocation'[k] = invocation[k]
  BY <1>5, OthersAlone
<1>7. reminder' = [reminder EXCEPT ![u] = said] \/ reminder' = reminder
  BY <1>2, <1>3 DEF Mark
<1>8. /\ reminder' \in [Learners -> {"none", "claimed"} \cup Outcomes]
      /\ \A v \in Learners : v # u => reminder'[v] = reminder[v]
      /\ reminder'[u] \in {"claimed", said}
  BY <1>2, <1>7 DEF PushTypeOK
<1>9. PushTypeOK'
  BY <1>1, <1>6, <1>8 DEF PushTypeOK
<1>10. \A k \in Invocations : k # i => Holding(k)' = Holding(k)
  BY <1>6 DEF Holding
<1>11. ~Holding(i)'
  BY <1>5, <1>6 DEF Holding
<1>12. ClaimsAreHeld'
  <2>1. \A k \in Invocations : Holding(k) /\ k # i => invocation[k].learner # u
    BY <1>1, <1>2 DEF ClaimsAreHeld
  <2> QED
    BY <1>6, <1>8, <1>10, <1>11, <2>1 DEF ClaimsAreHeld
<1>13. HoldersKnow'
  <2>1. ASSUME NEW k \in Invocations, k # i
        PROVE  Knows(k)'
    <3>1. Knows(k) /\ invocation'[k] = invocation[k]
      BY <1>6, <2>1 DEF HoldersKnow
    <3> QED
      BY <1>1, <3>1 DEF Knows, Holding, Invoked
  <2>2. Knows(i)'
    BY <1>5, <1>6, <1>11 DEF Knows, Invoked
  <2> QED
    BY <2>1, <2>2 DEF HoldersKnow
<1>14. RemindedOnce'
  <2>1. said \in {"sent", "failed"} \/ delivered[u] = 0
    BY <1>4 DEF Outcomes
  <2>2. delivered[u] = 1 => reminder'[u] \in {"claimed", "sent", "failed"}
    BY <1>8, <2>1
  <2>3. reminder'[u] = "sent" => delivered[u] = 1
    BY <1>4, <1>8
  <2>4. \A v \in Learners : v # u => reminder'[v] = reminder[v]
    BY <1>8
  <2> QED
    BY <1>1, <2>2, <2>3, <2>4 DEF RemindedOnce
<1>15. DueIsAhead'
  <2>1. DueNow' \subseteq DueNow
    BY <1>1, <1>2, <1>8 DEF DueNow, Outcomes
  <2>2. ASSUME NEW v \in DueNow', r.sound, v > r.from
        PROVE  v \in r.page \/ (v > r.cursor /\ ~r.last)
    BY <1>1, <1>5, <2>1, <2>2 DEF DueIsAhead
  <2>3. ASSUME NEW k \in Invocations, k # i, invocation[k].sound,
               NEW v \in DueNow, v > invocation[k].from
        PROVE  /\ Invoked(k, "page") => v > invocation[k].cursor
               /\ Invoked(k, "rows") \/ Holding(k) =>
                    \/ v \in invocation[k].page
                    \/ v > invocation[k].cursor /\ ~invocation[k].last
               /\ ~Invoked(k, "drained")
    BY <2>3 DEF DueIsAhead
  <2> QED
    BY <1>5, <1>6, <2>1, <2>2, <2>3 DEF DueIsAhead, Holding, Invoked
<1> QED
  BY <1>9, <1>12, <1>13, <1>14, <1>15

(* What learners do: it is "before the claim" only while there is no event. *)
LEMMA LearnersKeepPush ==
  ASSUME PushInv, NEW u \in Learners, PractiseToday(u) \/ OptOut(u)
  PROVE  PushInv'
<1> USE DEF PushInv
<1>1. /\ UNCHANGED <<reminder, delivered, invocation>>
      /\ practice' = practice \/ practice' = [practice EXCEPT ![u] = Moment(u)]
      /\ optOut' = optOut \/ optOut' = [optOut EXCEPT ![u] = Moment(u)]
      /\ practice[u] = "never" \/ practice' = practice
      /\ optOut[u] = "never" \/ optOut' = optOut
  BY DEF PractiseToday, OptOut
<1>2. /\ Moment(u) \in Moments /\ Moment(u) # "never"
      /\ reminder[u] # "none" => Moment(u) # "before the claim"
  BY DEF Moment, Moments
<1>3. PushTypeOK'
  BY <1>1, <1>2 DEF PushTypeOK
<1>4. \A v \in Learners :
        /\ practice'[v] = "never" => practice[v] = "never"
        /\ optOut'[v] = "never" => optOut[v] = "never"
        /\ reminder[v] # "none" /\ practice[v] # "before the claim" =>
             practice'[v] # "before the claim"
        /\ reminder[v] # "none" /\ optOut[v] # "before the claim" =>
             optOut'[v] # "before the claim"
  BY <1>1, <1>2 DEF PushTypeOK
<1>5. ClaimsAreHeld'
  BY <1>1 DEF ClaimsAreHeld, Holding
<1>6. HoldersKnow'
  <2>1. ASSUME NEW k \in Invocations, Holding(k)
        PROVE  /\ invocation[k].learner \in Learners
               /\ reminder[invocation[k].learner] # "none"
    BY <2>1 DEF ClaimsAreHeld
  <2>2. ASSUME NEW k \in Invocations
        PROVE  Knows(k)'
    BY <1>1, <1>4, <2>1 DEF HoldersKnow, Knows, Holding, Invoked
  <2> QED
    BY <2>2 DEF HoldersKnow
<1>7. RemindedOnce'
  BY <1>1, <1>4 DEF RemindedOnce
<1>8. DueIsAhead'
  <2>1. DueNow' \subseteq DueNow
    BY <1>1, <1>4 DEF DueNow
  <2>2. /\ invocation' = invocation
        /\ \A k \in Invocations : Holding(k)' = Holding(k)
    BY <1>1 DEF Holding
  <2> QED
    BY <2>1, <2>2 DEF DueIsAhead, Invoked
<1> QED
  BY <1>3, <1>5, <1>6, <1>7, <1>8

(* The invariant of the sweep, for any number of invocations and learners.  *)
LEMMA PushInvariant == PushSpec => []PushInv
<1> USE PushAssumption
<1>1. PushInit => PushInv
  <2> SUFFICES ASSUME PushInit PROVE PushInv
    OBVIOUS
  <2>1. Uninvoked \in InvocationRecord /\ Uninvoked.at = "off"
    BY DEF Uninvoked, InvocationRecord, InvocationStages
  <2>2. \A k \in Invocations : invocation[k].at = "off" /\ ~Holding(k)
    BY <2>1 DEF PushInit, Holding
  <2>3. PushTypeOK
    BY <2>1 DEF PushInit, PushTypeOK, Moments
  <2>4. ClaimsAreHeld
    BY <2>2 DEF ClaimsAreHeld
  <2>5. HoldersKnow
    BY <2>2 DEF HoldersKnow, Knows, Invoked
  <2>6. RemindedOnce
    BY DEF PushInit, RemindedOnce
  <2>7. DueIsAhead
    BY <2>2 DEF DueIsAhead, Invoked
  <2> QED
    BY <2>3, <2>4, <2>5, <2>6, <2>7 DEF PushInv
<1>2. PushInv /\ [PushNext]_pushVars => PushInv'
  <2> SUFFICES ASSUME PushInv, [PushNext]_pushVars PROVE PushInv'
    OBVIOUS
  <2>1. CASE UNCHANGED pushVars
    <3>1. UNCHANGED <<reminder, delivered, practice, optOut, invocation>>
      BY <2>1 DEF pushVars
    <3> QED
      BY <3>1 DEF PushInv, PushTypeOK, ClaimsAreHeld, HoldersKnow, Knows, RemindedOnce,
                  DueIsAhead, Holding, Invoked, DueNow
  <2>2. ASSUME NEW i \in Invocations, Sweeping(i)
        PROVE  PushInv'
    BY <2>2, WalkKeepsPush, ClaimKeepsPush, ChecksKeepPush, SendKeepsPush, MarkKeepsPush
       DEF Sweeping
  <2>3. ASSUME NEW u \in Learners, PractiseToday(u) \/ OptOut(u)
        PROVE  PushInv'
    BY <2>3, LearnersKeepPush
  <2> QED
    BY <2>1, <2>2, <2>3 DEF PushNext
<1> QED
  BY <1>1, <1>2, PTL DEF PushSpec

(* Types of the sweep, for every population, page size and set of           *)
(* invocations.                                                             *)
THEOREM PushTypes == PushSpec => []PushTypeOK
<1>1. PushInv => PushTypeOK
  BY DEF PushInv
<1> QED
  BY <1>1, PushInvariant, PTL

(* However the invocations of behavioralPushSweep.ts overlap, stop and die  *)
(* and whatever learners do meanwhile: nobody is reminded twice or who is   *)
(* not due a reminder, and a pass that ends has left nobody out.            *)
THEOREM OnlyDueReminders == PushSpec => []RemindersAreDue
<1>1. PushInv => RemindersAreDue
  <2> SUFFICES ASSUME PushInv PROVE RemindersAreDue
    OBVIOUS
  <2>1. ASSUME NEW i \in Invocations, Invoked(i, "drained"), invocation[i].sound,
               NEW u \in DueNow
        PROVE  u <= invocation[i].from
    <3>1. ~(u > invocation[i].from)
      BY <2>1 DEF PushInv, DueIsAhead
    <3>2. u \in Nat /\ invocation[i].from \in Nat
      BY PushAssumption DEF PushInv, PushTypeOK, InvocationRecord, DueNow, Learners
    <3> QED
      BY <3>1, <3>2
  <2>2. DrainedMeansDecided
    BY <2>1 DEF DrainedMeansDecided
  <2> QED
    BY <2>2 DEF PushInv, RemindersAreDue
<1> QED
  BY <1>1, PushInvariant, PTL
===============================================================================
