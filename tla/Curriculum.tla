------------------------------ MODULE Curriculum ------------------------------
(* One learner on the pinned version of a curriculum                        *)
(* (api/_curriculum/curriculum-runtime.ts, resync_curriculum_progress).     *)
(*                                                                          *)
(* The recortes (subtopics) of the version stand in curricular order, each  *)
(* of a level.  A finished activity is credited to the recorte it was       *)
(* created for; a recorte is passed when every modality of the menu has     *)
(* been credited there; and the progress row points to the first recorte    *)
(* not passed, whose level is the learner's official level.  Credits and    *)
(* menu changes are written first, and the pointer is recomputed by a later *)
(* call of the same request, which may be lost.                             *)
EXTENDS Naturals, FiniteSets, Sequences

CONSTANTS
  LevelOf,      \* the recortes' levels (proficiency_levels.sort_order)
  Modalities,   \* writing, listening, pronunciation, conversation
  DefaultMenu,  \* DEFAULT_PREFS
  InitialLevel, \* the path's initial_level_code, 0 for null
  MaxAccesses,  \* bound: first accesses that overlap
  MaxUnderway,  \* bound: activities and requests under way at once
  MaxLosses     \* bound: requests that end before their resync

Recortes == DOMAIN LevelOf

CurriculumAssumption ==
  /\ LevelOf \in Seq(Nat \ {0})
  /\ LevelOf # << >>
  /\ \A r \in Recortes : \A s \in Recortes : r <= s => LevelOf[r] <= LevelOf[s]
  /\ DefaultMenu \in (SUBSET Modalities) \ {{}}
  /\ InitialLevel \in Nat
  /\ MaxAccesses \in Nat
  /\ MaxUnderway \in Nat
  /\ MaxLosses \in Nat

ASSUME CurriculumAssumption

VARIABLES
  credit,    \* user_subtopic_modality_progress
  passed,    \* user_subtopic_completion
  menu,      \* the modalities selected in user_curriculum_preferences
  place,     \* user_curriculum_progress: none, or pointer and level
  entering,  \* first accesses that found no progress row
  underway,  \* the identities of the learner's unfinished activities
  drafts,    \* the menus that requests under way are about to save
  resyncs,   \* requests that have written and not yet recomputed
  losses

curriculumVars == <<credit, passed, menu, place, entering, underway, drafts,
                    resyncs, losses>>

(* The pointer once every recorte is passed (status curriculum_completed).  *)
Beyond == Len(LevelOf) + 1

NoPlace == [at |-> 0, level |-> 0]

Enrolled == place # NoPlace

CurriculumInit ==
  /\ credit = {} /\ passed = {} /\ menu = DefaultMenu
  /\ place = NoPlace /\ entering = 0
  /\ underway = {} /\ drafts = {} /\ resyncs = 0 /\ losses = 0

-------------------------------------------------------------------------------
(* ensureUserCurriculum.  First accesses that overlap all find no row; each *)
(* inserts the first recorte of the initial level, and the row that is      *)
(* there first stays (ignoreDuplicates).                                    *)
FindsNoPlace ==
  /\ ~Enrolled /\ entering < MaxAccesses
  /\ entering' = entering + 1
  /\ UNCHANGED <<credit, passed, menu, place, underway, drafts, resyncs, losses>>

PlaceAt(r) == [at |-> r, level |-> LevelOf[r]]

(* The first recorte of the initial level, or the first of all.             *)
IsInitial(r) ==
  IF \E s \in Recortes : LevelOf[s] = InitialLevel
  THEN /\ LevelOf[r] = InitialLevel
       /\ \A s \in Recortes : LevelOf[s] = InitialLevel => r <= s
  ELSE r = 1

(* The same learner once the first access is through.                       *)
EnrolledInit ==
  /\ credit = {} /\ passed = {} /\ menu = DefaultMenu
  /\ \E r \in Recortes : IsInitial(r) /\ place = PlaceAt(r)
  /\ entering = 0
  /\ underway = {} /\ drafts = {} /\ resyncs = 0 /\ losses = 0

\* Mutant of InsertPlace: the upsert without ignoreDuplicates.
UpsertPlace ==
  /\ entering > 0
  /\ entering' = entering - 1
  /\ \E r \in Recortes : IsInitial(r) /\ place' = PlaceAt(r)
  /\ UNCHANGED <<credit, passed, menu, underway, drafts, resyncs, losses>>

InsertPlace ==
  /\ entering > 0
  /\ entering' = entering - 1
  /\ \/ Enrolled /\ UNCHANGED place
     \/ ~Enrolled /\ \E r \in Recortes : IsInitial(r) /\ place' = PlaceAt(r)
  /\ UNCHANGED <<credit, passed, menu, underway, drafts, resyncs, losses>>

-------------------------------------------------------------------------------
(* resync_curriculum_progress, under its advisory lock: passes every        *)
(* recorte whose selected modalities are all credited, none when nothing is *)
(* selected, and moves the pointer to the first one that is not passed.     *)
CreditedAt(r) == {m \in Modalities : <<r, m>> \in credit}

Earned == {r \in Recortes : menu # {} /\ menu \subseteq CreditedAt(r)}

FirstOpen(r) == r \notin passed' /\ \A s \in Recortes : s < r => s \in passed'

Repoint ==
  \/ \E r \in Recortes : FirstOpen(r) /\ place' = PlaceAt(r)
  \/ /\ Recortes \subseteq passed'
     /\ place' = [place EXCEPT !.at = Beyond]

\* Mutant of Recompute: what is passed follows the menu of the moment.
RecomputeAfresh(granted) ==
  /\ passed' = granted \cup Earned
  /\ Repoint

Recompute(granted) ==
  /\ passed' = passed \cup granted \cup Earned
  /\ Repoint

Resync ==
  /\ resyncs > 0
  /\ resyncs' = resyncs - 1
  /\ Recompute({})
  /\ UNCHANGED <<credit, menu, entering, underway, drafts, losses>>

(* The request dies before its resync, or the RPC fails.                    *)
LoseResync ==
  /\ resyncs > 0 /\ losses < MaxLosses
  /\ resyncs' = resyncs - 1
  /\ losses' = losses + 1
  /\ UNCHANGED <<credit, passed, menu, place, entering, underway, drafts>>

-------------------------------------------------------------------------------
(* resolveActivityPrompt: an activity carries the recorte it was created    *)
(* for, the last one once the curriculum is completed.                      *)
Target == IF place.at = Beyond THEN Len(LevelOf) ELSE place.at

CreateActivity(m) ==
  /\ Enrolled /\ m \in menu
  /\ Cardinality(underway) < MaxUnderway
  /\ underway' = underway \cup {<<Target, m>>}
  /\ UNCHANGED <<credit, passed, menu, place, entering, drafts, resyncs, losses>>

(* recordCurricularPracticeFromIdentity: the credit, before its resync.     *)
RecordPractice(a) ==
  /\ a \in underway /\ resyncs < MaxUnderway
  /\ underway' = underway \ {a}
  /\ credit' = credit \cup {a}
  /\ resyncs' = resyncs + 1
  /\ UNCHANGED <<passed, menu, place, entering, drafts, losses>>

(* handlePutPreferences: the change of one modality, merged into the menu   *)
(* read before and saved later; a menu without modalities is refused.       *)
DraftMenu(m, selected) ==
  /\ Enrolled /\ Cardinality(drafts) < MaxUnderway
  /\ LET next == IF selected THEN menu \cup {m} ELSE menu \ {m}
     IN /\ next # {}
        /\ drafts' = drafts \cup {next}
  /\ UNCHANGED <<credit, passed, menu, place, entering, underway, resyncs, losses>>

SaveMenu(next) ==
  /\ next \in drafts /\ resyncs < MaxUnderway
  /\ drafts' = drafts \ {next}
  /\ menu' = next
  /\ resyncs' = resyncs + 1
  /\ UNCHANGED <<credit, passed, place, entering, underway, losses>>

-------------------------------------------------------------------------------
Enrolling == FindsNoPlace \/ InsertPlace

Studying == \/ \E m \in Modalities : CreateActivity(m)
            \/ \E a \in underway : RecordPractice(a)

ChoosingMenu == \/ \E m \in Modalities, selected \in BOOLEAN : DraftMenu(m, selected)
                \/ \E next \in drafts : SaveMenu(next)

CurriculumNext == Enrolling \/ Studying \/ ChoosingMenu \/ Resync \/ LoseResync

CurriculumSafety == CurriculumInit /\ [][CurriculumNext]_curriculumVars

(* A request that has written goes on to its resync.                        *)
CurriculumFairness == WF_curriculumVars(Resync)

CurriculumSpec == CurriculumSafety /\ CurriculumFairness

-------------------------------------------------------------------------------
(* Types of the learner's rows and of the requests under way.               *)
CurriculumTypeOK ==
  /\ credit \subseteq Recortes \X Modalities
  /\ passed \subseteq Recortes
  /\ menu \in (SUBSET Modalities) \ {{}}
  /\ place \in [at : 0..Beyond, level : Nat]
  /\ entering \in 0..MaxAccesses
  /\ underway \subseteq Recortes \X Modalities
  /\ drafts \subseteq (SUBSET Modalities) \ {{}}
  /\ resyncs \in 0..MaxUnderway
  /\ losses \in 0..MaxLosses

(* The pointer and the official level never go back, whatever overlaps, is  *)
(* lost, taken from the menu or added to it ("never regresses", "the        *)
(* official level NEVER decreases").  It takes a path without a legacy      *)
(* level: one created above the first recorte is sent back to it by its     *)
(* first resync, for nothing below was passed.                              *)
LevelNeverDrops ==
  [][Enrolled /\ InitialLevel = 0 => place'.at >= place.at /\ place'.level >= place.level
    ]_curriculumVars

CreditsCounted == Earned \subseteq passed

(* "Menu = regra": what a credit or a change of the menu completes is       *)
(* passed soon after, as long as no request has died before its resync.     *)
CreditsCount == []<>(losses > 0 \/ CreditsCounted)
===============================================================================
