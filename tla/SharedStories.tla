----------------------------- MODULE SharedStories -----------------------------
(* The shared listening stories of one curricular identity and one day      *)
(* (get-or-create-shared-listening-story.ts): rows that any user's request  *)
(* may generate, everybody reuses, and each user prepares (pending) and     *)
(* practises (completed) at most once.  A row being generated is leased for *)
(* 180 s and a request may live 300 s, so a lease can expire under a        *)
(* generation that is still running.                                        *)
EXTENDS Integers, Sequences, FiniteSets

CONSTANTS
  Requests,     \* POST /listening/generate requests
  UserOf,       \* the user of each request
  DailyLimit,   \* stories per day of the users' plan
  MaxFaults     \* bound: crashes, failed generations and lost writes

ASSUME StoryAssumption ==
  /\ "none" \notin Requests
  /\ DailyLimit \in Nat \ {0}
  /\ MaxFaults \in Nat

Users == {UserOf[r] : r \in Requests}

VARIABLES
  story,      \* listening_shared_stories: the row of each slot
  pending,    \* user_listening_shared_progress, completed = false
  practised,  \* user_listening_shared_progress, completed = true
  request,    \* where each request is, and the slot it works on
  faults,     \* faults so far
  late        \* history: a lease expired under a running generation

storyVars == <<story, pending, practised, request, faults, late>>

Row == [status : {"generating", "ready", "failed"},
        expired : BOOLEAN,                 \* lock_expires_at < now()
        text : Requests \cup {"none"},     \* the generation it came from
        audio : Requests \cup {"none"}]    \* the one that uploaded it last

StoryStages == {"idle", "gated", "dropping", "acquiring", "generating",
           "uploaded", "persisted", "failing", "attaching"}

StoryInit ==
  /\ story = << >>
  /\ pending = [u \in Users |-> {}]
  /\ practised = [u \in Users |-> {}]
  /\ request = [r \in Requests |-> [at |-> "idle", slot |-> 0]]
  /\ faults = 0
  /\ late = FALSE

-------------------------------------------------------------------------------
Opened(u) == pending[u] \cup practised[u]

Unopened(u) == DOMAIN story \ Opened(u)

\* Mutant of IsDead: a lease is taken over before it expires.
IsDeadAtOnce(s) == story[s].status \in {"failed", "generating"}

IsDead(s) == \/ story[s].status = "failed"
             \/ story[s].status = "generating" /\ story[s].expired

Generating(r) == request[r].at \in {"generating", "uploaded"}

Owes(r, s) == /\ Generating(r) \/ request[r].at = "failing"
              /\ request[r].slot = s

At(r, stage) == request[r].at = stage

Goto(r, stage, s) == request' = [request EXCEPT ![r] = [at |-> stage, slot |-> s]]

Answered(r) == Goto(r, "idle", 0)

CanFail == /\ faults < MaxFaults
           /\ faults' = faults + 1

-------------------------------------------------------------------------------
(* checkListeningCanStart: the practised stories of the day, read before    *)
(* anything else and not again.                                             *)
Begin(r) ==
  /\ At(r, "idle")
  /\ Cardinality(practised[UserOf[r]]) < DailyLimit
  /\ Goto(r, "gated", 0)
  /\ UNCHANGED <<story, pending, practised, faults, late>>

\* Mutant of LookUpPending: a pending that can never be served is waited for.
LookUpPendingForEver(r) ==
  /\ At(r, "gated")
  /\ IF pending[UserOf[r]] = {} THEN Goto(r, "acquiring", 0) ELSE Answered(r)
  /\ UNCHANGED <<story, pending, practised, faults, late>>

(* Step 0: a pending story is served again, waited for, or, when it can     *)
(* never be served, dropped.                                                *)
LookUpPending(r) ==
  /\ At(r, "gated")
  /\ \/ /\ pending[UserOf[r]] = {}
        /\ Goto(r, "acquiring", 0)
     \/ \E s \in pending[UserOf[r]] :
          IF IsDead(s) THEN Goto(r, "dropping", s) ELSE Answered(r)
  /\ UNCHANGED <<story, pending, practised, faults, late>>

\* Mutant of DropStalePending: the DELETE without its completed = false.
DropStaleProgress(r) ==
  LET u == UserOf[r] IN
  /\ At(r, "dropping")
  /\ pending' = [pending EXCEPT ![u] = @ \ {request[r].slot}]
  /\ practised' = [practised EXCEPT ![u] = @ \ {request[r].slot}]
  /\ Goto(r, "acquiring", 0)
  /\ UNCHANGED <<story, faults, late>>

(* DELETE ... AND completed = false, its error ignored.                     *)
DropStalePending(r) ==
  LET u == UserOf[r] IN
  /\ At(r, "dropping")
  /\ \/ /\ pending' = [pending EXCEPT ![u] = @ \ {request[r].slot}]
        /\ UNCHANGED faults
     \/ CanFail /\ UNCHANGED pending
  /\ Goto(r, "acquiring", 0)
  /\ UNCHANGED <<story, practised, late>>

-------------------------------------------------------------------------------
(* acquire_or_get_listening_shared_story, serialised by its advisory lock:  *)
(* reuse a ready row the user has not opened, else take over a dead one,    *)
(* else wait for one being generated, else open the next slot.              *)
IsReady(s) == story[s].status = "ready"

ReadyFor(r) == {s \in Unopened(UserOf[r]) : IsReady(s)}

DeadFor(r) == {s \in Unopened(UserOf[r]) : IsDead(s)}

Lowest(slots) == {s \in slots : \A t \in slots : s <= t}

Reuse(r) ==
  /\ \E s \in Lowest(ReadyFor(r)) : Goto(r, "attaching", s)
  /\ UNCHANGED story

Retake(r) ==
  /\ ReadyFor(r) = {}
  /\ \E s \in Lowest(DeadFor(r)) :
       /\ story' = [story EXCEPT ![s] = [@ EXCEPT !.status = "generating",
                                                  !.expired = FALSE]]
       /\ Goto(r, "generating", s)

Wait(r) ==
  /\ ReadyFor(r) = {}
  /\ DeadFor(r) = {}
  /\ Unopened(UserOf[r]) # {}
  /\ Answered(r)
  /\ UNCHANGED story

\* Mutant of NewSlot: a user for whom nothing is ready does not wait.
NewSlotUnlessReady(r) ==
  /\ ReadyFor(r) = {}
  /\ story' = Append(story, [status |-> "generating", expired |-> FALSE,
                             text |-> "none", audio |-> "none"])
  /\ Goto(r, "generating", Len(story) + 1)

NewSlot(r) ==
  /\ Unopened(UserOf[r]) = {}
  /\ story' = Append(story, [status |-> "generating", expired |-> FALSE,
                             text |-> "none", audio |-> "none"])
  /\ Goto(r, "generating", Len(story) + 1)

Acquire(r) ==
  /\ At(r, "acquiring")
  /\ Reuse(r) \/ Retake(r) \/ Wait(r) \/ NewSlot(r)
  /\ UNCHANGED <<pending, practised, faults, late>>

-------------------------------------------------------------------------------
(* The winner generates, overwrites the slot's audio at its fixed path and  *)
(* then the row, by id alone.                                               *)
Upload(r) ==
  /\ At(r, "generating")
  /\ story' = [story EXCEPT ![request[r].slot] = [@ EXCEPT !.audio = r]]
  /\ Goto(r, "uploaded", request[r].slot)
  /\ UNCHANGED <<pending, practised, faults, late>>

PersistSharedStory(r) ==
  LET s == request[r].slot IN
  /\ At(r, "uploaded")
  /\ story' = [story EXCEPT ![s] = [@ EXCEPT !.status = "ready", !.text = r,
                                             !.expired = FALSE]]
  /\ Goto(r, "persisted", s)
  /\ UNCHANGED <<pending, practised, faults, late>>

GenerationFails(r) ==
  /\ Generating(r)
  /\ CanFail
  /\ Goto(r, "failing", request[r].slot)
  /\ UNCHANGED <<story, pending, practised, late>>

(* The upsert ignores a row the user already has; a different pending of    *)
(* the day violates uq_ulsp_one_pending_per_day, which the winner's catch   *)
(* treats like a failed generation.                                         *)
AttachUserProgress(r) ==
  LET u == UserOf[r]
      s == request[r].slot IN
  /\ At(r, "persisted") \/ At(r, "attaching")
  /\ \/ /\ s \in Opened(u)
        /\ Answered(r)
        /\ UNCHANGED pending
     \/ /\ s \notin Opened(u)
        /\ pending[u] = {}
        /\ pending' = [pending EXCEPT ![u] = {s}]
        /\ Answered(r)
     \/ /\ s \notin Opened(u)
        /\ pending[u] # {}
        /\ IF At(r, "persisted") THEN Goto(r, "failing", s) ELSE Answered(r)
        /\ UNCHANGED pending
  /\ UNCHANGED <<story, practised, faults, late>>

(* The row by id, whatever it is by then; the write itself may be lost.     *)
MarkSharedStoryFailed(r) ==
  /\ At(r, "failing")
  /\ \/ /\ story' = [story EXCEPT ![request[r].slot] = [@ EXCEPT !.status = "failed"]]
        /\ UNCHANGED faults
     \/ CanFail /\ UNCHANGED story
  /\ Answered(r)
  /\ UNCHANGED <<pending, practised, late>>

-------------------------------------------------------------------------------
(* consume_listening_pending_story.                                         *)
Practise(u, s) ==
  /\ s \in pending[u]
  /\ Cardinality(practised[u]) < DailyLimit
  /\ pending' = [pending EXCEPT ![u] = @ \ {s}]
  /\ practised' = [practised EXCEPT ![u] = @ \cup {s}]
  /\ UNCHANGED <<story, request, faults, late>>

(* A process dies, or the platform kills it.                                *)
Die(r) ==
  /\ ~At(r, "idle")
  /\ CanFail
  /\ Answered(r)
  /\ UNCHANGED <<story, pending, practised, late>>

(* 180 s pass.                                                              *)
LeaseExpires(s) ==
  /\ story[s].status = "generating"
  /\ ~story[s].expired
  /\ story' = [story EXCEPT ![s] = [@ EXCEPT !.expired = TRUE]]
  /\ late' = (late \/ \E r \in Requests : Owes(r, s))
  /\ UNCHANGED <<pending, practised, request, faults>>

Handle(r) == \/ Begin(r) \/ LookUpPending(r) \/ DropStalePending(r) \/ Acquire(r)
             \/ Upload(r) \/ PersistSharedStory(r) \/ AttachUserProgress(r)
             \/ MarkSharedStoryFailed(r)

Step(r) == Handle(r) \/ GenerationFails(r) \/ Die(r)

Practising(u) == \E s \in pending[u] : Practise(u, s)

Expiring == \E s \in DOMAIN story : LeaseExpires(s)

StoryNext ==
  \/ \E r \in Requests : Step(r)
  \/ \E u \in Users : Practising(u)
  \/ Expiring

(* The platform runs every handler on, leases run out, and clients retry    *)
(* after a 409, an error or a lost answer.                                  *)
StoryFairness ==
  /\ \A r \in Requests : WF_storyVars(Handle(r))
  /\ WF_storyVars(Expiring)

StorySafety == StoryInit /\ [][StoryNext]_storyVars

StorySpec == StorySafety /\ StoryFairness

-------------------------------------------------------------------------------
(* Types of the tables and of the requests.                                 *)
StoryTypeOK ==
  /\ story \in Seq(Row)
  /\ pending \in [Users -> SUBSET Nat]
  /\ practised \in [Users -> SUBSET Nat]
  /\ request \in [Requests -> [at : StoryStages, slot : Nat]]
  /\ faults \in 0..MaxFaults
  /\ late \in BOOLEAN

(* The day's library of one identity never outgrows a plan's daily limit by *)
(* more than two rows, however many users and requests ask for it: a new    *)
(* slot is opened only by a user who has opened all the others, of which    *)
(* DailyLimit are practised and one is pending, or was when the gate        *)
(* (checkListeningCanStart) looked.                                         *)
LibraryBounded == Len(story) <= DailyLimit + 2

(* While no lease has expired under a generation that is still running, a   *)
(* ready story's audio reads its own text: the one who persists the row is  *)
(* the one who last uploaded its audio.                                     *)
AudioReadsItsText ==
  ~late => \A s \in DOMAIN story : IsReady(s) => story[s].text = story[s].audio

(* A practised story stays practised: neither the cleanup of stale pendings *)
(* (DELETE ... completed = false) nor an attach takes a completed row away. *)
PracticeIsKept ==
  [][\A u \in Users : practised[u] \subseteq practised'[u]]_storyVars

Served(u) == \/ \E s \in pending[u] : IsReady(s)
             \/ Cardinality(practised[u]) >= DailyLimit

Crowded(u) == Cardinality({r \in Requests : UserOf[r] = u /\ ~At(r, "idle")}) > 1

(* A user who keeps asking is again and again given a story ready to be     *)
(* listened to, unless the day's limit is practised, in spite of dead       *)
(* generations, expired leases and stale pendings; not so while two         *)
(* requests of the user run at once, when the loser's attach makes the      *)
(* winner's catch mark the story it has just made ready as failed.          *)
AskersAreServed == \A u \in Users : []<>(Served(u) \/ Crowded(u))
===============================================================================
