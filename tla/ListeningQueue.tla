----------------------------- MODULE ListeningQueue -----------------------------
(* The listening job queue and the pipeline of one episode that runs on it  *)
(* (src/services/listening/jobs, pipeline): cron dispatchers claim jobs one *)
(* at a time, run them under a lock that expires, complete or fail them and *)
(* enqueue what follows; a recovery sweep returns the jobs whose lock       *)
(* expired.  The performance job of a listener's answers shares the queue.  *)
EXTENDS Integers, FiniteSets

CONSTANTS
  Dispatchers,   \* concurrent GET /internal/listening/jobs/dispatch
  MaxAttempts,   \* max_attempts of a job
  BatchSize,     \* jobs of one dispatch
  MaxMishaps     \* bound: deaths, failures and locks lost while working

ASSUME QueueAssumption ==
  /\ MaxAttempts \in Nat \ {0} /\ BatchSize \in Nat \ {0} /\ MaxMishaps \in Nat

TextSteps == {"story", "questions", "subtitles", "ssml"}
AudioSteps == {"audio1", "audio2"}
SyncSteps == {"sync1", "sync2"}
PublishSteps == {"validate", "publish"}
Jobs == TextSteps \cup AudioSteps \cup SyncSteps \cup PublishSteps \cup {"performance"}

Lanes == {TextSteps, AudioSteps, SyncSteps, PublishSteps}
LaneWidth(lane) == IF lane \in {AudioSteps, PublishSteps} THEN 1 ELSE 2

Nobody == "nobody"
Absent == [status |-> "absent", attempts |-> 0, owner |-> Nobody, expired |-> FALSE]
Waiting == [Absent EXCEPT !.status = "pending"]

DispatcherStages == {"idle", "claiming", "starting", "refused", "working", "failing",
           "completing", "advancing", "enqueueing"}

VARIABLES
  job,         \* listening_jobs: the latest row of each idempotency key
  product,     \* whether each step's rows have been written; a second run
               \* that writes them anew leaves it at "ready"
  dispatcher,  \* where each dispatcher is
  sweep,       \* jobs the running recovery read as stuck, with their attempts
  mishaps      \* mishaps so far

queueVars == <<job, product, dispatcher, sweep, mishaps>>

Rested == [at |-> "idle", lanes |-> {}, left |-> 0, job |-> Nobody, next |-> {}]

(* An episode whose first steps are done; the next is queued, and so is the *)
(* performance of somebody's answers.                                       *)
QueueFrom(done, first) ==
  /\ job = [j \in Jobs |->
              CASE j \in done -> [Absent EXCEPT !.status = "completed", !.attempts = 1]
                [] j \in {first, "performance"} -> Waiting
                [] OTHER -> Absent]
  /\ product = [j \in Jobs |-> IF j \in done THEN "ready" ELSE "none"]
  /\ dispatcher = [d \in Dispatchers |-> Rested]
  /\ sweep = {}
  /\ mishaps = 0

QueueInit == QueueFrom({}, "story")

-------------------------------------------------------------------------------
Is(d, stage) == dispatcher[d].at = stage

Mishap == /\ mishaps < MaxMishaps
          /\ mishaps' = mishaps + 1

Owns(d, j) == job[j].status = "processing" /\ job[j].owner = d

(* handleJobsDispatch: the lanes with room are read once, for the batch.    *)
Processing(lane) == {j \in lane : job[j].status = "processing"}

Dispatch(d) ==
  LET open == {lane \in Lanes : Cardinality(Processing(lane)) < LaneWidth(lane)} IN
  /\ Is(d, "idle")
  /\ open # {}
  /\ dispatcher' = [dispatcher EXCEPT ![d] = [Rested EXCEPT
                      !.at = "claiming", !.lanes = open, !.left = BatchSize]]
  /\ UNCHANGED <<job, product, sweep, mishaps>>

(* claim_next_listening_job.  Which job comes first depends on priorities   *)
(* and on times of other episodes too: any that is due may.                 *)
Due(d) == {j \in UNION dispatcher[d].lanes : job[j].status \in {"pending", "retry"}}

Claim(d, j) ==
  /\ Is(d, "claiming")
  /\ dispatcher[d].left > 0
  /\ j \in Due(d)
  /\ job' = [job EXCEPT ![j] = [status |-> "processing", attempts |-> @.attempts + 1,
                                owner |-> d, expired |-> FALSE]]
  /\ dispatcher' = [dispatcher EXCEPT ![d].at = "starting", ![d].job = j,
                                      ![d].left = @ - 1]
  /\ UNCHANGED <<product, sweep, mishaps>>

EndBatch(d) ==
  /\ Is(d, "claiming")
  /\ dispatcher[d].left = 0 \/ Due(d) = {}
  /\ dispatcher' = [dispatcher EXCEPT ![d] = Rested]
  /\ UNCHANGED <<job, product, sweep, mishaps>>

-------------------------------------------------------------------------------
(* The handlers.  A step whose product is there already returns it.  One    *)
(* another attempt has begun and neither finished nor failed is begun again *)
(* as a rule; the subtitles refuse to, and the questions do when one of     *)
(* their two rows is there.                                                 *)
Start(d) ==
  LET j == dispatcher[d].job
      begun == product[j] = "processing"
      goesTo(stage) == dispatcher' = [dispatcher EXCEPT ![d].at = stage] IN
  /\ Is(d, "starting")
  /\ \/ product[j] = "ready" /\ goesTo("completing")
     \/ begun /\ j \in {"questions", "subtitles"} /\ goesTo("refused")
     \/ product[j] # "ready" /\ ~(begun /\ j = "subtitles") /\ goesTo("working")
  /\ product' = [product EXCEPT ![j] = IF @ = "ready" THEN @ ELSE "processing"]
  /\ UNCHANGED <<job, sweep, mishaps>>

Produce(d) ==
  /\ Is(d, "working")
  /\ product' = [product EXCEPT ![dispatcher[d].job] = "ready"]
  /\ dispatcher' = [dispatcher EXCEPT ![d].at = "completing"]
  /\ UNCHANGED <<job, sweep, mishaps>>

(* The catch of processNextListeningJob: an error of any step that may be   *)
(* retried, or one that may not, such as content that fails its validation  *)
(* or rows that are not there; a step at work may have marked its product   *)
(* failed.  A completion that cannot be written may be retried.             *)
HandlerFails(d) ==
  LET j == dispatcher[d].job IN
  /\ dispatcher[d].at \in {"starting", "working", "completing"}
  /\ Mishap
  /\ \E outcome \in {"failing", "refused"} :
       /\ Is(d, "completing") => outcome = "failing"
       /\ dispatcher' = [dispatcher EXCEPT ![d].at = outcome]
  /\ \/ UNCHANGED product
     \/ /\ Is(d, "working") /\ product[j] # "ready"
        /\ product' = [product EXCEPT ![j] = "none"]
  /\ UNCHANGED <<job, sweep>>

Unlocked(row, status) == [row EXCEPT !.status = status, !.owner = Nobody,
                                     !.expired = FALSE]

\* Mutant of Fail: a job is retried for ever.
FailWithoutEnd(d) ==
  LET j == dispatcher[d].job IN
  /\ Is(d, "failing") \/ Is(d, "refused")
  /\ job' = IF Owns(d, j) THEN [job EXCEPT ![j] = Unlocked(@, "retry")] ELSE job
  /\ dispatcher' = [dispatcher EXCEPT ![d].at = "claiming", ![d].job = Nobody]
  /\ UNCHANGED <<product, sweep, mishaps>>

(* failListeningJob: no row matches for a worker that lost its lock.        *)
Fail(d) ==
  LET j == dispatcher[d].job
      verdict == IF job[j].attempts >= MaxAttempts THEN "dead_letter"
                 ELSE IF Is(d, "failing") THEN "retry" ELSE "failed" IN
  /\ Is(d, "failing") \/ Is(d, "refused")
  /\ job' = IF Owns(d, j) THEN [job EXCEPT ![j] = Unlocked(@, verdict)] ELSE job
  /\ dispatcher' = [dispatcher EXCEPT ![d].at = "claiming", ![d].job = Nobody]
  /\ UNCHANGED <<product, sweep, mishaps>>

(* completeListeningJob matches no row either then, and is not told so: the *)
(* worker goes on to advance the pipeline.                                  *)
Complete(d) ==
  LET j == dispatcher[d].job IN
  /\ Is(d, "completing")
  /\ job' = IF Owns(d, j) THEN [job EXCEPT ![j] = Unlocked(@, "completed")] ELSE job
  /\ dispatcher' = [dispatcher EXCEPT ![d].at = "advancing"]
  /\ UNCHANGED <<product, sweep, mishaps>>

-------------------------------------------------------------------------------
\* Mutant of BothAreReady: one block is enough.
OneIsReady == \E j \in AudioSteps : product[j] = "ready"

(* advanceListeningPipeline: what follows a step.  A synchronised block is  *)
(* "ready" or "needs_review", never the "timed" that both blocks are        *)
(* checked for, so nothing follows the synchronisation.                     *)
BothAreReady == \A j \in AudioSteps : product[j] = "ready"
BothAreTimed == \A j \in SyncSteps : product[j] = "timed"

Successors(j) ==
  CASE j = "story"      -> {"questions"}
    [] j = "questions"  -> {"subtitles"}
    [] j = "subtitles"  -> {"ssml"}
    [] j = "ssml"       -> AudioSteps
    [] j \in AudioSteps -> IF BothAreReady THEN SyncSteps ELSE {}
    [] j \in SyncSteps  -> IF BothAreTimed THEN {"validate"} ELSE {}
    [] j = "validate"   -> {"publish"}
    [] OTHER            -> {}

Advance(d) ==
  /\ Is(d, "advancing")
  /\ dispatcher' = [dispatcher EXCEPT ![d].at = "enqueueing",
                                      ![d].next = Successors(dispatcher[d].job)]
  /\ UNCHANGED <<job, product, sweep, mishaps>>

(* enqueueListeningJob: a key that has a row which is neither cancelled nor *)
(* dead-lettered is left as it is.                                          *)
Enqueue(d, j) ==
  /\ Is(d, "enqueueing")
  /\ j \in dispatcher[d].next
  /\ job' = [job EXCEPT ![j] = IF @.status \in {"absent", "dead_letter"}
                               THEN Waiting ELSE @]
  /\ dispatcher' = [dispatcher EXCEPT ![d].next = @ \ {j}]
  /\ UNCHANGED <<product, sweep, mishaps>>

(* An error while advancing is logged, no more.                             *)
Advanced(d) ==
  /\ \/ /\ Is(d, "enqueueing") /\ dispatcher[d].next = {}
        /\ UNCHANGED mishaps
     \/ /\ Is(d, "advancing") \/ Is(d, "enqueueing")
        /\ Mishap
  /\ dispatcher' = [dispatcher EXCEPT ![d].at = "claiming", ![d].job = Nobody,
                                      ![d].next = {}]
  /\ UNCHANGED <<job, product, sweep>>

-------------------------------------------------------------------------------
(* A dispatcher dies; the next one has a worker id of its own.              *)
Dies(d) ==
  /\ ~Is(d, "idle")
  /\ Mishap
  /\ dispatcher' = [dispatcher EXCEPT ![d] = Rested]
  /\ job' = [j \in Jobs |-> [job[j] EXCEPT !.owner = IF @ = d THEN Nobody ELSE @]]
  /\ UNCHANGED <<product, sweep>>

(* Heartbeats keep the lock of a job at work, but a process that is frozen  *)
(* or cannot reach the database sends none.                                 *)
AtWork(j) == \E d \in Dispatchers : dispatcher[d].job = j /\ Owns(d, j)

LockExpires(j) ==
  /\ job[j].status = "processing"
  /\ ~job[j].expired
  /\ IF AtWork(j) THEN Mishap ELSE UNCHANGED mishaps
  /\ job' = [job EXCEPT ![j].expired = TRUE]
  /\ UNCHANGED <<product, dispatcher, sweep>>

(* heartbeat_listening_job revives a lock that has expired but has not been *)
(* taken yet.                                                               *)
Heartbeat(d) ==
  LET j == dispatcher[d].job IN
  /\ Is(d, "working")
  /\ Owns(d, j)
  /\ job[j].expired
  /\ job' = [job EXCEPT ![j].expired = FALSE]
  /\ UNCHANGED <<product, dispatcher, sweep, mishaps>>

(* recoverStuckListeningJobs: a list, then one conditional update per job,  *)
(* whose verdict comes from the attempts listed.  A lock taken again since  *)
(* the list does not match.                                                 *)
ListStuck ==
  LET stuck == {j \in Jobs : job[j].status = "processing" /\ job[j].expired} IN
  /\ sweep = {}
  /\ stuck # {}
  /\ sweep' = {[job |-> j, attempts |-> job[j].attempts] : j \in stuck}
  /\ UNCHANGED <<job, product, dispatcher, mishaps>>

\* Mutant of StillStuck: the recovery writes by job id alone.
StillStuckAsRead(s) == s.attempts > 0

StillStuck(s) == /\ job[s.job].status = "processing"
                 /\ job[s.job].expired
                 /\ job[s.job].attempts = s.attempts

Recover(s) ==
  /\ s \in sweep
  /\ job' = IF StillStuck(s)
            THEN [job EXCEPT ![s.job] = Unlocked(@,
                    IF s.attempts >= MaxAttempts THEN "dead_letter" ELSE "retry")]
            ELSE job
  /\ sweep' = sweep \ {s}
  /\ UNCHANGED <<product, dispatcher, mishaps>>

Recovery == ListStuck \/ \E s \in sweep : Recover(s)

-------------------------------------------------------------------------------
Run(d) == \/ Dispatch(d) \/ EndBatch(d) \/ Start(d) \/ Produce(d) \/ Fail(d)
          \/ Complete(d) \/ Advance(d) \/ Advanced(d)
          \/ \E j \in Jobs : Claim(d, j) \/ Enqueue(d, j)

QueueNext ==
  \/ \E d \in Dispatchers : Run(d) \/ HandlerFails(d) \/ Dies(d) \/ Heartbeat(d)
  \/ \E j \in Jobs : LockExpires(j)
  \/ Recovery

Orphaned(j) == ~AtWork(j) /\ LockExpires(j)

(* The cron fires again and again, a dispatcher that is not killed goes on, *)
(* a lock nobody renews expires, and the repair cron sweeps.                *)
QueueFairness ==
  /\ \A d \in Dispatchers : WF_queueVars(Run(d))
  /\ WF_queueVars(\E j \in Jobs : Orphaned(j))
  /\ WF_queueVars(Recovery)

QueueSafety == QueueInit /\ [][QueueNext]_queueVars

QueueSpec == QueueSafety /\ QueueFairness

-------------------------------------------------------------------------------
(* Types of the rows and of the dispatchers.                                *)
QueueTypeOK ==
  /\ job \in [Jobs -> [status : {"absent", "pending", "processing", "retry",
                                "completed", "failed", "dead_letter"},
                      attempts : 0..MaxAttempts, owner : Dispatchers \cup {Nobody},
                      expired : BOOLEAN]]
  /\ product \in [Jobs -> {"none", "processing", "ready"}]
  /\ dispatcher \in [Dispatchers -> [at : DispatcherStages, lanes : SUBSET Lanes,
                      left : 0..BatchSize, job : Jobs \cup {Nobody}, next : SUBSET Jobs]]
  /\ sweep \subseteq [job : Jobs, attempts : 0..MaxAttempts]
  /\ mishaps \in 0..MaxMishaps

(* A job once completed, or failed for good, is never opened again: not by  *)
(* a worker that lost its lock and fails, not by the recovery, which read   *)
(* it as stuck earlier, and not by a predecessor that runs twice.           *)
SettledIsFinal ==
  [][\A j \in Jobs : job[j].status \in {"completed", "failed"}
                      => job'[j] = job[j]]_queueVars

Inputs(j) == CASE j = "questions"  -> {"story"}
               [] j = "subtitles"  -> {"questions"}
               [] j = "ssml"       -> {"subtitles"}
               [] j \in AudioSteps -> {"ssml"}
               [] j \in SyncSteps  -> AudioSteps
               [] OTHER            -> {}

(* The rows of the queue read as a board of steps.                          *)
JobPhase(j) ==
  CASE job[j].status = "absent" -> "absent"
    [] job[j].status = "completed" -> "done"
    [] job[j].status = "failed" -> "refused"
    [] job[j].status = "dead_letter" -> "dead"
    [] job[j].status \in {"pending", "processing", "retry"} -> "open"

InputsOf == [j \in Jobs |-> Inputs(j)]
JobPhases == [j \in Jobs |-> JobPhase(j)]
JobTries == [j \in Jobs |-> job[j].attempts]
JobsMade == {j \in Jobs : product[j] = "ready"}

Board == INSTANCE StepBoard
           WITH Steps <- Jobs, Reads <- InputsOf, MostTries <- MaxAttempts,
                phase <- JobPhases, tries <- JobTries, made <- JobsMade

(* The queue implements the board of steps: however many workers run a job  *)
(* side by side after its lock expired, and whatever the recovery read      *)
(* earlier, a job is posted, tried, completed, refused and given up as one  *)
(* atomic record would be, after at most MaxAttempts attempts               *)
(* (claim_next_listening_job, completeListeningJob, failListeningJob,       *)
(* recoverStuckListeningJobs, enqueueListeningJob).                         *)
ImplementsBoard == Board!BoardSpec

(* A step is enqueued only when all it reads has been produced, the two     *)
(* audio blocks of a synchronisation included, also when the worker that    *)
(* enqueues it lost its lock and its job is being run again or given up.    *)
StepsInOrder ==
  \A j \in Jobs : job[j].status # "absent"
                    => \A i \in Inputs(j) : product[i] = "ready"

(* What a mishap may have left of the lanes: a job that an error ended at   *)
(* once, or questions or subtitles that were refused to the last attempt.   *)
Lost(j) == \/ job[j].status = "failed"
           \/ job[j].status = "dead_letter" /\ j \in {"questions", "subtitles"}

Drained ==
  \A j \in UNION Lanes :
    \/ job[j].status \in {"absent", "completed"}
    \/ mishaps > 0 /\ Lost(j)

(* With fewer mishaps than attempts the lanes drain: every job that was     *)
(* enqueued is completed, for expired locks are swept and what failed is    *)
(* retried, unless its error may not be; but the questions and subtitles    *)
(* that a process began and died over may be refused to a later attempt.    *)
RetriesSucceed == []<>Drained

Synchronised == \A j \in SyncSteps : job[j].status = "completed"

(* Without mishaps, handlers' errors of any kind among them, the pipeline   *)
(* runs through to the synchronisation of both blocks: of two audio workers *)
(* that finish together at least one sees both blocks ready.                *)
PipelineReachesSync == []<>(mishaps > 0 \/ Synchronised)
===============================================================================
