---------------------------- MODULE BackgroundProofs ----------------------------
(* What holds of the work done behind the learner's back, for any number of *)
(* dispatchers, attempts, webhook handlers, events and billing periods: the *)
(* listening queue keeps its order and what is settled, and the billing     *)
(* tables follow the store.                                                 *)
EXTENDS BillingEvents, ListeningQueue, SequenceTheorems, FiniteSetTheorems, TLAPS

-------------------------------------------------------------------------------
(* The listening queue.  What a dispatcher knows of its job outlives the    *)
(* loss of the job's lock: a product once ready stays ready.                *)
Ready(j) == \A i \in Inputs(j) : product[i] = "ready"

Tells(d) ==
  /\ dispatcher[d].at \notin {"idle", "claiming"} => dispatcher[d].job \in Jobs
  /\ dispatcher[d].at \in {"completing", "advancing", "enqueueing"} =>
       product[dispatcher[d].job] = "ready"
  /\ \A j \in dispatcher[d].next : Ready(j)

DispatchersTell == \A d \in Dispatchers : Tells(d)

(* A job that waits has an attempt left, and one that is settled no owner.  *)
JobsRest ==
  \A j \in Jobs :
    /\ job[j].status \in {"pending", "retry"} => job[j].attempts < MaxAttempts
    /\ job[j].status \in {"completed", "failed"} => job[j].owner = Nobody

QueueInv == QueueTypeOK /\ DispatchersTell /\ JobsRest /\ StepsInOrder

JobRows == [status : {"absent", "pending", "processing", "retry", "completed",
                      "failed", "dead_letter"},
            attempts : 0..MaxAttempts, owner : Dispatchers \cup {Nobody},
            expired : BOOLEAN]

DispatcherRows == [at : DispatcherStages, lanes : SUBSET Lanes, left : 0..BatchSize,
                   job : Jobs \cup {Nobody}, next : SUBSET Jobs]

(* What the queue's types say of one job and of one dispatcher.             *)
LEMMA QueueTyped ==
  ASSUME QueueTypeOK
  PROVE  /\ job \in [Jobs -> JobRows]
         /\ product \in [Jobs -> {"none", "processing", "ready"}]
         /\ dispatcher \in [Dispatchers -> DispatcherRows]
         /\ sweep \subseteq [job : Jobs, attempts : 0..MaxAttempts]
         /\ mishaps \in 0..MaxMishaps
BY DEF QueueTypeOK, JobRows, DispatcherRows

(* The steps read what another step of the episode makes.                   *)
LEMMA InputsAreJobs ==
  \A j \in Jobs : Inputs(j) \subseteq Jobs
BY DEF Inputs, Jobs, TextSteps, AudioSteps, SyncSteps, PublishSteps

(* What follows a step whose product is ready has all it reads.             *)
LEMMA SuccessorsAreReady ==
  ASSUME QueueTypeOK, NEW j \in Jobs, product[j] = "ready"
  PROVE  Successors(j) \subseteq Jobs /\ \A s \in Successors(j) : Ready(s)
<1>1. \A i \in SyncSteps : product[i] # "timed"
  BY QueueTyped DEF SyncSteps, Jobs
<1>2. ~BothAreTimed
  BY <1>1 DEF BothAreTimed, SyncSteps
<1>3. CASE j \in AudioSteps
  <2>1. Successors(j) = IF BothAreReady THEN SyncSteps ELSE {}
    BY <1>3 DEF Successors, AudioSteps, SyncSteps
  <2>2. \A s \in SyncSteps : Inputs(s) = AudioSteps
    BY DEF Inputs, SyncSteps, AudioSteps
  <2>3. BothAreReady => \A s \in SyncSteps : Ready(s)
    BY <2>2 DEF Ready, BothAreReady
  <2>4. SyncSteps \subseteq Jobs
    BY DEF Jobs
  <2> QED
    BY <2>1, <2>3, <2>4
<1>4. CASE j \in SyncSteps
  <2>1. Successors(j) = {}
    BY <1>4, <1>2 DEF Successors, SyncSteps, AudioSteps
  <2> QED
    BY <2>1
<1>5. CASE j \in TextSteps
  BY <1>5 DEF Successors, Ready, Inputs, Jobs, TextSteps, AudioSteps, SyncSteps
<1>6. CASE j \in PublishSteps \cup {"performance"}
  BY <1>6 DEF Successors, Ready, Inputs, Jobs, PublishSteps, AudioSteps, SyncSteps
<1> QED
  BY <1>3, <1>4, <1>5, <1>6 DEF Jobs

(* A product that is ready stays ready, whatever the queue does.            *)
LEMMA ReadyStays ==
  ASSUME QueueTypeOK, QueueNext
  PROVE  \A j \in Jobs : product[j] = "ready" => product'[j] = "ready"
<1> USE QueueTyped
<1>1. ASSUME NEW d \in Dispatchers, Start(d)
      PROVE  \A j \in Jobs : product[j] = "ready" => product'[j] = "ready"
  BY <1>1 DEF Start
<1>2. ASSUME NEW d \in Dispatchers, Produce(d)
      PROVE  \A j \in Jobs : product[j] = "ready" => product'[j] = "ready"
  BY <1>2 DEF Produce
<1>3. ASSUME NEW d \in Dispatchers, HandlerFails(d)
      PROVE  \A j \in Jobs : product[j] = "ready" => product'[j] = "ready"
  BY <1>3 DEF HandlerFails
<1>4. CASE UNCHANGED product
  BY <1>4
<1> QED
  BY <1>1, <1>2, <1>3, <1>4
  DEF QueueNext, Run, Dispatch, EndBatch, Fail, Complete, Advance, Advanced, Claim,
      Enqueue, Dies, Heartbeat, LockExpires, Recovery, ListStuck, Recover

(* Every action of the queue keeps its rows well typed; a job is claimed    *)
(* only while it has an attempt left.                                       *)
LEMMA QueueTypeStep ==
  ASSUME QueueAssumption, QueueInv, QueueNext
  PROVE  QueueTypeOK'
<1> USE DEF QueueAssumption
<1> USE QueueTyped
<1> DEFINE Typed == QueueTypeOK'
<1>1. QueueTypeOK /\ DispatchersTell /\ JobsRest
  BY DEF QueueInv
<1>2. ASSUME NEW d \in Dispatchers, Dispatch(d) \/ EndBatch(d)
      PROVE  Typed
  <2>1. /\ Rested \in DispatcherRows
        /\ \A open \in SUBSET Lanes :
             [Rested EXCEPT !.at = "claiming", !.lanes = open, !.left = BatchSize] \in DispatcherRows
    <3>1. Rested \in DispatcherRows
      BY DEF Rested, DispatcherRows, DispatcherStages
    <3>2. \A r \in DispatcherRows, open \in SUBSET Lanes :
            [r EXCEPT !.at = "claiming", !.lanes = open, !.left = BatchSize] \in DispatcherRows
      <4>1. BatchSize \in 0..BatchSize
        OBVIOUS
      <4> QED
        BY <4>1 DEF DispatcherRows, DispatcherStages
    <3> QED
      BY <3>1, <3>2
  <2>2. dispatcher' \in [Dispatchers -> DispatcherRows]
    BY <1>1, <1>2, <2>1 DEF Dispatch, EndBatch
  <2>3. UNCHANGED <<job, product, sweep, mishaps>>
    BY <1>2 DEF Dispatch, EndBatch
  <2> QED
    BY <1>1, <2>2, <2>3 DEF QueueTypeOK, DispatcherRows
<1>3. ASSUME NEW d \in Dispatchers, NEW j \in Jobs, Claim(d, j)
      PROVE  Typed
  <2>1. job[j].attempts < MaxAttempts /\ job[j] \in JobRows
    BY <1>1, <1>3 DEF Claim, Due, JobsRest
  <2>2. [status |-> "processing", attempts |-> job[j].attempts + 1,
         owner |-> d, expired |-> FALSE] \in JobRows
    BY <2>1 DEF JobRows
  <2>3. job' \in [Jobs -> JobRows]
    BY <1>1, <1>3, <2>2 DEF Claim
  <2>4. dispatcher[d] \in DispatcherRows
    BY <1>1
  <2>5. dispatcher' \in [Dispatchers -> DispatcherRows]
    BY <1>1, <1>3, <2>4 DEF Claim, DispatcherRows, DispatcherStages
  <2>6. UNCHANGED <<product, sweep, mishaps>>
    BY <1>3 DEF Claim
  <2> QED
    BY <1>1, <2>3, <2>5, <2>6 DEF QueueTypeOK, DispatcherRows, JobRows
<1>4. ASSUME NEW d \in Dispatchers, Start(d) \/ Produce(d) \/ HandlerFails(d)
      PROVE  Typed
  <2>1. dispatcher[d] \in DispatcherRows
    BY <1>1
  <2>2. dispatcher' \in [Dispatchers -> DispatcherRows]
    BY <1>1, <1>4, <2>1 DEF Start, Produce, HandlerFails, DispatcherRows, DispatcherStages
  <2>3. product' \in [Jobs -> {"none", "processing", "ready"}]
    BY <1>1, <1>4 DEF Start, Produce, HandlerFails
  <2>4. mishaps' \in 0..MaxMishaps
    BY <1>1, <1>4 DEF Start, Produce, HandlerFails, Mishap
  <2>5. UNCHANGED <<job, sweep>>
    BY <1>4 DEF Start, Produce, HandlerFails
  <2> QED
    BY <1>1, <2>2, <2>3, <2>4, <2>5 DEF QueueTypeOK, DispatcherRows
<1>5. ASSUME NEW d \in Dispatchers, Fail(d) \/ Complete(d)
      PROVE  Typed
  <2>1. dispatcher[d] \in DispatcherRows
    BY <1>1
  <2>2. dispatcher' \in [Dispatchers -> DispatcherRows]
    BY <1>1, <1>5, <2>1 DEF Fail, Complete, DispatcherRows, DispatcherStages
  <2>3. \A j \in Jobs : \A status \in {"completed", "retry", "failed", "dead_letter"} :
          Unlocked(job[j], status) \in JobRows
    BY <1>1 DEF Unlocked, JobRows
  <2>4. job' \in [Jobs -> JobRows]
    BY <1>1, <1>5, <2>3 DEF Fail, Complete
  <2>5. UNCHANGED <<product, sweep, mishaps>>
    BY <1>5 DEF Fail, Complete
  <2> QED
    BY <1>1, <2>2, <2>4, <2>5 DEF QueueTypeOK, DispatcherRows, JobRows
<1>6. ASSUME NEW d \in Dispatchers, Advance(d) \/ Advanced(d)
      PROVE  Typed
  <2>1. dispatcher[d] \in DispatcherRows
    BY <1>1
  <2>2. Advance(d) => Successors(dispatcher[d].job) \subseteq Jobs
    BY <1>1, SuccessorsAreReady DEF Advance, Is, DispatchersTell, Tells
  <2>3. dispatcher' \in [Dispatchers -> DispatcherRows]
    BY <1>1, <1>6, <2>1, <2>2 DEF Advance, Advanced, DispatcherRows, DispatcherStages
  <2>4. mishaps' \in 0..MaxMishaps
    BY <1>1, <1>6 DEF Advance, Advanced, Mishap
  <2>5. UNCHANGED <<job, product, sweep>>
    BY <1>6 DEF Advance, Advanced
  <2> QED
    BY <1>1, <2>3, <2>4, <2>5 DEF QueueTypeOK, DispatcherRows
<1>7. ASSUME NEW d \in Dispatchers, NEW j \in Jobs, Enqueue(d, j)
      PROVE  Typed
  <2>1. dispatcher[d] \in DispatcherRows
    BY <1>1
  <2>2. dispatcher' \in [Dispatchers -> DispatcherRows]
    BY <1>1, <1>7, <2>1 DEF Enqueue, DispatcherRows
  <2>3. Waiting \in JobRows
    <3>1. Absent \in JobRows
      BY DEF Absent, JobRows
    <3>2. \A r \in JobRows : [r EXCEPT !.status = "pending"] \in JobRows
      BY DEF JobRows
    <3> QED
      BY <3>1, <3>2 DEF Waiting
  <2>4. job' \in [Jobs -> JobRows]
    BY <1>1, <1>7, <2>3 DEF Enqueue
  <2>5. UNCHANGED <<product, sweep, mishaps>>
    BY <1>7 DEF Enqueue
  <2> QED
    BY <1>1, <2>2, <2>4, <2>5 DEF QueueTypeOK, DispatcherRows, JobRows
<1>8. ASSUME NEW d \in Dispatchers, Dies(d)
      PROVE  Typed
  <2>1. Rested \in DispatcherRows
    BY DEF Rested, DispatcherRows, DispatcherStages
  <2>2. dispatcher' \in [Dispatchers -> DispatcherRows]
    BY <1>1, <1>8, <2>1 DEF Dies
  <2>3. \A j \in Jobs : [job[j] EXCEPT !.owner = IF @ = d THEN Nobody ELSE @] \in JobRows
    BY <1>1 DEF JobRows
  <2>4. job' \in [Jobs -> JobRows]
    BY <1>8, <2>3 DEF Dies
  <2>5. mishaps' \in 0..MaxMishaps
    BY <1>1, <1>8 DEF Dies, Mishap
  <2>6. UNCHANGED <<product, sweep>>
    BY <1>8 DEF Dies
  <2> QED
    BY <1>1, <2>2, <2>4, <2>5, <2>6 DEF QueueTypeOK, DispatcherRows, JobRows
<1>9. ASSUME NEW j \in Jobs, LockExpires(j)
      PROVE  Typed
  <2>1. job' \in [Jobs -> JobRows]
    BY <1>1, <1>9 DEF LockExpires, JobRows
  <2>2. mishaps' \in 0..MaxMishaps
    BY <1>1, <1>9 DEF LockExpires, Mishap
  <2>3. UNCHANGED <<product, dispatcher, sweep>>
    BY <1>9 DEF LockExpires
  <2> QED
    BY <1>1, <2>1, <2>2, <2>3 DEF QueueTypeOK, JobRows
<1>10. ASSUME NEW d \in Dispatchers, Heartbeat(d)
       PROVE  Typed
  <2>0. \A j \in Jobs : [job[j] EXCEPT !.expired = FALSE] \in JobRows
    BY <1>1 DEF JobRows
  <2>1. job' \in [Jobs -> JobRows]
    BY <1>1, <1>10, <2>0 DEF Heartbeat
  <2>2. UNCHANGED <<product, dispatcher, sweep, mishaps>>
    BY <1>10 DEF Heartbeat
  <2> QED
    BY <1>1, <2>1, <2>2 DEF QueueTypeOK, JobRows
<1>11. ASSUME ListStuck
       PROVE  Typed
  <2>1. sweep' \subseteq [job : Jobs, attempts : 0..MaxAttempts]
    BY <1>1, <1>11 DEF ListStuck, JobRows
  <2>2. UNCHANGED <<job, product, dispatcher, mishaps>>
    BY <1>11 DEF ListStuck
  <2> QED
    BY <1>1, <2>1, <2>2 DEF QueueTypeOK
<1>12. ASSUME NEW s \in sweep, Recover(s)
       PROVE  Typed
  <2>1. \A j \in Jobs : \A status \in {"retry", "dead_letter"} :
          Unlocked(job[j], status) \in JobRows
    BY <1>1 DEF Unlocked, JobRows
  <2>2. s.job \in Jobs
    BY <1>1
  <2>3. job' \in [Jobs -> JobRows]
    BY <1>1, <1>12, <2>1, <2>2 DEF Recover
  <2>4. sweep' \subseteq sweep
    BY <1>12 DEF Recover
  <2>5. UNCHANGED <<product, dispatcher, mishaps>>
    BY <1>12 DEF Recover
  <2> QED
    BY <1>1, <2>3, <2>4, <2>5 DEF QueueTypeOK, JobRows
<1> QED
  BY <1>2, <1>3, <1>4, <1>5, <1>6, <1>7, <1>8, <1>9, <1>10, <1>11, <1>12
  DEF QueueNext, Run, Recovery

(* So a step that may start may still start later.                          *)
LEMMA ReadyToStartStays ==
  ASSUME QueueTypeOK, QueueNext
  PROVE  \A j \in Jobs : Ready(j) => Ready(j)'
BY ReadyStays, InputsAreJobs DEF Ready

(* What the dispatchers know stays true as they and the others go on.       *)
LEMMA QueueTellStep ==
  ASSUME QueueInv, QueueNext
  PROVE  DispatchersTell'
<1> USE QueueTyped
<1>1. QueueTypeOK /\ DispatchersTell
  BY DEF QueueInv
<1>2. /\ \A j \in Jobs : product[j] = "ready" => product'[j] = "ready"
      /\ \A j \in Jobs : Ready(j) => Ready(j)'
  BY <1>1, ReadyStays, ReadyToStartStays
<1>3. \A d \in Dispatchers : /\ dispatcher[d].next \subseteq Jobs
                             /\ Tells(d)
  BY <1>1 DEF DispatchersTell, DispatcherRows
<1>4. ASSUME NEW d \in Dispatchers, dispatcher'[d] = dispatcher[d]
      PROVE  Tells(d)'
  <2>1. \A j \in dispatcher[d].next : Ready(j)'
    BY <1>2, <1>3 DEF Tells
  <2>2. dispatcher[d].at \in {"completing", "advancing", "enqueueing"} =>
          product'[dispatcher[d].job] = "ready"
    BY <1>2, <1>3 DEF Tells
  <2> QED
    BY <1>3, <1>4, <2>1, <2>2 DEF Tells
<1>5. SUFFICES ASSUME NEW d \in Dispatchers
               PROVE  Tells(d)'
  BY DEF DispatchersTell
<1>6. ASSUME dispatcher' = [dispatcher EXCEPT ![d] = Rested]
      PROVE  Tells(d)'
  BY <1>1, <1>6 DEF Tells, Rested
<1>7. ASSUME Dispatch(d) \/ EndBatch(d) \/ Fail(d) \/ Advanced(d)
      PROVE  Tells(d)'
  <2>1. /\ dispatcher'[d].at \in {"idle", "claiming"}
        /\ dispatcher'[d].next \subseteq dispatcher[d].next
    <3>1. CASE Dispatch(d) \/ EndBatch(d)
      <4>1. dispatcher'[d].at \in {"idle", "claiming"} /\ dispatcher'[d].next = {}
        <5>1. /\ Rested.at = "idle" /\ Rested.next = {}
              /\ \A open \in SUBSET Lanes :
                   LET r == [Rested EXCEPT !.at = "claiming", !.lanes = open, !.left = BatchSize]
                   IN r.at = "claiming" /\ r.next = {}
          BY DEF Rested
        <5>2. {lane \in Lanes : Cardinality(Processing(lane)) < LaneWidth(lane)} \in SUBSET Lanes
          OBVIOUS
        <5> QED
          BY <1>1, <3>1, <5>1, <5>2 DEF Dispatch, EndBatch
      <4> QED
        BY <4>1
    <3>2. CASE Fail(d)
      BY <1>1, <3>2 DEF Fail, DispatcherRows
    <3>3. CASE Advanced(d)
      BY <1>1, <3>3 DEF Advanced, DispatcherRows
    <3> QED
      BY <1>7, <3>1, <3>2, <3>3
  <2>2. \A j \in dispatcher'[d].next : Ready(j)'
    BY <1>2, <1>3, <2>1 DEF Tells
  <2> QED
    BY <2>1, <2>2 DEF Tells
<1>8. ASSUME NEW j \in Jobs, Claim(d, j)
      PROVE  Tells(d)'
  <2>1. /\ dispatcher'[d].at = "starting" /\ dispatcher'[d].job = j
        /\ dispatcher'[d].next = dispatcher[d].next
    BY <1>1, <1>8 DEF Claim, DispatcherRows
  <2>2. \A i \in dispatcher'[d].next : Ready(i)'
    BY <1>2, <1>3, <2>1 DEF Tells
  <2> QED
    BY <2>1, <2>2 DEF Tells
<1>9. ASSUME Start(d) \/ Produce(d) \/ HandlerFails(d)
      PROVE  Tells(d)'
  <2>1. /\ dispatcher'[d].job = dispatcher[d].job
        /\ dispatcher'[d].next = dispatcher[d].next
    BY <1>1, <1>9 DEF Start, Produce, HandlerFails, DispatcherRows
  <2>2. dispatcher[d].job \in Jobs
    BY <1>3, <1>9 DEF Start, Produce, HandlerFails, Is, Tells
  <2>3. dispatcher'[d].at \in {"completing", "advancing", "enqueueing"} =>
          product'[dispatcher[d].job] = "ready"
    BY <1>1, <1>9, <2>2 DEF Start, Produce, HandlerFails, DispatcherRows
  <2>4. \A j \in dispatcher'[d].next : Ready(j)'
    BY <1>2, <1>3, <2>1 DEF Tells
  <2> QED
    BY <2>1, <2>2, <2>3, <2>4 DEF Tells
<1>10. ASSUME Complete(d)
       PROVE  Tells(d)'
  <2>1. /\ dispatcher'[d].job = dispatcher[d].job
        /\ dispatcher'[d].next = dispatcher[d].next
    BY <1>1, <1>10 DEF Complete, DispatcherRows
  <2>2. dispatcher[d].job \in Jobs /\ product'[dispatcher[d].job] = "ready"
    BY <1>2, <1>3, <1>10 DEF Complete, Is, Tells
  <2>3. \A j \in dispatcher'[d].next : Ready(j)'
    BY <1>2, <1>3, <2>1 DEF Tells
  <2> QED
    BY <2>1, <2>2, <2>3 DEF Tells
<1>11. ASSUME Advance(d)
       PROVE  Tells(d)'
  <2>1. dispatcher[d].job \in Jobs /\ product[dispatcher[d].job] = "ready"
    BY <1>3, <1>11 DEF Advance, Is, Tells
  <2>2. /\ dispatcher'[d].job = dispatcher[d].job
        /\ dispatcher'[d].next = Successors(dispatcher[d].job)
    BY <1>1, <1>11 DEF Advance, DispatcherRows
  <2>3. \A j \in dispatcher'[d].next : Ready(j)'
    BY <1>1, <1>2, <2>1, <2>2, SuccessorsAreReady
  <2> QED
    BY <1>2, <2>1, <2>2, <2>3 DEF Tells
<1>12. ASSUME NEW j \in Jobs, Enqueue(d, j)
       PROVE  Tells(d)'
  <2>1. /\ dispatcher'[d].at = "enqueueing" /\ dispatcher[d].at = "enqueueing"
        /\ dispatcher'[d].job = dispatcher[d].job
        /\ dispatcher'[d].next \subseteq dispatcher[d].next
    BY <1>1, <1>12 DEF Enqueue, Is, DispatcherRows
  <2>2. dispatcher[d].job \in Jobs /\ product'[dispatcher[d].job] = "ready"
    BY <1>2, <1>3, <2>1 DEF Tells
  <2>3. \A i \in dispatcher'[d].next : Ready(i)'
    BY <1>2, <1>3, <2>1 DEF Tells
  <2> QED
    BY <2>1, <2>2, <2>3 DEF Tells
<1>13. ASSUME Dies(d)
       PROVE  Tells(d)'
  BY <1>6, <1>13 DEF Dies
<1>14. CASE UNCHANGED dispatcher
  BY <1>4, <1>14
<1>15. ASSUME NEW e \in Dispatchers, e # d, Run(e) \/ HandlerFails(e) \/ Dies(e)
       PROVE  dispatcher'[d] = dispatcher[d]
  BY <1>1, <1>15
  DEF Run, Dispatch, EndBatch, Start, Produce, HandlerFails, Fail, Complete, Advance,
      Advanced, Claim, Enqueue, Dies
<1>16. ASSUME NEW e \in Dispatchers, Run(e) \/ HandlerFails(e) \/ Dies(e)
       PROVE  Tells(d)'
  <2>1. CASE e # d
    BY <1>4, <1>15, <1>16, <2>1
  <2>2. CASE e = d
    BY <1>7, <1>8, <1>9, <1>10, <1>11, <1>12, <1>13, <1>16, <2>2 DEF Run
  <2> QED
    BY <2>1, <2>2
<1> QED
  BY <1>14, <1>16 DEF QueueNext, Heartbeat, LockExpires, Recovery, ListStuck, Recover

(* A job that waits keeps an attempt, and a settled one stays without owner *)
(* and as it is: who writes a row that is not waiting owns it, or has read  *)
(* it as stuck and finds it in processing.                                  *)
LEMMA QueueRestStep ==
  ASSUME QueueAssumption, QueueInv, QueueNext
  PROVE  /\ JobsRest'
         /\ \A j \in Jobs : job[j].status \in {"completed", "failed"} => job'[j] = job[j]
<1> USE QueueTyped
<1> DEFINE Rests(r) == /\ r.status \in {"pending", "retry"} => r.attempts < MaxAttempts
                       /\ r.status \in {"completed", "failed"} => r.owner = Nobody
           Kept(j) == job[j].status \in {"completed", "failed"} => job'[j] = job[j]
<1>1. QueueTypeOK /\ \A j \in Jobs : job[j] \in JobRows /\ Rests(job[j])
  BY DEF QueueInv, JobsRest
<1>2. SUFFICES ASSUME NEW j \in Jobs
               PROVE  Rests(job'[j]) /\ Kept(j)
  BY DEF JobsRest
<1>3. CASE job'[j] = job[j]
  BY <1>1, <1>3
<1>4. ASSUME NEW d \in Dispatchers, Claim(d, j)
      PROVE  Rests(job'[j]) /\ Kept(j)
  <2>1. job'[j].status = "processing" /\ job[j].status \in {"pending", "retry"}
    BY <1>1, <1>4 DEF Claim, Due
  <2> QED
    BY <2>1
<1>5. ASSUME NEW d \in Dispatchers, Fail(d) \/ Complete(d), job'[j] # job[j]
      PROVE  Rests(job'[j]) /\ Kept(j)
  <2>1. job[j].status = "processing"
    BY <1>1, <1>5 DEF Fail, Complete, Owns
  <2>2. /\ job'[j].owner = Nobody
        /\ job'[j].status # "pending"
        /\ job'[j].status = "retry" => job'[j].attempts < MaxAttempts
    <3>1. CASE Fail(d)
      <4>1. /\ dispatcher[d].job = j
            /\ job'[j] = Unlocked(job[j], IF job[j].attempts >= MaxAttempts THEN "dead_letter"
                                          ELSE IF Is(d, "failing") THEN "retry" ELSE "failed")
        BY <1>1, <1>5, <3>1 DEF Fail
      <4> QED
        BY <1>1, <4>1 DEF Unlocked, JobRows, QueueAssumption
    <3>2. CASE Complete(d)
      <4>1. job'[j] = Unlocked(job[j], "completed")
        BY <1>1, <1>5, <3>2 DEF Complete
      <4> QED
        BY <1>1, <4>1 DEF Unlocked, JobRows
    <3> QED
      BY <1>5, <3>1, <3>2
  <2> QED
    BY <2>1, <2>2
<1>6. ASSUME NEW d \in Dispatchers, Enqueue(d, j), job'[j] # job[j]
      PROVE  Rests(job'[j]) /\ Kept(j)
  <2>1. job'[j] = Waiting /\ job[j].status \in {"absent", "dead_letter"}
    BY <1>1, <1>6 DEF Enqueue
  <2>2. Waiting.status = "pending" /\ Waiting.attempts = 0
    BY DEF Waiting, Absent
  <2> QED
    BY <2>1, <2>2 DEF QueueAssumption
<1>7. ASSUME NEW d \in Dispatchers, Dies(d)
      PROVE  Rests(job'[j]) /\ Kept(j)
  <2>1. job'[j] = [job[j] EXCEPT !.owner = IF @ = d THEN Nobody ELSE @]
    BY <1>7 DEF Dies
  <2>2. /\ job'[j].status = job[j].status /\ job'[j].attempts = job[j].attempts
        /\ job[j].owner = Nobody => job'[j] = job[j]
    BY <1>1, <2>1 DEF JobRows
  <2> QED
    BY <1>1, <2>2
<1>8. ASSUME LockExpires(j) \/ \E d \in Dispatchers : Heartbeat(d), job'[j] # job[j]
      PROVE  Rests(job'[j]) /\ Kept(j)
  <2>1. job[j].status = "processing" /\ job'[j].status = "processing"
    <3>1. CASE LockExpires(j)
      BY <1>1, <3>1 DEF LockExpires, JobRows
    <3>2. ASSUME NEW d \in Dispatchers, Heartbeat(d)
          PROVE  job[j].status = "processing" /\ job'[j].status = "processing"
      <4>1. dispatcher[d].job = j /\ job'[j] = [job[j] EXCEPT !.expired = FALSE]
        BY <1>1, <1>8, <3>2 DEF Heartbeat
      <4> QED
        BY <1>1, <3>2, <4>1 DEF Heartbeat, Owns, JobRows
    <3> QED
      BY <1>8, <3>1, <3>2
  <2> QED
    BY <2>1
<1>9. ASSUME NEW s \in sweep, Recover(s), job'[j] # job[j]
      PROVE  Rests(job'[j]) /\ Kept(j)
  <2>1. /\ s.job = j /\ StillStuck(s)
        /\ job'[j] = Unlocked(job[j], IF s.attempts >= MaxAttempts THEN "dead_letter" ELSE "retry")
    BY <1>1, <1>9 DEF Recover
  <2>2. /\ job[j].status = "processing"
        /\ job[j].attempts = s.attempts
    BY <2>1 DEF StillStuck
  <2>3. /\ job'[j].owner = Nobody /\ job'[j].attempts = job[j].attempts
        /\ job'[j].status = IF s.attempts >= MaxAttempts THEN "dead_letter" ELSE "retry"
    BY <1>1, <2>1 DEF Unlocked, JobRows
  <2> QED
    BY <1>1, <2>2, <2>3 DEF QueueAssumption, JobRows
<1>10. ASSUME NEW k \in Jobs, k # j, LockExpires(k) \/ \E d \in Dispatchers : Claim(d, k) \/ Enqueue(d, k)
       PROVE  job'[j] = job[j]
  BY <1>1, <1>10 DEF LockExpires, Claim, Enqueue
<1>11. ASSUME NEW d \in Dispatchers, Run(d)
       PROVE  Rests(job'[j]) /\ Kept(j)
  BY <1>3, <1>4, <1>5, <1>6, <1>10, <1>11
  DEF Run, Dispatch, EndBatch, Start, Produce, Advance, Advanced
<1> QED
  BY <1>3, <1>7, <1>8, <1>9, <1>10, <1>11 DEF QueueNext, HandlerFails, Recovery, ListStuck

(* A step of the episode comes into the queue when it is ready to start.    *)
LEMMA QueueOrderStep ==
  ASSUME QueueInv, QueueNext
  PROVE  StepsInOrder'
<1> USE QueueTyped
<1>1. QueueTypeOK /\ StepsInOrder /\ DispatchersTell
  BY DEF QueueInv
<1>2. SUFFICES ASSUME NEW j \in Jobs, job'[j].status # "absent"
               PROVE  Ready(j)'
  BY DEF StepsInOrder, Ready
<1>3. Ready(j) => Ready(j)'
  BY <1>1, ReadyToStartStays
<1>4. CASE job[j].status # "absent"
  BY <1>1, <1>3, <1>4 DEF StepsInOrder, Ready
<1>5. ASSUME job[j].status = "absent"
      PROVE  \E d \in Dispatchers : Enqueue(d, j)
  <2>1. job'[j] # job[j]
    BY <1>2, <1>5
  <2>2. ASSUME NEW d \in Dispatchers, NEW k \in Jobs, Claim(d, k) \/ Enqueue(d, k)
        PROVE  Enqueue(d, j)
    BY <1>1, <1>5, <2>1, <2>2 DEF Claim, Due, Enqueue
  <2>3. ASSUME NEW d \in Dispatchers, Fail(d) \/ Complete(d)
        PROVE  FALSE
    BY <1>1, <1>5, <2>1, <2>3 DEF Fail, Complete, Owns
  <2>4. ASSUME NEW d \in Dispatchers, Dies(d)
        PROVE  FALSE
    <3>1. job'[j].status = job[j].status
      BY <1>1, <2>4 DEF Dies, JobRows
    <3> QED
      BY <1>2, <1>5, <3>1
  <2>5. ASSUME NEW d \in Dispatchers, Heartbeat(d)
        PROVE  FALSE
    BY <1>1, <1>5, <2>1, <2>5 DEF Heartbeat, Owns
  <2>6. ASSUME NEW k \in Jobs, LockExpires(k)
        PROVE  FALSE
    BY <1>1, <1>5, <2>1, <2>6 DEF LockExpires
  <2>7. ASSUME NEW s \in sweep, Recover(s)
        PROVE  FALSE
    BY <1>1, <1>5, <2>1, <2>7 DEF Recover, StillStuck
  <2>8. job' # job
    BY <2>1
  <2>9. ASSUME NEW d \in Dispatchers, Run(d)
        PROVE  Enqueue(d, j)
    BY <2>2, <2>3, <2>8, <2>9 DEF Run, Dispatch, EndBatch, Start, Produce, Advance, Advanced
  <2> QED
    BY <2>4, <2>5, <2>6, <2>7, <2>8, <2>9 DEF QueueNext, HandlerFails, Recovery, ListStuck
<1>6. CASE job[j].status = "absent"
  <2>1. PICK d \in Dispatchers : Enqueue(d, j)
    BY <1>5, <1>6
  <2>2. Ready(j)
    BY <1>1, <2>1 DEF Enqueue, DispatchersTell, Tells
  <2> QED
    BY <1>3, <2>2
<1> QED
  BY <1>4, <1>6

(* An episode may be met anywhere on its way, as long as what is done, and  *)
(* what comes first, had its inputs.                                        *)
LEMMA QueueFromInv ==
  ASSUME QueueAssumption, NEW done \in SUBSET Jobs, NEW first \in Jobs,
         done \cap {first, "performance"} = {},
         \A j \in done \cup {first} : Inputs(j) \subseteq done,
         QueueFrom(done, first)
  PROVE  QueueInv
<1>1. /\ Absent \in JobRows /\ Absent.attempts = 0
      /\ Absent.owner = Nobody /\ Absent.status = "absent"
  BY DEF Absent, JobRows, QueueAssumption
<1>2. \A r \in JobRows, n \in {0, 1}, status \in {"completed", "pending"} :
        /\ [r EXCEPT !.status = status, !.attempts = n] \in JobRows
        /\ [r EXCEPT !.status = status] \in JobRows
        /\ [r EXCEPT !.status = status].status = status
        /\ [r EXCEPT !.status = status].attempts = r.attempts
        /\ [r EXCEPT !.status = status, !.attempts = n].status = status
        /\ [r EXCEPT !.status = status, !.attempts = n].owner = r.owner
  <2>1. {0, 1} \subseteq 0..MaxAttempts
    BY DEF QueueAssumption
  <2> QED
    BY <2>1 DEF JobRows
<1>3. /\ Waiting \in JobRows /\ Waiting.status = "pending" /\ Waiting.attempts = 0
      /\ [Absent EXCEPT !.status = "completed", !.attempts = 1] \in JobRows
      /\ [Absent EXCEPT !.status = "completed", !.attempts = 1].status = "completed"
      /\ [Absent EXCEPT !.status = "completed", !.attempts = 1].owner = Nobody
  BY <1>1, <1>2 DEF Waiting
<1>4. \A j \in Jobs :
        job[j] = IF j \in done THEN [Absent EXCEPT !.status = "completed", !.attempts = 1]
                 ELSE IF j \in {first, "performance"} THEN Waiting ELSE Absent
  BY DEF QueueFrom
<1>5. Rested \in DispatcherRows /\ Rested.at = "idle" /\ Rested.next = {}
  BY DEF Rested, DispatcherRows, DispatcherStages, QueueAssumption
<1>6. QueueTypeOK
  <2>1. job \in [Jobs -> JobRows]
    <3>1. \A j \in Jobs : job[j] \in JobRows
      BY <1>1, <1>3, <1>4
    <3>2. job = [j \in Jobs |-> job[j]]
      BY DEF QueueFrom
    <3> QED
      BY <3>1, <3>2
  <2>2. dispatcher \in [Dispatchers -> DispatcherRows]
    BY <1>5 DEF QueueFrom
  <2>3. /\ product \in [Jobs -> {"none", "processing", "ready"}]
        /\ sweep = {} /\ mishaps \in 0..MaxMishaps
    BY DEF QueueFrom, QueueAssumption
  <2> QED
    BY <2>1, <2>2, <2>3 DEF QueueTypeOK, JobRows, DispatcherRows
<1>7. DispatchersTell
  BY <1>5 DEF QueueFrom, DispatchersTell, Tells
<1>8. JobsRest
  <2>1. SUFFICES ASSUME NEW j \in Jobs
                 PROVE  /\ job[j].status \in {"pending", "retry"} => job[j].attempts = 0
                        /\ job[j].status \in {"completed", "failed"} => job[j].owner = Nobody
    BY DEF JobsRest, QueueAssumption
  <2> QED
    BY <1>1, <1>3, <1>4
<1>9. StepsInOrder
  <2>1. SUFFICES ASSUME NEW j \in Jobs, job[j].status # "absent", NEW i \in Inputs(j)
                 PROVE  product[i] = "ready"
    BY DEF StepsInOrder
  <2>2. j \in done \cup {first, "performance"}
    BY <1>1, <1>4, <2>1
  <2>3. Inputs("performance") = {}
    BY DEF Inputs, AudioSteps, SyncSteps
  <2>4. i \in done
    BY <2>1, <2>2, <2>3
  <2> QED
    BY <2>4 DEF QueueFrom
<1> QED
  BY <1>6, <1>7, <1>8, <1>9 DEF QueueInv

(* Every step of the workers, the recovery and the routes keeps the queue's *)
(* invariant.                                                               *)
LEMMA QueueStepInv ==
  ASSUME QueueAssumption, QueueInv, [QueueNext]_queueVars
  PROVE  QueueInv'
<1>1. CASE QueueNext
  BY <1>1, QueueTypeStep, QueueTellStep, QueueRestStep, QueueOrderStep DEF QueueInv
<1>2. CASE UNCHANGED queueVars
  BY <1>2 DEF queueVars, QueueInv, QueueTypeOK, DispatchersTell, Tells, Ready, JobsRest,
              StepsInOrder
<1> QED
  BY <1>1, <1>2

(* Whatever is lost, repeated or late, the queue's inductive invariant      *)
(* holds: its types, what a dispatcher still knows of a job it may have     *)
(* lost, what a waiting and a settled job are like, and the order of steps. *)
THEOREM QueueInvAlways == QueueSafety => []QueueInv
<1>1. QueueInit => QueueInv
  <2>1. Inputs("story") = {} /\ "story" \in Jobs
    BY DEF Inputs, Jobs, TextSteps, AudioSteps, SyncSteps
  <2> QED
    BY <2>1, QueueFromInv, QueueAssumption DEF QueueInit
<1>2. QueueInv /\ [QueueNext]_queueVars => QueueInv'
  BY QueueStepInv, QueueAssumption
<1> QED
  BY <1>1, <1>2, PTL DEF QueueSafety

(* The rows of the queue and its dispatchers are always well typed: no job  *)
(* is ever given more than its attempts.                                    *)
THEOREM QueueTypeCorrect == QueueSafety => []QueueTypeOK
<1>1. QueueInv => QueueTypeOK
  BY DEF QueueInv
<1> QED
  BY <1>1, QueueInvAlways, PTL

(* A step of the episode is in the queue only when all it reads has been    *)
(* produced, although workers lose their locks and run jobs twice.          *)
THEOREM QueueStepsInOrder == QueueSafety => []StepsInOrder
<1>1. QueueInv => StepsInOrder
  BY DEF QueueInv
<1> QED
  BY <1>1, QueueInvAlways, PTL

(* No late worker, recovery or repeated predecessor opens a job again that  *)
(* is completed or has failed for good.                                     *)
THEOREM QueueSettledIsFinal == QueueSafety => SettledIsFinal
<1> DEFINE Final == \A j \in Jobs : job[j].status \in {"completed", "failed"} => job'[j] = job[j]
<1>1. QueueInv /\ [QueueNext]_queueVars => [Final]_queueVars
  BY QueueRestStep, QueueAssumption
<1>2. QueueSafety => [][Final]_queueVars
  BY <1>1, QueueInvAlways, PTL DEF QueueSafety
<1> QED
  BY <1>2 DEF SettledIsFinal

(* The board of steps.  What a dispatcher works on is in the queue and on   *)
(* one of its attempts.                                                     *)
Underway ==
  /\ \A j \in Jobs : job[j].status = "processing" => job[j].attempts > 0
  /\ \A d \in Dispatchers :
       dispatcher[d].at \notin {"idle", "claiming"} => job[dispatcher[d].job].status # "absent"

BoardInv == QueueInv /\ Underway

(* A job that is in the queue stays there, and one at work was claimed.     *)
LEMMA JobsStay ==
  ASSUME QueueAssumption, QueueInv, Underway, QueueNext, NEW j \in Jobs
  PROVE  /\ job[j].status # "absent" => job'[j].status # "absent"
         /\ job'[j].status = "processing" => job'[j].attempts > 0
<1> USE QueueTyped
<1>1. QueueTypeOK /\ \A k \in Jobs : job[k] \in JobRows /\ job[k].attempts \in Nat
  BY DEF QueueInv, JobRows
<1> DEFINE Stays == /\ job[j].status # "absent" => job'[j].status # "absent"
                    /\ job'[j].status = "processing" => job'[j].attempts > 0
<1>2. CASE job'[j] = job[j]
  BY <1>2 DEF Underway
<1>3. ASSUME NEW d \in Dispatchers, NEW k \in Jobs, Claim(d, k)
      PROVE  Stays
  <2>1. k = j => job'[j].status = "processing" /\ job'[j].attempts = job[j].attempts + 1
    BY <1>1, <1>3 DEF Claim
  <2>2. k # j => job'[j] = job[j]
    BY <1>1, <1>3 DEF Claim
  <2> QED
    BY <1>1, <1>2, <2>1, <2>2
<1>4. ASSUME NEW d \in Dispatchers, NEW k \in Jobs, Enqueue(d, k)
      PROVE  Stays
  <2>1. Waiting.status = "pending"
    BY DEF Waiting, Absent
  <2>2. job'[j] = job[j] \/ job'[j] = Waiting
    BY <1>1, <1>4 DEF Enqueue
  <2> QED
    BY <1>2, <2>1, <2>2
<1>5. ASSUME NEW status \in {"retry", "failed", "dead_letter", "completed"},
             job'[j] = Unlocked(job[j], status)
      PROVE  Stays
  <2>1. job'[j].status = status
    BY <1>1, <1>5 DEF Unlocked, JobRows
  <2> QED
    BY <2>1
<1>6. ASSUME NEW d \in Dispatchers, Fail(d) \/ Complete(d)
      PROVE  Stays
  <2>1. CASE Fail(d)
    <3>1. \/ job'[j] = job[j]
          \/ \E status \in {"retry", "failed", "dead_letter"} : job'[j] = Unlocked(job[j], status)
      BY <1>1, <2>1 DEF Fail
    <3> QED
      BY <1>2, <1>5, <3>1
  <2>2. CASE Complete(d)
    <3>1. job'[j] = job[j] \/ job'[j] = Unlocked(job[j], "completed")
      BY <1>1, <2>2 DEF Complete
    <3> QED
      BY <1>2, <1>5, <3>1
  <2> QED
    BY <1>6, <2>1, <2>2
<1>7. ASSUME NEW s \in sweep, Recover(s)
      PROVE  Stays
  <2>1. \/ job'[j] = job[j]
        \/ \E status \in {"retry", "dead_letter"} : job'[j] = Unlocked(job[j], status)
    BY <1>1, <1>7 DEF Recover
  <2> QED
    BY <1>2, <1>5, <2>1
<1>8. ASSUME job'[j].status = job[j].status, job'[j].attempts = job[j].attempts
      PROVE  Stays
  BY <1>8 DEF Underway
<1>9. ASSUME NEW d \in Dispatchers, Dies(d) \/ Heartbeat(d)
      PROVE  Stays
  <2>1. job'[j].status = job[j].status /\ job'[j].attempts = job[j].attempts
    BY <1>1, <1>9 DEF Dies, Heartbeat, JobRows
  <2> QED
    BY <1>8, <2>1
<1>10. ASSUME NEW k \in Jobs, LockExpires(k)
       PROVE  Stays
  <2>1. job'[j].status = job[j].status /\ job'[j].attempts = job[j].attempts
    BY <1>1, <1>10 DEF LockExpires, JobRows
  <2> QED
    BY <1>8, <2>1
<1>11. ASSUME NEW d \in Dispatchers, Run(d)
       PROVE  Stays
  BY <1>2, <1>3, <1>4, <1>6, <1>11
  DEF Run, Dispatch, EndBatch, Start, Produce, Advance, Advanced
<1> QED
  BY <1>2, <1>7, <1>9, <1>10, <1>11 DEF QueueNext, HandlerFails, Recovery, ListStuck

(* Whoever works goes on with the job he has claimed.                       *)
LEMMA UnderwayStep ==
  ASSUME QueueAssumption, BoardInv, QueueNext
  PROVE  Underway'
<1> USE QueueTyped
<1>1. QueueInv /\ QueueTypeOK /\ DispatchersTell /\ Underway
  BY DEF BoardInv, QueueInv
<1>2. \A j \in Jobs : /\ job[j].status # "absent" => job'[j].status # "absent"
                      /\ job'[j].status = "processing" => job'[j].attempts > 0
  BY <1>1, JobsStay
<1>3. SUFFICES ASSUME NEW d \in Dispatchers
               PROVE  dispatcher'[d].at \notin {"idle", "claiming"}
                        => job'[dispatcher'[d].job].status # "absent"
  BY <1>2 DEF Underway
<1> DEFINE Goes == dispatcher'[d].at \notin {"idle", "claiming"}
                     => job'[dispatcher'[d].job].status # "absent"
<1>4. dispatcher[d].at \notin {"idle", "claiming"}
        => dispatcher[d].job \in Jobs /\ job'[dispatcher[d].job].status # "absent"
  BY <1>1, <1>2 DEF DispatchersTell, Tells, Underway
<1>5. CASE dispatcher'[d].at \in {"idle", "claiming"}
  BY <1>5
<1>6. CASE dispatcher'[d] = dispatcher[d]
  BY <1>1, <1>4, <1>6 DEF Underway
<1>7. ASSUME NEW j \in Jobs, Claim(d, j)
      PROVE  Goes
  <2>1. dispatcher'[d].at = "starting" /\ dispatcher'[d].job = j
    BY <1>1, <1>7 DEF Claim, DispatcherRows
  <2>2. job'[j].status = "processing"
    BY <1>1, <1>7 DEF Claim
  <2> QED
    BY <2>1, <2>2
<1>8. CASE Start(d)
  <2>1. dispatcher[d].at = "starting" /\ dispatcher'[d].job = dispatcher[d].job
    BY <1>1, <1>8 DEF Start, Is, DispatcherRows
  <2> QED
    BY <1>4, <2>1
<1>9. ASSUME \/ Produce(d) \/ HandlerFails(d) \/ Complete(d) \/ Advance(d)
             \/ \E j \in Jobs : Enqueue(d, j)
      PROVE  Goes
  <2>1. /\ dispatcher[d].at \in {"starting", "working", "completing", "advancing", "enqueueing"}
        /\ dispatcher'[d].job = dispatcher[d].job
    BY <1>1, <1>9 DEF Produce, HandlerFails, Complete, Advance, Enqueue, Is, DispatcherRows
  <2> QED
    BY <1>4, <2>1
<1>10. ASSUME Dispatch(d) \/ EndBatch(d) \/ Fail(d) \/ Advanced(d) \/ Dies(d)
       PROVE  dispatcher'[d].at \in {"idle", "claiming"}
  <2>1. /\ Rested.at = "idle"
        /\ \A open \in SUBSET Lanes :
             [Rested EXCEPT !.at = "claiming", !.lanes = open, !.left = BatchSize].at = "claiming"
    BY DEF Rested
  <2>2. {lane \in Lanes : Cardinality(Processing(lane)) < LaneWidth(lane)} \in SUBSET Lanes
    OBVIOUS
  <2>3. CASE Dispatch(d) \/ EndBatch(d) \/ Dies(d)
    BY <1>1, <2>1, <2>2, <2>3 DEF Dispatch, EndBatch, Dies
  <2>4. CASE Fail(d) \/ Advanced(d)
    BY <1>1, <2>4 DEF Fail, Advanced, DispatcherRows
  <2> QED
    BY <1>10, <2>3, <2>4
<1>11. ASSUME NEW e \in Dispatchers, e # d, Run(e) \/ HandlerFails(e) \/ Dies(e)
       PROVE  dispatcher'[d] = dispatcher[d]
  BY <1>1, <1>11
  DEF Run, Dispatch, EndBatch, Start, Produce, HandlerFails, Fail, Complete, Advance,
      Advanced, Claim, Enqueue, Dies
<1>12. ASSUME Run(d) \/ HandlerFails(d) \/ Dies(d)
       PROVE  Goes
  BY <1>5, <1>7, <1>8, <1>9, <1>10, <1>12 DEF Run
<1>13. CASE UNCHANGED dispatcher
  BY <1>6, <1>13
<1> QED
  BY <1>6, <1>11, <1>12, <1>13 DEF QueueNext, Heartbeat, LockExpires, Recovery, ListStuck, Recover

(* Where the queue is met nobody works yet.                                 *)
LEMMA NobodyUnderway ==
  ASSUME NEW done, NEW first, done \cap {first, "performance"} = {}, QueueFrom(done, first)
  PROVE  Underway
<1>1. /\ Absent.status = "absent" /\ Waiting.status = "pending" /\ Rested.at = "idle"
      /\ [Absent EXCEPT !.status = "completed", !.attempts = 1].status = "completed"
  BY DEF Absent, Waiting, Rested
<1>2. \A j \in Jobs :
        job[j] = IF j \in done THEN [Absent EXCEPT !.status = "completed", !.attempts = 1]
                 ELSE IF j \in {first, "performance"} THEN Waiting ELSE Absent
  BY DEF QueueFrom
<1>3. \A d \in Dispatchers : dispatcher[d].at = "idle"
  BY <1>1 DEF QueueFrom
<1>4. \A j \in Jobs : job[j].status # "processing"
  BY <1>1, <1>2
<1> QED
  BY <1>3, <1>4 DEF Underway

(* The invariant the mapping to the board rests on.                         *)
LEMMA BoardInvariant == QueueSafety => []BoardInv
<1>1. QueueInit => Underway
  BY NobodyUnderway DEF QueueInit, Jobs, TextSteps
<1>2. BoardInv /\ [QueueNext]_queueVars => Underway'
  <2>1. CASE UNCHANGED queueVars
    BY <2>1 DEF BoardInv, Underway, queueVars
  <2> QED
    BY <2>1, UnderwayStep, QueueAssumption
<1>3. BoardInv <=> QueueInv /\ Underway
  BY DEF BoardInv
<1> QED
  BY <1>1, <1>2, <1>3, QueueInvAlways, PTL DEF QueueSafety

(* What a job's phase on the board says of its row.                         *)
LEMMA PhasesOfJobs ==
  ASSUME QueueTypeOK, NEW j \in Jobs
  PROVE  /\ JobPhase(j) = "absent" <=> job[j].status = "absent"
         /\ JobPhase(j) = "open" <=> job[j].status \in {"pending", "processing", "retry"}
         /\ JobPhase(j) = "done" <=> job[j].status = "completed"
         /\ JobPhase(j) = "refused" <=> job[j].status = "failed"
         /\ JobPhase(j) = "dead" <=> job[j].status = "dead_letter"
<1>1. job[j].status \in {"absent", "pending", "processing", "retry", "completed",
                         "failed", "dead_letter"}
  BY QueueTyped DEF JobRows
<1> QED
  BY <1>1 DEF JobPhase

(* The same of the next state.                                              *)
LEMMA PhasesOfJobsNext ==
  (QueueTypeOK =>
     \A j \in Jobs :
       /\ JobPhase(j) = "open" <=> job[j].status \in {"pending", "processing", "retry"}
       /\ JobPhase(j) = "done" <=> job[j].status = "completed"
       /\ JobPhase(j) = "refused" <=> job[j].status = "failed"
       /\ JobPhase(j) = "dead" <=> job[j].status = "dead_letter")'
<1>1. QueueTypeOK =>
        \A j \in Jobs :
          /\ JobPhase(j) = "open" <=> job[j].status \in {"pending", "processing", "retry"}
          /\ JobPhase(j) = "done" <=> job[j].status = "completed"
          /\ JobPhase(j) = "refused" <=> job[j].status = "failed"
          /\ JobPhase(j) = "dead" <=> job[j].status = "dead_letter"
  BY PhasesOfJobs
<1> QED
  BY <1>1, PTL

(* A row whose status and attempts stay is the same on the board.           *)
LEMMA SameOnBoard ==
  ASSUME NEW j \in Jobs, job'[j].status = job[j].status, job'[j].attempts = job[j].attempts
  PROVE  JobPhases'[j] = JobPhases[j] /\ JobTries'[j] = JobTries[j]
<1>1. JobPhase(j)' = JobPhase(j)
  BY DEF JobPhase
<1> QED
  BY <1>1 DEF JobPhases, JobTries

(* A step that moves no row on the board and makes nothing.                 *)
LEMMA BoardRests ==
  ASSUME \A j \in Jobs : /\ job'[j].status = job[j].status /\ job'[j].attempts = job[j].attempts
                         /\ product'[j] = "ready" <=> product[j] = "ready"
  PROVE  UNCHANGED Board!boardVars
<1>1. \A j \in Jobs : JobPhases'[j] = JobPhases[j] /\ JobTries'[j] = JobTries[j]
  BY SameOnBoard
<1>2. JobPhases' = JobPhases /\ JobTries' = JobTries
  BY <1>1 DEF JobPhases, JobTries
<1>3. JobsMade' = JobsMade
  BY DEF JobsMade
<1> QED
  BY <1>2, <1>3 DEF Board!boardVars

(* A step that writes one row.                                              *)
LEMMA RowMoves ==
  ASSUME NEW j \in Jobs, \A k \in Jobs \ {j} : job'[k] = job[k], product' = product
  PROVE  /\ JobPhases' = [JobPhases EXCEPT ![j] = JobPhase(j)']
         /\ JobTries' = [JobTries EXCEPT ![j] = job'[j].attempts]
         /\ JobsMade' = JobsMade
<1>1. \A k \in Jobs \ {j} : JobPhases'[k] = JobPhases[k] /\ JobTries'[k] = JobTries[k]
  BY SameOnBoard
<1>2. JobPhases'[j] = JobPhase(j)' /\ JobTries'[j] = job'[j].attempts
  BY DEF JobPhases, JobTries
<1>3. JobPhases' = [JobPhases EXCEPT ![j] = JobPhase(j)']
  BY <1>1, <1>2 DEF JobPhases
<1>4. JobTries' = [JobTries EXCEPT ![j] = job'[j].attempts]
  BY <1>1, <1>2 DEF JobTries
<1>5. JobsMade' = JobsMade
  BY DEF JobsMade
<1> QED
  BY <1>3, <1>4, <1>5

(* A row that is unlocked is tried again, or closed with the verdict.       *)
LEMMA UnlockedOnBoard ==
  ASSUME BoardInv, QueueTypeOK', NEW j \in Jobs, job[j].status = "processing",
         NEW status \in {"retry", "completed", "failed", "dead_letter"},
         job' = [job EXCEPT ![j] = Unlocked(@, status)], product' = product
  PROVE  /\ status = "retry" => UNCHANGED Board!boardVars
         /\ status = "completed" => Board!Closes(j, "done")
         /\ status = "failed" => Board!Closes(j, "refused")
         /\ status = "dead_letter" => Board!Closes(j, "dead")
<1>1. QueueTypeOK /\ job[j].attempts > 0
  BY DEF BoardInv, QueueInv, Underway
<1>2. /\ \A k \in Jobs \ {j} : job'[k] = job[k]
      /\ job'[j].attempts = job[j].attempts /\ job'[j].status = status
  BY <1>1, QueueTyped DEF Unlocked, JobRows
<1>3. /\ JobPhases' = [JobPhases EXCEPT ![j] = JobPhase(j)']
      /\ JobTries' = [JobTries EXCEPT ![j] = job[j].attempts]
      /\ JobsMade' = JobsMade
  BY <1>1, <1>2, RowMoves
<1>4. JobTries' = JobTries /\ JobTries[j] > 0
  BY <1>1, <1>3 DEF JobTries
<1>5. JobPhases[j] = "open"
  BY <1>1, PhasesOfJobs DEF JobPhases
<1>6. /\ status = "retry" => JobPhase(j)' = "open"
      /\ status = "completed" => JobPhase(j)' = "done"
      /\ status = "failed" => JobPhase(j)' = "refused"
      /\ status = "dead_letter" => JobPhase(j)' = "dead"
  BY <1>2, PhasesOfJobsNext
<1>7. status = "retry" => JobPhases' = JobPhases
  BY <1>3, <1>5, <1>6 DEF JobPhases
<1> QED
  BY <1>3, <1>4, <1>5, <1>6, <1>7 DEF Board!Closes, Board!boardVars

(* A claim is an attempt.                                                   *)
LEMMA ClaimTries ==
  ASSUME BoardInv, QueueTypeOK', NEW d \in Dispatchers, NEW j \in Jobs, Claim(d, j)
  PROVE  Board!Try(j)
<1>1. QueueTypeOK /\ job[j].status \in {"pending", "retry"} /\ job[j].attempts < MaxAttempts
  BY DEF BoardInv, QueueInv, JobsRest, Claim, Due
<1>2. /\ \A k \in Jobs \ {j} : job'[k] = job[k]
      /\ job'[j].attempts = job[j].attempts + 1 /\ job'[j].status = "processing"
      /\ product' = product
  BY <1>1, QueueTyped DEF Claim
<1>3. /\ JobPhases' = [JobPhases EXCEPT ![j] = JobPhase(j)']
      /\ JobTries' = [JobTries EXCEPT ![j] = job[j].attempts + 1]
      /\ JobsMade' = JobsMade
  BY <1>2, RowMoves
<1>4. JobPhases[j] = "open" /\ JobPhase(j)' = "open" /\ JobTries[j] = job[j].attempts
  BY <1>1, <1>2, PhasesOfJobs, PhasesOfJobsNext DEF JobPhases, JobTries
<1>5. JobPhases' = JobPhases
  BY <1>3, <1>4 DEF JobPhases
<1>6. JobTries' = [JobTries EXCEPT ![j] = @ + 1]
  BY <1>3, <1>4
<1> QED
  BY <1>1, <1>3, <1>4, <1>5, <1>6 DEF Board!Try

(* What is queued is posted, unless it is in the queue already.             *)
LEMMA EnqueuePosts ==
  ASSUME BoardInv, QueueTypeOK', NEW d \in Dispatchers, NEW j \in Jobs, Enqueue(d, j)
  PROVE  [Board!BoardNext]_(Board!boardVars)
<1>1. QueueTypeOK /\ Ready(j) /\ product' = product
  BY DEF BoardInv, QueueInv, DispatchersTell, Tells, Enqueue
<1>2. CASE job[j].status \in {"absent", "dead_letter"}
  <2>1. job' = [job EXCEPT ![j] = Waiting] /\ Waiting.status = "pending" /\ Waiting.attempts = 0
    BY <1>2 DEF Enqueue, Waiting, Absent
  <2>2. /\ \A k \in Jobs \ {j} : job'[k] = job[k]
        /\ job'[j].attempts = 0 /\ job'[j].status = "pending"
    BY <1>1, <2>1, QueueTyped
  <2>3. /\ JobPhases' = [JobPhases EXCEPT ![j] = JobPhase(j)']
        /\ JobTries' = [JobTries EXCEPT ![j] = 0]
        /\ JobsMade' = JobsMade
    BY <1>1, <2>2, RowMoves
  <2>4. JobPhase(j)' = "open" /\ JobPhases[j] \in {"absent", "dead"}
    BY <1>1, <1>2, <2>2, PhasesOfJobs, PhasesOfJobsNext DEF JobPhases
  <2>5. InputsOf[j] \subseteq JobsMade
    BY <1>1, InputsAreJobs DEF InputsOf, JobsMade, Ready
  <2>6. Board!Post(j)
    BY <2>3, <2>4, <2>5 DEF Board!Post
  <2> QED
    BY <2>6 DEF Board!BoardNext
<1>3. CASE job[j].status \notin {"absent", "dead_letter"}
  <2>1. \A k \in Jobs : job'[k] = job[k]
    BY <1>1, <1>3, QueueTyped DEF Enqueue
  <2> QED
    BY <1>1, <2>1, BoardRests
<1> QED
  BY <1>2, <1>3

(* A worker that lost its lock makes its product all the same.              *)
LEMMA ProduceMakes ==
  ASSUME BoardInv, NEW d \in Dispatchers, Produce(d)
  PROVE  Board!Make(dispatcher[d].job)
<1> DEFINE j == dispatcher[d].job
<1>1. QueueTypeOK /\ j \in Jobs /\ job[j].status # "absent"
  BY DEF BoardInv, QueueInv, DispatchersTell, Tells, Underway, Produce, Is
<1>2. job' = job /\ product' = [product EXCEPT ![j] = "ready"]
  BY DEF Produce
<1>3. JobPhases[j] # "absent"
  BY <1>1, PhasesOfJobs DEF JobPhases
<1>4. JobPhases' = JobPhases /\ JobTries' = JobTries
  <2>1. \A k \in Jobs : JobPhases'[k] = JobPhases[k] /\ JobTries'[k] = JobTries[k]
    BY <1>2, SameOnBoard
  <2> QED
    BY <2>1 DEF JobPhases, JobTries
<1>5. JobsMade' = JobsMade \cup {j}
  BY <1>1, <1>2, QueueTyped DEF JobsMade
<1> QED
  BY <1>3, <1>4, <1>5 DEF Board!Make

(* Closing a row, by its worker or by the recovery, closes the step.        *)
LEMMA VerdictCloses ==
  ASSUME BoardInv, QueueTypeOK',
         \/ \E d \in Dispatchers : Fail(d) \/ Complete(d)
         \/ \E s \in sweep : Recover(s)
  PROVE  [Board!BoardNext]_(Board!boardVars)
<1>1. /\ QueueTypeOK /\ DispatchersTell /\ Underway /\ MaxAttempts \in Nat
      /\ \A j \in Jobs : job[j].attempts \in 0..MaxAttempts
  BY QueueTyped, QueueAssumption DEF BoardInv, QueueInv, JobRows
<1>2. product' = product
  BY DEF Fail, Complete, Recover
<1>3. CASE job' = job
  BY <1>2, <1>3, BoardRests
<1>4. ASSUME NEW j \in Jobs, job[j].status = "processing",
             NEW status \in {"retry", "completed", "failed", "dead_letter"},
             job' = [job EXCEPT ![j] = Unlocked(@, status)],
             status = "completed" => product[j] = "ready",
             status = "dead_letter" => job[j].attempts >= MaxAttempts
      PROVE  [Board!BoardNext]_(Board!boardVars)
  <2>1. /\ status = "retry" => UNCHANGED Board!boardVars
        /\ status = "completed" => Board!Closes(j, "done")
        /\ status = "failed" => Board!Closes(j, "refused")
        /\ status = "dead_letter" => Board!Closes(j, "dead")
    BY <1>2, <1>4, UnlockedOnBoard
  <2>2. status = "completed" => j \in JobsMade
    BY <1>4 DEF JobsMade
  <2>3. status = "dead_letter" => JobTries[j] = MaxAttempts
    BY <1>1, <1>4 DEF JobTries
  <2> QED
    BY <1>4, <2>1, <2>2, <2>3
    DEF Board!BoardNext, Board!Finish, Board!Refuse, Board!GiveUp
<1>5. ASSUME NEW d \in Dispatchers, Fail(d)
      PROVE  [Board!BoardNext]_(Board!boardVars)
  <2> DEFINE j == dispatcher[d].job
             verdict == IF job[j].attempts >= MaxAttempts THEN "dead_letter"
                        ELSE IF Is(d, "failing") THEN "retry" ELSE "failed"
  <2>1. j \in Jobs
    BY <1>1, <1>5 DEF DispatchersTell, Tells, Underway, Fail, Is
  <2>2. CASE Owns(d, j)
    <3>1. job' = [job EXCEPT ![j] = Unlocked(@, verdict)] /\ job[j].status = "processing"
      BY <1>5, <2>2 DEF Fail, Owns
    <3>2. /\ verdict \in {"retry", "completed", "failed", "dead_letter"} /\ verdict # "completed"
          /\ verdict = "dead_letter" => job[j].attempts >= MaxAttempts
      BY <1>5, <2>1 DEF Fail
    <3> HIDE DEF j, verdict
    <3> QED
      BY <1>4, <2>1, <3>1, <3>2
  <2> QED
    BY <1>3, <1>5, <2>2 DEF Fail
<1>6. ASSUME NEW d \in Dispatchers, Complete(d)
      PROVE  [Board!BoardNext]_(Board!boardVars)
  <2> DEFINE j == dispatcher[d].job
  <2>1. j \in Jobs /\ product[j] = "ready"
    BY <1>1, <1>6 DEF DispatchersTell, Tells, Complete, Is
  <2>2. CASE Owns(d, j)
    <3>1. job' = [job EXCEPT ![j] = Unlocked(@, "completed")] /\ job[j].status = "processing"
      BY <1>6, <2>2 DEF Complete, Owns
    <3> HIDE DEF j
    <3> QED
      BY <1>4, <2>1, <3>1
  <2> QED
    BY <1>3, <1>6, <2>2 DEF Complete
<1>7. ASSUME NEW s \in sweep, Recover(s)
      PROVE  [Board!BoardNext]_(Board!boardVars)
  <2> DEFINE verdict == IF s.attempts >= MaxAttempts THEN "dead_letter" ELSE "retry"
  <2>1. s.job \in Jobs
    BY <1>1, QueueTyped
  <2>2. CASE StillStuck(s)
    <3>1. /\ job' = [job EXCEPT ![s.job] = Unlocked(@, verdict)]
          /\ job[s.job].status = "processing" /\ job[s.job].attempts = s.attempts
      BY <1>7, <2>2 DEF Recover, StillStuck
    <3>2. /\ verdict \in {"retry", "completed", "failed", "dead_letter"}
          /\ verdict \notin {"completed", "failed"}
          /\ verdict = "dead_letter" => job[s.job].attempts >= MaxAttempts
      BY <3>1
    <3> HIDE DEF verdict
    <3> QED
      BY <1>4, <2>1, <3>1, <3>2
  <2> QED
    BY <1>3, <1>7, <2>2 DEF Recover
<1> QED
  BY <1>5, <1>6, <1>7

(* Every step of the queue is a step of the board or leaves it alone.       *)
LEMMA BoardStep ==
  ASSUME QueueAssumption, BoardInv, [QueueNext]_queueVars
  PROVE  [Board!BoardNext]_(Board!boardVars)
<1> USE QueueTyped
<1>1. QueueTypeOK /\ \A j \in Jobs : job[j] \in JobRows
  BY DEF BoardInv, QueueInv
<1>2. QueueTypeOK'
  BY QueueStepInv DEF BoardInv, QueueInv
<1>3. CASE job' = job /\ \A j \in Jobs : product'[j] = "ready" <=> product[j] = "ready"
  BY <1>3, BoardRests
<1>4. ASSUME NEW d \in Dispatchers, Dies(d) \/ Heartbeat(d)
      PROVE  [Board!BoardNext]_(Board!boardVars)
  <2>1. \A j \in Jobs : job'[j].status = job[j].status /\ job'[j].attempts = job[j].attempts
    BY <1>1, <1>4 DEF Dies, Heartbeat, JobRows
  <2>2. product' = product
    BY <1>4 DEF Dies, Heartbeat
  <2> QED
    BY <2>1, <2>2, BoardRests
<1>5. ASSUME NEW k \in Jobs, LockExpires(k)
      PROVE  [Board!BoardNext]_(Board!boardVars)
  <2>1. \A j \in Jobs : job'[j].status = job[j].status /\ job'[j].attempts = job[j].attempts
    BY <1>1, <1>5 DEF LockExpires, JobRows
  <2>2. product' = product
    BY <1>5 DEF LockExpires
  <2> QED
    BY <2>1, <2>2, BoardRests
<1>6. ASSUME NEW d \in Dispatchers, Start(d) \/ HandlerFails(d)
      PROVE  [Board!BoardNext]_(Board!boardVars)
  <2>1. job' = job
    BY <1>6 DEF Start, HandlerFails
  <2>2. \A j \in Jobs : product'[j] = "ready" <=> product[j] = "ready"
    BY <1>1, <1>6 DEF Start, HandlerFails
  <2> QED
    BY <1>3, <2>1, <2>2
<1>7. ASSUME NEW d \in Dispatchers, Run(d) \/ HandlerFails(d)
      PROVE  [Board!BoardNext]_(Board!boardVars)
  <2>1. CASE Dispatch(d) \/ EndBatch(d) \/ Advance(d) \/ Advanced(d)
    BY <1>3, <2>1 DEF Dispatch, EndBatch, Advance, Advanced
  <2>2. CASE Produce(d)
    <3>1. dispatcher[d].job \in Jobs
      BY <2>2 DEF BoardInv, QueueInv, DispatchersTell, Tells, Produce, Is
    <3> QED
      BY <2>2, <3>1, ProduceMakes DEF Board!BoardNext
  <2>3. ASSUME NEW j \in Jobs, Claim(d, j)
        PROVE  [Board!BoardNext]_(Board!boardVars)
    BY <1>2, <2>3, ClaimTries DEF Board!BoardNext
  <2>4. ASSUME NEW j \in Jobs, Enqueue(d, j)
        PROVE  [Board!BoardNext]_(Board!boardVars)
    BY <1>2, <2>4, EnqueuePosts
  <2> QED
    BY <1>2, <1>6, <1>7, <2>1, <2>2, <2>3, <2>4, VerdictCloses DEF Run
<1>8. CASE ListStuck \/ UNCHANGED queueVars
  BY <1>3, <1>8 DEF ListStuck, queueVars
<1> QED
  BY <1>2, <1>4, <1>5, <1>7, <1>8, VerdictCloses DEF QueueNext, Recovery

(* An episode that has just begun, or was taken over partway, is on the     *)
(* board.                                                                   *)
LEMMA EpisodeOnBoard ==
  ASSUME QueueAssumption, NEW done \in SUBSET Jobs, NEW first \in Jobs,
         done \cap {first, "performance"} = {},
         \A j \in done \cup {first} : Inputs(j) \subseteq done,
         QueueFrom(done, first)
  PROVE  Board!BoardInit
<1>1. QueueInv
  BY QueueFromInv
<1>2. /\ Absent.status = "absent" /\ Absent.attempts = 0
      /\ Waiting.status = "pending" /\ Waiting.attempts = 0
      /\ [Absent EXCEPT !.status = "completed", !.attempts = 1].status = "completed"
  BY DEF Absent, Waiting
<1>3. \A j \in Jobs :
        job[j] = IF j \in done THEN [Absent EXCEPT !.status = "completed", !.attempts = 1]
                 ELSE IF j \in {first, "performance"} THEN Waiting ELSE Absent
  BY DEF QueueFrom
<1>4. \A j \in Jobs : /\ job[j].status \in {"completed", "pending", "absent"}
                      /\ job[j].status = "pending" => job[j].attempts = 0
                      /\ job[j].status = "completed" <=> j \in done
  BY <1>2, <1>3
<1>5. JobPhases \in [Jobs -> {"absent", "open", "done"}]
      /\ \A j \in Jobs : /\ JobPhases[j] = "done" <=> j \in done
                         /\ JobPhases[j] = "open" => JobTries[j] = 0
                         /\ JobPhases[j] # "absent" => job[j].status # "absent"
  <2>1. \A j \in Jobs : /\ JobPhase(j) = "absent" <=> job[j].status = "absent"
                        /\ JobPhase(j) = "open" <=> job[j].status = "pending"
                        /\ JobPhase(j) = "done" <=> job[j].status = "completed"
    BY <1>1, <1>4, PhasesOfJobs DEF QueueInv
  <2> QED
    BY <1>4, <2>1 DEF JobPhases, JobTries
<1>6. JobTries \in [Jobs -> 0..MaxAttempts]
  BY <1>1, QueueTyped DEF QueueInv, JobTries, JobRows
<1>7. JobsMade = done
  BY DEF QueueFrom, JobsMade
<1>8. \A j \in Jobs : job[j].status # "absent" => InputsOf[j] \subseteq JobsMade
  BY <1>1, InputsAreJobs DEF QueueInv, StepsInOrder, InputsOf, JobsMade
<1> QED
  BY <1>5, <1>6, <1>7, <1>8 DEF Board!BoardInit

(* The queue, whose workers die, lose their locks and run a job side by     *)
(* side, implements the board of steps, for any number of dispatchers,      *)
(* attempts and mishaps.                                                    *)
THEOREM QueueImplementsBoard == QueueSafety => ImplementsBoard
<1>1. QueueInit => Board!BoardInit
  <2>1. Inputs("story") = {} /\ "story" \in Jobs
    BY DEF Inputs, Jobs, TextSteps, AudioSteps, SyncSteps
  <2> QED
    BY <2>1, EpisodeOnBoard, QueueAssumption DEF QueueInit
<1>2. BoardInv /\ [QueueNext]_queueVars => [Board!BoardNext]_(Board!boardVars)
  BY BoardStep, QueueAssumption
<1> QED
  BY <1>1, <1>2, BoardInvariant, PTL DEF QueueSafety, ImplementsBoard, Board!BoardSpec

-------------------------------------------------------------------------------
(* Billing.  An element added to a sequence, or written over one of its     *)
(* elements, leaves the others as they are.                                 *)
LEMMA Added ==
  ASSUME NEW S, NEW q \in Seq(S), NEW x \in S
  PROVE  /\ Append(q, x) \in Seq(S)
         /\ Len(Append(q, x)) = Len(q) + 1
         /\ DOMAIN q = 1..Len(q) /\ DOMAIN Append(q, x) = 1..(Len(q) + 1)
         /\ \A i \in DOMAIN q : Append(q, x)[i] = q[i]
         /\ Append(q, x)[Len(q) + 1] = x
BY AppendProperties, LenProperties

(* Writing one place of a sequence keeps its length and its other places. *)
LEMMA Written ==
  ASSUME NEW S, NEW q \in Seq(S), NEW i \in DOMAIN q, NEW x \in S
  PROVE  /\ [q EXCEPT ![i] = x] \in Seq(S)
         /\ Len([q EXCEPT ![i] = x]) = Len(q)
         /\ DOMAIN [q EXCEPT ![i] = x] = DOMAIN q
         /\ [q EXCEPT ![i] = x][i] = x
         /\ \A j \in DOMAIN q : j # i => [q EXCEPT ![i] = x][j] = q[j]
<1>1. DOMAIN q = 1..Len(q)
  BY LenProperties
<1>2. i \in 1..Len(q)
  BY <1>1
<1>3. [q EXCEPT ![i] = x] \in Seq(S) /\ Len([q EXCEPT ![i] = x]) = Len(q)
  BY <1>2, ExceptSeq
<1> QED
  BY <1>3

StoreRows == [plan : Plans \cup {Nothing}, last : [Plans -> 0..MaxPeriod],
              renews : BOOLEAN, ended : SUBSET Plans, next : Plans \cup {Nothing}]

EventRows == [type : Types, plan : Plans \cup {Nothing}, next : Plans \cup {Nothing},
              period : 0..MaxPeriod]

HookRows == [at : {"idle", "seen", "recorded", "confirming"}, id : 0..MaxEvents,
             outcome : Statuses \cup {Nothing}]

SyncRows == [at : {"idle", "fetched", "found"}, last : [Plans -> 0..MaxPeriod],
             renews : BOOLEAN, ended : SUBSET Plans, plan : Plans \cup {Nothing},
             found : Keys \cup {Nothing}, live : BOOLEAN, expired : BOOLEAN]

PlanRows == [plan : Plans \cup {Nothing}, period : 0..MaxPeriod,
             status : {"active", "expired", Nothing},
             pending : Plans \cup {Nothing}, until : 0..MaxPeriod]

(* What an event should have done when it is logged as processed.           *)
Effected(id) == IF event[id].type = "NON_RENEWING_PURCHASE" THEN credited[id] = 1
                                                            ELSE id \in applied

(* The store: one plan at most is paid for in the current period.           *)
StoreInOrder ==
  \A p \in Plans : /\ store.last[p] <= now
                   /\ p # store.plan /\ store.last[p] = now => p \in store.ended

EventsAreTheStores ==
  /\ Len(event) <= MaxEvents
  /\ \A id \in DOMAIN event : event[id].type # "NON_RENEWING_PURCHASE" =>
       event[id].plan \in Plans /\ store.last[event[id].plan] > 0

(* A handler about to log an event as processed has done what it says.      *)
HookTells(d) ==
  /\ ~HookAt(d, "idle") => hook[d].id \in DOMAIN event
  /\ HookAt(d, "confirming") => hook[d].outcome \in {"processed", "ignored", "failed"}
  /\ HookAt(d, "confirming") /\ hook[d].outcome = "processed" => Effected(hook[d].id)

(* Only the row of the chain carries a change, and every row is of a plan   *)
(* the store once sold.                                                     *)
RowsAreBought ==
  /\ \A p \in Plans : row[p].plan \in {Nothing, p} /\ row[p].pending = Nothing
  /\ \A k \in Keys : /\ row[k].plan = Nothing => row[k].status # "active"
                     /\ row[k].plan # Nothing => store.last[row[k].plan] > 0

SyncGoesOn ==
  sync.at # "idle" =>
    /\ sync.plan \in Plans /\ store.last[sync.plan] > 0
    /\ \A p \in Plans : sync.last[p] > 0 => store.last[p] > 0
    /\ sync.at = "found" /\ sync.found \in Plans => sync.found = sync.plan

(* The row says what the store says of its plan.                            *)
Agrees(k) ==
  /\ row[k].period = store.last[row[k].plan]
  /\ row[k].status = "active" /\ row[k].period = now =>
       store.last[row[k].plan] = now /\ row[k].plan \notin store.ended
  /\ store.last[row[k].plan] = now /\ row[k].plan \notin store.ended =>
       row[k].status = "active"

Twins(p) == \E j, k \in Keys : j # k /\ row[j].plan = p /\ row[k].plan = p

Repaired(p) == \/ Twins(p)
               \/ /\ \E k \in Keys : row[k].plan = p
                  /\ \A k \in Keys : row[k].plan = p => Agrees(k)

(* While nothing else moves, the snapshot is the store's, and the products  *)
(* that were gone through are repaired, or have two rows.                   *)
QuietSync ==
  quiet /\ sync.at # "idle" =>
    /\ sync.ended = store.ended
    /\ sync.last[sync.plan] = store.last[sync.plan]
    /\ \A p \in Plans : \/ sync.last[p] = store.last[p]
                        \/ sync.last[p] = 0 /\ Repaired(p)
    /\ sync.at = "found" =>
         /\ sync.expired <=> SnapshotExpired
         /\ sync.found = Nothing => \A k \in Keys : row[k].plan # sync.plan
         /\ sync.found # Nothing => row[sync.found].plan = sync.plan

BillingInv ==
  /\ BillingTypeOK
  /\ StoreInOrder
  /\ EventsAreTheStores
  /\ \A d \in Deliveries : HookTells(d)
  /\ ProcessedIsApplied
  /\ RowsAreBought
  /\ SyncGoesOn
  /\ QuietSync

(* The type invariant with its record sets named. *)
LEMMA BillingTyped ==
  BillingTypeOK <=> /\ now \in 1..MaxPeriod
                    /\ store \in StoreRows
                    /\ event \in Seq(EventRows)
                    /\ log \in Seq(Statuses)
                    /\ hook \in [Deliveries -> HookRows]
                    /\ sync \in SyncRows
                    /\ row \in [Keys -> PlanRows]
                    /\ credited \in Seq(Nat)
                    /\ Len(log) = Len(event) /\ Len(credited) = Len(event)
                    /\ applied \subseteq DOMAIN event
                    /\ quiet \in BOOLEAN
                    /\ unrest \in 0..MaxUnrest
BY DEF BillingTypeOK, StoreRows, EventRows, HookRows, SyncRows, PlanRows

(* What a step has to show of the new state for it to be well typed. *)
LEMMA BillingTypedNext ==
  ASSUME /\ now' \in 1..MaxPeriod
         /\ store' \in StoreRows
         /\ event' \in Seq(EventRows)
         /\ log' \in Seq(Statuses)
         /\ hook' \in [Deliveries -> HookRows]
         /\ sync' \in SyncRows
         /\ row' \in [Keys -> PlanRows]
         /\ credited' \in Seq(Nat)
         /\ Len(log') = Len(event') /\ Len(credited') = Len(event')
         /\ applied' \subseteq DOMAIN event'
         /\ quiet' \in BOOLEAN
         /\ unrest' \in 0..MaxUnrest
  PROVE  BillingTypeOK'
BY DEF BillingTypeOK, StoreRows, EventRows, HookRows, SyncRows, PlanRows

(* The three tables of the events have a line for each.                     *)
LEMMA BillingLines ==
  ASSUME BillingTypeOK
  PROVE  /\ Len(event) \in Nat
         /\ DOMAIN event = 1..Len(event)
         /\ DOMAIN log = DOMAIN event /\ DOMAIN credited = DOMAIN event
         /\ \A id \in DOMAIN event : /\ event[id] \in EventRows
                                     /\ log[id] \in Statuses
                                     /\ credited[id] \in Nat
<1>1. /\ event \in Seq(EventRows) /\ log \in Seq(Statuses) /\ credited \in Seq(Nat)
      /\ Len(log) = Len(event) /\ Len(credited) = Len(event)
  BY BillingTyped
<1>2. /\ Len(event) \in Nat /\ DOMAIN event = 1..Len(event)
      /\ DOMAIN log = 1..Len(log) /\ DOMAIN credited = 1..Len(credited)
  BY <1>1, LenProperties
<1> QED
  BY <1>1, <1>2, ElementOfSeq

-------------------------------------------------------------------------------
(* The store's own steps.  Each emits one event, of a plan it has sold.     *)
StoreMoves(e) ==
  /\ Len(event) < MaxEvents
  /\ e \in EventRows
  /\ e.type # "NON_RENEWING_PURCHASE" => e.plan \in Plans /\ store'.last[e.plan] > 0
  /\ event' = Append(event, e)
  /\ log' = Append(log, "absent")
  /\ credited' = Append(credited, 0)
  /\ quiet' = FALSE
  /\ UNCHANGED <<hook, sync, row, applied, unrest>>

(* Every event the store emits is a move of the store with that event       *)
(* appended.                                                                *)
LEMMA EmitMoves ==
  ASSUME NEW type \in Types, NEW plan \in Plans \cup {Nothing},
         NEW next \in Plans \cup {Nothing},
         type # "NON_RENEWING_PURCHASE" => plan \in Plans /\ store'.last[plan] > 0,
         plan = Nothing => now \in 0..MaxPeriod,
         plan # Nothing => store'.last[plan] \in 0..MaxPeriod,
         Emit(type, plan, next)
  PROVE  \E e : StoreMoves(e)
<1> DEFINE e == [type |-> type, plan |-> plan, next |-> next,
                 period |-> IF plan = Nothing THEN now ELSE store'.last[plan]]
<1>1. e \in EventRows
  BY DEF EventRows
<1>2. e.type = type /\ e.plan = plan
  OBVIOUS
<1>3. StoreMoves(e)
  BY <1>1, <1>2 DEF StoreMoves, Emit
<1> QED
  BY <1>3

(* The store only moves forward, appends one event and keeps its            *)
(* subscriptions bought.                                                    *)
LEMMA StoreStep ==
  ASSUME BillingAssumption, BillingTypeOK, StoreInOrder, Store
  PROVE  /\ \E e : StoreMoves(e)
         /\ store' \in StoreRows
         /\ now' \in 1..MaxPeriod
         /\ StoreInOrder'
         /\ \A p \in Plans : store.last[p] > 0 => store'.last[p] > 0
<1> USE DEF BillingAssumption
<1>1. store \in StoreRows /\ now \in 1..MaxPeriod
  BY BillingTyped
<1>2. /\ store.last \in [Plans -> 0..MaxPeriod] /\ store.ended \subseteq Plans
      /\ Nothing \notin Plans
  BY <1>1 DEF StoreRows, Plans, Nothing
<1> DEFINE Goal == /\ \E e : StoreMoves(e)
                   /\ store' \in StoreRows
                   /\ now' \in 1..MaxPeriod
                   /\ StoreInOrder'
                   /\ \A p \in Plans : store.last[p] > 0 => store'.last[p] > 0
<1>3. ASSUME NEW p \in Plans, Subscribe(p)
      PROVE  Goal
  <2>1. /\ store'.plan = p /\ store'.last = [store.last EXCEPT ![p] = now]
        /\ store'.ended = store.ended \ {p}
        /\ store' \in StoreRows
    <3>1. store' = [plan |-> p, last |-> [store.last EXCEPT ![p] = now], renews |-> TRUE,
                    ended |-> store.ended \ {p}, next |-> Nothing]
      BY <1>1, <1>3 DEF Subscribe, StoreRows
    <3>2. /\ [store.last EXCEPT ![p] = now] \in [Plans -> 0..MaxPeriod]
          /\ store.ended \ {p} \in SUBSET Plans
      BY <1>1, <1>2
    <3> QED
      BY <3>1, <3>2 DEF StoreRows
  <2>2. now' = now /\ ~Owned
    BY <1>3 DEF Subscribe
  <2>3. /\ store'.last[p] = now
        /\ \A q \in Plans \ {p} : store'.last[q] = store.last[q]
    BY <1>2, <2>1
  <2>4. StoreInOrder'
    BY <1>1, <1>2, <2>1, <2>2, <2>3 DEF StoreInOrder, Owned
  <2>5. \E e : StoreMoves(e)
    BY <1>1, <1>2, <1>3, <2>3, EmitMoves DEF Subscribe, Types
  <2> QED
    BY <1>1, <1>2, <2>1, <2>2, <2>3, <2>4, <2>5
<1>4. ASSUME Owned,
             /\ store'.plan = store.plan /\ store'.last = store.last
             /\ store' \in StoreRows /\ store.ended \subseteq store'.ended,
             now' = now \/ (now' = now + 1 /\ now < MaxPeriod)
      PROVE  /\ store.plan \in Plans /\ store'.last[store.plan] > 0
             /\ store'.last[store.plan] \in 0..MaxPeriod
             /\ now' \in 1..MaxPeriod
             /\ StoreInOrder'
             /\ \A p \in Plans : store.last[p] > 0 => store'.last[p] > 0
  <2>1. store.plan \in Plans /\ store'.last[store.plan] > 0
    BY <1>1, <1>4 DEF Owned
  <2>2. StoreInOrder'
    BY <1>1, <1>2, <1>4 DEF StoreInOrder
  <2> QED
    BY <1>1, <1>2, <1>4, <2>1, <2>2
<1>5. ASSUME Unsubscribe
      PROVE  Goal
  <2>1. /\ store'.plan = store.plan /\ store'.last = store.last
        /\ store' \in StoreRows /\ store'.ended = store.ended
    BY <1>1, <1>5 DEF Unsubscribe, StoreRows
  <2>2. Owned /\ now' = now /\ Emit("CANCELLATION", store.plan, Nothing)
    BY <1>5 DEF Unsubscribe
  <2>3. "CANCELLATION" \in Types /\ Nothing \in Plans \cup {Nothing}
    BY DEF Types
  <2>4. /\ store.plan \in Plans /\ store'.last[store.plan] > 0
        /\ store'.last[store.plan] \in 0..MaxPeriod
        /\ now' \in 1..MaxPeriod
        /\ StoreInOrder'
        /\ \A p \in Plans : store.last[p] > 0 => store'.last[p] > 0
    BY <1>4, <2>1, <2>2
  <2>5. \E e : StoreMoves(e)
    BY <1>2, <2>2, <2>3, <2>4, EmitMoves
  <2> QED
    BY <2>1, <2>4, <2>5
<1>6. ASSUME ScheduleDowngrade
      PROVE  Goal
  <2>1. /\ store'.plan = store.plan /\ store'.last = store.last
        /\ store' \in StoreRows /\ store'.ended = store.ended
    BY <1>1, <1>6 DEF ScheduleDowngrade, StoreRows, Plans
  <2>2. Owned /\ now' = now /\ Emit("PRODUCT_CHANGE", store.plan, "low")
    BY <1>6 DEF ScheduleDowngrade
  <2>3. "PRODUCT_CHANGE" \in Types /\ "low" \in Plans \cup {Nothing}
    BY DEF Types, Plans
  <2>4. /\ store.plan \in Plans /\ store'.last[store.plan] > 0
        /\ store'.last[store.plan] \in 0..MaxPeriod
        /\ now' \in 1..MaxPeriod
        /\ StoreInOrder'
        /\ \A p \in Plans : store.last[p] > 0 => store'.last[p] > 0
    BY <1>4, <2>1, <2>2
  <2>5. \E e : StoreMoves(e)
    BY <1>2, <2>2, <2>3, <2>4, EmitMoves
  <2> QED
    BY <2>1, <2>4, <2>5
<1>7. ASSUME Renew
      PROVE  Goal
  <2>1. PICK p \in Plans :
          /\ store' = [store EXCEPT !.plan = p, !.last[p] = now + 1, !.next = Nothing,
                                    !.ended = @ \ {p}]
          /\ now' = now + 1 /\ now < MaxPeriod
          /\ Emit("RENEWAL", p, Nothing)
    BY <1>1, <1>7 DEF Renew, Owned, StoreRows
  <2>2. /\ store'.plan = p /\ store'.last = [store.last EXCEPT ![p] = now + 1]
        /\ store'.ended = store.ended \ {p}
        /\ store' \in StoreRows
    <3>1. store' = [plan |-> p, last |-> [store.last EXCEPT ![p] = now + 1],
                    renews |-> store.renews, ended |-> store.ended \ {p}, next |-> Nothing]
      BY <1>1, <2>1 DEF StoreRows
    <3>2. now + 1 \in 0..MaxPeriod
      BY <1>1, <2>1
    <3>3. /\ [store.last EXCEPT ![p] = now + 1] \in [Plans -> 0..MaxPeriod]
          /\ store.ended \ {p} \in SUBSET Plans
          /\ store.renews \in BOOLEAN
      BY <1>1, <1>2, <3>2 DEF StoreRows
    <3> QED
      BY <3>1, <3>3 DEF StoreRows
  <2>3. /\ store'.last[p] = now + 1
        /\ \A q \in Plans \ {p} : store'.last[q] = store.last[q]
    BY <1>2, <2>2
  <2>4. StoreInOrder'
    BY <1>1, <1>2, <2>1, <2>2, <2>3 DEF StoreInOrder
  <2>5. \E e : StoreMoves(e)
    BY <1>1, <1>2, <2>1, <2>3, EmitMoves DEF Types
  <2> QED
    BY <1>1, <1>2, <2>1, <2>2, <2>3, <2>4, <2>5
<1>8. ASSUME Lapse \/ Refund
      PROVE  Goal
  <2>1. /\ store'.plan = store.plan /\ store'.last = store.last
        /\ store'.ended = store.ended \cup {store.plan}
    BY <1>1, <1>8 DEF Lapse, Refund, StoreRows
  <2>2. store' \in StoreRows
    <3>1. store.plan \in Plans
      BY <1>8 DEF Lapse, Refund, Owned
    <3>2. CASE Lapse
      BY <1>1, <2>1, <3>1, <3>2 DEF Lapse, StoreRows
    <3>3. CASE Refund
      BY <1>1, <2>1, <3>1, <3>3 DEF Refund, StoreRows
    <3> QED
      BY <1>8, <3>2, <3>3
  <2>3. Emit("EXPIRATION", store.plan, Nothing)
    BY <1>8 DEF Lapse, Refund
  <2>4. Owned /\ (now' = now \/ (now' = now + 1 /\ now < MaxPeriod))
    <3>1. CASE Lapse
      BY <3>1 DEF Lapse
    <3>2. CASE Refund
      BY <3>2 DEF Refund
    <3> QED
      BY <1>8, <3>1, <3>2
  <2>5. "EXPIRATION" \in Types /\ Nothing \in Plans \cup {Nothing}
    BY DEF Types
  <2>6. /\ store.plan \in Plans /\ store'.last[store.plan] > 0
        /\ store'.last[store.plan] \in 0..MaxPeriod
        /\ now' \in 1..MaxPeriod
        /\ StoreInOrder'
        /\ \A p \in Plans : store.last[p] > 0 => store'.last[p] > 0
    BY <1>4, <2>1, <2>2, <2>4
  <2>7. \E e : StoreMoves(e)
    BY <1>2, <2>3, <2>5, <2>6, EmitMoves
  <2> QED
    BY <2>2, <2>6, <2>7
<1>9. ASSUME BuyMinutes
      PROVE  Goal
  <2>1. \E e : StoreMoves(e)
    BY <1>1, <1>2, <1>9, EmitMoves DEF BuyMinutes, Types
  <2> QED
    BY <1>1, <1>2, <1>9, <2>1 DEF BuyMinutes, StoreInOrder
<1> QED
  BY <1>3, <1>5, <1>6, <1>7, <1>8, <1>9 DEF Store

(* A new event disturbs nothing that is known of the earlier ones.          *)
LEMMA StoreKeeps ==
  ASSUME BillingAssumption, BillingInv, Store
  PROVE  BillingInv'
<1> USE DEF BillingAssumption
<1>1. /\ BillingTypeOK /\ StoreInOrder /\ EventsAreTheStores /\ ProcessedIsApplied
      /\ RowsAreBought /\ SyncGoesOn /\ \A d \in Deliveries : HookTells(d)
  BY DEF BillingInv
<1>2. PICK e : StoreMoves(e)
  BY <1>1, StoreStep
<1>3. /\ store' \in StoreRows /\ now' \in 1..MaxPeriod /\ StoreInOrder'
      /\ \A p \in Plans : store.last[p] > 0 => store'.last[p] > 0
  BY <1>1, StoreStep
<1>4. /\ Len(event) \in Nat /\ DOMAIN event = 1..Len(event)
      /\ event \in Seq(EventRows) /\ log \in Seq(Statuses) /\ credited \in Seq(Nat)
      /\ Len(log) = Len(event) /\ Len(credited) = Len(event)
      /\ DOMAIN log = DOMAIN event /\ DOMAIN credited = DOMAIN event
  BY <1>1, BillingTyped, BillingLines
<1>5. /\ event' \in Seq(EventRows) /\ Len(event') = Len(event) + 1
      /\ DOMAIN event' = 1..(Len(event) + 1)
      /\ \A id \in DOMAIN event : event'[id] = event[id]
      /\ event'[Len(event) + 1] = e
  BY <1>2, <1>4, Added DEF StoreMoves
<1>6. /\ log' \in Seq(Statuses) /\ Len(log') = Len(event) + 1
      /\ \A id \in DOMAIN event : log'[id] = log[id]
      /\ log'[Len(event) + 1] = "absent"
  BY <1>2, <1>4, Added DEF StoreMoves, Statuses
<1>7. /\ credited' \in Seq(Nat) /\ Len(credited') = Len(event) + 1
      /\ \A id \in DOMAIN event : credited'[id] = credited[id]
      /\ credited'[Len(event) + 1] = 0
  BY <1>2, <1>4, Added DEF StoreMoves
<1>8. UNCHANGED <<hook, sync, row, applied, unrest>> /\ quiet' = FALSE
  BY <1>2 DEF StoreMoves
<1>9. BillingTypeOK'
  <2>1. DOMAIN event \subseteq DOMAIN event'
    BY <1>4, <1>5
  <2> QED
    BY <1>1, <1>3, <1>5, <1>6, <1>7, <1>8, <2>1, BillingTyped, BillingTypedNext
<1>10. EventsAreTheStores'
  <2>1. Len(event) + 1 <= MaxEvents
    BY <1>2, <1>4 DEF StoreMoves
  <2>2. \A id \in DOMAIN event' : id \in DOMAIN event \/ id = Len(event) + 1
    BY <1>4, <1>5
  <2>3. /\ \A id \in DOMAIN event : event[id].type # "NON_RENEWING_PURCHASE" =>
             event[id].plan \in Plans /\ store.last[event[id].plan] > 0
        /\ e.type # "NON_RENEWING_PURCHASE" => e.plan \in Plans /\ store'.last[e.plan] > 0
    BY <1>1, <1>2 DEF EventsAreTheStores, StoreMoves
  <2> QED
    BY <1>3, <1>5, <2>1, <2>2, <2>3 DEF EventsAreTheStores
<1>11. \A id \in DOMAIN event : id \in DOMAIN event' /\ (Effected(id) => Effected(id)')
  BY <1>4, <1>5, <1>7, <1>8 DEF Effected
<1>12. \A d \in Deliveries : HookTells(d)'
  BY <1>1, <1>8, <1>11 DEF HookTells, HookAt
<1>13. ProcessedIsApplied'
  <2>1. SUFFICES ASSUME NEW id \in DOMAIN event'
                 PROVE  /\ credited'[id] <= 1
                        /\ log'[id] = "processed" => Effected(id)'
    BY DEF ProcessedIsApplied, Effected
  <2>2. CASE id \in DOMAIN event
    BY <1>1, <1>6, <1>7, <1>11, <2>2 DEF ProcessedIsApplied, Effected
  <2>3. CASE id = Len(event) + 1
    BY <1>6, <1>7, <2>3
  <2> QED
    BY <1>4, <1>5, <2>2, <2>3
<1>14. RowsAreBought'
  <2>1. \A k \in Keys : row[k].plan \in Plans \cup {Nothing}
    BY <1>1, BillingTyped DEF PlanRows
  <2> QED
    BY <1>1, <1>3, <1>8, <2>1 DEF RowsAreBought
<1>15. SyncGoesOn'
  BY <1>1, <1>3, <1>8 DEF SyncGoesOn
<1>16. QuietSync'
  BY <1>8 DEF QuietSync
<1> QED
  BY <1>3, <1>9, <1>10, <1>12, <1>13, <1>14, <1>15, <1>16 DEF BillingInv

-------------------------------------------------------------------------------
(* The webhook's handlers.                                                  *)
LEMMA HooksStay ==
  ASSUME NEW d \in Deliveries, HookTells(d), UNCHANGED <<event, hook>>,
         \A id \in DOMAIN event : Effected(id) => Effected(id)'
  PROVE  HookTells(d)'
BY DEF HookTells, HookAt

(* What a handler does to the row of the chain keeps the rows in order.     *)
LEMMA SyncFromEventKeeps ==
  ASSUME BillingAssumption, BillingTypeOK, RowsAreBought, EventsAreTheStores,
         NEW id \in DOMAIN event, event[id].type # "NON_RENEWING_PURCHASE",
         SyncFromEvent(event[id]), UNCHANGED <<now, store>>
  PROVE  row' \in [Keys -> PlanRows] /\ RowsAreBought'
<1> DEFINE e == event[id]
           r == [plan |-> e.plan, period |-> e.period,
                 status |-> IF EventIsExpired(e) THEN "expired" ELSE "active",
                 pending |-> EventPending(e).plan, until |-> EventPending(e).until]
<1>1. /\ row \in [Keys -> PlanRows] /\ e \in EventRows
      /\ e.plan \in Plans /\ store.last[e.plan] > 0
      /\ "chain" \in Keys /\ "chain" \notin Plans /\ Plans \subseteq Keys
  BY BillingTyped, BillingLines DEF EventsAreTheStores, Keys, Plans
<1>2. EventPending(e).plan \in Plans \cup {Nothing} /\ EventPending(e).until \in 0..MaxPeriod
  <2>1. /\ row["chain"].pending \in Plans \cup {Nothing}
        /\ row["chain"].until \in 0..MaxPeriod
        /\ e.next \in Plans \cup {Nothing} /\ e.period \in 0..MaxPeriod
        /\ 0 \in 0..MaxPeriod
    BY <1>1 DEF PlanRows, EventRows, BillingAssumption
  <2>2. CASE EventIsExpired(e)
    BY <2>1, <2>2 DEF EventPending
  <2>3. CASE ~EventIsExpired(e) /\ e.type = "CANCELLATION"
    BY <2>1, <2>3 DEF EventPending
  <2>4. CASE ~EventIsExpired(e) /\ e.type = "PRODUCT_CHANGE"
    BY <2>1, <2>4 DEF EventPending
  <2>5. CASE ~EventIsExpired(e) /\ e.type \notin {"CANCELLATION", "PRODUCT_CHANGE"}
    BY <2>1, <2>5 DEF EventPending
  <2> QED
    BY <2>2, <2>3, <2>4, <2>5
<1>3. r \in PlanRows /\ r.plan = e.plan
  <2>1. e.period \in 0..MaxPeriod
    BY <1>1 DEF EventRows
  <2>2. (IF EventIsExpired(e) THEN "expired" ELSE "active") \in {"active", "expired", Nothing}
    OBVIOUS
  <2> QED
    BY <1>1, <1>2, <2>1, <2>2 DEF PlanRows
<1>4. row' = [row EXCEPT !["chain"] = r]
  BY DEF SyncFromEvent
<1>5. row' \in [Keys -> PlanRows] /\ row'["chain"] = r
      /\ \A k \in Keys \ {"chain"} : row'[k] = row[k]
  BY <1>1, <1>3, <1>4
<1>6. e.plan # Nothing
  BY <1>1 DEF Plans, Nothing
<1> QED
  BY <1>1, <1>3, <1>5, <1>6 DEF RowsAreBought

(* A delivery is taken up, and the event gets its line.                     *)
LEMMA DeliverKeeps ==
  ASSUME BillingAssumption, BillingInv, NEW d \in Deliveries,
         (\E id \in DOMAIN event : Deliver(d, id)) \/ RecordEvent(d)
  PROVE  BillingInv'
<1>1. /\ BillingTypeOK /\ StoreInOrder /\ EventsAreTheStores /\ ProcessedIsApplied
      /\ RowsAreBought /\ SyncGoesOn /\ QuietSync /\ \A c \in Deliveries : HookTells(c)
  BY DEF BillingInv
<1>2. UNCHANGED <<now, store, event, sync, row, credited, applied, quiet, unrest>>
  BY DEF Deliver, RecordEvent
<1>3. /\ DOMAIN log = DOMAIN event /\ hook[d] \in HookRows
      /\ hook \in [Deliveries -> HookRows] /\ log \in Seq(Statuses)
      /\ DOMAIN event = 1..Len(event) /\ Len(event) \in Nat /\ Len(event) <= MaxEvents
      /\ \A id \in DOMAIN event : log[id] \in Statuses
  BY <1>1, BillingTyped, BillingLines DEF EventsAreTheStores
<1>4. /\ hook' = [hook EXCEPT ![d] = hook'[d]] /\ hook'[d] \in HookRows
      /\ hook'[d].at \in {"seen", "recorded"} /\ hook'[d].id \in DOMAIN event
  <2>1. ASSUME NEW id \in DOMAIN event, Deliver(d, id)
        PROVE  /\ hook' = [hook EXCEPT ![d] = hook'[d]] /\ hook'[d] \in HookRows
               /\ hook'[d].at \in {"seen", "recorded"} /\ hook'[d].id \in DOMAIN event
    <3>1. id \in 0..MaxEvents
      BY <1>3, BillingAssumption DEF BillingAssumption
    <3>2. [at |-> "seen", id |-> id, outcome |-> Nothing] \in HookRows
      BY <3>1 DEF HookRows
    <3> QED
      BY <1>3, <2>1, <3>2 DEF Deliver
  <2>2. ASSUME RecordEvent(d)
        PROVE  /\ hook' = [hook EXCEPT ![d] = hook'[d]] /\ hook'[d] \in HookRows
               /\ hook'[d].at \in {"seen", "recorded"} /\ hook'[d].id \in DOMAIN event
    <3>1. hook' = [hook EXCEPT ![d].at = "recorded"] /\ hook[d].at = "seen"
      BY <2>2 DEF RecordEvent, HookAt
    <3>2. hook'[d] = [hook[d] EXCEPT !.at = "recorded"]
      BY <1>3, <3>1
    <3>3. hook'[d] \in HookRows /\ hook'[d].at = "recorded" /\ hook'[d].id = hook[d].id
      BY <1>3, <3>2 DEF HookRows
    <3>4. hook[d].id \in DOMAIN event
      BY <1>1, <3>1 DEF HookTells, HookAt
    <3> QED
      BY <1>3, <3>1, <3>2, <3>3, <3>4
  <2> QED
    BY <2>1, <2>2
<1>5. /\ log' \in Seq(Statuses) /\ Len(log') = Len(log)
      /\ \A id \in DOMAIN event : log'[id] = "processed" => log[id] = "processed"
  <2>1. CASE log' = log
    BY <1>3, <2>1
  <2>2. CASE RecordEvent(d)
    <3>1. hook[d].id \in DOMAIN event
      BY <1>1, <2>2 DEF HookTells, HookAt, RecordEvent
    <3>2. log' = [log EXCEPT ![hook[d].id] =
                    IF log[hook[d].id] = "absent" THEN "received" ELSE log[hook[d].id]]
      BY <2>2 DEF RecordEvent
    <3>3. (IF log[hook[d].id] = "absent" THEN "received" ELSE log[hook[d].id]) \in Statuses
      BY <1>3, <3>1 DEF Statuses
    <3> QED
      BY <1>3, <3>1, <3>2, <3>3, Written
  <2> QED
    BY <2>1, <2>2 DEF Deliver
<1>6. BillingTypeOK'
  BY <1>1, <1>2, <1>3, <1>4, <1>5, BillingTyped, BillingTypedNext
<1>7. ASSUME NEW c \in Deliveries
      PROVE  HookTells(c)'
  <2>1. CASE c = d
    BY <1>2, <1>3, <1>4, <2>1 DEF HookTells, HookAt
  <2>2. CASE c # d
    <3>1. hook'[c] = hook[c]
      BY <1>3, <1>4, <2>2
    <3> QED
      BY <1>1, <1>2, <3>1 DEF HookTells, HookAt, Effected
  <2> QED
    BY <2>1, <2>2
<1>8. StoreInOrder' /\ EventsAreTheStores' /\ RowsAreBought' /\ SyncGoesOn' /\ QuietSync'
  BY <1>1, <1>2 DEF StoreInOrder, EventsAreTheStores, RowsAreBought, SyncGoesOn, QuietSync,
                    Repaired, Twins, Agrees, SnapshotExpired
<1>9. ProcessedIsApplied'
  BY <1>1, <1>2, <1>5 DEF ProcessedIsApplied
<1> QED
  BY <1>6, <1>7, <1>8, <1>9 DEF BillingInv

(* The plan's upsert, and the credit of a purchase, have their effect before *)
(* the handler goes on to log it.                                           *)
LEMMA ProcessKeeps ==
  ASSUME BillingAssumption, BillingInv, NEW d \in Deliveries,
         ProcessLifecycle(d) \/ ProcessPurchase(d)
  PROVE  BillingInv'
<1> SUFFICES ASSUME NEW id, id = hook[d].id
             PROVE  BillingInv'
  OBVIOUS
<1>1. /\ BillingTypeOK /\ StoreInOrder /\ EventsAreTheStores /\ ProcessedIsApplied
      /\ RowsAreBought /\ SyncGoesOn /\ QuietSync /\ \A c \in Deliveries : HookTells(c)
  BY DEF BillingInv
<1>2. UNCHANGED <<now, store, event, log, sync, unrest>>
  BY DEF ProcessLifecycle, ProcessPurchase
<1>3. /\ DOMAIN credited = DOMAIN event /\ hook[d] \in HookRows
      /\ hook \in [Deliveries -> HookRows] /\ credited \in Seq(Nat)
      /\ applied \subseteq DOMAIN event
      /\ \A i \in DOMAIN event : credited[i] \in Nat /\ credited[i] <= 1
  BY <1>1, BillingTyped, BillingLines DEF ProcessedIsApplied
<1>4. id \in DOMAIN event
  BY <1>1 DEF HookTells, HookAt, ProcessLifecycle, ProcessPurchase
<1>5. /\ credited' \in Seq(Nat) /\ Len(credited') = Len(credited)
      /\ \A i \in DOMAIN event : credited'[i] <= 1 /\ (credited[i] = 1 => credited'[i] = 1)
  <2>1. CASE credited' = credited
    BY <1>3, <2>1
  <2>2. CASE credited' = [credited EXCEPT ![id] = IF credited[id] = 0 THEN 1 ELSE credited[id]]
    <3>1. (IF credited[id] = 0 THEN 1 ELSE credited[id]) \in Nat
      BY <1>3, <1>4
    <3> QED
      BY <1>3, <1>4, <2>2, <3>1, Written
  <2> QED
    BY <2>1, <2>2 DEF ProcessLifecycle, ProcessPurchase
<1>6. applied \subseteq applied' /\ applied' \subseteq DOMAIN event
  BY <1>3, <1>4 DEF ProcessLifecycle, ProcessPurchase
<1>7. \A i \in DOMAIN event : Effected(i) => Effected(i)'
  BY <1>2, <1>5, <1>6 DEF Effected
<1>8. /\ \A c \in Deliveries \ {d} : hook'[c] = hook[c]
      /\ hook' \in [Deliveries -> HookRows]
      /\ hook'[d].id = id /\ hook'[d].at = "confirming"
      /\ hook'[d].outcome \in {"processed", "ignored"}
      /\ hook'[d].outcome = "processed" => Effected(id)'
  <2>1. ASSUME NEW outcome \in {"processed", "ignored"}, Finish(d, outcome)
        PROVE  /\ \A c \in Deliveries \ {d} : hook'[c] = hook[c]
               /\ hook' \in [Deliveries -> HookRows]
               /\ hook'[d].id = id /\ hook'[d].at = "confirming"
               /\ hook'[d].outcome = outcome
    <3>1. hook' = [hook EXCEPT ![d] = [@ EXCEPT !.at = "confirming", !.outcome = outcome]]
      BY <1>3, <2>1 DEF Finish, HookRows
    <3>2. /\ hook'[d] = [hook[d] EXCEPT !.at = "confirming", !.outcome = outcome]
          /\ \A c \in Deliveries \ {d} : hook'[c] = hook[c]
      BY <1>3, <3>1
    <3>3. hook'[d] \in HookRows
      BY <1>3, <3>2 DEF HookRows, Statuses
    <3> QED
      BY <1>3, <3>1, <3>2, <3>3 DEF HookRows
  <2>2. CASE ProcessLifecycle(d)
    <3>1. Finish(d, "processed") /\ applied' = applied \cup {id}
          /\ event[id].type # "NON_RENEWING_PURCHASE"
      BY <2>2 DEF ProcessLifecycle
    <3>2. Effected(id)'
      BY <1>2, <3>1 DEF Effected
    <3> QED
      BY <2>1, <3>1, <3>2
  <2>3. CASE ProcessPurchase(d) /\ Finish(d, "ignored")
    BY <2>1, <2>3
  <2>4. CASE ProcessPurchase(d) /\ ~Finish(d, "ignored")
    <3>1. /\ Finish(d, "processed") /\ event[id].type = "NON_RENEWING_PURCHASE"
          /\ credited' = [credited EXCEPT ![id] = IF credited[id] = 0 THEN 1 ELSE credited[id]]
      BY <2>4 DEF ProcessPurchase
    <3>2. credited[id] \in {0, 1}
      BY <1>3, <1>4
    <3>3. credited'[id] = 1
      BY <1>3, <1>4, <3>1, <3>2
    <3>4. Effected(id)'
      BY <1>2, <3>1, <3>3 DEF Effected
    <3> QED
      BY <2>1, <3>1, <3>4
  <2> QED
    BY <2>2, <2>3, <2>4
<1>9. ASSUME NEW c \in Deliveries
      PROVE  HookTells(c)'
  <2>1. CASE c = d
    BY <1>2, <1>4, <1>8, <2>1 DEF HookTells, HookAt
  <2>2. CASE c # d
    <3>1. hook'[c] = hook[c]
      BY <1>8, <2>2
    <3> QED
      BY <1>1, <1>2, <1>7, <3>1 DEF HookTells, HookAt
  <2> QED
    BY <2>1, <2>2
<1>10. /\ row' \in [Keys -> PlanRows] /\ RowsAreBought'
       /\ QuietSync' /\ quiet' \in BOOLEAN
  <2>1. CASE ProcessLifecycle(d)
    <3>1. quiet' = FALSE /\ SyncFromEvent(event[id])
          /\ event[id].type # "NON_RENEWING_PURCHASE"
      BY <2>1 DEF ProcessLifecycle
    <3>2. row' \in [Keys -> PlanRows] /\ RowsAreBought'
      BY <1>1, <1>2, <1>4, <3>1, SyncFromEventKeeps
    <3> QED
      BY <3>1, <3>2 DEF QuietSync
  <2>2. CASE ProcessPurchase(d)
    <3>1. UNCHANGED <<row, quiet>>
      BY <2>2 DEF ProcessPurchase
    <3> QED
      BY <1>1, <1>2, <3>1, BillingTyped
      DEF RowsAreBought, QuietSync, Repaired, Twins, Agrees, SnapshotExpired
  <2> QED
    BY <2>1, <2>2
<1>11. BillingTypeOK'
  BY <1>1, <1>2, <1>5, <1>6, <1>8, <1>10, BillingTyped, BillingTypedNext
<1>12. StoreInOrder' /\ EventsAreTheStores' /\ SyncGoesOn'
  BY <1>1, <1>2 DEF StoreInOrder, EventsAreTheStores, SyncGoesOn
<1>13. ProcessedIsApplied'
  <2>1. \A i \in DOMAIN event : log[i] = "processed" => Effected(i)
    BY <1>1 DEF ProcessedIsApplied, Effected
  <2>2. \A i \in DOMAIN event : log'[i] = "processed" => Effected(i)'
    BY <1>2, <1>7, <2>1
  <2> QED
    BY <1>2, <1>5, <2>2 DEF ProcessedIsApplied, Effected
<1> QED
  BY <1>9, <1>10, <1>11, <1>12, <1>13 DEF BillingInv

(* An outcome is logged, or a handler fails or dies.                        *)
LEMMA ConfirmKeeps ==
  ASSUME BillingAssumption, BillingInv, NEW d \in Deliveries,
         Confirm(d) \/ ProcessFails(d) \/ HookDies(d)
  PROVE  BillingInv'
<1> SUFFICES ASSUME NEW id, id = hook[d].id
             PROVE  BillingInv'
  OBVIOUS
<1>1. /\ BillingTypeOK /\ StoreInOrder /\ EventsAreTheStores /\ ProcessedIsApplied
      /\ RowsAreBought /\ SyncGoesOn /\ QuietSync /\ \A c \in Deliveries : HookTells(c)
  BY DEF BillingInv
<1>2. UNCHANGED <<now, store, event, sync, row, credited, applied, quiet>>
  BY DEF Confirm, ProcessFails, HookDies
<1>3. /\ DOMAIN log = DOMAIN event /\ hook[d] \in HookRows
      /\ hook \in [Deliveries -> HookRows] /\ log \in Seq(Statuses)
      /\ unrest \in 0..MaxUnrest
  BY <1>1, BillingTyped, BillingLines
<1>4. id \in DOMAIN event
  BY <1>1 DEF HookTells, HookAt, Confirm, ProcessFails, HookDies
<1>5. unrest' \in 0..MaxUnrest
  BY <1>3 DEF Confirm, ProcessFails, HookDies, MayFail, BillingAssumption
<1>6. IdleHook \in HookRows /\ IdleHook.at = "idle"
  BY DEF IdleHook, HookRows, BillingAssumption
<1>7. /\ \A c \in Deliveries \ {d} : hook'[c] = hook[c]
      /\ hook' \in [Deliveries -> HookRows]
      /\ hook'[d].at = "idle" \/ /\ hook'[d].at = "confirming" /\ hook'[d].id = id
                                 /\ hook'[d].outcome = "failed"
  <2>1. CASE hook' = [hook EXCEPT ![d] = IdleHook]
    BY <1>3, <1>6, <2>1
  <2>2. CASE ProcessFails(d)
    <3>1. hook' = [hook EXCEPT ![d] = [@ EXCEPT !.at = "confirming", !.outcome = "failed"]]
      BY <1>3, <2>2 DEF ProcessFails, Finish, HookRows
    <3>2. /\ hook'[d] = [hook[d] EXCEPT !.at = "confirming", !.outcome = "failed"]
          /\ \A c \in Deliveries \ {d} : hook'[c] = hook[c]
      BY <1>3, <3>1
    <3>3. hook'[d] \in HookRows
      BY <1>3, <3>2 DEF HookRows, Statuses
    <3> QED
      BY <1>3, <3>1, <3>2, <3>3 DEF HookRows
  <2> QED
    BY <2>1, <2>2 DEF Confirm, HookDies
<1>8. \A i \in DOMAIN event : Effected(i) => Effected(i)'
  BY <1>2 DEF Effected
<1>9. ASSUME NEW c \in Deliveries
      PROVE  HookTells(c)'
  <2>1. CASE c = d
    BY <1>2, <1>4, <1>7, <2>1 DEF HookTells, HookAt
  <2>2. CASE c # d
    <3>1. hook'[c] = hook[c]
      BY <1>7, <2>2
    <3> QED
      BY <1>1, <1>2, <1>8, <3>1 DEF HookTells, HookAt
  <2> QED
    BY <2>1, <2>2
<1>10. /\ log' \in Seq(Statuses) /\ Len(log') = Len(log)
       /\ \A i \in DOMAIN event : log'[i] = "processed" => Effected(i)
  <2>1. \A i \in DOMAIN event : log[i] = "processed" => Effected(i)
    BY <1>1 DEF ProcessedIsApplied, Effected
  <2>2. CASE log' = log
    BY <1>3, <2>1, <2>2
  <2>3. CASE Confirm(d)
    <3>1. /\ log' = [log EXCEPT ![id] = hook[d].outcome]
          /\ hook[d].outcome \in {"processed", "ignored", "failed"}
          /\ hook[d].outcome = "processed" => Effected(id)
      BY <1>1, <2>3 DEF Confirm, HookTells
    <3> QED
      BY <1>3, <1>4, <2>1, <3>1, Written DEF Statuses
  <2> QED
    BY <2>2, <2>3 DEF ProcessFails, HookDies
<1>11. BillingTypeOK'
  BY <1>1, <1>2, <1>5, <1>7, <1>10, BillingTyped, BillingTypedNext
<1>12. StoreInOrder' /\ EventsAreTheStores' /\ RowsAreBought' /\ SyncGoesOn' /\ QuietSync'
  BY <1>1, <1>2 DEF StoreInOrder, EventsAreTheStores, RowsAreBought, SyncGoesOn, QuietSync,
                    Repaired, Twins, Agrees, SnapshotExpired
<1>13. ProcessedIsApplied'
  BY <1>1, <1>2, <1>8, <1>10 DEF ProcessedIsApplied, Effected
<1> QED
  BY <1>9, <1>11, <1>12, <1>13 DEF BillingInv

-------------------------------------------------------------------------------
(* The sync.  Only what it knows and the rows can change.                   *)
LEMMA SyncKeeps ==
  ASSUME BillingInv,
         UNCHANGED <<now, store, event, log, hook, credited, applied>>,
         sync' \in SyncRows, row' \in [Keys -> PlanRows],
         quiet' \in BOOLEAN, unrest' \in 0..MaxUnrest,
         RowsAreBought', SyncGoesOn', QuietSync'
  PROVE  BillingInv'
<1>1. /\ BillingTypeOK /\ StoreInOrder /\ EventsAreTheStores /\ ProcessedIsApplied
      /\ \A d \in Deliveries : HookTells(d)
  BY DEF BillingInv
<1>2. BillingTypeOK'
  BY <1>1, BillingTyped, BillingTypedNext
<1>3. StoreInOrder' /\ EventsAreTheStores' /\ ProcessedIsApplied'
  BY <1>1 DEF StoreInOrder, EventsAreTheStores, ProcessedIsApplied
<1>4. \A d \in Deliveries : HookTells(d)'
  BY <1>1 DEF HookTells, HookAt, Effected
<1> QED
  BY <1>2, <1>3, <1>4 DEF BillingInv

(* What the sync knows is typed, and stays typed as it goes on to the next  *)
(* product, or ends.                                                        *)
LEMMA IdleSyncTyped ==
  ASSUME BillingAssumption
  PROVE  IdleSync \in SyncRows /\ IdleSync.at = "idle"
<1>1. [p \in Plans |-> 0] \in [Plans -> 0..MaxPeriod]
  BY DEF BillingAssumption
<1> QED
  BY <1>1 DEF IdleSync, SyncRows

(* The sync goes on to a product of its answer it has not reconciled, or is *)
(* over.                                                                    *)
LEMMA NextProductKeeps ==
  ASSUME BillingAssumption, BillingTypeOK, SyncGoesOn, sync.at # "idle", NextProduct
  PROVE  /\ sync' \in SyncRows
         /\ sync'.at = "idle" =>
              \A q \in Plans : q = sync.plan \/ ~(sync.last[q] > 0)
         /\ sync'.at # "idle" =>
              /\ sync'.at = "fetched" /\ sync'.ended = sync.ended
              /\ sync'.plan \in Plans \ {sync.plan} /\ sync.last[sync'.plan] > 0
              /\ sync'.last[sync.plan] = 0
              /\ \A q \in Plans \ {sync.plan} : sync'.last[q] = sync.last[q]
<1> DEFINE left == {q \in Plans \ {sync.plan} : sync.last[q] > 0}
<1>1. sync \in SyncRows /\ sync.plan \in Plans
  BY BillingTyped DEF SyncGoesOn
<1>2. CASE left = {}
  <2>1. sync' = IdleSync
    BY <1>2 DEF NextProduct
  <2> QED
    BY <1>2, <2>1, IdleSyncTyped
<1>3. CASE left # {}
  <2>1. PICK q \in left : sync' = [sync EXCEPT !.at = "fetched", !.plan = q,
                                               !.last[sync.plan] = 0]
    BY <1>3 DEF NextProduct
  <2>2. sync.last \in [Plans -> 0..MaxPeriod] /\ 0 \in 0..MaxPeriod
    BY <1>1 DEF SyncRows, BillingAssumption
  <2>3. [sync.last EXCEPT ![sync.plan] = 0] \in [Plans -> 0..MaxPeriod]
    BY <2>2
  <2>4. /\ sync'.at = "fetched" /\ sync'.plan = q /\ sync'.ended = sync.ended
        /\ sync'.last = [sync.last EXCEPT ![sync.plan] = 0]
    BY <1>1, <2>1 DEF SyncRows
  <2>5. sync' = [at |-> "fetched", last |-> [sync.last EXCEPT ![sync.plan] = 0],
                 renews |-> sync.renews, ended |-> sync.ended, plan |-> q,
                 found |-> sync.found, live |-> sync.live, expired |-> sync.expired]
    BY <1>1, <2>1 DEF SyncRows
  <2>6. sync' \in SyncRows
    BY <1>1, <2>3, <2>5 DEF SyncRows
  <2> QED
    BY <1>1, <2>1, <2>2, <2>4, <2>6
<1> QED
  BY <1>2, <1>3

(* A sync that fetches starts with what the store holds now. *)
LEMMA FetchKeeps ==
  ASSUME BillingAssumption, BillingInv, Fetch
  PROVE  BillingInv'
<1>1. BillingTypeOK /\ RowsAreBought
  BY DEF BillingInv
<1>2. store \in StoreRows /\ row \in [Keys -> PlanRows] /\ unrest \in 0..MaxUnrest
  BY <1>1, BillingTyped
<1>3. PICK p \in {q \in Plans : store.last[q] > 0} :
        sync' = [IdleSync EXCEPT !.at = "fetched", !.last = store.last, !.plan = p,
                                 !.renews = store.renews, !.ended = store.ended]
  BY DEF Fetch
<1>4. sync' = [at |-> "fetched", last |-> store.last, renews |-> store.renews,
               ended |-> store.ended, plan |-> p, found |-> Nothing, live |-> FALSE,
               expired |-> FALSE]
  BY <1>3 DEF IdleSync
<1>5. /\ store.last \in [Plans -> 0..MaxPeriod] /\ store.renews \in BOOLEAN
      /\ store.ended \in SUBSET Plans
  BY <1>2 DEF StoreRows
<1>6. sync' \in SyncRows
  <2>1. p \in Plans /\ FALSE \in BOOLEAN /\ Nothing \in Keys \cup {Nothing}
    BY <1>3
  <2> QED
    BY <1>4, <1>5, <2>1 DEF SyncRows
<1>7. UNCHANGED <<now, store, event, log, hook, row, credited, applied, unrest>>
      /\ quiet' = TRUE
  BY DEF Fetch
<1>8. RowsAreBought' /\ SyncGoesOn' /\ QuietSync'
  BY <1>1, <1>3, <1>4, <1>7 DEF RowsAreBought, SyncGoesOn, QuietSync
<1> QED
  BY <1>2, <1>6, <1>7, <1>8, SyncKeeps

(* A sync that finds the row of its product keeps the invariant. *)
LEMMA FindRowKeeps ==
  ASSUME BillingAssumption, BillingInv, FindRow
  PROVE  BillingInv'
<1>1. BillingTypeOK /\ RowsAreBought /\ SyncGoesOn /\ QuietSync
  BY DEF BillingInv
<1>2. /\ sync \in SyncRows /\ row \in [Keys -> PlanRows] /\ unrest \in 0..MaxUnrest
      /\ quiet \in BOOLEAN
  BY <1>1, BillingTyped
<1>3. sync.at = "fetched" /\ sync.plan \in Plans
  BY <1>1 DEF FindRow, SyncGoesOn
<1>4. UNCHANGED <<now, store, event, log, hook, row, credited, applied, quiet, unrest>>
  BY DEF FindRow
<1>5. \E found \in Keys \cup {Nothing}, live \in BOOLEAN :
        /\ sync' = [sync EXCEPT !.at = "found", !.found = found, !.live = live,
                                !.expired = SnapshotExpired]
        /\ found = Nothing => \A k \in Keys : row[k].plan # sync.plan
        /\ found # Nothing => found \in Keys /\ row[found].plan = sync.plan
  BY DEF FindRow, LiveChange, Keys, Plans, Nothing
<1>6. PICK found \in Keys \cup {Nothing}, live \in BOOLEAN :
        /\ sync' = [sync EXCEPT !.at = "found", !.found = found, !.live = live,
                                !.expired = SnapshotExpired]
        /\ found = Nothing => \A k \in Keys : row[k].plan # sync.plan
        /\ found # Nothing => found \in Keys /\ row[found].plan = sync.plan
  BY <1>5
<1>7. /\ sync'.at = "found" /\ sync'.found = found /\ sync'.plan = sync.plan
      /\ sync'.last = sync.last /\ sync'.ended = sync.ended
      /\ sync'.expired = SnapshotExpired
  BY <1>2, <1>6 DEF SyncRows
<1>8. SnapshotExpired \in BOOLEAN
  BY DEF SnapshotExpired
<1>9. sync' \in SyncRows
  BY <1>2, <1>6, <1>8 DEF SyncRows
<1>10. SyncGoesOn'
  <2>1. found \in Plans => found = sync.plan
    BY <1>1, <1>3, <1>6 DEF RowsAreBought, Plans, Nothing
  <2> QED
    BY <1>1, <1>3, <1>4, <1>7, <2>1 DEF SyncGoesOn
<1>11. QuietSync'
  <2>1. SnapshotExpired' = SnapshotExpired
    BY <1>4, <1>7 DEF SnapshotExpired
  <2>2. \A p \in Plans : Repaired(p) => Repaired(p)'
    BY <1>4 DEF Repaired, Twins, Agrees
  <2> QED
    BY <1>1, <1>3, <1>4, <1>6, <1>7, <2>1, <2>2 DEF QuietSync
<1>12. RowsAreBought'
  BY <1>1, <1>4 DEF RowsAreBought
<1> QED
  BY <1>2, <1>4, <1>9, <1>10, <1>11, <1>12, SyncKeeps

(* A sync that dies leaves what it has written. *)
LEMMA SyncFailsKeeps ==
  ASSUME BillingAssumption, BillingInv, SyncFails
  PROVE  BillingInv'
<1>1. BillingTypeOK /\ RowsAreBought /\ SyncGoesOn
  BY DEF BillingInv
<1>2. /\ row \in [Keys -> PlanRows] /\ unrest \in 0..MaxUnrest /\ sync \in SyncRows
      /\ sync.last \in [Plans -> 0..MaxPeriod]
  BY <1>1, BillingTyped DEF SyncRows
<1>3. UNCHANGED <<now, store, event, log, hook, row, credited, applied>> /\ quiet' = FALSE
  BY DEF SyncFails
<1>4. unrest' \in 0..MaxUnrest
  BY <1>2 DEF SyncFails, MayFail, BillingAssumption
<1>5. sync' \in SyncRows /\ SyncGoesOn'
  <2>1. CASE sync' = IdleSync
    BY <2>1, IdleSyncTyped DEF SyncGoesOn
  <2>2. CASE NextProduct
    <3>1. sync.at # "idle"
      BY DEF SyncFails
    <3>2. CASE sync'.at = "idle"
      BY <1>1, <2>2, <3>1, <3>2, NextProductKeeps DEF SyncGoesOn
    <3>3. CASE sync'.at # "idle"
      <4>1. /\ sync' \in SyncRows /\ sync'.at = "fetched"
            /\ sync'.plan \in Plans \ {sync.plan} /\ sync.last[sync'.plan] > 0
            /\ sync'.last[sync.plan] = 0
            /\ \A q \in Plans \ {sync.plan} : sync'.last[q] = sync.last[q]
        BY <1>1, <2>2, <3>1, <3>3, NextProductKeeps
      <4> QED
        BY <1>1, <1>3, <3>1, <4>1 DEF SyncGoesOn
    <3> QED
      BY <3>2, <3>3
  <2> QED
    BY <2>1, <2>2 DEF SyncFails
<1>6. RowsAreBought' /\ QuietSync'
  BY <1>1, <1>3 DEF RowsAreBought, QuietSync
<1> QED
  BY <1>2, <1>3, <1>4, <1>5, <1>6, SyncKeeps

(* The row a reconcile writes, and the only one.                            *)
LEMMA ReconciledRow ==
  ASSUME BillingAssumption, BillingInv, Reconcile
  PROVE  /\ ReconciledKey \in Keys
         /\ row' \in [Keys -> PlanRows]
         /\ \A j \in Keys \ {ReconciledKey} : row'[j] = row[j]
         /\ row'[ReconciledKey].plan = IF row[ReconciledKey].plan = Nothing THEN sync.plan
                                       ELSE row[ReconciledKey].plan
         /\ row'[ReconciledKey].period = sync.last[sync.plan]
         /\ row'[ReconciledKey].status = IF sync.expired THEN "expired" ELSE "active"
         /\ row'[ReconciledKey].pending = IF ClearsPending THEN Nothing
                                          ELSE row[ReconciledKey].pending
<1>1. BillingTypeOK /\ SyncGoesOn /\ sync.at = "found"
  BY DEF BillingInv, Reconcile
<1>2. /\ sync \in SyncRows /\ row \in [Keys -> PlanRows] /\ sync.plan \in Plans
      /\ Plans \subseteq Keys
  BY <1>1, BillingTyped DEF SyncGoesOn, Keys
<1>3. ReconciledKey \in Keys
  BY <1>2 DEF ReconciledKey, SyncRows
<1> DEFINE k == ReconciledKey
           r == [plan |-> IF row[k].plan = Nothing THEN sync.plan ELSE row[k].plan,
                 period |-> sync.last[sync.plan],
                 status |-> IF sync.expired THEN "expired" ELSE "active",
                 pending |-> IF ClearsPending THEN Nothing ELSE row[k].pending,
                 until |-> IF ClearsPending THEN 0 ELSE row[k].until]
<1>4. row' = [row EXCEPT ![k] = r]
  BY DEF Reconcile
<1>5. r \in PlanRows
  <2>1. /\ row[k].plan \in Plans \cup {Nothing} /\ row[k].pending \in Plans \cup {Nothing}
        /\ row[k].until \in 0..MaxPeriod /\ 0 \in 0..MaxPeriod
    BY <1>2, <1>3 DEF PlanRows, BillingAssumption
  <2>2. sync.last[sync.plan] \in 0..MaxPeriod
    BY <1>2 DEF SyncRows
  <2> QED
    BY <1>2, <2>1, <2>2 DEF PlanRows
<1>6. row' \in [Keys -> PlanRows] /\ row'[k] = r /\ \A j \in Keys \ {k} : row'[j] = row[j]
  BY <1>2, <1>3, <1>4, <1>5
<1> QED
  BY <1>3, <1>6

(* Undisturbed, it repairs the rows of its product and no other's.          *)
LEMMA ReconcileRepairs ==
  ASSUME BillingAssumption, BillingInv, Reconcile, quiet, UNCHANGED <<now, store>>
  PROVE  \A p \in Plans : p = sync.plan \/ Repaired(p) => Repaired(p)'
<1> SUFFICES ASSUME NEW k, k = ReconciledKey
             PROVE  \A p \in Plans : p = sync.plan \/ Repaired(p) => Repaired(p)'
  OBVIOUS
<1>1. /\ BillingTypeOK /\ RowsAreBought /\ SyncGoesOn /\ QuietSync /\ StoreInOrder
      /\ sync.at = "found"
  BY DEF BillingInv, Reconcile
<1>2. /\ k \in Keys /\ \A j \in Keys \ {k} : row'[j] = row[j]
      /\ row'[k].plan = IF row[k].plan = Nothing THEN sync.plan ELSE row[k].plan
      /\ row'[k].period = sync.last[sync.plan]
      /\ row'[k].status = IF sync.expired THEN "expired" ELSE "active"
  BY ReconciledRow
<1>3. /\ sync.ended = store.ended /\ sync.last[sync.plan] = store.last[sync.plan]
      /\ sync.expired <=> SnapshotExpired
      /\ sync.plan \in Plans /\ Nothing \notin Plans
  BY <1>1 DEF QuietSync, SyncGoesOn, Plans, Nothing
<1>4. row[k].plan \in {Nothing, sync.plan}
  <2>1. CASE sync.found = Nothing
    BY <1>1, <1>3, <2>1 DEF ReconciledKey, RowsAreBought
  <2>2. CASE sync.found # Nothing
    BY <1>1, <2>2 DEF ReconciledKey, QuietSync
  <2> QED
    BY <2>1, <2>2
<1>5. row'[k].plan = sync.plan
  BY <1>2, <1>4
<1>6. Agrees(k)'
  <2>1. /\ now \in Nat /\ store.last[sync.plan] \in Nat
        /\ sync.expired \in BOOLEAN
    BY <1>1, <1>3, BillingTyped DEF StoreRows, SyncRows
  <2>2. sync.expired <=> store.last[sync.plan] < now \/ sync.plan \in store.ended
    BY <1>3 DEF SnapshotExpired
  <2>3. row'[k].status = "active" <=> ~sync.expired
    BY <1>2, <2>1
  <2> QED
    BY <1>2, <1>3, <1>5, <2>1, <2>2, <2>3 DEF Agrees
<1>7. ASSUME NEW p \in Plans, p = sync.plan
      PROVE  Repaired(p)'
  <2>1. CASE \E j \in Keys \ {k} : row[j].plan = p
    <3>1. Twins(p)'
      BY <1>2, <1>5, <1>7, <2>1 DEF Twins
    <3> QED
      BY <3>1 DEF Repaired
  <2>2. CASE \A j \in Keys \ {k} : row[j].plan # p
    <3>1. \A j \in Keys : row'[j].plan = p => j = k
      BY <1>2, <2>2
    <3> QED
      BY <1>2, <1>5, <1>6, <1>7, <3>1 DEF Repaired
  <2> QED
    BY <2>1, <2>2
<1>8. ASSUME NEW p \in Plans, p # sync.plan, Repaired(p)
      PROVE  Repaired(p)'
  <2>1. \A j \in Keys : /\ row'[j].plan = p => row[j].plan = p /\ row'[j] = row[j]
                        /\ row[j].plan = p => row'[j] = row[j]
    BY <1>2, <1>3, <1>4, <1>5, <1>8
  <2>2. CASE Twins(p)
    BY <2>1, <2>2 DEF Repaired, Twins
  <2>3. CASE ~Twins(p)
    BY <1>8, <2>1, <2>3 DEF Repaired, Agrees
  <2> QED
    BY <2>2, <2>3
<1> QED
  BY <1>7, <1>8

(* A sync that writes the row it found, or opens one, keeps the invariant. *)
LEMMA ReconcileKeeps ==
  ASSUME BillingAssumption, BillingInv, Reconcile
  PROVE  BillingInv'
<1> SUFFICES ASSUME NEW k, k = ReconciledKey
             PROVE  BillingInv'
  OBVIOUS
<1>1. /\ BillingTypeOK /\ RowsAreBought /\ SyncGoesOn /\ QuietSync /\ sync.at = "found"
      /\ NextProduct
  BY DEF BillingInv, Reconcile
<1>2. UNCHANGED <<now, store, event, log, hook, credited, applied, quiet, unrest>>
  BY DEF Reconcile
<1>3. /\ k \in Keys /\ row' \in [Keys -> PlanRows]
      /\ \A j \in Keys \ {k} : row'[j] = row[j]
      /\ row'[k].plan = IF row[k].plan = Nothing THEN sync.plan ELSE row[k].plan
      /\ row'[k].pending = IF ClearsPending THEN Nothing ELSE row[k].pending
  BY ReconciledRow
<1>4. /\ sync \in SyncRows /\ row \in [Keys -> PlanRows] /\ unrest \in 0..MaxUnrest
      /\ quiet \in BOOLEAN /\ sync.last \in [Plans -> 0..MaxPeriod]
      /\ sync.plan \in Plans /\ store.last[sync.plan] > 0 /\ Nothing \notin Plans
      /\ Plans \subseteq Keys
  BY <1>1, BillingTyped DEF SyncGoesOn, SyncRows, Plans, Nothing, Keys
<1>5. RowsAreBought'
  <2>1. k \in Plans => k = sync.plan
    BY <1>1 DEF ReconciledKey, SyncGoesOn
  <2>2. \A p \in Plans : row'[p].plan \in {Nothing, p} /\ row'[p].pending = Nothing
    BY <1>1, <1>3, <1>4, <2>1 DEF RowsAreBought
  <2>3. \A j \in Keys : /\ row'[j].plan = Nothing => row'[j].status # "active"
                        /\ row'[j].plan # Nothing => store.last[row'[j].plan] > 0
    BY <1>1, <1>3, <1>4 DEF RowsAreBought
  <2> QED
    BY <1>2, <2>2, <2>3 DEF RowsAreBought
<1>6. sync' \in SyncRows
  BY <1>1, NextProductKeeps
<1>7. CASE sync'.at = "idle"
  <2>1. SyncGoesOn' /\ QuietSync'
    BY <1>7 DEF SyncGoesOn, QuietSync
  <2> QED
    BY <1>2, <1>3, <1>4, <1>5, <1>6, <2>1, SyncKeeps
<1>8. CASE sync'.at # "idle"
  <2>1. /\ sync'.at = "fetched" /\ sync'.ended = sync.ended
        /\ sync'.plan \in Plans \ {sync.plan} /\ sync.last[sync'.plan] > 0
        /\ sync'.last[sync.plan] = 0
        /\ \A q \in Plans \ {sync.plan} : sync'.last[q] = sync.last[q]
    BY <1>1, <1>8, NextProductKeeps
  <2>2. SyncGoesOn'
    BY <1>1, <1>2, <1>4, <2>1 DEF SyncGoesOn
  <2>3. ASSUME quiet
        PROVE  /\ sync.ended = store.ended
               /\ sync.last[sync'.plan] = store.last[sync'.plan]
               /\ \A p \in Plans : \/ sync'.last[p] = store.last[p]
                                   \/ sync'.last[p] = 0 /\ Repaired(p)'
    <3>1. /\ sync.ended = store.ended
          /\ \A p \in Plans : \/ sync.last[p] = store.last[p]
                              \/ sync.last[p] = 0 /\ Repaired(p)
      BY <1>1, <2>3 DEF QuietSync
    <3>2. \A p \in Plans : p = sync.plan \/ Repaired(p) => Repaired(p)'
      BY <1>2, <2>3, ReconcileRepairs
    <3> QED
      BY <2>1, <3>1, <3>2
  <2>4. QuietSync'
    BY <1>2, <2>1, <2>3 DEF QuietSync
  <2> QED
    BY <1>2, <1>3, <1>4, <1>5, <1>6, <2>2, <2>4, SyncKeeps
<1> QED
  BY <1>7, <1>8

-------------------------------------------------------------------------------
(* The invariant holds before anything was bought. *)
LEMMA BillingInitInv ==
  ASSUME BillingAssumption, BillingInit
  PROVE  BillingInv
<1> USE DEF BillingAssumption
<1>1. /\ now = 1 /\ 1 \in 1..MaxPeriod
      /\ store = [plan |-> Nothing, last |-> [p \in Plans |-> 0],
                  renews |-> FALSE, ended |-> {}, next |-> Nothing]
      /\ event = << >> /\ log = << >> /\ credited = << >> /\ applied = {}
      /\ hook = [d \in Deliveries |-> IdleHook]
      /\ sync = IdleSync /\ row = [k \in Keys |-> NoRow]
      /\ quiet = FALSE /\ unrest = 0
  BY DEF BillingInit
<1>2. IdleHook \in HookRows /\ IdleHook.at = "idle"
  BY DEF IdleHook, HookRows
<1>3. /\ NoRow \in PlanRows /\ NoRow.plan = Nothing /\ NoRow.pending = Nothing
      /\ NoRow.status = Nothing /\ Nothing # "active"
  BY DEF NoRow, PlanRows, Nothing
<1>4. store \in StoreRows /\ \A p \in Plans : store.last[p] = 0
  <2>1. [p \in Plans |-> 0] \in [Plans -> 0..MaxPeriod]
    OBVIOUS
  <2> QED
    BY <1>1, <2>1 DEF StoreRows
<1>5. /\ event \in Seq(EventRows) /\ log \in Seq(Statuses) /\ credited \in Seq(Nat)
      /\ Len(event) = 0 /\ Len(log) = 0 /\ Len(credited) = 0 /\ DOMAIN event = {}
  BY <1>1
<1>6. BillingTypeOK
  <2>1. hook \in [Deliveries -> HookRows] /\ row \in [Keys -> PlanRows]
    BY <1>1, <1>2, <1>3
  <2>2. sync \in SyncRows
    BY <1>1, IdleSyncTyped
  <2>3. now \in 1..MaxPeriod /\ quiet \in BOOLEAN /\ unrest \in 0..MaxUnrest
    <3>1. now \in 1..MaxPeriod
      BY <1>1
    <3>2. quiet \in BOOLEAN
      BY <1>1
    <3>3. 0 \in 0..MaxUnrest
      OBVIOUS
    <3> QED
      BY <1>1, <3>1, <3>2, <3>3
  <2>5. applied \subseteq DOMAIN event
    BY <1>1
  <2>4. Len(log) = Len(event) /\ Len(credited) = Len(event)
    BY <1>5
  <2> QED
    BY <1>4, <1>5, <2>1, <2>2, <2>3, <2>4, <2>5, BillingTyped
<1>7. StoreInOrder /\ EventsAreTheStores /\ ProcessedIsApplied
  BY <1>1, <1>4, <1>5 DEF StoreInOrder, EventsAreTheStores, ProcessedIsApplied
<1>8. \A d \in Deliveries : HookTells(d)
  BY <1>1, <1>2 DEF HookTells, HookAt
<1>9. RowsAreBought
  BY <1>1, <1>3 DEF RowsAreBought, Keys
<1>10. SyncGoesOn /\ QuietSync
  BY <1>1, IdleSyncTyped DEF SyncGoesOn, QuietSync
<1> QED
  BY <1>6, <1>7, <1>8, <1>9, <1>10 DEF BillingInv

(* Every step of the store, the webhook and the sync keeps the billing      *)
(* invariant.                                                               *)
LEMMA BillingStepInv ==
  ASSUME BillingAssumption, BillingInv, [BillingNext]_billingVars
  PROVE  BillingInv'
<1>1. CASE BillingNext
  BY <1>1, StoreKeeps, DeliverKeeps, ProcessKeeps, ConfirmKeeps, FetchKeeps,
     FindRowKeeps, ReconcileKeeps, SyncFailsKeeps
  DEF BillingNext, Delivered, Hook, Process, Sync
<1>2. CASE UNCHANGED billingVars
  <2>1. /\ UNCHANGED <<now, store, event, log, hook, credited, applied>>
        /\ UNCHANGED <<sync, row, quiet, unrest>>
    BY <1>2 DEF billingVars
  <2>2. /\ sync \in SyncRows /\ row \in [Keys -> PlanRows] /\ quiet \in BOOLEAN
        /\ unrest \in 0..MaxUnrest
    BY BillingTyped DEF BillingInv
  <2>3. RowsAreBought' /\ SyncGoesOn' /\ QuietSync'
    BY <2>1 DEF BillingInv, RowsAreBought, SyncGoesOn, QuietSync, Repaired, Twins, Agrees,
                SnapshotExpired
  <2> QED
    BY <2>1, <2>2, <2>3, SyncKeeps
<1> QED
  BY <1>1, <1>2

(* The inductive invariant of billing, for any number of handlers, events   *)
(* and periods, and however often steps fail and handlers die.              *)
THEOREM BillingInvAlways == BillingSafety => []BillingInv
<1>1. BillingInit => BillingInv
  BY BillingInitInv, BillingAssumption
<1>2. BillingInv /\ [BillingNext]_billingVars => BillingInv'
  BY BillingStepInv, BillingAssumption
<1> QED
  BY <1>1, <1>2, PTL DEF BillingSafety

(* The billing tables and the handlers of the webhook and of the sync are   *)
(* always well typed.                                                       *)
THEOREM BillingTypeCorrect == BillingSafety => []BillingTypeOK
<1>1. BillingInv => BillingTypeOK
  BY DEF BillingInv
<1> QED
  BY <1>1, BillingInvAlways, PTL

(* However often and by however many handlers at once an event is           *)
(* delivered, a purchase is credited at most once, and what is logged as    *)
(* processed has had its effect.                                            *)
THEOREM BillingProcessedIsApplied == BillingSafety => []ProcessedIsApplied
<1>1. BillingInv => ProcessedIsApplied
  BY DEF BillingInv
<1> QED
  BY <1>1, BillingInvAlways, PTL

(* A step that moves the sync is one of its own.                            *)
LEMMA OnlySyncMovesSync ==
  ASSUME [BillingNext]_billingVars, sync' # sync
  PROVE  Sync
BY DEF BillingNext, billingVars, Store, Subscribe, Unsubscribe, ScheduleDowngrade, Renew,
       Lapse, Refund, BuyMinutes, Emit, Delivered, Deliver, Hook, Process, RecordEvent,
       ProcessLifecycle, ProcessPurchase, Confirm, ProcessFails, HookDies

(* Rows that are all repaired grant what the store says is owned.           *)
LEMMA RepairedRowsGrant ==
  ASSUME BillingTypeOK, StoreInOrder, RowsAreBought,
         \A p \in Plans : store.last[p] > 0 => Repaired(p),
         \A p \in Plans : ~Twins(p)
  PROVE  Granted = StorePlan
<1>1. /\ now \in 1..MaxPeriod /\ store \in StoreRows /\ row \in [Keys -> PlanRows]
      /\ Nothing \notin Plans
  BY BillingTyped DEF Plans, Nothing
<1>2. ASSUME NEW k \in Keys, row[k].status = "active", row[k].period = now
      PROVE  Owned /\ row[k].plan = store.plan
  <2>1. row[k].plan \in Plans /\ store.last[row[k].plan] > 0
    BY <1>1, <1>2 DEF RowsAreBought, PlanRows
  <2>2. Agrees(k)
    BY <2>1 DEF Repaired
  <2>3. store.last[row[k].plan] = now /\ row[k].plan \notin store.ended
    BY <1>2, <2>2 DEF Agrees
  <2>4. row[k].plan = store.plan
    BY <2>1, <2>3 DEF StoreInOrder
  <2> QED
    BY <2>1, <2>3, <2>4 DEF Owned
<1>3. ASSUME Owned
      PROVE  \E k \in Keys : /\ row[k].plan = store.plan
                             /\ row[k].status = "active" /\ row[k].period = now
  <2>1. /\ store.plan \in Plans /\ store.plan \notin store.ended
        /\ store.last[store.plan] = now /\ now > 0
    BY <1>1, <1>3 DEF Owned
  <2>2. PICK k \in Keys : row[k].plan = store.plan /\ Agrees(k)
    BY <2>1 DEF Repaired
  <2> QED
    BY <2>1, <2>2 DEF Agrees
<1> QED
  BY <1>2, <1>3 DEF Granted, StorePlan

(* Two rows of one plan are more than one.                                  *)
LEMMA TwinsAreTwo ==
  ASSUME NEW p \in Plans, Twins(p)
  PROVE  Cardinality(Rows(p)) > 1
<1>1. PICK j, k \in Keys : j # k /\ row[j].plan = p /\ row[k].plan = p
  BY DEF Twins
<1>2. IsFiniteSet(Keys)
  <2>1. Keys = {"chain", "low", "high"}
    BY DEF Keys, Plans
  <2>2. IsFiniteSet({"chain", "low", "high"})
    <3>1. /\ IsFiniteSet({})
          /\ IsFiniteSet({} \cup {"chain"})
          /\ IsFiniteSet(({} \cup {"chain"}) \cup {"low"})
          /\ IsFiniteSet((({} \cup {"chain"}) \cup {"low"}) \cup {"high"})
      BY FS_EmptySet, FS_AddElement
    <3>2. {"chain", "low", "high"} = (({} \cup {"chain"}) \cup {"low"}) \cup {"high"}
      OBVIOUS
    <3> QED
      BY <3>1, <3>2
  <2> QED
    BY <2>1, <2>2
<1>3. Rows(p) \subseteq Keys /\ {j} \cup {k} \subseteq Rows(p)
  BY <1>1 DEF Rows
<1>4. IsFiniteSet(Rows(p))
  BY <1>2, <1>3, FS_Subset
<1>5. IsFiniteSet({j}) /\ Cardinality({j}) = 1
  BY FS_Singleton
<1>6. Cardinality({j} \cup {k}) = 2
  <2>1. Cardinality({j} \cup {k}) = IF k \in {j} THEN Cardinality({j}) ELSE Cardinality({j}) + 1
    BY <1>5, FS_AddElement, Zenon
  <2>2. k \notin {j}
    BY <1>1
  <2> QED
    BY <1>5, <2>1, <2>2
<1>7. Cardinality({j} \cup {k}) <= Cardinality(Rows(p))
  BY <1>3, <1>4, FS_Subset
<1>8. Cardinality(Rows(p)) \in Nat
  BY <1>4, FS_CardinalityType
<1> QED
  BY <1>6, <1>7, <1>8

(* The same of the next state: repaired rows without twins grant what the   *)
(* store holds.                                                             *)
LEMMA RepairedRowsGrantNext ==
  (/\ BillingTypeOK /\ StoreInOrder /\ RowsAreBought
   /\ \A p \in Plans : store.last[p] > 0 => Repaired(p)
   /\ \A p \in Plans : ~Twins(p)
   => Granted = StorePlan)'
<1>1. /\ BillingTypeOK /\ StoreInOrder /\ RowsAreBought
      /\ \A p \in Plans : store.last[p] > 0 => Repaired(p)
      /\ \A p \in Plans : ~Twins(p)
      => Granted = StorePlan
  BY RepairedRowsGrant
<1> QED
  BY <1>1, PTL

(* The same of the next state: twins are two rows. *)
LEMMA TwinsAreTwoNext ==
  (\A p \in Plans : Twins(p) => Cardinality(Rows(p)) > 1)'
<1>1. \A p \in Plans : Twins(p) => Cardinality(Rows(p)) > 1
  BY TwinsAreTwo
<1> QED
  BY <1>1, PTL

(* The last step of a sync that nothing disturbed leaves every product      *)
(* repaired.                                                                *)
LEMMA QuietSyncRepairs ==
  ASSUME BillingAssumption, BillingInv, [BillingNext]_billingVars,
         sync.at = "found", sync'.at = "idle", quiet, quiet'
  PROVE  Granted' = StorePlan \/ \E p \in Plans : Cardinality(Rows(p)') > 1
<1>1. Reconcile
  <2>1. Sync
    BY OnlySyncMovesSync
  <2>2. ~Fetch /\ ~FindRow /\ ~SyncFails
    BY DEF Fetch, FindRow, SyncFails
  <2> QED
    BY <2>1, <2>2 DEF Sync
<1>2. BillingInv'
  BY BillingStepInv
<1>3. UNCHANGED <<now, store>> /\ StorePlan' = StorePlan
  BY <1>1 DEF Reconcile, StorePlan, Owned
<1>4. \A p \in Plans : store.last[p] > 0 => Repaired(p)'
  <2>1. /\ BillingTypeOK /\ SyncGoesOn /\ QuietSync /\ NextProduct
    BY <1>1 DEF BillingInv, Reconcile
  <2>2. \A p \in Plans : p = sync.plan \/ Repaired(p) => Repaired(p)'
    BY <1>1, <1>3, ReconcileRepairs
  <2>3. \A q \in Plans : q = sync.plan \/ ~(sync.last[q] > 0)
    BY <2>1, NextProductKeeps
  <2>4. \A p \in Plans : sync.last[p] = store.last[p] \/ Repaired(p)
    BY <2>1 DEF QuietSync
  <2> QED
    BY <2>2, <2>3, <2>4
<1>5. CASE \E p \in Plans : Twins(p)'
  BY <1>5, TwinsAreTwoNext
<1>6. CASE \A p \in Plans : ~Twins(p)'
  <2>1. /\ BillingTypeOK' /\ StoreInOrder' /\ RowsAreBought'
        /\ \A p \in Plans : store'.last[p] > 0 => Repaired(p)'
    BY <1>2, <1>3, <1>4 DEF BillingInv
  <2> QED
    BY <1>3, <1>6, <2>1, RepairedRowsGrantNext
<1> QED
  BY <1>5, <1>6

(* Whatever the webhook left behind, a sync that nothing disturbs leaves    *)
(* the user with the plan the store says is owned, or a plan with two rows. *)
THEOREM BillingSyncRepairs == BillingSafety => SyncRepairs
<1> DEFINE Repairs == sync.at = "found" /\ sync'.at = "idle" /\ quiet /\ quiet'
                        => Granted' = StorePlan \/ \E p \in Plans : Cardinality(Rows(p)') > 1
<1>1. BillingInv /\ [BillingNext]_billingVars => [Repairs]_billingVars
  BY QuietSyncRepairs, BillingAssumption
<1>2. BillingSafety => [][Repairs]_billingVars
  BY <1>1, BillingInvAlways, PTL DEF BillingSafety
<1> QED
  BY <1>2 DEF SyncRepairs

(* A change that was there at the sync's lookup, of a product it finds      *)
(* running, survives its write, for only the row of the chain carries one.  *)
LEMMA SyncKeepsChange ==
  ASSUME BillingAssumption, BillingInv, [BillingNext]_billingVars,
         NEW k \in Keys, sync.at = "found", sync' # sync, row' # row,
         LiveChange(k), ~sync.expired, sync.found = k => sync.live
  PROVE  row'[k].pending = row[k].pending
<1>1. Reconcile
  <2>1. Sync
    BY OnlySyncMovesSync
  <2>2. ~Fetch /\ ~FindRow /\ ~SyncFails
    BY DEF Fetch, FindRow, SyncFails
  <2> QED
    BY <2>1, <2>2 DEF Sync
<1>2. k = "chain"
  BY DEF LiveChange, BillingInv, RowsAreBought, Keys
<1>3. sync.plan \in Plans /\ "chain" \notin Plans
  BY DEF BillingInv, SyncGoesOn, Plans
<1>4. CASE ReconciledKey # k
  BY <1>1, <1>4, ReconciledRow
<1>5. CASE ReconciledKey = k
  <2>1. sync.found = k
    BY <1>2, <1>3, <1>5 DEF ReconciledKey
  <2>2. ~ClearsPending
    BY <2>1 DEF ClearsPending
  <2> QED
    BY <1>1, <1>5, <2>2, ReconciledRow
<1> QED
  BY <1>4, <1>5

(* A sync never erases a change that is yet to come and was there at its    *)
(* lookup ("REST must never erase it").                                     *)
THEOREM BillingKeepsScheduledChange == BillingSafety => ScheduledChangeIsKept
<1> DEFINE Kept == \A k \in Keys : sync.at = "found" /\ sync' # sync /\ row' # row
                     /\ LiveChange(k) /\ ~sync.expired /\ (sync.found = k => sync.live)
                       => row'[k].pending = row[k].pending
<1>1. BillingInv /\ [BillingNext]_billingVars => [Kept]_billingVars
  BY SyncKeepsChange, BillingAssumption
<1>2. BillingSafety => [][Kept]_billingVars
  BY <1>1, BillingInvAlways, PTL DEF BillingSafety
<1> QED
  BY <1>2 DEF ScheduledChangeIsKept
===============================================================================
