----------------------------- MODULE LearnerProofs -----------------------------
(* What a learner is owed, for any attempts, calls, texts, limits and       *)
(* bounds: the pronunciation rounds of a day stay in order and nothing is   *)
(* assessed in vain; one review buys one analysis, which a completed        *)
(* reservation can always show; the library of shared stories stays         *)
(* bounded, practice is kept, and without late generations a ready story's  *)
(* audio reads its own text.                                                *)
EXTENDS PronunciationDay, WritingRewrites, SharedStories, SequenceTheorems,
        FiniteSetTheorems, TLAPS

(* Writing the last element of a sequence leaves the others as they are.    *)
LEMMA LastWritten ==
  ASSUME NEW S, NEW q \in Seq(S), q # << >>, NEW x \in S
  PROVE  /\ [q EXCEPT ![Len(q)] = x] \in Seq(S)
         /\ [q EXCEPT ![Len(q)] = x] # << >>
         /\ Len([q EXCEPT ![Len(q)] = x]) = Len(q)
         /\ Len(q) \in Nat \ {0}
         /\ q[Len(q)] \in S
         /\ [q EXCEPT ![Len(q)] = x][Len(q)] = x
         /\ \A i \in 1..Len(q) : i # Len(q) => [q EXCEPT ![Len(q)] = x][i] = q[i]
<1>1. Len(q) \in Nat \ {0} /\ DOMAIN q = 1..Len(q)
  BY EmptySeq, LenProperties
<1>2. Len(q) \in 1..Len(q)
  BY <1>1
<1>3. q[Len(q)] \in S
  BY <1>2, ElementOfSeq
<1>4. /\ [q EXCEPT ![Len(q)] = x] \in Seq(S)
      /\ Len([q EXCEPT ![Len(q)] = x]) = Len(q)
  BY <1>2, ExceptSeq
<1>5. /\ [q EXCEPT ![Len(q)] = x][Len(q)] = x
      /\ \A i \in 1..Len(q) : i # Len(q) => [q EXCEPT ![Len(q)] = x][i] = q[i]
  BY <1>1, <1>2
<1>6. [q EXCEPT ![Len(q)] = x] # << >>
  BY <1>1, <1>4, EmptySeq
<1> QED
  BY <1>1, <1>3, <1>4, <1>5, <1>6

-------------------------------------------------------------------------------
(* The pronunciation day.  An attempt the server is at work for, and one    *)
(* still on its way from /start, holds the open round, and six minutes have *)
(* not passed; without the second part a reclaim would take the round away. *)
Engaged(a) == \/ try[a] \in {"token", "compensating"}
              \/ AtWorkFor(a) /\ a \notin cut

EngagedHold == \A a \in Attempts : Engaged(a) => Holds(a) /\ ~round[Open].idle

(* A round in processing is an attempt's.                                   *)
ProcessingIsHeld ==
  HasOpen /\ round[Open].status = "processing" => round[Open].active \in Attempts

PronunciationInv ==
  /\ PronunciationTypeOK
  /\ DayInOrder
  /\ ProcessingIsHeld
  /\ EngagedHold

(* What is known of the rounds in a typed state.                            *)
LEMMA RoundsTyped ==
  ASSUME PronunciationTypeOK
  PROVE  /\ Open \in Nat
         /\ DOMAIN round = 1..Open
         /\ \A i \in 1..Open : round[i] \in Round
         /\ HasOpen => Open \in 1..Open /\ round[Open].status # "completed"
         /\ round # << >> => Open \in 1..Open
<1>1. round \in Seq(Round)
  BY DEF PronunciationTypeOK
<1>2. Open \in Nat /\ DOMAIN round = 1..Open
  BY <1>1, LenProperties DEF Open
<1>3. \A i \in 1..Open : round[i] \in Round
  BY <1>1, ElementOfSeq DEF Open
<1>4. round # << >> => Open \in 1..Open
  BY <1>1, <1>2, EmptySeq DEF Open
<1>5. HasOpen => round # << >> /\ round[Open].status # "completed"
  BY <1>2, <1>4 DEF HasOpen, Completed
<1> QED
  BY <1>2, <1>3, <1>4, <1>5

(* In a day in order, all rounds before the open one are completed.         *)
LEMMA RoundsCounted ==
  ASSUME PronunciationTypeOK, DayInOrder
  PROVE  /\ ~HasOpen => Completed = 1..Open /\ Cardinality(Completed) = Open
         /\ HasOpen => /\ Completed = 1..(Open - 1)
                       /\ Cardinality(Completed) = Open - 1
<1>1. /\ Open \in Nat /\ DOMAIN round = 1..Open
      /\ HasOpen => Open \in 1..Open /\ round[Open].status # "completed"
      /\ round # << >> => Open \in 1..Open
  BY RoundsTyped
<1>2. \A i \in 1..Open : i # Open => i \in Completed
  BY <1>1 DEF DayInOrder
<1>3. ASSUME NEW n \in Nat PROVE Cardinality(1..n) = n
  <2>1. Cardinality(1..n) = IF 1 > n THEN 0 ELSE n - 1 + 1
    BY FS_Interval
  <2> QED
    BY <2>1
<1>4. Completed = {i \in 1..Open : round[i].status = "completed"}
  BY <1>1 DEF Completed
<1>5. CASE HasOpen
  <2>1. Completed = 1..(Open - 1) /\ Open - 1 \in Nat
    BY <1>1, <1>2, <1>4, <1>5
  <2> QED
    BY <1>3, <1>5, <2>1
<1>6. CASE ~HasOpen
  <2>1. round # << >> => Open \in Completed
    BY <1>6 DEF HasOpen
  <2>2. round = << >> => Open = 0
    BY EmptySeq DEF Open
  <2>3. Completed = 1..Open
    <3>1. CASE round = << >>
      BY <1>4, <2>2, <3>1
    <3>2. CASE round # << >>
      BY <1>2, <1>4, <2>1, <3>2
    <3> QED
      BY <3>1, <3>2
  <2> QED
    BY <1>1, <1>3, <1>6, <2>3
<1> QED
  BY <1>5, <1>6

(* A write of the open round that leaves it open, or completes it with the  *)
(* result of the attempt that holds it, keeps the day in order, if none is  *)
(* consumed by it beyond the limit.                                         *)
LEMMA OpenWritten ==
  ASSUME PronunciationTypeOK, DayInOrder, HasOpen, NEW x \in Round,
         round' = [round EXCEPT ![Open] = x],
         x.status = "completed" => x.result = x.active /\ x.result # "none",
         x.status \in {"processing", "completed"} =>
           round[Open].status = "processing" \/ Consumed < DailyRounds
  PROVE  /\ round' \in Seq(Round)
         /\ round' # << >>
         /\ Open' = Open
         /\ round'[Open] = x
         /\ DayInOrder'
<1>0. round \in Seq(Round) /\ round # << >>
  BY DEF PronunciationTypeOK, HasOpen
<1>1. /\ round' \in Seq(Round)
      /\ round' # << >>
      /\ Len(round') = Len(round)
      /\ Len(round) \in Nat \ {0}
      /\ round'[Len(round)] = x
      /\ \A i \in 1..Len(round) : i # Len(round) => round'[i] = round[i]
  BY <1>0, LastWritten DEF Open
<1>2. Open' = Open /\ DOMAIN round' = 1..Open /\ DOMAIN round = 1..Open
  BY <1>0, <1>1, LenProperties DEF Open
<1>3. ASSUME NEW i \in 1..Open
      PROVE  /\ i # Open => round'[i].status = "completed"
             /\ round'[i].status = "completed"
                  => round'[i].result = round'[i].active /\ round'[i].result # "none"
  <2>1. CASE i = Open
    BY <1>1, <2>1 DEF Open
  <2>2. CASE i # Open
    BY <1>1, <1>2, <2>2 DEF Open, DayInOrder, Completed
  <2> QED
    BY <2>1, <2>2
<1>4. Open \in Nat \ {0} /\ round'[Open] = x
  BY <1>1 DEF Open
<1>5. Cardinality(Completed) = Open - 1 /\ Consumed <= DailyRounds
  BY RoundsCounted DEF DayInOrder
<1>6. x.status \in {"processing", "completed"} => Open <= DailyRounds
  BY <1>4, <1>5, PronunciationAssumption DEF Consumed
<1>7. Open - 1 <= DailyRounds
  BY <1>4, <1>5, PronunciationAssumption DEF Consumed
<1>8. Completed' = {i \in 1..Open : round'[i].status = "completed"}
  BY <1>2 DEF Completed
<1>9. ASSUME NEW n \in Nat PROVE Cardinality(1..n) = n
  <2>1. Cardinality(1..n) = IF 1 > n THEN 0 ELSE n - 1 + 1
    BY FS_Interval
  <2> QED
    BY <2>1
<1>10. Consumed' <= DailyRounds
  <2>1. CASE x.status = "completed"
    <3>1. Completed' = 1..Open
      BY <1>3, <1>4, <1>8, <2>1
    <3>2. ~HasOpen'
      <4>1. Open' = Open /\ Open \in 1..Open
        BY <1>2, <1>4
      <4>2. Open' \in Completed'
        BY <3>1, <4>1
      <4> QED
        BY <4>2 DEF HasOpen
    <3>3. Consumed' = Open + 0
      BY <1>4, <1>9, <3>1, <3>2 DEF Consumed
    <3> QED
      BY <1>4, <1>6, <2>1, <3>3
  <2>2. CASE x.status # "completed"
    <3>1. Completed' = 1..(Open - 1)
      BY <1>3, <1>4, <1>8, <2>2
    <3>2. Cardinality(Completed') = Open - 1
      BY <1>4, <1>9, <3>1
    <3>3. (round[Open].status)' = x.status
      BY <1>1, <1>2 DEF Open
    <3>4. Consumed' = (Open - 1) + (IF HasOpen' /\ x.status = "processing" THEN 1 ELSE 0)
      BY <3>2, <3>3 DEF Consumed
    <3> QED
      BY <1>4, <1>6, <1>7, <3>4, PronunciationAssumption
  <2> QED
    BY <2>1, <2>2
<1>11. DayInOrder'
  <2>1. DOMAIN round' = 1..Open' /\ Open' = Open
    BY <1>2
  <2> QED
    BY <1>3, <1>8, <1>10, <2>1 DEF DayInOrder
<1> QED
  BY <1>1, <1>2, <1>11 DEF Open

(* The open round has one holder.                                           *)
LEMMA OneHolder ==
  ASSUME EngagedHold, NEW a \in Attempts, NEW b \in Attempts, Engaged(a), Holds(b)
  PROVE  a = b
BY DEF EngagedHold, Holds

(* A text adds an open round to a day without one, be there room for it or  *)
(* not; nothing is consumed by it.                                          *)
LEMMA TextKeepsDay ==
  ASSUME PronunciationInv, NEW t \in TextCalls, InsertRound(t), ~HasOpen,
         counted[t] < DailyRounds
  PROVE  PronunciationInv'
<1> DEFINE x == [status |-> "text_generated", active |-> "none", idle |-> FALSE,
                 result |-> "none"]
<1>0. /\ PronunciationTypeOK /\ DayInOrder /\ EngagedHold
      /\ Open \in Nat /\ DOMAIN round = 1..Open
      /\ round \in Seq(Round)
  BY RoundsTyped DEF PronunciationInv, PronunciationTypeOK
<1>1. x \in Round /\ x.status \notin {"completed", "processing"}
  BY DEF Round
<1>2. round' = Append(round, x)
  BY DEF InsertRound
<1> HIDE DEF x
<1>3. /\ round' \in Seq(Round) /\ Open' = Open + 1 /\ round'[Open + 1] = x
      /\ \A i \in 1..Open : round'[i] = round[i]
      /\ DOMAIN round' = 1..(Open + 1)
  <2>1. /\ round' \in Seq(Round) /\ Len(round') = Len(round) + 1
        /\ round'[Len(round) + 1] = x
        /\ \A i \in 1..Len(round) : round'[i] = round[i]
    BY <1>0, <1>1, <1>2, AppendProperties
  <2>2. DOMAIN round' = 1..Len(round')
    BY <2>1, LenProperties
  <2> QED
    BY <2>1, <2>2 DEF Open
<1>4. PronunciationTypeOK'
  <2>1. counted' \in [TextCalls -> Nat \cup {NoCount}]
    BY <1>0 DEF PronunciationTypeOK, InsertRound
  <2> QED
    BY <1>0, <1>3, <2>1 DEF PronunciationTypeOK, InsertRound
<1>5. Completed = 1..Open /\ Cardinality(Completed) = Open
  BY <1>0, RoundsCounted
<1>6. Completed' = Completed
  <2>1. \A i \in 1..Open : round'[i].status = "completed"
    BY <1>0, <1>3, <1>5 DEF Completed
  <2>2. Completed' = {i \in 1..(Open + 1) : round'[i].status = "completed"}
    BY <1>3 DEF Completed
  <2> QED
    BY <1>0, <1>1, <1>3, <1>5, <2>1, <2>2
<1>7. Consumed' <= DailyRounds
  <2>1. Consumed = Open + 0 /\ Consumed <= DailyRounds
    BY <1>0, <1>5 DEF Consumed, DayInOrder
  <2>2. (round[Open].status)' # "processing"
    BY <1>1, <1>3
  <2>3. Consumed' = Open + 0
    BY <1>5, <1>6, <2>2 DEF Consumed
  <2> QED
    BY <2>1, <2>3
<1>8. ASSUME NEW i \in 1..(Open + 1)
      PROVE  /\ i # Open + 1 => round'[i].status = "completed"
             /\ round'[i].status = "completed"
                  => round'[i].result = round'[i].active /\ round'[i].result # "none"
  <2>1. CASE i = Open + 1
    BY <1>1, <1>3, <2>1
  <2>2. CASE i # Open + 1
    BY <1>0, <1>3, <1>5, <2>2 DEF DayInOrder, Completed
  <2> QED
    BY <2>1, <2>2
<1>9. DayInOrder'
  <2>1. \A i \in DOMAIN round' : i \in Completed' <=> round'[i].status = "completed"
    BY DEF Completed
  <2> QED
    BY <1>3, <1>7, <1>8, <2>1 DEF DayInOrder
<1>10. \A a \in Attempts : ~Engaged(a)
  BY <1>0 DEF EngagedHold, Holds
<1>11. EngagedHold'
  BY <1>10 DEF EngagedHold, Engaged, AtWorkFor, InsertRound
<1>12. ProcessingIsHeld'
  <2>1. round'[Open'] = x
    BY <1>3
  <2> QED
    BY <1>1, <2>1 DEF ProcessingIsHeld
<1> QED
  BY <1>4, <1>9, <1>11, <1>12 DEF PronunciationInv

(* A step that writes no round and engages nobody.                          *)
LEMMA UnwrittenKeepsDay ==
  ASSUME PronunciationInv, PronunciationTypeOK', UNCHANGED round,
         \A a \in Attempts : Engaged(a)' => Engaged(a)
  PROVE  PronunciationInv'
<1>1. DayInOrder'
  BY DEF PronunciationInv, DayInOrder, Consumed, HasOpen, Completed, Open
<1>2. EngagedHold'
  BY DEF PronunciationInv, EngagedHold, Holds, HasOpen, Completed, Open
<1>3. ProcessingIsHeld'
  BY DEF PronunciationInv, ProcessingIsHeld, HasOpen, Completed, Open
<1> QED
  BY <1>1, <1>2, <1>3 DEF PronunciationInv

(* A step that writes the open round, and after which nobody else than its  *)
(* holder is engaged.                                                       *)
LEMMA WrittenKeepsDay ==
  ASSUME PronunciationInv, HasOpen, NEW x \in Round,
         round' = [round EXCEPT ![Open] = x],
         x.status = "completed" => x.result = x.active /\ x.result # "none",
         x.status = "processing" => x.active \in Attempts,
         x.status \in {"processing", "completed"} =>
           round[Open].status = "processing" \/ Consumed < DailyRounds,
         counted' = counted, try' \in [Attempts -> TryStages], accidents' \in 0..MaxAccidents,
         cut' \in SUBSET Attempts,
         \A a \in Attempts : Engaged(a)' =>
           x.active = a /\ x.status = "processing" /\ ~x.idle
  PROVE  PronunciationInv'
<1>1. /\ round' \in Seq(Round) /\ round' # << >> /\ Open' = Open
      /\ round'[Open] = x /\ DayInOrder'
  BY OpenWritten DEF PronunciationInv
<1>2. PronunciationTypeOK'
  BY <1>1 DEF PronunciationInv, PronunciationTypeOK
<1>3. ASSUME NEW a \in Attempts, Engaged(a)'
      PROVE  Holds(a)' /\ ~(round[Open].idle)'
  <2>1. round'[Open'] = x /\ x.active = a /\ x.status = "processing" /\ ~x.idle
    BY <1>1, <1>3
  <2>2. HasOpen'
    BY <1>1, <2>1 DEF HasOpen, Completed
  <2> QED
    BY <2>1, <2>2 DEF Holds
<1>4. EngagedHold'
  BY <1>3 DEF EngagedHold
<1>5. ProcessingIsHeld'
  BY <1>1 DEF ProcessingIsHeld
<1> QED
  BY <1>1, <1>2, <1>4, <1>5 DEF PronunciationInv

(* Every step keeps the day.                                                *)
LEMMA DayKeptInOrder ==
  ASSUME PronunciationInv, [PronunciationNext]_pronunciationVars
  PROVE  PronunciationInv'
<1>0. /\ PronunciationTypeOK /\ DayInOrder /\ EngagedHold
      /\ try \in [Attempts -> TryStages] /\ accidents \in 0..MaxAccidents
      /\ cut \in SUBSET Attempts
  BY DEF PronunciationInv, PronunciationTypeOK
<1>r. HasOpen => round[Open] \in Round /\ round[Open].status # "completed"
  BY <1>0, RoundsTyped
<1>a. Accident => accidents' \in 0..MaxAccidents
  BY <1>0, PronunciationAssumption DEF Accident
<1>1. CASE UNCHANGED pronunciationVars
  <2>1. PronunciationTypeOK'
    BY <1>0, <1>1 DEF PronunciationTypeOK, pronunciationVars
  <2> QED
    BY <1>1, <2>1, UnwrittenKeepsDay DEF pronunciationVars, Engaged, AtWorkFor
<1>2. ASSUME NEW t \in TextCalls, CountRounds(t) \/ InsertRound(t)
      PROVE  PronunciationInv'
  <2>1. CASE InsertRound(t) /\ ~HasOpen /\ counted[t] < DailyRounds
    BY <2>1, TextKeepsDay
  <2>2. CASE ~(InsertRound(t) /\ ~HasOpen /\ counted[t] < DailyRounds)
    <3>1. UNCHANGED <<round, try, accidents, cut>>
      BY <1>2, <2>2 DEF CountRounds, InsertRound
    <3>2. Cardinality(Completed) \in Nat
      BY <1>0, RoundsTyped, RoundsCounted
    <3>3. counted' \in [TextCalls -> Nat \cup {NoCount}]
      BY <1>0, <1>2, <3>2 DEF CountRounds, InsertRound, PronunciationTypeOK
    <3>4. PronunciationTypeOK'
      BY <1>0, <3>1, <3>3 DEF PronunciationTypeOK
    <3> QED
      BY <3>1, <3>4, UnwrittenKeepsDay DEF Engaged, AtWorkFor
  <2> QED
    BY <2>1, <2>2
<1>3. ASSUME NEW a \in Attempts, StartTraining(a)
      PROVE  PronunciationInv'
  <2> DEFINE x == [round[Open] EXCEPT !.status = "processing", !.active = a,
                                      !.idle = FALSE]
  <2>1. /\ HasOpen /\ round' = [round EXCEPT ![Open] = x]
        /\ round[Open].status = "processing" => round[Open].idle
        /\ round[Open].status = "processing" \/ Consumed < DailyRounds
        /\ try' = [try EXCEPT ![a] = "token"] /\ UNCHANGED <<counted, accidents, cut>>
    BY <1>3 DEF StartTraining, ReserveRound, Reclaim, Given, Enters
  <2>2. x \in Round /\ x.status = "processing" /\ x.active = a /\ ~x.idle
    BY <1>r, <2>1 DEF Round
  <2>3. \A b \in Attempts : ~Engaged(b)
    BY <1>0, <2>1 DEF EngagedHold, Holds
  <2>4. \A b \in Attempts : Engaged(b)' => b = a
    BY <1>0, <2>1, <2>3 DEF Engaged, AtWorkFor
  <2>5. try' \in [Attempts -> TryStages]
    BY <1>0, <2>1 DEF TryStages
  <2> HIDE DEF x
  <2> QED
    BY <1>0, <2>1, <2>2, <2>4, <2>5, WrittenKeepsDay
<1>4. ASSUME NEW a \in Attempts,
             IssueToken(a) \/ ReadSession(a) \/ AssessInBrowser(a)
             \/ AssessPronunciation(a) \/ Vanish(a)
      PROVE  PronunciationInv'
  <2>1. UNCHANGED round /\ UNCHANGED counted /\ UNCHANGED cut
    BY <1>4 DEF IssueToken, ReadSession, AssessInBrowser, AssessPronunciation, Vanish
  <2>2. accidents' \in 0..MaxAccidents
    BY <1>0, <1>4, <1>a DEF IssueToken, ReadSession, AssessInBrowser,
                            AssessPronunciation, Vanish
  <2>3. \E stage \in TryStages :
          /\ try' = [try EXCEPT ![a] = stage]
          /\ \/ stage \in {"over", "failing"}
             \/ try[a] = "token" /\ stage \in {"started", "compensating"}
             \/ AtWorkFor(a) /\ stage \in {"assessing", "finalizing"}
    BY <1>4 DEF IssueToken, ReadSession, AssessInBrowser, AssessPronunciation, Vanish,
                Enters, TryStages, AtWorkFor
  <2>4. try' \in [Attempts -> TryStages]
    BY <1>0, <2>3
  <2>5. PronunciationTypeOK'
    BY <1>0, <2>1, <2>2, <2>4 DEF PronunciationTypeOK
  <2>6. \A b \in Attempts : Engaged(b)' => Engaged(b)
    BY <1>0, <2>1, <2>3 DEF Engaged, AtWorkFor
  <2> QED
    BY <2>1, <2>5, <2>6, UnwrittenKeepsDay
<1>5. ASSUME NEW a \in Attempts, NEW stage \in {"over", "failing"},
             try' = [try EXCEPT ![a] = stage], UNCHANGED round, UNCHANGED counted,
             UNCHANGED cut,
             accidents' \in 0..MaxAccidents
      PROVE  PronunciationInv'
  <2>1. try' \in [Attempts -> TryStages]
    BY <1>0, <1>5 DEF TryStages
  <2>2. PronunciationTypeOK'
    BY <1>0, <1>5, <2>1 DEF PronunciationTypeOK
  <2>3. \A b \in Attempts : Engaged(b)' => Engaged(b)
    BY <1>0, <1>5 DEF Engaged, AtWorkFor
  <2> QED
    BY <1>5, <2>2, <2>3, UnwrittenKeepsDay
<1>6. ASSUME NEW a \in Attempts, Holds(a), NEW x \in Round,
             try' = [try EXCEPT ![a] = "over"], UNCHANGED counted, UNCHANGED cut,
             accidents' \in 0..MaxAccidents,
             round' = [round EXCEPT ![Open] = x], x.status # "processing",
             x.status = "completed" => x.result = x.active /\ x.result # "none"
      PROVE  PronunciationInv'
  <2>1. \A b \in Attempts : Engaged(b) => b = a
    BY <1>0, <1>6 DEF EngagedHold, Holds
  <2>2. \A b \in Attempts : ~Engaged(b)'
    BY <1>0, <1>6, <2>1 DEF Engaged, AtWorkFor
  <2>3. try' \in [Attempts -> TryStages] /\ HasOpen /\ round[Open].status = "processing"
    BY <1>0, <1>6 DEF TryStages, Holds
  <2> QED
    BY <1>0, <1>6, <2>2, <2>3, WrittenKeepsDay
<1>7. ASSUME NEW a \in Attempts, Compensate(a)
      PROVE  PronunciationInv'
  <2>1. /\ Holds(a) /\ try' = [try EXCEPT ![a] = "over"]
        /\ UNCHANGED counted /\ UNCHANGED cut
    BY <1>0, <1>7 DEF Compensate, EngagedHold, Engaged, Enters
  <2> DEFINE x == [round[Open] EXCEPT !.status = "failed_retryable"]
  <2>2. \/ round' = [round EXCEPT ![Open] = x] /\ UNCHANGED accidents
        \/ Accident /\ UNCHANGED round
    BY <1>7, <2>1 DEF Compensate, Holds
  <2>3. x \in Round /\ x.status \notin {"completed", "processing"}
    BY <1>r, <2>1 DEF Round, Holds
  <2> HIDE DEF x
  <2> QED
    BY <1>0, <1>a, <1>5, <1>6, <2>1, <2>2, <2>3
<1>8. ASSUME NEW a \in Attempts, Finalize(a)
      PROVE  PronunciationInv'
  <2>1. CASE Enters(a, "failing") /\ Accident /\ UNCHANGED round
    BY <1>a, <1>5, <1>8, <2>1 DEF Finalize, Enters
  <2>2. CASE ~Holds(a) /\ Enters(a, "over") /\ UNCHANGED <<accidents, round>>
    BY <1>0, <1>5, <1>8, <2>2 DEF Finalize, Enters
  <2>3. CASE /\ Holds(a) /\ Enters(a, "over") /\ UNCHANGED accidents
             /\ round' = [round EXCEPT ![Open] =
                            [@ EXCEPT !.status = "completed", !.result = a]]
    <3> DEFINE x == [round[Open] EXCEPT !.status = "completed", !.result = a]
    <3>1. round[Open] \in Round /\ round[Open].active = a
      BY <1>r, <2>3 DEF Holds
    <3>2. x \in Round /\ x.result = a /\ x.active = a /\ x.status = "completed"
      BY <3>1 DEF Round
    <3>3. a # "none"
      BY PronunciationAssumption
    <3>4. round' = [round EXCEPT ![Open] = x] /\ try' = [try EXCEPT ![a] = "over"]
          /\ UNCHANGED counted /\ UNCHANGED cut
      BY <1>8, <2>3 DEF Finalize, Enters
    <3> HIDE DEF x
    <3> QED
      BY <1>0, <1>6, <2>3, <3>2, <3>3, <3>4
  <2> QED
    BY <1>8, <2>1, <2>2, <2>3 DEF Finalize
<1>9. ASSUME NEW a \in Attempts, Holds(a)
      PROVE  \E x \in Round : /\ x.status = "failed_retryable"
                              /\ Freed(a) = [round EXCEPT ![Open] = x]
  <2> DEFINE x == [round[Open] EXCEPT !.status = "failed_retryable", !.active = "none",
                                      !.idle = FALSE]
  <2>1. x \in Round /\ x.status = "failed_retryable"
    BY <1>9, <1>r DEF Round, Holds
  <2>2. Freed(a) = [round EXCEPT ![Open] = x]
    BY <1>9 DEF Freed
  <2> QED
    BY <2>1, <2>2
<1>10. ASSUME NEW a \in Attempts, ReleaseSlot(a)
       PROVE  PronunciationInv'
  <2>1. try' = [try EXCEPT ![a] = "over"] /\ UNCHANGED counted /\ UNCHANGED cut
    BY <1>10 DEF ReleaseSlot, Enters
  <2>2. accidents' \in 0..MaxAccidents
    BY <1>0, <1>a, <1>10 DEF ReleaseSlot
  <2>3. CASE UNCHANGED round
    BY <1>5, <2>1, <2>2, <2>3
  <2>4. CASE Holds(a) /\ round' = Freed(a)
    BY <1>6, <1>9, <2>1, <2>2, <2>4
  <2> QED
    BY <1>10, <2>3, <2>4 DEF ReleaseSlot, Freed
<1>11. ASSUME NEW a \in Attempts, ClientLeaves(a)
       PROVE  PronunciationInv'
  <2>1. /\ cut' = cut \cup {a} /\ round' = Freed(a) /\ AtWorkFor(a)
        /\ counted' = counted
        /\ try' = [try EXCEPT ![a] = "over"] \/ UNCHANGED try
    BY <1>11 DEF ClientLeaves, Enters
  <2>2. /\ accidents' \in 0..MaxAccidents /\ cut' \in SUBSET Attempts
        /\ try' \in [Attempts -> TryStages]
    BY <1>0, <1>a, <1>11, <2>1 DEF ClientLeaves, TryStages
  <2>3. \A b \in Attempts : Engaged(b)' => Engaged(b) /\ b # a
    BY <1>0, <2>1 DEF Engaged, AtWorkFor
  <2>4. CASE Holds(a)
    <3>1. PICK x \in Round : x.status = "failed_retryable"
                             /\ round' = [round EXCEPT ![Open] = x]
      BY <1>9, <2>1, <2>4
    <3>2. \A b \in Attempts : ~Engaged(b)'
      BY <1>0, <2>3, <2>4 DEF EngagedHold, Holds
    <3>3. HasOpen
      BY <2>4 DEF Holds
    <3> QED
      BY <2>1, <2>2, <3>1, <3>2, <3>3, WrittenKeepsDay
  <2>5. CASE ~Holds(a)
    <3>1. UNCHANGED round
      BY <2>1, <2>5 DEF Freed
    <3>2. PronunciationTypeOK'
      BY <1>0, <2>1, <2>2, <3>1 DEF PronunciationTypeOK
    <3> QED
      BY <2>3, <3>1, <3>2, UnwrittenKeepsDay
  <2> QED
    BY <2>4, <2>5
<1>12. CASE Late \/ Abandoned
  <2> DEFINE x == [round[Open] EXCEPT !.idle = TRUE]
  <2>1. /\ HasOpen /\ round[Open].status = "processing"
        /\ round' = [round EXCEPT ![Open] = x] /\ UNCHANGED try /\ UNCHANGED counted
        /\ try[round[Open].active] \notin {"token", "compensating"}
        /\ \/ cut' = cut \cup {round[Open].active} /\ Accident
           \/ /\ UNCHANGED <<cut, accidents>>
              /\ try[round[Open].active] = "over"
    BY <1>12 DEF Late, Abandoned, SixMinutes
  <2>2. round[Open].active \in Attempts
    BY <2>1 DEF PronunciationInv, ProcessingIsHeld
  <2>3. x \in Round /\ x.status = "processing" /\ x.active \in Attempts
    BY <1>r, <2>1, <2>2 DEF Round
  <2>4. accidents' \in 0..MaxAccidents /\ cut' \in SUBSET Attempts
    BY <1>0, <1>a, <2>1, <2>2
  <2>5. ASSUME NEW b \in Attempts, Engaged(b)'
        PROVE  FALSE
    <3>1. Engaged(b)
      BY <1>0, <2>1, <2>5 DEF Engaged, AtWorkFor
    <3>2. b = round[Open].active
      BY <1>0, <3>1 DEF EngagedHold, Holds
    <3> QED
      BY <2>1, <2>5, <3>2 DEF Engaged, AtWorkFor
  <2> HIDE DEF x
  <2> QED
    BY <1>0, <2>1, <2>3, <2>4, <2>5, WrittenKeepsDay
<1> QED
  BY <1>1, <1>2, <1>3, <1>4, <1>7, <1>8, <1>10, <1>11, <1>12
  DEF PronunciationNext, Serve

(* The invariant holds from the first text to the last round.               *)
THEOREM PronunciationInvAlways == PronunciationSafety => []PronunciationInv
<1>1. PronunciationInit => PronunciationInv
  <2> SUFFICES ASSUME PronunciationInit PROVE PronunciationInv
    OBVIOUS
  <2>1. round = << >> /\ round \in Seq(Round) /\ Len(round) = 0
    BY EmptySeq DEF PronunciationInit
  <2>2. DOMAIN round = {}
    BY <2>1
  <2>3. /\ try \in [Attempts -> TryStages] /\ cut \in SUBSET Attempts
        /\ counted \in [TextCalls -> Nat \cup {NoCount}]
    BY DEF PronunciationInit, TryStages
  <2>4. accidents \in 0..MaxAccidents
    BY PronunciationAssumption DEF PronunciationInit
  <2>5. DayInOrder
    <3>1. Completed = {} /\ ~HasOpen
      BY <2>1, <2>2 DEF Completed, HasOpen
    <3>2. Consumed = 0
      BY <3>1, FS_EmptySet DEF Consumed
    <3> QED
      BY <2>2, <3>2, PronunciationAssumption DEF DayInOrder
  <2>6. EngagedHold
    BY DEF PronunciationInit, EngagedHold, Engaged, AtWorkFor
  <2>7. ProcessingIsHeld
    BY <2>1 DEF ProcessingIsHeld, HasOpen
  <2> QED
    BY <2>1, <2>3, <2>4, <2>5, <2>6, <2>7 DEF PronunciationInv, PronunciationTypeOK
<1>2. PronunciationInv /\ [PronunciationNext]_pronunciationVars => PronunciationInv'
  BY DayKeptInOrder
<1> QED
  BY <1>1, <1>2, PTL DEF PronunciationSafety

(* No more rounds are assessed than the plan allows, at most the last round *)
(* is open, and a completed one has the result of the attempt that held it. *)
THEOREM PronunciationDayInOrder == PronunciationSafety => []DayInOrder
<1>1. PronunciationInv => DayInOrder
  BY DEF PronunciationInv
<1> QED
  BY <1>1, PronunciationInvAlways, PTL

(* An attempt the server is at work for holds the open round, unless its    *)
(* client left or six minutes overtook it.                                  *)
THEOREM PronunciationNotInVain == PronunciationSafety => []NeverAssessedInVain
<1>1. PronunciationInv => NeverAssessedInVain
  BY DEF PronunciationInv, EngagedHold, Engaged, NeverAssessedInVain
<1> QED
  BY <1>1, PronunciationInvAlways, PTL
-------------------------------------------------------------------------------
(* The rewrites.  While a call holds a fresh reservation it is its turn:    *)
(* nobody else is further than the reservation.  Otherwise whoever is       *)
(* further found the reservation completed.                                 *)
Working == {"write", "submit", "check", "pend", "model", "persist", "settle", "mark",
            "fail"}

Bought == {"persist", "settle", "mark", "complete"}

(* A review whose latest attempt is evaluated can show its evaluation.      *)
EvaluatedIsStored ==
  LatestIs({"evaluated"}) => attempt[Latest].evaluation = "completed"

Unanalysed == attempt # << >> => \/ attempt[Latest].evaluation = "none"
                                 \/ LatestIs({"evaluated"})

Turn(c) ==
  /\ reservation = "reserved"
  /\ call[c].at \notin {"idle", "reserve"}
  /\ \A d \in Calls \ {c} : ~call[d].fresh /\ call[d].at \in {"idle", "reserve"}
  /\ call[c].at \in Working => attempt # << >>
  /\ call[c].at \in {"mark", "complete"} =>
       attempt # << >> /\ attempt[Latest].evaluation = "completed"
  /\ upsets = 0 => /\ call[c].at \notin {"settle", "mark"} => Unanalysed
                   /\ call[c].at \in Working \ {"settle", "mark"} =>
                        attempt[Latest].evaluation = "none"
                   /\ analyses > 0 => call[c].at \in Bought
                   /\ analyses <= 1

Rest ==
  /\ \A c \in Calls : \/ call[c].at \in {"idle", "reserve"}
                      \/ /\ reservation = "completed"
                         /\ call[c].at \in {"latest", "complete", "release"}
  /\ upsets = 0 => /\ Unanalysed
                   /\ analyses > 0 => reservation = "completed"
                   /\ analyses <= 1

RewriteInv ==
  /\ RewriteTypeOK
  /\ EvaluatedIsStored
  /\ CompletedIsStored
  /\ \A c \in Calls : call[c].fresh => Turn(c)
  /\ (\A c \in Calls : ~call[c].fresh) => Rest

(* What a move changes.                                                     *)
LEMMA OneMoves ==
  ASSUME RewriteTypeOK, NEW c \in Calls
  PROVE  /\ \A step \in CallSteps : MovesTo(c, step) =>
              /\ call' \in [Calls -> [at : CallSteps, text : Texts \cup {"none"},
                                      fresh : BOOLEAN]]
              /\ call'[c].at = step /\ call'[c].fresh = call[c].fresh
              /\ \A d \in Calls \ {c} : call'[d] = call[d]
         /\ Ends(c) =>
              /\ call' \in [Calls -> [at : CallSteps, text : Texts \cup {"none"},
                                      fresh : BOOLEAN]]
              /\ call'[c].at = "idle" /\ ~call'[c].fresh
              /\ \A d \in Calls \ {c} : call'[d] = call[d]
         /\ call[c].fresh \in BOOLEAN
<1>1. call \in [Calls -> [at : CallSteps, text : Texts \cup {"none"}, fresh : BOOLEAN]]
  BY DEF RewriteTypeOK
<1>2. ASSUME NEW step \in CallSteps, MovesTo(c, step)
      PROVE  /\ call' \in [Calls -> [at : CallSteps, text : Texts \cup {"none"},
                                     fresh : BOOLEAN]]
             /\ call'[c].at = step /\ call'[c].fresh = call[c].fresh
             /\ \A d \in Calls \ {c} : call'[d] = call[d]
  <2>1. call' = [call EXCEPT ![c] = [call[c] EXCEPT !.at = step]]
    BY <1>1, <1>2 DEF MovesTo
  <2> QED
    BY <1>1, <2>1
<1>3. ASSUME Ends(c)
      PROVE  /\ call' \in [Calls -> [at : CallSteps, text : Texts \cup {"none"},
                                     fresh : BOOLEAN]]
             /\ call'[c].at = "idle" /\ ~call'[c].fresh
             /\ \A d \in Calls \ {c} : call'[d] = call[d]
  BY <1>1, <1>3 DEF Ends, CallSteps
<1> QED
  BY <1>1, <1>2, <1>3

(* The call whose turn it is moves on with its reservation.                 *)
LEMMA TurnGoesOn ==
  ASSUME RewriteInv, NEW c \in Calls, call[c].fresh, NEW step \in CallSteps,
         MovesTo(c, step), step \notin {"idle", "reserve"}, UNCHANGED reservation,
         attempt' \in Seq(Attempt), analyses' \in 0..2, failures' \in 0..MaxFailures,
         upsets' \in 0..MaxUpsets,
         EvaluatedIsStored',
         step \in Working => attempt' # << >>,
         step \in {"mark", "complete"} =>
           attempt' # << >> /\ (attempt[Latest].evaluation)' = "completed",
         upsets' = 0 => /\ step \notin {"settle", "mark"} => Unanalysed'
                        /\ step \in Working \ {"settle", "mark"} =>
                             (attempt[Latest].evaluation)' = "none"
                        /\ analyses' > 0 => step \in Bought
                        /\ analyses' <= 1
  PROVE  RewriteInv'
<1>0. RewriteTypeOK /\ Turn(c)
  BY DEF RewriteInv
<1>1. /\ call' \in [Calls -> [at : CallSteps, text : Texts \cup {"none"},
                              fresh : BOOLEAN]]
      /\ call'[c].at = step /\ call'[c].fresh = call[c].fresh
      /\ \A d \in Calls \ {c} : call'[d] = call[d]
  BY <1>0, OneMoves
<1>2. RewriteTypeOK'
  BY <1>0, <1>1 DEF RewriteTypeOK
<1>3. Turn(c)'
  BY <1>0, <1>1 DEF Turn
<1>4. \A d \in Calls : call'[d].fresh => d = c
  BY <1>0, <1>1 DEF Turn
<1>5. CompletedIsStored'
  BY <1>0 DEF CompletedIsStored, Turn
<1> QED
  BY <1>1, <1>2, <1>3, <1>4, <1>5 DEF RewriteInv

(* The call whose turn it is ends, and what it leaves is at rest.           *)
LEMMA TurnEnds ==
  ASSUME RewriteInv, NEW c \in Calls, call[c].fresh, Ends(c), UNCHANGED attempt,
         analyses' = analyses, failures' \in 0..MaxFailures, upsets' \in 0..MaxUpsets,
         reservation' \in {"none", "reserved", "completed"},
         reservation' = "completed" => call[c].at = "complete",
         upsets' = 0 => /\ upsets = 0
                        /\ call[c].at \in {"complete", "release"}
                        /\ call[c].at = "complete" => reservation' = "completed"
  PROVE  RewriteInv'
<1>0. RewriteTypeOK /\ Turn(c) /\ EvaluatedIsStored
  BY DEF RewriteInv
<1>1. /\ call' \in [Calls -> [at : CallSteps, text : Texts \cup {"none"},
                              fresh : BOOLEAN]]
      /\ call'[c].at = "idle" /\ ~call'[c].fresh
      /\ \A d \in Calls \ {c} : call'[d] = call[d]
  BY <1>0, OneMoves
<1>2. RewriteTypeOK'
  BY <1>0, <1>1 DEF RewriteTypeOK
<1>3. \A d \in Calls : ~call'[d].fresh /\ call'[d].at \in {"idle", "reserve"}
  BY <1>0, <1>1 DEF Turn
<1>4. EvaluatedIsStored' /\ CompletedIsStored'
  BY <1>0 DEF EvaluatedIsStored, CompletedIsStored, LatestIs, Latest, Turn
<1>5. upsets' = 0 => /\ Unanalysed'
                     /\ analyses' > 0 => reservation' = "completed"
                     /\ analyses' <= 1
  <2>1. Unanalysed => Unanalysed'
    BY DEF Unanalysed, LatestIs, Latest
  <2> QED
    BY <1>0, <2>1 DEF Turn, Bought
<1> QED
  BY <1>2, <1>3, <1>4, <1>5 DEF RewriteInv, Rest

(* Somebody who waits for the reservation moves beside the call whose turn  *)
(* it is.                                                                   *)
LEMMA BystanderMoves ==
  ASSUME RewriteInv, RewriteTypeOK', NEW c \in Calls, NEW b \in Calls \ {c},
         call[c].fresh, UNCHANGED <<reservation, attempt, analyses>>,
         \A d \in Calls \ {b} : call'[d] = call[d],
         ~call'[b].fresh, call'[b].at \in {"idle", "reserve"},
         upsets' = 0 => upsets = 0
  PROVE  RewriteInv'
<1>0. Turn(c) /\ EvaluatedIsStored
  BY DEF RewriteInv
<1>1. call'[c] = call[c]
  OBVIOUS
<1>2. \A d \in Calls \ {c} : ~call'[d].fresh /\ call'[d].at \in {"idle", "reserve"}
  BY <1>0 DEF Turn
<1>3. Unanalysed' = Unanalysed
  BY DEF Unanalysed, LatestIs, Latest
<1>4. Turn(c)'
  BY <1>0, <1>1, <1>2, <1>3 DEF Turn, Latest
<1>5. EvaluatedIsStored' /\ CompletedIsStored'
  BY <1>0 DEF EvaluatedIsStored, CompletedIsStored, LatestIs, Latest, Turn
<1> QED
  BY <1>1, <1>2, <1>4, <1>5 DEF RewriteInv

(* Nobody has a fresh reservation before or after.                          *)
LEMMA RestGoesOn ==
  ASSUME RewriteInv, RewriteTypeOK', NEW c \in Calls,
         \A d \in Calls : ~call[d].fresh,
         UNCHANGED <<reservation, attempt, analyses>>,
         \A d \in Calls \ {c} : call'[d] = call[d],
         ~call'[c].fresh,
         \/ call'[c].at \in {"idle", "reserve"}
         \/ reservation = "completed" /\ call'[c].at \in {"latest", "complete", "release"},
         upsets' = 0 => upsets = 0
  PROVE  RewriteInv'
<1>0. Rest /\ EvaluatedIsStored /\ CompletedIsStored
  BY DEF RewriteInv
<1>1. \A d \in Calls : ~call'[d].fresh
  OBVIOUS
<1>2. Unanalysed' = Unanalysed
  BY DEF Unanalysed, LatestIs, Latest
<1>3. Rest'
  BY <1>0, <1>2 DEF Rest
<1>4. EvaluatedIsStored' /\ CompletedIsStored'
  BY <1>0 DEF EvaluatedIsStored, CompletedIsStored, LatestIs, Latest
<1> QED
  BY <1>1, <1>3, <1>4 DEF RewriteInv

(* A write of the latest attempt.                                           *)
LEMMA AttemptWritten ==
  ASSUME RewriteTypeOK, attempt # << >>, NEW x \in Attempt,
         attempt' = [attempt EXCEPT ![Latest] = x]
  PROVE  /\ attempt' \in Seq(Attempt) /\ attempt' # << >>
         /\ attempt'[Latest'] = x
<1>1. attempt \in Seq(Attempt)
  BY DEF RewriteTypeOK
<1>2. /\ attempt' \in Seq(Attempt) /\ attempt' # << >>
      /\ Len(attempt') = Len(attempt)
      /\ attempt'[Len(attempt)] = x
  BY <1>1, LastWritten DEF Latest
<1> QED
  BY <1>2 DEF Latest

(* The latest attempt is an attempt.                                        *)
LEMMA LatestTyped ==
  ASSUME RewriteTypeOK, attempt # << >>
  PROVE  attempt[Latest] \in Attempt
BY EmptySeq, ElementOfSeq DEF RewriteTypeOK, Latest

(* The call whose turn it is writes the latest attempt and moves on.        *)
LEMMA TurnWrites ==
  ASSUME RewriteInv, NEW c \in Calls, call[c].fresh, attempt # << >>,
         NEW x \in Attempt, attempt' = [attempt EXCEPT ![Latest] = x],
         x.status = "evaluated" => x.evaluation = "completed",
         NEW step \in CallSteps, step \notin {"idle", "reserve"}, MovesTo(c, step),
         step \in {"mark", "complete"} => x.evaluation = "completed",
         UNCHANGED <<reservation, analyses, failures, upsets>>,
         upsets = 0 =>
           /\ step \notin {"settle", "mark"} => \/ x.evaluation = "none"
                                                \/ x.status = "evaluated"
           /\ step \in Working \ {"settle", "mark"} => x.evaluation = "none"
           /\ analyses > 0 => step \in Bought
  PROVE  RewriteInv'
<1>0. RewriteTypeOK /\ Turn(c)
  BY DEF RewriteInv
<1>1. attempt' \in Seq(Attempt) /\ attempt' # << >> /\ attempt'[Latest'] = x
  BY <1>0, AttemptWritten
<1>2. EvaluatedIsStored'
  BY <1>1 DEF EvaluatedIsStored, LatestIs
<1>3. x.evaluation = "none" \/ x.status = "evaluated" => Unanalysed'
  BY <1>1 DEF Unanalysed, LatestIs
<1>4. upsets = 0 => analyses <= 1
  BY <1>0 DEF Turn
<1>5. /\ analyses' \in 0..2 /\ failures' \in 0..MaxFailures /\ upsets' \in 0..MaxUpsets
  BY <1>0 DEF RewriteTypeOK
<1> QED
  BY <1>1, <1>2, <1>3, <1>4, <1>5, TurnGoesOn

(* The call whose turn it is moves on and leaves the attempts alone.        *)
LEMMA TurnStays ==
  ASSUME RewriteInv, NEW c \in Calls, call[c].fresh,
         NEW step \in CallSteps, step \notin {"idle", "reserve"}, MovesTo(c, step),
         UNCHANGED <<reservation, attempt>>,
         analyses' \in 0..2, failures' \in 0..MaxFailures, upsets' \in 0..MaxUpsets,
         step \in Working => attempt # << >>,
         step \in {"mark", "complete"} =>
           attempt # << >> /\ attempt[Latest].evaluation = "completed",
         upsets' = 0 => /\ upsets = 0
                        /\ call[c].at \notin {"settle", "mark"}
                        /\ step \in Working \ {"settle", "mark"} =>
                             attempt[Latest].evaluation = "none"
                        /\ analyses' > 0 => step \in Bought
                        /\ analyses' <= 1
  PROVE  RewriteInv'
<1>0. RewriteTypeOK /\ Turn(c) /\ EvaluatedIsStored
  BY DEF RewriteInv
<1>1. attempt' \in Seq(Attempt) /\ (attempt[Latest].evaluation)' = attempt[Latest].evaluation
  BY <1>0 DEF RewriteTypeOK, Latest
<1>2. EvaluatedIsStored' /\ Unanalysed' = Unanalysed
  BY <1>0 DEF EvaluatedIsStored, Unanalysed, LatestIs, Latest
<1>3. upsets' = 0 => Unanalysed'
  BY <1>0, <1>2 DEF Turn
<1> QED
  BY <1>1, <1>2, <1>3, TurnGoesOn

(* What a status written to the latest attempt makes of it.                 *)
LEMMA StatusWritten ==
  ASSUME RewriteTypeOK, attempt # << >>,
         NEW status \in {"submitted", "evaluation_pending", "evaluation_failed", "evaluated"},
         SetStatus(status)
  PROVE  \E x \in Attempt : /\ x.status = status
                            /\ x.evaluation = attempt[Latest].evaluation
                            /\ attempt' = [attempt EXCEPT ![Latest] = x]
<1> DEFINE x == [attempt[Latest] EXCEPT !.status = status]
<1>1. attempt[Latest] \in Attempt
  BY LatestTyped
<1>2. x \in Attempt /\ x.status = status /\ x.evaluation = attempt[Latest].evaluation
  BY <1>1 DEF Attempt
<1>3. attempt' = [attempt EXCEPT ![Latest] = x]
  BY DEF SetStatus
<1> QED
  BY <1>2, <1>3

(* What its turn says of the call.                                          *)
LEMMA TurnSays ==
  ASSUME RewriteInv, NEW c \in Calls, call[c].fresh
  PROVE  /\ reservation = "reserved" /\ RewriteTypeOK
         /\ analyses \in 0..2 /\ failures \in 0..MaxFailures /\ upsets \in 0..MaxUpsets
         /\ call[c].at \notin {"idle", "reserve"}
         /\ call[c].at \in Working => attempt # << >>
         /\ call[c].at \in {"mark", "complete"} =>
              attempt # << >> /\ attempt[Latest].evaluation = "completed"
         /\ attempt # << >> /\ attempt[Latest].status = "evaluated" =>
              attempt[Latest].evaluation = "completed"
         /\ upsets = 0 /\ call[c].at \in Working \ {"settle", "mark"} =>
              attempt[Latest].evaluation = "none"
         /\ upsets = 0 /\ call[c].at \notin {"settle", "mark"} /\ attempt # << >> =>
              \/ attempt[Latest].evaluation = "none"
              \/ attempt[Latest].status = "evaluated"
         /\ upsets = 0 /\ call[c].at \notin Bought => analyses = 0
         /\ upsets = 0 => analyses <= 1
<1>1. RewriteTypeOK /\ Turn(c) /\ EvaluatedIsStored
  BY DEF RewriteInv
<1>2. analyses \in 0..2 /\ failures \in 0..MaxFailures /\ upsets \in 0..MaxUpsets
  BY <1>1 DEF RewriteTypeOK
<1>3. attempt # << >> /\ attempt[Latest].status = "evaluated" =>
        attempt[Latest].evaluation = "completed"
  BY <1>1 DEF EvaluatedIsStored, LatestIs
<1>4. upsets = 0 /\ call[c].at \notin {"settle", "mark"} /\ attempt # << >> =>
        \/ attempt[Latest].evaluation = "none"
        \/ attempt[Latest].status = "evaluated"
  BY <1>1 DEF Turn, Unanalysed, LatestIs
<1>5. upsets = 0 /\ call[c].at \notin Bought => analyses = 0
  BY <1>1, <1>2 DEF Turn
<1> QED
  BY <1>1, <1>2, <1>3, <1>4, <1>5 DEF Turn

(* The writes of the call whose turn it is, up to the model.                *)
LEMMA PreparingKept ==
  ASSUME RewriteInv, NEW c \in Calls, call[c].fresh,
         \/ ReadLatest(c) \/ CreateRewriteAttempt(c) \/ UpdateRewriteText(c)
         \/ SubmitAttempt(c) \/ CheckIdempotency(c) \/ SetPending(c)
  PROVE  RewriteInv'
<1>1. CASE ReadLatest(c)
  <2>1. PICK step \in {"complete", "check", "write", "create"} :
          /\ MovesTo(c, step)
          /\ step = "complete" => LatestIs({"evaluated"})
          /\ step \in {"check", "write"} => attempt # << >> /\ ~LatestIs({"evaluated"})
    BY <1>1 DEF ReadLatest, LatestIs, Reusable
  <2>2. /\ call[c].at = "latest"
        /\ UNCHANGED <<reservation, attempt, analyses, failures, upsets>>
    BY <1>1 DEF ReadLatest, In
  <2>3. step = "complete" => attempt # << >> /\ attempt[Latest].evaluation = "completed"
    BY <2>1, TurnSays DEF LatestIs
  <2>4. upsets = 0 => analyses = 0
    BY <2>2, TurnSays DEF Bought
  <2>5. upsets = 0 /\ step \in {"check", "write"} => attempt[Latest].evaluation = "none"
    BY <2>1, <2>2, TurnSays DEF LatestIs
  <2>6. step \in CallSteps /\ step \notin {"idle", "reserve", "settle", "mark"}
    BY DEF CallSteps
  <2>7. step \in Working => step \in {"check", "write"}
    BY DEF Working
  <2>8. analyses' \in 0..2 /\ failures' \in 0..MaxFailures /\ upsets' \in 0..MaxUpsets
    BY <2>2, TurnSays
  <2> QED
    BY <2>1, <2>2, <2>3, <2>4, <2>5, <2>6, <2>7, <2>8, TurnStays
<1>2. CASE CreateRewriteAttempt(c)
  <2>1. /\ attempt' = Append(attempt, Draft) /\ MovesTo(c, "write")
        /\ call[c].at = "create"
        /\ UNCHANGED <<reservation, analyses, failures, upsets>>
    BY <1>2 DEF CreateRewriteAttempt, In
  <2>2. Draft \in Attempt /\ Draft.status = "draft" /\ Draft.evaluation = "none"
    BY DEF Draft, Attempt
  <2>3. attempt \in Seq(Attempt)
    BY TurnSays DEF RewriteTypeOK
  <2>4. attempt' \in Seq(Attempt) /\ attempt' # << >> /\ attempt'[Latest'] = Draft
    BY <2>1, <2>2, <2>3, AppendProperties DEF Latest
  <2>5. EvaluatedIsStored' /\ Unanalysed'
    BY <2>2, <2>4 DEF EvaluatedIsStored, LatestIs, Unanalysed
  <2>6. upsets = 0 => analyses = 0
    BY <2>1, TurnSays DEF Bought
  <2>7. analyses' \in 0..2 /\ failures' \in 0..MaxFailures /\ upsets' \in 0..MaxUpsets
    BY <2>1, TurnSays
  <2>8. (attempt[Latest].evaluation)' = "none"
    BY <2>2, <2>4
  <2> QED
    BY <2>1, <2>4, <2>5, <2>6, <2>7, <2>8, TurnGoesOn DEF CallSteps
<1>3. CASE UpdateRewriteText(c)
  <2> DEFINE x == [attempt[Latest] EXCEPT !.text = call[c].text]
  <2>1. /\ attempt' = [attempt EXCEPT ![Latest] = x] /\ MovesTo(c, "submit")
        /\ call[c].at = "write"
        /\ UNCHANGED <<reservation, analyses, failures, upsets>>
    BY <1>3 DEF UpdateRewriteText, In
  <2>2. attempt # << >>
    BY <2>1, TurnSays DEF Working
  <2>3. attempt[Latest] \in Attempt /\ call[c].text \in Texts \cup {"none"}
    BY <2>2, TurnSays, LatestTyped DEF RewriteTypeOK
  <2>4. /\ x \in Attempt /\ x.status = attempt[Latest].status
        /\ x.evaluation = attempt[Latest].evaluation
    BY <2>3 DEF Attempt
  <2>5. x.status = "evaluated" => x.evaluation = "completed"
    BY <2>2, <2>4, TurnSays
  <2>6. upsets = 0 => analyses = 0 /\ x.evaluation = "none"
    BY <2>1, <2>4, TurnSays DEF Bought, Working
  <2>7. "submit" \in CallSteps /\ "submit" \notin {"idle", "reserve", "mark", "complete"}
    BY DEF CallSteps
  <2>8. 0 \in Int /\ ~(0 > 0)
    OBVIOUS
  <2> HIDE DEF x
  <2>9. upsets = 0 =>
           /\ "submit" \notin {"settle", "mark"} => \/ x.evaluation = "none"
                                                    \/ x.status = "evaluated"
           /\ "submit" \in Working \ {"settle", "mark"} => x.evaluation = "none"
           /\ analyses > 0 => "submit" \in Bought
    BY <2>6, <2>8
  <2> QED
    BY <2>1, <2>2, <2>4, <2>5, <2>7, <2>9, TurnWrites
<1>4. CASE SubmitAttempt(c)
  <2>1. /\ SetStatus("submitted") /\ MovesTo(c, "check") /\ call[c].at = "submit"
        /\ UNCHANGED <<reservation, analyses, failures, upsets>>
    BY <1>4 DEF SubmitAttempt, In
  <2>2. attempt # << >> /\ RewriteTypeOK
    BY <2>1, TurnSays DEF Working
  <2>3. PICK x \in Attempt : /\ x.status = "submitted"
                             /\ x.evaluation = attempt[Latest].evaluation
                             /\ attempt' = [attempt EXCEPT ![Latest] = x]
    BY <2>1, <2>2, StatusWritten
  <2>4. upsets = 0 => ~(analyses > 0) /\ x.evaluation = "none"
    BY <2>1, <2>3, TurnSays DEF Bought, Working
  <2> QED
    BY <2>1, <2>2, <2>3, <2>4, TurnWrites DEF CallSteps
<1>5. CASE CheckIdempotency(c)
  <2>1. PICK step \in {"complete", "pend"} :
          /\ MovesTo(c, step)
          /\ step = "complete" <=> attempt[Latest].evaluation = "completed"
    BY <1>5 DEF CheckIdempotency
  <2>2. /\ call[c].at = "check"
        /\ UNCHANGED <<reservation, attempt, analyses, failures, upsets>>
    BY <1>5 DEF CheckIdempotency, In
  <2>3. attempt # << >>
    BY <2>2, TurnSays DEF Working
  <2>4. upsets = 0 => analyses = 0 /\ attempt[Latest].evaluation = "none"
    BY <2>2, TurnSays DEF Bought, Working
  <2>5. step \in CallSteps /\ step \notin {"idle", "reserve"}
    BY DEF CallSteps
  <2>6. analyses' \in 0..2 /\ failures' \in 0..MaxFailures /\ upsets' \in 0..MaxUpsets
    BY <2>2, TurnSays
  <2> QED
    BY <2>1, <2>2, <2>3, <2>4, <2>5, <2>6, TurnStays
<1>6. CASE SetPending(c)
  <2>1. /\ SetStatus("evaluation_pending") /\ MovesTo(c, "model") /\ call[c].at = "pend"
        /\ UNCHANGED <<reservation, analyses, failures, upsets>>
    BY <1>6 DEF SetPending, In
  <2>2. attempt # << >> /\ RewriteTypeOK
    BY <2>1, TurnSays DEF Working
  <2>3. PICK x \in Attempt : /\ x.status = "evaluation_pending"
                             /\ x.evaluation = attempt[Latest].evaluation
                             /\ attempt' = [attempt EXCEPT ![Latest] = x]
    BY <2>1, <2>2, StatusWritten
  <2>4. upsets = 0 => ~(analyses > 0) /\ x.evaluation = "none"
    BY <2>1, <2>3, TurnSays DEF Bought, Working
  <2> QED
    BY <2>1, <2>2, <2>3, <2>4, TurnWrites DEF CallSteps
<1> QED
  BY <1>1, <1>2, <1>3, <1>4, <1>5, <1>6

(* The model's answer, and what is stored of it.                            *)
LEMMA StoringKept ==
  ASSUME RewriteInv, NEW c \in Calls, call[c].fresh,
         \/ ModelAnswers(c) \/ ModelFails(c) \/ PersistEvaluation(c)
         \/ SettleEvaluation(c) \/ MarkEvaluated(c)
  PROVE  RewriteInv'
<1>0. MaxFailures \in Nat
  BY RewriteAssumption
<1>1. CASE ModelAnswers(c)
  <2>1. /\ MovesTo(c, "persist") /\ call[c].at = "model"
        /\ analyses' = IF analyses < 2 THEN analyses + 1 ELSE 2
        /\ UNCHANGED <<reservation, attempt, failures, upsets>>
    BY <1>1 DEF ModelAnswers, In
  <2>2. attempt # << >>
    BY <2>1, TurnSays DEF Working
  <2>3. upsets = 0 => analyses = 0 /\ attempt[Latest].evaluation = "none"
    BY <2>1, TurnSays DEF Bought, Working
  <2>4. analyses \in 0..2
    BY TurnSays
  <2>5. analyses' \in 0..2 /\ (analyses = 0 => analyses' <= 1)
    BY <2>1, <2>4
  <2>6. failures' \in 0..MaxFailures /\ upsets' \in 0..MaxUpsets
    BY <2>1, TurnSays
  <2> QED
    BY <2>1, <2>2, <2>3, <2>5, <2>6, TurnStays DEF CallSteps, Bought
<1>2. CASE ModelFails(c)
  <2>1. /\ MovesTo(c, "fail") /\ call[c].at = "model"
        /\ failures < MaxFailures /\ failures' = failures + 1
        /\ UNCHANGED <<reservation, attempt, analyses, upsets>>
    BY <1>2 DEF ModelFails, In
  <2>2. attempt # << >>
    BY <2>1, TurnSays DEF Working
  <2>3. upsets = 0 => analyses = 0 /\ attempt[Latest].evaluation = "none"
    BY <2>1, TurnSays DEF Bought, Working
  <2>4. failures \in 0..MaxFailures
    BY TurnSays
  <2>5. failures' \in 0..MaxFailures
    BY <1>0, <2>1, <2>4
  <2>6. analyses' \in 0..2 /\ upsets' \in 0..MaxUpsets
    BY <2>1, TurnSays
  <2> QED
    BY <2>1, <2>2, <2>3, <2>5, <2>6, TurnStays DEF CallSteps
<1>3. CASE PersistEvaluation(c)
  <2>1. call[c].at = "persist" /\ UNCHANGED <<reservation, analyses, failures, upsets>>
    BY <1>3 DEF PersistEvaluation, In
  <2>2. attempt # << >> /\ RewriteTypeOK
    BY <2>1, TurnSays DEF Working
  <2>3. upsets = 0 => attempt[Latest].evaluation = "none"
    BY <2>1, TurnSays DEF Working
  <2>4. CASE attempt[Latest].evaluation = "none"
    <3> DEFINE x == [attempt[Latest] EXCEPT !.evaluation = "pending"]
    <3>1. attempt' = [attempt EXCEPT ![Latest] = x] /\ MovesTo(c, "settle")
      BY <1>3, <2>4 DEF PersistEvaluation
    <3>2. attempt[Latest] \in Attempt
      BY <2>2, LatestTyped
    <3>3. x \in Attempt /\ x.status = attempt[Latest].status
      BY <3>2 DEF Attempt
    <3>4. x.status # "evaluated"
      BY <2>2, <2>4, <3>3, TurnSays
    <3>5. /\ "settle" \in CallSteps /\ "settle" \in Bought
          /\ "settle" \notin {"idle", "reserve", "mark", "complete"}
      BY DEF CallSteps, Bought
    <3> HIDE DEF x
    <3> QED
      BY <2>1, <2>2, <3>1, <3>3, <3>4, <3>5, TurnWrites
  <2>5. CASE attempt[Latest].evaluation # "none"
    <3>1. MovesTo(c, "fail") /\ UNCHANGED attempt
      BY <1>3, <2>5 DEF PersistEvaluation
    <3>2. analyses' \in 0..2 /\ failures' \in 0..MaxFailures /\ upsets' \in 0..MaxUpsets
      BY <2>1, TurnSays
    <3>3. ~(upsets' = 0)
      BY <2>1, <2>3, <2>5
    <3> QED
      BY <2>1, <2>2, <3>1, <3>2, <3>3, TurnStays DEF CallSteps
  <2> QED
    BY <2>4, <2>5
<1>4. CASE SettleEvaluation(c)
  <2> DEFINE x == [attempt[Latest] EXCEPT !.evaluation = "completed"]
  <2>1. /\ attempt' = [attempt EXCEPT ![Latest] = x] /\ MovesTo(c, "mark")
        /\ call[c].at = "settle"
        /\ UNCHANGED <<reservation, analyses, failures, upsets>>
    BY <1>4 DEF SettleEvaluation, In
  <2>2. attempt # << >> /\ RewriteTypeOK
    BY <2>1, TurnSays DEF Working
  <2>3. attempt[Latest] \in Attempt
    BY <2>2, LatestTyped
  <2>4. x \in Attempt /\ x.evaluation = "completed"
    BY <2>3 DEF Attempt
  <2>5. "mark" \in CallSteps /\ "mark" \in Bought /\ "mark" \notin {"idle", "reserve"}
    BY DEF CallSteps, Bought
  <2> HIDE DEF x
  <2> QED
    BY <2>1, <2>2, <2>4, <2>5, TurnWrites
<1>5. CASE MarkEvaluated(c)
  <2>1. /\ SetStatus("evaluated") /\ MovesTo(c, "complete") /\ call[c].at = "mark"
        /\ UNCHANGED <<reservation, analyses, failures, upsets>>
    BY <1>5 DEF MarkEvaluated, In
  <2>2. attempt # << >> /\ RewriteTypeOK /\ attempt[Latest].evaluation = "completed"
    BY <2>1, TurnSays
  <2>3. PICK x \in Attempt : /\ x.status = "evaluated"
                             /\ x.evaluation = attempt[Latest].evaluation
                             /\ attempt' = [attempt EXCEPT ![Latest] = x]
    BY <2>1, <2>2, StatusWritten
  <2>4. "complete" \in CallSteps /\ "complete" \in Bought /\ "complete" \notin Working
    BY DEF CallSteps, Bought, Working
  <2> QED
    BY <2>1, <2>2, <2>3, <2>4, TurnWrites
<1> QED
  BY <1>1, <1>2, <1>3, <1>4, <1>5

(* The ways a turn ends.                                                    *)
LEMMA EndingKept ==
  ASSUME RewriteInv, NEW c \in Calls, call[c].fresh,
         \/ EvaluationFails(c) \/ CompleteReservation(c) \/ ReleaseReservation(c)
         \/ DatabaseFails(c) \/ CallDies(c)
  PROVE  RewriteInv'
<1>0. MaxUpsets \in Nat
  BY RewriteAssumption
<1>1. CASE EvaluationFails(c)
  <2>1. /\ SetStatus("evaluation_failed") /\ MovesTo(c, "release") /\ call[c].at = "fail"
        /\ UNCHANGED <<reservation, analyses, failures, upsets>>
    BY <1>1 DEF EvaluationFails, In, Throws
  <2>2. attempt # << >> /\ RewriteTypeOK
    BY <2>1, TurnSays DEF Working
  <2>3. PICK x \in Attempt : /\ x.status = "evaluation_failed"
                             /\ x.evaluation = attempt[Latest].evaluation
                             /\ attempt' = [attempt EXCEPT ![Latest] = x]
    BY <2>1, <2>2, StatusWritten
  <2>4. upsets = 0 => ~(analyses > 0) /\ x.evaluation = "none"
    BY <2>1, <2>3, TurnSays DEF Bought, Working
  <2> QED
    BY <2>1, <2>2, <2>3, <2>4, TurnWrites DEF CallSteps
<1>2. CASE CompleteReservation(c)
  <2>1. /\ Ends(c) /\ call[c].at = "complete" /\ reservation' = "completed"
        /\ UNCHANGED <<attempt, analyses, failures, upsets>>
    BY <1>2, TurnSays DEF CompleteReservation, In
  <2>2. failures' \in 0..MaxFailures /\ upsets' \in 0..MaxUpsets
    BY <2>1, TurnSays
  <2> QED
    BY <2>1, <2>2, TurnEnds
<1>3. CASE ReleaseReservation(c)
  <2>1. /\ Ends(c) /\ call[c].at = "release" /\ reservation' = "none"
        /\ UNCHANGED <<attempt, analyses, failures, upsets>>
    BY <1>3, TurnSays DEF ReleaseReservation, In
  <2>2. failures' \in 0..MaxFailures /\ upsets' \in 0..MaxUpsets
    BY <2>1, TurnSays
  <2> QED
    BY <2>1, <2>2, TurnEnds
<1>4. ASSUME upsets < MaxUpsets, upsets' = upsets + 1,
             UNCHANGED <<reservation, attempt, analyses, failures>>
      PROVE  /\ Ends(c) => RewriteInv'
             /\ MovesTo(c, "release") => RewriteInv'
             /\ MovesTo(c, "fail") /\ attempt # << >> => RewriteInv'
  <2>1. upsets \in 0..MaxUpsets
    BY TurnSays
  <2>2. upsets' \in 0..MaxUpsets /\ ~(upsets' = 0)
    BY <1>0, <1>4, <2>1
  <2>3. analyses' \in 0..2 /\ failures' \in 0..MaxFailures /\ reservation = "reserved"
    BY <1>4, TurnSays
  <2>4. Ends(c) => RewriteInv'
    BY <1>4, <2>2, <2>3, TurnEnds
  <2>5. MovesTo(c, "release") => RewriteInv'
    <3>1. "release" \in CallSteps /\ "release" \notin Working
      BY DEF CallSteps, Working
    <3> QED
      BY <1>4, <2>2, <2>3, <3>1, TurnStays
  <2>6. MovesTo(c, "fail") /\ attempt # << >> => RewriteInv'
    <3>1. "fail" \in CallSteps
      BY DEF CallSteps
    <3> QED
      BY <1>4, <2>2, <2>3, <3>1, TurnStays
  <2> QED
    BY <2>4, <2>5, <2>6
<1>5. CASE DatabaseFails(c)
  <2>1. /\ upsets < MaxUpsets /\ upsets' = upsets + 1
        /\ UNCHANGED <<reservation, attempt, analyses, failures>>
    BY <1>5 DEF DatabaseFails
  <2>2. \/ Ends(c)
        \/ call[c].at \in {"persist", "settle"} /\ MovesTo(c, "fail")
        \/ MovesTo(c, "release")
    BY <1>5 DEF DatabaseFails, Throws
  <2>3. call[c].at \in {"persist", "settle"} => attempt # << >>
    BY TurnSays DEF Working
  <2> QED
    BY <1>4, <2>1, <2>2, <2>3
<1>6. CASE CallDies(c)
  BY <1>4, <1>6 DEF CallDies
<1> QED
  BY <1>1, <1>2, <1>3, <1>5, <1>6

(* Whoever has no fresh reservation cannot move the one who has.            *)
LEMMA BystanderKept ==
  ASSUME RewriteInv, NEW c \in Calls, NEW b \in Calls \ {c}, call[c].fresh,
         Submitting(b) \/ Evaluate(b) \/ ModelFails(b) \/ DatabaseFails(b) \/ CallDies(b)
  PROVE  RewriteInv'
<1>1. /\ reservation = "reserved" /\ RewriteTypeOK
      /\ ~call[b].fresh /\ call[b].at \in {"idle", "reserve"}
  BY DEF RewriteInv, Turn
<1>2. upsets \in 0..MaxUpsets /\ MaxUpsets \in Nat
  BY <1>1, RewriteAssumption DEF RewriteTypeOK
<1>3. /\ UNCHANGED <<reservation, attempt, analyses, failures>>
      /\ upsets' = upsets \/ (upsets < MaxUpsets /\ upsets' = upsets + 1)
      /\ Ends(b) \/ Submitting(b)
  <2>1. CASE Submitting(b)
    <3>1. UNCHANGED <<reservation, attempt, analyses, failures, upsets>>
      BY <2>1 DEF Submitting, Submit
    <3> QED
      BY <2>1, <3>1
  <2>2. CASE Evaluate(b)
    <3>1. /\ ~ReadLatest(b) /\ ~CreateRewriteAttempt(b) /\ ~UpdateRewriteText(b)
          /\ ~SubmitAttempt(b) /\ ~CheckIdempotency(b) /\ ~SetPending(b)
          /\ ~ModelAnswers(b) /\ ~PersistEvaluation(b) /\ ~SettleEvaluation(b)
          /\ ~MarkEvaluated(b) /\ ~EvaluationFails(b) /\ ~CompleteReservation(b)
          /\ ~ReleaseReservation(b)
      BY <1>1 DEF ReadLatest, CreateRewriteAttempt, UpdateRewriteText, SubmitAttempt,
        CheckIdempotency, SetPending, ModelAnswers, PersistEvaluation,
        SettleEvaluation, MarkEvaluated, EvaluationFails, CompleteReservation,
        ReleaseReservation, In
    <3>2. ReserveRewrite(b)
      BY <2>2, <3>1 DEF Evaluate
    <3>3. Ends(b) /\ UNCHANGED <<reservation, attempt, analyses, failures, upsets>>
      BY <1>1, <3>2 DEF ReserveRewrite
    <3> QED
      BY <3>3
  <2>3. ~ModelFails(b)
    BY <1>1 DEF ModelFails, In
  <2>4. CASE DatabaseFails(b)
    BY <1>1, <2>4 DEF DatabaseFails
  <2>5. CASE CallDies(b)
    BY <2>5 DEF CallDies
  <2> QED
    BY <2>1, <2>2, <2>3, <2>4, <2>5
<1>4. upsets' \in 0..MaxUpsets /\ (upsets' = 0 => upsets = 0)
  BY <1>2, <1>3
<1>5. /\ call' \in [Calls -> [at : CallSteps, text : Texts \cup {"none"}, fresh : BOOLEAN]]
      /\ ~call'[b].fresh /\ call'[b].at \in {"idle", "reserve"}
      /\ \A d \in Calls \ {b} : call'[d] = call[d]
  <2>1. CASE Ends(b)
    BY <1>1, <2>1, OneMoves
  <2>2. CASE Submitting(b)
    BY <1>1, <2>2 DEF Submitting, Submit, RewriteTypeOK, CallSteps
  <2> QED
    BY <1>3, <2>1, <2>2
<1>6. RewriteTypeOK'
  BY <1>1, <1>3, <1>4, <1>5 DEF RewriteTypeOK
<1> QED
  BY <1>1, <1>3, <1>4, <1>5, <1>6, BystanderMoves

(* A call that finds no reservation takes its turn.                         *)
LEMMA TurnTaken ==
  ASSUME RewriteInv, NEW c \in Calls, \A d \in Calls : ~call[d].fresh,
         reservation = "none", reservation' = "reserved",
         call' = [call EXCEPT ![c].at = "latest", ![c].fresh = TRUE],
         UNCHANGED <<attempt, analyses, failures, upsets>>
  PROVE  RewriteInv'
<1>1. RewriteTypeOK /\ Rest /\ EvaluatedIsStored
  BY DEF RewriteInv
<1>2. /\ call' \in [Calls -> [at : CallSteps, text : Texts \cup {"none"}, fresh : BOOLEAN]]
      /\ call'[c].at = "latest" /\ call'[c].fresh
      /\ \A d \in Calls \ {c} : call'[d] = call[d]
  <2>1. /\ call' = [call EXCEPT ![c] = [call[c] EXCEPT !.at = "latest", !.fresh = TRUE]]
        /\ call \in [Calls -> [at : CallSteps, text : Texts \cup {"none"}, fresh : BOOLEAN]]
    BY <1>1 DEF RewriteTypeOK
  <2> QED
    BY <2>1 DEF CallSteps
<1>3. RewriteTypeOK'
  BY <1>1, <1>2 DEF RewriteTypeOK
<1>4. EvaluatedIsStored' /\ Unanalysed' = Unanalysed
  BY <1>1 DEF EvaluatedIsStored, Unanalysed, LatestIs, Latest
<1>5. \A d \in Calls \ {c} : ~call'[d].fresh /\ call'[d].at \in {"idle", "reserve"}
  BY <1>1, <1>2 DEF Rest
<1>6. upsets' = 0 => Unanalysed' /\ ~(analyses' > 0) /\ analyses' <= 1
  BY <1>1, <1>4 DEF Rest
<1>7. "latest" \notin Working
  BY DEF Working
<1>8. Turn(c)'
  BY <1>2, <1>5, <1>6, <1>7 DEF Turn
<1> QED
  BY <1>2, <1>3, <1>4, <1>5, <1>8 DEF RewriteInv, CompletedIsStored

(* Without a fresh reservation a call only replays, or gives up.            *)
LEMMA RestKept ==
  ASSUME RewriteInv, NEW c \in Calls, \A d \in Calls : ~call[d].fresh,
         Submitting(c) \/ Evaluate(c) \/ ModelFails(c) \/ DatabaseFails(c) \/ CallDies(c)
  PROVE  RewriteInv'
<1>1. /\ RewriteTypeOK /\ Rest /\ ~call[c].fresh
      /\ upsets \in 0..MaxUpsets /\ MaxUpsets \in Nat
      /\ call \in [Calls -> [at : CallSteps, text : Texts \cup {"none"}, fresh : BOOLEAN]]
  BY RewriteAssumption DEF RewriteInv, RewriteTypeOK
<1>2. \/ call[c].at \in {"idle", "reserve"}
      \/ reservation = "completed" /\ call[c].at \in {"latest", "complete", "release"}
  BY <1>1 DEF Rest
<1>3. ASSUME UNCHANGED <<reservation, attempt, analyses, failures>>,
             upsets' = upsets \/ (upsets < MaxUpsets /\ upsets' = upsets + 1),
             \/ Ends(c) \/ Submitting(c)
             \/ /\ reservation = "completed"
                /\ MovesTo(c, "latest") \/ MovesTo(c, "complete") \/ MovesTo(c, "release")
      PROVE  RewriteInv'
  <2>1. upsets' \in 0..MaxUpsets /\ (upsets' = 0 => upsets = 0)
    BY <1>1, <1>3
  <2>2. /\ call' \in [Calls -> [at : CallSteps, text : Texts \cup {"none"},
                                fresh : BOOLEAN]]
        /\ ~call'[c].fresh
        /\ \A d \in Calls \ {c} : call'[d] = call[d]
        /\ \/ call'[c].at \in {"idle", "reserve"}
           \/ /\ reservation = "completed"
              /\ call'[c].at \in {"latest", "complete", "release"}
    <3>1. CASE Ends(c)
      BY <1>1, <3>1, OneMoves
    <3>2. CASE Submitting(c)
      BY <1>1, <3>2 DEF Submitting, Submit, CallSteps
    <3>3. CASE /\ reservation = "completed"
               /\ MovesTo(c, "latest") \/ MovesTo(c, "complete") \/ MovesTo(c, "release")
      <4>1. PICK step \in {"latest", "complete", "release"} : MovesTo(c, step)
        BY <3>3
      <4>2. step \in CallSteps
        BY DEF CallSteps
      <4> QED
        BY <1>1, <3>3, <4>1, <4>2, OneMoves
    <3> QED
      BY <1>3, <3>1, <3>2, <3>3
  <2>3. RewriteTypeOK'
    BY <1>1, <1>3, <2>1, <2>2 DEF RewriteTypeOK
  <2> QED
    BY <1>3, <2>1, <2>2, <2>3, RestGoesOn
<1>4. CASE Submitting(c)
  <2>1. UNCHANGED <<reservation, attempt, analyses, failures, upsets>>
    BY <1>4 DEF Submitting, Submit
  <2> QED
    BY <1>3, <1>4, <2>1
<1>5. CASE Evaluate(c)
  <2>1. /\ ~CreateRewriteAttempt(c) /\ ~UpdateRewriteText(c)
        /\ ~SubmitAttempt(c) /\ ~CheckIdempotency(c) /\ ~SetPending(c)
        /\ ~ModelAnswers(c) /\ ~PersistEvaluation(c) /\ ~SettleEvaluation(c)
        /\ ~MarkEvaluated(c) /\ ~EvaluationFails(c)
    BY <1>2 DEF CreateRewriteAttempt, UpdateRewriteText, SubmitAttempt,
      CheckIdempotency, SetPending, ModelAnswers, PersistEvaluation,
      SettleEvaluation, MarkEvaluated, EvaluationFails, In
  <2>2. CASE ReserveRewrite(c)
    <3>1. CASE reservation = "none"
      BY <2>2, <3>1, TurnTaken DEF ReserveRewrite
    <3>2. CASE reservation # "none"
      <4>1. /\ UNCHANGED <<reservation, attempt, analyses, failures, upsets>>
            /\ Ends(c) \/ (reservation = "completed" /\ MovesTo(c, "latest"))
        BY <2>2, <3>2 DEF ReserveRewrite
      <4> QED
        BY <1>3, <4>1
    <3> QED
      BY <3>1, <3>2
  <2>3. CASE ReadLatest(c)
    <3>1. /\ UNCHANGED <<reservation, attempt, analyses, failures, upsets>>
          /\ MovesTo(c, "complete") \/ MovesTo(c, "release")
          /\ call[c].at = "latest"
      BY <1>1, <2>3 DEF ReadLatest, In
    <3>2. reservation = "completed"
      BY <1>2, <3>1
    <3> QED
      BY <1>3, <3>1, <3>2
  <2>4. CASE CompleteReservation(c)
    <3>1. /\ UNCHANGED <<attempt, analyses, failures, upsets>> /\ Ends(c)
          /\ call[c].at = "complete"
          /\ reservation # "reserved" => reservation' = reservation
      BY <2>4 DEF CompleteReservation, In
    <3>2. reservation = "completed"
      BY <1>2, <3>1
    <3> QED
      BY <1>3, <3>1, <3>2
  <2>5. CASE ReleaseReservation(c)
    <3>1. /\ UNCHANGED <<attempt, analyses, failures, upsets>> /\ Ends(c)
          /\ call[c].at = "release"
          /\ reservation # "reserved" => reservation' = reservation
      BY <2>5 DEF ReleaseReservation, In
    <3>2. reservation = "completed"
      BY <1>2, <3>1
    <3> QED
      BY <1>3, <3>1, <3>2
  <2> QED
    BY <1>5, <2>1, <2>2, <2>3, <2>4, <2>5 DEF Evaluate
<1>6. ~ModelFails(c)
  BY <1>2 DEF ModelFails, In
<1>7. CASE DatabaseFails(c)
  <2>1. /\ upsets < MaxUpsets /\ upsets' = upsets + 1
        /\ UNCHANGED <<reservation, attempt, analyses, failures>>
    BY <1>7 DEF DatabaseFails
  <2>2. Ends(c)
    BY <1>1, <1>2, <1>7 DEF DatabaseFails, Throws
  <2> QED
    BY <1>3, <2>1, <2>2
<1>8. CASE CallDies(c)
  BY <1>3, <1>8 DEF CallDies
<1> QED
  BY <1>4, <1>5, <1>6, <1>7, <1>8

(* The rewrites' invariant holds in every reachable state.                  *)
THEOREM RewriteInvAlways == RewriteSafety => []RewriteInv
<1>1. RewriteInit => RewriteInv
  <2> SUFFICES ASSUME RewriteInit PROVE RewriteInv
    OBVIOUS
  <2>1. /\ reservation = "none" /\ analyses = 0 /\ failures = 0 /\ upsets = 0
        /\ \A c \in Calls : call[c].at = "idle" /\ ~call[c].fresh
        /\ call \in [Calls -> [at : CallSteps, text : Texts \cup {"none"},
                               fresh : BOOLEAN]]
    BY DEF RewriteInit, CallSteps
  <2>2. CASE attempt = << >>
    <3>1. RewriteTypeOK
      BY <2>1, <2>2, RewriteAssumption DEF RewriteTypeOK
    <3> QED
      BY <2>1, <2>2, <3>1 DEF RewriteInv, Rest, Unanalysed, EvaluatedIsStored,
        CompletedIsStored, LatestIs
  <2>3. CASE \E t \in Texts : attempt = <<Legacy(t)>>
    <3>1. PICK t \in Texts : attempt = <<Legacy(t)>>
      BY <2>3
    <3>2. /\ Legacy(t) \in Attempt /\ Legacy(t).status = "evaluated"
          /\ Legacy(t).evaluation = "completed"
      BY DEF Legacy, Attempt
    <3>3. attempt \in Seq(Attempt) /\ attempt # << >> /\ attempt[Latest] = Legacy(t)
      BY <3>1, <3>2 DEF Latest
    <3>4. RewriteTypeOK
      BY <2>1, <3>3, RewriteAssumption DEF RewriteTypeOK
    <3> QED
      BY <2>1, <3>2, <3>3, <3>4 DEF RewriteInv, Rest, Unanalysed, EvaluatedIsStored,
        CompletedIsStored, LatestIs
  <2> QED
    BY <2>2, <2>3 DEF RewriteInit
<1>2. RewriteInv /\ [RewriteNext]_rewriteVars => RewriteInv'
  <2> SUFFICES ASSUME RewriteInv, [RewriteNext]_rewriteVars PROVE RewriteInv'
    OBVIOUS
  <2>1. CASE UNCHANGED rewriteVars
    BY <2>1 DEF rewriteVars, RewriteInv, RewriteTypeOK, EvaluatedIsStored,
      CompletedIsStored, Turn, Rest, Unanalysed, LatestIs, Latest
  <2>2. CASE RewriteNext
    <3>1. PICK b \in Calls : \/ Submitting(b) \/ Evaluate(b)
                             \/ ModelFails(b) \/ DatabaseFails(b) \/ CallDies(b)
      BY <2>2 DEF RewriteNext
    <3>2. CASE \A d \in Calls : ~call[d].fresh
      BY <3>1, <3>2, RestKept
    <3>3. CASE \E d \in Calls \ {b} : call[d].fresh
      <4>1. PICK d \in Calls \ {b} : call[d].fresh
        BY <3>3
      <4>2. b \in Calls \ {d}
        OBVIOUS
      <4> QED
        BY <3>1, <4>1, <4>2, BystanderKept
    <3>4. CASE call[b].fresh
      <4>1. ~Submitting(b) /\ ~ReserveRewrite(b)
        BY <3>4, TurnSays DEF Submitting, Submit, ReserveRewrite, In
      <4> QED
        BY <3>1, <3>4, <4>1, PreparingKept, StoringKept, EndingKept DEF Evaluate
    <3> QED
      BY <3>2, <3>3, <3>4
  <2> QED
    BY <2>1, <2>2
<1> QED
  BY <1>1, <1>2, PTL DEF RewriteSafety

(* However many devices submit whatever texts, and however often the model  *)
(* fails, a review buys one analysis while the database answers and no      *)
(* process dies.                                                            *)
THEOREM RewriteBoughtOnce == RewriteSafety => []AnalysisIsBoughtOnce
<1>1. RewriteInv => AnalysisIsBoughtOnce
  BY DEF RewriteInv, Turn, Rest, AnalysisIsBoughtOnce
<1> QED
  BY <1>1, RewriteInvAlways, PTL

(* Whatever fails on the way, a completed reservation has its completed     *)
(* evaluation stored.                                                       *)
THEOREM RewriteCompletedIsStored == RewriteSafety => []CompletedIsStored
<1>1. RewriteInv => CompletedIsStored
  BY DEF RewriteInv
<1> QED
  BY <1>1, RewriteInvAlways, PTL

-------------------------------------------------------------------------------
(* The shared stories.                                                      *)
StoryWork == {"generating", "uploaded", "persisted", "failing"}

(* A request at work works on a row there is.                               *)
RequestsHaveSlots ==
  \A r \in Requests :
    request[r].at \in StoryWork \cup {"attaching"} => request[r].slot \in DOMAIN story

(* A user has practised no more than the limit, and prepares one story.     *)
DayIsCounted ==
  \A u \in Users : /\ IsFiniteSet(practised[u])
                   /\ Cardinality(practised[u]) <= DailyLimit
                   /\ \E s \in Nat : pending[u] \subseteq {s}

(* A row has one request at work, whose lease has not expired.              *)
OneWriter ==
  \A r, q \in Requests :
    request[r].at \in StoryWork /\ request[q].at \in StoryWork
      /\ request[r].slot = request[q].slot => r = q

WritersHaveLeases ==
  \A r \in Requests :
    /\ request[r].at \in StoryWork => ~IsDead(request[r].slot)
    /\ Generating(r) => story[request[r].slot].status = "generating"
    /\ At(r, "persisted") => IsReady(request[r].slot)
    /\ At(r, "uploaded") => story[request[r].slot].audio = r

StoryInv ==
  /\ StoryTypeOK
  /\ RequestsHaveSlots
  /\ DayIsCounted
  /\ LibraryBounded
  /\ ~late => OneWriter /\ WritersHaveLeases
  /\ AudioReadsItsText

-------------------------------------------------------------------------------
(* A write of one row of a slot leaves the others as they are.              *)
LEMMA StoryWritten ==
  ASSUME story \in Seq(Row), NEW s \in DOMAIN story, NEW x \in Row,
         story' = [story EXCEPT ![s] = x]
  PROVE  /\ story' \in Seq(Row)
         /\ Len(story') = Len(story)
         /\ DOMAIN story' = DOMAIN story
         /\ story'[s] = x
         /\ \A t \in DOMAIN story : t # s => story'[t] = story[t]
<1>1. s \in 1..Len(story)
  BY LenProperties
<1>2. story' \in Seq(Row) /\ Len(story') = Len(story)
  BY <1>1, ExceptSeq
<1> QED
  BY <1>1, <1>2, LenProperties

(* Every row is a row.                                                      *)
LEMMA RowTyped ==
  ASSUME story \in Seq(Row), NEW s \in DOMAIN story
  PROVE  /\ story[s] \in Row
         /\ s \in Nat
BY ElementOfSeq, LenProperties

(* A request is of a user.                                                  *)
LEMMA UserKnown == \A r \in Requests : UserOf[r] \in Users
BY DEF Users

(* Where a request is, and its slot.                                        *)
LEMMA RequestTyped ==
  ASSUME StoryTypeOK, NEW r \in Requests
  PROVE  /\ request[r] \in [at : StoryStages, slot : Nat]
         /\ request[r].at \in StoryStages
         /\ request[r].slot \in Nat
BY DEF StoryTypeOK

-------------------------------------------------------------------------------
(* Every step keeps the types.                                              *)
LEMMA TypesKept ==
  ASSUME StoryTypeOK, RequestsHaveSlots, [StoryNext]_storyVars
  PROVE  StoryTypeOK'
<1> USE DEF StoryTypeOK
<1> DEFINE Places == [at : StoryStages, slot : Nat]
<1>0. story \in Seq(Row) /\ Len(story) \in Nat /\ DOMAIN story = 1..Len(story)
  BY LenProperties
<1>1. ASSUME NEW r \in Requests, NEW stage \in StoryStages, NEW s \in Nat,
             Goto(r, stage, s)
      PROVE  request' \in [Requests -> Places]
  BY <1>1 DEF Goto
<1>2. CASE UNCHANGED storyVars
  BY <1>2 DEF storyVars
<1>3. ASSUME NEW r \in Requests, Begin(r)
      PROVE  StoryTypeOK'
  BY <1>3, <1>1 DEF Begin, StoryStages
<1>4. ASSUME NEW r \in Requests, LookUpPending(r)
      PROVE  StoryTypeOK'
  <2>1. request' \in [Requests -> Places]
    BY <1>4, <1>1 DEF LookUpPending, Answered, StoryStages, Users
  <2> QED
    BY <1>4, <2>1 DEF LookUpPending
<1>5. ASSUME NEW r \in Requests, DropStalePending(r)
      PROVE  StoryTypeOK'
  <2>1. request' \in [Requests -> Places]
    BY <1>5, <1>1, RequestTyped DEF DropStalePending, StoryStages
  <2>2. pending' \in [Users -> SUBSET Nat]
    BY <1>5, UserKnown DEF DropStalePending
  <2>3. faults' \in 0..MaxFaults
    BY <1>5, StoryAssumption DEF DropStalePending, CanFail
  <2> QED
    BY <1>5, <2>1, <2>2, <2>3 DEF DropStalePending
<1>6. ASSUME NEW r \in Requests, Acquire(r)
      PROVE  StoryTypeOK'
  <2>1. CASE Reuse(r)
    <3>1. request' \in [Requests -> Places]
      BY <2>1, <1>1, <1>0 DEF Reuse, StoryStages, Lowest, ReadyFor, DeadFor, Unopened
    <3> QED
      BY <1>6, <2>1, <3>1 DEF Acquire, Reuse
  <2>2. CASE Retake(r)
    <3>1. PICK s \in DOMAIN story :
            /\ story' = [story EXCEPT ![s] = [@ EXCEPT !.status = "generating",
                                                       !.expired = FALSE]]
            /\ Goto(r, "generating", s)
      BY <2>2 DEF Retake, Lowest, ReadyFor, DeadFor, Unopened
    <3>2. [story[s] EXCEPT !.status = "generating", !.expired = FALSE] \in Row
      BY RowTyped DEF Row
    <3>3. story' \in Seq(Row)
      BY <3>1, <3>2, StoryWritten
    <3>4. request' \in [Requests -> Places]
      BY <3>1, <1>1, RowTyped DEF StoryStages
    <3> QED
      BY <1>6, <3>3, <3>4 DEF Acquire
  <2>3. CASE Wait(r)
    <3>1. request' \in [Requests -> Places]
      BY <2>3, <1>1 DEF Wait, Answered, StoryStages
    <3> QED
      BY <1>6, <2>3, <3>1 DEF Acquire, Wait
  <2>4. CASE NewSlot(r)
    <3>1. [status |-> "generating", expired |-> FALSE, text |-> "none",
           audio |-> "none"] \in Row
      BY DEF Row
    <3>2. story' \in Seq(Row)
      BY <2>4, <3>1, AppendProperties DEF NewSlot
    <3>3. request' \in [Requests -> Places]
      BY <2>4, <1>1, <1>0 DEF NewSlot, StoryStages
    <3> QED
      BY <1>6, <3>2, <3>3 DEF Acquire
  <2> QED
    BY <1>6, <2>1, <2>2, <2>3, <2>4 DEF Acquire
<1>7. ASSUME NEW r \in Requests, Upload(r)
      PROVE  StoryTypeOK'
  <2>1. request[r].slot \in DOMAIN story
    BY <1>7 DEF Upload, At, RequestsHaveSlots, StoryWork
  <2>2. [story[request[r].slot] EXCEPT !.audio = r] \in Row
    BY <2>1, RowTyped DEF Row
  <2>3. story' \in Seq(Row)
    BY <1>7, <2>1, <2>2, StoryWritten DEF Upload
  <2>4. request' \in [Requests -> Places]
    BY <1>7, <1>1, RequestTyped DEF Upload, StoryStages
  <2> QED
    BY <1>7, <2>3, <2>4 DEF Upload
<1>8. ASSUME NEW r \in Requests, PersistSharedStory(r)
      PROVE  StoryTypeOK'
  <2> DEFINE x == [story[request[r].slot] EXCEPT !.status = "ready", !.text = r,
                                                 !.expired = FALSE]
  <2>1. request[r].slot \in DOMAIN story
    BY <1>8 DEF PersistSharedStory, At, RequestsHaveSlots, StoryWork
  <2>2. x \in Row
    BY <2>1, RowTyped DEF Row
  <2>3. story' = [story EXCEPT ![request[r].slot] = x]
    BY <1>8 DEF PersistSharedStory
  <2> HIDE DEF x
  <2>4. story' \in Seq(Row)
    BY <2>1, <2>2, <2>3, StoryWritten
  <2>5. request' \in [Requests -> Places]
    BY <1>8, <1>1, RequestTyped DEF PersistSharedStory, StoryStages
  <2> QED
    BY <1>8, <2>4, <2>5 DEF PersistSharedStory
<1>9. ASSUME NEW r \in Requests, AttachUserProgress(r)
      PROVE  StoryTypeOK'
  <2>1. request' \in [Requests -> Places]
    BY <1>9, <1>1, RequestTyped DEF AttachUserProgress, Answered, StoryStages
  <2>2. UserOf[r] \in Users /\ request[r].slot \in Nat
    BY UserKnown, RequestTyped
  <2>3. pending' \in [Users -> SUBSET Nat]
    BY <1>9, <2>2 DEF AttachUserProgress
  <2> QED
    BY <1>9, <2>1, <2>3 DEF AttachUserProgress
<1>10. ASSUME NEW r \in Requests, MarkSharedStoryFailed(r)
       PROVE  StoryTypeOK'
  <2> DEFINE x == [story[request[r].slot] EXCEPT !.status = "failed"]
  <2>1. request[r].slot \in DOMAIN story
    BY <1>10 DEF MarkSharedStoryFailed, At, RequestsHaveSlots, StoryWork
  <2>2. x \in Row
    BY <2>1, RowTyped DEF Row
  <2>3. \/ story' = [story EXCEPT ![request[r].slot] = x] /\ UNCHANGED faults
        \/ CanFail /\ UNCHANGED story
    BY <1>10 DEF MarkSharedStoryFailed
  <2> HIDE DEF x
  <2>4. story' \in Seq(Row)
    BY <2>1, <2>2, <2>3, StoryWritten
  <2>5. faults' \in 0..MaxFaults
    BY <2>3, StoryAssumption DEF CanFail
  <2>6. request' \in [Requests -> Places]
    BY <1>10, <1>1 DEF MarkSharedStoryFailed, Answered, StoryStages
  <2> QED
    BY <1>10, <2>4, <2>5, <2>6 DEF MarkSharedStoryFailed
<1>11. ASSUME NEW r \in Requests, GenerationFails(r) \/ Die(r)
       PROVE  StoryTypeOK'
  <2>1. request' \in [Requests -> Places]
    BY <1>11, <1>1, RequestTyped DEF GenerationFails, Die, Answered, StoryStages
  <2> QED
    BY <1>11, <2>1, StoryAssumption DEF GenerationFails, Die, CanFail
<1>12. ASSUME NEW u \in Users, NEW s \in pending[u], Practise(u, s)
       PROVE  StoryTypeOK'
  BY <1>12 DEF Practise
<1>13. ASSUME NEW s \in DOMAIN story, LeaseExpires(s)
       PROVE  StoryTypeOK'
  <2> DEFINE x == [story[s] EXCEPT !.expired = TRUE]
  <2>1. x \in Row
    BY RowTyped DEF Row
  <2>2. story' = [story EXCEPT ![s] = x]
    BY <1>13 DEF LeaseExpires
  <2> HIDE DEF x
  <2>3. story' \in Seq(Row)
    BY <2>1, <2>2, StoryWritten
  <2>4. late' \in BOOLEAN
    BY <1>13 DEF LeaseExpires
  <2> QED
    BY <1>13, <2>3, <2>4 DEF LeaseExpires
<1> QED
  BY <1>2, <1>3, <1>4, <1>5, <1>6, <1>7, <1>8, <1>9, <1>10, <1>11, <1>12, <1>13
  DEF StoryNext, Step, Handle, Practising, Expiring

-------------------------------------------------------------------------------
(* What the steps do to the rows: one of them is written, a new one is      *)
(* opened, or none is touched.                                              *)
Rewritten(s) == \E x \in Row : story' = [story EXCEPT ![s] = x]

(* No row is ever removed, and a request that is at work or attaching after *)
(* a step has a row.                                                        *)
LEMMA SlotsKept ==
  ASSUME StoryTypeOK, RequestsHaveSlots, [StoryNext]_storyVars
  PROVE  /\ DOMAIN story \subseteq DOMAIN story'
         /\ RequestsHaveSlots'
<1>0. story \in Seq(Row) /\ Len(story) \in Nat /\ DOMAIN story = 1..Len(story)
  BY LenProperties DEF StoryTypeOK
<1>1. ASSUME NEW s \in DOMAIN story, Rewritten(s)
      PROVE  DOMAIN story' = DOMAIN story
  BY <1>0, <1>1, StoryWritten DEF Rewritten
<1>2. ASSUME NEW r \in Requests, NEW s, NEW stage, Goto(r, stage, s),
             DOMAIN story \subseteq DOMAIN story',
             stage \in StoryWork \cup {"attaching"} => s \in DOMAIN story'
      PROVE  RequestsHaveSlots'
  <2> SUFFICES ASSUME NEW q \in Requests, request'[q].at \in StoryWork \cup {"attaching"}
               PROVE  request'[q].slot \in DOMAIN story'
    BY DEF RequestsHaveSlots
  <2>1. CASE q = r
    BY <1>2, <2>1 DEF Goto, StoryTypeOK
  <2>2. CASE q # r
    BY <1>2, <2>2 DEF Goto, StoryTypeOK, RequestsHaveSlots
  <2> QED
    BY <2>1, <2>2
<1>3. CASE UNCHANGED <<story, request>>
  BY <1>3 DEF RequestsHaveSlots
<1>4. ASSUME NEW r \in Requests, UNCHANGED story,
             \/ Answered(r)
             \/ \E s : Goto(r, "gated", s) \/ Goto(r, "dropping", s)
                       \/ Goto(r, "acquiring", s)
             \/ \E s \in DOMAIN story : Goto(r, "failing", s) \/ Goto(r, "attaching", s)
      PROVE  RequestsHaveSlots'
  <2>1. DOMAIN story' = DOMAIN story
    BY <1>4
  <2>2. CASE Answered(r)
    BY <2>1, <2>2, <1>2 DEF Answered, StoryWork
  <2>3. CASE \E s : Goto(r, "gated", s) \/ Goto(r, "dropping", s)
                    \/ Goto(r, "acquiring", s)
    <3>1. PICK s : Goto(r, "gated", s) \/ Goto(r, "dropping", s)
                   \/ Goto(r, "acquiring", s)
      BY <2>3
    <3>2. CASE Goto(r, "gated", s)
      BY <2>1, <3>2, <1>2 DEF StoryWork
    <3>3. CASE Goto(r, "dropping", s)
      BY <2>1, <3>3, <1>2 DEF StoryWork
    <3>4. CASE Goto(r, "acquiring", s)
      BY <2>1, <3>4, <1>2 DEF StoryWork
    <3> QED
      BY <3>1, <3>2, <3>3, <3>4
  <2>4. CASE \E s \in DOMAIN story : Goto(r, "failing", s) \/ Goto(r, "attaching", s)
    BY <2>1, <2>4, <1>2
  <2> QED
    BY <1>4, <2>2, <2>3, <2>4
<1>5. ASSUME NEW r \in Requests,
             Begin(r) \/ LookUpPending(r) \/ DropStalePending(r) \/ Die(r)
             \/ GenerationFails(r) \/ AttachUserProgress(r)
      PROVE  RequestsHaveSlots' /\ UNCHANGED story
  <2>1. UNCHANGED story
    BY <1>5 DEF Begin, LookUpPending, DropStalePending, Die, GenerationFails,
                AttachUserProgress
  <2>2. CASE Begin(r) \/ LookUpPending(r) \/ DropStalePending(r) \/ Die(r)
    <3>1. \/ Answered(r)
          \/ \E s : Goto(r, "gated", s) \/ Goto(r, "dropping", s)
                    \/ Goto(r, "acquiring", s)
      BY <2>2 DEF Begin, LookUpPending, DropStalePending, Die
    <3> QED
      BY <2>1, <3>1, <1>4
  <2>3. CASE GenerationFails(r)
    <3>1. request[r].slot \in DOMAIN story /\ Goto(r, "failing", request[r].slot)
      BY <2>3 DEF GenerationFails, RequestsHaveSlots, Generating, StoryWork
    <3> QED
      BY <2>1, <3>1, <1>4
  <2>4. CASE AttachUserProgress(r)
    <3>1. request[r].slot \in DOMAIN story
      BY <2>4 DEF AttachUserProgress, RequestsHaveSlots, At, StoryWork
    <3>2. Answered(r) \/ Goto(r, "failing", request[r].slot)
      BY <2>4 DEF AttachUserProgress
    <3> QED
      BY <2>1, <3>1, <3>2, <1>4
  <2> QED
    BY <1>5, <2>1, <2>2, <2>3, <2>4
<1>6. ASSUME NEW r \in Requests, Reuse(r) \/ Wait(r)
      PROVE  RequestsHaveSlots' /\ UNCHANGED story
  <2>1. UNCHANGED story
    BY <1>6 DEF Reuse, Wait
  <2>2. \/ Answered(r)
        \/ \E s \in DOMAIN story : Goto(r, "attaching", s)
    BY <1>6 DEF Reuse, Wait, Lowest, ReadyFor, DeadFor, Unopened
  <2> QED
    BY <2>1, <2>2, <1>4
<1>7. ASSUME NEW r \in Requests, Retake(r)
      PROVE  RequestsHaveSlots' /\ DOMAIN story \subseteq DOMAIN story'
  <2>1. PICK s \in DOMAIN story :
          /\ story' = [story EXCEPT ![s] = [@ EXCEPT !.status = "generating",
                                                     !.expired = FALSE]]
          /\ Goto(r, "generating", s)
    BY <1>7 DEF Retake, Lowest, ReadyFor, DeadFor, Unopened
  <2>2. [story[s] EXCEPT !.status = "generating", !.expired = FALSE] \in Row
    BY <1>0, RowTyped DEF Row
  <2>3. DOMAIN story' = DOMAIN story
    BY <2>1, <2>2, <1>1 DEF Rewritten
  <2> QED
    BY <2>1, <2>3, <1>2
<1>8. ASSUME NEW r \in Requests, NewSlot(r)
      PROVE  RequestsHaveSlots' /\ DOMAIN story \subseteq DOMAIN story'
  <2>1. [status |-> "generating", expired |-> FALSE, text |-> "none",
         audio |-> "none"] \in Row
    BY DEF Row
  <2>2. story' \in Seq(Row) /\ Len(story') = Len(story) + 1
    BY <1>8, <1>0, <2>1, AppendProperties DEF NewSlot
  <2>3. DOMAIN story' = 1..(Len(story) + 1)
    BY <2>2, LenProperties
  <2> QED
    BY <1>8, <1>0, <2>3, <1>2 DEF NewSlot
<1>9. ASSUME NEW r \in Requests,
             Upload(r) \/ PersistSharedStory(r) \/ MarkSharedStoryFailed(r)
      PROVE  RequestsHaveSlots' /\ DOMAIN story \subseteq DOMAIN story'
  <2>1. request[r].slot \in DOMAIN story
    BY <1>9 DEF Upload, PersistSharedStory, MarkSharedStoryFailed, At,
                RequestsHaveSlots, StoryWork
  <2>2. story[request[r].slot] \in Row
    BY <1>0, <2>1, RowTyped
  <2>3. Rewritten(request[r].slot) \/ UNCHANGED story
    BY <1>9, <2>2 DEF Upload, PersistSharedStory, MarkSharedStoryFailed, Rewritten, Row
  <2>4. DOMAIN story' = DOMAIN story
    BY <2>1, <2>3, <1>1
  <2>5. \/ Goto(r, "uploaded", request[r].slot) \/ Goto(r, "persisted", request[r].slot)
        \/ Answered(r)
    BY <1>9 DEF Upload, PersistSharedStory, MarkSharedStoryFailed
  <2> QED
    BY <2>1, <2>4, <2>5, <1>2 DEF Answered, StoryWork
<1>10. ASSUME NEW s \in DOMAIN story, LeaseExpires(s)
       PROVE  RequestsHaveSlots' /\ DOMAIN story \subseteq DOMAIN story'
  <2>1. Rewritten(s)
    BY <1>0, <1>10, RowTyped DEF LeaseExpires, Rewritten, Row
  <2> QED
    BY <1>10, <2>1, <1>1 DEF LeaseExpires, RequestsHaveSlots
<1>11. ASSUME NEW u \in Users, NEW s \in pending[u], Practise(u, s)
       PROVE  UNCHANGED <<story, request>>
  BY <1>11 DEF Practise
<1> QED
  BY <1>3, <1>5, <1>6, <1>7, <1>8, <1>9, <1>10, <1>11
  DEF StoryNext, Step, Handle, Acquire, Practising, Expiring, storyVars

-------------------------------------------------------------------------------
(* One element more makes a set larger by one at the most.                  *)
LEMMA OneMore ==
  ASSUME NEW S, IsFiniteSet(S), NEW x
  PROVE  /\ IsFiniteSet(S \cup {x})
         /\ Cardinality(S) \in Nat
         /\ Cardinality(S \cup {x}) \in Nat
         /\ Cardinality(S \cup {x}) <= Cardinality(S) + 1
<1>1. IsFiniteSet(S \cup {x})
  BY FS_AddElement
<1>2. Cardinality(S) \in Nat /\ Cardinality(S \cup {x}) \in Nat
  BY <1>1, FS_CardinalityType
<1>3. Cardinality(S \cup {x}) = Cardinality(S) \/ Cardinality(S \cup {x}) = Cardinality(S) + 1
  BY FS_AddElement
<1> QED
  BY <1>1, <1>2, <1>3

(* Practice is only added, while the day has room; and nobody prepares a    *)
(* second story.                                                            *)
LEMMA DayKept ==
  ASSUME StoryTypeOK, DayIsCounted, [StoryNext]_storyVars
  PROVE  /\ DayIsCounted'
         /\ \A u \in Users : practised[u] \subseteq practised'[u]
<1>1. ASSUME UNCHANGED practised,
             \A u \in Users : \E s \in Nat : pending'[u] \subseteq {s}
      PROVE  DayIsCounted' /\ \A u \in Users : practised[u] \subseteq practised'[u]
  BY <1>1 DEF DayIsCounted
<1>2. CASE UNCHANGED <<pending, practised>>
  BY <1>2, <1>1 DEF DayIsCounted
<1>3. ASSUME NEW r \in Requests, DropStalePending(r)
      PROVE  DayIsCounted' /\ \A u \in Users : practised[u] \subseteq practised'[u]
  <2>1. \A u \in Users : pending'[u] \subseteq pending[u]
    BY <1>3 DEF DropStalePending, StoryTypeOK
  <2>2. \A u \in Users : \E s \in Nat : pending'[u] \subseteq {s}
    BY <2>1 DEF DayIsCounted
  <2> QED
    BY <1>3, <2>2, <1>1 DEF DropStalePending
<1>4. ASSUME NEW r \in Requests, AttachUserProgress(r)
      PROVE  DayIsCounted' /\ \A u \in Users : practised[u] \subseteq practised'[u]
  <2>1. UserOf[r] \in Users /\ request[r].slot \in Nat
    BY UserKnown, RequestTyped
  <2>2. pending' = pending \/ pending' = [pending EXCEPT ![UserOf[r]] = {request[r].slot}]
    BY <1>4 DEF AttachUserProgress
  <2>3. \A u \in Users : \E s \in Nat : pending'[u] \subseteq {s}
    BY <2>1, <2>2 DEF DayIsCounted, StoryTypeOK
  <2> QED
    BY <1>4, <2>3, <1>1 DEF AttachUserProgress
<1>5. ASSUME NEW u \in Users, NEW s \in pending[u], Practise(u, s)
      PROVE  DayIsCounted' /\ \A x \in Users : practised[x] \subseteq practised'[x]
  <2>1. /\ practised' = [practised EXCEPT ![u] = practised[u] \cup {s}]
        /\ pending' = [pending EXCEPT ![u] = pending[u] \ {s}]
        /\ Cardinality(practised[u]) < DailyLimit
    BY <1>5 DEF Practise
  <2>2. IsFiniteSet(practised[u])
    BY DEF DayIsCounted
  <2>3. /\ IsFiniteSet(practised[u] \cup {s})
        /\ Cardinality(practised[u]) \in Nat
        /\ Cardinality(practised[u] \cup {s}) <= Cardinality(practised[u]) + 1
        /\ Cardinality(practised[u] \cup {s}) \in Nat
    BY <2>2, OneMore
  <2>4. Cardinality(practised[u] \cup {s}) <= DailyLimit
    BY <2>1, <2>3, StoryAssumption
  <2>5. practised'[u] = practised[u] \cup {s}
    BY <2>1 DEF StoryTypeOK
  <2>6. \A x \in Users \ {u} : practised'[x] = practised[x]
    BY <2>1 DEF StoryTypeOK
  <2>7. \A x \in Users : pending'[x] \subseteq pending[x]
    BY <2>1 DEF StoryTypeOK
  <2>8. ASSUME NEW x \in Users
        PROVE  /\ IsFiniteSet(practised'[x])
               /\ Cardinality(practised'[x]) <= DailyLimit
               /\ \E t \in Nat : pending'[x] \subseteq {t}
    <3>1. \E t \in Nat : pending'[x] \subseteq {t}
      BY <2>7 DEF DayIsCounted
    <3>2. CASE x = u
      BY <3>1, <3>2, <2>3, <2>4, <2>5
    <3>3. CASE x # u
      BY <3>1, <3>3, <2>6 DEF DayIsCounted
    <3> QED
      BY <3>2, <3>3
  <2> QED
    BY <2>5, <2>6, <2>8 DEF DayIsCounted
<1>6. ASSUME NEW r \in Requests,
             \/ Begin(r) \/ LookUpPending(r) \/ Acquire(r) \/ Upload(r)
             \/ PersistSharedStory(r) \/ MarkSharedStoryFailed(r)
             \/ GenerationFails(r) \/ Die(r)
      PROVE  UNCHANGED <<pending, practised>>
  BY <1>6 DEF Begin, LookUpPending, Acquire, Upload, PersistSharedStory,
              MarkSharedStoryFailed, GenerationFails, Die
<1>7. ASSUME NEW s \in DOMAIN story, LeaseExpires(s)
      PROVE  UNCHANGED <<pending, practised>>
  BY <1>7 DEF LeaseExpires
<1> QED
  BY <1>2, <1>3, <1>4, <1>5, <1>6, <1>7
  DEF StoryNext, Step, Handle, Practising, Expiring, storyVars

(* A slot is opened only over slots its user has opened, all but one of     *)
(* which are practised.                                                     *)
LEMMA NewSlotWithinBound ==
  ASSUME StoryTypeOK, DayIsCounted, NEW r \in Requests, NewSlot(r)
  PROVE  Len(story) <= DailyLimit + 1
<1> DEFINE u == UserOf[r]
<1>0. story \in Seq(Row) /\ Len(story) \in Nat /\ DOMAIN story = 1..Len(story)
  BY LenProperties DEF StoryTypeOK
<1>1. u \in Users
  BY UserKnown
<1>2. PICK s \in Nat : pending[u] \subseteq {s}
  BY <1>1 DEF DayIsCounted
<1>3. 1..Len(story) \subseteq practised[u] \cup {s}
  BY <1>0, <1>2 DEF NewSlot, Unopened, Opened
<1>4. IsFiniteSet(practised[u]) /\ Cardinality(practised[u]) <= DailyLimit
  BY <1>1 DEF DayIsCounted
<1> HIDE DEF u
<1>5. /\ IsFiniteSet(practised[u] \cup {s})
      /\ Cardinality(practised[u]) \in Nat
      /\ Cardinality(practised[u] \cup {s}) \in Nat
      /\ Cardinality(practised[u] \cup {s}) <= Cardinality(practised[u]) + 1
  BY <1>4, OneMore
<1>6. Cardinality(1..Len(story)) <= Cardinality(practised[u] \cup {s})
  BY <1>3, <1>5, FS_Subset
<1>7. Cardinality(1..Len(story)) = Len(story)
  BY <1>0, FS_Interval
<1> QED
  BY <1>0, <1>4, <1>5, <1>6, <1>7, StoryAssumption

(* So the library stays bounded.                                            *)
LEMMA LibraryKeptBounded ==
  ASSUME StoryTypeOK, RequestsHaveSlots, DayIsCounted, LibraryBounded,
         [StoryNext]_storyVars
  PROVE  LibraryBounded'
<1>0. story \in Seq(Row) /\ Len(story) \in Nat
  BY LenProperties DEF StoryTypeOK
<1>1. ASSUME NEW s \in DOMAIN story, Rewritten(s)
      PROVE  Len(story') = Len(story)
  BY <1>0, <1>1, StoryWritten DEF Rewritten
<1>2. ASSUME NEW s \in DOMAIN story PROVE story[s] \in Row
  BY <1>0, RowTyped
<1>3. ASSUME NEW r \in Requests, Acquire(r)
      PROVE  LibraryBounded'
  <2>1. CASE Reuse(r) \/ Wait(r)
    BY <2>1 DEF Reuse, Wait, LibraryBounded
  <2>2. CASE Retake(r)
    <3>1. PICK s \in DOMAIN story :
            story' = [story EXCEPT ![s] = [@ EXCEPT !.status = "generating",
                                                    !.expired = FALSE]]
      BY <2>2 DEF Retake, Lowest, ReadyFor, DeadFor, Unopened
    <3>2. Rewritten(s)
      BY <3>1, <1>2 DEF Rewritten, Row
    <3> QED
      BY <3>2, <1>1 DEF LibraryBounded
  <2>3. CASE NewSlot(r)
    <3>1. [status |-> "generating", expired |-> FALSE, text |-> "none",
           audio |-> "none"] \in Row
      BY DEF Row
    <3>2. Len(story') = Len(story) + 1
      BY <2>3, <3>1, <1>0, AppendProperties DEF NewSlot
    <3>3. Len(story) <= DailyLimit + 1
      BY <2>3, NewSlotWithinBound
    <3> QED
      BY <1>0, <3>2, <3>3, StoryAssumption DEF LibraryBounded
  <2> QED
    BY <1>3, <2>1, <2>2, <2>3 DEF Acquire
<1>4. ASSUME NEW r \in Requests,
             Upload(r) \/ PersistSharedStory(r) \/ MarkSharedStoryFailed(r)
      PROVE  LibraryBounded'
  <2>1. request[r].slot \in DOMAIN story
    BY <1>4 DEF Upload, PersistSharedStory, MarkSharedStoryFailed, At,
                RequestsHaveSlots, StoryWork
  <2>2. Rewritten(request[r].slot) \/ UNCHANGED story
    BY <1>4, <2>1, <1>2 DEF Upload, PersistSharedStory, MarkSharedStoryFailed, Rewritten, Row
  <2> QED
    BY <2>1, <2>2, <1>1 DEF LibraryBounded
<1>5. ASSUME NEW s \in DOMAIN story, LeaseExpires(s)
      PROVE  LibraryBounded'
  <2>1. Rewritten(s)
    BY <1>5, <1>2 DEF LeaseExpires, Rewritten, Row
  <2> QED
    BY <2>1, <1>1 DEF LibraryBounded
<1>6. CASE UNCHANGED story
  BY <1>6 DEF LibraryBounded
<1>7. ASSUME NEW r \in Requests,
             \/ Begin(r) \/ LookUpPending(r) \/ DropStalePending(r)
             \/ AttachUserProgress(r) \/ GenerationFails(r) \/ Die(r)
      PROVE  UNCHANGED story
  BY <1>7 DEF Begin, LookUpPending, DropStalePending, AttachUserProgress,
              GenerationFails, Die
<1>8. ASSUME NEW u \in Users, NEW s \in pending[u], Practise(u, s)
      PROVE  UNCHANGED story
  BY <1>8 DEF Practise
<1> QED
  BY <1>3, <1>4, <1>5, <1>6, <1>7, <1>8
  DEF StoryNext, Step, Handle, Practising, Expiring, storyVars

-------------------------------------------------------------------------------
(* A step that moves one request r and writes one row s that nobody else is *)
(* at work on keeps the writers apart, if r itself is as it should be.      *)
Stage(r) == request[r].at

SoundAlone(r, s) ==
  Stage(r) \in StoryWork =>
    /\ request[r].slot = s
    /\ ~IsDead(s)
    /\ Generating(r) => story[s].status = "generating"
    /\ At(r, "persisted") => IsReady(s)
    /\ At(r, "uploaded") => story[s].audio = r

SoundAudio(s) == IsReady(s) => story[s].text = story[s].audio

(* A request that changes only itself and the row it alone works on keeps   *)
(* leases and audio in order, if it does so there.                          *)
LEMMA AloneOnItsRow ==
  ASSUME RequestsHaveSlots, OneWriter, WritersHaveLeases, AudioReadsItsText, ~late,
         NEW r, NEW s,
         \A q \in Requests \ {r} : request'[q] = request[q],
         \A q \in Requests \ {r} : Stage(q) \in StoryWork => request[q].slot # s,
         \A t \in DOMAIN story \ {s} : story'[t] = story[t],
         DOMAIN story' \subseteq DOMAIN story \cup {s},
         r \in Requests => SoundAlone(r, s)',
         SoundAudio(s)'
  PROVE  OneWriter' /\ WritersHaveLeases' /\ AudioReadsItsText'
<1>1. ASSUME NEW q \in Requests, q # r, request'[q].at \in StoryWork
      PROVE  /\ request'[q] = request[q]
             /\ request[q].at \in StoryWork
             /\ request[q].slot \in DOMAIN story \ {s}
             /\ story'[request[q].slot] = story[request[q].slot]
  BY <1>1 DEF RequestsHaveSlots, Stage
<1>2. OneWriter'
  <2> SUFFICES ASSUME NEW q \in Requests, NEW p \in Requests, q # p,
                      request'[q].at \in StoryWork, request'[p].at \in StoryWork
               PROVE  request'[q].slot # request'[p].slot
    BY DEF OneWriter
  <2>1. CASE q # r /\ p # r
    BY <2>1, <1>1 DEF OneWriter
  <2>2. CASE q = r
    BY <2>2, <1>1 DEF SoundAlone, Stage
  <2>3. CASE p = r
    BY <2>3, <1>1 DEF SoundAlone, Stage
  <2> QED
    BY <2>1, <2>2, <2>3
<1>3. WritersHaveLeases'
  <2> SUFFICES ASSUME NEW q \in Requests
               PROVE  /\ request'[q].at \in StoryWork => ~IsDead(request[q].slot)'
                      /\ Generating(q)' => story'[request'[q].slot].status = "generating"
                      /\ At(q, "persisted")' => IsReady(request[q].slot)'
                      /\ At(q, "uploaded")' => story'[request'[q].slot].audio = q
    BY DEF WritersHaveLeases
  <2>1. CASE request'[q].at \notin StoryWork
    BY <2>1 DEF Generating, At, StoryWork
  <2>2. CASE request'[q].at \in StoryWork /\ q # r
    BY <2>2, <1>1 DEF WritersHaveLeases, Generating, At, IsDead, IsReady
  <2>3. CASE request'[q].at \in StoryWork /\ q = r
    BY <2>3 DEF SoundAlone, Generating, At, IsDead, IsReady, Stage
  <2> QED
    BY <2>1, <2>2, <2>3
<1>4. AudioReadsItsText'
  BY DEF AudioReadsItsText, SoundAudio, IsReady
<1> QED
  BY <1>2, <1>3, <1>4

(* A step that touches no row and puts nobody to work keeps them too.       *)
LEMMA NobodyNewAtWork ==
  ASSUME OneWriter, WritersHaveLeases, AudioReadsItsText, ~late,
         UNCHANGED story,
         \A q \in Requests :
           request'[q].at \in StoryWork =>
             /\ request[q].at \in StoryWork /\ request'[q].slot = request[q].slot
             /\ request'[q].at = "failing" \/ request'[q] = request[q]
  PROVE  OneWriter' /\ WritersHaveLeases' /\ AudioReadsItsText'
<1>1. OneWriter'
  BY DEF OneWriter
<1>2. WritersHaveLeases'
  <2> SUFFICES ASSUME NEW q \in Requests
               PROVE  /\ request'[q].at \in StoryWork => ~IsDead(request[q].slot)'
                      /\ Generating(q)' => story'[request'[q].slot].status = "generating"
                      /\ At(q, "persisted")' => IsReady(request[q].slot)'
                      /\ At(q, "uploaded")' => story'[request'[q].slot].audio = q
    BY DEF WritersHaveLeases
  <2>1. CASE request'[q].at \notin StoryWork
    BY <2>1 DEF Generating, At, StoryWork
  <2>2. CASE request'[q].at = "failing"
    BY <2>2 DEF WritersHaveLeases, Generating, At, IsDead, IsReady
  <2>3. CASE request'[q].at \in StoryWork /\ request'[q] = request[q]
    BY <2>3 DEF WritersHaveLeases, Generating, At, IsDead, IsReady
  <2> QED
    BY <2>1, <2>2, <2>3
<1>3. AudioReadsItsText'
  BY DEF AudioReadsItsText, IsReady
<1> QED
  BY <1>1, <1>2, <1>3

(* A move is of one request.                                                *)
LEMMA GotoMoves ==
  ASSUME StoryTypeOK, NEW r \in Requests, NEW stage, NEW s, Goto(r, stage, s)
  PROVE  /\ request'[r] = [at |-> stage, slot |-> s]
         /\ \A q \in Requests \ {r} : request'[q] = request[q]
BY DEF Goto, StoryTypeOK

(* Without a late generation, every step keeps the writers apart.           *)
LEMMA WritersKept ==
  ASSUME StoryTypeOK, RequestsHaveSlots, [StoryNext]_storyVars, ~late', ~late,
         OneWriter, WritersHaveLeases, AudioReadsItsText
  PROVE  OneWriter' /\ WritersHaveLeases' /\ AudioReadsItsText'
<1> DEFINE Kept == OneWriter' /\ WritersHaveLeases' /\ AudioReadsItsText'
<1>0. story \in Seq(Row) /\ Len(story) \in Nat /\ DOMAIN story = 1..Len(story)
  BY LenProperties DEF StoryTypeOK
<1>r. ASSUME NEW s \in DOMAIN story PROVE story[s] \in Row
  BY <1>0, RowTyped
<1>w. \A r \in Requests : request[r].at \in StoryWork => request[r].slot \in DOMAIN story
  BY DEF RequestsHaveSlots
<1>o. \A r \in Requests : request[r].at \in StoryWork =>
        \A q \in Requests \ {r} : Stage(q) \in StoryWork => request[q].slot # request[r].slot
  BY DEF OneWriter, Stage
<1>1. ASSUME UNCHANGED <<story, request>>
      PROVE  Kept
  BY <1>1, NobodyNewAtWork
<1>2. ASSUME NEW r \in Requests, UNCHANGED story,
             \/ Answered(r)
             \/ \E s : Goto(r, "gated", s) \/ Goto(r, "dropping", s)
                       \/ Goto(r, "acquiring", s) \/ Goto(r, "attaching", s)
             \/ request[r].at \in StoryWork /\ Goto(r, "failing", request[r].slot)
      PROVE  Kept
  <2>1. ASSUME NEW stage \in {"idle", "gated", "dropping", "acquiring", "attaching"},
               NEW s, Goto(r, stage, s)
        PROVE  /\ request'[r].at \notin StoryWork
               /\ \A q \in Requests \ {r} : request'[q] = request[q]
    <3>1. /\ request'[r] = [at |-> stage, slot |-> s]
          /\ \A q \in Requests \ {r} : request'[q] = request[q]
      BY <2>1, GotoMoves
    <3> QED
      BY <3>1 DEF StoryWork
  <2>2. ASSUME Goto(r, "failing", request[r].slot)
        PROVE  /\ request'[r] = [at |-> "failing", slot |-> request[r].slot]
               /\ \A q \in Requests \ {r} : request'[q] = request[q]
    BY <2>2, GotoMoves
  <2>3. /\ \/ request'[r].at \notin StoryWork
           \/ /\ request[r].at \in StoryWork
              /\ request'[r].slot = request[r].slot
              /\ request'[r].at = "failing"
        /\ \A q \in Requests \ {r} : request'[q] = request[q]
    <3>1. CASE Answered(r)
      BY <3>1, <2>1 DEF Answered
    <3>2. CASE \E s : Goto(r, "gated", s) \/ Goto(r, "dropping", s)
                     \/ Goto(r, "acquiring", s) \/ Goto(r, "attaching", s)
      BY <3>2, <2>1
    <3>3. CASE request[r].at \in StoryWork /\ Goto(r, "failing", request[r].slot)
      BY <3>3, <2>2
    <3> QED
      BY <1>2, <3>1, <3>2, <3>3
  <2>4. \A q \in Requests :
           request'[q].at \in StoryWork =>
             /\ request[q].at \in StoryWork /\ request'[q].slot = request[q].slot
             /\ request'[q].at = "failing" \/ request'[q] = request[q]
    BY <2>3
  <2> QED
    BY <1>2, <2>4, NobodyNewAtWork
<1>3. ASSUME NEW r \in Requests,
             Begin(r) \/ LookUpPending(r) \/ DropStalePending(r) \/ Die(r)
      PROVE  Kept
  <2>1. UNCHANGED story
    BY <1>3 DEF Begin, LookUpPending, DropStalePending, Die
  <2>2. \/ Answered(r)
        \/ \E s : Goto(r, "gated", s) \/ Goto(r, "dropping", s)
                  \/ Goto(r, "acquiring", s)
    BY <1>3 DEF Begin, LookUpPending, DropStalePending, Die
  <2> QED
    BY <2>1, <2>2, <1>2
<1>4. ASSUME NEW r \in Requests, GenerationFails(r) \/ AttachUserProgress(r)
      PROVE  Kept
  <2>1. UNCHANGED story
    BY <1>4 DEF GenerationFails, AttachUserProgress
  <2>2. \/ Answered(r)
        \/ request[r].at \in StoryWork /\ Goto(r, "failing", request[r].slot)
    BY <1>4 DEF GenerationFails, AttachUserProgress, Generating, At, StoryWork
  <2> QED
    BY <2>1, <2>2, <1>2
<1>5. ASSUME NEW r \in Requests, Reuse(r) \/ Wait(r)
      PROVE  Kept
  <2>1. UNCHANGED story /\ (Answered(r) \/ \E s : Goto(r, "attaching", s))
    BY <1>5 DEF Reuse, Wait
  <2> QED
    BY <2>1, <1>2
<1>6. ASSUME NEW r \in Requests, Retake(r)
      PROVE  Kept
  <2>1. PICK s \in DOMAIN story :
          /\ IsDead(s)
          /\ story' = [story EXCEPT ![s] = [@ EXCEPT !.status = "generating",
                                                     !.expired = FALSE]]
          /\ Goto(r, "generating", s)
    BY <1>6 DEF Retake, Lowest, ReadyFor, DeadFor, Unopened
  <2>2. story[s] \in Row
    BY <1>r
  <2> DEFINE x == [story[s] EXCEPT !.status = "generating", !.expired = FALSE]
  <2>3. x \in Row /\ x.status = "generating" /\ ~x.expired
    BY <2>2 DEF Row
  <2>4. story' = [story EXCEPT ![s] = x]
    BY <2>1
  <2> HIDE DEF x
  <2>5. /\ DOMAIN story' = DOMAIN story
        /\ story'[s] = x
        /\ \A t \in DOMAIN story : t # s => story'[t] = story[t]
    BY <1>0, <2>3, <2>4, StoryWritten
  <2>6. \A q \in Requests \ {r} : Stage(q) \in StoryWork => request[q].slot # s
    BY <2>1 DEF WritersHaveLeases, Stage
  <2>7. request'[r] = [at |-> "generating", slot |-> s]
        /\ \A q \in Requests \ {r} : request'[q] = request[q]
    BY <2>1, GotoMoves
  <2>8. SoundAlone(r, s)'
    BY <2>3, <2>5, <2>7 DEF SoundAlone, Stage, IsDead, Generating, At, IsReady
  <2>9. SoundAudio(s)'
    BY <2>3, <2>5 DEF SoundAudio, IsReady
  <2> QED
    BY <2>5, <2>6, <2>7, <2>8, <2>9, AloneOnItsRow
<1>7. ASSUME NEW r \in Requests, NewSlot(r)
      PROVE  Kept
  <2> DEFINE x == [status |-> "generating", expired |-> FALSE, text |-> "none",
                   audio |-> "none"]
  <2>0. PICK s \in Nat : s = Len(story) + 1
    BY <1>0
  <2>1. x \in Row /\ x.status = "generating" /\ ~x.expired
    BY DEF Row
  <2>2. story' = Append(story, x) /\ Goto(r, "generating", s)
    BY <1>7, <2>0 DEF NewSlot
  <2> HIDE DEF x
  <2>3. /\ story' \in Seq(Row) /\ Len(story') = s
        /\ story'[s] = x
        /\ \A t \in 1..Len(story) : story'[t] = story[t]
    BY <1>0, <2>0, <2>1, <2>2, AppendProperties
  <2>4. DOMAIN story' = 1..s
    BY <2>3, LenProperties
  <2>5. \A q \in Requests \ {r} : Stage(q) \in StoryWork => request[q].slot # s
    BY <1>0, <1>w, <2>0 DEF Stage
  <2>6. request'[r] = [at |-> "generating", slot |-> s]
        /\ \A q \in Requests \ {r} : request'[q] = request[q]
    BY <2>2, GotoMoves
  <2>7. SoundAlone(r, s)'
    BY <2>1, <2>3, <2>6 DEF SoundAlone, Stage, IsDead, Generating, At, IsReady
  <2>8. SoundAudio(s)'
    BY <2>1, <2>3 DEF SoundAudio, IsReady
  <2>9. \A t \in DOMAIN story \ {s} : story'[t] = story[t]
    BY <1>0, <2>3
  <2>10. DOMAIN story' \subseteq DOMAIN story \cup {s}
    BY <1>0, <2>0, <2>4
  <2> QED
    BY <2>5, <2>6, <2>7, <2>8, <2>9, <2>10, AloneOnItsRow
<1>8. ASSUME NEW r \in Requests, request[r].at \in StoryWork,
             NEW s \in DOMAIN story, request[r].slot = s, NEW x \in Row,
             story' = [story EXCEPT ![s] = x],
             \A q \in Requests \ {r} : request'[q] = request[q]
      PROVE  /\ story'[s] = x
             /\ SoundAlone(r, s)' /\ SoundAudio(s)' => Kept
  <2>1. /\ DOMAIN story' = DOMAIN story
        /\ story'[s] = x
        /\ \A t \in DOMAIN story : t # s => story'[t] = story[t]
    BY <1>0, <1>8, StoryWritten
  <2>2. \A q \in Requests \ {r} : Stage(q) \in StoryWork => request[q].slot # s
    BY <1>8, <1>o
  <2> QED
    BY <1>8, <2>1, <2>2, AloneOnItsRow
<1>9. ASSUME NEW r \in Requests, Upload(r)
      PROVE  Kept
  <2> DEFINE s == request[r].slot
             x == [story[s] EXCEPT !.audio = r]
  <2>1. request[r].at = "generating" /\ request[r].at \in StoryWork /\ s \in DOMAIN story
    BY <1>9, <1>w DEF Upload, At, StoryWork
  <2>2. story[s] \in Row /\ story[s].status = "generating" /\ ~IsDead(s)
    BY <2>1, <1>r DEF WritersHaveLeases, Generating, At
  <2>3. x \in Row /\ x.status = "generating" /\ ~x.expired /\ x.audio = r
    BY <2>2 DEF Row, IsDead
  <2>4. story' = [story EXCEPT ![s] = x] /\ Goto(r, "uploaded", s)
    BY <1>9 DEF Upload
  <2>5. request'[r] = [at |-> "uploaded", slot |-> s]
        /\ \A q \in Requests \ {r} : request'[q] = request[q]
    BY <2>4, GotoMoves
  <2>6. PICK t \in DOMAIN story, y \in Row : t = s /\ y = x
    BY <2>1, <2>3
  <2> HIDE DEF s, x
  <2>7. s = request[r].slot
    BY DEF s
  <2>8. story'[t] = y /\ (SoundAlone(r, t)' /\ SoundAudio(t)' => Kept)
    BY <2>1, <2>4, <2>5, <2>6, <2>7, <1>8
  <2>9. SoundAlone(r, t)' /\ SoundAudio(t)'
    BY <2>3, <2>5, <2>6, <2>8
    DEF SoundAlone, SoundAudio, Stage, IsDead, Generating, At, IsReady
  <2> QED
    BY <2>8, <2>9
<1>10. ASSUME NEW r \in Requests, PersistSharedStory(r)
       PROVE  Kept
  <2> DEFINE s == request[r].slot
             x == [story[s] EXCEPT !.status = "ready", !.text = r, !.expired = FALSE]
  <2>1. request[r].at = "uploaded" /\ request[r].at \in StoryWork /\ s \in DOMAIN story
    BY <1>10, <1>w DEF PersistSharedStory, At, StoryWork
  <2>2. story[s] \in Row /\ story[s].audio = r
    BY <2>1, <1>r DEF WritersHaveLeases, At
  <2>3. x \in Row /\ x.status = "ready" /\ x.text = r /\ x.audio = r
    BY <2>2 DEF Row
  <2>4. story' = [story EXCEPT ![s] = x] /\ Goto(r, "persisted", s)
    BY <1>10 DEF PersistSharedStory
  <2>5. request'[r] = [at |-> "persisted", slot |-> s]
        /\ \A q \in Requests \ {r} : request'[q] = request[q]
    BY <2>4, GotoMoves
  <2>6. PICK t \in DOMAIN story, y \in Row : t = s /\ y = x
    BY <2>1, <2>3
  <2> HIDE DEF s, x
  <2>7. s = request[r].slot
    BY DEF s
  <2>8. story'[t] = y /\ (SoundAlone(r, t)' /\ SoundAudio(t)' => Kept)
    BY <2>1, <2>4, <2>5, <2>6, <2>7, <1>8
  <2>9. SoundAlone(r, t)' /\ SoundAudio(t)'
    BY <2>3, <2>5, <2>6, <2>8
    DEF SoundAlone, SoundAudio, Stage, IsDead, Generating, At, IsReady
  <2> QED
    BY <2>8, <2>9
<1>11. ASSUME NEW r \in Requests, MarkSharedStoryFailed(r)
       PROVE  Kept
  <2> DEFINE s == request[r].slot
             x == [story[s] EXCEPT !.status = "failed"]
  <2>1. request[r].at = "failing" /\ request[r].at \in StoryWork /\ s \in DOMAIN story
    BY <1>11, <1>w DEF MarkSharedStoryFailed, At, StoryWork
  <2>2. x \in Row /\ x.status = "failed"
    BY <2>1, <1>r DEF Row
  <2>3. Answered(r) /\ (story' = [story EXCEPT ![s] = x] \/ UNCHANGED story)
    BY <1>11 DEF MarkSharedStoryFailed
  <2>4. request'[r].at = "idle"
        /\ \A q \in Requests \ {r} : request'[q] = request[q]
    <3>1. Goto(r, "idle", 0)
      BY <2>3 DEF Answered
    <3>2. request'[r] = [at |-> "idle", slot |-> 0]
          /\ \A q \in Requests \ {r} : request'[q] = request[q]
      BY <3>1, GotoMoves
    <3> QED
      BY <3>2
  <2>5. CASE UNCHANGED story
    BY <2>3, <2>5, <1>2
  <2>6. CASE story' = [story EXCEPT ![s] = x]
    <3>1. PICK t \in DOMAIN story, y \in Row : t = s /\ y = x
      BY <2>1, <2>2
    <3> HIDE DEF s, x
    <3>2. s = request[r].slot
      BY DEF s
    <3>3. story'[t] = y /\ (SoundAlone(r, t)' /\ SoundAudio(t)' => Kept)
      BY <2>1, <2>4, <2>6, <3>1, <3>2, <1>8
    <3>4. SoundAlone(r, t)' /\ SoundAudio(t)'
      BY <2>2, <2>4, <3>1, <3>3 DEF SoundAlone, SoundAudio, Stage, IsReady, StoryWork
    <3> QED
      BY <3>3, <3>4
  <2> QED
    BY <2>3, <2>5, <2>6
<1>12. ASSUME NEW s \in DOMAIN story, LeaseExpires(s)
       PROVE  Kept
  <2> DEFINE x == [story[s] EXCEPT !.expired = TRUE]
  <2>1. /\ story[s].status = "generating" /\ UNCHANGED request
        /\ \A r \in Requests : ~Owes(r, s)
        /\ story' = [story EXCEPT ![s] = x]
    BY <1>12 DEF LeaseExpires
  <2>2. x \in Row /\ x.status = "generating"
    BY <2>1, <1>r DEF Row
  <2> HIDE DEF x
  <2>3. /\ DOMAIN story' = DOMAIN story
        /\ story'[s] = x
        /\ \A t \in DOMAIN story : t # s => story'[t] = story[t]
    BY <1>0, <2>1, <2>2, StoryWritten
  <2>4. \A q \in Requests : Stage(q) \in StoryWork => request[q].slot # s
    BY <2>1 DEF Owes, Generating, At, StoryWork, WritersHaveLeases, Stage, IsReady
  <2>5. SoundAudio(s)'
    BY <2>2, <2>3 DEF SoundAudio, IsReady
  <2>6. "none" \notin Requests
    BY StoryAssumption
  <2> QED
    BY <2>1, <2>3, <2>4, <2>5, <2>6, AloneOnItsRow
<1>13. ASSUME NEW u \in Users, NEW s \in pending[u], Practise(u, s)
       PROVE  UNCHANGED <<story, request>>
  BY <1>13 DEF Practise
<1> HIDE DEF Kept
<1>14. Kept
  BY <1>1, <1>3, <1>4, <1>5, <1>6, <1>7, <1>9, <1>10, <1>11, <1>12, <1>13
  DEF StoryNext, Step, Handle, Acquire, Practising, Expiring, storyVars
<1> QED
  BY <1>14 DEF Kept

-------------------------------------------------------------------------------
(* A history of late generations is never forgotten.                        *)
LEMMA LateStays == late /\ [StoryNext]_storyVars => late'
<1> SUFFICES ASSUME late, [StoryNext]_storyVars
             PROVE  late'
  OBVIOUS
<1>1. CASE UNCHANGED storyVars
  BY <1>1 DEF storyVars
<1>2. ASSUME NEW r \in Requests, Step(r)
      PROVE  late'
  BY <1>2 DEF Step, Handle, Begin, LookUpPending, DropStalePending, Acquire, Upload,
              PersistSharedStory, AttachUserProgress, MarkSharedStoryFailed,
              GenerationFails, Die
<1>3. CASE \E u \in Users : Practising(u)
  BY <1>3 DEF Practising, Practise
<1>4. CASE Expiring
  BY <1>4 DEF Expiring, LeaseExpires
<1> QED
  BY <1>1, <1>2, <1>3, <1>4 DEF StoryNext

(* The invariant holds of an empty library ...                              *)
LEMMA StoryInvHolds == StoryInit => StoryInv
<1> SUFFICES ASSUME StoryInit PROVE StoryInv
  OBVIOUS
<1>0. story \in Seq(Row) /\ Len(story) = 0 /\ DOMAIN story = {}
  <2>1. story = << >> /\ story \in Seq(Row) /\ Len(story) = 0
    BY EmptySeq DEF StoryInit
  <2> QED
    BY <2>1, LenProperties
<1>1. StoryTypeOK
  <2>1. request \in [Requests -> [at : StoryStages, slot : Nat]]
    BY DEF StoryInit, StoryStages
  <2>2. pending \in [Users -> SUBSET Nat] /\ practised \in [Users -> SUBSET Nat]
    BY DEF StoryInit
  <2>3. faults = 0 /\ late = FALSE /\ MaxFaults \in Nat
    BY StoryAssumption DEF StoryInit
  <2>4. faults \in 0..MaxFaults
    BY <2>3
  <2>5. late \in BOOLEAN
    BY <2>3
  <2> QED
    BY <1>0, <2>1, <2>2, <2>4, <2>5 DEF StoryTypeOK
<1>2. \A r \in Requests : request[r].at = "idle"
  BY DEF StoryInit
<1>3. RequestsHaveSlots /\ OneWriter /\ WritersHaveLeases
  BY <1>2 DEF RequestsHaveSlots, OneWriter, WritersHaveLeases, StoryWork, Generating, At
<1>4. DayIsCounted
  <2>1. \A u \in Users : practised[u] = {} /\ pending[u] \subseteq {0}
    BY DEF StoryInit
  <2>2. IsFiniteSet({}) /\ Cardinality({}) = 0
    BY FS_EmptySet
  <2> QED
    BY <2>1, <2>2, StoryAssumption DEF DayIsCounted
<1>5. LibraryBounded /\ AudioReadsItsText
  BY <1>0, StoryAssumption DEF LibraryBounded, AudioReadsItsText
<1> QED
  BY <1>1, <1>3, <1>4, <1>5 DEF StoryInv

(* ... and every step keeps it.                                             *)
LEMMA StoryInvKept == StoryInv /\ [StoryNext]_storyVars => StoryInv'
<1> SUFFICES ASSUME StoryInv, [StoryNext]_storyVars
             PROVE  StoryInv'
  OBVIOUS
<1>1. /\ StoryTypeOK /\ RequestsHaveSlots /\ DayIsCounted /\ LibraryBounded
      /\ ~late => OneWriter /\ WritersHaveLeases
      /\ AudioReadsItsText
  BY DEF StoryInv
<1>2. StoryTypeOK' /\ RequestsHaveSlots' /\ DayIsCounted' /\ LibraryBounded'
  BY <1>1, TypesKept, SlotsKept, DayKept, LibraryKeptBounded
<1>3. CASE ~late'
  BY <1>1, <1>2, <1>3, LateStays, WritersKept DEF StoryInv
<1>4. CASE late'
  BY <1>2, <1>4 DEF StoryInv, AudioReadsItsText
<1> QED
  BY <1>3, <1>4

(* So it holds of every behaviour.                                          *)
THEOREM StoryInvAlways == StorySafety => []StoryInv
BY StoryInvHolds, StoryInvKept, PTL DEF StorySafety

(* Tables and requests are well typed, for any requests, users and limit.   *)
THEOREM StoryTypeCorrect == StorySafety => []StoryTypeOK
<1>1. StoryInv => StoryTypeOK
  BY DEF StoryInv
<1> QED
  BY <1>1, StoryInvAlways, PTL

(* The day's library never outgrows the daily limit by more than two rows   *)
(* (acquire_or_get_listening_shared_story under checkListeningCanStart).    *)
THEOREM StoryLibraryBounded == StorySafety => []LibraryBounded
<1>1. StoryInv => LibraryBounded
  BY DEF StoryInv
<1> QED
  BY <1>1, StoryInvAlways, PTL

(* Without a late generation, a ready story's audio reads its own text      *)
(* (persistSharedStory under the lease of its slot).                        *)
THEOREM StoryAudioReadsItsText == StorySafety => []AudioReadsItsText
<1>1. StoryInv => AudioReadsItsText
  BY DEF StoryInv
<1> QED
  BY <1>1, StoryInvAlways, PTL

(* No step takes a practised story back (dropStalePending,                  *)
(* attachUserProgress, consume_listening_pending_story).                    *)
THEOREM StoryPracticeIsKept == StorySafety => PracticeIsKept
<1>1. StoryInv /\ [StoryNext]_storyVars
        => [\A u \in Users : practised[u] \subseteq practised'[u]]_storyVars
  BY DayKept DEF StoryInv
<1> QED
  BY <1>1, StoryInvAlways, PTL DEF StorySafety, PracticeIsKept
===============================================================================
