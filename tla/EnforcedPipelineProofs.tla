------------------------- MODULE EnforcedPipelineProofs ------------------------
(***************************************************************************)
(* Theorems about the pipeline, for any calls, keys, windows, leases,      *)
(* failures and deaths.  Its stores take only the steps their own modules  *)
(* allow, so what is proved of them for arbitrary callers holds of the     *)
(* pipeline; the properties that relate a call's stage to the stores are   *)
(* proved from an inductive invariant of their own.                        *)
(***************************************************************************)
EXTENDS EnforcedPipeline, UsageLedgerProofs, GatewayGuardsProofs

(* The part of the type invariant that concerns the calls themselves. *)
CallsTypeOK ==
  /\ pc \in [Calls -> Stages]
  /\ outcome \in [Calls -> Outcomes]
  /\ used \in [Calls -> Quantities]
  /\ tracked \subseteq Calls

(* A call that goes to another stage or ends keeps its fields well typed. *)
LEMMA StagesMoved ==
  ASSUME CallsTypeOK, NEW c \in Calls, NEW s \in Stages, NEW how \in Outcomes,
         Goto(c, s) \/ End(c, how, s)
  PROVE  CallsTypeOK'
BY DEF CallsTypeOK, Goto, End

(* Every step keeps the calls' own fields well typed. *)
LEMMA CallsTypeStep ==
  ASSUME CallsTypeOK, [PipelineNext]_pipelineVars
  PROVE  CallsTypeOK'
<1> USE DEF Stages, Outcomes
<1>1. CASE \E c \in Calls : CallStep(c) \/ Die(c)
  <2> PICK c \in Calls : CallStep(c) \/ Die(c)
    BY <1>1
  <2>1. CASE PassBreaker(c)
    BY <2>1, StagesMoved DEF PassBreaker
  <2>2. CASE BeginOperation(c)
    BY <2>2, StagesMoved DEF BeginOperation
  <2>3. CASE ReserveCapacity(c)
    BY <2>3, StagesMoved DEF ReserveCapacity
  <2>4. CASE AcquireConcurrency(c)
    BY <2>4, StagesMoved DEF AcquireConcurrency, Refused
  <2>5. CASE StartEvent(c)
    BY <2>5 DEF StartEvent, CallsTypeOK
  <2>6. CASE ProviderErrs(c)
    BY <2>6, StagesMoved DEF ProviderErrs
  <2>7. CASE ProviderAnswers(c)
    BY <2>7 DEF ProviderAnswers, CallsTypeOK
  <2>8. CASE CommitUsage(c)
    BY <2>8, StagesMoved DEF CommitUsage
  <2>9. CASE ParkReservation(c)
    BY <2>9, StagesMoved DEF ParkReservation
  <2>10. CASE ReleaseReservation(c)
    BY <2>10, StagesMoved DEF ReleaseReservation
  <2>11. CASE FailOperation(c)
    BY <2>11, StagesMoved DEF FailOperation, ConcludeOperation
  <2>12. CASE CompleteOperation(c)
    BY <2>12, StagesMoved DEF CompleteOperation, ConcludeOperation
  <2>13. CASE ReportOutcome(c)
    BY <2>13, StagesMoved DEF ReportOutcome
  <2>14. CASE FreeSlot(c)
    BY <2>14, StagesMoved DEF FreeSlot
  <2>15. CASE Die(c)
    BY <2>15, StagesMoved DEF Die
  <2> QED
    BY <2>1, <2>2, <2>3, <2>4, <2>5, <2>6, <2>7, <2>8, <2>9, <2>10, <2>11, <2>12, <2>13,
       <2>14, <2>15 DEF CallStep
<1>2. CASE UNCHANGED callVars
  BY <1>2 DEF callVars, CallsTypeOK
<1> QED
  BY <1>1, <1>2
     DEF PipelineNext, RowLapses, SweepRow, LeaseLapses, BreakerCools, pipelineVars

-------------------------------------------------------------------------------
(* The ledger under the pipeline *)

(* A step of the pipeline is a step of the ledger, or leaves it alone. *)
LEMMA LedgerStepOfPipeline ==
  ASSUME CallsTypeOK, [PipelineNext]_pipelineVars
  PROVE  [LedgerNext]_ledgerVars
<1>1. CASE \E c \in Calls : CallStep(c) \/ Die(c)
  <2> PICK c \in Calls : CallStep(c) \/ Die(c)
    BY <1>1
  <2>0. Row(c) \in Keys /\ used[c] \in Quantities /\ Ask[c] \in Quantities /\ Asked(c) \in SUBSET Buckets
    BY PipelineAssumption DEF Row, CallsTypeOK, Asked
  <2>1. CASE ReserveCapacity(c)
    BY <2>0, <2>1 DEF ReserveCapacity, LedgerNext
  <2>2. CASE CommitUsage(c)
    BY <2>0, <2>2 DEF CommitUsage, CommitCall, LedgerNext
  <2>3. CASE ParkReservation(c)
    BY <2>0, <2>3 DEF ParkReservation, MarkCall, LedgerNext
  <2>4. CASE ReleaseReservation(c)
    BY <2>0, <2>4 DEF ReleaseReservation, ReleaseCall, LedgerNext
  <2>5. CASE LedgerStays
    BY <2>5 DEF LedgerStays
  <2> QED
    BY <2>1, <2>2, <2>3, <2>4, <2>5
       DEF CallStep, PassBreaker, BeginOperation, AcquireConcurrency, StartEvent, ProviderErrs,
           ProviderAnswers, FailOperation, CompleteOperation, ConcludeOperation, ReportOutcome,
           FreeSlot, Die
<1>2. CASE \E k \in Keys : SweepRow(k)
  BY <1>2 DEF SweepRow, LedgerNext
<1>3. CASE UNCHANGED ledgerVars
  BY <1>3
<1> QED
  BY <1>1, <1>2, <1>3
     DEF PipelineNext, RowLapses, LeaseLapses, BreakerCools, pipelineVars

(* The calls' own fields are always well typed. *)
LEMMA CallsTypeInvariant == PipelineSpec => []CallsTypeOK
<1>1. PipelineInit => CallsTypeOK
  BY LedgerAssumption DEF PipelineInit, CallsTypeOK, Stages, Outcomes, Nothing, Quantities
<1>2. CallsTypeOK /\ [PipelineNext]_pipelineVars => CallsTypeOK'
  BY CallsTypeStep
<1> QED
  BY <1>1, <1>2, PTL DEF PipelineSpec

(* The pipeline uses the ledger as its specification says: every property   *)
(* of the ledger holds whatever the calls, the cron and failures do.        *)
THEOREM PipelineImplementsLedger == PipelineSpec => LedgerSpec
<1>1. PipelineInit => LedgerInit
  BY DEF PipelineInit
<1>2. CallsTypeOK /\ [PipelineNext]_pipelineVars => [LedgerNext]_ledgerVars
  BY LedgerStepOfPipeline
<1> QED
  BY <1>1, <1>2, CallsTypeInvariant, PTL DEF PipelineSpec, LedgerSpec

(* Under the pipeline no window is promised beyond its limit. *)
THEOREM PipelineWithinLimit == PipelineSpec => []WithinLimit
BY PipelineImplementsLedger, LedgerWithinLimit, PTL

-------------------------------------------------------------------------------
(* The slots under the pipeline *)

(* Only the gate, the end of a call and its lapse touch a slot.             *)
LEMMA SlotsStepOfPipeline ==
  ASSUME CallsTypeOK, [PipelineNext]_pipelineVars
  PROVE  [SlotsNext]_slotVars
<1>1. CASE \E c \in Calls : CallStep(c) \/ Die(c)
  <2> PICK c \in Calls : CallStep(c) \/ Die(c)
    BY <1>1
  <2>1. CASE AcquireConcurrency(c)
    BY <2>1 DEF AcquireConcurrency, SlotsNext
  <2>2. CASE FreeSlot(c)
    BY <2>2 DEF FreeSlot, SlotsNext
  <2>3. CASE UNCHANGED slotVars
    BY <2>3
  <2> QED
    BY <2>1, <2>2, <2>3
       DEF CallStep, PassBreaker, BeginOperation, ReserveCapacity, StartEvent, ProviderErrs,
           ProviderAnswers, CommitUsage, ParkReservation, ReleaseReservation, FailOperation,
           CompleteOperation, ConcludeOperation, ReportOutcome, Die
<1>2. CASE LeaseLapses
  BY <1>2 DEF LeaseLapses, SlotsNext
<1>3. CASE UNCHANGED slotVars
  BY <1>3
<1> QED
  BY <1>1, <1>2, <1>3
     DEF PipelineNext, RowLapses, SweepRow, BreakerCools, pipelineVars

(* Every step of the pipeline is a step of the concurrency slots or leaves  *)
(* them alone, so what is proved of the slots holds of the pipeline.        *)
THEOREM PipelineImplementsSlots == PipelineSpec => SlotsSpec
<1>1. PipelineInit => SlotsInit
  BY DEF PipelineInit
<1>2. CallsTypeOK /\ [PipelineNext]_pipelineVars => [SlotsNext]_slotVars
  BY SlotsStepOfPipeline
<1> QED
  BY <1>1, <1>2, CallsTypeInvariant, PTL DEF PipelineSpec, SlotsSpec

(* A capped call that may be at the provider has its slot, or has outlived  *)
(* it: this is what the order acquire, invoke, free buys.                   *)
HoldsSlot ==
  \A c \in DOMAIN ScopeOf :
    pc[c] \in {"startEvent", "invoke"} => slot[c] = "active" \/ c \in slotLapsed

(* A call has its slot while the provider works for it, unless its lease    *)
(* lapsed.                                                                  *)
LEMMA HoldsSlotStep ==
  ASSUME CallsTypeOK, SlotsTypeOK, HoldsSlot, [PipelineNext]_pipelineVars
  PROVE  HoldsSlot'
<1> SUFFICES ASSUME NEW d \in DOMAIN ScopeOf, pc'[d] \in {"startEvent", "invoke"}
             PROVE  slot'[d] = "active" \/ d \in slotLapsed'
  BY DEF HoldsSlot
<1> d \in Calls
  BY SlotsAssumption
<1> USE DEF Goto, End
<1>1. CASE \E c \in Calls : CallStep(c) \/ Die(c)
  <2> PICK c \in Calls : CallStep(c) \/ Die(c)
    BY <1>1
  <2>1. CASE AcquireConcurrency(c)
    <3>1. CASE c = d
      BY <2>1, <3>1
         DEF AcquireConcurrency, AcquireSlot, Refused, Capped, CallsTypeOK, SlotsTypeOK, slotVars
    <3>2. CASE c # d
      <4>1. pc[d] \in {"startEvent", "invoke"}
        BY <2>1, <3>2 DEF AcquireConcurrency, Refused, CallsTypeOK
      <4>2. slot[d] = "active" \/ d \in slotLapsed
        BY <4>1 DEF HoldsSlot
      <4>3. slotLapsed' = slotLapsed
        BY <2>1 DEF AcquireConcurrency, AcquireSlot, RefuseSlot, slotVars
      <4>4. slot'[d] = slot[d] \/ d \in slotLapsed
        BY <2>1, <3>2
           DEF AcquireConcurrency, AcquireSlot, RefuseSlot, Abandoned, slotVars, SlotsTypeOK
      <4> QED
        BY <4>2, <4>3, <4>4
    <3> QED
      BY <3>1, <3>2
  <2>2. CASE FreeSlot(c)
    <3>1. c # d /\ pc[d] \in {"startEvent", "invoke"}
      BY <2>2 DEF FreeSlot, CallsTypeOK
    <3> QED
      BY <2>2, <3>1 DEF FreeSlot, ReleaseSlot, slotVars, HoldsSlot, SlotsTypeOK
  <2>3. CASE StartEvent(c) \/ UNCHANGED <<pc, slotVars>>
    BY <2>3 DEF StartEvent, CallsTypeOK, HoldsSlot, slotVars
  <2>4. CASE PassBreaker(c) \/ BeginOperation(c) \/ ReserveCapacity(c) \/ Die(c)
    BY <2>4 DEF PassBreaker, BeginOperation, ReserveCapacity, Die, CallsTypeOK, HoldsSlot, slotVars
  <2>5. CASE ProviderErrs(c) \/ ProviderAnswers(c) \/ CommitUsage(c) \/ ParkReservation(c)
    BY <2>5 DEF ProviderErrs, ProviderAnswers, CommitUsage, ParkReservation, CallsTypeOK,
                HoldsSlot, slotVars
  <2>6. CASE ReleaseReservation(c) \/ FailOperation(c) \/ CompleteOperation(c) \/ ReportOutcome(c)
    BY <2>6 DEF ReleaseReservation, FailOperation, CompleteOperation, ConcludeOperation,
                ReportOutcome, CallsTypeOK, HoldsSlot, slotVars
  <2> QED
    BY <2>1, <2>2, <2>3, <2>4, <2>5, <2>6 DEF CallStep
<1>2. CASE LeaseLapses
  BY <1>2 DEF LeaseLapses, SlotLapses, callVars, slotVars, HoldsSlot
<1>3. CASE UNCHANGED <<callVars, slotVars>>
  BY <1>3 DEF callVars, slotVars, HoldsSlot
<1> QED
  BY <1>1, <1>2, <1>3 DEF PipelineNext, RowLapses, SweepRow, BreakerCools, pipelineVars

(* The calls in flight are among the active slots, which stay within the    *)
(* cap.                                                                     *)
LEMMA HeldSlotsAreActive ==
  ASSUME SlotsTypeOK, CapHolds, HoldsSlot
  PROVE  InFlightWithinCap
<1> SUFFICES ASSUME NEW s \in Scopes PROVE Cardinality(InFlight(s) \ slotLapsed) <= MaxConcurrent
  BY DEF InFlightWithinCap
<1>1. InFlight(s) \ slotLapsed \subseteq ActiveIn(s)
  BY DEF InFlight, ActiveIn, HoldsSlot
<1>2. Cardinality(InFlight(s) \ slotLapsed) <= Cardinality(ActiveIn(s))
  BY <1>1, ActiveFinite, FS_Subset
<1>3. Cardinality(InFlight(s) \ slotLapsed) \in Nat /\ Cardinality(ActiveIn(s)) \in Nat
  BY <1>1, ActiveFinite, FS_Subset, FS_CardinalityType
<1> QED
  BY <1>2, <1>3, SlotsAssumption DEF CapHolds

(* However calls, deaths, failures and lapsing leases interleave, a user    *)
(* never has more calls at the provider than the cap, but for calls that    *)
(* have outlived their slot.                                                *)
THEOREM PipelineWithinCap == PipelineSpec => []InFlightWithinCap
<1>1. PipelineInit => HoldsSlot
  BY SlotsAssumption DEF PipelineInit, HoldsSlot
<1>2. CallsTypeOK /\ SlotsTypeOK /\ HoldsSlot /\ [PipelineNext]_pipelineVars => HoldsSlot'
  BY HoldsSlotStep
<1>3. SlotsTypeOK /\ CapHolds /\ HoldsSlot => InFlightWithinCap
  BY HeldSlotsAreActive
<1> QED
  BY <1>1, <1>2, <1>3, CallsTypeInvariant, PipelineImplementsSlots, SlotsInvariant, PTL
     DEF PipelineSpec

-------------------------------------------------------------------------------
(* The operations under the pipeline *)

LocksTypeOK ==
  /\ lock \in [Operations -> LockStatuses]
  /\ lastBegin \in [Operations -> SUBSET Calls]

(* A call that owns a prompt operation is the one that last began it, and   *)
(* the row still says so: this is what a fencing token would assert.        *)
OwnersHoldLocks ==
  \A c \in Calls :
    Owns(c) /\ Prompt(KeyOf[c]) =>
      /\ lock[KeyOf[c]] = "in_progress"
      /\ KeyOf[c] \notin lockLapsed
      /\ lastBegin[KeyOf[c]] = {c}

(* Every step keeps the operations' locks well typed. *)
LEMMA LocksTypeStep ==
  ASSUME LocksTypeOK, [PipelineNext]_pipelineVars
  PROVE  LocksTypeOK'
<1> USE DEF LocksTypeOK, LockStatuses
<1>1. CASE \E c \in Calls : CallStep(c) \/ Die(c)
  <2> PICK c \in Calls : CallStep(c) \/ Die(c)
    BY <1>1
  <2>1. CASE BeginOperation(c)
    BY <2>1 DEF BeginOperation, Begin, LockStays, lockVars
  <2>2. CASE FailOperation(c) \/ CompleteOperation(c)
    BY <2>2 DEF FailOperation, CompleteOperation, ConcludeOperation, Conclude, lockVars
  <2>3. CASE LockStays
    BY <2>3 DEF LockStays, lockVars
  <2> QED
    BY <2>1, <2>2, <2>3
       DEF CallStep, PassBreaker, ReserveCapacity, AcquireConcurrency, StartEvent, ProviderErrs,
           ProviderAnswers, CommitUsage, ParkReservation, ReleaseReservation, ReportOutcome,
           FreeSlot, Die
<1>2. CASE LeaseLapses
  BY <1>2 DEF LeaseLapses, LockLapses, lockVars, ghostVars
<1>3. CASE UNCHANGED <<lockVars, ghostVars>>
  BY <1>3 DEF lockVars, ghostVars
<1>4. CASE UNCHANGED <<lockVars, lastBegin>>
  BY <1>4 DEF lockVars
<1> QED
  BY <1>1, <1>2, <1>3, <1>4 DEF PipelineNext, RowLapses, SweepRow, BreakerCools, pipelineVars

(* A step that moves no lock keeps the invariant if it makes no new owner. *)
LEMMA NoNewOwner ==
  ASSUME OwnersHoldLocks, LockStays, \A d \in Calls : Owns(d)' => Owns(d)
  PROVE  OwnersHoldLocks'
BY DEF OwnersHoldLocks, LockStays, lockVars, Prompt

(* A begin that is granted finds no other owner whose lease is running. *)
LEMMA BeginKeepsOwners ==
  ASSUME CallsTypeOK, LocksTypeOK, OwnersHoldLocks, NEW c \in Calls, BeginOperation(c)
  PROVE  OwnersHoldLocks'
<1>0. \A d \in Calls : d # c => (Owns(d)' <=> Owns(d))
  BY DEF BeginOperation, Goto, End, CallsTypeOK, Owns, Deduplicated
<1>1. CASE LockStays /\ (~Deduplicated(c) \/ End(c, "denied", "done"))
  <2>1. ~Owns(c)'
    BY <1>1 DEF End, CallsTypeOK, Owns, Deduplicated
  <2> QED
    BY <1>0, <1>1, <2>1, NoNewOwner
<1>2. CASE /\ Deduplicated(c)
           /\ Begin(KeyOf[c])
           /\ lastBegin' = [lastBegin EXCEPT ![KeyOf[c]] = {c}]
  <2> SUFFICES ASSUME NEW d \in Calls, Owns(d)', Prompt(KeyOf[d])
               PROVE  /\ lock'[KeyOf[d]] = "in_progress"
                      /\ KeyOf[d] \notin lockLapsed'
                      /\ lastBegin'[KeyOf[d]] = {d}
    BY DEF OwnersHoldLocks, Prompt
  <2>1. CASE d = c
    BY <1>2, <2>1 DEF Begin, LocksTypeOK, Deduplicated
  <2>2. CASE d # c
    <3>1. /\ lock[KeyOf[d]] = "in_progress"
          /\ KeyOf[d] \notin lockLapsed
          /\ lastBegin[KeyOf[d]] = {d}
      BY <1>0, <2>2 DEF OwnersHoldLocks
    <3>2. KeyOf[d] # KeyOf[c]
      BY <1>2, <3>1 DEF Begin, Claimable
    <3> QED
      BY <1>2, <3>1, <3>2 DEF Begin, LocksTypeOK
  <2> QED
    BY <2>1, <2>2
<1> QED
  BY <1>1, <1>2 DEF BeginOperation

(* Only the owner concludes a prompt operation, and stops owning it. *)
LEMMA ConcludeKeepsOwners ==
  ASSUME CallsTypeOK, LocksTypeOK, OwnersHoldLocks, NEW c \in Calls,
         FailOperation(c) \/ CompleteOperation(c)
  PROVE  OwnersHoldLocks'
<1> SUFFICES ASSUME NEW d \in Calls, Owns(d)', Prompt(KeyOf[d])
             PROVE  /\ lock'[KeyOf[d]] = "in_progress"
                    /\ KeyOf[d] \notin lockLapsed'
                    /\ lastBegin'[KeyOf[d]] = {d}
  BY DEF OwnersHoldLocks, Prompt
<1>1. d # c /\ Owns(d)
  BY DEF FailOperation, CompleteOperation, ConcludeOperation, Goto, CallsTypeOK, Owns, Deduplicated
<1>2. /\ lock[KeyOf[d]] = "in_progress"
      /\ KeyOf[d] \notin lockLapsed
      /\ lastBegin[KeyOf[d]] = {d}
  BY <1>1 DEF OwnersHoldLocks
<1>3. KeyOf[c] # KeyOf[d]
  <2> SUFFICES ASSUME KeyOf[c] = KeyOf[d] PROVE FALSE
    OBVIOUS
  <2>1. Owns(c)
    BY <1>1 DEF FailOperation, CompleteOperation, ConcludeOperation, Owns, Deduplicated
  <2>2. lastBegin[KeyOf[c]] = {c}
    BY <2>1 DEF OwnersHoldLocks
  <2> QED
    BY <1>1, <1>2, <2>2
<1> QED
  BY <1>1, <1>2, <1>3
     DEF FailOperation, CompleteOperation, ConcludeOperation, Conclude, lockVars, LocksTypeOK,
         Owns, Deduplicated

(* Every step keeps: an owner is the last to have begun, and its lock is in *)
(* progress.                                                                *)
LEMMA OwnersStep ==
  ASSUME CallsTypeOK, LocksTypeOK, OwnersHoldLocks, [PipelineNext]_pipelineVars
  PROVE  OwnersHoldLocks'
<1> USE DEF Owns, Deduplicated
<1>1. CASE \E c \in Calls : CallStep(c) \/ Die(c)
  <2> PICK c \in Calls : CallStep(c) \/ Die(c)
    BY <1>1
  <2> USE DEF Goto, End, CallsTypeOK
  <2>1. CASE PassBreaker(c) \/ Die(c)
    BY <2>1, NoNewOwner DEF PassBreaker, Die
  <2>2. CASE BeginOperation(c)
    BY <2>2, BeginKeepsOwners
  <2>3. CASE ReserveCapacity(c) \/ AcquireConcurrency(c)
    BY <2>3, NoNewOwner DEF ReserveCapacity, AcquireConcurrency, Refused
  <2>4. CASE StartEvent(c) \/ ProviderErrs(c) \/ ProviderAnswers(c)
    BY <2>4, NoNewOwner DEF StartEvent, ProviderErrs, ProviderAnswers
  <2>5. CASE CommitUsage(c) \/ ParkReservation(c) \/ ReleaseReservation(c)
    BY <2>5, NoNewOwner DEF CommitUsage, ParkReservation, ReleaseReservation
  <2>6. CASE FailOperation(c) \/ CompleteOperation(c)
    BY <2>6, ConcludeKeepsOwners
  <2>7. CASE ReportOutcome(c) \/ FreeSlot(c)
    BY <2>7, NoNewOwner DEF ReportOutcome, FreeSlot
  <2> QED
    BY <2>1, <2>2, <2>3, <2>4, <2>5, <2>6, <2>7 DEF CallStep
<1>2. CASE LeaseLapses
  <2> SUFFICES ASSUME NEW d \in Calls, Owns(d), Prompt(KeyOf[d])
               PROVE  /\ lock'[KeyOf[d]] = "in_progress"
                      /\ KeyOf[d] \notin lockLapsed'
                      /\ lastBegin'[KeyOf[d]] = {d}
    BY <1>2 DEF OwnersHoldLocks, LeaseLapses, callVars, Prompt
  <2>1. lastBegin[KeyOf[d]] = {d} /\ lock[KeyOf[d]] = "in_progress" /\ KeyOf[d] \notin lockLapsed
    BY DEF OwnersHoldLocks
  <2>2. ~MayOutlive(lastBegin[KeyOf[d]])
    BY <2>1 DEF MayOutlive, Over, Prompt
  <2> QED
    BY <1>2, <2>1, <2>2 DEF LeaseLapses, LockLapses, lockVars, ghostVars
<1>3. CASE UNCHANGED <<callVars, lockVars, lastBegin>>
  BY <1>3, NoNewOwner DEF callVars, LockStays, lockVars
<1> QED
  BY <1>1, <1>2, <1>3
     DEF PipelineNext, RowLapses, SweepRow, BreakerCools, pipelineVars, ghostVars

(* However begins, failures, deaths and lapsing leases interleave, two      *)
(* calls of one operation are never at work together unless a call of it    *)
(* is slow.  (Any slow call of the operation will do: the row has no        *)
(* fencing token.)                                                          *)
THEOREM PipelineOneOwner == PipelineSpec => []OneOwnerPerOperation
<1>1. PipelineInit => LocksTypeOK /\ OwnersHoldLocks
  BY DEF PipelineInit, LocksInit, LocksTypeOK, LockStatuses, OwnersHoldLocks, Owns
<1>2. LocksTypeOK /\ [PipelineNext]_pipelineVars => LocksTypeOK'
  BY LocksTypeStep
<1>3. /\ CallsTypeOK /\ LocksTypeOK /\ OwnersHoldLocks
      /\ [PipelineNext]_pipelineVars
      => OwnersHoldLocks'
  BY OwnersStep
<1>4. OwnersHoldLocks => OneOwnerPerOperation
  BY DEF OwnersHoldLocks, OneOwnerPerOperation, Prompt
<1> QED
  BY <1>1, <1>2, <1>3, <1>4, CallsTypeInvariant, PTL DEF PipelineSpec
-------------------------------------------------------------------------------
(* What the calls leave behind *)

(* The stages of a call before its reservation can be its own, and those in *)
(* which its reservation is still to be settled or released.                *)
Before == {"breakerGate", "begin", "reserve"}
Tending == {"acquire", "startEvent", "invoke", "commit", "releaseRow"}

(* The stages in which a call has a slot to give back.                      *)
Running ==
  {"startEvent", "invoke", "commit", "park", "releaseRow", "failLock", "completeLock",
   "record", "freeSlot"}

HistoryTypeOK ==
  /\ author \in [Keys -> SUBSET Calls]
  /\ broken \subseteq Calls
  /\ rowLapsed \subseteq Keys

(* A call has no outcome before the provider answers or a gate denies it,   *)
(* and what goes to the provider is tracked unless a round trip failed.     *)
StagesInOrder ==
  \A c \in Calls :
    /\ pc[c] \in Before \cup {"acquire", "startEvent", "invoke"} => outcome[c] = "none"
    /\ pc[c] = "invoke" => c \in tracked \/ c \in broken

(* A pending row whose call has not failed is one the call will settle.     *)
RowIsTended ==
  \A c \in Calls :
    /\ pc[c] \in Before => author[Row(c)] # {c}
    /\ author[Row(c)] = {c} /\ status[Row(c)] = "pending" =>
         c \in broken \/ pc[c] \in Tending

(* An operation in progress, likewise, is one its call will conclude.       *)
LockIsTended ==
  \A c \in Calls : Deduplicated(c) =>
    /\ pc[c] \in {"breakerGate", "begin"} => lastBegin[KeyOf[c]] # {c}
    /\ lastBegin[KeyOf[c]] = {c} /\ lock[KeyOf[c]] = "in_progress" =>
         c \in broken \/ Owns(c)

(* And an active slot is one its call will free.                            *)
SlotIsTended ==
  \A c \in Calls : slot[c] = "active" =>
    /\ Capped(c)
    /\ c \in broken \/ (pc[c] \in Running /\ outcome[c] # "denied")

(* What a step of one call leaves of another.                               *)
LEMMA OtherCallsStay ==
  ASSUME CallsTypeOK, HistoryTypeOK, NEW c \in Calls, CallStep(c) \/ Die(c),
         NEW d \in Calls, d # c
  PROVE  /\ pc'[d] = pc[d] /\ outcome'[d] = outcome[d] /\ used'[d] = used[d]
         /\ d \in tracked' <=> d \in tracked
         /\ d \in broken' <=> d \in broken
<1> USE DEF Goto, End, Fine, Breaks, CallsTypeOK, HistoryTypeOK
<1>1. CASE PassBreaker(c) \/ BeginOperation(c) \/ ReserveCapacity(c)
  BY <1>1 DEF PassBreaker, BeginOperation, ReserveCapacity
<1>2. CASE AcquireConcurrency(c) \/ StartEvent(c)
  BY <1>2 DEF AcquireConcurrency, Refused, StartEvent
<1>3. CASE ProviderErrs(c) \/ ProviderAnswers(c)
  BY <1>3 DEF ProviderErrs, ProviderAnswers
<1>4. CASE CommitUsage(c) \/ ParkReservation(c) \/ ReleaseReservation(c)
  BY <1>4 DEF CommitUsage, ParkReservation, ReleaseReservation
<1>5. CASE FailOperation(c) \/ CompleteOperation(c)
  BY <1>5 DEF FailOperation, CompleteOperation, ConcludeOperation
<1>6. CASE ReportOutcome(c) \/ FreeSlot(c) \/ Die(c)
  BY <1>6 DEF ReportOutcome, FreeSlot, Die
<1> QED
  BY <1>1, <1>2, <1>3, <1>4, <1>5, <1>6 DEF CallStep

(* Every step keeps the history variables well typed. *)
LEMMA HistoryTypeStep ==
  ASSUME HistoryTypeOK, [PipelineNext]_pipelineVars
  PROVE  HistoryTypeOK'
<1> USE DEF HistoryTypeOK, Fine, Breaks
<1>1. CASE \E c \in Calls : CallStep(c) \/ Die(c)
  <2> PICK c \in Calls : CallStep(c) \/ Die(c)
    BY <1>1
  <2>1. CASE ReserveCapacity(c)
    BY <2>1, PipelineAssumption DEF ReserveCapacity, Row
  <2>2. CASE LedgerStays \/ UNCHANGED <<author, rowLapsed>>
    <3>1. broken' \subseteq Calls
      BY DEF CallStep, PassBreaker, BeginOperation, ReserveCapacity, AcquireConcurrency,
             StartEvent, ProviderErrs, ProviderAnswers, CommitUsage, ParkReservation,
             ReleaseReservation, FailOperation, CompleteOperation, ConcludeOperation,
             ReportOutcome, FreeSlot, Die
    <3> QED
      BY <2>2, <3>1 DEF LedgerStays
  <2> QED
    BY <2>1, <2>2
       DEF CallStep, PassBreaker, BeginOperation, AcquireConcurrency, StartEvent, ProviderErrs,
           ProviderAnswers, CommitUsage, ParkReservation, ReleaseReservation, FailOperation,
           CompleteOperation, ConcludeOperation, ReportOutcome, FreeSlot, Die
<1>2. CASE \E k \in Keys : RowLapses(k) \/ SweepRow(k)
  BY <1>2 DEF RowLapses, SweepRow, ghostVars
<1>3. CASE UNCHANGED <<broken, ghostVars, rowLapsed>>
  BY <1>3 DEF ghostVars
<1> QED
  BY <1>1, <1>2, <1>3 DEF PipelineNext, LeaseLapses, BreakerCools, pipelineVars

(* Steps around the calls: time, the cron and stuttering.                   *)
Around ==
  \/ \E k \in Keys : RowLapses(k) \/ SweepRow(k)
  \/ LeaseLapses
  \/ BreakerCools
  \/ UNCHANGED pipelineVars

(* Time and the sweep leave the calls alone. *)
LEMMA AroundTheCalls ==
  ASSUME Around
  PROVE  UNCHANGED <<callVars, broken, author, lastBegin>>
BY DEF Around, RowLapses, SweepRow, LeaseLapses, BreakerCools, pipelineVars, ghostVars

(* Every step keeps what a call's stage says of its slot, its answer and    *)
(* its row.                                                                 *)
LEMMA StagesInOrderStep ==
  ASSUME CallsTypeOK, HistoryTypeOK, StagesInOrder, [PipelineNext]_pipelineVars
  PROVE  StagesInOrder'
<1> SUFFICES ASSUME NEW d \in Calls
             PROVE  /\ pc'[d] \in Before \cup {"acquire", "startEvent", "invoke"} => outcome'[d] = "none"
                    /\ pc'[d] = "invoke" => d \in tracked' \/ d \in broken'
  BY DEF StagesInOrder
<1>0. /\ pc[d] \in Before \cup {"acquire", "startEvent", "invoke"} => outcome[d] = "none"
      /\ pc[d] = "invoke" => d \in tracked \/ d \in broken
  BY DEF StagesInOrder
<1>1. ASSUME NEW c \in Calls, CallStep(c) \/ Die(c)
      PROVE  /\ pc'[d] \in Before \cup {"acquire", "startEvent", "invoke"} => outcome'[d] = "none"
             /\ pc'[d] = "invoke" => d \in tracked' \/ d \in broken'
  <2>1. CASE c # d
    BY <1>0, <1>1, <2>1, OtherCallsStay
  <2>2. CASE c = d
    <3> USE <1>0, <2>2 DEF Goto, End, Fine, Breaks, CallsTypeOK, HistoryTypeOK, Before
    <3>1. CASE PassBreaker(c) \/ BeginOperation(c) \/ ReserveCapacity(c)
      BY <3>1 DEF PassBreaker, BeginOperation, ReserveCapacity
    <3>2. CASE AcquireConcurrency(c) \/ StartEvent(c)
      BY <3>2 DEF AcquireConcurrency, Refused, StartEvent
    <3>3. CASE ProviderErrs(c) \/ ProviderAnswers(c)
      BY <3>3 DEF ProviderErrs, ProviderAnswers
    <3>4. CASE CommitUsage(c) \/ ParkReservation(c) \/ ReleaseReservation(c)
      BY <3>4 DEF CommitUsage, ParkReservation, ReleaseReservation
    <3>5. CASE FailOperation(c) \/ CompleteOperation(c)
      BY <3>5 DEF FailOperation, CompleteOperation, ConcludeOperation
    <3>6. CASE ReportOutcome(c) \/ FreeSlot(c) \/ Die(c)
      BY <3>6 DEF ReportOutcome, FreeSlot, Die
    <3> QED
      BY <1>1, <3>1, <3>2, <3>3, <3>4, <3>5, <3>6 DEF CallStep
  <2> QED
    BY <2>1, <2>2
<1>2. CASE Around
  BY <1>0, <1>2, AroundTheCalls DEF callVars
<1> QED
  BY <1>1, <1>2 DEF PipelineNext, Around

(* A row is pending only if its maker made it so: a reserve aside, a call   *)
(* makes no row pending, nor moves the author of one.                       *)
LEMMA PendingIsOld ==
  ASSUME CallsTypeOK, LedgerTypeOK, HistoryTypeOK, NEW c \in Calls, CallStep(c) \/ Die(c),
         NEW k \in Keys
  PROVE  \/ author'[k] = author[k] /\ (status'[k] = "pending" => status[k] = "pending")
         \/ pc[c] = "reserve" /\ k = Row(c) /\ author'[k] = {c}
<1> USE DEF LedgerTypeOK, HistoryTypeOK
<1>0. Row(c) \in Keys
  BY PipelineAssumption DEF Row
<1>1. CASE ReserveCapacity(c)
  BY <1>0, <1>1 DEF ReserveCapacity, Reserve, ledgerVars
<1>2. CASE CommitUsage(c)
  BY <1>0, <1>2 DEF CommitUsage, CommitCall, Commit, ledgerVars
<1>3. CASE ParkReservation(c)
  BY <1>0, <1>3 DEF ParkReservation, MarkCall, MarkReconciliationRequired, ledgerVars
<1>4. CASE ReleaseReservation(c)
  BY <1>0, <1>4 DEF ReleaseReservation, ReleaseCall, Release, ledgerVars
<1>5. CASE LedgerStays
  BY <1>5 DEF LedgerStays, ledgerVars
<1> QED
  BY <1>1, <1>2, <1>3, <1>4, <1>5
     DEF CallStep, PassBreaker, BeginOperation, AcquireConcurrency, StartEvent, ProviderErrs,
         ProviderAnswers, FailOperation, CompleteOperation, ConcludeOperation, ReportOutcome,
         FreeSlot, Die

(* Time and the sweep make no reservation. *)
LEMMA AroundNothingReserved ==
  ASSUME LedgerTypeOK, Around, NEW k \in Keys
  PROVE  status'[k] = "pending" => status[k] = "pending"
BY DEF Around, RowLapses, SweepRow, LeaseLapses, BreakerCools, pipelineVars, ledgerVars, Release,
       LedgerTypeOK

(* Every step keeps: a pending row is one its call will settle or the sweep *)
(* will.                                                                    *)
LEMMA RowIsTendedStep ==
  ASSUME CallsTypeOK, LedgerTypeOK, HistoryTypeOK, StagesInOrder, RowIsTended,
         [PipelineNext]_pipelineVars
  PROVE  RowIsTended'
<1> DEFINE Tended(d) ==
      /\ pc[d] \in Before => author[Row(d)] # {d}
      /\ author[Row(d)] = {d} /\ status[Row(d)] = "pending" => d \in broken \/ pc[d] \in Tending
<1> SUFFICES ASSUME NEW d \in Calls PROVE Tended(d)'
  BY DEF RowIsTended, Row
<1>0. Tended(d) /\ Row(d) \in Keys
  BY PipelineAssumption DEF RowIsTended, Row
<1>1. ASSUME NEW c \in Calls, CallStep(c) \/ Die(c)
      PROVE  Tended(d)'
  <2>1. CASE c # d
    BY <1>0, <1>1, <2>1, OtherCallsStay, PendingIsOld DEF Row
  <2>2. CASE c = d
    <3> USE <1>0, <2>2 DEF Goto, End, Fine, Breaks, CallsTypeOK, HistoryTypeOK, LedgerTypeOK, Before,
            Tending, Row
    <3>1. CASE PassBreaker(c) \/ BeginOperation(c)
      BY <3>1 DEF PassBreaker, BeginOperation, LedgerStays, ledgerVars
    <3>2. CASE ReserveCapacity(c)
      BY <3>2 DEF ReserveCapacity, ledgerVars
    <3>3. CASE AcquireConcurrency(c) \/ StartEvent(c) \/ ProviderErrs(c)
      BY <3>3 DEF AcquireConcurrency, Refused, StartEvent, ProviderErrs, LedgerStays, ledgerVars
    <3>4. CASE ProviderAnswers(c)
      BY <3>4 DEF ProviderAnswers, LedgerStays, ledgerVars, StagesInOrder
    <3>5. CASE CommitUsage(c)
      BY <3>5 DEF CommitUsage, CommitCall, Commit, Finalisable, ledgerVars
    <3>6. CASE ParkReservation(c)
      BY <3>6 DEF ParkReservation, MarkCall, MarkReconciliationRequired, ledgerVars
    <3>7. CASE ReleaseReservation(c)
      BY <3>7 DEF ReleaseReservation, ReleaseCall, Release, Finalisable, ledgerVars
    <3>8. CASE FailOperation(c) \/ CompleteOperation(c)
      BY <3>8 DEF FailOperation, CompleteOperation, ConcludeOperation, LedgerStays, ledgerVars
    <3>9. CASE ReportOutcome(c) \/ FreeSlot(c) \/ Die(c)
      BY <3>9 DEF ReportOutcome, FreeSlot, Die, LedgerStays, ledgerVars, Over
    <3> QED
      BY <1>1, <3>1, <3>2, <3>3, <3>4, <3>5, <3>6, <3>7, <3>8, <3>9 DEF CallStep
  <2> QED
    BY <2>1, <2>2
<1>2. CASE Around
  BY <1>0, <1>2, AroundTheCalls, AroundNothingReserved DEF callVars, Row
<1> QED
  BY <1>1, <1>2 DEF PipelineNext, Around

(* Every step keeps: a lock in progress is one its call will end or a lost  *)
(* round trip left.                                                         *)
LEMMA LockIsTendedStep ==
  ASSUME CallsTypeOK, LocksTypeOK, HistoryTypeOK, LockIsTended, [PipelineNext]_pipelineVars
  PROVE  LockIsTended'
<1> DEFINE Tended(d) ==
      /\ pc[d] \in {"breakerGate", "begin"} => lastBegin[KeyOf[d]] # {d}
      /\ lastBegin[KeyOf[d]] = {d} /\ lock[KeyOf[d]] = "in_progress" => d \in broken \/ Owns(d)
<1> SUFFICES ASSUME NEW d \in Calls, Deduplicated(d) PROVE Tended(d)'
  BY DEF LockIsTended, Deduplicated
<1>0. Tended(d) /\ KeyOf[d] \in Operations
  BY DEF LockIsTended, Deduplicated
<1>1. ASSUME NEW c \in Calls, CallStep(c) \/ Die(c)
      PROVE  Tended(d)'
  <2> USE DEF Goto, End, Fine, Breaks, CallsTypeOK, HistoryTypeOK, LocksTypeOK, Owns, Deduplicated
  <2>1. CASE BeginOperation(c)
    <3>1. CASE c = d
      BY <1>0, <2>1, <3>1 DEF BeginOperation, Begin, LockStays, lockVars
    <3>2. CASE c # d
      <4>1. /\ pc'[d] = pc[d] /\ (d \in broken' <=> d \in broken)
        BY <2>1, <3>2, OtherCallsStay DEF CallStep
      <4>2. CASE LockStays
        BY <1>0, <4>1, <4>2 DEF LockStays, lockVars
      <4>3. CASE lastBegin' = [lastBegin EXCEPT ![KeyOf[c]] = {c}] /\ Begin(KeyOf[c])
        BY <1>0, <3>2, <4>1, <4>3 DEF Begin
      <4> QED
        BY <2>1, <4>2, <4>3 DEF BeginOperation
    <3> QED
      BY <3>1, <3>2
  <2>2. CASE FailOperation(c) \/ CompleteOperation(c)
    <3>1. CASE c = d
      BY <1>0, <2>2, <3>1
         DEF FailOperation, CompleteOperation, ConcludeOperation, Conclude, lockVars
    <3>2. CASE c # d
      <4>1. /\ pc'[d] = pc[d] /\ (d \in broken' <=> d \in broken)
        BY <2>2, <3>2, OtherCallsStay DEF CallStep
      <4>2. /\ lastBegin' = lastBegin
            /\ lock'[KeyOf[d]] = "in_progress" => lock[KeyOf[d]] = "in_progress"
        BY <1>0, <2>2
           DEF FailOperation, CompleteOperation, ConcludeOperation, Conclude, lockVars
      <4> QED
        BY <1>0, <4>1, <4>2
    <3> QED
      BY <3>1, <3>2
  <2>3. CASE LockStays /\ ~BeginOperation(c) /\ ~FailOperation(c) /\ ~CompleteOperation(c)
    <3>1. CASE c # d
      BY <1>0, <1>1, <2>3, <3>1, OtherCallsStay DEF LockStays, lockVars
    <3>2. CASE c = d
      <4> USE <1>0, <2>3, <3>2 DEF LockStays, lockVars
      <4>1. CASE PassBreaker(c) \/ ReserveCapacity(c) \/ AcquireConcurrency(c)
        BY <4>1 DEF PassBreaker, ReserveCapacity, AcquireConcurrency, Refused
      <4>2. CASE StartEvent(c) \/ ProviderErrs(c) \/ ProviderAnswers(c)
        BY <4>2 DEF StartEvent, ProviderErrs, ProviderAnswers
      <4>3. CASE CommitUsage(c) \/ ParkReservation(c) \/ ReleaseReservation(c)
        BY <4>3 DEF CommitUsage, ParkReservation, ReleaseReservation
      <4>4. CASE ReportOutcome(c) \/ FreeSlot(c) \/ Die(c)
        BY <4>4 DEF ReportOutcome, FreeSlot, Die
      <4> QED
        BY <1>1, <4>1, <4>2, <4>3, <4>4 DEF CallStep
    <3> QED
      BY <3>1, <3>2
  <2> QED
    BY <1>1, <2>1, <2>2, <2>3
       DEF CallStep, PassBreaker, ReserveCapacity, AcquireConcurrency, StartEvent, ProviderErrs,
           ProviderAnswers, CommitUsage, ParkReservation, ReleaseReservation, ReportOutcome,
           FreeSlot, Die
<1>2. CASE Around
  <2>1. lock' = lock
    BY <1>2 DEF Around, RowLapses, SweepRow, LeaseLapses, LockLapses, BreakerCools, pipelineVars, lockVars
  <2> QED
    BY <1>0, <1>2, <2>1, AroundTheCalls DEF callVars, Owns, Deduplicated
<1> QED
  BY <1>1, <1>2 DEF PipelineNext, Around

(* No step makes a slot active but its own call's acquire.                  *)
LEMMA SlotIsTendedStep ==
  ASSUME CallsTypeOK, SlotsTypeOK, HistoryTypeOK, StagesInOrder, SlotIsTended,
         [PipelineNext]_pipelineVars
  PROVE  SlotIsTended'
<1> DEFINE Tended(d) ==
      slot[d] = "active" =>
        /\ Capped(d)
        /\ d \in broken \/ (pc[d] \in Running /\ outcome[d] # "denied")
<1> SUFFICES ASSUME NEW d \in Calls PROVE Tended(d)'
  BY DEF SlotIsTended, Capped
<1>0. Tended(d)
  BY DEF SlotIsTended
<1>1. ASSUME NEW c \in Calls, CallStep(c) \/ Die(c)
      PROVE  Tended(d)'
  <2> USE DEF Goto, End, Fine, Breaks, CallsTypeOK, HistoryTypeOK, SlotsTypeOK, Capped
  <2>1. CASE c # d
    <3>1. slot'[d] = "active" => slot[d] = "active"
      BY <1>1, <2>1
         DEF CallStep, PassBreaker, BeginOperation, ReserveCapacity, AcquireConcurrency, AcquireSlot,
             RefuseSlot, StartEvent, ProviderErrs, ProviderAnswers, CommitUsage, ParkReservation,
             ReleaseReservation, FailOperation, CompleteOperation, ConcludeOperation,
             ReportOutcome, FreeSlot, ReleaseSlot, Die, slotVars
    <3> QED
      BY <1>0, <1>1, <2>1, <3>1, OtherCallsStay
  <2>2. CASE c = d
    <3> USE <1>0, <2>2 DEF Running, slotVars
    <3>1. CASE PassBreaker(c) \/ BeginOperation(c) \/ ReserveCapacity(c)
      BY <3>1 DEF PassBreaker, BeginOperation, ReserveCapacity
    <3>2. CASE AcquireConcurrency(c)
      BY <3>2 DEF AcquireConcurrency, AcquireSlot, RefuseSlot, Refused, StagesInOrder
    <3>3. CASE StartEvent(c) \/ ProviderErrs(c) \/ ProviderAnswers(c)
      BY <3>3 DEF StartEvent, ProviderErrs, ProviderAnswers
    <3>4. CASE CommitUsage(c) \/ ParkReservation(c) \/ ReleaseReservation(c)
      BY <3>4 DEF CommitUsage, ParkReservation, ReleaseReservation
    <3>5. CASE FailOperation(c) \/ CompleteOperation(c)
      BY <3>5 DEF FailOperation, CompleteOperation, ConcludeOperation
    <3>6. CASE ReportOutcome(c) \/ Die(c)
      BY <3>6 DEF ReportOutcome, Die
    <3>7. CASE FreeSlot(c)
      BY <3>7 DEF FreeSlot, ReleaseSlot
    <3> QED
      BY <1>1, <3>1, <3>2, <3>3, <3>4, <3>5, <3>6, <3>7 DEF CallStep
  <2> QED
    BY <2>1, <2>2
<1>2. CASE Around
  <2>1. slot' = slot
    BY <1>2 DEF Around, RowLapses, SweepRow, LeaseLapses, SlotLapses, BreakerCools, pipelineVars, slotVars
  <2> QED
    BY <1>0, <1>2, <2>1, AroundTheCalls DEF callVars, Capped
<1> QED
  BY <1>1, <1>2 DEF PipelineNext, Around

(* A call that is over tends nothing, so nothing of it is left. *)
LEMMA TendedIsDone ==
  ASSUME RowIsTended, LockIsTended, SlotIsTended
  PROVE  NothingLeftBehind
BY DEF RowIsTended, LockIsTended, SlotIsTended, NothingLeftBehind, Tending, Running, Owns,
       Deduplicated

-------------------------------------------------------------------------------
(* What an answered call is charged *)

(* A reservation lapses only once its call is over, or is slow.             *)
LapsedRows == \A k \in rowLapsed : status[k] # "absent" /\ MayOutlive(author[k])

(* The row a prompt call made is pending until the call has its answer and  *)
(* commits it, and then says what the answer used, for ever.                *)
AnswerIsKept ==
  \A c \in Calls \ broken :
    author[Row(c)] = {c} /\ Prompt(KeyOf[c]) =>
      /\ pc[c] \in {"acquire", "startEvent", "invoke", "commit"} => status[Row(c)] = "pending"
      /\ outcome[c] = "answered" => pc[c] = "commit" \/ CountedFor(c)

(* No step of a call is left once it is done or dead.                       *)
LEMMA OverStays ==
  ASSUME CallsTypeOK, HistoryTypeOK, [PipelineNext]_pipelineVars, NEW d \in Calls, Over(d)
  PROVE  Over(d)'
<1>1. ASSUME NEW c \in Calls, CallStep(c) \/ Die(c)
      PROVE  Over(d)'
  <2>1. c # d
    BY <1>1
       DEF Over, CallStep, PassBreaker, BeginOperation, ReserveCapacity, AcquireConcurrency,
           StartEvent, ProviderErrs, ProviderAnswers, CommitUsage, ParkReservation,
           ReleaseReservation, FailOperation, CompleteOperation, ConcludeOperation,
           ReportOutcome, FreeSlot, Die
  <2> QED
    BY <1>1, <2>1, OtherCallsStay DEF Over
<1>2. CASE Around
  BY <1>2, AroundTheCalls DEF callVars, Over
<1> QED
  BY <1>1, <1>2 DEF PipelineNext, Around

(* A row once made keeps its author, and is never unmade.                   *)
LEMMA RowsRemain ==
  ASSUME CallsTypeOK, LedgerTypeOK, HistoryTypeOK, [PipelineNext]_pipelineVars,
         NEW k \in Keys, status[k] # "absent"
  PROVE  status'[k] # "absent" /\ author'[k] = author[k]
<1>1. status'[k] # "absent"
  <2>1. [LedgerNext]_ledgerVars
    BY LedgerStepOfPipeline
  <2> QED
    BY <2>1 DEF LedgerNext, Reserve, Commit, Release, Expire, MarkReconciliationRequired,
                LedgerTypeOK, ledgerVars
<1>2. author'[k] = author[k]
  <2>1. ASSUME NEW c \in Calls, CallStep(c) \/ Die(c)
        PROVE  author'[k] = author[k]
    <3>1. CASE ReserveCapacity(c)
      BY <3>1 DEF ReserveCapacity, Reserve, HistoryTypeOK
    <3>2. CASE ~ReserveCapacity(c)
      BY <2>1, <3>2
         DEF CallStep, PassBreaker, BeginOperation, AcquireConcurrency, StartEvent, ProviderErrs,
             ProviderAnswers, CommitUsage, ParkReservation, ReleaseReservation, FailOperation,
             CompleteOperation, ConcludeOperation, ReportOutcome, FreeSlot, Die, LedgerStays
    <3> QED
      BY <3>1, <3>2
  <2>2. CASE Around
    BY <2>2, AroundTheCalls
  <2> QED
    BY <2>1, <2>2 DEF PipelineNext, Around
<1> QED
  BY <1>1, <1>2

(* Every step keeps: a reservation lapses only under a call that is over or *)
(* slow.                                                                    *)
LEMMA LapsedRowsStep ==
  ASSUME CallsTypeOK, LedgerTypeOK, HistoryTypeOK, LapsedRows, [PipelineNext]_pipelineVars
  PROVE  LapsedRows'
<1> SUFFICES ASSUME NEW k \in rowLapsed' PROVE status'[k] # "absent" /\ MayOutlive(author[k])'
  BY DEF LapsedRows
<1>1. k \in Keys /\ status[k] # "absent" /\ MayOutlive(author[k])
  <2>1. CASE k \in rowLapsed
    BY <2>1 DEF LapsedRows, HistoryTypeOK
  <2>2. CASE k \notin rowLapsed
    <3>1. RowLapses(k) /\ k \in Keys
      BY <2>2
         DEF PipelineNext, CallStep, PassBreaker, BeginOperation, ReserveCapacity,
             AcquireConcurrency, StartEvent, ProviderErrs, ProviderAnswers, CommitUsage,
             ParkReservation, ReleaseReservation, FailOperation, CompleteOperation,
             ConcludeOperation, ReportOutcome, FreeSlot, Die, LedgerStays, RowLapses, SweepRow,
             LeaseLapses, BreakerCools, pipelineVars
    <3> QED
      BY <3>1 DEF RowLapses
  <2> QED
    BY <2>1, <2>2
<1>2. status'[k] # "absent" /\ author'[k] = author[k]
  BY <1>1, RowsRemain
<1>3. author[k] \subseteq Calls
  BY <1>1 DEF HistoryTypeOK
<1> QED
  BY <1>1, <1>2, <1>3, OverStays DEF MayOutlive

(* A settled row is left as it is.                                          *)
LEMMA SettledStays ==
  ASSUME LedgerTypeOK, RowsConsistent, [LedgerNext]_ledgerVars, NEW k \in Keys, settled[k]
  PROVE  /\ settled'[k]
         /\ consumed'[k] = consumed[k]
         /\ items'[k] = items[k]
BY DEF RowsConsistent, LedgerNext, Reserve, Commit, Release, Expire, MarkReconciliationRequired,
       Finalisable, LedgerTypeOK, ledgerVars

(* What a row says was consumed is never rewritten. *)
LEMMA CountedStays ==
  ASSUME CallsTypeOK, LedgerTypeOK, RowsConsistent, [PipelineNext]_pipelineVars,
         NEW d \in Calls, CountedFor(d), used'[d] = used[d]
  PROVE  CountedFor(d)'
<1>1. Row(d) \in Keys
  BY PipelineAssumption DEF Row
<1>2. [LedgerNext]_ledgerVars
  BY LedgerStepOfPipeline
<1>3. /\ settled'[Row(d)]
      /\ consumed'[Row(d)] = consumed[Row(d)]
      /\ items'[Row(d)] = items[Row(d)]
  BY <1>1, <1>2, SettledStays DEF CountedFor
<1>4. \A b \in Buckets : Counted(Row(d), b, used[d])' = Counted(Row(d), b, used[d])
  BY <1>3 DEF Counted, Row
<1> QED
  BY <1>3, <1>4 DEF CountedFor, Row

(* Two calls of a prompt operation are never both between begin and         *)
(* conclusion, so no other call acts on the row of one that is.             *)
LEMMA WorksAlone ==
  ASSUME OwnersHoldLocks, NEW c \in Calls, NEW d \in Calls, c # d, KeyOf[c] = KeyOf[d],
         Prompt(KeyOf[d]),
         pc[c] \in {"commit", "park", "releaseRow"},
         pc[d] \in {"acquire", "startEvent", "invoke", "commit"}
  PROVE  FALSE
<1>1. KeyOf[c] \in Operations
  BY PipelineAssumption
<1>2. Owns(c) /\ Owns(d)
  BY <1>1 DEF Owns, Deduplicated
<1>3. lastBegin[KeyOf[d]] = {c} /\ lastBegin[KeyOf[d]] = {d}
  BY <1>2 DEF OwnersHoldLocks
<1> QED
  BY <1>3

(* Another call's step leaves the row of a call at work alone.              *)
LEMMA RowOfOthers ==
  ASSUME CallsTypeOK, LedgerTypeOK, HistoryTypeOK, OwnersHoldLocks,
         NEW c \in Calls, CallStep(c) \/ Die(c), NEW d \in Calls, c # d, Prompt(KeyOf[d]),
         pc[d] \in {"acquire", "startEvent", "invoke", "commit"}, status[Row(d)] = "pending"
  PROVE  status'[Row(d)] = "pending"
<1>0. Row(d) \in Keys /\ Row(c) \in Keys
  BY PipelineAssumption DEF Row
<1> USE <1>0 DEF LedgerTypeOK
<1>1. CASE ReserveCapacity(c)
  BY <1>1 DEF ReserveCapacity, Reserve, ledgerVars
<1>2. CASE CommitUsage(c) \/ ParkReservation(c) \/ ReleaseReservation(c)
  <2>1. Row(c) # Row(d)
    BY <1>2, WorksAlone DEF CommitUsage, ParkReservation, ReleaseReservation, Row
  <2> QED
    BY <1>2, <2>1
       DEF CommitUsage, CommitCall, Commit, ParkReservation, MarkCall, MarkReconciliationRequired,
           ReleaseReservation, ReleaseCall, Release, ledgerVars
<1>3. CASE LedgerStays
  BY <1>3 DEF LedgerStays, ledgerVars
<1> QED
  BY <1>1, <1>2, <1>3
     DEF CallStep, PassBreaker, BeginOperation, AcquireConcurrency, StartEvent, ProviderErrs,
         ProviderAnswers, FailOperation, CompleteOperation, ConcludeOperation, ReportOutcome,
         FreeSlot, Die

(* Every step keeps the row of a prompt call pending until its answer is    *)
(* committed.                                                               *)
LEMMA AnswerIsKeptStep ==
  ASSUME CallsTypeOK, LedgerTypeOK, RowsConsistent, HistoryTypeOK, OwnersHoldLocks, StagesInOrder,
         RowIsTended, LapsedRows, AnswerIsKept, [PipelineNext]_pipelineVars
  PROVE  AnswerIsKept'
<1> DEFINE Kept(d) ==
      /\ pc[d] \in {"acquire", "startEvent", "invoke", "commit"} => status[Row(d)] = "pending"
      /\ outcome[d] = "answered" => pc[d] = "commit" \/ CountedFor(d)
<1> SUFFICES ASSUME NEW d \in Calls, d \notin broken', author'[Row(d)] = {d}, Prompt(KeyOf[d])
             PROVE  Kept(d)'
  BY DEF AnswerIsKept, Row, Prompt
<1>0. Row(d) \in Keys
  BY PipelineAssumption DEF Row
<1>1. ASSUME NEW c \in Calls, CallStep(c) \/ Die(c), c # d
      PROVE  Kept(d)'
  <2>1. /\ pc'[d] = pc[d] /\ outcome'[d] = outcome[d] /\ used'[d] = used[d]
        /\ d \notin broken
    BY <1>1, OtherCallsStay
  <2>2. author[Row(d)] = {d}
    BY <1>0, <1>1, PendingIsOld
  <2>3. Kept(d)
    BY <2>1, <2>2 DEF AnswerIsKept
  <2>4. pc[d] \in {"acquire", "startEvent", "invoke", "commit"} => status'[Row(d)] = "pending"
    BY <1>1, <2>3, RowOfOthers
  <2>5. CountedFor(d) => CountedFor(d)'
    BY <2>1, CountedStays
  <2> QED
    BY <2>1, <2>3, <2>4, <2>5 DEF Row
<1>2. ASSUME CallStep(d) \/ Die(d)
      PROVE  Kept(d)'
  <2> USE <1>0, <1>2 DEF Goto, End, Fine, Breaks, CallsTypeOK, HistoryTypeOK
  <2>0. d \notin broken
    BY DEF CallStep, PassBreaker, BeginOperation, ReserveCapacity, AcquireConcurrency,
           StartEvent, ProviderErrs, ProviderAnswers, CommitUsage, ParkReservation,
           ReleaseReservation, FailOperation, CompleteOperation, ConcludeOperation,
           ReportOutcome, FreeSlot, Die
  <2>1. CASE PassBreaker(d) \/ BeginOperation(d)
    BY <2>1 DEF PassBreaker, BeginOperation, RowIsTended, Before, LedgerStays
  <2>2. CASE ReserveCapacity(d)
    BY <2>2, <2>0
       DEF ReserveCapacity, Reserve, RowIsTended, StagesInOrder, Before, LedgerTypeOK, Row
  <2>3. CASE ~ReserveCapacity(d) /\ ~PassBreaker(d) /\ ~BeginOperation(d)
    <3>1. author[Row(d)] = {d}
      BY <2>3
         DEF CallStep, AcquireConcurrency, StartEvent, ProviderErrs, ProviderAnswers,
             CommitUsage, ParkReservation, ReleaseReservation, FailOperation,
             CompleteOperation, ConcludeOperation, ReportOutcome, FreeSlot, Die, LedgerStays
    <3>2. Kept(d)
      BY <2>0, <3>1 DEF AnswerIsKept
    <3>3. used'[d] = used[d] => (CountedFor(d) => CountedFor(d)')
      BY CountedStays
    <3>4. CASE AcquireConcurrency(d)
      BY <3>2, <3>4 DEF AcquireConcurrency, Refused, StagesInOrder, LedgerStays, ledgerVars, Row
    <3>5. CASE StartEvent(d) \/ ProviderErrs(d)
      BY <3>2, <3>5 DEF StartEvent, ProviderErrs, StagesInOrder, LedgerStays, ledgerVars, Row
    <3>6. CASE ProviderAnswers(d)
      BY <2>0, <3>2, <3>6 DEF ProviderAnswers, StagesInOrder, LedgerStays, ledgerVars, Row
    <3>7. CASE CommitUsage(d)
      <4>1. CommitCall(Row(d), used[d]) /\ pc'[d] = "completeLock" /\ UNCHANGED used
        BY <3>7, <2>0 DEF CommitUsage
      <4>2. Commit(Row(d), used[d])
        BY <3>2, <3>7, <4>1 DEF CommitCall, Finalisable, CommitUsage
      <4>3. /\ settled'[Row(d)] /\ items' = items
            /\ consumed'[Row(d)] = [b \in Buckets |-> IF b \in items[Row(d)] THEN used[d][b] ELSE 0]
        BY <4>2 DEF Commit, LedgerTypeOK
      <4>4. CountedFor(d)'
        BY <4>1, <4>3 DEF CountedFor, Counted, Row
      <4> QED
        BY <4>1, <4>4
    <3>8. CASE ParkReservation(d) \/ ReleaseReservation(d)
      BY <3>2, <3>3, <3>8 DEF ParkReservation, ReleaseReservation
    <3>9. CASE FailOperation(d) \/ CompleteOperation(d)
      BY <3>2, <3>3, <3>9 DEF FailOperation, CompleteOperation, ConcludeOperation
    <3>10. CASE ReportOutcome(d) \/ FreeSlot(d)
      BY <3>2, <3>3, <3>10 DEF ReportOutcome, FreeSlot
    <3>11. CASE Die(d)
      BY <3>11 DEF Die
    <3> QED
      BY <2>3, <3>4, <3>5, <3>6, <3>7, <3>8, <3>9, <3>10, <3>11 DEF CallStep
  <2> QED
    BY <2>1, <2>2, <2>3
<1>3. CASE Around
  <2>1. /\ pc' = pc /\ outcome' = outcome /\ used' = used
        /\ author' = author /\ broken' = broken
    BY <1>3, AroundTheCalls DEF callVars
  <2>2. Kept(d)
    BY <2>1 DEF AnswerIsKept
  <2>3. CountedFor(d) => CountedFor(d)'
    BY <2>1, CountedStays
  <2>4. ASSUME pc[d] \in {"acquire", "startEvent", "invoke", "commit"}
        PROVE  status'[Row(d)] = "pending"
    <3>1. Row(d) \notin rowLapsed
      BY <2>1, <2>4 DEF LapsedRows, MayOutlive, Over, Prompt, Row
    <3> QED
      BY <1>0, <1>3, <2>2, <2>4, <3>1
         DEF Around, RowLapses, SweepRow, Release, LeaseLapses, BreakerCools, pipelineVars,
             ledgerVars, LedgerTypeOK
  <2> QED
    BY <2>1, <2>2, <2>3, <2>4 DEF Row
<1> QED
  BY <1>1, <1>2, <1>3 DEF PipelineNext, Around

-------------------------------------------------------------------------------
(* The breaker under the pipeline *)

(* Only the breaker's gate, its outcome and the cooldown touch the breaker. *)
LEMMA BreakerStepOfPipeline ==
  ASSUME [PipelineNext]_pipelineVars
  PROVE  [BreakerNext]_breakerVars
<1>1. ASSUME NEW c \in Calls, CallStep(c) \/ Die(c)
      PROVE  [BreakerNext]_breakerVars
  <2>1. CASE PassBreaker(c)
    BY <2>1 DEF PassBreaker, BreakerNext
  <2>2. CASE ReportOutcome(c)
    BY <2>2 DEF ReportOutcome, BreakerNext
  <2>3. CASE UNCHANGED breakerVars
    BY <2>3
  <2> QED
    BY <1>1, <2>1, <2>2, <2>3
       DEF CallStep, BeginOperation, ReserveCapacity, AcquireConcurrency, StartEvent, ProviderErrs,
           ProviderAnswers, CommitUsage, ParkReservation, ReleaseReservation, FailOperation,
           CompleteOperation, ConcludeOperation, FreeSlot, Die
<1>2. CASE Around
  BY <1>2 DEF Around, RowLapses, SweepRow, LeaseLapses, BreakerCools, BreakerNext, pipelineVars
<1> QED
  BY <1>1, <1>2 DEF PipelineNext, Around

(* The pipeline uses the breaker as its specification says.                 *)
THEOREM PipelineImplementsBreaker == PipelineSpec => BreakerSpec
<1>1. PipelineInit => BreakerInit
  BY DEF PipelineInit
<1>2. [PipelineNext]_pipelineVars => [BreakerNext]_breakerVars
  BY BreakerStepOfPipeline
<1> QED
  BY <1>1, <1>2, PTL DEF PipelineSpec, BreakerSpec

-------------------------------------------------------------------------------
(* The theorems *)

(* The inductive invariant: the stores keep theirs, and each call tends     *)
(* what is its own until nothing of it is left.                             *)
PipelineInv ==
  /\ CallsTypeOK /\ LocksTypeOK /\ HistoryTypeOK /\ lockLapsed \subseteq Operations
  /\ OwnersHoldLocks /\ StagesInOrder
  /\ RowIsTended /\ LockIsTended /\ SlotIsTended
  /\ LapsedRows /\ AnswerIsKept

(* The invariant holds before any call. *)
LEMMA PipelineInitially == PipelineInit => PipelineInv
<1> SUFFICES ASSUME PipelineInit PROVE PipelineInv
  OBVIOUS
<1> USE DEF PipelineInit
<1>0. \A c \in Calls : KeyOf[c] \in Keys
  BY PipelineAssumption
<1>1. CallsTypeOK /\ LocksTypeOK /\ HistoryTypeOK /\ lockLapsed \subseteq Operations
  BY LedgerAssumption
     DEF CallsTypeOK, Stages, Outcomes, Nothing, Quantities, LocksInit, LocksTypeOK, LockStatuses,
         HistoryTypeOK
<1>2. OwnersHoldLocks /\ StagesInOrder
  BY DEF OwnersHoldLocks, Owns, StagesInOrder
<1>3. RowIsTended
  BY <1>0 DEF RowIsTended, Row
<1>4. LockIsTended
  BY DEF LockIsTended, Deduplicated
<1>5. SlotIsTended
  BY DEF SlotsInit, SlotIsTended
<1>6. LapsedRows
  BY DEF LapsedRows
<1>7. AnswerIsKept
  BY <1>0 DEF AnswerIsKept, Row
<1> QED
  BY <1>1, <1>2, <1>3, <1>4, <1>5, <1>6, <1>7 DEF PipelineInv

(* Only leases of operations lapse. *)
LEMMA LapsedLocksStep ==
  ASSUME lockLapsed \subseteq Operations, [PipelineNext]_pipelineVars
  PROVE  lockLapsed' \subseteq Operations
BY DEF PipelineNext, CallStep, PassBreaker, BeginOperation, Begin, ReserveCapacity,
       AcquireConcurrency, StartEvent, ProviderErrs, ProviderAnswers, CommitUsage,
       ParkReservation, ReleaseReservation, FailOperation, CompleteOperation,
       ConcludeOperation, Conclude, ReportOutcome, FreeSlot, Die, RowLapses, SweepRow,
       LeaseLapses, LockLapses, BreakerCools, LockStays, lockVars, pipelineVars

(* Every step keeps the pipeline's invariant. *)
LEMMA PipelineStep ==
  ASSUME PipelineInv, LedgerInv, SlotsTypeOK, [PipelineNext]_pipelineVars
  PROVE  PipelineInv'
<1> USE DEF PipelineInv, LedgerInv
<1>1. CallsTypeOK' /\ LocksTypeOK' /\ HistoryTypeOK' /\ lockLapsed' \subseteq Operations
  BY CallsTypeStep, LocksTypeStep, HistoryTypeStep, LapsedLocksStep
<1>2. OwnersHoldLocks' /\ StagesInOrder'
  BY OwnersStep, StagesInOrderStep
<1>3. RowIsTended' /\ LockIsTended' /\ SlotIsTended'
  BY RowIsTendedStep, LockIsTendedStep, SlotIsTendedStep
<1>4. LapsedRows' /\ AnswerIsKept'
  BY LapsedRowsStep, AnswerIsKeptStep
<1> QED
  BY <1>1, <1>2, <1>3, <1>4

(* The pipeline's invariant always holds. *)
LEMMA PipelineInvariant == PipelineSpec => []PipelineInv
<1>1. PipelineInv /\ LedgerInv /\ SlotsTypeOK /\ [PipelineNext]_pipelineVars => PipelineInv'
  BY PipelineStep
<1> QED
  BY <1>1, PipelineInitially, PipelineImplementsLedger, LedgerInvariant,
     PipelineImplementsSlots, SlotsInvariant, PTL DEF PipelineSpec

(* Every column of the four stores and every call keeps its type.           *)
THEOREM PipelineTypeCorrect == PipelineSpec => []PipelineTypeOK
<1>1. PipelineInv /\ LedgerTypeOK /\ SlotsTypeOK /\ BreakerInv => PipelineTypeOK
  BY DEF PipelineInv, PipelineTypeOK, CallsTypeOK, LocksTypeOK, HistoryTypeOK, BreakerInv
<1> QED
  BY <1>1, PipelineInvariant, PipelineImplementsLedger, LedgerTypeCorrect,
     PipelineImplementsSlots, SlotsInvariant, PipelineImplementsBreaker, BreakerInvariant, PTL

(* However calls of the same key, failures of other calls, deaths, lapsing  *)
(* leases and the sweep interleave, a call that ends without a failed round *)
(* trip leaves no pending reservation, no operation in progress and no slot.*)
THEOREM PipelineLeavesNothing == PipelineSpec => []NothingLeftBehind
<1>1. PipelineInv => NothingLeftBehind
  BY TendedIsDone DEF PipelineInv
<1> QED
  BY <1>1, PipelineInvariant, PTL

(* And if it was answered, its row says for ever what the answer used,      *)
(* unless a call of its key outlives its lease.                             *)
THEOREM PipelineCountsAnswers == PipelineSpec => []AnswersAreCounted
<1>1. PipelineInv => AnswersAreCounted
  BY DEF PipelineInv, AnswerIsKept, AnswersAreCounted
<1> QED
  BY <1>1, PipelineInvariant, PTL
===============================================================================
