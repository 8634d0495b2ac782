-------------------------- MODULE GatewayGuardsProofs --------------------------
(***************************************************************************)
(* Theorems about the two guards of the gateway that keep no row per call: *)
(* the cap of the concurrency slots, for any calls, scopes and cap, and    *)
(* the circuit breaker, for any thresholds, any callers and any stream of  *)
(* clients.                                                                *)
(***************************************************************************)
EXTENDS ConcurrencySlots, BreakerClients, FiniteSetTheorems, TLAPS

-------------------------------------------------------------------------------
(* The slots *)

(* The rows of a scope are among the calls, so they are finitely many. *)
LEMMA ActiveFinite == \A s : IsFiniteSet(ActiveIn(s))
BY SlotsAssumption, FS_Subset DEF ActiveIn

(* A scope without rows to count has an empty set of active ones, and a     *)
(* step that activates no row of a scope keeps the scope within its cap.    *)
LEMMA FewerActive ==
  ASSUME NEW s \in Scopes, CapHolds, ActiveIn(s)' \subseteq ActiveIn(s)
  PROVE  Cardinality(ActiveIn(s)') <= MaxConcurrent
<1>1. /\ IsFiniteSet(ActiveIn(s)')
      /\ Cardinality(ActiveIn(s)') <= Cardinality(ActiveIn(s))
  BY ActiveFinite, FS_Subset
<1>2. Cardinality(ActiveIn(s)) <= MaxConcurrent
  BY DEF CapHolds
<1>3. Cardinality(ActiveIn(s)') \in Nat /\ Cardinality(ActiveIn(s)) \in Nat
  BY <1>1, ActiveFinite, FS_CardinalityType
<1> QED
  BY <1>1, <1>2, <1>3, SlotsAssumption

(* An acquire adds one row to a scope that had room for it once its         *)
(* abandoned rows are out.                                                  *)
LEMMA AcquireKeepsCap ==
  ASSUME SlotsTypeOK, CapHolds, NEW c \in Calls, AcquireSlot(c)
  PROVE  CapHolds'
<1> SUFFICES ASSUME NEW s \in Scopes PROVE Cardinality(ActiveIn(s)') <= MaxConcurrent
  BY DEF CapHolds, Scopes
<1>1. CASE s = ScopeOf[c]
  <2> DEFINE counted == ActiveIn(s) \ Abandoned(s)
  <2>1. /\ IsFiniteSet(counted)
        /\ Cardinality(counted) \in Nat
    BY ActiveFinite, FS_Subset, FS_CardinalityType
  <2>2. Cardinality(counted) < MaxConcurrent
    BY <1>1 DEF AcquireSlot, HasRoom
  <2>3. ActiveIn(s)' \subseteq counted \cup {c}
    BY <1>1, SlotsAssumption DEF AcquireSlot, ActiveIn, Abandoned, SlotsTypeOK
  <2>4. /\ IsFiniteSet(counted \cup {c})
        /\ Cardinality(counted \cup {c}) <= Cardinality(counted) + 1
        /\ Cardinality(counted \cup {c}) \in Nat
    BY <2>1, FS_AddElement, FS_CardinalityType
  <2>5. Cardinality(ActiveIn(s)') <= Cardinality(counted \cup {c})
        /\ Cardinality(ActiveIn(s)') \in Nat
    BY <2>3, <2>4, FS_Subset, FS_CardinalityType
  <2> QED
    BY <2>1, <2>2, <2>4, <2>5, SlotsAssumption
<1>2. CASE s # ScopeOf[c]
  <2>1. ActiveIn(s)' \subseteq ActiveIn(s)
    BY <1>2, SlotsAssumption DEF AcquireSlot, ActiveIn, Abandoned, SlotsTypeOK
  <2> QED
    BY <2>1, FewerActive
<1> QED
  BY <1>1, <1>2

(* Every other step only takes rows out of the active ones. *)
LEMMA OthersKeepCap ==
  ASSUME SlotsTypeOK, CapHolds, NEW c \in Calls,
         RefuseSlot(c) \/ ReleaseSlot(c) \/ ExpireSlot(c) \/ SlotLapses(c) \/ UNCHANGED slotVars
  PROVE  CapHolds'
<1> SUFFICES ASSUME NEW s \in Scopes PROVE Cardinality(ActiveIn(s)') <= MaxConcurrent
  BY DEF CapHolds, Scopes
<1>1. ActiveIn(s)' \subseteq ActiveIn(s)
  BY SlotsAssumption
     DEF RefuseSlot, ReleaseSlot, ExpireSlot, SlotLapses, slotVars, ActiveIn, Abandoned, SlotsTypeOK, SlotStatuses
<1> QED
  BY <1>1, FewerActive

(* Every step keeps the slots well typed. *)
LEMMA SlotsTypeStep ==
  ASSUME SlotsTypeOK, NEW c \in Calls,
         AcquireSlot(c) \/ RefuseSlot(c) \/ ReleaseSlot(c) \/ ExpireSlot(c) \/ SlotLapses(c)
           \/ UNCHANGED slotVars
  PROVE  SlotsTypeOK'
BY DEF SlotsTypeOK, SlotStatuses, AcquireSlot, RefuseSlot, ReleaseSlot, ExpireSlot,
       SlotLapses, slotVars

(* The invariant in the form the pipeline's proof cites. *)
LEMMA SlotsInitially == SlotsInit => SlotsTypeOK /\ CapHolds
<1> SUFFICES ASSUME SlotsInit PROVE SlotsTypeOK /\ CapHolds
  OBVIOUS
<1>1. SlotsTypeOK
  BY DEF SlotsInit, SlotsTypeOK, SlotStatuses
<1>2. \A s \in Scopes : ActiveIn(s) = {}
  BY SlotsAssumption DEF SlotsInit, ActiveIn
<1> QED
  BY <1>1, <1>2, FS_EmptySet, SlotsAssumption DEF CapHolds

(* The slots are well typed and within their cap, always. *)
LEMMA SlotsInvariant == SlotsSpec => [](SlotsTypeOK /\ CapHolds)
<1>1. SlotsTypeOK /\ CapHolds /\ [SlotsNext]_slotVars => (SlotsTypeOK /\ CapHolds)'
  <2> SUFFICES ASSUME SlotsTypeOK, CapHolds, [SlotsNext]_slotVars
               PROVE  (SlotsTypeOK /\ CapHolds)'
    OBVIOUS
  <2>1. CASE SlotsNext
    BY <2>1, AcquireKeepsCap, OthersKeepCap, SlotsTypeStep DEF SlotsNext
  <2>2. CASE UNCHANGED slotVars
    BY <2>2 DEF slotVars, SlotsTypeOK, CapHolds, ActiveIn
  <2> QED
    BY <2>1, <2>2
<1> QED
  BY <1>1, SlotsInitially, PTL DEF SlotsSpec

(* No scope ever has more active slots than its cap, for any callers. *)
THEOREM SlotsWithinCap == SlotsSpec => []CapHolds
BY SlotsInvariant, PTL

-------------------------------------------------------------------------------
(* The breaker *)

(* A closing forgets all evidence, so a breaker without samples is healthy. *)
LEMMA FreshIsHealthy == ~Unhealthy(0, 0, 0)
BY BreakerAssumption DEF Unhealthy

BreakerInv == BreakerTypeOK /\ ClosedIsHealthy

(* The invariant holds of a breaker nothing was reported to. *)
LEMMA BreakerInitially == BreakerInit => BreakerInv
<1> SUFFICES ASSUME BreakerInit PROVE BreakerInv
  OBVIOUS
<1>1. /\ breaker \in {"closed", "open", "half_open"}
      /\ cooled \in BOOLEAN
  BY DEF BreakerInit
<1>2. /\ probesUsed \in 0..ProbeLimit
      /\ consecutive \in Nat /\ samples \in Nat /\ failures \in 0..samples
  BY BreakerAssumption DEF BreakerInit
<1>3. ClosedIsHealthy
  BY FreshIsHealthy DEF BreakerInit, ClosedIsHealthy
<1> QED
  BY <1>1, <1>2, <1>3 DEF BreakerInv, BreakerTypeOK

(* Every question and every report keeps the breaker well typed. *)
LEMMA BreakerTypeStep ==
  ASSUME BreakerTypeOK, [BreakerNext]_breakerVars
  PROVE  BreakerTypeOK'
<1> USE BreakerAssumption DEF BreakerTypeOK
<1>1. CASE Admit
  BY <1>1 DEF Admit, AdmitClosed, AdmitFirstProbe, AdmitNextProbe, breakerVars
<1>2. CASE Turnaway \/ UNCHANGED breakerVars
  BY <1>2 DEF Turnaway, breakerVars
<1>3. ASSUME NEW success \in BOOLEAN, RecordOutcome(success)
      PROVE  BreakerTypeOK'
  <2>1. CASE CloseBreaker \/ Reopen
    <3>1. breaker' \in {"closed", "open", "half_open"} /\ cooled' \in BOOLEAN
      BY <2>1 DEF CloseBreaker, Reopen
    <3>2. /\ probesUsed' \in 0..ProbeLimit
          /\ consecutive' \in Nat /\ samples' \in Nat /\ failures' \in 0..samples'
      BY <2>1 DEF CloseBreaker, Reopen, counterVars
    <3> QED
      BY <3>1, <3>2
  <2>2. CASE CountSample(success)
    <3>1. breaker' \in {"closed", "open", "half_open"} /\ cooled' \in BOOLEAN
      BY <2>2 DEF CountSample
    <3>2. /\ probesUsed' \in 0..ProbeLimit
          /\ consecutive' \in Nat /\ samples' \in Nat /\ failures' \in 0..samples'
      BY <2>2 DEF CountSample
    <3> QED
      BY <3>1, <3>2
  <2> QED
    BY <1>3, <2>1, <2>2 DEF RecordOutcome
<1>4. CASE CooldownElapses
  BY <1>4 DEF CooldownElapses
<1> QED
  BY <1>1, <1>2, <1>3, <1>4 DEF BreakerNext

(* Closed, the breaker counts a sample and opens on what it then sees; it   *)
(* closes with nothing counted; and in no other way does it become closed.  *)
LEMMA HealthStep ==
  ASSUME ClosedIsHealthy, [BreakerNext]_breakerVars
  PROVE  ClosedIsHealthy'
<1> SUFFICES ASSUME breaker' = "closed"
             PROVE  ~Unhealthy(consecutive', samples', failures')
  BY DEF ClosedIsHealthy
<1>1. CASE Admit
  BY <1>1 DEF Admit, AdmitClosed, AdmitFirstProbe, AdmitNextProbe, breakerVars, ClosedIsHealthy
<1>2. CASE Turnaway \/ UNCHANGED breakerVars
  BY <1>2 DEF Turnaway, breakerVars, ClosedIsHealthy
<1>3. ASSUME NEW success \in BOOLEAN, RecordOutcome(success)
      PROVE  ~Unhealthy(consecutive', samples', failures')
  <2>1. CASE CloseBreaker
    BY <2>1, FreshIsHealthy DEF CloseBreaker
  <2>2. CASE Reopen
    BY <2>2 DEF Reopen
  <2>3. CASE CountSample(success)
    BY <2>3 DEF CountSample
  <2> QED
    BY <1>3, <2>1, <2>2, <2>3 DEF RecordOutcome
<1>4. CASE CooldownElapses
  BY <1>4 DEF CooldownElapses
<1> QED
  BY <1>1, <1>2, <1>3, <1>4 DEF BreakerNext

(* The breaker is well typed and healthy when closed, always. *)
LEMMA BreakerInvariant == BreakerSpec => []BreakerInv
<1>1. BreakerInv /\ [BreakerNext]_breakerVars => BreakerInv'
  BY BreakerTypeStep, HealthStep DEF BreakerInv
<1> QED
  BY <1>1, BreakerInitially, PTL DEF BreakerSpec

(* Whoever asks and reports, and however late, a closed breaker never sits  *)
(* on evidence that should have opened it.                                  *)
THEOREM BreakerClosedIsHealthy == BreakerSpec => []ClosedIsHealthy
<1>1. BreakerInv => ClosedIsHealthy
  BY DEF BreakerInv
<1> QED
  BY <1>1, BreakerInvariant, PTL

-------------------------------------------------------------------------------
(* The clients of the breaker *)

(* A client's step is one of the breaker, or leaves it alone.               *)
LEMMA BreakerStepOfClients ==
  ASSUME [ClientsNext]_clientVars
  PROVE  [BreakerNext]_breakerVars
<1>1. ASSUME NEW c \in Clients, ClientStep(c)
      PROVE  [BreakerNext]_breakerVars
  BY <1>1 DEF ClientStep, AskAdmitted, AskTurnedAway, Report, Leave, BreakerNext
<1> QED
  BY <1>1 DEF ClientsNext, ClockStep, BreakerNext, clientVars

(* The stream of calls uses the breaker as its specification says.          *)
THEOREM ClientsImplementBreaker == ClientsSpec => BreakerSpec
<1>1. ClientsInit => BreakerInit
  BY DEF ClientsInit
<1>2. [ClientsNext]_clientVars => [BreakerNext]_breakerVars
  BY BreakerStepOfClients
<1> QED
  BY <1>1, <1>2, PTL DEF ClientsSpec, BreakerSpec

(* Every probe that may still report was counted by the half-open phase; a  *)
(* breaker in another state has no probes out.                              *)
ProbesAreCounted ==
  /\ breaker = "half_open" => Cardinality(term) <= probesUsed
  /\ breaker # "half_open" => term = {}

ClientsInv == ClientsTypeOK /\ ProbesAreCounted

(* Every step of the callers keeps the breaker and the callers well typed. *)
LEMMA ClientsTypeStep ==
  ASSUME ClientsTypeOK, [ClientsNext]_clientVars
  PROVE  ClientsTypeOK'
<1>1. BreakerTypeOK'
  BY BreakerStepOfClients, BreakerTypeStep DEF ClientsTypeOK
<1>2. /\ client' \in [Clients -> {"idle", "admitted"}]
      /\ term' \subseteq { c \in Clients : client'[c] = "admitted" }
  <2> USE DEF ClientsTypeOK
  <2>1. ASSUME NEW c \in Clients, ClientStep(c)
        PROVE  /\ client' \in [Clients -> {"idle", "admitted"}]
               /\ term' \subseteq { d \in Clients : client'[d] = "admitted" }
    BY <2>1 DEF ClientStep, AskAdmitted, AskTurnedAway, Report, Leave, TermAfter
  <2> QED
    BY <2>1 DEF ClientsNext, ClockStep, clientVars
<1> QED
  BY <1>1, <1>2 DEF ClientsTypeOK

(* Fewer probes out, and a phase that is over has none.                     *)
LEMMA FewerProbes ==
  ASSUME ClientsTypeOK, ProbesAreCounted, NEW members \in SUBSET term, term' = TermAfter(members),
         breaker' = "half_open" => breaker = "half_open" /\ probesUsed' = probesUsed
  PROVE  ProbesAreCounted'
<1>1. CASE breaker' = "half_open"
  <2>1. term' = members /\ breaker = "half_open" /\ probesUsed' = probesUsed
    BY <1>1 DEF TermAfter
  <2>2. IsFiniteSet(term)
    BY ClientsAssumption, FS_Subset DEF ClientsTypeOK
  <2>3. Cardinality(members) <= Cardinality(term)
        /\ Cardinality(members) \in Nat /\ Cardinality(term) \in Nat
    BY <2>2, FS_Subset, FS_CardinalityType
  <2> QED
    BY <1>1, <2>1, <2>3 DEF ProbesAreCounted, ClientsTypeOK, BreakerTypeOK
<1>2. CASE breaker' # "half_open"
  BY <1>2 DEF TermAfter, ProbesAreCounted
<1> QED
  BY <1>1, <1>2

(* Every step keeps: the callers who probe are counted as probes used. *)
LEMMA ProbesStep ==
  ASSUME ClientsTypeOK, ProbesAreCounted, [ClientsNext]_clientVars
  PROVE  ProbesAreCounted'
<1> USE BreakerAssumption DEF ClientsTypeOK, BreakerTypeOK
<1>1. ASSUME NEW c \in Clients, AskAdmitted(c)
      PROVE  ProbesAreCounted'
  <2>0. IsFiniteSet(term) /\ Cardinality(term) \in Nat
    BY ClientsAssumption, FS_Subset, FS_CardinalityType
  <2>1. CASE AdmitClosed
    BY <1>1, <2>1 DEF AskAdmitted, AdmitClosed, TermAfter, ProbesAreCounted, breakerVars
  <2>2. CASE AdmitFirstProbe
    <3>1. term' = {c} /\ probesUsed' = 1 /\ breaker' = "half_open"
      BY <1>1, <2>2 DEF AskAdmitted, AdmitFirstProbe, TermAfter, ProbesAreCounted
    <3>2. Cardinality(term') = 1
      BY <3>1, FS_Singleton
    <3> QED
      BY <3>1, <3>2 DEF ProbesAreCounted
  <2>3. CASE AdmitNextProbe
    <3>1. /\ term' = term \cup {c} /\ probesUsed' = probesUsed + 1
          /\ breaker = "half_open" /\ breaker' = "half_open"
      BY <1>1, <2>3 DEF AskAdmitted, AdmitNextProbe, TermAfter
    <3>2. /\ IsFiniteSet(term \cup {c})
          /\ Cardinality(term \cup {c}) <= Cardinality(term) + 1
          /\ Cardinality(term \cup {c}) \in Nat
      <4> HIDE DEF ClientsTypeOK, BreakerTypeOK
      <4> QED
        BY <2>0, FS_AddElement, FS_CardinalityType
    <3>3. Cardinality(term) <= probesUsed
      BY <3>1 DEF ProbesAreCounted
    <3>4. Cardinality(term') <= probesUsed'
      BY <2>0, <3>1, <3>2, <3>3
    <3> QED
      BY <3>1, <3>4 DEF ProbesAreCounted
  <2> QED
    BY <1>1, <2>1, <2>2, <2>3 DEF AskAdmitted, Admit
<1>2. ASSUME NEW c \in Clients, NEW success \in BOOLEAN, Report(c, success)
      PROVE  ProbesAreCounted'
  <2>1. breaker' # "half_open"
    BY <1>2 DEF Report, RecordOutcome, CloseBreaker, Reopen, CountSample
  <2> QED
    BY <1>2, <2>1 DEF Report, TermAfter, ProbesAreCounted
<1>3. ASSUME NEW c \in Clients, Leave(c)
      PROVE  ProbesAreCounted'
  BY <1>3, FewerProbes DEF Leave, breakerVars
<1>4. CASE UNCHANGED <<breakerVars, term>>
  BY <1>4 DEF breakerVars, ProbesAreCounted
<1>5. CASE ClockStep
  BY <1>5 DEF ClockStep, CooldownElapses, ProbesAreCounted
<1> QED
  BY <1>1, <1>2, <1>3, <1>4, <1>5
     DEF ClientsNext, ClientStep, AskTurnedAway, Turnaway, clientVars

(* The callers' invariant always holds. *)
LEMMA ClientsInvariant == ClientsSpec => []ClientsInv
<1>1. ClientsInit => ClientsInv
  <2> SUFFICES ASSUME ClientsInit PROVE ClientsInv
    OBVIOUS
  <2>1. BreakerTypeOK
    BY BreakerInitially DEF ClientsInit, BreakerInv
  <2> QED
    BY <2>1 DEF ClientsInit, BreakerInit, ClientsInv, ClientsTypeOK, ProbesAreCounted
<1>2. ClientsInv /\ [ClientsNext]_clientVars => ClientsInv'
  BY ClientsTypeStep, ProbesStep DEF ClientsInv
<1> QED
  BY <1>1, <1>2, PTL DEF ClientsSpec

(* Every call of the stream is idle or admitted, and only admitted ones are *)
(* probes that may still report.                                            *)
THEOREM ClientsTypeCorrect == ClientsSpec => []ClientsTypeOK
<1>1. ClientsInv => ClientsTypeOK
  BY DEF ClientsInv
<1> QED
  BY <1>1, ClientsInvariant, PTL

(* However many calls ask at once, one half-open phase lets no more of them *)
(* through than it has probe slots.                                         *)
THEOREM ClientsProbesWithinLimit == ClientsSpec => []ProbesWithinLimit
<1>1. ClientsInv => ProbesWithinLimit
  <2> SUFFICES ASSUME ClientsInv PROVE ProbesWithinLimit
    OBVIOUS
  <2>1. IsFiniteSet(term) /\ Cardinality(term) \in Nat
    BY ClientsAssumption, FS_Subset, FS_CardinalityType DEF ClientsInv, ClientsTypeOK
  <2>2. CASE breaker = "half_open"
    BY <2>1, <2>2, BreakerAssumption
       DEF ClientsInv, ClientsTypeOK, BreakerTypeOK, ProbesAreCounted, ProbesWithinLimit
  <2>3. CASE breaker # "half_open"
    BY <2>3, FS_EmptySet, BreakerAssumption DEF ClientsInv, ProbesAreCounted, ProbesWithinLimit
  <2> QED
    BY <2>2, <2>3
<1> QED
  BY <1>1, ClientsInvariant, PTL

(* And in the stream, too, a closed breaker is a healthy one.               *)
THEOREM ClientsClosedIsHealthy == ClientsSpec => []ClosedIsHealthy
BY ClientsImplementBreaker, BreakerClosedIsHealthy, PTL
===============================================================================
