---------------------------- MODULE CircuitBreaker -----------------------------
(***************************************************************************)
(* One row of ai_gateway_circuit_breakers (a provider, model and feature)  *)
(* and the two SQL functions that move it, each one transaction under the  *)
(* row's lock.  A row that does not exist yet behaves as a closed one with *)
(* zero counters.  The window of samples is only ever restarted when the   *)
(* breaker closes.                                                         *)
(***************************************************************************)
EXTENDS Integers

CONSTANTS
  ConsecutiveThreshold,  \* consecutive_failure_threshold (5 in production)
  MinSamples,            \* min_samples (20)
  FailurePercent,        \* failure_rate_threshold in percent (50)
  ProbeLimit             \* half_open_probe_count (1)

ASSUME BreakerAssumption ==
  /\ ConsecutiveThreshold \in Nat \ {0}
  /\ MinSamples \in Nat \ {0}
  /\ FailurePercent \in 1..100
  /\ ProbeLimit \in Nat \ {0}

VARIABLES
  breaker,       \* "closed", "open" or "half_open"
  cooled,        \* cooldown_seconds have passed since opened_at
  probesUsed,    \* half_open_probes_used
  consecutive,   \* consecutive_failures
  samples,       \* window_sample_count
  failures       \* window_failure_count

counterVars == <<consecutive, samples, failures>>
breakerVars == <<breaker, cooled, probesUsed, consecutive, samples, failures>>

BreakerInit ==
  /\ breaker = "closed"
  /\ cooled = FALSE
  /\ probesUsed = 0
  /\ consecutive = 0
  /\ samples = 0
  /\ failures = 0

-------------------------------------------------------------------------------
(* get_gateway_breaker_state_v1 *)

AdmitClosed == breaker = "closed" /\ UNCHANGED breakerVars

\* Mutant of AdmitFirstProbe: the probe that opens the half-open phase is not counted.
AdmitFirstProbeFree ==
  /\ breaker = "open"
  /\ cooled
  /\ breaker' = "half_open"
  /\ UNCHANGED <<probesUsed, cooled, consecutive, samples, failures>>

(* The first call after the cooldown half-opens the breaker and is a probe. *)
AdmitFirstProbe ==
  /\ breaker = "open"
  /\ cooled
  /\ breaker' = "half_open"
  /\ probesUsed' = 1
  /\ UNCHANGED <<cooled, consecutive, samples, failures>>

\* Mutant of AdmitNextProbe: off by one at the probe limit.
AdmitOneProbeTooMany ==
  /\ breaker = "half_open"
  /\ probesUsed <= ProbeLimit
  /\ probesUsed' = probesUsed + 1
  /\ UNCHANGED <<breaker, cooled, consecutive, samples, failures>>

AdmitNextProbe ==
  /\ breaker = "half_open"
  /\ probesUsed < ProbeLimit
  /\ probesUsed' = probesUsed + 1
  /\ UNCHANGED <<breaker, cooled, consecutive, samples, failures>>

Admit == AdmitClosed \/ AdmitFirstProbe \/ AdmitNextProbe

Turnaway ==
  /\ \/ breaker = "open" /\ ~cooled
     \/ breaker = "half_open" /\ probesUsed >= ProbeLimit
  /\ UNCHANGED breakerVars

-------------------------------------------------------------------------------
(* record_gateway_breaker_outcome_v1 *)

Unhealthy(run, sampled, failed) ==
  \/ run >= ConsecutiveThreshold
  \/ sampled >= MinSamples /\ 100 * failed >= FailurePercent * sampled

\* Mutant of CloseBreaker: the run of failures survives the closing.
CloseKeepingCounters ==
  /\ breaker' = "closed"
  /\ probesUsed' = 0
  /\ cooled' = FALSE
  /\ UNCHANGED counterVars

CloseBreaker ==
  /\ breaker' = "closed"
  /\ probesUsed' = 0
  /\ cooled' = FALSE
  /\ consecutive' = 0 /\ samples' = 0 /\ failures' = 0

\* Mutant of Reopen: the half-open state is left without giving the probes back.
ReopenKeepingProbes ==
  /\ breaker' = "half_open"
  /\ cooled' = FALSE
  /\ UNCHANGED <<probesUsed, consecutive, samples, failures>>

Reopen ==
  /\ breaker' = "open"
  /\ cooled' = FALSE
  /\ probesUsed' = 0
  /\ UNCHANGED counterVars

(* Closed or open: the sample is counted, and a closed breaker opens when   *)
(* the counters say so.                                                     *)
CountSample(success) ==
  /\ breaker # "half_open"
  /\ consecutive' = IF success THEN 0 ELSE consecutive + 1
  /\ samples' = samples + 1
  /\ failures' = IF success THEN failures ELSE failures + 1
  /\ IF breaker = "closed" /\ Unhealthy(consecutive', samples', failures')
     THEN breaker' = "open" /\ cooled' = FALSE
     ELSE UNCHANGED <<breaker, cooled>>
  /\ UNCHANGED probesUsed

(* Half-open: any outcome decides, whoever reports it. *)
RecordOutcome(success) ==
  \/ breaker = "half_open" /\ success /\ CloseBreaker
  \/ breaker = "half_open" /\ ~success /\ Reopen
  \/ CountSample(success)

(* The clock passes opened_at + cooldown_seconds. *)
CooldownElapses ==
  /\ breaker = "open"
  /\ ~cooled
  /\ cooled' = TRUE
  /\ UNCHANGED <<breaker, probesUsed, consecutive, samples, failures>>

-------------------------------------------------------------------------------
(* Arbitrary callers. *)

BreakerNext ==
  \/ Admit \/ Turnaway
  \/ \E success \in BOOLEAN : RecordOutcome(success)
  \/ CooldownElapses

BreakerSpec == BreakerInit /\ [][BreakerNext]_breakerVars

-------------------------------------------------------------------------------
BreakerTypeOK ==
  /\ breaker \in {"closed", "open", "half_open"}
  /\ cooled \in BOOLEAN
  /\ probesUsed \in 0..ProbeLimit
  /\ consecutive \in Nat
  /\ samples \in Nat
  /\ failures \in 0..samples

(* A closed breaker never sits on evidence that should have opened it: not  *)
(* after a late outcome, nor after closing on a probe (record SQL).         *)
ClosedIsHealthy == breaker = "closed" => ~Unhealthy(consecutive, samples, failures)
===============================================================================
