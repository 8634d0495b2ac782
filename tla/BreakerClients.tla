---------------------------- MODULE BreakerClients -----------------------------
(***************************************************************************)
(* The circuit breaker under an unending stream of gateway calls.  A       *)
(* client asks for the breaker's state; admitted, it either reports an     *)
(* outcome or leaves without one: a later gate of the pipeline denied it   *)
(* (rate limit, dedupe, quota, concurrency) or its process died.  Then it  *)
(* is a new call.                                                          *)
(***************************************************************************)
EXTENDS CircuitBreaker, FiniteSets

CONSTANTS
  Clients,      \* concurrent gateway calls
  Quitters,     \* clients that may leave without reporting an outcome
  MaxSamples    \* bound: samples counted while the breaker does not close

ASSUME ClientsAssumption ==
  /\ IsFiniteSet(Clients)
  /\ Quitters \subseteq Clients
  /\ MaxSamples \in Nat

VARIABLES
  client,   \* [Clients -> {"idle", "admitted"}]
  term      \* probes of the current half-open phase: clients that were
            \* admitted in it and have not reported yet

clientVars == <<breakerVars, client, term>>

ClientsInit ==
  /\ BreakerInit
  /\ client = [c \in Clients |-> "idle"]
  /\ term = {}

(* Leaving the half-open phase ends the term of its probes. *)
TermAfter(members) == IF breaker' = "half_open" THEN members ELSE {}

AskAdmitted(c) ==
  /\ client[c] = "idle"
  /\ Admit
  /\ client' = [client EXCEPT ![c] = "admitted"]
  /\ term' = TermAfter(term \cup {c})

AskTurnedAway(c) ==
  /\ client[c] = "idle"
  /\ Turnaway
  /\ UNCHANGED <<client, term>>

Report(c, success) ==
  /\ client[c] = "admitted"
  /\ samples < MaxSamples \/ breaker = "half_open"
  /\ RecordOutcome(success)
  /\ client' = [client EXCEPT ![c] = "idle"]
  /\ term' = TermAfter(term \ {c})

Leave(c) ==
  /\ c \in Quitters
  /\ client[c] = "admitted"
  /\ UNCHANGED breakerVars
  /\ client' = [client EXCEPT ![c] = "idle"]
  /\ term' = TermAfter(term \ {c})

ClientStep(c) ==
  \/ AskAdmitted(c)
  \/ AskTurnedAway(c)
  \/ \E success \in BOOLEAN : Report(c, success)
  \/ Leave(c)

ClockStep == CooldownElapses /\ UNCHANGED <<client, term>>

ClientsNext == ClockStep \/ \E c \in Clients : ClientStep(c)

(* Time passes, calls keep coming, and an admitted call ends: its outcome   *)
(* is recorded in every terminal path of the pipeline, within the maximum   *)
(* duration of a serverless function.                                       *)
ClientsFairness ==
  /\ WF_clientVars(ClockStep)
  /\ \A c \in Clients :
       /\ WF_clientVars(AskAdmitted(c))
       /\ WF_clientVars((\E success \in BOOLEAN : Report(c, success)) \/ Leave(c))

ClientsSpec == ClientsInit /\ [][ClientsNext]_clientVars /\ ClientsFairness

-------------------------------------------------------------------------------
(* Properties *)

ClientsTypeOK ==
  /\ BreakerTypeOK
  /\ client \in [Clients -> {"idle", "admitted"}]
  /\ term \subseteq { c \in Clients : client[c] = "admitted" }

(* In one half-open phase no more calls are let through than there are      *)
(* probe slots: concurrent callers never both win one (get_state SQL).      *)
ProbesWithinLimit == Cardinality(term) <= ProbeLimit

(* After the cooldown an open breaker lets calls try again, and a half-open *)
(* phase with at least one probe that lives to report is decided.           *)
ProbationDecided ==
  /\ breaker = "open" ~> breaker = "half_open"
  /\ term \ Quitters # {} ~> breaker # "half_open"

(* The breaker's own account of itself (circuit-breaker.ts:11-13): a        *)
(* half-open phase always ends, by a probe that succeeds or one that fails. *)
ProbationEnds == breaker = "half_open" ~> breaker # "half_open"
===============================================================================
