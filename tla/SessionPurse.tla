------------------------------ MODULE SessionPurse ------------------------------
(***************************************************************************)
(* What metered sessions promise a user about his seconds, with no         *)
(* requests, clocks, lists, retries or deaths: a session is begun on what  *)
(* is left of the plan and on credits, ends at most once, at no more than  *)
(* it was given, and is paid for beyond the plan at most once, from one    *)
(* purse.  ConversationSessions, in which the user, the next start and the *)
(* sweep race to end a session, is shown to implement this module.         *)
(***************************************************************************)
EXTENDS Tally

CONSTANTS
  Keys,       \* names of sessions
  PlanLimit,  \* the plan's seconds of the month
  Credits,    \* purchased seconds at the start
  Ceiling     \* most seconds of one session

VARIABLES
  phase,      \* [Keys -> {"none", "open", "ended", "closed", "void"}]
  given,      \* [Keys -> 0..Ceiling]: seconds a session may use
  loan,       \* [Keys -> 0..Ceiling]: the part of given the plan does not cover
  bill,       \* [Keys -> 0..Ceiling]: seconds it used
  purse,      \* purchased seconds that are left
  paid        \* [Keys -> 0..Credits]: purchased seconds it cost

purseVars == <<phase, given, loan, bill, purse, paid>>

InPhase(ps) == { k \in Keys : phase[k] \in ps }

Ended == InPhase({"ended", "closed"})

(* An open session holds all it was given, an ended one what it used. *)
PlanLeft ==
  NonNegative(PlanLimit - Tally(InPhase({"open"}), given) - Tally(Ended, bill))

(* What the session used beyond what the other ended ones left of the plan. *)
Beyond(k) ==
  NonNegative(bill[k] - NonNegative(PlanLimit - Tally(Ended \ {k}, bill)))

PurseInit ==
  /\ phase = [k \in Keys |-> "none"]
  /\ given = [k \in Keys |-> 0]
  /\ loan = [k \in Keys |-> 0]
  /\ bill = [k \in Keys |-> 0]
  /\ purse = Credits
  /\ paid = [k \in Keys |-> 0]

(* The credits a session counts on need not be there when it ends. *)
Begin(k) ==
  /\ phase[k] = "none"
  /\ phase' = [phase EXCEPT ![k] = "open"]
  /\ \E n \in 1..Ceiling :
       /\ n <= PlanLeft + Credits
       /\ given' = [given EXCEPT ![k] = n]
       /\ loan' = [loan EXCEPT ![k] = NonNegative(n - PlanLeft)]
  /\ UNCHANGED <<bill, purse, paid>>

Withdraw(k) ==
  /\ phase[k] = "open"
  /\ phase' = [phase EXCEPT ![k] = "void"]
  /\ UNCHANGED <<given, loan, bill, purse, paid>>

End(k) ==
  /\ phase[k] = "open"
  /\ phase' = [phase EXCEPT ![k] = "ended"]
  /\ \E n \in 0..given[k] : bill' = [bill EXCEPT ![k] = n]
  /\ UNCHANGED <<given, loan, purse, paid>>

Pay(k) ==
  LET n == Least(Beyond(k), purse) IN
  /\ phase[k] = "ended"
  /\ phase' = [phase EXCEPT ![k] = "closed"]
  /\ purse' = purse - n
  /\ paid' = [paid EXCEPT ![k] = n]
  /\ UNCHANGED <<given, loan, bill>>

(* Nobody asks for the payment again. *)
Forgo(k) ==
  /\ phase[k] = "ended"
  /\ phase' = [phase EXCEPT ![k] = "closed"]
  /\ UNCHANGED <<given, loan, bill, purse, paid>>

PurseNext == \E k \in Keys : Begin(k) \/ Withdraw(k) \/ End(k) \/ Pay(k) \/ Forgo(k)

PurseSpec == PurseInit /\ [][PurseNext]_purseVars

(* Every purchased second is in the purse or in one session's bill.         *)
PurseBalances == purse + Tally(Keys, paid) = Credits
===============================================================================
