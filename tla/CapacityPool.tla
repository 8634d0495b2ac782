----------------------------- MODULE CapacityPool ------------------------------
(***************************************************************************)
(* What the gateway's reservation ledger promises, with no counters: a     *)
(* claim on some buckets is taken only if everything already held or spent *)
(* leaves room for it, it is then either spent or given back, once, and    *)
(* never becomes claimable again.  UsageLedger, which keeps counters, is   *)
(* shown to implement this module.                                         *)
(***************************************************************************)
EXTENDS Tally

CONSTANTS
  Keys,       \* names of claims
  Buckets,    \* quota and budget windows
  Limit,      \* [Buckets -> Nat]: capacity of a window
  Backfill,   \* [Buckets -> Nat]: usage that predates the first claim
  MaxQty      \* largest single quantity claimed or spent

VARIABLES
  phase,      \* [Keys -> {"free", "held", "spent", "returned"}]
  asked,      \* [Keys -> [Buckets -> 0..MaxQty]]
  spent       \* [Keys -> [Buckets -> 0..MaxQty]]

poolVars == <<phase, asked, spent>>

InPhase(p) == { k \in Keys : phase[k] = p }

(* Everything the window b has to answer for. *)
Usage(b) ==
  Backfill[b]
    + Tally(InPhase("held"), [k \in Keys |-> asked[k][b]])
    + Tally(InPhase("spent"), [k \in Keys |-> spent[k][b]])

PoolInit ==
  /\ phase = [k \in Keys |-> "free"]
  /\ asked = [k \in Keys |-> [b \in Buckets |-> 0]]
  /\ spent = [k \in Keys |-> [b \in Buckets |-> 0]]

Take(k, ask) ==
  /\ phase[k] = "free"
  /\ \A b \in Buckets : ask[b] > 0 => Usage(b) + ask[b] <= Limit[b]
  /\ phase' = [phase EXCEPT ![k] = "held"]
  /\ asked' = [asked EXCEPT ![k] = ask]
  /\ UNCHANGED spent

(* The true usage may exceed what was asked: it is recorded in full. *)
Spend(k, actual) ==
  /\ phase[k] = "held"
  /\ phase' = [phase EXCEPT ![k] = "spent"]
  /\ spent' = [spent EXCEPT ![k] = actual]
  /\ UNCHANGED asked

GiveBack(k) ==
  /\ phase[k] = "held"
  /\ phase' = [phase EXCEPT ![k] = "returned"]
  /\ UNCHANGED <<asked, spent>>

PoolNext ==
  \E k \in Keys :
    \/ \E q \in [Buckets -> 0..MaxQty] : Take(k, q) \/ Spend(k, q)
    \/ GiveBack(k)

PoolSpec == PoolInit /\ [][PoolNext]_poolVars
===============================================================================
