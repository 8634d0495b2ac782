------------------------------- MODULE StepBoard --------------------------------
(***************************************************************************)
(* What the listening queue promises about the steps of an episode, with   *)
(* no workers, locks, lists or recoveries: a step is posted when all it    *)
(* reads has been made, and again only after it was given up; it is tried  *)
(* so many times before it is given up; it is done when its product is     *)
(* there; and what is done, refused or made stays so.  ListeningQueue, in  *)
(* which workers die, lose their locks and run a job side by side, is      *)
(* shown to implement this module.                                         *)
(***************************************************************************)
EXTENDS Naturals

CONSTANTS
  Steps,      \* names of steps
  Reads,      \* [Steps -> SUBSET Steps]: the steps whose products it reads
  MostTries   \* attempts before a step is given up

VARIABLES
  phase,      \* [Steps -> {"absent", "open", "done", "refused", "dead"}]
  tries,      \* [Steps -> 0..MostTries]: attempts since it was posted
  made        \* the steps whose product is there

boardVars == <<phase, tries, made>>

(* An episode may be taken over partway.                                    *)
BoardInit ==
  /\ phase \in [Steps -> {"absent", "open", "done"}]
  /\ tries \in [Steps -> 0..MostTries]
  /\ made = {s \in Steps : phase[s] = "done"}
  /\ \A s \in Steps : /\ phase[s] = "open" => tries[s] = 0
                      /\ phase[s] # "absent" => Reads[s] \subseteq made

Post(s) ==
  /\ phase[s] \in {"absent", "dead"}
  /\ Reads[s] \subseteq made
  /\ phase' = [phase EXCEPT ![s] = "open"]
  /\ tries' = [tries EXCEPT ![s] = 0]
  /\ UNCHANGED made

Try(s) ==
  /\ phase[s] = "open"
  /\ tries[s] < MostTries
  /\ tries' = [tries EXCEPT ![s] = @ + 1]
  /\ UNCHANGED <<phase, made>>

(* A worker may be late: its step is done, refused or given up by then.     *)
Make(s) ==
  /\ phase[s] # "absent"
  /\ made' = made \cup {s}
  /\ UNCHANGED <<phase, tries>>

Closes(s, verdict) ==
  /\ tries[s] > 0
  /\ phase[s] = "open"
  /\ phase' = [phase EXCEPT ![s] = verdict]
  /\ UNCHANGED <<tries, made>>

Finish(s) == Closes(s, "done") /\ s \in made

Refuse(s) == Closes(s, "refused")

GiveUp(s) == tries[s] = MostTries /\ Closes(s, "dead")

BoardNext == \E s \in Steps : Post(s) \/ Try(s) \/ Make(s) \/ Finish(s) \/ Refuse(s) \/ GiveUp(s)

BoardSpec == BoardInit /\ [][BoardNext]_boardVars
===============================================================================
