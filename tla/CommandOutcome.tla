---------------------------- MODULE CommandOutcome ----------------------------
(***************************************************************************)
(* What a CommandHandle promises to those who call Wait on it: one outcome *)
(* is settled, once; a call answers with that outcome or, when its own     *)
(* context ends first, with a timeout.                                     *)
(***************************************************************************)
CONSTANTS Callers,   \* the calls of Wait
          Outcomes,  \* what Wait can return
          Pending,   \* no outcome, or no answer, yet
          TimedOut   \* the answer of a call whose context ended

VARIABLES outcome,   \* what the command ended with
          answer     \* answer[c] is what call c returned

vars == <<outcome, answer>>

Init == /\ outcome = Pending
        /\ answer = [c \in Callers |-> Pending]

(* The command ends; no later step changes what it ended with. *)
Settle == /\ outcome = Pending
          /\ outcome' \in Outcomes
          /\ UNCHANGED answer

Answer(c) == /\ answer[c] = Pending
             /\ outcome # Pending
             /\ answer' = [answer EXCEPT ![c] = outcome]
             /\ UNCHANGED outcome

GiveUp(c) == /\ answer[c] = Pending
             /\ answer' = [answer EXCEPT ![c] = TimedOut]
             /\ UNCHANGED outcome

Next == Settle \/ \E c \in Callers : Answer(c) \/ GiveUp(c)

Spec == Init /\ [][Next]_vars
===============================================================================
