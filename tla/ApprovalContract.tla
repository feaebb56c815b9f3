-------------------------- MODULE ApprovalContract --------------------------
(***************************************************************************)
(* What the tool approvals of the Core promise an agent and its user,      *)
(* without pumps, waiters, locks and rows: an approval that is asked for   *)
(* is decided at most once, and the agent is told at most once, after the  *)
(* decision.  A refusal may be told in the place of a consent (the edit    *)
(* mutex was not to be had); a consent is never told in its own right.     *)
(***************************************************************************)
EXTENDS Naturals

CONSTANT Approvals

VARIABLES
  decision,            \* approval -> "unasked", "open", "yes" or "no"
  told                 \* approval -> how often the agent was told "yes" and "no"

contractVars == <<decision, told>>

Silence == [d \in {"yes", "no"} |-> 0]

Init ==
  /\ decision = [a \in Approvals |-> "unasked"]
  /\ told = [a \in Approvals |-> Silence]

\* The policy decides, or leaves it to the user.
Ask(a) ==
  /\ decision[a] = "unasked"
  /\ \E d \in {"open", "yes", "no"} : decision' = [decision EXCEPT ![a] = d]
  /\ UNCHANGED told

Decide(a) ==
  /\ decision[a] = "open"
  /\ \E d \in {"yes", "no"} : decision' = [decision EXCEPT ![a] = d]
  /\ UNCHANGED told

Tell(a) ==
  /\ decision[a] \in {"yes", "no"} /\ told[a] = Silence
  /\ \E d \in {decision[a], "no"} : told' = [told EXCEPT ![a][d] = 1]
  /\ UNCHANGED decision

Next == \E a \in Approvals : Ask(a) \/ Decide(a) \/ Tell(a)

Spec == Init /\ [][Next]_contractVars
=============================================================================
