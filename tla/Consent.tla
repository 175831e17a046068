------------------------------ MODULE Consent ------------------------------
(***************************************************************************)
(* What the daemon promises about an action of a provider that needs       *)
(* consent, without adapters, timers, turns or crashes.  The record of an  *)
(* approval, what the provider is told and what the conversation shows     *)
(* each move forward only: "allow" is told on the recorded decision of a   *)
(* device and on nothing else, a denial is always safe, the conversation   *)
(* shows a decision once the provider has been told just that, and a       *)
(* decision that is shown is never withdrawn.                              *)
(***************************************************************************)

CONSTANT Approval

VARIABLES
  record,   \* "none", "pending", a choice, "expired" or "failed"
  told,     \* the provider's answer, or "none"
  shown     \* "nothing", "request", "decision" or "expiry"

vars == <<record, told, shown>>

Choice == {"allow", "deny"}

Init ==
  /\ record = [a \in Approval |-> "none"]
  /\ told = [a \in Approval |-> "none"]
  /\ shown = [a \in Approval |-> "nothing"]

Becomes(a, from, to) ==
  /\ record[a] \in from
  /\ record' = [record EXCEPT ![a] = to]
  /\ UNCHANGED <<told, shown>>

Ask(a) == Becomes(a, {"none"}, "pending")

Decide(a) == \E c \in Choice : Becomes(a, {"pending"}, c)

Expire(a) == Becomes(a, {"pending"}, "expired")

\* A decision that could not be delivered; the provider may have heard it.
Fail(a) == shown[a] # "decision" /\ Becomes(a, Choice, "failed")

Tell(a) ==
  /\ told[a] = "none"
  /\ \E c \in Choice :
       /\ c = "allow" => record[a] = "allow"
       /\ told' = [told EXCEPT ![a] = c]
  /\ UNCHANGED <<record, shown>>

Shows(a, from, to) ==
  /\ shown[a] = from
  /\ shown' = [shown EXCEPT ![a] = to]
  /\ UNCHANGED <<record, told>>

ShowRequest(a) == record[a] = "pending" /\ Shows(a, "nothing", "request")

ShowDecision(a) ==
  /\ record[a] \in Choice /\ told[a] = record[a]
  /\ Shows(a, "request", "decision")

ShowExpiry(a) == record[a] = "expired" /\ Shows(a, "request", "expiry")

Next ==
  \E a \in Approval :
    \/ Ask(a) \/ Decide(a) \/ Expire(a) \/ Fail(a)
    \/ Tell(a)
    \/ ShowRequest(a) \/ ShowDecision(a) \/ ShowExpiry(a)

Spec == Init /\ [][Next]_vars
============================================================================
