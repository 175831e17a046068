----------------------------- MODULE RemoteCall -----------------------------
(***************************************************************************)
(* What the relay promises about a device's calls to the laptop, without   *)
(* connections, handshakes, frames or a relay: a call is carried out at    *)
(* most once and never beside another, it resolves only when it has been   *)
(* carried out to its end, and it is settled once.  A call that is         *)
(* rejected may have been carried out, or may be carried out yet.          *)
(***************************************************************************)

CONSTANTS Rpc, None

VARIABLES
  outcome,   \* of each call: "none", "pending", "resolved" or "rejected"
  handled,   \* the calls whose handler was started
  working    \* the call whose handler runs, or None

vars == <<outcome, handled, working>>

Init ==
  /\ outcome = [i \in Rpc |-> "none"]
  /\ handled = {}
  /\ working = None

Call(i) ==
  /\ outcome[i] = "none"
  /\ \E how \in {"pending", "rejected"} : outcome' = [outcome EXCEPT ![i] = how]
  /\ UNCHANGED <<handled, working>>

Start(i) ==
  /\ outcome[i] # "none" /\ i \notin handled /\ working = None
  /\ handled' = handled \cup {i}
  /\ working' = i
  /\ UNCHANGED outcome

Finish ==
  /\ working # None
  /\ working' = None
  /\ UNCHANGED <<outcome, handled>>

Resolve(i) ==
  /\ outcome[i] = "pending" /\ i \in handled /\ working # i
  /\ outcome' = [outcome EXCEPT ![i] = "resolved"]
  /\ UNCHANGED <<handled, working>>

\* One call times out, or all of them are given up with their connection.
Reject(S) ==
  /\ \A i \in S : outcome[i] = "pending"
  /\ outcome' = [i \in Rpc |-> IF i \in S THEN "rejected" ELSE outcome[i]]
  /\ UNCHANGED <<handled, working>>

Next ==
  \/ \E i \in Rpc : Call(i) \/ Start(i) \/ Resolve(i)
  \/ Finish
  \/ \E S \in SUBSET Rpc : Reject(S)

Spec == Init /\ [][Next]_vars
=============================================================================
