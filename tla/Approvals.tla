------------------------------ MODULE Approvals ------------------------------
(***************************************************************************)
(* A provider asks before it acts: the adapter keeps its request, the      *)
(* coordinator records it as an approval, and a paired device, or the      *)
(* expiry of the approval, answers it.  Decisions, expiry timers, the      *)
(* Claude permission bridge, the end of the turn and a crash of the daemon *)
(* meet over one record.                                                   *)
(*                                                                         *)
(* As in TurnCoordinator, a step is one SQLite commit or one await, and    *)
(* LoopFree keeps other handlers off the event loop between two commits of *)
(* one run of it.  The signature of a decision and the digest it binds are *)
(* checked before any step of this module; which device signed is left     *)
(* out.  Of the choices a provider offers, "allow" stands for the one that *)
(* lets the action happen and "deny" for the one-shot denial.              *)
(***************************************************************************)
EXTENDS Integers, Sequences

CONSTANTS
  Approval,     \* requests of providers
  Turn,
  TurnOf,       \* [Approval -> Turn]
  Bridged,      \* turns of Claude, whose permission bridge keeps the requests
  Deniable,     \* approvals whose choices include a one-shot denial
  MaxCrashes    \* bound: crashes of the daemon in one behaviour

ASSUME ApprovalConstants ==
  /\ TurnOf \in [Approval -> Turn]
  /\ Bridged \subseteq Turn
  /\ Deniable \subseteq Approval
  /\ MaxCrashes \in Nat

VARIABLES
  \* the SQLite store
  status,     \* approvals.status
  choice,     \* the choice in approvals.decision_json
  log,        \* the approval events of the conversation, per approval
  \* the memory of the daemon
  asked,      \* how far the coordinator is with the provider's request
  deliver,    \* the deliverApprovalDecision call whose decision was recorded
  expiry,     \* the expireApproval call
  timers,     \* approvalTimers
  pending,    \* requests the adapter still holds open
  streaming,  \* turns whose provider stream the coordinator reads
  \* outside
  due,        \* approvals whose expires_at has passed
  heard,      \* what the provider was told
  crashes

store == <<status, choice, log>>
handlers == <<asked, deliver, expiry>>
adapter == <<pending, streaming>>
vars == <<status, choice, log, asked, deliver, expiry, timers, pending, streaming,
          due, heard, crashes>>

-----------------------------------------------------------------------------
Status == {"none", "pending", "decided", "expired", "delivery_failed"}

Choice == {"allow", "deny"}

\* approval.decided of a device, and approval.decided of outcome "expired".
EventType == {"approval.requested", "approval.decided", "approval.expired"}

\* Not asked, in the event queue of the turn, recorded and about to be logged,
\* logged, or out of the daemon's mind after a crash.
Asked == {"no", "queued", "created", "logged", "lost"}

\* Awaiting respondToApproval before and after the provider has the answer,
\* about to record its failure, finished, cut by a crash.
Deliver == {"idle", "responding", "answered", "rejected", "done", "lost"}

\* About to log the expiry, awaiting respondToApproval or interruptTurn.
Expiry == {"idle", "expired", "responding", "done", "lost"}

Offered(a) == IF a \in Deniable THEN Choice ELSE {"allow"}

LoopFree ==
  \A a \in Approval :
    asked[a] # "created" /\ deliver[a] # "rejected" /\ expiry[a] # "expired"

Logged(a, e) == \E i \in DOMAIN log[a] : log[a][i] = e

AppendEvent(a, e) == log' = [log EXCEPT ![a] = Append(@, e)]

Ask(a, to) == asked' = [asked EXCEPT ![a] = to]

\* A mutated DenialChoice: the first choice when there is no denial.
DenialOrFirstChoice(a) == IF a \in Deniable THEN "deny" ELSE "allow"

\* denialChoice; "none" makes the caller interrupt the turn instead.
DenialChoice(a) == IF a \in Deniable THEN "deny" ELSE "none"

\* respondToApproval accepts a choice only while the adapter holds the request
\* for a turn it still streams.
Answerable(a) == a \in pending /\ TurnOf[a] \in streaming

\* The adapter has been called with an answer and has not returned.
Responding(a) == deliver[a] \in {"responding", "answered"} \/ expiry[a] = "responding"

\* Codex and Hermes forget the request before they write the answer, the bridge
\* of Claude once it is written.
ForgetOnCall(a) ==
  pending' = IF TurnOf[a] \in Bridged THEN pending ELSE pending \ {a}

-----------------------------------------------------------------------------
Init ==
  /\ status = [a \in Approval |-> "none"]
  /\ choice = [a \in Approval |-> "none"]
  /\ log = [a \in Approval |-> <<>>]
  /\ asked = [a \in Approval |-> "no"]
  /\ deliver = [a \in Approval |-> "idle"]
  /\ expiry = [a \in Approval |-> "idle"]
  /\ timers = {}
  /\ pending = {}
  /\ streaming = Turn
  /\ due = {}
  /\ heard = [a \in Approval |-> "none"]
  /\ crashes = 0

-----------------------------------------------------------------------------
\* The request of the provider.

\* The adapter keeps the request and queues an event; a request that would
\* exceed its limit fails the turn instead (EndTurn).
ProviderAsks(a) ==
  /\ LoopFree
  /\ asked[a] = "no"
  /\ TurnOf[a] \in streaming
  /\ pending' = pending \cup {a}
  /\ Ask(a, "queued")
  /\ UNCHANGED <<store, deliver, expiry, timers, streaming, due, heard, crashes>>

\* createApproval and, with no await, the timer of its expiry.
CreateApproval(a) ==
  /\ LoopFree
  /\ asked[a] = "queued"
  /\ TurnOf[a] \in streaming
  /\ status' = [status EXCEPT ![a] = "pending"]
  /\ timers' = timers \cup {a}
  /\ Ask(a, "created")
  /\ UNCHANGED <<choice, log, deliver, expiry, adapter, due, heard, crashes>>

AppendRequested(a) ==
  /\ asked[a] = "created"
  /\ AppendEvent(a, "approval.requested")
  /\ Ask(a, "logged")
  /\ UNCHANGED <<status, choice, deliver, expiry, timers, adapter, due, heard, crashes>>

-----------------------------------------------------------------------------
\* deliverApprovalDecision.

\* A mutated Decide: the status of the record is not looked at.
DecideWhateverStatus(a) ==
  /\ LoopFree
  /\ status[a] # "none"
  /\ a \notin due
  /\ \E c \in Offered(a) : choice' = [choice EXCEPT ![a] = c]
  /\ status' = [status EXCEPT ![a] = "decided"]
  /\ timers' = timers \ {a}
  /\ IF Answerable(a)
       THEN deliver' = [deliver EXCEPT ![a] = "responding"] /\ ForgetOnCall(a)
       ELSE deliver' = [deliver EXCEPT ![a] = "rejected"] /\ UNCHANGED pending
  /\ UNCHANGED <<log, asked, expiry, streaming, due, heard, crashes>>

\* recordApprovalDecision, the end of the timer and the call of the adapter,
\* all in one run of the event loop.  Any other status, or a choice that is not
\* offered, throws before anything is changed.
Decide(a) ==
  /\ LoopFree
  /\ status[a] = "pending"
  /\ a \notin due
  /\ \E c \in Offered(a) : choice' = [choice EXCEPT ![a] = c]
  /\ status' = [status EXCEPT ![a] = "decided"]
  /\ timers' = timers \ {a}
  /\ IF Answerable(a)
       THEN deliver' = [deliver EXCEPT ![a] = "responding"] /\ ForgetOnCall(a)
       ELSE deliver' = [deliver EXCEPT ![a] = "rejected"] /\ UNCHANGED pending
  /\ UNCHANGED <<log, asked, expiry, streaming, due, heard, crashes>>

\* A mutated DecideLate: the timer is cleared as for a decision.
DecideLateClearingTimer(a) ==
  /\ LoopFree
  /\ status[a] = "pending"
  /\ a \in due
  /\ status' = [status EXCEPT ![a] = "expired"]
  /\ timers' = timers \ {a}
  /\ UNCHANGED <<choice, log, handlers, adapter, due, heard, crashes>>

\* A decision after expires_at marks the record and throws; the timer stays.
DecideLate(a) ==
  /\ LoopFree
  /\ status[a] = "pending"
  /\ a \in due
  /\ status' = [status EXCEPT ![a] = "expired"]
  /\ UNCHANGED <<choice, log, handlers, timers, adapter, due, heard, crashes>>

\* The answer reaches the provider.
WriteDecision(a) ==
  /\ deliver[a] = "responding"
  /\ heard' = [heard EXCEPT ![a] = choice[a]]
  /\ deliver' = [deliver EXCEPT ![a] = "answered"]
  /\ UNCHANGED <<store, asked, expiry, timers, adapter, due, crashes>>

\* A mutated AppendDecided: the event does not wait for the provider.
AppendDecidedUnanswered(a) ==
  /\ LoopFree
  /\ deliver[a] \in {"responding", "answered"}
  /\ AppendEvent(a, "approval.decided")
  /\ pending' = pending \ {a}
  /\ deliver' = [deliver EXCEPT ![a] = "done"]
  /\ UNCHANGED <<status, choice, asked, expiry, timers, streaming, due, heard, crashes>>

AppendDecided(a) ==
  /\ LoopFree
  /\ deliver[a] = "answered"
  /\ AppendEvent(a, "approval.decided")
  /\ pending' = pending \ {a}
  /\ deliver' = [deliver EXCEPT ![a] = "done"]
  /\ UNCHANGED <<status, choice, asked, expiry, timers, streaming, due, heard, crashes>>

\* respondToApproval throws: the write fails, the request of Hermes times out,
\* the client of the bridge disconnects - with or without the answer received.
RespondFails(a) ==
  /\ LoopFree
  /\ deliver[a] \in {"responding", "answered"}
  /\ deliver' = [deliver EXCEPT ![a] = "rejected"]
  /\ UNCHANGED <<store, asked, expiry, timers, adapter, due, heard, crashes>>

\* markApprovalDeliveryFailed.  The interruptTurn that follows ends the turn
\* (EndTurn) or fails; the call answers an error either way.
MarkDeliveryFailed(a) ==
  /\ deliver[a] = "rejected"
  /\ status' = [status EXCEPT ![a] = "delivery_failed"]
  /\ deliver' = [deliver EXCEPT ![a] = "done"]
  /\ UNCHANGED <<choice, log, asked, expiry, timers, adapter, due, heard, crashes>>

-----------------------------------------------------------------------------
\* expireApproval.

\* The timer fires.  The record is set to expired if it is still pending; one
\* that a late decision marked expired is carried on with as well.
ExpireApproval(a) ==
  /\ LoopFree
  /\ a \in timers
  /\ a \in due
  /\ timers' = timers \ {a}
  /\ IF status[a] \in {"pending", "expired"}
       THEN /\ status' = [status EXCEPT ![a] = "expired"]
            /\ expiry' = [expiry EXCEPT ![a] = "expired"]
       ELSE UNCHANGED <<status, expiry>>
  /\ UNCHANGED <<choice, log, asked, deliver, adapter, due, heard, crashes>>

\* approval.decided with outcome "expired" and, with no await, the call of the
\* adapter: the denial, or the interrupt of the turn when there is none.
AppendExpired(a) ==
  /\ expiry[a] = "expired"
  /\ AppendEvent(a, "approval.expired")
  /\ IF DenialChoice(a) # "none" /\ Answerable(a)
       THEN expiry' = [expiry EXCEPT ![a] = "responding"] /\ ForgetOnCall(a)
       ELSE expiry' = [expiry EXCEPT ![a] = "done"] /\ UNCHANGED pending
  /\ UNCHANGED <<status, choice, asked, deliver, timers, streaming, due, heard, crashes>>

\* The denial is written, or it fails, which leaves a line in the audit only.
DenyExpired(a) ==
  /\ LoopFree
  /\ expiry[a] = "responding"
  /\ \/ heard' = [heard EXCEPT ![a] = DenialChoice(a)] /\ pending' = pending \ {a}
     \/ UNCHANGED <<heard, pending>>
  /\ expiry' = [expiry EXCEPT ![a] = "done"]
  /\ UNCHANGED <<store, asked, deliver, timers, streaming, due, crashes>>

-----------------------------------------------------------------------------
\* The adapters and the world.

\* A mutated BridgeDenies: its timer leaves the request in the map.
BridgeDeniesKeeping(a) ==
  /\ LoopFree
  /\ TurnOf[a] \in Bridged
  /\ a \in pending
  /\ \/ heard[a] = "none" /\ ~Responding(a) /\ heard' = [heard EXCEPT ![a] = "deny"]
     \/ UNCHANGED heard
  /\ UNCHANGED <<store, handlers, timers, pending, streaming, due, crashes>>

\* The bridge has a timer of its own, and denies what it holds when it closes;
\* a client that disconnects hears nothing, and a socket that was written to is
\* ended and takes no second answer.
BridgeDenies(a) ==
  /\ LoopFree
  /\ TurnOf[a] \in Bridged
  /\ a \in pending
  /\ pending' = pending \ {a}
  /\ \/ heard[a] = "none" /\ ~Responding(a) /\ heard' = [heard EXCEPT ![a] = "deny"]
     \/ UNCHANGED heard
  /\ UNCHANGED <<store, handlers, timers, streaming, due, crashes>>

\* A mutated EndTurn: the timers of the turn are cleared with it.
EndTurnClearingTimers(t) ==
  /\ LoopFree
  /\ t \in streaming
  /\ streaming' = streaming \ {t}
  /\ pending' = {a \in pending : TurnOf[a] # t \/ t \in Bridged}
  /\ timers' = {a \in timers : TurnOf[a] # t}
  /\ UNCHANGED <<store, handlers, due, heard, crashes>>

\* The stream ends or fails, also while an approval is pending or under way.
\* Events still queued are dropped with it; the timers stay armed.
EndTurn(t) ==
  /\ LoopFree
  /\ t \in streaming
  /\ streaming' = streaming \ {t}
  /\ pending' = {a \in pending : TurnOf[a] # t \/ t \in Bridged}
  /\ UNCHANGED <<store, handlers, timers, due, heard, crashes>>

\* expires_at passes.
FallDue(a) ==
  /\ status[a] # "none"
  /\ a \notin due
  /\ due' = due \cup {a}
  /\ UNCHANGED <<store, handlers, timers, adapter, heard, crashes>>

\* The daemon dies and starts again, without timers, turns or the requests its
\* adapters held; the provider processes lose their clients.
Crash ==
  /\ crashes < MaxCrashes
  /\ crashes' = crashes + 1
  /\ asked' = [a \in Approval |-> IF asked[a] = "no" THEN "no" ELSE "lost"]
  /\ deliver' = [a \in Approval |->
                   IF deliver[a] \in {"idle", "done"} THEN deliver[a] ELSE "lost"]
  /\ expiry' = [a \in Approval |->
                  IF expiry[a] \in {"idle", "done"} THEN expiry[a] ELSE "lost"]
  /\ timers' = {}
  /\ pending' = {}
  /\ streaming' = {}
  /\ UNCHANGED <<store, due, heard>>

-----------------------------------------------------------------------------
\* What the daemon does by itself about an approval.
Deliveries(a) ==
  WriteDecision(a) \/ AppendDecided(a) \/ RespondFails(a) \/ MarkDeliveryFailed(a)

Expiring(a) == ExpireApproval(a) \/ AppendExpired(a) \/ DenyExpired(a)

Next ==
  \/ \E a \in Approval :
       \/ ProviderAsks(a) \/ CreateApproval(a) \/ AppendRequested(a)
       \/ Decide(a) \/ DecideLate(a)
       \/ Deliveries(a) \/ Expiring(a)
       \/ BridgeDenies(a) \/ FallDue(a)
  \/ \E t \in Turn : EndTurn(t)
  \/ Crash

Spec == Init /\ [][Next]_vars

\* The event loop finishes what it began, calls of the adapters settle, time
\* passes, and a timer whose time has come fires.
Fairness ==
  \A a \in Approval :
    /\ WF_vars(AppendRequested(a))
    /\ WF_vars(Deliveries(a))
    /\ WF_vars(FallDue(a))
    /\ WF_vars(Expiring(a))

FairSpec == Spec /\ Fairness

-----------------------------------------------------------------------------
\* Properties.

\* The types of all variables.
TypeOK ==
  /\ status \in [Approval -> Status]
  /\ choice \in [Approval -> Choice \cup {"none"}]
  /\ log \in [Approval -> Seq(EventType)]
  /\ asked \in [Approval -> Asked]
  /\ deliver \in [Approval -> Deliver]
  /\ expiry \in [Approval -> Expiry]
  /\ timers \subseteq Approval
  /\ pending \subseteq Approval
  /\ streaming \subseteq Turn
  /\ due \subseteq Approval
  /\ heard \in [Approval -> Choice \cup {"none"}]
  /\ crashes \in Nat

\* A provider is told "allow" only on the recorded decision of a device: not by
\* an expiry, not by one that comes after a late decision, not when the provider
\* offers no denial, and not for a record that a delivery left as expired.
AllowedOnlyByDecision ==
  \A a \in Approval : heard[a] = "allow" =>
    choice[a] = "allow" /\ status[a] \in {"decided", "delivery_failed"}

\* "Expired or already resolved approvals cannot be reused" (SECURITY.md:214):
\* the conversation shows one request and after it at most one outcome, and the
\* record never says otherwise, whatever late decisions, timers and crashes
\* have met over it.
OneOutcomePerApproval ==
  \A a \in Approval :
    /\ Logged(a, "approval.decided") => status[a] = "decided"
    /\ Logged(a, "approval.expired") => status[a] = "expired"
    /\ \A i, j \in DOMAIN log[a] :
         /\ log[a][i] = log[a][j] => i = j
         /\ log[a][j] = "approval.requested" => j <= i

\* A provider is answered once, by a device, by the expiry or by its bridge: an
\* answer that came first stays.
ProviderHearsOneAnswer ==
  [][\A a \in Approval : heard[a] # "none" => heard'[a] = heard[a]]_vars

\* A decision the conversation shows is the one the provider was told, although
\* the bridge denies on its own and a response may fail after it was received: a
\* consequence of Consent, below.
ShownDecisionsWereHeard ==
  \A a \in Approval : Logged(a, "approval.decided") => heard[a] = choice[a]

Recorded(a) ==
  IF status[a] = "decided" THEN choice[a]
  ELSE IF status[a] = "delivery_failed" THEN "failed" ELSE status[a]

Shown(a) ==
  CASE Logged(a, "approval.decided") -> "decision"
    [] Logged(a, "approval.expired") -> "expiry"
    [] log[a] = <<>> -> "nothing"
    [] OTHER -> "request"

G == INSTANCE Consent WITH
       record <- [a \in Approval |-> Recorded(a)],
       told <- heard,
       shown <- [a \in Approval |-> Shown(a)]

\* Every step of the daemon is a step of Consent or none: over bridges, timers,
\* late decisions, failed deliveries and crashes the record, the provider and
\* the conversation move forward only, allow follows a recorded decision, and a
\* decision is shown after the provider was told just that.
ImplementsConsent == G!Spec

\* Without a crash no outcome is lost on its way to the conversation: a record
\* that is decided, or expired, by the timer or by a late decision, is shown or
\* somebody is still going to show it.
OutcomesReachTheLog ==
  \A a \in Approval : asked[a] # "lost" =>
    /\ status[a] = "pending" => a \in timers
    /\ status[a] = "decided" =>
         Logged(a, "approval.decided") \/ deliver[a] \in {"responding", "answered", "rejected"}
    /\ status[a] = "expired" =>
         Logged(a, "approval.expired") \/ a \in timers \/ expiry[a] = "expired"

\* While the daemon lives, an approval is settled: decided and shown, expired
\* and shown, or marked as undeliverable.
ApprovalsSettle ==
  \A a \in Approval :
    status[a] = "pending" ~>
      \/ Logged(a, "approval.decided")
      \/ Logged(a, "approval.expired")
      \/ status[a] = "delivery_failed"
      \/ asked[a] = "lost"

==============================================================================
