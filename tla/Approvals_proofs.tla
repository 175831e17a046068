--------------------------- MODULE Approvals_proofs ---------------------------
(***************************************************************************)
(* Type correctness and the safety properties of Approvals, for every set  *)
(* of approvals and turns and any number of crashes.                       *)
(*                                                                         *)
(* The inductive invariant describes one approval at a time: what the      *)
(* record's status says of the calls under way (CallsFollowRecord), which  *)
(* events the conversation shows (LogFollowsRecord) and what the provider  *)
(* can have been told (AnswerFollowsCalls).  A step concerns one approval  *)
(* and leaves the others as they are (Untouched), but for the end of a     *)
(* turn and a crash.  That every step is a step of Consent or none rests   *)
(* on the same invariant (Refinement).                                     *)
(***************************************************************************)
EXTENDS Approvals, TLAPS

Requested == <<"approval.requested">>

\* Appending an event of the module keeps the type of the log.
LEMMA AppendEventType ==
  ASSUME TypeOK, NEW a \in Approval, NEW e \in EventType, AppendEvent(a, e)
  PROVE  log' \in [Approval -> Seq(EventType)]
BY DEF TypeOK, AppendEvent

LEMMA InitType == Init => TypeOK
BY ApprovalConstants DEF Init, TypeOK, Status, Choice, EventType, Asked, Deliver, Expiry

\* Every action leaves the type of every variable as it is.
LEMMA TypeStep == TypeOK /\ [Next]_vars => TypeOK'
<1> SUFFICES ASSUME TypeOK, [Next]_vars PROVE TypeOK'
  OBVIOUS
<1> USE ApprovalConstants DEF store, handlers, adapter
<1>1. ASSUME NEW a \in Approval, ProviderAsks(a) \/ CreateApproval(a) PROVE TypeOK'
  BY <1>1 DEF TypeOK, ProviderAsks, CreateApproval, Ask, Status, Asked
<1>2. ASSUME NEW a \in Approval, AppendRequested(a) PROVE TypeOK'
  <2>1. log' \in [Approval -> Seq(EventType)]
    BY <1>2, AppendEventType DEF AppendRequested, EventType
  <2> QED BY <1>2, <2>1 DEF TypeOK, AppendRequested, Ask, Asked
<1>3. ASSUME NEW a \in Approval, Decide(a) PROVE TypeOK'
  <2>1. \A c \in Offered(a) : c \in Choice
    BY DEF Offered, Choice
  <2>2. pending' \subseteq Approval
    BY <1>3 DEF TypeOK, Decide, ForgetOnCall
  <2>3. deliver' \in [Approval -> Deliver]
    BY <1>3 DEF TypeOK, Decide, Deliver
  <2> QED BY <1>3, <2>1, <2>2, <2>3 DEF TypeOK, Decide, Status
<1>4. ASSUME NEW a \in Approval, DecideLate(a) PROVE TypeOK'
  BY <1>4 DEF TypeOK, DecideLate, Status
<1>5. ASSUME NEW a \in Approval, WriteDecision(a) \/ RespondFails(a) PROVE TypeOK'
  BY <1>5 DEF TypeOK, WriteDecision, RespondFails, Deliver
<1>6. ASSUME NEW a \in Approval, AppendDecided(a) PROVE TypeOK'
  <2>1. log' \in [Approval -> Seq(EventType)]
    BY <1>6, AppendEventType DEF AppendDecided, EventType
  <2> QED BY <1>6, <2>1 DEF TypeOK, AppendDecided, Deliver
<1>7. ASSUME NEW a \in Approval, MarkDeliveryFailed(a) PROVE TypeOK'
  BY <1>7 DEF TypeOK, MarkDeliveryFailed, Status, Deliver
<1>8. ASSUME NEW a \in Approval, ExpireApproval(a) PROVE TypeOK'
  <2>1. status' \in [Approval -> Status] /\ expiry' \in [Approval -> Expiry]
    BY <1>8 DEF TypeOK, ExpireApproval, Status, Expiry
  <2> QED BY <1>8, <2>1 DEF TypeOK, ExpireApproval
<1>9. ASSUME NEW a \in Approval, AppendExpired(a) PROVE TypeOK'
  <2>1. log' \in [Approval -> Seq(EventType)]
    BY <1>9, AppendEventType DEF AppendExpired, EventType
  <2>2. expiry' \in [Approval -> Expiry] /\ pending' \subseteq Approval
    BY <1>9 DEF TypeOK, AppendExpired, ForgetOnCall, Expiry
  <2> QED BY <1>9, <2>1, <2>2 DEF TypeOK, AppendExpired
<1>10. ASSUME NEW a \in Approval, DenyExpired(a) PROVE TypeOK'
  BY <1>10 DEF TypeOK, DenyExpired, DenialChoice, Choice, Expiry
<1>11. ASSUME NEW a \in Approval, BridgeDenies(a) \/ FallDue(a) PROVE TypeOK'
  BY <1>11 DEF TypeOK, BridgeDenies, FallDue, Choice
<1>12. ASSUME NEW t \in Turn, EndTurn(t) PROVE TypeOK'
  BY <1>12 DEF TypeOK, EndTurn
<1>13. CASE Crash
  BY <1>13 DEF TypeOK, Crash, Asked, Deliver, Expiry
<1>14. CASE UNCHANGED vars
  BY <1>14 DEF TypeOK, vars
<1> QED
  BY <1>1, <1>2, <1>3, <1>4, <1>5, <1>6, <1>7, <1>8, <1>9, <1>10, <1>11, <1>12, <1>13,
     <1>14 DEF Next, Deliveries, Expiring

\* The variables keep their types, whatever the constants are.
THEOREM TypeCorrect == Spec => []TypeOK
BY InitType, TypeStep, PTL DEF Spec

-----------------------------------------------------------------------------
\* The inductive invariant.

\* What the status of a record says of the calls under way.
CallsFollowRecord(a) ==
  /\ status[a] = "none" =>
       /\ choice[a] = "none" /\ deliver[a] = "idle" /\ expiry[a] = "idle"
       /\ a \notin timers
       /\ asked[a] \in {"no", "queued", "lost"}
  /\ status[a] # "none" => asked[a] \in {"created", "logged", "lost"}
  /\ status[a] = "pending" =>
       /\ choice[a] = "none" /\ deliver[a] = "idle" /\ expiry[a] = "idle"
       /\ asked[a] # "lost" => a \in timers
  /\ status[a] = "decided" =>
       /\ choice[a] # "none" /\ expiry[a] = "idle" /\ a \notin timers
       /\ asked[a] # "created" /\ deliver[a] # "idle"
       /\ deliver[a] = "lost" => asked[a] = "lost"
  /\ status[a] = "expired" =>
       /\ choice[a] = "none" /\ deliver[a] = "idle"
       /\ asked[a] # "created"
       /\ expiry[a] = "lost" => asked[a] = "lost"
       /\ expiry[a] = "idle" /\ asked[a] # "lost" => a \in timers
  /\ status[a] = "delivery_failed" =>
       deliver[a] = "done" /\ expiry[a] = "idle" /\ a \notin timers /\ asked[a] # "created"
  /\ deliver[a] \in {"responding", "answered", "rejected"} => status[a] = "decided"
  /\ deliver[a] \in {"responding", "answered"} => asked[a] = "logged"
  /\ a \in timers => expiry[a] = "idle" /\ asked[a] # "lost"
  /\ expiry[a] \in {"expired", "responding"} => status[a] = "expired" /\ asked[a] = "logged"
  /\ asked[a] = "lost" => TurnOf[a] \notin streaming

\* What the conversation shows.
LogFollowsRecord(a) ==
  \/ /\ log[a] = <<>>
     /\ asked[a] # "logged"
     /\ status[a] = "decided" => deliver[a] # "done"
     /\ status[a] = "expired" => asked[a] = "lost"
  \/ /\ log[a] = Requested
     /\ asked[a] \in {"logged", "lost"}
     /\ status[a] = "decided" => deliver[a] # "done"
     /\ status[a] = "expired" /\ asked[a] # "lost" => expiry[a] \in {"idle", "expired"}
  \/ /\ log[a] = <<"approval.requested", "approval.decided">>
     /\ asked[a] \in {"logged", "lost"}
     /\ status[a] = "decided" /\ deliver[a] = "done" /\ heard[a] = choice[a]
  \/ /\ log[a] = <<"approval.requested", "approval.expired">>
     /\ asked[a] \in {"logged", "lost"}
     /\ status[a] = "expired" /\ expiry[a] \notin {"idle", "expired"}

\* What the provider can have been told.
AnswerFollowsCalls(a) ==
  /\ heard[a] = "allow" => choice[a] = "allow"
  /\ Responding(a) /\ deliver[a] # "answered" => heard[a] = "none"
  /\ deliver[a] = "answered" => heard[a] = choice[a]
  /\ expiry[a] = "responding" => a \in Deniable
  /\ asked[a] = "no" => heard[a] = "none" /\ a \notin pending
  /\ a \in pending /\ deliver[a] = "idle" /\ expiry[a] \in {"idle", "expired"} =>
       heard[a] = "none"

OneApproval(a) == CallsFollowRecord(a) /\ LogFollowsRecord(a) /\ AnswerFollowsCalls(a)

ApprovalInv == TypeOK /\ \A a \in Approval : OneApproval(a)

\* Nothing about an approval changes.
Untouched(a) ==
  /\ status'[a] = status[a] /\ choice'[a] = choice[a] /\ log'[a] = log[a]
  /\ asked'[a] = asked[a] /\ deliver'[a] = deliver[a] /\ expiry'[a] = expiry[a]
  /\ heard'[a] = heard[a]
  /\ a \in timers' <=> a \in timers
  /\ a \in pending' => a \in pending
  /\ streaming' \subseteq streaming

LEMMA UntouchedKeeps ==
  ASSUME NEW a \in Approval, OneApproval(a), Untouched(a)
  PROVE  OneApproval(a)'
<1>1. CallsFollowRecord(a)'
  BY DEF OneApproval, Untouched, CallsFollowRecord
<1>2. LogFollowsRecord(a)'
  BY DEF OneApproval, Untouched, LogFollowsRecord
<1>3. AnswerFollowsCalls(a)'
  BY DEF OneApproval, Untouched, AnswerFollowsCalls, Responding
<1> QED BY <1>1, <1>2, <1>3 DEF OneApproval

\* A step about one approval leaves the others untouched.
OfOne(a) ==
  \/ ProviderAsks(a) \/ CreateApproval(a) \/ AppendRequested(a)
  \/ Decide(a) \/ DecideLate(a) \/ Deliveries(a) \/ Expiring(a)
  \/ BridgeDenies(a) \/ FallDue(a)

LEMMA OthersUntouched ==
  ASSUME TypeOK, NEW b \in Approval, OfOne(b), NEW a \in Approval, a # b
  PROVE  Untouched(a)
<1> USE DEF store, handlers, adapter, Untouched, TypeOK
<1>1. CASE ProviderAsks(b) BY <1>1 DEF ProviderAsks, Ask
<1>2. CASE CreateApproval(b) BY <1>2 DEF CreateApproval, Ask
<1>3. CASE AppendRequested(b) BY <1>3 DEF AppendRequested, AppendEvent, Ask
<1>4. CASE Decide(b) BY <1>4 DEF Decide, ForgetOnCall
<1>5. CASE DecideLate(b) BY <1>5 DEF DecideLate
<1>6. CASE Deliveries(b)
  BY <1>6 DEF Deliveries, WriteDecision, AppendDecided, RespondFails, MarkDeliveryFailed,
              AppendEvent
<1>7. CASE ExpireApproval(b) BY <1>7 DEF ExpireApproval
<1>8. CASE AppendExpired(b) BY <1>8 DEF AppendExpired, AppendEvent, ForgetOnCall
<1>9. CASE DenyExpired(b) BY <1>9 DEF DenyExpired
<1>10. CASE BridgeDenies(b) BY <1>10 DEF BridgeDenies
<1>11. CASE FallDue(b) BY <1>11 DEF FallDue
<1> QED
  BY <1>1, <1>2, <1>3, <1>4, <1>5, <1>6, <1>7, <1>8, <1>9, <1>10, <1>11 DEF OfOne, Expiring

\* Between two commits of one approval no other step but a crash is taken.
LEMMA CommittingAlone ==
  ASSUME LoopFree, NEW a \in Approval
  PROVE  asked[a] # "created" /\ deliver[a] # "rejected" /\ expiry[a] # "expired"
BY DEF LoopFree

LEMMA AppendToRequested ==
  ASSUME NEW e
  PROVE  Append(Requested, e) = <<"approval.requested", e>>
<1>1. Append(Requested, e) = [i \in 1 .. 2 |-> IF i = 1 THEN "approval.requested" ELSE e]
  BY DEF Requested
<1> QED BY <1>1

LEMMA StepOfOne ==
  ASSUME ApprovalInv, NEW a \in Approval, OfOne(a)
  PROVE  OneApproval(a)'
<1> USE DEF store, handlers, adapter
<1>0. /\ status \in [Approval -> Status] /\ choice \in [Approval -> Choice \cup {"none"}]
      /\ log \in [Approval -> Seq(EventType)] /\ asked \in [Approval -> Asked]
      /\ deliver \in [Approval -> Deliver] /\ expiry \in [Approval -> Expiry]
      /\ heard \in [Approval -> Choice \cup {"none"}]
      /\ CallsFollowRecord(a) /\ LogFollowsRecord(a) /\ AnswerFollowsCalls(a)
  BY DEF ApprovalInv, TypeOK, OneApproval
<1> USE <1>0 DEF Responding
<1>1. CASE ProviderAsks(a)
  <2>1. CallsFollowRecord(a)'
    BY <1>1, CommittingAlone
       DEF ProviderAsks, Ask, CallsFollowRecord, LogFollowsRecord, AnswerFollowsCalls
  <2>2. LogFollowsRecord(a)'
    BY <1>1, CommittingAlone
       DEF ProviderAsks, Ask, CallsFollowRecord, LogFollowsRecord, AnswerFollowsCalls
  <2>3. AnswerFollowsCalls(a)'
    BY <1>1, CommittingAlone
       DEF ProviderAsks, Ask, CallsFollowRecord, LogFollowsRecord, AnswerFollowsCalls
  <2> QED BY <2>1, <2>2, <2>3 DEF OneApproval
<1>2. CASE CreateApproval(a)
  <2>1. CallsFollowRecord(a)'
    BY <1>2, CommittingAlone
       DEF CreateApproval, Ask, CallsFollowRecord, LogFollowsRecord,
           AnswerFollowsCalls
  <2>2. LogFollowsRecord(a)'
    BY <1>2, CommittingAlone
       DEF CreateApproval, Ask, CallsFollowRecord, LogFollowsRecord,
           AnswerFollowsCalls
  <2>3. AnswerFollowsCalls(a)'
    BY <1>2, CommittingAlone
       DEF CreateApproval, Ask, CallsFollowRecord, LogFollowsRecord,
           AnswerFollowsCalls
  <2> QED BY <2>1, <2>2, <2>3 DEF OneApproval
<1>3. CASE AppendRequested(a)
  <2>1. CallsFollowRecord(a)'
    BY <1>3
       DEF AppendRequested, AppendEvent, Ask, Requested, CallsFollowRecord,
           LogFollowsRecord, AnswerFollowsCalls
  <2>2. LogFollowsRecord(a)'
    BY <1>3
       DEF AppendRequested, AppendEvent, Ask, Requested, CallsFollowRecord,
           LogFollowsRecord, AnswerFollowsCalls
  <2>3. AnswerFollowsCalls(a)'
    BY <1>3
       DEF AppendRequested, AppendEvent, Ask, Requested, CallsFollowRecord,
           LogFollowsRecord, AnswerFollowsCalls
  <2> QED BY <2>1, <2>2, <2>3 DEF OneApproval
<1>4. CASE Decide(a)
  <2>1. CallsFollowRecord(a)'
    BY <1>4, CommittingAlone
       DEF Decide, ForgetOnCall, Answerable, Offered, Choice, CallsFollowRecord,
           LogFollowsRecord, AnswerFollowsCalls
  <2>2. LogFollowsRecord(a)'
    BY <1>4, CommittingAlone
       DEF Decide, ForgetOnCall, Answerable, Offered, CallsFollowRecord,
           LogFollowsRecord, AnswerFollowsCalls
  <2>3. AnswerFollowsCalls(a)'
    BY <1>4, CommittingAlone
       DEF Decide, ForgetOnCall, Answerable, Offered, CallsFollowRecord,
           LogFollowsRecord, AnswerFollowsCalls
  <2> QED BY <2>1, <2>2, <2>3 DEF OneApproval
<1>5. CASE DecideLate(a)
  <2>1. CallsFollowRecord(a)'
    BY <1>5, CommittingAlone
       DEF DecideLate, CallsFollowRecord, LogFollowsRecord, AnswerFollowsCalls
  <2>2. LogFollowsRecord(a)'
    BY <1>5, CommittingAlone
       DEF DecideLate, CallsFollowRecord, LogFollowsRecord, AnswerFollowsCalls
  <2>3. AnswerFollowsCalls(a)'
    BY <1>5, CommittingAlone
       DEF DecideLate, CallsFollowRecord, LogFollowsRecord, AnswerFollowsCalls
  <2> QED BY <2>1, <2>2, <2>3 DEF OneApproval
<1>6. CASE WriteDecision(a)
  <2>1. CallsFollowRecord(a)'
    BY <1>6 DEF WriteDecision, CallsFollowRecord, LogFollowsRecord, AnswerFollowsCalls
  <2>2. LogFollowsRecord(a)'
    BY <1>6 DEF WriteDecision, CallsFollowRecord, LogFollowsRecord, AnswerFollowsCalls
  <2>3. AnswerFollowsCalls(a)'
    BY <1>6 DEF WriteDecision, CallsFollowRecord, LogFollowsRecord, AnswerFollowsCalls
  <2> QED BY <2>1, <2>2, <2>3 DEF OneApproval
<1>7. CASE AppendDecided(a)
  <2>1. CallsFollowRecord(a)'
    BY <1>7, CommittingAlone
       DEF AppendDecided, AppendEvent, Requested, CallsFollowRecord, LogFollowsRecord,
           AnswerFollowsCalls
  <2>2. LogFollowsRecord(a)'
    <3>1. log[a] = Requested
      BY <1>7, CommittingAlone DEF AppendDecided, CallsFollowRecord, LogFollowsRecord
    <3>2. log'[a] = <<"approval.requested", "approval.decided">>
      BY <1>7, <3>1, AppendToRequested DEF AppendDecided, AppendEvent
    <3> QED
      BY <1>7, CommittingAlone, <3>2
         DEF AppendDecided, CallsFollowRecord, AnswerFollowsCalls,
             LogFollowsRecord
  <2>3. AnswerFollowsCalls(a)'
    BY <1>7, CommittingAlone
       DEF AppendDecided, AppendEvent, Requested, CallsFollowRecord, LogFollowsRecord,
           AnswerFollowsCalls
  <2> QED BY <2>1, <2>2, <2>3 DEF OneApproval
<1>8. CASE RespondFails(a)
  <2>1. CallsFollowRecord(a)'
    BY <1>8, CommittingAlone
       DEF RespondFails, CallsFollowRecord, LogFollowsRecord, AnswerFollowsCalls
  <2>2. LogFollowsRecord(a)'
    BY <1>8, CommittingAlone
       DEF RespondFails, CallsFollowRecord, LogFollowsRecord, AnswerFollowsCalls
  <2>3. AnswerFollowsCalls(a)'
    BY <1>8, CommittingAlone
       DEF RespondFails, CallsFollowRecord, LogFollowsRecord, AnswerFollowsCalls
  <2> QED BY <2>1, <2>2, <2>3 DEF OneApproval
<1>9. CASE MarkDeliveryFailed(a)
  <2>1. CallsFollowRecord(a)'
    BY <1>9 DEF MarkDeliveryFailed, CallsFollowRecord, LogFollowsRecord, AnswerFollowsCalls
  <2>2. LogFollowsRecord(a)'
    BY <1>9 DEF MarkDeliveryFailed, CallsFollowRecord, LogFollowsRecord, AnswerFollowsCalls
  <2>3. AnswerFollowsCalls(a)'
    BY <1>9 DEF MarkDeliveryFailed, CallsFollowRecord, LogFollowsRecord, AnswerFollowsCalls
  <2> QED BY <2>1, <2>2, <2>3 DEF OneApproval
<1>10. CASE ExpireApproval(a)
  <2>1. CallsFollowRecord(a)'
    BY <1>10, CommittingAlone
       DEF ExpireApproval, CallsFollowRecord, LogFollowsRecord, AnswerFollowsCalls
  <2>2. LogFollowsRecord(a)'
    BY <1>10, CommittingAlone
       DEF ExpireApproval, CallsFollowRecord, LogFollowsRecord, AnswerFollowsCalls
  <2>3. AnswerFollowsCalls(a)'
    BY <1>10, CommittingAlone
       DEF ExpireApproval, CallsFollowRecord, LogFollowsRecord, AnswerFollowsCalls
  <2> QED BY <2>1, <2>2, <2>3 DEF OneApproval
<1>11. CASE AppendExpired(a)
  <2>1. CallsFollowRecord(a)'
    BY <1>11
       DEF AppendExpired, AppendEvent, ForgetOnCall, Requested, Answerable,
           DenialChoice, CallsFollowRecord, LogFollowsRecord, AnswerFollowsCalls
  <2>2. LogFollowsRecord(a)'
    <3>1. log[a] = Requested
      BY <1>11 DEF AppendExpired, CallsFollowRecord, LogFollowsRecord
    <3>2. log'[a] = <<"approval.requested", "approval.expired">>
      BY <1>11, <3>1, AppendToRequested DEF AppendExpired, AppendEvent
    <3> QED
      BY <1>11, <3>2 DEF AppendExpired, CallsFollowRecord, LogFollowsRecord
  <2>3. AnswerFollowsCalls(a)'
    BY <1>11
       DEF AppendExpired, AppendEvent, ForgetOnCall, Requested, Answerable,
           DenialChoice, CallsFollowRecord, LogFollowsRecord, AnswerFollowsCalls
  <2> QED BY <2>1, <2>2, <2>3 DEF OneApproval
<1>12. CASE DenyExpired(a)
  <2>1. CallsFollowRecord(a)'
    BY <1>12, CommittingAlone
       DEF DenyExpired, DenialChoice, CallsFollowRecord, LogFollowsRecord,
           AnswerFollowsCalls
  <2>2. LogFollowsRecord(a)'
    BY <1>12, CommittingAlone
       DEF DenyExpired, DenialChoice, CallsFollowRecord, LogFollowsRecord,
           AnswerFollowsCalls
  <2>3. AnswerFollowsCalls(a)'
    BY <1>12, CommittingAlone
       DEF DenyExpired, DenialChoice, CallsFollowRecord, LogFollowsRecord,
           AnswerFollowsCalls
  <2> QED BY <2>1, <2>2, <2>3 DEF OneApproval
<1>13. CASE BridgeDenies(a)
  <2>1. CallsFollowRecord(a)'
    BY <1>13, CommittingAlone
       DEF BridgeDenies, CallsFollowRecord, LogFollowsRecord, AnswerFollowsCalls
  <2>2. LogFollowsRecord(a)'
    BY <1>13, CommittingAlone
       DEF BridgeDenies, CallsFollowRecord, LogFollowsRecord, AnswerFollowsCalls
  <2>3. AnswerFollowsCalls(a)'
    BY <1>13, CommittingAlone
       DEF BridgeDenies, CallsFollowRecord, LogFollowsRecord, AnswerFollowsCalls
  <2> QED BY <2>1, <2>2, <2>3 DEF OneApproval
<1>14. CASE FallDue(a)
  <2>1. CallsFollowRecord(a)'
    BY <1>14 DEF FallDue, CallsFollowRecord, LogFollowsRecord, AnswerFollowsCalls
  <2>2. LogFollowsRecord(a)'
    BY <1>14 DEF FallDue, CallsFollowRecord, LogFollowsRecord, AnswerFollowsCalls
  <2>3. AnswerFollowsCalls(a)'
    BY <1>14 DEF FallDue, CallsFollowRecord, LogFollowsRecord, AnswerFollowsCalls
  <2> QED BY <2>1, <2>2, <2>3 DEF OneApproval
<1> QED
  BY <1>1, <1>2, <1>3, <1>4, <1>5, <1>6, <1>7, <1>8, <1>9, <1>10, <1>11, <1>12, <1>13, <1>14
     DEF OfOne, Deliveries, Expiring

LEMMA StepOfTurn ==
  ASSUME ApprovalInv, NEW t \in Turn, EndTurn(t), NEW a \in Approval
  PROVE  OneApproval(a)'
<1>1. Untouched(a)
  BY DEF EndTurn, Untouched, store, handlers
<1> QED BY <1>1, UntouchedKeeps DEF ApprovalInv

LEMMA StepOfCrash ==
  ASSUME ApprovalInv, Crash, NEW a \in Approval
  PROVE  OneApproval(a)'
<1>0. /\ CallsFollowRecord(a) /\ LogFollowsRecord(a) /\ AnswerFollowsCalls(a)
      /\ asked'[a] = IF asked[a] = "no" THEN "no" ELSE "lost"
      /\ deliver'[a] = IF deliver[a] \in {"idle", "done"} THEN deliver[a] ELSE "lost"
      /\ expiry'[a] = IF expiry[a] \in {"idle", "done"} THEN expiry[a] ELSE "lost"
      /\ timers' = {} /\ pending' = {} /\ streaming' = {}
      /\ UNCHANGED <<status, choice, log, heard>>
  BY DEF ApprovalInv, OneApproval, Crash, store
<1>1. CallsFollowRecord(a)'
  BY <1>0 DEF CallsFollowRecord, LogFollowsRecord
<1>2. LogFollowsRecord(a)'
  BY <1>0 DEF CallsFollowRecord, LogFollowsRecord
<1>3. AnswerFollowsCalls(a)'
  BY <1>0 DEF AnswerFollowsCalls, Responding
<1> QED BY <1>1, <1>2, <1>3 DEF OneApproval

LEMMA InvInit == Init => ApprovalInv
<1> SUFFICES ASSUME Init PROVE ApprovalInv
  OBVIOUS
<1>1. ASSUME NEW a \in Approval PROVE OneApproval(a)
  BY
     DEF Init, OneApproval, CallsFollowRecord, LogFollowsRecord, AnswerFollowsCalls,
         Responding
<1> QED BY <1>1, InitType DEF ApprovalInv

LEMMA InvStep == ApprovalInv /\ TypeOK' /\ [Next]_vars => ApprovalInv'
<1> SUFFICES ASSUME ApprovalInv, TypeOK', [Next]_vars, NEW a \in Approval
             PROVE  OneApproval(a)'
  BY DEF ApprovalInv
<1>1. ASSUME NEW b \in Approval, OfOne(b) PROVE OneApproval(a)'
  <2>1. CASE a = b
    BY <1>1, <2>1, StepOfOne
  <2>2. CASE a # b
    BY <1>1, <2>2, OthersUntouched, UntouchedKeeps DEF ApprovalInv
  <2> QED BY <2>1, <2>2
<1>2. ASSUME NEW t \in Turn, EndTurn(t) PROVE OneApproval(a)'
  BY <1>2, StepOfTurn
<1>3. CASE Crash
  BY <1>3, StepOfCrash
<1>4. CASE UNCHANGED vars
  <2>1. Untouched(a)
    BY <1>4 DEF vars, Untouched
  <2> QED BY <2>1, UntouchedKeeps DEF ApprovalInv
<1> QED BY <1>1, <1>2, <1>3, <1>4 DEF Next, OfOne

\* The record, the calls under way, the log and the provider agree about every
\* approval at every commit.
THEOREM RecordsAndCalls == Spec => []ApprovalInv
<1>1. ApprovalInv /\ [Next]_vars => ApprovalInv'
  BY InvStep, TypeStep DEF ApprovalInv
<1> QED BY <1>1, InvInit, PTL DEF Spec

-----------------------------------------------------------------------------
\* What follows from it.

\* No provider is told "allow" but by the recorded decision of a device.
THEOREM AllowedByDevice == Spec => []AllowedOnlyByDecision
<1>1. ApprovalInv => AllowedOnlyByDecision
  <2> SUFFICES ASSUME ApprovalInv, NEW a \in Approval, heard[a] = "allow"
               PROVE  choice[a] = "allow" /\ status[a] \in {"decided", "delivery_failed"}
    BY DEF AllowedOnlyByDecision
  <2>1. status[a] \in Status /\ CallsFollowRecord(a) /\ AnswerFollowsCalls(a)
    BY DEF ApprovalInv, TypeOK, OneApproval
  <2> QED BY <2>1 DEF Status, CallsFollowRecord, AnswerFollowsCalls
<1> QED BY <1>1, RecordsAndCalls, PTL

\* One request and at most one outcome are shown, and the record agrees.
THEOREM OneOutcome == Spec => []OneOutcomePerApproval
<1>1. ApprovalInv => OneOutcomePerApproval
  <2> SUFFICES ASSUME ApprovalInv, NEW a \in Approval
               PROVE  /\ Logged(a, "approval.decided") => status[a] = "decided"
                      /\ Logged(a, "approval.expired") => status[a] = "expired"
                      /\ \A i, j \in DOMAIN log[a] :
                           /\ log[a][i] = log[a][j] => i = j
                           /\ log[a][j] = "approval.requested" => j <= i
    BY DEF OneOutcomePerApproval
  <2>1. LogFollowsRecord(a)
    BY DEF ApprovalInv, OneApproval
  <2> QED BY <2>1 DEF LogFollowsRecord, Logged, Requested
<1> QED BY <1>1, RecordsAndCalls, PTL

\* A decision that is shown is the one the provider was told.
THEOREM ShownWasHeard == Spec => []ShownDecisionsWereHeard
<1>1. ApprovalInv => ShownDecisionsWereHeard
  <2> SUFFICES ASSUME ApprovalInv, NEW a \in Approval, Logged(a, "approval.decided")
               PROVE  heard[a] = choice[a]
    BY DEF ShownDecisionsWereHeard
  <2>1. LogFollowsRecord(a)
    BY DEF ApprovalInv, OneApproval
  <2> QED BY <2>1 DEF LogFollowsRecord, Logged, Requested
<1> QED BY <1>1, RecordsAndCalls, PTL

\* No outcome is lost on its way to the conversation while the daemon lives.
THEOREM OutcomesShown == Spec => []OutcomesReachTheLog
<1>1. ApprovalInv => OutcomesReachTheLog
  <2> SUFFICES ASSUME ApprovalInv, NEW a \in Approval, asked[a] # "lost"
               PROVE  /\ status[a] = "pending" => a \in timers
                      /\ status[a] = "decided" =>
                           \/ Logged(a, "approval.decided")
                           \/ deliver[a] \in {"responding", "answered", "rejected"}
                      /\ status[a] = "expired" =>
                           \/ Logged(a, "approval.expired")
                           \/ a \in timers \/ expiry[a] = "expired"
    BY DEF OutcomesReachTheLog
  <2>1. /\ deliver[a] \in Deliver /\ expiry[a] \in Expiry
        /\ CallsFollowRecord(a) /\ LogFollowsRecord(a)
    BY DEF ApprovalInv, TypeOK, OneApproval
  <2>2. log[a] = <<"approval.requested", "approval.decided">> => Logged(a, "approval.decided")
    BY DEF Logged
  <2>3. log[a] = <<"approval.requested", "approval.expired">> => Logged(a, "approval.expired")
    BY DEF Logged
  <2> QED BY <2>1, <2>2, <2>3 DEF Deliver, Expiry, CallsFollowRecord, LogFollowsRecord
<1> QED BY <1>1, RecordsAndCalls, PTL

\* A provider that has an answer never gets another.
THEOREM OneAnswer == Spec => ProviderHearsOneAnswer
<1>1. ApprovalInv /\ [Next]_vars =>
        [\A a \in Approval : heard[a] # "none" => heard'[a] = heard[a]]_vars
  <2> SUFFICES ASSUME ApprovalInv, Next, NEW a \in Approval, heard[a] # "none"
               PROVE  heard'[a] = heard[a]
    OBVIOUS
  <2>1. heard \in [Approval -> Choice \cup {"none"}] /\ AnswerFollowsCalls(a)
    BY DEF ApprovalInv, TypeOK, OneApproval
  <2>2. ASSUME NEW b \in Approval, OfOne(b), b # a PROVE heard'[a] = heard[a]
    BY <2>2, OthersUntouched DEF ApprovalInv, Untouched
  <2>3. CASE WriteDecision(a)
    BY <2>1, <2>3 DEF WriteDecision, AnswerFollowsCalls, Responding
  <2>4. CASE DenyExpired(a)
    <3>1. deliver[a] # "answered"
      BY <2>4 DEF DenyExpired, ApprovalInv, OneApproval, CallsFollowRecord
    <3> QED BY <2>1, <2>4, <3>1 DEF DenyExpired, AnswerFollowsCalls, Responding
  <2>5. CASE BridgeDenies(a)
    BY <2>1, <2>5 DEF BridgeDenies
  <2>6. CASE OfOne(a) /\ ~WriteDecision(a) /\ ~DenyExpired(a) /\ ~BridgeDenies(a)
    BY <2>6 DEF OfOne, Deliveries, Expiring, ProviderAsks, CreateApproval, AppendRequested,
                Decide, DecideLate, AppendDecided, RespondFails, MarkDeliveryFailed,
                ExpireApproval, AppendExpired, FallDue
  <2>7. ASSUME NEW t \in Turn, EndTurn(t) PROVE heard'[a] = heard[a]
    BY <2>7 DEF EndTurn
  <2>8. CASE Crash
    BY <2>8 DEF Crash
  <2> QED BY <2>2, <2>3, <2>4, <2>5, <2>6, <2>7, <2>8 DEF Next, OfOne
<1> QED BY <1>1, RecordsAndCalls, PTL DEF Spec, ProviderHearsOneAnswer

-----------------------------------------------------------------------------
\* The approvals implement Consent.

\* What one approval shows of itself to Consent.
SameToConsent(a) == Recorded(a)' = Recorded(a) /\ Shown(a)' = Shown(a) /\ heard'[a] = heard[a]

LEMMA UntouchedToConsent ==
  ASSUME NEW a \in Approval, Untouched(a)
  PROVE  SameToConsent(a)
<1>1. Recorded(a)' = Recorded(a)
  BY DEF Untouched, Recorded
<1>2. Shown(a)' = Shown(a)
  BY DEF Untouched, Shown, Logged
<1> QED BY <1>1, <1>2 DEF Untouched, SameToConsent

\* What the conversation shows, in terms of the log.
LEMMA ShownFromLog ==
  ASSUME NEW a \in Approval
  PROVE  /\ log[a] = <<>> => Shown(a) = "nothing"
         /\ log[a] = Requested => Shown(a) = "request"
         /\ log[a] = <<"approval.requested", "approval.decided">> => Shown(a) = "decision"
         /\ log[a] = <<"approval.requested", "approval.expired">> => Shown(a) = "expiry"
<1>1. CASE log[a] = <<>>
  <2>1. ~Logged(a, "approval.decided") /\ ~Logged(a, "approval.expired")
    BY <1>1 DEF Logged
  <2>2. <<>> # Requested /\ <<>> # <<"approval.requested", "approval.decided">>
        /\ <<>> # <<"approval.requested", "approval.expired">>
    BY DEF Requested
  <2> QED BY <1>1, <2>1, <2>2 DEF Shown
<1>2. CASE log[a] = Requested
  <2>1. ~Logged(a, "approval.decided") /\ ~Logged(a, "approval.expired") /\ log[a] # <<>>
    BY <1>2 DEF Logged, Requested
  <2>2. /\ log[a] # <<"approval.requested", "approval.decided">>
        /\ log[a] # <<"approval.requested", "approval.expired">>
    BY <1>2 DEF Requested
  <2> QED BY <1>2, <2>1, <2>2 DEF Shown
<1>3. CASE log[a] = <<"approval.requested", "approval.decided">>
  <2>1. Logged(a, "approval.decided") /\ ~Logged(a, "approval.expired") /\ log[a] # <<>>
    BY <1>3 DEF Logged
  <2>2. log[a] # Requested /\ log[a] # <<"approval.requested", "approval.expired">>
    BY <1>3 DEF Requested
  <2> QED BY <1>3, <2>1, <2>2 DEF Shown
<1>4. CASE log[a] = <<"approval.requested", "approval.expired">>
  <2>1. ~Logged(a, "approval.decided") /\ Logged(a, "approval.expired") /\ log[a] # <<>>
    BY <1>4 DEF Logged
  <2>2. log[a] # Requested /\ log[a] # <<"approval.requested", "approval.decided">>
    BY <1>4 DEF Requested
  <2> QED BY <1>4, <2>1, <2>2 DEF Shown
<1> QED BY <1>1, <1>2, <1>3, <1>4

\* What a step about one approval is to Consent.
RecordMoves(a, from, to) ==
  Recorded(a) \in from /\ Recorded(a)' = to /\ Shown(a)' = Shown(a) /\ UNCHANGED heard

LogMoves(a, from, to) ==
  Shown(a) = from /\ Shown(a)' = to /\ Recorded(a)' = Recorded(a) /\ UNCHANGED heard

ProviderIsTold(a) ==
  /\ heard[a] = "none"
  /\ \E c \in Choice :
       (c = "allow" => Recorded(a) = "allow") /\ heard' = [heard EXCEPT ![a] = c]
  /\ Recorded(a)' = Recorded(a) /\ Shown(a)' = Shown(a)

ConsentStep(a) ==
  \/ SameToConsent(a) /\ UNCHANGED heard
  \/ RecordMoves(a, {"none"}, "pending")
  \/ \E c \in Choice : RecordMoves(a, {"pending"}, c)
  \/ RecordMoves(a, {"pending"}, "expired")
  \/ Shown(a) # "decision" /\ RecordMoves(a, Choice, "failed")
  \/ ProviderIsTold(a)
  \/ Recorded(a) = "pending" /\ LogMoves(a, "nothing", "request")
  \/ /\ Recorded(a) \in Choice /\ heard[a] = Recorded(a)
     /\ LogMoves(a, "request", "decision")
  \/ Recorded(a) = "expired" /\ LogMoves(a, "request", "expiry")

LEMMA StepOfOneToConsent ==
  ASSUME ApprovalInv, NEW a \in Approval, OfOne(a)
  PROVE  ConsentStep(a)
<1> USE DEF store, handlers, adapter
<1>0. /\ status \in [Approval -> Status] /\ choice \in [Approval -> Choice \cup {"none"}]
      /\ log \in [Approval -> Seq(EventType)] /\ asked \in [Approval -> Asked]
      /\ deliver \in [Approval -> Deliver] /\ expiry \in [Approval -> Expiry]
      /\ heard \in [Approval -> Choice \cup {"none"}]
      /\ CallsFollowRecord(a) /\ LogFollowsRecord(a) /\ AnswerFollowsCalls(a)
  BY DEF ApprovalInv, TypeOK, OneApproval
<1>s. UNCHANGED log => Shown(a)' = Shown(a)
  BY DEF Shown, Logged
<1>r. UNCHANGED <<status, choice>> => Recorded(a)' = Recorded(a)
  BY DEF Recorded
<1>1. CASE UNCHANGED <<status, choice, log, heard>>
  BY <1>1, <1>s, <1>r DEF ConsentStep, SameToConsent
<1>2. CASE CreateApproval(a)
  <2>1. status[a] = "none"
    BY <1>0, <1>2 DEF CreateApproval, CallsFollowRecord
  <2>2. Recorded(a) = "none" /\ Recorded(a)' = "pending"
    BY <1>0, <1>2, <2>1 DEF CreateApproval, Recorded
  <2> QED BY <1>2, <1>s, <2>2 DEF CreateApproval, ConsentStep, RecordMoves
<1>3. CASE AppendRequested(a)
  <2>1. asked[a] = "created" /\ UNCHANGED <<status, choice, heard>>
    BY <1>3 DEF AppendRequested
  <2>2. status[a] = "pending" /\ log[a] = <<>>
    BY <1>0, <2>1 DEF CallsFollowRecord, LogFollowsRecord, Status
  <2>3. log'[a] = Requested
    BY <1>0, <1>3, <2>2 DEF AppendRequested, AppendEvent, Requested
  <2>4. Shown(a) = "nothing" /\ Shown(a)' = "request"
    BY <2>2, <2>3, ShownFromLog DEF Shown, Logged, Requested
  <2>5. Recorded(a) = "pending"
    BY <2>2 DEF Recorded
  <2> QED BY <1>r, <2>1, <2>4, <2>5 DEF ConsentStep, LogMoves
<1>4. CASE Decide(a)
  <2>1. PICK c \in Offered(a) : choice' = [choice EXCEPT ![a] = c]
    BY <1>4 DEF Decide
  <2>2. c \in Choice
    BY DEF Offered, Choice
  <2>3. Recorded(a) = "pending" /\ Recorded(a)' = c
    BY <1>0, <1>4, <2>1 DEF Decide, Recorded
  <2> QED BY <1>4, <1>s, <2>2, <2>3 DEF Decide, ConsentStep, RecordMoves
<1>5. CASE DecideLate(a)
  <2>1. Recorded(a) = "pending" /\ Recorded(a)' = "expired"
    BY <1>0, <1>5 DEF DecideLate, Recorded
  <2> QED BY <1>5, <1>s, <2>1 DEF DecideLate, ConsentStep, RecordMoves
<1>6. CASE WriteDecision(a)
  <2>1. status[a] = "decided" /\ choice[a] \in Choice /\ heard[a] = "none"
    BY <1>0, <1>6 DEF WriteDecision, CallsFollowRecord, AnswerFollowsCalls, Responding
  <2>2. Recorded(a) = choice[a]
    BY <2>1 DEF Recorded
  <2> QED BY <1>6, <1>s, <1>r, <2>1, <2>2 DEF WriteDecision, ConsentStep, ProviderIsTold
<1>7. CASE AppendDecided(a)
  <2>1. status[a] = "decided" /\ choice[a] \in Choice /\ heard[a] = choice[a]
    BY <1>0, <1>7 DEF AppendDecided, CallsFollowRecord, AnswerFollowsCalls
  <2>2. log[a] = Requested
    BY <1>0, <1>7 DEF AppendDecided, CallsFollowRecord, LogFollowsRecord
  <2>3. log'[a] = <<"approval.requested", "approval.decided">>
    BY <1>0, <1>7, <2>2, AppendToRequested DEF AppendDecided, AppendEvent
  <2>4. Shown(a) = "request" /\ Shown(a)' = "decision"
    <3>1. Shown(a)' = "decision"
      BY <2>3 DEF Shown, Logged
    <3> QED BY <2>2, <3>1, ShownFromLog
  <2>5. Recorded(a) = choice[a] /\ Recorded(a)' = Recorded(a)
    BY <1>7, <1>r, <2>1 DEF AppendDecided, Recorded
  <2> QED BY <1>7, <2>1, <2>4, <2>5 DEF AppendDecided, ConsentStep, LogMoves
<1>8. CASE MarkDeliveryFailed(a)
  <2>1. status[a] = "decided" /\ choice[a] \in Choice
    BY <1>0, <1>8 DEF MarkDeliveryFailed, CallsFollowRecord
  <2>2. log[a] = <<>> \/ log[a] = Requested
    BY <1>0, <1>8, <2>1 DEF MarkDeliveryFailed, LogFollowsRecord
  <2>3. Shown(a) # "decision"
    BY <2>2, ShownFromLog
  <2>4. Recorded(a) = choice[a] /\ Recorded(a)' = "failed"
    BY <1>0, <1>8, <2>1 DEF MarkDeliveryFailed, Recorded
  <2> QED BY <1>8, <1>s, <2>1, <2>3, <2>4 DEF MarkDeliveryFailed, ConsentStep, RecordMoves
<1>9. CASE ExpireApproval(a)
  <2>1. UNCHANGED <<choice, log, heard>>
    BY <1>9 DEF ExpireApproval
  <2>2. CASE status[a] = "pending"
    <3>1. Recorded(a) = "pending" /\ Recorded(a)' = "expired"
      BY <1>0, <1>9, <2>2 DEF ExpireApproval, Recorded
    <3> QED BY <1>s, <2>1, <3>1 DEF ConsentStep, RecordMoves
  <2>3. CASE status[a] # "pending"
    <3>1. status'[a] = status[a]
      BY <1>0, <1>9, <2>3 DEF ExpireApproval
    <3>2. Recorded(a)' = Recorded(a)
      BY <2>1, <3>1 DEF Recorded
    <3> QED BY <1>s, <2>1, <3>2 DEF ConsentStep, SameToConsent
  <2> QED BY <2>2, <2>3
<1>10. CASE AppendExpired(a)
  <2>1. status[a] = "expired" /\ UNCHANGED <<status, choice, heard>>
    BY <1>0, <1>10 DEF AppendExpired, CallsFollowRecord
  <2>2. log[a] = Requested
    BY <1>0, <1>10 DEF AppendExpired, CallsFollowRecord, LogFollowsRecord
  <2>3. log'[a] = <<"approval.requested", "approval.expired">>
    BY <1>0, <1>10, <2>2, AppendToRequested DEF AppendExpired, AppendEvent
  <2>4. Shown(a) = "request" /\ Shown(a)' = "expiry"
    <3>1. Shown(a)' = "expiry"
      BY <2>3 DEF Shown, Logged
    <3> QED BY <2>2, <3>1, ShownFromLog
  <2>5. Recorded(a) = "expired"
    BY <2>1 DEF Recorded
  <2> QED BY <1>r, <2>1, <2>4, <2>5 DEF ConsentStep, LogMoves
<1>11. CASE DenyExpired(a)
  <2>1. heard[a] = "none" /\ DenialChoice(a) = "deny"
    BY <1>0, <1>11
       DEF DenyExpired, CallsFollowRecord, AnswerFollowsCalls, Responding, DenialChoice
  <2> QED BY <1>1, <1>11, <1>s, <1>r, <2>1 DEF DenyExpired, ConsentStep, ProviderIsTold, Choice
<1>12. CASE BridgeDenies(a)
  BY <1>1, <1>12, <1>s, <1>r DEF BridgeDenies, ConsentStep, ProviderIsTold, Choice
<1>13. CASE ProviderAsks(a) \/ RespondFails(a) \/ FallDue(a)
  BY <1>1, <1>13 DEF ProviderAsks, RespondFails, FallDue
<1> QED
  BY <1>2, <1>3, <1>4, <1>5, <1>6, <1>7, <1>8, <1>9, <1>10, <1>11, <1>12, <1>13
     DEF OfOne, Deliveries, Expiring

\* A function of approvals that changes at one of them only.
LEMMA ChangesAtOne ==
  ASSUME NEW f, NEW g, NEW a \in Approval, NEW x,
         f = [b \in Approval |-> f[b]], g = [b \in Approval |-> g[b]],
         g[a] = x, \A b \in Approval \ {a} : g[b] = f[b]
  PROVE  g = [f EXCEPT ![a] = x]
OBVIOUS

\* The record, the provider and the conversation move as Consent says, whatever
\* bridges, timers, late decisions, failed deliveries and crashes do.
THEOREM Refinement == Spec => ImplementsConsent
<1> DEFINE rec == [a \in Approval |-> Recorded(a)]
           sh == [a \in Approval |-> Shown(a)]
<1>1. Init => G!Init
  <2> SUFFICES ASSUME Init PROVE G!Init
    OBVIOUS
  <2>1. ASSUME NEW a \in Approval PROVE Recorded(a) = "none" /\ Shown(a) = "nothing"
    <3>1. status[a] = "none" /\ log[a] = <<>>
      BY DEF Init
    <3> QED BY <3>1, ShownFromLog DEF Recorded
  <2> QED BY <2>1 DEF Init, G!Init
<1>2. ASSUME ApprovalInv, [Next]_vars PROVE G!Next \/ UNCHANGED <<rec, heard, sh>>
  <2>1. ASSUME \A a \in Approval : SameToConsent(a), UNCHANGED heard
        PROVE  UNCHANGED <<rec, heard, sh>>
    BY <2>1 DEF SameToConsent
  <2>2. ASSUME NEW a \in Approval, OfOne(a) PROVE G!Next \/ UNCHANGED <<rec, heard, sh>>
    <3>1. \A b \in Approval \ {a} : SameToConsent(b)
      BY <1>2, <2>2, OthersUntouched, UntouchedToConsent DEF ApprovalInv
    <3>2. ConsentStep(a)
      BY <1>2, <2>2, StepOfOneToConsent
    <3>3. ASSUME NEW from, NEW to, RecordMoves(a, from, to)
          PROVE  G!Becomes(a, from, to)
      <4>1. rec' = [rec EXCEPT ![a] = to]
        BY <3>1, <3>3 DEF RecordMoves, SameToConsent
      <4>2. sh' = sh
        BY <3>1, <3>3 DEF RecordMoves, SameToConsent
      <4>3. rec[a] \in from /\ heard' = heard
        BY <3>3 DEF RecordMoves
      <4> QED BY <4>1, <4>2, <4>3 DEF G!Becomes
    <3>4. ASSUME NEW from, NEW to, LogMoves(a, from, to)
          PROVE  G!Shows(a, from, to)
      <4>1. sh' = [sh EXCEPT ![a] = to]
        BY <3>1, <3>4 DEF LogMoves, SameToConsent
      <4>2. rec' = rec
        BY <3>1, <3>4 DEF LogMoves, SameToConsent
      <4>3. sh[a] = from /\ heard' = heard
        BY <3>4 DEF LogMoves
      <4> QED BY <4>1, <4>2, <4>3 DEF G!Shows
    <3>5. CASE SameToConsent(a) /\ UNCHANGED heard
      BY <2>1, <3>1, <3>5
    <3>6. CASE RecordMoves(a, {"none"}, "pending")
      BY <3>3, <3>6 DEF G!Ask, G!Next
    <3>7. CASE \E c \in Choice : RecordMoves(a, {"pending"}, c)
      BY <3>3, <3>7 DEF G!Decide, G!Next, G!Choice, Choice
    <3>8. CASE RecordMoves(a, {"pending"}, "expired")
      BY <3>3, <3>8 DEF G!Expire, G!Next
    <3>9. CASE Shown(a) # "decision" /\ RecordMoves(a, Choice, "failed")
      BY <3>3, <3>9 DEF G!Fail, G!Next, G!Choice, Choice
    <3>10. CASE ProviderIsTold(a)
      <4>1. rec' = rec /\ sh' = sh
        BY <3>1, <3>10 DEF ProviderIsTold, SameToConsent
      <4>2. G!Tell(a)
        BY <3>10, <4>1 DEF ProviderIsTold, G!Tell, G!Choice, Choice
      <4> QED BY <4>2 DEF G!Next
    <3>11. CASE Recorded(a) = "pending" /\ LogMoves(a, "nothing", "request")
      BY <3>4, <3>11 DEF G!ShowRequest, G!Next
    <3>12. CASE /\ Recorded(a) \in Choice /\ heard[a] = Recorded(a)
                /\ LogMoves(a, "request", "decision")
      BY <3>4, <3>12 DEF G!ShowDecision, G!Next, G!Choice, Choice
    <3>13. CASE Recorded(a) = "expired" /\ LogMoves(a, "request", "expiry")
      BY <3>4, <3>13 DEF G!ShowExpiry, G!Next
    <3> QED
      BY <3>2, <3>5, <3>6, <3>7, <3>8, <3>9, <3>10, <3>11, <3>12, <3>13 DEF ConsentStep
  <2>3. ASSUME NEW t \in Turn, EndTurn(t) PROVE UNCHANGED <<rec, heard, sh>>
    <3>1. UNCHANGED <<status, choice, log, heard>>
      BY <2>3 DEF EndTurn, store
    <3> QED BY <3>1 DEF Recorded, Shown, Logged
  <2>4. CASE Crash
    <3>1. UNCHANGED <<status, choice, log, heard>>
      BY <2>4 DEF Crash, store
    <3> QED BY <3>1 DEF Recorded, Shown, Logged
  <2>5. CASE UNCHANGED vars
    <3>1. UNCHANGED <<status, choice, log, heard>>
      BY <2>5 DEF vars
    <3> QED BY <3>1 DEF Recorded, Shown, Logged
  <2> QED BY <1>2, <2>2, <2>3, <2>4, <2>5 DEF Next, OfOne
<1> QED
  BY <1>1, <1>2, RecordsAndCalls, PTL DEF Spec, ImplementsConsent, G!Spec, G!vars

===============================================================================
