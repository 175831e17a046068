------------------------ MODULE TurnCoordinator_proofs ------------------------
(***************************************************************************)
(* Machine-checked proofs about TurnCoordinator, for every set of          *)
(* requests, conversations and projects, every overlap of worktrees and    *)
(* any number of crashes.                                                  *)
(***************************************************************************)
EXTENDS TurnCoordinator, TLAPS

\* The idempotency key of a request is a key of the table.
LEMMA KeyOfType == ASSUME NEW r \in Request PROVE KeyOf(r) \in Key
BY CoordinatorConstants DEF KeyOf, Key

\* Appending an event of the protocol to the log leaves a log.
LEMMA AppendEventType ==
  ASSUME TypeOK, NEW r \in Request, NEW type \in EventType, AppendEvent(r, type)
  PROVE  log' \in [Conversation -> Seq(Event)]
<1>1. [type |-> type, of |-> r] \in Event
  BY DEF Event
<1> QED BY <1>1, CoordinatorConstants DEF AppendEvent, TypeOK

LEMMA AppendUserMessageType ==
  ASSUME TypeOK, NEW r \in Request, AppendUserMessage(r)
  PROVE  log' \in [Conversation -> Seq(Event)]
<1>1. "user.message" \in EventType
  BY DEF EventType
<1>2. CASE Logged(r, "user.message")
  BY <1>2 DEF AppendUserMessage, TypeOK
<1>3. CASE ~Logged(r, "user.message")
  BY <1>1, <1>3, AppendEventType DEF AppendUserMessage
<1> QED BY <1>2, <1>3

\* Record updates of a switch call and of an idempotency record.
LEMMA SwitchUpdateType ==
  ASSUME NEW P, NEW T, NEW x \in [pc : P, target : T], NEW to \in P
  PROVE  [x EXCEPT !.pc = to] \in [pc : P, target : T]
OBVIOUS

LEMMA RecordUpdateType ==
  ASSUME NEW S, NEW x \in Record(S), NEW b \in BOOLEAN
  PROVE  [x EXCEPT !.live = b] \in Record(S)
BY DEF Record

LEMMA InitType == Init => TypeOK
BY CoordinatorConstants DEF Init, TypeOK, L!Init, L!LeaseState, TurnStatus, PC, SwitchPC

\* Every action leaves the type of every variable as it is.
LEMMA TypeStep == TypeOK /\ [Next]_vars => TypeOK'
<1> SUFFICES ASSUME TypeOK, [Next]_vars PROVE TypeOK'
  OBVIOUS
<1> USE CoordinatorConstants
<1> USE DEF TypeOK, L!LeaseState, TurnStatus, PC, SwitchPC, store, memory, Goto, Resume,
     LoopFree, Answer, Throw, Admitting, Executing, Committing, Answered
<1>1. ASSUME NEW r \in Request, Submit(r) PROVE TypeOK'
  BY <1>1 DEF Submit
<1>2. ASSUME NEW r \in Request, Advance(r) PROVE TypeOK'
  <2>1. CASE Reject(r) BY <2>1 DEF Reject
  <2>2. CASE AnswerPrior(r) BY <2>2 DEF AnswerPrior
  <2>3. CASE Admit(r) BY <2>3 DEF Admit
  <2>4. CASE Refuse(r)
    <3>1. \/ pc' = [pc EXCEPT ![r] = "retrySafe"]
          \/ pc' = [pc EXCEPT ![r] = "error"]
      BY <2>4 DEF Refuse
    <3>2. pc' \in [Request -> PC]
      BY <3>1
    <3> QED BY <2>4, <3>2 DEF Refuse
  <2>5. CASE AcquireLease(r) BY <2>5 DEF AcquireLease, L!Acquire
  <2>6. CASE StartTurn(r) BY <2>6 DEF StartTurn
  <2>7. CASE ContextFails(r) BY <2>7 DEF ContextFails
  <2>8. CASE OpenStream(r) BY <2>8 DEF OpenStream, AppendEvent, Event, EventType
  <2>9. CASE Finalize(r) BY <2>9 DEF Finalize, L!Release
  <2>10. CASE FinalizeFails(r) BY <2>10 DEF FinalizeFails
  <2>11. CASE AppendCompleted(r) BY <2>11 DEF AppendCompleted, AppendEvent, Event, EventType
  <2>12. CASE FinishCompleted(r) BY <2>12 DEF FinishCompleted
  <2>13. CASE PutResponse(r)
    <3>1. [turn |-> r, live |-> TRUE] \in Record(Request)
      BY DEF Record
    <3>2. response' \in [Key -> Record(Request) \cup {None}]
      <4>1. \/ UNCHANGED response
            \/ response' = [response EXCEPT ![KeyOf(r)] = [turn |-> r, live |-> TRUE]]
        BY ONLY <2>13 DEF PutResponse
      <4>2. response \in [Key -> Record(Request) \cup {None}]
        OBVIOUS
      <4> QED BY ONLY <4>1, <4>2, <3>1
    <3>3. /\ pc' \in [Request -> PC]
          /\ activeTurns' \in [Conversation -> Request \cup {None}]
          /\ abort' \in [Request -> BOOLEAN]
          /\ cause' \in [Request -> {"none", "capacity", "other"}]
      <4>1. \/ Answer(r, "ok")
            \/ /\ Goto(r, "failed") /\ cause' = [cause EXCEPT ![r] = "other"]
               /\ UNCHANGED <<activeTurns, abort>>
        BY ONLY <2>13 DEF PutResponse
      <4>2. CASE Answer(r, "ok")
        BY <4>2
      <4>3. CASE /\ Goto(r, "failed") /\ cause' = [cause EXCEPT ![r] = "other"]
                 /\ UNCHANGED <<activeTurns, abort>>
        BY <4>3
      <4> QED BY <4>1, <4>2, <4>3
    <3> QED BY <2>13, <3>2, <3>3 DEF PutResponse
  <2>14. CASE Recover(r) BY <2>14 DEF Recover, L!Release
  <2>15. CASE RecoverFails(r) BY <2>15 DEF RecoverFails
  <2>16. CASE AppendFailed(r) BY <2>16 DEF AppendFailed, AppendEvent, Event, EventType
  <2>17. CASE FinishFailed(r)
    <3>1. turn' \in [Request -> TurnStatus]
      <4>1. \/ UNCHANGED turn
            \/ turn' = [turn EXCEPT ![r] = IF abort[r] THEN "interrupted" ELSE "failed"]
        BY ONLY <2>17 DEF FinishFailed
      <4> QED BY <4>1
    <3>2. /\ pc' \in [Request -> PC]
          /\ activeTurns' \in [Conversation -> Request \cup {None}]
      <4>1. Answer(r, "retrySafe") \/ Answer(r, "error")
        BY ONLY <2>17 DEF FinishFailed
      <4>2. "retrySafe" \in PC /\ "error" \in PC
        OBVIOUS
      <4>3. /\ \E how \in PC : pc' = [pc EXCEPT ![r] = how]
            /\ activeTurns' = [activeTurns EXCEPT ![ConvOf[r]] = None]
        BY ONLY <4>1, <4>2 DEF Answer, Goto
      <4> HIDE DEF PC
      <4> QED BY <4>3
    <3> QED BY <2>17, <3>1, <3>2 DEF FinishFailed
  <2> QED BY <1>2, <2>1, <2>2, <2>3, <2>4, <2>5, <2>6, <2>7, <2>8, <2>9, <2>10, <2>11,
             <2>12, <2>13, <2>14, <2>15, <2>16, <2>17 DEF Advance
<1>3. ASSUME NEW r \in Request, Stream(r) PROVE TypeOK'
  <2>1. CASE ProviderActivity(r) BY <2>1, AppendUserMessageType DEF ProviderActivity
  <2>2. CASE StreamEnd(r) BY <2>2, AppendUserMessageType DEF StreamEnd
  <2>3. CASE StreamFail(r) BY <2>3 DEF StreamFail
  <2> QED BY <1>3, <2>1, <2>2, <2>3 DEF Stream
<1>4. ASSUME NEW r \in Request, Expire(r) \/ Heartbeat(r) \/ NativeStops(r) PROVE TypeOK'
  <2>1. CASE Expire(r) BY <2>1 DEF Expire, L!Expire
  <2>2. CASE Heartbeat(r) BY <2>2 DEF Heartbeat
  <2>3. CASE NativeStops(r) BY <2>3 DEF NativeStops
  <2> QED BY <1>4, <2>1, <2>2, <2>3
<1>5. ASSUME NEW c \in Conversation, Interrupt(c) PROVE TypeOK'
  BY <1>5 DEF Interrupt
<1>6. ASSUME NEW s \in Switch, Handoff(s) PROVE TypeOK'
  <2> DEFINE SwitchType == [pc : SwitchPC, target : Provider \cup {None}]
  <2>0. ASSUME NEW to \in SwitchPC, SwitchTo(s, to) PROVE switch' \in [Switch -> SwitchType]
    <3>1. [switch[s] EXCEPT !.pc = to] \in SwitchType
      <4>1. switch[s] \in SwitchType OBVIOUS
      <4> QED BY <4>1, SwitchUpdateType
    <3> QED BY <2>0, <3>1 DEF SwitchTo
  <2>1. CASE SwitchProvider(s) BY <2>1 DEF SwitchProvider
  <2>2. CASE CheckLeases(s) BY <2>0, <2>2 DEF CheckLeases
  <2>3. CASE SetActiveProvider(s) BY <2>0, <2>3, CoordinatorConstants DEF SetActiveProvider
  <2>4. CASE SwitchFails(s) BY <2>0, <2>4 DEF SwitchFails
  <2> QED BY <1>6, <2>1, <2>2, <2>3, <2>4 DEF Handoff
<1>7. ASSUME NEW k \in Key, ResponseExpires(k) PROVE TypeOK'
  <2>1. [response[k] EXCEPT !.live = FALSE] \in Record(Request)
    BY <1>7, RecordUpdateType DEF ResponseExpires, Recorded
  <2> QED BY <1>7, <2>1 DEF ResponseExpires
<1>8. CASE Crash
  <2>1. switch' \in [Switch -> [pc : SwitchPC, target : Provider \cup {None}]]
    <3>1. ASSUME NEW s \in Switch
          PROVE [switch[s] EXCEPT !.pc = "done"] \in [pc : SwitchPC, target : Provider \cup {None}]
      <4>1. switch[s] \in [pc : SwitchPC, target : Provider \cup {None}] OBVIOUS
      <4>2. "done" \in SwitchPC OBVIOUS
      <4> QED BY <4>1, <4>2, SwitchUpdateType
    <3> QED BY <1>8, <3>1 DEF Crash
  <2> QED BY <1>8, <2>1 DEF Crash
<1>9. CASE UNCHANGED vars
  BY <1>9 DEF vars
<1> QED BY <1>1, <1>2, <1>3, <1>4, <1>5, <1>6, <1>7, <1>8, <1>9 DEF Next

\* The variables keep their types in every behaviour.
THEOREM TypeCorrect == Spec => []TypeOK
BY InitType, TypeStep, PTL DEF Spec

-----------------------------------------------------------------------------
\* Leases and activeTurns.

\* What the place of a call says of its lease: none before it acquires one and
\* none once finalize succeeded, one in between, whatever expires.
LeaseFollowsCall ==
  \A r \in Request :
    /\ pc[r] \in Writing => L!Held(r)
    /\ pc[r] \in {"new", "released", "completed", "finished"} \cup Admitting => ~L!Held(r)

LeaseInv ==
  /\ TypeOK
  /\ LeaseFollowsCall
  /\ L!LeasesExclusive
  /\ ActiveTurnsNameTheTurnInFlight

\* Two requests of one conversation contend for its worktree.
LEMMA OneWorktreePerConversation ==
  ASSUME NEW r \in Request, NEW s \in Request, ConvOf[r] = ConvOf[s]
  PROVE  L!Contend(r, s) /\ L!Contend(s, r)
BY CoordinatorConstants DEF L!Contend, ScopeOf

LEMMA ContendSymmetric ==
  ASSUME NEW r \in Request, NEW s \in Request, L!Contend(r, s)
  PROVE  L!Contend(s, r)
BY CoordinatorConstants DEF L!Contend, ScopeOf

\* When a call acquires its lease, no call of its conversation is in flight:
\* one between two commits would own the event loop, and one that awaits
\* something has a lease, which conflicts.
LEMMA AcquireFindsNoTurnInFlight ==
  ASSUME LeaseInv, NEW r \in Request, AcquireLease(r), NEW s \in Request,
         ConvOf[s] = ConvOf[r]
  PROVE  pc[s] \notin InFlight
<1>1. pc[s] \notin Committing
  BY DEF AcquireLease, Resume, LoopFree
<1>2. ~L!Held(s)
  BY OneWorktreePerConversation DEF AcquireLease, L!Acquire
<1>3. pc[s] \notin Executing
  BY <1>2 DEF LeaseInv, LeaseFollowsCall, Writing
<1> QED BY <1>1, <1>3 DEF InFlight

LEMMA LeaseInvStep == LeaseInv /\ TypeOK' /\ [Next]_vars => LeaseInv'
<1> SUFFICES ASSUME LeaseInv, TypeOK', [Next]_vars PROVE LeaseInv'
  OBVIOUS
<1>0. /\ ConvOf \in [Request -> Conversation]
      /\ None \notin Request
      /\ lease \in [Request -> L!LeaseState]
      /\ activeTurns \in [Conversation -> Request \cup {None}]
      /\ pc \in [Request -> PC]
  BY CoordinatorConstants DEF LeaseInv, TypeOK
<1> USE <1>0 DEF LeaseInv, LeaseFollowsCall, L!LeasesExclusive, ActiveTurnsNameTheTurnInFlight,
     L!Held, L!LeaseState, store, memory, Goto, Resume, Throw, Answer, Writing, InFlight,
     Admitting, Executing, Committing, Answered
<1>1. ASSUME NEW r \in Request, Submit(r) PROVE LeaseInv'
  BY <1>1 DEF Submit
<1>2. ASSUME NEW r \in Request, Advance(r) PROVE LeaseInv'
  <2>1. CASE Reject(r) BY <2>1 DEF Reject
  <2>2. CASE AnswerPrior(r) BY <2>2 DEF AnswerPrior
  <2>3. CASE Admit(r) BY <2>3 DEF Admit
  <2>4. CASE Refuse(r) BY <2>4 DEF Refuse
  <2>5. CASE AcquireLease(r)
    <3>1. LeaseFollowsCall'
      BY <2>5 DEF AcquireLease, L!Acquire
    <3>2. L!LeasesExclusive'
      BY <2>5, ContendSymmetric DEF AcquireLease, L!Acquire
    <3>3. ActiveTurnsNameTheTurnInFlight'
      <4>1. /\ activeTurns' = [activeTurns EXCEPT ![ConvOf[r]] = r]
            /\ pc' = [pc EXCEPT ![r] = "acquired"]
        BY ONLY <2>5 DEF AcquireLease, Goto
      <4>2. \A s \in Request : ConvOf[s] = ConvOf[r] => pc[s] \notin InFlight
        BY <2>5, AcquireFindsNoTurnInFlight
      <4>3. \A s \in Request : pc'[s] = IF s = r THEN "acquired" ELSE pc[s]
        BY ONLY <1>0, <4>1
      <4>4. \A s \in Request :
              activeTurns'[ConvOf[s]] = IF ConvOf[s] = ConvOf[r] THEN r ELSE activeTurns[ConvOf[s]]
        BY ONLY <1>0, <4>1
      <4>5. "acquired" \in InFlight
        BY DEF InFlight, Committing
      <4>6. ASSUME NEW s \in Request
            PROVE  pc'[s] \in InFlight <=> activeTurns'[ConvOf[s]] = s
        <5>1. pc[s] \in InFlight <=> activeTurns[ConvOf[s]] = s
          BY DEF ActiveTurnsNameTheTurnInFlight
        <5> HIDE DEF InFlight
        <5> QED BY ONLY <4>2, <4>3, <4>4, <4>5, <5>1, s \in Request
      <4> QED BY <4>6 DEF InFlight, ActiveTurnsNameTheTurnInFlight
    <3> QED BY <3>1, <3>2, <3>3
  <2>6. CASE StartTurn(r) BY <2>6 DEF StartTurn
  <2>7. CASE ContextFails(r) BY <2>7 DEF ContextFails
  <2>8. CASE OpenStream(r) BY <2>8 DEF OpenStream
  <2>9. CASE Finalize(r) BY <2>9 DEF Finalize, L!Release
  <2>10. CASE FinalizeFails(r) BY <2>10 DEF FinalizeFails
  <2>11. CASE AppendCompleted(r) BY <2>11 DEF AppendCompleted
  <2>12. CASE FinishCompleted(r) BY <2>12 DEF FinishCompleted
  <2>13. CASE PutResponse(r) BY <2>13 DEF PutResponse
  <2>14. CASE Recover(r) BY <2>14 DEF Recover, L!Release
  <2>15. CASE RecoverFails(r) BY <2>15 DEF RecoverFails
  <2>16. CASE AppendFailed(r) BY <2>16 DEF AppendFailed
  <2>17. CASE FinishFailed(r) BY <2>17 DEF FinishFailed
  <2> QED BY <1>2, <2>1, <2>2, <2>3, <2>4, <2>5, <2>6, <2>7, <2>8, <2>9, <2>10, <2>11,
             <2>12, <2>13, <2>14, <2>15, <2>16, <2>17 DEF Advance
<1>3. ASSUME NEW r \in Request, Stream(r) PROVE LeaseInv'
  <2>1. CASE ProviderActivity(r) BY <2>1 DEF ProviderActivity
  <2>2. CASE StreamEnd(r) BY <2>2 DEF StreamEnd
  <2>3. CASE StreamFail(r) BY <2>3 DEF StreamFail
  <2> QED BY <1>3, <2>1, <2>2, <2>3 DEF Stream
<1>4. ASSUME NEW r \in Request, Expire(r) \/ Heartbeat(r) \/ NativeStops(r) PROVE LeaseInv'
  BY <1>4 DEF Expire, L!Expire, Heartbeat, NativeStops
<1>5. ASSUME NEW c \in Conversation, Interrupt(c) PROVE LeaseInv'
  BY <1>5 DEF Interrupt
<1>6. ASSUME NEW s \in Switch, Handoff(s) PROVE LeaseInv'
  BY <1>6 DEF Handoff, SwitchProvider, CheckLeases, SetActiveProvider, SwitchFails
<1>7. ASSUME NEW k \in Key, ResponseExpires(k) PROVE LeaseInv'
  BY <1>7 DEF ResponseExpires
<1>8. CASE Crash
  BY <1>8 DEF Crash
<1>9. CASE UNCHANGED vars
  BY <1>9 DEF vars
<1> QED BY <1>1, <1>2, <1>3, <1>4, <1>5, <1>6, <1>7, <1>8, <1>9 DEF Next

LEMMA LeaseInvInit == Init => LeaseInv
<1> SUFFICES ASSUME Init PROVE LeaseInv
  OBVIOUS
<1>1. TypeOK
  BY InitType
<1>2. LeaseFollowsCall /\ L!LeasesExclusive /\ ActiveTurnsNameTheTurnInFlight
  BY CoordinatorConstants DEF Init, L!Init, LeaseFollowsCall, L!LeasesExclusive, L!Held,
     ActiveTurnsNameTheTurnInFlight, Writing, Executing, InFlight, Committing, Admitting
<1> QED BY <1>1, <1>2 DEF LeaseInv

THEOREM LeasesAndActiveTurns == Spec => []LeaseInv
<1>1. LeaseInv /\ [Next]_vars => LeaseInv'
  BY LeaseInvStep, TypeStep DEF LeaseInv
<1> QED BY <1>1, LeaseInvInit, PTL DEF Spec

\* A turn that may write holds a lease no other row of the table overlaps.
THEOREM WritersAreExclusive == Spec => []WritersHoldExclusiveLeases
<1>1. LeaseInv => WritersHoldExclusiveLeases
  BY DEF LeaseInv, LeaseFollowsCall, L!LeasesExclusive, WritersHoldExclusiveLeases
<1> QED BY <1>1, LeasesAndActiveTurns, PTL

\* activeTurns names exactly the turn in flight of each conversation.
THEOREM ActiveTurnsCorrect == Spec => []ActiveTurnsNameTheTurnInFlight
<1>1. LeaseInv => ActiveTurnsNameTheTurnInFlight
  BY DEF LeaseInv
<1> QED BY <1>1, LeasesAndActiveTurns, PTL

-----------------------------------------------------------------------------
\* The log and the rows.

\* What an append adds to the log, and nothing else.
LEMMA LoggedAfterAppend ==
  ASSUME TypeOK, NEW r \in Request, NEW type \in EventType, AppendEvent(r, type),
         NEW s \in Request, NEW u \in EventType
  PROVE  Logged(s, u)' <=> Logged(s, u) \/ (s = r /\ u = type)
<1> DEFINE e == [type |-> type, of |-> r]
           d == [type |-> u, of |-> s]
           l == log[ConvOf[s]]
<1>0. /\ l \in Seq(Event) /\ e \in Event /\ d \in Event
      /\ e = d <=> s = r /\ u = type
  BY CoordinatorConstants DEF TypeOK, Event
<1>1. CASE ConvOf[s] = ConvOf[r]
  <2>1. log'[ConvOf[s]] = Append(l, e)
    BY <1>1, CoordinatorConstants DEF AppendEvent, TypeOK
  <2>2. (\E i \in DOMAIN Append(l, e) : Append(l, e)[i] = d)
          <=> (\E i \in DOMAIN l : l[i] = d) \/ e = d
    <3> HIDE DEF e, d, l
    <3>1. DOMAIN l = 1 .. Len(l) /\ DOMAIN Append(l, e) = 1 .. (Len(l) + 1) /\ Len(l) \in Nat
      BY <1>0
    <3>2. \A i \in 1 .. Len(l) : Append(l, e)[i] = l[i]
      BY <1>0
    <3>3. Append(l, e)[Len(l) + 1] = e
      BY <1>0
    <3> QED BY <3>1, <3>2, <3>3
  <2> QED BY <1>0, <2>1, <2>2 DEF Logged
<1>2. CASE ConvOf[s] # ConvOf[r]
  <2>1. log'[ConvOf[s]] = l /\ s # r
    BY <1>2, CoordinatorConstants DEF AppendEvent, TypeOK
  <2> QED BY <2>1 DEF Logged
<1> QED BY <1>1, <1>2

LEMMA LoggedAfterUserMessage ==
  ASSUME TypeOK, NEW r \in Request, AppendUserMessage(r),
         NEW s \in Request, NEW u \in EventType
  PROVE  Logged(s, u)' <=> Logged(s, u) \/ (s = r /\ u = "user.message")
<1>1. CASE Logged(r, "user.message")
  BY <1>1 DEF AppendUserMessage, Logged
<1>2. CASE ~Logged(r, "user.message")
  <2>1. "user.message" \in EventType /\ AppendEvent(r, "user.message")
    BY <1>2 DEF AppendUserMessage, EventType
  <2> QED BY <2>1, LoggedAfterAppend
<1> QED BY <1>1, <1>2

LEMMA LoggedUnchanged ==
  ASSUME UNCHANGED log, NEW s \in Request, NEW u \in EventType
  PROVE  Logged(s, u)' <=> Logged(s, u)
BY DEF Logged

\* What the place of a call says of its row and its events.
RowFollowsCall ==
  \A r \in Request :
    /\ pc[r] \in {"new"} \cup Admitting =>
         turn[r] = "none" /\ ~Logged(r, "user.message") /\ ~Logged(r, "turn.completed")
    /\ pc[r] = "acquired" => turn[r] = "none" /\ ~Logged(r, "turn.completed")
    /\ pc[r] = "completed" => Logged(r, "turn.completed")
    /\ pc[r] = "finished" => turn[r] = "completed"
    /\ pc[r] = "failRecorded" => Logged(r, "turn.failed")

RowInv ==
  /\ LeaseInv
  /\ RowFollowsCall
  /\ CompletedTurnsHoldNoLease
  /\ RowsFollowTheLog

\* A record that expires still names its turn.
LEMMA ExpiryKeepsTurn ==
  ASSUME TypeOK, NEW k \in Key, ResponseExpires(k), NEW j \in Key, response'[j] # None
  PROVE  response[j] # None /\ response'[j].turn = response[j].turn
<1>1. response[k] # None /\ response[k] \in Record(Request)
  BY DEF ResponseExpires, Recorded, TypeOK
<1>2. response'[k] = [response[k] EXCEPT !.live = FALSE]
  BY DEF ResponseExpires, TypeOK
<1>3. response'[k].turn = response[k].turn
  BY <1>1, <1>2 DEF Record
<1>4. j # k => response'[j] = response[j]
  BY DEF ResponseExpires, TypeOK
<1> QED BY <1>1, <1>3, <1>4

LEMMA RowInvStep == RowInv /\ LeaseInv' /\ [Next]_vars => RowInv'
<1> SUFFICES ASSUME RowInv, LeaseInv', [Next]_vars PROVE RowInv'
  OBVIOUS
<1>0. /\ lease \in [Request -> L!LeaseState]
      /\ turn \in [Request -> TurnStatus]
      /\ response \in [Key -> Record(Request) \cup {None}]
      /\ pc \in [Request -> PC]
      /\ LeaseFollowsCall
  BY DEF RowInv, LeaseInv, TypeOK
<1>t. TypeOK
  BY DEF RowInv, LeaseInv
<1>e. {"user.message", "turn.completed", "turn.failed", "turn.started"} = EventType
  BY DEF EventType
<1>r. \A k \in Key : response[k] # None => response[k].turn \in Request
  BY <1>0 DEF Record
<1> DEFINE Keeps == \A s \in Request, u \in EventType : Logged(s, u)' <=> Logged(s, u)
           Adds(r, type) == \A s \in Request, u \in EventType :
                              Logged(s, u)' <=> Logged(s, u) \/ (s = r /\ u = type)
<1>k. UNCHANGED log => Keeps
  BY LoggedUnchanged
<1>a. ASSUME NEW r \in Request, NEW type \in EventType, AppendEvent(r, type)
      PROVE  Adds(r, type)
  BY <1>a, <1>t, LoggedAfterAppend
<1>u. ASSUME NEW r \in Request, AppendUserMessage(r) PROVE Adds(r, "user.message")
  BY <1>u, <1>t, LoggedAfterUserMessage
<1> USE <1>0, <1>e, <1>k DEF RowInv, RowFollowsCall, CompletedTurnsHoldNoLease, RowsFollowTheLog,
     LeaseFollowsCall, L!Held, L!LeaseState, store, memory, Goto,
     Resume, Throw, Answer, Writing, InFlight, Admitting, Executing, Committing, Answered
<1>1. ASSUME NEW r \in Request, Submit(r) PROVE RowInv'
  BY <1>1 DEF Submit
<1>2. ASSUME NEW r \in Request, Advance(r) PROVE RowInv'
  <2>1. CASE Reject(r) BY <2>1 DEF Reject
  <2>2. CASE AnswerPrior(r) BY <2>2 DEF AnswerPrior
  <2>3. CASE Admit(r) BY <2>3 DEF Admit
  <2>4. CASE Refuse(r) BY <2>4 DEF Refuse
  <2>5. CASE AcquireLease(r) BY <2>5 DEF AcquireLease, L!Acquire
  <2>6. CASE StartTurn(r) BY <2>6 DEF StartTurn
  <2>7. CASE ContextFails(r) BY <2>7 DEF ContextFails
  <2>8. CASE OpenStream(r) BY <2>8, <1>a DEF OpenStream
  <2>9. CASE Finalize(r) BY <2>9 DEF Finalize, L!Release
  <2>10. CASE FinalizeFails(r) BY <2>10 DEF FinalizeFails
  <2>11. CASE AppendCompleted(r) BY <2>11, <1>a DEF AppendCompleted
  <2>12. CASE FinishCompleted(r) BY <2>12 DEF FinishCompleted
  <2>13. CASE PutResponse(r) BY <2>13 DEF PutResponse
  <2>14. CASE Recover(r) BY <2>14 DEF Recover, L!Release
  <2>15. CASE RecoverFails(r) BY <2>15 DEF RecoverFails
  <2>16. CASE AppendFailed(r) BY <2>16, <1>a DEF AppendFailed
  <2>17. CASE FinishFailed(r)
    <3>1. CASE turn[r] = "running"
      <4>1. \A s \in Request : s # r => turn'[s] = turn[s] /\ pc'[s] = pc[s]
        BY <2>17, <3>1 DEF FinishFailed
      <4>2. turn'[r] \in {"interrupted", "failed"} /\ pc'[r] \in {"retrySafe", "error"}
        BY <2>17, <3>1 DEF FinishFailed, PC
      <4>4. pc[r] = "failRecorded" /\ UNCHANGED <<lease, log, response>>
        BY <2>17 DEF FinishFailed
      <4>5. \A s \in Request : pc'[s] = pc[s] \/ (s = r /\ pc'[s] \in {"retrySafe", "error"})
        BY <4>1, <4>2
      <4>6. RowFollowsCall' BY <4>1, <4>2, <4>4, <4>5
      <4>7. CompletedTurnsHoldNoLease' BY <4>1, <4>2, <4>4
      <4>8. RowsFollowTheLog'
        <5>1. \A k \in Key : response'[k] # None => turn'[response'[k].turn] = "completed"
          BY <3>1, <4>1, <4>4, <1>r
        <5>2. \A s \in Request : turn'[s] # turn[s] => s = r
          BY <4>1
        <5> QED BY <4>1, <4>2, <4>4, <5>1, <5>2
      <4> QED BY <4>6, <4>7, <4>8
    <3>2. CASE turn[r] # "running" BY <2>17, <3>2 DEF FinishFailed
    <3> QED BY <3>1, <3>2
  <2> QED BY <1>2, <2>1, <2>2, <2>3, <2>4, <2>5, <2>6, <2>7, <2>8, <2>9, <2>10, <2>11,
             <2>12, <2>13, <2>14, <2>15, <2>16, <2>17 DEF Advance
<1>3. ASSUME NEW r \in Request, Stream(r) PROVE RowInv'
  <2>1. CASE ProviderActivity(r) BY <2>1, <1>u DEF ProviderActivity
  <2>2. CASE StreamEnd(r) BY <2>2, <1>u DEF StreamEnd
  <2>3. CASE StreamFail(r) BY <2>3 DEF StreamFail
  <2> QED BY <1>3, <2>1, <2>2, <2>3 DEF Stream
<1>4. ASSUME NEW r \in Request, Expire(r) \/ Heartbeat(r) \/ NativeStops(r) PROVE RowInv'
  BY <1>4 DEF Expire, L!Expire, Heartbeat, NativeStops
<1>5. ASSUME NEW c \in Conversation, Interrupt(c) PROVE RowInv'
  BY <1>5 DEF Interrupt
<1>6. ASSUME NEW s \in Switch, Handoff(s) PROVE RowInv'
  BY <1>6 DEF Handoff, SwitchProvider, CheckLeases, SetActiveProvider, SwitchFails
<1>7. ASSUME NEW k \in Key, ResponseExpires(k) PROVE RowInv'
  <2>1. \A j \in Key : response'[j] # None =>
                         response[j] # None /\ response'[j].turn = response[j].turn
    BY <1>7, <1>t, ExpiryKeepsTurn DEF ResponseExpires
  <2> QED BY <1>7, <2>1 DEF ResponseExpires
<1>8. CASE Crash
  BY <1>8 DEF Crash
<1>9. CASE UNCHANGED vars
  BY <1>9 DEF vars
<1> QED BY <1>1, <1>2, <1>3, <1>4, <1>5, <1>6, <1>7, <1>8, <1>9 DEF Next

LEMMA RowInvInit == Init => RowInv
<1> SUFFICES ASSUME Init PROVE RowInv
  OBVIOUS
<1>1. \A r \in Request, u \in EventType : ~Logged(r, u)
  BY CoordinatorConstants DEF Init, Logged
<1>2. RowFollowsCall /\ CompletedTurnsHoldNoLease /\ RowsFollowTheLog
  BY <1>1 DEF Init, EventType, L!Init, L!Held, RowFollowsCall, CompletedTurnsHoldNoLease,
     RowsFollowTheLog, Admitting
<1> QED BY <1>2, LeaseInvInit DEF RowInv

THEOREM RowsAndLog == Spec => []RowInv
<1>1. RowInv /\ [Next]_vars => RowInv'
  BY RowInvStep, LeaseInvStep, TypeStep DEF RowInv, LeaseInv
<1> QED BY <1>1, RowInvInit, PTL DEF Spec

\* No turn is reported completed while its lease is still in the table.
THEOREM CompletedTurnsReleased == Spec => []CompletedTurnsHoldNoLease
<1>1. RowInv => CompletedTurnsHoldNoLease
  BY DEF RowInv
<1> QED BY <1>1, RowsAndLog, PTL

\* At any crash point the rows of a turn say no more than the log.
THEOREM RowsBehindLog == Spec => []RowsFollowTheLog
<1>1. RowInv => RowsFollowTheLog
  BY DEF RowInv
<1> QED BY <1>1, RowsAndLog, PTL

-----------------------------------------------------------------------------
\* The order of a log.

Places(r, type) ==
  {i \in DOMAIN log[ConvOf[r]] : log[ConvOf[r]][i] = [type |-> type, of |-> r]}

ReadsInOrder(r) ==
  /\ \A type \in EventType : \A i, j \in Places(r, type) : i = j
  /\ \A i \in Places(r, "user.message") : \E j \in Places(r, "turn.started") : j < i
  /\ \A i \in Places(r, "turn.completed") : \E j \in Places(r, "user.message") : j < i
  /\ \A i \in Places(r, "turn.completed") \cup Places(r, "turn.failed") :
       \A j \in Places(r, "turn.started") \cup Places(r, "user.message") : j < i

\* What the place of a call says of the events still to come.
EventsFollowCall ==
  \A r \in Request :
    /\ pc[r] \in {"new", "acquired", "context"} \cup Admitting =>
         \A type \in EventType : ~Logged(r, type)
    /\ pc[r] = "streaming" => Logged(r, "turn.started") /\ ~Logged(r, "turn.completed")
    /\ pc[r] \in {"finalizing", "released"} =>
         Logged(r, "user.message") /\ ~Logged(r, "turn.completed")
    /\ pc[r] \in Executing \cup {"released", "completed", "finished", "failed"} =>
         ~Logged(r, "turn.failed")

OrderInv ==
  /\ TypeOK
  /\ EventsFollowCall
  /\ \A r \in Request : ReadsInOrder(r)

LEMMA LoggedPlaces ==
  ASSUME NEW r \in Request, NEW type \in EventType
  PROVE  Logged(r, type) <=> Places(r, type) # {}
BY DEF Logged, Places

LEMMA PlacesUnchanged ==
  ASSUME UNCHANGED log, NEW r \in Request
  PROVE  ReadsInOrder(r)' <=> ReadsInOrder(r)
BY DEF ReadsInOrder, Places

\* An append adds one place, behind all the others.
LEMMA PlacesAfterAppend ==
  ASSUME TypeOK, NEW r \in Request, NEW type \in EventType, AppendEvent(r, type),
         NEW s \in Request
  PROVE  \E n \in Nat :
           /\ \A u \in EventType : Places(s, u) \subseteq 1 .. n
           /\ \A u \in EventType :
                Places(s, u)' = IF s = r /\ u = type THEN Places(s, u) \cup {n + 1}
                                ELSE Places(s, u)
<1> DEFINE e == [type |-> type, of |-> r]
           d(u) == [type |-> u, of |-> s]
           l == log[ConvOf[s]]
<1>0. /\ l \in Seq(Event) /\ e \in Event
      /\ \A u \in EventType : d(u) \in Event /\ (e = d(u) <=> s = r /\ u = type)
  BY CoordinatorConstants DEF TypeOK, Event
<1>1. Len(l) \in Nat /\ DOMAIN l = 1 .. Len(l)
  BY <1>0
<1>2. \A u \in EventType : Places(s, u) \subseteq 1 .. Len(l)
  BY <1>1 DEF Places
<1>3. CASE ConvOf[s] = ConvOf[r]
  <2>1. log'[ConvOf[s]] = Append(l, e)
    BY <1>3, CoordinatorConstants DEF AppendEvent, TypeOK
  <2>2. /\ DOMAIN Append(l, e) = 1 .. (Len(l) + 1)
        /\ \A i \in 1 .. Len(l) : Append(l, e)[i] = l[i]
        /\ Append(l, e)[Len(l) + 1] = e
    <3> HIDE DEF e, l
    <3> QED BY <1>0
  <2>3. ASSUME NEW u \in EventType
        PROVE  Places(s, u)' = IF s = r /\ u = type THEN Places(s, u) \cup {Len(l) + 1}
                               ELSE Places(s, u)
    <3>1. Places(s, u)' = {i \in 1 .. (Len(l) + 1) : Append(l, e)[i] = d(u)}
      BY <2>1, <2>2 DEF Places
    <3>2. Places(s, u) = {i \in 1 .. Len(l) : l[i] = d(u)}
      BY <1>1 DEF Places
    <3>3. e = d(u) <=> s = r /\ u = type
      BY <1>0
    <3> HIDE DEF e, d, l
    <3> QED BY <1>1, <2>2, <3>1, <3>2, <3>3
  <2> QED BY <1>1, <1>2, <2>3
<1>4. CASE ConvOf[s] # ConvOf[r]
  <2>1. log'[ConvOf[s]] = l /\ s # r
    BY <1>4, CoordinatorConstants DEF AppendEvent, TypeOK
  <2>2. \A u \in EventType : Places(s, u)' = Places(s, u)
    BY <2>1 DEF Places
  <2> QED BY <1>1, <1>2, <2>1, <2>2
<1> QED BY <1>3, <1>4

\* An append in its turn keeps the order of every request's events.
LEMMA InOrderAfterAppend ==
  ASSUME TypeOK, NEW r \in Request, NEW type \in EventType, AppendEvent(r, type),
         ~Logged(r, type),
         type \in {"turn.started", "user.message"} =>
           ~Logged(r, "turn.completed") /\ ~Logged(r, "turn.failed"),
         type = "user.message" => Logged(r, "turn.started"),
         type = "turn.completed" => Logged(r, "user.message"),
         NEW s \in Request, ReadsInOrder(s)
  PROVE  ReadsInOrder(s)'
<1>1. PICK n \in Nat :
           /\ \A u \in EventType : Places(s, u) \subseteq 1 .. n
           /\ \A u \in EventType :
                Places(s, u)' = IF s = r /\ u = type THEN Places(s, u) \cup {n + 1}
                                ELSE Places(s, u)
  BY PlacesAfterAppend
<1>e. EventType = {"turn.started", "user.message", "turn.completed", "turn.failed"}
  BY DEF EventType
<1>2. CASE s # r
  <2>1. \A u \in EventType : Places(s, u)' = Places(s, u)
    BY <1>1, <1>2
  <2> QED BY <1>e, <2>1 DEF ReadsInOrder
<1>3. CASE s = r
  <2>1. /\ Places(r, type) = {} /\ Places(r, type)' = {n + 1}
        /\ \A u \in EventType \ {type} : Places(r, u)' = Places(r, u)
        /\ \A u \in EventType : \A i \in Places(r, u) : i \in Nat /\ i < n + 1
    BY <1>1, <1>3, LoggedPlaces
  <2>2. type \in {"turn.started", "user.message"} =>
           Places(r, "turn.completed") = {} /\ Places(r, "turn.failed") = {}
    BY <1>e, LoggedPlaces
  <2>3. /\ type = "user.message" => Places(r, "turn.started") # {}
        /\ type = "turn.completed" => Places(r, "user.message") # {}
    BY <1>e, LoggedPlaces
  <2>4. ReadsInOrder(r)
    BY <1>3
  <2>5. CASE type = "turn.started"
    <3>1. Places(r, "user.message") = {}
      BY <2>1, <2>4, <2>5 DEF ReadsInOrder
    <3> QED BY <1>3, <1>e, <2>1, <2>2, <2>5, <3>1 DEF ReadsInOrder
  <2>6. CASE type = "user.message"
    BY <1>3, <1>e, <2>1, <2>2, <2>3, <2>4, <2>6 DEF ReadsInOrder
  <2>7. CASE type = "turn.completed"
    BY <1>3, <1>e, <2>1, <2>3, <2>4, <2>7 DEF ReadsInOrder
  <2>8. CASE type = "turn.failed"
    BY <1>3, <1>e, <2>1, <2>4, <2>8 DEF ReadsInOrder
  <2> QED BY <1>e, <2>5, <2>6, <2>7, <2>8
<1> QED BY <1>2, <1>3

LEMMA OrderInvStep == OrderInv /\ TypeOK' /\ [Next]_vars => OrderInv'
<1> SUFFICES ASSUME OrderInv, TypeOK', [Next]_vars PROVE OrderInv'
  OBVIOUS
<1>0. TypeOK /\ pc \in [Request -> PC] /\ lease \in [Request -> L!LeaseState]
  BY DEF OrderInv, TypeOK
<1>e. EventType = {"user.message", "turn.completed", "turn.failed", "turn.started"}
  BY DEF EventType
<1> DEFINE Keeps == \A s \in Request : /\ ReadsInOrder(s)'
                                       /\ \A u \in EventType : Logged(s, u)' <=> Logged(s, u)
           Adds(r, type) == \A s \in Request, u \in EventType :
                              Logged(s, u)' <=> Logged(s, u) \/ (s = r /\ u = type)
           Ordered == \A s \in Request : ReadsInOrder(s)'
<1>k. UNCHANGED log => Keeps
  BY LoggedUnchanged, PlacesUnchanged DEF OrderInv
<1>a. ASSUME NEW r \in Request, NEW type \in EventType, AppendEvent(r, type)
      PROVE  Adds(r, type)
  BY <1>0, <1>a, LoggedAfterAppend
<1>u. ASSUME NEW r \in Request, pc[r] = "streaming", AppendUserMessage(r)
      PROVE  Adds(r, "user.message") /\ Ordered
  <2>1. Adds(r, "user.message")
    BY <1>0, <1>u, LoggedAfterUserMessage
  <2>2. CASE Logged(r, "user.message")
    BY <1>u, <1>k, <2>1, <2>2 DEF AppendUserMessage
  <2>3. CASE ~Logged(r, "user.message")
    <3>1. AppendEvent(r, "user.message")
      BY <1>u, <2>3 DEF AppendUserMessage
    <3>2. /\ Logged(r, "turn.started") /\ ~Logged(r, "turn.completed")
          /\ ~Logged(r, "turn.failed")
      BY <1>u DEF OrderInv, EventsFollowCall, Executing
    <3>3. Ordered
      BY <1>0, <1>e, <2>3, <3>1, <3>2, InOrderAfterAppend DEF OrderInv
    <3> QED BY <2>1, <3>3
  <2> QED BY <2>2, <2>3
<1> HIDE DEF Keeps, Adds, Ordered
<1> USE <1>0, <1>e DEF store, memory, Goto, Resume, Throw, Answer, Admitting, Executing,
     Committing, Answered
\* A step that appends nothing: only the call that moves is to be looked at.
<1>move. ASSUME Keeps, NEW r \in Request, \A s \in Request \ {r} : pc'[s] = pc[s],
                \/ pc'[r] = pc[r]
                \/ pc'[r] \in Admitting /\ pc[r] \in {"new"} \cup Admitting
                \/ pc'[r] \in {"acquired", "context"} /\ pc[r] \in {"acquired"} \cup Admitting
                \/ pc'[r] \in {"recovering", "failed"} /\ pc[r] \in Executing \cup {"finished"}
                \/ pc'[r] = "released" /\ pc[r] = "finalizing"
                \/ pc'[r] = "finished" /\ pc[r] = "completed"
                \/ pc'[r] \in Answered
         PROVE  OrderInv'
  BY <1>move DEF Keeps, OrderInv, EventsFollowCall
<1>1. ASSUME NEW r \in Request, Submit(r) PROVE OrderInv'
  BY <1>1, <1>k, <1>move DEF Submit
<1>2. ASSUME NEW r \in Request, Advance(r) PROVE OrderInv'
  <2>1. CASE Reject(r) \/ AnswerPrior(r) \/ Admit(r) \/ Refuse(r)
    BY <2>1, <1>k, <1>move DEF Reject, AnswerPrior, Admit, Refuse
  <2>2. CASE AcquireLease(r) \/ StartTurn(r)
    BY <2>2, <1>k, <1>move DEF AcquireLease, StartTurn
  <2>3. CASE ContextFails(r) \/ FinalizeFails(r)
    BY <2>3, <1>k, <1>move DEF ContextFails, FinalizeFails
  <2>4. CASE OpenStream(r)
    <3>1. AppendEvent(r, "turn.started") /\ pc[r] = "context" /\ pc' = [pc EXCEPT ![r] = "streaming"]
      BY <2>4 DEF OpenStream
    <3>2. \A u \in EventType : ~Logged(r, u)
      BY <3>1 DEF OrderInv, EventsFollowCall
    <3>3. Adds(r, "turn.started") /\ Ordered
      BY <1>a, <3>1, <3>2, InOrderAfterAppend DEF OrderInv, Ordered
    <3> QED BY <3>1, <3>2, <3>3 DEF OrderInv, EventsFollowCall, Adds, Ordered
  <2>5. CASE Finalize(r) \/ Recover(r) \/ RecoverFails(r) \/ FinishCompleted(r)
    BY <2>5, <1>k, <1>move DEF Finalize, Recover, RecoverFails, FinishCompleted
  <2>6. CASE AppendCompleted(r)
    <3>1. /\ AppendEvent(r, "turn.completed") /\ pc[r] = "released"
          /\ pc' = [pc EXCEPT ![r] = "completed"]
      BY <2>6 DEF AppendCompleted
    <3>2. Logged(r, "user.message") /\ ~Logged(r, "turn.completed") /\ ~Logged(r, "turn.failed")
      BY <3>1 DEF OrderInv, EventsFollowCall
    <3>3. Adds(r, "turn.completed") /\ Ordered
      BY <1>a, <3>1, <3>2, InOrderAfterAppend DEF OrderInv, Ordered
    <3> QED BY <3>1, <3>2, <3>3 DEF OrderInv, EventsFollowCall, Adds, Ordered
  <2>7. CASE PutResponse(r) BY <2>7, <1>k, <1>move DEF PutResponse
  <2>8. CASE AppendFailed(r)
    <3>1. /\ AppendEvent(r, "turn.failed") /\ pc[r] = "failed"
          /\ pc' = [pc EXCEPT ![r] = "failRecorded"]
      BY <2>8 DEF AppendFailed
    <3>2. ~Logged(r, "turn.failed")
      BY <3>1 DEF OrderInv, EventsFollowCall
    <3>3. Adds(r, "turn.failed") /\ Ordered
      BY <1>a, <3>1, <3>2, InOrderAfterAppend DEF OrderInv, Ordered
    <3> QED BY <3>1, <3>2, <3>3 DEF OrderInv, EventsFollowCall, Adds, Ordered
  <2>9. CASE FinishFailed(r)
    <3>1. pc'[r] \in {"retrySafe", "error"} /\ \A s \in Request \ {r} : pc'[s] = pc[s]
      BY <2>9 DEF FinishFailed
    <3> QED BY <2>9, <3>1, <1>k, <1>move DEF FinishFailed
  <2> QED BY <1>2, <2>1, <2>2, <2>3, <2>4, <2>5, <2>6, <2>7, <2>8, <2>9 DEF Advance
<1>3. ASSUME NEW r \in Request, Stream(r) PROVE OrderInv'
  <2>1. CASE ProviderActivity(r)
    <3>1. pc[r] = "streaming" /\ AppendUserMessage(r) /\ UNCHANGED pc
      BY <2>1 DEF ProviderActivity
    <3> QED BY <1>u, <3>1 DEF OrderInv, EventsFollowCall, Adds, Ordered
  <2>2. CASE StreamEnd(r)
    <3>1. /\ pc[r] = "streaming" /\ AppendUserMessage(r)
          /\ \E to \in {"finalizing", "recovering", "failed"} : pc' = [pc EXCEPT ![r] = to]
      BY <2>2 DEF StreamEnd
    <3> QED BY <1>u, <3>1 DEF OrderInv, EventsFollowCall, Adds, Ordered
  <2>3. CASE StreamFail(r) BY <2>3, <1>k, <1>move DEF StreamFail
  <2> QED BY <1>3, <2>1, <2>2, <2>3 DEF Stream
<1>4. CASE UNCHANGED <<log, pc>>
  BY <1>4, <1>k DEF Keeps, OrderInv, EventsFollowCall
<1>5. CASE Crash
  <2>1. \A s \in Request : pc'[s] = pc[s] \/ pc'[s] = "lost"
    BY <1>5 DEF Crash
  <2>2. Keeps
    BY <1>5, <1>k DEF Crash
  <2> QED BY <2>1, <2>2 DEF Keeps, OrderInv, EventsFollowCall
<1>6. ASSUME NEW r \in Request, Expire(r) \/ Heartbeat(r) \/ NativeStops(r)
      PROVE  UNCHANGED <<log, pc>>
  BY <1>6 DEF Expire, Heartbeat, NativeStops
<1>7. ASSUME NEW c \in Conversation, Interrupt(c) PROVE UNCHANGED <<log, pc>>
  BY <1>7 DEF Interrupt
<1>8. ASSUME NEW s \in Switch, Handoff(s) PROVE UNCHANGED <<log, pc>>
  BY <1>8 DEF Handoff, SwitchProvider, CheckLeases, SetActiveProvider, SwitchFails
<1>9. ASSUME NEW k \in Key, ResponseExpires(k) PROVE UNCHANGED <<log, pc>>
  BY <1>9 DEF ResponseExpires
<1>10. UNCHANGED vars => UNCHANGED <<log, pc>>
  BY DEF vars
<1> QED BY <1>1, <1>2, <1>3, <1>4, <1>5, <1>6, <1>7, <1>8, <1>9, <1>10 DEF Next

LEMMA OrderInvInit == Init => OrderInv
<1> SUFFICES ASSUME Init PROVE OrderInv
  OBVIOUS
<1>1. \A r \in Request, u \in EventType : Places(r, u) = {}
  BY CoordinatorConstants DEF Init, Places
<1>2. EventsFollowCall
  BY <1>1, LoggedPlaces DEF Init, EventsFollowCall, Admitting, Executing
<1>3. \A r \in Request : ReadsInOrder(r)
  BY <1>1 DEF ReadsInOrder, EventType
<1> QED BY <1>2, <1>3, InitType DEF OrderInv

\* Within a conversation's log every turn reads in order.
THEOREM TurnsAreInOrder == Spec => []TurnsReadInOrder
<1>1. OrderInv /\ [Next]_vars => OrderInv'
  BY OrderInvStep, TypeStep DEF OrderInv
<1>2. OrderInv => TurnsReadInOrder
  BY DEF OrderInv, ReadsInOrder, Places, TurnsReadInOrder, EventType
<1> QED BY <1>1, <1>2, OrderInvInit, PTL DEF Spec

-----------------------------------------------------------------------------
\* Recorded responses.

\* A record names its turn for good, and a completed turn stays completed.
LEMMA RecordsAreStable ==
  ASSUME RowInv, [Next]_vars
  PROVE  /\ \A k \in Key : response[k] # None =>
                             response'[k] # None /\ response'[k].turn = response[k].turn
         /\ \A r \in Request : turn[r] = "completed" => turn'[r] = "completed"
<1>0. /\ TypeOK
      /\ turn \in [Request -> TurnStatus]
      /\ response \in [Key -> Record(Request) \cup {None}]
      /\ RowFollowsCall
  BY DEF RowInv, LeaseInv, TypeOK
<1> DEFINE Stable == /\ \A k \in Key : response[k] # None =>
                          response'[k] # None /\ response'[k].turn = response[k].turn
                     /\ \A r \in Request : turn[r] = "completed" => turn'[r] = "completed"
<1> USE <1>0 DEF store, memory
<1>1. ASSUME NEW r \in Request, Submit(r) PROVE Stable
  BY <1>1 DEF Submit
<1>2. ASSUME NEW r \in Request, Advance(r) PROVE Stable
  <2>1. CASE UNCHANGED <<turn, response>>
    BY <2>1
  <2>2. CASE StartTurn(r) BY <2>2 DEF StartTurn, RowFollowsCall
  <2>3. CASE FinishCompleted(r) BY <2>3 DEF FinishCompleted
  <2>4. CASE FinishFailed(r) BY <2>4 DEF FinishFailed
  <2>5. CASE PutResponse(r) BY <2>5 DEF PutResponse
  <2> QED BY <1>2, <2>1, <2>2, <2>3, <2>4, <2>5
          DEF Advance, Reject, AnswerPrior, Admit, Refuse, AcquireLease, ContextFails, OpenStream,
              Finalize, FinalizeFails, AppendCompleted, Recover, RecoverFails, AppendFailed
<1>3. ASSUME NEW r \in Request,
             Stream(r) \/ Expire(r) \/ Heartbeat(r) \/ NativeStops(r)
      PROVE  Stable
  BY <1>3 DEF Stream, ProviderActivity, StreamEnd, StreamFail, Expire, Heartbeat, NativeStops
<1>4. ASSUME NEW c \in Conversation, Interrupt(c) PROVE Stable
  BY <1>4 DEF Interrupt
<1>5. ASSUME NEW s \in Switch, Handoff(s) PROVE Stable
  BY <1>5 DEF Handoff, SwitchProvider, CheckLeases, SetActiveProvider, SwitchFails
<1>6. ASSUME NEW k \in Key, ResponseExpires(k) PROVE Stable
  <2>1. ASSUME NEW j \in Key, response[j] # None
        PROVE  response'[j] # None /\ response'[j].turn = response[j].turn
    <3>1. CASE j = k
      <4>1. response[k] \in Record(Request) /\ response'[k] = [response[k] EXCEPT !.live = FALSE]
        BY <1>6, <2>1, <3>1 DEF ResponseExpires
      <4>2. response'[k].turn = response[k].turn
        BY <4>1 DEF Record
      <4>3. response'[k] \in Record(Request)
        BY <4>1, RecordUpdateType
      <4> QED BY <3>1, <4>2, <4>3, CoordinatorConstants DEF Record
    <3>2. CASE j # k
      BY <1>6, <2>1, <3>2 DEF ResponseExpires
    <3> QED BY <3>1, <3>2
  <2> QED BY <1>6, <2>1 DEF ResponseExpires
<1>7. CASE Crash
  BY <1>7 DEF Crash
<1>8. CASE UNCHANGED vars
  BY <1>8 DEF vars
<1> QED BY <1>1, <1>2, <1>3, <1>4, <1>5, <1>6, <1>7, <1>8 DEF Next

\* Only two steps answer a call with a result.
LEMMA WhoAnswers ==
  ASSUME TypeOK, [Next]_vars, NEW r \in Request, pc'[r] \in {"ok", "prior"}, pc'[r] # pc[r]
  PROVE  AnswerPrior(r) \/ PutResponse(r)
<1>0. pc \in [Request -> PC]
  BY DEF TypeOK
<1> USE <1>0 DEF store, memory, Goto, Throw, Answer
<1>1. ASSUME NEW s \in Request, Submit(s) PROVE FALSE
  BY <1>1 DEF Submit
<1>2. ASSUME NEW s \in Request, Advance(s) PROVE AnswerPrior(r) \/ PutResponse(r)
  <2>1. CASE AnswerPrior(s) BY <2>1 DEF AnswerPrior
  <2>2. CASE PutResponse(s) BY <2>2 DEF PutResponse
  <2>3. CASE Refuse(s) BY <2>3 DEF Refuse
  <2>4. CASE FinishFailed(s)
    <3>1. pc'[s] \in {"retrySafe", "error"} /\ \A u \in Request \ {s} : pc'[u] = pc[u]
      BY <2>4 DEF FinishFailed
    <3> QED BY <3>1
  <2>5. CASE ContextFails(s) \/ FinalizeFails(s)
    BY <2>5 DEF ContextFails, FinalizeFails
  <2>6. CASE Reject(s) \/ Admit(s) \/ AcquireLease(s) \/ StartTurn(s) \/ OpenStream(s)
    BY <2>6 DEF Reject, Admit, AcquireLease, StartTurn, OpenStream
  <2>7. CASE Finalize(s) \/ AppendCompleted(s) \/ FinishCompleted(s)
             \/ Recover(s) \/ RecoverFails(s) \/ AppendFailed(s)
    BY <2>7 DEF Finalize, AppendCompleted, FinishCompleted, Recover, RecoverFails, AppendFailed
  <2> QED BY <1>2, <2>1, <2>2, <2>3, <2>4, <2>5, <2>6, <2>7 DEF Advance
<1>3. ASSUME NEW s \in Request, Stream(s) PROVE FALSE
  <2>1. CASE ProviderActivity(s) BY <2>1 DEF ProviderActivity
  <2>2. CASE StreamEnd(s) BY <2>2 DEF StreamEnd
  <2>3. CASE StreamFail(s) BY <2>3 DEF StreamFail
  <2> QED BY <1>3, <2>1, <2>2, <2>3 DEF Stream
<1>4. ASSUME NEW s \in Request, Expire(s) \/ Heartbeat(s) \/ NativeStops(s) PROVE FALSE
  BY <1>4 DEF Expire, Heartbeat, NativeStops
<1>5. ASSUME NEW c \in Conversation, Interrupt(c) PROVE FALSE
  BY <1>5 DEF Interrupt
<1>6. ASSUME NEW s \in Switch, Handoff(s) PROVE FALSE
  BY <1>6 DEF Handoff, SwitchProvider, CheckLeases, SetActiveProvider, SwitchFails
<1>7. ASSUME NEW k \in Key, ResponseExpires(k) PROVE FALSE
  BY <1>7 DEF ResponseExpires
<1>8. ASSUME Crash PROVE FALSE
  BY <1>8 DEF Crash
<1>9. ~UNCHANGED vars
  BY DEF vars
<1> QED BY <1>1, <1>2, <1>3, <1>4, <1>5, <1>6, <1>7, <1>8, <1>9 DEF Next

\* Whoever was answered with a result was answered with the recorded one.
THEOREM AnswersAreRecorded == Spec => []AnswersComeFromTheRecord
<1>1. Init => AnswersComeFromTheRecord
  BY DEF Init, AnswersComeFromTheRecord
<1>2. RowInv /\ AnswersComeFromTheRecord /\ [Next]_vars => AnswersComeFromTheRecord'
  <2> SUFFICES ASSUME RowInv, AnswersComeFromTheRecord, [Next]_vars,
                      NEW r \in Request, pc'[r] \in {"ok", "prior"}
               PROVE  LET e == response'[KeyOf(r)] IN
                        /\ e # None
                        /\ BodyOf[e.turn] = BodyOf[r]
                        /\ turn'[e.turn] = "completed"
                        /\ pc'[r] = "ok" => e.turn = r
    BY DEF AnswersComeFromTheRecord, KeyOf
  <2>0. TypeOK /\ RowsFollowTheLog /\ RowFollowsCall /\ KeyOf(r) \in Key
    BY KeyOfType DEF RowInv, LeaseInv
  <2>1. \A k \in Key : response[k] # None => response[k].turn \in Request
    BY <2>0 DEF TypeOK, Record
  <2>2. CASE pc'[r] = pc[r]
    BY <2>0, <2>1, <2>2, RecordsAreStable DEF AnswersComeFromTheRecord
  <2>3. CASE AnswerPrior(r)
    <3>1. response[KeyOf(r)] # None /\ UNCHANGED <<response, turn>>
          /\ BodyOf[response[KeyOf(r)].turn] = BodyOf[r] /\ pc'[r] = "prior"
      BY <2>0, <2>3 DEF AnswerPrior, Recorded, Goto, store, TypeOK
    <3> QED BY <2>0, <3>1 DEF RowsFollowTheLog
  <2>4. CASE PutResponse(r)
    <3>1. pc[r] = "finished" /\ UNCHANGED turn /\ response[KeyOf(r)] = None
      BY <2>0, <2>4 DEF PutResponse, Goto, TypeOK
    <3>2. response'[KeyOf(r)] = [turn |-> r, live |-> TRUE]
      BY <2>0, <2>4, <3>1 DEF PutResponse, TypeOK
    <3>3. response'[KeyOf(r)].turn = r /\ response'[KeyOf(r)] # None
      <4>1. response'[KeyOf(r)] \in [turn : Request, live : BOOLEAN]
        BY <3>2
      <4>2. response'[KeyOf(r)] # None
        BY <4>1, CoordinatorConstants
      <4> QED BY <3>2, <4>2
    <3> QED BY <2>0, <3>1, <3>3 DEF RowFollowsCall
  <2> QED BY <2>0, <2>2, <2>3, <2>4, WhoAnswers
<1> QED BY <1>1, <1>2, RowsAndLog, PTL DEF Spec

-----------------------------------------------------------------------------
\* The coordinator implements SingleWriter.

\* What a step does to writers and leases.
Writes(r) == pc[r] \in Writing

SameWriters == \A r \in Request : Writes(r)' = Writes(r) /\ L!Held(r)' = L!Held(r)

Stops(S) ==
  \A r \in Request : /\ Writes(r)' <=> Writes(r) /\ r \notin S
                     /\ r \in S => Writes(r)

StopsClean(r) ==
  /\ Stops({r})
  /\ ~L!Held(r)'
  /\ \A s \in Request \ {r} : L!Held(s)' = L!Held(s)

StopsUnclean(S) == Stops(S) /\ \A r \in Request : L!Held(r)' = L!Held(r)

WriterStep ==
  \/ SameWriters
  \/ \E r \in Request : AcquireLease(r) \/ StopsClean(r)
  \/ \E S \in SUBSET Request : StopsUnclean(S)

\* A call that throws either keeps writing, in its catch block, or stops with
\* its lease still in the table.
LEMMA ThrowStops ==
  ASSUME LeaseInv, NEW r \in Request, pc[r] \in Executing, UNCHANGED lease,
         NEW why, Throw(r, why)
  PROVE  SameWriters \/ StopsUnclean({r})
<1>1. pc \in [Request -> PC] /\ UNCHANGED lease
  BY DEF LeaseInv, TypeOK
<1>2. CASE pc' = [pc EXCEPT ![r] = "recovering"]
  BY <1>1, <1>2 DEF SameWriters, Writes, L!Held, Writing, Executing
<1>3. CASE pc' = [pc EXCEPT ![r] = "failed"]
  BY <1>1, <1>3 DEF StopsUnclean, Stops, Writes, L!Held, Writing, Executing
<1> QED BY <1>2, <1>3 DEF Throw, Goto

LEMMA EveryStepIsAWriterStep == ASSUME LeaseInv, [Next]_vars PROVE WriterStep
<1>0. pc \in [Request -> PC] /\ lease \in [Request -> L!LeaseState]
  BY DEF LeaseInv, TypeOK
<1> USE <1>0 DEF WriterStep, SameWriters, Writes, L!Held, L!LeaseState, Goto, Resume, Answer,
     Writing, Executing, store, memory
<1>1. ASSUME NEW r \in Request, Submit(r) PROVE WriterStep
  BY <1>1 DEF Submit
<1>2. ASSUME NEW r \in Request, Advance(r) PROVE WriterStep
  <2>1. CASE Reject(r) \/ AnswerPrior(r) \/ Admit(r) \/ Refuse(r)
    BY <2>1 DEF Reject, AnswerPrior, Admit, Refuse
  <2>2. CASE AcquireLease(r) BY <2>2
  <2>3. CASE StartTurn(r) \/ OpenStream(r) BY <2>3 DEF StartTurn, OpenStream
  <2>4. CASE ContextFails(r) BY <2>4, ThrowStops DEF ContextFails
  <2>5. CASE FinalizeFails(r) BY <2>5, ThrowStops DEF FinalizeFails
  <2>6. CASE Finalize(r) \/ Recover(r)
    <3>1. StopsClean(r)
      BY <2>6 DEF Finalize, Recover, L!Release, StopsClean, Stops
    <3> QED BY <3>1
  <2>7. CASE RecoverFails(r)
    <3>1. StopsUnclean({r})
      BY <2>7 DEF RecoverFails, StopsUnclean, Stops
    <3> QED BY <3>1
  <2>8. CASE AppendCompleted(r) \/ FinishCompleted(r) \/ AppendFailed(r)
    BY <2>8 DEF AppendCompleted, FinishCompleted, AppendFailed
  <2>9. CASE PutResponse(r) BY <2>9 DEF PutResponse
  <2>10. CASE FinishFailed(r)
    <3>1. pc[r] = "failRecorded" /\ UNCHANGED lease
      BY <2>10 DEF FinishFailed
    <3>2. \E how \in {"retrySafe", "error"} : pc' = [pc EXCEPT ![r] = how]
      BY <2>10 DEF FinishFailed
    <3> QED BY <3>1, <3>2
  <2> QED BY <1>2, <2>1, <2>2, <2>3, <2>4, <2>5, <2>6, <2>7, <2>8, <2>9, <2>10 DEF Advance
<1>3. ASSUME NEW r \in Request, Stream(r) PROVE WriterStep
  <2>1. CASE ProviderActivity(r) BY <2>1 DEF ProviderActivity
  <2>2. CASE StreamEnd(r)
    <3>1. pc[r] \in Executing /\ UNCHANGED lease
      BY <2>2 DEF StreamEnd
    <3>2. CASE lease[r] = "live" BY <2>2, <3>2 DEF StreamEnd
    <3>3. CASE lease[r] # "live"
      <4>1. Throw(r, "other") BY <2>2, <3>3 DEF StreamEnd
      <4> QED BY <3>1, <4>1, ThrowStops
    <3> QED BY <3>2, <3>3
  <2>3. CASE StreamFail(r) BY <2>3, ThrowStops DEF StreamFail
  <2> QED BY <1>3, <2>1, <2>2, <2>3 DEF Stream
<1>4. ASSUME NEW r \in Request, Expire(r) \/ Heartbeat(r) \/ NativeStops(r) PROVE WriterStep
  BY <1>4 DEF Expire, L!Expire, Heartbeat, NativeStops
<1>5. ASSUME NEW c \in Conversation, Interrupt(c) PROVE WriterStep
  BY <1>5 DEF Interrupt
<1>6. ASSUME NEW s \in Switch, Handoff(s) PROVE WriterStep
  BY <1>6 DEF Handoff, SwitchProvider, CheckLeases, SetActiveProvider, SwitchFails
<1>7. ASSUME NEW k \in Key, ResponseExpires(k) PROVE WriterStep
  BY <1>7 DEF ResponseExpires
<1>8. CASE Crash
  <2>1. PICK S \in SUBSET Request : S = {r \in Request : Writes(r)}
    OBVIOUS
  <2>2. StopsUnclean(S)
    BY <1>8, <2>1 DEF Crash, StopsUnclean, Stops, Answered
  <2> QED BY <2>2
<1>9. CASE UNCHANGED vars
  BY <1>9 DEF vars
<1> QED BY <1>1, <1>2, <1>3, <1>4, <1>5, <1>6, <1>7, <1>8, <1>9 DEF Next

\* The coordinator, over leases that expire and a daemon that crashes,
\* implements one writer per worktree with quarantine.
THEOREM Refinement == Spec => ImplementsSingleWriter
<1> DEFINE wr == {r \in Request : pc[r] \in Writing}
           qu == {r \in Request : L!Held(r) /\ pc[r] \notin Writing}
<1>1. Init => W!Init
  BY DEF Init, W!Init, L!Init, L!Held, Writing, Executing
<1>2. ASSUME LeaseInv, [Next]_vars PROVE W!Next \/ UNCHANGED <<wr, qu>>
  <2>1. CASE SameWriters
    BY <2>1 DEF SameWriters, Writes
  <2>2. ASSUME NEW r \in Request, AcquireLease(r) PROVE W!Begin(r)
    <3>1. \A u \in wr \cup qu : ~W!Contend(r, u)
      BY <1>2, <2>2 DEF LeaseInv, LeaseFollowsCall, AcquireLease, L!Acquire, L!Contend, W!Contend
    <3>2. pc \in [Request -> PC] /\ lease \in [Request -> L!LeaseState]
      BY <1>2 DEF LeaseInv, TypeOK
    <3>3. ~L!Held(r) /\ pc[r] \notin Writing
      BY <1>2, <2>2 DEF LeaseInv, LeaseFollowsCall, AcquireLease, Resume, Admitting, Writing,
         Executing
    <3>4. /\ Writes(r)' /\ \A u \in Request \ {r} : pc'[u] = pc[u]
          /\ \A u \in Request \ {r} : L!Held(u)' = L!Held(u)
      BY <2>2, <3>2 DEF AcquireLease, L!Acquire, L!Held, Goto, Writes, Writing
    <3>5. wr' = wr \cup {r} /\ qu' = qu
      BY <3>3, <3>4 DEF Writes
    <3> QED BY <3>1, <3>5 DEF W!Begin
  <2>3. ASSUME NEW r \in Request, StopsClean(r) PROVE W!End(r)
    <3>1. r \in wr /\ wr' = wr \ {r} /\ qu' = qu
      BY <2>3 DEF StopsClean, Stops, Writes
    <3> QED BY <3>1 DEF W!End
  <2>4. ASSUME NEW S \in SUBSET Request, StopsUnclean(S) PROVE W!Quarantine(S)
    <3>1. S \subseteq wr /\ wr' = wr \ S
      BY <2>4 DEF StopsUnclean, Stops, Writes
    <3>2. qu' = qu \cup S
      BY <1>2, <2>4 DEF StopsUnclean, Stops, Writes, LeaseInv, LeaseFollowsCall
    <3> QED BY <3>1, <3>2 DEF W!Quarantine
  <2> QED BY <1>2, <2>1, <2>2, <2>3, <2>4, EveryStepIsAWriterStep DEF WriterStep, W!Next
<1>3. Spec => []LeaseInv
  BY LeasesAndActiveTurns
<1> QED BY <1>1, <1>2, <1>3, PTL DEF Spec, ImplementsSingleWriter, W!Spec
===============================================================================
