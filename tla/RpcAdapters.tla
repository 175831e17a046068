---------------------------- MODULE RpcAdapters ----------------------------
(***************************************************************************)
(* The adapters of Codex and Hermes.  Each has one child for all turns,    *)
(* which is asked by requests (json-line-rpc.ts) and notifies of the rest. *)
(* The child is started once: nothing replaces a child that has died.      *)
(***************************************************************************)
EXTENDS ProviderStream

RpcProviders == {"codex", "hermes"}

\* ensureRpc and ensureGateway: the start and its handshake may fail.
RpcEnsure ==
  /\ provider \in RpcProviders
  /\ turn.step = "process"
  /\ \/ /\ child # "none"
        /\ At("session")
        /\ UNCHANGED <<child, verdict, queueVars, pending, stray>>
     \/ /\ child = "none"
        /\ child' = "up"
        /\ At("session")
        /\ UNCHANGED <<verdict, queueVars, pending, stray>>
     \/ /\ child = "none"
        /\ Finish("failed")
        /\ UNCHANGED child
  /\ UNCHANGED <<budget, session, down, wire, native, owed, stopAsked, boundVars>>

\* thread/start or session.create, thread/resume or session.resume, or neither.
\* The model of a Hermes turn may differ from its session's: then a new one is
\* made.  The request may be refused, and is when the child is dead.
RpcSession ==
  /\ provider \in RpcProviders
  /\ turn.step = "session"
  /\ \/ /\ session = "loaded" \/ child = "up"
        /\ session' = "loaded"
        /\ At("submit")
        /\ UNCHANGED <<verdict, queueVars, pending, stray>>
     \/ /\ session # "loaded" \/ provider = "hermes"
        /\ session' \in (IF provider = "hermes" THEN {session, "none"} ELSE {session})
        /\ Finish("failed")
  /\ UNCHANGED <<budget, down, childVars, boundVars>>

\* turn/start or prompt.submit.  The queue and its listeners are there before the
\* request is sent.  A Hermes turn that was interrupted by then is not submitted.
RpcSubmit ==
  LET t == turn.id IN
  /\ provider \in RpcProviders
  /\ turn.step = "submit" /\ ~turn.call
  /\ IF child # "up"
     THEN Finish("failed") /\ UNCHANGED <<native, owed, stopAsked>>
     ELSE /\ queue' = NewQueue
          /\ IF provider = "hermes" /\ Aborted
             THEN /\ At("stopping")
                  /\ owed' = owed \cup {<<t, "stop">>}
                  /\ stopAsked' = stopAsked \cup {t}
                  /\ UNCHANGED native
             ELSE /\ turn' = [turn EXCEPT !.call = TRUE]
                  /\ owed' = owed \cup {<<t, "start">>}
                  /\ Set(t, "working", "none")
                  /\ UNCHANGED stopAsked
          /\ UNCHANGED <<verdict, pushed, got, pending, stray>>
  /\ UNCHANGED <<budget, session, down, child, wire, boundVars>>

\* The turns interruptTurn knows: Codex's from the reply to turn/start on.
Interruptible ==
  IF provider = "codex" THEN {"stopping", "stream"} ELSE {"submit", "stopping", "stream"}

\* interrupt of the coordinator: the abort listener asks the child to stop, and
\* nobody handles the rejection of that request.
RpcInterrupt ==
  LET t == turn.id IN
  /\ provider \in RpcProviders
  /\ t # 0 /\ ~Aborted
  /\ turn' = [turn EXCEPT !.aborted = turn.step]
  /\ IF turn.step \in Interruptible /\ queue.state # "none"
     THEN /\ stopAsked' = stopAsked \cup {t}
          /\ IF child = "up" THEN owed' = owed \cup {<<t, "stop">>} /\ UNCHANGED down
                             ELSE down' = TRUE /\ UNCHANGED owed
     ELSE UNCHANGED <<stopAsked, owed, down>>
  /\ UNCHANGED <<budget, verdict, queueVars, session, pending, child, wire,
                 native, stray, boundVars>>

\* handleExit: what is requested is rejected, and the queue of a turn that waits
\* for notifications hears nothing.  A request of the abort listener has nobody
\* to take its rejection.
RpcExit ==
  /\ provider \in RpcProviders
  /\ child = "up"
  /\ deaths < MaxDeaths /\ deaths' = deaths + 1
  /\ ChildGone("exited")
  /\ down' = (\E t \in Turn : <<t, "stop">> \in owed
                                /\ ~(t = turn.id /\ turn.step = "stopping"))
  /\ IF turn.call \/ turn.step = "stopping"
     THEN Finish("failed")
     ELSE UNCHANGED <<turn, verdict, queueVars, pending, stray>>
  /\ UNCHANGED <<budget, session, lines>>

\* The timer of a request: to start the turn or, awaited, to stop it, or to stop
\* one for the abort listener.
RpcTimesOut ==
  /\ provider \in RpcProviders
  /\ \/ /\ turn.call \/ turn.step = "stopping"
        /\ Finish("failed")
        /\ UNCHANGED down
     \/ /\ turn.step # "stopping"
        /\ \E t \in Turn : <<t, "stop">> \in owed
        /\ down' = TRUE
        /\ UNCHANGED <<turn, verdict, queueVars, pending, stray>>
  /\ UNCHANGED <<budget, session, childVars, boundVars>>

-----------------------------------------------------------------------------
\* The lines of the child.

Read == wire # <<>> /\ wire' = Tail(wire)
readOnly == <<budget, session, child, native, boundVars>>

Listens == queue.state # "none"

\* Mutant: events are told apart by their thread alone.
OfThread(l) == TRUE

\* belongsToTurn: until the reply to turn/start names the native turn, and for a
\* turn/completed, whose parameters name none, the thread decides.
BelongsToTurn(l) == turn.step = "submit" \/ l.kind = "done" \/ l.turn = turn.id

\* An approval request that can be registered is pushed, another fails the turn.
TakesRequest(l, e) ==
  LET p == [turn |-> turn.id, ask |-> l.ask, of |-> l.turn] IN
  IF (\E q \in pending : q.ask = l.ask) \/ Cardinality(pending) >= MaxPending
  THEN QueueFails /\ UNCHANGED pending
  ELSE pending' = pending \cup {p} /\ Pushes(e)

\* mapNotification and mapApprovalRequest, handleNotification at Hermes, whose
\* message.complete is pushed before the queue ends.
Notifies(l) ==
  LET e == [l EXCEPT !.early = turn.step = "submit"] IN
  CASE l.kind = "text"  -> Pushes(e) /\ UNCHANGED pending
    [] l.kind = "ask"   -> TakesRequest(l, e)
    [] l.kind = "error" -> QueueFails /\ UNCHANGED pending
    [] l.kind = "done" /\ provider = "codex" -> QueueEnds /\ UNCHANGED pending
    [] l.kind = "done" /\ provider = "hermes" ->
         /\ queue' = End(Push(queue, e))
         /\ pushed' = IF queue.state = "open" /\ (queue.waits \/ ~Full(queue))
                      THEN Append(pushed, e) ELSE pushed
         /\ UNCHANGED <<got, pending>>

Notification ==
  LET l == Head(wire) IN
  /\ provider \in RpcProviders
  /\ Read
  /\ l.kind \in {"text", "ask", "error", "done"}
  /\ IF Listens /\ (provider = "codex" => BelongsToTurn(l))
     THEN Notifies(l) ELSE UNCHANGED <<queueVars, pending>>
  /\ UNCHANGED <<turn, verdict, down, owed, stopAsked, stray, readOnly>>

\* Mutant: the signal is not looked at after turn/start.
SignalForgotten == FALSE

MadeUpFor == provider = "codex" /\ Aborted

\* The reply to turn/start: an interrupt that came before it is made up for.
StartReply ==
  LET l == Head(wire)  t == turn.id IN
  /\ provider \in RpcProviders
  /\ Read
  /\ l.kind \in {"reply", "refusal"}
  /\ CASE ~(turn.call /\ l.turn = t) ->
            UNCHANGED <<turn, verdict, queueVars, pending, stray, owed, stopAsked, down>>
       [] turn.call /\ l.turn = t /\ l.kind = "refusal" ->
            Finish("failed") /\ UNCHANGED <<owed, stopAsked, down>>
       [] turn.call /\ l.turn = t /\ l.kind = "reply" ->
            /\ IF ~MadeUpFor
               THEN /\ At("stream")
                    /\ UNCHANGED <<owed, stopAsked, verdict, queueVars, pending, stray>>
               ELSE IF child # "up"
               THEN Finish("failed") /\ UNCHANGED <<owed, stopAsked>>
               ELSE /\ At("stopping")
                    /\ stopAsked' = stopAsked \cup {t}
                    /\ owed' = owed \cup {<<t, "stop">>}
                    /\ UNCHANGED <<verdict, queueVars, pending, stray>>
            /\ UNCHANGED down
  /\ UNCHANGED readOnly

\* The reply to a request to stop.  At Hermes it fails the queue of the turn that
\* was to stop.
StopReply ==
  LET l == Head(wire)  t == turn.id
      awaited == l.turn = t /\ turn.step = "stopping"
  IN
  /\ provider \in RpcProviders
  /\ Read
  /\ l.kind \in {"stopped", "unstopped"}
  /\ IF l.kind = "unstopped"
     THEN IF awaited THEN Finish("failed") /\ UNCHANGED down
          ELSE /\ down' = TRUE
               /\ UNCHANGED <<turn, verdict, queueVars, pending, stray>>
     ELSE /\ IF awaited THEN At("stream") ELSE UNCHANGED turn
          /\ IF provider = "hermes" /\ l.turn = t
             THEN QueueFails ELSE UNCHANGED queueVars
          /\ UNCHANGED <<verdict, pending, stray, down>>
  /\ UNCHANGED <<owed, stopAsked, readOnly>>

NoLongerPending(p) == pending \ {p}

\* respondToApproval: the request is no longer pending once it is answered.
RpcRespond(p) ==
  /\ provider \in RpcProviders
  /\ p \in pending
  /\ pending' = NoLongerPending(p)
  /\ IF child = "up" THEN Answered(p) ELSE UNCHANGED native
  /\ UNCHANGED <<budget, turn, verdict, queueVars, session, down, child,
                 wire, owed, stopAsked, stray, boundVars>>
=============================================================================
