--------------------------- MODULE ProviderStream ---------------------------
(***************************************************************************)
(* What the adapters of the three providers share: the event queue of a    *)
(* turn (async-queue.ts), the child process with its lines                 *)
(* (managed-line-process.ts), the requests on it (json-line-rpc.ts), and   *)
(* the loop of the coordinator that takes the events of one turn at a      *)
(* time.  The child itself is external: what it may say is read off what   *)
(* the adapters do with its lines.                                         *)
(*                                                                         *)
(* A line is named for its sense: "text" stands for any activity, "ask"    *)
(* for a request for approval, "done" for the end of a native turn,        *)
(* "error" for a failure the child reports, and "reply", "refusal",        *)
(* "stopped" and "unstopped" answer a request to start or stop a turn.     *)
(***************************************************************************)
EXTENDS Naturals, Sequences, FiniteSets

CONSTANTS
  MaxTurns,     \* bound: the turns of the conversation, in their order
  Ask,          \* the identifiers a child gives its requests for approval
  MaxBuffered,  \* PROVIDER_EVENT_BUFFER_ITEMS
  MaxPending,   \* PROVIDER_PENDING_APPROVAL_LIMIT
  Budgets,      \* bound: the provider, the turns, the lines of activity and the
                \* unread lines of a behaviour
  MaxDeaths     \* bound: the deaths of a child that nobody asked for

ASSUME StreamConstants ==
  /\ MaxTurns \in Nat
  /\ Budgets \subseteq [provider : {"codex", "hermes", "claude"}, turns : 1 .. MaxTurns,
                        lines : 0 .. 9, wire : 1 .. 9]
  /\ MaxBuffered \in Nat \ {0} /\ MaxPending \in Nat \ {0}
  /\ MaxDeaths \in Nat

Turn == 1 .. MaxTurns

VARIABLES
  budget,
  turn,      \* the generator of startTurn: its turn, its step, whether it waits
             \* for a reply, and the step in which the turn's signal was aborted
  verdict,   \* of each turn
  queue,     \* the event queue of the turn, and the loop that takes from it
  pushed,    \* the events the queue has accepted
  got,       \* the events the loop has taken from it
  session,   \* the native session of the conversation, as the adapter knows it
  pending,   \* the requests for approval that wait, and the native turn of each
  down,      \* the daemon was ended by a rejection nobody handles
  child,     \* the process
  wire,      \* its lines, not read yet
  native,    \* per turn, the child's own: its state, and what it asks
  owed,      \* the requests the child has not replied to
  stopAsked, \* the turns the child was asked or made to stop
  stray,     \* the turns that ended here before they did at the child
  lines, deaths

queueVars == <<queue, pushed, got>>
childVars == <<child, wire, native, owed, stopAsked>>
boundVars == <<lines, deaths>>
vars == <<budget, turn, verdict, queueVars, session, pending, down,
          childVars, stray, boundVars>>

provider == budget.provider

Line(kind, t) == [kind |-> kind, turn |-> t, ask |-> "none", early |-> FALSE]
AskLine(t, a) == [Line("ask", t) EXCEPT !.ask = a]
Idle == [id |-> 0, step |-> "idle", call |-> FALSE, aborted |-> "none"]
Aborted == turn.aborted # "none"
At(step) == turn' = [turn EXCEPT !.step = step, !.call = FALSE]

-----------------------------------------------------------------------------
\* AsyncQueue.  An event goes to the loop that waits for it, else to the buffer.
NoQueue == [state |-> "none", items |-> <<>>, hand |-> <<>>, waits |-> FALSE]
NewQueue == [NoQueue EXCEPT !.state = "open"]

\* Mutant: the end drops what is buffered, as a failure does.
EndDropping(q) ==
  IF q.state # "open" THEN q
  ELSE [q EXCEPT !.state = "ended", !.waits = FALSE, !.items = <<>>]

End(q) == IF q.state # "open" THEN q ELSE [q EXCEPT !.state = "ended", !.waits = FALSE]

Fail(q) ==
  IF q.state # "open" THEN q
  ELSE [q EXCEPT !.state = "failed", !.waits = FALSE, !.items = <<>>]

Full(q) == Len(q.items) >= MaxBuffered

Push(q, e) ==
  CASE q.state # "open" -> q
    [] q.state = "open" /\ q.waits -> [q EXCEPT !.hand = <<e>>, !.waits = FALSE]
    [] q.state = "open" /\ ~q.waits /\ Full(q) -> Fail(q)
    [] OTHER -> [q EXCEPT !.items = Append(@, e)]

\* The event e is pushed to the queue of the turn.
Pushes(e) ==
  LET q == queue IN
  /\ queue' = Push(q, e)
  /\ pushed' = IF q.state = "open" /\ (q.waits \/ ~Full(q))
               THEN Append(pushed, e) ELSE pushed
  /\ UNCHANGED got

QueueEnds == queue' = End(queue) /\ UNCHANGED <<pushed, got>>
QueueFails == queue' = Fail(queue) /\ UNCHANGED <<pushed, got>>

-----------------------------------------------------------------------------
\* The end of startTurn, and the loop of the coordinator.

Unread(t) == \E i \in DOMAIN wire : wire[i].turn = t

\* Mutant: the approvals of a turn outlive it.
AllApprovals(t) == pending

\* The finally blocks of Codex and Hermes; the requests of Claude stay with the
\* permission bridge of its session.
ApprovalsLeft(t) ==
  IF provider = "claude" THEN pending ELSE {p \in pending : p.turn # t}

Finish(v) ==
  LET t == turn.id IN
  /\ turn' = Idle
  /\ verdict' = [verdict EXCEPT ![t] = v]
  /\ queue' = NoQueue
  /\ pending' = ApprovalsLeft(t)
  /\ stray' = IF native[t].state \in {"working", "asking"} \/ Unread(t)
              THEN stray \cup {t} ELSE stray
  /\ pushed' = <<>> /\ got' = <<>>

\* The coordinator runs the turns of a conversation one after another.
StartTurn(t) ==
  /\ turn = Idle
  /\ t <= budget.turns /\ verdict[t] = "none"
  /\ \A u \in Turn : u < t => verdict[u] # "none"
  /\ turn' = [Idle EXCEPT !.id = t, !.step = "process"]
  /\ verdict' = [verdict EXCEPT ![t] = "active"]
  /\ UNCHANGED <<budget, queueVars, session, pending, down, childVars,
                 stray, boundVars>>

\* One round of the loop: the event handed over while it waited, else the next
\* one in the buffer, else the end or the failure, else it waits.
Take ==
  LET q == queue  t == turn.id IN
  /\ turn.step = "stream"
  /\ ~q.waits
  /\ IF q.hand \o q.items # <<>>
     THEN /\ got' = Append(got, Head(q.hand \o q.items))
          /\ queue' = [q EXCEPT !.hand = <<>>,
                                !.items = IF q.hand # <<>> THEN q.items ELSE Tail(@)]
          /\ UNCHANGED <<pushed, turn, verdict, pending, stray>>
     ELSE CASE q.state = "open" ->
                 /\ queue' = [q EXCEPT !.waits = TRUE]
                 /\ UNCHANGED <<pushed, got, turn, verdict, pending, stray>>
            [] q.state = "ended" -> Finish("completed")
            [] q.state = "failed" -> Finish("failed")
  /\ UNCHANGED <<budget, session, down, childVars, boundVars>>

\* The loop throws on an event it has taken: the generator is returned from, and
\* the child is not told.
LeaveLoop ==
  /\ turn.step = "stream" /\ queue.hand # <<>>
  /\ Finish("failed")
  /\ UNCHANGED <<budget, session, down, childVars, boundVars>>

-----------------------------------------------------------------------------
\* The child.

Running(t) == native[t].state \in {"working", "asking"}
Set(t, state, a) == native' = [native EXCEPT ![t] = [state |-> state, ask |-> a]]
Says(l) == child = "up" /\ Len(wire) < budget.wire /\ wire' = Append(wire, l)
childOnly == <<budget, turn, verdict, queueVars, session, pending, down,
               stray>>

NativeSpeaks(t) ==
  /\ lines < budget.lines /\ lines' = lines + 1
  /\ native[t].state = "working"
  /\ \/ Says(Line("text", t)) /\ UNCHANGED native
     \/ Says(Line("error", t)) /\ UNCHANGED native
     \/ Says(Line("error", t)) /\ Set(t, "over", "none")
     \/ \E a \in Ask : Says(AskLine(t, a)) /\ Set(t, "asking", a)
  /\ UNCHANGED <<childOnly, child, owed, stopAsked, deaths>>

NativeEnds(t) ==
  /\ native[t].state \in (IF t \in stopAsked THEN {"working", "asking"} ELSE {"working"})
  /\ Says(Line("done", t))
  /\ Set(t, "over", "none")
  /\ UNCHANGED <<childOnly, child, owed, stopAsked, boundVars>>

\* A request to start a turn may be refused; one to stop it, when it is over.
Replies(t) ==
  /\ \/ /\ <<t, "start">> \in owed
        /\ owed' = owed \ {<<t, "start">>}
        /\ \/ Says(Line("reply", t)) /\ UNCHANGED native
           \/ Says(Line("refusal", t)) /\ Set(t, "over", "none")
     \/ /\ <<t, "stop">> \in owed
        /\ owed' = owed \ {<<t, "stop">>}
        /\ \/ Says(Line("stopped", t))
           \/ native[t].state = "over" /\ Says(Line("unstopped", t))
        /\ UNCHANGED native
  /\ UNCHANGED <<childOnly, child, stopAsked, boundVars>>

\* The process is gone, with everything native in it.
ChildGone(how) ==
  /\ child' = how
  /\ native' = [t \in Turn |-> IF Running(t) THEN [state |-> "over", ask |-> "none"]
                                             ELSE native[t]]
  /\ owed' = {}
  /\ UNCHANGED <<wire, stopAsked>>

\* An answer goes to the native turn that asked, whichever turn it was shown in.
Answered(p) ==
  LET n == native[p.of] IN
  IF n.state = "asking" /\ n.ask = p.ask
  THEN Set(p.of, "working", "none")
  ELSE UNCHANGED native

StreamInit ==
  /\ budget \in Budgets
  /\ turn = Idle
  /\ verdict = [t \in Turn |-> "none"]
  /\ queue = NoQueue
  /\ pushed = <<>> /\ got = <<>>
  /\ session \in (IF provider = "claude" THEN {"none"} ELSE {"none", "known"})
  /\ pending = {} /\ down = FALSE
  /\ child = "none" /\ wire = <<>>
  /\ native = [t \in Turn |-> [state |-> "none", ask |-> "none"]]
  /\ owed = {} /\ stopAsked = {} /\ stray = {}
  /\ lines = 0 /\ deaths = 0

-----------------------------------------------------------------------------
Steps == {"idle", "process", "session", "submit", "stopping", "stream"}

\* Every variable has its type, and no buffer exceeds its limit.
AdapterTypeOK ==
  /\ turn \in [id : Turn \cup {0}, step : Steps, call : BOOLEAN, aborted : Steps \cup {"none"}]
  /\ verdict \in [Turn -> {"none", "active", "completed", "failed"}]
  /\ queue.state \in {"none", "open", "ended", "failed"}
  /\ Len(queue.items) <= MaxBuffered /\ Len(queue.hand) <= 1
  /\ session \in {"none", "known", "loaded"}
  /\ pending \subseteq [turn : Turn, ask : Ask, of : Turn] /\ Cardinality(pending) <= MaxPending
  /\ stopAsked \subseteq Turn /\ stray \subseteq Turn
  /\ child \in {"none", "up", "killed", "exited", "signalled"}
  /\ owed \subseteq Turn \X {"start", "stop"}
  /\ Len(wire) <= budget.wire

\* A turn that completes has delivered every event of its queue, in order, and
\* no turn delivers anything else or out of order, whether an event was handed
\* over or buffered: a consequence of TurnStream, which ProviderAdapters implements.
DeliveredInFull ==
  [][ /\ Len(got) <= Len(pushed) /\ got = SubSeq(pushed, 1, Len(got))
      /\ \A t \in Turn : verdict[t] = "active" /\ verdict'[t] = "completed"
                          => got = pushed ]_vars
=============================================================================
