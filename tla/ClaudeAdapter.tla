--------------------------- MODULE ClaudeAdapter ---------------------------
(***************************************************************************)
(* The adapter of Claude Code: a child per conversation, replaced when it  *)
(* is no longer running, which is written prompts and read lines, and a    *)
(* permission bridge per child (claude-permission-bridge.ts), over which   *)
(* it asks for approval and waits for the answer.                          *)
(***************************************************************************)
EXTENDS ProviderStream

Claude == provider = "claude"

\* `running` of the process: a child that was killed by somebody else has no exit
\* code, and counts as running.
IsRunning == child \in {"up", "signalled"}

Reusable == IsRunning

\* ensureSession.  The bridge of the replaced child is closed, which denies what
\* is pending on it, and lines of that child go nowhere.
EnsureSession ==
  /\ Claude
  /\ turn.step = "process"
  /\ \/ /\ Reusable
        /\ At("submit")
        /\ UNCHANGED <<verdict, queueVars, session, pending, childVars, stray>>
     \/ /\ ~Reusable \/ child = "up"  \* another model
        /\ wire' = <<>> /\ owed' = {}
        /\ native' = [t \in Turn |-> IF Running(t) THEN [state |-> "over", ask |-> "none"]
                                                   ELSE native[t]]
        /\ UNCHANGED <<session, stopAsked>>
        /\ \/ /\ child' = "up"
              /\ At("submit")
              /\ pending' = {} /\ stray' = {}
              /\ UNCHANGED <<verdict, queueVars>>
           \/ /\ child' = "none"
              /\ turn' = Idle
              /\ verdict' = [verdict EXCEPT ![turn.id] = "failed"]
              /\ pending' = {} /\ stray' = {}
              /\ UNCHANGED queueVars
  /\ UNCHANGED <<budget, down, boundVars>>

\* The prompt is written to the queue's child: to one that is gone it cannot be.
ClaudeSubmit ==
  /\ Claude
  /\ turn.step = "submit"
  /\ IF child # "up"
     THEN Finish("failed") /\ UNCHANGED native
     ELSE /\ queue' = NewQueue
          /\ At("stream")
          /\ Set(turn.id, "working", "none")
          /\ UNCHANGED <<verdict, pushed, got, pending, stray>>
  /\ UNCHANGED <<budget, session, down, child, wire, owed, stopAsked, boundVars>>

\* An interrupt fails the queue and kills the child.  Before the turn is known to
\* the adapter it does nothing, and nobody looks at the signal later.
ClaudeInterrupt ==
  LET t == turn.id IN
  /\ Claude
  /\ t # 0 /\ ~Aborted
  /\ turn' = [turn EXCEPT !.aborted = turn.step]
  /\ IF turn.step = "stream"
     THEN /\ QueueFails
          /\ stopAsked' = stopAsked \cup {t}
          /\ child' = IF child = "up" THEN "killed" ELSE child
     ELSE UNCHANGED <<queueVars, stopAsked, child>>
  /\ UNCHANGED <<budget, verdict, session, pending, down, wire, native, owed,
                 stray, boundVars>>

\* Mutant: the queue does not hear of the exit.
ExitUnheard == UNCHANGED queueVars

ExitHeard == QueueFails

\* onExit fails the queue and closes the bridge.
ClaudeExit ==
  /\ Claude
  /\ \/ /\ child = "up"
        /\ deaths < MaxDeaths /\ deaths' = deaths + 1
        /\ ChildGone("exited") \/ ChildGone("signalled")
     \/ /\ child = "killed"
        /\ ChildGone("none")
        /\ UNCHANGED deaths
  /\ pending' = {}
  /\ ExitHeard
  /\ UNCHANGED <<budget, turn, verdict, session, down, stray,
                 lines>>

-----------------------------------------------------------------------------
\* handleLine; a malformed line fails the queue as an error does.
ClaudeLine ==
  LET l == Head(wire) IN
  /\ Claude
  /\ wire # <<>> /\ wire' = Tail(wire)
  /\ l.kind \in {"text", "error", "done"}
  /\ IF queue.state = "none"
     THEN UNCHANGED queueVars
     ELSE CASE l.kind = "text"  -> Pushes(l)
            [] l.kind = "error" -> QueueFails
            [] l.kind = "done"  -> QueueEnds
  /\ UNCHANGED <<budget, turn, verdict, session, pending, down, child,
                 native, owed, stopAsked, stray, boundVars>>

\* accept of the bridge.  A request beyond the limit or with the identifier of a
\* pending one is denied by closing its socket.
ClaudeAsks ==
  LET l == Head(wire)  p == [turn |-> l.turn, ask |-> l.ask, of |-> l.turn] IN
  /\ Claude
  /\ wire # <<>> /\ wire' = Tail(wire)
  /\ l.kind = "ask"
  /\ IF ~Running(l.turn) \/ (\E q \in pending : q.ask = l.ask)
          \/ Cardinality(pending) >= MaxPending
     THEN /\ IF Running(l.turn) THEN Set(l.turn, "working", "none") ELSE UNCHANGED native
          /\ UNCHANGED <<queueVars, pending>>
     ELSE /\ pending' = pending \cup {p}
          /\ IF queue.state = "none" THEN UNCHANGED queueVars ELSE Pushes(l)
          /\ UNCHANGED native
  /\ UNCHANGED <<budget, turn, verdict, session, down, child, owed,
                 stopAsked, stray, boundVars>>

\* respondToApproval of an active turn, or the timer of the request, which denies
\* it: nobody else answers.
ClaudeRespond(p) ==
  /\ Claude
  /\ p \in pending
  /\ pending' = pending \ {p}
  /\ Answered(p)
  /\ UNCHANGED <<budget, turn, verdict, queueVars, session, down, child,
                 wire, owed, stopAsked, stray, boundVars>>
=============================================================================
