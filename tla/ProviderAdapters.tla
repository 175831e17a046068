-------------------------- MODULE ProviderAdapters --------------------------
(***************************************************************************)
(* The adapters together: a behaviour is that of one provider, under the   *)
(* loop of the coordinator.                                                *)
(***************************************************************************)
EXTENDS RpcAdapters, ClaudeAdapter

Init == StreamInit

Next ==
  \/ \E t \in Turn : \/ ~down /\ StartTurn(t)
                     \/ ~down /\ NativeSpeaks(t)
                     \/ ~down /\ NativeEnds(t)
                     \/ ~down /\ Replies(t)
  \/ ~down /\ Take
  \/ ~down /\ LeaveLoop
  \/ ~down /\ RpcEnsure
  \/ ~down /\ RpcSession
  \/ ~down /\ RpcSubmit
  \/ ~down /\ RpcInterrupt
  \/ ~down /\ RpcExit
  \/ ~down /\ RpcTimesOut
  \/ ~down /\ Notification
  \/ ~down /\ StartReply
  \/ ~down /\ StopReply
  \/ ~down /\ EnsureSession
  \/ ~down /\ ClaudeSubmit
  \/ ~down /\ ClaudeInterrupt
  \/ ~down /\ ClaudeExit
  \/ ~down /\ ClaudeLine
  \/ ~down /\ ClaudeAsks
  \/ \E p \in pending : ~down /\ RpcRespond(p)
  \/ \E p \in pending : ~down /\ ClaudeRespond(p)

Spec == Init /\ [][Next]_vars

Starts == RpcEnsure \/ RpcSession \/ RpcSubmit \/ EnsureSession \/ ClaudeSubmit
Reads == Notification \/ StartReply \/ StopReply \/ ClaudeLine \/ ClaudeAsks
Answers == \E p \in pending : RpcRespond(p) \/ ClaudeRespond(p)

\* The daemon goes on with a turn and reads what the child writes, an approval is
\* answered or expires after five minutes, a request times out after two, and a
\* child that is killed dies.
FairDaemon ==
  /\ WF_vars(~down /\ Starts) /\ WF_vars(~down /\ Take)
  /\ WF_vars(~down /\ Reads)
  /\ WF_vars(~down /\ Answers) /\ WF_vars(~down /\ RpcTimesOut)
  /\ WF_vars(~down /\ child = "killed" /\ ClaudeExit)

FairSpec == Spec /\ FairDaemon

\* What a turn waits for at its child: one that lives replies, and ends the turns
\* it works on.
FairChild ==
  \A t \in Turn : WF_vars(~down /\ NativeEnds(t)) /\ WF_vars(~down /\ Replies(t))

-----------------------------------------------------------------------------
\* An event of another turn is delivered only when that turn ended here while it
\* went on at a child that is still used, and at Codex only before the native
\* turn is known, or as a completion.
OwnActivity ==
  \A i \in DOMAIN got :
    LET e == got[i] IN
    e.turn # turn.id => e.turn \in stray /\ (provider = "codex" => e.early)

\* The pending requests of Codex and Hermes are those of the active turn, so one
\* turn's unanswered requests do not use up the limit of the next; those of
\* Claude die with the child.
ApprovalsOfActiveTurn ==
  /\ provider # "claude" => \A p \in pending : p.turn = turn.id
  /\ provider = "claude" => (pending # {} => child \in {"up", "killed"})

Event ==
  [kind : {"text", "ask", "done", "error", "reply", "refusal", "stopped", "unstopped"},
   turn : Turn, ask : Ask \cup {"none"}, early : BOOLEAN]

S == INSTANCE TurnStream WITH
       stream <- queue.state, accepted <- pushed, delivered <- got

\* Every step of an adapter, its child and the loop is a step of TurnStream or
\* none: over buffers at their limit, events handed over, interrupts, deaths of
\* the child and loops that are left, turns run one at a time, a stream delivers
\* what it accepted in order, and a turn completes with all of it delivered.
ImplementsTurnStream == S!Spec

\* Every turn ends with a child that works, if the child lives or its adapter
\* notices its death: at Codex and Hermes nothing fails the queue of a turn whose
\* child has died.
TurnsEnd ==
  FairChild =>
    \A t \in Turn :
      verdict[t] = "active" ~>
        \/ verdict[t] # "active" \/ down
        \/ provider # "claude" /\ child = "exited"

\* The turn was interrupted at a time when its adapter hears of it: Claude's has
\* no listener while it makes the session ready, and never looks at the signal.
Interrupted(t) ==
  /\ turn.id = t /\ Aborted
  /\ provider = "claude" => turn.aborted = "stream"

\* An interrupt is heard without the help of a child that says nothing and ends
\* nothing.  A turn of Codex is stopped there or ends, although the interrupt may
\* come before the child has named the turn; one of Hermes or Claude ends.
InterruptsAreHeard ==
  \A t \in Turn :
    /\ Interrupted(t) ~> t \in stopAsked \/ verdict[t] # "active" \/ down
    /\ Interrupted(t) /\ provider # "codex" ~> verdict[t] # "active" \/ down

=============================================================================
