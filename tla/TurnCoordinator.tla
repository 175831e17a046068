--------------------------- MODULE TurnCoordinator ---------------------------
(***************************************************************************)
(* ConversationCoordinator of the daemon: submitMessage, switchProvider    *)
(* and interrupt, run concurrently on one Node event loop over the         *)
(* canonical SQLite store, with daemon crashes.                            *)
(*                                                                         *)
(* A request advances from one await to the next; what runs between two    *)
(* awaits is split into one step per SQLite commit, so that a crash can    *)
(* fall between two commits, while LoopFree keeps every other handler off  *)
(* the event loop until the handler reaches its next await.                *)
(*                                                                         *)
(* A turn is named by the request that creates it (a request creates at    *)
(* most one).  The event log keeps the event types the properties tell     *)
(* apart; checkpoint, policy, redaction, interrupt and handoff events are  *)
(* left out, and so are approvals and provider bindings.                   *)
(***************************************************************************)
EXTENDS Integers, Sequences

CONSTANTS
  Request,       \* calls of submitMessage
  Conversation,
  Project,
  Provider,
  Switch,        \* calls of switchProvider
  Message,       \* clientMessageId values
  Body,          \* what requestHash digests
  ConvOf,        \* [Request -> Conversation]
  MessageOf,     \* [Request -> Message]
  BodyOf,        \* [Request -> Body]
  ProjectOf,     \* [Conversation -> Project]
  SwitchConv,    \* [Switch -> Conversation]
  Overlap,       \* projects whose worktrees are the same or nested
  None,          \* no turn, no record, no provider
  MaxCrashes     \* bound: crashes of the daemon in one behaviour

ASSUME CoordinatorConstants ==
  /\ ConvOf \in [Request -> Conversation]
  /\ MessageOf \in [Request -> Message]
  /\ BodyOf \in [Request -> Body]
  /\ ProjectOf \in [Conversation -> Project]
  /\ SwitchConv \in [Switch -> Conversation]
  /\ Overlap \subseteq Project \X Project
  /\ \A a \in Project : <<a, a>> \in Overlap
  /\ \A a, b \in Project : <<a, b>> \in Overlap => <<b, a>> \in Overlap
  /\ None \notin Request
  /\ None \notin Provider
  /\ None \notin [turn : Request, live : BOOLEAN]
  /\ MaxCrashes \in Nat

VARIABLES
  \* the SQLite store, which survives a crash
  activeProvider,   \* conversations.active_provider
  lease,            \* workspace_leases
  turn,             \* turns.status
  log,              \* the events of each conversation
  response,         \* idempotency_records of scope conversation:<id>:message
  \* the memory of the daemon
  activeTurns,      \* the map activeTurns
  abort,            \* the AbortController of each turn
  pc,               \* where each submitMessage call is
  cause,            \* the error its catch block handles
  switch,           \* the switchProvider calls
  \* outside
  native,           \* turns whose provider process is at work in the worktree
  crashes

store == <<activeProvider, lease, turn, log, response>>
memory == <<activeTurns, abort, pc, cause, switch>>
vars == <<activeProvider, lease, turn, log, response, activeTurns, abort, pc,
          cause, switch, native, crashes>>

-----------------------------------------------------------------------------
\* Where a request can be.

\* Awaiting something while it holds no lease: probe and policy, then capacity
\* and the checkpoint that precedes the lease.
Admitting == {"probing", "admitted"}

\* Inside the try block, awaiting: the context socket, the provider stream, the
\* final checkpoint, the checkpoint of the catch block.
Executing == {"context", "streaming", "finalizing", "recovering"}

\* Between two commits of one run of the event loop.
Committing ==
  {"acquired", "released", "completed", "finished", "failed", "failRecorded"}

\* The caller has its answer: the result, the recorded result of an earlier
\* call, an error, an error that says the message may be replayed elsewhere, or
\* a connection cut by a crash.
Answered == {"ok", "prior", "error", "retrySafe", "lost"}

PC == {"new"} \cup Admitting \cup Executing \cup Committing \cup Answered

SwitchPC == {"idle", "probing", "policy", "done"}

TurnStatus == {"none", "running", "completed", "failed", "interrupted"}

Record(S) == [turn : S, live : BOOLEAN]

Key == Conversation \X Message

KeyOf(r) == <<ConvOf[r], MessageOf[r]>>

EventType ==
  {"turn.started", "user.message", "turn.completed", "turn.failed"}

Event == [type : EventType, of : Request]

ScopeOf == [r \in Request |-> ProjectOf[ConvOf[r]]]

L == INSTANCE WorkspaceLeases WITH Turn <- Request, Scope <- Project

-----------------------------------------------------------------------------
\* Helpers.

LoopFree == \A r \in Request : pc[r] \notin Committing

\* The event loop may run this handler next.
Resume(r, at) == pc[r] = at /\ LoopFree

Goto(r, to) == pc' = [pc EXCEPT ![r] = to]

Logged(r, type) ==
  \E i \in DOMAIN log[ConvOf[r]] : log[ConvOf[r]][i] = [type |-> type, of |-> r]

AppendEvent(r, type) ==
  log' = [log EXCEPT ![ConvOf[r]] = Append(@, [type |-> type, of |-> r])]

\* A mutated AppendUserMessage: the flag userMessageAppended is not kept.
AppendUserMessageAgain(r) == AppendEvent(r, "user.message")

\* appendUserMessage: once per turn, at the first provider event that is not a
\* session binding, and at the latest when the stream ends.
AppendUserMessage(r) ==
  IF Logged(r, "user.message") THEN UNCHANGED log ELSE AppendEvent(r, "user.message")

\* finalize refuses a stale lease before it awaits the checkpoint, so the catch
\* block awaits its own finalize only over a live one.
Throw(r, why) ==
  /\ cause' = [cause EXCEPT ![r] = why]
  /\ Goto(r, IF lease[r] = "live" THEN "recovering" ELSE "failed")

\* A mutated Answer: an error path forgets activeTurns.delete.
AnswerKeepingEntry(r, how) ==
  /\ Goto(r, how)
  /\ activeTurns' = IF how = "error" THEN activeTurns
                     ELSE [activeTurns EXCEPT ![ConvOf[r]] = None]
  /\ abort' = [abort EXCEPT ![r] = FALSE]
  /\ cause' = [cause EXCEPT ![r] = "none"]

\* The finally block; the call's own AbortController and error go with it.
Answer(r, how) ==
  /\ Goto(r, how)
  /\ activeTurns' = [activeTurns EXCEPT ![ConvOf[r]] = None]
  /\ abort' = [abort EXCEPT ![r] = FALSE]
  /\ cause' = [cause EXCEPT ![r] = "none"]

-----------------------------------------------------------------------------
Init ==
  /\ activeProvider \in [Conversation -> Provider \cup {None}]
  /\ L!Init
  /\ turn = [r \in Request |-> "none"]
  /\ log = [c \in Conversation |-> <<>>]
  /\ response = [k \in Key |-> None]
  /\ activeTurns = [c \in Conversation |-> None]
  /\ abort = [r \in Request |-> FALSE]
  /\ pc = [r \in Request |-> "new"]
  /\ cause = [r \in Request |-> "none"]
  /\ switch = [s \in Switch |-> [pc |-> "idle", target |-> None]]
  /\ native = {}
  /\ crashes = 0

-----------------------------------------------------------------------------
\* submitMessage.

\* Up to the first await.  A message for another provider than the active one
\* is refused; either way the comparison is never made again.
Submit(r) ==
  /\ Resume(r, "new")
  /\ \E p \in Provider :
       Goto(r, IF p = activeProvider[ConvOf[r]] THEN "probing" ELSE "error")
  /\ UNCHANGED <<store, activeTurns, abort, cause, switch, native, crashes>>

\* The provider is unavailable, its policy revision is not the one the client
\* displayed, the conversation has an active turn, or the message id was used
\* for another body.
Reject(r) ==
  /\ Resume(r, "probing")
  /\ Goto(r, "error")
  /\ UNCHANGED <<store, activeTurns, abort, cause, switch, native, crashes>>

Recorded(k) == response[k] # None /\ response[k].live

AnswerPrior(r) ==
  /\ Resume(r, "probing")
  /\ activeTurns[ConvOf[r]] = None
  /\ Recorded(KeyOf(r))
  /\ BodyOf[response[KeyOf(r)].turn] = BodyOf[r]
  /\ Goto(r, "prior")
  /\ UNCHANGED <<store, activeTurns, abort, cause, switch, native, crashes>>

Admit(r) ==
  /\ Resume(r, "probing")
  /\ activeTurns[ConvOf[r]] = None
  /\ ~Recorded(KeyOf(r))
  /\ Goto(r, "admitted")
  /\ UNCHANGED <<store, activeTurns, abort, cause, switch, native, crashes>>

\* A mutated Refuse: a message to a worktree with a lease waits for its release.
RefuseWithoutConflict(r) ==
  /\ Resume(r, "admitted")
  /\ \A s \in Request \ {r} : ~(L!Held(s) /\ L!Contend(r, s))
  /\ Goto(r, "retrySafe") \/ Goto(r, "error")
  /\ UNCHANGED <<store, activeTurns, abort, cause, switch, native, crashes>>

\* Capacity is exhausted (the client may replay the message elsewhere), the
\* checkpoint fails, or the lease conflicts.
Refuse(r) ==
  /\ Resume(r, "admitted")
  /\ Goto(r, "retrySafe") \/ Goto(r, "error")
  /\ UNCHANGED <<store, activeTurns, abort, cause, switch, native, crashes>>

\* The lease and, with no await in between, the entry of activeTurns, which is
\* set without looking at it again.
AcquireLease(r) ==
  /\ Resume(r, "admitted")
  /\ L!Acquire(r)
  /\ activeTurns' = [activeTurns EXCEPT ![ConvOf[r]] = r]
  /\ Goto(r, "acquired")
  /\ UNCHANGED <<activeProvider, turn, log, response, abort, cause, switch,
                 native, crashes>>

StartTurn(r) ==
  /\ pc[r] = "acquired"
  /\ turn' = [turn EXCEPT ![r] = "running"]
  /\ Goto(r, "context")
  /\ UNCHANGED <<activeProvider, lease, log, response, activeTurns, abort, cause, switch,
                 native, crashes>>

ContextFails(r) ==
  /\ Resume(r, "context")
  /\ Throw(r, "other")
  /\ UNCHANGED <<store, activeTurns, abort, switch, native, crashes>>

OpenStream(r) ==
  /\ Resume(r, "context")
  /\ AppendEvent(r, "turn.started")
  /\ native' = native \cup {r}
  /\ Goto(r, "streaming")
  /\ UNCHANGED <<activeProvider, lease, turn, response, activeTurns, abort, cause, switch,
                 crashes>>

\* The first event that shows the provider at work.
ProviderActivity(r) ==
  /\ Resume(r, "streaming")
  /\ ~Logged(r, "user.message")
  /\ AppendUserMessage(r)
  /\ UNCHANGED <<activeProvider, lease, turn, response, memory, native, crashes>>

\* A mutated StreamEnd: a stale lease is not finalized, and the turn completes.
StreamEndSkippingStale(r) ==
  /\ Resume(r, "streaming")
  /\ AppendUserMessage(r)
  /\ native' = native \ {r}
  /\ Goto(r, IF lease[r] = "live" THEN "finalizing" ELSE "released")
  /\ UNCHANGED <<activeProvider, lease, turn, response, activeTurns, abort, cause, switch,
                 crashes>>

\* The stream ends because the provider reported the end of its turn.
StreamEnd(r) ==
  /\ Resume(r, "streaming")
  /\ AppendUserMessage(r)
  /\ native' = native \ {r}
  /\ IF lease[r] = "live"
       THEN Goto(r, "finalizing") /\ UNCHANGED cause
       ELSE Throw(r, "other")
  /\ UNCHANGED <<activeProvider, lease, turn, response, activeTurns, abort, switch,
                 crashes>>

\* The stream throws: a full event queue, an invalid approval request, an
\* output limit, an exhausted capacity, an interrupt.  The provider may still
\* be at work: the adapters fail the queue without stopping it, and Claude's
\* interruptTurn fails the queue before it terminates the process.
StreamFail(r) ==
  /\ Resume(r, "streaming")
  /\ \E why \in {"capacity", "other"} : Throw(r, why)
  /\ native' \in {native, native \ {r}}
  /\ UNCHANGED <<store, activeTurns, abort, switch, crashes>>

\* A mutated Finalize: finishTurn runs before turn.completed is appended.
FinalizeFinishingFirst(r) ==
  /\ Resume(r, "finalizing")
  /\ L!Release(r)
  /\ turn' = [turn EXCEPT ![r] = "completed"]
  /\ Goto(r, "released")
  /\ UNCHANGED <<activeProvider, log, response, activeTurns, abort, cause, switch,
                 native, crashes>>

\* finalize after its checkpoint: the row is deleted even if it went stale
\* while the checkpoint ran.
Finalize(r) ==
  /\ Resume(r, "finalizing")
  /\ L!Release(r)
  /\ Goto(r, "released")
  /\ UNCHANGED <<activeProvider, turn, log, response, activeTurns, abort, cause, switch,
                 native, crashes>>

FinalizeFails(r) ==
  /\ Resume(r, "finalizing")
  /\ Throw(r, "other")
  /\ UNCHANGED <<store, activeTurns, abort, switch, native, crashes>>

AppendCompleted(r) ==
  /\ pc[r] = "released"
  /\ AppendEvent(r, "turn.completed")
  /\ Goto(r, "completed")
  /\ UNCHANGED <<activeProvider, lease, turn, response, activeTurns, abort, cause, switch,
                 native, crashes>>

FinishCompleted(r) ==
  /\ pc[r] = "completed"
  /\ turn' = [turn EXCEPT ![r] = "completed"]
  /\ Goto(r, "finished")
  /\ UNCHANGED <<activeProvider, lease, log, response, activeTurns, abort, cause, switch,
                 native, crashes>>

\* A mutated PutResponse: INSERT OR REPLACE.
PutResponseReplacing(r) ==
  /\ pc[r] = "finished"
  /\ response' = [response EXCEPT ![KeyOf(r)] = [turn |-> r, live |-> TRUE]]
  /\ Answer(r, "ok")
  /\ UNCHANGED <<activeProvider, lease, turn, log, switch, native, crashes>>

\* The table's primary key is (scope, key), expired records included: a second
\* insert throws into the catch block of a turn that is already completed.
PutResponse(r) ==
  /\ pc[r] = "finished"
  /\ IF response[KeyOf(r)] = None
       THEN /\ response' = [response EXCEPT ![KeyOf(r)] = [turn |-> r, live |-> TRUE]]
            /\ Answer(r, "ok")
       ELSE /\ cause' = [cause EXCEPT ![r] = "other"]
            /\ Goto(r, "failed")
            /\ UNCHANGED <<response, activeTurns, abort>>
  /\ UNCHANGED <<activeProvider, lease, turn, log, switch, native, crashes>>

\* The catch block.
Recover(r) ==
  /\ Resume(r, "recovering")
  /\ L!Release(r)
  /\ Goto(r, "failed")
  /\ UNCHANGED <<activeProvider, turn, log, response, activeTurns, abort, cause, switch,
                 native, crashes>>

\* reconciliationRequired: the lease stays.
RecoverFails(r) ==
  /\ Resume(r, "recovering")
  /\ Goto(r, "failed")
  /\ UNCHANGED <<store, activeTurns, abort, cause, switch, native, crashes>>

AppendFailed(r) ==
  /\ pc[r] = "failed"
  /\ AppendEvent(r, "turn.failed")
  /\ Goto(r, "failRecorded")
  /\ UNCHANGED <<activeProvider, lease, turn, response, activeTurns, abort, cause, switch,
                 native, crashes>>

\* finishTurn updates a running row only; on any other it throws a plain error.
FinishFailed(r) ==
  /\ pc[r] = "failRecorded"
  /\ IF turn[r] = "running"
       THEN /\ turn' = [turn EXCEPT ![r] = IF abort[r] THEN "interrupted" ELSE "failed"]
            /\ Answer(r, IF cause[r] = "capacity" /\ ~Logged(r, "user.message")
                           THEN "retrySafe" ELSE "error")
       ELSE UNCHANGED turn /\ Answer(r, "error")
  /\ UNCHANGED <<activeProvider, lease, log, response, switch, native, crashes>>

-----------------------------------------------------------------------------
\* The lease clock, the heartbeat and the interrupt.

Expire(r) ==
  /\ LoopFree
  /\ L!Expire(r)
  /\ UNCHANGED <<activeProvider, turn, log, response, memory, native, crashes>>

\* The interval aborts the turn when the heartbeat throws on a stale lease.
Heartbeat(r) ==
  /\ LoopFree
  /\ pc[r] \in Executing
  /\ lease[r] # "live"
  /\ ~abort[r]
  /\ abort' = [abort EXCEPT ![r] = TRUE]
  /\ UNCHANGED <<store, activeTurns, pc, cause, switch, native, crashes>>

\* interrupt: the abort signal; the event it appends once the adapter has
\* answered is among those left out.
Interrupt(c) ==
  /\ LoopFree
  /\ activeTurns[c] # None
  /\ abort' = [abort EXCEPT ![activeTurns[c]] = TRUE]
  /\ UNCHANGED <<store, activeTurns, pc, cause, switch, native, crashes>>

-----------------------------------------------------------------------------
\* switchProvider.

At(s, at) == switch[s].pc = at /\ LoopFree

SwitchTo(s, to) == switch' = [switch EXCEPT ![s].pc = to]

SwitchProvider(s) ==
  /\ At(s, "idle")
  /\ activeTurns[SwitchConv[s]] = None
  /\ \E p \in Provider : switch' = [switch EXCEPT ![s] = [pc |-> "probing", target |-> p]]
  /\ UNCHANGED <<store, activeTurns, abort, pc, cause, native, crashes>>

\* Any lease of the project blocks the switch, a stale one too.  This is the
\* last look at leases and turns: the policy is still to be awaited.
CheckLeases(s) ==
  /\ At(s, "probing")
  /\ \A r \in Request : L!Held(r) => ScopeOf[r] # ProjectOf[SwitchConv[s]]
  /\ SwitchTo(s, "policy")
  /\ UNCHANGED <<store, activeTurns, abort, pc, cause, native, crashes>>

SetActiveProvider(s) ==
  /\ At(s, "policy")
  /\ activeProvider' = [activeProvider EXCEPT ![SwitchConv[s]] = switch[s].target]
  /\ SwitchTo(s, "done")
  /\ UNCHANGED <<lease, turn, log, response, activeTurns, abort, pc, cause, native, crashes>>

\* The target is unavailable, the project has a lease, the policy cannot be read.
SwitchFails(s) ==
  /\ At(s, "probing") \/ At(s, "policy")
  /\ SwitchTo(s, "done")
  /\ UNCHANGED <<store, activeTurns, abort, pc, cause, native, crashes>>

-----------------------------------------------------------------------------
\* Outside the event loop.

\* An idempotency record passes its expires_at; nothing deletes its row.
ResponseExpires(k) ==
  /\ LoopFree
  /\ Recorded(k)
  /\ response' = [response EXCEPT ![k].live = FALSE]
  /\ UNCHANGED <<activeProvider, lease, turn, log, memory, native, crashes>>

\* A provider that a failed stream or a crash left at work stops.
NativeStops(r) ==
  /\ pc[r] # "streaming"
  /\ r \in native
  /\ native' = native \ {r}
  /\ UNCHANGED <<store, memory, crashes>>

\* A mutated Crash: startup clears the lease table.
CrashClearingLeases ==
  /\ crashes < MaxCrashes
  /\ crashes' = crashes + 1
  /\ pc' = [r \in Request |-> IF pc[r] \in Answered \cup {"new"} THEN pc[r] ELSE "lost"]
  /\ switch' = [s \in Switch |->
                  IF switch[s].pc = "idle" THEN switch[s] ELSE [switch[s] EXCEPT !.pc = "done"]]
  /\ lease' = [r \in Request |-> "none"]
  /\ activeTurns' = [c \in Conversation |-> None]
  /\ abort' = [r \in Request |-> FALSE]
  /\ cause' = [r \in Request |-> "none"]
  /\ UNCHANGED <<activeProvider, turn, log, response, native>>

\* The daemon dies, between any two commits, and starts again.  Startup reads
\* back none of leases, running turns or handoffs.
Crash ==
  /\ crashes < MaxCrashes
  /\ crashes' = crashes + 1
  /\ pc' = [r \in Request |-> IF pc[r] \in Answered \cup {"new"} THEN pc[r] ELSE "lost"]
  /\ switch' = [s \in Switch |->
                  IF switch[s].pc = "idle" THEN switch[s] ELSE [switch[s] EXCEPT !.pc = "done"]]
  /\ activeTurns' = [c \in Conversation |-> None]
  /\ abort' = [r \in Request |-> FALSE]
  /\ cause' = [r \in Request |-> "none"]
  /\ UNCHANGED <<store, native>>

-----------------------------------------------------------------------------
\* What a request does by itself once it is submitted.
Advance(r) ==
  \/ Reject(r) \/ AnswerPrior(r) \/ Admit(r) \/ Refuse(r) \/ AcquireLease(r)
  \/ StartTurn(r) \/ ContextFails(r) \/ OpenStream(r)
  \/ Finalize(r) \/ FinalizeFails(r) \/ AppendCompleted(r) \/ FinishCompleted(r)
  \/ PutResponse(r)
  \/ Recover(r) \/ RecoverFails(r) \/ AppendFailed(r) \/ FinishFailed(r)

Stream(r) == ProviderActivity(r) \/ StreamEnd(r) \/ StreamFail(r)

Handoff(s) ==
  \/ SwitchProvider(s) \/ CheckLeases(s) \/ SetActiveProvider(s) \/ SwitchFails(s)

Next ==
  \/ \E r \in Request :
       \/ Submit(r) \/ Advance(r) \/ Stream(r)
       \/ Expire(r) \/ Heartbeat(r)
       \/ NativeStops(r)
  \/ \E c \in Conversation : Interrupt(c)
  \/ \E s \in Switch : Handoff(s)
  \/ \E k \in Key : ResponseExpires(k)
  \/ Crash

Spec == Init /\ [][Next]_vars

\* The event loop runs every continuation whose await has settled, and git and
\* the adapters' calls settle; that a provider ends its turn is an assumption.
Fairness ==
  \A r \in Request : WF_vars(Advance(r)) /\ WF_vars(StreamEnd(r) \/ StreamFail(r))

FairSpec == Spec /\ Fairness

-----------------------------------------------------------------------------
\* Properties.

\* The types of all variables.
TypeOK ==
  /\ activeProvider \in [Conversation -> Provider \cup {None}]
  /\ lease \in [Request -> L!LeaseState]
  /\ turn \in [Request -> TurnStatus]
  /\ log \in [Conversation -> Seq(Event)]
  /\ response \in [Key -> Record(Request) \cup {None}]
  /\ activeTurns \in [Conversation -> Request \cup {None}]
  /\ abort \in [Request -> BOOLEAN]
  /\ pc \in [Request -> PC]
  /\ cause \in [Request -> {"none", "capacity", "other"}]
  /\ switch \in [Switch -> [pc : SwitchPC, target : Provider \cup {None}]]
  /\ native \subseteq Request
  /\ crashes \in Nat

\* From the commit of its lease to the release of it.
Writing == Executing \cup {"acquired"}

\* The call is inside its try, catch or finally block.
InFlight == Executing \cup Committing

\* Whatever expires, is interrupted or fails meanwhile, a turn that may write
\* to its worktree has a row in workspace_leases, and no other turn, at work or
\* left behind by a crash, has one for an overlapping worktree.
WritersHoldExclusiveLeases ==
  \A r \in Request :
    pc[r] \in Writing =>
      /\ L!Held(r)
      /\ \A s \in Request \ {r} : L!Held(s) => ~L!Contend(r, s)

\* activeTurns names exactly the turn in flight of each conversation, although
\* submitMessage sets and deletes entries without looking at them: an entry
\* overwritten or deleted by another call would let the heartbeat outlive its
\* turn, an interrupt miss it, and a switch pass it.
ActiveTurnsNameTheTurnInFlight ==
  \A r \in Request : pc[r] \in InFlight <=> activeTurns[ConvOf[r]] = r

\* No turn is reported completed while its lease is still in the table: a crash
\* after the report must not leave a worktree closed behind a finished turn.
CompletedTurnsHoldNoLease ==
  \A r \in Request : Logged(r, "turn.completed") \/ turn[r] = "completed" => ~L!Held(r)

\* At any crash point the rows of a turn say no more than the log: a finished
\* row has its event, a recorded response belongs to a completed turn, and a
\* row still "running" belongs to a call in flight or cut by a crash.
RowsFollowTheLog ==
  /\ \A r \in Request :
       /\ turn[r] = "completed" => Logged(r, "turn.completed")
       /\ turn[r] \in {"failed", "interrupted"} => Logged(r, "turn.failed")
       /\ turn[r] = "running" => pc[r] \in InFlight \cup {"lost"}
  /\ \A k \in Key : response[k] # None => turn[response[k].turn] = "completed"

\* Whoever was answered with a result was answered with the recorded one, of a
\* turn that completed on the same message body; a caller whose own turn ran is
\* the owner of the record for good, whatever calls with the same message id
\* ran beside it, before or after a crash.
AnswersComeFromTheRecord ==
  \A r \in Request : pc[r] \in {"ok", "prior"} =>
    LET e == response[KeyOf(r)] IN
      /\ e # None
      /\ BodyOf[e.turn] = BodyOf[r]
      /\ turn[e.turn] = "completed"
      /\ pc[r] = "ok" => e.turn = r

\* Within a conversation's log every turn reads in order, whichever calls,
\* interrupts and crashes are interleaved: started once, the user's message at
\* most once and after that, the outcome last.
TurnsReadInOrder ==
  \A r \in Request :
    LET l == log[ConvOf[r]]
        Places(type) == {i \in DOMAIN l : l[i] = [type |-> type, of |-> r]}
    IN /\ \A type \in {"turn.started", "user.message", "turn.completed", "turn.failed"} :
            \A i, j \in Places(type) : i = j
       /\ \A i \in Places("user.message") : \E j \in Places("turn.started") : j < i
       /\ \A i \in Places("turn.completed") : \E j \in Places("user.message") : j < i
       /\ \A i \in Places("turn.completed") \cup Places("turn.failed") :
            \A j \in Places("turn.started") \cup Places("user.message") : j < i

\* The turns that may write and the worktrees closed behind turns that ended
\* uncleanly, as the abstract specification sees them.
W == INSTANCE SingleWriter WITH
       Turn <- Request, Scope <- Project,
       writing <- {r \in Request : pc[r] \in Writing},
       quarantined <- {r \in Request : L!Held(r) /\ pc[r] \notin Writing}

\* The coordinator, over leases that expire and a daemon that crashes,
\* implements one writer per worktree with quarantine.
ImplementsSingleWriter == W!Spec

\* "A busy turn or unresolved workspace lease blocks the switch" (SPEC.md:241):
\* the active provider changes only while no turn of the project has a lease.
SwitchOnlyWhenIdle ==
  [][\A c \in Conversation :
       activeProvider'[c] # activeProvider[c] =>
         \A r \in Request : ScopeOf[r] = ProjectOf[c] => ~L!Held(r)]_vars

\* "so a capacity rejection can be switched and retried without duplication"
\* (coordinator.ts:294): a message that one call has brought into the conversation
\* is not brought there again by another call with its id, nor does such a call
\* then say that it may be replayed on another harness.
MessagesComeOnce ==
  [][\A r, s \in Request :
       r # s /\ KeyOf(r) = KeyOf(s) /\ Logged(s, "user.message") =>
         /\ Logged(r, "user.message")' => Logged(r, "user.message")
         /\ pc'[r] = "retrySafe" => pc[r] = "retrySafe"]_vars

\* "A transactional one-writer workspace lease prevents simultaneous EXARCH turns
\* from mutating the same worktree" (SECURITY.md:244): the providers at work in
\* overlapping worktrees number at most one.
OneProviderPerWorktree ==
  \A r, s \in native : r # s => ~L!Contend(r, s)

\* Every call of submitMessage is answered, however it fails, is interrupted or
\* loses its lease, if the provider ends its turn.
RequestsAreAnswered ==
  \A r \in Request : pc[r] = "probing" ~> pc[r] \in Answered

==============================================================================
