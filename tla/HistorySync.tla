---------------------------- MODULE HistorySync ----------------------------
(***************************************************************************)
(* HistorySyncService over the history reader of Claude: the watcher and   *)
(* its debounce, the stale check, the full refresh, the one queue they all *)
(* go through, the fingerprints of the reader and the public status        *)
(* (history-sync.ts, claude-history.ts), composed with the conversation    *)
(* the transcript belongs to.                                              *)
(*                                                                         *)
(* A transcript is the content of its items; each write changes its size   *)
(* or its time, so that a fingerprint is the content it was taken of.  The *)
(* retries on a busy database are the time between the read of the file    *)
(* and the import.  Notices of a file that was read already are left out,  *)
(* as are the readers of the other harnesses, whose files have other       *)
(* conversations.  stopMonitoring is followed by the end of the process.   *)
(***************************************************************************)
EXTENDS ConversationLog

VARIABLES
  prints,    \* the content each fingerprint was taken of
  pending,   \* pendingChanges, with the debounce timer armed while it has a key
  queue,     \* operationQueue: what was accepted and has not started
  operation, \* the operation at work and the content it has read
  status,    \* the public state of the provider's import
  promised   \* history: the transcript when the full refresh at work was accepted

service == <<prints, pending, queue, operation, status, promised>>
vars == <<logVars, service>>

NoContent == [m \in Message |-> 0]
NoOperation == [kind |-> "none", content |-> NoContent]

\* running # null, changeCheckRunning # null.
Accepted(kind) == operation.kind = kind \/ \E i \in DOMAIN queue : queue[i] = kind

\* The daemon starts: startMonitoring and a full refresh.
Init ==
  /\ LogInit
  /\ prints = NoContent
  /\ pending = {}
  /\ queue = <<"full">>
  /\ operation = NoOperation
  /\ status = "running"
  /\ promised = native

-----------------------------------------------------------------------------
\* What asks for an operation.

\* syncAll, by the reconciliation timer or by a client: at most one is accepted
\* at a time, and its state is public at once.
SyncAll ==
  /\ ~Accepted("full")
  /\ queue' = Append(queue, "full")
  /\ status' = "running"
  /\ promised' = native
  /\ UNCHANGED <<logVars, prints, pending, operation>>

\* requestChangeCheckIfStale, when a client lists conversations.
RequestChangeCheck ==
  /\ ~Accepted("check")
  /\ Len(queue) < budget.waiting
  /\ queue' = Append(queue, "check")
  /\ UNCHANGED <<logVars, prints, pending, operation, status, promised>>

\* A watcher reports the file, or that something changed.
QueueHistoryChange(key) ==
  /\ native # prints
  /\ key \notin pending
  /\ pending' = pending \cup {key}
  /\ UNCHANGED <<logVars, prints, queue, operation, status, promised>>

\* The debounce timer: with the key "*" the reader checks all its files.
FlushHistoryChanges ==
  /\ pending # {}
  /\ Len(queue) < budget.waiting
  /\ queue' = Append(queue, IF "*" \in pending THEN "any" ELSE "file")
  /\ pending' = {}
  /\ UNCHANGED <<logVars, prints, operation, status, promised>>

-----------------------------------------------------------------------------
\* Operations, one at a time.

\* A mutated Reads: a full refresh trusts the fingerprints.
ReadsChangedOnly(kind) == kind = "file" \/ native # prints

\* A full refresh and a named change read the file; a check reads it when its
\* fingerprint differs.
Reads(kind) == kind \in {"full", "file"} \/ native # prints

\* A mutated Public: whoever ends last writes the status.
PublicToAll(kind, waiting) == TRUE

\* Whose outcome becomes the public status: a full refresh that was accepted
\* owns it until it ends.
Public(kind, waiting) == kind = "full" \/ \A i \in DOMAIN waiting : waiting[i] # "full"

\* An operation has nothing more to do; those in `waiting' go on.
Ends(kind, waiting, outcome) ==
  /\ operation' = NoOperation
  /\ queue' = waiting
  /\ status' = IF Public(kind, waiting) THEN outcome ELSE status
  /\ promised' = IF kind = "full" THEN NoContent ELSE promised

\* The next operation starts and reads; the fingerprint is taken when the file
\* was read, before anything is imported.
ReadHistory ==
  /\ operation = NoOperation
  /\ queue # <<>>
  /\ Reads(Head(queue)) /\ native # NoContent
  /\ queue' = Tail(queue)
  /\ operation' = [kind |-> Head(queue), content |-> native]
  /\ prints' = native
  /\ UNCHANGED <<logVars, pending, status, promised>>

\* There is no transcript, or none that differs from its fingerprint.
NothingToRead ==
  /\ operation = NoOperation
  /\ queue # <<>>
  /\ ~Reads(Head(queue)) \/ native = NoContent
  /\ Ends(Head(queue), Tail(queue), "complete")
  /\ UNCHANGED <<logVars, prints, pending>>

\* The files cannot be listed or read: the operation ends, and the changes it
\* was to read are forgotten.
ReadFails ==
  /\ operation = NoOperation
  /\ queue # <<>>
  /\ Fault
  /\ Ends(Head(queue), Tail(queue), "failed")
  /\ UNCHANGED <<conversation, prints, pending>>

\* The thread that was read is imported.
ImportThread ==
  /\ operation # NoOperation
  /\ ImportHistoryThread(operation.content)
  /\ Ends(operation.kind, queue, "complete")
  /\ UNCHANGED <<prints, pending>>

\* The database stays busy through all retries, or refuses the thread: its
\* fingerprint stays all the same.
ImportFails ==
  /\ operation # NoOperation
  /\ Fault
  /\ Ends(operation.kind, queue, "partial")
  /\ UNCHANGED <<conversation, prints, pending>>

\* The daemon dies and starts again.
Restart ==
  /\ Fault
  /\ LoseTurn
  /\ calls' = (IF source THEN {Reading} ELSE {})
  /\ handoff' = "none"
  /\ prints' = NoContent
  /\ pending' = {}
  /\ queue' = <<"full">>
  /\ operation' = NoOperation
  /\ status' = "running"
  /\ promised' = native
  /\ UNCHANGED <<author, native, source, log, ledger, active, binding, known>>

-----------------------------------------------------------------------------
\* The conversation goes on beside the service.
Turns ==
  \/ \E call \in calls : SelectContext(call)
  \/ BindSession \/ ReplaceSession \/ Accept \/ RecordMessage \/ Complete
  \/ Fail

Next ==
  \/ TypeNatively /\ UNCHANGED service
  \/ \E m \in Message : NativeWrites(m) /\ UNCHANGED service
  \/ Turns /\ UNCHANGED service
  \/ (Switch \/ SetActiveProvider) /\ UNCHANGED service
  \/ SyncAll
  \/ RequestChangeCheck
  \/ \E key \in {"file", "*"} : QueueHistoryChange(key)
  \/ FlushHistoryChanges
  \/ ReadHistory \/ NothingToRead \/ ReadFails
  \/ ImportThread \/ ImportFails
  \/ Restart

Spec == Init /\ [][Next]_vars

\* The queue goes on, the reconciliation timer fires, and the harness finishes
\* the items it writes.  Watchers, checks and turns owe nothing.
Fairness ==
  /\ WF_vars(ReadHistory \/ NothingToRead)
  /\ WF_vars(ImportThread)
  /\ WF_vars(SyncAll)
  /\ \A m \in Message : WF_vars(NativeWrites(m) /\ UNCHANGED service)

FairSpec == Spec /\ Fairness

-----------------------------------------------------------------------------
\* Properties.

\* "A queued full refresh owns the public status from the moment it is accepted"
\* (history-sync.ts:207): no other operation changes it until the refresh ends,
\* and if it then says "complete", everything the transcript held when the
\* refresh was accepted is in the ledger.
RefreshReportsTheTruth ==
  [][Accepted("full") /\ status' # status =>
       /\ operation.kind = "full" \/ Head(queue) = "full"
       /\ status' = "complete" => \A m \in Message : ledger'[m].version >= promised[m]]_vars

\* The message is in the transcript or was recorded by a turn.
Said(m) == native[m] # 0 \/ \E e \in DOMAIN log : log[e].live /\ log[e].message = m

\* "Repeated refresh does not duplicate events" (SPEC.md:196), and none is lost:
\* whatever reads and imports failed, whether the transcript or the turn was
\* first, the conversation comes to show each message once.
EachMessageShownOnce ==
  <>[](\A text \in {Text(m, 2) : m \in Nearby} :
         Cardinality({e \in DOMAIN log : Shown(e) /\ Spoken(e) = text})
           = Cardinality({m \in Message : Said(m) /\ Text(m, 2) = text}))

============================================================================
