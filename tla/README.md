# A verification project for EXARCH

TLA+ models of the EXARCH daemon, its relay and its phone, TLC runs that check
them on small instances, and TLAPS proofs of their main properties for every
value of the constants. Everything is translated from the code under `src/`;
paths below are relative to it.

## 1. The system

EXARCH runs coding agents ("harnesses": Codex, Claude Code, Hermes) on a Mac and
lets a paired phone and a desktop client drive them. A daemon (Node.js, one event
loop, one SQLite file) owns the canonical conversation; the agents are child
processes; the phone reaches the daemon through an opaque relay.

| Component | State | Operations | Interacts with | What is hard |
|---|---|---|---|---|
| Turn coordinator (`services/daemon/src/coordinator.ts`) | `activeTurns`, `approvalTimers`, one closure per running call | `submitMessage`, `switchProvider`, `interrupt`, `deliverApprovalDecision`, `expireApproval` | store, leases, adapters, API server | several calls interleave at every `await`; commits are separate; a crash can fall between them |
| Workspace leases (`canonical-store.ts` 809-914, `git-workspace-manager.ts`) | `workspace_leases` | acquire, heartbeat, finalize/release, reconcile | coordinator, Git | expiry under a running turn, stale rows, overlapping worktrees |
| Canonical store (`packages/core/src/store`) | events, turns, idempotency records, bindings, approvals, imports, change feed | one SQLite transaction each | every other part | primary keys against expired rows, sequence numbers, corrections of imports |
| Provider adapters (`services/daemon/src/providers`) | sessions, native turns, pending approvals, a bounded event queue per turn | `startTurn`, `interruptTurn`, `respondToApproval` | child processes, coordinator | exits, timeouts, interrupts that miss their turn, a full queue |
| Approvals (coordinator, store, `claude-permission-bridge.ts`) | `approvals` rows, timers, pending requests of the adapters | request, decide, expire, deliver | phone, provider | decision, expiry, end of the turn and restart race over one record |
| Handoff context | provider bindings, `synchronizedThroughSequence` | select context, bind, catch up | adapters, store | a cursor read before awaits and written after them |
| History import (`history/*.ts`) | queue of imports, status, import ledger | full and incremental import | native files, store | coalescing, corrections, failures of one of three sources |
| API server (`api-server.ts`) | event subscriptions, streams | routes, event stream | coordinator, clients | replay then subscribe, back-pressure |
| Device authentication (`device-auth.ts`) | devices, counters, consumed nonces | challenge, verify, revoke | API server | replay over re-registration and restart |
| Context capabilities (`capability.ts`, `context-access.ts`) | process epoch, revoked set | issue, verify, dispose | context CLI | lifetime against the turn |
| Pairing and revocation (`pairing-host.ts`, `setup.ts`, `main.ts`) | invitation, secrets, configuration, pending revocation | pair, unpair, retry | relay, store, keychain | several non-atomic writes |
| Relay (`services/relay/src`) | routes, tickets, revocations on disk | register, connect, forward, revoke | hosts, phones | replaced sockets, tickets issued before a revocation, one temporary file for all writers |
| Relay connection and RPC (`packages/relay/src`, `relay-host-connector.ts`) | pending requests, one encrypted channel | request, respond, reconnect | phone, API server | late responses, reconnection |
| Phone and desktop client (`native/`) | cache, screen, one file per conversation, queued writes | open, synchronize, poll, prefetch, page back, send | API | tasks that go on after an await when another conversation is open; files that lag behind |

Pure functions over paths and text (workspace scope, redaction), platform I/O
(keychain, command-line parsing), cryptography (Noise, signatures, digests) and
views have no protocol state of their own and stay out. `PROJECT.json` lists
every component with its status, and every hazard at its line with the
properties that cover it or the reason why none does.

### What makes each component correct

* Coordinator and leases: at most one turn that may write per worktree; a turn
  that did not end cleanly closes its worktree; the rows, the log, the
  idempotency records and the answers of the clients agree at every commit; a
  message comes into the conversation once, and none that is there is said to be
  safe to retry elsewhere (the code does not keep this: `SameMessage`); every call
  is answered.
* Approvals: nothing is allowed but by a recorded decision; one outcome per
  request, the same in the record, the log and the provider; no outcome is lost.
* Adapters: an interrupt reaches the turn it is meant for; every stream ends; a
  turn that completes delivered every event its queue accepted; one turn's
  pending requests do not use up the limit of the next.
* Handoff context: a provider's cursor passes only what its session contains.
* History import: an item is shown once, by one event of the log; corrections
  append; the public status speaks of the refresh it belongs to.
* Device authentication: a signed request is accepted once, and none after the
  phone was told that it is removed.
* Pairing: no two of the four stores disagree in a way nobody repairs; a removal
  that has begun completes.
* Relay: one holder of each role, informed of its counterpart; a retired route is
  never reachable again; between two starts of the relay a ticket registers once.
* Relay connection: a request of a device is settled once (shown for the
  TypeScript client of `relay-rpc.ts`; the phone has a transport of its own in
  Swift, which is not modelled); the laptop lets go of a connection that is gone.
* Phone: no event is shown, cached or saved under another conversation; the last
  message of the open conversation comes to the screen and stays there.

## 2. The modules

| Module | Component |
|---|---|
| `SingleWriter` | abstract specification: one writer per worktree, with quarantine |
| `WorkspaceLeases` | the lease table, each statement one step |
| `TurnCoordinator` | `submitMessage`, `switchProvider`, `interrupt` over the store, composed with `WorkspaceLeases` by INSTANCE; `W` is the instance of `SingleWriter` it implements |
| `Consent` | abstract specification: record, provider and conversation of one approval move forward only |
| `Approvals` | requests of providers, decisions, expiry, delivery; `G` is the instance of `Consent` it implements |
| `TurnStream` | abstract specification: what `startTurn` promises the coordinator of a turn's events and its end |
| `ProviderStream` | what the adapters share: event queue, child, lines, the coordinator's loop |
| `RpcAdapters`, `ClaudeAdapter` | the adapters of Codex and Hermes, and of Claude Code; both extend `ProviderStream` |
| `ProviderAdapters` | the three together, with fairness and properties; `S` is the instance of `TurnStream` they implement |
| `ConversationLog` | one imported conversation: log, import ledger, bindings, turns, the import transaction |
| `HistorySync` | the import service over it (extends `ConversationLog`) |
| `Pairing` | pairing and removal over four stores |
| `DeviceAccess` | authentication of signed requests over it (extends `Pairing`) |
| `RelayServer` | the relay with its tickets and its revocation file |
| `RemoteCall` | abstract specification: a device's call is carried out at most once and settled once |
| `RelayLink` | the laptop's connector and the device's client over it (extends `RelayServer`); `C` is the instance of `RemoteCall` they implement |
| `MobileReplica` | the phone's copy of the conversations, over the log of the laptop |
| `MC...` | the instances for TLC of `TurnCoordinator`, `Approvals`, `ProviderAdapters`, `HistorySync`, `DeviceAccess`, `RelayLink`, `MobileReplica` |
| `..._proofs` | the theorems about `TurnCoordinator`, `Approvals`, `ProviderAdapters`, `HistorySync`, `Pairing`, `DeviceAccess` (over those of `Pairing`), `RelayLink`, `MobileReplica` |

A definition whose comment begins with "A mutated" or "Mutant" is the wrong
version of the one after it. No specification uses it: it is there to see
that a property would notice the mistake.

### The abstract specifications

Four small modules say what a component promises to a reader who does not want to
know how it keeps it; each has its variables instantiated by expressions over the
state of the detailed module.

* `SingleWriter`, by `TurnCoordinator` over `WorkspaceLeases`: writers of a worktree
  exclude each other, and a worktree whose writer did not end cleanly stays closed.
* `Consent`, by `Approvals`: `Recorded` reads the row (a decided record is its choice),
  `told` is `heard`, `Shown` reads the log. Adapters, timers, bridges, turns and
  crashes are gone; that a decision can fail after the provider received it is
  left (`Fail` does not look at `told`).
* `TurnStream`, by `ProviderAdapters`: `verdict`, the state of the queue, what it accepted
  and what the loop took. Child, lines, buffer, hand-over and limit are gone. The
  coordinator's own model takes more liberty than this: its `StreamEnd` and
  `StreamFail` may come at any time while it streams.
* `RemoteCall`, by `RelayLink`: outcome of each request, which were carried out, which is
  being carried out. Sockets, roles, handshakes, frames and the relay are gone. A
  request that was rejected may still be carried out: the code gives no better.

### Steps, event loop, crashes

The daemon runs handlers to their next `await`. Between two awaits a handler may
commit several SQLite transactions. In `TurnCoordinator` and `Approvals` a step
ends at each commit, so that a crash of the daemon can fall between any two of
them, and `LoopFree` lets no other handler run until the handler reaches its next
await. In the other modules a step is what runs between two awaits (they have at
most one commit or file operation in it). What the event loop does not schedule
(the wall clock, the provider processes, the setup command, a crash) may step at
any time.

### `TurnCoordinator`

A request is one call of `submitMessage`; it names the turn it may create.
`pc[r]` is where the call is: `probing` (await of probe and policy, 172-174),
`admitted` (capacity, checkpoint and lease, 187-204), the executing states
`context`, `streaming`, `finalizing`, `recovering`, the committing states between
two commits, and how it was answered. `ok`, `prior`, `error`, `retrySafe`, `lost`
are the result, the recorded result of an earlier call, an error, an error that
tells the client to replay the message on another harness, a connection cut by a
crash.

| Code | Actions |
|---|---|
| 145-190, admission, idempotency look-up | `Submit`, `Reject`, `AnswerPrior`, `Admit`, `Refuse` |
| 192-257, lease, `activeTurns`, row, context socket | `AcquireLease`, `StartTurn`, `ContextFails` |
| 258-396, the stream | `OpenStream`, `ProviderActivity`, `StreamEnd`, `StreamFail` |
| 397-439, success path, commit by commit | `Finalize`, `FinalizeFails`, `AppendCompleted`, `FinishCompleted`, `PutResponse` |
| 440-506, catch and finally | `Recover`, `RecoverFails`, `AppendFailed`, `FinishFailed`, `Answer` |
| 233-240, 544-559 | `Heartbeat`, `Interrupt`, `Expire` (the lease clock) |
| 509-542 | `SwitchProvider`, `CheckLeases`, `SetActiveProvider`, `SwitchFails` |
| the process | `Crash`, `NativeStops`, `ResponseExpires` |

Abstractions. Time is "live or stale" per lease and per idempotency record. Event
payloads, checkpoint, policy, redaction, interrupt and handoff events are left
out. The await of the context socket is always taken (the code skips it when there
are no context events): a superset of the code's interleavings. Failing SQLite
statements other than the modelled ones are left out. A graceful shutdown
(`main.ts` 177-204) is a stream that fails followed by a crash. All leases are
mutating and a project's directory is constant: no caller does otherwise. The
reconciliation of a stale lease exists in `git-workspace-manager.ts` but nothing
in the daemon calls it.

### `Approvals`

One record per request of a provider. `status`, `choice`, `log` are the store;
`asked`, `deliver`, `expiry` say where the stream loop, `deliverApprovalDecision`
and `expireApproval` are with it; `timers` is `approvalTimers`; `pending` is what
the adapter (or Claude's bridge) still holds; `streaming` the turns being read;
`due` the records whose `expires_at` has passed; `heard` what the provider was
told. Codex and Hermes forget a request when they are called with its answer,
Claude's bridge when the answer is written (`ForgetOnCall`); the bridge also denies
on a timer of its own and when it closes (`BridgeDenies`). `DecideLate` is the
decision that finds `expires_at` passed, marks the row and throws, leaving the rest
to the timer. The event `approval.decided` is split into `approval.decided` and
`approval.expired` by its payload. Signatures and digests are verified before any
of these steps; what the interrupt after a failed delivery achieves is `EndTurn`
or nothing. A provider that offers only a denial is covered by never choosing the
other. After a crash no new turn starts: the requests of turns before and after
a restart have nothing in common.

### `ProviderStream`, `RpcAdapters`, `ClaudeAdapter`, `ProviderAdapters`

A behaviour is that of one provider. Turns follow one another, as the lease
makes them; `turn` is the generator of `startTurn`: which turn, at which of its
awaits (`process`, `session`, `submit`, `stream`, `stopping`), whether it waits for
a reply, whether its signal is aborted. `queue` is the `AsyncQueue`: open, ended or
failed, its buffer, the event handed to a waiting loop, and whether the loop
waits; `Push`, `End`, `Fail` and `Take` are its operations, with the limit and with
the drop of everything buffered on failure. `pushed` and `got` are history: what it
accepted and what the loop took.

The child is external. It works on native turns (`native`), writes lines (`wire`)
and owes replies (`owed`); `stopAsked` are the turns it was asked or made to stop.
A line is named for its sense, as the adapters' switch statements tell them apart.
`stray` are turns that ended here while the child went on with them. `early` marks
a line that Codex read before it knew the native turn.

| Code | Actions |
|---|---|
| `ensureRpc`, session, `turn/start` or `prompt.submit` | `RpcEnsure`, `RpcSession`, `RpcSubmit`, `StartReply` |
| notifications and requests for approval | `Notification`, `RpcRespond` |
| `interruptTurn`, abort listener, its reply | `RpcInterrupt`, `StopReply`, `RpcTimesOut` |
| exit of the child, rejection of what is pending | `RpcExit` |
| Claude's `ensureSession`, prompt, lines, bridge, interrupt, exit | `EnsureSession`, `ClaudeSubmit`, `ClaudeLine`, `ClaudeAsks`, `ClaudeRespond`, `ClaudeInterrupt`, `ClaudeExit` |
| the coordinator's loop | `StartTurn`, `Take`, `LeaveLoop` |
| the child (external) | `NativeSpeaks`, `NativeEnds`, `Replies` |

`down` is the daemon ended by a rejection nobody handles: the abort listener of
Codex and Hermes calls `interruptTurn` and drops its promise.

Abstractions. Bytes are whole lines; `terminate` with its grace period is one
kill; probe, effective policy, models (but for "another model makes another
session or child"), steering, the capacity of a provider and the payload of
events are left out.

### `ConversationLog` and `HistorySync`

One conversation imported from Claude Code that is continued both natively and
in EXARCH, and handed to another harness. A message stands for an item of the
transcript and for the event a turn records of it. An item has version 1 while it
grows or before it is edited, and version 2 then. Messages of one `Class` have
the same text; those of `Nearby` are within the minute in which
`findLiveHistoryMirror` looks. `binding` is `synchronizedThroughSequence`.

A call of `submitMessage` reads the active harness and its cursor (151-163), awaits,
and chooses its context much later (211). How many calls wait is not counted:
`calls` holds what any call may have read in the states the conversation has been
in (`Reading`), since one can come in each of them and wait as long as it likes,
and `SelectContext` takes any of these. `turn` is the one that has the lease. A
switch is two steps, the checks (`Switch`, with the target in `handoff`) and the
commit (`SetActiveProvider`), between which turns start and end. A harness of
`Replacing` (Hermes) may give up its session for an empty one when the model of the
message is another or that of the restored session is unknown
(`hermes-adapter.ts:236-264`): `ReplaceSession` sends `provider.session.bound` again,
moves the cursor to the end of the log and keeps the delta chosen before.

| Code | Actions and operators |
|---|---|
| `submitMessage`: binding, context, session bound, acceptance, message, end | `Reading`, `Begin`, `SelectContext` (`Delta`), `BindSession`, `Accept`, `RecordMessage`, `Complete`, `Fail` |
| `HermesAdapter.startTurn` with another model | `ReplaceSession` |
| `switchProvider` | `Switch`, `SetActiveProvider` |
| `importHistoryThread` and its helpers, one transaction | `ImportHistoryThread`, `ImportItems`, `ImportItem`, `Mirror`, `Link`, `AppendItem` |
| `HistorySyncService` | `SyncAll`, `RequestChangeCheck`, `QueueHistoryChange`, `FlushHistoryChanges`, `ReadHistory`, `NothingToRead`, `ReadFails`, `ImportThread`, `ImportFails` |
| the process, the transcript | `Restart`, `TypeNatively`, `NativeWrites` |

`known` (what a harness's native session contains; nothing, after it was
replaced), `missed` (the messages a cursor may have passed unheard, see the
exceptions below) and `promised` (the transcript when a full refresh was accepted)
are history variables. A fingerprint is the content it was taken of. What a cursor
has passed should be in the native session of its harness, or shown no more because
the import gave its item another event (`Superseded`); `PassedUnheard` are the
messages of which neither is true. The cap of a hundred
events of a delta, titles, redaction items, other event types, and the readers of Codex and
Hermes are left out: their files belong to other conversations.

### `Pairing` and `DeviceAccess`

Four stores have to agree and no transaction spans them: `config.json` (`config`),
the Keychain account with the host's credential (`credential`), the devices table
(`device`) and the routes the relay retired (`retired`). The parties that write
them are the API requests of phones, `Completer` (`finishPairingRevocation` of the
daemon) and `Setup` (a setup command, another process with its own copy of the
configuration). `job[x]` is where a party is between two awaits.

| Code | Actions |
|---|---|
| `bootstrapPairing`, `PairingHost.accept` | `BootstrapPairing`, `Accept`, `Decline`, `PutCredential`, `WritePairing` |
| a phone's own removal, `exarch-setup unpair` | `RequestRemoval`, `Unpair` |
| `preparePairingRevocation` | `WriteTombstone`, `RevokePhones`, `Acknowledge` |
| `completePairingRevocation` and its retries | `FinishRemoval`, `FetchCredential`, `RetireRoute`, `ForgetPairing`, `DropCredential`, `RetryTimer`, `GiveUp` |
| the processes and time | `StartDaemon`, `StopDaemon`, `SetupDies`, `TokensLapse` |
| `exarch-setup revoke` | `RevokeDevice` |

Two assumptions on timing are part of the model: the tombstone, a local file, is
not overtaken by another party's DELETE over the network; and two people do not
confirm a pairing in the seconds in which the daemon prepares a removal or is
between fetching the credential of the old pairing and deleting it. `cutShort` and
`undropped` are history: a pairing that failed or died after it had registered its
phone, and a removal that forgot the pairing and then kept the credential. The
properties that do not hold after these two name them.

`DeviceAccess` adds `verifyRequest`: a device signs a request under a challenge of
the running daemon, the request may arrive late, twice, after a sweep of expired
challenges, after a restart, or after its device registered anew with its
counter at zero. The Mac's own client is a device too; `RepairLocalDevice`
registers it again under the same key. Signatures are external: nothing else has
the key. `farewell` are the phones that were told they are removed.

### `RelayServer` and `RelayLink`

The sockets of one route, `Home`, are modelled one by one, the other routes by
their retirement, which shares the revocation file. `sock`, `slot`, `note`, `queue`
are connection, registered peer of each role, last control message, send buffer.
A ticket is named for the socket it was issued to; `ticketOf` says which ticket a
socket registered with. A DELETE awaits the file system three times:
`ReceiveDelete` (memory), `OpenTemporary`, `WriteState`, `RenameState`, any of which
may fail (`PersistFails`); `due` are the routes whose sockets a timer is to close.
A restart reads the file.

In `RelayLink` each end is `away`, `registering`, `shaking`, `answering` or `up`.
`Dial`, `Ready`, `HostShakes`, `HostAnswersHandshake`, `DeviceShakes`, `Request`,
`ServeRequest`, `Respond`, `ReadResponse`, `RequestTimesOut`, `LosesConnection` are
the steps of `connectEncryptedRelay`, of the RPC client and server and of the
connector. Noise is external: a frame is readable only to the connection it was
encrypted for, and any other frame breaks the session that receives it and closes
its connection. A client that is told the counterpart is offline, or whose reader
finds a response it does not expect (`PumpFails`), rejects what is pending and is
closed, but its socket stays open and registered (`relay-rpc.ts:105-113`,
`relay-connection.ts:69`): the device's role is held until that socket ends, and
frames to it are read by nobody (`Discard`). The wait
between attempts, framing, rate limits and provisioning are left out.
`overlapped` is history: two DELETE requests were at work at once.

### `MobileReplica`

The iOS app (`MobileAppModel.swift`) runs on the main actor; its tasks interleave at
every `await`. A task is one of `Opening` (`selectConversation`,
`retryConversationMessages`), `Paging` (`loadOlderMessages`), `Main` (the launch, a
synchronization, a poll) or `"send"`; `task` says where each is, which conversation
it was started for and what it asked for. Several of a kind may be waiting at once.
Only what the code looks at keeps one from starting: `busy`, `isLoadingMessages`
(`loading`), `isLoadingOlderMessages` (`paging`), `isSyncing` (`Syncing`). Opening a
conversation resets `paging`, and the end of any page resets it too, so that two
pages of one conversation, or of two, can be awaited; a conversation can be left and
opened again while its first opening waits. `stage` is what a main task does:
the launch, the synchronization after it (`start`) or after coming to the front
(`resume`, `sync`), the poll; `polling` is `pollTask`. A poll that is cancelled is seen
to be so at the end of its round, beside the synchronization and the poll that take
its place. `cache` is `cachedConversationEvents`, `screen` is `events`, `more` is
`canLoadOlderMessages`; `disk` and `writes` are the files and the chain of
`cacheWriteTask`; `known` and `watermark` are `nextSequence` of the threads as listed and
`messageWatermarks`; `unread` is what a prefetch has before it.

| Code | Actions |
|---|---|
| `selectConversation`, `retryConversationMessages`, `refreshRecentMessages`, `refreshNewMessages` | `SelectConversation`, `RetryConversationMessages`, `Retries`, `RecentArrives`, `NewArrives`, `OpeningEnds` |
| `hydrateEventsFromCache` | `ReadFile`, `ReadFails`, `Hydrated` |
| `send`, its result and its failure | `Send`, `TurnResult`, `RequestFails` |
| `loadOlderMessages` | `LoadOlderMessages`, `PageBack`, `OlderArrives` (`PagingEnds`) |
| `becameActive`, `becameInactive` | `BecameActive`, `Resumes`, `BecameInactive` |
| `synchronizeFromLaptop`, `startPolling`, `refreshLoadedThreadWindow` | `ListThreads`, `ThreadsAreListed`, `StartPolling`, `Poll` (`Round`) |
| `prefetchRecentMessages` | `PrefetchNext`, `PrefetchReads`, `PrefetchSaves`, `Prefetched` |
| `saveEvents`, `restoreCache` | `WriteLands`, `Launch` |
| the laptop | `LaptopAppends`, `ListEvents`, `ListRecentEvents`, `MessagePage`, `ThreadList` |

Abstractions. A page is what the laptop holds when its answer arrives: the log only
grows. Two kinds of events are told apart, messages and the rest; that a
correction of an import hides the message it corrects is left out. The index
file is written whole, so that a launch finds the last one, an older one or none.
Polls list the threads at any time rather than every fifth time. A retry takes the
place of an opening and may end a step later than in the code, as an opening
does after its request for the policy. Policies, approvals, pins, voice, forgetting the laptop, new conversations and the switch
of the harness (both `busy` like a message) are left out.

## 3. The runs

| Run | Instance | Distinct states | Shows |
|---|---|---|---|
| `Submissions` | three calls, one message id, one of them with another body, one conversation, one crash | 1,527,666 | rows follow the log; answers come from the record; each turn reads in order; `activeTurns` names the turn in flight; completed turns hold no lease |
| `Worktree` | two calls in two conversations on one worktree, a switch, interrupts, leases that expire, one crash; fairness | 690,548 | writers hold exclusive leases; `SingleWriter` is implemented; every call is answered |
| `Approvals` | three approvals of two turns (one by the bridge, one without a denial), one crash; fairness | 271,408 | the safety properties of approvals, one answer per request, that `Consent` is implemented, and that every approval settles and is shown |
| `ProviderAdapters` | for each provider two turns, for Codex and Hermes also one turn with three lines; a buffer of one, one pending request, one death of the child; fairness | 329,383 | foreign events are explained, pending requests are of the active turn, `TurnStream` is implemented (a completed turn delivered everything), turns end, interrupts are heard |
| `History` | two messages with one text, one fault, and one switch or one waiting operation, to a harness that may replace its session; fairness | 632,393 | the ledger, the cursors, the status, and that each message comes to be shown once |
| `RemoteAccess` | one phone, the Mac, one request, two routes, two starts, one failure, one repair; fairness | 613,423 | the four stores, one acceptance per request, nothing after a farewell, removals complete |
| `Relay` | five budgets over two sockets per end, three DELETE requests, two requests, a buffer of one, two tracked tickets, two starts; fairness | 191,363 | roles, notices, tickets, retirements, that `RemoteCall` is implemented, and that what is gone is let go |
| `Replica` | two conversations of two messages, pages of one and polls of two, two openings, two pages and two main tasks at a time, twelve combinations of two or three events (an append, an opening or retry, a page, a message, a failure, a launch, a change to the front or back), one waiting write; fairness | 1,322,632 | events stay in their conversation; the newest message comes to the screen and stays |
| `SwitchRace` (violation) | one call, one switch | | a switch commits under a busy turn |
| `SameMessage` (violation) | two calls with one message id | | a message that is in the conversation is said to be safe to replay, or comes there again |
| `TwoProviders` (violation) | two conversations on one worktree | | two providers at work in one worktree |
| `SwitchBack` (violation) | three messages, one switch, no fault | | an import moves a cursor past what its harness was not given |

Deadlock is not checked: all calls answered, all approvals settled, no socket left
to open is an end. The phone polls for ever.

**Bounds.**

* `Submissions`, `Worktree`: calls, conversations and `MaxCrashes`. Two calls meet at
  every pair of awaits; the third lets one run before and one after a meeting, so a
  record, a stale lease or a stale entry of the first is met by a later one.
  Conflicts of leases are pairwise, so two conversations suffice. A second crash
  meets the same store with the same empty memory.
* `Approvals`: approvals interact only through their turn, so two in one turn and
  one in another suffice.
* `ProviderAdapters`: what one turn leaves behind (lines, pending requests, a child)
  is met by the next, so two turns; with a buffer of one the limit is reached by the
  second event; three lines let one be taken, one buffered and one dropped. Each
  entry of `Budgets` fixes provider, turns, lines and unread lines of a behaviour.
* `History`: a mirror is ambiguous as soon as two messages have one text; a third
  message is needed for a handoff there and back (`SwitchBack`), and for an item
  that leaves its event to a harness that has been and gone: `Superseded` is in
  `PassedUnheard` because three messages reach that. With three messages the
  invariant of the proof was checked with the switch, without a fault and without a
  waiting operation (9,720,074 states); for more there is the proof. A fault is a
  failed turn, read or import, or a restart. One operation may wait (`waiting`) while
  one works, which is what coalescing is about; a behaviour with it has no switch.
  A turn needs a message, except where it may fail after it has replaced its
  session.
* `RemoteAccess`: two routes let a removal of the first pairing meet the second; two
  starts are one restart; one failure of Keychain, disk, relay or tokens can fall
  at each step. A request that is accepted twice needs only itself.
* `Relay`: two sockets per end let one replace the other. A behaviour contains
  one of five combinations: three DELETE requests (two for one route) and restarts;
  one DELETE while all connect; expiring and repeated tickets over a restart; two
  requests of a device that connects twice; a request and a laptop that connects
  twice over a restart. The product of all of them at once is left out.
* `Replica`: conversations meet in the one cache and the one queue of writes, so two
  suffice. A page of one message makes every window end inside the cache, a poll of
  two makes one page short and one full. Two openings reach one conversation that is
  left and opened again while the first still waits, two pages one that was asked
  for before another conversation was opened; with two main tasks a cancelled poll
  meets the synchronization that follows it. Each entry of `Budgets` names the events
  of the environment of a behaviour; they meet at every pair of awaits of the tasks,
  which go on by themselves.
* Only counters the code does not bound are bounded by a guard: `crashes`, `budget`,
  `failures`, `repairs`, starts, deaths, lines. The slots of `MobileReplica`'s tasks bound
  how many the code would start. The theorems below need none of
  these values.

**Fairness.** All of it is weak fairness of steps the program schedules itself.

* Coordinator: `Advance` (a continuation whose await has settled runs; probes, Git
  and the context socket have timeouts or are local) and `StreamEnd \/ StreamFail` (a
  provider ends its turn). The second is an assumption; `TurnsEnd` says how far
  the adapters keep it.
* Approvals: the event loop finishes what it began, calls of adapters settle, time
  passes and a due timer fires. Nothing is assumed of devices.
* Adapters: `FairDaemon` (the turn goes on, lines are read, an approval is answered
  or expires, a request times out, a killed child dies) and `FairChild` (a child that
  lives replies and ends its turns: nothing in the adapters bounds a turn). `TurnsEnd`
  assumes both; `InterruptsAreHeard` assumes nothing of the child.
* History: the queue goes on, the reconciliation timer fires every five minutes, and a
  harness finishes the item it writes.
* Remote access: the continuations and timers of the daemon run, as those of a
  setup command do, and launchd starts the daemon again (`KeepAlive`).
* Phone: a task goes on when its answer, its file or its timer has come, and the disk
  writes what it is given, while the app runs. Requests may fail, finitely often.
* Relay: a closing socket closes (a registration that is rejected and a route that is
  retired terminate it 250 ms after the close frame; after the plain `socket.close` of
  `relay-server.ts:280,285,291` the timer of the `ws` library does), the laptop notices that the relay closed its
  connection, answers a handshake and finishes its handler. No keepalive tells either
  end of a peer that vanished without closing.

Nothing is assumed of interrupts, switches, crashes, devices or failures.

**Exceptions the properties name.** They are what the code does, not omissions:
`undropped` and `cutShort` (pairing), a lapsed token or a used-up last start
(`RemovalCompletes`), `overlapped` (`RetiredForGood`), `stray` (foreign events), `down` and
the exit of the child of Codex or Hermes (`TurnsEnd`), Claude while its session is
made ready, and the end of a turn of Codex, which is asked to stop and then waited
for (`InterruptsAreHeard`). `missed` (`CursorsCoverWhatWasGiven`) has a message in three
cases: an import found it in the log, or added it under a turn, and moved the
cursor past it; a session that was replaced had held it, or was to be told of it;
or it was to go with the prompt of a session that was bound and never took it.
`RolesAreFreed` speaks of sockets that are closing: a client that has given up and
keeps its socket keeps its role.

### Disagreements between documents and code

1. `SPEC.md:241` "A busy turn or unresolved workspace lease blocks the switch":
   `switchProvider` looks at both, awaits the target's policy, and switches without
   looking again (`coordinator.ts:527-534`). Run `SwitchRace`.
2. `coordinator.ts:293-295` delays the user's message "so a capacity rejection can be
   switched and retried without duplication", and `docs/IMPLEMENTATION_STATUS.md:45` has
   "Coordinator idempotency for client message IDs": the record is read (184) before
   the awaits and written at the end. A message sent again meanwhile can be refused for
   its capacity with `retrySafe` (189) after the first call has brought it into the
   conversation, so that a client replays it on another harness; or it waits out the
   first call's lease and is carried out twice. Run `SameMessage`; one call alone keeps
   the promise.
3. `SECURITY.md:244` "prevents simultaneous EXARCH turns from mutating the same
   worktree": a stream can fail, and its lease be released, while the provider
   still works. Run `TwoProviders`.
4. `SPEC.md:246` "injects only that bounded delta, and advances the binding cursor after
   acceptance. Switching back uses the same process": every import, also of an
   unchanged transcript, sets the imported harness's cursor to the end of the log
   (`canonical-store.ts:1437-1443`), so that after a handoff the other harness's messages
   count as given. Run `SwitchBack`.

Seen while modelling, without a run of their own:

* `docs/IMPLEMENTATION_STATUS.md:64` speaks of "five-minute pending records", but the
  timers of `coordinator.ts:650` are lost in a restart and startup schedules none: such a
  record stays pending until a device decides on it.
* The phone's cache can keep a hole: a recent page of 30 messages need not adjoin
  what is cached, and `loadOlderMessages` takes its page from the cache first and never
  asks for what lies between (`SPEC.md:97` has it paginate backward in pages of 30).
* The prefetch loads, merges and saves a file out of its turn
  (`MobileAppModel.swift:1228`), so it can overwrite what a queued write has just
  saved, or be overwritten. The messages come again from the laptop.
* A window that is rebuilt from a file that lags takes messages from the screen
  until the next poll: `NewestMessageStays` says that it comes to an end.
* A prefetch under way when the laptop is forgotten can write its file after the
  cache was deleted (`SPEC.md:105`).
* An interrupt of Codex or Hermes asks the child and never terminates it, though
  `SPEC.md:216` speaks of termination after a grace period.
* The abort listener of `codex-adapter.ts:288` drops the promise of `interruptTurn`; its
  rejection ends the daemon (variable `down`).
* No exit of the child of Codex or Hermes fails the queue of the turn that waits on
  it, and an error notification that will be retried fails it all the same.
* Items of Codex carry the time of the start of their turn, so that an answer
  is not within the minute of the live event it should mirror (why `Nearby` is a
  parameter).
* The connector serves one request after another and reads notices and closes
  only between them.
* A session of Hermes that is replaced (`hermes-adapter.ts:236-264`) is empty, but its
  first prompt carries only the delta after the cursor of the session before, and
  the cursor then stands at the end: what lies before it is never given to the new
  session (`missed`). `SPEC.md:245` speaks of the delta missing from the destination
  binding.
* A device client that ends on an unexpected response, or is told that the laptop is
  offline, leaves its socket open and registered; `close` then skips the channel
  (`relay-rpc.ts:78-84`), and the relay rejects every other device until it ends.
* The host's tokens lapse after ninety days, and a removal can then not complete.

## 4. The proofs

All theorems hold for every value of the constants that satisfies the assumption
of their module: `CoordinatorConstants` (the maps between requests, conversations and
projects are functions, worktree overlap is reflexive and symmetric, `None` is
not a member of the sets it is used with), `ApprovalConstants`, `StreamConstants`,
`PairingConstants` (bounds are natural numbers, the setup command and the daemon are
not phones) and `AccessConstants`, `HarnessAssumption` (two harnesses, of which one
is imported, neither is the owner, and any but the imported one may replace its
session), `MessagesAssumption` and `BudgetAssumption` (natural numbers), `ClassAssumption` (any messages may have equal texts, and any may
lie within the minute), `RelayConstants` (bounds
are natural numbers, sets are disjoint from the markers used beside them),
`ReplicaAssumption` (likewise). `MC...` modules and the runs evaluate them.

**`TurnCoordinator_proofs`.** `TypeCorrect`. `LeaseInv` is the first inductive
invariant: types, exclusive rows (`LeasesExclusive`), which states of a call go with
which lease (`LeaseFollowsCall`), and `ActiveTurnsNameTheTurnInFlight`. The last is
not inductive alone: `AcquireLease` sets the entry unchecked, and only the lease
table, whose rows of one conversation always contend (`OneWorktreePerConversation`),
says that no turn of the conversation is in flight
(`AcquireFindsNoTurnInFlight`). `WritersAreExclusive` and `ActiveTurnsCorrect` follow.
`RowInv` adds what the committing states know of the rows and the log
(`RowFollowsCall`); `CompletedTurnsReleased`, `RowsBehindLog` follow.
`OrderInv` adds what a call has appended so far and that the places of these events
in the log are in order (`EventsFollowCall`, `ReadsInOrder`; `Places` names them, so that
an append is two lemmas about sequences); `TurnsAreInOrder` follows.
`AnswersAreRecorded` rests on the stability of records (`RecordsAreStable`) and on
which steps answer (`WhoAnswers`). `Refinement` shows that every step is a `Begin`,
`End`, `Quarantine` or a stutter of `SingleWriter` under the mapping in `W`.

**`Approvals_proofs`.** `ApprovalInv` speaks of one approval at a time:
`CallsFollowRecord`, `LogFollowsRecord` (the log has one of four shapes) and
`AnswerFollowsCalls`. A step of one approval leaves the others untouched
(`OthersUntouched`, `UntouchedKeeps`). From it: `AllowedByDevice`, `OneOutcome`,
`ShownWasHeard`, `OutcomesShown`, and the action property `OneAnswer`, which none of
the safety properties implies: it needs that a request an adapter still holds, with
no answer under way, has not been answered. `Refinement` shows that every step is one
of `Consent` or none: the log of an approval has one of four shapes, each of which is
one value of `Shown` (`ShownFromLog`), and `StepOfOneToConsent` maps each action by what it
does to record, provider and log; the end of a turn and a crash are stutters. What
is shown as decided was told (`ShownDecisionsWereHeard`) is a consequence, kept as
`ShownWasHeard`.

**`ProviderAdapters_proofs`.** `QueueInv` says where every accepted event is: taken,
handed over, buffered, or dropped by a failure, in that order (`Accounted`).
`AdapterInv` has the types, with the limits of buffer and pending requests, and
relates the turn to its queue and the child. `TurnMove` reduces the step of any
adapter to what it does to turn and queue, so that the argument about the queue
is made once. `EventsDeliveredInFull`, `ApprovalsAreOfTheActiveTurn` and
`AdapterTypeCorrect` follow. `Refinement` shows that every step is one of `TurnStream` or
none (`TurnMoveIsStreamStep`, over `TurnMove`): an event taken is the next one that was
accepted and not yet taken, by `Accounted` (`HeadComesNext`, `NextDelivered`); a queue
that ended has dropped nothing; and turns do not overlap because at most one is
active (`OneActive`). `DeliveredInFull` is a consequence. `OwnInv` is for `DeliversOwnActivity`: every native turn
at work, every line not yet read and every accepted event is of the active turn or
of one that ended here before it ended at the child (`Known`). `StrayMoves`,
`RunningMoves`, `WireMoves` and `PushMoves` say what any step may do to these, so that
only the moves, and not the thirty actions, are weighed against the invariant.

**`Pairing_proofs`.** None of the properties of the four stores is inductive: each
rests on what a party at work may rely on until its next write. `PairingInv` says
it for each place of each party. A setup command and a phone find in `config.json` the
route they work on, or none (`SetupRemovesWhatItFound`, `PhonesRemoveTheirOwn`); the
daemon, which acts on its memory, was told of a pending route, and that route
stays pending or is gone (`KnownToBePending`, `RemovalIsPending`); a new route is known
to the setup command alone (`NewRouteIsUnknown`), and routes are retired before they
are forgotten (`RetiredBeforeForgotten`). That a credential stands with its pairing
(`CredentialStands`) needs the absence of two removals that keep what they should
have dropped, hence `undropped`. `PairingInvHolds` is the theorem; in
`DeviceAccess_proofs` the steps of authentication are shown to leave these stores
alone or to take a step of `Pairing`.

**`DeviceAccess_proofs`.** The counter of a device plays no part in
`RequestsAcceptedOnce`: it starts again when the device registers anew. What bars a
request that was accepted is the consumed challenge in memory, or its expiry, or
that the daemon which issued the challenge no longer runs; a sweep or a restart only
trades one of these for another (`AcceptedIsBarred`, in `AccessInv`).
`PairingTypeCorrect` needs that a party at work knows its route (`RoutesAreKnown`).
`PendingIsWithdrawn`, `PairingKeepsItsCredential` and `ActiveIsPaired` are parts of
`PairingInv`; the action properties `ForgottenAfterRetirement` and `FarewellIsFinal`
follow from it. The second needs that whoever was told has no authority
(`ToldIsInactive`): a removal is acknowledged behind `RevokePhones`, and until the
phone pairs anew nothing gives the authority back, whatever arrives late.

**`HistorySync_proofs`.** The import is a loop over the transcript, in the model a
recursive function. What it computes is shown by its least counterexample, for
which no theorem with an operator parameter is needed: `LoopExists` (there is a
function that unfolds as the definition says: the least number of rounds without
one would have one, by extending that of the round before), `ImportUnfolds`, and `ImportKeeps`, whose
argument is that of the least round after which log and ledger are not `Good`, or
the log has lost an event, or an item was left out. One round is `ItemKeeps`, with
`MirrorIsCandidate` (the nearest candidate is one, because distances have a least),
`LinkKeeps` and `AppendKeeps`. `HistoryInv` has the types and

* `LedgerInv`: log and ledger are `Good`: entries name distinct events, an event says
  what its item said, and every event that is not live has an item with an event;
* `OwnedInv`: messages are numbered as they come, and whatever the transcript, an
  operation or an accepted turn holds is in the native session it belongs to;
* `CursorInv`: of what is shown up to its binding (`BindingsAreTrue`) and up to every
  cursor a waiting call may have read (`CallsAreTrue`), a harness knows everything but
  what it has missed or is about to be given; and once the context is chosen, of all
  that is shown, with what it was given (`TurnIsTrue`). The second is what lets a call
  read before other turns, switches and imports and act after them: no step takes
  back what a harness has, or `missed` records it;
* `RefreshInv`: at most one full refresh is accepted, the status is `running` until
  it ends, and what was promised with it is in what it has read.

`LedgerIsOneToOne`, `CursorsAreTrue`, the action property `RefreshIsTruthful` and
`HistoryTypeCorrect` follow. `CursorsAreTrue` was first stated without `Superseded`; the
attempt to prove it led to a third message, and TLC to the counterexample: an item
of the owner moves to the event of a message with the same text that a turn had
recorded, its own event is shown no more, and the other harness's cursor, which
passes it, was never given it. Nothing is lost by that, since the text it stands
for is given with the other event; so the property says it.

**`RelayLink_proofs`.** Five invariants, each inductive on its part of the state.
`PeersInv`: who holds which role and was told what; the steps of the two ends are
moves of three kinds on it (`PeersMove`). `TicketsInv`: a ticket that registered is
consumed or expired. `RetirementInv`: how far each DELETE has come, that a relay that
is down has none (`DownIsSilent`), and that at most one is at work until two
overlap (`OneAtWork`). `FramesInv`: a frame under way that answers a request was sent
by a laptop that had handled it (`HonestFrame`). `OnceInv`: a request is in at most one
frame of all buffers, made and not yet carried out, and an answer is under way only
when its handler has ended. A step either shortens buffers (`Fewer`) or puts one frame
at the end of one of them (`Joins`). With it `Refinement` shows that every step is
one of `RemoteCall` or none, of which `RequestsSettleOnce` is a consequence. `RolesAreHeld`, `PeersAreInformed`,
`TicketsRegisterOnce`, `RetirementsStand`, `SettledOnceHolds`, `LinkTypeCorrect` follow.

**`MobileReplica_proofs`.** `IInv` says that every task, of however many, holds pages of
the conversation it is about (`Fits`), that the caches are of the active conversation
and that a file or a waiting write is of the one it names. No guard keeps two
openings, pages or polls apart, and none is needed: every merge but one looks at
what is active after its await, and an event belongs to the conversation it was
asked for, also when that was left and opened again. The result of a message does
not look, and what saves it is `Sending`: while a message is on its way, its
conversation is the active one, because `busy` keeps others from being opened and the
synchronization opens one only where none is. `ConversationsAreApart` follows.

**Only model-checked.** Every safety and action property of the passing runs has a
theorem. Liveness has none, since fairness and ENABLED are out of the prover's
reach: `RequestsAreAnswered`, `ApprovalsSettle`, `TurnsEnd`, `InterruptsAreHeard`,
`RemovalCompletes`, `ConnectorLetsGo`, `RolesAreFreed`, `EachMessageShownOnce`,
`NewestMessageStays`.

## 5. Not modelled, and why

* The event stream (`api-server.ts:513`, replay then subscribe): no client of the
  repository opens it. The desktop client, and of the phone what is not about
  messages: policies, approvals, pins, voice, pairing, forgetting the laptop.
* Routing and validation of the API server, setup command line, secrets and
  installation: sequential I/O. The commands `pair`, `unpair`, `revoke` and the repair of
  the Mac's identity are in `Pairing` and `DeviceAccess`.
* Context capabilities: issue, use and disposal within one process and one turn.
* The readers of Codex and Hermes and the parsing of native formats: pure
  functions over files; the service treats the three alike.
* Of the adapters: probe, policy, capacity, steering, payloads. Of the relay: rate
  limits of upgrades and tickets, provisioning. Of the store: snapshots, decisions,
  tasks, search and the change feed, single statements without a protocol.
* The reconciliation of leases: nothing calls it.
* Workspace scope and redaction: pure functions over paths and text.

What comes next, in this order: the safety parts of the liveness properties (what
is never forgotten while it is awaited) as invariants of their own; the change of
provider and the approvals on the phone; and the coordinator's stream steps stated
over `TurnStream`, so that both models meet in one specification.
