-------------------------- MODULE ConversationLog --------------------------
(***************************************************************************)
(* One conversation that was imported from a native session of Claude and  *)
(* continued in EXARCH: the canonical log, the import ledger that ties the *)
(* items of the native transcript to its events, and the bindings that say *)
(* how much of the log each harness has been given (coordinator.ts,        *)
(* canonical-store.ts).                                                    *)
(*                                                                         *)
(* A message stands for one item of the transcript and for the event the   *)
(* coordinator records when the message passes through a turn.  Messages   *)
(* are numbered in the order of their timestamps.  A native item may be    *)
(* read while it still grows, or be edited by its owner: it has version 1  *)
(* first and version 2 then, and a turn records version 2.  Messages of    *)
(* one class have the same text; those in Nearby are recorded within the   *)
(* minute findLiveHistoryMirror allows.  Left out: every event type that   *)
(* is neither shown nor given as context, the limit of a hundred events of *)
(* a delta, titles, and the redaction items.                               *)
(***************************************************************************)
EXTENDS Integers, Sequences, FiniteSets

CONSTANTS
  Messages,    \* bound: how many messages the conversation gets
  Class,       \* Class[m]: messages of one class have the same text
  Nearby,      \* messages whose native time is near that of the live event
  Imported,    \* the harness whose history is imported
  Other,       \* a harness the conversation can be handed to
  Replacing,   \* harnesses that may give up a session for a new one (Hermes)
  Budgets      \* bound: what one behaviour may contain: handoffs (switches), failed
               \* turns, reads and imports and restarts, in all (faults), and
               \* operations that wait (waiting)

Message == 1 .. Messages
Harness == {Imported, Other}

ASSUME MessagesAssumption == Messages \in Nat
ASSUME HarnessAssumption ==
  /\ Imported # Other /\ {"none", "owner"} \cap Harness = {}
  /\ Replacing \subseteq {Other}
ASSUME BudgetAssumption == Budgets \subseteq [switches : Nat, faults : Nat, waiting : Nat]
ASSUME ClassAssumption == DOMAIN Class = Message /\ Nearby \subseteq Message

VARIABLES
  author,    \* who brought a message: "none", "owner" (in the native CLI), or a harness
  native,    \* the version of each item in the transcript, 0 when it is not there
  source,    \* the row of history_sources exists, and with it the conversation
  log,       \* the events of the conversation
  ledger,    \* imported_items: the event and the version of each item
  active,    \* active_provider
  binding,   \* provider_bindings: synchronizedThroughSequence, or -1 without a row
  calls,     \* what calls of submitMessage that still wait for their turn may have read
  turn,      \* the turn in flight, of the harness that was active when its call came
  handoff,   \* the target of a switchProvider that has made its checks, or "none"
  known,     \* history: the messages each harness's native session contains
  missed,    \* history: messages a cursor may have passed that its harness was not given
  budget     \* what this behaviour may still contain

conversation == <<author, native, source, log, ledger, active, binding, calls, turn, handoff,
                  known, missed>>
logVars == <<conversation, budget>>

NoTurn == [pc |-> "none", by |-> "none", given |-> {}, message |-> 0]

\* What an event or an item says.
Text(m, version) == <<Class[m], version>>
Spoken(e) == Text(log[e].message, log[e].version)

\* Only the ledger's event is the active representation of an imported item.
Linked(entries) == {entries[m].event : m \in Message}
Shown(e) == log[e].live \/ e \in Linked(ledger)

NextMessage == Cardinality({m \in Message : author[m] # "none"}) + 1

LogInit ==
  /\ author = [m \in Message |-> "none"]
  /\ native = [m \in Message |-> 0]
  /\ source = FALSE
  /\ log = <<>>
  /\ ledger = [m \in Message |-> [event |-> 0, version |-> 0]]
  /\ active = Imported
  /\ binding = [h \in Harness |-> -1]
  /\ calls = {}
  /\ turn = NoTurn
  /\ handoff = "none"
  /\ known = [h \in Harness |-> {}]
  /\ missed = [h \in Harness |-> {}]
  /\ budget \in Budgets

Spend(k) == budget[k] > 0 /\ budget' = [budget EXCEPT ![k] = @ - 1]
Fault == Spend("faults")

-----------------------------------------------------------------------------
\* The transcript.

\* Somebody works in the harness's own command line.
TypeNatively ==
  /\ NextMessage \in Message
  /\ author' = [author EXCEPT ![NextMessage] = "owner"]
  /\ native' = [native EXCEPT ![NextMessage] = 1]
  /\ known' = [known EXCEPT ![Imported] = @ \cup {NextMessage}]
  /\ UNCHANGED <<source, log, ledger, active, binding, calls, turn, handoff, missed, budget>>

\* The harness writes an item of a turn, in one piece or as it grows; its owner
\* may edit one he typed.
NativeWrites(m) ==
  /\ author[m] \in {"owner", Imported}
  /\ native[m] < 2
  /\ \E version \in (native[m] + 1) .. 2 : native' = [native EXCEPT ![m] = version]
  /\ UNCHANGED <<author, source, log, ledger, active, binding, calls, turn, handoff, known, missed, budget>>

-----------------------------------------------------------------------------
\* Turns.

\* submitMessage finds its harness active and reads its binding.
Reading ==
  [by |-> active, cursor |-> IF binding[active] = -1 THEN 0 ELSE binding[active]]

\* A call can come in every state of the conversation and wait at its awaits while
\* other calls, turns and switches go on: what there is to read is read.
Begin == calls' = calls \cup {Reading'}

\* A mutated Delta: it starts with the event after the first missing one.
DeltaButFirst(cursor) ==
  {log[e].message : e \in {i \in DOMAIN log : i > cursor + 1 /\ Shown(i)}}

\* What is shown after the cursor.
Delta(cursor) == {log[e].message : e \in {i \in DOMAIN log : i > cursor /\ Shown(i)}}

\* A call has the lease, which one turn has at a time, and chooses the context by
\* what it had read.  Bound: with no message left, only where a turn that fails
\* can have replaced its session.
SelectContext(call) ==
  /\ turn = NoTurn
  /\ NextMessage \in Message \/ (budget.faults > 0 /\ call.by \in Replacing)
  /\ turn' = [NoTurn EXCEPT !.pc = "given", !.by = call.by, !.given = Delta(call.cursor)]
  /\ UNCHANGED <<author, native, source, log, ledger, active, binding, calls, handoff, known, missed, budget>>

\* A harness without a session starts one and reports it before the prompt is
\* submitted: provider.session.bound, with its own sequence as the cursor.
BindSession ==
  /\ turn.pc = "given"
  /\ binding[turn.by] = -1
  /\ turn' = [turn EXCEPT !.pc = "bound"]
  /\ binding' = [binding EXCEPT ![turn.by] = Len(log)]
  /\ UNCHANGED <<author, native, source, log, ledger, active, handoff, known, missed, budget>>
  /\ Begin

\* A message that names another model than the session, or one restored without
\* its model, has an empty session take its place: it reports itself in the same
\* way, and is given no more than the old one was to be.
ReplaceSession ==
  /\ turn.pc = "given"
  /\ turn.by \in Replacing /\ binding[turn.by] # -1
  /\ turn' = [turn EXCEPT !.pc = "bound"]
  /\ binding' = [binding EXCEPT ![turn.by] = Len(log)]
  /\ known' = [known EXCEPT ![turn.by] = {}]
  /\ missed' = [missed EXCEPT ![turn.by] =
       @ \cup ({log[e].message : e \in DOMAIN log} \ turn.given)]
  /\ UNCHANGED <<author, native, source, log, ledger, active, handoff, budget>>
  /\ Begin

\* The native session takes the prompt, with the delta in it.
Accept ==
  /\ turn.pc \in {"given", "bound"}
  /\ binding[turn.by] # -1
  /\ NextMessage \in Message
  /\ turn' = [turn EXCEPT !.pc = "accepted", !.message = NextMessage]
  /\ author' = [author EXCEPT ![NextMessage] = turn.by]
  /\ known' = [known EXCEPT ![turn.by] = @ \cup turn.given \cup {NextMessage}]
  /\ UNCHANGED <<native, source, log, ledger, active, binding, calls, handoff, missed, budget>>

\* The message of the turn: with the first activity, or at the latest at its end.
RecordMessage ==
  /\ turn.pc = "accepted"
  /\ turn' = [turn EXCEPT !.pc = "recorded"]
  /\ log' = Append(log, [message |-> turn.message, version |-> 2, by |-> turn.by, live |-> TRUE])
  /\ UNCHANGED <<author, native, source, ledger, active, binding, calls, handoff, known, missed, budget>>

\* The turn completes, and its binding with it: everything in the log, also
\* what an import appended meanwhile, counts as given.
Complete ==
  /\ turn.pc = "recorded"
  /\ turn' = NoTurn
  /\ binding' = [binding EXCEPT ![turn.by] = Len(log)]
  /\ UNCHANGED <<author, native, source, log, ledger, active, handoff, known, missed, budget>>
  /\ Begin

\* The turn is over before its end.  Its binding stays, and with it a session
\* that was bound and never took the prompt.
LoseTurn ==
  /\ turn' = NoTurn
  /\ missed' = IF turn.pc = "bound" THEN [missed EXCEPT ![turn.by] = @ \cup turn.given] ELSE missed

\* The turn fails anywhere.
Fail ==
  /\ turn # NoTurn
  /\ Fault
  /\ LoseTurn
  /\ UNCHANGED <<author, native, source, log, ledger, active, binding, calls, handoff, known>>

\* switchProvider finds no turn and no lease ...
Switch ==
  /\ source
  /\ turn = NoTurn /\ handoff = "none"
  /\ Spend("switches")
  /\ handoff' \in Harness \ {active}
  /\ UNCHANGED <<author, native, source, log, ledger, active, binding, calls, turn, known, missed>>

\* ... and, after its await of the policy, looks at neither again.
SetActiveProvider ==
  /\ handoff # "none"
  /\ active' = handoff
  /\ handoff' = "none"
  /\ UNCHANGED <<author, native, source, log, ledger, binding, turn, known, missed, budget>>
  /\ Begin

-----------------------------------------------------------------------------
\* importHistoryThread.  `state' is the log and the ledger as the loop over the
\* items has left them; all of it is one transaction.

Distance(a, b) == IF a < b THEN b - a ELSE a - b

\* The live events that may be what the item m of this version says.
Candidates(state, m, version) ==
  {e \in DOMAIN state.log :
     /\ m \in Nearby
     /\ state.log[e].live
     /\ state.log[e].by = Imported
     /\ Text(state.log[e].message, state.log[e].version) = Text(m, version)
     /\ e \notin Linked(state.ledger)}

\* A mutated Mirror: the events of the ledger are candidates too.
MirrorOfAny(state, m, version) ==
  LET near == {e \in DOMAIN state.log :
                 /\ state.log[e].live /\ state.log[e].by = Imported
                 /\ Text(state.log[e].message, state.log[e].version) = Text(m, version)}
  IN CHOOSE e \in near \cup {0} : near = {} \/ (e # 0 /\ \A f \in near : e <= f)

\* The nearest in time, the earlier of two; 0 for none.
Mirror(state, m, version) ==
  LET candidates == Candidates(state, m, version)
      From(e) == Distance(state.log[e].message, m)
  IN IF candidates = {} THEN 0
     ELSE CHOOSE e \in candidates :
            \A f \in candidates : From(e) < From(f) \/ (From(e) = From(f) /\ e <= f)

Link(state, m, event, version) ==
  [state EXCEPT !.ledger[m] = [event |-> event, version |-> version]]

\* A new event for an item without one, or a correction of the one it has.
AppendItem(state, m, version) ==
  Link([state EXCEPT !.log = Append(@, [message |-> m, version |-> version,
                                        by |-> Imported, live |-> FALSE])],
       m, Len(state.log) + 1, version)

\* An unchanged item moves to the live event it mirrors, a new one is linked to
\* it, and everything else is appended.
ImportItem(state, m, version) ==
  LET entry == state.ledger[m]
      mirror == Mirror(state, m, version)
  IN CASE version = 0 \/ (entry.version = version /\ mirror = 0) -> state
       [] version # 0 /\ mirror # 0 /\ (entry.version = version \/ entry.event = 0) ->
            Link(state, m, mirror, version)
       [] OTHER -> AppendItem(state, m, version)

\* What the first m items of the transcript make of log and ledger.
ImportItems(content) ==
  LET After[m \in 0 .. Messages] ==
        IF m = 0 THEN [log |-> log, ledger |-> ledger]
        ELSE ImportItem(After[m - 1], m, content[m])
  IN After[Messages]

\* The transaction, which also moves the binding of the imported harness to the
\* end of the log, whatever the log holds.
ImportHistoryThread(content) ==
  \E new \in {ImportItems(content)} :
  /\ source' = TRUE
  /\ log' = new.log
  /\ ledger' = new.ledger
  /\ binding' = [binding EXCEPT ![Imported] = Len(new.log)]
  /\ missed' = [missed EXCEPT
       ![Imported] = @ \cup ({log[e].message : e \in DOMAIN log} \ known[Imported]),
       ![Other] = @ \cup (IF turn.by # Other THEN {}
                          ELSE {new.log[e].message : e \in DOMAIN new.log \ DOMAIN log}
                                 \ (known[Other] \cup turn.given))]
  /\ UNCHANGED <<author, native, active, turn, handoff, known, budget>>
  /\ Begin

-----------------------------------------------------------------------------
\* Properties.

\* The ledger has at most one item for an event, "so message views and future
\* context see one turn" (canonical-store.ts), and the event says what the item
\* said when it was imported, through relinks, corrections and equal texts.
LedgerNamesOneEventEach ==
  \A m \in Message : ledger[m].event # 0 =>
    /\ ledger[m].event \in DOMAIN log
    /\ Spoken(ledger[m].event) = Text(m, ledger[m].version)
    /\ \A n \in Message \ {m} : ledger[n].event # ledger[m].event

\* An event whose item has another event now, a correction or a mirror.
Superseded(e) == ~Shown(e) /\ ledger[log[e].message].event # 0

\* What the cursor of a harness has passed and its native session does not
\* contain, by what its prompts gave it or by its own work, although it is shown.
PassedUnheard(h) ==
  {log[e].message : e \in {i \in DOMAIN log : i <= binding[h] /\ ~Superseded(i)}} \ known[h]

\* Between its turns the cursor of a harness has passed no message the harness
\* was not given, by whatever calls read it before another turn moved it and
\* switches that commit under a turn, but for three cases: a message an import found in the
\* log, or added under the turn, one a session that was replaced had held, and
\* one that was to go with the prompt of a session that never took it.
CursorsCoverWhatWasGiven ==
  \A h \in Harness : turn.by # h => PassedUnheard(h) \subseteq missed[h]

\* "injects only that bounded delta, and advances the binding cursor after
\* acceptance.  Switching back uses the same process" (SPEC.md:246).
CursorsFollowAcceptance ==
  \A h \in Harness : turn.by # h => PassedUnheard(h) = {}

============================================================================
