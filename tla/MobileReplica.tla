--------------------------- MODULE MobileReplica ---------------------------
(***************************************************************************)
(* The phone's copy of the conversations (MobileAppModel.swift): the cache *)
(* and the screen of the active conversation, one file per conversation,   *)
(* and the tasks that fill them with pages of the laptop's log             *)
(* (api-server.ts, canonical-store.ts).  The tasks share the main actor    *)
(* and interleave wherever they await: the openings of conversations, the  *)
(* synchronizations and the polls that follow them, the paging back, and   *)
(* the sending of a message.  Nothing but isLoadingMessages,               *)
(* isLoadingOlderMessages and busy keeps a task from being started beside  *)
(* another of its kind, and nothing stops one that runs: the poll looks at *)
(* its cancellation between two rounds only.                               *)
(*                                                                         *)
(* An event is the conversation and its sequence.  A request fixes what it *)
(* asks for; the laptop's log only grows, so a page is what it holds when  *)
(* the answer arrives.  Policies, approvals and pins are left out, and so  *)
(* are new conversations and the switch of the harness, which are busy     *)
(* like a message that is sent.                                            *)
(***************************************************************************)
EXTENDS Naturals, Sequences, FiniteSets

CONSTANTS
  Conversation, \* the loaded threads
  Opening,      \* bound: openings and retries at a time
  Paging,       \* bound: pages of older messages awaited at a time
  Main,         \* bound: synchronizations and polls at a time
  None,         \* no active conversation
  PageSize,     \* initialMessageCount
  PollPage,     \* pageSize of refreshNewMessages
  Imported,     \* messages each conversation has at first
  Budgets,      \* bound: how often each kind of event of the environment happens
  MaxWrites     \* bound: writes that wait for the disk

\* What the environment does, each so often in a behaviour.
Kind == {"append", "open", "page", "send", "fault", "launch", "scene"}

ASSUME ReplicaAssumption ==
  /\ None \notin Conversation
  /\ "send" \notin Opening \cup Paging \cup Main
  /\ Opening \cap Paging = {} /\ Opening \cap Main = {} /\ Paging \cap Main = {}
  /\ Main # {} /\ None \notin Main
  /\ Budgets \subseteq [Kind -> Nat]
  /\ PageSize \in Nat \ {0} /\ PollPage \in Nat \ {0}
  /\ Imported \in Nat
  /\ MaxWrites \in Nat \ {0}

VARIABLES
  log,       \* the laptop's events of each conversation: "message" or "activity"
  disk,      \* the events in the file of each conversation
  writes,    \* cacheWriteTask: the writes that wait for their predecessor
  active,    \* activeConversation
  known,     \* nextSequence of each conversation as last listed, 0 before
  watermark, \* messageWatermarks
  cache,     \* cachedConversationEvents
  screen,    \* events, of which messages are shown
  more,      \* canLoadOlderMessages
  loading,   \* isLoadingMessages
  paging,    \* isLoadingOlderMessages
  task,      \* where each task awaits
  stage,     \* what each main task is at: "launch", "start", "resume", "sync" or "poll"
  polling,   \* pollTask, None when it is cancelled
  unread,    \* the conversations prefetchRecentMessages has before it, in each main task
  budget     \* what this behaviour may still contain

replica == <<cache, screen, more>>
files == <<disk, writes>>
list == <<known, watermark>>
flags == <<loading, paging>>
course == <<stage, polling, unread>>
vars == <<log, files, active, list, replica, flags, task, course, budget>>

Task == Opening \cup Paging \cup Main \cup {"send"}

\* Where a task is: the conversation it is about, what it asked for, and the
\* events it brought from a file.
At(pc, c, bound, limit, page) ==
  [pc |-> pc, of |-> c, bound |-> bound, limit |-> limit, page |-> page]
Idle == At("idle", None, 0, 0, {})
Listing == At("list", None, 0, 0, {})
Asleep == At("sleep", None, 0, 0, {})

Spend(k) == budget[k] > 0 /\ budget' = [budget EXCEPT ![k] = @ - 1]

Goes(t, where) == task' = [task EXCEPT ![t] = where]

\* A task that does not run; all of a kind are alike.
Free(S) == CHOOSE t \in S : task[t].pc = "idle"
HasFree(S) == \E t \in S : task[t].pc = "idle"

Init ==
  /\ log = [c \in Conversation |-> [n \in 1 .. Imported |-> "message"]]
  /\ disk = [c \in Conversation |-> {}]
  /\ writes = <<>>
  /\ active = None
  /\ known = [c \in Conversation |-> 0]
  /\ watermark = [c \in Conversation |-> 0]
  /\ cache = {} /\ screen = {} /\ more = FALSE
  /\ loading = FALSE /\ paging = FALSE
  /\ LET m == CHOOSE t \in Main : TRUE IN
       /\ task = [t \in Task |-> IF t = m THEN Listing ELSE Idle]
       /\ stage = [t \in Main |-> IF t = m THEN "sync" ELSE "poll"]
  /\ polling = None
  /\ unread = [t \in Main |-> {}]
  /\ budget \in Budgets

-----------------------------------------------------------------------------
\* The laptop.

EventsOf(c) == {c} \X (1 .. Len(log[c]))

\* isDisplayEvent, displayOnly.
Messages(S) == {e \in S : e[2] \in DOMAIN log[e[1]] /\ log[e[1]][e[2]] = "message"}

Newest(S, k) == {e \in S : Cardinality({f \in S : f[2] > e[2]}) < k}
Oldest(S, k) == {e \in S : Cardinality({f \in S : f[2] < e[2]}) < k}

ListEvents(c, after, limit) ==
  Oldest({e \in Messages(EventsOf(c)) : e[2] > after}, limit)

ListRecentEvents(c, before, limit) ==
  Newest({e \in Messages(EventsOf(c)) : e[2] < before}, limit)

\* GET /api/v1/conversations/:id/events?view=messages.
MessagePage(c, direction, bound, limit) ==
  IF direction = "before" THEN ListRecentEvents(c, bound, limit)
  ELSE ListEvents(c, bound, limit)

\* listConversationPage: nextSequence of every conversation.
ThreadList == [c \in Conversation |-> Len(log[c]) + 1]

\* Another device, a harness or an import adds to a conversation.
LaptopAppends(c) ==
  /\ Spend("append")
  /\ log' = [log EXCEPT ![c] = Append(@, "message")]
  /\ UNCHANGED <<files, active, list, replica, flags, task, course>>

-----------------------------------------------------------------------------
\* What the tasks do with events.

First(S) == CHOOSE n \in {e[2] : e \in S} : \A e \in S : n <= e[2]
Last(S) == CHOOSE n \in {e[2] : e \in S} : \A e \in S : e[2] <= n

\* merge.
Merge(S) == cache' = cache \cup S /\ screen' = screen \cup S

\* The window that hydrateEventsFromCache and refreshRecentMessages show.
Show(C) == cache' = C /\ screen' = Newest(Messages(C), PageSize)

\* A mutated Cursor: the end of the conversation as it was last listed.
CursorOfTheList(S) == IF active = None THEN 0 ELSE known[active] - 1

\* after, of refreshNewMessages.
Cursor(S) == IF S = {} THEN 0 ELSE Last(S)

\* persistCurrentEvents, enqueueCacheWrite.
Persist(C) ==
  /\ Len(writes) < MaxWrites
  /\ writes' = IF active = None THEN writes
               ELSE Append(writes, [of |-> active, events |-> C])

\* saveEvents refuses events of another conversation.
WriteLands ==
  /\ writes # <<>>
  /\ LET w == Head(writes)
     IN disk' = IF w.events \subseteq {w.of} \X Nat
                THEN [disk EXCEPT ![w.of] = w.events] ELSE disk
  /\ writes' = Tail(writes)
  /\ UNCHANGED <<log, active, list, replica, flags, task, course, budget>>

Request(t, pc, c, bound) ==
  Goes(t, At(pc, c, bound, 0, {})) /\ UNCHANGED course

\* startPolling, at the end of a task that synchronized: the poll before it is
\* cancelled, and the new one takes the place of the task.
StartPolling(t) ==
  /\ Goes(t, Asleep)
  /\ stage' = [stage EXCEPT ![t] = "poll"]
  /\ polling' = t /\ UNCHANGED unread

\* The end of a synchronization or of a round of the poll.
Round(t) ==
  CASE stage[t] # "poll" -> StartPolling(t)
    [] stage[t] = "poll" /\ polling = t -> Request(t, "sleep", None, 0)
    [] OTHER -> Request(t, "idle", None, 0)

\* refreshNewMessages or refreshRecentMessages is done.  Every fifth round lists
\* the threads, and an opening asks for the policy before it ends.
Done(t) ==
  CASE t \in Main -> Round(t) \/ (stage[t] = "poll" /\ Request(t, "list", None, 0))
    [] t \in Opening -> Request(t, "ending", task[t].of, 0)
    [] OTHER -> Request(t, "idle", None, 0)

-----------------------------------------------------------------------------
\* What the user does.

\* busy: a message is on its way.
Busy == task["send"].pc # "idle"

\* What selectConversation does where it goes on.
Open(c) ==
  /\ c # active /\ known[c] # 0
  /\ HasFree(Opening) /\ Spend("open")
  /\ active' = c
  /\ cache' = {} /\ screen' = {} /\ more' = FALSE
  /\ loading' = TRUE /\ paging' = FALSE
  /\ Request(Free(Opening), "hydrate", c, 0)
  /\ UNCHANGED <<log, files, list>>

\* A mutated SelectConversation: it does not look at busy.
SelectConversationWhileBusy(c) == Open(c)

SelectConversation(c) == ~Busy /\ Open(c)

\* A page of older messages may still be awaited for a conversation that was
\* open before: opening one lets the next page be asked for.
LoadOlderMessages ==
  /\ active # None /\ more /\ ~paging
  /\ HasFree(Paging) /\ Spend("page")
  /\ paging' = TRUE
  /\ Request(Free(Paging), "page", active, known[active])
  /\ UNCHANGED <<log, files, active, list, replica, loading>>

RetryConversationMessages ==
  /\ active # None /\ ~loading
  /\ HasFree(Opening) /\ Spend("open")
  /\ loading' = TRUE
  /\ Request(Free(Opening), "retry", active, 0)
  /\ UNCHANGED <<log, files, active, list, replica, paging>>

Send ==
  /\ active # None
  /\ ~Busy /\ Spend("send")
  /\ Request("send", "posted", active, 0)
  /\ UNCHANGED <<log, files, active, list, replica, flags>>

\* The app comes to the front: the poll is cancelled, which it sees at the end
\* of its round, and another task synchronizes.  start() is waited for.
BecameActive ==
  /\ \A t \in Main : stage[t] \notin {"launch", "start"}
  /\ HasFree(Main) /\ Spend("scene")
  /\ LET m == Free(Main)
     IN /\ Goes(m, At("begin", None, 0, 0, {}))
        /\ stage' = [stage EXCEPT ![m] = "resume"]
  /\ polling' = None
  /\ UNCHANGED <<log, files, active, list, replica, flags, unread>>

BecameInactive ==
  /\ polling # None /\ Spend("scene")
  /\ polling' = None
  /\ UNCHANGED <<log, files, active, list, replica, flags, task, stage, unread>>

\* The app is killed and launched again: restoreCache reads the index, which
\* may be an older one or missing, and so may its sequences and watermarks.
Launch(c, current) ==
  /\ Spend("launch")
  /\ writes' = <<>>
  /\ active' = c
  /\ IF current THEN UNCHANGED list
     ELSE /\ \/ known' = [d \in Conversation |-> IF known[d] = 0 THEN 0 ELSE 1]
             \/ known' = [d \in Conversation |-> 0]
          /\ watermark' = [d \in Conversation |-> 0]
  /\ c # None => known'[c] # 0
  /\ cache' = {} /\ screen' = {} /\ more' = FALSE
  /\ loading' = FALSE /\ paging' = FALSE
  /\ LET m == CHOOSE t \in Main : TRUE IN
       /\ task' = [t \in Task |->
                     IF t # m THEN Idle
                     ELSE IF c = None THEN Listing ELSE At("hydrate", c, 0, 0, {})]
       /\ stage' = [t \in Main |->
                      IF t # m THEN "poll" ELSE IF c = None THEN "start" ELSE "launch"]
  /\ polling' = None
  /\ unread' = [t \in Main |-> {}]
  /\ UNCHANGED <<log, disk>>

-----------------------------------------------------------------------------
\* The steps of the tasks on the main actor.

\* hydrateEventsFromCache reads the file on a thread of its own.
ReadFile(t) ==
  /\ task[t].pc = "hydrate"
  /\ Goes(t, At("hydrated", task[t].of, 0, 0, disk[task[t].of]))
  /\ UNCHANGED <<log, files, active, list, replica, flags, course, budget>>

\* What follows the hydration: a conversation that is opened is refreshed, the
\* launch lists the threads, and the prefetch goes on.
AfterHydration(t) ==
  LET c == task[t].of
  IN CASE t \notin Main /\ active = c -> Request(t, "recent", c, known[c])
       [] t \notin Main /\ active # c -> Request(t, "idle", None, 0)
       [] t \in Main /\ stage[t] = "launch" ->
            /\ Goes(t, Listing)
            /\ stage' = [stage EXCEPT ![t] = "start"] /\ UNCHANGED <<polling, unread>>
       [] t \in Main /\ stage[t] # "launch" -> Request(t, "next", None, 0)

Hydrated(t) ==
  /\ task[t].pc = "hydrated"
  /\ IF active = task[t].of
     THEN /\ Show(task[t].page)
          /\ more' = (\/ Cardinality(Messages(task[t].page)) > Cardinality(screen')
                      \/ Cardinality(screen') = PageSize)
     ELSE UNCHANGED replica
  /\ AfterHydration(t)
  /\ UNCHANGED <<log, files, active, list, flags, budget>>

\* A retry has no file to read first.
Retries(t) ==
  /\ task[t].pc = "retry"
  /\ LET c == task[t].of
     IN IF active = c THEN Request(t, "recent", c, known[c]) ELSE Done(t)
  /\ UNCHANGED <<log, files, active, list, replica, flags, budget>>

\* refreshRecentMessages, which goes on to refreshNewMessages.
RecentArrives(t) ==
  /\ task[t].pc = "recent"
  /\ LET c == task[t].of
         page == MessagePage(c, "before", task[t].bound, PageSize)
         merged == cache \cup page
     IN IF active = c
        THEN /\ Show(merged)
             /\ more' = (\/ Cardinality(Messages(merged)) > Cardinality(screen')
                         \/ Cardinality(page) = PageSize)
             /\ watermark' = [watermark EXCEPT ![c] = task[t].bound]
             /\ Persist(merged)
             /\ Request(t, "new", c, Cursor(screen'))
        ELSE Done(t) /\ UNCHANGED <<replica, watermark, writes>>
  /\ UNCHANGED <<log, disk, active, known, flags, budget>>

\* A page of refreshNewMessages: a full one is followed by another.
NewArrives(t) ==
  /\ task[t].pc = "new"
  /\ LET c == task[t].of
         page == MessagePage(c, "after", task[t].bound, PollPage)
     IN IF active # c
        THEN Done(t) /\ UNCHANGED <<replica, writes>>
        ELSE /\ Merge(page) /\ UNCHANGED more
             /\ IF Cardinality(page) < PollPage
                THEN Persist(cache') /\ Done(t)
                ELSE Request(t, "new", c, Last(page)) /\ UNCHANGED writes
  /\ UNCHANGED <<log, disk, active, list, flags, budget>>

\* The end of an opening or a retry: another of the same conversation may still
\* be on its way.
OpeningEnds(t) ==
  /\ task[t].pc = "ending"
  /\ loading' = (loading /\ active # task[t].of)
  /\ Request(t, "idle", None, 0)
  /\ UNCHANGED <<log, files, active, list, replica, paging, budget>>

\* The task of loadOlderMessages ends: whatever is open by then may be paged back.
PagingEnds(t) == paging' = FALSE /\ Request(t, "idle", None, 0)

\* Its page of the cache comes first; what it lacks is asked of the laptop.
PageBack(t) ==
  /\ task[t].pc = "page"
  /\ LET c == task[t].of
         shown == Messages(screen)
         before == IF shown = {} THEN task[t].bound ELSE First(shown)
         page == Newest({e \in Messages(cache) : e[2] < before}, PageSize)
         remaining == PageSize - Cardinality(page)
     IN IF active # c
        THEN PagingEnds(t) /\ UNCHANGED replica
        ELSE /\ Merge(page)
             /\ IF remaining = 0
                THEN more' = TRUE /\ PagingEnds(t)
                ELSE /\ Goes(t, At("older", c, IF page = {} THEN before ELSE First(page),
                                   remaining, {}))
                     /\ UNCHANGED <<more, paging, course>>
  /\ UNCHANGED <<log, files, active, list, loading, budget>>

OlderArrives(t) ==
  /\ task[t].pc = "older"
  /\ LET r == task[t]
         page == MessagePage(r.of, "before", r.bound, r.limit)
     IN IF active = r.of
        THEN /\ Merge(page)
             /\ more' = (Cardinality(page) = r.limit)
             /\ Persist(cache')
        ELSE UNCHANGED <<replica, writes>>
  /\ PagingEnds(t)
  /\ UNCHANGED <<log, disk, active, list, loading, budget>>

\* The turn of a message has run: its result is all the events of the turn,
\* and it is merged whatever is active by then.
TurnResult ==
  /\ task["send"].pc = "posted"
  /\ LET c == task["send"].of
         turn == <<"message", "message", "activity">>
     IN /\ log' = [log EXCEPT ![c] = @ \o turn]
        /\ Merge({c} \X ((Len(log[c]) + 1) .. (Len(log[c]) + Len(turn))))
  /\ UNCHANGED more
  /\ Persist(cache')
  /\ Request("send", "idle", None, 0)
  /\ UNCHANGED <<disk, active, list, flags, budget>>

\* isSyncing.
Syncing == \E t \in Main : stage[t] \in {"start", "sync"}

\* The task of becameActive: synchronizeFromLaptop returns at once where another
\* runs.
Resumes(t) ==
  /\ task[t].pc = "begin"
  /\ IF Syncing THEN StartPolling(t)
     ELSE /\ Goes(t, Listing)
          /\ stage' = [stage EXCEPT ![t] = "sync"] /\ UNCHANGED <<polling, unread>>
  /\ UNCHANGED <<log, files, active, list, replica, flags, budget>>

\* A round of the poll.  One that is cancelled in its sleep wakes for another: it
\* looks at the cancellation before the sleep only.
Poll(t) ==
  /\ task[t].pc = "sleep"
  /\ IF active # None THEN Request(t, "new", active, Cursor(screen)) ELSE Done(t)
  /\ UNCHANGED <<log, files, active, list, replica, flags, budget>>

\* refreshLoadedThreadWindow.
ListThreads(t) ==
  /\ task[t].pc = "list"
  /\ known' = ThreadList
  /\ unread' = [unread EXCEPT ![t] = Conversation]
  /\ Goes(t, At("next", None, 0, 0, {}))
  /\ UNCHANGED <<log, files, active, watermark, replica, flags, stage, polling, budget>>

\* prefetchRecentMessages: the next conversation, if something is new in it.
PrefetchNext(t, c) ==
  /\ task[t].pc = "next" /\ c \in unread[t]
  /\ unread' = [unread EXCEPT ![t] = @ \ {c}]
  /\ IF watermark[c] = known[c] THEN UNCHANGED task
     ELSE Goes(t, At("prefetch", c, known[c], 0, {}))
  /\ UNCHANGED <<log, files, active, list, replica, flags, stage, polling, budget>>

\* The file is read, merged and written on a thread of its own, not in its turn
\* among the writes that wait.
PrefetchReads(t) ==
  /\ task[t].pc = "prefetch"
  /\ LET r == task[t]
     IN Goes(t, At("merged", r.of, r.bound, 0,
               disk[r.of] \cup MessagePage(r.of, "before", r.bound, PageSize)))
  /\ UNCHANGED <<log, files, active, list, replica, flags, course, budget>>

PrefetchSaves(t) ==
  /\ task[t].pc = "merged"
  /\ disk' = [disk EXCEPT ![task[t].of] = task[t].page]
  /\ Request(t, "saved", task[t].of, task[t].bound)
  /\ UNCHANGED <<log, writes, active, list, replica, flags, budget>>

Prefetched(t) ==
  /\ task[t].pc = "saved"
  /\ LET c == task[t].of
     IN /\ watermark' = [watermark EXCEPT ![c] = task[t].bound]
        /\ IF active = c THEN Request(t, "hydrate", c, 0) ELSE Request(t, "next", None, 0)
  /\ UNCHANGED <<log, files, active, known, replica, flags, budget>>

\* The rest of synchronizeFromLaptop and of a round, once all is prefetched.
ThreadsAreListed(t) ==
  /\ task[t].pc = "next" /\ unread[t] = {}
  /\ CASE stage[t] = "poll" -> Round(t) /\ UNCHANGED active
       [] stage[t] # "poll" /\ active = None ->
            \E c \in Conversation : active' = c /\ Request(t, "hydrate", c, 0)
       [] OTHER ->
            /\ IF Messages(screen) = {} THEN Request(t, "recent", active, known[active])
               ELSE Request(t, "new", active, Cursor(screen))
            /\ UNCHANGED active
  /\ UNCHANGED <<log, files, list, replica, flags, budget>>

\* The poll's task was cancelled: what it awaits may fail of that alone.
Cancelled(t) == t \in Main /\ stage[t] = "poll" /\ polling # t

\* A request that fails: a message that failed has the new messages read, one
\* conversation that is not prefetched does not keep the others from it.
RequestFails(t) ==
  /\ Spend("fault") \/ (Cancelled(t) /\ UNCHANGED budget)
  /\ CASE task[t].pc \in {"recent", "new"} -> Done(t) /\ UNCHANGED flags
       [] task[t].pc = "list" -> Round(t) /\ UNCHANGED flags
       [] task[t].pc = "older" -> PagingEnds(t) /\ UNCHANGED loading
       [] task[t].pc = "posted" ->
            Request(t, "new", task[t].of, Cursor(screen)) /\ UNCHANGED flags
       [] task[t].pc = "prefetch" -> Request(t, "next", None, 0) /\ UNCHANGED flags
       [] OTHER -> FALSE
  /\ UNCHANGED <<log, files, active, list, replica>>

\* A file that cannot be read leaves the conversation without its messages.
ReadFails(t) ==
  /\ task[t].pc = "hydrate" /\ Spend("fault")
  /\ Goes(t, At("hydrated", task[t].of, 0, 0, {}))
  /\ UNCHANGED <<log, files, active, list, replica, flags, course>>

-----------------------------------------------------------------------------
MainStep(t) ==
  \/ Resumes(t) \/ Poll(t)
  \/ ListThreads(t)
  \/ \E c \in Conversation : PrefetchNext(t, c)
  \/ PrefetchReads(t) \/ PrefetchSaves(t) \/ Prefetched(t)
  \/ ThreadsAreListed(t)

TaskStep(t) ==
  \/ ReadFile(t) \/ Hydrated(t)
  \/ RecentArrives(t) \/ NewArrives(t)
  \/ Retries(t) \/ OpeningEnds(t)
  \/ PageBack(t) \/ OlderArrives(t)
  \/ t = "send" /\ TurnResult
  \/ t \in Main /\ MainStep(t)

\* The views come with phase = .paired, after the cache is restored.
User ==
  /\ \A t \in Main : stage[t] # "launch"
  /\ \/ \E c \in Conversation : SelectConversation(c)
     \/ LoadOlderMessages \/ RetryConversationMessages
     \/ Send
     \/ BecameActive \/ BecameInactive

Next ==
  \/ \E c \in Conversation : LaptopAppends(c)
  \/ User
  \/ \E c \in Conversation \cup {None}, current \in BOOLEAN : Launch(c, current)
  \/ \E t \in Task : TaskStep(t) \/ RequestFails(t) \/ ReadFails(t)
  \/ WriteLands

Spec == Init /\ [][Next]_vars

\* The tasks go on while the app runs, and the disk writes what it is given.
Fairness ==
  /\ \A t \in Task : WF_vars(TaskStep(t))
  /\ WF_vars(WriteLands)

FairSpec == Spec /\ Fairness

-----------------------------------------------------------------------------
\* Properties.

\* The cache, the screen, the writes and the files hold events of their own
\* conversation, although every task goes on after an await during which the
\* user may have opened another one, or left it and come back.
ConversationsStayApart ==
  /\ \A e \in cache \cup screen : e[1] = active
  /\ \A i \in DOMAIN writes : \A e \in writes[i].events : e[1] = writes[i].of
  /\ \A c \in Conversation : \A e \in disk[c] : e[1] = c

\* While the phone polls, the last message of the conversation that is open comes
\* to the screen and stays there, although windows are rebuilt from files that lag
\* behind and rounds of a cancelled poll overlap with those of the next.
NewestMessageStays ==
  <>[](active # None /\ polling # None =>
         Newest(Messages(EventsOf(active)), 1) \subseteq screen)

=============================================================================
