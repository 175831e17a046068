------------------------ MODULE MobileReplica_proofs ------------------------
(***************************************************************************)
(* The conversations on the phone stay apart, for every number of them,    *)
(* every size of a page, every number of tasks of each kind that await at  *)
(* once and every number of openings, failures and launches.               *)
(*                                                                         *)
(* A task that awaits holds the conversation it was started for, and what  *)
(* it brings is of that conversation; what it merges is of the active one  *)
(* because it looks again after the await.  Only the result of a message   *)
(* is merged without that look: a message on its way is always one of the  *)
(* active conversation, for nothing else can be opened meanwhile.          *)
(***************************************************************************)
EXTENDS MobileReplica, TLAPS

Own(c) == {c} \X Nat
Write == [of : Conversation, events : SUBSET (Conversation \X Nat)]

\* A task that is at one of these is not about a conversation.
Quiet == {"idle", "sleep", "begin", "list", "next"}

Fits(r) ==
  /\ r.page \subseteq Own(r.of)
  /\ r.pc \notin Quiet => r.of \in Conversation

Sending(r) ==
  /\ r.pc \in {"idle", "posted", "new"}
  /\ r.pc # "idle" => r.of = active /\ active \in Conversation

TaskInv ==
  /\ task = [t \in Task |-> task[t]]
  /\ \A t \in Task : Fits(task[t])
  /\ Sending(task["send"])

LogInv == log \in [Conversation -> Seq({"message", "activity"})]

ReplicaInv ==
  /\ active \in Conversation \cup {None}
  /\ cache \subseteq Own(active) /\ screen \subseteq Own(active)
  /\ active = None => cache = {} /\ screen = {}

FilesInv ==
  /\ disk = [c \in Conversation |-> disk[c]]
  /\ \A c \in Conversation : disk[c] \subseteq Own(c)
  /\ writes \in Seq(Write)
  /\ \A i \in 1 .. Len(writes) : writes[i].events \subseteq Own(writes[i].of)

IInv == LogInv /\ ReplicaInv /\ FilesInv /\ TaskInv

-----------------------------------------------------------------------------
\* Facts about the operators.

LEMMA Chosen ==
  ASSUME NEW S, NEW k
  PROVE  Messages(S) \subseteq S /\ Newest(S, k) \subseteq S /\ Oldest(S, k) \subseteq S
BY DEF Messages, Newest, Oldest

\* A page is of the conversation that was asked for.
LEMMA PageIsOwn ==
  ASSUME LogInv, NEW c \in Conversation, NEW d, NEW b, NEW k
  PROVE  MessagePage(c, d, b, k) \subseteq Own(c)
<1>1. Len(log[c]) \in Nat
  BY DEF LogInv
<1>2. EventsOf(c) \subseteq Own(c)
  BY <1>1 DEF EventsOf, Own
<1>3. Messages(EventsOf(c)) \subseteq Own(c)
  BY <1>2, Chosen
<1>4. ListRecentEvents(c, b, k) \subseteq Own(c)
  BY <1>3 DEF ListRecentEvents, Newest
<1>5. ListEvents(c, b, k) \subseteq Own(c)
  BY <1>3 DEF ListEvents, Oldest
<1> QED BY <1>4, <1>5 DEF MessagePage

LEMMA TasksAre ==
  /\ "send" \in Task /\ Main \subseteq Task /\ Opening \subseteq Task /\ Paging \subseteq Task
  /\ "send" \notin Main /\ "send" \notin Opening /\ "send" \notin Paging
BY ReplicaAssumption DEF Task

LEMMA FreeIs ==
  ASSUME NEW S, HasFree(S)
  PROVE  Free(S) \in S
BY DEF HasFree, Free

LEMMA AtFits ==
  ASSUME NEW pc, NEW c, NEW b, NEW l, pc \in Quiet \/ c \in Conversation
  PROVE  Fits(At(pc, c, b, l, {}))
BY DEF Fits, At

LEMMA GoesFits ==
  ASSUME TaskInv, UNCHANGED active, NEW t \in Task, NEW r, Goes(t, r), Fits(r),
         t = "send" => Sending(r)
  PROVE  TaskInv'
<1>1. task' = [u \in Task |-> IF u = t THEN r ELSE task[u]]
  BY DEF TaskInv, Goes
<1>2. \A u \in Task : task'[u] = IF u = t THEN r ELSE task[u]
  BY <1>1
<1>3. task' = [u \in Task |-> task'[u]]
  BY <1>1
<1>4. \A u \in Task : Fits(task[u])
  BY DEF TaskInv
<1>5. \A u \in Task : Fits(task'[u])
  BY <1>2, <1>4
<1>6. \A u \in Task : Fits(task[u])'
  BY <1>5 DEF Fits
<1>7. Sending(task["send"])'
  <2>1. task'["send"] = IF t = "send" THEN r ELSE task["send"]
    BY <1>2, TasksAre
  <2>2. Sending(task["send"])
    BY DEF TaskInv
  <2> QED BY <2>1, <2>2 DEF Sending
<1> QED BY <1>3, <1>6, <1>7 DEF TaskInv

LEMMA TasksStay ==
  ASSUME TaskInv, UNCHANGED <<task, active>>
  PROVE  TaskInv'
BY DEF TaskInv, Fits, Sending

LEMMA RequestFits ==
  ASSUME TaskInv, UNCHANGED active, NEW t \in Task, NEW pc, NEW c, NEW b,
         Request(t, pc, c, b), pc \in Quiet \/ c \in Conversation,
         t = "send" => pc \in {"posted", "new"} /\ c = active /\ active \in Conversation
  PROVE  TaskInv'
<1>1. Goes(t, At(pc, c, b, 0, {})) /\ Fits(At(pc, c, b, 0, {}))
  BY AtFits DEF Request
<1>2. t = "send" => Sending(At(pc, c, b, 0, {}))
  BY DEF Sending, At
<1> QED BY <1>1, <1>2, GoesFits

\* A main task is never the one that sends.
LEMMA StartFits ==
  ASSUME TaskInv, UNCHANGED active, NEW t \in Main, StartPolling(t)
  PROVE  TaskInv'
<1>1. Goes(t, Asleep) /\ Fits(Asleep)
  BY AtFits DEF StartPolling, Asleep, Quiet
<1> QED BY <1>1, TasksAre, GoesFits

LEMMA RoundFits ==
  ASSUME TaskInv, UNCHANGED active, NEW t \in Main, Round(t)
  PROVE  TaskInv'
<1>1. \/ StartPolling(t)
      \/ Request(t, "sleep", None, 0)
      \/ Request(t, "idle", None, 0)
  BY DEF Round
<1> QED BY <1>1, StartFits, RequestFits, TasksAre DEF Quiet

LEMMA EndFits ==
  ASSUME TaskInv, UNCHANGED active, NEW t \in Task, Request(t, "idle", None, 0)
  PROVE  TaskInv'
<1>1. Goes(t, At("idle", None, 0, 0, {})) /\ Fits(At("idle", None, 0, 0, {}))
  BY AtFits DEF Request, Quiet
<1>2. Sending(At("idle", None, 0, 0, {}))
  BY DEF Sending, At
<1> QED BY <1>1, <1>2, GoesFits

\* A task of which the messages are there is about a conversation.
LEMMA DoneFits ==
  ASSUME TaskInv, UNCHANGED active, NEW t \in Task, Done(t),
         t \in Main \/ task[t].of \in Conversation
  PROVE  TaskInv'
<1>1. CASE t \in Main
  <2>1. t \notin Opening
    BY <1>1, ReplicaAssumption
  <2>2. Round(t) \/ Request(t, "list", None, 0)
    BY <1>1, <2>1 DEF Done
  <2> QED BY <1>1, <2>2, RoundFits, RequestFits, TasksAre DEF Quiet
<1>2. CASE t \notin Main /\ t \in Opening
  <2>1. Request(t, "ending", task[t].of, 0)
    BY <1>2 DEF Done
  <2> QED BY <1>2, <2>1, RequestFits, TasksAre
<1>3. CASE t \notin Main /\ t \notin Opening
  BY <1>3, EndFits DEF Done
<1> QED BY <1>1, <1>2, <1>3

\* Another conversation becomes active while no message is on its way.
LEMMA OpeningFits ==
  ASSUME TaskInv, task["send"].pc = "idle", NEW c \in Conversation,
         NEW t \in Task, t # "send", Request(t, "hydrate", c, 0)
  PROVE  TaskInv'
<1> DEFINE r == At("hydrate", c, 0, 0, {})
<1>1. Fits(r)
  BY AtFits
<1> HIDE DEF r
<1>2. task' = [u \in Task |-> IF u = t THEN r ELSE task[u]]
  BY DEF TaskInv, Request, Goes, r
<1>3. \A u \in Task : Fits(task'[u])
  BY <1>1, <1>2 DEF TaskInv
<1>4. task' = [u \in Task |-> task'[u]] /\ task'["send"].pc = "idle"
  BY <1>2, TasksAre
<1> QED BY <1>3, <1>4 DEF TaskInv, Fits, Sending

\* A write that is queued is of the active conversation.
LEMMA PersistFits ==
  ASSUME FilesInv, ReplicaInv, UNCHANGED disk, NEW C, C \subseteq Own(active), Persist(C)
  PROVE  FilesInv'
<1>1. CASE active = None
  BY <1>1 DEF Persist, FilesInv
<1>2. CASE active # None
  <2> DEFINE w == [of |-> active, events |-> C]
  <2>1. active \in Conversation /\ C \subseteq Conversation \X Nat
    BY <1>2 DEF ReplicaInv, Own
  <2>2. w \in Write /\ w.events \subseteq Own(w.of)
    BY <2>1 DEF Write
  <2>3. writes' = Append(writes, w)
    BY <1>2 DEF Persist
  <2> HIDE DEF w
  <2>4. /\ writes' \in Seq(Write)
        /\ \A i \in 1 .. Len(writes') : writes'[i].events \subseteq Own(writes'[i].of)
    BY <2>2, <2>3 DEF FilesInv
  <2> QED BY <2>4 DEF FilesInv
<1> QED BY <1>1, <1>2

LEMMA MergeFits ==
  ASSUME ReplicaInv, UNCHANGED active, active # None,
         NEW S, S \subseteq Own(active), Merge(S)
  PROVE  ReplicaInv' /\ cache' \subseteq Own(active)
BY DEF ReplicaInv, Merge

LEMMA ShowFits ==
  ASSUME ReplicaInv, UNCHANGED active, active # None,
         NEW C, C \subseteq Own(active), Show(C)
  PROVE  ReplicaInv'
BY Chosen DEF ReplicaInv, Show, Newest

LEMMA FilesStay == ASSUME FilesInv, UNCHANGED files PROVE FilesInv'
BY DEF FilesInv, files

LEMMA ReplicaStays == ASSUME ReplicaInv, UNCHANGED <<active, cache, screen>> PROVE ReplicaInv'
BY DEF ReplicaInv

-----------------------------------------------------------------------------
\* The invariant is inductive.

LEMMA InitIInv == Init => IInv
<1> SUFFICES ASSUME Init PROVE IInv
  OBVIOUS
<1>1. LogInv
  BY ReplicaAssumption DEF Init, LogInv
<1>2. ReplicaInv
  BY DEF Init, ReplicaInv
<1>3. FilesInv
  BY DEF Init, FilesInv
<1>4. TaskInv
  <2>1. Fits(Idle) /\ Sending(Idle) /\ Fits(Listing)
    BY AtFits DEF Idle, Listing, Quiet, Sending, At
  <2>2. PICK m \in Main : task = [t \in Task |-> IF t = m THEN Listing ELSE Idle]
    BY ReplicaAssumption DEF Init
  <2>3. task["send"] = Idle /\ \A t \in Task : task[t] \in {Idle, Listing}
    BY <2>2, TasksAre
  <2>4. task = [t \in Task |-> task[t]]
    BY <2>2
  <2> QED BY <2>1, <2>3, <2>4 DEF TaskInv
<1> QED BY <1>1, <1>2, <1>3, <1>4 DEF IInv

LEMMA UserKeeps == ASSUME IInv, User PROVE IInv'
<1> USE DEF IInv
<1>1. ASSUME NEW c \in Conversation, SelectConversation(c) PROVE IInv'
  <2>1. /\ ~Busy /\ active' = c /\ cache' = {} /\ screen' = {} /\ UNCHANGED <<log, files>>
        /\ HasFree(Opening) /\ Request(Free(Opening), "hydrate", c, 0)
    BY <1>1 DEF SelectConversation, Open
  <2>2. ReplicaInv'
    BY <2>1 DEF ReplicaInv
  <2>3. FilesInv' /\ LogInv'
    BY <2>1, FilesStay DEF LogInv
  <2>4. TaskInv'
    <3>1. Free(Opening) \in Task /\ Free(Opening) # "send"
      BY <2>1, FreeIs, TasksAre
    <3> QED BY <2>1, <3>1, OpeningFits DEF Busy
  <2> QED BY <2>2, <2>3, <2>4
<1>2. CASE LoadOlderMessages
  <2>1. /\ active # None /\ UNCHANGED <<log, files, active, replica>>
        /\ HasFree(Paging) /\ Request(Free(Paging), "page", active, known[active])
    BY <1>2 DEF LoadOlderMessages
  <2>2. active \in Conversation /\ Free(Paging) \in Task /\ Free(Paging) # "send"
    BY <2>1, FreeIs, TasksAre DEF ReplicaInv
  <2>3. TaskInv'
    BY <2>1, <2>2, RequestFits
  <2> QED BY <2>1, <2>3, ReplicaStays, FilesStay DEF LogInv, replica
<1>4. CASE RetryConversationMessages
  <2>1. /\ active # None /\ UNCHANGED <<log, files, active, replica>>
        /\ HasFree(Opening) /\ Request(Free(Opening), "retry", active, 0)
    BY <1>4 DEF RetryConversationMessages
  <2>2. active \in Conversation /\ Free(Opening) \in Task /\ Free(Opening) # "send"
    BY <2>1, FreeIs, TasksAre DEF ReplicaInv
  <2>3. TaskInv'
    BY <2>1, <2>2, RequestFits
  <2> QED BY <2>1, <2>3, ReplicaStays, FilesStay DEF LogInv, replica
<1>5. CASE BecameActive
  <2>1. /\ UNCHANGED <<log, files, active, replica>>
        /\ HasFree(Main) /\ Goes(Free(Main), At("begin", None, 0, 0, {}))
    BY <1>5 DEF BecameActive
  <2>2. Free(Main) \in Task /\ Free(Main) # "send"
    BY <2>1, FreeIs, TasksAre
  <2>3. TaskInv'
    BY <2>1, <2>2, GoesFits, AtFits DEF Quiet
  <2> QED BY <2>1, <2>3, ReplicaStays, FilesStay DEF LogInv, replica
<1>6. CASE BecameInactive
  <2>1. UNCHANGED <<log, files, active, replica, task>>
    BY <1>6 DEF BecameInactive
  <2> QED BY <2>1, ReplicaStays, FilesStay, TasksStay DEF LogInv, replica
<1>3. CASE Send
  <2>1. active # None /\ UNCHANGED <<log, files, active, replica>> /\ Request("send", "posted", active, 0)
    BY <1>3 DEF Send
  <2>2. active \in Conversation
    BY <2>1 DEF ReplicaInv
  <2>3. TaskInv'
    BY <2>1, <2>2, RequestFits, TasksAre
  <2>4. ReplicaInv' /\ FilesInv' /\ LogInv'
    BY <2>1, ReplicaStays, FilesStay DEF LogInv, replica
  <2> QED BY <2>3, <2>4
<1> QED BY <1>1, <1>2, <1>3, <1>4, <1>5, <1>6 DEF User

LEMMA LaunchKeeps ==
  ASSUME IInv, NEW c \in Conversation \cup {None}, NEW current \in BOOLEAN, Launch(c, current)
  PROVE  IInv'
<1> DEFINE r == IF c = None THEN Listing ELSE At("hydrate", c, 0, 0, {})
           m == CHOOSE t \in Main : TRUE
<1>1. /\ writes' = <<>> /\ active' = c /\ cache' = {} /\ screen' = {} /\ UNCHANGED <<log, disk>>
      /\ task' = [t \in Task |-> IF t # m THEN Idle ELSE r]
  BY DEF Launch
<1>2. Fits(Idle) /\ Idle.pc = "idle" /\ Fits(r)
  BY AtFits DEF Idle, Listing, At, Quiet
<1>7. m \in Main
  BY ReplicaAssumption
<1> HIDE DEF r, m
<1>3. \A t \in Task : Fits(task'[t])
  BY <1>1, <1>2
<1>4. task' = [t \in Task |-> task'[t]] /\ task'["send"].pc = "idle"
  BY <1>1, <1>2, <1>7, TasksAre
<1>5. TaskInv'
  BY <1>3, <1>4 DEF TaskInv, Fits, Sending
<1>6. LogInv' /\ ReplicaInv' /\ FilesInv'
  BY <1>1 DEF IInv, LogInv, ReplicaInv, FilesInv
<1> QED BY <1>5, <1>6 DEF IInv

LEMMA WriteKeeps == ASSUME IInv, WriteLands PROVE IInv'
<1> USE DEF IInv
<1> DEFINE w == Head(writes)
<1>1. /\ writes # <<>> /\ writes' = Tail(writes) /\ UNCHANGED <<log, active, replica, task>>
      /\ disk' = IF w.events \subseteq {w.of} \X Nat THEN [disk EXCEPT ![w.of] = w.events] ELSE disk
  BY DEF WriteLands
<1>2. w = writes[1] /\ w \in Write /\ w.events \subseteq Own(w.of)
  BY <1>1 DEF FilesInv
<1> HIDE DEF w
<1>3. w.of \in Conversation
  BY <1>2 DEF Write
<1>4. disk' = [c \in Conversation |-> disk'[c]] /\ \A c \in Conversation : disk'[c] \subseteq Own(c)
  BY <1>1, <1>2, <1>3 DEF FilesInv
<1>5. writes' \in Seq(Write) /\ Len(writes') = Len(writes) - 1
  BY <1>1 DEF FilesInv
<1>6. \A i \in 1 .. Len(writes') : i + 1 \in 1 .. Len(writes) /\ writes'[i] = writes[i + 1]
  BY <1>1, <1>5 DEF FilesInv
<1>7. \A i \in 1 .. Len(writes') : writes'[i].events \subseteq Own(writes'[i].of)
  BY <1>6 DEF FilesInv
<1>8. FilesInv'
  BY <1>4, <1>5, <1>7 DEF FilesInv
<1>9. LogInv' /\ ReplicaInv' /\ TaskInv'
  BY <1>1, ReplicaStays, TasksStay DEF LogInv, replica
<1> QED BY <1>8, <1>9

-----------------------------------------------------------------------------
\* The tasks.

LEMMA FileRead == ASSUME IInv, NEW t \in Task, ReadFile(t) \/ ReadFails(t) PROVE IInv'
<1> USE DEF IInv
<1>1. task[t].pc = "hydrate" /\ UNCHANGED <<log, files, active, replica>>
  BY DEF ReadFile, ReadFails
<1>2. task[t].of \in Conversation /\ t # "send"
  BY <1>1 DEF TaskInv, Fits, Quiet, Sending
<1>3. \E S : S \subseteq Own(task[t].of) /\ Goes(t, At("hydrated", task[t].of, 0, 0, S))
  BY <1>2 DEF ReadFile, ReadFails, FilesInv
<1>4. ASSUME NEW S, S \subseteq Own(task[t].of), Goes(t, At("hydrated", task[t].of, 0, 0, S))
      PROVE  TaskInv'
  <2>1. Fits(At("hydrated", task[t].of, 0, 0, S))
    BY <1>2, <1>4 DEF Fits, At
  <2> QED BY <1>1, <1>2, <1>4, <2>1, GoesFits
<1>5. LogInv' /\ ReplicaInv' /\ FilesInv'
  BY <1>1, ReplicaStays, FilesStay DEF LogInv, replica
<1> QED BY <1>3, <1>4, <1>5

LEMMA HydratedKeeps == ASSUME IInv, NEW t \in Task, Hydrated(t) PROVE IInv'
<1> USE DEF IInv
<1>1. task[t].pc = "hydrated" /\ UNCHANGED <<log, files, active>> /\ AfterHydration(t)
  BY DEF Hydrated
<1>2. task[t].of \in Conversation /\ task[t].page \subseteq Own(task[t].of) /\ t # "send"
  BY <1>1 DEF TaskInv, Fits, Quiet, Sending
<1>3. ReplicaInv'
  <2>1. CASE active = task[t].of
    BY <1>1, <1>2, <2>1, ReplicaAssumption, ShowFits DEF Hydrated
  <2>2. CASE active # task[t].of
    BY <1>1, <2>2, ReplicaStays DEF Hydrated, replica
  <2> QED BY <2>1, <2>2
<1>4. TaskInv'
  <2>1. CASE t \notin Main /\ active = task[t].of
    <3>1. Request(t, "recent", task[t].of, known[task[t].of])
      BY <1>1, <2>1 DEF AfterHydration
    <3> QED BY <1>1, <1>2, <3>1, RequestFits
  <2>2. CASE t \notin Main /\ active # task[t].of
    BY <1>1, <2>2, EndFits DEF AfterHydration
  <2>3. CASE t \in Main /\ stage[t] = "launch"
    <3>1. Goes(t, Listing)
      BY <1>1, <2>3 DEF AfterHydration
    <3> QED BY <1>1, <1>2, <3>1, GoesFits, AtFits DEF Quiet, Listing
  <2>4. CASE t \in Main /\ stage[t] # "launch"
    <3>1. Request(t, "next", None, 0)
      BY <1>1, <2>4 DEF AfterHydration
    <3> QED BY <1>1, <1>2, <3>1, RequestFits DEF Quiet
  <2> QED BY <2>1, <2>2, <2>3, <2>4
<1>5. LogInv' /\ FilesInv'
  BY <1>1, FilesStay DEF LogInv
<1> QED BY <1>3, <1>4, <1>5

\* What a task that waits for a page knows.
LEMMA Waiting ==
  ASSUME IInv, NEW t \in Task, task[t].pc \notin Quiet
  PROVE  /\ task[t].of \in Conversation
         /\ t = "send" => task[t].of = active /\ active \in Conversation
         /\ \A d, b, k : MessagePage(task[t].of, d, b, k) \subseteq Own(task[t].of)
<1>1. task[t].of \in Conversation
  BY DEF IInv, TaskInv, Fits
<1>2. t = "send" => task[t].of = active /\ active \in Conversation
  BY DEF IInv, TaskInv, Sending, Quiet
<1> QED BY <1>1, <1>2, PageIsOwn DEF IInv

LEMMA RetryKeeps == ASSUME IInv, NEW t \in Task, Retries(t) PROVE IInv'
<1> USE DEF IInv
<1> DEFINE c == task[t].of
<1>1. /\ task[t].pc = "retry" /\ UNCHANGED <<log, files, active, replica>>
      /\ Request(t, "recent", c, known[c]) \/ Done(t)
  BY DEF Retries
<1>2. c \in Conversation /\ t # "send"
  BY <1>1, Waiting DEF Quiet, TaskInv, Sending
<1>3. TaskInv'
  BY <1>1, <1>2, RequestFits, DoneFits
<1> QED BY <1>1, <1>3, ReplicaStays, FilesStay DEF LogInv, replica

LEMMA EndingKeeps == ASSUME IInv, NEW t \in Task, OpeningEnds(t) PROVE IInv'
<1>1. UNCHANGED <<log, files, active, replica>> /\ Request(t, "idle", None, 0)
  BY DEF OpeningEnds
<1> QED BY <1>1, EndFits, ReplicaStays, FilesStay DEF IInv, LogInv, replica

LEMMA PageKeeps == ASSUME IInv, NEW t \in Task, PageBack(t) PROVE IInv'
<1> USE DEF IInv
<1> DEFINE c == task[t].of
           page(b) == Newest({e \in Messages(cache) : e[2] < b}, PageSize)
<1>1. task[t].pc = "page" /\ UNCHANGED <<log, files, active>>
  BY DEF PageBack
<1>2. c \in Conversation /\ t # "send"
  BY <1>1, Waiting DEF Quiet, TaskInv, Sending
<1>3. LogInv' /\ FilesInv'
  BY <1>1, FilesStay DEF LogInv
<1>4. CASE active # c
  <2>1. Request(t, "idle", None, 0) /\ UNCHANGED replica
    BY <1>4 DEF PageBack, PagingEnds
  <2> QED BY <1>1, <1>3, <2>1, EndFits, ReplicaStays DEF replica
<1>5. CASE active = c
  <2>1. \A b : page(b) \subseteq Own(active)
    BY DEF ReplicaInv, Newest, Messages
  <2>2. \E b : Merge(page(b))
    BY <1>5 DEF PageBack
  <2>3. \/ Request(t, "idle", None, 0)
        \/ \E n, l : Goes(t, At("older", c, n, l, {}))
    BY <1>5 DEF PageBack, PagingEnds
  <2> HIDE DEF page
  <2>4. ReplicaInv'
    BY <1>1, <1>2, <1>5, <2>1, <2>2, ReplicaAssumption, MergeFits
  <2>5. TaskInv'
    BY <1>1, <1>2, <2>3, EndFits, GoesFits, AtFits
  <2> QED BY <1>3, <2>4, <2>5
<1> QED BY <1>4, <1>5

LEMMA RecentKeeps == ASSUME IInv, NEW t \in Task, RecentArrives(t) PROVE IInv'
<1> USE DEF IInv
<1> DEFINE c == task[t].of
           merged == cache \cup MessagePage(c, "before", task[t].bound, PageSize)
<1>1. task[t].pc = "recent" /\ UNCHANGED <<log, disk, active>>
  BY DEF RecentArrives
<1>2. c \in Conversation /\ t # "send"
  BY <1>1, Waiting DEF Quiet, TaskInv, Sending
<1>3. CASE active = c
  <2>1. Show(merged) /\ Persist(merged) /\ Request(t, "new", c, Cursor(screen'))
    BY <1>3 DEF RecentArrives
  <2>2. merged \subseteq Own(active)
    BY <1>1, <1>3, Waiting DEF ReplicaInv, Quiet
  <2> HIDE DEF merged
  <2>3. ReplicaInv' /\ FilesInv'
    BY <1>1, <1>2, <1>3, <2>1, <2>2, ReplicaAssumption, ShowFits, PersistFits
  <2>4. TaskInv'
    BY <1>1, <1>2, <2>1, RequestFits
  <2> QED BY <1>1, <2>3, <2>4 DEF LogInv
<1>4. CASE active # c
  <2>1. Done(t) /\ UNCHANGED <<replica, writes>>
    BY <1>4 DEF RecentArrives
  <2> QED BY <1>1, <1>2, <2>1, DoneFits, ReplicaStays, FilesStay DEF LogInv, replica, files
<1> QED BY <1>3, <1>4

LEMMA NewKeeps == ASSUME IInv, NEW t \in Task, NewArrives(t) PROVE IInv'
<1> USE DEF IInv
<1> DEFINE c == task[t].of
           page == MessagePage(c, "after", task[t].bound, PollPage)
<1>1. task[t].pc = "new" /\ UNCHANGED <<log, disk, active>>
  BY DEF NewArrives
<1>2. c \in Conversation /\ (t = "send" => c = active /\ active \in Conversation)
  BY <1>1, Waiting DEF Quiet
<1>3. CASE active # c
  <2>1. Done(t) /\ UNCHANGED <<replica, writes>>
    BY <1>3 DEF NewArrives
  <2> QED BY <1>1, <1>2, <2>1, DoneFits, ReplicaStays, FilesStay DEF LogInv, replica, files
<1>4. CASE active = c
  <2>1. page \subseteq Own(active)
    BY <1>1, <1>4, Waiting DEF Quiet
  <2>2. Merge(page)
    BY <1>4 DEF NewArrives
  <2>3. \/ Persist(cache') /\ Done(t)
        \/ Request(t, "new", c, Last(page)) /\ UNCHANGED writes
    BY <1>4 DEF NewArrives
  <2> HIDE DEF page
  <2>4. ReplicaInv' /\ cache' \subseteq Own(active)
    BY <1>1, <1>2, <1>4, <2>1, <2>2, ReplicaAssumption, MergeFits
  <2>5. FilesInv'
    BY <1>1, <2>3, <2>4, PersistFits, FilesStay DEF files
  <2>6. TaskInv'
    BY <1>1, <1>2, <2>3, DoneFits, RequestFits
  <2> QED BY <1>1, <2>4, <2>5, <2>6 DEF LogInv
<1> QED BY <1>3, <1>4

LEMMA OlderKeeps == ASSUME IInv, NEW t \in Task, OlderArrives(t) PROVE IInv'
<1> USE DEF IInv
<1> DEFINE r == task[t]
           page == MessagePage(r.of, "before", r.bound, r.limit)
<1>1. r.pc = "older" /\ Request(t, "idle", None, 0) /\ UNCHANGED <<log, disk, active>>
  BY DEF OlderArrives, PagingEnds
<1>2. r.of \in Conversation /\ page \subseteq Own(r.of)
  BY <1>1, Waiting DEF Quiet
<1>3. ReplicaInv' /\ FilesInv'
  <2>1. CASE active = r.of
    <3>1. Merge(page) /\ Persist(cache')
      BY <2>1 DEF OlderArrives
    <3> HIDE DEF page
    <3>2. ReplicaInv' /\ cache' \subseteq Own(active)
      BY <1>1, <1>2, <2>1, <3>1, ReplicaAssumption, MergeFits
    <3> QED BY <1>1, <3>1, <3>2, PersistFits
  <2>2. CASE active # r.of
    <3>1. UNCHANGED <<replica, writes>>
      BY <2>2 DEF OlderArrives
    <3> QED BY <1>1, <3>1, ReplicaStays, FilesStay DEF replica, files
  <2> QED BY <2>1, <2>2
<1>4. TaskInv' /\ LogInv'
  BY <1>1, EndFits DEF LogInv
<1> QED BY <1>3, <1>4

\* The one merge without a look at what is active.
LEMMA ResultKeeps == ASSUME IInv, TurnResult PROVE IInv'
<1> USE DEF IInv
<1> DEFINE c == task["send"].of
           turn == <<"message", "message", "activity">>
           page == {c} \X ((Len(log[c]) + 1) .. (Len(log[c]) + Len(turn)))
<1>1. /\ task["send"].pc = "posted" /\ log' = [log EXCEPT ![c] = @ \o turn] /\ Merge(page)
      /\ Persist(cache') /\ Request("send", "idle", None, 0) /\ UNCHANGED <<disk, active>>
  BY DEF TurnResult
<1>2. c = active /\ c \in Conversation
  BY <1>1, Waiting, TasksAre DEF Quiet
<1>3. log[c] \in Seq({"message", "activity"}) /\ turn \in Seq({"message", "activity"})
  BY <1>2 DEF LogInv
<1>4. Len(log[c]) \in Nat /\ Len(turn) = 3
  BY <1>3
<1>5. page \subseteq Own(active)
  BY <1>2, <1>4 DEF Own
<1>6. LogInv'
  BY <1>1, <1>2, <1>3 DEF LogInv
<1> HIDE DEF page, turn
<1>7. ReplicaInv' /\ cache' \subseteq Own(active)
  BY <1>1, <1>2, <1>5, ReplicaAssumption, MergeFits
<1>8. FilesInv'
  BY <1>1, <1>7, PersistFits
<1>9. TaskInv'
  BY <1>1, EndFits, TasksAre
<1> QED BY <1>6, <1>7, <1>8, <1>9

LEMMA MainKeeps == ASSUME IInv, NEW t \in Main, MainStep(t) PROVE IInv'
<1> USE DEF IInv
<1>1. t \in Task /\ t # "send"
  BY TasksAre
<1>2. CASE Resumes(t)
  <2>1. /\ UNCHANGED <<log, files, active, replica>>
        /\ StartPolling(t) \/ Goes(t, Listing)
    BY <1>2 DEF Resumes
  <2>2. TaskInv'
    BY <1>1, <2>1, StartFits, GoesFits, AtFits DEF Quiet, Listing
  <2> QED BY <2>1, <2>2, ReplicaStays, FilesStay DEF LogInv, replica
<1>3. CASE Poll(t)
  <2>1. /\ UNCHANGED <<log, files, active, replica>>
        /\ \/ active # None /\ Request(t, "new", active, Cursor(screen))
           \/ Done(t)
    BY <1>3 DEF Poll
  <2>2. active # None => active \in Conversation
    BY DEF ReplicaInv
  <2>3. TaskInv'
    BY <1>1, <2>1, <2>2, RequestFits, DoneFits
  <2> QED BY <2>1, <2>3, ReplicaStays, FilesStay DEF LogInv, replica
<1>4. CASE ListThreads(t)
  <2>1. UNCHANGED <<log, files, active, replica>> /\ Goes(t, At("next", None, 0, 0, {}))
    BY <1>4 DEF ListThreads
  <2>2. TaskInv'
    BY <1>1, <2>1, GoesFits, AtFits DEF Quiet
  <2> QED BY <2>1, <2>2, ReplicaStays, FilesStay DEF LogInv, replica
<1>5. ASSUME NEW c \in Conversation, PrefetchNext(t, c) PROVE IInv'
  <2>1. /\ UNCHANGED <<log, files, active, replica>>
        /\ UNCHANGED task \/ Goes(t, At("prefetch", c, known[c], 0, {}))
    BY <1>5 DEF PrefetchNext
  <2>2. TaskInv'
    BY <1>1, <2>1, GoesFits, AtFits, TasksStay
  <2> QED BY <2>1, <2>2, ReplicaStays, FilesStay DEF LogInv, replica
<1>6. CASE PrefetchReads(t)
  <2> DEFINE r == task[t]
             S == disk[r.of] \cup MessagePage(r.of, "before", r.bound, PageSize)
  <2>1. r.pc = "prefetch" /\ UNCHANGED <<log, files, active, replica>> /\ Goes(t, At("merged", r.of, r.bound, 0, S))
    BY <1>6 DEF PrefetchReads
  <2>2. r.of \in Conversation /\ S \subseteq Own(r.of)
    BY <1>1, <2>1, Waiting DEF Quiet, FilesInv
  <2> HIDE DEF S
  <2>3. Fits(At("merged", r.of, r.bound, 0, S))
    BY <2>2 DEF Fits, At
  <2>4. TaskInv'
    BY <1>1, <2>1, <2>3, GoesFits
  <2> QED BY <2>1, <2>4, ReplicaStays, FilesStay DEF LogInv, replica
<1>7. CASE PrefetchSaves(t)
  <2> DEFINE r == task[t]
  <2>1. /\ r.pc = "merged" /\ UNCHANGED <<log, writes, active, replica>>
        /\ disk' = [disk EXCEPT ![r.of] = r.page] /\ Request(t, "saved", r.of, r.bound)
    BY <1>7 DEF PrefetchSaves
  <2>2. r.of \in Conversation /\ r.page \subseteq Own(r.of)
    BY <1>1, <2>1 DEF TaskInv, Fits, Quiet
  <2>3. TaskInv'
    BY <1>1, <2>1, <2>2, RequestFits
  <2>4. FilesInv'
    BY <2>1, <2>2 DEF FilesInv
  <2> QED BY <2>1, <2>3, <2>4, ReplicaStays DEF LogInv, replica
<1>8. CASE Prefetched(t)
  <2> DEFINE c == task[t].of
  <2>1. /\ task[t].pc = "saved" /\ UNCHANGED <<log, files, active, replica>>
        /\ Request(t, "hydrate", c, 0) \/ Request(t, "next", None, 0)
    BY <1>8 DEF Prefetched
  <2>2. c \in Conversation
    BY <1>1, <2>1, Waiting DEF Quiet
  <2>3. TaskInv'
    BY <1>1, <2>1, <2>2, RequestFits DEF Quiet
  <2> QED BY <2>1, <2>3, ReplicaStays, FilesStay DEF LogInv, replica
<1>9. CASE ThreadsAreListed(t)
  <2>1. UNCHANGED <<log, files, replica>>
    BY <1>9 DEF ThreadsAreListed
  <2>2. FilesInv' /\ LogInv'
    BY <2>1, FilesStay DEF LogInv
  <2>3. CASE stage[t] = "poll"
    <3>1. Round(t) /\ UNCHANGED active
      BY <1>9, <2>3 DEF ThreadsAreListed
    <3> QED BY <2>1, <2>2, <3>1, RoundFits, ReplicaStays DEF replica
  <2>4. CASE stage[t] # "poll" /\ active = None
    <3>1. PICK c \in Conversation : active' = c /\ Request(t, "hydrate", c, 0)
      BY <1>9, <2>4 DEF ThreadsAreListed
    <3>2. cache = {} /\ screen = {}
      BY <2>4 DEF ReplicaInv
    <3>3. ReplicaInv'
      BY <2>1, <3>1, <3>2, ReplicaAssumption DEF ReplicaInv, replica
    <3>4. task["send"].pc = "idle"
      BY <2>4, ReplicaAssumption DEF TaskInv, Sending
    <3>5. TaskInv'
      BY <1>1, <3>1, <3>4, OpeningFits
    <3> QED BY <2>2, <3>3, <3>5
  <2>5. CASE stage[t] # "poll" /\ active # None
    <3>1. /\ UNCHANGED active
          /\ \/ Request(t, "recent", active, known[active])
             \/ Request(t, "new", active, Cursor(screen))
      BY <1>9, <2>5 DEF ThreadsAreListed
    <3>2. active \in Conversation
      BY <2>5 DEF ReplicaInv
    <3> QED BY <1>1, <2>1, <2>2, <3>1, <3>2, RequestFits, ReplicaStays DEF replica
  <2> QED BY <2>3, <2>4, <2>5
<1> QED BY <1>2, <1>3, <1>4, <1>5, <1>6, <1>7, <1>8, <1>9 DEF MainStep

LEMMA FailureKeeps == ASSUME IInv, NEW t \in Task, RequestFails(t) PROVE IInv'
<1> USE DEF IInv
<1>1. UNCHANGED <<log, files, active, list, replica>>
  BY DEF RequestFails
<1>2. LogInv' /\ ReplicaInv' /\ FilesInv'
  BY <1>1, ReplicaStays, FilesStay DEF LogInv, replica
<1>3. TaskInv'
  <2>1. CASE task[t].pc \in {"recent", "new"} /\ Done(t)
    BY <1>1, <2>1, Waiting, DoneFits DEF Quiet
  <2>2. CASE task[t].pc = "list" /\ Round(t)
    <3>1. t # "send"
      BY <2>2 DEF TaskInv, Sending
    <3>2. \/ StartPolling(t) \/ Request(t, "sleep", None, 0)
          \/ Request(t, "idle", None, 0)
      BY <2>2 DEF Round
    <3>3. ASSUME StartPolling(t) PROVE TaskInv'
      BY <1>1, <3>1, <3>3, GoesFits, AtFits DEF StartPolling, Asleep, Quiet
    <3> QED BY <1>1, <3>1, <3>2, <3>3, RequestFits DEF Quiet
  <2>3. CASE task[t].pc = "older" /\ PagingEnds(t)
    BY <1>1, <2>3, EndFits DEF PagingEnds
  <2>4. CASE task[t].pc = "posted" /\ Request(t, "new", task[t].of, Cursor(screen))
    BY <1>1, <2>4, Waiting, RequestFits DEF Quiet
  <2>5. CASE task[t].pc = "prefetch" /\ Request(t, "next", None, 0)
    <3>1. t # "send"
      BY <2>5 DEF TaskInv, Sending
    <3> QED BY <1>1, <2>5, <3>1, RequestFits DEF Quiet
  <2> QED BY <2>1, <2>2, <2>3, <2>4, <2>5 DEF RequestFails
<1> QED BY <1>2, <1>3

LEMMA AppendKeeps == ASSUME IInv, NEW c \in Conversation, LaptopAppends(c) PROVE IInv'
<1>1. /\ log' = [log EXCEPT ![c] = Append(@, "message")]
      /\ UNCHANGED <<files, active, replica, task>>
  BY DEF LaptopAppends
<1>2. LogInv'
  BY <1>1 DEF IInv, LogInv
<1> QED BY <1>1, <1>2, ReplicaStays, FilesStay, TasksStay DEF IInv, replica

LEMMA NextKeeps == IInv /\ [Next]_vars => IInv'
<1> SUFFICES ASSUME IInv, [Next]_vars PROVE IInv'
  OBVIOUS
<1>1. ASSUME NEW t \in Task, TaskStep(t) PROVE IInv'
  <2>1. CASE PageBack(t) \/ OlderArrives(t) \/ Retries(t) \/ OpeningEnds(t)
    BY <1>1, <2>1, PageKeeps, OlderKeeps, RetryKeeps, EndingKeeps
  <2>2. CASE t = "send" /\ TurnResult
    BY <2>2, ResultKeeps
  <2>3. CASE t \in Main /\ MainStep(t)
    BY <2>3, MainKeeps
  <2> QED BY <1>1, <2>1, <2>2, <2>3, FileRead, HydratedKeeps, RecentKeeps, NewKeeps DEF TaskStep
<1>2. ASSUME NEW t \in Task, RequestFails(t) \/ ReadFails(t) PROVE IInv'
  BY <1>2, FailureKeeps, FileRead
<1>3. CASE UNCHANGED vars
  BY <1>3, ReplicaStays, FilesStay, TasksStay DEF IInv, LogInv, vars, replica, files
<1> QED BY <1>1, <1>2, <1>3, AppendKeeps, UserKeeps, LaunchKeeps, WriteKeeps DEF Next

LEMMA IInvApart == IInv => ConversationsStayApart
BY DEF IInv, ReplicaInv, FilesInv, Own, ConversationsStayApart

\* What the phone shows, caches, has waiting for the disk and has on disk is of
\* the conversation it stands under (MobileAppModel.swift).
THEOREM ConversationsAreApart == Spec => []ConversationsStayApart
<1>1. Init => IInv
  BY InitIInv
<1>2. IInv /\ [Next]_vars => IInv'
  BY NextKeeps
<1>3. IInv => ConversationsStayApart
  BY IInvApart
<1> QED BY <1>1, <1>2, <1>3, PTL DEF Spec

=============================================================================
