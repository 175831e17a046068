---------------------------- MODULE RelayServer ----------------------------
(***************************************************************************)
(* The relay (services/relay): it registers a host and a device under a    *)
(* route, forwards opaque frames between the two, and retires a route for  *)
(* good when its host asks.                                                *)
(*                                                                         *)
(* The sockets of one route, Home, are modelled one by one; of the other   *)
(* routes only their retirement, which shares the revocation file.  Every  *)
(* handler runs to its end without an await, except the DELETE, which      *)
(* awaits the file system between the steps of persist.  What a frame says *)
(* is the business of its ends: the operators Forward and Delivered are    *)
(* the relay's part of a step of theirs.                                   *)
(***************************************************************************)
EXTENDS Naturals, Sequences, FiniteSets

CONSTANTS
  HostSocket, DeviceSocket,  \* bound: the connections each end makes
  None,
  Route, Home,
  Delete, DeleteOf,          \* bound: the DELETE requests, and their routes
  MaxQueued,                 \* limits.maxQueuedBytesPerPeer, in frames
  MaxTracked,                \* the tickets remembered against replay
  MaxRelayStarts,            \* bound: starts of the relay
  Rpc,                       \* bound: the requests of the device
  Budgets                    \* bound: what one behaviour may contain

Socket == HostSocket \cup DeviceSocket

ASSUME RelayConstants ==
  /\ None \notin Socket \cup Rpc
  /\ HostSocket \cap DeviceSocket = {}
  /\ Home \in Route /\ Route \cap {"torn", "absent"} = {}
  /\ DeleteOf \in [Delete -> Route]
  /\ MaxQueued \in Nat \ {0} /\ MaxTracked \in Nat \ {0}
  /\ MaxRelayStarts \in Nat \ {0}
  /\ Budgets \subseteq [sockets : SUBSET Socket, deletes : SUBSET Delete,
                        requests : SUBSET Rpc, faults : SUBSET {"tickets", "restart"}]

VARIABLES
  sock,      \* each connection, as the relay sees it
  slot,      \* routes[Home]: the registered peer of each role
  note,      \* the last control message sent to each connection
  queue,     \* the frames in the send buffer of each connection
  expired,   \* tickets past their expiry; a ticket is named for its socket
  consumed,  \* the replay entries in memory
  ticketOf,  \* the ticket each connection registered with since the last start
  relay,     \* whether it runs, and its starts
  revoked,   \* the retired routes in memory
  file,      \* the revocation file
  temp,      \* its temporary file
  deletion,  \* the DELETE requests at work
  due,       \* routes whose sockets a timer will close
  answered,  \* routes whose retirement was answered with 204
  overlapped,\* two DELETE requests were at work at once
  budget     \* what this behaviour may contain

serverVars == <<sock, slot, note, queue, expired, consumed, ticketOf, relay,
                revoked, file, temp, deletion, due, answered, overlapped>>
peerVars == <<sock, slot, note, queue>>
ticketVars == <<expired, consumed, ticketOf>>
storeVars == <<revoked, file, temp, deletion, due, answered, overlapped>>

Torn == {"torn"}      \* a file that is no valid state
Absent == {"absent"}

Role(s) == IF s \in HostSocket THEN "host" ELSE "device"
Roles == {"host", "device"}
Other(role) == IF role = "host" THEN "device" ELSE "host"
NoPeers == [role \in Roles |-> None]

ServerInit ==
  /\ sock = [s \in Socket |-> "unused"]
  /\ slot = NoPeers
  /\ note = [s \in Socket |-> "none"]
  /\ queue = [s \in Socket |-> <<>>]
  /\ expired = {} /\ consumed = {}
  /\ ticketOf = [s \in Socket |-> None]
  /\ relay = [up |-> TRUE, starts |-> 1]
  /\ revoked = {} /\ file = {} /\ temp = Absent
  /\ deletion = [d \in Delete |-> [step |-> "idle", handle |-> "none"]]
  /\ due = {} /\ answered = {} /\ overlapped = FALSE
  /\ budget \in Budgets

-----------------------------------------------------------------------------
\* Connections.

\* requestRelayTicket and the upgrade: an access token of a retired route gets
\* no ticket.
Connect(s) ==
  /\ relay.up
  /\ s \in budget.sockets /\ sock[s] = "unused"
  /\ Home \notin revoked
  /\ sock' = [sock EXCEPT ![s] = "open"]
  /\ UNCHANGED <<slot, note, queue, ticketVars, relay, storeVars>>

TicketExpires(k) ==
  /\ "tickets" \in budget.faults
  /\ sock[k] # "unused" /\ k \notin expired
  /\ expired' = expired \cup {k}
  /\ UNCHANGED <<peerVars, consumed, ticketOf, relay, storeVars>>

\* Mutant: replay entries are dropped at every prune, expired or not.
PrunedEarly(pruned) == IF pruned THEN {} ELSE consumed

\* pruneConsumed, which does nothing between its intervals.
Remembered(pruned) == IF pruned THEN consumed \ expired ELSE consumed

\* Mutant: only the newcomer learns that both are there.
NewcomerReady(s, t) == t = s

BecomesReady(s, t) ==
  LET c == slot[Other(Role(s))] IN c # None /\ t \in {s, c}

\* The checks of the registration, in any order: the first that fails rejects.
Registers(s, k, pruned) ==
  /\ Home \notin revoked
  /\ slot[Role(s)] = None
  /\ k \notin expired
  /\ k \notin consumed
  /\ Cardinality(Remembered(pruned)) < MaxTracked

\* accept, with the ticket k of this connection or of an earlier one of its
\* role; then register, which tells both peers as soon as there are two.
Register(s, k) ==
  /\ sock[s] = "open"
  /\ sock[k] # "unused" /\ Role(k) = Role(s)
  /\ k # s => "tickets" \in budget.faults
  /\ \E pruned \in BOOLEAN :
       IF Registers(s, k, pruned)
       THEN /\ sock' = [sock EXCEPT ![s] = "peer"]
            /\ slot' = [slot EXCEPT ![Role(s)] = s]
            /\ note' = [t \in Socket |-> IF BecomesReady(s, t) THEN "ready" ELSE note[t]]
            /\ consumed' = Remembered(pruned) \cup {k}
            /\ ticketOf' = [ticketOf EXCEPT ![s] = k]
       ELSE /\ sock' = [sock EXCEPT ![s] = "rejected"]
            /\ UNCHANGED <<slot, note, consumed, ticketOf>>
  /\ UNCHANGED <<queue, expired, relay, storeVars>>

\* closeRoute forgets the route at once and begins to close its sockets; a
\* closing socket still brings messages until its peer has closed too.
CloseRoute ==
  /\ slot' = NoPeers
  /\ sock' = [s \in Socket |-> IF slot[Role(s)] = s /\ sock[s] = "peer"
                               THEN "closing" ELSE sock[s]]

\* The socket of s is to be closed by the relay, for its frames exceed the rate
\* or are not binary, or by its own end.
Leave(s) ==
  /\ sock[s] = "peer"
  /\ sock' = [sock EXCEPT ![s] = "closing"]
  /\ UNCHANGED <<slot, note, queue, ticketVars, relay, storeVars>>

\* Mutant: the role is freed for whoever holds it.
SlotAfterCloseOfAny(s) == [slot EXCEPT ![Role(s)] = None]

\* Mutant: the role is freed only while the other one is held.
SlotKeptByTheLast(s) ==
  IF slot[Role(s)] = s /\ slot[Other(Role(s))] # None
  THEN [slot EXCEPT ![Role(s)] = None] ELSE slot

\* unregister leaves the role alone when another connection holds it by then.
SlotAfterClose(s) ==
  IF slot[Role(s)] = s THEN [slot EXCEPT ![Role(s)] = None] ELSE slot

\* The connection is gone: closed by both ends, terminated, after 250 ms of
\* closeThenTerminate, by the ws library's timer of close() or for want of a
\* registration, or lost.  The callbacks of frames it still had to take fail,
\* and each failure closes the route.
Closed(s) ==
  /\ sock[s] \in {"open", "rejected", "closing", "peer"}
  /\ LET c == slot[Other(Role(s))]
         failed == queue[s] # <<>>
     IN /\ sock' = [t \in Socket |->
                      CASE t = s -> "closed"
                        [] t # s /\ failed /\ slot[Role(t)] = t /\ sock[t] = "peer"
                             -> "closing"
                        [] OTHER -> sock[t]]
        /\ slot' = IF failed THEN NoPeers ELSE SlotAfterClose(s)
        /\ note' = IF ~failed /\ slot[Role(s)] = s /\ c # None /\ sock[c] = "peer"
                   THEN [note EXCEPT ![c] = "offline"] ELSE note
  /\ queue' = [queue EXCEPT ![s] = <<>>]
  /\ UNCHANGED <<ticketVars, relay, storeVars>>

-----------------------------------------------------------------------------
\* Frames.

Room(c) == Len(queue[c]) < MaxQueued

\* A message of a registered connection goes to whoever holds the other role by
\* then.  Without one the sender is closed, and past a limit the route is: that
\* of its buffer, or the global one, which other routes may have reached.
Forward(s, frame) ==
  LET c == slot[Other(Role(s))] IN
  /\ sock[s] \in {"peer", "closing"}
  /\ IF c = None \/ (c # None /\ sock[c] # "peer")
     THEN /\ sock' = [sock EXCEPT ![s] = "closing"]
          /\ UNCHANGED <<slot, queue>>
     ELSE \/ /\ Room(c)
             /\ queue' = [queue EXCEPT ![c] = Append(@, frame)]
             /\ UNCHANGED <<sock, slot>>
          \/ CloseRoute /\ UNCHANGED queue
  /\ UNCHANGED <<note, ticketVars, relay, storeVars>>

\* The socket of c has taken its first frame.
Delivered(c) ==
  /\ queue[c] # <<>>
  /\ queue' = [queue EXCEPT ![c] = Tail(@)]

-----------------------------------------------------------------------------
\* Retirement: revokeRoute, the revocation file, and the timer of closeRoute.

AtWork == {d \in Delete : deletion[d].step \in {"opening", "writing", "renaming"}}

\* A route already marked in memory is answered at once, whether or not the
\* request that marked it has written the file yet.
ReceiveDelete(d) ==
  LET r == DeleteOf[d] IN
  /\ relay.up
  /\ d \in budget.deletes /\ deletion[d].step = "idle"
  /\ IF r \in revoked
     THEN /\ deletion' = [deletion EXCEPT ![d].step = "done"]
          /\ answered' = answered \cup {r}
          /\ due' = due \cup {r}
          /\ UNCHANGED revoked
     ELSE /\ deletion' = [deletion EXCEPT ![d].step = "opening"]
          /\ revoked' = revoked \cup {r}
          /\ UNCHANGED <<answered, due>>
  /\ overlapped' = (overlapped \/ AtWork # {})
  /\ UNCHANGED <<peerVars, ticketVars, relay, file, temp>>

\* open(temporary, "w") empties the file another request is still writing: the
\* temporary file has one name in the whole process.
OpenTemporary(d) ==
  /\ deletion[d].step = "opening"
  /\ temp' = Torn
  /\ deletion' = [deletion EXCEPT ![d] = [step |-> "writing", handle |-> "temp"]]
  /\ UNCHANGED <<peerVars, ticketVars, relay, revoked, file, due, answered,
                 overlapped>>

\* Mutant: the answer does not wait for the file.
AnswerBeforeRename(d) ==
  /\ deletion[d].step = "writing"
  /\ deletion' = [deletion EXCEPT ![d].step = "renaming"]
  /\ temp' = revoked
  /\ answered' = answered \cup {DeleteOf[d]}
  /\ due' = due \cup {DeleteOf[d]}
  /\ UNCHANGED <<peerVars, ticketVars, relay, revoked, file, overlapped>>

\* All routes in memory are written, through a handle on what may have been
\* renamed by another request since.
WriteState(d) ==
  /\ deletion[d].step = "writing"
  /\ IF deletion[d].handle = "temp" THEN temp' = revoked /\ UNCHANGED file
                                    ELSE file' = revoked /\ UNCHANGED temp
  /\ deletion' = [deletion EXCEPT ![d].step = "renaming"]
  /\ UNCHANGED <<peerVars, ticketVars, relay, revoked, due, answered, overlapped>>

RenameState(d) ==
  /\ deletion[d].step = "renaming"
  /\ temp # Absent
  /\ file' = temp
  /\ temp' = Absent
  /\ deletion' = [e \in Delete |->
       CASE e = d -> [step |-> "done", handle |-> "none"]
         [] e # d /\ deletion[e].handle = "temp" -> [deletion[e] EXCEPT !.handle = "file"]
         [] OTHER -> deletion[e]]
  /\ answered' = answered \cup {DeleteOf[d]}
  /\ due' = due \cup {DeleteOf[d]}
  /\ UNCHANGED <<peerVars, ticketVars, relay, revoked, overlapped>>

\* A step of persist throws, as the rename does when another request has taken
\* the temporary file: the route is no longer marked and the answer is 401.
PersistFails(d) ==
  /\ d \in AtWork
  /\ revoked' = revoked \ {DeleteOf[d]}
  /\ deletion' = [deletion EXCEPT ![d] = [step |-> "failed", handle |-> "none"]]
  /\ UNCHANGED <<peerVars, ticketVars, relay, file, temp, due, answered,
                 overlapped>>

CloseTimer(r) ==
  /\ r \in due
  /\ due' = due \ {r}
  /\ IF r = Home THEN CloseRoute ELSE UNCHANGED <<sock, slot>>
  /\ UNCHANGED <<note, queue, ticketVars, relay, revoked, file, temp, deletion,
                 answered, overlapped>>

-----------------------------------------------------------------------------
\* The process: a stop or a crash takes its memory with it, the replay entries
\* included; a start reads the revocation file and fails if that is torn.
RelayStops ==
  /\ "restart" \in budget.faults
  /\ relay.up
  /\ relay' = [relay EXCEPT !.up = FALSE]
  /\ sock' = [s \in Socket |-> IF sock[s] = "unused" THEN "unused" ELSE "closed"]
  /\ slot' = NoPeers
  /\ queue' = [s \in Socket |-> <<>>]
  /\ consumed' = {}
  /\ ticketOf' = [s \in Socket |-> None]
  /\ revoked' = {} /\ temp' = Absent /\ due' = {}
  /\ deletion' = [d \in Delete |->
       IF d \in AtWork THEN [step |-> "failed", handle |-> "none"] ELSE deletion[d]]
  /\ UNCHANGED <<note, expired, file, answered, overlapped>>

RelayStarts ==
  /\ ~relay.up
  /\ relay.starts < MaxRelayStarts
  /\ file # Torn
  /\ relay' = [up |-> TRUE, starts |-> relay.starts + 1]
  /\ revoked' = file
  /\ UNCHANGED <<peerVars, ticketVars, file, temp, deletion, due, answered,
                 overlapped>>

-----------------------------------------------------------------------------
\* A connection the relay serves holds its role, and a role is held by nobody
\* who is gone: the close of an old connection, whenever it comes, neither
\* unregisters its successor nor leaves the role taken.
RolesAreHeldByPeers ==
  /\ \A s \in Socket : sock[s] = "peer" => slot[Role(s)] = s
  /\ \A role \in Roles : slot[role] # None => sock[slot[role]] \in {"peer", "closing"}

\* A peer the relay serves knows whether it has a counterpart: none is left
\* waiting for one that went away, or unaware of one that has come.
PeersAreTold ==
  \A s \in Socket :
    sock[s] = "peer" => (note[s] = "ready" <=> slot[Other(Role(s))] # None)

\* A ticket registers one connection between two starts of the relay, whatever
\* is pruned meanwhile.
OneRegistrationPerTicket ==
  \A s, t \in Socket : ticketOf[s] = ticketOf[t] /\ ticketOf[s] # None => s = t

\* A retirement answered with 204 is in the file a restart reads, and once its
\* timer has fired nobody is registered under the route again.  The exception
\* is a relay on which two DELETE requests were at work at once: they share the
\* temporary file, and the second request for a route does not wait for the
\* file of the first.
RetiredForGood ==
  ~overlapped =>
    /\ answered \subseteq file
    /\ Home \in answered \ due => slot = NoPeers
=============================================================================
