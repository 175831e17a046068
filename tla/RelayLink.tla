----------------------------- MODULE RelayLink -----------------------------
(***************************************************************************)
(* The two ends of the relay: the connector of the laptop                  *)
(* (relay-host-connector.ts) with its RPC server and the bridge to the     *)
(* loopback API, and an RPC client at the device (relay-rpc.ts), each over *)
(* a connection of connectEncryptedRelay.                                  *)
(*                                                                         *)
(* Noise is external: a frame is readable only to the connection it was    *)
(* encrypted for, and any other frame breaks the session that receives it. *)
(* The laptop's end and the device's learn of a control message and of a   *)
(* close when they next look.                                              *)
(***************************************************************************)
EXTENDS RelayServer

VARIABLES
  end,      \* per role: the step, the connection, and the peer of the session
  working,  \* the request the laptop's handler works on
  outcome,  \* of each request, for the device
  handled   \* the requests the laptop has carried out

linkVars == <<end, working, outcome, handled, budget>>
vars == <<serverVars, linkVars>>

Away == [step |-> "away", at |-> None, peer |-> None]
SocketOf(role) == IF role = "host" THEN HostSocket ELSE DeviceSocket
Frame(from, to, kind, id) == [from |-> from, to |-> to, kind |-> kind, id |-> id]

Init ==
  /\ ServerInit
  /\ end = [role \in Roles |-> Away]
  /\ working = None
  /\ outcome = [i \in Rpc |-> "none"]
  /\ handled = {}

Pending == {i \in Rpc : outcome[i] = "pending"}
Reject == outcome' = [i \in Rpc |-> IF i \in Pending THEN "rejected" ELSE outcome[i]]

\* The end gives its connection up; with the client go its pending requests.
LetGo(role) ==
  /\ end' = [end EXCEPT ![role] = Away]
  /\ IF role = "device" THEN Reject ELSE UNCHANGED outcome

\* The connections of an end differ in nothing but their order.
Unused(role) == {s \in SocketOf(role) : s \in budget.sockets /\ sock[s] = "unused"}

\* serveOnce, or the device's connect: a ticket, a socket, the registration.
Dial(role) ==
  /\ end[role].step = "away"
  /\ Unused(role) # {}
  /\ LET s == CHOOSE s \in Unused(role) : TRUE IN
       /\ Connect(s)
       /\ end' = [end EXCEPT ![role] = [step |-> "registering", at |-> s, peer |-> None]]
  /\ UNCHANGED <<working, outcome, handled, budget>>

\* waitForReady sees the counterpart; the device, which initiates the handshake,
\* sends its first message.
Ready(role) ==
  LET s == end[role].at IN
  /\ end[role].step = "registering"
  /\ sock[s] = "peer" /\ note[s] = "ready"
  /\ end' = [end EXCEPT ![role].step = "shaking"]
  /\ IF role = "device" THEN Forward(s, Frame(s, None, "hello", None))
                        ELSE UNCHANGED serverVars
  /\ UNCHANGED <<working, outcome, handled, budget>>

\* Mutant: the connector relies on being told.
IsTold(s) == note[s] = "offline"

IsGone(s) == sock[s] \notin {"open", "peer"}

\* The end ceases to listen, for it was told that the counterpart is offline
\* (only before and after the handshake: during it nobody reads the notes), its
\* connection is closed, or ten seconds have passed without a session.  The
\* RPC server sees none of this while its handler works.  The connector closes
\* its socket and an end without a session terminates it; a client of which the
\* stream of messages has ended keeps the socket, and with it its role.
LosesConnection(role) ==
  LET s == end[role].at IN
  /\ end[role].step # "away"
  /\ role = "host" => working = None
  /\ \/ IsGone(s)
     \/ note[s] = "offline" /\ end[role].step # "shaking"
     \/ end[role].step # "up"
  /\ LetGo(role)
  /\ IF role = "device" /\ end[role].step = "up"
     THEN UNCHANGED sock
     ELSE sock' = [sock EXCEPT ![s] = CASE @ = "open" -> "rejected"
                                        [] @ = "peer" -> "closing"
                                        [] OTHER -> @]
  /\ UNCHANGED <<slot, note, queue, ticketVars, relay, storeVars, working, handled,
                 budget>>

\* A first frame that is not for this session: the end closes its connection,
\* the cipher by itself where there is one.
Breaks(role) ==
  LET s == end[role].at IN
  /\ Delivered(s)
  /\ LetGo(role)
  /\ sock' = [sock EXCEPT ![s] = IF @ = "peer" THEN "closing" ELSE @]
  /\ UNCHANGED <<slot, note, ticketVars, relay, storeVars, working, handled, budget>>

Listening(role) == end[role].step \in {"shaking", "up"} /\ (role = "host" => working = None)

\* The host answers the first message of a handshake to the device that sent
\* it, over whatever connection the relay forwards it to.
HostShakes ==
  LET s == end["host"].at  f == Head(queue[s]) IN
  /\ end["host"].step = "shaking"
  /\ queue[s] # <<>>
  /\ IF f.kind = "hello"
     THEN /\ end' = [end EXCEPT !["host"].step = "answering", !["host"].peer = f.from]
          /\ Delivered(s)
          /\ UNCHANGED <<sock, slot, note, ticketVars, relay, storeVars, working,
                         outcome, handled, budget>>
     ELSE Breaks("host")

HostAnswersHandshake ==
  LET e == end["host"] IN
  /\ e.step = "answering"
  /\ IF sock[e.at] \in {"peer", "closing"}
     THEN /\ Forward(e.at, Frame(e.at, e.peer, "welcome", None))
          /\ end' = [end EXCEPT !["host"].step = "up"]
     ELSE /\ end' = [end EXCEPT !["host"] = Away]
          /\ UNCHANGED serverVars
  /\ UNCHANGED <<working, outcome, handled, budget>>

DeviceShakes ==
  LET s == end["device"].at  f == Head(queue[s]) IN
  /\ end["device"].step = "shaking"
  /\ queue[s] # <<>>
  /\ IF f.kind = "welcome" /\ f.to = s
     THEN /\ end' = [end EXCEPT !["device"].step = "up", !["device"].peer = f.from]
          /\ Delivered(s)
          /\ UNCHANGED <<sock, slot, note, ticketVars, relay, storeVars, working,
                         outcome, handled, budget>>
     ELSE Breaks("device")

-----------------------------------------------------------------------------
\* RPC.

Request(i) ==
  LET e == end["device"] IN
  /\ e.step = "up"
  /\ i \in budget.requests /\ outcome[i] = "none"
  /\ IF sock[e.at] \in {"peer", "closing"}
     THEN /\ Forward(e.at, Frame(e.at, e.peer, "request", i))
          /\ outcome' = [outcome EXCEPT ![i] = "pending"]
     ELSE /\ outcome' = [outcome EXCEPT ![i] = "rejected"]
          /\ UNCHANGED serverVars
  /\ UNCHANGED <<end, working, handled, budget>>

Readable(f, e) == f.to = e.at /\ f.from = e.peer

\* Mutant: a request stays known after its timeout.
WasRequested(i) == outcome[i] # "none"

IsPending(i) == i \in Pending

\* One request at a time: the next frame is read when this one is answered.
ServeRequest ==
  LET e == end["host"]  f == Head(queue[e.at]) IN
  /\ e.step = "up"
  /\ working = None
  /\ queue[e.at] # <<>>
  /\ IF Readable(f, e) /\ f.kind = "request"
     THEN /\ working' = f.id
          /\ handled' = handled \cup {f.id}
          /\ Delivered(e.at)
          /\ UNCHANGED <<sock, slot, note, ticketVars, relay, storeVars, end, outcome,
                         budget>>
     ELSE Breaks("host")

\* The bridge has the API's answer, or an error of its own that becomes a 502.
\* A connection that is gone by then ends serveOnce.
Respond ==
  LET e == end["host"] IN
  /\ working # None
  /\ working' = None
  /\ IF sock[e.at] = "peer" /\ note[e.at] # "offline"
     THEN Forward(e.at, Frame(e.at, e.peer, "response", working)) /\ UNCHANGED end
     ELSE /\ end' = [end EXCEPT !["host"] = Away]
          /\ sock' = [sock EXCEPT ![e.at] = IF @ = "peer" THEN "closing" ELSE @]
          /\ UNCHANGED <<slot, note, queue, ticketVars, relay, storeVars>>
  /\ UNCHANGED <<outcome, handled, budget>>

\* readResponses gives up: the client counts as closed, which its close() then
\* finds done, and nobody has closed the socket.
PumpFails ==
  /\ Delivered(end["device"].at)
  /\ LetGo("device")
  /\ UNCHANGED <<sock, slot, note, ticketVars, relay, storeVars, working, handled, budget>>

\* An answer to a request that is no longer pending ends the client.
ReadResponse ==
  LET e == end["device"]  f == Head(queue[e.at]) IN
  /\ e.step = "up"
  /\ queue[e.at] # <<>>
  /\ IF Readable(f, e) /\ f.kind = "response" /\ IsPending(f.id)
     THEN /\ outcome' = [outcome EXCEPT ![f.id] = "resolved"]
          /\ Delivered(e.at)
          /\ UNCHANGED <<sock, slot, note, ticketVars, relay, storeVars, end, working,
                         handled, budget>>
     ELSE IF Readable(f, e) /\ f.kind = "response"
          THEN PumpFails
          ELSE Breaks("device")

\* What comes over a connection its end has given up is taken and dropped.
Discard(s) ==
  /\ \A role \in Roles : end[role].at # s
  /\ Delivered(s)
  /\ UNCHANGED <<sock, slot, note, ticketVars, relay, storeVars, linkVars>>

RequestTimesOut(i) ==
  /\ i \in Pending
  /\ outcome' = [outcome EXCEPT ![i] = "rejected"]
  /\ UNCHANGED <<serverVars, end, working, handled, budget>>

-----------------------------------------------------------------------------
Next ==
  \/ \E role \in Roles : Dial(role) \/ Ready(role) \/ LosesConnection(role)
  \/ HostShakes \/ HostAnswersHandshake \/ DeviceShakes
  \/ ServeRequest \/ Respond \/ ReadResponse
  \/ \E i \in Rpc : Request(i) \/ RequestTimesOut(i)
  \/ \E s \in Socket : \/ Discard(s)
                       \/ Leave(s) /\ UNCHANGED linkVars
                       \/ Closed(s) /\ UNCHANGED linkVars
                       \/ TicketExpires(s) /\ UNCHANGED linkVars
                       \/ \E k \in Socket : Register(s, k) /\ UNCHANGED linkVars
  \/ \E d \in Delete : \/ ReceiveDelete(d) /\ UNCHANGED linkVars
                       \/ OpenTemporary(d) /\ UNCHANGED linkVars
                       \/ WriteState(d) /\ UNCHANGED linkVars
                       \/ RenameState(d) /\ UNCHANGED linkVars
                       \/ PersistFails(d) /\ UNCHANGED linkVars
  \/ \E r \in Route : CloseTimer(r) /\ UNCHANGED linkVars
  \/ RelayStops /\ UNCHANGED linkVars
  \/ RelayStarts /\ UNCHANGED linkVars

Spec == Init /\ [][Next]_vars

\* A socket that is to close does: closeThenTerminate terminates it after 250 ms,
\* and where relay or end only call close() the ws library destroys it when its
\* own timer has run out.  An end notices a close; and a handler ends, for the
\* bridge gives every request a deadline.
FairSpec ==
  /\ Spec
  /\ \A s \in Socket :
       WF_vars(sock[s] \in {"rejected", "closing"} /\ Closed(s) /\ UNCHANGED linkVars)
  /\ WF_vars(LosesConnection("host")) /\ WF_vars(HostAnswersHandshake) /\ WF_vars(Respond)

-----------------------------------------------------------------------------
EndStep == {"away", "registering", "shaking", "answering", "up"}

\* Every variable has its type, the send buffers their limit.
LinkTypeOK ==
  /\ sock \in [Socket -> {"unused", "open", "peer", "rejected", "closing", "closed"}]
  /\ slot \in [Roles -> Socket \cup {None}]
  /\ note \in [Socket -> {"none", "ready", "offline"}]
  /\ expired \subseteq Socket /\ consumed \subseteq Socket
  /\ ticketOf \in [Socket -> Socket \cup {None}]
  /\ relay \in [up : BOOLEAN, starts : 1 .. MaxRelayStarts]
  /\ revoked \subseteq Route /\ due \subseteq Route /\ answered \subseteq Route
  /\ file = Torn \/ file \subseteq Route
  /\ temp \in {Torn, Absent} \/ temp \subseteq Route
  /\ \A s \in Socket : Len(queue[s]) <= MaxQueued
  /\ end \in [Roles -> [step : EndStep, at : Socket \cup {None},
                        peer : Socket \cup {None}]]
  /\ working \in Rpc \cup {None}
  /\ outcome \in [Rpc -> {"none", "pending", "resolved", "rejected"}]
  /\ handled \subseteq Rpc

\* A request is settled once: a late answer does not resolve one that timed out
\* or was given up with its connection, and what is resolved was carried out: a
\* consequence of RemoteCall, below.
SettledOnce ==
  /\ \A i \in Rpc : outcome[i] \in {"resolved", "rejected"} => outcome'[i] = outcome[i]
  /\ \A i \in Rpc : outcome'[i] = "resolved" => i \in handled
RequestsSettleOnce == [][SettledOnce]_vars

\* Every step of the relay and its two ends is a step of RemoteCall or none:
\* over sessions that are lost and made again, frames of earlier ones, timeouts
\* and restarts of the relay, no request is carried out twice or beside another
\* one, none resolves while its handler works, and each is settled once.
C == INSTANCE RemoteCall
ImplementsRemoteCall == C!Spec

\* The laptop lets go of a connection whose other end is gone, whatever it was
\* doing over it, and dials again; and a role is not left to a connection that
\* is closing, which would keep its successor out.  One that is open keeps its
\* role, the connection of a client whose pump has failed included.
ConnectorLetsGo ==
  \A s \in HostSocket :
    end["host"].at = s /\ sock[s] \notin {"open", "peer"} ~> end["host"].at # s
RolesAreFreed ==
  \A s \in Socket : slot[Role(s)] = s /\ sock[s] = "closing" ~> slot[Role(s)] # s
=============================================================================
