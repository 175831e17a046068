-------------------------- MODULE RelayLink_proofs --------------------------
(***************************************************************************)
(* The safety properties of the relay and of the requests over it, for     *)
(* every number of connections, routes, tickets, DELETE requests, frames   *)
(* and starts.                                                             *)
(*                                                                         *)
(* Five invariants, each inductive on its own part of the state: who holds *)
(* which role and was told what (PeersInv), which tickets were used        *)
(* (TicketsInv), how far a retirement has come (RetirementInv), what the   *)
(* frames under way may say (FramesInv), and that no request is under way  *)
(* twice (OnceInv).  What a step of the two ends does to the relay is a    *)
(* move of one of three kinds (PeersMove).  Refinement maps every step to  *)
(* one of RemoteCall or none.                                              *)
(***************************************************************************)
EXTENDS RelayLink, SequenceTheorems, TLAPS

SockState == {"unused", "open", "peer", "rejected", "closing", "closed"}

\* The steps of the two ends, and those of the relay alone.
LinkNext ==
  \/ \E role \in Roles : Ready(role) \/ LosesConnection(role)
  \/ HostShakes \/ HostAnswersHandshake \/ DeviceShakes
  \/ ServeRequest \/ Respond \/ ReadResponse
  \/ \E i \in Rpc : Request(i) \/ RequestTimesOut(i)
  \/ \E s \in Socket : Discard(s)

\* An end reads what it cannot use.
GivesUpReading(role) == Breaks(role) \/ (role = "device" /\ PumpFails)

DeletionNext ==
  \E d \in Delete : ReceiveDelete(d) \/ OpenTemporary(d) \/ WriteState(d)
                      \/ RenameState(d) \/ PersistFails(d)

LEMMA NextCases ==
  ASSUME [Next]_vars
  PROVE  \/ \E role \in Roles : Dial(role)
         \/ LinkNext
         \/ /\ \/ \E s \in Socket : Leave(s) \/ Closed(s) \/ TicketExpires(s)
               \/ \E s, k \in Socket : Register(s, k)
               \/ DeletionNext
               \/ \E r \in Route : CloseTimer(r)
               \/ RelayStops \/ RelayStarts
            /\ UNCHANGED linkVars
         \/ UNCHANGED vars
BY DEF Next, LinkNext, DeletionNext

-----------------------------------------------------------------------------
\* What the ends do to the relay.

\* Connections are given up, and nothing else changes for the peers.
Demotes ==
  /\ sock' \in [Socket -> SockState]
  /\ \A t \in Socket : \/ sock'[t] = sock[t]
                       \/ sock[t] = "open" /\ sock'[t] = "rejected"
                       \/ sock[t] = "peer" /\ sock'[t] = "closing"
  /\ UNCHANGED <<slot, note>>

PeersMove ==
  /\ \/ UNCHANGED <<sock, slot, note>>
     \/ Demotes
     \/ CloseRoute /\ UNCHANGED note
  /\ UNCHANGED <<ticketVars, relay, storeVars>>

LEMMA ForwardMoves ==
  ASSUME sock \in [Socket -> SockState], NEW s, NEW f, Forward(s, f)
  PROVE  PeersMove
BY DEF Forward, PeersMove, Demotes, SockState

LEMMA LinkMoves ==
  ASSUME sock \in [Socket -> SockState], LinkNext
  PROVE  PeersMove
<1>1. ASSUME NEW role \in Roles, Ready(role) PROVE PeersMove
  BY <1>1, ForwardMoves DEF Ready, PeersMove, serverVars, ticketVars, storeVars
<1>2. ASSUME NEW role \in Roles, LosesConnection(role) PROVE PeersMove
  BY <1>2 DEF LosesConnection, PeersMove, Demotes, SockState
<1>3. ASSUME NEW role, GivesUpReading(role) PROVE PeersMove
  BY <1>3 DEF GivesUpReading, Breaks, PumpFails, PeersMove, Demotes, SockState
<1>4. CASE HostShakes \/ DeviceShakes \/ ServeRequest \/ ReadResponse
  BY <1>3, <1>4
  DEF GivesUpReading, HostShakes, DeviceShakes, ServeRequest, ReadResponse, PeersMove
<1>5. CASE HostAnswersHandshake
  BY <1>5, ForwardMoves DEF HostAnswersHandshake, PeersMove, serverVars, ticketVars, storeVars
<1>6. CASE Respond
  BY <1>6, ForwardMoves DEF Respond, PeersMove, Demotes, SockState
<1>7. ASSUME NEW i \in Rpc, Request(i) \/ RequestTimesOut(i) PROVE PeersMove
  BY <1>7, ForwardMoves
  DEF Request, RequestTimesOut, PeersMove, serverVars, ticketVars, storeVars
<1>8. ASSUME NEW s \in Socket, Discard(s) PROVE PeersMove
  BY <1>8 DEF Discard, PeersMove
<1> QED BY <1>1, <1>2, <1>4, <1>5, <1>6, <1>7, <1>8 DEF LinkNext

-----------------------------------------------------------------------------
\* Roles and notes.

\* Notes are sent to those who hold a role; a connection has none before.
PeersInv ==
  /\ sock \in [Socket -> SockState]
  /\ slot \in [Roles -> Socket \cup {None}]
  /\ note \in [Socket -> {"none", "ready", "offline"}]
  /\ \A role \in Roles : slot[role] # None => Role(slot[role]) = role
  /\ \A s \in Socket : sock[s] \in {"unused", "open"} => note[s] = "none"
  /\ RolesAreHeldByPeers
  /\ PeersAreTold

\* Both roles, and the role of a connection.
LEMMA RoleFacts ==
  /\ "host" \in Roles /\ "device" \in Roles
  /\ \A s : Role(s) \in Roles
  /\ \A role \in Roles : Other(role) \in Roles /\ Other(role) # role
                           /\ Other(Other(role)) = role
BY DEF Roles, Role, Other

LEMMA PeersMoveKeeps == PeersInv /\ PeersMove => PeersInv'
<1> SUFFICES ASSUME PeersInv, PeersMove PROVE PeersInv'
  OBVIOUS
<1>1. CASE UNCHANGED <<sock, slot, note>>
  BY <1>1 DEF PeersInv, RolesAreHeldByPeers, PeersAreTold
<1>2. CASE Demotes
  BY <1>2 DEF Demotes, PeersInv, RolesAreHeldByPeers, PeersAreTold, SockState
<1>3. CASE CloseRoute /\ UNCHANGED note
  <2>1. \A t \in Socket : sock[t] = "peer" => sock'[t] = "closing"
    BY <1>3 DEF CloseRoute, PeersInv, RolesAreHeldByPeers
  <2>2. \A t \in Socket : sock[t] # "peer" => sock'[t] = sock[t]
    BY <1>3 DEF CloseRoute, PeersInv
  <2>3. sock' \in [Socket -> SockState]
    BY <1>3 DEF CloseRoute, PeersInv, SockState
  <2> QED BY <1>3, <2>1, <2>2, <2>3, RoleFacts, RelayConstants
          DEF CloseRoute, NoPeers, PeersInv, RolesAreHeldByPeers, PeersAreTold
<1> QED BY <1>1, <1>2, <1>3 DEF PeersMove

LEMMA RegisterKeepsPeers ==
  ASSUME PeersInv, NEW s \in Socket, NEW k \in Socket, Register(s, k)
  PROVE  PeersInv'
<1> USE RoleFacts, RelayConstants
<1> DEFINE c == slot[Other(Role(s))]
<1>1. CASE sock' = [sock EXCEPT ![s] = "rejected"] /\ UNCHANGED <<slot, note>>
  BY <1>1 DEF Register, PeersInv, RolesAreHeldByPeers, PeersAreTold, SockState
<1>2. CASE /\ slot[Role(s)] = None
           /\ sock' = [sock EXCEPT ![s] = "peer"]
           /\ slot' = [slot EXCEPT ![Role(s)] = s]
           /\ note' = [t \in Socket |-> IF BecomesReady(s, t) THEN "ready" ELSE note[t]]
  <2>1. sock[s] = "open" /\ note[s] = "none"
    BY DEF Register, PeersInv
  <2>2. sock' \in [Socket -> SockState] /\ slot' \in [Roles -> Socket \cup {None}]
        /\ note' \in [Socket -> {"none", "ready", "offline"}]
    BY <1>2 DEF PeersInv, SockState
  <2>3. RolesAreHeldByPeers'
    BY <1>2, <2>1 DEF PeersInv, RolesAreHeldByPeers
  <2>4. c # s /\ (c # None => c \in Socket /\ Role(c) = Other(Role(s)))
    BY <2>1 DEF PeersInv, RolesAreHeldByPeers
  <2>5. PeersAreTold'
    <3> SUFFICES ASSUME NEW t \in Socket, sock'[t] = "peer"
                 PROVE  note'[t] = "ready" <=> slot'[Other(Role(t))] # None
      BY DEF PeersAreTold
    <3>1. CASE t = s
      BY <1>2, <2>1, <2>4, <3>1 DEF BecomesReady, PeersInv
    <3>2. CASE t # s /\ Role(t) = Role(s)
      BY <1>2, <3>2 DEF PeersInv, RolesAreHeldByPeers
    <3>3. CASE t # s /\ Role(t) # Role(s)
      <4>1. Role(t) = Other(Role(s)) /\ c = t
        BY <1>2, <3>3 DEF Role, Other, PeersInv, RolesAreHeldByPeers
      <4> QED BY <1>2, <4>1, <3>3 DEF BecomesReady, PeersInv
    <3> QED BY <3>1, <3>2, <3>3
  <2>6. \A role \in Roles : slot'[role] # None => Role(slot'[role]) = role
    BY <1>2 DEF PeersInv
  <2>7. \A t \in Socket : sock'[t] \in {"unused", "open"} => note'[t] = "none"
    BY <1>2, <2>1 DEF BecomesReady, PeersInv, RolesAreHeldByPeers
  <2> QED BY <2>2, <2>3, <2>5, <2>6, <2>7 DEF PeersInv
<1> QED BY <1>1, <1>2 DEF Register, Registers

LEMMA ClosedKeepsPeers ==
  ASSUME PeersInv, NEW s \in Socket, Closed(s)
  PROVE  PeersInv'
<1> USE RoleFacts, RelayConstants
<1> DEFINE c == slot[Other(Role(s))]
<1>1. CASE queue[s] # <<>>
  <2>1. /\ slot' = NoPeers /\ note' = note
        /\ sock' \in [Socket -> SockState]
        /\ \A t \in Socket : sock'[t] # "peer"
        /\ \A t \in Socket : sock'[t] = sock[t] \/ sock'[t] \in {"closing", "closed"}
    BY <1>1 DEF Closed, PeersInv, RolesAreHeldByPeers, SockState
  <2> QED BY <2>1 DEF NoPeers, PeersInv, RolesAreHeldByPeers, PeersAreTold
<1>2. CASE queue[s] = <<>>
  <2>1. /\ sock' = [sock EXCEPT ![s] = "closed"]
        /\ slot' = SlotAfterClose(s)
        /\ note' = IF slot[Role(s)] = s /\ c # None /\ sock[c] = "peer"
                   THEN [note EXCEPT ![c] = "offline"] ELSE note
    BY <1>2 DEF Closed, PeersInv
  <2>2. CASE slot[Role(s)] = s
    <3>1. slot' = [slot EXCEPT ![Role(s)] = None]
      BY <2>1, <2>2 DEF SlotAfterClose
    <3>2. c # None => c \in Socket /\ Role(c) = Other(Role(s)) /\ c # s
      BY DEF PeersInv
    <3>3. RolesAreHeldByPeers'
      <4>1. \A t \in Socket \ {s} : sock'[t] = sock[t]
        BY <2>1 DEF PeersInv
      <4>2. \A t \in Socket \ {s} : sock[t] = "peer" => slot'[Role(t)] = t
        BY <2>2, <3>1 DEF PeersInv, RolesAreHeldByPeers
      <4>3. sock'[s] = "closed"
        BY <2>1 DEF PeersInv
      <4>4. \A role \in Roles : slot'[role] # None =>
              slot'[role] = slot[role] /\ slot[role] \in Socket \ {s}
        BY <2>2, <3>1 DEF PeersInv
      <4>5. \A role \in Roles : slot[role] # None => sock[slot[role]] \in {"peer", "closing"}
        BY DEF PeersInv, RolesAreHeldByPeers
      <4> QED BY <4>1, <4>2, <4>3, <4>4, <4>5 DEF RolesAreHeldByPeers
    <3>4. PeersAreTold'
      <4> SUFFICES ASSUME NEW t \in Socket, sock'[t] = "peer"
                   PROVE  note'[t] = "ready" <=> slot'[Other(Role(t))] # None
        BY DEF PeersAreTold
      <4>1. t # s /\ sock[t] = "peer" /\ Role(t) = Other(Role(s)) /\ t = c
        BY <2>1, <2>2 DEF Role, Other, PeersInv, RolesAreHeldByPeers
      <4> QED BY <2>1, <2>2, <3>1, <4>1 DEF PeersInv
    <3> QED BY <2>1, <3>1, <3>2, <3>3, <3>4 DEF PeersInv, RolesAreHeldByPeers, SockState
  <2>3. CASE slot[Role(s)] # s
    <3>1. slot' = slot /\ note' = note
      BY <2>1, <2>3 DEF SlotAfterClose
    <3> QED BY <2>1, <2>3, <3>1 DEF PeersInv, RolesAreHeldByPeers, PeersAreTold, SockState
  <2> QED BY <2>2, <2>3
<1> QED BY <1>1, <1>2

LEMMA PeersStep == PeersInv /\ [Next]_vars => PeersInv'
<1> SUFFICES ASSUME PeersInv, [Next]_vars PROVE PeersInv'
  OBVIOUS
<1>1. ASSUME NEW role \in Roles, Dial(role) PROVE PeersInv'
  <2>1. PICK s \in Socket : Connect(s)
    BY <1>1 DEF Dial, Unused, SocketOf, Socket
  <2> QED BY <2>1 DEF Connect, PeersInv, RolesAreHeldByPeers, PeersAreTold, SockState
<1>2. CASE LinkNext
  BY <1>2, LinkMoves, PeersMoveKeeps DEF PeersInv
<1>3. ASSUME NEW s \in Socket, Leave(s) PROVE PeersInv'
  BY <1>3 DEF Leave, PeersInv, RolesAreHeldByPeers, PeersAreTold, SockState
<1>4. ASSUME NEW r \in Route, CloseTimer(r) PROVE PeersInv'
  <2>1. CASE r = Home
    <3>1. PeersInv /\ CloseRoute /\ UNCHANGED note => PeersInv'
      <4> SUFFICES ASSUME CloseRoute, UNCHANGED note PROVE PeersInv'
        OBVIOUS
      <4>1. /\ slot' = NoPeers
            /\ sock' \in [Socket -> SockState]
            /\ \A t \in Socket : sock'[t] # "peer"
            /\ \A t \in Socket : sock'[t] = sock[t] \/ sock'[t] = "closing"
        BY DEF CloseRoute, PeersInv, RolesAreHeldByPeers, SockState
      <4> QED BY <4>1, RoleFacts, RelayConstants
              DEF NoPeers, PeersInv, RolesAreHeldByPeers, PeersAreTold
    <3> QED BY <1>4, <2>1, <3>1 DEF CloseTimer
  <2>2. CASE r # Home
    BY <1>4, <2>2 DEF CloseTimer, PeersInv, RolesAreHeldByPeers, PeersAreTold
  <2> QED BY <2>1, <2>2
<1>5. CASE RelayStops
  BY <1>5, RoleFacts, RelayConstants
  DEF RelayStops, NoPeers, PeersInv, RolesAreHeldByPeers, PeersAreTold, SockState
<1>6. CASE UNCHANGED <<sock, slot, note>>
  BY <1>6 DEF PeersInv, RolesAreHeldByPeers, PeersAreTold
<1>7. CASE DeletionNext \/ RelayStarts \/ (\E s \in Socket : TicketExpires(s)) \/ UNCHANGED vars
  <2>1. UNCHANGED <<sock, slot, note>>
    BY <1>7 DEF DeletionNext, ReceiveDelete, OpenTemporary, WriteState, RenameState,
                PersistFails, RelayStarts, TicketExpires, peerVars, vars, serverVars
  <2> QED BY <1>6, <2>1
<1> QED
  BY <1>1, <1>2, <1>3, <1>4, <1>5, <1>7, NextCases, RegisterKeepsPeers, ClosedKeepsPeers

LEMMA PeersInit == Init => PeersInv
BY RoleFacts, RelayConstants
DEF Init, ServerInit, NoPeers, PeersInv, RolesAreHeldByPeers, PeersAreTold, SockState

\* A connection the relay serves holds its role, and no role is held by one that
\* is gone.
THEOREM RolesAreHeld == Spec => []RolesAreHeldByPeers
<1>1. PeersInv => RolesAreHeldByPeers
  BY DEF PeersInv
<1> QED BY <1>1, PeersInit, PeersStep, PTL DEF Spec

\* A peer the relay serves has been told whether it has a counterpart.
THEOREM PeersAreInformed == Spec => []PeersAreTold
<1>1. PeersInv => PeersAreTold
  BY DEF PeersInv
<1> QED BY <1>1, PeersInit, PeersStep, PTL DEF Spec

-----------------------------------------------------------------------------
\* Tickets.

\* A ticket that registered a connection is remembered until it has expired.
TicketsInv ==
  /\ expired \subseteq Socket /\ consumed \subseteq Socket
  /\ ticketOf \in [Socket -> Socket \cup {None}]
  /\ \A s \in Socket : ticketOf[s] # None => ticketOf[s] \in consumed \cup expired
  /\ OneRegistrationPerTicket

\* The steps that touch the tickets.
LEMMA TicketCases ==
  ASSUME [Next]_vars, sock \in [Socket -> SockState]
  PROVE  \/ \E s \in Socket : TicketExpires(s)
         \/ \E s, k \in Socket : Register(s, k)
         \/ RelayStops
         \/ UNCHANGED ticketVars
<1>1. ASSUME NEW role \in Roles, Dial(role) PROVE UNCHANGED ticketVars
  BY <1>1 DEF Dial, Connect, ticketVars
<1>2. CASE LinkNext
  BY <1>2, LinkMoves DEF PeersMove
<1>3. CASE DeletionNext \/ RelayStarts
  BY <1>3 DEF DeletionNext, ReceiveDelete, OpenTemporary, WriteState, RenameState,
              PersistFails, RelayStarts
<1>4. ASSUME NEW s \in Socket, Leave(s) \/ Closed(s) PROVE UNCHANGED ticketVars
  BY <1>4 DEF Leave, Closed
<1>5. ASSUME NEW r \in Route, CloseTimer(r) PROVE UNCHANGED ticketVars
  BY <1>5 DEF CloseTimer
<1>6. CASE UNCHANGED vars
  BY <1>6 DEF vars, serverVars, ticketVars
<1> QED BY <1>1, <1>2, <1>3, <1>4, <1>5, <1>6, NextCases

LEMMA TicketsStep ==
  TicketsInv /\ sock \in [Socket -> SockState] /\ [Next]_vars => TicketsInv'
<1> SUFFICES ASSUME TicketsInv, sock \in [Socket -> SockState], [Next]_vars
    PROVE  TicketsInv'
  OBVIOUS
<1> USE RelayConstants
<1>1. ASSUME NEW s \in Socket, TicketExpires(s) PROVE TicketsInv'
  BY <1>1 DEF TicketExpires, TicketsInv, OneRegistrationPerTicket
<1>2. ASSUME NEW s \in Socket, NEW k \in Socket, Register(s, k) PROVE TicketsInv'
  <2>1. CASE UNCHANGED <<consumed, ticketOf>>
    BY <1>2, <2>1 DEF Register, TicketsInv, OneRegistrationPerTicket
  <2>2. ASSUME NEW pruned \in BOOLEAN, Registers(s, k, pruned),
               consumed' = Remembered(pruned) \cup {k},
               ticketOf' = [ticketOf EXCEPT ![s] = k]
        PROVE  TicketsInv'
    <3>1. \A t \in Socket : ticketOf[t] # k
      BY <2>2 DEF Registers, TicketsInv
    <3>2. consumed \ expired \subseteq consumed' /\ consumed' \subseteq Socket
      BY <2>2 DEF Remembered, TicketsInv
    <3>3. expired' = expired
      BY <1>2 DEF Register
    <3>4. \A t \in Socket : ticketOf'[t] = IF t = s THEN k ELSE ticketOf[t]
      BY <2>2 DEF TicketsInv
    <3>5. OneRegistrationPerTicket'
      BY <3>1, <3>4 DEF TicketsInv, OneRegistrationPerTicket
    <3> QED BY <2>2, <3>2, <3>3, <3>4, <3>5 DEF TicketsInv
  <2> QED BY <1>2, <2>1, <2>2 DEF Register
<1>3. CASE RelayStops
  BY <1>3 DEF RelayStops, TicketsInv, OneRegistrationPerTicket
<1>4. CASE UNCHANGED ticketVars
  BY <1>4 DEF ticketVars, TicketsInv, OneRegistrationPerTicket
<1> QED BY <1>1, <1>2, <1>3, <1>4, TicketCases

LEMMA TicketsInit == Init => TicketsInv
BY DEF Init, ServerInit, TicketsInv, OneRegistrationPerTicket

\* Between two starts of the relay a ticket registers one connection, for what
\* pruneConsumed forgets can no longer register.
THEOREM TicketsRegisterOnce == Spec => []OneRegistrationPerTicket
<1>1. TicketsInv /\ PeersInv =>
        /\ OneRegistrationPerTicket
        /\ sock \in [Socket -> SockState]
  BY DEF TicketsInv, PeersInv
<1> QED BY <1>1, PeersInit, PeersStep, TicketsInit, TicketsStep, PTL DEF Spec

-----------------------------------------------------------------------------
\* Retirement.

DeletionType ==
  [step : {"idle", "opening", "writing", "renaming", "done", "failed"},
   handle : {"none", "temp", "file"}]

StoreTypeOK ==
  /\ relay \in [up : BOOLEAN, starts : 1 .. MaxRelayStarts]
  /\ deletion \in [Delete -> DeletionType]
  /\ revoked \subseteq Route /\ due \subseteq Route /\ answered \subseteq Route
  /\ file = Torn \/ file \subseteq Route
  /\ temp \in {Torn, Absent} \/ temp \subseteq Route

\* A relay that is down has no connection that could register, and holds no role.
DownIsSilent ==
  relay.up \/ (slot = NoPeers /\ \A s \in Socket : sock[s] # "open")

\* With one DELETE request at work at a time, the temporary file is its own, and
\* what is marked in memory but not in the file is the route of that request.
OneAtWork ==
  /\ \A d, e \in AtWork : d = e
  /\ \A d \in AtWork :
       /\ relay.up
       /\ DeleteOf[d] \in revoked \ answered
       /\ deletion[d].step \in {"writing", "renaming"} => deletion[d].handle = "temp"
       /\ deletion[d].step = "renaming" => temp = revoked
  /\ relay.up => /\ answered \subseteq revoked
                 /\ revoked \subseteq file \cup {DeleteOf[d] : d \in AtWork}
  /\ answered \subseteq file
  /\ Home \in answered \ due => slot = NoPeers

RetirementInv ==
  /\ StoreTypeOK
  /\ DownIsSilent
  /\ ~overlapped => OneAtWork

LEMMA RetirementInit == Init => RetirementInv
BY RelayConstants
DEF Init, ServerInit, NoPeers, RetirementInv, StoreTypeOK, DeletionType, DownIsSilent,
    OneAtWork, AtWork, Torn, Absent

\* What leaves the store alone keeps the invariant, if it leaves no role to a
\* retired route: the roles are as before, are given up, or were given up before.
LEMMA QuietKeepsRetirement ==
  ASSUME RetirementInv, UNCHANGED <<relay, storeVars>>,
         slot = NoPeers => slot' = NoPeers,
         relay.up \/ \A s \in Socket : sock'[s] = "open" => sock[s] = "open"
  PROVE  RetirementInv'
<1> USE DEF storeVars
<1>1. StoreTypeOK'
  BY DEF RetirementInv, StoreTypeOK
<1>2. DownIsSilent'
  BY DEF RetirementInv, DownIsSilent
<1>3. ~overlapped' => OneAtWork'
  BY DEF RetirementInv, OneAtWork, AtWork
<1> QED BY <1>1, <1>2, <1>3 DEF RetirementInv

LEMMA ConnectionsKeepRetirement ==
  ASSUME PeersInv, RetirementInv,
         \/ \E role \in Roles : Dial(role)
         \/ LinkNext
         \/ \E s \in Socket : Leave(s) \/ Closed(s) \/ TicketExpires(s)
  PROVE  RetirementInv'
<1> USE RelayConstants, RoleFacts
<1>1. ASSUME NEW role \in Roles, Dial(role) PROVE RetirementInv'
  <2>1. PICK s : Connect(s)
    BY <1>1 DEF Dial
  <2> QED BY <2>1, QuietKeepsRetirement DEF Connect
<1>2. CASE LinkNext
  <2>1. PeersMove
    BY <1>2, LinkMoves DEF PeersInv
  <2>2. slot = NoPeers => slot' = NoPeers
    BY <2>1 DEF PeersMove, Demotes, CloseRoute
  <2>3. \A s \in Socket : sock'[s] = "open" => sock[s] = "open"
    BY <2>1 DEF PeersMove, Demotes, CloseRoute, PeersInv
  <2> QED BY <2>1, <2>2, <2>3, QuietKeepsRetirement DEF PeersMove
<1>3. ASSUME NEW s \in Socket, Leave(s) PROVE RetirementInv'
  <2>1. \A t \in Socket : sock'[t] = "open" => sock[t] = "open"
    BY <1>3 DEF Leave, PeersInv
  <2> QED BY <1>3, <2>1, QuietKeepsRetirement DEF Leave
<1>4. ASSUME NEW s \in Socket, Closed(s) PROVE RetirementInv'
  <2>1. \A t \in Socket : sock'[t] = "open" => sock[t] = "open"
    BY <1>4 DEF Closed, PeersInv
  <2>2. slot = NoPeers => slot' = NoPeers
    BY <1>4 DEF Closed, SlotAfterClose, NoPeers
  <2> QED BY <1>4, <2>1, <2>2, QuietKeepsRetirement DEF Closed
<1>5. ASSUME NEW s \in Socket, TicketExpires(s) PROVE RetirementInv'
  BY <1>5, QuietKeepsRetirement DEF TicketExpires, peerVars
<1> QED BY <1>1, <1>2, <1>3, <1>4, <1>5

\* A registration reads the routes in memory, where a retired route stays.
LEMMA RegisterKeepsRetirement ==
  ASSUME PeersInv, RetirementInv, NEW s \in Socket, NEW k \in Socket, Register(s, k)
  PROVE  RetirementInv'
<1>1. relay.up
  BY DEF Register, RetirementInv, DownIsSilent
<1>2. UNCHANGED <<relay, storeVars>>
  BY DEF Register
<1>3. slot' = slot \/ Home \notin revoked
  BY DEF Register, Registers
<1>4. StoreTypeOK' /\ DownIsSilent'
  BY <1>1, <1>2 DEF RetirementInv, StoreTypeOK, DownIsSilent, storeVars
<1>5. ~overlapped' => OneAtWork'
  BY <1>1, <1>2, <1>3 DEF RetirementInv, OneAtWork, AtWork, storeVars
<1> QED BY <1>4, <1>5 DEF RetirementInv

LEMMA DeletionTypes ==
  ASSUME StoreTypeOK, DeletionNext
  PROVE  StoreTypeOK'
<1> USE RelayConstants
<1>1. ASSUME NEW d \in Delete, ReceiveDelete(d) PROVE StoreTypeOK'
  <2>1. deletion' \in [Delete -> DeletionType]
    BY <1>1 DEF ReceiveDelete, StoreTypeOK, DeletionType
  <2>2. DeleteOf[d] \in Route
    OBVIOUS
  <2> QED BY <1>1, <2>1, <2>2 DEF ReceiveDelete, StoreTypeOK
<1>2. ASSUME NEW d \in Delete, OpenTemporary(d) PROVE StoreTypeOK'
  <2>1. deletion' \in [Delete -> DeletionType]
    BY <1>2 DEF OpenTemporary, StoreTypeOK, DeletionType
  <2> QED BY <1>2, <2>1 DEF OpenTemporary, StoreTypeOK
<1>3. ASSUME NEW d \in Delete, WriteState(d) PROVE StoreTypeOK'
  <2>1. deletion' \in [Delete -> DeletionType]
    BY <1>3 DEF WriteState, StoreTypeOK, DeletionType
  <2> QED BY <1>3, <2>1 DEF WriteState, StoreTypeOK
<1>4. ASSUME NEW d \in Delete, RenameState(d) PROVE StoreTypeOK'
  <2>1. \A e \in Delete : [deletion[e] EXCEPT !.handle = "file"] \in DeletionType
    BY DEF StoreTypeOK, DeletionType
  <2>2. [step |-> "done", handle |-> "none"] \in DeletionType
    BY DEF DeletionType
  <2>3. deletion' \in [Delete -> DeletionType]
    BY <1>4, <2>1, <2>2 DEF RenameState, StoreTypeOK
  <2>4. DeleteOf[d] \in Route
    OBVIOUS
  <2> QED BY <1>4, <2>3, <2>4 DEF RenameState, StoreTypeOK
<1>5. ASSUME NEW d \in Delete, PersistFails(d) PROVE StoreTypeOK'
  <2>1. deletion' \in [Delete -> DeletionType]
    BY <1>5 DEF PersistFails, StoreTypeOK, DeletionType
  <2> QED BY <1>5, <2>1 DEF PersistFails, StoreTypeOK
<1> QED BY <1>1, <1>2, <1>3, <1>4, <1>5 DEF DeletionNext

\* The steps of one request while no other is at work.
LEMMA DeletionKeepsOne ==
  ASSUME StoreTypeOK, OneAtWork, DeletionNext, ~overlapped'
  PROVE  OneAtWork'
<1> USE RelayConstants
<1>1. ASSUME NEW d \in Delete, ReceiveDelete(d) PROVE OneAtWork'
  <2>1. AtWork = {} /\ relay.up
    BY <1>1 DEF ReceiveDelete
  <2>2. \A e \in Delete \ {d} : deletion'[e] = deletion[e]
    BY <1>1 DEF ReceiveDelete, StoreTypeOK
  <2>3. CASE DeleteOf[d] \in revoked
    <3>1. AtWork' = {}
      BY <1>1, <2>1, <2>2, <2>3 DEF ReceiveDelete, AtWork, StoreTypeOK, DeletionType
    <3> QED BY <1>1, <2>1, <2>3, <3>1 DEF ReceiveDelete, OneAtWork, peerVars
  <2>4. CASE DeleteOf[d] \notin revoked
    <3>1. deletion'[d].step = "opening"
      BY <1>1, <2>4 DEF ReceiveDelete, StoreTypeOK, DeletionType
    <3>2. AtWork' = {d}
      BY <2>1, <2>2, <3>1 DEF AtWork
    <3> QED BY <1>1, <2>1, <2>4, <3>1, <3>2 DEF ReceiveDelete, OneAtWork, peerVars
  <2> QED BY <2>3, <2>4
<1>2. ASSUME NEW d \in Delete, OpenTemporary(d) PROVE OneAtWork'
  <2>1. AtWork = {d}
    BY <1>2 DEF OpenTemporary, OneAtWork, AtWork
  <2>2. AtWork' = {d} /\ deletion'[d] = [step |-> "writing", handle |-> "temp"]
    BY <1>2, <2>1 DEF OpenTemporary, AtWork, StoreTypeOK
  <2> QED BY <1>2, <2>1, <2>2 DEF OpenTemporary, OneAtWork, peerVars
<1>3. ASSUME NEW d \in Delete, WriteState(d) PROVE OneAtWork'
  <2>1. AtWork = {d} /\ deletion[d].handle = "temp"
    BY <1>3 DEF WriteState, OneAtWork, AtWork
  <2>2. /\ AtWork' = {d}
        /\ deletion'[d].step = "renaming" /\ deletion'[d].handle = "temp"
    BY <1>3, <2>1 DEF WriteState, AtWork, StoreTypeOK, DeletionType
  <2> QED BY <1>3, <2>1, <2>2 DEF WriteState, OneAtWork, peerVars
<1>4. ASSUME NEW d \in Delete, RenameState(d) PROVE OneAtWork'
  <2>1. AtWork = {d} /\ temp = revoked /\ relay.up
    BY <1>4 DEF RenameState, OneAtWork, AtWork
  <2>2. AtWork' = {}
    <3>1. \A e \in Delete \ {d} :
            deletion'[e].step = deletion[e].step /\ deletion[e].step \notin {"opening", "writing", "renaming"}
      BY <1>4, <2>1 DEF RenameState, AtWork, StoreTypeOK, DeletionType
    <3>2. deletion'[d].step = "done"
      BY <1>4 DEF RenameState
    <3> QED BY <3>1, <3>2 DEF AtWork
  <2> QED BY <1>4, <2>1, <2>2 DEF RenameState, OneAtWork, peerVars
<1>5. ASSUME NEW d \in Delete, PersistFails(d) PROVE OneAtWork'
  <2>1. AtWork = {d}
    BY <1>5 DEF PersistFails, OneAtWork
  <2>2. AtWork' = {}
    BY <1>5, <2>1 DEF PersistFails, AtWork, StoreTypeOK
  <2> QED BY <1>5, <2>1, <2>2 DEF PersistFails, OneAtWork, peerVars
<1> QED BY <1>1, <1>2, <1>3, <1>4, <1>5 DEF DeletionNext

LEMMA RetirementStep == PeersInv /\ RetirementInv /\ [Next]_vars => RetirementInv'
<1> SUFFICES ASSUME PeersInv, RetirementInv, [Next]_vars PROVE RetirementInv'
  OBVIOUS
<1> USE RelayConstants, RoleFacts
<1>1. CASE DeletionNext
  <2>1. overlapped => overlapped'
    BY <1>1 DEF DeletionNext, ReceiveDelete, OpenTemporary, WriteState, RenameState,
                PersistFails
  <2>2. UNCHANGED <<sock, slot, relay>>
    BY <1>1 DEF DeletionNext, ReceiveDelete, OpenTemporary, WriteState, RenameState,
                PersistFails, peerVars
  <2> QED BY <1>1, <2>1, <2>2, DeletionTypes, DeletionKeepsOne
          DEF RetirementInv, DownIsSilent
<1>2. ASSUME NEW r \in Route, CloseTimer(r) PROVE RetirementInv'
  <2>1. slot' = slot \/ slot' = NoPeers
    BY <1>2 DEF CloseTimer, CloseRoute
  <2>2. \A s \in Socket : sock'[s] = "open" => sock[s] = "open"
    BY <1>2 DEF CloseTimer, CloseRoute, PeersInv
  <2>3. Home \in due \ due' => slot' = NoPeers
    BY <1>2 DEF CloseTimer, CloseRoute
  <2>4. StoreTypeOK' /\ DownIsSilent'
    BY <1>2, <2>1, <2>2 DEF CloseTimer, RetirementInv, StoreTypeOK, DownIsSilent
  <2>5. ~overlapped' => OneAtWork'
    BY <1>2, <2>1, <2>3 DEF CloseTimer, RetirementInv, OneAtWork, AtWork
  <2> QED BY <2>4, <2>5 DEF RetirementInv
<1>3. CASE RelayStops
  <2>1. \A d \in Delete : [step |-> "failed", handle |-> "none"] \in DeletionType
    BY DEF DeletionType
  <2>2. deletion' \in [Delete -> DeletionType] /\ AtWork' = {}
    BY <1>3, <2>1 DEF RelayStops, AtWork, RetirementInv, StoreTypeOK
  <2>3. relay' \in [up : BOOLEAN, starts : 1 .. MaxRelayStarts] /\ ~relay'.up
    BY <1>3 DEF RelayStops, RetirementInv, StoreTypeOK
  <2>4. slot' = NoPeers /\ \A s \in Socket : sock'[s] # "open"
    BY <1>3 DEF RelayStops
  <2>5. StoreTypeOK'
    BY <1>3, <2>2, <2>3 DEF RelayStops, RetirementInv, StoreTypeOK
  <2>6. ~overlapped' => OneAtWork'
    BY <1>3, <2>2, <2>3, <2>4 DEF RelayStops, RetirementInv, OneAtWork
  <2> QED BY <2>4, <2>5, <2>6 DEF RetirementInv, DownIsSilent
<1>4. CASE RelayStarts
  <2>1. ~overlapped => AtWork = {}
    BY <1>4 DEF RelayStarts, RetirementInv, OneAtWork
  <2>2. relay' \in [up : BOOLEAN, starts : 1 .. MaxRelayStarts] /\ relay'.up
    BY <1>4 DEF RelayStarts, RetirementInv, StoreTypeOK
  <2>3. StoreTypeOK'
    BY <1>4, <2>2 DEF RelayStarts, RetirementInv, StoreTypeOK
  <2>4. ~overlapped' => OneAtWork'
    BY <1>4, <2>1, <2>2 DEF RelayStarts, RetirementInv, OneAtWork, AtWork, peerVars
  <2> QED BY <2>2, <2>3, <2>4 DEF RetirementInv, DownIsSilent
<1>5. CASE UNCHANGED vars
  BY <1>5, QuietKeepsRetirement DEF vars, serverVars, storeVars
<1> QED
  BY <1>1, <1>2, <1>3, <1>4, <1>5, NextCases, ConnectionsKeepRetirement,
     RegisterKeepsRetirement

\* A retirement answered with 204 survives every restart, and ends what was
\* registered under the route, unless two DELETE requests overlapped.
THEOREM RetirementsStand == Spec => []RetiredForGood
<1>1. RetirementInv => RetiredForGood
  BY DEF RetirementInv, OneAtWork, RetiredForGood
<1> QED BY <1>1, PeersInit, PeersStep, RetirementInit, RetirementStep, PTL DEF Spec

-----------------------------------------------------------------------------
\* Frames and requests.

EndType == [step : EndStep, at : Socket \cup {None}, peer : Socket \cup {None}]
FrameType ==
  [from : Socket \cup {None}, to : Socket \cup {None},
   kind : {"hello", "welcome", "request", "response"}, id : Rpc \cup {None}]

\* A frame that asks names a request, and one that answers a request that was
\* carried out.
Honest(f) == /\ f.kind = "request" => f.id \in Rpc
             /\ f.kind = "response" => f.id \in handled

HonestFrame == {f \in FrameType : Honest(f)}

FramesInv ==
  /\ queue \in [Socket -> Seq(HonestFrame)]
  /\ \A s \in Socket : Len(queue[s]) <= MaxQueued
  /\ end \in [Roles -> EndType]
  /\ \A role \in Roles : end[role].step # "away" => end[role].at \in Socket
  /\ handled \subseteq Rpc
  /\ working # None => working \in handled
  /\ outcome \in [Rpc -> {"none", "pending", "resolved", "rejected"}]
  /\ \A i \in Rpc : outcome[i] = "resolved" => i \in handled

LEMMA FramesInit == Init => FramesInv
BY RelayConstants
DEF Init, ServerInit, FramesInv, Away, EndType, EndStep

\* What was honest stays so when more requests have been carried out.
LEMMA HonestStays ==
  ASSUME handled \subseteq handled', NEW q \in Seq(HonestFrame)
  PROVE  q \in Seq(HonestFrame')
<1>1. HonestFrame \subseteq HonestFrame'
  BY DEF HonestFrame, Honest
<1>2. \A n \in 1 .. Len(q) : q[n] \in HonestFrame'
  BY <1>1
<1> QED BY <1>2, SeqDef

\* The three things that happen to the send buffers.
Sends(frame) ==
  \A s \in Socket : \/ queue'[s] = queue[s]
                    \/ queue'[s] = Append(queue[s], frame) /\ Room(s)

LEMMA ForwardSends ==
  ASSUME FramesInv, NEW s, NEW f, Forward(s, f)
  PROVE  Sends(f) /\ queue' = [t \in Socket |-> queue'[t]]
BY DEF Forward, Sends, FramesInv

LEMMA SentIsHonest ==
  ASSUME FramesInv, NEW f \in HonestFrame, Sends(f), queue' = [t \in Socket |-> queue'[t]],
         UNCHANGED handled
  PROVE  /\ queue' \in [Socket -> Seq(HonestFrame')]
         /\ \A s \in Socket : Len(queue'[s]) <= MaxQueued
<1>1. HonestFrame' = HonestFrame
  BY DEF HonestFrame, Honest
<1>2. ASSUME NEW s \in Socket
      PROVE  queue'[s] \in Seq(HonestFrame) /\ Len(queue'[s]) <= MaxQueued
  <2>1. queue[s] \in Seq(HonestFrame) /\ Len(queue[s]) \in Nat
    BY DEF FramesInv
  <2>2. Append(queue[s], f) \in Seq(HonestFrame) /\ Len(Append(queue[s], f)) = Len(queue[s]) + 1
    BY <2>1
  <2>3. MaxQueued \in Nat
    BY RelayConstants
  <2>4. CASE queue'[s] = queue[s]
    BY <2>1, <2>4 DEF FramesInv
  <2>5. CASE queue'[s] = Append(queue[s], f) /\ Len(queue[s]) < MaxQueued
    BY <2>1, <2>2, <2>3, <2>5
  <2> QED BY <2>4, <2>5 DEF Sends, Room
<1> QED BY <1>1, <1>2

\* A buffer as it was, or a shorter one.
LEMMA FewerAreHonest ==
  ASSUME FramesInv, handled \subseteq handled', queue' = [t \in Socket |-> queue'[t]],
         \A s \in Socket : \/ queue'[s] = queue[s] \/ queue'[s] = <<>>
                           \/ queue[s] # <<>> /\ queue'[s] = Tail(queue[s])
  PROVE  /\ queue' \in [Socket -> Seq(HonestFrame')]
         /\ \A s \in Socket : Len(queue'[s]) <= MaxQueued
<1>1. ASSUME NEW s \in Socket
      PROVE  queue'[s] \in Seq(HonestFrame) /\ Len(queue'[s]) <= MaxQueued
  <2>1. queue[s] \in Seq(HonestFrame) /\ Len(queue[s]) <= MaxQueued
    BY DEF FramesInv
  <2>2. <<>> \in Seq(HonestFrame) /\ Len(<<>>) <= MaxQueued
    BY RelayConstants
  <2>3. queue[s] # <<>> => /\ Tail(queue[s]) \in Seq(HonestFrame)
                           /\ Len(Tail(queue[s])) = Len(queue[s]) - 1
                           /\ Len(queue[s]) \in Nat
    BY <2>1
  <2>4. MaxQueued \in Nat
    BY RelayConstants
  <2>5. CASE queue'[s] = queue[s] \/ queue'[s] = <<>>
    BY <2>1, <2>2, <2>5
  <2>6. CASE queue[s] # <<>> /\ queue'[s] = Tail(queue[s])
    BY <2>1, <2>3, <2>4, <2>6
  <2> QED BY <2>5, <2>6
<1> QED BY <1>1, HonestStays

LEMMA HeadIsHonest ==
  ASSUME FramesInv, NEW s \in Socket, queue[s] # <<>>
  PROVE  Head(queue[s]) \in HonestFrame
BY DEF FramesInv

\* The ends and the requests.
EndsInv ==
  /\ end \in [Roles -> EndType]
  /\ \A role \in Roles : end[role].step # "away" => end[role].at \in Socket
  /\ handled \subseteq Rpc
  /\ working # None => working \in handled
  /\ outcome \in [Rpc -> {"none", "pending", "resolved", "rejected"}]
  /\ \A i \in Rpc : outcome[i] = "resolved" => i \in handled

LEMMA LetGoKeepsEnds ==
  ASSUME EndsInv, NEW role \in Roles, LetGo(role), UNCHANGED <<working, handled>>
  PROVE  EndsInv'
<1>1. Away \in EndType
  BY DEF Away, EndType, EndStep
<1> QED BY <1>1 DEF EndsInv, LetGo, Reject, Pending, Away

LEMMA EndsAndQueue ==
  FramesInv <=> /\ EndsInv
                /\ queue \in [Socket -> Seq(HonestFrame)]
                /\ \A s \in Socket : Len(queue[s]) <= MaxQueued
BY DEF FramesInv, EndsInv

LEMMA SendStep ==
  ASSUME FramesInv, NEW s, NEW f \in HonestFrame, Forward(s, f), EndsInv',
         UNCHANGED handled
  PROVE  FramesInv'
<1>1. Sends(f) /\ queue' = [t \in Socket |-> queue'[t]]
  BY ForwardSends
<1>2. /\ queue' \in [Socket -> Seq(HonestFrame')]
      /\ \A t \in Socket : Len(queue'[t]) <= MaxQueued
  BY <1>1, SentIsHonest
<1> QED BY <1>2 DEF FramesInv, EndsInv

LEMMA ReadStep ==
  ASSUME FramesInv, EndsInv', handled \subseteq handled',
         NEW s, UNCHANGED queue \/ Delivered(s)
  PROVE  FramesInv'
<1>1. queue' = [t \in Socket |-> queue'[t]]
  BY DEF Delivered, FramesInv
<1>2. \A t \in Socket : \/ queue'[t] = queue[t]
                        \/ queue[t] # <<>> /\ queue'[t] = Tail(queue[t])
  BY DEF Delivered, FramesInv
<1>3. /\ queue' \in [Socket -> Seq(HonestFrame')]
      /\ \A t \in Socket : Len(queue'[t]) <= MaxQueued
  BY <1>1, <1>2, FewerAreHonest
<1> QED BY <1>3 DEF FramesInv, EndsInv

\* A session that breaks.
LEMMA BreaksKeeps ==
  ASSUME FramesInv, NEW role \in Roles, GivesUpReading(role)
  PROVE  FramesInv'
<1>1. EndsInv'
  BY LetGoKeepsEnds, EndsAndQueue DEF GivesUpReading, Breaks, PumpFails
<1> QED BY <1>1, ReadStep DEF GivesUpReading, Breaks, PumpFails

\* The frames the two ends send.
LEMMA SentFrames ==
  ASSUME FramesInv, NEW role \in Roles
  PROVE  LET e == end[role] IN
         /\ Frame(e.at, None, "hello", None) \in HonestFrame
         /\ Frame(e.at, e.peer, "welcome", None) \in HonestFrame
         /\ \A i \in Rpc : Frame(e.at, e.peer, "request", i) \in HonestFrame
         /\ working # None => Frame(e.at, e.peer, "response", working) \in HonestFrame
<1>1. end[role].at \in Socket \cup {None} /\ end[role].peer \in Socket \cup {None}
  BY DEF FramesInv, EndType
<1>2. working # None => working \in handled /\ working \in Rpc
  BY DEF FramesInv
<1> QED BY <1>1, <1>2 DEF Frame, HonestFrame, Honest, FrameType

LEMMA EndSteps ==
  ASSUME FramesInv, NEW role \in Roles
  PROVE  /\ \A st \in EndStep : [end[role] EXCEPT !.step = st] \in EndType
         /\ \A st \in EndStep, p \in Socket \cup {None} :
              [end[role] EXCEPT !.step = st, !.peer = p] \in EndType
         /\ Away \in EndType
BY DEF FramesInv, EndType, Away, EndStep

\* An end goes a step further.
LEMMA EndSet ==
  ASSUME FramesInv, NEW role \in Roles, NEW e \in EndType,
         e.step # "away" => e.at \in Socket,
         end' = [end EXCEPT ![role] = e], UNCHANGED <<outcome, handled>>,
         working' \in {working, None}
  PROVE  EndsInv'
<1>1. end' \in [Roles -> EndType] /\ \A r \in Roles : end'[r] = IF r = role THEN e ELSE end[r]
  BY DEF FramesInv
<1> QED BY <1>1 DEF FramesInv, EndsInv

LEMMA HandshakesKeepFrames ==
  ASSUME FramesInv,
         \/ \E role \in Roles : Dial(role) \/ Ready(role) \/ LosesConnection(role)
         \/ HostShakes \/ HostAnswersHandshake \/ DeviceShakes
  PROVE  FramesInv'
<1> USE RoleFacts
<1>1. ASSUME NEW role \in Roles, Dial(role) PROVE FramesInv'
  <2>1. PICK s \in Socket :
          /\ Connect(s)
          /\ end' = [end EXCEPT ![role] = [step |-> "registering", at |-> s, peer |-> None]]
    BY <1>1 DEF Dial, Unused, SocketOf, Socket
  <2>2. [step |-> "registering", at |-> s, peer |-> None] \in EndType
    BY DEF EndType, EndStep
  <2>3. EndsInv'
    BY <1>1, <2>1, <2>2, EndSet DEF Dial
  <2> QED BY <1>1, <2>1, <2>3, ReadStep DEF Dial, Connect
<1>2. ASSUME NEW role \in Roles, Ready(role) PROVE FramesInv'
  <2>1. [end[role] EXCEPT !.step = "shaking"] \in EndType
    BY EndSteps DEF EndStep
  <2>2. EndsInv'
    BY <1>2, <2>1 DEF Ready, FramesInv, EndsInv, EndType
  <2>3. CASE role = "device"
    <3>1. Frame(end[role].at, None, "hello", None) \in HonestFrame
      BY <1>2, SentFrames DEF Ready
    <3> QED BY <1>2, <2>2, <2>3, <3>1, SendStep DEF Ready
  <2>4. CASE role # "device"
    BY <1>2, <2>2, <2>4, ReadStep DEF Ready, serverVars
  <2> QED BY <2>3, <2>4
<1>3. ASSUME NEW role \in Roles, LosesConnection(role) PROVE FramesInv'
  <2>1. EndsInv'
    BY <1>3, LetGoKeepsEnds, EndsAndQueue DEF LosesConnection
  <2> QED BY <1>3, <2>1, ReadStep DEF LosesConnection
<1>4. CASE HostShakes
  <2> DEFINE f == Head(queue[end["host"].at])
  <2>1. CASE f.kind = "hello"
    <3>1. f.from \in Socket \cup {None}
      BY <1>4, HeadIsHonest DEF HostShakes, FramesInv, HonestFrame, FrameType
    <3>2. [end["host"] EXCEPT !.step = "answering", !.peer = f.from] \in EndType
      BY <3>1, EndSteps DEF EndStep
    <3>3. EndsInv'
      <4>1. end' = [end EXCEPT !["host"] = [end["host"] EXCEPT !.step = "answering", !.peer = f.from]]
        BY <1>4, <2>1 DEF HostShakes, FramesInv, EndType
      <4>2. end["host"].at \in Socket
        BY <1>4 DEF HostShakes, FramesInv
      <4> QED BY <1>4, <2>1, <3>2, <4>1, <4>2, EndSet DEF HostShakes, FramesInv, EndType
    <3> QED BY <1>4, <2>1, <3>3, ReadStep DEF HostShakes
  <2>2. CASE f.kind # "hello"
    BY <1>4, <2>2, BreaksKeeps DEF GivesUpReading, HostShakes
  <2> QED BY <2>1, <2>2
<1>5. CASE HostAnswersHandshake
  <2>1. CASE sock[end["host"].at] \in {"peer", "closing"}
    <3>1. [end["host"] EXCEPT !.step = "up"] \in EndType
      BY EndSteps DEF EndStep
    <3>2. EndsInv'
      <4>1. end' = [end EXCEPT !["host"] = [end["host"] EXCEPT !.step = "up"]]
        BY <1>5, <2>1 DEF HostAnswersHandshake, FramesInv, EndType
      <4>2. end["host"].at \in Socket
        BY <1>5 DEF HostAnswersHandshake, FramesInv
      <4> QED BY <1>5, <3>1, <4>1, <4>2, EndSet DEF HostAnswersHandshake, FramesInv, EndType
    <3>3. Frame(end["host"].at, end["host"].peer, "welcome", None) \in HonestFrame
      BY <1>5, SentFrames DEF HostAnswersHandshake
    <3> QED BY <1>5, <2>1, <3>2, <3>3, SendStep DEF HostAnswersHandshake
  <2>2. CASE sock[end["host"].at] \notin {"peer", "closing"}
    <3>1. EndsInv'
      BY <1>5, <2>2, EndSteps, EndSet DEF HostAnswersHandshake, Away
    <3> QED BY <1>5, <2>2, <3>1, ReadStep DEF HostAnswersHandshake, serverVars
  <2> QED BY <2>1, <2>2
<1>6. CASE DeviceShakes
  <2> DEFINE f == Head(queue[end["device"].at])
  <2>1. CASE f.kind = "welcome" /\ f.to = end["device"].at
    <3>1. f.from \in Socket \cup {None}
      BY <1>6, HeadIsHonest DEF DeviceShakes, FramesInv, HonestFrame, FrameType
    <3>2. [end["device"] EXCEPT !.step = "up", !.peer = f.from] \in EndType
      BY <3>1, EndSteps DEF EndStep
    <3>3. EndsInv'
      <4>1. end' = [end EXCEPT !["device"] = [end["device"] EXCEPT !.step = "up", !.peer = f.from]]
        BY <1>6, <2>1 DEF DeviceShakes, FramesInv, EndType
      <4>2. end["device"].at \in Socket
        BY <1>6 DEF DeviceShakes, FramesInv
      <4> QED BY <1>6, <2>1, <3>2, <4>1, <4>2, EndSet DEF DeviceShakes, FramesInv, EndType
    <3> QED BY <1>6, <2>1, <3>3, ReadStep DEF DeviceShakes
  <2>2. CASE ~(f.kind = "welcome" /\ f.to = end["device"].at)
    BY <1>6, <2>2, BreaksKeeps DEF GivesUpReading, DeviceShakes
  <2> QED BY <2>1, <2>2
<1> QED BY <1>1, <1>2, <1>3, <1>4, <1>5, <1>6

LEMMA RequestsKeepFrames ==
  ASSUME FramesInv,
         \/ ServeRequest \/ Respond \/ ReadResponse
         \/ \E i \in Rpc : Request(i) \/ RequestTimesOut(i)
         \/ \E s \in Socket : Discard(s)
  PROVE  FramesInv'
<1> USE RoleFacts
<1>1. CASE ServeRequest
  <2> DEFINE e == end["host"]
             f == Head(queue[e.at])
  <2>1. CASE Readable(f, e) /\ f.kind = "request"
    <3>1. f.id \in Rpc
      BY <1>1, <2>1, HeadIsHonest DEF ServeRequest, FramesInv, HonestFrame, Honest
    <3>2. EndsInv' /\ handled \subseteq handled'
      BY <1>1, <2>1, <3>1 DEF ServeRequest, FramesInv, EndsInv
    <3> QED BY <1>1, <2>1, <3>2, ReadStep DEF ServeRequest
  <2>2. CASE ~(Readable(f, e) /\ f.kind = "request")
    BY <1>1, <2>2, BreaksKeeps DEF GivesUpReading, ServeRequest
  <2> QED BY <2>1, <2>2
<1>2. CASE Respond
  <2> DEFINE e == end["host"]
  <2>1. CASE sock[e.at] = "peer" /\ note[e.at] # "offline"
    <3>1. EndsInv'
      BY <1>2, <2>1 DEF Respond, FramesInv, EndsInv
    <3>2. Frame(e.at, e.peer, "response", working) \in HonestFrame
      BY <1>2, SentFrames DEF Respond
    <3> QED BY <1>2, <2>1, <3>1, <3>2, SendStep DEF Respond
  <2>2. CASE ~(sock[e.at] = "peer" /\ note[e.at] # "offline")
    <3>1. EndsInv'
      BY <1>2, <2>2, EndSteps, EndSet DEF Respond, Away
    <3> QED BY <1>2, <2>2, <3>1, ReadStep DEF Respond
  <2> QED BY <2>1, <2>2
<1>3. CASE ReadResponse
  <2> DEFINE e == end["device"]
             f == Head(queue[e.at])
  <2>1. CASE Readable(f, e) /\ f.kind = "response" /\ IsPending(f.id)
    <3>1. f.id \in handled
      BY <1>3, <2>1, HeadIsHonest DEF ReadResponse, FramesInv, HonestFrame, Honest
    <3>2. /\ outcome' = [outcome EXCEPT ![f.id] = "resolved"]
          /\ UNCHANGED <<end, working, handled>>
      BY <1>3, <2>1 DEF ReadResponse
    <3>3. EndsInv'
      BY <3>1, <3>2 DEF FramesInv, EndsInv
    <3> QED BY <1>3, <2>1, <3>3, ReadStep DEF ReadResponse
  <2>2. CASE ~(Readable(f, e) /\ f.kind = "response" /\ IsPending(f.id))
    BY <1>3, <2>2, BreaksKeeps DEF GivesUpReading, ReadResponse
  <2> QED BY <2>1, <2>2
<1>4. ASSUME NEW i \in Rpc, Request(i) PROVE FramesInv'
  <2> DEFINE e == end["device"]
  <2>1. EndsInv'
    BY <1>4 DEF Request, FramesInv, EndsInv
  <2>2. Frame(e.at, e.peer, "request", i) \in HonestFrame
    BY <1>4, SentFrames DEF Request
  <2> QED BY <1>4, <2>1, <2>2, SendStep, ReadStep DEF Request, serverVars
<1>5. ASSUME NEW i \in Rpc, RequestTimesOut(i) PROVE FramesInv'
  <2>1. EndsInv'
    BY <1>5 DEF RequestTimesOut, FramesInv, EndsInv
  <2> QED BY <1>5, <2>1, ReadStep DEF RequestTimesOut, serverVars
<1>6. ASSUME NEW s \in Socket, Discard(s) PROVE FramesInv'
  <2>1. EndsInv'
    BY <1>6 DEF Discard, linkVars, FramesInv, EndsInv
  <2> QED BY <1>6, <2>1, ReadStep DEF Discard, linkVars
<1> QED BY <1>1, <1>2, <1>3, <1>4, <1>5, <1>6

LEMMA FramesStep == FramesInv /\ [Next]_vars => FramesInv'
<1> SUFFICES ASSUME FramesInv, [Next]_vars PROVE FramesInv'
  OBVIOUS
<1>quiet. UNCHANGED linkVars => EndsInv' /\ UNCHANGED handled
  BY DEF linkVars, FramesInv, EndsInv
<1>1. CASE \E role \in Roles : Dial(role)
  BY <1>1, HandshakesKeepFrames
<1>2. CASE LinkNext
  BY <1>2, HandshakesKeepFrames, RequestsKeepFrames DEF LinkNext
<1>3. ASSUME NEW s \in Socket, Closed(s), UNCHANGED linkVars PROVE FramesInv'
  <2>1. /\ queue' = [t \in Socket |-> queue'[t]]
        /\ \A t \in Socket : queue'[t] = queue[t] \/ queue'[t] = <<>>
    BY <1>3 DEF Closed, FramesInv
  <2> QED BY <1>3, <2>1, <1>quiet, FewerAreHonest DEF FramesInv, EndsInv
<1>4. CASE RelayStops /\ UNCHANGED linkVars
  <2>1. /\ queue' = [t \in Socket |-> queue'[t]]
        /\ \A t \in Socket : queue'[t] = <<>>
    BY <1>4 DEF RelayStops
  <2> QED BY <1>4, <2>1, <1>quiet, FewerAreHonest DEF FramesInv, EndsInv
<1>5. CASE UNCHANGED queue /\ UNCHANGED linkVars
  BY <1>5, <1>quiet, ReadStep
<1>6. (\/ \E s \in Socket : Leave(s) \/ TicketExpires(s)
       \/ \E s, k \in Socket : Register(s, k)
       \/ DeletionNext \/ RelayStarts
       \/ \E r \in Route : CloseTimer(r)) => UNCHANGED queue
  BY DEF Leave, TicketExpires, Register, DeletionNext, ReceiveDelete,
         OpenTemporary, WriteState, RenameState, PersistFails, RelayStarts,
         CloseTimer, peerVars
<1>7. UNCHANGED vars => UNCHANGED queue /\ UNCHANGED linkVars
  BY DEF vars, serverVars, linkVars
<1> QED BY <1>1, <1>2, <1>3, <1>4, <1>5, <1>6, <1>7, NextCases

\* Each request is settled once, and resolved only when it was carried out,
\* whatever frames are late, lost or meant for an earlier session.
THEOREM SettledOnceHolds == Spec => RequestsSettleOnce
<1>1. FramesInv /\ [Next]_vars => [SettledOnce]_vars
  <2> SUFFICES ASSUME FramesInv, Next PROVE SettledOnce
    BY DEF FramesInv
  <2>1. ASSUME UNCHANGED outcome PROVE SettledOnce
    BY <2>1 DEF SettledOnce, FramesInv
  <2>2. ASSUME Reject \/ UNCHANGED outcome PROVE SettledOnce
    BY <2>2 DEF SettledOnce, Reject, Pending, FramesInv
  <2>3. ASSUME NEW role, LetGo(role) \/ GivesUpReading(role) PROVE SettledOnce
    BY <2>2, <2>3 DEF GivesUpReading, Breaks, PumpFails, LetGo
  <2>4. ASSUME NEW i \in Rpc, Request(i) \/ RequestTimesOut(i) PROVE SettledOnce
    BY <2>4 DEF Request, RequestTimesOut, Pending, SettledOnce, FramesInv
  <2>5. CASE ReadResponse
    <3> DEFINE e == end["device"]
               f == Head(queue[e.at])
    <3>1. CASE Readable(f, e) /\ f.kind = "response" /\ IsPending(f.id)
      <4>1. f.id \in handled
        BY <2>5, <3>1, HeadIsHonest, RoleFacts
        DEF ReadResponse, FramesInv, HonestFrame, Honest
      <4> QED BY <2>5, <3>1, <4>1
              DEF ReadResponse, IsPending, Pending, SettledOnce, FramesInv
    <3>2. CASE ~(Readable(f, e) /\ f.kind = "response" /\ IsPending(f.id))
      BY <2>3, <2>5, <3>2 DEF GivesUpReading, ReadResponse
    <3> QED BY <3>1, <3>2
  <2>6. CASE HostShakes \/ DeviceShakes \/ ServeRequest \/ HostAnswersHandshake \/ Respond
    BY <2>1, <2>3, <2>6
    DEF GivesUpReading, HostShakes, DeviceShakes, ServeRequest, HostAnswersHandshake, Respond
  <2>7. ASSUME NEW role \in Roles, Dial(role) \/ Ready(role) \/ LosesConnection(role)
        PROVE  SettledOnce
    BY <2>1, <2>3, <2>7 DEF Dial, Ready, LosesConnection
  <2>8. CASE UNCHANGED linkVars \/ \E s \in Socket : Discard(s)
    BY <2>1, <2>8 DEF Discard, linkVars
  <2> QED BY <2>4, <2>5, <2>6, <2>7, <2>8 DEF Next
<1> QED BY <1>1, FramesInit, FramesStep, PTL DEF Spec, RequestsSettleOnce

-----------------------------------------------------------------------------
\* The two ends implement RemoteCall.

Asks(s, k) == k \in DOMAIN queue[s] /\ queue[s][k].kind = "request"
Answers(s, k) == k \in DOMAIN queue[s] /\ queue[s][k].kind = "response"

\* A request is under way in one frame at most, sent by a call and not yet
\* carried out; an answer is under way only when its handler has finished.
OnceInv ==
  /\ \A i \in handled : outcome[i] # "none"
  /\ \A s \in Socket : \A k \in Nat : Asks(s, k) =>
       outcome[queue[s][k].id] # "none" /\ queue[s][k].id \notin handled
  /\ \A s \in Socket : \A k \in Nat : Answers(s, k) => queue[s][k].id # working
  /\ \A s, t \in Socket : \A k, l \in Nat :
       Asks(s, k) /\ Asks(t, l) /\ queue[s][k].id = queue[t][l].id => s = t /\ k = l

\* The calls that were made stay made.
CallsStay == \A i \in Rpc : outcome[i] # "none" => outcome'[i] # "none"

\* Frames are delivered or lost.
Fewer ==
  \A s \in Socket : \E d \in Nat : \A k \in Nat : k \in DOMAIN queue'[s] =>
    k + d \in DOMAIN queue[s] /\ queue'[s][k] = queue[s][k + d]

\* One frame joins one buffer, as its last.
Joins(f) ==
  \E c : \A s \in Socket : \A k \in Nat : k \in DOMAIN queue'[s] =>
    \/ k \in DOMAIN queue[s] /\ queue'[s][k] = queue[s][k]
    \/ s = c /\ k = Len(queue[s]) + 1 /\ queue'[s][k] = f

LEMMA SomeFewer ==
  ASSUME FramesInv,
         \A s \in Socket : \/ queue'[s] = queue[s] \/ queue'[s] = <<>>
                           \/ queue[s] # <<>> /\ queue'[s] = Tail(queue[s])
  PROVE  Fewer
<1> SUFFICES ASSUME NEW s \in Socket
             PROVE  \E d \in Nat : \A k \in Nat : k \in DOMAIN queue'[s] =>
                      k + d \in DOMAIN queue[s] /\ queue'[s][k] = queue[s][k + d]
  BY DEF Fewer
<1>1. CASE queue'[s] = queue[s]
  <2>1. \A k \in Nat : k \in DOMAIN queue'[s] =>
          k + 0 \in DOMAIN queue[s] /\ queue'[s][k] = queue[s][k + 0]
    BY <1>1
  <2> QED BY <2>1
<1>2. CASE queue'[s] = <<>>
  <2>1. \A k \in Nat : k \notin DOMAIN queue'[s]
    BY <1>2
  <2> QED BY <2>1
<1>3. CASE queue[s] # <<>> /\ queue'[s] = Tail(queue[s])
  <2> DEFINE q == queue[s]
  <2>1. q \in Seq(HonestFrame) /\ q # <<>>
    BY <1>3 DEF FramesInv
  <2> HIDE DEF q
  <2>2. \A k \in Nat : k \in DOMAIN Tail(q) => k + 1 \in DOMAIN q /\ Tail(q)[k] = q[k + 1]
    BY <2>1
  <2> QED BY <1>3, <2>2 DEF q
<1> QED BY <1>1, <1>2, <1>3

LEMMA ForwardJoins ==
  ASSUME FramesInv, NEW s, NEW f, Forward(s, f)
  PROVE  Joins(f)
<1>1. CASE UNCHANGED queue
  BY <1>1 DEF Joins
<1>2. ASSUME NEW c, queue' = [queue EXCEPT ![c] = Append(@, f)] PROVE Joins(f)
  <2>1. ASSUME NEW t \in Socket, NEW k \in Nat, k \in DOMAIN queue'[t]
        PROVE  \/ k \in DOMAIN queue[t] /\ queue'[t][k] = queue[t][k]
               \/ t = c /\ k = Len(queue[t]) + 1 /\ queue'[t][k] = f
    <3>1. CASE t # c
      BY <1>2, <2>1, <3>1 DEF FramesInv
    <3>2. CASE t = c
      <4> DEFINE q == queue[t]
      <4>1. q \in Seq(HonestFrame) /\ queue'[t] = Append(q, f)
        BY <1>2, <3>2 DEF FramesInv
      <4> HIDE DEF q
      <4>2. \A n \in Nat : n \in DOMAIN Append(q, f) =>
              \/ n \in DOMAIN q /\ Append(q, f)[n] = q[n]
              \/ n = Len(q) + 1 /\ Append(q, f)[n] = f
        BY <4>1
      <4> QED BY <2>1, <3>2, <4>1, <4>2 DEF q
    <3> QED BY <3>1, <3>2
  <2> QED BY <2>1 DEF Joins
<1> QED BY <1>1, <1>2 DEF Forward

\* The frames of a buffer, and the requests they ask for or answer.
LEMMA FrameIds ==
  ASSUME FramesInv, NEW s \in Socket, NEW k \in Nat
  PROVE  /\ Asks(s, k) => queue[s][k].id \in Rpc
         /\ Answers(s, k) => queue[s][k].id \in handled /\ queue[s][k].id \in Rpc
<1>1. k \in DOMAIN queue[s] => queue[s][k] \in HonestFrame
  BY DEF FramesInv
<1> QED BY <1>1 DEF Asks, Answers, HonestFrame, Honest, FramesInv

LEMMA FewerKeepOnce ==
  ASSUME FramesInv, OnceInv, Fewer, CallsStay, UNCHANGED handled, working' \in {working, None}
  PROVE  OnceInv'
<1>1. \A i \in handled' : outcome'[i] # "none"
  BY DEF OnceInv, CallsStay, FramesInv
<1>2. ASSUME NEW s \in Socket
      PROVE  \E d \in Nat : \A k \in Nat : k \in DOMAIN queue'[s] =>
               k + d \in DOMAIN queue[s] /\ queue'[s][k] = queue[s][k + d] /\ k + d \in Nat
  <2>1. PICK d \in Nat : \A k \in Nat : k \in DOMAIN queue'[s] =>
               k + d \in DOMAIN queue[s] /\ queue'[s][k] = queue[s][k + d]
    BY <1>2 DEF Fewer
  <2>2. \A k \in Nat : k + d \in Nat
    OBVIOUS
  <2>3. \A k \in Nat : k \in DOMAIN queue'[s] =>
          k + d \in DOMAIN queue[s] /\ queue'[s][k] = queue[s][k + d] /\ k + d \in Nat
    BY ONLY <2>1, <2>2, Zenon
  <2> QED BY <2>3
<1>3. ASSUME NEW s \in Socket, NEW k \in Nat, Asks(s, k)'
      PROVE  outcome'[queue'[s][k].id] # "none" /\ queue'[s][k].id \notin handled'
  <2>1. PICK n \in Nat : Asks(s, n) /\ queue'[s][k] = queue[s][n]
    BY <1>2, <1>3 DEF Asks
  <2> QED BY <2>1, FrameIds DEF OnceInv, CallsStay
<1>4. ASSUME NEW s \in Socket, NEW k \in Nat, Answers(s, k)'
      PROVE  queue'[s][k].id # working'
  <2>1. PICK n \in Nat : Answers(s, n) /\ queue'[s][k] = queue[s][n]
    BY <1>2, <1>4 DEF Answers
  <2> QED BY <2>1, FrameIds, RelayConstants DEF OnceInv
<1>5. ASSUME NEW s \in Socket, NEW t \in Socket, NEW k \in Nat, NEW l \in Nat,
             Asks(s, k)', Asks(t, l)', queue'[s][k].id = queue'[t][l].id
      PROVE  s = t /\ k = l
  <2>1. PICK d \in Nat : \A n \in Nat : n \in DOMAIN queue'[s] =>
               n + d \in DOMAIN queue[s] /\ queue'[s][n] = queue[s][n + d] /\ n + d \in Nat
    BY <1>2
  <2>2. PICK b \in Nat : \A n \in Nat : n \in DOMAIN queue'[t] =>
               n + b \in DOMAIN queue[t] /\ queue'[t][n] = queue[t][n + b] /\ n + b \in Nat
    BY <1>2
  <2>3. /\ Asks(s, k + d) /\ queue'[s][k] = queue[s][k + d] /\ k + d \in Nat
        /\ Asks(t, l + b) /\ queue'[t][l] = queue[t][l + b] /\ l + b \in Nat
    BY <1>5, <2>1, <2>2 DEF Asks
  <2>4. s = t
    BY <1>5, <2>3 DEF OnceInv
  <2>5. Asks(t, l + d) /\ queue'[t][l] = queue[t][l + d] /\ l + d \in Nat
    BY <1>5, <2>1, <2>4 DEF Asks
  <2>6. k + d = l + d
    BY <1>5, <2>3, <2>5 DEF OnceInv
  <2> QED BY <2>4, <2>6
<1> QED BY <1>1, <1>3, <1>4, <1>5 DEF OnceInv

LEMMA JoinKeepsOnce ==
  ASSUME FramesInv, OnceInv, NEW f \in HonestFrame, Joins(f), CallsStay, UNCHANGED handled,
         working' \in {working, None},
         f.kind = "request" => outcome[f.id] = "none" /\ outcome'[f.id] # "none",
         f.kind = "response" => f.id # working'
  PROVE  OnceInv'
<1>1. \A i \in handled' : outcome'[i] # "none"
  BY DEF OnceInv, CallsStay, FramesInv
<1>2. PICK c : \A s \in Socket : \A k \in Nat : k \in DOMAIN queue'[s] =>
        \/ k \in DOMAIN queue[s] /\ queue'[s][k] = queue[s][k]
        \/ s = c /\ k = Len(queue[s]) + 1 /\ queue'[s][k] = f
  BY DEF Joins
<1>3. ASSUME NEW s \in Socket, NEW k \in Nat, Asks(s, k)'
      PROVE  \/ Asks(s, k) /\ queue'[s][k] = queue[s][k]
             \/ /\ s = c /\ k = Len(queue[s]) + 1 /\ queue'[s][k] = f
                /\ f.kind = "request" /\ outcome[f.id] = "none"
  BY <1>2, <1>3 DEF Asks
<1>4. ASSUME NEW s \in Socket, NEW k \in Nat, Asks(s, k)'
      PROVE  outcome'[queue'[s][k].id] # "none" /\ queue'[s][k].id \notin handled'
  <2>1. CASE Asks(s, k) /\ queue'[s][k] = queue[s][k]
    BY <2>1, FrameIds DEF OnceInv, CallsStay
  <2>2. CASE queue'[s][k] = f /\ f.kind = "request" /\ outcome[f.id] = "none"
    BY <2>2 DEF OnceInv
  <2> QED BY <1>3, <1>4, <2>1, <2>2
<1>5. ASSUME NEW s \in Socket, NEW k \in Nat, Answers(s, k)'
      PROVE  queue'[s][k].id # working'
  <2>1. CASE Answers(s, k) /\ queue'[s][k] = queue[s][k]
    BY <2>1, FrameIds, RelayConstants DEF OnceInv
  <2>2. CASE queue'[s][k] = f
    BY <1>5, <2>2 DEF Answers
  <2> QED BY <1>2, <1>5, <2>1, <2>2 DEF Answers
<1>6. ASSUME NEW s \in Socket, NEW t \in Socket, NEW k \in Nat, NEW l \in Nat,
             Asks(s, k)', Asks(t, l)', queue'[s][k].id = queue'[t][l].id
      PROVE  s = t /\ k = l
  <2> DEFINE Old(u, n) == Asks(u, n) /\ queue'[u][n] = queue[u][n]
             New(u, n) == /\ u = c /\ n = Len(queue[u]) + 1 /\ queue'[u][n] = f
                          /\ f.kind = "request" /\ outcome[f.id] = "none"
  <2>1. (Old(s, k) \/ New(s, k)) /\ (Old(t, l) \/ New(t, l))
    BY <1>3, <1>6
  <2>2. CASE Old(s, k) /\ Old(t, l)
    BY <1>6, <2>2 DEF OnceInv
  <2>3. CASE New(s, k) /\ New(t, l)
    BY <2>3
  <2>4. CASE Old(s, k) /\ New(t, l)
    BY <1>6, <2>4 DEF OnceInv
  <2>5. CASE New(s, k) /\ Old(t, l)
    BY <1>6, <2>5 DEF OnceInv
  <2> QED BY <2>1, <2>2, <2>3, <2>4, <2>5
<1> QED BY <1>1, <1>4, <1>5, <1>6 DEF OnceInv

LEMMA UnchangedIsFewer ==
  ASSUME FramesInv, UNCHANGED queue \/ \E s : Delivered(s)
  PROVE  Fewer
<1>1. \A t \in Socket : \/ queue'[t] = queue[t]
                        \/ queue[t] # <<>> /\ queue'[t] = Tail(queue[t])
  BY DEF Delivered, FramesInv
<1> QED BY <1>1, SomeFewer

\* The first frame of a buffer.
LEMMA HeadIsFirst ==
  ASSUME FramesInv, NEW s \in Socket, queue[s] # <<>>
  PROVE  /\ 1 \in DOMAIN queue[s] /\ Head(queue[s]) = queue[s][1]
         /\ \A k \in Nat : k \in DOMAIN Tail(queue[s]) =>
              /\ k + 1 \in DOMAIN queue[s] /\ k + 1 # 1
              /\ Tail(queue[s])[k] = queue[s][k + 1]
<1> DEFINE q == queue[s]
<1>1. q \in Seq(HonestFrame) /\ q # <<>>
  BY DEF FramesInv
<1> HIDE DEF q
<1>2. /\ 1 \in DOMAIN q /\ Head(q) = q[1]
      /\ \A k \in Nat : k \in DOMAIN Tail(q) =>
           k + 1 \in DOMAIN q /\ k + 1 # 1 /\ Tail(q)[k] = q[k + 1]
  BY <1>1
<1> QED BY <1>2 DEF q

\* The steps of RemoteCall, as steps of the relay.
GivesUp == UNCHANGED <<working, handled>> /\ (Reject \/ UNCHANGED outcome)

LEMMA GivingUp ==
  ASSUME FramesInv, GivesUp
  PROVE  CallsStay /\ (C!Next \/ UNCHANGED <<outcome, handled, working>>)
<1>1. CASE Reject
  <2>1. C!Reject(Pending)
    BY <1>1 DEF GivesUp, Reject, Pending, C!Reject
  <2>2. Pending \in SUBSET Rpc
    BY DEF Pending
  <2> QED BY <1>1, <2>1, <2>2 DEF C!Next, CallsStay, Reject, Pending
<1>2. CASE UNCHANGED outcome
  BY <1>2 DEF GivesUp, CallsStay
<1> QED BY <1>1, <1>2 DEF GivesUp

\* What a step is to RemoteCall, and that it keeps the invariant.
CallStep == OnceInv' /\ (C!Next \/ UNCHANGED <<outcome, handled, working>>)

LEMMA QuietStep ==
  ASSUME FramesInv, OnceInv, GivesUp, Fewer
  PROVE  CallStep
BY GivingUp, FewerKeepOnce DEF CallStep, GivesUp

LEMMA BreaksIsQuiet ==
  ASSUME FramesInv, OnceInv, NEW role, GivesUpReading(role)
  PROVE  CallStep
<1>1. GivesUp
  BY DEF GivesUpReading, Breaks, PumpFails, LetGo, GivesUp
<1>2. Fewer
  BY UnchangedIsFewer DEF GivesUpReading, Breaks, PumpFails
<1> QED BY <1>1, <1>2, QuietStep

\* A frame of a handshake.
LEMMA GreetingStep ==
  ASSUME FramesInv, OnceInv, NEW s, NEW f \in HonestFrame, Forward(s, f),
         f.kind \in {"hello", "welcome"}, GivesUp
  PROVE  CallStep
BY ForwardJoins, JoinKeepsOnce, GivingUp DEF CallStep, GivesUp

LEMMA HandshakesAreQuiet ==
  ASSUME FramesInv, OnceInv,
         \/ \E role \in Roles : Dial(role) \/ Ready(role) \/ LosesConnection(role)
         \/ HostShakes \/ HostAnswersHandshake \/ DeviceShakes
  PROVE  CallStep
<1> USE RoleFacts
<1>1. ASSUME NEW role \in Roles, Dial(role) PROVE CallStep
  <2>1. GivesUp /\ UNCHANGED queue
    BY <1>1 DEF Dial, Connect, GivesUp
  <2> QED BY <2>1, UnchangedIsFewer, QuietStep
<1>2. ASSUME NEW role \in Roles, Ready(role) PROVE CallStep
  <2>1. GivesUp
    BY <1>2 DEF Ready, GivesUp
  <2>2. CASE role = "device"
    <3>1. Frame(end[role].at, None, "hello", None) \in HonestFrame
      BY SentFrames
    <3>2. Frame(end[role].at, None, "hello", None).kind = "hello"
      BY DEF Frame
    <3> QED BY <1>2, <2>1, <2>2, <3>1, <3>2, GreetingStep DEF Ready
  <2>3. CASE role # "device"
    <3>1. UNCHANGED queue
      BY <1>2, <2>3 DEF Ready, serverVars
    <3> QED BY <2>1, <3>1, UnchangedIsFewer, QuietStep
  <2> QED BY <2>2, <2>3
<1>3. ASSUME NEW role \in Roles, LosesConnection(role) PROVE CallStep
  <2>1. GivesUp /\ UNCHANGED queue
    BY <1>3 DEF LosesConnection, LetGo, GivesUp
  <2> QED BY <2>1, UnchangedIsFewer, QuietStep
<1>4. CASE HostShakes
  <2>1. CASE Breaks("host") BY <2>1, BreaksIsQuiet DEF GivesUpReading
  <2>2. CASE ~Breaks("host")
    <3>1. GivesUp /\ \E s : Delivered(s)
      BY <1>4, <2>2 DEF HostShakes, GivesUp
    <3> QED BY <3>1, UnchangedIsFewer, QuietStep
  <2> QED BY <2>1, <2>2
<1>5. CASE DeviceShakes
  <2>1. CASE Breaks("device") BY <2>1, BreaksIsQuiet DEF GivesUpReading
  <2>2. CASE ~Breaks("device")
    <3>1. GivesUp /\ \E s : Delivered(s)
      BY <1>5, <2>2 DEF DeviceShakes, GivesUp
    <3> QED BY <3>1, UnchangedIsFewer, QuietStep
  <2> QED BY <2>1, <2>2
<1>6. CASE HostAnswersHandshake
  <2> DEFINE e == end["host"]
             f == Frame(e.at, e.peer, "welcome", None)
  <2>1. GivesUp
    BY <1>6 DEF HostAnswersHandshake, GivesUp
  <2>2. CASE Forward(e.at, f)
    <3>1. f \in HonestFrame
      BY SentFrames
    <3>2. f.kind = "welcome"
      BY DEF Frame
    <3> HIDE DEF f
    <3> QED BY <2>1, <2>2, <3>1, <3>2, GreetingStep
  <2>3. CASE UNCHANGED queue
    BY <2>1, <2>3, UnchangedIsFewer, QuietStep
  <2> QED BY <1>6, <2>2, <2>3 DEF HostAnswersHandshake, serverVars
<1> QED BY <1>1, <1>2, <1>3, <1>4, <1>5, <1>6

\* The laptop takes a request up: no other frame asks for it again.
LEMMA ServingIsStart ==
  ASSUME FramesInv, OnceInv, ServeRequest
  PROVE  CallStep
<1> DEFINE e == end["host"]
           f == Head(queue[e.at])
<1>1. CASE Readable(f, e) /\ f.kind = "request"
  <2>1. e.at \in Socket /\ queue[e.at] # <<>> /\ working = None
    BY RoleFacts DEF ServeRequest, FramesInv
  <2>2. Asks(e.at, 1) /\ f = queue[e.at][1]
    BY <1>1, <2>1, HeadIsFirst DEF Asks
  <2>3. f.id \in Rpc /\ outcome[f.id] # "none" /\ f.id \notin handled
    BY <2>1, <2>2, FrameIds DEF OnceInv
  <2>4. /\ working' = f.id /\ handled' = handled \cup {f.id} /\ outcome' = outcome
        /\ \A s \in Socket : queue'[s] = IF s = e.at THEN Tail(queue[s]) ELSE queue[s]
    BY <1>1 DEF ServeRequest, Delivered, FramesInv
  <2>5. C!Start(f.id)
    BY <2>1, <2>3, <2>4 DEF C!Start
  <2>6. Fewer
    BY <2>1, <2>4, SomeFewer
  <2>7. ASSUME NEW s \in Socket, NEW k \in Nat, k \in DOMAIN queue'[s]
        PROVE  \E n \in Nat : /\ n \in DOMAIN queue[s] /\ queue'[s][k] = queue[s][n]
                              /\ s = e.at => n = k + 1 /\ n # 1
                              /\ s # e.at => n = k
    <3>1. CASE s = e.at
      <4>1. queue'[s] = Tail(queue[s])
        BY <2>4, <3>1
      <4>2. /\ k + 1 \in DOMAIN queue[s] /\ k + 1 # 1
            /\ queue'[s][k] = queue[s][k + 1]
        BY <2>1, <2>7, <3>1, <4>1, HeadIsFirst
      <4> QED BY <3>1, <4>2
    <3>2. CASE s # e.at
      BY <2>4, <2>7, <3>2
    <3> QED BY <3>1, <3>2
  <2>8. ASSUME NEW s \in Socket, NEW k \in Nat, Asks(s, k)'
        PROVE  outcome'[queue'[s][k].id] # "none" /\ queue'[s][k].id \notin handled'
    <3>1. PICK n \in Nat : /\ Asks(s, n) /\ queue'[s][k] = queue[s][n]
                           /\ s = e.at => n # 1
      BY <2>7, <2>8 DEF Asks
    <3>2. outcome[queue[s][n].id] # "none" /\ queue[s][n].id \notin handled
      BY <3>1 DEF OnceInv
    <3>3. queue[s][n].id # f.id
      BY <2>1, <2>2, <3>1 DEF OnceInv
    <3> QED BY <2>4, <3>1, <3>2, <3>3
  <2>9. ASSUME NEW s \in Socket, NEW k \in Nat, Answers(s, k)'
        PROVE  queue'[s][k].id # working'
    <3>1. PICK n \in Nat : Answers(s, n) /\ queue'[s][k] = queue[s][n]
      BY <2>7, <2>9 DEF Answers
    <3> QED BY <2>3, <2>4, <3>1, FrameIds
  <2>10. ASSUME NEW s \in Socket, NEW t \in Socket, NEW k \in Nat, NEW l \in Nat,
                Asks(s, k)', Asks(t, l)', queue'[s][k].id = queue'[t][l].id
         PROVE  s = t /\ k = l
    <3>1. PICK n \in Nat : /\ Asks(s, n) /\ queue'[s][k] = queue[s][n]
                           /\ s = e.at => n = k + 1
                           /\ s # e.at => n = k
      BY <2>7, <2>10 DEF Asks
    <3>2. PICK m \in Nat : /\ Asks(t, m) /\ queue'[t][l] = queue[t][m]
                           /\ t = e.at => m = l + 1
                           /\ t # e.at => m = l
      BY <2>7, <2>10 DEF Asks
    <3>3. s = t /\ n = m
      BY <2>10, <3>1, <3>2 DEF OnceInv
    <3> QED BY <3>1, <3>2, <3>3
  <2>11. \A i \in handled' : outcome'[i] # "none"
    BY <2>3, <2>4 DEF OnceInv
  <2>12. OnceInv'
    <3> HIDE DEF e, f
    <3> QED BY <2>8, <2>9, <2>10, <2>11 DEF OnceInv
  <2> QED BY <2>3, <2>5, <2>12 DEF CallStep, C!Next
<1>2. CASE ~(Readable(f, e) /\ f.kind = "request")
  BY <1>2, BreaksIsQuiet DEF GivesUpReading, ServeRequest
<1> QED BY <1>1, <1>2

LEMMA RespondingIsFinish ==
  ASSUME FramesInv, OnceInv, Respond
  PROVE  CallStep
<1> DEFINE e == end["host"]
           f == Frame(e.at, e.peer, "response", working)
<1>1. /\ working # None /\ working' = None /\ UNCHANGED <<outcome, handled>>
  BY DEF Respond
<1>2. C!Finish /\ CallsStay
  BY <1>1 DEF C!Finish, CallsStay
<1>3. CASE Forward(e.at, f)
  <2>1. f \in HonestFrame /\ f.kind = "response" /\ f.id = working
    BY <1>1, SentFrames, RoleFacts DEF Frame
  <2> HIDE DEF f
  <2>2. OnceInv'
    BY <1>1, <1>2, <1>3, <2>1, ForwardJoins, JoinKeepsOnce
  <2> QED BY <1>2, <2>2 DEF CallStep, C!Next
<1>4. CASE UNCHANGED queue
  BY <1>1, <1>2, <1>4, UnchangedIsFewer, FewerKeepOnce DEF CallStep, C!Next
<1> QED BY <1>3, <1>4 DEF Respond

LEMMA ReadingIsResolve ==
  ASSUME FramesInv, OnceInv, ReadResponse
  PROVE  CallStep
<1> DEFINE e == end["device"]
           f == Head(queue[e.at])
<1>1. CASE Readable(f, e) /\ f.kind = "response" /\ IsPending(f.id)
  <2>1. e.at \in Socket /\ queue[e.at] # <<>>
    BY RoleFacts DEF ReadResponse, FramesInv
  <2>2. Answers(e.at, 1) /\ f = queue[e.at][1]
    BY <1>1, <2>1, HeadIsFirst DEF Answers
  <2>3. f.id \in Rpc /\ f.id \in handled /\ f.id # working
    BY <2>1, <2>2, FrameIds DEF OnceInv
  <2>4. /\ outcome' = [outcome EXCEPT ![f.id] = "resolved"] /\ UNCHANGED <<handled, working>>
        /\ outcome[f.id] = "pending" /\ Delivered(e.at)
    BY <1>1 DEF ReadResponse, IsPending, Pending
  <2>5. C!Resolve(f.id)
    BY <2>3, <2>4 DEF C!Resolve
  <2>6. CallsStay
    BY <2>3, <2>4 DEF CallsStay, FramesInv
  <2>7. OnceInv'
    BY <2>4, <2>6, UnchangedIsFewer, FewerKeepOnce
  <2> QED BY <2>3, <2>5, <2>7 DEF CallStep, C!Next
<1>2. CASE ~(Readable(f, e) /\ f.kind = "response" /\ IsPending(f.id))
  BY <1>2, BreaksIsQuiet DEF GivesUpReading, ReadResponse
<1> QED BY <1>1, <1>2

LEMMA RequestingIsCall ==
  ASSUME FramesInv, OnceInv, NEW i \in Rpc, Request(i)
  PROVE  CallStep
<1> DEFINE e == end["device"]
           f == Frame(e.at, e.peer, "request", i)
<1>1. /\ outcome[i] = "none" /\ UNCHANGED <<handled, working>>
      /\ \E how \in {"pending", "rejected"} : outcome' = [outcome EXCEPT ![i] = how]
  BY DEF Request
<1>2. C!Call(i)
  BY <1>1 DEF C!Call
<1>3. CallsStay /\ outcome'[i] # "none"
  BY <1>1 DEF CallsStay, FramesInv
<1>4. CASE Forward(e.at, f)
  <2>1. f \in HonestFrame /\ f.kind = "request" /\ f.id = i
    BY SentFrames, RoleFacts DEF Frame
  <2> HIDE DEF f
  <2>2. OnceInv'
    BY <1>1, <1>3, <1>4, <2>1, ForwardJoins, JoinKeepsOnce
  <2> QED BY <1>2, <2>2 DEF CallStep, C!Next
<1>5. CASE UNCHANGED queue
  BY <1>1, <1>2, <1>3, <1>5, UnchangedIsFewer, FewerKeepOnce DEF CallStep, C!Next
<1> QED BY <1>4, <1>5 DEF Request, serverVars

LEMMA TimingOutIsReject ==
  ASSUME FramesInv, OnceInv, NEW i \in Rpc, RequestTimesOut(i)
  PROVE  CallStep
<1>1. /\ outcome[i] = "pending" /\ UNCHANGED <<handled, working, queue>>
      /\ outcome' = [outcome EXCEPT ![i] = "rejected"]
  BY DEF RequestTimesOut, Pending, serverVars
<1>2. C!Reject({i})
  BY <1>1 DEF C!Reject, FramesInv
<1>3. CallsStay
  BY <1>1 DEF CallsStay, FramesInv
<1>4. OnceInv'
  BY <1>1, <1>3, UnchangedIsFewer, FewerKeepOnce
<1> QED BY <1>2, <1>4 DEF CallStep, C!Next

LEMMA DiscardingIsQuiet ==
  ASSUME FramesInv, OnceInv, NEW s, Discard(s)
  PROVE  CallStep
<1>1. GivesUp /\ Fewer
  BY UnchangedIsFewer DEF Discard, linkVars, GivesUp
<1> QED BY <1>1, QuietStep

LEMMA EveryStepIsACallStep == FramesInv /\ OnceInv /\ [Next]_vars => CallStep
<1> SUFFICES ASSUME FramesInv, OnceInv, [Next]_vars PROVE CallStep
  OBVIOUS
<1>quiet. UNCHANGED linkVars => GivesUp
  BY DEF linkVars, GivesUp
<1>1. CASE \E role \in Roles : Dial(role)
  BY <1>1, HandshakesAreQuiet
<1>2. CASE LinkNext
  BY <1>2, HandshakesAreQuiet, ServingIsStart, RespondingIsFinish, ReadingIsResolve,
     RequestingIsCall, TimingOutIsReject, DiscardingIsQuiet DEF LinkNext
<1>3. ASSUME NEW s \in Socket, Closed(s), UNCHANGED linkVars PROVE CallStep
  <2>1. \A t \in Socket : queue'[t] = queue[t] \/ queue'[t] = <<>>
    BY <1>3 DEF Closed, FramesInv
  <2> QED BY <1>3, <2>1, <1>quiet, SomeFewer, QuietStep
<1>4. CASE RelayStops /\ UNCHANGED linkVars
  <2>1. \A t \in Socket : queue'[t] = <<>>
    BY <1>4 DEF RelayStops
  <2> QED BY <1>4, <2>1, <1>quiet, SomeFewer, QuietStep
<1>5. CASE UNCHANGED queue /\ UNCHANGED linkVars
  BY <1>5, <1>quiet, UnchangedIsFewer, QuietStep
<1>6. (\/ \E s \in Socket : Leave(s) \/ TicketExpires(s)
       \/ \E s, k \in Socket : Register(s, k)
       \/ DeletionNext \/ RelayStarts
       \/ \E r \in Route : CloseTimer(r)) => UNCHANGED queue
  BY DEF Leave, TicketExpires, Register, DeletionNext, ReceiveDelete,
         OpenTemporary, WriteState, RenameState, PersistFails, RelayStarts,
         CloseTimer, peerVars
<1>7. UNCHANGED vars => UNCHANGED queue /\ UNCHANGED linkVars
  BY DEF vars, serverVars, linkVars
<1> QED BY <1>1, <1>2, <1>3, <1>4, <1>5, <1>6, <1>7, NextCases

LEMMA OnceInit == Init => OnceInv
BY DEF Init, ServerInit, OnceInv, Asks, Answers

\* The relay and its two ends carry out each call at most once, one at a time,
\* and settle it once, whatever happens to connections, frames and the relay.
THEOREM Refinement == Spec => ImplementsRemoteCall
<1>1. Init => C!Init
  BY DEF Init, C!Init
<1>2. Spec => [](FramesInv /\ OnceInv)
  <2>1. FramesInv /\ OnceInv /\ [Next]_vars => OnceInv'
    BY EveryStepIsACallStep DEF CallStep
  <2> QED BY <2>1, OnceInit, FramesInit, FramesStep, PTL DEF Spec
<1>3. FramesInv /\ OnceInv /\ [Next]_vars => [C!Next]_(C!vars)
  BY EveryStepIsACallStep DEF CallStep, C!vars
<1> QED BY <1>1, <1>2, <1>3, PTL DEF Spec, ImplementsRemoteCall, C!Spec

-----------------------------------------------------------------------------
\* Every variable keeps its type, and no send buffer exceeds its limit.
THEOREM LinkTypeCorrect == Spec => []LinkTypeOK
<1>1. PeersInv /\ TicketsInv /\ RetirementInv /\ FramesInv => LinkTypeOK
  <2> SUFFICES ASSUME PeersInv, TicketsInv, RetirementInv, FramesInv PROVE LinkTypeOK
    OBVIOUS
  <2>1. working \in Rpc \cup {None}
    BY DEF FramesInv
  <2> QED BY <2>1 DEF LinkTypeOK, PeersInv, SockState, TicketsInv, RetirementInv,
                      StoreTypeOK, FramesInv, EndType
<1>2. PeersInv => sock \in [Socket -> SockState]
  BY DEF PeersInv
<1> QED BY <1>1, <1>2, PeersInit, PeersStep, TicketsInit, TicketsStep, RetirementInit,
           RetirementStep, FramesInit, FramesStep, PTL DEF Spec

=============================================================================
