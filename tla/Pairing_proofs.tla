--------------------------- MODULE Pairing_proofs ---------------------------
(***************************************************************************)
(* The four stores of a pairing agree, for every number of phones, routes, *)
(* failures and starts of the daemon.                                      *)
(*                                                                         *)
(* None of the properties of Pairing is inductive: each depends on what    *)
(* the parties at work know of a pairing that others may be forgetting.    *)
(* PairingInv says, for each step at which a party can be, what it may     *)
(* rely on until its next write: a setup command and a phone that the      *)
(* configuration still names the route they work on, or none; the daemon's *)
(* completion, which acts on the daemon's memory, that this route was      *)
(* pending when it was learnt; and everybody that only a setup command     *)
(* brings a new route, which nobody else knows yet.  The parts that speak  *)
(* of the credential hold until a removal has kept its own (undropped).    *)
(*                                                                         *)
(* Each part has a lemma that a step preserves it; PairingInvStep joins    *)
(* them.  The theorems about authentication are in DeviceAccess_proofs.    *)
(***************************************************************************)
EXTENDS Pairing, TLAPS

-----------------------------------------------------------------------------
\* Types.

JobType == [Party -> [step : Step, route : 0 .. MaxRoutes]]
DaemonType == [up : BOOLEAN, starts : 0 .. MaxStarts, config : Config,
               serving : 0 .. MaxRoutes, retry : BOOLEAN]

\* A party that works on a pairing or its removal knows the route it works on.
RoutesAreKnown ==
  /\ config.pending => config.route # 0
  /\ \A x \in Party :
       job[x].step \notin {"idle", "reload", "finished"} => job[x].route # 0

\* Configurations, and the daemon that goes down or sets its timer.
LEMMA ConfigFacts ==
  /\ 0 \in 0 .. MaxRoutes /\ Unpaired \in Config /\ Down \in DaemonType
  /\ Idle \in [step : Step, route : 0 .. MaxRoutes]
  /\ \A r \in 0 .. MaxRoutes : \A b \in BOOLEAN : [route |-> r, pending |-> b] \in Config
  /\ \A m \in DaemonType : \A c \in Config : \A b \in BOOLEAN :
       /\ [m EXCEPT !.retry = b] \in DaemonType
       /\ [m EXCEPT !.config = c] \in DaemonType
<1>1. 0 \in 0 .. MaxRoutes /\ 0 \in 0 .. MaxStarts
  BY PairingConstants
<1>2. Unpaired \in Config
  BY <1>1 DEF Unpaired, Config
<1>3. Down \in DaemonType
  BY <1>1, <1>2 DEF Down, DaemonType
<1>4. Idle \in [step : Step, route : 0 .. MaxRoutes]
  BY <1>1 DEF Idle, Step
<1>5. \A r \in 0 .. MaxRoutes : \A b \in BOOLEAN : [route |-> r, pending |-> b] \in Config
  BY DEF Config
<1>6. \A m \in DaemonType : \A c \in Config : \A b \in BOOLEAN :
        /\ [m EXCEPT !.retry = b] \in DaemonType
        /\ [m EXCEPT !.config = c] \in DaemonType
  BY DEF DaemonType
<1> QED BY <1>1, <1>2, <1>3, <1>4, <1>5, <1>6

LEMMA PairingInitType == PairingInit => PairingTypeOK /\ RoutesAreKnown
<1> SUFFICES ASSUME PairingInit PROVE PairingTypeOK /\ RoutesAreKnown
  OBVIOUS
<1>1. PairingTypeOK
  <2>1. config \in Config /\ credential \in 0 .. MaxRoutes /\ failures \in 0 .. MaxFailures
    BY ConfigFacts, PairingConstants DEF PairingInit
  <2>2. daemon \in DaemonType /\ job \in JobType
    BY ConfigFacts DEF PairingInit, JobType
  <2>3. /\ device \in [Phone -> {"unknown", "active", "revoked"}]
        /\ owner \in [Route -> Phone \cup {NoPhone}]
        /\ retired = {} /\ lapsed = {}
    BY DEF PairingInit
  <2>4. cutShort = FALSE /\ undropped = FALSE
    BY DEF PairingInit
  <2> QED BY <2>1, <2>2, <2>3, <2>4 DEF PairingTypeOK, DaemonType, JobType
<1>2. RoutesAreKnown
  BY DEF PairingInit, RoutesAreKnown, Unpaired, Idle
<1> QED BY <1>1, <1>2

\* A step of a job keeps the type of the jobs.
LEMMA GotoType ==
  ASSUME PairingTypeOK, NEW x \in Party, NEW s \in Step
  PROVE  [job EXCEPT ![x].step = s] \in JobType
BY DEF PairingTypeOK, JobType

LEMMA DoneType ==
  ASSUME PairingTypeOK, NEW x \in Party
  PROVE  [job EXCEPT ![x] = Idle] \in JobType
BY ConfigFacts DEF PairingTypeOK, JobType

\* A removal that fails goes on, waits for the timer, or ends.
LEMMA GiveUpType ==
  ASSUME PairingTypeOK, NEW x \in Party, GiveUp(x)
  PROVE  /\ job' \in JobType
         /\ daemon' \in DaemonType
<1>1. "fetch" \in Step
  BY DEF Step
<1>2. [job EXCEPT ![x].step = "fetch"] \in JobType /\ [job EXCEPT ![x] = Idle] \in JobType
  BY <1>1, GotoType, DoneType
<1>3. daemon \in DaemonType /\ [daemon EXCEPT !.retry = TRUE] \in DaemonType
  BY ConfigFacts DEF PairingTypeOK, DaemonType, Config
<1> QED BY <1>2, <1>3 DEF GiveUp, Goto, Done

LEMMA PairingTypeStep ==
  PairingTypeOK /\ RoutesAreKnown /\ [PairingNext]_pairingVars => PairingTypeOK'
<1> SUFFICES ASSUME PairingTypeOK, RoutesAreKnown, [PairingNext]_pairingVars
    PROVE  PairingTypeOK'
  OBVIOUS
<1> USE PairingConstants DEF JobType, DaemonType
<1>fails. Fails => failures' \in 0 .. MaxFailures
  BY DEF Fails, PairingTypeOK
<1>party. Setup \in Party /\ Completer \in Party /\ Phone \subseteq Party
  BY DEF Party
<1>step. \A s \in {"idle", "inviting", "registered", "credentialled", "tombstone",
                   "withdraw", "reload", "finished", "fetch", "retire", "forget",
                   "drop"} : s \in Step
  BY DEF Step
<1>1. ASSUME NEW p \in Phone, BootstrapPairing(p) PROVE PairingTypeOK'
  BY <1>1, <1>party, <1>step DEF BootstrapPairing, PairingTypeOK, Issued, Route
<1>2. ASSUME NEW p \in Phone, RequestRemoval(p) PROVE PairingTypeOK'
  <2>1. FirstStep(daemon.config, p) \in Step
    BY <1>step DEF FirstStep
  <2> QED BY <1>2, <2>1, <1>party DEF RequestRemoval, PairingTypeOK, Config
<1>3. ASSUME NEW p \in Phone, RevokeDevice(p) PROVE PairingTypeOK'
  BY <1>3 DEF RevokeDevice, PairingTypeOK
<1>4. CASE Accept
  <2>1. job' \in JobType
    BY <1>4, <1>party, <1>step, GotoType, DoneType DEF Accept, Goto, Done
  <2>2. device' \in [Phone -> {"unknown", "active", "revoked"}]
    BY <1>4 DEF Accept, PairingTypeOK
  <2> QED BY <1>4, <2>1, <2>2 DEF Accept, PairingTypeOK
<1>5. CASE Decline
  BY <1>5, <1>party, DoneType DEF Decline, Done, PairingTypeOK
<1>6. CASE PutCredential
  <2>1. job' \in JobType
    BY <1>6, <1>party, <1>step, GotoType, DoneType DEF PutCredential, Goto, Done
  <2>2. credential' \in 0 .. MaxRoutes
    BY <1>6, <1>party DEF PutCredential, PairingTypeOK
  <2> QED BY <1>6, <1>fails, <2>1, <2>2 DEF PutCredential, PairingTypeOK
<1>7. CASE WritePairing
  <2>1. job' \in JobType
    BY <1>7, <1>party, DoneType DEF WritePairing, Done
  <2>2. config' \in Config /\ credential' \in 0 .. MaxRoutes
    <3>1. job[Setup].route \in 0 .. MaxRoutes
      BY <1>party DEF PairingTypeOK
    <3>2. [route |-> job[Setup].route, pending |-> FALSE] \in Config /\ 0 \in 0 .. MaxRoutes
      BY <3>1, ConfigFacts DEF Config
    <3>3. config \in Config /\ credential \in 0 .. MaxRoutes
      BY DEF PairingTypeOK
    <3> QED BY <1>7, <3>2, <3>3 DEF WritePairing
  <2> QED BY <1>7, <1>fails, <2>1, <2>2 DEF WritePairing, PairingTypeOK
<1>8. CASE Unpair
  <2>1. FirstStep(config, Setup) \in Step
    BY <1>step DEF FirstStep
  <2> QED BY <1>8, <2>1, <1>party DEF Unpair, PairingTypeOK, Config
<1>9. CASE RetryTimer
  BY <1>9, <1>party, <1>step DEF RetryTimer, PairingTypeOK, Config
<1>10. ASSUME NEW x \in Party, RemovalStep(x) PROVE PairingTypeOK'
  <2>1. CASE WriteTombstone(x)
    <3>1. job' \in JobType
      BY <2>1, <1>step, GotoType, DoneType DEF WriteTombstone, Goto, Done
    <3>2. config' \in Config
      <4>1. job[x].route \in 0 .. MaxRoutes
        BY DEF PairingTypeOK
      <4>2. [route |-> job[x].route, pending |-> TRUE] \in Config
        BY <4>1 DEF Config
      <4>3. config \in Config
        BY DEF PairingTypeOK
      <4> QED BY <2>1, <4>2, <4>3 DEF WriteTombstone
    <3> QED BY <2>1, <1>fails, <3>1, <3>2 DEF WriteTombstone, PairingTypeOK
  <2>2. CASE RevokePhones(x)
    <3>1. job' \in JobType
      BY <2>2, <1>step, GotoType DEF RevokePhones, Goto
    <3> QED BY <2>2, <3>1 DEF RevokePhones, Withdrawn, PairingTypeOK
  <2>3. CASE Acknowledge(x)
    <3>1. job' \in JobType
      BY <2>3, <1>step, GotoType, DoneType DEF Acknowledge, Goto, Done
    <3> QED BY <2>3, <3>1 DEF Acknowledge, PairingTypeOK
  <2>4. CASE FinishRemoval(x)
    <3>1. job' \in JobType
      BY <2>4, <1>party, <1>step DEF FinishRemoval, PairingTypeOK, Config, Idle
    <3> QED BY <2>4, <3>1 DEF FinishRemoval, PairingTypeOK
  <2>5. CASE FetchCredential(x)
    <3>1. job' \in JobType
      <4>1. [job EXCEPT ![x].step = "retire"] \in JobType
        BY <1>step, GotoType
      <4> QED BY <2>5, <4>1, GiveUpType DEF FetchCredential, Goto
    <3>2. daemon' \in DaemonType
      BY <2>5, GiveUpType DEF FetchCredential, PairingTypeOK
    <3> QED BY <2>5, <3>1, <3>2 DEF FetchCredential, PairingTypeOK
  <2>6. CASE RetireRoute(x)
    <3>1. job' \in JobType
      <4>1. [job EXCEPT ![x].step = "forget"] \in JobType
        BY <1>step, GotoType
      <4> QED BY <2>6, <4>1, GiveUpType DEF RetireRoute, Goto
    <3>2. daemon' \in DaemonType
      BY <2>6, GiveUpType DEF RetireRoute, PairingTypeOK
    <3>3. job[x].route \in Route
      BY <2>6 DEF RetireRoute, RoutesAreKnown, PairingTypeOK, Route, At
    <3>4. retired' \subseteq Route
      BY <2>6, <3>3 DEF RetireRoute, PairingTypeOK
    <3> QED BY <2>6, <1>fails, <3>1, <3>2, <3>4 DEF RetireRoute, PairingTypeOK
  <2>7. CASE ForgetPairing(x)
    <3>1. job' \in JobType
      <4>1. [job EXCEPT ![x].step = "drop"] \in JobType
        BY <1>step, GotoType
      <4> QED BY <2>7, <4>1, GiveUpType DEF ForgetPairing, Goto
    <3>2. daemon' \in DaemonType
      BY <2>7, GiveUpType DEF ForgetPairing, PairingTypeOK
    <3>3. config' \in Config
      BY <2>7, ConfigFacts DEF ForgetPairing, PairingTypeOK
    <3> QED BY <2>7, <1>fails, <3>1, <3>2, <3>3 DEF ForgetPairing, PairingTypeOK
  <2>8. CASE DropCredential(x)
    <3>1. job' \in JobType
      BY <2>8, DoneType, GiveUpType DEF DropCredential, Done
    <3>2. daemon' \in DaemonType
      BY <2>8, GiveUpType, ConfigFacts DEF DropCredential, PairingTypeOK
    <3>3. credential' \in 0 .. MaxRoutes /\ undropped' \in BOOLEAN
      <4>1. credential \in 0 .. MaxRoutes /\ 0 \in 0 .. MaxRoutes
        BY ConfigFacts DEF PairingTypeOK
      <4>2. undropped \in BOOLEAN
        BY DEF PairingTypeOK
      <4> QED BY <2>8, <4>1, <4>2 DEF DropCredential
    <3> QED BY <2>8, <1>fails, <3>1, <3>2, <3>3 DEF DropCredential, PairingTypeOK
  <2> QED BY <1>10, <2>1, <2>2, <2>3, <2>4, <2>5, <2>6, <2>7, <2>8 DEF RemovalStep
<1>11. CASE StartDaemon
  <2>1. daemon' \in DaemonType
    BY <1>11 DEF StartDaemon, PairingTypeOK, Config
  <2>2. job' \in JobType
    BY <1>11, <1>party, <1>step DEF StartDaemon, PairingTypeOK, Config, Idle
  <2>3. device' \in [Phone -> {"unknown", "active", "revoked"}]
    BY <1>11 DEF StartDaemon, Withdrawn, PairingTypeOK
  <2> QED BY <1>11, <2>1, <2>2, <2>3 DEF StartDaemon, PairingTypeOK
<1>12. CASE StopDaemon
  <2>1. daemon' \in DaemonType
    <3>1. daemon.starts \in 0 .. MaxStarts
      BY DEF PairingTypeOK
    <3>2. [Down EXCEPT !.starts = daemon.starts] \in DaemonType
      BY <3>1, ConfigFacts
    <3> QED BY <1>12, <3>2 DEF StopDaemon
  <2>2. job' \in JobType
    BY <1>12, <1>step DEF StopDaemon, PairingTypeOK, Idle
  <2>3. undropped' \in BOOLEAN
    BY <1>12 DEF StopDaemon, PairingTypeOK, At
  <2> QED BY <1>12, <2>1, <2>2, <2>3 DEF StopDaemon, PairingTypeOK
<1>13. CASE SetupDies
  <2>1. job' \in JobType
    BY <1>13, <1>party, DoneType DEF SetupDies, Done
  <2>2. cutShort' \in BOOLEAN /\ undropped' \in BOOLEAN
    BY <1>13 DEF SetupDies, PairingTypeOK, At
  <2> QED BY <1>13, <1>fails, <2>1, <2>2 DEF SetupDies, PairingTypeOK
<1>14. ASSUME NEW r \in Route, TokensLapse(r) PROVE PairingTypeOK'
  BY <1>14, <1>fails DEF TokensLapse, PairingTypeOK
<1>15. CASE UNCHANGED pairingVars
  BY <1>15 DEF pairingVars, PairingTypeOK
<1> QED
  BY <1>1, <1>2, <1>3, <1>4, <1>5, <1>6, <1>7, <1>8, <1>9, <1>10, <1>11, <1>12,
     <1>13, <1>14, <1>15 DEF PairingNext

\* The step a party is at after an attempt that failed.
LEMMA GiveUpKnows ==
  ASSUME PairingTypeOK, RoutesAreKnown, NEW x \in Party,
         ~At(x, "idle"), ~At(x, "reload"), ~At(x, "finished"), GiveUp(x)
  PROVE  \A y \in Party :
           job'[y].step \notin {"idle", "reload", "finished"} => job'[y].route # 0
BY DEF PairingTypeOK, RoutesAreKnown, GiveUp, Goto, Done, At, Idle

LEMMA RoutesStayKnown ==
  PairingTypeOK /\ RoutesAreKnown /\ [PairingNext]_pairingVars => RoutesAreKnown'
<1> SUFFICES ASSUME PairingTypeOK, RoutesAreKnown, [PairingNext]_pairingVars
    PROVE  RoutesAreKnown'
  OBVIOUS
<1> USE PairingConstants
<1>party. Setup \in Party /\ Completer \in Party /\ Phone \subseteq Party
  BY DEF Party
<1>1. ASSUME NEW p \in Phone, BootstrapPairing(p) \/ RequestRemoval(p) \/ RevokeDevice(p)
      PROVE  RoutesAreKnown'
  <2>1. CASE BootstrapPairing(p)
    BY <2>1, <1>party DEF BootstrapPairing, PairingTypeOK, JobType, RoutesAreKnown, Route
  <2>2. CASE RequestRemoval(p)
    <3>1. FirstStep(daemon.config, p) # "reload" => daemon.config.route # 0
      BY DEF FirstStep
    <3> QED BY <2>2, <3>1, <1>party DEF RequestRemoval, PairingTypeOK, JobType, RoutesAreKnown
  <2>3. CASE RevokeDevice(p)
    BY <2>3 DEF RevokeDevice, RoutesAreKnown
  <2> QED BY <1>1, <2>1, <2>2, <2>3
<1>2. CASE Accept \/ Decline \/ PutCredential \/ WritePairing \/ SetupDies
  <2>1. CASE Accept \/ Decline \/ SetupDies
    BY <2>1, <1>party
    DEF Accept, Decline, SetupDies, PairingTypeOK, RoutesAreKnown, Goto, Done, At, Idle
  <2>2. CASE PutCredential \/ WritePairing
    BY <2>2, <1>party
    DEF PutCredential, WritePairing, PairingTypeOK, RoutesAreKnown, Goto, Done, At, Idle
  <2> QED BY <1>2, <2>1, <2>2
<1>3. CASE Unpair \/ RetryTimer
  BY <1>3, <1>party
  DEF Unpair, RetryTimer, FirstStep, PairingTypeOK, RoutesAreKnown
<1>4. ASSUME NEW x \in Party, RemovalStep(x) PROVE RoutesAreKnown'
  <2>1. CASE WriteTombstone(x) \/ RevokePhones(x) \/ Acknowledge(x)
    BY <2>1 DEF WriteTombstone, RevokePhones, Acknowledge, PairingTypeOK,
                RoutesAreKnown, Goto, Done, At, Idle
  <2>2. CASE FinishRemoval(x)
    BY <2>2, <1>party DEF FinishRemoval, PairingTypeOK, RoutesAreKnown, At, Idle
  <2>3. CASE FetchCredential(x) \/ RetireRoute(x)
    BY <2>3, GiveUpKnows
    DEF FetchCredential, RetireRoute, PairingTypeOK, RoutesAreKnown, Goto, At
  <2>4. CASE ForgetPairing(x)
    BY <2>4, GiveUpKnows
    DEF ForgetPairing, PairingTypeOK, RoutesAreKnown, Goto, At, Unpaired
  <2>5. CASE DropCredential(x)
    BY <2>5, GiveUpKnows
    DEF DropCredential, PairingTypeOK, RoutesAreKnown, Done, At, Idle
  <2> QED BY <1>4, <2>1, <2>2, <2>3, <2>4, <2>5 DEF RemovalStep
<1>5. CASE StartDaemon
  BY <1>5, <1>party DEF StartDaemon, PairingTypeOK, RoutesAreKnown, Idle
<1>6. CASE StopDaemon
  BY <1>6, <1>party DEF StopDaemon, PairingTypeOK, RoutesAreKnown, Idle
<1>7. ASSUME NEW r \in Route, TokensLapse(r) PROVE RoutesAreKnown'
  BY <1>7 DEF TokensLapse, RoutesAreKnown
<1>8. CASE UNCHANGED pairingVars
  BY <1>8 DEF pairingVars, RoutesAreKnown
<1> QED
  BY <1>1, <1>2, <1>3, <1>4, <1>5, <1>6, <1>7, <1>8 DEF PairingNext

-----------------------------------------------------------------------------
\* The inductive invariant.

SetupPairs == job[Setup].step \in {"inviting", "registered", "credentialled"}

\* Each party takes its own steps, and none but a setup command works while the
\* daemon is down.
PartsArePlayed ==
  /\ \A p \in Phone :
       job[p].step \in {"idle", "tombstone", "withdraw", "reload", "finished"}
  /\ job[Completer].step \in {"idle", "fetch", "retire", "forget", "drop"}
  /\ job[Setup].step \notin {"reload", "finished"}
  /\ ~daemon.up =>
       /\ daemon.config = Unpaired /\ daemon.serving = 0 /\ ~daemon.retry
       /\ \A x \in Party \ {Setup} : job[x] = Idle

\* Whoever names a route names one that was provisioned.
RoutesAreIssued ==
  /\ {config.route, daemon.config.route, daemon.serving} \subseteq Issued \cup {0}
  /\ \A x \in Party : job[x].route \in Issued \cup {0}

\* While a setup command pairs, there is no pairing on disk, and nobody else
\* knows its route.
NewRouteIsUnknown ==
  SetupPairs =>
    /\ config.route = 0
    /\ job[Setup].route \notin {daemon.config.route, job[Completer].route}

\* The removal of a setup command is of the pairing it found on disk: a route is
\* forgotten after its retirement, and a pairing by one who works on it.
SetupRemovesWhatItFound ==
  /\ At(Setup, "tombstone") => config.route = job[Setup].route
  /\ job[Setup].step \in {"withdraw", "fetch", "retire", "forget"} =>
       config.route \in {0, job[Setup].route}
  /\ At(Setup, "withdraw") => config.route = 0 \/ config.pending
  /\ At(Setup, "drop") => config.route = 0

RetiredBeforeForgotten ==
  \A x \in Party : job[x].step \in {"forget", "drop"} => job[x].route \in retired

\* The route that the daemon serves is the one on disk until the relay has
\* retired it, and the daemon removes no other.
ServedUntilRetired ==
  daemon.serving # 0 =>
    /\ daemon.serving \notin retired =>
         config.route = daemon.serving /\ daemon.config.route = daemon.serving
    /\ daemon.config.route \in {0, daemon.serving}
    /\ ~At(Completer, "idle") => job[Completer].route = daemon.serving

\* A phone is at work on the route it is served over; when its removal is about
\* to be acknowledged, nobody is active.
PhonesRemoveTheirOwn ==
  \A p \in Phone :
    /\ job[p].step \in {"tombstone", "withdraw", "reload"} =>
         /\ daemon.serving # 0 /\ config.route \in {0, daemon.serving}
         /\ ~At(Setup, "registered") /\ ~At(Setup, "credentialled")
    /\ At(p, "tombstone") => config.route = job[p].route
    /\ job[p].step \in {"withdraw", "reload"} => config.route = 0 \/ config.pending
    /\ At(p, "reload") => Active = {}

\* The daemon takes up a removal only of a pairing it knows to be pending, and
\* what it knows to be pending is so on disk.
KnownToBePending ==
  /\ daemon.config.pending => daemon.config.route # 0
  /\ daemon.config.pending /\ config.route = daemon.config.route => config.pending
  /\ daemon.retry \/ ~At(Completer, "idle") \/ (\E p \in Phone : At(p, "finished")) =>
       daemon.config.route = 0 \/ daemon.config.pending

\* Behind its tombstone, the pairing whose removal goes on has no active phone.
RemovalIsPending ==
  \A x \in {Setup, Completer} :
    job[x].step \in {"fetch", "retire", "forget", "drop"} /\ config.route = job[x].route =>
      config.pending /\ Active = {}

\* The daemon's completion, once it holds the credential of its route, shares
\* the configuration with no other route and no pairing under way.
CompleterIsAlone ==
  /\ job[Completer].step \in {"retire", "forget"} => config.route \in {0, job[Completer].route}
  /\ At(Completer, "drop") => config.route = 0
  /\ job[Completer].step \in {"retire", "forget", "drop"} =>
       ~At(Setup, "registered") /\ ~At(Setup, "credentialled")

\* The Keychain has the credential of the pairing on disk, and never that of a
\* removal which is over, but for the moment between forgetting and dropping.
CredentialStands ==
  /\ config.route # 0 => credential = config.route
  /\ At(Setup, "credentialled") => credential = job[Setup].route
  /\ \A r \in {job[Completer].route, daemon.config.route} :
       r # 0 /\ credential = r =>
         config.route = r \/ At(Setup, "drop") \/ At(Completer, "drop")

PairingInv ==
  /\ PairingTypeOK /\ RoutesAreKnown
  /\ PartsArePlayed /\ RoutesAreIssued /\ NewRouteIsUnknown
  /\ SetupRemovesWhatItFound /\ RetiredBeforeForgotten
  /\ ServedUntilRetired /\ PhonesRemoveTheirOwn
  /\ KnownToBePending /\ RemovalIsPending /\ PendingMeansWithdrawn
  /\ undropped \/ (CompleterIsAlone /\ CredentialStands)
  /\ ActiveMeansPaired

-----------------------------------------------------------------------------
\* The invariant holds at the start, and each of its parts is preserved.

LEMMA PairingInvInit == PairingInit => PairingInv
<1> SUFFICES ASSUME PairingInit PROVE PairingInv
  OBVIOUS
<1>parties. Setup \in Party /\ Completer \in Party /\ Phone \subseteq Party
  BY DEF Party
<1>1. PairingTypeOK /\ RoutesAreKnown
  BY PairingInitType
<1>2. Active = {} /\ \A x \in Party : job[x] = Idle
  BY DEF PairingInit, Active
<1>3. PartsArePlayed /\ RoutesAreIssued /\ NewRouteIsUnknown
  BY <1>2, <1>parties
  DEF PairingInit, PartsArePlayed, RoutesAreIssued, NewRouteIsUnknown, SetupPairs,
      Idle, Down, Unpaired
<1>4. SetupRemovesWhatItFound /\ RetiredBeforeForgotten /\ ServedUntilRetired
  BY <1>2, <1>parties
  DEF PairingInit, SetupRemovesWhatItFound, RetiredBeforeForgotten, ServedUntilRetired,
      At, Idle, Down
<1>5. PhonesRemoveTheirOwn /\ KnownToBePending /\ RemovalIsPending
  BY <1>2, <1>parties
  DEF PairingInit, PhonesRemoveTheirOwn, KnownToBePending, RemovalIsPending, At, Idle,
      Down, Unpaired
<1>6. CompleterIsAlone /\ CredentialStands
  BY <1>2, <1>parties
  DEF PairingInit, CompleterIsAlone, CredentialStands, At, Idle, Down, Unpaired
<1>7. PendingMeansWithdrawn /\ ActiveMeansPaired
  BY <1>2 DEF PendingMeansWithdrawn, ActiveMeansPaired
<1> QED BY <1>1, <1>3, <1>4, <1>5, <1>6, <1>7 DEF PairingInv

\* The parties are different ones.
LEMMA Parties ==
  /\ Setup \in Party /\ Completer \in Party /\ Setup # Completer
  /\ \A p \in Phone : p \in Party /\ p # Setup /\ p # Completer
  /\ \A x \in Party : x \in Phone \/ x = Setup \/ x = Completer
BY PairingConstants DEF Party, Setup, Completer

\* Who takes a step of a removal.
LEMMA WhoRemoves ==
  ASSUME PartsArePlayed, NEW x \in Party
  PROVE  /\ At(x, "tombstone") \/ At(x, "withdraw") => x # Completer
         /\ At(x, "reload") \/ At(x, "finished") => x \in Phone
         /\ \/ At(x, "fetch") \/ At(x, "retire") \/ At(x, "forget") \/ At(x, "drop")
            => x = Setup \/ x = Completer
BY Parties DEF PartsArePlayed, At

LEMMA PartsStay ==
  PairingInv /\ [PairingNext]_pairingVars => PartsArePlayed'
<1> SUFFICES ASSUME PairingInv, [PairingNext]_pairingVars PROVE PartsArePlayed'
  OBVIOUS
<1> USE Parties DEF At, Goto, Done, Idle
<1>inv. PairingTypeOK /\ PartsArePlayed
  BY DEF PairingInv
<1>1. ASSUME NEW p \in Phone, BootstrapPairing(p) \/ RequestRemoval(p) \/ RevokeDevice(p)
      PROVE  PartsArePlayed'
  BY <1>1, <1>inv
  DEF BootstrapPairing, RequestRemoval, RevokeDevice, FirstStep, PairingTypeOK, PartsArePlayed
<1>2. CASE Accept \/ Decline \/ PutCredential \/ WritePairing \/ SetupDies
  BY <1>2, <1>inv
  DEF Accept, Decline, PutCredential, WritePairing, SetupDies, PairingTypeOK, PartsArePlayed
<1>3. CASE Unpair \/ RetryTimer
  <2>1. CASE Unpair
    BY <2>1, <1>inv DEF Unpair, FirstStep, PairingTypeOK, PartsArePlayed
  <2>2. CASE RetryTimer
    BY <2>2, <1>inv DEF RetryTimer, FirstStep, PairingTypeOK, PartsArePlayed
  <2> QED BY <1>3, <2>1, <2>2
<1>4. ASSUME NEW x \in Party, WriteTombstone(x) \/ RevokePhones(x)
      PROVE  PartsArePlayed'
  <2>1. CASE WriteTombstone(x)
    BY <2>1, <1>inv, WhoRemoves DEF WriteTombstone, PairingTypeOK, PartsArePlayed
  <2>2. CASE RevokePhones(x)
    BY <2>2, <1>inv, WhoRemoves DEF RevokePhones, PairingTypeOK, PartsArePlayed
  <2> QED BY <1>4, <2>1, <2>2
<1>5. ASSUME NEW x \in Party, Acknowledge(x) \/ FinishRemoval(x)
      PROVE  PartsArePlayed'
  BY <1>5, <1>inv DEF Acknowledge, FinishRemoval, PairingTypeOK, PartsArePlayed
<1>6. ASSUME NEW x \in Party, FetchCredential(x) \/ RetireRoute(x) 
      PROVE  PartsArePlayed'
  BY <1>6, <1>inv, WhoRemoves DEF FetchCredential, RetireRoute, GiveUp, PairingTypeOK,
       PartsArePlayed
<1>7. ASSUME NEW x \in Party, ForgetPairing(x) \/ DropCredential(x)
      PROVE  PartsArePlayed'
  BY <1>7, <1>inv, WhoRemoves DEF ForgetPairing, DropCredential, GiveUp, PairingTypeOK,
       PartsArePlayed
<1>8. CASE StartDaemon \/ StopDaemon
  BY <1>8, <1>inv DEF StartDaemon, StopDaemon, Down, PairingTypeOK, PartsArePlayed
<1>9. ASSUME NEW r \in Route, TokensLapse(r) PROVE PartsArePlayed'
  BY <1>9, <1>inv DEF TokensLapse, PartsArePlayed
<1>10. CASE UNCHANGED pairingVars
  BY <1>10, <1>inv DEF pairingVars, PartsArePlayed
<1> QED
  BY <1>1, <1>2, <1>3, <1>4, <1>5, <1>6, <1>7, <1>8, <1>9, <1>10 DEF PairingNext, RemovalStep

LEMMA RoutesStayIssued ==
  PairingInv /\ [PairingNext]_pairingVars => RoutesAreIssued'
<1> SUFFICES ASSUME PairingInv, [PairingNext]_pairingVars PROVE RoutesAreIssued'
  OBVIOUS
<1> USE Parties, PairingConstants DEF At, Goto, Done, Idle
<1>inv. PairingTypeOK /\ RoutesAreIssued
  BY DEF PairingInv
<1>1. ASSUME NEW p \in Phone, BootstrapPairing(p) PROVE RoutesAreIssued'
  <2>1. PICK r \in Route \ Issued :
          /\ owner' = [owner EXCEPT ![r] = p]
          /\ job' = [job EXCEPT ![Setup] = [step |-> "inviting", route |-> r]]
    BY <1>1 DEF BootstrapPairing
  <2>2. Issued \subseteq Issued' /\ r \in Issued'
    BY <2>1, <1>inv DEF Issued, PairingTypeOK
  <2> QED BY <1>1, <2>1, <2>2, <1>inv DEF BootstrapPairing, RoutesAreIssued, PairingTypeOK
<1>2. ASSUME NEW p \in Phone, RequestRemoval(p) \/ RevokeDevice(p) PROVE RoutesAreIssued'
  BY <1>2, <1>inv DEF RequestRemoval, RevokeDevice, RoutesAreIssued, PairingTypeOK, Issued
<1>3. CASE Accept \/ Decline \/ PutCredential \/ WritePairing \/ SetupDies
  <2>1. Issued' = Issued
    BY <1>3 DEF Accept, Decline, PutCredential, WritePairing, SetupDies, Issued
  <2> QED BY <1>3, <2>1, <1>inv
      DEF Accept, Decline, PutCredential, WritePairing, SetupDies, PairingTypeOK,
          RoutesAreIssued
<1>4. CASE Unpair \/ RetryTimer
  BY <1>4, <1>inv DEF Unpair, RetryTimer, PairingTypeOK, RoutesAreIssued, Issued
<1>5. ASSUME NEW x \in Party, WriteTombstone(x) \/ RevokePhones(x) PROVE RoutesAreIssued'
  <2>1. Issued' = Issued
    BY <1>5 DEF WriteTombstone, RevokePhones, Issued
  <2> QED BY <1>5, <2>1, <1>inv DEF WriteTombstone, RevokePhones, PairingTypeOK, RoutesAreIssued
<1>6. ASSUME NEW x \in Party, Acknowledge(x) \/ FinishRemoval(x) PROVE RoutesAreIssued'
  BY <1>6, <1>inv DEF Acknowledge, FinishRemoval, PairingTypeOK, RoutesAreIssued, Issued
<1>7. ASSUME NEW x \in Party, FetchCredential(x) \/ RetireRoute(x) PROVE RoutesAreIssued'
  <2>1. Issued' = Issued
    BY <1>7 DEF FetchCredential, RetireRoute, GiveUp, Issued
  <2>2. CASE FetchCredential(x)
    <3>1. /\ UNCHANGED config /\ daemon'.config = daemon.config
          /\ daemon'.serving = daemon.serving
      BY <2>2, <1>inv DEF FetchCredential, GiveUp, PairingTypeOK
    <3>2. \A y \in Party : job'[y].route \in {0, job[y].route}
      BY <2>2, <1>inv DEF FetchCredential, GiveUp, PairingTypeOK
    <3> QED BY <2>1, <3>1, <3>2, <1>inv DEF RoutesAreIssued
  <2>3. CASE RetireRoute(x)
    <3>1. /\ UNCHANGED config /\ daemon'.config = daemon.config
          /\ daemon'.serving = daemon.serving
      BY <2>3, <1>inv DEF RetireRoute, GiveUp, PairingTypeOK
    <3>2. \A y \in Party : job'[y].route \in {0, job[y].route}
      BY <2>3, <1>inv DEF RetireRoute, GiveUp, PairingTypeOK
    <3> QED BY <2>1, <3>1, <3>2, <1>inv DEF RoutesAreIssued
  <2> QED BY <1>7, <2>2, <2>3
<1>8. ASSUME NEW x \in Party, ForgetPairing(x) \/ DropCredential(x) PROVE RoutesAreIssued'
  BY <1>8, <1>inv
  DEF ForgetPairing, DropCredential, GiveUp, Unpaired, PairingTypeOK, RoutesAreIssued, Issued
<1>9. CASE StartDaemon \/ StopDaemon
  BY <1>9, <1>inv DEF StartDaemon, StopDaemon, Down, Unpaired, PairingTypeOK, RoutesAreIssued,
       Issued
<1>10. ASSUME NEW r \in Route, TokensLapse(r) PROVE RoutesAreIssued'
  BY <1>10, <1>inv DEF TokensLapse, RoutesAreIssued, Issued
<1>11. CASE UNCHANGED pairingVars
  BY <1>11, <1>inv DEF pairingVars, RoutesAreIssued, Issued
<1> QED
  BY <1>1, <1>2, <1>3, <1>4, <1>5, <1>6, <1>7, <1>8, <1>9, <1>10, <1>11
  DEF PairingNext, RemovalStep

LEMMA NewRouteStaysUnknown ==
  PairingInv /\ [PairingNext]_pairingVars => NewRouteIsUnknown'
<1> SUFFICES ASSUME PairingInv, [PairingNext]_pairingVars PROVE NewRouteIsUnknown'
  OBVIOUS
<1> USE Parties DEF At, Goto, Done, Idle, SetupPairs
<1>inv. /\ PairingTypeOK /\ RoutesAreKnown /\ PartsArePlayed /\ RoutesAreIssued
        /\ NewRouteIsUnknown /\ PhonesRemoveTheirOwn
  BY DEF PairingInv
<1>1. ASSUME NEW p \in Phone, BootstrapPairing(p) PROVE NewRouteIsUnknown'
  <2>1. PICK r \in Route \ Issued :
          job' = [job EXCEPT ![Setup] = [step |-> "inviting", route |-> r]]
    BY <1>1 DEF BootstrapPairing
  <2>2. r # 0 /\ config.route = 0 /\ r \notin {daemon.config.route, job[Completer].route}
    BY <1>1, <1>inv, PairingConstants DEF BootstrapPairing, RoutesAreIssued, Route
  <2> QED BY <1>1, <2>1, <2>2, <1>inv DEF BootstrapPairing, NewRouteIsUnknown, PairingTypeOK
<1>2. ASSUME NEW p \in Phone, RequestRemoval(p) \/ RevokeDevice(p) PROVE NewRouteIsUnknown'
  BY <1>2, <1>inv DEF RequestRemoval, RevokeDevice, NewRouteIsUnknown, PairingTypeOK
<1>3. CASE Accept \/ Decline \/ PutCredential \/ WritePairing \/ SetupDies
  BY <1>3, <1>inv
  DEF Accept, Decline, PutCredential, WritePairing, SetupDies, PairingTypeOK, NewRouteIsUnknown
<1>4. CASE Unpair \/ RetryTimer
  BY <1>4, <1>inv DEF Unpair, RetryTimer, FirstStep, PairingTypeOK, NewRouteIsUnknown
<1>5. ASSUME NEW x \in Party, WriteTombstone(x) PROVE NewRouteIsUnknown'
  <2>1. x \in Phone => ~SetupPairs
    BY <1>5, <1>inv DEF WriteTombstone, PhonesRemoveTheirOwn, NewRouteIsUnknown, RoutesAreKnown
  <2> QED BY <1>5, <2>1, <1>inv, WhoRemoves
      DEF WriteTombstone, PairingTypeOK, NewRouteIsUnknown
<1>6. ASSUME NEW x \in Party, RevokePhones(x) PROVE NewRouteIsUnknown'
  BY <1>6, <1>inv, WhoRemoves DEF RevokePhones, PairingTypeOK, NewRouteIsUnknown
<1>7. ASSUME NEW x \in Party, Acknowledge(x) PROVE NewRouteIsUnknown'
  <2>1. SetupPairs => job[Setup].route # 0
    BY <1>inv DEF RoutesAreKnown
  <2> QED BY <1>7, <2>1, <1>inv DEF Acknowledge, PairingTypeOK, NewRouteIsUnknown
<1>8. ASSUME NEW x \in Party, FinishRemoval(x) PROVE NewRouteIsUnknown'
  BY <1>8, <1>inv DEF FinishRemoval, PairingTypeOK, NewRouteIsUnknown
<1>9. ASSUME NEW x \in Party,
             FetchCredential(x) \/ RetireRoute(x) \/ ForgetPairing(x) \/ DropCredential(x)
      PROVE  NewRouteIsUnknown'
  <2>1. SetupPairs => job[Setup].route # 0 /\ x = Completer
    BY <1>9, <1>inv, WhoRemoves
    DEF RoutesAreKnown, FetchCredential, RetireRoute, ForgetPairing, DropCredential
  <2>2. CASE x = Setup
    BY <1>9, <2>2, <1>inv
    DEF FetchCredential, RetireRoute, ForgetPairing, DropCredential, GiveUp, Unpaired,
        PairingTypeOK, NewRouteIsUnknown
  <2>3. CASE x # Setup
    BY <1>9, <2>1, <2>3, <1>inv
    DEF FetchCredential, RetireRoute, ForgetPairing, DropCredential, GiveUp, Unpaired,
        PairingTypeOK, NewRouteIsUnknown
  <2> QED BY <2>2, <2>3
<1>10. CASE StartDaemon \/ StopDaemon
  <2>1. SetupPairs => job[Setup].route # 0 /\ config.route = 0 /\ ~config.pending
    BY <1>inv DEF RoutesAreKnown, NewRouteIsUnknown
  <2> QED BY <1>10, <2>1, <1>inv DEF StartDaemon, StopDaemon, Down, Unpaired, PairingTypeOK, NewRouteIsUnknown
<1>11. ASSUME NEW r \in Route, TokensLapse(r) PROVE NewRouteIsUnknown'
  BY <1>11, <1>inv DEF TokensLapse, NewRouteIsUnknown
<1>12. CASE UNCHANGED pairingVars
  BY <1>12, <1>inv DEF pairingVars, NewRouteIsUnknown
<1> QED
  BY <1>1, <1>2, <1>3, <1>4, <1>5, <1>6, <1>7, <1>8, <1>9, <1>10, <1>11, <1>12
  DEF PairingNext, RemovalStep

LEMMA SetupKeepsWhatItFound ==
  PairingInv /\ [PairingNext]_pairingVars => SetupRemovesWhatItFound'
<1> SUFFICES ASSUME PairingInv, [PairingNext]_pairingVars PROVE SetupRemovesWhatItFound'
  OBVIOUS
<1> USE Parties DEF At, Goto, Done, Idle
<1>inv. /\ PairingTypeOK /\ RoutesAreKnown /\ PartsArePlayed
        /\ SetupRemovesWhatItFound /\ PhonesRemoveTheirOwn
  BY DEF PairingInv
<1>1. ASSUME NEW p \in Phone, BootstrapPairing(p) \/ RequestRemoval(p) \/ RevokeDevice(p)
      PROVE  SetupRemovesWhatItFound'
  BY <1>1, <1>inv
  DEF BootstrapPairing, RequestRemoval, RevokeDevice, PairingTypeOK, SetupRemovesWhatItFound
<1>2. CASE Accept \/ Decline \/ PutCredential \/ WritePairing \/ SetupDies
  BY <1>2, <1>inv
  DEF Accept, Decline, PutCredential, WritePairing, SetupDies, PairingTypeOK,
      SetupRemovesWhatItFound
<1>3. CASE Unpair \/ RetryTimer
  BY <1>3, <1>inv DEF Unpair, RetryTimer, FirstStep, PairingTypeOK, SetupRemovesWhatItFound
<1>4. ASSUME NEW x \in Party, WriteTombstone(x) PROVE SetupRemovesWhatItFound'
  <2>1. CASE x = Setup
    BY <1>4, <2>1, <1>inv DEF WriteTombstone, PairingTypeOK, SetupRemovesWhatItFound
  <2>2. CASE x # Setup
    <3>1. config.route = job[x].route /\ job[x].route # 0
      BY <1>4, <2>2, <1>inv, WhoRemoves DEF WriteTombstone, PhonesRemoveTheirOwn, RoutesAreKnown
    <3>2. job'[Setup] = job[Setup] /\ config'.route = config.route
          /\ (config' = config \/ config'.pending)
      BY <1>4, <2>2, <3>1, <1>inv DEF WriteTombstone, PairingTypeOK
    <3> QED BY <3>2, <1>inv DEF SetupRemovesWhatItFound
  <2> QED BY <2>1, <2>2
<1>5. ASSUME NEW x \in Party, RevokePhones(x) \/ Acknowledge(x) \/ FinishRemoval(x)
      PROVE  SetupRemovesWhatItFound'
  BY <1>5, <1>inv
  DEF RevokePhones, Acknowledge, FinishRemoval, PairingTypeOK, SetupRemovesWhatItFound
<1>6. ASSUME NEW x \in Party, FetchCredential(x) \/ RetireRoute(x) \/ DropCredential(x)
      PROVE  SetupRemovesWhatItFound'
  BY <1>6, <1>inv
  DEF FetchCredential, RetireRoute, DropCredential, GiveUp, PairingTypeOK, SetupRemovesWhatItFound
<1>7. ASSUME NEW x \in Party, ForgetPairing(x) PROVE SetupRemovesWhatItFound'
  BY <1>7, <1>inv DEF ForgetPairing, GiveUp, Unpaired, PairingTypeOK, SetupRemovesWhatItFound
<1>8. CASE StartDaemon \/ StopDaemon
  BY <1>8, <1>inv DEF StartDaemon, StopDaemon, PairingTypeOK, SetupRemovesWhatItFound
<1>9. ASSUME NEW r \in Route, TokensLapse(r) PROVE SetupRemovesWhatItFound'
  BY <1>9, <1>inv DEF TokensLapse, SetupRemovesWhatItFound
<1>10. CASE UNCHANGED pairingVars
  BY <1>10, <1>inv DEF pairingVars, SetupRemovesWhatItFound
<1> QED
  BY <1>1, <1>2, <1>3, <1>4, <1>5, <1>6, <1>7, <1>8, <1>9, <1>10 DEF PairingNext, RemovalStep

LEMMA ForgottenStaysRetired ==
  PairingInv /\ [PairingNext]_pairingVars => RetiredBeforeForgotten'
<1> SUFFICES ASSUME PairingInv, [PairingNext]_pairingVars PROVE RetiredBeforeForgotten'
  OBVIOUS
<1> USE Parties DEF At, Goto, Done, Idle
<1>inv. PairingTypeOK /\ RetiredBeforeForgotten
  BY DEF PairingInv
<1>1. ASSUME NEW p \in Phone, BootstrapPairing(p) \/ RequestRemoval(p) \/ RevokeDevice(p)
      PROVE  RetiredBeforeForgotten'
  BY <1>1, <1>inv
  DEF BootstrapPairing, RequestRemoval, RevokeDevice, FirstStep, PairingTypeOK,
      RetiredBeforeForgotten
<1>2. CASE Accept \/ Decline \/ PutCredential \/ WritePairing \/ SetupDies
  BY <1>2, <1>inv
  DEF Accept, Decline, PutCredential, WritePairing, SetupDies, PairingTypeOK,
      RetiredBeforeForgotten
<1>3. CASE Unpair \/ RetryTimer
  BY <1>3, <1>inv DEF Unpair, RetryTimer, FirstStep, PairingTypeOK, RetiredBeforeForgotten
<1>4. ASSUME NEW x \in Party,
             WriteTombstone(x) \/ RevokePhones(x) \/ Acknowledge(x) \/ FinishRemoval(x)
      PROVE  RetiredBeforeForgotten'
  BY <1>4, <1>inv
  DEF WriteTombstone, RevokePhones, Acknowledge, FinishRemoval, PairingTypeOK,
      RetiredBeforeForgotten
<1>5. ASSUME NEW x \in Party, FetchCredential(x) \/ ForgetPairing(x) \/ DropCredential(x)
      PROVE  RetiredBeforeForgotten'
  BY <1>5, <1>inv
  DEF FetchCredential, ForgetPairing, DropCredential, GiveUp, PairingTypeOK,
      RetiredBeforeForgotten
<1>6. ASSUME NEW x \in Party, RetireRoute(x) PROVE RetiredBeforeForgotten'
  <2>1. retired \subseteq retired'
    BY <1>6 DEF RetireRoute
  <2>2. CASE retired' = retired \cup {job[x].route} /\ Goto(x, "forget")
    BY <2>1, <2>2, <1>inv DEF PairingTypeOK, RetiredBeforeForgotten
  <2>3. CASE GiveUp(x)
    <3>1. job' = [job EXCEPT ![x].step = "fetch"] \/ job' = [job EXCEPT ![x] = Idle]
      BY <2>3 DEF GiveUp, Goto, Done
    <3> QED BY <2>1, <3>1, <1>inv DEF PairingTypeOK, RetiredBeforeForgotten, Idle
  <2> QED BY <1>6, <2>2, <2>3 DEF RetireRoute
<1>7. CASE StartDaemon \/ StopDaemon
  BY <1>7, <1>inv DEF StartDaemon, StopDaemon, PairingTypeOK, RetiredBeforeForgotten
<1>8. ASSUME NEW r \in Route, TokensLapse(r) PROVE RetiredBeforeForgotten'
  BY <1>8, <1>inv DEF TokensLapse, RetiredBeforeForgotten
<1>9. CASE UNCHANGED pairingVars
  BY <1>9, <1>inv DEF pairingVars, RetiredBeforeForgotten
<1> QED
  BY <1>1, <1>2, <1>3, <1>4, <1>5, <1>6, <1>7, <1>8, <1>9 DEF PairingNext, RemovalStep

LEMMA ServedStaysUntilRetired ==
  PairingInv /\ [PairingNext]_pairingVars => ServedUntilRetired'
<1> SUFFICES ASSUME PairingInv, [PairingNext]_pairingVars PROVE ServedUntilRetired'
  OBVIOUS
<1> USE Parties DEF At, Goto, Done, Idle
<1>inv. /\ PairingTypeOK /\ RoutesAreKnown /\ PartsArePlayed /\ NewRouteIsUnknown
        /\ SetupRemovesWhatItFound /\ RetiredBeforeForgotten
        /\ ServedUntilRetired /\ PhonesRemoveTheirOwn
  BY DEF PairingInv
<1>1. ASSUME NEW p \in Phone, BootstrapPairing(p) \/ RequestRemoval(p) \/ RevokeDevice(p)
      PROVE  ServedUntilRetired'
  BY <1>1, <1>inv
  DEF BootstrapPairing, RequestRemoval, RevokeDevice, PairingTypeOK, ServedUntilRetired
<1>2. CASE Accept \/ Decline \/ PutCredential \/ SetupDies
  BY <1>2, <1>inv
  DEF Accept, Decline, PutCredential, SetupDies, PairingTypeOK, ServedUntilRetired
<1>3. CASE WritePairing
  <2>1. config.route = 0
    BY <1>3, <1>inv DEF WritePairing, NewRouteIsUnknown, SetupPairs
  <2> QED BY <1>3, <2>1, <1>inv DEF WritePairing, PairingTypeOK, ServedUntilRetired
<1>4. CASE Unpair \/ RetryTimer
  BY <1>4, <1>inv DEF Unpair, RetryTimer, PairingTypeOK, ServedUntilRetired
<1>5. ASSUME NEW x \in Party, WriteTombstone(x) PROVE ServedUntilRetired'
  <2>1. config.route = job[x].route /\ x # Completer
    BY <1>5, <1>inv, WhoRemoves DEF WriteTombstone, PhonesRemoveTheirOwn, SetupRemovesWhatItFound
  <2> QED BY <1>5, <2>1, <1>inv DEF WriteTombstone, PairingTypeOK, ServedUntilRetired
<1>6. ASSUME NEW x \in Party, RevokePhones(x) PROVE ServedUntilRetired'
  BY <1>6, <1>inv, WhoRemoves DEF RevokePhones, PairingTypeOK, ServedUntilRetired
<1>7. ASSUME NEW x \in Party, Acknowledge(x) PROVE ServedUntilRetired'
  BY <1>7, <1>inv DEF Acknowledge, PhonesRemoveTheirOwn, PairingTypeOK, ServedUntilRetired
<1>8. ASSUME NEW x \in Party, FinishRemoval(x) PROVE ServedUntilRetired'
  BY <1>8, <1>inv DEF FinishRemoval, PairingTypeOK, ServedUntilRetired
<1>9. ASSUME NEW x \in Party, FetchCredential(x) \/ RetireRoute(x) PROVE ServedUntilRetired'
  <2>1. retired \subseteq retired'
    BY <1>9 DEF FetchCredential, RetireRoute
  <2>2. job' = [job EXCEPT ![x] = Idle] \/ \E s \in Step : job' = [job EXCEPT ![x].step = s]
    BY <1>9 DEF FetchCredential, RetireRoute, GiveUp, Step
  <2>3. job'[Completer].step # "idle" =>
          job'[Completer].route = job[Completer].route /\ ~At(Completer, "idle")
    BY <1>9, <2>2, <1>inv DEF FetchCredential, RetireRoute, PairingTypeOK
  <2>4. UNCHANGED <<config, daemon.serving, daemon.config>>
    BY <1>9, <1>inv DEF FetchCredential, RetireRoute, GiveUp, PairingTypeOK
  <2> QED BY <2>1, <2>3, <2>4, <1>inv DEF ServedUntilRetired
<1>10. ASSUME NEW x \in Party, ForgetPairing(x) \/ DropCredential(x) PROVE ServedUntilRetired'
  <2>1. job[x].route \in retired /\ job[x].route # 0 /\ (x = Setup \/ x = Completer)
    BY <1>10, <1>inv, WhoRemoves
    DEF ForgetPairing, DropCredential, RetiredBeforeForgotten, RoutesAreKnown
  <2>2. CASE daemon.serving = 0 \/ daemon.serving \in retired
    BY <1>10, <2>1, <2>2, <1>inv
    DEF ForgetPairing, DropCredential, GiveUp, Unpaired, PairingTypeOK, ServedUntilRetired
  <2>3. CASE daemon.serving # 0 /\ daemon.serving \notin retired
    <3>1. config.route = daemon.serving /\ config.route # 0 /\ config.route # job[x].route
      BY <2>1, <2>3, <1>inv DEF ServedUntilRetired
    <3>2. x # Completer /\ x # Setup
      BY <1>10, <2>1, <2>3, <3>1, <1>inv
      DEF ForgetPairing, DropCredential, ServedUntilRetired, SetupRemovesWhatItFound
    <3> QED BY <2>1, <3>2
  <2> QED BY <2>2, <2>3
<1>11. CASE StartDaemon
  BY <1>11, <1>inv DEF StartDaemon, PairingTypeOK, ServedUntilRetired
<1>12. CASE StopDaemon
  BY <1>12, <1>inv DEF StopDaemon, Down, ServedUntilRetired
<1>13. ASSUME NEW r \in Route, TokensLapse(r) PROVE ServedUntilRetired'
  BY <1>13, <1>inv DEF TokensLapse, ServedUntilRetired
<1>14. CASE UNCHANGED pairingVars
  BY <1>14, <1>inv DEF pairingVars, ServedUntilRetired
<1> QED
  BY <1>1, <1>2, <1>3, <1>4, <1>5, <1>6, <1>7, <1>8, <1>9, <1>10, <1>11, <1>12, <1>13,
     <1>14 DEF PairingNext, RemovalStep

LEMMA PhonesKeepToTheirOwn ==
  PairingInv /\ [PairingNext]_pairingVars => PhonesRemoveTheirOwn'
<1> SUFFICES ASSUME PairingInv, [PairingNext]_pairingVars PROVE PhonesRemoveTheirOwn'
  OBVIOUS
<1> USE Parties DEF At, Goto, Done, Idle
<1>inv. /\ PairingTypeOK /\ RoutesAreKnown /\ PartsArePlayed /\ NewRouteIsUnknown
        /\ SetupRemovesWhatItFound /\ ServedUntilRetired /\ PhonesRemoveTheirOwn
        /\ KnownToBePending
  BY DEF PairingInv
<1>1. ASSUME NEW p \in Phone, BootstrapPairing(p) \/ RevokeDevice(p) PROVE PhonesRemoveTheirOwn'
  <2>1. Active' \subseteq Active
    BY <1>1, <1>inv DEF BootstrapPairing, RevokeDevice, Active, PairingTypeOK
  <2> QED BY <1>1, <2>1, <1>inv DEF BootstrapPairing, RevokeDevice, PairingTypeOK, PhonesRemoveTheirOwn
<1>2. ASSUME NEW p \in Phone, RequestRemoval(p) PROVE PhonesRemoveTheirOwn'
  <2>1. /\ config.route = daemon.serving /\ daemon.config.route = daemon.serving
        /\ daemon.serving # 0
    BY <1>2, <1>inv, PairingConstants DEF RequestRemoval, ServedUntilRetired, Route
  <2>2. ~At(Setup, "registered") /\ ~At(Setup, "credentialled")
    BY <2>1, <1>inv DEF NewRouteIsUnknown, SetupPairs
  <2>3. /\ job' = [job EXCEPT ![p] = [step |-> FirstStep(daemon.config, p),
                                      route |-> daemon.config.route]]
        /\ FirstStep(daemon.config, p) = IF daemon.config.pending THEN "withdraw" ELSE "tombstone"
    BY <1>2, <2>1, <1>inv DEF RequestRemoval, FirstStep, PairingTypeOK, Config
  <2>4. daemon.config.pending => config.pending
    BY <2>1, <1>inv DEF KnownToBePending
  <2>5. Active' = Active
    BY <1>2 DEF RequestRemoval, Active
  <2> QED BY <1>2, <2>1, <2>2, <2>3, <2>4, <2>5, <1>inv
      DEF RequestRemoval, PairingTypeOK, PhonesRemoveTheirOwn
<1>3. CASE Accept
  <2>1. \A p \in Phone : job[p].step \notin {"tombstone", "withdraw", "reload"}
    BY <1>3 DEF Accept
  <2> QED BY <1>3, <2>1, <1>inv DEF Accept, PairingTypeOK, PhonesRemoveTheirOwn
<1>4. CASE Decline \/ PutCredential \/ WritePairing \/ SetupDies
  <2>1. Active' = Active
    BY <1>4 DEF Decline, PutCredential, WritePairing, SetupDies, Active
  <2> QED BY <1>4, <2>1, <1>inv
      DEF Decline, PutCredential, WritePairing, SetupDies, PairingTypeOK, PhonesRemoveTheirOwn
<1>5. CASE Unpair \/ RetryTimer
  <2>1. Active' = Active
    BY <1>5 DEF Unpair, RetryTimer, Active
  <2> QED BY <1>5, <2>1, <1>inv DEF Unpair, RetryTimer, FirstStep, PairingTypeOK, PhonesRemoveTheirOwn
<1>6. ASSUME NEW x \in Party, WriteTombstone(x) PROVE PhonesRemoveTheirOwn'
  <2>1. config.route = job[x].route /\ x # Completer
    BY <1>6, <1>inv, WhoRemoves DEF WriteTombstone, PhonesRemoveTheirOwn, SetupRemovesWhatItFound
  <2>2. Active' = Active
    BY <1>6 DEF WriteTombstone, Active
  <2> QED BY <1>6, <2>1, <2>2, <1>inv DEF WriteTombstone, PairingTypeOK, PhonesRemoveTheirOwn
<1>7. ASSUME NEW x \in Party, RevokePhones(x) PROVE PhonesRemoveTheirOwn'
  <2>1. Active' = {}
    BY <1>7, <1>inv DEF RevokePhones, Withdrawn, Active, PairingTypeOK
  <2> QED BY <1>7, <2>1, <1>inv DEF RevokePhones, PairingTypeOK, PhonesRemoveTheirOwn
<1>8. ASSUME NEW x \in Party, Acknowledge(x) \/ FinishRemoval(x) PROVE PhonesRemoveTheirOwn'
  <2>1. Active' = Active
    BY <1>8 DEF Acknowledge, FinishRemoval, Active
  <2> QED BY <1>8, <2>1, <1>inv DEF Acknowledge, FinishRemoval, PairingTypeOK, PhonesRemoveTheirOwn
<1>9. ASSUME NEW x \in Party,
             FetchCredential(x) \/ RetireRoute(x) \/ ForgetPairing(x) \/ DropCredential(x)
      PROVE  PhonesRemoveTheirOwn'
  <2>1. x = Setup \/ x = Completer
    BY <1>9, <1>inv, WhoRemoves
    DEF FetchCredential, RetireRoute, ForgetPairing, DropCredential
  <2>2. Active' = Active /\ daemon'.serving = daemon.serving
    BY <1>9, <1>inv DEF FetchCredential, RetireRoute, ForgetPairing, DropCredential, GiveUp,
                        Active, PairingTypeOK
  <2>3. \A p \in Phone : job'[p] = job[p]
    BY <1>9, <2>1, <1>inv
    DEF FetchCredential, RetireRoute, ForgetPairing, DropCredential, GiveUp, PairingTypeOK
  <2>4. job'[Setup].step \in {job[Setup].step, "idle", "fetch", "retire", "forget", "drop"}
    BY <1>9, <2>1, <1>inv
    DEF FetchCredential, RetireRoute, ForgetPairing, DropCredential, GiveUp, PairingTypeOK
  <2>5. \/ config' = config
        \/ config' = Unpaired /\ \A y \in Party : ~At(y, "tombstone")
    BY <1>9 DEF FetchCredential, RetireRoute, ForgetPairing, DropCredential
  <2> QED BY <2>2, <2>3, <2>4, <2>5, <1>inv DEF PhonesRemoveTheirOwn, Unpaired
<1>10. CASE StartDaemon \/ StopDaemon
  <2>1. \A p \in Phone : job'[p].step = "idle"
    BY <1>10, <1>inv DEF StartDaemon, StopDaemon, PartsArePlayed, PairingTypeOK
  <2> QED BY <2>1 DEF PhonesRemoveTheirOwn
<1>11. ASSUME NEW r \in Route, TokensLapse(r) PROVE PhonesRemoveTheirOwn'
  BY <1>11, <1>inv DEF TokensLapse, PhonesRemoveTheirOwn, Active
<1>12. CASE UNCHANGED pairingVars
  BY <1>12, <1>inv DEF pairingVars, PhonesRemoveTheirOwn, Active
<1> QED
  BY <1>1, <1>2, <1>3, <1>4, <1>5, <1>6, <1>7, <1>8, <1>9, <1>10, <1>11, <1>12
  DEF PairingNext, RemovalStep

LEMMA KnownStaysPending ==
  PairingInv /\ [PairingNext]_pairingVars => KnownToBePending'
<1> SUFFICES ASSUME PairingInv, [PairingNext]_pairingVars PROVE KnownToBePending'
  OBVIOUS
<1> USE Parties DEF At, Goto, Done, Idle
<1>inv. /\ PairingTypeOK /\ RoutesAreKnown /\ PartsArePlayed /\ NewRouteIsUnknown
        /\ SetupRemovesWhatItFound /\ PhonesRemoveTheirOwn /\ KnownToBePending
  BY DEF PairingInv
<1>1. ASSUME NEW p \in Phone, BootstrapPairing(p) \/ RequestRemoval(p) \/ RevokeDevice(p)
      PROVE  KnownToBePending'
  BY <1>1, <1>inv
  DEF BootstrapPairing, RequestRemoval, RevokeDevice, FirstStep, PairingTypeOK, KnownToBePending
<1>2. CASE Accept \/ Decline \/ PutCredential \/ SetupDies
  BY <1>2, <1>inv
  DEF Accept, Decline, PutCredential, SetupDies, PairingTypeOK, KnownToBePending
<1>3. CASE WritePairing
  <2>1. job[Setup].route # daemon.config.route
    BY <1>3, <1>inv DEF WritePairing, NewRouteIsUnknown, SetupPairs
  <2> QED BY <1>3, <2>1, <1>inv DEF WritePairing, PairingTypeOK, KnownToBePending
<1>4. CASE Unpair \/ RetryTimer
  BY <1>4, <1>inv DEF Unpair, RetryTimer, FirstStep, PairingTypeOK, KnownToBePending
<1>5. ASSUME NEW x \in Party, WriteTombstone(x) \/ RevokePhones(x) PROVE KnownToBePending'
  BY <1>5, <1>inv, WhoRemoves DEF WriteTombstone, RevokePhones, PairingTypeOK, KnownToBePending
<1>6. ASSUME NEW x \in Party, Acknowledge(x) PROVE KnownToBePending'
  <2>1. config.route = 0 \/ config.pending
    BY <1>6, <1>inv DEF Acknowledge, PhonesRemoveTheirOwn
  <2> QED BY <1>6, <2>1, <1>inv DEF Acknowledge, PairingTypeOK, RoutesAreKnown, KnownToBePending
<1>7. ASSUME NEW x \in Party, FinishRemoval(x) PROVE KnownToBePending'
  BY <1>7, <1>inv DEF FinishRemoval, PairingTypeOK, KnownToBePending
<1>8. ASSUME NEW x \in Party,
             FetchCredential(x) \/ RetireRoute(x) \/ ForgetPairing(x) \/ DropCredential(x)
      PROVE  KnownToBePending'
  <2>1. x = Setup \/ x = Completer
    BY <1>8, <1>inv, WhoRemoves
    DEF FetchCredential, RetireRoute, ForgetPairing, DropCredential
  <2>2. config' \in {config, Unpaired} /\ daemon'.config \in {daemon.config, Unpaired}
    BY <1>8, <1>inv
    DEF FetchCredential, RetireRoute, ForgetPairing, DropCredential, GiveUp, PairingTypeOK
  <2>3. \A p \in Phone : job'[p] = job[p]
    BY <1>8, <2>1, <1>inv
    DEF FetchCredential, RetireRoute, ForgetPairing, DropCredential, GiveUp, PairingTypeOK
  <2>4. CASE x = Setup
    <3>1. daemon' = daemon /\ job'[Completer] = job[Completer]
      BY <1>8, <2>4, <1>inv
      DEF FetchCredential, RetireRoute, ForgetPairing, DropCredential, GiveUp, PairingTypeOK
    <3> QED BY <2>2, <2>3, <3>1, <1>inv DEF Unpaired, KnownToBePending
  <2>5. CASE x = Completer
    <3>1. ~At(Completer, "idle")
      BY <1>8, <2>5 DEF FetchCredential, RetireRoute, ForgetPairing, DropCredential
    <3>2. daemon.config.route = 0 \/ daemon.config.pending
      BY <3>1, <1>inv DEF KnownToBePending
    <3> QED BY <2>2, <3>2, <1>inv DEF Unpaired, KnownToBePending
  <2> QED BY <2>1, <2>4, <2>5
<1>9. CASE StartDaemon \/ StopDaemon
  BY <1>9, <1>inv
  DEF StartDaemon, StopDaemon, Down, Unpaired, PartsArePlayed, RoutesAreKnown, PairingTypeOK,
      KnownToBePending
<1>10. ASSUME NEW r \in Route, TokensLapse(r) PROVE KnownToBePending'
  BY <1>10, <1>inv DEF TokensLapse, KnownToBePending
<1>11. CASE UNCHANGED pairingVars
  BY <1>11, <1>inv DEF pairingVars, KnownToBePending
<1> QED
  BY <1>1, <1>2, <1>3, <1>4, <1>5, <1>6, <1>7, <1>8, <1>9, <1>10, <1>11
  DEF PairingNext, RemovalStep

\* A phone becomes active by a registration alone, in a pairing.
LEMMA ActiveByRegistration ==
  ASSUME PairingTypeOK, PairingNext, ~Accept
  PROVE  Active' \subseteq Active
<1>1. CASE \/ Decline \/ PutCredential \/ WritePairing \/ Unpair \/ RetryTimer \/ SetupDies
           \/ StopDaemon
           \/ \E p \in Phone : BootstrapPairing(p) \/ RequestRemoval(p)
           \/ \E r \in Route : TokensLapse(r)
  BY <1>1 DEF Decline, PutCredential, WritePairing, Unpair, RetryTimer, SetupDies, StopDaemon,
              BootstrapPairing, RequestRemoval, TokensLapse, Active
<1>2. CASE StartDaemon \/ \E p \in Phone : RevokeDevice(p)
  BY <1>2 DEF StartDaemon, RevokeDevice, Withdrawn, Active, PairingTypeOK
<1>3. ASSUME NEW x \in Party, RemovalStep(x) PROVE Active' \subseteq Active
  BY <1>3 DEF RemovalStep, WriteTombstone, RevokePhones, Acknowledge, FinishRemoval,
              FetchCredential, RetireRoute, ForgetPairing, DropCredential, Withdrawn, Active,
              PairingTypeOK
<1> QED BY <1>1, <1>2, <1>3 DEF PairingNext

LEMMA WithdrawnStaysSo ==
  PairingInv /\ [PairingNext]_pairingVars => PendingMeansWithdrawn'
<1> SUFFICES ASSUME PairingInv, [PairingNext]_pairingVars PROVE PendingMeansWithdrawn'
  OBVIOUS
<1> USE Parties DEF At
<1>inv. /\ PairingTypeOK /\ PartsArePlayed /\ RoutesAreKnown /\ NewRouteIsUnknown
        /\ SetupRemovesWhatItFound /\ PhonesRemoveTheirOwn /\ KnownToBePending
        /\ PendingMeansWithdrawn
  BY DEF PairingInv
\* Where neither side changes, nobody becomes active.
<1>same. ASSUME PairingNext, ~Accept, UNCHANGED <<config, daemon.config, daemon.up>>
         PROVE  PendingMeansWithdrawn'
  BY <1>same, <1>inv, ActiveByRegistration DEF PendingMeansWithdrawn
<1>1. CASE Accept
  <2>1. config.route = 0 /\ config' = config
    BY <1>1, <1>inv DEF Accept, NewRouteIsUnknown, SetupPairs
  <2> QED BY <2>1, <1>inv DEF RoutesAreKnown, PendingMeansWithdrawn
<1>2. CASE ~Accept /\ \/ Decline \/ PutCredential \/ Unpair \/ RetryTimer \/ SetupDies
                      \/ \E p \in Phone : BootstrapPairing(p) \/ RequestRemoval(p) \/ RevokeDevice(p)
                      \/ \E r \in Route : TokensLapse(r)
  <2>1. UNCHANGED <<config, daemon.config, daemon.up>>
    BY <1>2, <1>inv
    DEF Decline, PutCredential, Unpair, RetryTimer, SetupDies, BootstrapPairing,
        RequestRemoval, RevokeDevice, TokensLapse, PairingTypeOK
  <2> QED BY <1>2, <2>1, <1>same DEF PairingNext
<1>3. CASE WritePairing
  <2>1. ~config'.pending \/ UNCHANGED <<config, daemon>>
    BY <1>3 DEF WritePairing
  <2>2. Active' = Active
    BY <1>3 DEF WritePairing, Active
  <2> QED BY <2>1, <2>2, <1>inv DEF PendingMeansWithdrawn
<1>4. ASSUME NEW x \in Party, WriteTombstone(x) PROVE PendingMeansWithdrawn'
  <2>1. config.route = job[x].route /\ Active' = Active /\ daemon' = daemon
    BY <1>4, <1>inv, WhoRemoves
    DEF WriteTombstone, PhonesRemoveTheirOwn, SetupRemovesWhatItFound, Active
  <2>2. CASE config' = config
    BY <2>1, <2>2, <1>inv DEF PendingMeansWithdrawn
  <2>3. CASE config' # config /\ config' = daemon.config
    <3>1. daemon.config.pending /\ daemon.config.route = config.route
      BY <1>4, <2>1, <2>3 DEF WriteTombstone
    <3>2. config.pending
      BY <3>1, <1>inv DEF KnownToBePending
    <3>3. config = config'
      BY <1>4, <2>1, <3>2, <1>inv DEF WriteTombstone, PairingTypeOK, Config
    <3> QED BY <2>3, <3>3
  <2> QED BY <2>1, <2>2, <2>3 DEF PendingMeansWithdrawn
<1>5. ASSUME NEW x \in Party, RevokePhones(x) PROVE PendingMeansWithdrawn'
  BY <1>5, <1>inv DEF RevokePhones, Withdrawn, Active, PairingTypeOK, PendingMeansWithdrawn
<1>6. ASSUME NEW x \in Party, Acknowledge(x) PROVE PendingMeansWithdrawn'
  BY <1>6, <1>inv DEF Acknowledge, Active, PhonesRemoveTheirOwn, PendingMeansWithdrawn
<1>7. ASSUME NEW x \in Party, FinishRemoval(x) PROVE PendingMeansWithdrawn'
  BY <1>7, <1>inv DEF FinishRemoval, Active, PendingMeansWithdrawn
<1>8. ASSUME NEW x \in Party,
             FetchCredential(x) \/ RetireRoute(x) \/ ForgetPairing(x) \/ DropCredential(x)
      PROVE  PendingMeansWithdrawn'
  <2>1. /\ config' \in {config, Unpaired} /\ daemon'.config \in {daemon.config, Unpaired}
        /\ daemon'.up = daemon.up /\ Active' = Active
    BY <1>8, <1>inv
    DEF FetchCredential, RetireRoute, ForgetPairing, DropCredential, GiveUp, PairingTypeOK, Active
  <2> QED BY <2>1, <1>inv DEF Unpaired, PendingMeansWithdrawn
<1>9. CASE StartDaemon
  BY <1>9, <1>inv DEF StartDaemon, Withdrawn, Active, PairingTypeOK, PendingMeansWithdrawn
<1>10. CASE StopDaemon
  BY <1>10 DEF StopDaemon, Down, PendingMeansWithdrawn
<1>11. CASE UNCHANGED pairingVars
  BY <1>11, <1>inv DEF pairingVars, Active, PendingMeansWithdrawn
<1> QED
  BY <1>1, <1>2, <1>3, <1>4, <1>5, <1>6, <1>7, <1>8, <1>9, <1>10, <1>11
  DEF PairingNext, RemovalStep

LEMMA RemovalStaysPending ==
  PairingInv /\ [PairingNext]_pairingVars => RemovalIsPending'
<1> SUFFICES ASSUME PairingInv, [PairingNext]_pairingVars PROVE RemovalIsPending'
  OBVIOUS
<1> USE Parties DEF At, Goto, Done, Idle
<1>inv. /\ PairingTypeOK /\ PartsArePlayed /\ RoutesAreKnown /\ NewRouteIsUnknown
        /\ SetupRemovesWhatItFound /\ PhonesRemoveTheirOwn /\ KnownToBePending
        /\ PendingMeansWithdrawn /\ RemovalIsPending
  BY DEF PairingInv
<1>fewer. PairingNext /\ ~Accept => Active' \subseteq Active
  BY <1>inv, ActiveByRegistration
\* The daemon takes up the removal of what it knows to be pending.
<1>taken. daemon.up /\ (daemon.retry \/ \E p \in Phone : At(p, "finished"))
            /\ daemon.config.route # 0 /\ config.route = daemon.config.route
          => config.pending /\ Active = {}
  <2> SUFFICES ASSUME daemon.up, daemon.retry \/ \E p \in Phone : At(p, "finished"),
                      daemon.config.route # 0, config.route = daemon.config.route
               PROVE  config.pending /\ Active = {}
    OBVIOUS
  <2>1. daemon.config.pending /\ config.pending
    BY <1>inv DEF KnownToBePending
  <2>2. daemon.config = config
    BY <2>1, <1>inv DEF PairingTypeOK, Config
  <2> QED BY <2>1, <2>2, <1>inv DEF PendingMeansWithdrawn
<1>1. ASSUME NEW p \in Phone, BootstrapPairing(p) \/ RequestRemoval(p) \/ RevokeDevice(p)
      PROVE  RemovalIsPending'
  <2>1. ~Accept => Active' \subseteq Active
    BY <1>1, <1>fewer DEF PairingNext
  <2>2. Active' \subseteq Active
    BY <1>1, <1>inv DEF BootstrapPairing, RequestRemoval, RevokeDevice, Active, PairingTypeOK
  <2> QED BY <1>1, <2>2, <1>inv
      DEF BootstrapPairing, RequestRemoval, RevokeDevice, PairingTypeOK, RemovalIsPending
<1>2. CASE Accept
  <2>1. config.route = 0 /\ config' = config
    BY <1>2, <1>inv DEF Accept, NewRouteIsUnknown, SetupPairs
  <2>2. \A x \in {Setup, Completer} :
          job'[x].step \in {"fetch", "retire", "forget", "drop"} =>
            job[x].step = job'[x].step /\ job'[x].route = job[x].route
    BY <1>2, <1>inv DEF Accept, PairingTypeOK
  <2> QED BY <2>1, <2>2, <1>inv DEF RoutesAreKnown, RemovalIsPending
<1>3. CASE Decline \/ PutCredential \/ Unpair \/ SetupDies
  <2>1. Active' = Active
    BY <1>3 DEF Decline, PutCredential, Unpair, SetupDies, Active
  <2> QED BY <1>3, <2>1, <1>inv
      DEF Decline, PutCredential, Unpair, FirstStep, SetupDies, PairingTypeOK, RemovalIsPending
<1>4. CASE WritePairing
  <2>1. Active' = Active /\ job'[Setup].step = "idle" /\ job'[Completer] = job[Completer]
    BY <1>4, <1>inv DEF WritePairing, Active, PairingTypeOK
  <2>2. job[Setup].route # job[Completer].route
    BY <1>4, <1>inv DEF WritePairing, NewRouteIsUnknown, SetupPairs
  <2>3. config' = config \/ config'.route = job[Setup].route
    BY <1>4 DEF WritePairing
  <2> QED BY <2>1, <2>2, <2>3, <1>inv DEF RemovalIsPending
<1>5. CASE RetryTimer
  <2>1. Active' = Active /\ config' = config /\ job'[Setup] = job[Setup]
    BY <1>5, <1>inv DEF RetryTimer, Active, PairingTypeOK
  <2>2. \/ job'[Completer] = job[Completer]
        \/ job'[Completer].route = daemon.config.route /\ daemon.config.route # 0
    BY <1>5, <1>inv DEF RetryTimer, PairingTypeOK
  <2>3. daemon.up /\ daemon.retry
    BY <1>5 DEF RetryTimer
  <2> QED BY <2>1, <2>2, <2>3, <1>taken, <1>inv DEF RemovalIsPending
<1>6. ASSUME NEW x \in Party, WriteTombstone(x) PROVE RemovalIsPending'
  <2>1. config.route = job[x].route /\ x # Completer /\ Active' = Active
    BY <1>6, <1>inv, WhoRemoves
    DEF WriteTombstone, PhonesRemoveTheirOwn, SetupRemovesWhatItFound, Active
  <2>2. config'.route = config.route /\ (config' = config \/ config'.pending)
    BY <1>6, <2>1 DEF WriteTombstone
  <2>3. \A y \in {Setup, Completer} :
          job'[y].step \in {"fetch", "retire", "forget", "drop"} => job'[y] = job[y]
    BY <1>6, <2>1, <1>inv DEF WriteTombstone, PairingTypeOK
  <2> QED BY <2>1, <2>2, <2>3, <1>inv DEF RemovalIsPending
<1>7. ASSUME NEW x \in Party, RevokePhones(x) PROVE RemovalIsPending'
  <2>1. Active' = {} /\ config' = config
    BY <1>7, <1>inv DEF RevokePhones, Withdrawn, Active, PairingTypeOK
  <2>2. job'[Completer] = job[Completer]
    BY <1>7, <1>inv, WhoRemoves DEF RevokePhones, PairingTypeOK
  <2>3. \/ job'[Setup] = job[Setup]
        \/ At(Setup, "withdraw") /\ job'[Setup].route = job[Setup].route
    BY <1>7, <1>inv DEF RevokePhones, PairingTypeOK
  <2> QED BY <2>1, <2>2, <2>3, <1>inv
      DEF SetupRemovesWhatItFound, RoutesAreKnown, RemovalIsPending
<1>8. ASSUME NEW x \in Party, Acknowledge(x) PROVE RemovalIsPending'
  BY <1>8, <1>inv DEF Acknowledge, Active, PairingTypeOK, RemovalIsPending
<1>9. ASSUME NEW x \in Party, FinishRemoval(x) PROVE RemovalIsPending'
  <2>1. Active' = Active /\ config' = config /\ job'[Setup] = job[Setup]
    BY <1>9, <1>inv DEF FinishRemoval, Active, PairingTypeOK
  <2>2. \/ job'[Completer] = job[Completer]
        \/ job'[Completer].route = daemon.config.route /\ daemon.config.route # 0
    BY <1>9, <1>inv DEF FinishRemoval, PairingTypeOK
  <2>3. daemon.up /\ \E p \in Phone : At(p, "finished")
    BY <1>9, <1>inv DEF FinishRemoval, PartsArePlayed
  <2> QED BY <2>1, <2>2, <2>3, <1>taken, <1>inv DEF RemovalIsPending
<1>10. ASSUME NEW x \in Party,
              FetchCredential(x) \/ RetireRoute(x) \/ ForgetPairing(x) \/ DropCredential(x)
       PROVE  RemovalIsPending'
  <2>1. Active' = Active
    BY <1>10 DEF FetchCredential, RetireRoute, ForgetPairing, DropCredential, Active
  <2>2. config' = config \/ config' = Unpaired
    BY <1>10 DEF FetchCredential, RetireRoute, ForgetPairing, DropCredential
  <2>3. \A y \in Party : job'[y].step \in {"fetch", "retire", "forget", "drop"} =>
          job'[y].route = job[y].route /\ job[y].step \in {"fetch", "retire", "forget", "drop"}
    BY <1>10, <1>inv
    DEF FetchCredential, RetireRoute, ForgetPairing, DropCredential, GiveUp, PairingTypeOK
  <2>4. \A y \in Party : job[y].step \in {"fetch", "retire", "forget", "drop"} => job[y].route # 0
    BY <1>inv DEF RoutesAreKnown
  <2> QED BY <2>1, <2>2, <2>3, <2>4, <1>inv DEF Unpaired, RemovalIsPending
<1>11. CASE StartDaemon
  <2>1. config.pending => Active' = {}
    BY <1>11, <1>inv DEF StartDaemon, Withdrawn, Active, PairingTypeOK
  <2>2. Active' \subseteq Active
    BY <1>11, <1>inv DEF StartDaemon, Withdrawn, Active, PairingTypeOK
  <2>3. config' = config /\ job'[Setup] = job[Setup] /\ (~config.pending => job'[Completer] = Idle)
    BY <1>11, <1>inv DEF StartDaemon, PairingTypeOK
  <2> QED BY <2>1, <2>2, <2>3, <1>inv DEF RemovalIsPending
<1>12. CASE StopDaemon
  BY <1>12, <1>inv DEF StopDaemon, Active, PairingTypeOK, RemovalIsPending
<1>13. ASSUME NEW r \in Route, TokensLapse(r) PROVE RemovalIsPending'
  BY <1>13, <1>inv DEF TokensLapse, Active, RemovalIsPending
<1>14. CASE UNCHANGED pairingVars
  BY <1>14, <1>inv DEF pairingVars, Active, RemovalIsPending
<1> QED
  BY <1>1, <1>2, <1>3, <1>4, <1>5, <1>6, <1>7, <1>8, <1>9, <1>10, <1>11, <1>12,
     <1>13, <1>14 DEF PairingNext, RemovalStep

\* Nothing takes the mark of a kept credential away.
LEMMA KeptStaysKept ==
  ASSUME PairingTypeOK, [PairingNext]_pairingVars, undropped
  PROVE  undropped'
BY DEF PairingNext, RemovalStep, pairingVars, BootstrapPairing, RequestRemoval, RevokeDevice,
       Accept, Decline, PutCredential, WritePairing, Unpair, RetryTimer, WriteTombstone,
       RevokePhones, Acknowledge, FinishRemoval, FetchCredential, RetireRoute, ForgetPairing,
       DropCredential, StartDaemon, StopDaemon, SetupDies, TokensLapse

LEMMA CompleterStaysAlone ==
  PairingInv /\ [PairingNext]_pairingVars => undropped' \/ CompleterIsAlone'
<1> SUFFICES ASSUME PairingInv, [PairingNext]_pairingVars, ~undropped'
    PROVE  CompleterIsAlone'
  OBVIOUS
<1> USE Parties DEF At, Goto, Done, Idle
<1>inv. /\ PairingTypeOK /\ PartsArePlayed /\ RoutesAreKnown /\ NewRouteIsUnknown
        /\ SetupRemovesWhatItFound /\ PhonesRemoveTheirOwn
  BY DEF PairingInv
<1>alone. CompleterIsAlone /\ CredentialStands
  BY <1>inv, KeptStaysKept DEF PairingInv
<1>1. ASSUME NEW p \in Phone, BootstrapPairing(p) \/ RequestRemoval(p) \/ RevokeDevice(p)
      PROVE  CompleterIsAlone'
  BY <1>1, <1>inv, <1>alone
  DEF BootstrapPairing, RequestRemoval, RevokeDevice, PairingTypeOK, CompleterIsAlone
<1>2. CASE Accept
  <2>1. job[Completer].step \notin {"retire", "forget", "drop"}
    BY <1>2 DEF Accept
  <2> QED BY <1>2, <2>1, <1>inv DEF Accept, PairingTypeOK, CompleterIsAlone
<1>3. CASE Decline \/ PutCredential \/ WritePairing \/ SetupDies
  BY <1>3, <1>inv, <1>alone
  DEF Decline, PutCredential, WritePairing, SetupDies, PairingTypeOK, CompleterIsAlone
<1>4. CASE Unpair \/ RetryTimer
  BY <1>4, <1>inv, <1>alone
  DEF Unpair, RetryTimer, FirstStep, PairingTypeOK, CompleterIsAlone
<1>5. ASSUME NEW x \in Party, WriteTombstone(x) PROVE CompleterIsAlone'
  <2>1. config.route = job[x].route /\ x # Completer
    BY <1>5, <1>inv, WhoRemoves DEF WriteTombstone, PhonesRemoveTheirOwn, SetupRemovesWhatItFound
  <2> QED BY <1>5, <2>1, <1>inv, <1>alone DEF WriteTombstone, PairingTypeOK, CompleterIsAlone
<1>6. ASSUME NEW x \in Party, RevokePhones(x) \/ Acknowledge(x) PROVE CompleterIsAlone'
  BY <1>6, <1>inv, <1>alone, WhoRemoves
  DEF RevokePhones, Acknowledge, PairingTypeOK, CompleterIsAlone
<1>7. ASSUME NEW x \in Party, FinishRemoval(x) PROVE CompleterIsAlone'
  BY <1>7, <1>inv, <1>alone DEF FinishRemoval, PairingTypeOK, CompleterIsAlone
<1>8. ASSUME NEW x \in Party, FetchCredential(x) PROVE CompleterIsAlone'
  <2>1. CASE credential # job[x].route
    BY <1>8, <2>1, <1>inv, <1>alone DEF FetchCredential, GiveUp, PairingTypeOK, CompleterIsAlone
  <2>2. CASE credential = job[x].route /\ x = Completer
    <3>1. config.route = job[x].route \/ (At(Setup, "drop") /\ config.route = 0)
      BY <1>8, <2>2, <1>inv, <1>alone
      DEF FetchCredential, CredentialStands, RoutesAreKnown, SetupRemovesWhatItFound
    <3>2. job[x].route # 0
      BY <1>8, <1>inv DEF FetchCredential, RoutesAreKnown
    <3>3. ~At(Setup, "registered") /\ ~At(Setup, "credentialled")
      BY <3>1, <3>2, <1>inv DEF NewRouteIsUnknown, SetupPairs
    <3>4. job' = [job EXCEPT ![Completer].step = "retire"] /\ config' = config
      BY <1>8, <2>2 DEF FetchCredential
    <3>5. /\ job'[Completer].route = job[x].route /\ job'[Completer].step = "retire"
          /\ job'[Setup] = job[Setup]
      BY <3>4, <2>2, <1>inv DEF PairingTypeOK
    <3> QED BY <3>1, <3>3, <3>4, <3>5 DEF CompleterIsAlone
  <2>3. CASE credential = job[x].route /\ x # Completer
    BY <1>8, <2>3, <1>inv, <1>alone DEF FetchCredential, PairingTypeOK, CompleterIsAlone
  <2> QED BY <2>1, <2>2, <2>3
<1>9. ASSUME NEW x \in Party, RetireRoute(x) PROVE CompleterIsAlone'
  BY <1>9, <1>inv, <1>alone DEF RetireRoute, GiveUp, PairingTypeOK, CompleterIsAlone
<1>10. ASSUME NEW x \in Party, ForgetPairing(x) PROVE CompleterIsAlone'
  BY <1>10, <1>inv, <1>alone DEF ForgetPairing, GiveUp, Unpaired, PairingTypeOK, CompleterIsAlone
<1>11. ASSUME NEW x \in Party, DropCredential(x) PROVE CompleterIsAlone'
  BY <1>11, <1>inv, <1>alone DEF DropCredential, PairingTypeOK, CompleterIsAlone
<1>12. CASE StartDaemon \/ StopDaemon
  BY <1>12, <1>inv, <1>alone DEF StartDaemon, StopDaemon, PairingTypeOK, CompleterIsAlone
<1>13. ASSUME NEW r \in Route, TokensLapse(r) PROVE CompleterIsAlone'
  BY <1>13, <1>alone DEF TokensLapse, CompleterIsAlone
<1>14. CASE UNCHANGED pairingVars
  BY <1>14, <1>alone DEF pairingVars, CompleterIsAlone
<1> QED
  BY <1>1, <1>2, <1>3, <1>4, <1>5, <1>6, <1>7, <1>8, <1>9, <1>10, <1>11, <1>12, <1>13,
     <1>14 DEF PairingNext, RemovalStep

LEMMA CredentialStaysStanding ==
  PairingInv /\ [PairingNext]_pairingVars => undropped' \/ CredentialStands'
<1> SUFFICES ASSUME PairingInv, [PairingNext]_pairingVars, ~undropped'
    PROVE  CredentialStands'
  OBVIOUS
<1> USE Parties DEF At, Goto, Done, Idle
<1>inv. /\ PairingTypeOK /\ PartsArePlayed /\ RoutesAreKnown /\ NewRouteIsUnknown
        /\ SetupRemovesWhatItFound /\ PhonesRemoveTheirOwn
  BY DEF PairingInv
<1>alone. CompleterIsAlone /\ CredentialStands
  BY <1>inv, KeptStaysKept DEF PairingInv
<1>1. ASSUME NEW p \in Phone, BootstrapPairing(p) \/ RequestRemoval(p) \/ RevokeDevice(p)
      PROVE  CredentialStands'
  BY <1>1, <1>inv, <1>alone
  DEF BootstrapPairing, RequestRemoval, RevokeDevice, FirstStep, PairingTypeOK, CredentialStands
<1>2. CASE Accept \/ Decline
  BY <1>2, <1>inv, <1>alone DEF Accept, Decline, PairingTypeOK, CredentialStands
<1>3. CASE PutCredential
  <2>1. config.route = 0 /\ job[Setup].route \notin {daemon.config.route, job[Completer].route}
    BY <1>3, <1>inv DEF PutCredential, NewRouteIsUnknown, SetupPairs
  <2> QED BY <1>3, <2>1, <1>inv, <1>alone DEF PutCredential, PairingTypeOK, CredentialStands
<1>4. CASE WritePairing
  <2>1. config.route = 0 /\ job[Setup].route \notin {daemon.config.route, job[Completer].route}
    BY <1>4, <1>inv DEF WritePairing, NewRouteIsUnknown, SetupPairs
  <2> QED BY <1>4, <2>1, <1>inv, <1>alone DEF WritePairing, PairingTypeOK, CredentialStands
<1>5. CASE SetupDies
  BY <1>5, <1>inv, <1>alone DEF SetupDies, PairingTypeOK, CredentialStands
<1>6. CASE Unpair \/ RetryTimer
  BY <1>6, <1>inv, <1>alone
  DEF Unpair, RetryTimer, FirstStep, PairingTypeOK, CredentialStands
<1>7. ASSUME NEW x \in Party, WriteTombstone(x) PROVE CredentialStands'
  <2>1. config.route = job[x].route /\ x # Completer
    BY <1>7, <1>inv, WhoRemoves DEF WriteTombstone, PhonesRemoveTheirOwn, SetupRemovesWhatItFound
  <2> QED BY <1>7, <2>1, <1>inv, <1>alone DEF WriteTombstone, PairingTypeOK, CredentialStands
<1>8. ASSUME NEW x \in Party, RevokePhones(x) \/ Acknowledge(x) PROVE CredentialStands'
  BY <1>8, <1>inv, <1>alone, WhoRemoves
  DEF RevokePhones, Acknowledge, PairingTypeOK, CredentialStands
<1>9. ASSUME NEW x \in Party, FinishRemoval(x) PROVE CredentialStands'
  BY <1>9, <1>inv, <1>alone DEF FinishRemoval, PairingTypeOK, CredentialStands
<1>10. ASSUME NEW x \in Party, FetchCredential(x) \/ RetireRoute(x) PROVE CredentialStands'
  <2>1. UNCHANGED <<config, credential, daemon.config>>
    BY <1>10, <1>inv DEF FetchCredential, RetireRoute, GiveUp, PairingTypeOK
  <2>2. /\ job'[Setup].step \in {"credentialled", "drop"} => job'[Setup] = job[Setup]
        /\ At(Setup, "drop") => job'[Setup] = job[Setup]
        /\ At(Completer, "drop") => job'[Completer] = job[Completer]
        /\ job'[Completer].route \in {0, job[Completer].route}
    BY <1>10, <1>inv DEF FetchCredential, RetireRoute, GiveUp, PairingTypeOK
  <2> QED BY <2>1, <2>2, <1>alone DEF CredentialStands
<1>11. ASSUME NEW x \in Party, ForgetPairing(x) PROVE CredentialStands'
  <2>1. CASE config' = Unpaired /\ Goto(x, "drop")
    <3>1. (x = Setup \/ x = Completer) /\ job'[x].step = "drop"
      BY <1>11, <2>1, <1>inv, WhoRemoves DEF ForgetPairing, PairingTypeOK
    <3>2. job'[Setup].step = "credentialled" => job'[Setup] = job[Setup]
      BY <1>11, <2>1, <1>inv DEF PairingTypeOK
    <3> QED BY <1>11, <2>1, <3>1, <3>2, <1>alone DEF ForgetPairing, Unpaired, CredentialStands
  <2>2. CASE config' = config /\ GiveUp(x)
    <3>1. UNCHANGED <<config, credential, daemon.config>>
      BY <1>11, <2>2, <1>inv DEF ForgetPairing, GiveUp, PairingTypeOK
    <3>2. /\ job'[Setup].step \in {"credentialled", "drop"} => job'[Setup] = job[Setup]
          /\ At(Setup, "drop") => job'[Setup] = job[Setup]
          /\ At(Completer, "drop") => job'[Completer] = job[Completer]
          /\ job'[Completer].route \in {0, job[Completer].route}
      BY <1>11, <2>2, <1>inv DEF ForgetPairing, GiveUp, PairingTypeOK
    <3> QED BY <3>1, <3>2, <1>alone DEF CredentialStands
  <2> QED BY <1>11, <2>1, <2>2 DEF ForgetPairing
<1>12. ASSUME NEW x \in Party, DropCredential(x) PROVE CredentialStands'
  <2>1. config.route = 0 /\ ~At(Setup, "credentialled")
    BY <1>12, <1>inv, <1>alone, WhoRemoves
    DEF DropCredential, SetupRemovesWhatItFound, CompleterIsAlone
  <2>2. config' = config /\ credential' = 0 /\ job' = [job EXCEPT ![x] = Idle]
    BY <1>12 DEF DropCredential
  <2> QED BY <2>1, <2>2, <1>inv DEF PairingTypeOK, CredentialStands
<1>13. CASE StartDaemon
  BY <1>13, <1>inv, <1>alone DEF StartDaemon, PairingTypeOK, CredentialStands
<1>14. CASE StopDaemon
  <2>1. ~At(Completer, "drop")
    BY <1>14 DEF StopDaemon
  <2> QED BY <1>14, <2>1, <1>inv, <1>alone
      DEF StopDaemon, Down, Unpaired, PairingTypeOK, CredentialStands
<1>15. ASSUME NEW r \in Route, TokensLapse(r) PROVE CredentialStands'
  BY <1>15, <1>alone DEF TokensLapse, CredentialStands
<1>16. CASE UNCHANGED pairingVars
  BY <1>16, <1>alone DEF pairingVars, CredentialStands
<1> QED
  BY <1>1, <1>2, <1>3, <1>4, <1>5, <1>6, <1>7, <1>8, <1>9, <1>10, <1>11, <1>12, <1>13,
     <1>14, <1>15, <1>16 DEF PairingNext, RemovalStep

LEMMA ActiveStaysPaired ==
  PairingInv /\ [PairingNext]_pairingVars => ActiveMeansPaired'
<1> SUFFICES ASSUME PairingInv, [PairingNext]_pairingVars, ~cutShort', ~undropped',
                    NEW p \in Active'
    PROVE  \/ config'.route # 0 /\ owner'[config'.route] = p
           \/ /\ job'[Setup].step \in {"registered", "credentialled"}
              /\ owner'[job'[Setup].route] = p
  BY DEF ActiveMeansPaired
<1> DEFINE Paired == config.route # 0 /\ owner[config.route] = p
           Pairs  == /\ job[Setup].step \in {"registered", "credentialled"}
                     /\ owner[job[Setup].route] = p
<1> USE Parties DEF At, Goto, Done, Idle
<1>inv. /\ PairingTypeOK /\ PartsArePlayed /\ RoutesAreKnown /\ RoutesAreIssued
        /\ NewRouteIsUnknown /\ SetupRemovesWhatItFound /\ PhonesRemoveTheirOwn
        /\ RemovalIsPending /\ ActiveMeansPaired
  BY DEF PairingInv
<1>alone. CompleterIsAlone /\ ~undropped /\ ~cutShort
  <2>1. ~undropped
    BY <1>inv, KeptStaysKept
  <2>2. ~cutShort
    BY <1>inv
    DEF PairingNext, RemovalStep, pairingVars, BootstrapPairing, RequestRemoval, RevokeDevice,
        Accept, Decline, PutCredential, WritePairing, Unpair, RetryTimer, WriteTombstone,
        RevokePhones, Acknowledge, FinishRemoval, FetchCredential, RetireRoute, ForgetPairing,
        DropCredential, StartDaemon, StopDaemon, SetupDies, TokensLapse
  <2> QED BY <2>1, <2>2 DEF PairingInv
<1>before. PairingNext /\ ~Accept => p \in Active /\ (Paired \/ Pairs)
  BY <1>inv, <1>alone, ActiveByRegistration DEF ActiveMeansPaired
<1>1. ASSUME NEW q \in Phone, BootstrapPairing(q), ~Accept
      PROVE  Paired'
  <2>1. PICK r \in Route \ Issued : owner' = [owner EXCEPT ![r] = q]
    BY <1>1 DEF BootstrapPairing
  <2>2. Paired
    BY <1>1, <1>before DEF BootstrapPairing, PairingNext
  <2>3. config.route \in Issued
    BY <2>2, <1>inv DEF RoutesAreIssued
  <2> QED BY <1>1, <2>1, <2>2, <2>3, <1>inv DEF BootstrapPairing, Issued, PairingTypeOK
<1>2. ASSUME NEW q \in Phone, RequestRemoval(q) \/ RevokeDevice(q), ~Accept
      PROVE  (Paired \/ Pairs)'
  <2>1. Paired \/ Pairs
    BY <1>2, <1>before DEF PairingNext
  <2> QED BY <1>2, <2>1, <1>inv DEF RequestRemoval, RevokeDevice, PairingTypeOK
<1>3. CASE Accept
  <2>1. config.route = 0 /\ At(Setup, "inviting")
    BY <1>3, <1>inv DEF Accept, NewRouteIsUnknown, SetupPairs
  <2>2. Active = {}
    BY <2>1, <1>inv, <1>alone DEF ActiveMeansPaired
  <2>3. device' = [device EXCEPT ![owner[job[Setup].route]] = "active"] /\ Goto(Setup, "registered")
    BY <1>3, <2>2 DEF Accept, Active
  <2>4. p = owner[job[Setup].route]
    BY <2>2, <2>3, <1>inv DEF Active, PairingTypeOK
  <2> QED BY <1>3, <2>3, <2>4, <1>inv DEF Accept, PairingTypeOK
<1>4. CASE ~Accept /\ (Decline \/ PutCredential \/ Unpair \/ RetryTimer \/ SetupDies)
  <2>1. Paired \/ Pairs
    BY <1>4, <1>before DEF PairingNext
  <2>2. config' = config /\ owner' = owner
    BY <1>4 DEF Decline, PutCredential, Unpair, RetryTimer, SetupDies
  <2>3. job[Setup].step \in {"registered", "credentialled"} =>
          /\ job'[Setup].step \in {"registered", "credentialled"}
          /\ job'[Setup].route = job[Setup].route
    <3>1. CASE PutCredential
      <4>1. Goto(Setup, "credentialled")
        BY <3>1 DEF PutCredential
      <4> QED BY <4>1, <1>inv DEF PairingTypeOK
    <3>2. CASE SetupDies
      <4>1. ~At(Setup, "registered") /\ ~At(Setup, "credentialled")
        BY <3>2 DEF SetupDies
      <4> QED BY <4>1
    <3>3. CASE Decline \/ Unpair \/ RetryTimer
      BY <3>3, <1>inv DEF Decline, Unpair, RetryTimer, PairingTypeOK
    <3> QED BY <1>4, <3>1, <3>2, <3>3
  <2> QED BY <2>1, <2>2, <2>3
<1>5. CASE ~Accept /\ WritePairing
  <2>1. config.route = 0 /\ job[Setup].route # 0
    BY <1>5, <1>inv DEF WritePairing, NewRouteIsUnknown, SetupPairs, RoutesAreKnown
  <2>2. Pairs
    BY <1>5, <2>1, <1>before DEF PairingNext
  <2>3. config' = [route |-> job[Setup].route, pending |-> FALSE] /\ owner' = owner
    BY <1>5, <1>alone DEF WritePairing
  <2> QED BY <2>1, <2>2, <2>3
<1>6. ASSUME NEW x \in Party, WriteTombstone(x), ~Accept PROVE (Paired \/ Pairs)'
  <2>1. config.route = job[x].route /\ x # Completer
    BY <1>6, <1>inv, WhoRemoves DEF WriteTombstone, PhonesRemoveTheirOwn, SetupRemovesWhatItFound
  <2>2. config.route # 0
    BY <1>6, <2>1, <1>inv DEF WriteTombstone, RoutesAreKnown
  <2>3. config'.route = config.route /\ owner' = owner
    BY <1>6, <2>1 DEF WriteTombstone
  <2>4. Paired
    BY <1>6, <2>2, <1>before, <1>inv DEF PairingNext, RemovalStep, NewRouteIsUnknown, SetupPairs
  <2> QED BY <2>3, <2>4
<1>7. ASSUME NEW x \in Party, RevokePhones(x), ~Accept PROVE FALSE
  BY <1>7, <1>inv DEF RevokePhones, Withdrawn, Active, PairingTypeOK
<1>8. ASSUME NEW x \in Party,
             Acknowledge(x) \/ FinishRemoval(x) \/ FetchCredential(x) \/ RetireRoute(x)
               \/ DropCredential(x),
             ~Accept
      PROVE  (Paired \/ Pairs)'
  <2>1. Paired \/ Pairs
    BY <1>8, <1>before DEF PairingNext, RemovalStep
  <2>2. config' = config /\ owner' = owner
    BY <1>8 DEF Acknowledge, FinishRemoval, FetchCredential, RetireRoute, DropCredential
  <2>3. job[Setup].step \in {"registered", "credentialled"} => job'[Setup] = job[Setup]
    BY <1>8, <1>inv
    DEF Acknowledge, FinishRemoval, FetchCredential, RetireRoute, DropCredential, GiveUp,
        PairingTypeOK
  <2> QED BY <2>1, <2>2, <2>3
<1>9. ASSUME NEW x \in Party, ForgetPairing(x), ~Accept PROVE (Paired \/ Pairs)'
  <2>1. p \in Active /\ (Paired \/ Pairs)
    BY <1>9, <1>before DEF PairingNext, RemovalStep
  <2>2. x = Setup \/ x = Completer
    BY <1>9, <1>inv, WhoRemoves DEF ForgetPairing
  <2>3. config.route \in {0, job[x].route}
    BY <1>9, <2>2, <1>inv, <1>alone
    DEF ForgetPairing, SetupRemovesWhatItFound, CompleterIsAlone
  <2>4. config.route = 0
    BY <1>9, <2>1, <2>2, <2>3, <1>inv DEF ForgetPairing, RemovalIsPending
  <2>5. Pairs
    BY <2>1, <2>4
  <2>6. job'[Setup] = job[Setup] /\ owner' = owner
    BY <1>9, <2>5, <1>inv DEF ForgetPairing, GiveUp, PairingTypeOK
  <2> QED BY <2>5, <2>6
<1>10. CASE ~Accept /\ (StartDaemon \/ StopDaemon)
  <2>1. Paired \/ Pairs
    BY <1>10, <1>before DEF PairingNext
  <2> QED BY <1>10, <2>1, <1>inv DEF StartDaemon, StopDaemon, PairingTypeOK
<1>11. ASSUME NEW r \in Route, TokensLapse(r), ~Accept PROVE (Paired \/ Pairs)'
  <2>1. Paired \/ Pairs
    BY <1>11, <1>before DEF PairingNext
  <2> QED BY <1>11, <2>1 DEF TokensLapse
<1>12. CASE UNCHANGED pairingVars
  BY <1>12, <1>inv, <1>alone DEF pairingVars, Active, ActiveMeansPaired
<1> QED
  BY <1>1, <1>2, <1>3, <1>4, <1>5, <1>6, <1>7, <1>8, <1>9, <1>10, <1>11, <1>12
  DEF PairingNext, RemovalStep

\* A step of Pairing preserves the invariant.
LEMMA PairingInvStep == PairingInv /\ [PairingNext]_pairingVars => PairingInv'
<1> SUFFICES ASSUME PairingInv, [PairingNext]_pairingVars PROVE PairingInv'
  OBVIOUS
<1>1. PairingTypeOK' /\ RoutesAreKnown'
  BY PairingTypeStep, RoutesStayKnown DEF PairingInv
<1>2. PartsArePlayed' /\ RoutesAreIssued' /\ NewRouteIsUnknown'
  BY PartsStay, RoutesStayIssued, NewRouteStaysUnknown
<1>3. SetupRemovesWhatItFound' /\ RetiredBeforeForgotten' /\ ServedUntilRetired'
  BY SetupKeepsWhatItFound, ForgottenStaysRetired, ServedStaysUntilRetired
<1>4. PhonesRemoveTheirOwn' /\ KnownToBePending'
  BY PhonesKeepToTheirOwn, KnownStaysPending
<1>5. RemovalIsPending' /\ PendingMeansWithdrawn'
  BY RemovalStaysPending, WithdrawnStaysSo
<1>6. undropped' \/ (CompleterIsAlone' /\ CredentialStands')
  BY CompleterStaysAlone, CredentialStaysStanding
<1>7. ActiveMeansPaired'
  BY ActiveStaysPaired
<1> QED BY <1>1, <1>2, <1>3, <1>4, <1>5, <1>6, <1>7 DEF PairingInv

\* config.json forgets a pairing behind its retirement: the two parties who write
\* it, a setup command and the daemon, have retired what is on disk.
LEMMA ForgottenBehindRetirement ==
  ASSUME PairingInv, [PairingNext]_pairingVars,
         config.route # 0, config'.route # config.route
  PROVE  config.route \in retired' \/ undropped
<1> USE Parties DEF At
<1>inv. /\ PairingTypeOK /\ PartsArePlayed /\ NewRouteIsUnknown /\ SetupRemovesWhatItFound
        /\ RetiredBeforeForgotten /\ PhonesRemoveTheirOwn
  BY DEF PairingInv
<1>1. ~WritePairing
  BY <1>inv DEF WritePairing, NewRouteIsUnknown, SetupPairs
<1>2. ASSUME NEW x \in Party, WriteTombstone(x) PROVE FALSE
  <2>1. config.route = job[x].route
    BY <1>2, <1>inv, WhoRemoves DEF WriteTombstone, PhonesRemoveTheirOwn, SetupRemovesWhatItFound
  <2> QED BY <1>2, <2>1 DEF WriteTombstone
<1>3. PICK x \in Party : ForgetPairing(x)
  BY <1>1, <1>2
  DEF PairingNext, RemovalStep, pairingVars, BootstrapPairing, RequestRemoval, RevokeDevice,
      Accept, Decline, PutCredential, Unpair, RetryTimer, RevokePhones, Acknowledge,
      FinishRemoval, FetchCredential, RetireRoute, DropCredential, StartDaemon, StopDaemon,
      SetupDies, TokensLapse
<1>4. job[x].route \in retired /\ retired' = retired /\ (x = Setup \/ x = Completer)
  BY <1>3, <1>inv, WhoRemoves DEF ForgetPairing, RetiredBeforeForgotten
<1>5. undropped \/ config.route = job[x].route
  BY <1>3, <1>4, <1>inv
  DEF PairingInv, ForgetPairing, SetupRemovesWhatItFound, CompleterIsAlone
<1> QED BY <1>4, <1>5

\* The invariant of the four stores and the parties at work on them holds in
\* every behaviour of pairings, removals, crashes and failures.
THEOREM PairingInvHolds == PairingSpec => []PairingInv
BY PairingInvInit, PairingInvStep, PTL DEF PairingSpec
=============================================================================
