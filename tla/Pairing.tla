------------------------------ MODULE Pairing ------------------------------
(***************************************************************************)
(* Pairing a phone with the laptop and removing it again: setup.ts,        *)
(* pairing-host.ts, the removal half of main.ts and api-server.ts, and the *)
(* setup commands pair and unpair.                                         *)
(*                                                                         *)
(* Four stores have to agree and no transaction spans them: config.json,   *)
(* the Keychain account of the host's relay credential, the devices table  *)
(* of the canonical database, and the routes the relay has retired.  Three *)
(* parties write them: the API call of a phone that removes itself, the    *)
(* daemon's background completion of a removal, and a setup command, which *)
(* is another process with a copy of the configuration of its own.         *)
(*                                                                         *)
(* A job is one of these parties at work, between two of its awaits.  Two  *)
(* assumptions on timing: the tombstone a removal begins with, a local     *)
(* file, is not overtaken by the DELETE of another party over the network; *)
(* and a pairing, which two people confirm by hand, is not confirmed while *)
(* the daemon prepares a removal or is between fetching the credential of  *)
(* an old pairing and deleting it, which takes it seconds.                 *)
(***************************************************************************)
EXTENDS Naturals, FiniteSets

CONSTANTS
  Phone,
  NoPhone,
  MaxRoutes,    \* bound: routes provisioned, hence pairings tried
  MaxStarts,    \* bound: starts of the daemon
  MaxFailures   \* bound: failures of the Keychain, the disk and the relay

ASSUME PairingConstants ==
  /\ NoPhone \notin Phone
  /\ {"setup", "completer"} \cap Phone = {}
  /\ MaxRoutes \in Nat \ {0}
  /\ MaxStarts \in Nat
  /\ MaxFailures \in Nat

VARIABLES
  config,      \* config.json on disk
  credential,  \* the route of the host credential in the Keychain, 0 if none
  device,      \* the status of each phone in the devices table
  retired,     \* routes the relay refuses
  lapsed,      \* routes whose access tokens have expired
  owner,       \* the phone each provisioned route was confirmed with
  daemon,      \* the daemon's memory
  job,         \* the parties at work on a pairing or a removal
  failures,
  cutShort,    \* a pairing failed or died after it had registered its phone
  undropped    \* a removal forgot its pairing and then kept the credential

pairingVars == <<config, credential, device, retired, lapsed, owner, daemon,
                 job, failures, cutShort, undropped>>

Route == 1 .. MaxRoutes
Setup == "setup"            \* the setup command, one at a time
Completer == "completer"    \* finishPairingRevocation of the running daemon
Party == Phone \cup {Setup, Completer}

Unpaired == [route |-> 0, pending |-> FALSE]
Idle == [step |-> "idle", route |-> 0]
Down == [up |-> FALSE, starts |-> 0, config |-> Unpaired, serving |-> 0,
         retry |-> FALSE]

PairingInit ==
  /\ config = Unpaired
  /\ credential = 0
  /\ device = [p \in Phone |-> "unknown"]
  /\ retired = {}
  /\ lapsed = {}
  /\ owner = [r \in Route |-> NoPhone]
  /\ daemon = Down
  /\ job = [x \in Party |-> Idle]
  /\ failures = 0
  /\ cutShort = FALSE
  /\ undropped = FALSE

At(x, step) == job[x].step = step
Goto(x, step) == job' = [job EXCEPT ![x].step = step]
Done(x) == job' = [job EXCEPT ![x] = Idle]
Fails == failures < MaxFailures /\ failures' = failures + 1
Active == {p \in Phone : device[p] = "active"}
Issued == {r \in Route : owner[r] # NoPhone}

-----------------------------------------------------------------------------
\* Pairing: bootstrapPairing of the setup command.

\* It refuses while config.json holds a pairing; the route is provisioned and
\* the invitation for it names the phone that will answer.
BootstrapPairing(p) ==
  /\ At(Setup, "idle")
  /\ config.route = 0
  /\ \E r \in Route \ Issued :
       /\ \A s \in Route : s < r => s \in Issued
       /\ owner' = [owner EXCEPT ![r] = p]
       /\ job' = [job EXCEPT ![Setup] = [step |-> "inviting", route |-> r]]
  /\ UNCHANGED <<config, credential, device, retired, lapsed, daemon, failures,
                 cutShort, undropped>>

\* PairingHost.accept: both codes confirmed, the phone is registered and told
\* that it is paired.  A phone still active in the table is refused.
Accept ==
  LET p == owner[job[Setup].route] IN
  /\ At(Setup, "inviting")
  /\ \A x \in Party : job[x].step \notin {"tombstone", "withdraw", "reload",
                                           "retire", "forget", "drop"}
  /\ IF device[p] = "active"
     THEN Done(Setup) /\ UNCHANGED device
     ELSE Goto(Setup, "registered") /\ device' = [device EXCEPT ![p] = "active"]
  /\ UNCHANGED <<config, credential, retired, lapsed, owner, daemon, failures,
                 cutShort, undropped>>

\* The invitation expires or is declined, or the laptop never connects.
Decline ==
  /\ At(Setup, "inviting")
  /\ Done(Setup)
  /\ UNCHANGED <<config, credential, device, retired, lapsed, owner, daemon,
                 failures, cutShort, undropped>>

\* The credential first, config.json last.  Either write may fail; the catch
\* block then deletes the credential and leaves the registered phone.
PutCredential ==
  /\ At(Setup, "registered")
  /\ \/ /\ credential' = job[Setup].route
        /\ Goto(Setup, "credentialled")
        /\ UNCHANGED <<failures, cutShort>>
     \/ /\ Fails
        /\ Done(Setup)
        /\ cutShort' = TRUE
        /\ UNCHANGED credential
  /\ UNCHANGED <<config, device, retired, lapsed, owner, daemon, undropped>>

\* Mutant: the clean-up of a failure deletes the credential of a pairing that was
\* written.
WritePairingThenCleanUp ==
  /\ At(Setup, "credentialled")
  /\ Done(Setup)
  /\ config' = [route |-> job[Setup].route, pending |-> FALSE]
  /\ \/ UNCHANGED <<credential, failures>>
     \/ Fails /\ credential' = 0
  /\ UNCHANGED <<device, retired, lapsed, owner, daemon, cutShort, undropped>>

WritePairing ==
  /\ At(Setup, "credentialled")
  /\ Done(Setup)
  /\ \/ /\ config' = [route |-> job[Setup].route, pending |-> FALSE]
        /\ UNCHANGED <<credential, failures, cutShort>>
     \/ /\ Fails
        /\ credential' = 0
        /\ cutShort' = TRUE
        /\ UNCHANGED config
  /\ UNCHANGED <<device, retired, lapsed, owner, daemon, undropped>>

-----------------------------------------------------------------------------
\* Removal: preparePairingRevocation, then completePairingRevocation.

\* The step at which a removal begins for a party that sees configuration c.
FirstStep(c, x) ==
  CASE c.route = 0 -> IF x \in Phone THEN "reload" ELSE "idle"
    [] c.route # 0 /\ ~c.pending -> "tombstone"
    [] OTHER -> "withdraw"

\* A phone asks for its own removal over the route the daemon serves; it is
\* active, for the request was authenticated in the same turn of the loop.
RequestRemoval(p) ==
  /\ daemon.up
  /\ At(p, "idle")
  /\ device[p] = "active"
  /\ daemon.serving \in Route \ retired /\ owner[daemon.serving] = p
  /\ job' = [job EXCEPT ![p] = [step |-> FirstStep(daemon.config, p),
                                route |-> daemon.config.route]]
  /\ UNCHANGED <<config, credential, device, retired, lapsed, owner, daemon,
                 failures, cutShort, undropped>>

\* exarch-setup unpair reads its own copy of config.json.
Unpair ==
  /\ At(Setup, "idle")
  /\ config.route # 0
  /\ job' = [job EXCEPT ![Setup] = [step |-> FirstStep(config, Setup),
                                    route |-> config.route]]
  /\ UNCHANGED <<config, credential, device, retired, lapsed, owner, daemon,
                 failures, cutShort, undropped>>

\* Mutant: the phone is told before its authority is withdrawn.
AnswerAfterTombstone(x) ==
  /\ At(x, "tombstone")
  /\ config' = [route |-> job[x].route, pending |-> TRUE]
  /\ Goto(x, IF x = Setup THEN "withdraw" ELSE "reload")
  /\ UNCHANGED <<credential, device, retired, lapsed, owner, daemon, failures,
                 cutShort, undropped>>

\* The tombstone is on disk before any authority is withdrawn.
WriteTombstone(x) ==
  /\ At(x, "tombstone")
  /\ \/ /\ config' = [route |-> job[x].route, pending |-> TRUE]
        /\ Goto(x, "withdraw")
        /\ UNCHANGED failures
     \/ /\ Fails
        /\ Done(x)
        /\ UNCHANGED config
  /\ UNCHANGED <<credential, device, retired, lapsed, owner, daemon, cutShort,
                 undropped>>

Withdrawn == [p \in Phone |-> IF device[p] = "active" THEN "revoked"
                                                      ELSE device[p]]

\* Mutant: a removal that leaves the devices table to the retirement of the route.
RevokeNoPhone(x) ==
  /\ At(x, "withdraw")
  /\ Goto(x, IF x = Setup THEN "fetch" ELSE "reload")
  /\ UNCHANGED <<config, credential, device, retired, lapsed, owner, daemon,
                 failures, cutShort, undropped>>

RevokePhones(x) ==
  /\ At(x, "withdraw")
  /\ device' = Withdrawn
  /\ Goto(x, IF x = Setup THEN "fetch" ELSE "reload")
  /\ UNCHANGED <<config, credential, retired, lapsed, owner, daemon, failures,
                 cutShort, undropped>>

\* The daemon takes the tombstone into its own copy and acknowledges.  The
\* completion hangs on the finish event of the response, which a phone that has
\* gone away does not let happen.
Acknowledge(p) ==
  /\ p \in Phone
  /\ At(p, "reload")
  /\ daemon' = [daemon EXCEPT !.config = config]
  /\ \/ Goto(p, "finished")
     \/ Done(p)
  /\ UNCHANGED <<config, credential, device, retired, lapsed, owner, failures,
                 cutShort, undropped>>

\* finishPairingRevocation: one at a time, and not without a pairing in memory.
FinishRemoval(p) ==
  /\ p \in Phone
  /\ At(p, "finished")
  /\ job' = [job EXCEPT
       ![p] = Idle,
       ![Completer] = IF @.step = "idle" /\ daemon.config.route # 0
                      THEN [step |-> "fetch", route |-> daemon.config.route]
                      ELSE @]
  /\ UNCHANGED <<config, credential, device, retired, lapsed, owner, daemon,
                 failures, cutShort, undropped>>

\* Mutant: the daemon tries three times and leaves the rest to its next start.
GiveUpForGood(x) ==
  IF x = Setup
  THEN Done(x) /\ UNCHANGED daemon
  ELSE (Goto(x, "fetch") \/ Done(x)) /\ UNCHANGED daemon

\* An attempt that throws ends the setup command.  The daemon tries three times
\* under revocationStarted and then again from a timer, without end.
GiveUp(x) ==
  IF x = Setup
  THEN Done(x) /\ UNCHANGED daemon
  ELSE \/ Goto(x, "fetch") /\ UNCHANGED daemon
       \/ Done(x) /\ daemon' = [daemon EXCEPT !.retry = TRUE]

RetryTimer ==
  /\ daemon.up /\ daemon.retry
  /\ daemon' = [daemon EXCEPT !.retry = FALSE]
  /\ job' = [job EXCEPT
       ![Completer] = IF @.step = "idle" /\ daemon.config.route # 0
                      THEN [step |-> "fetch", route |-> daemon.config.route]
                      ELSE @]
  /\ UNCHANGED <<config, credential, device, retired, lapsed, owner, failures,
                 cutShort, undropped>>

\* The bearer of the DELETE is whatever credential the Keychain holds then.  The
\* relay answers 401 to the credential of another route.
FetchCredential(x) ==
  /\ At(x, "fetch")
  /\ IF credential # job[x].route
     THEN GiveUp(x)
     ELSE Goto(x, "retire") /\ UNCHANGED daemon
  /\ UNCHANGED <<config, credential, device, retired, lapsed, owner, failures,
                 cutShort, undropped>>

\* Mutant: a DELETE the relay did not answer counts as done.
RetireRouteAtBest(x) ==
  /\ At(x, "retire")
  /\ Goto(x, "forget")
  /\ \/ retired' = retired \cup {job[x].route} /\ UNCHANGED failures
     \/ Fails /\ UNCHANGED retired
  /\ UNCHANGED <<config, credential, device, lapsed, owner, daemon, cutShort,
                 undropped>>

\* The relay accepts the host capability of the route itself, on a retired
\* route too, so that a repeated DELETE succeeds; never an expired one.  A
\* failure may hit the request or only its answer.
RetireRoute(x) ==
  LET r == job[x].route IN
  /\ At(x, "retire")
  /\ \/ /\ r \notin lapsed
        /\ retired' = retired \cup {r}
        /\ Goto(x, "forget")
        /\ UNCHANGED <<daemon, failures>>
     \/ /\ Fails
        /\ retired' \in {retired, IF r \in lapsed THEN retired
                                                  ELSE retired \cup {r}}
        /\ GiveUp(x)
     \/ /\ r \in lapsed
        /\ GiveUp(x)
        /\ UNCHANGED <<retired, failures>>
  /\ UNCHANGED <<config, credential, device, lapsed, owner, cutShort, undropped>>

ForgetPairing(x) ==
  /\ At(x, "forget")
  /\ \A y \in Party : ~At(y, "tombstone")
  /\ \/ /\ config' = Unpaired
        /\ Goto(x, "drop")
        /\ UNCHANGED <<daemon, failures>>
     \/ /\ Fails
        /\ GiveUp(x)
        /\ UNCHANGED config
  /\ UNCHANGED <<credential, device, retired, lapsed, owner, cutShort, undropped>>

\* The daemon forgets the pairing in its memory too and ends 1.5 s later.
DropCredential(x) ==
  /\ At(x, "drop")
  /\ \/ /\ credential' = 0
        /\ Done(x)
        /\ daemon' = IF x = Completer
                     THEN [daemon EXCEPT !.config = Unpaired]
                     ELSE daemon
        /\ UNCHANGED <<failures, undropped>>
     \/ /\ Fails
        /\ undropped' = TRUE
        /\ GiveUp(x)
        /\ UNCHANGED credential
  /\ UNCHANGED <<config, device, retired, lapsed, owner, cutShort>>

-----------------------------------------------------------------------------
\* The daemon's life, the death of a setup command, and time.

\* Mutant: a start that leaves a pending removal to its completion.
StartWithoutWithdrawal ==
  /\ ~daemon.up
  /\ daemon.starts < MaxStarts
  /\ daemon' = [up |-> TRUE, starts |-> daemon.starts + 1, config |-> config,
                serving |-> IF config.pending \/ credential # config.route
                            THEN 0 ELSE config.route,
                retry |-> FALSE]
  /\ job' = [job EXCEPT ![Completer] =
               IF config.pending THEN [step |-> "fetch", route |-> config.route]
                                 ELSE Idle]
  /\ UNCHANGED <<config, credential, device, retired, lapsed, owner, failures,
                 cutShort, undropped>>

\* A start re-asserts a pending removal before it exposes any API and takes up
\* its completion; a pairing that stands is served if its credential is there.
StartDaemon ==
  /\ ~daemon.up
  /\ daemon.starts < MaxStarts
  /\ device' = IF config.pending THEN Withdrawn ELSE device
  /\ daemon' = [up |-> TRUE, starts |-> daemon.starts + 1, config |-> config,
                serving |-> IF config.pending \/ credential # config.route
                            THEN 0 ELSE config.route,
                retry |-> FALSE]
  /\ job' = [job EXCEPT ![Completer] =
               IF config.pending THEN [step |-> "fetch", route |-> config.route]
                                 ELSE Idle]
  /\ UNCHANGED <<config, credential, retired, lapsed, owner, failures, cutShort,
                 undropped>>

StopDaemon ==
  /\ daemon.up
  /\ daemon' = [Down EXCEPT !.starts = daemon.starts]
  /\ job' = [x \in Party |-> IF x = Setup THEN job[x] ELSE Idle]
  /\ undropped' = (undropped \/ At(Completer, "drop"))
  /\ UNCHANGED <<config, credential, device, retired, lapsed, owner, failures,
                 cutShort>>

SetupDies ==
  /\ ~At(Setup, "idle")
  /\ Fails
  /\ Done(Setup)
  /\ cutShort' = (cutShort \/ At(Setup, "registered") \/ At(Setup, "credentialled"))
  /\ undropped' = (undropped \/ At(Setup, "drop"))
  /\ UNCHANGED <<config, credential, device, retired, lapsed, owner, daemon>>

\* exarch-setup revoke --device-id: the phone alone, not the pairing.
RevokeDevice(p) ==
  /\ device[p] = "active"
  /\ device' = [device EXCEPT ![p] = "revoked"]
  /\ UNCHANGED <<config, credential, retired, lapsed, owner, daemon, job,
                 failures, cutShort, undropped>>

\* Ninety days after the pairing.
TokensLapse(r) ==
  /\ Fails
  /\ r \in Issued \ lapsed
  /\ lapsed' = lapsed \cup {r}
  /\ UNCHANGED <<config, credential, device, retired, owner, daemon, job,
                 cutShort, undropped>>

RemovalStep(x) ==
  \/ WriteTombstone(x) \/ RevokePhones(x) \/ Acknowledge(x)
  \/ FinishRemoval(x) \/ FetchCredential(x) \/ RetireRoute(x)
  \/ ForgetPairing(x) \/ DropCredential(x)

PairingNext ==
  \/ \E p \in Phone : BootstrapPairing(p) \/ RequestRemoval(p) \/ RevokeDevice(p)
  \/ Accept \/ Decline \/ PutCredential \/ WritePairing
  \/ Unpair \/ RetryTimer
  \/ \E x \in Party : RemovalStep(x)
  \/ StartDaemon \/ StopDaemon \/ SetupDies
  \/ \E r \in Route : TokensLapse(r)

PairingSpec == PairingInit /\ [][PairingNext]_pairingVars

\* The daemon's timers and continuations run while it is up, as those of a setup
\* command do, and the agent that keeps the daemon alive starts it again.
PairingFairSpec ==
  /\ PairingSpec
  /\ \A x \in Party : WF_pairingVars(RemovalStep(x))
  /\ WF_pairingVars(RetryTimer)
  /\ WF_pairingVars(StartDaemon)

-----------------------------------------------------------------------------
Step == {"idle", "inviting", "registered", "credentialled", "tombstone",
         "withdraw", "reload", "finished", "fetch", "retire",
         "forget", "drop"}
Config == [route : 0 .. MaxRoutes, pending : BOOLEAN]

PairingTypeOK ==
  /\ config \in Config
  /\ credential \in 0 .. MaxRoutes
  /\ device \in [Phone -> {"unknown", "active", "revoked"}]
  /\ retired \subseteq Route /\ lapsed \subseteq Route
  /\ owner \in [Route -> Phone \cup {NoPhone}]
  /\ daemon \in [up : BOOLEAN, starts : 0 .. MaxStarts, config : Config,
                 serving : 0 .. MaxRoutes, retry : BOOLEAN]
  /\ job \in [Party -> [step : Step, route : 0 .. MaxRoutes]]
  /\ failures \in 0 .. MaxFailures
  /\ cutShort \in BOOLEAN /\ undropped \in BOOLEAN

\* While a removal is pending and the running daemon knows of it, no phone is
\* active, whoever wrote the tombstone and whatever crashed since.  (A setup
\* command that dies right after its tombstone leaves the phone its authority
\* until the daemon starts again.)
PendingMeansWithdrawn ==
  daemon.up /\ config.pending /\ daemon.config = config => Active = {}

\* config.json forgets a pairing only when the relay has retired its route: a
\* paired phone can never find a live route to a laptop that no longer knows it.
ForgottenOnlyWhenRetired ==
  [][config.route # 0 /\ config'.route # config.route
       => config.route \in retired' \/ undropped]_pairingVars

\* A pairing that stands has its credential, so that it can be served and
\* removed: no retry, crash or concurrent setup command may take it away.
PairingHasItsCredential ==
  config.route # 0 /\ config.route \notin retired
    => credential = config.route \/ undropped

\* A phone with authority over the laptop is the phone of the pairing on disk, or
\* of the one the setup command is completing: nothing else would let its owner
\* see it or remove it.  The exceptions are a pairing that was cut short between
\* the registration of its phone and its configuration, and the retry of a
\* removal that had kept its credential, which may forget the next pairing.
ActiveMeansPaired ==
  \A p \in Active : \/ config.route # 0 /\ owner[config.route] = p
                   \/ /\ job[Setup].step \in {"registered", "credentialled"}
                      /\ owner[job[Setup].route] = p
                   \/ cutShort \/ undropped

\* A removal the running daemon has taken up, whatever fails or restarts later,
\* ends with the pairing forgotten, as long as its tokens have not lapsed.
RemovalCompletes ==
  \A r \in Route :
    config = [route |-> r, pending |-> TRUE] /\ job[Completer].route = r
      ~> config.route # r \/ r \in lapsed \/ undropped \/ (~daemon.up /\ daemon.starts = MaxStarts)
============================================================================
