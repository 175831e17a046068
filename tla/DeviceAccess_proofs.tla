------------------------- MODULE DeviceAccess_proofs -------------------------
(***************************************************************************)
(* What pairing, removal and authentication promise, for every number of   *)
(* phones, pairings, requests, repairs, failures and starts of the daemon. *)
(*                                                                         *)
(* A signed request is carried out at most once.  The counter of a device  *)
(* plays no part in it: it starts again when the device registers anew.    *)
(* What bars a request that was accepted is either the consumed challenge  *)
(* in memory, its expiry, or that the daemon which issued the challenge is *)
(* no longer the one that runs; a sweep and a restart only ever trade one  *)
(* of these for another (AcceptedIsBarred).                                *)
(*                                                                         *)
(* That the four stores of a pairing agree, and what follows from it for a *)
(* phone that was told it is removed, rests on PairingInv.                 *)
(***************************************************************************)
EXTENDS DeviceAccess, Pairing_proofs, TLAPS

-----------------------------------------------------------------------------
\* What a step of Pairing means for the challenges: the daemon goes on, stops,
\* or starts with a number of its own.
LEMMA DaemonGoesOnStopsOrStarts ==
  ASSUME PairingTypeOK, PairingNext
  PROVE  \/ daemon'.up = daemon.up /\ daemon'.starts = daemon.starts
         \/ ~daemon'.up /\ daemon'.starts = daemon.starts
         \/ ~daemon.up /\ daemon'.up /\ daemon'.starts = daemon.starts + 1
<1>1. ASSUME NEW x \in Party, GiveUp(x)
      PROVE  daemon'.up = daemon.up /\ daemon'.starts = daemon.starts
  BY <1>1 DEF GiveUp, PairingTypeOK
<1>2. ASSUME NEW x \in Party, RemovalStep(x)
      PROVE  daemon'.up = daemon.up /\ daemon'.starts = daemon.starts
  <2>1. CASE WriteTombstone(x) \/ RevokePhones(x) \/ Acknowledge(x) \/ FinishRemoval(x)
    BY <2>1 DEF WriteTombstone, RevokePhones, Acknowledge, FinishRemoval, PairingTypeOK
  <2>2. CASE FetchCredential(x) \/ RetireRoute(x) \/ ForgetPairing(x) \/ DropCredential(x)
    BY <1>1, <2>2
    DEF FetchCredential, RetireRoute, ForgetPairing, DropCredential, PairingTypeOK
  <2> QED BY <1>2, <2>1, <2>2 DEF RemovalStep
<1>3. CASE StartDaemon
  BY <1>3 DEF StartDaemon
<1>4. CASE StopDaemon
  BY <1>4 DEF StopDaemon, Down
<1>5. CASE RetryTimer
  BY <1>5 DEF RetryTimer, PairingTypeOK
<1>6. CASE \/ Accept \/ Decline \/ PutCredential \/ WritePairing \/ Unpair \/ SetupDies
           \/ \E p \in Phone : BootstrapPairing(p) \/ RequestRemoval(p) \/ RevokeDevice(p)
           \/ \E r \in Route : TokensLapse(r)
  BY <1>6 DEF Accept, Decline, PutCredential, WritePairing, Unpair, SetupDies,
              BootstrapPairing, RequestRemoval, RevokeDevice, TokensLapse
<1> QED BY <1>2, <1>3, <1>4, <1>5, <1>6 DEF PairingNext

\* The challenge of the request can no longer be accepted by the running daemon.
Barred(i) ==
  i \in consumed \cup lapsedNonce \/ sent[i].start < daemon.starts \/ ~daemon.up

\* The inductive invariant: a request that was accepted is barred, and no request
\* is signed under a challenge of a start to come.
AcceptedIsBarred ==
  /\ accepted \in [Request -> Nat]
  /\ sent = [i \in Request |-> sent[i]]
  /\ \A i \in Request : sent[i].start \in Nat /\ sent[i].start <= daemon.starts
  /\ \A i \in Request : accepted[i] # 0 => accepted[i] = 1 /\ Signed(i) /\ Barred(i)

\* Nobody who was told that he is removed has authority.
ToldIsInactive == farewell \subseteq Phone \ Active

AccessInv == PairingInv /\ AcceptedIsBarred /\ ToldIsInactive

LEMMA AccessInit == Init => AccessInv
<1> SUFFICES ASSUME Init PROVE AccessInv
  OBVIOUS
<1>1. PairingInv
  BY PairingInvInit DEF Init
<1>2. AcceptedIsBarred
  BY PairingConstants DEF Init, PairingInit, Down, Unsigned, AcceptedIsBarred
<1>3. ToldIsInactive
  BY DEF Init, ToldIsInactive
<1> QED BY <1>1, <1>2, <1>3 DEF AccessInv

\* Registering is the way to become active, and a farewell is said when nobody is.
LEMMA ToldStaysInactive ==
  ASSUME PairingInv, ToldIsInactive, PairingNext, Access
  PROVE  ToldIsInactive'
<1>1. PairingTypeOK /\ PhonesRemoveTheirOwn
  BY DEF PairingInv
<1>2. Active' \ Registered \subseteq Active
  BY <1>1 DEF Active, Registered, PairingTypeOK
<1>3. ASSUME NEW p \in Phone, At(p, "reload"), job'[p].step = "finished"
      PROVE  Active' = {}
  <2>1. Active = {}
    BY <1>1, <1>3 DEF PhonesRemoveTheirOwn
  <2>2. Active' \subseteq Active
    <3>1. ~Accept
      BY <1>3, Parties DEF Accept, At
    <3> QED BY <1>1, <3>1, ActiveByRegistration
  <2> QED BY <2>1, <2>2
<1> QED BY <1>2, <1>3 DEF Access, ToldIsInactive

LEMMA AccessStep == AccessInv /\ [Next]_vars => AccessInv'
<1> SUFFICES ASSUME AccessInv, [Next]_vars PROVE AccessInv'
  OBVIOUS
<1> USE DEF AccessInv
<1>types. daemon.starts \in Nat /\ daemon.up \in BOOLEAN
  BY PairingConstants DEF PairingInv, PairingTypeOK
<1>pairing. PairingTypeOK
  BY DEF PairingInv
<1>quiet. UNCHANGED <<pairingVars, farewell>> => PairingInv' /\ ToldIsInactive'
  BY PairingInvStep DEF pairingVars, ToldIsInactive, Active
<1>1. ASSUME PairingNext, Access PROVE AccessInv'
  <2>1. PairingInv' /\ ToldIsInactive'
    BY <1>1, PairingInvStep, ToldStaysInactive
  <2>2. AcceptedIsBarred'
    <3>1. CASE daemon'.up = daemon.up /\ daemon'.starts = daemon.starts
      BY <1>1, <3>1 DEF Access, AcceptedIsBarred, Barred, Signed
    <3>2. CASE ~daemon'.up /\ daemon'.starts = daemon.starts
      BY <1>1, <3>2 DEF Access, AcceptedIsBarred, Barred, Signed
    <3>3. CASE ~daemon.up /\ daemon'.up /\ daemon'.starts = daemon.starts + 1
      <4>1. sent' = sent /\ accepted' = accepted
        BY <1>1 DEF Access
      <4>2. \A i \in Request : sent[i].start \in Nat /\ sent[i].start < daemon'.starts
        BY <1>types, <3>3 DEF AcceptedIsBarred
      <4>3. daemon'.starts \in Nat
        BY <1>types, <3>3
      <4> QED BY <4>1, <4>2, <4>3 DEF AcceptedIsBarred, Barred, Signed
    <3> QED BY <1>1, <1>pairing, <3>1, <3>2, <3>3, DaemonGoesOnStopsOrStarts
  <2> QED BY <2>1, <2>2
<1>2. ASSUME NEW i \in Request, NEW d \in Device, Sign(i, d) PROVE AccessInv'
  <2>1. ~Signed(i) /\ accepted[i] = 0
    BY <1>2 DEF Sign, AcceptedIsBarred
  <2>2. sent' = [sent EXCEPT ![i] = sent'[i]] /\ sent'[i].start = daemon.starts
    BY <1>2 DEF Sign, AcceptedIsBarred
  <2>3. UNCHANGED <<daemon, accepted, consumed, lapsedNonce>>
    BY <1>2 DEF Sign, pairingVars
  <2>4. AcceptedIsBarred'
    BY <2>1, <2>2, <2>3, <1>types DEF AcceptedIsBarred, Barred, Signed
  <2> QED BY <1>2, <1>quiet, <2>4 DEF Sign
<1>3. ASSUME NEW i \in Request, ChallengeExpires(i) PROVE AccessInv'
  <2>1. AcceptedIsBarred'
    BY <1>3 DEF ChallengeExpires, pairingVars, AcceptedIsBarred, Barred, Signed
  <2> QED BY <1>3, <1>quiet, <2>1 DEF ChallengeExpires
<1>4. ASSUME NEW i \in Request, VerifyRequest(i) PROVE AccessInv'
  <2>1. CASE Verifies(i)
    <3>1. accepted[i] = 0
      BY <1>4, <1>types, <2>1
      DEF VerifyRequest, Verifies, Replayed, SweepConsumed, AcceptedIsBarred, Barred
    <3>2. AcceptedIsBarred'
      BY <1>4, <2>1, <3>1
      DEF VerifyRequest, SweepConsumed, pairingVars, AcceptedIsBarred, Barred, Signed
    <3> QED BY <1>4, <1>quiet, <3>2 DEF VerifyRequest
  <2>2. CASE ~Verifies(i)
    <3>1. AcceptedIsBarred'
      BY <1>4, <2>2
      DEF VerifyRequest, SweepConsumed, pairingVars, AcceptedIsBarred, Barred, Signed
    <3> QED BY <1>4, <1>quiet, <3>1 DEF VerifyRequest
  <2> QED BY <2>1, <2>2
<1>5. CASE RepairLocalDevice
  <2>1. AcceptedIsBarred'
    BY <1>5 DEF RepairLocalDevice, pairingVars, AcceptedIsBarred, Barred, Signed
  <2> QED BY <1>5, <1>quiet, <2>1 DEF RepairLocalDevice
<1>6. CASE UNCHANGED vars
  <2>1. AcceptedIsBarred'
    BY <1>6 DEF vars, accessVars, pairingVars, AcceptedIsBarred, Barred, Signed
  <2> QED BY <1>6, <1>quiet, <2>1 DEF vars, accessVars
<1> QED
  BY <1>1, <1>2, <1>3, <1>4, <1>5, <1>6 DEF Next

LEMMA AccessInvHolds == Spec => []AccessInv
BY AccessInit, AccessStep, PTL DEF Spec

\* Every variable of the pairing keeps its type, whatever fails or dies: the
\* configuration, the Keychain, the daemon and the jobs name routes or none, and
\* the relay retires nothing else.
THEOREM PairingTypeCorrect == Spec => []PairingTypeOK
<1>1. AccessInv => PairingTypeOK
  BY DEF AccessInv, PairingInv
<1> QED BY <1>1, AccessInvHolds, PTL

\* verifyRequest accepts a signed request at most once, over any number of
\* deliveries, sweeps, registrations, repairs and restarts.
THEOREM RequestsAcceptedOnce == Spec => []AcceptedOnce
<1>1. AccessInv => AcceptedOnce
  BY DEF AccessInv, AcceptedIsBarred, AcceptedOnce
<1> QED BY <1>1, AccessInvHolds, PTL

\* A pending removal that the running daemon knows of has left no phone its
\* authority: preparePairingRevocation and the start of the daemon see to it, in
\* every interleaving of phones, setup commands, crashes and failures.
THEOREM PendingIsWithdrawn == Spec => []PendingMeansWithdrawn
<1>1. AccessInv => PendingMeansWithdrawn
  BY DEF AccessInv, PairingInv
<1> QED BY <1>1, AccessInvHolds, PTL

\* The Keychain holds the credential of the pairing in config.json: nobody drops
\* it while the pairing stands, unless a removal had failed to drop its own.
THEOREM PairingKeepsItsCredential == Spec => []PairingHasItsCredential
<1>1. AccessInv => PairingHasItsCredential
  BY DEF AccessInv, PairingInv, CredentialStands, PairingHasItsCredential
<1> QED BY <1>1, AccessInvHolds, PTL

\* A phone that the devices table calls active is the one config.json is paired
\* with, or the one a setup command is about to write there.
THEOREM ActiveIsPaired == Spec => []ActiveMeansPaired
<1>1. AccessInv => ActiveMeansPaired
  BY DEF AccessInv, PairingInv
<1> QED BY <1>1, AccessInvHolds, PTL

\* config.json forgets a pairing only behind the retirement of its route at the
\* relay, however many parties remove it at a time.
THEOREM ForgottenAfterRetirement == Spec => ForgottenOnlyWhenRetired
<1>1. AccessInv /\ [Next]_vars =>
        [config.route # 0 /\ config'.route # config.route
           => config.route \in retired' \/ undropped]_pairingVars
  <2> SUFFICES ASSUME AccessInv, [Next]_vars, config.route # 0, config'.route # config.route
               PROVE  config.route \in retired' \/ undropped
    OBVIOUS
  <2>1. [PairingNext]_pairingVars
    BY DEF Next, vars, Sign, ChallengeExpires, VerifyRequest, RepairLocalDevice
  <2> QED BY <2>1, ForgottenBehindRetirement DEF AccessInv
<1> QED BY <1>1, AccessInvHolds, PTL DEF Spec, ForgottenOnlyWhenRetired

\* A phone that was told it is removed is not obeyed: a request it signed before
\* is refused when it arrives, because the farewell follows the withdrawal.
THEOREM FarewellIsFinal == Spec => NothingAfterFarewell
<1>1. AccessInv /\ [Next]_vars =>
        [\A i \in Request : accepted'[i] # accepted[i]
                             => sent[i].device \notin farewell]_vars
  <2> SUFFICES ASSUME AccessInv, Next, NEW i \in Request, accepted'[i] # accepted[i]
               PROVE  sent[i].device \notin farewell
    OBVIOUS
  <2>1. VerifyRequest(i) /\ Verifies(i)
    <3>1. PICK j \in Request : VerifyRequest(j) /\ Verifies(j)
      BY DEF Next, Access, Sign, ChallengeExpires, VerifyRequest, RepairLocalDevice
    <3>2. accepted' = [accepted EXCEPT ![j] = @ + 1]
      BY <3>1 DEF VerifyRequest
    <3>3. i = j
      BY <3>2 DEF AccessInv, AcceptedIsBarred
    <3> QED BY <3>1, <3>3
  <2>2. IsActive(sent[i].device)
    BY <2>1 DEF Verifies
  <2> QED BY <2>2 DEF IsActive, AccessInv, ToldIsInactive
<1> QED BY <1>1, AccessInvHolds, PTL DEF Spec, NothingAfterFarewell
=============================================================================
