---------------------------- MODULE DeviceAccess ----------------------------
(***************************************************************************)
(* The authentication of API requests (device-auth.ts) over the pairings   *)
(* of Pairing: a device signs a request under a challenge of the running   *)
(* daemon, and what it signed may reach the daemon late, again, or after   *)
(* the device was removed, registered anew, or the daemon was restarted.   *)
(* The Mac's own client is a device too, which exarch-setup registers, and *)
(* repairs under its old identifier (local-device.ts).                     *)
(*                                                                         *)
(* verifyRequest has no await: each delivery is one step.  The window on   *)
(* the time of signing is as long as a challenge lives and begins later,   *)
(* so that an expired challenge stands for both.                           *)
(***************************************************************************)
EXTENDS Pairing

CONSTANTS
  Mac,
  Request,     \* bound: the signed requests
  MaxRepairs   \* bound: repairs of the Mac's identity

ASSUME AccessConstants ==
  /\ Mac \notin Phone \cup {NoPhone}
  /\ MaxRepairs \in Nat

VARIABLES
  counter,    \* the last counter accepted of each device (devices.last_counter)
  key,        \* the signing key each device is registered with, by generation
  sent,       \* the requests signed so far
  lapsedNonce,\* the requests whose challenge has expired
  consumed,   \* the consumed challenges in the daemon's memory
  accepted,   \* how many times each request was accepted
  repairs,
  farewell    \* phones that were told they are removed, until they pair again

accessVars == <<counter, key, sent, lapsedNonce, consumed, accepted, repairs,
                farewell>>
vars == <<pairingVars, accessVars>>

Device == Phone \cup {Mac}
Unsigned == [device |-> Mac, start |-> 0, counter |-> 0, key |-> 0]

IsActive(d) == d \notin Phone \ Active
Signed(i) == sent[i].start # 0

Init ==
  /\ PairingInit
  /\ counter = [d \in Device |-> 0]
  /\ key = [d \in Device |-> 0]
  /\ sent = [i \in Request |-> Unsigned]
  /\ lapsedNonce = {}
  /\ consumed = {}
  /\ accepted = [i \in Request |-> 0]
  /\ repairs = 0
  /\ farewell = {}

\* registerDevice starts the counter of the device again, also of a device that
\* was registered before; a phone brings new keys to every pairing.
Registered == {p \in Phone : device[p] # "active" /\ device'[p] = "active"}

\* What a step of Pairing means here: the registrations among it, and the
\* challenges that a start of the daemon forgets together with their secret.
Access ==
  /\ counter' = [d \in Device |-> IF d \in Registered THEN 0 ELSE counter[d]]
  /\ key' = [d \in Device |-> IF d \in Registered THEN key[d] + 1 ELSE key[d]]
  /\ consumed' = IF daemon'.up = daemon.up THEN consumed ELSE {}
  /\ farewell' = (farewell \ Registered)
                   \cup {p \in Phone : At(p, "reload") /\ job'[p].step = "finished"}
  /\ UNCHANGED <<sent, lapsedNonce, accepted, repairs>>

\* issueChallenge, and the client signs; its counter rises with every request
\* it signs under one key.
Sign(i, d) ==
  /\ daemon.up
  /\ ~Signed(i)
  /\ IsActive(d)
  /\ sent' = [sent EXCEPT ![i] =
       [device |-> d, start |-> daemon.starts, key |-> key[d],
        counter |-> 1 + Cardinality({j \in Request : Signed(j)
                          /\ sent[j].device = d /\ sent[j].key = key[d]})]]
  /\ UNCHANGED <<pairingVars, counter, key, lapsedNonce, consumed, accepted,
                 repairs, farewell>>

ChallengeExpires(i) ==
  /\ daemon.up /\ Signed(i) /\ sent[i].start = daemon.starts
  /\ i \notin lapsedNonce
  /\ lapsedNonce' = lapsedNonce \cup {i}
  /\ UNCHANGED <<pairingVars, counter, key, sent, consumed, accepted, repairs,
                 farewell>>

SweepConsumed == consumed \ lapsedNonce

\* Mutant: the counter alone is to keep a request from being carried out again.
NeverReplayed(i) == FALSE

Replayed(i) == i \in SweepConsumed

\* The checks of verifyRequest after the sweep, in its order.
Verifies(i) ==
  LET q == sent[i] IN
  /\ ~Replayed(i)
  /\ i \notin lapsedNonce
  /\ IsActive(q.device)
  /\ q.counter > counter[q.device]
  /\ q.key = key[q.device]

\* A delivery, of which a request may have any number.  The challenge of an
\* earlier start has the tag of another secret.
VerifyRequest(i) ==
  LET q == sent[i] IN
  /\ daemon.up
  /\ Signed(i)
  /\ q.start = daemon.starts
  /\ IF Verifies(i)
     THEN /\ counter' = [counter EXCEPT ![q.device] = q.counter]
          /\ consumed' = SweepConsumed \cup {i}
          /\ accepted' = [accepted EXCEPT ![i] = @ + 1]
     ELSE /\ consumed' = SweepConsumed
          /\ UNCHANGED <<counter, accepted>>
  /\ UNCHANGED <<pairingVars, key, sent, lapsedNonce, repairs, farewell>>

\* repairLocalDevice revokes and registers in one run of the setup command, for
\* a new signing key or for the old one with a new approval key.
RepairLocalDevice ==
  /\ At(Setup, "idle")
  /\ repairs < MaxRepairs
  /\ repairs' = repairs + 1
  /\ counter' = [counter EXCEPT ![Mac] = 0]
  /\ \E k \in {key[Mac], key[Mac] + 1} : key' = [key EXCEPT ![Mac] = k]
  /\ UNCHANGED <<pairingVars, sent, lapsedNonce, consumed, accepted, farewell>>

Next ==
  \/ PairingNext /\ Access
  \/ \E i \in Request : \/ \E d \in Device : Sign(i, d)
                        \/ ChallengeExpires(i)
                        \/ VerifyRequest(i)
  \/ RepairLocalDevice

Spec == Init /\ [][Next]_vars

\* The fairness of Pairing, for the steps that take part here.
FairSpec ==
  /\ Spec
  /\ \A x \in Party : WF_vars(RemovalStep(x) /\ Access)
  /\ WF_vars(RetryTimer /\ Access)
  /\ WF_vars(StartDaemon /\ Access)

-----------------------------------------------------------------------------
\* A signed request is carried out at most once, however often and whenever it
\* arrives: also after a sweep, after a restart of the daemon, and after a
\* repair that starts the counter again under the same key.
AcceptedOnce == \A i \in Request : accepted[i] <= 1

\* A phone that was told it is removed is never obeyed again, not even for a
\* request it signed before and that arrives late, until it pairs anew.
NothingAfterFarewell ==
  [][\A i \in Request : accepted'[i] # accepted[i]
                          => sent[i].device \notin farewell]_vars
=============================================================================
