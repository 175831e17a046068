--------------------------- MODULE WorkspaceLeases ---------------------------
(***************************************************************************)
(* The table workspace_leases of the canonical store: one row per turn     *)
(* that holds a worktree.  Every statement here is one SQLite transaction  *)
(* and therefore one step.                                                 *)
(*                                                                         *)
(* Wall-clock time is abstracted: a row is "live" until its expires_at     *)
(* passes and "stale" from then on.  A heartbeat only moves expires_at of  *)
(* a live row (a stale one makes it throw), so no step leads back from     *)
(* "stale" to "live".  All leases are mutating: no caller asks for a       *)
(* read-only one.  The operation that deletes a stale row after a          *)
(* reconciliation is left out: nothing in the daemon calls it.             *)
(***************************************************************************)

CONSTANTS
  Turn,      \* turn ids
  Scope,     \* canonical worktree roots (or plain directories) leases are keyed by
  ScopeOf,   \* [Turn -> Scope]: where a turn works
  Overlap    \* pairs of scopes that are the same worktree or nested paths

VARIABLE lease   \* [Turn -> LeaseState]

LeaseState == {"none", "live", "stale"}

Held(t) == lease[t] # "none"

Contend(t, u) == <<ScopeOf[t], ScopeOf[u]>> \in Overlap

Init == lease = [t \in Turn |-> "none"]

\* A mutated Acquire: stale rows no longer conflict.
AcquireIgnoringStale(t) ==
  /\ \A u \in Turn : lease[u] = "live" => ~Contend(t, u)
  /\ lease' = [lease EXCEPT ![t] = "live"]

\* acquireWorkspaceLease: any conflicting row refuses the new one, stale or not.
Acquire(t) ==
  /\ \A u \in Turn : Held(u) => ~Contend(t, u)
  /\ lease' = [lease EXCEPT ![t] = "live"]

\* expires_at passes before the next heartbeat moves it.
Expire(t) ==
  /\ lease[t] = "live"
  /\ lease' = [lease EXCEPT ![t] = "stale"]

\* releaseWorkspaceLease: deletes the row by id and owner, without looking at
\* expires_at (finalize looked at it before the checkpoint it awaited).
Release(t) ==
  /\ Held(t)
  /\ lease' = [lease EXCEPT ![t] = "none"]

\* Two rows of the table never cover overlapping worktrees, whatever expired,
\* was released or was reconciled in between.
LeasesExclusive ==
  \A t, u \in Turn : t # u /\ Held(t) /\ Held(u) => ~Contend(t, u)
==============================================================================
