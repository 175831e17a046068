---------------------------- MODULE SingleWriter ----------------------------
(***************************************************************************)
(* What the daemon promises about worktrees, without leases, requests or   *)
(* a database: at any time the turns that may write to overlapping         *)
(* worktrees number at most one, and a turn that did not end cleanly       *)
(* quarantines its worktree for good, since nothing the daemon runs on its *)
(* own reconciles it.                                                      *)
(***************************************************************************)

CONSTANTS Turn, Scope, ScopeOf, Overlap

VARIABLES
  writing,      \* turns that may be writing to their worktree
  quarantined   \* turns that ended uncleanly: their worktree is closed

Contend(t, u) == <<ScopeOf[t], ScopeOf[u]>> \in Overlap

Init == writing = {} /\ quarantined = {}

Begin(t) ==
  /\ \A u \in writing \cup quarantined : ~Contend(t, u)
  /\ writing' = writing \cup {t}
  /\ UNCHANGED quarantined

End(t) ==
  /\ t \in writing
  /\ writing' = writing \ {t}
  /\ UNCHANGED quarantined

\* One turn fails to finalize, or a crash of the daemon stops all of them.
Quarantine(S) ==
  /\ S \subseteq writing
  /\ writing' = writing \ S
  /\ quarantined' = quarantined \cup S

Next ==
  \/ \E t \in Turn : Begin(t) \/ End(t)
  \/ \E S \in SUBSET Turn : Quarantine(S)

Spec == Init /\ [][Next]_<<writing, quarantined>>
==============================================================================
