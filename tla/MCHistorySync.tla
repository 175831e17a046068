--------------------------- MODULE MCHistorySync ---------------------------
(***************************************************************************)
(* Instances of HistorySync: the first two messages have the same text.  A *)
(* behaviour has a fault, and beside it a handoff or an operation that     *)
(* waits beside the full refreshes.                                        *)
(***************************************************************************)
EXTENDS HistorySync

MCClass == [m \in Message |-> IF m <= 2 THEN 1 ELSE m]
MCNearby == {m \in Message : m <= 2}

MCBudget(s, f, w) == [switches |-> s, faults |-> f, waiting |-> w]
MCBudgets == {MCBudget(1, 1, 0), MCBudget(0, 1, 1)}
MCFaultless == {MCBudget(1, 0, 1)}
============================================================================
