---------------------------- MODULE MCApprovals ----------------------------
(***************************************************************************)
(* Instances of Approvals: a1 belongs to a turn of Claude, a2 and a3 to    *)
(* one of Codex or Hermes, and a3 offers no denial.                        *)
(***************************************************************************)
EXTENDS Approvals

CONSTANTS a1, a2, a3, claudeTurn, otherTurn

MCTurnOf == [a \in Approval |-> IF a = a1 THEN claudeTurn ELSE otherTurn]
MCDeniable == Approval \ {a3}
============================================================================
