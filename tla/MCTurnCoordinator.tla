-------------------------- MODULE MCTurnCoordinator --------------------------
(***************************************************************************)
(* Instances of TurnCoordinator.  Requests of the first conversation carry *)
(* one clientMessageId (a client that sends its message again while the    *)
(* daemon still works on it, or after a crash); r3 carries another body.   *)
(* r4 belongs to a second conversation, whose project shares the worktree  *)
(* of the first.                                                           *)
(***************************************************************************)
EXTENDS TurnCoordinator, TLC

CONSTANTS r1, r2, r3, r4, c1, c2, p1, p2, m1, b1, b2, codex, claude, s1

MCConvOf == [r \in Request |-> IF r = r4 THEN c2 ELSE c1]
MCMessageOf == [r \in Request |-> m1]
MCBodyOf == [r \in Request |-> IF r = r3 THEN b2 ELSE b1]
MCProjectOf == [c \in Conversation |-> IF c = c2 THEN p2 ELSE p1]
MCSwitchConv == [s \in Switch |-> c1]
MCOverlap == Project \X Project

ProviderSymmetry == Permutations(Provider)
==============================================================================
