------------------------ MODULE MCProviderAdapters ------------------------
(***************************************************************************)
(* An instance of ProviderAdapters: for each provider two turns, and one   *)
(* turn with more lines for those whose child replies to requests.         *)
(***************************************************************************)
EXTENDS ProviderAdapters

CONSTANTS q1

Budget(p, turns, n, unread) ==
  [provider |-> p, turns |-> turns, lines |-> n, wire |-> unread]

MCBudgets == {Budget("codex", 2, 1, 2), Budget("codex", 1, 3, 2),
              Budget("hermes", 2, 1, 1), Budget("hermes", 1, 3, 2),
              Budget("claude", 2, 2, 2)}
=============================================================================
