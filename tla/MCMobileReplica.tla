-------------------------- MODULE MCMobileReplica --------------------------
(***************************************************************************)
(* An instance of MobileReplica: what may meet in one behaviour.           *)
(***************************************************************************)
EXTENDS MobileReplica

\* Each kind as often as it occurs in a sequence.
MCBudget(events) ==
  [k \in Kind |-> Cardinality({i \in DOMAIN events : events[i] = k})]

MCBudgets == {MCBudget(events) : events \in {
  <<"open", "open", "page">>, <<"open", "page", "page">>, <<"open", "open", "fault">>,
  <<"append", "open", "page">>, <<"append", "append", "fault">>,
  <<"scene", "open">>, <<"scene", "append">>, <<"scene", "scene", "fault">>,
  <<"send", "open">>, <<"send", "append", "fault">>,
  <<"launch", "open", "fault">>, <<"launch", "append">>}}
============================================================================
