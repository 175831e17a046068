----------------------------- MODULE TurnStream -----------------------------
(***************************************************************************)
(* What the coordinator is promised by startTurn, without a child, lines,  *)
(* buffers or hand-overs: the turns of a conversation run one at a time    *)
(* and in their order, each over a stream of its own that delivers what it *)
(* accepted, in order and without a gap, accepts nothing once it is        *)
(* closed, and lets the turn complete only when it was ended and has       *)
(* delivered all of it.                                                    *)
(***************************************************************************)
EXTENDS Naturals, Sequences

CONSTANTS Turn, Event   \* the turns are numbered in their order

VARIABLES
  verdict,    \* of each turn: "none", "active", "completed" or "failed"
  stream,     \* of the active turn: "none", "open", "ended" or "failed"
  accepted,   \* the events the adapter put into it
  delivered   \* the events the coordinator was given

streamVars == <<stream, accepted, delivered>>

Init ==
  /\ verdict = [t \in Turn |-> "none"]
  /\ stream = "none" /\ accepted = <<>> /\ delivered = <<>>

Begin(t) ==
  /\ \A u \in Turn : verdict[u] # "active"
  /\ verdict[t] = "none" /\ \A u \in Turn : u < t => verdict[u] # "none"
  /\ verdict' = [verdict EXCEPT ![t] = "active"]
  /\ UNCHANGED streamVars

Open ==
  /\ \E t \in Turn : verdict[t] = "active"
  /\ stream = "none" /\ stream' = "open"
  /\ UNCHANGED <<verdict, accepted, delivered>>

\* The last event may end the stream with it.
Accept(e) ==
  /\ stream = "open" /\ stream' \in {"open", "ended"}
  /\ accepted' = Append(accepted, e)
  /\ UNCHANGED <<verdict, delivered>>

Close ==
  /\ stream = "open" /\ stream' \in {"ended", "failed"}
  /\ UNCHANGED <<verdict, accepted, delivered>>

Deliver ==
  /\ Len(delivered) < Len(accepted)
  /\ delivered' = Append(delivered, accepted[Len(delivered) + 1])
  /\ UNCHANGED <<verdict, stream, accepted>>

End(t, v) ==
  /\ verdict[t] = "active"
  /\ v = "completed" => stream = "ended" /\ delivered = accepted
  /\ verdict' = [verdict EXCEPT ![t] = v]
  /\ stream' = "none" /\ accepted' = <<>> /\ delivered' = <<>>

Next ==
  \/ \E t \in Turn : Begin(t) \/ End(t, "completed") \/ End(t, "failed")
  \/ Open \/ Close \/ Deliver
  \/ \E e \in Event : Accept(e)

Spec == Init /\ [][Next]_<<verdict, streamVars>>
=============================================================================
