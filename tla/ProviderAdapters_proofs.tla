----------------------- MODULE ProviderAdapters_proofs -----------------------
(***************************************************************************)
(* The adapters deliver what they accept, in order and in full, for every  *)
(* number of turns, limit and budget, as TurnStream promises (Refinement), *)
(* and their pending approvals are of the active turn.                     *)
(*                                                                         *)
(* Three invariants.  QueueInv says where the accepted events are: taken,  *)
(* handed over, buffered, or dropped by a failure, in that order.          *)
(* AdapterInv has the types and relates the turn to its queue and the      *)
(* child.  OwnInv says whose the events are: what the child works on, what *)
(* it wrote and what was accepted is of the turn or of one that is stray.  *)
(* QueueMoves, WireMoves and RunningMoves reduce a step of any adapter to  *)
(* what it does to the queue of the turn, the lines and the native turns.  *)
(***************************************************************************)
EXTENDS ProviderAdapters, SequenceTheorems, FiniteSetTheorems, TLAPS

LineType == {l \in Event : l.kind = "ask" => l.ask \in Ask}
Events == Seq(LineType)
QueueType ==
  [state : {"none", "open", "ended", "failed"}, items : Events, hand : Events,
   waits : BOOLEAN]

-----------------------------------------------------------------------------
\* The queue.

\* What was accepted is what was taken, handed over, buffered and dropped, and
\* nothing is dropped unless the queue has failed.
Accounted ==
  \E dropped \in Events :
    /\ pushed = got \o (queue.hand \o (queue.items \o dropped))
    /\ queue.state # "failed" => dropped = <<>>

QueueInv ==
  /\ queue \in QueueType
  /\ pushed \in Events /\ got \in Events
  /\ Len(queue.items) <= MaxBuffered /\ Len(queue.hand) <= 1
  /\ queue.waits => queue.hand = <<>> /\ queue.items = <<>>
  /\ queue.state = "none" =>
       queue.hand = <<>> /\ queue.items = <<>> /\ pushed = <<>> /\ got = <<>>
  /\ Accounted

LEMMA NoEvents == <<>> \in Events /\ Len(<<>>) = 0 /\ \A s \in Events : s \o <<>> = s /\ <<>> \o s = s
BY EmptySeq, ConcatEmptySeq DEF Events

LEMMA Concatenation ==
  /\ \A s, t \in Events : s \o t \in Events
  /\ \A s, t, u \in Events : (s \o t) \o u = s \o (t \o u)
<1>1. \A s, t \in Events : s \o t \in Events
  BY ConcatProperties DEF Events
<1>2. ASSUME NEW s \in Events, NEW t \in Events, NEW u \in Events
      PROVE  (s \o t) \o u = s \o (t \o u)
  BY ConcatAssociative DEF Events
<1> QED BY <1>1, <1>2

LEMMA Association ==
  ASSUME NEW s \in Events, NEW t \in Events, NEW u \in Events
  PROVE  (s \o t) \o u = s \o (t \o u)
BY ConcatAssociative DEF Events

LEMMA Regroup ==
  ASSUME NEW a \in Events, NEW b \in Events, NEW c \in Events, NEW d \in Events
  PROVE  (a \o (b \o c)) \o d = a \o (b \o (c \o d))
<1> DEFINE bc == b \o c
<1>1. bc \in Events
  BY Concatenation
<1>2. bc \o d = b \o (c \o d)
  BY Association
<1>3. (a \o bc) \o d = a \o (bc \o d)
  <2> HIDE DEF bc
  <2> QED BY <1>1, Association
<1> QED BY <1>2, <1>3

\* The same as one predicate, to be instantiated with what the queue holds.
Regrouped(a, b, c, d) == (a \o (b \o c)) \o d = a \o (b \o (c \o d))

LEMMA AllRegroup == \A a, b, c, d \in Events : Regrouped(a, b, c, d)
BY Regroup DEF Regrouped

Associated(s, t, u) == (s \o t) \o u = s \o (t \o u)

LEMMA AllAssociate == \A s, t, u \in Events : Associated(s, t, u)
BY Association DEF Associated

LEMMA Appending ==
  ASSUME NEW s \in Events, NEW e \in LineType
  PROVE  /\ Append(s, e) \in Events /\ Append(s, e) = s \o <<e>>
         /\ Len(Append(s, e)) = Len(s) + 1 /\ Len(s) \in Nat
         /\ <<e>> \in Events
<1>1. Append(s, e) \in Events /\ Len(Append(s, e)) = Len(s) + 1
  BY AppendProperties DEF Events
<1>2. Append(s, e) = s \o <<e>>
  BY AppendIsConcat DEF Events
<1>3. Len(s) \in Nat /\ <<e>> \in Events
  BY LenProperties DEF Events
<1> QED BY <1>1, <1>2, <1>3

LEMMA QueueTypes ==
  ASSUME QueueInv
  PROVE  /\ queue.hand \in Events /\ queue.items \in Events
         /\ queue.state \in {"none", "open", "ended", "failed"} /\ queue.waits \in BOOLEAN
BY DEF QueueInv, QueueType

LEMMA EmptyQueue ==
  ASSUME queue' \in {NoQueue, NewQueue}, pushed' = <<>>, got' = <<>>
  PROVE  QueueInv'
<1>1. queue' \in QueueType /\ queue'.hand = <<>> /\ queue'.items = <<>>
  <2>1. NoQueue \in QueueType /\ NoQueue.hand = <<>> /\ NoQueue.items = <<>>
    BY NoEvents DEF NoQueue, QueueType
  <2>2. NewQueue \in QueueType /\ NewQueue.hand = <<>> /\ NewQueue.items = <<>>
    BY <2>1 DEF NewQueue, QueueType
  <2> QED BY <2>1, <2>2
<1>2. Accounted'
  BY <1>1, NoEvents DEF Accounted
<1>3. queue'.state # "failed" /\ ~queue'.waits
  BY DEF NoQueue, NewQueue
<1> QED BY <1>1, <1>2, NoEvents, StreamConstants DEF QueueInv

LEMMA EndKeeps ==
  ASSUME QueueInv, QueueEnds
  PROVE  QueueInv'
<1>1. CASE queue.state # "open"
  BY <1>1 DEF QueueEnds, End, QueueInv, Accounted
<1>2. CASE queue.state = "open"
  <2>1. queue' = [queue EXCEPT !.state = "ended", !.waits = FALSE]
    BY <1>2 DEF QueueEnds, End
  <2>2. /\ queue' \in QueueType /\ queue'.hand = queue.hand /\ queue'.items = queue.items
        /\ queue'.state = "ended" /\ queue'.waits = FALSE
    BY <2>1 DEF QueueInv, QueueType
  <2> QED BY <1>2, <2>2 DEF QueueEnds, QueueInv, Accounted
<1> QED BY <1>1, <1>2

LEMMA FailKeeps ==
  ASSUME QueueInv, QueueFails
  PROVE  QueueInv'
<1>1. CASE queue.state # "open"
  BY <1>1 DEF QueueFails, Fail, QueueInv, Accounted
<1>2. CASE queue.state = "open"
  <2>1. queue' = [queue EXCEPT !.state = "failed", !.waits = FALSE, !.items = <<>>]
    BY <1>2 DEF QueueFails, Fail
  <2>2. /\ queue' \in QueueType /\ queue'.hand = queue.hand /\ queue'.items = <<>>
        /\ queue'.state = "failed" /\ queue'.waits = FALSE
    BY <2>1, NoEvents DEF QueueInv, QueueType
  <2>3. PICK dropped \in Events :
          pushed = got \o (queue.hand \o (queue.items \o dropped))
    BY DEF QueueInv, Accounted
  <2>4. queue.items \o dropped \in Events
    BY <2>3, QueueTypes, Concatenation
  <2>5. pushed = got \o (queue.hand \o (<<>> \o (queue.items \o dropped)))
    BY <2>3, <2>4, NoEvents
  <2>6. Accounted'
    BY <2>2, <2>4, <2>5 DEF QueueFails, Accounted
  <2> QED BY <2>2, <2>6, NoEvents, StreamConstants DEF QueueFails, QueueInv
<1> QED BY <1>1, <1>2

LEMMA PushKeeps ==
  ASSUME QueueInv, NEW e \in LineType, Pushes(e)
  PROVE  QueueInv'
<1> USE QueueTypes
<1>1. CASE queue.state # "open"
  BY <1>1 DEF Pushes, Push, QueueInv, Accounted
<1>2. CASE queue.state = "open" /\ queue.waits
  <2>1. queue' = [queue EXCEPT !.hand = <<e>>, !.waits = FALSE] /\ pushed' = Append(pushed, e)
    BY <1>2 DEF Pushes, Push
  <2>2. <<e>> \in Events /\ Len(<<e>>) = 1
    BY DEF Events
  <2>3. /\ queue' \in QueueType /\ queue'.hand = <<e>> /\ queue'.items = <<>>
        /\ queue'.state = "open" /\ queue'.waits = FALSE
    BY <1>2, <2>1, <2>2, NoEvents DEF QueueInv, QueueType
  <2>4. pushed = got
    BY <1>2, NoEvents DEF QueueInv, Accounted
  <2>5. pushed' = got \o <<e>> /\ pushed' \in Events
    BY <2>1, <2>4, Appending DEF QueueInv
  <2>6. Accounted'
    BY <2>2, <2>3, <2>5, NoEvents DEF Pushes, Accounted
  <2> QED BY <2>2, <2>3, <2>5, <2>6, NoEvents, StreamConstants DEF Pushes, QueueInv
<1>3. CASE queue.state = "open" /\ ~queue.waits /\ Full(queue)
  BY <1>3, FailKeeps DEF Pushes, Push, QueueFails
<1>4. CASE queue.state = "open" /\ ~queue.waits /\ ~Full(queue)
  <2>1. queue' = [queue EXCEPT !.items = Append(@, e)] /\ pushed' = Append(pushed, e)
    BY <1>4 DEF Pushes, Push
  <2>2. /\ Append(queue.items, e) \in Events
        /\ Append(queue.items, e) = queue.items \o <<e>>
        /\ Len(Append(queue.items, e)) = Len(queue.items) + 1
        /\ Append(pushed, e) \in Events /\ Append(pushed, e) = pushed \o <<e>>
        /\ <<e>> \in Events /\ Len(queue.items) \in Nat
    BY Appending DEF QueueInv
  <2>3. /\ queue' \in QueueType /\ queue'.hand = queue.hand
        /\ queue'.items = Append(queue.items, e)
        /\ queue'.state = "open" /\ queue'.waits = FALSE
    BY <1>4, <2>1, <2>2 DEF QueueInv, QueueType
  <2>4. pushed = got \o (queue.hand \o queue.items)
    BY <1>4, NoEvents DEF QueueInv, Accounted
  <2>5. (got \o (queue.hand \o queue.items)) \o <<e>> = got \o (queue.hand \o (queue.items \o <<e>>))
    <3>1. got \in Events /\ queue.hand \in Events /\ queue.items \in Events
      BY DEF QueueInv
    <3> DEFINE one == <<e>>
    <3>2. one \in Events
      BY <2>2
    <3> HIDE DEF one
    <3>3. Regrouped(got, queue.hand, queue.items, one)
      BY ONLY <3>1, <3>2, AllRegroup
    <3> QED BY ONLY <3>3 DEF Regrouped, one
  <2>6. Accounted'
    BY <2>1, <2>2, <2>3, <2>4, <2>5, NoEvents DEF Pushes, Accounted
  <2>7. Len(queue'.items) <= MaxBuffered
    BY <1>4, <2>2, <2>3, StreamConstants DEF Full
  <2> QED BY <2>1, <2>2, <2>3, <2>6, <2>7 DEF Pushes, QueueInv
<1> QED BY <1>1, <1>2, <1>3, <1>4

\* Hermes pushes its last event and ends the queue.
PushesLast(e) ==
  LET q == queue IN
  /\ queue' = End(Push(q, e))
  /\ pushed' = IF q.state = "open" /\ (q.waits \/ ~Full(q)) THEN Append(pushed, e) ELSE pushed
  /\ UNCHANGED got

LEMMA EndAfterPush ==
  ASSUME QueueInv, NEW e \in LineType, PushesLast(e)
  PROVE  QueueInv'
<1> USE QueueTypes
<1>1. CASE queue.state # "open"
  BY <1>1 DEF PushesLast, Push, End, QueueInv, Accounted
<1>2. CASE queue.state = "open" /\ queue.waits
  <2>1. queue' = [queue EXCEPT !.hand = <<e>>, !.waits = FALSE, !.state = "ended"]
    BY <1>2 DEF PushesLast, Push, End, QueueInv, QueueType
  <2>2. <<e>> \in Events /\ Len(<<e>>) = 1
    BY DEF Events
  <2>3. /\ queue' \in QueueType /\ queue'.hand = <<e>> /\ queue'.items = <<>>
        /\ queue'.state = "ended" /\ queue'.waits = FALSE
    BY <1>2, <2>1, <2>2, NoEvents DEF QueueInv, QueueType
  <2>4. pushed = got
    BY <1>2, NoEvents DEF QueueInv, Accounted
  <2>5. pushed' = got \o <<e>> /\ pushed' \in Events
    BY <1>2, <2>4, Appending DEF PushesLast, QueueInv
  <2>6. Accounted'
    BY <2>2, <2>3, <2>5, NoEvents DEF PushesLast, Accounted
  <2> QED BY <2>2, <2>3, <2>5, <2>6, NoEvents, StreamConstants DEF PushesLast, QueueInv
<1>3. CASE queue.state = "open" /\ ~queue.waits /\ Full(queue)
  <2>1. QueueFails
    BY <1>3 DEF PushesLast, Push, End, Fail, QueueFails, QueueInv, QueueType
  <2> QED BY <2>1, FailKeeps
<1>4. CASE queue.state = "open" /\ ~queue.waits /\ ~Full(queue)
  <2>1. queue' = [queue EXCEPT !.items = Append(@, e), !.state = "ended", !.waits = FALSE]
        /\ pushed' = Append(pushed, e)
    BY <1>4 DEF PushesLast, Push, End, QueueInv, QueueType
  <2>2. /\ Append(queue.items, e) \in Events
        /\ Append(queue.items, e) = queue.items \o <<e>>
        /\ Len(Append(queue.items, e)) = Len(queue.items) + 1
        /\ Append(pushed, e) \in Events /\ Append(pushed, e) = pushed \o <<e>>
        /\ <<e>> \in Events /\ Len(queue.items) \in Nat
    BY Appending DEF QueueInv
  <2>3. /\ queue' \in QueueType /\ queue'.hand = queue.hand
        /\ queue'.items = Append(queue.items, e)
        /\ queue'.state = "ended" /\ queue'.waits = FALSE
    BY <1>4, <2>1, <2>2 DEF QueueInv, QueueType
  <2>4. pushed = got \o (queue.hand \o queue.items)
    BY <1>4, NoEvents DEF QueueInv, Accounted
  <2>5. (got \o (queue.hand \o queue.items)) \o <<e>> = got \o (queue.hand \o (queue.items \o <<e>>))
    <3>1. got \in Events /\ queue.hand \in Events /\ queue.items \in Events
      BY DEF QueueInv
    <3> DEFINE one == <<e>>
    <3>2. one \in Events
      BY <2>2
    <3> HIDE DEF one
    <3>3. Regrouped(got, queue.hand, queue.items, one)
      BY ONLY <3>1, <3>2, AllRegroup
    <3> QED BY ONLY <3>3 DEF Regrouped, one
  <2>6. Accounted'
    BY <2>1, <2>2, <2>3, <2>4, <2>5, NoEvents DEF PushesLast, Accounted
  <2>7. Len(queue'.items) <= MaxBuffered
    BY <1>4, <2>2, <2>3, StreamConstants DEF Full
  <2> QED BY <2>1, <2>2, <2>3, <2>6, <2>7 DEF PushesLast, QueueInv
<1> QED BY <1>1, <1>2, <1>3, <1>4

\* The loop takes an event, or begins to wait for one.
TakesOne ==
  LET q == queue IN
  /\ ~q.waits
  /\ q.hand \o q.items # <<>>
  /\ got' = Append(got, Head(q.hand \o q.items))
  /\ queue' = [q EXCEPT !.hand = <<>>,
                        !.items = IF q.hand # <<>> THEN q.items ELSE Tail(@)]
  /\ UNCHANGED pushed

Waits ==
  /\ queue.hand \o queue.items = <<>>
  /\ queue' = [queue EXCEPT !.waits = TRUE]
  /\ UNCHANGED <<pushed, got>>

LEMMA FirstAndRest ==
  ASSUME NEW s \in Events, s # <<>>
  PROVE  /\ Head(s) \in LineType /\ Tail(s) \in Events
         /\ s = <<Head(s)>> \o Tail(s) /\ <<Head(s)>> \in Events
         /\ Len(Tail(s)) = Len(s) - 1 /\ Len(s) \in Nat \ {0}
<1>1. Head(s) \in LineType /\ Tail(s) \in Events /\ Len(Tail(s)) = Len(s) - 1
  BY HeadTailProperties DEF Events
<1>2. Len(s) \in Nat \ {0}
  BY EmptySeq DEF Events
<1>3. <<Head(s)>> \in Events
  BY <1>1 DEF Events
<1>4. s = <<Head(s)>> \o Tail(s)
  BY <1>1, <1>2, <1>3 DEF Events
<1> QED BY <1>1, <1>2, <1>3, <1>4

LEMMA TakeKeeps ==
  ASSUME QueueInv, queue.state # "none", TakesOne
  PROVE  QueueInv'
<1> USE QueueTypes
<1>1. PICK dropped \in Events :
        /\ pushed = got \o (queue.hand \o (queue.items \o dropped))
        /\ queue.state # "failed" => dropped = <<>>
  BY DEF QueueInv, Accounted
<1>2. CASE queue.hand # <<>>
  <2> DEFINE h == Head(queue.hand)
             r == Tail(queue.hand)
  <2>1. /\ h \in LineType /\ <<h>> \in Events /\ r = <<>> /\ queue.hand = <<h>> \o r
    BY <1>2, FirstAndRest, EmptySeq DEF QueueInv, Events
  <2>2. queue.hand = <<h>> /\ Head(queue.hand \o queue.items) = h
    <3>1. queue.hand = <<h>> \o <<>>
      BY <2>1
    <3>2. queue.hand = <<h>>
      BY <2>1, <3>1, NoEvents
    <3>3. Head(<<h>> \o queue.items) = h
      BY <2>1 DEF Events
    <3> QED BY <3>2, <3>3
  <2>3. got' = got \o <<h>> /\ got' \in Events
    BY <2>1, <2>2, Appending DEF TakesOne, QueueInv
  <2>4. /\ queue' \in QueueType /\ queue'.hand = <<>> /\ queue'.items = queue.items
        /\ queue'.state = queue.state /\ queue'.waits = queue.waits
    BY <1>2, NoEvents DEF TakesOne, QueueInv, QueueType
  <2>5. pushed = got' \o (<<>> \o (queue.items \o dropped))
    <3>1. queue.items \o dropped \in Events
      BY <1>1, Concatenation
    <3>2. got \o (<<h>> \o (queue.items \o dropped)) = (got \o <<h>>) \o (queue.items \o dropped)
      <4>1. got \in Events /\ <<h>> \in Events
        BY <2>1 DEF QueueInv
      <4> QED BY <3>1, <4>1, Concatenation, Zenon
    <3> QED BY <1>1, <2>2, <2>3, <3>1, <3>2, NoEvents
  <2>6. Accounted'
    BY <1>1, <2>4, <2>5 DEF TakesOne, Accounted
  <2>7. ~queue'.waits /\ queue'.state # "none" /\ UNCHANGED pushed
    BY <2>4 DEF TakesOne
  <2> HIDE DEF h, r
  <2> QED BY <2>3, <2>4, <2>6, <2>7, NoEvents DEF QueueInv
<1>3. CASE queue.hand = <<>>
  <2> DEFINE h == Head(queue.items)
             r == Tail(queue.items)
  <2>1. queue.items # <<>> /\ queue.hand \o queue.items = queue.items
    BY <1>3, NoEvents DEF TakesOne
  <2>2. /\ h \in LineType /\ <<h>> \in Events /\ r \in Events /\ queue.items = <<h>> \o r
        /\ Len(r) = Len(queue.items) - 1 /\ Len(queue.items) \in Nat \ {0}
    BY <2>1, FirstAndRest
  <2>3. got' = got \o <<h>> /\ got' \in Events
    BY <2>1, <2>2, Appending DEF TakesOne, QueueInv
  <2>4. /\ queue' \in QueueType /\ queue'.hand = <<>> /\ queue'.items = r
        /\ queue'.state = queue.state /\ queue'.waits = queue.waits
    BY <1>3, <2>2, NoEvents DEF TakesOne, QueueInv, QueueType
  <2>5. pushed = got' \o (<<>> \o (r \o dropped))
    <3>1. r \o dropped \in Events /\ queue.items \o dropped \in Events
      BY <1>1, <2>2, Concatenation
    <3>2. (<<h>> \o r) \o dropped = <<h>> \o (r \o dropped)
      BY <1>1, <2>2, Concatenation
    <3>3. got \o (<<h>> \o (r \o dropped)) = (got \o <<h>>) \o (r \o dropped)
      <4>1. got \in Events /\ <<h>> \in Events /\ r \in Events
        BY <2>2 DEF QueueInv
      <4>2. \A x \in Events : got \o (x \o (r \o dropped)) = (got \o x) \o (r \o dropped)
        <5> DEFINE rest == r \o dropped
        <5>1. rest \in Events
          BY <3>1
        <5> HIDE DEF rest
        <5>2. \A x \in Events : Associated(got, x, rest)
          BY ONLY <4>1, <5>1, AllAssociate
        <5> QED BY ONLY <5>2 DEF Associated, rest
      <4> QED BY <4>1, <4>2
    <3>4. pushed = got \o (queue.items \o dropped)
      BY <1>1, <1>3, <3>1, NoEvents
    <3> QED BY <2>2, <2>3, <3>1, <3>2, <3>3, <3>4, NoEvents
  <2>6. Accounted'
    BY <1>1, <2>2, <2>4, <2>5 DEF TakesOne, Accounted
  <2>7. Len(r) <= MaxBuffered
    BY <2>2, StreamConstants DEF QueueInv
  <2>8. ~queue'.waits /\ queue'.state # "none" /\ UNCHANGED pushed
    BY <2>4 DEF TakesOne
  <2> HIDE DEF h, r
  <2> QED BY <2>3, <2>4, <2>6, <2>7, <2>8, NoEvents DEF QueueInv
<1> QED BY <1>2, <1>3

LEMMA WaitKeeps ==
  ASSUME QueueInv, queue.state # "none", Waits
  PROVE  QueueInv'
<1>1. queue.hand = <<>> /\ queue.items = <<>>
  BY QueueTypes, ConcatEqualIffEmpty DEF Waits, Events
<1>2. /\ queue' \in QueueType /\ queue'.hand = <<>> /\ queue'.items = <<>>
      /\ queue'.state = queue.state
  BY <1>1 DEF Waits, QueueInv, QueueType
<1> QED BY <1>1, <1>2 DEF Waits, QueueInv, Accounted

-----------------------------------------------------------------------------
\* The turn and its queue.

NativeType == [state : {"none", "working", "asking", "over"}, ask : Ask \cup {"none"}]

\* A turn has a queue from its submission to its end.
TurnInv ==
  /\ turn \in [id : Turn \cup {0}, step : Steps, call : BOOLEAN, aborted : Steps \cup {"none"}]
  /\ turn.id = 0 <=> turn.step = "idle"
  /\ turn.call => turn.step = "submit" /\ provider # "claude"
  /\ verdict \in [Turn -> {"none", "active", "completed", "failed"}]
  /\ queue.state # "none" <=> turn.call \/ turn.step \in {"stopping", "stream"}

ProcessOK ==
  /\ budget \in [provider : {"codex", "hermes", "claude"}, turns : 1 .. MaxTurns,
                 lines : 0 .. 9, wire : 1 .. 9]
  /\ session \in {"none", "known", "loaded"}
  /\ child \in {"none", "up", "killed", "exited", "signalled"}
  /\ wire \in Seq(LineType) /\ Len(wire) <= budget.wire
  /\ native \in [Turn -> NativeType]
  /\ owed \subseteq Turn \X {"start", "stop"} /\ stopAsked \subseteq Turn
  /\ provider = "claude" /\ (\E t \in Turn : Running(t)) => child \in {"up", "killed"}

PendingOK ==
  /\ pending \subseteq [turn : Turn, ask : Ask, of : Turn]
  /\ IsFiniteSet(pending) /\ Cardinality(pending) <= MaxPending
  /\ stray \subseteq Turn
  /\ ApprovalsOfActiveTurn

AdapterInv == TurnInv /\ QueueInv /\ ProcessOK /\ PendingOK

\* The ends of a turn, for the queue.
TurnEnded(v) ==
  /\ turn' = Idle /\ verdict' = [verdict EXCEPT ![turn.id] = v]
  /\ queue' = NoQueue /\ pushed' = <<>> /\ got' = <<>>

Goes(steps) == \E s \in steps : At(s)

\* What a step of any adapter does to the turn and its queue.
TurnMove ==
  \/ UNCHANGED <<turn, verdict, queueVars>>
  \/ /\ turn.step = "idle"
     /\ \E t \in Turn : /\ turn' = [Idle EXCEPT !.id = t, !.step = "process"]
                        /\ verdict[t] = "none"
                        /\ \A u \in Turn : u < t => verdict[u] # "none"
                        /\ verdict' = [verdict EXCEPT ![t] = "active"]
     /\ UNCHANGED queueVars
  \/ turn.step # "idle" /\ TurnEnded("failed")
  \/ /\ turn.step # "idle" /\ TurnEnded("completed")
     /\ queue.state = "ended" /\ queue.hand \o queue.items = <<>>
  \/ /\ turn.step = "process"
     /\ turn' = Idle /\ verdict' = [verdict EXCEPT ![turn.id] = "failed"]
     /\ UNCHANGED queueVars
  \/ /\ turn.step \in {"process", "session"} /\ Goes({"session", "submit"})
     /\ UNCHANGED <<verdict, queueVars>>
  \/ /\ turn.step = "submit" /\ ~turn.call
     /\ \/ Goes({"stopping", "stream"})
        \/ provider # "claude" /\ turn' = [turn EXCEPT !.call = TRUE]
     /\ queue' = NewQueue
     /\ UNCHANGED <<verdict, pushed, got>>
  \/ /\ turn.call \/ turn.step = "stopping"
     /\ Goes({"stopping", "stream"})
     /\ UNCHANGED verdict /\ (UNCHANGED queueVars \/ QueueFails)
  \/ /\ turn.step # "idle" /\ turn' = [turn EXCEPT !.aborted = turn.step]
     /\ UNCHANGED verdict /\ (UNCHANGED queueVars \/ QueueFails)
  \/ /\ UNCHANGED <<turn, verdict>>
     /\ \/ QueueEnds \/ QueueFails
        \/ queue.state # "none" /\ \E e \in LineType : Pushes(e) \/ PushesLast(e)
  \/ turn.step = "stream" /\ UNCHANGED <<turn, verdict>> /\ (TakesOne \/ Waits)

LEMMA FinishEnds == \A v : Finish(v) => TurnEnded(v)
BY DEF Finish, TurnEnded

LEMMA HeadOfWire ==
  ASSUME ProcessOK, wire # <<>>
  PROVE  /\ Head(wire) \in LineType
         /\ \A b \in BOOLEAN : [Head(wire) EXCEPT !.early = b] \in LineType
         /\ Tail(wire) \in Seq(LineType) /\ Len(Tail(wire)) <= budget.wire
<1>1. Head(wire) \in LineType /\ Tail(wire) \in Seq(LineType) /\ Len(Tail(wire)) = Len(wire) - 1
  BY HeadTailProperties DEF ProcessOK
<1>2. \A b \in BOOLEAN : [Head(wire) EXCEPT !.early = b] \in LineType
  BY <1>1 DEF LineType, Event
<1>3. Len(wire) \in Nat /\ budget.wire \in Nat
  BY LenProperties DEF ProcessOK
<1> QED BY <1>1, <1>2, <1>3 DEF ProcessOK

LEMMA QueueMoves ==
  ASSUME TurnInv, QueueInv, ProcessOK, Next
  PROVE  TurnMove
<1>1. ASSUME NEW t \in Turn, StartTurn(t) PROVE TurnMove
  BY <1>1 DEF StartTurn, TurnMove, Idle
<1>2. CASE \E t \in Turn : NativeSpeaks(t) \/ NativeEnds(t) \/ Replies(t)
  BY <1>2 DEF NativeSpeaks, NativeEnds, Replies, childOnly, queueVars, TurnMove
<1>3. CASE Take
  <2>1. turn.step = "stream" /\ queue.state \in {"open", "ended", "failed"}
    BY <1>3, QueueTypes DEF Take, TurnInv
  <2>2. CASE queue.hand \o queue.items # <<>>
    BY <1>3, <2>1, <2>2 DEF Take, TurnMove, TakesOne
  <2>3. CASE queue.hand \o queue.items = <<>>
    BY <1>3, <2>1, <2>3, FinishEnds DEF Take, TurnMove, Waits
  <2> QED BY <2>2, <2>3
<1>4. CASE LeaveLoop
  BY <1>4, FinishEnds DEF LeaveLoop, TurnMove
<1>5. CASE RpcEnsure
  BY <1>5, FinishEnds DEF RpcEnsure, Goes, TurnMove
<1>6. CASE RpcSession
  BY <1>6, FinishEnds DEF RpcSession, Goes, TurnMove
<1>7. CASE RpcSubmit
  BY <1>7, FinishEnds DEF RpcSubmit, RpcProviders, Goes, TurnMove
<1>8. CASE RpcInterrupt
  BY <1>8 DEF RpcInterrupt, TurnMove, TurnInv
<1>9. CASE RpcExit \/ RpcTimesOut
  BY <1>9, FinishEnds DEF RpcExit, RpcTimesOut, TurnMove, TurnInv
<1>10. CASE Notification
  <2> DEFINE l == Head(wire)
             e == [l EXCEPT !.early = turn.step = "submit"]
  <2>1. e \in LineType
    BY <1>10, HeadOfWire DEF Notification, Read
  <2>2. UNCHANGED <<turn, verdict>>
    BY <1>10 DEF Notification
  <2>3. CASE Listens /\ Notifies(l)
    <3>1. TakesRequest(l, e) => QueueFails \/ Pushes(e)
      BY DEF TakesRequest
    <3>2. QueueEnds \/ QueueFails \/ Pushes(e) \/ PushesLast(e)
      BY <1>10, <2>3, <3>1 DEF Notification, RpcProviders, Notifies, PushesLast
    <3> QED BY <2>1, <2>2, <2>3, <3>2 DEF TurnMove, Listens
  <2>4. CASE UNCHANGED queueVars
    BY <2>2, <2>4 DEF TurnMove
  <2> QED BY <1>10, <2>3, <2>4 DEF Notification
<1>11. CASE StartReply
  BY <1>11, FinishEnds DEF StartReply, Goes, TurnMove, TurnInv
<1>12. CASE StopReply
  BY <1>12, FinishEnds DEF StopReply, Goes, TurnMove, TurnInv
<1>13. CASE EnsureSession
  BY <1>13 DEF EnsureSession, Goes, TurnMove
<1>14. CASE ClaudeSubmit
  BY <1>14, FinishEnds DEF ClaudeSubmit, Claude, Goes, TurnMove, TurnInv
<1>15. CASE ClaudeInterrupt
  BY <1>15 DEF ClaudeInterrupt, TurnMove, TurnInv
<1>16. CASE ClaudeExit
  BY <1>16 DEF ClaudeExit, ExitHeard, TurnMove
<1>17. CASE ClaudeLine \/ ClaudeAsks
  BY <1>17, HeadOfWire DEF ClaudeLine, ClaudeAsks, TurnMove
<1>18. CASE \E p \in pending : RpcRespond(p) \/ ClaudeRespond(p)
  BY <1>18 DEF RpcRespond, ClaudeRespond, TurnMove
<1> QED
  BY <1>1, <1>2, <1>3, <1>4, <1>5, <1>6, <1>7, <1>8, <1>9, <1>10, <1>11, <1>12,
     <1>13, <1>14, <1>15, <1>16, <1>17, <1>18 DEF Next

LEMMA BudgetStays == Next => UNCHANGED budget
BY DEF Next, StartTurn, NativeSpeaks, NativeEnds, Replies, childOnly, Take, LeaveLoop,
       RpcEnsure, RpcSession, RpcSubmit, RpcInterrupt, RpcExit, RpcTimesOut, Notification,
       StartReply, StopReply, readOnly, EnsureSession, ClaudeSubmit, ClaudeInterrupt,
       ClaudeExit, ClaudeLine, ClaudeAsks, RpcRespond, ClaudeRespond

LEMMA QueueMoveKeeps ==
  ASSUME TurnInv, QueueInv, TurnMove
  PROVE  QueueInv'
<1>1. ASSUME UNCHANGED queueVars PROVE QueueInv'
  BY <1>1 DEF queueVars, QueueInv, Accounted
<1>2. ASSUME NEW v, TurnEnded(v) PROVE QueueInv'
  BY <1>2, EmptyQueue DEF TurnEnded
<1>3. CASE turn.step = "submit" /\ ~turn.call /\ queue' = NewQueue /\ UNCHANGED <<pushed, got>>
  <2>1. pushed = <<>> /\ got = <<>>
    BY <1>3 DEF TurnInv, QueueInv
  <2> QED BY <1>3, <2>1, EmptyQueue
<1>4. CASE QueueEnds \/ QueueFails \/ \E e \in LineType : Pushes(e) \/ PushesLast(e)
  BY <1>4, EndKeeps, FailKeeps, PushKeeps, EndAfterPush
<1>5. CASE turn.step = "stream" /\ (TakesOne \/ Waits)
  BY <1>5, TakeKeeps, WaitKeeps DEF TurnInv
<1> QED BY <1>1, <1>2, <1>3, <1>4, <1>5 DEF TurnMove

\* A queue that is there stays there until its turn ends.
LEMMA QueueStays ==
  /\ QueueEnds \/ QueueFails \/ TakesOne \/ Waits
     \/ (\E e \in LineType : Pushes(e) \/ PushesLast(e))
  /\ QueueInv
  => (queue'.state = "none" <=> queue.state = "none")
<1> SUFFICES ASSUME \/ QueueEnds \/ QueueFails \/ TakesOne \/ Waits
                    \/ \E e \in LineType : Pushes(e) \/ PushesLast(e),
                    QueueInv
    PROVE  queue'.state = "none" <=> queue.state = "none"
  OBVIOUS
<1>1. queue \in QueueType
  BY DEF QueueInv
<1> QED
  BY <1>1 DEF QueueEnds, QueueFails, TakesOne, Waits, Pushes, PushesLast, Push, End, Fail,
              QueueType

LEMMA TurnMoveKeeps ==
  ASSUME TurnInv, QueueInv, TurnMove, UNCHANGED budget
  PROVE  TurnInv'
<1>1. 0 \notin Turn /\ Idle \in [id : Turn \cup {0}, step : Steps, call : BOOLEAN, aborted : Steps \cup {"none"}]
  BY StreamConstants DEF Turn, Idle, Steps
<1>2. CASE UNCHANGED <<turn, verdict, queueVars>>
  BY <1>2 DEF TurnInv, queueVars, provider
<1>3. CASE /\ turn.step = "idle"
           /\ \E t \in Turn : /\ turn' = [Idle EXCEPT !.id = t, !.step = "process"]
                              /\ verdict' = [verdict EXCEPT ![t] = "active"]
           /\ UNCHANGED queueVars
  <2>1. PICK t \in Turn : /\ turn' = [Idle EXCEPT !.id = t, !.step = "process"]
                           /\ verdict' = [verdict EXCEPT ![t] = "active"]
    BY <1>3
  <2>2. turn' = [id |-> t, step |-> "process", call |-> FALSE, aborted |-> "none"]
    BY <2>1 DEF Idle
  <2>3. queue.state = "none" /\ queue' = queue
    BY <1>3 DEF TurnInv, queueVars
  <2>4. turn' \in [id : Turn \cup {0}, step : Steps, call : BOOLEAN, aborted : Steps \cup {"none"}]
    BY <2>2 DEF Steps
  <2>5. verdict' \in [Turn -> {"none", "active", "completed", "failed"}]
    BY <2>1 DEF TurnInv
  <2> QED BY <1>1, <2>2, <2>3, <2>4, <2>5 DEF TurnInv
<1>4. ASSUME NEW v \in {"failed", "completed"}, TurnEnded(v) PROVE TurnInv'
  BY <1>1, <1>4 DEF TurnInv, TurnEnded, Idle, NoQueue
<1>5. CASE /\ turn.step = "process"
           /\ turn' = Idle /\ verdict' = [verdict EXCEPT ![turn.id] = "failed"]
           /\ UNCHANGED queueVars
  BY <1>1, <1>5 DEF TurnInv, Idle, queueVars
<1>6. CASE /\ turn.step \in {"process", "session"} /\ Goes({"session", "submit"})
           /\ UNCHANGED <<verdict, queueVars>>
  BY <1>6 DEF TurnInv, Goes, At, Steps, queueVars
<1>7. CASE /\ turn.step = "submit" /\ ~turn.call
           /\ \/ Goes({"stopping", "stream"})
              \/ provider # "claude" /\ turn' = [turn EXCEPT !.call = TRUE]
           /\ queue' = NewQueue
           /\ UNCHANGED <<verdict, pushed, got>>
  BY <1>7 DEF TurnInv, Goes, At, Steps, NewQueue, NoQueue, provider
<1>8. CASE /\ turn.call \/ turn.step = "stopping"
           /\ Goes({"stopping", "stream"})
           /\ UNCHANGED verdict /\ (UNCHANGED queueVars \/ QueueFails)
  <2>1. queue'.state = "none" <=> queue.state = "none"
    BY <1>8, QueueStays DEF queueVars
  <2> QED BY <1>8, <2>1 DEF TurnInv, Goes, At, Steps
<1>9. CASE /\ turn.step # "idle" /\ turn' = [turn EXCEPT !.aborted = turn.step]
           /\ UNCHANGED verdict /\ (UNCHANGED queueVars \/ QueueFails)
  <2>1. queue'.state = "none" <=> queue.state = "none"
    BY <1>9, QueueStays DEF queueVars
  <2> QED BY <1>9, <2>1 DEF TurnInv, provider
<1>10. CASE /\ UNCHANGED <<turn, verdict>>
            /\ \/ QueueEnds \/ QueueFails \/ TakesOne \/ Waits
               \/ \E e \in LineType : Pushes(e) \/ PushesLast(e)
  BY <1>10, QueueStays DEF TurnInv, provider
<1> QED BY <1>2, <1>3, <1>4, <1>5, <1>6, <1>7, <1>8, <1>9, <1>10 DEF TurnMove

-----------------------------------------------------------------------------
\* The child and the approvals.

LEMMA LineFacts ==
  ASSUME NEW t \in Turn
  PROVE  /\ \A k \in {"text", "done", "error", "reply", "refusal", "stopped", "unstopped"} :
              Line(k, t) \in LineType
         /\ \A a \in Ask : AskLine(t, a) \in LineType
BY DEF Line, AskLine, LineType, Event

\* The child says something, or nothing.
LEMMA SaysKeeps ==
  ASSUME ProcessOK, NEW l \in LineType, Says(l), UNCHANGED budget
  PROVE  wire' \in Seq(LineType) /\ Len(wire') <= budget'.wire /\ child = "up"
<1>1. Append(wire, l) \in Seq(LineType) /\ Len(Append(wire, l)) = Len(wire) + 1
  BY AppendProperties DEF ProcessOK
<1>2. Len(wire) \in Nat /\ budget.wire \in Nat
  BY LenProperties DEF ProcessOK
<1> QED BY <1>1, <1>2 DEF Says

LEMMA SetKeeps ==
  ASSUME ProcessOK, NEW t \in Turn, NEW st \in {"none", "working", "asking", "over"},
         NEW a \in Ask \cup {"none"}, Set(t, st, a)
  PROVE  /\ native' \in [Turn -> NativeType]
         /\ \A u \in Turn \ {t} : native'[u] = native[u]
         /\ native'[t].state = st
BY DEF ProcessOK, Set, NativeType

\* What becomes of the process when its native turns are over.
AllOver ==
  native' = [t \in Turn |-> IF Running(t) THEN [state |-> "over", ask |-> "none"]
                                          ELSE native[t]]

LEMMA AllOverKeeps ==
  ASSUME ProcessOK, AllOver
  PROVE  native' \in [Turn -> NativeType] /\ ~\E t \in Turn : Running(t)'
BY DEF ProcessOK, AllOver, Running, NativeType

LEMMA ChildSpeaksKeeps ==
  ASSUME ProcessOK, NEW t \in Turn, NativeSpeaks(t) \/ NativeEnds(t) \/ Replies(t)
  PROVE  ProcessOK'
<1>1. UNCHANGED <<budget, session, child, stopAsked>>
  BY DEF NativeSpeaks, NativeEnds, Replies, childOnly
<1>2. /\ wire' \in Seq(LineType) /\ Len(wire') <= budget'.wire /\ child = "up"
  BY <1>1, LineFacts, SaysKeeps DEF NativeSpeaks, NativeEnds, Replies
<1>3. native' \in [Turn -> NativeType]
  BY SetKeeps DEF NativeSpeaks, NativeEnds, Replies, ProcessOK
<1>4. owed' \subseteq owed
  BY DEF NativeSpeaks, NativeEnds, Replies
<1> QED BY <1>1, <1>2, <1>3, <1>4 DEF ProcessOK

LEMMA ProcessStep ==
  ASSUME TurnInv, ProcessOK, PendingOK, Next
  PROVE  ProcessOK'
<1>budget. UNCHANGED budget
  BY BudgetStays
<1>turn. turn.step # "idle" => turn.id \in Turn
  BY DEF TurnInv
<1>same. UNCHANGED <<session, childVars>> => ProcessOK'
  BY <1>budget DEF childVars, ProcessOK, provider, Running
<1>wire. wire' = Tail(wire) /\ wire # <<>> =>
           wire' \in Seq(LineType) /\ Len(wire') <= budget'.wire
  BY <1>budget, HeadOfWire
<1>1. CASE (\E t \in Turn : StartTurn(t)) \/ Take \/ LeaveLoop \/ RpcTimesOut
  BY <1>1, <1>same DEF StartTurn, Take, LeaveLoop, RpcTimesOut
<1>2. CASE \E t \in Turn : NativeSpeaks(t) \/ NativeEnds(t) \/ Replies(t)
  BY <1>2, ChildSpeaksKeeps
<1>3. CASE RpcEnsure
  BY <1>3, <1>budget DEF RpcEnsure, RpcProviders, ProcessOK, provider
<1>4. CASE RpcSession
  BY <1>4, <1>budget DEF RpcSession, RpcProviders, ProcessOK, provider, childVars
<1>5. CASE RpcSubmit
  <2>1. turn.id \in Turn
    BY <1>5, <1>turn DEF RpcSubmit
  <2>2. native' \in [Turn -> NativeType]
    BY <1>5, <2>1, SetKeeps DEF RpcSubmit, ProcessOK
  <2>3. owed' \subseteq Turn \X {"start", "stop"} /\ stopAsked' \subseteq Turn
    BY <1>5, <2>1 DEF RpcSubmit, ProcessOK
  <2> QED BY <1>5, <1>budget, <2>2, <2>3 DEF RpcSubmit, RpcProviders, ProcessOK, provider
<1>6. CASE RpcInterrupt
  <2>1. turn.id \in Turn
    BY <1>6 DEF RpcInterrupt, TurnInv
  <2>2. owed' \subseteq Turn \X {"start", "stop"} /\ stopAsked' \subseteq Turn
    BY <1>6, <2>1 DEF RpcInterrupt, ProcessOK
  <2> QED BY <1>6, <1>budget, <2>2 DEF RpcInterrupt, RpcProviders, ProcessOK, provider
<1>7. CASE RpcExit
  <2>1. AllOver
    BY <1>7 DEF RpcExit, ChildGone, AllOver
  <2> QED BY <1>7, <1>budget, <2>1, AllOverKeeps
          DEF RpcExit, RpcProviders, ChildGone, ProcessOK, provider
<1>8. CASE Notification
  BY <1>8, <1>budget, <1>wire
  DEF Notification, Read, readOnly, RpcProviders, ProcessOK, provider
<1>9. CASE StartReply
  <2>1. turn.call => turn.id \in Turn
    BY <1>turn DEF TurnInv
  <2>2. owed' \subseteq Turn \X {"start", "stop"} /\ stopAsked' \subseteq Turn
    <3>1. \/ UNCHANGED <<owed, stopAsked>>
          \/ /\ turn.call /\ stopAsked' = stopAsked \cup {turn.id}
             /\ owed' = owed \cup {<<turn.id, "stop">>}
      BY <1>9 DEF StartReply
    <3> QED BY <2>1, <3>1 DEF ProcessOK
  <2> QED BY <1>9, <1>budget, <1>wire, <2>2
          DEF StartReply, Read, readOnly, RpcProviders, ProcessOK, provider
<1>10. CASE StopReply
  BY <1>10, <1>budget, <1>wire
  DEF StopReply, Read, readOnly, RpcProviders, ProcessOK, provider
<1>11. CASE EnsureSession
  <2>1. CASE UNCHANGED <<session, childVars>>
    BY <2>1, <1>same
  <2>2. CASE wire' = <<>> /\ owed' = {} /\ AllOver /\ UNCHANGED <<session, stopAsked>>
             /\ child' \in {"up", "none"}
    <3>1. wire' \in Seq(LineType) /\ Len(wire') <= budget'.wire
      BY <1>budget, <2>2, EmptySeq DEF ProcessOK
    <3>2. native' \in [Turn -> NativeType] /\ ~\E t \in Turn : Running(t)'
      BY <2>2, AllOverKeeps
    <3> QED BY <1>budget, <2>2, <3>1, <3>2 DEF ProcessOK
  <2> QED BY <1>11, <2>1, <2>2 DEF EnsureSession, AllOver
<1>12. CASE ClaudeSubmit
  <2>1. turn.id \in Turn
    BY <1>12, <1>turn DEF ClaudeSubmit
  <2>2. /\ native' \in [Turn -> NativeType]
        /\ child # "up" => native' = native
    BY <1>12, <2>1, SetKeeps DEF ClaudeSubmit, ProcessOK
  <2> QED BY <1>12, <1>budget, <2>2 DEF ClaudeSubmit, ProcessOK, provider, Running
<1>13. CASE ClaudeInterrupt
  <2>1. turn.id \in Turn
    BY <1>13 DEF ClaudeInterrupt, TurnInv
  <2> QED BY <1>13, <1>budget, <2>1 DEF ClaudeInterrupt, ProcessOK, provider, Running
<1>14. CASE ClaudeExit
  <2>1. AllOver /\ owed' = {} /\ child' \in {"none", "exited", "signalled"}
        /\ UNCHANGED <<wire, stopAsked, session>>
    BY <1>14 DEF ClaudeExit, ChildGone, AllOver
  <2>2. native' \in [Turn -> NativeType] /\ ~\E t \in Turn : Running(t)'
    BY <2>1, AllOverKeeps
  <2> QED BY <1>budget, <2>1, <2>2 DEF ProcessOK
<1>15. CASE ClaudeLine
  BY <1>15, <1>budget, <1>wire DEF ClaudeLine, ProcessOK, provider, Running
<1>16. CASE ClaudeAsks
  <2> DEFINE l == Head(wire)
  <2>1. l.turn \in Turn
    BY <1>16, HeadOfWire DEF ClaudeAsks, LineType, Event
  <2>2. CASE native' = native
    BY <1>16, <1>budget, <1>wire, <2>2 DEF ClaudeAsks, ProcessOK, provider, Running
  <2>3. CASE Running(l.turn) /\ Set(l.turn, "working", "none")
    <3>1. native' \in [Turn -> NativeType]
      BY <2>1, <2>3, SetKeeps
    <3>2. provider = "claude" => child \in {"up", "killed"}
      BY <2>1, <2>3 DEF ProcessOK
    <3> QED BY <1>16, <1>budget, <1>wire, <3>1, <3>2 DEF ClaudeAsks, ProcessOK, provider
  <2> QED BY <1>16, <2>2, <2>3 DEF ClaudeAsks
<1>17. ASSUME NEW p \in pending, RpcRespond(p) \/ ClaudeRespond(p) PROVE ProcessOK'
  <2>1. p.of \in Turn
    BY DEF PendingOK
  <2>2. UNCHANGED <<session, child, wire, owed, stopAsked>>
    BY <1>17 DEF RpcRespond, ClaudeRespond
  <2>3. CASE native' = native
    BY <1>same, <2>2, <2>3 DEF childVars
  <2>4. CASE native[p.of].state = "asking" /\ Set(p.of, "working", "none")
    <3>1. native' \in [Turn -> NativeType]
      BY <2>1, <2>4, SetKeeps
    <3>2. provider = "claude" => child \in {"up", "killed"}
      BY <2>1, <2>4 DEF ProcessOK, Running
    <3> QED BY <1>budget, <2>2, <3>1, <3>2 DEF ProcessOK, provider
  <2> QED BY <1>17, <2>3, <2>4 DEF RpcRespond, ClaudeRespond, Answered
<1> QED
  BY <1>1, <1>2, <1>3, <1>4, <1>5, <1>6, <1>7, <1>8, <1>9, <1>10, <1>11, <1>12,
     <1>13, <1>14, <1>15, <1>16, <1>17 DEF Next

\* The approvals of a turn end with it at Codex and Hermes.
LEMMA FinishKeepsPending ==
  ASSUME PendingOK, turn.id \in Turn, NEW v, Finish(v), UNCHANGED <<budget, child>>
  PROVE  PendingOK'
<1>1. pending' \subseteq pending /\ stray' \subseteq Turn
  BY DEF Finish, ApprovalsLeft, PendingOK
<1>2. IsFiniteSet(pending') /\ Cardinality(pending') <= Cardinality(pending)
  BY <1>1, FS_Subset DEF PendingOK
<1>3. Cardinality(pending) \in Nat /\ Cardinality(pending') \in Nat
  BY <1>2, FS_CardinalityType DEF PendingOK
<1>4. Cardinality(pending') <= MaxPending
  BY <1>2, <1>3, StreamConstants DEF PendingOK
<1>5. ApprovalsOfActiveTurn'
  BY DEF Finish, ApprovalsLeft, PendingOK, ApprovalsOfActiveTurn, provider
<1> QED BY <1>1, <1>2, <1>4, <1>5 DEF PendingOK

\* One more request, or fewer.
LEMMA OneMorePending ==
  ASSUME PendingOK, NEW p \in [turn : Turn, ask : Ask, of : Turn],
         Cardinality(pending) < MaxPending, pending' = pending \cup {p}
  PROVE  /\ pending' \subseteq [turn : Turn, ask : Ask, of : Turn]
         /\ IsFiniteSet(pending') /\ Cardinality(pending') <= MaxPending
<1>1. Cardinality(pending) \in Nat
  BY FS_CardinalityType DEF PendingOK
<1>2. IsFiniteSet(pending') /\ Cardinality(pending') \in {Cardinality(pending), Cardinality(pending) + 1}
  BY FS_AddElement DEF PendingOK
<1> QED BY <1>1, <1>2, StreamConstants DEF PendingOK

LEMMA FewerPending ==
  ASSUME PendingOK, pending' \subseteq pending
  PROVE  /\ pending' \subseteq [turn : Turn, ask : Ask, of : Turn]
         /\ IsFiniteSet(pending') /\ Cardinality(pending') <= MaxPending
<1>1. IsFiniteSet(pending') /\ Cardinality(pending') <= Cardinality(pending)
  BY FS_Subset DEF PendingOK
<1>2. Cardinality(pending) \in Nat /\ Cardinality(pending') \in Nat
  BY <1>1, FS_CardinalityType DEF PendingOK
<1> QED BY <1>1, <1>2, StreamConstants DEF PendingOK

LEMMA PendingStep ==
  ASSUME TurnInv, QueueInv, ProcessOK, PendingOK, Next
  PROVE  PendingOK'
<1>budget. UNCHANGED budget
  BY BudgetStays
<1>turn. turn.step # "idle" => turn.id \in Turn
  BY DEF TurnInv
<1>zero. 0 \notin Turn
  BY DEF Turn
\* Nothing happens to the approvals, and the turn, if there is one, goes on.
<1>same. ASSUME UNCHANGED <<pending, child, stray>>, turn'.id = turn.id \/ turn.id = 0
         PROVE  PendingOK'
  BY <1>budget, <1>zero, <1>same DEF PendingOK, ApprovalsOfActiveTurn, provider
<1>finish. ASSUME turn.step # "idle", NEW v, Finish(v), UNCHANGED child
           PROVE  PendingOK'
  BY <1>budget, <1>turn, <1>finish, FinishKeepsPending
<1>none. ASSUME pending' = {}, stray' \in {{}, stray} PROVE PendingOK'
  <2>1. ApprovalsOfActiveTurn'
    BY <1>none DEF ApprovalsOfActiveTurn
  <2> QED BY <1>none, <2>1, FewerPending DEF PendingOK
<1>goes. \A s : At(s) => turn'.id = turn.id
  BY DEF At, TurnInv
<1>1. ASSUME NEW t \in Turn, StartTurn(t) PROVE PendingOK'
  <2>1. turn.id = 0 /\ UNCHANGED <<pending, child, stray>>
    BY <1>1 DEF StartTurn, Idle, childVars
  <2> QED BY <1>same, <2>1
<1>2. CASE \E t \in Turn : NativeSpeaks(t) \/ NativeEnds(t) \/ Replies(t)
  BY <1>2, <1>same DEF NativeSpeaks, NativeEnds, Replies, childOnly
<1>3. CASE Take \/ LeaveLoop
  <2>1. turn.step = "stream" /\ UNCHANGED child
    BY <1>3 DEF Take, LeaveLoop, childVars
  <2>2. CASE \E v : Finish(v)
    BY <1>finish, <2>1, <2>2
  <2>3. CASE UNCHANGED <<turn, pending, stray>>
    BY <1>same, <2>1, <2>3
  <2>4. queue.state \in {"open", "ended", "failed"}
    BY <2>1, QueueTypes DEF TurnInv
  <2>5. (\E v : Finish(v)) \/ UNCHANGED <<turn, pending, stray>>
    BY <1>3, <2>4 DEF Take, LeaveLoop
  <2> QED BY <2>2, <2>3, <2>5
<1>4. CASE RpcEnsure
  <2>1. CASE \E v : Finish(v) /\ UNCHANGED child
    BY <1>4, <1>finish, <2>1 DEF RpcEnsure
  <2>2. CASE At("session") /\ UNCHANGED <<pending, stray>>
    BY <1>4, <1>budget, <1>goes, <2>2
    DEF RpcEnsure, RpcProviders, PendingOK, ApprovalsOfActiveTurn, provider
  <2> QED BY <1>4, <2>1, <2>2 DEF RpcEnsure
<1>5. CASE RpcSession
  BY <1>5, <1>same, <1>finish, <1>goes DEF RpcSession, childVars
<1>6. CASE RpcSubmit
  <2>1. CASE \E v : Finish(v)
    BY <1>6, <1>finish, <2>1 DEF RpcSubmit
  <2>2. CASE turn'.id = turn.id /\ UNCHANGED <<pending, stray>>
    BY <1>6, <1>same, <2>2 DEF RpcSubmit
  <2>3. turn' = [turn EXCEPT !.call = TRUE] => turn'.id = turn.id
    BY DEF TurnInv
  <2> QED BY <1>6, <1>goes, <2>1, <2>2, <2>3 DEF RpcSubmit
<1>7. CASE RpcInterrupt \/ ClaudeSubmit
  <2>1. turn' = [turn EXCEPT !.aborted = turn.step] => turn'.id = turn.id
    BY DEF TurnInv
  <2>2. CASE \E v : ClaudeSubmit /\ Finish(v)
    BY <1>finish, <2>2 DEF ClaudeSubmit
  <2>3. CASE turn'.id = turn.id /\ UNCHANGED <<pending, stray>>
    BY <1>7, <1>same, <2>3 DEF RpcInterrupt, ClaudeSubmit
  <2> QED BY <1>7, <1>goes, <2>1, <2>2, <2>3 DEF RpcInterrupt, ClaudeSubmit
<1>8. CASE RpcExit
  <2>1. provider # "claude" /\ UNCHANGED budget
    BY <1>8, <1>budget DEF RpcExit, RpcProviders
  <2>2. ASSUME turn.step # "idle", Finish("failed") PROVE PendingOK'
    <3>1. pending' = {}
      BY <1>turn, <2>1, <2>2 DEF Finish, ApprovalsLeft, PendingOK, ApprovalsOfActiveTurn
    <3>2. stray' \subseteq Turn
      BY <1>turn, <2>2 DEF Finish, PendingOK
    <3>3. ApprovalsOfActiveTurn'
      BY <3>1 DEF ApprovalsOfActiveTurn
    <3> QED BY <3>1, <3>2, <3>3, FewerPending DEF PendingOK
  <2>3. ASSUME UNCHANGED <<turn, pending, stray>> PROVE PendingOK'
    BY <2>1, <2>3 DEF PendingOK, ApprovalsOfActiveTurn, provider
  <2>4. turn.call \/ turn.step = "stopping" => turn.step # "idle"
    BY DEF TurnInv
  <2> QED BY <1>8, <2>2, <2>3, <2>4 DEF RpcExit
<1>9. CASE RpcTimesOut
  <2>1. turn.call \/ turn.step = "stopping" => turn.step # "idle"
    BY DEF TurnInv
  <2> QED BY <1>9, <1>same, <1>finish, <2>1 DEF RpcTimesOut, childVars
<1>10. CASE Notification
  <2> DEFINE l == Head(wire)
             e == [l EXCEPT !.early = turn.step = "submit"]
             p == [turn |-> turn.id, ask |-> l.ask, of |-> l.turn]
  <2>1. UNCHANGED <<turn, stray, child>>
    BY <1>10 DEF Notification, readOnly
  <2>2. CASE UNCHANGED pending
    BY <1>same, <2>1, <2>2
  <2>3. CASE Listens /\ l.kind = "ask" /\ Cardinality(pending) < MaxPending
             /\ pending' = pending \cup {p}
    <3>1. turn.id \in Turn
      BY <1>turn, <2>3 DEF Listens, TurnInv
    <3>2. p \in [turn : Turn, ask : Ask, of : Turn]
      BY <1>10, <2>3, <3>1, HeadOfWire DEF Notification, Read, LineType, Event
    <3>3. provider # "claude"
      BY <1>10 DEF Notification, RpcProviders
    <3>4. ApprovalsOfActiveTurn'
      BY <1>budget, <2>1, <2>3, <3>3 DEF PendingOK, ApprovalsOfActiveTurn, provider
    <3> QED BY <2>1, <2>3, <3>2, <3>4, OneMorePending DEF PendingOK
  <2>4. Cardinality(pending) \in Nat /\ MaxPending \in Nat
    BY FS_CardinalityType, StreamConstants DEF PendingOK
  <2>5. TakesRequest(l, e) => \/ UNCHANGED pending
                              \/ Cardinality(pending) < MaxPending /\ pending' = pending \cup {p}
    BY <2>4 DEF TakesRequest
  <2>6. l.kind \in {"text", "ask", "error", "done"} /\ provider \in {"codex", "hermes"}
    BY <1>10 DEF Notification, RpcProviders
  <2> QED BY <1>10, <2>2, <2>3, <2>5, <2>6 DEF Notification, Notifies
<1>11. CASE StartReply
  <2>1. turn.call => turn.step # "idle"
    BY DEF TurnInv
  <2>2. CASE turn.call /\ \E v : Finish(v)
    BY <1>11, <1>finish, <2>1, <2>2 DEF StartReply, readOnly
  <2>3. CASE turn'.id = turn.id /\ UNCHANGED <<pending, stray>>
    BY <1>11, <1>same, <2>3 DEF StartReply, readOnly
  <2> QED BY <1>11, <1>goes, <2>2, <2>3 DEF StartReply
<1>12. CASE StopReply
  <2>1. CASE turn.step # "idle" /\ \E v : Finish(v)
    BY <1>12, <1>finish, <2>1 DEF StopReply, readOnly
  <2>2. CASE turn'.id = turn.id /\ UNCHANGED <<pending, stray>>
    BY <1>12, <1>same, <2>2 DEF StopReply, readOnly
  <2> QED BY <1>12, <1>goes, <2>1, <2>2 DEF StopReply
<1>13. CASE EnsureSession
  <2>1. CASE UNCHANGED <<pending, childVars, stray>> /\ At("submit")
    BY <1>same, <1>goes, <2>1 DEF childVars
  <2>2. CASE pending' = {} /\ stray' = {}
    BY <1>none, <2>2
  <2> QED BY <1>13, <2>1, <2>2 DEF EnsureSession
<1>14. CASE ClaudeInterrupt
  <2>1. provider = "claude" /\ UNCHANGED <<pending, stray>>
    BY <1>14 DEF ClaudeInterrupt, Claude
  <2>2. child' = child \/ child' = "killed"
    BY <1>14 DEF ClaudeInterrupt
  <2> QED BY <1>budget, <2>1, <2>2 DEF PendingOK, ApprovalsOfActiveTurn, provider
<1>15. CASE ClaudeExit
  BY <1>15, <1>none DEF ClaudeExit
<1>16. CASE ClaudeLine
  BY <1>16, <1>same DEF ClaudeLine
<1>17. CASE ClaudeAsks
  <2> DEFINE l == Head(wire)
             p == [turn |-> l.turn, ask |-> l.ask, of |-> l.turn]
  <2>1. UNCHANGED <<turn, stray, child>>
    BY <1>17 DEF ClaudeAsks
  <2>2. CASE UNCHANGED pending
    BY <1>same, <2>1, <2>2
  <2>3. CASE Running(l.turn) /\ ~(Cardinality(pending) >= MaxPending)
             /\ pending' = pending \cup {p}
    <3>1. p \in [turn : Turn, ask : Ask, of : Turn]
      BY <1>17, HeadOfWire DEF ClaudeAsks, LineType, Event
    <3>2. provider = "claude" /\ child \in {"up", "killed"}
      BY <1>17, <2>3, HeadOfWire DEF ClaudeAsks, Claude, ProcessOK, LineType, Event
    <3>3. ApprovalsOfActiveTurn'
      BY <1>budget, <2>1, <3>2 DEF ApprovalsOfActiveTurn, provider
    <3>4. Cardinality(pending) \in Nat /\ MaxPending \in Nat
      BY FS_CardinalityType, StreamConstants DEF PendingOK
    <3> QED BY <2>1, <2>3, <3>1, <3>3, <3>4, OneMorePending DEF PendingOK
  <2> QED BY <1>17, <2>2, <2>3 DEF ClaudeAsks
<1>18. ASSUME NEW p \in pending, RpcRespond(p) \/ ClaudeRespond(p) PROVE PendingOK'
  <2>1. pending' \subseteq pending /\ UNCHANGED <<turn, stray, child>>
    BY <1>18 DEF RpcRespond, ClaudeRespond, NoLongerPending
  <2>2. ApprovalsOfActiveTurn'
    BY <1>budget, <2>1 DEF PendingOK, ApprovalsOfActiveTurn, provider
  <2> QED BY <2>1, <2>2, FewerPending DEF PendingOK
<1> QED
  BY <1>1, <1>2, <1>3, <1>4, <1>5, <1>6, <1>7, <1>8, <1>9, <1>10, <1>11, <1>12,
     <1>13, <1>14, <1>15, <1>16, <1>17, <1>18 DEF Next

-----------------------------------------------------------------------------
\* The theorems.

LEMMA AdapterInit == Init => AdapterInv
<1> SUFFICES ASSUME Init PROVE AdapterInv
  OBVIOUS
<1> USE DEF Init, StreamInit
<1>1. 0 \notin Turn
  BY DEF Turn
<1>2. TurnInv
  BY <1>1 DEF TurnInv, Idle, Steps, NoQueue
<1>3. QueueInv
  <2>1. queue \in QueueType /\ queue.hand = <<>> /\ queue.items = <<>>
    BY NoEvents DEF NoQueue, QueueType
  <2>2. Accounted
    BY <2>1, NoEvents DEF Accounted
  <2> QED BY <2>1, <2>2, NoEvents, StreamConstants DEF QueueInv
<1>4. ProcessOK
  <2>1. /\ budget \in [provider : {"codex", "hermes", "claude"}, turns : 1 .. MaxTurns,
                       lines : 0 .. 9, wire : 1 .. 9]
        /\ native \in [Turn -> NativeType] /\ ~\E t \in Turn : Running(t)
    BY StreamConstants DEF NativeType, Running
  <2>2. wire \in Seq(LineType) /\ Len(wire) <= budget.wire
    BY <2>1, EmptySeq
  <2> QED BY <2>1, <2>2 DEF ProcessOK
<1>5. PendingOK
  BY FS_EmptySet, StreamConstants DEF PendingOK, ApprovalsOfActiveTurn
<1> QED BY <1>2, <1>3, <1>4, <1>5 DEF AdapterInv

LEMMA AdapterStep == AdapterInv /\ [Next]_vars => AdapterInv'
<1> SUFFICES ASSUME AdapterInv, [Next]_vars PROVE AdapterInv'
  OBVIOUS
<1>1. CASE Next
  <2>1. TurnMove /\ UNCHANGED budget
    BY <1>1, QueueMoves, BudgetStays DEF AdapterInv
  <2>2. TurnInv' /\ QueueInv'
    BY <2>1, TurnMoveKeeps, QueueMoveKeeps DEF AdapterInv
  <2>3. ProcessOK' /\ PendingOK'
    BY <1>1, ProcessStep, PendingStep DEF AdapterInv
  <2> QED BY <2>2, <2>3 DEF AdapterInv
<1>2. CASE UNCHANGED vars
  <2>1. TurnInv' /\ QueueInv'
    BY <1>2 DEF AdapterInv, vars, queueVars, TurnInv, QueueInv, Accounted, provider
  <2>2. ProcessOK' /\ PendingOK'
    BY <1>2
    DEF AdapterInv, vars, childVars, ProcessOK, PendingOK, ApprovalsOfActiveTurn, provider,
        Running
  <2> QED BY <2>1, <2>2 DEF AdapterInv
<1> QED BY <1>1, <1>2

LEMMA AdapterInvHolds == Spec => []AdapterInv
BY AdapterInit, AdapterStep, PTL DEF Spec

\* Every variable of the adapters has its type, and no buffer exceeds its limit.
THEOREM AdapterTypeCorrect == Spec => []AdapterTypeOK
<1>1. AdapterInv => AdapterTypeOK
  BY QueueTypes DEF AdapterInv, TurnInv, QueueInv, ProcessOK, PendingOK, AdapterTypeOK
<1> QED BY <1>1, AdapterInvHolds, PTL

\* The pending requests of Codex and Hermes are those of the active turn, and
\* those of Claude die with the child.
THEOREM ApprovalsAreOfTheActiveTurn == Spec => []ApprovalsOfActiveTurn
<1>1. AdapterInv => ApprovalsOfActiveTurn
  BY DEF AdapterInv, PendingOK
<1> QED BY <1>1, AdapterInvHolds, PTL

\* What was taken is the beginning of what was accepted.
LEMMA TakenIsPrefix ==
  ASSUME QueueInv
  PROVE  Len(got) <= Len(pushed) /\ got = SubSeq(pushed, 1, Len(got))
<1>1. PICK dropped \in Events : pushed = got \o (queue.hand \o (queue.items \o dropped))
  BY DEF QueueInv, Accounted
<1> DEFINE rest == queue.hand \o (queue.items \o dropped)
<1>2. got \in Events /\ rest \in Events
  BY <1>1, QueueTypes, Concatenation DEF QueueInv
<1>3. pushed = got \o rest
  BY <1>1
<1> HIDE DEF rest
<1>4. Len(got) \in Nat /\ Len(rest) \in Nat /\ Len(pushed) = Len(got) + Len(rest)
  BY <1>2, <1>3, LenProperties, ConcatProperties DEF Events
<1>5. CASE Len(got) = 0
  <2>1. got = <<>>
    BY <1>2, <1>5, EmptySeq DEF Events
  <2>2. SubSeq(pushed, 1, 0) = <<>>
    BY SubSeqEmpty
  <2> QED BY <1>4, <1>5, <2>1, <2>2
<1>6. CASE Len(got) # 0
  <2>1. 1 \in 1 .. Len(got) /\ Len(got) \in 1 .. Len(got)
    BY <1>4, <1>6
  <2>2. SubSeq(got \o rest, 1, Len(got)) = SubSeq(got, 1, Len(got))
    BY <1>2, <2>1, SubSeqOfConcat1 DEF Events
  <2>3. SubSeq(got, 1, Len(got)) = got
    BY <1>2, SubSeqFull DEF Events
  <2> QED BY <1>3, <1>4, <2>2, <2>3
<1> QED BY <1>5, <1>6

\* A queue that has ended and holds nothing has delivered everything.
LEMMA AllTaken ==
  ASSUME QueueInv, queue.state = "ended", queue.hand \o queue.items = <<>>
  PROVE  got = pushed
<1>1. queue.hand = <<>> /\ queue.items = <<>>
  BY QueueTypes, ConcatEqualIffEmpty DEF Events
<1>2. pushed = got \o (<<>> \o (<<>> \o <<>>))
  BY <1>1 DEF QueueInv, Accounted
<1> QED BY <1>2, NoEvents DEF QueueInv

\* A turn that completes has delivered every event of its queue, in order, and
\* no turn delivers anything else or out of order.
THEOREM EventsDeliveredInFull == Spec => DeliveredInFull
<1> DEFINE Delivers ==
      /\ Len(got) <= Len(pushed) /\ got = SubSeq(pushed, 1, Len(got))
      /\ \A t \in Turn : verdict[t] = "active" /\ verdict'[t] = "completed" => got = pushed
<1>1. AdapterInv /\ Next => Delivers
  <2> SUFFICES ASSUME AdapterInv, Next PROVE Delivers
    OBVIOUS
  <2>1. TurnMove
    BY QueueMoves DEF AdapterInv
  <2>2. ASSUME NEW t \in Turn, verdict[t] = "active", verdict'[t] = "completed"
        PROVE  got = pushed
    <3>1. verdict \in [Turn -> {"none", "active", "completed", "failed"}]
      BY DEF AdapterInv, TurnInv
    <3>2. verdict' # verdict
      BY <2>2
    <3>3. verdict' # [verdict EXCEPT ![turn.id] = "failed"]
      BY <2>2, <3>1
    <3>4. \A u \in Turn : verdict' # [verdict EXCEPT ![u] = "active"]
      BY <2>2, <3>1
    <3>5. queue.state = "ended" /\ queue.hand \o queue.items = <<>>
      BY <2>1, <3>2, <3>3, <3>4 DEF TurnMove, TurnEnded
    <3> QED BY <3>5, AllTaken DEF AdapterInv
  <2> QED BY <2>2, TakenIsPrefix DEF AdapterInv
<1>2. AdapterInv /\ [Next]_vars => [Delivers]_vars
  BY <1>1
<1> QED BY <1>2, AdapterInvHolds, PTL DEF Spec, DeliveredInFull

-----------------------------------------------------------------------------
\* The adapters implement TurnStream.

\* The active turn is the one the generator works for.
OneActive == \A t \in Turn : verdict[t] = "active" <=> t = turn.id

LEMMA OneActiveKeeps ==
  ASSUME TurnInv, TurnMove, OneActive
  PROVE  OneActive'
<1>1. 0 \notin Turn /\ Idle.id = 0
  BY StreamConstants DEF Turn, Idle
<1>2. verdict \in [Turn -> {"none", "active", "completed", "failed"}]
  BY DEF TurnInv
<1>3. CASE verdict' = verdict /\ turn'.id = turn.id
  BY <1>3 DEF OneActive
<1>4. ASSUME NEW v \in {"failed", "completed"}, turn' = Idle,
             verdict' = [verdict EXCEPT ![turn.id] = v]
      PROVE  OneActive'
  BY <1>1, <1>2, <1>4 DEF OneActive
<1>5. ASSUME NEW t \in Turn, turn.step = "idle",
             turn' = [Idle EXCEPT !.id = t, !.step = "process"],
             verdict' = [verdict EXCEPT ![t] = "active"]
      PROVE  OneActive'
  <2>1. turn.id = 0 /\ turn'.id = t
    BY <1>5 DEF TurnInv, Idle
  <2> QED BY <1>1, <1>2, <1>5, <2>1 DEF OneActive
<1>6. ASSUME NEW steps, Goes(steps) PROVE turn'.id = turn.id
  BY <1>6 DEF Goes, At, TurnInv
<1>7. /\ turn' = [turn EXCEPT !.call = TRUE] => turn'.id = turn.id
      /\ turn' = [turn EXCEPT !.aborted = turn.step] => turn'.id = turn.id
  BY DEF TurnInv
<1> QED BY <1>3, <1>4, <1>5, <1>6, <1>7 DEF TurnMove, TurnEnded

\* What comes after what was delivered.
LEMMA HeadComesNext ==
  ASSUME NEW g \in Events, NEW m \in Events, NEW d \in Events, m # <<>>
  PROVE  /\ Len(g) < Len(g \o (m \o d))
         /\ (g \o (m \o d))[Len(g) + 1] = Head(m)
<1> DEFINE rest == m \o d
<1>1. Len(m) \in Nat \ {0} /\ Head(m) = m[1]
  BY FirstAndRest, HeadTailProperties DEF Events
<1>2. rest \in Events /\ Len(rest) = Len(m) + Len(d) /\ Len(d) \in Nat
  BY Concatenation, ConcatProperties, LenProperties DEF Events
<1>3. rest[1] = m[1]
  BY <1>1, ConcatProperties DEF Events
<1> HIDE DEF rest
<1>4. Len(rest) \in Nat \ {0} /\ Len(g) \in Nat
  BY <1>1, <1>2, LenProperties DEF Events
<1>5. Len(g \o rest) = Len(g) + Len(rest)
  BY <1>2, ConcatProperties DEF Events
<1>6. (g \o rest)[Len(g) + 1] = rest[1]
  <2>1. Len(g) + 1 \in 1 .. Len(g) + Len(rest) /\ ~(Len(g) + 1 <= Len(g))
        /\ (Len(g) + 1) - Len(g) = 1
    BY <1>4
  <2>2. \A i \in 1 .. Len(g) + Len(rest) :
          (g \o rest)[i] = IF i <= Len(g) THEN g[i] ELSE rest[i - Len(g)]
    BY <1>2, ConcatProperties DEF Events
  <2>3. (g \o rest)[Len(g) + 1] = rest[(Len(g) + 1) - Len(g)]
    BY <2>1, <2>2
  <2> QED BY <2>1, <2>3
<1> QED BY <1>1, <1>3, <1>4, <1>5, <1>6 DEF rest

LEMMA NextDelivered ==
  ASSUME QueueInv, queue.hand \o queue.items # <<>>
  PROVE  /\ Len(got) < Len(pushed)
         /\ pushed[Len(got) + 1] = Head(queue.hand \o queue.items)
<1>1. PICK dropped \in Events : pushed = got \o (queue.hand \o (queue.items \o dropped))
  BY DEF QueueInv, Accounted
<1> DEFINE m == queue.hand \o queue.items
<1>2. m \in Events /\ got \in Events /\ m # <<>>
  BY QueueTypes, Concatenation DEF QueueInv
<1>3. Associated(queue.hand, queue.items, dropped)
  BY QueueTypes, AllAssociate
<1>4. pushed = got \o (m \o dropped)
  BY <1>1, <1>3 DEF Associated
<1> HIDE DEF m
<1>5. Len(got) < Len(pushed) /\ pushed[Len(got) + 1] = Head(m)
  BY <1>2, <1>4, HeadComesNext
<1> QED BY <1>5 DEF m

\* What the queue's operations are to the stream.
StreamStep == S!Next \/ UNCHANGED <<verdict, queue.state, pushed, got>>

LEMMA ClosingIsClose ==
  ASSUME QueueInv, UNCHANGED verdict, QueueEnds \/ QueueFails
  PROVE  StreamStep
<1>1. queue \in QueueType
  BY DEF QueueInv
<1>2. CASE queue.state # "open"
  BY <1>2 DEF QueueEnds, QueueFails, End, Fail, StreamStep
<1>3. CASE queue.state = "open"
  <2>1. queue'.state \in {"ended", "failed"} /\ UNCHANGED <<pushed, got>>
    BY <1>1, <1>3 DEF QueueEnds, QueueFails, End, Fail, QueueType
  <2> QED BY <1>3, <2>1 DEF StreamStep, S!Next, S!Close
<1> QED BY <1>2, <1>3

LEMMA PushingIsAccept ==
  ASSUME QueueInv, UNCHANGED verdict, NEW e \in LineType, Pushes(e) \/ PushesLast(e)
  PROVE  StreamStep
<1>1. queue \in QueueType /\ e \in Event /\ UNCHANGED got
  BY DEF QueueInv, LineType, Pushes, PushesLast
<1>2. CASE queue.state # "open"
  BY <1>2 DEF Pushes, PushesLast, Push, End, StreamStep
<1>3. CASE queue.state = "open" /\ ~queue.waits /\ Full(queue)
  <2>1. queue'.state = "failed" /\ UNCHANGED pushed
    BY <1>1, <1>3 DEF Pushes, PushesLast, Push, End, Fail, QueueType
  <2> QED BY <1>1, <1>3, <2>1 DEF StreamStep, S!Next, S!Close
<1>4. CASE queue.state = "open" /\ (queue.waits \/ ~Full(queue))
  <2>1. queue'.state \in {"open", "ended"}
    <3>1. Push(queue, e) \in QueueType /\ Push(queue, e).state = "open"
      BY <1>1, <1>4, QueueTypes, Appending DEF Push, QueueType
    <3>2. CASE Pushes(e)
      BY <3>1, <3>2 DEF Pushes
    <3>3. CASE PushesLast(e)
      BY <3>1, <3>3 DEF PushesLast, End, QueueType
    <3> QED BY <3>2, <3>3
  <2>2. pushed' = Append(pushed, e)
    BY <1>4 DEF Pushes, PushesLast
  <2>3. S!Accept(e)
    BY <1>1, <1>4, <2>1, <2>2 DEF S!Accept
  <2> QED BY <1>1, <2>3 DEF StreamStep, S!Next
<1> QED BY <1>2, <1>3, <1>4

LEMMA TurnMoveIsStreamStep ==
  ASSUME TurnInv, QueueInv, OneActive, TurnMove
  PROVE  StreamStep
<1>0. turn.step # "idle" => turn.id \in Turn /\ verdict[turn.id] = "active"
  BY DEF TurnInv, OneActive
<1>1. CASE UNCHANGED <<verdict, queueVars>>
  BY <1>1 DEF queueVars, StreamStep
<1>2. ASSUME NEW t \in Turn, turn.step = "idle", verdict[t] = "none",
             \A u \in Turn : u < t => verdict[u] # "none",
             verdict' = [verdict EXCEPT ![t] = "active"], UNCHANGED queueVars
      PROVE  StreamStep
  <2>1. \A u \in Turn : verdict[u] # "active"
    BY <1>2, StreamConstants DEF TurnInv, OneActive, Turn
  <2>2. S!Begin(t)
    BY <1>2, <2>1 DEF S!Begin, S!streamVars, queueVars
  <2> QED BY <2>2 DEF StreamStep, S!Next
<1>3. CASE turn.step # "idle" /\ TurnEnded("failed")
  <2>1. S!End(turn.id, "failed")
    BY <1>0, <1>3 DEF TurnEnded, NoQueue, S!End
  <2> QED BY <1>0, <1>3, <2>1 DEF StreamStep, S!Next
<1>4. CASE /\ turn.step # "idle" /\ TurnEnded("completed")
           /\ queue.state = "ended" /\ queue.hand \o queue.items = <<>>
  <2>1. got = pushed
    BY <1>4, AllTaken
  <2>2. S!End(turn.id, "completed")
    BY <1>0, <1>4, <2>1 DEF TurnEnded, NoQueue, S!End
  <2> QED BY <1>0, <1>4, <2>2 DEF StreamStep, S!Next
<1>5. CASE /\ turn.step = "process"
           /\ turn' = Idle /\ verdict' = [verdict EXCEPT ![turn.id] = "failed"]
           /\ UNCHANGED queueVars
  <2>1. queue.state = "none" /\ pushed = <<>> /\ got = <<>>
    BY <1>5 DEF TurnInv, QueueInv
  <2>2. S!End(turn.id, "failed")
    BY <1>0, <1>5, <2>1 DEF queueVars, S!End
  <2> QED BY <1>0, <1>5, <2>2 DEF StreamStep, S!Next
<1>6. CASE /\ turn.step = "submit" /\ ~turn.call /\ queue' = NewQueue
           /\ UNCHANGED <<verdict, pushed, got>>
  <2>1. queue.state = "none" /\ queue'.state = "open"
    BY <1>6 DEF TurnInv, NewQueue, NoQueue
  <2>2. S!Open
    BY <1>0, <1>6, <2>1 DEF S!Open
  <2> QED BY <2>2 DEF StreamStep, S!Next
<1>7. CASE UNCHANGED verdict /\ (QueueEnds \/ QueueFails)
  BY <1>7, ClosingIsClose
<1>8. CASE UNCHANGED verdict /\ \E e \in LineType : Pushes(e) \/ PushesLast(e)
  BY <1>8, PushingIsAccept
<1>9. CASE UNCHANGED verdict /\ TakesOne
  <2>1. /\ got' = Append(got, pushed[Len(got) + 1]) /\ Len(got) < Len(pushed)
        /\ UNCHANGED pushed
    BY <1>9, NextDelivered DEF TakesOne
  <2>2. queue'.state = queue.state
    BY <1>9 DEF TakesOne, QueueInv, QueueType
  <2> QED BY <1>9, <2>1, <2>2 DEF StreamStep, S!Next, S!Deliver
<1>10. CASE UNCHANGED verdict /\ Waits
  BY <1>10 DEF Waits, QueueInv, QueueType, StreamStep
<1> QED BY <1>1, <1>2, <1>3, <1>4, <1>5, <1>6, <1>7, <1>8, <1>9, <1>10 DEF TurnMove

\* The three adapters, the child and the loop together give the coordinator one
\* stream per turn, whatever the limits of their buffers.
THEOREM Refinement == Spec => ImplementsTurnStream
<1>1. Init => S!Init /\ OneActive
  <2>1. 0 \notin Turn
    BY StreamConstants DEF Turn
  <2> QED BY <2>1 DEF Init, StreamInit, NoQueue, Idle, S!Init, OneActive
<1>2. AdapterInv /\ OneActive /\ [Next]_vars => OneActive'
  <2>1. CASE Next
    BY <2>1, QueueMoves, OneActiveKeeps DEF AdapterInv
  <2>2. CASE UNCHANGED vars
    BY <2>2 DEF vars, OneActive
  <2> QED BY <2>1, <2>2
<1>3. AdapterInv /\ OneActive /\ [Next]_vars => [S!Next]_<<verdict, S!streamVars>>
  <2>1. CASE AdapterInv /\ OneActive /\ Next
    BY <2>1, QueueMoves, TurnMoveIsStreamStep DEF AdapterInv, StreamStep, S!streamVars
  <2>2. CASE UNCHANGED vars
    BY <2>2 DEF vars, queueVars, S!streamVars
  <2> QED BY <2>1, <2>2
<1> QED BY <1>1, <1>2, <1>3, AdapterInvHolds, PTL DEF Spec, ImplementsTurnStream, S!Spec

-----------------------------------------------------------------------------
\* Whose events are delivered.

Activity == {"text", "ask", "error", "done"}

\* A turn that is active here, or ended here before it did at the child.
Known(t) == t = turn.id \/ t \in stray

KnownNext(t) == t = turn'.id \/ t \in stray'

\* An event that may be delivered to the active turn.
Own(e) == e.turn # turn.id => e.turn \in stray /\ (provider = "codex" => e.early)

RunningIsKnown == \A t \in Turn : Running(t) => Known(t)
UnreadIsKnown ==
  \A i \in DOMAIN wire : wire[i].kind \in Activity => Known(wire[i].turn)
PushedIsOwn == \A i \in DOMAIN pushed : Own(pushed[i])

OwnInv == RunningIsKnown /\ UnreadIsKnown /\ PushedIsOwn

\* What a step does to the turn here and to the turns that were left at the child.
StrayMove ==
  \/ turn'.id = turn.id /\ UNCHANGED stray
  \/ turn.id = 0 /\ UNCHANGED <<stray, pushed>> /\ pushed = <<>>
  \/ turn.id \in Turn /\ \E v : Finish(v)
  \/ /\ wire' = <<>> /\ ~\E t \in Turn : Running(t)'
     /\ UNCHANGED pushed /\ pushed = <<>>

LEMMA StrayMoves ==
  ASSUME AdapterInv, Next
  PROVE  StrayMove
<1>turn. turn.step # "idle" => turn.id \in Turn
  BY DEF AdapterInv, TurnInv
<1>none. queue.state = "none" => pushed = <<>>
  BY DEF AdapterInv, QueueInv
<1>step. turn.step \in {"idle", "process", "session"} => pushed = <<>>
  BY <1>none DEF AdapterInv, TurnInv
<1>goes. \A s : At(s) => turn'.id = turn.id
  BY DEF At, AdapterInv, TurnInv
<1>call. turn.call => turn.step = "submit"
  BY DEF AdapterInv, TurnInv
<1>same. turn' \in {turn, [turn EXCEPT !.call = TRUE], [turn EXCEPT !.aborted = turn.step]}
           => turn'.id = turn.id
  BY DEF AdapterInv, TurnInv
<1>finish. (\E v : Finish(v)) /\ turn.step # "idle" => StrayMove
  BY <1>turn DEF StrayMove
<1>on. turn'.id = turn.id /\ UNCHANGED stray => StrayMove
  BY DEF StrayMove
<1>1. CASE \E t \in Turn : StartTurn(t)
  <2>1. turn.id = 0 /\ turn.step = "idle" /\ UNCHANGED <<stray, pushed>>
    BY <1>1 DEF StartTurn, Idle, queueVars
  <2> QED BY <1>step, <2>1 DEF StrayMove
<1>2. CASE \E t \in Turn : NativeSpeaks(t) \/ NativeEnds(t) \/ Replies(t)
  BY <1>2, <1>same, <1>on DEF NativeSpeaks, NativeEnds, Replies, childOnly
<1>3. CASE Take \/ LeaveLoop
  <2>1. turn.step = "stream" /\ queue.state \in {"open", "ended", "failed"}
    BY <1>3, QueueTypes DEF Take, LeaveLoop, AdapterInv, TurnInv
  <2> QED BY <1>3, <2>1, <1>finish, <1>same, <1>on DEF Take, LeaveLoop
<1>4. CASE RpcEnsure
  BY <1>4, <1>finish, <1>goes, <1>on DEF RpcEnsure
<1>5. CASE RpcSession
  BY <1>5, <1>finish, <1>goes, <1>on DEF RpcSession
<1>6. CASE RpcSubmit
  BY <1>6, <1>finish, <1>goes, <1>same, <1>on DEF RpcSubmit
<1>7. CASE RpcInterrupt \/ ClaudeInterrupt
  BY <1>7, <1>same, <1>on DEF RpcInterrupt, ClaudeInterrupt
<1>8. CASE RpcExit \/ RpcTimesOut
  BY <1>8, <1>finish, <1>call, <1>same, <1>on DEF RpcExit, RpcTimesOut
<1>9. CASE Notification
  BY <1>9, <1>same, <1>on DEF Notification
<1>10. CASE StartReply
  BY <1>10, <1>finish, <1>call, <1>goes, <1>same, <1>on DEF StartReply
<1>11. CASE StopReply
  BY <1>11, <1>finish, <1>goes, <1>same, <1>on DEF StopReply
<1>12. CASE EnsureSession
  <2>1. CASE At("submit") /\ UNCHANGED stray
    BY <2>1, <1>goes, <1>on
  <2>2. CASE wire' = <<>> /\ AllOver /\ UNCHANGED queueVars
    <3>1. ~\E t \in Turn : Running(t)'
      BY <2>2, AllOverKeeps DEF AdapterInv
    <3>2. pushed = <<>> /\ UNCHANGED pushed
      BY <1>12, <1>step, <2>2 DEF EnsureSession, queueVars
    <3> QED BY <2>2, <3>1, <3>2 DEF StrayMove
  <2> QED BY <1>12, <2>1, <2>2 DEF EnsureSession, AllOver
<1>13. CASE ClaudeSubmit
  BY <1>13, <1>finish, <1>goes, <1>on DEF ClaudeSubmit
<1>14. CASE ClaudeExit \/ ClaudeLine \/ ClaudeAsks
  BY <1>14, <1>same, <1>on DEF ClaudeExit, ClaudeLine, ClaudeAsks
<1>15. CASE \E p \in pending : RpcRespond(p) \/ ClaudeRespond(p)
  BY <1>15, <1>same, <1>on DEF RpcRespond, ClaudeRespond
<1> QED
  BY <1>1, <1>2, <1>3, <1>4, <1>5, <1>6, <1>7, <1>8, <1>9, <1>10, <1>11, <1>12,
     <1>13, <1>14, <1>15 DEF Next

\* Only the active turn begins to run at the child.
LEMMA RunningMoves ==
  ASSUME AdapterInv, Next, NEW t \in Turn, Running(t)'
  PROVE  Running(t) \/ (t = turn.id /\ turn'.id = turn.id)
<1>native. native \in [Turn -> NativeType]
  BY DEF AdapterInv, ProcessOK
<1>same. UNCHANGED native => Running(t)
  BY DEF Running
<1>set. \A u \in Turn, s \in {"working", "asking", "over"}, a \in Ask \cup {"none"} :
          Set(u, s, a) /\ Running(u) => Running(t)
  <2> SUFFICES ASSUME NEW u \in Turn, NEW s \in {"working", "asking", "over"},
                      NEW a \in Ask \cup {"none"}, Set(u, s, a), Running(u)
               PROVE  Running(t)
    OBVIOUS
  <2>1. \A x \in Turn \ {u} : native'[x] = native[x]
    BY SetKeeps DEF AdapterInv
  <2> QED BY <2>1 DEF Running
<1>over. AllOver => FALSE
  BY AllOverKeeps DEF AdapterInv
<1>turn. turn.step # "idle" => turn.id \in Turn
  BY DEF AdapterInv, TurnInv
<1>1. CASE \E u \in Turn : NativeSpeaks(u) \/ NativeEnds(u) \/ Replies(u)
  <2>1. PICK u \in Turn : NativeSpeaks(u) \/ NativeEnds(u) \/ Replies(u)
    BY <1>1
  <2>2. \/ UNCHANGED native
        \/ Running(u) /\ \E s \in {"asking", "over"}, a \in Ask \cup {"none"} : Set(u, s, a)
        \/ Set(u, "over", "none")
    BY <2>1 DEF NativeSpeaks, NativeEnds, Replies, Running
  <2>3. Set(u, "over", "none") => Running(t)
    <3>1. Set(u, "over", "none") => \A x \in Turn \ {u} : native'[x] = native[x]
      BY SetKeeps DEF AdapterInv
    <3>2. Set(u, "over", "none") => native'[u].state = "over"
      BY SetKeeps DEF AdapterInv
    <3> QED BY <3>1, <3>2 DEF Running
  <2> QED BY <2>2, <2>3, <1>same, <1>set
<1>2. CASE RpcSubmit \/ ClaudeSubmit
  <2>1. turn.id \in Turn
    BY <1>2, <1>turn DEF RpcSubmit, ClaudeSubmit
  <2>2. CASE UNCHANGED native
    BY <2>2, <1>same
  <2>3. CASE Set(turn.id, "working", "none") /\ turn'.id = turn.id
    <3>1. \A x \in Turn \ {turn.id} : native'[x] = native[x]
      BY <2>1, <2>3, SetKeeps DEF AdapterInv
    <3> QED BY <2>3, <3>1 DEF Running
  <2>4. At("stream") \/ turn' = [turn EXCEPT !.call = TRUE] => turn'.id = turn.id
    BY DEF At, AdapterInv, TurnInv
  <2> QED BY <1>2, <2>2, <2>3, <2>4 DEF RpcSubmit, ClaudeSubmit
<1>3. CASE RpcExit \/ ClaudeExit
  BY <1>3, <1>over DEF RpcExit, ClaudeExit, ChildGone, AllOver
<1>4. CASE EnsureSession
  BY <1>4, <1>over, <1>same DEF EnsureSession, AllOver, childVars
<1>5. CASE ClaudeAsks
  <2>1. Head(wire).turn \in Turn
    BY <1>5, HeadOfWire DEF ClaudeAsks, AdapterInv, LineType, Event
  <2> QED BY <1>5, <1>same, <1>set, <2>1 DEF ClaudeAsks
<1>6. CASE \E p \in pending : RpcRespond(p) \/ ClaudeRespond(p)
  <2>1. PICK p \in pending : RpcRespond(p) \/ ClaudeRespond(p)
    BY <1>6
  <2>2. p.of \in Turn
    BY DEF AdapterInv, PendingOK
  <2>3. UNCHANGED native \/ (Running(p.of) /\ Set(p.of, "working", "none"))
    BY <2>1 DEF RpcRespond, ClaudeRespond, Answered, Running
  <2> QED BY <2>2, <2>3, <1>same, <1>set
<1>7. CASE (\E u \in Turn : StartTurn(u)) \/ Take \/ LeaveLoop \/ RpcEnsure \/ RpcSession
           \/ RpcInterrupt \/ RpcTimesOut \/ Notification \/ StartReply \/ StopReply
           \/ ClaudeInterrupt \/ ClaudeLine
  <2>1. UNCHANGED native
    BY <1>7 DEF StartTurn, Take, LeaveLoop, RpcEnsure, RpcSession, RpcInterrupt, RpcTimesOut,
                Notification, StartReply, StopReply, readOnly, ClaudeInterrupt, ClaudeLine,
                childVars
  <2> QED BY <2>1, <1>same
<1> QED BY <1>1, <1>2, <1>3, <1>4, <1>5, <1>6, <1>7 DEF Next

\* What a step does to the lines of the child: activity is of a running turn.
WireMove ==
  \/ UNCHANGED wire
  \/ wire # <<>> /\ wire' = Tail(wire)
  \/ wire' = <<>>
  \/ \E l \in LineType : wire' = Append(wire, l) /\ (l.kind \in Activity => Running(l.turn))

LEMMA WireMoves ==
  ASSUME AdapterInv, Next
  PROVE  WireMove
<1>1. CASE \E t \in Turn : NativeSpeaks(t) \/ NativeEnds(t) \/ Replies(t)
  <2>1. PICK t \in Turn : NativeSpeaks(t) \/ NativeEnds(t) \/ Replies(t)
    BY <1>1
  <2>2. CASE Replies(t)
    <3>1. \E k \in {"reply", "refusal", "stopped", "unstopped"} : wire' = Append(wire, Line(k, t))
      BY <2>2 DEF Replies, Says
    <3>2. \A k \in {"reply", "refusal", "stopped", "unstopped"} :
            Line(k, t) \in LineType /\ Line(k, t).kind \notin Activity
      BY LineFacts DEF Line, Activity
    <3> QED BY <3>1, <3>2 DEF WireMove
  <2>3. CASE NativeSpeaks(t) \/ NativeEnds(t)
    <3>1. Running(t)
      BY <2>3 DEF NativeSpeaks, NativeEnds, Running
    <3>2. \/ \E k \in {"text", "error", "done"} : wire' = Append(wire, Line(k, t))
          \/ \E a \in Ask : wire' = Append(wire, AskLine(t, a))
      BY <2>3 DEF NativeSpeaks, NativeEnds, Says
    <3>3. /\ \A k \in {"text", "error", "done"} : Line(k, t) \in LineType /\ Line(k, t).turn = t
          /\ \A a \in Ask : AskLine(t, a) \in LineType /\ AskLine(t, a).turn = t
      BY LineFacts DEF Line, AskLine
    <3> QED BY <3>1, <3>2, <3>3 DEF WireMove
  <2> QED BY <2>1, <2>2, <2>3
<1>2. CASE Notification \/ StartReply \/ StopReply \/ ClaudeLine \/ ClaudeAsks
  BY <1>2 DEF Notification, StartReply, StopReply, Read, ClaudeLine, ClaudeAsks, WireMove
<1>3. CASE EnsureSession
  BY <1>3 DEF EnsureSession, childVars, WireMove
<1>4. CASE RpcExit \/ ClaudeExit
  BY <1>4 DEF RpcExit, ClaudeExit, ChildGone, WireMove
<1>5. CASE \E p \in pending : RpcRespond(p) \/ ClaudeRespond(p)
  BY <1>5 DEF RpcRespond, ClaudeRespond, WireMove
<1>6. CASE (\E u \in Turn : StartTurn(u)) \/ Take \/ LeaveLoop \/ RpcEnsure \/ RpcSession
           \/ RpcSubmit \/ RpcInterrupt \/ RpcTimesOut \/ ClaudeSubmit \/ ClaudeInterrupt
  BY <1>6 DEF StartTurn, Take, LeaveLoop, RpcEnsure, RpcSession, RpcSubmit, RpcInterrupt,
              RpcTimesOut, ClaudeSubmit, ClaudeInterrupt, childVars, WireMove
<1> QED BY <1>1, <1>2, <1>3, <1>4, <1>5, <1>6 DEF Next

\* What a step does to the accepted events.
PushMove ==
  \/ UNCHANGED pushed
  \/ pushed' = <<>>
  \/ \E e \in LineType : pushed' = Append(pushed, e) /\ Own(e) /\ UNCHANGED <<turn, stray>>

\* A line that waits to be read is of a known turn.
LEMMA HeadIsKnown ==
  ASSUME AdapterInv, UnreadIsKnown, wire # <<>>, Head(wire).kind \in Activity
  PROVE  Known(Head(wire).turn)
<1>1. wire \in Seq(LineType)
  BY DEF AdapterInv, ProcessOK
<1>2. Head(wire) = wire[1] /\ 1 \in DOMAIN wire
  BY <1>1, EmptySeq
<1> QED BY <1>2 DEF UnreadIsKnown

LEMMA PushMoves ==
  ASSUME AdapterInv, UnreadIsKnown, Next
  PROVE  PushMove
<1>finish. \A v : Finish(v) => PushMove
  BY DEF Finish, PushMove
<1>same. UNCHANGED pushed => PushMove
  BY DEF PushMove
<1>1. CASE Notification
  <2> DEFINE l == Head(wire)
             e == [l EXCEPT !.early = turn.step = "submit"]
  <2>1. /\ UNCHANGED <<turn, stray>> /\ wire # <<>> /\ l.kind \in Activity
        /\ provider \in {"codex", "hermes"}
    BY <1>1 DEF Notification, Read, RpcProviders, Activity
  <2>2. e \in LineType /\ e.turn = l.turn /\ e.early = (turn.step = "submit") /\ e.kind = l.kind
    BY <2>1, HeadOfWire DEF AdapterInv, LineType, Event
  <2>3. Known(l.turn)
    BY <2>1, HeadIsKnown
  <2>4. CASE UNCHANGED pushed
    BY <2>4, <1>same
  <2>5. CASE pushed' = Append(pushed, e) /\ (provider = "codex" => BelongsToTurn(l) /\ l.kind # "done")
    <3>1. Own(e)
      BY <2>2, <2>3, <2>5 DEF Own, Known, BelongsToTurn
    <3> QED BY <2>1, <2>2, <2>5, <3>1 DEF PushMove
  <2>6. Pushes(e) => UNCHANGED pushed \/ pushed' = Append(pushed, e)
    BY DEF Pushes
  <2>7. Notifies(l) => \/ UNCHANGED pushed
                       \/ pushed' = Append(pushed, e) /\ (provider = "codex" => l.kind # "done")
    BY <1>1, <2>1, <2>6 DEF Notification, Notifies, TakesRequest, QueueEnds, QueueFails
  <2> HIDE DEF l, e
  <2>8. (Listens /\ (provider = "codex" => BelongsToTurn(l)) /\ Notifies(l)) \/ UNCHANGED pushed
    BY <1>1 DEF Notification, queueVars, l
  <2> QED BY <2>4, <2>5, <2>7, <2>8
<1>2. CASE ClaudeLine \/ ClaudeAsks
  <2> DEFINE l == Head(wire)
  <2>1. /\ UNCHANGED <<turn, stray>> /\ wire # <<>> /\ l.kind \in Activity
        /\ provider = "claude"
    BY <1>2 DEF ClaudeLine, ClaudeAsks, Claude, Activity
  <2>2. l \in LineType
    BY <2>1, HeadOfWire DEF AdapterInv
  <2>3. Own(l)
    BY <2>1, HeadIsKnown DEF Own, Known
  <2>4. Pushes(l) => UNCHANGED pushed \/ pushed' = Append(pushed, l)
    BY DEF Pushes
  <2>5. UNCHANGED pushed \/ pushed' = Append(pushed, l)
    BY <1>2, <2>4 DEF ClaudeLine, ClaudeAsks, queueVars, QueueFails, QueueEnds
  <2> QED BY <2>1, <2>2, <2>3, <2>5 DEF PushMove
<1>3. CASE (\E t \in Turn : StartTurn(t) \/ NativeSpeaks(t) \/ NativeEnds(t) \/ Replies(t))
           \/ RpcInterrupt \/ EnsureSession \/ ClaudeInterrupt \/ ClaudeExit
           \/ \E p \in pending : RpcRespond(p) \/ ClaudeRespond(p)
  <2>1. UNCHANGED pushed
    BY <1>3 DEF StartTurn, NativeSpeaks, NativeEnds, Replies, childOnly, RpcInterrupt,
                EnsureSession, ClaudeInterrupt, ClaudeExit, ExitHeard, QueueFails, RpcRespond,
                ClaudeRespond, queueVars
  <2> QED BY <2>1, <1>same
<1>4. CASE Take \/ LeaveLoop
  <2>1. turn.step = "stream" /\ queue.state \in {"open", "ended", "failed"}
    BY <1>4, QueueTypes DEF Take, LeaveLoop, AdapterInv, TurnInv
  <2> QED BY <1>4, <2>1, <1>finish, <1>same DEF Take, LeaveLoop
<1>5. CASE RpcEnsure \/ RpcSession \/ RpcSubmit \/ ClaudeSubmit
  BY <1>5, <1>finish, <1>same DEF RpcEnsure, RpcSession, RpcSubmit, ClaudeSubmit, queueVars
<1>6. CASE RpcExit \/ RpcTimesOut \/ StopReply
  BY <1>6, <1>finish, <1>same DEF RpcExit, RpcTimesOut, StopReply, QueueFails, queueVars
<1>7. CASE StartReply
  BY <1>7, <1>finish, <1>same DEF StartReply, queueVars
<1> QED BY <1>1, <1>2, <1>3, <1>4, <1>5, <1>6, <1>7 DEF Next

\* A turn that runs at the child, or has activity there to be read, stays known.
LEMMA StaysKnown ==
  ASSUME AdapterInv, StrayMove, NEW t \in Turn, Known(t), Running(t) \/ Unread(t)
  PROVE  \/ KnownNext(t)
         \/ wire' = <<>> /\ ~\E u \in Turn : Running(u)'
<1>1. 0 \notin Turn
  BY DEF Turn
<1>2. CASE \E v : Finish(v)
  BY <1>2 DEF Finish, Known, KnownNext, Running
<1> QED BY <1>1, <1>2 DEF StrayMove, Known, KnownNext

LEMMA RunningStaysKnown ==
  ASSUME AdapterInv, OwnInv, Next
  PROVE  RunningIsKnown'
<1> SUFFICES ASSUME NEW t \in Turn, Running(t)' PROVE KnownNext(t)
  BY DEF RunningIsKnown, Known, KnownNext
<1>1. CASE Running(t)
  <2>1. Known(t)
    BY <1>1 DEF OwnInv, RunningIsKnown
  <2> QED BY <1>1, <2>1, StrayMoves, StaysKnown
<1>2. CASE t = turn.id /\ turn'.id = turn.id
  BY <1>2 DEF KnownNext
<1> QED BY <1>1, <1>2, RunningMoves

LEMMA UnreadStaysKnown ==
  ASSUME AdapterInv, OwnInv, Next
  PROVE  UnreadIsKnown'
<1> SUFFICES ASSUME NEW i \in DOMAIN wire', wire'[i].kind \in Activity
             PROVE  KnownNext(wire'[i].turn)
  BY DEF UnreadIsKnown, Known, KnownNext
<1>1. wire \in Seq(LineType)
  BY DEF AdapterInv, ProcessOK
<1>2. \A j \in DOMAIN wire : wire[j].turn \in Turn /\ Unread(wire[j].turn)
  BY <1>1 DEF Unread, LineType, Event
<1>3. wire' # <<>>
  OBVIOUS
<1>4. ASSUME NEW j \in DOMAIN wire, wire'[i] = wire[j] PROVE KnownNext(wire'[i].turn)
  <2>1. Known(wire[j].turn)
    BY <1>4 DEF OwnInv, UnreadIsKnown
  <2>2. KnownNext(wire[j].turn)
    <3>1. PICK t \in Turn : t = wire[j].turn
      BY <1>2
    <3>2. Known(t) /\ Unread(t)
      BY <1>2, <2>1, <3>1
    <3>3. KnownNext(t)
      BY <1>3, <3>2, StrayMoves, StaysKnown
    <3> QED BY <3>1, <3>3
  <2> QED BY <1>4, <2>2
<1>5. CASE UNCHANGED wire
  BY <1>4, <1>5
<1>6. CASE wire # <<>> /\ wire' = Tail(wire)
  <2>1. i + 1 \in DOMAIN wire /\ wire'[i] = wire[i + 1]
    BY <1>1, <1>6, HeadTailProperties
  <2> QED BY <1>4, <2>1
<1>7. ASSUME NEW l \in LineType, wire' = Append(wire, l), l.kind \in Activity => Running(l.turn)
      PROVE  KnownNext(wire'[i].turn)
  <2>1. Len(wire) \in Nat /\ DOMAIN wire = 1 .. Len(wire)
    BY <1>1
  <2>2. i \in 1 .. Len(wire) + 1
    BY <1>1, <1>7, AppendProperties
  <2>3. CASE i = Len(wire) + 1
    <3>1. wire'[i] = l
      BY <1>1, <1>7, <2>3, AppendProperties
    <3>2. Running(l.turn) /\ l.turn \in Turn
      BY <1>7, <3>1 DEF LineType, Event
    <3>3. Known(l.turn)
      BY <3>2 DEF OwnInv, RunningIsKnown
    <3>4. KnownNext(l.turn)
      BY <1>3, <3>2, <3>3, StrayMoves, StaysKnown
    <3> QED BY <3>1, <3>4
  <2>4. CASE i # Len(wire) + 1
    <3>1. i \in DOMAIN wire
      BY <2>1, <2>2, <2>4
    <3>2. wire'[i] = wire[i]
      BY <1>1, <1>7, <2>1, <3>1, AppendProperties
    <3> QED BY <1>4, <3>1, <3>2
  <2> QED BY <2>3, <2>4
<1> QED BY <1>3, <1>5, <1>6, <1>7, WireMoves DEF WireMove

LEMMA PushedStaysOwn ==
  ASSUME AdapterInv, OwnInv, Next
  PROVE  PushedIsOwn'
<1>budget. UNCHANGED budget
  BY BudgetStays
<1>1. CASE pushed' = <<>>
  BY <1>1 DEF PushedIsOwn
<1>2. CASE UNCHANGED pushed /\ turn'.id = turn.id /\ UNCHANGED stray
  BY <1>2, <1>budget DEF OwnInv, PushedIsOwn, Own, provider
<1>3. ASSUME NEW e \in LineType, pushed' = Append(pushed, e), Own(e), UNCHANGED <<turn, stray>>
      PROVE  PushedIsOwn'
  <2> SUFFICES ASSUME NEW i \in DOMAIN pushed'
               PROVE  LET f == pushed'[i] IN
                      f.turn # turn'.id => f.turn \in stray' /\ (provider' = "codex" => f.early)
    BY DEF PushedIsOwn, Own
  <2>1. pushed \in Seq(LineType)
    BY DEF AdapterInv, QueueInv, Events
  <2>2. i \in 1 .. Len(pushed) + 1 /\ Len(pushed) \in Nat /\ DOMAIN pushed = 1 .. Len(pushed)
    BY <1>3, <2>1, AppendProperties
  <2>3. Own(pushed'[i])
    <3>1. CASE i = Len(pushed) + 1
      <4>1. pushed'[i] = e
        BY <1>3, <2>1, <3>1, AppendProperties
      <4> QED BY <1>3, <4>1
    <3>2. CASE i # Len(pushed) + 1
      <4>1. i \in DOMAIN pushed
        BY <2>2, <3>2
      <4>2. pushed'[i] = pushed[i]
        BY <1>3, <2>1, <2>2, <4>1, AppendProperties
      <4> QED BY <4>1, <4>2 DEF OwnInv, PushedIsOwn
    <3> QED BY <3>1, <3>2
  <2> QED BY <1>3, <1>budget, <2>3 DEF Own, provider
<1>4. CASE UNCHANGED pushed
  BY <1>1, <1>2, <1>4, StrayMoves DEF StrayMove, Finish
<1>5. PushMove
  BY PushMoves DEF OwnInv
<1> QED BY <1>1, <1>3, <1>4, <1>5 DEF PushMove

LEMMA OwnInvHolds == Spec => []OwnInv
<1>1. Init => OwnInv
  BY DEF Init, StreamInit, OwnInv, RunningIsKnown, UnreadIsKnown, PushedIsOwn, Running
<1>2. AdapterInv /\ OwnInv /\ Next => OwnInv'
  BY RunningStaysKnown, UnreadStaysKnown, PushedStaysOwn DEF OwnInv
<1>3. OwnInv /\ UNCHANGED vars => OwnInv'
  BY DEF vars, queueVars, childVars, OwnInv, RunningIsKnown, UnreadIsKnown, PushedIsOwn,
         Running, Known, Own, provider
<1> QED BY <1>1, <1>2, <1>3, AdapterInvHolds, PTL DEF Spec

\* An event of another turn is delivered only when that turn ended here while it
\* went on at a child that is still used, and at Codex only before the native
\* turn is known, or as a completion: for every number of turns, lines and deaths.
THEOREM DeliversOwnActivity == Spec => []OwnActivity
<1>1. AdapterInv /\ OwnInv => OwnActivity
  <2> SUFFICES ASSUME AdapterInv, OwnInv, NEW i \in DOMAIN got
               PROVE  Own(got[i])
    BY DEF OwnActivity, Own
  <2>1. Len(got) <= Len(pushed) /\ got = SubSeq(pushed, 1, Len(got))
    BY TakenIsPrefix DEF AdapterInv
  <2>2. pushed \in Seq(LineType) /\ got \in Seq(LineType)
    BY DEF AdapterInv, QueueInv, Events
  <2>3. i \in 1 .. Len(got) /\ Len(got) \in Nat /\ Len(pushed) \in Nat
        /\ DOMAIN pushed = 1 .. Len(pushed)
    BY <2>2
  <2>4. i \in DOMAIN pushed
    BY <2>1, <2>3
  <2>5. SubSeq(pushed, 1, Len(got))[i] = pushed[i]
    BY <2>1, <2>2, <2>3, SubSeqProperties
  <2> QED BY <2>1, <2>4, <2>5 DEF OwnInv, PushedIsOwn
<1> QED BY <1>1, AdapterInvHolds, OwnInvHolds, PTL
=============================================================================
