-------------------------- MODULE HistorySync_proofs --------------------------
(***************************************************************************)
(* What the imports make of the log and the ledger, of the cursors and of  *)
(* the public status, for every number of messages, whatever their texts   *)
(* and times, however many faults and handoffs there are.                  *)
(*                                                                         *)
(* The loop over the items is a recursive function.  What it computes is   *)
(* shown by its least counterexample: LoopExists says that there is such a *)
(* function, ItemKeeps what one round preserves, and ImportKeeps what all  *)
(* of them do.  HistoryInv is the inductive invariant, in the parts        *)
(* LedgerInv, OwnedInv, CursorInv and RefreshInv.                          *)
(***************************************************************************)
EXTENDS HistorySync, SequenceTheorems, FiniteSetTheorems, WellFoundedInduction, TLAPS

-----------------------------------------------------------------------------
\* The loop over the items.

LEMMA LeastNumber ==
  ASSUME NEW T \in SUBSET Nat, T # {}
  PROVE  \E x \in T : \A y \in T : x <= y
<1> DEFINE Less == OpToRel(<, Nat)
<1>1. IsWellFoundedOn(Less, Nat)
  BY NatLessThanWellFounded
<1>2. \A x, y \in Nat : <<x, y>> \in Less <=> x < y
  BY DEF OpToRel
<1> HIDE DEF Less
<1>3. PICK x \in T : \A y \in T : ~(<<y, x>> \in Less)
  BY <1>1, WFMin
<1>4. ASSUME NEW y \in T PROVE x <= y
  <2>1. x \in Nat /\ y \in Nat
    OBVIOUS
  <2>2. ~(y < x)
    BY <1>2, <1>3, <2>1
  <2> QED BY <2>1, <2>2
<1> QED BY <1>4

Unfolds(f, n, content) ==
  f = [m \in 0 .. n |-> IF m = 0 THEN [log |-> log, ledger |-> ledger]
                        ELSE ImportItem(f[m - 1], m, content[m])]

LEMMA LoopExists ==
  ASSUME NEW content, NEW n \in Nat
  PROVE  \E f : Unfolds(f, n, content)
<1> DEFINE start == [log |-> log, ledger |-> ledger]
           Bad == {k \in Nat : ~\E f : Unfolds(f, k, content)}
<1> SUFFICES ASSUME Bad # {} PROVE FALSE
  OBVIOUS
<1>1. PICK k \in Bad : \A j \in Bad : k <= j
  BY LeastNumber
<1>2. CASE k = 0
  <2> DEFINE f == [m \in 0 .. 0 |-> start]
  <2>1. f = [m \in 0 .. 0 |-> IF m = 0 THEN start ELSE ImportItem(f[m - 1], m, content[m])]
    OBVIOUS
  <2> QED BY <1>2, <2>1 DEF Unfolds
<1>3. CASE k # 0
  <2>1. k - 1 \in Nat /\ k - 1 \notin Bad
    BY <1>1, <1>3
  <2>2. PICK f : Unfolds(f, k - 1, content)
    BY <2>1
  <2> DEFINE g == [m \in 0 .. k |-> IF m = k THEN ImportItem(f[k - 1], k, content[k]) ELSE f[m]]
  <2>3. \A m \in 0 .. k - 1 : f[m] = IF m = 0 THEN start ELSE ImportItem(f[m - 1], m, content[m])
    BY <2>2 DEF Unfolds
  <2>4. \A m \in 0 .. k - 1 : g[m] = f[m]
    BY <2>1
  <2>5. \A m \in 0 .. k : g[m] = IF m = 0 THEN start ELSE ImportItem(g[m - 1], m, content[m])
    <3> SUFFICES ASSUME NEW m \in 0 .. k
                 PROVE  g[m] = IF m = 0 THEN start ELSE ImportItem(g[m - 1], m, content[m])
      OBVIOUS
    <3>1. CASE m = k
      <4>1. g[m] = ImportItem(f[k - 1], k, content[k])
        BY <3>1
      <4>2. g[k - 1] = f[k - 1]
        BY <2>1, <2>4
      <4> QED BY <1>3, <3>1, <4>1, <4>2
    <3>2. CASE m # k
      <4>1. m \in 0 .. k - 1 /\ (m # 0 => m - 1 \in 0 .. k - 1)
        BY <2>1, <3>2
      <4>2. g[m] = f[m] /\ (m # 0 => g[m - 1] = f[m - 1])
        BY <2>4, <4>1
      <4> HIDE DEF g
      <4> QED BY <2>3, <4>1, <4>2
    <3> QED BY <3>1, <3>2
  <2>6. g = [m \in 0 .. k |-> IF m = 0 THEN start ELSE ImportItem(g[m - 1], m, content[m])]
    <3>1. g = [m \in 0 .. k |-> g[m]]
      OBVIOUS
    <3> HIDE DEF g
    <3> QED BY <2>5, <3>1
  <2> QED BY <2>6 DEF Unfolds
<1> QED BY <1>2, <1>3

\* What the loop over the items has made of log and ledger after each of them.
LEMMA ImportUnfolds ==
  ASSUME NEW content
  PROVE  \E f : Unfolds(f, Messages, content) /\ ImportItems(content) = f[Messages]
<1> DEFINE c == CHOOSE f : f = [m \in 0 .. Messages |->
                                  IF m = 0 THEN [log |-> log, ledger |-> ledger]
                                  ELSE ImportItem(f[m - 1], m, content[m])]
<1>1. ImportItems(content) = c[Messages]
  BY DEF ImportItems
<1>2. \E f : f = [m \in 0 .. Messages |-> IF m = 0 THEN [log |-> log, ledger |-> ledger]
                                          ELSE ImportItem(f[m - 1], m, content[m])]
  BY LoopExists, MessagesAssumption DEF Unfolds
<1>3. c = [m \in 0 .. Messages |-> IF m = 0 THEN [log |-> log, ledger |-> ledger]
                                   ELSE ImportItem(c[m - 1], m, content[m])]
  BY <1>2
<1> QED BY <1>1, <1>3 DEF Unfolds

-----------------------------------------------------------------------------
\* One item.

Event == [message : Message, version : 1 .. 2, by : Harness, live : BOOLEAN]
Entry == [event : Nat, version : 0 .. 2]
Content == [Message -> 0 .. 2]
State == [log : Seq(Event), ledger : [Message -> Entry]]

\* LedgerNamesOneEventEach of a state of the loop.
NamesOneEventEach(s) ==
  \A m \in Message : s.ledger[m].event # 0 =>
    LET e == s.ledger[m].event IN
    /\ e \in DOMAIN s.log
    /\ Text(s.log[e].message, s.log[e].version) = Text(m, s.ledger[m].version)
    /\ \A n \in Message \ {m} : s.ledger[n].event # e

\* The item of an event that an import appended has an event.
HasEvent(s) ==
  \A e \in DOMAIN s.log : ~s.log[e].live => s.ledger[s.log[e].message].event # 0

Good(s) == s \in State /\ NamesOneEventEach(s) /\ HasEvent(s)

\* The log only grows, by events of the messages in M, and an old event that
\* comes to be shown was shown.
Grows(s, new, M) ==
  /\ Len(s.log) <= Len(new.log)
  /\ \A e \in DOMAIN s.log : new.log[e] = s.log[e]
  /\ \A e \in DOMAIN new.log \ DOMAIN s.log : ~new.log[e].live /\ new.log[e].message \in M
  /\ \A e \in DOMAIN s.log : e \in Linked(new.ledger) => s.log[e].live \/ e \in Linked(s.ledger)

LEMMA Events ==
  ASSUME NEW s \in State
  PROVE  /\ s.log \in Seq(Event) /\ Len(s.log) \in Nat /\ DOMAIN s.log = 1 .. Len(s.log)
         /\ \A e \in DOMAIN s.log : s.log[e] \in Event
         /\ s.ledger \in [Message -> Entry]
<1>1. s.log \in Seq(Event) /\ s.ledger \in [Message -> Entry]
  BY DEF State
<1> QED BY <1>1, LenProperties, ElementOfSeq

\* A mirror is one of the candidates, which a nearest and earliest one is.
LEMMA MirrorIsCandidate ==
  ASSUME NEW s \in State, NEW m \in Message, NEW v \in 1 .. 2, Mirror(s, m, v) # 0
  PROVE  Mirror(s, m, v) \in Candidates(s, m, v)
<1> DEFINE near == Candidates(s, m, v)
           From(e) == Distance(s.log[e].message, m)
<1>1. near # {}
  BY DEF Mirror
<1>2. near \subseteq DOMAIN s.log
  BY DEF Candidates
<1>3. \A e \in near : e \in Nat /\ From(e) \in Nat
  <2> SUFFICES ASSUME NEW e \in near PROVE e \in Nat /\ From(e) \in Nat
    OBVIOUS
  <2>1. e \in DOMAIN s.log
    BY <1>2
  <2>2. s.log[e].message \in Nat /\ m \in Nat /\ e \in Nat
    BY <2>1, Events DEF Event, Message
  <2> QED BY <2>2 DEF Distance
<1> HIDE DEF near, From
<1>4. PICK d \in {From(e) : e \in near} : \A x \in {From(e) : e \in near} : d <= x
  <2>1. {From(e) : e \in near} \in SUBSET Nat /\ {From(e) : e \in near} # {}
    BY <1>1, <1>3
  <2> QED BY <2>1, LeastNumber
<1>5. PICK c \in {e \in near : From(e) = d} : \A x \in {e \in near : From(e) = d} : c <= x
  <2>1. {e \in near : From(e) = d} \in SUBSET Nat /\ {e \in near : From(e) = d} # {}
    BY <1>3, <1>4
  <2> QED BY <2>1, LeastNumber
<1>6. \A f \in near : From(c) < From(f) \/ (From(c) = From(f) /\ c <= f)
  <2> SUFFICES ASSUME NEW f \in near PROVE From(c) < From(f) \/ (From(c) = From(f) /\ c <= f)
    OBVIOUS
  <2>1. d <= From(f) /\ From(c) = d /\ From(f) \in Nat /\ d \in Nat
    BY <1>3, <1>4, <1>5
  <2>2. From(f) = d => c <= f
    BY <1>5
  <2> QED BY <2>1, <2>2
<1>7. c \in near
  BY <1>5
<1>8. Mirror(s, m, v) = CHOOSE e \in near :
                          \A f \in near : From(e) < From(f) \/ (From(e) = From(f) /\ e <= f)
  BY <1>1 DEF Mirror, near, From
<1>9. (CHOOSE e \in near : \A f \in near : From(e) < From(f) \/ (From(e) = From(f) /\ e <= f))
        \in near
  BY <1>6, <1>7
<1> QED BY <1>8, <1>9 DEF near

LEMMA LinkKeeps ==
  ASSUME NEW s, Good(s), NEW m \in Message, NEW v \in 1 .. 2, NEW e \in Candidates(s, m, v)
  PROVE  LET new == Link(s, m, e, v) IN
         /\ Good(new) /\ Grows(s, new, {m})
         /\ new.ledger[m].version = v
         /\ \A n \in Message \ {m} : new.ledger[n] = s.ledger[n]
<1> DEFINE new == Link(s, m, e, v)
<1>1. s \in State
  BY DEF Good
<1>2. /\ e \in DOMAIN s.log /\ s.log[e].live /\ e \notin Linked(s.ledger) /\ e \in Nat \ {0}
      /\ Text(s.log[e].message, s.log[e].version) = Text(m, v)
  BY <1>1, Events DEF Candidates
<1>3. /\ new.log = s.log /\ new.ledger = [s.ledger EXCEPT ![m] = [event |-> e, version |-> v]]
      /\ new \in State
  <2>1. new = [s EXCEPT !.ledger = [s.ledger EXCEPT ![m] = [event |-> e, version |-> v]]]
    BY DEF Link
  <2>2. [s.ledger EXCEPT ![m] = [event |-> e, version |-> v]] \in [Message -> Entry]
    BY <1>1, <1>2, Events DEF Entry
  <2> HIDE DEF new
  <2> QED BY <1>1, <2>1, <2>2 DEF State
<1>4. /\ new.ledger[m] = [event |-> e, version |-> v]
      /\ \A n \in Message \ {m} : new.ledger[n] = s.ledger[n]
  BY <1>1, <1>3, Events
<1> HIDE DEF new
<1>5. NamesOneEventEach(new)
  BY <1>2, <1>3, <1>4 DEF Good, NamesOneEventEach, Linked
<1>6. HasEvent(new)
  BY <1>2, <1>3, <1>4 DEF Good, HasEvent
<1>7. Grows(s, new, {m})
  <2>1. Len(s.log) <= Len(new.log)
    BY <1>1, <1>3, Events
  <2>2. ASSUME NEW i \in DOMAIN s.log, i \in Linked(new.ledger)
        PROVE  s.log[i].live \/ i \in Linked(s.ledger)
    BY <1>2, <1>4, <2>2 DEF Linked
  <2> QED BY <1>3, <2>1, <2>2 DEF Grows
<1> QED BY <1>3, <1>4, <1>5, <1>6, <1>7 DEF Good, new

LEMMA AppendKeeps ==
  ASSUME NEW s, Good(s), NEW m \in Message, NEW v \in 1 .. 2
  PROVE  LET new == AppendItem(s, m, v) IN
         /\ Good(new) /\ Grows(s, new, {m})
         /\ new.ledger[m].version = v
         /\ \A n \in Message \ {m} : new.ledger[n] = s.ledger[n]
<1> DEFINE new == AppendItem(s, m, v)
           item == [message |-> m, version |-> v, by |-> Imported, live |-> FALSE]
           last == Len(s.log) + 1
<1>1. s \in State
  BY DEF Good
<1>2. item \in Event /\ last \in Nat \ {0}
  BY <1>1, Events DEF Event, Harness
<1>3. /\ new.log = Append(s.log, item)
      /\ new.ledger = [s.ledger EXCEPT ![m] = [event |-> last, version |-> v]]
      /\ new = [log |-> new.log, ledger |-> new.ledger]
  <2> DEFINE longer == [s EXCEPT !.log = Append(@, item)]
  <2>1. longer = [log |-> Append(s.log, item), ledger |-> s.ledger]
    <3>1. s = [log |-> s.log, ledger |-> s.ledger]
      BY <1>1 DEF State
    <3> HIDE DEF item
    <3> QED BY ONLY <3>1
  <2>2. new = [longer EXCEPT !.ledger = [longer.ledger EXCEPT ![m] = [event |-> last, version |-> v]]]
    BY DEF AppendItem, Link
  <2> HIDE DEF new, longer, item, last
  <2> QED BY <2>1, <2>2
<1>4. /\ new.log \in Seq(Event) /\ Len(new.log) = last /\ DOMAIN new.log = 1 .. last
      /\ new.log[last] = item
      /\ \A i \in DOMAIN s.log : new.log[i] = s.log[i]
      /\ DOMAIN s.log = 1 .. Len(s.log) /\ Len(s.log) \in Nat
  BY <1>1, <1>2, <1>3, Events, AppendProperties
<1>5. new.ledger \in [Message -> Entry]
  BY <1>1, <1>2, <1>3, Events DEF Entry
<1>6. /\ new.ledger[m] = [event |-> last, version |-> v]
      /\ \A n \in Message \ {m} : new.ledger[n] = s.ledger[n]
  BY <1>1, <1>3, Events
<1>7. new \in State
  BY <1>3, <1>4, <1>5 DEF State
<1> HIDE DEF new
<1>8. \A n \in Message : s.ledger[n].event # 0 => s.ledger[n].event \in 1 .. Len(s.log)
  BY <1>4 DEF Good, NamesOneEventEach
<1>9. NamesOneEventEach(new)
  <2> SUFFICES ASSUME NEW n \in Message, new.ledger[n].event # 0
               PROVE  LET e == new.ledger[n].event IN
                      /\ e \in DOMAIN new.log
                      /\ Text(new.log[e].message, new.log[e].version)
                           = Text(n, new.ledger[n].version)
                      /\ \A k \in Message \ {n} : new.ledger[k].event # e
    BY DEF NamesOneEventEach
  <2>1. CASE n = m
    <3>1. \A k \in Message \ {n} : new.ledger[k].event # last
      BY <1>2, <1>4, <1>6, <1>8, <2>1
    <3> QED BY <1>2, <1>4, <1>6, <2>1, <3>1
  <2>2. CASE n # m
    <3> DEFINE e == s.ledger[n].event
    <3>1. new.ledger[n] = s.ledger[n] /\ e # 0
      BY <1>6, <2>2
    <3>2. e \in 1 .. Len(s.log) /\ e # last
      BY <1>4, <1>8, <3>1
    <3>3. /\ Text(s.log[e].message, s.log[e].version) = Text(n, s.ledger[n].version)
          /\ \A k \in Message \ {n} : s.ledger[k].event # e
      BY <3>1 DEF Good, NamesOneEventEach
    <3>4. \A k \in Message \ {n} : new.ledger[k].event # e
      BY <1>6, <3>2, <3>3
    <3>5. e \in DOMAIN new.log /\ new.log[e] = s.log[e]
      BY <1>4, <3>2
    <3> HIDE DEF e
    <3> QED BY <3>1, <3>3, <3>4, <3>5 DEF e
  <2> QED BY <2>1, <2>2
<1>10. HasEvent(new)
  <2> SUFFICES ASSUME NEW e \in DOMAIN new.log, ~new.log[e].live
               PROVE  new.ledger[new.log[e].message].event # 0
    BY DEF HasEvent
  <2>1. CASE e = last
    BY <1>2, <1>4, <1>6, <2>1
  <2>2. CASE e # last
    <3>1. e \in DOMAIN s.log /\ new.log[e] = s.log[e]
      BY <1>4, <2>2
    <3>2. s.ledger[s.log[e].message].event # 0 /\ s.log[e].message \in Message
      BY <1>1, <3>1, Events DEF Good, HasEvent, Event
    <3> QED BY <1>2, <1>6, <3>1, <3>2
  <2> QED BY <2>1, <2>2
<1>11. Grows(s, new, {m})
  <2>1. ASSUME NEW e \in DOMAIN s.log, e \in Linked(new.ledger) PROVE e \in Linked(s.ledger)
    BY <1>4, <1>6, <2>1 DEF Linked
  <2>2. \A e \in DOMAIN new.log \ DOMAIN s.log : e = last
    BY <1>4
  <2> QED BY <1>4, <2>1, <2>2 DEF Grows
<1> QED BY <1>6, <1>7, <1>9, <1>10, <1>11 DEF Good, new

LEMMA SameKeeps ==
  ASSUME NEW s, Good(s), NEW M
  PROVE  Grows(s, s, M)
BY Events DEF Good, Grows

\* One round of the loop.
LEMMA ItemKeeps ==
  ASSUME NEW s, Good(s), NEW m \in Message, NEW v \in 0 .. 2
  PROVE  LET new == ImportItem(s, m, v) IN
         /\ Good(new)
         /\ Grows(s, new, IF v = 0 THEN {} ELSE {m})
         /\ v # 0 => new.ledger[m].version = v
         /\ \A n \in Message \ {m} : new.ledger[n] = s.ledger[n]
<1> DEFINE new == ImportItem(s, m, v)
           Kept == /\ Good(new)
                   /\ Grows(s, new, IF v = 0 THEN {} ELSE {m})
                   /\ v # 0 => new.ledger[m].version = v
                   /\ \A n \in Message \ {m} : new.ledger[n] = s.ledger[n]
<1>1. CASE new = s /\ (v = 0 \/ s.ledger[m].version = v)
  BY <1>1, SameKeeps
<1>2. CASE v # 0 /\ Mirror(s, m, v) # 0 /\ new = Link(s, m, Mirror(s, m, v), v)
  <2>1. v \in 1 .. 2
    BY <1>2
  <2>2. Mirror(s, m, v) \in Candidates(s, m, v)
    BY <1>2, <2>1, MirrorIsCandidate DEF Good
  <2> DEFINE link == Link(s, m, Mirror(s, m, v), v)
  <2>3. /\ Good(link) /\ Grows(s, link, {m})
        /\ link.ledger[m].version = v
        /\ \A n \in Message \ {m} : link.ledger[n] = s.ledger[n]
    BY <2>1, <2>2, LinkKeeps
  <2>4. new = link
    BY <1>2
  <2>5. Kept
    <3> HIDE DEF new, link
    <3> QED BY ONLY <1>2, <2>3, <2>4
  <2> QED BY <2>5
<1>3. CASE v # 0 /\ new = AppendItem(s, m, v)
  <2>1. v \in 1 .. 2
    BY <1>3
  <2> DEFINE longer == AppendItem(s, m, v)
  <2>2. /\ Good(longer) /\ Grows(s, longer, {m})
        /\ longer.ledger[m].version = v
        /\ \A n \in Message \ {m} : longer.ledger[n] = s.ledger[n]
    BY <2>1, AppendKeeps
  <2>3. new = longer
    BY <1>3
  <2>4. Kept
    <3> HIDE DEF new, longer
    <3> QED BY ONLY <1>3, <2>2, <2>3
  <2> QED BY <2>4
<1>4. \/ new = s /\ (v = 0 \/ s.ledger[m].version = v)
      \/ v # 0 /\ Mirror(s, m, v) # 0 /\ new = Link(s, m, Mirror(s, m, v), v)
      \/ v # 0 /\ new = AppendItem(s, m, v)
  BY DEF ImportItem
<1> QED BY <1>1, <1>2, <1>3, <1>4

LEMMA GrowsOn ==
  ASSUME NEW s \in State, NEW t \in State, NEW u \in State, NEW M, NEW N,
         Grows(s, t, M), Grows(t, u, N)
  PROVE  Grows(s, u, M \cup N)
<1>1. /\ DOMAIN s.log = 1 .. Len(s.log) /\ DOMAIN t.log = 1 .. Len(t.log)
      /\ DOMAIN u.log = 1 .. Len(u.log)
      /\ Len(s.log) \in Nat /\ Len(t.log) \in Nat /\ Len(u.log) \in Nat
  BY Events
<1>2. Len(s.log) <= Len(u.log) /\ DOMAIN s.log \subseteq DOMAIN t.log
      /\ DOMAIN t.log \subseteq DOMAIN u.log
  BY <1>1 DEF Grows
<1>3. \A e \in DOMAIN s.log : u.log[e] = s.log[e]
  BY <1>2 DEF Grows
<1>4. ASSUME NEW e \in DOMAIN u.log \ DOMAIN s.log
      PROVE  ~u.log[e].live /\ u.log[e].message \in M \cup N
  BY DEF Grows
<1>5. ASSUME NEW e \in DOMAIN s.log, e \in Linked(u.ledger)
      PROVE  s.log[e].live \/ e \in Linked(s.ledger)
  <2>1. t.log[e].live \/ e \in Linked(t.ledger)
    BY <1>2, <1>5 DEF Grows
  <2> QED BY <2>1 DEF Grows
<1> QED BY <1>2, <1>3, <1>4, <1>5 DEF Grows

\* All rounds: the whole transaction.
LEMMA ImportKeeps ==
  ASSUME NEW content \in Content, Good([log |-> log, ledger |-> ledger])
  PROVE  LET new == ImportItems(content) IN
         /\ Good(new)
         /\ Grows([log |-> log, ledger |-> ledger], new, {m \in Message : content[m] # 0})
         /\ \A m \in Message : content[m] # 0 => new.ledger[m].version = content[m]
<1> DEFINE s == [log |-> log, ledger |-> ledger]
           M == {m \in Message : content[m] # 0}
<1>1. PICK f : Unfolds(f, Messages, content) /\ ImportItems(content) = f[Messages]
  BY ImportUnfolds
<1> DEFINE Done(k) == /\ Good(f[k]) /\ Grows(s, f[k], M)
                      /\ \A m \in Message : m <= k /\ content[m] # 0 =>
                           f[k].ledger[m].version = content[m]
           Bad == {k \in 0 .. Messages : ~Done(k)}
<1>2. /\ f[0] = s
      /\ \A k \in 1 .. Messages : f[k] = ImportItem(f[k - 1], k, content[k])
  BY <1>1, MessagesAssumption DEF Unfolds
<1> HIDE DEF s, M
<1>3. Bad = {}
  <2> SUFFICES ASSUME Bad # {} PROVE FALSE
    OBVIOUS
  <2>1. Bad \in SUBSET Nat
    OBVIOUS
  <2>2. PICK k \in Bad : \A j \in Bad : k <= j
    BY <2>1, LeastNumber
  <2>3. CASE k = 0
    <3>1. Good(s) /\ Grows(s, s, M)
      BY SameKeeps DEF s
    <3>2. \A m \in Message : ~(m <= 0)
      BY DEF Message
    <3>3. Done(0)
      BY <1>2, <3>1, <3>2
    <3> QED BY <2>2, <2>3, <3>3
  <2>4. CASE k # 0
    <3>1. k \in 1 .. Messages /\ k - 1 \in 0 .. Messages /\ k - 1 \notin Bad /\ k \in Message
      BY <2>2, <2>4, MessagesAssumption DEF Message
    <3>2. Done(k - 1)
      BY <3>1
    <3>3. content[k] \in 0 .. 2
      BY <3>1 DEF Content
    <3>4. f[k] = ImportItem(f[k - 1], k, content[k])
      BY <1>2, <3>1
    <3>5. /\ Good(f[k])
          /\ Grows(f[k - 1], f[k], IF content[k] = 0 THEN {} ELSE {k})
          /\ content[k] # 0 => f[k].ledger[k].version = content[k]
          /\ \A n \in Message \ {k} : f[k].ledger[n] = f[k - 1].ledger[n]
      <4>1. Good(f[k - 1])
        BY <3>2
      <4> DEFINE old == f[k - 1]
                 new == ImportItem(old, k, content[k])
      <4> HIDE DEF Done, Bad, old
      <4>2. /\ Good(new)
            /\ Grows(old, new, IF content[k] = 0 THEN {} ELSE {k})
            /\ content[k] # 0 => new.ledger[k].version = content[k]
            /\ \A n \in Message \ {k} : new.ledger[n] = old.ledger[n]
        BY <3>1, <3>3, <4>1, ItemKeeps DEF old
      <4>3. f[k] = new
        BY <3>4 DEF old
      <4> HIDE DEF new
      <4> QED BY ONLY <4>2, <4>3 DEF old
    <3>6. Grows(s, f[k], M)
      <4>1. Grows(s, f[k], M \cup (IF content[k] = 0 THEN {} ELSE {k}))
        BY <3>2, <3>5, GrowsOn DEF Good, s
      <4>2. M \cup (IF content[k] = 0 THEN {} ELSE {k}) = M
        BY <3>1 DEF M
      <4> QED BY <4>1, <4>2
    <3>7. ASSUME NEW m \in Message, m <= k, content[m] # 0
          PROVE  f[k].ledger[m].version = content[m]
      <4>1. CASE m = k
        BY <3>5, <3>7, <4>1
      <4>2. CASE m # k
        <5>1. m <= k - 1
          BY <3>1, <3>7, <4>2 DEF Message
        <5> QED BY <3>2, <3>5, <3>7, <4>2, <5>1
      <4> QED BY <4>1, <4>2
    <3>8. Done(k)
      BY <3>5, <3>6, <3>7
    <3> QED BY <2>2, <3>8
  <2> QED BY <2>3, <2>4
<1>4. Done(Messages) /\ \A m \in Message : m <= Messages
  BY <1>3, MessagesAssumption DEF Message
<1> QED BY <1>1, <1>4 DEF s, M

-----------------------------------------------------------------------------
\* The inductive invariant.

Kinds == {"full", "check", "any", "file"}
TurnType ==
  [pc : {"none", "given", "bound", "accepted", "recorded"}, by : Harness \cup {"none"},
   given : SUBSET Message, message : Message \cup {0}]

ConversationTypeOK ==
  /\ author \in [Message -> {"none", "owner"} \cup Harness]
  /\ native \in Content
  /\ active \in Harness
  /\ binding \in [Harness -> Nat \cup {-1}]
  /\ calls \subseteq [by : Harness, cursor : Nat]
  /\ turn \in TurnType
  /\ turn.pc # "none" => turn.by \in Harness
  /\ handoff \in Harness \cup {"none"}
  /\ known \in [Harness -> SUBSET Message]
  /\ missed \in [Harness -> SUBSET Message]

ServiceTypeOK ==
  /\ prints \in Content
  /\ queue \in Seq(Kinds)
  /\ operation \in [kind : Kinds \cup {"none"}, content : Content]
  /\ status \in {"running", "complete", "partial", "failed"}
  /\ promised \in Content

Now == [log |-> log, ledger |-> ledger]
LedgerInv == Good(Now)

\* The messages are numbered as they come; what the transcript or an operation
\* holds is in the native session, and so is the message of a turn it accepted.
Numbered == \E k \in 0 .. Messages : {m \in Message : author[m] # "none"} = 1 .. k
OwnedInv ==
  /\ Numbered
  /\ \A m \in Message : author[m] \in {"owner", Imported} => m \in known[Imported]
  /\ \A m \in Message : native[m] # 0 => author[m] \in {"owner", Imported}
  /\ \A m \in Message : operation.content[m] # 0 => m \in known[Imported]
  /\ turn.pc \in {"accepted", "recorded"} => turn.message \in known[turn.by]

\* What is shown up to a place in the log is in a set of messages.
ShownIn(upto, M) == \A e \in DOMAIN log : e <= upto /\ Shown(e) => log[e].message \in M

\* What a harness knows, or is about to be told with the first prompt of a
\* session, or has missed.
Coming(h) == IF turn.pc = "bound" /\ turn.by = h THEN turn.given ELSE {}
Has(h) == known[h] \cup missed[h] \cup Coming(h)

\* It accounts for what is shown up to the binding of its harness and up to what a
\* call has read of it; with what was given to a turn, for all that is shown.
BindingsAreTrue ==
  \A h \in Harness : binding[h] <= Len(log) /\ ShownIn(binding[h], Has(h))
CallsAreTrue ==
  \A c \in calls : c.cursor <= Len(log) /\ ShownIn(c.cursor, Has(c.by))
TurnIsTrue ==
  /\ turn.pc # "none" => ShownIn(Len(log), Has(turn.by) \cup turn.given)
  /\ turn.pc \in {"accepted", "recorded"} => turn.given \subseteq known[turn.by]

CursorInv == BindingsAreTrue /\ CallsAreTrue /\ TurnIsTrue

\* At most one full refresh is accepted; until it ends the status says so, and
\* what was promised with it is in the transcript and in what it has read.
RefreshInv ==
  /\ operation.kind = "full" => \A i \in DOMAIN queue : queue[i] # "full"
  /\ \A i, j \in DOMAIN queue : queue[i] = "full" /\ queue[j] = "full" => i = j
  /\ Accepted("full") => status = "running" /\ \A m \in Message : promised[m] <= native[m]
  /\ operation.kind = "full" => \A m \in Message : promised[m] <= operation.content[m]
  /\ \A m \in Message : operation.content[m] <= native[m]

HistoryInv ==
  ConversationTypeOK /\ ServiceTypeOK /\ LedgerInv /\ OwnedInv /\ CursorInv /\ RefreshInv

-----------------------------------------------------------------------------
\* What the steps do to the conversation.

\* A turn that fails, or that a restart loses with the calls that wait.
Lost ==
  /\ LoseTurn
  /\ calls' \subseteq calls \cup {Reading'}
  /\ handoff' \in {handoff, "none"}
  /\ UNCHANGED <<author, native, log, ledger, active, binding, known>>

Talk ==
  \/ UNCHANGED conversation
  \/ TypeNatively
  \/ \E m \in Message : NativeWrites(m)
  \/ \E call \in calls : SelectContext(call)
  \/ BindSession \/ ReplaceSession \/ Accept \/ RecordMessage \/ Complete
  \/ Lost
  \/ Switch \/ SetActiveProvider

LEMMA ConversationMoves ==
  ASSUME Next
  PROVE  \/ Talk /\ operation' \in {operation, NoOperation}
         \/ UNCHANGED conversation /\ operation'.content = native
         \/ ImportHistoryThread(operation.content) /\ operation' = NoOperation
<1>1. CASE /\ \/ TypeNatively \/ (\E m \in Message : NativeWrites(m)) \/ Turns
              \/ Switch \/ SetActiveProvider
           /\ UNCHANGED service
  <2>1. UNCHANGED operation
    BY <1>1 DEF service
  <2>2. Fail => Lost
    BY DEF Fail, Lost
  <2>3. Talk
    BY <1>1, <2>2 DEF Turns, Talk
  <2> QED BY <2>1, <2>3
<1>same. UNCHANGED conversation => Talk
  BY DEF Talk
<1>2. CASE SyncAll \/ RequestChangeCheck \/ (\E key \in {"file", "*"} : QueueHistoryChange(key))
           \/ FlushHistoryChanges
  BY <1>2, <1>same
  DEF SyncAll, RequestChangeCheck, QueueHistoryChange, FlushHistoryChanges, logVars, conversation
<1>3. CASE NothingToRead \/ ReadFails \/ ImportFails
  BY <1>3, <1>same DEF NothingToRead, ReadFails, ImportFails, Ends, logVars, conversation
<1>4. CASE ReadHistory
  BY <1>4 DEF ReadHistory, logVars, conversation
<1>5. CASE ImportThread
  BY <1>5 DEF ImportThread, Ends
<1>6. CASE Restart
  <2>1. Lost /\ operation' = NoOperation
    BY <1>6 DEF Restart, Lost, Reading
  <2> QED BY <2>1 DEF Talk
<1> QED BY <1>1, <1>2, <1>3, <1>4, <1>5, <1>6 DEF Next

\* The messages come in the order of their numbers.
LEMMA NextIsNew ==
  ASSUME ConversationTypeOK, Numbered, NextMessage \in Message
  PROVE  /\ author[NextMessage] = "none"
         /\ \A a \in {"owner"} \cup Harness :
              author' = [author EXCEPT ![NextMessage] = a] => Numbered'
<1>1. PICK k \in 0 .. Messages : {m \in Message : author[m] # "none"} = 1 .. k
  BY DEF Numbered
<1>2. Cardinality(1 .. k) = k
  BY FS_Interval
<1>3. NextMessage = k + 1 /\ k \in Nat
  <2>1. NextMessage = Cardinality(1 .. k) + 1
    BY <1>1 DEF NextMessage
  <2> QED BY <1>2, <2>1
<1>4. author[NextMessage] = "none"
  BY <1>1, <1>3
<1>5. ASSUME NEW a \in {"owner"} \cup Harness, author' = [author EXCEPT ![NextMessage] = a]
      PROVE  Numbered'
  <2>1. a # "none"
    BY HarnessAssumption
  <2>2. {m \in Message : author'[m] # "none"} = 1 .. (k + 1)
    <3>1. \A m \in Message : author'[m] # "none" <=> m = k + 1 \/ author[m] # "none"
      BY <1>3, <1>5, <2>1 DEF ConversationTypeOK
    <3>2. \A m \in Message : author[m] # "none" <=> m \in 1 .. k
      BY <1>1
    <3>3. k + 1 \in Message /\ \A i \in 1 .. (k + 1) : i \in Message
      BY <1>3, MessagesAssumption DEF Message
    <3>4. \A m \in Message : m \in Nat
      BY DEF Message
    <3>5. \A m \in Message : author'[m] # "none" <=> m \in 1 .. (k + 1)
      BY <1>3, <3>1, <3>2, <3>4
    <3> QED BY <3>3, <3>5
  <2>3. k + 1 \in 0 .. Messages
    BY <1>3, MessagesAssumption DEF Message
  <2> QED BY <2>2, <2>3 DEF Numbered
<1> QED BY <1>4, <1>5

LEMMA ImportGrows ==
  ASSUME ConversationTypeOK, ServiceTypeOK, LedgerInv, ImportHistoryThread(operation.content)
  PROVE  /\ LedgerInv'
         /\ Grows(Now, Now', {m \in Message : operation.content[m] # 0})
         /\ \A m \in Message : operation.content[m] # 0 =>
              ledger'[m].version = operation.content[m]
<1> DEFINE new == ImportItems(operation.content)
<1>1. /\ Good(new)
      /\ Grows(Now, new, {m \in Message : operation.content[m] # 0})
      /\ \A m \in Message : operation.content[m] # 0 =>
           new.ledger[m].version = operation.content[m]
  BY ImportKeeps DEF ServiceTypeOK, LedgerInv, Now
<1>2. log' = new.log /\ ledger' = new.ledger
  BY DEF ImportHistoryThread
<1> HIDE DEF new
<1>3. new = [log |-> new.log, ledger |-> new.ledger]
  BY <1>1 DEF Good, State
<1>4. new = Now'
  BY <1>2, <1>3 DEF Now
<1> QED BY <1>1, <1>2, <1>4 DEF LedgerInv

\* A turn records its message, which is shown.
LEMMA RecordGrows ==
  ASSUME ConversationTypeOK, LedgerInv, OwnedInv, RecordMessage
  PROVE  /\ LedgerInv'
         /\ Len(log') = Len(log) + 1 /\ Len(log) \in Nat
         /\ DOMAIN log = 1 .. Len(log) /\ DOMAIN log' = 1 .. Len(log) + 1
         /\ \A e \in DOMAIN log : log'[e] = log[e]
         /\ log'[Len(log) + 1].message = turn.message
<1> DEFINE item == [message |-> turn.message, version |-> 2, by |-> turn.by, live |-> TRUE]
<1>1. log \in Seq(Event) /\ ledger \in [Message -> Entry] /\ Now \in State
  BY DEF LedgerInv, Good, State, Now
<1>2. item \in Event
  <2>1. turn.by \in Harness /\ turn.message \in known[turn.by]
    BY DEF RecordMessage, OwnedInv, ConversationTypeOK
  <2> QED BY <2>1 DEF ConversationTypeOK, Event
<1>3. log' = Append(log, item) /\ ledger' = ledger
  BY DEF RecordMessage
<1> HIDE DEF item
<1>4. /\ log' \in Seq(Event)
      /\ Len(log') = Len(log) + 1 /\ Len(log) \in Nat
      /\ DOMAIN log = 1 .. Len(log) /\ DOMAIN log' = 1 .. Len(log) + 1
      /\ \A e \in DOMAIN log : log'[e] = log[e]
      /\ log'[Len(log) + 1] = item
  BY <1>1, <1>2, <1>3, AppendProperties, LenProperties
<1>5. Now' \in State
  BY <1>1, <1>3, <1>4 DEF State, Now
<1>6. NamesOneEventEach(Now')
  BY <1>3, <1>4 DEF LedgerInv, Good, NamesOneEventEach, Now
<1>7. HasEvent(Now')
  <2>1. ASSUME NEW e \in DOMAIN log', ~log'[e].live PROVE e \in DOMAIN log
    BY <1>4, <2>1 DEF item
  <2>2. \A e \in DOMAIN log : ~log[e].live => ledger[log[e].message].event # 0
    BY DEF LedgerInv, Good, HasEvent, Now
  <2> QED BY <1>3, <1>4, <2>1, <2>2 DEF HasEvent, Now
<1> QED BY <1>4, <1>5, <1>6, <1>7 DEF LedgerInv, Good, item

LEMMA LedgerStep ==
  ASSUME ConversationTypeOK, ServiceTypeOK, LedgerInv, OwnedInv, Next
  PROVE  LedgerInv'
<1>1. CASE UNCHANGED <<log, ledger>>
  BY <1>1 DEF LedgerInv, Now
<1>2. CASE RecordMessage
  BY <1>2, RecordGrows
<1>3. CASE ImportHistoryThread(operation.content)
  BY <1>3, ImportGrows
<1>4. Talk => UNCHANGED <<log, ledger>> \/ RecordMessage
  BY DEF Talk, TypeNatively, NativeWrites, SelectContext, BindSession, ReplaceSession, Accept,
         Complete, Lost, Switch, SetActiveProvider, conversation
<1>5. UNCHANGED conversation => UNCHANGED <<log, ledger>>
  BY DEF conversation
<1> QED BY <1>1, <1>2, <1>3, <1>4, <1>5, ConversationMoves

\* A call that comes reads a cursor of a harness.
LEMMA CallsType ==
  ASSUME ConversationTypeOK, active' \in Harness, binding' \in [Harness -> Nat \cup {-1}],
         calls' \subseteq calls \cup {Reading'}
  PROVE  calls' \subseteq [by : Harness, cursor : Nat]
<1> DEFINE c == IF binding'[active'] = -1 THEN 0 ELSE binding'[active']
<1>1. c \in Nat
  OBVIOUS
<1>2. Reading' = [by |-> active', cursor |-> c]
  BY DEF Reading
<1> HIDE DEF c
<1>3. Reading' \in [by : Harness, cursor : Nat]
  BY <1>1, <1>2
<1> QED BY <1>3 DEF ConversationTypeOK

LEMMA ConversationTypeStep ==
  ASSUME ConversationTypeOK, ServiceTypeOK, LedgerInv, OwnedInv, Next
  PROVE  ConversationTypeOK'
<1> USE DEF ConversationTypeOK, TurnType
<1>len. Len(log) \in Nat
  BY LenProperties DEF LedgerInv, Good, State, Now
<1>msgs. \A e \in DOMAIN log : log[e].message \in Message
  <2>1. \A e \in DOMAIN log : log[e] \in Event
    BY ElementOfSeq DEF LedgerInv, Good, State, Now
  <2> QED BY <2>1 DEF Event
<1>idle. NoTurn \in TurnType /\ NoTurn.pc = "none"
  BY DEF NoTurn
<1>1. CASE UNCHANGED conversation
  BY <1>1 DEF conversation
<1>2. CASE TypeNatively
  <2>1. native' \in Content /\ author' \in [Message -> {"none", "owner"} \cup Harness]
    BY <1>2 DEF TypeNatively, Content
  <2>2. known' \in [Harness -> SUBSET Message]
    BY <1>2 DEF TypeNatively
  <2> QED BY <1>2, <2>1, <2>2 DEF TypeNatively
<1>3. CASE \E m \in Message : NativeWrites(m)
  <2>1. PICK m \in Message : NativeWrites(m)
    BY <1>3
  <2>2. \E v \in (native[m] + 1) .. 2 : native' = [native EXCEPT ![m] = v]
    BY <2>1 DEF NativeWrites
  <2>3. native[m] \in 0 .. 2
    BY DEF Content
  <2>4. native' \in Content
    BY <2>2, <2>3 DEF Content
  <2> QED BY <2>1, <2>4 DEF NativeWrites
<1>4. CASE \E call \in calls : SelectContext(call)
  <2>1. PICK call \in calls : SelectContext(call)
    BY <1>4
  <2>2. Delta(call.cursor) \subseteq Message
    BY <1>msgs DEF Delta
  <2>3. turn' = [pc |-> "given", by |-> call.by, given |-> Delta(call.cursor), message |-> 0]
    BY <2>1 DEF SelectContext, NoTurn
  <2> QED BY <2>1, <2>2, <2>3 DEF SelectContext
<1>5. CASE BindSession \/ Complete
  <2>1. /\ binding' = [binding EXCEPT ![turn.by] = Len(log)] /\ turn' \in TurnType
        /\ turn'.pc # "none" => turn'.by \in Harness
    BY <1>5, <1>idle DEF BindSession, Complete
  <2>2. binding' \in [Harness -> Nat \cup {-1}]
    BY <1>len, <2>1
  <2>3. calls' \subseteq calls \cup {Reading'} /\ UNCHANGED active
    BY <1>5 DEF BindSession, Complete, Begin
  <2>4. calls' \subseteq [by : Harness, cursor : Nat]
    BY <2>2, <2>3, CallsType
  <2> QED BY <1>5, <2>1, <2>2, <2>4 DEF BindSession, Complete
<1>6. CASE ReplaceSession
  <2>1. /\ binding' = [binding EXCEPT ![turn.by] = Len(log)] /\ turn' \in TurnType
        /\ turn'.pc # "none" => turn'.by \in Harness
    BY <1>6 DEF ReplaceSession
  <2>2. binding' \in [Harness -> Nat \cup {-1}]
    BY <1>len, <2>1
  <2>3. calls' \subseteq calls \cup {Reading'} /\ UNCHANGED active
    BY <1>6 DEF ReplaceSession, Begin
  <2>4. calls' \subseteq [by : Harness, cursor : Nat]
    BY <2>2, <2>3, CallsType
  <2>5. known' \in [Harness -> SUBSET Message] /\ missed' \in [Harness -> SUBSET Message]
    BY <1>6, <1>msgs DEF ReplaceSession
  <2> QED BY <1>6, <2>1, <2>2, <2>4, <2>5 DEF ReplaceSession
<1>7. CASE Accept
  <2>1. turn.given \cup {NextMessage} \subseteq Message /\ turn.by \in Harness
    BY <1>7 DEF Accept
  <2> QED BY <1>7, <2>1 DEF Accept
<1>8. CASE RecordMessage
  BY <1>8 DEF RecordMessage
<1>9. CASE Lost
  <2>1. calls' \subseteq [by : Harness, cursor : Nat]
    BY <1>9, CallsType DEF Lost
  <2>2. missed' \in [Harness -> SUBSET Message]
    BY <1>9 DEF Lost, LoseTurn
  <2> QED BY <1>9, <1>idle, <2>1, <2>2 DEF Lost, LoseTurn
<1>10. CASE Switch
  BY <1>10 DEF Switch
<1>11. CASE SetActiveProvider
  <2>1. active' \in Harness /\ UNCHANGED binding /\ calls' \subseteq calls \cup {Reading'}
    BY <1>11 DEF SetActiveProvider, Begin
  <2>2. calls' \subseteq [by : Harness, cursor : Nat]
    BY <2>1, CallsType
  <2> QED BY <1>11, <2>1, <2>2 DEF SetActiveProvider
<1>12. CASE ImportHistoryThread(operation.content)
  <2>1. Len(log') \in Nat /\ \A e \in DOMAIN log' : log'[e].message \in Message
    <3>1. LedgerInv'
      BY <1>12, ImportGrows
    <3>2. log' \in Seq(Event)
      BY <3>1 DEF LedgerInv, Good, State, Now
    <3>3. Len(log') \in Nat /\ DOMAIN log' = 1 .. Len(log')
      BY <3>2, LenProperties
    <3>4. \A e \in DOMAIN log' : log'[e] \in Event
      BY <3>2, <3>3, ElementOfSeq
    <3> QED BY <3>3, <3>4 DEF Event
  <2>2. binding' = [binding EXCEPT ![Imported] = Len(log')]
    BY <1>12 DEF ImportHistoryThread
  <2>3. binding' \in [Harness -> Nat \cup {-1}]
    BY <2>1, <2>2
  <2>4. /\ UNCHANGED <<author, native, active, turn, handoff, known>>
        /\ calls' \subseteq calls \cup {Reading'}
    BY <1>12 DEF ImportHistoryThread, Begin
  <2>5. calls' \subseteq [by : Harness, cursor : Nat]
    BY <2>3, <2>4, CallsType
  <2>6. missed' \in [Harness -> SUBSET Message]
    <3>1. PICK A, B \in SUBSET Message :
            missed' = [missed EXCEPT ![Imported] = @ \cup A, ![Other] = @ \cup B]
      <4> DEFINE A == {log[e].message : e \in DOMAIN log} \ known[Imported]
                 B == IF turn.by # Other THEN {}
                      ELSE {log'[e].message : e \in DOMAIN log' \ DOMAIN log}
                             \ (known[Other] \cup turn.given)
      <4>1. A \in SUBSET Message /\ B \in SUBSET Message
        BY <1>msgs, <2>1
      <4>2. missed' = [missed EXCEPT ![Imported] = @ \cup A, ![Other] = @ \cup B]
        BY <1>12 DEF ImportHistoryThread
      <4> QED BY <4>1, <4>2
    <3> QED BY <3>1
  <2> QED BY <2>3, <2>4, <2>5, <2>6
<1> QED
  BY <1>1, <1>2, <1>3, <1>4, <1>5, <1>6, <1>7, <1>8, <1>9, <1>10, <1>11, <1>12, ConversationMoves
  DEF Talk

LEMMA Queue ==
  ASSUME ServiceTypeOK
  PROVE  /\ queue \in Seq(Kinds) /\ Len(queue) \in Nat /\ DOMAIN queue = 1 .. Len(queue)
         /\ \A k \in Kinds : /\ Append(queue, k) \in Seq(Kinds)
                             /\ DOMAIN Append(queue, k) = 1 .. Len(queue) + 1
                             /\ Append(queue, k)[Len(queue) + 1] = k
                             /\ \A i \in DOMAIN queue : Append(queue, k)[i] = queue[i]
         /\ queue # <<>> =>
              /\ Head(queue) = queue[1] /\ 1 \in DOMAIN queue /\ Head(queue) \in Kinds
              /\ Tail(queue) \in Seq(Kinds) /\ DOMAIN Tail(queue) = 1 .. Len(queue) - 1
              /\ \A i \in DOMAIN Tail(queue) : Tail(queue)[i] = queue[i + 1]
                                                /\ i + 1 \in DOMAIN queue /\ i \in Nat \ {0}
<1>1. queue \in Seq(Kinds)
  BY DEF ServiceTypeOK
<1>2. Len(queue) \in Nat /\ DOMAIN queue = 1 .. Len(queue)
  BY <1>1, LenProperties
<1>3. ASSUME NEW k \in Kinds
      PROVE  /\ Append(queue, k) \in Seq(Kinds)
             /\ DOMAIN Append(queue, k) = 1 .. Len(queue) + 1
             /\ Append(queue, k)[Len(queue) + 1] = k
             /\ \A i \in DOMAIN queue : Append(queue, k)[i] = queue[i]
  BY <1>1, <1>2, AppendProperties
<1>4. ASSUME queue # <<>>
      PROVE  /\ Head(queue) = queue[1] /\ 1 \in DOMAIN queue /\ Head(queue) \in Kinds
             /\ Tail(queue) \in Seq(Kinds) /\ DOMAIN Tail(queue) = 1 .. Len(queue) - 1
             /\ \A i \in DOMAIN Tail(queue) : Tail(queue)[i] = queue[i + 1]
                                               /\ i + 1 \in DOMAIN queue /\ i \in Nat \ {0}
  <2>1. Len(queue) # 0
    BY <1>1, <1>4, EmptySeq
  <2> QED BY <1>1, <1>2, <1>4, <2>1, HeadTailProperties
<1> QED BY <1>1, <1>2, <1>3, <1>4

LEMMA ServiceTypeStep ==
  ASSUME ConversationTypeOK, ServiceTypeOK, Next
  PROVE  ServiceTypeOK'
<1> USE DEF ServiceTypeOK
<1>none. NoContent \in Content /\ NoOperation \in [kind : Kinds \cup {"none"}, content : Content]
  BY DEF NoContent, NoOperation, Content
<1>native. native \in Content
  BY DEF ConversationTypeOK
<1>start. <<"full">> \in Seq(Kinds)
  BY DEF Kinds
<1>ends. ASSUME NEW k \in Kinds, NEW waiting \in Seq(Kinds), Ends(k, waiting, "complete")
                  \/ Ends(k, waiting, "failed") \/ Ends(k, waiting, "partial")
         PROVE  /\ queue' \in Seq(Kinds)
                /\ operation' \in [kind : Kinds \cup {"none"}, content : Content]
                /\ status' \in {"running", "complete", "partial", "failed"}
                /\ promised' \in Content
  BY <1>none, <1>ends DEF Ends
<1>1. CASE UNCHANGED service
  BY <1>1 DEF service
<1>2. CASE SyncAll \/ RequestChangeCheck \/ (\E key \in {"file", "*"} : QueueHistoryChange(key))
           \/ FlushHistoryChanges
  <2>1. queue' \in Seq(Kinds)
    BY <1>2, Queue
    DEF SyncAll, RequestChangeCheck, QueueHistoryChange, FlushHistoryChanges, Kinds
  <2> QED BY <1>2, <1>native, <2>1
          DEF SyncAll, RequestChangeCheck, QueueHistoryChange, FlushHistoryChanges
<1>3. CASE ReadHistory
  <2>1. queue' \in Seq(Kinds)
        /\ operation' \in [kind : Kinds \cup {"none"}, content : Content]
    BY <1>3, <1>native, Queue DEF ReadHistory
  <2> QED BY <1>3, <1>native, <2>1 DEF ReadHistory
<1>4. CASE NothingToRead \/ ReadFails
  <2>1. Head(queue) \in Kinds /\ Tail(queue) \in Seq(Kinds)
    BY <1>4, Queue DEF NothingToRead, ReadFails
  <2> QED BY <1>4, <1>ends, <2>1 DEF NothingToRead, ReadFails
<1>5. CASE ImportThread \/ ImportFails
  <2>1. UNCHANGED prints
    BY <1>5 DEF ImportThread, ImportFails
  <2>2. CASE operation.kind \in Kinds
    BY <1>5, <1>ends, <2>1, <2>2 DEF ImportThread, ImportFails
  <2>3. CASE operation.kind = "none"
    BY <1>5, <1>none, <2>1, <2>3 DEF ImportThread, ImportFails, Ends
  <2> QED BY <2>2, <2>3
<1>6. CASE Restart
  BY <1>6, <1>none, <1>native, <1>start DEF Restart
<1> QED BY <1>1, <1>2, <1>3, <1>4, <1>5, <1>6 DEF Next

LEMMA OwnedStep ==
  ASSUME ConversationTypeOK, ServiceTypeOK, OwnedInv, Next
  PROVE  OwnedInv'
<1> USE DEF ConversationTypeOK
<1>holds. \A m \in Message : native[m] # 0 => m \in known[Imported]
  BY DEF OwnedInv
<1>none. \A m \in Message : NoOperation.content[m] = 0
  BY DEF NoOperation, NoContent
<1>apart. Imported \in Harness /\ {"owner", "none"} \cap Harness = {}
  BY HarnessAssumption DEF Harness
<1>1. ASSUME UNCHANGED <<author, native, known>>,
             \/ operation' \in {operation, NoOperation}
             \/ operation'.content = native,
             turn'.pc \in {"accepted", "recorded"} =>
               /\ turn.pc \in {"accepted", "recorded"}
               /\ turn'.message = turn.message /\ turn'.by = turn.by
      PROVE  OwnedInv'
  <2>1. Numbered'
    BY <1>1 DEF OwnedInv, Numbered
  <2>2. \A m \in Message : operation'.content[m] # 0 => m \in known[Imported]
    BY <1>1, <1>holds, <1>none DEF OwnedInv
  <2>3. /\ \A m \in Message : author'[m] \in {"owner", Imported} => m \in known'[Imported]
        /\ \A m \in Message : native'[m] # 0 => author'[m] \in {"owner", Imported}
    BY <1>1 DEF OwnedInv
  <2>4. turn'.pc \in {"accepted", "recorded"} => turn'.message \in known'[turn'.by]
    BY <1>1 DEF OwnedInv
  <2> QED BY <1>1, <2>1, <2>2, <2>3, <2>4 DEF OwnedInv
<1>2. CASE TypeNatively /\ operation' \in {operation, NoOperation}
  <2>1. author[NextMessage] = "none" /\ NextMessage \in Message /\ Numbered'
    BY <1>2, NextIsNew DEF TypeNatively, OwnedInv
  <2>2. /\ author' = [author EXCEPT ![NextMessage] = "owner"]
        /\ native' = [native EXCEPT ![NextMessage] = 1]
        /\ known' = [known EXCEPT ![Imported] = @ \cup {NextMessage}]
        /\ UNCHANGED turn
    BY <1>2 DEF TypeNatively
  <2>3. \A m \in Message : author'[m] \in {"owner", Imported} => m \in known'[Imported]
    BY <1>apart, <2>1, <2>2 DEF OwnedInv
  <2>4. \A m \in Message : native'[m] # 0 => author'[m] \in {"owner", Imported}
    BY <2>1, <2>2 DEF OwnedInv, Content
  <2>5. \A m \in Message : operation'.content[m] # 0 => m \in known'[Imported]
    BY <1>2, <1>none, <1>apart, <2>2 DEF OwnedInv
  <2>6. turn'.pc \in {"accepted", "recorded"} => turn'.message \in known'[turn'.by]
    BY <1>apart, <2>2 DEF OwnedInv
  <2> QED BY <2>1, <2>3, <2>4, <2>5, <2>6 DEF OwnedInv
<1>3. CASE Accept /\ operation' \in {operation, NoOperation}
  <2>1. author[NextMessage] = "none" /\ NextMessage \in Message /\ Numbered'
    BY <1>3, NextIsNew DEF Accept, OwnedInv
  <2>2. /\ author' = [author EXCEPT ![NextMessage] = turn.by]
        /\ UNCHANGED native /\ turn.by \in Harness
        /\ known' = [known EXCEPT ![turn.by] = @ \cup turn.given \cup {NextMessage}]
        /\ turn'.message = NextMessage /\ turn'.by = turn.by
    BY <1>3 DEF Accept, TurnType
  <2>3. \A m \in Message : author'[m] \in {"owner", Imported} => m \in known'[Imported]
    BY <1>apart, <2>1, <2>2 DEF OwnedInv
  <2>4. \A m \in Message : native'[m] # 0 => author'[m] \in {"owner", Imported}
    BY <1>apart, <2>1, <2>2 DEF OwnedInv
  <2>5. \A m \in Message : operation'.content[m] # 0 => m \in known'[Imported]
    BY <1>3, <1>none, <1>apart, <2>2 DEF OwnedInv
  <2>6. turn'.message \in known'[turn'.by]
    BY <2>2
  <2> QED BY <2>1, <2>3, <2>4, <2>5, <2>6 DEF OwnedInv
<1>4. CASE (\E m \in Message : NativeWrites(m)) /\ operation' \in {operation, NoOperation}
  <2>1. PICK m \in Message : NativeWrites(m)
    BY <1>4
  <2>2. PICK v : native' = [native EXCEPT ![m] = v]
    BY <2>1 DEF NativeWrites
  <2>3. \A n \in Message : native'[n] # 0 => author'[n] \in {"owner", Imported}
    BY <2>1, <2>2 DEF NativeWrites, OwnedInv, Content
  <2>4. \A n \in Message : operation'.content[n] # 0 => n \in known'[Imported]
    BY <1>4, <1>none, <2>1 DEF NativeWrites, OwnedInv
  <2>5. Numbered'
    BY <2>1 DEF NativeWrites, OwnedInv, Numbered
  <2> QED BY <2>1, <2>3, <2>4, <2>5 DEF NativeWrites, OwnedInv
<1>5. CASE /\ operation' \in {operation, NoOperation}
           /\ (\E call \in calls : SelectContext(call)) \/ BindSession \/ RecordMessage \/ Complete
  <2>1. UNCHANGED <<author, native, known>>
    BY <1>5 DEF SelectContext, BindSession, RecordMessage, Complete
  <2>2. \/ turn'.pc \in {"given", "bound", "none"}
        \/ turn.pc = "accepted" /\ turn'.message = turn.message /\ turn'.by = turn.by
    <3>1. \A call \in calls : SelectContext(call) => turn'.pc = "given"
      BY DEF SelectContext, NoTurn
    <3>2. BindSession => turn'.pc = "bound"
      BY DEF BindSession, TurnType
    <3>3. RecordMessage => turn.pc = "accepted" /\ turn'.message = turn.message /\ turn'.by = turn.by
      BY DEF RecordMessage, TurnType
    <3>4. Complete => turn'.pc = "none"
      BY DEF Complete, NoTurn
    <3> QED BY <1>5, <3>1, <3>2, <3>3, <3>4
  <2> QED BY <1>1, <1>5, <2>1, <2>2
<1>6. CASE operation' \in {operation, NoOperation} /\ (Lost \/ Switch \/ SetActiveProvider)
  BY <1>1, <1>6 DEF Lost, LoseTurn, Switch, SetActiveProvider, NoTurn
\* The session that is replaced is not the one that is imported.
<1>10. CASE operation' \in {operation, NoOperation} /\ ReplaceSession
  <2>1. /\ UNCHANGED <<author, native>> /\ turn'.pc = "bound" /\ turn.by # Imported
        /\ known' = [known EXCEPT ![turn.by] = {}]
    BY <1>10, HarnessAssumption DEF ReplaceSession, TurnType
  <2>2. known'[Imported] = known[Imported]
    BY <1>apart, <2>1
  <2>3. Numbered'
    BY <2>1 DEF OwnedInv, Numbered
  <2>4. \A m \in Message : operation'.content[m] # 0 => m \in known'[Imported]
    BY <1>10, <1>none, <2>2 DEF OwnedInv
  <2> QED BY <2>1, <2>2, <2>3, <2>4 DEF OwnedInv
<1>7. CASE ImportHistoryThread(operation.content) /\ operation' = NoOperation
  BY <1>1, <1>7 DEF ImportHistoryThread
<1>8. CASE UNCHANGED conversation /\ operation'.content = native
  BY <1>1, <1>8 DEF conversation
<1>9. CASE operation' \in {operation, NoOperation} /\ UNCHANGED conversation
  BY <1>1, <1>9 DEF conversation
<1> QED
  BY <1>2, <1>3, <1>4, <1>5, <1>6, <1>7, <1>8, <1>9, <1>10, ConversationMoves DEF Talk

-----------------------------------------------------------------------------
\* The cursors.

\* What is known of the log where the invariant is used.
LEMMA LogFacts ==
  ASSUME LedgerInv
  PROVE  /\ Len(log) \in Nat /\ DOMAIN log = 1 .. Len(log)
         /\ \A e \in DOMAIN log : log[e].message \in Message
<1>1. Now \in State /\ Now.log = log
  BY DEF LedgerInv, Good, Now
<1> QED BY <1>1, Events DEF Event

\* What keeps the cursors true: an event that comes to be shown is new, a harness
\* still accounts for what it did of the log, and a binding that moves passes
\* what its harness accounts for.
LEMMA CursorsKept ==
  ASSUME CursorInv, ConversationTypeOK, ConversationTypeOK', LedgerInv, LedgerInv',
         Len(log) <= Len(log'),
         \A e \in DOMAIN log : /\ log'[e] = log[e]
                               /\ Shown(e)' => Shown(e)
                               /\ \A h \in Harness : log[e].message \in Has(h) =>
                                                       log[e].message \in Has(h)',
         \A h \in Harness : \/ binding'[h] = binding[h]
                            \/ /\ binding'[h] = Len(log')
                               /\ ShownIn(Len(log), Has(h))'
                               /\ Len(log)' = Len(log'),
         calls' \subseteq calls \cup {Reading'},
         TurnIsTrue'
  PROVE  CursorInv'
<1>log. /\ Len(log) \in Nat /\ DOMAIN log = 1 .. Len(log)
        /\ Len(log') \in Nat /\ DOMAIN log' = 1 .. Len(log')
  <2>1. Len(log) \in Nat /\ DOMAIN log = 1 .. Len(log)
    BY LogFacts
  <2>2. log' \in Seq(Event)
    BY DEF LedgerInv, Good, State, Now
  <2>3. Len(log') \in Nat /\ DOMAIN log' = 1 .. Len(log')
    BY <2>2, LenProperties
  <2> QED BY <2>1, <2>3
<1>types. /\ binding \in [Harness -> Nat \cup {-1}] /\ binding' \in [Harness -> Nat \cup {-1}]
          /\ active' \in Harness /\ calls \subseteq [by : Harness, cursor : Nat]
  BY DEF ConversationTypeOK
<1>1. ASSUME NEW h \in Harness, NEW k \in Nat \cup {-1}, k <= Len(log), ShownIn(k, Has(h))
      PROVE  \A e \in DOMAIN log' : e <= k /\ Shown(e)' => log'[e].message \in Has(h)'
  <2> SUFFICES ASSUME NEW e \in DOMAIN log', e <= k, Shown(e)'
               PROVE  log'[e].message \in Has(h)'
    OBVIOUS
  <2>1. e \in DOMAIN log
    BY <1>1, <1>log
  <2>2. log[e].message \in Has(h)
    BY <1>1, <2>1 DEF ShownIn
  <2> QED BY <2>1, <2>2
<1>2. ASSUME NEW h \in Harness
      PROVE  /\ binding'[h] <= Len(log')
             /\ \A e \in DOMAIN log' : e <= binding'[h] /\ Shown(e)' => log'[e].message \in Has(h)'
  <2>1. CASE binding'[h] = binding[h]
    <3>1. binding[h] <= Len(log) /\ ShownIn(binding[h], Has(h)) /\ binding[h] \in Nat \cup {-1}
      BY <1>types DEF CursorInv, BindingsAreTrue
    <3>2. \A e \in DOMAIN log' : e <= binding[h] /\ Shown(e)' => log'[e].message \in Has(h)'
      BY <1>1, <3>1
    <3> QED BY <1>log, <2>1, <3>1, <3>2
  <2>2. CASE binding'[h] = Len(log') /\ ShownIn(Len(log), Has(h))'
    BY <1>log, <2>2 DEF ShownIn
  <2> QED BY <2>1, <2>2
<1>3. BindingsAreTrue'
  BY <1>2 DEF BindingsAreTrue, ShownIn
<1>4. ASSUME NEW c \in calls'
      PROVE  /\ c.cursor <= Len(log')
             /\ \A e \in DOMAIN log' : e <= c.cursor /\ Shown(e)' => log'[e].message \in Has(c.by)'
  <2>1. CASE c \in calls
    <3>1. c.by \in Harness /\ c.cursor \in Nat /\ c.cursor <= Len(log)
          /\ ShownIn(c.cursor, Has(c.by))
      BY <1>types, <2>1 DEF CursorInv, CallsAreTrue
    <3>2. \A e \in DOMAIN log' : e <= c.cursor /\ Shown(e)' => log'[e].message \in Has(c.by)'
      BY <1>1, <3>1
    <3> QED BY <1>log, <3>1, <3>2
  <2>2. CASE c = Reading'
    <3>1. /\ c.by = active'
          /\ c.cursor = IF binding'[active'] = -1 THEN 0 ELSE binding'[active']
      BY <2>2 DEF Reading
    <3>2. CASE binding'[active'] = -1
      <4>1. c.cursor = 0 /\ \A e \in DOMAIN log' : ~(e <= 0)
        BY <1>log, <3>1, <3>2
      <4> QED BY <1>log, <4>1
    <3>3. CASE binding'[active'] # -1
      <4>1. c.by = active' /\ c.cursor = binding'[active']
        BY <3>1, <3>3
      <4> QED BY <1>2, <1>types, <4>1
    <3> QED BY <3>2, <3>3
  <2> QED BY <2>1, <2>2
<1>5. CallsAreTrue'
  BY <1>4 DEF CallsAreTrue, ShownIn
<1> QED BY <1>3, <1>5 DEF CursorInv

\* An import: what becomes visible by it is its own, and the rest was visible.
LEMMA ImportCursor ==
  ASSUME HistoryInv, ConversationTypeOK', ImportHistoryThread(operation.content)
  PROVE  CursorInv'
<1> USE DEF HistoryInv
<1>types. /\ binding \in [Harness -> Nat \cup {-1}] /\ missed \in [Harness -> SUBSET Message]
          /\ turn.pc # "none" => turn.by \in Harness
  BY DEF ConversationTypeOK
<1>apart. Imported \in Harness /\ Other \in Harness /\ Imported # Other /\ Harness = {Imported, Other}
  BY HarnessAssumption DEF Harness
<1>1. /\ UNCHANGED <<turn, known>>
      /\ binding' = [binding EXCEPT ![Imported] = Len(log')]
      /\ calls' \subseteq calls \cup {Reading'}
  BY DEF ImportHistoryThread, Begin
<1>2. LedgerInv' /\ Grows(Now, Now', {m \in Message : operation.content[m] # 0})
  BY ImportGrows
<1>3. /\ Len(log) <= Len(log')
      /\ \A e \in DOMAIN log : log'[e] = log[e]
      /\ \A e \in DOMAIN log' \ DOMAIN log : log'[e].message \in known[Imported]
  BY <1>2 DEF Grows, Now, OwnedInv
<1>4. \A e \in DOMAIN log : Shown(e)' => Shown(e)
  BY <1>2, <1>3 DEF Grows, Now, Shown
<1>5. /\ \A h \in Harness : missed[h] \subseteq missed'[h]
      /\ \A e \in DOMAIN log : log[e].message \in known[Imported] \cup missed'[Imported]
      /\ turn.by = Other =>
           \A e \in DOMAIN log' \ DOMAIN log :
             log'[e].message \in known[Other] \cup turn.given \cup missed'[Other]
  <2> DEFINE A == {log[e].message : e \in DOMAIN log} \ known[Imported]
             B == IF turn.by # Other THEN {}
                  ELSE {log'[e].message : e \in DOMAIN log' \ DOMAIN log}
                         \ (known[Other] \cup turn.given)
  <2>1. missed' = [missed EXCEPT ![Imported] = @ \cup A, ![Other] = @ \cup B]
    BY DEF ImportHistoryThread
  <2> HIDE DEF A, B
  <2>2. missed'[Imported] = missed[Imported] \cup A /\ missed'[Other] = missed[Other] \cup B
    BY <1>apart, <1>types, <2>1
  <2>3. \A h \in Harness : missed[h] \subseteq missed'[h]
    BY <1>apart, <2>2
  <2>4. \A e \in DOMAIN log : log[e].message \in known[Imported] \cup missed'[Imported]
    BY <2>2 DEF A
  <2>5. ASSUME turn.by = Other, NEW e \in DOMAIN log' \ DOMAIN log
        PROVE  log'[e].message \in known[Other] \cup turn.given \cup missed'[Other]
    BY <2>2, <2>5 DEF B
  <2> QED BY <2>3, <2>4, <2>5
<1>6. \A h \in Harness : Has(h) \subseteq Has(h)'
  BY <1>1, <1>5 DEF Has, Coming
<1>7. \A e \in DOMAIN log' : log'[e].message \in Has(Imported)'
  <2>1. \A e \in DOMAIN log' : log'[e].message \in known[Imported] \cup missed'[Imported]
    BY <1>3, <1>5
  <2> QED BY <1>1, <2>1 DEF Has
<1>8. \A h \in Harness : \/ binding'[h] = binding[h]
                         \/ /\ binding'[h] = Len(log')
                            /\ ShownIn(Len(log), Has(h))'
                            /\ Len(log)' = Len(log')
  <2>1. ShownIn(Len(log), Has(Imported))'
    BY <1>7 DEF ShownIn
  <2>2. binding'[Imported] = Len(log') /\ binding'[Other] = binding[Other]
    BY <1>1, <1>apart, <1>types
  <2> QED BY <1>apart, <2>1, <2>2
<1>9. TurnIsTrue'
  <2>1. ASSUME turn.pc # "none", NEW by \in Harness, turn.by = by, NEW e \in DOMAIN log', Shown(e)'
        PROVE  log'[e].message \in Has(by)' \cup turn.given
    <3>1. CASE e \in DOMAIN log
      <4>1. e <= Len(log)
        BY <3>1, LogFacts
      <4>2. log[e].message \in Has(by) \cup turn.given
        BY <1>4, <2>1, <3>1, <4>1 DEF CursorInv, TurnIsTrue, ShownIn
      <4> QED BY <1>3, <1>6, <3>1, <4>2
    <3>2. CASE e \notin DOMAIN log /\ by = Imported
      BY <1>7, <3>2
    <3>3. CASE e \notin DOMAIN log /\ by = Other
      BY <1>1, <1>5, <2>1, <3>3 DEF Has
    <3> QED BY <1>apart, <3>1, <3>2, <3>3
  <2>2. ASSUME turn.pc # "none", NEW e \in DOMAIN log', Shown(e)'
        PROVE  log'[e].message \in Has(turn.by)' \cup turn.given
    BY <1>1, <1>types, <2>1, <2>2 DEF Has, Coming
  <2>3. turn.pc \in {"accepted", "recorded"} => turn.given \subseteq known[turn.by]
    BY DEF CursorInv, TurnIsTrue
  <2> QED BY <1>1, <2>2, <2>3 DEF TurnIsTrue, ShownIn
<1> QED BY <1>1, <1>2, <1>3, <1>4, <1>6, <1>8, <1>9, CursorsKept

\* A turn records its message behind all that the cursors have passed.
LEMMA RecordCursor ==
  ASSUME HistoryInv, ConversationTypeOK', RecordMessage
  PROVE  CursorInv'
<1> USE DEF HistoryInv
<1>1. /\ UNCHANGED <<ledger, binding, calls, known, missed>>
      /\ turn.pc = "accepted" /\ turn'.pc = "recorded"
      /\ turn'.by = turn.by /\ turn'.given = turn.given
  BY DEF RecordMessage, ConversationTypeOK, TurnType
<1>2. /\ LedgerInv'
      /\ Len(log') = Len(log) + 1 /\ Len(log) \in Nat
      /\ DOMAIN log = 1 .. Len(log) /\ DOMAIN log' = 1 .. Len(log) + 1
      /\ \A e \in DOMAIN log : log'[e] = log[e]
      /\ log'[Len(log) + 1].message = turn.message
  BY RecordGrows
<1>3. \A e \in DOMAIN log : Shown(e)' => Shown(e)
  BY <1>1, <1>2 DEF Shown
<1>4. \A h : Has(h)' = Has(h)
  BY <1>1 DEF Has, Coming
<1>5. TurnIsTrue'
  <2>1. turn.message \in known[turn.by] /\ turn.given \subseteq known[turn.by]
    BY <1>1 DEF OwnedInv, CursorInv, TurnIsTrue
  <2>2. ASSUME NEW e \in DOMAIN log', Shown(e)'
        PROVE  log'[e].message \in Has(turn.by) \cup turn.given
    <3>1. CASE e = Len(log) + 1
      BY <1>2, <2>1, <3>1 DEF Has
    <3>2. CASE e # Len(log) + 1
      <4>1. e \in DOMAIN log /\ e <= Len(log)
        BY <1>2, <3>2
      <4> QED BY <1>1, <1>2, <1>3, <2>2, <4>1 DEF CursorInv, TurnIsTrue, ShownIn
    <3> QED BY <3>1, <3>2
  <2> QED BY <1>1, <1>4, <2>1, <2>2 DEF TurnIsTrue, ShownIn
<1> QED BY <1>1, <1>2, <1>3, <1>4, <1>5, CursorsKept

LEMMA CursorStep ==
  ASSUME HistoryInv, Next
  PROVE  CursorInv'
<1> USE DEF HistoryInv
<1>next. ConversationTypeOK' /\ LedgerInv'
  BY ConversationTypeStep, LedgerStep
<1>types. /\ binding \in [Harness -> Nat \cup {-1}] /\ turn \in TurnType
          /\ known \in [Harness -> SUBSET Message] /\ missed \in [Harness -> SUBSET Message]
          /\ turn.pc # "none" => turn.by \in Harness
          /\ calls \subseteq [by : Harness, cursor : Nat]
  BY DEF ConversationTypeOK
<1>log. Len(log) \in Nat /\ DOMAIN log = 1 .. Len(log)
  BY LogFacts
<1>none. NoTurn.pc = "none" /\ NoTurn.by = "none"
  BY DEF NoTurn
\* What a turn is true of, harness by harness.
<1>turn. ASSUME NEW h \in Harness, turn.pc # "none", turn.by = h,
                NEW e \in DOMAIN log, Shown(e)
         PROVE  log[e].message \in Has(h) \cup turn.given
  BY <1>log, <1>turn DEF CursorInv, TurnIsTrue, ShownIn
\* A step that leaves log and ledger alone.
<1>1. ASSUME UNCHANGED <<log, ledger>>,
             \A h \in Harness, e \in DOMAIN log :
               log[e].message \in Has(h) => log[e].message \in Has(h)',
             \A h \in Harness :
               \/ binding'[h] = binding[h]
               \/ /\ binding'[h] = Len(log)
                  /\ \A e \in DOMAIN log : Shown(e) => log[e].message \in Has(h)',
             calls' \subseteq calls \cup {Reading'},
             \A h \in Harness : turn'.pc # "none" /\ turn'.by = h =>
               \A e \in DOMAIN log : Shown(e) => log[e].message \in Has(h)' \cup turn'.given,
             turn'.pc \in {"accepted", "recorded"} => turn'.given \subseteq known'[turn'.by]
      PROVE  CursorInv'
  <2>1. \A e : Shown(e)' = Shown(e)
    BY <1>1 DEF Shown
  <2>2. TurnIsTrue'
    <3>1. turn'.pc # "none" => turn'.by \in Harness
      BY <1>next DEF ConversationTypeOK
    <3>2. ASSUME turn'.pc # "none", NEW e \in DOMAIN log, Shown(e)
          PROVE  log[e].message \in Has(turn.by)' \cup turn'.given
      BY <1>1, <3>1, <3>2 DEF Has, Coming
    <3> QED BY <1>1, <2>1, <3>2 DEF TurnIsTrue, ShownIn
  <2>3. \A h \in Harness : \/ binding'[h] = binding[h]
                           \/ /\ binding'[h] = Len(log')
                              /\ ShownIn(Len(log), Has(h))'
                              /\ Len(log)' = Len(log')
    BY <1>1, <2>1 DEF ShownIn
  <2>4. \A e \in DOMAIN log : log'[e] = log[e] /\ (Shown(e)' => Shown(e))
    BY <1>1, <2>1
  <2>5. \A e \in DOMAIN log, h \in Harness :
          log[e].message \in Has(h) => log[e].message \in Has(h)'
    BY <1>1
  <2>6. Len(log) <= Len(log')
    BY <1>1, <1>log
  <2> QED BY <1>1, <1>next, <2>2, <2>3, <2>4, <2>5, <2>6, CursorsKept
\* The turn stays where it is, and the harnesses learn no less.
<1>2. ASSUME UNCHANGED <<log, ledger, binding, turn, missed>>,
             \A h \in Harness : known[h] \subseteq known'[h],
             calls' \subseteq calls \cup {Reading'}
      PROVE  CursorInv'
  <2>1. \A h \in Harness : Has(h) \subseteq Has(h)'
    BY <1>2 DEF Has, Coming
  <2>2. ASSUME NEW h \in Harness, turn'.pc # "none", turn'.by = h, NEW e \in DOMAIN log, Shown(e)
        PROVE  log[e].message \in Has(h)' \cup turn'.given
    BY <1>2, <1>turn, <2>1, <2>2
  <2>3. turn'.pc \in {"accepted", "recorded"} => turn'.given \subseteq known'[turn'.by]
    BY <1>2, <1>types DEF CursorInv, TurnIsTrue
  <2> QED BY <1>1, <1>2, <2>1, <2>2, <2>3
<1>3. CASE \E call \in calls : SelectContext(call)
  <2>1. PICK call \in calls : SelectContext(call)
    BY <1>3
  <2>2. /\ UNCHANGED <<log, ledger, binding, calls, known, missed>>
        /\ turn.pc = "none" /\ turn'.pc = "given" /\ turn'.by = call.by
        /\ turn'.given = Delta(call.cursor)
    BY <1>none, <2>1 DEF SelectContext, NoTurn
  <2>3. \A h \in Harness : Has(h)' = Has(h)
    BY <2>2 DEF Has, Coming
  <2>4. ASSUME NEW e \in DOMAIN log, Shown(e)
        PROVE  log[e].message \in Has(call.by) \cup Delta(call.cursor)
    <3>1. CASE e <= call.cursor
      BY <2>4, <3>1 DEF CursorInv, CallsAreTrue, ShownIn
    <3>2. CASE e > call.cursor
      BY <2>4, <3>2 DEF Delta
    <3> QED BY <1>log, <1>types, <3>1, <3>2
  <2>5. ASSUME NEW h \in Harness, turn'.by = h, NEW e \in DOMAIN log, Shown(e)
        PROVE  log[e].message \in Has(h)' \cup turn'.given
    BY <2>2, <2>3, <2>4, <2>5
  <2> QED BY <1>1, <2>2, <2>3, <2>5
<1>4. CASE BindSession
  <2>1. /\ UNCHANGED <<log, ledger, known, missed>>
        /\ turn.pc = "given" /\ turn'.pc = "bound" /\ turn'.by = turn.by /\ turn'.given = turn.given
        /\ binding' = [binding EXCEPT ![turn.by] = Len(log)]
        /\ calls' \subseteq calls \cup {Reading'}
    BY <1>4, <1>types DEF BindSession, Begin, TurnType
  <2>2. PICK by \in Harness : turn.by = by
    BY <1>types, <2>1
  <2>3. \A h \in Harness : Has(h) \subseteq Has(h)'
    BY <2>1 DEF Has, Coming
  <2>4. ASSUME NEW e \in DOMAIN log, Shown(e)
        PROVE  log[e].message \in Has(by)'
    <3>1. Has(by)' = Has(by) \cup turn.given
      BY <2>1, <2>2 DEF Has, Coming
    <3> QED BY <1>turn, <2>1, <2>2, <2>4, <3>1
  <2>5. \A h \in Harness :
          \/ binding'[h] = binding[h]
          \/ /\ binding'[h] = Len(log)
             /\ \A e \in DOMAIN log : Shown(e) => log[e].message \in Has(h)'
    BY <1>types, <2>1, <2>2, <2>4
  <2> QED BY <1>1, <2>1, <2>2, <2>3, <2>4, <2>5
<1>5. CASE ReplaceSession
  <2>1. /\ UNCHANGED <<log, ledger>>
        /\ turn.pc = "given" /\ turn'.pc = "bound" /\ turn'.by = turn.by /\ turn'.given = turn.given
        /\ binding' = [binding EXCEPT ![turn.by] = Len(log)]
        /\ calls' \subseteq calls \cup {Reading'}
        /\ \A h \in Harness \ {turn.by} : known'[h] = known[h] /\ missed'[h] = missed[h]
        /\ {log[e].message : e \in DOMAIN log} \ turn.given \subseteq missed'[turn.by]
    BY <1>5, <1>types DEF ReplaceSession, Begin, TurnType
  <2>2. PICK by \in Harness : turn.by = by
    BY <1>types, <2>1
  <2>3. \A e \in DOMAIN log : log[e].message \in Has(by)'
    BY <2>1, <2>2 DEF Has, Coming
  <2>4. \A h \in Harness, e \in DOMAIN log : log[e].message \in Has(h) => log[e].message \in Has(h)'
    <3>1. \A h \in Harness \ {by} : Has(h)' = Has(h)
      BY <2>1, <2>2 DEF Has, Coming
    <3> QED BY <2>3, <3>1
  <2>5. \A h \in Harness :
          \/ binding'[h] = binding[h]
          \/ /\ binding'[h] = Len(log)
             /\ \A e \in DOMAIN log : Shown(e) => log[e].message \in Has(h)'
    BY <1>types, <2>1, <2>2, <2>3
  <2> QED BY <1>1, <2>1, <2>2, <2>3, <2>4, <2>5
<1>6. CASE Accept
  <2>1. /\ UNCHANGED <<log, ledger, binding, calls, missed>>
        /\ turn.pc \in {"given", "bound"} /\ turn'.pc = "accepted"
        /\ turn'.by = turn.by /\ turn'.given = turn.given
        /\ known' = [known EXCEPT ![turn.by] = @ \cup turn.given \cup {NextMessage}]
    BY <1>6, <1>types DEF Accept, TurnType
  <2>2. /\ known[turn.by] \cup turn.given \subseteq known'[turn.by]
        /\ \A h \in Harness : known[h] \subseteq known'[h]
    BY <1>types, <2>1
  <2>3. \A h \in Harness : Has(h) \subseteq Has(h)'
    BY <2>1, <2>2 DEF Has, Coming
  <2>4. ASSUME NEW h \in Harness, turn'.by = h, NEW e \in DOMAIN log, Shown(e)
        PROVE  log[e].message \in Has(h)' \cup turn'.given
    BY <1>turn, <2>1, <2>3, <2>4
  <2> QED BY <1>1, <2>1, <2>2, <2>3, <2>4
<1>7. CASE Complete
  <2>1. /\ UNCHANGED <<log, ledger, known, missed>>
        /\ turn.pc = "recorded" /\ turn'.pc = "none"
        /\ binding' = [binding EXCEPT ![turn.by] = Len(log)]
        /\ calls' \subseteq calls \cup {Reading'}
    BY <1>7, <1>none DEF Complete, Begin
  <2>2. PICK by \in Harness : turn.by = by
    BY <1>types, <2>1
  <2>3. \A h \in Harness : Has(h)' = Has(h)
    BY <2>1 DEF Has, Coming
  <2>4. ASSUME NEW e \in DOMAIN log, Shown(e)
        PROVE  log[e].message \in Has(by)'
    <3>1. turn.given \subseteq known[by]
      BY <2>1, <2>2 DEF CursorInv, TurnIsTrue
    <3>2. known[by] \subseteq Has(by)
      BY DEF Has
    <3> QED BY <1>turn, <2>1, <2>2, <2>3, <2>4, <3>1, <3>2
  <2>5. \A h \in Harness :
          \/ binding'[h] = binding[h]
          \/ /\ binding'[h] = Len(log)
             /\ \A e \in DOMAIN log : Shown(e) => log[e].message \in Has(h)'
    BY <1>types, <2>1, <2>2, <2>4
  <2> QED BY <1>1, <2>1, <2>3, <2>5
<1>8. CASE Lost
  <2>1. /\ UNCHANGED <<log, ledger, binding, known>>
        /\ turn'.pc = "none" /\ calls' \subseteq calls \cup {Reading'}
    BY <1>8, <1>none DEF Lost, LoseTurn
  <2>2. \A h \in Harness : missed[h] \cup Coming(h) \subseteq missed'[h]
    BY <1>8, <1>types DEF Lost, LoseTurn, Coming
  <2>3. \A h \in Harness : Has(h) \subseteq Has(h)'
    BY <2>1, <2>2 DEF Has
  <2> QED BY <1>1, <2>1, <2>3
<1>9. CASE TypeNatively \/ (\E m \in Message : NativeWrites(m)) \/ Switch \/ SetActiveProvider
           \/ UNCHANGED conversation
  <2>1. UNCHANGED <<log, ledger, binding, turn, missed>> /\ calls' \subseteq calls \cup {Reading'}
    BY <1>9 DEF TypeNatively, NativeWrites, Switch, SetActiveProvider, Begin, conversation
  <2>2. \A h \in Harness : known[h] \subseteq known'[h]
    BY <1>9, <1>types
    DEF TypeNatively, NativeWrites, Switch, SetActiveProvider, conversation
  <2> QED BY <1>2, <2>1, <2>2
<1> QED
  BY <1>3, <1>4, <1>5, <1>6, <1>7, <1>8, <1>9, <1>next, ConversationMoves, ImportCursor, RecordCursor
  DEF Talk

-----------------------------------------------------------------------------
\* The status.

\* An item of the transcript only gets newer.
LEMMA NativeGrows ==
  ASSUME ConversationTypeOK, OwnedInv, Next, NEW m \in Message
  PROVE  native[m] <= native'[m]
<1>1. native[m] \in 0 .. 2
  BY DEF ConversationTypeOK, Content
<1>2. CASE UNCHANGED native
  BY <1>1, <1>2
<1>3. CASE TypeNatively
  <2>1. author[NextMessage] = "none" /\ NextMessage \in Message
    BY <1>3, NextIsNew DEF TypeNatively, OwnedInv
  <2>2. native[NextMessage] = 0
    BY <2>1, HarnessAssumption DEF OwnedInv, Harness
  <2>3. native' = [native EXCEPT ![NextMessage] = 1]
    BY <1>3 DEF TypeNatively
  <2>4. native'[m] = IF m = NextMessage THEN 1 ELSE native[m]
    BY <2>1, <2>3 DEF ConversationTypeOK, Content
  <2> QED BY <1>1, <2>2, <2>4
<1>4. CASE \E n \in Message : NativeWrites(n)
  <2>1. PICK n \in Message : NativeWrites(n)
    BY <1>4
  <2>2. PICK v \in (native[n] + 1) .. 2 : native' = [native EXCEPT ![n] = v]
    BY <2>1 DEF NativeWrites
  <2>3. native'[m] = IF m = n THEN v ELSE native[m]
    BY <2>2 DEF ConversationTypeOK, Content
  <2> QED BY <1>1, <2>2, <2>3
<1>5. Talk => UNCHANGED native \/ TypeNatively \/ \E n \in Message : NativeWrites(n)
  BY DEF Talk, SelectContext, BindSession, ReplaceSession, Accept, RecordMessage, Complete, Lost,
         Switch, SetActiveProvider, conversation
<1> QED
  BY <1>2, <1>3, <1>4, <1>5, ConversationMoves DEF ImportHistoryThread, conversation

\* An operation ends; a full refresh, if it was not that one, waits.
LEMMA EndsKeeps ==
  ASSUME RefreshInv, NEW kind, NEW waiting, NEW outcome, Ends(kind, waiting, outcome),
         \A i, j \in DOMAIN waiting : waiting[i] = "full" /\ waiting[j] = "full" => i = j,
         \A i \in DOMAIN waiting : waiting[i] = "full" => kind # "full" /\ Accepted("full"),
         \A m \in Message : native[m] <= native'[m] /\ native'[m] \in Nat /\ native[m] \in Nat
                            /\ promised[m] \in Nat
  PROVE  RefreshInv'
<1>1. /\ operation' = NoOperation /\ queue' = waiting
      /\ status' = IF Public(kind, waiting) THEN outcome ELSE status
      /\ promised' = IF kind = "full" THEN NoContent ELSE promised
  BY DEF Ends
<1>2. operation'.kind = "none" /\ \A m \in Message : operation'.content[m] = 0
  BY <1>1 DEF NoOperation, NoContent
<1>3. ASSUME NEW i \in DOMAIN waiting, waiting[i] = "full"
      PROVE  status' = "running" /\ \A m \in Message : promised'[m] <= native'[m]
  <2>1. kind # "full" /\ Accepted("full")
    BY <1>3
  <2>2. status = "running" /\ \A m \in Message : promised[m] <= native[m]
    BY <2>1 DEF RefreshInv
  <2>3. ~Public(kind, waiting)
    BY <1>3, <2>1 DEF Public
  <2> QED BY <1>1, <2>1, <2>2, <2>3
<1>4. Accepted("full")' => status' = "running" /\ \A m \in Message : promised'[m] <= native'[m]
  BY <1>1, <1>2, <1>3 DEF Accepted
<1> QED BY <1>1, <1>2, <1>4 DEF RefreshInv

LEMMA RefreshStep ==
  ASSUME HistoryInv, Next
  PROVE  RefreshInv'
<1> USE DEF HistoryInv
<1>grows. \A m \in Message : native[m] <= native'[m]
  BY NativeGrows
<1>types. \A m \in Message : /\ native[m] \in Nat /\ native'[m] \in Nat /\ promised[m] \in Nat
                             /\ operation.content[m] \in Nat
  <2>1. native' \in Content
    BY ConversationTypeStep DEF ConversationTypeOK
  <2> QED BY <2>1 DEF ConversationTypeOK, ServiceTypeOK, Content
<1>queue. DOMAIN queue = 1 .. Len(queue) /\ Len(queue) \in Nat
  BY Queue
<1>tail. ASSUME queue # <<>>
         PROVE  /\ \A i, j \in DOMAIN Tail(queue) :
                     Tail(queue)[i] = "full" /\ Tail(queue)[j] = "full" => i = j
                /\ \A i \in DOMAIN Tail(queue) :
                     Tail(queue)[i] = "full" => Head(queue) # "full" /\ Accepted("full")
  <2>1. /\ Head(queue) = queue[1] /\ 1 \in DOMAIN queue
        /\ \A i \in DOMAIN Tail(queue) : Tail(queue)[i] = queue[i + 1]
                                          /\ i + 1 \in DOMAIN queue /\ i \in Nat \ {0}
    BY <1>tail, Queue
  <2>2. \A i, j \in DOMAIN Tail(queue) :
          Tail(queue)[i] = "full" /\ Tail(queue)[j] = "full" => i = j
    <3>1. ASSUME NEW i \in DOMAIN Tail(queue), NEW j \in DOMAIN Tail(queue),
                 Tail(queue)[i] = "full", Tail(queue)[j] = "full"
          PROVE  i = j
      <4>1. i + 1 = j + 1
        BY <2>1, <3>1 DEF RefreshInv
      <4> QED BY <2>1, <4>1
    <3> QED BY <3>1
  <2>3. ASSUME NEW i \in DOMAIN Tail(queue), Tail(queue)[i] = "full"
        PROVE  Head(queue) # "full" /\ Accepted("full")
    <3>1. queue[i + 1] = "full" /\ i + 1 \in DOMAIN queue /\ i + 1 # 1
      BY <2>1, <2>3
    <3> QED BY <2>1, <3>1 DEF RefreshInv, Accepted
  <2> QED BY <2>2, <2>3
<1>more. ASSUME NEW k \in Kinds, queue' = Append(queue, k), UNCHANGED operation,
                k = "full" => ~Accepted("full")
         PROVE  /\ operation'.kind = "full" => \A i \in DOMAIN queue' : queue'[i] # "full"
                /\ \A i, j \in DOMAIN queue' : queue'[i] = "full" /\ queue'[j] = "full" => i = j
                /\ k # "full" => (Accepted("full")' => Accepted("full"))
  <2>1. /\ DOMAIN queue' = 1 .. Len(queue) + 1
        /\ queue'[Len(queue) + 1] = k
        /\ \A i \in DOMAIN queue : queue'[i] = queue[i]
    BY <1>more, Queue
  <2>2. \A i \in DOMAIN queue' : i \in DOMAIN queue \/ i = Len(queue) + 1
    BY <1>queue, <2>1
  <2>3. k # "full" => \A i \in DOMAIN queue' : queue'[i] = "full" => i \in DOMAIN queue
                                                                     /\ queue[i] = "full"
    BY <2>1, <2>2
  <2>4. k = "full" => /\ operation.kind # "full"
                      /\ \A i \in DOMAIN queue : queue[i] # "full"
    BY <1>more DEF Accepted
  <2> QED BY <1>more, <2>1, <2>2, <2>3, <2>4 DEF RefreshInv, Accepted
<1>1. CASE UNCHANGED service
  <2>1. UNCHANGED <<queue, operation, status, promised>>
    BY <1>1 DEF service
  <2>2. \A m \in Message : /\ promised[m] <= native[m] => promised[m] <= native'[m]
                           /\ operation.content[m] <= native'[m]
    BY <1>grows, <1>types DEF RefreshInv
  <2> QED BY <2>1, <2>2 DEF RefreshInv, Accepted
<1>2. CASE SyncAll
  <2>1. /\ ~Accepted("full") /\ queue' = Append(queue, "full") /\ UNCHANGED <<operation, native>>
        /\ status' = "running" /\ promised' = native
    BY <1>2 DEF SyncAll, logVars, conversation
  <2>2. "full" \in Kinds /\ operation.kind # "full"
    BY <2>1 DEF Kinds, Accepted
  <2> QED BY <1>more, <1>types, <2>1, <2>2 DEF RefreshInv
<1>3. CASE RequestChangeCheck \/ FlushHistoryChanges
  <2>1. /\ \E k \in Kinds \ {"full"} : queue' = Append(queue, k)
        /\ UNCHANGED <<operation, native, status, promised>>
    BY <1>3 DEF RequestChangeCheck, FlushHistoryChanges, logVars, conversation, Kinds
  <2> QED BY <1>more, <2>1 DEF RefreshInv
<1>4. CASE \E key \in {"file", "*"} : QueueHistoryChange(key)
  <2>1. UNCHANGED <<queue, operation, native, status, promised>>
    BY <1>4 DEF QueueHistoryChange, logVars, conversation
  <2> QED BY <2>1 DEF RefreshInv, Accepted
<1>5. CASE ReadHistory
  <2>1. /\ queue # <<>> /\ queue' = Tail(queue) /\ operation.kind = "none"
        /\ operation' = [kind |-> Head(queue), content |-> native]
        /\ UNCHANGED <<native, status, promised>>
    BY <1>5 DEF ReadHistory, NoOperation, logVars, conversation
  <2>2. Head(queue) = queue[1] /\ 1 \in DOMAIN queue
    BY <2>1, Queue
  <2>3. Accepted("full")' => Accepted("full")
    BY <1>tail, <2>1, <2>2 DEF Accepted
  <2>4. operation'.kind = "full" => Accepted("full")
    BY <2>1, <2>2 DEF Accepted
  <2>5. operation'.kind = "full" => \A i \in DOMAIN queue' : queue'[i] # "full"
    BY <1>tail, <2>1
  <2> QED BY <1>tail, <1>types, <2>1, <2>3, <2>4, <2>5 DEF RefreshInv
<1>6. CASE NothingToRead \/ ReadFails
  <2>1. queue # <<>> /\ \E o : Ends(Head(queue), Tail(queue), o)
    BY <1>6 DEF NothingToRead, ReadFails
  <2> QED BY <1>grows, <1>types, <1>tail, <2>1, EndsKeeps
<1>7. CASE ImportThread \/ ImportFails
  <2>1. \E o : Ends(operation.kind, queue, o)
    BY <1>7 DEF ImportThread, ImportFails
  <2>2. \A i \in DOMAIN queue : queue[i] = "full" => operation.kind # "full" /\ Accepted("full")
    BY DEF RefreshInv, Accepted
  <2>3. \A i, j \in DOMAIN queue : queue[i] = "full" /\ queue[j] = "full" => i = j
    BY DEF RefreshInv
  <2> QED BY <1>grows, <1>types, <2>1, <2>2, <2>3, EndsKeeps
<1>8. CASE Restart
  <2>1. /\ queue' = <<"full">> /\ operation' = NoOperation /\ status' = "running"
        /\ promised' = native /\ UNCHANGED native
    BY <1>8 DEF Restart
  <2>2. operation'.kind = "none" /\ \A m \in Message : operation'.content[m] = 0
    BY <2>1 DEF NoOperation, NoContent
  <2>3. DOMAIN queue' = {1}
    BY <2>1
  <2> QED BY <1>types, <2>1, <2>2, <2>3 DEF RefreshInv
<1> QED BY <1>1, <1>2, <1>3, <1>4, <1>5, <1>6, <1>7, <1>8 DEF Next

-----------------------------------------------------------------------------
\* The theorems.

LEMMA HistoryInit == Init => HistoryInv
<1> SUFFICES ASSUME Init PROVE HistoryInv
  OBVIOUS
<1> USE DEF Init, LogInit
<1>log. log = <<>> /\ DOMAIN log = {} /\ Len(log) = 0 /\ log \in Seq(Event)
  BY EmptySeq
<1>1. ConversationTypeOK
  BY DEF ConversationTypeOK, Content, Harness, TurnType, NoTurn
<1>2. ServiceTypeOK
  BY DEF ServiceTypeOK, Kinds, Content, NoContent, NoOperation
<1>3. LedgerInv
  <2>1. Now \in State
    BY <1>log DEF Now, State, Entry
  <2> QED BY <1>log, <2>1 DEF LedgerInv, Good, NamesOneEventEach, HasEvent, Now
<1>4. OwnedInv
  <2>1. {m \in Message : author[m] # "none"} = 1 .. 0 /\ 0 \in 0 .. Messages
    BY MessagesAssumption
  <2>2. Numbered
    BY <2>1 DEF Numbered
  <2>3. \A m \in Message : author[m] \notin {"owner", Imported}
    BY HarnessAssumption DEF Harness
  <2> QED BY <2>2, <2>3 DEF OwnedInv, NoOperation, NoContent, NoTurn
<1>5. CursorInv
  BY <1>log DEF CursorInv, BindingsAreTrue, CallsAreTrue, TurnIsTrue, ShownIn, NoTurn
<1>6. RefreshInv
  <2>1. DOMAIN queue = {1}
    OBVIOUS
  <2> QED BY <2>1 DEF RefreshInv, NoOperation, NoContent
<1> QED BY <1>1, <1>2, <1>3, <1>4, <1>5, <1>6 DEF HistoryInv

LEMMA HistoryStep == HistoryInv /\ [Next]_vars => HistoryInv'
<1>1. ASSUME HistoryInv, Next PROVE HistoryInv'
  <2>1. ConversationTypeOK' /\ ServiceTypeOK' /\ LedgerInv' /\ OwnedInv'
    BY <1>1, ConversationTypeStep, ServiceTypeStep, LedgerStep, OwnedStep DEF HistoryInv
  <2>2. CursorInv' /\ RefreshInv'
    BY <1>1, CursorStep, RefreshStep
  <2> QED BY <2>1, <2>2 DEF HistoryInv
<1>2. ASSUME HistoryInv, UNCHANGED vars PROVE HistoryInv'
  <2>1. ConversationTypeOK' /\ ServiceTypeOK' /\ LedgerInv' /\ OwnedInv'
    BY <1>2
    DEF vars, logVars, conversation, service, HistoryInv, ConversationTypeOK, ServiceTypeOK, LedgerInv, Now,
        OwnedInv, Numbered
  <2>2. CursorInv' /\ RefreshInv'
    BY <1>2
    DEF vars, logVars, conversation, service, HistoryInv, CursorInv,
        BindingsAreTrue, CallsAreTrue, TurnIsTrue, Has, Coming, ShownIn, Shown, RefreshInv, Accepted
  <2> QED BY <2>1, <2>2 DEF HistoryInv
<1> QED BY <1>1, <1>2

LEMMA HistoryInvHolds == Spec => []HistoryInv
BY HistoryInit, HistoryStep, PTL DEF Spec

\* Every variable of the conversation and of the import service keeps its type,
\* and every entry of the log and of the ledger names messages and events there
\* are: the loop over the items keeps both whatever it appends and links.
THEOREM HistoryTypeCorrect == Spec => [](ConversationTypeOK /\ ServiceTypeOK /\ LedgerInv)
<1>1. HistoryInv => ConversationTypeOK /\ ServiceTypeOK /\ LedgerInv
  BY DEF HistoryInv
<1> QED BY <1>1, HistoryInvHolds, PTL

\* An event is the event of at most one item of the ledger and says what the item
\* said when it was imported: importHistoryThread keeps that through relinks,
\* corrections and equal texts.
THEOREM LedgerIsOneToOne == Spec => []LedgerNamesOneEventEach
<1>1. HistoryInv => LedgerNamesOneEventEach
  BY DEF HistoryInv, LedgerInv, Good, NamesOneEventEach, Now, LedgerNamesOneEventEach, Spoken
<1> QED BY <1>1, HistoryInvHolds, PTL

\* Between its turns the cursor of a harness has passed only what its native
\* session contains, what another event stands for, and what an import, a replaced
\* session or a failed prompt is known to have cost it, however turns, waiting calls,
\* handoffs under a turn, imports and restarts follow one another.
THEOREM CursorsAreTrue == Spec => []CursorsCoverWhatWasGiven
<1>1. HistoryInv => CursorsCoverWhatWasGiven
  <2> SUFFICES ASSUME HistoryInv, NEW h \in Harness, turn.by # h,
                      NEW e \in DOMAIN log, e <= binding[h], ~Superseded(e),
                      log[e].message \notin known[h]
               PROVE  log[e].message \in missed[h]
    BY DEF CursorsCoverWhatWasGiven, PassedUnheard
  <2>1. ShownIn(binding[h], known[h] \cup missed[h])
    BY DEF HistoryInv, CursorInv, BindingsAreTrue, Has, Coming
  <2>2. CASE Shown(e)
    BY <2>1, <2>2 DEF ShownIn
  <2>3. CASE ~Shown(e)
    <3>1. ledger[log[e].message].event # 0
      BY <2>3 DEF Shown, HistoryInv, LedgerInv, Good, HasEvent, Now
    <3> QED BY <2>3, <3>1 DEF Superseded
  <2> QED BY <2>2, <2>3
<1> QED BY <1>1, HistoryInvHolds, PTL

\* A full refresh owns the public status from its acceptance to its end, and if
\* it then says "complete", all that the transcript held when it was accepted is
\* in the ledger.
THEOREM RefreshIsTruthful == Spec => RefreshReportsTheTruth
<1> DEFINE Truth ==
      Accepted("full") /\ status' # status =>
        /\ operation.kind = "full" \/ Head(queue) = "full"
        /\ status' = "complete" => \A m \in Message : ledger'[m].version >= promised[m]
<1>1. HistoryInv /\ Next => Truth
  <2> SUFFICES ASSUME HistoryInv, Next, Accepted("full"), status' # status
               PROVE  /\ operation.kind = "full" \/ Head(queue) = "full"
                      /\ status' = "complete" =>
                           \A m \in Message : ledger'[m].version >= promised[m]
    OBVIOUS
  <2>1. status = "running"
    BY DEF HistoryInv, RefreshInv
  <2>2. CASE NothingToRead \/ ReadFails
    <3>1. queue # <<>> /\ operation = NoOperation /\ Public(Head(queue), Tail(queue))
      BY <2>2 DEF NothingToRead, ReadFails, Ends
    <3>2. Head(queue) = "full"
      <4>1. operation.kind # "full"
        BY <3>1 DEF NoOperation
      <4>2. PICK i \in DOMAIN queue : queue[i] = "full"
        BY <4>1 DEF Accepted
      <4>3. CASE i = 1
        BY <3>1, <4>2, <4>3, Queue DEF HistoryInv
      <4>4. CASE i # 1
        <5>1. i - 1 \in DOMAIN Tail(queue) /\ Tail(queue)[i - 1] = "full"
          BY <3>1, <4>2, <4>4, Queue DEF HistoryInv
        <5> QED BY <3>1, <5>1 DEF Public
      <4> QED BY <4>3, <4>4
    <3>3. ASSUME status' = "complete", NEW m \in Message
          PROVE  ledger'[m].version >= promised[m]
      <4>1. NothingToRead
        BY <2>2, <3>3, <2>1 DEF ReadFails, Ends
      <4>2. native[m] = 0
        BY <3>2, <4>1 DEF NothingToRead, Reads, NoContent
      <4>3. promised[m] <= native[m] /\ promised[m] \in 0 .. 2
        BY DEF HistoryInv, RefreshInv, ServiceTypeOK, Content
      <4>4. ledger'[m].version \in 0 .. 2
        <5>1. LedgerInv'
          BY LedgerStep DEF HistoryInv
        <5> QED BY <5>1 DEF LedgerInv, Good, State, Now, Entry
      <4> QED BY <4>2, <4>3, <4>4
    <3> QED BY <3>2, <3>3
  <2>3. CASE ImportThread \/ ImportFails
    <3>1. Public(operation.kind, queue)
      BY <2>3 DEF ImportThread, ImportFails, Ends
    <3>2. operation.kind = "full"
      BY <3>1 DEF Public, Accepted
    <3>3. ASSUME status' = "complete", NEW m \in Message
          PROVE  ledger'[m].version >= promised[m]
      <4>1. ImportThread
        BY <2>3, <2>1, <3>3 DEF ImportFails, Ends
      <4>2. /\ operation.content[m] # 0 => ledger'[m].version = operation.content[m]
            /\ LedgerInv'
        BY <4>1, ImportGrows DEF ImportThread, HistoryInv
      <4>3. /\ promised[m] <= operation.content[m] /\ promised[m] \in 0 .. 2
            /\ operation.content[m] \in 0 .. 2
        BY <3>2 DEF HistoryInv, RefreshInv, ServiceTypeOK, Content
      <4>4. ledger'[m].version \in 0 .. 2
        BY <4>2 DEF LedgerInv, Good, State, Now, Entry
      <4> QED BY <4>2, <4>3, <4>4
    <3> QED BY <3>2, <3>3
  <2>4. CASE SyncAll \/ Restart
    BY <2>1, <2>4 DEF SyncAll, Restart
  <2>5. CASE UNCHANGED service \/ RequestChangeCheck \/ FlushHistoryChanges \/ ReadHistory
             \/ \E key \in {"file", "*"} : QueueHistoryChange(key)
    BY <2>5
    DEF service, RequestChangeCheck, FlushHistoryChanges, ReadHistory, QueueHistoryChange
  <2> QED BY <2>2, <2>3, <2>4, <2>5 DEF Next
<1>2. HistoryInv /\ [Next]_vars => [Truth]_vars
  BY <1>1
<1> QED BY <1>2, HistoryInvHolds, PTL DEF Spec, RefreshReportsTheTruth
=============================================================================
