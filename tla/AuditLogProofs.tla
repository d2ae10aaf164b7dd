---------------------------- MODULE AuditLogProofs ----------------------------
(***************************************************************************)
(* Theorems about vector clocks and about the audit log (its steps, its    *)
(* retries, its clocks and diff), for any runs, agents, servers and        *)
(* troubles.                                                               *)
(***************************************************************************)
EXTENDS AuditLog, FiniteSetTheorems, WellFoundedInduction, TLAPS

-----------------------------------------------------------------------------
(* happenedBefore (vector-clock.ts) is a strict order on clocks: no clock  *)
(* is before itself, and what is before one is before all after that.      *)
THEOREM HappenedBeforeIsAnOrder ==
    ASSUME NEW c \in Clock, NEW d \in Clock, NEW e \in Clock
    PROVE  /\ ~happenedBefore(c, c)
           /\ happenedBefore(c, d) /\ happenedBefore(d, e) => happenedBefore(c, e)
<1>1. ~happenedBefore(c, c)
  BY DEF happenedBefore, Clock
<1>2. ASSUME happenedBefore(c, d), happenedBefore(d, e)
      PROVE  happenedBefore(c, e)
  <2>1. \A a \in AgentIds : c[a] \in Nat /\ d[a] \in Nat /\ e[a] \in Nat
    BY DEF Clock
  <2>2. \A a \in AgentIds : c[a] <= d[a] /\ d[a] <= e[a]
    BY <1>2 DEF happenedBefore
  <2>3. PICK a \in AgentIds : c[a] < d[a]
    BY <1>2 DEF happenedBefore
  <2>4. c[a] < e[a]
    BY <2>1, <2>2, <2>3
  <2>5. \A b \in AgentIds : c[b] <= e[b]
    BY <2>1, <2>2
  <2>6. QED
    BY <2>4, <2>5 DEF happenedBefore
<1>3. QED
  BY <1>1, <1>2

(* compare (vector-clock.ts) answers alike from both sides: "before" one   *)
(* way is "after" the other, and "equal" and "concurrent" are symmetric.   *)
Opposite(answer) ==
    IF answer = "before" THEN "after"
    ELSE IF answer = "after" THEN "before" ELSE answer

THEOREM CompareIsConsistent ==
    ASSUME NEW c \in Clock, NEW d \in Clock
    PROVE  /\ compare(d, c) = Opposite(compare(c, d))
           /\ compare(c, d) = "before" <=> happenedBefore(c, d)
<1>1. \A a \in AgentIds : c[a] \in Nat /\ d[a] \in Nat
  BY DEF Clock
<1>2. equal(c, d) <=> equal(d, c)
  BY DEF equal
<1>3. happenedBefore(c, d) => ~equal(c, d)
  BY <1>1 DEF happenedBefore, equal
<1>4. ~(happenedBefore(c, d) /\ happenedBefore(d, c))
  BY <1>1 DEF happenedBefore
<1>5. happenedBefore(d, c) => ~equal(c, d)
  BY <1>1 DEF happenedBefore, equal
<1>6. CASE equal(c, d)
  BY <1>2, <1>3, <1>6 DEF compare, Opposite
<1>7. CASE happenedBefore(c, d)
  BY <1>2, <1>3, <1>4, <1>7 DEF compare, Opposite
<1>8. CASE happenedBefore(d, c)
  BY <1>2, <1>4, <1>5, <1>8 DEF compare, Opposite
<1>9. CASE ~equal(c, d) /\ ~happenedBefore(c, d) /\ ~happenedBefore(d, c)
  BY <1>2, <1>9 DEF compare, Opposite
<1>10. QED
  BY <1>6, <1>7, <1>8, <1>9

(* merge (vector-clock.ts) is the least clock that is no earlier than      *)
(* either: what a receiver knows, and no more.                             *)
NoLater(c, d) == \A a \in AgentIds : c[a] <= d[a]

THEOREM MergeIsLeast ==
    ASSUME NEW c \in Clock, NEW d \in Clock
    PROVE  /\ merge(c, d) \in Clock
           /\ NoLater(c, merge(c, d)) /\ NoLater(d, merge(c, d))
           /\ \A e \in Clock : NoLater(c, e) /\ NoLater(d, e) => NoLater(merge(c, d), e)
<1>1. \A a \in AgentIds : c[a] \in Nat /\ d[a] \in Nat
  BY DEF Clock
<1>2. merge(c, d) \in Clock
  BY <1>1 DEF merge, Clock
<1>3. NoLater(c, merge(c, d)) /\ NoLater(d, merge(c, d))
  BY <1>1 DEF merge, NoLater
<1>4. ASSUME NEW e \in Clock, NoLater(c, e), NoLater(d, e)
      PROVE  NoLater(merge(c, d), e)
  BY <1>4 DEF merge, NoLater
<1>5. QED
  BY <1>2, <1>3, <1>4

(* A tick is after the clock it advances, and after all that one is after. *)
LEMMA TickIsAfter ==
    ASSUME NEW c \in Clock, NEW a \in AgentIds
    PROVE  tick(c, a) \in Clock /\ happenedBefore(c, tick(c, a))
<1>1. \A b \in AgentIds : c[b] \in Nat
  BY DEF Clock
<1>2. \A b \in AgentIds : tick(c, a)[b] = IF b = a THEN c[b] + 1 ELSE c[b]
  BY DEF tick, Clock
<1>3. tick(c, a) \in Clock
  BY <1>1 DEF tick, Clock
<1>4. \A b \in AgentIds : c[b] <= tick(c, a)[b]
  <2> SUFFICES ASSUME NEW b \in AgentIds PROVE c[b] <= tick(c, a)[b]
    OBVIOUS
  <2>1. c[b] \in Nat
    BY <1>1
  <2>2. tick(c, a)[b] = c[b] \/ tick(c, a)[b] = c[b] + 1
    BY <1>2
  <2>3. QED
    BY <2>1, <2>2
<1>5. c[a] < tick(c, a)[a]
  BY <1>1, <1>2
<1>6. QED
  BY <1>3, <1>4, <1>5 DEF happenedBefore

-----------------------------------------------------------------------------
(* What a step does to the trails, the clocks and the order of ticks.      *)
RowStep ==
    /\ \E e \in AuditEntry : AddRow(e)
    /\ UNCHANGED <<clocks, ticked>> /\ mishaps \subseteq mishaps'

TickStep ==
    /\ \E r \in Runs, a \in AgentIds, e \in AuditEntry :
          /\ e.run = r /\ e.clock = tick(clocks[r], a)
          /\ clocks' = [clocks EXCEPT ![r] = tick(clocks[r], a)]
          /\ ticked' = Append(ticked, e)
    /\ UNCHANGED <<steps, trail, mishaps>>

LapseStep ==
    /\ clocks' \in [Runs -> Clock]
    /\ "lapses" \in mishaps' /\ mishaps \subseteq mishaps'
    /\ UNCHANGED <<steps, trail, ticked>>

QuietStep ==
    UNCHANGED <<clocks, steps, trail, ticked>> /\ mishaps \subseteq mishaps'

(* The part of TypeOK that the kinds of steps need.                        *)
LEMMA MayFailFacts ==
    ASSUME TypeOK, NEW kind \in {"refused", "unanswered", "deaths", "lapses"},
           MayFail(kind)
    PROVE  /\ trouble' \in Trouble
           /\ mishaps' = mishaps \cup {kind}
           /\ mishaps' \subseteq {"refused", "unanswered", "deaths", "lapses", "overflow"}
<1>1. trouble \in Trouble /\ trouble[kind] \in Nat /\ trouble[kind] > 0
  BY DEF TypeOK, Trouble, MayFail
<1>2. trouble' = [trouble EXCEPT ![kind] = @ - 1]
  BY DEF MayFail
<1>3. trouble' \in Trouble
  BY <1>1, <1>2 DEF Trouble
<1>4. QED
  BY <1>3 DEF MayFail, TypeOK

LEMMA AddRowFacts ==
    ASSUME TypeOK, NEW e \in AuditEntry, AddRow(e)
    PROVE  /\ steps' \in [Runs -> Nat]
           /\ trail' \in [Runs -> Seq(Row)]
<1>1. e.run \in Runs /\ steps[e.run] \in Nat /\ trail[e.run] \in Seq(Row)
  BY DEF AuditEntry, TypeOK
<1>2. steps' \in [Runs -> Nat]
  BY <1>1 DEF AddRow, TypeOK
<1>3. [entry |-> e, step |-> NextStep(e.run)] \in Row
  BY <1>1 DEF Row, NextStep
<1>4. Append(trail[e.run], [entry |-> e, step |-> NextStep(e.run)]) \in Seq(Row)
  BY <1>1, <1>3
<1>5. trail' \in [Runs -> Seq(Row)]
  BY <1>4 DEF AddRow, TypeOK
<1>6. QED
  BY <1>2, <1>5

(* The entry a call has in hand, and that of a call that stands where a    *)
(* field at says it does.                                                  *)
LEMMA InHandFacts ==
    ASSUME TypeOK
    PROVE  /\ \A p \in Appenders : appending[p].at # "idle" =>
                 appending[p] \in InHand /\ appending[p].entry \in AuditEntry
           /\ \A d \in Drainers : draining[d].at # "idle" =>
                 draining[d] \in InHand /\ draining[d].entry \in AuditEntry
BY DEF TypeOK, InHand, Idle

LEMMA FailFacts ==
    ASSUME TypeOK, NEW e \in AuditEntry, Refuse(e) \/ InsertUnanswered(e)
    PROVE  /\ steps' \in [Runs -> Nat]
           /\ trail' \in [Runs -> Seq(Row)]
           /\ trouble' \in Trouble
           /\ mishaps \subseteq mishaps'
           /\ mishaps' \subseteq {"refused", "unanswered", "deaths", "lapses", "overflow"}
           /\ UNCHANGED <<steps, trail>> \/ AddRow(e)
<1>1. CASE Refuse(e)
  <2>1. UNCHANGED <<steps, trail>>
    BY <1>1 DEF Refuse
  <2>2. CASE UNCHANGED fate
    BY <2>1, <2>2 DEF TypeOK, fate
  <2>3. CASE MayFail("refused")
    BY <2>1, <2>3, MayFailFacts DEF TypeOK
  <2>4. QED
    BY <1>1, <2>2, <2>3 DEF Refuse, IsRefused
<1>2. CASE InsertUnanswered(e)
  <2>1. AddRow(e) /\ MayFail("unanswered")
    BY <1>2 DEF InsertUnanswered
  <2>2. QED
    BY <2>1, MayFailFacts, AddRowFacts
<1>3. QED
  BY <1>1, <1>2

LEMMA TickFacts ==
    ASSUME TypeOK, NEW p \in Appenders, NEW r \in Runs, NEW a \in AgentIds,
           AppendTick(p, r, a)
    PROVE  \E e \in AuditEntry :
              /\ e.id = Len(ticked) + 1
              /\ e.run = r /\ e.clock = tick(clocks[r], a)
              /\ tick(clocks[r], a) \in Clock
              /\ ticked' = Append(ticked, e)
              /\ appending' = [appending EXCEPT ![p] = [at |-> "store", entry |-> e]]
<1> DEFINE e == [id |-> Len(ticked) + 1, run |-> r, agentId |-> a,
                 clock |-> TickedClock(r, a)]
<1>1. tick(clocks[r], a) \in Clock
  BY TickIsAfter DEF TypeOK
<1>2. Len(ticked) + 1 \in EntryIds
  BY AuditConstants DEF TypeOK, AppendTick, EntryIds
<1>3. e \in AuditEntry
  BY <1>1, <1>2 DEF AuditEntry, TickedClock
<1>4. ticked' = Append(ticked, e)
  BY DEF AppendTick
<1>5. appending' = [appending EXCEPT ![p] = [at |-> "store", entry |-> e]]
  BY DEF AppendTick
<1>6. e.id = Len(ticked) + 1 /\ e.run = r /\ e.clock = tick(clocks[r], a)
  BY DEF TickedClock
<1> HIDE DEF e
<1>7. QED
  BY <1>1, <1>3, <1>4, <1>5, <1>6

(* Every reachable state of the audit log is well typed.                   *)
THEOREM AuditTypeCorrect == Spec => []TypeOK
<1>1. Init => TypeOK
  <2> SUFFICES ASSUME Init PROVE TypeOK
    OBVIOUS
  <2>1. NoClock \in Clock
    BY DEF NoClock, Clock
  <2>2. trouble \in Trouble
    BY AuditConstants DEF Init
  <2>3. QED
    BY <2>1, <2>2 DEF Init, TypeOK
<1>2. TypeOK /\ [Next]_vars => TypeOK'
  <2> SUFFICES ASSUME TypeOK, [Next]_vars PROVE TypeOK'
    OBVIOUS
  <2>1. ASSUME NEW p \in Appenders, NEW r \in Runs, NEW a \in AgentIds,
               AppendTick(p, r, a)
        PROVE  TypeOK'
    <3>1. PICK e \in AuditEntry :
             /\ tick(clocks[r], a) \in Clock
             /\ ticked' = Append(ticked, e)
             /\ appending' = [appending EXCEPT ![p] = [at |-> "store", entry |-> e]]
      BY <2>1, TickFacts
    <3>2. [at |-> "store", entry |-> e] \in InHand
      BY DEF InHand
    <3>3. clocks' \in [Runs -> Clock]
      BY <2>1, <3>1 DEF AppendTick, TypeOK
    <3>4. ticked' \in Seq(AuditEntry)
      BY <3>1 DEF TypeOK
    <3>5. appending' \in [Appenders -> InHand \cup {Idle}]
      BY <3>1, <3>2 DEF TypeOK
    <3>6. UNCHANGED <<trouble, mishaps, steps, trail, retry, draining, returned>>
      BY <2>1 DEF AppendTick, fate
    <3>7. QED
      BY <3>3, <3>4, <3>5, <3>6 DEF TypeOK
  <2>2. ASSUME NEW p \in Appenders, AppendStore(p)
        PROVE  TypeOK'
    <3>1. appending[p].entry \in AuditEntry
      BY <2>2, InHandFacts DEF AppendStore
    <3>2. steps' \in [Runs -> Nat] /\ trail' \in [Runs -> Seq(Row)]
      BY <2>2, <3>1, AddRowFacts DEF AppendStore, Insert
    <3>3. appending[p].entry.id \in EntryIds
      BY <3>1 DEF AuditEntry
    <3>4. QED
      BY <2>2, <3>2, <3>3 DEF AppendStore, Insert, TypeOK, fate
  <2>3. ASSUME NEW p \in Appenders, AppendFail(p)
        PROVE  TypeOK'
    <3>1. appending[p] \in InHand /\ appending[p].entry \in AuditEntry
      BY <2>3, InHandFacts DEF AppendFail
    <3>2. /\ steps' \in [Runs -> Nat] /\ trail' \in [Runs -> Seq(Row)]
          /\ trouble' \in Trouble
          /\ mishaps' \subseteq {"refused", "unanswered", "deaths", "lapses", "overflow"}
      BY <2>3, <3>1, FailFacts DEF AppendFail
    <3>3. [appending[p] EXCEPT !.at = "keep"] \in InHand
      BY <3>1 DEF InHand
    <3>4. appending' \in [Appenders -> InHand \cup {Idle}]
      BY <2>3, <3>3 DEF AppendFail, TypeOK
    <3>5. UNCHANGED <<clocks, retry, draining, ticked, returned>>
      BY <2>3 DEF AppendFail
    <3>6. QED
      BY <3>2, <3>4, <3>5 DEF TypeOK
  <2>4. ASSUME NEW p \in Appenders, AppendKeep(p)
        PROVE  TypeOK'
    <3>1. appending[p].entry \in AuditEntry
      BY <2>4, InHandFacts DEF AppendKeep
    <3>2. <<appending[p].entry>> \o retry \in Seq(AuditEntry)
      BY <3>1 DEF TypeOK
    <3>3. \A list \in Seq(AuditEntry) : Trimmed(list) \in Seq(AuditEntry)
      BY AuditConstants DEF Trimmed, Overflows
    <3>4. retry' \in Seq(AuditEntry)
      BY <2>4, <3>2, <3>3 DEF AppendKeep, TypeOK
    <3>5. /\ trouble' \in Trouble
          /\ mishaps' \subseteq {"refused", "unanswered", "deaths", "lapses", "overflow"}
      <4>1. CASE MayFail("deaths")
        BY <4>1, MayFailFacts
      <4>2. CASE /\ trouble' = trouble
                 /\ mishaps' = mishaps \cup
                      (IF Overflows(<<appending[p].entry>> \o retry) THEN {"overflow"} ELSE {})
        BY <4>2 DEF TypeOK
      <4>3. QED
        BY <2>4, <4>1, <4>2 DEF AppendKeep
    <3>6. appending[p].entry.id \in EntryIds
      BY <3>1 DEF AuditEntry
    <3>7. /\ appending' = [appending EXCEPT ![p] = Idle]
          /\ returned' = returned \cup {appending[p].entry.id}
          /\ UNCHANGED <<clocks, steps, trail, draining, ticked>>
      BY <2>4 DEF AppendKeep
    <3>8. QED
      BY <3>4, <3>5, <3>6, <3>7 DEF TypeOK
  <2>5. ASSUME NEW d \in Drainers, DrainPop(d)
        PROVE  TypeOK'
    <3>1. Len(retry) \in Nat /\ Len(retry) > 0
      BY <2>5 DEF DrainPop, TypeOK
    <3>2. retry[Len(retry)] \in AuditEntry
      BY <3>1 DEF TypeOK
    <3>3. [at |-> "store", entry |-> retry[Len(retry)]] \in InHand
      BY <3>2 DEF InHand
    <3>4. retry' \in Seq(AuditEntry)
      BY <2>5, <3>1 DEF DrainPop, TypeOK
    <3>5. draining' \in [Drainers -> InHand \cup {Idle}]
      BY <2>5, <3>3 DEF DrainPop, TypeOK
    <3>6. UNCHANGED <<trouble, mishaps, clocks, steps, trail, appending, ticked, returned>>
      BY <2>5 DEF DrainPop, fate
    <3>7. QED
      BY <3>4, <3>5, <3>6 DEF TypeOK
  <2>6. ASSUME NEW d \in Drainers, DrainStore(d)
        PROVE  TypeOK'
    <3>1. draining[d].entry \in AuditEntry
      BY <2>6, InHandFacts DEF DrainStore
    <3>2. steps' \in [Runs -> Nat] /\ trail' \in [Runs -> Seq(Row)]
      BY <2>6, <3>1, AddRowFacts DEF DrainStore, Insert
    <3>3. QED
      BY <2>6, <3>2 DEF DrainStore, Insert, TypeOK, fate
  <2>7. ASSUME NEW d \in Drainers, DrainFail(d)
        PROVE  TypeOK'
    <3>1. draining[d] \in InHand /\ draining[d].entry \in AuditEntry
      BY <2>7, InHandFacts DEF DrainFail
    <3>2. /\ steps' \in [Runs -> Nat] /\ trail' \in [Runs -> Seq(Row)]
          /\ trouble' \in Trouble
          /\ mishaps' \subseteq {"refused", "unanswered", "deaths", "lapses", "overflow"}
      BY <2>7, <3>1, FailFacts DEF DrainFail
    <3>3. [draining[d] EXCEPT !.at = "keep"] \in InHand
      BY <3>1 DEF InHand
    <3>4. draining' \in [Drainers -> InHand \cup {Idle}]
      BY <2>7, <3>3 DEF DrainFail, TypeOK
    <3>5. UNCHANGED <<clocks, retry, appending, ticked, returned>>
      BY <2>7 DEF DrainFail
    <3>6. QED
      BY <3>2, <3>4, <3>5 DEF TypeOK
  <2>8. ASSUME NEW d \in Drainers, DrainKeep(d)
        PROVE  TypeOK'
    <3>1. draining[d].entry \in AuditEntry
      BY <2>8, InHandFacts DEF DrainKeep
    <3>2. retry' \in Seq(AuditEntry)
      BY <2>8, <3>1 DEF DrainKeep, PutBack, TypeOK
    <3>3. QED
      BY <2>8, <3>2 DEF DrainKeep, TypeOK, fate
  <2>9. ASSUME NEW p \in Appenders, DieAppending(p)
        PROVE  TypeOK'
    BY <2>9, MayFailFacts DEF DieAppending, TypeOK, storage
  <2>10. ASSUME NEW d \in Drainers, DieDraining(d)
         PROVE  TypeOK'
    BY <2>10, MayFailFacts DEF DieDraining, TypeOK, storage
  <2>11. ASSUME NEW r \in Runs, ClockLapse(r)
         PROVE  TypeOK'
    <3>1. NoClock \in Clock
      BY DEF NoClock, Clock
    <3>2. QED
      BY <2>11, <3>1, MayFailFacts DEF ClockLapse, TypeOK
  <2>12. CASE UNCHANGED vars
    BY <2>12 DEF vars, storage, fate, TypeOK
  <2>13. QED
    BY <2>1, <2>2, <2>3, <2>4, <2>5, <2>6, <2>7, <2>8, <2>9, <2>10, <2>11, <2>12
       DEF Next, AppendStep, DrainStep
<1>3. QED
  BY <1>1, <1>2, PTL DEF Spec

-----------------------------------------------------------------------------
LEMMA StepKinds ==
    ASSUME TypeOK, [Next]_vars
    PROVE  RowStep \/ TickStep \/ LapseStep \/ QuietStep
<1>1. ASSUME NEW p \in Appenders, NEW r \in Runs, NEW a \in AgentIds,
             AppendTick(p, r, a)
      PROVE  TickStep
  <2>1. PICK e \in AuditEntry :
           /\ e.run = r /\ e.clock = tick(clocks[r], a)
           /\ ticked' = Append(ticked, e)
    BY <1>1, TickFacts
  <2>2. clocks' = [clocks EXCEPT ![r] = tick(clocks[r], a)]
    BY <1>1 DEF AppendTick
  <2>3. UNCHANGED <<steps, trail, mishaps>>
    BY <1>1 DEF AppendTick, fate
  <2>4. QED
    BY <2>1, <2>2, <2>3 DEF TickStep
<1>2. ASSUME NEW p \in Appenders, AppendStore(p)
      PROVE  RowStep
  BY <1>2, InHandFacts DEF AppendStore, Insert, RowStep, fate
<1>3. ASSUME NEW p \in Appenders, AppendFail(p)
      PROVE  RowStep \/ QuietStep
  <2>1. appending[p].entry \in AuditEntry
    BY <1>3, InHandFacts DEF AppendFail
  <2>2. /\ mishaps \subseteq mishaps'
        /\ UNCHANGED <<steps, trail>> \/ AddRow(appending[p].entry)
    BY <1>3, <2>1, FailFacts DEF AppendFail
  <2>3. QED
    BY <1>3, <2>1, <2>2 DEF AppendFail, RowStep, QuietStep
<1>4. ASSUME NEW p \in Appenders, AppendKeep(p)
      PROVE  QuietStep
  <2>1. mishaps \subseteq mishaps'
    BY <1>4 DEF AppendKeep, MayFail
  <2>2. QED
    BY <1>4, <2>1 DEF AppendKeep, QuietStep
<1>5. ASSUME NEW d \in Drainers, DrainPop(d) \/ DrainKeep(d)
      PROVE  QuietStep
  BY <1>5 DEF DrainPop, DrainKeep, QuietStep, fate
<1>6. ASSUME NEW d \in Drainers, DrainStore(d)
      PROVE  RowStep
  BY <1>6, InHandFacts DEF DrainStore, Insert, RowStep, fate
<1>7. ASSUME NEW d \in Drainers, DrainFail(d)
      PROVE  RowStep \/ QuietStep
  <2>1. draining[d].entry \in AuditEntry
    BY <1>7, InHandFacts DEF DrainFail
  <2>2. /\ mishaps \subseteq mishaps'
        /\ UNCHANGED <<steps, trail>> \/ AddRow(draining[d].entry)
    BY <1>7, <2>1, FailFacts DEF DrainFail
  <2>3. QED
    BY <1>7, <2>1, <2>2 DEF DrainFail, RowStep, QuietStep
<1>8. ASSUME NEW p \in Appenders, DieAppending(p)
      PROVE  QuietStep
  BY <1>8 DEF DieAppending, MayFail, QuietStep, storage
<1>9. ASSUME NEW d \in Drainers, DieDraining(d)
      PROVE  QuietStep
  BY <1>9 DEF DieDraining, MayFail, QuietStep, storage
<1>10. ASSUME NEW r \in Runs, ClockLapse(r)
       PROVE  LapseStep
  <2>1. NoClock \in Clock
    BY DEF NoClock, Clock
  <2>2. clocks' \in [Runs -> Clock]
    BY <1>10, <2>1 DEF ClockLapse, TypeOK
  <2>3. QED
    BY <1>10, <2>2 DEF ClockLapse, MayFail, LapseStep
<1>11. CASE UNCHANGED vars
  BY <1>11 DEF vars, storage, fate, QuietStep
<1>12. QED
  BY <1>1, <1>2, <1>3, <1>4, <1>5, <1>6, <1>7, <1>8, <1>9, <1>10, <1>11
     DEF Next, AppendStep, DrainStep

(* StepsAreContiguous is inductive once the counter is tied to the trail.  *)
CountersCount == \A r \in Runs : steps[r] = Len(trail[r])
Contiguous    == CountersCount /\ StepsAreContiguous

LEMMA RowKeepsContiguous ==
    ASSUME TypeOK, Contiguous, NEW e \in AuditEntry, AddRow(e)
    PROVE  Contiguous'
<1> DEFINE row == [entry |-> e, step |-> NextStep(e.run)]
<1>1. e.run \in Runs /\ trail[e.run] \in Seq(Row) /\ steps[e.run] = Len(trail[e.run])
  BY DEF AuditEntry, TypeOK, Contiguous, CountersCount
<1>2. /\ trail'[e.run] = Append(trail[e.run], row)
      /\ steps'[e.run] = steps[e.run] + 1
      /\ \A r \in Runs \ {e.run} : trail'[r] = trail[r] /\ steps'[r] = steps[r]
  BY <1>1 DEF AddRow, TypeOK
<1>3. row.step = Len(trail[e.run]) + 1 /\ row.entry = e
  BY <1>1 DEF NextStep
<1> HIDE DEF row
<1>4. /\ Len(trail'[e.run]) = Len(trail[e.run]) + 1
      /\ DOMAIN trail'[e.run] = 1 .. Len(trail[e.run]) + 1
      /\ \A i \in 1 .. Len(trail[e.run]) : trail'[e.run][i] = trail[e.run][i]
      /\ trail'[e.run][Len(trail[e.run]) + 1] = row
  BY <1>1, <1>2
<1>5. CountersCount'
  BY <1>1, <1>2, <1>4 DEF CountersCount, Contiguous
<1>6. DOMAIN trail[e.run] = 1 .. Len(trail[e.run]) /\ Len(trail[e.run]) \in Nat
  BY <1>1
<1>7. \A i \in DOMAIN trail[e.run] : trail[e.run][i].step = i
  BY <1>1 DEF Contiguous, StepsAreContiguous
<1>8. \A i \in DOMAIN trail'[e.run] : trail'[e.run][i].step = i
  BY <1>3, <1>4, <1>6, <1>7
<1>9. \A i \in DOMAIN trail[e.run] : trail[e.run][i].entry.id # e.id
  BY <1>1 DEF AddRow, Stored
<1>10. \A i, j \in DOMAIN trail[e.run] :
          trail[e.run][i].entry.id = trail[e.run][j].entry.id => i = j
  BY <1>1 DEF Contiguous, StepsAreContiguous
<1>11. \A i, j \in DOMAIN trail'[e.run] :
          trail'[e.run][i].entry.id = trail'[e.run][j].entry.id => i = j
  <2> SUFFICES ASSUME NEW i \in DOMAIN trail'[e.run], NEW j \in DOMAIN trail'[e.run],
                      trail'[e.run][i].entry.id = trail'[e.run][j].entry.id
               PROVE  i = j
    OBVIOUS
  <2>1. \A h \in DOMAIN trail'[e.run] :
           h \in DOMAIN trail[e.run] \/ h = Len(trail[e.run]) + 1
    BY <1>4, <1>6
  <2>2. CASE i \in DOMAIN trail[e.run] /\ j \in DOMAIN trail[e.run]
    BY <1>4, <1>6, <1>10, <2>2
  <2>3. CASE i \in DOMAIN trail[e.run] /\ j = Len(trail[e.run]) + 1
    BY <1>3, <1>4, <1>6, <1>9, <2>3
  <2>4. CASE j \in DOMAIN trail[e.run] /\ i = Len(trail[e.run]) + 1
    BY <1>3, <1>4, <1>6, <1>9, <2>4
  <2>5. QED
    BY <2>1, <2>2, <2>3, <2>4
<1>12. StepsAreContiguous'
  <2> SUFFICES ASSUME NEW r \in Runs
               PROVE  /\ \A i \in DOMAIN trail'[r] : trail'[r][i].step = i
                      /\ \A i, j \in DOMAIN trail'[r] :
                            trail'[r][i].entry.id = trail'[r][j].entry.id => i = j
    BY DEF StepsAreContiguous
  <2>1. CASE r = e.run
    BY <1>8, <1>11, <2>1
  <2>2. CASE r # e.run
    BY <1>2, <2>2 DEF Contiguous, StepsAreContiguous
  <2>3. QED
    BY <2>1, <2>2
<1>13. QED
  BY <1>5, <1>12 DEF Contiguous

(* "A contiguous, unique 1..50 sequence even across server instances": the *)
(* steps of every run, through refusals, lost answers, crashes and drains. *)
THEOREM ContiguousSteps == Spec => []StepsAreContiguous
<1>1. Init => Contiguous
  BY DEF Init, Contiguous, CountersCount, StepsAreContiguous
<1>2. TypeOK /\ Contiguous /\ [Next]_vars => Contiguous'
  <2> SUFFICES ASSUME TypeOK, Contiguous, [Next]_vars PROVE Contiguous'
    OBVIOUS
  <2>1. CASE RowStep
    BY <2>1, RowKeepsContiguous DEF RowStep
  <2>2. CASE UNCHANGED <<steps, trail>>
    BY <2>2 DEF Contiguous, CountersCount, StepsAreContiguous
  <2>3. QED
    BY <2>1, <2>2, StepKinds DEF TickStep, LapseStep, QuietStep
<1>3. Contiguous => StepsAreContiguous
  BY DEF Contiguous
<1>4. QED
  BY <1>1, <1>2, <1>3, AuditTypeCorrect, PTL DEF Spec

-----------------------------------------------------------------------------
(* ClocksOrderTheRun is inductive once no entry's clock is after its run's.*)
EntriesAreBefore ==
    /\ \A i \in DOMAIN ticked : NoLater(ticked[i].clock, clocks[ticked[i].run])
    /\ \A i, j \in DOMAIN ticked :
          (i < j /\ ticked[i].run = ticked[j].run) =>
              happenedBefore(ticked[i].clock, ticked[j].clock)
ClocksOrder == "lapses" \notin mishaps => EntriesAreBefore

LEMMA NoLaterThenBefore ==
    ASSUME NEW c \in Clock, NEW d \in Clock, NEW e \in Clock,
           NoLater(c, d), happenedBefore(d, e)
    PROVE  happenedBefore(c, e) /\ NoLater(c, e)
<1>1. \A a \in AgentIds : c[a] \in Nat /\ d[a] \in Nat /\ e[a] \in Nat
  BY DEF Clock
<1>2. \A a \in AgentIds : c[a] <= d[a] /\ d[a] <= e[a]
  BY DEF NoLater, happenedBefore
<1>3. PICK a \in AgentIds : d[a] < e[a]
  BY DEF happenedBefore
<1>4. c[a] < e[a]
  BY <1>1, <1>2, <1>3
<1>5. \A b \in AgentIds : c[b] <= e[b]
  BY <1>1, <1>2
<1>6. QED
  BY <1>4, <1>5 DEF happenedBefore, NoLater

LEMMA TickedFacts ==
    ASSUME TypeOK, NEW i \in DOMAIN ticked
    PROVE  ticked[i].clock \in Clock /\ ticked[i].run \in Runs
<1>1. ticked[i] \in AuditEntry
  <2>1. ticked \in Seq(AuditEntry)
    BY DEF TypeOK
  <2>2. QED
    BY <2>1
<1>2. QED
  BY <1>1 DEF AuditEntry

LEMMA TickKeepsOrder ==
    ASSUME TypeOK, TypeOK', EntriesAreBefore, TickStep
    PROVE  EntriesAreBefore'
<1>1. PICK r \in Runs, a \in AgentIds, e \in AuditEntry :
         /\ e.run = r /\ e.clock = tick(clocks[r], a)
         /\ clocks' = [clocks EXCEPT ![r] = tick(clocks[r], a)]
         /\ ticked' = Append(ticked, e)
  BY DEF TickStep
<1>2. clocks[r] \in Clock /\ e.clock \in Clock
  BY DEF TypeOK, AuditEntry
<1>3. happenedBefore(clocks[r], e.clock)
  BY <1>1, <1>2, TickIsAfter
<1>4. /\ clocks'[r] = e.clock
      /\ \A q \in Runs \ {r} : clocks'[q] = clocks[q]
  BY <1>1 DEF TypeOK
<1>5. /\ ticked \in Seq(AuditEntry) /\ Len(ticked) \in Nat
      /\ DOMAIN ticked = 1 .. Len(ticked)
      /\ DOMAIN ticked' = 1 .. Len(ticked) + 1
      /\ \A i \in DOMAIN ticked : ticked'[i] = ticked[i]
      /\ ticked'[Len(ticked) + 1] = e
  BY <1>1 DEF TypeOK
<1>6. \A i \in DOMAIN ticked : ticked[i].clock \in Clock /\ ticked[i].run \in Runs
  BY TickedFacts
<1>7. \A i \in DOMAIN ticked : ticked[i].run = r =>
         /\ happenedBefore(ticked[i].clock, e.clock)
         /\ NoLater(ticked[i].clock, e.clock)
  BY <1>2, <1>3, <1>6, NoLaterThenBefore DEF EntriesAreBefore
<1>8. NoLater(e.clock, e.clock)
  BY <1>2 DEF NoLater, Clock
<1>9. ASSUME NEW i \in DOMAIN ticked'
      PROVE  NoLater(ticked'[i].clock, clocks'[ticked'[i].run])
  <2>1. CASE i \in DOMAIN ticked
    BY <1>4, <1>5, <1>6, <1>7, <2>1 DEF EntriesAreBefore
  <2>2. CASE i = Len(ticked) + 1
    BY <1>1, <1>4, <1>5, <1>8, <2>2
  <2>3. QED
    BY <1>5, <2>1, <2>2
<1>10. ASSUME NEW i \in DOMAIN ticked', NEW j \in DOMAIN ticked',
              i < j, ticked'[i].run = ticked'[j].run
       PROVE  happenedBefore(ticked'[i].clock, ticked'[j].clock)
  <2>1. i \in DOMAIN ticked
    BY <1>5, <1>10
  <2>2. CASE j \in DOMAIN ticked
    BY <1>5, <1>10, <2>1, <2>2 DEF EntriesAreBefore
  <2>3. CASE j = Len(ticked) + 1
    BY <1>1, <1>5, <1>7, <1>10, <2>1, <2>3
  <2>4. QED
    BY <1>5, <2>2, <2>3
<1>11. QED
  BY <1>9, <1>10 DEF EntriesAreBefore

(* While it has not lapsed, a run's clock puts its entries in the order of *)
(* their ticks, whichever agents and servers appended them.                *)
THEOREM ClocksOrderRuns == Spec => []ClocksOrderTheRun
<1>1. Init => ClocksOrder
  BY DEF Init, ClocksOrder, EntriesAreBefore
<1>2. TypeOK /\ TypeOK' /\ ClocksOrder /\ [Next]_vars => ClocksOrder'
  <2> SUFFICES ASSUME TypeOK, TypeOK', ClocksOrder, [Next]_vars, "lapses" \notin mishaps'
               PROVE  EntriesAreBefore'
    BY DEF ClocksOrder
  <2>1. CASE TickStep
    <3>1. EntriesAreBefore
      BY <2>1 DEF TickStep, ClocksOrder
    <3>2. QED
      BY <2>1, <3>1, TickKeepsOrder
  <2>2. CASE UNCHANGED <<clocks, ticked>> /\ mishaps \subseteq mishaps'
    BY <2>2 DEF ClocksOrder, EntriesAreBefore
  <2>3. QED
    BY <2>1, <2>2, StepKinds DEF RowStep, LapseStep, QuietStep
<1>3. TypeOK /\ ClocksOrder => ClocksOrderTheRun
  <2> SUFFICES ASSUME TypeOK, EntriesAreBefore,
                      NEW i \in DOMAIN ticked, NEW j \in DOMAIN ticked,
                      i < j, ticked[i].run = ticked[j].run
               PROVE  compare(ticked[i].clock, ticked[j].clock) = "before"
    BY DEF ClocksOrder, ClocksOrderTheRun
  <2>1. ticked[i].clock \in Clock /\ ticked[j].clock \in Clock
    BY TickedFacts
  <2>2. happenedBefore(ticked[i].clock, ticked[j].clock)
    BY DEF EntriesAreBefore
  <2>3. QED
    BY <2>1, <2>2, CompareIsConsistent
<1>4. QED
  BY <1>1, <1>2, <1>3, AuditTypeCorrect, PTL DEF Spec

-----------------------------------------------------------------------------
(* Where an entry is.  It is in the list or in one hand, but never twice;  *)
(* what a drain holds or the list keeps has been returned; ids in use are  *)
(* those of ticks that have been.                                          *)
IsIn(list, id)  == \E i \in DOMAIN list : list[i].id = id
Held(hands, id) == \E d \in Drainers : hands[d] # Idle /\ hands[d].entry.id = id
OncePlaced ==
    /\ \A i, j \in DOMAIN retry : retry[i].id = retry[j].id => i = j
    /\ \A d \in Drainers : draining[d] # Idle => ~IsIn(retry, draining[d].entry.id)
    /\ \A c, d \in Drainers :
          draining[c] # Idle /\ draining[d] # Idle /\ draining[c].entry.id = draining[d].entry.id => c = d
    /\ \A p \in Appenders : appending[p] # Idle =>
          ~IsIn(retry, appending[p].entry.id) /\ ~Held(draining, appending[p].entry.id)
    /\ \A p, q \in Appenders :
          appending[p] # Idle /\ appending[q] # Idle /\ appending[p].entry.id = appending[q].entry.id => p = q
IdsOK ==
    /\ \A i \in DOMAIN retry : retry[i].id \in returned
    /\ \A d \in Drainers : draining[d] # Idle => draining[d].entry.id \in returned
    /\ \A p \in Appenders : appending[p] # Idle => appending[p].entry.id <= Len(ticked)
    /\ \A id \in returned : id <= Len(ticked)
Placed == OncePlaced /\ IdsOK

LEMMA Numbers ==
    ASSUME TypeOK
    PROVE  /\ Len(ticked) \in Nat /\ returned \subseteq Nat
           /\ \A e \in AuditEntry : e.id \in Nat /\ e.id \in EntryIds
           /\ \A p \in Appenders : appending[p] # Idle => appending[p].entry \in AuditEntry
           /\ \A d \in Drainers : draining[d] # Idle => draining[d].entry \in AuditEntry
           /\ Idle.at = "idle"
BY DEF TypeOK, AuditEntry, EntryIds, InHand, Idle

(* A step in which hands keep what they hold, or let it go.                *)
LetsGo ==
    /\ retry' = retry /\ ticked' = ticked /\ returned \subseteq returned'
    /\ \A p \in Appenders : appending'[p] # Idle =>
          appending[p] # Idle /\ appending'[p].entry = appending[p].entry
    /\ \A d \in Drainers : draining'[d] # Idle =>
          draining[d] # Idle /\ draining'[d].entry = draining[d].entry
    /\ \A id \in returned' : id \in returned \/ \E p \in Appenders :
          appending[p] # Idle /\ id = appending[p].entry.id

LEMMA LetsGoPlaced ==
    ASSUME Placed, LetsGo
    PROVE  Placed'
<1>1. \A id : (IsIn(retry', id) <=> IsIn(retry, id)) /\ (Held(draining', id) => Held(draining, id))
  BY DEF LetsGo, IsIn, Held
<1>2. OncePlaced'
  BY <1>1 DEF LetsGo, Placed, OncePlaced
<1>3. IdsOK'
  BY DEF LetsGo, Placed, IdsOK
<1>4. QED
  BY <1>2, <1>3 DEF Placed

LEMMA TickPlaced ==
    ASSUME TypeOK, Placed, NEW p \in Appenders, NEW r \in Runs, NEW a \in AgentIds, AppendTick(p, r, a)
    PROVE  Placed'
<1>1. PICK e \in AuditEntry :
         /\ e.id = Len(ticked) + 1
         /\ ticked' = Append(ticked, e)
         /\ appending' = [appending EXCEPT ![p] = [at |-> "store", entry |-> e]]
  BY TickFacts
<1>2. UNCHANGED <<retry, draining, returned>>
  BY DEF AppendTick
<1>3. /\ appending'[p].entry = e
      /\ \A q \in Appenders \ {p} : appending'[q] = appending[q]
  BY <1>1 DEF TypeOK
<1>4. Len(ticked') = Len(ticked) + 1 /\ Len(ticked) \in Nat
  BY <1>1 DEF TypeOK
<1>5. /\ \A id \in returned : id \in Nat /\ id < e.id
      /\ \A q \in Appenders : appending[q] # Idle =>
            appending[q].entry.id \in Nat /\ appending[q].entry.id < e.id
      /\ e.id \in Nat
  BY <1>1, <1>4, Numbers DEF Placed, IdsOK
<1>6. ~IsIn(retry, e.id) /\ ~Held(draining, e.id)
  BY <1>5 DEF IsIn, Held, Placed, IdsOK
<1>7. \A id : (IsIn(retry', id) <=> IsIn(retry, id)) /\ (Held(draining', id) <=> Held(draining, id))
  BY <1>2 DEF IsIn, Held
<1>8. OncePlaced'
  <2>1. ASSUME NEW q \in Appenders, appending'[q] # Idle
        PROVE  ~IsIn(retry, appending'[q].entry.id) /\ ~Held(draining, appending'[q].entry.id)
    BY <1>3, <1>6, <2>1 DEF Placed, OncePlaced
  <2>2. ASSUME NEW q \in Appenders, NEW s \in Appenders, appending'[q] # Idle, appending'[s] # Idle,
               appending'[q].entry.id = appending'[s].entry.id
        PROVE  q = s
    BY <1>3, <1>5, <2>2 DEF Placed, OncePlaced
  <2>3. QED
    BY <1>2, <1>7, <2>1, <2>2 DEF Placed, OncePlaced
<1>9. IdsOK'
  <2>1. ASSUME NEW q \in Appenders, appending'[q] # Idle
        PROVE  appending'[q].entry.id <= Len(ticked')
    BY <1>1, <1>3, <1>4, <1>5, <2>1
  <2>2. \A id \in returned : id <= Len(ticked')
    BY <1>1, <1>4, <1>5
  <2>3. QED
    BY <1>2, <2>1, <2>2 DEF Placed, IdsOK
<1>10. QED
  BY <1>8, <1>9 DEF Placed

(* LPUSH and LTRIM keep the newest entries, whole and in order.            *)
NewestOf(t, e) ==
    /\ DOMAIN t = 1 .. Len(t)
    /\ \A i \in DOMAIN t : IF i = 1 THEN t[i] = e ELSE i - 1 \in DOMAIN retry /\ t[i] = retry[i - 1]
AllOf(t, e) ==
    /\ 1 \in DOMAIN t /\ t[1] = e
    /\ \A i \in DOMAIN retry : i + 1 \in DOMAIN t /\ t[i + 1] = retry[i]

LEMMA TrimmedKeeps ==
    ASSUME TypeOK, NEW e \in AuditEntry, NEW list, list = <<e>> \o retry
    PROVE  /\ NewestOf(Trimmed(list), e)
           /\ Overflows(list) => Len(Trimmed(list)) = RetryMax
           /\ ~Overflows(list) => AllOf(Trimmed(list), e)
<1>1. /\ retry \in Seq(AuditEntry) /\ Len(retry) \in Nat /\ RetryMax \in Nat /\ RetryMax > 0
      /\ DOMAIN retry = 1 .. Len(retry)
  BY AuditConstants DEF TypeOK
<1>2. /\ list \in Seq(AuditEntry) /\ Len(list) = Len(retry) + 1 /\ list[1] = e
      /\ \A i \in 2 .. Len(list) : list[i] = retry[i - 1]
  BY <1>1
<1>3. PICK n \in Nat : /\ n = IF Overflows(list) THEN RetryMax ELSE Len(retry) + 1
                       /\ Trimmed(list) = SubSeq(list, 1, n)
  <2>1. CASE Overflows(list)
    BY <1>1, <2>1 DEF Trimmed
  <2>2. CASE ~Overflows(list)
    BY <1>1, <1>2, <2>2 DEF Trimmed
  <2>3. QED
    BY <2>1, <2>2
<1>4. n >= 1 /\ n <= Len(list)
  BY <1>1, <1>2, <1>3 DEF Overflows
<1>5. /\ Len(Trimmed(list)) = n /\ DOMAIN Trimmed(list) = 1 .. n
      /\ \A i \in 1 .. n : Trimmed(list)[i] = list[i]
  BY <1>2, <1>3, <1>4
<1>6. \A i \in 1 .. n : IF i = 1 THEN Trimmed(list)[i] = e
                        ELSE i - 1 \in DOMAIN retry /\ Trimmed(list)[i] = retry[i - 1]
  BY <1>1, <1>2, <1>4, <1>5
<1>7. ~Overflows(list) => \A i \in DOMAIN retry :
                 i + 1 \in 1 .. n /\ Trimmed(list)[i + 1] = retry[i]
  BY <1>1, <1>2, <1>3, <1>5
<1>8. 1 \in 1 .. n /\ Trimmed(list)[1] = e
  BY <1>4, <1>6
<1>9. NewestOf(Trimmed(list), e)
  BY <1>5, <1>6 DEF NewestOf
<1>10. ~Overflows(list) => AllOf(Trimmed(list), e)
  BY <1>5, <1>7, <1>8 DEF AllOf
<1>11. QED
  BY <1>3, <1>5, <1>9, <1>10

LEMMA KeepPlaced ==
    ASSUME TypeOK, Placed, NEW p \in Appenders, appending[p] # Idle,
           retry' = Trimmed(<<appending[p].entry>> \o retry), UNCHANGED <<draining, ticked>>,
           returned' = returned \cup {appending[p].entry.id},
           appending' = [appending EXCEPT ![p] = Idle]
    PROVE  Placed'
<1>1. PICK e \in AuditEntry : e = appending[p].entry
  BY Numbers
<1>2. /\ \A i \in DOMAIN retry' :
            IF i = 1 THEN retry'[i] = e ELSE i - 1 \in DOMAIN retry /\ retry'[i] = retry[i - 1]
      /\ DOMAIN retry' = 1 .. Len(retry')
  <2>1. PICK list : list = <<e>> \o retry
    OBVIOUS
  <2>2. retry' = Trimmed(list)
    BY <1>1, <2>1
  <2>3. NewestOf(Trimmed(list), e)
    BY <1>1, <2>1, TrimmedKeeps
  <2>4. QED
    BY <2>2, <2>3 DEF NewestOf
<1>3. \A id : IsIn(retry', id) => IsIn(retry, id) \/ id = e.id
  BY <1>2 DEF IsIn
<1>4. \A id : Held(draining', id) <=> Held(draining, id)
  BY DEF Held
<1>5. /\ appending'[p] = Idle
      /\ \A q \in Appenders \ {p} : appending'[q] = appending[q]
  BY DEF TypeOK
<1>6. ~IsIn(retry, e.id) /\ ~Held(draining, e.id)
  BY <1>1 DEF Placed, OncePlaced
<1>7. \A i, j \in DOMAIN retry' : retry'[i].id = retry'[j].id => i = j
  <2> SUFFICES ASSUME NEW i \in DOMAIN retry', NEW j \in DOMAIN retry', retry'[i].id = retry'[j].id
               PROVE  i = j
    OBVIOUS
  <2>1. CASE i = 1 \/ j = 1
    BY <1>2, <1>6, <2>1 DEF IsIn
  <2>2. CASE i # 1 /\ j # 1
    <3>1. i - 1 = j - 1
      BY <1>2, <2>2 DEF Placed, OncePlaced
    <3>2. i \in Int /\ j \in Int
      BY <1>2
    <3>3. QED
      BY <3>1, <3>2
  <2>3. QED
    BY <2>1, <2>2
<1>8. \A d \in Drainers : draining'[d] # Idle => ~IsIn(retry', draining'[d].entry.id)
  BY <1>3, <1>6 DEF Placed, OncePlaced, Held
<1>9. \A q \in Appenders : appending'[q] # Idle =>
          ~IsIn(retry', appending'[q].entry.id) /\ ~Held(draining', appending'[q].entry.id)
  BY <1>1, <1>3, <1>4, <1>5 DEF Placed, OncePlaced
<1>10. \A q, s \in Appenders : appending'[q] # Idle /\ appending'[s] # Idle
          /\ appending'[q].entry.id = appending'[s].entry.id => q = s
  BY <1>5 DEF Placed, OncePlaced
<1>11. OncePlaced'
  BY <1>7, <1>8, <1>9, <1>10 DEF Placed, OncePlaced
<1>12. IdsOK'
  BY <1>1, <1>2, <1>5 DEF Placed, IdsOK
<1>13. QED
  BY <1>11, <1>12 DEF Placed

LEMMA PopPlaced ==
    ASSUME TypeOK, Placed, NEW d \in Drainers, DrainPop(d)
    PROVE  Placed'
<1>1. /\ retry \in Seq(AuditEntry) /\ Len(retry) \in Nat /\ Len(retry) > 0
      /\ DOMAIN retry = 1 .. Len(retry)
  BY DEF DrainPop, TypeOK
<1>2. PICK n \in Nat, e \in AuditEntry : n = Len(retry) /\ e = retry[n] /\ n \in DOMAIN retry
  <2>1. Len(retry) \in DOMAIN retry /\ retry[Len(retry)] \in AuditEntry
    BY <1>1
  <2>2. QED
    BY <1>1, <2>1
<1>3. /\ DOMAIN retry' = 1 .. n - 1
      /\ \A i \in DOMAIN retry' : i \in DOMAIN retry /\ i # n /\ retry'[i] = retry[i]
  BY <1>1, <1>2 DEF DrainPop
<1>4. /\ draining'[d].entry = e /\ draining[d] = Idle
      /\ \A c \in Drainers \ {d} : draining'[c] = draining[c]
      /\ UNCHANGED <<appending, ticked, returned>>
  BY <1>2 DEF DrainPop, TypeOK
<1>5. \A id : IsIn(retry', id) => IsIn(retry, id) /\ id # e.id
  BY <1>2, <1>3 DEF IsIn, Placed, OncePlaced
<1>6. IsIn(retry, e.id)
  BY <1>2 DEF IsIn
<1>7. \A id : Held(draining', id) => Held(draining, id) \/ id = e.id
  BY <1>4 DEF Held
<1>8. \A i, j \in DOMAIN retry' : retry'[i].id = retry'[j].id => i = j
  BY <1>3 DEF Placed, OncePlaced
<1>9. \A c \in Drainers : draining'[c] # Idle => ~IsIn(retry', draining'[c].entry.id)
  BY <1>4, <1>5 DEF Placed, OncePlaced
<1>10. \A b, c \in Drainers : draining'[b] # Idle /\ draining'[c] # Idle
          /\ draining'[b].entry.id = draining'[c].entry.id => b = c
  BY <1>4, <1>6 DEF Placed, OncePlaced
<1>11. \A p \in Appenders : appending'[p] # Idle =>
          ~IsIn(retry', appending'[p].entry.id) /\ ~Held(draining', appending'[p].entry.id)
  BY <1>4, <1>5, <1>6, <1>7 DEF Placed, OncePlaced
<1>12. OncePlaced'
  BY <1>4, <1>8, <1>9, <1>10, <1>11 DEF Placed, OncePlaced
<1>13. IdsOK'
  BY <1>2, <1>3, <1>4 DEF Placed, IdsOK
<1>14. QED
  BY <1>12, <1>13 DEF Placed

LEMMA PutBackPlaced ==
    ASSUME TypeOK, Placed, NEW d \in Drainers, DrainKeep(d)
    PROVE  Placed'
<1>1. /\ retry \in Seq(AuditEntry) /\ Len(retry) \in Nat /\ DOMAIN retry = 1 .. Len(retry)
  BY DEF TypeOK
<1>2. draining[d] # Idle
  BY DEF DrainKeep, Idle
<1>3. PICK e \in AuditEntry : e = draining[d].entry
  BY <1>2, Numbers
<1>4. PICK n \in Nat : n = Len(retry)
  BY <1>1
<1>5. /\ DOMAIN retry' = 1 .. n + 1
      /\ retry'[n + 1] = e
      /\ \A i \in DOMAIN retry' : i = n + 1 \/ (i \in DOMAIN retry /\ retry'[i] = retry[i])
  BY <1>1, <1>3, <1>4 DEF DrainKeep, PutBack
<1>6. /\ draining'[d] = Idle
      /\ \A c \in Drainers \ {d} : draining'[c] = draining[c]
      /\ UNCHANGED <<appending, ticked, returned>>
  BY DEF DrainKeep, TypeOK
<1>7. \A id : IsIn(retry', id) => IsIn(retry, id) \/ id = e.id
  BY <1>5 DEF IsIn
<1>8. \A id : Held(draining', id) => Held(draining, id)
  BY <1>6 DEF Held
<1>9. ~IsIn(retry, e.id) /\ Held(draining, e.id)
  BY <1>2, <1>3 DEF Placed, OncePlaced, Held
<1>10. \A i, j \in DOMAIN retry' : retry'[i].id = retry'[j].id => i = j
  BY <1>5, <1>9 DEF Placed, OncePlaced, IsIn
<1>11. \A c \in Drainers : draining'[c] # Idle => ~IsIn(retry', draining'[c].entry.id)
  BY <1>2, <1>3, <1>6, <1>7 DEF Placed, OncePlaced
<1>12. \A b, c \in Drainers : draining'[b] # Idle /\ draining'[c] # Idle
          /\ draining'[b].entry.id = draining'[c].entry.id => b = c
  BY <1>6 DEF Placed, OncePlaced
<1>13. \A p \in Appenders : appending'[p] # Idle =>
          ~IsIn(retry', appending'[p].entry.id) /\ ~Held(draining', appending'[p].entry.id)
  BY <1>6, <1>7, <1>8, <1>9 DEF Placed, OncePlaced
<1>14. OncePlaced'
  BY <1>6, <1>10, <1>11, <1>12, <1>13 DEF Placed, OncePlaced
<1>15. IdsOK'
  BY <1>2, <1>3, <1>5, <1>6 DEF Placed, IdsOK
<1>16. QED
  BY <1>14, <1>15 DEF Placed

LEMMA StepPlaced ==
    ASSUME TypeOK, Placed, [Next]_vars
    PROVE  Placed'
<1>1. ASSUME NEW p \in Appenders, AppendStore(p) \/ AppendFail(p) \/ DieAppending(p)
      PROVE  LetsGo
  <2>1. appending[p] # Idle
    BY <1>1 DEF AppendStore, AppendFail, DieAppending, Idle
  <2>2. UNCHANGED <<retry, ticked, draining>>
    BY <1>1 DEF AppendStore, AppendFail, DieAppending, storage
  <2>3. /\ \A q \in Appenders \ {p} : appending'[q] = appending[q]
        /\ appending'[p] # Idle => appending'[p].entry = appending[p].entry
    <3>1. appending[p] \in InHand /\ appending \in [Appenders -> InHand \cup {Idle}]
      BY <2>1 DEF TypeOK
    <3>2. CASE AppendFail(p)
      BY <3>1, <3>2 DEF AppendFail, InHand
    <3>3. CASE AppendStore(p) \/ DieAppending(p)
      BY <3>1, <3>3 DEF AppendStore, DieAppending
    <3>4. QED
      BY <1>1, <3>2, <3>3
  <2>4. returned' = returned \/ returned' = returned \cup {appending[p].entry.id}
    BY <1>1 DEF AppendStore, AppendFail, DieAppending
  <2>5. QED
    BY <2>1, <2>2, <2>3, <2>4 DEF LetsGo
<1>2. ASSUME NEW d \in Drainers, DrainStore(d) \/ DrainFail(d) \/ DieDraining(d)
      PROVE  LetsGo
  <2>1. draining[d] # Idle
    BY <1>2 DEF DrainStore, DrainFail, DieDraining, Idle
  <2>2. UNCHANGED <<retry, ticked, appending, returned>>
    BY <1>2 DEF DrainStore, DrainFail, DieDraining, storage
  <2>3. /\ \A c \in Drainers \ {d} : draining'[c] = draining[c]
        /\ draining'[d] # Idle => draining'[d].entry = draining[d].entry
    <3>1. draining[d] \in InHand /\ draining \in [Drainers -> InHand \cup {Idle}]
      BY <2>1 DEF TypeOK
    <3>2. CASE DrainFail(d)
      BY <3>1, <3>2 DEF DrainFail, InHand
    <3>3. CASE DrainStore(d) \/ DieDraining(d)
      BY <3>1, <3>3 DEF DrainStore, DieDraining
    <3>4. QED
      BY <1>2, <3>2, <3>3
  <2>4. QED
    BY <2>1, <2>2, <2>3 DEF LetsGo
<1>3. ASSUME NEW p \in Appenders, AppendKeep(p)
      PROVE  Placed'
  <2>1. /\ appending[p] # Idle /\ UNCHANGED <<draining, ticked>>
        /\ returned' = returned \cup {appending[p].entry.id}
        /\ appending' = [appending EXCEPT ![p] = Idle]
    BY <1>3 DEF AppendKeep, Idle
  <2>2. CASE retry' = Trimmed(<<appending[p].entry>> \o retry)
    BY <2>1, <2>2, KeepPlaced
  <2>3. CASE retry' = retry
    <3>1. LetsGo
      BY <2>1, <2>3 DEF LetsGo, TypeOK
    <3>2. QED
      BY <3>1, LetsGoPlaced
  <2>4. QED
    BY <1>3, <2>2, <2>3 DEF AppendKeep
<1>4. CASE UNCHANGED <<retry, ticked, appending, draining, returned>>
  <2>1. LetsGo
    BY <1>4 DEF LetsGo
  <2>2. QED
    BY <2>1, LetsGoPlaced
<1>5. ASSUME NEW r \in Runs, ClockLapse(r)
      PROVE  Placed'
  BY <1>4, <1>5 DEF ClockLapse
<1>6. CASE UNCHANGED vars
  BY <1>4, <1>6 DEF vars, storage
<1>7. QED
  BY <1>1, <1>2, <1>3, <1>5, <1>6, LetsGoPlaced, TickPlaced, PopPlaced, PutBackPlaced
     DEF Next, AppendStep, DrainStep

LEMMA PlacedAlways == Spec => []Placed
<1>1. Init => Placed
  <2> SUFFICES ASSUME Init
               PROVE  Placed
    OBVIOUS
  <2>1. /\ retry = << >> /\ returned = {}
        /\ \A p \in Appenders : appending[p] = Idle
        /\ \A d \in Drainers : draining[d] = Idle
    BY DEF Init
  <2>2. QED
    BY <2>1 DEF Placed, OncePlaced, IdsOK
<1>2. TypeOK /\ Placed /\ [Next]_vars => Placed'
  BY StepPlaced
<1>3. QED
  BY <1>1, <1>2, AuditTypeCorrect, PTL DEF Spec

-----------------------------------------------------------------------------
(* What has been returned is kept, or the list has overflowed and as much  *)
(* as it holds is kept.                                                    *)
Enough == Missing = {} \/ Cardinality(returned \ Missing) >= RetryMax

LEMMA KeptGrows ==
    ASSUME TypeOK', Enough, returned \subseteq returned', Missing' \subseteq Missing
    PROVE  Enough'
<1>1. CASE Missing = {}
  BY <1>1 DEF Enough
<1>2. CASE Cardinality(returned \ Missing) >= RetryMax
  <2>1. PICK less, more : less = returned \ Missing /\ more = returned' \ Missing'
    OBVIOUS
  <2>2. less \subseteq more /\ more \subseteq EntryIds
    BY <2>1 DEF TypeOK
  <2>3. IsFiniteSet(EntryIds)
    BY AuditConstants, FS_Interval DEF EntryIds
  <2>4. IsFiniteSet(more) /\ IsFiniteSet(less)
    BY <2>2, <2>3, FS_Subset
  <2>5. /\ Cardinality(less) <= Cardinality(more)
        /\ Cardinality(less) \in Nat /\ Cardinality(more) \in Nat
    BY <2>2, <2>4, FS_Subset, FS_CardinalityType
  <2>6. Cardinality(more) >= RetryMax
    BY <1>2, <2>1, <2>5, AuditConstants
  <2>7. QED
    BY <2>1, <2>6 DEF Enough
<1>3. QED
  BY <1>1, <1>2 DEF Enough

(* A list as long as it may be holds that many entries.                    *)
LEMMA FullIsEnough ==
    ASSUME TypeOK', Placed', Len(retry') = RetryMax
    PROVE  Enough'
<1>1. PICK present : present = returned' \ Missing'
  OBVIOUS
<1>2. IsFiniteSet(present)
  <2>1. IsFiniteSet(EntryIds)
    BY AuditConstants, FS_Interval DEF EntryIds
  <2>2. present \subseteq EntryIds
    BY <1>1 DEF TypeOK
  <2>3. QED
    BY <2>1, <2>2, FS_Subset
<1>3. DOMAIN retry' = 1 .. RetryMax /\ RetryMax \in Nat /\ RetryMax > 0
  BY AuditConstants DEF TypeOK
<1>4. \A i \in 1 .. RetryMax : retry'[i].id \in present
  BY <1>1, <1>3 DEF Placed, IdsOK, Missing, InRetry
<1>5. \A i, j \in 1 .. RetryMax : retry'[i].id = retry'[j].id => i = j
  BY <1>3 DEF Placed, OncePlaced
<1>6. PICK f \in [1 .. RetryMax -> present] : \A i \in 1 .. RetryMax : f[i] = retry'[i].id
  <2> DEFINE g == [i \in 1 .. RetryMax |-> retry'[i].id]
  <2>1. g \in [1 .. RetryMax -> present] /\ \A i \in 1 .. RetryMax : g[i] = retry'[i].id
    BY <1>4
  <2> HIDE DEF g
  <2>2. QED
    BY <2>1
<1>7. f \in Injection(1 .. RetryMax, present)
  BY <1>5, <1>6 DEF Injection, IsInjective
<1>8. Cardinality(1 .. RetryMax) <= Cardinality(present)
  BY <1>2, <1>7, FS_Injection
<1>9. Cardinality(1 .. RetryMax) = RetryMax
  BY <1>3, FS_Interval
<1>10. Cardinality(present) \in Nat
  BY <1>2, FS_CardinalityType
<1>11. Cardinality(present) >= RetryMax
  BY <1>3, <1>8, <1>9, <1>10
<1>12. QED
  BY <1>1, <1>11 DEF Enough

(* A row that is added is stored, and no row is removed.                   *)
LEMMA StoredStays ==
    ASSUME TypeOK, [Next]_vars, NEW id, Stored(id)
    PROVE  Stored(id)'
<1>1. PICK r \in Runs : \E i \in DOMAIN trail[r] : trail[r][i].entry.id = id
  BY DEF Stored
<1>2. PICK i \in DOMAIN trail[r] : trail[r][i].entry.id = id
  BY <1>1
<1>3. CASE RowStep
  <2>1. PICK e \in AuditEntry : AddRow(e)
    BY <1>3 DEF RowStep
  <2>2. PICK row : trail' = [trail EXCEPT ![e.run] = Append(trail[e.run], row)]
    BY <2>1 DEF AddRow
  <2>3. trail[r] \in Seq(Row) /\ e.run \in Runs
    BY DEF TypeOK, AuditEntry
  <2>4. trail'[r] = trail[r] \/ trail'[r] = Append(trail[r], row)
    BY <2>2, <2>3 DEF TypeOK
  <2>5. i \in DOMAIN trail'[r] /\ trail'[r][i] = trail[r][i]
    BY <1>2, <2>3, <2>4
  <2>6. QED
    BY <1>2, <2>5 DEF Stored
<1>4. CASE trail' = trail
  BY <1>2, <1>4 DEF Stored
<1>5. QED
  BY <1>3, <1>4, StepKinds DEF TickStep, LapseStep, QuietStep

LEMMA AddedIsStored ==
    ASSUME TypeOK, NEW e \in AuditEntry, AddRow(e)
    PROVE  Stored(e.id)'
<1>1. PICK row : /\ trail' = [trail EXCEPT ![e.run] = Append(trail[e.run], row)] /\ row.entry = e
  <2>1. [entry |-> e, step |-> NextStep(e.run)].entry = e
    OBVIOUS
  <2>2. QED
    BY <2>1 DEF AddRow
<1>2. trail[e.run] \in Seq(Row) /\ e.run \in Runs
  BY DEF TypeOK, AuditEntry
<1>3. trail'[e.run] = Append(trail[e.run], row)
  BY <1>1, <1>2 DEF TypeOK
<1>4. /\ Len(trail[e.run]) + 1 \in DOMAIN trail'[e.run]
      /\ trail'[e.run][Len(trail[e.run]) + 1] = row
  BY <1>2, <1>3
<1>5. QED
  BY <1>1, <1>2, <1>4 DEF Stored

LEMMA FoundStays ==
    ASSUME TypeOK, [Next]_vars, "deaths" \notin mishaps',
           \A p \in Appenders : ~AppendKeep(p)
    PROVE  returned \subseteq returned' /\ Missing' \subseteq Missing
<1>1. \A id : Stored(id) => Stored(id)'
  BY StoredStays
<1>2. ASSUME \A id : id \in returned /\ (Stored(id) \/ InRetry(id) \/ InDrain(id)) =>
                        Stored(id)' \/ IsIn(retry', id) \/ Held(draining', id),
             \A id \in returned' : id \in returned \/ Stored(id)',
             returned \subseteq returned'
      PROVE  returned \subseteq returned' /\ Missing' \subseteq Missing
  BY <1>2 DEF Missing, InRetry, InDrain, IsIn, Held
<1>3. ASSUME UNCHANGED <<retry, draining, returned>>
      PROVE  returned \subseteq returned' /\ Missing' \subseteq Missing
  BY <1>1, <1>3 DEF Missing, InRetry, InDrain
<1>4. ASSUME NEW p \in Appenders, AppendStore(p)
      PROVE  returned \subseteq returned' /\ Missing' \subseteq Missing
  <2>1. PICK e \in AuditEntry : e = appending[p].entry
    BY <1>4, InHandFacts DEF AppendStore
  <2>2. Stored(e.id)'
    BY <1>4, <2>1, AddedIsStored DEF AppendStore, Insert
  <2>3. returned' = returned \cup {e.id} /\ UNCHANGED <<retry, draining>>
    BY <1>4, <2>1 DEF AppendStore
  <2>4. QED
    BY <1>1, <2>2, <2>3 DEF Missing, InRetry, InDrain
<1>5. ASSUME NEW d \in Drainers, DrainPop(d)
      PROVE  returned \subseteq returned' /\ Missing' \subseteq Missing
  <2>1. /\ returned' = returned /\ draining[d] = Idle
        /\ \A c \in Drainers \ {d} : draining'[c] = draining[c]
        /\ draining'[d] # Idle /\ draining'[d].entry = retry[Len(retry)]
    BY <1>5 DEF DrainPop, TypeOK, Idle
  <2>2. \A id : InDrain(id) => Held(draining', id)
    BY <2>1 DEF InDrain, Held
  <2>3. \A i \in DOMAIN retry : (i \in DOMAIN retry' /\ retry'[i] = retry[i]) \/ i = Len(retry)
    BY <1>5 DEF DrainPop, TypeOK
  <2>4. \A id : InRetry(id) => IsIn(retry', id) \/ Held(draining', id)
    BY <2>1, <2>3 DEF InRetry, IsIn, Held
  <2>5. QED
    BY <1>1, <1>2, <2>1, <2>2, <2>4
<1>6. ASSUME NEW d \in Drainers, DrainStore(d)
      PROVE  returned \subseteq returned' /\ Missing' \subseteq Missing
  <2>1. PICK e \in AuditEntry : e = draining[d].entry
    BY <1>6, InHandFacts DEF DrainStore
  <2>2. Stored(e.id)'
    BY <1>6, <2>1, AddedIsStored DEF DrainStore, Insert
  <2>3. /\ UNCHANGED <<returned, retry>>
        /\ \A c \in Drainers \ {d} : draining'[c] = draining[c]
    BY <1>6 DEF DrainStore, TypeOK
  <2>4. \A id : InDrain(id) => Held(draining', id) \/ id = e.id
    BY <2>1, <2>3 DEF InDrain, Held
  <2>5. \A id : InRetry(id) => IsIn(retry', id)
    BY <2>3 DEF InRetry, IsIn
  <2>6. QED
    BY <1>1, <1>2, <2>2, <2>3, <2>4, <2>5
<1>7. ASSUME NEW d \in Drainers, DrainFail(d)
      PROVE  returned \subseteq returned' /\ Missing' \subseteq Missing
  <2>1. draining[d] \in InHand /\ UNCHANGED <<returned, retry>>
    BY <1>7, InHandFacts DEF DrainFail
  <2>2. /\ \A c \in Drainers \ {d} : draining'[c] = draining[c]
        /\ draining'[d].entry = draining[d].entry /\ draining'[d].at = "keep"
    BY <1>7, <2>1 DEF DrainFail, TypeOK, InHand
  <2>3. \A id : InDrain(id) => Held(draining', id)
    BY <2>2 DEF InDrain, Held, Idle
  <2>4. \A id : InRetry(id) => IsIn(retry', id)
    BY <2>1 DEF InRetry, IsIn
  <2>5. QED
    BY <1>1, <1>2, <2>1, <2>3, <2>4
<1>8. ASSUME NEW d \in Drainers, DrainKeep(d)
      PROVE  returned \subseteq returned' /\ Missing' \subseteq Missing
  <2>1. PICK e \in AuditEntry : e = draining[d].entry
    BY <1>8, InHandFacts DEF DrainKeep
  <2>2. /\ returned' = returned /\ retry' = Append(retry, e)
        /\ \A c \in Drainers \ {d} : draining'[c] = draining[c]
    BY <1>8, <2>1 DEF DrainKeep, PutBack, TypeOK
  <2>3. /\ \A i \in DOMAIN retry : i \in DOMAIN retry' /\ retry'[i] = retry[i]
        /\ Len(retry) + 1 \in DOMAIN retry' /\ retry'[Len(retry) + 1] = e
    BY <2>2 DEF TypeOK
  <2>4. IsIn(retry', e.id) /\ \A id : InRetry(id) => IsIn(retry', id)
    BY <2>3 DEF InRetry, IsIn
  <2>5. \A id : InDrain(id) => Held(draining', id) \/ id = e.id
    BY <2>1, <2>2 DEF InDrain, Held
  <2>6. QED
    BY <1>1, <1>2, <2>2, <2>4, <2>5
<1>9. QED
  <2>1. ASSUME NEW p \in Appenders, DieAppending(p)
        PROVE  FALSE
    BY <2>1 DEF DieAppending, MayFail
  <2>2. ASSUME NEW d \in Drainers, DieDraining(d)
        PROVE  FALSE
    BY <2>2 DEF DieDraining, MayFail
  <2>3. ASSUME NEW p \in Appenders, AppendFail(p)
        PROVE  UNCHANGED <<retry, draining, returned>>
    BY <2>3 DEF AppendFail
  <2>4. ASSUME NEW p \in Appenders, NEW r \in Runs, NEW a \in AgentIds, AppendTick(p, r, a)
        PROVE  UNCHANGED <<retry, draining, returned>>
    BY <2>4 DEF AppendTick
  <2>5. ASSUME NEW r \in Runs, ClockLapse(r)
        PROVE  UNCHANGED <<retry, draining, returned>>
    BY <2>5 DEF ClockLapse
  <2>6. CASE UNCHANGED vars
    BY <1>3, <2>6 DEF vars, storage
  <2>7. QED
    BY <1>3, <1>4, <1>5, <1>6, <1>7, <1>8, <2>1, <2>2, <2>3, <2>4, <2>5, <2>6
       DEF Next, AppendStep, DrainStep

LEMMA KeepIsEnough ==
    ASSUME TypeOK, TypeOK', Placed', Enough, [Next]_vars, "deaths" \notin mishaps',
           NEW p \in Appenders, AppendKeep(p)
    PROVE  Enough'
<1>1. PICK e \in AuditEntry : e = appending[p].entry
  BY InHandFacts DEF AppendKeep
<1>2. PICK list : list = <<e>> \o retry
  OBVIOUS
<1>3. /\ retry' = Trimmed(list) /\ UNCHANGED <<draining, trail>>
      /\ returned' = returned \cup {e.id}
  BY <1>1, <1>2 DEF AppendKeep, MayFail
<1>4. CASE Overflows(list)
  <2>1. Len(Trimmed(list)) = RetryMax
    BY <1>1, <1>2, <1>4, TrimmedKeeps
  <2>2. QED
    BY <1>3, <2>1, FullIsEnough
<1>5. CASE ~Overflows(list)
  <2>1. AllOf(Trimmed(list), e)
    BY <1>1, <1>2, <1>5, TrimmedKeeps
  <2>2. AllOf(retry', e)
    BY <1>3, <2>1
  <2>3. \A id : InRetry(id) \/ id = e.id => IsIn(retry', id)
    BY <2>2 DEF AllOf, InRetry, IsIn
  <2>4. returned \subseteq returned' /\ Missing' \subseteq Missing
    BY <1>3, <2>3 DEF Missing, Stored, InRetry, InDrain, IsIn
  <2>5. QED
    BY <2>4, KeptGrows
<1>6. QED
  BY <1>4, <1>5

(* "Buffered to a Redis list and drained": an entry whose append returned  *)
(* is a row, in the list or in the hands of a drain, whatever Postgres     *)
(* refuses and however many drains run, unless a server dies; and of an    *)
(* outage that fills the list, RetryMax entries are kept.                  *)
THEOREM NothingReturnedIsLost == Spec => []OutageLosesNothing
<1>1. Init => OutageLosesNothing
  BY DEF Init, OutageLosesNothing, Missing
<1>2. ASSUME TypeOK, TypeOK', Placed, Placed', OutageLosesNothing, [Next]_vars
      PROVE  OutageLosesNothing'
  <2> SUFFICES ASSUME "deaths" \notin mishaps'
               PROVE  Enough'
    BY DEF OutageLosesNothing, Enough
  <2>1. Enough
    <3>1. "deaths" \notin mishaps
      BY <1>2, StepKinds DEF RowStep, TickStep, LapseStep, QuietStep
    <3>2. QED
      BY <1>2, <3>1 DEF OutageLosesNothing, Enough
  <2>2. CASE \E p \in Appenders : AppendKeep(p)
    BY <1>2, <2>1, <2>2, KeepIsEnough
  <2>3. CASE \A p \in Appenders : ~AppendKeep(p)
    BY <1>2, <2>1, <2>3, FoundStays, KeptGrows
  <2>4. QED
    BY <2>2, <2>3
<1>3. QED
  BY <1>1, <1>2, AuditTypeCorrect, PlacedAlways, PTL DEF Spec

-----------------------------------------------------------------------------
(* diff.  Where steps are contiguous, the row at a step is the one at that *)
(* position, and two runs look alike at a step or differ in signature.     *)
LEMMA LeastExists ==
    ASSUME NEW S \in SUBSET Nat, S # {}
    PROVE  \E i \in S : \A j \in S : i <= j
<1>1. PICK i \in S : \A j \in S : ~(<<j, i>> \in OpToRel(<, Nat))
  BY NatLessThanWellFounded, WFMin
<1>2. \A j \in S : ~(j < i)
  BY <1>1 DEF OpToRel
<1>3. QED
  BY <1>2

LEMMA RowAtIs ==
    ASSUME TypeOK, StepsAreContiguous, NEW r \in Runs, NEW s
    PROVE  /\ s \in DOMAIN trail[r] => RowAt(r, s) = {trail[r][s].entry.agentId} /\ trail[r][s].step = s
           /\ s \notin DOMAIN trail[r] => RowAt(r, s) = {}
<1>1. \A i \in DOMAIN trail[r] : trail[r][i].step = i
  BY DEF StepsAreContiguous
<1>2. {j \in DOMAIN trail[r] : trail[r][j].step = s} = {j \in DOMAIN trail[r] : j = s}
  BY <1>1
<1>3. QED
  BY <1>1, <1>2 DEF RowAt

Differences(t, u) == {i \in DOMAIN t \cup DOMAIN u : ~SameSignature(t, u, i)}

LEMMA LookAlike ==
    ASSUME TypeOK, StepsAreContiguous, NEW r \in Runs, NEW q \in Runs, NEW s
    PROVE  RowAt(r, s) = RowAt(q, s) <=> s \notin Differences(trail[r], trail[q])
<1>1. CASE s \in DOMAIN trail[r] /\ s \in DOMAIN trail[q]
  <2>1. RowAt(r, s) = {trail[r][s].entry.agentId} /\ RowAt(q, s) = {trail[q][s].entry.agentId}
    BY <1>1, RowAtIs
  <2>2. s \notin Differences(trail[r], trail[q])
            <=> trail[r][s].entry.agentId = trail[q][s].entry.agentId
    BY <1>1 DEF Differences, SameSignature
  <2>3. \A x, y : {x} = {y} <=> x = y
    OBVIOUS
  <2>4. QED
    BY <2>1, <2>2, <2>3
<1>2. CASE s \in DOMAIN trail[r] /\ s \notin DOMAIN trail[q]
  <2>1. RowAt(r, s) = {trail[r][s].entry.agentId} /\ RowAt(q, s) = {}
    BY <1>2, RowAtIs
  <2>2. s \in Differences(trail[r], trail[q])
    BY <1>2 DEF Differences, SameSignature
  <2>3. \A x : {x} # {}
    OBVIOUS
  <2>4. QED
    BY <2>1, <2>2, <2>3
<1>3. CASE s \notin DOMAIN trail[r] /\ s \in DOMAIN trail[q]
  <2>1. RowAt(r, s) = {} /\ RowAt(q, s) = {trail[q][s].entry.agentId}
    BY <1>3, RowAtIs
  <2>2. s \in Differences(trail[r], trail[q])
    BY <1>3 DEF Differences, SameSignature
  <2>3. \A x : {x} # {}
    OBVIOUS
  <2>4. QED
    BY <2>1, <2>2, <2>3
<1>4. CASE s \notin DOMAIN trail[r] /\ s \notin DOMAIN trail[q]
  BY <1>4, RowAtIs DEF Differences
<1>5. QED
  BY <1>1, <1>2, <1>3, <1>4

LEMMA DivergedAt ==
    ASSUME TypeOK, StepsAreContiguous, NEW r \in Runs, NEW q \in Runs,
           NEW d, d = DivergedAtStep(trail[r], trail[q])
    PROVE  \/ d = 0 /\ Differences(trail[r], trail[q]) = {}
           \/ /\ d \in Differences(trail[r], trail[q]) /\ d \in Nat /\ d > 0
              /\ \A s \in Differences(trail[r], trail[q]) : d <= s
<1>1. PICK D : D = Differences(trail[r], trail[q])
  OBVIOUS
<1>2. trail[r] \in Seq(Row) /\ trail[q] \in Seq(Row)
  BY DEF TypeOK
<1>3. D \subseteq Nat \ {0} /\ \A i \in D : i \in DOMAIN trail[r] \/ i \in DOMAIN trail[q]
  BY <1>1, <1>2 DEF Differences
<1>4. CASE D = {}
  BY <1>1, <1>4 DEF DivergedAtStep, Differences
<1>5. CASE D # {}
  <2>1. PICK first : first = CHOOSE i \in D : \A j \in D : i <= j
    OBVIOUS
  <2>2. \E i \in D : \A j \in D : i <= j
    BY <1>3, <1>5, LeastExists
  <2>3. first \in D /\ \A j \in D : first <= j
    BY <2>1, <2>2
  <2>4. d = IF first \in DOMAIN trail[r] THEN trail[r][first].step ELSE trail[q][first].step
    BY <1>1, <1>5, <2>1 DEF DivergedAtStep, Differences
  <2>5. d = first
    BY <1>3, <2>3, <2>4, RowAtIs
  <2>6. QED
    BY <1>1, <1>3, <2>3, <2>5
<1>6. QED
  BY <1>4, <1>5

(* diff reports the first divergence: the runs look alike at every step    *)
(* before the one it names and differ there, and if it names none they     *)
(* look alike throughout.                                                  *)
THEOREM DiffIsFirst == Spec => []DiffFindsFirst
<1>1. ASSUME TypeOK, StepsAreContiguous, NEW r \in Runs, NEW q \in Runs,
             NEW d, d = DivergedAtStep(trail[r], trail[q])
      PROVE  /\ \A s \in 1 .. d - 1 : RowAt(r, s) = RowAt(q, s)
             /\ d > 0 => RowAt(r, d) # RowAt(q, d)
             /\ d = 0 => \A s \in EntryIds : RowAt(r, s) = RowAt(q, s)
  <2>1. \A s : RowAt(r, s) = RowAt(q, s) <=> s \notin Differences(trail[r], trail[q])
    BY <1>1, LookAlike
  <2>2. CASE d = 0 /\ Differences(trail[r], trail[q]) = {}
    BY <2>1, <2>2
  <2>3. CASE /\ d \in Differences(trail[r], trail[q]) /\ d \in Nat /\ d > 0
             /\ \A s \in Differences(trail[r], trail[q]) : d <= s
    <3>1. \A s \in 1 .. d - 1 : s \notin Differences(trail[r], trail[q])
      BY <2>3
    <3>2. QED
      BY <2>1, <2>3, <3>1
  <2>4. QED
    BY <1>1, <2>2, <2>3, DivergedAt
<1>2. TypeOK /\ StepsAreContiguous => DiffFindsFirst
  BY <1>1 DEF DiffFindsFirst
<1>3. QED
  BY <1>2, AuditTypeCorrect, ContiguousSteps, PTL
=============================================================================
