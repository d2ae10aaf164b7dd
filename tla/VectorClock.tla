------------------------------ MODULE VectorClock ------------------------------
(***************************************************************************)
(* The operators of audit-log/vector-clock.ts.  A clock gives each agent a *)
(* counter; the code reads the counter of an agent the clock does not list *)
(* as 0 wherever it reads one, so such an agent has the counter 0 here.    *)
(***************************************************************************)
EXTENDS Integers

CONSTANT AgentIds

Clock == [AgentIds -> Nat]

tick(c, a) == [c EXCEPT ![a] = @ + 1]

merge(c, d) == [a \in AgentIds |-> IF c[a] >= d[a] THEN c[a] ELSE d[a]]

happenedBefore(c, d) ==
    /\ \A a \in AgentIds : c[a] <= d[a]
    /\ \E a \in AgentIds : c[a] < d[a]

equal(c, d) == \A a \in AgentIds : c[a] = d[a]

compare(c, d) ==
    IF equal(c, d) THEN "equal"
    ELSE IF happenedBefore(c, d) THEN "before"
    ELSE IF happenedBefore(d, c) THEN "after"
    ELSE "concurrent"
=============================================================================
