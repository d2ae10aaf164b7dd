------------------------------ MODULE MCRedisBus ------------------------------
(* Small instances of RedisBus for TLC: the conversations.                 *)
EXTENDS RedisBus, TLC

CONSTANTS m1, m2, m3, none, c1, c2, w1, w2

(* Messages for agent "a", all of priority 1, answering nothing.           *)
Plain(messages, consumers, sweepers, maxRetries, maxFaults) ==
    [messages |-> messages, consumers |-> consumers, sweepers |-> sweepers,
     toAgent |-> [m \in Messages |-> "a"], priority |-> [m \in Messages |-> 1],
     replyTo |-> [m \in Messages |-> none], maxRetries |-> maxRetries,
     claimFor |-> "a", claimCount |-> 1, maxFaults |-> maxFaults]

(* One message under overlapping sweeps, or under two crashes; two of      *)
(* which one may be the replay of the other.                               *)
Overlap  == Plain({m1}, {c1}, {w1, w2}, 1, 0)
Crashing == Plain({m1}, {c1}, {w1}, 1, 2)
Backlog  == Plain({m1, m2}, {c1}, {w1}, 0, 1)

(* Three messages, the first below the others, for two consumers that take *)
(* two at a time.                                                          *)
Urgent ==
    [Plain({m1, m2, m3}, {c1, c2}, {}, 1, 0) EXCEPT
        !.priority = [m \in Messages |-> IF m = m1 THEN 1 ELSE 2],
        !.claimCount = 2]

(* m1 is asked of b, and the others are answers to it, for a.              *)
Asking(messages, sweepers) ==
    [Plain(messages, {c1}, sweepers, 1, 1) EXCEPT
        !.toAgent = [m \in Messages |-> IF m = m1 THEN "b" ELSE "a"],
        !.replyTo = [m \in Messages |-> IF m = m1 THEN none ELSE m1],
        !.claimFor = "b"]

(* One message, slow consumers, one sweep at a time.                       *)
Slow == Plain({m1}, {c1, c2}, {w1}, 2, 0)
Dead == Plain({m1}, {c1}, {w1}, 1, 1)

Conversations ==
    {Overlap, Crashing, Backlog, Urgent, Asking({m1, m2, m3}, {w1})}
Deadlines     == {Slow, Dead}

(* A setting names its consumers and sweepers, so this identifies only      *)
(* states of settings that use both, or neither, of a pair.                *)
Symmetry == Permutations({c1, c2}) \cup Permutations({w1, w2})
=============================================================================
