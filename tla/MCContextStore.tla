---------------------------- MODULE MCContextStore ----------------------------
(* Small instances of ContextStore for TLC: who does what.                 *)
EXTENDS ContextStore

Req(kind, k) == [kind |-> kind, fullKey |-> k]
Three(p, q, r) == [o \in OperationIds |-> CASE o = "o1" -> p [] o = "o2" -> q [] o = "o3" -> r]

Base ==
    [requests |-> Three(Req("write", "k1"), Req("write", "k1"), Req("write", "k1")),
     attempts |-> Three(1, 1, 1), cap |-> 0, callers |-> Callers, listeners |-> {}, embeds |-> FALSE,
     inFlight |-> 2, deaths |-> 0, faults |-> {}]

(* New keys at the cap, one of them made by an increment that checks none; *)
(* a write made twice beside a delete, an increment and a death; waiters   *)
(* and a lost event; a stream that reconnects, and one that does so twice; *)
(* both kinds of listeners; two texts of one key and a delete.             *)
Crowd ==
    [Base EXCEPT !.cap = 1,
                 !.requests = Three(Req("write", "k1"), Req("append", "k2"), Req("write", "k3"))]
Counting ==
    [Base EXCEPT !.cap = 1,
                 !.requests = Three(Req("increment", "k1"), Req("append", "k2"), Req("write", "k3"))]
Retrying ==
    [Base EXCEPT !.attempts = Three(2, 1, 1), !.deaths = 1,
                 !.requests = Three(Req("write", "k1"), Req("delete", "k1"), Req("increment", "k1"))]
Waiting ==
    [Base EXCEPT !.listeners = Waiters, !.attempts = Three(1, 1, 0), !.faults = {"loss"},
                 !.requests = Three(Req("write", "k1"), Req("delete", "k1"), Req("write", "k2"))]
Stream ==
    [Base EXCEPT !.listeners = {"s1", "s2"}, !.callers = {"c1"}, !.attempts = Three(3, 0, 0),
                 !.inFlight = 1]
Flaky == [Stream EXCEPT !.listeners = Sockets, !.attempts = Three(2, 0, 0)]
Mixed ==
    [Base EXCEPT !.listeners = {"w1", "s1"}, !.callers = {"c1"},
                 !.faults = {"lapse"}, !.attempts = Three(1, 1, 0)]

Indexing ==
    [Base EXCEPT !.embeds = TRUE, !.attempts = Three(2, 1, 1), !.faults = {"embed"},
                 !.requests = Three(Req("write", "k1"), Req("delete", "k1"), Req("append", "k1"))]

Everyday  == {Crowd, Counting, Retrying, Waiting, Stream, Flaky, Mixed, Indexing}
Streaming == {[Stream EXCEPT !.inFlight = 2, !.attempts = Three(1, 1, 0)]}
=============================================================================
