------------------------------ MODULE MCSessions ------------------------------
(* Small instances of Sessions for TLC: who asks for what.                 *)
EXTENDS Sessions

Ask(op, id, agent, ttl) == [op |-> op, id |-> id, agent |-> agent, ttlSeconds |-> ttl]
Joins == {Ask("join", "s1", a, 0) : a \in Agents}
Base  == [requests |-> {}, cap |-> 0, cleaners |-> Cleaners, deaths |-> 0]

(* Agents that come and go at a cap of one; a session that is made, kept,  *)
(* listed and left to expire with a server dying; one that is ended and    *)
(* aborted while it is joined; two sessions that are listed and expire.    *)
Crowded ==
    [Base EXCEPT !.cap = 1, !.cleaners = {},
                 !.requests = Joins \cup {Ask("create", "s1", "a", 0), Ask("leave", "s1", "a", 0),
                                          Ask("end", "s1", "a", 0)}]
Fleeting ==
    [Base EXCEPT !.deaths = 1,
                 !.requests = {Ask("create", "s1", "a", 2), Ask("touch", "s1", "a", 0),
                               Ask("list", "s1", "a", 0)}]
Cancelled ==
    [Base EXCEPT !.cleaners = {"j1"},
                 !.requests = {Ask("touch", "s1", "a", 0), Ask("join", "s1", "a", 0),
                               Ask("abort", "s1", "a", 0), Ask("end", "s1", "a", 0)}]
Several ==
    [Base EXCEPT !.cleaners = {"j1"},
                 !.requests = {Ask("create", "s1", "a", 1), Ask("touch", "s2", "a", 0),
                               Ask("list", "s1", "a", 0)}]

Everyday == {Crowded, Fleeting, Cancelled, Several}
=============================================================================
