------------------------------ MODULE MCAuditLog ------------------------------
(* Small instances of AuditLog for TLC: what may go wrong.                 *)
EXTENDS AuditLog

Outage(refused, unanswered, deaths, lapses) ==
    [refused |-> refused, unanswered |-> unanswered, deaths |-> deaths,
     lapses |-> lapses]

Storms     == {Outage(3, 0, 0, 0), Outage(1, 1, 0, 1), Outage(1, 0, 1, 0)}
LostAnswer == {Outage(1, 1, 0, 0)}
=============================================================================
