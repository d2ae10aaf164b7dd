------------------------------ MODULE MCClients ------------------------------
(* Small instances of Access and its Clients for TLC.                      *)
EXTENDS Clients, SequencesExt

Asks(op, kind, by, on) == [op |-> op, kind |-> kind, by |-> by, on |-> on, scopes |-> {"context:write"}]
Unused   == [x \in Calls |-> None]
NoUser   == [e \in Emails |-> None]
Owner    == [NoUser EXCEPT !["ann"] = "t1"]
NoRow    == [cred \in Creds |-> None]
Live(scopes, expiresAt) == [tenant |-> "t1", scopes |-> scopes, active |-> TRUE, expiresAt |-> expiresAt]
Base == [script |-> Unused, users |-> Owner, faults |-> 0,
         credential |-> [NoRow EXCEPT !["k1"] = Live(Scope, 0), !["u1"] = Live(Scope, 1)]]

(* Calls through faults: writes, what is done again, and what looks    *)
(* before it acts.  And what a key's scopes forbid.                        *)
Alone(op) == [Base EXCEPT !.faults = 2, !.script["x1"] = Asks(op, "python", "k1", None)]
Retried(kind, op, other) ==
    [Base EXCEPT !.faults = 1, !.script["x1"] = Asks(op, kind, "k1", None),
                 !.script["x2"] = Asks(other, kind, "k1", None)]
Scoped ==
    [Base EXCEPT !.faults = 1, !.credential["k1"] = Live({"context:write"}, 0),
                 !.script["x1"] = Asks("read", "typescript", "k1", None),
                 !.script["x2"] = Asks("complete", "python", "k1", None),
                 !.script["x3"] = Asks("createKey", "web", "k1", None)]

(* A key in use is revoked, a token expires or logs out while it is used.  *)
Revoked1 ==
    [Base EXCEPT !.faults = 1, !.script["x1"] = Asks("write", "typescript", "k1", None),
                 !.script["x2"] = Asks("revokeKey", "web", "u1", "k1"),
                 !.script["x3"] = Asks("createKey", "web", "u1", None)]
LoggedOut ==
    [Base EXCEPT !.script["x1"] = Asks("list", "web", "u1", None),
                 !.script["x2"] = Asks("me", "web", "u1", None),
                 !.script["x3"] = Asks("logout", "web", "u1", None)]

(* Two signups of one email and a login; a ticket that is used twice.      *)
SignedUp ==
    [Base EXCEPT !.users = NoUser, !.credential = NoRow, !.faults = 1,
                 !.script["x1"] = Asks("signup", "web", "ann", None),
                 !.script["x2"] = Asks("signup", "web", "ann", None),
                 !.script["x3"] = Asks("login", "web", "ann", None)]
Streamed ==
    [Base EXCEPT !.script["x1"] = Asks("ticket", "typescript", "k1", None),
                 !.script["x2"] = Asks("connect", "typescript", None, "x1"),
                 !.script["x3"] = Asks("connect", "web", None, "x1")]

(* Each flow of the SDKs, tools and pages by itself.                       *)
FlowOf(kind, by, flow) ==
    LET first == SetToSeq(flow[1])
        ops   == first \o (IF Len(flow) = 1 THEN << >> ELSE SetToSeq(flow[2]))
        Place(x) == CHOOSE i \in 1..4 : <<"x1", "x2", "x3", "x4">>[i] = x
        On(x) == IF Place(x) > Len(first) THEN "x1"
                 ELSE IF ops[Place(x)] = "revokeKey" THEN "k1" ELSE None
    IN  [Base EXCEPT !.script = [x \in Calls |->
             IF Place(x) > Len(ops) THEN None ELSE Asks(ops[Place(x)], kind, by, On(x))]]
Flows == {FlowOf("typescript", "k1", flow) : flow \in AgentFlows}
            \cup {FlowOf("web", "u1", flow) : flow \in UserFlows}
            \cup {FlowOf("web", "ann", flow) : flow \in OpenFlows}

Everyday ==
    Flows \cup {Alone("append"), Alone("replayDlq"),
                Retried("python", "append", "claim"), Retried("typescript", "write", "broadcast"),
                Retried("python", "replayDlq", "delete"), Retried("python", "join", "end"),
                Retried("typescript", "complete", "deleteArtifact"),
                Scoped, Revoked1, LoggedOut, SignedUp, Streamed}
=============================================================================
