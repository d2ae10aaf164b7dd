----------------------------- MODULE ClientsProofs -----------------------------
(***************************************************************************)
(* Theorems about the server's front and its clients: type correctness,    *)
(* the refusal of ended credentials, the gates, and that a call takes      *)
(* effect as it is answered, for any calls, retries, accounts and limits.  *)
(***************************************************************************)
EXTENDS Clients, FiniteSetTheorems, TLAPS

-----------------------------------------------------------------------------
(* Requests and what they hold.                                            *)

(* A request at a stage of the server is of the operations that pass it,   *)
(* knows its tenant from authentication on, and has a status once it is    *)
(* answered.                                                               *)
Suits(op, r) ==
    /\ r.at \in {"cached", "lookup", "remember"} => op \in AgentOps \cup UserOps
    /\ r.at \in {"limit", "count"} => op # "connect"
    /\ r.at \in {"insert", "issue"} => op \in Public
    /\ r.at = "purge" => op \in {"logout", "revokeKey"}
    /\ r.at = "tell" => op \in AgentOps
    /\ r.at \in {"act", "mark"} => op \in Checked
    /\ (r.at \in {"limit", "count", "handle"} /\ op \in AgentOps \cup UserOps) \/ r.at = "issue" => r.tenant # None
    /\ r.at = "answered" <=> r.status # None

Fits(s) ==
    /\ Suits(OpOf(s), server[s])
    /\ server[s].at # "idle" => client[s[1]].at # "ready" /\ s[2] <= client[s[1]].attempt

(* Who has called was in the script, and the credential it presents exists.*)
Known(x) ==
    /\ client[x].at = "ready" => client[x].attempt = 0
    /\ client[x].at = "backoff" => client[x].attempt < MaxRetries
    /\ client[x].at # "ready" =>
          script[x] # None /\ (script[x].by \in Creds => credential[script[x].by] # None)

ServedOK == (\A s \in Slots : Fits(s)) /\ (\A x \in Calls : Known(x))
CallsOK  == TypeOK /\ ServedOK

-----------------------------------------------------------------------------
(* Scripts and the operations they ask for.                                *)

(* The operations fall apart as the routes do.                             *)
LEMMA OpsPart ==
    ASSUME NEW op \in Ops
    PROVE  /\ op \in AgentOps \/ op \in UserOps \/ op \in Public \/ op = "connect"
           /\ op \in AgentOps => op \notin UserOps /\ op \notin Public /\ op # "connect"
           /\ op \in UserOps => op \notin Public /\ op # "connect"
           /\ op \in Public => op # "connect"
    BY DEF Ops, AgentOps, UserOps, Public, ContextOps, MessageOps, ArtifactOps, AuditOps, OpenOps

(* What takes effect is of agents, and in one of three ways.               *)
LEMMA OpsActed ==
    ASSUME NEW op \in ByOperation \cup Repeated \cup Checked
    PROVE  /\ op \in AgentOps /\ op \notin Reading /\ op \notin {"ticket", "connect", "signup", "login"}
           /\ op \notin {"logout", "revokeKey", "createKey"} /\ op \notin Public
           /\ op \in ByOperation => op \notin Repeated /\ op \notin Checked
           /\ op \in Repeated => op \notin Checked
    BY DEF ByOperation, Repeated, Checked, Reading, AgentOps, ContextOps, MessageOps, ArtifactOps, AuditOps,
           OpenOps, Public

(* What a request of each kind presents, and what it is about.             *)
LEMMA ScriptFields ==
    ASSUME NEW c \in Script
    PROVE  /\ c.op \in Ops /\ c.scopes \in SUBSET Scope
           /\ c.op \in AgentOps \cup UserOps => c.by \in Creds
           /\ c.op \in Public => c.by \in Emails
           /\ c.op = "revokeKey" => c.on \in Keys
    <1>1. "revokeKey" \in UserOps
        BY DEF UserOps
    <1>2. c \in Asking(AgentOps, Creds, Calls \cup {None}) \/ c \in Asking(UserOps \ {"revokeKey"}, Creds, Calls \cup {None})
             \/ c \in Asking({"revokeKey"}, Creds, Keys) \/ c \in Asking(Public, Emails, {None})
             \/ c \in Asking({"connect"}, Creds \cup {None}, Calls)
        BY DEF Script
    <1>3. c.op \in Ops /\ c.scopes \in SUBSET Scope
        BY <1>1, <1>2 DEF Asking, Ops
    <1>4. c.op \in AgentOps \cup UserOps => c.by \in Creds
        BY <1>2, <1>3, OpsPart DEF Asking
    <1>5. c.op \in Public => c.by \in Emails
        BY <1>1, <1>2, <1>3, OpsPart DEF Asking
    <1>6. c.op = "revokeKey" => c.on \in Keys
        BY <1>1, <1>2, OpsPart DEF Asking, Ops
    <1>7. QED
        BY <1>3, <1>4, <1>5, <1>6

(* The setting of a well-typed state, seen through its script.             *)
LEMMA ScriptTyped ==
    ASSUME TypeOK, NEW x \in Calls, script[x] # None
    PROVE  /\ script[x] \in Script /\ script[x].op \in Ops
           /\ script[x].scopes \in SUBSET Scope
           /\ script[x].op \in AgentOps \cup UserOps => script[x].by \in Creds
           /\ script[x].op \in Public => script[x].by \in Emails
           /\ script[x].op = "revokeKey" => script[x].on \in Keys
    <1>1. script[x] \in Script
        BY DEF TypeOK, Setting, script
    <1>2. QED
        BY <1>1, ScriptFields

-----------------------------------------------------------------------------
(* How the record of a request changes.                                    *)

Becomes(s, at, tenant, status) ==
    /\ server'[s] = [at |-> at, tenant |-> tenant, status |-> status]
    /\ \A t \in Slots : t # s => server'[t] = server[t]
    /\ server' = [t \in Slots |-> server'[t]]

LEMMA GoIs ==
    ASSUME NEW s \in Slots, NEW at, server \in [Slots -> Request], Go(s, at)
    PROVE  Becomes(s, at, server[s].tenant, server[s].status)
    <1>1. /\ server'[s] = [server[s] EXCEPT !.at = at]
          /\ \A t \in Slots : t # s => server'[t] = server[t]
          /\ server' = [t \in Slots |-> server'[t]]
        BY DEF Go
    <1>2. PICK r \in Request : r = server[s]
        OBVIOUS
    <1>3. [r EXCEPT !.at = at] = [at |-> at, tenant |-> r.tenant, status |-> r.status]
        BY DEF Request
    <1>4. QED
        BY <1>1, <1>2, <1>3 DEF Becomes

LEMMA AnswerIs ==
    ASSUME NEW s \in Slots, NEW status, server \in [Slots -> Request], Answer(s, status)
    PROVE  Becomes(s, "answered", server[s].tenant, status)
    <1>1. /\ server'[s] = [[server[s] EXCEPT !.at = "answered"] EXCEPT !.status = status]
          /\ \A t \in Slots : t # s => server'[t] = server[t]
          /\ server' = [t \in Slots |-> server'[t]]
        BY DEF Answer
    <1>2. PICK r \in Request : r = server[s]
        OBVIOUS
    <1>3. [[r EXCEPT !.at = "answered"] EXCEPT !.status = status]
            = [at |-> "answered", tenant |-> r.tenant, status |-> status]
        <2>1. PICK q : q = [r EXCEPT !.at = "answered"]
            OBVIOUS
        <2>2. q = [at |-> "answered", tenant |-> r.tenant, status |-> r.status]
            BY <2>1 DEF Request
        <2>3. [q EXCEPT !.status = status] = [at |-> "answered", tenant |-> r.tenant, status |-> status]
            BY <2>2
        <2>4. QED
            BY <2>1, <2>3
    <1>4. QED
        BY <1>1, <1>2, <1>3 DEF Becomes

LEMMA AuthenticatedIs ==
    ASSUME NEW s \in Slots, NEW tenant, server \in [Slots -> Request], Authenticated(s, tenant)
    PROVE  \E at \in {"limit", "handle"} : Becomes(s, at, tenant, server[s].status)
    <1>1. PICK at \in {"limit", "handle"} :
              at = IF OpOf(s) \in Unlimited THEN "handle" ELSE "limit"
        OBVIOUS
    <1>2. server' = [[server EXCEPT ![s].tenant = tenant] EXCEPT ![s].at = at]
        BY <1>1 DEF Authenticated
    <1>3. /\ server'[s] = [[server[s] EXCEPT !.tenant = tenant] EXCEPT !.at = at]
          /\ \A t \in Slots : t # s => server'[t] = server[t]
          /\ server' = [t \in Slots |-> server'[t]]
        BY <1>2
    <1>4. PICK r \in Request : r = server[s]
        OBVIOUS
    <1>5. [[r EXCEPT !.tenant = tenant] EXCEPT !.at = at]
            = [at |-> at, tenant |-> tenant, status |-> r.status]
        <2>1. PICK q : q = [r EXCEPT !.tenant = tenant]
            OBVIOUS
        <2>2. q = [at |-> r.at, tenant |-> tenant, status |-> r.status]
            BY <2>1 DEF Request
        <2>3. [q EXCEPT !.at = at] = [at |-> at, tenant |-> tenant, status |-> r.status]
            BY <2>2
        <2>4. QED
            BY <2>1, <2>3
    <1>6. QED
        BY <1>3, <1>4, <1>5 DEF Becomes

(* Signup and login find the account in the same step.                     *)
LEMMA IdentifiedIs ==
    ASSUME NEW s \in Slots, NEW tenant, server \in [Slots -> Request],
           server' = [server EXCEPT ![s].tenant = tenant, ![s].at = "issue"]
    PROVE  Becomes(s, "issue", tenant, server[s].status)
    <1>1. /\ server'[s] = [[server[s] EXCEPT !.tenant = tenant] EXCEPT !.at = "issue"]
          /\ \A t \in Slots : t # s => server'[t] = server[t]
          /\ server' = [t \in Slots |-> server'[t]]
        OBVIOUS
    <1>2. PICK r \in Request : r = server[s]
        OBVIOUS
    <1>3. [[r EXCEPT !.tenant = tenant] EXCEPT !.at = "issue"]
            = [at |-> "issue", tenant |-> tenant, status |-> r.status]
        <2>1. PICK q : q = [r EXCEPT !.tenant = tenant]
            OBVIOUS
        <2>2. q = [at |-> r.at, tenant |-> tenant, status |-> r.status]
            BY <2>1 DEF Request
        <2>3. [q EXCEPT !.at = "issue"] = [at |-> "issue", tenant |-> tenant, status |-> r.status]
            BY <2>2
        <2>4. QED
            BY <2>1, <2>3
    <1>4. QED
        BY <1>1, <1>2, <1>3 DEF Becomes

LEMMA StartIs ==
    ASSUME NEW s \in Slots, server \in [Slots -> Request], OpOf(s) \in Ops, Start(s)
    PROVE  \E at \in {"limit", "handle", "cached"} :
              /\ Becomes(s, at, server[s].tenant, server[s].status)
              /\ at = "cached" => OpOf(s) \in AgentOps \cup UserOps
              /\ at = "limit" => OpOf(s) \in Public
              /\ at = "handle" => OpOf(s) = "connect"
    <1>1. CASE OpOf(s) \in Public
        <2>1. Go(s, "limit")
            BY <1>1, OpsPart DEF Start, Go
        <2>2. QED
            BY <1>1, <2>1, GoIs, OpsPart
    <1>2. CASE OpOf(s) = "connect"
        <2>1. Go(s, "handle")
            BY <1>2, OpsPart DEF Start, Go
        <2>2. QED
            BY <1>2, <2>1, GoIs, OpsPart
    <1>3. CASE OpOf(s) \in AgentOps \cup UserOps
        <2>1. Go(s, "cached")
            BY <1>3, OpsPart DEF Start, Go
        <2>2. QED
            BY <1>3, <2>1, GoIs, OpsPart
    <1>4. QED
        BY <1>1, <1>2, <1>3, OpsPart

-----------------------------------------------------------------------------
(* Type correctness, and what the stages of a request say of it.           *)

(* Who is being served is in the script, with what it presents.            *)
LEMMA CallerIs ==
    ASSUME CallsOK, NEW s \in Slots, server[s].at # "idle"
    PROVE  /\ s[1] \in Calls /\ s[2] \in Attempts /\ s = <<s[1], s[2]>>
           /\ script[s[1]] \in Script /\ OpOf(s) \in Ops /\ script[s[1]].scopes \in SUBSET Scope
           /\ OpOf(s) \in AgentOps \cup UserOps => By(s) \in Creds /\ credential[By(s)] \in Row
           /\ OpOf(s) \in Public => By(s) \in Emails
           /\ OpOf(s) \in {"logout", "revokeKey"} => Revoked(s) \in Creds
    <1>1. s[1] \in Calls /\ s[2] \in Attempts /\ s = <<s[1], s[2]>>
        BY DEF Slots
    <1>2. script[s[1]] # None /\ (By(s) \in Creds => credential[By(s)] # None)
        BY <1>1 DEF CallsOK, ServedOK, Fits, Known, By
    <1>3. /\ script[s[1]] \in Script /\ OpOf(s) \in Ops /\ script[s[1]].scopes \in SUBSET Scope
          /\ OpOf(s) \in AgentOps \cup UserOps => By(s) \in Creds
          /\ OpOf(s) \in Public => By(s) \in Emails
          /\ OpOf(s) = "revokeKey" => script[s[1]].on \in Keys
        BY <1>1, <1>2, ScriptTyped DEF CallsOK, OpOf, By
    <1>4. By(s) \in Creds => credential[By(s)] \in Row
        BY <1>2 DEF CallsOK, TypeOK
    <1>5. OpOf(s) \in {"logout", "revokeKey"} => Revoked(s) \in Creds
        BY <1>3 DEF Revoked, Creds, UserOps
    <1>6. QED
        BY <1>1, <1>3, <1>4, <1>5

(* A request moves on to a stage that suits it.                            *)
Moved(s) ==
    \E r \in Request : /\ server' = [server EXCEPT ![s] = r]
                       /\ r.at # "idle" /\ Suits(OpOf(s), r)

LEMMA BecomesMoved ==
    ASSUME TypeOK, NEW s \in Slots, NEW at \in Serving \cup {"answered", "gone"},
           NEW tenant \in Tenants \cup {None}, NEW status \in Statuses \cup {None},
           Becomes(s, at, tenant, status),
           Suits(OpOf(s), [at |-> at, tenant |-> tenant, status |-> status])
    PROVE  Moved(s)
    <1>1. PICK r : r = [at |-> at, tenant |-> tenant, status |-> status]
        OBVIOUS
    <1>2. r \in Request /\ r.at # "idle" /\ Suits(OpOf(s), r)
        BY <1>1 DEF Request, Serving
    <1>3. server \in [Slots -> Request]
        BY DEF TypeOK
    <1>4. server' = [server EXCEPT ![s] = r]
        BY <1>1, <1>3 DEF Becomes
    <1>5. QED
        BY <1>2, <1>4 DEF Moved

(* It goes on to another round trip, or is answered.                       *)
LEMMA GoMoved ==
    ASSUME CallsOK, NEW s \in Slots, server[s].at # "answered",
           NEW at \in (Serving \ {"limit"}) \cup {"gone"}, Go(s, at),
           at \in {"cached", "lookup", "remember"} => OpOf(s) \in AgentOps \cup UserOps,
           at \in {"insert", "issue"} => OpOf(s) \in Public,
           at = "purge" => OpOf(s) \in {"logout", "revokeKey"},
           at = "tell" => OpOf(s) \in AgentOps,
           at \in {"act", "mark"} => OpOf(s) \in Checked,
           at = "count" => OpOf(s) # "connect",
           (at \in {"limit", "count", "handle"} /\ OpOf(s) \in AgentOps \cup UserOps) \/ at = "issue"
               => server[s].tenant # None
    PROVE  Moved(s)
    <1>1. server \in [Slots -> Request] /\ server[s].tenant \in Tenants \cup {None}
        BY DEF CallsOK, TypeOK, Request
    <1>2. Becomes(s, at, server[s].tenant, server[s].status)
        BY <1>1, GoIs
    <1>3. server[s].status = None
        BY DEF CallsOK, ServedOK, Fits, Suits
    <1>4. Suits(OpOf(s), [at |-> at, tenant |-> server[s].tenant, status |-> None])
        BY <1>3 DEF Suits, Serving
    <1>5. QED
        BY <1>1, <1>2, <1>3, <1>4, BecomesMoved DEF CallsOK

LEMMA AnswerMoved ==
    ASSUME CallsOK, NEW s \in Slots, NEW status \in Statuses, Answer(s, status)
    PROVE  Moved(s)
    <1>1. server \in [Slots -> Request] /\ server[s].tenant \in Tenants \cup {None}
        BY DEF CallsOK, TypeOK, Request
    <1>2. Becomes(s, "answered", server[s].tenant, status)
        BY <1>1, AnswerIs
    <1>3. Suits(OpOf(s), [at |-> "answered", tenant |-> server[s].tenant, status |-> status])
        BY AccessConstants DEF Suits
    <1>4. QED
        BY <1>1, <1>2, <1>3, BecomesMoved DEF CallsOK

LEMMA AuthenticatedMoved ==
    ASSUME CallsOK, NEW s \in Slots, server[s].at \in {"cached", "remember"}, 
           Authenticated(s, credential[By(s)].tenant)
    PROVE  Moved(s)
    <1>1. server \in [Slots -> Request]
        BY DEF CallsOK, TypeOK
    <1>2. OpOf(s) \in AgentOps \cup UserOps
        BY DEF CallsOK, ServedOK, Fits, Suits
    <1>3. credential[By(s)].tenant \in Tenants
        BY <1>2, CallerIs DEF Row
    <1>4. server[s].status = None
        BY DEF CallsOK, ServedOK, Fits, Suits
    <1>5. PICK at \in {"limit", "handle"} : Becomes(s, at, credential[By(s)].tenant, None)
        BY <1>1, <1>4, AuthenticatedIs
    <1>6. Suits(OpOf(s), [at |-> at, tenant |-> credential[By(s)].tenant, status |-> None])
        BY <1>2, <1>3, CallerIs, OpsPart, AccessConstants DEF Suits
    <1>7. QED
        BY <1>3, <1>5, <1>6, BecomesMoved DEF CallsOK, Serving

LEMMA IdentifiedMoved ==
    ASSUME CallsOK, NEW s \in Slots, server[s].at # "answered", OpOf(s) \in Public, NEW tenant \in Tenants,
           server' = [server EXCEPT ![s].tenant = tenant, ![s].at = "issue"]
    PROVE  Moved(s)
    <1>1. server \in [Slots -> Request]
        BY DEF CallsOK, TypeOK
    <1>2. server[s].status = None
        BY DEF CallsOK, ServedOK, Fits, Suits
    <1>3. Becomes(s, "issue", tenant, None)
        BY <1>1, <1>2, IdentifiedIs
    <1>4. Suits(OpOf(s), [at |-> "issue", tenant |-> tenant, status |-> None])
        BY AccessConstants DEF Suits
    <1>5. QED
        BY <1>3, <1>4, BecomesMoved DEF CallsOK, Serving

(* Each of the server's steps moves its request on to a stage that suits.  *)
LEMMA ServeMoved ==
    ASSUME CallsOK, NEW s \in Slots, Serve(s)
    PROVE  server[s].at \in Serving /\ Moved(s)
    <1>1. CASE Cached(s)
        <2>1. server[s].at = "cached" /\ OpOf(s) \in AgentOps \cup UserOps
            BY <1>1 DEF Cached, CallsOK, ServedOK, Fits, Suits
        <2>2. Answer(s, "refused") \/ Authenticated(s, credential[By(s)].tenant) \/ Go(s, "lookup")
            BY <1>1 DEF Cached
        <2>3. QED
            BY <2>1, <2>2, AnswerMoved, AuthenticatedMoved, GoMoved DEF Serving, Statuses
    <1>2. CASE Lookup(s)
        <2>1. server[s].at = "lookup" /\ OpOf(s) \in AgentOps \cup UserOps
            BY <1>2 DEF Lookup, CallsOK, ServedOK, Fits, Suits
        <2>2. Answer(s, "refused") \/ Go(s, "remember")
            BY <1>2 DEF Lookup
        <2>3. QED
            BY <2>1, <2>2, AnswerMoved, GoMoved DEF Serving, Statuses
    <1>3. CASE Remember(s)
        BY <1>3, AuthenticatedMoved DEF Remember, Serving
    <1>4. CASE Limit(s)
        <2>1. /\ server[s].at = "limit" /\ OpOf(s) # "connect" /\ Go(s, "count")
              /\ OpOf(s) \in AgentOps \cup UserOps => server[s].tenant # None
            BY <1>4 DEF Limit, CallsOK, ServedOK, Fits, Suits
        <2>2. QED
            BY <2>1, GoMoved DEF Serving
    <1>5. CASE SignupCheck(s)
        <2>1. Answer(s, "refused") \/ Go(s, "insert")
            BY <1>5 DEF SignupCheck
        <2>2. QED
            BY <1>5, <2>1, AnswerMoved, GoMoved DEF SignupCheck, Serving, Statuses, Public
    <1>6. CASE SignupInsert(s)
        <2>1. server[s].at = "insert" /\ OpOf(s) \in Public
            BY <1>6 DEF SignupInsert, CallsOK, ServedOK, Fits, Suits
        <2>2. \/ Answer(s, "error")
              \/ \E t \in Tenants : server' = [server EXCEPT ![s].tenant = t, ![s].at = "issue"]
            BY <1>6 DEF SignupInsert
        <2>3. QED
            BY <2>1, <2>2, AnswerMoved, IdentifiedMoved DEF Serving, Statuses
    <1>7. CASE Login(s)
        <2>1. server[s].at = "handle" /\ OpOf(s) \in Public
            BY <1>7 DEF Login, Public
        <2>2. By(s) \in Emails
            BY <2>1, CallerIs
        <2>3. \/ Answer(s, "refused")
              \/ /\ users[By(s)] \in Tenants
                 /\ server' = [server EXCEPT ![s].tenant = users[By(s)], ![s].at = "issue"]
            BY <1>7, <2>2 DEF Login, CallsOK, TypeOK
        <2>4. QED
            BY <2>1, <2>3, AnswerMoved, IdentifiedMoved DEF Serving, Statuses
    <1>8. CASE Issue(s) \/ CreateKey(s) \/ Purge(s) \/ Forbid(s) \/ Tell(s) \/ MintTicket(s) \/ Connect(s)
        <2>1. server[s].at \in {"issue", "handle", "purge", "tell"} /\ (Answer(s, "ok") \/ Answer(s, "refused"))
            BY <1>8 DEF Issue, CreateKey, Purge, Forbid, Tell, MintTicket, Connect
        <2>2. QED
            BY <2>1, AnswerMoved DEF Serving, Statuses
    <1>9. CASE Revoke(s)
        BY <1>9, GoMoved DEF Revoke, Serving
    <1>10. CASE Facade(s)
        <2>1. server[s].at = "handle" /\ (Replay(s) \/ Repeat(s) \/ Look(s) \/ Answer(s, "ok"))
            BY <1>10 DEF Facade
        <2>2. \/ Answer(s, "refused") \/ Answer(s, "ok")
              \/ Go(s, "tell") /\ OpOf(s) \in ByOperation \cup Repeated
              \/ Go(s, "act") /\ OpOf(s) \in Checked
            BY <2>1 DEF Replay, Repeat, Look
        <2>3. QED
            BY <2>1, <2>2, AnswerMoved, GoMoved, OpsActed DEF Serving, Statuses
    <1>11. CASE Act(s) \/ Mark(s)
        <2>1. /\ server[s].at \in {"act", "mark"} /\ OpOf(s) \in Checked
              /\ Go(s, "tell") \/ Go(s, "mark")
            BY <1>11 DEF Act, Mark, CallsOK, ServedOK, Fits, Suits
        <2>2. QED
            BY <2>1, GoMoved, OpsActed DEF Serving
    <1>12. CASE Count(s)
        <2>1. server[s].at = "count" /\ (OpOf(s) \in AgentOps \cup UserOps => server[s].tenant # None)
            BY <1>12 DEF Count, CallsOK, ServedOK, Fits, Suits
        <2>2. Answer(s, "busy") \/ Go(s, "handle")
            BY <1>12 DEF Count
        <2>3. QED
            BY <2>1, <2>2, AnswerMoved, GoMoved DEF Serving, Statuses
    <1>13. QED
        BY <1>1, <1>2, <1>3, <1>4, <1>5, <1>6, <1>7, <1>8, <1>9, <1>10, <1>11, <1>12 DEF Serve

(* The rest of what the server and its databases keep.                     *)
DataOK ==
    /\ setting \in Setting /\ now \in 0..MaxTime
    /\ users \in [Emails -> Tenants \cup {None}] /\ tenants \subseteq Tenants
    /\ credential \in [Creds -> Row \cup {None}] /\ cache \in [Creds -> Nat]
    /\ window \in [Slots -> 0..MaxTime] /\ hits \in [Tenants \cup {"anon"} -> [0..MaxTime -> Nat]]
    /\ passed \in [Tenants \cup {"anon"} -> Nat]
    /\ tickets \in [Slots -> Nat] /\ opened \in [Slots -> Nat]
    /\ operations \subseteq Slots /\ applied \in [Calls -> Nat] /\ crossed \subseteq Creds

(* Credentials are made and ended, and never deleted.                      *)
CredentialsStay == \A cred \in Creds : credential[cred] # None => credential'[cred] # None

LEMMA NewRowTyped ==
    ASSUME CallsOK, NEW cred \in Creds, NEW tenant \in Tenants, NEW scopes \in SUBSET Scope, NEW e \in Nat,
           NewRow(cred, tenant, scopes, e)
    PROVE  credential' \in [Creds -> Row \cup {None}] /\ CredentialsStay
    <1>1. [tenant |-> tenant, scopes |-> scopes, active |-> TRUE, expiresAt |-> e] \in Row
        BY DEF Row
    <1>2. QED
        BY <1>1 DEF NewRow, CallsOK, TypeOK, CredentialsStay

LEMMA BucketTyped ==
    ASSUME CallsOK, NEW s \in Slots, server[s].at = "count"
    PROVE  Bucket(s) \in Tenants \cup {"anon"}
    <1>1. OpOf(s) \in Ops /\ OpOf(s) # "connect" /\ (OpOf(s) \in AgentOps => server[s].tenant # None)
        BY CallerIs DEF CallsOK, ServedOK, Fits, Suits
    <1>2. server[s].tenant \in Tenants \cup {None}
        BY DEF CallsOK, TypeOK, Request
    <1>3. QED
        BY <1>1, <1>2, OpsPart DEF Bucket

(* A request is counted in the window it read the clock in.                *)
Counted(s) ==
    \E b \in Tenants \cup {"anon"}, w \in 0..MaxTime, n \in Nat :
       /\ b = Bucket(s) /\ w = window[s]
       /\ n = hits[b][w] \/ w < now
       /\ hits' = [hits EXCEPT ![b] = [hits[b] EXCEPT ![w] = n + 1]]
       /\ \/ passed' = passed
          \/ n + 1 <= RateLimit /\ w = now /\ passed' = [passed EXCEPT ![b] = @ + 1]
       /\ window' = [window EXCEPT ![s] = 0]

LEMMA CountIs ==
    ASSUME CallsOK, NEW s \in Slots, Count(s)
    PROVE  Counted(s)
    <1>1. /\ window \in [Slots -> 0..MaxTime] /\ hits \in [Tenants \cup {"anon"} -> [0..MaxTime -> Nat]]
          /\ passed \in [Tenants \cup {"anon"} -> Nat] /\ RateLimit \in Nat
        BY AccessConstants DEF CallsOK, TypeOK
    <1>2. PICK b \in Tenants \cup {"anon"}, w \in 0..MaxTime : b = Bucket(s) /\ w = window[s]
        BY <1>1, BucketTyped DEF Count
    <1>3. hits[b][w] \in Nat
        BY <1>1
    <1>4. PICK n \in Counters(b, w) :
             /\ hits' = [hits EXCEPT ![b][w] = n + 1]
             /\ \/ PastLimit(n + 1) /\ passed' = passed
                \/ ~PastLimit(n + 1) /\ passed' = [passed EXCEPT ![b] = IF w = now THEN @ + 1 ELSE @]
        BY <1>2 DEF Count
    <1>5. n \in Nat /\ (n = hits[b][w] \/ w < now)
        BY <1>3, <1>4 DEF Counters
    <1>6. hits' = [hits EXCEPT ![b] = [hits[b] EXCEPT ![w] = n + 1]]
        BY <1>4
    <1>7. \/ passed' = passed
          \/ n + 1 <= RateLimit /\ w = now /\ passed' = [passed EXCEPT ![b] = @ + 1]
        <2>1. CASE passed' = passed
            BY <2>1
        <2>2. CASE ~PastLimit(n + 1) /\ passed' = [passed EXCEPT ![b] = IF w = now THEN @ + 1 ELSE @]
            <3>1. n + 1 <= RateLimit
                BY <1>1, <1>5, <2>2 DEF PastLimit
            <3>2. CASE w = now
                BY <2>2, <3>1, <3>2
            <3>3. CASE w # now
                BY <1>1, <2>2, <3>3
            <3>4. QED
                BY <3>2, <3>3
        <2>3. QED
            BY <1>4, <2>1, <2>2
    <1>8. window' = [window EXCEPT ![s] = 0]
        BY DEF Count
    <1>9. QED
        BY <1>2, <1>5, <1>6, <1>7, <1>8 DEF Counted

(* What a step of the server leaves behind.                                *)
LEMMA ServeTyped ==
    ASSUME CallsOK, NEW s \in Slots, Serve(s)
    PROVE  DataOK' /\ CredentialsStay /\ setting' = setting
    <1>1. DataOK
        BY DEF CallsOK, TypeOK, DataOK
    <1>2. CASE Cached(s) \/ Lookup(s) \/ SignupCheck(s) \/ Login(s) \/ Forbid(s) \/ Tell(s)
        <2>1. UNCHANGED <<setting, now, window, rows, redis, history>>
            BY <1>2 DEF Cached, Lookup, SignupCheck, Login, Forbid, Tell
        <2>2. QED
            BY <1>1, <2>1 DEF DataOK, CredentialsStay, rows, redis, history
    <1>3. CASE Remember(s)
        <2>1. By(s) \in Creds
            BY <1>3, CallerIs DEF Remember, CallsOK, ServedOK, Fits, Suits
        <2>2. now + CacheTtl \in Nat
            BY <1>1, AccessConstants DEF DataOK
        <2>3. cache' \in [Creds -> Nat] /\ crossed' \subseteq Creds
            BY <1>1, <1>3, <2>1, <2>2 DEF Remember, DataOK
        <2>4. QED
            BY <1>1, <1>3, <2>3 DEF Remember, DataOK, CredentialsStay, rows
    <1>4. CASE Limit(s)
        <2>1. window' \in [Slots -> 0..MaxTime]
            BY <1>1, <1>4 DEF Limit, DataOK
        <2>2. QED
            BY <1>1, <1>4, <2>1 DEF Limit, DataOK, CredentialsStay, rows, redis, history
    <1>5. CASE SignupInsert(s)
        <2>1. By(s) \in Emails /\ s[1] \in Calls
            BY <1>5, CallerIs DEF SignupInsert, CallsOK, ServedOK, Fits, Suits
        <2>2. /\ users' \in [Emails -> Tenants \cup {None}] /\ tenants' \subseteq Tenants
              /\ applied' \in [Calls -> Nat]
            <3>1. CASE IsUnique(By(s))
                <4>1. PICK t \in Tenants :
                         /\ tenants' = tenants \cup {t} /\ users' = [users EXCEPT ![By(s)] = t]
                         /\ applied' = [applied EXCEPT ![s[1]] = @ + 1]
                    BY <1>5, <3>1 DEF SignupInsert
                <4>2. QED
                    BY <1>1, <2>1, <4>1 DEF DataOK
            <3>2. CASE ~IsUnique(By(s))
                BY <1>1, <1>5, <3>2 DEF SignupInsert, DataOK
            <3>3. QED
                BY <3>1, <3>2
        <2>3. QED
            BY <1>1, <1>5, <2>2 DEF SignupInsert, DataOK, CredentialsStay, redis
    <1>6. CASE Issue(s) \/ CreateKey(s)
        <2>1. /\ server[s].tenant \in Tenants
              /\ Scope \in SUBSET Scope /\ script[s[1]].scopes \in SUBSET Scope
            <3>1. server[s].at \in {"issue", "handle"} /\ (server[s].at = "handle" => OpOf(s) = "createKey")
                BY <1>6 DEF Issue, CreateKey
            <3>2. server[s].tenant # None /\ server[s].tenant \in Tenants \cup {None}
                BY <3>1 DEF CallsOK, ServedOK, Fits, Suits, TypeOK, Request, UserOps
            <3>3. QED
                BY <3>1, <3>2, CallerIs
        <2>2. now + TokenTtl \in Nat /\ 0 \in Nat
            BY <1>1, AccessConstants DEF DataOK
        <2>3. CASE Issue(s)
            <3>1. credential' \in [Creds -> Row \cup {None}] /\ CredentialsStay
                BY <2>1, <2>2, <2>3, NewRowTyped DEF Issue, Creds
            <3>2. QED
                BY <1>1, <2>3, <3>1 DEF Issue, DataOK, redis, history
        <2>4. CASE CreateKey(s)
            <3>1. credential' \in [Creds -> Row \cup {None}] /\ CredentialsStay
                BY <2>1, <2>2, <2>4, NewRowTyped DEF CreateKey, Creds
            <3>2. QED
                BY <1>1, <2>4, <3>1 DEF CreateKey, DataOK, redis, history
        <2>5. QED
            BY <1>6, <2>3, <2>4
    <1>7. CASE Revoke(s)
        <2>1. \A cred \in Creds :
                 /\ credential'[cred] = credential[cred]
                       \/ (credential[cred] # None /\ credential'[cred] = [credential[cred] EXCEPT !.active = FALSE])
                 /\ credential[cred] \in Row \cup {None}
            BY <1>1, <1>7 DEF Revoke, DataOK
        <2>2. \A row \in Row : [row EXCEPT !.active = FALSE] \in Row
            BY DEF Row
        <2>3. \A cred \in Creds :
                 credential'[cred] \in Row \cup {None} /\ (credential[cred] # None => credential'[cred] # None)
            <3>1. SUFFICES ASSUME NEW cred \in Creds
                           PROVE  /\ credential'[cred] \in Row \cup {None}
                                  /\ credential[cred] # None => credential'[cred] # None
                OBVIOUS
            <3>2. PICK row \in Row \cup {None} : row = credential[cred]
                BY <2>1
            <3>3. CASE credential'[cred] = credential[cred]
                BY <3>2, <3>3
            <3>4. CASE row # None /\ credential'[cred] = [row EXCEPT !.active = FALSE]
                <4>1. [row EXCEPT !.active = FALSE] \in Row
                    BY <2>2, <3>4
                <4>2. QED
                    BY <3>4, <4>1, AccessConstants
            <3>5. QED
                BY <2>1, <3>2, <3>3, <3>4
        <2>4. credential' \in [Creds -> Row \cup {None}] /\ CredentialsStay
            BY <1>7, <2>3 DEF Revoke, CredentialsStay
        <2>5. QED
            BY <1>1, <1>7, <2>4 DEF Revoke, DataOK, redis, history
    <1>8. CASE Purge(s)
        <2>1. cache' \in [Creds -> Nat]
            BY <1>1, <1>8 DEF Purge, PurgeCache, DataOK
        <2>2. QED
            BY <1>1, <1>8, <2>1 DEF Purge, DataOK, CredentialsStay, rows, history
    <1>9. CASE Facade(s) \/ Act(s) \/ Mark(s)
        <2>1. s[1] \in Calls /\ <<s[1], 0>> \in Slots
            BY AccessConstants DEF Slots, Attempts
        <2>2. operations' = operations \/ operations' = operations \cup {<<s[1], 0>>}
            BY <1>9 DEF Facade, Act, Mark, Replay, Repeat, Look, OperationId, Target
        <2>3. applied' = applied \/ Effect(s)
            BY <1>9 DEF Facade, Act, Mark, Replay, Repeat, Look, history
        <2>4. operations' \subseteq Slots
            BY <1>1, <2>1, <2>2 DEF DataOK
        <2>5. applied' \in [Calls -> Nat]
            <3>1. PICK x \in Calls : x = s[1]
                BY <2>1
            <3>2. applied' = applied \/ applied' = [applied EXCEPT ![x] = @ + 1]
                BY <2>3, <3>1 DEF Effect
            <3>3. applied \in [Calls -> Nat]
                BY <1>1 DEF DataOK
            <3>4. QED
                BY <3>2, <3>3
        <2>6. UNCHANGED <<setting, now, window, rows, cache, hits, tickets, passed, opened, crossed>>
            BY <1>9 DEF Facade, Act, Mark, history
        <2>7. QED
            BY <1>1, <2>4, <2>5, <2>6 DEF DataOK, CredentialsStay, rows
    <1>10. CASE MintTicket(s)
        <2>1. now + TicketTtl \in Nat
            BY <1>1, AccessConstants DEF DataOK
        <2>2. tickets' \in [Slots -> Nat]
            BY <1>1, <1>10, <2>1 DEF MintTicket, DataOK
        <2>3. QED
            BY <1>1, <1>10, <2>2 DEF MintTicket, DataOK, CredentialsStay, rows, history
    <1>11. CASE Connect(s)
        <2>1. tickets' \in [Slots -> Nat] /\ opened' \in [Slots -> Nat]
            <3>1. tickets \in [Slots -> Nat] /\ opened \in [Slots -> Nat]
                BY <1>1 DEF DataOK
            <3>2. PICK t \in Slots :
                     /\ tickets' = [tickets EXCEPT ![t] = 0]
                     /\ opened' = opened \/ opened' = [opened EXCEPT ![t] = @ + 1]
                BY <1>11 DEF Connect, Spent
            <3>3. QED
                BY <3>1, <3>2
        <2>2. QED
            BY <1>1, <1>11, <2>1 DEF Connect, DataOK, CredentialsStay, rows
    <1>12. CASE Count(s)
        <2>1. Counted(s)
            BY <1>12, CountIs
        <2>2. PICK b \in Tenants \cup {"anon"}, w \in 0..MaxTime, n \in Nat :
                 /\ b = Bucket(s) /\ w = window[s]
                 /\ n = hits[b][w] \/ w < now
                 /\ hits' = [hits EXCEPT ![b] = [hits[b] EXCEPT ![w] = n + 1]]
                 /\ \/ passed' = passed
                    \/ n + 1 <= RateLimit /\ w = now /\ passed' = [passed EXCEPT ![b] = @ + 1]
                 /\ window' = [window EXCEPT ![s] = 0]
            BY <2>1 DEF Counted
        <2>3. hits' \in [Tenants \cup {"anon"} -> [0..MaxTime -> Nat]]
            <3>1. [hits[b] EXCEPT ![w] = n + 1] \in [0..MaxTime -> Nat]
                BY <1>1, <2>2 DEF DataOK
            <3>2. QED
                BY <1>1, <2>2, <3>1 DEF DataOK
        <2>4. passed' \in [Tenants \cup {"anon"} -> Nat] /\ window' \in [Slots -> 0..MaxTime]
            <3>1. passed \in [Tenants \cup {"anon"} -> Nat] /\ window \in [Slots -> 0..MaxTime] /\ 0 \in 0..MaxTime
                BY <1>1, AccessConstants DEF DataOK
            <3>2. passed' = passed \/ passed' = [passed EXCEPT ![b] = @ + 1]
                BY <2>2
            <3>3. passed' \in [Tenants \cup {"anon"} -> Nat]
                BY <2>2, <3>1, <3>2
            <3>4. window' \in [Slots -> 0..MaxTime]
                BY <2>2, <3>1
            <3>5. QED
                BY <3>3, <3>4
        <2>5. QED
            BY <1>1, <1>12, <2>3, <2>4 DEF Count, DataOK, CredentialsStay, rows
    <1>13. QED
        BY <1>2, <1>3, <1>4, <1>5, <1>6, <1>7, <1>8, <1>9, <1>10, <1>11, <1>12 DEF Serve

Placed ==
    \A s \in Slots :
       /\ server[s].at # "idle" => script[s[1]] # None /\ s[2] <= client[s[1]].attempt
       /\ server[s].at \in {"limit", "count", "handle"} /\ OpOf(s) \in AgentOps => server[s].tenant # None

LEMMA ServedPlaced == ServedOK => Placed
    <1>1. SUFFICES ASSUME ServedOK, NEW s \in Slots
                   PROVE  /\ server[s].at # "idle" => script[s[1]] # None /\ s[2] <= client[s[1]].attempt
                          /\ server[s].at \in {"limit", "count", "handle"} /\ OpOf(s) \in AgentOps
                                => server[s].tenant # None
        BY DEF Placed
    <1>2. Fits(s) /\ Known(s[1])
        BY <1>1 DEF ServedOK, Slots
    <1>3. QED
        BY <1>2 DEF Fits, Known, Suits

LEMMA TypeFollows ==
    DataOK /\ server \in [Slots -> Request] /\ client \in [Calls -> Client] /\ faults \in Nat /\ ServedOK
        => CallsOK
    BY ServedPlaced DEF CallsOK, TypeOK, DataOK, Placed

(* A request moves on, and its caller does nothing.                        *)
LEMMA MovedFits ==
    ASSUME CallsOK, NEW s \in Slots, server[s].at # "idle", Moved(s), setting' = setting,
           DataOK', CredentialsStay, client' = client, faults' \in Nat
    PROVE  CallsOK'
    <1>1. PICK r \in Request : server' = [server EXCEPT ![s] = r] /\ r.at # "idle" /\ Suits(OpOf(s), r)
        BY DEF Moved
    <1>2. server' \in [Slots -> Request] /\ client' \in [Calls -> Client]
        BY <1>1 DEF CallsOK, TypeOK
    <1>3. server'[s] = r /\ \A t \in Slots : t # s => server'[t] = server[t]
        BY <1>1 DEF CallsOK, TypeOK
    <1>4. script' = script /\ \A t \in Slots : OpOf(t)' = OpOf(t)
        BY DEF script, OpOf
    <1>5. ASSUME NEW t \in Slots
          PROVE  Fits(t)'
        <2>1. Fits(t)
            BY DEF CallsOK, ServedOK
        <2>2. server'[t].at # "idle" => server[t].at # "idle"
            BY <1>3
        <2>3. Suits(OpOf(t), server'[t])
            BY <1>1, <1>3, <2>1 DEF Fits
        <2>4. QED
            BY <1>4, <2>1, <2>2, <2>3 DEF Fits, Suits
    <1>6. ASSUME NEW x \in Calls
          PROVE  Known(x)'
        <2>1. Known(x)
            BY DEF CallsOK, ServedOK
        <2>2. QED
            BY <1>4, <2>1 DEF Known, CredentialsStay
    <1>7. ServedOK'
        BY <1>5, <1>6 DEF ServedOK
    <1>8. (DataOK /\ server \in [Slots -> Request] /\ client \in [Calls -> Client] /\ faults \in Nat /\ ServedOK)'
        BY <1>2, <1>7
    <1>9. QED
        BY <1>8, TypeFollows, PTL

(* A call is sent, or sent again: its next attempt begins.                 *)
LEMMA StartFits ==
    ASSUME CallsOK, NEW x \in Calls, NEW i \in Attempts, Start(<<x, i>>), script[x] # None,
           script[x].by \in Creds => credential[script[x].by] # None,
           client' = [client EXCEPT ![x] = [at |-> "waiting", attempt |-> i]],
           client[x].attempt <= i, server[<<x, i>>].at # "answered",
           UNCHANGED <<setting, now, window, rows, redis, history, faults>>
    PROVE  CallsOK'
    <1>1. PICK s \in Slots : s = <<x, i>> /\ s[1] = x /\ s[2] = i
        BY DEF Slots
    <1>2. OpOf(s) \in Ops
        BY <1>1, ScriptTyped DEF CallsOK, OpOf
    <1>3. server \in [Slots -> Request] /\ client \in [Calls -> Client] /\ faults \in Nat /\ DataOK
        BY DEF CallsOK, TypeOK, DataOK
    <1>4. script' = script /\ \A t \in Slots : OpOf(t)' = OpOf(t)
        BY DEF script, OpOf
    <1>5. DataOK' /\ faults' \in Nat /\ credential' = credential
        BY <1>3 DEF DataOK, rows, redis, history
    <1>6. server[s].tenant \in Tenants \cup {None} /\ server[s].status = None
        <2>1. server[s] \in Request /\ Fits(s) /\ server[s].at # "answered"
            BY <1>1, <1>3 DEF CallsOK, ServedOK
        <2>2. QED
            BY <2>1 DEF Fits, Suits, Request
    <1>7. Moved(s)
        <2>1. PICK at \in {"limit", "handle", "cached"} :
                 /\ Becomes(s, at, server[s].tenant, None)
                 /\ at = "cached" => OpOf(s) \in AgentOps \cup UserOps
                 /\ at = "limit" => OpOf(s) \in Public
                 /\ at = "handle" => OpOf(s) = "connect"
            BY <1>1, <1>2, <1>3, <1>6, StartIs
        <2>2. Suits(OpOf(s), [at |-> at, tenant |-> server[s].tenant, status |-> None])
            BY <1>2, <2>1, OpsPart DEF Suits
        <2>3. QED
            BY <1>6, <2>1, <2>2, BecomesMoved DEF CallsOK, Serving
    <1>8. PICK r \in Request : server' = [server EXCEPT ![s] = r] /\ r.at # "idle" /\ Suits(OpOf(s), r)
        BY <1>7 DEF Moved
    <1>9. server' \in [Slots -> Request] /\ client' \in [Calls -> Client]
        BY <1>3, <1>8 DEF Client
    <1>10. ASSUME NEW t \in Slots
           PROVE  Fits(t)'
        <2>1. Fits(t) /\ t[1] \in Calls /\ t[2] \in Attempts /\ t = <<t[1], t[2]>>
            BY DEF CallsOK, ServedOK, Slots
        <2>2. client'[x].at = "waiting" /\ client'[x].attempt = i /\ \A y \in Calls : y # x => client'[y] = client[y]
            BY <1>3
        <2>3. CASE t = s
            <3>1. Suits(OpOf(t), server'[t])
                BY <1>3, <1>8, <2>3
            <3>2. t[1] = x /\ t[2] <= client'[x].attempt
                BY <1>1, <2>2, <2>3 DEF Attempts
            <3>3. QED
                BY <1>4, <2>2, <3>1, <3>2 DEF Fits, Suits
        <2>4. CASE t # s
            <3>1. server'[t] = server[t]
                BY <1>3, <1>8, <2>4
            <3>2. client[t[1]].at # "ready" /\ t[2] <= client[t[1]].attempt =>
                     client'[t[1]].at # "ready" /\ t[2] <= client'[t[1]].attempt
                <4>1. CASE t[1] = x
                    BY <1>3, <2>1, <2>2, <4>1, AccessConstants DEF Attempts, Client
                <4>2. CASE t[1] # x
                    BY <2>1, <2>2, <4>2
                <4>3. QED
                    BY <4>1, <4>2
            <3>3. QED
                BY <1>4, <2>1, <3>1, <3>2 DEF Fits, Suits
        <2>5. QED
            BY <2>3, <2>4
    <1>11. ASSUME NEW y \in Calls
           PROVE  Known(y)'
        <2>1. Known(y)
            BY DEF CallsOK, ServedOK
        <2>2. CASE y = x
            BY <1>3, <1>4, <1>5, <2>2 DEF Known
        <2>3. CASE y # x
            BY <1>3, <1>4, <1>5, <2>1, <2>3 DEF Known
        <2>4. QED
            BY <2>2, <2>3
    <1>12. ServedOK'
        BY <1>10, <1>11 DEF ServedOK
    <1>13. (DataOK /\ server \in [Slots -> Request] /\ client \in [Calls -> Client] /\ faults \in Nat /\ ServedOK)'
        BY <1>5, <1>9, <1>12
    <1>14. QED
        BY <1>13, TypeFollows, PTL

(* A caller learns of its answer, or gives up.                             *)
LEMMA CallerFits ==
    ASSUME CallsOK, NEW x \in Calls, client[x].at # "ready",
           NEW at \in {"waiting", "backoff", "done", "failed"}, To(x, at),
           at = "backoff" => client[x].attempt < MaxRetries,
           UNCHANGED accessVars, faults' \in Nat
    PROVE  CallsOK'
    <1>1. server \in [Slots -> Request] /\ client \in [Calls -> Client] /\ DataOK
        BY DEF CallsOK, TypeOK, DataOK
    <1>2. /\ client' \in [Calls -> Client] /\ client'[x].at = at /\ client'[x].attempt = client[x].attempt
          /\ \A y \in Calls : y # x => client'[y] = client[y]
        BY <1>1 DEF To, Client
    <1>3. /\ DataOK' /\ server' = server /\ credential' = credential
          /\ script' = script /\ \A t \in Slots : OpOf(t)' = OpOf(t)
        BY <1>1 DEF DataOK, accessVars, rows, redis, history, script, OpOf
    <1>4. ASSUME NEW t \in Slots
          PROVE  Fits(t)'
        <2>1. Fits(t) /\ t[1] \in Calls
            BY DEF CallsOK, ServedOK, Slots
        <2>2. CASE t[1] = x
            BY <1>2, <1>3, <2>1, <2>2 DEF Fits, Suits
        <2>3. CASE t[1] # x
            BY <1>2, <1>3, <2>1, <2>3 DEF Fits, Suits
        <2>4. QED
            BY <2>2, <2>3
    <1>5. ASSUME NEW y \in Calls
          PROVE  Known(y)'
        <2>1. Known(y)
            BY DEF CallsOK, ServedOK
        <2>2. QED
            BY <1>2, <1>3, <2>1 DEF Known
    <1>6. ServedOK'
        BY <1>4, <1>5 DEF ServedOK
    <1>7. (DataOK /\ server \in [Slots -> Request] /\ client \in [Calls -> Client] /\ faults \in Nat /\ ServedOK)'
        BY <1>1, <1>2, <1>3, <1>6
    <1>8. QED
        BY <1>7, TypeFollows, PTL

LEMMA InitFits == Init => CallsOK
    <1>1. SUFFICES ASSUME Init
                   PROVE  CallsOK
        OBVIOUS
    <1>2. setting \in Setting
        BY <1>1, AccessConstants DEF Init, AccessInit
    <1>3. /\ users \in [Emails -> Tenants \cup {None}] /\ tenants \subseteq Tenants
          /\ credential \in [Creds -> Row \cup {None}]
        BY <1>1, <1>2 DEF Init, AccessInit, Setting
    <1>4. DataOK
        BY <1>1, <1>2, <1>3, AccessConstants DEF Init, AccessInit, DataOK
    <1>5. server \in [Slots -> Request] /\ client \in [Calls -> Client] /\ faults \in Nat
        BY <1>1, AccessConstants DEF Init, AccessInit, Idle, Request, Client, Attempts
    <1>6. ASSUME NEW s \in Slots
          PROVE  Fits(s)
        BY <1>1 DEF Init, AccessInit, Idle, Fits, Suits
    <1>7. ASSUME NEW x \in Calls
          PROVE  Known(x)
        BY <1>1 DEF Init, Known
    <1>8. QED
        BY <1>4, <1>5, <1>6, <1>7, TypeFollows DEF ServedOK

(* Which attempt a call makes next.                                        *)
LEMMA SendStarts ==
    ASSUME CallsOK, NEW x \in Calls, Send(x)
    PROVE  /\ client' = [client EXCEPT ![x] = [at |-> "waiting", attempt |-> 0]]
           /\ client[x].at = "ready" /\ client[x].attempt = 0 /\ 0 \in Attempts
           /\ \A t \in Slots : t[1] = x => server[t].at = "idle"
    <1>1. client[x].at = "ready" /\ client[x].attempt = 0 /\ client \in [Calls -> Client]
        BY DEF Send, CallsOK, ServedOK, Known, TypeOK
    <1>2. client' = [client EXCEPT ![x].at = "waiting"]
        BY DEF Send, To
    <1>3. PICK c \in Client : c = client[x]
        BY <1>1
    <1>4. [c EXCEPT !.at = "waiting"] = [at |-> "waiting", attempt |-> 0]
        BY <1>1, <1>3 DEF Client
    <1>5. \A t \in Slots : t[1] = x => server[t].at = "idle"
        BY <1>1 DEF CallsOK, ServedOK, Fits
    <1>6. client' = [client EXCEPT ![x] = [at |-> "waiting", attempt |-> 0]]
        <2>1. client' = [client EXCEPT ![x] = [client[x] EXCEPT !.at = "waiting"]]
            BY <1>2
        <2>2. QED
            BY <1>3, <1>4, <2>1
    <1>7. 0 \in Attempts
        BY AccessConstants DEF Attempts
    <1>8. QED
        BY <1>1, <1>5, <1>6, <1>7

LEMMA ResendStarts ==
    ASSUME CallsOK, NEW x \in Calls, Resend(x)
    PROVE  /\ client' = [client EXCEPT ![x] = [at |-> "waiting", attempt |-> client[x].attempt + 1]]
           /\ client[x].at = "backoff" /\ client[x].attempt + 1 \in Attempts
           /\ server[<<x, client[x].attempt + 1>>].at = "idle"
    <1>1. client[x].attempt \in Attempts /\ client[x].attempt < MaxRetries
        <2>1. client[x] \in Client /\ client[x].at = "backoff" /\ Known(x)
            BY DEF Resend, CallsOK, ServedOK, TypeOK
        <2>2. QED
            BY <2>1 DEF Known, Client
    <1>2. client[x].attempt + 1 \in Attempts
        BY <1>1, AccessConstants DEF Attempts
    <1>3. PICK i \in Attempts : i = client[x].attempt + 1
        BY <1>2
    <1>4. PICK s : s = <<x, i>>
        OBVIOUS
    <1>5. s \in Slots /\ s[1] = x /\ s[2] = i
        BY <1>3, <1>4 DEF Slots
    <1>6. s = <<x, client[x].attempt + 1>> /\ s[1] = x /\ s[2] = client[x].attempt + 1
        BY <1>3, <1>4, <1>5
    <1>7. server[s].at = "idle"
        <2>1. Fits(s) /\ ~(s[2] <= client[x].attempt)
            BY <1>1, <1>6, <1>5 DEF CallsOK, ServedOK, Attempts
        <2>2. QED
            BY <1>6, <2>1 DEF Fits
    <1>8. /\ client' = [client EXCEPT ![x] = [at |-> "waiting", attempt |-> client[x].attempt + 1]]
          /\ client[x].at = "backoff"
        BY DEF Resend
    <1>9. server[<<x, client[x].attempt + 1>>].at = "idle"
        BY <1>6, <1>7
    <1>10. QED
        BY <1>2, <1>8, <1>9

LEMMA CallsStep ==
    ASSUME CallsOK, [Next]_vars
    PROVE  CallsOK'
    <1>1. client \in [Calls -> Client] /\ faults \in Nat /\ faults + 1 \in Nat /\ DataOK
        BY DEF CallsOK, TypeOK, DataOK
    <1>2. ASSUME NEW x \in Calls, Send(x)
          PROVE  CallsOK'
        <2>1. script[x] # None /\ (script[x].by \in Creds => credential[script[x].by] # None) /\ Start(<<x, 0>>)
            BY <1>2 DEF Send, Holds
        <2>2. <<x, 0>> \in Slots /\ <<x, 0>>[1] = x
            BY <1>2, SendStarts DEF Slots
        <2>3. server[<<x, 0>>].at # "answered" /\ client[x].attempt <= 0
            BY <1>2, <2>2, SendStarts
        <2>4. UNCHANGED <<setting, now, window, rows, redis, history, faults>>
            BY <1>2 DEF Send
        <2>5. QED
            BY <1>2, <2>1, <2>3, <2>4, SendStarts, StartFits
    <1>3. ASSUME NEW x \in Calls, Resend(x)
          PROVE  CallsOK'
        <2>1. Known(x) /\ client[x].at = "backoff"
            BY <1>3, ResendStarts DEF CallsOK, ServedOK
        <2>2. script[x] # None /\ (script[x].by \in Creds => credential[script[x].by] # None)
            BY <2>1 DEF Known
        <2>3. PICK i \in Attempts : i = client[x].attempt + 1
            BY <1>3, ResendStarts
        <2>4. client[x].attempt <= i /\ server[<<x, i>>].at # "answered" /\ Start(<<x, i>>)
              /\ client' = [client EXCEPT ![x] = [at |-> "waiting", attempt |-> i]]
            <3>1. client[x].attempt \in Attempts
                BY <1>1 DEF Client
            <3>2. client[x].attempt <= i
                BY <2>3, <3>1 DEF Attempts
            <3>3. server[<<x, i>>].at # "answered" /\ client' = [client EXCEPT ![x] = [at |-> "waiting", attempt |-> i]]
                BY <1>3, <2>3, ResendStarts
            <3>4. Start(<<x, i>>)
                BY <1>3, <2>3 DEF Resend
            <3>5. QED
                BY <3>2, <3>3, <3>4
        <2>5. UNCHANGED <<setting, now, window, rows, redis, history, faults>>
            BY <1>3 DEF Resend
        <2>6. QED
            BY <1>3, <2>2, <2>4, <2>5, StartFits
    <1>4. ASSUME NEW x \in Calls, Receive(x) \/ Disconnect(x)
          PROVE  CallsOK'
        <2>1. client[x].at = "waiting" /\ UNCHANGED accessVars
            BY <1>4 DEF Receive, Disconnect
        <2>2. faults' \in Nat
            BY <1>1, <1>4 DEF Receive, Disconnect
        <2>3. PICK at \in {"backoff", "done", "failed"} :
                 To(x, at) /\ (at = "backoff" => client[x].attempt < MaxRetries)
            <3>1. ASSUME NEW retries, Again(x, retries)
                  PROVE  \E at \in {"backoff", "done", "failed"} :
                            To(x, at) /\ (at = "backoff" => client[x].attempt < MaxRetries)
                BY <3>1 DEF Again
            <3>2. CASE Disconnect(x)
                BY <3>1, <3>2 DEF Disconnect
            <3>3. CASE Receive(x)
                <4>1. PICK s \in Slots : s = <<x, client[x].attempt>>
                    BY <1>1 DEF Slots, Client
                <4>2. server[s].at = "answered" /\ Fits(s) /\ server[s] \in Request
                    BY <3>3, <4>1 DEF Receive, CallsOK, ServedOK, TypeOK
                <4>3. Status(x) \in Statuses
                    BY <4>1, <4>2 DEF Fits, Suits, Request, Status
                <4>4. To(x, "done") \/ To(x, "failed") \/ Again(x, RetriesStatus(x))
                    BY <3>3, <4>3 DEF Receive, Statuses
                <4>5. QED
                    BY <3>1, <4>4
            <3>4. QED
                BY <1>4, <3>2, <3>3
        <2>4. QED
            BY <2>1, <2>2, <2>3, CallerFits
    <1>5. ASSUME NEW s \in Slots, Serve(s), UNCHANGED <<client, faults>>
          PROVE  CallsOK'
        <2>1. server[s].at # "idle" /\ Moved(s)
            BY <1>5, ServeMoved DEF Serving
        <2>2. QED
            BY <1>1, <1>5, <2>1, ServeTyped, MovedFits
    <1>6. ASSUME NEW s \in Slots, Fail(s)
          PROVE  CallsOK'
        <2>1. server[s].at \in Serving /\ server[s].at # "idle" /\ server[s].at # "answered"
            BY <1>6 DEF Fail, Abandon, Serving
        <2>2. Answer(s, "error") \/ Go(s, "gone")
            BY <1>6 DEF Fail, Abandon
        <2>3. Moved(s)
            BY <2>1, <2>2, AnswerMoved, GoMoved DEF Statuses, Serving
        <2>4. server[s].at = "purge" => Revoked(s) \in Creds
            BY <2>1, CallerIs DEF CallsOK, ServedOK, Fits, Suits
        <2>5. crossed' \subseteq Creds
            BY <1>1, <1>6, <2>4 DEF Fail, Abandon, DataOK
        <2>6. /\ UNCHANGED <<setting, now, window, rows, redis, applied, passed, opened, client>>
              /\ faults' \in Nat
            BY <1>1, <1>6 DEF Fail, Abandon
        <2>7. DataOK' /\ CredentialsStay
            BY <1>1, <2>5, <2>6 DEF DataOK, CredentialsStay, rows, redis
        <2>8. QED
            BY <2>1, <2>3, <2>6, <2>7, MovedFits
    <1>7. ASSUME Tick, UNCHANGED <<client, faults>>
          PROVE  CallsOK'
        <2>1. passed' \in [Tenants \cup {"anon"} -> Nat] /\ now' \in 0..MaxTime
            BY <1>1, <1>7, AccessConstants DEF Tick, DataOK
        <2>2. UNCHANGED <<setting, window, users, tenants, credential, cache, hits, tickets, operations, server,
                          applied, opened, crossed, client, faults>>
            BY <1>7 DEF Tick, rows, redis
        <2>3. DataOK'
            BY <1>1, <2>1, <2>2 DEF DataOK
        <2>4. ServedOK'
            BY <2>2 DEF CallsOK, ServedOK, Fits, Known, Suits, OpOf, script
        <2>5. (DataOK /\ server \in [Slots -> Request] /\ client \in [Calls -> Client] /\ faults \in Nat /\ ServedOK)'
            BY <1>1, <2>2, <2>3, <2>4 DEF CallsOK, TypeOK
        <2>6. QED
            BY <2>5, TypeFollows, PTL
    <1>8. CASE UNCHANGED vars
        <2>1. UNCHANGED <<setting, now, window, users, tenants, credential, cache, hits, tickets, operations, server,
                          applied, passed, opened, crossed, client, faults>>
            BY <1>8 DEF vars, accessVars, rows, redis, history
        <2>2. DataOK' /\ ServedOK'
            BY <1>1, <2>1 DEF DataOK, CallsOK, ServedOK, Fits, Known, Suits, OpOf, script
        <2>3. (DataOK /\ server \in [Slots -> Request] /\ client \in [Calls -> Client] /\ faults \in Nat /\ ServedOK)'
            BY <1>1, <2>1, <2>2 DEF CallsOK, TypeOK
        <2>4. QED
            BY <2>3, TypeFollows, PTL
    <1>9. QED
        BY <1>2, <1>3, <1>4, <1>5, <1>6, <1>7, <1>8 DEF Next

(* Every reachable state of the server, its databases and its callers is   *)
(* well typed, only sent attempts are served, and a request past           *)
(* authentication knows its tenant.                                        *)
THEOREM ClientsTypeCorrect == Spec => []TypeOK
    <1>1. Init => CallsOK
        BY InitFits
    <1>2. CallsOK /\ [Next]_vars => CallsOK'
        BY CallsStep
    <1>3. CallsOK => TypeOK
        BY DEF CallsOK
    <1>4. QED
        BY <1>1, <1>2, <1>3, PTL DEF Spec

-----------------------------------------------------------------------------
(* Ended credentials.                                                      *)

(* What is cached of a credential that ended, and that none is cached      *)
(* before it is made.                                                      *)
Refused(cred) ==
    credential[cred] # None /\ cred \notin crossed /\ cache[cred] > now /\ ~Purging(cred) =>
        /\ credential[cred].active
        /\ cache[cred] <= EndedAt(credential[cred]) + CacheTtl
CredOK(cred) == Refused(cred) /\ (credential[cred] = None => cache[cred] = 0)
RefusedOK    == \A cred \in Creds : CredOK(cred)

LEMMA RefusedIs == RefusedOK => EndedIsRefused
    BY DEF RefusedOK, CredOK, Refused, EndedIsRefused

(* The requests that purge are those that did, but for one that moves on.  *)
LEMMA PurgingStays ==
    ASSUME NEW s \in Slots, setting' = setting, server[s].at # "purge",
           \A t \in Slots : t # s => server'[t] = server[t]
    PROVE  \A cred \in Creds : Purging(cred) => Purging(cred)'
    <1>1. \A t \in Slots : Revoked(t)' = Revoked(t)
        BY DEF Revoked, OpOf, By, script
    <1>2. QED
        BY <1>1 DEF Purging

(* Nothing is cached, made or ended; what is no longer purging is excused. *)
LEMMA RefusedQuietly ==
    ASSUME RefusedOK, now' = now, credential' = credential, cache' = cache, crossed \subseteq crossed',
           \A cred \in Creds : cred \in crossed' \/ (Purging(cred) => Purging(cred)')
    PROVE  RefusedOK'
    <1>1. SUFFICES ASSUME NEW cred \in Creds
                   PROVE  CredOK(cred)'
        BY DEF RefusedOK
    <1>2. CredOK(cred) /\ (cred \in crossed' \/ (Purging(cred) => Purging(cred)'))
        BY DEF RefusedOK
    <1>3. \A row : EndedAt(row)' = EndedAt(row)
        BY DEF EndedAt
    <1>4. QED
        BY <1>2, <1>3 DEF CredOK, Refused

LEMMA RefusedRemember ==
    ASSUME CallsOK, RefusedOK, NEW s \in Slots, Remember(s), Moved(s)
    PROVE  RefusedOK'
    <1>1. By(s) \in Creds /\ credential[By(s)] \in Row
        BY CallerIs DEF Remember, CallsOK, ServedOK, Fits, Suits
    <1>2. /\ cache' = [cache EXCEPT ![By(s)] = now + CacheTtl] /\ now' = now /\ credential' = credential
          /\ crossed' = IF Ended(By(s)) /\ ~Purging(By(s)) THEN crossed \cup {By(s)} ELSE crossed
          /\ setting' = setting /\ server[s].at # "purge"
        BY DEF Remember, rows
    <1>3. \A cred \in Creds : Purging(cred) => Purging(cred)'
        BY <1>2, PurgingStays DEF Moved, CallsOK, TypeOK
    <1>4. now \in Nat /\ cache \in [Creds -> Nat]
        BY AccessConstants DEF CallsOK, TypeOK
    <1>5. \A row : EndedAt(row)' = EndedAt(row)
        BY <1>2 DEF EndedAt
    <1>6. SUFFICES ASSUME NEW cred \in Creds
                   PROVE  CredOK(cred)'
        BY DEF RefusedOK
    <1>7. CredOK(cred)
        BY DEF RefusedOK
    <1>8. CASE cred # By(s)
        BY <1>2, <1>3, <1>4, <1>5, <1>7, <1>8 DEF CredOK, Refused
    <1>9. CASE cred = By(s)
        <2>1. PICK row \in Row : row = credential[cred]
            BY <1>1, <1>9
        <2>2. cache'[cred] = now + CacheTtl /\ credential'[cred] = row
            BY <1>2, <1>4, <1>9, <2>1
        <2>3. EndedAt(row) \in Nat
            BY <1>4 DEF EndedAt, Row
        <2>4. cred \in crossed' \/ Purging(cred)' \/ (row.active /\ ~(EndedAt(row) < now))
            BY <1>2, <1>3, <1>9, <2>1 DEF Ended
        <2>5. row # None
            BY AccessConstants
        <2>6. QED
            BY <1>2, <1>4, <1>5, <2>2, <2>3, <2>4, <2>5, AccessConstants DEF CredOK, Refused
    <1>10. QED
        BY <1>8, <1>9

LEMMA RefusedNewRow ==
    ASSUME CallsOK, RefusedOK, NEW made \in Creds, NEW tenant, NEW scopes, NEW e, NewRow(made, tenant, scopes, e),
           now' = now, cache' = cache, crossed' = crossed, \A cred \in Creds : Purging(cred) => Purging(cred)'
    PROVE  RefusedOK'
    <1>1. SUFFICES ASSUME NEW cred \in Creds
                   PROVE  CredOK(cred)'
        BY DEF RefusedOK
    <1>2. CredOK(cred) /\ (Purging(cred) => Purging(cred)') /\ now \in Nat /\ cache[cred] \in Nat
        BY AccessConstants DEF RefusedOK, CallsOK, TypeOK
    <1>3. \A row : EndedAt(row)' = EndedAt(row)
        BY DEF EndedAt
    <1>4. CASE cred = made
        <2>1. credential[cred] = None
            BY <1>4 DEF NewRow
        <2>2. cache'[cred] = 0
            BY <1>2, <2>1 DEF CredOK
        <2>3. QED
            BY <1>2, <2>2 DEF CredOK, Refused
    <1>5. CASE cred # made
        <2>1. credential'[cred] = credential[cred]
            BY <1>5 DEF NewRow, CallsOK, TypeOK
        <2>2. QED
            BY <1>2, <1>3, <2>1 DEF CredOK, Refused
    <1>6. QED
        BY <1>4, <1>5

LEMMA RefusedRevoke ==
    ASSUME CallsOK, RefusedOK, NEW s \in Slots, Revoke(s)
    PROVE  RefusedOK'
    <1>1. /\ now' = now /\ cache' = cache /\ crossed' = crossed /\ setting' = setting /\ server[s].at = "handle"
          /\ Go(s, "purge")
        BY DEF Revoke, redis, history
    <1>2. server \in [Slots -> Request]
        BY DEF CallsOK, TypeOK
    <1>3. server'[s].at = "purge" /\ \A t \in Slots : t # s => server'[t] = server[t]
        <2>1. Becomes(s, "purge", server[s].tenant, server[s].status)
            BY <1>1, <1>2, GoIs
        <2>2. QED
            BY <2>1 DEF Becomes
    <1>4. \A t \in Slots : Revoked(t)' = Revoked(t)
        BY <1>1 DEF Revoked, OpOf, By, script
    <1>5. \A cred \in Creds : Purging(cred) \/ cred = Revoked(s) => Purging(cred)'
        BY <1>1, <1>3, <1>4 DEF Purging
    <1>6. \A row : EndedAt(row)' = EndedAt(row)
        BY <1>1 DEF EndedAt
    <1>7. SUFFICES ASSUME NEW cred \in Creds
                   PROVE  CredOK(cred)'
        BY DEF RefusedOK
    <1>8. CredOK(cred) /\ (Purging(cred) => Purging(cred)')
        BY <1>5 DEF RefusedOK
    <1>9. CASE cred = Revoked(s)
        <2>1. Purging(cred)'
            BY <1>5, <1>9
        <2>2. credential'[cred] = None => credential[cred] = None
            <3>1. CredentialsStay
                BY ServeTyped DEF Serve
            <3>2. QED
                BY <3>1 DEF CredentialsStay
        <2>3. QED
            BY <1>1, <1>8, <2>1, <2>2 DEF CredOK, Refused
    <1>10. CASE cred # Revoked(s)
        <2>1. credential'[cred] = credential[cred]
            BY <1>10 DEF Revoke
        <2>2. QED
            BY <1>1, <1>6, <1>8, <2>1 DEF CredOK, Refused
    <1>11. QED
        BY <1>9, <1>10

LEMMA RefusedPurge ==
    ASSUME CallsOK, RefusedOK, NEW s \in Slots, Purge(s), Moved(s)
    PROVE  RefusedOK'
    <1>1. /\ now' = now /\ credential' = credential /\ crossed' = crossed /\ setting' = setting
          /\ cache' = [cache EXCEPT ![Revoked(s)] = 0]
        BY DEF Purge, PurgeCache, rows, history
    <1>2. \A t \in Slots : t # s => server'[t] = server[t]
        BY DEF Moved, CallsOK, TypeOK
    <1>3. \A t \in Slots : Revoked(t)' = Revoked(t)
        BY <1>1 DEF Revoked, OpOf, By, script
    <1>4. \A row : EndedAt(row)' = EndedAt(row)
        BY <1>1 DEF EndedAt
    <1>5. cache \in [Creds -> Nat] /\ now \in Nat
        BY AccessConstants DEF CallsOK, TypeOK
    <1>6. SUFFICES ASSUME NEW cred \in Creds
                   PROVE  CredOK(cred)'
        BY DEF RefusedOK
    <1>7. CredOK(cred)
        BY DEF RefusedOK
    <1>8. CASE cred = Revoked(s)
        <2>1. cache'[cred] = 0
            BY <1>1, <1>5, <1>8
        <2>2. QED
            BY <1>1, <1>5, <2>1 DEF CredOK, Refused
    <1>9. CASE cred # Revoked(s)
        <2>1. Purging(cred) => Purging(cred)'
            BY <1>2, <1>3, <1>9 DEF Purging
        <2>2. cache'[cred] = cache[cred]
            BY <1>1, <1>5, <1>9
        <2>3. QED
            BY <1>1, <1>4, <1>7, <2>1, <2>2 DEF CredOK, Refused
    <1>10. QED
        BY <1>8, <1>9

LEMMA RefusedServe ==
    ASSUME CallsOK, RefusedOK, NEW s \in Slots, Serve(s)
    PROVE  RefusedOK'
    <1>1. Moved(s) /\ setting' = setting
        BY ServeMoved, ServeTyped
    <1>2. CASE Remember(s)
        BY <1>1, <1>2, RefusedRemember
    <1>3. CASE Revoke(s)
        BY <1>3, RefusedRevoke
    <1>4. CASE Purge(s)
        BY <1>1, <1>4, RefusedPurge
    <1>5. ASSUME server[s].at # "purge"
          PROVE  \A cred \in Creds : Purging(cred) => Purging(cred)'
        BY <1>1, <1>5, PurgingStays DEF Moved, CallsOK, TypeOK
    <1>6. CASE Issue(s)
        <2>1. /\ server[s].at # "purge" /\ now' = now /\ cache' = cache /\ crossed' = crossed
              /\ \E token \in Creds : NewRow(token, server[s].tenant, Scope, now + TokenTtl)
            BY <1>6 DEF Issue, redis, history, Creds
        <2>2. QED
            BY <1>5, <2>1, RefusedNewRow
    <1>7. CASE CreateKey(s)
        <2>1. /\ server[s].at # "purge" /\ now' = now /\ cache' = cache /\ crossed' = crossed
              /\ \E key \in Creds : NewRow(key, server[s].tenant, script[s[1]].scopes, 0)
            BY <1>7 DEF CreateKey, redis, history, Creds
        <2>2. QED
            BY <1>5, <2>1, RefusedNewRow
    <1>8. CASE \/ Cached(s) \/ Lookup(s) \/ Limit(s) \/ Count(s) \/ SignupCheck(s) \/ SignupInsert(s) \/ Login(s)
               \/ Forbid(s) \/ Facade(s) \/ Act(s) \/ Mark(s) \/ Tell(s) \/ MintTicket(s) \/ Connect(s)
        <2>1. server[s].at # "purge" /\ now' = now /\ credential' = credential /\ cache' = cache /\ crossed' = crossed
            BY <1>8 DEF Cached, Lookup, Limit, Count, SignupCheck, SignupInsert, Login, Forbid, Facade, Act, Mark,
                        Tell, MintTicket, Connect, rows, redis, history
        <2>2. QED
            BY <1>5, <2>1, RefusedQuietly
    <1>9. QED
        BY <1>2, <1>3, <1>4, <1>6, <1>7, <1>8 DEF Serve

LEMMA RefusedFail ==
    ASSUME CallsOK, RefusedOK, NEW s \in Slots, Fail(s)
    PROVE  RefusedOK'
    <1>1. /\ UNCHANGED <<setting, now, credential, cache>>
          /\ crossed' = IF server[s].at = "purge" THEN crossed \cup {Revoked(s)} ELSE crossed
          /\ Answer(s, "error") \/ Go(s, "gone")
        BY DEF Fail, Abandon, rows, redis
    <1>2. server \in [Slots -> Request]
        BY DEF CallsOK, TypeOK
    <1>3. \A t \in Slots : t # s => server'[t] = server[t]
        BY <1>1, <1>2 DEF Answer, Go
    <1>4. \A t \in Slots : Revoked(t)' = Revoked(t)
        BY <1>1 DEF Revoked, OpOf, By, script
    <1>5. \A cred \in Creds : cred \in crossed' \/ (Purging(cred) => Purging(cred)')
        BY <1>1, <1>3, <1>4 DEF Purging
    <1>6. QED
        BY <1>1, <1>5, RefusedQuietly

LEMMA RefusedTick ==
    ASSUME CallsOK, RefusedOK, Tick
    PROVE  RefusedOK'
    <1>1. now' = now + 1 /\ UNCHANGED <<setting, credential, cache, crossed, server>>
        BY DEF Tick, rows, redis
    <1>2. \A t \in Slots : Revoked(t)' = Revoked(t)
        BY <1>1 DEF Revoked, OpOf, By, script
    <1>3. SUFFICES ASSUME NEW cred \in Creds
                   PROVE  CredOK(cred)'
        BY DEF RefusedOK
    <1>4. CredOK(cred) /\ (Purging(cred) => Purging(cred)') /\ now \in Nat /\ cache[cred] \in Nat
        BY <1>1, <1>2, AccessConstants DEF RefusedOK, CallsOK, TypeOK, Purging
    <1>5. CASE credential[cred] = None
        BY <1>1, <1>4, <1>5 DEF CredOK, Refused
    <1>6. CASE credential[cred] # None
        <2>1. PICK row \in Row : row = credential[cred]
            BY <1>6 DEF CallsOK, TypeOK
        <2>2. EndedAt(row) \in Nat /\ EndedAt(row)' \in Nat /\ EndedAt(row) <= EndedAt(row)'
            BY <1>1, <1>4 DEF EndedAt, Row
        <2>3. cache'[cred] > now' => cache[cred] > now
            BY <1>1, <1>4
        <2>4. CacheTtl \in Nat
            BY AccessConstants
        <2>5. QED
            BY <1>1, <1>4, <2>1, <2>2, <2>3, <2>4 DEF CredOK, Refused
    <1>7. QED
        BY <1>5, <1>6

LEMMA RefusedStep ==
    ASSUME CallsOK, RefusedOK, [Next]_vars
    PROVE  RefusedOK'
    <1>1. ASSUME NEW x \in Calls, NEW i \in Attempts, Start(<<x, i>>), server[<<x, i>>].at = "idle",
                 UNCHANGED <<setting, now, window, rows, redis, history>>
          PROVE  RefusedOK'
        <2>1. PICK s : s = <<x, i>>
            OBVIOUS
        <2>2. s \in Slots
            BY <2>1 DEF Slots
        <2>3. server \in [Slots -> Request]
            BY DEF CallsOK, TypeOK
        <2>4. \A t \in Slots : t # s => server'[t] = server[t]
            BY <1>1, <2>1, <2>2, <2>3 DEF Start
        <2>5. \A cred \in Creds : Purging(cred) => Purging(cred)'
            BY <1>1, <2>1, <2>2, <2>4, PurgingStays
        <2>6. UNCHANGED <<now, credential, cache, crossed>>
            BY <1>1 DEF rows, redis, history
        <2>7. QED
            BY <2>5, <2>6, RefusedQuietly
    <1>2. ASSUME NEW x \in Calls, Send(x)
          PROVE  RefusedOK'
        <2>1. 0 \in Attempts /\ server[<<x, 0>>].at = "idle"
            BY <1>2, SendStarts DEF Slots
        <2>2. QED
            BY <1>1, <1>2, <2>1 DEF Send
    <1>3. ASSUME NEW x \in Calls, Resend(x)
          PROVE  RefusedOK'
        <2>1. client[x].attempt + 1 \in Attempts /\ server[<<x, client[x].attempt + 1>>].at = "idle"
            BY <1>3, ResendStarts
        <2>2. QED
            BY <1>1, <1>3, <2>1 DEF Resend
    <1>4. ASSUME UNCHANGED accessVars
          PROVE  RefusedOK'
        <2>1. UNCHANGED <<setting, now, credential, cache, crossed, server>>
            BY <1>4 DEF accessVars, rows, redis, history
        <2>2. \A cred \in Creds : Purging(cred) => Purging(cred)'
            BY <2>1 DEF Purging, Revoked, OpOf, By, script
        <2>3. QED
            BY <2>1, <2>2, RefusedQuietly
    <1>5. ASSUME NEW x \in Calls, Receive(x) \/ Disconnect(x)
          PROVE  RefusedOK'
        BY <1>4, <1>5 DEF Receive, Disconnect
    <1>6. CASE UNCHANGED vars
        BY <1>4, <1>6 DEF vars
    <1>7. QED
        BY <1>2, <1>3, <1>5, <1>6, RefusedServe, RefusedFail, RefusedTick DEF Next

(* A cached verifier does not outlive its credential, revoked or expired,  *)
(* by more than CacheTtl, unless a verification that had read the row      *)
(* cached it later or the revocation died before its purge, for any number *)
(* of requests, servers and revocations at once.                           *)
THEOREM EndedAreRefused == Spec => []EndedIsRefused
    <1>1. Init => CallsOK /\ RefusedOK
        BY InitFits DEF Init, AccessInit, RefusedOK, CredOK, Refused, CallsOK, TypeOK
    <1>2. CallsOK /\ RefusedOK /\ [Next]_vars => (CallsOK /\ RefusedOK)'
        BY CallsStep, RefusedStep
    <1>3. CallsOK /\ RefusedOK => EndedIsRefused
        BY RefusedIs
    <1>4. QED
        BY <1>1, <1>2, <1>3, PTL DEF Spec

-----------------------------------------------------------------------------
(* The gates: accounts, the rate limit, tickets.                           *)

(* The tenants are those of the accounts, each of one account.             *)
OwnersOK ==
    /\ tenants = {users[e] : e \in Emails} \ {None}
    /\ \A e, f \in Emails : users[e] = users[f] => e = f \/ users[e] = None

LEMMA OwnersAreOne ==
    ASSUME OwnersOK
    PROVE  OneAccountPerEmail
    <1>1. SUFFICES ASSUME NEW t \in tenants
                   PROVE  Cardinality({e \in Emails : users[e] = t}) = 1
        BY DEF OneAccountPerEmail
    <1>2. PICK e \in Emails : users[e] = t /\ t # None
        BY DEF OwnersOK
    <1>3. {f \in Emails : users[f] = t} = {e}
        BY <1>2 DEF OwnersOK
    <1>4. QED
        BY <1>3, FS_Singleton

LEMMA OwnersInsert ==
    ASSUME CallsOK, OwnersOK, NEW s \in Slots, SignupInsert(s)
    PROVE  OwnersOK'
    <1>1. By(s) \in Emails
        BY CallerIs DEF SignupInsert, CallsOK, ServedOK, Fits, Suits
    <1>2. CASE ~IsUnique(By(s))
        BY <1>2 DEF SignupInsert, OwnersOK
    <1>3. CASE IsUnique(By(s))
        <2>1. PICK t \in Tenants \ tenants, e \in Emails :
                 /\ e = By(s) /\ users[e] = None
                 /\ tenants' = tenants \cup {t} /\ users' = [users EXCEPT ![e] = t]
            BY <1>1, <1>3 DEF SignupInsert, IsUnique
        <2>2. users \in [Emails -> Tenants \cup {None}] /\ t # None
            BY AccessConstants DEF CallsOK, TypeOK
        <2>3. \A f \in Emails : users'[f] = IF f = e THEN t ELSE users[f]
            BY <2>1, <2>2
        <2>4. \A f \in Emails : users[f] # t
            BY <2>1, <2>2 DEF OwnersOK
        <2>5. tenants' = {users'[f] : f \in Emails} \ {None}
            <3>1. ASSUME NEW u \in tenants'
                  PROVE  u \in {users'[f] : f \in Emails} \ {None}
                <4>1. CASE u = t
                    BY <2>2, <2>3, <4>1
                <4>2. CASE u \in tenants
                    <5>1. PICK f \in Emails : users[f] = u /\ u # None
                        BY <4>2 DEF OwnersOK
                    <5>2. users'[f] = u
                        BY <2>1, <2>3, <5>1
                    <5>3. QED
                        BY <5>1, <5>2
                <4>3. QED
                    BY <2>1, <4>1, <4>2
            <3>2. ASSUME NEW u \in {users'[f] : f \in Emails} \ {None}
                  PROVE  u \in tenants'
                <4>1. PICK f \in Emails : users'[f] = u /\ u # None
                    OBVIOUS
                <4>2. QED
                    BY <2>1, <2>3, <4>1 DEF OwnersOK
            <3>3. QED
                BY <3>1, <3>2
        <2>6. \A f, g \in Emails : users'[f] = users'[g] => f = g \/ users'[f] = None
            BY <2>3, <2>4 DEF OwnersOK
        <2>7. QED
            BY <2>5, <2>6 DEF OwnersOK
    <1>4. QED
        BY <1>2, <1>3

LEMMA OwnersStep ==
    ASSUME CallsOK, OwnersOK, [Next]_vars
    PROVE  OwnersOK'
    <1>1. ASSUME UNCHANGED <<users, tenants>>
          PROVE  OwnersOK'
        BY <1>1 DEF OwnersOK
    <1>2. ASSUME NEW s \in Slots, Serve(s), ~SignupInsert(s)
          PROVE  UNCHANGED <<users, tenants>>
        BY <1>2 DEF Serve, Cached, Lookup, Remember, Limit, Count, SignupCheck, Login, Issue, CreateKey, Revoke,
                    Purge, Forbid, Facade, Act, Mark, Tell, MintTicket, Connect, rows
    <1>3. ASSUME NEW x \in Calls, Send(x) \/ Resend(x) \/ Receive(x) \/ Disconnect(x)
          PROVE  UNCHANGED <<users, tenants>>
        BY <1>3 DEF Send, Resend, Receive, Disconnect, accessVars, rows
    <1>4. ASSUME (\E s \in Slots : Fail(s)) \/ Tick \/ UNCHANGED vars
          PROVE  UNCHANGED <<users, tenants>>
        BY <1>4 DEF Fail, Abandon, Tick, vars, accessVars, rows
    <1>5. QED
        BY <1>1, <1>2, <1>3, <1>4, OwnersInsert DEF Next

(* The window of now lets no more requests through than it counted, nor    *)
(* more than the limit, and nobody has counted in a later one; a ticket    *)
(* that opened a socket is spent, and its request is over.                 *)
TicketOK(s) == opened[s] <= 1 /\ (opened[s] = 1 => tickets[s] = 0 /\ server[s].at = "answered")
WindowOK(b) ==
    /\ passed[b] <= hits[b][now] /\ passed[b] <= RateLimit
    /\ \A w \in 0..MaxTime : w > now => hits[b][w] = 0
CountsOK ==
    /\ \A b \in Tenants \cup {"anon"} : WindowOK(b)
    /\ \A s \in Slots : TicketOK(s) /\ window[s] <= now

LEMMA CountsHold == CallsOK /\ CountsOK => LimitsHold
    BY DEF CallsOK, TypeOK, CountsOK, WindowOK, TicketOK, LimitsHold

LEMMA CountsQuietly ==
    ASSUME CountsOK, UNCHANGED <<now, window, hits, passed, tickets, opened>>,
           \A s \in Slots : server[s].at = "answered" => server'[s].at = "answered"
    PROVE  CountsOK'
    BY DEF CountsOK, WindowOK, TicketOK

LEMMA CountsLimit ==
    ASSUME CallsOK, CountsOK, NEW s \in Slots, Limit(s),
           \A t \in Slots : server[t].at = "answered" => server'[t].at = "answered"
    PROVE  CountsOK'
    <1>1. UNCHANGED <<now, hits, passed, tickets, opened>> /\ window' = [window EXCEPT ![s] = now]
        BY DEF Limit, redis, history
    <1>2. \A t \in Slots : window'[t] <= now
        BY <1>1, AccessConstants DEF CallsOK, TypeOK, CountsOK
    <1>3. \A t \in Slots : TicketOK(t)'
        BY <1>1 DEF CountsOK, TicketOK
    <1>4. \A b \in Tenants \cup {"anon"} : WindowOK(b)'
        BY <1>1 DEF CountsOK, WindowOK
    <1>5. QED
        BY <1>1, <1>2, <1>3, <1>4 DEF CountsOK

LEMMA CountsCount ==
    ASSUME CallsOK, CountsOK, NEW s \in Slots, Count(s),
           \A t \in Slots : server[t].at = "answered" => server'[t].at = "answered"
    PROVE  CountsOK'
    <1>1. UNCHANGED <<now, tickets, opened>> /\ Counted(s)
        BY CountIs DEF Count
    <1>2. PICK b \in Tenants \cup {"anon"}, w \in 0..MaxTime, n \in Nat :
             /\ w = window[s] /\ (n = hits[b][w] \/ w < now)
             /\ hits' = [hits EXCEPT ![b] = [hits[b] EXCEPT ![w] = n + 1]]
             /\ \/ passed' = passed
                \/ n + 1 <= RateLimit /\ w = now /\ passed' = [passed EXCEPT ![b] = @ + 1]
             /\ window' = [window EXCEPT ![s] = 0]
        BY <1>1 DEF Counted
    <1>3. /\ hits \in [Tenants \cup {"anon"} -> [0..MaxTime -> Nat]] /\ passed \in [Tenants \cup {"anon"} -> Nat]
          /\ window \in [Slots -> 0..MaxTime] /\ RateLimit \in Nat /\ now \in 0..MaxTime /\ MaxTime \in Nat
        BY AccessConstants DEF CallsOK, TypeOK
    <1>4. w <= now /\ \A t \in Slots : window'[t] <= now
        BY <1>2, <1>3 DEF CountsOK
    <1>5. /\ \A v \in 0..MaxTime : hits'[b][v] = IF v = w THEN n + 1 ELSE hits[b][v]
          /\ \A c \in Tenants \cup {"anon"} : c # b => hits'[c] = hits[c] /\ passed'[c] = passed[c]
          /\ passed'[b] = passed[b] \/ (passed'[b] = passed[b] + 1 /\ n + 1 <= RateLimit /\ w = now)
        BY <1>2, <1>3
    <1>6. ASSUME NEW c \in Tenants \cup {"anon"}
          PROVE  WindowOK(c)'
        <2>1. WindowOK(c) /\ hits[c][now] \in Nat /\ passed[c] \in Nat
            BY <1>3 DEF CountsOK
        <2>2. CASE c = b
            <3>1. \A v \in 0..MaxTime : v > now => hits'[b][v] = 0
                <4>1. SUFFICES ASSUME NEW v \in 0..MaxTime, v > now
                               PROVE  hits'[b][v] = 0
                    OBVIOUS
                <4>2. v # w
                    BY <1>3, <1>4, <4>1
                <4>3. hits[b][v] = 0
                    BY <2>1, <2>2, <4>1 DEF WindowOK
                <4>4. QED
                    BY <1>5, <4>2, <4>3
            <3>2. passed'[b] <= hits'[b][now] /\ passed'[b] <= RateLimit
                BY <1>2, <1>3, <1>4, <1>5, <2>1, <2>2 DEF WindowOK
            <3>3. QED
                BY <1>1, <2>2, <3>1, <3>2 DEF WindowOK
        <2>3. CASE c # b
            BY <1>1, <1>5, <2>1, <2>3 DEF WindowOK
        <2>4. QED
            BY <2>2, <2>3
    <1>7. \A t \in Slots : TicketOK(t)'
        BY <1>1 DEF CountsOK, TicketOK
    <1>8. QED
        BY <1>1, <1>4, <1>6, <1>7 DEF CountsOK

LEMMA CountsMint ==
    ASSUME CallsOK, CountsOK, NEW s \in Slots, MintTicket(s),
           \A t \in Slots : server[t].at = "answered" => server'[t].at = "answered"
    PROVE  CountsOK'
    <1>1. /\ UNCHANGED <<now, window, hits, passed, opened>> /\ server[s].at = "handle"
          /\ tickets' = [tickets EXCEPT ![s] = now + TicketTtl]
        BY DEF MintTicket, history
    <1>2. tickets \in [Slots -> Nat] /\ opened \in [Slots -> Nat]
        BY DEF CallsOK, TypeOK
    <1>3. ASSUME NEW t \in Slots
          PROVE  TicketOK(t)'
        <2>1. TicketOK(t)
            BY DEF CountsOK
        <2>2. CASE t = s
            BY <1>1, <1>2, <2>1, <2>2 DEF TicketOK
        <2>3. CASE t # s
            BY <1>1, <1>2, <2>1, <2>3 DEF TicketOK
        <2>4. QED
            BY <2>2, <2>3
    <1>4. QED
        BY <1>1, <1>3 DEF CountsOK, WindowOK

LEMMA CountsConnect ==
    ASSUME CallsOK, CountsOK, NEW s \in Slots, Connect(s),
           \A t \in Slots : server[t].at = "answered" => server'[t].at = "answered"
    PROVE  CountsOK'
    <1>1. UNCHANGED <<now, window, hits, passed>>
        BY DEF Connect
    <1>2. PICK t \in Slots :
             /\ server[t].status = "ok" /\ tickets' = [tickets EXCEPT ![t] = 0]
             /\ \/ tickets[t] > now /\ opened' = [opened EXCEPT ![t] = @ + 1]
                \/ opened' = opened
        BY DEF Connect, Spent
    <1>3. /\ tickets \in [Slots -> Nat] /\ opened \in [Slots -> Nat] /\ now \in Nat
          /\ server[t].at = "answered"
        BY <1>2, AccessConstants DEF CallsOK, TypeOK, ServedOK, Fits, Suits, Statuses
    <1>4. ASSUME NEW u \in Slots
          PROVE  TicketOK(u)'
        <2>1. TicketOK(u) /\ TicketOK(t)
            BY DEF CountsOK
        <2>2. CASE u = t
            <3>1. opened'[t] <= 1
                BY <1>2, <1>3, <2>1 DEF TicketOK
            <3>2. QED
                BY <1>2, <1>3, <2>2, <3>1 DEF TicketOK
        <2>3. CASE u # t
            BY <1>2, <1>3, <2>1, <2>3 DEF TicketOK
        <2>4. QED
            BY <2>2, <2>3
    <1>5. QED
        BY <1>1, <1>4 DEF CountsOK, WindowOK

LEMMA CountsStep ==
    ASSUME CallsOK, CountsOK, [Next]_vars
    PROVE  CountsOK'
    <1>1. server \in [Slots -> Request]
        BY DEF CallsOK, TypeOK
    <1>2. ASSUME NEW s \in Slots, Serve(s)
          PROVE  CountsOK'
        <2>1. server[s].at # "answered" /\ Moved(s)
            BY <1>2, ServeMoved DEF Serving
        <2>2. \A t \in Slots : server[t].at = "answered" => server'[t].at = "answered"
            BY <1>1, <2>1 DEF Moved
        <2>3. CASE Limit(s) \/ Count(s) \/ MintTicket(s) \/ Connect(s)
            BY <2>2, <2>3, CountsLimit, CountsCount, CountsMint, CountsConnect
        <2>4. CASE ~(Limit(s) \/ Count(s) \/ MintTicket(s) \/ Connect(s))
            <3>1. UNCHANGED <<now, window, hits, passed, tickets, opened>>
                BY <1>2, <2>4 DEF Serve, Cached, Lookup, Remember, SignupCheck, SignupInsert, Login, Issue, CreateKey,
                                  Revoke, Purge, Forbid, Facade, Act, Mark, Tell, redis, history
            <3>2. QED
                BY <2>2, <3>1, CountsQuietly
        <2>5. QED
            BY <2>3, <2>4
    <1>3. ASSUME NEW s \in Slots, Fail(s)
          PROVE  CountsOK'
        <2>1. /\ server[s].at \in Serving /\ (Answer(s, "error") \/ Go(s, "gone"))
              /\ UNCHANGED <<now, window, hits, passed, tickets, opened>>
            BY <1>3 DEF Fail, Abandon, redis
        <2>2. \A t \in Slots : server[t].at = "answered" => server'[t].at = "answered"
            BY <1>1, <2>1 DEF Answer, Go, Serving
        <2>3. QED
            BY <2>1, <2>2, CountsQuietly
    <1>4. ASSUME NEW x \in Calls, NEW i \in Attempts, Start(<<x, i>>), server[<<x, i>>].at = "idle",
                 UNCHANGED <<setting, now, window, rows, redis, history>>
          PROVE  CountsOK'
        <2>1. PICK s : s = <<x, i>>
            OBVIOUS
        <2>2. \A t \in Slots : t # s => server'[t] = server[t]
            BY <1>1, <1>4, <2>1 DEF Start
        <2>3. QED
            BY <1>4, <2>1, <2>2, CountsQuietly DEF redis, history
    <1>5. ASSUME NEW x \in Calls, Send(x)
          PROVE  CountsOK'
        <2>1. 0 \in Attempts /\ server[<<x, 0>>].at = "idle"
            BY <1>5, SendStarts DEF Slots
        <2>2. QED
            BY <1>4, <1>5, <2>1 DEF Send
    <1>6. ASSUME NEW x \in Calls, Resend(x)
          PROVE  CountsOK'
        <2>1. client[x].attempt + 1 \in Attempts /\ server[<<x, client[x].attempt + 1>>].at = "idle"
            BY <1>6, ResendStarts
        <2>2. QED
            BY <1>4, <1>6, <2>1 DEF Resend
    <1>7. ASSUME UNCHANGED accessVars
          PROVE  CountsOK'
        BY <1>7, CountsQuietly DEF accessVars, redis, history
    <1>8. ASSUME NEW x \in Calls, Receive(x) \/ Disconnect(x)
          PROVE  CountsOK'
        BY <1>7, <1>8 DEF Receive, Disconnect
    <1>9. ASSUME Tick
          PROVE  CountsOK'
        <2>1. /\ \A b \in Tenants \cup {"anon"} : passed'[b] = 0
              /\ now \in 0..MaxTime /\ now < MaxTime /\ now' = now + 1 /\ MaxTime \in Nat /\ RateLimit \in Nat
            BY <1>9, AccessConstants DEF Tick, CallsOK, TypeOK
        <2>2. UNCHANGED <<window, hits, tickets, opened, server>>
            BY <1>9 DEF Tick, redis
        <2>3. ASSUME NEW b \in Tenants \cup {"anon"}
              PROVE  WindowOK(b)'
            <3>1. WindowOK(b)
                BY DEF CountsOK
            <3>2. hits[b][now + 1] = 0 /\ \A w \in 0..MaxTime : w > now + 1 => hits[b][w] = 0
                BY <2>1, <3>1 DEF WindowOK
            <3>3. QED
                BY <2>1, <2>2, <3>2 DEF WindowOK
        <2>4. ASSUME NEW s \in Slots
              PROVE  TicketOK(s)' /\ window'[s] <= now'
            <3>1. TicketOK(s) /\ window[s] <= now /\ window[s] \in 0..MaxTime
                BY DEF CountsOK, CallsOK, TypeOK
            <3>2. window[s] <= now + 1
                BY <2>1, <3>1
            <3>3. QED
                BY <2>1, <2>2, <3>1, <3>2 DEF TicketOK
        <2>5. QED
            BY <2>3, <2>4 DEF CountsOK
    <1>10. CASE UNCHANGED vars
        BY <1>7, <1>10 DEF vars
    <1>11. QED
        BY <1>2, <1>3, <1>5, <1>6, <1>8, <1>9, <1>10 DEF Next

LEMMA GatesInit == Init => OwnersOK /\ CountsOK
    <1>1. SUFFICES ASSUME Init
                   PROVE  OwnersOK /\ CountsOK
        OBVIOUS
    <1>2. setting \in Settings /\ users = setting.users
          /\ tenants = {setting.users[e] : e \in Emails} \ {None}
        BY <1>1 DEF Init, AccessInit
    <1>3. OwnersOK
        BY <1>2, AccessConstants DEF OwnersOK
    <1>4. CountsOK
        BY <1>1, AccessConstants DEF Init, AccessInit, CountsOK, WindowOK, TicketOK
    <1>5. QED
        BY <1>3, <1>4

(* Signups of one email make one account with a tenant of its own, of the  *)
(* requests of the present window no more than the limit are let through,  *)
(* and a ticket opens one socket, for any number of concurrent requests,   *)
(* accounts and servers.                                                   *)
THEOREM GatesAreKept == Spec => []GatesHold
    <1>1. Init => CallsOK /\ OwnersOK /\ CountsOK
        BY InitFits, GatesInit
    <1>2. CallsOK /\ OwnersOK /\ CountsOK /\ [Next]_vars => (CallsOK /\ OwnersOK /\ CountsOK)'
        BY CallsStep, OwnersStep, CountsStep
    <1>3. CallsOK /\ OwnersOK /\ CountsOK => GatesHold
        BY OwnersAreOne, CountsHold DEF GatesHold
    <1>4. QED
        BY <1>1, <1>2, <1>3, PTL DEF Spec

-----------------------------------------------------------------------------
(* What took effect, and what is answered.                                 *)

(* The operations AppliedAsAnswered is about; a request that has taken     *)
(* effect or was answered as if it had; the attempts of a call that may    *)
(* still take effect.                                                      *)
Effects    == ByOperation \cup Repeated \cup Checked
Over       == {"mark", "tell", "answered", "gone"}
Done(s)    == server[s].at \in {"mark", "tell"} \/ server[s].status = "ok"
Unspent(x) == {i \in 0..client[x].attempt : server[<<x, i>>].at \notin Over}
Matters(x) == script[x] # None /\ script[x].op \in Effects

(* A write has taken effect if the store knows its operationId; any other  *)
(* call as often, with what may still come, as it was sent, and what looks *)
(* done has been done.                                                     *)
CountOK(x) ==
    Matters(x) =>
        /\ client[x].at = "done" => applied[x] >= 1
        /\ script[x].op \in ByOperation => applied[x] = IF <<x, 0>> \in operations THEN 1 ELSE 0
        /\ script[x].op \notin ByOperation => applied[x] + Cardinality(Unspent(x)) <= client[x].attempt + 1
        /\ script[x].op \in Checked /\ <<x, 0>> \in operations => applied[x] >= 1
DoneOK(s)  == Matters(s[1]) /\ Done(s) => applied[s[1]] >= 1
AppliedOK  == (\A x \in Calls : CountOK(x)) /\ (\A s \in Slots : DoneOK(s))

LEMMA UnspentFinite ==
    ASSUME CallsOK, NEW x \in Calls
    PROVE  IsFiniteSet(Unspent(x)) /\ Cardinality(Unspent(x)) \in Nat
    <1>1. client[x].attempt \in Int
        BY AccessConstants DEF CallsOK, TypeOK, Client, Attempts
    <1>2. IsFiniteSet(0..client[x].attempt)
        BY <1>1, FS_Interval
    <1>3. IsFiniteSet(Unspent(x))
        BY <1>2, FS_Subset DEF Unspent
    <1>4. QED
        BY <1>3, FS_CardinalityType

LEMMA AppliedIs == CallsOK /\ AppliedOK => AppliedAsAnswered
    <1>1. SUFFICES ASSUME CallsOK, AppliedOK, NEW x \in Calls, Matters(x)
                   PROVE  /\ client[x].at = "done" => applied[x] >= 1
                          /\ applied[x] <= IF script[x].op \in ByOperation THEN 1 ELSE client[x].attempt + 1
        BY DEF AppliedAsAnswered, Matters, Effects
    <1>2. CountOK(x) /\ Cardinality(Unspent(x)) \in Nat /\ applied[x] \in Nat /\ client[x].attempt \in Nat
        BY <1>1, UnspentFinite, AccessConstants DEF AppliedOK, CallsOK, TypeOK, Client, Attempts
    <1>3. QED
        BY <1>1, <1>2 DEF CountOK

(* A call of which nothing took effect, and nothing came back that may.    *)
LEMMA CountKept ==
    ASSUME CallsOK, NEW x \in Calls, CountOK(x), setting' = setting, applied'[x] = applied[x],
           <<x, 0>> \in operations' <=> <<x, 0>> \in operations,
           client'[x].attempt = client[x].attempt,
           client'[x].at = "done" => client[x].at = "done" \/ ~Matters(x) \/ applied[x] >= 1,
           Unspent(x)' \subseteq Unspent(x)
    PROVE  CountOK(x)'
    <1>1. IsFiniteSet(Unspent(x)) /\ Cardinality(Unspent(x)) \in Nat
        BY UnspentFinite
    <1>2. Cardinality(Unspent(x)') \in Nat /\ Cardinality(Unspent(x)') <= Cardinality(Unspent(x))
        BY <1>1, FS_Subset, FS_CardinalityType
    <1>3. applied[x] \in Nat /\ client[x].attempt \in Nat
        BY AccessConstants DEF CallsOK, TypeOK, Client, Attempts
    <1>4. script' = script /\ (Matters(x)' <=> Matters(x))
        BY DEF script, Matters
    <1>5. QED
        BY <1>1, <1>2, <1>3, <1>4 DEF CountOK

LEMMA SpentStays ==
    ASSUME CallsOK, NEW x \in Calls, client'[x].attempt = client[x].attempt,
           \A t \in Slots : t[1] = x /\ server[t].at \in Over => server'[t].at \in Over
    PROVE  Unspent(x)' \subseteq Unspent(x)
    <1>1. ASSUME NEW i \in 0..client[x].attempt, server[<<x, i>>].at \in Over
          PROVE  server'[<<x, i>>].at \in Over
        <2>1. i \in Attempts
            BY <1>1, AccessConstants DEF CallsOK, TypeOK, Client, Attempts
        <2>2. PICK t : t = <<x, i>>
            OBVIOUS
        <2>3. t \in Slots /\ t[1] = x
            BY <2>1, <2>2 DEF Slots
        <2>4. QED
            BY <1>1, <2>2, <2>3
    <1>2. QED
        BY <1>1 DEF Unspent, Over

(* A step that makes nothing take effect and answers nothing anew.         *)
LEMMA AppliedQuietly ==
    ASSUME CallsOK, AppliedOK, setting' = setting, client' = client, operations' = operations,
           \A x \in Calls : Matters(x) => applied'[x] = applied[x],
           \A t \in Slots : server[t].at \in Over => server'[t].at \in Over,
           \A t \in Slots : Matters(t[1]) /\ Done(t)' => Done(t)
    PROVE  AppliedOK'
    <1>1. \A x \in Calls : Matters(x)' <=> Matters(x)
        BY DEF Matters, script
    <1>2. ASSUME NEW x \in Calls
          PROVE  CountOK(x)'
        <2>1. CASE ~Matters(x)
            BY <1>1, <2>1 DEF CountOK
        <2>2. CASE Matters(x)
            <3>1. CountOK(x) /\ Unspent(x)' \subseteq Unspent(x)
                BY SpentStays DEF AppliedOK
            <3>2. QED
                BY <2>2, <3>1, CountKept
        <2>3. QED
            BY <2>1, <2>2
    <1>3. ASSUME NEW t \in Slots
          PROVE  DoneOK(t)'
        <2>1. DoneOK(t) /\ t[1] \in Calls
            BY DEF AppliedOK, Slots
        <2>2. QED
            BY <1>1, <2>1 DEF DoneOK
    <1>4. QED
        BY <1>2, <1>3 DEF AppliedOK

(* A step of one request alone: the other requests, and what the other     *)
(* calls did, stay as they are.                                            *)
Alone(s) ==
    /\ setting' = setting /\ client' = client
    /\ \A t \in Slots : t # s => server'[t] = server[t]
    /\ \A y \in Calls : y # s[1] =>
          applied'[y] = applied[y] /\ (<<y, 0>> \in operations' <=> <<y, 0>> \in operations)

LEMMA ActsAlone ==
    ASSUME CallsOK, NEW s \in Slots, Facade(s) \/ Act(s) \/ Mark(s), client' = client
    PROVE  Alone(s)
    <1>1. setting' = setting
        BY DEF Facade, Act, Mark
    <1>2. Moved(s)
        BY ServeMoved DEF Serve
    <1>3. \A t \in Slots : t # s => server'[t] = server[t]
        BY <1>2 DEF Moved, CallsOK, TypeOK
    <1>4. applied' = applied \/ Effect(s)
        BY DEF Facade, Act, Mark, Replay, Repeat, Look, history
    <1>5. \A y \in Calls : y # s[1] => applied'[y] = applied[y]
        BY <1>4 DEF Effect, CallsOK, TypeOK
    <1>6. operations' = operations \/ operations' = operations \cup {<<s[1], 0>>}
        BY DEF Facade, Act, Mark, Replay, Repeat, Look, OperationId, Target
    <1>7. \A y \in Calls : y # s[1] => (<<y, 0>> \in operations' <=> <<y, 0>> \in operations)
        BY <1>6
    <1>8. QED
        BY <1>1, <1>3, <1>5, <1>7 DEF Alone

(* What a call has done, and what is known of it, in numbers.              *)
LEMMA AppliedNats ==
    ASSUME CallsOK, NEW x \in Calls
    PROVE  /\ applied \in [Calls -> Nat] /\ applied[x] \in Nat /\ client[x].attempt \in Nat
           /\ server \in [Slots -> Request]
    BY AccessConstants DEF CallsOK, TypeOK, Client, Attempts

(* It is enough to look at its own call, and at itself.                    *)
LEMMA AppliedAlone ==
    ASSUME CallsOK, AppliedOK, NEW s \in Slots, NEW x \in Calls, x = s[1], Alone(s),
           CountOK(x)', DoneOK(s)', applied'[x] \in Nat, Matters(x) => applied'[x] >= applied[x]
    PROVE  AppliedOK'
    <1>1. \A y \in Calls : (Matters(y)' <=> Matters(y)) /\ applied[y] \in Nat
        BY DEF Alone, Matters, script, CallsOK, TypeOK
    <1>2. ASSUME NEW y \in Calls, y # x
          PROVE  CountOK(y)'
        <2>1. \A t \in Slots : t[1] = y /\ server[t].at \in Over => server'[t].at \in Over
            BY <1>2 DEF Alone
        <2>2. Unspent(y)' \subseteq Unspent(y) /\ CountOK(y)
            BY <2>1, SpentStays DEF AppliedOK, Alone
        <2>3. QED
            BY <1>2, <2>2, CountKept DEF Alone
    <1>3. ASSUME NEW t \in Slots, t # s
          PROVE  DoneOK(t)'
        <2>1. DoneOK(t) /\ t[1] \in Calls /\ server'[t] = server[t]
            BY <1>3 DEF AppliedOK, Slots, Alone
        <2>2. PICK y \in Calls : y = t[1]
            BY <2>1
        <2>3. applied[y] \in Nat /\ applied'[y] \in Nat /\ (Matters(y) => applied'[y] >= applied[y])
            <3>1. CASE y = x
                BY <1>1, <3>1
            <3>2. CASE y # x
                <4>1. applied'[y] = applied[y] /\ applied[y] \in Nat
                    BY <1>1, <3>2 DEF Alone
                <4>2. QED
                    BY <4>1
            <3>3. QED
                BY <3>1, <3>2
        <2>4. (Matters(y)' <=> Matters(y)) /\ (Done(t)' <=> Done(t))
            BY <1>1, <2>1 DEF Done
        <2>5. Matters(y) /\ Done(t) => applied[y] >= 1
            BY <2>1, <2>2 DEF DoneOK
        <2>6. Matters(y)' /\ Done(t)' => applied'[y] >= 1
            BY <2>3, <2>4, <2>5
        <2>7. QED
            BY <2>2, <2>6 DEF DoneOK
    <1>4. QED
        BY <1>2, <1>3 DEF AppliedOK

(* A call that nothing is said of.                                         *)
LEMMA AppliedOther ==
    ASSUME CallsOK, AppliedOK, NEW s \in Slots, NEW x \in Calls, x = s[1], Alone(s), ~Matters(x),
           applied' = applied \/ Effect(s)
    PROVE  AppliedOK'
    <1>1. ~Matters(x)'
        BY DEF Alone, Matters, script
    <1>2. CountOK(x)' /\ DoneOK(s)'
        BY <1>1 DEF CountOK, DoneOK
    <1>3. applied'[x] \in Nat
        BY AppliedNats DEF Effect
    <1>4. QED
        BY <1>1, <1>2, <1>3, AppliedAlone DEF Alone, Matters, script

(* The attempt that takes effect is not to take effect again.              *)
LEMMA SpentOne ==
    ASSUME CallsOK, NEW s \in Slots, NEW x \in Calls, x = s[1], Alone(s),
           server[s].at \notin Over \cup {"idle"}, server'[s].at \in Over
    PROVE  /\ Cardinality(Unspent(x)) \in Nat /\ Cardinality(Unspent(x)') \in Nat
           /\ Cardinality(Unspent(x)') + 1 <= Cardinality(Unspent(x))
    <1>1. s = <<x, s[2]>> /\ s[2] \in Attempts
        BY DEF Slots
    <1>2. client[x].attempt \in Nat /\ s[2] \in 0..client[x].attempt
        <2>1. Fits(s) /\ client[x] \in Client
            BY DEF CallsOK, ServedOK, TypeOK
        <2>2. QED
            BY <1>1, <2>1, AccessConstants DEF Fits, Client, Attempts
    <1>3. s[2] \in Unspent(x)
        BY <1>1, <1>2 DEF Unspent
    <1>4. Unspent(x)' \subseteq Unspent(x)
        <2>1. \A t \in Slots : t[1] = x /\ server[t].at \in Over => server'[t].at \in Over
            BY DEF Alone
        <2>2. QED
            BY <2>1, SpentStays DEF Alone
    <1>5. s[2] \notin Unspent(x)'
        BY <1>1 DEF Unspent, Over
    <1>6. Unspent(x)' \subseteq Unspent(x) \ {s[2]}
        BY <1>4, <1>5
    <1>7. IsFiniteSet(Unspent(x)) /\ Cardinality(Unspent(x)) \in Nat
        BY UnspentFinite
    <1>8. IsFiniteSet(Unspent(x) \ {s[2]}) /\ Cardinality(Unspent(x) \ {s[2]}) = Cardinality(Unspent(x)) - 1
        BY <1>3, <1>7, FS_RemoveElement
    <1>9. Cardinality(Unspent(x)') <= Cardinality(Unspent(x)) - 1 /\ Cardinality(Unspent(x)') \in Nat
        BY <1>6, <1>8, FS_Subset, FS_CardinalityType
    <1>10. QED
        BY <1>7, <1>9

(* The store takes a write the first time and replays it ever after.       *)
LEMMA AppliedReplay ==
    ASSUME CallsOK, AppliedOK, NEW s \in Slots, NEW x \in Calls, x = s[1], Alone(s), Replay(s), Matters(x)
    PROVE  AppliedOK'
    <1>1. /\ script[x].op \in ByOperation /\ script[x].op \notin Checked /\ operations' = operations \cup {<<x, 0>>}
          /\ CountOK(x)
        BY OpsActed DEF Replay, OpOf, OperationId, AppliedOK
    <1>2. applied'[x] = 1 /\ applied'[x] >= applied[x]
        <2>1. CASE <<x, 0>> \in operations
            BY <1>1, <2>1 DEF CountOK, Replay, OperationId
        <2>2. CASE <<x, 0>> \notin operations
            <3>1. applied[x] = 0
                BY <1>1, <2>2 DEF CountOK
            <3>2. applied' = [applied EXCEPT ![x] = @ + 1]
                BY <2>2 DEF Replay, OperationId, Effect
            <3>3. QED
                BY <3>1, <3>2, AppliedNats
        <2>3. QED
            BY <2>1, <2>2
    <1>3. script' = script
        BY DEF Alone, script
    <1>4. CountOK(x)' /\ DoneOK(s)'
        BY <1>1, <1>2, <1>3 DEF CountOK, DoneOK
    <1>5. QED
        BY <1>2, <1>4, AppliedAlone

(* A request takes effect, whatever the other attempts did.                *)
LEMMA AppliedAgain ==
    ASSUME CallsOK, AppliedOK, NEW s \in Slots, NEW x \in Calls, x = s[1], Alone(s), Matters(x), Effect(s),
           script[x].op \notin ByOperation,
           server[s].at \notin Over \cup {"idle"}, server'[s].at \in Over
    PROVE  AppliedOK'
    <1>1. CountOK(x) /\ applied[x] \in Nat /\ client[x].attempt \in Nat /\ applied'[x] = applied[x] + 1
        BY AppliedNats DEF AppliedOK, Effect
    <1>2. /\ Cardinality(Unspent(x)) \in Nat /\ Cardinality(Unspent(x)') \in Nat
          /\ Cardinality(Unspent(x)') + 1 <= Cardinality(Unspent(x))
        BY SpentOne
    <1>3. applied[x] + Cardinality(Unspent(x)) <= client[x].attempt + 1
        BY <1>1 DEF CountOK
    <1>4. applied'[x] + Cardinality(Unspent(x)') <= client[x].attempt + 1
        BY <1>1, <1>2, <1>3
    <1>5. applied'[x] \in Nat /\ applied'[x] >= 1 /\ applied'[x] >= applied[x]
        BY <1>1
    <1>6. script' = script /\ client' = client
        BY DEF Alone, script
    <1>7. CountOK(x)' /\ DoneOK(s)'
        BY <1>4, <1>5, <1>6 DEF CountOK, DoneOK
    <1>8. QED
        BY <1>5, <1>7, AppliedAlone

(* A look, or a mark: what is answered as done, or marked, has been done.  *)
LEMMA AppliedSeen ==
    ASSUME CallsOK, AppliedOK, NEW s \in Slots, NEW x \in Calls, x = s[1], Alone(s), Matters(x),
           script[x].op \in Checked, applied' = applied,
           operations' = operations \/ applied[x] >= 1,
           Done(s)' => applied[x] >= 1,
           server[s].at \in Over => server'[s].at \in Over
    PROVE  AppliedOK'
    <1>1. CountOK(x) /\ applied[x] \in Nat /\ client[x].attempt \in Nat /\ script[x].op \notin ByOperation
        BY AppliedNats, OpsActed DEF AppliedOK
    <1>2. Unspent(x)' \subseteq Unspent(x)
        <2>1. \A t \in Slots : t[1] = x /\ server[t].at \in Over => server'[t].at \in Over
            BY DEF Alone
        <2>2. QED
            BY <2>1, SpentStays DEF Alone
    <1>3. IsFiniteSet(Unspent(x)) /\ Cardinality(Unspent(x)) \in Nat
        BY UnspentFinite
    <1>4. Cardinality(Unspent(x)') \in Nat /\ Cardinality(Unspent(x)') <= Cardinality(Unspent(x))
        BY <1>2, <1>3, FS_Subset, FS_CardinalityType
    <1>5. applied[x] + Cardinality(Unspent(x)) <= client[x].attempt + 1
        BY <1>1 DEF CountOK
    <1>6. applied'[x] + Cardinality(Unspent(x)') <= client[x].attempt + 1
        BY <1>1, <1>3, <1>4, <1>5
    <1>7. <<x, 0>> \in operations' => applied'[x] >= 1
        BY <1>1 DEF CountOK
    <1>8. script' = script /\ client' = client
        BY DEF Alone, script
    <1>9. CountOK(x)'
        BY <1>1, <1>6, <1>7, <1>8 DEF CountOK
    <1>10. DoneOK(s)'
        BY DEF DoneOK
    <1>11. QED
        BY <1>1, <1>9, <1>10, AppliedAlone

(* Steps after which a request is neither told of nor answered "ok".       *)
LEMMA NotDone ==
    ASSUME CallsOK, NEW s \in Slots, server[s].at # "answered",
           \/ \E at : Go(s, at) /\ at \notin {"mark", "tell"}
           \/ \E status : Answer(s, status) /\ status # "ok"
           \/ \E tenant : Authenticated(s, tenant)
           \/ \E tenant : server' = [server EXCEPT ![s].tenant = tenant, ![s].at = "issue"]
    PROVE  ~Done(s)'
    <1>1. server \in [Slots -> Request] /\ server[s].status = None
        BY DEF CallsOK, TypeOK, ServedOK, Fits, Suits
    <1>2. ASSUME NEW at, Go(s, at), at \notin {"mark", "tell"}
          PROVE  ~Done(s)'
        <2>1. Becomes(s, at, server[s].tenant, None)
            BY <1>1, <1>2, GoIs
        <2>2. QED
            BY <1>2, <2>1, AccessConstants DEF Becomes, Done, Statuses
    <1>3. ASSUME NEW status, Answer(s, status), status # "ok"
          PROVE  ~Done(s)'
        <2>1. Becomes(s, "answered", server[s].tenant, status)
            BY <1>1, <1>3, AnswerIs
        <2>2. QED
            BY <1>3, <2>1 DEF Becomes, Done
    <1>4. ASSUME NEW tenant, Authenticated(s, tenant)
          PROVE  ~Done(s)'
        <2>1. PICK at \in {"limit", "handle"} : Becomes(s, at, tenant, None)
            BY <1>1, <1>4, AuthenticatedIs
        <2>2. QED
            BY <2>1, AccessConstants DEF Becomes, Done, Statuses
    <1>5. ASSUME NEW tenant, server' = [server EXCEPT ![s].tenant = tenant, ![s].at = "issue"]
          PROVE  ~Done(s)'
        <2>1. Becomes(s, "issue", tenant, None)
            BY <1>1, <1>5, IdentifiedIs
        <2>2. QED
            BY <2>1, AccessConstants DEF Becomes, Done, Statuses
    <1>6. QED
        BY <1>2, <1>3, <1>4, <1>5

(* The stage a request is at after it went on.                             *)
LEMMA WentTo ==
    ASSUME CallsOK, NEW s \in Slots, NEW at, Go(s, at)
    PROVE  server'[s].at = at
    <1>1. Becomes(s, at, server[s].tenant, server[s].status)
        BY GoIs DEF CallsOK, TypeOK
    <1>2. QED
        BY <1>1 DEF Becomes

LEMMA AppliedFacade ==
    ASSUME CallsOK, AppliedOK, NEW s \in Slots, Facade(s), client' = client
    PROVE  AppliedOK'
    <1>1. PICK x \in Calls : x = s[1]
        BY DEF Slots
    <1>2. Alone(s) /\ server[s].at = "handle"
        BY ActsAlone DEF Facade
    <1>3. CASE ~Matters(x)
        <2>1. applied' = applied \/ Effect(s)
            BY DEF Facade, Replay, Repeat, Look
        <2>2. QED
            BY <1>1, <1>2, <1>3, <2>1, AppliedOther
    <1>4. CASE Matters(x) /\ Replay(s)
        BY <1>1, <1>2, <1>4, AppliedReplay
    <1>5. CASE Matters(x) /\ Repeat(s)
        <2>1. Effect(s) /\ server'[s].at = "tell" /\ script[x].op \in Repeated
            BY <1>1, <1>5, WentTo DEF Repeat, OpOf
        <2>2. script[x].op \notin ByOperation
            BY <2>1, OpsActed
        <2>3. server[s].at \notin Over \cup {"idle"} /\ server'[s].at \in Over
            BY <1>2, <2>1 DEF Over
        <2>4. QED
            BY <1>1, <1>2, <1>5, <2>1, <2>2, <2>3, AppliedAgain
    <1>6. CASE Matters(x) /\ Look(s)
        <2>1. script[x].op \in Checked /\ applied' = applied /\ operations' = operations
            BY <1>1, <1>6 DEF Look, OpOf
        <2>2. ASSUME Done(s)'
              PROVE  applied[x] >= 1
            <3>1. CASE <<x, 0>> \in operations
                BY <1>6, <2>1, <3>1 DEF AppliedOK, CountOK
            <3>2. CASE <<x, 0>> \notin operations
                <4>1. Go(s, "act")
                    BY <1>1, <1>6, <3>2 DEF Look, Target
                <4>2. ~Done(s)'
                    BY <1>2, <4>1, NotDone
                <4>3. QED
                    BY <2>2, <4>2
            <3>3. QED
                BY <3>1, <3>2
        <2>3. server[s].at \notin Over
            BY <1>2 DEF Over
        <2>4. QED
            BY <1>1, <1>2, <1>6, <2>1, <2>2, <2>3, AppliedSeen
    <1>7. CASE Matters(x) /\ OpOf(s) \in Reading
        <2>1. script[x].op \in Reading /\ script[x].op \in Effects
            BY <1>1, <1>7 DEF Matters, OpOf
        <2>2. QED
            BY <2>1, OpsActed DEF Effects
    <1>8. QED
        BY <1>3, <1>4, <1>5, <1>6, <1>7 DEF Facade

(* An act of what looked undone: its effect is one more, though another    *)
(* attempt may have acted since.                                           *)
LEMMA AppliedAct ==
    ASSUME CallsOK, AppliedOK, NEW s \in Slots, Act(s), client' = client
    PROVE  AppliedOK'
    <1>1. PICK x \in Calls : x = s[1]
        BY DEF Slots
    <1>2. Alone(s) /\ server[s].at = "act" /\ Effect(s)
        BY ActsAlone DEF Act
    <1>3. CASE ~Matters(x)
        BY <1>1, <1>2, <1>3, AppliedOther
    <1>4. CASE Matters(x)
        <2>1. script[x].op \in Checked
            BY <1>1, <1>2 DEF CallsOK, ServedOK, Fits, Suits, OpOf
        <2>2. script[x].op \notin ByOperation
            BY <2>1, OpsActed
        <2>3. server'[s].at \in {"mark", "tell"}
            BY WentTo DEF Act
        <2>4. server[s].at \notin Over \cup {"idle"} /\ server'[s].at \in Over
            BY <1>2, <2>3 DEF Over
        <2>5. QED
            BY <1>1, <1>2, <1>4, <2>2, <2>4, AppliedAgain
    <1>5. QED
        BY <1>3, <1>4

LEMMA AppliedMark ==
    ASSUME CallsOK, AppliedOK, NEW s \in Slots, Mark(s), client' = client
    PROVE  AppliedOK'
    <1>1. PICK x \in Calls : x = s[1]
        BY DEF Slots
    <1>2. Alone(s) /\ server[s].at = "mark" /\ applied' = applied
        BY ActsAlone DEF Mark, history
    <1>3. CASE ~Matters(x)
        BY <1>1, <1>2, <1>3, AppliedOther
    <1>4. CASE Matters(x)
        <2>1. script[x].op \in Checked
            BY <1>1, <1>2 DEF CallsOK, ServedOK, Fits, Suits, OpOf
        <2>2. applied[x] >= 1
            BY <1>1, <1>2, <1>4 DEF AppliedOK, DoneOK, Done
        <2>3. server'[s].at \in Over
            BY WentTo DEF Mark, Over
        <2>4. QED
            BY <1>1, <1>2, <1>4, <2>1, <2>2, <2>3, AppliedSeen
    <1>5. QED
        BY <1>3, <1>4

(* The operations of accounts, tickets and sockets take no such effect.    *)
LEMMA EffectsAre ==
    ASSUME NEW op \in Effects
    PROVE  op \in AgentOps /\ op \notin Public \cup {"ticket", "connect", "logout", "revokeKey", "createKey", "signup", "login"}
    BY OpsActed DEF Effects

LEMMA AppliedServe ==
    ASSUME CallsOK, AppliedOK, NEW s \in Slots, Serve(s), client' = client
    PROVE  AppliedOK'
    <1>1. CASE Facade(s) \/ Act(s) \/ Mark(s)
        BY <1>1, AppliedFacade, AppliedAct, AppliedMark
    <1>2. CASE ~(Facade(s) \/ Act(s) \/ Mark(s))
        <2>1. server[s].at \in Serving /\ Moved(s) /\ setting' = setting
            BY ServeMoved, ServeTyped
        <2>2. \A t \in Slots : t # s => server'[t] = server[t]
            BY <2>1 DEF Moved, CallsOK, TypeOK
        <2>3. operations' = operations
            BY <1>2 DEF Serve, Cached, Lookup, Remember, Limit, Count, SignupCheck, SignupInsert, Login, Issue,
                        CreateKey, Revoke, Purge, Forbid, Tell, MintTicket, Connect, redis
        <2>4. ~SignupInsert(s) => applied' = applied
            BY <1>2 DEF Serve, Cached, Lookup, Remember, Limit, Count, SignupCheck, Login, Issue, CreateKey,
                        Revoke, Purge, Forbid, Tell, MintTicket, Connect, history
        <2>5. OpOf(s) \in Effects => OpOf(s) \in AgentOps /\ OpOf(s) \notin Public \cup {"ticket", "connect", "logout",
                                        "revokeKey", "createKey", "signup", "login"}
            BY EffectsAre
        <2>6. ASSUME NEW x \in Calls, Matters(x)
              PROVE  applied'[x] = applied[x]
            <3>1. CASE ~SignupInsert(s)
                BY <2>4, <3>1
            <3>2. CASE SignupInsert(s)
                <4>1. OpOf(s) \in Public /\ s[1] \in Calls
                    BY <3>2 DEF SignupInsert, CallsOK, ServedOK, Fits, Suits, Slots
                <4>2. x # s[1]
                    BY <2>5, <2>6, <4>1 DEF Matters, OpOf
                <4>3. QED
                    BY <3>2, <4>1, <4>2 DEF SignupInsert, CallsOK, TypeOK
            <3>3. QED
                BY <3>1, <3>2
        <2>7. Tell(s) => server'[s].at = "answered"
            <3>1. ASSUME Tell(s)
                  PROVE  server'[s].at = "answered"
                <4>1. Becomes(s, "answered", server[s].tenant, "ok")
                    BY <3>1, AnswerIs DEF Tell, CallsOK, TypeOK
                <4>2. QED
                    BY <4>1 DEF Becomes
            <3>2. QED
                BY <3>1
        <2>8. server[s].at \in Over => Tell(s)
            BY <1>2, <2>1 DEF Over, Serving, Serve, Cached, Lookup, Remember, Limit, Count, SignupCheck, SignupInsert,
                              Login, Issue, CreateKey, Revoke, Purge, Forbid, MintTicket, Connect
        <2>9. \A t \in Slots : server[t].at \in Over => server'[t].at \in Over
            BY <2>2, <2>7, <2>8 DEF Over
        <2>10. ASSUME Matters(s[1]), Done(s)'
               PROVE  Done(s)
            <3>1. OpOf(s) \in Effects /\ server[s].at # "answered"
                BY <2>1, <2>10 DEF Matters, OpOf, Serving
            <3>2. CASE Tell(s)
                BY <3>2 DEF Tell, Done
            <3>3. CASE Cached(s) \/ Lookup(s) \/ Remember(s) \/ Limit(s) \/ Count(s) \/ Revoke(s) \/ Forbid(s)
                <4>1. \/ \E at : Go(s, at) /\ at \notin {"mark", "tell"}
                      \/ \E status : Answer(s, status) /\ status # "ok"
                      \/ \E tenant : Authenticated(s, tenant)
                    BY <3>3 DEF Cached, Lookup, Remember, Limit, Count, Revoke, Forbid
                <4>2. QED
                    BY <2>10, <3>1, <4>1, NotDone
            <3>4. CASE SignupCheck(s) \/ SignupInsert(s) \/ Login(s) \/ Issue(s)
                <4>1. OpOf(s) \in Public
                    BY <3>4 DEF SignupCheck, SignupInsert, Login, Issue, CallsOK, ServedOK, Fits, Suits, Public
                <4>2. QED
                    BY <2>5, <3>1, <4>1
            <3>5. CASE CreateKey(s) \/ Purge(s) \/ MintTicket(s) \/ Connect(s)
                <4>1. OpOf(s) \in {"createKey", "logout", "revokeKey", "ticket", "connect"}
                    BY <3>5 DEF CreateKey, Purge, MintTicket, Connect, CallsOK, ServedOK, Fits, Suits
                <4>2. QED
                    BY <2>5, <3>1, <4>1
            <3>6. QED
                BY <1>2, <3>2, <3>3, <3>4, <3>5 DEF Serve
        <2>11. \A t \in Slots : Matters(t[1]) /\ Done(t)' => Done(t)
            BY <2>2, <2>10 DEF Done
        <2>12. QED
            BY <2>1, <2>3, <2>6, <2>9, <2>11, AppliedQuietly
    <1>3. QED
        BY <1>1, <1>2

LEMMA AppliedFail ==
    ASSUME CallsOK, AppliedOK, NEW s \in Slots, Fail(s)
    PROVE  AppliedOK'
    <1>1. /\ UNCHANGED <<setting, client, operations, applied>> /\ server[s].at \in Serving
          /\ Answer(s, "error") \/ Go(s, "gone")
        BY DEF Fail, Abandon, redis
    <1>2. server \in [Slots -> Request]
        BY DEF CallsOK, TypeOK
    <1>3. server'[s].at \in Over /\ \A t \in Slots : t # s => server'[t] = server[t]
        <2>1. CASE Answer(s, "error")
            <3>1. Becomes(s, "answered", server[s].tenant, "error")
                BY <1>2, <2>1, AnswerIs
            <3>2. QED
                BY <3>1 DEF Becomes, Over
        <2>2. CASE Go(s, "gone")
            <3>1. Becomes(s, "gone", server[s].tenant, server[s].status)
                BY <1>2, <2>2, GoIs
            <3>2. QED
                BY <3>1 DEF Becomes, Over
        <2>3. QED
            BY <1>1, <2>1, <2>2
    <1>4. ~Done(s)'
        BY <1>1, NotDone DEF Serving
    <1>5. \A t \in Slots : Done(t)' => Done(t)
        BY <1>3, <1>4 DEF Done
    <1>6. QED
        BY <1>1, <1>3, <1>5, AppliedQuietly

(* An attempt more.                                                        *)
LEMMA OneMore ==
    ASSUME NEW S, NEW i, IsFiniteSet(S)
    PROVE  IsFiniteSet(S \cup {i}) /\ Cardinality(S \cup {i}) <= Cardinality(S) + 1
    <1>1. Cardinality(S) \in Nat
        BY FS_CardinalityType
    <1>2. CASE i \in S
        <2>1. PICK T : T = S \cup {i}
            OBVIOUS
        <2>2. T = S
            BY <1>2, <2>1
        <2>3. IsFiniteSet(T) /\ Cardinality(T) <= Cardinality(S) + 1
            BY <1>1, <2>2
        <2>4. QED
            BY <2>1, <2>3, Zenon
    <1>3. CASE i \notin S
        BY <1>1, <1>3, FS_AddElement
    <1>4. QED
        BY <1>2, <1>3

(* A new attempt: it may take effect, and has not.                         *)
LEMMA AppliedStart ==
    ASSUME CallsOK, AppliedOK, NEW x \in Calls, NEW i \in Attempts, Start(<<x, i>>), script[x] # None,
           server[<<x, i>>].at = "idle",
           client' = [client EXCEPT ![x] = [at |-> "waiting", attempt |-> i]],
           i = client[x].attempt \/ i = client[x].attempt + 1,
           UNCHANGED <<setting, operations, applied>>
    PROVE  AppliedOK'
    <1>1. PICK s : s = <<x, i>>
        OBVIOUS
    <1>2. s \in Slots /\ s[1] = x /\ s[2] = i
        BY <1>1 DEF Slots
    <1>3. server \in [Slots -> Request] /\ client \in [Calls -> Client] /\ OpOf(s) \in Ops
        BY <1>2, ScriptTyped DEF CallsOK, TypeOK, OpOf
    <1>4. server[s].status = None
        BY <1>1, <1>2 DEF CallsOK, ServedOK, Fits, Suits
    <1>5. PICK at \in {"limit", "handle", "cached"} : Becomes(s, at, server[s].tenant, None)
        BY <1>1, <1>2, <1>3, <1>4, StartIs
    <1>6. /\ server'[s].at \notin Over /\ ~Done(s)'
          /\ \A t \in Slots : t # s => server'[t] = server[t]
        BY <1>5, AccessConstants DEF Becomes, Over, Done, Statuses
    <1>7. /\ client'[x].at = "waiting" /\ client'[x].attempt = i
          /\ \A y \in Calls : y # x => client'[y] = client[y]
        BY <1>3
    <1>8. script' = script /\ \A y \in Calls : Matters(y)' <=> Matters(y)
        BY DEF Matters, script
    <1>9. ASSUME NEW y \in Calls, y # x
          PROVE  CountOK(y)'
        <2>1. \A t \in Slots : t[1] = y /\ server[t].at \in Over => server'[t].at \in Over
            BY <1>2, <1>6, <1>9
        <2>2. Unspent(y)' \subseteq Unspent(y) /\ CountOK(y)
            BY <1>7, <1>9, <2>1, SpentStays DEF AppliedOK
        <2>3. QED
            BY <1>7, <1>9, <2>2, CountKept
    <1>10. ASSUME NEW t \in Slots
           PROVE  DoneOK(t)'
        <2>1. t[1] \in Calls /\ DoneOK(t)
            BY DEF Slots, AppliedOK
        <2>2. CASE t = s
            BY <1>6, <2>2 DEF DoneOK
        <2>3. CASE t # s
            <3>1. server'[t] = server[t]
                BY <1>6, <2>3
            <3>2. Matters(t[1])' <=> Matters(t[1])
                BY <1>8, <2>1
            <3>3. QED
                BY <2>1, <3>1, <3>2 DEF DoneOK, Done
        <2>4. QED
            BY <2>2, <2>3
    <1>11. CASE i = client[x].attempt
        <2>1. \A t \in Slots : t[1] = x /\ server[t].at \in Over => server'[t].at \in Over
            BY <1>1, <1>2, <1>6 DEF Over
        <2>2. Unspent(x)' \subseteq Unspent(x) /\ CountOK(x)
            BY <1>7, <1>11, <2>1, SpentStays DEF AppliedOK
        <2>3. CountOK(x)'
            BY <1>7, <1>11, <2>2, CountKept
        <2>4. QED
            BY <1>9, <1>10, <2>3 DEF AppliedOK
    <1>12. CASE i = client[x].attempt + 1
        <2>1. client[x].attempt \in Nat /\ applied[x] \in Nat
            BY <1>3, AccessConstants DEF Client, Attempts, CallsOK, TypeOK
        <2>2. Unspent(x)' \subseteq Unspent(x) \cup {i}
            <3>1. ASSUME NEW j \in Unspent(x)', j # i
                  PROVE  j \in Unspent(x)
                <4>1. j \in 0..i /\ server'[<<x, j>>].at \notin Over
                    BY <1>7, <3>1 DEF Unspent, Over
                <4>2. j \in 0..client[x].attempt /\ j \in Attempts
                    BY <1>12, <2>1, <3>1, <4>1, AccessConstants DEF Attempts
                <4>3. PICK t : t = <<x, j>>
                    OBVIOUS
                <4>4. t \in Slots /\ t # s
                    BY <1>1, <3>1, <4>2, <4>3 DEF Slots
                <4>5. server'[t] = server[t]
                    BY <1>6, <4>4
                <4>6. QED
                    BY <4>1, <4>2, <4>3, <4>5 DEF Unspent
            <3>2. QED
                BY <3>1
        <2>3. IsFiniteSet(Unspent(x)) /\ Cardinality(Unspent(x)) \in Nat
            BY UnspentFinite
        <2>4. IsFiniteSet(Unspent(x) \cup {i}) /\ Cardinality(Unspent(x) \cup {i}) <= Cardinality(Unspent(x)) + 1
            BY <2>3, OneMore
        <2>5. Cardinality(Unspent(x)') <= Cardinality(Unspent(x)) + 1 /\ Cardinality(Unspent(x)') \in Nat
            <3>1. /\ Cardinality(Unspent(x)') <= Cardinality(Unspent(x) \cup {i})
                  /\ Cardinality(Unspent(x)') \in Nat /\ Cardinality(Unspent(x) \cup {i}) \in Nat
                BY <2>2, <2>4, FS_Subset, FS_CardinalityType
            <3>2. QED
                BY <2>3, <2>4, <3>1
        <2>6. CountOK(x)
            BY DEF AppliedOK
        <2>7. CountOK(x)'
            BY <1>7, <1>8, <1>12, <2>1, <2>3, <2>5, <2>6 DEF CountOK
        <2>8. QED
            BY <1>9, <1>10, <2>7 DEF AppliedOK
    <1>13. QED
        BY <1>11, <1>12

(* A caller is answered, or gives up.                                      *)
LEMMA AppliedCaller ==
    ASSUME CallsOK, AppliedOK, NEW x \in Calls, Receive(x) \/ Disconnect(x)
    PROVE  AppliedOK'
    <1>1. UNCHANGED accessVars
        BY DEF Receive, Disconnect
    <1>2. UNCHANGED <<setting, server, operations, applied>>
        BY <1>1 DEF accessVars, rows, redis, history
    <1>3. client \in [Calls -> Client]
        BY DEF CallsOK, TypeOK
    <1>4. PICK at : To(x, at) /\ (at = "done" => Receive(x) /\ Status(x) = "ok")
        <2>1. CASE Disconnect(x)
            BY <2>1 DEF Disconnect, Again
        <2>2. CASE Receive(x)
            <3>1. PICK s : s = <<x, client[x].attempt>>
                OBVIOUS
            <3>2. s \in Slots
                BY <1>3, <3>1 DEF Slots, Client
            <3>3. server[s].at = "answered" /\ Fits(s) /\ server[s] \in Request
                BY <2>2, <3>1, <3>2 DEF Receive, CallsOK, ServedOK, TypeOK
            <3>4. Status(x) \in Statuses
                BY <3>1, <3>3 DEF Fits, Suits, Request, Status
            <3>5. (Status(x) = "ok" /\ To(x, "done")) \/ To(x, "failed") \/ Again(x, RetriesStatus(x))
                BY <2>2, <3>4 DEF Receive, Statuses
            <3>6. QED
                BY <2>2, <3>5 DEF Again
        <2>3. QED
            BY <2>1, <2>2
    <1>5. /\ client'[x].at = at /\ client'[x].attempt = client[x].attempt
          /\ \A y \in Calls : y # x => client'[y] = client[y]
        BY <1>3, <1>4 DEF To, Client
    <1>6. at = "done" /\ Matters(x) => applied[x] >= 1
        <2>1. PICK s : s = <<x, client[x].attempt>>
            OBVIOUS
        <2>2. s \in Slots /\ s[1] = x
            BY <1>3, <2>1 DEF Slots, Client
        <2>3. DoneOK(s)
            BY <2>2 DEF AppliedOK
        <2>4. QED
            BY <1>4, <2>1, <2>2, <2>3 DEF DoneOK, Done, Status
    <1>7. ASSUME NEW y \in Calls
          PROVE  CountOK(y)'
        <2>1. client'[y].attempt = client[y].attempt
            BY <1>5
        <2>2. Unspent(y)' \subseteq Unspent(y) /\ CountOK(y)
            BY <1>2, <2>1, SpentStays DEF AppliedOK
        <2>3. client'[y].at = "done" => client[y].at = "done" \/ ~Matters(y) \/ applied[y] >= 1
            BY <1>5, <1>6
        <2>4. QED
            BY <1>2, <2>1, <2>2, <2>3, CountKept
    <1>8. \A t \in Slots : DoneOK(t)'
        BY <1>2 DEF AppliedOK, DoneOK, Done, Matters, script
    <1>9. QED
        BY <1>7, <1>8 DEF AppliedOK

LEMMA AppliedStep ==
    ASSUME CallsOK, AppliedOK, [Next]_vars
    PROVE  AppliedOK'
    <1>1. ASSUME NEW x \in Calls, Send(x)
          PROVE  AppliedOK'
        <2>1. /\ 0 \in Attempts /\ server[<<x, 0>>].at = "idle" /\ 0 = client[x].attempt
              /\ client' = [client EXCEPT ![x] = [at |-> "waiting", attempt |-> 0]]
            BY <1>1, SendStarts DEF Slots
        <2>2. Start(<<x, 0>>) /\ script[x] # None /\ UNCHANGED <<setting, operations, applied>>
            BY <1>1 DEF Send, redis, history
        <2>3. QED
            BY <2>1, <2>2, AppliedStart
    <1>2. ASSUME NEW x \in Calls, Resend(x)
          PROVE  AppliedOK'
        <2>1. PICK i \in Attempts : i = client[x].attempt + 1
            BY <1>2, ResendStarts
        <2>2. /\ server[<<x, i>>].at = "idle" /\ client[x].at = "backoff"
              /\ client' = [client EXCEPT ![x] = [at |-> "waiting", attempt |-> i]]
            BY <1>2, <2>1, ResendStarts
        <2>3. Start(<<x, i>>) /\ UNCHANGED <<setting, operations, applied>>
            BY <1>2, <2>1 DEF Resend, redis, history
        <2>4. script[x] # None
            BY <2>2 DEF CallsOK, ServedOK, Known
        <2>5. QED
            BY <2>1, <2>2, <2>3, <2>4, AppliedStart
    <1>3. ASSUME UNCHANGED <<setting, client, server, operations, applied>>
          PROVE  AppliedOK'
        BY <1>3, AppliedQuietly DEF Done
    <1>4. CASE Tick /\ UNCHANGED <<client, faults>>
        BY <1>3, <1>4 DEF Tick, redis
    <1>5. CASE UNCHANGED vars
        BY <1>3, <1>5 DEF vars, accessVars, redis, history
    <1>6. QED
        BY <1>1, <1>2, <1>4, <1>5, AppliedServe, AppliedFail, AppliedCaller DEF Next

LEMMA AppliedInit == Init => AppliedOK
    <1>1. SUFFICES ASSUME Init
                   PROVE  AppliedOK
        OBVIOUS
    <1>2. ASSUME NEW x \in Calls
          PROVE  CountOK(x)
        <2>1. applied[x] = 0 /\ operations = {} /\ client[x].at = "ready" /\ client[x].attempt = 0
            BY <1>1 DEF Init, AccessInit
        <2>2. Unspent(x) \subseteq {0}
            BY <2>1 DEF Unspent
        <2>3. IsFiniteSet({0}) /\ Cardinality({0}) = 1
            BY FS_Singleton
        <2>4. Cardinality(Unspent(x)) <= 1 /\ Cardinality(Unspent(x)) \in Nat
            BY <2>2, <2>3, FS_Subset, FS_CardinalityType
        <2>5. QED
            BY <2>1, <2>4 DEF CountOK
    <1>3. ASSUME NEW s \in Slots
          PROVE  DoneOK(s)
        BY <1>1, AccessConstants DEF Init, AccessInit, Idle, DoneOK, Done, Statuses
    <1>4. QED
        BY <1>2, <1>3 DEF AppliedOK

(* An answered call took effect.  A write with an operationId took effect  *)
(* at most once over all its attempts, any other call at most once per     *)
(* attempt, whichever attempts were lost, given up, answered too late or   *)
(* acted on what another had done meanwhile, for any calls and retries.    *)
THEOREM AnswersAreTrue == Spec => []AppliedAsAnswered
    <1>1. Init => CallsOK /\ AppliedOK
        BY InitFits, AppliedInit
    <1>2. CallsOK /\ AppliedOK /\ [Next]_vars => (CallsOK /\ AppliedOK)'
        BY CallsStep, AppliedStep
    <1>3. CallsOK /\ AppliedOK => AppliedAsAnswered
        BY AppliedIs
    <1>4. QED
        BY <1>1, <1>2, <1>3, PTL DEF Spec
=============================================================================
