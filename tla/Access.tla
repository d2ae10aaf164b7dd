-------------------------------- MODULE Access --------------------------------
(***************************************************************************)
(* The HTTP server as its clients meet it: credentials with their cache    *)
(* (auth/), the middleware (api/middleware.ts) and the routes of           *)
(* api/app.ts.  A request passes authentication, the rate limit and the    *)
(* scope check of its route, then the route's facade; one action is one    *)
(* round trip to Redis or Postgres.                                        *)
(*                                                                         *)
(* Left out: secrets (whoever presents a credential holds it), namespaces, *)
(* the tenants' is_active, which nothing here changes, and the routes that *)
(* read without authentication (health, metrics).  Of what a facade does   *)
(* the round trips that take effect, and that find it done, are steps here *)
(* (the rest has modules of its own); every call has a key, an artifact or *)
(* a dead letter of its own, which the other calls leave alone.            *)
(***************************************************************************)
EXTENDS Integers, FiniteSets

CONSTANTS
    Calls, MaxRetries,      \* client calls; each is sent 1 + MaxRetries times at most
    Keys, Tokens, Tenants, Emails,
    TokenTtl,               \* SPANOAI_DASHBOARD_TOKEN_TTL_SECONDS
    CacheTtl,               \* CACHE_TTL_SECONDS
    TicketTtl,
    RateLimit,              \* SPANOAI_RATE_LIMIT_PER_MINUTE; the window is one unit of time
    MaxTime,                \* bound on the clock
    None,
    Settings                \* which accounts exist and what is called in an instance

Attempts == 0..MaxRetries
Slots    == Calls \X Attempts           \* requests, by call and attempt
Creds    == Keys \cup Tokens

-----------------------------------------------------------------------------
(* Routes: the scope each facade requires, and what a second execution of  *)
(* the same request does.                                                  *)
ContextOf(op) ==
    IF op \in {"write", "append", "increment", "delete"} THEN "context:write" ELSE "context:read"
MessageOf(op) == IF op = "claim" THEN "message:claim" ELSE "message:send"
ArtifactOf(op) == IF op \in {"initUpload", "deleteArtifact"} THEN "artifact:write" ELSE "artifact:read"

ContextOps  == {"write", "append", "increment", "delete", "read", "list", "history", "search", "await"}
MessageOps  == {"dispatch", "broadcast", "request", "claim"}
ArtifactOps == {"initUpload", "deleteArtifact", "metadata", "downloadUrl"}
AuditOps    == {"getByRun", "export", "query"}
(* No scope: acks, replies and the dead letters of the bus, a complete of  *)
(* an upload, sessions, and tickets.                                       *)
OpenOps     == {"ack", "reply", "awaitReply", "listDlq", "replayDlq", "complete",
                "create", "get", "sessions", "join", "leave", "abort", "end", "ticket"}
ScopeOf(op) == CASE op \in ContextOps  -> ContextOf(op)
                 [] op \in MessageOps  -> MessageOf(op)
                 [] op \in ArtifactOps -> ArtifactOf(op)
                 [] op \in AuditOps    -> "audit:read"
                 [] op \in OpenOps     -> None
Scope == {"context:read", "context:write", "message:send", "message:claim",
          "artifact:read", "artifact:write", "audit:read"}

AgentOps == ContextOps \cup MessageOps \cup ArtifactOps \cup AuditOps \cup OpenOps
Public   == {"signup", "login"}
UserOps  == {"logout", "me", "listKeys", "createKey", "revokeKey"}
Ops      == AgentOps \cup Public \cup UserOps \cup {"connect"}

Unlimited == {"logout", "me", "revokeKey", "connect"}
ByOperation == {"write", "append", "increment"}     \* the store replays a known operationId
Repeated    == {"dispatch", "broadcast", "request", "reply", "claim", "ack", "create", "initUpload",
                "join", "leave", "abort", "end"}    \* done again whenever it is asked again
Checked     == {"delete", "deleteArtifact", "complete", "replayDlq"}    \* skipped when found done
Once        == {"complete", "replayDlq"}            \* refused when found done
Marking     == {"deleteArtifact", "replayDlq"}      \* shown to be done by a write of its own
Reading     == {"read", "list", "history", "search", "await", "metadata", "downloadUrl", "getByRun",
                "export", "query", "awaitReply", "listDlq", "get", "sessions", "me", "listKeys"}

-----------------------------------------------------------------------------
(* Agents and users present a credential, signups and logins an email; a   *)
(* socket opens with the ticket of an earlier call.                        *)
Kinds  == {"typescript", "python", "web"}
Asking(ops, by, on) == [op : ops, kind : Kinds, by : by, on : on, scopes : SUBSET Scope]
Script == Asking(AgentOps, Creds, Calls \cup {None})
             \cup Asking(UserOps \ {"revokeKey"}, Creds, Calls \cup {None})
             \cup Asking({"revokeKey"}, Creds, Keys)
             \cup Asking(Public, Emails, {None})
             \cup Asking({"connect"}, Creds \cup {None}, Calls)
Row    == [tenant : Tenants, scopes : SUBSET Scope, active : BOOLEAN, expiresAt : Nat]
Setting == [script : [Calls -> Script \cup {None}], users : [Emails -> Tenants \cup {None}],
            credential : [Creds -> Row \cup {None}], faults : Nat]

Statuses == {"ok", "refused", "busy", "error"}

(* A setting's accounts were made by signups: each has a tenant of its own.*)
ASSUME AccessConstants ==
    /\ Settings \subseteq Setting
    /\ \A i \in Settings : \A e, f \in Emails :
          i.users[e] = i.users[f] => e = f \/ i.users[e] = None
    /\ MaxRetries \in Nat /\ RateLimit \in Nat /\ MaxTime \in Nat
    /\ TokenTtl \in Nat \ {0} /\ CacheTtl \in Nat \ {0} /\ TicketTtl \in Nat \ {0}
    /\ Keys \cap Tokens = {} /\ "anon" \notin Tenants
    /\ None \notin Row \cup Script \cup Tenants \cup Creds \cup Scope \cup Statuses

VARIABLES
    setting, now,
    users,              \* email -> tenant: a row of users and its row of tenants
    tenants,            \* rows of tenants
    credential,         \* rows of api_keys and auth_tokens
    cache,              \* when the cached verifier of a credential expires; 0: none
    window,             \* rateLimit's local window, of a request about to be counted
    hits,               \* the rate limiter's counters, per bucket and window
    tickets,            \* when the ticket a request minted expires; 0: none
    server,             \* requests being served
    operations,         \* operationIds the store has recorded, and the targets found done
    applied,            \* history: how often each call took effect
    passed,             \* history: requests of the present window that were let through
    opened,             \* history: sockets each ticket opened
    crossed             \* history: credentials cached after they had ended, or not purged

rows     == <<users, tenants, credential>>
redis    == <<cache, hits, tickets, operations>>
history  == <<applied, passed, opened, crossed>>
accessVars == <<setting, now, window, rows, redis, server, history>>

Idle     == [at |-> "idle", tenant |-> None, status |-> None]
Serving  == {"cached", "lookup", "remember", "limit", "count", "handle", "act", "mark", "tell",
             "insert", "issue", "purge"}
Request  == [at : Serving \cup {"idle", "answered", "gone"}, tenant : Tenants \cup {None},
             status : Statuses \cup {None}]

script    == setting.script
OpOf(s)   == script[s[1]].op
By(s)     == script[s[1]].by
Bucket(s) == IF OpOf(s) \in Public \cup UserOps THEN "anon" ELSE server[s].tenant

Go(s, at)         == server' = [server EXCEPT ![s].at = at]
Answer(s, status) == server' = [server EXCEPT ![s].at = "answered", ![s].status = status]
Unidentified(s, tenant) == Go(s, IF OpOf(s) \in Unlimited THEN "handle" ELSE "limit")   \* mutant
Authenticated(s, tenant) ==
    server' = [server EXCEPT ![s].tenant = tenant,
                             ![s].at = IF OpOf(s) \in Unlimited THEN "handle" ELSE "limit"]
Start(s) ==
    server' = [server EXCEPT ![s].at = CASE OpOf(s) \in Public -> "limit"
                                         [] OpOf(s) = "connect" -> "handle"
                                         [] OpOf(s) \in AgentOps \cup UserOps -> "cached"]

-----------------------------------------------------------------------------
(* verify, of keys and of tokens alike: cache, row, cache.                 *)

EndedAt(row) == IF row.expiresAt = 0 THEN now + 1 ELSE row.expiresAt
Ended(cred)  == ~credential[cred].active \/ EndedAt(credential[cred]) < now

Cached(s) ==
    /\ server[s].at = "cached"
    /\ IF OpOf(s) \in UserOps /\ By(s) \in Keys THEN Answer(s, "refused")
       ELSE IF cache[By(s)] > now THEN Authenticated(s, credential[By(s)].tenant)
       ELSE Go(s, "lookup")
    /\ UNCHANGED <<setting, now, window, rows, redis, history>>

Lookup(s) ==
    /\ server[s].at = "lookup"
    /\ IF Ended(By(s)) THEN Answer(s, "refused") ELSE Go(s, "remember")
    /\ UNCHANGED <<setting, now, window, rows, redis, history>>

(* What a logout, or a revocation of a key, ends.                          *)
Revoked(s)    == IF OpOf(s) = "logout" THEN By(s) ELSE script[s[1]].on
Purging(cred) == \E s \in Slots : server[s].at = "purge" /\ Revoked(s) = cred

Remember(s) ==
    /\ server[s].at = "remember"
    /\ cache' = [cache EXCEPT ![By(s)] = now + CacheTtl]
    /\ crossed' = IF Ended(By(s)) /\ ~Purging(By(s)) THEN crossed \cup {By(s)} ELSE crossed
    /\ Authenticated(s, credential[By(s)].tenant)
    /\ UNCHANGED <<setting, now, window, rows, hits, tickets, operations, applied, passed, opened>>

(* rateLimit: the clock names the window, INCR counts in its counter.  A   *)
(* request that counts after its window finds the counter as it was, or    *)
(* gone: its EXPIRE bites when the window has passed.                      *)
Limit(s) ==
    /\ server[s].at = "limit"
    /\ window' = [window EXCEPT ![s] = now] /\ Go(s, "count")
    /\ UNCHANGED <<setting, now, rows, redis, history>>

PastLimit(n)    == n > RateLimit
Counters(b, w)  == {hits[b][w]} \cup (IF w < now THEN {0} ELSE {})

Count(s) ==
    /\ server[s].at = "count"
    /\ \E n \in Counters(Bucket(s), window[s]) :
          /\ hits' = [hits EXCEPT ![Bucket(s)][window[s]] = n + 1]
          /\ IF PastLimit(n + 1)
             THEN Answer(s, "busy") /\ UNCHANGED passed
             ELSE /\ Go(s, "handle")
                  /\ passed' = [passed EXCEPT ![Bucket(s)] = IF window[s] = now THEN @ + 1 ELSE @]
    /\ window' = [window EXCEPT ![s] = 0]                 \* the local is out of scope
    /\ UNCHANGED <<setting, now, rows, cache, tickets, operations, applied, opened, crossed>>

-----------------------------------------------------------------------------
(* Accounts and keys.                                                      *)

(* signup: is the email taken; then both rows in one transaction, which    *)
(* the UNIQUE emails let only one of two signups commit.                   *)
SignupCheck(s) ==
    /\ server[s].at = "handle" /\ OpOf(s) = "signup"
    /\ IF users[By(s)] # None THEN Answer(s, "refused") ELSE Go(s, "insert")
    /\ UNCHANGED <<setting, now, window, rows, redis, history>>

AnyEmail(email) == TRUE                                              \* mutant
IsUnique(email) == users[email] = None

SignupInsert(s) ==
    /\ server[s].at = "insert"
    /\ IF IsUnique(By(s))
       THEN \E t \in Tenants \ tenants :
               /\ tenants' = tenants \cup {t} /\ users' = [users EXCEPT ![By(s)] = t]
               /\ server' = [server EXCEPT ![s].tenant = t, ![s].at = "issue"]
               /\ applied' = [applied EXCEPT ![s[1]] = @ + 1]
       ELSE Answer(s, "error") /\ UNCHANGED <<users, tenants, applied>>
    /\ UNCHANGED <<setting, now, window, credential, redis, passed, opened, crossed>>

Login(s) ==
    /\ server[s].at = "handle" /\ OpOf(s) = "login"
    /\ IF users[By(s)] = None THEN Answer(s, "refused")
       ELSE server' = [server EXCEPT ![s].tenant = users[By(s)], ![s].at = "issue"]
    /\ UNCHANGED <<setting, now, window, rows, redis, history>>

NewRow(cred, tenant, scopes, expiresAt) ==
    /\ credential[cred] = None
    /\ credential' = [credential EXCEPT ![cred] =
            [tenant |-> tenant, scopes |-> scopes, active |-> TRUE, expiresAt |-> expiresAt]]

Issue(s) ==
    /\ server[s].at = "issue"
    /\ \E token \in Tokens : NewRow(token, server[s].tenant, Scope, now + TokenTtl)
    /\ Answer(s, "ok")
    /\ UNCHANGED <<setting, now, window, users, tenants, redis, history>>

CreateKey(s) ==
    /\ server[s].at = "handle" /\ OpOf(s) = "createKey"
    /\ \E key \in Keys : NewRow(key, server[s].tenant, script[s[1]].scopes, 0)
    /\ Answer(s, "ok")
    /\ UNCHANGED <<setting, now, window, users, tenants, redis, history>>

(* logout and revoke: the row, then the cached verifier.  A key is revoked *)
(* only by its tenant.                                                     *)
Revoke(s) ==
    /\ server[s].at = "handle" /\ OpOf(s) \in {"logout", "revokeKey"}
    /\ credential' = [cred \in Creds |->
            IF cred = Revoked(s) /\ credential[cred] # None
               /\ (OpOf(s) = "logout" \/ credential[cred].tenant = server[s].tenant)
            THEN [credential[cred] EXCEPT !.active = FALSE] ELSE credential[cred]]
    /\ Go(s, "purge")
    /\ UNCHANGED <<setting, now, window, users, tenants, redis, history>>

LeaveCached(cred) == UNCHANGED cache                                 \* mutant
PurgeCache(cred)  == cache' = [cache EXCEPT ![cred] = 0]

Purge(s) ==
    /\ server[s].at = "purge"
    /\ PurgeCache(Revoked(s))
    /\ Answer(s, "ok")
    /\ UNCHANGED <<setting, now, window, rows, hits, tickets, operations, history>>

-----------------------------------------------------------------------------
(* The routes of agents.                                                   *)

Permitted(s) == ScopeOf(OpOf(s)) \in {None} \cup credential[By(s)].scopes

OperationPerAttempt(s) == s                                          \* mutant
OperationId(s)         == <<s[1], 0>>

Forbid(s) ==
    /\ server[s].at = "handle" /\ OpOf(s) \in AgentOps /\ ~Permitted(s)
    /\ Answer(s, "refused")
    /\ UNCHANGED <<setting, now, window, rows, redis, history>>

(* The facades: the store replays an operationId it knows; what is not     *)
(* checked is done again; the rest looks, and acts a round trip later.     *)
Target(s) == <<s[1], 0>>
Effect(s) == applied' = [applied EXCEPT ![s[1]] = @ + 1]

Replay(s) ==
    /\ OpOf(s) \in ByOperation /\ operations' = operations \cup {OperationId(s)}
    /\ IF OperationId(s) \in operations THEN Answer(s, "ok") /\ UNCHANGED applied
       ELSE Effect(s) /\ Go(s, "tell")

Repeat(s) == OpOf(s) \in Repeated /\ Effect(s) /\ Go(s, "tell") /\ UNCHANGED operations

Look(s) ==
    /\ OpOf(s) \in Checked /\ UNCHANGED <<applied, operations>>
    /\ IF Target(s) \in operations THEN Answer(s, IF OpOf(s) \in Once THEN "refused" ELSE "ok")
       ELSE Go(s, "act")

Facade(s) ==
    /\ server[s].at = "handle" /\ OpOf(s) \in (AgentOps \ {"ticket"}) \cup {"me", "listKeys"}
    /\ OpOf(s) \in AgentOps => Permitted(s)
    /\ \/ Replay(s) \/ Repeat(s) \/ Look(s)
       \/ OpOf(s) \in Reading /\ Answer(s, "ok") /\ UNCHANGED <<applied, operations>>
    /\ UNCHANGED <<setting, now, window, rows, cache, hits, tickets, passed, opened, crossed>>

(* The tombstone, the row made available, the bytes deleted or the message *)
(* enqueued again, whatever another attempt did since the look.            *)
Act(s) ==
    /\ server[s].at = "act" /\ Effect(s)
    /\ IF OpOf(s) \in Marking THEN Go(s, "mark") /\ UNCHANGED operations
       ELSE Go(s, "tell") /\ operations' = operations \cup {Target(s)}
    /\ UNCHANGED <<setting, now, window, rows, cache, hits, tickets, passed, opened, crossed>>

(* The artifact's row, or the dead letter, after that.                     *)
Mark(s) ==
    /\ server[s].at = "mark"
    /\ operations' = operations \cup {Target(s)} /\ Go(s, "tell")
    /\ UNCHANGED <<setting, now, window, rows, cache, hits, tickets, history>>

(* What has taken effect is audited before it is answered, and that may    *)
(* fail: the client is told of an error that came too late.                *)
Tell(s) ==
    /\ server[s].at = "tell" /\ Answer(s, "ok")
    /\ UNCHANGED <<setting, now, window, rows, redis, history>>

(* A ticket opens one socket: GETDEL.                                      *)
MintTicket(s) ==
    /\ server[s].at = "handle" /\ OpOf(s) = "ticket"
    /\ tickets' = [tickets EXCEPT ![s] = now + TicketTtl]
    /\ Answer(s, "ok")
    /\ UNCHANGED <<setting, now, window, rows, cache, hits, operations, history>>

Spent(t)      == tickets' = [tickets EXCEPT ![t] = 0]

Connect(s) ==
    /\ server[s].at = "handle" /\ OpOf(s) = "connect"
    /\ \E t \in Slots :
          /\ t[1] = script[s[1]].on /\ server[t].status = "ok"
          /\ IF tickets[t] > now
             THEN opened' = [opened EXCEPT ![t] = @ + 1] /\ Answer(s, "ok")
             ELSE Answer(s, "refused") /\ UNCHANGED opened
          /\ Spent(t)
    /\ UNCHANGED <<setting, now, window, rows, cache, hits, operations, applied, passed, crossed>>

-----------------------------------------------------------------------------
Tick ==
    /\ now < MaxTime /\ now' = now + 1
    /\ passed' = [b \in DOMAIN passed |-> 0]
    /\ UNCHANGED <<setting, window, rows, redis, server, applied, opened, crossed>>

(* A request throws, or its server dies.                                   *)
Abandon(s) ==
    /\ server[s].at \in Serving
    /\ crossed' = IF server[s].at = "purge" THEN crossed \cup {Revoked(s)} ELSE crossed
    /\ Answer(s, "error") \/ Go(s, "gone")
    /\ UNCHANGED <<setting, now, window, rows, redis, applied, passed, opened>>

AccessInit ==
    /\ setting \in Settings /\ now = 0
    /\ users = setting.users /\ credential = setting.credential
    /\ tenants = {setting.users[e] : e \in Emails} \ {None}
    /\ cache = [cred \in Creds |-> 0] /\ tickets = [s \in Slots |-> 0]
    /\ window = [s \in Slots |-> 0] /\ passed = [b \in Tenants \cup {"anon"} |-> 0]
    /\ hits = [b \in Tenants \cup {"anon"} |-> [w \in 0..MaxTime |-> 0]]
    /\ server = [s \in Slots |-> Idle]
    /\ operations = {} /\ applied = [x \in Calls |-> 0]
    /\ opened = [s \in Slots |-> 0] /\ crossed = {}

Serve(s) ==
    \/ Cached(s) \/ Lookup(s) \/ Remember(s) \/ Limit(s) \/ Count(s)
    \/ SignupCheck(s) \/ SignupInsert(s) \/ Login(s) \/ Issue(s) \/ CreateKey(s)
    \/ Revoke(s) \/ Purge(s)
    \/ Forbid(s) \/ Facade(s) \/ Act(s) \/ Mark(s) \/ Tell(s) \/ MintTicket(s) \/ Connect(s)

-----------------------------------------------------------------------------
(* Properties.                                                             *)

(* A cached verifier does not outlive its credential: revocation purges    *)
(* it, and what has expired is accepted for CacheTtl at most - unless a    *)
(* verification that had read the row cached it after that, or the         *)
(* revocation died before the purge.                                       *)
EndedIsRefused ==
    \A cred \in Creds :
        credential[cred] # None /\ cred \notin crossed /\ cache[cred] > now /\ ~Purging(cred) =>
            /\ credential[cred].active
            /\ cache[cred] <= EndedAt(credential[cred]) + CacheTtl

(* Signups of one email make one account: every tenant has its owner, and  *)
(* no two emails share one.                                                *)
OneAccountPerEmail ==
    \A t \in tenants : Cardinality({e \in Emails : users[e] = t}) = 1

(* Of the requests that read their clock in the present window the limiter *)
(* lets no more than the limit through, however many servers count, while  *)
(* others count in the windows before; and a ticket opens one socket.      *)
LimitsHold ==
    /\ \A b \in DOMAIN passed : passed[b] <= RateLimit
    /\ \A s \in Slots : opened[s] <= 1

(* Gates hold under concurrent requests: accounts, rate limit, tickets.    *)
GatesHold == OneAccountPerEmail /\ LimitsHold
=============================================================================
