------------------------------- MODULE Sessions -------------------------------
(***************************************************************************)
(* SessionService (sessions/index.ts) for one tenant: the record, the      *)
(* roster and the abort flag of each session, each a Redis key with an     *)
(* expiry of its own, and the tenant's index of sessions.  One action is   *)
(* one round trip; the first of a call starts it.                          *)
(*                                                                         *)
(* Left out: reads that end a call and only answer it (get), and the       *)
(* audit entries of joins and leaves, which nothing reads.                 *)
(***************************************************************************)
EXTENDS Integers, FiniteSets

CONSTANTS
    Ids, Agents,
    Callers,        \* requests in flight at once
    Cleaners,       \* one session-cleaner per server
    DefaultTtl,     \* SPANOAI_SESSION_TTL_SECONDS
    MaxTime,        \* bound on the clock
    Settings        \* who asks for what in an instance

Ops     == {"create", "join", "leave", "end", "touch", "abort", "list"}
Request == [op : Ops, id : Ids, agent : Agents, ttlSeconds : Nat]
Setting == [requests : SUBSET Request, cap : Nat, cleaners : SUBSET Cleaners, deaths : Nat]

ASSUME SessionConstants ==
    /\ Settings \subseteq Setting
    /\ DefaultTtl \in Nat \ {0} /\ MaxTime \in Nat
    /\ IsFiniteSet(Callers) /\ Callers # {}

VARIABLES
    setting, now,
    meta,               \* the ttlSeconds a session's record holds; 0: no record
    metaExpiresAt,
    members, membersExpiresAt,      \* 0: the roster has no expiry
    abortExpiresAt,                 \* 0: the flag is not set
    index,
    calls, cleaning,    \* what each caller and each cleaner is at
    mishaps             \* history: a live session was dropped from the index, a call died

keys == <<meta, metaExpiresAt, members, membersExpiresAt, abortExpiresAt, index>>
vars == <<setting, now, keys, calls, cleaning, mishaps>>

Idle   == [at |-> "idle"]
Call   == [at : {"member", "count", "add", "refreshMeta", "refreshMembers",
                 "list", "keep", "audit", "delete", "abort"}, req : Request, ttl : Nat]
Pass   == [at : {"visit", "remove", "report"}, ids : SUBSET Ids, gone : SUBSET Ids]
Exists(id) == meta[id] > 0
TtlOf(req) == IF req.ttlSeconds > 0 THEN req.ttlSeconds ELSE DefaultTtl

Starts(c, req)    == calls[c] = Idle /\ req \in setting.requests
Go(c, at, r, ttl) == calls' = [calls EXCEPT ![c] = [at |-> at, req |-> r, ttl |-> ttl]]
Then(c, at)       == calls' = [calls EXCEPT ![c].at = at]
Return(c)         == calls' = [calls EXCEPT ![c] = Idle]

SetMeta(id, ttl) ==
    /\ meta' = [meta EXCEPT ![id] = ttl]
    /\ metaExpiresAt' = [metaExpiresAt EXCEPT ![id] = now + ttl]
ExpireMeta(id, ttl) ==
    metaExpiresAt' = [metaExpiresAt EXCEPT ![id] = IF Exists(id) THEN now + ttl ELSE @]
SetMembersOnly(id, roster) ==                                     \* mutant
    members' = [members EXCEPT ![id] = roster] /\ UNCHANGED membersExpiresAt
SetMembers(id, roster) ==
    /\ members' = [members EXCEPT ![id] = roster]
    /\ membersExpiresAt' = [membersExpiresAt EXCEPT ![id] = IF roster = {} THEN 0 ELSE @]

-----------------------------------------------------------------------------
(* Requests.                                                               *)

(* create: one MULTI for record and index.  The mutant leaves the index    *)
(* to the first touch.                                                     *)
Unlisted(id) == UNCHANGED index                                   \* mutant
Listed(id)   == index' = index \cup {id}

Create(c, req) ==
    /\ Starts(c, req) /\ req.op = "create"
    /\ SetMeta(req.id, TtlOf(req))
    /\ Listed(req.id)
    /\ UNCHANGED <<setting, now, members, membersExpiresAt, abortExpiresAt,
                   calls, cleaning, mishaps>>

(* join: the record, then the cap, then SADD and the two EXPIREs.          *)
JoinRead(c, req) ==
    /\ Starts(c, req) /\ req.op = "join"
    /\ Exists(req.id)
    /\ Go(c, IF setting.cap > 0 THEN "member" ELSE "add", req, meta[req.id])
    /\ UNCHANGED <<setting, now, keys, cleaning, mishaps>>

JoinIsMember(c) ==
    /\ calls[c].at = "member"
    /\ Then(c, IF calls[c].req.agent \in members[calls[c].req.id] THEN "add" ELSE "count")
    /\ UNCHANGED <<setting, now, keys, cleaning, mishaps>>

HasRoomPastCap(id) == Cardinality(members[id]) <= setting.cap    \* mutant
HasRoom(id)        == Cardinality(members[id]) < setting.cap

JoinCount(c) ==
    /\ calls[c].at = "count"
    /\ IF HasRoom(calls[c].req.id) THEN Then(c, "add") ELSE Return(c)
    /\ UNCHANGED <<setting, now, keys, cleaning, mishaps>>

JoinAdd(c) ==
    /\ calls[c].at = "add"
    /\ SetMembers(calls[c].req.id, members[calls[c].req.id] \cup {calls[c].req.agent})
    /\ Then(c, "refreshMeta")
    /\ UNCHANGED <<setting, now, meta, metaExpiresAt, abortExpiresAt, index, cleaning, mishaps>>

JoinRefreshMeta(c) ==
    /\ calls[c].at = "refreshMeta"
    /\ ExpireMeta(calls[c].req.id, calls[c].ttl)
    /\ Then(c, "refreshMembers")
    /\ UNCHANGED <<setting, now, meta, members, membersExpiresAt, abortExpiresAt, index,
                   cleaning, mishaps>>

JoinRefreshMembers(c) ==
    LET id == calls[c].req.id
    IN  /\ calls[c].at = "refreshMembers"
        /\ membersExpiresAt' =
              [membersExpiresAt EXCEPT ![id] = IF members[id] # {} THEN now + calls[c].ttl ELSE @]
        /\ Return(c)
        /\ UNCHANGED <<setting, now, meta, metaExpiresAt, members, abortExpiresAt, index,
                       cleaning, mishaps>>

Leave(c, req) ==
    /\ Starts(c, req) /\ req.op = "leave"
    /\ SetMembers(req.id, members[req.id] \ {req.agent})
    /\ UNCHANGED <<setting, now, meta, metaExpiresAt, abortExpiresAt, index,
                   calls, cleaning, mishaps>>

(* end: the audit entry, then one MULTI for the three keys and the index.  *)
EndAudit(c, req) ==
    /\ Starts(c, req) /\ req.op = "end"
    /\ Go(c, "delete", req, 0)
    /\ UNCHANGED <<setting, now, keys, cleaning, mishaps>>

EndDelete(c) ==
    LET id == calls[c].req.id
    IN  /\ calls[c].at = "delete"
        /\ meta' = [meta EXCEPT ![id] = 0]
        /\ metaExpiresAt' = [metaExpiresAt EXCEPT ![id] = 0]
        /\ SetMembers(id, {})
        /\ abortExpiresAt' = [abortExpiresAt EXCEPT ![id] = 0]
        /\ index' = index \ {id}
        /\ Return(c)
        /\ UNCHANGED <<setting, now, cleaning, mishaps>>

(* touch: SET NX, then the index of a new record, or EXPIRE of an old one. *)
TouchSet(c, req) ==
    /\ Starts(c, req) /\ req.op = "touch"
    /\ IF Exists(req.id)
       THEN Go(c, "keep", req, 0) /\ UNCHANGED <<meta, metaExpiresAt>>
       ELSE SetMeta(req.id, DefaultTtl) /\ Go(c, "list", req, 0)
    /\ UNCHANGED <<setting, now, members, membersExpiresAt, abortExpiresAt, index, cleaning, mishaps>>

TouchList(c) ==
    /\ calls[c].at = "list"
    /\ Listed(calls[c].req.id)
    /\ Return(c)
    /\ UNCHANGED <<setting, now, meta, metaExpiresAt, members, membersExpiresAt, abortExpiresAt,
                   cleaning, mishaps>>

TouchKeep(c) ==
    /\ calls[c].at = "keep"
    /\ ExpireMeta(calls[c].req.id, DefaultTtl)
    /\ Return(c)
    /\ UNCHANGED <<setting, now, meta, members, membersExpiresAt, abortExpiresAt, index,
                   cleaning, mishaps>>

(* abort: the record's TTL if there is one, then SET EX.                   *)
AbortRead(c, req) ==
    /\ Starts(c, req) /\ req.op = "abort"
    /\ Go(c, "abort", req, CASE req.ttlSeconds > 0 -> req.ttlSeconds
                             [] req.ttlSeconds = 0 /\ Exists(req.id) -> meta[req.id]
                             [] req.ttlSeconds = 0 /\ ~Exists(req.id) -> DefaultTtl)
    /\ UNCHANGED <<setting, now, keys, cleaning, mishaps>>

AbortSet(c) ==
    /\ calls[c].at = "abort"
    /\ abortExpiresAt' = [abortExpiresAt EXCEPT ![calls[c].req.id] = now + calls[c].ttl]
    /\ Return(c)
    /\ UNCHANGED <<setting, now, meta, metaExpiresAt, members, membersExpiresAt, index,
                   cleaning, mishaps>>

-----------------------------------------------------------------------------
(* list and the cleaner: the ids of the index, one read for each, and SREM *)
(* of what was gone, all together or one by one.  Only the cleaner audits. *)

Dropping(ids) ==
    /\ index' = index \ ids
    /\ mishaps' = mishaps \cup {"raced" : id \in {i \in ids \cap index : Exists(i)}}

Visit(pass, id) ==
    [pass EXCEPT !.ids = @ \ {id}, !.gone = IF Exists(id) THEN @ ELSE @ \cup {id}]

ListIds(c, req) ==
    /\ Starts(c, req) /\ req.op = "list"
    /\ calls' = [calls EXCEPT ![c] = [at |-> "visit", ids |-> index, gone |-> {}]]
    /\ UNCHANGED <<setting, now, keys, cleaning, mishaps>>

ListGet(c) ==
    /\ calls[c].at = "visit"
    /\ \E id \in calls[c].ids : calls' = [calls EXCEPT ![c] = Visit(@, id)]
    /\ UNCHANGED <<setting, now, keys, cleaning, mishaps>>

ListPrune(c) ==
    /\ calls[c].at = "visit" /\ calls[c].ids = {}
    /\ Dropping(calls[c].gone)
    /\ Return(c)
    /\ UNCHANGED <<setting, now, meta, metaExpiresAt, members, membersExpiresAt, abortExpiresAt,
                   cleaning>>

CleanIds(j) ==
    /\ j \in setting.cleaners /\ cleaning[j] = Idle
    /\ cleaning' = [cleaning EXCEPT ![j] = [at |-> "visit", ids |-> index, gone |-> {}]]
    /\ UNCHANGED <<setting, now, keys, calls, mishaps>>

(* The mutant takes a record that is there for one that has expired.       *)
AfterVisitSwapped(pass) == [pass EXCEPT !.at = IF pass.gone # {} THEN "visit" ELSE "remove"]  \* mutant
AfterVisit(pass) == [pass EXCEPT !.at = IF pass.gone # {} THEN "remove" ELSE "visit"]

CleanExists(j) ==
    /\ cleaning[j].at = "visit"
    /\ \E id \in cleaning[j].ids :
          cleaning' = [cleaning EXCEPT ![j] = AfterVisit(Visit(@, id))]
    /\ UNCHANGED <<setting, now, keys, calls, mishaps>>

CleanRemove(j) ==
    /\ cleaning[j].at = "remove"
    /\ Dropping(cleaning[j].gone)
    /\ cleaning' = [cleaning EXCEPT ![j].at = "report"]
    /\ UNCHANGED <<setting, now, meta, metaExpiresAt, members, membersExpiresAt, abortExpiresAt,
                   calls>>

CleanReport(j) ==
    /\ cleaning[j].at = "report"
    /\ cleaning' = [cleaning EXCEPT ![j].at = "visit", ![j].gone = {}]
    /\ UNCHANGED <<setting, now, keys, calls, mishaps>>

CleanEnd(j) ==
    /\ cleaning[j].at = "visit" /\ cleaning[j].ids = {}
    /\ cleaning' = [cleaning EXCEPT ![j] = Idle]
    /\ UNCHANGED <<setting, now, keys, calls, mishaps>>

-----------------------------------------------------------------------------
(* A call, or a cleaner's pass, dies with its server; Redis expires keys.  *)
Died == mishaps' = mishaps \cup {"died"} /\ "died" \notin mishaps /\ setting.deaths > 0

Die(c) ==
    /\ calls[c] # Idle /\ Died /\ Return(c)
    /\ UNCHANGED <<setting, now, keys, cleaning>>

DieCleaning(j) ==
    /\ cleaning[j] # Idle /\ Died /\ cleaning' = [cleaning EXCEPT ![j] = Idle]
    /\ UNCHANGED <<setting, now, keys, calls>>

Due(expiresAt) == {id \in Ids : expiresAt[id] = now + 1}
Lapsed(f, ids, value) == [id \in Ids |-> IF id \in ids THEN value ELSE f[id]]

Tick ==
    /\ now < MaxTime
    /\ now' = now + 1
    /\ meta' = Lapsed(meta, Due(metaExpiresAt), 0)
    /\ metaExpiresAt' = Lapsed(metaExpiresAt, Due(metaExpiresAt), 0)
    /\ members' = Lapsed(members, Due(membersExpiresAt), {})
    /\ membersExpiresAt' = Lapsed(membersExpiresAt, Due(membersExpiresAt), 0)
    /\ abortExpiresAt' = Lapsed(abortExpiresAt, Due(abortExpiresAt), 0)
    /\ UNCHANGED <<setting, index, calls, cleaning, mishaps>>

Init ==
    /\ setting \in Settings /\ now = 0
    /\ meta = [id \in Ids |-> 0] /\ metaExpiresAt = [id \in Ids |-> 0]
    /\ members = [id \in Ids |-> {}] /\ membersExpiresAt = [id \in Ids |-> 0]
    /\ abortExpiresAt = [id \in Ids |-> 0]
    /\ index = {} /\ mishaps = {}
    /\ calls = [c \in Callers |-> Idle] /\ cleaning = [j \in Cleaners |-> Idle]

Begin(c, req) ==
    \/ Create(c, req) \/ JoinRead(c, req) \/ Leave(c, req) \/ EndAudit(c, req)
    \/ TouchSet(c, req) \/ AbortRead(c, req) \/ ListIds(c, req)

CallStep(c) ==
    \/ JoinIsMember(c) \/ JoinCount(c) \/ JoinAdd(c) \/ JoinRefreshMeta(c) \/ JoinRefreshMembers(c)
    \/ EndDelete(c) \/ TouchList(c) \/ TouchKeep(c) \/ AbortSet(c) \/ ListGet(c) \/ ListPrune(c)

CleanStep(j) ==
    CleanIds(j) \/ CleanExists(j) \/ CleanRemove(j) \/ CleanReport(j) \/ CleanEnd(j)

Next ==
    \/ \E c \in Callers : (\E req \in setting.requests : Begin(c, req)) \/ CallStep(c) \/ Die(c)
    \/ \E j \in Cleaners : CleanStep(j) \/ DieCleaning(j)
    \/ Tick

(* Every server cleans on an interval, and a pass goes on while it lives.  *)
Fairness == \A j \in Cleaners : WF_vars(CleanStep(j))
Spec     == Init /\ [][Next]_vars /\ Fairness

-----------------------------------------------------------------------------
(* Properties.                                                             *)

(* Every variable has its type, a record expires later than now, and an    *)
(* empty roster, which is no Redis key, has no expiry.                     *)
TypeOK ==
    /\ setting \in Setting /\ now \in Nat
    /\ meta \in [Ids -> Nat] /\ metaExpiresAt \in [Ids -> Nat]
    /\ members \in [Ids -> SUBSET Agents] /\ membersExpiresAt \in [Ids -> Nat]
    /\ abortExpiresAt \in [Ids -> Nat]
    /\ \A id \in Ids : (Exists(id) => metaExpiresAt[id] > now)
                      /\ (members[id] = {} => membersExpiresAt[id] = 0)
    /\ index \subseteq Ids /\ mishaps \subseteq {"raced", "died"}
    /\ calls \in [Callers -> Call \cup Pass \cup {Idle}]
    /\ cleaning \in [Cleaners -> Pass \cup {Idle}]

(* Joins that pass the cap together overshoot it by what is in flight and  *)
(* no more: with n requests at once a roster holds at most n - 1 agents    *)
(* too many, whoever leaves, ends or joins again meanwhile.                *)
RosterHolds ==
    setting.cap > 0 =>
        \A id \in Ids : Cardinality(members[id]) < setting.cap + Cardinality(Callers)

(* A session that exists is in the index, or a touch is about to put it    *)
(* there; otherwise a call died before it did, or list or a cleaner        *)
(* dropped it after the record they found gone had come back.              *)
UnlistedIsExplained ==
    mishaps = {} =>
        \A id \in Ids : Exists(id) =>
            id \in index \/ \E c \in Callers : calls[c].at = "list" /\ calls[c].req.id = id

(* An expired session leaves the index, or comes back, whichever server's  *)
(* cleaner runs and even if one dies in the middle of its pass.            *)
ExpiredLeavesIndex ==
    \A id \in Ids :
        (setting.cleaners # {} /\ id \in index /\ ~Exists(id)) ~> (id \notin index \/ Exists(id))
=============================================================================
