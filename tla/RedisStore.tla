------------------------------ MODULE RedisStore ------------------------------
(***************************************************************************)
(* The context store's Redis backend (backends/redis-store.ts): one        *)
(* session of one tenant.  Each full key owns a value (ctx), a history     *)
(* sorted by version (hist) and a hash of the results of the operations    *)
(* applied to it (ops); each of the three has an expiry time of its own.   *)
(* `keys` is the session's index set.                                      *)
(*                                                                         *)
(* A Lua script is one action, since Redis runs it alone.  A method that   *)
(* talks to Redis more than once (delete, list, and a client's             *)
(* read-modify-write) is one action per round trip.                        *)
(***************************************************************************)
EXTENDS ConflictResolution, FiniteSets

CONSTANTS
    FullKeys,       \* the keys of the session
    OperationIds,   \* idempotency keys the callers generate
    Deleters,       \* callers of delete
    Listers,        \* callers of list
    CasClients,     \* callers that read, then write with expectedVersion
    Workloads,      \* the sets of requests callers may make of a key
    OpsTtl,         \* SPANOAI_OPS_TTL_SECONDS
    MaxTime,        \* bound on the clock, beside that of each workload
    MaxCommits      \* bound on the commits made to one key

None == -1          \* "not supplied", as the scripts' arguments spell it

WriteRequest ==
    [value : Value, strategy : Strategies, confidence : Confidences,
     ttlSeconds : Nat, expectedVersion : Nat \cup {None},
     allowRestore : BOOLEAN]
AppendRequest    == [ttlSeconds : Nat, maxItems : Nat]
IncrementRequest == [ttlSeconds : Nat, by : Int]
Workload == [writes : SUBSET WriteRequest, appends : SUBSET AppendRequest,
             increments : SUBSET IncrementRequest,
             deleteExpects : SUBSET (Nat \cup {None}),
             listed : BOOLEAN, until : Nat]     \* is it listed; bound on its clock

ASSUME StoreConstants ==
    /\ Workloads \subseteq Workload
    /\ OperationIds \subseteq Items    \* an appended item is named by its append
    /\ OpsTtl \in Nat \ {0}
    /\ MaxTime \in Nat
    /\ MaxCommits \in Nat

VARIABLES
    workload,       \* what callers ask of each key, fixed from the start
    now,            \* the clock
    ctx, ctxExpiresAt,
    hist, histExpiresAt,
    ops, opsExpiresAt,
    keys,
    deleting,       \* the delete each deleter has in flight
    listing,        \* the list each lister has in flight
    swapping,       \* what each read-modify-write client has read
    log             \* history variable: every commit ever made to a key

stored  == <<ctx, ctxExpiresAt, hist, histExpiresAt, ops, opsExpiresAt>>
callers == <<deleting, listing, swapping>>
vars    == <<workload, now, stored, keys, callers, log>>

Entry ==
    [version : Nat \ {0}, value : Value, confidence : Confidences,
     ttlSeconds : Nat, writtenAt : Nat, isDeleted : BOOLEAN,
     operationId : OperationIds]
NoExpiry == 0
NoResult == [outcome |-> "none"]
Result   == [outcome : {"written", "deleted"}, entry : Entry]
Idle     == [step |-> "idle"]
InDelete == [step : {"read"}, key : FullKeys, operationId : OperationIds,
             expectedVersion : Nat \cup {None}, seen : Entry, at : Nat]
InList   == [step : {"reading"}, todo : SUBSET FullKeys,
             found : SUBSET (FullKeys \X Entry), stale : SUBSET FullKeys,
             since : [FullKeys -> Nat]]
InCas    == [step : {"read"}, key : FullKeys, seen : Entry \cup {NoEntry},
             commits : Nat]
LogRecord == [entry : Entry, at : Nat]

Writes(k)        == workload[k].writes
Appends(k)       == workload[k].appends
Increments(k)    == workload[k].increments
DeleteExpects(k) == workload[k].deleteExpects

-----------------------------------------------------------------------------
(* Reading.                                                                *)

CurrentVersion(k) == ctx[k].version
Exists(k)         == ctx[k] # NoEntry
Replayed(k, op)   == ops[k][op] # NoResult

IsStale(e) == e.ttlSeconds # 0 /\ now - e.writtenAt > e.ttlSeconds

(* get with includeDeleted; a key it does not show reads as null.          *)
Readable(k)  == Exists(k) /\ ~IsStale(ctx[k])
(* get without it.                                                         *)
Get(k) == IF Readable(k) /\ ~ctx[k].isDeleted THEN ctx[k] ELSE NoEntry

-----------------------------------------------------------------------------
(* EXPIRE with a TTL of 0 is not sent: t stays what it was.                *)
ExpireIfNone(t, ttl) == IF ttl > 0 /\ t = NoExpiry THEN now + ttl ELSE t \* mutant
Expire(t, ttl)       == IF ttl > 0 THEN now + ttl ELSE t

(* What the scripts file under the operation that committed.               *)
RecordedWritten(outcome, e) == [outcome |-> "written", entry |-> e] \* mutant
Recorded(outcome, e)        == [outcome |-> outcome, entry |-> e]

(* Mutant of Commit: the history is not given the entry's TTL.             *)
CommitHistoryKept(k, e, ttl, outcome) ==
    /\ Len(log[k]) < MaxCommits
    /\ ctx' = [ctx EXCEPT ![k] = e]
    /\ ctxExpiresAt' = [ctxExpiresAt EXCEPT ![k] = Expire(NoExpiry, ttl)]
    /\ hist' = [hist EXCEPT ![k] = @ \cup {e}]
    /\ keys' = keys \cup {k}
    /\ ops' = [ops EXCEPT ![k][e.operationId] = Recorded(outcome, e)]
    /\ opsExpiresAt' = [opsExpiresAt EXCEPT ![k] = Expire(@, OpsTtl)]
    /\ log' = [log EXCEPT ![k] = Append(@, [entry |-> e, at |-> now])]
    /\ UNCHANGED <<now, histExpiresAt>>

(* The common end of the three scripts: SET, which drops the expiry the    *)
(* key had, ZADD, SADD, both EXPIREs when a TTL was asked for, and the     *)
(* operation's result with its own, always renewed, expiry.                *)
Commit(k, e, ttl, outcome) ==
    /\ Len(log[k]) < MaxCommits
    /\ ctx' = [ctx EXCEPT ![k] = e]
    /\ ctxExpiresAt' = [ctxExpiresAt EXCEPT ![k] = Expire(NoExpiry, ttl)]
    /\ hist' = [hist EXCEPT ![k] = @ \cup {e}]
    /\ histExpiresAt' = [histExpiresAt EXCEPT ![k] = Expire(@, ttl)]
    /\ keys' = keys \cup {k}
    /\ ops' = [ops EXCEPT ![k][e.operationId] = Recorded(outcome, e)]
    /\ opsExpiresAt' = [opsExpiresAt EXCEPT ![k] = Expire(@, OpsTtl)]
    /\ log' = [log EXCEPT ![k] = Append(@, [entry |-> e, at |-> now])]
    /\ UNCHANGED now

(* Step 3 of WRITE_SCRIPT: a supplied expectedVersion is not the current   *)
(* one.  The mutant takes an expectedVersion of 0 for none supplied.       *)
CasGiven(r)          == r.expectedVersion # None
CasFailsTruthy(k, r) == r.expectedVersion > 0 /\ r.expectedVersion # CurrentVersion(k)
CasFails(k, r)       == CasGiven(r) /\ r.expectedVersion # CurrentVersion(k)

(* Step 4: a live write on a tombstone needs allowRestore and a version.   *)
(* The mutant asks for allowRestore alone.                                 *)
OnTombstone(k, r)      == Exists(k) /\ ctx[k].isDeleted /\ ~r.isDeleted
ResurrectsLoosely(k, r) == OnTombstone(k, r) /\ ~r.allowRestore
Resurrects(k, r)       == OnTombstone(k, r) /\ ~(r.allowRestore /\ CasGiven(r))

(* The outcome of a write that is not a replay.                            *)
Decision(k, r) ==
    IF CasFails(k, r) THEN "conflict"
    ELSE IF Resurrects(k, r) THEN "rejected"
    ELSE IF LuaResolve(ctx[k], r, CasGiven(r)).winner = "existing"
         THEN IF r.strategy = "reject" THEN "rejected" ELSE "kept_existing"
    ELSE IF r.isDeleted THEN "deleted" ELSE "written"

(* WRITE_SCRIPT on request r: its outcome, in the order the script decides *)
(* (1 idempotency, 3 CAS, 4 resurrection guard, 5 conflict strategy).  The *)
(* mutant has no step 1.                                                   *)
WriteOutcomeAnew(k, op, r) == Decision(k, r)
WriteOutcome(k, op, r) ==
    IF Replayed(k, op) THEN "replay" ELSE Decision(k, r)

(* The script itself; at is the time its caller stamped on the request.    *)
(* An outcome other than these two changes nothing in Redis.               *)
WriteScript(k, op, r, at) ==
    LET outcome == WriteOutcome(k, op, r)
    IN  /\ outcome \in {"written", "deleted"}
        /\ Commit(k,
                  [version     |-> CurrentVersion(k) + 1,
                   value       |-> LuaResolve(ctx[k], r, CasGiven(r)).value,
                   confidence  |-> r.confidence,
                   ttlSeconds  |-> r.ttlSeconds,
                   writtenAt   |-> at,
                   isDeleted   |-> r.isDeleted,
                   operationId |-> op],
                  r.ttlSeconds, outcome)

(* A write: r plus the isDeleted = false of the candidate entry.           *)
Candidate(r) ==
    [value |-> r.value, strategy |-> r.strategy, confidence |-> r.confidence,
     ttlSeconds |-> r.ttlSeconds, expectedVersion |-> r.expectedVersion,
     allowRestore |-> r.allowRestore, isDeleted |-> FALSE]

Write(k, op, r) ==
    /\ WriteScript(k, op, Candidate(r), now)
    /\ UNCHANGED callers

(* The entry append and increment start from when the key holds none.      *)
BaseEntry(value, ttl) ==
    [version |-> 0, value |-> value, confidence |-> Full, ttlSeconds |-> ttl,
     writtenAt |-> now, isDeleted |-> FALSE]

(* The entry both store: the existing one (or the base) with a new value,  *)
(* version, time and operation, and live again if it was deleted.          *)
Mutated(e, value, op) ==
    [version |-> e.version + 1, value |-> value, confidence |-> e.confidence,
     ttlSeconds |-> e.ttlSeconds, writtenAt |-> now, isDeleted |-> FALSE,
     operationId |-> op]

(* APPEND_SCRIPT; the request's items are the one item named op.           *)
AppendOutcome(k, op) ==
    IF Replayed(k, op) THEN "replay"
    ELSE IF Exists(k) /\ ~LuaIsArray(ctx[k].value) THEN "rejected"
    ELSE "written"

AppendTo(k, op, r) ==
    LET e == IF Exists(k) THEN ctx[k] ELSE BaseEntry(EmptyArray, r.ttlSeconds)
    IN  /\ AppendOutcome(k, op) = "written"
        /\ Commit(k, Mutated(e, AppendItems(e.value, <<op>>, r.maxItems), op),
                  r.ttlSeconds, "written")
        /\ UNCHANGED callers

(* INCREMENT_SCRIPT.                                                       *)
IncrementOutcome(k, op) ==
    IF Replayed(k, op) THEN "replay"
    ELSE IF Exists(k) /\ ~LuaIsNumeric(ctx[k].value) THEN "rejected"
    ELSE "written"

Increment(k, op, r) ==
    LET e == IF Exists(k) THEN ctx[k] ELSE BaseEntry(<<"number", 0>>, r.ttlSeconds)
    IN  /\ IncrementOutcome(k, op) = "written"
        /\ Commit(k, Mutated(e, AddTo(e.value, r.by), op), r.ttlSeconds, "written")
        /\ UNCHANGED callers

-----------------------------------------------------------------------------
(* delete: a GET, with two early returns (not_found, already_deleted),     *)
(* then the write script with a tombstone built from what the GET saw.     *)

DeleteReadUnchecked(d, k, op, x) ==       \* mutant: no not_found return
    /\ deleting[d] = Idle
    /\ deleting' = [deleting EXCEPT
                       ![d] = [step |-> "read", key |-> k, operationId |-> op,
                               expectedVersion |-> x, seen |-> ctx[k], at |-> now]]
    /\ UNCHANGED <<now, stored, keys, listing, swapping, log>>

DeleteRead(d, k, op, x) ==
    /\ deleting[d] = Idle
    /\ Readable(k) /\ ~ctx[k].isDeleted
    /\ deleting' = [deleting EXCEPT
                       ![d] = [step |-> "read", key |-> k, operationId |-> op,
                               expectedVersion |-> x, seen |-> ctx[k], at |-> now]]
    /\ UNCHANGED <<now, stored, keys, listing, swapping, log>>

TombstoneUnversioned(del) ==              \* mutant: expectedVersion is not passed on
    [value |-> del.seen.value, strategy |-> "lww",
     confidence |-> del.seen.confidence, ttlSeconds |-> del.seen.ttlSeconds,
     expectedVersion |-> None, allowRestore |-> FALSE, isDeleted |-> TRUE]

Tombstone(del) ==
    [value |-> del.seen.value, strategy |-> "lww",
     confidence |-> del.seen.confidence, ttlSeconds |-> del.seen.ttlSeconds,
     expectedVersion |-> del.expectedVersion, allowRestore |-> FALSE,
     isDeleted |-> TRUE]

DeleteWrite(d) ==
    LET del == deleting[d]
    IN  /\ del # Idle
        /\ \/ WriteScript(del.key, del.operationId, Tombstone(del), del.at)
           \/ /\ WriteOutcome(del.key, del.operationId, Tombstone(del))
                    \notin {"written", "deleted"}
              /\ UNCHANGED <<now, stored, keys, log>>
        /\ deleting' = [deleting EXCEPT ![d] = Idle]
        /\ UNCHANGED <<listing, swapping>>

-----------------------------------------------------------------------------
(* list: SMEMBERS, one GET per member in any order, then SREM of the       *)
(* members whose GET returned null.  since records how much of each key's  *)
(* log had been written when the list began.                               *)

ListStart(l) ==
    /\ listing[l] = Idle
    /\ \E k \in FullKeys : workload[k].listed
    /\ listing' = [listing EXCEPT
                      ![l] = [step |-> "reading", todo |-> keys, found |-> {},
                              stale |-> {},
                              since |-> [k \in FullKeys |-> Len(log[k])]]]
    /\ UNCHANGED <<now, stored, keys, deleting, swapping, log>>

ListGet(l, k) ==
    LET before == listing[l]
        found  == IF Get(k) # NoEntry
                  THEN before.found \cup {<<k, Get(k)>>} ELSE before.found
        stale  == IF Get(k) = NoEntry THEN before.stale \cup {k} ELSE before.stale
    IN  /\ before # Idle
        /\ k \in before.todo
        /\ listing' = [listing EXCEPT
                          ![l] = [before EXCEPT !.todo = before.todo \ {k},
                                                !.found = found, !.stale = stale]]
        /\ UNCHANGED <<now, stored, keys, deleting, swapping, log>>

ListReturn(l) ==
    /\ listing[l] # Idle
    /\ listing[l].todo = {}
    /\ keys' = keys \ listing[l].stale
    /\ listing' = [listing EXCEPT ![l] = Idle]
    /\ UNCHANGED <<now, stored, deleting, swapping, log>>

-----------------------------------------------------------------------------
(* A client's compare-and-set of a counter that others may increment: it   *)
(* reads the entry, then writes the number after the one it read,          *)
(* expecting the version it read (0 when it read null).                    *)
IsCounter(k) == Writes(k) \cup Appends(k) = {} /\ Increments(k) # {}

CasRead(c, k) ==
    /\ swapping[c] = Idle
    /\ IsCounter(k)
    /\ swapping' = [swapping EXCEPT ![c] = [step |-> "read", key |-> k, seen |-> Get(k),
                                  commits |-> Len(log[k])]]
    /\ UNCHANGED <<now, stored, keys, deleting, listing, log>>

CasRequest(seen) ==
    [value           |-> IF seen = NoEntry THEN <<"number", 1>> ELSE AddTo(seen.value, 1),
     strategy        |-> "lww", confidence |-> Full, ttlSeconds |-> 0,
     expectedVersion |-> seen.version, allowRestore |-> FALSE,
     isDeleted       |-> FALSE]

CasWrite(c, op) ==
    LET k == swapping[c].key
        r == CasRequest(swapping[c].seen)
    IN  /\ swapping[c] # Idle
        /\ \/ WriteScript(k, op, r, now)
           \/ /\ WriteOutcome(k, op, r) \notin {"written", "deleted"}
              /\ UNCHANGED <<now, stored, keys, log>>
        /\ swapping' = [swapping EXCEPT ![c] = Idle]
        /\ UNCHANGED <<deleting, listing>>

-----------------------------------------------------------------------------
(* Redis drops a key when its expiry time comes.                           *)
Due(expiresAt) == expiresAt # NoExpiry /\ expiresAt <= now + 1

Tick ==
    /\ now < MaxTime /\ \A k \in FullKeys : now < workload[k].until
    /\ now' = now + 1
    /\ ctx' = [k \in FullKeys |-> IF Due(ctxExpiresAt[k]) THEN NoEntry ELSE ctx[k]]
    /\ ctxExpiresAt' = [k \in FullKeys |->
          IF Due(ctxExpiresAt[k]) THEN NoExpiry ELSE ctxExpiresAt[k]]
    /\ hist' = [k \in FullKeys |-> IF Due(histExpiresAt[k]) THEN {} ELSE hist[k]]
    /\ histExpiresAt' = [k \in FullKeys |->
          IF Due(histExpiresAt[k]) THEN NoExpiry ELSE histExpiresAt[k]]
    /\ ops' = [k \in FullKeys |->
          IF Due(opsExpiresAt[k]) THEN [op \in OperationIds |-> NoResult] ELSE ops[k]]
    /\ opsExpiresAt' = [k \in FullKeys |->
          IF Due(opsExpiresAt[k]) THEN NoExpiry ELSE opsExpiresAt[k]]
    /\ UNCHANGED <<keys, callers, log>>

Init ==
    /\ workload \in [FullKeys -> Workloads]
    /\ now = 0
    /\ ctx = [k \in FullKeys |-> NoEntry]
    /\ ctxExpiresAt = [k \in FullKeys |-> NoExpiry]
    /\ hist = [k \in FullKeys |-> {}]
    /\ histExpiresAt = [k \in FullKeys |-> NoExpiry]
    /\ ops = [k \in FullKeys |-> [op \in OperationIds |-> NoResult]]
    /\ opsExpiresAt = [k \in FullKeys |-> NoExpiry]
    /\ keys = {}
    /\ deleting = [d \in Deleters |-> Idle]
    /\ listing = [l \in Listers |-> Idle]
    /\ swapping = [c \in CasClients |-> Idle]
    /\ log = [k \in FullKeys |-> << >>]

Step ==
    \/ \E k \in FullKeys, op \in OperationIds :
          \/ \E r \in Writes(k) : Write(k, op, r)
          \/ \E r \in Appends(k) : AppendTo(k, op, r)
          \/ \E r \in Increments(k) : Increment(k, op, r)
          \/ \E d \in Deleters, x \in DeleteExpects(k) : DeleteRead(d, k, op, x)
    \/ \E d \in Deleters : DeleteWrite(d)
    \/ \E l \in Listers : ListStart(l) \/ ListReturn(l)
    \/ \E l \in Listers, k \in FullKeys : ListGet(l, k)
    \/ \E c \in CasClients, k \in FullKeys : CasRead(c, k)
    \/ \E c \in CasClients, op \in OperationIds : CasWrite(c, op)
    \/ Tick

Next == Step /\ UNCHANGED workload

Spec == Init /\ [][Next]_vars

-----------------------------------------------------------------------------
(* Properties.                                                             *)

(* Every variable has its type (the shapes ContextEntry and the Lua        *)
(* result give what Redis holds).                                          *)
TypeOK ==
    /\ workload \in [FullKeys -> Workloads]
    /\ now \in Nat
    /\ ctx \in [FullKeys -> Entry \cup {NoEntry}]
    /\ ctxExpiresAt \in [FullKeys -> Nat]
    /\ hist \in [FullKeys -> SUBSET Entry]
    /\ histExpiresAt \in [FullKeys -> Nat]
    /\ ops \in [FullKeys -> [OperationIds -> Result \cup {NoResult}]]
    /\ opsExpiresAt \in [FullKeys -> Nat]
    /\ keys \in SUBSET FullKeys
    /\ deleting \in [Deleters -> InDelete \cup {Idle}]
    /\ listing \in [Listers -> InList \cup {Idle}]
    /\ swapping \in [CasClients -> InCas \cup {Idle}]
    /\ log \in [FullKeys -> Seq(LogRecord)]

(* What history() returns is a gapless run of versions that ends with the  *)
(* entry get() returns: one entry per version, none above the current one, *)
(* and none left over from an entry that has expired.                      *)
HistoryEndsAtEntry ==
    \A k \in FullKeys : hist[k] # {} =>
        /\ ctx[k] \in hist[k]
        /\ \A e \in hist[k] : e.version <= CurrentVersion(k)
        /\ \A e, f \in hist[k] : e.version = f.version => e = f
        /\ \A e \in hist[k] : \A v \in e.version .. CurrentVersion(k) :
              \E f \in hist[k] : f.version = v

(* "Replaying the same operationId never creates a second version": two    *)
(* commits of one operation to one key, retried by whoever and however     *)
(* often, are at least the lifetime of the operation record apart.         *)
OncePerOpsTtl ==
    \A k \in FullKeys : \A i, j \in DOMAIN log[k] :
        /\ i < j
        /\ log[k][i].entry.operationId = log[k][j].entry.operationId
        => log[k][j].at >= log[k][i].at + OpsTtl

(* A replay answers with a commit this very operation made to this key,    *)
(* and with the outcome that commit had.                                   *)
ReplayIsOwnCommit ==
    \A k \in FullKeys, op \in OperationIds : Replayed(k, op) =>
        LET result == ops[k][op] IN
        /\ result.entry.operationId = op
        /\ (result.outcome = "deleted") = result.entry.isDeleted
        /\ \E i \in DOMAIN log[k] : log[k][i].entry = result.entry

(* Keys nobody gives a TTL, and those nobody deletes either: an expiry     *)
(* starts a key's versions and values again, and a delete its values.      *)
NeverExpires(k) ==
    \A r \in Writes(k) \cup Appends(k) \cup Increments(k) : r.ttlSeconds = 0
Lasting(k) == NeverExpires(k) /\ DeleteExpects(k) = {}

(* A compare-and-set that commits follows its own read: nobody committed   *)
(* to the key, nor deleted it, between the client's read and its write.    *)
CasExclusive ==
    [][\A c \in CasClients :
          (swapping[c] # Idle /\ swapping'[c] = Idle /\ log' # log
              /\ NeverExpires(swapping[c].key))
            => Len(log[swapping[c].key]) = swapping[c].commits]_vars

(* A stale write does not resurrect a deleted key: only a write with       *)
(* allowRestore and expectedVersion, an append or an increment replaces a  *)
(* tombstone by a live entry, however late a write or a compare-and-set    *)
(* that read the entry alive arrives.                                      *)
Resurrected(k) == Exists(k) /\ ctx[k].isDeleted /\ Live(ctx'[k])
Restores(k) ==
    \E op \in OperationIds, r \in Writes(k) :
        r.allowRestore /\ CasGiven(r) /\ Write(k, op, r)

WritesDoNotResurrect ==
    [][\A k \in FullKeys : Resurrected(k) =>
          \/ Restores(k)
          \/ \E op \in OperationIds :
                \/ \E r \in Appends(k) : AppendTo(k, op, r)
                \/ \E r \in Increments(k) : Increment(k, op, r)]_vars

(* No lost update and no double one: a counter that only increments and    *)
(* compare-and-sets by one touch holds the number of operations that were  *)
(* applied to it, for as long as operations are remembered.                *)
CounterIsExact ==
    \A k \in FullKeys :
        /\ IsCounter(k) /\ \A r \in Increments(k) : r.by = 1
        /\ Lasting(k) /\ workload[k].until < OpsTtl
        /\ Live(ctx[k])
        => ctx[k].value =
              <<"number",
                Cardinality({log[k][i].entry.operationId : i \in DOMAIN log[k]})>>

(* No lost append: the list of a key that only appends of one maxItems     *)
(* touch holds the items of the operations applied to it, each once, in    *)
(* commit order, or the newest maxItems of them.                           *)
AppendsAreKept ==
    \A k \in FullKeys : \A r \in Appends(k) :
        /\ Writes(k) \cup Increments(k) = {} /\ \A q \in Appends(k) : q.maxItems = r.maxItems
        /\ Lasting(k)
        /\ Live(ctx[k])
        => ctx[k].value =
              <<"array",
                Newest([i \in DOMAIN log[k] |-> log[k][i].entry.operationId],
                       r.maxItems)>>

(* Concurrent merges lose no field: on a key that only merges of objects   *)
(* write, a field one of them gave it stays, whatever appends and          *)
(* increments are tried on it as well.                                     *)
FieldsOf(v) == IF v[1] = "object" THEN DOMAIN v[2] ELSE {}
FieldsAreKept ==
    \A k \in FullKeys :
        /\ \A r \in Writes(k) : r.strategy = "merge" /\ r.value[1] = "object"
        /\ Lasting(k)
        => \A i, j \in DOMAIN log[k] : i < j =>
              FieldsOf(log[k][i].entry.value) \subseteq FieldsOf(log[k][j].entry.value)

(* On a key that only writes of the confidence strategy touch, and no      *)
(* compare-and-set overrules, the first one at the highest confidence      *)
(* wins, in whatever order they arrive.                                    *)
ConfidenceClimbs ==
    \A k \in FullKeys :
        /\ Appends(k) \cup Increments(k) = {}
        /\ \A r \in Writes(k) : r.strategy = "conf" /\ ~CasGiven(r)
        /\ Lasting(k)
        => \A i, j \in DOMAIN log[k] :
              i < j => log[k][i].entry.confidence < log[k][j].entry.confidence

(* What concurrent updates of one key give it is kept: nothing that a      *)
(* committed increment, append, merge or confident write contributed is    *)
(* lost or counted twice.                                                  *)
UpdatesAreKept == CounterIsExact /\ AppendsAreKept /\ FieldsAreKept /\ ConfidenceClimbs

(* conflict.ts "mirrors that decision logic": for whatever entry a key has *)
(* come to hold and whatever write meets it, the script and the TypeScript *)
(* mirror pick the same winner and the same value.  (They differ when an   *)
(* empty array is merged: see MirrorAgreesWithLua.)                        *)
MergesEmptyArray(e, r) ==
    r.strategy = "merge" /\ EmptyArray \in {e.value, r.value}
MirrorAgrees ==
    \A k \in FullKeys : \A r \in Writes(k) :
        Exists(k) /\ ~MergesEmptyArray(ctx[k], r) =>
            LuaResolve(ctx[k], Candidate(r), CasGiven(r))
                = TsResolve(ctx[k], Candidate(r), CasGiven(r))

(* What a method reads in one round trip it acts on in a later one, and    *)
(* others write in between.  A delete that names a version its GET could   *)
(* know of makes a tombstone of the very entry the GET saw: no value is    *)
(* deleted unseen or put back to an older one.  A list takes a key it saw  *)
(* null out of the index while the key is live only if the key was written *)
(* while the list ran; no lapse, delete or earlier write hides a live key. *)
NamesVersionSeen(del) == del.expectedVersion \in 1 .. del.seen.version
DeletesWhatItRead(d) ==
    LET del == deleting[d]
    IN  (del # Idle /\ deleting'[d] = Idle /\ log' # log
            /\ NeverExpires(del.key) /\ NamesVersionSeen(del))
          => /\ ctx[del.key] = del.seen
             /\ ctx'[del.key].isDeleted /\ ctx'[del.key].value = del.seen.value

Unlisted(k) == k \in keys /\ k \notin keys'
UnlistsOnlyRewritten(k) ==
    Unlisted(k) /\ Get(k) # NoEntry =>
        \E l \in Listers :
            /\ listing[l] # Idle /\ listing'[l] = Idle
            /\ Len(log[k]) > listing[l].since[k]

ActsOnWhatItRead ==
    [][/\ \A d \in Deleters : DeletesWhatItRead(d)
       /\ \A k \in FullKeys : UnlistsOnlyRewritten(k)]_vars

(* The store implements the versioned register: one version per operation, *)
(* none skipped, none made by an operation still remembered.               *)
Register == INSTANCE VersionedRegister WITH
    version    <- [k \in FullKeys |-> CurrentVersion(k)],
    writer     <- [k \in FullKeys |->
                      IF Exists(k) THEN ctx[k].operationId ELSE "nobody"],
    remembered <- [k \in FullKeys |-> {op \in OperationIds : Replayed(k, op)}]

ImplementsRegister == Register!Spec

(* A statement of the documentation that the code does not keep.           *)

(* "A stale write cannot resurrect a deleted key; restore requires         *)
(* allowRestore + matching expectedVersion" (README.md).                   *)
NoSilentResurrection ==
    [][\A k \in FullKeys : Resurrected(k) => Restores(k)]_vars
=============================================================================
