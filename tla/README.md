# SpanoAI in TLA+

SpanoAI (`src/`) is a working memory and a message bus for groups of agents:
a Bun server (`src/apps/server`) over Redis and Postgres, with SDKs, an MCP
server, a dashboard and a documentation site. This directory holds TLA+ models
of the server's services, of its HTTP front and of the clients that call it, the
TLC runs that check them and the theorems TLAPS proves about them. Paths below
are under `src/apps/server/src/` unless they say otherwise.

To repeat a check: `tlc -workers 2 -config <run>.cfg <module>.tla`, or
`tlapm <module>Proofs.tla`. `PROJECT.json` lists the components, the runs, the
hazards, the theorems, and for every definition the lines it translates.

## 1. The system

| Component | State it keeps | Operations | Talks to | What makes it correct |
|---|---|---|---|---|
| Context store backend, `backends/redis-store.ts` | per key: entry, version history, results of operations (each with its own expiry); per session: index of keys | Lua scripts write, append, increment; delete (GET, then the write script); get, list, history, has, countKeys | Redis | one version per operation, no lost update, no accidental resurrection, a gapless history |
| Conflict resolution, `context-store/conflict.ts` and step 5 of the script | none | the four strategies | – | the two copies decide alike; merge keeps fields, confidence climbs |
| Context store facade, `context-store/index.ts` | none of its own | write, delete, append, increment, awaitKey, search; entry cap before and audit, live event and embedding after the commit | backend, audit log, sessions, live events, search | every commit audited once; the cap holds; a waiter wakes |
| Message bus, `message-bus/`, `backends/redis-bus.ts` | per agent and priority a stream with one consumer group; metadata, replies, dead letters; the inbox registry | dispatch, broadcast, claim, ack, reply, request, awaitReply, replayDlq, sweep | Redis, audit log, live events | at-least-once, bounded retries, priority, an answer belongs to its question |
| Audit log, `audit-log/`, `backends/postgres-audit.ts` | per run: vector clock (Redis), step counter and rows (Postgres); one retry list (Redis) | append, drainRetries, getByRun, query, export; replay and diff | Redis, Postgres | contiguous steps, no entry lost or doubled across an outage |
| Sessions, `sessions/` | per session: record, member set, abort flag, each with its own TTL; the tenant's index | create, join, leave, end, touch, abort, list, cleanupExpired | Redis, audit log | the roster stays near its cap; a live session is listed; an expired one leaves the list |
| Artifacts, `artifacts/` | metadata row, bytes in object storage | initUpload, complete, downloadUrl, delete, runRetention; PUT and GET past the server | Postgres, object storage, audit log | only verified bytes are served; a verdict is final; bytes and audit agree with the row |
| Live events, `ws-broadcaster.ts` | per session a sequence number and a replay buffer; pub/sub | broadcast, getMissed, subscribe; the stream route (`api/app.ts`) and the SDK's reconnecting client | Redis | listeners stay subscribed while others leave; a reconnecting client is left no gap |
| Search index, `backends/pgvector-search.ts` | one embedding per key | upsert, query | Postgres | the newest version's embedding wins |
| Background jobs, `jobs/index.ts` | timers | sweeper, session cleaner, retention, audit drain | the above | overlapping runs do no harm |
| Authentication, `auth/` | keys, tokens, users and tenants (Postgres); a cache of verified credentials (Redis) | verify, create, revoke, signup, login, requireScope | Postgres, Redis | a revoked or expired credential is refused; one account per email |
| HTTP API, `api/` | counters of the rate limiter, stream tickets (Redis) | the routes and the middleware before them | all of the above | no window lets more than the limit through; a ticket opens one socket; each route demands its scope |
| Clients: the SDKs (`packages/`), the MCP server, the dashboard (`apps/web`) | calls in flight | requests, retries, composite calls (upload, download, stream, page loads) | HTTP API | a retried write takes effect once, and an answer means that it did |
| Configuration, wiring, migrations, documentation site | – | – | – | not modelled, see section 8 |

Redis runs a command, a MULTI or a Lua script alone; everything between two
commands may interleave with any other call of any process, and every process
may die there. The server is stateless, so several instances run the same
background jobs. What is hard in this code is therefore rarely inside a script
and nearly always between two round trips: delete's and list's, every method of
the bus, the sweeper against late acknowledgements and against itself, the
audit entry after the commit, and expiry in the middle of all of them. The
`hazards` of `PROJECT.json` name these places line by line.

## 2. Modules

| Module | Models | Builds on |
|---|---|---|
| `ConflictResolution` | values; the script's and the mirror's decision; what append and increment do to a value | – |
| `VersionedRegister` | abstract: what the store promises of a key | – |
| `RedisStore` | `redis-store.ts` | `ConflictResolution`; implements `VersionedRegister` |
| `AtLeastOnce` | abstract: what the bus promises of a message | – |
| `RedisBus` | `redis-bus.ts` as `message-bus/index.ts` calls it | implements `AtLeastOnce` |
| `VectorClock` | the pure operators of `audit-log/vector-clock.ts` | – |
| `AuditLog` | `audit-log/index.ts` over `postgres-audit.ts`, the drain job, the diff of `replay-engine.ts` | `VectorClock` |
| `LiveEvents` | `ws-broadcaster.ts`, the stream route of `api/app.ts`, `stream()` of the TypeScript SDK | – |
| `ContextStore` | `context-store/index.ts`: the calls, `awaitKey`, indexing and search over `pgvector-search.ts` | `VersionedRegister`, `LiveEvents` |
| `Sessions` | `sessions/index.ts`, the cleaner of `jobs/index.ts` | – |
| `Artifacts` | `artifacts/index.ts`, `postgres-artifacts.ts`, `upload` and `download` of the SDKs | – |
| `Access` | `auth/`, `api/middleware.ts`, the routes of `api/app.ts` | – |
| `Clients` | the TypeScript and Python SDKs, the MCP tools, the dashboard's pages | composed with `Access` |
| `MCRedisStore`, `MCRedisBus`, `MCAuditLog`, `MCContextStore`, `MCSessions`, `MCArtifacts`, `MCClients` | the instances TLC checks | |
| `ConflictResolutionProofs`, `RedisStoreProofs`, `RedisBusProofs`, `AuditLogProofs`, `ContextStoreProofs`, `SessionsProofs`, `ArtifactsProofs`, `ClientsProofs` | theorems; `ContextStoreProofs` covers `LiveEvents` and `ClientsProofs` covers `Access`, which they compose | |

### The store

`ctx`, `hist` and `ops` are the three Redis keys of a full key, `ctxExpiresAt`
and so on their expiry times, `keys` the session's index set. The scripts are
single actions (`Write`, `AppendTo`, `Increment`), each a `...Outcome` operator
that follows the script's early returns in their order, and `Commit`, the end
all three scripts share. `delete` is `DeleteRead` and `DeleteWrite`, with the
tombstone built from what the first saw; `list` is `ListStart`, one `ListGet`
per key and `ListReturn`, which removes from the index what was gone when it was
read. `CasRead`/`CasWrite` is a client's read-modify-write. `Tick` advances the
clock and lets Redis expire what is due. An outcome that changes nothing in
Redis (conflict, rejected, kept_existing, a replay) is no step of a single-call
operation; for the two-step ones it ends the call. `log` is a history variable:
every commit ever made to a key with its time.

An append's items are one item named by its `operationId`, so that a list says
which operations it holds. Confidence is a percentage. Values of the types
text, artifact and artifacts behave alike everywhere and are one kind.

`workload` says which requests callers may make of each key. It is chosen in
`Init` among `Workloads` and never changes: one run then covers several kinds
of traffic, and a property about a kind (a key that only appends touch) is
about the keys that receive it.

### The bus

A queue is a pair of an agent and a priority; `streams[q]` are the entries ever
added, `trimmed[q]` how many MAXLEN removed, `delivered[q]` the group's
position, `pending[q]` its pending list. Each call in flight is a record whose
field `at` names the command that comes next, held by one of `Senders`
(dispatch, broadcast, replayDlq), `Consumers` (claim, ack, reply) or `Sweepers`
(reclaimStuck on one stream). One action is one command. `Fault` kills a call at
any of its commands, or a consumer with what it works on, or expires a
message's metadata. Time is left out: an entry may be idle long enough to be
swept as soon as it is pending. `setting` plays the part `workload` plays for
the store: who takes part, whom each message is for, its priority and the
message it answers.

`done` and `replayed` are history variables: messages a consumer finished the
work of, and dead letters that were removed when a copy of theirs was in the
stream, so that a replay which removed first would count as a loss.

### The audit log

`clocks` are the Redis hashes TICK_SCRIPT advances, `steps` the rows of
`audit_run_counters`, `trail` the rows of `audit_log` by run in the order of
their steps, `retry` the Redis list all servers share. `append` is `AppendTick`
(the script), then `AppendStore` or `AppendFail` (the transaction), then
`AppendKeep` (LPUSH and LTRIM, whose failure is swallowed); `drainRetries` is
`DrainPop`, then `DrainStore` or `DrainFail` with `DrainKeep`. The transaction
is one action: the counter's row lock, taken by its first statement and held to
its end, lets no other of the run in between. It ends in one of three ways:
done, refused with its step rolled back, or committed with its answer lost.

`trouble` is what may still go wrong, chosen among `Troubles` in `Init`:
refusals, lost answers, deaths of servers (a failing Redis call ends a call the
same way) and expiries of a clock. `mishaps` remembers which of them occurred,
so that a property can say what it depends on. An entry's id is the number of
its append, its agent stands for the event type as well (the signature a diff
compares), its payload is left out. The drain's limit of 500 entries is left
out: a drain that stops there goes on at the next interval, which is what
`DrainStep` allows at any time.

### The facade and live events

`ContextStore` composes what the other modules establish. The storage is
`VersionedRegister`, one `Commit` per script, because `RedisStore` is proved to
implement it; which requests conflict is left open. The audit log is a list,
because `append` returns only once the entry is stored or buffered
(`audit-log/index.ts:97-111`). Live events are modelled in full by `LiveEvents`.
A call is a record in `calls` whose `at` names its next round trip: `has`,
`count`, `store` (delete: `get`, `tombstone`), `audit`, `emit`. `Begin` may make
the same request again, after or beside an earlier call of it. `waits` is the
loop of `awaitKey`; `woken` says whether the promise it holds is resolved.

In `LiveEvents` a broadcast is in `broadcasts` between its INCR, its MULTI and
its PUBLISH. The server's subscriber connection is `commands` (sent, not yet
executed) and `arriving` (events and answers on their way back), both in order,
as ioredis sends and Redis answers them; `handlers` and `channelTaken` are the
broadcaster's `handlers` and `subscribedChannels` for the channel. `listening`
follows each listener from "new" through "subscribing" and "on" to "off";
"left" is a socket that closed before `subscribe` returned, whose handler
stays. One server and one session are modelled: rooms of different sessions
share nothing, and servers meet only at Redis. `client.seen` and `client.first`
are history: the events it was given, and the first it is owed. `mishaps`
remembers whether broadcasts overlapped, one was lost, the buffer expired, or a
client lost its connection with an event noted but its resync still to come
("skip").

An indexed write leaves `maybeIndex` running: `embeddings` are those calls,
between the commit and the upsert, and `rows` is what the table holds of each
key. append indexes as write does; increment and a delete index nothing, and a
search reads the table and drops hits whose entry is gone (`Found`). `unsure` is
history: keys two embeddings of which overlapped, or one of which failed.

### Sessions

`meta`, `members` and `abortExpiresAt` are the three Redis keys of a session,
with their expiry times, `index` the tenant's set. One action is one command;
the first of an operation begins it (`JoinRead`, `TouchSet`, `EndAudit`, ...) and
a record in `calls`, or in `cleaning` for a cleaner's pass, says which comes
next. A pass holds the ids it read (`ids`) and works through them one by one,
as list does. `Tick` lets every key expire that is due. `mishaps` is history:
"raced" when list or a cleaner dropped an index entry of a session that had come
back since they looked, "died" when a call or a pass died half-way.

### Artifacts

`row` is the artifacts table, `object` the bucket, `uploadUrls` the presigned
PUTs that still work. `complete` is `RequirePending`, `Stat`, `Hash`, `Scan`,
`DeleteBytes` (for a rejection), `SetStatus` and `Audit`; `delete` shares the
last three. `Put` and `Get` go past the server, as the SDKs' `upload` and
`download` do. A file's content is identified with its sha256. `told` is the
last status the audit log has of a file. `marks` is history: what has happened
to a file that excuses it from a property, e.g. "rewritten" when its upload URL
was used after a check of complete.

### Access and clients

`Access` is the server as a request meets it: `server[s]` is the request of an
attempt `s` (a call and the number of its try) and `at` the next round trip:
`cached`, `lookup`, `remember`, `limit`, `count`, `handle` and so on. `credential`
are the rows of keys and dashboard tokens, `cache` until when a verifier is cached,
`tickets` and `opened` the tickets and the sockets they opened. The rate limiter
reads its clock (`Limit`, the local `window`) and increments the counter of that
window in a later round trip (`Count`): a request may count late, in the counter of
a window that is over, which may have expired meanwhile (`Counters`). `passed` is
how many requests of a bucket that read the clock in the present window were let
through. What a facade does takes effect in one of three ways, and `applied`
counts how often a call did:

- write, append and increment (`Replay`): the script replays an `operationId` it
  knows;
- dispatch, claim, ack, create, join, leave, end and the like (`Repeat`) are done
  again whenever they are asked again;
- delete, deleteArtifact, complete and replayDlq (`Look`) find out whether they
  were done, act round trips later (`Act`), and the last show that they were done
  in a further one (`Mark`): a dead letter is enqueued before it is removed, bytes
  are deleted before the row is. Attempts that overlap act again.

Every call has a key, an artifact or a dead letter of its own; how several callers
contend for one is the matter of the components' own modules.
`Clients` adds the callers: `client[x]` sends the request
of call x, again as its kind of client does, and may give up an attempt that the
server still serves. `AgentFlows` and `UserFlows` are the sequences of requests
behind each composite call, tool and page.

## 3. Runs

| Run | Question | Size |
|---|---|---|
| `store` | one key; plain, conditional, guarded and restoring writes, or TTLs of 0, 1 and 2, with two deletes and three operation ids; and six workloads of merges, ranked writes, appends, increments, compare-and-sets and expiring keys with a list in flight: does each operation commit once, are replays truthful and histories gapless, is the abstract register implemented, does a write resurrect a tombstone or lose a field, an item or a count, do deletes and lists act on what they read? | 856 thousand states, 1.5 min |
| `bus_delivery` | five conversations: two overlapping sweeps; two crashes; a backlog and its replay; two priorities and two consumers; a question with two answers and a crash. Is anything lost, is the abstract bus implemented, do claims respect priority, are recorded replies answers? | 578 thousand, 2 min |
| `bus_settles` | a message nobody need acknowledge, with fairness: does it end as done or as a dead letter, within its delivery budget? | 128 thousand, 40 s |
| `audit_trail` | two appenders, two drain jobs and two runs through an outage longer than the retry list, a lost answer with a lapsed clock, or a death: are steps contiguous, are buffered entries kept and drained, do clocks order a run, does a diff find the first divergence? | 301 thousand, 3 min |
| `session` | new keys at the entry cap, an increment among them; a write made twice beside a delete and a death; two waiters and a lost event; a stream that reconnects; a waiter and a stream together; a stream whose connection drops before its resync; two indexed texts and a delete: does the cap hold, is every version audited exactly once, does search end at the newest text, is a wakeup ever lost, are listeners served, are gaps recovered? | 1.42 million, 1 min |
| `session_registry` | three agents at a cap of one; a session kept, listed and left to expire with two cleaners and a death; one aborted and ended while it is joined; two sessions listed: does the roster hold, is a live session listed, does an expired one leave? | 130 thousand, 45 s |
| `artifact_life` | an upload completed twice and replaced; wrong sizes and hashes with a scanner and a fault; another size put between two checks; a file too large to be hashed; a delete and a download through two faults: are downloads verified, are verdicts final, do bytes and audit agree with the row? | 625 thousand, 1 min |
| `gateway` | every flow of the SDKs, the tools and the pages by itself; an append and a replayDlq through two faults; pairs of retried writes, of calls that look first (replayDlq, deletes, complete) and of calls that do not (claim, join, end) through one; scopes; a key revoked and a token expiring or logged out while they are used; two signups of one email; a ticket used twice: are ended credentials refused, do the gates hold, is an answered write applied exactly once, and any other call at most once per attempt? | 1.35 million, 2 min |
| `store_resurrection`, `audit_lost`, `stream_missed`, `artifact_mismatch` | statements of the documentation the code does not keep (section 6) | short counterexamples |

### Bounds

`MaxCommits` (3 per key), `MaxTime` (3 in the store, 2 elsewhere), `MaxEntries` (entries ever added to a
stream: 3 or 4), `maxFaults` (per setting, at most 2). Three commits are the
least that tell "every two commits" from "the last one", let a list overflow
`maxItems` = 2 and let a tombstone be restored; with `OpsTtl` = 2 a time of 3
lets an operation record expire and its id be used again. Three entries are a
message, its retry and a retry of either by an overlapping sweep.
`StreamMaxLen` is above `MaxEntries` in every run: with a trim the bus does
lose messages (section 6). Operation ids, deleters, consumers and sweepers are
symmetric; runs with a liveness property use no symmetry.

The audit log has `MaxEntries` = 3 appends and `RetryMax` = 2, so that a third
buffered entry overflows the list, and one drain can stand between its RPOP and
its RPUSH while the other drains or an append trims. `Troubles` are three
storms of at most three mishaps: every kind occurs, and one storm is a plain
outage, for which `OutageIsDrained` and `OutageLosesNothing` exclude nothing
but the overflow.

`session` has eight settings rather than one with everything: what can go wrong
between writers needs no listener, and a stream needs one writer only. Three
requests and a cap of 1 let two callers pass the check together and a third
find the cap overshot. A replay buffer of one event (two in `stream_missed`)
and three events make a gap that fits and one that does not. `inFlight` (1 or
2) bounds overlapping broadcasts, `attempts` how often a request is made,
`deaths` is 1, and stands for a call that throws as well. Two waiters and three
sockets are what it takes for one listener's UNSUBSCRIBE to cross another's
SUBSCRIBE, and for a client to lose a connection before its resync and come back.

`session_registry`: a clock of 2 and TTLs of 1 and 2 let a record expire before,
with or after its member set, and be created again. Two calls and two cleaners
are enough for any two commands to cross; a third agent finds the roster full.
`artifact_life`: three callers are a complete, a delete or second complete, and a
client that uses the upload URL between their steps. Four contents tell apart a
wrong size, a wrong hash and no hash. `gateway`: four calls of two attempts,
`RateLimit` = 2 so that a third request of a window is refused, TTLs of 1 and a
clock of 2 so that a token, its cached verifier and a window can end in any
order, and a request count in a window that is over; `Settings` names for each question the accounts that exist and what is
called.

`CHECK_DEADLOCK FALSE`: callers may simply stop calling, and the bounds end
every behaviour.

### Fairness

`bus_settles` assumes weak fairness of each sender's, consumer's and sweeper's
next command and no more: an agent polls `claim` in a loop, `jobs/index.ts:24-40`
runs the sweeper on an interval whatever happened to the run before, and a call
that was made is carried through unless its process dies. Nothing obliges a
consumer to acknowledge or to reply, or a sender to dispatch. `audit_trail` and
`audit_lost` assume the same of an append that has begun and of each drain job
(`jobs/index.ts:50-52`); that Postgres comes back is the bound on `refused`.
`session_registry` assumes it of each cleaner's next command
(`jobs/index.ts:36-44`, an interval on every server): a cleaner whose pass dies
begins another. The clock need not advance.

## 4. Properties

Each is stated, with the code behaviour it is about, above its definition.
`RedisStore`: `HistoryEndsAtEntry`, `OncePerOpsTtl`, `ReplayIsOwnCommit`,
`WritesDoNotResurrect`, `ImplementsRegister`, `CasExclusive`, `UpdatesAreKept`,
`ActsOnWhatItRead`. `RedisBus`: `NothingIsLost`, `ImplementsDelivery`,
`EverythingSettles`, `DeliveryBudget`, `ClaimTakesHighest`,
`RecordedReplyAnswers`. `AuditLog`: `StepsAreContiguous`, `OutageLosesNothing`,
`OutageIsDrained`, `ClocksOrderTheRun`, `DiffFindsFirst`. `ContextStore`:
`CapHolds`, `CommitsAreFollowedUp`, `WakeupIsNotLost`; `LiveEvents`:
`ListenersAreServed`, `GapIsRecovered`. `Sessions`: `RosterHolds`,
`UnlistedIsExplained`, `ExpiredLeavesIndex`. `Artifacts`: `DownloadsAreVerified`,
`StatusIsTrue`, `LifecycleHolds`. `Access` and `Clients`: `EndedIsRefused`,
`GatesHold`, `AppliedAsAnswered`. Every property has a mutant: a plausible bug of
the code, written beside the definition it replaces and marked `mutant`, under
which the same run fails.

`WakeupIsNotLost` says that awaitKey's poll timer is never needed: whenever the
call waits although the key is there, an event that wakes it is on its way. The
timer would otherwise hide a lost wakeup, and with it a slower answer.
`ListenersAreServed` is the property that makes the broadcaster's bookkeeping
work: an UNSUBSCRIBE of the last listener may be on the connection while a new
listener subscribes, and the order on that connection saves it. `CapHolds`
states the overshoot the code allows, not the cap itself: n callers leave at
most n - 1 keys too many. `RosterHolds` is its sibling for sessions.

Several properties name the races they exclude, each by a history variable that
records it: `UnlistedIsExplained` (a cleaner or a list that drops what has come
back, a death), `DownloadsAreVerified` (the upload URL used after a check),
`StatusIsTrue` and `LifecycleHolds` (two calls that change one artifact at once,
a death), `EndedIsRefused` (a verification that read the row before a revocation
and cached it after). They say that nothing else goes wrong, and by themselves nothing about the excluded
cases; section 6 says what happens in those, and `artifact_mismatch` and
`stream_missed` show two of them.

`CasExclusive` is about keys that never get a TTL, and `UpdatesAreKept` about those
nobody deletes either (`Lasting`): an expiry starts versions and values again, and
a delete a counter or a list. Of a counter it also asks that the clock stay within
the lifetime of operation records, after which a retry counts twice.

`ActsOnWhatItRead` is about methods that read in one round trip and act in a later
one. A delete that names a version its read could know of makes a tombstone of the
very entry it read (on keys that never expire); a delete that names none, or a later
one, may delete a value nobody read, see section 6. A list takes a live key out of
the index only if that key was written while the list ran: this is the harm the code
allows, and the property that nothing else hides a live key.

`AppliedAsAnswered` joins the client's retry loop and what each route does when it
is asked again: whichever attempts are lost, answered late or still being served, a
write, append or increment takes effect at most once, any other call at most once
per attempt, and whatever is answered did take effect. Its mutant gives each attempt
its own `operationId`.

## 5. Theorems

All are proved for every value of the constants, under the named assumptions
`StoreConstants` (well-formed workloads, operation ids usable as list items,
bounds that are numbers), `BusConstants` (well-formed settings, priorities and
bounds that are numbers), `AuditConstants` (troubles and bounds that are
numbers), `StoreSettings` and `LiveConstants` (well-formed settings, finitely
many callers, a replay buffer of at least one event, sockets that are not
waiters), `SessionConstants` (well-formed settings, finite sets of callers,
TTLs), `ArtifactConstants` (well-formed settings, contents that have a size) and
`AccessConstants` (well-formed settings, TTLs above 0, initial accounts with a
tenant each, as signups make them), which TLC evaluates on every run of their
modules. Three theorems of the bus have a hypothesis besides, see below.

| Theorem | States |
|---|---|
| `TypeCorrect` | `Spec => []TypeOK` |
| `AppliedOnce` | `Spec => []OncePerOpsTtl` |
| `ReplayIsTruthful` | `Spec => []ReplayIsOwnCommit` |
| `HistoryIsARun` | `Spec => []HistoryEndsAtEntry` |
| `RestoreIsExplicit` | `Spec => WritesDoNotResurrect` |
| `MirrorIsFaithful` | `Spec => []MirrorAgrees`: script and mirror agree on every entry a key comes to hold |
| `StoreImplementsRegister` | `Spec => ImplementsRegister` |
| `ActsOnReads` | `Spec => ActsOnWhatItRead` |
| `CasIsExclusive` | `Spec => CasExclusive` |
| `NoUpdateIsLost` | `Spec => []UpdatesAreKept` |
| `MirrorAgreesWithLua` (`ConflictResolutionProofs`) | the two decisions are equal unless an empty array meets a merge |
| `AuditTypeCorrect` (`AuditLogProofs`) | `Spec => []TypeOK` of the audit log |
| `ContiguousSteps` | `Spec => []StepsAreContiguous` |
| `ClocksOrderRuns` | `Spec => []ClocksOrderTheRun` |
| `NothingReturnedIsLost` | `Spec => []OutageLosesNothing` |
| `DiffIsFirst` | `Spec => []DiffFindsFirst` |
| `SessionsTypeCorrect` (`SessionsProofs`) | `Spec => []TypeOK` of the registry |
| `RosterIsBounded` | `Spec => []RosterHolds` |
| `IndexIsExplained` | `Spec => []UnlistedIsExplained` |
| `ArtifactsTypeCorrect` (`ArtifactsProofs`) | `Spec => []TypeOK` of artifacts |
| `DownloadsVerified` | `Spec => []DownloadsAreVerified` |
| `StatusesAreTrue` | `Spec => []StatusIsTrue` |
| `LifecycleIsKept` | `Spec => LifecycleHolds` |
| `BusTypeCorrect` (`RedisBusProofs`) | `Spec => []TypeOK` of the bus |
| `TrimmingAloneLoses` | a message of a stream is deliverable, settled or was trimmed by MAXLEN |
| `AtLeastOnceDelivery` | `StreamMaxLen >= MaxEntries`: `Spec => []NothingIsLost` |
| `BusImplementsDelivery` | `StreamMaxLen >= MaxEntries`: `Spec => ImplementsDelivery` |
| `ClaimsTakeHighest` | `Spec => []ClaimTakesHighest` |
| `RepliesAnswer` | `Spec => []RecordedReplyAnswers` |
| `RetriesAreBounded` | `IsFiniteSet(Sweepers)`: `Spec => []DeliveryBudget` |
| `StoreTypeCorrect` (`ContextStoreProofs`) | `Spec => []TypeOK` of the facade, live events and the index |
| `EveryListenerIsServed` | `Spec => []ListenersAreServed` |
| `GapsAreRecovered` | `Spec => []GapIsRecovered` |
| `WakeupsAreNotLost` | `Spec => []WakeupIsNotLost` |
| `CapIsKept` | `Spec => []CapHolds` |
| `CommitsAreAuditedOnce` | every version has at most one audit entry, made or on its way, and exactly one unless a call died |
| `CommitsAreFollowed` | `Spec => []CommitsAreFollowedUp` |
| `ClientsTypeCorrect` (`ClientsProofs`) | `Spec => []TypeOK` of the server's front and its clients |
| `EndedAreRefused` | `Spec => []EndedIsRefused` |
| `GatesAreKept` | `Spec => []GatesHold` |
| `AnswersAreTrue` | `Spec => []AppliedAsAnswered` |
| `HappenedBeforeIsAnOrder`, `CompareIsConsistent`, `MergeIsLeast` | the laws of vector clocks for any set of agents |

The argument. None of the interesting invariants is inductive alone; what follows
names the inductive one behind each. TLC checked every one of them on the
instance of its component before it was proved.

The store. The lemma `StepCases` reduces every step to three kinds: a *commit*
to one key (whichever script or caller made it, by an operation that is not
remembered), a *tick*, or a *quiet* step that leaves Redis' data alone, and the
invariants are proved once per kind.

- `OncePerOpsTtl` and `ReplayIsOwnCommit` need `Remembers`: an operation that
  committed less than `OpsTtl` ago is still in `ops`, whose expiry is at least
  that far ahead. Without it a tick could drop a fresh operation.
- `HistoryEndsAtEntry` needs `HistoryLife`: a history never outlives the entry
  it ends with, because an entry without a TTL loses its expiry while its
  history keeps the old one, and an entry with one gives the history the same.
- `StoreImplementsRegister` maps commit to `Commit`, tick to `Lapse` with the
  keys that are due, and a quiet step to a stutter.
- `ActsOnWhatItRead` needs, for deletes, `LastsOK` (below) of what a delete has read:
  the version it names is still current only if nobody committed since. For lists it
  needs `ListOK`: a key a list saw null is null still or was written since the list
  began, because only a commit makes a null key live (`NullStays`).
- `CasExclusive` needs `LastsOK`: on a key that never expires the version is the
  number of the key's commits, and the entry a caller has read is the one logged
  under the version it read, so that an `expectedVersion` that matches leaves no
  room for a commit in between. On a key that expires, versions start again.
- `UpdatesAreKept` needs besides `LivingOK`: the entry of a key that nobody gives a
  TTL or deletes is alive, and a counter's value is its version when every
  increment is by one. `LastingCases` then says that each commit to such a key
  starts from the value of the commit before. The items of a list need a lemma on
  sequences, `NewestOfNewest` (trimming before an append takes nothing more than
  trimming after it), and the number of a counter's operations is its version
  because, while operations are remembered (`UntilOK`), no two commits are of one.

The bus. One invariant, `IInv`, serves all theorems, and the last has another beside it.

- Its heart is `KeepsOK`: a message of a stream is settled, or has an entry that
  waits or is pending, or one that MAXLEN took. Such an entry may be taken away by
  a sweep that has added another, so the calls carry what they know: `GoodSweeping`
  says that whoever is about to XACK an entry has settled its message or added a
  *later* entry that keeps it (`KeptAfter`, and the order of entries is what makes
  two overlapping sweeps of one message come out right); `GoodAnswer` that an ack or
  a reply in flight is of a message whose work is done; `MetaOK` that metadata
  names an entry of its own message, so that an ack through it acknowledges the
  right one.
- Nothing is assumed for `TrimmingAloneLoses`. `AtLeastOnceDelivery` and
  `BusImplementsDelivery` have the hypothesis `StreamMaxLen >= MaxEntries`: no stream
  outgrows its MAXLEN, so that none is trimmed. Without it both are false of the
  code (section 6), and every run has it too. The refinement maps a message to
  "settled", "owed" or "none"; the work is to show that a step settles or adds at
  most one message, and never takes one back.
- `ClaimsTakeHighest` needs `GoodClaim`: of the entries that waited when the claim
  began, none still waits in a stream it has read to the end. That XREADGROUP takes
  the first of those that wait is a lemma about the k smallest of a set of numbers.
- `DeliveryBudget` needs `BudgetInv`. An id is given to one call only, which adds its
  message once (`FreshIds`). The entries of a message differ in retry count, and
  count up to `maxRetries` (`CopiesCount`); so there are no more than `maxRetries + 1`
  (`FewDeliveries`). A sweep never copies the same entry twice, because an entry that
  has a copy or is a dead letter is over: delivered, in no sweep's hands, and pending
  only until the sweep that copied it has sent its XACK (`OverIsDone`). This last
  part is what two overlapping sweeps, or a death between XADD and XACK, break; hence
  the premises of `DeliveryBudget`. A finite `Sweepers` gives the cardinality there
  its meaning.

The audit log.

- `StepsAreContiguous` needs `CountersCount`: the counter of a run is the
  number of its rows. Refused transactions keep both, committed ones raise both.
- `ClocksOrderTheRun` needs `EntriesAreBefore`: until a clock lapses, the Redis
  hash is at or after every clock it gave out, and the next tick is after it.
- `OutageLosesNothing` needs `Placed`: an entry is in the retry list or in one pair
  of hands, never twice; what the list and the drains hold has been returned; ids
  in use are those of ticks that have been. A full list then holds `RetryMax`
  different returned entries, so that after an LTRIM that many are kept; without
  one, whatever was found stays found, because a drain lets go of an entry only as
  it becomes a row or goes back to the list.
- `DiffFindsFirst` follows from contiguous steps: the row at a step is the one at
  that position, and a nonempty set of positions has a least one.

The facade and live events.

- `ListenersAreServed` needs the shape of the connection: an UNSUBSCRIBE is sent
  only when no listener is left, so that the connection carries UNSUBSCRIBEs before
  SUBSCRIBEs and never the other way round, and `channelTaken` is the effect its
  last command will have.
- `GapIsRecovered` needs `GapOK`: sequence numbers in `buffer` (`BufferOK`), on the
  connection (`ArrivingOK`) and in a broadcast (`OneBroadcast`) are consecutive
  and rise, and what a client is owed and has not seen is on its way while it is
  connected, or after what it asks for next (`SeenOK`). The proof attempt found a
  step that breaks it, which the model now names "skip" (section 6).
- `WakeupIsNotLost` needs `WakeOK`, the same promise from the *read* of awaitKey on:
  between the read and the wait an event wakes the call in advance.
- `CapHolds` needs `CapOK`: the keys of the index together with those a call is
  about to bring (`Coming`) are fewer than the cap plus the callers.
- `CommitsAreFollowedUp` is two theorems. `AuditOK` says that trail and calls
  together tell of each version once (`ToldOnce`), of none that does not exist
  (`ToldAsMade`) and, unless a call died, of all (`ToldAll`); `SearchOK` that every
  upsert still to come of a key whose commits do not overlap is of its current
  version, and if none is to come, that the row is.

Sessions and artifacts.

- `RosterIsBounded` needs `CapOK`: the roster together with the joins that have
  passed the check and not yet added their agent (`Joined`) is at most the cap
  plus the other callers. The roster alone is not inductive: a pending SADD may
  come after any number of leaves and joins. The count is of the union, because
  two joins of one agent take one place.
- `DownloadsVerified` needs `Good` of every call and `RowGood` of every file: what
  a call at each step of complete may rely on as long as nobody rewrote the bytes
  (the size after stat, the hash after hash), and that a pending download is of
  the recorded bytes. Every step is one of two kinds, `QuietStep` (rows and bytes
  stay) and `FileStep` (those of one file change).
- `StatusIsTrue` and `LifecycleHolds` need `Life`. `Settled` says that two calls
  past their first check on one file leave the mark "raced" (or "overlapped", when
  one of them is still to be audited), so that on an unmarked file a call is alone.
  `Steady` says what it may then rely on: the row is pending on the way to a verdict,
  the bytes are there once the checks have passed and gone once they are deleted,
  and what it is about to audit is the status of the row. Every step moves one call
  (`Moves`) and touches one file; `LifeKept` settles the others.

Access and clients.

- All four need `CallsOK`: the stage of a request tells which operation it is of
  and what it knows (`Suits`), and only attempts that were sent are served. Most
  steps of the server are then one kind, `Moved`: one request moves to a stage
  that suits it.
- `EndedIsRefused` needs besides that nothing is cached of a credential before it
  is made (`CredOK`): a row made later would inherit it.
- `GatesHold` needs that the tenants are exactly those of the accounts (`OwnersOK`),
  that the counter of the present window has counted whatever was let through in it
  and does not expire before it ends, and that a ticket which
  opened a socket is spent and can never be minted again (`CountsOK`).
- `AppliedAsAnswered` needs a budget (`CountOK`): the times a call without an
  `operationId` took effect together with its attempts that still may (`Unspent`) are
  at most its attempts; for the others, that the store remembers the `operationId`
  exactly if it was applied; that what looks done has been done, and that whoever is
  to be told "ok" took effect (`DoneOK`).

Left to TLC: liveness (`EverythingSettles`, `OutageIsDrained`,
`ExpiredLeavesIndex`), which is out of the prover's reach. Every other property that a
passing run checks is the statement of a theorem.

## 6. Where documentation and code differ

Each of these has a run that shows it:

- `store_resurrection`: append and increment clear `isDeleted` with no guard
  (`redis-store.ts:192`, `:234`), though README.md:107 of the repository says a
  stale write cannot resurrect a deleted key.
- `audit_lost`: an entry that Postgres committed without answering is buffered
  (`audit-log/index.ts:99-107`); its second INSERT always hits the primary key,
  it goes back to the end drains pop from, and no entry behind it is ever
  drained, though `sessions.mdx:56-58` says buffered entries are drained once
  the database returns.
- `artifact_mismatch`: complete hashes the object (`artifacts/index.ts:169`) and
  makes the row available in a later round trip (line 194), while the presigned
  PUT stays usable: other bytes become available, though `artifacts.mdx:68-69`
  says that a mismatch never does.
- `stream_missed`: event 2 may be published before event 1, because a broadcast
  takes its number, buffers and publishes in three round trips
  (`ws-broadcaster.ts:68-80`) that nobody waits for. A client that got 2 and
  lost its connection before 1 asks for what follows 2 and never sees 1, though
  `sdk.mdx:97-98` says the stream reconnects "so you don't miss events". The
  proof of `GapIsRecovered` found a second way to the same gap, without any
  overlap: the server subscribes a reconnected socket (`api/app.ts:457`) before it
  sends the resync (lines 461-464). An event that arrives in between advances the
  client's `lastSeq` past the events the resync is to bring; if the connection
  drops before it does, the next one no longer asks for them.

Seen while modelling, without a run of their own:

The store and the facade:

- `list` drops from the index a key that was written again since it read it
  (`redis-store.ts:569`); list, has and countKeys then miss it;
- append and increment keep the old `ttlSeconds` while SET drops the expiry
  (`redis-store.ts:194`): hidden by `isStale`, kept by Redis;
- `pgvector-search.ts:30-40` upserts without comparing versions, though its header
  speaks of the latest version: of two overlapping writes the older embedding may
  stay; increments are never embedded; embeddings are made by the server that
  wrote, not by a "background job" (`005_context_embeddings.sql:2`);
- a delete whose answer was lost and that is retried is answered
  `already_deleted`, not replayed (`redis-store.ts:444`);
- a call that dies between its commit and its audit entry, or whose clock tick
  fails there (`audit-log/index.ts:84`), is never audited: its retry is a replay,
  and replays append nothing (`context-store/index.ts:91-92`;
  `CommitsAreFollowedUp` excludes deaths);
- `increment` checks no entry cap (`context-store/index.ts:182-196`; `CapHolds`
  does not count its keys);
- a merge with an empty array: the script takes `[]` for an object, the mirror
  does not (`redis-store.ts:104`, `conflict.ts:28`; excluded by
  `MergesEmptyArray`); append and increment re-encode the whole entry through
  cjson, which turns empty arrays elsewhere in it into `{}`;
- versions start at 1 again after an expiry ("monotonic", `context-store.mdx:28`),
  and a history given a TTL once expires although a later write made the entry
  permanent ("every version is retained", `context-store.mdx:105`);
- delete's tombstone holds the value of its earlier read (`redis-store.ts:437`,
  `:457`): unless it names the version it knows, a write in between is deleted
  unseen, and the tombstone keeps an older value than the last one (comment,
  lines 455-456); two deletes that both read the live entry make two tombstones.

The bus and live events:

- an ack between a sweep's XADD and its metadata write (`redis-bus.ts:240`)
  acknowledges the old entry, and the message comes again, though
  `message-bus.mdx:112` ends it with the ack;
- `reply` is several commands (`message-bus/index.ts:219-230`): a crash between
  them leaves the reply sent and the original open;
- a dispatch has no idempotency key: one that is retried after a lost answer is
  enqueued twice (`message-bus/index.ts:60-98`), though `sdk.mdx:60-61` says that a
  retried dispatch is applied once;
- MAXLEN trims unclaimed messages of an inbox longer than
  `SPANOAI_STREAM_MAXLEN` (`redis-bus.ts:119`; "delivered at least once",
  `message-bus.mdx:6-7`);
- `message-bus.mdx:82` counts priorities 0 to 4, the code 1 to 5;
- `getMissed` answers "nothing missed" when the buffer has expired
  (`ws-broadcaster.ts:97`), and a client that has not seen an event asks for
  none when it reconnects (`client.ts:164`); the RESYNC message does not advance
  the SDK's `lastSeq` (`client.ts:173`), so the next reconnect asks again;
- a socket that closes before `subscribe` returns leaves its handler behind,
  and the channel subscribed (`api/app.ts:475-478`).

The audit log:

- the retry buffer is called durable (`audit-log/index.ts:100`), but a drain
  holds an entry in memory only between RPOP and the commit or the RPUSH: a
  death there loses it (`OutageLosesNothing` excludes deaths);
- all agents of a run tick one shared clock, so that appends are totally ordered
  by their clocks and `compare` never answers "concurrent" on a run's entries
  (`ClocksOrderTheRun`), though the clock is meant to tell concurrent events from
  ordered ones; and the order of steps may differ from that of the clocks.

Sessions:

- `list` prunes an expired session from the index (`sessions/index.ts:119-120`),
  and the cleaner then never finds it: no SESSION_END is audited, though line 5
  and `sessions.mdx:45-46` say that session ends are; two cleaners, or an
  end and a cleaner, audit it twice; end audits before it deletes;
- `touch` gives a session created with a TTL of its own the default one
  (`sessions/index.ts:177`; `sessions.mdx:22-24`); it refreshes neither the member
  set nor the abort flag, so that the roster of a live session may expire, and a
  session created again may be born aborted; it never lists a live session that
  lost its place in the index;
- join audits after its SADD, so that the trail may show it after a leave that
  undid it.

Artifacts:

- retention never finds anything: `initUpload` stores `expiresAt` null
  (`artifacts/index.ts:107`; `artifacts.mdx:80-83`); pending rows and their bytes
  are never reclaimed;
- complete compares with its own sha256, never with the one declared at init
  (`models/artifact.ts:51`); bytes of another size put between the size check and
  the hash become available if they have that sha256;
- complete racing delete can make a deleted artifact available again; a complete
  that is retried after it succeeded is answered 409.

Access and clients:

- a verification that read the row before a revocation and caches it after
  accepts the credential for up to 300 s more (`auth/api-keys.ts:138`, against its
  header, lines 11-12);
- a replayDlq that is retried while its first attempt is between `enqueue` and
  `removeFromDlq` (`message-bus/index.ts:301-302`) enqueues the message twice;
- the `/keys` routes count against one bucket "anon" of all tenants
  (`api/middleware.ts:105` says per tenant);
- the Python SDK sends again after a network error, the TypeScript SDK does not,
  though `client.py:9-10` claims the same behaviour;
- the dashboard's stream reconnects without `lastSeq`, and its session page loads
  again only on context events (`[sessionId]/page.tsx:63`), applying answers in the
  order they arrive.

## 7. Plan

Done: every module of section 2, and the theorems of section 5.

No property but liveness is left to prove. What could be added is how far overlapping
sweeps or deaths stretch the delivery budget, which today no property bounds.

## 8. Not modelled

Configuration, wiring, logging and metrics, connecting to the databases and
migrating them (all before the first request), request validation and body
limits, hashing of secrets, embedding vectors and their ranking, retention of
artifacts (it never finds a row), the drawing of pages (`components/ui`), the
documentation site and the landing page. Object storage, the scanner, Postgres
and Redis are modelled by what the code relies on. Within the modelled parts:
wording, JSON encoding beyond the empty-array case, message deadlines and idle
times in real time, `awaitReply`'s polling, `pruneInbox` and `moveToDlq`, which
nothing calls, namespaces and a tenant's `is_active`.
